------------------------------ MODULE Keystore ------------------------------
(***************************************************************************)
(* The wallet file (wallet/keystore.py) and the processes that open it:    *)
(* the command line (wallet/cli.py), one command per process, and the      *)
(* desktop wallet (gui/wallet_app.py), which keeps the document it read in *)
(* memory for as long as its window is open.                               *)
(*                                                                         *)
(* save() writes <wallet>.tmp and renames it.  The file has no lock and    *)
(* the temporary name is the same in every process, so the steps of save() *)
(* are separate actions.  Labels and times are left out: a change of label *)
(* is a save of what the process has in memory.                            *)
(***************************************************************************)
EXTENDS Integers, FiniteSets, Sequences, SequencesExt

CONSTANTS
    Proc,       \* processes that open the file
    Window,     \* those that stay open: desktop wallets
    Seed,       \* seeds a mnemonic may give
    Key,        \* private keys that do not come from a seed
    Password,
    MaxIndex,   \* bound on the derivation index
    MaxSave,    \* bound on the calls of save()
    None

ASSUME KeystoreAssumption ==
    /\ Window \subseteq Proc /\ MaxIndex \in Nat /\ MaxSave \in Nat
    /\ None \notin Proc \cup Seed \cup Key \cup Password

VARIABLES
    disk,       \* what the path of the wallet leads to
    temp,       \* what the path with .tmp leads to
    mem,        \* the Keystore object of each process
    saving,     \* how far each process is in save()
    handle,     \* where the temporary file a process writes can be found now
    base,       \* the document a process read or wrote last (what it believes is on disk)
    telling,    \* what the user hears when the save in progress succeeds
    told,       \* what the user was told about the file
    phrases,    \* seeds whose mnemonic the user has
    raced,      \* what two processes did to each other's saves
    saves

ksVars == <<disk, temp, mem, saving, handle, base, telling, told, phrases, raced, saves>>

Missing == [is |-> "missing"]
Torn    == [is |-> "torn"]
Closed  == [is |-> "closed"]
Derived == Seed \X (0..MaxIndex)
Address == Derived \cup Key

Document ==
    [is : {"document"}, seed : Seed \cup {None}, next : 0..MaxIndex + 1, addrs : Seq(Address),
     imported : SUBSET Key, password : Password \cup {None}]

Nothing == [addrs |-> {}, password |-> None]
Silent  == [addrs |-> {}, password |-> None, phrase |-> {}]

\* A version 1 wallet: keys, and no seed to derive more from.
Legacy(k) == [is |-> "document", seed |-> None, next |-> 0, addrs |-> <<k>>, imported |-> {k},
              password |-> None]

Fresh(s, pw) == [is |-> "document", seed |-> s, next |-> 1, addrs |-> <<<<s, 0>>>>,
                 imported |-> {}, password |-> pw]

KeystoreInit(d) ==
    /\ disk = d /\ temp = Missing
    /\ mem = [p \in Proc |-> Closed] /\ saving = [p \in Proc |-> "no"]
    /\ handle = [p \in Proc |-> "none"] /\ base = [p \in Proc |-> Missing]
    /\ telling = [p \in Proc |-> Silent]
    /\ told = IF d = Missing THEN Nothing
              ELSE [addrs |-> ToSet(d.addrs), password |-> d.password]
    /\ phrases = IF d = Missing THEN {} ELSE {d.seed} \ {None}
    /\ raced = {} /\ saves = 0

Ready(p)  == mem[p] # Closed /\ saving[p] = "no"
\* _require_keys: neither locked nor in the middle of a save.
Usable(p) == Ready(p) /\ mem[p].unlocked

-----------------------------------------------------------------------------
(* Opening the file.                                                       *)

\* Keystore.load: an encrypted wallet opens locked.
Load(p) ==
    /\ mem[p] = Closed /\ disk \in Document
    /\ mem' = [mem EXCEPT ![p] = [is |-> "open", doc |-> disk, unlocked |-> disk.password = None]]
    /\ base' = [base EXCEPT ![p] = disk]
    /\ UNCHANGED <<disk, temp, saving, handle, telling, told, phrases, raced, saves>>

\* unlock: the envelope that was read decides, whatever the file holds by now.
Unlock(p, pw) ==
    /\ Ready(p) /\ ~mem[p].unlocked /\ pw = mem[p].doc.password
    /\ mem' = [mem EXCEPT ![p].unlocked = TRUE]
    /\ UNCHANGED <<disk, temp, saving, handle, base, telling, told, phrases, raced, saves>>

\* The process ends: the command is over, the window is closed, or it is killed.
Ends(p) ==
    /\ mem' = [mem EXCEPT ![p] = Closed] /\ saving' = [saving EXCEPT ![p] = "no"]
    /\ handle' = [handle EXCEPT ![p] = "none"] /\ base' = [base EXCEPT ![p] = Missing]
    /\ telling' = [telling EXCEPT ![p] = Silent]

End(p) ==
    /\ mem[p] # Closed /\ Ends(p)
    /\ UNCHANGED <<disk, temp, told, phrases, raced, saves>>

\* The disk fails, or the user moves to another machine with the phrase alone.
LoseFile ==
    /\ disk # Missing /\ phrases # {} /\ \A p \in Proc : mem[p] = Closed
    /\ disk' = Missing /\ temp' = Missing /\ told' = Nothing
    /\ UNCHANGED <<mem, saving, handle, base, telling, phrases, raced, saves>>

-----------------------------------------------------------------------------
(* Changing it.  Every command ends in save().                             *)

\* Mutant of new_address: the user sees the address before it is saved.
BeginSaveTells(p, doc, addrs, phrase) ==
    /\ saves < MaxSave /\ saves' = saves + 1
    /\ mem' = [mem EXCEPT ![p] = [is |-> "open", doc |-> doc, unlocked |-> TRUE]]
    /\ saving' = [saving EXCEPT ![p] = "open"]
    /\ telling' = [telling EXCEPT ![p] = [addrs |-> addrs, password |-> doc.password,
                                          phrase |-> phrase]]
    /\ told' = [told EXCEPT !.addrs = @ \cup addrs]
    /\ UNCHANGED <<disk, temp, handle, phrases, raced>>

BeginSave(p, doc, addrs, phrase) ==
    /\ saves < MaxSave /\ saves' = saves + 1
    /\ mem' = [mem EXCEPT ![p] = [is |-> "open", doc |-> doc, unlocked |-> TRUE]]
    /\ saving' = [saving EXCEPT ![p] = "open"]
    /\ telling' = [telling EXCEPT ![p] = [addrs |-> addrs, password |-> doc.password,
                                          phrase |-> phrase]]
    /\ UNCHANGED <<disk, temp, handle, told, phrases, raced>>

\* Keystore.create refuses a path that exists, and looks only once.
MakeWallet(p, s, pw) ==
    /\ mem[p] = Closed /\ disk = Missing
    /\ base' = [base EXCEPT ![p] = Missing]
    /\ BeginSave(p, Fresh(s, pw), {<<s, 0>>}, {s})

InUse(s) ==
    \/ s \in phrases \/ (temp \in Document /\ temp.seed = s)
    \/ \E p \in Proc : mem[p] # Closed /\ mem[p].doc.seed = s

Create(p) == \E s \in Seed, pw \in Password \cup {None} : ~InUse(s) /\ MakeWallet(p, s, pw)

\* restore: the first address of the seed, and no other.
Restore(p) == \E s \in phrases, pw \in Password \cup {None} : MakeWallet(p, s, pw)

\* new_key: the next address of the seed, or a key of its own in a legacy wallet.
NewKey(doc, k) ==
    IF doc.seed # None
    THEN [doc EXCEPT !.next = @ + 1, !.addrs = Append(@, <<doc.seed, doc.next>>)]
    ELSE [doc EXCEPT !.imported = @ \cup {k}, !.addrs = Append(@, k)]

\* PrivateKey.generate: a key nobody has seen.
RandomKey == {k \in Key \ told.addrs : \A p \in Proc : mem[p] # Closed => k \notin mem[p].doc.imported}

NewAddress(p) ==
    /\ Usable(p) /\ mem[p].doc.next <= MaxIndex
    /\ \E k \in IF mem[p].doc.seed = None THEN RandomKey ELSE {None} :
          LET doc == NewKey(mem[p].doc, k) IN BeginSave(p, doc, {Last(doc.addrs)}, {})
    /\ UNCHANGED base

\* import_wif: a key the wallet has is refused.
ImportWif(p, k) ==
    /\ Usable(p) /\ k \notin mem[p].doc.imported
    /\ BeginSave(p, [mem[p].doc EXCEPT !.imported = @ \cup {k}, !.addrs = Append(@, k)], {k}, {})
    /\ UNCHANGED base

\* set_password: a new password, or none.
SetPassword(p, pw) ==
    /\ Usable(p) /\ pw # mem[p].doc.password
    /\ BeginSave(p, [mem[p].doc EXCEPT !.password = pw], {}, {})
    /\ UNCHANGED base

SetLabel(p) ==
    /\ Usable(p) /\ BeginSave(p, mem[p].doc, {}, {})
    /\ UNCHANGED base

-----------------------------------------------------------------------------
(* save().                                                                 *)

Collides(p) == \E q \in Proc \ {p} : saving[q] \in {"write", "rename"}

\* Mutant of save: the wallet itself is opened and written.
OpenTempInPlace(p) ==
    /\ saving[p] = "open" /\ saving' = [saving EXCEPT ![p] = "write"]
    /\ disk' = Torn /\ temp' = mem[p].doc /\ handle' = [handle EXCEPT ![p] = "disk"]
    /\ raced' = IF Collides(p) THEN raced \cup {"collided"} ELSE raced
    /\ UNCHANGED <<mem, base, telling, told, phrases, saves>>

\* write_text opens the temporary file, which empties it.
OpenTemp(p) ==
    /\ saving[p] = "open" /\ saving' = [saving EXCEPT ![p] = "write"]
    /\ temp' = Torn /\ handle' = [handle EXCEPT ![p] = "temp"]
    /\ raced' = IF Collides(p) THEN raced \cup {"collided"} ELSE raced
    /\ UNCHANGED <<disk, mem, base, telling, told, phrases, saves>>

\* The text goes to the file that was opened, under whichever name it has by now.
WriteTemp(p) ==
    /\ saving[p] = "write" /\ saving' = [saving EXCEPT ![p] = "rename"]
    /\ IF handle[p] = "temp" THEN temp' = mem[p].doc /\ UNCHANGED disk
                             ELSE disk' = mem[p].doc /\ UNCHANGED temp
    /\ handle' = [handle EXCEPT ![p] = "none"]
    /\ UNCHANGED <<mem, base, telling, told, phrases, raced, saves>>

\* os.replace: whatever has the temporary name becomes the wallet; the user is told.
Replace(p) ==
    /\ saving[p] = "rename" /\ temp # Missing
    /\ disk' = temp /\ temp' = Missing
    /\ handle' = [q \in Proc |-> IF handle[q] = "temp" THEN "disk" ELSE handle[q]]
    /\ raced' = IF disk # base[p] THEN raced \cup {"stale"} ELSE raced
    /\ told' = [addrs |-> told.addrs \cup telling[p].addrs, password |-> telling[p].password]
    /\ phrases' = phrases \cup telling[p].phrase
    /\ saving' = [saving EXCEPT ![p] = "no"] /\ telling' = [telling EXCEPT ![p] = Silent]
    /\ mem' = [mem EXCEPT ![p] = IF p \in Window THEN @ ELSE Closed]
    /\ base' = [base EXCEPT ![p] = IF p \in Window THEN mem[p].doc ELSE Missing]
    /\ UNCHANGED saves

\* The other process has renamed it away: an error nobody catches.
ReplaceFails(p) ==
    /\ saving[p] = "rename" /\ temp = Missing /\ Ends(p)
    /\ UNCHANGED <<disk, temp, told, phrases, raced, saves>>

KeystoreEdit ==
    \/ LoseFile
    \/ \E p \in Proc :
          \/ Create(p) \/ Restore(p) \/ NewAddress(p) \/ SetLabel(p)
          \/ \E k \in Key : ImportWif(p, k)
          \/ \E pw \in Password \cup {None} : SetPassword(p, pw)
          \/ OpenTemp(p) \/ WriteTemp(p) \/ Replace(p) \/ ReplaceFails(p)

-----------------------------------------------------------------------------

\* A process that is killed at any point of save() leaves a wallet that can be
\* read: the old one or the new one.  Only two saves at the same time may not.
FileStaysWhole == "collided" \in raced \/ disk # Torn

\* The keys of a document: those of its seed, and the imported ones.
Spends(doc, a) == a \in doc.imported \/ \E i \in 0..doc.next - 1 : a = <<doc.seed, i>>

\* What the user was told is in the file: every address that was shown is
\* listed, with its key, and the password is the one that was confirmed last.
\* A process whose document is older than the file undoes what it did not see.
ToldIsTrue ==
    (raced = {} /\ disk \in Document)
       => /\ told.password = disk.password
          /\ \A a \in told.addrs : a \in ToSet(disk.addrs) /\ Spends(disk, a)

=============================================================================
