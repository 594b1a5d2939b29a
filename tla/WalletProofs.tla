---------------------------- MODULE WalletProofs ----------------------------
(***************************************************************************)
(* Proofs about the wallet file and about payments, for any number of      *)
(* processes, seeds, keys and passwords, and for every bound.              *)
(*                                                                         *)
(* The file: as long as no process opened the temporary file while another *)
(* one was between opening and renaming it, at most one process is there,  *)
(* the name .tmp leads to the file it writes, and what it renames is the   *)
(* document it has in memory.  A document in memory holds every address    *)
(* and key of the document the process read or wrote last, so a save whose *)
(* base is still on disk takes nothing away that the user was told about.  *)
(*                                                                         *)
(* Payments: what the node accepted stays in its pool or its chain, so an  *)
(* answer that says yes is still true when it arrives.                     *)
(*                                                                         *)
(* Coin selection: coins are ranked by value and by where they are listed. *)
(* No coins of their number are worth more than the first by value, so the *)
(* first that are enough are as few as can be; the coins of a sweep are    *)
(* cut at their ranks.  What the node lists it lists once, because pooled  *)
(* transactions spend coins there are and change is a new coin.            *)
(***************************************************************************)
EXTENDS Wallet, FoldLemmas, TLAPS, FiniteSetTheorems

State == {"no", "open", "write", "rename"}

\* The shape of the file, of the temporary file and of what a process holds.
Shapes ==
    /\ disk \in {Missing, Torn} \cup Document
    /\ temp \in {Missing, Torn} \cup Document
    /\ saving \in [Proc -> State]
    /\ handle \in [Proc -> {"none", "temp", "disk"}]
    /\ base = [p \in Proc |-> base[p]]
    /\ mem = [p \in Proc |-> mem[p]]
    /\ telling = [p \in Proc |-> telling[p]]
    /\ \A p \in Proc : mem[p] # Closed => mem[p] \in [is : {"open"}, doc : Document, unlocked : BOOLEAN]
    /\ \A p \in Proc : saving[p] # "no" => mem[p] # Closed
    /\ phrases \subseteq Seed /\ \A p \in Proc : telling[p].phrase \subseteq Seed

Busy(p) == saving[p] \in {"write", "rename"}

\* Saves that did not collide: one process at a time has the temporary file.
Alone ==
    "collided" \notin raced =>
       /\ disk # Torn
       /\ \A p, q \in Proc : Busy(p) /\ Busy(q) => p = q
       /\ \A p \in Proc : saving[p] = "write" => handle[p] = "temp"
       /\ \A p \in Proc : saving[p] = "rename" => temp = mem[p].doc

FileInv == Shapes /\ Alone

-----------------------------------------------------------------------------
(* Documents.                                                              *)

\* The documents the operations make are documents.
LEMMA FreshDocument ==
    ASSUME NEW s \in Seed, NEW pw \in Password \cup {None}
    PROVE  /\ Fresh(s, pw) \in Document
           /\ Fresh(s, pw).password = pw
           /\ <<s, 0>> \in ToSet(Fresh(s, pw).addrs) /\ Spends(Fresh(s, pw), <<s, 0>>)
  <1>1. <<s, 0>> \in Address
    BY KeystoreAssumption DEF Address, Derived
  <1>2. <<<<s, 0>>>> \in Seq(Address)
    BY <1>1
  <1>3. 1 \in 0..MaxIndex + 1
    BY KeystoreAssumption
  <1>4. Fresh(s, pw) \in Document
    BY <1>2, <1>3 DEF Fresh, Document
  <1>5. <<s, 0>> \in ToSet(<<<<s, 0>>>>)
    BY DEF ToSet
  <1>6. Spends(Fresh(s, pw), <<s, 0>>)
    BY DEF Spends, Fresh
  <1> QED
    BY <1>4, <1>5, <1>6 DEF Fresh

\* Every address and key of the first document is in the second.
Holds(old, new) ==
    /\ ToSet(old.addrs) \subseteq ToSet(new.addrs)
    /\ \A a : Spends(old, a) => Spends(new, a)

LEMMA AppendSet ==
    ASSUME NEW S, NEW s \in Seq(S), NEW x \in S
    PROVE  /\ Append(s, x) \in Seq(S)
           /\ ToSet(s) \subseteq ToSet(Append(s, x))
           /\ x \in ToSet(Append(s, x))
           /\ Last(Append(s, x)) = x
  BY DEF ToSet, Last

\* new_key adds one address, the last one, with its key.
LEMMA NewKeyDocument ==
    ASSUME NEW doc \in Document, doc.next <= MaxIndex,
           NEW k, IF doc.seed = None THEN k \in Key ELSE k = None
    PROVE  LET new == NewKey(doc, k) IN
           /\ new \in Document /\ Holds(doc, new) /\ new.password = doc.password
           /\ Last(new.addrs) \in ToSet(new.addrs) /\ Spends(new, Last(new.addrs))
  <1> DEFINE new == NewKey(doc, k)
             x == IF doc.seed # None THEN <<doc.seed, doc.next>> ELSE k
  <1>1. doc.addrs \in Seq(Address) /\ doc.next \in 0..MaxIndex + 1 /\ doc.seed \in Seed \cup {None}
        /\ doc.imported \in SUBSET Key /\ doc.password \in Password \cup {None}
    BY DEF Document
  <1>2. x \in Address
    BY <1>1, KeystoreAssumption DEF Address, Derived
  <1>3. new.addrs = Append(doc.addrs, x) /\ new.password = doc.password /\ new.seed = doc.seed
    BY DEF NewKey, Document
  <1>4. new \in Document
    <2>1. Append(doc.addrs, x) \in Seq(Address)
      BY <1>1, <1>2, AppendSet
    <2>2. CASE doc.seed = None
      BY <1>1, <2>1, <2>2 DEF NewKey, Document
    <2>3. CASE doc.seed # None
      <3>1. doc.next + 1 \in 0..MaxIndex + 1
        BY <1>1, KeystoreAssumption
      <3> QED
        BY <1>1, <2>1, <2>3, <3>1 DEF NewKey, Document
    <2> QED
      BY <2>2, <2>3
  <1>5. \A a : Spends(doc, a) => Spends(new, a)
    BY <1>1, KeystoreAssumption DEF Spends, NewKey, Document
  <1>6. Spends(new, x)
    BY <1>1, KeystoreAssumption DEF Spends, NewKey, Document
  <1> QED
    BY <1>1, <1>2, <1>3, <1>4, <1>5, <1>6, AppendSet DEF Holds

\* import_wif adds one address with its key.
LEMMA ImportDocument ==
    ASSUME NEW doc \in Document, NEW k \in Key
    PROVE  LET new == [doc EXCEPT !.imported = @ \cup {k}, !.addrs = Append(@, k)] IN
           /\ new \in Document /\ Holds(doc, new) /\ new.password = doc.password
           /\ k \in ToSet(new.addrs) /\ Spends(new, k)
  <1> DEFINE new == [doc EXCEPT !.imported = @ \cup {k}, !.addrs = Append(@, k)]
  <1>1. doc.addrs \in Seq(Address) /\ doc.next \in 0..MaxIndex + 1
    BY DEF Document
  <1>2. k \in Address
    BY DEF Address
  <1>3. new.addrs = Append(doc.addrs, k) /\ new.imported = doc.imported \cup {k}
        /\ new.seed = doc.seed /\ new.next = doc.next /\ new.password = doc.password
    BY DEF Document
  <1>4. new \in Document
    BY <1>1, <1>2, AppendSet DEF Document
  <1>5. Spends(new, k) /\ \A a : Spends(doc, a) => Spends(new, a)
    BY <1>3 DEF Spends
  <1> QED
    BY <1>1, <1>2, <1>3, <1>4, <1>5, AppendSet DEF Holds

\* set_password keeps every address and key.
LEMMA PasswordDocument ==
    ASSUME NEW doc \in Document, NEW pw \in Password \cup {None}
    PROVE  LET new == [doc EXCEPT !.password = pw] IN
           new \in Document /\ Holds(doc, new) /\ new.password = pw
  <1> DEFINE new == [doc EXCEPT !.password = pw]
  <1>1. /\ new \in Document /\ new.addrs = doc.addrs /\ new.password = pw
        /\ new.imported = doc.imported /\ new.seed = doc.seed /\ new.next = doc.next
    BY DEF Document
  <1> QED
    BY <1>1 DEF Holds, Spends

-----------------------------------------------------------------------------
(* The file stays whole.                                                   *)

LEMMA InitFile == Init => FileInv
  <1> SUFFICES ASSUME Init PROVE FileInv
    OBVIOUS
  <1>1. disk \in {Missing} \cup Document
    BY WalletAssumption DEF Init, KeystoreInit
  <1>2. disk # Torn
    BY <1>1 DEF Missing, Torn, Document
  <1> QED
    BY <1>1, <1>2 DEF Init, KeystoreInit, FileInv, Shapes, Alone, State, Busy, Silent, Document

\* What the steps before save() do to the file: nothing.
LEMMA BeginSaveFile ==
    ASSUME FileInv, NEW p \in Proc, NEW doc \in Document, NEW addrs, NEW phrase,
           saving[p] = "no", base' = [q \in Proc |-> base'[q]], phrase \subseteq Seed,
           BeginSave(p, doc, addrs, phrase)
    PROVE  FileInv'
  <1>1. Shapes'
    BY DEF FileInv, Shapes, BeginSave, State, Closed
  <1>2. Alone'
    BY DEF FileInv, Shapes, Alone, BeginSave, State, Busy
  <1> QED
    BY <1>1, <1>2 DEF FileInv

\* The process ends (killed, closed, or with an error) at any point of save().
LEMMA EndsFile ==
    ASSUME FileInv, NEW p \in Proc, Ends(p), UNCHANGED <<disk, temp, phrases, raced>>
    PROVE  FileInv'
  <1>1. Shapes'
    BY DEF FileInv, Shapes, Ends, State, Closed, Silent
  <1>2. Alone'
    BY DEF FileInv, Shapes, Alone, Ends, State, Busy
  <1> QED
    BY <1>1, <1>2 DEF FileInv

\* Opening the file and the keys.
LEMMA LoadFile ==
    ASSUME FileInv, NEW p \in Proc, Load(p) \/ \E pw \in Password : Unlock(p, pw)
    PROVE  FileInv'
  <1>1. CASE Load(p)
    <2>1. saving[p] = "no"
      BY <1>1 DEF FileInv, Shapes, Load
    <2>2. Shapes'
      BY <1>1 DEF FileInv, Shapes, Load, Closed
    <2>3. Alone'
      BY <1>1, <2>1 DEF FileInv, Shapes, Alone, Load, Busy
    <2> QED
      BY <2>2, <2>3 DEF FileInv
  <1>2. ASSUME NEW pw \in Password, Unlock(p, pw) PROVE FileInv'
    <2>1. mem[p] \in [is : {"open"}, doc : Document, unlocked : BOOLEAN] /\ saving[p] = "no"
      BY <1>2 DEF FileInv, Shapes, Unlock, Ready
    <2>2. Shapes'
      BY <1>2, <2>1 DEF FileInv, Shapes, Unlock, Closed
    <2>3. Alone'
      BY <1>2, <2>1 DEF FileInv, Shapes, Alone, Unlock, Busy
    <2> QED
      BY <2>2, <2>3 DEF FileInv
  <1> QED
    BY <1>1, <1>2

\* Every command that changes the wallet begins a save of a document that has
\* what the user will be told, and all that the process had in memory before.
LEMMA CommandBegins ==
    ASSUME FileInv, NEW p \in Proc,
           \/ Create(p) \/ Restore(p) \/ NewAddress(p) \/ SetLabel(p)
           \/ \E k \in Key : ImportWif(p, k)
           \/ \E pw \in Password \cup {None} : SetPassword(p, pw)
    PROVE  \E doc \in Document, addrs \in SUBSET Address, phrase \in SUBSET Seed :
              /\ saving[p] = "no" /\ BeginSave(p, doc, addrs, phrase)
              /\ \A a \in addrs : a \in ToSet(doc.addrs) /\ Spends(doc, a)
              /\ \/ disk = Missing /\ base' = [base EXCEPT ![p] = Missing]
                 \/ mem[p] # Closed /\ Holds(mem[p].doc, doc) /\ UNCHANGED base
  <1> DEFINE Goal ==
        \E doc \in Document, addrs \in SUBSET Address, phrase \in SUBSET Seed :
              /\ saving[p] = "no" /\ BeginSave(p, doc, addrs, phrase)
              /\ \A a \in addrs : a \in ToSet(doc.addrs) /\ Spends(doc, a)
              /\ \/ disk = Missing /\ base' = [base EXCEPT ![p] = Missing]
                 \/ mem[p] # Closed /\ Holds(mem[p].doc, doc) /\ UNCHANGED base
  <1> SUFFICES Goal
    OBVIOUS
  <1> HIDE DEF Goal
  <1>1. ASSUME NEW s \in Seed, NEW pw \in Password \cup {None}, MakeWallet(p, s, pw)
        PROVE  Goal
    <2>1. saving[p] = "no" /\ disk = Missing /\ base' = [base EXCEPT ![p] = Missing]
          /\ BeginSave(p, Fresh(s, pw), {<<s, 0>>}, {s})
      BY <1>1 DEF MakeWallet, FileInv, Shapes
    <2>2. {<<s, 0>>} \in SUBSET Address /\ {s} \in SUBSET Seed
      BY KeystoreAssumption DEF Address, Derived
    <2>3. Fresh(s, pw) \in Document
          /\ \A a \in {<<s, 0>>} : a \in ToSet(Fresh(s, pw).addrs) /\ Spends(Fresh(s, pw), a)
      BY FreshDocument
    <2> QED
      BY <2>1, <2>2, <2>3 DEF Goal
  <1>2. CASE Create(p)
    BY <1>1, <1>2 DEF Create
  <1>3. CASE Restore(p)
    BY <1>1, <1>3 DEF Restore, FileInv, Shapes
  <1>4. ASSUME Usable(p)
        PROVE  mem[p] # Closed /\ saving[p] = "no" /\ mem[p].doc \in Document
    BY <1>4 DEF Usable, Ready, FileInv, Shapes
  <1>5. ASSUME NEW doc \in Document, NEW addrs \in SUBSET ToSet(doc.addrs), Usable(p),
               BeginSave(p, doc, addrs, {}), Holds(mem[p].doc, doc), UNCHANGED base,
               \A a \in addrs : Spends(doc, a)
        PROVE  Goal
    <2>1. addrs \in SUBSET Address /\ {} \in SUBSET Seed
      BY DEF ToSet, Document
    <2> QED
      BY <1>4, <1>5, <2>1 DEF Goal
  <1>6. CASE NewAddress(p)
    <2> DEFINE doc == mem[p].doc
    <2>1. PICK k \in IF doc.seed = None THEN RandomKey ELSE {None} :
             BeginSave(p, NewKey(doc, k), {Last(NewKey(doc, k).addrs)}, {})
      BY <1>6 DEF NewAddress
    <2>2. Usable(p) /\ doc.next <= MaxIndex /\ UNCHANGED base
      BY <1>6 DEF NewAddress
    <2>3. doc \in Document /\ IF doc.seed = None THEN k \in Key ELSE k = None
      BY <1>4, <2>2 DEF RandomKey
    <2> DEFINE new == NewKey(doc, k)
    <2>4. new \in Document /\ Holds(mem[p].doc, new)
          /\ {Last(new.addrs)} \in SUBSET ToSet(new.addrs) /\ \A a \in {Last(new.addrs)} : Spends(new, a)
      BY <2>2, <2>3, NewKeyDocument
    <2> HIDE DEF new
    <2>5. BeginSave(p, new, {Last(new.addrs)}, {})
      BY <2>1 DEF new
    <2> QED
      BY <1>5, <2>2, <2>4, <2>5
  <1>7. ASSUME NEW k \in Key, ImportWif(p, k) PROVE Goal
    <2> DEFINE new == [mem[p].doc EXCEPT !.imported = @ \cup {k}, !.addrs = Append(@, k)]
    <2>1. Usable(p) /\ UNCHANGED base /\ BeginSave(p, new, {k}, {})
      BY <1>7 DEF ImportWif
    <2>2. new \in Document /\ Holds(mem[p].doc, new)
          /\ {k} \in SUBSET ToSet(new.addrs) /\ \A a \in {k} : Spends(new, a)
      BY <1>4, <2>1, ImportDocument
    <2> HIDE DEF new
    <2> QED
      BY <1>5, <2>1, <2>2
  <1>8. ASSUME NEW pw \in Password \cup {None}, SetPassword(p, pw) PROVE Goal
    <2> DEFINE new == [mem[p].doc EXCEPT !.password = pw]
    <2>1. Usable(p) /\ UNCHANGED base /\ BeginSave(p, new, {}, {})
      BY <1>8 DEF SetPassword
    <2>2. new \in Document /\ Holds(mem[p].doc, new) /\ {} \in SUBSET ToSet(new.addrs)
      BY <1>4, <2>1, PasswordDocument
    <2> HIDE DEF new
    <2>3. \A a \in {} : Spends(new, a)
      OBVIOUS
    <2> QED
      BY <1>5, <2>1, <2>2, <2>3
  <1>9. CASE SetLabel(p)
    <2>1. Usable(p) /\ UNCHANGED base /\ BeginSave(p, mem[p].doc, {}, {})
      BY <1>9 DEF SetLabel
    <2>2. mem[p].doc \in Document /\ Holds(mem[p].doc, mem[p].doc)
      BY <1>4, <2>1 DEF Holds
    <2>3. {} \in SUBSET ToSet(mem[p].doc.addrs) /\ \A a \in {} : Spends(mem[p].doc, a)
      OBVIOUS
    <2> QED
      BY <1>5, <2>1, <2>2, <2>3
  <1> QED
    BY <1>2, <1>3, <1>6, <1>7, <1>8, <1>9

\* Every step of a wallet, a payment or the node keeps the file in order.
LEMMA FileStep == FileInv /\ [Next]_vars => FileInv'
  <1> SUFFICES ASSUME FileInv, [Next]_vars PROVE FileInv'
    OBVIOUS
  <1>1. CASE UNCHANGED ksVars
    BY <1>1 DEF ksVars, FileInv, Shapes, Alone, Busy
  <1>2. ASSUME NEW p \in Proc, Opens(p) PROVE FileInv'
    BY <1>2, LoadFile DEF Opens
  <1>3. ASSUME NEW p \in Proc, Closes(p) PROVE FileInv'
    BY <1>3, EndsFile DEF Closes, End
  <1>4. CASE KeystoreEdit
    <2>1. CASE LoseFile
      <3>1. \A p \in Proc : saving[p] = "no"
        BY <2>1 DEF LoseFile, FileInv, Shapes
      <3> QED
        BY <2>1, <3>1 DEF LoseFile, FileInv, Shapes, Alone, Busy, Missing, Torn
    <2>2. ASSUME NEW p \in Proc,
                 \/ Create(p) \/ Restore(p) \/ NewAddress(p) \/ SetLabel(p)
                 \/ \E k \in Key : ImportWif(p, k)
                 \/ \E pw \in Password \cup {None} : SetPassword(p, pw)
          PROVE  FileInv'
      <3>1. PICK doc \in Document, addrs \in SUBSET Address, phrase \in SUBSET Seed :
               /\ saving[p] = "no" /\ BeginSave(p, doc, addrs, phrase)
               /\ \/ base' = [base EXCEPT ![p] = Missing]
                  \/ UNCHANGED base
        BY <2>2, CommandBegins
      <3>2. base' = [q \in Proc |-> base'[q]]
        BY <3>1 DEF FileInv, Shapes
      <3> QED
        BY <3>1, <3>2, BeginSaveFile
    <2>3. ASSUME NEW p \in Proc, OpenTemp(p) PROVE FileInv'
      <3>1. Shapes'
        BY <2>3 DEF OpenTemp, FileInv, Shapes, State
      <3>2. Alone'
        BY <2>3 DEF OpenTemp, FileInv, Shapes, Alone, Busy, Collides, State
      <3> QED
        BY <3>1, <3>2 DEF FileInv
    <2>4. ASSUME NEW p \in Proc, WriteTemp(p) PROVE FileInv'
      <3>0. mem[p].doc \in Document /\ mem[p].doc # Torn
        BY <2>4 DEF WriteTemp, FileInv, Shapes, Document, Torn
      <3>1. Shapes'
        BY <2>4, <3>0 DEF WriteTemp, FileInv, Shapes, State
      <3>2. Alone'
        BY <2>4, <3>0 DEF WriteTemp, FileInv, Shapes, Alone, Busy, State
      <3> QED
        BY <3>1, <3>2 DEF FileInv
    <2>5. ASSUME NEW p \in Proc, Replace(p) PROVE FileInv'
      <3>0. mem[p].doc \in Document /\ mem[p].doc # Torn
        BY <2>5 DEF Replace, FileInv, Shapes, Document, Torn
      <3>1. Shapes'
        BY <2>5, <3>0 DEF Replace, FileInv, Shapes, State, Silent
      <3>2. Alone'
        BY <2>5, <3>0 DEF Replace, FileInv, Shapes, Alone, Busy, State
      <3> QED
        BY <3>1, <3>2 DEF FileInv
    <2>6. ASSUME NEW p \in Proc, ReplaceFails(p) PROVE FileInv'
      BY <2>6, EndsFile DEF ReplaceFails
    <2> QED
      BY <1>4, <2>1, <2>2, <2>3, <2>4, <2>5, <2>6 DEF KeystoreEdit
  <1> QED
    BY <1>1, <1>2, <1>3, <1>4 DEF Next, vars, Mines, Pays, Edits, ksVars

\* A process that is killed at any point of save(), among any number of others
\* that open, change and save the same wallet, never leaves a file that cannot
\* be read, unless two of them wrote the temporary file at the same time.
THEOREM FileCorrect == Spec => []FileStaysWhole
  <1>1. FileInv => FileStaysWhole
    BY DEF FileInv, Alone, FileStaysWhole
  <1> QED
    BY <1>1, InitFile, FileStep, PTL DEF Spec

-----------------------------------------------------------------------------
(* What the user was told.                                                 *)

\* A document in memory has everything its process read or wrote last.
Grown ==
    \A p \in Proc : mem[p] # Closed =>
       \/ base[p] = Missing
       \/ base[p] \in Document /\ Holds(base[p], mem[p].doc)

\* A save in progress writes what the user will hear.
Telling ==
    \A p \in Proc : saving[p] # "no" =>
       /\ telling[p].password = mem[p].doc.password
       /\ \A a \in telling[p].addrs : a \in ToSet(mem[p].doc.addrs) /\ Spends(mem[p].doc, a)

\* Where there is no file, nobody was told of one.
Quiet == disk = Missing => told.addrs = {}

ToldInv == Grown /\ Telling /\ Quiet /\ ToldIsTrue

LEMMA InitTold == Init => ToldInv
  <1> SUFFICES ASSUME Init PROVE ToldInv
    OBVIOUS
  <1>1. Grown /\ Telling
    BY DEF Init, KeystoreInit, Grown, Telling
  <1>2. Quiet
    BY DEF Init, KeystoreInit, Quiet, Nothing
  <1>3. ToldIsTrue
    <2>1. CASE disk = Missing
      BY <2>1 DEF ToldIsTrue, Missing, Document
    <2>2. CASE disk # Missing
      BY <2>2, WalletAssumption DEF Init, KeystoreInit, ToldIsTrue
    <2> QED
      BY <2>1, <2>2
  <1> QED
    BY <1>1, <1>2, <1>3 DEF ToldInv

\* The end of a process changes neither the file nor what was told.
LEMMA EndsTold ==
    ASSUME FileInv, ToldInv, NEW p \in Proc, Ends(p), UNCHANGED <<disk, told, raced>>
    PROVE  ToldInv'
  <1>1. Grown'
    BY DEF ToldInv, Grown, FileInv, Shapes, Ends
  <1>2. Telling'
    BY DEF ToldInv, Telling, FileInv, Shapes, Ends
  <1> QED
    BY <1>1, <1>2 DEF ToldInv, Quiet, ToldIsTrue

\* os.replace: the file was the one the process last saw, or the save is stale.
LEMMA ReplaceTold ==
    ASSUME FileInv, ToldInv, NEW p \in Proc, Replace(p)
    PROVE  ToldInv'
  <1> DEFINE doc == mem[p].doc
  <1>1. mem[p] # Closed /\ saving[p] = "rename" /\ doc \in Document
    BY DEF Replace, FileInv, Shapes
  <1>2. Grown'
    <2> SUFFICES ASSUME NEW q \in Proc, mem'[q] # Closed
                 PROVE  base'[q] = Missing \/ (base'[q] \in Document /\ Holds(base'[q], mem'[q].doc))
      BY DEF Grown
    <2>1. CASE q = p
      <3>1. mem'[p] = mem[p] /\ base'[p] = doc
        BY <2>1 DEF Replace, FileInv, Shapes
      <3>2. Holds(doc, doc)
        BY DEF Holds
      <3> HIDE DEF doc
      <3>3. mem'[p].doc = doc
        BY <3>1 DEF doc
      <3> QED
        BY <1>1, <2>1, <3>1, <3>2, <3>3
    <2>2. CASE q # p
      <3>1. mem'[q] = mem[q] /\ base'[q] = base[q]
        BY <2>2 DEF Replace, FileInv, Shapes
      <3> QED
        BY <3>1 DEF ToldInv, Grown
    <2> QED
      BY <2>1, <2>2
  <1>3. Telling'
    BY DEF ToldInv, Telling, FileInv, Shapes, Replace
  <1>4. Quiet'
    BY DEF Quiet, Replace
  <1>5. ToldIsTrue'
    <2> SUFFICES ASSUME raced' = {}
                 PROVE  /\ told'.password = disk'.password
                        /\ \A a \in told'.addrs : a \in ToSet(disk'.addrs) /\ Spends(disk', a)
      BY DEF ToldIsTrue
    <2>1. raced = {} /\ disk = base[p]
      BY DEF Replace
    <2>2. disk' = doc
      BY <1>1, <2>1 DEF Replace, FileInv, Alone
    <2>3. /\ told'.password = telling[p].password
          /\ told'.addrs = told.addrs \cup telling[p].addrs
      BY DEF Replace
    <2>4. /\ telling[p].password = doc.password
          /\ \A a \in telling[p].addrs : a \in ToSet(doc.addrs) /\ Spends(doc, a)
      BY <1>1 DEF ToldInv, Telling
    <2>5. \A a \in told.addrs : a \in ToSet(doc.addrs) /\ Spends(doc, a)
      <3>1. CASE base[p] = Missing
        BY <2>1, <3>1 DEF ToldInv, Quiet
      <3>2. CASE base[p] # Missing
        <4>1. disk \in Document /\ Holds(disk, doc)
          BY <1>1, <2>1, <3>2 DEF ToldInv, Grown
        <4>2. \A a \in told.addrs : a \in ToSet(disk.addrs) /\ Spends(disk, a)
          BY <2>1, <4>1 DEF ToldInv, ToldIsTrue
        <4> QED
          BY <4>1, <4>2 DEF Holds
      <3> QED
        BY <3>1, <3>2
    <2> HIDE DEF doc
    <2> QED
      BY <2>2, <2>3, <2>4, <2>5
  <1> QED
    BY <1>2, <1>3, <1>4, <1>5 DEF ToldInv

\* A command that begins a save keeps in memory all that the process knew.
LEMMA BeginTold ==
    ASSUME FileInv, ToldInv, NEW p \in Proc, NEW doc \in Document, NEW addrs, NEW phrase,
           saving[p] = "no", BeginSave(p, doc, addrs, phrase),
           \A a \in addrs : a \in ToSet(doc.addrs) /\ Spends(doc, a),
           \/ disk = Missing /\ base' = [base EXCEPT ![p] = Missing]
           \/ mem[p] # Closed /\ Holds(mem[p].doc, doc) /\ UNCHANGED base
    PROVE  ToldInv'
  <1>1. Grown'
    <2> SUFFICES ASSUME NEW q \in Proc, mem'[q] # Closed
                 PROVE  base'[q] = Missing \/ (base'[q] \in Document /\ Holds(base'[q], mem'[q].doc))
      BY DEF Grown
    <2>1. CASE q # p
      <3>1. mem'[q] = mem[q] /\ base'[q] = base[q]
        BY <2>1 DEF BeginSave, FileInv, Shapes
      <3> QED
        BY <3>1 DEF ToldInv, Grown
    <2>2. CASE q = p
      <3>1. mem'[p].doc = doc
        BY DEF BeginSave, FileInv, Shapes
      <3>2. CASE base' = [base EXCEPT ![p] = Missing]
        BY <2>2, <3>2 DEF FileInv, Shapes
      <3>3. CASE mem[p] # Closed /\ Holds(mem[p].doc, doc) /\ UNCHANGED base
        <4>1. base[p] = Missing \/ (base[p] \in Document /\ Holds(base[p], mem[p].doc))
          BY <3>3 DEF ToldInv, Grown
        <4> QED
          BY <2>2, <3>1, <3>3, <4>1 DEF Holds
      <3> QED
        BY <3>2, <3>3
    <2> QED
      BY <2>1, <2>2
  <1>2. Telling'
    <2> SUFFICES ASSUME NEW q \in Proc, saving'[q] # "no"
                 PROVE  /\ telling'[q].password = mem'[q].doc.password
                        /\ \A a \in telling'[q].addrs :
                              a \in ToSet(mem'[q].doc.addrs) /\ Spends(mem'[q].doc, a)
      BY DEF Telling
    <2>1. CASE q = p
      BY <2>1 DEF BeginSave, FileInv, Shapes
    <2>2. CASE q # p
      <3>1. mem'[q] = mem[q] /\ telling'[q] = telling[q] /\ saving'[q] = saving[q]
        BY <2>2 DEF BeginSave, FileInv, Shapes
      <3> QED
        BY <3>1 DEF ToldInv, Telling
    <2> QED
      BY <2>1, <2>2
  <1> QED
    BY <1>1, <1>2 DEF ToldInv, Quiet, ToldIsTrue, BeginSave

LEMMA ToldStep == FileInv /\ ToldInv /\ [Next]_vars => ToldInv'
  <1> SUFFICES ASSUME FileInv, ToldInv, [Next]_vars PROVE ToldInv'
    OBVIOUS
  <1>1. CASE UNCHANGED ksVars
    BY <1>1 DEF ksVars, ToldInv, Grown, Telling, Quiet, ToldIsTrue
  <1>2. ASSUME NEW p \in Proc, Load(p) PROVE ToldInv'
    <2>1. mem'[p].doc = disk /\ base'[p] = disk /\ disk \in Document /\ saving[p] = "no"
      BY <1>2 DEF Load, FileInv, Shapes
    <2>2. \A q \in Proc \ {p} : mem'[q] = mem[q] /\ base'[q] = base[q]
      BY <1>2 DEF Load, FileInv, Shapes
    <2>3. Grown'
      BY <2>1, <2>2 DEF ToldInv, Grown, Holds
    <2>4. Telling'
      BY <1>2, <2>1, <2>2 DEF ToldInv, Telling, Load
    <2> QED
      BY <1>2, <2>3, <2>4 DEF ToldInv, Quiet, ToldIsTrue, Load
  <1>3. ASSUME NEW p \in Proc, NEW pw \in Password, Unlock(p, pw) PROVE ToldInv'
    <2>1. mem[p] \in [is : {"open"}, doc : Document, unlocked : BOOLEAN]
      BY <1>3 DEF Unlock, Ready, FileInv, Shapes
    <2>2. mem'[p].doc = mem[p].doc /\ mem[p] # Closed /\ \A q \in Proc \ {p} : mem'[q] = mem[q]
      BY <1>3, <2>1 DEF Unlock, Ready, FileInv, Shapes
    <2>3. Grown'
      BY <1>3, <2>2 DEF ToldInv, Grown, Unlock
    <2>4. Telling'
      BY <1>3, <2>2 DEF ToldInv, Telling, Unlock
    <2> QED
      BY <1>3, <2>3, <2>4 DEF ToldInv, Quiet, ToldIsTrue, Unlock
  <1>4. ASSUME NEW p \in Proc, Closes(p) PROVE ToldInv'
    BY <1>4, EndsTold DEF Closes, End
  <1>5. CASE KeystoreEdit
    <2>1. CASE LoseFile
      BY <2>1 DEF LoseFile, ToldInv, Grown, Telling, Quiet, ToldIsTrue, Nothing, Missing, Document
    <2>2. ASSUME NEW p \in Proc,
                 \/ Create(p) \/ Restore(p) \/ NewAddress(p) \/ SetLabel(p)
                 \/ \E k \in Key : ImportWif(p, k)
                 \/ \E pw \in Password \cup {None} : SetPassword(p, pw)
          PROVE  ToldInv'
      <3>1. PICK doc \in Document, addrs \in SUBSET Address, phrase \in SUBSET Seed :
              /\ saving[p] = "no" /\ BeginSave(p, doc, addrs, phrase)
              /\ \A a \in addrs : a \in ToSet(doc.addrs) /\ Spends(doc, a)
              /\ \/ disk = Missing /\ base' = [base EXCEPT ![p] = Missing]
                 \/ mem[p] # Closed /\ Holds(mem[p].doc, doc) /\ UNCHANGED base
        BY <2>2, CommandBegins
      <3> QED
        BY <3>1, BeginTold
    <2>3. ASSUME NEW p \in Proc, OpenTemp(p) PROVE ToldInv'
      <3>1. Telling'
        BY <2>3 DEF OpenTemp, ToldInv, Telling, FileInv, Shapes, State
      <3> QED
        BY <2>3, <3>1 DEF OpenTemp, ToldInv, Grown, Quiet, ToldIsTrue
    <2>4. ASSUME NEW p \in Proc, WriteTemp(p) PROVE ToldInv'
      <3>0. mem[p].doc \in Document /\ mem[p].doc # Missing
        BY <2>4 DEF WriteTemp, FileInv, Shapes, Document, Missing
      <3>1. Telling'
        BY <2>4 DEF WriteTemp, ToldInv, Telling, FileInv, Shapes, State
      <3>2. raced' = {} => UNCHANGED disk
        BY <2>4 DEF WriteTemp, FileInv, Alone
      <3> QED
        BY <2>4, <3>0, <3>1, <3>2 DEF WriteTemp, ToldInv, Grown, Quiet, ToldIsTrue
    <2>5. ASSUME NEW p \in Proc, ReplaceFails(p) PROVE ToldInv'
      BY <2>5, EndsTold DEF ReplaceFails
    <2> QED
      BY <1>5, <2>1, <2>2, <2>3, <2>4, <2>5, ReplaceTold DEF KeystoreEdit
  <1> QED
    BY <1>1, <1>2, <1>3, <1>4, <1>5 DEF Next, vars, Mines, Pays, Edits, Opens, ksVars

\* What the user was told is in the file, for any number of processes and any
\* order of their steps, as long as no save met another one: each address that
\* was shown is listed and its key is there, and the password is the one
\* confirmed last (new_address, import_wif, set_password, save).
THEOREM ToldCorrect == Spec => []ToldIsTrue
  <1>1. ToldInv => ToldIsTrue
    BY DEF ToldInv
  <1> QED
    BY <1>1, InitFile, FileStep, InitTold, ToldStep, PTL DEF Spec

-----------------------------------------------------------------------------
(* Payments.                                                               *)

PayFields == {"at", "made", "seen", "all", "txs", "attempt", "look", "ok"}

\* An answer that says yes is about a transaction the node has taken.
AnswerTrue == \A p \in Payer : (pay[p].at = "answered" /\ pay[p].ok) => Tx(p) \in taken

PayShape ==
    /\ pay = [p \in Payer |-> pay[p]]
    /\ \A p \in Payer : DOMAIN pay[p] = PayFields

PayInv == PayShape /\ AnswerTrue /\ SentMeansAccepted /\ Accepted \subseteq taken

LEMMA InitPay == Init => PayInv
  BY DEF Init, PayInv, PayShape, AnswerTrue, SentMeansAccepted, NoPayment, PayFields, Accepted

\* What the node has, it has taken, and the history keeps it.
LEMMA TakenStays ==
    ASSUME Accepted \subseteq taken, [Next]_vars
    PROVE  Accepted' \subseteq taken' /\ taken \subseteq taken'
  <1>1. CASE UNCHANGED <<pool, mined, taken>>
    BY <1>1 DEF Accepted
  <1>2. CASE Mines
    BY <1>2 DEF Mines, Mine, Accepted
  <1>3. ASSUME NEW tx \in late, Late(tx) PROVE Accepted' \subseteq taken' /\ taken \subseteq taken'
    BY <1>3 DEF Late, Carry, Accepted
  <1>4. ASSUME NEW p \in Payer, NodeAnswers(p) PROVE Accepted' \subseteq taken' /\ taken \subseteq taken'
    BY <1>4 DEF NodeAnswers, Carry, Accepted
  <1>5. ASSUME NEW tx \in pool, Forget(tx) PROVE Accepted' \subseteq taken' /\ taken \subseteq taken'
    BY <1>5 DEF Forget, Accepted
  <1>6. ASSUME NEW p \in Payer, Confirm(p) \/ Cancel(p) \/ Outcome(p)
        PROVE  UNCHANGED <<pool, mined, taken>>
    BY <1>6 DEF Confirm, Cancel, Outcome, AnswerArrives, Refused, Dropped, TimesOut, Look
  <1>7. CASE PaymentNext
    BY <1>1, <1>3, <1>4, <1>5, <1>6, <1>7 DEF PaymentNext
  <1>8. CASE Edits
    BY <1>1, <1>8 DEF Edits, payVars
  <1>9. ASSUME NEW p \in Proc, Pays(p) \/ Opens(p) \/ Closes(p)
        PROVE  UNCHANGED <<pool, mined, taken>>
    BY <1>9 DEF Pays, Build, Opens, Closes, Dies, payVars
  <1> QED
    BY <1>1, <1>2, <1>7, <1>8, <1>9 DEF Next, vars, payVars

\* A report keeps the invariant if a good one is about a transaction the node has taken.
LEMMA ReportedPay ==
    ASSUME PayInv, NEW p \in Payer, NEW ok, Reported(p, ok),
           ok => Tx(p) \in taken', taken \subseteq taken', Accepted' \subseteq taken'
    PROVE  PayInv'
  <1>1. /\ pay' = [q \in Payer |-> pay'[q]]
        /\ \A q \in Payer \ {p} : pay'[q] = pay[q]
        /\ pay'[p].at # "answered" /\ DOMAIN pay'[p] = PayFields
    BY DEF PayInv, PayShape, Reported, Request, PayFields
  <1>2. PayShape'
    BY <1>1 DEF PayInv, PayShape
  <1>3. AnswerTrue'
    BY <1>1 DEF PayInv, AnswerTrue, Tx
  <1>4. SentMeansAccepted'
    BY DEF PayInv, SentMeansAccepted, Reported
  <1> QED
    BY <1>2, <1>3, <1>4 DEF PayInv

\* A step of one payment that reports nothing, and does not make an answer up.
LEMMA QuietPay ==
    ASSUME PayInv, NEW p \in Payer, NEW q, DOMAIN q = PayFields, q.at # "answered",
           pay' = [pay EXCEPT ![p] = q], UNCHANGED reports, taken \subseteq taken', Accepted' \subseteq taken'
    PROVE  PayInv'
  <1>1. /\ pay' = [r \in Payer |-> pay'[r]]
        /\ \A r \in Payer \ {p} : pay'[r] = pay[r]
        /\ pay'[p] = q
    BY DEF PayInv, PayShape
  <1>2. PayShape'
    BY <1>1 DEF PayInv, PayShape
  <1>3. AnswerTrue'
    BY <1>1 DEF PayInv, AnswerTrue, Tx
  <1> QED
    BY <1>2, <1>3 DEF PayInv, SentMeansAccepted

LEMMA PayStep == PayInv /\ [Next]_vars => PayInv'
  <1> SUFFICES ASSUME PayInv, [Next]_vars PROVE PayInv'
    OBVIOUS
  <1>0. taken \subseteq taken' /\ Accepted' \subseteq taken'
    BY TakenStays DEF PayInv
  <1>1. CASE UNCHANGED <<pay, reports>>
    BY <1>0, <1>1 DEF PayInv, PayShape, AnswerTrue, SentMeansAccepted, Tx
  <1>2. ASSUME NEW p \in Payer, Confirm(p) \/ Cancel(p) PROVE PayInv'
    <2>1. CASE Confirm(p)
      <3>1. DOMAIN Request(pay[p]) = PayFields /\ Request(pay[p]).at # "answered"
        BY DEF Request, PayInv, PayShape, PayFields
      <3> QED
        BY <1>0, <2>1, <3>1, QuietPay DEF Confirm
    <2>2. CASE Cancel(p)
      <3>1. pay' = [pay EXCEPT ![p] = [pay[p] EXCEPT !.at = "ready"]]
        BY <2>2 DEF Cancel
      <3>2. DOMAIN [pay[p] EXCEPT !.at = "ready"] = PayFields /\ [pay[p] EXCEPT !.at = "ready"].at # "answered"
        BY DEF PayInv, PayShape, PayFields
      <3> QED
        BY <1>0, <2>2, <3>1, <3>2, QuietPay DEF Cancel
    <2> QED
      BY <1>2, <2>1, <2>2
  <1>3. ASSUME NEW p \in Payer, NodeAnswers(p) PROVE PayInv'
    <2>1. /\ pay' = [q \in Payer |-> pay'[q]]
          /\ \A q \in Payer \ {p} : pay'[q] = pay[q]
          /\ DOMAIN pay'[p] = PayFields /\ pay'[p].txs = pay[p].txs /\ pay'[p].ok = Accepts(Tx(p))
      BY <1>3 DEF NodeAnswers, PayInv, PayShape, PayFields
    <2>2. pay'[p].ok => Head(pay'[p].txs) \in taken'
      <3>1. Accepts(Tx(p)) => Tx(p) \in taken'
        BY <1>3 DEF NodeAnswers, Carry, Processed
      <3> QED
        BY <2>1, <3>1 DEF Tx
    <2>3. AnswerTrue'
      BY <1>0, <2>1, <2>2 DEF PayInv, AnswerTrue, Tx
    <2> QED
      BY <1>0, <1>3, <2>1, <2>3 DEF PayInv, PayShape, SentMeansAccepted, NodeAnswers
  <1>4. ASSUME NEW p \in Payer, AnswerArrives(p) PROVE PayInv'
    <2>1. pay[p].ok => Tx(p) \in taken'
      BY <1>0, <1>4 DEF AnswerArrives, PayInv, AnswerTrue
    <2> QED
      BY <1>0, <1>4, <2>1, ReportedPay DEF AnswerArrives
  <1>5. ASSUME NEW p \in Payer, Refused(p) PROVE PayInv'
    BY <1>0, <1>5, ReportedPay DEF Refused
  <1>6. ASSUME NEW p \in Payer, GivesUp(p) PROVE PayInv'
    <2>1. CASE p \in Patient
      <3>1. pay' = [pay EXCEPT ![p] = [pay[p] EXCEPT !.at = "look"]] /\ UNCHANGED reports
        BY <1>6, <2>1 DEF GivesUp
      <3>2. DOMAIN [pay[p] EXCEPT !.at = "look"] = PayFields /\ [pay[p] EXCEPT !.at = "look"].at # "answered"
        BY DEF PayInv, PayShape, PayFields
      <3> QED
        BY <1>0, <3>1, <3>2, QuietPay
    <2>2. CASE p \notin Patient
      BY <1>0, <1>6, <2>2, ReportedPay DEF GivesUp
    <2> QED
      BY <2>1, <2>2
  <1>7. ASSUME NEW p \in Payer, Dropped(p) \/ TimesOut(p) PROVE PayInv'
    <2>1. CASE GivesUp(p)
      BY <1>6, <2>1
    <2>2. CASE ~GivesUp(p)
      <3> DEFINE q == [pay[p] EXCEPT !.at = "call", !.attempt = @ + 1]
      <3>0. Dropped(p) /\ pay[p].attempt < MaxAttempts
        BY <1>7, <2>2 DEF Dropped, TimesOut
      <3>1. pay' = [pay EXCEPT ![p] = q] /\ UNCHANGED reports
        BY <3>0 DEF Dropped, PayInv, PayShape, PayFields
      <3>2. DOMAIN q = PayFields /\ q.at # "answered"
        BY DEF PayInv, PayShape, PayFields
      <3> QED
        BY <1>0, <3>1, <3>2, QuietPay
    <2> QED
      BY <2>1, <2>2
  <1>8. ASSUME NEW p \in Payer, Look(p) PROVE PayInv'
    <2>1. CASE Tx(p) \in Accepted /\ Reported(p, TRUE)
      BY <1>0, <2>1, ReportedPay DEF PayInv
    <2>2. CASE Reported(p, FALSE)
      BY <1>0, <2>2, ReportedPay
    <2>3. CASE pay' = [pay EXCEPT ![p].look = @ + 1] /\ UNCHANGED reports
      <3> DEFINE q == [pay[p] EXCEPT !.look = @ + 1]
      <3>1. DOMAIN q = PayFields /\ q.at # "answered"
        BY <1>8 DEF PayInv, PayShape, PayFields, Look
      <3> QED
        BY <1>0, <2>3, <3>1, QuietPay
    <2> QED
      BY <1>8, <2>1, <2>2, <2>3 DEF Look
  <1>9. ASSUME NEW p \in Payer, Dies(p) PROVE PayInv'
    <2> DEFINE q == [pay[p] EXCEPT !.at = "ready"]
    <2>1. pay' = [pay EXCEPT ![p] = q] /\ UNCHANGED reports
      BY <1>9 DEF Dies
    <2>2. DOMAIN q = PayFields /\ q.at # "answered"
      BY DEF PayInv, PayShape, PayFields
    <2> HIDE DEF q
    <2> QED
      BY <1>0, <2>1, <2>2, QuietPay
  <1>10. ASSUME NEW p \in Payer, NEW addrs, Build(p, addrs) PROVE PayInv'
    <2> DEFINE seen == Spendable({c \in coins : c.addr \in addrs})
               txs  == Built(seen, wants[p])
               q == [pay[p] EXCEPT !.made = @ + 1, !.seen = seen, !.txs = txs, !.all = txs,
                                   !.at = IF txs = <<>> THEN "ready" ELSE "confirm"]
    <2>1. pay' = [pay EXCEPT ![p] = q] /\ UNCHANGED reports
      BY <1>10 DEF Build, PayInv, PayShape, PayFields
    <2> HIDE DEF txs, seen
    <2>2. DOMAIN q = PayFields /\ q.at # "answered"
      BY DEF PayInv, PayShape, PayFields
    <2> HIDE DEF q
    <2> QED
      BY <1>0, <2>1, <2>2, QuietPay
  <1>11. CASE PaymentNext
    BY <1>1, <1>2, <1>3, <1>4, <1>5, <1>7, <1>8, <1>11 DEF PaymentNext, Outcome, Late, Forget
  <1>12. CASE Mines \/ Edits
    BY <1>1, <1>12 DEF Mines, Mine, Edits, payVars
  <1>13. ASSUME NEW p \in Proc, Pays(p) \/ Opens(p) \/ Closes(p) PROVE PayInv'
    BY <1>1, <1>9, <1>10, <1>13, WalletAssumption DEF Pays, Opens, Closes, payVars
  <1> QED
    BY <1>1, <1>11, <1>12, <1>13 DEF Next, vars, payVars

\* A payment the user is told was sent was taken by the node's pool, whatever
\* answers were lost, late or repeated and whatever the node has forgotten
\* since, for any number of wallets and attempts (call, broadcast, send).
THEOREM PaymentCorrect == Spec => []SentMeansAccepted
  <1>1. PayInv => SentMeansAccepted
    BY DEF PayInv
  <1> QED
    BY <1>1, InitPay, PayStep, PTL DEF Spec

-----------------------------------------------------------------------------
(* What a wallet builds.                                                   *)

\* Coins as the node lists them: each of them once.
Listed(S) ==
    /\ IsFiniteSet(S) /\ \A c \in S : c.id \in Nat /\ c.value \in Nat
    /\ \A c, d \in S : c.id = d.id => c = d

ByValue(S) == {p \in S \X S : Before(p[1], p[2])}
AsListed(S) == {p \in S \X S : p[1].id < p[2].id}

LEMMA ListedSubset ==
    ASSUME NEW S, Listed(S), NEW s \in SUBSET S
    PROVE  Listed(s)
BY FS_Subset DEF Listed

LEMMA CoinOrders ==
    ASSUME NEW S, Listed(S)
    PROVE  /\ Ranked(S, ByValue(S)) /\ Ranked(S, AsListed(S))
           /\ \A c \in S : Cardinality({d \in S : Before(d, c)}) = Rank(S, ByValue(S), c)
           /\ \A c \in S : Place(S, c) = Rank(S, AsListed(S), c)
<1>1. \A c, d \in S : /\ <<c, d>> \in ByValue(S) <=> Before(c, d)
                      /\ <<c, d>> \in AsListed(S) <=> c.id < d.id
  BY DEF ByValue, AsListed
<1>2. ASSUME NEW x \in S
      PROVE  <<x, x>> \notin ByValue(S) /\ <<x, x>> \notin AsListed(S)
  BY <1>1 DEF Before, Listed
<1>3. ASSUME NEW x \in S, NEW y \in S, x # y
      PROVE  /\ <<x, y>> \in ByValue(S) \/ <<y, x>> \in ByValue(S)
             /\ <<x, y>> \in AsListed(S) \/ <<y, x>> \in AsListed(S)
  <2>1. x.id \in Nat /\ y.id \in Nat /\ x.value \in Nat /\ y.value \in Nat /\ x.id # y.id
    BY <1>3 DEF Listed
  <2>2. Before(x, y) \/ Before(y, x)
    BY <2>1 DEF Before
  <2>3. x.id < y.id \/ y.id < x.id
    BY <2>1
  <2> QED
    BY <1>1, <2>2, <2>3
<1>4. ASSUME NEW x \in S, NEW y \in S, NEW z \in S
      PROVE  /\ <<x, y>> \in ByValue(S) /\ <<y, z>> \in ByValue(S) => <<x, z>> \in ByValue(S)
             /\ <<x, y>> \in AsListed(S) /\ <<y, z>> \in AsListed(S) => <<x, z>> \in AsListed(S)
  <2>1. /\ x.id \in Nat /\ y.id \in Nat /\ z.id \in Nat
        /\ x.value \in Nat /\ y.value \in Nat /\ z.value \in Nat
    BY DEF Listed
  <2>2. Before(x, y) /\ Before(y, z) => Before(x, z)
    BY <2>1 DEF Before
  <2>3. x.id < y.id /\ y.id < z.id => x.id < z.id
    BY <2>1
  <2> QED
    BY <1>1, <2>2, <2>3
<1>5. ASSUME NEW c \in S
      PROVE  /\ {d \in S : Before(d, c)} = {d \in S : <<d, c>> \in ByValue(S)}
             /\ {d \in S : d.id < c.id} = {d \in S : <<d, c>> \in AsListed(S)}
  BY <1>1
<1>6. ASSUME NEW c \in S
      PROVE  /\ Cardinality({d \in S : Before(d, c)}) = Rank(S, ByValue(S), c)
             /\ Place(S, c) = Rank(S, AsListed(S), c)
  BY <1>5 DEF Rank, Place
<1> QED
  BY <1>2, <1>3, <1>4, <1>6 DEF Ranked

Values(S) == [c \in S |-> c.value]

LEMMA WorthIsSum ==
    ASSUME NEW S, Listed(S), NEW s \in SUBSET S
    PROVE  /\ Worth(s) = SumFunctionOnSet(Values(S), s)
           /\ Worth(s) \in Int
<1>1. IsFiniteSet(s) /\ \A c \in s : Values(S)[c] \in Int /\ [c2 \in s |-> c2.value][c] = Values(S)[c]
  BY FS_Subset DEF Listed, Values
<1>2. SumFunctionOnSet([c \in s |-> c.value], s) = SumFunctionOnSet(Values(S), s)
  BY <1>1, SumEqual
<1>3. SumFunctionOnSet(Values(S), s) \in Int
  BY <1>1, SumType
<1> QED
  BY <1>2, <1>3 DEF Worth

\* No coins of their number are worth more than the first by value.
LEMMA LargestAreWorthMost ==
    ASSUME NEW S, Listed(S), NEW k \in Nat, k <= Cardinality(S)
    PROVE  /\ LargestOf(S, k) \subseteq S /\ Cardinality(LargestOf(S, k)) = k
           /\ \A s \in SUBSET S : Cardinality(s) = k => Worth(s) <= Worth(LargestOf(S, k))
<1> DEFINE L == LargestOf(S, k)
           R == ByValue(S)
<1>1. IsFiniteSet(S) /\ Ranked(S, R) /\ \A c \in S : Rank(S, R, c) \in Nat
  BY CoinOrders, RankType DEF Listed
<1>2. L = {c \in S : Rank(S, R, c) < k}
  BY CoinOrders DEF LargestOf
<1>3. L = {c \in S : 0 <= Rank(S, R, c) /\ Rank(S, R, c) < k}
  BY <1>1, <1>2
<1>4. Cardinality({c \in S : 0 <= Rank(S, R, c) /\ Rank(S, R, c) < k}) = k - 0
  BY <1>1, RanksBetween
<1>5. L \subseteq S /\ Cardinality(L) = k
  BY <1>3, <1>4
<1>6. ASSUME NEW x \in L, NEW y \in S \ L PROVE x.value >= y.value
  <2>1. Rank(S, R, x) < k /\ ~(Rank(S, R, y) < k) /\ x \in S /\ x # y
    BY <1>2, <1>6
  <2>2. Rank(S, R, x) < Rank(S, R, y) /\ Rank(S, R, x) \in Nat /\ Rank(S, R, y) \in Nat
    BY <1>1, <2>1
  <2>3. <<y, x>> \notin R
    <3>1. SUFFICES ASSUME <<y, x>> \in R PROVE FALSE
      OBVIOUS
    <3>2. Rank(S, R, y) < Rank(S, R, x)
      BY <1>1, <2>1, <3>1, RankGrows
    <3> QED
      BY <2>2, <3>2
  <2>4. <<x, y>> \in R
    BY <1>1, <2>1, <2>3 DEF Ranked
  <2>5. Before(x, y) /\ x.value \in Nat /\ y.value \in Nat
    BY <2>1, <2>4 DEF ByValue, Listed
  <2> QED
    BY <2>5 DEF Before
<1> HIDE DEF L, R
<1>7. ASSUME NEW s \in SUBSET S, Cardinality(s) = k PROVE Worth(s) <= Worth(L)
  <2>1. /\ \A x \in S : Values(S)[x] \in Nat
        /\ \A x \in L : \A y \in S \ L : Values(S)[x] >= Values(S)[y]
    BY <1>5, <1>6 DEF Values, Listed
  <2>2. SumFunctionOnSet(Values(S), s) <= SumFunctionOnSet(Values(S), L)
    BY <1>1, <1>5, <1>7, <2>1, LargestSum
  <2> QED
    BY <1>5, <2>2, WorthIsSum
<1> QED
  BY <1>5, <1>7 DEF L

-----------------------------------------------------------------------------
(* Fees.                                                                   *)

LEMMA FeeType ==
    ASSUME NEW n \in Nat
    PROVE  FeeForSize(n) \in Nat
<1>1. FeePerKb \in Nat
  BY PaymentAssumption
<1>2. n * FeePerKb + 999 \in Nat
  BY <1>1
<1>3. \A x \in Nat : x \div 1000 \in Nat
  OBVIOUS
<1>4. (n * FeePerKb + 999) \div 1000 \in Nat
  BY <1>2, <1>3
<1> QED
  BY <1>4 DEF FeeForSize, Larger

LEMMA FeeGrows ==
    ASSUME NEW m \in Nat, NEW n \in Nat, m <= n
    PROVE  FeeForSize(m) <= FeeForSize(n)
<1>1. FeePerKb \in Nat
  BY PaymentAssumption
<1>2. PICK k \in Nat : n = m + k
  <2>1. n - m \in Nat /\ n = m + (n - m)
    OBVIOUS
  <2> QED
    BY <2>1
<1>3. n * FeePerKb = m * FeePerKb + k * FeePerKb /\ m * FeePerKb \in Nat /\ k * FeePerKb \in Nat
  BY <1>1, <1>2
<1>4. \A x, y \in Nat : (x + 999) \div 1000 <= (x + y + 999) \div 1000 /\ (x + 999) \div 1000 \in Nat
                        /\ (x + y + 999) \div 1000 \in Nat
  OBVIOUS
<1> DEFINE x == m * FeePerKb
           y == k * FeePerKb
<1>5. x \in Nat /\ y \in Nat /\ n * FeePerKb + 999 = x + y + 999
  BY <1>3
<1> HIDE DEF x, y
<1>6. /\ (x + 999) \div 1000 <= (n * FeePerKb + 999) \div 1000
      /\ (x + 999) \div 1000 \in Nat /\ (n * FeePerKb + 999) \div 1000 \in Nat
  BY <1>4, <1>5
<1> QED
  BY <1>6 DEF x, FeeForSize, Larger

LEMMA SizeType ==
    ASSUME NEW i \in Nat, NEW o \in Nat
    PROVE  EstimateSize(i, o) \in Nat
<1>1. PerInput \in Nat /\ PerOutput \in Nat /\ Base \in Nat
  BY PaymentAssumption
<1>2. i * PerInput \in Nat /\ o * PerOutput \in Nat
  BY <1>1
<1>3. VarintSize(i) - 1 \in Nat /\ VarintSize(o) - 1 \in Nat
  BY DEF VarintSize
<1> QED
  BY <1>1, <1>2, <1>3 DEF EstimateSize

LEMMA SizeGrows ==
    ASSUME NEW i \in Nat, NEW j \in Nat, i <= j, NEW o \in Nat
    PROVE  EstimateSize(i, o) <= EstimateSize(j, o) /\ EstimateSize(i, o) <= EstimateSize(i, o + 1)
<1>1. PerInput \in Nat /\ PerOutput \in Nat /\ Base \in Nat
  BY PaymentAssumption
<1>2. PICK k \in Nat : j = i + k
  <2>1. j - i \in Nat /\ j = i + (j - i)
    OBVIOUS
  <2> QED
    BY <2>1
<1>3. j * PerInput = i * PerInput + k * PerInput /\ i * PerInput \in Nat /\ k * PerInput \in Nat
  BY <1>1, <1>2
<1>4. (o + 1) * PerOutput = o * PerOutput + PerOutput /\ o * PerOutput \in Nat
  BY <1>1
<1>5. /\ VarintSize(i) <= VarintSize(j) /\ VarintSize(o) <= VarintSize(o + 1)
      /\ {VarintSize(i), VarintSize(j), VarintSize(o), VarintSize(o + 1)} \subseteq {1, 3}
  <2>1. OneByte \in Nat
    BY PaymentAssumption
  <2> QED
    BY <2>1 DEF VarintSize
<1> QED
  BY <1>1, <1>3, <1>4, <1>5 DEF EstimateSize

-----------------------------------------------------------------------------
(* Coin selection.                                                         *)

Covers(S, a) == {s \in SUBSET S : Worth(s) >= Required(a, Cardinality(s))} \ {{}}

LEMMA RequiredType ==
    ASSUME NEW a \in Nat, NEW k \in Nat
    PROVE  Required(a, k) \in Nat
<1>1. EstimateSize(k, 2) \in Nat
  BY SizeType
<1>2. FeeForSize(EstimateSize(k, 2)) \in Nat
  BY <1>1, FeeType
<1> QED
  BY <1>2 DEF Required

LEMMA WorthOfOne ==
    ASSUME NEW S, Listed(S), NEW c \in S
    PROVE  Worth({c}) = c.value /\ Cardinality({c}) = 1
<1>1. {c} \in SUBSET S /\ {c} = {} \cup {c} /\ c \notin {}
  OBVIOUS
<1>2. \A x \in {} \cup {c} : Values(S)[x] \in Int
  BY DEF Values, Listed
<1>3. SumFunctionOnSet(Values(S), {} \cup {c}) = Values(S)[c] + SumFunctionOnSet(Values(S), {})
  BY <1>1, <1>2, FS_EmptySet, SumWith
<1>4. SumFunctionOnSet(Values(S), {c}) = c.value
  BY <1>1, <1>3, SumEmpty DEF Values, Listed
<1> QED
  BY <1>1, <1>4, WorthIsSum, FS_Singleton

\* Among coins there is one of the least value that is listed first.
LEMMA SmallestCoin ==
    ASSUME NEW S, Listed(S), NEW T \in SUBSET S, T # {}
    PROVE  \E c \in T : \A d \in T : d.value > c.value \/ (d.value = c.value /\ d.id >= c.id)
<1> DEFINE V == {c.value : c \in T}
<1>1. V \in SUBSET Nat /\ V # {}
  BY DEF Listed
<1>2. PICK v \in V : \A w \in V : v <= w
  BY <1>1, Least
<1> DEFINE I == {c.id : c \in {d \in T : d.value = v}}
<1>3. I \in SUBSET Nat /\ I # {}
  BY <1>2 DEF Listed
<1>4. PICK i \in I : \A j \in I : i <= j
  BY <1>3, Least
<1>5. PICK c \in T : c.value = v /\ c.id = i
  BY <1>4
<1>6. ASSUME NEW d \in T PROVE d.value > c.value \/ (d.value = c.value /\ d.id >= c.id)
  <2>1. d.value \in Nat /\ c.value \in Nat /\ d.id \in Nat /\ c.id \in Nat /\ c.value <= d.value
    BY <1>2, <1>5 DEF Listed
  <2>2. d.value = c.value => c.id <= d.id
    BY <1>4, <1>5
  <2> QED
    BY <2>1, <2>2
<1> QED
  BY <1>6

\* The two loops of select_coins.
LEMMA SelectionCovers ==
    ASSUME NEW S, Listed(S), NEW a \in Nat
    PROVE  /\ SelectCoins(S, a) = NoCover => Covers(S, a) = {}
           /\ SelectCoins(S, a) # NoCover =>
                /\ SelectCoins(S, a) \in Covers(S, a)
                /\ \A s \in Covers(S, a) : Cardinality(SelectCoins(S, a)) <= Cardinality(s)
<1> DEFINE exact == {c \in S : c.value >= Required(a, 1)}
           enough == {k \in 1..Cardinality(S) : Worth(LargestOf(S, k)) >= Required(a, k)}
<1>0. IsFiniteSet(S) /\ Cardinality(S) \in Nat
  BY FS_CardinalityType DEF Listed
<1>1. ASSUME NEW s \in Covers(S, a)
      PROVE  /\ Cardinality(s) \in enough /\ Cardinality(s) >= 1 /\ Cardinality(s) \in Nat
  <2>1. s \in SUBSET S /\ s # {} /\ Worth(s) >= Required(a, Cardinality(s))
    BY DEF Covers
  <2>2. IsFiniteSet(s) /\ Cardinality(s) \in Nat /\ Cardinality(s) <= Cardinality(S)
    BY <1>0, <2>1, FS_Subset, FS_CardinalityType
  <2>3. Cardinality(s) # 0
    BY <2>1, <2>2, FS_EmptySet
  <2>4. LargestOf(S, Cardinality(s)) \subseteq S /\ Worth(s) <= Worth(LargestOf(S, Cardinality(s)))
    BY <2>1, <2>2, LargestAreWorthMost
  <2>5. Worth(s) \in Int /\ Worth(LargestOf(S, Cardinality(s))) \in Int /\ Required(a, Cardinality(s)) \in Int
    <3>1. Worth(s) \in Int /\ Worth(LargestOf(S, Cardinality(s))) \in Int
      BY <2>1, <2>4, WorthIsSum
    <3>2. Required(a, Cardinality(s)) \in Nat
      BY <2>2, RequiredType
    <3> QED
      BY <3>1, <3>2
  <2>6. Worth(LargestOf(S, Cardinality(s))) >= Required(a, Cardinality(s))
    BY <2>1, <2>4, <2>5
  <2> QED
    BY <1>0, <2>2, <2>3, <2>6
<1>2. CASE exact # {}
  <2> DEFINE c == CHOOSE c \in exact : \A d \in exact : d.value > c.value
                                \/ (d.value = c.value /\ d.id >= c.id)
  <2>1. c \in exact
    BY <1>2, SmallestCoin
  <2>2. SelectCoins(S, a) = {c}
    BY <1>2 DEF SelectCoins
  <2> HIDE DEF c
  <2>3. c \in S /\ Worth({c}) >= Required(a, 1) /\ Cardinality({c}) = 1
    BY <2>1, WorthOfOne
  <2>4. {c} \in Covers(S, a)
    BY <2>3 DEF Covers
  <2> QED
    BY <1>1, <2>2, <2>3, <2>4 DEF NoCover
<1>3. CASE exact = {} /\ enough = {}
  <2>1. SelectCoins(S, a) = NoCover
    BY <1>3 DEF SelectCoins
  <2> QED
    BY <1>1, <1>3, <2>1
<1>4. CASE exact = {} /\ enough # {}
  <2> DEFINE k == Min(enough)
  <2>1. SelectCoins(S, a) = LargestOf(S, k)
    BY <1>4 DEF SelectCoins
  <2>2. k \in enough /\ \A j \in enough : k <= j
    <3>1. enough \in SUBSET Nat
      OBVIOUS
    <3>2. \E i \in enough : \A j \in enough : i <= j
      BY <1>4, <3>1, Least
    <3> QED
      BY <3>2 DEF Min
  <2>3. k \in Nat /\ 1 <= k /\ k <= Cardinality(S) /\ Worth(LargestOf(S, k)) >= Required(a, k)
    BY <1>0, <2>2
  <2> HIDE DEF k, enough
  <2>4. LargestOf(S, k) \subseteq S /\ Cardinality(LargestOf(S, k)) = k
    BY <2>3, LargestAreWorthMost
  <2>5. LargestOf(S, k) # {}
    BY <2>3, <2>4, FS_EmptySet
  <2>6. LargestOf(S, k) \in Covers(S, a)
    BY <2>3, <2>4, <2>5 DEF Covers
  <2> QED
    BY <1>1, <2>1, <2>2, <2>4, <2>5, <2>6 DEF NoCover
<1> QED
  BY <1>2, <1>3, <1>4

\* build_transaction: the money adds up, and change is not dust.
LEMMA TransactionAddsUp ==
    ASSUME NEW S, Listed(S), NEW a \in Nat, NEW s \in Covers(S, a)
    PROVE  LET t == BuildTransaction(s, a)
           IN  AddsUp(t) /\ t.ins = s /\ t.amount = a /\ t.change \in Nat
<1> DEFINE n == Cardinality(s)
           fee == FeeForSize(EstimateSize(n, 2))
           left == Worth(s) - a - fee
<1>1. s \in SUBSET S /\ Worth(s) >= Required(a, n)
  BY DEF Covers
<1>2. IsFiniteSet(s) /\ n \in Nat
  BY <1>1, FS_Subset, FS_CardinalityType DEF Listed
<1>3. Worth(s) \in Int
  BY <1>1, WorthIsSum
<1>4. /\ FeeForSize(EstimateSize(n, 1)) \in Nat /\ fee \in Nat
      /\ FeeForSize(EstimateSize(n, 1)) <= fee
  <2>1. EstimateSize(n, 1) \in Nat /\ EstimateSize(n, 2) \in Nat
    BY <1>2, SizeType
  <2>2. n <= n /\ 1 + 1 = 2
    BY <1>2
  <2>3. EstimateSize(n, 1) <= EstimateSize(n, 1 + 1)
    BY <1>2, <2>2, SizeGrows
  <2>4. EstimateSize(n, 1) <= EstimateSize(n, 2)
    BY <2>2, <2>3
  <2> QED
    BY <2>1, <2>4, FeeType, FeeGrows
<1>5. left \in Nat
  BY <1>1, <1>3, <1>4 DEF Required
<1>6. DustThreshold \in Nat
  <2>1. PerInput \in Nat
    BY PaymentAssumption
  <2>2. FeeForSize(PerInput) \in Nat
    BY <2>1, FeeType
  <2> QED
    BY <2>2 DEF DustThreshold
<1>7. Worth(s) = a + fee + left
  BY <1>3, <1>4, <1>5
<1>8. BuildTransaction(s, a) = IF left > DustThreshold THEN [ins |-> s, amount |-> a, fee |-> fee, change |-> left]
                               ELSE [ins |-> s, amount |-> a, fee |-> fee + left, change |-> 0]
  BY DEF BuildTransaction
<1> HIDE DEF fee, left
<1>9. CASE left > DustThreshold
  <2>1. BuildTransaction(s, a) = [ins |-> s, amount |-> a, fee |-> fee, change |-> left]
    BY <1>8, <1>9
  <2>2. left # 0
    BY <1>5, <1>6, <1>9
  <2> QED
    BY <1>4, <1>5, <1>7, <1>9, <2>1, <2>2 DEF AddsUp, fee
<1>10. CASE ~(left > DustThreshold)
  <2>1. BuildTransaction(s, a) = [ins |-> s, amount |-> a, fee |-> fee + left, change |-> 0]
    BY <1>8, <1>10
  <2>2. fee + left >= FeeForSize(EstimateSize(n, 1)) /\ Worth(s) = a + (fee + left) + 0
    BY <1>4, <1>5, <1>7
  <2> QED
    BY <2>1, <2>2 DEF AddsUp
<1> QED
  BY <1>9, <1>10

-----------------------------------------------------------------------------
(* Sweeps.                                                                 *)

LEMMA Quotient ==
    ASSUME NEW r \in Nat, NEW p \in Nat \ {0}
    PROVE  r \div p \in Nat /\ (r \div p) * p <= r /\ r < (r \div p) * p + p
OBVIOUS

LEMMA ProductGrows ==
    ASSUME NEW p \in Nat, NEW a \in Nat, NEW b \in Nat, a <= b
    PROVE  a * p <= b * p
<1>1. PICK k \in Nat : b = a + k
  <2>1. b - a \in Nat /\ b = a + (b - a)
    OBVIOUS
  <2> QED
    BY <2>1
<1>2. b * p = a * p + k * p /\ a * p \in Nat /\ k * p \in Nat
  BY <1>1
<1> QED
  BY <1>2

\* A transaction with as many inputs as a sweep puts into one is relayed.
LEMMA PerTransactionFits ==
    /\ PerTransaction \in Nat \ {0} /\ PerTransaction <= MaxSweep
    /\ EstimateSize(PerTransaction, 1) <= MaxTxBytes
<1> DEFINE N == {n \in 1..MaxTxBytes \div PerInput + 1 : EstimateSize(n, 1) <= MaxTxBytes}
           m == Larger(1, MaxInputsForBudget)
<1>1. /\ MaxTxBytes \in Nat /\ MaxSweep \in Nat \ {0} /\ PerInput \in Nat \ {0} /\ PerOutput \in Nat /\ Base \in Nat
      /\ Base + PerInput + PerOutput <= MaxTxBytes /\ OneByte \in Nat \ {0, 1}
  BY PaymentAssumption
<1>2. EstimateSize(1, 1) <= MaxTxBytes
  BY <1>1 DEF EstimateSize, VarintSize
<1>3. MaxInputsForBudget \in {0} \cup N
  <2>1. MaxTxBytes \div PerInput \in Nat
    BY <1>1, Quotient
  <2> DEFINE u == MaxTxBytes \div PerInput + 1
  <2>2. u \in Nat
    BY <2>1
  <2>3. N \subseteq 1..u
    OBVIOUS
  <2> HIDE DEF u, N
  <2>4. CASE N = {}
    <3>1. {0} \cup N = {0}
      BY <2>4
    <3>2. Max({0}) = 0
      BY DEF Max
    <3> QED
      BY <3>1, <3>2 DEF MaxInputsForBudget, N
  <2>5. CASE N # {}
    <3>0. N \in SUBSET (1..u)
      BY <2>3
    <3>1. Max(N) \in N /\ \A x \in N : x <= Max(N)
      BY <2>2, <2>5, <3>0, MaxIsLast
    <3>2. Max(N) \in Nat /\ 0 <= Max(N)
      <4>1. Max(N) \in 1..u
        BY <3>0, <3>1
      <4> QED
        BY <2>2, <4>1
    <3>3. \A x \in {0} \cup N : Max(N) >= x
      BY <2>2, <2>3, <3>1, <3>2
    <3>4. \E x \in {0} \cup N : \A y \in {0} \cup N : x >= y
      BY <3>1, <3>3
    <3>5. Max({0} \cup N) \in {0} \cup N
      BY <3>4 DEF Max
    <3> QED
      BY <3>5 DEF MaxInputsForBudget, N
  <2> QED
    BY <2>4, <2>5
<1>4. m \in Nat \ {0} /\ EstimateSize(m, 1) <= MaxTxBytes
  <2>1. MaxInputsForBudget \in Nat
    <3>1. MaxTxBytes \div PerInput \in Nat
      BY <1>1, Quotient
    <3> QED
      BY <1>3, <3>1
  <2>2. CASE MaxInputsForBudget <= 1
    <3>1. m = 1
      BY <2>1, <2>2 DEF Larger
    <3> QED
      BY <1>2, <3>1
  <2>3. CASE MaxInputsForBudget > 1
    <3>1. m = MaxInputsForBudget /\ MaxInputsForBudget \in N
      BY <1>3, <2>1, <2>3 DEF Larger
    <3> QED
      BY <2>1, <2>3, <3>1
  <2> QED
    BY <2>1, <2>2, <2>3
<1> HIDE DEF m, N
<1>5. Larger(1, MaxSweep) = MaxSweep
  BY <1>1 DEF Larger
<1>6. PerTransaction = Smaller(m, MaxSweep)
  BY <1>5 DEF PerTransaction, m
<1>7. PerTransaction \in Nat \ {0} /\ PerTransaction <= MaxSweep /\ PerTransaction <= m
  BY <1>1, <1>4, <1>6 DEF Smaller
<1>8. /\ EstimateSize(PerTransaction, 1) <= EstimateSize(m, 1)
      /\ EstimateSize(PerTransaction, 1) \in Nat /\ EstimateSize(m, 1) \in Nat
  BY <1>4, <1>7, SizeGrows, SizeType
<1> QED
  BY <1>1, <1>4, <1>7, <1>8

\* Every coin is in one chunk, and no chunk is too large.
LEMMA ChunksAre ==
    ASSUME NEW S, Listed(S)
    PROVE  /\ UNION {Chunk(S, i) : i \in DOMAIN Sweep(S)} = S
           /\ \A i, j \in DOMAIN Sweep(S) : i # j => Chunk(S, i) \cap Chunk(S, j) = {}
           /\ \A i \in DOMAIN Sweep(S) : /\ Chunk(S, i) \subseteq S /\ Cardinality(Chunk(S, i)) \in Nat
                                         /\ Cardinality(Chunk(S, i)) <= PerTransaction
<1> DEFINE R == AsListed(S)
           p == PerTransaction
           n == Cardinality(S)
           m == (n + p - 1) \div p
<1>1. IsFiniteSet(S) /\ n \in Nat /\ Ranked(S, R) /\ p \in Nat \ {0}
  BY CoinOrders, FS_CardinalityType, PerTransactionFits DEF Listed
<1>2. \A c \in S : Place(S, c) = Rank(S, R, c) /\ Rank(S, R, c) \in 0..n - 1
  BY <1>1, CoinOrders, RankType
<1>3. m \in Nat /\ n + p - 1 < m * p + p /\ m * p \in Nat
  <2>1. n + p - 1 \in Nat
    BY <1>1
  <2> QED
    BY <1>1, <2>1, Quotient
<1>4. DOMAIN Sweep(S) = 1..m
  BY DEF Sweep
<1> HIDE DEF R, p, n, m
<1>5. Chunk(S, 0) = Chunk(S, 0) /\ \A i : Chunk(S, i) = {c \in S : Place(S, c) \div p = i - 1}
  BY DEF Chunk, p
<1>6. ASSUME NEW c \in S
      PROVE  /\ Place(S, c) \in Nat /\ Place(S, c) \div p \in 0..m - 1
             /\ (Place(S, c) \div p) * p <= Place(S, c)
             /\ Place(S, c) < (Place(S, c) \div p) * p + p
  <2> DEFINE r == Place(S, c)
             q == r \div p
  <2>1. r \in Nat /\ r <= n - 1
    BY <1>1, <1>2
  <2>2. q \in Nat /\ q * p <= r /\ r < q * p + p /\ q * p \in Nat
    BY <1>1, <2>1, Quotient
  <2> HIDE DEF r, q
  <2>3. q * p < m * p
    BY <1>1, <1>3, <2>1, <2>2
  <2>4. q < m
    <3>1. SUFFICES ASSUME m <= q PROVE FALSE
      BY <1>3, <2>2
    <3>2. m * p <= q * p
      BY <1>1, <1>3, <2>2, <3>1, ProductGrows
    <3> QED
      BY <1>3, <2>2, <2>3, <3>2
  <2>5. q \in 0..m - 1
    BY <1>3, <2>2, <2>4
  <2> QED
    BY <2>1, <2>2, <2>5 DEF r, q
<1>7. ASSUME NEW i \in 1..m, NEW j \in 1..m, i # j PROVE Chunk(S, i) \cap Chunk(S, j) = {}
  <2>1. i - 1 # j - 1
    BY <1>3, <1>7
  <2> QED
    BY <1>5, <2>1
<1>8. UNION {Chunk(S, i) : i \in 1..m} = S
  <2>1. ASSUME NEW c \in S PROVE \E i \in 1..m : c \in Chunk(S, i)
    <3> DEFINE q == Place(S, c) \div p
    <3>1. q \in 0..m - 1
      BY <1>6
    <3> HIDE DEF q
    <3>2. q + 1 \in 1..m /\ (q + 1) - 1 = q
      BY <1>3, <3>1
    <3>3. c \in Chunk(S, q + 1)
      BY <1>5, <3>2 DEF q
    <3> QED
      BY <3>2, <3>3
  <2>2. \A i \in 1..m : Chunk(S, i) \subseteq S
    BY <1>5
  <2> QED
    BY <2>1, <2>2
<1>9. ASSUME NEW i \in 1..m
      PROVE  Chunk(S, i) \subseteq S /\ Cardinality(Chunk(S, i)) \in Nat /\ Cardinality(Chunk(S, i)) <= p
  <2> DEFINE a == (i - 1) * p
             b == a + p
             C == {c \in S : a <= Rank(S, R, c) /\ Rank(S, R, c) < b}
  <2>1. a \in Nat /\ b \in Nat /\ a <= b /\ b - a = p
    <3>1. i - 1 \in Nat
      BY <1>3
    <3>2. a \in Nat
      BY <1>1, <3>1
    <3> HIDE DEF a
    <3> QED
      BY <1>1, <3>2
  <2>2. Chunk(S, i) \subseteq C
    <3>1. SUFFICES ASSUME NEW c \in Chunk(S, i) PROVE c \in C
      OBVIOUS
    <3>2. c \in S /\ Place(S, c) \div p = i - 1
      BY <1>5, <3>1
    <3>3. a <= Place(S, c) /\ Place(S, c) < b
      BY <1>6, <3>2
    <3> QED
      BY <1>2, <3>2, <3>3
  <2> HIDE DEF a, b
  <2>3. IsFiniteSet(C) /\ Cardinality(C) <= b - a
    BY <1>1, <2>1, RanksBetween
  <2> HIDE DEF C
  <2>4. IsFiniteSet(Chunk(S, i)) /\ Cardinality(Chunk(S, i)) <= Cardinality(C)
    BY <2>2, <2>3, FS_Subset
  <2>5. Cardinality(Chunk(S, i)) \in Nat /\ Cardinality(C) \in Nat
    BY <2>3, <2>4, FS_CardinalityType
  <2>6. Cardinality(Chunk(S, i)) <= p
    BY <1>1, <2>1, <2>3, <2>4, <2>5
  <2> QED
    BY <1>5, <2>5, <2>6
<1> QED
  BY <1>4, <1>7, <1>8, <1>9 DEF p

\* build_sweep_transactions spends every coin once, in transactions that are relayed.
LEMMA SweepIsRight ==
    ASSUME NEW S, Listed(S)
    PROVE  LET txs == Sweep(S) IN
           /\ UNION {txs[i].ins : i \in DOMAIN txs} = S
           /\ \A i, j \in DOMAIN txs : i # j => txs[i].ins \cap txs[j].ins = {}
           /\ \A i \in DOMAIN txs : /\ AddsUp(txs[i]) /\ txs[i].change = 0
                                   /\ EstimateSize(Cardinality(txs[i].ins), 1) <= MaxTxBytes
                                   /\ Cardinality(txs[i].ins) <= MaxSweep
           /\ txs \in Seq(ToSet(txs))
<1> DEFINE txs == Sweep(S)
           D == DOMAIN txs
           m == (Cardinality(S) + PerTransaction - 1) \div PerTransaction
<1>0. D = 1..m /\ txs = [i \in 1..m |-> SweepOne(Chunk(S, i))]
  BY DEF Sweep
<1>1. \A i \in D : txs[i] = SweepOne(Chunk(S, i)) /\ txs[i].ins = Chunk(S, i) /\ txs[i].change = 0
  BY <1>0 DEF SweepOne
<1>2. UNION {txs[i].ins : i \in D} = S /\ \A i, j \in D : i # j => txs[i].ins \cap txs[j].ins = {}
  <2>1. {txs[i].ins : i \in D} = {Chunk(S, i) : i \in D}
    BY <1>1
  <2> QED
    BY <1>1, <2>1, ChunksAre
<1>3. ASSUME NEW i \in D
      PROVE  /\ AddsUp(txs[i])
             /\ EstimateSize(Cardinality(txs[i].ins), 1) <= MaxTxBytes
             /\ Cardinality(txs[i].ins) <= MaxSweep
  <2> DEFINE c == Chunk(S, i)
             n == Cardinality(c)
  <2>1. c \in SUBSET S /\ n \in Nat /\ n <= PerTransaction
    BY ChunksAre
  <2> HIDE DEF c
  <2>2. Worth(c) \in Int
    BY <2>1, WorthIsSum
  <2>3. EstimateSize(n, 1) \in Nat /\ FeeForSize(EstimateSize(n, 1)) \in Nat
    BY <2>1, SizeType, FeeType
  <2>4. AddsUp(SweepOne(c))
    <3> DEFINE fee == FeeForSize(EstimateSize(n, 1))
    <3>1. SweepOne(c) = [ins |-> c, amount |-> Worth(c) - fee, fee |-> fee, change |-> 0]
      BY DEF SweepOne
    <3> HIDE DEF fee
    <3>2. Worth(c) = (Worth(c) - fee) + fee + 0 /\ fee >= fee
      BY <2>2, <2>3 DEF fee
    <3> QED
      BY <3>1, <3>2 DEF AddsUp, fee
  <2>5. EstimateSize(n, 1) <= EstimateSize(PerTransaction, 1) /\ EstimateSize(PerTransaction, 1) \in Nat
    BY <2>1, PerTransactionFits, SizeGrows, SizeType
  <2>6. EstimateSize(n, 1) <= MaxTxBytes /\ n <= MaxSweep
    <3>1. MaxTxBytes \in Nat /\ MaxSweep \in Nat
      BY PaymentAssumption
    <3> QED
      BY <2>1, <2>3, <2>5, <3>1, PerTransactionFits
  <2> QED
    BY <1>1, <2>4, <2>6 DEF c
<1>4. txs \in Seq(ToSet(txs))
  <2>1. m \in Nat
    <3>1. Cardinality(S) \in Nat /\ PerTransaction \in Nat \ {0}
      BY FS_CardinalityType, PerTransactionFits DEF Listed
    <3>2. Cardinality(S) + PerTransaction - 1 \in Nat
      BY <3>1
    <3> QED
      BY <3>1, <3>2, Quotient
  <2> HIDE DEF m
  <2>2. \A i \in 1..m : txs[i] \in ToSet(txs)
    BY <1>0 DEF ToSet
  <2>3. txs = [i \in 1..m |-> txs[i]]
    BY <1>0
  <2> QED
    BY <2>1, <2>2, <2>3
<1> QED
  BY <1>1, <1>2, <1>3, <1>4

-----------------------------------------------------------------------------
(* What a wallet builds, from coins each of which is listed once.          *)

\* The transactions of a payment, and what they leave.
Sound(txs) == txs \in Seq(ToSet(txs)) /\ \A t \in ToSet(txs) : t.change \in Nat

LEMMA EmptySound == Sound(<<>>)
<1>1. ToSet(<<>>) = {}
  BY DEF ToSet
<1>2. <<>> \in Seq({})
  OBVIOUS
<1> QED
  BY <1>1, <1>2 DEF Sound

LEMMA BuiltIsSound ==
    ASSUME NEW S, Listed(S), NEW a \in Nat
    PROVE  Sound(Built(S, a))
<1>2. Sound(Sweep(S))
  <2> DEFINE txs == Sweep(S)
  <2>1. txs \in Seq(ToSet(txs)) /\ \A i \in DOMAIN txs : txs[i].change = 0
    BY SweepIsRight
  <2> HIDE DEF txs
  <2>2. \A t \in ToSet(txs) : t.change \in Nat
    BY <2>1 DEF ToSet
  <2> QED
    BY <2>1, <2>2 DEF Sound, txs
<1>3. ASSUME SelectCoins(S, a) # NoCover
      PROVE  Sound(<<BuildTransaction(SelectCoins(S, a), a)>>)
  <2> DEFINE t == BuildTransaction(SelectCoins(S, a), a)
  <2>1. t.change \in Nat
    BY <1>3, SelectionCovers, TransactionAddsUp
  <2> HIDE DEF t
  <2>2. ToSet(<<t>>) = {t}
    BY DEF ToSet
  <2> QED
    BY <2>1, <2>2 DEF Sound, t
<1> QED
  BY EmptySound, <1>2, <1>3 DEF Built

-----------------------------------------------------------------------------
(* The coins, while payments are built, sent and mined.                    *)

\* What is in the pool spends coins there are, and no coin twice.
PoolSpends ==
    /\ \A t \in pool : t.ins \subseteq coins /\ t.change \in Nat
    /\ \A t, u \in pool : t # u => t.ins \cap u.ins = {}

\* What is on its way to the node, or may still be sent, was built by a wallet.
LateSound == \A t \in late : t.change \in Nat
Sending ==
    \A p \in Payer : Sound(pay[p].txs) /\ (pay[p].at # "ready" => pay[p].txs # <<>>)

\* What a process has built it has built from coins it has seen.
Seen ==
    \A p \in Payer : /\ pay[p].made \in Nat
                     /\ IF pay[p].made = 0 THEN pay[p].all = <<>>
                        ELSE Listed(pay[p].seen) /\ pay[p].all = Built(pay[p].seen, wants[p])

CoinsInv == Listed(coins) /\ IsFiniteSet(Known) /\ (\A c \in Known : c.id \in Nat) /\ PoolSpends

BuiltInv == wants \in [Payer -> Nat] /\ PayShape /\ Sending /\ Seen

SelInv == CoinsInv /\ LateSound /\ BuiltInv

\* A finite set of coins has finitely many ids.
LEMMA IdsAreFinite ==
    ASSUME NEW S, IsFiniteSet(S)
    PROVE  IsFiniteSet({0} \cup {c.id : c \in S})
<1> DEFINE I == {c.id : c \in S}
           f == [c \in S |-> c.id]
<1>1. f \in Surjection(S, I)
  BY DEF Surjection
<1>2. IsFiniteSet(I)
  BY <1>1, FS_Surjection
<1> QED
  BY <1>2, FS_AddElement

LEMMA InitSel == Init => SelInv
<1> SUFFICES ASSUME Init PROVE SelInv
  OBVIOUS
<1>1. Listed(coins) /\ wants \in [Payer -> Nat]
  BY WalletAssumption DEF Init, Listed
<1>2. Known = coins /\ PoolSpends /\ LateSound
  BY DEF Init, Known, PoolSpends, LateSound
<1>3. CoinsInv
  BY <1>1, <1>2 DEF CoinsInv, Listed
<1>5. PayShape /\ Sending /\ Seen
  BY EmptySound DEF Init, NoPayment, PayShape, PayFields, Sending, Seen
<1> QED
  BY <1>1, <1>2, <1>3, <1>5 DEF SelInv, BuiltInv

LEMMA HeadSound ==
    ASSUME NEW s, Sound(s), s # <<>>
    PROVE  /\ Head(s).change \in Nat
           /\ Len(s) > 1 => Sound(Tail(s)) /\ Tail(s) # <<>>
<1>1. s \in Seq(ToSet(s)) /\ \A t \in ToSet(s) : t.change \in Nat
  BY DEF Sound
<1>2. Head(s) \in ToSet(s)
  BY <1>1
<1>3. ASSUME Len(s) > 1 PROVE Sound(Tail(s)) /\ Tail(s) # <<>>
  <2> DEFINE u == Tail(s)
  <2>1. u \in Seq(ToSet(s)) /\ u # <<>>
    <3>1. u \in Seq(ToSet(s)) /\ Len(u) = Len(s) - 1 /\ Len(s) \in Nat
      BY <1>1, <1>3
    <3>2. Len(u) # 0
      BY <1>3, <3>1
    <3> HIDE DEF u
    <3> QED
      BY <3>1, <3>2
  <2> HIDE DEF u
  <2>2. ToSet(u) \subseteq ToSet(s) /\ u \in Seq(ToSet(u))
    BY <2>1 DEF ToSet
  <2> QED
    BY <1>1, <2>1, <2>2 DEF Sound, u
<1> QED
  BY <1>1, <1>2, <1>3

\* A step of a payment that builds nothing.
LEMMA PaymentGoesOn ==
    ASSUME BuiltInv, NEW p \in Payer, NEW q, DOMAIN q = PayFields,
           q.made = pay[p].made, q.seen = pay[p].seen, q.all = pay[p].all,
           Sound(q.txs), q.at # "ready" => q.txs # <<>>,
           pay' = [pay EXCEPT ![p] = q], UNCHANGED wants
    PROVE  BuiltInv'
<1>1. /\ pay' = [r \in Payer |-> pay'[r]]
      /\ \A r \in Payer \ {p} : pay'[r] = pay[r]
      /\ pay'[p] = q
  BY DEF BuiltInv, PayShape
<1>2. PayShape'
  BY <1>1 DEF BuiltInv, PayShape
<1>3. Sending'
  BY <1>1 DEF BuiltInv, Sending
<1>4. Seen'
  BY <1>1 DEF BuiltInv, Seen
<1> QED
  BY <1>2, <1>3, <1>4 DEF BuiltInv

LEMMA ReportGoesOn ==
    ASSUME BuiltInv, NEW p \in Payer, NEW ok, Reported(p, ok), pay[p].at # "ready", UNCHANGED wants
    PROVE  BuiltInv'
<1>0. DOMAIN pay[p] = PayFields /\ Sound(pay[p].txs) /\ pay[p].txs # <<>>
  BY DEF BuiltInv, PayShape, Sending
<1>1. CASE ok /\ Len(pay[p].txs) > 1
  <2> DEFINE u == Tail(pay[p].txs)
             q == Request([pay[p] EXCEPT !.txs = Tail(@)])
  <2>1. Sound(u) /\ u # <<>>
    BY <1>0, <1>1, HeadSound
  <2>2. pay' = [pay EXCEPT ![p] = q]
    BY <1>1 DEF Reported, BuiltInv, PayShape
  <2>3. /\ DOMAIN q = PayFields /\ q.made = pay[p].made /\ q.seen = pay[p].seen /\ q.all = pay[p].all
        /\ q.txs = u
    BY <1>0 DEF Request, PayFields
  <2> HIDE DEF q, u
  <2> QED
    BY <2>1, <2>2, <2>3, PaymentGoesOn
<1>2. CASE ~(ok /\ Len(pay[p].txs) > 1)
  <2> DEFINE q == [pay[p] EXCEPT !.at = "ready", !.txs = <<>>]
  <2>1. pay' = [pay EXCEPT ![p] = q]
    BY <1>2 DEF Reported, BuiltInv, PayShape
  <2>2. /\ DOMAIN q = PayFields /\ q.made = pay[p].made /\ q.seen = pay[p].seen /\ q.all = pay[p].all
        /\ q.txs = <<>> /\ q.at = "ready"
    BY <1>0 DEF PayFields
  <2> HIDE DEF q
  <2> QED
    BY <2>1, <2>2, EmptySound, PaymentGoesOn
<1> QED
  BY <1>1, <1>2

LEMMA BuildGoesOn ==
    ASSUME BuiltInv, Listed(coins), NEW p \in Payer, NEW addrs, Build(p, addrs), UNCHANGED wants
    PROVE  BuiltInv'
<1> DEFINE seen == Spendable({c \in coins : c.addr \in addrs})
           txs  == Built(seen, wants[p])
           q == [pay[p] EXCEPT !.made = @ + 1, !.seen = seen, !.txs = txs, !.all = txs,
                               !.at = IF txs = <<>> THEN "ready" ELSE "confirm"]
<1>1. pay' = [pay EXCEPT ![p] = q]
  BY DEF Build, BuiltInv, PayShape, PayFields
<1>2. seen \in SUBSET coins
  BY DEF Spendable
<1> HIDE DEF seen
<1>3. Listed(seen) /\ wants[p] \in Nat /\ pay[p].made \in Nat /\ DOMAIN pay[p] = PayFields
  BY <1>2, ListedSubset DEF BuiltInv, Seen, PayShape
<1>4. Sound(txs)
  BY <1>3, BuiltIsSound
<1>5. /\ DOMAIN q = PayFields /\ q.made = pay[p].made + 1 /\ q.seen = seen /\ q.all = txs /\ q.txs = txs
      /\ q.at # "ready" => txs # <<>>
  BY <1>3 DEF PayFields
<1> HIDE DEF q
<1>6. /\ pay' = [r \in Payer |-> pay'[r]]
      /\ \A r \in Payer \ {p} : pay'[r] = pay[r]
      /\ pay'[p] = q
  BY <1>1 DEF BuiltInv, PayShape
<1>7. PayShape'
  BY <1>5, <1>6 DEF BuiltInv, PayShape
<1>8. Sending'
  BY <1>4, <1>5, <1>6 DEF BuiltInv, Sending
<1>9. q.made \in Nat /\ q.made # 0 /\ q.all = Built(seen, wants[p])
  BY <1>3, <1>5 DEF txs
<1>10. Seen'
  <2>1. SUFFICES ASSUME NEW r \in Payer
        PROVE  /\ pay'[r].made \in Nat
               /\ IF pay'[r].made = 0 THEN pay'[r].all = <<>>
                  ELSE Listed(pay'[r].seen) /\ pay'[r].all = Built(pay'[r].seen, wants[r])
    BY DEF Seen
  <2>2. CASE r = p
    BY <1>3, <1>5, <1>6, <1>9, <2>2
  <2>3. CASE r # p
    BY <1>6, <2>3 DEF BuiltInv, Seen
  <2> QED
    BY <2>2, <2>3
<1> QED
  BY <1>7, <1>8, <1>10 DEF BuiltInv

\* The node takes a transaction into its pool, or refuses it.
LEMMA ProcessGoesOn ==
    ASSUME CoinsInv, NEW tx, tx.change \in Nat, pool' = Processed(tx), UNCHANGED <<coins, mined>>
    PROVE  CoinsInv'
<1>1. PoolSpends'
  BY DEF CoinsInv, PoolSpends, Processed, Accepts, Spendable
<1> QED
  BY <1>1 DEF CoinsInv, Known

\* A block takes a transaction.
LEMMA MineGoesOn ==
    ASSUME CoinsInv, NEW tx \in pool, NEW home, Mine(tx, home)
    PROVE  CoinsInv'
<1> DEFINE K == {0} \cup {c.id : c \in Known}
           id == 1 + Max(K)
           new == [id |-> id, value |-> tx.change, addr |-> home]
<1>1. /\ pool' = pool \ {tx} /\ mined' = mined \cup {tx}
      /\ coins' = (coins \ tx.ins) \cup IF tx.change = 0 THEN {} ELSE {new}
  BY DEF Mine
<1>2. tx.ins \subseteq coins /\ tx.change \in Nat /\ \A u \in pool : u # tx => u.ins \cap tx.ins = {}
  BY DEF CoinsInv, PoolSpends
<1>3. Max(K) \in Nat /\ \A c \in Known : c.id <= Max(K)
  <2>1. \A c \in Known : c.id \in Nat
    BY DEF CoinsInv
  <2>2. IsFiniteSet(Known)
    BY DEF CoinsInv
  <2> HIDE DEF K
  <2>3. K \in SUBSET Nat /\ K # {} /\ \A c \in Known : c.id \in K
    BY <2>1 DEF K
  <2>4. IsFiniteSet(K)
    BY <2>2, IdsAreFinite DEF K
  <2>5. Max(K) \in K /\ \A x \in K : x <= Max(K)
    BY <2>3, <2>4, MaxOfFinite
  <2> QED
    BY <2>3, <2>5
<1> HIDE DEF K
<1>4. id \in Nat /\ new.id = id /\ new.value = tx.change /\ \A c \in Known : c.id \in Nat /\ c.id < id
  BY <1>3 DEF CoinsInv
<1> HIDE DEF id, new
<1>5. Known' \subseteq Known \cup {new} /\ coins \subseteq Known
  BY <1>1, <1>2 DEF Known
<1>6. IsFiniteSet(Known') /\ \A c \in Known' : c.id \in Nat
  <2>1. IsFiniteSet(Known \cup {new})
    BY FS_AddElement DEF CoinsInv
  <2> QED
    BY <1>4, <1>5, <2>1, FS_Subset
<1>7. Listed(coins')
  <2>1. coins' \subseteq coins \cup {new} /\ Listed(coins)
    BY <1>1 DEF CoinsInv
  <2>2. IsFiniteSet(coins')
    <3>1. IsFiniteSet(coins \cup {new})
      BY <2>1, FS_AddElement DEF Listed
    <3> QED
      BY <2>1, <3>1, FS_Subset
  <2>3. \A c \in coins \cup {new} : c.id \in Nat /\ c.value \in Nat
    BY <1>2, <1>4, <2>1 DEF Listed
  <2>4. \A c, d \in coins \cup {new} : c.id = d.id => c = d
    <3>1. \A c \in coins : c.id \in Nat /\ c.id # new.id
      BY <1>4, <1>5
    <3> QED
      BY <2>1, <3>1 DEF Listed
  <2> QED
    BY <2>1, <2>2, <2>3, <2>4 DEF Listed
<1>8. PoolSpends'
  <2>1. ASSUME NEW u \in pool \ {tx} PROVE u.ins \subseteq coins'
    BY <1>1, <1>2 DEF CoinsInv, PoolSpends
  <2> QED
    BY <1>1, <2>1 DEF CoinsInv, PoolSpends
<1> QED
  BY <1>6, <1>7, <1>8 DEF CoinsInv

LEMMA SelStep == SelInv /\ [Next]_vars => SelInv'
<1> SUFFICES ASSUME SelInv, [Next]_vars PROVE SelInv'
  OBVIOUS
<1>0. CoinsInv /\ LateSound /\ BuiltInv /\ Listed(coins)
  BY DEF SelInv, CoinsInv
<1>1. ASSUME UNCHANGED <<coins, mined, pool>> PROVE CoinsInv'
  BY <1>0, <1>1 DEF CoinsInv, Listed, Known, PoolSpends
<1>2. ASSUME UNCHANGED <<wants, pay>> PROVE BuiltInv'
  BY <1>0, <1>2 DEF BuiltInv, PayShape, Sending, Seen
<1>3. CASE UNCHANGED payVars
  BY <1>0, <1>1, <1>2, <1>3 DEF SelInv, LateSound, payVars
<1>4. ASSUME NEW p \in Payer
      PROVE  /\ DOMAIN pay[p] = PayFields /\ Sound(pay[p].txs)
             /\ pay[p].at # "ready" => pay[p].txs # <<>> /\ Tx(p).change \in Nat
  BY <1>0, HeadSound DEF BuiltInv, PayShape, Sending, Tx
<1>5. CASE Mines
  <2>1. PICK tx \in pool : Mine(tx, setting.file.addrs[1])
    BY <1>5 DEF Mines
  <2>2. CoinsInv'
    BY <1>0, <2>1, MineGoesOn
  <2> QED
    BY <1>0, <1>2, <2>1, <2>2 DEF SelInv, LateSound, Mine
<1>6. ASSUME NEW tx \in late, Late(tx) PROVE SelInv'
  <2>1. CoinsInv'
    BY <1>0, <1>6, ProcessGoesOn DEF Late, Carry, LateSound
  <2> QED
    BY <1>0, <1>2, <1>6, <2>1 DEF Late, SelInv, LateSound
<1>7. ASSUME NEW p \in Payer, Confirm(p) \/ Cancel(p) PROVE SelInv'
  <2>1. BuiltInv'
    <3>1. CASE Confirm(p)
      <4> DEFINE q == Request(pay[p])
      <4>1. pay' = [pay EXCEPT ![p] = q] /\ pay[p].at # "ready" /\ UNCHANGED wants
        BY <3>1 DEF Confirm
      <4>2. /\ DOMAIN q = PayFields /\ q.made = pay[p].made /\ q.seen = pay[p].seen /\ q.all = pay[p].all
            /\ q.txs = pay[p].txs
        BY <1>4 DEF Request, PayFields
      <4> HIDE DEF q
      <4> QED
        BY <1>0, <1>4, <4>1, <4>2, PaymentGoesOn
    <3>2. CASE Cancel(p)
      <4> DEFINE q == [pay[p] EXCEPT !.at = "ready"]
      <4>1. pay' = [pay EXCEPT ![p] = q] /\ UNCHANGED wants
        BY <3>2 DEF Cancel
      <4>2. /\ DOMAIN q = PayFields /\ q.made = pay[p].made /\ q.seen = pay[p].seen /\ q.all = pay[p].all
            /\ q.txs = pay[p].txs /\ q.at = "ready"
        BY <1>4 DEF PayFields
      <4> HIDE DEF q
      <4> QED
        BY <1>0, <1>4, <4>1, <4>2, PaymentGoesOn
    <3> QED
      BY <1>7, <3>1, <3>2
  <2>2. UNCHANGED <<coins, mined, pool, late>>
    BY <1>7 DEF Confirm, Cancel
  <2> QED
    BY <1>0, <1>1, <2>1, <2>2 DEF SelInv, LateSound
<1>8. ASSUME NEW p \in Payer, NodeAnswers(p) PROVE SelInv'
  <2> DEFINE q == [pay[p] EXCEPT !.at = "answered", !.ok = Accepts(Tx(p))]
  <2>1. /\ pay' = [pay EXCEPT ![p] = q] /\ pool' = Processed(Tx(p)) /\ pay[p].at = "call"
        /\ UNCHANGED <<wants, coins, mined, late>>
    BY <1>8 DEF NodeAnswers, Carry
  <2>2. /\ DOMAIN q = PayFields /\ q.made = pay[p].made /\ q.seen = pay[p].seen /\ q.all = pay[p].all
        /\ q.txs = pay[p].txs
    BY <1>4 DEF PayFields
  <2> HIDE DEF q
  <2>3. BuiltInv'
    BY <1>0, <1>4, <2>1, <2>2, PaymentGoesOn
  <2>4. CoinsInv'
    BY <1>0, <1>4, <2>1, ProcessGoesOn
  <2> QED
    BY <1>0, <2>1, <2>3, <2>4 DEF SelInv, LateSound
<1>9. ASSUME NEW p \in Payer, GivesUp(p), pay[p].at # "ready", UNCHANGED wants PROVE BuiltInv'
  <2>1. CASE p \in Patient
    <3> DEFINE q == [pay[p] EXCEPT !.at = "look"]
    <3>1. pay' = [pay EXCEPT ![p] = q]
      BY <1>9, <2>1 DEF GivesUp
    <3>2. /\ DOMAIN q = PayFields /\ q.made = pay[p].made /\ q.seen = pay[p].seen /\ q.all = pay[p].all
          /\ q.txs = pay[p].txs
      BY <1>4 DEF PayFields
    <3> HIDE DEF q
    <3> QED
      BY <1>0, <1>4, <1>9, <3>1, <3>2, PaymentGoesOn
  <2>2. CASE p \notin Patient
    BY <1>0, <1>9, <2>2, ReportGoesOn DEF GivesUp
  <2> QED
    BY <2>1, <2>2
<1>10. ASSUME NEW p \in Payer, Abandoned(p) PROVE LateSound'
  BY <1>0, <1>4, <1>10 DEF Abandoned, LateSound
<1>11. ASSUME NEW p \in Payer, Outcome(p) PROVE SelInv'
  <2>1. UNCHANGED <<wants, coins, mined, pool>> /\ pay[p].at # "ready"
    BY <1>11 DEF Outcome, AnswerArrives, Refused, Dropped, TimesOut, Look
  <2>2. LateSound'
    BY <1>0, <1>10, <1>11 DEF Outcome, AnswerArrives, Refused, Dropped, TimesOut, Look, LateSound
  <2>3. BuiltInv'
    <3>1. ASSUME Reported(p, TRUE) \/ Reported(p, FALSE) \/ Reported(p, pay[p].ok) PROVE BuiltInv'
      BY <1>0, <2>1, <3>1, ReportGoesOn
    <3>2. CASE GivesUp(p)
      BY <1>9, <2>1, <3>2
    <3>3. CASE Dropped(p) /\ pay[p].attempt < MaxAttempts
      <4> DEFINE q == [pay[p] EXCEPT !.at = "call", !.attempt = @ + 1]
      <4>1. pay' = [pay EXCEPT ![p] = q]
        BY <3>3 DEF Dropped, BuiltInv, PayShape
      <4>2. /\ DOMAIN q = PayFields /\ q.made = pay[p].made /\ q.seen = pay[p].seen /\ q.all = pay[p].all
            /\ q.txs = pay[p].txs
        BY <1>4 DEF PayFields
      <4> HIDE DEF q
      <4> QED
        BY <1>0, <1>4, <2>1, <4>1, <4>2, PaymentGoesOn
    <3>4. CASE Look(p) /\ pay' = [pay EXCEPT ![p].look = @ + 1]
      <4> DEFINE q == [pay[p] EXCEPT !.look = @ + 1]
      <4>1. pay' = [pay EXCEPT ![p] = q]
        BY <3>4
      <4>2. /\ DOMAIN q = PayFields /\ q.made = pay[p].made /\ q.seen = pay[p].seen /\ q.all = pay[p].all
            /\ q.txs = pay[p].txs /\ q.at = pay[p].at
        BY <1>4 DEF PayFields
      <4> HIDE DEF q
      <4> QED
        BY <1>0, <1>4, <2>1, <4>1, <4>2, PaymentGoesOn
    <3> QED
      BY <1>11, <3>1, <3>2, <3>3, <3>4 DEF Outcome, AnswerArrives, Refused, Dropped, TimesOut, Look
  <2> QED
    BY <1>1, <2>1, <2>2, <2>3 DEF SelInv
<1>12. ASSUME NEW p \in Payer, Dies(p) PROVE SelInv'
  <2> DEFINE q == [pay[p] EXCEPT !.at = "ready"]
  <2>1. /\ pay' = [pay EXCEPT ![p] = q] /\ UNCHANGED <<wants, coins, mined, pool>>
    BY <1>12 DEF Dies
  <2>2. /\ DOMAIN q = PayFields /\ q.made = pay[p].made /\ q.seen = pay[p].seen /\ q.all = pay[p].all
        /\ q.txs = pay[p].txs /\ q.at = "ready"
    BY <1>4 DEF PayFields
  <2> HIDE DEF q
  <2>3. BuiltInv'
    BY <1>0, <1>4, <2>1, <2>2, PaymentGoesOn
  <2> QED
    BY <1>1, <1>10, <1>12, <2>1, <2>3 DEF SelInv, Dies
<1>13. ASSUME NEW p \in Payer, NEW addrs, Build(p, addrs) PROVE SelInv'
  <2>1. BuiltInv'
    BY <1>0, <1>13, BuildGoesOn DEF Build
  <2>2. UNCHANGED <<coins, mined, pool, late>>
    BY <1>13 DEF Build
  <2> QED
    BY <1>0, <1>1, <2>1, <2>2 DEF SelInv, LateSound
<1>17. ASSUME NEW tx \in pool, Forget(tx) PROVE SelInv'
  <2>1. CoinsInv'
    BY <1>0, <1>17 DEF Forget, CoinsInv, Listed, Known, PoolSpends
  <2> QED
    BY <1>0, <1>2, <1>17, <2>1 DEF Forget, SelInv, LateSound
<1>14. CASE PaymentNext
  BY <1>6, <1>7, <1>8, <1>11, <1>14, <1>17 DEF PaymentNext
<1>15. CASE Edits
  BY <1>3, <1>15 DEF Edits
<1>16. ASSUME NEW p \in Proc, Pays(p) \/ Opens(p) \/ Closes(p) PROVE SelInv'
  BY <1>3, <1>12, <1>13, <1>16, WalletAssumption DEF Pays, Opens, Closes
<1> QED
  BY <1>3, <1>5, <1>14, <1>15, <1>16 DEF Next, vars, payVars

\* For any coins, fees and limits: select_coins finds a cover whenever there is
\* one, and no cover has fewer coins; the transaction built from it adds up; and
\* a sweep spends every coin once, in transactions that nodes relay
\* (select_coins, build_transaction, build_sweep_transactions).
THEOREM SelectionCorrect == Spec => []SelectionIsRight
<1>1. SelInv => SelectionIsRight
  <2> SUFFICES ASSUME SelInv PROVE SelectionIsRight
    OBVIOUS
  <2>1. SweepIsExact
    <3>1. SUFFICES ASSUME NEW p \in Payer, wants[p] = 0, pay[p].all # <<>>
          PROVE  LET txs == pay[p].all IN
                 /\ UNION {txs[i].ins : i \in DOMAIN txs} = pay[p].seen
                 /\ \A i, j \in DOMAIN txs : i # j => txs[i].ins \cap txs[j].ins = {}
                 /\ \A i \in DOMAIN txs : /\ AddsUp(txs[i])
                                         /\ EstimateSize(Cardinality(txs[i].ins), 1) <= MaxTxBytes
                                         /\ Cardinality(txs[i].ins) <= MaxSweep
      BY DEF SweepIsExact
    <3>2. Listed(pay[p].seen) /\ pay[p].all = Built(pay[p].seen, wants[p])
      BY <3>1 DEF SelInv, BuiltInv, Seen
    <3>3. pay[p].all = Sweep(pay[p].seen)
      BY <3>1, <3>2 DEF Built
    <3> QED
      BY <3>2, <3>3, SweepIsRight
  <2>2. ASSUME NEW p \in Payer, wants[p] > 0, pay[p].made > 0
        PROVE  IF pay[p].all = <<>> THEN Covers(pay[p].seen, wants[p]) = {}
               ELSE LET t == pay[p].all[1] IN
                    /\ t.ins \in Covers(pay[p].seen, wants[p]) /\ AddsUp(t) /\ t.amount = wants[p]
                    /\ \A s \in Covers(pay[p].seen, wants[p]) : Cardinality(t.ins) <= Cardinality(s)
    <3> DEFINE S == pay[p].seen
               a == wants[p]
    <3>1. Listed(S) /\ pay[p].all = Built(S, a) /\ a \in Nat
      BY <2>2 DEF SelInv, BuiltInv, Seen
    <3> HIDE DEF S, a
    <3>2. a # 0
      BY <2>2 DEF a
    <3>3. CASE SelectCoins(S, a) = NoCover
      <4>1. pay[p].all = <<>>
        BY <3>1, <3>2, <3>3 DEF Built
      <4>2. Covers(S, a) = {}
        BY <3>1, <3>3, SelectionCovers
      <4> QED
        BY <4>1, <4>2 DEF S, a
    <3>4. CASE SelectCoins(S, a) # NoCover
      <4> DEFINE s == SelectCoins(S, a)
                 t == BuildTransaction(s, a)
      <4>1. pay[p].all = <<t>>
        BY <3>1, <3>2, <3>4 DEF Built
      <4>2. s \in Covers(S, a) /\ \A r \in Covers(S, a) : Cardinality(s) <= Cardinality(r)
        BY <3>1, <3>4, SelectionCovers
      <4> HIDE DEF s
      <4>3. AddsUp(t) /\ t.ins = s /\ t.amount = a
        BY <3>1, <4>2, TransactionAddsUp
      <4> HIDE DEF t
      <4>4. pay[p].all # <<>> /\ pay[p].all[1] = t
        BY <4>1
      <4> QED
        BY <4>2, <4>3, <4>4 DEF S, a
    <3> QED
      BY <3>3, <3>4
  <2> QED
    BY <2>1, <2>2 DEF SelectionIsRight, Covers
<1> QED
  BY <1>1, InitSel, SelStep, PTL DEF Spec

=============================================================================
