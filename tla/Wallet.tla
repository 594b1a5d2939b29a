------------------------------- MODULE Wallet -------------------------------
(***************************************************************************)
(* Wallets: processes that share a wallet file and pay with its keys.  A   *)
(* wallet pays when its keys are unlocked, from the coins of the addresses *)
(* it has in memory; its payment ends with the process.                    *)
(***************************************************************************)
EXTENDS Keystore, Payment

CONSTANT Settings   \* what is looked at together: the file, coins, payments, changes of the file

VARIABLE setting

vars == <<setting, ksVars, payVars>>

ASSUME WalletAssumption ==
    /\ Payer = Proc
    /\ \A s \in Settings : s.edits \in BOOLEAN /\ s.file \in {Missing} \cup Document
    \* A wallet file holds the key of every address it lists.
    /\ \A s \in Settings : s.file = Missing \/ \A a \in ToSet(s.file.addrs) : Spends(s.file, a)
    \* No coin is listed twice.
    /\ \A s \in Settings :
        /\ IsFiniteSet(s.coins) /\ s.wants \subseteq [Payer -> Nat]
        /\ \A c \in s.coins : c.id \in Nat /\ c.value \in Nat
        /\ \A c, d \in s.coins : c.id = d.id => c = d

NoPayment == [at |-> "ready", made |-> 0, seen |-> {}, all |-> <<>>, txs |-> <<>>, attempt |-> 0,
              look |-> 0, ok |-> FALSE]

Init ==
    /\ setting \in Settings /\ KeystoreInit(setting.file)
    /\ coins = setting.coins /\ wants \in setting.wants
    /\ pool = {} /\ mined = {} /\ taken = {} /\ late = {} /\ reports = {}
    /\ pay = [p \in Payer |-> NoPayment]

Pays(p) ==
    /\ Usable(p) /\ coins # {} /\ Build(p, ToSet(mem[p].doc.addrs))
    /\ UNCHANGED <<setting, ksVars>>

\* The change of a payment comes back to the first address of the wallet.
Mines ==
    /\ \E tx \in pool : Mine(tx, setting.file.addrs[1])
    /\ UNCHANGED <<setting, ksVars>>

\* Bound: where payments are looked at, a process opens the file to pay, and is
\* closed in the middle of a payment or not at all.
Opens(p) ==
    /\ setting.edits \/ pay[p].made < MaxPayment
    /\ Load(p) \/ \E pw \in Password : Unlock(p, pw)
    /\ UNCHANGED <<setting, payVars>>

Closes(p) == (setting.edits \/ pay[p].at # "ready") /\ End(p) /\ Dies(p) /\ UNCHANGED setting

Edits == setting.edits /\ KeystoreEdit /\ UNCHANGED <<setting, payVars>>

Next ==
    \/ Mines \/ Edits
    \/ PaymentNext /\ UNCHANGED <<setting, ksVars>>
    \/ \E p \in Proc : Pays(p) \/ Opens(p) \/ Closes(p)

Spec == Init /\ [][Next]_vars

-----------------------------------------------------------------------------

\* The money adds up: inputs are what is paid, the fee and the change; the fee
\* is the one the size asks for, and change is never dust.
AddsUp(t) ==
    /\ Worth(t.ins) = t.amount + t.fee + t.change
    /\ t.fee >= FeeForSize(EstimateSize(Cardinality(t.ins), IF t.change = 0 THEN 1 ELSE 2))
    /\ t.change = 0 \/ t.change > DustThreshold

\* A sweep spends every coin the wallet saw exactly once, in transactions a node
\* relays, and loses nothing but the fees.
SweepIsExact ==
    \A p \in Payer : (wants[p] = 0 /\ pay[p].all # <<>>) =>
       LET txs == pay[p].all IN
       /\ UNION {txs[i].ins : i \in DOMAIN txs} = pay[p].seen
       /\ \A i, j \in DOMAIN txs : i # j => txs[i].ins \cap txs[j].ins = {}
       /\ \A i \in DOMAIN txs : /\ AddsUp(txs[i])
                               /\ EstimateSize(Cardinality(txs[i].ins), 1) <= MaxTxBytes
                               /\ Cardinality(txs[i].ins) <= MaxSweep

\* Select_coins finds a cover whenever some set of coins pays the amount and
\* the fee of its own size, with as few coins as possible, and the transaction
\* built from it adds up; sweeps are exact (select_coins, build_transaction,
\* build_sweep_transactions).
SelectionIsRight ==
    SweepIsExact /\ \A p \in Payer : (wants[p] > 0 /\ pay[p].made > 0) =>
       LET covers == {s \in SUBSET pay[p].seen : Worth(s) >= Required(wants[p], Cardinality(s))} \ {{}}
       IN  IF pay[p].all = <<>> THEN covers = {}
           ELSE LET t == pay[p].all[1] IN
                /\ t.ins \in covers /\ AddsUp(t) /\ t.amount = wants[p]
                /\ \A s \in covers : Cardinality(t.ins) <= Cardinality(s)

\* A payment the user is told was sent was taken by the node, which may have
\* forgotten it since (sendrawtransaction, broadcast).
SentMeansAccepted == \A r \in reports : r.ok => r.tx \in taken

=============================================================================
