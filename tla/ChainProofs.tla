---------------------------- MODULE ChainProofs ----------------------------
(***************************************************************************)
(* Proofs about Chain, for every block tree, every cache size and every    *)
(* retention bound: the committed store always holds one valid path and    *)
(* the UTXO set of that path, and its tip never loses work.                *)
(*                                                                         *)
(* UtxoMatchesChain is not inductive.  Undoing a block gives back the      *)
(* right coins only if no two active blocks create or consume one coin and *)
(* every spent coin was created lower down; and inside a reorganisation it *)
(* is the uncommitted view, with the local variable newTip as its tip,     *)
(* that has these properties.  Ledger collects them; IInv says which       *)
(* tables satisfy it at each point of _activate_best_chain.                *)
(***************************************************************************)
EXTENDS Chain, TLAPS, FiniteSetTheorems

\* S is a path of rows R with heights h that ends in t, and U its UTXO set.
Ledger(S, U, t, R, h) ==
    /\ S \subseteq R /\ Genesis \in S /\ t \in S
    /\ \A b \in S \ {Genesis} : Parent[b] \in S
    /\ \A b, c \in S : h[b] = h[c] => b = c
    /\ \A b \in S : h[b] <= h[t]
    /\ U = Unspent(S)
    /\ \A b, c \in S : b # c => Creates[b] \cap Creates[c] = {}
    /\ \A b, c \in S : b # c => Consumed(b) \cap Consumed(c) = {}
    /\ \A c \in S : \A x \in Spends[c] :
          \E d \in S : x \in Creates[d] /\ h[d] < h[c]

\* The rows of the blocks table fit together.
RowsFit(R, h) ==
    /\ R \subseteq Block /\ Genesis \in R /\ h \in [Block -> Nat]
    /\ \A b \in R \ {Genesis} : Parent[b] \in R /\ h[b] = h[Parent[b]] + 1
    /\ \A b \in R : CoinbaseHeight[b] = h[b]

----------------------------------------------------------------------------

LEMMA GenesisHeight ==
    ASSUME NEW R, NEW h, RowsFit(R, h)
    PROVE  h[Genesis] = 0
BY CoinAssumption DEF RowsFit

LEMMA InCreatedBy ==
    ASSUME NEW S, NEW x
    PROVE  x \in CreatedBy(S) <=> \E b \in S : x \in Creates[b]
BY DEF CreatedBy

LEMMA InConsumedBy ==
    ASSUME NEW S, NEW x
    PROVE  x \in ConsumedBy(S) <=>
              \E b \in S : x \in Spends[b] \/ x \in Transient[b]
BY DEF ConsumedBy, Consumed

LEMMA InUnspent ==
    ASSUME NEW S, NEW x
    PROVE  x \in Unspent(S) <=>
              /\ \E b \in S : x \in Creates[b]
              /\ \A b \in S : x \notin Spends[b] /\ x \notin Transient[b]
BY InCreatedBy, InConsumedBy DEF Unspent

\* Whatever a ledger's blocks consume, they have created.
LEMMA ConsumedIsCreated ==
    ASSUME NEW S, NEW U, NEW t, NEW R, NEW h, Ledger(S, U, t, R, h),
           R \subseteq Block
    PROVE  ConsumedBy(S) \subseteq CreatedBy(S)
<1> SUFFICES ASSUME NEW x \in ConsumedBy(S) PROVE x \in CreatedBy(S)
    OBVIOUS
<1>1. PICK c \in S : x \in Spends[c] \/ x \in Transient[c]
    BY InConsumedBy
<1>2. c \in Block
    BY DEF Ledger
<1>3. CASE x \in Spends[c]
    BY <1>3, InCreatedBy DEF Ledger
<1>4. CASE x \in Transient[c]
    BY <1>2, <1>4, InCreatedBy, CoinAssumption
<1> QED BY <1>1, <1>3, <1>4

\* The first ledger: Genesis alone, as _load_or_create_genesis writes it.
LEMMA GenesisLedger ==
    ASSUME NEW R, NEW h, RowsFit(R, h)
    PROVE  Ledger({Genesis}, Creates[Genesis], Genesis, R, h)
<1>1. Creates[Genesis] = Unspent({Genesis})
  <2>1. ASSUME NEW x PROVE x \in Unspent({Genesis}) <=> x \in Creates[Genesis]
      BY InUnspent, CoinAssumption
  <2> QED BY <2>1
<1>2. h[Genesis] \in Nat
    BY BlockAssumption DEF RowsFit
<1> QED BY <1>1, <1>2, CoinAssumption DEF Ledger, RowsFit

\* A new row changes no ledger.
LEMMA LedgerKept ==
    ASSUME NEW S, NEW U, NEW t, NEW R, NEW h, Ledger(S, U, t, R, h),
           NEW Q, NEW g, R \subseteq Q, \A b \in R : g[b] = h[b]
    PROVE  Ledger(S, U, t, Q, g)
BY DEF Ledger

\* _disconnect_block of the top block leaves the ledger of its parent.
LEMMA DisconnectLedger ==
    ASSUME NEW S, NEW U, NEW t, NEW R, NEW h, RowsFit(R, h),
           Ledger(S, U, t, R, h), t # Genesis
    PROVE  Ledger(S \ {t}, (U \ Creates[t]) \cup Spends[t], Parent[t], R, h)
<1> DEFINE T == S \ {t}
           p == Parent[t]
<1>1. /\ t \in R /\ t \in Block /\ p \in S /\ p \in R /\ h[t] = h[p] + 1
      /\ h[p] \in Nat /\ h[t] \in Nat
    BY BlockAssumption DEF Ledger, RowsFit
<1>2. \A b \in S : h[b] \in Nat /\ b \in Block
    BY DEF Ledger, RowsFit
<1>3. T \subseteq R /\ Genesis \in T /\ p \in T
    BY <1>1 DEF Ledger
<1>4. \A b \in T \ {Genesis} : Parent[b] \in T
  <2> SUFFICES ASSUME NEW b \in T \ {Genesis} PROVE Parent[b] \in T
      OBVIOUS
  <2>1. Parent[b] \in S /\ h[b] = h[Parent[b]] + 1 /\ h[b] <= h[t]
      BY DEF Ledger, RowsFit
  <2>2. h[Parent[b]] # h[t]
      BY <1>2, <2>1
  <2> QED BY <2>1, <2>2
<1>5. \A b, c \in T : h[b] = h[c] => b = c
    BY DEF Ledger
<1>6. \A b \in T : h[b] <= h[p]
  <2> SUFFICES ASSUME NEW b \in T PROVE h[b] <= h[p]
      OBVIOUS
  <2>1. h[b] <= h[t] /\ h[b] # h[t]
      BY DEF Ledger
  <2> QED BY <1>1, <1>2, <2>1
<1>7. \A c \in T : \A x \in Spends[c] : \E d \in T : x \in Creates[d] /\ h[d] < h[c]
  <2> SUFFICES ASSUME NEW c \in T, NEW x \in Spends[c]
               PROVE  \E d \in T : x \in Creates[d] /\ h[d] < h[c]
      OBVIOUS
  <2>1. PICK d \in S : x \in Creates[d] /\ h[d] < h[c]
      BY DEF Ledger
  <2>2. h[c] <= h[p]
      BY <1>6
  <2>3. d # t
      BY <1>1, <1>2, <2>1, <2>2
  <2> QED BY <2>1, <2>3
<1>8. \A b, c \in T : b # c => Creates[b] \cap Creates[c] = {}
    BY DEF Ledger
<1>9. \A b, c \in T : b # c => Consumed(b) \cap Consumed(c) = {}
    BY DEF Ledger
<1>10. (U \ Creates[t]) \cup Spends[t] = Unspent(T)
  <2>1. ASSUME NEW x, x \in Spends[t] PROVE x \in Unspent(T)
    <3>1. PICK d \in S : x \in Creates[d] /\ h[d] < h[t]
        BY <2>1 DEF Ledger
    <3>2. d \in T
        BY <1>2, <3>1
    <3>3. \A b \in T : x \notin Spends[b] /\ x \notin Transient[b]
        BY <2>1 DEF Ledger, Consumed
    <3> QED BY <3>1, <3>2, <3>3, InUnspent
  <2>2. ASSUME NEW x, x \in U \ Creates[t] PROVE x \in Unspent(T)
    <3>1. x \in Unspent(S)
        BY <2>2 DEF Ledger
    <3> QED BY <2>2, <3>1, InUnspent
  <2>3. ASSUME NEW x, x \in Unspent(T), x \notin Spends[t]
        PROVE  x \in U \ Creates[t]
    <3>1. PICK d \in T : x \in Creates[d]
        BY <2>3, InUnspent
    <3>2. x \notin Creates[t]
        BY <3>1 DEF Ledger
    <3>3. x \notin Transient[t]
        BY <1>1, <3>2, CoinAssumption
    <3>4. x \in Unspent(S)
        BY <2>3, <3>1, <3>3, InUnspent
    <3> QED BY <3>2, <3>4 DEF Ledger
  <2> QED BY <2>1, <2>2, <2>3
<1> QED BY <1>3, <1>4, <1>5, <1>6, <1>7, <1>8, <1>9, <1>10 DEF Ledger

\* _connect_block of a child of the top block whose inputs are all unspent.
LEMMA ConnectLedger ==
    ASSUME NEW S, NEW U, NEW t, NEW R, NEW h, RowsFit(R, h),
           Ledger(S, U, t, R, h),
           NEW b \in R, b # Genesis, Parent[b] = t, Spends[b] \subseteq U
    PROVE  Ledger(S \cup {b}, (U \ Spends[b]) \cup (Creates[b] \ Transient[b]),
                  b, R, h)
<1> DEFINE T == S \cup {b}
<1>1. b \in Block /\ h[b] = h[t] + 1 /\ h[t] \in Nat /\ h[b] \in Nat
    BY BlockAssumption DEF Ledger, RowsFit
<1>2. \A c \in S : h[c] \in Nat /\ c \in Block /\ h[c] < h[b]
    BY <1>1 DEF Ledger, RowsFit
<1>3. b \notin S
    BY <1>1, <1>2
<1>4. /\ T \subseteq R /\ Genesis \in T /\ b \in T
      /\ \A c \in T \ {Genesis} : Parent[c] \in T
    BY DEF Ledger
<1>5. \A c, d \in T : h[c] = h[d] => c = d
    BY <1>1, <1>2 DEF Ledger
<1>6. \A c \in T : h[c] <= h[b]
    BY <1>1, <1>2
<1>7. Spends[b] \cap ConsumedBy(S) = {}
    BY DEF Ledger, Unspent
<1>8. Creates[b] \cap CreatedBy(S) = {}
  <2>1. S \in SUBSET Block /\ b \in Block \ S
      BY <1>1, <1>2, <1>3
  <2>2. \A c \in S : CoinbaseHeight[c] # CoinbaseHeight[b]
      BY <1>1, <1>2 DEF RowsFit, Ledger
  <2>3. ConsumedBy(S) \subseteq CreatedBy(S)
      BY ConsumedIsCreated DEF RowsFit
  <2> QED BY <1>7, <2>1, <2>2, <2>3, TxidAssumption
<1>9. \A c, d \in T : c # d => Creates[c] \cap Creates[d] = {}
    BY <1>8, InCreatedBy DEF Ledger
<1>10. \A c \in S : Consumed(b) \cap Consumed(c) = {}
  <2> SUFFICES ASSUME NEW c \in S, NEW x, x \in Consumed(b), x \in Consumed(c)
               PROVE  FALSE
      OBVIOUS
  <2>1. x \in ConsumedBy(S)
      BY InConsumedBy DEF Consumed
  <2>2. x \in CreatedBy(S)
      BY <2>1, ConsumedIsCreated DEF RowsFit
  <2>3. x \notin Transient[b]
      BY <1>1, <1>8, <2>2, CoinAssumption
  <2> QED BY <1>7, <2>1, <2>3 DEF Consumed
<1>11. \A c, d \in T : c # d => Consumed(c) \cap Consumed(d) = {}
    BY <1>10 DEF Ledger
<1>12. \A c \in T : \A x \in Spends[c] : \E d \in T : x \in Creates[d] /\ h[d] < h[c]
  <2> SUFFICES ASSUME NEW c \in T, NEW x \in Spends[c]
               PROVE  \E d \in T : x \in Creates[d] /\ h[d] < h[c]
      OBVIOUS
  <2>1. CASE c \in S
      BY <2>1 DEF Ledger
  <2>2. CASE c = b
    <3>1. x \in Unspent(S)
        BY <2>2 DEF Ledger
    <3>2. PICK d \in S : x \in Creates[d]
        BY <3>1, InUnspent
    <3> QED BY <1>2, <2>2, <3>2
  <2> QED BY <2>1, <2>2
<1>13. (U \ Spends[b]) \cup (Creates[b] \ Transient[b]) = Unspent(T)
  <2>1. ASSUME NEW x, x \in U \ Spends[b] PROVE x \in Unspent(T)
    <3>1. x \in Unspent(S)
        BY <2>1 DEF Ledger
    <3>2. x \notin Creates[b]
        BY <1>8, <3>1 DEF Unspent
    <3>3. x \notin Transient[b]
        BY <1>1, <3>2, CoinAssumption
    <3> QED BY <2>1, <3>1, <3>3, InUnspent
  <2>2. ASSUME NEW x, x \in Creates[b] \ Transient[b] PROVE x \in Unspent(T)
    <3>1. x \notin CreatedBy(S)
        BY <1>8, <2>2
    <3>2. x \notin ConsumedBy(S)
        BY <3>1, ConsumedIsCreated DEF RowsFit
    <3>3. x \notin Spends[b]
        BY <1>1, <2>2, CoinAssumption
    <3> QED BY <2>2, <3>2, <3>3, InUnspent, InConsumedBy
  <2>3. ASSUME NEW x, x \in Unspent(T)
        PROVE  x \in (U \ Spends[b]) \cup (Creates[b] \ Transient[b])
    <3>1. x \notin Spends[b] /\ x \notin Transient[b]
        BY <2>3, InUnspent
    <3>2. CASE x \in Creates[b]
        BY <3>1, <3>2
    <3>3. CASE x \notin Creates[b]
      <4>1. x \in Unspent(S)
          BY <2>3, <3>3, InUnspent
      <4> QED BY <3>1, <4>1 DEF Ledger
    <3> QED BY <3>2, <3>3
  <2> QED BY <2>1, <2>2, <2>3
<1> QED BY <1>4, <1>5, <1>6, <1>9, <1>11, <1>12, <1>13 DEF Ledger

----------------------------------------------------------------------------

Switching == {"disconnect", "connect"}

\* What holds between any two steps of the code.
IInv ==
    /\ TypeOK
    /\ RowsFit(stored, height)
    /\ Ledger(db.inChain, db.utxo, db.tip, stored, height)
    /\ pc \notin Switching => view = db
    /\ pc \in Switching => Ledger(view.inChain, view.utxo, newTip, stored, height)
    /\ pc = "publish" => newTip = db.tip
    /\ pc # "publish" => tip = db.tip
    /\ pc \in InTransaction =>
          /\ cand \in stored /\ walker \in stored
          /\ work[cand] > work[tip]
          /\ branch \subseteq stored \ {Genesis}
          /\ \A b \in branch : height[b] <= height[cand]
    /\ pc = "walk" => /\ height[walker] <= height[cand]
                      /\ cand \in branch \/ walker = cand
    /\ pc = "disconnect" => /\ walker \in view.inChain
                            /\ cand \in branch \/ walker = cand
    /\ pc = "connect" => cand \in branch \/ newTip = cand

LEMMA InitIInv == Init => IInv
<1> SUFFICES ASSUME Init PROVE IInv
    OBVIOUS
<1>1. TypeOK
    BY BlockAssumption, CoinAssumption
    DEF Init, TypeOK, GenesisTables, Tables, Phase, Status, Event, InTransaction
<1>2. RowsFit(stored, height)
    BY BlockAssumption, CoinAssumption DEF Init, RowsFit
<1>3. Ledger(db.inChain, db.utxo, db.tip, stored, height)
    BY <1>2, GenesisLedger DEF Init, GenesisTables
<1> QED BY <1>1, <1>2, <1>3
    DEF Init, GenesisTables, IInv, Switching, InTransaction

\* Facts about the tables and the walk that the types of the steps rest on.
LEMMA WalkType ==
    ASSUME IInv
    PROVE  /\ pc = "walk" /\ walker \notin view.inChain =>
                 walker \in Block \ {Genesis} /\ Parent[walker] \in stored
           /\ pc = "disconnect" /\ newTip # walker =>
                 newTip \in Block \ {Genesis} /\ Parent[newTip] \in Block
<1>1. stored \subseteq Block
    BY DEF IInv, TypeOK
<1>2. ASSUME pc = "walk", walker \notin view.inChain
      PROVE  walker \in Block \ {Genesis} /\ Parent[walker] \in stored
  <2>1. walker # Genesis
      BY <1>2 DEF IInv, Switching, Ledger
  <2>2. walker \in stored
      BY <1>2 DEF IInv, InTransaction
  <2> QED BY <1>1, <2>1, <2>2 DEF IInv, RowsFit
<1>3. ASSUME pc = "disconnect", newTip # walker
      PROVE  newTip \in Block \ {Genesis} /\ Parent[newTip] \in Block
  <2>1. Ledger(view.inChain, view.utxo, newTip, stored, height)
      BY <1>3 DEF IInv, Switching
  <2>2. walker \in view.inChain
      BY <1>3 DEF IInv
  <2>3. newTip \in stored /\ height[walker] <= height[newTip]
      BY <2>1, <2>2 DEF Ledger
  <2>4. height[Genesis] = 0
      BY GenesisHeight DEF IInv
  <2>5. newTip # Genesis
    <3> SUFFICES ASSUME newTip = Genesis PROVE FALSE
        OBVIOUS
    <3>1. height[walker] = height[newTip]
        BY <1>1, <2>1, <2>2, <2>3, <2>4 DEF Ledger, IInv, TypeOK
    <3> QED BY <1>3, <2>1, <2>2, <3>1 DEF Ledger
  <2> QED BY <1>1, <2>3, <2>5, BlockAssumption
<1> QED BY <1>2, <1>3

LEMMA FormsAreForms == \A b \in Block : FormsOf(b) \subseteq Form
  BY DEF FormsOf, Form

LEMMA TypeStep == IInv /\ [Next]_vars => TypeOK'
<1> SUFFICES ASSUME IInv, [Next]_vars PROVE TypeOK'
    OBVIOUS
<1> USE DEF rows, memory, locals
<1>0. TypeOK
    BY DEF IInv
<1>1. ASSUME NEW b \in Block, AddBlock(b) PROVE TypeOK'
  <2>1. CASE AddRemembered(b)
      BY <1>0, <2>1 DEF AddRemembered, Return, TypeOK, Status
  <2>2. CASE AddDuplicate(b)
      BY <1>0, <2>2 DEF AddDuplicate, Return, TypeOK, Status
  <2>3. CASE AddOrphan(b)
      BY <1>0, <2>3 DEF AddOrphan, Return, TypeOK, Status
  <2>4. ASSUME NEW form \in Form, AddRejected(b, form) PROVE TypeOK'
    <3>1. invalid' \in Seq(Block) /\ spoilt' \in SUBSET Block
        BY <1>0, <2>4 DEF AddRejected, TypeOK
    <3> QED BY <1>0, <2>4, <3>1 DEF AddRejected, Return, TypeOK, Status
  <2>5. ASSUME NEW form \in Form, AddPremature(b, form) PROVE TypeOK'
      BY <1>0, <2>5 DEF AddPremature, Return, TypeOK, Status
  <2>6. ASSUME NEW form \in Form, AddStored(b, form) PROVE TypeOK'
    <3>1. Parent[b] \in Block
        BY <2>6, BlockAssumption DEF AddStored, Judgeable
    <3>a. /\ height[Parent[b]] + 1 \in Nat
          /\ work[Parent[b]] + BlockWork[b] \in Nat
      <4>1. height[Parent[b]] \in Nat /\ work[Parent[b]] \in Nat
          BY <1>0, <3>1 DEF TypeOK
      <4>2. BlockWork[b] \in Nat
          BY BlockAssumption
      <4> QED BY <4>1, <4>2
    <3>2. height' \in [Block -> Nat]
        BY <1>0, <2>6, <3>a DEF AddStored, TypeOK
    <3>3. work' \in [Block -> Nat]
        BY <1>0, <2>6, <3>a DEF AddStored, TypeOK
    <3>4. /\ stored' \in SUBSET Block /\ body' \in SUBSET stored'
          /\ foreign' \in SUBSET stored' /\ spoilt' \in SUBSET Block
        BY <1>0, <2>6 DEF AddStored, TypeOK
    <3> QED BY <1>0, <2>6, <3>2, <3>3, <3>4
        DEF AddStored, Return, TypeOK, Status, Phase
  <2> QED BY <1>1, <2>1, <2>2, <2>3, <2>4, <2>5, <2>6, FormsAreForms DEF AddBlock
<1>2. ASSUME NEW b \in Block, Fail(b) PROVE TypeOK'
  <2>1. invalid' \in Seq(Block)
      BY <1>0, <1>2, BoundAssumption DEF Fail, TypeOK
  <2>2. pending' \in SUBSET Block /\ branch' \in SUBSET Block
      BY <1>2 DEF Fail
  <2>3. events' \in Seq(Event)
      BY <1>2 DEF Fail
  <2>4. view' \in Tables
      BY <1>0, <1>2 DEF Fail, TypeOK
  <2> QED BY <1>0, <1>2, <2>1, <2>2, <2>3, <2>4 DEF Fail, TypeOK, Phase
<1>3. ASSUME NEW b \in Block, Choose(b) PROVE TypeOK'
    BY <1>0, <1>3 DEF Choose, TypeOK, Phase, InTransaction
<1>4. CASE Finish
  <2>1. result' \in [status : Status, block : Block \cup {NoBlock}]
      BY <1>0, <1>4 DEF Finish, Return, TypeOK, Status
  <2>2. events' \in Seq(Event) /\ pending' \in SUBSET Block /\ branch' \in SUBSET Block
      BY <1>4 DEF Finish, NoLocals
  <2> QED BY <1>0, <1>4, <2>1, <2>2 DEF Finish, NoLocals, TypeOK, Phase
<1>5. CASE WalkInvalid
    BY <1>0, <1>2, <1>5, WalkType DEF WalkInvalid
<1>6. CASE WalkBack
    BY <1>0, <1>6, WalkType DEF WalkBack, TypeOK
<1>7. CASE WalkDone
    BY <1>0, <1>7 DEF WalkDone, TypeOK, Phase, InTransaction
<1>8. CASE DisconnectBlock
  <2>1. newTip \in Block \ {Genesis} /\ Parent[newTip] \in Block
      BY <1>8, WalkType DEF DisconnectBlock
  <2>2. view' \in Tables
    <3>1. Disconnected(view, newTip) \in Tables
        BY <1>0, <2>1, CoinAssumption DEF Disconnected, Tables, TypeOK
    <3> QED BY <1>8, <3>1 DEF DisconnectBlock
  <2>3. events' \in Seq(Event)
      BY <1>0, <1>8, <2>1 DEF DisconnectBlock, TypeOK, Event
  <2> QED BY <1>0, <1>8, <2>1, <2>2, <2>3 DEF DisconnectBlock, TypeOK
<1>9. CASE DisconnectPruned
    BY <1>0, <1>2, <1>9, WalkType DEF DisconnectPruned
<1>10. CASE DisconnectRaises
    BY <1>0, <1>10 DEF DisconnectRaises, NoLocals, Return, TypeOK, Phase, Status
<1>11. CASE DisconnectDone
    BY <1>0, <1>11 DEF DisconnectDone, TypeOK, Phase, InTransaction
<1>12. ASSUME NEW b \in Block, ConnectBlock(b) PROVE TypeOK'
  <2>1. view' \in Tables
    <3>1. Connected(view, b) \in Tables
        BY <1>0, CoinAssumption DEF Connected, Tables, TypeOK
    <3> QED BY <1>12, <3>1 DEF ConnectBlock
  <2>2. events' \in Seq(Event)
      BY <1>0, <1>12 DEF ConnectBlock, TypeOK, Event
  <2> QED BY <1>0, <1>12, <2>1, <2>2 DEF ConnectBlock, TypeOK
<1>13. ASSUME NEW b \in Block, ConnectFails(b) PROVE TypeOK'
    BY <1>2, <1>13 DEF ConnectFails
<1>14. CASE Commit
  <2>1. newTip \in Block
      BY <1>0, <1>14 DEF Commit, IInv, Switching, Ledger, TypeOK
  <2>2. [view EXCEPT !.tip = newTip] \in Tables
      BY <1>0, <2>1 DEF TypeOK, Tables
  <2> QED BY <1>0, <1>14, <2>2 DEF Commit, TypeOK, Phase
<1>15. CASE Publish
    BY <1>0, <1>15 DEF Publish, TypeOK, Phase, IInv, Tables
<1>16. CASE Notify
  <2>1. Head(events) \in Event /\ Tail(events) \in Seq(Event)
      BY <1>0, <1>16 DEF Notify, TypeOK
  <2>2. told' \in SUBSET Block
      BY <1>0, <1>16, <2>1 DEF Notify, TypeOK, Event
  <2> QED BY <1>0, <1>16, <2>1, <2>2 DEF Notify, TypeOK
<1>17. CASE NotifyDone
    BY <1>0, <1>17 DEF NotifyDone, TypeOK, Phase
<1>18. ASSUME NEW b \in Block, Mark(b) PROVE TypeOK'
  <2>1. invalid' \in Seq(Block)
      BY <1>0, <1>18 DEF Mark, TypeOK
  <2>2. pending' \in SUBSET Block
      BY <1>0, <1>18 DEF Mark, ChildrenOf, TypeOK
  <2> QED BY <1>0, <1>18, <2>1, <2>2 DEF Mark, TypeOK
<1>19. ASSUME NEW b \in Block, MarkKnown(b) PROVE TypeOK'
    BY <1>0, <1>19 DEF MarkKnown, TypeOK
<1>20. CASE MarkDone
    BY <1>0, <1>20 DEF MarkDone, TypeOK, Phase
<1>21. CASE Prune
  <2>1. db' \in Tables /\ view' = db'
      BY <1>0, <1>21 DEF Prune, TypeOK, Tables
  <2> QED BY <1>0, <1>21, <2>1 DEF Prune, TypeOK
<1>22. CASE Restart
  <2>1. events' \in Seq(Event) /\ pending' \in SUBSET Block /\ branch' \in SUBSET Block
      BY <1>22 DEF Restart, NoLocals
  <2>2. invalid' \in Seq(Block)
      BY <1>22 DEF Restart
  <2>3. tip' \in Block /\ told' \in SUBSET Block /\ view' \in Tables
      BY <1>0, <1>22 DEF Restart, TypeOK, Tables
  <2> QED BY <1>0, <1>22, <2>1, <2>2, <2>3
      DEF Restart, NoLocals, TypeOK, Phase, Status
<1>23. CASE SetClock
    BY <1>0, <1>23 DEF SetClock, TypeOK
<1>24. CASE UNCHANGED vars
    BY <1>0, <1>24 DEF vars, TypeOK
<1> QED BY <1>1, <1>3, <1>4, <1>5, <1>6, <1>7, <1>8, <1>9, <1>10, <1>11, <1>12,
           <1>13, <1>14, <1>15, <1>16, <1>17, <1>18, <1>19, <1>20, <1>21, <1>22,
           <1>23, <1>24 DEF Next, Activate

\* put_block adds a row that fits, and no ledger notices.
LEMMA StoreStep ==
    ASSUME IInv, NEW b \in Block, NEW form \in FormsOf(b), AddStored(b, form)
    PROVE  /\ RowsFit(stored', height')
           /\ Ledger(db'.inChain, db'.utxo, db'.tip, stored', height')
<1>1. TypeOK /\ RowsFit(stored, height) /\ b \notin stored
    BY DEF IInv, AddStored, Judgeable
<1>2. b # Genesis /\ Parent[b] \in stored /\ Parent[b] # b
    BY <1>1 DEF AddStored, Judgeable
<1>3. height' \in [Block -> Nat]
    BY TypeStep DEF Next, AddBlock, TypeOK
<1>4. height'[b] = height[Parent[b]] + 1
    BY <1>1 DEF AddStored, TypeOK
<1>5. \A c \in stored : height'[c] = height[c]
    BY <1>1 DEF AddStored, TypeOK
<1>6. RowsFit(stored', height')
  <2>1. stored' \subseteq Block /\ Genesis \in stored'
      BY <1>1 DEF AddStored, RowsFit
  <2>2. \A c \in stored' \ {Genesis} :
            Parent[c] \in stored' /\ height'[c] = height'[Parent[c]] + 1
      BY <1>1, <1>2, <1>4, <1>5 DEF AddStored, RowsFit
  <2>3. CoinbaseHeight[b] = height'[b]
      BY <1>4 DEF AddStored, FailsAfterClock
  <2>4. \A c \in stored' : CoinbaseHeight[c] = height'[c]
      BY <1>1, <1>5, <2>3 DEF AddStored, RowsFit
  <2> QED BY <1>3, <2>1, <2>2, <2>4 DEF RowsFit
<1>7. Ledger(db.inChain, db.utxo, db.tip, stored', height')
  <2>1. Ledger(db.inChain, db.utxo, db.tip, stored, height)
      BY DEF IInv
  <2>2. stored \subseteq stored'
      BY DEF AddStored
  <2> QED BY <1>5, <2>1, <2>2, LedgerKept
<1> QED BY <1>6, <1>7 DEF AddStored

LEMMA IInvStep == IInv /\ [Next]_vars => IInv'
<1> SUFFICES ASSUME IInv, [Next]_vars PROVE IInv'
    OBVIOUS
<1> USE DEF rows, memory, locals
<1>0. TypeOK' /\ TypeOK
    BY TypeStep DEF IInv
<1>1. ASSUME NEW b \in Block, AddBlock(b) PROVE IInv'
  <2>1. ASSUME NEW form \in FormsOf(b), AddStored(b, form) PROVE IInv'
      BY <1>0, <2>1, StoreStep
      DEF AddStored, Judgeable, IInv, Switching, InTransaction
  <2>2. CASE AddRemembered(b)
      BY <1>0, <2>2 DEF AddRemembered, IInv, Switching, InTransaction
  <2>3. CASE AddDuplicate(b)
      BY <1>0, <2>3 DEF AddDuplicate, IInv, Switching, InTransaction
  <2>4. CASE AddOrphan(b)
      BY <1>0, <2>4 DEF AddOrphan, IInv, Switching, InTransaction
  <2>5. ASSUME NEW form \in Form, AddRejected(b, form) PROVE IInv'
      BY <1>0, <2>5 DEF AddRejected, Judgeable, IInv, Switching, InTransaction
  <2>6. ASSUME NEW form \in Form, AddPremature(b, form) PROVE IInv'
      BY <1>0, <2>6 DEF AddPremature, Judgeable, IInv, Switching, InTransaction
  <2> QED BY <1>1, <2>1, <2>2, <2>3, <2>4, <2>5, <2>6, FormsAreForms DEF AddBlock
<1>2. ASSUME NEW b \in Block, Fail(b), pc # "publish" PROVE IInv'
    BY <1>0, <1>2 DEF Fail, IInv, Switching, InTransaction
<1>3. ASSUME NEW b \in Block, Choose(b) PROVE IInv'
  <2>1. b \in stored /\ work[b] > work[tip]
      BY <1>3 DEF Choose, BestCandidate
  <2>2. height[b] \in Nat
      BY <1>0 DEF TypeOK
  <2> QED BY <1>0, <1>3, <2>1, <2>2 DEF Choose, IInv, Switching, InTransaction
<1>4. CASE Finish
    BY <1>0, <1>4 DEF Finish, NoLocals, IInv, Switching, InTransaction
<1>5. CASE WalkInvalid
    BY <1>2, <1>5, WalkType DEF WalkInvalid
<1>6. CASE WalkBack
  <2>1. walker \in Block \ {Genesis} /\ Parent[walker] \in stored
      BY <1>6, WalkType DEF WalkBack
  <2>2. walker \in stored /\ cand \in stored
      BY <1>6 DEF WalkBack, IInv, InTransaction
  <2>3. height[walker] = height[Parent[walker]] + 1
      BY <2>1, <2>2 DEF IInv, RowsFit
  <2>4. height[walker] <= height[cand]
      BY <1>6 DEF WalkBack, IInv
  <2>5. height[Parent[walker]] \in Nat /\ height[cand] \in Nat
      BY <1>0, <2>1, <2>2 DEF TypeOK
  <2>6. height[Parent[walker]] <= height[cand]
      BY <2>3, <2>4, <2>5
  <2> QED BY <1>0, <1>6, <2>1, <2>2, <2>4, <2>6
      DEF WalkBack, IInv, Switching, InTransaction
<1>7. CASE WalkDone
  <2>1. Ledger(view.inChain, view.utxo, tip, stored, height)
      BY <1>7 DEF WalkDone, IInv, Switching
  <2> QED BY <1>0, <1>7, <2>1 DEF WalkDone, IInv, Switching, InTransaction
<1>8. CASE DisconnectBlock
  <2>1. newTip \in Block \ {Genesis} /\ newTip # walker
      BY <1>8, WalkType DEF DisconnectBlock
  <2>2. Ledger(view.inChain, view.utxo, newTip, stored, height)
      BY <1>8 DEF DisconnectBlock, IInv, Switching
  <2>3. /\ view'.inChain = view.inChain \ {newTip}
        /\ view'.utxo = (view.utxo \ Creates[newTip]) \cup Spends[newTip]
      BY <1>0, <1>8 DEF DisconnectBlock, Disconnected, TypeOK, Tables
  <2>4. Ledger(view'.inChain, view'.utxo, newTip', stored', height')
    <3>1. RowsFit(stored, height)
        BY DEF IInv
    <3>2. Ledger(view.inChain \ {newTip}, (view.utxo \ Creates[newTip]) \cup Spends[newTip],
                 Parent[newTip], stored, height)
        BY <2>1, <2>2, <3>1, DisconnectLedger
    <3> QED BY <1>8, <2>3, <3>2 DEF DisconnectBlock
  <2> QED BY <1>0, <1>8, <2>1, <2>3, <2>4
      DEF DisconnectBlock, IInv, Switching, InTransaction
<1>9. CASE DisconnectPruned
    BY <1>2, <1>9, WalkType DEF DisconnectPruned
<1>10. CASE DisconnectRaises
    BY <1>0, <1>10 DEF DisconnectRaises, NoLocals, IInv, Switching, InTransaction
<1>11. CASE DisconnectDone
    BY <1>0, <1>11 DEF DisconnectDone, IInv, Switching, InTransaction
<1>12. ASSUME NEW b \in Block, ConnectBlock(b) PROVE IInv'
  <2>1. b \in stored /\ b # Genesis /\ Parent[b] = newTip /\ Spends[b] \subseteq view.utxo
      BY <1>12 DEF ConnectBlock, NextOnBranch, Connects, IInv, InTransaction
  <2>2. Ledger(view.inChain, view.utxo, newTip, stored, height)
      BY <1>12 DEF ConnectBlock, IInv, Switching
  <2>3. /\ view'.inChain = view.inChain \cup {b}
        /\ view'.utxo = (view.utxo \ Spends[b]) \cup (Creates[b] \ Transient[b])
      BY <1>0, <1>12 DEF ConnectBlock, Connected, TypeOK, Tables
  <2>4. Ledger(view'.inChain, view'.utxo, newTip', stored', height')
    <3>1. RowsFit(stored, height)
        BY DEF IInv
    <3>2. Ledger(view.inChain \cup {b},
                 (view.utxo \ Spends[b]) \cup (Creates[b] \ Transient[b]),
                 b, stored, height)
        BY <2>1, <2>2, <3>1, ConnectLedger
    <3> QED BY <1>12, <2>3, <3>2 DEF ConnectBlock
  <2>5. cand \in branch' \/ newTip' = cand
    <3>1. height[b] = height[newTip] + 1 /\ height[b] <= height[cand]
        BY <1>12, <2>1 DEF ConnectBlock, NextOnBranch, IInv, RowsFit, InTransaction
    <3>2. newTip \in Block
        BY <2>2 DEF Ledger, IInv, RowsFit
    <3>3. height[newTip] \in Nat
        BY <1>0, <3>2 DEF TypeOK
    <3>4. newTip # cand
        BY <3>1, <3>3
    <3> QED BY <1>12, <3>4 DEF ConnectBlock, IInv
  <2> QED BY <1>0, <1>12, <2>4, <2>5
      DEF ConnectBlock, IInv, Switching, InTransaction
<1>13. ASSUME NEW b \in Block, ConnectFails(b) PROVE IInv'
    BY <1>2, <1>13 DEF ConnectFails
<1>14. CASE Commit
  <2>1. Ledger(view.inChain, view.utxo, newTip, stored, height)
      BY <1>14 DEF Commit, IInv, Switching
  <2>2. /\ db'.inChain = view.inChain /\ db'.utxo = view.utxo
        /\ db'.tip = newTip /\ view' = db'
      BY <1>0, <1>14 DEF Commit, TypeOK, Tables
  <2> QED BY <1>0, <1>14, <2>1, <2>2 DEF Commit, IInv, Switching, InTransaction
<1>15. CASE Publish
    BY <1>0, <1>15 DEF Publish, IInv, Switching, InTransaction
<1>16. CASE Notify
    BY <1>0, <1>16 DEF Notify, IInv, Switching, InTransaction
<1>17. CASE NotifyDone
    BY <1>0, <1>17 DEF NotifyDone, IInv, Switching, InTransaction
<1>18. ASSUME NEW b \in Block, Mark(b) PROVE IInv'
    BY <1>0, <1>18 DEF Mark, IInv, Switching, InTransaction
<1>19. ASSUME NEW b \in Block, MarkKnown(b) PROVE IInv'
    BY <1>0, <1>19 DEF MarkKnown, IInv, Switching, InTransaction
<1>20. CASE MarkDone
    BY <1>0, <1>20 DEF MarkDone, IInv, Switching, InTransaction
<1>21. CASE Prune
  <2>1. /\ db'.inChain = db.inChain /\ db'.utxo = db.utxo
        /\ db'.tip = db.tip /\ view' = db'
      BY <1>0, <1>21 DEF Prune, TypeOK, Tables
  <2> QED BY <1>0, <1>21, <2>1 DEF Prune, IInv, Switching, InTransaction
<1>22. CASE Restart
    BY <1>0, <1>22 DEF Restart, NoLocals, IInv, Switching, InTransaction
<1>23. CASE SetClock
    BY <1>0, <1>23 DEF SetClock, IInv, Switching, InTransaction
<1>24. CASE UNCHANGED vars
    BY <1>0, <1>24 DEF vars, IInv, Switching, InTransaction
<1> QED BY <1>1, <1>3, <1>4, <1>5, <1>6, <1>7, <1>8, <1>9, <1>10, <1>11, <1>12,
           <1>13, <1>14, <1>15, <1>16, <1>17, <1>18, <1>19, <1>20, <1>21, <1>22,
           <1>23, <1>24 DEF Next, Activate

----------------------------------------------------------------------------

\* IInv holds in every reachable state of the chain.
THEOREM Invariance == Spec => []IInv
BY InitIInv, IInvStep, PTL DEF Spec

\* Every variable of Chain keeps its type, whatever blocks are offered and
\* wherever the process crashes.
THEOREM TypeCorrect == Spec => []TypeOK
<1>1. IInv => TypeOK
    BY DEF IInv
<1> QED BY <1>1, Invariance, PTL

\* The committed in_chain flags are one path from genesis to the committed
\* tip at every instant, including inside a reorganisation (_switch_to).
THEOREM ActiveChainCorrect == Spec => []ActiveChainIsPath
<1>1. IInv => ActiveChainIsPath
    BY DEF IInv, Ledger, ActiveChainIsPath, PathTo
<1> QED BY <1>1, Invariance, PTL

\* The committed UTXO set is exactly what the committed chain leaves unspent,
\* however blocks are connected, disconnected, refused or interrupted
\* (_connect_block, _disconnect_block, Storage.write).
THEOREM UtxoCorrect == Spec => []UtxoMatchesChain
<1>1. IInv => UtxoMatchesChain
    BY DEF IInv, Ledger, UtxoMatchesChain
<1> QED BY <1>1, Invariance, PTL

\* No coin is spent twice on the committed chain, nor spent before some block
\* of it created the coin (_connect_block).
THEOREM NoDoubleSpendCorrect == Spec => []NoDoubleSpend
<1>1. IInv => NoDoubleSpend
  <2> SUFFICES ASSUME IInv PROVE NoDoubleSpend
      OBVIOUS
  <2>1. Ledger(db.inChain, db.utxo, db.tip, stored, height) /\ stored \subseteq Block
      BY DEF IInv, RowsFit
  <2>2. ConsumedBy(db.inChain) \subseteq CreatedBy(db.inChain)
      BY <2>1, ConsumedIsCreated
  <2> QED BY <2>1, <2>2 DEF Ledger, NoDoubleSpend
<1> QED BY <1>1, Invariance, PTL

\* A step that moves the committed tip moves it to strictly more work
\* (_best_candidate, _switch_to): no crash, failure or reorganisation makes
\* the chain regress.
THEOREM TipWorkGrowsCorrect == Spec => TipWorkGrows
<1>1. IInv /\ [Next]_vars =>
        [db'.tip # db.tip => work'[db'.tip] > work[db.tip]]_vars
  <2> SUFFICES ASSUME IInv, Next, db'.tip # db.tip
               PROVE  work'[db'.tip] > work[db.tip]
      OBVIOUS
  <2> USE DEF rows, memory, locals
  <2>1. CASE Commit
    <3>1. newTip = cand /\ work[cand] > work[tip] /\ tip = db.tip
        BY <2>1 DEF Commit, IInv, InTransaction
    <3>2. db'.tip = newTip /\ work' = work
        BY <2>1 DEF Commit, IInv, TypeOK, Tables
    <3> QED BY <3>1, <3>2
  <2>2. CASE Prune
      BY <2>2 DEF Prune, IInv, TypeOK, Tables
  <2>3. CASE ~Commit /\ ~Prune
    <3>1. db' = db
        BY <2>3 DEF Next, Activate, AddBlock, AddRemembered, AddDuplicate,
            AddOrphan, AddRejected, AddPremature, AddStored, Choose, Finish,
            WalkInvalid, WalkBack, WalkDone, DisconnectBlock, DisconnectPruned,
            DisconnectRaises, DisconnectDone, ConnectBlock, ConnectFails, Fail,
            Publish, Notify, NotifyDone, Mark, MarkKnown, MarkDone, Restart,
            SetClock
    <3> QED BY <3>1
  <2> QED BY <2>1, <2>2, <2>3
<1> QED BY <1>1, Invariance, PTL DEF Spec, TipWorkGrows

----------------------------------------------------------------------------
(* From IInv: the store implements AbstractLedger, listeners follow the    *)
(* active chain, only bad blocks are rejected, and the best chain is the   *)
(* active one.                                                             *)

\* No block of the committed chain, or of the chain being built, breaks a
\* connect rule.
Clean ==
    /\ db.inChain \cap Unconnectable = {}
    /\ pc \in Switching => view.inChain \cap Unconnectable = {}

LEMMA CleanStep == IInv /\ Clean /\ [Next]_vars => Clean'
<1> SUFFICES ASSUME IInv, Clean, [Next]_vars PROVE Clean'
    OBVIOUS
<1> USE DEF rows, memory, locals
<1>0. TypeOK
    BY DEF IInv
<1>1. CASE WalkDone
    BY <1>1 DEF WalkDone, Clean, IInv, Switching
<1>2. CASE DisconnectBlock
  <2>1. view'.inChain = view.inChain \ {newTip}
      BY <1>0, <1>2 DEF DisconnectBlock, Disconnected, TypeOK, Tables
  <2> QED BY <1>2, <2>1 DEF DisconnectBlock, Clean, Switching
<1>3. ASSUME NEW b \in Block, ConnectBlock(b) PROVE Clean'
  <2>1. view'.inChain = view.inChain \cup {b}
      BY <1>0, <1>3 DEF ConnectBlock, Connected, TypeOK, Tables
  <2> QED BY <1>3, <2>1 DEF ConnectBlock, Connects, Clean, Switching
<1>4. CASE Commit
  <2>1. db'.inChain = view.inChain
      BY <1>0, <1>4 DEF Commit, TypeOK, Tables
  <2> QED BY <1>4, <2>1 DEF Commit, Clean, Switching
<1>5. CASE Prune
  <2>1. db'.inChain = db.inChain
      BY <1>0, <1>5 DEF Prune, TypeOK, Tables
  <2> QED BY <1>5, <2>1 DEF Prune, Clean, Switching
<1>6. CASE DisconnectDone
    BY <1>6 DEF DisconnectDone, Clean, Switching
<1>7. CASE \/ \E b \in Block : AddBlock(b) \/ Choose(b) \/ ConnectFails(b) \/ Mark(b) \/ MarkKnown(b)
           \/ Finish \/ WalkInvalid \/ WalkBack \/ DisconnectPruned \/ DisconnectRaises
           \/ Publish \/ Notify \/ NotifyDone \/ MarkDone \/ Restart \/ SetClock
           \/ UNCHANGED vars
  <2>1. /\ db' = db
        /\ pc' \in Switching => pc = pc' /\ view' = view
      BY <1>7 DEF vars, Switching, AddBlock, AddRemembered, AddDuplicate,
            AddOrphan, AddRejected, AddPremature, AddStored, Choose, Finish,
            WalkInvalid, WalkBack, DisconnectPruned, DisconnectRaises, ConnectFails, Fail,
            Publish, Notify, NotifyDone, Mark, MarkKnown, MarkDone, Restart,
            SetClock
  <2> QED BY <2>1 DEF Clean
<1> QED BY <1>1, <1>2, <1>3, <1>4, <1>5, <1>6, <1>7 DEF Next, Activate

LEMMA CleanInvariance == Spec => []Clean
<1>1. Init => Clean
    BY BlockAssumption DEF Init, GenesisTables, Clean, Switching
<1> QED BY <1>1, CleanStep, Invariance, PTL DEF Spec

\* A ledger in the store is a valid chain in the words of AbstractLedger.
LEMMA LedgerIsChain ==
    ASSUME NEW S, NEW U, NEW t, NEW R, NEW h, RowsFit(R, h),
           Ledger(S, U, t, R, h), S \cap Unconnectable = {}
    PROVE  Abstract!IsChain(S, t) /\ Abstract!IsValid(S) /\ U = Abstract!UnspentBy(S)
<1>1. \A b \in S : b \in Block /\ CoinbaseHeight[b] = h[b] /\ h[b] \in Nat
    BY DEF Ledger, RowsFit
<1>2. Abstract!IsChain(S, t)
    BY <1>1 DEF Ledger, RowsFit, Abstract!IsChain
<1>3. ASSUME NEW b \in S
      PROVE  Spends[b] \subseteq
               UNION {Creates[c] : c \in {d \in S : CoinbaseHeight[d] < CoinbaseHeight[b]}}
    BY <1>1 DEF Ledger
<1>4. Abstract!IsValid(S)
    BY <1>3 DEF Ledger, Consumed, Abstract!IsValid
<1>5. U = Abstract!UnspentBy(S)
    BY DEF Ledger, Unspent, CreatedBy, ConsumedBy, Consumed, Abstract!UnspentBy
<1> QED BY <1>2, <1>4, <1>5

LEMMA LedgerStep ==
    IInv /\ Clean /\ [Next]_vars =>
        [Abstract!Learn \/ Abstract!Adopt]_(Abstract!lvars)
<1> SUFFICES ASSUME IInv, Clean, [Next]_vars
             PROVE  Abstract!Learn \/ Abstract!Adopt \/ UNCHANGED Abstract!lvars
    OBVIOUS
<1> USE DEF rows, memory, locals
<1>0. TypeOK /\ RowsFit(stored, height)
    BY DEF IInv
<1>1. ASSUME NEW b \in Block, NEW form \in Form, AddStored(b, form)
      PROVE  Abstract!Learn
  <2>1. b \in Block \ (stored \cup (Early \cup Late)) /\ Parent[b] \in stored
      BY <1>1 DEF AddStored, Judgeable, FailsBeforeClock, FailsAfterClock
  <2>2. CoinbaseHeight[b] = CoinbaseHeight[Parent[b]] + 1
      BY <1>0, <1>1, <2>1 DEF AddStored, FailsAfterClock, RowsFit
  <2>3. /\ stored' = stored \cup {b}
        /\ work' = [work EXCEPT ![b] = work[Parent[b]] + BlockWork[b]]
        /\ db' = db
      BY <1>1 DEF AddStored
  <2> QED BY <2>1, <2>2, <2>3 DEF Abstract!Learn
<1>2. CASE Commit
  <2>1. /\ newTip = cand /\ work[cand] > work[db.tip]
        /\ Ledger(view.inChain, view.utxo, newTip, stored, height)
        /\ view.inChain \cap Unconnectable = {}
      BY <1>2 DEF Commit, IInv, Clean, InTransaction, Switching
  <2>2. /\ db'.inChain = view.inChain /\ db'.utxo = view.utxo /\ db'.tip = newTip
        /\ stored' = stored /\ work' = work
      BY <1>0, <1>2 DEF Commit, TypeOK, Tables
  <2>3. /\ Abstract!IsChain(view.inChain, newTip) /\ Abstract!IsValid(view.inChain)
        /\ view.utxo = Abstract!UnspentBy(view.inChain)
      BY <1>0, <2>1, LedgerIsChain
  <2>4. view.inChain \in SUBSET stored /\ newTip \in view.inChain
      BY <2>1 DEF Ledger
  <2> QED BY <2>1, <2>2, <2>3, <2>4 DEF Abstract!Adopt
<1>3. CASE Prune
  <2>1. db'.inChain = db.inChain /\ db'.utxo = db.utxo /\ db'.tip = db.tip
      BY <1>0, <1>3 DEF Prune, TypeOK, Tables
  <2> QED BY <1>3, <2>1 DEF Prune, Abstract!lvars
<1>4. CASE ~Commit /\ ~Prune /\ ~(\E b \in Block, form \in Form : AddStored(b, form))
  <2>1. stored' = stored /\ work' = work /\ db' = db
      BY <1>4, FormsAreForms
         DEF vars, Next, Activate, AddBlock, AddRemembered, AddDuplicate,
            AddOrphan, AddRejected, AddPremature, Choose, Finish,
            WalkInvalid, WalkBack, WalkDone, DisconnectBlock, DisconnectPruned,
            DisconnectRaises, DisconnectDone, ConnectBlock, ConnectFails, Fail,
            Publish, Notify, NotifyDone, Mark, MarkKnown, MarkDone, Restart,
            SetClock
  <2> QED BY <2>1 DEF Abstract!lvars
<1> QED BY <1>1, <1>2, <1>3, <1>4

\* Every behaviour of the block chain is a behaviour of AbstractLedger, for
\* every block tree and every bound: add_block, _activate_best_chain and
\* _switch_to, whatever fails or crashes, change the committed chain and its
\* coins only together and only to a valid chain with more work.
THEOREM LedgerImplemented == Spec => ImplementsLedger
<1>1. Init => Abstract!LInit
    BY DEF Init, GenesisTables, Abstract!LInit
<1> QED BY <1>1, LedgerStep, Invariance, CleanInvariance, PTL
    DEF Spec, ImplementsLedger, Abstract!LSpec

----------------------------------------------------------------------------
(***************************************************************************)
(* ListenersFollow speaks of one notification at a time; what makes it     *)
(* inductive is that all the notifications still to be delivered replay:   *)
(* they lead from what the listener was told, by way of chains only, to    *)
(* the tables as they are.                                                 *)
(***************************************************************************)

\* S is a path of rows R with heights h.
IsPath(S, R, h) ==
    \E t \in S :
        /\ S \subseteq R /\ Genesis \in S
        /\ \A b \in S \ {Genesis} : Parent[b] \in S
        /\ \A b, c \in S : h[b] = h[c] => b = c
        /\ \A b \in S : h[b] <= h[t]

\* What a listener that knows S knows after the event e.
After(S, e) == IF e.kind = "connect" THEN S \cup {e.block} ELSE S \ {e.block}

\* H lists the chains a listener goes through from S to T, by n events.
Replay(H, es, n, S, T, R, h) ==
    /\ H \in [0..n -> SUBSET Block]
    /\ H[0] = S /\ H[n] = T
    /\ \A i \in 1..n : H[i] = After(H[i - 1], es[i])
    /\ \A i \in 0..n : IsPath(H[i], R, h)

Replays(es, S, T, R, h) == \E H : Replay(H, es, Len(es), S, T, R, h)

Follow ==
    /\ Replays(events, told, view.inChain, stored, height)
    /\ pc \notin {"publish", "notify"} => told = db.inChain
    /\ pc \notin Switching \cup {"publish", "notify"} => events = <<>>

LEMMA ReplayNone ==
    ASSUME NEW S \in SUBSET Block, NEW R, NEW h, IsPath(S, R, h)
    PROVE  Replay([i \in 0..0 |-> S], <<>>, 0, S, S, R, h)
BY DEF Replay

LEMMA ReplayNothing ==
    ASSUME NEW S \in SUBSET Block, NEW R, NEW h, IsPath(S, R, h)
    PROVE  Replays(<<>>, S, S, R, h)
<1>1. Len(<<>>) = 0
    OBVIOUS
<1>2. \E H : Replay(H, <<>>, 0, S, S, R, h)
    BY ReplayNone
<1> QED BY <1>1, <1>2 DEF Replays

\* One event more, whatever sequence it ends.
LEMMA ReplayMore ==
    ASSUME NEW n \in Nat, NEW es, NEW fs, NEW e \in Event, NEW S, NEW T, NEW R, NEW h,
           NEW H, Replay(H, es, n, S, T, R, h), IsPath(After(T, e), R, h),
           fs[n + 1] = e, \A i \in 1..n : fs[i] = es[i]
    PROVE  \E G : Replay(G, fs, n + 1, S, After(T, e), R, h)
<1> DEFINE G == [i \in 0..(n + 1) |-> IF i = n + 1 THEN After(T, e) ELSE H[i]]
<1>1. Replay(H, es, n, S, T, R, h)
    OBVIOUS
<1>2. fs[n + 1] = e /\ \A i \in 1..n : fs[i] = es[i]
    OBVIOUS
<1>3. T \in SUBSET Block
    BY <1>1, <1>2 DEF Replay
<1>4. After(T, e) \in SUBSET Block
    BY <1>3 DEF After, Event
<1>5. G \in [0..(n + 1) -> SUBSET Block]
    BY <1>1, <1>2, <1>4 DEF Replay
<1>6. G[0] = S /\ G[n + 1] = After(T, e) /\ G[n] = T
    BY <1>1, <1>2 DEF Replay
<1>7. \A i \in 1..(n + 1) : G[i] = After(G[i - 1], fs[i])
  <2> SUFFICES ASSUME NEW i \in 1..(n + 1) PROVE G[i] = After(G[i - 1], fs[i])
      OBVIOUS
  <2>1. CASE i = n + 1
    <3>1. i - 1 = n
        BY <1>2, <2>1
    <3> QED BY <1>2, <1>6, <2>1, <3>1
  <2>2. CASE i # n + 1
    <3>1. i \in 1..n /\ i \in 0..(n + 1) /\ i - 1 \in 0..(n + 1) /\ i - 1 # n + 1
        BY <1>2, <2>2
    <3>2. G[i] = H[i] /\ G[i - 1] = H[i - 1]
        BY <2>2, <3>1
    <3> QED BY <1>1, <1>2, <3>1, <3>2 DEF Replay
  <2> QED BY <2>1, <2>2
<1>8. \A i \in 0..(n + 1) : IsPath(G[i], R, h)
  <2> SUFFICES ASSUME NEW i \in 0..(n + 1) PROVE IsPath(G[i], R, h)
      OBVIOUS
  <2>1. CASE i = n + 1
      BY <1>6, <2>1
  <2>2. CASE i # n + 1
    <3>1. i \in 0..n /\ G[i] = H[i]
        BY <1>2, <2>2
    <3> QED BY <1>1, <3>1 DEF Replay
  <2> QED BY <2>1, <2>2
<1> HIDE DEF G
<1>9. Replay(G, fs, n + 1, S, After(T, e), R, h)
    BY <1>5, <1>6, <1>7, <1>8 DEF Replay
<1> QED BY <1>9

\* _switch_to connects or disconnects one more block.
LEMMA ReplayAppend ==
    ASSUME NEW es \in Seq(Event), NEW e \in Event, NEW S, NEW T, NEW R, NEW h,
           Replays(es, S, T, R, h),
           IsPath(After(T, e), R, h)
    PROVE  Replays(Append(es, e), S, After(T, e), R, h)
<1> DEFINE n == Len(es)
           fs == Append(es, e)
<1>1. PICK H : Replay(H, es, n, S, T, R, h)
    BY DEF Replays
<1>2. n \in Nat /\ Len(fs) = n + 1 /\ fs[n + 1] = e /\ \A i \in 1..n : fs[i] = es[i]
    OBVIOUS
<1> HIDE DEF n, fs
<1>3. \E G : Replay(G, fs, n + 1, S, After(T, e), R, h)
    BY <1>1, <1>2, ReplayMore
<1> QED BY <1>2, <1>3 DEF Replays, fs

\* One event less, whatever sequence it began.
LEMMA ReplayLess ==
    ASSUME NEW n \in Nat, n >= 1, NEW es, NEW fs, NEW S, NEW T, NEW R, NEW h,
           NEW H, Replay(H, es, n, S, T, R, h),
           \A i \in 1..(n - 1) : fs[i] = es[i + 1]
    PROVE  \E G : Replay(G, fs, n - 1, After(S, es[1]), T, R, h)
<1> DEFINE G == [i \in 0..(n - 1) |-> H[i + 1]]
<1>1. Replay(H, es, n, S, T, R, h)
    OBVIOUS
<1>2. n \in Nat /\ n >= 1 /\ \A i \in 1..(n - 1) : fs[i] = es[i + 1]
    OBVIOUS
<1>3. G \in [0..(n - 1) -> SUBSET Block]
    BY <1>1, <1>2 DEF Replay
<1>4. G[0] = After(S, es[1]) /\ G[n - 1] = T
    BY <1>1, <1>2 DEF Replay
<1>5. \A i \in 1..(n - 1) : G[i] = After(G[i - 1], fs[i])
  <2> SUFFICES ASSUME NEW i \in 1..(n - 1) PROVE G[i] = After(G[i - 1], fs[i])
      OBVIOUS
  <2>1. i + 1 \in 1..n /\ (i - 1) + 1 = i /\ (i + 1) - 1 = i
        /\ i \in 0..(n - 1) /\ i - 1 \in 0..(n - 1)
      BY <1>2
  <2>2. G[i] = H[i + 1] /\ G[i - 1] = H[i]
      BY <2>1
  <2>3. H[i + 1] = After(H[i], es[i + 1])
      BY <1>1, <2>1 DEF Replay
  <2> QED BY <1>2, <2>2, <2>3
<1>6. \A i \in 0..(n - 1) : IsPath(G[i], R, h)
    BY <1>1, <1>2 DEF Replay
<1> HIDE DEF G
<1>7. Replay(G, fs, n - 1, After(S, es[1]), T, R, h)
    BY <1>2, <1>3, <1>4, <1>5, <1>6 DEF Replay
<1> QED BY <1>7

\* _notify delivers the oldest event.
LEMMA ReplayTail ==
    ASSUME NEW es \in Seq(Event), es # <<>>, NEW S, NEW T, NEW R, NEW h,
           Replays(es, S, T, R, h)
    PROVE  Replays(Tail(es), After(S, Head(es)), T, R, h)
<1> DEFINE n == Len(es)
           fs == Tail(es)
<1>1. PICK H : Replay(H, es, n, S, T, R, h)
    BY DEF Replays
<1>2. /\ n \in Nat /\ n >= 1 /\ Len(fs) = n - 1 /\ Head(es) = es[1]
      /\ \A i \in 1..(n - 1) : fs[i] = es[i + 1]
    OBVIOUS
<1> HIDE DEF n, fs
<1>3. \E G : Replay(G, fs, n - 1, After(S, es[1]), T, R, h)
    BY <1>1, <1>2, ReplayLess
<1> QED BY <1>2, <1>3 DEF Replays, fs

LEMMA ReplayEnd ==
    ASSUME NEW S, NEW T, NEW R, NEW h,
           Replays(<<>>, S, T, R, h)
    PROVE  S = T
<1>1. Len(<<>>) = 0
    OBVIOUS
<1>2. PICK H : Replay(H, <<>>, 0, S, T, R, h)
    BY <1>1 DEF Replays
<1>3. H[0] = S /\ H[0] = T
    BY <1>2, Zenon DEF Replay
<1> QED BY <1>3

LEMMA ReplayStart ==
    ASSUME NEW es \in Seq(Event), NEW S, NEW T, NEW R, NEW h,
           Replays(es, S, T, R, h)
    PROVE  IsPath(S, R, h)
<1> DEFINE n == Len(es)
<1>1. 0 \in 0..n
    OBVIOUS
<1>2. PICK H : Replay(H, es, n, S, T, R, h)
    BY DEF Replays
<1> HIDE DEF n
<1>3. H[0] = S /\ IsPath(H[0], R, h)
    BY <1>1, <1>2, Zenon DEF Replay
<1> QED BY <1>3

LEMMA LedgerIsPath ==
    ASSUME NEW S, NEW U, NEW t, NEW R, NEW h, Ledger(S, U, t, R, h)
    PROVE  IsPath(S, R, h)
BY DEF Ledger, IsPath

LEMMA FollowStep == IInv /\ Follow /\ [Next]_vars => Follow'
<1> SUFFICES ASSUME IInv, Follow, [Next]_vars PROVE Follow'
    OBVIOUS
<1> USE DEF rows, memory, locals
<1>0. TypeOK /\ IInv' /\ TypeOK'
    BY IInvStep DEF IInv
\* An action that leaves no event to deliver, nor anything to be told.
<1>1. ASSUME events' = <<>>, told' = db'.inChain, pc' \notin Switching
      PROVE  Follow'
  <2>1. view' = db' /\ Ledger(db'.inChain, db'.utxo, db'.tip, stored', height')
      BY <1>0, <1>1 DEF IInv
  <2>2. IsPath(db'.inChain, stored', height') /\ db'.inChain \in SUBSET Block
      BY <1>0, <2>1, LedgerIsPath DEF TypeOK, Tables
  <2>3. Replays(<<>>, db'.inChain, db'.inChain, stored', height')
      BY <2>2, ReplayNothing
  <2> QED BY <1>1, <2>1, <2>3 DEF Follow
<1>2. ASSUME NEW b \in Block, NEW form \in Form, AddStored(b, form) PROVE Follow'
    BY <1>1, <1>2 DEF AddStored, Judgeable, Follow, Switching
<1>3. ASSUME NEW b \in Block, Fail(b), pc \in InTransaction PROVE Follow'
    BY <1>1, <1>3 DEF Fail, Follow, Switching, InTransaction
<1>4. CASE WalkInvalid \/ DisconnectPruned \/ \E b \in Block : ConnectFails(b)
  <2>1. \E b \in Block : Fail(b) /\ pc \in InTransaction
      BY <1>4, WalkType DEF WalkInvalid, DisconnectPruned, ConnectFails, InTransaction
  <2> QED BY <1>3, <2>1
<1>5. CASE Finish
    BY <1>1, <1>5 DEF Finish, NoLocals, Follow, Switching
<1>6. CASE DisconnectRaises
    BY <1>1, <1>6 DEF DisconnectRaises, NoLocals, Follow, Switching
<1>7. CASE Restart
    BY <1>1, <1>7 DEF Restart, NoLocals, Follow, Switching
<1>8. CASE Prune
  <2>1. db'.inChain = db.inChain
      BY <1>0, <1>8 DEF Prune, TypeOK, Tables
  <2> QED BY <1>1, <1>8, <2>1 DEF Prune, Follow, Switching
<1>9. CASE DisconnectBlock
  <2> DEFINE e == [kind |-> "disconnect", block |-> newTip]
  <2>1. newTip \in Block
      BY <1>9, WalkType DEF DisconnectBlock
  <2>2. view'.inChain = After(view.inChain, e)
      BY <1>0, <1>9 DEF DisconnectBlock, Disconnected, TypeOK, Tables, After
  <2>3. IsPath(After(view.inChain, e), stored, height)
    <3>1. Ledger(view'.inChain, view'.utxo, newTip', stored', height')
        BY <1>0, <1>9 DEF DisconnectBlock, IInv, Switching
    <3>2. IsPath(view'.inChain, stored', height')
        BY <3>1, LedgerIsPath
    <3> QED BY <1>9, <2>2, <3>2 DEF DisconnectBlock
  <2>4. e \in Event /\ events \in Seq(Event)
      BY <1>0, <2>1 DEF Event, TypeOK
  <2>5. Replays(Append(events, e), told, After(view.inChain, e), stored, height)
    <3> HIDE DEF e
    <3> QED BY <2>3, <2>4, ReplayAppend DEF Follow
  <2> QED BY <1>9, <2>2, <2>5 DEF DisconnectBlock, Follow, Switching
<1>10. ASSUME NEW b \in Block, ConnectBlock(b) PROVE Follow'
  <2> DEFINE e == [kind |-> "connect", block |-> b]
  <2>2. view'.inChain = After(view.inChain, e)
      BY <1>0, <1>10 DEF ConnectBlock, Connected, TypeOK, Tables, After
  <2>3. IsPath(After(view.inChain, e), stored, height)
    <3>1. Ledger(view'.inChain, view'.utxo, newTip', stored', height')
        BY <1>0, <1>10 DEF ConnectBlock, IInv, Switching
    <3>2. IsPath(view'.inChain, stored', height')
        BY <3>1, LedgerIsPath
    <3> QED BY <1>10, <2>2, <3>2 DEF ConnectBlock
  <2>4. e \in Event /\ events \in Seq(Event)
      BY <1>0 DEF Event, TypeOK
  <2>5. Replays(Append(events, e), told, After(view.inChain, e), stored, height)
    <3> HIDE DEF e
    <3> QED BY <2>3, <2>4, ReplayAppend DEF Follow
  <2> QED BY <1>10, <2>2, <2>5 DEF ConnectBlock, Follow, Switching
<1>11. CASE Commit
  <2>1. view'.inChain = view.inChain
      BY <1>0, <1>11 DEF Commit, TypeOK, Tables
  <2> QED BY <1>11, <2>1 DEF Commit, Follow, Switching
<1>12. CASE Notify
  <2>1. told' = After(told, Head(events)) /\ events' = Tail(events)
      BY <1>12 DEF Notify, After
  <2>2. events \in Seq(Event) /\ events # <<>>
      BY <1>0, <1>12 DEF Notify, TypeOK
  <2>3. Replays(Tail(events), After(told, Head(events)), view.inChain, stored, height)
      BY <2>2, ReplayTail DEF Follow
  <2> QED BY <1>12, <2>1, <2>3 DEF Notify, Follow
<1>13. CASE NotifyDone
  <2>1. told = view.inChain
      BY <1>13, ReplayEnd DEF NotifyDone, Follow
  <2>2. view = db
      BY <1>13 DEF NotifyDone, IInv, Switching
  <2> QED BY <1>13, <2>1, <2>2 DEF NotifyDone, Follow, Switching
<1>14. CASE \/ \E b \in Block : \/ AddRemembered(b) \/ AddDuplicate(b) \/ AddOrphan(b)
                                \/ (\E form \in Form :
                                       AddRejected(b, form) \/ AddPremature(b, form))
                                \/ Choose(b) \/ Mark(b) \/ MarkKnown(b)
            \/ WalkBack \/ WalkDone \/ DisconnectDone \/ Publish \/ MarkDone
            \/ SetClock \/ UNCHANGED vars
  <2>1. /\ stored' = stored /\ height' = height /\ db' = db /\ view' = view
        /\ told' = told /\ events' = events
        /\ pc' \in {"publish", "notify"} <=> pc \in {"publish", "notify"}
        /\ pc \in Switching => pc' \in Switching
      BY <1>14 DEF vars, Switching, AddRemembered, AddDuplicate, AddOrphan,
            AddRejected, AddPremature, Judgeable, Choose, WalkBack, WalkDone,
            DisconnectDone, Publish, Mark, MarkKnown, MarkDone, SetClock
  <2> QED BY <2>1 DEF Follow
<1> QED BY FormsAreForms, <1>2, <1>4, <1>5, <1>6, <1>7, <1>8, <1>9, <1>10, <1>11,
           <1>12, <1>13, <1>14 DEF Next, Activate, AddBlock

LEMMA InitFollow == Init => Follow
<1> SUFFICES ASSUME Init PROVE Follow
    OBVIOUS
<1>1. Ledger(db.inChain, db.utxo, db.tip, stored, height)
    BY InitIInv DEF IInv
<1>2. /\ view = db /\ db.inChain = {Genesis} /\ told = {Genesis}
      /\ events = <<>> /\ pc = "idle" /\ {Genesis} \in SUBSET Block
    BY BlockAssumption DEF Init, GenesisTables
<1>3. Replays(<<>>, {Genesis}, {Genesis}, stored, height)
    BY <1>1, <1>2, LedgerIsPath, ReplayNothing
<1> QED BY <1>2, <1>3 DEF Follow, Switching

\* A listener that replays the notifications of _notify is on a chain after
\* each of them, and knows the active chain when add_block returns, for every
\* reorganisation, failed switch and crash.
THEOREM ListenersCorrect == Spec => []ListenersFollow
<1>1. IInv /\ Follow => ListenersFollow
  <2> SUFFICES ASSUME IInv, Follow PROVE ListenersFollow
      OBVIOUS
  <2>1. events \in Seq(Event)
      BY DEF IInv, TypeOK
  <2>2. IsPath(told, stored, height)
      BY <2>1, ReplayStart DEF Follow
  <2> QED BY <2>2 DEF Follow, IsPath, PathTo, ListenersFollow
<1>2. Spec => []Follow
    BY InitFollow, FollowStep, Invariance, PTL DEF Spec
<1> QED BY <1>1, <1>2, Invariance, PTL

----------------------------------------------------------------------------
(***************************************************************************)
(* Rejections and the best chain.  A node that prunes may reject a good    *)
(* block whose body it has dropped, so these results are about nodes that  *)
(* do not prune.                                                           *)
(*                                                                         *)
(* ~ValidBlocks speaks of every branch that could end in a block, the      *)
(* tables of one.  That a stored block ends one branch only is an          *)
(* invariant: a row is written after its parent's.                         *)
(***************************************************************************)

\* No body has been dropped.
Unpruned == body = stored

OneBranch(b) ==
    \A S, T \in SUBSET Block :
        Abstract!IsChain(S, b) /\ Abstract!IsChain(T, b) => S = T

Justified ==
    /\ \A b \in stored : OneBranch(b)
    /\ foreign \subseteq spoilt
    /\ Remembered \cap ValidBlocks = {}
    /\ pending \cap ValidBlocks = {}

LEMMA GenesisBranch == OneBranch(Genesis)
<1> SUFFICES ASSUME NEW S \in SUBSET Block, Abstract!IsChain(S, Genesis)
             PROVE  S = {Genesis}
    BY DEF OneBranch
<1>1. \A b \in S : CoinbaseHeight[b] \in Nat
    BY BlockAssumption
<1>2. \A b \in S : CoinbaseHeight[b] = CoinbaseHeight[Genesis]
    BY <1>1, CoinAssumption DEF Abstract!IsChain
<1> QED BY <1>2 DEF Abstract!IsChain

\* Without its last block a chain is a chain that ends in the parent.
LEMMA ShorterChain ==
    ASSUME NEW S \in SUBSET Block, NEW b \in Block, b # Genesis,
           Abstract!IsChain(S, b)
    PROVE  Abstract!IsChain(S \ {b}, Parent[b])
<1>1. \A c \in S : CoinbaseHeight[c] \in Nat
    BY BlockAssumption
<1>2. b \in S /\ Parent[b] \in S /\ CoinbaseHeight[b] = CoinbaseHeight[Parent[b]] + 1
    BY DEF Abstract!IsChain
<1>3. Parent[b] \in S \ {b} /\ Genesis \in S \ {b}
    BY <1>1, <1>2 DEF Abstract!IsChain
<1>4. ASSUME NEW c \in (S \ {b}) \ {Genesis}
      PROVE  Parent[c] \in S \ {b} /\ CoinbaseHeight[c] = CoinbaseHeight[Parent[c]] + 1
  <2>1. /\ Parent[c] \in S /\ CoinbaseHeight[c] = CoinbaseHeight[Parent[c]] + 1
        /\ CoinbaseHeight[c] <= CoinbaseHeight[b]
      BY DEF Abstract!IsChain
  <2>2. Parent[c] # b
      BY <1>1, <1>2, <2>1
  <2> QED BY <2>1, <2>2
<1>5. ASSUME NEW c \in S \ {b} PROVE CoinbaseHeight[c] <= CoinbaseHeight[Parent[b]]
  <2>1. CoinbaseHeight[c] <= CoinbaseHeight[b] /\ CoinbaseHeight[c] # CoinbaseHeight[b]
      BY <1>2 DEF Abstract!IsChain
  <2> QED BY <1>1, <1>2, <2>1
<1>6. \A c, d \in S \ {b} : CoinbaseHeight[c] = CoinbaseHeight[d] => c = d
    BY DEF Abstract!IsChain
<1> QED BY <1>3, <1>4, <1>5, <1>6 DEF Abstract!IsChain

\* _invalidate marks descendants: nothing valid stands on an invalid block.
LEMMA ValidParent ==
    ASSUME NEW b \in ValidBlocks, b # Genesis
    PROVE  /\ b \notin Early \cup Late \cup Unconnectable \cup spoilt
           /\ CoinbaseHeight[b] = CoinbaseHeight[Parent[b]] + 1
           /\ Parent[b] \in ValidBlocks
<1>1. b \in Block /\ Parent[b] \in Block
    BY BlockAssumption DEF ValidBlocks
<1>2. PICK S \in SUBSET (Block \ (Early \cup Late \cup spoilt)) :
              Abstract!IsChain(S, b) /\ Abstract!IsValid(S)
    BY DEF ValidBlocks
<1>3. b \in S /\ CoinbaseHeight[b] = CoinbaseHeight[Parent[b]] + 1
    BY <1>2 DEF Abstract!IsChain
<1>4. S \in SUBSET Block
    OBVIOUS
<1>5. Abstract!IsChain(S \ {b}, Parent[b])
    BY <1>1, <1>2, <1>4, ShorterChain
<1>6. Abstract!IsValid(S \ {b})
  <2>1. ASSUME NEW c \in S \ {b}
        PROVE  Spends[c] \subseteq UNION {Creates[d] :
                  d \in {e \in S \ {b} : CoinbaseHeight[e] < CoinbaseHeight[c]}}
    <3> SUFFICES ASSUME NEW x \in Spends[c]
                 PROVE  \E d \in S \ {b} : x \in Creates[d] /\ CoinbaseHeight[d] < CoinbaseHeight[c]
        OBVIOUS
    <3>1. PICK d \in S : x \in Creates[d] /\ CoinbaseHeight[d] < CoinbaseHeight[c]
        BY <1>2 DEF Abstract!IsValid
    <3>2. CoinbaseHeight[c] <= CoinbaseHeight[b]
        BY <1>2 DEF Abstract!IsChain
    <3>3. CoinbaseHeight[c] \in Nat /\ CoinbaseHeight[b] \in Nat /\ CoinbaseHeight[d] \in Nat
        BY <1>1, BlockAssumption
    <3>4. d # b
        BY <3>1, <3>2, <3>3
    <3> QED BY <3>1, <3>4
  <2> QED BY <1>2, <2>1 DEF Abstract!IsValid
<1>7. b \notin Unconnectable
    BY <1>2, <1>3 DEF Abstract!IsValid
<1>8. S \ {b} \in SUBSET (Block \ (Early \cup Late \cup spoilt))
    OBVIOUS
<1> QED BY <1>1, <1>3, <1>5, <1>6, <1>7, <1>8 DEF ValidBlocks

\* The next block of a branch connects unless it is invalid.
LEMMA ValidConnects ==
    ASSUME NEW S, NEW U, NEW t, NEW R, NEW h, RowsFit(R, h),
           Ledger(S, U, t, R, h), S \cap Unconnectable = {},
           OneBranch(t), NEW b \in ValidBlocks, b # Genesis, Parent[b] = t
    PROVE  b \notin Unconnectable /\ Spends[b] \subseteq U
<1>1. PICK T \in SUBSET (Block \ (Early \cup Late \cup spoilt)) :
              Abstract!IsChain(T, b) /\ Abstract!IsValid(T)
    BY DEF ValidBlocks
<1>2. b \in Block /\ T \in SUBSET Block /\ b \in T
    BY <1>1 DEF ValidBlocks, Abstract!IsChain
<1>3. Abstract!IsChain(T \ {b}, t)
    BY <1>1, <1>2, ShorterChain
<1>4. Abstract!IsChain(S, t) /\ S \in SUBSET Block
    BY LedgerIsChain DEF Ledger, RowsFit
<1>5. T \ {b} = S
    BY <1>2, <1>3, <1>4 DEF OneBranch
<1>6. ASSUME NEW x \in Spends[b] PROVE x \in U
  <2>1. PICK c \in T : x \in Creates[c] /\ CoinbaseHeight[c] < CoinbaseHeight[b]
      BY <1>1, <1>2 DEF Abstract!IsValid
  <2>2. CoinbaseHeight[b] \in Nat
      BY <1>2, BlockAssumption
  <2>3. c \in S
      BY <1>5, <2>1, <2>2
  <2>4. \A d \in S : x \notin Spends[d] /\ x \notin Transient[d]
      BY <1>1, <1>2, <1>5 DEF Abstract!IsValid
  <2>5. x \in Unspent(S)
      BY <2>1, <2>3, <2>4, InUnspent
  <2> QED BY <2>5 DEF Ledger
<1> QED BY <1>6, ValidParent

LEMMA RememberedAppend ==
    ASSUME NEW b \in Block, invalid \in Seq(Block), invalid' = Append(invalid, b)
    PROVE  Remembered' = Remembered \cup {b}
<1>1. Len(invalid') = Len(invalid) + 1 /\ invalid'[Len(invalid) + 1] = b
      /\ \A i \in 1..Len(invalid) : invalid'[i] = invalid[i]
    OBVIOUS
<1>2. Len(invalid) \in Nat
    OBVIOUS
<1> QED BY <1>1, <1>2 DEF Remembered

\* Making room in the cache of rejections adds nothing to it.
LEMMA RememberedFail ==
    ASSUME NEW b, Fail(b), invalid \in Seq(Block)
    PROVE  Remembered' \subseteq Remembered
<1> DEFINE m == Len(invalid) - MaxInvalid + 2
<1>1. CASE Len(invalid) >= MaxInvalid
  <2>1. invalid' = SubSeq(invalid, m, Len(invalid))
      BY <1>1 DEF Fail
  <2>2. m \in Int /\ m >= 1 /\ Len(invalid) \in Nat
      BY <1>1, BoundAssumption
  <2>3. \A i \in 1..Len(invalid') : \E j \in 1..Len(invalid) : invalid'[i] = invalid[j]
    <3> SUFFICES ASSUME NEW i \in 1..Len(invalid')
                 PROVE  \E j \in 1..Len(invalid) : invalid'[i] = invalid[j]
        OBVIOUS
    <3>1. invalid'[i] = invalid[m + i - 1] /\ m + i - 1 \in 1..Len(invalid)
        BY <2>1, <2>2
    <3> QED BY <3>1
  <2> QED BY <2>3 DEF Remembered
<1>2. CASE ~(Len(invalid) >= MaxInvalid)
    BY <1>2 DEF Fail, Remembered
<1> QED BY <1>1, <1>2

\* A block that is spoilt for its altered copy ends no branch that counts, and
\* spoils no other's.
LEMMA SpoiltIsNotValid ==
    ASSUME spoilt \subseteq spoilt'
    PROVE  ValidBlocks' \subseteq ValidBlocks \ spoilt'
<1> SUFFICES ASSUME NEW b \in ValidBlocks'
             PROVE  b \in ValidBlocks /\ b \notin spoilt'
    OBVIOUS
<1>1. PICK S \in SUBSET (Block \ (Early \cup Late \cup spoilt')) :
              Abstract!IsChain(S, b) /\ Abstract!IsValid(S)
    BY DEF ValidBlocks, Abstract!IsChain, Abstract!IsValid
<1>2. b \in S
    BY <1>1 DEF Abstract!IsChain
<1>3. S \in SUBSET (Block \ (Early \cup Late \cup spoilt)) /\ b \in Block
    BY <1>2
<1> QED BY <1>1, <1>2, <1>3 DEF ValidBlocks

LEMMA JustifiedStep ==
    IInv /\ Clean /\ Unpruned /\ Justified /\ [Next]_vars => Justified'
<1> SUFFICES ASSUME IInv, Clean, Unpruned, Justified, [Next]_vars PROVE Justified'
    OBVIOUS
<1> USE DEF rows, memory, locals
<1>0. TypeOK /\ RowsFit(stored, height) /\ invalid \in Seq(Block)
    BY DEF IInv, TypeOK
<1>1. ASSUME NEW b \in Block, Fail(b), b \notin ValidBlocks PROVE Justified'
  <2>1. Remembered' \subseteq Remembered
      BY <1>0, <1>1, RememberedFail
  <2>2. /\ stored' = stored /\ foreign' = foreign /\ spoilt' = spoilt
        /\ pending' = {b}
      BY <1>1 DEF Fail
  <2>3. ValidBlocks' \subseteq ValidBlocks
      BY <2>2, SpoiltIsNotValid
  <2> QED BY <1>1, <2>1, <2>2, <2>3 DEF Justified
<1>2. ASSUME NEW b \in Block, NEW form \in Form, AddRejected(b, form) PROVE Justified'
  <2>1. b # Genesis /\ Parent[b] \in stored
      BY <1>2 DEF AddRejected, Judgeable
  <2>2. CoinbaseHeight[Parent[b]] = height[Parent[b]]
      BY <1>0, <2>1 DEF RowsFit
  <2>3. spoilt \subseteq spoilt' /\ (form # "whole" => b \in spoilt')
      BY <1>2 DEF AddRejected
  <2>4. b \notin ValidBlocks'
    <3>1. CASE form # "whole"
        BY <2>3, <3>1, SpoiltIsNotValid
    <3>2. CASE form = "whole"
      <4>1. b \notin ValidBlocks
          BY <1>2, <2>1, <2>2, <3>2, ValidParent
          DEF AddRejected, FailsBeforeClock, FailsAfterClock, Justified
      <4> QED BY <2>3, <4>1, SpoiltIsNotValid
    <3> QED BY <3>1, <3>2
  <2>5. Remembered' = Remembered \cup {b}
      BY <1>0, <1>2, RememberedAppend DEF AddRejected
  <2>6. /\ stored' = stored /\ foreign' = foreign /\ pending' = pending
        /\ ValidBlocks' \subseteq ValidBlocks
      BY <1>2, <2>3, SpoiltIsNotValid DEF AddRejected
  <2> QED BY <2>3, <2>4, <2>5, <2>6 DEF Justified
<1>3. ASSUME NEW b \in Block, NEW form \in Form, AddStored(b, form) PROVE Justified'
  <2>1. b # Genesis /\ Parent[b] \in stored
      BY <1>3 DEF AddStored, Judgeable
  <2>2. OneBranch(b)
    <3> SUFFICES ASSUME NEW S \in SUBSET Block, NEW T \in SUBSET Block,
                        Abstract!IsChain(S, b), Abstract!IsChain(T, b)
                 PROVE  S = T
        BY DEF OneBranch
    <3>1. Abstract!IsChain(S \ {b}, Parent[b]) /\ Abstract!IsChain(T \ {b}, Parent[b])
        BY <2>1, ShorterChain
    <3>2. S \ {b} = T \ {b}
        BY <2>1, <3>1 DEF Justified, OneBranch
    <3>3. b \in S /\ b \in T
        BY DEF Abstract!IsChain
    <3> QED BY <3>2, <3>3
  <2>3. stored' = stored \cup {b} /\ Remembered' = Remembered /\ pending' = pending
      BY <1>3 DEF AddStored, Remembered
  <2>4. spoilt \subseteq spoilt'
      BY <1>3 DEF AddStored
  <2>5. foreign' \subseteq spoilt'
      BY <1>3 DEF AddStored, Justified
  <2>6. ValidBlocks' \subseteq ValidBlocks
      BY <2>4, SpoiltIsNotValid
  <2> QED BY <2>2, <2>3, <2>5, <2>6 DEF Justified
<1>4. CASE WalkInvalid
  <2>1. walker \in Block /\ walker \notin ValidBlocks /\ Fail(walker)
      BY <1>4, WalkType DEF WalkInvalid, Justified
  <2> QED BY <1>1, <2>1
<1>5. CASE DisconnectPruned
  <2>1. Ledger(view.inChain, view.utxo, newTip, stored, height)
      BY <1>5 DEF DisconnectPruned, IInv, Switching
  <2>2. newTip \in stored
      BY <2>1 DEF Ledger
  <2> QED BY <1>5, <2>2 DEF DisconnectPruned, Unpruned
<1>6. ASSUME NEW b \in Block, ConnectFails(b) PROVE Justified'
  <2>1. /\ b \in stored /\ b # Genesis /\ Parent[b] = newTip /\ pc = "connect"
        /\ b \notin body \/ ~Connects(b)
      BY <1>6 DEF ConnectFails, NextOnBranch, IInv, InTransaction
  <2>2. /\ Ledger(view.inChain, view.utxo, newTip, stored, height)
        /\ view.inChain \cap Unconnectable = {}
      BY <2>1 DEF IInv, Switching, Clean
  <2>3. OneBranch(newTip)
      BY <2>2 DEF Ledger, Justified
  <2>4. b \in foreign => b \notin ValidBlocks
      BY <2>1, ValidParent DEF Justified
  <2>5. b \notin ValidBlocks
      BY <1>0, <2>1, <2>2, <2>3, <2>4, ValidConnects DEF Connects, Unpruned
  <2> QED BY <1>1, <1>6, <2>5 DEF ConnectFails
<1>7. ASSUME NEW b \in Block, Mark(b) PROVE Justified'
  <2>1. Remembered' = Remembered \cup {b}
      BY <1>0, <1>7, RememberedAppend DEF Mark
  <2>2. b \notin ValidBlocks
      BY <1>7 DEF Mark, Justified
  <2>3. ChildrenOf(b) \cap ValidBlocks = {}
      BY <2>2, ValidParent DEF ChildrenOf
  <2>4. /\ stored' = stored /\ foreign' = foreign /\ spoilt' = spoilt
        /\ pending' = (pending \ {b}) \cup ChildrenOf(b)
      BY <1>7 DEF Mark
  <2>5. ValidBlocks' \subseteq ValidBlocks
      BY <2>4, SpoiltIsNotValid
  <2> QED BY <2>1, <2>2, <2>3, <2>4, <2>5 DEF Justified
\* What an earlier process rejected is forgotten, and what it stored is not.
<1>8. CASE Restart
  <2>1. Remembered' = {}
      BY <1>8 DEF Restart, Remembered
  <2> QED BY <1>8, <2>1 DEF Restart, NoLocals, Justified
<1>9. CASE \/ \E b \in Block : \/ AddRemembered(b) \/ AddDuplicate(b) \/ AddOrphan(b)
                               \/ (\E form \in Form : AddPremature(b, form))
                               \/ Choose(b) \/ ConnectBlock(b) \/ MarkKnown(b)
           \/ Finish \/ WalkBack \/ WalkDone \/ DisconnectBlock \/ DisconnectRaises
           \/ DisconnectDone \/ Commit \/ Publish \/ Notify \/ NotifyDone \/ MarkDone
           \/ Prune \/ SetClock \/ UNCHANGED vars
  <2>1. /\ stored' = stored /\ invalid' = invalid /\ pending' \subseteq pending
        /\ foreign' = foreign /\ spoilt' = spoilt
      BY <1>9 DEF vars, NoLocals, AddRemembered, AddDuplicate, AddOrphan,
            AddPremature, Choose, ConnectBlock, MarkKnown, Finish, WalkBack,
            WalkDone, DisconnectBlock, DisconnectRaises, DisconnectDone, Commit,
            Publish, Notify, NotifyDone, MarkDone, Prune, SetClock
  <2>2. ValidBlocks' \subseteq ValidBlocks
      BY <2>1, SpoiltIsNotValid
  <2> QED BY <2>1, <2>2 DEF Justified, Remembered
<1> QED BY FormsAreForms, <1>2, <1>3, <1>4, <1>5, <1>6, <1>7, <1>8, <1>9 DEF Next, Activate, AddBlock

LEMMA JustifiedInvariance == Spec /\ []Unpruned => []Justified
<1>1. Init => Justified
    BY GenesisBranch DEF Init, Justified, Remembered
<1> QED BY <1>1, JustifiedStep, Invariance, CleanInvariance, PTL DEF Spec

\* A node that keeps its bodies remembers only invalid blocks, whatever
\* failed, crashed or was forgotten before (_connect_block, _invalidate): no
\* good block is ever answered "invalid", unless an altered copy of it or of a
\* block of its branch came before it (add_block, _invalid).
THEOREM RejectionCorrect == Spec /\ []Unpruned => []RejectionIsJustified
<1>1. Justified => RejectionIsJustified
    BY DEF Justified, RejectionIsJustified
<1> QED BY <1>1, JustifiedInvariance, PTL

\* _best_candidate looks at the first MaxCandidates rows: enough if no more
\* rows outweigh the tip.
Heavier == {c \in stored : work[c] > work[tip]}

FewHeavier == IsFiniteSet(Heavier) /\ Cardinality(Heavier) <= MaxCandidates

\* When no candidate is left, every heavier block has been rejected.
LEMMA NoneLeft ==
    ASSUME TypeOK, NoCandidate, FewHeavier
    PROVE  \A b \in stored : work[b] > work[tip] => b \in Remembered
<1> SUFFICES ASSUME NEW b \in stored, work[b] > work[tip], b \notin Remembered
             PROVE  FALSE
    OBVIOUS
<1> DEFINE Ahead == {c \in stored \ {b} : ~RankedBefore(b, c)}
<1>1. Cardinality(Ahead) >= MaxCandidates
    BY DEF NoCandidate
<1>2. ASSUME NEW c \in Ahead PROVE c \in Heavier \ {b}
  <2>1. work[b] \in Nat /\ work[c] \in Nat /\ work[tip] \in Nat
      BY DEF TypeOK
  <2>2. work[c] >= work[b]
      BY <2>1 DEF RankedBefore
  <2> QED BY <2>1, <2>2 DEF Heavier
<1>3. b \in Heavier
    BY DEF Heavier
<1> HIDE DEF Ahead
<1>4. /\ IsFiniteSet(Heavier \ {b})
      /\ Cardinality(Heavier \ {b}) = Cardinality(Heavier) - 1
    BY <1>3, FS_RemoveElement DEF FewHeavier
<1>5. Ahead \in SUBSET (Heavier \ {b})
    BY <1>2
<1>6. /\ IsFiniteSet(Ahead)
      /\ Cardinality(Ahead) <= Cardinality(Heavier \ {b})
    BY <1>4, <1>5, FS_Subset
<1>7. Cardinality(Heavier) \in Nat /\ Cardinality(Ahead) \in Nat
    BY <1>6, FS_CardinalityType DEF FewHeavier
<1> QED BY <1>1, <1>4, <1>6, <1>7, BoundAssumption DEF FewHeavier

LEMMA MostWorkStep ==
    /\ IInv /\ Justified /\ FewHeavier /\ MostWorkIsActive /\ [Next]_vars
    => MostWorkIsActive'
<1> SUFFICES ASSUME IInv, Justified, FewHeavier, MostWorkIsActive, [Next]_vars
             PROVE  MostWorkIsActive'
    OBVIOUS
<1> USE DEF rows, memory, locals
<1>1. CASE Finish
  <2>1. \A b \in stored : work[b] > work[tip] => b \in Remembered
      BY <1>1, NoneLeft DEF Finish, IInv
  <2>2. ValidBlocks' \subseteq ValidBlocks
      BY <1>1, SpoiltIsNotValid DEF Finish
  <2> QED BY <1>1, <2>1, <2>2 DEF Finish, MostWorkIsActive, Justified
<1>2. CASE Restart
    BY <1>2 DEF Restart, MostWorkIsActive
<1>3. CASE DisconnectRaises
    BY <1>3 DEF DisconnectRaises, Return, MostWorkIsActive
<1>4. CASE Prune \/ SetClock \/ UNCHANGED vars
  <2>1. /\ stored' = stored /\ work' = work /\ tip' = tip
        /\ result' = result /\ pc' = pc /\ spoilt' = spoilt
      BY <1>4 DEF Prune, SetClock, vars
  <2>2. ValidBlocks' \subseteq ValidBlocks
      BY <2>1, SpoiltIsNotValid
  <2> QED BY <2>1, <2>2 DEF MostWorkIsActive
<1>5. ASSUME NEW b \in Block, AddBlock(b) PROVE MostWorkIsActive'
    BY <1>5 DEF AddBlock, AddRemembered, AddDuplicate, AddOrphan, AddRejected,
        AddPremature, AddStored, Return, MostWorkIsActive
<1>6. CASE \/ \E b \in Block : \/ Choose(b) \/ ConnectBlock(b) \/ ConnectFails(b)
                               \/ Mark(b) \/ MarkKnown(b)
           \/ WalkInvalid \/ WalkBack \/ WalkDone \/ DisconnectBlock
           \/ DisconnectPruned \/ DisconnectDone \/ Commit \/ Publish \/ Notify
           \/ NotifyDone \/ MarkDone
  <2>1. pc' # "idle"
      BY <1>6 DEF Choose, ConnectBlock, ConnectFails, Mark, MarkKnown, WalkInvalid,
            WalkBack, WalkDone, DisconnectBlock, DisconnectPruned, DisconnectDone,
            Commit, Publish, Notify, NotifyDone, MarkDone, Fail
  <2> QED BY <2>1 DEF MostWorkIsActive
<1> QED BY <1>1, <1>2, <1>3, <1>4, <1>5, <1>6 DEF Next, Activate

\* When add_block has reported that a block was accepted, no valid stored
\* block outweighs the tip (_activate_best_chain), on a node that keeps its
\* bodies and never stores more than MaxCandidates blocks heavier than its
\* tip; a branch of which an altered copy was met is no valid one.
THEOREM MostWorkCorrect == Spec /\ []Unpruned /\ []FewHeavier => []MostWorkIsActive
<1>1. Init => MostWorkIsActive
    BY DEF Init, MostWorkIsActive
<1> QED BY <1>1, MostWorkStep, Invariance, JustifiedInvariance, PTL DEF Spec
=============================================================================
