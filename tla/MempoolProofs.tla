--------------------------- MODULE MempoolProofs ---------------------------
(***************************************************************************)
(* Proofs about the pool, for every set of transactions, every block tree  *)
(* and every bound, about the templates that are collected from it, and    *)
(* about the inputs of transactions.                                       *)
(*                                                                         *)
(* The inductive invariant says that the spend index is exact and that     *)
(* every pooled transaction pays the relay minimum.  The first makes the   *)
(* set of conflicts complete, which is what keeps the index exact when a   *)
(* transaction is inserted; the second is why a replacement cannot fail    *)
(* the fee check after its conflicts have been removed.                    *)
(*                                                                         *)
(* That the pool is valid rests on when add() reads the chain: with no     *)
(* notification to come it judges a transaction by one tip from beginning  *)
(* to end, and with one to come the pool will be filled again.             *)
(*                                                                         *)
(* A template can be mined because every entry comes after its parents in  *)
(* the pool, whatever the passes skip.  An input is judged exactly because *)
(* the stack is known after each instruction of either kind of script, and *)
(* because taking the first key that verifies never misses a way to match  *)
(* all signatures.                                                         *)
(***************************************************************************)
EXTENDS Template, Script, FoldLemmas, TLAPS, FiniteSetTheorems, SequenceTheorems

Exact(p) ==
    \A c \in Coin : \A t \in Tx :
        p.spentBy[c] = t <=> t \in p.txs /\ c \in Inputs[t]

Pays(p) == \A t \in p.txs \cap Tx : Fee[t] >= MinimumFee(Size[t])

\* The transaction of an add() in progress is one that may be offered.
AddKnown == job.kind = "add" => job.wire[1].tx \in Tx

IInv == Exact(pool) /\ Pays(pool) /\ AddKnown

----------------------------------------------------------------------------

\* Taking transactions out of the pool (remove) keeps the index exact.
LEMMA WithoutExact ==
    ASSUME NEW p, NEW S, Exact(p)
    PROVE  Exact(Without(p, S))
  BY TxAssumption DEF Exact, Without

\* ... and leaves only transactions that were there.
LEMMA WithoutPays ==
    ASSUME NEW p, NEW S, Pays(p)
    PROVE  Pays(Without(p, S))
  BY DEF Pays, Without

\* remove(t) removes t itself, if it is pooled.
LEMMA RemovedContains ==
    ASSUME NEW p, NEW S
    PROVE  S \cap p.txs \subseteq Removed(p, S)
  BY DEF Removed

\* Once the conflicts of t are gone, the index has no spender of its inputs.
LEMMA ConflictsGone ==
    ASSUME NEW p, NEW t, Exact(p), NEW c \in Coin, c \in Inputs[t]
    PROVE  /\ Drop(p, Conflicts(p, t)).spentBy[c] \notin Tx
           /\ Conflicts(p, t) = {} => p.spentBy[c] \notin Tx
  <1> DEFINE u == p.spentBy[c]
  <1>1. CASE u \notin Tx
    BY <1>1, TxAssumption DEF Drop, Without
  <1>2. CASE u \in Tx
    <2>1. u \in Conflicts(p, t)
      BY <1>2, TxAssumption DEF Conflicts
    <2>2. u \in p.txs
      BY <1>2 DEF Exact
    <2>3. u \in Removed(p, Conflicts(p, t))
      BY <2>1, <2>2, RemovedContains
    <2> QED
      BY <2>1, <2>3, TxAssumption DEF Drop, Without
  <1> QED BY <1>1, <1>2

\* _insert keeps the index exact if nobody pooled spends the same outputs.
LEMMA InsertedExact ==
    ASSUME NEW p, NEW t, NEW good, Exact(p),
           \A c \in Coin : c \in Inputs[t] => p.spentBy[c] \notin Tx
    PROVE  Exact(Inserted(p, t, good))
  <1> SUFFICES ASSUME NEW c \in Coin, NEW u \in Tx
               PROVE  Inserted(p, t, good).spentBy[c] = u
                        <=> u \in Inserted(p, t, good).txs /\ c \in Inputs[u]
    BY DEF Exact
  <1>1. p.spentBy[c] = u <=> u \in p.txs /\ c \in Inputs[u]
    BY DEF Exact
  <1>2. /\ Inserted(p, t, good).txs = p.txs \cup {t}
        /\ Inserted(p, t, good).spentBy[c] = IF c \in Inputs[t] THEN t ELSE p.spentBy[c]
    BY DEF Inserted
  <1>3. CASE c \in Inputs[t]
    BY <1>1, <1>2, <1>3
  <1>4. CASE c \notin Inputs[t]
    BY <1>1, <1>2, <1>4
  <1> QED BY <1>3, <1>4

\* _evict_if_needed only removes.
LEMMA EvictedKeeps ==
    ASSUME NEW p, Exact(p), Pays(p)
    PROVE  Exact(Evicted(p)) /\ Pays(Evicted(p))
  <1>1. PICK S : Evicted(p) = p \/ Evicted(p) = Without(p, S)
    BY DEF Evicted, EvictedUpTo, Drop
  <1> QED BY <1>1, WithoutExact, WithoutPays

\* Whatever add() does to the pool, the invariant survives.
LEMMA AfterAddKeeps ==
    ASSUME NEW p, NEW t, NEW good, NEW b, NEW h, Exact(p), Pays(p)
    PROVE  Exact(AfterAdd(p, t, good, b, h)) /\ Pays(AfterAdd(p, t, good, b, h))
  <1> DEFINE q == IF Conflicts(p, t) = {} THEN p ELSE Drop(p, Conflicts(p, t))
  <1>1. Exact(q) /\ Pays(q)
    BY WithoutExact, WithoutPays DEF Drop
  <1>2. \A c \in Coin : c \in Inputs[t] => q.spentBy[c] \notin Tx
    BY ConflictsGone
  <1>3. Exact(Inserted(q, t, good))
    <2> HIDE DEF q
    <2> QED BY <1>1, <1>2, InsertedExact
  <1>4. ASSUME ~(Fee[t] < MinimumFee(Size[t]))
        PROVE  Pays(Inserted(q, t, good))
    <2> SUFFICES ASSUME NEW u \in Inserted(q, t, good).txs \cap Tx
                 PROVE  Fee[u] >= MinimumFee(Size[u])
      BY DEF Pays
    <2>1. CASE u = t
      <3>1. Fee[t] \in Int /\ MinimumFee(Size[t]) \in Int
        BY <2>1, TxAssumption DEF MinimumFee
      <3> QED BY <1>4, <2>1, <3>1
    <2>2. CASE u # t
      <3>1. u \in q.txs
        BY <2>2 DEF Inserted
      <3> QED BY <1>1, <3>1 DEF Pays
    <2> QED BY <2>1, <2>2
  <1>5. CASE ~Accepts(p, t, good, b, h)
    BY <1>5 DEF AfterAdd
  <1>6. CASE Accepts(p, t, good, b, h) /\ Fee[t] < MinimumFee(Size[t])
    BY <1>1, <1>6 DEF AfterAdd
  <1>7. CASE Accepts(p, t, good, b, h) /\ ~(Fee[t] < MinimumFee(Size[t]))
    <2>1. AfterAdd(p, t, good, b, h) = Evicted(Inserted(q, t, good))
      BY <1>7 DEF AfterAdd
    <2>2. Pays(Inserted(q, t, good))
      BY <1>4, <1>7
    <2> QED BY <1>3, <2>1, <2>2, EvictedKeeps
  <1> QED BY <1>5, <1>6, <1>7

\* An empty pool satisfies the invariant.
LEMMA ClearedKeeps ==
    ASSUME NEW v
    PROVE  Exact(Cleared(v)) /\ Pays(Cleared(v))
  BY TxAssumption DEF Exact, Pays, Cleared

\* So does the pool that _revalidate starts from.
LEMMA RevalidateKeeps ==
    ASSUME NEW p, Exact(p), Pays(p), StartRevalidating(p)
    PROVE  Exact(pool') /\ Pays(pool') /\ AddKnown'
  <1>1. Exact(pool') /\ Pays(pool')
    BY ClearedKeeps DEF StartRevalidating
  <1>2. AddKnown'
    BY DEF StartRevalidating, AddKnown, Free
  <1> QED BY <1>1, <1>2

----------------------------------------------------------------------------

LEMMA InitIInv == Init => IInv
  BY ClearedKeeps DEF Init, IInv, AddKnown, Free

LEMMA IInvStep == IInv /\ [Next]_vars => IInv'
  <1> SUFFICES ASSUME IInv, [Next]_vars PROVE IInv'
    OBVIOUS
  <1> USE DEF IInv
  <1>1. ASSUME NEW w \in Wire, AddStart(w) PROVE IInv'
    <2>1. AddKnown'
      BY <1>1 DEF AddStart, AddKnown, Wire, Free
    <2> QED BY <1>1, <2>1 DEF AddStart
  <1>2. CASE AddEnd
    <2>1. Exact(pool') /\ Pays(pool')
      BY <1>2, AfterAddKeeps DEF AddEnd
    <2> QED BY <1>2, <2>1 DEF AddEnd, AddKnown, Free
  <1>3. ASSUME NEW b \in Block, SwitchTo(b) PROVE IInv'
    BY <1>3 DEF SwitchTo, AddKnown
  <1>4. CASE Publish
    BY <1>4 DEF Publish, AddKnown
  <1>5. CASE BlockConnected
    <2>1. PICK p : p = ConfirmAll(pool, Head(notices).block) /\ StartRevalidating(p)
      BY <1>5 DEF BlockConnected
    <2>2. Exact(p) /\ Pays(p)
      BY <2>1, WithoutExact, WithoutPays DEF ConfirmAll, Drop
    <2> QED BY <2>1, <2>2, RevalidateKeeps
  <1>6. CASE BlockDisconnected
    BY <1>6 DEF BlockDisconnected, AddKnown
  <1>7. CASE Readd
    <2>1. Exact(pool') /\ Pays(pool')
      BY <1>7, AfterAddKeeps DEF Readd
    <2>2. AddKnown'
      BY <1>7 DEF Readd, AddKnown
    <2> QED BY <2>1, <2>2
  <1>8. CASE ReaddDone
    BY <1>8, RevalidateKeeps DEF ReaddDone
  <1>9. CASE RevalidateDone
    BY <1>9 DEF RevalidateDone, AddKnown, Free
  <1>10. CASE Restart
    BY <1>10, ClearedKeeps DEF Restart, AddKnown, Free
  <1>11. CASE UNCHANGED vars
    BY <1>11 DEF vars, AddKnown
  <1> QED
    BY <1>1, <1>2, <1>3, <1>4, <1>5, <1>6, <1>7, <1>8, <1>9, <1>10, <1>11 DEF Next

\* The inductive invariant holds in every reachable state of the pool.
THEOREM Invariance == Spec => []IInv
  BY InitIInv, IInvStep, PTL DEF Spec

\* At every step, inside a reorganisation, a revalidation or a replacement,
\* _spent_by names exactly the pooled transactions and their inputs.
THEOREM SpendIndexCorrect == Spec => []SpendIndexExact
  <1>1. IInv => SpendIndexExact
    BY DEF IInv, Exact, SpendIndexExact
  <1> QED BY <1>1, Invariance, PTL

----------------------------------------------------------------------------

\* A fee rate above that of a transaction which pays the relay minimum pays
\* the relay minimum, rounding up included (minimum_fee, _replace_conflicts).
LEMMA HigherRatePaysMinimum ==
    ASSUME NEW t \in Tx, NEW u \in Tx, PaysMore(t, u),
           Fee[u] >= MinimumFee(Size[u])
    PROVE  Fee[t] >= MinimumFee(Size[t])
  <1> DEFINE f == Fee[t]  s == Size[t]  g == Fee[u]  v == Size[u]
             r == MinRelayFeePerKb
  <1>1. /\ f \in Nat /\ g \in Nat /\ r \in Nat
        /\ s \in Nat /\ v \in Nat /\ s > 0 /\ v > 0
    BY TxAssumption
  <1>2. f * v > g * s
    BY DEF PaysMore
  <1>3. g >= 1 /\ 1000 * g >= v * r
    <2>1. v * r \in Nat
      BY <1>1
    <2>2. ASSUME NEW n \in Nat PROVE 1000 * ((n + 999) \div 1000) >= n
      OBVIOUS
    <2>3. g >= (v * r + 999) \div 1000 /\ g >= 1
      <3>1. (v * r + 999) \div 1000 \in Int
        BY <2>1
      <3> QED BY <1>1, <3>1 DEF MinimumFee
    <2>4. 1000 * ((v * r + 999) \div 1000) >= v * r
      BY <2>1, <2>2
    <2>5. (v * r + 999) \div 1000 \in Int
      BY <2>1
    <2> HIDE DEF g, v, r
    <2> QED BY <1>1, <2>1, <2>3, <2>4, <2>5
  <1> HIDE DEF f, s, g, v, r
  <1>4. f >= 1
    <2>1. g * s \in Nat
      BY <1>1
    <2>2. f = 0 => f * v = 0
      BY <1>1
    <2> QED BY <1>1, <1>2, <2>1, <2>2
  <1>5. 1000 * f > s * r
    <2>1. (1000 * g) * s >= (v * r) * s
      BY <1>1, <1>3
    <2>2. (1000 * f) * v > (1000 * g) * s
      BY <1>1, <1>2
    <2>3. (1000 * f) * v > (s * r) * v
      BY <1>1, <2>1, <2>2
    <2>4. ASSUME 1000 * f <= s * r PROVE (1000 * f) * v <= (s * r) * v
      BY <1>1, <2>4
    <2>5. 1000 * f \in Int /\ s * r \in Int
      BY <1>1
    <2> QED BY <1>1, <2>3, <2>4, <2>5
  <1>6. f >= (s * r + 999) \div 1000
    <2>1. ASSUME NEW n \in Nat, 1000 * f > n PROVE f >= (n + 999) \div 1000
      BY <1>1, <2>1
    <2>2. s * r \in Nat
      BY <1>1
    <2> QED BY <1>5, <2>1, <2>2
  <1>7. MinimumFee(s) = (s * r + 999) \div 1000 \/ MinimumFee(s) = 1
    BY DEF MinimumFee, r
  <1> QED BY <1>4, <1>6, <1>7 DEF f, s

\* A refused add() leaves the pool alone: the fee check that follows the
\* removal of the conflicts cannot fail for a replacement.
THEOREM RefusalCorrect == Spec => RefusalChangesNothing
  <1>1. IInv /\ [Next]_vars
          => (job.kind = "add" /\ answer'.status = "refused" => pool' = pool)
    <2> SUFFICES ASSUME IInv, [Next]_vars, job.kind = "add",
                        answer'.status = "refused"
                 PROVE  pool' = pool
      OBVIOUS
    <2>1. CASE AddEnd
      <3> DEFINE t == job.wire[1].tx
                 good == job.wire[1].good
      <3>1. t \in Tx
        BY DEF IInv, AddKnown
      <3>2. pool' = AfterAdd(pool, t, good, active, job.height)
        BY <2>1 DEF AddEnd
      <3>3. ~AddSucceeds(pool, t, good, active, job.height)
        BY <2>1 DEF AddEnd, Answer
      <3> HIDE DEF t, good
      <3>4. CASE ~Accepts(pool, t, good, active, job.height)
        BY <3>2, <3>4 DEF AfterAdd
      <3>5. CASE Accepts(pool, t, good, active, job.height)
        <4>1. Fee[t] \in Int /\ MinimumFee(Size[t]) \in Int
          BY <3>1, TxAssumption DEF MinimumFee
        <4>2. Fee[t] < MinimumFee(Size[t])
          BY <3>3, <3>5, <4>1 DEF AddSucceeds
        <4>3. Conflicts(pool, t) = {}
          <5> SUFFICES ASSUME NEW u \in Conflicts(pool, t) PROVE FALSE
            OBVIOUS
          <5>1. u \in Tx /\ PaysMore(t, u)
            BY <3>5, TxAssumption DEF Accepts, MayReplace
          <5>2. u \in pool.txs
            BY <3>1, <5>1, TxAssumption DEF IInv, Exact, Conflicts
          <5>3. Fee[u] >= MinimumFee(Size[u])
            BY <5>1, <5>2 DEF IInv, Pays
          <5>4. Fee[t] >= MinimumFee(Size[t])
            BY <3>1, <5>1, <5>3, HigherRatePaysMinimum
          <5> QED BY <4>1, <4>2, <5>4
        <4> QED BY <3>2, <3>5, <4>2, <4>3 DEF AfterAdd
      <3> QED BY <3>4, <3>5
    <2>2. CASE Restart
      BY <2>2 DEF Restart
    <2> QED
      BY <2>1, <2>2 DEF Next, vars, AddStart, SwitchTo, Publish, BlockConnected,
         BlockDisconnected, Readd, ReaddDone, RevalidateDone, Free
  <1> QED BY <1>1, Invariance, PTL DEF RefusalChangesNothing, Spec

----------------------------------------------------------------------------
(***************************************************************************)
(* The pool is valid once a switch has been digested.                      *)
(***************************************************************************)

\* A transaction of p could be in the blocks after b.
Minable(p, t, b) ==
    /\ t \notin Confirmed[b] /\ LockTime[t] <= HeightOf(b) + 1
    /\ \A c \in Inputs[t] :
        \/ \E u \in p.txs : c \in Outputs[u]
        \/ c \in Utxo[b] /\ MatureAt[c] <= HeightOf(b) + 1

Valid(p, b) == \A t \in p.txs : Minable(p, t, b)

\* No transaction spends an output of one that leaves to make room for it.
\* add() does not look for this: it would pool the transaction and remove
\* its parent.
NoSelfReplacement ==
    \A t \in Tx : \A u \in Removed(pool, Conflicts(pool, t)) : Inputs[t] \cap Outputs[u] = {}

Notice == [kind : {"connect", "disconnect"}, block : Block]

Typed(p) == p.txs \subseteq Tx /\ IsFiniteSet(p.txs) /\ p.order \in Seq(Tx)

Known ==
    /\ Typed(pool)
    /\ active \in Block /\ notices \in Seq(Notice)
    /\ job.kind \in {"free", "add", "readd", "revalidate"} /\ job.wire \in Seq(Wire)

\* While a switch is being digested a notification is still to come, or the
\* pool is being filled again with the published tip as its only measure.
SwitchPending == tip # active => notices # <<>> /\ job.kind \in {"free", "add"}

\* With nothing to come, an add() in progress has judged its transaction
\* against the chain it is about to read.
AddUpToDate ==
    job.kind = "add" /\ notices = <<>> =>
        /\ job.wire[1].tx \notin Confirmed[active]
        /\ job.height = HeightOf(active) + 1
        /\ LockTime[job.wire[1].tx] <= job.height

PoolMinable ==
    job.kind = "revalidate" \/ (notices = <<>> /\ job.kind \in {"free", "add"})
        => Valid(pool, active)

VInv == IInv /\ Known /\ SwitchPending /\ AddUpToDate /\ PoolMinable

\* The items at some positions: they are all there, and nothing else is.
LEMMA ItemsAre ==
    ASSUME NEW S, NEW q \in Seq(S), NEW I \in SUBSET (1..Len(q))
    PROVE  /\ ItemsAt(q, I) \in Seq(S) /\ Len(ItemsAt(q, I)) <= Len(q)
           /\ \A i \in I : \E k \in 1..Len(ItemsAt(q, I)) : ItemsAt(q, I)[k] = q[i]
           /\ \A k \in 1..Len(ItemsAt(q, I)) : \E i \in I : ItemsAt(q, I)[k] = q[i]
  <1> DEFINE Upto(i) == {j \in I : j <= i}
             place == [i \in I |-> Cardinality(Upto(i))]
             n == Cardinality(I)
             r == ItemsAt(q, I)
  <1>1. Len(q) \in Nat /\ IsFiniteSet(1..Len(q)) /\ Cardinality(1..Len(q)) = Len(q)
    BY FS_Interval
  <1> I \subseteq Nat
    BY <1>1
  <1>2. IsFiniteSet(I) /\ n \in Nat /\ n <= Len(q)
    BY <1>1, FS_Subset, FS_CardinalityType
  <1>3. \A i \in I : IsFiniteSet(Upto(i)) /\ Cardinality(Upto(i)) \in 1..n
    <2> SUFFICES ASSUME NEW i \in I PROVE IsFiniteSet(Upto(i)) /\ Cardinality(Upto(i)) \in 1..n
      OBVIOUS
    <2>1. Upto(i) \in SUBSET I /\ i \in Upto(i)
      BY <1>1
    <2>2. IsFiniteSet(Upto(i)) /\ Cardinality(Upto(i)) <= n /\ Cardinality(Upto(i)) \in Nat
      BY <1>2, <2>1, FS_Subset, FS_CardinalityType
    <2>3. Cardinality(Upto(i)) # 0
      BY <2>1, <2>2, FS_EmptySet
    <2> QED
      BY <1>2, <2>2, <2>3
  <1>a. \A i \in I : Cardinality(Upto(i)) \in Nat
    <2> HIDE DEF Upto, n
    <2> QED
      BY <1>2, <1>3
  <1>4. \A i, j \in I : i < j => Cardinality(Upto(i)) < Cardinality(Upto(j))
    <2> SUFFICES ASSUME NEW i \in I, NEW j \in I, i < j
                 PROVE  Cardinality(Upto(i)) < Cardinality(Upto(j))
      OBVIOUS
    <2>1. Upto(i) \in SUBSET Upto(j) /\ j \in Upto(j) /\ j \notin Upto(i)
      <3>1. i \in Nat /\ j \in Nat
        OBVIOUS
      <3>2. \A k \in I : k \in Nat /\ (k <= i => k <= j)
        BY <3>1
      <3>3. j <= j /\ ~(j <= i)
        BY <3>1
      <3>4. Upto(i) \in SUBSET Upto(j)
        BY <3>2
      <3> QED
        BY <3>3, <3>4
    <2>2. Cardinality(Upto(i)) <= Cardinality(Upto(j)) /\ Cardinality(Upto(i)) # Cardinality(Upto(j))
      BY <1>3, <2>1, FS_Subset
    <2>3. Cardinality(Upto(i)) \in Nat /\ Cardinality(Upto(j)) \in Nat
      BY <1>a
    <2> QED
      BY <2>2, <2>3
  <1>5. place \in Injection(I, 1..n)
    <2>1. place \in [I -> 1..n]
      BY <1>3
    <2>2. \A i, j \in I : place[i] = place[j] => i = j
      <3> SUFFICES ASSUME NEW i \in I, NEW j \in I, i # j PROVE place[i] # place[j]
        OBVIOUS
      <3>1. i \in Nat /\ j \in Nat /\ Cardinality(Upto(i)) \in Nat /\ Cardinality(Upto(j)) \in Nat
        BY <1>a
      <3>2. CASE i < j
        <4>1. Cardinality(Upto(i)) < Cardinality(Upto(j))
          BY <1>4, <3>2
        <4> QED
          BY <3>1, <4>1
      <3>3. CASE j < i
        <4>1. Cardinality(Upto(j)) < Cardinality(Upto(i))
          BY <1>4, <3>3
        <4> QED
          BY <3>1, <4>1
      <3> QED
        BY <3>1, <3>2, <3>3
    <2> QED
      BY <2>1, <2>2 DEF Injection, IsInjective
  <1>6. place \in Surjection(I, 1..n)
    <2>1. IsFiniteSet(1..n) /\ Cardinality(1..n) = n
      BY <1>2, FS_Interval
    <2> QED
      BY <1>5, <2>1, FS_Injection
  <1>7. \A k \in 1..n : \E i \in I : Cardinality(Upto(i)) = k
    BY <1>6 DEF Surjection
  <1>8. r = [k \in 1..n |-> q[CHOOSE i \in I : Cardinality(Upto(i)) = k]]
    BY DEF ItemsAt
  <1>9. \A i, j \in I : Cardinality(Upto(i)) = Cardinality(Upto(j)) => i = j
    BY <1>5 DEF Injection, IsInjective
  <1> HIDE DEF Upto, place, n, r
  <1>10. \A k \in 1..n : \E i \in I : r[k] = q[i]
    BY <1>7, <1>8
  <1>11. \A i \in I : \E k \in 1..n : r[k] = q[i]
    <2> SUFFICES ASSUME NEW i \in I PROVE r[Cardinality(Upto(i))] = q[i]
      BY <1>3
    <2>1. (CHOOSE j \in I : Cardinality(Upto(j)) = Cardinality(Upto(i))) = i
      BY <1>9
    <2> QED
      BY <1>3, <1>8, <2>1
  <1>12. r \in Seq(S) /\ Len(r) = n
    <2>1. r \in [1..n -> S]
      BY <1>8, <1>10
    <2> QED
      BY <1>2, <2>1
  <1> QED
    BY <1>2, <1>10, <1>11, <1>12 DEF r, n

\* A function on 1..n is a sequence.
LEMMA FunctionIsSeq ==
    ASSUME NEW S, NEW n \in Nat, NEW f \in [1..n -> S]
    PROVE  f \in Seq(S) /\ Len(f) = n
  OBVIOUS

\* What a switch to a branch with more work reports: blocks of the tree, and
\* at least one of them.
LEMMA NoticesAre ==
    ASSUME NEW b \in Block, NEW c \in Block, Work[c] > Work[b]
    PROVE  Notices(b, c) \in Seq(Notice) /\ Notices(b, c) # <<>>
  <1> DEFINE I(x, y) == {i \in 1..Len(Path[x]) : \A j \in 1..Len(Path[y]) : Path[y][j] # Path[x][i]}
             down == Beyond(b, c)
             up == Beyond(c, b)
  <1>1. \A x, y \in Block : Path[x] \in Seq(Block) /\ I(x, y) \in SUBSET (1..Len(Path[x]))
    BY BranchAssumption
  <1>2. \A x, y \in Block : Beyond(x, y) = ItemsAt(Path[x], I(x, y))
    BY DEF Beyond
  <1>3. Len(Path[c]) \in I(c, b)
    <2>1. Path[c] \in Seq(Block) /\ Path[c] # <<>> /\ Path[c][Len(Path[c])] = c
      BY BranchAssumption
    <2>2. Len(Path[c]) \in 1..Len(Path[c])
      BY <2>1
    <2>3. \A j \in 1..Len(Path[b]) : Path[b][j] # c
      <3> SUFFICES ASSUME NEW j \in 1..Len(Path[b]), Path[b][j] = c PROVE FALSE
        OBVIOUS
      <3>1. Work[c] <= Work[b] /\ Work[c] \in Nat /\ Work[b] \in Nat
        BY BranchAssumption, TreeAssumption
      <3> QED
        BY <3>1
    <2> QED
      BY <2>1, <2>2, <2>3
  <1> HIDE DEF I
  <1>4. down \in Seq(Block) /\ up \in Seq(Block)
    BY <1>1, <1>2, ItemsAre
  <1>5. Len(up) # 0 /\ Len(up) \in Nat
    <2> DEFINE J == I(c, b)
    <2>1. J \in SUBSET (1..Len(Path[c])) /\ Path[c] \in Seq(Block) /\ Len(Path[c]) \in J
      BY <1>1, <1>3
    <2> HIDE DEF J
    <2>2. \A i \in J : \E k \in 1..Len(ItemsAt(Path[c], J)) : ItemsAt(Path[c], J)[k] = Path[c][i]
      BY <2>1, ItemsAre
    <2>3. up = ItemsAt(Path[c], J)
      BY <1>2 DEF J
    <2>4. \E k \in 1..Len(up) : TRUE
      BY <2>1, <2>2, <2>3
    <2> QED
      BY <1>4, <2>4
  <1> HIDE DEF down, up
  <1> DEFINE first == [i \in 1..Len(down) |-> [kind |-> "disconnect", block |-> Reverse(down)[i]]]
             second == [i \in 1..Len(up) |-> [kind |-> "connect", block |-> up[i]]]
  <1>6. Notices(b, c) = first \o second
    BY DEF Notices, down, up
  <1>7. \A i \in 1..Len(down) : Reverse(down)[i] \in Block
    <2> SUFFICES ASSUME NEW i \in 1..Len(down) PROVE Reverse(down)[i] \in Block
      OBVIOUS
    <2>1. Len(down) \in Nat /\ Len(down) - i + 1 \in 1..Len(down)
      BY <1>4
    <2>2. Reverse(down)[i] = down[Len(down) - i + 1]
      BY <2>1 DEF Reverse
    <2>3. \A k \in 1..Len(down) : down[k] \in Block
      BY <1>4
    <2> QED
      BY <2>1, <2>2, <2>3
  <1>8. first \in Seq(Notice)
    <2>1. first \in [1..Len(down) -> Notice] /\ Len(down) \in Nat
      BY <1>4, <1>7 DEF Notice
    <2> HIDE DEF first
    <2> QED
      BY <2>1, FunctionIsSeq
  <1>9. second \in Seq(Notice) /\ Len(second) = Len(up)
    <2>1. second \in [1..Len(up) -> Notice] /\ Len(up) \in Nat
      BY <1>4 DEF Notice
    <2> HIDE DEF second
    <2> QED
      BY <2>1, FunctionIsSeq
  <1> HIDE DEF first, second
  <1>10. first \o second \in Seq(Notice) /\ Len(first \o second) = Len(first) + Len(second)
    BY <1>8, <1>9
  <1>11. Len(first \o second) # 0
    BY <1>5, <1>8, <1>9, <1>10
  <1> QED
    BY <1>6, <1>10, <1>11

\* What leaves the pool takes everything that spends it along (remove).
LEMMA RemovedClosed ==
    ASSUME NEW p, NEW S, NEW t \in Removed(p, S), NEW u \in p.txs, u \in Children(p, t)
    PROVE  u \in Removed(p, S)
  <1> SUFFICES ASSUME NEW D \in SUBSET p.txs, S \cap p.txs \subseteq D,
                      \A v \in D : Children(p, v) \cap p.txs \subseteq D
               PROVE  u \in D
    BY DEF Removed
  <1>1. t \in D
    BY DEF Removed
  <1> QED
    BY <1>1

\* Transactions that leave with their descendants leave nobody without a parent.
LEMMA DropValid ==
    ASSUME NEW p, NEW S, NEW b, Exact(p), p.txs \subseteq Tx, Valid(p, b)
    PROVE  Valid(Drop(p, S), b)
  <1> DEFINE R == Removed(p, S)
             q == Drop(p, S)
  <1>1. q.txs = p.txs \ R
    BY DEF Drop, Without
  <1> HIDE DEF R, q
  <1>2. SUFFICES ASSUME NEW t \in q.txs PROVE Minable(q, t, b)
    BY DEF Valid, q
  <1>3. t \in p.txs /\ t \in Tx /\ t \notin R /\ Minable(p, t, b) /\ t # NoTx
    BY <1>1, TxAssumption DEF Valid
  <1>4. ASSUME NEW c \in Inputs[t], NEW u \in p.txs, c \in Outputs[u]
        PROVE  u \in q.txs
    <2>1. c \in Coin /\ p.spentBy[c] = t
      BY <1>3, TxAssumption DEF Exact
    <2>2. t \in Children(p, u)
      BY <1>3, <1>4, <2>1 DEF Children
    <2>3. u \notin R
      BY <1>3, <2>2, RemovedClosed DEF R
    <2> QED
      BY <1>1, <2>3
  <1> QED
    BY <1>3, <1>4 DEF Minable

\* The pool holds nothing but transactions that were offered.
LEMMA WithoutTyped ==
    ASSUME NEW p, NEW S, Typed(p)
    PROVE  Typed(Without(p, S))
  <1> DEFINE I == {i \in 1..Len(p.order) : p.order[i] \notin S}
             o == p.order
  <1>1. o \in Seq(Tx) /\ I \in SUBSET (1..Len(o))
    BY DEF Typed
  <1>2. Without(p, S).order = ItemsAt(o, I) /\ Without(p, S).txs = p.txs \ S
    BY DEF Without
  <1> HIDE DEF I, o
  <1>3. ItemsAt(o, I) \in Seq(Tx)
    BY <1>1, ItemsAre
  <1>4. IsFiniteSet(p.txs \ S)
    BY FS_Subset DEF Typed
  <1> QED
    BY <1>2, <1>3, <1>4 DEF Typed

LEMMA InsertedTyped ==
    ASSUME NEW p, NEW t \in Tx, NEW good, Typed(p)
    PROVE  Typed(Inserted(p, t, good))
  <1> DEFINE o == p.order
  <1>1. o \in Seq(Tx) /\ p.txs \subseteq Tx
    BY DEF Typed
  <1>2. Inserted(p, t, good).order = Append(o, t) /\ Inserted(p, t, good).txs = p.txs \cup {t}
    BY DEF Inserted
  <1> HIDE DEF o
  <1>3. Append(o, t) \in Seq(Tx)
    BY <1>1
  <1>4. IsFiniteSet(p.txs \cup {t})
    <2>1. IsFiniteSet(p.txs)
      BY DEF Typed
    <2> QED
      BY <2>1, FS_AddElement
  <1> QED
    BY <1>1, <1>2, <1>3, <1>4 DEF Typed

\* _evict_if_needed removes transactions with their descendants, or nothing.
LEMMA EvictedIsDrop ==
    ASSUME NEW p
    PROVE  Evicted(p) = p \/ \E S : Evicted(p) = Drop(p, S)
  BY DEF Evicted, EvictedUpTo

LEMMA AfterAddTyped ==
    ASSUME NEW p, NEW t \in Tx, NEW good, NEW b, NEW h, Typed(p)
    PROVE  Typed(AfterAdd(p, t, good, b, h))
  <1> DEFINE q == IF Conflicts(p, t) = {} THEN p ELSE Drop(p, Conflicts(p, t))
             r == Inserted(q, t, good)
  <1>1. Typed(q)
    BY WithoutTyped DEF Drop
  <1>2. AfterAdd(p, t, good, b, h) \in {p, q, Evicted(r)}
    BY DEF AfterAdd
  <1> HIDE DEF q
  <1>3. Typed(r)
    BY <1>1, InsertedTyped
  <1> HIDE DEF r
  <1>4. Typed(Evicted(r))
    BY <1>3, EvictedIsDrop, WithoutTyped DEF Drop
  <1> QED
    BY <1>1, <1>2, <1>4

\* add() keeps a valid pool valid, if what it looked at before the coins is
\* still true of the chain whose coins it reads.
LEMMA AfterAddValid ==
    ASSUME NEW p, NEW t \in Tx, NEW good, NEW b, NEW h,
           Exact(p), p.txs \subseteq Tx, Valid(p, b),
           t \notin Confirmed[b], h = HeightOf(b) + 1, LockTime[t] <= h,
           \A u \in Removed(p, Conflicts(p, t)) : Inputs[t] \cap Outputs[u] = {}
    PROVE  Valid(AfterAdd(p, t, good, b, h), b)
  <1> DEFINE C == Conflicts(p, t)
             q == IF C = {} THEN p ELSE Drop(p, C)
             r == Inserted(q, t, good)
  <1>1. Valid(q, b) /\ Exact(q) /\ q.txs \subseteq Tx
    <2>1. Valid(Drop(p, C), b)
      BY DropValid
    <2>2. Exact(Drop(p, C)) /\ Drop(p, C).txs \subseteq p.txs
      BY WithoutExact DEF Drop, Without
    <2> QED
      BY <2>1, <2>2
  <1>2. p.txs \ Removed(p, C) \subseteq q.txs
    BY DEF Drop, Without
  <1>3. \A c \in Coin : c \in Inputs[t] => q.spentBy[c] \notin Tx
    BY ConflictsGone
  <1>4. AfterAdd(p, t, good, b, h) \in {p, q}
          \/ (Accepts(p, t, good, b, h) /\ AfterAdd(p, t, good, b, h) = Evicted(r))
    BY DEF AfterAdd
  <1> HIDE DEF q
  <1>5. ASSUME Accepts(p, t, good, b, h) PROVE Valid(Evicted(r), b)
    <2>1. r.txs = q.txs \cup {t} /\ Exact(r) /\ r.txs \subseteq Tx
      <3>1. Exact(r)
        BY <1>1, <1>3, InsertedExact
      <3> QED
        BY <1>1, <3>1 DEF Inserted
    <2> HIDE DEF r
    <2>2. \A c \in Inputs[t] :
            (\E u \in p.txs : c \in Outputs[u]) \/ (c \in Utxo[b] /\ MatureAt[c] <= h)
      <3>1. PICK ignored : \A c \in Inputs[t] : CoinUsable(p, c, ignored, b, h)
        BY <1>5 DEF Accepts, InputsUsable
      <3>2. \A c : CoinUsable(p, c, ignored, b, h)
                   => (\E u \in p.txs : c \in Outputs[u]) \/ (c \in Utxo[b] /\ MatureAt[c] <= h)
        BY Zenon DEF CoinUsable
      <3> QED
        BY <3>1, <3>2, Zenon
    <2>3. \A c \in Inputs[t] : \A u \in p.txs : c \in Outputs[u] => u \in r.txs
      <3> SUFFICES ASSUME NEW c \in Inputs[t], NEW u \in p.txs, c \in Outputs[u]
                   PROVE  u \in r.txs
        OBVIOUS
      <3>1. u \notin Removed(p, C)
        OBVIOUS
      <3> QED
        BY <1>2, <2>1, <3>1
    <2>4. Minable(r, t, b)
      BY <2>2, <2>3 DEF Minable
    <2>5. \A u \in q.txs : Minable(r, u, b)
      BY <1>1, <2>1 DEF Valid, Minable
    <2>6. Valid(r, b)
      BY <2>1, <2>4, <2>5 DEF Valid
    <2> QED
      BY <2>1, <2>6, EvictedIsDrop, DropValid
  <1> QED
    BY <1>1, <1>4, <1>5

\* What starts a revalidation leaves a pool that holds nothing.
LEMMA RevalidateIsEmpty ==
    ASSUME NEW p, Typed(p), StartRevalidating(p)
    PROVE  /\ Typed(pool') /\ pool'.txs = {}
           /\ job'.kind \in {"free", "revalidate"} /\ job'.wire \in Seq(Wire)
  <1> DEFINE o == p.order
             w == [i \in 1..Len(o) |-> [tx |-> o[i], good |-> o[i] \notin p.forged]]
  <1>1. o \in Seq(Tx) /\ Len(o) \in Nat
    BY DEF Typed
  <1>2. \A i \in 1..Len(o) : o[i] \in Tx
    BY <1>1
  <1>3. w \in [1..Len(o) -> Wire]
    BY <1>2 DEF Wire
  <1>4. job' = Free \/ job' = [kind |-> "revalidate", height |-> 0, wire |-> w]
    BY DEF StartRevalidating
  <1> HIDE DEF o, w
  <1>5. w \in Seq(Wire)
    BY <1>1, <1>3, FunctionIsSeq
  <1>6. job'.kind \in {"free", "revalidate"} /\ job'.wire \in Seq(Wire)
    <2>1. CASE job' = Free
      BY <2>1 DEF Free
    <2>2. CASE job' = [kind |-> "revalidate", height |-> 0, wire |-> w]
      BY <1>5, <2>2
    <2> QED
      BY <1>4, <2>1, <2>2
  <1>7. Typed(Cleared(p.verified)) /\ Cleared(p.verified).txs = {}
    BY FS_EmptySet DEF Cleared, Typed
  <1> QED
    BY <1>6, <1>7 DEF StartRevalidating

\* An empty pool is valid on any chain.
LEMMA EmptyValid ==
    ASSUME NEW p, NEW b, p.txs = {}
    PROVE  Valid(p, b)
  BY DEF Valid

LEMMA InitVInv == Init => VInv
  <1> SUFFICES ASSUME Init PROVE VInv
    OBVIOUS
  <1>1. pool.txs = {} /\ pool.order = <<>>
    BY DEF Init, Cleared
  <1>2. Known
    <2>1. Typed(pool)
      BY <1>1, FS_EmptySet DEF Typed
    <2>2. notices \in Seq(Notice) /\ active \in Block
      BY TreeAssumption DEF Init
    <2>3. job.kind = "free" /\ job.wire \in Seq(Wire)
      BY DEF Init, Free
    <2> QED
      BY <2>1, <2>2, <2>3 DEF Known
  <1>3. SwitchPending /\ AddUpToDate /\ PoolMinable
    BY <1>1, EmptyValid DEF Init, SwitchPending, AddUpToDate, PoolMinable, Free
  <1> QED
    BY <1>2, <1>3, InitIInv DEF VInv

\* The pool that block_connected hands to _revalidate is typed.
LEMMA ConfirmAllTyped ==
    ASSUME NEW p, NEW b, Typed(p)
    PROVE  Typed(ConfirmAll(p, b))
  BY WithoutTyped DEF ConfirmAll, Drop

\* A notification handled: the queue is shorter, the pool empty or not judged.
LEMMA NotifiedStep ==
    ASSUME VInv, BlockConnected \/ BlockDisconnected
    PROVE  Known' /\ SwitchPending' /\ AddUpToDate' /\ PoolMinable'
  <1>1. /\ tip' = active' /\ active' = active /\ active \in Block
        /\ notices \in Seq(Notice) /\ notices # <<>> /\ notices' = Tail(notices)
    BY DEF VInv, Known, BlockConnected, BlockDisconnected
  <1>2. notices' \in Seq(Notice) /\ Head(notices) \in Notice
    BY <1>1
  <1>3. CASE BlockConnected
    <2> DEFINE p == ConfirmAll(pool, Head(notices).block)
    <2>1. Typed(p) /\ StartRevalidating(p)
      BY <1>3, ConfirmAllTyped DEF VInv, Known, BlockConnected
    <2> HIDE DEF p
    <2>2. /\ Typed(pool') /\ pool'.txs = {}
          /\ job'.kind \in {"free", "revalidate"} /\ job'.wire \in Seq(Wire)
      BY <2>1, RevalidateIsEmpty
    <2>3. Valid(pool', active')
      BY <2>2, EmptyValid
    <2> QED
      BY <1>1, <1>2, <2>2, <2>3 DEF Known, SwitchPending, AddUpToDate, PoolMinable
  <1>4. CASE BlockDisconnected
    <2> DEFINE b == Head(notices).block
               w == [i \in 1..Len(BlockTxs[b]) |-> [tx |-> BlockTxs[b][i], good |-> TRUE]]
    <2>1. b \in Block /\ BlockTxs[b] \in Seq(Tx)
      BY <1>2, TreeAssumption DEF Notice
    <2>2. job' = [kind |-> "readd", height |-> 0, wire |-> w] /\ pool' = pool
      BY <1>4 DEF BlockDisconnected
    <2>3. w \in [1..Len(BlockTxs[b]) -> Wire] /\ Len(BlockTxs[b]) \in Nat
      BY <2>1 DEF Wire
    <2> HIDE DEF w
    <2>4. job'.kind = "readd" /\ job'.wire \in Seq(Wire)
      BY <2>2, <2>3, FunctionIsSeq
    <2>5. Typed(pool')
      BY <2>2 DEF VInv, Known
    <2> QED
      BY <1>1, <1>2, <2>4, <2>5 DEF Known, SwitchPending, AddUpToDate, PoolMinable
  <1> QED
    BY <1>3, <1>4

\* One turn of a loop of add(): the published tip is the committed one.
LEMMA ReaddStep ==
    ASSUME VInv, NoSelfReplacement, Readd
    PROVE  Known' /\ SwitchPending' /\ AddUpToDate' /\ PoolMinable'
  <1> DEFINE w == Head(job.wire)
             h == HeightOf(tip) + 1
  <1>1. job.kind \in {"readd", "revalidate"} /\ job.wire # <<>> /\ job.wire \in Seq(Wire)
    BY DEF VInv, Known, Readd
  <1>2. /\ tip = active /\ Typed(pool) /\ Exact(pool) /\ active \in Block
        /\ job.kind = "revalidate" => Valid(pool, active)
    BY <1>1 DEF VInv, Known, SwitchPending, PoolMinable, IInv
  <1>3. w.tx \in Tx /\ Tail(job.wire) \in Seq(Wire)
    <2>1. w \in Wire /\ Tail(job.wire) \in Seq(Wire)
      BY <1>1
    <2> QED
      BY <2>1 DEF Wire
  <1>4. /\ pool' = IF Admissible(pool, w.tx, active, h)
                   THEN AfterAdd(pool, w.tx, w.good, active, h) ELSE pool
        /\ job' = [job EXCEPT !.wire = Tail(job.wire)]
        /\ UNCHANGED <<active, tip, notices>>
    BY DEF Readd
  <1> HIDE DEF w
  <1>5. Typed(pool')
    BY <1>2, <1>3, <1>4, AfterAddTyped
  <1>6. Valid(pool, active) => Valid(pool', active)
    <2> SUFFICES ASSUME Valid(pool, active), Admissible(pool, w.tx, active, h)
                 PROVE  Valid(AfterAdd(pool, w.tx, w.good, active, h), active)
      BY <1>4
    <2>1. /\ w.tx \notin Confirmed[active] /\ h = HeightOf(active) + 1 /\ LockTime[w.tx] <= h
          /\ pool.txs \subseteq Tx
      BY <1>2 DEF Admissible, Typed
    <2>2. \A u \in Removed(pool, Conflicts(pool, w.tx)) : Inputs[w.tx] \cap Outputs[u] = {}
      BY <1>3 DEF NoSelfReplacement
    <2> HIDE DEF h
    <2> QED
      BY <1>2, <1>3, <2>1, <2>2, AfterAddValid
  <1>7. job'.kind = job.kind /\ job'.wire \in Seq(Wire)
    BY <1>1, <1>3, <1>4
  <1> QED
    BY <1>1, <1>2, <1>4, <1>5, <1>6, <1>7 DEF VInv, Known, SwitchPending, AddUpToDate, PoolMinable

\* The end of add(): if nothing is to come, it reads the chain it started on.
LEMMA AddEndStep ==
    ASSUME VInv, NoSelfReplacement, AddEnd
    PROVE  Known' /\ SwitchPending' /\ AddUpToDate' /\ PoolMinable'
  <1> DEFINE t == job.wire[1].tx
             good == job.wire[1].good
             h == job.height
  <1>1. t \in Tx /\ Typed(pool) /\ Exact(pool) /\ job.kind = "add"
    BY DEF VInv, IInv, AddKnown, Known, AddEnd
  <1>2. /\ pool' = AfterAdd(pool, t, good, active, h)
        /\ job' = Free /\ UNCHANGED <<active, tip, notices>>
    BY DEF AddEnd
  <1>3. notices = <<>> => /\ t \notin Confirmed[active] /\ h = HeightOf(active) + 1
                          /\ LockTime[t] <= h /\ Valid(pool, active)
    BY <1>1 DEF VInv, AddUpToDate, PoolMinable
  <1>4. \A u \in Removed(pool, Conflicts(pool, t)) : Inputs[t] \cap Outputs[u] = {}
    BY <1>1 DEF NoSelfReplacement
  <1> HIDE DEF t, good, h
  <1>5. Typed(pool')
    BY <1>1, <1>2, AfterAddTyped
  <1>6. notices = <<>> => Valid(pool', active)
    <2> SUFFICES ASSUME notices = <<>> PROVE Valid(AfterAdd(pool, t, good, active, h), active)
      BY <1>2
    <2>1. pool.txs \subseteq Tx
      BY <1>1 DEF Typed
    <2> QED
      BY <1>1, <1>3, <1>4, <2>1, AfterAddValid
  <1>7. job'.kind = "free" /\ job'.wire \in Seq(Wire)
    BY <1>2 DEF Free
  <1> QED
    BY <1>1, <1>2, <1>5, <1>6, <1>7 DEF VInv, Known, SwitchPending, AddUpToDate, PoolMinable

LEMMA VInvStep == VInv /\ NoSelfReplacement /\ [Next]_vars => VInv'
  <1> SUFFICES ASSUME VInv, NoSelfReplacement, [Next]_vars
               PROVE  Known' /\ SwitchPending' /\ AddUpToDate' /\ PoolMinable'
    BY IInvStep DEF VInv
  <1> DEFINE Done == Known' /\ SwitchPending' /\ AddUpToDate' /\ PoolMinable'
  <1>1. ASSUME NEW w \in Wire, AddStart(w) PROVE Done
    <2>1. UNCHANGED <<active, tip, notices, pool>> /\ job = Free
      BY <1>1 DEF AddStart
    <2>2. CASE job' = job
      BY <2>1, <2>2 DEF VInv, Known, SwitchPending, AddUpToDate, PoolMinable
    <2>3. CASE job' # job
      <3> DEFINE h == HeightOf(tip) + 1
      <3>1. Admissible(pool, w.tx, active, h) /\ job' = [kind |-> "add", wire |-> <<w>>, height |-> h]
        BY <1>1, <2>3 DEF AddStart
      <3> HIDE DEF h
      <3>2. job'.kind = "add" /\ job'.wire = <<w>> /\ job'.wire[1] = w /\ job'.height = h
        BY <3>1
      <3>3. <<w>> \in Seq(Wire)
        OBVIOUS
      <3>4. Known'
        BY <2>1, <3>2, <3>3 DEF VInv, Known
      <3>5. SwitchPending'
        BY <2>1, <3>2 DEF VInv, SwitchPending, Free
      <3>6. AddUpToDate'
        <4> SUFFICES ASSUME notices = <<>>
                     PROVE  /\ w.tx \notin Confirmed[active] /\ h = HeightOf(active) + 1
                            /\ LockTime[w.tx] <= h
          BY <2>1, <3>2 DEF AddUpToDate
        <4>1. tip = active
          BY DEF VInv, SwitchPending
        <4> QED
          BY <3>1, <4>1 DEF Admissible, h
      <3>7. PoolMinable'
        BY <2>1, <3>2 DEF VInv, PoolMinable, Free
      <3> QED
        BY <3>4, <3>5, <3>6, <3>7
    <2> QED
      BY <2>2, <2>3
  <1>2. CASE AddEnd
    BY <1>2, AddEndStep
  <1>3. ASSUME NEW b \in Block, SwitchTo(b) PROVE Done
    <2>1. /\ Work[b] > Work[active] /\ active' = b /\ notices' = Notices(active, b)
          /\ UNCHANGED <<tip, pool, job>> /\ job.kind \in {"free", "add"}
      BY <1>3 DEF SwitchTo
    <2>2. notices' \in Seq(Notice) /\ notices' # <<>>
      BY <2>1, NoticesAre DEF VInv, Known
    <2> QED
      BY <2>1, <2>2 DEF VInv, Known, SwitchPending, AddUpToDate, PoolMinable
  <1>4. CASE Publish
    BY <1>4 DEF Publish, VInv, Known, SwitchPending, AddUpToDate, PoolMinable
  <1>5. CASE BlockConnected \/ BlockDisconnected
    BY <1>5, NotifiedStep
  <1>6. CASE Readd
    BY <1>6, ReaddStep
  <1>7. CASE ReaddDone
    <2>1. StartRevalidating(pool) /\ UNCHANGED <<active, tip, notices>> /\ job.kind = "readd"
      BY <1>7 DEF ReaddDone
    <2>2. /\ Typed(pool') /\ pool'.txs = {}
          /\ job'.kind \in {"free", "revalidate"} /\ job'.wire \in Seq(Wire)
      BY <2>1, RevalidateIsEmpty DEF VInv, Known
    <2>3. Valid(pool', active')
      BY <2>2, EmptyValid
    <2> QED
      BY <2>1, <2>2, <2>3 DEF VInv, Known, SwitchPending, AddUpToDate, PoolMinable
  <1>8. CASE RevalidateDone
    <2>1. job'.kind = "free" /\ job'.wire \in Seq(Wire)
      BY <1>8 DEF RevalidateDone, Free
    <2> QED
      BY <1>8, <2>1 DEF RevalidateDone, VInv, Known, SwitchPending, AddUpToDate, PoolMinable
  <1>9. CASE Restart
    <2>1. pool'.txs = {} /\ pool'.order = <<>>
      BY <1>9 DEF Restart, Cleared
    <2>2. Typed(pool') /\ Valid(pool', active')
      BY <2>1, EmptyValid, FS_EmptySet DEF Typed
    <2>3. /\ job'.kind = "free" /\ job'.wire \in Seq(Wire) /\ notices' \in Seq(Notice)
          /\ tip' = active' /\ active' = active
      BY <1>9 DEF Restart, Free
    <2> QED
      BY <2>2, <2>3 DEF VInv, Known, SwitchPending, AddUpToDate, PoolMinable
  <1>10. CASE UNCHANGED vars
    BY <1>10 DEF vars, VInv, Known, SwitchPending, AddUpToDate, PoolMinable
  <1> QED
    BY <1>1, <1>2, <1>3, <1>4, <1>5, <1>6, <1>7, <1>8, <1>9, <1>10 DEF Next

\* Once a switch has been digested, exactly the pooled transactions with good
\* witnesses can be mined on the active chain, whatever add() was doing while the
\* chain switched (block_connected, block_disconnected, _revalidate).
THEOREM PoolCorrect == Spec /\ []NoSelfReplacement => []PoolIsValid
  <1>1. VInv => PoolIsValid
    BY DEF VInv, PoolMinable, Valid, Minable, PoolIsValid, CanBeMined, Settled, Free
  <1> QED
    BY <1>1, InitVInv, VInvStep, PTL DEF Spec

-----------------------------------------------------------------------------
(***************************************************************************)
(* Templates: what collect has chosen at any time can be mined in its      *)
(* order, but for coins of the chain, and the bytes it has counted are the *)
(* sizes of what it has chosen.                                            *)
(***************************************************************************)

\* The items of c come after what they spend, none of them twice, in a block
\* at height h.
Placed(p, h, c) ==
    \A i \in 1..Len(c) :
        /\ LockTime[c[i]] <= h
        /\ \A j \in 1..(i - 1) : c[j] # c[i]
        /\ \A u \in ParentsOf(p, c[i]) : \E j \in 1..(i - 1) : c[j] = u

\* What collect may have chosen from the pool p for a block at height h.
Selections(p, h) ==
    {sel \in [chosen : Seq(p.txs), used : Nat, left : SUBSET p.txs] :
        /\ sel.used = TotalSize(ToSet(sel.chosen)) /\ sel.used <= MaxBlockBytes
        /\ sel.left \cap ToSet(sel.chosen) = {} /\ Placed(p, h, sel.chosen)}

\* The size of a set of transactions grows by that of another one.
LEMMA TotalSizeWith ==
    ASSUME NEW S, IsFiniteSet(S), S \subseteq Tx, NEW t \in Tx, t \notin S
    PROVE  TotalSize(S \cup {t}) = TotalSize(S) + Size[t]
  <1>2. \A x \in S \cup {t} : Size[x] \in Int
    BY TxAssumption
  <1>3. SumFunctionOnSet(Size, S \cup {t}) = Size[t] + SumFunctionOnSet(Size, S) /\ SumFunctionOnSet(Size, S) \in Int
    BY <1>2, SumWith, SumType
  <1> QED
    BY <1>3, TxAssumption DEF TotalSize

LEMMA SelectionIs ==
    ASSUME NEW p, NEW h, NEW c \in Seq(p.txs), NEW n \in Nat, NEW l \in SUBSET p.txs,
           n = TotalSize(ToSet(c)), n <= MaxBlockBytes, l \cap ToSet(c) = {}, Placed(p, h, c)
    PROVE  [chosen |-> c, used |-> n, left |-> l] \in Selections(p, h)
  BY DEF Selections

\* One candidate looked at.
LEMMA ConsideredSelects ==
    ASSUME NEW p, Typed(p), NEW h \in Nat, NEW sel \in Selections(p, h), NEW t
    PROVE  Considered(p, h, sel, t) \in Selections(p, h)
  <1> DEFINE chosen == sel.chosen
             next == Append(chosen, t)
             added == [chosen |-> next, used |-> sel.used + Size[t], left |-> sel.left \ {t}]
  <1>1. /\ chosen \in Seq(p.txs) /\ Len(chosen) \in Nat /\ sel.used \in Nat /\ sel.left \in SUBSET p.txs
        /\ sel = [chosen |-> chosen, used |-> sel.used, left |-> sel.left]
        /\ sel.used = TotalSize(ToSet(chosen)) /\ sel.used <= MaxBlockBytes
        /\ sel.left \cap ToSet(chosen) = {} /\ Placed(p, h, chosen)
    BY DEF Selections
  <1>2. CASE t \notin sel.left \/ ~Fits(sel, t)
    BY <1>2 DEF Considered
  <1>3. CASE t \in sel.left /\ Fits(sel, t) /\ LockTime[t] > h
    <2>1. Considered(p, h, sel, t) = [sel EXCEPT !.left = @ \ {t}]
      BY <1>3 DEF Considered
    <2>2. [sel EXCEPT !.left = @ \ {t}] = [chosen |-> chosen, used |-> sel.used, left |-> sel.left \ {t}]
      <3>1. PICK c, n, l : sel = [chosen |-> c, used |-> n, left |-> l]
        BY <1>1
      <3> QED
        BY <3>1
    <2> HIDE DEF chosen
    <2>3. sel.left \ {t} \in SUBSET p.txs /\ (sel.left \ {t}) \cap ToSet(chosen) = {}
      BY <1>1
    <2> QED
      BY <1>1, <2>1, <2>2, <2>3, SelectionIs
  <1>4. CASE t \in sel.left /\ Fits(sel, t) /\ ~(LockTime[t] > h)
             /\ ~(ParentsOf(p, t) \subseteq ToSet(chosen))
    BY <1>4 DEF Considered
  <1>5. CASE t \in sel.left /\ Fits(sel, t) /\ ~(LockTime[t] > h)
             /\ ParentsOf(p, t) \subseteq ToSet(chosen)
    <2>1. Considered(p, h, sel, t) = added
      BY <1>5 DEF Considered
    <2>2. t \in p.txs /\ t \in Tx /\ LockTime[t] \in Nat /\ Size[t] \in Nat
      BY <1>1, <1>5, TxAssumption DEF Typed
    <2>3. /\ next \in Seq(p.txs) /\ Len(next) = Len(chosen) + 1 /\ next[Len(chosen) + 1] = t
          /\ \A i \in 1..Len(chosen) : next[i] = chosen[i]
      BY <1>1, <2>2
    <2>4. ToSet(chosen) = {chosen[i] : i \in 1..Len(chosen)}
      BY <1>1 DEF ToSet
    <2>5. ToSet(next) = ToSet(chosen) \cup {t}
      <3> HIDE DEF next
      <3>1. ToSet(next) = {next[i] : i \in 1..(Len(chosen) + 1)}
        BY <2>3 DEF ToSet
      <3>2. 1..(Len(chosen) + 1) = 1..Len(chosen) \cup {Len(chosen) + 1}
        BY <1>1
      <3> QED
        BY <2>3, <2>4, <3>1, <3>2
    <2>6. ToSet(chosen) \subseteq p.txs /\ IsFiniteSet(ToSet(chosen)) /\ t \notin ToSet(chosen)
      <3>1. ToSet(chosen) \subseteq p.txs
        BY <1>1, <2>4
      <3> QED
        BY <1>1, <1>5, <3>1, FS_Subset DEF Typed
    <2>7. added.used = TotalSize(ToSet(next)) /\ added.used <= MaxBlockBytes /\ added.used \in Nat
      <3>1. TotalSize(ToSet(chosen) \cup {t}) = TotalSize(ToSet(chosen)) + Size[t]
        BY <2>2, <2>6, TotalSizeWith DEF Typed
      <3> HIDE DEF next
      <3> QED
        BY <1>1, <1>5, <2>2, <2>5, <3>1 DEF Fits
    <2>8. Placed(p, h, next)
      <3> SUFFICES ASSUME NEW i \in 1..Len(next)
                   PROVE  /\ LockTime[next[i]] <= h
                          /\ \A j \in 1..(i - 1) : next[j] # next[i]
                          /\ \A u \in ParentsOf(p, next[i]) : \E j \in 1..(i - 1) : next[j] = u
        BY DEF Placed
      <3>1. \A j \in 1..(i - 1) : j \in 1..Len(chosen) /\ next[j] = chosen[j]
        BY <1>1, <2>3
      <3> HIDE DEF next, chosen
      <3>2. CASE i \in 1..Len(chosen)
        <4>1. next[i] = chosen[i]
          BY <2>3, <3>2
        <4>2. /\ LockTime[chosen[i]] <= h /\ \A j \in 1..(i - 1) : chosen[j] # chosen[i]
              /\ \A u \in ParentsOf(p, chosen[i]) : \E j \in 1..(i - 1) : chosen[j] = u
          BY <1>1, <3>2 DEF Placed
        <4> QED
          BY <3>1, <4>1, <4>2
      <3>3. CASE i = Len(chosen) + 1
        <4>1. next[i] = t /\ i - 1 = Len(chosen)
          BY <1>1, <2>3, <3>3
        <4>2. \A j \in 1..(i - 1) : next[j] \in ToSet(chosen)
          BY <2>4, <3>1
        <4>3. \A u \in ToSet(chosen) : \E j \in 1..(i - 1) : next[j] = u
          BY <2>4, <3>1, <4>1
        <4>4. LockTime[t] <= h
          BY <1>5, <2>2
        <4> QED
          BY <1>5, <2>6, <4>1, <4>2, <4>3, <4>4
      <3> QED
        BY <1>1, <2>3, <3>2, <3>3
    <2>9. added.left \in SUBSET p.txs /\ added.left \cap ToSet(next) = {}
      BY <1>1, <2>5
    <2> HIDE DEF next
    <2> QED
      BY <2>1, <2>3, <2>7, <2>8, <2>9, SelectionIs
  <1> QED
    BY <1>2, <1>3, <1>4, <1>5

\* One pass over the pool.
LEMMA PassSelects ==
    ASSUME NEW p, Typed(p), NEW h \in Nat, NEW sel \in Selections(p, h)
    PROVE  Pass(p, h, sel) \in Selections(p, h)
  <1> DEFINE order == Entries(p)
             n == Cardinality(p.txs)
             S == Selections(p, h)
             Is(g) == g = [s \in SUBSET (DOMAIN order) |->
                             IF s = {} THEN sel ELSE Considered(p, h, g[s \ {Max(s)}], order[Max(s)])]
             f == CHOOSE g : Is(g)
             step == [c \in S \X (1..n) |-> Considered(p, h, c[1], order[c[2]])]
  <1>1. Pass(p, h, sel) = f[DOMAIN order]
    BY DEF Pass, FoldLeft, MapThenFoldSet
  <1>2. n \in Nat /\ DOMAIN order = 1..n
    BY FS_CardinalityType DEF Typed, Entries
  <1>3. step \in [S \X (1..n) -> S]
    BY ConsideredSelects
  <1>4. PICK g \in [SUBSET (1..n) -> S] : FoldsLeft(g, sel, step, n)
    <2>1. sel \in S /\ n \in Nat
      BY <1>2
    <2> HIDE DEF step, n, S
    <2> QED
      BY ONLY <1>3, <2>1, FoldLeftExists
  <1>5. \A s \in SUBSET (1..n) : s # {} =>
              step[<<g[s \ {Max(s)}], Max(s)>>] = Considered(p, h, g[s \ {Max(s)}], order[Max(s)])
    <2> HIDE DEF n, S
    <2> QED
      BY <1>2, MaxIsLast
  <1>6. Is(g)
    <2> HIDE DEF step, n, S, order
    <2> QED
      BY <1>2, <1>4, <1>5 DEF FoldsLeft
  <1>7. Is(f)
    <2> HIDE DEF Is
    <2> QED
      BY <1>6
  <1>8. f[{}] \in S
    <2> HIDE DEF f, order
    <2> QED
      BY <1>7
  <1>9. ASSUME NEW s \in SUBSET (1..n), s # {} /\ f[s \ {Max(s)}] \in S
        PROVE  f[s] \in S
    <2> HIDE DEF f, order, n
    <2>1. f[s] = Considered(p, h, f[s \ {Max(s)}], order[Max(s)])
      BY <1>2, <1>7, <1>9
    <2> QED
      BY <1>9, <2>1, ConsideredSelects
  <1>10. f[1..n] \in S
    <2> HIDE DEF f, n, S
    <2> QED
      BY <1>2, <1>8, <1>9, FoldLeftStays
  <1> QED
    BY <1>1, <1>2, <1>10

\* All passes.
LEMMA CollectSelects ==
    ASSUME NEW p, Typed(p), NEW h \in Nat
    PROVE  Collect(p, h) \in Selections(p, h)
  <1> DEFINE n == Cardinality(p.txs)
             rounds == [i \in 1..n |-> i]
             S == Selections(p, h)
             none == [chosen |-> <<>>, used |-> 0, left |-> p.txs]
             Is(g) == g = [s \in SUBSET (DOMAIN rounds) |->
                             IF s = {} THEN none ELSE Pass(p, h, g[s \ {Max(s)}])]
             f == CHOOSE g : Is(g)
             step == [c \in S \X (1..n) |-> Pass(p, h, c[1])]
  <1>1. Collect(p, h) = f[DOMAIN rounds]
    BY DEF Collect, FoldLeft, MapThenFoldSet
  <1>2. n \in Nat /\ DOMAIN rounds = 1..n
    BY FS_CardinalityType DEF Typed
  <1>3. none \in S
    <2>1. TotalSize({}) = 0
      BY SumEmpty DEF TotalSize
    <2>2. ToSet(<<>>) = {}
      BY DEF ToSet
    <2>3. Placed(p, h, <<>>)
      BY DEF Placed
    <2>4. 0 = TotalSize(ToSet(<<>>)) /\ p.txs \cap ToSet(<<>>) = {}
      BY <2>1, <2>2
    <2>5. <<>> \in Seq(p.txs) /\ p.txs \in SUBSET p.txs
      OBVIOUS
    <2>6. 0 \in Nat /\ 0 <= MaxBlockBytes
      BY MaxBlockBytesAssumption
    <2> QED
      BY <2>3, <2>4, <2>5, <2>6, SelectionIs
  <1>4. step \in [S \X (1..n) -> S]
    BY PassSelects
  <1>5. PICK g \in [SUBSET (1..n) -> S] : FoldsLeft(g, none, step, n)
    <2> HIDE DEF step, n, S, none
    <2> QED
      BY ONLY <1>2, <1>3, <1>4, FoldLeftExists
  <1>6. \A s \in SUBSET (1..n) : s # {} =>
              step[<<g[s \ {Max(s)}], Max(s)>>] = Pass(p, h, g[s \ {Max(s)}])
    <2> HIDE DEF n, S
    <2> QED
      BY <1>2, MaxIsLast
  <1>7. Is(g)
    <2> HIDE DEF step, n, S, none, rounds
    <2> QED
      BY <1>2, <1>5, <1>6 DEF FoldsLeft
  <1>8. Is(f)
    <2> HIDE DEF Is
    <2> QED
      BY <1>7
  <1>9. f[{}] \in S
    <2> HIDE DEF f, rounds, none
    <2> QED
      BY <1>3, <1>8
  <1>10. ASSUME NEW s \in SUBSET (1..n), s # {} /\ f[s \ {Max(s)}] \in S
         PROVE  f[s] \in S
    <2> HIDE DEF f, rounds, n
    <2>1. f[s] = Pass(p, h, f[s \ {Max(s)}])
      BY <1>2, <1>8, <1>10
    <2> QED
      BY <1>10, <2>1, PassSelects
  <1>11. f[1..n] \in S
    <2> HIDE DEF f, n, S
    <2> QED
      BY <1>2, <1>9, <1>10, FoldLeftStays
  <1> QED
    BY <1>1, <1>2, <1>11

\* A template that is being built is for the block after the tip it names.
TInv ==
    /\ VInv /\ tip \in Block
    /\ template \in [prev : Block, height : Nat, txs : Seq(Tx), done : BOOLEAN]
    /\ template.height > 0 => template.height = HeightOf(template.prev) + 1

LEMMA HeightIsNat ==
    ASSUME NEW b \in Block
    PROVE  HeightOf(b) \in Nat
  <1>1. Path[b] \in Seq(Block) /\ Path[b] # <<>>
    BY BranchAssumption
  <1> QED
    BY <1>1 DEF HeightOf

\* What is chosen comes from the pool.
LEMMA ChosenTyped ==
    ASSUME NEW p, Typed(p), NEW h \in Nat
    PROVE  Collect(p, h).chosen \in Seq(Tx)
  <1> DEFINE c == Collect(p, h).chosen
  <1>1. c \in Seq(p.txs)
    BY CollectSelects DEF Selections
  <1>2. p.txs \subseteq Tx
    BY DEF Typed
  <1> HIDE DEF c
  <1>3. c \in Seq(Tx)
    BY <1>1, <1>2
  <1> QED
    BY <1>3 DEF c

LEMMA InitTInv == TInit => TInv
  <1> SUFFICES ASSUME TInit PROVE TInv
    OBVIOUS
  <1>1. VInv /\ tip \in Block
    BY InitVInv, TreeAssumption DEF TInit, Init
  <1>2. template = [prev |-> Genesis, height |-> 0, txs |-> <<>>, done |-> FALSE]
    BY DEF TInit, NoTemplate
  <1> QED
    BY <1>1, <1>2, TreeAssumption DEF TInv

LEMMA TInvStep == TInv /\ NoSelfReplacement /\ [TNext]_tvars => TInv'
  <1> SUFFICES ASSUME TInv, NoSelfReplacement, [TNext]_tvars PROVE TInv'
    OBVIOUS
  <1>1. VInv' /\ tip' \in Block
    <2>1. [Next]_vars
      BY DEF TNext, tvars, TemplateStart, TemplateCollect
    <2>2. tip' \in {tip, active}
      BY <2>1 DEF Next, vars, AddStart, AddEnd, SwitchTo, Publish, BlockConnected, BlockDisconnected,
                  Readd, ReaddDone, RevalidateDone, Restart
    <2>3. active \in Block
      BY DEF TInv, VInv, Known
    <2> QED
      BY <2>1, <2>2, <2>3, VInvStep DEF TInv
  <1>2. CASE template' = template
    BY <1>1, <1>2 DEF TInv, HeightOf
  <1>3. CASE TemplateStart
    <2>1. tip \in Block /\ HeightOf(tip) + 1 \in Nat
      BY HeightIsNat DEF TInv
    <2>2. template' = [prev |-> tip, height |-> HeightOf(tip) + 1, txs |-> <<>>, done |-> FALSE]
      BY <1>3 DEF TemplateStart
    <2> QED
      BY <1>1, <2>1, <2>2 DEF TInv, HeightOf
  <1>4. CASE TemplateCollect
    <2> DEFINE c == Collect(pool, template.height).chosen
    <2>1. c \in Seq(Tx)
      BY ChosenTyped DEF TInv, VInv, Known
    <2>2. template' = [template EXCEPT !.txs = c, !.done = TRUE]
      BY <1>4 DEF TemplateCollect
    <2> HIDE DEF c
    <2>3. /\ template' \in [prev : Block, height : Nat, txs : Seq(Tx), done : BOOLEAN]
          /\ template'.prev = template.prev /\ template'.height = template.height
      BY <2>1, <2>2 DEF TInv
    <2> QED
      BY <1>1, <2>3 DEF TInv, HeightOf
  <1> QED
    BY <1>2, <1>3, <1>4 DEF TNext, tvars

\* What is chosen from a valid pool can be connected on top of the chain unless
\* the witnesses of some of it are wrong.
LEMMA ChosenConnects ==
    ASSUME NEW p, NEW b \in Block, Typed(p), Exact(p), Valid(p, b)
    PROVE  LET c == Collect(p, HeightOf(b) + 1).chosen
           IN  /\ Connectable(c, p.forged, b) <=> ToSet(c) \cap p.forged = {}
               /\ TotalSize(ToSet(c)) <= MaxBlockBytes
  <1> DEFINE h == HeightOf(b) + 1
             sel == Collect(p, h)
             c == sel.chosen
  <1>1. h \in Nat
    BY HeightIsNat
  <1>2. sel \in Selections(p, h)
    <2> HIDE DEF h
    <2> QED
      BY <1>1, CollectSelects
  <1>3. TotalSize(ToSet(c)) <= MaxBlockBytes /\ c \in Seq(p.txs) /\ Placed(p, h, c)
    <2> HIDE DEF sel
    <2> QED
      BY <1>2 DEF Selections
  <1> HIDE DEF sel
  <1>4. ASSUME NEW i \in 1..Len(c)
        PROVE  LET earlier == {c[j] : j \in 1..(i - 1)}
               IN  /\ LockTime[c[i]] <= HeightOf(b) + 1
                   /\ c[i] \notin earlier \cup Confirmed[b]
                   /\ \A o \in Inputs[c[i]] :
                        /\ \A u \in earlier : o \notin Inputs[u]
                        /\ \/ \E u \in earlier : o \in Outputs[u]
                           \/ o \in Utxo[b] /\ MatureAt[o] <= HeightOf(b) + 1
    <2> DEFINE earlier == {c[j] : j \in 1..(i - 1)}
    <2>1. Len(c) \in Nat /\ \A j \in 1..Len(c) : c[j] \in p.txs /\ c[j] \in Tx
      BY <1>3 DEF Typed
    <2>2. /\ LockTime[c[i]] <= h
          /\ \A j \in 1..(i - 1) : c[j] # c[i]
          /\ \A u \in ParentsOf(p, c[i]) : \E j \in 1..(i - 1) : c[j] = u
      BY <1>3 DEF Placed
    <2>3. \A j \in 1..(i - 1) : j \in 1..Len(c)
      BY <2>1
    <2>4. Minable(p, c[i], b)
      BY <2>1 DEF Valid
    <2>5. \A u \in earlier : u \in p.txs /\ u \in Tx /\ u # c[i]
      BY <2>1, <2>2, <2>3
    <2>6. ASSUME NEW o \in Inputs[c[i]]
          PROVE  /\ \A u \in earlier : o \notin Inputs[u]
                 /\ \/ \E u \in earlier : o \in Outputs[u]
                    \/ o \in Utxo[b] /\ MatureAt[o] <= HeightOf(b) + 1
      <3>1. o \in Coin
        BY <2>1, TxAssumption
      <3>2. p.spentBy[o] = c[i]
        BY <2>1, <3>1 DEF Exact
      <3>3. \A u \in earlier : o \notin Inputs[u]
        <4> HIDE DEF earlier
        <4> QED
          BY <2>5, <3>1, <3>2 DEF Exact
      <3>4. \A u \in p.txs : o \in Outputs[u] => u \in earlier
        <4> SUFFICES ASSUME NEW u \in p.txs, o \in Outputs[u] PROVE u \in earlier
          OBVIOUS
        <4>1. u \in ParentsOf(p, c[i])
          BY DEF ParentsOf
        <4> QED
          BY <2>2, <4>1
      <3>5. (\E u \in p.txs : o \in Outputs[u]) \/ (o \in Utxo[b] /\ MatureAt[o] <= HeightOf(b) + 1)
        BY <2>4 DEF Minable
      <3> QED
        BY <3>3, <3>4, <3>5
    <2>7. c[i] \notin earlier \cup Confirmed[b]
      BY <2>2, <2>4 DEF Minable
    <2> HIDE DEF earlier
    <2> QED
      BY <2>2, <2>6, <2>7 DEF earlier
  <1>5. Connectable(c, p.forged, b) <=> \A i \in 1..Len(c) : c[i] \notin p.forged
    BY <1>4 DEF Connectable
  <1>6. ToSet(c) \cap p.forged = {} <=> \A i \in 1..Len(c) : c[i] \notin p.forged
    <2>1. c \in Seq(p.txs)
      BY <1>3
    <2> HIDE DEF c
    <2>2. DOMAIN c = 1..Len(c)
      BY <2>1
    <2> QED
      BY <2>2 DEF ToSet
  <1> QED
    BY <1>3, <1>5, <1>6 DEF sel

\* A template that was collected once the pool had digested the tip it names
\* can be mined on it exactly if no transaction with wrong witnesses was chosen,
\* whatever add() and the chain did while the thread that builds it waited
\* (create_block_template, collect).
THEOREM TemplateCorrect == TSpec /\ []NoSelfReplacement => TemplateConnects
  <1>1. ASSUME TInv, [TNext]_tvars, template'.done, ~template.done, Settled, template.prev = active
        PROVE  /\ Connectable(template'.txs, pool.forged, active)
                    <=> ToSet(template'.txs) \cap pool.forged = {}
               /\ TotalSize(ToSet(template'.txs)) <= MaxBlockBytes
    <2>1. TemplateCollect
      BY <1>1 DEF TNext, tvars, TemplateStart
    <2> DEFINE c == Collect(pool, template.height).chosen
    <2>2. template' = [template EXCEPT !.txs = c, !.done = TRUE] /\ template.height > 0
      BY <2>1 DEF TemplateCollect
    <2>3. template.height = HeightOf(active) + 1 /\ active \in Block
      BY <1>1, <2>2 DEF TInv
    <2>4. Typed(pool) /\ Exact(pool) /\ Valid(pool, active)
      BY <1>1 DEF TInv, VInv, IInv, Known, PoolMinable, Settled, Free
    <2>5. /\ Connectable(c, pool.forged, active) <=> ToSet(c) \cap pool.forged = {}
          /\ TotalSize(ToSet(c)) <= MaxBlockBytes
      BY <2>3, <2>4, ChosenConnects
    <2> HIDE DEF c
    <2>6. template'.txs = c
      BY <1>1, <2>2 DEF TInv
    <2> QED
      BY <2>5, <2>6
  <1>2. TInv /\ [TNext]_tvars =>
          [template'.done /\ ~template.done /\ Settled /\ template.prev = active =>
             /\ Connectable(template'.txs, pool.forged, active)
                  <=> ToSet(template'.txs) \cap pool.forged = {}
             /\ TotalSize(ToSet(template'.txs)) <= MaxBlockBytes]_tvars
    BY <1>1
  <1> QED
    BY <1>2, InitTInv, TInvStep, PTL DEF TSpec, TemplateConnects

-----------------------------------------------------------------------------
(* Inputs of transactions (Script).                                        *)

\* Key j, or one past all m keys, is where key i and those after it send a
\* signature.
Finds(p, m, sig, i, j) ==
    /\ j \in Nat \ {0}
    /\ j <= m + 1 => j - 1 \in i..m /\ Verifies(p[j - 1], sig)
    /\ \A h \in i..m : Verifies(p[h], sig) => j <= h + 1

\* NextKey finds the first key from i on that verifies, if there is one.
LEMMA NextKeyIs ==
    ASSUME NEW p, Len(p) \in Nat, NEW sig, NEW i \in Nat \ {0}
    PROVE  Finds(p, Len(p), sig, i, NextKey(p, sig, i))
<1> DEFINE found == {j \in i..Len(p) : Verifies(p[j], sig)}
           first == CHOOSE j \in found : \A h \in found : j <= h
<1>1. NextKey(p, sig, i) = IF found = {} THEN Len(p) + 2 ELSE 1 + first
  BY DEF NextKey
<1>2. CASE found = {}
  BY <1>1, <1>2 DEF Finds
<1>3. CASE found # {}
  <2>1. found \in SUBSET Nat
    OBVIOUS
  <2>2. \E j \in found : \A h \in found : j <= h
    <3> HIDE DEF found
    <3> QED
      BY <1>3, <2>1, Least
  <2>3. first \in found /\ \A h \in found : first <= h
    <3> HIDE DEF found
    <3> QED
      BY <2>2
  <2>4. NextKey(p, sig, i) = 1 + first
    BY <1>1, <1>3
  <2>5. first \in i..Len(p) /\ Verifies(p[first], sig)
        /\ \A h \in i..Len(p) : Verifies(p[h], sig) => first <= h
    <3> HIDE DEF first
    <3> QED
      BY <2>3
  <2> HIDE DEF first, found
  <2> QED
    BY <2>4, <2>5 DEF Finds
<1> QED
  BY <1>2, <1>3

Tries(p, m, sigs, n, next) ==
    next[0] = 1 /\ \A s \in 1..n : Finds(p, m, sigs[s], next[s - 1], next[s])

\* n signatures that verify with keys in order.
InOrderOf(p, sigs, n, chosen) ==
    /\ \A i, j \in 1..n : i < j => chosen[i] < chosen[j]
    /\ \A i \in 1..n : Verifies(p[chosen[i]], sigs[i])

\* The loop of OP_CHECKMULTISIG as a function of the signatures it is past.
LoopOf(p, sigs, n) ==
    CHOOSE next : next = [s \in 0..n |-> IF s = 0 THEN 1 ELSE NextKey(p, sigs[s], next[s - 1])]

LEMMA LoopIs ==
    ASSUME NEW p, NEW sigs, NEW n \in Nat, NEW m \in Nat,
           \A s \in 1..n : \A i \in Nat \ {0} : Finds(p, m, sigs[s], i, NextKey(p, sigs[s], i))
    PROVE  /\ LoopOf(p, sigs, n) \in [0..n -> Nat \ {0}]
           /\ Tries(p, m, sigs, n, LoopOf(p, sigs, n))
<1> DEFINE S == Nat \ {0}
           step == [c \in S \X (1..n) |-> NextKey(p, sigs[c[2]], c[1])]
           F(g) == [s \in 0..n |-> IF s = 0 THEN 1 ELSE NextKey(p, sigs[s], g[s - 1])]
           G == LoopOf(p, sigs, n)
<1>0. \A s \in 1..n : \A i \in S : NextKey(p, sigs[s], i) \in S
  BY DEF Finds
<1>1. step \in [S \X (1..n) -> S]
  BY <1>0
<1>2. \E g \in [0..n -> S] : Recurs(g, 1, step, n)
  <2> HIDE DEF S, step
  <2>1. 1 \in S
    BY DEF S
  <2> QED
    BY <1>1, <2>1, RecursionExists
<1>3. ASSUME NEW g \in [0..n -> S], Recurs(g, 1, step, n)
      PROVE  g = F(g)
  <2>1. ASSUME NEW s \in 0..n
        PROVE  g[s] = IF s = 0 THEN 1 ELSE NextKey(p, sigs[s], g[s - 1])
    <3>1. g[s] = IF s = 0 THEN 1 ELSE step[<<g[s - 1], s>>]
      BY <1>3 DEF Recurs
    <3>2. CASE s = 0
      BY <3>1, <3>2
    <3>3. CASE s # 0
      <4>1. <<g[s - 1], s>> \in S \X (1..n)
        BY <1>3, <3>3
      <4>2. step[<<g[s - 1], s>>] = NextKey(p, sigs[s], g[s - 1])
        BY <4>1
      <4> QED
        BY <3>1, <3>3, <4>2
    <3> QED
      BY <3>2, <3>3
  <2> QED
    BY <2>1
<1>4. G = F(G)
  <2>1. \E g : g = F(g)
    BY <1>2, <1>3
  <2>2. G = CHOOSE g : g = F(g)
    BY DEF LoopOf
  <2> HIDE DEF F, G
  <2> QED
    BY <2>1, <2>2
<1> HIDE DEF G
<1>5. \A s \in 0..n : G[s] = IF s = 0 THEN 1 ELSE NextKey(p, sigs[s], G[s - 1])
  BY <1>4
<1>6. ASSUME NEW s \in 1..n
      PROVE  G[s] = NextKey(p, sigs[s], G[s - 1])
  BY <1>5
<1>7. 0..n \subseteq {s \in 0..n : G[s] \in S}
  <2> DEFINE T == {s \in 0..n : G[s] \in S}
  <2>1. 0 \in T
    BY <1>5
  <2>2. ASSUME NEW s \in 1..n, s - 1 \in T PROVE s \in T
    BY <1>0, <1>6, <2>2
  <2> HIDE DEF T
  <2>3. 0..n \subseteq T
    BY <2>1, <2>2, IntervalInduction
  <2> QED
    BY <2>3 DEF T
<1>8. G = [s \in 0..n |-> G[s]]
  BY <1>4
<1>9. G \in [0..n -> S]
  BY <1>7, <1>8
<1>10. G[0] = 1
  BY <1>5
<1>11. ASSUME NEW s \in 1..n
       PROVE  Finds(p, m, sigs[s], G[s - 1], G[s])
  <2>1. s - 1 \in 0..n
    OBVIOUS
  <2>2. G[s - 1] \in Nat \ {0}
    BY <1>7, <2>1
  <2> QED
    BY <1>6, <2>2
<1> QED
  BY <1>9, <1>10, <1>11 DEF Tries, G

\* Taking the first key that verifies never misses a way to match them all.
LEMMA GreedyIsEnough ==
    ASSUME NEW p, NEW m \in Nat, NEW sigs, NEW n \in Nat,
           NEW next \in [0..n -> Nat \ {0}], Tries(p, m, sigs, n, next),
           NEW chosen \in [1..n -> 1..m], InOrderOf(p, sigs, n, chosen)
    PROVE  next[n] <= m + 1
<1> DEFINE T == {s \in 0..n : next[s] <= IF s = 0 THEN 1 ELSE chosen[s] + 1}
<1>1. 0 \in T
  BY DEF Tries
<1>2. ASSUME NEW s \in 1..n, s - 1 \in T
      PROVE  s \in T
  <2>1. Finds(p, m, sigs[s], next[s - 1], next[s]) /\ next[s - 1] \in Nat \ {0} /\ next[s] \in Nat
    BY DEF Tries
  <2>2. next[s - 1] <= chosen[s]
    <3>1. CASE s = 1
      BY <1>2, <3>1
    <3>2. CASE s # 1
      <4>1. s - 1 \in 1..n /\ next[s - 1] <= chosen[s - 1] + 1
        BY <1>2, <3>2
      <4>2. chosen[s - 1] < chosen[s]
        BY <4>1 DEF InOrderOf
      <4>3. chosen[s - 1] \in Nat /\ chosen[s] \in Nat
        BY <4>1
      <4> QED
        BY <2>1, <4>1, <4>2, <4>3
    <3> QED
      BY <3>1, <3>2
  <2>3. chosen[s] \in next[s - 1]..m /\ Verifies(p[chosen[s]], sigs[s])
    BY <2>1, <2>2 DEF InOrderOf
  <2>4. next[s] <= chosen[s] + 1
    BY <2>1, <2>3 DEF Finds
  <2> QED
    BY <2>4
<1>3. 0..n \subseteq T
  <2> HIDE DEF T
  <2> QED
    BY <1>1, <1>2, IntervalInduction
<1>4. next[n] <= IF n = 0 THEN 1 ELSE chosen[n] + 1
  BY <1>3
<1>5. n # 0 => chosen[n] \in 1..m
  OBVIOUS
<1> QED
  BY <1>4, <1>5

\* What it matched are keys in order.
LEMMA GreedyIsInOrder ==
    ASSUME NEW p, NEW m \in Nat, NEW sigs, NEW n \in Nat,
           NEW next \in [0..n -> Nat \ {0}], Tries(p, m, sigs, n, next),
           next[n] <= m + 1
    PROVE  \E chosen \in [1..n -> 1..m] : InOrderOf(p, sigs, n, chosen)
<1> DEFINE Found(s) == /\ next[s] - 1 \in next[s - 1]..m /\ Verifies(p[next[s] - 1], sigs[s])
                       /\ \A r \in 1..s - 1 : next[r] <= next[s - 1]
           T == {s \in 0..n : next[s] <= m + 1 => \A t \in 1..s : Found(t)}
<1>1. 0 \in T
  OBVIOUS
<1>2. ASSUME NEW s \in 1..n, s - 1 \in T, next[s] <= m + 1
      PROVE  \A t \in 1..s : Found(t)
  <2>1. Finds(p, m, sigs[s], next[s - 1], next[s]) /\ next[s - 1] \in Nat \ {0} /\ next[s] \in Nat
    <3>1. s \in 0..n /\ s - 1 \in 0..n
      OBVIOUS
    <3> HIDE DEF Found, T
    <3> QED
      BY <3>1 DEF Tries
  <2>2. next[s] - 1 \in next[s - 1]..m /\ Verifies(p[next[s] - 1], sigs[s])
    BY <1>2, <2>1 DEF Finds
  <2>3. next[s - 1] <= m + 1
    BY <2>1, <2>2
  <2>4. \A t \in 1..s - 1 : Found(t)
    BY <1>2, <2>3
  <2>5. ASSUME NEW r \in 1..s - 1
        PROVE  next[r] <= next[s - 1]
    <3>1. CASE r = s - 1
      BY <2>1, <3>1
    <3>2. CASE r # s - 1
      <4>1. s - 1 \in 1..s - 1 /\ r \in 1..(s - 1) - 1
        BY <3>2
      <4>2. next[r] <= next[(s - 1) - 1] /\ next[s - 1] - 1 \in next[(s - 1) - 1]..m
        BY <2>4, <4>1
      <4>3. next[r] \in Nat /\ next[(s - 1) - 1] \in Nat
        BY <4>1
      <4> QED
        BY <2>1, <4>2, <4>3
    <3> QED
      BY <3>1, <3>2
  <2>6. Found(s)
    BY <2>2, <2>5
  <2>7. \A t \in 1..s : t = s \/ t \in 1..s - 1
    OBVIOUS
  <2> HIDE DEF Found
  <2> QED
    BY <2>4, <2>6, <2>7
<1>3. 0..n \subseteq T
  <2>1. ASSUME NEW s \in 1..n, s - 1 \in T
        PROVE  s \in T
    <3>1. s \in 0..n
      OBVIOUS
    <3> HIDE DEF Found
    <3>2. next[s] <= m + 1 => \A t \in 1..s : Found(t)
      <4> HIDE DEF T
      <4> QED
        BY <1>2, <2>1
    <3> QED
      BY <3>1, <3>2
  <2> HIDE DEF T
  <2> QED
    BY <1>1, <2>1, IntervalInduction
<1>4. \A t \in 1..n : Found(t)
  <2>1. n \in T /\ next[n] <= m + 1
    <3>1. n \in 0..n
      OBVIOUS
    <3> HIDE DEF T
    <3> QED
      BY <1>3, <3>1
  <2> HIDE DEF Found
  <2> QED
    BY <2>1
<1> DEFINE chosen == [s \in 1..n |-> next[s] - 1]
<1>5. chosen \in [1..n -> 1..m]
  BY <1>4
<1>6. ASSUME NEW i \in 1..n, NEW j \in 1..n, i < j
      PROVE  chosen[i] < chosen[j]
  <2>1. next[i] <= next[j - 1] /\ next[j] - 1 \in next[j - 1]..m
    <3>1. Found(j) /\ i \in 1..j - 1
      <4> HIDE DEF Found
      <4> QED
        BY <1>4, <1>6
    <3> QED
      BY <3>1
  <2>2. next[i] \in Nat /\ next[j - 1] \in Nat
    OBVIOUS
  <2> QED
    BY <2>1, <2>2
<1>7. InOrderOf(p, sigs, n, chosen)
  BY <1>4, <1>6 DEF InOrderOf
<1> QED
  BY <1>5, <1>7

LEMMA MatchIsExact ==
    ASSUME NEW p, NEW m \in Nat, Len(p) = m, NEW sigs, NEW n \in Nat, Len(sigs) = n
    PROVE  Match(p, sigs) <=> \E chosen \in [1..n -> 1..m] : InOrderOf(p, sigs, n, chosen)
<1> DEFINE next == LoopOf(p, sigs, n)
<1>1. \A s \in 1..n : \A i \in Nat \ {0} : Finds(p, m, sigs[s], i, NextKey(p, sigs[s], i))
  BY NextKeyIs
<1>2. next \in [0..n -> Nat \ {0}] /\ Tries(p, m, sigs, n, next)
  BY <1>1, LoopIs, Zenon
<1>3. Match(p, sigs) <=> next[n] <= m + 1
  BY Zenon DEF Match, LoopOf
<1> HIDE DEF next
<1>4. next[n] <= m + 1 => \E chosen \in [1..n -> 1..m] : InOrderOf(p, sigs, n, chosen)
  BY <1>2, GreedyIsInOrder, Zenon
<1>5. (\E chosen \in [1..n -> 1..m] : InOrderOf(p, sigs, n, chosen)) => next[n] <= m + 1
  BY <1>2, GreedyIsEnough, Zenon
<1> QED
  BY <1>3, <1>4, <1>5, Zenon
-----------------------------------------------------------------------------

\* The items of a redeem script for several keys.
LEMMA MultisigItems ==
    ASSUME NEW keys \in SeqOf(Key, MaxPubkeys), NEW m \in 1..Len(keys)
    PROVE  LET s == MultisigRedeem(keys, m) IN
           /\ Len(keys) \in 1..MaxPubkeys /\ Len(s) = Len(keys) + 3
           /\ s[1] = Push(Number(m)) /\ s[Len(keys) + 2] = Push(Number(Len(keys)))
           /\ \A i \in 1..Len(keys) : keys[i] \in Key /\ s[i + 1] = Push(PublicKey(keys[i]))
           /\ s[Len(keys) + 3] = <<"checkmultisig">>
<1> DEFINE L == Len(keys)
           a == <<Push(Number(m))>>
           b == [i \in DOMAIN keys |-> Push(PublicKey(keys[i]))]
           c == <<Push(Number(L)), <<"checkmultisig">>>>
<1>1. PICK l \in 0..MaxPubkeys : keys \in [1..l -> Key]
  BY DEF SeqOf
<1>2. L = l /\ DOMAIN keys = 1..L /\ L \in 1..MaxPubkeys /\ \A i \in 1..L : keys[i] \in Key
  BY <1>1, ScriptAssumption
<1>3. IsSequence(a) /\ Len(a) = 1 /\ a[1] = Push(Number(m))
  <2>1. a \in Seq({Push(Number(m))})
    OBVIOUS
  <2> QED
    BY <2>1, AnySequence
<1>4. IsSequence(b) /\ Len(b) = L /\ \A i \in 1..L : b[i] = Push(PublicKey(keys[i]))
  <2>1. b = [i \in 1..L |-> b[i]] /\ L \in Nat
    BY <1>2
  <2>2. \A i \in 1..L : b[i] = Push(PublicKey(keys[i]))
    BY <1>2
  <2> HIDE DEF b, L
  <2> QED
    BY <2>1, <2>2, SequenceOf
<1>5. IsSequence(c) /\ Len(c) = 2 /\ c[1] = Push(Number(L)) /\ c[2] = <<"checkmultisig">>
  <2>1. c \in Seq({Push(Number(L)), <<"checkmultisig">>})
    OBVIOUS
  <2> QED
    BY <2>1, AnySequence
<1>6. MultisigRedeem(keys, m) = (a \o b) \o c
  BY DEF MultisigRedeem
<1> HIDE DEF a, b, c
<1>7. /\ IsSequence(a \o b) /\ Len(a \o b) = L + 1 /\ (a \o b)[1] = a[1]
      /\ \A i \in 1..L : (a \o b)[1 + i] = b[i]
  <2> HIDE DEF L
  <2>1. IsSequence(a \o b) /\ Len(a \o b) = Len(a) + Len(b)
    BY <1>3, <1>4, ConcatItems
  <2>3. \A i \in 1..Len(a) : (a \o b)[i] = a[i]
    BY <1>3, <1>4, ConcatItems
  <2>4. \A i \in 1..Len(b) : (a \o b)[Len(a) + i] = b[i]
    <3>1. IsSequence(a) /\ IsSequence(b)
      BY <1>3, <1>4
    <3> QED
      BY <3>1, ConcatItems
  <2>2. Len(a) + Len(b) = L + 1 /\ 1 \in 1..Len(a)
    BY <1>2, <1>3, <1>4
  <2> QED
    BY <1>3, <1>4, <2>1, <2>2, <2>3, <2>4
<1> DEFINE ab == a \o b
           s == ab \o c
<1>8. /\ Len(s) = L + 3 /\ \A i \in 1..L + 1 : s[i] = ab[i]
      /\ \A i \in 1..2 : s[L + 1 + i] = c[i]
  <2> HIDE DEF ab
  <2>1. Len(ab) = L + 1 /\ IsSequence(ab)
    BY <1>7 DEF ab
  <2> HIDE DEF L
  <2>2. Len(s) = Len(ab) + Len(c)
    BY <1>5, <2>1, ConcatItems
  <2>4. \A i \in 1..Len(ab) : s[i] = ab[i]
    BY <1>5, <2>1, ConcatItems
  <2>5. \A i \in 1..Len(c) : s[Len(ab) + i] = c[i]
    <3>1. IsSequence(ab) /\ IsSequence(c)
      BY <1>5, <2>1
    <3> QED
      BY <3>1, ConcatItems
  <2>3. Len(ab) + Len(c) = L + 3
    BY <1>2, <1>5, <2>1
  <2> QED
    BY <1>5, <2>1, <2>2, <2>3, <2>4, <2>5
<1>9. /\ s[1] = ab[1] /\ s[L + 2] = c[1] /\ s[L + 3] = c[2]
      /\ \A i \in 1..L : s[i + 1] = ab[i + 1]
  <2>1. 1 \in 1..L + 1 /\ \A i \in 1..L : i + 1 \in 1..L + 1
    BY <1>2
  <2>2. L + 1 + 1 = L + 2 /\ L + 1 + 2 = L + 3 /\ 1 \in 1..2 /\ 2 \in 1..2
    BY <1>2
  <2> HIDE DEF s, ab, L
  <2>3. s[L + 1 + 1] = c[1] /\ s[L + 1 + 2] = c[2]
    BY <1>8, <2>2
  <2> QED
    BY <1>8, <2>1, <2>2, <2>3
<1>10. \A i \in 1..L : 1 + i = i + 1
  BY <1>2
<1>11. MultisigRedeem(keys, m) = s
  BY <1>6
<1>12. s[1] = Push(Number(m)) /\ s[L + 2] = Push(Number(L)) /\ s[L + 3] = <<"checkmultisig">> /\ Len(s) = L + 3
  BY <1>3, <1>5, <1>7, <1>8, <1>9
<1>13. ASSUME NEW i \in 1..L
       PROVE  keys[i] \in Key /\ s[i + 1] = Push(PublicKey(keys[i]))
  <2>1. s[i + 1] = ab[i + 1] /\ ab[1 + i] = b[i] /\ 1 + i = i + 1 /\ b[i] = Push(PublicKey(keys[i]))
    BY <1>4, <1>7, <1>9, <1>10
  <2> HIDE DEF s, ab, L
  <2> QED
    BY <1>2, <2>1
<1> HIDE DEF s
<1> QED
  BY <1>2, <1>11, <1>12, <1>13

\* The stack after a script has pushed n items on the arguments.
Filled(stack, arguments, script, n) ==
    /\ IsSequence(stack) /\ Len(stack) = Len(arguments) + n
    /\ \A i \in 1..Len(arguments) : stack[i] = arguments[i]
    /\ \A i \in 1..n : stack[Len(arguments) + i] = script[i][2]

\* The arguments end in signatures of keys in order.
Signed(keys, m, arguments) ==
    /\ Len(arguments) >= m
    /\ \E chosen \in [1..m -> DOMAIN keys] :
        /\ \A i, j \in 1..m : i < j => chosen[i] < chosen[j]
        /\ Top(arguments, m) = [i \in 1..m |-> Signature(keys[chosen[i]])]

LEMMA TopItems ==
    ASSUME NEW s, IsSequence(s), NEW n \in 0..Len(s)
    PROVE  /\ IsSequence(Top(s, n)) /\ Len(Top(s, n)) = n
           /\ \A i \in 1..n : Top(s, n)[i] = s[Len(s) - n + i]
           /\ IsSequence(Below(s, n)) /\ Len(Below(s, n)) = Len(s) - n
           /\ \A i \in 1..Len(s) - n : Below(s, n)[i] = s[i]
<1>1. Len(s) \in Nat
  BY SequenceShape
<1>2. /\ Len(s) - n + 1 \in 1..Len(s) + 1 /\ Len(s) \in (Len(s) - n + 1) - 1..Len(s)
      /\ 1 \in 1..Len(s) + 1 /\ Len(s) - n \in 1 - 1..Len(s)
  BY <1>1
<1>3. /\ IsSequence(SubSeq(s, Len(s) - n + 1, Len(s)))
      /\ Len(SubSeq(s, Len(s) - n + 1, Len(s))) = Len(s) - (Len(s) - n + 1) + 1
      /\ \A i \in 1..Len(s) - (Len(s) - n + 1) + 1 :
             SubSeq(s, Len(s) - n + 1, Len(s))[i] = s[(Len(s) - n + 1) + i - 1]
  BY <1>2, PartItems
<1>4. /\ IsSequence(SubSeq(s, 1, Len(s) - n)) /\ Len(SubSeq(s, 1, Len(s) - n)) = (Len(s) - n) - 1 + 1
      /\ \A i \in 1..(Len(s) - n) - 1 + 1 : SubSeq(s, 1, Len(s) - n)[i] = s[1 + i - 1]
  BY <1>2, PartItems
<1>5. /\ Len(s) - (Len(s) - n + 1) + 1 = n /\ (Len(s) - n) - 1 + 1 = Len(s) - n
      /\ \A i \in 1..n : (Len(s) - n + 1) + i - 1 = Len(s) - n + i
      /\ \A i \in 1..Len(s) - n : 1 + i - 1 = i
  BY <1>1
<1> QED
  BY <1>3, <1>4, <1>5 DEF Top, Below

\* OP_CHECKMULTISIG on a stack of arguments, threshold, keys and their number.
LEMMA CheckMultisigIs ==
    ASSUME NEW keys \in SeqOf(Key, MaxPubkeys), NEW m \in 1..Len(keys),
           NEW arguments, IsSequence(arguments),
           NEW stack, Filled(stack, arguments, MultisigRedeem(keys, m), Len(keys) + 2)
    PROVE  LET done == CheckMultisig(stack) IN
           /\ ~Signed(keys, m, arguments) => done = Stopped("refused")
           /\ Signed(keys, m, arguments) =>
                /\ done.verdict = "running" /\ IsSequence(done.stack)
                /\ Len(done.stack) \in 1..Len(arguments) + 1 /\ Last(done.stack) = Number(1)
<1> DEFINE L == Len(keys)
           n == Len(arguments)
           script == MultisigRedeem(keys, m)
           rest == Front(stack)
           below == Below(rest, L + 1)
           p == Top(rest, L)
           sigs == Top(below, m)
<1>1. /\ L \in 1..MaxPubkeys /\ MaxPubkeys \in 1..16 /\ n \in Nat /\ m \in 1..L
      /\ script[1] = Push(Number(m)) /\ script[L + 2] = Push(Number(L))
      /\ \A i \in 1..L : script[i + 1] = Push(PublicKey(keys[i]))
  BY MultisigItems, ScriptAssumption, SequenceShape
<1>2. /\ IsSequence(stack) /\ Len(stack) = n + L + 2
      /\ \A i \in 1..n : stack[i] = arguments[i]
      /\ \A i \in 1..L + 2 : stack[n + i] = script[i][2]
  <2>1. n + (L + 2) = n + L + 2
    BY <1>1
  <2> QED
    BY <2>1 DEF Filled
<1> HIDE DEF L, n, script
<1>3. Last(stack) = Number(L) /\ stack # <<>>
  <2>1. n + L + 2 = n + (L + 2) /\ L + 2 \in 1..L + 2 /\ n + L + 2 # 0
    BY <1>1
  <2>2. stack[n + L + 2] = script[L + 2][2]
    BY <1>2, <2>1
  <2>3. script[L + 2][2] = Number(L)
    BY <1>1 DEF Push
  <2>4. Last(stack) = stack[n + L + 2]
    BY <1>2 DEF Last
  <2>5. Len(<<>>) = 0
    OBVIOUS
  <2> QED
    BY <1>2, <2>1, <2>2, <2>3, <2>4, <2>5
<1>4. SmallInt(Last(stack)) = L
  BY <1>1, <1>3 DEF SmallInt, Number
<1>5. /\ IsSequence(rest) /\ Len(rest) = n + L + 1
      /\ \A i \in 1..n + L + 1 : rest[i] = stack[i]
  <2>1. /\ 1 \in 1..Len(stack) + 1 /\ Len(stack) - 1 \in 1 - 1..Len(stack)
        /\ (Len(stack) - 1) - 1 + 1 = n + L + 1
        /\ \A i \in 1..n + L + 1 : 1 + i - 1 = i
    BY <1>1, <1>2
  <2>2. rest = SubSeq(stack, 1, Len(stack) - 1)
    BY DEF Front
  <2> HIDE DEF rest
  <2>3. /\ IsSequence(rest) /\ Len(rest) = (Len(stack) - 1) - 1 + 1
        /\ \A i \in 1..(Len(stack) - 1) - 1 + 1 : rest[i] = stack[1 + i - 1]
    BY <1>2, <2>1, <2>2, PartItems
  <2> QED
    BY <2>1, <2>3
<1> HIDE DEF rest
<1>6. Len(rest) > L /\ SmallInt(rest[Len(rest) - L]) = m
  <2>1. Len(rest) - L = n + 1 /\ n + 1 \in 1..n + L + 1 /\ 1 \in 1..L + 2 /\ Len(rest) > L
    BY <1>1, <1>5
  <2>2. rest[n + 1] = stack[n + 1] /\ stack[n + 1] = script[1][2]
    BY <1>2, <1>5, <2>1
  <2>3. rest[Len(rest) - L] = Number(m)
    BY <1>1, <2>1, <2>2 DEF Push
  <2>4. m \in 1..16
    BY <1>1
  <2> QED
    BY <2>1, <2>3, <2>4 DEF SmallInt, Number
<1>7. /\ IsSequence(p) /\ Len(p) = L /\ \A i \in 1..L : p[i] = PublicKey(keys[i])
  <2>1. L \in 0..Len(rest) /\ \A i \in 1..L : Len(rest) - L + i = n + (i + 1)
        /\ n + (i + 1) \in 1..n + L + 1 /\ i + 1 \in 1..L + 2
    BY <1>1, <1>5
  <2>2. /\ IsSequence(p) /\ Len(p) = L /\ \A i \in 1..L : p[i] = rest[Len(rest) - L + i]
    BY <1>5, <2>1, TopItems
  <2>3. ASSUME NEW i \in 1..L
        PROVE  p[i] = PublicKey(keys[i])
    <3>1. p[i] = rest[n + (i + 1)] /\ rest[n + (i + 1)] = stack[n + (i + 1)]
          /\ stack[n + (i + 1)] = script[i + 1][2]
      BY <1>2, <1>5, <2>1, <2>2
    <3>2. script[i + 1][2] = PublicKey(keys[i])
      BY <1>1 DEF Push
    <3> QED
      BY <3>1, <3>2
  <2> QED
    BY <2>2, <2>3
<1>8. /\ IsSequence(below) /\ Len(below) = n /\ \A i \in 1..n : below[i] = arguments[i]
  <2>1. L + 1 \in 0..Len(rest) /\ Len(rest) - (L + 1) = n /\ \A i \in 1..n : i \in 1..n + L + 1
    BY <1>1, <1>5
  <2>2. /\ IsSequence(below) /\ Len(below) = Len(rest) - (L + 1)
        /\ \A i \in 1..Len(rest) - (L + 1) : below[i] = rest[i]
    BY <1>5, <2>1, TopItems
  <2> QED
    BY <1>2, <1>5, <2>1, <2>2
<1>9. below = arguments
  BY <1>8, SameSequence DEF n
<1>10. CheckMultisig(stack) =
          IF n < m \/ ~Match(p, sigs) THEN Stopped("refused")
          ELSE Going(Append(Below(below, m), Number(1)))
  <2> HIDE DEF p, sigs
  <2>1. L \in 1..MaxPubkeys /\ m \in 1..L /\ (Len(below) < m <=> n < m)
    BY <1>1, <1>8
  <2> HIDE DEF below
  <2> QED
    BY <1>3, <1>4, <1>6, <2>1 DEF CheckMultisig, rest, below, p, sigs
<1>11. CASE n < m
  <2>1. ~(Len(arguments) >= m)
    BY <1>1, <1>11 DEF n
  <2> QED
    BY <1>10, <1>11, <2>1 DEF Signed
<1>12. CASE ~(n < m)
  <2>1. m \in 0..Len(arguments) /\ n >= m
    BY <1>1, <1>12 DEF n
  <2>2. IsSequence(sigs) /\ Len(sigs) = m /\ sigs = Top(arguments, m)
    BY <1>9, <2>1, TopItems
  <2> HIDE DEF p, sigs
  <2>3. Match(p, sigs) <=> \E chosen \in [1..m -> 1..L] : InOrderOf(p, sigs, m, chosen)
    <3>1. Len(p) = L /\ Len(sigs) = m /\ L \in Nat /\ m \in Nat
      BY <1>1, <1>7, <2>2
    <3> QED
      BY <3>1, MatchIsExact
  <2>4. ASSUME NEW chosen \in [1..m -> 1..L]
        PROVE  InOrderOf(p, sigs, m, chosen)
                 <=> /\ \A i, j \in 1..m : i < j => chosen[i] < chosen[j]
                     /\ sigs = [i \in 1..m |-> Signature(keys[chosen[i]])]
    <3>1. \A i \in 1..m : Verifies(p[chosen[i]], sigs[i]) <=> sigs[i] = Signature(keys[chosen[i]])
      BY <1>7 DEF Verifies, PublicKey
    <3>2. sigs = [i \in 1..m |-> sigs[i]]
      BY <2>2, SequenceShape
    <3>3. sigs = [i \in 1..m |-> Signature(keys[chosen[i]])]
            <=> \A i \in 1..m : sigs[i] = Signature(keys[chosen[i]])
      BY <3>2
    <3> QED
      BY <2>2, <3>1, <3>3 DEF InOrderOf
  <2>5. DOMAIN keys = 1..L
    BY DEF SeqOf, L
  <2>6. Match(p, sigs) <=> Signed(keys, m, arguments)
    BY <2>1, <2>2, <2>3, <2>4, <2>5 DEF Signed, n
  <2>7. /\ IsSequence(Below(below, m)) /\ Len(Below(below, m)) = n - m
    BY <1>9, <2>1, TopItems DEF n
  <2> DEFINE last == Append(Below(below, m), Number(1))
  <2>8. IsSequence(last) /\ Len(last) = n - m + 1 /\ last[n - m + 1] = Number(1)
    <3> DEFINE b == Below(below, m)
    <3>1. IsSequence(b) /\ Len(b) = n - m
      BY <2>7
    <3> HIDE DEF b
    <3>2. IsSequence(Append(b, Number(1))) /\ Len(Append(b, Number(1))) = Len(b) + 1
          /\ Append(b, Number(1))[Len(b) + 1] = Number(1)
      BY <3>1, AppendItem
    <3> QED
      BY <3>1, <3>2 DEF b
  <2> HIDE DEF last
  <2>9. Len(last) \in 1..n + 1 /\ Last(last) = Number(1)
    BY <1>1, <2>1, <2>8 DEF Last, n
  <2>10. CheckMultisig(stack) = IF Signed(keys, m, arguments) THEN Going(last) ELSE Stopped("refused")
    BY <1>10, <1>12, <2>6 DEF last
  <2> QED
    BY <2>8, <2>9, <2>10 DEF Going, n
<1> QED
  BY <1>11, <1>12

\* What is on top of a stack.
LEMMA OneOnTop ==
    ASSUME NEW s, IsSequence(s), NEW x
    PROVE  /\ IsSequence(Append(s, x)) /\ Len(Append(s, x)) = Len(s) + 1 /\ Append(s, x) # <<>>
           /\ Last(Append(s, x)) = x /\ Front(Append(s, x)) = s
<1> DEFINE t == Append(s, x)
<1>1. /\ IsSequence(t) /\ Len(t) = Len(s) + 1 /\ t[Len(s) + 1] = x
      /\ \A i \in 1..Len(s) : t[i] = s[i]
  BY AppendItem
<1>2. Len(s) \in Nat
  BY SequenceShape
<1> HIDE DEF t
<1>3. 1 \in 1..Len(t) + 1 /\ Len(s) \in 1 - 1..Len(t) /\ Len(t) - 1 = Len(s)
      /\ Len(s) - 1 + 1 = Len(s) /\ \A i \in 1..Len(s) : 1 + i - 1 = i
  BY <1>1, <1>2
<1> DEFINE u == SubSeq(t, 1, Len(s))
<1>4. /\ IsSequence(u) /\ Len(u) = Len(s) - 1 + 1
      /\ \A i \in 1..Len(s) - 1 + 1 : u[i] = t[1 + i - 1]
  BY <1>1, <1>3, PartItems
<1> HIDE DEF u
<1>5. u = s
  BY <1>1, <1>3, <1>4, SameSequence
<1>6. Front(t) = u /\ Last(t) = x
  BY <1>1, <1>3 DEF Front, Last, u
<1>7. t # <<>>
  <2>1. Len(<<>>) = 0
    OBVIOUS
  <2> QED
    BY <1>1, <1>2, <2>1
<1> QED
  BY <1>1, <1>5, <1>6, <1>7 DEF t

LEMMA TwoOnTop ==
    ASSUME NEW s, IsSequence(s), NEW x, NEW y
    PROVE  LET t == Append(Append(s, x), y) IN
           /\ IsSequence(t) /\ Len(t) = Len(s) + 2 /\ Last(t) = y /\ t[Len(t) - 1] = x /\ Below(t, 2) = s
<1> DEFINE r == Append(s, x)
           t == Append(r, y)
<1>1. /\ IsSequence(r) /\ Len(r) = Len(s) + 1 /\ r[Len(s) + 1] = x
      /\ \A i \in 1..Len(s) : r[i] = s[i]
  BY AppendItem
<1> HIDE DEF r
<1>2. /\ IsSequence(t) /\ Len(t) = Len(r) + 1 /\ t[Len(r) + 1] = y
      /\ \A i \in 1..Len(r) : t[i] = r[i]
  BY <1>1, AppendItem
<1> HIDE DEF t
<1>3. Len(s) \in Nat
  BY SequenceShape
<1>4. /\ Len(t) = Len(s) + 2 /\ 2 \in 0..Len(t) /\ Len(t) - 2 = Len(s) /\ Len(t) - 1 = Len(s) + 1
      /\ Len(s) + 1 \in 1..Len(r) /\ \A i \in 1..Len(s) : i \in 1..Len(r)
  BY <1>1, <1>2, <1>3
<1>5. /\ IsSequence(Below(t, 2)) /\ Len(Below(t, 2)) = Len(t) - 2
      /\ \A i \in 1..Len(t) - 2 : Below(t, 2)[i] = t[i]
  BY <1>2, <1>4, TopItems
<1>6. Below(t, 2) = s
  BY <1>1, <1>2, <1>4, <1>5, SameSequence
<1>7. Last(t) = y /\ t[Len(t) - 1] = x
  BY <1>1, <1>2, <1>4 DEF Last
<1> QED
  BY <1>2, <1>4, <1>6, <1>7 DEF r, t

\* Arguments that end in a signature and its key.
LEMMA SatisfiesP2pkhIs ==
    ASSUME NEW k, NEW a, IsSequence(a)
    PROVE  SatisfiesP2pkh(k, a)
             <=> /\ HasRoom(a, 2) /\ Len(a) >= 2
                 /\ a[Len(a) - 1] = Signature(k) /\ a[Len(a)] = PublicKey(k)
<1>1. CASE ~(Len(a) >= 2)
  BY <1>1 DEF SatisfiesP2pkh
<1>2. CASE Len(a) >= 2
  <2>1. Len(a) \in Nat /\ 2 \in 0..Len(a) /\ Len(a) - 2 + 1 = Len(a) - 1 /\ Len(a) - 2 + 2 = Len(a)
    BY <1>2, SequenceShape
  <2> DEFINE t == Top(a, 2)
             u == <<Signature(k), PublicKey(k)>>
  <2>2. IsSequence(t) /\ Len(t) = 2 /\ \A i \in 1..2 : t[i] = a[Len(a) - 2 + i]
    BY <2>1, TopItems
  <2>3. t[1] = a[Len(a) - 1] /\ t[2] = a[Len(a)]
    <3>1. 1 \in 1..2 /\ 2 \in 1..2
      OBVIOUS
    <3> HIDE DEF t
    <3>2. t[1] = a[Len(a) - 2 + 1] /\ t[2] = a[Len(a) - 2 + 2]
      BY <2>2, <3>1
    <3> QED
      BY <2>1, <3>2
  <2>4. IsSequence(u) /\ Len(u) = 2 /\ u[1] = Signature(k) /\ u[2] = PublicKey(k)
    <3>1. u \in Seq({Signature(k), PublicKey(k)})
      OBVIOUS
    <3>2. IsSequence(u)
      BY <3>1, AnySequence
    <3> QED
      BY <3>2
  <2>5. t = u <=> t[1] = u[1] /\ t[2] = u[2]
    <3>1. \A i \in 1..2 : i = 1 \/ i = 2
      OBVIOUS
    <3> HIDE DEF t, u
    <3> QED
      BY <2>2, <2>4, <3>1, SameSequence
  <2> HIDE DEF t, u
  <2>6. t = u <=> a[Len(a) - 1] = Signature(k) /\ a[Len(a)] = PublicKey(k)
    BY <2>3, <2>4, <2>5
  <2> QED
    BY <1>2, <2>6 DEF SatisfiesP2pkh, t, u
<1> QED
  BY <1>1, <1>2

SatisfiesKey == \E k \in Key : coin = P2pkh(k) /\ witness = <<PublicKey(k), Signature(k)>>

\* The stack of an execution, instruction by instruction, for both kinds of
\* redeem scripts, and what it means that one is over.
P2pkhRuns(k) ==
    LET a == Tail(witness) IN
    run.script = P2pkhRedeem(k) =>
    /\ run.verdict = "running" =>
         /\ run.pc \in 0..5
         /\ run.pc \in {0, 4} => run.stack = a
         /\ run.pc = 1 => run.stack = Append(a, Last(a))
         /\ run.pc \in {2, 3} => HasRoom(a, 1)
         /\ run.pc = 2 => run.stack = Append(a, Hash(Last(a)))
         /\ run.pc = 3 => run.stack = Append(Append(a, Hash(Last(a))), Hash(PublicKey(k)))
         /\ run.pc \in {1, 2, 3, 4} => a # <<>>
         /\ run.pc \in {3, 4} => HasRoom(a, 2)
         /\ run.pc = 4 => Last(a) = PublicKey(k)
         /\ run.pc = 5 => SatisfiesP2pkh(k, a) /\ run.stack # <<>> /\ Last(run.stack) = Number(1)
    /\ run.verdict \in {"refused", "error"} => ~SatisfiesP2pkh(k, a)
    /\ run.verdict = "valid" => SatisfiesP2pkh(k, a)

MultisigRuns(keys, m) ==
    LET a == Tail(witness) IN
    run.script = MultisigRedeem(keys, m) =>
    /\ run.verdict = "running" =>
         /\ run.pc \in 0..Len(keys) + 3
         /\ run.pc <= Len(keys) + 2 => Filled(run.stack, a, run.script, run.pc)
         /\ run.pc \in 1..Len(keys) + 2 => HasRoom(a, run.pc)
         /\ run.pc = Len(keys) + 3 =>
                SatisfiesMultisig(keys, m, a) /\ run.stack # <<>> /\ Last(run.stack) = Number(1)
    /\ run.verdict \in {"refused", "error"} => ~SatisfiesMultisig(keys, m, a)
    /\ run.verdict = "valid" => SatisfiesMultisig(keys, m, a)

Redeems == \A keys \in SeqOf(Key, MaxPubkeys) : \A m \in 1..Len(keys) : MultisigRuns(keys, m)

ScriptInv ==
    /\ coin \in Coins /\ witness \in Witnesses
    /\ run = [verdict |-> run.verdict, script |-> run.script, pc |-> run.pc, stack |-> run.stack]
    /\ run.verdict \in {"new", "running", "valid", "refused", "error"}
    /\ run.verdict = "new" => run.script = <<>>
    /\ Decoded(run.script) /\ run.pc \in Nat
    /\ coin.type = "p2pkh" => /\ run.script = <<>> /\ run.verdict \in {"new", "valid", "refused"}
                              /\ run.verdict = "valid" => SatisfiesKey
                              /\ run.verdict = "refused" => ~SatisfiesKey
    /\ run.script # <<>> => witness # <<>>
    /\ \A k \in Key : P2pkhRuns(k)
    /\ Redeems

LEMMA EmptySequence ==
    ASSUME NEW s, IsSequence(s)
    PROVE  s = <<>> <=> Len(s) = 0
<1> DEFINE S == Range(s)
<1>1. s \in Seq(S)
  BY DEF IsSequence
<1> HIDE DEF S
<1> QED
  BY <1>1

LEMMA ArgumentsAreSequence ==
    ASSUME ScriptInv, run.script # <<>>
    PROVE  IsSequence(Tail(witness)) /\ Len(Tail(witness)) \in Nat
<1>1. IsSequence(witness) /\ witness # <<>>
  BY ScriptAssumption DEF ScriptInv, IsSequence
<1>2. IsSequence(Tail(witness))
  BY <1>1, TailItems
<1> QED
  BY <1>2, SequenceShape

\* One operation, if the limit on operations does not bind.
StepTo(done) ==
    /\ run'.script = run.script
    /\ IF Len(done.stack) > MaxStack
       THEN run'.verdict = "refused"
       ELSE run'.pc = run.pc + 1 /\ run'.stack = done.stack /\ run'.verdict = done.verdict

LEMMA StepIs ==
    ASSUME ScriptInv, Step, run.pc + 1 <= MaxOps, run.pc + 1 \in Nat
    PROVE  StepTo(Executed(run.script[run.pc + 1], run.stack)) /\ run.verdict = "running" /\ run.pc < Len(run.script)
<1>1. ~(run.pc + 1 > MaxOps)
  BY ScriptAssumption
<1> QED
  BY <1>1 DEF ScriptInv, Step, StepTo

LEMMA P2pkhStep ==
    ASSUME ScriptInv, Step, NEW k \in Key
    PROVE  P2pkhRuns(k)'
<1> DEFINE a == Tail(witness)
           done == Executed(run.script[run.pc + 1], run.stack)
<1>1. witness' = witness /\ run'.script = run.script /\ run.verdict = "running" /\ run.pc < Len(run.script)
  BY DEF Step, ScriptInv
<1>2. SUFFICES ASSUME run.script = P2pkhRedeem(k) PROVE P2pkhRuns(k)'
  BY <1>1 DEF P2pkhRuns
<1>3. /\ run.script[1] = <<"dup">> /\ run.script[2] = <<"hash160">>
      /\ run.script[3] = Push(Hash(PublicKey(k))) /\ run.script[4] = <<"equalverify">>
      /\ run.script[5] = <<"checksig">> /\ Len(run.script) = 5 /\ run.script # <<>>
  BY <1>2 DEF P2pkhRedeem
<1>4. run.pc \in 0..4
  BY <1>1, <1>2, <1>3 DEF ScriptInv, P2pkhRuns
<1>5. StepTo(done)
  BY <1>4, StepIs, ScriptAssumption
<1>6. IsSequence(a) /\ Len(a) \in Nat /\ MaxStack \in Nat /\ (a = <<>> <=> Len(a) = 0)
  <2>1. IsSequence(a) /\ Len(a) \in Nat
    BY <1>3, ArgumentsAreSequence
  <2> HIDE DEF a
  <2>2. a = <<>> <=> Len(a) = 0
    BY <2>1, EmptySequence
  <2> QED
    BY <2>1, <2>2, ScriptAssumption
<1>7. P2pkhRuns(k)
  BY DEF ScriptInv
<1> HIDE DEF a
<1> SUFFICES LET b == a IN
      /\ run'.verdict = "running" =>
         /\ run'.pc \in 0..5
         /\ run'.pc \in {0, 4} => run'.stack = a
         /\ run'.pc = 1 => run'.stack = Append(a, Last(a))
         /\ run'.pc \in {2, 3} => HasRoom(a, 1)
         /\ run'.pc = 2 => run'.stack = Append(a, Hash(Last(a)))
         /\ run'.pc = 3 => run'.stack = Append(Append(a, Hash(Last(a))), Hash(PublicKey(k)))
         /\ run'.pc \in {1, 2, 3, 4} => a # <<>>
         /\ run'.pc \in {3, 4} => HasRoom(a, 2)
         /\ run'.pc = 4 => Last(a) = PublicKey(k)
         /\ run'.pc = 5 => SatisfiesP2pkh(k, a) /\ run'.stack # <<>> /\ Last(run'.stack) = Number(1)
      /\ run'.verdict \in {"refused", "error"} => ~SatisfiesP2pkh(k, a)
      /\ run'.verdict # "valid"
  BY <1>1, <1>2 DEF P2pkhRuns, a
<1>8. CASE run.pc = 0
  <2>1. run.stack = a
    BY <1>1, <1>2, <1>7, <1>8 DEF P2pkhRuns, a
  <2>2. CASE a = <<>>
    <3>1. done = Stopped("error")
      BY <1>3, <1>8, <2>1, <2>2 DEF Executed
    <3>2. ~SatisfiesP2pkh(k, a)
      BY <1>6, <2>2, SatisfiesP2pkhIs
    <3> QED
      BY <1>5, <1>6, <3>1, <3>2 DEF StepTo, Stopped
  <2>3. CASE a # <<>>
    <3>1. done = Going(Append(a, Last(a)))
      BY <1>3, <1>8, <2>1, <2>3 DEF Executed
    <3>2. Len(Append(a, Last(a))) = Len(a) + 1
      BY <1>6, OneOnTop
    <3>3. CASE Len(a) + 1 > MaxStack
      <4>1. ~HasRoom(a, 2)
        BY <1>6, <3>3 DEF HasRoom
      <4>2. run'.verdict = "refused"
        BY <1>5, <3>1, <3>2, <3>3 DEF StepTo, Going
      <4> QED
        BY <4>1, <4>2 DEF SatisfiesP2pkh
    <3>4. CASE ~(Len(a) + 1 > MaxStack)
      <4>1. run'.verdict = "running" /\ run'.pc = 1 /\ run'.stack = Append(a, Last(a))
        BY <1>5, <1>8, <3>1, <3>2, <3>4 DEF StepTo, Going
      <4> QED
        BY <2>3, <4>1
    <3> QED
      BY <3>3, <3>4
  <2> QED
    BY <2>2, <2>3
<1>9. CASE run.pc = 1
  <2>1. run.stack = Append(a, Last(a)) /\ a # <<>>
    BY <1>1, <1>2, <1>7, <1>9 DEF P2pkhRuns, a
  <2>2. /\ Last(run.stack) = Last(a) /\ Front(run.stack) = a /\ run.stack # <<>>
        /\ Len(Append(a, Hash(Last(a)))) = Len(a) + 1
    BY <1>6, <2>1, OneOnTop
  <2>3. done = Going(Append(a, Hash(Last(a))))
    BY <1>3, <1>9, <2>2 DEF Executed
  <2>4. CASE Len(a) + 1 > MaxStack
    <3>1. ~HasRoom(a, 2)
      BY <1>6, <2>4 DEF HasRoom
    <3>2. run'.verdict = "refused"
      BY <1>5, <2>2, <2>3, <2>4 DEF StepTo, Going
    <3> QED
      BY <3>1, <3>2 DEF SatisfiesP2pkh
  <2>5. CASE ~(Len(a) + 1 > MaxStack)
    <3>1. run'.verdict = "running" /\ run'.pc = 2 /\ run'.stack = Append(a, Hash(Last(a)))
      BY <1>5, <1>9, <2>2, <2>3, <2>5 DEF StepTo, Going
    <3>2. HasRoom(a, 1)
      BY <1>6, <2>5 DEF HasRoom
    <3> QED
      BY <2>1, <3>1, <3>2
  <2> QED
    BY <2>4, <2>5
<1>10. CASE run.pc = 2
  <2>1. run.stack = Append(a, Hash(Last(a))) /\ a # <<>> /\ HasRoom(a, 1)
    BY <1>1, <1>2, <1>7, <1>10 DEF P2pkhRuns, a
  <2> DEFINE t == Append(Append(a, Hash(Last(a))), Hash(PublicKey(k)))
  <2>2. Len(t) = Len(a) + 2
    BY <1>6, TwoOnTop
  <2>3. done = Going(t)
    <3>1. run.script[run.pc + 1] = Push(Hash(PublicKey(k)))
      BY <1>3, <1>10
    <3> QED
      BY <2>1, <3>1 DEF Executed, Push
  <2> HIDE DEF t
  <2>4. CASE Len(a) + 2 > MaxStack
    <3>1. ~HasRoom(a, 2)
      BY <1>6, <2>4 DEF HasRoom
    <3>2. run'.verdict = "refused"
      BY <1>5, <2>2, <2>3, <2>4 DEF StepTo, Going
    <3> QED
      BY <3>1, <3>2 DEF SatisfiesP2pkh
  <2>5. CASE ~(Len(a) + 2 > MaxStack)
    <3>1. run'.verdict = "running" /\ run'.pc = 3 /\ run'.stack = t
      BY <1>5, <1>10, <2>2, <2>3, <2>5 DEF StepTo, Going
    <3>2. HasRoom(a, 2)
      BY <1>6, <2>5 DEF HasRoom
    <3> QED
      BY <2>1, <3>1, <3>2 DEF t
  <2> QED
    BY <2>4, <2>5
<1>11. CASE run.pc = 3
  <2> DEFINE h == Hash(Last(a))
  <2>1. run.stack = Append(Append(a, h), Hash(PublicKey(k))) /\ a # <<>> /\ HasRoom(a, 2)
    BY <1>1, <1>2, <1>7, <1>11 DEF P2pkhRuns, a
  <2>2. /\ Len(run.stack) = Len(a) + 2 /\ Last(run.stack) = Hash(PublicKey(k))
        /\ run.stack[Len(run.stack) - 1] = h /\ Below(run.stack, 2) = a
    <3> HIDE DEF h
    <3> QED
      BY <1>6, <2>1, TwoOnTop
  <2>3. ~(Len(run.stack) < 2) /\ Len(run.stack) >= 2
    BY <1>6, <2>2
  <2>4. done = IF Hash(PublicKey(k)) = h THEN Going(a) ELSE Stopped("refused")
    <3> HIDE DEF h
    <3>1. run.script[run.pc + 1] = <<"equalverify">>
      BY <1>3, <1>11
    <3> QED
      BY <2>2, <2>3, <3>1 DEF Executed
  <2>5. Hash(PublicKey(k)) = h <=> Last(a) = PublicKey(k)
    BY DEF Hash
  <2> HIDE DEF h
  <2>6. CASE Last(a) = PublicKey(k)
    <3>1. ~(Len(a) > MaxStack)
      BY <1>6, <2>1 DEF HasRoom
    <3>2. run'.verdict = "running" /\ run'.pc = 4 /\ run'.stack = a
      BY <1>5, <1>11, <2>4, <2>5, <2>6, <3>1 DEF StepTo, Going
    <3> QED
      BY <2>1, <2>6, <3>2
  <2>7. CASE Last(a) # PublicKey(k)
    <3>1. ~SatisfiesP2pkh(k, a)
      BY <1>6, <2>7, SatisfiesP2pkhIs DEF Last
    <3>2. done = Stopped("refused")
      BY <2>4, <2>5, <2>7
    <3> QED
      BY <1>5, <1>6, <3>1, <3>2 DEF StepTo, Stopped
  <2> QED
    BY <2>6, <2>7
<1>12. CASE run.pc = 4
  <2>1. run.stack = a /\ a # <<>> /\ HasRoom(a, 2) /\ Last(a) = PublicKey(k)
    BY <1>1, <1>2, <1>7, <1>12 DEF P2pkhRuns, a
  <2>2. run.script[run.pc + 1] = <<"checksig">>
    BY <1>3, <1>12
  <2>3. CASE Len(a) < 2
    <3>1. done = Stopped("refused")
      BY <2>1, <2>2, <2>3 DEF Executed
    <3>2. ~SatisfiesP2pkh(k, a)
      BY <1>6, <2>3, SatisfiesP2pkhIs
    <3> QED
      BY <1>5, <1>6, <3>1, <3>2 DEF StepTo, Stopped
  <2>4. CASE ~(Len(a) < 2)
    <3> DEFINE b == Below(a, 2)
               t == Append(b, Number(1))
    <3>1. Len(a) >= 2 /\ 2 \in 0..Len(a)
      BY <1>6, <2>4
    <3>2. Verifies(PublicKey(k), a[Len(a) - 1]) <=> a[Len(a) - 1] = Signature(k)
      BY DEF Verifies, PublicKey
    <3>3. done = IF a[Len(a) - 1] = Signature(k) THEN Going(t) ELSE Stopped("refused")
      BY <2>1, <2>2, <2>4, <3>1, <3>2 DEF Executed
    <3>4. SatisfiesP2pkh(k, a) <=> a[Len(a) - 1] = Signature(k)
      BY <1>6, <2>1, <3>1, SatisfiesP2pkhIs DEF Last
    <3>5. IsSequence(b) /\ Len(b) = Len(a) - 2
      BY <1>6, <3>1, TopItems
    <3> HIDE DEF b
    <3>6. Len(t) = Len(a) - 2 + 1 /\ t # <<>> /\ Last(t) = Number(1)
      BY <3>5, OneOnTop
    <3>7. ~(Len(t) > MaxStack)
      BY <1>6, <2>1, <3>6 DEF HasRoom
    <3> HIDE DEF t
    <3>8. CASE a[Len(a) - 1] = Signature(k)
      <4>1. run'.verdict = "running" /\ run'.pc = 5 /\ run'.stack = t
        BY <1>5, <1>12, <3>3, <3>7, <3>8 DEF StepTo, Going
      <4> QED
        BY <3>4, <3>6, <3>8, <4>1
    <3>9. CASE a[Len(a) - 1] # Signature(k)
      <4>1. done = Stopped("refused")
        BY <3>3, <3>9
      <4> QED
        BY <1>5, <1>6, <3>4, <3>9, <4>1 DEF StepTo, Stopped
    <3> QED
      BY <3>8, <3>9
  <2> QED
    BY <2>3, <2>4
<1> QED
  BY <1>4, <1>8, <1>9, <1>10, <1>11, <1>12

LEMMA MultisigStep ==
    ASSUME ScriptInv, Step, NEW keys \in SeqOf(Key, MaxPubkeys), NEW m \in 1..Len(keys)
    PROVE  MultisigRuns(keys, m)'
<1> DEFINE a == Tail(witness)
           L == Len(keys)
           script == MultisigRedeem(keys, m)
           done == Executed(run.script[run.pc + 1], run.stack)
<1>1. witness' = witness /\ run'.script = run.script /\ run.verdict = "running" /\ run.pc < Len(run.script)
  BY DEF Step, ScriptInv
<1>2. SUFFICES ASSUME run.script = script PROVE MultisigRuns(keys, m)'
  BY <1>1 DEF MultisigRuns
<1>3. /\ L \in 1..MaxPubkeys /\ MaxPubkeys \in 1..16 /\ Len(script) = L + 3
      /\ script[1] = Push(Number(m)) /\ script[L + 2] = Push(Number(L))
      /\ \A i \in 1..L : script[i + 1] = Push(PublicKey(keys[i]))
      /\ script[L + 3] = <<"checkmultisig">>
  BY MultisigItems, ScriptAssumption
<1>4. MultisigRuns(keys, m)
  BY DEF ScriptInv, Redeems
<1>5. run.pc \in 0..L + 2
  <2>1. run.pc \in 0..L + 3
    BY <1>1, <1>2, <1>4 DEF MultisigRuns
  <2> QED
    BY <1>1, <1>2, <1>3, <2>1
<1>6. StepTo(done)
  <2>1. run.pc + 1 <= MaxOps /\ run.pc + 1 \in Nat
    BY <1>3, <1>5, ScriptAssumption
  <2> QED
    BY <2>1, StepIs
<1>7. IsSequence(a) /\ Len(a) \in Nat /\ MaxStack \in Nat
  <2>1. script # <<>>
    <3>1. Len(<<>>) = 0 /\ L + 3 # 0
      BY <1>3
    <3> QED
      BY <1>3, <3>1
  <2> QED
    BY <1>2, <2>1, ArgumentsAreSequence, ScriptAssumption
<1>8. Filled(run.stack, a, script, run.pc)
  <2>1. run.pc <= L + 2
    BY <1>3, <1>5
  <2> QED
    BY <1>1, <1>2, <1>4, <2>1 DEF MultisigRuns
<1>9. run.pc \in 1..L + 2 => HasRoom(a, run.pc)
  BY <1>1, <1>2, <1>4 DEF MultisigRuns
<1> HIDE DEF a, L, script
<1> SUFFICES
      /\ run'.verdict = "running" =>
         /\ run'.pc \in 0..L + 3
         /\ run'.pc <= L + 2 => Filled(run'.stack, a, script, run'.pc)
         /\ run'.pc \in 1..L + 2 => HasRoom(a, run'.pc)
         /\ run'.pc = L + 3 =>
                SatisfiesMultisig(keys, m, a) /\ run'.stack # <<>> /\ Last(run'.stack) = Number(1)
      /\ run'.verdict \in {"refused", "error"} => ~SatisfiesMultisig(keys, m, a)
      /\ run'.verdict # "valid"
  BY <1>1, <1>2 DEF MultisigRuns, a, L, script
<1>10. CASE run.pc \in 0..L + 1
  <2> DEFINE i == run.pc + 1
             x == script[i][2]
             t == Append(run.stack, x)
  <2>1. i \in 1..L + 2 /\ i \in Nat
    BY <1>3, <1>10
  <2>2. script[i] = Push(x)
    <3>1. CASE i = 1
      BY <1>3, <3>1 DEF Push
    <3>2. CASE i = L + 2
      BY <1>3, <3>2 DEF Push
    <3>3. CASE i # 1 /\ i # L + 2
      <4>1. i - 1 \in 1..L /\ (i - 1) + 1 = i
        BY <1>3, <2>1, <3>3
      <4>2. script[i] = Push(PublicKey(keys[i - 1]))
        <5> HIDE DEF i
        <5>1. script[(i - 1) + 1] = Push(PublicKey(keys[i - 1]))
          BY <1>3, <4>1
        <5> QED
          BY <4>1, <5>1
      <4> QED
        BY <4>2 DEF Push
    <3> QED
      BY <3>1, <3>2, <3>3
  <2>3. done = Going(t)
    <3>1. run.script[run.pc + 1] = Push(x)
      BY <1>2, <2>2
    <3> HIDE DEF x
    <3> QED
      BY <3>1 DEF Executed, Push
  <2>4. /\ IsSequence(run.stack) /\ Len(run.stack) = Len(a) + run.pc
        /\ \A j \in 1..Len(a) : run.stack[j] = a[j]
        /\ \A j \in 1..run.pc : run.stack[Len(a) + j] = script[j][2]
    BY <1>8 DEF Filled
  <2> HIDE DEF x
  <2>5. /\ IsSequence(t) /\ Len(t) = Len(run.stack) + 1 /\ t[Len(run.stack) + 1] = x
        /\ \A j \in 1..Len(run.stack) : t[j] = run.stack[j]
    BY <2>4, AppendItem
  <2> HIDE DEF t
  <2>6. Filled(t, a, script, i)
    <3>1. Len(t) = Len(a) + i /\ \A j \in 1..Len(a) : j \in 1..Len(run.stack)
      BY <1>7, <1>10, <2>4, <2>5
    <3>2. \A j \in 1..Len(a) : t[j] = a[j]
      BY <2>4, <2>5, <3>1
    <3>3. ASSUME NEW j \in 1..i
          PROVE  t[Len(a) + j] = script[j][2]
      <4>1. CASE j = i
        <5>1. Len(run.stack) + 1 = Len(a) + i
          BY <1>7, <1>10, <2>4
        <5> HIDE DEF i
        <5> QED
          BY <2>5, <4>1, <5>1 DEF x
      <4>2. CASE j # i
        <5>1. j \in 1..run.pc /\ Len(a) + j \in 1..Len(run.stack)
          BY <1>7, <1>10, <2>4, <4>2
        <5> QED
          BY <2>4, <2>5, <5>1
      <4> QED
        BY <4>1, <4>2
    <3> HIDE DEF i
    <3> QED
      BY <2>5, <3>1, <3>2, <3>3 DEF Filled
  <2>7. CASE Len(t) > MaxStack
    <3>1. ~HasRoom(a, L + 2)
      BY <1>3, <1>7, <1>10, <2>4, <2>5, <2>7 DEF HasRoom
    <3>2. run'.verdict = "refused"
      BY <1>6, <2>3, <2>7 DEF StepTo, Going
    <3> QED
      BY <3>1, <3>2 DEF SatisfiesMultisig, L
  <2>8. CASE ~(Len(t) > MaxStack)
    <3>1. run'.verdict = "running" /\ run'.pc = i /\ run'.stack = t
      BY <1>6, <2>3, <2>8 DEF StepTo, Going
    <3>2. HasRoom(a, i)
      BY <1>3, <1>7, <1>10, <2>4, <2>5, <2>8 DEF HasRoom
    <3>3. i \in 0..L + 3 /\ i # L + 3
      BY <1>3, <2>1
    <3> HIDE DEF i
    <3> QED
      BY <2>6, <3>1, <3>2, <3>3
  <2> QED
    BY <2>7, <2>8
<1>11. CASE run.pc = L + 2
  <2>1. done = CheckMultisig(run.stack)
    <3>1. L + 2 + 1 = L + 3
      BY <1>3
    <3>2. run.script[run.pc + 1] = <<"checkmultisig">>
      BY <1>2, <1>3, <1>11, <3>1
    <3> QED
      BY <3>2 DEF Executed
  <2>2. HasRoom(a, L + 2)
    <3>1. L + 2 \in 1..L + 2
      BY <1>3
    <3> QED
      BY <1>9, <1>11, <3>1
  <2>3. Filled(run.stack, a, MultisigRedeem(keys, m), Len(keys) + 2)
    BY <1>8, <1>11 DEF script, L
  <2>4. /\ ~Signed(keys, m, a) => done = Stopped("refused")
        /\ Signed(keys, m, a) =>
             /\ done.verdict = "running" /\ IsSequence(done.stack)
             /\ Len(done.stack) \in 1..Len(a) + 1 /\ Last(done.stack) = Number(1)
    <3> HIDE DEF done
    <3> QED
      BY <1>7, <2>1, <2>3, CheckMultisigIs
  <2>5. SatisfiesMultisig(keys, m, a) <=> Signed(keys, m, a)
    BY <2>2 DEF SatisfiesMultisig, Signed, L
  <2> HIDE DEF done
  <2>6. CASE Signed(keys, m, a)
    <3>1. ~(Len(done.stack) > MaxStack) /\ done.stack # <<>>
      <4>1. Len(<<>>) = 0 /\ ~(0 \in 1..Len(a) + 1)
        BY <1>7
      <4>2. Len(a) + (L + 2) <= MaxStack
        BY <2>2 DEF HasRoom
      <4>3. ~(Len(done.stack) > MaxStack)
        BY <1>3, <1>7, <2>4, <2>6, <4>2
      <4> QED
        BY <2>4, <2>6, <4>1, <4>3
    <3>2. run'.verdict = "running" /\ run'.pc = L + 3 /\ run'.stack = done.stack
      BY <1>3, <1>6, <1>11, <2>4, <2>6, <3>1 DEF StepTo
    <3>3. L + 3 \in 0..L + 3 /\ ~(L + 3 <= L + 2)
      BY <1>3
    <3> QED
      BY <2>4, <2>5, <2>6, <3>1, <3>2, <3>3
  <2>7. CASE ~Signed(keys, m, a)
    <3>1. run'.verdict = "refused"
      BY <1>6, <1>7, <2>4, <2>7 DEF StepTo, Stopped
    <3> QED
      BY <2>5, <2>7, <3>1
  <2> QED
    BY <2>6, <2>7
<1> QED
  BY <1>3, <1>5, <1>10, <1>11

LEMMA RedeemNotEmpty ==
    /\ \A k \in Key : P2pkhRedeem(k) # <<>>
    /\ \A keys \in SeqOf(Key, MaxPubkeys) : \A m \in 1..Len(keys) : MultisigRedeem(keys, m) # <<>>
<1>1. \A k \in Key : P2pkhRedeem(k) # <<>>
  BY DEF P2pkhRedeem
<1>2. ASSUME NEW keys \in SeqOf(Key, MaxPubkeys), NEW m \in 1..Len(keys)
      PROVE  MultisigRedeem(keys, m) # <<>>
  <2>1. Len(MultisigRedeem(keys, m)) = Len(keys) + 3 /\ Len(keys) \in 1..MaxPubkeys
    BY MultisigItems
  <2>2. Len(<<>>) = 0 /\ Len(keys) + 3 # 0
    BY <2>1, ScriptAssumption
  <2> QED
    BY <2>1, <2>2
<1> QED
  BY <1>1, <1>2

\* A key and its signature, for a coin of the plain kind.
LEMMA PlainInput ==
    ASSUME ScriptInv, VerifyInputSignature
    PROVE  ScriptInv'
<1>1. coin.type = "p2pkh" /\ run.script = <<>> /\ coin \in Coins /\ witness \in Witnesses
  BY DEF ScriptInv, VerifyInputSignature
<1>2. PICK k \in Key : coin = P2pkh(k)
  BY <1>1, ScriptAssumption
<1> DEFINE valid == /\ Len(witness) = 2 /\ witness[1][1] = "key" /\ witness[2][1] = "signature"
                    /\ Hash(witness[1]) = coin.payload /\ Verifies(witness[1], witness[2])
<1>3. valid <=> Len(witness) = 2 /\ witness[1] = PublicKey(k) /\ witness[2] = Signature(k)
  <2>1. Hash(witness[1]) = coin.payload <=> witness[1] = PublicKey(k)
    BY <1>2 DEF Hash, P2pkh
  <2>2. witness[1] = PublicKey(k) =>
            (witness[1][1] = "key" /\ (Verifies(witness[1], witness[2]) <=> witness[2] = Signature(k)))
    BY DEF Verifies, PublicKey
  <2>3. witness[2] = Signature(k) => witness[2][1] = "signature"
    BY DEF Signature
  <2> QED
    BY <2>1, <2>2, <2>3
<1>4. ASSUME NEW j \in Key
      PROVE  witness = <<PublicKey(j), Signature(j)>>
                <=> Len(witness) = 2 /\ witness[1] = PublicKey(j) /\ witness[2] = Signature(j)
  <2> DEFINE u == <<PublicKey(j), Signature(j)>>
  <2>1. IsSequence(witness)
    BY <1>1, ScriptAssumption DEF IsSequence
  <2>2. IsSequence(u) /\ Len(u) = 2 /\ u[1] = PublicKey(j) /\ u[2] = Signature(j)
    <3>1. u \in Seq({PublicKey(j), Signature(j)})
      OBVIOUS
    <3>2. IsSequence(u)
      BY <3>1, AnySequence
    <3> QED
      BY <3>2
  <2>3. \A i \in 1..2 : i = 1 \/ i = 2
    OBVIOUS
  <2> HIDE DEF u
  <2>4. Len(witness) = 2 /\ witness[1] = u[1] /\ witness[2] = u[2] => witness = u
    BY <2>1, <2>2, <2>3, SameSequence
  <2> QED
    BY <2>2, <2>4 DEF u
<1>5. \A j \in Key : coin = P2pkh(j) <=> j = k
  BY <1>2 DEF P2pkh, Hash, PublicKey
<1>6. SatisfiesKey <=> valid
  <2> HIDE DEF valid
  <2> QED
    BY <1>2, <1>3, <1>4, <1>5 DEF SatisfiesKey
<1>7. /\ run' = [run EXCEPT !.verdict = IF valid THEN "valid" ELSE "refused"]
      /\ coin' = coin /\ witness' = witness
  BY DEF VerifyInputSignature
<1> HIDE DEF valid
<1>8. /\ run' = [verdict |-> run'.verdict, script |-> run'.script, pc |-> run'.pc, stack |-> run'.stack]
      /\ run'.verdict = (IF valid THEN "valid" ELSE "refused") /\ run'.script = <<>>
  BY <1>1, <1>7 DEF ScriptInv
<1>12. Decoded(run'.script) /\ run'.pc \in Nat
  BY <1>1, <1>7, <1>8 DEF ScriptInv
<1>9. SatisfiesKey' <=> SatisfiesKey
  BY <1>7 DEF SatisfiesKey
<1>10. \A j \in Key : P2pkhRuns(j)'
  BY <1>8, RedeemNotEmpty DEF P2pkhRuns
<1>11. Redeems'
  BY <1>8, RedeemNotEmpty DEF Redeems, MultisigRuns
<1> QED
  BY <1>1, <1>6, <1>7, <1>8, <1>9, <1>10, <1>11, <1>12 DEF ScriptInv

\* A redeem script is revealed.
LEMMA ScriptInput ==
    ASSUME ScriptInv, VerifyP2sh
    PROVE  ScriptInv'
<1>1. /\ coin.type = "p2sh" /\ coin' = coin /\ witness' = witness /\ run.script = <<>>
      /\ coin \in Coins /\ witness \in Witnesses
  BY DEF ScriptInv, VerifyP2sh
<1>2. CASE witness = <<>> \/ Head(witness)[1] # "script"
  <2>1. /\ run' = [verdict |-> run'.verdict, script |-> run'.script, pc |-> run'.pc, stack |-> run'.stack]
        /\ run'.verdict = "refused" /\ run'.script = <<>>
    BY <1>1, <1>2 DEF ScriptInv, VerifyP2sh
  <2>4. Decoded(run'.script) /\ run'.pc \in Nat
    BY <1>1, <1>2, <2>1 DEF ScriptInv, VerifyP2sh
  <2>2. \A j \in Key : P2pkhRuns(j)'
    BY <2>1, RedeemNotEmpty DEF P2pkhRuns
  <2>3. Redeems'
    BY <2>1, RedeemNotEmpty DEF Redeems, MultisigRuns
  <2> QED
    BY <1>1, <2>1, <2>2, <2>3, <2>4 DEF ScriptInv
<1>3. CASE ~(witness = <<>> \/ Head(witness)[1] # "script")
  <2>1. run' = [verdict |-> "running", script |-> Head(witness)[2], pc |-> 0, stack |-> Tail(witness)]
    BY <1>3 DEF VerifyP2sh
  <2>2. IsSequence(Tail(witness)) /\ Len(Tail(witness)) \in Nat
    <3>1. IsSequence(witness) /\ witness # <<>>
      BY <1>1, <1>3, ScriptAssumption DEF IsSequence
    <3> QED
      BY <3>1, TailItems, SequenceShape
  <2>3. \A j \in Key : P2pkhRuns(j)'
    BY <1>1, <2>1 DEF P2pkhRuns
  <2>4. ASSUME NEW keys \in SeqOf(Key, MaxPubkeys), NEW m \in 1..Len(keys)
        PROVE  MultisigRuns(keys, m)'
    <3> DEFINE a == Tail(witness)
    <3>1. Len(keys) \in Nat
      BY MultisigItems, ScriptAssumption
    <3>2. Filled(a, a, run'.script, 0)
      <4> HIDE DEF a
      <4>1. IsSequence(a) /\ Len(a) = Len(a) + 0
        BY <2>2 DEF a
      <4> QED
        BY <4>1 DEF Filled
    <3>3. run'.verdict = "running" /\ run'.pc = 0 /\ run'.stack = a
      BY <2>1
    <3>4. 0 \in 0..Len(keys) + 3 /\ 0 # Len(keys) + 3 /\ 0 \notin 1..Len(keys) + 2
      BY <3>1
    <3> QED
      BY <1>1, <3>2, <3>3, <3>4 DEF MultisigRuns
  <2>5. Redeems'
    BY <2>4 DEF Redeems
  <2>6. Decoded(run'.script)
    BY <1>1, <1>3, <2>1, ScriptAssumption
  <2> QED
    BY <1>1, <1>3, <2>1, <2>3, <2>5, <2>6 DEF ScriptInv
<1> QED
  BY <1>2, <1>3

LEMMA ScriptEnds ==
    ASSUME ScriptInv, Finish
    PROVE  ScriptInv'
<1>1. /\ coin' = coin /\ witness' = witness /\ run.verdict = "running" /\ run.pc = Len(run.script)
      /\ run'.verdict = (IF run.stack # <<>> /\ Last(run.stack) # Zero THEN "valid" ELSE "refused")
      /\ run'.script = run.script
      /\ run' = [verdict |-> run'.verdict, script |-> run'.script, pc |-> run'.pc, stack |-> run'.stack]
  BY DEF ScriptInv, Finish
<1>6. Decoded(run'.script) /\ run'.pc \in Nat
  BY <1>1 DEF ScriptInv, Finish
<1>2. Number(1) # Zero
  BY DEF Number, Zero
<1>3. ASSUME NEW k \in Key
      PROVE  P2pkhRuns(k)'
  <2>1. run.script = P2pkhRedeem(k) => run.pc = 5
    BY <1>1 DEF P2pkhRedeem
  <2>2. P2pkhRuns(k)
    BY DEF ScriptInv
  <2> QED
    BY <1>1, <1>2, <2>1, <2>2 DEF P2pkhRuns
<1>4. ASSUME NEW keys \in SeqOf(Key, MaxPubkeys), NEW m \in 1..Len(keys)
      PROVE  MultisigRuns(keys, m)'
  <2>1. run.script = MultisigRedeem(keys, m) => run.pc = Len(keys) + 3
    BY <1>1, MultisigItems
  <2>2. MultisigRuns(keys, m)
    BY DEF ScriptInv, Redeems
  <2> QED
    BY <1>1, <1>2, <2>1, <2>2 DEF MultisigRuns
<1>5. Redeems'
  BY <1>4 DEF Redeems
<1> QED
  BY <1>1, <1>3, <1>5, <1>6 DEF ScriptInv

LEMMA ExecutedVerdict ==
    ASSUME NEW op, op[1] \in Operations, NEW stack
    PROVE  Executed(op, stack).verdict \in {"running", "refused", "error"}
<1>1. CheckMultisig(stack).verdict \in {"running", "refused", "error"}
  BY DEF CheckMultisig, Going, Stopped
<1> QED
  BY <1>1 DEF Executed, Operations, Going, Stopped

LEMMA ScriptGoesOn ==
    ASSUME ScriptInv, Step
    PROVE  ScriptInv'
<1>1. /\ coin' = coin /\ witness' = witness /\ run.verdict = "running" /\ run'.script = run.script
      /\ run' = [verdict |-> run'.verdict, script |-> run'.script, pc |-> run'.pc, stack |-> run'.stack]
  BY DEF ScriptInv, Step
<1>6. run.script[run.pc + 1][1] \in Operations
  <2>1. run.pc \in Nat /\ run.pc < Len(run.script) /\ Decoded(run.script)
    BY DEF ScriptInv, Step
  <2>2. Len(run.script) \in Nat /\ DOMAIN run.script = 1..Len(run.script)
    BY <2>1 DEF Decoded
  <2>3. run.pc + 1 \in DOMAIN run.script
    BY <2>1, <2>2
  <2> QED
    BY <2>1, <2>3 DEF Decoded
<1>7. run'.pc \in Nat
  BY DEF ScriptInv, Step
<1>2. run'.verdict \in {"running", "refused", "error"}
  <2>1. Executed(run.script[run.pc + 1], run.stack).verdict \in {"running", "refused", "error"}
    BY <1>6, ExecutedVerdict
  <2> QED
    BY <2>1 DEF ScriptInv, Step
<1>3. \A k \in Key : P2pkhRuns(k)'
  BY P2pkhStep
<1>4. Redeems'
  BY MultisigStep DEF Redeems
<1> QED
  BY <1>1, <1>2, <1>3, <1>4, <1>7 DEF ScriptInv

\* An input spends a P2PKH coin exactly with its key and a signature of it, and a
\* P2SH coin exactly if it shows what the script it reveals itself asks for,
\* whatever keys, signatures and scripts there are (verify_input_signature,
\* evaluate_script).  Which script that is, the code leaves open: see
\* RedeemScriptIsCommitted.
THEOREM ScriptCorrect == ScriptSpec => []ScriptIsExact
<1>1. ScriptInit => ScriptInv
  <2> SUFFICES ASSUME ScriptInit PROVE ScriptInv
    OBVIOUS
  <2>1. /\ coin \in Coins /\ witness \in Witnesses
        /\ run = [verdict |-> "new", script |-> <<>>, pc |-> 0, stack |-> <<>>]
    BY DEF ScriptInit
  <2>2. \A k \in Key : P2pkhRuns(k)
    BY <2>1, RedeemNotEmpty DEF P2pkhRuns
  <2>3. Redeems
    BY <2>1, RedeemNotEmpty DEF Redeems, MultisigRuns
  <2>4. Decoded(run.script) /\ run.pc \in Nat
    <3>1. <<>> \in Seq(Range(<<>>)) /\ DOMAIN <<>> = {}
      OBVIOUS
    <3> QED
      BY <2>1, <3>1 DEF Decoded
  <2> QED
    BY <2>1, <2>2, <2>3, <2>4 DEF ScriptInv
<1>2. ScriptInv /\ [ScriptNext]_scriptVars => ScriptInv'
  <2> SUFFICES ASSUME ScriptInv, [ScriptNext]_scriptVars PROVE ScriptInv'
    OBVIOUS
  <2>1. CASE VerifyInputSignature
    BY <2>1, PlainInput
  <2>2. CASE VerifyP2sh
    BY <2>2, ScriptInput
  <2>3. CASE Step
    BY <2>3, ScriptGoesOn
  <2>4. CASE Finish
    BY <2>4, ScriptEnds
  <2>5. CASE UNCHANGED scriptVars
    <3>1. coin' = coin /\ witness' = witness /\ run' = run
      BY <2>5 DEF scriptVars
    <3> QED
      BY <3>1 DEF ScriptInv, SatisfiesKey, P2pkhRuns, Redeems, MultisigRuns
  <2> QED
    BY <2>1, <2>2, <2>3, <2>4, <2>5 DEF ScriptNext
<1>3. ScriptInv => ScriptIsExact
  <2> SUFFICES ASSUME ScriptInv, run.verdict \in {"valid", "refused", "error"}
               PROVE  ScriptIsExact
    BY DEF ScriptIsExact
  <2>1. coin.type = "p2pkh" => (run.verdict = "valid" <=> SatisfiesKey)
    BY DEF ScriptInv
  <2>2. \A k \in Key : run.script = P2pkhRedeem(k) => (run.verdict = "valid" <=> SatisfiesP2pkh(k, Tail(witness)))
    BY DEF ScriptInv, P2pkhRuns
  <2>3. \A keys \in SeqOf(Key, MaxPubkeys) : \A m \in 1..Len(keys) :
            run.script = MultisigRedeem(keys, m)
                => (run.verdict = "valid" <=> SatisfiesMultisig(keys, m, Tail(witness)))
    BY DEF ScriptInv, Redeems, MultisigRuns
  <2> QED
    BY <2>1, <2>2, <2>3 DEF ScriptIsExact, SatisfiesKey
<1> QED
  BY <1>1, <1>2, <1>3, PTL DEF ScriptSpec

=============================================================================
