---------------------------- MODULE IntakeProofs ----------------------------
(***************************************************************************)
(* Proofs about the intake of blocks, for any number of peers and any      *)
(* tree of blocks: who is blamed, and why an orphan or a deferred block    *)
(* leaves the dictionary it waits in.                                      *)
(*                                                                         *)
(* The invariant says what a thread may still rely on once it has let go   *)
(* of the chain lock: a verdict it took away stays true, because the chain *)
(* only ever stores or refuses more.                                       *)
(*                                                                         *)
(* And about the proofs that come with merged-mined blocks (AuxProof), for *)
(* any number of transactions and any tree of auxiliary chains.  No two    *)
(* nodes of a level of a tree are the same, so that a branch leads to the  *)
(* root only from the position of its own leaf.                            *)
(***************************************************************************)
EXTENDS Intake, AuxProof, FoldLemmas, TLAPS, FiniteSetTheorems, SequenceTheorems

Fresh == Block \ {Genesis}
Copy == [block : Block, form : Form]
Entry == [block : Fresh, form : Form, seen : Nat]

Call == [at : {"idle", "judged", "connect", "retry", "retried", "closed"}, block : Block, form : Form,
         verdict : {"accepted", "duplicate", "orphan", "premature", "invalid"},
         pending : Seq(Block), children : Seq(Copy), waiting : Seq(Entry)]

Shapes ==
    /\ clock \in Nat
    /\ orphans \in Seq(Entry) /\ Len(orphans) <= MaxHeld
    /\ premature \in Seq(Entry) /\ Len(premature) <= MaxHeld
    /\ call \in [Thread -> Call]
    /\ score \in [Peer -> Nat]

\* What the chain knows: it refuses only blocks that break a rule, that have been
\* met in an altered copy, or that stand on such a block.
ChainKnows ==
    /\ stored \subseteq Block /\ Genesis \in stored /\ spoilt \subseteq Block
    /\ refused \subseteq Tainted

\* A verdict taken away from a chain that has stored st and refused re.
Holds(b, verdict, st, re) ==
    /\ verdict \in {"accepted", "duplicate"} => b \in st
    /\ verdict = "invalid" => b \in re
    /\ verdict \in {"premature", "orphan"} => b # Genesis
    /\ verdict = "premature" => Parent[b] \in st

\* A block that waits for the clock alone.
Waits(e) == Parent[e.block] \in stored

VerdictsStay ==
    \A t \in Thread : call[t].at \in {"judged", "retried"} => Holds(call[t].block, call[t].verdict, stored, refused)

PendingStored == \A t \in Thread : \A i \in 1..Len(call[t].pending) : call[t].pending[i] \in stored

DeferredForTheClock ==
    /\ \A i \in 1..Len(premature) : Waits(premature[i])
    /\ \A t \in Thread : \A i \in 1..Len(call[t].waiting) : Waits(call[t].waiting[i])

\* The block that is retried is the first of the copy.
RetriedIsFirst ==
    \A t \in Thread : call[t].at = "retried" =>
        /\ call[t].waiting # <<>> /\ call[t].block = Head(call[t].waiting).block
        /\ call[t].verdict # "orphan"

IntakeInv ==
    Shapes /\ ChainKnows /\ VerdictsStay /\ PendingStored /\ DeferredForTheClock /\ RetriedIsFirst

-----------------------------------------------------------------------------
(* Entries.                                                                *)

\* Entries at some positions: they are all there, and nothing else is.
LEMMA EntriesAre ==
    ASSUME NEW S, NEW q \in Seq(S), NEW I \in SUBSET (1..Len(q))
    PROVE  /\ Entries(q, I) \in Seq(S) /\ Len(Entries(q, I)) <= Len(q)
           /\ \A i \in I : \E k \in 1..Len(Entries(q, I)) : Entries(q, I)[k] = q[i]
           /\ \A k \in 1..Len(Entries(q, I)) : \E i \in I : Entries(q, I)[k] = q[i]
  <1> DEFINE Upto(i) == {j \in I : j <= i}
             place == [i \in I |-> Cardinality(Upto(i))]
             n == Cardinality(I)
             r == Entries(q, I)
  <1>1. Len(q) \in Nat /\ IsFiniteSet(1..Len(q)) /\ Cardinality(1..Len(q)) = Len(q)
    BY FS_Interval
  <1> I \subseteq Nat
    BY <1>1
  <1>2. IsFiniteSet(I) /\ n \in Nat /\ n <= Len(q)
    BY <1>1, FS_Subset, FS_CardinalityType
  <1>3. \A i \in I : IsFiniteSet(Upto(i)) /\ Cardinality(Upto(i)) \in 1..n
    <2> SUFFICES ASSUME NEW i \in I PROVE IsFiniteSet(Upto(i)) /\ Cardinality(Upto(i)) \in 1..n
      OBVIOUS
    <2>1. Upto(i) \in SUBSET I /\ i \in Upto(i)
      BY <1>1
    <2>2. IsFiniteSet(Upto(i)) /\ Cardinality(Upto(i)) <= n /\ Cardinality(Upto(i)) \in Nat
      BY <1>2, <2>1, FS_Subset, FS_CardinalityType
    <2>3. Cardinality(Upto(i)) # 0
      BY <2>1, <2>2, FS_EmptySet
    <2> QED
      BY <1>2, <2>2, <2>3
  <1>a. \A i \in I : Cardinality(Upto(i)) \in Nat
    <2> HIDE DEF Upto, n
    <2> QED
      BY <1>2, <1>3
  <1>4. \A i, j \in I : i < j => Cardinality(Upto(i)) < Cardinality(Upto(j))
    <2> SUFFICES ASSUME NEW i \in I, NEW j \in I, i < j
                 PROVE  Cardinality(Upto(i)) < Cardinality(Upto(j))
      OBVIOUS
    <2>1. Upto(i) \in SUBSET Upto(j) /\ j \in Upto(j) /\ j \notin Upto(i)
      <3>1. i \in Nat /\ j \in Nat
        OBVIOUS
      <3>2. \A k \in I : k \in Nat /\ (k <= i => k <= j)
        BY <3>1
      <3>3. j <= j /\ ~(j <= i)
        BY <3>1
      <3>4. Upto(i) \in SUBSET Upto(j)
        BY <3>2
      <3> QED
        BY <3>3, <3>4
    <2>2. Cardinality(Upto(i)) <= Cardinality(Upto(j)) /\ Cardinality(Upto(i)) # Cardinality(Upto(j))
      BY <1>3, <2>1, FS_Subset
    <2>3. Cardinality(Upto(i)) \in Nat /\ Cardinality(Upto(j)) \in Nat
      BY <1>a
    <2> QED
      BY <2>2, <2>3
  <1>5. place \in Injection(I, 1..n)
    <2>1. place \in [I -> 1..n]
      BY <1>3
    <2>2. \A i, j \in I : place[i] = place[j] => i = j
      <3> SUFFICES ASSUME NEW i \in I, NEW j \in I, i # j PROVE place[i] # place[j]
        OBVIOUS
      <3>1. i \in Nat /\ j \in Nat /\ Cardinality(Upto(i)) \in Nat /\ Cardinality(Upto(j)) \in Nat
        BY <1>a
      <3>2. CASE i < j
        <4>1. Cardinality(Upto(i)) < Cardinality(Upto(j))
          BY <1>4, <3>2
        <4> QED
          BY <3>1, <4>1
      <3>3. CASE j < i
        <4>1. Cardinality(Upto(j)) < Cardinality(Upto(i))
          BY <1>4, <3>3
        <4> QED
          BY <3>1, <4>1
      <3> QED
        BY <3>1, <3>2, <3>3
    <2> QED
      BY <2>1, <2>2 DEF Injection, IsInjective
  <1>6. place \in Surjection(I, 1..n)
    <2>1. IsFiniteSet(1..n) /\ Cardinality(1..n) = n
      BY <1>2, FS_Interval
    <2> QED
      BY <1>5, <2>1, FS_Injection
  <1>7. \A k \in 1..n : \E i \in I : Cardinality(Upto(i)) = k
    BY <1>6 DEF Surjection
  <1>8. r = [k \in 1..n |-> q[CHOOSE i \in I : Cardinality(Upto(i)) = k]]
    BY DEF Entries
  <1>9. \A i, j \in I : Cardinality(Upto(i)) = Cardinality(Upto(j)) => i = j
    BY <1>5 DEF Injection, IsInjective
  <1> HIDE DEF Upto, place, n, r
  <1>10. \A k \in 1..n : \E i \in I : r[k] = q[i]
    BY <1>7, <1>8
  <1>11. \A i \in I : \E k \in 1..n : r[k] = q[i]
    <2> SUFFICES ASSUME NEW i \in I PROVE r[Cardinality(Upto(i))] = q[i]
      BY <1>3
    <2>1. (CHOOSE j \in I : Cardinality(Upto(j)) = Cardinality(Upto(i))) = i
      BY <1>9
    <2> QED
      BY <1>3, <1>8, <2>1
  <1>12. r \in Seq(S) /\ Len(r) = n
    <2>1. r \in [1..n -> S]
      BY <1>8, <1>10
    <2> QED
      BY <1>2, <2>1
  <1> QED
    BY <1>2, <1>10, <1>11, <1>12 DEF r, n

\* What is held once some blocks have been released: the others.
LEMMA ReleaseKeeps ==
    ASSUME NEW q \in Seq(Entry), NEW S
    PROVE  /\ Release(q, S) \in Seq(Entry) /\ Len(Release(q, S)) <= Len(q)
           /\ \A k \in 1..Len(Release(q, S)) : \E i \in 1..Len(q) : Release(q, S)[k] = q[i]
           /\ \A i \in 1..Len(q) : q[i].block \notin S => q[i].block \in HeldBlocks(Release(q, S))
  <1> DEFINE I == {i \in 1..Len(q) : q[i].block \notin S}
  <1>1. I \in SUBSET (1..Len(q)) /\ Release(q, S) = Entries(q, I)
    BY DEF Release
  <1> HIDE DEF I
  <1>2. /\ Entries(q, I) \in Seq(Entry) /\ Len(Entries(q, I)) <= Len(q)
        /\ \A i \in I : \E k \in 1..Len(Entries(q, I)) : Entries(q, I)[k] = q[i]
        /\ \A k \in 1..Len(Entries(q, I)) : \E i \in I : Entries(q, I)[k] = q[i]
    BY <1>1, EntriesAre
  <1>3. \A i \in I : q[i].block \in HeldBlocks(Release(q, S))
    BY <1>1, <1>2 DEF HeldBlocks
  <1> QED
    BY <1>1, <1>2, <1>3 DEF I

\* What is held once a block has been added: the same blocks and that one, unless
\* the oldest had to make room.
LEMMA HoldKeeps ==
    ASSUME NEW q \in Seq(Entry), Len(q) <= MaxHeld, NEW b \in Fresh, NEW form \in Form,
           clock \in Nat
    PROVE  /\ Hold(q, b, form) \in Seq(Entry) /\ Len(Hold(q, b, form)) <= MaxHeld
           /\ \A k \in 1..Len(Hold(q, b, form)) :
                 Hold(q, b, form)[k].block = b \/ \E i \in 1..Len(q) : Hold(q, b, form)[k] = q[i]
           /\ \A i \in 1..Len(q) : \/ q[i].block \in HeldBlocks(Hold(q, b, form))
                                   \/ Displaced(q, Hold(q, b, form), q[i].block)
  <1> DEFINE entry == [block |-> b, form |-> form, seen |-> clock]
             h == Hold(q, b, form)
  <1>1. entry \in Entry /\ entry.block = b /\ Len(q) \in Nat /\ MaxHeld \in Nat /\ MaxHeld > 0
    BY IntakeAssumption DEF Entry
  <1>2. CASE b \in HeldBlocks(q)
    <2> DEFINE r == [i \in 1..Len(q) |-> IF q[i].block = b THEN entry ELSE q[i]]
    <2>1. r \in Seq(Entry) /\ Len(r) = Len(q) /\ \A i \in 1..Len(q) : r[i] = IF q[i].block = b THEN entry ELSE q[i]
      <3>1. r \in [1..Len(q) -> Entry]
        BY <1>1
      <3> QED
        BY <1>1, <3>1
    <2>2. h = r
      <3> HIDE DEF r
      <3>1. ~(Len(r) > MaxHeld)
        BY <1>1, <2>1
      <3> QED
        BY <1>2, <3>1 DEF Hold, r
    <2> HIDE DEF r, h, entry
    <2>3. \A i \in 1..Len(q) : q[i].block \in HeldBlocks(r)
      BY <1>1, <2>1 DEF HeldBlocks
    <2> QED
      BY <1>1, <2>1, <2>2, <2>3 DEF h
  <1>3. CASE b \notin HeldBlocks(q)
    <2> DEFINE r == Append(q, entry)
    <2> HIDE DEF entry, h
    <2>1. /\ r \in Seq(Entry) /\ Len(r) = Len(q) + 1 /\ r[Len(q) + 1] = entry
          /\ \A i \in 1..Len(q) : r[i] = q[i]
      BY <1>1
    <2> HIDE DEF r
    <2>2. h = IF Len(r) > MaxHeld THEN Tail(r) ELSE r
      BY <1>3 DEF Hold, r, h, entry
    <2>3. CASE Len(r) <= MaxHeld
      <3>1. h = r
        BY <1>1, <2>1, <2>2, <2>3
      <3>2. \A i \in 1..Len(q) : q[i].block \in HeldBlocks(r)
        BY <1>1, <2>1 DEF HeldBlocks
      <3>3. \A k \in 1..Len(r) : r[k].block = b \/ \E i \in 1..Len(q) : r[k] = q[i]
        BY <1>1, <2>1
      <3> QED
        BY <1>1, <2>1, <2>3, <3>1, <3>2, <3>3 DEF h
    <2>4. CASE Len(r) > MaxHeld
      <3>1. /\ h = Tail(r) /\ Len(q) = MaxHeld /\ h \in Seq(Entry) /\ Len(h) = MaxHeld
            /\ \A k \in 1..Len(h) : h[k] = r[k + 1]
        BY <1>1, <2>1, <2>2, <2>4
      <3>2. \A k \in 1..Len(h) : h[k].block = b \/ \E i \in 1..Len(q) : h[k] = q[i]
        <4> SUFFICES ASSUME NEW k \in 1..Len(h) PROVE h[k].block = b \/ \E i \in 1..Len(q) : h[k] = q[i]
          OBVIOUS
        <4>1. CASE k = MaxHeld
          BY <1>1, <2>1, <3>1, <4>1
        <4>2. CASE k < MaxHeld
          <5>1. k + 1 \in 1..Len(q) /\ h[k] = q[k + 1]
            BY <1>1, <2>1, <3>1, <4>2
          <5> QED
            BY <5>1
        <4> QED
          BY <1>1, <3>1, <4>1, <4>2
      <3>3. b \in HeldBlocks(h)
        <4>1. MaxHeld \in 1..Len(h) /\ h[MaxHeld].block = b
          BY <1>1, <2>1, <3>1
        <4> QED
          BY <4>1 DEF HeldBlocks
      <3>4. ASSUME NEW i \in 1..Len(q)
            PROVE  q[i].block \in HeldBlocks(h) \/ Displaced(q, h, q[i].block)
        <4>1. CASE i = 1
          BY <1>3, <3>1, <3>3, <4>1 DEF Displaced
        <4>2. CASE i > 1
          <5>1. i - 1 \in 1..Len(h) /\ h[i - 1] = q[i]
            BY <1>1, <2>1, <3>1, <4>2
          <5> QED
            BY <5>1 DEF HeldBlocks
        <4> QED
          BY <1>1, <4>1, <4>2
      <3> QED
        BY <1>1, <3>1, <3>2, <3>4 DEF h
    <2>5. Len(r) <= MaxHeld \/ Len(r) > MaxHeld
      BY <1>1, <2>1
    <2> QED
      BY <2>3, <2>4, <2>5
  <1> QED
    BY <1>2, <1>3

-----------------------------------------------------------------------------
(* The steps.                                                              *)

\* What is tainted taints what stands on it, and more only ever gets tainted.
LEMMA Taints ==
    /\ Bad \cup (spoilt \cap Block) \subseteq Tainted
    /\ \A b \in Block \ {Genesis} : Parent[b] \in Tainted => b \in Tainted
    /\ spoilt \subseteq spoilt' => Tainted \subseteq Tainted'
    /\ \A b \in Block : b \in spoilt' => b \in Tainted'
  <1>1. Bad \subseteq Block
    BY IntakeAssumption
  <1>2. \A b \in Block \ {Genesis} : Parent[b] \in Tainted => b \in Tainted
    <2> SUFFICES ASSUME NEW b \in Block \ {Genesis}, Parent[b] \in Tainted,
                        NEW T \in SUBSET Block, Bad \cup spoilt \subseteq T,
                        \A c \in Block \ {Genesis} : Parent[c] \in T => c \in T
                 PROVE  b \in T
      BY DEF Tainted
    <2>1. Parent[b] \in T
      BY DEF Tainted
    <2> QED
      BY <2>1
  <1>3. spoilt \subseteq spoilt' => Tainted \subseteq Tainted'
    <2> SUFFICES ASSUME spoilt \subseteq spoilt', NEW b \in Tainted,
                        NEW T \in SUBSET Block, Bad \cup spoilt' \subseteq T,
                        \A c \in Block \ {Genesis} : Parent[c] \in T => c \in T
                 PROVE  b \in Block /\ b \in T
      BY DEF Tainted
    <2> QED
      BY DEF Tainted
  <1> QED
    BY <1>1, <1>2, <1>3 DEF Tainted

\* The chain judges a copy: the verdict is true from then on.
LEMMA Judged ==
    ASSUME ChainKnows, NEW b \in Block, NEW form \in Form, AddBlock(b, form)
    PROVE  /\ ChainKnows' /\ stored \subseteq stored' /\ refused \subseteq refused'
           /\ Verdict(b, form) \in {"accepted", "duplicate", "orphan", "premature", "invalid"}
           /\ Holds(b, Verdict(b, form), stored', refused')
           /\ b # Genesis /\ Parent[b] \in stored => Verdict(b, form) # "orphan"
  <1> DEFINE v == Verdict(b, form)
  <1>1. /\ stored' = IF Puts(b, form) THEN stored \cup {b} ELSE stored
        /\ refused' = IF v = "invalid" THEN refused \cup {b} ELSE refused
        /\ spoilt' = IF form # "whole" /\ v = "invalid" THEN spoilt \cup {b} ELSE spoilt
    BY DEF AddBlock
  <1>2. /\ stored \subseteq stored' /\ stored' \subseteq Block /\ Genesis \in stored'
        /\ refused \subseteq refused' /\ refused' \subseteq refused \cup {b}
        /\ spoilt \subseteq spoilt' /\ spoilt' \subseteq Block /\ Tainted \subseteq Tainted'
    <2> HIDE DEF v
    <2> QED
      BY <1>1, Taints DEF ChainKnows
  <1>3. CASE b \in refused
    <2>1. v = "invalid"
      BY <1>3 DEF Verdict
    <2>2. b \in Tainted'
      BY <1>2, <1>3 DEF ChainKnows
    <2> HIDE DEF v
    <2>3. ChainKnows' /\ Holds(b, v, stored', refused')
      BY <1>1, <1>2, <2>1, <2>2 DEF ChainKnows, Holds
    <2> QED
      BY <1>2, <2>1, <2>3 DEF v
  <1>4. CASE b \in stored \ refused
    <2>1. v = "duplicate"
      BY <1>4 DEF Verdict
    <2> HIDE DEF v
    <2>2. ChainKnows' /\ Holds(b, v, stored', refused')
      BY <1>1, <1>2, <1>4, <2>1 DEF ChainKnows, Holds
    <2> QED
      BY <1>2, <2>1, <2>2 DEF v
  <1>5. CASE b \notin refused \cup stored /\ Parent[b] \notin stored
    <2>1. v = "orphan" /\ b # Genesis
      BY <1>5 DEF Verdict, ChainKnows
    <2> HIDE DEF v
    <2>2. ChainKnows' /\ Holds(b, v, stored', refused')
      BY <1>1, <1>2, <2>1 DEF ChainKnows, Holds
    <2> QED
      BY <1>2, <1>5, <2>1, <2>2 DEF v
  <1>6. CASE b \notin refused \cup stored /\ Parent[b] \in stored
    <2>1. /\ v = IF FailsBeforeClock(b, form) THEN "invalid"
                 ELSE IF Ahead(b) THEN "premature"
                 ELSE IF FailsAfterClock(form) THEN "invalid" ELSE "accepted"
          /\ b # Genesis
      BY <1>6 DEF Verdict, ChainKnows
    <2>2. v = "accepted" => b \in stored'
      BY <1>1, <1>6, <2>1 DEF Puts, FailsAfterClock
    <2>3. v = "invalid" => b \in Tainted'
      <3>1. CASE form # "whole" /\ v = "invalid"
        BY <1>1, <3>1, Taints
      <3>2. CASE form = "whole" /\ v = "invalid"
        <4>1. b \in Bad \/ Parent[b] \in refused
          BY <2>1, <3>2 DEF FailsBeforeClock, FailsAfterClock
        <4>2. b \in Tainted
          BY <2>1, <4>1, Taints DEF ChainKnows
        <4> QED
          BY <1>2, <4>2
      <3> QED
        BY <3>1, <3>2
    <2>4. v \in {"accepted", "premature", "invalid"}
      BY <2>1
    <2> HIDE DEF v
    <2>5. ChainKnows' /\ Holds(b, v, stored', refused')
      BY <1>1, <1>2, <1>6, <2>1, <2>2, <2>3, <2>4 DEF ChainKnows, Holds
    <2> QED
      BY <1>2, <2>4, <2>5 DEF v
  <1> QED
    BY <1>3, <1>4, <1>5, <1>6

LEMMA ChainStays ==
    ASSUME ChainKnows, UNCHANGED <<stored, refused, spoilt>>
    PROVE  ChainKnows'
  BY DEF ChainKnows, Tainted

\* A thread's step: c is what the thread is doing after it.
LEMMA ThreadStep ==
    ASSUME IntakeInv, NEW t \in Thread, NEW c \in Call, call' = [call EXCEPT ![t] = c],
           ChainKnows', stored \subseteq stored', refused \subseteq refused', clock' = clock,
           orphans' \in Seq(Entry), Len(orphans') <= MaxHeld,
           premature' \in Seq(Entry), Len(premature') <= MaxHeld,
           \A i \in 1..Len(premature') : Parent[premature'[i].block] \in stored',
           score' \in [Peer -> Nat],
           c.at \in {"judged", "retried"} => Holds(c.block, c.verdict, stored', refused'),
           \A i \in 1..Len(c.pending) : c.pending[i] \in stored',
           \A i \in 1..Len(c.waiting) : Parent[c.waiting[i].block] \in stored',
           c.at = "retried" => /\ c.waiting # <<>> /\ c.block = Head(c.waiting).block
                               /\ c.verdict # "orphan"
    PROVE  IntakeInv'
  <1>1. call \in [Thread -> Call] /\ \A u \in Thread : call'[u] = IF u = t THEN c ELSE call[u]
    BY DEF IntakeInv, Shapes
  <1>2. Shapes'
    BY <1>1 DEF IntakeInv, Shapes
  <1>3. VerdictsStay'
    <2> SUFFICES ASSUME NEW u \in Thread, call'[u].at \in {"judged", "retried"}
                 PROVE  Holds(call'[u].block, call'[u].verdict, stored', refused')
      BY DEF VerdictsStay
    <2>1. CASE u = t
      BY <1>1, <2>1
    <2>2. CASE u # t
      <3>1. Holds(call[u].block, call[u].verdict, stored, refused) /\ call'[u] = call[u]
        BY <1>1, <2>2 DEF IntakeInv, VerdictsStay
      <3> QED
        BY <3>1 DEF Holds
    <2> QED
      BY <2>1, <2>2
  <1>4. PendingStored'
    BY <1>1 DEF IntakeInv, PendingStored
  <1>5. DeferredForTheClock'
    BY <1>1 DEF IntakeInv, DeferredForTheClock, Waits
  <1>6. RetriedIsFirst'
    BY <1>1 DEF IntakeInv, RetriedIsFirst
  <1> QED
    BY <1>2, <1>3, <1>4, <1>5, <1>6 DEF IntakeInv

\* The parts of the invariant, as the steps below use them.
LEMMA Facts ==
    ASSUME IntakeInv
    PROVE  /\ clock \in Nat /\ orphans \in Seq(Entry) /\ Len(orphans) <= MaxHeld
           /\ premature \in Seq(Entry) /\ Len(premature) <= MaxHeld
           /\ call \in [Thread -> Call] /\ score \in [Peer -> Nat] /\ ChainKnows
           /\ \A i \in 1..Len(premature) : Parent[premature[i].block] \in stored
           /\ \A t \in Thread :
                 /\ call[t] \in Call
                 /\ call[t].at \in {"judged", "retried"} => Holds(call[t].block, call[t].verdict, stored, refused)
                 /\ \A i \in 1..Len(call[t].pending) : call[t].pending[i] \in stored
                 /\ \A i \in 1..Len(call[t].waiting) : Parent[call[t].waiting[i].block] \in stored
                 /\ call[t].at = "retried" => /\ call[t].waiting # <<>>
                                              /\ call[t].block = Head(call[t].waiting).block
                                              /\ call[t].verdict # "orphan"
           /\ Peer \subseteq Thread /\ Maintenance \in Thread
  BY DEF IntakeInv, Shapes, VerdictsStay, PendingStored, DeferredForTheClock, Waits, RetriedIsFirst,
         Thread, Submitter

LEMMA IdleCall ==
    /\ Idle \in Call /\ Idle.at = "idle" /\ Idle.pending = <<>> /\ Idle.waiting = <<>>
    /\ Closed \in Call /\ Closed.at = "closed" /\ Closed.pending = <<>> /\ Closed.waiting = <<>>
    /\ Idle.children = <<>>
    /\ \A i \in 1..Len(<<>>) : FALSE
  <1>1. <<>> \in Seq(Block) /\ <<>> \in Seq(Entry) /\ Genesis \in Block
    BY IntakeAssumption
  <1>2. /\ Idle \in Call /\ Idle.at = "idle" /\ Idle.pending = <<>> /\ Idle.waiting = <<>>
        /\ Idle.children = <<>>
    BY <1>1 DEF Idle, Call, Form
  <1>3. /\ Closed \in Call /\ Closed.at = "closed" /\ Closed.pending = <<>> /\ Closed.waiting = <<>>
    BY <1>2 DEF Closed, Call
  <1>4. \A i \in 1..Len(<<>>) : FALSE
    OBVIOUS
  <1> QED
    BY <1>2, <1>3, <1>4

LEMMA SubmitStep ==
    ASSUME IntakeInv, NEW t \in Thread, NEW b \in Block, NEW form \in Form, Submit(t, b, form)
    PROVE  IntakeInv'
  <1> DEFINE c == [Idle EXCEPT !.at = "judged", !.block = b, !.form = form,
                            !.verdict = Verdict(b, form)]
  <1>1. /\ ChainKnows' /\ stored \subseteq stored' /\ refused \subseteq refused'
        /\ Verdict(b, form) \in {"accepted", "duplicate", "orphan", "premature", "invalid"}
        /\ Holds(b, Verdict(b, form), stored', refused')
    BY Judged DEF Submit, IntakeInv
  <1>2. /\ c \in Call /\ c.at = "judged" /\ c.block = b /\ c.verdict = Verdict(b, form)
        /\ c.pending = <<>> /\ c.waiting = <<>>
    BY <1>1, IdleCall DEF Call
  <1>3. call' = [call EXCEPT ![t] = c] /\ UNCHANGED <<orphans, premature, clock, announced, score>>
    BY DEF Submit, Sets
  <1> HIDE DEF c
  <1>4. \A i \in 1..Len(premature') : Parent[premature'[i].block] \in stored'
    BY <1>1, <1>3, Facts
  <1>5. /\ \A i \in 1..Len(c.pending) : c.pending[i] \in stored'
        /\ \A i \in 1..Len(c.waiting) : Parent[c.waiting[i].block] \in stored'
    BY <1>2, IdleCall
  <1> QED
    BY <1>1, <1>2, <1>3, <1>4, <1>5, Facts, ThreadStep

\* A thread lays a block aside, and is through.
LEMMA HoldStep ==
    ASSUME IntakeInv, NEW t \in Thread, RememberOrphan(t) \/ DeferPremature(t)
    PROVE  IntakeInv'
  <1> DEFINE b == call[t].block
             form == call[t].form
  <1>1. /\ b \in Fresh /\ form \in Form /\ (call[t].verdict = "premature" => Parent[b] \in stored)
        /\ call[t].at = "judged" /\ call[t].verdict \in {"orphan", "premature"}
    BY Facts DEF RememberOrphan, DeferPremature, Fresh, Call, Holds
  <1>2. UNCHANGED <<stored, refused, spoilt, clock, announced, score>> /\ call' = [call EXCEPT ![t] = Idle]
    BY DEF RememberOrphan, DeferPremature, Sets
  <1>3. ChainKnows'
    BY <1>2, Facts, ChainStays
  <1>4. \/ orphans' = Hold(orphans, b, form) /\ premature' = premature
        \/ orphans' = orphans /\ premature' = Hold(premature, b, form) /\ Parent[b] \in stored
    BY <1>1 DEF RememberOrphan, DeferPremature
  <1> HIDE DEF b, form
  <1>5. /\ orphans' \in Seq(Entry) /\ Len(orphans') <= MaxHeld
        /\ premature' \in Seq(Entry) /\ Len(premature') <= MaxHeld
    BY <1>1, <1>4, Facts, HoldKeeps
  <1>6. \A i \in 1..Len(premature') : Parent[premature'[i].block] \in stored'
    <2>1. CASE premature' = premature
      BY <1>2, <2>1, Facts
    <2>2. CASE premature' = Hold(premature, b, form) /\ Parent[b] \in stored
      <3>1. \A k \in 1..Len(Hold(premature, b, form)) :
               Hold(premature, b, form)[k].block = b \/ \E i \in 1..Len(premature) : Hold(premature, b, form)[k] = premature[i]
        BY <1>1, Facts, HoldKeeps
      <3> QED
        BY <1>2, <2>2, <3>1, Facts
    <2> QED
      BY <1>4, <2>1, <2>2
  <1> QED
    BY <1>2, <1>3, <1>5, <1>6, Facts, IdleCall, ThreadStep

LEMMA RejectStep ==
    ASSUME IntakeInv, NEW t \in Thread, Reject(t)
    PROVE  IntakeInv'
  <1>1. UNCHANGED <<stored, refused, spoilt, clock, announced, orphans, premature>>
    BY DEF Reject
  <1>2. call' = [call EXCEPT ![t] = Idle] \/ call' = [call EXCEPT ![t] = Closed]
    BY DEF Reject, Sets
  <1>3. score' \in [Peer -> Nat]
    <2>1. CASE t \in Peer
      BY <2>1, Facts DEF Reject
    <2>2. CASE t \notin Peer
      BY <2>2, Facts DEF Reject
    <2> QED
      BY <2>1, <2>2
  <1>4. ChainKnows' /\ \A i \in 1..Len(premature') : Parent[premature'[i].block] \in stored'
    BY <1>1, Facts, ChainStays
  <1> QED
    BY <1>1, <1>2, <1>3, <1>4, Facts, IdleCall, ThreadStep

LEMMA RelayStep ==
    ASSUME IntakeInv, NEW t \in Thread, Relay(t)
    PROVE  IntakeInv'
  <1> DEFINE b == call[t].block
             c == [Idle EXCEPT !.at = "connect", !.pending = <<b>>]
  <1>1. b \in stored /\ b \in Block
    BY Facts DEF Relay, Holds, Call
  <1>2. UNCHANGED <<stored, refused, spoilt, clock, orphans, premature, score>> /\ call' = [call EXCEPT ![t] = c]
    BY DEF Relay, Sets
  <1>3. /\ c \in Call /\ c.at = "connect" /\ c.pending = <<b>> /\ c.waiting = <<>>
    <2>1. <<b>> \in Seq(Block)
      BY <1>1
    <2> HIDE DEF b
    <2> QED
      BY <2>1, IdleCall DEF Call
  <1> HIDE DEF c, b
  <1>4. ChainKnows' /\ \A i \in 1..Len(premature') : Parent[premature'[i].block] \in stored'
    BY <1>2, Facts, ChainStays
  <1>5. /\ \A i \in 1..Len(c.pending) : c.pending[i] \in stored'
        /\ \A i \in 1..Len(c.waiting) : Parent[c.waiting[i].block] \in stored'
    BY <1>1, <1>2, <1>3, IdleCall
  <1> QED
    BY <1>2, <1>3, <1>4, <1>5, Facts, ThreadStep

\* The orphans that are taken out for b are children of b.
LEMMA ChildrenAre ==
    ASSUME orphans \in Seq(Entry), NEW b
    PROVE  /\ ChildrenOf(b) \in Seq(Copy)
           /\ \A x \in BlocksOf(ChildrenOf(b)) : Parent[x] = b
  <1> DEFINE I == {i \in 1..Len(orphans) : Parent[orphans[i].block] = b}
             w == Entries(orphans, I)
             copy(i) == [block |-> w[i].block, form |-> w[i].form]
  <1>1. I \in SUBSET (1..Len(orphans)) /\ \A i \in I : Parent[orphans[i].block] = b
    OBVIOUS
  <1>2. ChildrenOf(b) = [i \in 1..Len(w) |-> copy(i)]
    BY DEF ChildrenOf
  <1> HIDE DEF I
  <1>3. w \in Seq(Entry) /\ \A k \in 1..Len(w) : \E i \in I : w[k] = orphans[i]
    BY <1>1, EntriesAre
  <1> HIDE DEF w
  <1>4. \A i \in 1..Len(w) : copy(i) \in Copy /\ copy(i).block = w[i].block
    <2> SUFFICES ASSUME NEW i \in 1..Len(w) PROVE copy(i) \in Copy /\ copy(i).block = w[i].block
      OBVIOUS
    <2>1. w[i] \in Entry
      BY <1>3
    <2> QED
      BY <2>1 DEF Entry, Fresh, Copy
  <1> HIDE DEF copy
  <1>5. /\ ChildrenOf(b) \in Seq(Copy) /\ Len(ChildrenOf(b)) = Len(w)
        /\ \A i \in 1..Len(w) : ChildrenOf(b)[i] = copy(i)
    <2>1. Len(w) \in Nat
      BY <1>3
    <2> QED
      BY <1>2, <1>4, <2>1
  <1>6. \A k \in 1..Len(w) : Parent[w[k].block] = b
    BY <1>1, <1>3
  <1> QED
    BY <1>4, <1>5, <1>6 DEF BlocksOf

LEMMA TakeStep ==
    ASSUME IntakeInv, NEW t \in Thread, TakeChildren(t)
    PROVE  IntakeInv'
  <1> DEFINE children == ChildrenOf(Last(call[t].pending))
             front == Front(call[t].pending)
             c == [call[t] EXCEPT !.pending = front, !.children = children]
  <1>1. /\ call[t].at = "connect" /\ call[t].pending # <<>> /\ call[t] \in Call
        /\ call[t].pending \in Seq(Block) /\ call[t].waiting \in Seq(Entry)
    BY Facts DEF TakeChildren, Call
  <1>2. /\ front \in Seq(Block) /\ Len(front) <= Len(call[t].pending)
        /\ \A i \in 1..Len(front) : i \in 1..Len(call[t].pending) /\ front[i] = call[t].pending[i]
    BY <1>1 DEF Front
  <1>3. children \in Seq(Copy)
    BY Facts, ChildrenAre
  <1>4. /\ call' = [call EXCEPT ![t] = c] /\ orphans' = Release(orphans, BlocksOf(children))
        /\ UNCHANGED <<stored, refused, spoilt, clock, premature, score>>
    BY DEF TakeChildren, Sets
  <1> HIDE DEF children, front
  <1>5. c \in Call /\ c.at = "connect" /\ c.pending = front /\ c.waiting = call[t].waiting
    BY <1>1, <1>2, <1>3 DEF Call
  <1> HIDE DEF c
  <1>6. orphans' \in Seq(Entry) /\ Len(orphans') <= MaxHeld
    <2>1. orphans' \in Seq(Entry) /\ Len(orphans') <= Len(orphans)
      BY <1>4, Facts, ReleaseKeeps
    <2>2. Len(orphans) \in Nat /\ Len(orphans') \in Nat /\ Len(orphans) <= MaxHeld
      BY <2>1, Facts
    <2> QED
      BY <2>1, <2>2, IntakeAssumption
  <1>7. ChainKnows' /\ \A i \in 1..Len(premature') : Parent[premature'[i].block] \in stored'
    BY <1>4, Facts, ChainStays
  <1>8. /\ \A i \in 1..Len(c.pending) : c.pending[i] \in stored'
        /\ \A i \in 1..Len(c.waiting) : Parent[c.waiting[i].block] \in stored'
    BY <1>2, <1>4, <1>5, Facts
  <1> QED
    BY <1>4, <1>5, <1>6, <1>7, <1>8, Facts, ThreadStep

LEMMA ConnectStep ==
    ASSUME IntakeInv, NEW t \in Thread, ConnectChild(t)
    PROVE  IntakeInv'
  <1> DEFINE b == Head(call[t].children).block
             form == Head(call[t].children).form
             pending == IF Verdict(b, form) = "accepted" THEN Append(call[t].pending, b) ELSE call[t].pending
             rest == Tail(call[t].children)
             c == [call[t] EXCEPT !.children = rest, !.pending = pending]
  <1>1. /\ call[t].at = "connect" /\ call[t].children # <<>> /\ call[t] \in Call
        /\ call[t].pending \in Seq(Block) /\ call[t].waiting \in Seq(Entry)
        /\ call[t].children \in Seq(Copy)
    BY Facts DEF ConnectChild, Call
  <1>2. b \in Block /\ form \in Form /\ rest \in Seq(Copy)
    <2>1. Head(call[t].children) \in Copy /\ rest \in Seq(Copy)
      BY <1>1
    <2> QED
      BY <2>1 DEF Copy
  <1>3. /\ call' = [call EXCEPT ![t] = c] /\ AddBlock(b, form)
        /\ UNCHANGED <<clock, orphans, premature, score>>
    BY DEF ConnectChild, Sets
  <1> HIDE DEF b, form, rest
  <1>4. /\ ChainKnows' /\ stored \subseteq stored' /\ refused \subseteq refused'
        /\ Holds(b, Verdict(b, form), stored', refused')
    BY <1>2, <1>3, Facts, Judged
  <1>5. pending \in Seq(Block) /\ \A i \in 1..Len(pending) : pending[i] \in stored'
    <2>1. CASE Verdict(b, form) = "accepted"
      <3>1. b \in stored'
        BY <1>4, <2>1 DEF Holds
      <3>2. /\ pending = Append(call[t].pending, b) /\ pending \in Seq(Block)
            /\ Len(pending) = Len(call[t].pending) + 1 /\ Len(call[t].pending) \in Nat
            /\ \A i \in 1..Len(pending) :
                 \/ i \in 1..Len(call[t].pending) /\ pending[i] = call[t].pending[i]
                 \/ pending[i] = b
        <4> DEFINE old == call[t].pending
        <4>1. pending = Append(old, b) /\ old \in Seq(Block)
          BY <1>1, <2>1
        <4> HIDE DEF old, pending
        <4>2. /\ pending \in Seq(Block) /\ Len(pending) = Len(old) + 1 /\ Len(old) \in Nat
              /\ pending[Len(old) + 1] = b /\ \A i \in 1..Len(old) : pending[i] = old[i]
          BY <1>2, <4>1
        <4> QED
          BY <4>1, <4>2 DEF old
      <3> QED
        BY <1>4, <3>1, <3>2, Facts
    <2>2. CASE Verdict(b, form) # "accepted"
      BY <1>1, <1>4, <2>2, Facts
    <2> QED
      BY <2>1, <2>2
  <1> HIDE DEF pending
  <1>6. c \in Call /\ c.at = "connect" /\ c.pending = pending /\ c.waiting = call[t].waiting
    BY <1>1, <1>2, <1>5 DEF Call
  <1> HIDE DEF c
  <1>7. \A i \in 1..Len(premature') : Parent[premature'[i].block] \in stored'
    BY <1>3, <1>4, Facts
  <1>8. /\ \A i \in 1..Len(c.pending) : c.pending[i] \in stored'
        /\ \A i \in 1..Len(c.waiting) : Parent[c.waiting[i].block] \in stored'
    BY <1>4, <1>5, <1>6, Facts
  <1> QED
    BY <1>3, <1>4, <1>6, <1>7, <1>8, Facts, ThreadStep

LEMMA DoneStep ==
    ASSUME IntakeInv, NEW t \in Thread, ConnectDone(t)
    PROVE  IntakeInv'
  <1> DEFINE c == [call[t] EXCEPT !.at = "retry"]
  <1>1. c \in Call /\ c.at = "retry" /\ c.pending = call[t].pending /\ c.waiting = call[t].waiting
    BY Facts DEF Call
  <1>2. /\ call' = [call EXCEPT ![t] = c] \/ call' = [call EXCEPT ![t] = Idle]
        /\ UNCHANGED <<stored, refused, spoilt, clock, orphans, premature, score>>
    BY DEF ConnectDone, Sets
  <1> HIDE DEF c
  <1>3. ChainKnows' /\ \A i \in 1..Len(premature') : Parent[premature'[i].block] \in stored'
    BY <1>2, Facts, ChainStays
  <1>4. /\ \A i \in 1..Len(c.pending) : c.pending[i] \in stored'
        /\ \A i \in 1..Len(c.waiting) : Parent[c.waiting[i].block] \in stored'
    BY <1>1, <1>2, Facts
  <1>5. CASE call' = [call EXCEPT ![t] = c]
    BY <1>1, <1>2, <1>3, <1>4, <1>5, Facts, ThreadStep
  <1>6. CASE call' = [call EXCEPT ![t] = Idle]
    BY <1>2, <1>3, <1>6, Facts, IdleCall, ThreadStep
  <1> QED
    BY <1>2, <1>5, <1>6

\* _retry_premature begins, is through with a round, or has nothing left.
LEMMA RetryStartStep ==
    ASSUME IntakeInv, RetryStart \/ RetryDone
    PROVE  IntakeInv'
  <1> DEFINE c == [Idle EXCEPT !.at = "retry", !.waiting = premature]
  <1>1. c \in Call /\ c.at = "retry" /\ c.pending = <<>> /\ c.waiting = premature
    BY Facts, IdleCall DEF Call
  <1>2. /\ call' = [call EXCEPT ![Maintenance] = c] \/ call' = [call EXCEPT ![Maintenance] = Idle]
        /\ UNCHANGED <<stored, refused, spoilt, clock, orphans, premature, score>>
    BY DEF RetryStart, RetryDone, Sets
  <1> HIDE DEF c
  <1>3. ChainKnows' /\ \A i \in 1..Len(premature') : Parent[premature'[i].block] \in stored'
    BY <1>2, Facts, ChainStays
  <1>4. /\ \A i \in 1..Len(c.pending) : c.pending[i] \in stored'
        /\ \A i \in 1..Len(c.waiting) : Parent[c.waiting[i].block] \in stored'
    BY <1>1, <1>2, Facts, IdleCall
  <1>5. CASE call' = [call EXCEPT ![Maintenance] = c]
    BY <1>1, <1>2, <1>3, <1>4, <1>5, Facts, ThreadStep
  <1>6. CASE call' = [call EXCEPT ![Maintenance] = Idle]
    BY <1>2, <1>3, <1>6, Facts, IdleCall, ThreadStep
  <1> QED
    BY <1>2, <1>5, <1>6

LEMMA RetryStep ==
    ASSUME IntakeInv, Retry
    PROVE  IntakeInv'
  <1> DEFINE m == call[Maintenance]
             b == Head(m.waiting).block
             form == Head(m.waiting).form
             c == [m EXCEPT !.at = "retried", !.block = b, !.form = form,
                         !.verdict = Verdict(b, form)]
  <1>1. m \in Call /\ m.waiting # <<>> /\ m.waiting \in Seq(Entry)
    BY Facts DEF Retry, Call
  <1>2. b \in Fresh /\ form \in Form /\ Parent[b] \in stored
    <2>1. Head(m.waiting) \in Entry /\ 1 \in 1..Len(m.waiting) /\ Head(m.waiting) = m.waiting[1]
      BY <1>1
    <2> QED
      BY <2>1, Facts DEF Entry
  <1>3. /\ call' = [call EXCEPT ![Maintenance] = c] /\ AddBlock(b, form)
        /\ UNCHANGED <<clock, orphans, premature, score>>
    BY DEF Retry, Sets
  <1>4. /\ ChainKnows' /\ stored \subseteq stored' /\ refused \subseteq refused'
        /\ Verdict(b, form) \in {"accepted", "duplicate", "orphan", "premature", "invalid"}
        /\ Holds(b, Verdict(b, form), stored', refused') /\ Verdict(b, form) # "orphan"
    <2> HIDE DEF b, form
    <2> QED
      BY <1>2, <1>3, Facts, Judged DEF Fresh
  <1>5. /\ c \in Call /\ c.at = "retried" /\ c.block = b /\ c.verdict = Verdict(b, form)
        /\ c.pending = m.pending /\ c.waiting = m.waiting
    <2> HIDE DEF b, form, m
    <2> QED
      BY <1>1, <1>2, <1>4 DEF Call, Fresh
  <1> HIDE DEF c
  <1>6. \A i \in 1..Len(premature') : Parent[premature'[i].block] \in stored'
    BY <1>3, <1>4, Facts
  <1>7. /\ \A i \in 1..Len(c.pending) : c.pending[i] \in stored'
        /\ \A i \in 1..Len(c.waiting) : Parent[c.waiting[i].block] \in stored'
    BY <1>4, <1>5, Facts
  <1> QED
    BY <1>1, <1>3, <1>4, <1>5, <1>6, <1>7, Facts, ThreadStep

LEMMA SettleStep ==
    ASSUME IntakeInv, RetrySettle
    PROVE  IntakeInv'
  <1> DEFINE m == call[Maintenance]
             e == Head(m.waiting)
             rest == Tail(m.waiting)
             connected == m.verdict = "accepted"
             pending == IF connected THEN <<e.block>> ELSE <<>>
             c == [Idle EXCEPT !.waiting = rest, !.at = IF connected THEN "connect" ELSE "retry",
                               !.pending = pending]
  <1>1. /\ m \in Call /\ m.at = "retried" /\ m.waiting # <<>> /\ m.waiting \in Seq(Entry)
        /\ m.block = e.block /\ Holds(m.block, m.verdict, stored, refused) /\ m.block \in Block
    BY Facts DEF RetrySettle, Call
  <1>2. /\ rest \in Seq(Entry)
        /\ \A i \in 1..Len(rest) : i + 1 \in 1..Len(m.waiting) /\ rest[i] = m.waiting[i + 1]
    BY <1>1
  <1>3. pending \in Seq(Block) /\ \A i \in 1..Len(pending) : pending[i] \in stored
    <2>1. CASE connected
      <3>1. e.block \in stored /\ e.block \in Block
        BY <1>1, <2>1 DEF Holds
      <3> QED
        BY <2>1, <3>1
    <2>2. CASE ~connected
      BY <2>2
    <2> QED
      BY <2>1, <2>2
  <1>4. /\ call' = [call EXCEPT ![Maintenance] = c]
        /\ premature' = Release(premature, {e.block}) \/ premature' = premature
        /\ UNCHANGED <<stored, refused, spoilt, clock, orphans, score>>
    BY DEF RetrySettle, Sets
  <1> HIDE DEF rest, pending
  <1>5. /\ c \in Call /\ c.at \in {"connect", "retry"} /\ c.pending = pending /\ c.waiting = rest
    BY <1>2, <1>3, IdleCall DEF Call
  <1> HIDE DEF c, e
  <1>6. /\ premature' \in Seq(Entry) /\ Len(premature') <= MaxHeld
        /\ \A i \in 1..Len(premature') : Parent[premature'[i].block] \in stored'
    <2>1. CASE premature' = premature
      BY <1>4, <2>1, Facts
    <2>2. CASE premature' = Release(premature, {e.block})
      <3>1. /\ premature' \in Seq(Entry) /\ Len(premature') <= Len(premature)
            /\ \A k \in 1..Len(premature') : \E i \in 1..Len(premature) : premature'[k] = premature[i]
        <4>1. premature \in Seq(Entry)
          BY Facts
        <4> DEFINE S == {e.block}
                   r == Release(premature, S)
        <4> HIDE DEF S
        <4>2. /\ r \in Seq(Entry) /\ Len(r) <= Len(premature)
              /\ \A k \in 1..Len(r) : \E i \in 1..Len(premature) : r[k] = premature[i]
          BY <4>1, ReleaseKeeps
        <4> HIDE DEF r
        <4>3. premature' = r
          BY <2>2 DEF r, S
        <4> QED
          BY <4>2, <4>3
      <3>2. Len(premature') \in Nat /\ Len(premature) \in Nat /\ Len(premature) <= MaxHeld /\ MaxHeld \in Nat
        BY <3>1, Facts, IntakeAssumption
      <3>3. Len(premature') <= MaxHeld
        BY <3>1, <3>2
      <3>4. \A k \in 1..Len(premature') : Parent[premature'[k].block] \in stored'
        BY <1>4, <3>1, Facts
      <3> QED
        BY <3>1, <3>3, <3>4
    <2> QED
      BY <1>4, <2>1, <2>2
  <1>7. /\ \A i \in 1..Len(c.pending) : c.pending[i] \in stored'
        /\ \A i \in 1..Len(c.waiting) : Parent[c.waiting[i].block] \in stored'
    BY <1>2, <1>3, <1>4, <1>5, Facts
  <1>8. ChainKnows'
    BY <1>4, Facts, ChainStays
  <1> QED
    BY <1>4, <1>5, <1>6, <1>7, <1>8, Facts, ThreadStep

\* The steps that leave every thread where it is.
LEMMA RoundStep ==
    ASSUME IntakeInv, ExpireOrphans \/ Tick
    PROVE  IntakeInv'
  <1>1. UNCHANGED <<stored, refused, spoilt, premature, score, call>> /\ clock' \in Nat
    BY Facts DEF ExpireOrphans, Tick
  <1>2. orphans' \in Seq(Entry) /\ Len(orphans') <= MaxHeld
    <2>1. CASE Tick
      BY <2>1, Facts DEF Tick
    <2>2. CASE ExpireOrphans
      <3> DEFINE I == {i \in 1..Len(orphans) : ~TooOld(orphans[i])}
      <3>1. orphans' = Entries(orphans, I) /\ I \in SUBSET (1..Len(orphans))
        BY <2>2 DEF ExpireOrphans
      <3> HIDE DEF I
      <3>2. orphans' \in Seq(Entry) /\ Len(orphans') <= Len(orphans)
        BY <3>1, Facts, EntriesAre
      <3>3. Len(orphans') \in Nat /\ Len(orphans) \in Nat /\ Len(orphans) <= MaxHeld /\ MaxHeld \in Nat
        BY <3>2, Facts, IntakeAssumption
      <3> QED
        BY <3>2, <3>3
    <2> QED
      BY <2>1, <2>2
  <1> QED
    BY <1>1, <1>2 DEF IntakeInv, Shapes, ChainKnows, Tainted, VerdictsStay, PendingStored, DeferredForTheClock,
                      Waits, RetriedIsFirst

LEMMA InitIntake == Init => IntakeInv
  <1> SUFFICES ASSUME Init PROVE IntakeInv
    OBVIOUS
  <1>1. /\ clock \in Nat /\ orphans = <<>> /\ premature = <<>> /\ score \in [Peer -> Nat]
        /\ call = [t \in Thread |-> Idle] /\ stored = {Genesis} /\ refused = {} /\ spoilt = {}
    BY IntakeAssumption DEF Init
  <1>2. Shapes
    BY <1>1, IdleCall, IntakeAssumption DEF Shapes
  <1>3. ChainKnows
    BY <1>1, IntakeAssumption DEF ChainKnows
  <1> QED
    BY <1>1, <1>2, <1>3, IdleCall
       DEF IntakeInv, VerdictsStay, PendingStored, DeferredForTheClock, RetriedIsFirst

LEMMA IntakeStep == IntakeInv /\ [Next]_vars => IntakeInv'
  <1> SUFFICES ASSUME IntakeInv, [Next]_vars PROVE IntakeInv'
    OBVIOUS
  <1>1. Submitter \subseteq Thread /\ Maintenance \in Thread
    BY DEF Thread
  <1>2. ASSUME NEW t \in Thread, Continue(t) PROVE IntakeInv'
    BY <1>2, HoldStep, RejectStep, RelayStep, TakeStep, ConnectStep, DoneStep DEF Continue
  <1>3. ASSUME NEW t \in Submitter, NEW b \in Block, NEW form \in Form, Submit(t, b, form)
        PROVE  IntakeInv'
    BY <1>1, <1>3, SubmitStep
  <1>4. CASE Maintain
    BY <1>1, <1>2, <1>4, RetryStartStep, RetryStep, SettleStep DEF Maintain
  <1>5. CASE ExpireOrphans \/ Tick
    BY <1>5, RoundStep
  <1>6. CASE UNCHANGED vars
    BY <1>6 DEF vars, IntakeInv, Shapes, ChainKnows, Tainted, VerdictsStay, PendingStored, DeferredForTheClock,
                Waits, RetriedIsFirst
  <1>7. \A b \in Block : {"whole"} \cup Altered[b] \subseteq Form
    BY IntakeAssumption DEF Form
  <1> QED
    BY <1>1, <1>2, <1>3, <1>4, <1>5, <1>6, <1>7 DEF Next

LEMMA IntakeInvariant == Spec => []IntakeInv
  BY InitIntake, IntakeStep, PTL DEF Spec

-----------------------------------------------------------------------------
(* The results.                                                            *)

\* Which steps change what.
LEMMA WhoChanges ==
    ASSUME [Next]_vars
    PROVE  /\ score' # score => \E t \in Thread : Reject(t)
           /\ orphans' # orphans => ExpireOrphans \/ \E t \in Thread : RememberOrphan(t) \/ TakeChildren(t)
           /\ premature' # premature => RetrySettle \/ \E t \in Thread : DeferPremature(t)
  <1>1. Submitter \subseteq Thread /\ Maintenance \in Thread
    BY DEF Thread
  <1>2. ASSUME NEW t \in Thread, Continue(t)
        PROVE  /\ score' # score => Reject(t)
               /\ orphans' # orphans => RememberOrphan(t) \/ TakeChildren(t)
               /\ premature' # premature => DeferPremature(t)
    BY <1>2 DEF Continue, RememberOrphan, DeferPremature, Reject, Relay, TakeChildren, ConnectChild,
                ConnectDone
  <1>3. CASE \E t \in Submitter : \E b \in Block :
                \E form \in {"whole"} \cup Altered[b] : Submit(t, b, form)
    BY <1>3 DEF Submit
  <1>4. CASE \E t \in Submitter : Continue(t)
    BY <1>1, <1>2, <1>4
  <1>5. CASE Maintain
    BY <1>1, <1>2, <1>5 DEF Maintain, RetryStart, Retry, RetrySettle, RetryDone
  <1>6. CASE ExpireOrphans \/ Tick
    BY <1>6 DEF ExpireOrphans, Tick
  <1>7. CASE UNCHANGED vars
    BY <1>7 DEF vars
  <1> QED
    BY <1>3, <1>4, <1>5, <1>6, <1>7 DEF Next

\* A peer is blamed only for a block that breaks a rule, that has been met in an
\* altered copy, or that stands on such a block, whatever the clock shows and
\* whatever order the blocks of all peers come in (_on_block, _misbehave).
THEOREM BlameIsFair == Spec => BlamelessPeers
  <1>1. IntakeInv /\ [Next]_vars => [\A p \in Peer : score'[p] # score[p] => call[p].block \in Tainted]_vars
    <2> SUFFICES ASSUME IntakeInv, [Next]_vars, NEW p \in Peer, score'[p] # score[p]
                 PROVE  call[p].block \in Tainted
      OBVIOUS
    <2>1. PICK t \in Thread : Reject(t)
      BY WhoChanges
    <2>2. t = p
      BY <2>1, Facts DEF Reject
    <2> QED
      BY <2>1, <2>2, Facts DEF Reject, Holds, ChainKnows
  <1> QED
    BY <1>1, IntakeInvariant, PTL DEF Spec, BlamelessPeers

\* An orphan leaves for its parent's sake, of age, or to make room, and for no
\* other reason, whatever threads submit, connect and expire at once
\* (_connect_orphans_of, _remember_orphan, _maintenance_loop).
THEOREM OrphansLeave == Spec => OrphansWait
  <1> DEFINE Stays(i) == \/ orphans[i].block \in HeldBlocks(orphans') \/ Parent[orphans[i].block] \in stored
                         \/ TooOld(orphans[i]) \/ Displaced(orphans, orphans', orphans[i].block)
  <1>1. IntakeInv /\ [Next]_vars => \A i \in 1..Len(orphans) : Stays(i)
    <2> SUFFICES ASSUME IntakeInv, [Next]_vars, NEW i \in 1..Len(orphans) PROVE Stays(i)
      OBVIOUS
    <2>1. CASE orphans' = orphans
      BY <2>1 DEF HeldBlocks
    <2>2. CASE ExpireOrphans
      <3> DEFINE I == {j \in 1..Len(orphans) : ~TooOld(orphans[j])}
      <3>1. orphans' = Entries(orphans, I) /\ I \in SUBSET (1..Len(orphans))
        BY <2>2 DEF ExpireOrphans
      <3>2. CASE ~TooOld(orphans[i])
        <4>1. i \in I
          BY <3>2
        <4> HIDE DEF I
        <4>2. \E k \in 1..Len(orphans') : orphans'[k] = orphans[i]
          BY <3>1, <4>1, Facts, EntriesAre
        <4> QED
          BY <4>2 DEF HeldBlocks
      <3> QED
        BY <3>2
    <2>3. ASSUME NEW t \in Thread, RememberOrphan(t) PROVE Stays(i)
      <3>1. orphans' = Hold(orphans, call[t].block, call[t].form)
            /\ call[t].block \in Fresh /\ call[t].form \in Form
        BY <2>3, Facts DEF RememberOrphan, Fresh, Call, Holds
      <3> QED
        BY <3>1, Facts, HoldKeeps
    <2>4. ASSUME NEW t \in Thread, TakeChildren(t) PROVE Stays(i)
      <3> DEFINE b == Last(call[t].pending)
      <3>1. b \in stored
        <4>1. call[t].pending \in Seq(Block) /\ call[t].pending # <<>>
          BY <2>4, Facts DEF TakeChildren, Call
        <4>2. Len(call[t].pending) \in 1..Len(call[t].pending)
          BY <4>1
        <4> QED
          BY <4>2, Facts DEF Last
      <3>2. orphans' = Release(orphans, BlocksOf(ChildrenOf(b)))
        BY <2>4 DEF TakeChildren
      <3> HIDE DEF b
      <3>3. CASE orphans[i].block \in BlocksOf(ChildrenOf(b))
        BY <3>1, <3>3, Facts, ChildrenAre
      <3>4. CASE orphans[i].block \notin BlocksOf(ChildrenOf(b))
        BY <3>2, <3>4, Facts, ReleaseKeeps
      <3> QED
        BY <3>3, <3>4
    <2> QED
      BY <2>1, <2>2, <2>3, <2>4, WhoChanges
  <1>2. IntakeInv /\ [Next]_vars =>
           [\A i \in 1..Len(orphans) :
              LET b == orphans[i].block
              IN  \/ b \in HeldBlocks(orphans') \/ Parent[b] \in stored
                  \/ TooOld(orphans[i]) \/ Displaced(orphans, orphans', b)]_vars
    BY <1>1
  <1> QED
    BY <1>2, IntakeInvariant, PTL DEF Spec, OrphansWait

\* A deferred block leaves once the chain has decided on it, of age, or to make
\* room, though it is judged without the lock that guards the dictionary
\* (_retry_premature, _defer_premature).
THEOREM DeferredLeave == Spec => DeferredWait
  <1> DEFINE Stays(b) == \/ b \in HeldBlocks(premature') \cup stored \cup refused
                         \/ \E e \in ToSet(call[Maintenance].waiting) : e.block = b /\ Expired(e)
                         \/ Displaced(premature, premature', b)
  <1>1. IntakeInv /\ [Next]_vars => \A b \in HeldBlocks(premature) : Stays(b)
    <2> SUFFICES ASSUME IntakeInv, [Next]_vars, NEW b \in HeldBlocks(premature) PROVE Stays(b)
      OBVIOUS
    <2>1. PICK i \in 1..Len(premature) : premature[i].block = b
      BY DEF HeldBlocks
    <2>2. CASE premature' = premature
      BY <2>2 DEF HeldBlocks
    <2>3. CASE RetrySettle
      <3> DEFINE m == call[Maintenance]
                 e == Head(m.waiting)
      <3>1. /\ m.waiting # <<>> /\ m.waiting \in Seq(Entry) /\ m.block = e.block
            /\ Holds(m.block, m.verdict, stored, refused) /\ m.verdict # "orphan"
            /\ m.verdict \in {"accepted", "duplicate", "orphan", "premature", "invalid"}
        BY <2>3, Facts DEF RetrySettle, Call
      <3>2. e \in ToSet(m.waiting)
        <4>1. 1 \in DOMAIN m.waiting /\ e = m.waiting[1]
          BY <3>1
        <4> QED
          BY <4>1 DEF ToSet
      <3>3. premature' = IF Settled(e, m.verdict) THEN Release(premature, {e.block}) ELSE premature
        BY <2>3 DEF RetrySettle
      <3> HIDE DEF m, e
      <3>4. CASE ~Settled(e, m.verdict)
        BY <3>3, <3>4 DEF HeldBlocks
      <3>5. CASE Settled(e, m.verdict) /\ b # e.block
        <4>1. premature' = Release(premature, {e.block}) /\ premature[i].block \notin {e.block}
          BY <2>1, <3>3, <3>5
        <4>2. b \in HeldBlocks(premature')
          BY <2>1, <4>1, Facts, ReleaseKeeps
        <4> QED
          BY <4>2
      <3>6. CASE Settled(e, m.verdict) /\ b = e.block
        <4>1. CASE Expired(e)
          BY <3>2, <3>6, <4>1 DEF m
        <4>2. CASE m.verdict # "premature"
          BY <3>1, <3>6, <4>2 DEF Holds
        <4> QED
          BY <3>6, <4>1, <4>2 DEF Settled
      <3> QED
        BY <3>4, <3>5, <3>6
    <2>4. ASSUME NEW t \in Thread, DeferPremature(t) PROVE Stays(b)
      <3>1. premature' = Hold(premature, call[t].block, call[t].form)
            /\ call[t].block \in Fresh /\ call[t].form \in Form
        BY <2>4, Facts DEF DeferPremature, Fresh, Call, Holds
      <3> QED
        BY <2>1, <3>1, Facts, HoldKeeps
    <2> QED
      BY <2>2, <2>3, <2>4, WhoChanges
  <1>2. IntakeInv /\ [Next]_vars =>
           [\A b \in HeldBlocks(premature) :
              \/ b \in HeldBlocks(premature') \cup stored \cup refused
              \/ \E e \in ToSet(call[Maintenance].waiting) : e.block = b /\ Expired(e)
              \/ Displaced(premature, premature', b)]_vars
    BY <1>1
  <1> QED
    BY <1>2, IntakeInvariant, PTL DEF Spec, DeferredWait

-----------------------------------------------------------------------------
(* Powers of two, and the bits of an index.                                *)

\* The equation of the powers has a solution, and they are it.
LEMMA PowerIs ==
    /\ Power \in [0..MaxDepth + SizeBits -> Nat \ {0}] /\ Power[0] = 1
    /\ \A k \in 1..MaxDepth + SizeBits : Power[k] = 2 * Power[k - 1]
<1> DEFINE n == MaxDepth + SizeBits
           S == Nat \ {0}
           step == [c \in S \X (1..n) |-> 2 * c[1]]
           F(w) == [k \in 0..n |-> IF k = 0 THEN 1 ELSE 2 * w[k - 1]]
<1>0. n \in Nat
  BY ProofAssumption
<1>1. step \in [S \X (1..n) -> S]
  BY <1>0
<1>2. \E g \in [0..n -> S] : Recurs(g, 1, step, n)
  <2> HIDE DEF n, S, step
  <2>1. 1 \in S
    BY DEF S
  <2> QED
    BY <1>0, <1>1, <2>1, RecursionExists
<1>3. ASSUME NEW g \in [0..n -> S], Recurs(g, 1, step, n)
      PROVE  g = F(g)
  <2>1. ASSUME NEW k \in 0..n
        PROVE  g[k] = IF k = 0 THEN 1 ELSE 2 * g[k - 1]
    <3>1. g[k] = IF k = 0 THEN 1 ELSE step[<<g[k - 1], k>>]
      BY <1>3 DEF Recurs
    <3>2. CASE k = 0
      BY <3>1, <3>2
    <3>3. CASE k # 0
      <4>1. g[k - 1] \in S /\ k \in 1..n
        BY <1>0, <1>3, <3>3
      <4> HIDE DEF S, n
      <4>2. <<g[k - 1], k>> \in S \X (1..n)
        BY <4>1
      <4>3. step[<<g[k - 1], k>>] = 2 * g[k - 1]
        BY <4>2
      <4> QED
        BY <3>1, <3>3, <4>3
    <3> QED
      BY <3>2, <3>3
  <2> QED
    BY <2>1
<1> DEFINE W == CHOOSE w : w = F(w)
<1>4. W = F(W)
  <2>1. \E w : w = F(w)
    BY <1>2, <1>3
  <2> HIDE DEF F
  <2> QED
    BY <2>1
<1>5. Power = W
  BY DEF Power
<1> HIDE DEF W
<1>6. \A k \in 0..n : Power[k] = IF k = 0 THEN 1 ELSE 2 * Power[k - 1]
  BY <1>4, <1>5
<1>7. 0..n \subseteq {k \in 0..n : Power[k] \in S}
  <2> DEFINE T == {k \in 0..n : Power[k] \in S}
  <2>1. 0 \in T
    BY <1>0, <1>6
  <2>2. ASSUME NEW k \in 1..n, k - 1 \in T
        PROVE  k \in T
    <3>1. Power[k] = 2 * Power[k - 1]
      BY <1>0, <1>6
    <3> QED
      BY <1>0, <2>2, <3>1
  <2> HIDE DEF T, n
  <2>3. 0..n \subseteq T
    BY <1>0, <2>1, <2>2, IntervalInduction
  <2> QED
    BY <2>3 DEF T
<1>8. Power = [k \in 0..n |-> Power[k]]
  BY <1>4, <1>5
<1>9. Power \in [0..n -> S]
  BY <1>7, <1>8
<1> QED
  BY <1>0, <1>6, <1>9

\* The power no doubling has reached yet.
LEMMA PowerZero == Power[0] = 1
  BY PowerIs

\* A power is a positive number, twice the one before.
LEMMA PowerAt ==
    ASSUME NEW k \in 0..MaxDepth + SizeBits
    PROVE  Power[k] \in Nat \ {0} /\ (k > 0 => Power[k] = 2 * Power[k - 1])
<1>1. MaxDepth + SizeBits \in Nat
  BY ProofAssumption
<1> QED
  BY <1>1, PowerIs

\* What quotient and remainder are.
LEMMA DivisionIsUnique ==
    ASSUME NEW x \in Nat, NEW p \in Nat \ {0}, NEW q \in Nat, NEW r \in Nat, r < p, x = q * p + r
    PROVE  x \div p = q /\ x % p = r
OBVIOUS

\* A number is its quotient and remainder.
LEMMA DivisionIs ==
    ASSUME NEW x \in Nat, NEW p \in Nat \ {0}
    PROVE  x \div p \in Nat /\ x % p \in Nat /\ x % p < p /\ x = (x \div p) * p + (x % p)
<1> DEFINE q == x \div p
           a == q * p
           r == x - a
<1>1. q \in Nat /\ a <= x /\ x < a + p
  OBVIOUS
<1>2. a \in Nat
  BY <1>1
<1>3. r \in Nat /\ r < p /\ x = a + r
  <2> HIDE DEF a
  <2> QED
    BY <1>1, <1>2
<1> HIDE DEF q, r
<1>4. x % p = r
  BY <1>1, <1>3, DivisionIsUnique
<1>5. x = q * p + (x % p)
  BY <1>3, <1>4
<1> QED
  BY <1>1, <1>3, <1>4, <1>5, Zenon DEF q

\* One bit more of a number.
LEMMA NextBit ==
    ASSUME NEW x \in Nat, NEW p \in Nat \ {0}
    PROVE  /\ x \div (2 * p) = (x \div p) \div 2
           /\ x % (2 * p) = (x % p) + IF (x \div p) % 2 = 1 THEN p ELSE 0
<1> DEFINE q == x \div p
           r == x % p
           h == q \div 2
           b == q % 2
           s == r + IF b = 1 THEN p ELSE 0
<1>1. q \in Nat /\ r \in Nat /\ r < p /\ x = q * p + r
  BY DivisionIs
<1> HIDE DEF q, r
<1>2. h \in Nat /\ b \in {0, 1} /\ q = 2 * h + b
  BY <1>1
<1> HIDE DEF h, b
<1>3. s \in Nat /\ s < 2 * p
  BY <1>1
<1>4. q * p = h * (2 * p) + IF b = 1 THEN p ELSE 0
  <2>1. CASE b = 0
    BY <1>2, <2>1
  <2>2. CASE b = 1
    BY <1>2, <2>2
  <2> QED
    BY <1>2, <2>1, <2>2
<1>5. x = h * (2 * p) + s
  <2> DEFINE a == h * (2 * p)
  <2>1. a \in Nat /\ q * p = a + IF b = 1 THEN p ELSE 0
    BY <1>2, <1>4
  <2> HIDE DEF a
  <2> QED
    BY <1>1, <2>1 DEF a
<1> HIDE DEF s
<1>6. x \div (2 * p) = h /\ x % (2 * p) = s
  BY <1>2, <1>3, <1>5, DivisionIsUnique
<1> QED
  BY <1>6 DEF s, h, b, q, r

\* Bit d of an index.
Bit(x, d) == (x \div Power[d]) % 2

\* Two indices agree in their first bits exactly if they have the same position.
LEMMA SamePosition ==
    ASSUME NEW x \in Nat, NEW y \in Nat, NEW n \in Nat, n <= MaxDepth
    PROVE  (\A d \in 0..n - 1 : Bit(x, d) = Bit(y, d)) <=> x % Power[n] = y % Power[n]
<1> DEFINE Same(k) == \A d \in 0..k - 1 : Bit(x, d) = Bit(y, d)
           T == {k \in 0..n : Same(k) <=> x % Power[k] = y % Power[k]}
<1>0. \A k \in 0..n : k \in 0..MaxDepth + SizeBits
  BY ProofAssumption
<1>1. 0 \in T
  <2>1. x % 1 = 0 /\ y % 1 = 0
    OBVIOUS
  <2> QED
    BY <2>1, PowerZero
<1>2. ASSUME NEW k \in 1..n, k - 1 \in T
      PROVE  k \in T
  <2> DEFINE p == Power[k - 1]
             bx == (x \div p) % 2
             by == (y \div p) % 2
  <2>1. p \in Nat \ {0} /\ Power[k] = 2 * p
    <3>1. k - 1 \in 0..n /\ k \in 0..n
      OBVIOUS
    <3> QED
      BY <1>0, <3>1, PowerAt
  <2>2. Same(k) <=> Same(k - 1) /\ bx = by
    <3>1. \A d : d \in 0..k - 1 <=> d \in 0..k - 2 \/ d = k - 1
      OBVIOUS
    <3>2. bx = Bit(x, k - 1) /\ by = Bit(y, k - 1)
      BY DEF Bit
    <3> HIDE DEF bx, by
    <3> QED
      BY <3>1, <3>2
  <2>3. Same(k - 1) <=> x % p = y % p
    BY <1>2
  <2>4. /\ x % Power[k] = (x % p) + IF bx = 1 THEN p ELSE 0
        /\ y % Power[k] = (y % p) + IF by = 1 THEN p ELSE 0
    BY <2>1, NextBit
  <2>5. /\ x % p \in Nat /\ x % p < p /\ y % p \in Nat /\ y % p < p
        /\ x \div p \in Nat /\ y \div p \in Nat
    BY <2>1, DivisionIs
  <2>6. bx \in {0, 1} /\ by \in {0, 1}
    BY <2>5
  <2> HIDE DEF p, bx, by, Same
  <2>7. x % Power[k] = y % Power[k] <=> x % p = y % p /\ bx = by
    <3> DEFINE rx == x % p
               ry == y % p
    <3>1. rx \in Nat /\ rx < p /\ ry \in Nat /\ ry < p
      BY <2>5
    <3>2. /\ x % Power[k] = rx + IF bx = 1 THEN p ELSE 0
          /\ y % Power[k] = ry + IF by = 1 THEN p ELSE 0
      BY <2>4
    <3> HIDE DEF rx, ry
    <3>3. x % Power[k] = y % Power[k] <=> rx = ry /\ bx = by
      BY <2>1, <2>6, <3>1, <3>2
    <3> QED
      BY <3>3 DEF rx, ry
  <2>8. Same(k) <=> x % Power[k] = y % Power[k]
    BY <2>2, <2>3, <2>7
  <2> QED
    BY <2>8
<1>3. n \in 0..n
  OBVIOUS
<1> HIDE DEF T
<1>4. 0..n \subseteq T
  BY <1>1, <1>2, IntervalInduction
<1>5. n \in T
  BY <1>2, <1>3, <1>4
<1> QED
  BY <1>5 DEF T

\* Half as many positions as below, and the position above one.
LEMMA PositionAbove ==
    ASSUME NEW x \in Nat, NEW h \in Nat, h <= MaxDepth, x < Power[h], NEW d \in 0..h
    PROVE  x \div Power[d] \in Nat /\ x \div Power[d] < Power[h - d]
<1> DEFINE T == {k \in 0..h : x \div Power[k] \in Nat /\ x \div Power[k] < Power[h - k]}
<1>0. \A k \in 0..h : k \in 0..MaxDepth + SizeBits /\ h - k \in 0..MaxDepth + SizeBits
  BY ProofAssumption
<1>1. 0 \in T
  <2>1. x \div 1 = x /\ h - 0 = h /\ Power[0] = 1
    BY PowerZero
  <2> QED
    BY <2>1
<1>2. ASSUME NEW k \in 1..h, k - 1 \in T
      PROVE  k \in T
  <2> DEFINE p == Power[k - 1]
             q == x \div p
             m == Power[h - k]
  <2>1. p \in Nat \ {0} /\ Power[k] = 2 * p /\ m \in Nat \ {0} /\ Power[h - (k - 1)] = 2 * m
    <3>1. k - 1 \in 0..h /\ k \in 0..h /\ h - (k - 1) > 0 /\ (h - (k - 1)) - 1 = h - k
      OBVIOUS
    <3>2. p \in Nat \ {0} /\ Power[k] = 2 * p
      BY <1>0, <3>1, PowerAt
    <3>3. h - (k - 1) \in 0..MaxDepth + SizeBits /\ h - k \in 0..MaxDepth + SizeBits
      BY <1>0, <3>1
    <3>4. m \in Nat \ {0}
      BY <3>3, PowerAt
    <3>5. Power[h - (k - 1)] = 2 * Power[(h - (k - 1)) - 1]
      BY <3>1, <3>3, PowerAt
    <3> QED
      BY <3>1, <3>2, <3>4, <3>5
  <2>2. q \in Nat /\ q < 2 * m
    BY <1>2, <2>1
  <2>3. x \div Power[k] = q \div 2
    BY <2>1, NextBit
  <2> HIDE DEF q, m
  <2>4. q \div 2 \in Nat /\ q \div 2 < m
    BY <2>1, <2>2
  <2> QED
    BY <2>3, <2>4 DEF m
<1> HIDE DEF T
<1>3. 0..h \subseteq T
  BY <1>1, <1>2, IntervalInduction
<1>4. d \in T
  BY <1>3
<1> QED
  BY <1>4 DEF T

-----------------------------------------------------------------------------
(* Merkle trees.                                                           *)

\* How many nodes a level has, and what they are.
LEMMA LevelIs ==
    ASSUME NEW s, IsSequence(s), Len(s) >= 1
    PROVE  /\ IsSequence(Level(s)) /\ Len(Level(s)) = (Len(s) + 1) \div 2
           /\ \A i \in 1..(Len(s) + 1) \div 2 :
                /\ 2 * i - 1 \in 1..Len(s)
                /\ Level(s)[i] = <<"pair", s[2 * i - 1], s[IF 2 * i <= Len(s) THEN 2 * i ELSE Len(s)]>>
<1> DEFINE n == Len(s)
           m == (n + 1) \div 2
           even == IF n % 2 = 0 THEN s ELSE Append(s, Last(s))
<1>1. n \in Nat \ {0}
  BY SequenceShape
<1>2. /\ IsSequence(even) /\ Len(even) \div 2 = m
      /\ \A j \in 1..n : even[j] = s[j]
      /\ n % 2 # 0 => even[n + 1] = s[n]
  <2>1. CASE n % 2 = 0
    BY <1>1, <2>1
  <2>2. CASE n % 2 # 0
    <3>1. even = Append(s, s[n])
      BY <2>2 DEF Last
    <3> HIDE DEF even
    <3>2. IsSequence(even) /\ Len(even) = n + 1 /\ even[n + 1] = s[n] /\ \A j \in 1..n : even[j] = s[j]
      BY <3>1, AppendItem
    <3>3. (n + 1) \div 2 = m
      OBVIOUS
    <3> QED
      BY <3>2, <3>3
  <2> QED
    BY <2>1, <2>2
<1>3. Level(s) = [i \in 1..m |-> <<"pair", even[2 * i - 1], even[2 * i]>>]
  BY <1>2 DEF Level
<1> HIDE DEF even
<1>4. m \in Nat
  BY <1>1
<1>5. ASSUME NEW i \in 1..m
      PROVE  /\ 2 * i - 1 \in 1..n
             /\ even[2 * i - 1] = s[2 * i - 1]
             /\ even[2 * i] = s[IF 2 * i <= n THEN 2 * i ELSE n]
  <2>1. 2 * i - 1 \in 1..n
    BY <1>1
  <2>2. CASE 2 * i <= n
    BY <1>1, <1>2, <2>1, <2>2
  <2>3. CASE 2 * i > n
    <3>1. 2 * i = n + 1 /\ n % 2 # 0
      BY <1>1, <2>1, <2>3
    <3> HIDE DEF n
    <3> QED
      BY <1>1, <1>2, <2>1, <2>3, <3>1
  <2> QED
    BY <1>1, <2>2, <2>3
<1> HIDE DEF m, n
<1>6. Level(s) = [i \in 1..m |-> Level(s)[i]]
  BY <1>3
<1>7. IsSequence(Level(s)) /\ Len(Level(s)) = m
  BY <1>4, <1>6, SequenceOf
<1>8. \A i \in 1..m : Level(s)[i] = <<"pair", s[2 * i - 1], s[IF 2 * i <= n THEN 2 * i ELSE n]>>
  BY <1>3, <1>5
<1> QED
  BY <1>5, <1>7, <1>8 DEF m, n

\* The equation of the levels has a solution, and they are it.
LEMMA LevelsAre ==
    ASSUME NEW leaves, IsSequence(leaves)
    PROVE  /\ Levels(leaves)[0] = leaves
           /\ \A d \in 1..Len(leaves) : Levels(leaves)[d] = Level(Levels(leaves)[d - 1])
<1> DEFINE n == Len(leaves)
           G(g, k) == g = [d \in 0..k |-> IF d = 0 THEN leaves ELSE Level(g[d - 1])]
           T == {k \in 0..n : \E g : G(g, k)}
<1>0. n \in Nat
  BY SequenceShape
<1> HIDE DEF n
<1>1. 0 \in T
  <2>1. G([d \in 0..0 |-> leaves], 0)
    OBVIOUS
  <2>2. \E g : G(g, 0)
    BY <2>1
  <2> HIDE DEF G
  <2> QED
    BY <1>0, <2>2
<1>2. ASSUME NEW k \in 1..n, k - 1 \in T
      PROVE  k \in T
  <2>1. PICK g : G(g, k - 1)
    BY <1>2
  <2> DEFINE h == [d \in 0..k |-> IF d = k THEN Level(g[k - 1]) ELSE g[d]]
  <2>2. ASSUME NEW d \in 0..k
        PROVE  h[d] = IF d = 0 THEN leaves ELSE Level(h[d - 1])
    <3>1. CASE d = k
      <4>1. h[k] = Level(g[k - 1]) /\ h[k - 1] = g[k - 1]
        BY <1>0
      <4> QED
        BY <3>1, <4>1
    <3>2. CASE d # k
      <4>1. d \in 0..k - 1 /\ h[d] = g[d]
        BY <3>2
      <4>2. g[d] = IF d = 0 THEN leaves ELSE Level(g[d - 1])
        BY <2>1, <4>1
      <4>3. d # 0 => h[d - 1] = g[d - 1]
        BY <4>1
      <4> QED
        BY <4>1, <4>2, <4>3
    <3> QED
      BY <3>1, <3>2
  <2>3. h = [d \in 0..k |-> h[d]]
    OBVIOUS
  <2> HIDE DEF h
  <2>4. G(h, k)
    BY <2>2, <2>3
  <2> QED
    BY <2>4
<1> HIDE DEF T
<1>3. 0..n \subseteq T
  BY <1>0, <1>1, <1>2, IntervalInduction
<1>4. \E g : G(g, n)
  <2>1. n \in T
    BY <1>0, <1>3
  <2> QED
    BY <2>1 DEF T
<1> DEFINE L == CHOOSE g : G(g, n)
<1>5. G(L, n)
  <2> HIDE DEF G
  <2> QED
    BY <1>4
<1>6. Levels(leaves) = L
  BY DEF Levels, n
<1> HIDE DEF L
<1>7. \A d \in 0..n : L[d] = IF d = 0 THEN leaves ELSE Level(L[d - 1])
  BY <1>5
<1> QED
  BY <1>0, <1>6, <1>7 DEF n

\* Every level is a sequence; there are always fewer nodes until there is one.
LEMMA LevelShape ==
    ASSUME NEW leaves, IsSequence(leaves), Len(leaves) >= 1, NEW d \in 0..Len(leaves)
    PROVE  /\ IsSequence(Levels(leaves)[d]) /\ Len(Levels(leaves)[d]) \in Nat \ {0}
           /\ Len(Levels(leaves)[d]) = 1 \/ Len(Levels(leaves)[d]) <= Len(leaves) - d
<1> DEFINE n == Len(leaves)
           L == Levels(leaves)
           P(k) == /\ IsSequence(L[k]) /\ Len(L[k]) \in Nat \ {0}
                   /\ Len(L[k]) = 1 \/ Len(L[k]) <= n - k
           T == {k \in 0..n : P(k)}
<1>0. n \in Nat /\ n >= 1
  BY SequenceShape
<1>1. L[0] = leaves /\ \A k \in 1..n : L[k] = Level(L[k - 1])
  BY LevelsAre
<1>2. 0 \in T
  <2>1. P(0)
    BY <1>0, <1>1
  <2> HIDE DEF P
  <2> QED
    BY <1>0, <2>1
<1> HIDE DEF L
<1>3. ASSUME NEW k \in 1..n, k - 1 \in T
      PROVE  k \in T
  <2> DEFINE l == Len(L[k - 1])
             m == (l + 1) \div 2
  <2>1. IsSequence(L[k - 1]) /\ l \in Nat \ {0} /\ (l = 1 \/ l <= n - (k - 1))
    BY <1>3
  <2>2. IsSequence(L[k]) /\ Len(L[k]) = m
    <3>1. L[k] = Level(L[k - 1])
      BY <1>1
    <3>2. l >= 1
      BY <2>1
    <3> QED
      BY <2>1, <3>1, <3>2, LevelIs
  <2> HIDE DEF l
  <2>3. m \in Nat \ {0} /\ (m = 1 \/ m <= n - k)
    BY <1>0, <2>1
  <2>4. P(k)
    BY <2>2, <2>3
  <2> HIDE DEF P
  <2> QED
    BY <2>4
<1> HIDE DEF T
<1>4. 0..n \subseteq T
  <2> HIDE DEF n
  <2> QED
    BY <1>0, <1>2, <1>3, IntervalInduction
<1>5. d \in T
  BY <1>4
<1> HIDE DEF P
<1>6. P(d)
  BY <1>5 DEF T
<1> QED
  BY <1>6 DEF P, n, L

\* How many nodes the next level has, and what they are.
LEMMA NextLevel ==
    ASSUME NEW leaves, IsSequence(leaves), Len(leaves) >= 1, NEW d \in 1..Len(leaves)
    PROVE  LET below == Levels(leaves)[d - 1]
               above == Levels(leaves)[d]
           IN  /\ Len(above) = (Len(below) + 1) \div 2
               /\ \A i \in 1..Len(above) :
                    /\ 2 * i - 1 \in 1..Len(below)
                    /\ above[i] = <<"pair", below[2 * i - 1], below[IF 2 * i <= Len(below) THEN 2 * i ELSE Len(below)]>>
<1> DEFINE below == Levels(leaves)[d - 1]
           above == Levels(leaves)[d]
<1>1. d - 1 \in 0..Len(leaves)
  BY SequenceShape
<1>2. IsSequence(below) /\ Len(below) \in Nat \ {0}
  BY <1>1, LevelShape
<1>3. above = Level(below)
  BY LevelsAre
<1> HIDE DEF below, above
<1>4. Len(below) >= 1
  BY <1>2
<1>5. /\ Len(above) = (Len(below) + 1) \div 2
      /\ \A i \in 1..Len(above) :
           /\ 2 * i - 1 \in 1..Len(below)
           /\ above[i] = <<"pair", below[2 * i - 1], below[IF 2 * i <= Len(below) THEN 2 * i ELSE Len(below)]>>
  BY <1>2, <1>3, <1>4, LevelIs
<1> QED
  BY <1>5 DEF below, above

IsDepth(leaves, d) == Len(Levels(leaves)[d]) = 1 /\ \A e \in 0..d - 1 : Len(Levels(leaves)[e]) > 1

\* There is one first level that is a single node.
LEMMA DepthIs ==
    ASSUME NEW leaves, IsSequence(leaves), Len(leaves) >= 1
    PROVE  /\ Depth(leaves) \in 0..Len(leaves) /\ IsDepth(leaves, Depth(leaves))
           /\ \A d \in 0..Len(leaves) : IsDepth(leaves, d) => d = Depth(leaves)
<1> DEFINE n == Len(leaves)
           T == {d \in 0..n : Len(Levels(leaves)[d]) = 1}
<1>0. n \in Nat
  BY SequenceShape
<1>1. n \in T
  <2>1. n \in 0..n
    BY <1>0
  <2>2. Len(Levels(leaves)[n]) \in Nat \ {0} /\ (Len(Levels(leaves)[n]) = 1 \/ Len(Levels(leaves)[n]) <= n - n)
    BY <2>1, LevelShape
  <2> QED
    BY <1>0, <2>1, <2>2
<1>2. PICK d \in T : \A e \in T : d <= e
  <2>1. T \in SUBSET Nat
    BY <1>0
  <2> HIDE DEF T
  <2> QED
    BY <1>1, <2>1, Least
<1>3. IsDepth(leaves, d)
  <2>1. ASSUME NEW e \in 0..d - 1
        PROVE  Len(Levels(leaves)[e]) > 1
    <3>1. e \in 0..n /\ e \notin T
      BY <1>0, <1>2
    <3>2. Len(Levels(leaves)[e]) \in Nat \ {0}
      BY <3>1, LevelShape
    <3>3. Len(Levels(leaves)[e]) # 1
      BY <3>1
    <3> DEFINE l == Len(Levels(leaves)[e])
    <3>4. l \in Nat \ {0} /\ l # 1
      BY <3>2, <3>3
    <3> HIDE DEF l
    <3>5. l > 1
      BY <3>4
    <3> QED
      BY <3>5 DEF l
  <2> QED
    BY <1>2, <2>1 DEF IsDepth
<1>4. Depth(leaves) = CHOOSE k \in 0..n : IsDepth(leaves, k)
  BY DEF Depth, IsDepth
<1>5. Depth(leaves) \in 0..n /\ IsDepth(leaves, Depth(leaves))
  BY <1>2, <1>3, <1>4
<1>6. ASSUME NEW x \in 0..n, NEW y \in 0..n, IsDepth(leaves, x), IsDepth(leaves, y)
      PROVE  x = y
  <2>1. ~(x < y)
    <3>1. ASSUME x < y PROVE FALSE
      <4> DEFINE l == Len(Levels(leaves)[x])
      <4>1. x \in 0..y - 1
        BY <3>1
      <4>2. l = 1
        BY <1>6 DEF IsDepth
      <4>3. l > 1
        BY <1>6, <4>1 DEF IsDepth
      <4> HIDE DEF l
      <4> QED
        BY <4>2, <4>3
    <3> QED
      BY <3>1
  <2>2. ~(y < x)
    <3>1. ASSUME y < x PROVE FALSE
      <4> DEFINE l == Len(Levels(leaves)[y])
      <4>1. y \in 0..x - 1
        BY <3>1
      <4>2. l = 1
        BY <1>6 DEF IsDepth
      <4>3. l > 1
        BY <1>6, <4>1 DEF IsDepth
      <4> HIDE DEF l
      <4> QED
        BY <4>2, <4>3
    <3> QED
      BY <3>1
  <2> QED
    BY <2>1, <2>2
<1> QED
  BY <1>5, <1>6

\* A tree with no more leaves than a power of two is no deeper than it.
LEMMA DepthBounded ==
    ASSUME NEW leaves, IsSequence(leaves), Len(leaves) >= 1, Len(leaves) <= Power[MaxDepth]
    PROVE  Depth(leaves) <= MaxDepth
<1> DEFINE n == Len(leaves)
           L == Levels(leaves)
           T == {d \in 0..MaxDepth : d <= n => Len(L[d]) <= Power[MaxDepth - d]}
<1>0. n \in Nat /\ MaxDepth \in Nat /\ SizeBits \in Nat
  BY SequenceShape, ProofAssumption
<1>1. 0 \in T
  <2>1. L[0] = leaves /\ MaxDepth - 0 = MaxDepth
    BY <1>0, LevelsAre
  <2> QED
    BY <1>0, <2>1
<1>2. ASSUME NEW d \in 1..MaxDepth, d - 1 \in T
      PROVE  d \in T
  <2> SUFFICES ASSUME d <= n PROVE Len(L[d]) <= Power[MaxDepth - d]
    BY <1>0
  <2>1. d \in 1..n /\ d - 1 \in 0..n /\ d - 1 \in 0..MaxDepth
    BY <1>0
  <2>2. Len(L[d]) = (Len(L[d - 1]) + 1) \div 2 /\ Len(L[d - 1]) \in Nat \ {0}
    BY <2>1, NextLevel, LevelShape
  <2>3. Len(L[d - 1]) <= Power[MaxDepth - (d - 1)]
    BY <1>2, <2>1
  <2>4. Power[MaxDepth - (d - 1)] = 2 * Power[MaxDepth - d] /\ Power[MaxDepth - d] \in Nat
    <3>1. MaxDepth - (d - 1) \in 0..MaxDepth + SizeBits /\ MaxDepth - d \in 0..MaxDepth + SizeBits
          /\ MaxDepth - (d - 1) > 0 /\ (MaxDepth - (d - 1)) - 1 = MaxDepth - d
      BY <1>0
    <3>2. Power[MaxDepth - (d - 1)] = 2 * Power[(MaxDepth - (d - 1)) - 1]
      BY <3>1, PowerAt
    <3> QED
      BY <3>1, <3>2, PowerAt
  <2> DEFINE a == Len(L[d])
             b == Len(L[d - 1])
             p == Power[MaxDepth - d]
             q == Power[MaxDepth - (d - 1)]
  <2>5. a = (b + 1) \div 2 /\ b \in Nat \ {0} /\ b <= q /\ q = 2 * p /\ p \in Nat
    BY <2>2, <2>3, <2>4
  <2> HIDE DEF a, b, p, q
  <2>6. a <= p
    BY <2>5
  <2> QED
    BY <2>6 DEF a, p
<1>3. MaxDepth \in T
  <2> HIDE DEF T
  <2>1. 0..MaxDepth \subseteq T
    BY <1>0, <1>1, <1>2, IntervalInduction
  <2> QED
    BY <1>0, <2>1
<1>4. Depth(leaves) \in 0..n /\ IsDepth(leaves, Depth(leaves))
  BY DepthIs
<1>5. ASSUME Depth(leaves) > MaxDepth PROVE FALSE
  <2>1. MaxDepth \in 0..n /\ MaxDepth \in 0..Depth(leaves) - 1
    BY <1>0, <1>4, <1>5
  <2>2. Len(L[MaxDepth]) > 1
    BY <1>4, <2>1 DEF IsDepth
  <2>3. MaxDepth - MaxDepth = 0 /\ Power[0] = 1
    BY <1>0, PowerZero
  <2>4. Len(L[MaxDepth]) <= 1
    BY <1>3, <2>1, <2>3
  <2>5. Len(L[MaxDepth]) \in Nat
    BY <2>1, LevelShape
  <2> QED
    BY <2>2, <2>4, <2>5
<1> QED
  BY <1>0, <1>4, <1>5

\* A full tree.
LEMMA FullTree ==
    ASSUME NEW h \in 0..MaxDepth, NEW leaves, IsSequence(leaves), Len(leaves) = Power[h]
    PROVE  Depth(leaves) = h /\ \A d \in 0..h : Len(Levels(leaves)[d]) = Power[h - d]
<1> DEFINE n == Len(leaves)
           L == Levels(leaves)
           T == {d \in 0..h : d <= n => Len(L[d]) = Power[h - d]}
<1>0. n \in Nat /\ MaxDepth \in Nat /\ SizeBits \in Nat
  BY SequenceShape, ProofAssumption
<1>1. n >= 1
  <2>1. h \in 0..MaxDepth + SizeBits
    BY <1>0
  <2>2. Power[h] \in Nat \ {0}
    BY <2>1, PowerAt
  <2> QED
    BY <2>2
<1>2. 0 \in T
  <2>1. L[0] = leaves /\ h - 0 = h
    BY LevelsAre
  <2> QED
    BY <2>1
<1>3. ASSUME NEW d \in 0..h - 1
      PROVE  Power[h - d] = 2 * Power[h - (d + 1)] /\ Power[h - (d + 1)] \in Nat \ {0}
  <2>1. h - d \in 0..MaxDepth + SizeBits /\ h - (d + 1) \in 0..MaxDepth + SizeBits
        /\ h - d > 0 /\ (h - d) - 1 = h - (d + 1)
    BY <1>0
  <2>2. Power[h - d] = 2 * Power[(h - d) - 1]
    BY <2>1, PowerAt
  <2> QED
    BY <2>1, <2>2, PowerAt
<1>4. ASSUME NEW d \in 1..h, d - 1 \in T
      PROVE  d \in T
  <2> SUFFICES ASSUME d <= n PROVE Len(L[d]) = Power[h - d]
    BY <1>0
  <2>1. d \in 1..n /\ d - 1 \in 0..h - 1 /\ (d - 1) + 1 = d
    BY <1>0
  <2> DEFINE a == Len(L[d])
             b == Len(L[d - 1])
             p == Power[h - d]
  <2>2. a = (b + 1) \div 2
    BY <1>1, <2>1, NextLevel
  <2>3. b = Power[h - (d - 1)]
    BY <1>4, <2>1
  <2>4. Power[h - (d - 1)] = 2 * p /\ p \in Nat \ {0}
    BY <1>3, <2>1
  <2> HIDE DEF a, b, p
  <2>5. a = p
    BY <2>2, <2>3, <2>4
  <2> QED
    BY <2>5 DEF a, p
<1>5. ASSUME NEW d \in 0..h, d <= n
      PROVE  Len(L[d]) = Power[h - d]
  <2>1. d \in T
    <3> HIDE DEF T
    <3>1. h \in Nat
      BY <1>0
    <3>2. 0..h \subseteq T
      BY <1>2, <1>4, <3>1, IntervalInduction
    <3> QED
      BY <3>2
  <2> QED
    BY <1>5, <2>1
<1>6. Depth(leaves) \in 0..n /\ IsDepth(leaves, Depth(leaves))
  BY <1>1, DepthIs
<1>7. Depth(leaves) = h
  <2>1. ASSUME Depth(leaves) > h PROVE FALSE
    <3>1. h <= n /\ h \in 0..Depth(leaves) - 1 /\ h - h = 0
      BY <1>0, <1>6, <2>1
    <3> QED
      <4>1. Power[h - h] = 1
        BY <3>1, PowerZero
      <4>2. Len(L[h]) = Power[h - h]
        <5>1. h \in 0..h
          BY <1>0
        <5> QED
          BY <1>5, <3>1, <5>1
      <4>3. Len(L[h]) > 1
        BY <1>6, <3>1 DEF IsDepth
      <4> DEFINE l == Len(L[h])
      <4>4. l = 1 /\ l > 1
        BY <4>1, <4>2, <4>3
      <4> HIDE DEF l
      <4> QED
        BY <4>4
  <2>2. ASSUME Depth(leaves) < h PROVE FALSE
    <3>1. Depth(leaves) \in 0..h - 1 /\ Depth(leaves) \in 0..h /\ Depth(leaves) <= n
      BY <1>0, <1>6, <2>2
    <3>2. Len(L[Depth(leaves)]) = 1
      BY <1>6 DEF IsDepth
    <3>3. 1 = 2 * Power[h - (Depth(leaves) + 1)] /\ Power[h - (Depth(leaves) + 1)] \in Nat \ {0}
      BY <1>3, <1>5, <3>1, <3>2
    <3> QED
      BY <3>3
  <2> QED
    BY <1>0, <1>6, <2>1, <2>2
<1>8. h <= n
  BY <1>0, <1>6, <1>7
<1> QED
  BY <1>0, <1>5, <1>7, <1>8

\* One more item in front of a sequence.
LEMMA ConsItems ==
    ASSUME NEW x, NEW s, IsSequence(s)
    PROVE  LET t == <<x>> \o s
           IN  /\ IsSequence(t) /\ Len(t) = Len(s) + 1 /\ t[1] = x
               /\ \A i \in 2..Len(s) + 1 : t[i] = s[i - 1]
<1> DEFINE one == <<x>>
<1>1. IsSequence(one) /\ Len(one) = 1 /\ one[1] = x
  <2>1. one \in Seq({x})
    OBVIOUS
  <2>2. Len(one) = 1 /\ one[1] = x
    OBVIOUS
  <2> HIDE DEF one
  <2> QED
    BY <2>1, <2>2, AnySequence
<1> HIDE DEF one
<1>2. LET t == one \o s
      IN  /\ IsSequence(t) /\ Len(t) = Len(one) + Len(s)
          /\ \A i \in 1..Len(one) : t[i] = one[i]
          /\ \A i \in 1..Len(s) : t[Len(one) + i] = s[i]
  <2>0. IsSequence(one) /\ IsSequence(s)
    BY <1>1
  <2>1. IsSequence(one \o s) /\ Len(one \o s) = Len(one) + Len(s)
    BY <2>0, ConcatItems
  <2>2. \A i \in 1..Len(one) : (one \o s)[i] = one[i]
    BY <2>0, ConcatItems
  <2>3. \A i \in 1..Len(s) : (one \o s)[Len(one) + i] = s[i]
    BY <2>0, ConcatItems
  <2> QED
    BY <2>1, <2>2, <2>3
<1>3. Len(s) \in Nat
  BY SequenceShape
<1> DEFINE t == one \o s
<1>4. IsSequence(t) /\ Len(t) = 1 + Len(s)
  BY <1>1, <1>2
<1>5. t[1] = x
  BY <1>1, <1>2
<1>6. \A i \in 1..Len(s) : t[1 + i] = s[i]
  BY <1>1, <1>2
<1> HIDE DEF t
<1>7. ASSUME NEW i \in 2..Len(s) + 1
      PROVE  t[i] = s[i - 1]
  <2>1. i - 1 \in 1..Len(s) /\ 1 + (i - 1) = i
    BY <1>3
  <2>2. t[1 + (i - 1)] = s[i - 1]
    BY <1>6, <2>1
  <2> QED
    BY <2>1, <2>2
<1>8. Len(t) = Len(s) + 1
  BY <1>3, <1>4
<1>9. t = <<x>> \o s
  BY DEF t, one
<1> QED
  BY <1>4, <1>5, <1>7, <1>8, <1>9

Distinct(s) == \A i, j \in 1..Len(s) : s[i] = s[j] => i = j

\* If no two leaves are the same, no two nodes of a level are.
LEMMA NodesDiffer ==
    ASSUME NEW leaves, IsSequence(leaves), Len(leaves) >= 1, Distinct(leaves), NEW d \in 0..Len(leaves)
    PROVE  Distinct(Levels(leaves)[d])
<1> DEFINE n == Len(leaves)
           T == {k \in 0..n : Distinct(Levels(leaves)[k])}
<1>0. n \in Nat
  BY SequenceShape
<1>1. 0 \in T
  BY <1>0, LevelsAre
<1>2. ASSUME NEW k \in 1..n, k - 1 \in T
      PROVE  k \in T
  <2> DEFINE below == Levels(leaves)[k - 1]
             above == Levels(leaves)[k]
  <2>1. \A i \in 1..Len(above) :
            /\ 2 * i - 1 \in 1..Len(below)
            /\ above[i] = <<"pair", below[2 * i - 1], below[IF 2 * i <= Len(below) THEN 2 * i ELSE Len(below)]>>
    BY NextLevel
  <2>2. Distinct(below)
    BY <1>2
  <2>3. Len(above) \in Nat
    BY LevelShape
  <2> HIDE DEF below, above
  <2>4. ASSUME NEW i \in 1..Len(above), NEW j \in 1..Len(above), above[i] = above[j]
        PROVE  i = j
    <3>1. below[2 * i - 1] = below[2 * j - 1]
      BY <2>1, <2>4
    <3>2. 2 * i - 1 \in 1..Len(below) /\ 2 * j - 1 \in 1..Len(below)
      BY <2>1
    <3>3. 2 * i - 1 = 2 * j - 1
      BY <2>2, <3>1, <3>2 DEF Distinct
    <3> QED
      BY <2>3, <3>3
  <2>5. Distinct(above)
    BY <2>4 DEF Distinct
  <2> QED
    BY <2>5 DEF above
<1> HIDE DEF T
<1>3. 0..n \subseteq T
  <2> HIDE DEF n
  <2> QED
    BY <1>0, <1>1, <1>2, IntervalInduction
<1> QED
  BY <1>3 DEF T

OthersAgree(s, t) == Len(s) = Len(t) /\ \A i \in 2..Len(s) : s[i] = t[i]

\* Only the first node of a level depends on the first leaf.
LEMMA OtherNodes ==
    ASSUME NEW s, IsSequence(s), Len(s) >= 1, NEW t, IsSequence(t), OthersAgree(s, t), NEW d \in 0..Len(s)
    PROVE  OthersAgree(Levels(s)[d], Levels(t)[d])
<1> DEFINE n == Len(s)
           T == {k \in 0..n : OthersAgree(Levels(s)[k], Levels(t)[k])}
<1>0. n \in Nat
  BY SequenceShape
<1>1. 0 \in T
  <2>1. Levels(s)[0] = s /\ Levels(t)[0] = t
    BY LevelsAre
  <2> QED
    BY <1>0, <2>1
<1>2. ASSUME NEW k \in 1..n, k - 1 \in T
      PROVE  k \in T
  <2> DEFINE a == Levels(s)[k - 1]
             b == Levels(t)[k - 1]
             x == Levels(s)[k]
             y == Levels(t)[k]
             l == Len(a)
  <2>1. l = Len(b) /\ \A i \in 2..l : a[i] = b[i]
    BY <1>2 DEF OthersAgree
  <2>2. Len(x) = (l + 1) \div 2
        /\ \A i \in 1..Len(x) : 2 * i - 1 \in 1..l /\ x[i] = <<"pair", a[2 * i - 1], a[IF 2 * i <= l THEN 2 * i ELSE l]>>
    BY NextLevel
  <2>3. Len(y) = (Len(b) + 1) \div 2
        /\ \A i \in 1..Len(y) :
            y[i] = <<"pair", b[2 * i - 1], b[IF 2 * i <= Len(b) THEN 2 * i ELSE Len(b)]>>
    <3>1. k \in 1..Len(t) /\ Len(t) >= 1
      BY DEF OthersAgree
    <3> QED
      BY <3>1, NextLevel
  <2>4. l \in Nat \ {0} /\ Len(x) \in Nat
    <3>1. k - 1 \in 0..n /\ k \in 0..n
      BY <1>0
    <3>2. l \in Nat \ {0}
      BY <3>1, LevelShape
    <3>3. Len(x) \in Nat
      BY <3>1, LevelShape
    <3> QED
      BY <3>2, <3>3
  <2> HIDE DEF a, b, x, y, l
  <2>5. Len(x) = Len(y)
    BY <2>1, <2>2, <2>3
  <2>6. ASSUME NEW i \in 2..Len(x)
        PROVE  x[i] = y[i]
    <3> DEFINE p == 2 * i - 1
               q == IF 2 * i <= l THEN 2 * i ELSE l
    <3>1. i \in 1..Len(x) /\ i \in 1..Len(y)
      BY <2>4, <2>5
    <3>2. p \in 1..l
      BY <2>2, <3>1
    <3>3. p \in 2..l /\ q \in 2..l
      BY <2>4, <3>2
    <3>4. x[i] = <<"pair", a[p], a[q]>>
      BY <2>2, <3>1
    <3>5. y[i] = <<"pair", b[p], b[q]>>
      BY <2>1, <2>3, <3>1
    <3> HIDE DEF p, q
    <3> QED
      BY <2>1, <3>3, <3>4, <3>5
  <2>7. OthersAgree(x, y)
    BY <2>5, <2>6 DEF OthersAgree
  <2> QED
    BY <2>7 DEF x, y
<1> HIDE DEF T
<1>3. 0..n \subseteq T
  <2> HIDE DEF n
  <2> QED
    BY <1>0, <1>1, <1>2, IntervalInduction
<1> QED
  BY <1>3 DEF T

\* The pool's branch, made without the coinbase, is the one of the coinbase.
LEMMA CoinbaseBranch ==
    ASSUME NEW txids, IsSequence(txids), NEW leaves, IsSequence(leaves), Len(leaves) = Len(txids) + 1,
           \A i \in 2..Len(leaves) : leaves[i] = txids[i - 1], Len(leaves) <= Power[MaxDepth]
    PROVE  CoinbaseMerkleBranch(txids) = BranchAt(leaves, 0)
<1> DEFINE other == <<<<"placeholder">>>> \o txids
           n == Len(leaves)
<1>0. Len(txids) \in Nat /\ n \in Nat /\ n >= 1
  BY SequenceShape
<1>1. IsSequence(other) /\ Len(other) = n /\ \A i \in 2..n : leaves[i] = other[i]
  <2>1. IsSequence(other) /\ Len(other) = n
    BY ConsItems
  <2>2. \A i \in 2..Len(txids) + 1 : other[i] = txids[i - 1]
    BY ConsItems
  <2> HIDE DEF other
  <2>3. \A i \in 2..n : leaves[i] = other[i]
    BY <2>2
  <2> QED
    BY <2>1, <2>3
<1>2. CoinbaseMerkleBranch(txids) = [d \in 1..Depth(other) |-> Levels(other)[d - 1][2]]
  BY DEF CoinbaseMerkleBranch
<1> HIDE DEF other
<1>3. \A d \in 0..n : OthersAgree(Levels(leaves)[d], Levels(other)[d])
  <2>1. OthersAgree(leaves, other)
    BY <1>1 DEF OthersAgree
  <2> QED
    BY <1>0, <1>1, <2>1, OtherNodes
<1>4. Depth(other) \in 0..n /\ IsDepth(other, Depth(other))
  BY <1>0, <1>1, DepthIs
<1>5. IsDepth(leaves, Depth(other))
  <2>1. \A e \in 0..Depth(other) - 1 : e \in 0..n
    BY <1>0, <1>4
  <2> QED
    BY <1>3, <1>4, <2>1 DEF IsDepth, OthersAgree
<1>6. Depth(other) = Depth(leaves)
  BY <1>0, <1>4, <1>5, DepthIs
<1>7. ASSUME NEW d \in 1..Depth(leaves)
      PROVE  /\ Levels(other)[d - 1][2] = Levels(leaves)[d - 1][2]
             /\ (IF (0 \div Power[d - 1]) % 2 = 0 THEN (0 \div Power[d - 1]) + 2 ELSE 0 \div Power[d - 1]) = 2
  <2>1. d - 1 \in 0..n /\ d - 1 \in 0..Depth(other) - 1
    BY <1>0, <1>4, <1>6
  <2>2. Len(Levels(leaves)[d - 1]) > 1
    BY <1>5, <2>1 DEF IsDepth
  <2>3. Len(Levels(leaves)[d - 1]) \in Nat
    BY <1>0, <2>1, LevelShape
  <2>4. 2 \in 2..Len(Levels(leaves)[d - 1])
    BY <2>2, <2>3
  <2>5. Levels(leaves)[d - 1][2] = Levels(other)[d - 1][2]
    BY <1>3, <2>1, <2>4 DEF OthersAgree
  <2>6. 0 \div Power[d - 1] = 0
    <3>1. d - 1 \in 0..MaxDepth + SizeBits
      BY <1>0, <1>4, <1>6, DepthBounded, ProofAssumption
    <3>2. Power[d - 1] \in Nat \ {0}
      BY <3>1, PowerAt
    <3> DEFINE p == Power[d - 1]
    <3> HIDE DEF p
    <3>3. p \in Nat \ {0} /\ 0 < p /\ 0 = 0 * p + 0
      BY <3>2 DEF p
    <3>4. 0 \div p = 0
      BY <3>3, DivisionIsUnique
    <3> QED
      BY <3>4 DEF p
  <2> QED
    BY <2>5, <2>6
<1> QED
  BY <1>2, <1>6, <1>7 DEF BranchAt

-----------------------------------------------------------------------------
(* Branches.                                                               *)

\* The nodes on the way from a leaf to the root, and those beside them.
Node(leaves, s, d) == Levels(leaves)[d][(s \div Power[d]) + 1]

Beside(s, d) == IF (s \div Power[d]) % 2 = 0 THEN (s \div Power[d]) + 2 ELSE s \div Power[d]

WayInside(leaves, s) ==
    /\ s < Power[Depth(leaves)]
    /\ \A d \in 0..Depth(leaves) - 1 :
        /\ (s \div Power[d]) + 1 \in 1..Len(Levels(leaves)[d])
        /\ Beside(s, d) \in 1..Len(Levels(leaves)[d])

\* The node above is the one below and the one beside it.
LEMMA NodeAbove ==
    ASSUME NEW leaves, IsSequence(leaves), Len(leaves) >= 1, Len(leaves) <= Power[MaxDepth],
           NEW s \in Nat, WayInside(leaves, s), NEW d \in 1..Depth(leaves)
    PROVE  Node(leaves, s, d) = IF Bit(s, d - 1) = 1
                                THEN <<"pair", Levels(leaves)[d - 1][Beside(s, d - 1)], Node(leaves, s, d - 1)>>
                                ELSE <<"pair", Node(leaves, s, d - 1), Levels(leaves)[d - 1][Beside(s, d - 1)]>>
<1> DEFINE below == Levels(leaves)[d - 1]
           above == Levels(leaves)[d]
           i == s \div Power[d - 1]
           j == (i \div 2) + 1
           l == Len(below)
<1>0. Depth(leaves) \in 0..Len(leaves) /\ Depth(leaves) <= MaxDepth /\ Len(leaves) \in Nat
      /\ MaxDepth \in Nat /\ SizeBits \in Nat
  BY DepthIs, DepthBounded, SequenceShape, ProofAssumption
<1>1. d - 1 \in 0..MaxDepth + SizeBits /\ d \in 0..MaxDepth + SizeBits /\ d > 0
      /\ d \in 1..Len(leaves) /\ d - 1 \in 0..Len(leaves) /\ d - 1 \in 0..Depth(leaves) - 1
  BY <1>0
<1>2. Power[d - 1] \in Nat \ {0} /\ Power[d] = 2 * Power[d - 1]
  BY <1>1, PowerAt
<1>3. s \div Power[d] = i \div 2
  BY <1>2, NextBit
<1>4. i \in Nat
  BY <1>2, DivisionIs
<1>5. l \in Nat
  BY <1>1, LevelShape
<1>6. i + 1 \in 1..l /\ (i % 2 = 0 => Beside(s, d - 1) = i + 2 /\ i + 2 \in 1..l)
      /\ (i % 2 # 0 => Beside(s, d - 1) = i /\ i \in 1..l)
  <2>1. i + 1 \in 1..l /\ Beside(s, d - 1) \in 1..l
    BY <1>1 DEF WayInside
  <2> QED
    BY <2>1 DEF Beside
<1>7. Node(leaves, s, d) = above[j] /\ Node(leaves, s, d - 1) = below[i + 1]
  BY <1>3 DEF Node
<1>8. Bit(s, d - 1) = i % 2
  BY DEF Bit
<1>9. Len(above) = (l + 1) \div 2
      /\ \A k \in 1..Len(above) : above[k] = <<"pair", below[2 * k - 1], below[IF 2 * k <= l THEN 2 * k ELSE l]>>
  BY <1>1, NextLevel
<1> DEFINE b == Beside(s, d - 1)
<1> HIDE DEF below, above, i, l, b
<1>10. j \in 1..Len(above)
  BY <1>4, <1>5, <1>6, <1>9
<1>11. above[j] = <<"pair", below[2 * j - 1], below[IF 2 * j <= l THEN 2 * j ELSE l]>>
  BY <1>9, <1>10
<1>12. CASE i % 2 = 0
  <2>1. 2 * j - 1 = i + 1 /\ 2 * j = i + 2 /\ 2 * j <= l
    BY <1>4, <1>5, <1>6, <1>12
  <2> HIDE DEF j
  <2>2. above[j] = <<"pair", below[i + 1], below[i + 2]>>
    BY <1>11, <2>1
  <2>3. Bit(s, d - 1) # 1 /\ b = i + 2
    BY <1>6, <1>8, <1>12 DEF b
  <2> QED
    BY <1>7, <2>2, <2>3 DEF b, below
<1>13. CASE i % 2 # 0
  <2>1. 2 * j - 1 = i /\ 2 * j = i + 1 /\ 2 * j <= l /\ i % 2 = 1
    BY <1>4, <1>5, <1>6, <1>13
  <2> HIDE DEF j
  <2>2. above[j] = <<"pair", below[i], below[i + 1]>>
    BY <1>11, <2>1
  <2>3. Bit(s, d - 1) = 1 /\ b = i
    BY <1>6, <1>8, <1>13, <2>1 DEF b
  <2> QED
    BY <1>7, <2>2, <2>3 DEF b, below
<1> QED
  BY <1>12, <1>13

\* One step of a branch.
Joined(node, other, bit) == IF bit = 1 THEN <<"pair", other, node>> ELSE <<"pair", node, other>>

\* The equation of check_merkle_branch has a solution.
Walked(leaf, branch, index, n) ==
    CHOOSE at : at = [d \in 0..n |-> IF d = 0 THEN leaf ELSE Joined(at[d - 1], branch[d], Bit(index, d - 1))]

LEMMA WalkedIs ==
    ASSUME NEW leaf, NEW branch, NEW index, NEW n \in Nat,
           NEW at, at = Walked(leaf, branch, index, n)
    PROVE  /\ at[0] = leaf
           /\ \A d \in 1..n : at[d] = Joined(at[d - 1], branch[d], Bit(index, d - 1))
<1> DEFINE G(g, k) == g = [d \in 0..k |-> IF d = 0 THEN leaf ELSE Joined(g[d - 1], branch[d], Bit(index, d - 1))]
           T == {k \in 0..n : \E g : G(g, k)}
<1>1. 0 \in T
  <2>1. G([d \in 0..0 |-> leaf], 0)
    OBVIOUS
  <2>2. \E g : G(g, 0)
    BY <2>1
  <2> HIDE DEF G
  <2> QED
    BY <2>2
<1>2. ASSUME NEW k \in 1..n, k - 1 \in T
      PROVE  k \in T
  <2>1. PICK g : G(g, k - 1)
    BY <1>2
  <2> DEFINE next(x) == Joined(x, branch[k], Bit(index, k - 1))
             h == [d \in 0..k |-> IF d = k THEN next(g[k - 1]) ELSE g[d]]
  <2>2. ASSUME NEW d \in 0..k
        PROVE  h[d] = IF d = 0 THEN leaf ELSE Joined(h[d - 1], branch[d], Bit(index, d - 1))
    <3>1. CASE d = k
      <4>1. h[k] = next(g[k - 1]) /\ h[k - 1] = g[k - 1]
        OBVIOUS
      <4> QED
        BY <3>1, <4>1
    <3>2. CASE d # k
      <4>1. d \in 0..k - 1 /\ h[d] = g[d]
        BY <3>2
      <4>2. g[d] = IF d = 0 THEN leaf ELSE Joined(g[d - 1], branch[d], Bit(index, d - 1))
        BY <2>1, <4>1
      <4>3. d # 0 => h[d - 1] = g[d - 1]
        BY <4>1
      <4> QED
        BY <4>1, <4>2, <4>3
    <3> QED
      BY <3>1, <3>2
  <2>3. h = [d \in 0..k |-> h[d]]
    OBVIOUS
  <2> HIDE DEF h
  <2>4. G(h, k)
    BY <2>2, <2>3
  <2>5. \E y : G(y, k)
    BY <2>4
  <2> HIDE DEF G
  <2> QED
    BY <2>5
<1> HIDE DEF T
<1>3. 0..n \subseteq T
  BY <1>1, <1>2, IntervalInduction
<1>4. \E g : G(g, n)
  <2>1. n \in T
    BY <1>3
  <2> QED
    BY <2>1 DEF T
<1> DEFINE L == Walked(leaf, branch, index, n)
<1>5. G(L, n)
  <2>1. L = CHOOSE g : G(g, n)
    BY DEF Walked
  <2> HIDE DEF G, L
  <2> QED
    BY <1>4, <2>1
<1> HIDE DEF L
<1>6. \A d \in 0..n : L[d] = IF d = 0 THEN leaf ELSE Joined(L[d - 1], branch[d], Bit(index, d - 1))
  BY <1>5
<1>7. L[0] = leaf /\ \A d \in 1..n : L[d] = Joined(L[d - 1], branch[d], Bit(index, d - 1))
  BY <1>6
<1>8. at = L
  BY DEF L
<1> QED
  BY <1>7, <1>8, Zenon

LEMMA WalkIs ==
    ASSUME NEW leaf, NEW branch, NEW index, NEW n \in Nat, Len(branch) = n
    PROVE  \E at : /\ at[0] = leaf
                   /\ \A d \in 1..n : at[d] = Joined(at[d - 1], branch[d], Bit(index, d - 1))
                   /\ CheckMerkleBranch(leaf, branch, index) = at[n]
<1> DEFINE at == Walked(leaf, branch, index, n)
<1>1. at[0] = leaf /\ \A d \in 1..n : at[d] = Joined(at[d - 1], branch[d], Bit(index, d - 1))
  <2>1. at = Walked(leaf, branch, index, n)
    OBVIOUS
  <2> HIDE DEF at
  <2> QED
    BY <2>1, WalkedIs
<1>2. CheckMerkleBranch(leaf, branch, index) = at[n]
  BY Zenon DEF CheckMerkleBranch, Walked, Joined, Bit
<1> HIDE DEF at
<1> QED
  BY <1>1, <1>2, Zenon

\* Two different nodes are joined to one only in one order.
LEMMA JoinedSame ==
    ASSUME NEW x, NEW y, NEW b, b # y, NEW p \in {0, 1}, NEW q \in {0, 1}
    PROVE  Joined(x, b, p) = Joined(y, b, q) <=> x = y /\ p = q
BY DEF Joined

\* A bit is 0 or 1.
LEMMA BitIs ==
    ASSUME NEW x \in Nat, NEW d \in 0..MaxDepth + SizeBits
    PROVE  Bit(x, d) \in {0, 1}
<1>1. Power[d] \in Nat \ {0}
  BY PowerAt
<1> DEFINE q == x \div Power[d]
<1>2. q \in Nat
  BY <1>1, DivisionIs
<1> HIDE DEF q
<1>3. q % 2 \in {0, 1}
  BY <1>2
<1> QED
  BY <1>3 DEF Bit, q

Leads(leaves, s, k) ==
    CheckMerkleBranch(leaves[s + 1], BranchAt(leaves, s), k) = MerkleRoot(leaves)
    <=> k % Power[Depth(leaves)] = s % Power[Depth(leaves)]

\* A branch leads to the root exactly from its leaf's own position.
LEMMA BranchLeads ==
    ASSUME NEW leaves, IsSequence(leaves), Len(leaves) >= 1, Len(leaves) <= Power[MaxDepth], Distinct(leaves),
           NEW s \in Nat, WayInside(leaves, s), NEW k \in Nat
    PROVE  Len(BranchAt(leaves, s)) = Depth(leaves) /\ Leads(leaves, s, k)
<1> DEFINE D == Depth(leaves)
           branch == BranchAt(leaves, s)
           node(d) == Node(leaves, s, d)
           side(d) == Levels(leaves)[d][Beside(s, d)]
<1>0. D \in 0..Len(leaves) /\ D <= MaxDepth /\ Len(leaves) \in Nat /\ MaxDepth \in Nat /\ SizeBits \in Nat
      /\ D \in Nat
  BY DepthIs, DepthBounded, SequenceShape, ProofAssumption
<1>1. Len(branch) = D /\ \A d \in 1..D : branch[d] = side(d - 1)
  <2>1. branch = [d \in 1..D |-> side(d - 1)]
    BY DEF BranchAt, Beside
  <2> HIDE DEF branch, D, side
  <2>2. \A d \in 1..D : branch[d] = side(d - 1)
    BY <2>1
  <2>3. branch = [d \in 1..D |-> branch[d]]
    BY <2>1
  <2>4. Len(branch) = D
    BY <1>0, <2>3, SequenceOf
  <2> QED
    BY <2>2, <2>4
<1>2. PICK at : /\ at[0] = leaves[s + 1]
                /\ \A d \in 1..D : at[d] = Joined(at[d - 1], branch[d], Bit(k, d - 1))
                /\ CheckMerkleBranch(leaves[s + 1], branch, k) = at[D]
  <2>1. D \in Nat /\ Len(branch) = D
    BY <1>0, <1>1
  <2> HIDE DEF branch, D
  <2>2. \E at : /\ at[0] = leaves[s + 1]
                /\ \A d \in 1..D : at[d] = Joined(at[d - 1], branch[d], Bit(k, d - 1))
                /\ CheckMerkleBranch(leaves[s + 1], branch, k) = at[D]
    BY <2>1, WalkIs
  <2> QED
    BY <2>2
<1>3. ASSUME NEW d \in 1..D
      PROVE  /\ node(d) = Joined(node(d - 1), side(d - 1), Bit(s, d - 1))
             /\ side(d - 1) # node(d - 1)
  <2>1. d - 1 \in 0..Len(leaves) /\ d - 1 \in 0..D - 1
    BY <1>0
  <2>2. node(d) = Joined(node(d - 1), side(d - 1), Bit(s, d - 1))
    BY NodeAbove DEF Joined
  <2> DEFINE i == s \div Power[d - 1]
             b == Beside(s, d - 1)
             l == Levels(leaves)[d - 1]
  <2>3. i + 1 \in 1..Len(l) /\ b \in 1..Len(l) /\ node(d - 1) = l[i + 1] /\ side(d - 1) = l[b]
    BY <2>1 DEF WayInside, Node
  <2>4. Distinct(l)
    BY <2>1, NodesDiffer
  <2>5. b # i + 1
    <3>1. b = IF i % 2 = 0 THEN i + 2 ELSE i
      BY DEF Beside
    <3>2. Len(l) \in Nat
      BY <2>1, LevelShape
    <3>3. i \in Nat
      <4>1. d - 1 \in 0..MaxDepth + SizeBits
        BY <1>0
      <4> QED
        BY <4>1, PowerAt, DivisionIs
    <3> HIDE DEF b, i
    <3> QED
      BY <3>1, <3>3
  <2> HIDE DEF b, i, l
  <2>6. l[b] # l[i + 1]
    BY <2>3, <2>4, <2>5 DEF Distinct
  <2> QED
    BY <2>2, <2>3, <2>6
<1> DEFINE Same(d) == \A e \in 0..d - 1 : Bit(k, e) = Bit(s, e)
           T == {d \in 0..D : at[d] = node(d) <=> Same(d)}
<1>4. 0 \in T
  <2>1. node(0) = leaves[s + 1]
    <3>1. s \div 1 = s /\ Power[0] = 1
      BY PowerZero
    <3> QED
      BY <3>1, LevelsAre DEF Node
  <2> HIDE DEF node
  <2> QED
    BY <1>0, <1>2, <2>1
<1>5. ASSUME NEW d \in 1..D, d - 1 \in T
      PROVE  d \in T
  <2>1. at[d - 1] = node(d - 1) <=> Same(d - 1)
    BY <1>5
  <2>2. at[d] = Joined(at[d - 1], side(d - 1), Bit(k, d - 1))
    BY <1>1, <1>2
  <2>3. Bit(k, d - 1) \in {0, 1} /\ Bit(s, d - 1) \in {0, 1}
    <3>1. d - 1 \in 0..MaxDepth + SizeBits
      BY <1>0
    <3> QED
      BY <3>1, BitIs
  <2>4. node(d) = Joined(node(d - 1), side(d - 1), Bit(s, d - 1)) /\ side(d - 1) # node(d - 1)
    BY <1>3
  <2>5. Same(d) <=> Same(d - 1) /\ Bit(k, d - 1) = Bit(s, d - 1)
    <3>1. \A e : e \in 0..d - 1 <=> e \in 0..(d - 1) - 1 \/ e = d - 1
      BY <1>0
    <3> QED
      BY <3>1
  <2> HIDE DEF node, side, Same
  <2>6. at[d] = node(d) <=> at[d - 1] = node(d - 1) /\ Bit(k, d - 1) = Bit(s, d - 1)
    BY <2>2, <2>3, <2>4, JoinedSame
  <2>7. at[d] = node(d) <=> Same(d)
    BY <2>1, <2>5, <2>6
  <2> QED
    BY <2>7
<1>6. at[D] = node(D) <=> Same(D)
  <2> HIDE DEF T
  <2>1. 0..D \subseteq T
    <3> HIDE DEF D
    <3> QED
      BY <1>0, <1>4, <1>5, IntervalInduction
  <2>2. D \in T
    BY <1>0, <2>1
  <2> QED
    BY <2>2 DEF T
<1>7. node(D) = MerkleRoot(leaves)
  <2>1. D \in 0..MaxDepth + SizeBits
    BY <1>0
  <2>2. Power[D] \in Nat \ {0} /\ s < Power[D]
    BY <2>1, PowerAt DEF WayInside
  <2> DEFINE p == Power[D]
  <2>3. p \in Nat \ {0} /\ s < p
    BY <2>2
  <2>4. s \div p = 0
    <3> HIDE DEF p
    <3>1. s = 0 * p + s
      BY <2>3
    <3> QED
      BY <2>3, <3>1, DivisionIsUnique
  <2> QED
    BY <2>4 DEF Node, MerkleRoot
<1>8. Same(D) <=> k % Power[D] = s % Power[D]
  <2> HIDE DEF D
  <2> QED
    BY <1>0, SamePosition
<1> QED
  BY <1>1, <1>2, <1>6, <1>7, <1>8 DEF Leads

IsPair(x) == \E a, b : x = <<"pair", a, b>>

\* A joined node is a pair, and the node it was made from is one of the two.
LEMMA JoinedIs ==
    ASSUME NEW x, NEW y, NEW bit, NEW a, NEW b, Joined(x, y, bit) = <<"pair", a, b>>
    PROVE  IF bit = 1 THEN y = a /\ x = b ELSE x = a /\ y = b
BY DEF Joined

\* Only a leaf's own branch leads from it to the root.
LEMMA OnlyBranch ==
    ASSUME NEW leaves, IsSequence(leaves), Len(leaves) >= 1, Len(leaves) <= Power[MaxDepth], Distinct(leaves),
           \A i \in 1..Len(leaves) : ~IsPair(leaves[i]),
           NEW s \in Nat, s + 1 \in 1..Len(leaves), WayInside(leaves, s), NEW k \in Nat,
           NEW branch, IsSequence(branch), Len(branch) <= MaxDepth,
           CheckMerkleBranch(leaves[s + 1], branch, k) = MerkleRoot(leaves)
    PROVE  branch = BranchAt(leaves, s)
<1> DEFINE D == Depth(leaves)
           n == Len(branch)
           L(d) == Levels(leaves)[d]
           node(d) == Node(leaves, s, d)
           side(d) == L(d)[Beside(s, d)]
<1>0. /\ D \in 0..Len(leaves) /\ D <= MaxDepth /\ Len(leaves) \in Nat /\ D \in Nat /\ n \in Nat
      /\ MaxDepth \in Nat /\ SizeBits \in Nat
  BY DepthIs, DepthBounded, SequenceShape, ProofAssumption
<1>1. PICK at : /\ at[0] = leaves[s + 1]
                /\ \A d \in 1..n : at[d] = Joined(at[d - 1], branch[d], Bit(k, d - 1))
                /\ CheckMerkleBranch(leaves[s + 1], branch, k) = at[n]
  <2> HIDE DEF n
  <2> QED
    BY <1>0, WalkIs DEF n
<1> HIDE DEF D, n
<1>2. L(0) = leaves
  BY LevelsAre
<1> HIDE DEF L
<1>3. \A d \in 1..D : d \in 1..Len(leaves) /\ d - 1 \in 0..Len(leaves)
  BY <1>0
<1>4. ASSUME NEW d \in 1..D, NEW i \in 1..Len(L(d))
      PROVE  LET l == Len(L(d - 1)) IN
             /\ l \in Nat /\ 2 * i - 1 \in 1..l
             /\ L(d)[i] = <<"pair", L(d - 1)[2 * i - 1], L(d - 1)[IF 2 * i <= l THEN 2 * i ELSE l]>>
  <2>1. d \in 1..Len(leaves) /\ d - 1 \in 0..Len(leaves)
    BY <1>3
  <2>2. Len(L(d - 1)) \in Nat
    BY <2>1, LevelShape DEF L
  <2> QED
    BY <1>4, <2>1, <2>2, NextLevel DEF L
<1> DEFINE Inside(x, d) == \E i \in 1..Len(L(d)) : x = L(d)[i]
           m == IF n <= D THEN n ELSE D
           T == {e \in 0..m : Inside(at[n - e], D - e)}
<1>5. 0 \in T
  <2>1. Len(L(D)) = 1
    BY DepthIs DEF IsDepth, D, L
  <2>2. at[n] = L(D)[1]
    BY <1>1 DEF MerkleRoot, D, L
  <2>3. 1 \in 1..Len(L(D)) /\ n - 0 = n /\ D - 0 = D /\ 0 \in 0..m
    BY <1>0, <2>1
  <2> HIDE DEF m
  <2>4. Inside(at[n - 0], D - 0)
    BY <2>2, <2>3
  <2> QED
    BY <2>3, <2>4
<1>6. ASSUME NEW e \in 1..m, e - 1 \in T
      PROVE  e \in T
  <2> DEFINE d == D - (e - 1)
             f == n - (e - 1)
  <2>1. /\ d \in 1..D /\ f \in 1..n /\ d - 1 = D - e /\ f - 1 = n - e /\ e \in 0..m
    BY <1>0
  <2>2. PICK i \in 1..Len(L(d)) : at[f] = L(d)[i]
    BY <1>6
  <2> HIDE DEF d, f
  <2> DEFINE l == Len(L(d - 1))
             j == IF 2 * i <= l THEN 2 * i ELSE l
  <2>3. /\ l \in Nat /\ 2 * i - 1 \in 1..l
        /\ L(d)[i] = <<"pair", L(d - 1)[2 * i - 1], L(d - 1)[j]>>
    BY <1>4, <2>1
  <2>4. i \in Nat
    BY <2>2
  <2> HIDE DEF l
  <2>5. j \in 1..l
    BY <2>3, <2>4
  <2> HIDE DEF j
  <2>6. Joined(at[f - 1], branch[f], Bit(k, f - 1)) = <<"pair", L(d - 1)[2 * i - 1], L(d - 1)[j]>>
    BY <1>1, <2>1, <2>2, <2>3
  <2>7. at[f - 1] = L(d - 1)[2 * i - 1] \/ at[f - 1] = L(d - 1)[j]
    BY <2>6, JoinedIs
  <2>8. Inside(at[f - 1], d - 1)
    BY <2>3, <2>5, <2>7 DEF l
  <2> QED
    BY <2>1, <2>8
<1>7. \A e \in 0..m : Inside(at[n - e], D - e)
  <2>1. m \in Nat
    BY <1>0
  <2> HIDE DEF T, m
  <2>2. 0..m \subseteq T
    BY <1>5, <1>6, <2>1, IntervalInduction
  <2> QED
    BY <2>2 DEF T
<1>8. ASSUME NEW d \in 1..D, NEW x, Inside(x, d)
      PROVE  IsPair(x)
  <2>1. PICK i \in 1..Len(L(d)) : x = L(d)[i]
    BY <1>8
  <2> QED
    BY <1>4, <2>1 DEF IsPair
<1>9. ~IsPair(at[0])
  BY <1>1
<1>10. n = D
  <2>1. CASE n < D
    <3>1. n \in 0..m /\ n - n = 0 /\ D - n \in 1..D
      BY <1>0, <2>1
    <3>2. Inside(at[0], D - n)
      BY <1>7, <3>1
    <3> QED
      BY <1>8, <1>9, <3>1, <3>2
  <2>2. CASE n > D
    <3>1. D \in 0..m /\ D - D = 0 /\ n - D \in 1..n
      BY <1>0, <2>2
    <3>2. Inside(at[n - D], 0)
      BY <1>7, <3>1
    <3>3. ~IsPair(at[n - D])
      BY <1>2, <3>2
    <3>4. at[n - D] = Joined(at[n - D - 1], branch[n - D], Bit(k, n - D - 1))
      BY <1>1, <3>1
    <3> QED
      BY <3>3, <3>4 DEF Joined, IsPair
  <2> QED
    BY <1>0, <2>1, <2>2
<1> DEFINE U(d) == at[d] = node(d) /\ \A e \in 1..d : branch[e] = side(e - 1)
           S == {d \in 0..D : U(d)}
<1>11. 0 \in S
  <2>1. node(0) = leaves[s + 1]
    <3>1. s \div 1 = s /\ Power[0] = 1
      BY PowerZero
    <3> QED
      BY <3>1, LevelsAre DEF Node
  <2> HIDE DEF node
  <2> QED
    BY <1>0, <1>1, <2>1
<1>12. ASSUME NEW d \in 1..D, d - 1 \in S
       PROVE  d \in S
  <2> DEFINE q == s \div Power[d - 1]
             p == q + 1
             b == Beside(s, d - 1)
             l == Len(L(d - 1))
             below == L(d - 1)
  <2>1. d - 1 \in 0..D - 1 /\ d - 1 \in 0..Len(leaves) /\ d - 1 \in 0..MaxDepth + SizeBits /\ D - d \in 0..m
        /\ n - (D - d) = d /\ D - (D - d) = d /\ d \in 1..n
    BY <1>0, <1>10
  <2>2. q \in Nat
    BY <2>1, PowerAt, DivisionIs
  <2>3. p \in 1..l /\ b \in 1..l /\ b = (IF q % 2 = 0 THEN q + 2 ELSE q)
    BY <2>1 DEF WayInside, Beside, D, L
  <2>4. node(d - 1) = below[p] /\ side(d - 1) = below[b]
    BY DEF Node, L
  <2>5. \A x, y \in 1..l : below[x] = below[y] => x = y
    BY <2>1, NodesDiffer DEF Distinct, L
  <2>6. node(d) = IF Bit(s, d - 1) = 1 THEN <<"pair", below[b], below[p]>> ELSE <<"pair", below[p], below[b]>>
    BY <2>4, NodeAbove DEF D, L
  <2>7. Bit(s, d - 1) = q % 2
    BY DEF Bit
  <2>8. PICK i \in 1..Len(L(d)) : at[d] = L(d)[i]
    BY <1>7, <2>1
  <2> DEFINE j == IF 2 * i <= l THEN 2 * i ELSE l
  <2>9. /\ l \in Nat /\ 2 * i - 1 \in 1..l
        /\ L(d)[i] = <<"pair", below[2 * i - 1], below[j]>>
    BY <1>4
  <2>10. i \in Nat
    BY <2>8
  <2>11. at[d - 1] = below[p] /\ \A e \in 1..d - 1 : branch[e] = side(e - 1)
    BY <1>12, <2>4
  <2>12. Joined(below[p], branch[d], Bit(k, d - 1)) = <<"pair", below[2 * i - 1], below[j]>>
    BY <1>1, <2>1, <2>8, <2>9, <2>11
  <2> HIDE DEF q, b, l, below, node, side
  <2>13. l \in Nat /\ i \in Nat /\ 2 * i - 1 \in 1..l
    BY <2>9, <2>10
  <2>14. j = IF 2 * i <= l THEN 2 * i ELSE l
    OBVIOUS
  <2> HIDE DEF j
  <2>15. j \in 1..l
    BY <2>13, <2>14
  <2>16. CASE Bit(k, d - 1) = 1
    <3>1. branch[d] = below[2 * i - 1] /\ below[p] = below[j]
      BY <2>12, <2>16, JoinedIs
    <3>2. p = j
      BY <2>3, <2>5, <2>15, <3>1
    <3>3. 2 * i <= l /\ b = 2 * i - 1 /\ q % 2 = 1
      <4>1. 2 * i <= l
        <5>1. CASE ~(2 * i <= l)
          <6>1. l = 2 * i - 1 /\ q = l - 1 /\ q = 2 * (i - 1)
            BY <2>2, <2>13, <2>14, <3>2, <5>1
          <6>2. q % 2 = 0
            BY <2>13, <6>1
          <6>3. b = l + 1
            BY <2>2, <2>3, <6>1, <6>2
          <6> QED
            BY <2>3, <2>13, <6>3
        <5> QED
          BY <5>1
      <4>2. q = 2 * (i - 1) + 1
        BY <2>2, <2>13, <2>14, <3>2, <4>1
      <4>3. q % 2 = 1
        BY <2>13, <4>2
      <4> QED
        BY <2>3, <2>13, <4>1, <4>2, <4>3
    <3>4. p = 2 * i /\ j = 2 * i
      BY <2>14, <3>2, <3>3
    <3> HIDE DEF p
    <3>5. at[d] = node(d) /\ branch[d] = side(d - 1)
      BY <2>4, <2>6, <2>7, <2>8, <2>9, <3>1, <3>3, <3>4
    <3> QED
      BY <2>11, <3>5
  <2>17. CASE Bit(k, d - 1) # 1
    <3>1. below[p] = below[2 * i - 1] /\ branch[d] = below[j]
      BY <2>12, <2>17, JoinedIs
    <3>2. p = 2 * i - 1
      BY <2>3, <2>5, <2>13, <3>1
    <3>3. q % 2 = 0 /\ b = 2 * i /\ j = 2 * i
      <4>1. q = 2 * (i - 1)
        BY <2>2, <2>13, <3>2
      <4>2. q % 2 = 0
        BY <2>13, <4>1
      <4>3. b = 2 * i
        BY <2>3, <2>13, <4>1, <4>2
      <4>4. 2 * i <= l
        BY <2>3, <2>13, <4>3
      <4> QED
        BY <2>14, <4>2, <4>3, <4>4
    <3> HIDE DEF p
    <3>4. at[d] = node(d) /\ branch[d] = side(d - 1)
      BY <2>4, <2>6, <2>7, <2>8, <2>9, <3>1, <3>2, <3>3
    <3> QED
      BY <2>11, <3>4
  <2> QED
    BY <2>16, <2>17
<1>13. \A d \in 1..D : branch[d] = side(d - 1)
  <2> HIDE DEF S
  <2>1. 0..D \subseteq S
    <3> QED
      BY <1>0, <1>11, <1>12, IntervalInduction
  <2>2. D \in S
    BY <1>0, <2>1
  <2> QED
    BY <2>2 DEF S
<1>14. BranchAt(leaves, s) = [d \in 1..D |-> side(d - 1)]
  BY DEF BranchAt, Beside, D, L
<1>15. branch = [d \in 1..D |-> branch[d]]
  <2>1. branch = [d \in 1..n |-> branch[d]]
    BY SequenceShape DEF n
  <2> QED
    BY <1>10, <2>1
<1> HIDE DEF side
<1> QED
  BY <1>13, <1>14, <1>15

-----------------------------------------------------------------------------
(* What a proof shows.                                                     *)

\* A larger exponent makes no smaller power.
LEMMA PowerGrows ==
    ASSUME NEW a \in 0..MaxDepth + SizeBits, NEW b \in a..MaxDepth + SizeBits
    PROVE  Power[a] <= Power[b]
<1> DEFINE T == {k \in 0..b : k >= a => Power[a] <= Power[k]}
<1>0. MaxDepth + SizeBits \in Nat /\ b \in Nat /\ \A k \in 0..b : k \in 0..MaxDepth + SizeBits
  BY ProofAssumption
<1>1. 0 \in T
  <2>1. Power[a] \in Nat
    BY PowerAt
  <2>2. 0 >= a => a = 0
    BY <1>0
  <2> QED
    BY <1>0, <2>1, <2>2
<1>2. ASSUME NEW k \in 1..b, k - 1 \in T
      PROVE  k \in T
  <2> SUFFICES ASSUME k >= a PROVE Power[a] <= Power[k]
    OBVIOUS
  <2> DEFINE p == Power[a]
             q == Power[k]
             r == Power[k - 1]
  <2>1. k \in 0..b /\ k - 1 \in 0..b /\ k > 0
    BY <1>0
  <2>2. p \in Nat /\ q \in Nat /\ q = 2 * r /\ r \in Nat
    BY <1>0, <2>1, PowerAt
  <2>3. k # a => p <= r
    <3>1. k # a => k - 1 >= a
      BY <1>0, <2>1
    <3> QED
      BY <1>2, <3>1
  <2>4. k = a => p = q
    OBVIOUS
  <2> HIDE DEF p, q, r
  <2>5. p <= q
    BY <2>2, <2>3, <2>4
  <2> QED
    BY <2>5 DEF p, q
<1> HIDE DEF T
<1>3. 0..b \subseteq T
  BY <1>0, <1>1, <1>2, IntervalInduction
<1>4. b \in T
  BY <1>0, <1>3
<1> QED
  BY <1>0, <1>4 DEF T

Fits(size, h) == Power[h] <= size /\ size < Power[h + 1]

\* The height of a tree is the power its size is between.
LEMMA HeightIs ==
    ASSUME NEW size \in 1..Power[SizeBits] - 1
    PROVE  /\ AuxTreeHeight(size) \in 0..SizeBits - 1
           /\ \A h \in 0..SizeBits - 1 : size = Power[h] => AuxTreeHeight(size) = h
<1> DEFINE S == {k \in 0..SizeBits : size < Power[k]}
<1>0. size \in Nat /\ size >= 1 /\ MaxDepth \in Nat /\ SizeBits \in Nat \ {0} /\ size <= Power[SizeBits] - 1
      /\ \A k \in 0..SizeBits : k \in 0..MaxDepth + SizeBits
  <2>1. MaxDepth \in Nat /\ SizeBits \in Nat \ {0}
    BY ProofAssumption
  <2>2. SizeBits \in 0..MaxDepth + SizeBits
    BY <2>1
  <2>3. Power[SizeBits] \in Nat
    BY <2>2, PowerAt
  <2> QED
    BY <2>1, <2>3
<1>1. PICK k \in S : \A l \in S : k <= l
  <2>1. Power[SizeBits] \in Nat
    BY <1>0, PowerAt
  <2>2. SizeBits \in S
    BY <1>0, <2>1
  <2>3. S \in SUBSET Nat
    BY <1>0
  <2> HIDE DEF S
  <2> QED
    BY <2>2, <2>3, Least
<1>2. k - 1 \in 0..SizeBits - 1 /\ Fits(size, k - 1)
  <2>1. k # 0
    <3>1. ~(size < 1) /\ Power[0] = 1
      BY <1>0, PowerZero
    <3> QED
      BY <1>1, <3>1
  <2>2. k \in 0..SizeBits /\ k - 1 \in 0..SizeBits /\ k - 1 \in 0..SizeBits - 1 /\ (k - 1) + 1 = k
    BY <1>0, <1>1, <2>1
  <2>3. k - 1 \notin S
    BY <1>1, <2>2
  <2>4. Power[k - 1] \in Nat
    BY <1>0, <2>2, PowerAt
  <2>5. Power[k - 1] <= size
    BY <1>0, <2>2, <2>3, <2>4
  <2> QED
    BY <1>1, <2>2, <2>5 DEF Fits
<1>3. AuxTreeHeight(size) \in 0..SizeBits - 1 /\ Fits(size, AuxTreeHeight(size))
  <2>1. AuxTreeHeight(size) = CHOOSE h \in 0..SizeBits - 1 : Fits(size, h)
    BY DEF AuxTreeHeight, Fits
  <2> QED
    BY <1>2, <2>1
<1>4. ASSUME NEW h \in 0..SizeBits - 1, size = Power[h]
      PROVE  AuxTreeHeight(size) = h
  <2> DEFINE a == AuxTreeHeight(size)
  <2>1. a \in 0..SizeBits - 1 /\ Power[a] <= size /\ size < Power[a + 1]
    BY <1>3 DEF Fits
  <2> HIDE DEF a
  <2>2. Power[h] \in Nat \ {0} /\ Power[a] \in Nat \ {0} /\ Power[a + 1] \in Nat /\ Power[h + 1] \in Nat
        /\ Power[h + 1] = 2 * Power[h]
    <3>1. h \in 0..MaxDepth + SizeBits /\ a \in 0..MaxDepth + SizeBits /\ a + 1 \in 0..MaxDepth + SizeBits
          /\ h + 1 \in 0..MaxDepth + SizeBits /\ h + 1 > 0 /\ (h + 1) - 1 = h
      BY <1>0, <2>1
    <3>2. Power[h + 1] = 2 * Power[(h + 1) - 1]
      BY <3>1, PowerAt
    <3> QED
      BY <3>1, <3>2, PowerAt
  <2>3. ~(a < h)
    <3>1. ASSUME a < h PROVE FALSE
      <4>1. a + 1 \in 0..MaxDepth + SizeBits /\ h \in a + 1..MaxDepth + SizeBits
        BY <1>0, <2>1, <3>1
      <4>2. Power[a + 1] <= Power[h]
        BY <4>1, PowerGrows
      <4> QED
        BY <1>4, <2>1, <2>2, <4>2
    <3> QED
      BY <3>1
  <2>4. ~(h < a)
    <3>1. ASSUME h < a PROVE FALSE
      <4>1. h + 1 \in 0..MaxDepth + SizeBits /\ a \in h + 1..MaxDepth + SizeBits
        BY <1>0, <2>1, <3>1
      <4>2. Power[h + 1] <= Power[a]
        BY <4>1, PowerGrows
      <4> QED
        BY <1>4, <2>1, <2>2, <4>2
    <3> QED
      BY <3>1
  <2>5. a = h
    BY <1>0, <2>1, <2>3, <2>4
  <2> QED
    BY <2>5 DEF a
<1> QED
  BY <1>3, <1>4

\* No other branch leads from a leaf to the root.
OnlyWay(leaf, leaves, s, k) ==
    \A b : IsSequence(b) /\ Len(b) <= MaxDepth /\ CheckMerkleBranch(leaf, b, k) = MerkleRoot(leaves)
             => b = BranchAt(leaves, s)

OursAt(tree, h, slot) == \A i \in 1..Power[h] : tree[i] = Ours <=> i = slot + 1

LeadsToOurs(tree, slot, h, k) ==
    CheckMerkleBranch(Ours, BranchAt(tree, slot), k) = MerkleRoot(tree) <=> tree[(k % Power[h]) + 1] = Ours

\* Ours is in the slot its index says.
LEMMA SlotShows ==
    ASSUME NEW h \in 0..MaxDepth, NEW slot \in 0..Power[h] - 1, NEW k \in Nat, NEW tree,
           tree = [i \in 1..Power[h] |-> IF i = slot + 1 THEN Ours ELSE <<"aux", i>>]
    PROVE  /\ Len(BranchAt(tree, slot)) = h /\ LeadsToOurs(tree, slot, h, k)
           /\ Depth(tree) = h /\ OursAt(tree, h, slot)
           /\ OnlyWay(Ours, tree, slot, k)
<1>0. MaxDepth \in Nat /\ SizeBits \in Nat /\ h \in Nat /\ h <= MaxDepth
  BY ProofAssumption
<1>1. Power[h] \in Nat \ {0} /\ h \in 0..MaxDepth + SizeBits /\ MaxDepth \in h..MaxDepth + SizeBits
  <2>1. h \in 0..MaxDepth + SizeBits /\ MaxDepth \in h..MaxDepth + SizeBits
    BY <1>0
  <2> QED
    BY <2>1, PowerAt
<1> DEFINE p == Power[h]
<1>2. p \in Nat \ {0} /\ slot \in Nat /\ slot < p
  BY <1>1
<1> HIDE DEF p
<1>3. \A i \in 1..p : tree[i] = IF i = slot + 1 THEN Ours ELSE <<"aux", i>>
  BY DEF p
<1>4. IsSequence(tree) /\ Len(tree) = p
  <2>1. tree = [i \in 1..p |-> tree[i]]
    BY DEF p
  <2> QED
    BY <1>2, <2>1, SequenceOf
<1>5. Len(tree) >= 1 /\ Len(tree) <= Power[MaxDepth]
  BY <1>1, <1>2, <1>4, PowerGrows DEF p
<1>6. \A i \in 1..p : tree[i] = Ours <=> i = slot + 1
  <2>1. \A i \in 1..p : <<"aux", i>> # <<"aux", 0>>
    BY <1>2
  <2> QED
    BY <1>3, <2>1 DEF Ours
<1>7. Distinct(tree)
  <2>1. ASSUME NEW i \in 1..p, NEW j \in 1..p, tree[i] = tree[j]
        PROVE  i = j
    BY <1>3, <1>6, <2>1
  <2> QED
    BY <1>4, <2>1 DEF Distinct
<1>8. Depth(tree) = h /\ \A d \in 0..h : Len(Levels(tree)[d]) = Power[h - d]
  BY <1>4, FullTree DEF p
<1>9. WayInside(tree, slot)
  <2>1. ASSUME NEW d \in 0..h - 1
        PROVE  /\ (slot \div Power[d]) + 1 \in 1..Len(Levels(tree)[d])
               /\ Beside(slot, d) \in 1..Len(Levels(tree)[d])
    <3> DEFINE i == slot \div Power[d]
               l == Len(Levels(tree)[d])
               m == Power[(h - d) - 1]
    <3>1. d \in 0..h /\ h - d \in 0..MaxDepth + SizeBits /\ h - d > 0 /\ (h - d) - 1 \in 0..MaxDepth + SizeBits
      BY <1>0
    <3>2. i \in Nat /\ i < Power[h - d]
      BY <1>0, <1>2, <3>1, PositionAbove DEF p
    <3>3. l = Power[h - d]
      BY <1>8, <3>1
    <3>4. Power[h - d] = 2 * m
      BY <3>1, PowerAt
    <3>5. m \in Nat
      BY <3>1, PowerAt
    <3>6. Beside(slot, d) = IF i % 2 = 0 THEN i + 2 ELSE i
      BY DEF Beside
    <3> DEFINE b == Beside(slot, d)
    <3> HIDE DEF i, l, m, b
    <3>7. i < l /\ l = 2 * m
      BY <3>2, <3>3, <3>4
    <3>8. i + 1 \in 1..l /\ b \in 1..l
      BY <3>2, <3>5, <3>6, <3>7 DEF b
    <3> QED
      BY <3>8 DEF i, l, b
  <2> QED
    BY <1>2, <1>8, <2>1 DEF WayInside, p
<1>10. tree[slot + 1] = Ours
  BY <1>2, <1>6
<1>11. Len(BranchAt(tree, slot)) = h
  BY <1>2, <1>4, <1>5, <1>7, <1>8, <1>9, BranchLeads
<1>12. CheckMerkleBranch(tree[slot + 1], BranchAt(tree, slot), k) = MerkleRoot(tree)
       <=> k % Power[Depth(tree)] = slot % Power[Depth(tree)]
  <2>1. Leads(tree, slot, k)
    BY <1>2, <1>4, <1>5, <1>7, <1>9, BranchLeads
  <2> QED
    BY <2>1 DEF Leads
<1>13. slot % p = slot
  <2>1. slot = 0 * p + slot
    BY <1>2
  <2> QED
    BY <1>2, <2>1, DivisionIsUnique
<1> DEFINE r == k % p
<1>14. r \in Nat /\ r < p
  BY <1>2, DivisionIs
<1>15. CheckMerkleBranch(Ours, BranchAt(tree, slot), k) = MerkleRoot(tree) <=> r = slot
  BY <1>8, <1>10, <1>12, <1>13 DEF p
<1> HIDE DEF r
<1>16. tree[r + 1] = Ours <=> r = slot
  <2>1. r + 1 \in 1..p
    BY <1>2, <1>14
  <2>2. tree[r + 1] = Ours <=> r + 1 = slot + 1
    BY <1>6, <2>1
  <2>3. r + 1 = slot + 1 <=> r = slot
    BY <1>2, <1>14
  <2> QED
    BY <2>2, <2>3
<1>17. LeadsToOurs(tree, slot, h, k)
  BY <1>15, <1>16 DEF r, p, LeadsToOurs
<1>18. OnlyWay(Ours, tree, slot, k)
  <2>1. ASSUME NEW i \in 1..Len(tree) PROVE ~IsPair(tree[i])
    <3>1. ~IsPair(Ours) /\ ~IsPair(<<"aux", i>>)
      BY DEF IsPair, Ours
    <3>2. tree[i] = Ours \/ tree[i] = <<"aux", i>>
      BY <1>3, <1>4
    <3> QED
      BY <3>1, <3>2
  <2>2. slot + 1 \in 1..Len(tree)
    <3>1. slot + 1 \in 1..p
      BY <1>2
    <3> QED
      BY <1>4, <3>1
  <2> QED
    BY <1>2, <1>4, <1>5, <1>7, <1>9, <1>10, <2>1, <2>2, OnlyBranch DEF OnlyWay
<1> QED
  BY <1>6, <1>8, <1>11, <1>17, <1>18 DEF p, OursAt

\* The coinbase is the first transaction its index says.
LEMMA CoinbaseShows ==
    ASSUME NEW n \in Transactions, NEW data, NEW k \in Nat
    PROVE  LET branch == CoinbaseMerkleBranch(Others(n))
           IN  /\ Len(branch) \in Nat /\ Len(branch) <= MaxDepth
               /\ CheckMerkleBranch(<<"coinbase", data>>, branch, k) = MerkleRoot(<<<<"coinbase", data>>>> \o Others(n))
                  <=> k % Power[Len(branch)] = 0
               /\ branch = BranchAt(<<<<"coinbase", data>>>> \o Others(n), 0)
               /\ OnlyWay(<<"coinbase", data>>, <<<<"coinbase", data>>>> \o Others(n), 0, k)
<1> DEFINE x == <<"coinbase", data>>
           txs == Others(n)
           leaves == <<x>> \o txs
           branch == CoinbaseMerkleBranch(txs)
<1>0. n \in Nat /\ n <= Power[MaxDepth] - 1 /\ Power[MaxDepth] \in Nat
  <2>1. MaxDepth \in 0..MaxDepth + SizeBits /\ n \in 0..Power[MaxDepth] - 1
    BY ProofAssumption
  <2> QED
    BY <2>1, PowerAt
<1>1. IsSequence(txs) /\ Len(txs) = n /\ \A i \in 1..n : txs[i] = <<"tx", i>>
  <2>1. txs = [i \in 1..n |-> <<"tx", i>>]
    BY DEF Others
  <2> HIDE DEF txs
  <2>2. \A i \in 1..n : txs[i] = <<"tx", i>>
    BY <2>1
  <2>3. txs = [i \in 1..n |-> txs[i]]
    BY <2>1
  <2>4. IsSequence(txs) /\ Len(txs) = n
    BY <1>0, <2>3, SequenceOf
  <2> QED
    BY <2>2, <2>4
<1> HIDE DEF txs
<1>2. IsSequence(leaves) /\ Len(leaves) = n + 1 /\ leaves[1] = x
  <2> HIDE DEF x
  <2> QED
    BY <1>1, ConsItems
<1>3. \A i \in 2..n + 1 : leaves[i] = txs[i - 1]
  <2> HIDE DEF x
  <2>1. \A i \in 2..Len(txs) + 1 : leaves[i] = txs[i - 1]
    BY <1>1, ConsItems
  <2> QED
    BY <1>1, <2>1
<1> HIDE DEF leaves
<1>4. Len(leaves) >= 1 /\ Len(leaves) <= Power[MaxDepth]
  BY <1>0, <1>2
<1>5. Distinct(leaves)
  <2>1. \A i \in 2..n + 1 : leaves[i] = <<"tx", i - 1>>
    BY <1>0, <1>1, <1>3
  <2>2. ASSUME NEW i \in 1..n + 1, NEW j \in 1..n + 1, leaves[i] = leaves[j]
        PROVE  i = j
    <3>1. ASSUME NEW e \in 2..n + 1
          PROVE  leaves[e] # x
      BY <2>1
    <3>2. CASE i = 1 \/ j = 1
      BY <1>0, <1>2, <2>2, <3>1, <3>2
    <3>3. CASE i # 1 /\ j # 1
      <4>1. i \in 2..n + 1 /\ j \in 2..n + 1
        BY <1>0, <3>3
      <4>2. <<"tx", i - 1>> = <<"tx", j - 1>>
        BY <2>1, <2>2, <4>1
      <4>3. i - 1 = j - 1
        BY <4>2
      <4> QED
        BY <1>0, <4>3
    <3> QED
      BY <3>2, <3>3
  <2> QED
    BY <1>2, <2>2 DEF Distinct
<1>6. branch = BranchAt(leaves, 0)
  <2>1. Len(leaves) = Len(txs) + 1 /\ \A i \in 2..Len(leaves) : leaves[i] = txs[i - 1]
    BY <1>1, <1>2, <1>3
  <2> QED
    BY <1>1, <1>2, <1>4, <2>1, CoinbaseBranch
<1> DEFINE D == Depth(leaves)
<1>7. D \in 0..n + 1 /\ D <= MaxDepth /\ IsDepth(leaves, D) /\ D \in 0..MaxDepth + SizeBits
  <2>1. D \in 0..Len(leaves) /\ IsDepth(leaves, D) /\ D <= MaxDepth
    BY <1>2, <1>4, DepthIs, DepthBounded
  <2> HIDE DEF D
  <2> QED
    BY <1>0, <1>2, <2>1, ProofAssumption
<1>8. \A p \in Nat \ {0} : 0 \div p = 0 /\ 0 % p = 0
  <2>1. ASSUME NEW p \in Nat \ {0}
        PROVE  0 \div p = 0 /\ 0 % p = 0
    <3>1. 0 < p /\ 0 = 0 * p + 0
      OBVIOUS
    <3> QED
      BY <3>1, DivisionIsUnique
  <2> QED
    BY <2>1
<1>9. WayInside(leaves, 0)
  <2>1. 0 < Power[D]
    <3>1. Power[D] \in Nat \ {0}
      BY <1>7, PowerAt
    <3> QED
      BY <3>1
  <2>2. ASSUME NEW d \in 0..D - 1
        PROVE  /\ (0 \div Power[d]) + 1 \in 1..Len(Levels(leaves)[d])
               /\ Beside(0, d) \in 1..Len(Levels(leaves)[d])
    <3>1. d \in 0..MaxDepth + SizeBits /\ d \in 0..Len(leaves)
      BY <1>0, <1>2, <1>7, ProofAssumption
    <3>2. 0 \div Power[d] = 0
      BY <1>8, <3>1, PowerAt
    <3>3. Beside(0, d) = 2
      BY <3>2 DEF Beside
    <3> DEFINE l == Len(Levels(leaves)[d])
    <3>4. l \in Nat /\ l > 1
      <4>1. l > 1
        BY <1>7 DEF IsDepth
      <4>2. l \in Nat
        BY <1>2, <1>4, <3>1, LevelShape
      <4> QED
        BY <4>1, <4>2
    <3> HIDE DEF l
    <3>5. 1 \in 1..l /\ 2 \in 1..l
      BY <3>4
    <3> QED
      BY <3>2, <3>3, <3>5 DEF l
  <2> QED
    BY <2>1, <2>2 DEF WayInside
<1>10. Len(BranchAt(leaves, 0)) = D
  BY <1>2, <1>4, <1>5, <1>9, BranchLeads
<1>11. CheckMerkleBranch(leaves[0 + 1], BranchAt(leaves, 0), k) = MerkleRoot(leaves) <=> k % Power[D] = 0 % Power[D]
  <2>1. Leads(leaves, 0, k)
    BY <1>2, <1>4, <1>5, <1>9, BranchLeads
  <2> QED
    BY <2>1 DEF Leads
<1>12. 0 % Power[D] = 0 /\ leaves[0 + 1] = x
  <2>1. Power[D] \in Nat \ {0}
    BY <1>7, PowerAt
  <2> QED
    BY <1>2, <1>8, <2>1
<1>15. ~IsPair(x)
  BY DEF IsPair
<1> HIDE DEF D, branch, x
<1>16. OnlyWay(x, leaves, 0, k)
  <2>1. \A i \in 2..n + 1 : leaves[i] = <<"tx", i - 1>>
    BY <1>0, <1>1, <1>3
  <2>2. ASSUME NEW i \in 1..Len(leaves) PROVE ~IsPair(leaves[i])
    <3>1. CASE i = 1
      BY <1>2, <1>15, <3>1
    <3>2. CASE i # 1
      <4>1. leaves[i] = <<"tx", i - 1>>
        BY <1>0, <1>2, <2>1, <3>2
      <4> QED
        BY <4>1 DEF IsPair
    <3> QED
      BY <3>1, <3>2
  <2>3. 0 + 1 \in 1..Len(leaves)
    BY <1>0, <1>2
  <2> QED
    BY <1>2, <1>4, <1>5, <1>9, <1>12, <2>2, <2>3, OnlyBranch DEF OnlyWay
<1>13. Len(branch) = D /\ (CheckMerkleBranch(x, branch, k) = MerkleRoot(leaves) <=> k % Power[D] = 0)
  BY <1>6, <1>10, <1>11, <1>12
<1>14. D \in Nat
  BY <1>7
<1> QED
  BY <1>6, <1>7, <1>13, <1>14, <1>16 DEF branch, x, txs, leaves

\* The coinbase's branch is a sequence.
LEMMA CoinbaseBranchIs ==
    ASSUME NEW n \in Transactions
    PROVE  IsSequence(CoinbaseMerkleBranch(Others(n)))
<1> DEFINE branch == CoinbaseMerkleBranch(Others(n))
           leaves == <<<<"placeholder">>>> \o Others(n)
<1>1. IsSequence(leaves) /\ Len(leaves) >= 1
  <2>1. n \in Nat
    BY ProofAssumption
  <2> DEFINE txs == Others(n)
  <2>2. txs = [i \in 1..n |-> txs[i]]
    BY DEF Others
  <2> HIDE DEF txs
  <2>3. IsSequence(txs) /\ Len(txs) = n
    BY <2>1, <2>2, SequenceOf
  <2>4. IsSequence(<<<<"placeholder">>>> \o txs) /\ Len(<<<<"placeholder">>>> \o txs) = n + 1
    BY <2>3, ConsItems
  <2> QED
    BY <2>1, <2>4 DEF txs
<1> HIDE DEF leaves
<1>2. Depth(leaves) \in Nat
  <2>1. Len(leaves) \in Nat /\ Depth(leaves) \in 0..Len(leaves)
    BY <1>1, DepthIs, SequenceShape
  <2> QED
    BY <2>1
<1>3. branch = [d \in 1..Depth(leaves) |-> branch[d]]
  BY DEF CoinbaseMerkleBranch, leaves
<1> HIDE DEF branch
<1>4. IsSequence(branch)
  BY <1>2, <1>3, SequenceOf
<1> QED
  BY <1>4 DEF branch

\* The answer is the one validate_auxpow gives to a proof that stays, and that
\* answer is exact.
ProofIsJudged ==
    /\ proof # <<>> => (ValidateAuxpow(proof, parent.works) <=> Shown(proof, parent, slots))
    /\ accepted # "new" => proof # <<>> /\ (accepted = "yes" <=> ValidateAuxpow(proof, parent.works))

\* The commitment and the slot, for a single commitment.
CommitsTo(c, branch, index) ==
    /\ c.size >= 1 /\ c.root = CheckMerkleBranch(Ours, branch, index)
    /\ c.size = Power[AuxTreeHeight(c.size)]
    /\ index = GetExpectedIndex(c.nonce, AuxTreeHeight(c.size))

JudgedBy(p, c, work) ==
    ValidateAuxpow(p, work) <=>
        /\ ChainId # 0 /\ Len(p.coinbaseBranch) <= MaxDepth /\ Len(p.auxBranch) <= MaxDepth
        /\ p.isCoinbase /\ CommitsTo(c, p.auxBranch, p.auxIndex)
        /\ p.parentRoot = CheckMerkleBranch(<<"coinbase", p.data>>, p.coinbaseBranch, p.coinbaseIndex)
        /\ work

\* One commitment is looked at if it has a size.
LEMMA OneCommitment ==
    ASSUME NEW p, NEW c, p.data = <<c>>, c.size \in Nat, NEW work
    PROVE  JudgedBy(p, c, work)
<1>1. Len(p.data) = 1 /\ p.data[1] = c
  OBVIOUS
<1>2. ParseCommitment(p.data) = {i \in {1} : p.data[i].size >= 1}
  BY <1>1 DEF ParseCommitment
<1>3. ParseCommitment(p.data) = {1} <=> c.size >= 1
  BY <1>1, <1>2
<1> DEFINE Part(i) == /\ ParseCommitment(p.data) = {i}
                      /\ p.data[i].root = CheckMerkleBranch(Ours, p.auxBranch, p.auxIndex)
                      /\ p.data[i].size = Power[AuxTreeHeight(p.data[i].size)]
                      /\ p.auxIndex = GetExpectedIndex(p.data[i].nonce, AuxTreeHeight(p.data[i].size))
<1>4. (\E i \in 1..Len(p.data) : Part(i)) <=> Part(1)
  <2> HIDE DEF Part
  <2> QED
    BY <1>1
<1>5. Part(1) <=> CommitsTo(c, p.auxBranch, p.auxIndex)
  BY <1>1, <1>3 DEF CommitsTo
<1>6. ValidateAuxpow(p, work) <=>
          /\ ChainId # 0 /\ Len(p.coinbaseBranch) <= MaxDepth /\ Len(p.auxBranch) <= MaxDepth
          /\ p.isCoinbase /\ \E i \in 1..Len(p.data) : Part(i)
          /\ p.parentRoot = CheckMerkleBranch(<<"coinbase", p.data>>, p.coinbaseBranch, p.coinbaseIndex)
          /\ work
  BY DEF ValidateAuxpow
<1> HIDE DEF Part
<1> QED
  BY <1>4, <1>5, <1>6 DEF JudgedBy

\* A commitment asks for the slot of its nonce in a tree of its size.
LEMMA CommitsIs ==
    ASSUME NEW c, c.size \in 0..Power[SizeBits] - 1, NEW branch, NEW index
    PROVE  CommitsTo(c, branch, index) <=>
               /\ c.root = CheckMerkleBranch(Ours, branch, index)
               /\ \E height \in 0..SizeBits - 1 :
                    c.size = Power[height] /\ index = GetExpectedIndex(c.nonce, height)
<1> DEFINE size == c.size
           root == c.root = CheckMerkleBranch(Ours, branch, index)
           At(height) == size = Power[height] /\ index = GetExpectedIndex(c.nonce, height)
<1>1. CommitsTo(c, branch, index) <=> root /\ size >= 1 /\ At(AuxTreeHeight(size))
  BY DEF CommitsTo
<1>2. \A height \in 0..SizeBits - 1 : Power[height] \in Nat \ {0}
  <2>1. \A height \in 0..SizeBits - 1 : height \in 0..MaxDepth + SizeBits
    BY ProofAssumption
  <2> QED
    BY <2>1, PowerAt
<1>3. Power[SizeBits] \in Nat /\ size \in 0..Power[SizeBits] - 1
  <2>1. SizeBits \in 0..MaxDepth + SizeBits
    BY ProofAssumption
  <2> QED
    BY <2>1, PowerAt
<1>4. ASSUME NEW height \in 0..SizeBits - 1, At(height)
      PROVE  size >= 1 /\ At(AuxTreeHeight(size))
  <2>1. size = Power[height] /\ size \in Nat \ {0}
    BY <1>2, <1>4
  <2>2. size \in 1..Power[SizeBits] - 1
    <3> HIDE DEF size
    <3> QED
      BY <1>3, <2>1
  <2> HIDE DEF size, At
  <2>3. AuxTreeHeight(size) = height
    BY <2>1, <2>2, HeightIs
  <2> QED
    BY <1>4, <2>2, <2>3
<1>5. ASSUME size >= 1
      PROVE  AuxTreeHeight(size) \in 0..SizeBits - 1
  <2> HIDE DEF size
  <2>1. size \in 1..Power[SizeBits] - 1
    BY <1>3, <1>5
  <2> QED
    BY <2>1, HeightIs
<1>6. size >= 1 /\ At(AuxTreeHeight(size)) <=> \E height \in 0..SizeBits - 1 : At(height)
  <2> HIDE DEF At, size
  <2> QED
    BY <1>4, <1>5
<1>7. CommitsTo(c, branch, index) <=> root /\ \E height \in 0..SizeBits - 1 : At(height)
  <2> HIDE DEF At, size, root
  <2> QED
    BY <1>1, <1>6
<1> QED
  BY <1>7

\* Ours is in the slot that the index says, and the branch is the slot's.
InSlot(tree, b, k) ==
    /\ Len(b) = Depth(tree) /\ tree[(k % Power[Len(b)]) + 1] = Ours
    /\ b = BranchAt(tree, k % Power[Len(b)])

LEMMA SlotJudged ==
    ASSUME NEW h \in 0..MaxDepth, NEW slot \in 0..Power[h] - 1, NEW k \in Nat, NEW tree,
           tree = [i \in 1..Power[h] |-> IF i = slot + 1 THEN Ours ELSE <<"aux", i>>], NEW b, IsSequence(b)
    PROVE  Len(b) <= MaxDepth /\ CheckMerkleBranch(Ours, b, k) = MerkleRoot(tree) <=> InSlot(tree, b, k)
<1> DEFINE way == BranchAt(tree, slot)
           r == k % Power[h]
<1>1. /\ Len(way) = h /\ LeadsToOurs(tree, slot, h, k) /\ Depth(tree) = h
      /\ OursAt(tree, h, slot) /\ OnlyWay(Ours, tree, slot, k)
  BY SlotShows
<1>2. h \in Nat /\ h <= MaxDepth /\ Power[h] \in Nat \ {0} /\ slot \in Nat
  <2>1. MaxDepth \in Nat /\ SizeBits \in Nat
    BY ProofAssumption
  <2>2. h \in 0..MaxDepth + SizeBits
    BY <2>1
  <2> QED
    BY <2>1, <2>2, PowerAt
<1>3. r \in Nat /\ r < Power[h]
  BY <1>2, DivisionIs
<1> HIDE DEF way, r
<1>4. tree[r + 1] = Ours <=> r = slot
  <2>1. r + 1 \in 1..Power[h]
    BY <1>2, <1>3
  <2>2. tree[r + 1] = Ours <=> r + 1 = slot + 1
    BY <1>1, <2>1 DEF OursAt
  <2> QED
    BY <1>2, <1>3, <2>2
<1>5. CheckMerkleBranch(Ours, way, k) = MerkleRoot(tree) <=> tree[r + 1] = Ours
  BY <1>1 DEF LeadsToOurs, way, r
<1>6. ASSUME Len(b) <= MaxDepth, CheckMerkleBranch(Ours, b, k) = MerkleRoot(tree)
      PROVE  InSlot(tree, b, k)
  <2>1. b = way
    BY <1>1, <1>6 DEF OnlyWay, way
  <2>2. Len(b) = h /\ r = slot
    BY <1>1, <1>4, <1>5, <1>6, <2>1
  <2> QED
    BY <1>1, <1>4, <2>1, <2>2 DEF InSlot, way, r
<1>7. ASSUME InSlot(tree, b, k)
      PROVE  Len(b) <= MaxDepth /\ CheckMerkleBranch(Ours, b, k) = MerkleRoot(tree)
  <2>1. Len(b) = h /\ tree[r + 1] = Ours /\ b = BranchAt(tree, r)
    BY <1>1, <1>7 DEF InSlot, r
  <2> QED
    BY <1>2, <1>4, <1>5, <2>1 DEF way
<1> QED
  BY <1>6, <1>7

\* The coinbase is first, and the branch is its own.
ParentNodes(data, n) == <<<<"coinbase", data>>>> \o Others(n)

IsFirst(data, nodes, b, k) ==
    Len(b) <= MaxDepth /\ CheckMerkleBranch(<<"coinbase", data>>, b, k) = MerkleRoot(nodes)
    <=> k % Power[Len(b)] = 0 /\ b = BranchAt(nodes, 0)

LEMMA FirstJudged ==
    ASSUME NEW n \in Transactions, NEW data, NEW nodes, nodes = ParentNodes(data, n),
           NEW k \in Nat, NEW b, IsSequence(b)
    PROVE  IsFirst(data, nodes, b, k)
<1> DEFINE x == <<"coinbase", data>>
           branch == CoinbaseMerkleBranch(Others(n))
<1>1. /\ Len(branch) <= MaxDepth /\ branch = BranchAt(nodes, 0) /\ OnlyWay(x, nodes, 0, k)
      /\ CheckMerkleBranch(x, branch, k) = MerkleRoot(nodes) <=> k % Power[Len(branch)] = 0
  BY CoinbaseShows DEF ParentNodes
<1> HIDE DEF x, branch
<1>2. Len(b) <= MaxDepth /\ CheckMerkleBranch(x, b, k) = MerkleRoot(nodes) => b = branch
  BY <1>1 DEF OnlyWay
<1>3. Len(b) <= MaxDepth /\ CheckMerkleBranch(x, b, k) = MerkleRoot(nodes)
      <=> k % Power[Len(b)] = 0 /\ b = BranchAt(nodes, 0)
  BY <1>1, <1>2
<1> QED
  BY <1>3 DEF x, IsFirst

\* A proof with one commitment, to a tree with ours in a slot, is judged exactly,
\* whatever its branches and indices are.
OursIn(tree, h, slot) == tree = [i \in 1..Power[h] |-> IF i = slot + 1 THEN Ours ELSE <<"aux", i>>]

Commits(c, data, tree) ==
    c.size \in 0..Power[SizeBits] - 1 /\ c.root = MerkleRoot(tree) /\ data = <<c>>

Speaks(p, data, nodes) ==
    /\ p.data = data /\ p.parentRoot = MerkleRoot(nodes) /\ IsSequence(p.auxBranch) /\ IsSequence(p.coinbaseBranch)
    /\ p.auxIndex \in Nat /\ p.coinbaseIndex \in Nat

LEMMA OneJudged ==
    ASSUME NEW h \in 0..MaxDepth, NEW n \in Transactions, NEW slot \in 0..Power[h] - 1, NEW tree, NEW c, NEW data,
           NEW nodes, NEW block, NEW p, OursIn(tree, h, slot), Commits(c, data, tree),
           nodes = ParentNodes(data, n), block.nodes = nodes, Speaks(p, data, nodes)
    PROVE  ValidateAuxpow(p, block.works) <=> Shown(p, block, tree)
<1>0. /\ c.size \in 0..Power[SizeBits] - 1 /\ c.root = MerkleRoot(tree) /\ data = <<c>>
      /\ p.data = data /\ p.parentRoot = MerkleRoot(nodes) /\ IsSequence(p.auxBranch) /\ IsSequence(p.coinbaseBranch)
      /\ p.auxIndex \in Nat /\ p.coinbaseIndex \in Nat
  BY DEF Commits, Speaks
<1> DEFINE way == p.auxBranch
           cb == p.coinbaseBranch
           x == <<"coinbase", data>>
           Asked == \E height \in 0..SizeBits - 1 : c.size = Power[height] /\ p.auxIndex = GetExpectedIndex(c.nonce, height)
<1>1. c.size \in Nat
  <2>1. SizeBits \in 0..MaxDepth + SizeBits
    BY ProofAssumption
  <2>2. Power[SizeBits] \in Nat
    BY <2>1, PowerAt
  <2> QED
    BY <1>0, <2>2
<1>2. CommitsTo(c, way, p.auxIndex) <=> c.root = CheckMerkleBranch(Ours, way, p.auxIndex) /\ Asked
  BY <1>0, CommitsIs
<1>3. Len(way) <= MaxDepth /\ c.root = CheckMerkleBranch(Ours, way, p.auxIndex) <=> InSlot(tree, way, p.auxIndex)
  <2> HIDE DEF way
  <2>1. IsSequence(way)
    BY <1>0 DEF way
  <2>2. p.auxIndex \in Nat /\ c.root = MerkleRoot(tree)
    BY <1>0
  <2> DEFINE k == p.auxIndex
  <2>3. k \in Nat
    BY <2>2
  <2> HIDE DEF k
  <2>4. Len(way) <= MaxDepth /\ CheckMerkleBranch(Ours, way, k) = MerkleRoot(tree) <=> InSlot(tree, way, k)
    BY <2>1, <2>3, SlotJudged DEF OursIn
  <2> QED
    BY <2>2, <2>4 DEF k
<1>4. Len(cb) <= MaxDepth /\ p.parentRoot = CheckMerkleBranch(x, cb, p.coinbaseIndex)
      <=> p.coinbaseIndex % Power[Len(cb)] = 0 /\ cb = BranchAt(nodes, 0)
  <2> DEFINE k == p.coinbaseIndex
  <2>1. IsSequence(cb) /\ k \in Nat
    BY <1>0
  <2> HIDE DEF cb, k
  <2>2. IsFirst(data, nodes, cb, k)
    BY <2>1, FirstJudged
  <2> QED
    BY <1>0, <2>2 DEF k, IsFirst
<1>5. ValidateAuxpow(p, block.works) <=>
          /\ ChainId # 0 /\ Len(cb) <= MaxDepth /\ Len(way) <= MaxDepth /\ p.isCoinbase
          /\ CommitsTo(c, way, p.auxIndex)
          /\ p.parentRoot = CheckMerkleBranch(x, cb, p.coinbaseIndex) /\ block.works
  <2>1. JudgedBy(p, c, block.works)
    BY <1>0, <1>1, OneCommitment
  <2> QED
    BY <1>0, <2>1 DEF JudgedBy
<1>6. Len(p.data) = 1 /\ p.data[1] = c
  BY <1>0
<1> DEFINE at == Position(p.auxIndex, way)
<1>7. at = p.auxIndex % Power[Len(way)] /\ Position(p.coinbaseIndex, cb) = p.coinbaseIndex % Power[Len(cb)]
  BY DEF Position
<1>8. Shown(p, block, tree) <=>
          /\ ChainId # 0 /\ block.works /\ p.isCoinbase /\ Asked
          /\ Len(way) = Depth(tree) /\ tree[at + 1] = Ours /\ way = BranchAt(tree, at)
          /\ Position(p.coinbaseIndex, cb) = 0 /\ cb = BranchAt(nodes, 0)
  <2>1. (\E height \in 0..SizeBits - 1 :
            p.data[1].size = Power[height] /\ p.auxIndex = GetExpectedIndex(p.data[1].nonce, height)) <=> Asked
    BY <1>6
  <2> HIDE DEF Asked
  <2> QED
    BY <1>6, <2>1 DEF Shown
<1> HIDE DEF Asked, at, way, cb, x
<1> QED
  BY <1>2, <1>3, <1>4, <1>5, <1>7, <1>8 DEF InSlot

\* What the pool builds is judged exactly.
LEMMA PoolJudged ==
    ASSUME NEW n \in Transactions, NEW nonce, NEW looks \in BOOLEAN, NEW data, NEW nodes, NEW block, NEW p,
           data = CoinbaseData([root |-> Ours, size |-> 1, nonce |-> nonce], looks), block.nodes = nodes,
           nodes = <<<<"coinbase", data>>>> \o Others(n), p = PoolProof(Others(n), data, MerkleRoot(nodes))
    PROVE  ValidateAuxpow(p, block.works) <=> Shown(p, block, <<Ours>>)
<1> DEFINE c == [root |-> Ours, size |-> 1, nonce |-> nonce]
           branch == CoinbaseMerkleBranch(Others(n))
           tree == <<Ours>>
<1>1. /\ p.data = data /\ p.coinbaseBranch = branch /\ p.coinbaseIndex = 0
      /\ p.auxBranch = <<>> /\ p.auxIndex = 0 /\ p.parentRoot = MerkleRoot(nodes)
  BY DEF PoolProof
<1>2. CASE looks
  <2>1. data = <<[c EXCEPT !.root = <<"other">>], c>>
    BY <1>2 DEF CoinbaseData
  <2>2. Len(data) = 2 /\ data[1].size = 1 /\ data[2].size = 1
    BY <2>1
  <2>3. 1 \in ParseCommitment(data) /\ 2 \in ParseCommitment(data)
    BY <2>2 DEF ParseCommitment
  <2>4. ASSUME NEW i, ParseCommitment(data) = {i}
        PROVE  FALSE
    BY <2>3, <2>4
  <2>5. ~ValidateAuxpow(p, block.works)
    <3>1. ASSUME ValidateAuxpow(p, block.works)
          PROVE  \E i : ParseCommitment(data) = {i}
      BY <1>1, <3>1 DEF ValidateAuxpow
    <3> QED
      BY <2>4, <3>1
  <2>6. Len(p.data) # 1
    BY <1>1, <2>2
  <2>7. ~Shown(p, block, <<Ours>>)
    BY <2>6 DEF Shown
  <2> QED
    BY <2>5, <2>7
<1>3. CASE ~looks
  <2>1. data = <<c>>
    BY <1>3 DEF CoinbaseData
  <2>2. c.size = 1 /\ c.root = Ours
    OBVIOUS
  <2>3. Power[0] = 1 /\ 0 \in 0..MaxDepth /\ 0 \in 0..Power[0] - 1
    BY PowerZero, ProofAssumption
  <2>4. tree = [i \in 1..Power[0] |-> IF i = 0 + 1 THEN Ours ELSE <<"aux", i>>]
    <3>1. tree = [i \in 1..1 |-> Ours]
      OBVIOUS
    <3> HIDE DEF tree
    <3>2. [i \in 1..1 |-> Ours] = [i \in 1..1 |-> IF i = 0 + 1 THEN Ours ELSE <<"aux", i>>]
      OBVIOUS
    <3> QED
      BY <2>3, <3>1, <3>2
  <2>5. c.root = MerkleRoot(tree)
    <3>1. IsSequence(tree) /\ Len(tree) = 1 /\ tree[1] = Ours
      <4>1. tree = [i \in 1..1 |-> tree[i]] /\ tree[1] = Ours
        OBVIOUS
      <4> HIDE DEF tree
      <4> QED
        BY <4>1, SequenceOf
    <3> HIDE DEF tree
    <3>2. Levels(tree)[0] = tree
      BY <3>1, LevelsAre
    <3>3. IsDepth(tree, 0)
      <4>1. \A e \in 0..0 - 1 : FALSE
        OBVIOUS
      <4> QED
        BY <3>1, <3>2, <4>1 DEF IsDepth
    <3>4. Depth(tree) = 0
      <4>1. Len(tree) >= 1 /\ 0 \in 0..Len(tree)
        BY <3>1
      <4> QED
        BY <3>1, <3>3, <4>1, DepthIs
    <3> QED
      BY <2>2, <3>1, <3>2, <3>4 DEF MerkleRoot
  <2>6. c.size \in 0..Power[SizeBits] - 1
    <3>1. SizeBits \in 0..MaxDepth + SizeBits /\ 1 \in 0..MaxDepth + SizeBits /\ SizeBits \in 1..MaxDepth + SizeBits
          /\ 1 \in 1..MaxDepth + SizeBits /\ 1 - 1 = 0
      BY ProofAssumption
    <3>2. Power[1] = 2 * Power[1 - 1]
      BY <3>1, PowerAt
    <3>3. Power[SizeBits] \in Nat /\ Power[1] <= Power[SizeBits]
      BY <3>1, PowerAt, PowerGrows
    <3> QED
      BY <2>2, <2>3, <3>1, <3>2, <3>3
  <2>7. IsSequence(p.auxBranch) /\ IsSequence(p.coinbaseBranch)
    <3>1. IsSequence(<<>>)
      BY DEF IsSequence
    <3>2. IsSequence(branch)
      BY CoinbaseBranchIs
    <3> QED
      BY <1>1, <3>1, <3>2
  <2>8. p.auxIndex \in Nat /\ p.coinbaseIndex \in Nat /\ p.parentRoot = MerkleRoot(nodes) /\ p.data = data
    BY <1>1
  <2>9. ValidateAuxpow(p, block.works) <=> Shown(p, block, tree)
    <3> DEFINE t == tree
               d == c
               z == 0
    <3>1. /\ OursIn(t, z, z) /\ Commits(d, data, t)
          /\ z \in 0..MaxDepth /\ z \in 0..Power[z] - 1
      BY <2>1, <2>3, <2>4, <2>5, <2>6 DEF OursIn, Commits
    <3>2. Speaks(p, data, nodes) /\ nodes = ParentNodes(data, n)
      BY <2>7, <2>8 DEF Speaks, ParentNodes
    <3> HIDE DEF t, d, z
    <3>3. ValidateAuxpow(p, block.works) <=> Shown(p, block, t)
      BY <3>1, <3>2, OneJudged
    <3> QED
      BY <3>3 DEF t
  <2> QED
    BY <2>9
<1> QED
  BY <1>2, <1>3

\* What is offered for a branch is a sequence.
LEMMA DistortedIs ==
    ASSUME NEW b, IsSequence(b), NEW a \in Distorted(b)
    PROVE  IsSequence(a)
<1>1. PICK n \in Nat, e \in 0..Len(b) :
          a = [d \in 1..n |-> IF d <= Len(b) /\ d # e THEN b[d] ELSE <<"other">>]
  BY DEF Distorted
<1>2. a = [d \in 1..n |-> a[d]]
  BY <1>1
<1> QED
  BY <1>2, SequenceOf

\* And so is what any other miner builds.
LEMMA MinerJudged ==
    ASSUME NEW h \in TreeHeights, NEW n \in Transactions, NEW nonce, NEW size \in Sizes,
           NEW slot \in 0..Power[h] - 1, NEW auxIndex \in Indices, NEW index \in Indices,
           NEW tree, NEW data, NEW nodes, NEW block, NEW p, NEW o,
           tree = [i \in 1..Power[h] |-> IF i = slot + 1 THEN Ours ELSE <<"aux", i>>],
           data = <<[root |-> MerkleRoot(tree), size |-> size, nonce |-> nonce]>>,
           nodes = <<<<"coinbase", data>>>> \o Others(n), block.nodes = nodes,
           o \in Offers(BranchAt(tree, slot), CoinbaseMerkleBranch(Others(n))),
           p = [data |-> data, isCoinbase |-> o[3], coinbaseBranch |-> o[2], coinbaseIndex |-> index,
                auxBranch |-> o[1], auxIndex |-> auxIndex, parentRoot |-> MerkleRoot(nodes)]
    PROVE  ValidateAuxpow(p, block.works) <=> Shown(p, block, tree)
<1> DEFINE c == [root |-> MerkleRoot(tree), size |-> size, nonce |-> nonce]
<1>1. /\ p.data = data /\ p.coinbaseBranch = o[2] /\ p.coinbaseIndex = index
      /\ p.auxBranch = o[1] /\ p.auxIndex = auxIndex /\ p.parentRoot = MerkleRoot(nodes)
  OBVIOUS
<1>2. c.size = size /\ c.root = MerkleRoot(tree) /\ data = <<c>>
  OBVIOUS
<1>3. h \in 0..MaxDepth /\ auxIndex \in Nat /\ index \in Nat /\ size \in 0..Power[SizeBits] - 1 /\ MaxDepth \in Nat
  BY ProofAssumption
<1>4. IsSequence(BranchAt(tree, slot)) /\ IsSequence(CoinbaseMerkleBranch(Others(n)))
  <2> DEFINE way == BranchAt(tree, slot)
  <2>1. Depth(tree) = h
    BY <1>3, SlotShows
  <2>2. way = [d \in 1..Depth(tree) |-> way[d]]
    BY DEF BranchAt
  <2> HIDE DEF way
  <2>3. IsSequence(way)
    BY <1>3, <2>1, <2>2, SequenceOf
  <2> QED
    BY <2>3, CoinbaseBranchIs DEF way
<1>5. IsSequence(o[1]) /\ IsSequence(o[2])
  <2> DEFINE way == BranchAt(tree, slot)
             first == CoinbaseMerkleBranch(Others(n))
  <2>1. o[1] \in Distorted(way) \cup {way} /\ o[2] \in Distorted(first) \cup {first}
    <3> HIDE DEF way, first
    <3>1. o \in Offers(way, first)
      BY DEF way, first
    <3>2. CASE o \in Distorted(way) \X {first} \X {TRUE}
      BY <3>2
    <3>3. CASE o \in {way} \X Distorted(first) \X {TRUE}
      BY <3>3
    <3>4. CASE o = <<way, first, FALSE>>
      BY <3>4
    <3> QED
      BY <3>1, <3>2, <3>3, <3>4 DEF Offers
  <2> QED
    BY <1>4, <2>1, DistortedIs
<1>6. /\ OursIn(tree, h, slot) /\ Commits(c, data, tree) /\ nodes = ParentNodes(data, n)
      /\ Speaks(p, data, nodes)
  <2> HIDE DEF c
  <2> QED
    BY <1>1, <1>2, <1>3, <1>5 DEF OursIn, Commits, ParentNodes, Speaks
<1> HIDE DEF c
<1> QED
  BY <1>3, <1>6, OneJudged

\* A proof is judged as it is built, and kept.
LEMMA ProofJudged == ProofSpec => []ProofIsJudged
<1>1. ProofInit => ProofIsJudged
  BY DEF ProofInit, ProofIsJudged
<1>2. ProofIsJudged /\ [ProofNext]_proofVars => ProofIsJudged'
  <2> SUFFICES ASSUME ProofIsJudged, [ProofNext]_proofVars PROVE ProofIsJudged'
    OBVIOUS
  <2>1. ASSUME proof = <<>>, UNCHANGED accepted, ValidateAuxpow(proof', parent.works') <=> Shown(proof', parent', slots')
        PROVE  ProofIsJudged'
    <3>1. accepted' = "new"
      BY <2>1 DEF ProofIsJudged
    <3> QED
      BY <2>1, <3>1 DEF ProofIsJudged
  <2>2. CASE BuildPoolProof
    <3>1. PICK n \in Transactions, nonce \in Nonces, looks \in BOOLEAN, works \in BOOLEAN :
              LET data == CoinbaseData([root |-> Ours, size |-> 1, nonce |-> nonce], looks)
                  nodes == <<<<"coinbase", data>>>> \o Others(n)
              IN /\ slots' = <<Ours>> /\ parent' = [nodes |-> nodes, works |-> works]
                 /\ proof' = PoolProof(Others(n), data, MerkleRoot(nodes))
      BY <2>2 DEF BuildPoolProof
    <3> DEFINE data == CoinbaseData([root |-> Ours, size |-> 1, nonce |-> nonce], looks)
               nodes == <<<<"coinbase", data>>>> \o Others(n)
               block == [nodes |-> nodes, works |-> works]
               p == PoolProof(Others(n), data, MerkleRoot(nodes))
    <3>2. slots' = <<Ours>> /\ parent' = block /\ proof' = p
      BY <3>1
    <3>3. ValidateAuxpow(p, block.works) <=> Shown(p, block, <<Ours>>)
      <4>1. block.nodes = nodes
        OBVIOUS
      <4> HIDE DEF block
      <4> QED
        BY <4>1, PoolJudged
    <3> HIDE DEF block, p
    <3> QED
      BY <2>1, <2>2, <3>2, <3>3 DEF BuildPoolProof
  <2>3. CASE BuildProof
    <3>1. PICK h \in TreeHeights, n \in Transactions, nonce \in Nonces, size \in Sizes :
              \E slot \in 0..Power[h] - 1, auxIndex, index \in Indices :
                LET tree == [i \in 1..Power[h] |-> IF i = slot + 1 THEN Ours ELSE <<"aux", i>>]
                    data == <<[root |-> MerkleRoot(tree), size |-> size, nonce |-> nonce]>>
                    nodes == <<<<"coinbase", data>>>> \o Others(n)
                IN /\ slots' = tree /\ parent' = [nodes |-> nodes, works |-> TRUE]
                   /\ \E o \in Offers(BranchAt(tree, slot), CoinbaseMerkleBranch(Others(n))) :
                        proof' = [data |-> data, isCoinbase |-> o[3], coinbaseBranch |-> o[2], coinbaseIndex |-> index,
                                  auxBranch |-> o[1], auxIndex |-> auxIndex, parentRoot |-> MerkleRoot(nodes)]
      BY <2>3 DEF BuildProof
    <3>2. PICK slot \in 0..Power[h] - 1, auxIndex \in Indices, index \in Indices :
                LET tree == [i \in 1..Power[h] |-> IF i = slot + 1 THEN Ours ELSE <<"aux", i>>]
                    data == <<[root |-> MerkleRoot(tree), size |-> size, nonce |-> nonce]>>
                    nodes == <<<<"coinbase", data>>>> \o Others(n)
                IN /\ slots' = tree /\ parent' = [nodes |-> nodes, works |-> TRUE]
                   /\ \E o \in Offers(BranchAt(tree, slot), CoinbaseMerkleBranch(Others(n))) :
                        proof' = [data |-> data, isCoinbase |-> o[3], coinbaseBranch |-> o[2], coinbaseIndex |-> index,
                                  auxBranch |-> o[1], auxIndex |-> auxIndex, parentRoot |-> MerkleRoot(nodes)]
      BY <3>1
    <3> DEFINE tree == [i \in 1..Power[h] |-> IF i = slot + 1 THEN Ours ELSE <<"aux", i>>]
               data == <<[root |-> MerkleRoot(tree), size |-> size, nonce |-> nonce]>>
               nodes == <<<<"coinbase", data>>>> \o Others(n)
               block == [nodes |-> nodes, works |-> TRUE]
    <3>3. PICK o \in Offers(BranchAt(tree, slot), CoinbaseMerkleBranch(Others(n))) :
              proof' = [data |-> data, isCoinbase |-> o[3], coinbaseBranch |-> o[2], coinbaseIndex |-> index,
                        auxBranch |-> o[1], auxIndex |-> auxIndex, parentRoot |-> MerkleRoot(nodes)]
      BY <3>2
    <3> DEFINE p == [data |-> data, isCoinbase |-> o[3], coinbaseBranch |-> o[2], coinbaseIndex |-> index,
                     auxBranch |-> o[1], auxIndex |-> auxIndex, parentRoot |-> MerkleRoot(nodes)]
    <3>4. slots' = tree /\ parent' = block /\ proof' = p
      BY <3>2, <3>3
    <3>5. ValidateAuxpow(p, block.works) <=> Shown(p, block, tree)
      <4>1. block.nodes = nodes
        OBVIOUS
      <4> HIDE DEF block
      <4> QED
        BY <4>1, MinerJudged
    <3> HIDE DEF tree, block, p
    <3> QED
      BY <2>1, <2>3, <3>4, <3>5 DEF BuildProof
  <2>4. CASE Validate
    BY <2>4 DEF ProofIsJudged, Validate
  <2>5. CASE UNCHANGED proofVars
    BY <2>5 DEF ProofIsJudged, proofVars
  <2> QED
    BY <2>2, <2>3, <2>4, <2>5 DEF ProofNext
<1> QED
  BY <1>1, <1>2, PTL DEF ProofSpec

\* For every number of transactions and every tree of auxiliary chains, a proof
\* is accepted exactly if the coinbase is one and is first, commits to one tree,
\* has this block in the slot its nonce asks for, the branches are those of the
\* two trees and the work was done
\* (validate_auxpow, coinbase_merkle_branch, submit_sct_block).
THEOREM ProofsCorrect == ProofSpec => []ProofIsExact
<1>1. ProofIsJudged => ProofIsExact
  BY DEF ProofIsJudged, ProofIsExact
<1> QED
  BY <1>1, ProofJudged, PTL
=============================================================================
