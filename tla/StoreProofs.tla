---------------------------- MODULE StoreProofs -----------------------------
(***************************************************************************)
(* Proofs about the chain a node keeps: the target of the next block       *)
(* (Retarget), the cache of parsed blocks (BlockCache), the download of    *)
(* headers and blocks (Sync), and value, coins and the history of          *)
(* addresses (Money).  They hold for every network that satisfies          *)
(* RetargetAssumption and TargetAssumption, for every subsidy and every    *)
(* payment that satisfy MoneyAssumption, for every number of threads,      *)
(* peers and blocks, and for all limits.                                   *)
(***************************************************************************)
EXTENDS Retarget, BlockCache, Sync, Money, FoldLemmas,
        TLAPS, FiniteSetTheorems, SequenceTheorems, WellFoundedInduction

-----------------------------------------------------------------------------
(* Least and greatest of two.                                              *)

LEMMA MinOfTwo ==
    ASSUME NEW a \in Int, NEW b \in Int
    PROVE  /\ a <= b => Min({a, b}) = a
           /\ b <= a => Min({a, b}) = b
<1>1. CASE a <= b
  <2>1. \A x \in {a, b} : a <= x
    BY <1>1
  <2> QED
    BY <1>1, <2>1 DEF Min
<1>2. CASE b <= a
  <2> QED
    BY <1>2 DEF Min
<1> QED
  BY <1>1, <1>2

LEMMA MaxOfTwo ==
    ASSUME NEW a \in Int, NEW b \in Int
    PROVE  /\ Max({a, b}) \in {a, b} /\ a <= Max({a, b}) /\ b <= Max({a, b})
<1>1. CASE a <= b
  <2>1. Max({a, b}) = b
    BY <1>1 DEF Max
  <2> QED
    BY <1>1, <2>1
<1>2. CASE b <= a
  <2>1. Max({a, b}) = a
    BY <1>2 DEF Max
  <2> QED
    BY <1>2, <2>1
<1> QED
  BY <1>1, <1>2

-----------------------------------------------------------------------------
(* Arithmetic of targets.                                                  *)

LEMMA Division ==
    ASSUME NEW x \in Nat, NEW p \in Nat \ {0}
    PROVE  x \div p \in Nat /\ (x \div p) * p <= x /\ x < (x \div p) * p + p
OBVIOUS

LEMMA Product ==
    ASSUME NEW a \in Nat, NEW b \in Nat
    PROVE  a * b \in Nat /\ a * b = b * a
OBVIOUS

LEMMA ProductGrows ==
    ASSUME NEW a \in Nat, NEW b \in Nat, NEW c \in Nat, a <= b
    PROVE  a * c <= b * c
OBVIOUS

LEMMA ProductOrder ==
    ASSUME NEW a \in Nat, NEW b \in Nat, NEW c \in Nat \ {0}, a * c < b * c
    PROVE  a < b
OBVIOUS

\* The quotient is the largest factor that fits.
LEMMA LargestFactor ==
    ASSUME NEW x \in Nat, NEW p \in Nat \ {0}, NEW q \in Nat, q * p <= x
    PROVE  q <= x \div p
<1> DEFINE d == x \div p
<1>1. d \in Nat /\ x < d * p + p
  BY Division
<1> HIDE DEF d
<1>2. d * p + p = (d + 1) * p /\ d + 1 \in Nat
  BY <1>1
<1>3. q * p < (d + 1) * p
  BY <1>1, <1>2
<1>4. q < d + 1
  BY <1>2, <1>3, ProductOrder
<1> QED
  BY <1>1, <1>4 DEF d

LEMMA Associative ==
    ASSUME NEW a \in Nat, NEW b \in Nat, NEW c \in Nat
    PROVE  (a * b) * c = a * (b * c)
OBVIOUS

LEMMA WeightIs ==
    /\ Weight \in [0..Width + 3 -> Nat \ {0}] /\ Weight[0] = 1
    /\ \A k \in 1..Width + 3 : Weight[k] = Base * Weight[k - 1]
<1> DEFINE n == Width + 3
           S == Nat \ {0}
           step == [c \in S \X (1..n) |-> Base * c[1]]
           F(w) == [k \in 0..n |-> IF k = 0 THEN 1 ELSE Base * w[k - 1]]
<1>0. n \in Nat /\ Base \in S
  BY RetargetAssumption
<1>1. step \in [S \X (1..n) -> S]
  BY <1>0
<1>2. \E g \in [0..n -> S] : Recurs(g, 1, step, n)
  <2> HIDE DEF n, S, step
  <2>1. 1 \in S
    BY DEF S
  <2> QED
    BY <1>0, <1>1, <2>1, RecursionExists
<1>3. ASSUME NEW g \in [0..n -> S], Recurs(g, 1, step, n)
      PROVE  g = F(g)
  <2>1. ASSUME NEW k \in 0..n
        PROVE  g[k] = IF k = 0 THEN 1 ELSE Base * g[k - 1]
    <3>1. g[k] = IF k = 0 THEN 1 ELSE step[<<g[k - 1], k>>]
      BY <1>3 DEF Recurs
    <3>2. CASE k = 0
      BY <3>1, <3>2
    <3>3. CASE k # 0
      <4>1. g[k - 1] \in S /\ k \in 1..n
        BY <1>0, <1>3, <3>3
      <4> HIDE DEF S, n
      <4>2. <<g[k - 1], k>> \in S \X (1..n)
        BY <4>1
      <4>3. step[<<g[k - 1], k>>] = Base * g[k - 1]
        BY <4>2
      <4> QED
        BY <3>1, <3>3, <4>3
    <3> QED
      BY <3>2, <3>3
  <2> QED
    BY <2>1
<1> DEFINE W == CHOOSE w : w = F(w)
<1>4. W = F(W)
  <2>1. \E w : w = F(w)
    BY <1>2, <1>3
  <2> HIDE DEF F
  <2> QED
    BY <2>1
<1>5. Weight = W
  BY DEF Weight
<1> HIDE DEF W
<1>6. \A k \in 0..n : Weight[k] = IF k = 0 THEN 1 ELSE Base * Weight[k - 1]
  BY <1>4, <1>5
<1>7. 0..n \subseteq {k \in 0..n : Weight[k] \in S}
  <2> DEFINE T == {k \in 0..n : Weight[k] \in S}
  <2>1. 0 \in T
    BY <1>0, <1>6
  <2>2. ASSUME NEW k \in 1..n, k - 1 \in T
        PROVE  k \in T
    <3>1. Weight[k] = Base * Weight[k - 1]
      BY <1>0, <1>6
    <3> QED
      BY <1>0, <2>2, <3>1
  <2> HIDE DEF T, n
  <2>3. 0..n \subseteq T
    BY <1>0, <2>1, <2>2, IntervalInduction
  <2> QED
    BY <2>3 DEF T
<1>8. Weight = [k \in 0..n |-> Weight[k]]
  BY <1>4, <1>5
<1>9. Weight \in [0..n -> S]
  BY <1>7, <1>8
<1> QED
  BY <1>0, <1>6, <1>9

\* Half of the base.
LEMMA BaseIsEven ==
    \E b \in Nat \ {0} : Base = 2 * b
<1> DEFINE b == Base \div 2
<1>1. b \in Nat /\ Base = 2 * b
  BY RetargetAssumption
<1>2. b # 0
  BY <1>1, RetargetAssumption
<1> QED
  BY <1>1, <1>2

LEMMA WeightAt == \A k \in 0..Width + 3 : Weight[k] \in Nat \ {0}
BY WeightIs

LEMMA TargetLimitType == TargetLimit \in Nat
<1>1. Width \in 0..Width + 3
  BY RetargetAssumption
<1> QED
  BY <1>1, WeightAt DEF TargetLimit

\* Moving a digit by j places.
LEMMA WeightAdds ==
    ASSUME NEW i \in Nat, NEW j \in Nat, i + j <= Width + 3
    PROVE  Weight[i + j] = Weight[i] * Weight[j]
<1> DEFINE n == Width + 3 - i
           T == {k \in 0..n : Weight[i + k] = Weight[i] * Weight[k]}
<1>0. n \in Nat /\ i \in 0..Width + 3 /\ \A k \in 0..n : k \in 0..Width + 3 /\ i + k \in 0..Width + 3
  BY RetargetAssumption
<1>1. 0 \in T
  <2>1. Weight[i] * 1 = Weight[i] /\ i + 0 = i
    BY <1>0, WeightAt
  <2> QED
    BY <1>0, <2>1, WeightIs
<1>2. ASSUME NEW k \in 1..n, k - 1 \in T
      PROVE  k \in T
  <2>1. Weight[i + (k - 1)] = Weight[i] * Weight[k - 1]
    BY <1>2
  <2>2. Weight[k] = Base * Weight[k - 1] /\ k - 1 \in 0..Width + 3
    BY <1>0, WeightIs
  <2>3. Weight[i + k] = Base * Weight[i + (k - 1)]
    <3>1. i + k \in 1..Width + 3 /\ (i + k) - 1 = i + (k - 1)
      BY <1>0
    <3> QED
      BY <3>1, WeightIs
  <2>4. Base * (Weight[i] * Weight[k - 1]) = Weight[i] * (Base * Weight[k - 1])
    <3>1. Base \in Nat /\ Weight[i] \in Nat /\ Weight[k - 1] \in Nat
      BY <1>0, <2>2, WeightAt, RetargetAssumption
    <3> QED
      BY <3>1, Associative, Product
  <2> QED
    BY <2>1, <2>2, <2>3, <2>4
<1>3. n \in Nat
  BY <1>0
<1>4. j \in 0..n
  BY RetargetAssumption
<1> HIDE DEF n, T
<1>5. 0..n \subseteq T
  BY <1>1, <1>2, <1>3, IntervalInduction
<1> QED
  BY <1>4, <1>5 DEF T

LEMMA WeightGrows ==
    ASSUME NEW i \in Nat, NEW j \in Nat, i <= j, j <= Width + 3
    PROVE  Weight[i] <= Weight[j]
<1>1. j - i \in Nat /\ i + (j - i) = j /\ i \in 0..Width + 3 /\ j - i \in 0..Width + 3
  BY RetargetAssumption
<1>2. Weight[j] = Weight[i] * Weight[j - i]
  BY <1>1, WeightAdds
<1>3. Weight[i] \in Nat /\ Weight[j - i] \in Nat /\ 1 <= Weight[j - i]
  BY <1>1, WeightAt
<1>4. 1 * Weight[i] <= Weight[j - i] * Weight[i]
  BY <1>3, ProductGrows
<1> QED
  BY <1>2, <1>3, <1>4, Product

\* A digit more is worth at least twice as much.
LEMMA WeightDoubles ==
    ASSUME NEW i \in Nat, i + 1 <= Width + 3
    PROVE  2 * Weight[i] <= Weight[i + 1]
<1>1. Weight[i + 1] = Base * Weight[i] /\ Weight[i] \in Nat
  <2>1. i + 1 \in 1..Width + 3 /\ i \in 0..Width + 3 /\ (i + 1) - 1 = i
    BY RetargetAssumption
  <2> QED
    BY <2>1, WeightIs
<1>2. Base \in Nat /\ 2 <= Base
  BY BaseIsEven
<1> QED
  BY <1>1, <1>2, ProductGrows

\* Every weight but the first is even.
LEMMA WeightIsEven ==
    ASSUME NEW k \in 1..Width + 3
    PROVE  \E h \in Nat \ {0} : Weight[k] = 2 * h
<1>1. PICK b \in Nat \ {0} : Base = 2 * b
  BY BaseIsEven
<1>2. Weight[k] = Base * Weight[k - 1] /\ Weight[k - 1] \in Nat \ {0}
  <2>1. k - 1 \in 0..Width + 3
    BY RetargetAssumption
  <2> QED
    BY <2>1, WeightIs
<1> DEFINE h == b * Weight[k - 1]
<1>3. h \in Nat \ {0}
  BY <1>1, <1>2
<1>4. Weight[k] = 2 * h
  BY <1>1, <1>2, Associative
<1> QED
  BY <1>3, <1>4

-----------------------------------------------------------------------------
(* Compact targets.                                                        *)

\* What the digits of a compact target are worth.
Unpacked(e, m) == IF e <= 3 THEN m \div Weight[3 - e] ELSE m * Weight[e - 3]

LEMMA UnpackedIs ==
    ASSUME NEW e \in Nat, e <= Width, NEW m \in Nat, 2 * m < Weight[3]
    PROVE  Unpacked(e, m) \in Nat /\ 2 * Unpacked(e, m) < Weight[e]
<1> DEFINE v == Unpacked(e, m)
<1>0. Width \in Nat /\ e \in 0..Width + 3 /\ 3 \in 0..Width + 3
  BY RetargetAssumption
<1>1. CASE e <= 3
  <2> DEFINE p == Weight[3 - e]
  <2>1. 3 - e \in 0..Width + 3 /\ 3 - e \in Nat /\ e + (3 - e) = 3
    BY <1>0, <1>1
  <2>2. p \in Nat \ {0} /\ Weight[e] \in Nat /\ Weight[3] = Weight[e] * p
    BY <1>0, <2>1, WeightAt, WeightAdds
  <2>3. v = m \div p
    BY <1>1 DEF Unpacked
  <2> HIDE DEF v, p
  <2>4. v \in Nat /\ v * p <= m
    BY <2>2, <2>3, Division
  <2>5. (2 * v) * p < Weight[e] * p
    <3>1. (2 * v) * p = 2 * (v * p) /\ v * p \in Nat
      BY <2>2, <2>4, Associative
    <3>2. 2 * (v * p) < Weight[3]
      <4> DEFINE w == v * p
      <4>1. w \in Nat /\ w <= m /\ Weight[3] \in Nat
        BY <1>0, <2>4, <3>1, WeightAt
      <4> HIDE DEF w
      <4>2. 2 * w < Weight[3]
        BY <4>1
      <4> QED
        BY <4>2 DEF w
    <3> QED
      BY <2>2, <3>1, <3>2
  <2>6. 2 * v < Weight[e]
    BY <2>2, <2>4, <2>5, ProductOrder
  <2> QED
    BY <2>4, <2>6 DEF v
<1>2. CASE e > 3
  <2> DEFINE p == Weight[e - 3]
  <2>1. e - 3 \in 0..Width + 3 /\ e - 3 \in Nat /\ 3 + (e - 3) = e
    BY <1>0, <1>2
  <2>2. p \in Nat \ {0} /\ Weight[3] \in Nat /\ Weight[e] = Weight[3] * p
    BY <1>0, <2>1, WeightAt, WeightAdds
  <2>3. v = m * p
    BY <1>2 DEF Unpacked
  <2> HIDE DEF v, p
  <2>4. v \in Nat /\ 2 * v = (2 * m) * p
    BY <2>2, <2>3, Associative
  <2>5. (2 * m) * p < Weight[3] * p
    <3>1. 2 * m + 1 <= Weight[3] /\ 2 * m + 1 \in Nat /\ 2 * m \in Nat
      BY <2>2
    <3>2. (2 * m + 1) * p <= Weight[3] * p
      BY <2>2, <3>1, ProductGrows
    <3>3. (2 * m + 1) * p = (2 * m) * p + p /\ (2 * m) * p \in Nat /\ Weight[3] * p \in Nat
      BY <2>2, <3>1
    <3> QED
      BY <2>2, <3>2, <3>3
  <2> QED
    BY <2>2, <2>4, <2>5 DEF v
<1> QED
  BY <1>0, <1>1, <1>2

\* A compact target with as many digits as a target has, and no sign.
LEMMA TargetIs ==
    ASSUME NEW e \in Nat, e <= Width, NEW m \in Nat, 2 * m < Weight[3]
    PROVE  BitsToTarget([exponent |-> e, mantissa |-> m]) = Unpacked(e, m)
<1> DEFINE bits == [exponent |-> e, mantissa |-> m]
<1>0. Width \in Nat /\ e \in 0..Width + 3 /\ 3 \in 0..Width + 3 /\ Weight[3] \in Nat
  BY RetargetAssumption, WeightAt
<1>1. Unpacked(e, m) \in Nat /\ 2 * Unpacked(e, m) < Weight[e]
  BY UnpackedIs
<1>2. Weight[e] <= Weight[Width] /\ Weight[e] \in Nat /\ Weight[Width] \in Nat
  <2>1. Width \in 0..Width + 3 /\ Width <= Width + 3
    BY <1>0
  <2> QED
    BY <1>0, <2>1, WeightGrows, WeightAt
<1>3. ~(Unpacked(e, m) >= TargetLimit)
  BY <1>1, <1>2 DEF TargetLimit
<1>4. m = 0 => Unpacked(e, m) = 0
  <2> SUFFICES ASSUME m = 0 PROVE Unpacked(e, m) = 0
    OBVIOUS
  <2>1. e <= 3 => 3 - e \in 0..Width + 3
    BY <1>0
  <2>2. ~(e <= 3) => e - 3 \in 0..Width + 3
    BY <1>0
  <2>3. e <= 3 => 0 \div Weight[3 - e] = 0
    BY <2>1, WeightAt
  <2>4. ~(e <= 3) => 0 * Weight[e - 3] = 0
    BY <2>2, WeightAt
  <2> QED
    BY <2>3, <2>4 DEF Unpacked
<1>5. ~(2 * m >= Weight[3]) /\ ~(e > Width)
  BY <1>0
<1>6. BitsToTarget(bits) = IF m = 0 THEN 0 ELSE Unpacked(e, m)
  BY <1>3, <1>5 DEF BitsToTarget, Unpacked
<1> QED
  BY <1>4, <1>6

LEMMA ZeroIs == BitsToTarget([exponent |-> 0, mantissa |-> 0]) = 0
<1>1. Width \in Nat /\ 3 \in 0..Width + 3
  BY RetargetAssumption
<1>2. 0 < Weight[3] /\ Weight[3] \in Nat
  BY <1>1, WeightAt
<1> QED
  BY <1>1, <1>2 DEF BitsToTarget

\* Targets are numbers.
LEMMA RepresentableIs ==
    ASSUME NEW r \in Representable
    PROVE  \E e \in 0..Width, m \in Nat : 2 * m < Weight[3] /\ r = Unpacked(e, m)
<1>0. Width \in Nat /\ 3 \in 0..Width + 3 /\ 3 \in 1..Width + 3
  BY RetargetAssumption
<1>1. PICK h \in Nat \ {0} : Weight[3] = 2 * h
  BY <1>0, WeightIsEven
<1>2. PICK e \in 0..Width, m \in 0..(Weight[3] \div 2 - 1) : r = BitsToTarget([exponent |-> e, mantissa |-> m])
  BY DEF Representable
<1>3. m \in Nat /\ 2 * m < Weight[3]
  <2>1. Weight[3] \div 2 = h
    BY <1>1
  <2> QED
    BY <1>1, <1>2, <2>1
<1>4. e \in Nat /\ e <= Width
  BY <1>0
<1>5. r = Unpacked(e, m)
  BY <1>2, <1>3, <1>4, TargetIs
<1> QED
  BY <1>3, <1>5

LEMMA IsRepresentable ==
    ASSUME NEW e \in Nat, e <= Width, NEW m \in Nat, 2 * m < Weight[3]
    PROVE  Unpacked(e, m) \in Representable
<1>0. Width \in Nat /\ 3 \in 0..Width + 3 /\ 3 \in 1..Width + 3
  BY RetargetAssumption
<1>1. PICK h \in Nat \ {0} : Weight[3] = 2 * h
  BY <1>0, WeightIsEven
<1>2. m \in 0..(Weight[3] \div 2 - 1)
  <2>1. Weight[3] \div 2 = h
    BY <1>1
  <2> QED
    BY <1>1, <2>1
<1>3. e \in 0..Width
  BY <1>0
<1>4. Unpacked(e, m) = BitsToTarget([exponent |-> e, mantissa |-> m])
  BY TargetIs
<1> QED
  BY <1>2, <1>3, <1>4 DEF Representable

\* A number that is not zero has a length.
LEMMA LengthIs ==
    ASSUME NEW x \in Nat \ {0}, x < TargetLimit
    PROVE  /\ Length(x) \in 1..Width
           /\ Weight[Length(x) - 1] <= x /\ x < Weight[Length(x)]
<1> DEFINE T == {n \in 0..Width : x < Weight[n]}
<1>0. Width \in Nat \ {0} /\ Width \in 0..Width
  BY RetargetAssumption
<1>1. T \in SUBSET Nat /\ T # {}
  BY <1>0 DEF TargetLimit
<1>2. PICK n \in T : \A k \in T : n <= k
  <2> HIDE DEF T
  <2> QED
    BY <1>1, Least
<1>3. n \in 1..Width
  BY <1>0, <1>2, WeightIs
<1>4. Weight[n - 1] <= x
  <2>1. n - 1 \notin T
    BY <1>2, <1>3
  <2>2. n - 1 \in 0..Width /\ n - 1 \in 0..Width + 3
    BY <1>0, <1>3
  <2>3. ~(x < Weight[n - 1]) /\ Weight[n - 1] \in Nat
    BY <2>1, <2>2, WeightAt
  <2> QED
    BY <2>3
<1>5. \E k \in 1..Width : Weight[k - 1] <= x /\ x < Weight[k]
  BY <1>2, <1>3, <1>4
<1> DEFINE P(k) == Weight[k - 1] <= x /\ x < Weight[k]
           c == CHOOSE k \in 1..Width : P(k)
<1>6. c \in 1..Width /\ P(c)
  <2>1. \E k \in 1..Width : P(k)
    BY <1>5
  <2> HIDE DEF P
  <2> QED
    BY <2>1
<1> QED
  BY <1>6 DEF Length

\* What target_to_bits does: it takes as many digits as leave the topmost bit
\* clear, and keeps the leading three.
LEMMA BitsAre ==
    ASSUME NEW x \in Nat \ {0}, 2 * x < TargetLimit
    PROVE  \E e \in 1..Width :
              /\ TargetToBits(x) = [exponent |-> e, mantissa |-> Leading(x, e)]
              /\ Weight[e - 1] <= 2 * x /\ 2 * x < Weight[e]
<1> DEFINE n == Length(x)
<1>0. Width \in Nat \ {0} /\ TargetLimit \in Nat
  <2>1. Width \in 0..Width + 3
    BY RetargetAssumption
  <2> QED
    BY <2>1, RetargetAssumption, WeightAt DEF TargetLimit
<1>1. n \in 1..Width /\ Weight[n - 1] <= x /\ x < Weight[n]
  BY <1>0, LengthIs
<1>2. n \in 0..Width + 3 /\ n - 1 \in 0..Width + 3 /\ n + 1 \in 0..Width + 3 /\ n \in Nat
  BY <1>0, <1>1
<1>3. Weight[n] \in Nat /\ Weight[n - 1] \in Nat /\ Weight[n + 1] \in Nat
  BY <1>2, WeightAt
<1> HIDE DEF n
<1>4. CASE 2 * x >= Weight[n]
  <2>1. 2 * Weight[n] <= Weight[n + 1]
    <3>1. n + 1 <= Width + 3
      BY <1>0, <1>2
    <3> QED
      BY <1>2, <3>1, WeightDoubles
  <2>2. 2 * x < Weight[n + 1]
    BY <1>1, <1>3, <2>1
  <2>3. n + 1 <= Width
    <3>1. ~(Width <= n)
      <4>1. SUFFICES ASSUME Width <= n PROVE FALSE
        OBVIOUS
      <4>2. n = Width
        BY <1>0, <1>1, <4>1
      <4> QED
        BY <1>0, <1>4, <4>2 DEF TargetLimit
    <3> QED
      BY <1>0, <1>2, <3>1
  <2>4. TargetToBits(x) = [exponent |-> n + 1, mantissa |-> Leading(x, n + 1)]
    BY <1>4 DEF TargetToBits, n
  <2>5. (n + 1) - 1 = n /\ n + 1 \in 1..Width
    BY <1>0, <1>1, <2>3
  <2> QED
    BY <1>4, <2>2, <2>4, <2>5
<1>5. CASE ~(2 * x >= Weight[n])
  <2>1. 2 * x < Weight[n] /\ Weight[n - 1] <= 2 * x
    BY <1>1, <1>3, <1>5
  <2>2. TargetToBits(x) = [exponent |-> n, mantissa |-> Leading(x, n)]
    BY <1>5 DEF TargetToBits, n
  <2> QED
    BY <1>1, <2>1, <2>2
<1> QED
  BY <1>4, <1>5

\* A compact target is a pair of numbers.
Compact(bits) == bits.exponent \in Nat /\ bits.mantissa \in Nat

\* v is the compact target at or below x.
IsFloor(v, x) ==
    /\ v \in Nat /\ v <= x /\ v \in Representable
    /\ \A r \in Representable : r <= x => r <= v

\* Small numbers are their own compact target.
LEMMA FloorSmall ==
    ASSUME NEW x \in Nat \ {0}, NEW e \in {1, 2}, e <= Width, 2 * x < Weight[e]
    PROVE  /\ Leading(x, e) \in Nat /\ 2 * Leading(x, e) < Weight[3]
           /\ Unpacked(e, Leading(x, e)) = x
<1> DEFINE p == Weight[3 - e]
<1>1. 3 - e \in 0..Width + 3 /\ e \in 0..Width + 3 /\ e \in Nat /\ 3 - e \in Nat /\ e + (3 - e) = 3 /\ 3 <= Width + 3
  BY RetargetAssumption
<1>2. p \in Nat \ {0} /\ Weight[e] \in Nat /\ Weight[3] = Weight[e] * p
  BY <1>1, WeightAt, WeightAdds
<1>3. Leading(x, e) = x * p /\ Unpacked(e, Leading(x, e)) = Leading(x, e) \div p
  BY <1>1 DEF Leading, Unpacked
<1> HIDE DEF p
<1>4. x * p \in Nat /\ (x * p) \div p = x
  <2>1. x * p \in Nat
    BY <1>2
  <2> DEFINE d == (x * p) \div p
  <2>2. d \in Nat /\ d * p <= x * p
    BY <1>2, <2>1, Division
  <2>3. x <= d
    BY <1>2, <2>1, LargestFactor
  <2> HIDE DEF d
  <2>4. ~(x < d)
    <3>1. SUFFICES ASSUME x < d PROVE FALSE
      OBVIOUS
    <3>2. (x + 1) * p <= d * p /\ (x + 1) * p = x * p + p
      BY <1>2, <2>2, <3>1, ProductGrows
    <3> DEFINE a == x * p
               b == d * p
    <3>3. a + p <= b /\ b <= a /\ a \in Nat /\ b \in Nat
      BY <1>2, <2>1, <2>2, <3>2
    <3> HIDE DEF a, b
    <3> QED
      BY <1>2, <3>3
  <2> QED
    BY <2>1, <2>2, <2>3, <2>4 DEF d
<1>5. 2 * (x * p) < Weight[e] * p
  <2>1. 2 * x + 1 <= Weight[e]
    BY <1>2
  <2>2. (2 * x + 1) * p <= Weight[e] * p
    BY <1>2, <2>1, ProductGrows
  <2>3. (2 * x + 1) * p = 2 * (x * p) + p
    BY <1>2
  <2> DEFINE a == x * p
             b == Weight[e] * p
  <2>4. 2 * a + p <= b /\ a \in Nat /\ b \in Nat
    BY <1>2, <1>4, <2>2, <2>3
  <2> HIDE DEF a, b
  <2>5. 2 * a < b
    BY <1>2, <2>4
  <2> QED
    BY <2>5 DEF a, b
<1> QED
  BY <1>2, <1>3, <1>4, <1>5

\* Larger numbers lose the digits below the leading three.
LEMMA FloorLarge ==
    ASSUME NEW x \in Nat \ {0}, NEW e \in Nat, 3 <= e, e <= Width, 2 * x < Weight[e]
    PROVE  /\ Leading(x, e) \in Nat /\ 2 * Leading(x, e) < Weight[3]
           /\ Leading(x, e) = x \div Weight[e - 3]
           /\ Unpacked(e, Leading(x, e)) = (x \div Weight[e - 3]) * Weight[e - 3]
<1> DEFINE p == Weight[e - 3]
           m == x \div p
<1>1. e - 3 \in 0..Width + 3 /\ e - 3 \in Nat /\ 3 + (e - 3) = e /\ 3 \in 0..Width + 3 /\ e <= Width + 3
  BY RetargetAssumption
<1>2. p \in Nat \ {0} /\ Weight[3] \in Nat /\ Weight[e] = Weight[3] * p
  BY <1>1, WeightAt, WeightAdds
<1>3. Leading(x, e) = m
  BY DEF Leading
<1>4. m \in Nat /\ m * p <= x
  BY <1>2, Division
<1>5. Unpacked(e, m) = m * p
  <2>1. CASE e = 3
    <3>1. p = 1
      BY <2>1, WeightIs
    <3>2. Unpacked(e, m) = m \div Weight[0] /\ Weight[0] = 1
      BY <2>1, WeightIs DEF Unpacked
    <3> HIDE DEF m, p
    <3> QED
      BY <1>4, <3>1, <3>2
  <2>2. CASE e # 3
    BY <2>2 DEF Unpacked
  <2> QED
    BY <2>1, <2>2
<1>6. 2 * m < Weight[3]
  <2> HIDE DEF m, p
  <2>1. (2 * m) * p = 2 * (m * p) /\ m * p \in Nat
    BY <1>2, <1>4, Associative
  <2>2. 2 * (m * p) < Weight[e]
    <3> DEFINE a == m * p
    <3>1. a \in Nat /\ a <= x /\ Weight[e] \in Nat
      <4>1. e \in 0..Width + 3
        BY <1>1
      <4> QED
        BY <1>4, <2>1, <4>1, WeightAt
    <3> HIDE DEF a
    <3>2. 2 * a < Weight[e]
      BY <3>1
    <3> QED
      BY <3>2 DEF a
  <2>3. (2 * m) * p < Weight[3] * p
    BY <1>2, <2>1, <2>2
  <2> QED
    BY <1>2, <1>4, <2>3, ProductOrder
<1> QED
  BY <1>3, <1>4, <1>5, <1>6

\* Nothing that fits fits better: compact targets with as many digits are
\* multiples of the same weight, and those with fewer are smaller.
LEMMA NothingBetter ==
    ASSUME NEW x \in Nat \ {0}, NEW e \in Nat, 3 <= e, e <= Width, Weight[e - 1] <= 2 * x,
           NEW r \in Representable, r <= x
    PROVE  r <= (x \div Weight[e - 3]) * Weight[e - 3]
<1> DEFINE p == Weight[e - 3]
           d == x \div p
<1>0. Width \in Nat /\ 3 \in 0..Width + 3 /\ 2 \in 0..Width + 3 /\ 2 \in 1..Width + 3 /\ e <= Width + 3
  BY RetargetAssumption
<1>1. e - 3 \in 0..Width + 3 /\ e - 3 \in Nat /\ e - 1 \in 0..Width + 3 /\ e - 1 \in Nat
  BY <1>0
<1>2. p \in Nat \ {0}
  BY <1>1, WeightAt
<1>3. d \in Nat /\ d * p <= x /\ d * p \in Nat
  BY <1>2, Division
<1>4. PICK g \in 0..Width, m \in Nat : 2 * m < Weight[3] /\ r = Unpacked(g, m)
  BY RepresentableIs
<1>5. g \in Nat /\ g <= Width
  BY <1>0
<1>6. r \in Nat /\ 2 * r < Weight[g]
  BY <1>4, <1>5, UnpackedIs
<1>7. CASE e <= g
  <2>1. g - 3 \in Nat /\ g - e \in Nat /\ (g - e) + (e - 3) = g - 3 /\ g - e \in 0..Width + 3 /\ g - 3 \in 0..Width + 3
    BY <1>0, <1>5, <1>7
  <2> DEFINE q == Weight[g - e]
             k == m * q
  <2>2. q \in Nat /\ Weight[g - 3] = q * p
    <3>1. (g - e) + (e - 3) <= Width + 3
      BY <1>0, <2>1
    <3>2. Weight[(g - e) + (e - 3)] = q * p
      BY <1>1, <2>1, <3>1, WeightAdds
    <3> QED
      BY <2>1, <3>2, WeightAt
  <2>3. r = m * Weight[g - 3]
    <3>1. CASE g = 3
      <4>1. r = m \div Weight[0] /\ Weight[0] = 1
        BY <1>4, <3>1, WeightIs DEF Unpacked
      <4>2. Weight[g - 3] = 1
        BY <3>1, WeightIs
      <4> QED
        BY <1>4, <4>1, <4>2
    <3>2. CASE g # 3
      <4>1. ~(g <= 3)
        BY <1>5, <1>7, <3>2
      <4> QED
        BY <1>4, <4>1 DEF Unpacked
    <3> QED
      BY <3>1, <3>2
  <2> HIDE DEF q
  <2>4. k \in Nat /\ r = k * p
    BY <1>2, <2>2, <2>3, Associative
  <2> HIDE DEF k, p
  <2>5. k <= d
    <3>1. k * p <= x
      BY <2>4
    <3> QED
      BY <1>2, <2>4, <3>1, LargestFactor
  <2>6. k * p <= d * p
    BY <1>2, <1>3, <2>4, <2>5, ProductGrows
  <2> QED
    BY <2>4, <2>6 DEF p
<1>8. CASE g < e
  <2>1. PICK h \in Nat \ {0} : Weight[2] = 2 * h
    BY <1>0, WeightIsEven
  <2>2. Weight[e - 1] = Weight[2] * p
    <3>1. 2 + (e - 3) = e - 1 /\ 2 + (e - 3) <= Width + 3
      BY <1>0
    <3>2. Weight[2 + (e - 3)] = Weight[2] * p
      BY <1>1, <3>1, WeightAdds
    <3> QED
      BY <3>1, <3>2
  <2> HIDE DEF p
  <2>3. Weight[e - 1] = 2 * (h * p) /\ h * p \in Nat
    BY <1>2, <2>1, <2>2, Associative
  <2>4. Weight[g] <= Weight[e - 1] /\ Weight[g] \in Nat
    <3>1. g <= e - 1 /\ e - 1 <= Width + 3 /\ g \in 0..Width + 3
      BY <1>0, <1>5, <1>8
    <3> QED
      BY <1>1, <1>5, <3>1, WeightGrows, WeightAt
  <2> DEFINE a == h * p
  <2>5. a <= x /\ r <= a
    <3>1. Weight[e - 1] = 2 * a /\ a \in Nat
      BY <2>3
    <3> HIDE DEF a
    <3>2. 2 * a <= 2 * x
      BY <3>1
    <3>3. 2 * r < 2 * a
      BY <1>6, <2>4, <3>1
    <3> QED
      BY <1>6, <3>1, <3>2, <3>3
  <2>6. h <= d
    BY <1>2, <2>5, LargestFactor
  <2>7. a <= d * p
    BY <1>2, <1>3, <2>6, ProductGrows
  <2> HIDE DEF a, d
  <2>8. a \in Nat
    BY <2>3 DEF a
  <2>9. r <= d * p
    BY <1>3, <1>6, <2>5, <2>7, <2>8
  <2> QED
    BY <2>9 DEF d, p
<1> QED
  BY <1>5, <1>7, <1>8

\* A target that is stored and read back is the largest compact target that is
\* no easier (target_to_bits, bits_to_target).
LEMMA FloorIs ==
    ASSUME NEW x \in Nat, 2 * x < TargetLimit
    PROVE  Compact(TargetToBits(x)) /\ IsFloor(BitsToTarget(TargetToBits(x)), x)
<1>0. Width \in Nat \ {0} /\ 3 \in 0..Width + 3 /\ Weight[3] \in Nat \ {0}
  BY RetargetAssumption, WeightAt
<1>1. CASE x = 0
  <2>1. TargetToBits(x) = [exponent |-> 0, mantissa |-> 0]
    BY <1>1 DEF TargetToBits
  <2>2. BitsToTarget(TargetToBits(x)) = 0
    BY <2>1, ZeroIs
  <2>3. 0 \in Representable
    <3>1. 0 <= Width /\ 2 * 0 < Weight[3]
      BY <1>0
    <3>2. Unpacked(0, 0) \in Representable
      BY <3>1, IsRepresentable
    <3>3. Unpacked(0, 0) = 0
      BY <1>0 DEF Unpacked
    <3> QED
      BY <3>2, <3>3
  <2>4. Compact(TargetToBits(x))
    BY <2>1 DEF Compact
  <2> QED
    BY <1>1, <2>2, <2>3, <2>4 DEF IsFloor
<1>2. CASE x # 0
  <2>1. PICK e \in 1..Width :
           /\ TargetToBits(x) = [exponent |-> e, mantissa |-> Leading(x, e)]
           /\ Weight[e - 1] <= 2 * x /\ 2 * x < Weight[e]
    BY <1>2, BitsAre
  <2> DEFINE m == Leading(x, e)
  <2>2. e \in Nat /\ e <= Width
    BY <1>0
  <2>3. ASSUME m \in Nat, 2 * m < Weight[3], Unpacked(e, m) \in Nat, Unpacked(e, m) <= x,
               \A r \in Representable : r <= x => r <= Unpacked(e, m)
        PROVE  Compact(TargetToBits(x)) /\ IsFloor(BitsToTarget(TargetToBits(x)), x)
    <3> HIDE DEF m
    <3>1. TargetToBits(x) = [exponent |-> e, mantissa |-> m]
      BY <2>1 DEF m
    <3>2. BitsToTarget(TargetToBits(x)) = Unpacked(e, m)
      BY <2>2, <2>3, <3>1, TargetIs
    <3>3. Unpacked(e, m) \in Representable
      BY <2>2, <2>3, IsRepresentable
    <3>4. Compact(TargetToBits(x))
      BY <2>2, <2>3, <3>1 DEF Compact
    <3> QED
      BY <2>3, <3>2, <3>3, <3>4 DEF IsFloor
  <2>4. CASE e < 3
    <3>1. e \in {1, 2}
      BY <2>4
    <3>2. m \in Nat /\ 2 * m < Weight[3] /\ Unpacked(e, m) = x
      BY <1>2, <2>1, <2>2, <3>1, FloorSmall
    <3> HIDE DEF m
    <3> QED
      BY <2>3, <3>2
  <2>5. CASE 3 <= e
    <3>1. m \in Nat /\ 2 * m < Weight[3] /\ Unpacked(e, m) = (x \div Weight[e - 3]) * Weight[e - 3]
      BY <1>2, <2>1, <2>2, <2>5, FloorLarge
    <3>2. Unpacked(e, m) \in Nat /\ Unpacked(e, m) <= x
      <4>1. e - 3 \in 0..Width + 3
        BY <1>0, <2>5
      <4>2. Weight[e - 3] \in Nat \ {0}
        BY <4>1, WeightAt
      <4> QED
        BY <3>1, <4>2, Division
    <3>3. \A r \in Representable : r <= x => r <= Unpacked(e, m)
      BY <1>2, <2>1, <2>2, <2>5, <3>1, NothingBetter
    <3> HIDE DEF m
    <3> QED
      BY <2>3, <3>1, <3>2, <3>3
  <2> QED
    BY <2>2, <2>4, <2>5
<1> QED
  BY <1>1, <1>2

-----------------------------------------------------------------------------
(* The two walks of the retargeting rules.                                 *)

\* There is a chain, on one of the networks.
Chained == net \in Networks /\ blocks # <<>> /\ blocks \in Seq(ToSet(blocks))

\* A height below the interval is no multiple of it.
LEMMA NoShortPeriod ==
    ASSUME NEW h \in Nat, NEW n \in Nat, 0 < h, h < n
    PROVE  h % n # 0
OBVIOUS

LEMMA TipIs == Chained => Tip \in Nat
<1> SUFFICES ASSUME Chained PROVE Tip \in Nat
  OBVIOUS
<1> DEFINE n == Len(blocks)
<1>1. n \in Nat /\ n # 0
  BY DEF Chained
<1> QED
  BY <1>1 DEF Tip

\* Both walks find block h if it is below the tip.
LEMMA WalksFind ==
    ASSUME Chained, NEW h \in Nat, h < Tip
    PROVE  AncestorAt(h) = h /\ NodeAtHeight(h) = h
<1>1. Tip \in Nat
  BY TipIs
<1>2. Min({h, Tip - 1}) = h
  <2>1. Tip - 1 \in Int /\ h <= Tip - 1
    BY <1>1
  <2> QED
    BY <2>1, MinOfTwo
<1> QED
  BY <1>1, <1>2 DEF AncestorAt, NodeAtHeight

\* They find the same start of an interval where the interval ends,
LEMMA IntervalStart ==
    ASSUME Chained, (Tip + 1) % net.interval = 0
    PROVE  AncestorAt(Tip + 1 - net.interval) = NodeAtHeight(Tip + 1 - net.interval)
<1> DEFINE t == Tip
           n == net.interval
<1>1. t \in Nat
  BY TipIs
<1>2. n \in Nat /\ n >= 2
  BY RetargetAssumption DEF Chained
<1> HIDE DEF t, n
<1>3. ~ (t + 1 < n)
  <2>1. (t + 1) % n = 0
    BY DEF t, n
  <2> QED
    BY <1>1, <1>2, <2>1, NoShortPeriod
<1>4. t + 1 - n \in Nat /\ t + 1 - n < t
  BY <1>1, <1>2, <1>3
<1> QED
  BY <1>4, WalksFind DEF t, n

\* and the same start of the lookback where the time ratio is used.
LEMMA LookbackStart ==
    ASSUME Chained, net.perBlock, Tip + 1 >= net.fork, Tip + 1 < net.measure
    PROVE  AncestorAt(Tip + 1 - Lookback) = NodeAtHeight(Tip + 1 - Lookback)
<1> DEFINE t == Tip
           n == net.interval
<1>1. t \in Nat
  BY TipIs
<1>2. /\ n \in Nat /\ n >= 2
      /\ net.fork \in Nat /\ net.measure \in Nat
      /\ net.fork > 1 \/ net.measure <= net.fork
  BY RetargetAssumption DEF Chained
<1>3. t >= 1
  BY <1>1, <1>2
<1>4. Lookback = IF t + 1 <= n THEN t + 1 ELSE n
  BY <1>1, <1>2, MinOfTwo DEF Lookback
<1>5. t + 1 - Lookback \in Nat /\ t + 1 - Lookback < t
  BY <1>1, <1>2, <1>3, <1>4
<1> QED
  BY <1>5, WalksFind

\* So they agree on the target of whatever comes next.
LEMMA TargetsAgree ==
    ASSUME Chained, NEW time
    PROVE  NextBitsForNode(time) = NextBitsAfter(time)
<1>0. Tip \in Nat /\ net.fork \in Nat /\ net.measure \in Nat /\ net.perBlock \in BOOLEAN
  BY TipIs, RetargetAssumption DEF Chained
<1>1. CASE ~net.perBlock \/ Tip + 1 < net.fork
  <2>1. CASE (Tip + 1) % net.interval = 0
    BY <2>1, <1>1, IntervalStart DEF NextBitsForNode, NextBitsAfter, Required
  <2>2. CASE (Tip + 1) % net.interval # 0
    BY <2>2, <1>1 DEF NextBitsForNode, NextBitsAfter, Required
  <2> QED
    BY <2>1, <2>2
<1>2. CASE ~(~net.perBlock \/ Tip + 1 < net.fork) /\ Tip + 1 < net.measure
  <2>1. AncestorAt(Tip + 1 - Lookback) = NodeAtHeight(Tip + 1 - Lookback)
    BY <1>0, <1>2, LookbackStart
  <2> QED
    BY <1>2, <2>1 DEF NextBitsForNode, NextBitsAfter, Required
<1>3. CASE ~(~net.perBlock \/ Tip + 1 < net.fork) /\ ~(Tip + 1 < net.measure)
  BY <1>3 DEF NextBitsForNode, NextBitsAfter, Required
<1> QED
  BY <1>1, <1>2, <1>3

-----------------------------------------------------------------------------
(* The bounds of the next target.                                          *)

LEMMA CompactIs ==
    ASSUME NEW bits, Compact(bits), BitsToTarget(bits) > 0
    PROVE  /\ BitsToTarget(bits) \in Representable /\ BitsToTarget(bits) \in Nat
           /\ 2 * BitsToTarget(bits) < TargetLimit
<1> DEFINE e == bits.exponent
           m == bits.mantissa
           v == BitsToTarget(bits)
<1>0. e \in Nat /\ m \in Nat /\ Width \in Nat /\ 3 \in 0..Width + 3 /\ Width \in 0..Width + 3
  BY RetargetAssumption DEF Compact
<1>1. v = BitsToTarget([exponent |-> e, mantissa |-> m])
  BY DEF BitsToTarget
<1>2. v # Invalid /\ v # 0
  <2> HIDE DEF v
  <2>1. v > 0
    BY DEF v
  <2> QED
    BY <2>1 DEF Invalid
<1>3. Weight[3] \in Nat
  BY <1>0, WeightAt
<1>4. ~(2 * m >= Weight[3]) /\ ~(e > Width)
  BY <1>2 DEF BitsToTarget
<1>5. 2 * m < Weight[3] /\ e <= Width
  BY <1>0, <1>3, <1>4
<1> HIDE DEF e, m, v
<1>6. v = Unpacked(e, m)
  BY <1>0, <1>1, <1>5, TargetIs
<1>7. v \in Nat /\ 2 * v < Weight[e]
  BY <1>0, <1>5, <1>6, UnpackedIs
<1>8. v \in Representable
  BY <1>0, <1>5, <1>6, IsRepresentable
<1>9. Weight[e] <= TargetLimit /\ Weight[e] \in Nat /\ TargetLimit \in Nat
  <2>1. e \in 0..Width + 3 /\ Width <= Width + 3
    BY <1>0, <1>5
  <2> QED
    BY <1>0, <1>5, <2>1, WeightGrows, WeightAt DEF TargetLimit
<1>10. 2 * v < TargetLimit
  BY <1>7, <1>9
<1> QED
  BY <1>7, <1>8, <1>10 DEF v

\* A target after which the next may follow, on a chain with this limit.
Fits(bits) ==
    /\ Compact(bits) /\ BitsToTarget(bits) \in Nat \ {0}
    /\ BitsToTarget(bits) <= PowLimit

\* The next target keeps the bounds.
Bounded(bits, parentBits) ==
    LET v == BitsToTarget(bits)
    IN /\ Compact(bits) /\ v \in Nat /\ v <= PowLimit /\ v \in Representable
       /\ \A r \in Representable : r <= BitsToTarget(parentBits) \div net.factor => r <= v

LEMMA LimitIs ==
    ASSUME net \in Networks
    PROVE  PowLimit \in Nat \ {0} /\ 2 * PowLimit < TargetLimit /\ PowLimit \in Representable /\ Compact(net.powLimitBits)
<1>1. Compact(net.powLimitBits) /\ BitsToTarget(net.powLimitBits) > 0
  BY TargetAssumption DEF Compact
<1>2. PowLimit \in Nat /\ PowLimit > 0 /\ 2 * PowLimit < TargetLimit /\ PowLimit \in Representable
  BY <1>1, CompactIs DEF PowLimit
<1> QED
  BY <1>1, <1>2

LEMMA RepresentableType ==
    ASSUME NEW r \in Representable
    PROVE  r \in Nat
<1>1. PICK e \in 0..Width, m \in Nat : 2 * m < Weight[3] /\ r = Unpacked(e, m)
  BY RepresentableIs
<1>2. e \in Nat /\ e <= Width
  BY RetargetAssumption
<1> QED
  BY <1>1, <1>2, UnpackedIs

LEMMA HardestIs ==
    ASSUME net \in Networks, NEW bits, Fits(bits)
    PROVE  /\ BitsToTarget(bits) \div net.factor \in Nat
           /\ BitsToTarget(bits) \div net.factor <= BitsToTarget(bits)
           /\ (BitsToTarget(bits) \div net.factor) * net.factor <= BitsToTarget(bits)
<1> DEFINE v == BitsToTarget(bits)
           f == net.factor
           h == v \div f
<1>1. v \in Nat /\ f \in Nat \ {0}
  BY RetargetAssumption DEF Fits
<1> HIDE DEF v, f
<1>2. h \in Nat /\ h * f <= v
  BY <1>1, Division
<1>3. 1 * h <= f * h
  BY <1>1, <1>2, ProductGrows
<1> DEFINE a == h * f
<1>4. f * h = a /\ a \in Nat /\ a <= v
  BY <1>1, <1>2
<1> HIDE DEF a, h
<1>5. h <= v
  BY <1>1, <1>2, <1>3, <1>4
<1> QED
  BY <1>2, <1>5 DEF h, v, f

\* The parent's target, and the limit.
LEMMA SameIsBounded ==
    ASSUME net \in Networks, NEW bits, NEW parentBits, Fits(parentBits),
           bits = parentBits \/ bits = net.powLimitBits
    PROVE  Bounded(bits, parentBits)
<1> DEFINE v == BitsToTarget(bits)
           p == BitsToTarget(parentBits)
           h == p \div net.factor
<1>1. p \in Nat /\ p <= PowLimit /\ Compact(parentBits) /\ PowLimit \in Nat \ {0}
  BY LimitIs DEF Fits
<1>2. h \in Nat /\ h <= p
  BY HardestIs
<1>3. v \in Nat \ {0} /\ p <= v /\ v <= PowLimit /\ Compact(bits)
  <2>1. CASE bits = parentBits
    BY <1>1, <2>1 DEF Fits
  <2>2. CASE bits = net.powLimitBits
    BY <1>1, <2>2, LimitIs DEF PowLimit
  <2> QED
    BY <2>1, <2>2
<1>4. v \in Representable
  BY <1>3, CompactIs
<1>5. \A r \in Representable : r <= h => r <= v
  <2> HIDE DEF h, v, p
  <2> QED
    BY <1>1, <1>2, <1>3, RepresentableType
<1> QED
  BY <1>3, <1>4, <1>5 DEF Bounded

\* A target between the hardest that is allowed and the limit.
LEMMA FloorIsBounded ==
    ASSUME net \in Networks, NEW parentBits, Fits(parentBits), NEW x \in Nat,
           x <= PowLimit, BitsToTarget(parentBits) \div net.factor <= x
    PROVE  Bounded(TargetToBits(x), parentBits)
<1> DEFINE bits == TargetToBits(x)
           v == BitsToTarget(bits)
           h == BitsToTarget(parentBits) \div net.factor
<1>1. h \in Nat /\ PowLimit \in Nat /\ 2 * PowLimit < TargetLimit
  BY LimitIs, HardestIs
<1>2. TargetLimit \in Nat
  BY TargetLimitType
<1>3. 2 * x < TargetLimit
  BY <1>1, <1>2
<1>4. Compact(bits) /\ IsFloor(v, x)
  BY <1>3, FloorIs
<1> HIDE DEF bits, v, h
<1>5. v \in Nat /\ v <= x /\ v \in Representable /\ \A r \in Representable : r <= x => r <= v
  BY <1>4 DEF IsFloor
<1>6. v <= PowLimit
  BY <1>1, <1>5
<1>7. \A r \in Representable : r <= h => r <= v
  <2> TAKE r \in Representable
  <2>1. r \in Nat
    BY RepresentableType
  <2>2. h <= x
    BY DEF h
  <2> QED
    BY <1>1, <1>5, <2>1, <2>2
<1> QED
  BY <1>4, <1>5, <1>6, <1>7 DEF Bounded, bits, v, h

\* The ratio of two times changes a target by the factor at most.
LEMMA NextBitsBounded ==
    ASSUME net \in Networks, NEW bits, Fits(bits), NEW actual \in Int,
           NEW timespan \in Nat \ {0}, timespan % net.factor = 0
    PROVE  Bounded(NextBits(bits, actual, timespan), bits)
<1> DEFINE t == BitsToTarget(bits)
           f == net.factor
           h == t \div f
           q == timespan \div f
           larger == Max({actual, q})
           c == Min({larger, timespan * f})
           y == (t * c) \div timespan
           x == Min({y, PowLimit})
<1>1. t \in Nat \ {0} /\ t <= PowLimit /\ f \in Nat \ {0} /\ PowLimit \in Nat
  BY LimitIs, RetargetAssumption DEF Fits
<1>2. h \in Nat /\ h <= t /\ h * f <= t
  BY HardestIs
<1>3. NextBits(bits, actual, timespan) = TargetToBits(x)
  BY DEF NextBits
<1>4. timespan % f = 0
  OBVIOUS
<1> HIDE DEF t, f, h
<1>5. q \in Nat \ {0} /\ q * f = timespan
  BY <1>1, <1>4
<1>6. q <= timespan * f
  <2>1. timespan * 1 <= timespan * f /\ q * 1 <= q * f
    BY <1>1, <1>5
  <2> HIDE DEF q
  <2>2. q <= timespan
    BY <1>1, <1>5, <2>1
  <2>3. timespan * f \in Nat
    BY <1>1
  <2> DEFINE b == timespan * f
  <2>4. timespan <= b /\ b \in Nat
    BY <2>1, <2>3
  <2> HIDE DEF b
  <2>5. q <= b
    BY <1>5, <2>2, <2>4
  <2> QED
    BY <2>5 DEF b
<1> HIDE DEF q
<1>7. larger \in Int /\ q <= larger
  <2>1. q \in Int
    BY <1>5
  <2>2. larger \in {actual, q} /\ q <= larger
    BY <2>1, MaxOfTwo
  <2> HIDE DEF larger
  <2> QED
    BY <2>1, <2>2
<1> HIDE DEF larger
<1>8. c \in Nat /\ q <= c
  <2> DEFINE b == timespan * f
  <2>1. b \in Int /\ q <= b
    BY <1>1, <1>6
  <2> HIDE DEF b
  <2>2. CASE larger <= b
    <3>1. Min({larger, b}) = larger
      BY <1>7, <2>1, <2>2, MinOfTwo
    <3> QED
      BY <1>5, <1>7, <3>1 DEF b
  <2>3. CASE b <= larger
    <3>1. Min({larger, b}) = b
      BY <1>7, <2>1, <2>3, MinOfTwo
    <3> QED
      BY <1>5, <2>1, <3>1 DEF b
  <2> QED
    BY <1>7, <2>1, <2>2, <2>3
<1> HIDE DEF c
<1>9. y \in Nat /\ h <= y
  <2>1. t * c \in Nat
    BY <1>1, <1>8
  <2>2. h * timespan = (h * f) * q
    BY <1>1, <1>2, <1>5, Associative, Product
  <2>3. (h * f) * q <= t * q
    BY <1>1, <1>2, <1>5, ProductGrows
  <2>4. q * t <= c * t
    BY <1>1, <1>5, <1>8, ProductGrows
  <2>5. t * q = q * t /\ t * c = c * t
    BY <1>1, <1>5, <1>8, Product
  <2> DEFINE a == h * timespan
             b == t * q
             d == t * c
  <2>6. a <= b /\ b <= d /\ a \in Nat /\ b \in Nat /\ d \in Nat
    BY <1>1, <1>2, <1>5, <2>1, <2>2, <2>3, <2>4, <2>5
  <2> HIDE DEF a, b, d
  <2>7. a <= d
    BY <2>6
  <2>8. h * timespan <= d /\ d \in Nat
    BY <2>6, <2>7 DEF a
  <2>9. h <= d \div timespan
    BY <1>2, <2>8, LargestFactor
  <2>10. d \div timespan \in Nat
    BY <2>6, Division
  <2> QED
    BY <2>9, <2>10 DEF d
<1> HIDE DEF y
<1>10. x \in Nat /\ x <= PowLimit /\ h <= x
  <2>1. CASE y <= PowLimit
    <3>1. x = y
      BY <1>1, <1>9, <2>1, MinOfTwo
    <3> QED
      BY <1>9, <2>1, <3>1
  <2>2. CASE PowLimit <= y
    <3>1. x = PowLimit
      BY <1>1, <1>9, <2>2, MinOfTwo
    <3> QED
      BY <1>1, <1>2, <3>1
  <2> QED
    BY <1>1, <1>9, <2>1, <2>2
<1> HIDE DEF x
<1>11. Bounded(TargetToBits(x), bits)
  BY <1>10, FloorIsBounded DEF h, t, f
<1> QED
  BY <1>3, <1>11

\* So does the rule over the work of a window.
LEMMA BitsFromWorkBounded ==
    ASSUME net \in Networks, NEW parentBits, Fits(parentBits), NEW work \in Int, NEW elapsed \in Int
    PROVE  Bounded(BitsFromWork(work, elapsed, parentBits), parentBits)
<1> DEFINE h == BitsToTarget(parentBits) \div net.factor
           y == (TargetLimit * elapsed) \div (work * net.spacing)
           target == Min({y, PowLimit})
           x == Max({target, h})
<1>1. h \in Nat /\ h <= PowLimit /\ PowLimit \in Nat
  <2> DEFINE t == BitsToTarget(parentBits)
  <2>1. t \in Nat /\ t <= PowLimit /\ PowLimit \in Nat
    BY LimitIs DEF Fits
  <2>2. h \in Nat /\ h <= t
    BY HardestIs
  <2> HIDE DEF t, h
  <2> QED
    BY <2>1, <2>2
<1>2. CASE work <= 0 \/ elapsed <= 0
  <2>1. BitsFromWork(work, elapsed, parentBits) = parentBits
    BY <1>2 DEF BitsFromWork
  <2> QED
    BY <2>1, SameIsBounded
<1>3. CASE ~(work <= 0 \/ elapsed <= 0)
  <2>1. BitsFromWork(work, elapsed, parentBits) = TargetToBits(x)
    BY <1>3 DEF BitsFromWork
  <2>2. work \in Nat \ {0} /\ elapsed \in Nat \ {0} /\ net.spacing \in Nat \ {0} /\ TargetLimit \in Nat
    <3>1. Width \in 0..Width + 3
      BY RetargetAssumption
    <3>2. TargetLimit \in Nat
      BY <3>1, WeightAt DEF TargetLimit
    <3> QED
      BY <1>3, <3>2, RetargetAssumption
  <2>3. TargetLimit * elapsed \in Nat /\ work * net.spacing \in Nat \ {0}
    BY <2>2
  <2>4. y \in Nat
    BY <2>3, Division
  <2> HIDE DEF y, h
  <2>5. target \in Nat /\ target <= PowLimit
    <3>1. CASE y <= PowLimit
      BY <1>1, <2>4, <3>1, MinOfTwo
    <3>2. CASE PowLimit <= y
      BY <1>1, <2>4, <3>2, MinOfTwo
    <3> QED
      BY <1>1, <2>4, <3>1, <3>2
  <2> HIDE DEF target
  <2>6. x \in {target, h} /\ h <= x
    BY <1>1, <2>5, MaxOfTwo
  <2> HIDE DEF x
  <2>7. x \in Nat /\ x <= PowLimit
    BY <1>1, <2>5, <2>6
  <2>8. Bounded(TargetToBits(x), parentBits)
    BY <2>6, <2>7, FloorIsBounded DEF h
  <2> QED
    BY <2>1, <2>8
<1> QED
  BY <1>2, <1>3

LEMMA WorkIs ==
    ASSUME NEW bits, Fits(bits)
    PROVE  BlockWork(bits) \in Nat
<1>1. BitsToTarget(bits) \in Nat /\ BitsToTarget(bits) + 1 \in Nat \ {0}
  BY DEF Fits
<1>2. TargetLimit \in Nat
  BY TargetLimitType
<1>3. TargetLimit \div (BitsToTarget(bits) + 1) \in Nat
  BY <1>1, <1>2, Division
<1> QED
  BY <1>3 DEF BlockWork

\* Every block of the chain has a target after which the next may follow.
Sane(b) == Fits(b.bits) /\ b.time \in Int /\ b.work \in Nat

Aimed == Chained /\ \A i \in 1..Len(blocks) : Sane(blocks[i])

LEMMA BlockIs ==
    ASSUME Aimed, NEW h \in 0..Tip
    PROVE  Fits(BlockAt(h).bits) /\ BlockAt(h).time \in Int /\ BlockAt(h).work \in Nat
<1>1. Tip \in Nat /\ Len(blocks) \in Nat
  BY TipIs DEF Aimed, Chained
<1>2. h + 1 \in 1..Len(blocks)
  BY <1>1 DEF Tip
<1> QED
  BY <1>2 DEF Aimed, BlockAt, Sane

LEMMA WindowIs ==
    ASSUME Aimed
    PROVE  WindowStart \in 0..Tip
<1> DEFINE S == {0} \cup {h \in 1..Tip : BlockAt(h - 1).time < BlockAt(Tip).time - net.spacing * net.interval}
<1>1. Tip \in Nat
  BY TipIs DEF Aimed
<1>2. S \subseteq 0..Tip
  BY <1>1
<1>3. IsFiniteSet(0..Tip)
  BY <1>1, FS_Interval
<1>4. S \in SUBSET Nat /\ S # {} /\ IsFiniteSet(S)
  <2>1. 0 \in S
    OBVIOUS
  <2> HIDE DEF S
  <2>2. IsFiniteSet(S)
    BY <1>2, <1>3, FS_Subset
  <2>3. S \in SUBSET Nat
    BY <1>1, <1>2
  <2> QED
    BY <2>1, <2>2, <2>3
<1>5. WindowStart = Max(S)
  BY DEF WindowStart
<1> HIDE DEF S
<1>6. Max(S) \in S
  BY <1>4, MaxOfFinite
<1> QED
  BY <1>2, <1>5, <1>6

\* Timespans are a multiple of the factor.
LEMMA TimespansAre ==
    ASSUME net \in Networks
    PROVE  /\ net.spacing * net.interval \in Nat \ {0}
           /\ (net.spacing * net.interval) % net.factor = 0
           /\ net.perBlock => \A n \in Nat \ {0} : /\ net.spacing * n \in Nat \ {0}
                                                   /\ (net.spacing * n) % net.factor = 0
<1> DEFINE s == net.spacing
           f == net.factor
           i == net.interval
<1>1. s \in Nat \ {0} /\ f \in Nat \ {0} /\ i \in Nat \ {0} /\ (s * i) % f = 0 /\ (net.perBlock => s % f = 0)
  BY RetargetAssumption
<1> HIDE DEF s, f, i
<1>2. s * i \in Nat \ {0}
  BY <1>1
<1>3. ASSUME net.perBlock, NEW n \in Nat \ {0}
      PROVE  s * n \in Nat \ {0} /\ (s * n) % f = 0
  <2> DEFINE q == s \div f
  <2>1. s % f = 0
    BY <1>1, <1>3
  <2>2. q \in Nat /\ s = q * f
    BY <1>1, <2>1
  <2> HIDE DEF q
  <2> DEFINE k == q * n
  <2>3. s * n = k * f /\ k \in Nat
    BY <1>1, <2>2
  <2> HIDE DEF k
  <2>4. (k * f) % f = 0
    BY <1>1, <2>3
  <2> QED
    BY <1>1, <2>3, <2>4
<1> QED
  BY <1>1, <1>2, <1>3 DEF s, f, i

\* Whichever rule applies, the next target keeps the bounds.
LEMMA NextIsBounded ==
    ASSUME Aimed, NEW time \in Int
    PROVE  Bounded(NextBitsAfter(time), BlockAt(Tip).bits)
<1> DEFINE parentBits == BlockAt(Tip).bits
           i == AncestorAt(Tip + 1 - net.interval)
           l == AncestorAt(Tip + 1 - Lookback)
<1>1. net \in Networks /\ Tip \in Nat
  BY TipIs DEF Aimed, Chained
<1>2. Fits(parentBits) /\ BlockAt(Tip).time \in Int /\ BlockAt(Tip).work \in Nat
  BY <1>1, BlockIs
<1>3. Lookback \in Nat \ {0}
  <2>1. net.interval \in Nat \ {0} /\ Tip + 1 \in Nat \ {0}
    BY <1>1, RetargetAssumption
  <2> HIDE DEF parentBits
  <2>2. CASE Tip + 1 <= net.interval
    BY <1>1, <2>1, <2>2, MinOfTwo DEF Lookback
  <2>3. CASE net.interval <= Tip + 1
    BY <1>1, <2>1, <2>3, MinOfTwo DEF Lookback
  <2> QED
    BY <1>1, <2>1, <2>2, <2>3
<1>4. i \in {Nowhere} \cup 0..Tip
  <2>1. Tip + 1 - net.interval \in Int
    BY <1>1, RetargetAssumption
  <2> QED
    BY <1>1, <2>1 DEF AncestorAt
<1>5. l \in {Nowhere} \cup 0..Tip
  <2>1. Tip + 1 - Lookback \in Int
    BY <1>1, <1>3
  <2> QED
    BY <1>1, <2>1 DEF AncestorAt
<1> HIDE DEF i, l, parentBits
<1>6. NextBitsAfter(time) = Required(i, l, time)
  BY DEF NextBitsAfter, i, l
<1>7. Bounded(parentBits, parentBits) /\ Bounded(net.powLimitBits, parentBits)
  BY <1>1, <1>2, SameIsBounded
<1>8. Bounded(Periodic(i), parentBits)
  <2>1. CASE i = Nowhere
    BY <1>7, <2>1 DEF Periodic, parentBits
  <2>2. CASE i \in 0..Tip
    <3>1. BlockAt(i).time \in Int
      BY <2>2, BlockIs
    <3>2. BlockAt(Tip).time - BlockAt(i).time \in Int
      BY <1>2, <3>1
    <3>3. i # Nowhere
      BY <1>1, <2>2 DEF Nowhere
    <3>4. Periodic(i) = NextBits(parentBits, BlockAt(Tip).time - BlockAt(i).time, net.spacing * net.interval)
      BY <3>3 DEF Periodic, parentBits
    <3> QED
      BY <1>1, <1>2, <3>2, <3>4, TimespansAre, NextBitsBounded
  <2> QED
    BY <1>4, <2>1, <2>2
<1>9. net.perBlock => Bounded(TimeRatio(l, Lookback, time), parentBits)
  <2> SUFFICES ASSUME net.perBlock PROVE Bounded(TimeRatio(l, Lookback, time), parentBits)
    OBVIOUS
  <2>1. CASE l = Nowhere
    BY <1>7, <2>1 DEF TimeRatio, parentBits
  <2>2. CASE l \in 0..Tip
    <3>1. BlockAt(l).time \in Int
      BY <2>2, BlockIs
    <3>2. time - BlockAt(l).time \in Int
      BY <3>1
    <3>3. l # Nowhere
      BY <1>1, <2>2 DEF Nowhere
    <3>4. TimeRatio(l, Lookback, time) = NextBits(parentBits, time - BlockAt(l).time, net.spacing * Lookback)
      BY <3>3 DEF TimeRatio, parentBits
    <3>5. net.spacing * Lookback \in Nat \ {0} /\ (net.spacing * Lookback) % net.factor = 0
      BY <1>1, <1>3, TimespansAre
    <3> QED
      BY <1>1, <1>2, <3>2, <3>4, <3>5, NextBitsBounded
  <2> QED
    BY <1>5, <2>1, <2>2
<1>10. Bounded(FromWork(time), parentBits)
  <2> DEFINE w == WindowStart
             work == BlockAt(Tip).work - WorkBefore(w)
             elapsed == time - BlockAt(w).time
  <2>1. w \in 0..Tip
    BY WindowIs
  <2>2. FromWork(time) = BitsFromWork(work, elapsed, parentBits)
    BY DEF FromWork, parentBits
  <2> HIDE DEF w
  <2>3. elapsed \in Int
    <3>1. BlockAt(w).time \in Int
      BY <2>1, BlockIs
    <3> QED
      BY <3>1
  <2>4. work \in Int
    <3>1. CASE w = 0
      BY <1>2, <3>1 DEF WorkBefore
    <3>2. CASE w # 0
      <4>1. w - 1 \in 0..Tip
        BY <1>1, <2>1, <3>2
      <4>2. BlockAt(w - 1).work \in Nat
        BY <4>1, BlockIs
      <4> QED
        BY <1>2, <3>2, <4>2 DEF WorkBefore
    <3> QED
      BY <3>1, <3>2
  <2> HIDE DEF work, elapsed
  <2> QED
    BY <1>1, <1>2, <2>2, <2>3, <2>4, BitsFromWorkBounded
<1>11. \/ Required(i, l, time) = parentBits
       \/ Required(i, l, time) = Periodic(i)
       \/ Required(i, l, time) = net.powLimitBits
       \/ net.perBlock /\ Required(i, l, time) = TimeRatio(l, Lookback, time)
       \/ Required(i, l, time) = FromWork(time)
  <2>1. net.perBlock \in BOOLEAN
    BY <1>1, RetargetAssumption
  <2> QED
    BY <2>1 DEF Required, parentBits
<1>12. Bounded(Required(i, l, time), parentBits)
  BY <1>7, <1>8, <1>9, <1>10, <1>11
<1> QED
  BY <1>6, <1>12 DEF parentBits

LEMMA AimedBounds ==
    ASSUME Aimed
    PROVE  TargetStaysInBounds
<1> SUFFICES ASSUME NEW step \in Steps
             PROVE  LET target == BitsToTarget(NextBitsAfter(BlockAt(Tip).time + step))
                        hardest == BitsToTarget(BlockAt(Tip).bits) \div net.factor
                    IN /\ target \in Representable /\ target <= PowLimit
                       /\ target >= Max({r \in Representable : r <= hardest})
  BY DEF TargetStaysInBounds
<1> DEFINE time == BlockAt(Tip).time + step
           parentBits == BlockAt(Tip).bits
           v == BitsToTarget(NextBitsAfter(time))
           h == BitsToTarget(parentBits) \div net.factor
           S == {r \in Representable : r <= h}
<1>1. net \in Networks /\ Tip \in Nat /\ Tip \in 0..Tip
  BY TipIs DEF Aimed, Chained
<1>2. Fits(parentBits) /\ time \in Int
  <2>1. BlockAt(Tip).time \in Int /\ Fits(parentBits)
    BY <1>1, BlockIs
  <2>2. step \in Int
    BY RetargetAssumption
  <2> QED
    BY <2>1, <2>2
<1>3. Bounded(NextBitsAfter(time), parentBits)
  BY <1>2, NextIsBounded
<1>4. v \in Nat /\ v <= PowLimit /\ v \in Representable /\ \A r \in Representable : r <= h => r <= v
  BY <1>3 DEF Bounded
<1>5. h \in Nat /\ 2 * h < TargetLimit
  <2> DEFINE t == BitsToTarget(parentBits)
  <2>1. h \in Nat /\ h <= t
    BY <1>1, <1>2, HardestIs
  <2>2. t \in Nat /\ t > 0 /\ Compact(parentBits)
    BY <1>2 DEF Fits
  <2>3. 2 * t < TargetLimit
    BY <2>2, CompactIs
  <2>4. TargetLimit \in Nat
    BY TargetLimitType
  <2> HIDE DEF t, h
  <2> QED
    BY <2>1, <2>2, <2>3, <2>4
<1> DEFINE m == BitsToTarget(TargetToBits(h))
<1>6. m \in S /\ \A r \in S : r <= m
  <2> HIDE DEF h
  <2>1. IsFloor(m, h)
    BY <1>5, FloorIs
  <2> QED
    BY <2>1 DEF IsFloor
<1> HIDE DEF v, h, m
<1>7. Max(S) \in S
  <2>1. \A r \in S : m >= r
    <3> TAKE r \in S
    <3>1. r \in Nat /\ m \in Nat /\ r <= m
      BY <1>6, RepresentableType
    <3> QED
      BY <3>1
  <2> HIDE DEF S
  <2>2. \E x \in S : \A y \in S : x >= y
    BY <1>6, <2>1
  <2> QED
    BY <2>2 DEF Max
<1>8. v >= Max(S)
  <2> DEFINE x == Max(S)
  <2>1. x \in Representable /\ x <= h /\ x \in Nat
    BY <1>7, RepresentableType
  <2> HIDE DEF x
  <2>2. x <= v
    BY <1>4, <2>1
  <2>3. v >= x
    BY <1>4, <2>1, <2>2
  <2> QED
    BY <2>3 DEF x
<1> QED
  BY <1>4, <1>8 DEF v, h

LEMMA AimedInvariant == RetargetSpec => []Aimed
<1>1. RetargetInit => Aimed
  <2> SUFFICES ASSUME RetargetInit PROVE Aimed
    OBVIOUS
  <2>1. net \in Networks /\ blocks = <<Genesis>>
    BY DEF RetargetInit
  <2>2. Chained
    <3> HIDE DEF Genesis
    <3>1. ToSet(blocks) = {Genesis}
      BY <2>1 DEF ToSet
    <3> QED
      BY <2>1, <3>1 DEF Chained
  <2>3. Sane(Genesis)
    <3>1. PowLimit \in Nat \ {0} /\ Compact(net.powLimitBits)
      BY <2>1, LimitIs
    <3>2. Fits(net.powLimitBits)
      BY <3>1 DEF Fits, PowLimit
    <3>3. BlockWork(net.powLimitBits) \in Nat
      BY <3>2, WorkIs
    <3> QED
      BY <3>2, <3>3 DEF Sane, Genesis
  <2> HIDE DEF Genesis
  <2>4. Len(blocks) = 1 /\ blocks[1] = Genesis
    BY <2>1
  <2> QED
    BY <2>2, <2>3, <2>4 DEF Aimed
<1>2. ASSUME Aimed, NEW step \in Steps, Extend(step) PROVE Aimed'
  <2> DEFINE time == BlockAt(Tip).time + step
             bits == NextBitsAfter(time)
             e == [bits |-> bits, time |-> time, work |-> BlockAt(Tip).work + BlockWork(bits)]
  <2>1. net \in Networks /\ Tip \in 0..Tip
    BY <1>2, TipIs DEF Aimed, Chained
  <2>2. BlockAt(Tip).time \in Int /\ BlockAt(Tip).work \in Nat /\ time \in Int
    <3>1. BlockAt(Tip).time \in Int /\ BlockAt(Tip).work \in Nat
      BY <1>2, <2>1, BlockIs
    <3>2. step \in Int
      BY RetargetAssumption
    <3> QED
      BY <3>1, <3>2
  <2>3. Bounded(bits, BlockAt(Tip).bits)
    BY <1>2, <2>2, NextIsBounded
  <2>4. SolvableBits(bits) /\ blocks' = Append(blocks, e) /\ net' = net
    BY <1>2 DEF Extend
  <2> HIDE DEF bits, time
  <2>5. Fits(bits)
    BY <2>3, <2>4 DEF Fits, Bounded, SolvableBits
  <2>6. Sane(e)
    <3>1. BlockWork(bits) \in Nat
      BY <2>5, WorkIs
    <3> QED
      BY <2>2, <2>5, <3>1 DEF Sane
  <2> HIDE DEF e
  <2>7. PowLimit' = PowLimit
    BY <2>4 DEF PowLimit
  <2>8. \A b : Sane(b) => Sane(b)'
    BY <2>7 DEF Sane, Fits
  <2> DEFINE S == ToSet(blocks) \cup {e}
  <2>9. blocks \in Seq(S) /\ e \in S
    BY <1>2 DEF Aimed, Chained
  <2> HIDE DEF S
  <2>10. /\ blocks' \in Seq(S) /\ Len(blocks') = Len(blocks) + 1 /\ Len(blocks) \in Nat
         /\ \A i \in 1..Len(blocks') : blocks'[i] = IF i = Len(blocks') THEN e ELSE blocks[i]
    BY <2>4, <2>9
  <2>11. \A i \in 1..Len(blocks') : Sane(blocks'[i])
    <3> TAKE i \in 1..Len(blocks')
    <3>1. CASE i = Len(blocks')
      BY <2>6, <2>10, <3>1
    <3>2. CASE i # Len(blocks')
      <4>1. i \in 1..Len(blocks) /\ blocks'[i] = blocks[i]
        BY <2>10, <3>2
      <4> QED
        BY <1>2, <4>1 DEF Aimed
    <3> QED
      BY <3>1, <3>2
  <2>12. Chained'
    <3>1. \A i \in 1..Len(blocks') : blocks'[i] \in ToSet(blocks')
      BY <2>10 DEF ToSet
    <3>2. blocks' # <<>>
      BY <2>10
    <3> QED
      BY <2>1, <2>4, <2>10, <3>1, <3>2 DEF Chained
  <2> QED
    BY <2>8, <2>11, <2>12 DEF Aimed
<1>3. Aimed /\ UNCHANGED retargetVars => Aimed'
  BY DEF Aimed, Chained, Sane, Fits, PowLimit, retargetVars
<1>4. Aimed /\ [\E step \in Steps : Extend(step)]_retargetVars => Aimed'
  BY <1>2, <1>3
<1> QED
  BY <1>1, <1>4, PTL DEF RetargetSpec

\* A header is judged like the block it announces, on every network, however
\* long the chain and whatever its timestamps (next_bits_after,
\* _next_bits_for_node).
THEOREM HeadersCorrect == RetargetSpec => []HeaderAndBlockAgree
<1>1. Aimed => HeaderAndBlockAgree
  BY TargetsAgree DEF HeaderAndBlockAgree, Aimed
<1> QED
  BY <1>1, AimedInvariant, PTL

\* Whatever the timestamps say, the next target has a compact form, is never
\* easier than the limit and never harder than the parent's by more than the
\* factor, rounded down to a compact form, on every network, for every base and
\* number of digits (next_bits, bits_from_work, target_to_bits).
THEOREM TargetsCorrect == RetargetSpec => []TargetStaysInBounds
<1>1. Aimed => TargetStaysInBounds
  BY AimedBounds
<1> QED
  BY <1>1, AimedInvariant, PTL

-----------------------------------------------------------------------------
(* Sequences without repetition, and the bytes of the blocks in them.      *)

Distinct(s) == \A i, j \in 1..Len(s) : s[i] = s[j] => i = j

LEMMA SetOfSeq ==
    ASSUME NEW S, NEW s \in Seq(S)
    PROVE  IsFiniteSet(ToSet(s)) /\ ToSet(s) \subseteq S
<1> DEFINE f == [i \in 1..Len(s) |-> s[i]]
<1>1. f \in Surjection(1..Len(s), ToSet(s))
  <2>1. ASSUME NEW i \in 1..Len(s)
        PROVE  f[i] \in ToSet(s)
    BY DEF ToSet
  <2>2. ASSUME NEW x \in ToSet(s)
        PROVE  \E i \in 1..Len(s) : f[i] = x
    <3>1. PICK i \in 1..Len(s) : x = s[i]
      BY DEF ToSet
    <3> QED
      BY <3>1
  <2>3. f \in [1..Len(s) -> ToSet(s)]
    BY <2>1
  <2> HIDE DEF f
  <2> QED
    BY <2>2, <2>3 DEF Surjection
<1>2. IsFiniteSet(1..Len(s))
  BY FS_Interval
<1>3. IsFiniteSet(ToSet(s))
  BY <1>1, <1>2, FS_Surjection
<1>4. ToSet(s) \subseteq S
  BY DEF ToSet
<1> QED
  BY <1>3, <1>4

LEMMA FirstNumbers ==
    ASSUME NEW n \in Nat
    PROVE  IsFiniteSet(1..n) /\ Cardinality(1..n) = n
<1>1. IsFiniteSet(1..n) /\ Cardinality(1..n) = IF 1 > n THEN 0 ELSE n - 1 + 1
  BY FS_Interval
<1> QED
  BY <1>1

LEMMA BytesFinite ==
    ASSUME NEW S \in SUBSET Stored, IsFiniteSet(S)
    PROVE  IsFiniteSet(BytesOf(S))
<1> DEFINE F == {{b} \X (1..Size[b]) : b \in S}
           f == [b \in S |-> {b} \X (1..Size[b])]
<1>1. f \in Surjection(S, F)
  BY DEF Surjection
<1>2. IsFiniteSet(F)
  BY <1>1, FS_Surjection
<1>3. ASSUME NEW b \in S PROVE IsFiniteSet({b} \X (1..Size[b]))
  <2>1. Size[b] \in Nat
    BY CacheAssumption
  <2>2. IsFiniteSet(1..Size[b])
    BY <2>1, FirstNumbers
  <2>3. IsFiniteSet({b})
    BY FS_Singleton
  <2> QED
    BY <2>2, <2>3, FS_Product
<1>4. \A X \in F : IsFiniteSet(X)
  BY <1>3
<1> HIDE DEF F
<1>5. IsFiniteSet(UNION F)
  BY <1>2, <1>4, FS_UNION
<1> QED
  BY <1>5 DEF BytesOf, F

\* The bytes of two sets of blocks without a common one add up,
LEMMA BytesAdd ==
    ASSUME NEW S \in SUBSET Stored, NEW T \in SUBSET Stored,
           IsFiniteSet(S), IsFiniteSet(T), S \cap T = {}
    PROVE  Cardinality(BytesOf(S \cup T)) = Cardinality(BytesOf(S)) + Cardinality(BytesOf(T))
<1>1. IsFiniteSet(BytesOf(S)) /\ IsFiniteSet(BytesOf(T))
  BY BytesFinite
<1>2. BytesOf(S) \cup BytesOf(T) = BytesOf(S \cup T)
  BY DEF BytesOf
<1>3. BytesOf(S) \cap BytesOf(T) = {}
  <2>1. \A U : \A x \in BytesOf(U) : x[1] \in U
    BY DEF BytesOf
  <2> QED
    BY <2>1
<1>4. Cardinality(BytesOf(S)) \in Nat /\ Cardinality(BytesOf(T)) \in Nat
  BY <1>1, FS_CardinalityType
<1> DEFINE X == BytesOf(S)
           Y == BytesOf(T)
<1> HIDE DEF X, Y
<1>5. Cardinality(X \cup Y) = Cardinality(X) + Cardinality(Y) - Cardinality(X \cap Y)
  BY <1>1, FS_Union DEF X, Y
<1>6. Cardinality(X \cap Y) = 0
  BY <1>3, FS_EmptySet DEF X, Y
<1>7. Cardinality(X \cup Y) = Cardinality(X) + Cardinality(Y)
  BY <1>4, <1>5, <1>6 DEF X, Y
<1> QED
  BY <1>2, <1>7 DEF X, Y

\* and those of one block are its size.
LEMMA BytesOfOne ==
    ASSUME NEW b \in Stored
    PROVE  Cardinality(BytesOf({b})) = Size[b]
<1>1. Size[b] \in Nat
  BY CacheAssumption
<1>2. BytesOf({b}) = {b} \X (1..Size[b])
  BY DEF BytesOf
<1>3. IsFiniteSet(1..Size[b]) /\ Cardinality(1..Size[b]) = Size[b]
  BY <1>1, FirstNumbers
<1>4. IsFiniteSet({b}) /\ Cardinality({b}) = 1
  BY FS_Singleton
<1>5. Cardinality({b} \X (1..Size[b])) = Cardinality({b}) * Cardinality(1..Size[b])
  BY <1>3, <1>4, FS_Product
<1>6. Cardinality({b} \X (1..Size[b])) = 1 * Size[b]
  BY <1>3, <1>4, <1>5
<1>7. 1 * Size[b] = Size[b]
  BY <1>1
<1> QED
  BY <1>2, <1>6, <1>7

LEMMA SizeIsNat ==
    ASSUME NEW s \in Seq(Stored)
    PROVE  CachedSize(s) \in Nat
<1>1. IsFiniteSet(BytesOf(ToSet(s)))
  BY SetOfSeq, BytesFinite
<1> QED
  BY <1>1, FS_CardinalityType DEF CachedSize

\* Popping splits the cache, and its bytes with it.
LEMMA PoppingSplits ==
    ASSUME NEW s \in Seq(Stored), Distinct(s), NEW n \in 0..Len(s)
    PROVE  /\ PoppedCache(s, n) \in Seq(Stored) /\ Distinct(PoppedCache(s, n))
           /\ Len(PoppedCache(s, n)) = Len(s) - n
           /\ SubSeq(s, 1, n) \in Seq(Stored)
           /\ CachedSize(s) = CachedSize(SubSeq(s, 1, n)) + CachedSize(PoppedCache(s, n))
<1> DEFINE p == SubSeq(s, 1, n)
           q == SubSeq(s, n + 1, Len(s))
<1>1. p \in Seq(Stored) /\ Len(p) = n /\ \A i \in 1..n : p[i] = s[i]
  OBVIOUS
<1>2. q \in Seq(Stored) /\ Len(q) = Len(s) - n /\ \A i \in 1..(Len(s) - n) : q[i] = s[i + n]
  OBVIOUS
<1> HIDE DEF p, q
<1>3. Distinct(q)
  BY <1>2 DEF Distinct
<1>4. ToSet(p) = {s[i] : i \in 1..n}
  BY <1>1 DEF ToSet
<1>5. ToSet(q) = {s[i] : i \in (n + 1)..Len(s)}
  <2>1. \A i \in (n + 1)..Len(s) : i - n \in 1..(Len(s) - n) /\ s[i] = q[i - n]
    BY <1>2
  <2>2. \A i \in 1..(Len(s) - n) : i + n \in (n + 1)..Len(s)
    OBVIOUS
  <2>3. ToSet(q) = {q[i] : i \in 1..(Len(s) - n)}
    BY <1>2 DEF ToSet
  <2>4. ToSet(q) \subseteq {s[i] : i \in (n + 1)..Len(s)}
    BY <1>2, <2>2, <2>3
  <2>5. {s[i] : i \in (n + 1)..Len(s)} \subseteq ToSet(q)
    BY <2>1, <2>3
  <2> QED
    BY <2>4, <2>5
<1>6. ToSet(s) = ToSet(p) \cup ToSet(q)
  <2>1. ToSet(s) = {s[i] : i \in 1..Len(s)}
    BY DEF ToSet
  <2>2. \A i : i \in 1..Len(s) <=> i \in 1..n \/ i \in (n + 1)..Len(s)
    OBVIOUS
  <2> QED
    BY <1>4, <1>5, <2>1, <2>2
<1>7. ToSet(p) \cap ToSet(q) = {}
  <2>1. \A i \in 1..n : \A j \in (n + 1)..Len(s) : s[i] # s[j]
    BY DEF Distinct
  <2> QED
    BY <1>4, <1>5, <2>1
<1>8. Cardinality(BytesOf(ToSet(p) \cup ToSet(q))) =
        Cardinality(BytesOf(ToSet(p))) + Cardinality(BytesOf(ToSet(q)))
  BY <1>1, <1>2, <1>7, SetOfSeq, BytesAdd
<1> QED
  BY <1>1, <1>2, <1>3, <1>6, <1>8 DEF PoppedCache, CachedSize, p, q

\* A touched block is in the cache, last, and nothing else is new or lost.
LEMMA TouchedIs ==
    ASSUME NEW s \in Seq(Stored), Distinct(s), NEW b \in Stored
    PROVE  /\ Touched(s, b) \in Seq(Stored) /\ Distinct(Touched(s, b))
           /\ ToSet(Touched(s, b)) = ToSet(s) \cup {b}
           /\ Len(Touched(s, b)) = IF b \in ToSet(s) THEN Len(s) ELSE Len(s) + 1
<1>1. CASE b \in ToSet(s)
  <2> DEFINE k == CHOOSE i \in DOMAIN s : s[i] = b
             r == RemoveAt(s, k)
  <2>1. k \in 1..Len(s) /\ s[k] = b
    BY <1>1 DEF ToSet
  <2> HIDE DEF k
  <2>2. /\ r \in Seq(Stored) /\ Len(r) = Len(s) - 1
        /\ \A i \in 1..Len(r) : r[i] = IF i < k THEN s[i] ELSE s[i + 1]
    <3> DEFINE p == SubSeq(s, 1, k - 1)
               q == SubSeq(s, k + 1, Len(s))
    <3>1. p \in Seq(Stored) /\ Len(p) = k - 1 /\ \A i \in 1..(k - 1) : p[i] = s[i]
      BY <2>1
    <3>2. q \in Seq(Stored) /\ Len(q) = Len(s) - k /\ \A i \in 1..(Len(s) - k) : q[i] = s[i + k]
      BY <2>1
    <3>3. r = p \o q
      BY DEF RemoveAt
    <3> HIDE DEF p, q, r
    <3>4. /\ r \in Seq(Stored) /\ Len(r) = Len(p) + Len(q)
          /\ \A i \in 1..(Len(p) + Len(q)) : r[i] = IF i <= Len(p) THEN p[i] ELSE q[i - Len(p)]
      BY <3>1, <3>2, <3>3, ConcatProperties
    <3>5. /\ r \in Seq(Stored) /\ Len(r) = Len(s) - 1
          /\ \A i \in 1..Len(r) : r[i] = IF i <= k - 1 THEN p[i] ELSE q[i - (k - 1)]
      BY <2>1, <3>1, <3>2, <3>4
    <3>6. ASSUME NEW i \in 1..Len(r), i < k PROVE r[i] = s[i]
      BY <2>1, <3>1, <3>5, <3>6
    <3>7. ASSUME NEW i \in 1..Len(r), ~(i < k) PROVE r[i] = s[i + 1]
      <4>1. r[i] = q[i - (k - 1)] /\ i - (k - 1) \in 1..(Len(s) - k)
        BY <2>1, <3>5, <3>7
      <4>2. i - (k - 1) + k = i + 1
        BY <2>1, <3>5
      <4> QED
        BY <3>2, <4>1, <4>2
    <3> QED
      BY <3>5, <3>6, <3>7
  <2> DEFINE t == Append(r, b)
  <2> HIDE DEF r
  <2>3. /\ t \in Seq(Stored) /\ Len(t) = Len(s) /\ t[Len(s)] = b
        /\ \A i \in 1..(Len(s) - 1) : t[i] = IF i < k THEN s[i] ELSE s[i + 1]
    BY <2>1, <2>2
  <2>4. Touched(s, b) = t
    BY <1>1 DEF Touched, t, r, k
  <2> HIDE DEF t
  <2>5. Distinct(t)
    <3> SUFFICES ASSUME NEW i \in 1..Len(s), NEW j \in 1..Len(s), i < j, t[i] = t[j] PROVE FALSE
      BY <2>3 DEF Distinct
    <3> DEFINE old(m) == IF m < k THEN m ELSE m + 1
    <3>1. t[i] = s[old(i)] /\ old(i) \in 1..Len(s) /\ old(i) # k
      BY <2>1, <2>3
    <3>2. CASE j = Len(s)
      BY <2>1, <2>3, <3>1, <3>2 DEF Distinct
    <3>3. CASE j < Len(s)
      <4>1. t[j] = s[old(j)] /\ old(j) \in 1..Len(s) /\ old(j) # old(i)
        BY <2>1, <2>3, <3>3
      <4> QED
        BY <3>1, <4>1 DEF Distinct
    <3> QED
      BY <3>2, <3>3
  <2>6. ToSet(t) = ToSet(s)
    <3>1. \A i \in 1..Len(s) : \E j \in 1..Len(s) : t[i] = s[j]
      BY <2>1, <2>3
    <3>2. ASSUME NEW j \in 1..Len(s) PROVE \E i \in 1..Len(s) : t[i] = s[j]
      <4>1. CASE j < k
        BY <2>1, <2>3, <4>1
      <4>2. CASE j = k
        BY <2>1, <2>3, <4>2
      <4>3. CASE j > k
        <5>1. j - 1 \in 1..(Len(s) - 1) /\ ~(j - 1 < k) /\ j - 1 + 1 = j
          BY <2>1, <4>3
        <5> QED
          BY <2>3, <5>1
      <4> QED
        BY <2>1, <4>1, <4>2, <4>3
    <3>3. ToSet(t) = {t[i] : i \in 1..Len(s)} /\ ToSet(s) = {s[i] : i \in 1..Len(s)}
      BY <2>3 DEF ToSet
    <3> QED
      BY <3>1, <3>2, <3>3
  <2> QED
    BY <1>1, <2>3, <2>4, <2>5, <2>6
<1>2. CASE b \notin ToSet(s)
  <2> DEFINE t == Append(s, b)
  <2>1. /\ t \in Seq(Stored) /\ Len(t) = Len(s) + 1 /\ t[Len(s) + 1] = b
        /\ \A i \in 1..Len(s) : t[i] = s[i]
    OBVIOUS
  <2>2. Touched(s, b) = t
    BY <1>2 DEF Touched
  <2> HIDE DEF t
  <2>3. \A i \in 1..Len(s) : s[i] # b
    BY <1>2 DEF ToSet
  <2>4. Distinct(t)
    BY <2>1, <2>3 DEF Distinct
  <2>5. ToSet(t) = ToSet(s) \cup {b}
    <3>1. ToSet(t) = {t[i] : i \in 1..(Len(s) + 1)} /\ ToSet(s) = {s[i] : i \in 1..Len(s)}
      BY <2>1 DEF ToSet
    <3>2. 1..(Len(s) + 1) = 1..Len(s) \cup {Len(s) + 1}
      OBVIOUS
    <3> QED
      BY <2>1, <3>1, <3>2
  <2> QED
    BY <1>2, <2>1, <2>2, <2>4, <2>5
<1> QED
  BY <1>1, <1>2

\* Touching a block adds its bytes, or nothing.
LEMMA TouchedSize ==
    ASSUME NEW s \in Seq(Stored), Distinct(s), NEW b \in Stored
    PROVE  /\ CachedSize(Touched(s, b)) <= CachedSize(s) + Size[b]
           /\ Size[b] <= CachedSize(Touched(s, b))
<1>1. CachedSize(s) \in Nat /\ Size[b] \in Nat
  BY SizeIsNat, CacheAssumption
<1> DEFINE rest == ToSet(s) \ {b}
<1>2. rest \in SUBSET Stored /\ IsFiniteSet(rest) /\ IsFiniteSet(ToSet(s))
  BY SetOfSeq, FS_RemoveElement
<1>3. {b} \in SUBSET Stored /\ rest \cap {b} = {}
  OBVIOUS
<1>4. IsFiniteSet({b})
  BY FS_Singleton
<1>5. rest \cup {b} = ToSet(s) \cup {b} /\ (b \notin ToSet(s) => rest = ToSet(s))
  OBVIOUS
<1>6. b \in ToSet(s) => ToSet(s) \cup {b} = ToSet(s)
  OBVIOUS
<1> HIDE DEF rest
<1>7. Cardinality(BytesOf(rest \cup {b})) = Cardinality(BytesOf(rest)) + Size[b]
  BY <1>2, <1>3, <1>4, BytesAdd, BytesOfOne
<1>8. Cardinality(BytesOf(rest)) \in Nat
  BY <1>2, BytesFinite, FS_CardinalityType
<1>9. CachedSize(Touched(s, b)) = Cardinality(BytesOf(rest)) + Size[b]
  BY <1>5, <1>7, TouchedIs DEF CachedSize
<1>10. CASE b \in ToSet(s)
  <2>1. CachedSize(s) = Cardinality(BytesOf(rest)) + Size[b]
    BY <1>5, <1>6, <1>7, <1>10 DEF CachedSize
  <2> QED
    BY <1>1, <1>8, <1>9, <2>1
<1>11. CASE b \notin ToSet(s)
  BY <1>1, <1>5, <1>8, <1>9, <1>11 DEF CachedSize
<1> QED
  BY <1>10, <1>11

\* The eviction loop ends within both limits, if the byte count is too high by
\* no more than the limit: at the latest when the cache is empty.
LEMMA PopsEnd ==
    ASSUME NEW s \in Seq(Stored), Distinct(s), NEW count \in Nat,
           CachedSize(s) <= count, count - CachedSize(s) <= MaxBytes
    PROVE  /\ Pops(s, count) \in 0..Len(s)
           /\ Within(PoppedCache(s, Pops(s, count)), PoppedBytes(s, count, Pops(s, count)))
<1> DEFINE In(n) == Within(PoppedCache(s, n), PoppedBytes(s, count, n))
           T == {n \in 0..Len(s) : In(n)}
           Stop(n) == /\ In(n) \/ n = Len(s)
                      /\ \A m \in 0..(n - 1) : ~In(m)
<1>1. Len(s) \in T
  <2> DEFINE q == PoppedCache(s, Len(s))
             p == SubSeq(s, 1, Len(s))
  <2>1. /\ q \in Seq(Stored) /\ Len(q) = 0 /\ p \in Seq(Stored)
        /\ CachedSize(s) = CachedSize(p) + CachedSize(q)
    BY PoppingSplits
  <2> HIDE DEF p, q
  <2>2. CachedSize(q) = 0
    <3>1. ToSet(q) = {}
      BY <2>1 DEF ToSet
    <3>2. BytesOf(ToSet(q)) = {}
      BY <3>1 DEF BytesOf
    <3> QED
      BY <3>2, FS_EmptySet DEF CachedSize
  <2>3. CachedSize(p) \in Nat /\ CachedSize(s) \in Nat
    BY <2>1, SizeIsNat
  <2>4. PoppedBytes(s, count, Len(s)) = count - CachedSize(s)
    BY <2>1, <2>2, <2>3 DEF PoppedBytes, p
  <2>5. MaxBlocks \in Nat
    BY CacheAssumption
  <2>6. Within(q, PoppedBytes(s, count, Len(s)))
    BY <2>1, <2>4, <2>5 DEF Within
  <2> QED
    BY <2>6 DEF q
<1>2. PICK n \in T : \A m \in T : n <= m
  <2>1. T \in SUBSET Nat /\ T # {}
    BY <1>1
  <2> QED
    BY <2>1, Least
<1>3. n \in 0..Len(s) /\ Stop(n)
  <2>1. n \in 0..Len(s) /\ In(n)
    OBVIOUS
  <2>2. ASSUME NEW m \in 0..(n - 1) PROVE ~In(m)
    <3>1. m \in 0..Len(s) /\ ~(n <= m)
      BY <2>1
    <3> QED
      BY <1>2, <3>1
  <2> QED
    BY <2>1, <2>2
<1>4. Pops(s, count) = CHOOSE k \in 0..Len(s) : Stop(k)
  BY DEF Pops
<1> DEFINE k == Pops(s, count)
<1> HIDE DEF Stop
<1>5. k \in 0..Len(s) /\ Stop(k)
  BY <1>3, <1>4
<1> HIDE DEF k, In
<1>6. In(k)
  BY <1>1, <1>5 DEF Stop
<1> QED
  BY <1>5, <1>6 DEF k, In

-----------------------------------------------------------------------------
(* The cache.                                                              *)

\* The invariant: the cache holds no block twice, the byte count is at least
\* the cached bytes and within its limit, so that a block counted twice can
\* make it too high by no more than that.
CacheInv ==
    /\ cache \in Seq(Stored) /\ Distinct(cache) /\ Len(cache) <= MaxBlocks
    /\ bytes \in Nat /\ CachedSize(cache) <= bytes /\ bytes <= MaxBytes
    /\ reader \in [Thread -> [at : {"done", "parse"}, block : Stored \cup {"none"},
                              got : {"none", "block", "null"}]]
    /\ \A t \in Thread : reader[t].at = "parse" => reader[t].block \in Stored

LEMMA EmptyCache == CachedSize(<<>>) = 0
<1>1. BytesOf(ToSet(<<>>)) = {}
  BY DEF BytesOf, ToSet
<1> QED
  BY <1>1, FS_EmptySet DEF CachedSize

LEMMA CacheStarts == CacheInit => CacheInv
<1> SUFFICES ASSUME CacheInit PROVE CacheInv
  OBVIOUS
<1>1. cache = <<>> /\ bytes = 0 /\ reader = [t \in Thread |-> NotCalled]
  BY DEF CacheInit
<1>2. cache \in Seq(Stored) /\ Len(cache) = 0 /\ Distinct(cache)
  BY <1>1 DEF Distinct
<1>3. CachedSize(cache) = 0
  BY <1>1, EmptyCache
<1>4. MaxBlocks \in Nat /\ MaxBytes \in Nat
  BY CacheAssumption
<1> QED
  BY <1>1, <1>2, <1>3, <1>4 DEF CacheInv, NotCalled

\* A reader answers, or goes to parse.
LEMMA AnswerStep ==
    ASSUME CacheInv, NEW t \in Thread, NEW b \in Stored,
           NEW at \in {"done", "parse"}, NEW got \in {"none", "block", "null"},
           reader' = [reader EXCEPT ![t] = [at |-> at, block |-> b, got |-> got]]
    PROVE  /\ reader' \in [Thread -> [at : {"done", "parse"}, block : Stored \cup {"none"},
                                      got : {"none", "block", "null"}]]
           /\ \A u \in Thread : reader'[u].at = "parse" => reader'[u].block \in Stored
BY DEF CacheInv

\* However late the block is remembered, and whoever else has done so, the
\* loop ends within the limits.
LEMMA RememberStep ==
    ASSUME CacheInv, NEW t \in Thread, Remember(t)
    PROVE  CacheInv'
<1> DEFINE b == reader[t].block
           s == Touched(cache, b)
           count == bytes + Size[b]
           n == Pops(s, count)
<1>1. b \in Stored /\ cache \in Seq(Stored) /\ Distinct(cache) /\ bytes \in Nat
      /\ CachedSize(cache) <= bytes /\ bytes <= MaxBytes
  BY DEF CacheInv, Remember
<1>2. Size[b] \in Nat /\ MaxBytes \in Nat /\ MaxBlocks \in Nat
  BY <1>1, CacheAssumption
<1>3. /\ cache' = PoppedCache(s, n) /\ bytes' = PoppedBytes(s, count, n)
      /\ Answers(t, b, IF Within(cache', bytes') THEN "block" ELSE "KeyError")
  BY DEF Remember
<1> HIDE DEF b
<1>4. /\ s \in Seq(Stored) /\ Distinct(s) /\ CachedSize(s) \in Nat /\ CachedSize(cache) \in Nat
      /\ CachedSize(s) <= CachedSize(cache) + Size[b] /\ Size[b] <= CachedSize(s)
  BY <1>1, TouchedIs, TouchedSize, SizeIsNat
<1> HIDE DEF s
<1>5. count \in Nat /\ CachedSize(s) <= count /\ count - CachedSize(s) <= MaxBytes
  BY <1>1, <1>2, <1>4
<1> HIDE DEF count
<1>6. n \in 0..Len(s) /\ Within(cache', bytes')
  BY <1>3, <1>4, <1>5, PopsEnd
<1> HIDE DEF n
<1> DEFINE p == SubSeq(s, 1, n)
<1>7. /\ cache' \in Seq(Stored) /\ Distinct(cache') /\ p \in Seq(Stored)
      /\ CachedSize(s) = CachedSize(p) + CachedSize(cache')
  BY <1>3, <1>4, <1>6, PoppingSplits
<1>8. bytes' = count - CachedSize(p)
  BY <1>3 DEF PoppedBytes
<1> HIDE DEF p
<1>9. CachedSize(p) \in Nat /\ CachedSize(cache') \in Nat
  BY <1>7, SizeIsNat
<1>10. bytes' \in Nat /\ CachedSize(cache') <= bytes'
  BY <1>4, <1>5, <1>7, <1>8, <1>9
<1>11. bytes' <= MaxBytes /\ Len(cache') <= MaxBlocks
  BY <1>6 DEF Within
<1>12. reader' = [reader EXCEPT ![t] = [at |-> "done", block |-> b, got |-> "block"]]
  BY <1>3, <1>6 DEF Answers
<1>13. /\ reader' \in [Thread -> [at : {"done", "parse"}, block : Stored \cup {"none"},
                                  got : {"none", "block", "null"}]]
       /\ \A u \in Thread : reader'[u].at = "parse" => reader'[u].block \in Stored
  BY <1>1, <1>12, AnswerStep
<1>14. CachedSize(cache)' = CachedSize(cache') /\ Distinct(cache)' = Distinct(cache')
  BY DEF CachedSize, BytesOf, Distinct
<1> QED
  BY <1>7, <1>10, <1>11, <1>13, <1>14 DEF CacheInv

LEMMA HitStep ==
    ASSUME CacheInv, NEW t \in Thread, NEW b \in Stored, Hit(t, b)
    PROVE  CacheInv'
<1>1. cache' = Touched(cache, b) /\ b \in ToSet(cache) /\ bytes' = bytes
  BY DEF Hit, Cached
<1>2. cache \in Seq(Stored) /\ Distinct(cache) /\ Len(cache) <= MaxBlocks
  BY DEF CacheInv
<1>3. /\ cache' \in Seq(Stored) /\ Distinct(cache')
      /\ ToSet(cache') = ToSet(cache) \cup {b} /\ Len(cache') = Len(cache)
  BY <1>1, <1>2, TouchedIs
<1>4. CachedSize(cache') = CachedSize(cache)
  <2>1. ToSet(cache') = ToSet(cache)
    BY <1>1, <1>3
  <2> QED
    BY <2>1 DEF CachedSize
<1>5. reader' = [reader EXCEPT ![t] = [at |-> "done", block |-> b, got |-> "block"]]
  BY DEF Hit, Answers
<1>6. /\ reader' \in [Thread -> [at : {"done", "parse"}, block : Stored \cup {"none"},
                                 got : {"none", "block", "null"}]]
      /\ \A u \in Thread : reader'[u].at = "parse" => reader'[u].block \in Stored
  BY <1>5, AnswerStep
<1>7. CachedSize(cache)' = CachedSize(cache') /\ Distinct(cache)' = Distinct(cache')
  BY DEF CachedSize, BytesOf, Distinct
<1> QED
  BY <1>1, <1>2, <1>3, <1>4, <1>6, <1>7 DEF CacheInv

LEMMA MissStep ==
    ASSUME CacheInv, NEW t \in Thread, NEW b \in Stored, MissPruned(t, b) \/ Miss(t, b)
    PROVE  CacheInv'
<1>1. cache' = cache /\ bytes' = bytes
  BY DEF MissPruned, Miss
<1>2. PICK at \in {"done", "parse"}, got \in {"none", "block", "null"} :
        reader' = [reader EXCEPT ![t] = [at |-> at, block |-> b, got |-> got]]
  BY DEF MissPruned, Miss, Answers
<1>3. /\ reader' \in [Thread -> [at : {"done", "parse"}, block : Stored \cup {"none"},
                                 got : {"none", "block", "null"}]]
      /\ \A u \in Thread : reader'[u].at = "parse" => reader'[u].block \in Stored
  BY <1>2, AnswerStep
<1> QED
  BY <1>1, <1>3 DEF CacheInv, CachedSize, BytesOf, Distinct

LEMMA PruneStep ==
    ASSUME CacheInv, NEW b \in Stored, Prune(b)
    PROVE  CacheInv'
<1>1. cache' = <<>> /\ bytes' = 0 /\ reader' = reader
  BY DEF Prune
<1>2. cache' \in Seq(Stored) /\ Len(cache') = 0 /\ Distinct(cache')
  BY <1>1 DEF Distinct
<1>3. CachedSize(cache') = 0
  BY <1>1, EmptyCache
<1>4. MaxBlocks \in Nat /\ MaxBytes \in Nat
  BY CacheAssumption
<1>5. CachedSize(cache)' = CachedSize(cache') /\ Distinct(cache)' = Distinct(cache')
  BY DEF CachedSize, BytesOf, Distinct
<1>6. cache' \in Seq(Stored) /\ Distinct(cache)' /\ (Len(cache) <= MaxBlocks)'
  BY <1>2, <1>4, <1>5
<1>7. bytes' \in Nat /\ (CachedSize(cache) <= bytes)' /\ bytes' <= MaxBytes
  BY <1>1, <1>3, <1>4, <1>5
<1> QED
  BY <1>1, <1>6, <1>7 DEF CacheInv

LEMMA CacheStep == CacheInv /\ [CacheNext]_cacheVars => CacheInv'
<1> SUFFICES ASSUME CacheInv, [CacheNext]_cacheVars PROVE CacheInv'
  OBVIOUS
<1>1. ASSUME NEW t \in Thread, NEW b \in Stored, Hit(t, b) PROVE CacheInv'
  BY <1>1, HitStep
<1>2. ASSUME NEW t \in Thread, NEW b \in Stored, MissPruned(t, b) \/ Miss(t, b) PROVE CacheInv'
  BY <1>2, MissStep
<1>3. ASSUME NEW t \in Thread, Remember(t) PROVE CacheInv'
  BY <1>3, RememberStep
<1>4. ASSUME NEW b \in Stored, Prune(b) PROVE CacheInv'
  BY <1>4, PruneStep
<1>5. CASE UNCHANGED cacheVars
  BY <1>5 DEF CacheInv, cacheVars, CachedSize, BytesOf, Distinct
<1> QED
  BY <1>1, <1>2, <1>3, <1>4, <1>5 DEF CacheNext

\* Whatever the number of threads, the sizes of the blocks and the limits, the
\* cache keeps both limits and get_block never pops from an empty cache.
THEOREM CacheCorrect == CacheSpec => []CacheIsSound
<1>1. CacheInv => CacheIsSound
  <2> SUFFICES ASSUME CacheInv PROVE CacheIsSound
    OBVIOUS
  <2>1. CachedSize(cache) \in Nat /\ MaxBytes \in Nat
    BY SizeIsNat, CacheAssumption DEF CacheInv
  <2>2. CachedSize(cache) <= MaxBytes
    BY <2>1 DEF CacheInv
  <2> QED
    BY <2>2 DEF CacheInv, CacheIsSound
<1> QED
  BY <1>1, CacheStarts, CacheStep, PTL DEF CacheSpec

-----------------------------------------------------------------------------
(* Header-first synchronisation.                                           *)

\* The peers have the bodies of all their blocks, and at most one block is
\* announced while the sync is under way: the last.
Entire == \A p \in Peer : kept[p] <= 1 /\ served[p] \in {grown - 1, grown}

\* A message about blocks of a chain of height g, and where a reader can be.
Message(g) == [type : {"headers", "inv", "block", "notfound"}, blocks : Seq(1..g)]

Place(g) ==
    [at : {"idle", "gone", "queue", "more", "request", "pop", "tail", "orphan"},
     then : {"idle", "queue", "more"}, todo : Seq(Peer), head : 0..g,
     queued : SUBSET (1..g), batch : Seq(1..g)]

\* The i-th message brings block b.
Arrives(q, i, b) == q[i].type = "block" /\ q[i].blocks[1] = b

\* Blocks and announcements come one by one, and only block g is announced.
Formed(g, q) ==
    \A i \in 1..Len(q) :
        /\ q[i].type \in {"block", "inv"} => Len(q[i].blocks) = 1
        /\ q[i].type = "inv" => q[i].blocks[1] = g

\* What the messages bring comes after its parent, over a chain of height h.
Ordered(g, q, h) ==
    \A i \in 1..Len(q) : \A b \in 1..(g - 1) :
        Arrives(q, i, b) => b - 1 <= h \/ \E j \in 1..(i - 1) : Arrives(q, j, b - 1)

\* They bring what is in S, unless it is stored.
Covers(g, q, S, h) ==
    \A b \in S \ {g} : b <= h \/ \E i \in 1..Len(q) : Arrives(q, i, b)

\* The parent of b is stored or in S.
Ready(g, b, S, h) == b = g \/ b - 1 <= h \/ b - 1 \in S

\* What a reader is about to request has its parent stored, in flight, or
\* earlier in the batch, and what it counts as queued is queued or stored.
Sound(g, th, R, h) ==
    th.at \in {"request", "pop"} =>
        /\ th.todo # <<>>
        /\ \A k \in 1..Len(th.batch) :
             Ready(g, th.batch[k], R[Head(th.todo)] \cup {th.batch[j] : j \in 1..(k - 1)}, h)
        /\ \A c \in th.queued : c = g \/ c <= h \/ c \in R[Head(th.todo)]
                                \/ \E k \in 1..Len(th.batch) : th.batch[k] = c
        /\ th.at = "pop" => th.head \in 1..g /\ Ready(g, th.head, th.queued, h)

Heights ==
    /\ grown \in Block /\ Entire /\ kept \in [Peer -> 0..Top] /\ served \in [Peer -> 0..Top]
    /\ top \in 0..grown /\ hdr \in 0..grown /\ orphans \in SUBSET (1..grown)

Links == peers \in Seq(Peer) /\ closed = {} /\ stalled = [p \in Peer |-> {}]

Queues ==
    /\ requested \in [Peer -> SUBSET (1..grown)]
    /\ pending \in [Peer -> Seq(1..grown)]
    /\ \A p \in Peer : \A i \in 1..Len(pending[p]) : pending[p][i] = grown \/ pending[p][i] <= HeaderTip
    /\ \A p \in Peer : \A b \in requested[p] : Ready(grown, b, requested[p], top)

Mail ==
    /\ inbox \in [Peer -> Seq(Message(grown))]
    /\ \A p \in Peer : /\ Formed(grown, inbox[p]) /\ Ordered(grown, inbox[p], top)
                       /\ Covers(grown, inbox[p], requested[p], top)

Readers ==
    /\ thread \in [Peer -> Place(grown)]
    /\ \A t \in Peer : Sound(grown, thread[t], requested, top)

\* The invariant: while nothing has gone wrong, blocks are requested, and
\* arrive, after their parents.
SyncInv == disturbed = {} => Heights /\ Links /\ Queues /\ Mail /\ Readers

-----------------------------------------------------------------------------
(* Helpers.                                                                *)

LEMMA HeaderTipIs ==
    ASSUME Heights
    PROVE  HeaderTip \in 0..grown /\ top <= HeaderTip /\ hdr <= HeaderTip
<1>1. hdr \in 0..grown /\ top \in 0..grown /\ grown \in Int
  BY DEF Heights, Block
<1>2. hdr \in Int /\ top \in Int
  BY <1>1
<1> QED
  BY <1>1, <1>2, MaxOfTwo DEF HeaderTip

\* The end of a run of blocks exists.
LEMMA RunEndIs ==
    ASSUME NEW h \in 0..Top, NEW S \in SUBSET (1..Top)
    PROVE  /\ RunEnd(h, S) \in h..Top
           /\ RunEnd(h, S) = h \/ RunEnd(h, S) \in S
<1> DEFINE T == {t \in h..Top : t + 1 \notin S}
<1>0. Top \in Nat
  BY SyncAssumption
<1>1. T \in SUBSET Nat /\ Top \in T
  BY <1>0
<1>2. PICK t \in T : \A u \in T : t <= u
  BY <1>1, Least
<1>3. t \in h..Top /\ t + 1 \notin S
  OBVIOUS
<1>4. (h + 1)..t \subseteq S
  <2> SUFFICES ASSUME NEW x \in (h + 1)..t, x \notin S PROVE FALSE
    OBVIOUS
  <2>1. x - 1 \in T /\ ~(t <= x - 1)
    BY <1>0, <1>3
  <2> QED
    BY <1>2, <2>1
<1> DEFINE r == RunEnd(h, S)
<1>5. r \in h..Top /\ (h + 1)..r \subseteq S
  BY <1>3, <1>4 DEF RunEnd
<1> HIDE DEF r
<1>6. r = h \/ r \in (h + 1)..r
  BY <1>0, <1>5
<1> QED
  BY <1>5, <1>6 DEF r

\* Entries at some positions: nothing else is among them, what is before one of
\* them in the list stays before it.
LEMMA EntriesAre ==
    ASSUME NEW S, NEW q \in Seq(S), NEW I \in SUBSET (1..Len(q))
    PROVE  /\ Entries(q, I) \in Seq(S)
           /\ \A i \in I : \E k \in 1..Len(Entries(q, I)) : Entries(q, I)[k] = q[i]
           /\ \A k \in 1..Len(Entries(q, I)) : \E i \in I :
                /\ Entries(q, I)[k] = q[i]
                /\ \A j \in I : j < i => \E l \in 1..(k - 1) : Entries(q, I)[l] = q[j]
<1> DEFINE Upto(i) == {j \in I : j <= i}
           place == [i \in I |-> Cardinality(Upto(i))]
           n == Cardinality(I)
           r == Entries(q, I)
<1>1. Len(q) \in Nat /\ IsFiniteSet(1..Len(q)) /\ Cardinality(1..Len(q)) = Len(q)
  BY FS_Interval
<1> I \subseteq Nat
  BY <1>1
<1>2. IsFiniteSet(I) /\ n \in Nat /\ n <= Len(q)
  BY <1>1, FS_Subset, FS_CardinalityType
<1>3. \A i \in I : IsFiniteSet(Upto(i)) /\ Cardinality(Upto(i)) \in 1..n
  <2> SUFFICES ASSUME NEW i \in I PROVE IsFiniteSet(Upto(i)) /\ Cardinality(Upto(i)) \in 1..n
    OBVIOUS
  <2>1. Upto(i) \in SUBSET I /\ i \in Upto(i)
    BY <1>1
  <2>2. IsFiniteSet(Upto(i)) /\ Cardinality(Upto(i)) <= n /\ Cardinality(Upto(i)) \in Nat
    BY <1>2, <2>1, FS_Subset, FS_CardinalityType
  <2>3. Cardinality(Upto(i)) # 0
    BY <2>1, <2>2, FS_EmptySet
  <2> QED
    BY <1>2, <2>2, <2>3
<1>a. \A i \in I : Cardinality(Upto(i)) \in Nat
  <2> HIDE DEF Upto, n
  <2> QED
    BY <1>2, <1>3
<1>4. \A i, j \in I : i < j => Cardinality(Upto(i)) < Cardinality(Upto(j))
  <2> SUFFICES ASSUME NEW i \in I, NEW j \in I, i < j
               PROVE  Cardinality(Upto(i)) < Cardinality(Upto(j))
    OBVIOUS
  <2>1. Upto(i) \in SUBSET Upto(j) /\ j \in Upto(j) /\ j \notin Upto(i)
    <3>1. i \in Nat /\ j \in Nat
      OBVIOUS
    <3>2. \A k \in I : k \in Nat /\ (k <= i => k <= j)
      BY <3>1
    <3>3. j <= j /\ ~(j <= i)
      BY <3>1
    <3>4. Upto(i) \in SUBSET Upto(j)
      BY <3>2
    <3> QED
      BY <3>3, <3>4
  <2>2. Cardinality(Upto(i)) <= Cardinality(Upto(j)) /\ Cardinality(Upto(i)) # Cardinality(Upto(j))
    BY <1>3, <2>1, FS_Subset
  <2>3. Cardinality(Upto(i)) \in Nat /\ Cardinality(Upto(j)) \in Nat
    BY <1>a
  <2> QED
    BY <2>2, <2>3
<1>5. place \in Injection(I, 1..n)
  <2>1. place \in [I -> 1..n]
    BY <1>3
  <2>2. \A i, j \in I : place[i] = place[j] => i = j
    <3> SUFFICES ASSUME NEW i \in I, NEW j \in I, i # j PROVE place[i] # place[j]
      OBVIOUS
    <3>1. i \in Nat /\ j \in Nat /\ Cardinality(Upto(i)) \in Nat /\ Cardinality(Upto(j)) \in Nat
      BY <1>a
    <3>2. CASE i < j
      <4>1. Cardinality(Upto(i)) < Cardinality(Upto(j))
        BY <1>4, <3>2
      <4> QED
        BY <3>1, <4>1
    <3>3. CASE j < i
      <4>1. Cardinality(Upto(j)) < Cardinality(Upto(i))
        BY <1>4, <3>3
      <4> QED
        BY <3>1, <4>1
    <3> QED
      BY <3>1, <3>2, <3>3
  <2> QED
    BY <2>1, <2>2 DEF Injection, IsInjective
<1>6. place \in Surjection(I, 1..n)
  <2>1. IsFiniteSet(1..n) /\ Cardinality(1..n) = n
    BY <1>2, FS_Interval
  <2> QED
    BY <1>5, <2>1, FS_Injection
<1>7. \A k \in 1..n : \E i \in I : Cardinality(Upto(i)) = k
  BY <1>6 DEF Surjection
<1>8. r = [k \in 1..n |-> q[CHOOSE i \in I : Cardinality(Upto(i)) = k]]
  BY DEF Entries
<1>9. \A i, j \in I : Cardinality(Upto(i)) = Cardinality(Upto(j)) => i = j
  BY <1>5 DEF Injection, IsInjective
<1> HIDE DEF Upto, place, n, r
<1>10. \A i \in I : r[Cardinality(Upto(i))] = q[i]
  <2> SUFFICES ASSUME NEW i \in I PROVE r[Cardinality(Upto(i))] = q[i]
    OBVIOUS
  <2>1. (CHOOSE j \in I : Cardinality(Upto(j)) = Cardinality(Upto(i))) = i
    BY <1>9
  <2> QED
    BY <1>3, <1>8, <2>1
<1>11. \A i \in I : \E k \in 1..n : r[k] = q[i]
  BY <1>3, <1>10
<1>12. \A k \in 1..n : \E i \in I :
         /\ r[k] = q[i]
         /\ \A j \in I : j < i => \E l \in 1..(k - 1) : r[l] = q[j]
  <2> SUFFICES ASSUME NEW k \in 1..n
               PROVE  \E i \in I : /\ r[k] = q[i]
                                  /\ \A j \in I : j < i => \E l \in 1..(k - 1) : r[l] = q[j]
    OBVIOUS
  <2>1. PICK i \in I : Cardinality(Upto(i)) = k
    BY <1>7
  <2>2. ASSUME NEW j \in I, j < i PROVE \E l \in 1..(k - 1) : r[l] = q[j]
    <3>1. Cardinality(Upto(j)) < k /\ Cardinality(Upto(j)) \in 1..n
      BY <1>3, <1>4, <2>1, <2>2
    <3>2. Cardinality(Upto(j)) \in 1..(k - 1)
      BY <3>1
    <3> QED
      BY <1>10, <3>2
  <2> QED
    BY <1>10, <2>1, <2>2
<1>13. r \in Seq(S) /\ Len(r) = n
  <2>1. r \in [1..n -> S]
    BY <1>8, <1>12
  <2> QED
    BY <1>2, <2>1
<1> QED
  BY <1>11, <1>12, <1>13 DEF r

\* The entries in a set.
LEMMA OnlyIs ==
    ASSUME NEW S, NEW q \in Seq(S), NEW X
    PROVE  /\ Only(q, X) \in Seq(S)
           /\ \A i \in 1..Len(q) : q[i] \in X => \E k \in 1..Len(Only(q, X)) : Only(q, X)[k] = q[i]
           /\ \A k \in 1..Len(Only(q, X)) : \E i \in 1..Len(q) :
                /\ Only(q, X)[k] = q[i] /\ q[i] \in X
                /\ \A j \in 1..(i - 1) : q[j] \in X => \E l \in 1..(k - 1) : Only(q, X)[l] = q[j]
<1> DEFINE I == {i \in 1..Len(q) : q[i] \in X}
<1>1. I \in SUBSET (1..Len(q)) /\ \A i \in 1..Len(q) : i \in I <=> q[i] \in X
  OBVIOUS
<1>2. Only(q, X) = Entries(q, I)
  BY DEF Only
<1> HIDE DEF I
<1> DEFINE r == Entries(q, I)
<1>3. /\ r \in Seq(S)
      /\ \A i \in I : \E k \in 1..Len(r) : r[k] = q[i]
      /\ \A k \in 1..Len(r) : \E i \in I :
           /\ r[k] = q[i]
           /\ \A j \in I : j < i => \E l \in 1..(k - 1) : r[l] = q[j]
  BY <1>1, EntriesAre
<1> HIDE DEF r
<1>4. ASSUME NEW k \in 1..Len(r)
      PROVE  \E i \in 1..Len(q) : /\ r[k] = q[i] /\ q[i] \in X
                                 /\ \A j \in 1..(i - 1) : q[j] \in X => \E l \in 1..(k - 1) : r[l] = q[j]
  <2>1. PICK i \in I : /\ r[k] = q[i]
                       /\ \A j \in I : j < i => \E l \in 1..(k - 1) : r[l] = q[j]
    BY <1>3
  <2>2. i \in 1..Len(q) /\ q[i] \in X
    BY <1>1
  <2>3. \A j \in 1..(i - 1) : j \in 1..Len(q) /\ j < i
    BY <2>2
  <2> QED
    BY <1>1, <2>1, <2>2, <2>3
<1> QED
  BY <1>1, <1>2, <1>3, <1>4 DEF r

-----------------------------------------------------------------------------
(* Messages on their way.                                                  *)

\* The first message has been read, and what it brought is stored.
LEMMA ReadFirst ==
    ASSUME NEW g \in Nat, NEW q \in Seq(Message(g)), q # <<>>, NEW S \in SUBSET (1..g), NEW S2 \in SUBSET S,
           NEW h \in Nat, NEW h2 \in Nat, h <= h2,
           Formed(g, q), Ordered(g, q, h), Covers(g, q, S, h),
           \A b \in 1..(g - 1) : Arrives(q, 1, b) => b <= h2
    PROVE  /\ Tail(q) \in Seq(Message(g)) /\ Formed(g, Tail(q))
           /\ Ordered(g, Tail(q), h2) /\ Covers(g, Tail(q), S2, h2)
<1> DEFINE r == Tail(q)
<1>1. /\ r \in Seq(Message(g)) /\ Len(q) \in Nat /\ Len(r) = Len(q) - 1
      /\ \A i \in 1..Len(r) : r[i] = q[i + 1]
  OBVIOUS
<1> HIDE DEF r
<1>2. \A i \in 1..Len(r) : i + 1 \in 1..Len(q)
  BY <1>1
<1>3. Formed(g, r)
  BY <1>1, <1>2 DEF Formed
<1>4. \A i \in 1..Len(r) : \A b : Arrives(r, i, b) <=> Arrives(q, i + 1, b)
  BY <1>1 DEF Arrives
<1>5. Ordered(g, r, h2)
  <2> SUFFICES ASSUME NEW i \in 1..Len(r), NEW b \in 1..(g - 1), Arrives(r, i, b), ~(b - 1 <= h2)
               PROVE  \E j \in 1..(i - 1) : Arrives(r, j, b - 1)
    BY DEF Ordered
  <2>1. Arrives(q, i + 1, b) /\ i + 1 \in 1..Len(q) /\ ~(b - 1 <= h)
    BY <1>2, <1>4
  <2>2. PICK j \in 1..i : Arrives(q, j, b - 1)
    <3>1. \E j \in 1..(i + 1 - 1) : Arrives(q, j, b - 1)
      BY <2>1 DEF Ordered
    <3> QED
      BY <1>1, <3>1
  <2>3. j # 1
    <3>1. b - 1 \in 1..(g - 1)
      BY <2>1
    <3> QED
      BY <2>2, <3>1
  <2>4. j - 1 \in 1..(i - 1) /\ j - 1 \in 1..Len(r) /\ j - 1 + 1 = j
    BY <1>1, <2>3
  <2>5. Arrives(r, j - 1, b - 1)
    BY <1>4, <2>2, <2>4
  <2> QED
    BY <2>4, <2>5
<1>6. Covers(g, r, S2, h2)
  <2> SUFFICES ASSUME NEW b \in S2, b # g, ~(b <= h2)
               PROVE  \E i \in 1..Len(r) : Arrives(r, i, b)
    BY DEF Covers
  <2>1. PICK i \in 1..Len(q) : Arrives(q, i, b)
    BY DEF Covers
  <2>2. i # 1
    BY <2>1
  <2>3. i - 1 \in 1..Len(r) /\ i - 1 + 1 = i
    BY <1>1, <2>2
  <2>4. Arrives(r, i - 1, b)
    BY <1>4, <2>1, <2>3
  <2> QED
    BY <2>3, <2>4
<1> QED
  BY <1>1, <1>3, <1>5, <1>6 DEF r

\* Messages have been added.
LEMMA SendMore ==
    ASSUME NEW g \in Nat, NEW q \in Seq(Message(g)), NEW r \in Seq(Message(g)), NEW S, NEW T, NEW h \in Nat,
           Formed(g, q), Ordered(g, q, h), Covers(g, q, S, h), Formed(g, r), Covers(g, r, T, h),
           \A i \in 1..Len(r) : \A b \in 1..(g - 1) : Arrives(r, i, b) =>
             \/ b - 1 <= h
             \/ \E j \in 1..Len(q) : Arrives(q, j, b - 1)
             \/ \E j \in 1..(i - 1) : Arrives(r, j, b - 1)
    PROVE  /\ q \o r \in Seq(Message(g)) /\ Formed(g, q \o r)
           /\ Ordered(g, q \o r, h) /\ Covers(g, q \o r, S \cup T, h)
<1> DEFINE w == q \o r
<1>1. /\ w \in Seq(Message(g)) /\ Len(w) = Len(q) + Len(r) /\ Len(q) \in Nat /\ Len(r) \in Nat
      /\ \A i \in 1..(Len(q) + Len(r)) : w[i] = IF i <= Len(q) THEN q[i] ELSE r[i - Len(q)]
  BY ConcatProperties
<1> HIDE DEF w
<1>2. \A i \in 1..Len(q) : i \in 1..Len(w) /\ w[i] = q[i]
  BY <1>1
<1>3. \A i \in 1..Len(r) : Len(q) + i \in 1..Len(w) /\ w[Len(q) + i] = r[i]
  <2> SUFFICES ASSUME NEW i \in 1..Len(r) PROVE Len(q) + i \in 1..Len(w) /\ w[Len(q) + i] = r[i]
    OBVIOUS
  <2>1. Len(q) + i \in 1..Len(w) /\ ~(Len(q) + i <= Len(q)) /\ Len(q) + i - Len(q) = i
    BY <1>1
  <2> QED
    BY <1>1, <2>1
<1>4. \A i \in 1..Len(w) : i \in 1..Len(q) \/ \E k \in 1..Len(r) : i = Len(q) + k
  <2> SUFFICES ASSUME NEW i \in 1..Len(w), i \notin 1..Len(q) PROVE \E k \in 1..Len(r) : i = Len(q) + k
    OBVIOUS
  <2>1. i - Len(q) \in 1..Len(r) /\ i = Len(q) + (i - Len(q))
    BY <1>1
  <2> QED
    BY <2>1
<1>5. Formed(g, w)
  <2> DEFINE Ok(m) == /\ m.type \in {"block", "inv"} => Len(m.blocks) = 1
                      /\ m.type = "inv" => m.blocks[1] = g
  <2>1. (\A i \in 1..Len(q) : Ok(q[i])) /\ (\A i \in 1..Len(r) : Ok(r[i]))
    BY DEF Formed
  <2> HIDE DEF Ok
  <2>2. \A i \in 1..Len(w) : Ok(w[i])
    BY <1>2, <1>3, <1>4, <2>1
  <2> QED
    BY <2>2 DEF Ok, Formed
<1>6. /\ \A i \in 1..Len(q) : \A b : Arrives(w, i, b) <=> Arrives(q, i, b)
      /\ \A i \in 1..Len(r) : \A b : Arrives(w, Len(q) + i, b) <=> Arrives(r, i, b)
  BY <1>2, <1>3 DEF Arrives
<1>7. Ordered(g, w, h)
  <2> SUFFICES ASSUME NEW i \in 1..Len(w), NEW b \in 1..(g - 1), Arrives(w, i, b), ~(b - 1 <= h)
               PROVE  \E j \in 1..(i - 1) : Arrives(w, j, b - 1)
    BY DEF Ordered
  <2>1. CASE i \in 1..Len(q)
    <3>1. PICK j \in 1..(i - 1) : Arrives(q, j, b - 1)
      BY <1>6, <2>1 DEF Ordered
    <3>2. j \in 1..Len(q)
      BY <1>1, <2>1
    <3> QED
      BY <1>6, <3>1, <3>2
  <2>2. ASSUME NEW k \in 1..Len(r), i = Len(q) + k
        PROVE  \E j \in 1..(i - 1) : Arrives(w, j, b - 1)
    <3>1. Arrives(r, k, b)
      BY <1>6, <2>2
    <3>2. CASE \E j \in 1..Len(q) : Arrives(q, j, b - 1)
      <4>1. PICK j \in 1..Len(q) : Arrives(q, j, b - 1)
        BY <3>2
      <4>2. j \in 1..(i - 1)
        BY <1>1, <2>2
      <4> QED
        BY <1>6, <4>1, <4>2
    <3>3. CASE \E j \in 1..(k - 1) : Arrives(r, j, b - 1)
      <4>1. PICK j \in 1..(k - 1) : Arrives(r, j, b - 1)
        BY <3>3
      <4>2. j \in 1..Len(r) /\ Len(q) + j \in 1..(i - 1)
        BY <1>1, <2>2
      <4>3. Arrives(w, Len(q) + j, b - 1)
        BY <1>6, <4>1, <4>2
      <4> QED
        BY <4>2, <4>3
    <3> QED
      BY <3>1, <3>2, <3>3
  <2> QED
    BY <1>4, <2>1, <2>2
<1>8. Covers(g, w, S \cup T, h)
  <2> SUFFICES ASSUME NEW b \in S \cup T, b # g, ~(b <= h)
               PROVE  \E i \in 1..Len(w) : Arrives(w, i, b)
    BY DEF Covers
  <2>1. CASE b \in S
    BY <1>2, <1>6, <2>1 DEF Covers
  <2>2. CASE b \in T
    <3>1. PICK i \in 1..Len(r) : Arrives(r, i, b)
      BY <2>2 DEF Covers
    <3> QED
      BY <1>3, <1>6, <3>1
  <2> QED
    BY <2>1, <2>2
<1> QED
  BY <1>1, <1>5, <1>7, <1>8 DEF w

\* No block is among the messages added.
LEMMA SendOther ==
    ASSUME NEW g \in Nat, NEW q \in Seq(Message(g)), NEW r \in Seq(Message(g)), NEW S, NEW h \in Nat,
           Formed(g, q), Ordered(g, q, h), Covers(g, q, S, h), Formed(g, r),
           \A i \in 1..Len(r) : r[i].type # "block"
    PROVE  /\ q \o r \in Seq(Message(g)) /\ Formed(g, q \o r)
           /\ Ordered(g, q \o r, h) /\ Covers(g, q \o r, S, h)
<1>1. Covers(g, r, {}, h)
  BY DEF Covers
<1>2. \A i \in 1..Len(r) : \A b : ~Arrives(r, i, b)
  BY DEF Arrives
<1>3. S \cup {} = S
  OBVIOUS
<1>4. /\ q \o r \in Seq(Message(g)) /\ Formed(g, q \o r)
      /\ Ordered(g, q \o r, h) /\ Covers(g, q \o r, S \cup {}, h)
  BY <1>1, <1>2, SendMore
<1> QED
  BY <1>3, <1>4

LEMMA FunctionIsSeq ==
    ASSUME NEW S, NEW n \in Nat, NEW f \in [1..n -> S]
    PROVE  f \in Seq(S) /\ Len(f) = n
OBVIOUS

LEMMA SeqOfMore ==
    ASSUME NEW S, NEW T, S \subseteq T, NEW s \in Seq(S)
    PROVE  s \in Seq(T)
<1>1. s \in [1..Len(s) -> S] /\ Len(s) \in Nat
  OBVIOUS
<1>2. s \in [1..Len(s) -> T]
  BY <1>1
<1> QED
  BY <1>1, <1>2, FunctionIsSeq

LEMMA OneMessage ==
    ASSUME NEW g \in Nat, NEW m \in Message(g)
    PROVE  <<m>> \in Seq(Message(g)) /\ Len(<<m>>) = 1 /\ <<m>>[1] = m
OBVIOUS

\* The headers a peer answers with.
LEMMA HeadersFromIs ==
    ASSUME Heights, NEW p \in Peer
    PROVE  /\ HeadersFrom(p) \in Seq(Message(grown)) /\ Formed(grown, HeadersFrom(p))
           /\ \A i \in 1..Len(HeadersFrom(p)) : HeadersFrom(p)[i].type # "block"
<1> DEFINE f == ForkHeight(p, Locator)
           hs == HeadersAfter(p, f)
           r == HeadersFrom(p)
<1>1. grown \in Nat /\ served[p] \in Nat /\ served[p] <= grown /\ HeaderLimit \in Nat
  BY SyncAssumption DEF Heights, Entire, Block
<1>2. HeaderTip \in Nat
  BY HeaderTipIs, <1>1
<1>3. f \in 0..served[p]
  BY <1>1, <1>2, MinOfTwo DEF ForkHeight, Locator
<1> HIDE DEF f
<1> DEFINE n == Min({HeaderLimit, served[p] - f})
<1>4. n \in Nat /\ n <= served[p] - f
  <2>1. HeaderLimit \in Int /\ served[p] - f \in Nat /\ served[p] - f \in Int
    BY <1>1, <1>3
  <2> QED
    BY <1>1, <2>1, MinOfTwo
<1>5. hs = [i \in 1..n |-> f + i]
  BY DEF HeadersAfter
<1> HIDE DEF n, hs
<1>6. \A i \in 1..n : f + i \in 1..grown
  BY <1>1, <1>3, <1>4
<1>7. hs \in Seq(1..grown)
  <2>1. hs \in [1..n -> 1..grown]
    BY <1>5, <1>6
  <2> QED
    BY <1>4, <2>1, FunctionIsSeq
<1>8. CASE hs = <<>>
  <2>1. r = <<>>
    BY <1>8 DEF HeadersFrom, hs, f
  <2> QED
    BY <2>1 DEF Formed
<1>9. CASE hs # <<>>
  <2> DEFINE m == Msg("headers", hs)
  <2>1. r = <<m>>
    BY <1>9 DEF HeadersFrom, hs, f
  <2>2. m \in Message(grown) /\ m.type = "headers"
    BY <1>7 DEF Msg, Message
  <2> HIDE DEF m, r
  <2>3. r \in Seq(Message(grown)) /\ Len(r) = 1 /\ r[1] = m
    BY <1>1, <2>1, <2>2, OneMessage
  <2> QED
    BY <2>2, <2>3 DEF Formed, r
<1> QED
  BY <1>8, <1>9

LEMMA SyncAnswerIs ==
    ASSUME Heights, NEW p \in Peer
    PROVE  /\ SyncAnswer(p) \in Seq(Message(grown)) /\ Formed(grown, SyncAnswer(p))
           /\ \A i \in 1..Len(SyncAnswer(p)) : SyncAnswer(p)[i].type # "block"
<1>1. <<>> \in Seq(Message(grown)) /\ Formed(grown, <<>>) /\ \A i \in 1..Len(<<>>) : <<>>[i].type # "block"
  BY DEF Formed
<1>2. SyncAnswer(p) = <<>> \/ SyncAnswer(p) = HeadersFrom(p)
  BY DEF SyncAnswer
<1> QED
  BY <1>1, <1>2, HeadersFromIs

\* The blocks a peer answers with: all but the last, in the order of the request.
LEMMA BlocksFromIs ==
    ASSUME Heights, NEW p \in Peer, NEW bs \in Seq(1..grown)
    PROVE  /\ BlocksFrom(p, bs) \in Seq(Message(grown)) /\ Formed(grown, BlocksFrom(p, bs))
           /\ Covers(grown, BlocksFrom(p, bs), {bs[k] : k \in 1..Len(bs)}, top)
           /\ \A i \in 1..Len(BlocksFrom(p, bs)) : \A b \in 1..(grown - 1) :
                Arrives(BlocksFrom(p, bs), i, b) => \E k \in 1..Len(bs) :
                  /\ bs[k] = b
                  /\ \A j \in 1..(k - 1) : bs[j] # grown =>
                       \E l \in 1..(i - 1) : Arrives(BlocksFrom(p, bs), l, bs[j])
<1> DEFINE has == kept[p]..served[p]
           found == Only(bs, has)
           missing == Only(bs, Block \ has)
           F == [i \in 1..Len(found) |-> Msg("block", <<found[i]>>)]
           N == IF missing = <<>> THEN <<>> ELSE <<Msg("notfound", missing)>>
           r == BlocksFrom(p, bs)
<1>1. r = F \o N
  BY DEF BlocksFrom
<1>2. \A b \in 1..grown : b # grown => b \in has
  BY DEF Heights, Entire, Block
<1> HIDE DEF has
<1>3. /\ found \in Seq(1..grown)
      /\ \A i \in 1..Len(bs) : bs[i] \in has => \E k \in 1..Len(found) : found[k] = bs[i]
      /\ \A k \in 1..Len(found) : \E i \in 1..Len(bs) :
           /\ found[k] = bs[i] /\ bs[i] \in has
           /\ \A j \in 1..(i - 1) : bs[j] \in has => \E l \in 1..(k - 1) : found[l] = bs[j]
  BY OnlyIs
<1>4. missing \in Seq(1..grown)
  BY OnlyIs
<1> HIDE DEF found, missing
<1>a. found \in Seq(1..grown) /\ \A i \in 1..Len(found) : found[i] \in 1..grown
  <2>1. found \in Seq(1..grown)
    BY <1>3
  <2> QED
    BY <2>1, ElementOfSeq
<1>b. \A i \in 1..Len(bs) : bs[i] \in 1..grown /\ (bs[i] # grown => bs[i] \in has)
  BY <1>2, ElementOfSeq
<1>5. /\ F \in Seq(Message(grown)) /\ Len(F) = Len(found) /\ Len(found) \in Nat
      /\ \A i \in 1..Len(found) : F[i].type = "block" /\ Len(F[i].blocks) = 1 /\ F[i].blocks[1] = found[i]
  <2>1. \A i \in 1..Len(found) : Msg("block", <<found[i]>>) \in Message(grown)
    <3> SUFFICES ASSUME NEW i \in 1..Len(found) PROVE Msg("block", <<found[i]>>) \in Message(grown)
      OBVIOUS
    <3>1. found[i] \in 1..grown
      BY <1>a
    <3>2. <<found[i]>> \in Seq(1..grown)
      BY <3>1
    <3> QED
      BY <3>2 DEF Msg, Message
  <2>2. F \in [1..Len(found) -> Message(grown)] /\ Len(found) \in Nat
    BY <1>a, <2>1
  <2>3. F \in Seq(Message(grown)) /\ Len(F) = Len(found)
    BY <2>2, FunctionIsSeq
  <2>4. \A i \in 1..Len(found) : F[i] = Msg("block", <<found[i]>>)
    OBVIOUS
  <2> HIDE DEF F
  <2>5. \A x : Msg("block", x).type = "block" /\ Msg("block", x).blocks = x
    BY DEF Msg
  <2>6. \A x : Len(<<x>>) = 1 /\ <<x>>[1] = x
    OBVIOUS
  <2>7. ASSUME NEW i \in 1..Len(found)
        PROVE  F[i].type = "block" /\ Len(F[i].blocks) = 1 /\ F[i].blocks[1] = found[i]
    <3> DEFINE x == <<found[i]>>
    <3>1. F[i].type = "block" /\ F[i].blocks = x
      BY <2>4, <2>5
    <3>2. Len(x) = 1 /\ x[1] = found[i]
      BY <2>6
    <3> HIDE DEF x
    <3> QED
      BY <3>1, <3>2
  <2> QED
    BY <2>2, <2>3, <2>7
<1> HIDE DEF F
<1>6. /\ N \in Seq(Message(grown)) /\ Len(N) \in Nat
      /\ \A i \in 1..Len(N) : N[i].type = "notfound"
  <2>1. CASE missing = <<>>
    BY <2>1
  <2>2. CASE missing # <<>>
    <3>1. Msg("notfound", missing) \in Message(grown) /\ Msg("notfound", missing).type = "notfound"
      BY <1>4 DEF Msg, Message
    <3>2. grown \in Nat
      BY DEF Heights, Block
    <3>3. N = <<Msg("notfound", missing)>>
      BY <2>2
    <3> QED
      BY <3>1, <3>2, <3>3, OneMessage
  <2> QED
    BY <2>1, <2>2
<1> HIDE DEF N
<1>7. /\ r \in Seq(Message(grown)) /\ Len(r) = Len(F) + Len(N)
      /\ \A i \in 1..(Len(F) + Len(N)) : r[i] = IF i <= Len(F) THEN F[i] ELSE N[i - Len(F)]
  <2>1. F \in Seq(Message(grown)) /\ N \in Seq(Message(grown))
    BY <1>5, <1>6
  <2> HIDE DEF r
  <2> QED
    BY <1>1, <2>1, ConcatProperties
<1> HIDE DEF r
<1>8. /\ \A i \in 1..Len(found) : i \in 1..Len(r) /\ r[i] = F[i]
      /\ \A i \in 1..Len(r) : i \in 1..Len(found) \/ r[i].type = "notfound"
  <2>1. \A i \in 1..Len(found) : i \in 1..Len(r) /\ r[i] = F[i]
    BY <1>5, <1>6, <1>7
  <2>2. ASSUME NEW i \in 1..Len(r), i \notin 1..Len(found) PROVE r[i].type = "notfound"
    <3>1. ~(i <= Len(F)) /\ i - Len(F) \in 1..Len(N)
      BY <1>5, <1>6, <1>7, <2>2
    <3> QED
      BY <1>6, <1>7, <3>1
  <2> QED
    BY <2>1, <2>2
<1>9. Formed(grown, r)
  <2> SUFFICES ASSUME NEW i \in 1..Len(r)
               PROVE  /\ r[i].type \in {"block", "inv"} => Len(r[i].blocks) = 1
                      /\ r[i].type = "inv" => r[i].blocks[1] = grown
    BY DEF Formed
  <2>1. CASE i \in 1..Len(found)
    BY <1>5, <1>8, <2>1
  <2>2. CASE r[i].type = "notfound"
    BY <2>2
  <2> QED
    BY <1>8, <2>1, <2>2
<1>10. /\ \A i \in 1..Len(r) : \A b : Arrives(r, i, b) => i \in 1..Len(found) /\ found[i] = b
       /\ \A i \in 1..Len(found) : Arrives(r, i, found[i])
  <2>1. ASSUME NEW i \in 1..Len(r), NEW b, Arrives(r, i, b) PROVE i \in 1..Len(found) /\ found[i] = b
    <3>1. i \in 1..Len(found)
      BY <1>8, <2>1 DEF Arrives
    <3> QED
      BY <1>5, <1>8, <2>1, <3>1 DEF Arrives
  <2>2. ASSUME NEW i \in 1..Len(found) PROVE Arrives(r, i, found[i])
    BY <1>5, <1>8 DEF Arrives
  <2> QED
    BY <2>1, <2>2
<1>11. Covers(grown, r, {bs[k] : k \in 1..Len(bs)}, top)
  <2> SUFFICES ASSUME NEW k \in 1..Len(bs), bs[k] # grown PROVE \E i \in 1..Len(r) : Arrives(r, i, bs[k])
    BY DEF Covers
  <2>1. bs[k] \in has
    BY <1>b
  <2>2. PICK i \in 1..Len(found) : found[i] = bs[k]
    BY <1>3, <2>1
  <2> QED
    BY <1>8, <1>10, <2>2
<1>12. ASSUME NEW i \in 1..Len(r), NEW b \in 1..(grown - 1), Arrives(r, i, b)
       PROVE  \E k \in 1..Len(bs) :
                /\ bs[k] = b
                /\ \A j \in 1..(k - 1) : bs[j] # grown => \E l \in 1..(i - 1) : Arrives(r, l, bs[j])
  <2>1. i \in 1..Len(found) /\ found[i] = b
    BY <1>10, <1>12
  <2>2. PICK k \in 1..Len(bs) :
          /\ found[i] = bs[k]
          /\ \A j \in 1..(k - 1) : bs[j] \in has => \E l \in 1..(i - 1) : found[l] = bs[j]
    BY <1>3, <2>1
  <2>3. ASSUME NEW j \in 1..(k - 1), bs[j] # grown PROVE \E l \in 1..(i - 1) : Arrives(r, l, bs[j])
    <3>1. j \in 1..Len(bs)
      OBVIOUS
    <3>2. bs[j] \in has
      BY <1>b, <2>3, <3>1
    <3>3. PICK l \in 1..(i - 1) : found[l] = bs[j]
      BY <2>2, <3>2
    <3>4. l \in 1..Len(found)
      BY <2>1, <1>5
    <3> QED
      BY <1>10, <3>3, <3>4
  <2> QED
    BY <2>1, <2>2, <2>3
<1> QED
  BY <1>7, <1>9, <1>11, <1>12 DEF r

-----------------------------------------------------------------------------
(* Steps, while nothing goes wrong.                                        *)

Good == Heights /\ Links /\ Queues /\ Mail /\ Readers

\* What leaves a set S is stored by then.
LEMMA ReadyStays ==
    ASSUME NEW g \in Nat, NEW b \in 1..g, NEW S \in SUBSET (1..g), NEW S2, NEW h \in Nat, NEW h2 \in Nat,
           h <= h2, Ready(g, b, S, h), \A c \in S \ S2 : c = g \/ c <= h2
    PROVE  Ready(g, b, S2, h2)
BY DEF Ready

LEMMA MailGrows ==
    ASSUME NEW g \in Nat, NEW q, NEW S \in SUBSET (1..g), NEW h \in Nat, NEW h2 \in Nat, h <= h2,
           Ordered(g, q, h), Covers(g, q, S, h)
    PROVE  Ordered(g, q, h2) /\ Covers(g, q, S, h2)
<1>1. Ordered(g, q, h2)
  <2> SUFFICES ASSUME NEW i \in 1..Len(q), NEW b \in 1..(g - 1), Arrives(q, i, b), ~(b - 1 <= h2)
               PROVE  \E j \in 1..(i - 1) : Arrives(q, j, b - 1)
    BY DEF Ordered
  <2>1. ~(b - 1 <= h)
    OBVIOUS
  <2> QED
    BY <2>1 DEF Ordered
<1>2. Covers(g, q, S, h2)
  <2> SUFFICES ASSUME NEW b \in S \ {g}, ~(b <= h2) PROVE \E i \in 1..Len(q) : Arrives(q, i, b)
    BY DEF Covers
  <2>1. ~(b <= h)
    OBVIOUS
  <2> QED
    BY <2>1 DEF Covers
<1> QED
  BY <1>1, <1>2

\* The queue of one peer has changed.
LEMMA MailStep ==
    ASSUME Good, NEW p \in Peer, NEW q \in Seq(Message(grown)), inbox' = [inbox EXCEPT ![p] = q],
           grown' = grown, top' \in Nat, top <= top', \A x \in Peer \ {p} : requested'[x] = requested[x],
           Formed(grown, q), Ordered(grown, q, top'), Covers(grown, q, requested'[p], top')
    PROVE  Mail'
<1>1. /\ inbox \in [Peer -> Seq(Message(grown))] /\ requested \in [Peer -> SUBSET (1..grown)]
      /\ grown \in Nat /\ top \in Nat
  BY DEF Good, Mail, Queues, Heights, Block
<1>2. inbox' \in [Peer -> Seq(Message(grown))]
  BY <1>1
<1>3. ASSUME NEW x \in Peer
      PROVE  /\ Formed(grown, inbox'[x]) /\ Ordered(grown, inbox'[x], top')
             /\ Covers(grown, inbox'[x], requested'[x], top')
  <2>1. CASE x = p
    BY <1>1, <2>1
  <2>2. CASE x # p
    <3>1. inbox'[x] = inbox[x] /\ requested'[x] = requested[x] /\ requested[x] \in SUBSET (1..grown)
      BY <1>1, <2>2
    <3>2. Formed(grown, inbox[x]) /\ Ordered(grown, inbox[x], top) /\ Covers(grown, inbox[x], requested[x], top)
      BY DEF Good, Mail
    <3>3. Ordered(grown, inbox[x], top') /\ Covers(grown, inbox[x], requested[x], top')
      BY <1>1, <3>1, <3>2, MailGrows
    <3> QED
      BY <3>1, <3>2, <3>3
  <2> QED
    BY <2>1, <2>2
<1> QED
  BY <1>2, <1>3 DEF Mail

LEMMA MailSame ==
    ASSUME Good, inbox' = inbox, requested' = requested, grown' = grown, top' = top
    PROVE  Mail'
BY DEF Good, Mail

LEMMA SoundStays ==
    ASSUME NEW g \in Nat, NEW th \in Place(g), NEW R \in [Peer -> SUBSET (1..g)], NEW R2,
           NEW h \in Nat, NEW h2 \in Nat, h <= h2, Sound(g, th, R, h),
           \A q \in Peer : \A c \in R[q] \ R2[q] : c = g \/ c <= h2
    PROVE  Sound(g, th, R2, h2)
<1> SUFFICES ASSUME th.at \in {"request", "pop"} PROVE Sound(g, th, R2, h2)
  BY DEF Sound
<1> DEFINE q == Head(th.todo)
           Earlier(k) == {th.batch[j] : j \in 1..(k - 1)}
<1>1. /\ th.todo \in Seq(Peer) /\ th.batch \in Seq(1..g) /\ th.queued \in SUBSET (1..g)
      /\ th.todo # <<>>
  BY DEF Place, Sound
<1>2. q \in Peer
  BY <1>1
<1>3. \A k \in 1..Len(th.batch) : th.batch[k] \in 1..g
  BY <1>1, ElementOfSeq
<1>4. R[q] \in SUBSET (1..g) /\ \A c \in R[q] \ R2[q] : c = g \/ c <= h2
  BY <1>2
<1>5. ASSUME NEW k \in 1..Len(th.batch)
      PROVE  Ready(g, th.batch[k], R2[q] \cup Earlier(k), h2)
  <2>1. Ready(g, th.batch[k], R[q] \cup Earlier(k), h)
    BY DEF Sound
  <2>2. Earlier(k) \in SUBSET (1..g)
    <3>1. \A j \in 1..(k - 1) : j \in 1..Len(th.batch)
      BY <1>1
    <3> QED
      BY <1>3, <3>1
  <2> HIDE DEF Earlier, q
  <2>3. /\ R[q] \cup Earlier(k) \in SUBSET (1..g)
        /\ \A c \in (R[q] \cup Earlier(k)) \ (R2[q] \cup Earlier(k)) : c = g \/ c <= h2
    BY <1>4, <2>2
  <2> QED
    BY <1>3, <2>1, <2>3, ReadyStays
<1>6. ASSUME NEW c \in th.queued
      PROVE  c = g \/ c <= h2 \/ c \in R2[q] \/ \E k \in 1..Len(th.batch) : th.batch[k] = c
  <2>1. c = g \/ c <= h \/ c \in R[q] \/ \E k \in 1..Len(th.batch) : th.batch[k] = c
    BY DEF Sound
  <2>2. c \in Nat
    BY <1>1
  <2> HIDE DEF q
  <2> QED
    BY <1>4, <2>1, <2>2
<1>7. ASSUME th.at = "pop" PROVE th.head \in 1..g /\ Ready(g, th.head, th.queued, h2)
  <2>1. th.head \in 1..g /\ Ready(g, th.head, th.queued, h)
    BY <1>7 DEF Sound
  <2> QED
    BY <1>1, <2>1, ReadyStays
<1> QED
  BY <1>1, <1>5, <1>6, <1>7 DEF Sound

\* The reader of one peer has moved on.
LEMMA ReaderStep ==
    ASSUME Good, NEW p \in Peer, NEW th \in Place(grown), thread' = [thread EXCEPT ![p] = th],
           grown' = grown, top' \in Nat, top <= top', Sound(grown, th, requested', top'),
           \A q \in Peer : \A c \in requested[q] \ requested'[q] : c = grown \/ c <= top'
    PROVE  Readers'
<1>1. /\ thread \in [Peer -> Place(grown)] /\ requested \in [Peer -> SUBSET (1..grown)]
      /\ grown \in Nat /\ top \in Nat
  BY DEF Good, Readers, Queues, Heights, Block
<1>2. thread' \in [Peer -> Place(grown)]
  BY <1>1
<1>3. ASSUME NEW t \in Peer PROVE Sound(grown, thread'[t], requested', top')
  <2>1. CASE t = p
    BY <1>1, <2>1
  <2>2. CASE t # p
    <3>1. thread'[t] = thread[t] /\ thread[t] \in Place(grown)
      BY <1>1, <2>2
    <3>2. Sound(grown, thread[t], requested, top)
      BY DEF Good, Readers
    <3>3. Sound(grown, thread[t], requested', top')
      BY <1>1, <3>1, <3>2, SoundStays
    <3> QED
      BY <3>1, <3>3
  <2> QED
    BY <2>1, <2>2
<1> QED
  BY <1>2, <1>3 DEF Readers

LEMMA ReadersSame ==
    ASSUME Good, thread' = thread, requested' = requested, grown' = grown, top' = top
    PROVE  Readers'
BY DEF Good, Readers

\* A reader that requests nothing just now.
LEMMA ElsewhereIs ==
    ASSUME NEW g \in Nat, NEW R, NEW h,
           NEW at \in {"idle", "gone", "queue", "more", "tail", "orphan"},
           NEW then \in {"idle", "queue", "more"}
    PROVE  /\ [Idle EXCEPT !.at = at, !.then = then] \in Place(g)
           /\ Sound(g, [Idle EXCEPT !.at = at, !.then = then], R, h)
           /\ [Idle EXCEPT !.at = at] \in Place(g)
           /\ Sound(g, [Idle EXCEPT !.at = at], R, h)
           /\ Idle \in Place(g) /\ Sound(g, Idle, R, h)
<1>1. Idle \in Place(g) /\ Idle.at = "idle"
  BY DEF Idle, Place
<1> HIDE DEF Idle
<1> DEFINE x == [Idle EXCEPT !.at = at]
           y == [Idle EXCEPT !.at = at, !.then = then]
<1>2. x \in Place(g) /\ x.at = at
  BY <1>1 DEF Place
<1>3. y \in Place(g) /\ y.at = at
  BY <1>1 DEF Place
<1> HIDE DEF x, y
<1>4. \A th : th.at \notin {"request", "pop"} => Sound(g, th, R, h)
  BY DEF Sound
<1>5. Sound(g, Idle, R, h) /\ Sound(g, x, R, h) /\ Sound(g, y, R, h)
  BY <1>1, <1>2, <1>3, <1>4
<1> QED
  BY <1>1, <1>2, <1>3, <1>5 DEF x, y

\* A reader that begins to request.
LEMMA RequestingIs ==
    ASSUME NEW g \in Nat, NEW todo \in Seq(Peer), NEW then \in {"idle", "queue", "more"}, NEW h,
           requested' \in [Peer -> SUBSET (1..g)]
    PROVE  /\ Requesting(todo, then) \in Place(g)
           /\ Sound(g, Requesting(todo, then), requested', h)
<1>1. CASE todo = <<>>
  <2>1. Requesting(todo, then) = [Idle EXCEPT !.at = then]
    BY <1>1 DEF Requesting
  <2>2. then \in {"idle", "gone", "queue", "more", "tail", "orphan"}
    OBVIOUS
  <2> DEFINE th == [Idle EXCEPT !.at = then]
  <2>3. th \in Place(g) /\ \A R : Sound(g, th, R, h)
    BY <2>2, ElsewhereIs
  <2> HIDE DEF th
  <2> QED
    BY <2>1, <2>3 DEF th
<1>2. CASE todo # <<>>
  <2> DEFINE R == requested'[Head(todo)]
             th == [Idle EXCEPT !.at = "request", !.then = then, !.todo = todo, !.queued = R]
  <2>1. Requesting(todo, then) = th
    BY <1>2 DEF Requesting
  <2>2. R \in SUBSET (1..g)
    BY <1>2
  <2>3. Idle \in Place(g) /\ Idle.batch = <<>>
    BY DEF Idle, Place
  <2> HIDE DEF Idle
  <2>4. /\ th \in Place(g) /\ th.at = "request" /\ th.todo = todo
        /\ th.queued = R /\ th.batch = <<>>
    BY <2>2, <2>3 DEF Place
  <2> HIDE DEF th
  <2>5. Sound(g, th, requested', h)
    BY <1>2, <2>4 DEF Sound
  <2> QED
    BY <2>1, <2>4, <2>5
<1> QED
  BY <1>1, <1>2

\* The facts about one peer that the steps need.
LEMMA PeerFacts ==
    ASSUME Good, NEW p \in Peer
    PROVE  /\ grown \in Nat /\ top \in Nat /\ HeaderTip \in Nat /\ Heights
           /\ requested \in [Peer -> SUBSET (1..grown)] /\ requested[p] \in SUBSET (1..grown)
           /\ pending \in [Peer -> Seq(1..grown)] /\ pending[p] \in Seq(1..grown)
           /\ inbox \in [Peer -> Seq(Message(grown))] /\ inbox[p] \in Seq(Message(grown))
           /\ Formed(grown, inbox[p]) /\ Ordered(grown, inbox[p], top)
           /\ Covers(grown, inbox[p], requested[p], top)
           /\ thread \in [Peer -> Place(grown)] /\ thread[p] \in Place(grown)
           /\ Sound(grown, thread[p], requested, top)
<1>1. Heights
  BY DEF Good
<1>2. grown \in Nat /\ top \in Nat
  BY <1>1 DEF Heights, Block
<1>3. HeaderTip \in Nat
  BY <1>1, <1>2, HeaderTipIs
<1>4. requested \in [Peer -> SUBSET (1..grown)] /\ pending \in [Peer -> Seq(1..grown)]
  BY DEF Good, Queues
<1>5. /\ inbox \in [Peer -> Seq(Message(grown))]
      /\ Formed(grown, inbox[p]) /\ Ordered(grown, inbox[p], top)
      /\ Covers(grown, inbox[p], requested[p], top)
  BY DEF Good, Mail
<1>6. thread \in [Peer -> Place(grown)] /\ Sound(grown, thread[p], requested, top)
  BY DEF Good, Readers
<1> QED
  BY <1>1, <1>2, <1>3, <1>4, <1>5, <1>6

\* Blocks, headers and queues stay as they are.
LEMMA ChainSame ==
    ASSUME Good, UNCHANGED <<chainVars, peerVars>>
    PROVE  Heights' /\ HeaderTip' = HeaderTip
BY DEF Good, Heights, Entire, chainVars, peerVars, HeaderTip

LEMMA QueuesSame ==
    ASSUME Good, requested' = requested, pending' = pending, grown' = grown, top' = top,
           HeaderTip' = HeaderTip
    PROVE  Queues'
BY DEF Good, Queues

LEMMA LinksSame ==
    ASSUME Good, UNCHANGED <<peers, closed, stalled>>
    PROVE  Links'
BY DEF Good, Links

\* The first message to p is read; nothing else about the messages changes.
LEMMA OtherRead ==
    ASSUME Good, NEW p \in Peer, inbox[p] # <<>>, inbox' = [inbox EXCEPT ![p] = Tail(@)],
           Head(inbox[p]).type # "block",
           requested' = requested, grown' = grown, top' = top
    PROVE  Mail'
<1> DEFINE q == inbox[p]
<1>1. /\ grown \in Nat /\ top \in Nat /\ requested[p] \in SUBSET (1..grown)
      /\ q \in Seq(Message(grown)) /\ q # <<>>
      /\ Formed(grown, q) /\ Ordered(grown, q, top) /\ Covers(grown, q, requested[p], top)
      /\ inbox' = [inbox EXCEPT ![p] = Tail(q)] /\ Head(q).type # "block"
  BY PeerFacts
<1> HIDE DEF q
<1>2. top <= top /\ requested[p] \in SUBSET requested[p] /\ \A b \in 1..(grown - 1) : Arrives(q, 1, b) => b <= top
  <2>1. Head(q) = q[1]
    BY <1>1
  <2> QED
    BY <1>1, <2>1 DEF Arrives
<1>3. /\ Tail(q) \in Seq(Message(grown)) /\ Formed(grown, Tail(q))
      /\ Ordered(grown, Tail(q), top) /\ Covers(grown, Tail(q), requested[p], top)
  BY <1>1, <1>2, ReadFirst
<1> DEFINE r == Tail(q)
<1>4. /\ r \in Seq(Message(grown)) /\ inbox' = [inbox EXCEPT ![p] = r] /\ Formed(grown, r)
      /\ Ordered(grown, r, top') /\ Covers(grown, r, requested'[p], top')
  BY <1>1, <1>3
<1> HIDE DEF r
<1>5. top' \in Nat /\ top <= top' /\ \A x \in Peer \ {p} : requested'[x] = requested[x]
  BY <1>1
<1> QED
  BY <1>4, <1>5, MailStep

\* Messages other than blocks are sent to p.
LEMMA OtherSent ==
    ASSUME Good, NEW p \in Peer, NEW r \in Seq(Message(grown)), inbox' = [inbox EXCEPT ![p] = @ \o r],
           Formed(grown, r), \A i \in 1..Len(r) : r[i].type # "block",
           requested' = requested, grown' = grown, top' = top
    PROVE  Mail'
<1> DEFINE q == inbox[p]
<1>1. /\ grown \in Nat /\ top \in Nat
      /\ q \in Seq(Message(grown))
      /\ Formed(grown, q) /\ Ordered(grown, q, top) /\ Covers(grown, q, requested[p], top)
      /\ inbox' = [inbox EXCEPT ![p] = q \o r]
  BY PeerFacts
<1> HIDE DEF q
<1>2. /\ q \o r \in Seq(Message(grown)) /\ Formed(grown, q \o r)
      /\ Ordered(grown, q \o r, top) /\ Covers(grown, q \o r, requested[p], top)
  BY <1>1, SendOther
<1> DEFINE w == q \o r
<1>3. /\ w \in Seq(Message(grown)) /\ inbox' = [inbox EXCEPT ![p] = w] /\ Formed(grown, w)
      /\ Ordered(grown, w, top') /\ Covers(grown, w, requested'[p], top')
  BY <1>1, <1>2
<1> HIDE DEF w
<1>4. top' \in Nat /\ top <= top' /\ \A x \in Peer \ {p} : requested'[x] = requested[x]
  BY <1>1
<1> QED
  BY <1>3, <1>4, MailStep

\* The reader of p moves on while requests and chain stay as they are.
LEMMA OnlyReader ==
    ASSUME Good, NEW p \in Peer, NEW th \in Place(grown), Goto(p, th),
           Sound(grown, th, requested, top), requested' = requested, grown' = grown, top' = top
    PROVE  Readers'
<1>1. /\ thread' = [thread EXCEPT ![p] = th] /\ top' \in Nat /\ top <= top'
      /\ \A q \in Peer : \A c \in requested[q] \ requested'[q] : c = grown \/ c <= top'
  BY PeerFacts DEF Goto
<1>2. Sound(grown, th, requested', top')
  OBVIOUS
<1> QED
  BY <1>1, <1>2, ReaderStep

LEMMA MoreHeadersStep ==
    ASSUME Good, NEW p \in Peer, MoreHeaders(p)
    PROVE  Good'
<1>1. /\ UNCHANGED <<chainVars, peerVars>> /\ UNCHANGED <<peers, closed, stalled>>
      /\ requested' = requested /\ pending' = pending /\ grown' = grown /\ top' = top
      /\ Goto(p, Idle)
      /\ inbox' = inbox \/ inbox' = [inbox EXCEPT ![p] = @ \o SyncAnswer(p)]
  BY DEF MoreHeaders, chainVars, peerVars, linkVars, queueVars
<1>2. Heights' /\ Links' /\ Queues'
  BY <1>1, ChainSame, LinksSame, QueuesSame
<1>3. Mail'
  <2>1. CASE inbox' = inbox
    BY <1>1, <2>1, MailSame
  <2>2. CASE inbox' = [inbox EXCEPT ![p] = @ \o SyncAnswer(p)]
    <3>1. /\ SyncAnswer(p) \in Seq(Message(grown)) /\ Formed(grown, SyncAnswer(p))
          /\ \A i \in 1..Len(SyncAnswer(p)) : SyncAnswer(p)[i].type # "block"
      BY PeerFacts, SyncAnswerIs
    <3> QED
      BY <1>1, <2>2, <3>1, OtherSent
  <2> QED
    BY <1>1, <2>1, <2>2
<1>4. Readers'
  <2>1. Idle \in Place(grown) /\ Sound(grown, Idle, requested, top)
    BY PeerFacts, ElsewhereIs
  <2> QED
    BY <1>1, <2>1, OnlyReader
<1> QED
  BY <1>2, <1>3, <1>4 DEF Good

LEMMA PollStep ==
    ASSUME Good, NEW p \in Peer, Poll(p)
    PROVE  Good'
<1>1. /\ UNCHANGED <<chainVars, peerVars>> /\ UNCHANGED <<peers, closed, stalled>>
      /\ requested' = requested /\ pending' = pending /\ grown' = grown /\ top' = top
      /\ thread' = thread /\ inbox[p] = <<>> /\ inbox' = [inbox EXCEPT ![p] = SyncAnswer(p)]
  BY DEF Poll, chainVars, peerVars, linkVars, queueVars
<1>2. Heights' /\ Links' /\ Queues' /\ Readers'
  BY <1>1, ChainSame, LinksSame, QueuesSame, ReadersSame
<1>3. Mail'
  <2> DEFINE r == SyncAnswer(p)
  <2>1. /\ r \in Seq(Message(grown)) /\ Formed(grown, r) /\ \A i \in 1..Len(r) : r[i].type # "block"
    BY PeerFacts, SyncAnswerIs
  <2>2. inbox' = [inbox EXCEPT ![p] = r]
    BY <1>1
  <2> HIDE DEF r
  <2>3. <<>> \o r = r
    BY <2>1
  <2>4. inbox' = [inbox EXCEPT ![p] = @ \o r]
    BY <1>1, <2>2, <2>3
  <2> QED
    BY <1>1, <2>1, <2>4, OtherSent
<1> QED
  BY <1>2, <1>3 DEF Good

LEMMA AfterBlockStep ==
    ASSUME Good, NEW p \in Peer, AfterBlock(p)
    PROVE  Good'
<1>1. /\ UNCHANGED <<chainVars, peerVars>> /\ UNCHANGED <<peers, closed, stalled>>
      /\ requested' = requested /\ pending' = pending /\ grown' = grown /\ top' = top
  BY DEF AfterBlock, chainVars, peerVars, linkVars
<1>2. Heights' /\ Links' /\ Queues'
  BY <1>1, ChainSame, LinksSame, QueuesSame
<1>3. CASE requested[p] = {} /\ pending[p] = <<>>
  <2> DEFINE q == inbox[p]
             r == IF thread[p].at = "orphan" THEN SyncAnswer(p) ELSE <<>>
             s == SyncAnswer(p)
             w == q \o r
             v == w \o s
  <2>1. inbox' = [inbox EXCEPT ![p] = v] /\ Goto(p, [Idle EXCEPT !.at = "queue"])
    BY <1>3 DEF AfterBlock
  <2>2. /\ grown \in Nat /\ top \in Nat /\ Heights /\ q \in Seq(Message(grown))
        /\ Formed(grown, q) /\ Ordered(grown, q, top) /\ Covers(grown, q, requested[p], top)
    BY PeerFacts
  <2>3. /\ s \in Seq(Message(grown)) /\ Formed(grown, s) /\ \A i \in 1..Len(s) : s[i].type # "block"
    BY <2>2, SyncAnswerIs
  <2>4. /\ r \in Seq(Message(grown)) /\ Formed(grown, r) /\ \A i \in 1..Len(r) : r[i].type # "block"
    <3>1. CASE r = s
      BY <2>3, <3>1
    <3>2. CASE r = <<>>
      <4>1. <<>> \in Seq(Message(grown)) /\ Formed(grown, <<>>) /\ Len(<<>>) = 0
        BY DEF Formed
      <4> HIDE DEF r
      <4> QED
        BY <3>2, <4>1
    <3> QED
      BY <3>1, <3>2
  <2> HIDE DEF q, r, s
  <2>5. /\ w \in Seq(Message(grown)) /\ Formed(grown, w)
        /\ Ordered(grown, w, top) /\ Covers(grown, w, requested[p], top)
    BY <2>2, <2>4, SendOther
  <2> HIDE DEF w
  <2>6. /\ v \in Seq(Message(grown)) /\ Formed(grown, v)
        /\ Ordered(grown, v, top) /\ Covers(grown, v, requested[p], top)
    BY <2>2, <2>3, <2>5, SendOther
  <2> HIDE DEF v
  <2>7. /\ Ordered(grown, v, top') /\ Covers(grown, v, requested'[p], top')
        /\ top' \in Nat /\ top <= top' /\ \A x \in Peer \ {p} : requested'[x] = requested[x]
    BY <1>1, <2>2, <2>6
  <2>8. Mail'
    BY <1>1, <2>1, <2>6, <2>7, MailStep
  <2> DEFINE th == [Idle EXCEPT !.at = "queue"]
  <2>9. th \in Place(grown) /\ Sound(grown, th, requested, top)
    BY <2>2, ElsewhereIs
  <2> HIDE DEF th
  <2>10. Readers'
    BY <1>1, <2>1, <2>9, OnlyReader DEF th
  <2> QED
    BY <1>2, <2>8, <2>10 DEF Good
<1>4. CASE ~(requested[p] = {} /\ pending[p] = <<>>)
  <2>1. inbox' = inbox /\ Goto(p, Requesting(<<p>>, "queue"))
    BY <1>4 DEF AfterBlock
  <2>2. Mail'
    BY <1>1, <2>1, MailSame
  <2> DEFINE th == Requesting(<<p>>, "queue")
  <2>3. th \in Place(grown) /\ Sound(grown, th, requested', top)
    <3>1. grown \in Nat /\ requested' \in [Peer -> SUBSET (1..grown)] /\ <<p>> \in Seq(Peer)
      BY <1>1, PeerFacts
    <3> QED
      BY <3>1, RequestingIs
  <2> HIDE DEF th
  <2>4. Sound(grown, th, requested, top)
    BY <1>1, <2>3
  <2>5. Goto(p, th)
    BY <2>1 DEF th
  <2>6. Readers'
    BY <1>1, <2>3, <2>4, <2>5, OnlyReader
  <2> QED
    BY <1>2, <2>2, <2>6 DEF Good
<1> QED
  BY <1>3, <1>4

\* The queues stay as they are while more headers become known.
LEMMA QueuesGrow ==
    ASSUME Good, requested' = requested, pending' = pending, grown' = grown, top' = top,
           HeaderTip' \in Nat, HeaderTip <= HeaderTip'
    PROVE  Queues'
<1>1. HeaderTip \in Nat /\ grown \in Nat
  <2>1. Heights
    BY DEF Good
  <2> QED
    BY <2>1, HeaderTipIs DEF Heights, Block
<1>2. ASSUME NEW x \in Peer, NEW i \in 1..Len(pending[x])
      PROVE  pending[x][i] = grown \/ pending[x][i] <= HeaderTip'
  <2>1. pending[x][i] = grown \/ pending[x][i] <= HeaderTip
    BY DEF Good, Queues
  <2>2. pending[x] \in Seq(1..grown)
    BY DEF Good, Queues
  <2>3. pending[x][i] \in 1..grown
    BY <2>2, ElementOfSeq
  <2> QED
    BY <1>1, <2>1, <2>3
<1>3. /\ requested' \in [Peer -> SUBSET (1..grown')] /\ pending' \in [Peer -> Seq(1..grown')]
      /\ \A x \in Peer : \A b \in requested'[x] : Ready(grown', b, requested'[x], top')
  BY DEF Good, Queues
<1> QED
  BY <1>2, <1>3 DEF Queues

LEMMA OnHeadersStep ==
    ASSUME Good, NEW p \in Peer, OnHeaders(p)
    PROVE  Good'
<1> DEFINE bs == Head(inbox[p]).blocks
           best == HeadersAdded(bs)
<1>1. /\ top' = top /\ orphans' = orphans /\ UNCHANGED <<peers, closed, stalled>>
      /\ UNCHANGED peerVars /\ requested' = requested /\ pending' = pending /\ grown' = grown
      /\ inbox[p] # <<>> /\ Head(inbox[p]).type = "headers"
      /\ inbox' = [inbox EXCEPT ![p] = Tail(@)] /\ hdr' = Max({hdr, best})
      /\ Goto(p, [Idle EXCEPT !.at = "queue", !.then = "more"])
  BY DEF OnHeaders, Received, linkVars, queueVars, peerVars
<1>2. Heights /\ grown \in 1..Top /\ Top \in Nat
  BY SyncAssumption DEF Good, Heights, Block
<1>3. bs \in Seq(1..grown)
  <2>1. inbox[p] \in Seq(Message(grown))
    BY PeerFacts
  <2>2. Head(inbox[p]) \in Message(grown)
    BY <1>1, <2>1
  <2> QED
    BY <2>2 DEF Message
<1> HIDE DEF bs
<1>4. best \in HeaderTip..Top /\ best \in 0..grown
  <2>1. HeaderTip \in 0..grown
    BY <1>2, HeaderTipIs
  <2>2. ToSet(bs) \in SUBSET (1..grown)
    <3>1. \A i \in 1..Len(bs) : bs[i] \in 1..grown
      BY <1>3, ElementOfSeq
    <3> QED
      BY <3>1 DEF ToSet
  <2>3. HeaderTip \in 0..Top /\ ToSet(bs) \in SUBSET (1..Top)
    BY <1>2, <2>1, <2>2
  <2>4. RunEnd(HeaderTip, ToSet(bs)) \in HeaderTip..Top
        /\ (RunEnd(HeaderTip, ToSet(bs)) = HeaderTip \/ RunEnd(HeaderTip, ToSet(bs)) \in ToSet(bs))
    BY <2>3, RunEndIs
  <2> QED
    BY <1>2, <2>1, <2>2, <2>4 DEF HeadersAdded
<1> HIDE DEF best
<1>5. hdr \in 0..grown /\ top \in 0..grown
  BY <1>2 DEF Heights
<1>6. hdr' \in 0..grown /\ hdr <= hdr' /\ best <= hdr'
  <2>1. hdr \in Int /\ best \in Int
    BY <1>4, <1>5
  <2> QED
    BY <1>1, <1>4, <1>5, <2>1, MaxOfTwo
<1>7. Heights'
  BY <1>1, <1>2, <1>6 DEF Heights, Entire, peerVars
<1>8. HeaderTip' \in Nat /\ HeaderTip <= HeaderTip'
  <2>1. hdr' \in Int /\ top' \in Int
    BY <1>1, <1>5, <1>6
  <2>2. HeaderTip' \in {hdr', top'} /\ hdr' <= HeaderTip'
    BY <2>1, MaxOfTwo DEF HeaderTip
  <2>3. HeaderTip \in 0..grown
    BY <1>2, HeaderTipIs
  <2> QED
    BY <1>1, <1>4, <1>5, <1>6, <2>2, <2>3
<1>9. Links' /\ Queues'
  BY <1>1, <1>8, LinksSame, QueuesGrow
<1>10. Mail'
  BY <1>1, OtherRead
<1>11. Readers'
  <2> DEFINE th == [Idle EXCEPT !.at = "queue", !.then = "more"]
  <2>1. th \in Place(grown) /\ Sound(grown, th, requested, top)
    BY <1>2, ElsewhereIs
  <2>2. Goto(p, th)
    BY <1>1
  <2> HIDE DEF th
  <2> QED
    BY <1>1, <2>1, <2>2, OnlyReader
<1> QED
  BY <1>7, <1>9, <1>10, <1>11 DEF Good

LEMMA OnInvStep ==
    ASSUME Good, NEW p \in Peer, OnInv(p)
    PROVE  Good'
<1> DEFINE b == Head(inbox[p]).blocks[1]
<1>1. /\ UNCHANGED <<chainVars, peerVars>> /\ UNCHANGED <<peers, closed, stalled>>
      /\ requested' = requested /\ grown' = grown /\ top' = top
      /\ inbox[p] # <<>> /\ Head(inbox[p]).type = "inv"
      /\ inbox' = [inbox EXCEPT ![p] = Tail(@)]
      /\ Goto(p, Requesting(<<p>>, "idle"))
      /\ pending' = pending \/ pending' = [pending EXCEPT ![p] = Append(@, b)]
  <2>1. pending' = pending \/ pending' = [pending EXCEPT ![p] = Append(@, b)]
    <3>1. pending \in [Peer -> Seq(1..grown)]
      BY PeerFacts
    <3> QED
      BY <3>1 DEF OnInv
  <2> QED
    BY <2>1 DEF OnInv, Received, linkVars, chainVars, peerVars
<1>2. Heights' /\ HeaderTip' = HeaderTip /\ Links'
  BY <1>1, ChainSame, LinksSame
<1>3. b = grown /\ grown \in Nat /\ grown \in 1..grown
  <2>1. inbox[p] \in Seq(Message(grown)) /\ Formed(grown, inbox[p]) /\ grown \in Block
    BY PeerFacts DEF Heights
  <2>2. Head(inbox[p]) = inbox[p][1] /\ 1 \in 1..Len(inbox[p])
    BY <1>1, <2>1
  <2>3. b = grown
    BY <1>1, <2>1, <2>2 DEF Formed
  <2> QED
    BY <2>1, <2>3 DEF Block
<1> HIDE DEF b
<1>4. Queues'
  <2>1. CASE pending' = pending
    BY <1>1, <1>2, <2>1, QueuesSame
  <2>2. CASE pending' = [pending EXCEPT ![p] = Append(@, b)]
    <3>1. /\ pending \in [Peer -> Seq(1..grown)] /\ pending[p] \in Seq(1..grown)
          /\ requested \in [Peer -> SUBSET (1..grown)]
          /\ \A x \in Peer : \A c \in requested[x] : Ready(grown, c, requested[x], top)
          /\ \A x \in Peer : \A i \in 1..Len(pending[x]) : pending[x][i] = grown \/ pending[x][i] <= HeaderTip
      BY DEF Good, Queues
    <3> DEFINE s == Append(pending[p], grown)
    <3>2. pending' = [pending EXCEPT ![p] = s]
      BY <1>3, <2>2
    <3>3. s \in Seq(1..grown) /\ \A i \in 1..Len(s) : s[i] = grown \/ (i \in 1..Len(pending[p]) /\ s[i] = pending[p][i])
      <4> DEFINE old == pending[p]
      <4>1. old \in Seq(1..grown) /\ s = Append(old, grown)
        BY <3>1
      <4> HIDE DEF old, s
      <4>2. s \in Seq(1..grown) /\ Len(s) = Len(old) + 1 /\ Len(old) \in Nat
        BY <1>3, <4>1
      <4>3. \A i \in 1..(Len(old) + 1) : s[i] = IF i <= Len(old) THEN old[i] ELSE grown
        BY <1>3, <4>1, AppendProperties
      <4>4. \A i \in 1..Len(s) : s[i] = grown \/ (i \in 1..Len(old) /\ s[i] = old[i])
        BY <4>2, <4>3
      <4> QED
        BY <4>2, <4>4 DEF old
    <3> HIDE DEF s
    <3>4. pending' \in [Peer -> Seq(1..grown)]
      BY <3>1, <3>2, <3>3
    <3>5. ASSUME NEW x \in Peer, NEW i \in 1..Len(pending'[x])
          PROVE  pending'[x][i] = grown \/ pending'[x][i] <= HeaderTip
      <4>1. CASE x = p
        <5>1. pending'[x] = s
          BY <3>1, <3>2, <4>1
        <5> QED
          BY <3>1, <3>3, <5>1
      <4>2. CASE x # p
        <5>1. pending'[x] = pending[x]
          BY <3>1, <3>2, <4>2
        <5> QED
          BY <3>1, <5>1
      <4> QED
        BY <4>1, <4>2
    <3> QED
      BY <1>1, <1>2, <3>1, <3>4, <3>5 DEF Queues
  <2> QED
    BY <1>1, <2>1, <2>2
<1>5. Mail'
  BY <1>1, OtherRead
<1>6. Readers'
  <2> DEFINE th == Requesting(<<p>>, "idle")
  <2>1. th \in Place(grown) /\ Sound(grown, th, requested', top)
    <3>1. requested' \in [Peer -> SUBSET (1..grown)] /\ <<p>> \in Seq(Peer)
      BY <1>1, PeerFacts
    <3> QED
      BY <1>3, <3>1, RequestingIs
  <2>2. Goto(p, th)
    BY <1>1
  <2> HIDE DEF th
  <2>3. Sound(grown, th, requested, top)
    BY <1>1, <2>1
  <2> QED
    BY <1>1, <2>1, <2>2, <2>3, OnlyReader
<1> QED
  BY <1>2, <1>4, <1>5, <1>6 DEF Good

\* A block that arrives, other than the last, is stored with what waited for it.
LEMMA OnBlockStep ==
    ASSUME Good, NEW p \in Peer, OnBlock(p)
    PROVE  Good'
<1> DEFINE b == Head(inbox[p]).blocks[1]
           at == IF b > top + 1 THEN "orphan" ELSE "tail"
<1>1. /\ hdr' = hdr /\ UNCHANGED <<peers, closed>> /\ UNCHANGED peerVars /\ grown' = grown
      /\ pending' = pending
      /\ requested' = [requested EXCEPT ![p] = @ \ {b}]
      /\ stalled' = [stalled EXCEPT ![p] = @ \ {b}]
      /\ top' = TopAfter(b)
      /\ orphans' = (IF b > top + 1 THEN orphans \cup {b} ELSE orphans) \ 1..top'
      /\ inbox[p] # <<>> /\ Head(inbox[p]).type = "block"
      /\ inbox' = [inbox EXCEPT ![p] = Tail(@)]
      /\ Goto(p, [Idle EXCEPT !.at = at])
  BY DEF OnBlock, Received, Unstalled, linkVars, peerVars
<1>2. /\ Heights /\ grown \in 1..Top /\ Top \in Nat /\ grown \in Nat /\ top \in 0..grown
      /\ hdr \in 0..grown /\ orphans \in SUBSET (1..grown)
  BY SyncAssumption DEF Good, Heights, Block
<1> DEFINE q == inbox[p]
           S == requested[p]
           S2 == requested[p] \ {b}
<1>3. /\ q \in Seq(Message(grown)) /\ q # <<>> /\ Formed(grown, q) /\ Ordered(grown, q, top)
      /\ Covers(grown, q, S, top) /\ requested \in [Peer -> SUBSET (1..grown)] /\ S \in SUBSET (1..grown)
  BY <1>1, PeerFacts
<1>4. Arrives(q, 1, b) /\ 1 \in 1..Len(q) /\ b \in 1..grown
  <2>1. Head(q) = q[1] /\ 1 \in 1..Len(q) /\ Head(q) \in Message(grown)
    BY <1>3
  <2>2. Head(q).blocks \in Seq(1..grown) /\ Len(Head(q).blocks) = 1
    BY <1>1, <1>3, <2>1 DEF Message, Formed
  <2> DEFINE bs == Head(q).blocks
  <2>3. bs \in Seq(1..grown) /\ Len(bs) = 1
    BY <2>2
  <2>4. bs[1] \in 1..grown
    <3> HIDE DEF bs
    <3>1. 1 \in 1..Len(bs)
      BY <2>3
    <3> QED
      BY <2>3, <3>1, ElementOfSeq
  <2> QED
    BY <1>1, <2>1, <2>4 DEF Arrives
<1>5. \A c : Arrives(q, 1, c) => c = b
  BY <1>4 DEF Arrives
<1>6. S2 \in SUBSET S /\ S \ S2 \subseteq {b}
  OBVIOUS
<1>7. b = grown \/ b - 1 <= top
  <2>1. ASSUME b # grown, ~(b - 1 <= top) PROVE FALSE
    <3>1. b \in 1..(grown - 1)
      BY <1>2, <1>4, <2>1
    <3>2. \E j \in 1..(1 - 1) : Arrives(q, j, b - 1)
      BY <1>3, <1>4, <2>1, <3>1 DEF Ordered
    <3> QED
      BY <3>2
  <2> QED
    BY <2>1
<1> HIDE DEF b, q, S, S2
<1>8. top' \in 0..grown /\ top <= top' /\ (b = grown \/ b <= top')
  <2>1. CASE b = top + 1
    <3>1. b \in 0..Top /\ orphans \in SUBSET (1..Top)
      BY <1>2, <1>4
    <3>2. top' = RunEnd(b, orphans)
      BY <1>1, <2>1 DEF TopAfter
    <3>3. RunEnd(b, orphans) \in b..Top /\ (RunEnd(b, orphans) = b \/ RunEnd(b, orphans) \in orphans)
      BY <3>1, RunEndIs
    <3> QED
      BY <1>2, <1>4, <2>1, <3>2, <3>3
  <2>2. CASE b # top + 1
    <3>1. top' = top
      BY <1>1, <2>2 DEF TopAfter
    <3> QED
      BY <1>2, <1>4, <1>7, <2>2, <3>1
  <2> QED
    BY <2>1, <2>2
<1>9. Heights'
  <2>1. orphans' \in SUBSET (1..grown)
    BY <1>1, <1>2, <1>4
  <2> QED
    BY <1>1, <1>2, <1>8, <2>1 DEF Heights, Entire, peerVars
<1>10. Links'
  <2>1. stalled' = stalled
    BY <1>1 DEF Good, Links
  <2> QED
    BY <1>1, <2>1, LinksSame
<1>11. HeaderTip <= HeaderTip' /\ HeaderTip \in Nat /\ HeaderTip' \in Nat
  <2>1. hdr' \in 0..grown /\ hdr' \in Int /\ top' \in Int /\ hdr \in Int /\ top \in Int
    BY <1>1, <1>2, <1>8
  <2>2. HeaderTip' \in {hdr', top'} /\ hdr' <= HeaderTip' /\ top' <= HeaderTip'
    BY <2>1, MaxOfTwo DEF HeaderTip
  <2>3. HeaderTip \in {hdr, top}
    BY <2>1, MaxOfTwo DEF HeaderTip
  <2> QED
    BY <1>1, <1>2, <1>8, <2>2, <2>3
<1>12. requested'[p] = S2 /\ \A x \in Peer \ {p} : requested'[x] = requested[x]
  BY <1>1, <1>3 DEF S2
<1>13. \A x \in Peer : \A c \in requested[x] \ requested'[x] : c = grown \/ c <= top'
  BY <1>6, <1>8, <1>12 DEF S
<1>14. Queues'
  <2>1. requested' \in [Peer -> SUBSET (1..grown)]
    BY <1>1, <1>3
  <2>2. ASSUME NEW x \in Peer, NEW c \in requested'[x] PROVE Ready(grown, c, requested'[x], top')
    <3>1. c \in requested[x] /\ requested[x] \in SUBSET (1..grown) /\ c \in 1..grown
      BY <1>3, <1>6, <1>12, <2>1, <2>2 DEF S
    <3>2. Ready(grown, c, requested[x], top)
      BY <3>1 DEF Good, Queues
    <3>3. \A d \in requested[x] \ requested'[x] : d = grown \/ d <= top'
      BY <1>13
    <3>4. top \in Nat /\ top' \in Nat
      BY <1>2, <1>8
    <3> QED
      BY <1>2, <1>8, <3>1, <3>2, <3>3, <3>4, ReadyStays
  <2>3. ASSUME NEW x \in Peer, NEW i \in 1..Len(pending[x])
        PROVE  pending[x][i] = grown \/ pending[x][i] <= HeaderTip'
    <3>1. pending[x][i] = grown \/ pending[x][i] <= HeaderTip
      BY DEF Good, Queues
    <3>2. pending[x] \in Seq(1..grown)
      BY DEF Good, Queues
    <3>3. pending[x][i] \in 1..grown
      BY <3>2, ElementOfSeq
    <3> QED
      BY <1>2, <1>11, <3>1, <3>3
  <2>4. pending' \in [Peer -> Seq(1..grown)]
    BY <1>1 DEF Good, Queues
  <2> QED
    BY <1>1, <2>1, <2>2, <2>3, <2>4 DEF Queues
<1>15. Mail'
  <2> DEFINE r == Tail(q)
  <2>1. \A c \in 1..(grown - 1) : Arrives(q, 1, c) => c <= top'
    BY <1>2, <1>5, <1>8
  <2>2. top \in Nat /\ top' \in Nat
    BY <1>2, <1>8
  <2>3. /\ r \in Seq(Message(grown)) /\ Formed(grown, r)
        /\ Ordered(grown, r, top') /\ Covers(grown, r, S2, top')
    BY <1>2, <1>3, <1>6, <1>8, <2>1, <2>2, ReadFirst
  <2>4. inbox' = [inbox EXCEPT ![p] = r]
    BY <1>1 DEF q
  <2> HIDE DEF r
  <2> QED
    BY <1>1, <1>8, <1>12, <2>2, <2>3, <2>4, MailStep
<1>16. Readers'
  <2> DEFINE th == [Idle EXCEPT !.at = at]
  <2>1. th \in Place(grown) /\ Sound(grown, th, requested', top')
    <3>1. at \in {"idle", "gone", "queue", "more", "tail", "orphan"}
      OBVIOUS
    <3> HIDE DEF at
    <3> QED
      BY <1>2, <3>1, ElsewhereIs
  <2>2. thread' = [thread EXCEPT ![p] = th] /\ top' \in Nat
    BY <1>1, <1>8 DEF Goto
  <2> HIDE DEF th
  <2> QED
    BY <1>1, <1>8, <1>13, <2>1, <2>2, ReaderStep
<1> QED
  BY <1>9, <1>10, <1>14, <1>15, <1>16 DEF Good

LEMMA ConnectStep ==
    ASSUME Good, NEW p \in Peer, Connect(p)
    PROVE  Good'
<1> DEFINE r == IF served[p] > top THEN HeadersFrom(p) ELSE <<>>
<1>1. /\ UNCHANGED <<chainVars, peerVars>> /\ closed' = closed /\ grown' = grown /\ top' = top
      /\ \A t \in Peer : p \notin ToSet(thread[t].todo)
      /\ peers' = Append(peers, p)
      /\ inbox' = [inbox EXCEPT ![p] = r]
      /\ pending' = [pending EXCEPT ![p] = <<>>]
      /\ requested' = [requested EXCEPT ![p] = {}] /\ stalled' = [stalled EXCEPT ![p] = {}]
      /\ thread' = [thread EXCEPT ![p] = Idle]
  BY DEF Connect, Goto, chainVars, peerVars
<1>2. Heights' /\ HeaderTip' = HeaderTip
  BY <1>1, ChainSame
<1>3. Links'
  <2>1. peers \in Seq(Peer) /\ closed = {} /\ stalled = [x \in Peer |-> {}]
    BY DEF Good, Links
  <2>2. peers' \in Seq(Peer)
    BY <1>1, <2>1
  <2>3. stalled' = [x \in Peer |-> {}]
    BY <1>1, <2>1
  <2> QED
    BY <1>1, <2>1, <2>2, <2>3 DEF Links
<1>4. grown \in Nat /\ top \in Nat /\ requested \in [Peer -> SUBSET (1..grown)]
      /\ pending \in [Peer -> Seq(1..grown)] /\ thread \in [Peer -> Place(grown)] /\ Heights
  BY PeerFacts
<1>5. Queues'
  <2>1. /\ requested' \in [Peer -> SUBSET (1..grown)] /\ requested'[p] = {}
        /\ \A x \in Peer \ {p} : requested'[x] = requested[x]
    BY <1>1, <1>4
  <2>2. /\ pending' \in [Peer -> Seq(1..grown)] /\ pending'[p] = <<>>
        /\ \A x \in Peer \ {p} : pending'[x] = pending[x]
    BY <1>1, <1>4
  <2>3. ASSUME NEW x \in Peer, NEW i \in 1..Len(pending'[x])
        PROVE  pending'[x][i] = grown \/ pending'[x][i] <= HeaderTip
    <3>1. x # p
      BY <2>2
    <3> QED
      BY <2>2, <3>1 DEF Good, Queues
  <2>4. ASSUME NEW x \in Peer, NEW b \in requested'[x] PROVE Ready(grown, b, requested'[x], top)
    <3>1. x # p
      BY <2>1
    <3>2. requested'[x] = requested[x] /\ b \in requested[x]
      BY <2>1, <3>1
    <3> QED
      BY <3>2 DEF Good, Queues
  <2> QED
    BY <1>1, <1>2, <2>1, <2>2, <2>3, <2>4 DEF Queues
<1>6. Mail'
  <2>1. r \in Seq(Message(grown)) /\ Formed(grown, r) /\ \A i \in 1..Len(r) : r[i].type # "block"
    <3>1. <<>> \in Seq(Message(grown)) /\ Formed(grown, <<>>) /\ \A i \in 1..Len(<<>>) : <<>>[i].type # "block"
      BY DEF Formed
    <3>2. r = <<>> \/ r = HeadersFrom(p)
      OBVIOUS
    <3> HIDE DEF r
    <3> QED
      BY <1>4, <3>1, <3>2, HeadersFromIs
  <2> HIDE DEF r
  <2>2. Ordered(grown, r, top') /\ Covers(grown, r, requested'[p], top')
    BY <1>1, <1>4, <2>1 DEF Ordered, Covers, Arrives
  <2>3. top' \in Nat /\ top <= top' /\ \A x \in Peer \ {p} : requested'[x] = requested[x]
    BY <1>1, <1>4
  <2> QED
    BY <1>1, <2>1, <2>2, <2>3, MailStep
<1>7. Readers'
  <2>1. thread' \in [Peer -> Place(grown)]
    <3>1. Idle \in Place(grown)
      BY <1>4, ElsewhereIs
    <3> QED
      BY <1>1, <1>4, <3>1
  <2>2. ASSUME NEW t \in Peer PROVE Sound(grown, thread'[t], requested', top)
    <3>1. CASE t = p
      <4>1. thread'[t] = Idle /\ Idle.at = "idle"
        BY <1>1, <1>4, <3>1 DEF Idle
      <4> QED
        BY <4>1 DEF Sound
    <3>2. CASE t # p
      <4>1. thread'[t] = thread[t] /\ thread[t] \in Place(grown) /\ Sound(grown, thread[t], requested, top)
        BY <1>1, <1>4, <3>2 DEF Good, Readers
      <4> DEFINE th == thread[t]
      <4>2. th.todo \in Seq(Peer) /\ p \notin ToSet(th.todo)
        BY <1>1, <4>1 DEF Place
      <4>3. Sound(grown, th, requested, top)
        BY <4>1
      <4> HIDE DEF th
      <4>4. Sound(grown, th, requested', top)
        <5>1. CASE th.at \notin {"request", "pop"}
          BY <5>1 DEF Sound
        <5>2. CASE th.at \in {"request", "pop"}
          <6>1. th.todo # <<>>
            BY <4>3, <5>2 DEF Sound
          <6>2. Head(th.todo) \in Peer /\ Head(th.todo) # p
            BY <4>2, <6>1 DEF ToSet
          <6>3. requested'[Head(th.todo)] = requested[Head(th.todo)]
            BY <1>1, <1>4, <6>2
          <6> QED
            BY <4>3, <6>3 DEF Sound
        <5> QED
          BY <5>1, <5>2
      <4> QED
        BY <4>1, <4>4 DEF th
    <3> QED
      BY <3>1, <3>2
  <2> QED
    BY <1>1, <2>1, <2>2 DEF Readers
<1> QED
  BY <1>2, <1>3, <1>5, <1>6, <1>7 DEF Good

LEMMA AnnounceStep ==
    ASSUME Good, NEW p \in Peer, Announce(p)
    PROVE  Good'
<1> DEFINE m == Msg("inv", <<grown>>)
<1>1. /\ UNCHANGED chainVars /\ UNCHANGED <<peers, closed, stalled>> /\ kept' = kept /\ grown' = grown
      /\ top' = top /\ requested' = requested /\ pending' = pending /\ thread' = thread
      /\ hdr' = hdr /\ orphans' = orphans
      /\ served[p] < grown /\ served' = [served EXCEPT ![p] = @ + 1]
      /\ inbox' = inbox \/ inbox' = [inbox EXCEPT ![p] = Append(@, Msg("inv", <<served'[p]>>))]
  BY DEF Announce, chainVars, linkVars, queueVars
<1>2. Heights /\ grown \in 1..Top /\ Top \in Nat
  BY SyncAssumption DEF Good, Heights, Block
<1>3. /\ served \in [Peer -> 0..Top] /\ \A x \in Peer : served[x] \in {grown - 1, grown}
      /\ \A x \in Peer : kept[x] <= 1
  BY <1>2 DEF Heights, Entire
<1>4. served'[p] = grown /\ \A x \in Peer \ {p} : served'[x] = served[x]
  BY <1>1, <1>2, <1>3
<1>5. Heights' /\ HeaderTip' = HeaderTip
  <2>1. served' \in [Peer -> 0..Top]
    <3>1. served[p] + 1 = grown /\ grown \in 0..Top
      BY <1>1, <1>2, <1>3, <1>4
    <3> QED
      BY <1>1, <1>3, <3>1
  <2>2. \A x \in Peer : served'[x] \in {grown - 1, grown}
    BY <1>3, <1>4
  <2>3. Entire'
    BY <1>1, <1>3, <2>2 DEF Entire
  <2>4. Heights'
    BY <1>1, <1>2, <2>1, <2>3 DEF Heights
  <2> QED
    BY <1>1, <2>4 DEF HeaderTip
<1>6. Links' /\ Queues' /\ Readers'
  BY <1>1, <1>5, LinksSame, QueuesSame, ReadersSame
<1>7. Mail'
  <2>1. CASE inbox' = inbox
    BY <1>1, <2>1, MailSame
  <2>2. CASE inbox' = [inbox EXCEPT ![p] = Append(@, Msg("inv", <<served'[p]>>))]
    <3>1. inbox' = [inbox EXCEPT ![p] = Append(inbox[p], m)]
      BY <1>4, <2>2
    <3>2. m \in Message(grown) /\ m.type = "inv" /\ m.blocks = <<grown>>
      BY <1>2 DEF Msg, Message
    <3> HIDE DEF m
    <3> DEFINE r == <<m>>
               q == inbox[p]
    <3>3. q \in Seq(Message(grown))
      BY PeerFacts
    <3> HIDE DEF q
    <3>4. Append(q, m) = q \o r
      BY <3>2, <3>3, AppendIsConcat
    <3>5. inbox' = [inbox EXCEPT ![p] = @ \o r]
      BY <3>1, <3>4 DEF q
    <3>6. r \in Seq(Message(grown)) /\ Len(r) = 1 /\ r[1] = m
      BY <1>2, <3>2, OneMessage
    <3> HIDE DEF r
    <3>7. Len(m.blocks) = 1 /\ m.blocks[1] = grown
      BY <3>2
    <3>8. Formed(grown, r) /\ \A i \in 1..Len(r) : r[i].type # "block"
      BY <3>2, <3>6, <3>7 DEF Formed
    <3> QED
      BY <1>1, <3>5, <3>6, <3>8, OtherSent
  <2> QED
    BY <1>1, <2>1, <2>2
<1> QED
  BY <1>5, <1>6, <1>7 DEF Good

LEMMA PeekStep ==
    ASSUME Good, NEW p \in Peer, Peek(p)
    PROVE  Good'
<1> DEFINE t == thread[p]
           q == Head(t.todo)
           b == Head(pending[q])
           th == [t EXCEPT !.at = "pop", !.head = b]
<1>1. /\ UNCHANGED <<chainVars, peerVars>> /\ UNCHANGED <<peers, closed, stalled>>
      /\ requested' = requested /\ pending' = pending /\ inbox' = inbox
      /\ grown' = grown /\ top' = top
      /\ t.at = "request" /\ HasNext(q, t.queued) /\ Goto(p, th)
  BY DEF Peek, chainVars, linkVars, queueVars, peerVars
<1>2. Heights' /\ HeaderTip' = HeaderTip /\ Links'
  BY <1>1, ChainSame, LinksSame
<1>3. Queues' /\ Mail'
  BY <1>1, <1>2, QueuesSame, MailSame
<1>4. /\ grown \in Nat /\ top \in Nat /\ t \in Place(grown) /\ Sound(grown, t, requested, top)
  BY PeerFacts
<1>5. t.todo \in Seq(Peer) /\ t.todo # <<>>
  BY <1>1, <1>4 DEF Place, Sound
<1> HIDE DEF t
<1>6. q \in Peer
  BY <1>5
<1> HIDE DEF q
<1>7. b \in 1..grown /\ (b = grown \/ b <= HeaderTip)
  <2>1. pending[q] \in Seq(1..grown) /\ pending[q] # <<>>
    BY <1>1, <1>6, PeerFacts DEF HasNext
  <2>2. b = pending[q][1] /\ 1 \in 1..Len(pending[q])
    BY <2>1
  <2>3. b \in 1..grown
    <3> DEFINE old == pending[q]
    <3>1. old \in Seq(1..grown) /\ old # <<>>
      BY <2>1
    <3> HIDE DEF old
    <3>2. Head(old) \in 1..grown
      BY <3>1, HeadTailProperties
    <3> QED
      BY <3>2 DEF old
  <2>4. pending[q][1] = grown \/ pending[q][1] <= HeaderTip
    BY <1>6, <2>2 DEF Good, Queues
  <2> HIDE DEF b
  <2> QED
    BY <2>2, <2>3, <2>4
<1>8. Ready(grown, b, t.queued, top)
  <2>1. MayRequest(t.queued, b)
    BY <1>1 DEF HasNext
  <2> HIDE DEF b
  <2> QED
    BY <1>7, <2>1 DEF MayRequest, ParentKnown, Ready
<1> HIDE DEF b
<1>9. /\ th \in Place(grown) /\ th.at = "pop" /\ th.head = b /\ th.todo = t.todo
      /\ th.queued = t.queued /\ th.batch = t.batch
  <2>1. b \in 0..grown
    BY <1>4, <1>7
  <2> QED
    BY <1>4, <2>1 DEF Place
<1> HIDE DEF th
<1>10. Sound(grown, th, requested, top)
  <2>1. /\ \A k \in 1..Len(t.batch) :
             Ready(grown, t.batch[k], requested[Head(t.todo)] \cup {t.batch[j] : j \in 1..(k - 1)}, top)
        /\ \A c \in t.queued : c = grown \/ c <= top \/ c \in requested[Head(t.todo)]
                               \/ \E k \in 1..Len(t.batch) : t.batch[k] = c
    BY <1>1, <1>4 DEF Sound
  <2>2. th.head \in 1..grown /\ Ready(grown, th.head, th.queued, top)
    BY <1>7, <1>8, <1>9
  <2>3. /\ \A k \in 1..Len(th.batch) :
             Ready(grown, th.batch[k], requested[Head(th.todo)] \cup {th.batch[j] : j \in 1..(k - 1)}, top)
        /\ \A c \in th.queued : c = grown \/ c <= top \/ c \in requested[Head(th.todo)]
                               \/ \E k \in 1..Len(th.batch) : th.batch[k] = c
    <3>1. \A k : {th.batch[j] : j \in 1..(k - 1)} = {t.batch[j] : j \in 1..(k - 1)}
      BY <1>9
    <3>2. \A k \in 1..Len(th.batch) :
            Ready(grown, th.batch[k], requested[Head(th.todo)] \cup {th.batch[j] : j \in 1..(k - 1)}, top)
      BY <1>9, <2>1, <3>1
    <3> QED
      BY <1>9, <2>1, <3>2
  <2> QED
    BY <1>5, <1>9, <2>2, <2>3 DEF Sound
<1>11. Readers'
  BY <1>1, <1>9, <1>10, OnlyReader
<1> QED
  BY <1>2, <1>3, <1>11 DEF Good

\* The block that leaves the queue is the one that was peeked at.
LEMMA PopStep ==
    ASSUME Good, NEW p \in Peer, Pop(p), disturbed' = {}
    PROVE  Good'
<1> DEFINE t == thread[p]
           q == Head(t.todo)
           b == t.head
           batch == IF b > top THEN Append(t.batch, b) ELSE t.batch
           queued == IF b > top THEN t.queued \cup {b} ELSE t.queued
           th == [t EXCEPT !.at = "request", !.batch = batch, !.queued = queued]
<1>1. /\ UNCHANGED <<chainVars, peerVars>> /\ UNCHANGED <<peers, closed, stalled>>
      /\ requested' = requested /\ inbox' = inbox
      /\ grown' = grown /\ top' = top
      /\ t.at = "pop" /\ pending[q] # <<>> /\ Head(pending[q]) = b
      /\ pending' = [pending EXCEPT ![q] = Tail(@)]
      /\ Goto(p, th)
  <2>1. t.at = "pop" /\ pending[q] # <<>> /\ Head(pending[q]) = b
    BY DEF Pop
  <2> QED
    BY <2>1 DEF Pop, chainVars, peerVars
<1>2. Heights' /\ HeaderTip' = HeaderTip /\ Links'
  BY <1>1, ChainSame, LinksSame
<1>3. Mail'
  BY <1>1, MailSame
<1>4. /\ grown \in Nat /\ top \in Nat /\ t \in Place(grown) /\ Sound(grown, t, requested, top)
  BY PeerFacts
<1>5. /\ t.todo \in Seq(Peer) /\ t.todo # <<>> /\ t.batch \in Seq(1..grown)
      /\ t.queued \in SUBSET (1..grown) /\ b \in 1..grown /\ Ready(grown, b, t.queued, top)
  BY <1>1, <1>4 DEF Place, Sound
<1> HIDE DEF t
<1>6. q \in Peer
  BY <1>5
<1> HIDE DEF q, b
<1>7. Queues'
  <2>1. /\ pending \in [Peer -> Seq(1..grown)] /\ requested \in [Peer -> SUBSET (1..grown)]
        /\ \A x \in Peer : \A c \in requested[x] : Ready(grown, c, requested[x], top)
        /\ \A x \in Peer : \A i \in 1..Len(pending[x]) : pending[x][i] = grown \/ pending[x][i] <= HeaderTip
    BY DEF Good, Queues
  <2> DEFINE old == pending[q]
             new == Tail(old)
  <2>2. old \in Seq(1..grown) /\ old # <<>> /\ pending' = [pending EXCEPT ![q] = new]
        /\ \A i \in 1..Len(old) : old[i] = grown \/ old[i] <= HeaderTip
    BY <1>1, <1>6, <2>1
  <2> HIDE DEF old
  <2>3. new \in Seq(1..grown) /\ \A i \in 1..Len(new) : i + 1 \in 1..Len(old) /\ new[i] = old[i + 1]
    BY <2>2
  <2>4. \A i \in 1..Len(new) : new[i] = grown \/ new[i] <= HeaderTip
    BY <2>2, <2>3
  <2> HIDE DEF new
  <2>5. pending' \in [Peer -> Seq(1..grown)]
    BY <2>1, <2>2, <2>3
  <2>6. ASSUME NEW x \in Peer, NEW i \in 1..Len(pending'[x])
        PROVE  pending'[x][i] = grown \/ pending'[x][i] <= HeaderTip
    <3>1. CASE x = q
      <4>1. pending'[x] = new
        BY <2>1, <2>2, <3>1
      <4> QED
        BY <2>4, <4>1
    <3>2. CASE x # q
      <4>1. pending'[x] = pending[x]
        BY <2>1, <2>2, <3>2
      <4> QED
        BY <2>1, <4>1
    <3> QED
      BY <3>1, <3>2
  <2> QED
    BY <1>1, <1>2, <2>1, <2>5, <2>6 DEF Queues
<1>8. batch \in Seq(1..grown) /\ queued \in SUBSET (1..grown)
  <2> DEFINE s == t.batch
             u == t.queued
  <2>1. s \in Seq(1..grown) /\ u \in SUBSET (1..grown)
    BY <1>5
  <2> HIDE DEF s, u
  <2>2. Append(s, b) \in Seq(1..grown)
    <3>1. b \in 1..grown
      BY <1>5
    <3> QED
      BY <2>1, <3>1, AppendProperties
  <2>3. u \cup {b} \in SUBSET (1..grown)
    BY <1>5, <2>1
  <2> QED
    BY <2>1, <2>2, <2>3 DEF s, u
<1>9. Sound(grown, th, requested, top) /\ th \in Place(grown)
  <2>1. /\ th \in Place(grown) /\ th.at = "request" /\ th.todo = t.todo
        /\ th.queued = queued /\ th.batch = batch
    <3> HIDE DEF batch, queued
    <3> QED
      BY <1>4, <1>8 DEF Place
  <2> HIDE DEF th
  <2> DEFINE Earlier(s, k) == {s[j] : j \in 1..(k - 1)}
  <2>2. /\ Len(batch) \in Nat /\ Len(t.batch) \in Nat /\ Len(t.batch) <= Len(batch)
        /\ \A j \in 1..Len(t.batch) : batch[j] = t.batch[j]
        /\ \A k \in 1..Len(batch) : k \in 1..Len(t.batch) \/ (b > top /\ k = Len(t.batch) + 1 /\ batch[k] = b)
        /\ b > top => Len(t.batch) + 1 \in 1..Len(batch) /\ batch[Len(t.batch) + 1] = b
    <3>1. CASE b > top
      <4> DEFINE s == t.batch
      <4>1. s \in Seq(1..grown) /\ batch = Append(s, b)
        BY <1>5, <3>1
      <4> HIDE DEF s, batch
      <4>2. /\ Len(batch) = Len(s) + 1 /\ Len(s) \in Nat
            /\ \A i \in 1..Len(s) : batch[i] = s[i]
            /\ batch[Len(s) + 1] = b
        BY <1>5, <4>1, AppendProperties
      <4>3. \A k \in 1..Len(batch) : k \in 1..Len(s) \/ (k = Len(s) + 1 /\ batch[k] = b)
        BY <4>2
      <4>4. Len(s) + 1 \in 1..Len(batch) /\ Len(batch) \in Nat /\ Len(s) <= Len(batch)
        BY <4>2
      <4> QED
        BY <3>1, <4>2, <4>3, <4>4 DEF s
    <3>2. CASE ~(b > top)
      <4>1. batch = t.batch
        BY <3>2
      <4> HIDE DEF batch
      <4>2. Len(t.batch) \in Nat
        BY <1>5
      <4> QED
        BY <3>2, <4>1, <4>2
    <3> QED
      BY <3>1, <3>2
  <2>3. /\ \A k \in 1..Len(t.batch) :
             Ready(grown, t.batch[k], requested[q] \cup Earlier(t.batch, k), top)
        /\ \A c \in t.queued : c = grown \/ c <= top \/ c \in requested[q]
                               \/ \E k \in 1..Len(t.batch) : t.batch[k] = c
    BY <1>1, <1>4 DEF Sound, q
  <2> HIDE DEF batch
  <2> HIDE DEF queued
  <2>4. ASSUME NEW k \in 1..Len(batch)
        PROVE  Ready(grown, batch[k], requested[q] \cup Earlier(batch, k), top)
    <3>1. CASE k \in 1..Len(t.batch)
      <4>1. Earlier(batch, k) = Earlier(t.batch, k)
        <5>1. \A j \in 1..(k - 1) : batch[j] = t.batch[j]
          BY <2>2, <3>1
        <5> QED
          BY <5>1
      <4> QED
        BY <2>2, <2>3, <3>1, <4>1
    <3>2. CASE k = Len(t.batch) + 1 /\ batch[k] = b
      <4> SUFFICES ASSUME b # grown, ~(b - 1 <= top)
                   PROVE  b - 1 \in requested[q] \cup Earlier(batch, k)
        BY <3>2 DEF Ready
      <4>1. b - 1 \in t.queued
        BY <1>5 DEF Ready
      <4>2. b - 1 # grown
        BY <1>4, <1>5
      <4>3. CASE b - 1 \in requested[q]
        BY <4>3
      <4>4. CASE \E j \in 1..Len(t.batch) : t.batch[j] = b - 1
        <5>1. PICK j \in 1..Len(t.batch) : t.batch[j] = b - 1
          BY <4>4
        <5>2. j \in 1..(k - 1) /\ batch[j] = b - 1
          BY <2>2, <3>2, <5>1
        <5> QED
          BY <5>2
      <4> QED
        BY <2>3, <4>1, <4>2, <4>3, <4>4
    <3> QED
      BY <2>2, <3>1, <3>2
  <2>5. ASSUME NEW c \in queued
        PROVE  c = grown \/ c <= top \/ c \in requested[q] \/ \E k \in 1..Len(batch) : batch[k] = c
    <3>1. CASE c \in t.queued
      <4>1. CASE \E k \in 1..Len(t.batch) : t.batch[k] = c
        <5>1. PICK k \in 1..Len(t.batch) : t.batch[k] = c
          BY <4>1
        <5>2. k \in 1..Len(batch) /\ batch[k] = c
          BY <2>2, <5>1
        <5> QED
          BY <5>2
      <4> QED
        BY <2>3, <3>1, <4>1
    <3>2. CASE c \notin t.queued
      <4>1. c = b /\ b > top
        BY <3>2 DEF queued
      <4> QED
        BY <2>2, <4>1
    <3> QED
      BY <3>1, <3>2
  <2>6. /\ \A k \in 1..Len(th.batch) :
             Ready(grown, th.batch[k], requested[Head(th.todo)] \cup {th.batch[j] : j \in 1..(k - 1)}, top)
        /\ \A c \in th.queued : c = grown \/ c <= top \/ c \in requested[Head(th.todo)]
                               \/ \E k \in 1..Len(th.batch) : th.batch[k] = c
    <3>1. \A k : {th.batch[j] : j \in 1..(k - 1)} = Earlier(batch, k)
      BY <2>1
    <3>2. Head(th.todo) = q
      BY <2>1 DEF q
    <3> HIDE DEF Earlier
    <3>3. \A k \in 1..Len(th.batch) :
            Ready(grown, th.batch[k], requested[Head(th.todo)] \cup {th.batch[j] : j \in 1..(k - 1)}, top)
      BY <2>1, <2>4, <3>1, <3>2
    <3> QED
      BY <2>1, <2>5, <3>2, <3>3
  <2> QED
    BY <1>5, <2>1, <2>6 DEF Sound
<1>10. Readers'
  <2> HIDE DEF th
  <2> QED
    BY <1>1, <1>9, OnlyReader
<1> QED
  BY <1>2, <1>3, <1>7, <1>10 DEF Good

\* A batch goes out to a peer that is there.
LEMMA SendBatchStep ==
    ASSUME Good, NEW p \in Peer, SendBatch(p), disturbed' = {}
    PROVE  Good'
<1> DEFINE t == thread[p]
           q == Head(t.todo)
           bs == t.batch
           S == requested[q]
           T == {bs[k] : k \in 1..Len(bs)}
           todo == Tail(t.todo)
           r == BlocksFrom(q, bs)
<1>1. /\ UNCHANGED <<chainVars, peerVars>> /\ UNCHANGED <<peers, closed, stalled>>
      /\ pending' = pending /\ grown' = grown /\ top' = top
      /\ t.at = "request" /\ Goto(p, Requesting(todo, t.then))
      /\ \/ requested' = requested /\ inbox' = inbox
         \/ /\ requested' = [requested EXCEPT ![q] = @ \cup ToSet(bs)]
            /\ inbox' = [inbox EXCEPT ![q] = @ \o r]
  <2>1. ~(t.batch # <<>> /\ Gone(q))
    BY DEF SendBatch
  <2>2. Goto(p, Requesting(todo, t.then)) /\ closed' = closed
    BY <2>1 DEF SendBatch
  <2>3. \/ requested' = requested /\ inbox' = inbox
        \/ /\ requested' = [requested EXCEPT ![q] = @ \cup ToSet(bs)]
           /\ inbox' = [inbox EXCEPT ![q] = @ \o r]
    BY <2>1 DEF SendBatch
  <2> QED
    BY <2>2, <2>3 DEF SendBatch, chainVars, peerVars
<1>2. Heights' /\ HeaderTip' = HeaderTip /\ Links'
  BY <1>1, ChainSame, LinksSame
<1>3. /\ grown \in Nat /\ top \in Nat /\ t \in Place(grown) /\ Sound(grown, t, requested, top)
      /\ requested \in [Peer -> SUBSET (1..grown)] /\ Heights
  BY PeerFacts
<1>4. /\ t.todo \in Seq(Peer) /\ t.todo # <<>> /\ bs \in Seq(1..grown)
      /\ t.then \in {"idle", "queue", "more"}
      /\ \A k \in 1..Len(bs) : Ready(grown, bs[k], S \cup {bs[j] : j \in 1..(k - 1)}, top)
  BY <1>1, <1>3 DEF Place, Sound
<1> HIDE DEF t
<1>5. q \in Peer /\ todo \in Seq(Peer)
  BY <1>4
<1> HIDE DEF q, todo, bs
<1>6. /\ T \in SUBSET (1..grown) /\ T = ToSet(bs) /\ Len(bs) \in Nat
      /\ \A k \in 1..Len(bs) : bs[k] \in 1..grown /\ bs[k] \in T
  <2>1. \A k \in 1..Len(bs) : bs[k] \in 1..grown
    BY <1>4, ElementOfSeq
  <2> QED
    BY <1>4, <2>1 DEF ToSet
<1>7. CASE requested' = requested /\ inbox' = inbox
  <2>1. Queues' /\ Mail'
    BY <1>1, <1>2, <1>7, QueuesSame, MailSame
  <2> DEFINE th == Requesting(todo, t.then)
  <2>2. th \in Place(grown) /\ Sound(grown, th, requested', top)
    <3>1. requested' \in [Peer -> SUBSET (1..grown)]
      BY <1>3, <1>7
    <3> QED
      BY <1>3, <1>4, <1>5, <3>1, RequestingIs
  <2>3. Goto(p, th)
    BY <1>1
  <2> HIDE DEF th
  <2>4. Sound(grown, th, requested, top)
    BY <1>7, <2>2
  <2>5. Readers'
    BY <1>1, <1>7, <2>2, <2>3, <2>4, OnlyReader
  <2> QED
    BY <1>2, <2>1, <2>5 DEF Good
<1>8. CASE /\ requested' = [requested EXCEPT ![q] = @ \cup ToSet(bs)]
           /\ inbox' = [inbox EXCEPT ![q] = @ \o r]
  <2>1. /\ requested' \in [Peer -> SUBSET (1..grown)] /\ requested'[q] = S \cup T
        /\ \A x \in Peer \ {q} : requested'[x] = requested[x]
        /\ \A x \in Peer : requested[x] \subseteq requested'[x]
    BY <1>3, <1>5, <1>6, <1>8 DEF S
  <2>2. Queues'
    <3>1. ASSUME NEW x \in Peer, NEW b \in requested'[x] PROVE Ready(grown, b, requested'[x], top)
      <4>1. CASE b \in requested[x]
        <5>1. Ready(grown, b, requested[x], top)
          BY <4>1 DEF Good, Queues
        <5> QED
          BY <2>1, <5>1 DEF Ready
      <4>2. CASE b \notin requested[x]
        <5>1. x = q /\ b \in T
          BY <2>1, <4>2 DEF S
        <5>2. PICK k \in 1..Len(bs) : bs[k] = b
          BY <5>1
        <5>3. Ready(grown, b, S \cup {bs[j] : j \in 1..(k - 1)}, top)
          BY <1>4, <5>2
        <5>4. \A j \in 1..(k - 1) : bs[j] \in T
          BY <1>6
        <5>5. S \cup {bs[j] : j \in 1..(k - 1)} \subseteq requested'[x]
          BY <2>1, <5>1, <5>4
        <5> HIDE DEF S, T
        <5> QED
          BY <5>3, <5>5 DEF Ready
      <4> QED
        BY <4>1, <4>2
    <3> QED
      BY <1>1, <1>2, <2>1, <3>1 DEF Good, Queues
  <2>3. Mail'
    <3> DEFINE w == inbox[q]
    <3>1. /\ w \in Seq(Message(grown)) /\ Formed(grown, w) /\ Ordered(grown, w, top)
          /\ Covers(grown, w, S, top)
      BY <1>5, PeerFacts
    <3>2. inbox' = [inbox EXCEPT ![q] = w \o r]
      BY <1>8
    <3> HIDE DEF w
    <3>3. /\ r \in Seq(Message(grown)) /\ Formed(grown, r) /\ Covers(grown, r, T, top)
          /\ \A i \in 1..Len(r) : \A b \in 1..(grown - 1) :
               Arrives(r, i, b) => \E k \in 1..Len(bs) :
                 /\ bs[k] = b
                 /\ \A j \in 1..(k - 1) : bs[j] # grown =>
                      \E l \in 1..(i - 1) : Arrives(r, l, bs[j])
      BY <1>3, <1>4, <1>5, BlocksFromIs
    <3> HIDE DEF r, T
    <3>4. ASSUME NEW i \in 1..Len(r), NEW b \in 1..(grown - 1), Arrives(r, i, b)
          PROVE  \/ b - 1 <= top
                 \/ \E j \in 1..Len(w) : Arrives(w, j, b - 1)
                 \/ \E j \in 1..(i - 1) : Arrives(r, j, b - 1)
      <4>1. PICK k \in 1..Len(bs) :
              /\ bs[k] = b
              /\ \A j \in 1..(k - 1) : bs[j] # grown => \E l \in 1..(i - 1) : Arrives(r, l, bs[j])
        BY <3>3, <3>4
      <4>2. b # grown /\ b - 1 # grown
        BY <1>3
      <4>3. b - 1 <= top \/ b - 1 \in S \cup {bs[j] : j \in 1..(k - 1)}
        BY <1>4, <4>1, <4>2 DEF Ready
      <4>4. CASE b - 1 \in S
        BY <3>1, <4>2, <4>4 DEF Covers
      <4>5. CASE b - 1 \in {bs[j] : j \in 1..(k - 1)}
        <5>1. PICK j \in 1..(k - 1) : bs[j] = b - 1
          BY <4>5
        <5> QED
          BY <4>1, <4>2, <5>1
      <4> QED
        BY <4>3, <4>4, <4>5
    <3> DEFINE v == w \o r
    <3>5. /\ v \in Seq(Message(grown)) /\ Formed(grown, v)
          /\ Ordered(grown, v, top) /\ Covers(grown, v, S \cup T, top)
      BY <1>3, <3>1, <3>3, <3>4, SendMore
    <3> HIDE DEF v
    <3>6. /\ inbox' = [inbox EXCEPT ![q] = v] /\ top' \in Nat /\ top <= top'
          /\ Ordered(grown, v, top') /\ Covers(grown, v, requested'[q], top')
      BY <1>1, <1>3, <2>1, <3>2, <3>5 DEF v
    <3> QED
      BY <1>1, <1>5, <2>1, <3>5, <3>6, MailStep
  <2>4. Readers'
    <3> DEFINE th == Requesting(todo, t.then)
    <3>1. th \in Place(grown) /\ Sound(grown, th, requested', top)
      BY <1>3, <1>4, <1>5, <2>1, RequestingIs
    <3>2. thread' = [thread EXCEPT ![p] = th]
      BY <1>1 DEF Goto
    <3> HIDE DEF th
    <3>3. /\ top' \in Nat /\ top <= top' /\ Sound(grown, th, requested', top')
          /\ \A x \in Peer : \A c \in requested[x] \ requested'[x] : c = grown \/ c <= top'
      BY <1>1, <1>3, <2>1, <3>1
    <3> QED
      BY <1>1, <3>1, <3>2, <3>3, ReaderStep
  <2> QED
    BY <1>2, <2>2, <2>3, <2>4 DEF Good
<1> QED
  BY <1>1, <1>7, <1>8

\* One of the runs that the missing blocks are cut into.
LEMMA RunIs ==
    ASSUME NEW S, NEW m \in Seq(S), NEW n \in Nat \ {0}, NEW i \in 1..n
    PROVE  Run(m, i, n) \in Seq(S)
<1> DEFINE width == (Len(m) + n - 1) \div n
           lo == (i - 1) * width + 1
           hi == Min({i * width, Len(m)})
<1>1. width \in Nat
  <2>1. Len(m) + n - 1 \in Nat /\ n \in Nat /\ n > 0
    OBVIOUS
  <2> QED
    BY <2>1
<1> HIDE DEF width
<1>2. (i - 1) * width \in Nat /\ i * width \in Nat
  <2>1. i - 1 \in Nat /\ i \in Nat
    OBVIOUS
  <2>2. \A a, b \in Nat : a * b \in Nat
    OBVIOUS
  <2> QED
    BY <1>1, <2>1, <2>2
<1>3. lo \in Nat /\ lo >= 1
  BY <1>2
<1>4. hi \in Int /\ hi <= Len(m)
  <2>1. i * width \in Int /\ Len(m) \in Int
    BY <1>2
  <2> QED
    BY <2>1, MinOfTwo
<1>5. Run(m, i, n) = SubSeq(m, lo, hi)
  BY DEF Run, width
<1> HIDE DEF lo, hi
<1>6. \A k \in lo..hi : m[k] \in S
  <2>1. \A k \in lo..hi : k \in 1..Len(m)
    BY <1>3, <1>4
  <2> QED
    BY <2>1, ElementOfSeq
<1> QED
  BY <1>3, <1>4, <1>5, <1>6, SubSeqProperties

\* The headers to download are known.
LEMMA HeadersToDownloadIs ==
    ASSUME Heights
    PROVE  HeadersToDownload \in Seq(1..HeaderTip)
<1> DEFINE n == Min({HeaderTip - top, HeaderLimit})
<1>1. HeaderTip \in Nat /\ top \in Nat /\ top <= HeaderTip /\ HeaderLimit \in Nat
  BY SyncAssumption, HeaderTipIs DEF Heights
<1>2. n \in Nat /\ n <= HeaderTip - top
  <2>1. HeaderTip - top \in Int /\ HeaderLimit \in Int /\ HeaderTip - top \in Nat
    BY <1>1
  <2>2. n \in {HeaderTip - top, HeaderLimit} /\ n <= HeaderTip - top
    BY <2>1, MinOfTwo
  <2> QED
    BY <1>1, <2>1, <2>2
<1>3. HeadersToDownload = [i \in 1..n |-> HeaderTip - n + i]
  BY DEF HeadersToDownload
<1> HIDE DEF n
<1>4. HeadersToDownload \in [1..n -> 1..HeaderTip]
  BY <1>1, <1>2, <1>3
<1> QED
  BY <1>2, <1>4, FunctionIsSeq

\* Every queue is rebuilt from blocks whose headers are known and from what was
\* queued; while nothing has stalled, what is in flight stays in flight.
LEMMA QueueMissingStep ==
    ASSUME Good, NEW p \in Peer, QueueMissing(p)
    PROVE  Good'
<1> DEFINE G == {b \in 1..grown : b = grown \/ b <= HeaderTip}
           missing == HeadersToDownload
           n == Len(peers)
           inFlight(x) == requested[x] \ stalled[x]
           run(x) == Only(Run(missing, CHOOSE i \in 1..n : peers[i] = x, n), Block \ inFlight(x))
           announced(x) == Only(pending[x] \o SetToSeq(stalled[x]),
                                Block \ (ToSet(missing) \cup inFlight(x)))
<1>1. /\ UNCHANGED <<chainVars, peerVars>> /\ peers' = peers /\ closed' = closed
      /\ inbox' = inbox /\ grown' = grown /\ top' = top
  BY DEF QueueMissing, chainVars, linkVars, peerVars
<1>2. Heights' /\ HeaderTip' = HeaderTip
  BY <1>1, ChainSame
<1>3. /\ grown \in Nat /\ top \in Nat /\ thread[p] \in Place(grown) /\ Heights
      /\ requested \in [Peer -> SUBSET (1..grown)] /\ HeaderTip \in 0..grown
      /\ peers \in Seq(Peer) /\ stalled = [x \in Peer |-> {}]
      /\ thread[p].then \in {"idle", "queue", "more"}
  <2>1. Heights
    BY DEF Good
  <2>2. HeaderTip \in 0..grown
    BY <2>1, HeaderTipIs
  <2>3. thread[p] \in Place(grown)
    BY PeerFacts
  <2>4. thread[p].then \in {"idle", "queue", "more"}
    BY <2>3 DEF Place
  <2> QED
    BY <2>2, <2>3, <2>4, PeerFacts DEF Good, Links
<1>4. CASE missing = <<>>
  <2>1. /\ UNCHANGED <<peers, closed, stalled>> /\ requested' = requested /\ pending' = pending
        /\ Goto(p, [Idle EXCEPT !.at = thread[p].then])
    BY <1>1, <1>4 DEF QueueMissing, queueVars
  <2>2. Links' /\ Queues' /\ Mail'
    BY <1>1, <1>2, <2>1, LinksSame, QueuesSame, MailSame
  <2> DEFINE then == thread[p].then
             th == [Idle EXCEPT !.at = then]
  <2>3. then \in {"idle", "gone", "queue", "more", "tail", "orphan"}
    BY <1>3
  <2>4. Goto(p, th)
    BY <2>1
  <2> HIDE DEF then
  <2>5. th \in Place(grown) /\ Sound(grown, th, requested, top)
    BY <1>3, <2>3, ElsewhereIs
  <2> HIDE DEF th
  <2>6. Readers'
    BY <1>1, <2>1, <2>4, <2>5, OnlyReader
  <2> QED
    BY <1>2, <2>2, <2>6 DEF Good
<1>5. CASE missing # <<>>
  <2>1. /\ requested' = [x \in Peer |-> IF x \in ToSet(peers) THEN inFlight(x) ELSE requested[x]]
        /\ stalled' = [x \in Peer |-> IF x \in ToSet(peers) THEN {} ELSE stalled[x]]
        /\ pending' = [x \in Peer |-> IF x \in ToSet(peers) THEN run(x) \o announced(x) ELSE pending[x]]
        /\ Goto(p, Requesting(peers, thread[p].then))
    BY <1>5 DEF QueueMissing
  <2>2. requested' = requested /\ stalled' = stalled
    BY <1>3, <2>1
  <2>3. Links' /\ Mail'
    BY <1>1, <2>2, LinksSame, MailSame
  <2>4. missing \in Seq(G)
    <3>1. missing \in Seq(1..HeaderTip)
      BY <1>3, HeadersToDownloadIs
    <3>2. 1..HeaderTip \subseteq G
      BY <1>3
    <3> HIDE DEF missing, G
    <3> QED
      BY <3>1, <3>2, SeqOfMore
  <2>5. pending \in [Peer -> Seq(G)]
    <3>1. ASSUME NEW x \in Peer PROVE pending[x] \in Seq(G)
      <4> DEFINE s == pending[x]
      <4>1. s \in Seq(1..grown) /\ \A i \in 1..Len(s) : s[i] = grown \/ s[i] <= HeaderTip
        BY DEF Good, Queues
      <4> HIDE DEF s
      <4>2. \A i \in 1..Len(s) : s[i] \in G
        BY <4>1, ElementOfSeq
      <4> HIDE DEF G
      <4>3. s \in [1..Len(s) -> G] /\ Len(s) \in Nat
        BY <4>1, <4>2
      <4> QED
        BY <4>3, FunctionIsSeq DEF s
    <3>2. pending \in [Peer -> Seq(1..grown)]
      BY PeerFacts
    <3> HIDE DEF G
    <3> QED
      BY <3>1, <3>2
  <2> HIDE DEF G, missing
  <2>6. ASSUME NEW x \in Peer, x \in ToSet(peers) PROVE run(x) \o announced(x) \in Seq(G)
    <3> DEFINE i == CHOOSE i \in 1..n : peers[i] = x
               s == Run(missing, i, n)
    <3>1. n \in Nat \ {0} /\ i \in 1..n
      BY <1>3, <2>6 DEF ToSet
    <3> HIDE DEF i, n
    <3>2. s \in Seq(G)
      BY <2>4, <3>1, RunIs
    <3>3. run(x) = Only(s, Block \ inFlight(x))
      BY DEF i, n
    <3> HIDE DEF s, inFlight, run
    <3>4. run(x) \in Seq(G)
      BY <3>2, <3>3, OnlyIs
    <3> DEFINE u == pending[x] \o SetToSeq(stalled[x])
               X == Block \ (ToSet(missing) \cup inFlight(x))
    <3>5. u \in Seq(G)
      <4>1. stalled[x] = {}
        BY <1>3
      <4>2. SetToSeq({}) \in Seq(G)
        <5> DEFINE F == [1..Cardinality({}) -> {}]
        <5>1. Cardinality({}) = 0
          BY FS_EmptySet
        <5>2. <<>> \in F /\ IsInjective(<<>>)
          BY <5>1 DEF IsInjective
        <5>3. SetToSeq({}) \in F
          BY <5>2 DEF SetToSeq
        <5>4. SetToSeq({}) \in [1..0 -> G]
          BY <5>1, <5>3
        <5> QED
          BY <5>4, FunctionIsSeq
      <4>3. pending[x] \in Seq(G)
        BY <2>5
      <4> QED
        BY <4>1, <4>2, <4>3, ConcatProperties
    <3>6. announced(x) = Only(u, X)
      OBVIOUS
    <3> HIDE DEF u, X, announced
    <3>7. announced(x) \in Seq(G)
      BY <3>5, <3>6, OnlyIs
    <3> QED
      BY <3>4, <3>7, ConcatProperties
  <2> HIDE DEF run, announced
  <2>7. pending' \in [Peer -> Seq(G)]
    BY <2>1, <2>5, <2>6
  <2>8. Queues'
    <3>1. ASSUME NEW x \in Peer, NEW i \in 1..Len(pending'[x]) PROVE pending'[x][i] \in G
      BY <2>7, ElementOfSeq
    <3>2. \A b \in G : b \in 1..grown /\ (b = grown \/ b <= HeaderTip)
      BY DEF G
    <3>3. pending' \in [Peer -> Seq(1..grown)]
      <4>1. G \subseteq 1..grown
        BY <3>2
      <4>2. \A x \in Peer : pending'[x] \in Seq(1..grown)
        BY <2>7, <4>1, SeqOfMore
      <4> QED
        BY <2>7, <4>2
    <3>4. \A x \in Peer : \A i \in 1..Len(pending'[x]) : pending'[x][i] = grown \/ pending'[x][i] <= HeaderTip
      BY <3>1, <3>2
    <3>5. \A x \in Peer : \A b \in requested[x] : Ready(grown, b, requested[x], top)
      BY DEF Good, Queues
    <3> QED
      BY <1>1, <1>2, <1>3, <2>2, <3>3, <3>4, <3>5 DEF Queues
  <2>9. Readers'
    <3> DEFINE then == thread[p].then
               th == Requesting(peers, then)
    <3>1. th \in Place(grown) /\ Sound(grown, th, requested', top)
      <4>1. requested' \in [Peer -> SUBSET (1..grown)]
        BY <1>3, <2>2
      <4>2. then \in {"idle", "queue", "more"}
        BY <1>3
      <4> HIDE DEF then
      <4> QED
        BY <1>3, <4>1, <4>2, RequestingIs
    <3>2. Goto(p, th)
      BY <2>1
    <3> HIDE DEF th
    <3>3. Sound(grown, th, requested, top)
      BY <2>2, <3>1
    <3> QED
      BY <1>1, <2>2, <3>1, <3>2, <3>3, OnlyReader
  <2> QED
    BY <1>2, <2>3, <2>8, <2>9 DEF Good
<1> QED
  BY <1>4, <1>5

-----------------------------------------------------------------------------
(* The theorem.                                                            *)

LEMMA GoodStep ==
    ASSUME Good, [Next]_vars, disturbed' = {}
    PROVE  Good'
<1>1. CASE UNCHANGED vars
  <2>1. /\ UNCHANGED <<chainVars, peerVars>> /\ UNCHANGED <<peers, closed, stalled>>
        /\ requested' = requested /\ pending' = pending /\ inbox' = inbox /\ thread' = thread
        /\ grown' = grown /\ top' = top
    BY <1>1 DEF vars, chainVars, linkVars, queueVars, peerVars
  <2>2. Heights' /\ HeaderTip' = HeaderTip /\ Links'
    BY <2>1, ChainSame, LinksSame
  <2>3. Queues' /\ Mail' /\ Readers'
    BY <2>1, <2>2, QueuesSame, MailSame, ReadersSame
  <2> QED
    BY <2>2, <2>3 DEF Good
<1>2. ASSUME NEW p \in Peer, Handle(p) PROVE Good'
  <2>1. CASE OnHeaders(p) \/ MoreHeaders(p) \/ OnInv(p) \/ OnBlock(p) \/ AfterBlock(p)
    BY <2>1, OnHeadersStep, MoreHeadersStep, OnInvStep, OnBlockStep, AfterBlockStep
  <2>2. CASE QueueMissing(p) \/ Peek(p) \/ Pop(p) \/ SendBatch(p)
    BY <2>2, QueueMissingStep, PeekStep, PopStep, SendBatchStep
  <2>3. ~OnNotFound(p)
    BY DEF OnNotFound
  <2>4. ~Unregister(p)
    BY DEF Unregister, Good, Links
  <2> QED
    BY <1>2, <2>1, <2>2, <2>3, <2>4 DEF Handle
<1>3. ASSUME NEW p \in Peer, Connect(p) \/ Poll(p) \/ Announce(p) PROVE Good'
  BY <1>3, ConnectStep, PollStep, AnnounceStep
<1>4. ASSUME NEW p \in Peer PROVE ~Stall(p) /\ ~Close(p)
  BY DEF Stall, Close
<1> QED
  BY <1>1, <1>2, <1>3, <1>4 DEF Next

\* What has gone wrong is not forgotten.
LEMMA DisturbedGrows ==
    ASSUME [Next]_vars, disturbed' = {}
    PROVE  disturbed = {}
<1> USE DEF chainVars, linkVars, queueVars, peerVars
<1>1. ASSUME NEW p \in Peer, Handle(p) PROVE disturbed = {}
  BY <1>1 DEF Handle, OnHeaders, MoreHeaders, OnInv, OnBlock, AfterBlock, OnNotFound,
              QueueMissing, Peek, Pop, SendBatch, Unregister
<1>2. ASSUME NEW p \in Peer, Connect(p) \/ Poll(p) \/ Stall(p) \/ Close(p) \/ Announce(p)
      PROVE  disturbed = {}
  BY <1>2 DEF Connect, Poll, Stall, Close, Announce
<1> QED
  BY <1>1, <1>2 DEF Next, vars

LEMMA SyncStarts ==
    ASSUME Init, Entire
    PROVE  SyncInv
<1>1. PICK s \in Setting : served = s.served /\ kept = s.kept /\ grown = s.grown
  BY DEF Init
<1>2. /\ Top \in Nat /\ served \in [Peer -> Block] /\ kept \in [Peer -> 0..Top] /\ grown \in Block
  BY <1>1, SyncAssumption
<1>3. /\ top = 0 /\ hdr = 0 /\ orphans = {} /\ peers = <<>> /\ closed = {}
      /\ pending = [p \in Peer |-> <<>>] /\ requested = [p \in Peer |-> {}]
      /\ stalled = [p \in Peer |-> {}] /\ inbox = [p \in Peer |-> <<>>]
      /\ thread = [p \in Peer |-> [Idle EXCEPT !.at = "gone"]]
  BY DEF Init
<1>4. Heights
  <2>1. served \in [Peer -> 0..Top]
    BY <1>2 DEF Block
  <2> QED
    BY <1>2, <1>3, <2>1 DEF Heights, Block
<1>5. Links
  BY <1>3 DEF Links
<1>6. Queues
  <2>1. pending \in [Peer -> Seq(1..grown)] /\ \A p \in Peer : Len(pending[p]) = 0
    BY <1>3
  <2> QED
    BY <1>3, <2>1 DEF Queues
<1>7. Mail
  <2>1. inbox \in [Peer -> Seq(Message(grown))] /\ \A p \in Peer : Len(inbox[p]) = 0 /\ requested[p] = {}
    BY <1>3
  <2> QED
    BY <2>1 DEF Mail, Formed, Ordered, Covers
<1>8. Readers
  <2> DEFINE th == [Idle EXCEPT !.at = "gone"]
  <2>1. th \in Place(grown) /\ th.at = "gone"
    <3>1. grown \in Nat
      BY <1>2 DEF Block
    <3>2. Idle \in Place(grown)
      BY <3>1, ElsewhereIs
    <3> HIDE DEF Idle
    <3> QED
      BY <3>2 DEF Place
  <2> HIDE DEF th
  <2>2. thread = [p \in Peer |-> th]
    BY <1>3 DEF th
  <2> QED
    BY <2>1, <2>2 DEF Readers, Sound
<1> QED
  BY <1>4, <1>5, <1>6, <1>7, <1>8 DEF SyncInv

\* When the peers have pruned nothing and announce no more than one block while
\* the sync is under way, and until a connection ends, a request stalls or a
\* block is lost between the readers, no block is in flight before its parent.
THEOREM BlocksInOrder == Spec /\ Entire => []InOrder
<1>1. Init /\ Entire => SyncInv
  BY SyncStarts
<1>2. SyncInv /\ [Next]_vars => SyncInv'
  <2> SUFFICES ASSUME SyncInv, [Next]_vars, disturbed' = {} PROVE Good'
    BY DEF SyncInv, Good
  <2>1. disturbed = {}
    BY DisturbedGrows
  <2>2. Good
    BY <2>1 DEF SyncInv, Good
  <2> QED
    BY <2>2, GoodStep
<1>3. SyncInv => InOrder
  BY DEF SyncInv, Queues, Ready, InOrder
<1> QED
  BY <1>1, <1>2, <1>3, PTL DEF Spec

-----------------------------------------------------------------------------
(* Value.  What the coins are worth follows from the transactions of the   *)
(* chain alone: what is left is what they created less what they used, the *)
(* rows of the history are theirs, and each adds Net(t) to the supply.     *)

\* The output an outpoint stands for, and those a transaction spends.
Output(o) == o.tx.outs[o.index]
Spends(t) == [i \in DOMAIN t.ins |-> Output(t.ins[i])]

\* What a set of transactions pays out, what it uses, and what is left.
Created(C) == UNION {Outpoints(t) : t \in C}
Used(C) == UNION {ToSet(t.ins) : t \in C}
Unspent(C) == Created(C) \ Used(C)

WellFormed(t) ==
    /\ IsFiniteSet(DOMAIN t.outs) /\ IsFiniteSet(DOMAIN t.ins) /\ IsInjective(t.ins)
    /\ \A i \in DOMAIN t.outs : t.outs[i].value \in Int
    /\ \A i \in DOMAIN t.ins : Output(t.ins[i]).value \in Int

\* Every output is spent at most once, and by nobody before it is there.
Consistent(C) ==
    /\ IsFiniteSet(C)
    /\ \A t \in C : WellFormed(t)
    /\ \A t, u \in C : t # u => ToSet(t.ins) \cap ToSet(u.ins) = {}
    /\ Used(C) \subseteq Created(C)

\* What a transaction adds to the coins, and what it adds to those of a.
Net(t) == Worth(t.outs) - Worth(Spends(t))
NetTo(a, t) == WorthTo(a, t.outs) - WorthTo(a, Spends(t))
Minted(C) == SumFunctionOnSet([t \in C |-> Net(t)], C)

Touches(t, a) == \/ \E i \in DOMAIN t.outs : t.outs[i].to = a
                 \/ \E i \in DOMAIN t.ins : Output(t.ins[i]).to = a

\* The transactions of a block, and of the chain up to it.
TxsOf(h) == IF h = 0 THEN {GenesisCoinbase} ELSE ToSet(connected[h].txs)
UpTo(k) == UNION {TxsOf(h) : h \in 0..k}

\* A coin is what the block in which it was made says.
Dated(coins, n) == \A h \in 0..n : \A o \in DOMAIN coins : o.tx \in TxsOf(h) => coins[o] = CoinOf(o, h)

Belongs(t, h) == IF t.coinbase THEN t.height = h ELSE ToSet(t.ins) # {}

Blocks ==
    /\ connected \in Seq(ToSet(connected))
    /\ \A h, l \in 0..Len(connected) : h # l => TxsOf(h) \cap TxsOf(l) = {}
    /\ \A h \in 0..Len(connected) : \A t \in TxsOf(h) : Belongs(t, h)
    /\ \A k \in 0..Len(connected) : Consistent(UpTo(k))

Coins ==
    /\ DOMAIN utxo = Unspent(UpTo(Len(connected)))
    /\ Dated(utxo, Len(connected))

UndoOf(T, undo, n) ==
    /\ DOMAIN undo = Used(T) \ Created(T)
    /\ Dated(undo, n)

Undos == \A k \in 1..Len(connected) : UndoOf(TxsOf(k), connected[k].undo, k - 1)

EntriesOf(H, C) ==
    /\ \A r \in H : /\ r.tx \in C
                    /\ r.received = WorthTo(r.to, r.tx.outs) /\ r.sent = WorthTo(r.to, Spends(r.tx))
    /\ \A r, q \in H : r.to = q.to /\ r.tx = q.tx => r = q
    /\ \A t \in C : \A a : Touches(t, a) => \E r \in H : r.to = a /\ r.tx = t

Issued(k) == SumFunctionOnSet([h \in 0..k |-> Subsidy(h)], 0..k)
Supplied == \A k \in 0..Len(connected) : Minted(UpTo(k)) <= Issued(k)

\* The block that is being connected has been applied up to here.
IsView(view) == {"height", "txs", "added", "spent", "undo", "coins", "fees"} \subseteq DOMAIN view

Claimed(view) == IF view.txs = <<>> THEN 0 ELSE Worth(view.txs[1].outs)

Applying(view) ==
    LET T == ToSet(view.txs) IN
    /\ IsView(view) /\ view.height = Len(connected) + 1 /\ view.txs \in Seq(T)
    /\ T \cap UpTo(Len(connected)) = {}
    /\ \A t \in T : Belongs(t, view.height)
    /\ Consistent(UpTo(Len(connected)) \cup T)
    /\ DOMAIN view.added = Unspent(T) /\ view.spent = Used(T)
    /\ \A o \in DOMAIN view.added : view.added[o] = CoinOf(o, view.height)
    /\ UndoOf(T, view.undo, Len(connected))
    /\ \A o \in Used(T) : /\ o \in DOMAIN view.coins
                          /\ view.coins[o].value = Output(o).value /\ view.coins[o].to = Output(o).to
    /\ view.fees \in Int /\ Minted(T) = Claimed(view) - view.fees

MoneyInv ==
    /\ Blocks /\ Coins /\ Undos /\ Supplied
    /\ EntriesOf(history, UpTo(Len(connected)))
    /\ overlay # <<>> => Applying(overlay) /\ overlay.txs # <<>>

-----------------------------------------------------------------------------
(* Sums of value.                                                          *)

LEMMA SameWorth ==
    ASSUME NEW A, NEW B, DOMAIN A = DOMAIN B,
           \A k \in DOMAIN A : A[k].value = B[k].value
    PROVE  Worth(A) = Worth(B)
<1>1. [k \in DOMAIN A |-> A[k].value] = [k \in DOMAIN B |-> B[k].value]
  OBVIOUS
<1> QED
  BY <1>1 DEF Worth

LEMMA SameWorthTo ==
    ASSUME NEW A, NEW B, NEW a, DOMAIN A = DOMAIN B,
           \A k \in DOMAIN A : A[k].value = B[k].value /\ A[k].to = B[k].to
    PROVE  WorthTo(a, A) = WorthTo(a, B)
<1>1. [k \in DOMAIN A |-> IF A[k].to = a THEN A[k].value ELSE 0]
        = [k \in DOMAIN B |-> IF B[k].to = a THEN B[k].value ELSE 0]
  OBVIOUS
<1> QED
  BY <1>1 DEF WorthTo

LEMMA WorthIs ==
    ASSUME NEW A, NEW a
    PROVE  /\ Worth(A) = SumFunctionOnSet([k \in DOMAIN A |-> A[k].value], DOMAIN A)
           /\ WorthTo(a, A) = SumFunctionOnSet([k \in DOMAIN A |-> IF A[k].to = a THEN A[k].value ELSE 0],
                                               DOMAIN A)
<1>1. /\ DOMAIN [k \in DOMAIN A |-> A[k].value] = DOMAIN A
      /\ DOMAIN [k \in DOMAIN A |-> IF A[k].to = a THEN A[k].value ELSE 0] = DOMAIN A
  OBVIOUS
<1> QED
  BY <1>1 DEF Worth, WorthTo, SumFunction

LEMMA WorthType ==
    ASSUME NEW A, NEW a, IsFiniteSet(DOMAIN A), \A k \in DOMAIN A : A[k].value \in Int
    PROVE  Worth(A) \in Int /\ WorthTo(a, A) \in Int
<1> DEFINE f == [k \in DOMAIN A |-> A[k].value]
           g == [k \in DOMAIN A |-> IF A[k].to = a THEN A[k].value ELSE 0]
<1>1. \A k \in DOMAIN A : f[k] \in Int /\ g[k] \in Int
  OBVIOUS
<1>2. Worth(A) = SumFunctionOnSet(f, DOMAIN A) /\ WorthTo(a, A) = SumFunctionOnSet(g, DOMAIN A)
  BY WorthIs
<1> HIDE DEF f, g
<1> QED
  BY <1>1, <1>2, SumType

\* The outpoints of a transaction, and those that it uses.
LEMMA ValueOfOutpoints ==
    ASSUME NEW t, WellFormed(t), NEW v, NEW f,
           \A i \in DOMAIN t.outs : f[i] \in Int /\ v[[tx |-> t, index |-> i]] = f[i]
    PROVE  /\ IsFiniteSet(Outpoints(t))
           /\ SumFunctionOnSet(v, Outpoints(t)) = SumFunctionOnSet(f, DOMAIN t.outs)
<1> DEFINE D == DOMAIN t.outs
           m == [i \in D |-> [tx |-> t, index |-> i]]
<1>1. IsFiniteSet(D)
  BY DEF WellFormed
<1>2. Outpoints(t) = {m[i] : i \in D}
  BY DEF Outpoints
<1>3. \A i, j \in D : m[i] = m[j] => i = j
  OBVIOUS
<1>4. \A i \in D : v[m[i]] \in Int /\ f[i] = v[m[i]]
  OBVIOUS
<1>5. m \in Surjection(D, Outpoints(t))
  BY <1>2 DEF Surjection
<1> HIDE DEF D, m
<1>6. SumFunctionOnSet(f, D) = SumFunctionOnSet(v, {m[i] : i \in D})
  BY <1>1, <1>3, <1>4, SumReindexed
<1>7. IsFiniteSet(Outpoints(t))
  BY <1>1, <1>5, FS_Surjection
<1> QED
  BY <1>2, <1>6, <1>7 DEF D

LEMMA ValueOfInputs ==
    ASSUME NEW t, WellFormed(t), NEW v, NEW f,
           \A i \in DOMAIN t.ins : f[i] \in Int /\ v[t.ins[i]] = f[i]
    PROVE  /\ IsFiniteSet(ToSet(t.ins))
           /\ SumFunctionOnSet(v, ToSet(t.ins)) = SumFunctionOnSet(f, DOMAIN t.ins)
<1> DEFINE D == DOMAIN t.ins
           m == [i \in D |-> t.ins[i]]
<1>1. IsFiniteSet(D)
  BY DEF WellFormed
<1>2. ToSet(t.ins) = {m[i] : i \in D}
  BY DEF ToSet
<1>3. \A i, j \in D : m[i] = m[j] => i = j
  BY DEF WellFormed, IsInjective
<1>4. \A i \in D : v[m[i]] \in Int /\ f[i] = v[m[i]]
  OBVIOUS
<1>5. m \in Surjection(D, ToSet(t.ins))
  BY <1>2 DEF Surjection
<1> HIDE DEF D, m
<1>6. SumFunctionOnSet(f, D) = SumFunctionOnSet(v, {m[i] : i \in D})
  BY <1>1, <1>3, <1>4, SumReindexed
<1>7. IsFiniteSet(ToSet(t.ins))
  BY <1>1, <1>5, FS_Surjection
<1> QED
  BY <1>2, <1>6, <1>7 DEF D

\* A transaction is worth the value of its outpoints, less that of its inputs.
LEMMA NetIs ==
    ASSUME NEW t, WellFormed(t), NEW a, NEW v, NEW w,
           \A o \in Outpoints(t) \cup ToSet(t.ins) :
              v[o] = Output(o).value /\ w[o] = IF Output(o).to = a THEN Output(o).value ELSE 0
    PROVE  /\ IsFiniteSet(Outpoints(t)) /\ IsFiniteSet(ToSet(t.ins))
           /\ \A o \in Outpoints(t) \cup ToSet(t.ins) : v[o] \in Int /\ w[o] \in Int
           /\ Net(t) = SumFunctionOnSet(v, Outpoints(t)) - SumFunctionOnSet(v, ToSet(t.ins))
           /\ NetTo(a, t) = SumFunctionOnSet(w, Outpoints(t)) - SumFunctionOnSet(w, ToSet(t.ins))
           /\ Net(t) \in Int /\ NetTo(a, t) \in Int
<1> DEFINE A == t.outs
           B == Spends(t)
           fA == [k \in DOMAIN A |-> A[k].value]
           fB == [k \in DOMAIN B |-> B[k].value]
           gA == [k \in DOMAIN A |-> IF A[k].to = a THEN A[k].value ELSE 0]
           gB == [k \in DOMAIN B |-> IF B[k].to = a THEN B[k].value ELSE 0]
<1>1. DOMAIN B = DOMAIN t.ins /\ \A i \in DOMAIN t.ins : B[i] = Output(t.ins[i])
  BY DEF Spends
<1>2. \A i \in DOMAIN A : [tx |-> t, index |-> i] \in Outpoints(t) /\ Output([tx |-> t, index |-> i]) = A[i]
  <2>1. \A i \in DOMAIN A : [tx |-> t, index |-> i] \in Outpoints(t)
    BY DEF Outpoints
  <2>2. \A i \in DOMAIN A : Output([tx |-> t, index |-> i]) = A[i]
    BY DEF Output
  <2> QED
    BY <2>1, <2>2
<1>3. \A i \in DOMAIN t.ins : t.ins[i] \in ToSet(t.ins)
  BY DEF ToSet
<1>4. /\ \A i \in DOMAIN A : A[i].value \in Int
      /\ \A i \in DOMAIN B : B[i].value \in Int
      /\ IsFiniteSet(DOMAIN A) /\ IsFiniteSet(DOMAIN B)
  BY <1>1 DEF WellFormed
<1>5. \A i \in DOMAIN A : /\ fA[i] \in Int /\ v[[tx |-> t, index |-> i]] = fA[i]
                          /\ gA[i] \in Int /\ w[[tx |-> t, index |-> i]] = gA[i]
  BY <1>2, <1>4
<1>6. \A i \in DOMAIN t.ins : /\ fB[i] \in Int /\ v[t.ins[i]] = fB[i]
                              /\ gB[i] \in Int /\ w[t.ins[i]] = gB[i]
  BY <1>1, <1>3, <1>4
<1>7. \A o \in Outpoints(t) \cup ToSet(t.ins) : Output(o).value \in Int
  <2>1. \A o \in Outpoints(t) : \E i \in DOMAIN A : o = [tx |-> t, index |-> i]
    BY DEF Outpoints
  <2>2. \A o \in ToSet(t.ins) : \E i \in DOMAIN t.ins : o = t.ins[i]
    BY DEF ToSet
  <2> QED
    BY <1>1, <1>2, <1>4, <2>1, <2>2
<1>8. /\ Worth(A) = SumFunctionOnSet(fA, DOMAIN A) /\ Worth(B) = SumFunctionOnSet(fB, DOMAIN B)
      /\ WorthTo(a, A) = SumFunctionOnSet(gA, DOMAIN A) /\ WorthTo(a, B) = SumFunctionOnSet(gB, DOMAIN B)
  BY WorthIs
<1>9. Worth(A) \in Int /\ Worth(B) \in Int /\ WorthTo(a, A) \in Int /\ WorthTo(a, B) \in Int
  <2> HIDE DEF A, B
  <2> QED
    BY <1>4, WorthType
<1>10. Net(t) = Worth(A) - Worth(B) /\ NetTo(a, t) = WorthTo(a, A) - WorthTo(a, B)
  BY DEF Net, NetTo
<1>11. \A o \in Outpoints(t) \cup ToSet(t.ins) : v[o] \in Int /\ w[o] \in Int
  BY <1>7
<1> HIDE DEF fA, fB, gA, gB
<1>12. /\ IsFiniteSet(Outpoints(t))
       /\ SumFunctionOnSet(v, Outpoints(t)) = SumFunctionOnSet(fA, DOMAIN A)
       /\ SumFunctionOnSet(w, Outpoints(t)) = SumFunctionOnSet(gA, DOMAIN A)
  <2>1. \A i \in DOMAIN t.outs : fA[i] \in Int /\ v[[tx |-> t, index |-> i]] = fA[i]
    BY <1>5
  <2>2. \A i \in DOMAIN t.outs : gA[i] \in Int /\ w[[tx |-> t, index |-> i]] = gA[i]
    BY <1>5
  <2>3. IsFiniteSet(Outpoints(t)) /\ SumFunctionOnSet(v, Outpoints(t)) = SumFunctionOnSet(fA, DOMAIN t.outs)
    BY <2>1, ValueOfOutpoints
  <2>4. SumFunctionOnSet(w, Outpoints(t)) = SumFunctionOnSet(gA, DOMAIN t.outs)
    BY <2>2, ValueOfOutpoints
  <2> QED
    BY <2>3, <2>4
<1>13. /\ IsFiniteSet(ToSet(t.ins))
       /\ SumFunctionOnSet(v, ToSet(t.ins)) = SumFunctionOnSet(fB, DOMAIN t.ins)
       /\ SumFunctionOnSet(w, ToSet(t.ins)) = SumFunctionOnSet(gB, DOMAIN t.ins)
  BY <1>6, ValueOfInputs
<1> HIDE DEF A, B
<1> QED
  BY <1>1, <1>8, <1>9, <1>10, <1>11, <1>12, <1>13

-----------------------------------------------------------------------------
(* What is left of a consistent set of transactions.                       *)

LEMMA Flow ==
    ASSUME NEW C, Consistent(C), NEW v, NEW g,
           \A t \in C : /\ IsFiniteSet(Outpoints(t)) /\ IsFiniteSet(ToSet(t.ins))
                        /\ \A o \in Outpoints(t) \cup ToSet(t.ins) : v[o] \in Int
                        /\ g[t] = SumFunctionOnSet(v, Outpoints(t)) - SumFunctionOnSet(v, ToSet(t.ins))
    PROVE  /\ IsFiniteSet(Created(C))
           /\ SumFunctionOnSet(v, Unspent(C)) = SumFunctionOnSet(g, C)
<1> DEFINE P == [t \in C |-> Outpoints(t)]
           Q == [t \in C |-> ToSet(t.ins)]
           p == [t \in C |-> SumFunctionOnSet(v, P[t])]
           q == [t \in C |-> SumFunctionOnSet(v, Q[t])]
<1>1. IsFiniteSet(C)
  BY DEF Consistent
<1>2. \A t \in C : /\ IsFiniteSet(P[t]) /\ p[t] = SumFunctionOnSet(v, P[t])
                   /\ IsFiniteSet(Q[t]) /\ q[t] = SumFunctionOnSet(v, Q[t])
  OBVIOUS
<1>3. \A t, u \in C : t # u => P[t] \cap P[u] = {}
  BY DEF Outpoints
<1>4. \A t, u \in C : t # u => Q[t] \cap Q[u] = {}
  BY DEF Consistent
<1>5. /\ \A t \in C : \A o \in P[t] : v[o] \in Int
      /\ \A t \in C : \A o \in Q[t] : v[o] \in Int
  OBVIOUS
<1>6. Created(C) = UnionOf(P, C) /\ Used(C) = UnionOf(Q, C)
  BY DEF Created, Used, UnionOf
<1>7. \A t \in C : g[t] = p[t] - q[t]
  OBVIOUS
<1> HIDE DEF P, Q, p, q
<1>8. IsFiniteSet(Created(C)) /\ SumFunctionOnSet(v, Created(C)) = SumFunctionOnSet(p, C)
  <2>1. SumsOf(v, P, p, C)
    BY <1>2, <1>5 DEF SumsOf
  <2>2. Disjoint(P, C)
    BY <1>3 DEF Disjoint
  <2>3. /\ IsFiniteSet(UnionOf(P, C))
        /\ SumFunctionOnSet(v, UnionOf(P, C)) = SumFunctionOnSet(p, C)
    BY <1>1, <2>1, <2>2, SumOfFamily
  <2> QED
    BY <1>6, <2>3
<1>9. IsFiniteSet(Used(C)) /\ SumFunctionOnSet(v, Used(C)) = SumFunctionOnSet(q, C)
  <2>1. SumsOf(v, Q, q, C)
    BY <1>2, <1>5 DEF SumsOf
  <2>2. Disjoint(Q, C)
    BY <1>4 DEF Disjoint
  <2>3. /\ IsFiniteSet(UnionOf(Q, C))
        /\ SumFunctionOnSet(v, UnionOf(Q, C)) = SumFunctionOnSet(q, C)
    BY <1>1, <2>1, <2>2, SumOfFamily
  <2> QED
    BY <1>6, <2>3
<1>10. \A t \in C : p[t] \in Int /\ q[t] \in Int
  BY <1>2, <1>5, SumType
<1>11. SumFunctionOnSet(g, C) = SumFunctionOnSet(p, C) - SumFunctionOnSet(q, C)
  BY <1>1, <1>7, <1>10, SumMinus
<1>12. \A o \in Created(C) : v[o] \in Int
  BY <1>5, <1>6 DEF UnionOf
<1>13. Used(C) \subseteq Created(C)
  BY DEF Consistent
<1>14. IsFiniteSet(Unspent(C))
  BY <1>8, FS_Subset DEF Unspent
<1>15. SumFunctionOnSet(v, Created(C)) = SumFunctionOnSet(v, Unspent(C)) + SumFunctionOnSet(v, Used(C))
  <2>1. Created(C) = Unspent(C) \cup Used(C) /\ Unspent(C) \cap Used(C) = {}
    BY <1>13 DEF Unspent
  <2>2. \A o \in Unspent(C) \cup Used(C) : v[o] \in Int
    BY <1>12, <2>1
  <2>3. SumFunctionOnSet(v, Unspent(C) \cup Used(C))
          = SumFunctionOnSet(v, Unspent(C)) + SumFunctionOnSet(v, Used(C))
    BY <1>9, <1>14, <2>1, <2>2, SumUnion
  <2> QED
    BY <2>1, <2>3
<1>16. SumFunctionOnSet(v, Unspent(C)) \in Int /\ SumFunctionOnSet(v, Used(C)) \in Int
  <2>1. \A o \in Unspent(C) : v[o] \in Int
    BY <1>12 DEF Unspent
  <2>2. \A o \in Used(C) : v[o] \in Int
    BY <1>12, <1>13
  <2> QED
    BY <1>9, <1>14, <2>1, <2>2, SumType
<1> QED
  BY <1>8, <1>9, <1>11, <1>15, <1>16

\* The coins that are left, and those of one address.
LEMMA WorthOfUnspent ==
    ASSUME NEW C, Consistent(C), NEW U, DOMAIN U = Unspent(C), NEW a,
           \A o \in DOMAIN U : U[o].value = Output(o).value /\ U[o].to = Output(o).to
    PROVE  /\ Worth(U) = Minted(C)
           /\ Worth([o \in {x \in DOMAIN U : U[x].to = a} |-> U[o]])
                = SumFunctionOnSet([t \in C |-> NetTo(a, t)], C)
<1> DEFINE All == Created(C) \cup Used(C)
           v == [o \in All |-> Output(o).value]
           w == [o \in All |-> IF Output(o).to = a THEN Output(o).value ELSE 0]
           n == [t \in C |-> Net(t)]
           m == [t \in C |-> NetTo(a, t)]
<1>1. \A t \in C : Outpoints(t) \cup ToSet(t.ins) \subseteq All
  BY DEF Created, Used
<1>2. \A t \in C : WellFormed(t)
  BY DEF Consistent
<1>3. \A t \in C : /\ IsFiniteSet(Outpoints(t)) /\ IsFiniteSet(ToSet(t.ins))
                   /\ \A o \in Outpoints(t) \cup ToSet(t.ins) : v[o] \in Int /\ w[o] \in Int
                   /\ n[t] = SumFunctionOnSet(v, Outpoints(t)) - SumFunctionOnSet(v, ToSet(t.ins))
                   /\ m[t] = SumFunctionOnSet(w, Outpoints(t)) - SumFunctionOnSet(w, ToSet(t.ins))
  <2> SUFFICES ASSUME NEW t \in C
               PROVE  /\ IsFiniteSet(Outpoints(t)) /\ IsFiniteSet(ToSet(t.ins))
                      /\ \A o \in Outpoints(t) \cup ToSet(t.ins) : v[o] \in Int /\ w[o] \in Int
                      /\ n[t] = SumFunctionOnSet(v, Outpoints(t)) - SumFunctionOnSet(v, ToSet(t.ins))
                      /\ m[t] = SumFunctionOnSet(w, Outpoints(t)) - SumFunctionOnSet(w, ToSet(t.ins))
    OBVIOUS
  <2>1. \A o \in Outpoints(t) \cup ToSet(t.ins) :
            v[o] = Output(o).value /\ w[o] = IF Output(o).to = a THEN Output(o).value ELSE 0
    BY <1>1
  <2>2. n[t] = Net(t) /\ m[t] = NetTo(a, t) /\ WellFormed(t)
    BY <1>2
  <2> HIDE DEF v, w, n, m
  <2> QED
    BY <2>1, <2>2, NetIs
<1>4. IsFiniteSet(Created(C)) /\ SumFunctionOnSet(v, Unspent(C)) = SumFunctionOnSet(n, C)
  <2> HIDE DEF v, w, n, m
  <2> QED
    BY <1>3, Flow
<1>5. SumFunctionOnSet(w, Unspent(C)) = SumFunctionOnSet(m, C)
  <2> HIDE DEF v, w, n, m
  <2> QED
    BY <1>3, Flow
<1>6. IsFiniteSet(Unspent(C))
  BY <1>4, FS_Subset DEF Unspent
<1>7. \A o \in Unspent(C) : v[o] \in Int /\ w[o] \in Int
  <2>1. \A o \in Unspent(C) : \E t \in C : o \in Outpoints(t)
    BY DEF Unspent, Created
  <2> HIDE DEF v, w, n, m
  <2> QED
    BY <1>3, <2>1
<1>8. \A o \in Unspent(C) : /\ v[o] = Output(o).value
                            /\ w[o] = IF Output(o).to = a THEN Output(o).value ELSE 0
  BY DEF Unspent
<1> HIDE DEF v, w, n, m
<1>9. Worth(U) = SumFunctionOnSet(v, Unspent(C))
  <2> DEFINE f == [k \in DOMAIN U |-> U[k].value]
  <2>1. Worth(U) = SumFunctionOnSet(f, Unspent(C))
    BY WorthIs
  <2>2. \A o \in Unspent(C) : f[o] = v[o]
    BY <1>8
  <2> HIDE DEF f
  <2> QED
    BY <1>6, <1>7, <2>1, <2>2, SumEqual
<1> DEFINE S == {x \in DOMAIN U : U[x].to = a}
           R == Unspent(C) \ S
           B == [o \in S |-> U[o]]
<1>10. Worth(B) = SumFunctionOnSet(w, S)
  <2> DEFINE f == [k \in DOMAIN B |-> B[k].value]
  <2>0. DOMAIN B = S
    OBVIOUS
  <2>1. Worth(B) = SumFunctionOnSet(f, S)
    <3>1. Worth(B) = SumFunctionOnSet(f, DOMAIN B)
      BY WorthIs
    <3> HIDE DEF f, B, S
    <3> QED
      BY <2>0, <3>1
  <2>2. \A o \in S : f[o] = w[o] /\ w[o] \in Int
    BY <1>7, <1>8
  <2>3. IsFiniteSet(S)
    BY <1>6, FS_Subset
  <2> HIDE DEF f, S
  <2> QED
    BY <2>1, <2>2, <2>3, SumEqual
<1>11. SumFunctionOnSet(w, S) = SumFunctionOnSet(w, Unspent(C))
  <2>1. IsFiniteSet(S) /\ IsFiniteSet(R) /\ S \cap R = {} /\ S \cup R = Unspent(C)
    BY <1>6, FS_Subset
  <2>2. \A o \in R : w[o] = 0
    BY <1>8
  <2>3. \A o \in S \cup R : w[o] \in Int
    BY <1>7, <2>1
  <2> HIDE DEF S, R
  <2>4. SumFunctionOnSet(w, S \cup R) = SumFunctionOnSet(w, S) + SumFunctionOnSet(w, R)
    BY <2>1, <2>3, SumUnion
  <2>5. SumFunctionOnSet(w, R) = 0
    BY <2>1, <2>2, SumZero
  <2>6. SumFunctionOnSet(w, S) \in Int
    BY <2>1, <2>3, SumType
  <2>7. SumFunctionOnSet(w, S \cup R) = SumFunctionOnSet(w, S)
    BY <2>4, <2>5, <2>6
  <2> QED
    BY <2>1, <2>7
<1> QED
  BY <1>4, <1>5, <1>9, <1>10, <1>11 DEF n, m, Minted

LEMMA NetType ==
    ASSUME NEW t, WellFormed(t), NEW a
    PROVE  Net(t) \in Int /\ NetTo(a, t) \in Int /\ Worth(t.outs) \in Int /\ Worth(Spends(t)) \in Int
<1>1. /\ IsFiniteSet(DOMAIN t.outs) /\ \A i \in DOMAIN t.outs : t.outs[i].value \in Int
      /\ IsFiniteSet(DOMAIN Spends(t)) /\ \A i \in DOMAIN Spends(t) : Spends(t)[i].value \in Int
  BY DEF WellFormed, Spends
<1>2. /\ Worth(t.outs) \in Int /\ WorthTo(a, t.outs) \in Int
      /\ Worth(Spends(t)) \in Int /\ WorthTo(a, Spends(t)) \in Int
  BY <1>1, WorthType
<1> QED
  BY <1>2 DEF Net, NetTo

\* An address that a transaction does not touch gains and loses nothing.
LEMMA Untouched ==
    ASSUME NEW A, NEW a, IsFiniteSet(DOMAIN A), \A i \in DOMAIN A : A[i].to # a
    PROVE  WorthTo(a, A) = 0
<1> DEFINE g == [k \in DOMAIN A |-> IF A[k].to = a THEN A[k].value ELSE 0]
<1>1. \A k \in DOMAIN A : g[k] = 0
  OBVIOUS
<1>2. WorthTo(a, A) = SumFunctionOnSet(g, DOMAIN A)
  BY WorthIs
<1> HIDE DEF g
<1> QED
  BY <1>1, <1>2, SumZero

\* The rows of an address say what its coins are worth.
LEMMA WorthOfHistory ==
    ASSUME NEW C, Consistent(C), NEW H, EntriesOf(H, C), NEW a
    PROVE  SumFunction([r \in {x \in H : x.to = a} |-> r.received - r.sent])
             = SumFunctionOnSet([t \in C |-> NetTo(a, t)], C)
<1> DEFINE R == {x \in H : x.to = a}
           f == [r \in R |-> r.received - r.sent]
           g == [t \in C |-> NetTo(a, t)]
           m == [r \in R |-> r.tx]
           I == {m[r] : r \in R}
           Z == C \ I
<1>1. IsFiniteSet(C) /\ \A t \in C : WellFormed(t)
  BY DEF Consistent
<1>2. \A t \in C : g[t] \in Int
  BY <1>1, NetType
<1>3. \A r \in R : m[r] \in C /\ f[r] = g[m[r]]
  BY DEF EntriesOf, NetTo
<1>4. \A r, q \in R : m[r] = m[q] => r = q
  BY DEF EntriesOf
<1>5. \A t \in Z : ~Touches(t, a)
  <2> SUFFICES ASSUME NEW t \in C, Touches(t, a) PROVE t \in I
    OBVIOUS
  <2>1. PICK r \in H : r.to = a /\ r.tx = t
    BY DEF EntriesOf
  <2>2. r \in R /\ m[r] = t
    BY <2>1
  <2> QED
    BY <2>2
<1>6. \A t \in Z : g[t] = 0
  <2> SUFFICES ASSUME NEW t \in Z PROVE NetTo(a, t) = 0
    OBVIOUS
  <2>1. WellFormed(t) /\ ~Touches(t, a)
    BY <1>1, <1>5
  <2>2. /\ IsFiniteSet(DOMAIN t.outs) /\ IsFiniteSet(DOMAIN Spends(t))
        /\ \A i \in DOMAIN t.outs : t.outs[i].to # a
        /\ \A i \in DOMAIN Spends(t) : Spends(t)[i].to # a
    BY <2>1 DEF WellFormed, Spends, Touches
  <2>3. WorthTo(a, t.outs) = 0 /\ WorthTo(a, Spends(t)) = 0
    BY <2>2, Untouched
  <2> QED
    BY <2>3 DEF NetTo
<1>7. m \in Injection(R, C)
  BY <1>3, <1>4 DEF Injection, IsInjective
<1>8. SumFunction(f) = SumFunctionOnSet(f, R)
  BY DEF SumFunction
<1>9. I \subseteq C /\ C = I \cup Z /\ I \cap Z = {}
  BY <1>3
<1>10. \A r \in R : m[r] \in I
  OBVIOUS
<1> HIDE DEF f, g, m, R, Z
<1>11. IsFiniteSet(R)
  BY <1>1, <1>7, FS_Injection
<1>12. \A r \in R : g[m[r]] \in Int /\ f[r] = g[m[r]]
  BY <1>2, <1>3
<1>13. SumFunctionOnSet(f, R) = SumFunctionOnSet(g, I)
  BY <1>4, <1>11, <1>12, SumReindexed
<1> HIDE DEF I
<1>14. IsFiniteSet(I) /\ IsFiniteSet(Z)
  BY <1>1, <1>9, FS_Subset DEF Z
<1>15. SumFunctionOnSet(g, I \cup Z) = SumFunctionOnSet(g, I) + SumFunctionOnSet(g, Z)
  <2>1. \A t \in I \cup Z : g[t] \in Int
    BY <1>2, <1>9
  <2> QED
    BY <1>9, <1>14, <2>1, SumUnion
<1>16. SumFunctionOnSet(g, Z) = 0
  BY <1>6, <1>14, SumZero
<1>17. SumFunctionOnSet(g, I) \in Int
  <2>1. \A t \in I : g[t] \in Int
    BY <1>2, <1>9
  <2> QED
    BY <1>14, <2>1, SumType
<1>18. SumFunctionOnSet(g, I \cup Z) = SumFunctionOnSet(g, I)
  BY <1>15, <1>16, <1>17
<1>19. SumFunctionOnSet(g, C) = SumFunctionOnSet(f, R)
  BY <1>9, <1>13, <1>18
<1> QED
  BY <1>8, <1>19 DEF f, g, R

\* What is minted adds up.
LEMMA MintedUnion ==
    ASSUME NEW A, NEW B, IsFiniteSet(A), IsFiniteSet(B), A \cap B = {},
           \A t \in A \cup B : WellFormed(t)
    PROVE  /\ Minted(A \cup B) = Minted(A) + Minted(B)
           /\ Minted(A) \in Int /\ Minted(B) \in Int
<1> DEFINE f == [t \in A \cup B |-> Net(t)]
           g == [t \in A |-> Net(t)]
           h == [t \in B |-> Net(t)]
<1>1. \A t \in A \cup B : f[t] \in Int
  BY NetType
<1>2. /\ \A t \in A : f[t] \in Int /\ g[t] = f[t]
      /\ \A t \in B : f[t] \in Int /\ h[t] = f[t]
  BY <1>1
<1>3. Minted(A \cup B) = SumFunctionOnSet(f, A \cup B)
  BY DEF Minted
<1>4. Minted(A) = SumFunctionOnSet(g, A) /\ Minted(B) = SumFunctionOnSet(h, B)
  BY DEF Minted
<1> HIDE DEF f, g, h
<1>5. SumFunctionOnSet(f, A \cup B) = SumFunctionOnSet(f, A) + SumFunctionOnSet(f, B)
  BY <1>1, SumUnion
<1>6. SumFunctionOnSet(g, A) = SumFunctionOnSet(f, A) /\ SumFunctionOnSet(h, B) = SumFunctionOnSet(f, B)
  BY <1>2, SumEqual
<1>7. SumFunctionOnSet(f, A) \in Int /\ SumFunctionOnSet(f, B) \in Int
  BY <1>2, SumType
<1> QED
  BY <1>3, <1>4, <1>5, <1>6, <1>7

LEMMA MintedOne ==
    ASSUME NEW t, WellFormed(t)
    PROVE  Minted({t}) = Net(t)
<1> DEFINE f == [u \in {t} |-> Net(u)]
<1>1. f[t] = Net(t) /\ f[t] \in Int
  BY NetType
<1>2. Minted({t}) = SumFunctionOnSet(f, {t})
  BY DEF Minted
<1> HIDE DEF f
<1>3. SumFunctionOnSet(f, {} \cup {t}) = f[t] + SumFunctionOnSet(f, {})
  BY <1>1, FS_EmptySet, SumWith
<1>4. SumFunctionOnSet(f, {}) = 0
  BY SumEmpty
<1>5. {} \cup {t} = {t}
  OBVIOUS
<1>6. SumFunctionOnSet(f, {t}) = f[t] + 0
  BY <1>3, <1>4, <1>5
<1> QED
  BY <1>1, <1>2, <1>6

LEMMA MintedNone == Minted({}) = 0
<1> DEFINE f == [u \in {} |-> Net(u)]
<1>1. Minted({}) = SumFunctionOnSet(f, {})
  BY DEF Minted
<1> HIDE DEF f
<1> QED
  BY <1>1, SumEmpty

-----------------------------------------------------------------------------
(* The books balance.                                                      *)

LEMMA Subsidies ==
    ASSUME NEW h \in Nat
    PROVE  Subsidy(h) \in Nat
<1> DEFINE n == h \div HalvingInterval
<1>1. n \in Nat
  BY MoneyAssumption
<1>2. CASE n >= 64
  BY <1>2 DEF Subsidy
<1>3. CASE n < 64
  <2>1. IsFiniteSet(1..n) /\ Cardinality(1..n) = n
    BY <1>1, FS_Interval
  <2>2. Cardinality(SUBSET (1..n)) = 2 ^ n /\ IsFiniteSet(SUBSET (1..n))
    BY <2>1, FS_SUBSET
  <2>3. 2 ^ n \in Nat /\ 2 ^ n # 0
    <3>1. Cardinality(SUBSET (1..n)) \in Nat
      BY <2>2, FS_CardinalityType
    <3>2. SUBSET (1..n) # {}
      OBVIOUS
    <3>3. Cardinality(SUBSET (1..n)) # 0
      BY <2>2, <3>2, FS_EmptySet
    <3> QED
      BY <2>2, <3>1, <3>3
  <2>4. Subsidy(h) = InitialSubsidy \div 2 ^ n
    BY <1>1, <1>3 DEF Subsidy
  <2> DEFINE p == 2 ^ n
  <2>5. p \in Nat \ {0}
    BY <2>3
  <2> HIDE DEF p
  <2>6. InitialSubsidy \div p \in Nat
    BY <2>5, MoneyAssumption
  <2> QED
    BY <2>4, <2>6 DEF p
<1> QED
  BY <1>1, <1>2, <1>3

LEMMA IssuedType ==
    ASSUME NEW k \in Nat
    PROVE  Issued(k) \in Int /\ Issued(k + 1) = Issued(k) + Subsidy(k + 1)
<1> DEFINE f == [h \in 0..k |-> Subsidy(h)]
           g == [h \in 0..(k + 1) |-> Subsidy(h)]
<1>1. \A h \in 0..(k + 1) : g[h] \in Int
  BY Subsidies
<1>2. \A h \in 0..k : f[h] \in Int /\ g[h] \in Int /\ g[h] = f[h]
  BY Subsidies
<1>3. g[k + 1] = Subsidy(k + 1) /\ Subsidy(k + 1) \in Int
  BY Subsidies
<1>4. IsFiniteSet(0..k)
  BY FS_Interval
<1>5. Issued(k) = SumFunctionOnSet(f, 0..k) /\ Issued(k + 1) = SumFunctionOnSet(g, 0..(k + 1))
  BY DEF Issued
<1> HIDE DEF f, g
<1>6. SumFunctionOnSet(g, 0..k) = SumFunctionOnSet(f, 0..k) /\ SumFunctionOnSet(f, 0..k) \in Int
  BY <1>2, <1>4, SumEqual, SumType
<1>7. (0..k) \cup {k + 1} = 0..(k + 1) /\ k + 1 \notin 0..k
  OBVIOUS
<1>8. SumFunctionOnSet(g, (0..k) \cup {k + 1}) = g[k + 1] + SumFunctionOnSet(g, 0..k)
  <2>1. \A x \in (0..k) \cup {k + 1} : g[x] \in Int
    BY <1>1, <1>7
  <2> QED
    BY <1>4, <1>7, <2>1, SumWith
<1>9. SumFunctionOnSet(g, 0..(k + 1)) = g[k + 1] + SumFunctionOnSet(g, 0..k)
  BY <1>7, <1>8
<1> QED
  BY <1>3, <1>5, <1>6, <1>9

LEMMA MadeBy ==
    ASSUME NEW C, NEW o
    PROVE  o \in Created(C) <=> o.tx \in C /\ o \in Outpoints(o.tx)
<1>1. ASSUME NEW t, o \in Outpoints(t) PROVE o.tx = t
  BY <1>1 DEF Outpoints
<1> QED
  BY <1>1 DEF Created

LEMMA InUpTo ==
    ASSUME NEW k \in Nat, NEW t
    PROVE  t \in UpTo(k) <=> \E h \in 0..k : t \in TxsOf(h)
BY DEF UpTo

LEMMA NextUpTo ==
    ASSUME NEW k \in Nat
    PROVE  UpTo(k + 1) = UpTo(k) \cup TxsOf(k + 1)
<1>1. 0..(k + 1) = (0..k) \cup {k + 1}
  OBVIOUS
<1> QED
  BY <1>1 DEF UpTo

LEMMA DatedCoin ==
    ASSUME NEW k \in Nat, NEW U, Dated(U, k), NEW o \in DOMAIN U, o \in Created(UpTo(k))
    PROVE  U[o].value = Output(o).value /\ U[o].to = Output(o).to
<1>1. PICK h \in 0..k : o.tx \in TxsOf(h)
  BY MadeBy, InUpTo
<1>2. U[o] = CoinOf(o, h)
  BY <1>1 DEF Dated
<1> QED
  BY <1>2 DEF CoinOf, Output

LEMMA MoneyInvBalances == MoneyInv => BooksBalance
<1> SUFFICES ASSUME MoneyInv
             PROVE  /\ \A a : Balance(a) = SumFunction([r \in AddressHistory(a) |-> r.received - r.sent])
                    /\ TotalSupply <= SumFunction([h \in 0..Len(connected) |-> Subsidy(h)])
                    /\ \A h \in DOMAIN connected : \A i \in DOMAIN connected[h].txs :
                         \A o \in Outpoints(connected[h].txs[i]) \cap DOMAIN utxo : utxo[o] = CoinOf(o, h)
  BY DEF BooksBalance
<1> DEFINE n == Len(connected)
           C == UpTo(n)
<1>1. n \in Nat /\ DOMAIN connected = 1..n
  BY DEF MoneyInv, Blocks
<1>2. Consistent(C) /\ EntriesOf(history, C) /\ DOMAIN utxo = Unspent(C) /\ Dated(utxo, n)
  BY <1>1 DEF MoneyInv, Blocks, Coins
<1>3. \A o \in DOMAIN utxo : utxo[o].value = Output(o).value /\ utxo[o].to = Output(o).to
  <2>1. \A o \in DOMAIN utxo : o \in Created(C)
    BY <1>2 DEF Unspent
  <2> QED
    BY <1>1, <1>2, <2>1, DatedCoin
<1>4. ASSUME NEW a
      PROVE  Balance(a) = SumFunction([r \in AddressHistory(a) |-> r.received - r.sent])
  <2> HIDE DEF C
  <2>1. Worth([o \in {x \in DOMAIN utxo : utxo[x].to = a} |-> utxo[o]])
          = SumFunctionOnSet([t \in C |-> NetTo(a, t)], C)
    BY <1>2, <1>3, WorthOfUnspent
  <2>2. SumFunction([r \in {x \in history : x.to = a} |-> r.received - r.sent])
          = SumFunctionOnSet([t \in C |-> NetTo(a, t)], C)
    BY <1>2, WorthOfHistory
  <2> QED
    BY <2>1, <2>2 DEF Balance, CoinsOf, AddressHistory
<1>5. TotalSupply <= SumFunction([h \in 0..n |-> Subsidy(h)])
  <2>1. Minted(C) <= Issued(n)
    BY <1>1 DEF MoneyInv, Supplied
  <2> HIDE DEF C
  <2>2. Worth(utxo) = Minted(C)
    BY <1>2, <1>3, WorthOfUnspent
  <2>3. Issued(n) = SumFunction([h \in 0..n |-> Subsidy(h)])
    BY DEF Issued, SumFunction
  <2> QED
    BY <2>1, <2>2, <2>3 DEF TotalSupply
<1>6. ASSUME NEW h \in DOMAIN connected, NEW i \in DOMAIN connected[h].txs,
             NEW o \in Outpoints(connected[h].txs[i]) \cap DOMAIN utxo
      PROVE  utxo[o] = CoinOf(o, h)
  <2>1. h \in 1..n
    BY <1>1
  <2>2. o.tx = connected[h].txs[i]
    BY DEF Outpoints
  <2>3. h \in 0..n /\ o.tx \in TxsOf(h)
    BY <1>1, <2>1, <2>2 DEF TxsOf, ToSet
  <2> QED
    BY <1>2, <2>3 DEF Dated
<1> QED
  BY <1>4, <1>5, <1>6

-----------------------------------------------------------------------------
(* A transaction is applied.                                               *)

LEMMA SequenceGrows ==
    ASSUME NEW s, s \in Seq(ToSet(s)), NEW e
    PROVE  /\ Append(s, e) \in Seq(ToSet(Append(s, e)))
           /\ ToSet(Append(s, e)) = ToSet(s) \cup {e}
           /\ Len(Append(s, e)) = Len(s) + 1 /\ Append(s, e)[Len(s) + 1] = e /\ Append(s, e) # <<>>
           /\ \A i \in 1..Len(s) : Append(s, e)[i] = s[i]
<1> DEFINE E == ToSet(s) \cup {e}
           a == Append(s, e)
<1>1. s \in Seq(E) /\ e \in E
  OBVIOUS
<1> HIDE DEF E
<1>2. /\ a \in Seq(E) /\ Len(a) = Len(s) + 1 /\ a[Len(s) + 1] = e
      /\ \A i \in 1..Len(s) : a[i] = s[i]
  BY <1>1
<1>3. DOMAIN a = 1..(Len(s) + 1) /\ DOMAIN s = 1..Len(s) /\ Len(s) \in Nat
  BY <1>1, <1>2
<1>4. ToSet(a) = E
  <2>1. \A x \in ToSet(a) : x \in E
    BY <1>2, <1>3 DEF ToSet
  <2>2. e \in ToSet(a)
    BY <1>2, <1>3 DEF ToSet
  <2>3. \A x \in ToSet(s) : x \in ToSet(a)
    BY <1>2, <1>3 DEF ToSet
  <2> QED
    BY <2>1, <2>2, <2>3 DEF E
<1>5. a # <<>>
  BY <1>2, <1>3
<1> QED
  BY <1>2, <1>4, <1>5 DEF E

LEMMA More ==
    ASSUME NEW A, NEW B
    PROVE  Created(A \cup B) = Created(A) \cup Created(B) /\ Used(A \cup B) = Used(A) \cup Used(B)
BY DEF Created, Used

LEMMA One ==
    ASSUME NEW t
    PROVE  Created({t}) = Outpoints(t) /\ Used({t}) = ToSet(t.ins)
BY DEF Created, Used

\* A transaction that is new and whose inputs are there fits in.
LEMMA ConsistentWith ==
    ASSUME NEW D, Consistent(D), NEW tx, WellFormed(tx), tx \notin D, ToSet(tx.ins) \subseteq Unspent(D)
    PROVE  /\ Consistent(D \cup {tx})
           /\ Outpoints(tx) \cap Created(D) = {} /\ Outpoints(tx) \cap Used(D) = {}
           /\ Outpoints(tx) \cap ToSet(tx.ins) = {} /\ ToSet(tx.ins) \cap Used(D) = {}
<1>1. \A o \in Outpoints(tx) : o.tx = tx
  BY DEF Outpoints
<1>2. Outpoints(tx) \cap Created(D) = {}
  BY <1>1, MadeBy
<1>3. Used(D) \subseteq Created(D) /\ ToSet(tx.ins) \subseteq Created(D) /\ ToSet(tx.ins) \cap Used(D) = {}
  BY DEF Consistent, Unspent
<1>4. IsFiniteSet(D \cup {tx})
  BY FS_AddElement DEF Consistent
<1>5. \A t \in D : ToSet(t.ins) \subseteq Used(D)
  BY DEF Used
<1>6. \A t, u \in D \cup {tx} : t # u => ToSet(t.ins) \cap ToSet(u.ins) = {}
  <2>1. \A t \in D : ToSet(t.ins) \cap ToSet(tx.ins) = {}
    BY <1>3, <1>5
  <2> QED
    BY <2>1 DEF Consistent
<1>7. Used(D \cup {tx}) \subseteq Created(D \cup {tx})
  <2>1. /\ Used(D \cup {tx}) = Used(D) \cup ToSet(tx.ins)
        /\ Created(D \cup {tx}) = Created(D) \cup Outpoints(tx)
    <3>1. Used({tx}) = ToSet(tx.ins) /\ Created({tx}) = Outpoints(tx)
      BY One
    <3>2. Used(D \cup {tx}) = Used(D) \cup Used({tx}) /\ Created(D \cup {tx}) = Created(D) \cup Created({tx})
      BY More
    <3> QED
      BY <3>1, <3>2
  <2> QED
    BY <1>3, <2>1
<1> QED
  BY <1>2, <1>3, <1>4, <1>6, <1>7 DEF Consistent

LEMMA AppliedIs ==
    ASSUME NEW view, IsView(view), NEW tx
    PROVE  LET V == Applied(view, tx)
               ins == ToSet(tx.ins)
               taken == [o \in ins |-> GetCoin(view, o)]
               created == UNION {Outpoints(view.txs[i]) : i \in DOMAIN view.txs}
               new == [o \in Outpoints(tx) |-> CoinOf(o, view.height)]
           IN /\ IsView(V) /\ V.height = view.height /\ V.txs = Append(view.txs, tx)
              /\ V.added = With(Without(view.added, ins), new)
              /\ V.spent = (view.spent \cup ins) \ Outpoints(tx)
              /\ V.coins = With(view.coins, taken)
              /\ V.undo = With(view.undo, Without(taken, created))
              /\ V.fees = IF tx.coinbase THEN view.fees
                          ELSE view.fees + Worth([i \in DOMAIN tx.ins |-> taken[tx.ins[i]]]) - Worth(tx.outs)
<1> DEFINE ins == ToSet(tx.ins)
           taken == [o \in ins |-> GetCoin(view, o)]
           created == UNION {Outpoints(view.txs[i]) : i \in DOMAIN view.txs}
           new == [o \in Outpoints(tx) |-> CoinOf(o, view.height)]
           txs == Append(view.txs, tx)
           added == With(Without(view.added, ins), new)
           spent == (view.spent \cup ins) \ Outpoints(tx)
           coins == With(view.coins, taken)
           undo == With(view.undo, Without(taken, created))
           fees == IF tx.coinbase THEN view.fees
                   ELSE view.fees + Worth([i \in DOMAIN tx.ins |-> taken[tx.ins[i]]]) - Worth(tx.outs)
           V == [view EXCEPT !.txs = txs, !.added = added, !.spent = spent, !.coins = coins,
                             !.undo = undo, !.fees = fees]
<1>1. Applied(view, tx) = V
  BY DEF Applied
<1> HIDE DEF txs, added, spent, coins, undo, fees
<1>2. /\ IsView(V) /\ V.height = view.height /\ V.txs = txs /\ V.added = added /\ V.spent = spent
      /\ V.coins = coins /\ V.undo = undo /\ V.fees = fees
  BY DEF IsView
<1> QED
  BY <1>1, <1>2 DEF txs, added, spent, coins, undo, fees

\* What is known of a transaction that is about to be applied.
Applicable(view, tx) ==
    LET n == Len(connected)
        T == ToSet(view.txs)
    IN /\ WellFormed(tx) /\ tx \notin UpTo(n) \cup T /\ Belongs(tx, view.height)
       /\ ToSet(tx.ins) \subseteq Unspent(UpTo(n) \cup T)
       /\ tx.coinbase <=> view.txs = <<>>
       /\ tx.coinbase => ToSet(tx.ins) = {}

LEMMA NothingSpent ==
    ASSUME NEW t, ToSet(t.ins) = {}
    PROVE  Worth(Spends(t)) = 0 /\ \A a : WorthTo(a, Spends(t)) = 0
<1>1. DOMAIN Spends(t) = {}
  BY DEF Spends, ToSet
<1> QED
  BY <1>1, WorthIs, SumEmpty

LEMMA AppliedKeeps ==
    ASSUME Blocks, Coins, NEW view, Applying(view), NEW tx, Applicable(view, tx)
    PROVE  Applying(Applied(view, tx)) /\ Applied(view, tx).txs # <<>>
<1> DEFINE n == Len(connected)
           C == UpTo(n)
           T == ToSet(view.txs)
           D == C \cup T
           ins == ToSet(tx.ins)
           taken == [o \in ins |-> GetCoin(view, o)]
           made == UNION {Outpoints(view.txs[i]) : i \in DOMAIN view.txs}
           new == [o \in Outpoints(tx) |-> CoinOf(o, view.height)]
           V == Applied(view, tx)
           W == T \cup {tx}
<1>1. n \in Nat /\ Consistent(C) /\ DOMAIN utxo = Unspent(C) /\ Dated(utxo, n)
  BY DEF Blocks, Coins
<1>2. /\ IsView(view) /\ view.height = n + 1 /\ view.txs \in Seq(T) /\ T \cap C = {}
      /\ \A t \in T : Belongs(t, view.height)
      /\ Consistent(D) /\ DOMAIN view.added = Unspent(T) /\ view.spent = Used(T)
      /\ \A o \in DOMAIN view.added : view.added[o] = CoinOf(o, view.height)
      /\ UndoOf(T, view.undo, n)
      /\ \A o \in Used(T) : /\ o \in DOMAIN view.coins
                            /\ view.coins[o].value = Output(o).value /\ view.coins[o].to = Output(o).to
      /\ view.fees \in Int /\ Minted(T) = Claimed(view) - view.fees
  BY DEF Applying
<1>3. /\ WellFormed(tx) /\ tx \notin D /\ Belongs(tx, view.height) /\ ins \subseteq Unspent(D)
      /\ tx.coinbase <=> view.txs = <<>>
      /\ tx.coinbase => ins = {}
  BY DEF Applicable
<1>4. /\ IsView(V) /\ V.height = view.height /\ V.txs = Append(view.txs, tx)
      /\ V.added = With(Without(view.added, ins), new)
      /\ V.spent = (view.spent \cup ins) \ Outpoints(tx)
      /\ V.coins = With(view.coins, taken)
      /\ V.undo = With(view.undo, Without(taken, made))
      /\ V.fees = IF tx.coinbase THEN view.fees
                  ELSE view.fees + Worth([i \in DOMAIN tx.ins |-> taken[tx.ins[i]]]) - Worth(tx.outs)
  BY <1>2, AppliedIs
<1>5. made = Created(T)
  BY DEF Created, ToSet
<1> HIDE DEF made, V, C, n
<1>6. /\ Consistent(D \cup {tx})
      /\ Outpoints(tx) \cap Created(D) = {} /\ Outpoints(tx) \cap Used(D) = {}
      /\ Outpoints(tx) \cap ins = {} /\ ins \cap Used(D) = {}
  <2> HIDE DEF D
  <2> QED
    BY <1>2, <1>3, ConsistentWith
<1>7. /\ ToSet(V.txs) = W /\ V.txs \in Seq(ToSet(V.txs)) /\ V.txs # <<>>
      /\ view.txs # <<>> => V.txs[1] = view.txs[1] /\ view.txs[1] \in T
      /\ view.txs = <<>> => V.txs[1] = tx /\ T = {}
  <2> HIDE DEF W
  <2>1. /\ V.txs \in Seq(ToSet(V.txs)) /\ ToSet(V.txs) = T \cup {tx}
        /\ Len(V.txs) = Len(view.txs) + 1 /\ V.txs[Len(view.txs) + 1] = tx /\ V.txs # <<>>
        /\ \A i \in 1..Len(view.txs) : V.txs[i] = view.txs[i]
    BY <1>2, <1>4, SequenceGrows
  <2>2. view.txs # <<>> => V.txs[1] = view.txs[1] /\ view.txs[1] \in T
    <3> SUFFICES ASSUME view.txs # <<>> PROVE V.txs[1] = view.txs[1] /\ view.txs[1] \in T
      OBVIOUS
    <3>1. 1 \in 1..Len(view.txs) /\ 1 \in DOMAIN view.txs
      BY <1>2
    <3> QED
      BY <2>1, <3>1 DEF ToSet
  <2>3. view.txs = <<>> => V.txs[1] = tx /\ T = {}
    <3> SUFFICES ASSUME view.txs = <<>> PROVE V.txs[1] = tx /\ T = {}
      OBVIOUS
    <3>1. Len(view.txs) = 0 /\ DOMAIN view.txs = {}
      OBVIOUS
    <3> QED
      BY <2>1, <3>1 DEF ToSet
  <2> QED
    BY <2>1, <2>2, <2>3 DEF W
<1>8. /\ Created(W) = Created(T) \cup Outpoints(tx) /\ Used(W) = Used(T) \cup ins
      /\ Created(D) = Created(C) \cup Created(T) /\ Used(D) = Used(C) \cup Used(T)
  <2>1. Created({tx}) = Outpoints(tx) /\ Used({tx}) = ins
    BY One
  <2>2. Created(W) = Created(T) \cup Created({tx}) /\ Used(W) = Used(T) \cup Used({tx})
    BY More
  <2>3. Created(D) = Created(C) \cup Created(T) /\ Used(D) = Used(C) \cup Used(T)
    BY More
  <2> QED
    BY <2>1, <2>2, <2>3
<1> HIDE DEF W, T
\* The coin of an input: made in this block, or an earlier one.
<1>9. ASSUME NEW o \in ins
      PROVE  \/ o \in DOMAIN view.added /\ o \in Created(T) /\ GetCoin(view, o) = CoinOf(o, view.height)
             \/ o \in DOMAIN utxo /\ o \notin Created(T) /\ o \in Created(C) /\ GetCoin(view, o) = utxo[o]
  <2>1. o \in Created(D) /\ o \notin Used(D)
    BY <1>3 DEF Unspent
  <2>2. CASE o \in Created(T)
    <3>1. o \in DOMAIN view.added
      BY <1>2, <1>8, <2>1, <2>2 DEF Unspent
    <3> QED
      BY <1>2, <2>2, <3>1 DEF GetCoin
  <2>3. CASE o \notin Created(T)
    <3>1. o \in DOMAIN utxo /\ o \notin DOMAIN view.added /\ o \in Created(C)
      BY <1>1, <1>2, <1>8, <2>1, <2>3 DEF Unspent
    <3> QED
      BY <2>3, <3>1 DEF GetCoin
  <2> QED
    BY <2>2, <2>3
<1>10. \A o \in ins : GetCoin(view, o).value = Output(o).value /\ GetCoin(view, o).to = Output(o).to
  <2> SUFFICES ASSUME NEW o \in ins
               PROVE  GetCoin(view, o).value = Output(o).value /\ GetCoin(view, o).to = Output(o).to
    OBVIOUS
  <2>1. CASE GetCoin(view, o) = CoinOf(o, view.height)
    BY <2>1 DEF CoinOf, Output
  <2>2. CASE o \in DOMAIN utxo /\ o \in Created(C) /\ GetCoin(view, o) = utxo[o]
    BY <1>1, <2>2, DatedCoin DEF C
  <2> QED
    BY <1>9, <2>1, <2>2
<1>11. DOMAIN V.added = Unspent(W) /\ V.spent = Used(W)
  <2>1. DOMAIN V.added = (Unspent(T) \ ins) \cup Outpoints(tx)
    BY <1>2, <1>4 DEF With, Without
  <2>2. V.spent = (Used(T) \cup ins) \ Outpoints(tx)
    BY <1>2, <1>4
  <2> QED
    BY <1>6, <1>8, <2>1, <2>2 DEF Unspent
<1>12. \A o \in DOMAIN V.added : V.added[o] = CoinOf(o, V.height)
  BY <1>2, <1>4 DEF With, Without
<1>13. UndoOf(W, V.undo, n)
  <2> DEFINE rest == Without(taken, made)
  <2>1. DOMAIN rest = ins \ Created(T) /\ \A o \in DOMAIN rest : rest[o] = GetCoin(view, o)
    BY <1>5 DEF Without
  <2>2. DOMAIN view.undo = Used(T) \ Created(T) /\ Dated(view.undo, n)
    BY <1>2 DEF UndoOf
  <2>3. /\ DOMAIN V.undo = DOMAIN view.undo \cup DOMAIN rest
        /\ \A o \in DOMAIN rest : V.undo[o] = rest[o]
        /\ \A o \in DOMAIN view.undo \ DOMAIN rest : V.undo[o] = view.undo[o]
    BY <1>4 DEF With
  <2> HIDE DEF rest
  <2>4. DOMAIN V.undo = Used(W) \ Created(W)
    BY <1>6, <1>8, <2>1, <2>2, <2>3
  <2>5. ASSUME NEW h \in 0..n, NEW o \in DOMAIN V.undo, o.tx \in TxsOf(h)
        PROVE  V.undo[o] = CoinOf(o, h)
    <3>1. CASE o \in DOMAIN rest
      <4>1. o \in ins /\ o \notin Created(T)
        BY <2>1, <3>1
      <4>2. o \in DOMAIN utxo /\ GetCoin(view, o) = utxo[o]
        BY <1>9, <4>1
      <4>3. utxo[o] = CoinOf(o, h)
        BY <1>1, <2>5, <4>2 DEF Dated
      <4> QED
        BY <2>1, <2>3, <3>1, <4>2, <4>3
    <3>2. CASE o \in DOMAIN view.undo \ DOMAIN rest
      BY <2>2, <2>3, <2>5, <3>2 DEF Dated
    <3> QED
      BY <2>3, <3>1, <3>2
  <2> QED
    BY <2>4, <2>5 DEF UndoOf, Dated
<1>14. \A o \in Used(W) : /\ o \in DOMAIN V.coins
                          /\ V.coins[o].value = Output(o).value /\ V.coins[o].to = Output(o).to
  BY <1>2, <1>4, <1>8, <1>10 DEF With
<1>15. V.fees \in Int /\ Minted(W) = Claimed(V) - V.fees
  <2>1. WellFormed(tx) /\ IsFiniteSet(T) /\ tx \notin T /\ \A t \in T : WellFormed(t)
    <3>1. IsFiniteSet(D) /\ T \subseteq D /\ \A t \in D : WellFormed(t)
      BY <1>2 DEF Consistent
    <3> QED
      BY <1>3, <3>1, FS_Subset
  <2>2. Minted(W) = Minted(T) + Net(tx)
    <3>1. IsFiniteSet({tx}) /\ T \cap {tx} = {} /\ \A t \in T \cup {tx} : WellFormed(t)
      BY <2>1, FS_Singleton
    <3>2. Minted(T \cup {tx}) = Minted(T) + Minted({tx})
      BY <2>1, <3>1, MintedUnion
    <3>3. Minted({tx}) = Net(tx)
      BY <2>1, MintedOne
    <3> QED
      BY <3>2, <3>3 DEF W
  <2>3. /\ Worth(tx.outs) \in Int /\ Worth(Spends(tx)) \in Int
        /\ Net(tx) = Worth(tx.outs) - Worth(Spends(tx))
    BY <2>1, NetType DEF Net
  <2>4. CASE tx.coinbase
    <3>1. Claimed(view) = 0 /\ Claimed(V) = Worth(tx.outs) /\ V.fees = view.fees
      BY <1>3, <1>4, <1>7, <2>4 DEF Claimed
    <3>2. Worth(Spends(tx)) = 0
      BY <1>3, <2>4, NothingSpent
    <3> QED
      BY <1>2, <2>2, <2>3, <3>1, <3>2
  <2>5. CASE ~tx.coinbase
    <3> DEFINE in == Worth([i \in DOMAIN tx.ins |-> taken[tx.ins[i]]])
    <3>1. in = Worth(Spends(tx))
      <4> DEFINE A == [i \in DOMAIN tx.ins |-> taken[tx.ins[i]]]
      <4>1. DOMAIN A = DOMAIN Spends(tx)
        BY DEF Spends
      <4>2. \A i \in DOMAIN A : A[i].value = Spends(tx)[i].value
        <5>1. \A i \in DOMAIN tx.ins : tx.ins[i] \in ins
          BY DEF ToSet
        <5> QED
          BY <1>10, <5>1 DEF Spends
      <4> HIDE DEF A
      <4>3. Worth(A) = Worth(Spends(tx))
        BY <4>1, <4>2, SameWorth
      <4> QED
        BY <4>3 DEF A
    <3>2. V.fees = view.fees + in - Worth(tx.outs)
      BY <1>4, <2>5
    <3> HIDE DEF in
    <3>3. view.txs # <<>> /\ view.txs[1] \in T /\ Claimed(V) = Claimed(view)
      BY <1>3, <1>7, <2>5 DEF Claimed
    <3>4. Claimed(view) \in Int
      <4>1. Claimed(view) = Worth(view.txs[1].outs) /\ WellFormed(view.txs[1])
        BY <2>1, <3>3 DEF Claimed
      <4> QED
        BY <4>1, NetType
    <3> QED
      BY <1>2, <2>2, <2>3, <3>1, <3>2, <3>3, <3>4
  <2> QED
    BY <2>4, <2>5
<1>16. W \cap C = {} /\ \A t \in W : Belongs(t, V.height)
  BY <1>2, <1>3, <1>4 DEF W
<1>17. Consistent(C \cup W)
  <2>1. C \cup W = D \cup {tx}
    BY DEF W
  <2> QED
    BY <1>6, <2>1
<1>18. ToSet(V.txs) = W
  BY <1>7
<1>19. V.height = n + 1 /\ IsView(V) /\ V.txs \in Seq(W) /\ V.txs # <<>>
  BY <1>2, <1>4, <1>7
<1>20. Applying(V)
  BY <1>11, <1>12, <1>13, <1>14, <1>15, <1>16, <1>17, <1>18, <1>19 DEF Applying, C, n
<1> QED
  BY <1>19, <1>20 DEF V

-----------------------------------------------------------------------------
(* The steps.                                                              *)

LEMMA WorthOfOne ==
    ASSUME NEW A, DOMAIN A = {1}, A[1].value \in Int, NEW a
    PROVE  Worth(A) = A[1].value /\ WorthTo(a, A) = IF A[1].to = a THEN A[1].value ELSE 0
<1> DEFINE f == [k \in DOMAIN A |-> A[k].value]
           g == [k \in DOMAIN A |-> IF A[k].to = a THEN A[k].value ELSE 0]
<1>1. Worth(A) = SumFunctionOnSet(f, DOMAIN A) /\ WorthTo(a, A) = SumFunctionOnSet(g, DOMAIN A)
  BY WorthIs
<1>2. /\ f[1] = A[1].value /\ f[1] \in Int
      /\ g[1] = IF A[1].to = a THEN A[1].value ELSE 0
      /\ g[1] \in Int
  OBVIOUS
<1> HIDE DEF f, g
<1>3. /\ SumFunctionOnSet(f, {} \cup {1}) = f[1] + SumFunctionOnSet(f, {})
      /\ SumFunctionOnSet(g, {} \cup {1}) = g[1] + SumFunctionOnSet(g, {})
  BY <1>2, FS_EmptySet, SumWith
<1>4. SumFunctionOnSet(f, {}) = 0 /\ SumFunctionOnSet(g, {}) = 0
  BY SumEmpty
<1>5. {} \cup {1} = DOMAIN A
  OBVIOUS
<1>6. SumFunctionOnSet(f, DOMAIN A) = f[1] /\ SumFunctionOnSet(g, DOMAIN A) = g[1]
  BY <1>2, <1>3, <1>4, <1>5
<1> QED
  BY <1>1, <1>2, <1>6

LEMMA CoinbaseIs ==
    ASSUME NEW h, NEW reward, NEW a, NEW t, reward \in Int, t = BuildCoinbase(h, reward, a)
    PROVE  /\ WellFormed(t) /\ ToSet(t.ins) = {} /\ t.coinbase = TRUE /\ t.height = h
           /\ DOMAIN t.outs = {1} /\ t.outs[1] = [value |-> reward, to |-> a]
<1>1. /\ t.ins = <<>> /\ t.outs = <<[value |-> reward, to |-> a]>> /\ t.coinbase = TRUE /\ t.height = h
  BY DEF BuildCoinbase
<1>2. DOMAIN t.ins = {} /\ DOMAIN t.outs = {1} /\ t.outs[1] = [value |-> reward, to |-> a]
  BY <1>1
<1>3. IsFiniteSet(DOMAIN t.ins) /\ IsFiniteSet(DOMAIN t.outs)
  <2>1. IsFiniteSet({}) /\ IsFiniteSet({1})
    BY FS_EmptySet, FS_Singleton
  <2> QED
    BY <1>2, <2>1
<1>4. WellFormed(t)
  BY <1>2, <1>3 DEF WellFormed, IsInjective
<1>5. ToSet(t.ins) = {}
  BY <1>2 DEF ToSet
<1> QED
  BY <1>1, <1>2, <1>4, <1>5

LEMMA StartOfBlock ==
    ASSUME Blocks, NEW h, h = Len(connected) + 1
    PROVE  Applying(NewOverlay(h)) /\ NewOverlay(h).txs = <<>>
<1> DEFINE view == NewOverlay(h)
           n == Len(connected)
<1>1. /\ IsView(view) /\ view.height = h /\ view.txs = <<>> /\ view.added = <<>> /\ view.spent = {}
      /\ view.undo = <<>> /\ view.coins = <<>> /\ view.fees = 0
  BY DEF NewOverlay, IsView
<1> HIDE DEF view
<1>2. ToSet(view.txs) = {} /\ view.txs \in Seq({})
  BY <1>1 DEF ToSet
<1>3. Created({}) = {} /\ Used({}) = {} /\ Unspent({}) = {}
  BY DEF Created, Used, Unspent
<1>4. DOMAIN view.added = {} /\ DOMAIN view.undo = {}
  BY <1>1
<1>5. Consistent(UpTo(n) \cup {})
  <2>1. UpTo(n) \cup {} = UpTo(n) /\ n \in 0..n
    BY DEF Blocks
  <2> QED
    BY <2>1 DEF Blocks
<1>6. Minted({}) = 0 /\ Claimed(view) = 0
  BY <1>1, MintedNone DEF Claimed
<1>7. UndoOf({}, view.undo, n)
  BY <1>3, <1>4 DEF UndoOf, Dated
<1>8. Minted({}) = Claimed(view) - view.fees /\ view.fees \in Int
  BY <1>1, <1>6
<1> QED
  BY <1>1, <1>2, <1>3, <1>4, <1>5, <1>7, <1>8 DEF Applying, view

\* What is said of the blocks and the coins stays true if they stay.
LEMMA Kept ==
    ASSUME UNCHANGED <<utxo, history, connected>>,
           Blocks, Coins, Undos, Supplied, EntriesOf(history, UpTo(Len(connected)))
    PROVE  /\ (Blocks /\ Coins /\ Undos /\ Supplied /\ EntriesOf(history, UpTo(Len(connected))))'
           /\ \A view : Applying(view) /\ view = overlay' => Applying(overlay)'
<1>1. \A h : TxsOf(h)' = TxsOf(h)
  BY DEF TxsOf
<1>2. \A k : UpTo(k)' = UpTo(k)
  BY <1>1 DEF UpTo
<1>3. \A U, k : Dated(U, k) => Dated(U, k)'
  BY <1>1 DEF Dated
<1>4. \A T, undo, k : UndoOf(T, undo, k) => UndoOf(T, undo, k)'
  BY <1>3 DEF UndoOf
<1>5. Blocks'
  BY <1>1, <1>2 DEF Blocks
<1>6. Coins'
  BY <1>2, <1>3 DEF Coins
<1>7. Undos'
  BY <1>1, <1>4 DEF Undos
<1>8. Supplied'
  BY <1>2 DEF Supplied
<1>9. EntriesOf(history, UpTo(Len(connected)))'
  BY <1>2
<1>10. \A view : Applying(view) /\ view = overlay' => Applying(overlay)'
  <2> SUFFICES ASSUME NEW view, Applying(view), view = overlay' PROVE Applying(overlay)'
    OBVIOUS
  <2>1. UndoOf(ToSet(view.txs), view.undo, Len(connected))'
    BY <1>4 DEF Applying
  <2>2. Len(connected)' = Len(connected) /\ UpTo(Len(connected))' = UpTo(Len(connected))
    BY <1>2
  <2> QED
    BY <2>1, <2>2 DEF Applying
<1> QED
  BY <1>5, <1>6, <1>7, <1>8, <1>9, <1>10

LEMMA BeginBlockKeeps == MoneyInv /\ BeginBlock => MoneyInv'
<1> SUFFICES ASSUME MoneyInv, BeginBlock PROVE MoneyInv'
  OBVIOUS
<1>1. PICK reward \in Rewards, a \in Address :
        overlay' = Applied(NewOverlay(Len(connected) + 1), BuildCoinbase(Len(connected) + 1, reward, a))
  BY DEF BeginBlock
<1> DEFINE n == Len(connected)
           view == NewOverlay(n + 1)
           tx == BuildCoinbase(n + 1, reward, a)
<1>2. Blocks /\ Coins /\ n \in Nat
  BY DEF MoneyInv, Blocks
<1>3. Applying(view) /\ view.txs = <<>> /\ view.height = n + 1
  BY <1>2, StartOfBlock DEF NewOverlay
<1>4. WellFormed(tx) /\ ToSet(tx.ins) = {} /\ tx.coinbase = TRUE /\ tx.height = n + 1
  <2>1. reward \in Int
    BY MoneyAssumption
  <2>2. tx = BuildCoinbase(n + 1, reward, a)
    OBVIOUS
  <2> HIDE DEF tx
  <2>3. ASSUME NEW h, h = n + 1
        PROVE  WellFormed(tx) /\ ToSet(tx.ins) = {} /\ tx.coinbase = TRUE /\ tx.height = h
    <3> HIDE DEF n
    <3>1. tx = BuildCoinbase(h, reward, a)
      BY <2>2, <2>3
    <3>2. WellFormed(tx)
      BY <2>1, <3>1, CoinbaseIs
    <3>3. ToSet(tx.ins) = {}
      BY <2>1, <3>1, CoinbaseIs
    <3>4. tx.coinbase = TRUE
      BY <2>1, <3>1, CoinbaseIs
    <3>5. tx.height = h
      BY <3>1 DEF BuildCoinbase
    <3> QED
      BY <3>2, <3>3, <3>4, <3>5
  <2> QED
    BY <2>3
<1> HIDE DEF tx, view
<1>5. tx \notin UpTo(n)
  <2> SUFFICES ASSUME tx \in UpTo(n) PROVE FALSE
    OBVIOUS
  <2>1. PICK h \in 0..n : tx \in TxsOf(h)
    BY <1>2, InUpTo
  <2>2. Belongs(tx, h)
    BY <1>2, <2>1 DEF Blocks
  <2> QED
    BY <1>2, <1>4, <2>2 DEF Belongs
<1>6. ToSet(view.txs) = {}
  BY <1>3 DEF ToSet
<1>7. Applicable(view, tx)
  BY <1>3, <1>4, <1>5, <1>6 DEF Applicable, Belongs
<1>8. Applying(overlay') /\ overlay'.txs # <<>>
  BY <1>1, <1>2, <1>3, <1>7, AppliedKeeps DEF tx, view
<1>9. UNCHANGED <<utxo, history, connected>>
  BY DEF BeginBlock
<1>10. /\ (Blocks /\ Coins /\ Undos /\ Supplied /\ EntriesOf(history, UpTo(Len(connected))))'
       /\ Applying(overlay)'
  BY <1>8, <1>9, Kept DEF MoneyInv
<1> QED
  BY <1>8, <1>10 DEF MoneyInv

LEMMA InputsAreThere ==
    ASSUME Blocks, Coins, NEW view, Applying(view)
    PROVE  Visible(view) \subseteq Unspent(UpTo(Len(connected)) \cup ToSet(view.txs))
<1> DEFINE C == UpTo(Len(connected))
           T == ToSet(view.txs)
<1>1. /\ DOMAIN view.added = Unspent(T) /\ view.spent = Used(T) /\ T \cap C = {}
      /\ DOMAIN utxo = Unspent(C)
  BY DEF Applying, Coins
<1>2. Used(C) \subseteq Created(C)
  BY DEF Blocks, Consistent
<1> HIDE DEF C, T
<1>3. Created(C \cup T) = Created(C) \cup Created(T) /\ Used(C \cup T) = Used(C) \cup Used(T)
  BY More
<1>4. Created(C) \cap Created(T) = {}
  BY <1>1, MadeBy
<1> QED
  BY <1>1, <1>2, <1>3, <1>4 DEF Visible, Unspent, C, T

LEMMA NextTransactionKeeps == MoneyInv /\ NextTransaction => MoneyInv'
<1> SUFFICES ASSUME MoneyInv, NextTransaction PROVE MoneyInv'
  OBVIOUS
<1>1. UNCHANGED <<utxo, history, connected>> /\ overlay # <<>>
  BY DEF NextTransaction
<1>2. ASSUME overlay' = <<>> PROVE MoneyInv'
  <2>1. (Blocks /\ Coins /\ Undos /\ Supplied /\ EntriesOf(history, UpTo(Len(connected))))'
    BY <1>1, Kept DEF MoneyInv
  <2> QED
    BY <1>2, <2>1 DEF MoneyInv
<1>3. ASSUME overlay' # <<>> PROVE MoneyInv'
  <2>1. PICK ins \in SeqOf(DOMAIN utxo \cup DOMAIN overlay.added \cup overlay.spent, 2),
             outs \in Payments, lock \in LockTimes :
          /\ CheckSanity(Pays(ins, outs, lock)) /\ Pays(ins, outs, lock) \notin ToSet(overlay.txs)
          /\ overlay' = IF /\ Final(Pays(ins, outs, lock), overlay.height)
                           /\ CheckTransactionInputs(overlay, Pays(ins, outs, lock))
                        THEN Applied(overlay, Pays(ins, outs, lock)) ELSE <<>>
    BY DEF NextTransaction
  <2> DEFINE tx == Pays(ins, outs, lock)
             n == Len(connected)
             T == ToSet(overlay.txs)
             D == UpTo(n) \cup T
  <2>2. CheckTransactionInputs(overlay, tx) /\ overlay' = Applied(overlay, tx)
    BY <1>3, <2>1
  <2>3. tx.coinbase = FALSE /\ tx.ins = ins /\ tx.outs = outs
    BY DEF Pays
  <2>4. CheckSanity(tx) /\ tx \notin T
    BY <2>1
  <2>5. Blocks /\ Coins /\ Applying(overlay) /\ overlay.txs # <<>>
    BY <1>1 DEF MoneyInv
  <2> HIDE DEF tx
  <2>6. ToSet(tx.ins) \subseteq Unspent(D)
    BY <2>2, <2>5, InputsAreThere DEF CheckTransactionInputs
  <2>7. Consistent(D) /\ n \in Nat
    BY <2>5 DEF Applying, Blocks
  <2> HIDE DEF D
  <2>8. tx.ins # <<>> /\ IsInjective(tx.ins)
    BY <2>3, <2>4 DEF CheckSanity
  <2>9. IsFiniteSet(DOMAIN tx.ins) /\ ToSet(tx.ins) # {}
    <3>1. PICK m \in 0..2 : ins \in [1..m -> DOMAIN utxo \cup DOMAIN overlay.added \cup overlay.spent]
      BY DEF SeqOf
    <3>2. DOMAIN tx.ins = 1..m
      BY <2>3, <3>1
    <3>3. m # 0
      <4> SUFFICES ASSUME m = 0 PROVE FALSE
        OBVIOUS
      <4>1. ins \in Seq(DOMAIN utxo \cup DOMAIN overlay.added \cup overlay.spent) /\ Len(ins) = 0
        BY <3>1
      <4> QED
        BY <2>3, <2>8, <4>1
    <3>4. 1 \in DOMAIN tx.ins
      BY <3>2, <3>3
    <3>5. IsFiniteSet(1..m)
      BY FS_Interval
    <3>6. tx.ins[1] \in ToSet(tx.ins)
      BY <3>4 DEF ToSet
    <3> QED
      BY <3>2, <3>5, <3>6
  <2>10. WellFormed(tx)
    <3>1. outs \in Seq([value : Nat, to : Address])
      BY MoneyAssumption
    <3>2. IsFiniteSet(DOMAIN tx.outs) /\ \A i \in DOMAIN tx.outs : tx.outs[i].value \in Int
      <4> DEFINE R == [value : Nat, to : Address]
      <4>1. \A r \in R : r.value \in Int
        OBVIOUS
      <4> HIDE DEF R
      <4>2. outs \in Seq(R)
        BY <3>1 DEF R
      <4>3. DOMAIN outs = 1..Len(outs) /\ Len(outs) \in Nat /\ \A i \in DOMAIN outs : outs[i] \in R
        BY <4>2
      <4>4. IsFiniteSet(1..Len(outs))
        BY <4>3, FS_Interval
      <4> QED
        BY <2>3, <4>1, <4>3, <4>4
    <3>3. \A i \in DOMAIN tx.ins : Output(tx.ins[i]).value \in Int
      <4> SUFFICES ASSUME NEW i \in DOMAIN tx.ins PROVE Output(tx.ins[i]).value \in Int
        OBVIOUS
      <4> DEFINE o == tx.ins[i]
      <4>1. o \in Created(D)
        BY <2>6 DEF ToSet, Unspent
      <4>2. o.tx \in D /\ o \in Outpoints(o.tx)
        BY <4>1, MadeBy
      <4>3. WellFormed(o.tx)
        BY <2>7, <4>2 DEF Consistent
      <4>4. o.index \in DOMAIN o.tx.outs
        BY <4>2 DEF Outpoints
      <4> QED
        BY <4>3, <4>4 DEF WellFormed, Output
    <3> QED
      BY <2>8, <2>9, <3>2, <3>3 DEF WellFormed
  <2>11. tx \notin D
    <3> SUFFICES ASSUME tx \in D PROVE FALSE
      OBVIOUS
    <3>1. ToSet(tx.ins) \subseteq Used(D)
      BY DEF Used
    <3> QED
      BY <2>6, <2>9, <3>1 DEF Unspent
  <2>12. Applicable(overlay, tx)
    BY <2>3, <2>5, <2>6, <2>9, <2>10, <2>11 DEF Applicable, Belongs, D
  <2>13. Applying(overlay') /\ overlay'.txs # <<>>
    BY <2>2, <2>5, <2>12, AppliedKeeps
  <2>14. /\ (Blocks /\ Coins /\ Undos /\ Supplied /\ EntriesOf(history, UpTo(Len(connected))))'
         /\ Applying(overlay)'
    BY <1>1, <2>13, Kept DEF MoneyInv
  <2> QED
    BY <2>13, <2>14 DEF MoneyInv
<1> QED
  BY <1>2, <1>3

\* The rows of a transaction of the block say what it does.
LEMMA RowsAre ==
    ASSUME NEW view, Applying(view), NEW t \in ToSet(view.txs)
    PROVE  /\ \A r \in Rows(view, t) : /\ r.tx = t
                                       /\ r.received = WorthTo(r.to, t.outs)
                                       /\ r.sent = WorthTo(r.to, Spends(t))
           /\ \A r, q \in Rows(view, t) : r.to = q.to => r = q
           /\ \A a : Touches(t, a) => \E r \in Rows(view, t) : r.to = a
<1> DEFINE sources == [i \in DOMAIN t.ins |-> view.coins[t.ins[i]]]
           touched == {t.outs[i].to : i \in DOMAIN t.outs} \cup {sources[i].to : i \in DOMAIN sources}
           row(a) == [to |-> a, tx |-> t, height |-> view.height,
                      received |-> WorthTo(a, t.outs), sent |-> WorthTo(a, sources)]
<1>1. Rows(view, t) = {row(a) : a \in touched}
  BY DEF Rows
<1>2. \A i \in DOMAIN t.ins : sources[i].value = Output(t.ins[i]).value /\ sources[i].to = Output(t.ins[i]).to
  <2>1. \A i \in DOMAIN t.ins : t.ins[i] \in Used(ToSet(view.txs))
    BY DEF Used, ToSet
  <2> QED
    BY <2>1 DEF Applying
<1>3. DOMAIN sources = DOMAIN t.ins /\ DOMAIN Spends(t) = DOMAIN t.ins
  BY DEF Spends
<1>4. \A i \in DOMAIN sources : sources[i].value = Spends(t)[i].value /\ sources[i].to = Spends(t)[i].to
  BY <1>2, <1>3 DEF Spends
<1>5. \A a : Touches(t, a) => a \in touched
  <2>1. \A i \in DOMAIN t.ins : Output(t.ins[i]).to \in {sources[j].to : j \in DOMAIN sources}
    BY <1>2, <1>3
  <2> QED
    BY <2>1 DEF Touches
<1> HIDE DEF sources, touched
<1>6. \A a : WorthTo(a, sources) = WorthTo(a, Spends(t))
  BY <1>3, <1>4, SameWorthTo
<1>7. \A a : /\ row(a).to = a /\ row(a).tx = t /\ row(a).received = WorthTo(a, t.outs)
             /\ row(a).sent = WorthTo(a, Spends(t))
  BY <1>6
<1> HIDE DEF row
<1> QED
  BY <1>1, <1>5, <1>7

LEMMA IndexedEntries ==
    ASSUME Blocks, NEW view, Applying(view), EntriesOf(history, UpTo(Len(connected)))
    PROVE  EntriesOf(Indexed(view), UpTo(Len(connected)) \cup ToSet(view.txs))
<1> DEFINE C == UpTo(Len(connected))
           T == ToSet(view.txs)
           new == UNION {Rows(view, view.txs[i]) : i \in DOMAIN view.txs}
           old == {r \in history : ~\E n \in new : n.to = r.to /\ n.tx = r.tx}
<1>1. Indexed(view) = old \cup new
  BY DEF Indexed
<1>2. /\ \A r \in new : \E t \in T : r \in Rows(view, t)
      /\ \A t \in T : Rows(view, t) \subseteq new
  BY DEF ToSet
<1>3. T \cap C = {}
  BY DEF Applying
<1>4. \A r \in history : r.tx \in C
  BY DEF EntriesOf
<1> HIDE DEF new, C, T
<1>5. \A r \in new : /\ r.tx \in T /\ r \in Rows(view, r.tx)
                     /\ r.received = WorthTo(r.to, r.tx.outs) /\ r.sent = WorthTo(r.to, Spends(r.tx))
  <2> SUFFICES ASSUME NEW r \in new
               PROVE  /\ r.tx \in T /\ r \in Rows(view, r.tx)
                      /\ r.received = WorthTo(r.to, r.tx.outs) /\ r.sent = WorthTo(r.to, Spends(r.tx))
    OBVIOUS
  <2>1. PICK t \in T : r \in Rows(view, t)
    BY <1>2
  <2>2. r.tx = t /\ r.received = WorthTo(r.to, t.outs) /\ r.sent = WorthTo(r.to, Spends(t))
    BY <2>1, RowsAre DEF T
  <2> QED
    BY <2>1, <2>2
<1>6. old = history
  BY <1>3, <1>4, <1>5
<1>7. \A r, q \in new : r.to = q.to /\ r.tx = q.tx => r = q
  BY <1>5, RowsAre DEF T
<1>8. \A t \in T : \A a : Touches(t, a) => \E r \in new : r.to = a /\ r.tx = t
  <2> SUFFICES ASSUME NEW t \in T, NEW a, Touches(t, a) PROVE \E r \in new : r.to = a /\ r.tx = t
    OBVIOUS
  <2>1. PICK r \in Rows(view, t) : r.to = a
    BY RowsAre DEF T
  <2>2. r.tx = t
    BY RowsAre DEF T
  <2> QED
    BY <1>2, <2>1, <2>2
<1> HIDE DEF old
<1>9. EntriesOf(history \cup new, C \cup T)
  <2>1. \A r, q \in history \cup new : r.to = q.to /\ r.tx = q.tx => r = q
    BY <1>3, <1>4, <1>5, <1>7 DEF EntriesOf, C
  <2>2. \A r \in history \cup new :
          /\ r.tx \in C \cup T
          /\ r.received = WorthTo(r.to, r.tx.outs) /\ r.sent = WorthTo(r.to, Spends(r.tx))
    BY <1>4, <1>5 DEF EntriesOf
  <2>3. \A t \in C \cup T : \A a : Touches(t, a) => \E r \in history \cup new : r.to = a /\ r.tx = t
    BY <1>8 DEF EntriesOf, C
  <2> QED
    BY <2>1, <2>2, <2>3 DEF EntriesOf
<1> QED
  BY <1>1, <1>6, <1>9 DEF C, T

\* A block that passes is connected.
LEMMA AcceptedKeeps ==
    ASSUME MoneyInv, overlay # <<>>, overlay' = <<>>,
           NEW n, n = Len(connected), NEW C, C = UpTo(n), NEW T, T = ToSet(overlay.txs),
           Worth(overlay.txs[1].outs) <= Subsidy(overlay.height) + overlay.fees,
           utxo' = With(Without(utxo, overlay.spent), overlay.added),
           history' = Indexed(overlay),
           connected' = Append(connected, [txs |-> overlay.txs, undo |-> overlay.undo])
    PROVE  MoneyInv'
<1> DEFINE block == [txs |-> overlay.txs, undo |-> overlay.undo]
<1>1. Blocks /\ Coins /\ Undos /\ Supplied /\ EntriesOf(history, C) /\ Applying(overlay) /\ overlay.txs # <<>>
  BY DEF MoneyInv
<1>2. n \in Nat /\ connected \in Seq(ToSet(connected))
  BY <1>1 DEF Blocks
<1>3. /\ overlay.height = n + 1 /\ T \cap C = {} /\ Consistent(C \cup T)
      /\ \A t \in T : Belongs(t, n + 1)
      /\ DOMAIN overlay.added = Unspent(T) /\ overlay.spent = Used(T)
      /\ \A o \in DOMAIN overlay.added : overlay.added[o] = CoinOf(o, n + 1)
      /\ UndoOf(T, overlay.undo, n)
      /\ overlay.fees \in Int /\ Minted(T) = Claimed(overlay) - overlay.fees
  BY <1>1 DEF Applying
<1> HIDE DEF block
<1>4. /\ connected' \in Seq(ToSet(connected')) /\ Len(connected') = n + 1 /\ connected'[n + 1] = block
      /\ \A h \in 1..n : connected'[h] = connected[h]
  BY <1>2, SequenceGrows DEF block
<1>5. \A h \in 0..n : TxsOf(h)' = TxsOf(h)
  BY <1>2, <1>4 DEF TxsOf
<1>6. TxsOf(n + 1)' = T
  BY <1>2, <1>4 DEF TxsOf, block
<1>7. \A k \in 0..n : UpTo(k)' = UpTo(k)
  <2> SUFFICES ASSUME NEW k \in 0..n PROVE UpTo(k)' = UpTo(k)
    OBVIOUS
  <2>1. \A h \in 0..k : h \in 0..n
    BY <1>2
  <2> QED
    BY <1>5, <2>1 DEF UpTo
<1>8. UpTo(n + 1)' = C \cup T
  <2>1. 0..(n + 1) = (0..n) \cup {n + 1}
    BY <1>2
  <2> QED
    BY <1>5, <1>6, <2>1 DEF UpTo
<1>9. \A t \in T : \A h \in 0..n : t \notin TxsOf(h)
  BY <1>2, <1>3, InUpTo
<1>10. Blocks'
  <2>1. \A h \in 0..(n + 1) : h \in 0..n \/ h = n + 1
    BY <1>2
  <2>2. \A h, l \in 0..(n + 1) : h # l => TxsOf(h)' \cap TxsOf(l)' = {}
    BY <1>1, <1>5, <1>6, <1>9, <2>1 DEF Blocks
  <2>3. \A h \in 0..(n + 1) : \A t \in TxsOf(h)' : Belongs(t, h)
    BY <1>1, <1>3, <1>5, <1>6, <2>1 DEF Blocks
  <2>4. \A k \in 0..(n + 1) : Consistent(UpTo(k)')
    BY <1>1, <1>3, <1>7, <1>8, <2>1 DEF Blocks
  <2> QED
    BY <1>4, <2>2, <2>3, <2>4 DEF Blocks
<1>11. Coins'
  <2>1. DOMAIN utxo = Unspent(C) /\ Dated(utxo, n)
    BY <1>1 DEF Coins
  <2>2. /\ Created(C \cup T) = Created(C) \cup Created(T) /\ Used(C \cup T) = Used(C) \cup Used(T)
        /\ Created(C) \cap Created(T) = {}
    BY <1>3, More, MadeBy
  <2>3. Used(C) \subseteq Created(C)
    BY <1>1, <1>2 DEF Blocks, Consistent
  <2>4. DOMAIN utxo' = (Unspent(C) \ Used(T)) \cup Unspent(T)
    BY <1>3, <2>1 DEF With, Without
  <2>5. DOMAIN utxo' = Unspent(C \cup T)
    BY <2>2, <2>3, <2>4 DEF Unspent
  <2>6. ASSUME NEW h \in 0..(n + 1), NEW o \in DOMAIN utxo', o.tx \in TxsOf(h)'
        PROVE  utxo'[o] = CoinOf(o, h)
    <3>1. CASE o \in DOMAIN overlay.added
      <4>1. utxo'[o] = CoinOf(o, n + 1)
        BY <1>3, <3>1 DEF With, Without
      <4>2. o.tx \in T
        BY <1>3, <3>1, MadeBy DEF Unspent
      <4>3. h = n + 1
        BY <1>2, <1>5, <1>9, <2>6, <4>2
      <4> QED
        BY <4>1, <4>3
    <3>2. CASE o \notin DOMAIN overlay.added
      <4>1. utxo'[o] = utxo[o] /\ o \in DOMAIN utxo
        BY <1>3, <2>1, <2>4, <3>2 DEF With, Without
      <4>2. o.tx \in C
        BY <2>1, <4>1, MadeBy DEF Unspent
      <4>3. h \in 0..n
        BY <1>2, <1>3, <1>6, <2>6, <4>2
      <4> QED
        BY <1>5, <2>1, <2>6, <4>1, <4>3 DEF Dated
    <3> QED
      BY <3>1, <3>2
  <2>7. Dated(utxo, n + 1)'
    <3> SUFFICES ASSUME TRUE PROVE \A h \in 0..(n + 1)' : \A o \in DOMAIN utxo' :
                                      o.tx \in TxsOf(h)' => utxo'[o] = CoinOf(o, h)
      BY DEF Dated
    <3> QED
      BY <1>4, <2>6
  <2> QED
    BY <1>4, <1>8, <2>5, <2>7 DEF Coins
<1>12. Undos'
  <2> SUFFICES ASSUME NEW k \in 1..(n + 1)
               PROVE  /\ DOMAIN connected'[k].undo = Used(TxsOf(k)') \ Created(TxsOf(k)')
                      /\ \A h \in 0..(k - 1) : \A o \in DOMAIN connected'[k].undo :
                            o.tx \in TxsOf(h)' => connected'[k].undo[o] = CoinOf(o, h)
    BY <1>4 DEF Undos, UndoOf, Dated
  <2>1. \A h \in 0..(k - 1) : TxsOf(h)' = TxsOf(h)
    BY <1>2, <1>5
  <2>2. UndoOf(TxsOf(k)', connected'[k].undo, k - 1)
    <3>1. CASE k \in 1..n
      BY <1>1, <1>2, <1>4, <1>5, <3>1 DEF Undos
    <3>2. CASE k = n + 1
      <4>1. connected'[k].undo = overlay.undo /\ TxsOf(k)' = T /\ k - 1 = n
        BY <1>2, <1>4, <1>6, <3>2 DEF block
      <4> QED
        BY <1>3, <4>1
    <3> QED
      BY <1>2, <3>1, <3>2
  <2> QED
    BY <2>1, <2>2 DEF UndoOf, Dated
<1>13. Supplied'
  <2> SUFFICES ASSUME NEW k \in 0..(n + 1) PROVE Minted(UpTo(k)') <= Issued(k)
    BY <1>4 DEF Supplied
  <2>1. CASE k \in 0..n
    BY <1>1, <1>7, <2>1 DEF Supplied
  <2>2. CASE k = n + 1
    <3>1. Minted(C) <= Issued(n)
      BY <1>1, <1>2 DEF Supplied
    <3>2. Minted(C \cup T) = Minted(C) + Minted(T) /\ Minted(C) \in Int /\ Minted(T) \in Int
      <4>1. IsFiniteSet(C \cup T) /\ \A t \in C \cup T : WellFormed(t)
        BY <1>3 DEF Consistent
      <4>2. IsFiniteSet(C) /\ IsFiniteSet(T)
        BY <4>1, FS_Subset
      <4>3. C \cap T = {}
        BY <1>3
      <4> QED
        BY <4>1, <4>2, <4>3, MintedUnion
    <3>3. Claimed(overlay) = Worth(overlay.txs[1].outs) /\ Claimed(overlay) \in Int
      <4>1. 1 \in DOMAIN overlay.txs
        <5>1. overlay.txs \in Seq(T)
          BY <1>1 DEF Applying
        <5> QED
          BY <1>1, <5>1
      <4>2. WellFormed(overlay.txs[1])
        BY <1>3, <4>1 DEF Consistent, ToSet
      <4> QED
        BY <1>1, <4>2, NetType DEF Claimed
    <3>4. Issued(n) \in Int /\ Issued(n + 1) = Issued(n) + Subsidy(n + 1)
      BY <1>2, IssuedType
    <3>5. Subsidy(n + 1) \in Int
      BY <1>2, Subsidies
    <3>6. Minted(T) <= Subsidy(n + 1)
      <4>1. Claimed(overlay) <= Subsidy(n + 1) + overlay.fees
        BY <1>3, <3>3
      <4> QED
        BY <1>3, <3>3, <3>5, <4>1
    <3>7. Minted(C \cup T) <= Issued(n + 1)
      BY <3>1, <3>2, <3>4, <3>5, <3>6
    <3> QED
      BY <1>8, <2>2, <3>7
  <2> QED
    BY <1>2, <2>1, <2>2
<1>14. EntriesOf(history, UpTo(Len(connected)))'
  <2>1. EntriesOf(history', C \cup T)
    BY <1>1, IndexedEntries
  <2>2. UpTo(Len(connected))' = C \cup T
    BY <1>4, <1>8
  <2> QED
    BY <2>1, <2>2 DEF EntriesOf
<1> QED
  BY <1>10, <1>11, <1>12, <1>13, <1>14 DEF MoneyInv

LEMMA ConnectBlockKeeps == MoneyInv /\ ConnectBlock => MoneyInv'
<1> SUFFICES ASSUME MoneyInv, ConnectBlock PROVE MoneyInv'
  OBVIOUS
<1>1. overlay # <<>> /\ overlay' = <<>>
  BY DEF ConnectBlock
<1>2. CASE UNCHANGED <<utxo, history, connected>>
  <2>1. (Blocks /\ Coins /\ Undos /\ Supplied /\ EntriesOf(history, UpTo(Len(connected))))'
    BY <1>2, Kept DEF MoneyInv
  <2> QED
    BY <1>1, <2>1 DEF MoneyInv
<1>3. CASE /\ Worth(overlay.txs[1].outs) <= Subsidy(overlay.height) + overlay.fees
           /\ utxo' = With(Without(utxo, overlay.spent), overlay.added)
           /\ history' = Indexed(overlay)
           /\ connected' = Append(connected, [txs |-> overlay.txs, undo |-> overlay.undo])
  <2> QED
    BY <1>1, <1>3, AcceptedKeeps
<1> QED
  BY <1>2, <1>3 DEF ConnectBlock

\* The last block is taken back.
LEMMA TakenBackKeeps ==
    ASSUME MoneyInv, overlay' = <<>>, connected # <<>>,
           NEW n, n = Len(connected), NEW m, m = n - 1, NEW C, C = UpTo(m), NEW T, T = TxsOf(n),
           NEW undo, undo = connected[n].undo,
           utxo' = With(Without(utxo, Created(T)), undo),
           history' = {r \in history : r.tx \notin T},
           connected' = Front(connected)
    PROVE  MoneyInv'
<1>1. Blocks /\ Coins /\ Undos /\ Supplied /\ EntriesOf(history, UpTo(n))
  BY DEF MoneyInv
<1>2. connected \in Seq(ToSet(connected)) /\ n \in Nat \ {0} /\ m \in Nat /\ n = m + 1
  BY <1>1 DEF Blocks
<1>3. /\ connected' \in Seq(ToSet(connected')) /\ Len(connected') = m
      /\ \A h \in 1..m : connected'[h] = connected[h]
  <2>1. connected' = SubSeq(connected, 1, m)
    BY DEF Front
  <2>2. /\ connected' \in Seq(ToSet(connected)) /\ Len(connected') = m
        /\ \A h \in 1..m : connected'[h] = connected[h]
    BY <1>2, <2>1
  <2>3. DOMAIN connected' = 1..m
    BY <2>2
  <2>4. \A h \in 1..m : connected'[h] \in ToSet(connected')
    BY <2>3 DEF ToSet
  <2>5. connected' \in Seq(ToSet(connected'))
    <3> DEFINE S == ToSet(connected')
    <3>1. connected' = [h \in 1..m |-> connected'[h]]
      BY <2>2, <2>3
    <3> HIDE DEF S
    <3> QED
      BY <1>2, <2>2, <2>3, <2>4 DEF S
  <2> QED
    BY <2>2, <2>5
<1>4. \A h \in 0..m : TxsOf(h)' = TxsOf(h)
  BY <1>2, <1>3 DEF TxsOf
<1>5. \A k \in 0..m : UpTo(k)' = UpTo(k)
  <2> SUFFICES ASSUME NEW k \in 0..m PROVE UpTo(k)' = UpTo(k)
    OBVIOUS
  <2>1. \A h \in 0..k : h \in 0..m
    BY <1>2
  <2> QED
    BY <1>4, <2>1 DEF UpTo
<1>6. UpTo(n) = C \cup T
  BY <1>2, NextUpTo
<1>7. Consistent(C \cup T) /\ Consistent(C)
  <2>1. n \in 0..n /\ m \in 0..n
    BY <1>2
  <2> QED
    BY <1>1, <1>6, <2>1 DEF Blocks
<1>8. C \cap T = {}
  <2> SUFFICES ASSUME NEW t \in C, t \in T PROVE FALSE
    OBVIOUS
  <2>1. PICK h \in 0..m : t \in TxsOf(h)
    BY <1>2, InUpTo
  <2>2. h \in 0..n /\ n \in 0..n /\ h # n
    BY <1>2
  <2> QED
    BY <1>1, <2>1, <2>2 DEF Blocks
<1>9. DOMAIN utxo = Unspent(C \cup T) /\ Dated(utxo, n)
  BY <1>1, <1>6 DEF Coins
<1>10. UndoOf(T, undo, m)
  <2>1. n \in 1..n
    BY <1>2
  <2> QED
    BY <1>1, <2>1 DEF Undos
<1>11. \A k \in 0..m : k \in 0..n
  BY <1>2
<1>12. Blocks'
  <2>1. \A h, l \in 0..m : h # l => TxsOf(h)' \cap TxsOf(l)' = {}
    BY <1>1, <1>4, <1>11 DEF Blocks
  <2>2. \A h \in 0..m : \A t \in TxsOf(h)' : Belongs(t, h)
    BY <1>1, <1>4, <1>11 DEF Blocks
  <2>3. \A k \in 0..m : Consistent(UpTo(k)')
    BY <1>1, <1>5, <1>11 DEF Blocks
  <2> QED
    BY <1>3, <2>1, <2>2, <2>3 DEF Blocks
<1>13. Coins'
  <2>1. /\ Created(C \cup T) = Created(C) \cup Created(T) /\ Used(C \cup T) = Used(C) \cup Used(T)
        /\ Created(C) \cap Created(T) = {}
    BY <1>8, More, MadeBy
  <2>2. Used(C \cup T) \subseteq Created(C \cup T)
    BY <1>7 DEF Consistent
  <2>3. Used(C) \cap Used(T) = {}
    <3> SUFFICES ASSUME NEW o \in Used(C), o \in Used(T) PROVE FALSE
      OBVIOUS
    <3>1. PICK t \in C : o \in ToSet(t.ins)
      BY DEF Used
    <3>2. PICK u \in T : o \in ToSet(u.ins)
      BY DEF Used
    <3>3. t # u
      BY <1>8
    <3> QED
      BY <1>7, <3>1, <3>2, <3>3 DEF Consistent
  <2>4. DOMAIN undo = Used(T) \ Created(T)
    BY <1>10 DEF UndoOf
  <2>5. DOMAIN utxo' = (Unspent(C \cup T) \ Created(T)) \cup DOMAIN undo
    BY <1>9 DEF With, Without
  <2>6. DOMAIN utxo' = Unspent(C)
    BY <2>1, <2>2, <2>3, <2>4, <2>5 DEF Unspent
  <2>7. ASSUME NEW h \in 0..m, NEW o \in DOMAIN utxo', o.tx \in TxsOf(h)
        PROVE  utxo'[o] = CoinOf(o, h)
    <3>1. CASE o \in DOMAIN undo
      <4>1. utxo'[o] = undo[o]
        BY <1>9, <3>1 DEF With, Without
      <4> QED
        BY <1>10, <2>7, <3>1, <4>1 DEF UndoOf, Dated
    <3>2. CASE o \notin DOMAIN undo
      <4>1. utxo'[o] = utxo[o] /\ o \in DOMAIN utxo
        BY <1>9, <2>5, <3>2 DEF With, Without
      <4> QED
        BY <1>9, <1>11, <2>7, <4>1 DEF Dated
    <3> QED
      BY <3>1, <3>2
  <2>8. Dated(utxo, Len(connected))'
    BY <1>3, <1>4, <2>7 DEF Dated
  <2>9. UpTo(Len(connected))' = C
    BY <1>2, <1>3, <1>5
  <2> QED
    BY <2>6, <2>8, <2>9 DEF Coins
<1>14. Undos'
  <2> SUFFICES ASSUME NEW k \in 1..m
               PROVE  /\ DOMAIN connected'[k].undo = Used(TxsOf(k)') \ Created(TxsOf(k)')
                      /\ \A h \in 0..(k - 1) : \A o \in DOMAIN connected'[k].undo :
                            o.tx \in TxsOf(h)' => connected'[k].undo[o] = CoinOf(o, h)
    BY <1>3 DEF Undos, UndoOf, Dated
  <2>1. \A h \in 0..(k - 1) : TxsOf(h)' = TxsOf(h)
    BY <1>2, <1>4
  <2>2. UndoOf(TxsOf(k)', connected'[k].undo, k - 1)
    BY <1>1, <1>2, <1>3, <1>4 DEF Undos
  <2> QED
    BY <2>1, <2>2 DEF UndoOf, Dated
<1>15. Supplied'
  BY <1>1, <1>3, <1>5, <1>11 DEF Supplied
<1>16. EntriesOf(history, UpTo(Len(connected)))'
  <2>1. EntriesOf(history', C)
    <3>1. \A r \in history' : r \in history /\ r.tx \in C
      BY <1>1, <1>6 DEF EntriesOf
    <3>2. \A t \in C : \A a : Touches(t, a) => \E r \in history' : r.to = a /\ r.tx = t
      <4> SUFFICES ASSUME NEW t \in C, NEW a, Touches(t, a)
                   PROVE  \E r \in history' : r.to = a /\ r.tx = t
        OBVIOUS
      <4>1. PICK r \in history : r.to = a /\ r.tx = t
        BY <1>1, <1>6 DEF EntriesOf
      <4>2. r \in history'
        BY <1>8, <4>1
      <4> QED
        BY <4>1, <4>2
    <3> QED
      BY <1>1, <3>1, <3>2 DEF EntriesOf
  <2>2. UpTo(Len(connected))' = C
    BY <1>2, <1>3, <1>5
  <2> QED
    BY <2>1, <2>2 DEF EntriesOf
<1> QED
  BY <1>12, <1>13, <1>14, <1>15, <1>16 DEF MoneyInv

LEMMA DisconnectBlockKeeps == MoneyInv /\ DisconnectBlock => MoneyInv'
<1> SUFFICES ASSUME MoneyInv, DisconnectBlock PROVE MoneyInv'
  OBVIOUS
<1> DEFINE n == Len(connected)
           txs == connected[n].txs
           made == UNION {Outpoints(txs[i]) : i \in DOMAIN txs}
<1>1. /\ overlay' = <<>> /\ connected # <<>>
      /\ utxo' = With(Without(utxo, made), connected[n].undo)
      /\ history' = Unindexed(txs)
      /\ connected' = Front(connected)
  BY DEF DisconnectBlock, Last
<1>2. n # 0
  BY <1>1 DEF MoneyInv, Blocks
<1>3. TxsOf(n) = ToSet(txs)
  BY <1>2 DEF TxsOf
<1>4. made = Created(TxsOf(n)) /\ Unindexed(txs) = {r \in history : r.tx \notin TxsOf(n)}
  BY <1>3 DEF Created, ToSet, Unindexed
<1> HIDE DEF txs, made
<1> QED
  BY <1>1, <1>4, TakenBackKeeps

LEMMA MoneyInitInv == MoneyInit => MoneyInv
<1> SUFFICES ASSUME MoneyInit PROVE MoneyInv
  OBVIOUS
<1> DEFINE g == GenesisCoinbase
           row == [to |-> Nobody, tx |-> g, height |-> 0, received |-> Subsidy(0), sent |-> 0]
<1>1. /\ utxo = [o \in Outpoints(g) |-> CoinOf(o, 0)] /\ history = {row}
      /\ connected = <<>> /\ overlay = <<>>
  BY DEF MoneyInit
<1>2. /\ WellFormed(g) /\ ToSet(g.ins) = {} /\ g.coinbase = TRUE
      /\ DOMAIN g.outs = {1} /\ g.outs[1] = [value |-> Subsidy(0), to |-> Nobody]
  <2>1. Subsidy(0) \in Int
    BY Subsidies
  <2>2. g = BuildCoinbase(0, Subsidy(0), Nobody)
    BY DEF GenesisCoinbase
  <2> HIDE DEF g
  <2>3. WellFormed(g)
    BY <2>1, <2>2, CoinbaseIs
  <2>4. ToSet(g.ins) = {}
    BY <2>1, <2>2, CoinbaseIs
  <2>5. g.coinbase = TRUE /\ g.outs = <<[value |-> Subsidy(0), to |-> Nobody]>>
    BY <2>2 DEF BuildCoinbase
  <2> QED
    BY <2>3, <2>4, <2>5
<1>3. g.height = 0
  BY DEF GenesisCoinbase, BuildCoinbase
<1>4. Len(connected) = 0 /\ connected \in Seq(ToSet(connected))
  BY <1>1
<1>5. TxsOf(0) = {g} /\ UpTo(0) = {g}
  BY DEF TxsOf, UpTo
<1> HIDE DEF g, row
<1>6. Created({g}) = Outpoints(g) /\ Used({g}) = {}
  BY <1>2, One
<1>7. Consistent({g})
  <2>1. IsFiniteSet({g})
    BY FS_Singleton
  <2> QED
    BY <1>2, <1>6, <2>1 DEF Consistent
<1>8. Blocks
  <2>1. \A h \in 0..Len(connected) : h = 0
    BY <1>4
  <2>2. Belongs(g, 0)
    BY <1>2, <1>3 DEF Belongs
  <2> QED
    BY <1>4, <1>5, <1>7, <2>1, <2>2 DEF Blocks
<1>9. Coins
  <2>1. DOMAIN utxo = Unspent({g}) /\ \A o \in DOMAIN utxo : utxo[o] = CoinOf(o, 0)
    BY <1>1, <1>6 DEF Unspent
  <2>2. \A h \in 0..0 : h = 0
    OBVIOUS
  <2>3. Dated(utxo, 0)
    BY <2>1, <2>2 DEF Dated
  <2> QED
    BY <1>4, <1>5, <2>1, <2>3 DEF Coins
<1>10. Undos
  BY <1>4 DEF Undos
<1>11. Worth(g.outs) = Subsidy(0) /\ \A a : WorthTo(a, g.outs) = IF Nobody = a THEN Subsidy(0) ELSE 0
  <2> DEFINE A == g.outs
  <2>1. DOMAIN A = {1} /\ A[1].value = Subsidy(0) /\ A[1].to = Nobody /\ A[1].value \in Int
    BY <1>2, Subsidies
  <2> HIDE DEF A
  <2> QED
    BY <2>1, WorthOfOne DEF A
<1>12. Worth(Spends(g)) = 0 /\ \A a : WorthTo(a, Spends(g)) = 0
  BY <1>2, NothingSpent
<1>13. Supplied
  <2>1. Minted({g}) = Subsidy(0)
    <3>1. Minted({g}) = Worth(g.outs) - Worth(Spends(g))
      BY <1>2, MintedOne DEF Net
    <3> QED
      BY <1>11, <1>12, <3>1, Subsidies
  <2>2. Issued(0) = Subsidy(0)
    <3> DEFINE f == [h \in 0..0 |-> Subsidy(h)]
    <3>1. Issued(0) = SumFunctionOnSet(f, 0..0)
      BY DEF Issued
    <3>2. f[0] = Subsidy(0) /\ f[0] \in Int
      BY Subsidies
    <3> HIDE DEF f
    <3>3. SumFunctionOnSet(f, {} \cup {0}) = f[0] + SumFunctionOnSet(f, {})
      BY <3>2, FS_EmptySet, SumWith
    <3>4. {} \cup {0} = 0..0
      OBVIOUS
    <3>5. SumFunctionOnSet(f, {}) = 0
      BY SumEmpty
    <3>6. SumFunctionOnSet(f, 0..0) = f[0] + SumFunctionOnSet(f, {})
      BY <3>3, <3>4
    <3> QED
      BY <3>1, <3>2, <3>5, <3>6
  <2>3. Minted(UpTo(0)) <= Issued(0)
    BY <1>5, <2>1, <2>2, Subsidies
  <2> QED
    BY <1>4, <2>3 DEF Supplied
<1>14. EntriesOf(history, UpTo(Len(connected)))
  <2>1. row.to = Nobody /\ row.tx = g /\ row.received = Subsidy(0) /\ row.sent = 0
    BY DEF row
  <2>2. row.received = WorthTo(row.to, g.outs) /\ row.sent = WorthTo(row.to, Spends(g))
    BY <1>11, <1>12, <2>1
  <2>3. \A a : Touches(g, a) => a = Nobody
    <3>1. DOMAIN g.ins = {}
      BY <1>2 DEF ToSet
    <3> QED
      BY <1>2, <3>1 DEF Touches
  <2> QED
    BY <1>1, <1>4, <1>5, <2>1, <2>2, <2>3 DEF EntriesOf
<1> QED
  BY <1>1, <1>8, <1>9, <1>10, <1>13, <1>14 DEF MoneyInv

LEMMA MoneyStep == MoneyInv /\ [MoneyNext]_moneyVars => MoneyInv'
<1> SUFFICES ASSUME MoneyInv, [MoneyNext]_moneyVars PROVE MoneyInv'
  OBVIOUS
<1>1. CASE MoneyNext
  BY <1>1, BeginBlockKeeps, NextTransactionKeeps, ConnectBlockKeeps, DisconnectBlockKeeps DEF MoneyNext
<1>2. CASE UNCHANGED moneyVars
  <2>1. UNCHANGED <<utxo, history, connected>> /\ overlay' = overlay
    BY <1>2 DEF moneyVars
  <2>2. /\ (Blocks /\ Coins /\ Undos /\ Supplied /\ EntriesOf(history, UpTo(Len(connected))))'
        /\ Applying(overlay) => Applying(overlay)'
    BY <2>1, Kept DEF MoneyInv
  <2> QED
    BY <2>1, <2>2 DEF MoneyInv
<1> QED
  BY <1>1, <1>2

\* The history of an address says what its coins are worth, and all coins
\* together are worth no more than the subsidies so far, after any sequence of
\* blocks connected and taken back (_connect_block, _index_block,
\* _disconnect_block).
THEOREM BooksCorrect == MoneySpec => []BooksBalance
<1>1. MoneySpec => []MoneyInv
  BY MoneyInitInv, MoneyStep, PTL DEF MoneySpec
<1> QED
  BY <1>1, MoneyInvBalances, PTL
=============================================================================
