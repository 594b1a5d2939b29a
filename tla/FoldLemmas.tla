----------------------------- MODULE FoldLemmas -----------------------------
(***************************************************************************)
(* What the folds of the community modules compute.  A fold is a recursive *)
(* function on the subsets of a set, chosen by its equation; the lemmas    *)
(* say that there is such a function and what its values are.  They are    *)
(* stated with functions in place of operators: `step' for what is done    *)
(* with an element, `pick' for the order.  The last two sections are about *)
(* recursion on an interval and about sequences of anything.               *)
(***************************************************************************)
EXTENDS Integers, Sequences, FiniteSets, FiniteSetsExt, Functions, TLAPS, FiniteSetTheorems,
        SequenceTheorems, WellFoundedInduction

\* A set of naturals has a least element.
LEMMA Least ==
    ASSUME NEW T \in SUBSET Nat, T # {}
    PROVE  \E x \in T : \A y \in T : x <= y
<1>1. PICK x \in T : \A y \in T : ~ (<<y, x>> \in OpToRel(<, Nat))
  BY WFMin, NatLessThanWellFounded
<1>2. \A y \in T : ~(y < x)
  BY <1>1 DEF OpToRel
<1> QED
  BY <1>2

\* What holds of a finite set if it holds of its proper subsets holds of all.
LEMMA FiniteInduction ==
    ASSUME NEW D, IsFiniteSet(D), NEW T,
           \A s \in SUBSET D : (\A r \in SUBSET D : r \subseteq s /\ r # s => r \in T) => s \in T
    PROVE  SUBSET D \subseteq T
<1> DEFINE Sizes == {k \in Nat : \E s \in SUBSET D : Cardinality(s) = k /\ s \notin T}
<1>1. SUFFICES ASSUME NEW s \in SUBSET D, s \notin T PROVE FALSE
  OBVIOUS
<1>2. Cardinality(s) \in Sizes
  BY <1>1, FS_Subset, FS_CardinalityType
<1>3. PICK k \in Sizes : \A l \in Sizes : k <= l
  <2> HIDE DEF Sizes
  <2>1. Sizes \in SUBSET Nat
    BY DEF Sizes
  <2> QED
    BY <1>2, <2>1, Least
<1>4. PICK r \in SUBSET D : Cardinality(r) = k /\ r \notin T
  BY <1>3
<1>5. PICK q \in SUBSET D : q \subseteq r /\ q # r /\ q \notin T
  BY <1>4
<1>6. IsFiniteSet(r)
  BY FS_Subset
<1>7. Cardinality(q) \in Nat /\ Cardinality(q) < k
  BY <1>4, <1>5, <1>6, FS_Subset, FS_CardinalityType
<1> QED
  BY <1>3, <1>5, <1>7

\* What holds of the empty set, and with every element added, holds of all.
LEMMA SetGrows ==
    ASSUME NEW D, IsFiniteSet(D), NEW T, {} \in T,
           \A s \in SUBSET D : \A y \in D \ s : s \in T => s \cup {y} \in T
    PROVE  D \in T
<1>1. ASSUME NEW s \in SUBSET D, \A r \in SUBSET D : r \subseteq s /\ r # s => r \in T
      PROVE  s \in T
  <2>1. CASE s = {}
    BY <2>1
  <2>2. CASE s # {}
    <3>1. PICK y \in s : TRUE
      BY <2>2
    <3>2. s \ {y} \in T /\ s \ {y} \in SUBSET D /\ y \in D \ (s \ {y})
      BY <1>1, <3>1
    <3>3. (s \ {y}) \cup {y} = s
      BY <3>1
    <3>4. (s \ {y}) \cup {y} \in T
      BY <3>2
    <3> QED
      BY <3>3, <3>4
  <2> QED
    BY <2>1, <2>2
<1>2. SUBSET D \subseteq T
  BY <1>1, FiniteInduction
<1> QED
  BY <1>2

LEMMA MaxOfFinite ==
    ASSUME NEW T \in SUBSET Nat, T # {}, IsFiniteSet(T)
    PROVE  Max(T) \in T /\ \A x \in T : x <= Max(T)
<1> DEFINE G == {s \in SUBSET T : s = {} \/ \E x \in s : \A y \in s : x >= y}
<1>1. {} \in G
  OBVIOUS
<1>2. ASSUME NEW s \in SUBSET T, NEW y \in T \ s, s \in G
      PROVE  s \cup {y} \in G
  <2>1. CASE s = {}
    <3>1. y \in s \cup {y} /\ \A z \in s \cup {y} : y >= z
      BY <2>1
    <3> QED
      BY <3>1
  <2>2. CASE s # {}
    <3>1. PICK x \in s : \A z \in s : x >= z
      BY <1>2, <2>2
    <3>2. x \in Nat /\ y \in Nat /\ \A z \in s : z \in Nat
      OBVIOUS
    <3>3. CASE x >= y
      BY <3>1, <3>3
    <3>4. CASE ~(x >= y)
      <4>1. \A z \in s \cup {y} : y >= z
        BY <3>1, <3>2, <3>4
      <4> QED
        BY <4>1
    <3> QED
      BY <3>3, <3>4
  <2> QED
    BY <2>1, <2>2
<1>3. T \in G
  <2> HIDE DEF G
  <2> QED
    BY <1>1, <1>2, SetGrows
<1>4. \E x \in T : \A y \in T : x >= y
  BY <1>3
<1> QED
  BY <1>4 DEF Max

-----------------------------------------------------------------------------
(* Folds.                                                                  *)

\* An order in which the elements of the subsets of D can be taken.
Picks(D) == {pick \in [(SUBSET D) \ {{}} -> D] : \A s \in (SUBSET D) \ {{}} : pick[s] \in s}

SizedUpTo(D, k) == {s \in SUBSET D : Cardinality(s) <= k}

\* A set shrinks when an element is taken.
LEMMA Shrinks ==
    ASSUME NEW D, IsFiniteSet(D), NEW pick \in Picks(D), NEW s \in SUBSET D, s # {}
    PROVE  /\ pick[s] \in s
           /\ s \ {pick[s]} \in SUBSET D
           /\ Cardinality(s) \in Nat /\ Cardinality(s \ {pick[s]}) \in Nat
           /\ Cardinality(s \ {pick[s]}) = Cardinality(s) - 1
<1>1. IsFiniteSet(s) /\ pick[s] \in s
  BY FS_Subset DEF Picks
<1> QED
  BY <1>1, FS_CardinalityType, FS_RemoveElement

\* What is true of the empty set, and of a set if it is of the rest, is true.
LEMMA FoldStays ==
    ASSUME NEW D, IsFiniteSet(D), NEW pick \in Picks(D), NEW T, {} \in T,
           \A s \in (SUBSET D) \ {{}} : s \ {pick[s]} \in T => s \in T
    PROVE  SUBSET D \subseteq T
<1>1. ASSUME NEW s \in SUBSET D, s # {}
      PROVE  s \ {pick[s]} \in SUBSET D /\ s \ {pick[s]} \subseteq s /\ s \ {pick[s]} # s
  BY <1>1, Shrinks
<1>2. ASSUME NEW s \in SUBSET D, \A r \in SUBSET D : r \subseteq s /\ r # s => r \in T
      PROVE  s \in T
  <2>1. CASE s = {}
    BY <2>1
  <2>2. CASE s # {}
    <3>1. s \ {pick[s]} \in T
      BY <1>1, <1>2, <2>2
    <3>2. s \in (SUBSET D) \ {{}}
      BY <2>2
    <3> QED
      BY <3>1, <3>2
  <2> QED
    BY <2>1, <2>2
<1> QED
  BY <1>2, FiniteInduction

\* g folds `step' from base over the sets of R.
Folds(g, base, step, pick, R) ==
    \A s \in R : g[s] = IF s = {} THEN base ELSE step[<<g[s \ {pick[s]}], pick[s]>>]

\* There is a fold over every finite set.
LEMMA FoldExists ==
    ASSUME NEW D, IsFiniteSet(D), NEW pick \in Picks(D), NEW S, NEW base \in S,
           NEW step \in [S \X D -> S]
    PROVE  \E g \in [SUBSET D -> S] : Folds(g, base, step, pick, SUBSET D)
<1> DEFINE Upto(k) == \E g \in [SizedUpTo(D, k) -> S] : Folds(g, base, step, pick, SizedUpTo(D, k))
           T == {k \in Nat : ~Upto(k)}
<1>1. Upto(0)
  <2> DEFINE g == [s \in SizedUpTo(D, 0) |-> base]
  <2>1. \A s \in SizedUpTo(D, 0) : s = {}
    BY FS_Subset, FS_EmptySet, FS_CardinalityType DEF SizedUpTo
  <2>2. Folds(g, base, step, pick, SizedUpTo(D, 0))
    BY <2>1 DEF Folds
  <2> QED
    BY <2>2
<1>2. ASSUME NEW k \in Nat, Upto(k)
      PROVE  Upto(k + 1)
  <2>1. PICK g \in [SizedUpTo(D, k) -> S] : Folds(g, base, step, pick, SizedUpTo(D, k))
    BY <1>2
  <2> DEFINE value(s) == IF s = {} THEN base ELSE step[<<g[s \ {pick[s]}], pick[s]>>]
             h == [s \in SizedUpTo(D, k + 1) |-> value(s)]
  <2>2. ASSUME NEW s \in SizedUpTo(D, k + 1), s # {}
        PROVE  s \ {pick[s]} \in SizedUpTo(D, k) /\ pick[s] \in D
    <3> HIDE DEF h, value
    <3>0. s \in SUBSET D /\ s # {}
      BY <2>2 DEF SizedUpTo
    <3>1. s \in SUBSET D /\ Cardinality(s) <= k + 1
      BY DEF SizedUpTo
    <3>2. /\ s \ {pick[s]} \in SUBSET D
          /\ Cardinality(s) \in Nat /\ Cardinality(s \ {pick[s]}) \in Nat
          /\ Cardinality(s \ {pick[s]}) = Cardinality(s) - 1
      BY <3>0, Shrinks
    <3>3. s \ {pick[s]} \in SizedUpTo(D, k)
      BY <3>1, <3>2 DEF SizedUpTo
    <3> QED
      BY <2>2, <3>1, <3>3 DEF Picks
  <2>3. \A s \in SizedUpTo(D, k + 1) : value(s) \in S
    BY <2>2
  <2>4. h \in [SizedUpTo(D, k + 1) -> S]
    <3> HIDE DEF value
    <3> QED
      BY <2>3
  <2>5. \A s \in SizedUpTo(D, k) : s \in SizedUpTo(D, k + 1) /\ g[s] = value(s)
    <3>1. SizedUpTo(D, k) \subseteq SizedUpTo(D, k + 1)
      <4>1. \A s \in SizedUpTo(D, k) : Cardinality(s) \in Nat
        BY FS_Subset, FS_CardinalityType DEF SizedUpTo
      <4> QED
        BY <4>1 DEF SizedUpTo
    <3> QED
      BY <2>1, <3>1 DEF Folds
  <2>6. Folds(h, base, step, pick, SizedUpTo(D, k + 1))
    <3>1. ASSUME NEW s \in SizedUpTo(D, k + 1), s # {}
          PROVE  h[s \ {pick[s]}] = g[s \ {pick[s]}]
      BY <2>2, <2>5, <3>1
    <3> QED
      BY <3>1 DEF Folds
  <2> HIDE DEF h
  <2> QED
    BY <2>4, <2>6
<1>3. T = {}
  <2>1. SUFFICES ASSUME T # {} PROVE FALSE
    OBVIOUS
  <2> HIDE DEF Upto
  <2>2. PICK k \in T : \A l \in T : k <= l
    <3> HIDE DEF T
    <3>1. T \in SUBSET Nat
      BY DEF T
    <3> QED
      BY <2>1, <3>1, Least
  <2>3. k # 0
    BY <1>1, <2>2
  <2>4. k - 1 \in Nat /\ k - 1 \notin T
    BY <2>2, <2>3
  <2>5. Upto(k - 1)
    BY <2>4
  <2>6. Upto((k - 1) + 1)
    BY <1>2, <2>4, <2>5
  <2> QED
    BY <2>2, <2>4, <2>6
<1>4. Cardinality(D) \in Nat
  BY FS_CardinalityType
<1>5. SizedUpTo(D, Cardinality(D)) = SUBSET D
  BY FS_Subset DEF SizedUpTo
<1>6. Upto(Cardinality(D))
  <2> HIDE DEF Upto
  <2> QED
    BY <1>3, <1>4
<1> QED
  BY <1>5, <1>6

\* A fold from the left takes the last element of a sequence last.
LastOf(n) == [s \in (SUBSET (1..n)) \ {{}} |-> Max(s)]

LEMMA MaxIsLast ==
    ASSUME NEW n \in Nat, NEW s \in SUBSET (1..n), s # {}
    PROVE  Max(s) \in s /\ \A x \in s : x <= Max(s)
<1> DEFINE T == {n - x : x \in s}
<1>0. \A x \in s : x \in Int /\ x <= n
  OBVIOUS
<1>1. T \in SUBSET Nat /\ T # {}
  <2>1. \A x \in s : n - x \in Nat
    BY <1>0
  <2>2. PICK x \in s : TRUE
    OBVIOUS
  <2>3. n - x \in T
    BY <2>2
  <2> QED
    BY <2>1, <2>3
<1>2. PICK y \in T : \A z \in T : y <= z
  <2> HIDE DEF T
  <2> QED
    BY <1>1, Least
<1>3. PICK x \in s : y = n - x
  BY <1>2
<1>4. ASSUME NEW z \in s PROVE z <= x
  <2>1. n - x <= n - z
    BY <1>2, <1>3
  <2> QED
    BY <1>0, <2>1
<1> QED
  BY <1>4 DEF Max

LEMMA LastPicks == ASSUME NEW n \in Nat PROVE LastOf(n) \in Picks(1..n)
BY MaxIsLast DEF LastOf, Picks

FoldsLeft(g, base, step, n) ==
    \A s \in SUBSET (1..n) : g[s] = IF s = {} THEN base ELSE step[<<g[s \ {Max(s)}], Max(s)>>]

LEMMA FoldLeftExists ==
    ASSUME NEW n \in Nat, NEW S, NEW base \in S, NEW step \in [S \X (1..n) -> S]
    PROVE  \E g \in [SUBSET (1..n) -> S] : FoldsLeft(g, base, step, n)
<1>1. IsFiniteSet(1..n) /\ LastOf(n) \in Picks(1..n)
  BY FS_Interval, LastPicks
<1>2. PICK g \in [SUBSET (1..n) -> S] : Folds(g, base, step, LastOf(n), SUBSET (1..n))
  BY <1>1, FoldExists
<1>3. \A s \in SUBSET (1..n) : s # {} => LastOf(n)[s] = Max(s)
  BY DEF LastOf
<1> QED
  BY <1>2, <1>3 DEF Folds, FoldsLeft

\* What is in S at first, and stays there with every element, is in S.
LEMMA FoldLeftStays ==
    ASSUME NEW n \in Nat, NEW S, NEW g, g[{}] \in S,
           \A s \in SUBSET (1..n) : s # {} /\ g[s \ {Max(s)}] \in S => g[s] \in S
    PROVE  g[1..n] \in S
<1> DEFINE T == {s \in SUBSET (1..n) : g[s] \in S}
<1>1. IsFiniteSet(1..n) /\ LastOf(n) \in Picks(1..n)
  BY FS_Interval, LastPicks
<1>2. {} \in T
  OBVIOUS
<1>3. ASSUME NEW s \in (SUBSET (1..n)) \ {{}}, s \ {LastOf(n)[s]} \in T
      PROVE  s \in T
  BY <1>3 DEF LastOf
<1>4. SUBSET (1..n) \subseteq T
  <2> HIDE DEF T
  <2> DEFINE D == 1..n
  <2>1. IsFiniteSet(D) /\ LastOf(n) \in Picks(D)
    BY <1>1
  <2>2. \A s \in (SUBSET D) \ {{}} : s \ {LastOf(n)[s]} \in T => s \in T
    BY <1>3
  <2> HIDE DEF D
  <2>3. SUBSET D \subseteq T
    BY <1>2, <2>1, <2>2, FoldStays
  <2> QED
    BY <2>3 DEF D
<1> QED
  BY <1>4

-----------------------------------------------------------------------------
(* Sums.                                                                   *)

AnyOf(D) == [s \in (SUBSET D) \ {{}} |-> CHOOSE x \in s : TRUE]

IsSum(f, S, g) ==
    g = [s \in SUBSET S |->
            IF s = {} THEN 0 ELSE f[CHOOSE x \in s : TRUE] + g[s \ {CHOOSE x \in s : TRUE}]]

LEMMA AnyPicks == ASSUME NEW D PROVE AnyOf(D) \in Picks(D)
BY DEF AnyOf, Picks

LEMMA SumIsFold ==
    ASSUME NEW f, NEW S, IsFiniteSet(S), \A x \in S : f[x] \in Int
    PROVE  \E g : /\ IsSum(f, S, g) /\ SumFunctionOnSet(f, S) = g[S]
                  /\ \A s \in SUBSET S : g[s] \in Int
<1> DEFINE g == CHOOSE g : IsSum(f, S, g)
           step == [c \in Int \X S |-> f[c[2]] + c[1]]
<1>1. SumFunctionOnSet(f, S) = g[S]
  BY DEF SumFunctionOnSet, FoldFunctionOnSet, MapThenFoldSet, IsSum
<1>2. IsSum(f, S, g)
  <2>1. step \in [Int \X S -> Int]
    OBVIOUS
  <2>2. PICK h \in [SUBSET S -> Int] : Folds(h, 0, step, AnyOf(S), SUBSET S)
    <3> HIDE DEF step
    <3>1. AnyOf(S) \in Picks(S) /\ 0 \in Int
      BY AnyPicks
    <3> QED
      BY ONLY IsFiniteSet(S), <2>1, <3>1, FoldExists
  <2>3. ASSUME NEW s \in SUBSET S, s # {}
        PROVE  h[s] = f[CHOOSE x \in s : TRUE] + h[s \ {CHOOSE x \in s : TRUE}]
    <3>1. AnyOf(S)[s] = (CHOOSE x \in s : TRUE) /\ (CHOOSE x \in s : TRUE) \in S
      BY <2>3 DEF AnyOf
    <3>2. h[s \ {AnyOf(S)[s]}] \in Int
      OBVIOUS
    <3>3. h[s] = step[<<h[s \ {AnyOf(S)[s]}], AnyOf(S)[s]>>]
      BY <2>2, <2>3 DEF Folds
    <3> QED
      BY <3>1, <3>2, <3>3
  <2>4. h[{}] = 0
    BY <2>2 DEF Folds
  <2>5. IsSum(f, S, h)
    BY <2>3, <2>4 DEF IsSum
  <2> QED
    BY <2>5
<1>3. \A s \in SUBSET S : g[s] \in Int
  <2> DEFINE T == {s \in SUBSET S : g[s] \in Int}
  <2>1. g[{}] = 0
    BY <1>2 DEF IsSum
  <2>2. ASSUME NEW s \in (SUBSET S) \ {{}}, s \ {AnyOf(S)[s]} \in T
        PROVE  s \in T
    <3>1. AnyOf(S)[s] = (CHOOSE x \in s : TRUE) /\ (CHOOSE x \in s : TRUE) \in S
      BY DEF AnyOf
    <3>2. g[s] = f[CHOOSE x \in s : TRUE] + g[s \ {CHOOSE x \in s : TRUE}]
      BY <1>2 DEF IsSum
    <3> HIDE DEF g
    <3> QED
      BY <2>2, <3>1, <3>2
  <2>3. {} \in T
    BY <2>1
  <2>4. SUBSET S \subseteq T
    <3> HIDE DEF T
    <3> QED
      BY <2>2, <2>3, AnyPicks, FoldStays
  <2> QED
    BY <2>4
<1> HIDE DEF g
<1> QED
  BY <1>1, <1>2, <1>3

\* Two sums agree on the sets both are defined on.
LEMMA SumsAgree ==
    ASSUME NEW f, NEW S, IsFiniteSet(S), NEW R \in SUBSET S, NEW g, NEW h,
           IsSum(f, S, g), IsSum(f, R, h)
    PROVE  g[R] = h[R]
<1> DEFINE T == {s \in SUBSET R : g[s] = h[s]}
<1>1. IsFiniteSet(R)
  BY FS_Subset
<1>2. {} \in T
  BY DEF IsSum
<1>3. ASSUME NEW s \in (SUBSET R) \ {{}}, s \ {AnyOf(R)[s]} \in T
      PROVE  s \in T
  <2>1. AnyOf(R)[s] = CHOOSE x \in s : TRUE
    BY DEF AnyOf
  <2>2. s \in SUBSET S
    OBVIOUS
  <2>3. /\ g[s] = f[CHOOSE x \in s : TRUE] + g[s \ {CHOOSE x \in s : TRUE}]
        /\ h[s] = f[CHOOSE x \in s : TRUE] + h[s \ {CHOOSE x \in s : TRUE}]
    BY <2>2 DEF IsSum
  <2> QED
    BY <1>3, <2>1, <2>3
<1>4. SUBSET R \subseteq T
  <2> HIDE DEF T
  <2> QED
    BY <1>1, <1>2, <1>3, AnyPicks, FoldStays
<1> QED
  BY <1>4

LEMMA SumEmpty ==
    ASSUME NEW f
    PROVE  SumFunctionOnSet(f, {}) = 0
<1>1. IsFiniteSet({})
  BY FS_EmptySet
<1>2. PICK g : IsSum(f, {}, g) /\ SumFunctionOnSet(f, {}) = g[{}]
  BY <1>1, SumIsFold
<1> QED
  BY <1>2 DEF IsSum

LEMMA SumType ==
    ASSUME NEW f, NEW S, IsFiniteSet(S), \A x \in S : f[x] \in Int
    PROVE  SumFunctionOnSet(f, S) \in Int
<1>1. PICK g : SumFunctionOnSet(f, S) = g[S] /\ \A s \in SUBSET S : g[s] \in Int
  BY SumIsFold
<1> QED
  BY <1>1

LEMMA SumOfFirst ==
    ASSUME NEW f, NEW S, IsFiniteSet(S), \A x \in S : f[x] \in Int, S # {}
    PROVE  LET x == CHOOSE x \in S : TRUE
           IN  SumFunctionOnSet(f, S) = f[x] + SumFunctionOnSet(f, S \ {x})
<1> DEFINE x == CHOOSE x \in S : TRUE
<1>1. S \ {x} \in SUBSET S /\ IsFiniteSet(S \ {x}) /\ \A y \in S \ {x} : f[y] \in Int
  BY FS_Subset
<1>2. PICK g : IsSum(f, S, g) /\ SumFunctionOnSet(f, S) = g[S]
  BY SumIsFold
<1>3. PICK h : IsSum(f, S \ {x}, h) /\ SumFunctionOnSet(f, S \ {x}) = h[S \ {x}]
  BY <1>1, SumIsFold
<1>4. g[S \ {x}] = h[S \ {x}]
  BY <1>1, <1>2, <1>3, SumsAgree
<1>5. g[S] = f[x] + g[S \ {x}]
  BY <1>2 DEF IsSum
<1> QED
  BY <1>2, <1>3, <1>4, <1>5

\* It does not matter which element is taken first.
LEMMA SumOfRest ==
    ASSUME NEW f, NEW S, IsFiniteSet(S), \A x \in S : f[x] \in Int, NEW y \in S
    PROVE  SumFunctionOnSet(f, S) = f[y] + SumFunctionOnSet(f, S \ {y})
<1> DEFINE T == {s \in SUBSET S : \A z \in s : SumFunctionOnSet(f, s) = f[z] + SumFunctionOnSet(f, s \ {z})}
<1>1. ASSUME NEW s \in SUBSET S, \A r \in SUBSET S : r \subseteq s /\ r # s => r \in T
      PROVE  s \in T
  <2>1. SUFFICES ASSUME NEW z \in s PROVE SumFunctionOnSet(f, s) = f[z] + SumFunctionOnSet(f, s \ {z})
    OBVIOUS
  <2> DEFINE x == CHOOSE x \in s : TRUE
  <2>2. x \in s
    OBVIOUS
  <2>3. IsFiniteSet(s) /\ IsFiniteSet(s \ {x}) /\ IsFiniteSet(s \ {z}) /\ IsFiniteSet((s \ {z}) \ {x})
    BY FS_Subset
  <2>4. SumFunctionOnSet(f, s) = f[x] + SumFunctionOnSet(f, s \ {x})
    BY <2>2, <2>3, SumOfFirst
  <2>5. CASE z = x
    BY <2>4, <2>5
  <2>6. CASE z # x
    <3> HIDE DEF x
    <3>1. s \ {x} \in T /\ s \ {z} \in T
      BY <1>1, <2>2
    <3>2. SumFunctionOnSet(f, s \ {x}) = f[z] + SumFunctionOnSet(f, (s \ {x}) \ {z})
      BY <2>6, <3>1
    <3>3. SumFunctionOnSet(f, s \ {z}) = f[x] + SumFunctionOnSet(f, (s \ {z}) \ {x})
      BY <2>2, <2>6, <3>1
    <3>4. (s \ {x}) \ {z} = (s \ {z}) \ {x}
      OBVIOUS
    <3>5. f[x] \in Int /\ f[z] \in Int
      BY <2>2
    <3>6. SumFunctionOnSet(f, (s \ {z}) \ {x}) \in Int
      BY <2>3, SumType
    <3>7. SumFunctionOnSet(f, s \ {x}) = f[z] + SumFunctionOnSet(f, (s \ {z}) \ {x})
      BY <3>2, <3>4
    <3>8. ASSUME NEW a \in Int, NEW b \in Int, NEW w \in Int
          PROVE  a + (b + w) = b + (a + w)
      OBVIOUS
    <3> QED
      BY <2>4, <3>3, <3>5, <3>6, <3>7, <3>8
  <2> QED
    BY <2>5, <2>6
<1>2. SUBSET S \subseteq T
  <2> HIDE DEF T
  <2> QED
    BY <1>1, FiniteInduction
<1> QED
  BY <1>2

LEMMA SumWith ==
    ASSUME NEW f, NEW S, IsFiniteSet(S), NEW y, y \notin S, \A x \in S \cup {y} : f[x] \in Int
    PROVE  SumFunctionOnSet(f, S \cup {y}) = f[y] + SumFunctionOnSet(f, S)
<1>1. IsFiniteSet(S \cup {y}) /\ (S \cup {y}) \ {y} = S
  BY FS_AddElement
<1> QED
  BY <1>1, SumOfRest

LEMMA SumEqual ==
    ASSUME NEW f, NEW g, NEW S, IsFiniteSet(S), \A x \in S : f[x] \in Int /\ g[x] = f[x]
    PROVE  SumFunctionOnSet(g, S) = SumFunctionOnSet(f, S)
<1> DEFINE T == {s \in SUBSET S : SumFunctionOnSet(g, s) = SumFunctionOnSet(f, s)}
<1>1. {} \in T
  BY SumEmpty
<1>2. ASSUME NEW s \in SUBSET S, NEW y \in S \ s, s \in T
      PROVE  s \cup {y} \in T
  <2>1. IsFiniteSet(s) /\ \A x \in s \cup {y} : f[x] \in Int /\ g[x] \in Int
    BY FS_Subset
  <2>2. /\ SumFunctionOnSet(f, s \cup {y}) = f[y] + SumFunctionOnSet(f, s)
        /\ SumFunctionOnSet(g, s \cup {y}) = g[y] + SumFunctionOnSet(g, s)
    BY <2>1, SumWith
  <2> QED
    BY <1>2, <2>2
<1>3. S \in T
  <2> HIDE DEF T
  <2> QED
    BY <1>1, <1>2, SetGrows
<1> QED
  BY <1>3

LEMMA SumZero ==
    ASSUME NEW f, NEW S, IsFiniteSet(S), \A x \in S : f[x] = 0
    PROVE  SumFunctionOnSet(f, S) = 0
<1> DEFINE T == {s \in SUBSET S : SumFunctionOnSet(f, s) = 0}
<1>1. {} \in T
  BY SumEmpty
<1>2. ASSUME NEW s \in SUBSET S, NEW y \in S \ s, s \in T
      PROVE  s \cup {y} \in T
  <2>1. IsFiniteSet(s) /\ \A x \in s \cup {y} : f[x] \in Int
    BY FS_Subset
  <2>2. SumFunctionOnSet(f, s \cup {y}) = f[y] + SumFunctionOnSet(f, s)
    BY <2>1, SumWith
  <2> QED
    BY <1>2, <2>2
<1>3. S \in T
  <2> HIDE DEF T
  <2> QED
    BY <1>1, <1>2, SetGrows
<1> QED
  BY <1>3

LEMMA SumUnion ==
    ASSUME NEW f, NEW A, NEW B, IsFiniteSet(A), IsFiniteSet(B), A \cap B = {},
           \A x \in A \cup B : f[x] \in Int
    PROVE  SumFunctionOnSet(f, A \cup B) = SumFunctionOnSet(f, A) + SumFunctionOnSet(f, B)
<1> DEFINE T == {s \in SUBSET B :
                   SumFunctionOnSet(f, A \cup s) = SumFunctionOnSet(f, A) + SumFunctionOnSet(f, s)}
<1>1. SumFunctionOnSet(f, A) \in Int
  BY SumType
<1>2. {} \in T
  BY <1>1, SumEmpty
<1>3. ASSUME NEW s \in SUBSET B, NEW y \in B \ s, s \in T
      PROVE  s \cup {y} \in T
  <2>1. IsFiniteSet(s) /\ IsFiniteSet(A \cup s) /\ y \notin A \cup s /\ f[y] \in Int
    BY FS_Subset, FS_Union
  <2>2. SumFunctionOnSet(f, s \cup {y}) = f[y] + SumFunctionOnSet(f, s) /\ SumFunctionOnSet(f, s) \in Int
    BY <2>1, SumWith, SumType
  <2>3. SumFunctionOnSet(f, (A \cup s) \cup {y}) = f[y] + SumFunctionOnSet(f, A \cup s)
    BY <2>1, SumWith
  <2>4. (A \cup s) \cup {y} = A \cup (s \cup {y}) /\ s \cup {y} \in SUBSET B
    OBVIOUS
  <2>5. ASSUME NEW a \in Int, NEW b \in Int, NEW w \in Int
        PROVE  b + (a + w) = a + (b + w)
    OBVIOUS
  <2>6. SumFunctionOnSet(f, A \cup s) = SumFunctionOnSet(f, A) + SumFunctionOnSet(f, s)
    BY <1>3
  <2>7. SumFunctionOnSet(f, A \cup (s \cup {y}))
            = SumFunctionOnSet(f, A) + SumFunctionOnSet(f, s \cup {y})
    <3> HIDE DEF T
    <3>1. SumFunctionOnSet(f, A \cup (s \cup {y})) = f[y] + SumFunctionOnSet(f, A \cup s)
      BY <2>3, <2>4
    <3> QED
      BY <1>1, <2>1, <2>2, <2>5, <2>6, <3>1
  <2> QED
    BY <2>4, <2>7
<1>4. B \in T
  <2> HIDE DEF T
  <2> QED
    BY <1>2, <1>3, SetGrows
<1> QED
  BY <1>4

\* A sum over what m makes of the elements of D.
LEMMA SumReindexed ==
    ASSUME NEW f, NEW g, NEW m, NEW D, IsFiniteSet(D),
           \A x, y \in D : m[x] = m[y] => x = y,
           \A x \in D : g[m[x]] \in Int /\ f[x] = g[m[x]]
    PROVE  SumFunctionOnSet(f, D) = SumFunctionOnSet(g, {m[x] : x \in D})
<1> DEFINE I(s) == {m[x] : x \in s}
           T == {s \in SUBSET D : IsFiniteSet(I(s)) /\ SumFunctionOnSet(f, s) = SumFunctionOnSet(g, I(s))}
<1>1. {} \in T
  BY SumEmpty, FS_EmptySet
<1>2. ASSUME NEW s \in SUBSET D, NEW y \in D \ s, s \in T
      PROVE  s \cup {y} \in T
  <2>1. IsFiniteSet(s) /\ \A x \in s \cup {y} : f[x] \in Int
    BY FS_Subset
  <2>2. IsFiniteSet(I(s)) /\ SumFunctionOnSet(f, s) = SumFunctionOnSet(g, I(s))
    BY <1>2
  <2>3. m[y] \notin I(s) /\ \A z \in I(s) \cup {m[y]} : g[z] \in Int
    OBVIOUS
  <2>4. SumFunctionOnSet(f, s \cup {y}) = f[y] + SumFunctionOnSet(f, s)
    BY <2>1, SumWith
  <2>5. I(s \cup {y}) = I(s) \cup {m[y]} /\ f[y] = g[m[y]] /\ s \cup {y} \in SUBSET D
    OBVIOUS
  <2> HIDE DEF I
  <2>6. SumFunctionOnSet(g, I(s) \cup {m[y]}) = g[m[y]] + SumFunctionOnSet(g, I(s))
    BY <2>2, <2>3, SumWith
  <2>7. IsFiniteSet(I(s) \cup {m[y]})
    BY <2>2, FS_AddElement
  <2> QED
    BY <2>2, <2>4, <2>5, <2>6, <2>7
<1>3. D \in T
  <2> HIDE DEF T
  <2> QED
    BY <1>1, <1>2, SetGrows
<1> QED
  BY <1>3

LEMMA SumMinus ==
    ASSUME NEW f, NEW g, NEW h, NEW S, IsFiniteSet(S),
           \A x \in S : f[x] \in Int /\ g[x] \in Int /\ h[x] = f[x] - g[x]
    PROVE  SumFunctionOnSet(h, S) = SumFunctionOnSet(f, S) - SumFunctionOnSet(g, S)
<1> DEFINE T == {s \in SUBSET S :
                   SumFunctionOnSet(h, s) = SumFunctionOnSet(f, s) - SumFunctionOnSet(g, s)}
<1>1. {} \in T
  BY SumEmpty
<1>2. ASSUME NEW s \in SUBSET S, NEW y \in S \ s, s \in T
      PROVE  s \cup {y} \in T
  <2>1. IsFiniteSet(s) /\ \A x \in s \cup {y} : f[x] \in Int /\ g[x] \in Int /\ h[x] \in Int
    BY FS_Subset
  <2>2. /\ SumFunctionOnSet(f, s \cup {y}) = f[y] + SumFunctionOnSet(f, s)
        /\ SumFunctionOnSet(g, s \cup {y}) = g[y] + SumFunctionOnSet(g, s)
        /\ SumFunctionOnSet(h, s \cup {y}) = h[y] + SumFunctionOnSet(h, s)
    BY <2>1, SumWith
  <2>3. SumFunctionOnSet(f, s) \in Int /\ SumFunctionOnSet(g, s) \in Int
    BY <2>1, SumType
  <2>4. ASSUME NEW a \in Int, NEW b \in Int, NEW u \in Int, NEW w \in Int
        PROVE  (a - b) + (u - w) = (a + u) - (b + w)
    OBVIOUS
  <2>5. h[y] = f[y] - g[y] /\ SumFunctionOnSet(h, s) = SumFunctionOnSet(f, s) - SumFunctionOnSet(g, s)
    BY <1>2
  <2> QED
    BY <2>1, <2>2, <2>3, <2>4, <2>5
<1>3. S \in T
  <2> HIDE DEF T
  <2> QED
    BY <1>1, <1>2, SetGrows
<1> QED
  BY <1>3

\* A sum over a family of disjoint sets is the sum of their sums.
UnionOf(P, D) == UNION {P[x] : x \in D}
Disjoint(P, D) == \A x, y \in D : x # y => P[x] \cap P[y] = {}
SumsOf(f, P, g, D) ==
    \A x \in D : /\ IsFiniteSet(P[x]) /\ g[x] = SumFunctionOnSet(f, P[x])
                 /\ \A z \in P[x] : f[z] \in Int

LEMMA SumOfFamily ==
    ASSUME NEW f, NEW D, IsFiniteSet(D), NEW P, NEW g, Disjoint(P, D), SumsOf(f, P, g, D)
    PROVE  /\ IsFiniteSet(UnionOf(P, D))
           /\ SumFunctionOnSet(f, UnionOf(P, D)) = SumFunctionOnSet(g, D)
<1> USE DEF Disjoint, SumsOf
<1> DEFINE U(s) == UNION {P[x] : x \in s}
           T == {s \in SUBSET D : IsFiniteSet(U(s)) /\ SumFunctionOnSet(f, U(s)) = SumFunctionOnSet(g, s)}
<1>1. {} \in T
  <2>1. U({}) = {}
    OBVIOUS
  <2> QED
    BY <2>1, SumEmpty, FS_EmptySet
<1>2. ASSUME NEW s \in SUBSET D, NEW y \in D \ s, s \in T
      PROVE  s \cup {y} \in T
  <2>1. IsFiniteSet(s) /\ \A x \in s \cup {y} : g[x] \in Int
    BY FS_Subset, SumType
  <2>2. IsFiniteSet(U(s)) /\ SumFunctionOnSet(f, U(s)) = SumFunctionOnSet(g, s)
    BY <1>2
  <2>3. U(s) \cap P[y] = {} /\ \A z \in U(s) \cup P[y] : f[z] \in Int
    OBVIOUS
  <2>4. U(s \cup {y}) = U(s) \cup P[y] /\ s \cup {y} \in SUBSET D
    OBVIOUS
  <2>5. SumFunctionOnSet(g, s \cup {y}) = g[y] + SumFunctionOnSet(g, s)
    BY <2>1, SumWith
  <2>6. IsFiniteSet(P[y]) /\ g[y] = SumFunctionOnSet(f, P[y])
    OBVIOUS
  <2> HIDE DEF U
  <2>7. IsFiniteSet(U(s) \cup P[y])
    BY <2>2, <2>6, FS_Union
  <2>8. SumFunctionOnSet(f, U(s) \cup P[y]) = SumFunctionOnSet(f, U(s)) + SumFunctionOnSet(f, P[y])
    BY <2>2, <2>3, <2>6, SumUnion
  <2>9. SumFunctionOnSet(f, U(s)) \in Int /\ SumFunctionOnSet(f, P[y]) \in Int
    BY <2>2, <2>3, <2>6, SumType
  <2>10. SumFunctionOnSet(f, U(s \cup {y})) = SumFunctionOnSet(g, s \cup {y})
    <3> HIDE DEF T
    <3>1. g[y] \in Int /\ SumFunctionOnSet(g, s) \in Int
      BY <2>2, <2>6, <2>9
    <3>2. SumFunctionOnSet(f, U(s \cup {y})) = SumFunctionOnSet(g, s) + g[y]
      BY <2>2, <2>4, <2>6, <2>8
    <3> QED
      BY <2>5, <3>1, <3>2
  <2> QED
    BY <2>4, <2>7, <2>10
<1>3. D \in T
  <2> HIDE DEF T
  <2> QED
    BY <1>1, <1>2, SetGrows
<1> QED
  BY <1>3 DEF UnionOf

-----------------------------------------------------------------------------
(* Ranks: how many elements come before one, in an order that compares any *)
(* two.                                                                    *)

Ranked(S, R) ==
    /\ \A x \in S : <<x, x>> \notin R
    /\ \A x, y \in S : x # y => <<x, y>> \in R \/ <<y, x>> \in R
    /\ \A x, y, z \in S : <<x, y>> \in R /\ <<y, z>> \in R => <<x, z>> \in R

Rank(S, R, x) == Cardinality({y \in S : <<y, x>> \in R})

LEMMA RankType ==
    ASSUME NEW S, IsFiniteSet(S), NEW R, Ranked(S, R), NEW x \in S
    PROVE  Rank(S, R, x) \in 0..Cardinality(S) - 1
<1> DEFINE B == {y \in S : <<y, x>> \in R}
<1>1. B \subseteq S \ {x}
  BY DEF Ranked
<1>2. IsFiniteSet(S \ {x}) /\ Cardinality(S \ {x}) = Cardinality(S) - 1 /\ Cardinality(S) \in Nat
  BY FS_RemoveElement, FS_CardinalityType
<1> HIDE DEF B
<1>3. IsFiniteSet(B) /\ Cardinality(B) <= Cardinality(S) - 1
  BY <1>1, <1>2, FS_Subset
<1>4. Cardinality(B) \in Nat
  BY <1>3, FS_CardinalityType
<1>5. Cardinality(B) \in 0..Cardinality(S) - 1
  BY <1>2, <1>3, <1>4
<1> QED
  BY <1>5 DEF B, Rank

LEMMA RankGrows ==
    ASSUME NEW S, IsFiniteSet(S), NEW R, Ranked(S, R), NEW x \in S, NEW y \in S, <<x, y>> \in R
    PROVE  Rank(S, R, x) < Rank(S, R, y)
<1> DEFINE B(z) == {v \in S : <<v, z>> \in R}
<1>1. x \in B(y) /\ B(x) \subseteq B(y) \ {x}
  BY DEF Ranked
<1>2. B(y) \in SUBSET S
  OBVIOUS
<1> HIDE DEF B
<1>3. IsFiniteSet(B(y)) /\ Cardinality(B(y)) \in Nat
  BY <1>2, FS_Subset, FS_CardinalityType
<1>4. IsFiniteSet(B(y) \ {x}) /\ Cardinality(B(y) \ {x}) = Cardinality(B(y)) - 1
  BY <1>1, <1>3, FS_RemoveElement
<1>5. IsFiniteSet(B(x)) /\ Cardinality(B(x)) <= Cardinality(B(y)) - 1
  BY <1>1, <1>4, FS_Subset
<1>6. Cardinality(B(x)) \in Nat
  BY <1>5, FS_CardinalityType
<1>7. Cardinality(B(x)) < Cardinality(B(y))
  BY <1>3, <1>5, <1>6
<1> QED
  BY <1>7 DEF B, Rank

\* The ranks are the numbers below the cardinality, each of them once.
LEMMA RanksAreAll ==
    ASSUME NEW S, IsFiniteSet(S), NEW R, Ranked(S, R)
    PROVE  /\ \A x, y \in S : Rank(S, R, x) = Rank(S, R, y) => x = y
           /\ \A k \in 0..Cardinality(S) - 1 : \E x \in S : Rank(S, R, x) = k
<1> DEFINE r == [x \in S |-> Rank(S, R, x)]
           N == 0..Cardinality(S) - 1
<1>1. ASSUME NEW x \in S, NEW y \in S, x # y PROVE Rank(S, R, x) # Rank(S, R, y)
  <2>1. Rank(S, R, x) \in N /\ Rank(S, R, y) \in N
    BY RankType
  <2>2. <<x, y>> \in R \/ <<y, x>> \in R
    BY <1>1 DEF Ranked
  <2> QED
    BY <2>1, <2>2, RankGrows
<1>2. r \in Injection(S, N)
  BY <1>1, RankType DEF Injection, IsInjective
<1>3. Cardinality(S) \in Nat
  BY FS_CardinalityType
<1>4. IsFiniteSet(N) /\ Cardinality(N) = Cardinality(S)
  BY <1>3, FS_Interval
<1> HIDE DEF N
<1>5. r \in Surjection(S, N)
  BY <1>2, <1>4, FS_Injection
<1>6. \A k \in N : \E x \in S : Rank(S, R, x) = k
  BY <1>5 DEF Surjection
<1> QED
  BY <1>1, <1>6 DEF N

\* The ranks in an interval belong to as many elements.
LEMMA RanksBetween ==
    ASSUME NEW S, IsFiniteSet(S), NEW R, Ranked(S, R), NEW a \in Nat, NEW b \in Nat, a <= b
    PROVE  LET C == {x \in S : a <= Rank(S, R, x) /\ Rank(S, R, x) < b}
           IN  /\ IsFiniteSet(C) /\ Cardinality(C) <= b - a
               /\ b <= Cardinality(S) => Cardinality(C) = b - a
<1> DEFINE C == {x \in S : a <= Rank(S, R, x) /\ Rank(S, R, x) < b}
           r == [x \in C |-> Rank(S, R, x)]
           N == a..b - 1
<1>1. \A x \in S : Rank(S, R, x) \in Nat
  BY RankType
<1>2. \A x, y \in C : Rank(S, R, x) = Rank(S, R, y) => x = y
  BY RanksAreAll
<1>3. r \in [C -> N]
  BY <1>1
<1>4. r \in Injection(C, N)
  BY <1>2, <1>3 DEF Injection, IsInjective
<1>5. IsFiniteSet(N) /\ Cardinality(N) = b - a
  <2>1. a \in Int /\ b - 1 \in Int /\ (a > b - 1 <=> a = b)
    OBVIOUS
  <2>2. IsFiniteSet(N) /\ Cardinality(N) = IF a > b - 1 THEN 0 ELSE (b - 1) - a + 1
    BY <2>1, FS_Interval
  <2> QED
    BY <2>1, <2>2
<1>6. ASSUME b <= Cardinality(S) PROVE r \in Surjection(C, N)
  <2>1. ASSUME NEW k \in N PROVE \E x \in C : r[x] = k
    <3>1. Cardinality(S) \in Nat
      BY FS_CardinalityType
    <3>2. k \in 0..Cardinality(S) - 1
      BY <1>6, <3>1
    <3>3. PICK x \in S : Rank(S, R, x) = k
      BY <3>2, RanksAreAll
    <3>4. x \in C
      BY <3>3
    <3> QED
      BY <3>3, <3>4
  <2> QED
    BY <1>3, <2>1 DEF Surjection
<1> HIDE DEF C, N, r
<1>7. IsFiniteSet(C) /\ Cardinality(C) <= Cardinality(N)
  BY <1>4, <1>5, FS_Injection
<1>8. b <= Cardinality(S) => Cardinality(C) = Cardinality(N)
  BY <1>4, <1>5, <1>6, FS_Injection
<1> QED
  BY <1>5, <1>7, <1>8 DEF C

-----------------------------------------------------------------------------
(* Sums that are compared.                                                 *)

LEMMA SumBounds ==
    ASSUME NEW f, NEW S, IsFiniteSet(S), NEW m \in Int, \A x \in S : f[x] \in Int
    PROVE  /\ (\A x \in S : f[x] >= m) => SumFunctionOnSet(f, S) >= m * Cardinality(S)
           /\ (\A x \in S : f[x] <= m) => SumFunctionOnSet(f, S) <= m * Cardinality(S)
<1> DEFINE T == {s \in SUBSET S :
                   /\ (\A x \in s : f[x] >= m) => SumFunctionOnSet(f, s) >= m * Cardinality(s)
                   /\ (\A x \in s : f[x] <= m) => SumFunctionOnSet(f, s) <= m * Cardinality(s)}
<1>1. {} \in T
  BY SumEmpty, FS_EmptySet
<1>2. ASSUME NEW s \in SUBSET S, NEW y \in S \ s, s \in T
      PROVE  s \cup {y} \in T
  <2>1. IsFiniteSet(s) /\ Cardinality(s) \in Nat
    BY FS_Subset, FS_CardinalityType
  <2>2. Cardinality(s \cup {y}) = Cardinality(s) + 1
    BY <2>1, FS_AddElement
  <2>3. SumFunctionOnSet(f, s \cup {y}) = f[y] + SumFunctionOnSet(f, s)
    BY <2>1, SumWith
  <2>4. SumFunctionOnSet(f, s) \in Int /\ f[y] \in Int
    BY <2>1, SumType
  <2>5. \A c \in Nat : m * (c + 1) = m * c + m /\ m * c \in Int
    OBVIOUS
  <2>6. m * Cardinality(s \cup {y}) = m * Cardinality(s) + m /\ m * Cardinality(s) \in Int
    BY <2>1, <2>2, <2>5
  <2>7. ASSUME \A x \in s \cup {y} : f[x] >= m
        PROVE  SumFunctionOnSet(f, s \cup {y}) >= m * Cardinality(s \cup {y})
    <3>1. SumFunctionOnSet(f, s) >= m * Cardinality(s) /\ f[y] >= m
      BY <1>2, <2>7
    <3> QED
      BY <2>3, <2>4, <2>6, <3>1
  <2>8. ASSUME \A x \in s \cup {y} : f[x] <= m
        PROVE  SumFunctionOnSet(f, s \cup {y}) <= m * Cardinality(s \cup {y})
    <3>1. SumFunctionOnSet(f, s) <= m * Cardinality(s) /\ f[y] <= m
      BY <1>2, <2>8
    <3> QED
      BY <2>3, <2>4, <2>6, <3>1
  <2> QED
    BY <2>7, <2>8
<1>3. S \in T
  <2> HIDE DEF T
  <2> QED
    BY <1>1, <1>2, SetGrows
<1> QED
  BY <1>3

\* As many elements that are none of them less have no less a sum.
LEMMA LargestSum ==
    ASSUME NEW f, NEW S, IsFiniteSet(S), \A x \in S : f[x] \in Nat,
           NEW L \in SUBSET S, NEW s \in SUBSET S, Cardinality(L) = Cardinality(s),
           \A x \in L : \A y \in S \ L : f[x] >= f[y]
    PROVE  SumFunctionOnSet(f, s) <= SumFunctionOnSet(f, L)
<1> DEFINE A == L \ s
           B == s \ L
           C == L \cap s
<1>1. IsFiniteSet(L) /\ IsFiniteSet(s) /\ IsFiniteSet(A) /\ IsFiniteSet(B) /\ IsFiniteSet(C)
  BY FS_Subset
<1>2. L \cap s = s \cap L /\ Cardinality(A) = Cardinality(B) /\ Cardinality(A) \in Nat
  <2>1. L \cap s = s \cap L
    OBVIOUS
  <2>2. Cardinality(A) = Cardinality(L) - Cardinality(L \cap s)
    BY <1>1, FS_Difference
  <2>3. Cardinality(B) = Cardinality(s) - Cardinality(s \cap L)
    BY <1>1, FS_Difference
  <2>4. Cardinality(A) \in Nat
    BY <1>1, FS_CardinalityType
  <2> QED
    BY <2>1, <2>2, <2>3, <2>4
<1>3. L = A \cup C /\ A \cap C = {} /\ s = B \cup C /\ B \cap C = {}
  OBVIOUS
<1>4. A \subseteq S /\ B \subseteq S \ L /\ C \subseteq S /\ A \subseteq L
  OBVIOUS
<1> HIDE DEF A, B, C
<1>5. /\ SumFunctionOnSet(f, L) = SumFunctionOnSet(f, A) + SumFunctionOnSet(f, C)
      /\ SumFunctionOnSet(f, s) = SumFunctionOnSet(f, B) + SumFunctionOnSet(f, C)
  BY <1>1, <1>3, <1>4, SumUnion
<1>6. /\ SumFunctionOnSet(f, A) \in Int /\ SumFunctionOnSet(f, B) \in Int /\ SumFunctionOnSet(f, C) \in Int
  BY <1>1, <1>4, SumType
<1>7. SumFunctionOnSet(f, B) <= SumFunctionOnSet(f, A)
  <2>1. CASE A = {}
    <3>1. B = {}
      BY <1>1, <1>2, <2>1, FS_EmptySet
    <3> QED
      BY <2>1, <3>1, SumEmpty
  <2>2. CASE A # {}
    <3> DEFINE V == {f[x] : x \in A}
    <3>1. V \in SUBSET Nat /\ V # {}
      BY <1>4, <2>2
    <3>2. PICK m \in V : \A v \in V : m <= v
      BY <3>1, Least
    <3>3. m \in Nat /\ \A x \in A : f[x] >= m
      BY <1>4, <3>1, <3>2
    <3>4. \A y \in B : f[y] <= m
      BY <1>4, <3>2
    <3>5. SumFunctionOnSet(f, A) >= m * Cardinality(A) /\ SumFunctionOnSet(f, B) <= m * Cardinality(A)
      BY <1>1, <1>2, <1>4, <3>3, <3>4, SumBounds
    <3>6. m * Cardinality(A) \in Int
      BY <1>2, <3>3
    <3> QED
      BY <1>6, <3>5, <3>6
  <2> QED
    BY <2>1, <2>2
<1> QED
  BY <1>5, <1>6, <1>7

-----------------------------------------------------------------------------
(* Recursion on an interval.                                               *)

\* What holds of 0, and of a number if it holds of the one before, holds of
\* all.
LEMMA IntervalInduction ==
    ASSUME NEW n \in Nat, NEW T, 0 \in T, \A i \in 1..n : i - 1 \in T => i \in T
    PROVE  0..n \subseteq T
<1> DEFINE B == (0..n) \ T
<1>1. SUFFICES ASSUME B # {} PROVE FALSE
  OBVIOUS
<1>2. PICK x \in B : \A y \in B : x <= y
  <2> HIDE DEF B
  <2>1. B \in SUBSET Nat
    BY DEF B
  <2> QED
    BY <1>1, <2>1, Least
<1>3. x \in 1..n /\ x - 1 \in T
  BY <1>2
<1> QED
  BY <1>2, <1>3

Recurs(g, base, step, n) ==
    \A i \in 0..n : g[i] = IF i = 0 THEN base ELSE step[<<g[i - 1], i>>]

\* A recursive function on an interval exists.
LEMMA RecursionExists ==
    ASSUME NEW n \in Nat, NEW S, NEW base \in S, NEW step \in [S \X (1..n) -> S]
    PROVE  \E g \in [0..n -> S] : Recurs(g, base, step, n)
<1> DEFINE T == {k \in 0..n : \E g \in [0..k -> S] : Recurs(g, base, step, k)}
<1>1. 0 \in T
  <2> DEFINE g == [i \in 0..0 |-> base]
  <2>1. g \in [0..0 -> S] /\ Recurs(g, base, step, 0)
    BY DEF Recurs
  <2> QED
    BY <2>1
<1>2. ASSUME NEW k \in 1..n, k - 1 \in T
      PROVE  k \in T
  <2>1. PICK g \in [0..k - 1 -> S] : Recurs(g, base, step, k - 1)
    BY <1>2
  <2> DEFINE h == [i \in 0..k |-> IF i = k THEN step[<<g[k - 1], k>>] ELSE g[i]]
  <2>2. h \in [0..k -> S]
    <3>1. g[k - 1] \in S /\ <<g[k - 1], k>> \in S \X (1..n)
      BY <2>1
    <3>2. step[<<g[k - 1], k>>] \in S
      BY <3>1
    <3> QED
      BY <2>1, <3>2
  <2>3. ASSUME NEW i \in 0..k
        PROVE  h[i] = IF i = 0 THEN base ELSE step[<<h[i - 1], i>>]
    <3>1. CASE i = k
      <4>1. h[i - 1] = g[k - 1]
        BY <3>1
      <4>2. h[i] = step[<<g[k - 1], k>>] /\ i # 0
        BY <3>1
      <4> HIDE DEF h
      <4> QED
        BY <3>1, <4>1, <4>2
    <3>2. CASE i # k
      <4>1. i \in 0..k - 1 /\ h[i] = g[i] /\ (i # 0 => h[i - 1] = g[i - 1])
        BY <3>2
      <4>2. g[i] = IF i = 0 THEN base ELSE step[<<g[i - 1], i>>]
        BY <2>1, <4>1 DEF Recurs
      <4> HIDE DEF h
      <4> QED
        BY <4>1, <4>2
    <3> QED
      BY <3>1, <3>2
  <2>4. Recurs(h, base, step, k)
    <3> HIDE DEF h
    <3> QED
      BY <2>3 DEF Recurs
  <2> QED
    BY <2>2, <2>4
<1>3. 0..n \subseteq T
  <2> HIDE DEF T
  <2> QED
    BY <1>1, <1>2, IntervalInduction
<1> QED
  BY <1>3

-----------------------------------------------------------------------------
(* Sequences of anything.                                                  *)

IsSequence(s) == s \in Seq(Range(s))

LEMMA SequenceShape ==
    ASSUME NEW s, IsSequence(s)
    PROVE  Len(s) \in Nat /\ DOMAIN s = 1..Len(s) /\ s = [i \in 1..Len(s) |-> s[i]]
BY DEF IsSequence

LEMMA SequenceOf ==
    ASSUME NEW n \in Nat, NEW s, s = [i \in 1..n |-> s[i]]
    PROVE  IsSequence(s) /\ Len(s) = n
<1>1. s \in [1..n -> Range(s)]
  BY DEF Range
<1>2. s \in Seq(Range(s)) /\ Len(s) = n
  BY <1>1
<1> QED
  BY <1>2 DEF IsSequence

LEMMA AnySequence ==
    ASSUME NEW S, NEW s \in Seq(S)
    PROVE  IsSequence(s)
<1>1. Len(s) \in Nat /\ s = [i \in 1..Len(s) |-> s[i]]
  OBVIOUS
<1> QED
  BY <1>1, SequenceOf

LEMMA SameSequence ==
    ASSUME NEW s, NEW t, IsSequence(s), IsSequence(t), Len(s) = Len(t),
           \A i \in 1..Len(s) : s[i] = t[i]
    PROVE  s = t
<1>1. s = [i \in 1..Len(s) |-> s[i]] /\ t = [i \in 1..Len(s) |-> t[i]]
  BY SequenceShape
<1>2. [i \in 1..Len(s) |-> s[i]] = [i \in 1..Len(s) |-> t[i]]
  OBVIOUS
<1> QED
  BY <1>1, <1>2

LEMMA Wider ==
    ASSUME NEW s, IsSequence(s), NEW S, Range(s) \subseteq S
    PROVE  s \in Seq(S)
BY DEF IsSequence

LEMMA AppendItem ==
    ASSUME NEW s, IsSequence(s), NEW x
    PROVE  LET t == Append(s, x)
           IN  IsSequence(t) /\ Len(t) = Len(s) + 1 /\ t[Len(s) + 1] = x /\ \A i \in 1..Len(s) : t[i] = s[i]
<1> DEFINE S == Range(s) \cup {x}
<1>1. s \in Seq(S) /\ x \in S
  BY Wider
<1> HIDE DEF S
<1>2. Append(s, x) \in Seq(S) /\ Len(Append(s, x)) = Len(s) + 1 /\ Append(s, x)[Len(s) + 1] = x
      /\ \A i \in 1..Len(s) : Append(s, x)[i] = s[i]
  BY <1>1
<1> QED
  BY <1>2, AnySequence

LEMMA PartItems ==
    ASSUME NEW s, IsSequence(s), NEW m \in 1..Len(s) + 1, NEW n \in m - 1..Len(s)
    PROVE  LET t == SubSeq(s, m, n)
           IN  IsSequence(t) /\ Len(t) = n - m + 1 /\ \A i \in 1..n - m + 1 : t[i] = s[m + i - 1]
<1> DEFINE S == Range(s)
<1>1. s \in Seq(S)
  BY Wider
<1> HIDE DEF S
<1>2. SubSeq(s, m, n) \in Seq(S) /\ Len(SubSeq(s, m, n)) = n - m + 1
      /\ \A i \in 1..n - m + 1 : SubSeq(s, m, n)[i] = s[m + i - 1]
  BY <1>1, SubSeqProperties
<1> QED
  BY <1>2, AnySequence

LEMMA TailItems ==
    ASSUME NEW s, IsSequence(s), s # <<>>
    PROVE  IsSequence(Tail(s)) /\ Len(Tail(s)) = Len(s) - 1 /\ Len(s) >= 1 /\ \A i \in 1..Len(s) - 1 : Tail(s)[i] = s[i + 1]
<1> DEFINE S == Range(s)
<1>1. s \in Seq(S)
  BY Wider
<1> HIDE DEF S
<1>2. Tail(s) \in Seq(S) /\ Len(Tail(s)) = Len(s) - 1 /\ Len(s) >= 1
      /\ \A i \in 1..Len(s) - 1 : Tail(s)[i] = s[i + 1]
  BY <1>1, HeadTailProperties
<1> QED
  BY <1>2, AnySequence

LEMMA ConcatItems ==
    ASSUME NEW s, IsSequence(s), NEW u, IsSequence(u)
    PROVE  LET t == s \o u
           IN  /\ IsSequence(t) /\ Len(t) = Len(s) + Len(u)
               /\ \A i \in 1..Len(s) : t[i] = s[i]
               /\ \A i \in 1..Len(u) : t[Len(s) + i] = u[i]
<1> DEFINE S == Range(s) \cup Range(u)
<1>1. s \in Seq(S) /\ u \in Seq(S)
  BY Wider
<1> HIDE DEF S
<1>2. s \o u \in Seq(S) /\ Len(s \o u) = Len(s) + Len(u)
      /\ (\A i \in 1..Len(s) : (s \o u)[i] = s[i])
      /\ (\A i \in 1..Len(u) : (s \o u)[Len(s) + i] = u[i])
  BY <1>1, ConcatProperties
<1> QED
  BY <1>2, AnySequence

=============================================================================
