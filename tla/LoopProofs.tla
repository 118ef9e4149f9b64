------------------------------ MODULE LoopProofs ------------------------------
(***************************************************************************)
(* Facts that proofs about loops rest on: a loop is modelled as a function *)
(* of the number of its turns, or of the set of what it has yet to come    *)
(* to, and what each turn keeps the loop keeps, as the first turn not to   *)
(* keep it would show.                                                     *)
(***************************************************************************)
EXTENDS Integers, FiniteSetTheorems, WellFoundedInduction, TLAPS

\* A set of naturals that is not empty has a least element: the price that
\* begin() of a map ordered by < points to.
LEMMA LeastNatural ==
    ASSUME NEW S \in SUBSET Nat, S # {}
    PROVE  \E x \in S : \A y \in S : x <= y
<1> DEFINE R == OpToRel(<, Nat)
<1>1. \E x \in S : \A y \in S : <<y, x>> \notin R
  BY NatLessThanWellFounded, WFMin
<1>2. \A x, y \in Nat : <<y, x>> \in R <=> y < x
  BY DEF OpToRel
<1> HIDE DEF R
<1>3. PICK x \in S : \A y \in S : <<y, x>> \notin R
  BY <1>1
<1>4. \A y \in S : ~(y < x)
  BY <1>2, <1>3
<1> QED BY <1>4

\* And one that is bounded has a greatest: begin() of a map ordered by >.
LEMMA GreatestNatural ==
    ASSUME NEW n \in Nat, NEW S \in SUBSET (0..n), S # {}
    PROVE  \E x \in S : \A y \in S : x >= y
<1> DEFINE T == {n - x : x \in S}
<1>1. T \in SUBSET Nat /\ T # {}
  <2>1. \A x \in S : n - x \in Nat
    OBVIOUS
  <2> QED BY <2>1
<1>2. PICK t \in T : \A u \in T : t <= u
  BY <1>1, LeastNatural
<1>3. PICK x \in S : t = n - x
  BY <1>2
<1>4. \A y \in S : n - x <= n - y
  BY <1>2, <1>3
<1> QED BY <1>4

-----------------------------------------------------------------------------
\* A loop of n turns that leaves its start good, and leaves good what each turn
\* finds good, leaves good what every turn makes.
LEMMA EveryTurn ==
    ASSUME NEW n \in Nat, NEW Good \in SUBSET (0..n), 0 \in Good,
           \A i \in 1..n : i - 1 \in Good => i \in Good
    PROVE  Good = 0..n
<1> SUFFICES ASSUME (0..n) \ Good # {} PROVE FALSE
  OBVIOUS
<1>1. PICK i \in (0..n) \ Good : \A j \in (0..n) \ Good : i <= j
  <2>1. (0..n) \ Good \in SUBSET Nat
    OBVIOUS
  <2> QED BY <2>1, LeastNatural
<1>2. i \in 1..n
  BY <1>1
<1>3. i - 1 \in Good
  BY <1>1, <1>2
<1> QED BY <1>1, <1>2, <1>3

\* A loop that takes the elements of a set one after the other, in any order:
\* what is so of the empty set, and of any set whose rest it is so of once one
\* element is taken, is so of all its subsets.
LEMMA EverySubset ==
    ASSUME NEW S, IsFiniteSet(S), NEW Good \in SUBSET (SUBSET S), {} \in Good,
           \A s \in SUBSET S : s # {} =>
               \E x \in s : s \ {x} \in Good => s \in Good
    PROVE  Good = SUBSET S
<1> DEFINE n == Cardinality(S)
           M == {m \in 0..n : \A s \in SUBSET S : Cardinality(s) <= m => s \in Good}
<1>1. n \in Nat
  BY FS_CardinalityType
<1>2. \A s \in SUBSET S : IsFiniteSet(s) /\ Cardinality(s) \in 0..n
  BY FS_Subset, FS_CardinalityType
<1> HIDE DEF n
<1>3. 0 \in M
  <2> SUFFICES ASSUME NEW s \in SUBSET S, Cardinality(s) <= 0 PROVE s \in Good
    BY <1>1
  <2>1. s = {}
    BY <1>1, <1>2, FS_EmptySet
  <2> QED BY <2>1
<1>4. ASSUME NEW i \in 1..n, i - 1 \in M PROVE i \in M
  <2>1. ASSUME NEW s \in SUBSET S, Cardinality(s) <= i, s # {}
        PROVE  s \in Good
    <3>1. PICK x \in s : s \ {x} \in Good => s \in Good
      BY <2>1
    <3>2. Cardinality(s \ {x}) = Cardinality(s) - 1
      BY <1>2, FS_RemoveElement
    <3>3. Cardinality(s \ {x}) <= i - 1
      BY <1>1, <1>2, <2>1, <3>2
    <3>4. s \ {x} \in Good
      BY <1>4, <3>3
    <3> QED BY <3>1, <3>4
  <2>2. i \in 0..n
    BY <1>1
  <2> QED BY <2>1, <2>2
<1>5. M = 0..n
  <2>1. M \in SUBSET (0..n)
    OBVIOUS
  <2> HIDE DEF M
  <2> QED BY <1>1, <1>3, <1>4, <2>1, EveryTurn
<1>6. n \in M
  BY <1>1, <1>5
<1> QED BY <1>2, <1>6

\* The sum of f over every subset of a finite set: one element more adds its own.
Sums(sum, f, S) ==
    /\ sum \in [SUBSET S -> Int]
    /\ sum[{}] = 0
    /\ \A s \in SUBSET S : \A x \in s : sum[s] = f[x] + sum[s \ {x}]

LEMMA SumsExist ==
    ASSUME NEW S, IsFiniteSet(S), NEW f, \A x \in S : f[x] \in Int
    PROVE  \E sum : Sums(sum, f, S)
<1> DEFINE Good == {T \in SUBSET S : \E sum : Sums(sum, f, T)}
<1>1. {} \in Good
  <2>1. Sums([s \in SUBSET {} |-> 0], f, {})
    BY DEF Sums
  <2> QED BY <2>1
<1>2. ASSUME NEW T \in SUBSET S, NEW x \in T, T \ {x} \in Good
      PROVE  T \in Good
  <2>1. PICK sum : Sums(sum, f, T \ {x})
    BY <1>2
  <2> DEFINE more == [s \in SUBSET T |-> IF x \in s THEN f[x] + sum[s \ {x}]
                                         ELSE sum[s]]
  <2>2. /\ \A s \in SUBSET (T \ {x}) : sum[s] \in Int
        /\ sum[{}] = 0
        /\ \A s \in SUBSET (T \ {x}) : \A y \in s : sum[s] = f[y] + sum[s \ {y}]
    BY <2>1 DEF Sums
  <2>3. \A s \in SUBSET T : more[s] \in Int
    BY <2>2
  <2>4. more \in [SUBSET T -> Int]
    BY <2>3
  <2>5. more[{}] = 0
    BY <2>2
  <2>6. ASSUME NEW s \in SUBSET T, NEW y \in s
        PROVE  more[s] = f[y] + more[s \ {y}]
    <3>1. CASE y = x
      BY <3>1
    <3>2. CASE y # x /\ x \in s
      <4>1. sum[s \ {x}] = f[y] + sum[(s \ {x}) \ {y}]
        BY <2>2, <3>2
      <4>2. (s \ {x}) \ {y} = (s \ {y}) \ {x}
        OBVIOUS
      <4>3. more[s] = f[x] + sum[s \ {x}]
        BY <3>2
      <4>4. more[s \ {y}] = f[x] + sum[(s \ {y}) \ {x}]
        BY <3>2
      <4>5. f[x] \in Int /\ f[y] \in Int /\ sum[(s \ {x}) \ {y}] \in Int
        BY <2>2
      <4> DEFINE rest == sum[(s \ {x}) \ {y}]
      <4>6. more[s] = f[x] + (f[y] + rest) /\ more[s \ {y}] = f[x] + rest
        BY <4>1, <4>2, <4>3, <4>4
      <4> HIDE DEF more, rest
      <4>7. rest \in Int
        BY <4>5 DEF rest
      <4> QED BY <4>5, <4>6, <4>7
    <3>3. CASE x \notin s
      BY <2>2, <3>3
    <3> QED BY <3>1, <3>2, <3>3
  <2> HIDE DEF more
  <2>7. Sums(more, f, T)
    BY <2>4, <2>5, <2>6 DEF Sums
  <2> QED BY <2>7
<1>3. Good \in SUBSET (SUBSET S)
  OBVIOUS
<1> HIDE DEF Good
<1>4. \A T \in SUBSET S : T # {} => \E x \in T : T \ {x} \in Good => T \in Good
  BY <1>2
<1>5. Good = SUBSET S
  BY <1>1, <1>3, <1>4, EverySubset
<1> QED BY <1>5 DEF Good
=============================================================================
