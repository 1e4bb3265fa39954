--------------------------- MODULE NumberInduction ---------------------------
(***************************************************************************)
(* Induction on the natural numbers, and recursion on them, stated with    *)
(* sets and functions: the provers can instantiate these, and not the      *)
(* theorems of the library, which are about operators.                     *)
(***************************************************************************)
EXTENDS Integers, WellFoundedInduction, TLAPS

\* A set of natural numbers has a least one.
LEMMA LeastNumber ==
    ASSUME NEW S \in SUBSET Nat, S # {}
    PROVE  \E x \in S : \A y \in S : x <= y
<1> DEFINE R == {ss \in Nat \X Nat : ss[1] < ss[2]}
<1>1. IsWellFoundedOn(R, Nat)
  BY NatLessThanWellFounded DEF OpToRel
<1>2. \E x \in S : \A y \in S : ~ (<<y, x>> \in R)
  <2> HIDE DEF R
  <2> QED
    BY <1>1, WFMin
<1>3. PICK x \in S : \A y \in S : ~ (<<y, x>> \in R)
  BY <1>2
<1>4. ASSUME NEW y \in S
      PROVE  x <= y
  <2>1. x \in Nat /\ y \in Nat /\ ~ (<<y, x>> \in R)
    BY <1>3
  <2>2. ~ (y < x)
    BY <2>1
  <2> QED
    BY <2>1, <2>2
<1> QED
  BY <1>4

\* What holds of 0 and goes from each number to the next holds of all.
LEMMA Induction ==
    ASSUME NEW S \in SUBSET Nat, 0 \in S, \A n \in S : n + 1 \in S
    PROVE  S = Nat
<1> SUFFICES ASSUME S # Nat PROVE FALSE
  OBVIOUS
<1>1. PICK x \in Nat \ S : \A y \in Nat \ S : x <= y
  BY LeastNumber
<1>2. x # 0 /\ x - 1 \in Nat
  OBVIOUS
<1>3. x - 1 \in S
  BY <1>1, <1>2
<1> QED
  BY <1>1, <1>2, <1>3

\* The same up to a bound.
LEMMA InductionUpTo ==
    ASSUME NEW n \in Nat, NEW S, 0 \in S,
           \A k \in 0 .. n - 1 : k \in S => k + 1 \in S
    PROVE  0 .. n \subseteq S
<1> DEFINE T == {k \in Nat : k <= n => k \in S}
<1>1. 0 \in T
  OBVIOUS
<1>2. ASSUME NEW k \in T
      PROVE  k + 1 \in T
  <2> SUFFICES ASSUME k + 1 <= n
               PROVE  k + 1 \in S
    OBVIOUS
  <2>1. k \in 0 .. n - 1
    OBVIOUS
  <2> QED
    BY <2>1
<1>3. T = Nat
  <2>1. T \in SUBSET Nat
    OBVIOUS
  <2> HIDE DEF T
  <2> QED
    BY <1>1, <1>2, <2>1, Induction
<1> QED
  BY <1>3

\* f starts at start and goes on by step, up to n: step[k, v] follows v at k.
Recurs(f, V, start, step, n) ==
    /\ f \in [0 .. n -> V] /\ f[0] = start
    /\ \A k \in 1 .. n : f[k] = step[<<k, f[k - 1]>>]

\* Such a function exists.
LEMMA RecursiveFunction ==
    ASSUME NEW V, NEW start \in V, NEW step \in [Nat \X V -> V], NEW n \in Nat
    PROVE  \E f : Recurs(f, V, start, step, n)
<1> DEFINE Defines(m, f) == Recurs(f, V, start, step, m)
           D == {m \in Nat : \E f : Defines(m, f)}
<1>1. 0 \in D
  <2>1. Defines(0, [k \in 0 .. 0 |-> start])
    BY DEF Recurs
  <2> QED
    BY <2>1
<1>2. ASSUME NEW m \in D
      PROVE  m + 1 \in D
  <2>1. PICK f : Defines(m, f)
    OBVIOUS
  <2> DEFINE g == [k \in 0 .. m + 1 |-> IF k = m + 1 THEN step[<<m + 1, f[m]>>] ELSE f[k]]
  <2>2. f[m] \in V /\ step[<<m + 1, f[m]>>] \in V
    BY <2>1 DEF Recurs
  <2>3. /\ g \in [0 .. m + 1 -> V] /\ g[0] = start
        /\ g[m + 1] = step[<<m + 1, f[m]>>] /\ \A k \in 0 .. m : g[k] = f[k]
    BY <2>1, <2>2 DEF Recurs
  <2> HIDE DEF g
  <2>4. ASSUME NEW k \in 1 .. m + 1
        PROVE  g[k] = step[<<k, g[k - 1]>>]
    <3>1. k - 1 \in 0 .. m /\ g[k - 1] = f[k - 1]
      BY <2>3
    <3>2. CASE k = m + 1
      BY <2>3, <3>1, <3>2
    <3>3. CASE k # m + 1
      <4>1. k \in 1 .. m /\ k \in 0 .. m
        BY <3>3
      <4> QED
        BY <2>1, <2>3, <3>1, <4>1 DEF Recurs
    <3> QED
      BY <3>2, <3>3
  <2>5. Defines(m + 1, g)
    BY <2>3, <2>4 DEF Recurs
  <2> QED
    BY <2>5
<1>3. D = Nat
  <2>1. D \in SUBSET Nat
    OBVIOUS
  <2> HIDE DEF D
  <2> QED
    BY <1>1, <1>2, <2>1, Induction
<1> QED
  BY <1>3
=============================================================================
