-------------------------- MODULE InductionLemmas --------------------------
(***************************************************************************)
(* Induction over the natural numbers, stated for sets: a step that has to *)
(* hold for every number is shown to hold for the members of a set, and    *)
(* the set to be all of Nat. The theorems rest on the well-foundedness of  *)
(* < only.                                                                 *)
(***************************************************************************)
EXTENDS Integers, WellFoundedInduction, TLAPS

\* < on Nat is well founded, as a relation that is given by its pairs.
LEMMA LessThan ==
  \E R : IsWellFoundedOn(R, Nat) /\ \A x, y \in Nat : y < x => <<y, x>> \in R
<1>1. \A x, y \in Nat : y < x => <<y, x>> \in OpToRel(<, Nat)
  BY DEF OpToRel
<1>2. WITNESS OpToRel(<, Nat)
<1> QED
  BY <1>1, NatLessThanWellFounded, Zenon

\* A set of natural numbers that is not empty has a least member.
LEMMA LeastNatural ==
  ASSUME NEW T, T \subseteq Nat, T # {}
  PROVE  \E m \in T : \A k \in T : m <= k
<1>1. PICK R : IsWellFoundedOn(R, Nat) /\ \A x, y \in Nat : y < x => <<y, x>> \in R
  BY LessThan
<1>2. PICK x \in T : \A y \in T : <<y, x>> \notin R
  BY <1>1, WFMin
<1>3. ASSUME NEW k \in T PROVE x <= k
  <2>1. <<k, x>> \notin R
    BY <1>2
  <2>2. x \in Nat /\ k \in Nat
    OBVIOUS
  <2>3. ~ (k < x)
    BY <1>1, <2>1, <2>2, Zenon
  <2> QED
    BY <2>2, <2>3
<1> QED
  BY <1>3

\* A set that holds 0 and, with a number, the next one holds them all.
LEMMA SetInduction ==
  ASSUME NEW T, 0 \in T, \A i \in Nat : i \in T => i + 1 \in T
  PROVE  Nat \subseteq T
<1> DEFINE B == Nat \ T
<1>1. CASE B # {}
  <2>1. PICK m \in B : \A k \in B : m <= k
    BY <1>1, LeastNatural
  <2>2. m # 0 /\ m - 1 \in Nat /\ m - 1 \notin B
    BY <2>1
  <2> QED
    BY <2>1, <2>2
<1> QED
  BY <1>1

\* The same up to a bound.
LEMMA RangeInduction ==
  ASSUME NEW lo \in Nat, NEW hi \in Nat, NEW T, lo \in T,
         \A i \in lo .. hi - 1 : i \in T => i + 1 \in T
  PROVE  lo .. hi \subseteq T
<1> DEFINE S == {i \in Nat : lo + i <= hi => lo + i \in T}
<1>1. 0 \in S
  OBVIOUS
<1>2. ASSUME NEW i \in Nat, i \in S PROVE i + 1 \in S
  <2>1. CASE lo + (i + 1) <= hi
    <3>1. lo + i \in T /\ lo + i \in lo .. hi - 1 /\ (lo + i) + 1 = lo + (i + 1)
      BY <1>2, <2>1
    <3>2. (lo + i) + 1 \in T
      BY <3>1
    <3> QED
      BY <3>1, <3>2
  <2> QED
    BY <2>1
<1> HIDE DEF S
<1>3. Nat \subseteq S
  BY <1>1, <1>2, SetInduction
<1>4. ASSUME NEW k \in lo .. hi PROVE k \in T
  <2>1. k - lo \in Nat /\ lo + (k - lo) = k
    OBVIOUS
  <2> QED
    BY <1>3, <2>1 DEF S
<1> QED
  BY <1>4

----------------------------------------------------------------------------

\* Running sums of w[i], w[i + 1], ... exist.
LEMMA SumsExist ==
  ASSUME NEW N \in Nat, NEW i \in Nat \ {0}, NEW w \in [1 .. N -> Nat]
  PROVE  \E f : f = [k \in 0 .. N |-> IF k < i THEN 0 ELSE f[k - 1] + w[k]]
<1> DEFINE Adds(f, m) == \A k \in 0 .. m : f[k] = IF k < i THEN 0 ELSE f[k - 1] + w[k]
           T == {m \in 0 .. N : \E f \in [0 .. m -> Nat] : Adds(f, m)}
<1>1. 0 \in T
  <2> DEFINE f == [k \in 0 .. 0 |-> 0]
  <2>1. f \in [0 .. 0 -> Nat] /\ Adds(f, 0)
    OBVIOUS
  <2> HIDE DEF f, Adds
  <2> QED
    BY <2>1
<1>2. \A m \in 0 .. N - 1 : m \in T => m + 1 \in T
  <2> SUFFICES ASSUME NEW m \in 0 .. N - 1, m \in T PROVE m + 1 \in T
    OBVIOUS
  <2>1. PICK f \in [0 .. m -> Nat] : Adds(f, m)
    OBVIOUS
  <2> DEFINE g == [k \in 0 .. m + 1 |-> IF k <= m THEN f[k]
                                       ELSE IF k < i THEN 0 ELSE f[k - 1] + w[k]]
  <2>2. g \in [0 .. m + 1 -> Nat]
    BY <2>1
  <2>3. Adds(g, m + 1)
    <3> SUFFICES ASSUME NEW k \in 0 .. m + 1
                 PROVE  g[k] = IF k < i THEN 0 ELSE g[k - 1] + w[k]
      OBVIOUS
    <3>1. CASE k <= m
      BY <2>1, <3>1
    <3>2. CASE k = m + 1
      BY <2>1, <3>2
    <3> QED
      BY <3>1, <3>2
  <2> HIDE DEF g, Adds
  <2>4. \E h \in [0 .. m + 1 -> Nat] : Adds(h, m + 1)
    BY <2>2, <2>3, Zenon
  <2>5. m + 1 \in 0 .. N
    OBVIOUS
  <2> QED
    BY <2>4, <2>5, Zenon
<1> HIDE DEF T
<1>3. N \in T
  <2>1. 0 .. N \subseteq T
    BY <1>1, <1>2, RangeInduction
  <2> QED
    BY <2>1
<1>4. PICK f \in [0 .. N -> Nat] :
        \A k \in 0 .. N : f[k] = IF k < i THEN 0 ELSE f[k - 1] + w[k]
  BY <1>3 DEF T
<1>5. f = [k \in 0 .. N |-> IF k < i THEN 0 ELSE f[k - 1] + w[k]]
  BY <1>4
<1> QED
  BY <1>5

\* f starts with base and goes on by step[1], step[2], ...
Runs(f, n, base, step) ==
  \A k \in 0 .. n : f[k] = IF k = 0 THEN base ELSE step[k][f[k - 1]]

\* A function on 0 .. n whose values are defined by the one before exists.
LEMMA RecursionExists ==
  ASSUME NEW n \in Nat, NEW S, NEW base \in S, NEW step \in [1 .. n -> [S -> S]]
  PROVE  \E f \in [0 .. n -> S] : Runs(f, n, base, step)
<1> DEFINE Goes(f, m) == \A k \in 0 .. m : f[k] = IF k = 0 THEN base ELSE step[k][f[k - 1]]
           T == {m \in 0 .. n : \E f \in [0 .. m -> S] : Goes(f, m)}
<1>1. 0 \in T
  <2> DEFINE f == [k \in 0 .. 0 |-> base]
  <2>1. f \in [0 .. 0 -> S] /\ Goes(f, 0)
    OBVIOUS
  <2> HIDE DEF f, Goes
  <2> QED
    BY <2>1
<1>2. \A m \in 0 .. n - 1 : m \in T => m + 1 \in T
  <2> SUFFICES ASSUME NEW m \in 0 .. n - 1, m \in T PROVE m + 1 \in T
    OBVIOUS
  <2>1. PICK f \in [0 .. m -> S] : Goes(f, m)
    OBVIOUS
  <2>2. m + 1 \in 1 .. n /\ m \in 0 .. m /\ m \in Nat /\ m + 1 \in 0 .. n
    OBVIOUS
  <2>3. step[m + 1] \in [S -> S]
    BY <2>2
  <2>4. step[m + 1][f[m]] \in S
    BY <2>1, <2>2, <2>3
  <2> DEFINE g == [k \in 0 .. m + 1 |-> IF k <= m THEN f[k] ELSE step[m + 1][f[m]]]
  <2>5. g \in [0 .. m + 1 -> S]
    <3>1. ASSUME NEW k \in 0 .. m + 1, k <= m PROVE f[k] \in S
      BY <2>1, <2>2, <3>1
    <3> QED
      BY <2>4, <3>1
  <2>6. Goes(g, m + 1)
    <3> SUFFICES ASSUME NEW k \in 0 .. m + 1
                 PROVE  g[k] = IF k = 0 THEN base ELSE step[k][g[k - 1]]
      OBVIOUS
    <3>1. CASE k <= m
      <4>1. k \in 0 .. m /\ g[k] = f[k] /\ (k # 0 => g[k - 1] = f[k - 1])
        BY <2>2, <3>1
      <4>2. f[k] = IF k = 0 THEN base ELSE step[k][f[k - 1]]
        BY <2>1, <4>1
      <4> QED
        BY <4>1, <4>2
    <3>2. CASE k = m + 1
      <4>1. k # 0 /\ k - 1 = m /\ g[k] = step[m + 1][f[m]] /\ g[m] = f[m]
        BY <2>2, <3>2
      <4> QED
        BY <3>2, <4>1
    <3> QED
      BY <2>2, <3>1, <3>2
  <2> HIDE DEF g, Goes
  <2>7. \E h \in [0 .. m + 1 -> S] : Goes(h, m + 1)
    BY <2>5, <2>6, Zenon
  <2> QED
    BY <2>2, <2>7, Zenon
<1> HIDE DEF T
<1>3. n \in T
  <2>1. 0 .. n \subseteq T
    BY <1>1, <1>2, RangeInduction
  <2> QED
    BY <2>1
<1> QED
  BY <1>3 DEF T, Runs

============================================================================
