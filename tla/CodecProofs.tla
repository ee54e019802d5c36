---------------------------- MODULE CodecProofs ----------------------------
(***************************************************************************)
(* Theorems about CodecScalars: a scalar survives each format, for every   *)
(* radix, so for bytes of 256 values too, and whatever precedes and        *)
(* follows it in the file.                                                 *)
(***************************************************************************)
EXTENDS CodecScalars, InductionLemmas, SequenceTheorems

(***************************************************************************)
(* Powers.                                                                 *)
(***************************************************************************)

Positive == Nat \ {0}

\* Powers exist: those up to n for each n, and they agree.
LEMMA PowerExists ==
  ASSUME NEW b \in Positive
  PROVE  \E p : p = [k \in Nat |-> IF k = 0 THEN 1 ELSE b * p[k - 1]]
<1> DEFINE Is(f, n) == f \in [0 .. n -> Positive]
                       /\ \A k \in 0 .. n : f[k] = IF k = 0 THEN 1 ELSE b * f[k - 1]
           F == [n \in Nat |-> CHOOSE f : Is(f, n)]
           p == [n \in Nat |-> F[n][n]]
<1>1. ASSUME NEW n \in Nat PROVE \E f : Is(f, n)
  <2> DEFINE times == [x \in Positive |-> b * x]
             step == [k \in 1 .. n |-> times]
  <2>1. times \in [Positive -> Positive]
    <3>1. ASSUME NEW x \in Positive PROVE b * x \in Positive
      BY DEF Positive
    <3> QED
      BY <3>1
  <2>2. step \in [1 .. n -> [Positive -> Positive]]
    BY <2>1
  <2>3. 1 \in Positive
    BY DEF Positive
  <2>4. \A k \in 1 .. n : \A x \in Positive : step[k][x] = b * x
    OBVIOUS
  <2> HIDE DEF step, times
  <2>5. PICK f \in [0 .. n -> Positive] : Runs(f, n, 1, step)
    BY <2>2, <2>3, RecursionExists
  <2>6. ASSUME NEW k \in 0 .. n PROVE f[k] = IF k = 0 THEN 1 ELSE b * f[k - 1]
    <3>1. f[k] = IF k = 0 THEN 1 ELSE step[k][f[k - 1]]
      BY <2>5 DEF Runs
    <3>2. k # 0 => k \in 1 .. n /\ k - 1 \in 0 .. n
      OBVIOUS
    <3>3. k # 0 => f[k - 1] \in Positive
      BY <2>5, <3>2
    <3> QED
      BY <2>4, <3>1, <3>2, <3>3
  <2> QED
    BY <2>5, <2>6
<1>2. ASSUME NEW n \in Nat PROVE Is(F[n], n)
  <2> HIDE DEF Is
  <2>1. F[n] = CHOOSE f : Is(f, n)
    OBVIOUS
  <2> QED
    BY <1>1, <2>1, Zenon
<1>3. ASSUME NEW n \in Nat PROVE /\ F[n] \in [0 .. n -> Positive] /\ F[n][0] = 1
                                 /\ \A k \in 0 .. n - 1 : F[n][k + 1] = b * F[n][k]
  <2> DEFINE f == F[n]
  <2>1. Is(f, n)
    BY <1>2
  <2> HIDE DEF f
  <2>2. f[0] = 1
    BY <2>1
  <2>3. ASSUME NEW k \in 0 .. n - 1 PROVE f[k + 1] = b * f[k]
    <3>1. k + 1 \in 0 .. n /\ k + 1 # 0 /\ (k + 1) - 1 = k
      OBVIOUS
    <3> QED
      BY <2>1, <3>1
  <2> QED
    BY <2>1, <2>2, <2>3 DEF f
<1> HIDE DEF F
<1>4. ASSUME NEW n \in Nat PROVE F[n + 1][n] = F[n][n]
  <2> DEFINE T == {k \in 0 .. n : F[n + 1][k] = F[n][k]}
  <2>1. 0 \in T
    BY <1>3
  <2>2. \A k \in 0 .. n - 1 : k \in T => k + 1 \in T
    <3> SUFFICES ASSUME NEW k \in 0 .. n - 1, k \in T PROVE k + 1 \in T
      OBVIOUS
    <3>1. F[n][k + 1] = b * F[n][k]
      BY <1>3
    <3>2. n + 1 \in Nat /\ k \in 0 .. (n + 1) - 1 /\ k + 1 \in 0 .. n
      OBVIOUS
    <3>3. F[n + 1][k + 1] = b * F[n + 1][k]
      BY <1>3, <3>2
    <3> QED
      BY <3>1, <3>2, <3>3
  <2> HIDE DEF T
  <2>3. 0 .. n \subseteq T
    BY <2>1, <2>2, RangeInduction
  <2> QED
    BY <2>3 DEF T
<1>5. ASSUME NEW k \in Nat PROVE p[k] = IF k = 0 THEN 1 ELSE b * p[k - 1]
  <2>1. CASE k = 0
    BY <1>3, <2>1
  <2>2. CASE k # 0
    <3> DEFINE n == k - 1
    <3>1. n \in Nat /\ n + 1 = k /\ n \in 0 .. (n + 1) - 1
      BY <2>2
    <3> HIDE DEF n
    <3>2. F[n + 1][n + 1] = b * F[n + 1][n]
      BY <1>3, <3>1
    <3>3. F[n + 1][n] = F[n][n]
      BY <1>4, <3>1
    <3>4. p[k] = F[n + 1][n + 1] /\ p[n] = F[n][n]
      BY <3>1
    <3> QED
      BY <2>2, <3>2, <3>3, <3>4 DEF n
  <2> QED
    BY <2>1, <2>2
<1>6. p = [k \in Nat |-> IF k = 0 THEN 1 ELSE b * p[k - 1]]
  <2>1. p = [k \in Nat |-> p[k]]
    OBVIOUS
  <2> HIDE DEF p
  <2> QED
    BY <1>5, <2>1
<1> QED
  BY <1>6

LEMMA PowerStep ==
  ASSUME NEW b \in Positive
  PROVE  /\ Power(b)[0] = 1
         /\ \A k \in Nat : Power(b)[k + 1] = b * Power(b)[k]
<1> DEFINE Is(p) == p = [k \in Nat |-> IF k = 0 THEN 1 ELSE b * p[k - 1]]
<1>1. Is(Power(b))
  <2>1. Power(b) = CHOOSE p : Is(p)
    BY DEF Power
  <2>2. \E p : Is(p)
    BY PowerExists
  <2> HIDE DEF Is
  <2> QED
    BY <2>1, <2>2
<1> DEFINE q == Power(b)
<1>2. \A k \in Nat : q[k] = IF k = 0 THEN 1 ELSE b * q[k - 1]
  BY <1>1, Zenon
<1> HIDE DEF q
<1>3. q[0] = 1
  BY <1>2
<1>4. \A k \in Nat : k + 1 \in Nat /\ k + 1 # 0 /\ (k + 1) - 1 = k
  OBVIOUS
<1>5. \A k \in Nat : q[k + 1] = b * q[k]
  BY <1>2, <1>4
<1> QED
  BY <1>3, <1>5 DEF q

LEMMA PowerPositive ==
  ASSUME NEW b \in Positive
  PROVE  \A k \in Nat : Power(b)[k] \in Positive
<1> DEFINE q == Power(b)
           T == {k \in Nat : q[k] \in Positive}
<1>0. q[0] = 1 /\ \A k \in Nat : q[k + 1] = b * q[k]
  BY PowerStep
<1> HIDE DEF q
<1>1. 0 \in T
  BY <1>0 DEF Positive
<1>2. \A k \in Nat : k \in T => k + 1 \in T
  <2> SUFFICES ASSUME NEW k \in Nat, q[k] \in Positive PROVE q[k + 1] \in Positive
    OBVIOUS
  <2>1. \A x \in Positive : b * x \in Positive
    BY DEF Positive
  <2> QED
    BY <1>0, <2>1
<1> HIDE DEF T
<1>3. Nat \subseteq T
  BY <1>1, <1>2, SetInduction
<1> QED
  BY <1>3 DEF T, q

(***************************************************************************)
(* Division.                                                               *)
(***************************************************************************)

LEMMA DivDiv ==
  ASSUME NEW m \in Nat, NEW a \in Positive, NEW b \in Positive
  PROVE  m \div (b * a) = (m \div a) \div b
BY DEF Positive

LEMMA DivMod ==
  ASSUME NEW m \in Nat, NEW b \in Positive
  PROVE  /\ m \div b \in Nat /\ m % b \in 0 .. b - 1
         /\ m = (m \div b) * b + (m % b)
         /\ m < b => m \div b = 0 /\ m % b = m
<1>1. b \in Nat /\ b > 0
  BY DEF Positive
<1>2. m \div b \in Nat
  BY <1>1
<1>3. m % b \in 0 .. b - 1
  BY <1>1
<1>4. m = (m \div b) * b + (m % b)
  BY <1>1
<1>5. m < b => m \div b = 0
  BY <1>1
<1>6. m < b => m % b = m
  BY <1>1
<1> QED
  BY <1>2, <1>3, <1>4, <1>5, <1>6

(***************************************************************************)
(* Digits, the first the highest, and back.                                *)
(***************************************************************************)

\* What ParseDigits returns is the last value of its loop.
LEMMA ParseIs ==
  ASSUME NEW s \in Seq(Int), NEW base \in Int
  PROVE  \E v : /\ v[0] = 0 /\ ParseDigits(s, base) = v[Len(s)]
                /\ \A k \in 1 .. Len(s) : v[k] = v[k - 1] * base + (s[k] - 1)
<1> DEFINE n == Len(s)
           Is(v) == v = [i \in 0 .. n |-> IF i = 0 THEN 0 ELSE v[i - 1] * base + (s[i] - 1)]
           next(k) == [x \in Int |-> x * base + (s[k] - 1)]
           step == [k \in 1 .. n |-> next(k)]
<1>1. n \in Nat /\ \A k \in 1 .. n : s[k] \in Int
  OBVIOUS
<1> HIDE DEF n
<1>2. step \in [1 .. n -> [Int -> Int]]
  <2>1. ASSUME NEW k \in 1 .. n, NEW x \in Int PROVE x * base + (s[k] - 1) \in Int
    BY <1>1
  <2> QED
    BY <2>1
<1>3. \A k \in 1 .. n, x \in Int : step[k][x] = x * base + (s[k] - 1)
  OBVIOUS
<1> HIDE DEF step
<1>4. PICK f \in [0 .. n -> Int] : Runs(f, n, 0, step)
  <2>1. 0 \in Int
    OBVIOUS
  <2> QED
    BY <1>1, <1>2, <2>1, RecursionExists, Zenon
<1>5. \A k \in 0 .. n : f[k] = IF k = 0 THEN 0 ELSE f[k - 1] * base + (s[k] - 1)
  <2> SUFFICES ASSUME NEW k \in 0 .. n
               PROVE  f[k] = IF k = 0 THEN 0 ELSE f[k - 1] * base + (s[k] - 1)
    OBVIOUS
  <2>1. f[k] = IF k = 0 THEN 0 ELSE step[k][f[k - 1]]
    BY <1>4 DEF Runs
  <2>2. k # 0 => k \in 1 .. n /\ k - 1 \in 0 .. n
    BY <1>1
  <2>3. k # 0 => f[k - 1] \in Int
    BY <1>4, <2>2
  <2> QED
    BY <1>3, <2>1, <2>2, <2>3
<1>6. Is(f)
  BY <1>4, <1>5
<1> DEFINE v == CHOOSE g : Is(g)
<1>7. Is(v)
  <2> HIDE DEF Is
  <2> QED
    BY <1>6
<1>8. ParseDigits(s, base) = v[n]
  BY DEF ParseDigits, n
<1> HIDE DEF v
<1>9. \A k \in 0 .. n : v[k] = IF k = 0 THEN 0 ELSE v[k - 1] * base + (s[k] - 1)
  BY <1>7, Zenon
<1>10. 0 \in 0 .. n /\ \A k \in 1 .. n : k \in 0 .. n /\ k # 0
  BY <1>1
<1>11. v[0] = 0 /\ \A k \in 1 .. n : v[k] = v[k - 1] * base + (s[k] - 1)
  BY <1>9, <1>10
<1> QED
  BY <1>8, <1>11, Zenon DEF n

LEMMA DigitsTyped ==
  ASSUME NEW n \in Nat, NEW base \in Positive, NEW len \in Nat
  PROVE  /\ Digits(n, base, len) \in Seq(Int) /\ Len(Digits(n, base, len)) = len
         /\ \A i \in 1 .. len : Digits(n, base, len)[i] \in 1 .. base
<1> DEFINE d(i) == ((n \div Power(base)[len - i]) % base) + 1
<1>1. ASSUME NEW i \in 1 .. len PROVE d(i) \in 1 .. base
  <2> DEFINE p == Power(base)[len - i]
  <2>1. len - i \in Nat
    OBVIOUS
  <2>2. p \in Positive
    BY <2>1, PowerPositive
  <2> HIDE DEF p
  <2>3. n \div p \in Nat
    BY <2>2, DivMod
  <2>4. \A x \in Nat : x % base \in 0 .. base - 1
    BY DivMod
  <2>5. base \in Nat
    BY DEF Positive
  <2>6. \A x \in 0 .. base - 1 : x + 1 \in 1 .. base
    BY <2>5
  <2> QED
    BY <2>3, <2>4, <2>6 DEF p
<1>2. Digits(n, base, len) = [i \in 1 .. len |-> d(i)]
  BY DEF Digits
<1>3. base \in Nat
  BY DEF Positive
<1> HIDE DEF d
<1>4. \A i \in 1 .. len : d(i) \in Int
  BY <1>1, <1>3
<1> QED
  BY <1>1, <1>2, <1>4

\* Digits are read back, if there are enough of them.
LEMMA DigitsParsed ==
  ASSUME NEW n \in Nat, NEW base \in Positive, NEW len \in Nat, n < Power(base)[len]
  PROVE  ParseDigits(Digits(n, base, len), base) = n
<1> DEFINE s == Digits(n, base, len)
           q == Power(base)
<1>1. s \in Seq(Int) /\ Len(s) = len /\ base \in Int
  BY DigitsTyped DEF Positive
<1>2. \A i \in 1 .. len : s[i] = ((n \div q[len - i]) % base) + 1
  BY DEF Digits
<1>3. q[0] = 1 /\ \A k \in Nat : q[k + 1] = base * q[k]
  BY PowerStep
<1>4. \A k \in Nat : q[k] \in Positive
  BY PowerPositive
<1>5. n < q[len]
  OBVIOUS
<1> HIDE DEF s, q
<1>6. PICK v : /\ v[0] = 0 /\ ParseDigits(s, base) = v[len]
               /\ \A k \in 1 .. len : v[k] = v[k - 1] * base + (s[k] - 1)
  BY <1>1, ParseIs
<1> DEFINE T == {k \in 0 .. len : v[k] = n \div q[len - k]}
<1>7. 0 \in T
  <2>1. len - 0 = len /\ q[len] \in Positive
    BY <1>4
  <2>2. n \div q[len] = 0
    BY <1>5, <2>1, DivMod
  <2> QED
    BY <1>6, <2>1, <2>2
<1>8. \A k \in 0 .. len - 1 : k \in T => k + 1 \in T
  <2> SUFFICES ASSUME NEW k \in 0 .. len - 1, k \in T PROVE k + 1 \in T
    OBVIOUS
  <2> DEFINE j == len - (k + 1)
             a == q[j]
             x == n \div a
  <2>1. j \in Nat /\ j + 1 = len - k /\ k + 1 \in 1 .. len /\ (k + 1) - 1 = k /\ k + 1 \in 0 .. len
    OBVIOUS
  <2>2. a \in Positive /\ q[len - k] = base * a
    BY <1>3, <1>4, <2>1
  <2>3. s[k + 1] = (x % base) + 1
    BY <1>2, <2>1
  <2>4. v[k] = n \div (base * a)
    BY <2>2
  <2>5. x \in Nat
    BY <2>2, DivMod
  <2>6. n \div (base * a) = x \div base
    BY <2>2, DivDiv
  <2> HIDE DEF x
  <2>7. v[k + 1] = v[k] * base + (s[k + 1] - 1)
    BY <1>6, <2>1
  <2>8. /\ x = (x \div base) * base + (x % base) /\ x % base \in Int
    <3>1. x % base \in 0 .. base - 1 /\ x = (x \div base) * base + (x % base)
      BY <2>5, DivMod
    <3> QED
      BY <3>1
  <2>9. s[k + 1] - 1 = x % base
    BY <2>3, <2>8
  <2>10. v[k + 1] = x
    BY <2>4, <2>6, <2>7, <2>8, <2>9
  <2> QED
    BY <2>1, <2>10 DEF x
<1> HIDE DEF T
<1>9. len \in T
  <2>1. 0 .. len \subseteq T
    BY <1>7, <1>8, RangeInduction
  <2> QED
    BY <2>1
<1>10. v[len] = n \div q[0]
  BY <1>9, len - len = 0 DEF T
<1>11. n \div 1 = n
  OBVIOUS
<1> QED
  BY <1>3, <1>6, <1>10, <1>11 DEF s

(***************************************************************************)
(* str and int.                                                            *)
(***************************************************************************)

LEMMA PowerGrows ==
  ASSUME NEW b \in Positive, b >= 2
  PROVE  \A k \in Nat : k < Power(b)[k]
<1> DEFINE q == Power(b)
           T == {k \in Nat : k < q[k]}
<1>0. q[0] = 1 /\ \A k \in Nat : q[k + 1] = b * q[k]
  BY PowerStep
<1>1. \A k \in Nat : q[k] \in Positive
  BY PowerPositive
<1> HIDE DEF q
<1>2. 0 \in T
  BY <1>0
<1>3. \A k \in Nat : k \in T => k + 1 \in T
  <2> SUFFICES ASSUME NEW k \in Nat, k < q[k] PROVE k + 1 < q[k + 1]
    OBVIOUS
  <2>1. \A x \in Nat : k < x => k + 1 < b * x
    <3> SUFFICES ASSUME NEW x \in Nat, k < x PROVE k + 1 < b * x
      OBVIOUS
    <3>1. b * x >= 2 * x
      BY DEF Positive
    <3>2. b * x \in Nat
      BY DEF Positive
    <3> QED
      BY <3>1, <3>2
  <2>2. q[k] \in Nat
    BY <1>1 DEF Positive
  <2> QED
    BY <1>0, <2>1, <2>2
<1> HIDE DEF T
<1>4. Nat \subseteq T
  BY <1>2, <1>3, SetInduction
<1> QED
  BY <1>4 DEF T, q

LEMMA DecimalLenIs ==
  ASSUME NEW n \in Nat
  PROVE  DecimalLen(n) \in Positive /\ n < Power(10)[DecimalLen(n)]
<1> DEFINE q == Power(10)
           S == {k \in Nat : k # 0 /\ n < q[k]}
           Fits(k) == n < q[k] /\ (k = 1 \/ n >= q[k - 1])
<1>0. 10 \in Positive /\ 10 >= 2
  BY DEF Positive
<1>1. \A k \in Nat : q[k] \in Nat /\ k < q[k]
  BY <1>0, PowerPositive, PowerGrows DEF Positive
<1>2. DecimalLen(n) = CHOOSE k \in 1 .. n + 1 : Fits(k)
  BY DEF DecimalLen
<1> HIDE DEF q
<1>3. n + 1 \in S
  <2>1. n + 1 \in Nat /\ n + 1 # 0
    OBVIOUS
  <2>2. q[n + 1] \in Nat /\ n + 1 < q[n + 1]
    BY <1>1, <2>1
  <2> QED
    BY <2>1, <2>2
<1>4. PICK m \in S : \A k \in S : m <= k
  <2>1. S \subseteq Nat /\ S # {}
    BY <1>3
  <2> HIDE DEF S
  <2> QED
    BY <2>1, LeastNatural
<1>5. m \in 1 .. n + 1
  BY <1>3, <1>4
<1>6. Fits(m)
  <2>1. CASE m = 1
    BY <1>4, <2>1
  <2>2. CASE m # 1
    <3>1. m - 1 \in Nat /\ m - 1 # 0 /\ ~(m <= m - 1)
      BY <1>5, <2>2
    <3>2. m - 1 \notin S
      BY <1>4, <3>1
    <3>3. q[m - 1] \in Nat /\ ~(n < q[m - 1])
      BY <1>1, <3>1, <3>2
    <3> QED
      BY <1>4, <3>3
  <2> QED
    BY <2>1, <2>2
<1> DEFINE d == DecimalLen(n)
<1>7. d \in 1 .. n + 1 /\ Fits(d)
  <2> HIDE DEF Fits
  <2> QED
    BY <1>2, <1>5, <1>6
<1> HIDE DEF d
<1>8. d \in Positive /\ n < q[d]
  BY <1>7 DEF Positive
<1> QED
  BY <1>8 DEF d, q

\* str(n) is read back by int, for every n; the list indexes that bson.py uses
\* as keys are therefore all different.
THEOREM DecimalSurvives == \A n \in Int : ParseDecimal(Decimal(n)) = n
<1>0. 10 \in Positive
  BY DEF Positive
<1>1. ASSUME NEW m \in Nat
      PROVE  /\ Digits(m, 10, DecimalLen(m)) \in Seq(Int)
             /\ Digits(m, 10, DecimalLen(m))[1] # Minus
             /\ ParseDigits(Digits(m, 10, DecimalLen(m)), 10) = m
  <2> DEFINE k == DecimalLen(m)
             d == Digits(m, 10, k)
  <2>1. k \in Nat /\ k # 0 /\ m < Power(10)[k]
    BY DecimalLenIs DEF Positive
  <2> HIDE DEF k
  <2>2. d \in Seq(Int) /\ \A i \in 1 .. k : d[i] \in 1 .. 10
    BY <1>0, <2>1, DigitsTyped
  <2>3. ParseDigits(d, 10) = m
    BY <1>0, <2>1, DigitsParsed
  <2> HIDE DEF d
  <2>4. d[1] \in 1 .. 10
    BY <2>1, <2>2
  <2>5. d[1] # Minus
    BY <2>4 DEF Minus
  <2> QED
    BY <2>2, <2>3, <2>5 DEF d, k
<1> SUFFICES ASSUME NEW n \in Int PROVE ParseDecimal(Decimal(n)) = n
  OBVIOUS
<1>2. CASE n < 0
  <2> DEFINE m == -n
             d == Digits(m, 10, DecimalLen(m))
  <2>1. m \in Nat /\ -m = n
    BY <1>2
  <2>2. d \in Seq(Int) /\ ParseDigits(d, 10) = m
    BY <1>1, <2>1
  <2>3. Decimal(n) = <<Minus>> \o d
    BY <1>2 DEF Decimal
  <2> HIDE DEF d
  <2>4. (<<Minus>> \o d)[1] = Minus /\ Tail(<<Minus>> \o d) = d
    <3> DEFINE c == <<Minus>> \o d
    <3>1. c \in Seq(Int) /\ Len(c) = Len(d) + 1 /\ c[1] = Minus /\ \A i \in 2 .. Len(d) + 1 : c[i] = d[i - 1]
      BY <2>2 DEF Minus
    <3> HIDE DEF c
    <3>2. Len(d) \in Nat
      BY <2>2
    <3>3. c # << >>
      BY <3>1, <3>2
    <3>4. Tail(c) \in Seq(Int) /\ Len(Tail(c)) = Len(d) /\ \A i \in 1 .. Len(d) : Tail(c)[i] = c[i + 1]
      <4>1. /\ Tail(c) \in Seq(Int) /\ Len(Tail(c)) = Len(c) - 1
            /\ \A i \in 1 .. Len(Tail(c)) : Tail(c)[i] = c[i + 1]
        BY <3>1, <3>3, HeadTailProperties
      <4>2. Len(c) - 1 = Len(d)
        <5>1. \A a \in Nat : (a + 1) - 1 = a
          OBVIOUS
        <5> QED
          BY <3>1, <3>2, <5>1, Zenon
      <4> QED
        BY <4>1, <4>2, Zenon
    <3>5. \A i \in 1 .. Len(d) : Tail(c)[i] = d[i]
      <4> SUFFICES ASSUME NEW i \in 1 .. Len(d) PROVE Tail(c)[i] = d[i]
        OBVIOUS
      <4>1. i + 1 \in 2 .. Len(d) + 1 /\ (i + 1) - 1 = i
        BY <3>2
      <4> QED
        BY <3>1, <3>4, <4>1
    <3>6. Tail(c) = d
      BY <2>2, <3>4, <3>5, SeqEqual
    <3> QED
      BY <3>1, <3>6 DEF c
  <2> QED
    BY <2>1, <2>2, <2>3, <2>4 DEF ParseDecimal
<1>3. CASE ~(n < 0)
  <2>1. n \in Nat
    BY <1>3
  <2>2. Decimal(n) = Digits(n, 10, DecimalLen(n))
    BY <1>3 DEF Decimal
  <2> QED
    BY <1>1, <2>1, <2>2, Zenon DEF ParseDecimal
<1> QED
  BY <1>2, <1>3

(***************************************************************************)
(* Bit vectors.                                                            *)
(***************************************************************************)

\* A value of w bits has at most (w + 3) \div 4 hex digits.
LEMMA HexEnough ==
  \A k \in Nat : \A w \in Nat : w <= 4 * k => Power(2)[w] <= Power(16)[k]
<1> DEFINE p == Power(2)
           h == Power(16)
           T == {k \in Nat : \A w \in Nat : w <= 4 * k => p[w] <= h[k]}
<1>0. 2 \in Positive /\ 16 \in Positive
  BY DEF Positive
<1>1. /\ p[0] = 1 /\ \A k \in Nat : p[k + 1] = 2 * p[k]
      /\ h[0] = 1 /\ \A k \in Nat : h[k + 1] = 16 * h[k]
  BY <1>0, PowerStep
<1>2. \A k \in Nat : p[k] \in Nat /\ h[k] \in Nat /\ h[k] # 0
  BY <1>0, PowerPositive DEF Positive
<1> HIDE DEF p, h
<1>3. p[1] = 2 /\ p[2] = 4 /\ p[3] = 8 /\ p[4] = 16
  <2>1. 0 + 1 = 1 /\ 1 + 1 = 2 /\ 2 + 1 = 3 /\ 3 + 1 = 4
    OBVIOUS
  <2>2. p[1] = 2
    BY <1>1, <2>1
  <2>3. p[2] = 4
    BY <1>1, <2>1, <2>2
  <2>4. p[3] = 8
    BY <1>1, <2>1, <2>3
  <2>5. p[4] = 16
    BY <1>1, <2>1, <2>4
  <2> QED
    BY <2>2, <2>3, <2>4, <2>5
<1>4. \A u \in Nat : p[u + 4] = 16 * p[u]
  <2> SUFFICES ASSUME NEW u \in Nat PROVE p[u + 4] = 16 * p[u]
    OBVIOUS
  <2>1. /\ u + 1 \in Nat /\ u + 2 = (u + 1) + 1 /\ u + 2 \in Nat /\ u + 3 = (u + 2) + 1
        /\ u + 3 \in Nat /\ u + 4 = (u + 3) + 1
    OBVIOUS
  <2>2. p[u + 1] = 2 * p[u] /\ p[u + 2] = 2 * p[u + 1]
    BY <1>1, <2>1
  <2>3. p[u + 3] = 2 * p[u + 2] /\ p[u + 4] = 2 * p[u + 3]
    BY <1>1, <2>1
  <2>4. p[u] \in Nat
    BY <1>2
  <2> QED
    BY <2>2, <2>3, <2>4
<1>5. 0 \in T
  <2>1. \A w \in Nat : w <= 4 * 0 => w = 0
    OBVIOUS
  <2> QED
    BY <1>1, <2>1
<1>6. \A k \in Nat : k \in T => k + 1 \in T
  <2> SUFFICES ASSUME NEW k \in Nat, k \in T, NEW w \in Nat, w <= 4 * (k + 1)
               PROVE  p[w] <= h[k + 1]
    OBVIOUS
  <2>1. h[k + 1] = 16 * h[k] /\ h[k] \in Nat /\ h[k] >= 1
    BY <1>1, <1>2
  <2>2. CASE w \in 0 .. 3
    <3>1. p[w] <= 8
      <4>1. w = 0 \/ w = 1 \/ w = 2 \/ w = 3
        BY <2>2
      <4> QED
        BY <1>1, <1>3, <4>1
    <3>2. p[w] \in Nat
      BY <1>2
    <3> QED
      BY <2>1, <3>1, <3>2
  <2>3. CASE w \notin 0 .. 3
    <3> DEFINE u == w - 4
    <3>1. u \in Nat /\ w = u + 4 /\ u <= 4 * k
      BY <2>3
    <3>2. p[u] <= h[k] /\ p[u] \in Nat
      BY <1>2, <3>1
    <3>3. p[w] = 16 * p[u]
      BY <1>4, <3>1
    <3> HIDE DEF u
    <3> QED
      BY <2>1, <3>2, <3>3
  <2> QED
    BY <2>2, <2>3
<1> HIDE DEF T
<1>7. Nat \subseteq T
  BY <1>5, <1>6, SetInduction
<1> QED
  BY <1>7 DEF T, p, h

\* BitVec.from_hex(b.hex, b.width) is b, for every width, 0 and widths that do not
\* fill a hex digit included.
LEMMA HexSurvives ==
  ASSUME NEW w \in Nat, NEW n \in Int
  PROVE  FromHex(Hex(BitVec(w, n)), w) = BitVec(w, n)
<1> DEFINE p == Power(2)[w]
           v == n % p
<1>0. 2 \in Positive /\ 16 \in Positive
  BY DEF Positive
<1>1. p \in Positive
  BY <1>0, PowerPositive
<1>2. BitVec(w, n).w = w /\ BitVec(w, n).v = v
  BY DEF BitVec
<1>3. v \in Nat /\ v < p
  <2>1. p \in Nat /\ p > 0
    BY <1>1 DEF Positive
  <2> HIDE DEF p
  <2> QED
    BY <2>1
<1>4. v % p = v
  <2> HIDE DEF v, p
  <2> QED
    BY <1>1, <1>3, DivMod
<1>5. ParseDigits(Hex(BitVec(w, n)), 16) = v
  <2>1. CASE w = 0
    <3>1. p = 1
      BY <1>0, <2>1, PowerStep
    <3>2. v = 0
      <4> HIDE DEF v, p
      <4> QED
        BY <1>3, <3>1
    <3>3. Hex(BitVec(w, n)) = Digits(0, 16, 1)
      BY <1>2, <2>1 DEF Hex
    <3>4. 0 < Power(16)[1]
      BY <1>0, PowerPositive DEF Positive
    <3> QED
      BY <1>0, <3>2, <3>3, <3>4, DigitsParsed
  <2>2. CASE w # 0
    <3> DEFINE k == (w + 3) \div 4
    <3>1. k \in Nat /\ w <= 4 * k
      OBVIOUS
    <3>2. Hex(BitVec(w, n)) = Digits(v, 16, k)
      BY <1>2, <2>2 DEF Hex
    <3> HIDE DEF k, v
    <3>3. p <= Power(16)[k]
      BY <3>1, HexEnough
    <3>4. Power(16)[k] \in Nat /\ p \in Nat
      BY <1>0, <1>1, <3>1, PowerPositive DEF Positive
    <3>5. v < Power(16)[k]
      <4> HIDE DEF p
      <4> QED
        BY <1>3, <3>3, <3>4
    <3> QED
      BY <1>0, <1>3, <3>1, <3>2, <3>5, DigitsParsed
  <2> QED
    BY <2>1, <2>2
<1>6. FromHex(Hex(BitVec(w, n)), w) = BitVec(w, v)
  BY <1>5 DEF FromHex
<1> HIDE DEF v
<1> QED
  BY <1>4, <1>6 DEF BitVec, v

\* A bit vector is its own after to_doc and from_doc.
THEOREM BitVecSurvives ==
  \A w \in Nat, n \in Int : BitVecFromDoc(BitVecToDoc(BitVec(w, n)).d) = BitVec(w, n)
<1> SUFFICES ASSUME NEW w \in Nat, NEW n \in Int
             PROVE  BitVecFromDoc(BitVecToDoc(BitVec(w, n)).d) = BitVec(w, n)
  OBVIOUS
<1> DEFINE b == BitVec(w, n)
           h == Hex(b)
           x == <<Name.width, Num(b.w)>>
           y == <<Name.hex, Str(h)>>
           d == <<x, y>>
<1>1. b.w = w
  BY DEF BitVec
<1>2. FromHex(h, w) = b
  BY HexSurvives
<1>3. BitVecToDoc(b).d = d
  BY DEF BitVecToDoc, Dict
<1> HIDE DEF b, h
<1>4. Name.width # Name.hex
  BY DEF Name
<1>5. DOMAIN d = {1, 2} /\ d[1][1] = Name.width /\ d[2][1] = Name.hex
  OBVIOUS
<1>6. d[1][2] = Num(b.w) /\ d[2][2] = Str(h)
  OBVIOUS
<1> HIDE DEF d
<1>7. Get(d, Name.width) = Num(b.w)
  <2>1. \A i \in DOMAIN d : d[i][1] = Name.width <=> i = 1
    BY <1>4, <1>5
  <2>2. (CHOOSE i \in DOMAIN d : d[i][1] = Name.width) = 1
    BY <1>5, <2>1
  <2> QED
    BY <1>6, <2>2, Zenon DEF Get
<1>8. Get(d, Name.hex) = Str(h)
  <2>1. \A i \in DOMAIN d : d[i][1] = Name.hex <=> i = 2
    BY <1>4, <1>5
  <2>2. (CHOOSE i \in DOMAIN d : d[i][1] = Name.hex) = 2
    BY <1>5, <2>1
  <2> QED
    BY <1>6, <2>2, Zenon DEF Get
<1>9. Num(b.w).n = w /\ Str(h).s = h
  BY <1>1 DEF Num, Str
<1>10. BitVecFromDoc(d) = b
  BY <1>2, <1>7, <1>8, <1>9, Zenon DEF BitVecFromDoc
<1> QED
  BY <1>3, <1>10, Zenon DEF b

(***************************************************************************)
(* struct.pack and struct.unpack.                                          *)
(***************************************************************************)

\* What Unsigned returns is the last value of its loop, which goes down.
LEMMA UnsignedIs ==
  ASSUME NEW s \in Seq(Int)
  PROVE  \E v : /\ v[Len(s) + 1] = 0 /\ Unsigned(s) = v[1]
                /\ \A k \in 1 .. Len(s) : v[k] = s[k] + Radix * v[k + 1]
<1> USE RadixAssumption
<1> DEFINE n == Len(s)
           Is(v) == v = [i \in 1 .. n + 1 |-> IF i > n THEN 0 ELSE s[i] + Radix * v[i + 1]]
           next(k) == [x \in Int |-> s[n + 1 - k] + Radix * x]
           step == [k \in 1 .. n |-> next(k)]
<1>1. n \in Nat /\ \A k \in 1 .. n : s[k] \in Int
  OBVIOUS
<1> HIDE DEF n
<1>2. step \in [1 .. n -> [Int -> Int]]
  <2>1. ASSUME NEW k \in 1 .. n, NEW x \in Int PROVE s[n + 1 - k] + Radix * x \in Int
    <3>1. n + 1 - k \in 1 .. n
      BY <1>1
    <3>2. s[n + 1 - k] \in Int
      BY <1>1, <3>1
    <3> QED
      BY <3>2
  <2> QED
    BY <2>1
<1>3. \A k \in 1 .. n, x \in Int : step[k][x] = s[n + 1 - k] + Radix * x
  OBVIOUS
<1> HIDE DEF step
<1>4. PICK f \in [0 .. n -> Int] : Runs(f, n, 0, step)
  <2>1. 0 \in Int
    OBVIOUS
  <2> QED
    BY <1>1, <1>2, <2>1, RecursionExists, Zenon
<1>5. f[0] = 0 /\ \A k \in 1 .. n : f[k] = s[n + 1 - k] + Radix * f[k - 1]
  <2>1. f[0] = 0
    BY <1>1, <1>4 DEF Runs
  <2>2. ASSUME NEW k \in 1 .. n PROVE f[k] = s[n + 1 - k] + Radix * f[k - 1]
    <3>1. k \in 0 .. n /\ k # 0 /\ k - 1 \in 0 .. n
      BY <1>1
    <3>2. f[k] = step[k][f[k - 1]] /\ f[k - 1] \in Int
      BY <1>4, <3>1 DEF Runs
    <3> QED
      BY <1>3, <3>2
  <2> QED
    BY <2>1, <2>2
<1> DEFINE g == [i \in 1 .. n + 1 |-> f[n + 1 - i]]
<1>6. Is(g)
  <2>1. ASSUME NEW i \in 1 .. n + 1
        PROVE  g[i] = IF i > n THEN 0 ELSE s[i] + Radix * g[i + 1]
    <3>1. CASE i > n
      <4>1. n + 1 - i = 0
        BY <1>1, <3>1
      <4> QED
        BY <1>5, <3>1, <4>1
    <3>2. CASE ~(i > n)
      <4>1. /\ n + 1 - i \in 1 .. n /\ n + 1 - (n + 1 - i) = i
            /\ (n + 1 - i) - 1 = n + 1 - (i + 1) /\ i + 1 \in 1 .. n + 1
        BY <1>1, <3>2
      <4>2. g[i + 1] = f[n + 1 - (i + 1)] /\ g[i] = f[n + 1 - i]
        BY <4>1
      <4> QED
        BY <1>5, <3>2, <4>1, <4>2
    <3> QED
      BY <3>1, <3>2
  <2>2. g = [i \in 1 .. n + 1 |-> g[i]]
    OBVIOUS
  <2> HIDE DEF g
  <2> QED
    BY <2>1, <2>2
<1> HIDE DEF g
<1> DEFINE v == CHOOSE u : Is(u)
<1>7. Is(v)
  <2> HIDE DEF Is
  <2> QED
    BY <1>6
<1>8. Unsigned(s) = v[1]
  BY DEF Unsigned, n
<1> HIDE DEF v
<1>9. \A i \in 1 .. n + 1 : v[i] = IF i > n THEN 0 ELSE s[i] + Radix * v[i + 1]
  BY <1>7, Zenon
<1>10. /\ n + 1 \in 1 .. n + 1 /\ n + 1 > n
       /\ \A k \in 1 .. n : k \in 1 .. n + 1 /\ ~(k > n)
  BY <1>1
<1>11. v[n + 1] = 0 /\ \A k \in 1 .. n : v[k] = s[k] + Radix * v[k + 1]
  BY <1>9, <1>10, Zenon
<1> QED
  BY <1>8, <1>11, Zenon DEF n

LEMMA RadixPositive == Radix \in Positive /\ Radix \in Nat
BY RadixAssumption DEF Positive

LEMMA PackTyped ==
  ASSUME NEW n \in Int, NEW w \in Nat
  PROVE  Pack(n, w) \in Seq(Nat) /\ Len(Pack(n, w)) = w
<1> DEFINE m == n % Power(Radix)[w]
           d(i) == (m \div Power(Radix)[i - 1]) % Radix
<1>1. Power(Radix)[w] \in Positive
  BY RadixPositive, PowerPositive
<1>2. m \in Nat
  <2> DEFINE p == Power(Radix)[w]
  <2>1. p \in Nat /\ p > 0
    BY <1>1 DEF Positive
  <2> HIDE DEF p
  <2> QED
    BY <2>1 DEF p
<1> HIDE DEF m
<1>3. ASSUME NEW i \in 1 .. w PROVE d(i) \in Nat
  <2>1. i - 1 \in Nat
    OBVIOUS
  <2>2. Power(Radix)[i - 1] \in Positive
    BY <2>1, RadixPositive, PowerPositive
  <2>3. m \div Power(Radix)[i - 1] \in Nat
    BY <1>2, <2>2, DivMod
  <2>4. \A x \in Nat : x % Radix \in 0 .. Radix - 1
    BY RadixPositive, DivMod
  <2>5. \A x \in 0 .. Radix - 1 : x \in Nat
    BY RadixPositive
  <2> QED
    BY <2>3, <2>4, <2>5
<1>4. Pack(n, w) = [i \in 1 .. w |-> d(i)]
  BY DEF Pack, m
<1> HIDE DEF d
<1> QED
  BY <1>3, <1>4

\* A number that fits w bytes is read back from them.
LEMMA PackSurvives ==
  ASSUME NEW n \in Int, NEW w \in Nat,
         -(Power(Radix)[w] \div 2) <= n, n < Power(Radix)[w] \div 2
  PROVE  Unpack(Pack(n, w)) = n
<1> DEFINE q == Power(Radix)
           p == q[w]
           m == n % p
           s == Pack(n, w)
<1>1. s \in Seq(Nat) /\ Len(s) = w
  BY PackTyped
<1>2. \A i \in 1 .. w : s[i] = (m \div q[i - 1]) % Radix
  BY DEF Pack
<1>3. q[0] = 1 /\ \A k \in Nat : q[k + 1] = Radix * q[k]
  BY RadixPositive, PowerStep
<1>4. \A k \in Nat : q[k] \in Positive
  BY RadixPositive, PowerPositive
<1> HIDE DEF s, q
<1>5. p \in Nat /\ p > 0
  BY <1>4 DEF Positive
<1>6. -(p \div 2) <= n /\ n < p \div 2
  BY DEF q
<1> HIDE DEF p
<1>7. m \in Nat /\ m < p /\ m = IF n < 0 THEN n + p ELSE n
  <2>1. p \div 2 \in Nat /\ 2 * (p \div 2) <= p
    BY <1>5
  <2>2. CASE n < 0
    <3>1. n + p \in Nat /\ n + p < p
      BY <1>5, <1>6, <2>1, <2>2
    <3>2. n % p = n + p
      <4>1. \A a, b \in Int : b > 0 /\ a + b >= 0 /\ a < 0 => a % b = a + b
        OBVIOUS
      <4> QED
        BY <1>5, <2>2, <3>1, <4>1
    <3> QED
      BY <2>2, <3>1, <3>2
  <2>3. CASE ~(n < 0)
    <3>1. n \in Nat /\ n < p
      BY <1>5, <1>6, <2>1, <2>3
    <3>2. n % p = n
      <4>1. \A a, b \in Int : b > 0 /\ a >= 0 /\ a < b => a % b = a
        OBVIOUS
      <4> QED
        BY <1>5, <3>1, <4>1
    <3> QED
      BY <2>3, <3>1, <3>2
  <2> QED
    BY <2>2, <2>3
<1> HIDE DEF m
<1>8. PICK v : /\ v[w + 1] = 0 /\ Unsigned(s) = v[1]
               /\ \A k \in 1 .. w : v[k] = s[k] + Radix * v[k + 1]
  <2>1. s \in Seq(Int)
    BY <1>1
  <2> QED
    BY <1>1, <2>1, UnsignedIs, Zenon
<1> DEFINE T == {j \in 0 .. w : v[w + 1 - j] = m \div q[w - j]}
<1>9. 0 \in T
  <2>1. w + 1 - 0 = w + 1 /\ w - 0 = w /\ q[w] \in Positive
    BY <1>4
  <2>2. m \div q[w] = 0
    BY <1>7, <2>1, DivMod DEF p
  <2> QED
    BY <1>8, <2>1, <2>2
<1>10. \A j \in 0 .. w - 1 : j \in T => j + 1 \in T
  <2> SUFFICES ASSUME NEW j \in 0 .. w - 1, j \in T PROVE j + 1 \in T
    OBVIOUS
  <2> DEFINE i == w - j
             a == q[i - 1]
             x == m \div a
  <2>1. /\ i \in 1 .. w /\ i - 1 \in Nat /\ (i - 1) + 1 = i /\ w + 1 - j = i + 1
        /\ w + 1 - (j + 1) = i /\ w - (j + 1) = i - 1 /\ j + 1 \in 0 .. w
    OBVIOUS
  <2>2. a \in Positive /\ q[i] = Radix * a
    BY <1>3, <1>4, <2>1
  <2>3. s[i] = x % Radix
    BY <1>2, <2>1
  <2>4. v[i + 1] = m \div (Radix * a)
    BY <2>1, <2>2
  <2>5. x \in Nat
    BY <1>7, <2>2, DivMod
  <2>6. m \div (Radix * a) = x \div Radix
    BY <1>7, <2>2, RadixPositive, DivDiv
  <2> HIDE DEF x
  <2>7. v[i] = s[i] + Radix * v[i + 1]
    BY <1>8, <2>1
  <2>8. /\ x = (x \div Radix) * Radix + (x % Radix) /\ x \div Radix \in Nat /\ x % Radix \in 0 .. Radix - 1
    BY <2>5, RadixPositive, DivMod
  <2>9. x = (x % Radix) + Radix * (x \div Radix)
    <3>1. \A r, b, c \in Int : c * r + b = b + r * c
      OBVIOUS
    <3>2. Radix \in Int /\ x % Radix \in Int /\ x \div Radix \in Int
      BY <2>8, RadixPositive
    <3> QED
      BY <2>8, <3>1, <3>2
  <2>10. v[i] = x
    BY <2>3, <2>4, <2>6, <2>7, <2>9
  <2> QED
    BY <2>1, <2>10 DEF x
<1> HIDE DEF T
<1>11. w \in T
  <2>1. 0 .. w \subseteq T
    BY <1>9, <1>10, RangeInduction
  <2> QED
    BY <2>1
<1>12. v[1] = m
  <2>1. w + 1 - w = 1 /\ w - w = 0
    OBVIOUS
  <2>2. v[1] = m \div q[0]
    BY <1>11, <2>1 DEF T
  <2>3. \A x \in Nat : x \div 1 = x
    OBVIOUS
  <2> QED
    BY <1>3, <1>7, <2>2, <2>3
<1>13. Unpack(s) = IF m >= p \div 2 THEN m - p ELSE m
  BY <1>1, <1>8, <1>12, Zenon DEF Unpack, p, q
<1>14. (IF m >= p \div 2 THEN m - p ELSE m) = n
  <2>1. p \div 2 \in Nat /\ 2 * (p \div 2) <= p
    BY <1>5
  <2> QED
    BY <1>5, <1>6, <1>7, <2>1
<1> QED
  BY <1>13, <1>14 DEF s

(***************************************************************************)
(* Scalars in a BSON buffer.                                               *)
(***************************************************************************)

\* The scalars that struct.pack accepts: an int has 64 bits, and a text is
\* shorter than 2 GiB.
Packable(n) == -INT64_MAX <= n /\ n < INT64_MAX
TextFits(s) == Len(s) + 1 < INT32_MAX
BsonScalars ==
  {Null} \cup {Bool(b) : b \in BOOLEAN} \cup {Num(n) : n \in {i \in Int : Packable(i)}}
    \cup {Str(s) : s \in {x \in Seq(Nat) : TextFits(x)}}

\* b is in the buffer, after k bytes.
Holds(buf, k, b) ==
  k + Len(b) <= Len(buf) /\ \A i \in 1 .. Len(b) : buf[k + i] = b[i]

LEMMA Middle ==
  ASSUME NEW a \in Seq(Nat), NEW b \in Seq(Nat), NEW c \in Seq(Nat)
  PROVE  (a \o b) \o c \in Seq(Nat) /\ Holds((a \o b) \o c, Len(a), b)
<1>1. a \o b \in Seq(Nat) /\ Len(a \o b) = Len(a) + Len(b)
  BY ConcatProperties
<1>2. \A i \in 1 .. Len(b) : (a \o b)[Len(a) + i] = b[i]
  OBVIOUS
<1>3. Len(a) \in Nat /\ Len(b) \in Nat /\ Len(c) \in Nat
  OBVIOUS
<1> DEFINE d == a \o b
<1> HIDE DEF d
<1>4. \A i \in 1 .. Len(d) : (d \o c)[i] = d[i]
  BY <1>1 DEF d
<1>5. \A i \in 1 .. Len(b) : Len(a) + i \in 1 .. Len(a) + Len(b)
  BY <1>3
<1>6. d \o c \in Seq(Nat) /\ Len(d \o c) = (Len(a) + Len(b)) + Len(c)
  BY <1>1, ConcatProperties DEF d
<1>7. \A i \in 1 .. Len(b) : (d \o c)[Len(a) + i] = b[i]
  BY <1>1, <1>2, <1>4, <1>5, Zenon DEF d
<1>8. Len(a) + Len(b) <= Len(d \o c)
  <2>1. \A x, y, z \in Nat : x + y <= (x + y) + z
    OBVIOUS
  <2> QED
    BY <1>3, <1>6, <2>1, Zenon
<1> QED
  BY <1>6, <1>7, <1>8, Zenon DEF d, Holds

\* What holds a whole holds its parts.
LEMMA HoldsParts ==
  ASSUME NEW a \in Seq(Nat), NEW b \in Seq(Nat), NEW c \in Seq(Nat), NEW buf \in Seq(Nat),
         NEW k \in Nat, Holds(buf, k, (a \o b) \o c)
  PROVE  Holds(buf, k, a) /\ Holds(buf, k + Len(a), b)
<1> DEFINE p == (a \o b) \o c
           d == a \o b
           l == Len(a)
           m == Len(b)
           n == Len(c)
           z == Len(buf)
<1>1. d \in Seq(Nat) /\ Len(d) = l + m /\ \A i \in 1 .. l : d[i] = a[i]
  <2>1. Len(d) = l + m /\ d \in Seq(Nat)
    BY ConcatProperties
  <2>2. \A i \in 1 .. l : d[i] = a[i]
    OBVIOUS
  <2> QED
    BY <2>1, <2>2
<1>2. l \in Nat /\ m \in Nat /\ n \in Nat /\ z \in Nat
  OBVIOUS
<1>3. /\ p = d \o c
      /\ Holds(p, l, b)
  BY Middle
<1> HIDE DEF p, d
<1>4. Len(p) = (l + m) + n /\ \A i \in 1 .. l + m : p[i] = d[i]
  <2>1. Len(d \o c) = Len(d) + n
    BY <1>1, ConcatProperties
  <2>2. \A i \in 1 .. Len(d) : (d \o c)[i] = d[i]
    BY <1>1
  <2> QED
    BY <1>1, <1>3, <2>1, <2>2, Zenon
<1>5. k + Len(p) <= z /\ \A i \in 1 .. Len(p) : buf[k + i] = p[i]
  BY DEF Holds, p, d
<1>6. \A i \in 1 .. m : p[l + i] = b[i]
  BY <1>3 DEF Holds
<1> HIDE DEF l, m, n, z
<1>7. /\ k + l <= z /\ (k + l) + m <= z
      /\ \A i \in 1 .. l : i \in 1 .. l + m /\ i \in 1 .. (l + m) + n
      /\ \A i \in 1 .. m : l + i \in 1 .. (l + m) + n /\ (k + l) + i = k + (l + i)
  BY <1>2, <1>4, <1>5
<1>8. \A i \in 1 .. l : buf[k + i] = a[i]
  BY <1>1, <1>4, <1>5, <1>7, Zenon
<1>9. \A i \in 1 .. m : buf[(k + l) + i] = b[i]
  BY <1>4, <1>5, <1>6, <1>7, Zenon
<1> QED
  BY <1>7, <1>8, <1>9, Zenon DEF Holds, l, m, z

LEMMA SliceIs ==
  ASSUME NEW buf \in Seq(Nat), NEW k \in Nat, NEW b \in Seq(Nat), Holds(buf, k, b)
  PROVE  SubSeq(buf, k + 1, k + Len(b)) = b
<1> DEFINE n == Len(b)
           s == SubSeq(buf, k + 1, k + n)
<1>1. n \in Nat /\ Len(buf) \in Nat /\ k + n <= Len(buf)
  BY DEF Holds
<1>2. \A i \in k + 1 .. k + n : buf[i] \in Nat
  BY <1>1
<1>3. \A i \in 1 .. n : buf[k + i] = b[i]
  BY DEF Holds
<1> HIDE DEF n
<1>4. s \in Seq(Nat) /\ Len(s) = n /\ \A i \in 1 .. n : s[i] = buf[k + i]
  BY <1>1, <1>2
<1> HIDE DEF s
<1>5. \A i \in 1 .. n : s[i] = b[i]
  BY <1>3, <1>4, Zenon
<1>6. s = b
  BY <1>4, <1>5, SeqEqual DEF n
<1> QED
  BY <1>6 DEF s, n

\* A packed number is read back wherever it stands.
LEMMA NumberIs ==
  ASSUME NEW buf \in Seq(Nat), NEW k \in Nat, NEW n \in Int, NEW w \in Nat,
         -(Power(Radix)[w] \div 2) <= n, n < Power(Radix)[w] \div 2,
         Holds(buf, k, Pack(n, w))
  PROVE  Has(buf, k + 1, w) /\ Number(buf, k + 1, w) = n
<1>1. Pack(n, w) \in Seq(Nat) /\ Len(Pack(n, w)) = w
  BY PackTyped
<1>2. SubSeq(buf, k + 1, k + w) = Pack(n, w)
  BY <1>1, SliceIs
<1>3. (k + 1) + w - 1 = k + w
  OBVIOUS
<1>4. Unpack(Pack(n, w)) = n
  BY PackSurvives
<1>5. Number(buf, k + 1, w) = n
  BY <1>2, <1>3, <1>4, Zenon DEF Number
<1>6. Has(buf, k + 1, w)
  BY <1>1, <1>3, Zenon DEF Has, Holds
<1> QED
  BY <1>5, <1>6

\* _dec_val, tag by tag.
LEMMA DecScalarIs ==
  ASSUME NEW buf, NEW off
  PROVE  /\ DecScalar(buf, off, Tag.null) = Decoded(Null, off)
         /\ Has(buf, off, 1) =>
              DecScalar(buf, off, Tag.bool) = Decoded(Bool(buf[off] # 0), off + 1)
         /\ Has(buf, off, 4) =>
              DecScalar(buf, off, Tag.int32) = Decoded(Num(Number(buf, off, 4)), off + 4)
         /\ Has(buf, off, 8) =>
              DecScalar(buf, off, Tag.int64) = Decoded(Num(Number(buf, off, 8)), off + 8)
         /\ Has(buf, off, 4) =>
              DecScalar(buf, off, Tag.str) =
                Decoded(Str(Slice(buf, off + 4, Number(buf, off, 4) - 1)),
                        off + 4 + Number(buf, off, 4))
<1>1. /\ Tag.null = 10 /\ Tag.bool = 8 /\ Tag.int32 = 16 /\ Tag.int64 = 18 /\ Tag.str = 2
  BY DEF Tag
<1>2. DecScalar(buf, off, Tag.null) = Decoded(Null, off)
  BY <1>1 DEF DecScalar
<1>3. ASSUME Has(buf, off, 1)
      PROVE  DecScalar(buf, off, Tag.bool) = Decoded(Bool(buf[off] # 0), off + 1)
  BY <1>1, <1>3 DEF DecScalar
<1>4. ASSUME Has(buf, off, 4)
      PROVE  DecScalar(buf, off, Tag.int32) = Decoded(Num(Number(buf, off, 4)), off + 4)
  BY <1>1, <1>4 DEF DecScalar
<1>5. ASSUME Has(buf, off, 8)
      PROVE  DecScalar(buf, off, Tag.int64) = Decoded(Num(Number(buf, off, 8)), off + 8)
  BY <1>1, <1>5 DEF DecScalar
<1>6. ASSUME Has(buf, off, 4)
      PROVE  DecScalar(buf, off, Tag.str) =
               Decoded(Str(Slice(buf, off + 4, Number(buf, off, 4) - 1)),
                       off + 4 + Number(buf, off, 4))
  BY <1>1, <1>6 DEF DecScalar
<1> QED
  BY <1>2, <1>3, <1>4, <1>5, <1>6

LEMMA HalfIs == \A x \in Nat : x \div 2 \in Nat
OBVIOUS

\* A text, with its length before it and a NUL after it.
LEMMA TextIs ==
  ASSUME NEW buf \in Seq(Nat), NEW k \in Nat, NEW s \in Seq(Nat), TextFits(s),
         Holds(buf, k, (Pack(Len(s) + 1, 4) \o s) \o <<NUL>>)
  PROVE  DecScalar(buf, k + 1, Tag.str) = Decoded(Str(s), (k + 1) + (4 + (Len(s) + 1)))
<1> DEFINE n == Len(s)
           off == k + 1
           x == Power(Radix)[4] \div 2
           h == Pack(n + 1, 4)
           z == <<NUL>>
<1>1. n \in Nat /\ Len(buf) \in Nat
  OBVIOUS
<1>2. x \in Nat
  BY RadixPositive, PowerPositive, HalfIs DEF Positive
<1>3. n + 1 < x
  BY DEF TextFits, INT32_MAX
<1>4. n + 1 \in Int /\ 4 \in Nat
  BY <1>1
<1>5. h \in Seq(Nat) /\ Len(h) = 4
  BY <1>4, PackTyped
<1>6. z \in Seq(Nat)
  BY DEF NUL
<1>7. Holds(buf, k, h) /\ Holds(buf, k + 4, s)
  <2>1. Holds(buf, k, (h \o s) \o z)
    OBVIOUS
  <2> HIDE DEF h, z
  <2>2. Holds(buf, k, h) /\ Holds(buf, k + Len(h), s)
    BY <1>5, <1>6, <2>1, HoldsParts
  <2> QED
    BY <1>5, <2>2, Zenon
<1>8. Has(buf, off, 4) /\ Number(buf, off, 4) = n + 1
  <2>1. -x <= n + 1
    <3> HIDE DEF x, n
    <3> QED
      BY <1>1, <1>2
  <2> QED
    BY <1>3, <1>4, <1>7, <2>1, NumberIs
<1>9. Slice(buf, off + 4, n) = s
  <2>1. k + 4 \in Nat
    OBVIOUS
  <2>2. SubSeq(buf, (k + 4) + 1, (k + 4) + n) = s
    BY <1>7, <2>1, SliceIs
  <2>3. (k + 4) + n <= Len(buf)
    BY <1>7 DEF Holds
  <2> HIDE DEF n
  <2>4. off + 4 = (k + 4) + 1 /\ (off + 4) + n - 1 = (k + 4) + n
    BY <1>1
  <2>5. ~((off + 4) + n - 1 > Len(buf))
    BY <1>1, <2>1, <2>3, <2>4
  <2> HIDE DEF off
  <2> QED
    BY <2>2, <2>4, <2>5, Zenon DEF Slice
<1>10. DecScalar(buf, off, Tag.str) = Decoded(Str(Slice(buf, off + 4, (n + 1) - 1)), off + 4 + (n + 1))
  <2> HIDE DEF off, n
  <2>1. DecScalar(buf, off, Tag.str) = Decoded(Str(Slice(buf, off + 4, Number(buf, off, 4) - 1)),
                                               off + 4 + Number(buf, off, 4))
    BY <1>8, DecScalarIs
  <2> QED
    BY <1>8, <2>1, Zenon
<1> HIDE DEF n
<1>11. (n + 1) - 1 = n /\ off + 4 + (n + 1) = off + (4 + (n + 1))
  BY <1>1
<1> HIDE DEF off
<1> QED
  BY <1>9, <1>10, <1>11, Zenon DEF off, n

\* A scalar, written anywhere in a file by _payload under the tag of _type_byte, is
\* read back by _dec_val, which stops right after it: at every edge of 32 and 64
\* bits, and for a text that is empty or holds NUL.
THEOREM ScalarSurvivesBson ==
  \A v \in BsonScalars : \A before, after \in Seq(Nat) :
    DecScalar((before \o ScalarPayload(v)) \o after, Len(before) + 1, TypeByte(v)) =
      Decoded(v, (Len(before) + 1) + Len(ScalarPayload(v)))
<1> SUFFICES ASSUME NEW v \in BsonScalars, NEW before \in Seq(Nat), NEW after \in Seq(Nat)
             PROVE  DecScalar((before \o ScalarPayload(v)) \o after, Len(before) + 1, TypeByte(v)) =
                      Decoded(v, (Len(before) + 1) + Len(ScalarPayload(v)))
  OBVIOUS
<1> DEFINE k == Len(before)
           p == ScalarPayload(v)
           buf == (before \o p) \o after
           Same == DecScalar(buf, k + 1, TypeByte(v)) = Decoded(v, (k + 1) + Len(p))
<1>1. k \in Nat /\ k + 1 \in Nat
  OBVIOUS
<1>2. ASSUME p \in Seq(Nat) PROVE buf \in Seq(Nat) /\ Holds(buf, k, p)
  <2> HIDE DEF p
  <2> QED
    BY <1>2, Middle
<1> HIDE DEF k, buf
<1>3. ASSUME v = Null PROVE Same
  <2>1. TypeByte(v) = Tag.null /\ p = << >>
    BY <1>3 DEF TypeByte, Null, ScalarPayload, Tag
  <2> HIDE DEF p
  <2>2. Len(p) = 0
    BY <2>1
  <2>3. (k + 1) + 0 = k + 1
    BY <1>1
  <2>4. DecScalar(buf, k + 1, Tag.null) = Decoded(Null, k + 1)
    BY DecScalarIs
  <2> QED
    BY <1>3, <2>1, <2>2, <2>3, <2>4, Zenon
<1>4. ASSUME NEW b \in BOOLEAN, v = Bool(b)
      PROVE  Same
  <2>1. TypeByte(v) = Tag.bool /\ v.t = "bool" /\ v.b = b
    BY <1>4 DEF TypeByte, Bool, Tag
  <2>2. p = IF b THEN <<1>> ELSE <<0>>
    BY <2>1 DEF ScalarPayload
  <2> HIDE DEF p
  <2>3. p \in Seq(Nat) /\ Len(p) = 1 /\ (p[1] # 0) = b
    BY <2>2
  <2>4. Holds(buf, k, p)
    BY <1>2, <2>3
  <2>5. buf[k + 1] = p[1] /\ k + 1 <= Len(buf)
    <3>1. 1 \in 1 .. 1
      OBVIOUS
    <3> QED
      BY <2>3, <2>4, <3>1, Zenon DEF Holds
  <2>6. Has(buf, k + 1, 1)
    <3>1. (k + 1) + 1 - 1 = k + 1
      BY <1>1
    <3> QED
      BY <2>5, <3>1, Zenon DEF Has
  <2>7. (buf[k + 1] # 0) = b
    BY <2>3, <2>5, Zenon
  <2>8. DecScalar(buf, k + 1, Tag.bool) = Decoded(Bool(buf[k + 1] # 0), (k + 1) + 1)
    BY <2>6, DecScalarIs
  <2> QED
    BY <1>4, <2>1, <2>3, <2>7, <2>8, Zenon
<1>5. ASSUME NEW n \in Int, Packable(n), v = Num(n)
      PROVE  Same
  <2>1. v.t = "int" /\ v.n = n
    BY <1>5 DEF Num
  <2>2. ASSUME NEW w \in Nat, p = Pack(n, w),
               -(Power(Radix)[w] \div 2) <= n, n < Power(Radix)[w] \div 2
        PROVE  Has(buf, k + 1, w) /\ Number(buf, k + 1, w) = n /\ Len(p) = w
    <3>1. Pack(n, w) \in Seq(Nat) /\ Len(Pack(n, w)) = w
      BY PackTyped
    <3> HIDE DEF p
    <3>2. buf \in Seq(Nat) /\ Holds(buf, k, Pack(n, w)) /\ Len(p) = w
      BY <1>2, <2>2, <3>1, Zenon
    <3> QED
      BY <1>1, <2>2, <3>2, NumberIs
  <2>3. CASE INT32_MIN <= n /\ n < INT32_MAX
    <3>1. TypeByte(v) = Tag.int32 /\ p = Pack(n, 4)
      BY <2>1, <2>3, Zenon DEF TypeByte, ScalarPayload
    <3>2. -(Power(Radix)[4] \div 2) <= n /\ n < Power(Radix)[4] \div 2 /\ 4 \in Nat
      BY <2>3 DEF INT32_MIN, INT32_MAX
    <3> HIDE DEF p
    <3>3. Has(buf, k + 1, 4) /\ Number(buf, k + 1, 4) = n /\ Len(p) = 4
      BY <2>2, <3>1, <3>2, Zenon
    <3>4. DecScalar(buf, k + 1, Tag.int32) = Decoded(Num(Number(buf, k + 1, 4)), (k + 1) + 4)
      BY <3>3, DecScalarIs
    <3> QED
      BY <1>5, <3>1, <3>3, <3>4, Zenon
  <2>4. CASE ~(INT32_MIN <= n /\ n < INT32_MAX)
    <3>1. TypeByte(v) = Tag.int64 /\ p = Pack(n, 8)
      BY <2>1, <2>4, Zenon DEF TypeByte, ScalarPayload
    <3>2. -(Power(Radix)[8] \div 2) <= n /\ n < Power(Radix)[8] \div 2 /\ 8 \in Nat
      BY <1>5 DEF Packable, INT64_MAX
    <3> HIDE DEF p
    <3>3. Has(buf, k + 1, 8) /\ Number(buf, k + 1, 8) = n /\ Len(p) = 8
      BY <2>2, <3>1, <3>2, Zenon
    <3>4. DecScalar(buf, k + 1, Tag.int64) = Decoded(Num(Number(buf, k + 1, 8)), (k + 1) + 8)
      BY <3>3, DecScalarIs
    <3> QED
      BY <1>5, <3>1, <3>3, <3>4, Zenon
  <2> QED
    BY <2>3, <2>4
<1>6. ASSUME NEW s \in Seq(Nat), TextFits(s), v = Str(s)
      PROVE  Same
  <2> DEFINE h == Pack(Len(s) + 1, 4)
             z == <<NUL>>
  <2>1. TypeByte(v) = Tag.str /\ v.t = "str" /\ v.s = s
    BY <1>6 DEF TypeByte, Str, Tag
  <2>2. p = (h \o s) \o z
    BY <2>1 DEF ScalarPayload
  <2>3. Len(s) \in Nat /\ Len(s) + 1 \in Int /\ 4 \in Nat
    OBVIOUS
  <2>4. h \in Seq(Nat) /\ Len(h) = 4
    BY <2>3, PackTyped
  <2>5. z \in Seq(Nat) /\ Len(z) = 1
    BY DEF NUL
  <2> HIDE DEF p, h, z
  <2>6. p \in Seq(Nat) /\ Len(p) = (4 + Len(s)) + 1
    <3>1. h \o s \in Seq(Nat) /\ Len(h \o s) = Len(h) + Len(s)
      BY <2>4, ConcatProperties
    <3>2. (h \o s) \o z \in Seq(Nat) /\ Len((h \o s) \o z) = Len(h \o s) + Len(z)
      BY <2>5, <3>1, ConcatProperties
    <3> QED
      BY <2>2, <2>4, <2>5, <3>1, <3>2, Zenon
  <2>7. buf \in Seq(Nat) /\ Holds(buf, k, (h \o s) \o z)
    BY <1>2, <2>2, <2>6, Zenon
  <2>8. DecScalar(buf, k + 1, Tag.str) = Decoded(Str(s), (k + 1) + (4 + (Len(s) + 1)))
    BY <1>1, <1>6, <2>7, TextIs DEF h, z
  <2>9. Len(p) = 4 + (Len(s) + 1)
    <3>1. \A a \in Nat : (4 + a) + 1 = 4 + (a + 1)
      OBVIOUS
    <3> QED
      BY <2>3, <2>6, <3>1, Zenon
  <2> QED
    BY <1>6, <2>1, <2>8, <2>9, Zenon
<1> HIDE DEF p
<1>7. Same
  <2>1. \/ v = Null \/ \E b \in BOOLEAN : v = Bool(b)
        \/ \E n \in Int : Packable(n) /\ v = Num(n)
        \/ \E s \in Seq(Nat) : TextFits(s) /\ v = Str(s)
    BY Zenon DEF BsonScalars
  <2> QED
    BY <1>3, <1>4, <1>5, <1>6, <2>1, Zenon
<1> QED
  BY <1>7, Zenon DEF k, p, buf

(***************************************************************************)
(* xml.py                                                                  *)
(***************************************************************************)

\* Texts of the characters XML allows.
XmlTexts == {s \in Seq(Nat) : Allowed(s)}

XmlScalars ==
  {Null} \cup {Bool(b) : b \in BOOLEAN} \cup {Num(n) : n \in Int} \cup {Str(s) : s \in XmlTexts}

\* The digits of a number are characters XML allows.
LEMMA DecimalAllowed == \A n \in Int : Allowed(Decimal(n))
<1>1. ASSUME NEW m \in Nat
      PROVE  /\ Digits(m, 10, DecimalLen(m)) \in Seq(Int)
             /\ Allowed(Digits(m, 10, DecimalLen(m)))
  <2> DEFINE k == DecimalLen(m)
             d == Digits(m, 10, k)
  <2>1. k \in Nat
    BY DecimalLenIs DEF Positive
  <2> HIDE DEF k
  <2>2. 10 \in Positive
    BY DEF Positive
  <2>3. d \in Seq(Int) /\ Len(d) = k /\ \A i \in 1 .. k : d[i] \in 1 .. 10
    BY <2>1, <2>2, DigitsTyped
  <2> HIDE DEF d
  <2>4. DOMAIN d = 1 .. k
    BY <2>3
  <2>5. Allowed(d)
    BY <2>3, <2>4 DEF Allowed, NUL
  <2> QED
    BY <2>3, <2>5 DEF d, k
<1> SUFFICES ASSUME NEW n \in Int PROVE Allowed(Decimal(n))
  OBVIOUS
<1>2. CASE n < 0
  <2> DEFINE d == Digits(-n, 10, DecimalLen(-n))
             s == <<Minus>> \o d
  <2>1. -n \in Nat
    BY <1>2
  <2>2. d \in Seq(Int) /\ Allowed(d)
    BY <1>1, <2>1
  <2>3. Decimal(n) = s
    BY <1>2 DEF Decimal
  <2> HIDE DEF d
  <2>4. ASSUME NEW i \in DOMAIN s PROVE s[i] # NUL
    <3>1. s[i] = 17 \/ (i - 1 \in DOMAIN d /\ s[i] = d[i - 1])
      BY <2>2, <2>4 DEF Minus
    <3> QED
      BY <2>2, <3>1 DEF Allowed, NUL
  <2> QED
    BY <2>3, <2>4 DEF Allowed
<1>3. CASE ~(n < 0)
  <2>1. n \in Nat
    BY <1>3
  <2>2. Decimal(n) = Digits(n, 10, DecimalLen(n))
    BY <1>3 DEF Decimal
  <2> QED
    BY <1>1, <2>1, <2>2, Zenon
<1> QED
  BY <1>2, <1>3

LEMMA DecimalNonEmpty == \A n \in Int : Decimal(n) # << >>
<1>1. ASSUME NEW m \in Nat
      PROVE  Digits(m, 10, DecimalLen(m)) \in Seq(Int) /\ Digits(m, 10, DecimalLen(m)) # << >>
  <2> DEFINE k == DecimalLen(m)
             d == Digits(m, 10, k)
  <2>1. k \in Nat /\ k # 0
    BY DecimalLenIs DEF Positive
  <2> HIDE DEF k
  <2>2. 10 \in Positive
    BY DEF Positive
  <2>3. d \in Seq(Int) /\ Len(d) = k
    BY <2>1, <2>2, DigitsTyped
  <2> HIDE DEF d
  <2>4. d # << >>
    BY <2>1, <2>3
  <2> QED
    BY <2>3, <2>4 DEF d, k
<1> SUFFICES ASSUME NEW n \in Int PROVE Decimal(n) # << >>
  OBVIOUS
<1>2. CASE n < 0
  <2> DEFINE d == Digits(-n, 10, DecimalLen(-n))
  <2>1. -n \in Nat
    BY <1>2
  <2>2. d \in Seq(Int)
    BY <1>1, <2>1
  <2>3. Decimal(n) = <<Minus>> \o d
    BY <1>2 DEF Decimal
  <2> HIDE DEF d
  <2>4. <<Minus>> \o d # << >>
    BY <2>2 DEF Minus
  <2> QED
    BY <2>3, <2>4
<1>3. CASE ~(n < 0)
  <2>1. n \in Nat
    BY <1>3
  <2>2. Decimal(n) = Digits(n, 10, DecimalLen(n))
    BY <1>3 DEF Decimal
  <2> QED
    BY <1>1, <2>1, <2>2, Zenon
<1> QED
  BY <1>2, <1>3

\* A text that is not empty comes back from an element without children.
LEMMA TextComesBack ==
  ASSUME NEW type, NEW s, s # << >>
  PROVE  TextRead(El(type, Str(s), << >>)) = Str(s)
BY DEF TextRead, El, Truthy, Str

\* A scalar without characters XML forbids, written as an element by _enc and
\* indented, can be parsed, and _dec reads the value itself: an int of any size
\* and sign, and the empty text, whose element is read back with no text at all.
THEOREM ScalarSurvivesXml ==
  \A v \in XmlScalars :
    LET e == ScalarEl(v)
    IN  /\ e.text # Null => Allowed(e.text.s)
        /\ ScalarOf(El(e.type, TextRead(e), e.kids)) = v
<1> SUFFICES ASSUME NEW v \in XmlScalars
             PROVE  LET e == ScalarEl(v)
                    IN  /\ e.text # Null => Allowed(e.text.s)
                        /\ ScalarOf(El(e.type, TextRead(e), e.kids)) = v
  OBVIOUS
<1> DEFINE e == ScalarEl(v)
           Can == e.text # Null => Allowed(e.text.s)
           Same == ScalarOf(El(e.type, TextRead(e), e.kids)) = v
<1>0. \A t : Str(t).s = t
  BY DEF Str
<1>1. ASSUME NEW type, NEW text
      PROVE  El(type, text, << >>).type = type /\ El(type, text, << >>).kids = << >>
             /\ El(type, text, << >>).text = text
  BY DEF El
<1>2. ASSUME v = Null PROVE Can /\ Same
  <2>1. e = El("null", Null, << >>)
    BY <1>2 DEF ScalarEl, Null
  <2> HIDE DEF e
  <2>2. e.type = "null" /\ e.text = Null
    BY <1>1, <2>1
  <2>3. Same
    BY <1>2, <2>2 DEF ScalarOf, El
  <2> QED
    BY <2>2, <2>3
<1>3. ASSUME NEW b \in BOOLEAN, v = Bool(b)
      PROVE  Can /\ Same
  <2> DEFINE s == IF b THEN True ELSE False
  <2>1. e = El("bool", Str(s), << >>)
    BY <1>3 DEF ScalarEl, Bool
  <2>2. s # << >> /\ (Str(s) = Str(True)) = b
    BY DEF True, False, Str
  <2> HIDE DEF e, s
  <2>3. e.type = "bool" /\ e.kids = << >> /\ TextRead(e) = Str(s) /\ e.text = Str(s)
    BY <1>1, <2>1, <2>2, TextComesBack
  <2>4. ScalarOf(El("bool", Str(s), << >>)) = Bool(Str(s) = Str(True))
    BY DEF ScalarOf, El
  <2>5. Same
    BY <1>3, <2>2, <2>3, <2>4, Zenon
  <2>6. Allowed(s)
    BY DEF s, Allowed, True, False, NUL
  <2>7. Can
    BY <1>0, <2>3, <2>6
  <2> QED
    BY <2>5, <2>7
<1>4. ASSUME NEW n \in Int, v = Num(n)
      PROVE  Can /\ Same
  <2> DEFINE s == Decimal(n)
  <2>1. e = El("int", Str(s), << >>)
    <3>1. v.t = "int" /\ v.n = n
      BY <1>4 DEF Num
    <3> QED
      BY <3>1 DEF ScalarEl
  <2>2. s # << >> /\ ParseDecimal(s) = n
    BY DecimalNonEmpty, DecimalSurvives
  <2> HIDE DEF e, s
  <2>3. e.type = "int" /\ e.kids = << >> /\ TextRead(e) = Str(s) /\ e.text = Str(s)
    BY <1>1, <2>1, <2>2, TextComesBack
  <2>4. ScalarOf(El("int", Str(s), << >>)) = Num(ParseDecimal(s))
    BY DEF ScalarOf, El, Str
  <2>5. Same
    BY <1>4, <2>2, <2>3, <2>4, Zenon
  <2>6. Allowed(s)
    BY DecimalAllowed DEF s
  <2>7. Can
    BY <1>0, <2>3, <2>6
  <2> QED
    BY <2>5, <2>7
<1>5. ASSUME NEW s \in XmlTexts, v = Str(s)
      PROVE  Can /\ Same
  <2>1. e = El("str", Str(s), << >>)
    BY <1>5 DEF ScalarEl, Str
  <2> HIDE DEF e
  <2>2. e.type = "str" /\ e.kids = << >> /\ e.text = Str(s)
    BY <1>1, <2>1
  <2>3. \A t : ScalarOf(El("str", t, << >>)) = IF t = Null THEN Str(<< >>) ELSE t
    BY DEF ScalarOf, El, XmlText
  <2>a. Can
    BY <1>0, <2>2 DEF XmlTexts
  <2>4. CASE s # << >>
    <3>1. TextRead(e) = Str(s)
      BY <2>1, <2>4, TextComesBack
    <3>2. Str(s) # Null
      BY DEF Str, Null
    <3>3. Same
      BY <1>5, <2>2, <2>3, <3>1, <3>2, Zenon
    <3> QED
      BY <2>a, <3>3
  <2>5. CASE s = << >>
    <3>1. ~Truthy(Str(s))
      BY <2>5 DEF Truthy, Str
    <3>2. TextRead(e) = Null
      BY <2>2, <3>1 DEF TextRead
    <3>3. Same
      BY <1>5, <2>2, <2>3, <2>5, <3>2, Zenon
    <3> QED
      BY <2>a, <3>3
  <2> QED
    BY <2>4, <2>5
<1> HIDE DEF e
<1>6. Can /\ Same
  <2>1. \/ v = Null \/ \E b \in BOOLEAN : v = Bool(b)
        \/ \E n \in Int : v = Num(n)
        \/ \E s \in XmlTexts : v = Str(s)
    BY Zenon DEF XmlScalars
  <2> QED
    BY <1>2, <1>3, <1>4, <1>5, <2>1, Zenon
<1> QED
  BY <1>6, Zenon DEF e

=============================================================================
