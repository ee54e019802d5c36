---------------------------- MODULE PCodeProofs ----------------------------
(***************************************************************************)
(* Theorems about the way of an instruction definition to its signature,   *)
(* for any width, any definition of any length and any constants in it.    *)
(***************************************************************************)
EXTENDS PCode, InductionLemmas

USE PCodeAssumption

----------------------------------------------------------------------------
(***************************************************************************)
(* Sums of segment widths.                                                 *)
(***************************************************************************)

\* The function WidthFrom sums up with.
Sums(segs, i) ==
  CHOOSE f : f = [k \in 0 .. Len(segs) |-> IF k < i THEN 0 ELSE f[k - 1] + segs[k].width]

LEMMA SumsLast == ASSUME NEW segs, NEW i PROVE WidthFrom(segs, i) = Sums(segs, i)[Len(segs)]
  BY DEF WidthFrom, Sums

LEMMA SumsDef ==
  ASSUME NEW segs \in Seq(Segment), NEW i \in Nat \ {0}
  PROVE  Sums(segs, i) =
           [k \in 0 .. Len(segs) |-> IF k < i THEN 0 ELSE Sums(segs, i)[k - 1] + segs[k].width]
<1> DEFINE w == [k \in 1 .. Len(segs) |-> segs[k].width]
<1>1. Len(segs) \in Nat /\ \A k \in 1 .. Len(segs) : segs[k] \in Segment
  OBVIOUS
<1>2. w \in [1 .. Len(segs) -> Nat]
  BY <1>1 DEF Segment
<1>3. \A k \in 0 .. Len(segs) : ~ (k < i) => w[k] = segs[k].width
  BY <1>1
<1> HIDE DEF w
<1>4. PICK f : f = [k \in 0 .. Len(segs) |-> IF k < i THEN 0 ELSE f[k - 1] + w[k]]
  <2>1. \A N \in Nat : \A v \in [1 .. N -> Nat] :
          \E f : f = [k \in 0 .. N |-> IF k < i THEN 0 ELSE f[k - 1] + v[k]]
    BY SumsExist
  <2> QED
    BY <1>1, <1>2, <2>1, Zenon
<1>5. f = [k \in 0 .. Len(segs) |-> IF k < i THEN 0 ELSE f[k - 1] + segs[k].width]
  BY <1>3, <1>4
<1> QED
  BY <1>5, Zenon DEF Sums

LEMMA SegmentWidths ==
  ASSUME NEW segs \in Seq(Segment)
  PROVE  /\ Len(segs) \in Nat
         /\ \A k \in 1 .. Len(segs) : segs[k] \in Segment /\ segs[k].width \in Nat
<1>1. Len(segs) \in Nat /\ \A k \in 1 .. Len(segs) : segs[k] \in Segment
  OBVIOUS
<1> QED
  BY <1>1 DEF Segment

\* Running sums are natural numbers.
LEMMA SumsStep ==
  ASSUME NEW segs \in Seq(Segment), NEW i \in Nat \ {0}
  PROVE  /\ \A k \in 0 .. Len(segs) : Sums(segs, i)[k] \in Nat
         /\ \A k \in 0 .. Len(segs) : k < i => Sums(segs, i)[k] = 0
         /\ \A k \in 1 .. Len(segs) :
              i <= k => Sums(segs, i)[k] = Sums(segs, i)[k - 1] + segs[k].width
<1>1. Len(segs) \in Nat /\ \A k \in 1 .. Len(segs) : segs[k].width \in Nat
  BY SegmentWidths
<1>2. \A k \in 0 .. Len(segs) : k < i => Sums(segs, i)[k] = 0
  BY <1>1, SumsDef
<1>3. \A k \in 1 .. Len(segs) :
        i <= k => Sums(segs, i)[k] = Sums(segs, i)[k - 1] + segs[k].width
  <2> SUFFICES ASSUME NEW k \in 1 .. Len(segs), i <= k
               PROVE  Sums(segs, i)[k] = Sums(segs, i)[k - 1] + segs[k].width
    OBVIOUS
  <2>1. k \in 0 .. Len(segs) /\ ~ (k < i)
    BY <1>1
  <2> QED
    BY <2>1, SumsDef
<1> DEFINE T == {k \in 0 .. Len(segs) : Sums(segs, i)[k] \in Nat}
<1>4. 0 \in T
  BY <1>1, <1>2
<1>5. \A k \in 0 .. Len(segs) - 1 : k \in T => k + 1 \in T
  <2> SUFFICES ASSUME NEW k \in 0 .. Len(segs) - 1, k \in T PROVE k + 1 \in T
    OBVIOUS
  <2>1. k + 1 \in 1 .. Len(segs) /\ (k + 1) - 1 = k /\ segs[k + 1].width \in Nat
    BY <1>1
  <2>2. k + 1 \in 0 .. Len(segs) /\ (k + 1 < i \/ i <= k + 1)
    BY <1>1
  <2>3. Sums(segs, i)[k] \in Nat
    OBVIOUS
  <2>4. CASE k + 1 < i
    BY <1>2, <2>2, <2>4
  <2>5. CASE i <= k + 1
    <3>1. Sums(segs, i)[k + 1] = Sums(segs, i)[k] + segs[k + 1].width
      BY <1>3, <2>1, <2>5
    <3> QED
      BY <2>1, <2>2, <2>3, <3>1
  <2> QED
    BY <2>2, <2>4, <2>5
<1> HIDE DEF T
<1>6. 0 .. Len(segs) \subseteq T
  BY <1>1, <1>4, <1>5, RangeInduction
<1> QED
  BY <1>2, <1>3, <1>6 DEF T

\* A sum of widths is a natural number, and 0 above the last segment.
LEMMA WidthFromNat ==
  ASSUME NEW segs \in Seq(Segment), NEW i \in Nat \ {0}
  PROVE  WidthFrom(segs, i) \in Nat /\ (i > Len(segs) => WidthFrom(segs, i) = 0)
  BY SumsLast, SumsStep

\* A segment, and those after it.
LEMMA WidthFromSplit ==
  ASSUME NEW segs \in Seq(Segment), NEW i \in 1 .. Len(segs)
  PROVE  WidthFrom(segs, i) = segs[i].width + WidthFrom(segs, i + 1)
<1>1. Len(segs) \in Nat /\ \A k \in 1 .. Len(segs) : segs[k].width \in Nat
  BY SegmentWidths
<1>2. i \in Nat \ {0} /\ i + 1 \in Nat \ {0}
  BY <1>1
<1> DEFINE A == Sums(segs, i)
           B == Sums(segs, i + 1)
           T == {k \in i .. Len(segs) : A[k] = segs[i].width + B[k]}
<1>3. /\ \A k \in 0 .. Len(segs) : A[k] \in Nat /\ B[k] \in Nat
      /\ \A k \in 0 .. Len(segs) : (k < i => A[k] = 0) /\ (k < i + 1 => B[k] = 0)
      /\ \A k \in 1 .. Len(segs) : i <= k => A[k] = A[k - 1] + segs[k].width
      /\ \A k \in 1 .. Len(segs) : i + 1 <= k => B[k] = B[k - 1] + segs[k].width
  BY <1>2, SumsStep
<1> HIDE DEF A, B
<1>4. i \in T
  <2>1. i - 1 \in 0 .. Len(segs) /\ i \in 0 .. Len(segs) /\ i - 1 < i /\ i < i + 1 /\ i <= i
    BY <1>1
  <2> QED
    BY <1>1, <1>3, <2>1
<1>5. \A k \in i .. Len(segs) - 1 : k \in T => k + 1 \in T
  <2> SUFFICES ASSUME NEW k \in i .. Len(segs) - 1, k \in T PROVE k + 1 \in T
    OBVIOUS
  <2>1. /\ k + 1 \in 1 .. Len(segs) /\ (k + 1) - 1 = k /\ i <= k + 1 /\ i + 1 <= k + 1
        /\ k + 1 \in i .. Len(segs) /\ k \in 0 .. Len(segs)
    BY <1>1
  <2>2. A[k + 1] = A[k] + segs[k + 1].width /\ B[k + 1] = B[k] + segs[k + 1].width
    BY <1>3, <2>1
  <2>3. A[k] = segs[i].width + B[k] /\ A[k] \in Nat /\ B[k] \in Nat
        /\ segs[i].width \in Nat /\ segs[k + 1].width \in Nat
    BY <1>1, <1>3, <2>1
  <2>4. A[k + 1] = segs[i].width + B[k + 1]
    <3>1. (segs[i].width + B[k]) + segs[k + 1].width = segs[i].width + (B[k] + segs[k + 1].width)
      BY <2>3
    <3> QED
      BY <2>2, <2>3, <3>1, Zenon
  <2> QED
    BY <2>1, <2>4
<1> HIDE DEF T
<1>6. i .. Len(segs) \subseteq T
  BY <1>1, <1>2, <1>4, <1>5, RangeInduction
<1>7. A[Len(segs)] = segs[i].width + B[Len(segs)]
  BY <1>1, <1>6 DEF T
<1> QED
  BY <1>7, SumsLast DEF A, B

\* One more segment adds its width to every sum that reaches it.
LEMMA WidthFromAppend ==
  ASSUME NEW segs \in Seq(Segment), NEW s \in Segment, NEW i \in 1 .. Len(segs) + 1
  PROVE  WidthFrom(Append(segs, s), i) = WidthFrom(segs, i) + s.width
<1> DEFINE more == Append(segs, s)
           A == Sums(segs, i)
           B == Sums(more, i)
           T == {k \in 0 .. Len(segs) : A[k] = B[k]}
<1>1. /\ Len(segs) \in Nat /\ more \in Seq(Segment) /\ Len(more) = Len(segs) + 1
      /\ \A k \in 1 .. Len(segs) : more[k] = segs[k]
      /\ more[Len(segs) + 1] = s /\ i \in Nat \ {0}
  OBVIOUS
<1> HIDE DEF more
<1>2. /\ \A k \in 0 .. Len(segs) : A[k] \in Nat /\ (k < i => A[k] = 0)
      /\ \A k \in 1 .. Len(segs) : i <= k => A[k] = A[k - 1] + segs[k].width
  BY <1>1, SumsStep
<1>3. /\ \A k \in 0 .. Len(segs) + 1 : B[k] \in Nat /\ (k < i => B[k] = 0)
      /\ \A k \in 1 .. Len(segs) + 1 : i <= k => B[k] = B[k - 1] + more[k].width
  BY <1>1, SumsStep
<1> HIDE DEF A, B
<1>4. 0 \in T
  BY <1>1, <1>2, <1>3
<1>5. \A k \in 0 .. Len(segs) - 1 : k \in T => k + 1 \in T
  <2> SUFFICES ASSUME NEW k \in 0 .. Len(segs) - 1, k \in T PROVE k + 1 \in T
    OBVIOUS
  <2>1. /\ k + 1 \in 0 .. Len(segs) /\ k + 1 \in 1 .. Len(segs) /\ (k + 1) - 1 = k
        /\ k + 1 \in 0 .. Len(segs) + 1 /\ k + 1 \in 1 .. Len(segs) + 1
        /\ i <= k + 1 \/ k + 1 < i
    BY <1>1
  <2>2. CASE k + 1 < i
    BY <1>2, <1>3, <2>1, <2>2
  <2>3. CASE i <= k + 1
    <3>1. A[k + 1] = A[k] + segs[k + 1].width /\ B[k + 1] = B[k] + more[k + 1].width
      BY <1>2, <1>3, <2>1, <2>3
    <3> QED
      BY <1>1, <2>1, <3>1
  <2> QED
    BY <2>1, <2>2, <2>3
<1> HIDE DEF T
<1>6. 0 .. Len(segs) \subseteq T
  BY <1>1, <1>4, <1>5, RangeInduction
<1>7. A[Len(segs)] = B[Len(segs)]
  BY <1>1, <1>6 DEF T
<1>8. B[Len(segs) + 1] = B[Len(segs)] + s.width
  <2>1. Len(segs) + 1 \in 1 .. Len(segs) + 1 /\ i <= Len(segs) + 1
        /\ (Len(segs) + 1) - 1 = Len(segs)
    BY <1>1
  <2> QED
    BY <1>1, <1>3, <2>1
<1>9. WidthFrom(segs, i) = A[Len(segs)] /\ WidthFrom(more, i) = B[Len(segs) + 1]
  BY <1>1, SumsLast DEF A, B
<1> QED
  BY <1>7, <1>8, <1>9 DEF more

\* Segments further up have more below them.
LEMMA WidthFromOrder ==
  ASSUME NEW segs \in Seq(Segment), NEW i \in Nat \ {0}, NEW k \in i .. Len(segs) + 1
  PROVE  WidthFrom(segs, k) <= WidthFrom(segs, i)
<1> DEFINE F(m) == WidthFrom(segs, m)
           T == {m \in i .. Len(segs) + 1 : F(m) <= F(i)}
<1>1. Len(segs) \in Nat /\ \A m \in 1 .. Len(segs) : segs[m].width \in Nat
  BY SegmentWidths
<1>2. \A m \in Nat \ {0} : F(m) \in Nat
  BY WidthFromNat
<1>3. \A m \in 1 .. Len(segs) : F(m) = segs[m].width + F(m + 1)
  BY WidthFromSplit
<1> HIDE DEF F
<1>4. i \in T
  BY <1>1, <1>2
<1>5. \A m \in i .. (Len(segs) + 1) - 1 : m \in T => m + 1 \in T
  <2> SUFFICES ASSUME NEW m \in i .. Len(segs), m \in T PROVE m + 1 \in T
    BY <1>1
  <2>1. m \in 1 .. Len(segs) /\ m + 1 \in i .. Len(segs) + 1 /\ m + 1 \in Nat \ {0}
    BY <1>1
  <2>2. /\ F(m) = segs[m].width + F(m + 1) /\ F(m) <= F(i) /\ segs[m].width \in Nat
        /\ F(m) \in Nat /\ F(m + 1) \in Nat /\ F(i) \in Nat
    BY <1>1, <1>2, <1>3, <2>1
  <2> QED
    BY <2>1, <2>2
<1> HIDE DEF T
<1>6. i .. Len(segs) + 1 \subseteq T
  <2>1. Len(segs) + 1 \in Nat /\ i \in Nat
    BY <1>1
  <2> QED
    BY <2>1, <1>4, <1>5, RangeInduction
<1> QED
  BY <1>6 DEF T, F
----------------------------------------------------------------------------
(***************************************************************************)
(* The invariant.                                                          *)
(***************************************************************************)

\* A segment as the parsers build it: a constant fits its width, and only a
\* constant has one bits.
SegOK(s) == /\ s \in Segment
            /\ s.bits \subseteq 0 .. s.width - 1
            /\ s.kind # "fixed" => s.bits = {}

LayoutOK == \A j \in DOMAIN layout :
              SegOK(layout[j]) /\ (layout[j].kind = "unknown" => origin = "prebuilt")

Ranged == origin \in {"riscv", "tablegen"}
Deciding == stage \in {"decode", "segments"} \/ result \in {"exact", "schematic"}
Laid == Ranged /\ (stage \in {"walk", "emit"} \/ Deciding)

\* What has not begun has left no trace.
Fresh ==
  /\ stage = "done" <=> result # "none"
  /\ stage = "read" /\ Ranged => layout = << >>
  /\ stage = "walk" => Ranged
  /\ stage # "segments" /\ result \notin {"exact", "schematic"} =>
       n = 0 /\ mask = {} /\ match = {}

\* The segments and the bits below the cursor make up the width.
WidthsAdd ==
  /\ Laid => width \in Nat
  /\ stage = "walk" => TotalWidth(layout) + cur + 1 = width
  /\ stage = "emit" /\ Ranged => TotalWidth(layout) = width
  /\ Deciding /\ origin # "prebuilt" /\ width # Variable => TotalWidth(layout) = width

\* Where the decoder has got to, and what it has put together.
Walked == stage = "segments" \/ result = "exact"
Offset == instr_width - TotalWidth(layout)
Bottom(j) == Offset + WidthFrom(layout, j + 1)

Signed ==
  Walked =>
    /\ instr_width \in Nat
    /\ top = Offset + WidthFrom(layout, n + 1)
    /\ \A j \in 1 .. n : layout[j].kind # "unknown"
    /\ mask = {b \in 0 .. instr_width - 1 : \E j \in 1 .. n :
                 layout[j].kind = "fixed" /\ b \in Bottom(j) .. Bottom(j) + layout[j].width - 1}
    /\ match = {b \in 0 .. instr_width - 1 : \E j \in 1 .. n :
                 layout[j].kind = "fixed" /\ b - Bottom(j) \in layout[j].bits}
    /\ result = "exact" => n = Len(layout) /\ top = 0

\* Segment j is what token i became, at the token's place.
Base == IF stage = "walk" THEN cur + 1 ELSE 0
PlacedAt(i, j) ==
  /\ tokens[i].lsb = Base + WidthFrom(layout, j + 1)
  /\ layout[j] = SegmentOf(tokens[i])

SegmentsPlaced ==
  Laid => \A j \in DOMAIN layout : layout[j].kind = "fixed" =>
            \E i \in DOMAIN tokens : Constant(i) /\ PlacedAt(i, j)

TokensPlaced ==
  Laid => \A i \in DOMAIN tokens \ left :
            \/ \E j \in DOMAIN layout : PlacedAt(i, j)
            \/ origin = "tablegen" /\ ~Disjoint

\* How far down the walk of each parser is.
Apart(i, j) == Range(tokens[i].msb, tokens[i].lsb) \cap Range(tokens[j].msb, tokens[j].lsb) = {}

LineWalk ==
  Laid /\ origin = "riscv" =>
    /\ \A i \in DOMAIN tokens : tokens[i].msb < width
    /\ \A i \in DOMAIN tokens \ left : stage = "walk" => cur < tokens[i].lsb
    /\ \A i, j \in DOMAIN tokens \ left : i # j => Apart(i, j)
    /\ stage # "walk" => left = {}

BitsWalk ==
  Laid /\ origin = "tablegen" =>
    /\ \/ cur = width - 1
       \/ \E p \in DOMAIN tokens \ left :
            cur = tokens[p].lsb - 1 /\ \A i \in left : tokens[i].msb <= tokens[p].msb
    /\ stage # "walk" => left = {}

FormInv == TypeOK /\ LayoutOK /\ Fresh

----------------------------------------------------------------------------
(***************************************************************************)
(* Tokens, segments and bits.                                              *)
(***************************************************************************)

AnyToken == FixedTokens \cup SlotTokens \cup {BadToken}

LEMMA TokenForm ==
  ASSUME NEW t \in AnyToken
  PROVE  /\ t.msb \in 0 .. MaxBit /\ t.lsb \in 0 .. MaxBit /\ t.lsb <= t.msb
         /\ t.bits \subseteq Nat /\ t.kind \in {"fixed", "var", "bad"}
<1>1. CASE t \in FixedTokens
  <2>1. PICK r \in Ranges, v \in Value : t = Token("fixed", r[1], r[2], v)
    BY <1>1 DEF FixedTokens
  <2>2. r[1] \in 0 .. MaxBit /\ r[2] \in 0 .. MaxBit /\ r[2] <= r[1] /\ v \subseteq Nat
    BY DEF Ranges
  <2> QED
    BY <2>1, <2>2 DEF Token
<1>2. CASE t \in SlotTokens
  <2>1. PICK r \in Ranges : t = Token("var", r[1], r[2], {})
    BY <1>2 DEF SlotTokens
  <2>2. r[1] \in 0 .. MaxBit /\ r[2] \in 0 .. MaxBit /\ r[2] <= r[1]
    BY DEF Ranges
  <2> QED
    BY <2>1, <2>2 DEF Token
<1>3. CASE t = BadToken
  BY <1>3 DEF BadToken, Token
<1> QED
  BY <1>1, <1>2, <1>3 DEF AnyToken

LEMMA FixedForm ==
  ASSUME NEW w \in Nat, NEW v, v \subseteq Nat
  PROVE  /\ SegOK(Fixed(w, v)) /\ Fixed(w, v).width = w /\ Fixed(w, v).kind = "fixed"
         /\ Fixed(w, v).bits = Low(v, w)
<1>0. \A b \in Low(v, w) : b \in Nat /\ b < w
  BY DEF Low
<1>1. Low(v, w) \subseteq 0 .. w - 1 /\ Low(v, w) \subseteq Nat
  BY <1>0
<1> QED
  BY <1>1 DEF SegOK, Segment, Fixed

LEMMA OperandForm ==
  ASSUME NEW w \in Nat
  PROVE  SegOK(Operand(w)) /\ Operand(w).width = w /\ Operand(w).kind = "var"
  BY DEF SegOK, Segment, Operand

LEMMA UnknownForm == SegOK(Unknown) /\ Unknown.kind = "unknown"
  BY DEF SegOK, Segment, Unknown

LEMMA SegmentForm ==
  ASSUME NEW t \in AnyToken
  PROVE  /\ SegOK(SegmentOf(t)) /\ SegmentOf(t).width = t.msb - t.lsb + 1
         /\ SegmentOf(t).kind = IF t.kind = "fixed" THEN "fixed" ELSE "var"
         /\ t.kind = "fixed" => SegmentOf(t).bits = Low(t.bits, t.msb - t.lsb + 1)
<1>1. t.msb - t.lsb + 1 \in Nat /\ t.bits \subseteq Nat
  BY TokenForm
<1> QED
  BY <1>1, FixedForm, OperandForm DEF SegmentOf

\* The literal written for a constant reads back as that constant: emission and
\* reading change no segment.
LEMMA LiteralReadsBack == \A s : SegOK(s) => _render_seg(s) = s
<1> SUFFICES ASSUME NEW s, SegOK(s) PROVE _render_seg(s) = s
  OBVIOUS
<1>1. CASE s.kind = "fixed"
  <2>1. s.width \in Nat /\ Low(s.bits, s.width) = s.bits
    BY DEF SegOK, Segment, Low
  <2>2. (IF s.width % 4 = 0 THEN 4 * (s.width \div 4) ELSE s.width) = s.width
    BY <2>1
  <2>3. const_literal(s.width, s.bits) = [kind |-> "fixed", width |-> s.width, bits |-> s.bits]
    BY <2>1, <2>2 DEF const_literal
  <2> QED
    BY <1>1, <2>3 DEF _render_seg, SegOK, Segment
<1> QED
  BY <1>1 DEF _render_seg

LEMMA ShiftIn ==
  ASSUME NEW S, S \subseteq Int, NEW k \in Int
  PROVE  \A b : b \in Shift(S, k) <=> b \in Int /\ b - k \in S
  BY DEF Shift

LEMMA ShiftOnes ==
  ASSUME NEW w \in Nat, NEW k \in Int
  PROVE  Shift(ones(w), k) = k .. k + w - 1
<1>1. ones(w) \subseteq Int /\ \A b \in Int : b \in ones(w) <=> 0 <= b /\ b <= w - 1
  BY DEF ones
<1>2. \A b : b \in Shift(ones(w), k) <=> b \in Int /\ b - k \in ones(w)
  BY <1>1, ShiftIn
<1>3. ASSUME NEW b PROVE b \in Shift(ones(w), k) <=> b \in k .. k + w - 1
  <2>1. CASE b \in Int
    BY <1>1, <1>2, <2>1
  <2> QED
    BY <1>2, <2>1
<1> QED
  BY <1>3

----------------------------------------------------------------------------
(***************************************************************************)
(* Types, and what the parsers build.                                      *)
(***************************************************************************)

LEMMA Glue ==
  ASSUME NEW s \in Seq(Segment), NEW x \in Segment
  PROVE  /\ s \o << >> = s /\ s \o <<x>> = Append(s, x)
         /\ Append(s, x) \in Seq(Segment) /\ Len(Append(s, x)) = Len(s) + 1
         /\ \A j \in 1 .. Len(s) : Append(s, x)[j] = s[j]
         /\ Append(s, x)[Len(s) + 1] = x
  OBVIOUS

LEMMA AppendForm ==
  ASSUME NEW s \in Seq(Segment), NEW x, SegOK(x),
         \A j \in DOMAIN s : SegOK(s[j])
  PROVE  \A j \in DOMAIN Append(s, x) : SegOK(Append(s, x)[j])
<1>1. x \in Segment
  BY DEF SegOK
<1> HIDE DEF SegOK
<1>2. /\ DOMAIN s = 1 .. Len(s) /\ Append(s, x) \in Seq(Segment)
      /\ DOMAIN Append(s, x) = 1 .. Len(s) + 1 /\ Len(s) \in Nat
  BY <1>1
<1>3. ASSUME NEW j \in 1 .. Len(s) + 1 PROVE SegOK(Append(s, x)[j])
  <2>1. j \in 1 .. Len(s) \/ j = Len(s) + 1
    BY <1>2
  <2> QED
    BY <1>1, <1>2, <2>1, Glue
<1> QED
  BY <1>2, <1>3

\* The layout of the tokens: nothing in it is of unknown width.
Known(s) == s \in Seq(Segment) /\ \A j \in DOMAIN s : SegOK(s[j]) /\ s[j].kind # "unknown"

LEMMA KnownAppend ==
  ASSUME NEW s, Known(s), NEW x, SegOK(x), x.kind # "unknown"
  PROVE  Known(Append(s, x))
<1>1. x \in Segment
  BY DEF SegOK
<1>2. \A j \in DOMAIN Append(s, x) : SegOK(Append(s, x)[j])
  BY AppendForm DEF Known
<1>3. ASSUME NEW j \in DOMAIN Append(s, x) PROVE Append(s, x)[j].kind # "unknown"
  BY <1>1 DEF Known
<1> QED
  BY <1>1, <1>2, <1>3 DEF Known

\* Where nothing is of unknown width, the gap above a range and the range are
\* known segments too.
LEMMA GapForm ==
  ASSUME TypeOK, Known(layout), NEW m \in -1 .. MaxBit
  PROVE  /\ Known(layout \o Gap(m))
         /\ m < cur => layout \o Gap(m) = Append(layout, Operand(cur - m))
         /\ ~ (m < cur) => layout \o Gap(m) = layout
<1>1. cur \in Int /\ m \in Int /\ layout \in Seq(Segment)
  BY DEF TypeOK
<1>2. CASE m < cur
  <2>1. cur - m \in Nat
    BY <1>1, <1>2
  <2>2. SegOK(Operand(cur - m)) /\ Operand(cur - m).kind # "unknown"
        /\ Operand(cur - m) \in Segment
    BY <2>1, OperandForm DEF SegOK
  <2>3. layout \o Gap(m) = Append(layout, Operand(cur - m))
    BY <1>1, <1>2, <2>2, Glue DEF Gap
  <2> QED
    BY <1>2, <2>2, <2>3, KnownAppend
<1>3. CASE ~ (m < cur)
  <2>1. layout \o Gap(m) = layout
    BY <1>1, <1>3 DEF Gap
  <2> QED
    BY <1>3, <2>1
<1> QED
  BY <1>2, <1>3

LEMMA LayoutKnown ==
  ASSUME TypeOK, origin # "prebuilt" PROVE LayoutOK <=> Known(layout)
  BY DEF TypeOK, LayoutOK, Known

LEMMA InitForm == Init => FormInv
  BY DEF Init, FormInv, TypeOK, LayoutOK, Fresh, Ranged

\* The parsers' steps keep types and form.
LEMMA ParserForm ==
  ASSUME FormInv, _parse_line \/ _layout_from_bits
  PROVE  FormInv'
<1> USE DEF FormInv
<1> DEFINE Later == UNCHANGED <<origin, wtok, n, top, mask, match>>
<1>0. /\ tokens \in Seq(AnyToken) /\ layout \in Seq(Segment) /\ W \in Nat /\ MaxBit \in Nat
      /\ DOMAIN tokens = 1 .. Len(tokens)
      /\ \A i \in DOMAIN tokens : tokens[i] \in AnyToken
  BY DEF TypeOK, AnyToken
<1>1. CASE ReadRange
  <2>1. PICK t \in AnyToken : tokens' = Append(tokens, t)
    BY <1>1 DEF ReadRange, AnyToken
  <2>2. tokens' \in Seq(AnyToken) /\ left \subseteq DOMAIN tokens'
    BY <1>0, <2>1 DEF TypeOK
  <2>3. /\ Later /\ stage' = stage /\ result' = result /\ layout' = layout /\ width' = width
        /\ cur' = cur /\ left' = left /\ stage = "read"
    BY <1>1 DEF ReadRange, decoding
  <2>4. TypeOK'
    BY <2>2, <2>3 DEF TypeOK, AnyToken
  <2> QED
    BY <2>3, <2>4 DEF LayoutOK, Fresh, Ranged
<1>2. CASE RefuseLine
  BY <1>2 DEF RefuseLine, Finish, decoding, TypeOK, LayoutOK, Fresh, Ranged
<1>3. CASE SortLine
  <2>1. PICK i \in DOMAIN tokens : width' = tokens[i].msb + 1 /\ cur' = tokens[i].msb
    BY <1>3 DEF SortLine
  <2>2. tokens[i].msb \in 0 .. MaxBit
    BY <1>0, TokenForm
  <2>3. /\ Later /\ stage = "read" /\ stage' = "walk" /\ left' = DOMAIN tokens
        /\ tokens' = tokens /\ layout' = layout /\ result' = result /\ Ranged
    BY <1>3 DEF SortLine, decoding, Ranged
  <2>4. TypeOK'
    BY <2>1, <2>2, <2>3 DEF TypeOK
  <2> QED
    BY <2>3, <2>4 DEF LayoutOK, Fresh, Ranged
<1>4. CASE PlaceRange
  <2>1. /\ Later /\ stage = "walk" /\ Ranged /\ origin # "prebuilt" /\ tokens' = tokens
        /\ width' = width
    BY <1>4 DEF PlaceRange, decoding, Ranged
  <2>2. CASE stage' = "done"
    BY <1>4, <2>1, <2>2 DEF PlaceRange, Finish, TypeOK, LayoutOK, Fresh, Ranged
  <2>3. CASE stage' # "done"
    <3>1. PICK i \in left : /\ left' = left \ {i} /\ cur' = tokens[i].lsb - 1
                            /\ layout' = Append(layout, SegmentOf(tokens[i]))
                            /\ stage' = stage /\ result' = result
      BY <1>4, <2>3 DEF PlaceRange, Finish
    <3>2. tokens[i] \in AnyToken
      BY <1>0 DEF TypeOK
    <3>3. Known(layout')
      BY <2>1, <3>1, <3>2, SegmentForm, LayoutKnown, KnownAppend
    <3>4. TypeOK'
      <4>1. tokens[i].lsb \in 0 .. MaxBit
        BY <3>2, TokenForm
      <4>2. cur' \in -1 .. (IF W > MaxBit THEN W - 1 ELSE MaxBit)
        BY <1>0, <3>1, <4>1 DEF TypeOK
      <4>3. left' \subseteq DOMAIN tokens /\ layout' \in Seq(Segment) /\ n = 0
        BY <2>1, <3>1, <3>3 DEF TypeOK, Known, Fresh
      <4>4. n \in 0 .. Len(layout')
        BY <4>3
      <4> QED
        BY <2>1, <3>1, <4>2, <4>3, <4>4 DEF TypeOK
    <3> QED
      BY <2>1, <3>1, <3>3, <3>4 DEF Known, LayoutOK, Fresh, Ranged
  <2> QED
    BY <2>2, <2>3
<1>5. CASE EndLine
  BY <1>5 DEF EndLine, Finish, decoding, TypeOK, LayoutOK, Fresh, Ranged
<1>6. CASE SortBits
  BY <1>6 DEF SortBits, Finish, decoding, TypeOK, LayoutOK, Fresh, Ranged
<1>7. CASE PlaceBits
  <2>1. /\ Later /\ stage = "walk" /\ Ranged /\ origin # "prebuilt" /\ tokens' = tokens
        /\ width' = width /\ stage' = stage /\ result' = result
    BY <1>7 DEF PlaceBits, decoding, Ranged
  <2>2. PICK i \in left :
          /\ left' = left \ {i}
          /\ \/ /\ layout' = layout \o Gap(tokens[i].msb) \o <<SegmentOf(tokens[i])>>
                /\ cur' = tokens[i].lsb - 1
             \/ layout' = layout /\ cur' = cur
    BY <1>7 DEF PlaceBits
  <2>3. tokens[i] \in AnyToken
    BY <1>0 DEF TypeOK
  <2>4. Known(layout) /\ tokens[i].msb \in -1 .. MaxBit
    BY <2>1, <2>3, LayoutKnown, TokenForm
  <2>5. Known(layout')
    <3>1. Known(layout \o Gap(tokens[i].msb))
      BY <2>4, GapForm
    <3>2. SegOK(SegmentOf(tokens[i])) /\ SegmentOf(tokens[i]).kind # "unknown"
      BY <2>3, SegmentForm
    <3>3. Known(Append(layout \o Gap(tokens[i].msb), SegmentOf(tokens[i])))
      BY <3>1, <3>2, KnownAppend
    <3>4. layout \o Gap(tokens[i].msb) \o <<SegmentOf(tokens[i])>>
            = Append(layout \o Gap(tokens[i].msb), SegmentOf(tokens[i]))
      BY <3>1, <3>2, Glue DEF Known, SegOK
    <3> QED
      BY <2>2, <2>4, <3>3, <3>4
  <2>6. TypeOK'
    <3>1. cur' \in -1 .. (IF W > MaxBit THEN W - 1 ELSE MaxBit)
      <4>1. tokens[i].lsb \in 0 .. MaxBit
        BY <2>3, TokenForm
      <4>2. CASE cur' = tokens[i].lsb - 1
        BY <1>0, <4>1, <4>2 DEF TypeOK
      <4>3. CASE cur' = cur
        BY <4>3 DEF TypeOK
      <4> QED
        BY <2>2, <4>2, <4>3
    <3>2. left' \subseteq DOMAIN tokens /\ layout' \in Seq(Segment) /\ n = 0
      BY <2>1, <2>2, <2>5 DEF TypeOK, Known, Fresh
    <3>3. n \in 0 .. Len(layout')
      BY <3>2
    <3> QED
      BY <2>1, <3>1, <3>2, <3>3 DEF TypeOK
  <2> QED
    BY <2>1, <2>5, <2>6 DEF Known, LayoutOK, Fresh, Ranged
<1>8. CASE EndBits
  <2>1. /\ Later /\ stage = "walk" /\ stage' = "emit" /\ Ranged /\ origin # "prebuilt"
        /\ UNCHANGED <<tokens, left, cur, width, result>> /\ layout' = layout \o Gap(-1)
    BY <1>8 DEF EndBits, decoding, Ranged
  <2>2. Known(layout')
    BY <1>0, <2>1, LayoutKnown, GapForm
  <2>3. TypeOK'
    BY <2>1, <2>2 DEF TypeOK, Known, Fresh
  <2> QED
    BY <2>1, <2>2, <2>3 DEF Known, LayoutOK, Fresh, Ranged
<1> QED
  BY <1>1, <1>2, <1>3, <1>4, <1>5, <1>6, <1>7, <1>8 DEF _parse_line, _layout_from_bits

\* Emission changes no segment.
LEMMA EmitKeeps ==
  ASSUME FormInv, emit_encoding
  PROVE  layout' = layout
<1>1. CASE layout' = [i \in DOMAIN layout |-> _render_seg(layout[i])]
  <2>1. \A i \in DOMAIN layout : _render_seg(layout[i]) = layout[i]
    BY LiteralReadsBack DEF FormInv, LayoutOK
  <2>2. layout = [i \in DOMAIN layout |-> layout[i]]
    BY DEF FormInv, TypeOK
  <2> QED
    BY <1>1, <2>1, <2>2
<1> QED
  BY <1>1 DEF emit_encoding

\* What the decoder adds for one segment.
LEMMA SegmentBits ==
  ASSUME NEW s, SegOK(s), NEW lo \in Nat
  PROVE  LET m == Shift(IF s.kind = "fixed" THEN ones(s.width) ELSE {}, lo)
             v == Shift(Low(s.bits, s.width), lo)
         IN  /\ \A b : b \in m <=> s.kind = "fixed" /\ b \in lo .. lo + s.width - 1
             /\ \A b : b \in v <=> s.kind = "fixed" /\ b \in Int /\ b - lo \in s.bits
             /\ v \subseteq m /\ m \subseteq Nat
<1> DEFINE m == Shift(IF s.kind = "fixed" THEN ones(s.width) ELSE {}, lo)
           v == Shift(Low(s.bits, s.width), lo)
<1>1. /\ s.width \in Nat /\ Low(s.bits, s.width) = s.bits /\ s.bits \subseteq Int
      /\ s.bits \subseteq 0 .. s.width - 1 /\ (s.kind # "fixed" => s.bits = {})
  BY DEF SegOK, Segment, Low
<1>2. \A b : b \in m <=> s.kind = "fixed" /\ b \in lo .. lo + s.width - 1
  <2>1. CASE s.kind = "fixed"
    <3>1. Shift(ones(s.width), lo) = lo .. lo + s.width - 1
      <4>1. lo \in Int
        OBVIOUS
      <4> QED
        BY <1>1, <4>1, ShiftOnes, Zenon
    <3> QED
      BY <2>1, <3>1
  <2>2. CASE s.kind # "fixed"
    BY <2>2 DEF Shift
  <2> QED
    BY <2>1, <2>2
<1>3. \A b : b \in v <=> b \in Int /\ b - lo \in s.bits
  BY <1>1, ShiftIn
<1> HIDE DEF m, v
<1>4. \A b : b \in v <=> s.kind = "fixed" /\ b \in Int /\ b - lo \in s.bits
  BY <1>1, <1>3
<1>5. ASSUME NEW b \in v PROVE b \in m
  <2>1. s.kind = "fixed" /\ b \in Int /\ b - lo \in 0 .. s.width - 1
    BY <1>1, <1>4
  <2>2. b \in lo .. lo + s.width - 1
    BY <1>1, <2>1
  <2> QED
    BY <1>2, <2>1, <2>2
<1>6. m \subseteq Nat
  BY <1>1, <1>2
<1> QED
  BY <1>2, <1>4, <1>5, <1>6 DEF m, v

\* The other steps keep types and form.
LEMMA OtherForm ==
  ASSUME FormInv,
         \/ ListField \/ EndFields \/ emit_encoding \/ decode_signature \/ UNCHANGED vars
  PROVE  FormInv'
<1> USE DEF FormInv
<1>0. /\ layout \in Seq(Segment) /\ DOMAIN layout = 1 .. Len(layout) /\ Len(layout) \in Nat
      /\ \A i \in DOMAIN layout : SegOK(layout[i])
  BY DEF TypeOK, LayoutOK
<1>1. CASE ListField
  <2>1. /\ stage = "read" /\ origin \in {"listed", "prebuilt"}
        /\ UNCHANGED <<origin, tokens, left, cur, width, wtok, stage, n, top, mask, match, result>>
    BY <1>1 DEF ListField, decoding
  <2>2. PICK x : /\ layout' = Append(layout, x) /\ SegOK(x)
                 /\ x.kind = "unknown" => origin = "prebuilt"
    <3>1. PICK w \in 1 .. MaxBit + 1, v \in Value :
            \/ \E seg \in {Fixed(w, v), Operand(w)} : layout' = Append(layout, seg)
            \/ origin = "prebuilt" /\ layout' = Append(layout, Unknown)
      BY <1>1 DEF ListField
    <3>2. w \in Nat /\ v \subseteq Nat
      OBVIOUS
    <3>3. /\ SegOK(Fixed(w, v)) /\ Fixed(w, v).kind = "fixed"
          /\ SegOK(Operand(w)) /\ Operand(w).kind = "var" /\ SegOK(Unknown)
      <4>1. SegOK(Fixed(w, v)) /\ Fixed(w, v).kind = "fixed"
        BY <3>2, FixedForm
      <4> QED
        BY <3>2, <4>1, OperandForm, UnknownForm
    <3>4. \/ layout' = Append(layout, Fixed(w, v)) \/ layout' = Append(layout, Operand(w))
          \/ origin = "prebuilt" /\ layout' = Append(layout, Unknown)
      BY <3>1
    <3> QED
      BY <3>3, <3>4
  <2>3. x \in Segment
    BY <2>2 DEF SegOK
  <2>4. layout' \in Seq(Segment) /\ Len(layout') = Len(layout) + 1
    BY <1>0, <2>2, <2>3
  <2>5. \A j \in DOMAIN layout' : SegOK(layout'[j])
    BY <1>0, <2>2, AppendForm
  <2>6. ASSUME NEW j \in DOMAIN layout', layout'[j].kind = "unknown" PROVE origin = "prebuilt"
    <3>1. j \in 1 .. Len(layout) \/ j = Len(layout) + 1
      BY <1>0, <2>4
    <3>2. CASE j \in 1 .. Len(layout)
      <4>1. layout'[j] = layout[j]
        BY <1>0, <2>2, <2>3, <3>2, Glue
      <4> QED
        BY <1>0, <2>6, <3>2, <4>1 DEF LayoutOK
    <3>3. CASE j = Len(layout) + 1
      BY <1>0, <2>2, <2>3, <2>6, <3>3, Glue
    <3> QED
      BY <3>1, <3>2, <3>3
  <2>7. TypeOK'
    BY <1>0, <2>1, <2>4 DEF TypeOK
  <2>8. LayoutOK'
    BY <2>1, <2>5, <2>6 DEF LayoutOK
  <2> QED
    BY <2>1, <2>7, <2>8 DEF Fresh, Ranged
<1>2. CASE EndFields
  BY <1>2 DEF EndFields, Finish, decoding, TypeOK, LayoutOK, Fresh, Ranged
<1>3. CASE emit_encoding
  <2>1. layout' = layout
    BY <1>3, EmitKeeps
  <2> QED
    BY <1>3, <2>1 DEF emit_encoding, Finish, decoding, TypeOK, LayoutOK, Fresh, Ranged
<1>4. CASE DecodeVariable
  BY <1>4 DEF DecodeVariable, Schematic, Finish, TypeOK, LayoutOK, Fresh, Ranged
<1>5. CASE DecodeBegin
  BY <1>5 DEF DecodeBegin, instr_width, TypeOK, LayoutOK, Fresh, Ranged
<1>6. CASE DecodeSegment
  <2>1. UNCHANGED <<origin, tokens, left, cur, layout, width, wtok>> /\ stage = "segments"
        /\ n < Len(layout)
    BY <1>6 DEF DecodeSegment
  <2>2. CASE Schematic /\ UNCHANGED <<n, top>>
    BY <2>1, <2>2 DEF Schematic, Finish, TypeOK, LayoutOK, Fresh, Ranged
  <2>3. CASE ~Schematic
    <3> DEFINE seg == layout[n + 1]
               lo == top - seg.width
               m == Shift(IF seg.kind = "fixed" THEN ones(seg.width) ELSE {}, lo)
               v == Shift(Low(seg.bits, seg.width), lo)
    <3>1. /\ lo >= 0 /\ n' = n + 1 /\ top' = lo /\ mask' = mask \cup m /\ match' = match \cup v
          /\ UNCHANGED <<stage, result>>
      BY <1>6, <2>3 DEF DecodeSegment
    <3>2. n + 1 \in DOMAIN layout /\ SegOK(seg)
      BY <1>0, <2>1 DEF TypeOK
    <3>3. lo \in Nat
      BY <3>1, <3>2 DEF TypeOK, SegOK, Segment
    <3> HIDE DEF lo, seg
    <3>4. v \subseteq m /\ m \subseteq Nat
      BY <3>2, <3>3, SegmentBits
    <3> HIDE DEF m, v
    <3>5. TypeOK'
      BY <1>0, <2>1, <3>1, <3>2, <3>3, <3>4 DEF TypeOK
    <3> QED
      BY <2>1, <3>1, <3>5 DEF LayoutOK, Fresh, Ranged
  <2> QED
    BY <1>6, <2>1, <2>2, <2>3 DEF DecodeSegment, Schematic, Finish
<1>7. CASE DecodeEnd
  BY <1>7 DEF DecodeEnd, Schematic, Finish, TypeOK, LayoutOK, Fresh, Ranged
<1>8. CASE UNCHANGED vars
  BY <1>8 DEF vars, TypeOK, LayoutOK, Fresh, Ranged
<1> QED
  BY <1>1, <1>2, <1>3, <1>4, <1>5, <1>6, <1>7, <1>8 DEF decode_signature

LEMMA FormStep == FormInv /\ [Next]_vars => FormInv'
  BY ParserForm, OtherForm DEF Next

\* Every reachable state has the form the parsers, the emitter and the decoder pass on.
THEOREM FormInvariant == Spec => []FormInv
  BY InitForm, FormStep, PTL DEF Spec

\* Type correctness of the parsers, the emitter and the decoder; in particular
\* the signature never has a bit below bit 0, and a match has no bit outside its
\* mask.
THEOREM TypeCorrect == Spec => []TypeOK
<1>1. FormInv => TypeOK
  BY DEF FormInv
<1> QED
  BY <1>1, FormInvariant, PTL

----------------------------------------------------------------------------
(***************************************************************************)
(* The widths add up.                                                      *)
(***************************************************************************)

\* A token has gone to the end of the layout, with a gap above it if need be: the
\* segments before it keep their distance to the new cursor.
Grown(i) ==
  /\ Known(layout') /\ Len(layout) < Len(layout')
  /\ \A j \in 1 .. Len(layout) : layout'[j] = layout[j]
  /\ \A j \in Len(layout) + 1 .. Len(layout') - 1 : layout'[j].kind = "var"
  /\ layout'[Len(layout')] = SegmentOf(tokens[i])
  /\ cur' = tokens[i].lsb - 1
  /\ \A j \in 1 .. Len(layout) + 1 :
       WidthFrom(layout', j) = WidthFrom(layout, j) + cur - cur'

LEMMA TotalAppend ==
  ASSUME NEW s \in Seq(Segment), NEW x \in Segment
  PROVE  TotalWidth(Append(s, x)) = TotalWidth(s) + x.width
<1>1. 1 \in 1 .. Len(s) + 1
  OBVIOUS
<1> QED
  BY <1>1, WidthFromAppend DEF TotalWidth

LEMMA TotalNat == ASSUME NEW s \in Seq(Segment) PROVE TotalWidth(s) \in Nat
  BY WidthFromNat DEF TotalWidth

LEMMA TotalEmpty == TotalWidth(<< >>) = 0
<1>1. << >> \in Seq(Segment) /\ 1 > Len(<< >>)
  OBVIOUS
<1>2. 1 \in Nat \ {0}
  OBVIOUS
<1> QED
  BY <1>1, <1>2, WidthFromNat DEF TotalWidth

\* The gap fills what is between the cursor and the range.
LEMMA GapWidths ==
  ASSUME TypeOK, Known(layout), NEW m \in -1 .. MaxBit, m <= cur
  PROVE  LET g == layout \o Gap(m)
         IN  /\ Known(g) /\ Len(g) >= Len(layout)
             /\ \A j \in 1 .. Len(layout) : g[j] = layout[j]
             /\ \A j \in Len(layout) + 1 .. Len(g) : g[j].kind = "var"
             /\ \A j \in 1 .. Len(layout) + 1 :
                  WidthFrom(g, j) = WidthFrom(layout, j) + cur - m
<1> DEFINE g == layout \o Gap(m)
<1>1. cur \in Int /\ m \in Int /\ layout \in Seq(Segment) /\ Len(layout) \in Nat
  BY DEF TypeOK
<1>2. \A j \in 1 .. Len(layout) + 1 : WidthFrom(layout, j) \in Nat
  BY <1>1, WidthFromNat
<1>3. CASE m < cur
  <2> DEFINE x == Operand(cur - m)
  <2>1. cur - m \in Nat
    BY <1>1, <1>3
  <2>2. x \in Segment /\ x.kind = "var" /\ x.width = cur - m
    BY <2>1, OperandForm DEF SegOK
  <2>3. g = Append(layout, x) /\ Known(g)
    BY <1>3, GapForm
  <2> HIDE DEF x, g
  <2>4. \A j \in 1 .. Len(layout) + 1 : WidthFrom(g, j) = WidthFrom(layout, j) + x.width
    BY <1>1, <2>2, <2>3, WidthFromAppend
  <2>5. \A j \in 1 .. Len(layout) + 1 : WidthFrom(g, j) = WidthFrom(layout, j) + cur - m
    BY <1>1, <1>2, <2>2, <2>4
  <2>6. /\ Len(g) = Len(layout) + 1 /\ \A j \in 1 .. Len(layout) : g[j] = layout[j]
        /\ g[Len(layout) + 1] = x
    BY <1>1, <2>2, <2>3, Glue
  <2> QED
    BY <1>1, <2>2, <2>3, <2>5, <2>6 DEF g
<1>4. CASE m = cur
  <2>1. g = layout
    BY <1>1, <1>4, GapForm
  <2>2. \A j \in 1 .. Len(layout) + 1 : WidthFrom(layout, j) = WidthFrom(layout, j) + cur - m
    BY <1>1, <1>2, <1>4
  <2> HIDE DEF g
  <2> QED
    BY <1>1, <2>1, <2>2 DEF g
<1> QED
  BY <1>1, <1>3, <1>4

\* Both parsers place a range the same way: _parse_line never leaves a gap.
LEMMA PlaceGrows ==
  ASSUME FormInv, NEW i \in left, tokens[i].msb <= cur, origin # "prebuilt",
         layout' = layout \o Gap(tokens[i].msb) \o <<SegmentOf(tokens[i])>>,
         cur' = tokens[i].lsb - 1
  PROVE  Grown(i)
<1> DEFINE t == tokens[i]
           g == layout \o Gap(t.msb)
           x == SegmentOf(t)
<1>1. TypeOK /\ Known(layout) /\ t \in AnyToken /\ layout \in Seq(Segment) /\ cur \in Int
  BY LayoutKnown DEF FormInv, TypeOK, AnyToken
<1>2. /\ t.msb \in -1 .. MaxBit /\ t.lsb \in Nat /\ t.msb \in Nat /\ t.lsb <= t.msb
  BY <1>1, TokenForm
<1>3. SegOK(x) /\ x.kind # "unknown" /\ x.width = t.msb - t.lsb + 1
  BY <1>1, SegmentForm
<1>4. x \in Segment
  BY <1>3 DEF SegOK
<1> HIDE DEF x
<1>5. /\ Known(g) /\ Len(g) >= Len(layout)
      /\ \A j \in 1 .. Len(layout) : g[j] = layout[j]
      /\ \A j \in Len(layout) + 1 .. Len(g) : g[j].kind = "var"
      /\ \A j \in 1 .. Len(layout) + 1 : WidthFrom(g, j) = WidthFrom(layout, j) + cur - t.msb
  BY <1>1, <1>2, GapWidths
<1>6. layout' = g \o <<x>>
  BY DEF x
<1> HIDE DEF g
<1>7. g \in Seq(Segment) /\ Len(g) \in Nat /\ Len(layout) \in Nat
  BY <1>1, <1>5 DEF Known
<1>8. /\ layout' = Append(g, x) /\ Len(layout') = Len(g) + 1
      /\ \A j \in 1 .. Len(g) : layout'[j] = g[j]
      /\ layout'[Len(g) + 1] = x
  BY <1>4, <1>6, <1>7, Glue
<1>9. Known(layout')
  BY <1>3, <1>5, <1>8, KnownAppend
<1>10. ASSUME NEW j \in 1 .. Len(layout) + 1
       PROVE  WidthFrom(layout', j) = WidthFrom(layout, j) + cur - cur'
  <2>1. j \in 1 .. Len(g) + 1
    BY <1>5, <1>7
  <2>2. WidthFrom(layout', j) = WidthFrom(g, j) + x.width
    <3>1. WidthFrom(Append(g, x), j) = WidthFrom(g, j) + x.width
      BY <1>4, <1>7, <2>1, WidthFromAppend, Zenon
    <3> QED
      BY <1>8, <3>1, Zenon
  <2>3. WidthFrom(g, j) = WidthFrom(layout, j) + cur - t.msb /\ WidthFrom(layout, j) \in Nat
    BY <1>1, <1>5, <1>7, WidthFromNat
  <2>4. cur' = t.lsb - 1
    OBVIOUS
  <2> HIDE DEF t
  <2>5. (WidthFrom(layout, j) + cur - t.msb) + (t.msb - t.lsb + 1)
          = WidthFrom(layout, j) + cur - (t.lsb - 1)
    <3>1. cur \in Int /\ t.msb \in Int /\ t.lsb \in Int /\ WidthFrom(layout, j) \in Int
      BY <1>1, <1>2, <2>3
    <3> QED
      BY <3>1
  <2> QED
    BY <1>3, <2>2, <2>3, <2>4, <2>5
<1>11. \A j \in 1 .. Len(layout) : layout'[j] = layout[j]
  BY <1>5, <1>7, <1>8
<1>12. \A j \in Len(layout) + 1 .. Len(layout') - 1 : layout'[j].kind = "var"
  <2>1. \A j \in Len(layout) + 1 .. Len(layout') - 1 :
          j \in Len(layout) + 1 .. Len(g) /\ j \in 1 .. Len(g)
    BY <1>7, <1>8
  <2> QED
    BY <1>5, <1>8, <2>1
<1>13. Len(layout) < Len(layout') /\ layout'[Len(layout')] = SegmentOf(t)
  BY <1>5, <1>7, <1>8 DEF x
<1> QED
  BY <1>9, <1>10, <1>11, <1>12, <1>13 DEF Grown

\* The steps that place a range.
LEMMA Placing ==
  ASSUME FormInv, PlaceRange \/ PlaceBits, layout' # layout \/ stage' # "done"
  PROVE  /\ \/ origin = "riscv" /\ \E i \in left : tokens[i].msb = cur /\ Grown(i) /\ left' = left \ {i}
            \/ /\ origin = "tablegen"
               /\ \E i \in left :
                    /\ left' = left \ {i} /\ \A j \in left \ {i} : tokens[j].msb <= tokens[i].msb
                    /\ \/ tokens[i].msb <= cur /\ Grown(i)
                       \/ tokens[i].msb > cur /\ layout' = layout /\ cur' = cur
         /\ stage = "walk" /\ UNCHANGED <<origin, tokens, width, wtok, stage, n, top, mask, match, result>>
<1>0. /\ layout \in Seq(Segment) /\ cur \in Int /\ left \subseteq DOMAIN tokens
      /\ \A i \in left : tokens[i] \in AnyToken
  BY DEF FormInv, TypeOK, AnyToken
<1>m. \A i \in left : tokens[i].msb \in Nat
  BY <1>0, TokenForm
<1>1. CASE PlaceRange
  <2>1. PICK i \in left :
          /\ tokens[i].msb = cur /\ left' = left \ {i}
          /\ layout' = Append(layout, SegmentOf(tokens[i])) /\ cur' = tokens[i].lsb - 1
          /\ UNCHANGED <<stage, result>>
    BY <1>1 DEF PlaceRange, Finish
  <2>2. SegmentOf(tokens[i]) \in Segment
    BY <1>0, SegmentForm DEF SegOK
  <2>3. Gap(tokens[i].msb) = << >>
    BY <1>0, <2>1 DEF Gap
  <2>4. layout' = layout \o Gap(tokens[i].msb) \o <<SegmentOf(tokens[i])>>
    BY <1>0, <2>1, <2>2, <2>3, Glue
  <2>5. origin = "riscv" /\ stage = "walk"
        /\ UNCHANGED <<origin, tokens, width, wtok, n, top, mask, match>>
    BY <1>1 DEF PlaceRange, decoding
  <2>6. tokens[i].msb <= cur
    BY <1>0, <2>1
  <2>7. Grown(i)
    BY <2>1, <2>4, <2>5, <2>6, PlaceGrows
  <2> QED
    BY <2>1, <2>5, <2>7
<1>2. CASE PlaceBits
  <2>1. /\ origin = "tablegen" /\ stage = "walk"
        /\ UNCHANGED <<origin, tokens, width, wtok, stage, n, top, mask, match, result>>
    BY <1>2 DEF PlaceBits, decoding
  <2>2. PICK i \in left :
          /\ Leftmost(i) /\ left' = left \ {i}
          /\ \/ /\ tokens[i].msb <= cur
                /\ layout' = layout \o Gap(tokens[i].msb) \o <<SegmentOf(tokens[i])>>
                /\ cur' = tokens[i].lsb - 1
             \/ tokens[i].msb > cur /\ layout' = layout /\ cur' = cur
    BY <1>2 DEF PlaceBits
  <2>3. \A j \in left \ {i} : tokens[j].msb <= tokens[i].msb
    BY <1>m, <2>2 DEF Leftmost, Precedes
  <2>4. CASE tokens[i].msb > cur
    <3>1. ~ (tokens[i].msb <= cur)
      BY <1>0, <1>m, <2>4
    <3> QED
      BY <2>1, <2>2, <2>3, <3>1
  <2>5. CASE tokens[i].msb <= cur
    <3>1. ~ (tokens[i].msb > cur)
      BY <1>0, <1>m, <2>5
    <3>2. Grown(i)
      BY <2>1, <2>2, <2>5, <3>1, PlaceGrows
    <3> QED
      BY <2>1, <2>2, <2>3, <2>5, <3>2
  <2> QED
    BY <2>2, <2>4, <2>5
<1> QED
  BY <1>1, <1>2

BookInv == FormInv /\ WidthsAdd /\ Signed /\ GatesAgree

LEMMA InitBook == Init => BookInv
<1> SUFFICES ASSUME Init PROVE BookInv
  OBVIOUS
<1>1. FormInv
  BY InitForm
<1> QED
  BY <1>1
  DEF Init, BookInv, WidthsAdd, Signed, GatesAgree, Walked, Laid, Deciding

\* A parser's step keeps the books: the decoder has not begun.
LEMMA ParserBook ==
  ASSUME BookInv, FormInv', _parse_line \/ _layout_from_bits
  PROVE  BookInv'
<1>0. /\ FormInv /\ TypeOK /\ layout \in Seq(Segment) /\ cur \in Int
      /\ TotalWidth(layout) \in Nat /\ MaxBit \in Nat
      /\ \A i \in DOMAIN tokens : tokens[i] \in AnyToken
  <2>1. FormInv /\ TypeOK
    BY DEF BookInv, FormInv
  <2>2. /\ layout \in Seq(Segment) /\ cur \in Int /\ MaxBit \in Nat
        /\ \A i \in DOMAIN tokens : tokens[i] \in AnyToken
    <3>1. layout \in Seq(Segment) /\ tokens \in Seq(AnyToken)
      BY <2>1 DEF TypeOK, AnyToken
    <3>2. cur \in Int /\ MaxBit \in Nat
      BY <2>1, PCodeAssumption DEF TypeOK
    <3> QED
      BY <3>1, <3>2
  <2> QED
    BY <2>1, <2>2, TotalNat
<1>1. stage' \in {"read", "walk", "emit", "done"} /\ result' \in {"none", "skipped"}
  BY DEF _parse_line, _layout_from_bits, ReadRange, RefuseLine, SortLine, PlaceRange,
         EndLine, SortBits, PlaceBits, EndBits, Finish, BookInv, FormInv, TypeOK, Fresh
<1>2. Signed' /\ ~Deciding'
  BY <1>1 DEF Signed, Walked, Deciding
<1>3. SUFFICES WidthsAdd'
  BY <1>1, <1>2, <1>3 DEF BookInv, GatesAgree, WidthsAdd, Ranged
<1>4. CASE ReadRange \/ RefuseLine
  BY <1>2, <1>4 DEF ReadRange, RefuseLine, Finish, WidthsAdd, Laid
<1>5. CASE SortLine
  <2>1. PICK i \in DOMAIN tokens : width' = tokens[i].msb + 1 /\ cur' = tokens[i].msb
    BY <1>5 DEF SortLine
  <2>2. tokens[i].msb \in Nat
    BY <1>0, TokenForm
  <2>3. layout = << >> /\ layout' = layout /\ stage' = "walk"
    BY <1>0, <1>5 DEF SortLine, FormInv, Fresh, Ranged
  <2>4. TotalWidth(layout') = 0
    BY <2>3, TotalEmpty
  <2> QED
    BY <1>2, <2>1, <2>2, <2>3, <2>4 DEF WidthsAdd
<1>6. CASE PlaceRange \/ PlaceBits
  <2>1. CASE stage' = "done" /\ layout' = layout
    BY <1>2, <2>1 DEF WidthsAdd, Laid
  <2>2. CASE layout' # layout \/ stage' # "done"
    <3>1. /\ stage = "walk" /\ stage' = "walk" /\ width' = width
          /\ \/ \E i \in left : Grown(i)
             \/ layout' = layout /\ cur' = cur
          /\ cur' \in Int /\ layout' \in Seq(Segment)
      BY <1>6, <1>0, <2>2, Placing DEF FormInv, TypeOK
    <3>2. width \in Nat /\ TotalWidth(layout) + cur + 1 = width
      BY <3>1 DEF BookInv, WidthsAdd, Laid, FormInv, Fresh
    <3>3. TotalWidth(layout') + cur' + 1 = width
      <4>1. CASE \E i \in left : Grown(i)
        <5>1. 1 \in 1 .. Len(layout) + 1
          BY <1>0
        <5>2. WidthFrom(layout', 1) = WidthFrom(layout, 1) + cur - cur'
          BY <4>1, <5>1 DEF Grown
        <5> QED
          BY <1>0, <3>1, <3>2, <5>2 DEF TotalWidth
      <4> QED
        BY <3>1, <3>2, <4>1
    <3> QED
      BY <1>2, <3>1, <3>2, <3>3 DEF WidthsAdd
  <2> QED
    BY <2>1, <2>2
<1>7. CASE EndLine
  <2>1. /\ stage = "walk" /\ layout' = layout /\ width' = width /\ stage' \in {"emit", "done"}
        /\ stage' = "emit" => cur = -1
    BY <1>7 DEF EndLine, Finish
  <2>2. width \in Nat /\ TotalWidth(layout) + cur + 1 = width
    BY <2>1 DEF BookInv, WidthsAdd, Laid, FormInv, Fresh
  <2>3. stage' = "emit" => TotalWidth(layout) = width
    BY <1>0, <2>1, <2>2
  <2> QED
    BY <1>2, <2>1, <2>2, <2>3 DEF WidthsAdd
<1>8. CASE SortBits
  <2>1. CASE stage' = "done"
    BY <1>2, <2>1 DEF WidthsAdd, Laid
  <2>2. CASE stage' # "done"
    <3>1. layout = << >> /\ layout' = layout /\ stage' = "walk" /\ width' = W /\ cur' = W - 1
      BY <1>0, <1>8, <2>2 DEF SortBits, Finish, FormInv, Fresh, Ranged
    <3>2. TotalWidth(layout') = 0
      BY <3>1, TotalEmpty
    <3> QED
      BY <1>2, <3>1, <3>2 DEF WidthsAdd
  <2> QED
    BY <2>1, <2>2
<1>9. CASE EndBits
  <2>1. /\ stage = "walk" /\ stage' = "emit" /\ origin = "tablegen" /\ width' = width
        /\ layout' = layout \o Gap(-1)
    BY <1>9 DEF EndBits
  <2>2. width \in Nat /\ TotalWidth(layout) + cur + 1 = width
    BY <2>1 DEF BookInv, WidthsAdd, Laid, FormInv, Fresh
  <2>3. Known(layout) /\ -1 \in -1 .. MaxBit /\ -1 <= cur /\ 1 \in 1 .. Len(layout) + 1
    BY <1>0, <2>1, LayoutKnown DEF BookInv, FormInv, TypeOK
  <2>4. WidthFrom(layout', 1) = WidthFrom(layout, 1) + cur - (-1)
    BY <1>0, <2>1, <2>3, GapWidths
  <2>5. TotalWidth(layout') = width
    BY <1>0, <2>2, <2>4 DEF TotalWidth
  <2> QED
    BY <1>2, <2>1, <2>2, <2>5 DEF WidthsAdd
<1> QED
  BY <1>4, <1>5, <1>6, <1>7, <1>8, <1>9 DEF _parse_line, _layout_from_bits

\* How the decoder's sums go on: the next segment ends where the last one began.
LEMMA NextSegment ==
  ASSUME BookInv, stage = "segments", n < Len(layout)
  PROVE  /\ n + 1 \in 1 .. Len(layout) /\ SegOK(layout[n + 1])
         /\ top - layout[n + 1].width = Bottom(n + 1)
         /\ top <= instr_width /\ instr_width \in Nat /\ top \in Nat
         /\ layout[n + 1].width \in Nat
         /\ Bottom(n + 1) = Offset + WidthFrom(layout, (n + 1) + 1)
<1>1. /\ layout \in Seq(Segment) /\ n \in Nat /\ Len(layout) \in Nat /\ top \in Nat
      /\ \A j \in 1 .. Len(layout) : SegOK(layout[j])
  BY DEF BookInv, FormInv, TypeOK, LayoutOK
<1>2. n + 1 \in 1 .. Len(layout) /\ (n + 1) + 1 \in Nat \ {0} /\ n + 1 \in Nat \ {0}
      /\ n + 1 \in 1 .. Len(layout) + 1
  BY <1>1
<1>3. instr_width \in Nat /\ top = Offset + WidthFrom(layout, n + 1)
  BY DEF BookInv, Signed, Walked
<1>4. SegOK(layout[n + 1]) /\ layout[n + 1].width \in Nat
  BY <1>1, <1>2 DEF SegOK, Segment
<1>5. /\ WidthFrom(layout, n + 1) = layout[n + 1].width + WidthFrom(layout, (n + 1) + 1)
      /\ WidthFrom(layout, (n + 1) + 1) \in Nat /\ WidthFrom(layout, n + 1) \in Nat
      /\ TotalWidth(layout) \in Nat
  BY <1>1, <1>2, WidthFromSplit, WidthFromNat, TotalNat
<1>6. WidthFrom(layout, n + 1) <= TotalWidth(layout)
  BY <1>1, <1>2, WidthFromOrder DEF TotalWidth
<1>7. Bottom(n + 1) = Offset + WidthFrom(layout, (n + 1) + 1)
  BY DEF Bottom
<1>8. top - layout[n + 1].width = Bottom(n + 1)
  <2>1. Offset \in Int
    BY <1>3, <1>5 DEF Offset
  <2> QED
    BY <1>3, <1>4, <1>5, <1>7, <2>1
<1>9. top <= instr_width
  BY <1>3, <1>5, <1>6 DEF Offset
<1> QED
  BY <1>1, <1>2, <1>3, <1>4, <1>7, <1>8, <1>9

\* The decoder never gets stuck on what the emitter wrote for an integer width.
LEMMA NeverStuck ==
  ASSUME BookInv, stage = "segments", origin # "prebuilt", width # Variable
  PROVE  /\ n < Len(layout) => layout[n + 1].kind # "unknown" /\ Bottom(n + 1) >= 0
         /\ n = Len(layout) => top = 0
<1>1. TotalWidth(layout) = width /\ instr_width = width /\ layout \in Seq(Segment) /\ n \in Nat
  BY DEF BookInv, WidthsAdd, Deciding, instr_width, FormInv, TypeOK
<1>2. width \in Nat
  BY <1>1, TotalNat
<1>3. Offset = 0
  BY <1>1, <1>2 DEF Offset
<1>4. CASE n < Len(layout)
  <2>1. n + 1 \in DOMAIN layout /\ (n + 1) + 1 \in Nat \ {0}
    BY <1>1, <1>4
  <2>2. layout[n + 1].kind # "unknown"
    BY <2>1 DEF BookInv, FormInv, LayoutOK
  <2>3. WidthFrom(layout, (n + 1) + 1) \in Nat
    BY <1>1, <2>1, WidthFromNat
  <2> QED
    BY <1>3, <1>4, <2>2, <2>3 DEF Bottom
<1>5. CASE n = Len(layout)
  <2>1. n + 1 \in Nat \ {0} /\ n + 1 > Len(layout)
    BY <1>1, <1>5
  <2>2. WidthFrom(layout, n + 1) = 0
    BY <1>1, <2>1, WidthFromNat
  <2> QED
    BY <1>1, <1>3, <1>5, <2>2 DEF BookInv, Signed, Walked
<1> QED
  BY <1>1, <1>4, <1>5

\* The other steps keep the books.
LEMMA OtherBook ==
  ASSUME BookInv, FormInv',
         \/ ListField \/ EndFields \/ emit_encoding \/ decode_signature \/ UNCHANGED vars
  PROVE  BookInv'
<1>0. FormInv /\ layout \in Seq(Segment) /\ TotalWidth(layout) \in Nat /\ n \in Nat
  BY TotalNat DEF BookInv, FormInv, TypeOK
<1>1. CASE ListField \/ EndFields
  BY <1>1
  DEF ListField, EndFields, Finish, BookInv, FormInv, Fresh, WidthsAdd, Signed, GatesAgree,
      Walked, Laid, Deciding, Ranged, decoding
<1>2. CASE emit_encoding
  <2>1. layout' = layout
    BY <1>0, <1>2, EmitKeeps
  <2>2. /\ stage = "emit" /\ UNCHANGED <<origin, width, n, top, mask, match>>
        /\ result = "none"
        /\ \/ stage' = "done" /\ result' = "rejected" /\ TotalWidth(layout) # width
              /\ width # Variable
           \/ /\ stage' = "decode" /\ result' = result
              /\ origin = "prebuilt" \/ width = Variable \/ TotalWidth(layout) = width
    BY <1>0, <1>2 DEF emit_encoding, Finish, decoding, FormInv, Fresh
  <2>3. WidthsAdd'
    BY <2>1, <2>2 DEF BookInv, WidthsAdd, Laid, Deciding, Ranged
  <2> QED
    BY <2>2, <2>3 DEF BookInv, Signed, Walked, GatesAgree
<1>3. CASE DecodeVariable
  <2>1. /\ stage = "decode" /\ stage' = "done" /\ result' = "schematic" /\ width = Variable
        /\ UNCHANGED <<origin, layout, width>>
    BY <1>3 DEF DecodeVariable, Schematic, Finish, instr_width
  <2>2. WidthsAdd'
    BY <2>1 DEF BookInv, WidthsAdd, Laid, Deciding, Ranged
  <2> QED
    BY <2>1, <2>2 DEF BookInv, Signed, Walked, GatesAgree
<1>4. CASE DecodeBegin
  <2>1. /\ stage = "decode" /\ stage' = "segments" /\ instr_width # Variable
        /\ top' = instr_width /\ UNCHANGED <<origin, layout, width, wtok, n, mask, match, result>>
        /\ n = 0 /\ mask = {} /\ match = {} /\ result = "none"
    BY <1>0, <1>4 DEF DecodeBegin, FormInv, Fresh
  <2>2. instr_width \in Nat
    BY <1>0, <2>1 DEF FormInv, TypeOK, instr_width
  <2>3. instr_width' = instr_width /\ Offset' = Offset /\ top' = Offset' + WidthFrom(layout', n' + 1)
    BY <1>0, <2>1, <2>2 DEF instr_width, Offset, TotalWidth
  <2>4. Signed'
    BY <2>1, <2>2, <2>3 DEF Signed
  <2>5. WidthsAdd'
    BY <2>1 DEF BookInv, WidthsAdd, Laid, Deciding, Ranged
  <2> QED
    BY <2>1, <2>4, <2>5 DEF BookInv, GatesAgree
<1>5. CASE DecodeSegment
  <2>1. /\ stage = "segments" /\ n < Len(layout)
        /\ UNCHANGED <<origin, tokens, left, cur, layout, width, wtok>>
        /\ result = "none"
    BY <1>0, <1>5 DEF DecodeSegment, FormInv, Fresh
  <2>2. /\ n + 1 \in 1 .. Len(layout) /\ SegOK(layout[n + 1])
        /\ top - layout[n + 1].width = Bottom(n + 1)
        /\ top <= instr_width /\ instr_width \in Nat /\ top \in Nat
        /\ layout[n + 1].width \in Nat
        /\ Bottom(n + 1) = Offset + WidthFrom(layout, (n + 1) + 1)
    BY <2>1, NextSegment
  <2>3. CASE Schematic
    <3>1. stage' = "done" /\ result' = "schematic"
      BY <2>3 DEF Schematic, Finish
    <3>2. layout[n + 1].kind = "unknown" \/ Bottom(n + 1) < 0
      BY <1>5, <2>1, <2>2, <3>1 DEF DecodeSegment
    <3>3. origin = "prebuilt" \/ width = Variable
      <4>1. SUFFICES ASSUME origin # "prebuilt", width # Variable PROVE FALSE
        OBVIOUS
      <4>2. layout[n + 1].kind # "unknown" /\ Bottom(n + 1) >= 0
        BY <2>1, <4>1, NeverStuck
      <4> QED
        BY <2>2, <3>2, <4>2
    <3>4. WidthsAdd'
      BY <2>1, <3>1, <3>3 DEF BookInv, WidthsAdd, Laid, Deciding, Ranged
    <3> QED
      BY <2>1, <3>1, <3>3, <3>4 DEF BookInv, Signed, Walked, GatesAgree
  <2>4. CASE ~Schematic
    <3> DEFINE seg == layout[n + 1]
               lo == Bottom(n + 1)
               m == Shift(IF seg.kind = "fixed" THEN ones(seg.width) ELSE {}, lo)
               v == Shift(Low(seg.bits, seg.width), lo)
    <3>1. /\ lo >= 0 /\ n' = n + 1 /\ top' = lo /\ mask' = mask \cup m /\ match' = match \cup v
          /\ UNCHANGED <<stage, result>> /\ seg.kind # "unknown"
      BY <1>5, <2>2, <2>4 DEF DecodeSegment
    <3>2. lo \in Nat /\ lo + seg.width - 1 <= instr_width - 1
      BY <2>2, <3>1
    <3>3. /\ \A b : b \in m <=> seg.kind = "fixed" /\ b \in lo .. lo + seg.width - 1
          /\ \A b : b \in v <=> seg.kind = "fixed" /\ b \in Int /\ b - lo \in seg.bits
          /\ v \subseteq m
      BY <2>2, <3>2, SegmentBits
    <3> HIDE DEF m, v
    <3>4. m \subseteq 0 .. instr_width - 1
      BY <2>2, <3>2, <3>3
    <3>5. /\ instr_width' = instr_width /\ Offset' = Offset
          /\ \A j : Bottom(j)' = Bottom(j)
      BY <2>1 DEF instr_width, Offset, Bottom
    <3>6. /\ instr_width \in Nat
          /\ \A j \in 1 .. n : layout[j].kind # "unknown"
          /\ mask = {b \in 0 .. instr_width - 1 : \E j \in 1 .. n :
                 layout[j].kind = "fixed" /\ b \in Bottom(j) .. Bottom(j) + layout[j].width - 1}
          /\ match = {b \in 0 .. instr_width - 1 : \E j \in 1 .. n :
                 layout[j].kind = "fixed" /\ b - Bottom(j) \in layout[j].bits}
      BY <2>1 DEF BookInv, Signed, Walked
    <3> HIDE DEF lo
    <3>7. /\ \A j : j \in 1 .. n' <=> j \in 1 .. n \/ j = n + 1
      BY <1>0, <3>1
    <3>8. mask' = {b \in 0 .. instr_width - 1 : \E j \in 1 .. n' :
                 layout[j].kind = "fixed" /\ b \in Bottom(j) .. Bottom(j) + layout[j].width - 1}
      <4>1. ASSUME NEW b \in 0 .. instr_width - 1
            PROVE  b \in mask' <=> \E j \in 1 .. n' : layout[j].kind = "fixed"
                                     /\ b \in Bottom(j) .. Bottom(j) + layout[j].width - 1
        BY <3>1, <3>3, <3>6, <3>7 DEF lo
      <4>2. mask' \subseteq 0 .. instr_width - 1
        BY <3>1, <3>4, <3>6
      <4> QED
        BY <4>1, <4>2
    <3>9. match' = {b \in 0 .. instr_width - 1 : \E j \in 1 .. n' :
                 layout[j].kind = "fixed" /\ b - Bottom(j) \in layout[j].bits}
      <4>1. ASSUME NEW b \in 0 .. instr_width - 1
            PROVE  b \in match' <=> \E j \in 1 .. n' : layout[j].kind = "fixed"
                                     /\ b - Bottom(j) \in layout[j].bits
        BY <3>1, <3>3, <3>6, <3>7 DEF lo
      <4>2. match' \subseteq 0 .. instr_width - 1
        BY <3>1, <3>3, <3>4, <3>6
      <4> QED
        BY <4>1, <4>2
    <3>10. top' = Offset' + WidthFrom(layout', n' + 1)
      BY <2>1, <2>2, <3>1, <3>5 DEF lo
    <3>11. \A j \in 1 .. n' : layout'[j].kind # "unknown"
      BY <2>1, <3>1, <3>6, <3>7
    <3>12. Signed'
      BY <2>1, <3>1, <3>5, <3>6, <3>8, <3>9, <3>10, <3>11 DEF Signed
    <3>13. WidthsAdd'
      BY <2>1, <3>1 DEF BookInv, WidthsAdd, Laid, Deciding, Ranged
    <3> QED
      BY <2>1, <3>1, <3>12, <3>13 DEF BookInv, GatesAgree
  <2> QED
    BY <2>3, <2>4
<1>6. CASE DecodeEnd
  <2>1. /\ stage = "segments" /\ n = Len(layout) /\ stage' = "done" /\ result = "none"
        /\ UNCHANGED <<origin, tokens, left, cur, layout, width, wtok, n, top>>
    BY <1>0, <1>6 DEF DecodeEnd, Schematic, Finish, FormInv, Fresh
  <2>2. CASE result' = "exact"
    <3>1. top = 0 /\ UNCHANGED <<mask, match>>
      BY <1>6, <2>2 DEF DecodeEnd, Schematic, Finish
    <3>2. /\ instr_width' = instr_width /\ Offset' = Offset
          /\ \A j : Bottom(j)' = Bottom(j)
      BY <2>1 DEF instr_width, Offset, Bottom
    <3>3. Signed'
      BY <2>1, <3>1, <3>2 DEF BookInv, Signed, Walked
    <3>4. WidthsAdd'
      BY <2>1, <2>2 DEF BookInv, WidthsAdd, Laid, Deciding, Ranged
    <3> QED
      BY <2>1, <2>2, <3>3, <3>4 DEF BookInv, GatesAgree
  <2>3. CASE result' # "exact"
    <3>1. result' = "schematic" /\ top # 0
      BY <1>6, <2>3 DEF DecodeEnd, Schematic, Finish
    <3>2. origin = "prebuilt" \/ width = Variable
      BY <2>1, <3>1, NeverStuck
    <3>3. WidthsAdd'
      BY <2>1, <3>1, <3>2 DEF BookInv, WidthsAdd, Laid, Deciding, Ranged
    <3> QED
      BY <2>1, <3>1, <3>2, <3>3 DEF BookInv, Signed, Walked, GatesAgree
  <2> QED
    BY <2>2, <2>3
<1>7. CASE UNCHANGED vars
  <2>1. UNCHANGED <<origin, layout, width, wtok, stage, n, top, mask, match, result, cur>>
    BY <1>7 DEF vars
  <2>2. /\ instr_width' = instr_width /\ Offset' = Offset
        /\ \A j : Bottom(j)' = Bottom(j)
    BY <2>1 DEF instr_width, Offset, Bottom
  <2>3. Signed'
    BY <2>1, <2>2 DEF BookInv, Signed, Walked
  <2> QED
    BY <2>1, <2>3 DEF BookInv, WidthsAdd, GatesAgree, Laid, Deciding, Ranged
<1> QED
  BY <1>1, <1>2, <1>3, <1>4, <1>5, <1>6, <1>7 DEF decode_signature

LEMMA BookStep == BookInv /\ [Next]_vars => BookInv'
<1> SUFFICES ASSUME BookInv, [Next]_vars PROVE BookInv'
  OBVIOUS
<1>1. FormInv'
  BY FormStep DEF BookInv
<1> QED
  BY <1>1, ParserBook, OtherBook DEF Next

\* In every reachable state the widths of the segments add up to what the walk has
\* covered and the decoder has read, and the two layout gates agree.
THEOREM BookInvariant == Spec => []BookInv
  BY InitBook, BookStep, PTL DEF Spec

\* The width is checked four times on the way, by parser, emitter, literals and
\* decoder, and the checks agree: what the first admits no later one refuses.
THEOREM GatesNeverDisagree == Spec => []GatesAgree
<1>1. BookInv => GatesAgree
  BY DEF BookInv
<1> QED
  BY <1>1, BookInvariant, PTL

\* What an exact signature stands for: the segments fill the word, and a bit's
\* place is the sum of the widths below it.
LEMMA ExactMeans ==
  ASSUME BookInv, result = "exact"
  PROVE  /\ TotalWidth(layout) = instr_width /\ instr_width \in Nat
         /\ layout \in Seq(Segment) /\ DOMAIN layout = 1 .. Len(layout)
         /\ \A j \in DOMAIN layout : /\ SegOK(layout[j]) /\ layout[j].kind # "unknown"
                                     /\ layout[j].width \in Nat /\ WidthFrom(layout, j + 1) \in Nat
                                     /\ WidthFrom(layout, j + 1) + layout[j].width <= instr_width
         /\ \A b : b \in mask <=> \E j \in DOMAIN layout :
              /\ layout[j].kind = "fixed"
              /\ b \in WidthFrom(layout, j + 1) .. WidthFrom(layout, j + 1) + layout[j].width - 1
         /\ \A b : b \in match <=> \E j \in DOMAIN layout :
              /\ layout[j].kind = "fixed"
              /\ b \in Int /\ b - WidthFrom(layout, j + 1) \in layout[j].bits
<1> DEFINE F(j) == WidthFrom(layout, j + 1)
<1>1. /\ layout \in Seq(Segment) /\ DOMAIN layout = 1 .. Len(layout) /\ Len(layout) \in Nat
      /\ \A j \in DOMAIN layout : SegOK(layout[j])
  BY DEF BookInv, FormInv, TypeOK, LayoutOK
<1>2. /\ instr_width \in Nat /\ n = Len(layout) /\ top = 0
      /\ top = Offset + WidthFrom(layout, n + 1)
      /\ \A j \in 1 .. n : layout[j].kind # "unknown"
      /\ mask = {b \in 0 .. instr_width - 1 : \E j \in 1 .. n :
                   layout[j].kind = "fixed" /\ b \in Bottom(j) .. Bottom(j) + layout[j].width - 1}
      /\ match = {b \in 0 .. instr_width - 1 : \E j \in 1 .. n :
                   layout[j].kind = "fixed" /\ b - Bottom(j) \in layout[j].bits}
  BY DEF BookInv, Signed, Walked
<1>3. TotalWidth(layout) = instr_width /\ Offset = 0
  <2>1. n + 1 \in Nat \ {0} /\ n + 1 > Len(layout)
    BY <1>1, <1>2
  <2>2. WidthFrom(layout, n + 1) = 0 /\ TotalWidth(layout) \in Nat
    BY <1>1, <2>1, WidthFromNat, TotalNat
  <2> QED
    BY <1>2, <2>2 DEF Offset
<1>4. ASSUME NEW j \in DOMAIN layout
      PROVE  /\ layout[j].width \in Nat /\ F(j) \in Nat /\ layout[j].bits \subseteq 0 .. layout[j].width - 1
             /\ F(j) + layout[j].width <= instr_width /\ Bottom(j) = F(j)
  <2>1. /\ layout[j].width \in Nat /\ layout[j].bits \subseteq 0 .. layout[j].width - 1
    BY <1>1 DEF SegOK, Segment
  <2>2. j \in 1 .. Len(layout) /\ j + 1 \in Nat \ {0} /\ j \in 1 .. Len(layout) + 1 /\ 1 \in Nat \ {0}
    BY <1>1
  <2>3. F(j) \in Nat /\ WidthFrom(layout, j) = layout[j].width + F(j)
        /\ WidthFrom(layout, j) <= TotalWidth(layout)
    BY <1>1, <2>2, WidthFromNat, WidthFromSplit, WidthFromOrder DEF TotalWidth
  <2>4. Bottom(j) = F(j)
    BY <1>3, <2>3 DEF Bottom
  <2> HIDE DEF F
  <2>5. F(j) + layout[j].width <= instr_width
    BY <1>3, <2>1, <2>3
  <2> QED
    BY <2>1, <2>3, <2>4, <2>5
<1> HIDE DEF F
<1>5. \A b : b \in mask <=> \E j \in DOMAIN layout :
               layout[j].kind = "fixed" /\ b \in F(j) .. F(j) + layout[j].width - 1
  <2>1. ASSUME NEW j \in DOMAIN layout, NEW b \in F(j) .. F(j) + layout[j].width - 1
        PROVE  b \in 0 .. instr_width - 1
    BY <1>2, <1>4
  <2> QED
    BY <1>1, <1>2, <1>4, <2>1
<1>6. \A b : b \in match <=> \E j \in DOMAIN layout :
               layout[j].kind = "fixed" /\ b \in Int /\ b - F(j) \in layout[j].bits
  <2>1. ASSUME NEW j \in DOMAIN layout, NEW b \in Int, b - F(j) \in layout[j].bits
        PROVE  b \in 0 .. instr_width - 1
    <3>1. b - F(j) \in 0 .. layout[j].width - 1
      BY <1>4, <2>1
    <3> QED
      BY <1>2, <1>4, <3>1
  <2>2. \A b \in 0 .. instr_width - 1 : b \in Int
    OBVIOUS
  <2> QED
    BY <1>1, <1>2, <1>4, <2>1, <2>2
<1> QED
  BY <1>1, <1>2, <1>3, <1>4, <1>5, <1>6 DEF F

\* decode_signature fabricates nothing: a signature is exact only where every
\* width is known and the widths fill the word, and it then is that of the
\* segments, whatever text it was read from.
THEOREM NothingFabricated == Spec => []NeverFabricated
<1>1. ASSUME BookInv, result = "exact" PROVE NeverFabricated
  <2> DEFINE fixed == {i \in DOMAIN layout : layout[i].kind = "fixed"}
             lo(i) == WidthFrom(layout, i + 1)
  <2>1. \A j \in DOMAIN layout : layout[j].bits \subseteq Int /\ lo(j) \in Int
    BY <1>1, ExactMeans DEF SegOK, Segment
  <2>2. mask = UNION {Range(lo(i) + layout[i].width - 1, lo(i)) : i \in fixed}
    BY <1>1, ExactMeans DEF Range
  <2>3. match = UNION {Shift(layout[i].bits, lo(i)) : i \in fixed}
    <3>1. \A j \in fixed : \A b : b \in Shift(layout[j].bits, lo(j))
                                    <=> b \in Int /\ b - lo(j) \in layout[j].bits
      BY <2>1, ShiftIn
    <3>2. \A b : b \in match <=> \E j \in fixed : b \in Int /\ b - lo(j) \in layout[j].bits
      BY <1>1, ExactMeans
    <3> HIDE DEF fixed, lo
    <3> QED
      BY <3>1, <3>2
  <2> QED
    BY <1>1, <2>2, <2>3, ExactMeans DEF NeverFabricated
<1>2. BookInv => NeverFabricated
  BY <1>1 DEF NeverFabricated
<1> QED
  BY <1>2, BookInvariant, PTL

----------------------------------------------------------------------------
(***************************************************************************)
(* Every token at its place.                                               *)
(***************************************************************************)

PlaceInv == SegmentsPlaced /\ TokensPlaced /\ LineWalk /\ BitsWalk
WayInv == BookInv /\ PlaceInv

\* Steps after the walk move nothing; before it, nothing is placed.
LEMMA PlaceFrame ==
  ASSUME PlaceInv, UNCHANGED <<origin, tokens, left, cur, layout, width>>,
         Laid' => Laid /\ (stage = "walk" <=> stage' = "walk")
  PROVE  PlaceInv'
<1>1. ~Laid' => PlaceInv'
  BY DEF PlaceInv, SegmentsPlaced, TokensPlaced, LineWalk, BitsWalk
<1>2. CASE Laid'
  <2>1. Laid /\ Base' = Base /\ (stage = "walk" <=> stage' = "walk")
    BY <1>2 DEF Base
  <2>2. \A i, j : PlacedAt(i, j)' <=> PlacedAt(i, j)
    BY <2>1 DEF PlacedAt
  <2>3. \A i, j : Apart(i, j)' <=> Apart(i, j)
    BY DEF Apart
  <2>4. Disjoint' <=> Disjoint
    BY DEF Disjoint
  <2>5. SegmentsPlaced' /\ TokensPlaced'
    BY <2>1, <2>2, <2>4 DEF PlaceInv, SegmentsPlaced, TokensPlaced, Constant
  <2>6. LineWalk' /\ BitsWalk'
    BY <2>1, <2>3 DEF PlaceInv, LineWalk, BitsWalk
  <2> QED
    BY <2>5, <2>6 DEF PlaceInv
<1> QED
  BY <1>1, <1>2

\* Where a segment lies, the base and the sum of the widths below it tell. Both
\* may change together.
LEMMA PlacesKept ==
  ASSUME BookInv, tokens' = tokens, NEW i \in DOMAIN tokens, NEW j \in DOMAIN layout,
         PlacedAt(i, j), layout'[j] = layout[j],
         Base' + WidthFrom(layout', j + 1) = Base + WidthFrom(layout, j + 1)
  PROVE  PlacedAt(i, j)'
  BY DEF PlacedAt

\* A token that grows the layout is at its place, and so are those before it.
LEMMA GrownPlaces ==
  ASSUME WayInv, FormInv', stage = "walk", stage' = "walk", tokens' = tokens, origin' = origin,
         width' = width, NEW i \in left, left' = left \ {i}, Grown(i)
  PROVE  /\ SegmentsPlaced'
         /\ \A k \in DOMAIN tokens \ left : (\E j \in DOMAIN layout : PlacedAt(k, j)) =>
              \E j \in DOMAIN layout' : PlacedAt(k, j)'
         /\ \E j \in DOMAIN layout' : PlacedAt(i, j)'
<1>1. /\ layout \in Seq(Segment) /\ layout' \in Seq(Segment) /\ Len(layout) \in Nat
      /\ Len(layout') \in Nat /\ DOMAIN layout = 1 .. Len(layout)
      /\ DOMAIN layout' = 1 .. Len(layout') /\ cur \in Int /\ cur' \in Int
      /\ left \subseteq DOMAIN tokens /\ Len(layout) < Len(layout') /\ Laid
      /\ \A k \in DOMAIN tokens : tokens[k] \in AnyToken
  BY DEF WayInv, BookInv, FormInv, TypeOK, Grown, Laid, Fresh, AnyToken
<1>2. Base = cur + 1 /\ Base' = cur' + 1
  BY DEF Base
<1>3. ASSUME NEW k \in DOMAIN tokens, NEW j \in DOMAIN layout, PlacedAt(k, j)
      PROVE  PlacedAt(k, j)' /\ j \in DOMAIN layout'
  <2>1. j + 1 \in 1 .. Len(layout) + 1 /\ j + 1 \in Nat \ {0} /\ j \in DOMAIN layout'
    BY <1>1
  <2>2. WidthFrom(layout', j + 1) = WidthFrom(layout, j + 1) + cur - cur'
        /\ WidthFrom(layout, j + 1) \in Nat /\ layout'[j] = layout[j]
    BY <1>1, <2>1, WidthFromNat DEF Grown
  <2>3. Base' + WidthFrom(layout', j + 1) = Base + WidthFrom(layout, j + 1)
    BY <1>1, <1>2, <2>2
  <2> QED
    BY <1>3, <2>1, <2>2, <2>3, PlacesKept DEF WayInv
<1>p. PICK p \in Nat : p = Len(layout')
  BY <1>1
<1>4. PlacedAt(i, p)' /\ p \in DOMAIN layout'
  <2>1. p + 1 \in Nat \ {0} /\ p + 1 > Len(layout')
    BY <1>p
  <2>2. WidthFrom(layout', p + 1) = 0
    BY <1>1, <2>1, WidthFromNat
  <2>3. tokens[i].lsb \in Nat
    BY <1>1, TokenForm
  <2>4. layout'[p] = SegmentOf(tokens[i]) /\ cur' = tokens[i].lsb - 1
    BY <1>p DEF Grown
  <2>5. tokens[i].lsb = Base' + WidthFrom(layout', p + 1)
    BY <1>1, <1>2, <2>2, <2>3, <2>4
  <2>6. PlacedAt(i, p)'
    BY <2>4, <2>5 DEF PlacedAt, SegmentOf
  <2> QED
    BY <1>1, <1>p, <2>6
<1>5. SegmentsPlaced'
  <2>1. SUFFICES ASSUME NEW j \in DOMAIN layout', layout'[j].kind = "fixed"
                 PROVE  \E k \in DOMAIN tokens' : Constant(k)' /\ PlacedAt(k, j)'
    BY DEF SegmentsPlaced
  <2>2. j \in 1 .. Len(layout) \/ j \in Len(layout) + 1 .. Len(layout') - 1 \/ j = p
    BY <1>1, <1>p
  <2>3. CASE j \in 1 .. Len(layout)
    <3>1. layout[j].kind = "fixed" /\ j \in DOMAIN layout
      BY <1>1, <2>1, <2>3 DEF Grown
    <3>2. PICK k \in DOMAIN tokens : Constant(k) /\ PlacedAt(k, j)
      BY <1>1, <3>1 DEF WayInv, PlaceInv, SegmentsPlaced
    <3> QED
      BY <1>3, <3>1, <3>2 DEF Constant
  <2>4. CASE j \in Len(layout) + 1 .. Len(layout') - 1
    BY <2>1, <2>4 DEF Grown
  <2>5. CASE j = p
    <3>1. tokens[i].kind = "fixed"
      BY <1>1, <1>p, <2>1, <2>5, SegmentForm DEF Grown
    <3> QED
      BY <1>1, <1>4, <2>5, <3>1 DEF Constant
  <2> QED
    BY <2>2, <2>3, <2>4, <2>5
<1> QED
  BY <1>3, <1>4, <1>5

\* A range that starts above the cursor lies outside the word or overlaps.
LEMMA SkippedOverlaps ==
  ASSUME WayInv, stage = "walk", origin = "tablegen", NEW i \in left, tokens[i].msb > cur
  PROVE  ~Disjoint
<1>1. /\ left \subseteq DOMAIN tokens /\ cur \in Int /\ Laid /\ width \in Nat
      /\ \A k \in DOMAIN tokens : tokens[k] \in AnyToken
  BY DEF WayInv, BookInv, FormInv, TypeOK, AnyToken, WidthsAdd, Laid, Ranged
<1>2. \A k \in DOMAIN tokens : /\ tokens[k].msb \in Nat /\ tokens[k].lsb \in Nat
                               /\ tokens[k].lsb <= tokens[k].msb
  BY <1>1, TokenForm
<1>3. CASE cur = width - 1
  <2>1. ~ (tokens[i].msb < width)
    BY <1>1, <1>2, <1>3
  <2> QED
    BY <1>1, <2>1 DEF Disjoint
<1>4. CASE \E p \in DOMAIN tokens \ left :
             cur = tokens[p].lsb - 1 /\ \A k \in left : tokens[k].msb <= tokens[p].msb
  <2>1. PICK p \in DOMAIN tokens \ left :
          cur = tokens[p].lsb - 1 /\ \A k \in left : tokens[k].msb <= tokens[p].msb
    BY <1>4
  <2>2. tokens[i].msb \in tokens[i].lsb .. tokens[i].msb
        /\ tokens[i].msb \in tokens[p].lsb .. tokens[p].msb
    BY <1>1, <1>2, <2>1
  <2>3. ~Apart(i, p) /\ i # p
    BY <2>2 DEF Apart, Range
  <2> QED
    BY <1>1, <2>1, <2>3 DEF Disjoint, Apart
<1> QED
  BY <1>1, <1>3, <1>4 DEF WayInv, PlaceInv, BitsWalk

\* The walk keeps every token at its place.
LEMMA WalkPlaces ==
  ASSUME WayInv, FormInv', PlaceRange \/ PlaceBits, layout' # layout \/ stage' # "done"
  PROVE  PlaceInv'
<1>0. /\ left \subseteq DOMAIN tokens /\ cur \in Int /\ cur' \in Int
      /\ \A k \in DOMAIN tokens : tokens[k] \in AnyToken
      /\ DOMAIN tokens = 1 .. Len(tokens)
  BY DEF WayInv, BookInv, FormInv, TypeOK, AnyToken
<1>1. \A k \in DOMAIN tokens : /\ tokens[k].msb \in Nat /\ tokens[k].lsb \in Nat
                               /\ tokens[k].lsb <= tokens[k].msb
  BY <1>0, TokenForm
<1>2. stage = "walk" /\ stage' = "walk" /\ UNCHANGED <<origin, tokens, width>> /\ FormInv
  BY Placing DEF WayInv, BookInv
<1>3. Laid /\ Laid' /\ width \in Nat
  BY <1>2 DEF WayInv, BookInv, FormInv, Fresh, Laid, Ranged, WidthsAdd
<1>d. Disjoint' <=> Disjoint
  BY <1>2 DEF Disjoint
<1>4. CASE origin = "riscv"
  <2>1. PICK i \in left : tokens[i].msb = cur /\ Grown(i) /\ left' = left \ {i}
    BY <1>2, <1>4, Placing
  <2>2. /\ SegmentsPlaced'
        /\ \A k \in DOMAIN tokens \ left : (\E j \in DOMAIN layout : PlacedAt(k, j)) =>
              \E j \in DOMAIN layout' : PlacedAt(k, j)'
        /\ \E j \in DOMAIN layout' : PlacedAt(i, j)'
    BY <1>2, <2>1, GrownPlaces
  <2>3. \A k \in DOMAIN tokens \ left : \E j \in DOMAIN layout : PlacedAt(k, j)
    BY <1>3, <1>4 DEF WayInv, PlaceInv, TokensPlaced
  <2>4. TokensPlaced'
    BY <1>2, <2>1, <2>2, <2>3 DEF TokensPlaced
  <2>5. /\ \A k \in DOMAIN tokens : tokens[k].msb < width
        /\ \A k \in DOMAIN tokens \ left : cur < tokens[k].lsb
        /\ \A k, j \in DOMAIN tokens \ left : k # j => Apart(k, j)
    BY <1>2, <1>3, <1>4 DEF WayInv, PlaceInv, LineWalk
  <2>6. cur' = tokens[i].lsb - 1
    BY <2>1 DEF Grown
  <2>7. \A k \in DOMAIN tokens \ left : Apart(k, i) /\ Apart(i, k)
    BY <1>0, <1>1, <2>1, <2>5 DEF Apart, Range
  <2>8. \A k \in DOMAIN tokens \ left' : k = i \/ k \in DOMAIN tokens \ left
    BY <2>1
  <2>9. \A k \in DOMAIN tokens \ left' : cur' < tokens[k].lsb
    BY <1>0, <1>1, <2>1, <2>5, <2>6, <2>8
  <2>10. \A k, j \in DOMAIN tokens \ left' : k # j => Apart(k, j)
    BY <2>5, <2>7, <2>8
  <2>11. \A k, j : Apart(k, j)' <=> Apart(k, j)
    BY <1>2 DEF Apart
  <2>12. LineWalk'
    BY <1>2, <2>5, <2>9, <2>10, <2>11 DEF LineWalk
  <2>13. BitsWalk'
    BY <1>2, <1>4 DEF BitsWalk
  <2> QED
    BY <2>2, <2>4, <2>12, <2>13 DEF PlaceInv
<1>5. CASE origin = "tablegen"
  <2>1. PICK i \in left :
          /\ left' = left \ {i} /\ \A j \in left \ {i} : tokens[j].msb <= tokens[i].msb
          /\ \/ tokens[i].msb <= cur /\ Grown(i)
             \/ tokens[i].msb > cur /\ layout' = layout /\ cur' = cur
    BY <1>2, <1>5, Placing
  <2>2. LineWalk'
    BY <1>2, <1>5 DEF LineWalk
  <2>3. \A k \in DOMAIN tokens \ left' : k = i \/ k \in DOMAIN tokens \ left
    BY <2>1
  <2>4. \A k \in DOMAIN tokens \ left : (\E j \in DOMAIN layout : PlacedAt(k, j)) \/ ~Disjoint
    BY <1>3 DEF WayInv, PlaceInv, TokensPlaced
  <2>5. CASE tokens[i].msb <= cur /\ Grown(i)
    <3>1. /\ SegmentsPlaced'
          /\ \A k \in DOMAIN tokens \ left : (\E j \in DOMAIN layout : PlacedAt(k, j)) =>
                \E j \in DOMAIN layout' : PlacedAt(k, j)'
          /\ \E j \in DOMAIN layout' : PlacedAt(i, j)'
      BY <1>2, <2>1, <2>5, GrownPlaces
    <3>2. TokensPlaced'
      BY <1>2, <1>5, <1>d, <2>3, <2>4, <3>1 DEF TokensPlaced
    <3>3. BitsWalk'
      BY <1>0, <1>2, <2>1, <2>5 DEF BitsWalk, Grown
    <3> QED
      BY <2>2, <3>1, <3>2, <3>3 DEF PlaceInv
  <2>6. CASE tokens[i].msb > cur /\ layout' = layout /\ cur' = cur
    <3>1. ~Disjoint
      BY <1>2, <1>5, <2>6, SkippedOverlaps
    <3>2. \A k, j : PlacedAt(k, j)' <=> PlacedAt(k, j)
      BY <1>2, <2>6 DEF PlacedAt, Base
    <3>3. SegmentsPlaced'
      BY <1>2, <1>3, <2>6, <3>2 DEF WayInv, PlaceInv, SegmentsPlaced, Constant
    <3>4. TokensPlaced'
      BY <1>2, <1>5, <1>d, <3>1 DEF TokensPlaced
    <3>5. BitsWalk'
      BY <1>2, <1>3, <2>1, <2>6 DEF WayInv, PlaceInv, BitsWalk
    <3> QED
      BY <2>2, <3>3, <3>4, <3>5 DEF PlaceInv
  <2> QED
    BY <2>1, <2>5, <2>6
<1> QED
  BY <1>4, <1>5, Placing DEF WayInv, BookInv

LEMMA InitWay == Init => WayInv
<1> SUFFICES ASSUME Init PROVE WayInv
  OBVIOUS
<1>1. BookInv /\ ~Laid
  BY InitBook DEF Init, Laid, Deciding
<1> QED
  BY <1>1 DEF WayInv, PlaceInv, SegmentsPlaced, TokensPlaced, LineWalk, BitsWalk

\* Every step keeps every token at its place.
LEMMA WayStep == WayInv /\ [Next]_vars => WayInv'
<1> SUFFICES ASSUME WayInv, [Next]_vars PROVE WayInv'
  OBVIOUS
<1>1. BookInv' /\ FormInv' /\ FormInv
  BY BookStep DEF WayInv, BookInv
<1>2. SUFFICES PlaceInv'
  BY <1>1 DEF WayInv
<1>n. ~Laid' => PlaceInv'
  BY DEF PlaceInv, SegmentsPlaced, TokensPlaced, LineWalk, BitsWalk
<1>3. CASE ReadRange \/ RefuseLine \/ ListField \/ EndFields
  <2>1. ~Laid'
    BY <1>1, <1>3
    DEF ReadRange, RefuseLine, ListField, EndFields, Finish, Laid, Deciding, Ranged, FormInv, Fresh
  <2> QED
    BY <1>n, <2>1
<1>4. CASE SortLine \/ SortBits
  <2>1. CASE stage' = "done"
    <3>1. ~Laid'
      BY <1>4, <2>1 DEF SortLine, SortBits, Finish, Laid, Deciding
    <3> QED
      BY <1>n, <3>1
  <2>2. CASE stage' # "done"
    <3>1. /\ layout' = << >> /\ left' = DOMAIN tokens /\ tokens' = tokens /\ origin' = origin
          /\ stage' = "walk"
      BY <1>1, <1>4, <2>2 DEF SortLine, SortBits, Finish, FormInv, Fresh, Ranged
    <3>2. DOMAIN layout' = {}
      BY <3>1
    <3>3. SegmentsPlaced' /\ TokensPlaced'
      BY <3>1, <3>2 DEF SegmentsPlaced, TokensPlaced
    <3>4. LineWalk'
      <4>1. CASE SortBits
        BY <4>1 DEF SortBits, LineWalk
      <4>2. CASE SortLine
        <5>1. \A i \in DOMAIN tokens : tokens[i].msb \in Nat
          BY <1>1, TokenForm DEF FormInv, TypeOK, AnyToken
        <5>2. \A i \in DOMAIN tokens : tokens[i].msb < width'
          BY <4>2, <5>1 DEF SortLine
        <5> QED
          BY <3>1, <5>2 DEF LineWalk
      <4> QED
        BY <1>4, <4>1, <4>2
    <3>5. BitsWalk'
      BY <1>4, <2>2 DEF SortLine, SortBits, Finish, BitsWalk
    <3> QED
      BY <3>3, <3>4, <3>5 DEF PlaceInv
  <2> QED
    BY <2>1, <2>2
<1>5. CASE PlaceRange \/ PlaceBits
  <2>1. CASE stage' = "done"
    <3>1. ~Laid'
      BY <1>1, <1>5, <2>1
      DEF PlaceRange, PlaceBits, Finish, Laid, Deciding, FormInv, Fresh
    <3> QED
      BY <1>n, <3>1
  <2>2. CASE stage' # "done"
    BY <1>1, <1>5, <2>2, WalkPlaces
  <2> QED
    BY <2>1, <2>2
<1>6. CASE EndLine
  <2>1. CASE stage' = "done"
    <3>1. ~Laid'
      BY <1>6, <2>1 DEF EndLine, Finish, Laid, Deciding
    <3> QED
      BY <1>n, <3>1
  <2>2. CASE stage' # "done"
    <3>1. /\ stage = "walk" /\ stage' = "emit" /\ cur = -1 /\ left = {} /\ origin = "riscv"
          /\ UNCHANGED <<origin, tokens, left, cur, layout, width>>
      BY <1>6, <2>2 DEF EndLine, Finish
    <3>2. Laid /\ Base' = Base
      BY <3>1 DEF Laid, Ranged, Base
    <3>3. \A i, j : (PlacedAt(i, j)' <=> PlacedAt(i, j)) /\ (Apart(i, j)' <=> Apart(i, j))
      BY <3>1, <3>2 DEF PlacedAt, Apart
    <3>4. SegmentsPlaced' /\ TokensPlaced'
      BY <3>1, <3>2, <3>3 DEF WayInv, PlaceInv, SegmentsPlaced, TokensPlaced, Constant
    <3>5. LineWalk' /\ BitsWalk'
      BY <3>1, <3>2, <3>3 DEF WayInv, PlaceInv, LineWalk, BitsWalk
    <3> QED
      BY <3>4, <3>5 DEF PlaceInv
  <2> QED
    BY <2>1, <2>2
<1>7. CASE EndBits
  <2>1. /\ stage = "walk" /\ stage' = "emit" /\ origin = "tablegen" /\ left = {}
        /\ UNCHANGED <<origin, tokens, left, cur, width>> /\ layout' = layout \o Gap(-1)
    BY <1>7 DEF EndBits
  <2>2. /\ Known(layout) /\ -1 \in -1 .. MaxBit /\ -1 <= cur /\ cur \in Int /\ TypeOK
        /\ layout \in Seq(Segment) /\ DOMAIN layout = 1 .. Len(layout) /\ Len(layout) \in Nat
    BY <1>1, <2>1, LayoutKnown DEF FormInv, TypeOK
  <2>3. /\ Known(layout') /\ Len(layout') >= Len(layout)
        /\ \A j \in 1 .. Len(layout) : layout'[j] = layout[j]
        /\ \A j \in Len(layout) + 1 .. Len(layout') : layout'[j].kind = "var"
        /\ \A j \in 1 .. Len(layout) + 1 :
             WidthFrom(layout', j) = WidthFrom(layout, j) + cur - (-1)
    BY <2>1, <2>2, GapWidths
  <2>4. DOMAIN layout' = 1 .. Len(layout') /\ Len(layout') \in Nat
    BY <2>3 DEF Known
  <2>5. Laid /\ Base = cur + 1 /\ Base' = 0
    BY <2>1 DEF Laid, Ranged, Base
  <2>6. ASSUME NEW k \in DOMAIN tokens, NEW j \in DOMAIN layout, PlacedAt(k, j)
        PROVE  PlacedAt(k, j)' /\ j \in DOMAIN layout'
    <3>1. j + 1 \in 1 .. Len(layout) + 1 /\ j + 1 \in Nat \ {0} /\ j \in DOMAIN layout'
      BY <2>2, <2>3, <2>4
    <3>2. WidthFrom(layout', j + 1) = WidthFrom(layout, j + 1) + cur - (-1)
          /\ WidthFrom(layout, j + 1) \in Nat /\ layout'[j] = layout[j]
      BY <2>2, <2>3, <3>1, WidthFromNat
    <3>3. Base' + WidthFrom(layout', j + 1) = Base + WidthFrom(layout, j + 1)
      BY <2>2, <2>5, <3>2
    <3> QED
      BY <2>1, <2>6, <3>1, <3>2, <3>3, PlacesKept DEF WayInv
  <2>7. SegmentsPlaced'
    <3>1. SUFFICES ASSUME NEW j \in DOMAIN layout', layout'[j].kind = "fixed"
                   PROVE  \E k \in DOMAIN tokens' : Constant(k)' /\ PlacedAt(k, j)'
      BY DEF SegmentsPlaced
    <3>2. j \in 1 .. Len(layout)
      BY <2>2, <2>3, <2>4, <3>1
    <3>3. PICK k \in DOMAIN tokens : Constant(k) /\ PlacedAt(k, j)
      BY <2>2, <2>3, <2>5, <3>1, <3>2 DEF WayInv, PlaceInv, SegmentsPlaced
    <3> QED
      BY <2>1, <2>2, <2>6, <3>2, <3>3 DEF Constant
  <2>8. TokensPlaced'
    <3>1. Disjoint' <=> Disjoint
      BY <2>1 DEF Disjoint
    <3> QED
      BY <2>1, <2>5, <2>6, <3>1 DEF WayInv, PlaceInv, TokensPlaced
  <2>9. LineWalk' /\ BitsWalk'
    BY <2>1, <2>5 DEF WayInv, PlaceInv, LineWalk, BitsWalk
  <2> QED
    BY <2>7, <2>8, <2>9 DEF PlaceInv
<1>8. CASE emit_encoding \/ decode_signature \/ UNCHANGED vars
  <2>1. layout' = layout
    BY <1>1, <1>8, EmitKeeps
    DEF decode_signature, DecodeVariable, DecodeBegin, DecodeSegment, DecodeEnd, vars
  <2>2. UNCHANGED <<origin, tokens, left, cur, width>>
    BY <1>8
    DEF emit_encoding, decode_signature, DecodeVariable, DecodeBegin, DecodeSegment,
        DecodeEnd, vars
  <2>3. Laid' => Laid /\ (stage = "walk" <=> stage' = "walk")
    BY <1>1, <1>8
    DEF emit_encoding, decode_signature, DecodeVariable, DecodeBegin, DecodeSegment,
        DecodeEnd, Schematic, Finish, vars, Laid, Deciding, Ranged, FormInv, Fresh
  <2> QED
    BY <2>1, <2>2, <2>3, PlaceFrame DEF WayInv
<1> QED
  BY <1>3, <1>4, <1>5, <1>6, <1>7, <1>8 DEF Next, _parse_line, _layout_from_bits

\* In every reachable state the segments lie where the ranges of the definition put
\* them, and each range already placed has its segment.
THEOREM WayInvariant == Spec => []WayInv
  BY InitWay, WayStep, PTL DEF Spec

\* Two segments of a layout do not overlap.
LEMMA SegmentsApart ==
  ASSUME BookInv, result = "exact", NEW j \in DOMAIN layout, NEW k \in DOMAIN layout, j # k
  PROVE  \/ WidthFrom(layout, j + 1) >= WidthFrom(layout, k + 1) + layout[k].width
         \/ WidthFrom(layout, k + 1) >= WidthFrom(layout, j + 1) + layout[j].width
<1>1. layout \in Seq(Segment) /\ DOMAIN layout = 1 .. Len(layout) /\ Len(layout) \in Nat
  BY DEF BookInv, FormInv, TypeOK
<1>2. ASSUME NEW a \in 1 .. Len(layout), NEW c \in 1 .. Len(layout), a < c
      PROVE  WidthFrom(layout, a + 1) >= WidthFrom(layout, c + 1) + layout[c].width
  <2>1. a + 1 \in Nat \ {0} /\ c \in a + 1 .. Len(layout) + 1 /\ c + 1 \in Nat \ {0} /\ c \in Nat \ {0}
    BY <1>1, <1>2
  <2>2. WidthFrom(layout, c) <= WidthFrom(layout, a + 1)
    BY <1>1, <2>1, WidthFromOrder
  <2>3. WidthFrom(layout, c) = layout[c].width + WidthFrom(layout, c + 1)
    BY <1>1, WidthFromSplit
  <2>4. /\ WidthFrom(layout, c) \in Nat /\ WidthFrom(layout, a + 1) \in Nat
        /\ WidthFrom(layout, c + 1) \in Nat /\ layout[c].width \in Nat
    BY <1>1, <2>1, WidthFromNat, SegmentWidths
  <2> QED
    BY <2>2, <2>3, <2>4
<1> QED
  BY <1>1, <1>2

\* The signature of a RISC-V line or of a TableGen definition is that of its bit
\* ranges: it accepts every word that has the constants at the positions the bank
\* gives, and no other where the ranges are disjoint, as those of an accepted
\* RISC-V line always are.
THEOREM SignatureTrue == Spec => []SignatureFaithful
<1> DEFINE F(j) == WidthFrom(layout, j + 1)
           L(i) == tokens[i].msb - tokens[i].lsb + 1
           V(i) == Low(tokens[i].bits, L(i))
<1>1. ASSUME WayInv, result = "exact", Ranged PROVE SignatureFaithful
  <2>1. /\ TypeOK /\ Laid /\ stage = "done" /\ Base = 0 /\ left = {}
        /\ \A i \in DOMAIN tokens : tokens[i] \in AnyToken
    BY <1>1 DEF WayInv, BookInv, FormInv, TypeOK, Fresh, Laid, Deciding, Base, AnyToken,
                Ranged, PlaceInv, LineWalk, BitsWalk
  <2>2. width \in Nat /\ instr_width = width
    BY <1>1, <2>1 DEF WayInv, BookInv, WidthsAdd, instr_width
  <2>3. /\ DOMAIN layout = 1 .. Len(layout)
        /\ \A j \in DOMAIN layout : layout[j].width \in Nat /\ F(j) \in Nat /\ SegOK(layout[j])
                                    /\ layout[j].bits \subseteq 0 .. layout[j].width - 1
        /\ \A b : b \in mask <=> \E j \in DOMAIN layout :
             layout[j].kind = "fixed" /\ b \in F(j) .. F(j) + layout[j].width - 1
        /\ \A b : b \in match <=> \E j \in DOMAIN layout :
             layout[j].kind = "fixed" /\ b \in Int /\ b - F(j) \in layout[j].bits
    BY <1>1, ExactMeans DEF WayInv, SegOK
  <2>4. \A j, k \in DOMAIN layout : j # k =>
          F(j) >= F(k) + layout[k].width \/ F(k) >= F(j) + layout[j].width
    BY <1>1, SegmentsApart DEF WayInv
  <2> HIDE DEF F
  <2>5. ASSUME NEW i \in DOMAIN tokens, Constant(i), NEW j \in DOMAIN layout, PlacedAt(i, j)
        PROVE  /\ tokens[i].lsb = F(j) /\ layout[j].kind = "fixed"
               /\ Range(tokens[i].msb, tokens[i].lsb) = F(j) .. F(j) + layout[j].width - 1
               /\ \A b : b \in Shift(V(i), tokens[i].lsb) <=> b \in Int /\ b - F(j) \in layout[j].bits
    <3>1. /\ tokens[i].msb \in Nat /\ tokens[i].lsb \in Nat /\ tokens[i].bits \subseteq Nat
          /\ tokens[i].kind = "fixed"
      BY <2>1, <2>5, TokenForm DEF Constant
    <3>2. tokens[i].lsb = F(j)
      BY <2>1, <2>3, <2>5 DEF PlacedAt, F
    <3>3. layout[j].width = L(i) /\ layout[j].kind = "fixed" /\ layout[j].bits = V(i)
      BY <2>1, <2>5, <3>1, SegmentForm DEF PlacedAt
    <3>4. V(i) \subseteq Int
      BY <3>1 DEF Low
    <3>5. Range(tokens[i].msb, tokens[i].lsb) = F(j) .. F(j) + layout[j].width - 1
      BY <3>1, <3>2, <3>3 DEF Range
    <3> HIDE DEF V
    <3>6. \A b : b \in Shift(V(i), tokens[i].lsb) <=> b \in Int /\ b - tokens[i].lsb \in V(i)
      BY <3>1, <3>4, ShiftIn
    <3> QED
      BY <3>2, <3>3, <3>5, <3>6 DEF V
  <2>6. ASSUME NEW word \in Defined PROVE word \in Decoded
    <3>1. \A i \in DOMAIN tokens : Constant(i) =>
            word \cap Range(tokens[i].msb, tokens[i].lsb) = Shift(V(i), tokens[i].lsb)
      BY DEF Defined, Agrees
    <3>2. ASSUME NEW j \in DOMAIN layout, layout[j].kind = "fixed",
                 NEW b \in F(j) .. F(j) + layout[j].width - 1
          PROVE  b \in word <=> b - F(j) \in layout[j].bits
      <4>1. PICK i \in DOMAIN tokens : Constant(i) /\ PlacedAt(i, j)
        BY <1>1, <2>1, <3>2 DEF WayInv, PlaceInv, SegmentsPlaced
      <4>2. b \in Int
        BY <2>3
      <4> HIDE DEF V
      <4> QED
        BY <2>5, <3>1, <4>1, <4>2
    <3>3. ASSUME NEW j \in DOMAIN layout, NEW b \in Int, b - F(j) \in layout[j].bits
          PROVE  b \in F(j) .. F(j) + layout[j].width - 1
      <4>1. b - F(j) \in 0 .. layout[j].width - 1
        BY <2>3, <3>3
      <4> QED
        BY <2>3, <4>1
    <3>4. \A b : b \in word \cap mask => b \in match
      BY <2>3, <3>2
    <3>5. \A b : b \in match => b \in word \cap mask
      BY <2>3, <3>2, <3>3
    <3>6. word \in Word
      BY DEF Defined
    <3> QED
      BY <3>4, <3>5, <3>6 DEF Decoded
  <2>7. ASSUME Disjoint, NEW word \in Decoded PROVE word \in Defined
    <3>1. word \in Word /\ word \cap mask = match
      BY DEF Decoded
    <3>2. ASSUME NEW i \in DOMAIN tokens, Constant(i) PROVE Agrees(word, tokens[i])
      <4>1. PICK j \in DOMAIN layout : PlacedAt(i, j)
        BY <1>1, <2>1, <2>7 DEF WayInv, PlaceInv, TokensPlaced
      <4>2. /\ Range(tokens[i].msb, tokens[i].lsb) = F(j) .. F(j) + layout[j].width - 1
            /\ \A b : b \in Shift(V(i), tokens[i].lsb) <=> b \in Int /\ b - F(j) \in layout[j].bits
            /\ layout[j].kind = "fixed"
        BY <2>5, <3>2, <4>1
      <4>3. ASSUME NEW b \in F(j) .. F(j) + layout[j].width - 1
            PROVE  b \in word <=> b - F(j) \in layout[j].bits
        <5>1. b \in mask /\ b \in Int
          BY <2>3, <4>2
        <5>2. b \in word <=> b \in match
          BY <3>1, <5>1
        <5>3. ASSUME NEW k \in DOMAIN layout, b - F(k) \in layout[k].bits PROVE k = j
          <6>1. b - F(k) \in 0 .. layout[k].width - 1
            BY <2>3, <5>3
          <6>2. b \in F(k) .. F(k) + layout[k].width - 1
            <7>1. b \in Int /\ F(k) \in Nat /\ layout[k].width \in Nat
              BY <2>3, <5>1
            <7> QED
              BY <6>1, <7>1
          <6>3. /\ layout[k].width \in Nat /\ F(k) \in Nat
                /\ layout[j].width \in Nat /\ F(j) \in Nat
            BY <2>3
          <6>4. /\ ~ (F(j) >= F(k) + layout[k].width)
                /\ ~ (F(k) >= F(j) + layout[j].width)
            BY <4>3, <6>2, <6>3
          <6> QED
            BY <2>4, <6>4
        <5>4. b \in match <=> b - F(j) \in layout[j].bits
          BY <2>3, <4>2, <5>1, <5>3
        <5> QED
          BY <5>2, <5>4
      <4>4. ASSUME NEW b \in Int, b - F(j) \in layout[j].bits
            PROVE  b \in F(j) .. F(j) + layout[j].width - 1
        <5>1. b - F(j) \in 0 .. layout[j].width - 1
          BY <2>3, <4>4
        <5> QED
          BY <2>3, <5>1
      <4>5. \A b \in F(j) .. F(j) + layout[j].width - 1 : b \in Int
        BY <2>3
      <4> HIDE DEF V
      <4>6. word \cap Range(tokens[i].msb, tokens[i].lsb) = Shift(V(i), tokens[i].lsb)
        BY <4>2, <4>3, <4>4, <4>5
      <4> QED
        BY <4>6 DEF Agrees, V
    <3> QED
      BY <3>1, <3>2 DEF Defined
  <2>8. origin = "riscv" => Disjoint
    BY <1>1, <2>1 DEF WayInv, PlaceInv, LineWalk, Disjoint, Apart
  <2> QED
    BY <2>6, <2>7, <2>8 DEF SignatureFaithful
<1>2. WayInv => SignatureFaithful
  BY <1>1 DEF SignatureFaithful, Ranged
<1> QED
  BY <1>2, WayInvariant, PTL

============================================================================
