------------------------------- MODULE PCode -------------------------------
(***************************************************************************)
(* One instruction definition on its way from a bank to its decode         *)
(* signature: the bit-range parsers (parsers/riscv_opcodes.py              *)
(* `_parse_line`, parsers/tablegen.py `_layout_from_bits`), the parsers    *)
(* that list their fields MSB-first (asmjit, source-scan, the byte         *)
(* tables), the emitter (pcode/emitter.py), the reader's view of the       *)
(* emitted text (pcode/sexpr.py) and the decoder (pcode/decoder.py).       *)
(*                                                                         *)
(* A bit string is the set of its one bits; bit 0 is the least             *)
(* significant. The width is computed or checked four times along the way: *)
(* by the parser, by the emitter, by the literals of the text and by the   *)
(* decoder.                                                                *)
(***************************************************************************)
EXTENDS Integers, Sequences

CONSTANTS
  W,          \* instruction width of the fixed-width banks (32)
  MaxBit,     \* highest bit number a definition names
  Value,      \* constants a definition assigns, as sets of one bits
  Variable,   \* the width token "variable"
  MaxTokens,  \* bound: pieces of one definition
  Origins     \* how the definition comes in: see Origin

Origin == {"riscv", "tablegen", "listed", "prebuilt"}

ASSUME PCodeAssumption ==
  /\ W \in Nat \ {0} /\ MaxBit \in Nat /\ MaxTokens \in Nat
  /\ Value \subseteq SUBSET Nat
  /\ Variable \notin Int
  /\ Origins \subseteq Origin

VARIABLES
  origin,  \* the parser at work
  tokens,  \* bit ranges in the order of the text
  left,    \* positions of the ranges the walk has still to place
  cur,     \* the walk's cursor: highest bit not yet covered
  layout,  \* MSB-first segments
  width,   \* RawRecord.width
  wtok,    \* the width token of the text
  stage,   \* "read", "walk", "emit", "decode" or "done"
  n, top,  \* decode_signature: segments seen, bits left below them
  mask, match,
  result   \* "none", "skipped", "rejected", "schematic" or "exact"

vars == <<origin, tokens, left, cur, layout, width, wtok, stage, n, top, mask,
          match, result>>

----------------------------------------------------------------------------

\* The low w bits of an integer, and an integer shifted left by k.
Low(bits, w) == {b \in bits : b < w}
Shift(bits, k) == {b + k : b \in bits}
ones(w) == 0 .. w - 1

\* Fixed masks the value it is given to its width.
Fixed(w, bits) == [kind |-> "fixed", width |-> w, bits |-> Low(bits, w)]
Operand(w) == [kind |-> "var", width |-> w, bits |-> {}]
Unknown == [kind |-> "unknown", width |-> 0, bits |-> {}]

\* What the reader makes of the literal written for a constant: #x has four bits
\* for each digit and is only used when they come out even; #b has one.
const_literal(w, bits) ==
  LET read == IF w % 4 = 0 THEN 4 * (w \div 4) ELSE w
  IN  [kind |-> "fixed", width |-> read, bits |-> Low(bits, w)]

\* A segment as the decoder finds it in the text.
_render_seg(seg) ==
  IF seg.kind = "fixed" THEN const_literal(seg.width, seg.bits) ELSE seg

\* Sum of the widths of segments i .. Len(segs).
WidthFrom(segs, i) ==
  LET sum[k \in 0 .. Len(segs)] ==
        IF k < i THEN 0 ELSE sum[k - 1] + segs[k].width
  IN  sum[Len(segs)]

TotalWidth(segs) == WidthFrom(segs, 1)

Range(msb, lsb) == lsb .. msb
Ranges == {r \in (0 .. MaxBit) \X (0 .. MaxBit) : r[2] <= r[1]}

Token(kind, m, l, bits) == [kind |-> kind, msb |-> m, lsb |-> l, bits |-> bits]

FixedTokens == {Token("fixed", r[1], r[2], v) : r \in Ranges, v \in Value}
SlotTokens == {Token("var", r[1], r[2], {}) : r \in Ranges}

\* hi..lo missing, not a number, or an operand that arg_lut.csv does not place.
BadToken == Token("bad", 0, 0, {})

SegmentOf(t) ==
  IF t.kind = "fixed" THEN Fixed(t.msb - t.lsb + 1, t.bits)
                      ELSE Operand(t.msb - t.lsb + 1)

\* list.sort(key=msb, reverse=True) is stable; _parse_line appends its operands
\* after its constants.
Precedes(i, j) ==
  LET a == tokens[i] b == tokens[j]
  IN  \/ a.msb > b.msb
      \/ /\ a.msb = b.msb
         /\ \/ a.kind = "fixed" /\ b.kind # "fixed"
            \/ a.kind = b.kind /\ i < j

Leftmost(i) == i \in left /\ \A j \in left \ {i} : Precedes(i, j)

Finish(r) == stage' = "done" /\ result' = r

----------------------------------------------------------------------------

Init ==
  /\ origin \in Origins
  /\ tokens = << >> /\ left = {} /\ cur = -1
  /\ layout = << >>
  /\ width = Variable /\ wtok = Variable
  /\ stage = "read" /\ result = "none"
  /\ n = 0 /\ top = 0
  /\ mask = {} /\ match = {}

decoding == <<n, top, mask, match>>

\* _parse_line, _layout_from_bits: the next bit range of the definition.
ReadRange ==
  /\ stage = "read" /\ Len(tokens) < MaxTokens
  /\ \E t \in CASE origin = "riscv" -> FixedTokens \cup SlotTokens \cup {BadToken}
                [] origin = "tablegen" -> FixedTokens
                [] OTHER -> {} :
       tokens' = Append(tokens, t)
  /\ UNCHANGED <<origin, left, cur, layout, width, wtok, stage, decoding, result>>

\* asmjit, source-scan and the byte tables list the fields from the top.
ListField ==
  /\ stage = "read" /\ Len(layout) < MaxTokens
  /\ \E w \in 1 .. MaxBit + 1, v \in Value :
       \/ /\ origin \in {"listed", "prebuilt"}
          /\ \E seg \in {Fixed(w, v), Operand(w)} : layout' = Append(layout, seg)
       \/ origin = "prebuilt" /\ layout' = Append(layout, Unknown)
  /\ UNCHANGED <<origin, tokens, left, cur, width, wtok, stage, decoding, result>>

\* _parse_line: nothing to place, or a token it cannot place.
RefuseLine ==
  /\ stage = "read" /\ origin = "riscv"
  /\ tokens = << >> \/ \E i \in DOMAIN tokens : tokens[i].kind = "bad"
  /\ Finish("skipped")
  /\ UNCHANGED <<origin, tokens, left, cur, layout, width, wtok, decoding>>

\* _parse_line: the width is what the topmost range says.
SortLine ==
  /\ stage = "read" /\ origin = "riscv" /\ tokens # << >>
  /\ \A i \in DOMAIN tokens : tokens[i].kind # "bad"
  /\ stage' = "walk"
  /\ left' = DOMAIN tokens
  /\ \E i \in DOMAIN tokens :
       /\ \A j \in DOMAIN tokens : tokens[j].msb <= tokens[i].msb
       /\ width' = tokens[i].msb + 1
       /\ cur' = tokens[i].msb
  /\ UNCHANGED <<origin, tokens, layout, wtok, decoding, result>>

\* Mutant of PlaceRange: an overlap passes, only gaps are found.
PlaceOverlapping ==
  /\ stage = "walk" /\ origin = "riscv"
  /\ \E i \in left :
       /\ Leftmost(i)
       /\ \/ /\ tokens[i].msb >= cur
             /\ left' = left \ {i}
             /\ layout' = Append(layout, SegmentOf(tokens[i]))
             /\ cur' = tokens[i].lsb - 1
             /\ UNCHANGED <<stage, result>>
          \/ /\ tokens[i].msb < cur
             /\ Finish("skipped")
             /\ UNCHANGED <<left, layout, cur>>
  /\ UNCHANGED <<origin, tokens, width, wtok, decoding>>

\* _parse_line: a range goes exactly below the one before it, or the line is
\* malformed.
PlaceRange ==
  /\ stage = "walk" /\ origin = "riscv"
  /\ \E i \in left :
       /\ Leftmost(i)
       /\ \/ /\ tokens[i].msb = cur
             /\ left' = left \ {i}
             /\ layout' = Append(layout, SegmentOf(tokens[i]))
             /\ cur' = tokens[i].lsb - 1
             /\ UNCHANGED <<stage, result>>
          \/ /\ tokens[i].msb # cur
             /\ Finish("skipped")
             /\ UNCHANGED <<left, layout, cur>>
  /\ UNCHANGED <<origin, tokens, width, wtok, decoding>>

\* _parse_line: all placed; the low bits must be covered too.
EndLine ==
  /\ stage = "walk" /\ origin = "riscv" /\ left = {}
  /\ \/ cur = -1 /\ stage' = "emit" /\ UNCHANGED result
     \/ cur # -1 /\ Finish("skipped")
  /\ UNCHANGED <<origin, tokens, left, cur, layout, width, wtok, decoding>>

\* _layout_from_bits: the instruction is W bits wide whatever it assigns.
SortBits ==
  /\ stage = "read" /\ origin = "tablegen"
  /\ \/ tokens = << >> /\ Finish("skipped") /\ UNCHANGED <<left, cur, width>>
     \/ /\ tokens # << >>
        /\ stage' = "walk"
        /\ left' = DOMAIN tokens
        /\ cur' = W - 1
        /\ width' = W
        /\ UNCHANGED result
  /\ UNCHANGED <<origin, tokens, layout, wtok, decoding>>

\* Operand for the bits between the cursor and bit b, if any.
Gap(b) == IF b < cur THEN <<Operand(cur - b)>> ELSE << >>

\* Mutant of PlaceBits: the gap is put below the range, not above it.
PlaceBitsGapAfter ==
  /\ stage = "walk" /\ origin = "tablegen"
  /\ \E i \in left :
       /\ Leftmost(i)
       /\ left' = left \ {i}
       /\ \/ /\ tokens[i].msb <= cur
             /\ layout' = layout \o <<SegmentOf(tokens[i])>> \o Gap(tokens[i].msb)
             /\ cur' = tokens[i].lsb - 1
          \/ tokens[i].msb > cur /\ UNCHANGED <<layout, cur>>
  /\ UNCHANGED <<origin, tokens, width, wtok, stage, decoding, result>>

\* _layout_from_bits: bits nobody assigns become an operand; a range that starts
\* above the cursor is left out.
PlaceBits ==
  /\ stage = "walk" /\ origin = "tablegen"
  /\ \E i \in left :
       /\ Leftmost(i)
       /\ left' = left \ {i}
       /\ \/ /\ tokens[i].msb <= cur
             /\ layout' = layout \o Gap(tokens[i].msb) \o <<SegmentOf(tokens[i])>>
             /\ cur' = tokens[i].lsb - 1
          \/ tokens[i].msb > cur /\ UNCHANGED <<layout, cur>>
  /\ UNCHANGED <<origin, tokens, width, wtok, stage, decoding, result>>

\* _layout_from_bits: the bits below the last range.
EndBits ==
  /\ stage = "walk" /\ origin = "tablegen" /\ left = {}
  /\ stage' = "emit"
  /\ layout' = layout \o Gap(-1)
  /\ UNCHANGED <<origin, tokens, left, cur, width, wtok, decoding, result>>

\* A listed layout is W bits wide by decree, or "variable". A text comes with a
\* width token of its own, which the record's width may contradict.
EndFields ==
  /\ stage = "read" /\ origin \in {"listed", "prebuilt"}
  /\ \/ layout = << >> /\ Finish("rejected") /\ UNCHANGED <<width, wtok>>
     \/ /\ layout # << >>
        /\ stage' = "emit"
        /\ width' \in {W, Variable}
        /\ IF origin = "prebuilt" THEN wtok' \in (1 .. W) \cup {Variable}
                                  ELSE UNCHANGED wtok
        /\ UNCHANGED result
  /\ UNCHANGED <<origin, tokens, left, cur, layout, decoding>>

\* _encoding: emit_encoding raises ValueError, and normalize rejects the record,
\* unless an integer width is the sum of the fields. A text is taken as it is.
emit_encoding ==
  /\ stage = "emit"
  /\ \/ /\ origin # "prebuilt" /\ width # Variable /\ TotalWidth(layout) # width
        /\ Finish("rejected")
        /\ UNCHANGED <<layout, wtok>>
     \/ /\ \/ origin = "prebuilt" /\ UNCHANGED <<layout, wtok>>
           \/ /\ origin # "prebuilt"
              /\ width = Variable \/ TotalWidth(layout) = width
              /\ layout' = [i \in DOMAIN layout |-> _render_seg(layout[i])]
              /\ wtok' = width
        /\ stage' = "decode"
        /\ UNCHANGED result
  /\ UNCHANGED <<origin, tokens, left, cur, width, decoding>>

\* decode_signature: the record's width goes before the text's own.
instr_width == IF width # Variable THEN width ELSE wtok

Schematic == Finish("schematic") /\ mask' = {} /\ match' = {}

\* decode_signature: no integer width anywhere.
DecodeVariable ==
  /\ stage = "decode" /\ instr_width = Variable
  /\ Schematic
  /\ UNCHANGED <<origin, tokens, left, cur, layout, width, wtok, n, top>>

\* decode_signature: the walk starts at the top.
DecodeBegin ==
  /\ stage = "decode" /\ instr_width # Variable
  /\ stage' = "segments"
  /\ top' = instr_width
  /\ UNCHANGED <<origin, tokens, left, cur, layout, width, wtok, n, mask, match,
                 result>>

\* Mutant of DecodeSegment: the match is placed at the segment's upper end.
DecodeSegmentHigh ==
  /\ stage = "segments" /\ n < Len(layout)
  /\ LET seg == layout[n + 1]
         lo == top - seg.width
     IN  \/ /\ seg.kind = "unknown" \/ lo < 0
            /\ Schematic
            /\ UNCHANGED <<n, top>>
         \/ /\ seg.kind # "unknown" /\ lo >= 0
            /\ n' = n + 1
            /\ top' = lo
            /\ mask' = mask \cup Shift(IF seg.kind = "fixed" THEN ones(seg.width)
                                                             ELSE {}, lo)
            /\ match' = match \cup Shift(Low(seg.bits, seg.width), lo + 1)
            /\ UNCHANGED <<stage, result>>
  /\ UNCHANGED <<origin, tokens, left, cur, layout, width, wtok>>

\* decode_signature: one segment; an unknown width or one past the bottom ends
\* the walk.
DecodeSegment ==
  /\ stage = "segments" /\ n < Len(layout)
  /\ LET seg == layout[n + 1]
         lo == top - seg.width
     IN  \/ /\ seg.kind = "unknown" \/ lo < 0
            /\ Schematic
            /\ UNCHANGED <<n, top>>
         \/ /\ seg.kind # "unknown" /\ lo >= 0
            /\ n' = n + 1
            /\ top' = lo
            /\ mask' = mask \cup Shift(IF seg.kind = "fixed" THEN ones(seg.width)
                                                             ELSE {}, lo)
            /\ match' = match \cup Shift(Low(seg.bits, seg.width), lo)
            /\ UNCHANGED <<stage, result>>
  /\ UNCHANGED <<origin, tokens, left, cur, layout, width, wtok>>

\* Mutant of DecodeEnd: bits left over at the bottom are taken as don't-care.
DecodeEndLoose ==
  /\ stage = "segments" /\ n = Len(layout)
  /\ Finish("exact") /\ UNCHANGED <<mask, match>>
  /\ UNCHANGED <<origin, tokens, left, cur, layout, width, wtok, n, top>>

\* decode_signature: the segments must account for every bit. accounted is
\* instr_width - top.
DecodeEnd ==
  /\ stage = "segments" /\ n = Len(layout)
  /\ \/ top = 0 /\ Finish("exact") /\ UNCHANGED <<mask, match>>
     \/ top # 0 /\ Schematic
  /\ UNCHANGED <<origin, tokens, left, cur, layout, width, wtok, n, top>>

_parse_line == ReadRange \/ RefuseLine \/ SortLine \/ PlaceRange \/ EndLine
_layout_from_bits == SortBits \/ PlaceBits \/ EndBits
decode_signature == DecodeVariable \/ DecodeBegin \/ DecodeSegment \/ DecodeEnd

Next ==
  \/ _parse_line \/ _layout_from_bits
  \/ ListField \/ EndFields
  \/ emit_encoding
  \/ decode_signature

Spec == Init /\ [][Next]_vars

----------------------------------------------------------------------------
(***************************************************************************)
(* Properties.                                                             *)
(***************************************************************************)

Segment == [kind : {"fixed", "var", "unknown"}, width : Nat, bits : SUBSET Nat]

\* Every variable has its type, and no bit number is negative.
TypeOK ==
  /\ origin \in Origins
  /\ tokens \in Seq(FixedTokens \cup SlotTokens \cup {BadToken})
  /\ left \subseteq DOMAIN tokens
  /\ cur \in -1 .. (IF W > MaxBit THEN W - 1 ELSE MaxBit)
  /\ layout \in Seq(Segment)
  /\ width \in Nat \cup {Variable} /\ wtok \in Nat \cup {Variable}
  /\ stage \in {"read", "walk", "emit", "decode", "segments", "done"}
  /\ n \in 0 .. Len(layout)
  /\ top \in Nat
  /\ mask \subseteq Nat /\ match \subseteq mask
  /\ result \in {"none", "skipped", "rejected", "schematic", "exact"}

Word == SUBSET (0 .. width - 1)

\* A word has, in a token's range, the bits the token assigns.
Agrees(word, t) ==
  word \cap Range(t.msb, t.lsb) = Shift(Low(t.bits, t.msb - t.lsb + 1), t.lsb)

Constant(i) == tokens[i].kind = "fixed"

Defined == {word \in Word : \A i \in DOMAIN tokens :
                              Constant(i) => Agrees(word, tokens[i])}
Decoded == {word \in Word : word \cap mask = match}

Disjoint ==
  /\ \A i \in DOMAIN tokens : tokens[i].msb < width
  /\ \A i, j \in DOMAIN tokens :
       i # j => Range(tokens[i].msb, tokens[i].lsb)
                  \cap Range(tokens[j].msb, tokens[j].lsb) = {}

\* The signature of a definition made of bit ranges recognises every word the
\* definition allows, and no other unless ranges overlap or lie outside the
\* word; an accepted RISC-V line has no such ranges. The parser turns absolute
\* positions into a list of widths, the emitter into literals and the decoder
\* back into positions.
SignatureFaithful ==
  result = "exact" /\ origin \in {"riscv", "tablegen"} =>
    /\ Defined \subseteq Decoded
    /\ Disjoint => Decoded \subseteq Defined
    /\ origin = "riscv" => Disjoint

\* What the parser's checks admit the emitter does not reject, and what is
\* emitted for an integer width the decoder never calls schematic.
GatesAgree ==
  /\ stage = "emit" /\ origin \in {"riscv", "tablegen"} =>
       TotalWidth(layout) = width
  /\ result = "schematic" => origin = "prebuilt" \/ width = Variable

\* A signature is only given when every segment has a known width and they fill
\* the word; it then has the constants where the segments below them put them.
NeverFabricated ==
  result = "exact" =>
    LET fixed == {i \in DOMAIN layout : layout[i].kind = "fixed"}
        lo(i) == WidthFrom(layout, i + 1)
    IN  /\ TotalWidth(layout) = instr_width
        /\ \A i \in DOMAIN layout : layout[i].kind # "unknown"
        /\ mask = UNION {Range(lo(i) + layout[i].width - 1, lo(i)) : i \in fixed}
        /\ match = UNION {Shift(layout[i].bits, lo(i)) : i \in fixed}
============================================================================
