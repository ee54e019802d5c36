---------------------------- MODULE CodecScalars ----------------------------
(***************************************************************************)
(* The part of the codecs that is about one scalar: Python values, numbers *)
(* as texts and as packed bytes, BitVec and its doc, and what bson.py and  *)
(* xml.py do to None, a bool, an int or a text. Codec has the containers.  *)
(*                                                                         *)
(* A character of a text is a natural number: 0 is NUL, which stands for   *)
(* every character XML does not allow, and d+1 is the digit d. No number   *)
(* stands for a carriage return, which an XML parser makes a newline of.   *)
(* A BSON buffer is a sequence of cells that stand for bytes; where a      *)
(* number is packed a cell holds a digit below Radix (256 in the code),    *)
(* so that the edges of 32 and 64 bits are within TLC's integers. Widths   *)
(* in cells are the code's.                                                *)
(***************************************************************************)
EXTENDS Integers, Sequences

CONSTANTS Radix      \* values of a byte

ASSUME RadixAssumption == Radix \in Nat /\ Radix >= 4

(***************************************************************************)
(* Python values. A dict is a sequence of <<key, value>>.                  *)
(***************************************************************************)

\* base ** k
Power(base) == LET power[k \in Nat] == IF k = 0 THEN 1 ELSE base * power[k - 1] IN power

Null == [t |-> "null"]
Bool(b) == [t |-> "bool", b |-> b]
Num(n) == [t |-> "int", n |-> n]
Str(s) == [t |-> "str", s |-> s]
List(l) == [t |-> "list", l |-> l]
Dict(d) == [t |-> "dict", d |-> d]
BitVec(w, n) == [t |-> "bv", w |-> w, v |-> n % Power(2)[w]]

NUL == 0
Minus == 17
Space == 18

\* Keys of the canonical doc, and the two of a BitVec, as texts.
Name == [width |-> <<20>>, hex |-> <<21>>, arch |-> <<30>>, aliases |-> <<31>>,
         encoding_function |-> <<32>>, decode_mask |-> <<33>>,
         decode_match |-> <<34>>, semantics |-> <<35>>, fields |-> <<36>>,
         source_banks |-> <<37>>, decode_schematic |-> <<38>>,
         version |-> <<39>>, schemas |-> <<40>>, records |-> <<41>>]

Get(d, k) == d[CHOOSE i \in DOMAIN d : d[i][1] = k][2]

\* bool(v) of a value that is None, a text, a list or a dict.
Truthy(v) ==
  CASE v.t = "str" -> v.s # << >>
    [] v.t = "list" -> v.l # << >>
    [] v.t = "dict" -> v.d # << >>
    [] OTHER -> FALSE

----------------------------------------------------------------------------
(***************************************************************************)
(* Numbers as text.                                                        *)
(***************************************************************************)

Digits(n, base, len) ==
  [i \in 1..len |-> ((n \div Power(base)[len - i]) % base) + 1]

ParseDigits(s, base) ==
  LET value[i \in 0..Len(s)] == IF i = 0 THEN 0 ELSE value[i - 1] * base + (s[i] - 1)
  IN  value[Len(s)]

DecimalLen(n) ==
  CHOOSE k \in 1..n + 1 : n < Power(10)[k] /\ (k = 1 \/ n >= Power(10)[k - 1])

\* str(n) and int(s).
Decimal(n) ==
  IF n < 0 THEN <<Minus>> \o Digits(-n, 10, DecimalLen(-n))
           ELSE Digits(n, 10, DecimalLen(n))
ParseDecimal(s) ==
  IF s[1] = Minus THEN -ParseDigits(Tail(s), 10) ELSE ParseDigits(s, 10)

\* BitVec.hex and BitVec.from_hex.
Hex(b) ==
  IF b.w = 0 THEN Digits(0, 16, 1) ELSE Digits(b.v, 16, (b.w + 3) \div 4)
FromHex(h, w) == BitVec(w, ParseDigits(h, 16))

BitVecToDoc(b) ==
  Dict(<< <<Name.width, Num(b.w)>>, <<Name.hex, Str(Hex(b))>> >>)
BitVecFromDoc(d) == FromHex(Get(d, Name.hex).s, Get(d, Name.width).n)

----------------------------------------------------------------------------
(***************************************************************************)
(* bson.py                                                                 *)
(***************************************************************************)

INT32_MIN == -(Power(Radix)[4] \div 2)
INT32_MAX == Power(Radix)[4] \div 2
INT64_MAX == Power(Radix)[8] \div 2

\* struct.pack("<i") and ("<q"), as 4 and 8 cells.
Pack(n, w) ==
  [i \in 1..w |-> ((n % Power(Radix)[w]) \div Power(Radix)[i - 1]) % Radix]

Unsigned(s) ==
  LET from[i \in 1..Len(s) + 1] == IF i > Len(s) THEN 0 ELSE s[i] + Radix * from[i + 1]
  IN  from[1]

Unpack(s) ==
  LET u == Unsigned(s)
  IN  IF u >= Power(Radix)[Len(s)] \div 2 THEN u - Power(Radix)[Len(s)] ELSE u

Tag == [null |-> 10, bool |-> 8, int32 |-> 16, int64 |-> 18, str |-> 2,
        list |-> 4, dict |-> 3]

\* Mutant of TypeByte: 2^31 itself is tagged as a 32-bit integer.
TypeByteInclusive(v) ==
  IF v.t = "int" THEN IF INT32_MIN <= v.n /\ v.n <= INT32_MAX THEN Tag.int32 ELSE Tag.int64
  ELSE Tag[v.t]

TypeByte(v) ==
  IF v.t = "int" THEN IF INT32_MIN <= v.n /\ v.n < INT32_MAX THEN Tag.int32 ELSE Tag.int64
  ELSE Tag[v.t]

ScalarPayload(v) ==
  CASE v.t = "null" -> << >>
    [] v.t = "bool" -> IF v.b THEN <<1>> ELSE <<0>>
    [] v.t = "int" -> IF INT32_MIN <= v.n /\ v.n < INT32_MAX
                        THEN Pack(v.n, 4) ELSE Pack(v.n, 8)
    [] v.t = "str" -> Pack(Len(v.s) + 1, 4) \o v.s \o <<NUL>>

\* A decoder raises, or returns a value and the offset after it. Offsets are the
\* code's plus 1. Only a slice (of a text) may reach past the end of the buffer.
Raised == [ok |-> FALSE]
Decoded(v, off) == [ok |-> TRUE, val |-> v, off |-> off]

Has(buf, off, n) == off + n - 1 <= Len(buf)
Slice(buf, off, n) ==
  SubSeq(buf, off, IF off + n - 1 > Len(buf) THEN Len(buf) ELSE off + n - 1)
Number(buf, off, w) == Unpack(SubSeq(buf, off, off + w - 1))

DecScalar(buf, off, tag) ==
  CASE tag = Tag.null -> Decoded(Null, off)
    [] tag = Tag.bool -> IF Has(buf, off, 1) THEN Decoded(Bool(buf[off] # 0), off + 1)
                                             ELSE Raised
    [] tag \in {Tag.int32, Tag.int64} ->
         LET w == IF tag = Tag.int32 THEN 4 ELSE 8
         IN  IF Has(buf, off, w) THEN Decoded(Num(Number(buf, off, w)), off + w)
                                 ELSE Raised
    [] tag = Tag.str ->
         IF Has(buf, off, 4)
           THEN LET len == Number(buf, off, 4)
                IN  Decoded(Str(Slice(buf, off + 4, len - 1)), off + 4 + len)
           ELSE Raised
    [] OTHER -> Raised

----------------------------------------------------------------------------
(***************************************************************************)
(* xml.py. An element has a type, a text or None, and children.            *)
(***************************************************************************)

El(type, text, kids) == [type |-> type, text |-> text, kids |-> kids]

True == <<50>>
False == <<51>>

ScalarEl(v) ==
  CASE v.t = "null" -> El("null", Null, << >>)
    [] v.t = "bool" -> El("bool", Str(IF v.b THEN True ELSE False), << >>)
    [] v.t = "int" -> El("int", Str(Decimal(v.n)), << >>)
    [] v.t = "str" -> El("str", v, << >>)

\* ElementTree writes every character as it is; ET.parse raises where it meets
\* one that XML does not allow.
Allowed(s) == \A i \in DOMAIN s : s[i] # NUL

\* The text of an element after indentation, writing and parsing (ElementTree):
\* white space if there are children; an empty text comes back as None.
TextRead(e) ==
  IF e.kids # << >> THEN Str(<<Space>>)
  ELSE IF Truthy(e.text) THEN e.text ELSE Null

\* el.text if el.text is not None else ""
XmlText(e) == IF e.text = Null THEN Str(<< >>) ELSE e.text

ScalarOf(e) ==
  CASE e.type = "null" -> Null
    [] e.type = "bool" -> Bool(e.text = Str(True))
    [] e.type = "int" -> Num(ParseDecimal(e.text.s))
    [] e.type = "str" -> XmlText(e)
=============================================================================
