---------------------------- MODULE MCNormalise ----------------------------
(***************************************************************************)
(* An instance of Normalise for TLC: three banks, of which one is listed   *)
(* for one arch, one for two, and one for encodings and semantics of one   *)
(* and the same arch (twice for its semantics).                            *)
(***************************************************************************)
EXTENDS Normalise

Arch(name, full, class, width, enc, sem, record) ==
  [arch |-> name, full_name |-> full, encoding_class |-> class, fixed_width |-> width,
   encoding_banks |-> enc, semantics_banks |-> sem, record |-> record]
Spec1(n, k, w) == [name |-> n, kind |-> k, width |-> w]

TwoArches == <<
  Arch("A", "Full A", "class", 32, <<"one", "many", "both">>, <<"both", "both">>,
       <<Spec1("imm", "bv", 12), Spec1("wide", "bv", NoWidth), Spec1("stack", "list", NoWidth)>>),
  Arch("B", "Full B", "", NoWidth, <<"many">>, <<"many">>,
       <<Spec1("category", "str", NoWidth)>>) >>

ThreeBanks == <<"one", "many", "both">>
SomeFormalism == [b \in {"many", "both"} |-> IF b = "many" THEN "sleigh" ELSE "miasm"]
Registered == {"sleigh"}
Flat == [e \in {"E1", "E2"} |-> IF e = "E1" THEN 32 ELSE 16]
SomeFilters == {{"A"}, {"A", "B"}}

StripText(s) == CASE s = " " -> "" [] s = "m " -> "m" [] OTHER -> s
LowerText(s) == CASE s = "A" -> "a" [] s = "B" -> "b"
                  [] s = "Full A" -> "full a" [] s = "Full B" -> "full b" [] OTHER -> s

NoFields == [n \in {} |-> Val("int", 0)]
Field(n, v) == [x \in {n} |-> v]

Good == [arch_hint |-> None, mnemonic |-> "m", field_mnemonic |-> None,
         isa_ext |-> "i", field_isa_ext |-> None, encoding_class |-> None,
         field_class |-> None, layout |-> "E1", prebuilt |-> None, width |-> NoWidth,
         fields |-> NoFields, semantics |-> None, source |-> None]

Hints == {None, "", "A", "a", "B", "full b", "elsewhere"}

ByHint == {[Good EXCEPT !.arch_hint = h, !.semantics = s, !.encoding_class = "c"] :
             h \in Hints, s \in {None, "text"}}
ByText == {[Good EXCEPT !.arch_hint = "A", !.mnemonic = m, !.field_mnemonic = f, !.isa_ext = i] :
             m \in {"", " ", "m "}, f \in {None, "m"}, i \in {"", "i"}}
ByEncoding == {[Good EXCEPT !.arch_hint = h, !.layout = l, !.prebuilt = p, !.width = w] :
                 h \in {"A", "B"}, l \in {None, "E1", "E2"}, p \in {None, "E2", "odd"},
                 w \in {NoWidth, Variable, 16}}
ByFields == {[Good EXCEPT !.arch_hint = h, !.encoding_class = "c", !.fields = f] :
               h \in {"A", "B"},
               f \in {Field("imm", Val("int", 3)), Field("imm", Val("bv", 5)),
                      Field("imm", Read("str", 3, "hex")), Field("imm", Read("str", 2, "bad")),
                      Field("wide", Read("str", 3, "hex")), Field("wide", Read("str", 3, "bin")),
                      Field("wide", Read("str", 2, "decimal")), Field("wide", Val("str", 2)),
                      Field("wide", Val("bool", 1)), Field("wide", Read("dict", 7, "doc")),
                      Field("wide", Read("dict", 1, "bad")), Field("wide", Val("dict", 2)),
                      Field("stack", Val("int", 3)), Field("stack", Val("str", 2)),
                      Field("stack", Val("list", 2)), Field("stack", Val("dict", 2)),
                      Field("category", Val("str", 2)),
                      Field("extra", Val("NoneType", 0)), Field("_decode_note", Val("int", 1))}}
BySource == {[Good EXCEPT !.arch_hint = "A", !.source = s] : s \in {"", "mappable", "other"}}
              \cup {[Good EXCEPT !.arch_hint = "B", !.encoding_class = "c", !.source = s] :
                      s \in {"mappable", "other"}}

SomeRaws == ByHint \cup ByText \cup ByEncoding \cup ByFields \cup BySource
============================================================================
