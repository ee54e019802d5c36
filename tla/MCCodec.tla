------------------------------ MODULE MCCodec ------------------------------
(***************************************************************************)
(* Instances of Codec for TLC.                                             *)
(***************************************************************************)
EXTENDS Codec

Letter == <<60>>
Other == <<61>>

\* Both edges of 32 bits and of 64, and beyond.
EdgeInts == {0, -1, INT32_MIN - 1, INT32_MIN, INT32_MAX - 1, INT32_MAX,
             -INT64_MAX - 1, -INT64_MAX, INT64_MAX - 1, INT64_MAX}

\* A text may hold NUL, which BSON and a row keep and XML does not; a key may not.
Texts == {<< >>, Letter, <<60, NUL, 61>>, <<NUL>>}

BitVecs == {BitVec(0, 0), BitVec(1, 1), BitVec(4, 10), BitVec(5, 3), BitVec(8, 255)}

Scalars == {Null, Bool(TRUE), Bool(FALSE)} \cup {Num(n) : n \in EdgeInts}
             \cup {Str(s) : s \in Texts} \cup BitVecs

FewScalars == {Null, Bool(FALSE), Num(INT32_MAX), Str(<< >>), BitVec(5, 3)}

\* Lists long enough for a key of two digits, and dicts that come close to the
\* form of a BitVec; a dict field that has that form is made by no parser.
Lists == {List(<< >>), List([i \in 1..12 |-> Num(i)])}
           \cup {List(<<v>>) : v \in Scalars}
           \cup {List(<<v, w>>) : v, w \in FewScalars}
Dicts == {Dict(<< >>)}
           \cup {Dict(<< <<k, v>> >>) : k \in {Letter, Name.width, Name.hex, << >>}, v \in FewScalars}
           \cup {Dict(<< <<Name.width, Num(5)>>, <<Name.hex, Str(<<1>>)>>, <<Letter, v>> >>) :
                   v \in FewScalars}
           \cup {Dict(<< <<Name.width, Num(5)>>, <<Letter, List(<<v>>)>> >>) : v \in FewScalars}

Plain == [arch |-> Str(Letter), aliases |-> Null, encoding_function |-> Str(Letter),
          decode_mask |-> Null, decode_match |-> Null, semantics |-> Null,
          fields |-> Dict(<< >>), source_banks |-> List(<<Str(Letter)>>),
          decode_schematic |-> Bool(TRUE)]

\* Every shallow field by itself.
OneField ==
  {[Plain EXCEPT !.fields = Dict(<< <<Letter, v>> >>)] : v \in Scalars \cup Lists \cup Dicts}

\* Base fields in all combinations, with two fields.
BaseFields ==
  {[Plain EXCEPT !.aliases = a, !.decode_mask = m, !.decode_match = n, !.semantics = s,
                 !.decode_schematic = Bool(c),
                 !.fields = Dict(<< <<Letter, BitVec(5, 3)>>, <<Other, Str(Other)>> >>)] :
     a \in {Null, List(<< >>), List(<<Str(Letter), Str(Other)>>)},
     m \in {Null, BitVec(8, 255)}, n \in {Null, BitVec(0, 0)},
     s \in {Null, Str(<< >>), Str(<<60, 61>>)}, c \in BOOLEAN}

SomeRecords == OneField \cup BaseFields
============================================================================
