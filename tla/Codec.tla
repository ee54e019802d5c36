------------------------------- MODULE Codec -------------------------------
(***************************************************************************)
(* What a storage backend does to a record: InstructionRecord.to_doc, the  *)
(* encoding of the container {version, schemas, records} as BSON bytes, as *)
(* an XML tree or as a sqlite row, the decoding, and from_doc. A record is *)
(* stored and read back any number of times, through any of the three      *)
(* backends, as `xtrakt convert` does; a BSON file may be cut short in     *)
(* between. (json and yaml leave the encoding to a library.) The container *)
(* is smaller than 2 GiB.                                                  *)
(***************************************************************************)
EXTENDS CodecScalars

CONSTANTS Records    \* records to be stored

Keys(d) == {d[i][1] : i \in DOMAIN d}
Put(d, k, v) ==
  IF k \in Keys(d) THEN [i \in DOMAIN d |-> IF d[i][1] = k THEN <<k, v>> ELSE d[i]]
                   ELSE Append(d, <<k, v>>)
MapValues(d, Op(_)) == [i \in DOMAIN d |-> <<d[i][1], Op(d[i][2])>>]
MapList(l, Op(_)) == [i \in DOMAIN l |-> Op(l[i])]

----------------------------------------------------------------------------
(***************************************************************************)
(* cir.py: records and canonical docs.                                     *)
(***************************************************************************)

RECURSIVE FieldToDoc(_)
FieldToDoc(v) ==
  CASE v.t = "bv" -> BitVecToDoc(v)
    [] v.t = "list" -> List(MapList(v.l, FieldToDoc))
    [] v.t = "dict" -> Dict(MapValues(v.d, FieldToDoc))
    [] OTHER -> v

LooksLikeBitVec(d) == {Name.width, Name.hex} \subseteq Keys(d) /\ Len(d) = 2

RECURSIVE FieldFromDoc(_)
FieldFromDoc(v) ==
  CASE v.t = "dict" /\ LooksLikeBitVec(v.d) -> BitVecFromDoc(v.d)
    [] v.t = "list" -> List(MapList(v.l, FieldFromDoc))
    [] v.t = "dict" /\ ~LooksLikeBitVec(v.d) -> Dict(MapValues(v.d, FieldFromDoc))
    [] OTHER -> v

\* Mutant of ToDoc: decode_schematic is written with the other base fields, and
\* the arch fields come last.
ToDocFieldsLast(r) == <<
  <<Name.arch, r.arch>>,
  <<Name.aliases, FieldToDoc(r.aliases)>>,
  <<Name.encoding_function, r.encoding_function>>,
  <<Name.decode_mask, IF r.decode_mask = Null THEN Null ELSE BitVecToDoc(r.decode_mask)>>,
  <<Name.decode_match, IF r.decode_match = Null THEN Null ELSE BitVecToDoc(r.decode_match)>>,
  <<Name.semantics, r.semantics>>,
  <<Name.decode_schematic, r.decode_schematic>>,
  <<Name.source_banks, r.source_banks>>,
  <<Name.fields, Dict(MapValues(r.fields.d, FieldToDoc))>> >>

\* InstructionRecord.to_doc. arch stands for the mandatory texts, semantics for
\* the optional ones, aliases for the optional lists of texts.
ToDoc(r) == <<
  <<Name.arch, r.arch>>,
  <<Name.aliases, FieldToDoc(r.aliases)>>,
  <<Name.encoding_function, r.encoding_function>>,
  <<Name.decode_mask, IF r.decode_mask = Null THEN Null ELSE BitVecToDoc(r.decode_mask)>>,
  <<Name.decode_match, IF r.decode_match = Null THEN Null ELSE BitVecToDoc(r.decode_match)>>,
  <<Name.semantics, r.semantics>>,
  <<Name.fields, Dict(MapValues(r.fields.d, FieldToDoc))>>,
  <<Name.source_banks, r.source_banks>>,
  <<Name.decode_schematic, r.decode_schematic>> >>

MaskFromDoc(v) == IF Truthy(v) THEN BitVecFromDoc(v.d) ELSE Null

\* InstructionRecord.from_doc.
FromDoc(d) == [
  arch              |-> Get(d, Name.arch),
  aliases           |-> FieldFromDoc(Get(d, Name.aliases)),
  encoding_function |-> FieldFromDoc(Get(d, Name.encoding_function)),
  decode_mask       |-> MaskFromDoc(Get(d, Name.decode_mask)),
  decode_match      |-> MaskFromDoc(Get(d, Name.decode_match)),
  semantics         |-> FieldFromDoc(Get(d, Name.semantics)),
  fields            |-> Dict(MapValues(Get(d, Name.fields).d, FieldFromDoc)),
  source_banks      |-> Get(d, Name.source_banks),
  decode_schematic  |-> Get(d, Name.decode_schematic)]

\* What bson.py and xml.py commit: here, with no schemas and at most one record.
Container(docs) ==
  Dict(<< <<Name.version, Str(Digits(100, 10, 3))>>,
          <<Name.schemas, List(<< >>)>>,
          <<Name.records, List(docs)>> >>)

----------------------------------------------------------------------------
(***************************************************************************)
(* bson.py                                                                 *)
(***************************************************************************)

Cstring(s) == s \o <<NUL>>

RECURSIVE Payload(_), EncDoc(_), EncItems(_)

Payload(v) ==
  CASE v.t = "list" -> EncDoc([i \in DOMAIN v.l |-> <<Decimal(i - 1), v.l[i]>>])
    [] v.t = "dict" -> EncDoc(v.d)
    [] OTHER -> ScalarPayload(v)

EncItems(d) ==
  IF d = << >> THEN << >>
  ELSE <<TypeByte(d[1][2])>> \o Cstring(d[1][1]) \o Payload(d[1][2]) \o EncItems(Tail(d))

EncDoc(d) ==
  LET body == EncItems(d) IN Pack(Len(body) + 5, 4) \o body \o <<NUL>>

\* struct.pack raises for an integer that 64 bits do not hold.
RECURSIVE Packs(_)
Packs(v) ==
  CASE v.t = "int" -> -INT64_MAX <= v.n /\ v.n < INT64_MAX
    [] v.t = "list" -> \A i \in DOMAIN v.l : Packs(v.l[i])
    [] v.t = "dict" -> \A i \in DOMAIN v.d : Packs(v.d[i][2])
    [] OTHER -> TRUE

RECURSIVE DecDoc(_, _), DecItems(_, _, _, _), DecVal(_, _, _)

DecVal(buf, off, tag) ==
  CASE tag = Tag.dict ->
         LET r == DecDoc(buf, off)
         IN  IF r.ok THEN Decoded(Dict(r.val), r.off) ELSE Raised
    [] tag = Tag.list ->
         LET r == DecDoc(buf, off)
         IN  IF r.ok THEN Decoded(List([i \in 1..Len(r.val) |-> Get(r.val, Decimal(i - 1))]),
                                  r.off)
                     ELSE Raised
    [] OTHER -> DecScalar(buf, off, tag)

\* The loop of _dec_doc, from off, with what it has so far.
DecItems(buf, off, end, out) ==
  IF off >= end - 1 THEN Decoded(out, end)
  ELSE LET nuls == {i \in off + 1..Len(buf) : buf[i] = NUL}
           kEnd == CHOOSE i \in nuls : \A j \in nuls : i <= j
       IN  IF nuls = {} THEN Raised
           ELSE LET r == DecVal(buf, kEnd + 1, buf[off])
                IN  IF r.ok THEN DecItems(buf, r.off, end,
                                          Put(out, SubSeq(buf, off + 1, kEnd - 1), r.val))
                            ELSE Raised

DecDoc(buf, off) ==
  IF Has(buf, off, 4) THEN DecItems(buf, off + 4, off + Number(buf, off, 4), << >>)
                      ELSE Raised

----------------------------------------------------------------------------
(***************************************************************************)
(* xml.py                                                                  *)
(***************************************************************************)

RECURSIVE XmlEnc(_)
XmlEnc(v) ==
  CASE v.t = "list" -> El("list", Null, MapList(v.l, LAMBDA x : << << >>, XmlEnc(x)>>))
    [] v.t = "dict" -> El("dict", Null, MapValues(v.d, XmlEnc))
    [] OTHER -> ScalarEl(v)

\* ET.parse takes the file: no text and no key has a character XML forbids.
RECURSIVE Parses(_)
Parses(e) ==
  /\ e.text # Null => Allowed(e.text.s)
  /\ \A i \in DOMAIN e.kids : Allowed(e.kids[i][1]) /\ Parses(e.kids[i][2])

RECURSIVE WriteAndParse(_)
WriteAndParse(e) == El(e.type, TextRead(e), MapValues(e.kids, WriteAndParse))

RECURSIVE XmlDec(_)
XmlDec(e) ==
  CASE e.type = "list" -> List(MapList(e.kids, LAMBDA k : XmlDec(k[2])))
    [] e.type = "dict" -> Dict(MapValues(e.kids, XmlDec))
    [] OTHER -> ScalarOf(e)

----------------------------------------------------------------------------
(***************************************************************************)
(* sqlite.py: a row. Columns that hold JSON are written and read by the    *)
(* json library; a column of texts holds a text or NULL.                   *)
(***************************************************************************)

\* put_records.
Row(r) ==
  LET d == ToDoc(r)
  IN  [arch |-> r.arch, encoding_function |-> r.encoding_function,
       semantics |-> r.semantics,
       decode_mask |-> Get(d, Name.decode_mask),
       decode_match |-> Get(d, Name.decode_match),
       decode_schematic |-> IF r.decode_schematic.b THEN 1 ELSE 0,
       aliases |-> r.aliases, source_banks |-> r.source_banks,
       fields |-> Get(d, Name.fields)]

Or(v, default) == IF Truthy(v) THEN v ELSE default

\* _row_to_doc.
RowToDoc(row) == <<
  <<Name.arch, row.arch>>,
  <<Name.aliases, row.aliases>>,
  <<Name.encoding_function, Or(row.encoding_function, Str(<< >>))>>,
  <<Name.decode_mask, row.decode_mask>>,
  <<Name.decode_match, row.decode_match>>,
  <<Name.semantics, row.semantics>>,
  <<Name.fields, Or(row.fields, Dict(<< >>))>>,
  <<Name.source_banks, Or(row.source_banks, List(<< >>))>>,
  <<Name.decode_schematic, Bool(row.decode_schematic # 0)>> >>

----------------------------------------------------------------------------
(***************************************************************************)
(* A record, or none, stored and read back again and again.                *)
(***************************************************************************)

VARIABLES
  records,   \* what the process holds: a sequence of at most one record
  form,      \* how it is stored: "none", "bson", "xml" or "row"
  stored,    \* what is stored
  stage,     \* "held", "stored", "cut" or "raised"
  original   \* history: the first thing held

vars == <<records, form, stored, stage, original>>

Docs == [i \in DOMAIN records |-> Dict(ToDoc(records[i]))]
FromDocs(l) == [i \in DOMAIN l |-> FromDoc(l[i].d)]

Init ==
  /\ records \in {<< >>} \cup {<<r>> : r \in Records}
  /\ original = records
  /\ form = "none" /\ stored = << >> /\ stage = "held"

\* BSONBackend.commit.
StoreBson ==
  /\ stage = "held" /\ Packs(Container(Docs))
  /\ form' = "bson" /\ stored' = EncDoc(Container(Docs).d)
  /\ stage' = "stored"
  /\ UNCHANGED <<records, original>>

\* The same, with an integer of more than 64 bits.
StoreBsonRaises ==
  /\ stage = "held" /\ ~Packs(Container(Docs))
  /\ stage' = "raised"
  /\ form' = "bson" /\ stored' = << >>
  /\ UNCHANGED <<records, original>>

\* XMLBackend.commit.
StoreXml ==
  /\ stage = "held"
  /\ form' = "xml" /\ stored' = XmlEnc(Container(Docs))
  /\ stage' = "stored"
  /\ UNCHANGED <<records, original>>

\* SQLiteBackend.put_records.
StoreRow ==
  /\ stage = "held"
  /\ form' = "row" /\ stored' = [i \in DOMAIN records |-> Row(records[i])]
  /\ stage' = "stored"
  /\ UNCHANGED <<records, original>>

\* The writer dies, or the disk is full: a prefix of the file is there.
Cut ==
  /\ stage = "stored" /\ form = "bson" /\ records = original
  /\ \E n \in 0..Len(stored) - 1 : stored' = SubSeq(stored, 1, n)
  /\ stage' = "cut"
  /\ UNCHANGED <<records, form, original>>

BsonRead == DecDoc(stored, 1)

\* BSONBackend.open(mode="r").
LoadBson ==
  /\ stage \in {"stored", "cut"} /\ form = "bson"
  /\ IF BsonRead.ok
       THEN stage' = "held" /\ records' = FromDocs(Get(BsonRead.val, Name.records).l)
       ELSE stage' = "raised" /\ UNCHANGED records
  /\ stored' = << >>
  /\ UNCHANGED <<form, original>>

\* XMLBackend.open(mode="r").
LoadXml ==
  /\ stage = "stored" /\ form = "xml"
  /\ IF Parses(stored)
       THEN /\ records' = FromDocs(Get(XmlDec(WriteAndParse(stored)).d, Name.records).l)
            /\ stage' = "held"
       ELSE stage' = "raised" /\ UNCHANGED records
  /\ stored' = << >>
  /\ UNCHANGED <<form, original>>

\* SQLiteBackend.get_records.
LoadRow ==
  /\ stage = "stored" /\ form = "row"
  /\ records' = [i \in DOMAIN stored |-> FromDoc(RowToDoc(stored[i]))]
  /\ stage' = "held" /\ stored' = << >>
  /\ UNCHANGED <<form, original>>

\* After an exception the caller still has what it held, and may store it again.
Retry ==
  /\ stage = "raised"
  /\ stage' = "held" /\ form' = "none"
  /\ UNCHANGED <<records, stored, original>>

Next ==
  \/ StoreBson \/ StoreBsonRaises \/ StoreXml \/ StoreRow
  \/ Cut
  \/ LoadBson \/ LoadXml \/ LoadRow
  \/ Retry

Spec == Init /\ [][Next]_vars

----------------------------------------------------------------------------
(***************************************************************************)
(* Properties.                                                             *)
(***************************************************************************)

\* A value without characters XML forbids, in texts and keys.
RECURSIVE Printable(_)
Printable(v) ==
  CASE v.t = "str" -> Allowed(v.s)
    [] v.t = "list" -> \A i \in DOMAIN v.l : Printable(v.l[i])
    [] v.t = "dict" -> \A i \in DOMAIN v.d : Allowed(v.d[i][1]) /\ Printable(v.d[i][2])
    [] OTHER -> TRUE

\* convert: "Same CIR => lossless across all defaults". However often a record
\* went through whichever backends, and whether or not a read that raised was
\* among them, what is held is what there was at first: every number at the edge
\* of 32 and 64 bits, every empty text, list and dict, every dict that only
\* resembles a BitVec. And a file that was written to the end can be read: a BSON
\* file always (sizes, tags and payloads agree), an XML file unless a text has a
\* character XML forbids, which commit() writes all the same.
RoundTrip ==
  /\ records = original
  /\ stage = "stored" /\ form = "bson" => BsonRead.ok
  /\ stage = "stored" /\ form = "xml" =>
       (Parses(stored) <=> \A i \in DOMAIN records : Printable(Docs[i]))

\* A BSON file that was cut short anywhere either raises when it is read or is
\* complete but for closing bytes: no read returns a shortened text or list.
\* This is not true of every document, only of containers as they are laid out.
CutDetected ==
  stage = "cut" /\ BsonRead.ok =>
    /\ Name.records \in Keys(BsonRead.val)
    /\ FromDocs(Get(BsonRead.val, Name.records).l) = original

============================================================================
