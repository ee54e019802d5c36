----------------------------- MODULE Normalise -----------------------------
(***************************************************************************)
(* `xtrakt check` on one thread: the banks in manifest order, every raw    *)
(* record of a bank resolved to an arch (schema.py), normalised            *)
(* (normalize.py) and added to the merge index, an exception ending its    *)
(* bank, and the verdict (cli.py).                                         *)
(*                                                                         *)
(* A parser returns the list of its records at once. The model fixes its   *)
(* length then, and which record stands at a place when the loop gets      *)
(* there: nothing looks at it before.                                      *)
(*                                                                         *)
(* Texts are strings, of which the model knows what `or`, strip and lower  *)
(* make of them. Of a field value only what coerce_field and               *)
(* operand_signature tell apart is kept: its type, a width or a length,    *)
(* and how a text or a dict reads as a bit vector. Precedence is empty, as *)
(* in the default configuration; MergePool has the index with precedence.  *)
(***************************************************************************)
EXTENDS Integers, Sequences

CONSTANTS
  Arches,      \* schemas of RECORDS.yaml, in order
  Banks,       \* bank ids, in manifest order
  Formalism,   \* BANK_FORMALISM: bank id -> formalism
  Transcoders, \* formalisms with a transcoder
  FlatWidth,   \* layouts and texts that are flat cats -> their width in bits
  ArchFilters, \* what config.arches may be, "all" resolved
  Raws,        \* raw records a parser may yield
  MaxRecords,  \* bound: records that all parsers together return
  Strip(_),    \* str.strip
  Lower(_)     \* str.lower

None == "None"
Falsy(s) == s \in {None, ""}
PyOr(a, b) == IF Falsy(a) THEN b ELSE a

BankIds == {Banks[i] : i \in DOMAIN Banks}
ArchNames == {Arches[i].arch : i \in DOMAIN Arches}

IsSeq(s) == s \in Seq({s[i] : i \in DOMAIN s})

\* Both files are read in order, and so are the lists of banks in a schema.
ASSUME ListsAssumption ==
  /\ IsSeq(Arches) /\ IsSeq(Banks)
  /\ \A i \in DOMAIN Arches : IsSeq(Arches[i].encoding_banks) /\ IsSeq(Arches[i].semantics_banks)

\* RECORDS.yaml has one block per arch, and BANKS.yaml one per bank.
ASSUME NamesAssumption ==
  /\ \A i, j \in DOMAIN Arches : Arches[i].arch = Arches[j].arch => i = j
  /\ \A i, j \in DOMAIN Banks : Banks[i] = Banks[j] => i = j

ASSUME BoundAssumption == MaxRecords \in Nat

\* What raw records and schemas have for a mnemonic, an extension or a class.
Texts ==
  (UNION {{r.mnemonic, r.field_mnemonic, r.isa_ext, r.field_isa_ext,
           r.encoding_class, r.field_class} : r \in Raws})
    \cup {Arches[i].encoding_class : i \in DOMAIN Arches} \cup {""}

\* str.strip: of a text it makes a text, and of a stripped one the same.
ASSUME StripAssumption ==
  \A s \in Texts : Strip(Strip(s)) = Strip(s) /\ (s # None => Strip(s) # None)

----------------------------------------------------------------------------
(***************************************************************************)
(* schema.py                                                               *)
(***************************************************************************)

NoRoles == [b \in BankIds |-> [a \in ArchNames |-> None]]

\* The bodies of bank_arch_map's inner loops.
EncRole(m, arch, b) ==
  IF b \in BankIds THEN [m EXCEPT ![b][arch] = IF @ = "sem" THEN "both" ELSE "enc"] ELSE m

\* Mutant of SemRole: a bank of both lists does not count as one with semantics.
SemRoleKept(m, arch, b) ==
  IF b \in BankIds THEN [m EXCEPT ![b][arch] = IF @ = "enc" THEN "enc" ELSE "sem"] ELSE m

SemRole(m, arch, b) ==
  IF b \in BankIds THEN [m EXCEPT ![b][arch] = IF @ = "enc" THEN "both" ELSE "sem"] ELSE m

\* Those loops, and the one around them: the map after k turns.
AddEnc(m, sc) ==
  LET f[k \in 0..Len(sc.encoding_banks)] ==
        IF k = 0 THEN m ELSE EncRole(f[k - 1], sc.arch, sc.encoding_banks[k])
  IN  f[Len(sc.encoding_banks)]
AddSem(m, sc) ==
  LET f[k \in 0..Len(sc.semantics_banks)] ==
        IF k = 0 THEN m ELSE SemRole(f[k - 1], sc.arch, sc.semantics_banks[k])
  IN  f[Len(sc.semantics_banks)]

bank_arch_map ==
  LET f[k \in 0..Len(Arches)] ==
        IF k = 0 THEN NoRoles ELSE AddSem(AddEnc(f[k - 1], Arches[k]), Arches[k])
  IN  f[Len(Arches)]

ArchesOf(b) == {a \in ArchNames : bank_arch_map[b][a] # None}
IsSemanticsBank(b, arch) == bank_arch_map[b][arch] \in {"sem", "both"}

SchemaOf(arch) == Arches[CHOOSE i \in DOMAIN Arches : Arches[i].arch = arch]

\* Positions of the schemas a hint names when letter case is ignored.
Tolerated(hint) ==
  {i \in DOMAIN Arches : Lower(hint) \in {Lower(Arches[i].arch), Lower(Arches[i].full_name)}}

\* Mutant of ResolveArch: the first arch of the bank, whatever others it has.
ResolveFirst(hint, b) ==
  IF ~Falsy(hint) /\ hint \in ArchNames THEN hint
  ELSE IF ~Falsy(hint) /\ Tolerated(hint) # {}
    THEN Arches[CHOOSE i \in Tolerated(hint) : \A j \in Tolerated(hint) : i <= j].arch
  ELSE IF ArchesOf(b) # {} THEN CHOOSE a \in ArchesOf(b) : TRUE ELSE None

\* resolve_arch: a hint first, then the arch of a bank that has only one.
ResolveArch(hint, b) ==
  IF ~Falsy(hint) /\ hint \in ArchNames THEN hint
  ELSE IF ~Falsy(hint) /\ Tolerated(hint) # {}
    THEN Arches[CHOOSE i \in Tolerated(hint) : \A j \in Tolerated(hint) : i <= j].arch
  ELSE IF \E a \in ArchNames : ArchesOf(b) = {a}
    THEN CHOOSE a \in ArchNames : ArchesOf(b) = {a}
  ELSE None

----------------------------------------------------------------------------
(***************************************************************************)
(* normalize.py                                                            *)
(***************************************************************************)

\* A width that is not given, and the width "variable"; others are numbers of bits.
NoWidth == -1
Variable == 0

\* A field value: its type; a width (bv), a length (str, list, dict) or a number
\* of bits (int, bool); and how a str or a dict reads as a bit vector.
Read(t, n, form) == [t |-> t, n |-> n, form |-> form]
Val(t, n) == Read(t, n, "plain")
Raises == Val("raises", 0)

\* `_width_of(width) or n`.
WidthOr(width, n) == IF width \in {NoWidth, 0} THEN n ELSE width

\* _coerce_bv. A "hex" text has n digits behind its 0x or #x, or consists of the
\* characters 0 - 9 a f alone; a "bin" text has n digits behind #b; a "doc" dict
\* has a hex and the width n. A "bad" one looks like one of these, and from_hex,
\* from_bin or from_doc raises. What is nothing of the kind has no bits.
CoerceBv(v, width) ==
  CASE v.form = "bad" -> Raises
    [] v.form = "hex" -> Val("bv", IF width = NoWidth THEN 4 * v.n ELSE width)
    [] v.form \in {"bin", "doc"} -> Val("bv", v.n)
    [] v.form = "decimal" -> Val("bv", WidthOr(width, 1))
    [] v.t \in {"int", "bool"} -> Val("bv", WidthOr(width, v.n))
    [] OTHER -> Val("bv", 0)

\* coerce_field, for a field of RECORDS.yaml with this kind and width: iterating
\* over a text gives its characters, over a dict its keys, over a number a TypeError.
CoerceField(v, kind, width) ==
  CASE v.t \in {"NoneType", "bv"} -> v
    [] v.t \notin {"NoneType", "bv"} /\ kind = "bv" -> CoerceBv(v, width)
    [] v.t \in {"int", "bool"} /\ kind = "list" -> Raises
    [] v.t \in {"str", "dict"} /\ kind = "list" -> Val("list", v.n)
    [] OTHER -> v

\* Names that are columns of their own and no passthrough fields.
BaseNames == {"mnemonic", "isa_ext", "encoding_class", "aliases", "cpuid", "flags_read",
              "flags_write", "memory_access", "category", "privilege", "encoding_function"}

SpecNames(sc) == {sc.record[i].name : i \in DOMAIN sc.record}
SpecOf(sc, n) == sc.record[CHOOSE i \in DOMAIN sc.record :
                             sc.record[i].name = n /\ \A j \in i + 1..Len(sc.record) :
                                                        sc.record[j].name # n]

\* _coerce_fields.
CoerceFields(raw, sc) ==
  [n \in {x \in DOMAIN raw.fields : x \in SpecNames(sc) \/ x \notin BaseNames} |->
     IF n \in SpecNames(sc)
       THEN CoerceField(raw.fields[n], SpecOf(sc, n).kind, SpecOf(sc, n).width)
       ELSE CoerceField(raw.fields[n], None, NoWidth)]

\* Mutant of Width: "variable" is taken for no width at all.
WidthFallsThrough(raw, sc) ==
  IF raw.width \notin {NoWidth, Variable} THEN raw.width
  ELSE IF sc.fixed_width # NoWidth THEN sc.fixed_width ELSE Variable

\* _width: a parser that says "variable" means it, whatever the schema has.
Width(raw, sc) ==
  IF raw.width # NoWidth THEN raw.width
  ELSE IF sc.fixed_width # NoWidth THEN sc.fixed_width ELSE Variable

NoEncoding == << >>
Supplied(raw) == IF Falsy(raw.prebuilt) THEN NoEncoding ELSE <<raw.prebuilt>>
AddsUp(raw, sc) == Width(raw, sc) \in {Variable, FlatWidth[raw.layout]}
Emitted(raw, sc) == <<raw.mnemonic, raw.layout, Width(raw, sc)>>

\* _encoding: emit_encoding raises ValueError for a layout that does not add up;
\* a text supplied by the parser counts only where there is no layout. An emitted
\* text has the mnemonic in it, as the parser spelt it.
Encoding(raw, sc) ==
  IF raw.layout = None THEN Supplied(raw)
  ELSE IF AddsUp(raw, sc) THEN Emitted(raw, sc) ELSE NoEncoding

\* decode_signature gives no uniform mask (PCode has the whole of it). An emitted
\* encoding has the width it was emitted with, a supplied one its own.
Schematic(raw, sc) ==
  LET w == Width(raw, sc)
  IN  IF raw.layout # None THEN w = Variable
      ELSE raw.prebuilt \notin DOMAIN FlatWidth \/ w \notin {Variable, FlatWidth[raw.prebuilt]}

\* transcode: every failure of a transcoder is None.
Transcode(form, source) ==
  IF form \in Transcoders /\ source = "mappable" THEN "transcoded" ELSE None

\* Step 5 of normalize, and _semantics.
Semantics(raw, arch, b) ==
  IF ~IsSemanticsBank(b, arch) THEN None
  ELSE IF ~Falsy(raw.semantics) THEN raw.semantics
  ELSE IF b \in DOMAIN Formalism /\ ~Falsy(raw.source) THEN Transcode(Formalism[b], raw.source)
  ELSE None

Mnemonic(raw) == Strip(PyOr(PyOr(raw.mnemonic, raw.field_mnemonic), ""))
IsaExt(raw) == Strip(PyOr(PyOr(raw.isa_ext, raw.field_isa_ext), ""))
EncClass(raw, sc) ==
  Strip(PyOr(PyOr(PyOr(raw.encoding_class, raw.field_class), sc.encoding_class), ""))

Reject(reason) == [kind |-> "reject", reason |-> reason]
TypeError == [kind |-> "exception"]

WithNote(fields) ==
  IF "_decode_note" \in DOMAIN fields THEN fields
  ELSE [n \in DOMAIN fields \cup {"_decode_note"} |->
          IF n = "_decode_note" THEN Val("str", 1) ELSE fields[n]]

normalize(raw, sc, b) ==
  LET enc == Encoding(raw, sc)
      fields == CoerceFields(raw, sc)
  IN  IF Mnemonic(raw) = "" THEN Reject("mnemonic")
      ELSE IF IsaExt(raw) = "" \/ EncClass(raw, sc) = "" THEN Reject("base")
      ELSE IF enc = NoEncoding THEN Reject("encoding")
      ELSE IF \E n \in DOMAIN fields : fields[n] = Raises THEN TypeError
      ELSE [kind |-> "record", arch |-> sc.arch, mnemonic |-> Mnemonic(raw),
            isa_ext |-> IsaExt(raw), encoding_class |-> EncClass(raw, sc),
            encoding_function |-> enc,
            schematic |-> Schematic(raw, sc),
            fields |-> IF Schematic(raw, sc) THEN WithNote(fields) ELSE fields,
            semantics |-> Semantics(raw, sc.arch, b)]

\* InstructionRecord.key. A text, a number and so on have no width or length in
\* operand_signature.
SignatureOf(v) == IF v.t \in {"bv", "list"} THEN v ELSE Val(v.t, 0)
KeyOf(r) ==
  <<r.arch, r.mnemonic, r.encoding_class, r.isa_ext,
    [n \in DOMAIN r.fields |-> SignatureOf(r.fields[n])]>>

----------------------------------------------------------------------------
(***************************************************************************)
(* The loop over banks and records, and the verdict.                       *)
(***************************************************************************)

VARIABLES
  wanted,     \* config.arches; never changes
  pos,        \* position of the current bank
  parsing,    \* its parser has returned
  handed,     \* bank -> Len(pres.records): how many its parser returned
  taken,      \* bank -> how many of them the loop has come to
  result,     \* bank -> counts of its BankResult, and whether it has an error
  index,      \* _by_key, as far as the encodings go
  conflicts,  \* number of conflicts flagged
  exit,       \* what check returns; -1 while it runs
  last,       \* history: the last record, and what became of it
  emitted     \* history: <<key, encoding>> of every record yielded

vars == <<wanted, pos, parsing, handed, taken, result, index, conflicts, exit, last, emitted>>

Bank == Banks[pos]
NoLast == [bank |-> None, raw |-> None, out |-> Reject(None)]

Init ==
  /\ wanted \in ArchFilters
  /\ pos = 1 /\ parsing = FALSE
  /\ handed = [b \in BankIds |-> 0] /\ taken = handed
  /\ result = [b \in BankIds |-> [yielded |-> 0, rejected |-> 0, error |-> FALSE]]
  /\ index = << >> /\ conflicts = 0
  /\ exit = -1
  /\ last = NoLast /\ emitted = {}

\* A count, added up over the banks.
Total(count) ==
  LET f[k \in 0..Len(Banks)] == IF k = 0 THEN 0 ELSE f[k - 1] + count[Banks[k]]
  IN  f[Len(Banks)]

\* parser.parse returns a list of records, or raises.
Parse ==
  /\ pos <= Len(Banks) /\ ~parsing
  /\ \/ /\ \E n \in 0..MaxRecords - Total(handed) : handed' = [handed EXCEPT ![Bank] = n]
        /\ parsing' = TRUE
        /\ UNCHANGED <<pos, result>>
     \/ /\ result' = [result EXCEPT ![Bank].error = TRUE]
        /\ pos' = pos + 1
        /\ UNCHANGED <<parsing, handed>>
  /\ UNCHANGED <<wanted, taken, index, conflicts, exit, last, emitted>>

\* Mutant of Add: a record of a new key is not stored.
AddNothing(r) ==
  LET k == KeyOf(r)
  IN  /\ index' = index
      /\ conflicts' = conflicts
      /\ emitted' = emitted \cup {<<k, r.encoding_function>>}

\* MergeIndex.add without precedence: the first record of a key stays.
Add(r) ==
  LET k == KeyOf(r)
  IN  /\ index' = IF k \in DOMAIN index THEN index
                  ELSE [x \in DOMAIN index \cup {k} |->
                          IF x = k THEN r.encoding_function ELSE index[x]]
      /\ conflicts' = IF k \in DOMAIN index /\ index[k] # r.encoding_function
                        THEN conflicts + 1 ELSE conflicts
      /\ emitted' = emitted \cup {<<k, r.encoding_function>>}

\* What the loop body makes of a raw record.
Outcome(raw) ==
  LET arch == ResolveArch(raw.arch_hint, Bank)
  IN  IF arch = None \/ arch \notin wanted THEN Reject("arch")
      ELSE normalize(raw, SchemaOf(arch), Bank)

\* The loop over pres.records comes to the next record.
Take(raw, out) ==
  /\ pos <= Len(Banks) /\ parsing /\ taken[Bank] < handed[Bank]
  /\ taken' = [taken EXCEPT ![Bank] = @ + 1]
  /\ last' = [bank |-> Bank, raw |-> raw, out |-> out]
  /\ UNCHANGED <<wanted, handed, exit>>

\* Mutant of RejectArch: a record of an arch that was not asked for is passed
\* over without being counted.
RejectArchSilently(out) ==
  /\ out = Reject("arch")
  /\ UNCHANGED <<pos, parsing, result, index, conflicts, emitted>>

\* No arch, or one that was not asked for.
RejectArch(out) ==
  /\ out = Reject("arch")
  /\ result' = [result EXCEPT ![Bank].rejected = @ + 1]
  /\ UNCHANGED <<pos, parsing, index, conflicts, emitted>>

\* normalize returns a Reject.
RejectRecord(out) ==
  /\ out.kind = "reject" /\ out # Reject("arch")
  /\ result' = [result EXCEPT ![Bank].rejected = @ + 1]
  /\ UNCHANGED <<pos, parsing, index, conflicts, emitted>>

Yield(out) ==
  /\ out.kind = "record"
  /\ Add(out)
  /\ result' = [result EXCEPT ![Bank].yielded = @ + 1]
  /\ UNCHANGED <<pos, parsing>>

\* An exception ends the bank: what it yielded before stays, and nobody comes to
\* the rest of pres.records.
Fail(out) ==
  /\ out.kind = "exception"
  /\ result' = [result EXCEPT ![Bank].error = TRUE]
  /\ pos' = pos + 1 /\ parsing' = FALSE
  /\ UNCHANGED <<index, conflicts, emitted>>

handle(raw) ==
  LET out == Outcome(raw)
  IN  /\ Take(raw, out)
      /\ RejectArch(out) \/ RejectRecord(out) \/ Yield(out) \/ Fail(out)

\* The end of pres.records.
EndBank ==
  /\ pos <= Len(Banks) /\ parsing /\ taken[Bank] = handed[Bank]
  /\ pos' = pos + 1 /\ parsing' = FALSE
  /\ UNCHANGED <<wanted, handed, taken, result, index, conflicts, exit, last, emitted>>

Rejected == Total([b \in BankIds |-> result[b].rejected])

\* Mutant of Verdict: only what is in the index counts.
VerdictConflicts == IF conflicts > 0 THEN 1 ELSE 0

\* cmd_check's test.
Verdict == IF Rejected > 0 \/ conflicts > 0 THEN 1 ELSE 0

cmd_check ==
  /\ pos > Len(Banks) /\ exit = -1
  /\ exit' = Verdict
  /\ UNCHANGED <<wanted, pos, parsing, handed, taken, result, index, conflicts, last, emitted>>

Done == exit # -1 /\ UNCHANGED vars

Next == Parse \/ (\E raw \in Raws : handle(raw)) \/ EndBank \/ cmd_check \/ Done

Spec == Init /\ [][Next]_vars

----------------------------------------------------------------------------
(***************************************************************************)
(* Properties.                                                             *)
(***************************************************************************)

\* Every variable has its type.
TypeOK ==
  /\ wanted \in ArchFilters
  /\ pos \in 1..Len(Banks) + 1
  /\ parsing \in BOOLEAN
  /\ handed \in [BankIds -> 0..MaxRecords]
  /\ taken \in [BankIds -> 0..MaxRecords]
  /\ result \in [BankIds -> [yielded : 0..MaxRecords, rejected : 0..MaxRecords,
                             error : BOOLEAN]]
  /\ DOMAIN index = {e[1] : e \in emitted}
  /\ conflicts \in Nat
  /\ exit \in {-1, 0, 1}

\* "No silent caps", as far as the report goes: the records a parser returned are
\* all counted, as yielded or as rejected, unless the bank has an error; the bank
\* has one exactly if its parser raised or a record did, and then that record and
\* all behind it are counted nowhere.
Accounted ==
  \A i \in DOMAIN Banks :
    LET r == result[Banks[i]]
        n == handed[Banks[i]]
        counted == r.yielded + r.rejected
    IN  /\ r.error => counted < n \/ n = 0
        /\ i < pos /\ ~r.error => counted = n

Yielded == last.out.kind = "record"
Listed(b, sc) == \E i \in DOMAIN sc.encoding_banks : sc.encoding_banks[i] = b
ListedSem(b, sc) == \E i \in DOMAIN sc.semantics_banks : sc.semantics_banks[i] = b

\* resolve_arch "never guesses. Order: raw hint > single-arch bank" (schema.py): a
\* record is of an arch that was asked for, and its parser named that arch, or
\* named none that exists and the schemas list the bank under this arch only. A
\* hint is believed whatever the bank is listed under; ArchListed is about that.
ArchNeverGuessed ==
  Yielded =>
    LET hint == last.raw.arch_hint
        Names(sc) == Lower(hint) \in {Lower(sc.arch), Lower(sc.full_name)}
        sc0 == SchemaOf(last.out.arch)
    IN  /\ last.out.arch \in wanted
        /\ \/ ~Falsy(hint) /\ Names(sc0)
           \/ /\ Falsy(hint) \/ \A i \in DOMAIN Arches : ~Names(Arches[i])
              /\ \A i \in DOMAIN Arches :
                   Arches[i] = sc0 <=> Listed(last.bank, Arches[i]) \/ ListedSem(last.bank, Arches[i])

\* XTRAKT.md, Normalizer, step 1: "`encoding_banks` / `semantics_banks` constrain
\* membership": a record is of an arch that lists its bank.
ArchListed ==
  Yielded => LET sc == SchemaOf(last.out.arch)
             IN  Listed(last.bank, sc) \/ ListedSem(last.bank, sc)

\* Normalizer, step 5 (normalize.py): a record has semantics exactly if the schema
\* of its arch lists the bank for semantics, and either the parser brought the text
\* itself or a transcoder is registered for the formalism of the bank and maps the
\* foreign text. Being listed for encodings too changes nothing. XTRAKT.md asks for
\* the transcoder in every case; the code does not ask when the parser brings text.
SemanticsGated ==
  Yielded =>
    (last.out.semantics # None <=>
       /\ ListedSem(last.bank, SchemaOf(last.out.arch))
       /\ \/ ~Falsy(last.raw.semantics)
          \/ /\ last.raw.source = "mappable"
             /\ last.bank \in DOMAIN Formalism
             /\ Formalism[last.bank] \in Transcoders)

\* A record is complete, and never has an encoding other than that of the layout
\* when its parser gave one; nothing blank counts as a text. On the width the word
\* of the parser is final. A layout fills a width that is a number, and a width is
\* variable only if the parser says so or the schema has no number.
Complete ==
  Yielded =>
    /\ \A s \in {last.out.mnemonic, last.out.isa_ext, last.out.encoding_class} :
         ~Falsy(s) /\ Strip(s) = s
    /\ last.out.encoding_function # NoEncoding
    /\ last.raw.layout # None =>
         LET fixed == SchemaOf(last.out.arch).fixed_width
             width == last.out.encoding_function[3]
         IN  /\ Len(last.out.encoding_function) = 3
             /\ last.out.encoding_function[2] = last.raw.layout
             /\ last.raw.width # NoWidth => width = last.raw.width
             /\ width # Variable => width = FlatWidth[last.raw.layout]
             /\ width = Variable => last.raw.width = Variable \/ fixed \in {NoWidth, Variable}

\* check says OK exactly if no record was rejected and no two records with one
\* key have different encodings, in whatever order they came. A bank that failed
\* does not count, and neither do the records lost with it.
CheckHonest ==
  exit # -1 =>
    (exit = 0 <=> /\ \A b \in BankIds : result[b].rejected = 0
                  /\ \A x, y \in emitted : x[1] = y[1] => x[2] = y[2])
============================================================================
