# A TLA+ model of the ArchBank extraction pipeline

ArchBank collects instruction databases of other projects (`bank/`) and extracts
from them one uniform set of instruction records. The program is `xtrakt/`
(layers L1 to L8, described in `XTRAKT.md` and `P-Code.md`); `umdesc/` is a
separate description-language library. The specifications here model the parts
whose behaviour depends on order, interleaving, failure, precedence or the edges
of a format, check them with TLC on small instances, and prove the most important
results with TLAPS for all instances.

## Inventory

| part | state | operations | hard behaviour |
|---|---|---|---|
| L1 manifest (`manifest.py`) | none | `load` | fixes the order of banks |
| L2 schema (`schema.py`) | arch schemas, bank-to-arch map | `load_schema`, `bank_arch_map`, `resolve_arch` | hints that name no arch, or one the bank does not cover |
| L3 parsers (`parsers/`) | none | `parse` per bank | bit ranges that overlap, leave gaps or leave the word; exceptions half-way |
| L4 normaliser (`normalize.py`) | none | `normalize`: accept or `Reject` | rejection order, width sources |
| L4 merge index (`normalize.py`) | `_by_key`, `conflicts`, the shared mutable records | `add`, `_merge`, `records` | check-then-act without a lock, order dependence |
| L5 emitter, L6 decoder (`pcode/`) | none | `emit_encoding`, `decode_signature` | four places that compute or check a width |
| L7 backends (`storage/`) | file or database | `open`, `begin`, `put_*`, `commit`, `close` | truncate-then-write, upsert over old rows, half-done writes |
| migration (`storage/base.py`) | two backends | `convert` | failure between open and commit |
| L8 driver (`pipeline.py`) | index, report, stamp files | `extract`, `handle`, `_dir_hash` | worker pool, idempotency gate, isolation, crash between stamp and dump |
| config, CLI | configuration | `extract`, `banks`, `convert`, `check` | an unknown backend is noticed late |
| transcoders | registry | `transcode` | every exception becomes "no semantics" |
| CIR (`cir.py`) | none | `to_doc`, `from_doc`, `coerce_field`, `key` | dicts that look like bit vectors; empty, null and absent |
| uMDesc (`umdesc/`) | lexer position and line, parser stack | `tokenize`, `parse`, `visit` | nested comments, operator precedence |

How they interact: `extract` (L8) loads the manifest and schemas, then calls
`handle` for each bank, in a plain loop or from a `ThreadPoolExecutor`. `handle`
asks the gate, runs the bank's parser, normalises each raw record (which emits
its P-Code and inverts it to a decode signature) and adds it to the one
`MergeIndex` all workers share. When the pool is drained the records are written
to every configured backend in turn. Nothing outlives a run but the stamp files
and the backend targets.

What makes each part correct:

* merge index: no yielded key is lost; disagreements are flagged; provenance is
  complete and invented by nobody; the preferred bank's record is kept;
  semantics are those of a bank the record names, and its own if it came with some;
* driver: a failing bank harms only itself, and a run ends. `XTRAKT.md` also asks
  that what is skipped as unchanged is in the dump, which the code does not give;
* backends: after a run that returns the target holds the present records,
  whatever crashes came before;
* migration: what returns has moved everything, what fails leaves nothing that
  passes for a complete file, the source is only read;
* codecs: a record survives any chain of backends that can hold it, and damage is
  noticed;
* schema and normaliser: the arch is never guessed, semantics come only from
  banks that may supply them, every record is accounted for, `check` is honest;
* uMDesc: comments nest, lines are counted, the tree is that of the precedence
  table, and a walk meets the operands in the order of the text;
* parser, emitter, decoder: the decode signature recognises the words the
  definition in the bank allows, and is absent when it is not determined.

The hazards behind these, with their source lines, are listed in `PROJECT.json`.

## Modules

### MergePool — the worker pool and the merge index

One run from the manifest to the merged record set. Records are mutable Python
objects, so they have an identity `<<entry, n>>`, and `heap`, `byKey` and each
worker's `prev` refer to them; `conflicts`, `added` (the yielded records),
`rejected` and `error` are the report. Each worker is a small program: `Take` an
entry, then per raw record `Refuse` or `Normalise`, and `add` in steps `Lookup`,
`Insert` or `Union`, `Flag`, `KeepSemantics` or `WantSemantics` and
`TakeSemantics`; `Fail` and `Finish` end a bank; `Collect` is the join. An action
ends where another thread can observe or change something shared: the CPython
interpreter may switch threads between the `dict.get` of `add` and the item
assignment, and between the test and the assignment of `kept.semantics`. A pool
of one worker is exactly the plain loop.

Abstractions: a parser's result is any sequence of up to `MaxYield` records,
produced as it is consumed; texts are model values that are equal or not;
`source_banks` is a set plus its first element, which is the record's own bank.

### Extract — runs over time

Any number of runs over bank directories that change: `Skip` and `Enter` are the
gate, `Parse` and `ParseFails` the body of `handle`, `Stamp` its tail, in which an
`OSError` is passed over (the old stamp stays, or none), then one backend after the other: `Truncate`, `Dump` and again `Truncate`, `Redump` for a
document (its `close` commits a second time), `BeginTx`, `Commit` for sqlite3,
`NoSuchBackend` for a name that is not registered. `Crash` can strike between
any two of them and `Edit` changes a directory. A directory is one of a few
versions, and `_dir_hash` sees of it only what `Sig` says: names and sizes.
`handle` is sequential here and banks do not share keys, since merging is
MergePool's subject. Each run chooses its backends and whether it is gated (`Gates`).
The constants `MayCrash`, `MayFail` and `EditWhileRunning` say what the environment
does, and `Editable` which directories may change.

### PCode — from bit ranges to decode signature

One definition goes through a parser (`riscv`: `_parse_line`; `tablegen`:
`_layout_from_bits`; `listed`: the parsers that name fields from the top;
`prebuilt`: a text the parser supplies, as hotspot's does), through
`emit_encoding` and through `decode_signature`, segment by segment. Bit strings
are sets of bit numbers. The text in between is modelled by what the reader gets
back: the width of a constant is the width its literal has (`const_literal`). A
stable sort followed by a loop is modelled as placing the leftmost remaining
range each time. Names and nesting of the text are left out; no parser produces
a constant of width 0, the one width whose literal is not faithful.

### MergeSpec and MergeRefinement — what the merge promises

`MergeSpec` is the `MergeIndex` docstring as a specification: an index in which a
record is taken up in one step, which fixes an encoding once, collects banks,
supplies missing semantics and flags disagreement. `MergeRefinement` maps
MergePool to it. `add` and `_merge` need up to five steps for a record; the
mapping lets the abstract step happen at the insert or at the union of the banks
and counts the flag and the semantics the worker still owes as already given.

### Migrate — `convert`

Any number of calls of `convert` between stores that outlive them. A store is a
`strict` document (json, bson, xml), a `yaml` document or a database; the file is
absent, torn, whole or, for a database, without tables (bare). One action per step of
`convert`: `LoadSource` or `ConnectSource`, `OpenDestination`, `GetSchemas`,
`PutSchemas` and `InsertSchema` (each committed at once, since `begin` comes
later), `GetRecords`, `PutRecords`, `CommitRows` or `Truncate` and `Dump`, and the
finally clause, in which a document is truncated and written again
(`Redump`) even when an exception is pending. Each step that reaches a file or a
database can raise, opening the document for writing included (`CannotOpen`), `Crash` can strike between any two, and source and destination may be the
same path.

### Codec and CodecScalars — records as bytes, elements and rows

`to_doc` and `from_doc` with `BitVec`, the BSON encoder and decoder down to the
byte, the XML encoder and decoder on elements, and the row of the `records` table,
as operators; the actions store and load a record through any of the three, any
number of times. What is about a single scalar (numbers as digits and as packed
bytes, `BitVec`, the cases of `_payload`, `_dec_val`, `_enc` and `_dec` for None, bools,
ints and texts) is in CodecScalars, without recursion over values, so that it can be
proved about; the containers are in Codec. Characters are numbers. A packed number has digits below `Radix`
(256 in the code, 8 in the run), so that the limits of 32 and 64 bits are within
TLC's integers; the widths in bytes are the code's. NUL stands for every character XML
forbids: `XMLBackend` writes it all the same and raises when the file is read
(`Allowed`, `Parses`). No number stands for a carriage return, which an XML reader
turns into a newline. `struct`, ElementTree and the
sqlite3 type affinities are external. `Cut` leaves any proper prefix of a BSON
file. Reading a string past the end does not raise in `_dec_val`; that a cut is
noticed all the same is due to the order in which `to_doc` writes: a boolean,
whose byte must be there, comes last. `CutDetected` checks this, and fails when
the fields come last.

### Normalise — schema resolution, normalisation, `check`

`xtrakt check` with one worker: `bank_arch_map` built list by list and turn by turn,
`resolve_arch`, `normalize` with every early return in order, field coercion, the
semantics gate, the merge of keys, the three ways a record can end (`Yield`,
`RejectArch` or `RejectRecord`, `Fail`) and the verdict. A parser returns all its
records at once (`handed`); the exception of one loses those behind it. A width is a
number, `"variable"` or not given, and the parser's word goes before the schema's. A
field is coerced as `coerce_field` and `_coerce_bv` do: under kind `bv` an int, bool,
text or dict becomes a bit vector, with the width it then has, or raises. Texts are
known by what `or`, `strip` and `lower` make of them, field values by what
`operand_signature` tells apart. Precedence is empty here.

### UMDesc — lexer, expressions, visitor

The lexer is a generator from which the parser pulls one token ahead, so their
steps alternate and either may raise first. Comments are scanned character by
character as in `BLOCK_COMMENT`. The parser is a shift-reduce automaton for the
`expr` rules for identifiers, parentheses and operators and the semicolon after them,
with the `precedence` table deciding between shift and reduce; the rules for `INT` and
for a subscript are left out. `Expected` says which tokens are not refused; it is a
summary of SLY's tables. The visitor walks the tree by an explicit agenda.

The properties compare with definitions of another kind: a recursive description of
nested comments, a tree built by splitting at the weakest operator, and what a prefix
of an expression may be followed by. The tree has the table of levels (`Level`) and the
node (`BinOp`) in common with the parser, so it would not show a table with its levels
in the wrong order. `OperandsInOrder` uses neither: it compares what comes out of
the visitor with the tokens of the text. The recursive definitions are recursive
functions of positions in the text, or of ranges of tokens, so that proofs can use them.

## Runs

Passing:

| run | instance | shows |
|---|---|---|
| `MergePool_sequential` | 1 worker, 2 banks x 2 records, 2 keys, 2 encodings, 2 semantics, preferred bank first | every promise of the `MergeIndex` docstring holds; the run ends whatever fails; the index implements MergeSpec |
| `MergePool_concurrent` | 2 workers, 3 banks x 1 record, 2 keys, 2 encodings, 2 semantics, one bank unlisted | no key lost, nothing invented, semantics never lost by the record that brought them nor taken from a bank that is not named, the run ends, under every interleaving |
| `Extract_runs` | 2 banks, 2 versions or missing, crashes, failing parsers and stamps, edits of one bank while running, sqlite3 and a document, a misspelt backend, each run gated or not | a run that returns has written exactly the present records of the banks it did not skip to the document and all of them to the database, one row per key; a run that is not killed ends |
| `PCode_all` | all definitions of up to 3 ranges on 5 bits (width 4 for TableGen), all lists of up to 3 fields, all prebuilt bodies with any width token, two constants | the signature is exact; parser, emitter and decoder agree; no signature is given that is not determined |
| `Migrate_faults` | 2 stores of any kind, 2 keys, 2 contents, 2 schemas, five initial files, unlimited calls | what returns has moved everything; what fails leaves old, all, none or a torn file, never a mixture, of schemas neither; damage raises except in torn YAML; the source is only read; every call ends |
| `Codec_chains` | one record or none with every scalar at both edges of both integer widths, NUL and empty texts, lists of up to 12, dicts near the form of a bit vector, bit vectors of width 0 to 8; unlimited chains; every cut | what was read back is what was stored; whole files are readable, but an XML file exactly if it has no forbidden character; cuts are detected |
| `Normalise_check` | 3 banks (one arch, two arches, encodings and semantics of one arch), 2 arch filters, 2 records out of some 120 shapes, widths given, variable or missing on either side | accounting, arch, semantics, completeness, verdict |
| `UMDesc_texts` | all texts of comment characters up to 7, string characters up to 5, expression tokens up to 5, mixtures, all chains of three operators | comments, lines, tree, error position, order of the operands visited, termination |

Expected violations, each a disagreement between a document or comment and the
code (quoted in `PROJECT.json`):

| run | what TLC finds |
|---|---|
| `MergePool_precedence` | a preferred bank that comes later is merged into, but not stored: the index keeps the other encoding |
| `MergePool_lostflag` | two workers miss the same key, one record is overwritten, the conflict is never reported |
| `Extract_rerun` | a gated second run empties the JSON document: what is skipped is not kept |
| `Normalise_membership` | a hint names an arch that does not list the bank, and the record is of that arch |

`Extract_rerun` shows the shortest way in which a skipped bank (`SkippedKept`) is not in
the dump: a document is replaced as a whole. A database keeps its rows, but there too a
bank may be skipped although its present records were never written: a bank whose parser
raised is stamped all the same; a process killed after the stamp never reaches the
backend; `_dir_hash` reads names and sizes and not contents; the directory is hashed a
second time for the stamp, after it was parsed; and a stamp that could not be written
leaves the old one, which matches again when an edit is undone.

**Other places where code and documents differ**, met while modelling; the models
follow the code:

* two workers that both find no semantics each assign theirs, and the second
  replaces the first (`normalize.py:187`);
* a variable-width encoding never gets a mask (`decoder.py:95`), while `XTRAKT.md`
  6.2 describes one over the fixed slice;
* semantics that the parser itself brings are taken without a transcoder
  (`normalize.py:87`), while `XTRAKT.md:241-242` asks for one and line 520 says null
  otherwise;
* the records behind one that raises are counted nowhere, and nothing but the error of
  the bank tells of them;
* `"0-9a-f"` in `cir.py:121` is a list of characters, so that `"90"` is read as hex
  and `"12"` is not;
* `_decode_note` enters `operand_signature`, and so the key, while `cir.py:224`
  excludes derived bits;
* a text where the schema says `list` is split into characters (`cir.py:103`);
* `check` does not look at bank errors (`cli.py:71`);
* a database that is the destination of `convert` keeps its former rows of other
  keys, and its schemas when the source has none, so that "lossless" holds of what
  is copied and not of the whole file;
* a character that XML forbids makes an XML file that cannot be read, and a carriage
  return comes back as a newline, while `base.py:113-114` says "lossless across all
  defaults";
* `visit_ModeDecl` and `visit_OpDecl` do not descend into their parameters
  (`visitor.py:73-77`), while `visitor.py:4-5` says "traverses the whole tree";
* newlines inside a string are not counted by the lexer. `LinesCounted` says which
  lines it does count.

**Bounds.** Two records per bank let a bank contradict itself and another bank;
two keys let a record be merged with the wrong one; three banks and two workers
let a worker take a second bank while the other is inside `add`. Two versions,
or a directory that is missing, let rows disappear; runs are unlimited in number, and
one bank that is edited beside one that is not (`Editable`) shows whether an edit
reaches further than its bank. Three
ranges have a top, a middle and a bottom one, so that each can touch, overlap,
or leave a gap; one constant is wider than any field, to be cut. Five bit
numbers go past both the word of four bits and a hex digit. In Migrate two stores
are all a call can see, and a third key or value would repeat the roles of old,
new and absent; calls are unlimited, so a torn file can become a source. Codec
handles records one by one, as the code does; a list of twelve has keys of two
digits. `Radix` 8 keeps a sign, a carry and unequal ranges for 4 and 8 digits. In
Normalise two records are what a conflict, and a record after a rejected or failed
one, take; they are chosen freely for all banks together (`MaxRecords`). In UMDesc
seven characters are enough for a comment in a comment with overlapping marks, and
three operators for every pair of levels on both sides.

**Fairness.** In MergePool each worker is weakly fair: a thread of the pool runs
until its bank is done, the banks are finite, and parsers and the index do not
block; `Collect` is weakly fair because the main thread waits for the pool. In
Extract and Migrate only the process itself is weakly fair. Nobody is obliged to
start a run or a call, and crashes and edits have no fairness. UMDesc is one
sequential program, weakly fair as a whole. MergeSpec asks only that the report is
made.

**Deadlock** is checked in MergePool, Extract, Migrate, Codec, Normalise and
UMDesc; in the last two a final state stutters by an action of its own (`Done`). A
definition in PCode ends, so there it is not.

## Proofs

Each theorem holds for every value of the constants that satisfies the assumptions
of the component's module. Those assumptions say what the constants are: types, one
block per arch and per bank (`NamesAssumption`), lists that are lists
(`ListsAssumption`), a `strip` that is idempotent on the texts at hand
(`StripAssumption`), files of a store that hold nothing when they are absent or bare
(`FilesAssumption`), texts over the characters of the model (`TextsAssumption`; the
model itself puts the semicolon at the end), a byte of at least four values
(`RadixAssumption`). A theorem that needs more of the environment says so in its
statement. Each inductive invariant below was checked by TLC on the instance of the
component's run before it was proved, except those of UMDescProofs, which speak of
functions TLC would have to guess. TLAPS translates `Len(s)` for the SMT solver with a
fact that is right for sequences only; all proofs were also checked with that fact
restricted to sequences, and none depends on it.

### The merge (`MergeProofs`)

For any manifest, precedence list, keys and number of workers:

* `Invariance`: `Spec => []IndInv`. `IndInv` adds to `TypeOK` and `KeyPresent`
  what a worker in the middle of `add` knows (`WorkerOK`: its record and the one
  it merges with exist and have the same key, which is in the index) and that
  identities are fresh (`Fresh`: no two workers have one entry, no record lies
  beyond its worker's position). Without `Fresh`, `Normalise` might overwrite a
  record some key refers to, and without `WorkerOK` the key a worker merges
  under could be absent.
* `TypeCorrect` and `NoKeyLost`: its consequences `TypeOK` and `KeyPresent`. A
  lost update replaces a record by another of the same key; it never loses the key.
* `ProvenanceTrue` (`ProvenanceSound`) and `ConflictsReal` (`ConflictsSound`): what
  workers that share records write into each other's is at worst incomplete, never
  untrue. The yielded records only grow, and a record keeps its key and encoding
  from birth, so what was true of it once remains true.
* `SemanticsAccounted` (`SemanticsSound`): between the test of `kept.semantics` and its
  assignment another worker may assign too, and still an indexed record has its own
  semantics if it came with some, and otherwise those of a bank it names. `SemInv` says
  that a record not yet shared is known to its worker only (`Private`) and is as it was
  made (`Untouched`), that what came with semantics keeps them (`OwnKept`), and that what
  is shared has the semantics of a bank it names (`SharedAttributed`). The first two
  are needed because `_merge` reads them from the other record, which must not itself
  have taken them from a third.

With one worker (`Sequential`):

* `EveryConflictFlagged`: `ConflictsFlagged`. The argument is `SeqInv`: what `Lookup`
  found is still what the index holds, and each yielded record agrees with the
  indexed one or its key has been flagged. TLC shows that this fails with two workers.

With one worker and a manifest in non-increasing precedence (`ManifestRanked`; the
default empty precedence list satisfies it, and TLC shows that it is needed):

* `RankedMerge`: `ProvenanceKept` and `PrecedenceKept`; `ProvenanceComplete` states the
  first alone. The argument is `RankInv`: the indexed record comes from the earliest
  entry, so it wins each comparison and collects the provenance.
* `MergeImplementsPromise`: `Spec => Promise!Spec`. `Insert` is the abstract `First`,
  `Union` the abstract `Further`, `Collect` the `Report`; all other steps stutter. The
  mapped index and flags count what a worker after `Union` still owes as given, so the
  proof has one lemma for a state in which nothing is owed (`QuietMapped`) and one for
  a state in which the single worker owes something (`OwingMapped`), and shows that
  paying the debt changes nothing.

### Runs over time (`ExtractProofs`)

* `TypeCorrect`: `TypeOK` in every environment, from `IndInv` (where in the manifest
  and in the list of backends a run can be at each step).
* `DatabaseCurrent` (`DumpCurrent`) in every environment, and `DocumentExact`
  (`DumpExact`) for a manifest that names no bank twice (`DistinctBanks`): gated or not,
  with crashes, failures and edits at any point and stamps that cannot be read or
  written. The invariants follow a record from the parser through the index and each
  backend step, for banks not edited since the run began.
* `KeysStayUnique` (`OneRowPerKey`), under `DistinctBanks`. A row enters the database only
  together with the removal of those with its key, and the index it comes from has one
  record per key.

### `convert` (`MigrateProofs`)

For any stores, contents and initial files, failures and crashes at any step, and a
source that may be the destination. `CallInv` relates each step of a call to the two
files as the call found them: what has been read is what the source held (`SourceRead`),
what is buffered or inserted is that or a part of it (`Buffered`, `Pending`), what the
destination holds is the old content, a part of the new, or nothing (`DestinationKept`,
`NeverMixed`), and a call that has returned has seen a readable source (`Returned`). From
it follow `TypeCorrect`, `ConvertLossless`, `DamageNeverReturns`, `NothingMixed` and
`SourceUntouched`. None of these is inductive alone: that nothing is lost at the end
needs, of every step before, what it had read.

### Bits (`PCodeProofs`)

For any word size, highest bit number, constants, and number of ranges. Three layers:

* `FormInv`: types, what the segments of each origin look like, and what the decoder has
  not touched yet. Gives `TypeCorrect`.
* `BookInv`: the widths placed so far and the cursor add up to the width (`WidthsAdd`);
  the bits left below the decoder are the widths still to come (`Signed`). Gives
  `GatesNeverDisagree` and `NothingFabricated`. It rests on lemmas about sums of widths
  (`WidthFromSplit`, `WidthFromAppend`, `WidthFromOrder`).
* `WayInv`: the segment made from a range lies, counted from the bottom, where the range
  says (`SegmentsPlaced`), every range that has been placed and is not out of place has
  such a segment (`TokensPlaced`), and the walk leaves the ranges it has still to place
  below the cursor (`LineWalk`, `BitsWalk`). Positions are absolute in the text, relative
  in the layout and absolute again in the signature; `WayInv` is what survives the two
  conversions. It gives `SignatureTrue`.

### Records (`NormaliseProofs`)

For any schemas, banks, filters, raw records and transcoders.

* `MapTrue` says what `bank_arch_map` computes: for each bank and arch exactly what the
  schema of that arch lists, in whatever order and however often. Its loops make "both"
  out of "sem" or "enc" and can also unmake it, so the proof needs that an arch has one
  block: then its encoding banks are entered on a clean slate. On it rest `ArchDetermined`
  (`ArchNeverGuessed`) and `SemanticsOnlyWhereListed` (`SemanticsGated`).
* `NothingIncomplete` (`Complete`), from the early returns of `normalize`, the order in
  which it looks for a width, and `StripAssumption`.
* `Inv`, the invariant of the loop: as long as a bank has no error every record the loop
  has come to is counted (`Counted`, without which `Accounted` is not inductive), the index holds one of the
  encodings of each key and a conflict has been counted exactly if there is another one
  (`Ledger`), and nothing follows the verdict (`Ended`). Gives `TypeCorrect`,
  `NothingUncounted` (`Accounted`) and `VerdictTrue` (`CheckHonest`).

### uMDesc (`UMDescProofs`)

For every text. The lexer, the parser and the visitor each do in a loop, with a stack
or a counter, what the reference definitions do by recursion, and each invariant says
how far the loop has got in the recursion.

* `LexOK`: types, and that strings, tokens and comments lie before the position.
* `LinesAreCounted` (`LinesCounted`), from `LineInv`: the counter has the newlines before
  the position, or, inside a comment, before its start: `BLOCK_COMMENT` counts when it is
  done.
* `CommentsAreNested` (`CommentsNest`), from `CommentInv`: if `depth` comments are open
  there is a chain of as many positions, each the end of the comment the one before is
  in, that leads from the position to the end of the outermost comment (`Chain`). The loop
  only keeps the number.
* `ErrorsArePrompt` (`ErrorsPrompt`), from `ErrInv`: every shifted token continued an
  expression, the stack has as many open parentheses as the tokens it stands for, and
  it ends in an expression exactly if they end in an operand.
* `TreesAreRight` (`TreeRight`), from `TreeInv`: operators and expressions alternate on the
  stack (`Shape`), each expression is the reference tree of the range of tokens it stands
  for (`Covers`), the operators between two open parentheses bind tighter and tighter
  towards the top, each no tighter than those in the expression before it and less tightly
  than those in the one after (`LevelsOK`), and an expression on the top has been reduced as
  far as the token ahead demands (`TopOK`). This is what makes a reduction split a range where
  the definition splits it: at its weakest operator, and at the last of these.
* `OperandsVisitedInOrder` (`OperandsInOrder`), from `WalkInv` and `OrderInv`. `WalkInv`: the
  nodes visited followed by those of the trees on the agenda are the tree in pre-order.
  `OrderInv`: tokens lie in the text in the order in which they were read. Between the two, an
  accepted text is a phrase in which operands and operators alternate and parentheses
  close (`Phrase`), and the reference tree of a phrase has in pre-order the identifiers of
  the phrase, in their order (`InOrderAll`, by induction over the length of the range: a
  binary node has the operands left of its operator in one child and those right of it
  in the other).

### Scalars in the formats (`CodecProofs`)

For every number of values a byte may have, so for 256, where the run has 8.

* Lemmas about powers (`PowerExists`: the recursive function is what its definition says;
  `PowerStep`, `PowerPositive`, `PowerGrows`) and about digits (`DigitsParsed`: `k` digits of
  `n` give `n` if `n` is below the `k`-th power).
* `DecimalSurvives`: `int(str(n)) = n` for every integer, with the length of the text as the
  least that is enough. The keys of a BSON array therefore differ from one another.
* `BitVecSurvives`: `to_doc` and `from_doc` of a `BitVec` of any width. `HexEnough` shows that
  `(w + 3) // 4` hex digits hold `w` bits.
* `ScalarSurvivesBson`: the payload of a scalar, wherever it is in a file, is read back
  under its tag, and the reader stops right behind it. `PackSurvives` is two's complement of
  any width; the condition for the tag and the condition for the payload are the same two
  comparisons, at the edges of 32 bits, and the theorem fails if one of them is changed.
* `ScalarSurvivesXml`: the same of the element of a scalar, for texts of characters that XML
  allows; that it can be parsed is part of the statement. The empty text comes back as no
  text, and `_dec` makes it empty again.

### Induction (`InductionLemmas`)

The induction theorems of the library take a predicate as a parameter, which the
provers cannot instantiate. `InductionLemmas` states what is needed for sets instead: a
set that holds 0 and, with a number, the next one holds them all (`SetInduction`,
`RangeInduction`), each non-empty set of natural numbers has a least member
(`LeastNatural`), and functions defined by their value before exist (`SumsExist`,
`RecursionExists`). They rest on the well-foundedness of `<` only. The loops of
`bank_arch_map`, the sums, the powers and the reference definitions of UMDesc are recursive
functions in the models for this reason.

### Only model-checked

* Liveness (`Terminates`, `RunEnds`, `CallEnds`) and the fairness half of the refinement
  (`KeepsPromise` asks for `FairSpec`; `MergeImplementsPromise` proves the safety half):
  out of the prover's reach.
* `RoundTrip` and `CutDetected` of Codec: documents are nested, and the operators that encode
  and decode them recurse over values, with which the prover cannot work. What is proved
  is one level, the scalars, from which TLC goes on.

## Not modelled

* Text processing inside the parsers (regular expressions, JSON, XML and CSV
  columns), YAML loading, `RECORDS.yaml` field expansion, report formatting, the
  bodies of the transcoders: stateless text to text, with no behaviour that depends
  on order or failure beyond the outcomes the models have.
* The JSON and YAML encodings, ElementTree, `struct` and sqlite3 themselves: they
  are libraries, modelled by what the code relies on. Floats occur in no record.
  Left out of Codec: containers of more than 2 GiB, keys with a NUL, carriage
  returns in XML (records come from files read in text mode; see above), a dict field that is
  exactly `{width, hex}` (no parser makes one).
* The declaration grammar of uMDesc, and the `expr` rules for `INT` and for a subscript:
  tables from which SLY generates an automaton, each rule building one node.
* `bank/` and `third_party/`: about 3.7 million lines of C, C++ and tables of other
  projects. They are the data ArchBank reads and not its program; nothing in the
  repository compiles or runs them, and there is no behaviour of ArchBank in them
  to model. The program is the Python of `xtrakt/` and `umdesc/`, under five
  thousand lines.

## Plan

1. Done: MergePool, Extract, PCode, MergeSpec and the refinement, Migrate, Codec,
   Normalise, UMDesc; proofs of all safety properties the passing runs check but the two of Codec;
   proofs that scalars survive BSON and XML.
2. Left: the containers of Codec. A proof would define encoding and decoding level by
   level of nesting, as a function of the depth, and start from the theorems on scalars.
