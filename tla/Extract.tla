------------------------------ MODULE Extract ------------------------------
(***************************************************************************)
(* Repeated runs of `xtrakt extract` over the same banks and targets       *)
(* (pipeline.py `extract`, storage/*.py): the idempotency gate and its     *)
(* stamp files, per-bank isolation, and the write of the merged records to *)
(* each configured backend in turn. The process may be killed between any  *)
(* two steps, a parser may raise after some of its records, a stamp may    *)
(* fail to be read or written, and bank directories change under the       *)
(* program's feet. Each run is started with the gate or without it.        *)
(*                                                                         *)
(* Banks are handled one after the other (workers: 1) and own their keys;  *)
(* merging across banks is module MergePool's. A bank directory is one of  *)
(* a few versions; a record is the row a version has for a key. "json"     *)
(* stands for the four document backends (json, yaml, bson, xml), which    *)
(* share the life cycle of storage/json.py.                                *)
(***************************************************************************)
EXTENDS Naturals, Sequences

CONSTANTS
  Entries,          \* manifest: bank ids in order
  Version,          \* contents a bank directory can have
  Missing,          \* the directory does not exist
  Key,              \* record keys of one bank
  RowsOfVersion,    \* version -> set of keys its parser yields
  Sig,              \* version -> what _dir_hash sees: file names and sizes
  NoSig,            \* no stamp file, or one that holds no hash
  BackendConfigs,   \* values of config.backends a run may be started with
  Gates,            \* whether --idempotent DIR is given: what a run may choose
  MayCrash,         \* environment: the process may be killed
  MayFail,          \* environment: a parser may raise, the file system refuse a stamp
  Editable,         \* bound: banks that somebody may edit
  EditWhileRunning  \* environment: they may change during a run

ASSUME EntriesAssumption == Entries \in Seq(STRING)
ASSUME VersionAssumption ==
  /\ RowsOfVersion \in [Version -> SUBSET Key]
  /\ Missing \notin Version
  /\ DOMAIN Sig = Version /\ NoSig \notin {Sig[v] : v \in Version}
ASSUME ConfigAssumption ==
  BackendConfigs \subseteq Seq({"json", "sqlite3", "unregistered"})
ASSUME EnvironmentAssumption ==
  /\ Gates \subseteq BOOLEAN
  /\ {MayCrash, MayFail, EditWhileRunning} \subseteq BOOLEAN

VARIABLES
  src,       \* bank -> version of its directory, or Missing
  stamp,     \* bank -> contents of DIR/.<bank>.stamp
  docState,  \* the document file: "absent", "torn" or "whole"
  doc,       \* its records when whole
  db,        \* committed rows of the sqlite3 records table
  pc,        \* where the process is; "off": no process
  bankNo,    \* position in the manifest
  outNo,     \* position in backends
  gated,     \* dump_dir of this run is set
  backends,  \* config.backends of this run
  index,     \* the MergeIndex: records gathered by this run
  failed,    \* banks whose BankResult.error is set
  skipped,   \* banks whose BankResult.note is "skipped (unchanged)"
  edited     \* history: banks edited since the run began

memory == <<bankNo, outNo, gated, backends, index, failed, skipped>>
disk   == <<src, stamp, docState, doc, db>>
vars   == <<src, stamp, docState, doc, db, pc, bankNo, outNo, gated, backends,
            index, failed, skipped, edited>>

----------------------------------------------------------------------------

Bank == {Entries[n] : n \in DOMAIN Entries}

Row == [bank : Bank, key : Key, ver : Version]

\* The records the parser of bank b finds in its directory.
Parsed(b, v) ==
  IF v = Missing THEN {}
  ELSE {[bank |-> b, key |-> k, ver |-> v] : k \in RowsOfVersion[v]}

\* _dir_hash: names and sizes of the files; empty for a missing directory.
_dir_hash(b) == IF src[b] = Missing THEN NoSig ELSE Sig[src[b]]

Current == Entries[bankNo]

Unchanged(b) == gated /\ _dir_hash(b) # NoSig /\ stamp[b] = _dir_hash(b)

SamePK(r, s) == r.bank = s.bank /\ r.key = s.key

\* Mutants of Upsert: INSERT OR IGNORE; INSERT into a table without its key.
InsertOrIgnore(table, rows) ==
  table \cup {s \in rows : ~ \E r \in table : SamePK(r, s)}
InsertOnly(table, rows) == table \cup rows

\* INSERT OR REPLACE of every record; rows of other keys stay.
Upsert(table, rows) ==
  {r \in table : ~ \E s \in rows : SamePK(r, s)} \cup rows

Running == pc \notin {"off", "done"}

----------------------------------------------------------------------------

\* The process ends without a report; all it had in memory is gone.
Die ==
  /\ pc' = "off"
  /\ bankNo' = 1 /\ outNo' = 1
  /\ gated' = FALSE /\ backends' = << >>
  /\ index' = {} /\ failed' = {} /\ skipped' = {} /\ edited' = {}

Init ==
  /\ src \in [Bank -> Version]
  /\ stamp = [b \in Bank |-> NoSig]
  /\ docState = "absent" /\ doc = {}
  /\ db = {}
  /\ pc = "off"
  /\ bankNo = 1 /\ outNo = 1
  /\ gated = FALSE /\ backends = << >>
  /\ index = {} /\ failed = {} /\ skipped = {} /\ edited = {}

\* A run begins with an empty index.
Start ==
  /\ ~Running
  /\ pc' = "gate"
  /\ gated' \in Gates /\ backends' \in BackendConfigs
  /\ bankNo' = 1 /\ outNo' = 1
  /\ index' = {} /\ failed' = {} /\ skipped' = {} /\ edited' = {}
  /\ UNCHANGED disk

\* handle: the stamp matches, the bank contributes nothing to this run.
Skip ==
  /\ pc = "gate" /\ bankNo <= Len(Entries)
  /\ Unchanged(Current)
  /\ bankNo' = bankNo + 1
  /\ skipped' = skipped \cup {Current}
  /\ UNCHANGED <<disk, pc, outNo, gated, backends, index, failed, edited>>

\* handle: no stamp, another one, or one that cannot be read.
Enter ==
  /\ pc = "gate" /\ bankNo <= Len(Entries)
  /\ ~Unchanged(Current) \/ MayFail
  /\ pc' = "parse"
  /\ UNCHANGED <<disk, memory, edited>>

\* handle: parse, normalise and index the bank.
Parse ==
  /\ pc = "parse"
  /\ pc' = "stamp"
  /\ index' = index \cup Parsed(Current, src[Current])
  /\ UNCHANGED <<disk, bankNo, outNo, gated, backends, failed, skipped, edited>>

\* Mutants of ParseFails: the handler throws away what other banks gave; the
\* bank is tried again, without end.
ParseFailsForAll ==
  /\ pc = "parse" /\ MayFail
  /\ pc' = "stamp"
  /\ index' = {}
  /\ failed' = failed \cup {Current}
  /\ UNCHANGED <<disk, bankNo, outNo, gated, backends, skipped, edited>>

ParseRetried ==
  /\ pc = "parse" /\ MayFail
  /\ pc' = "gate"
  /\ failed' = failed \cup {Current}
  /\ UNCHANGED <<disk, bankNo, outNo, gated, backends, index, skipped, edited>>

\* handle: an exception after some of the records; they stay in the index and
\* the run goes on with the next bank.
ParseFails ==
  /\ pc = "parse" /\ MayFail
  /\ pc' = "stamp"
  /\ \E part \in SUBSET Parsed(Current, src[Current]) : index' = index \cup part
  /\ failed' = failed \cup {Current}
  /\ UNCHANGED <<disk, bankNo, outNo, gated, backends, skipped, edited>>

\* handle: the stamp is written whatever the outcome, from a second look at the
\* directory. An OSError is passed over: the old stamp stays if the file cannot be
\* opened, none if it was emptied and cannot be written.
Stamp ==
  /\ pc = "stamp"
  /\ pc' = "gate"
  /\ bankNo' = bankNo + 1
  /\ \/ /\ gated /\ _dir_hash(Current) # NoSig => MayFail
        /\ UNCHANGED stamp
     \/ /\ gated /\ _dir_hash(Current) # NoSig
        /\ \/ stamp' = [stamp EXCEPT ![Current] = _dir_hash(Current)]
           \/ MayFail /\ stamp' = [stamp EXCEPT ![Current] = NoSig]
  /\ UNCHANGED <<src, docState, doc, db, outNo, gated, backends, index, failed, skipped,
                 edited>>

\* All banks are handled: the backends are written.
Gathered ==
  /\ pc = "gate" /\ bankNo > Len(Entries)
  /\ pc' = "write"
  /\ UNCHANGED <<disk, memory, edited>>

Target(name) == pc = "write" /\ outNo <= Len(backends) /\ backends[outNo] = name

\* A name that is not in BACKENDS raises KeyError, past the outputs before it.
NoSuchBackend ==
  /\ Target("unregistered")
  /\ Die
  /\ UNCHANGED disk

\* JSONBackend.commit opens the file for writing, which empties it.
Truncate ==
  /\ \/ Target("json") /\ pc' = "dump"
     \/ pc = "close" /\ pc' = "redump"
  /\ docState' = "torn" /\ doc' = {}
  /\ UNCHANGED <<src, stamp, db, memory, edited>>

\* JSONBackend.commit writes all it was given.
Dump ==
  /\ pc = "dump"
  /\ pc' = "close"
  /\ docState' = "whole" /\ doc' = index
  /\ UNCHANGED <<src, stamp, db, memory, edited>>

\* Mutant of Redump: close advances past the next backend.
RedumpSkips ==
  /\ pc = "redump"
  /\ pc' = "write"
  /\ docState' = "whole" /\ doc' = index
  /\ outNo' = outNo + 2
  /\ UNCHANGED <<src, stamp, db, bankNo, gated, backends, index, failed, skipped, edited>>

\* JSONBackend.close commits again in mode "w".
Redump ==
  /\ pc = "redump"
  /\ pc' = "write"
  /\ docState' = "whole" /\ doc' = index
  /\ outNo' = outNo + 1
  /\ UNCHANGED <<src, stamp, db, bankNo, gated, backends, index, failed, skipped, edited>>

\* SQLiteBackend: open, BEGIN, put_schemas, put_records; nothing committed.
BeginTx ==
  /\ Target("sqlite3")
  /\ pc' = "commit"
  /\ UNCHANGED <<disk, memory, edited>>

\* SQLiteBackend.commit, and close.
Commit ==
  /\ pc = "commit"
  /\ pc' = "write"
  /\ db' = Upsert(db, index)
  /\ outNo' = outNo + 1
  /\ UNCHANGED <<src, stamp, docState, doc, bankNo, gated, backends, index, failed,
                 skipped, edited>>

\* extract returns its report.
Return ==
  /\ pc = "write" /\ outNo > Len(backends)
  /\ pc' = "done"
  /\ UNCHANGED <<disk, memory, edited>>

\* The process dies: an open transaction is rolled back, a file being written
\* stays as it is, a stamp being written may be left empty.
Crash ==
  /\ Running /\ MayCrash
  /\ Die
  /\ \/ UNCHANGED stamp
     \/ /\ pc = "stamp" /\ gated
        /\ stamp' = [stamp EXCEPT ![Current] = NoSig]
  /\ UNCHANGED <<src, docState, doc, db>>

\* Somebody updates, removes or restores a bank directory.
Edit(b) ==
  /\ b \in Editable /\ (EditWhileRunning \/ ~Running)
  /\ \E v \in (Version \cup {Missing}) \ {src[b]} : src' = [src EXCEPT ![b] = v]
  /\ edited' = IF pc = "off" THEN edited ELSE edited \cup {b}
  /\ UNCHANGED <<stamp, docState, doc, db, pc, memory>>

handle == Skip \/ Enter \/ Parse \/ ParseFails \/ Stamp

write == \/ NoSuchBackend \/ Truncate \/ Dump \/ Redump \/ BeginTx \/ Commit

Process == handle \/ Gathered \/ write \/ Return

Next == \/ Start
        \/ Process
        \/ Crash
        \/ \E b \in Bank : Edit(b)

\* The operating system keeps running a process that was started. Nobody has to
\* start one, edit a bank or kill it.
Fairness == WF_vars(Process)

Spec == Init /\ [][Next]_vars

FairSpec == Spec /\ Fairness

----------------------------------------------------------------------------
(***************************************************************************)
(* Properties.                                                             *)
(***************************************************************************)

Steps == {"off", "gate", "parse", "stamp", "write", "dump", "close", "redump",
          "commit", "done"}

\* Every variable has its type.
TypeOK ==
  /\ src \in [Bank -> Version \cup {Missing}]
  /\ stamp \in [Bank -> {Sig[v] : v \in Version} \cup {NoSig}]
  /\ docState \in {"absent", "torn", "whole"}
  /\ doc \subseteq Row
  /\ db \subseteq Row
  /\ pc \in Steps
  /\ bankNo \in 1 .. Len(Entries) + 1
  /\ gated \in BOOLEAN
  /\ backends \in BackendConfigs \cup {<< >>}
  /\ outNo \in 1 .. Len(backends) + 1
  /\ index \subseteq Row
  /\ failed \subseteq Bank
  /\ skipped \subseteq Bank
  /\ edited \subseteq Bank

RowsOf(b, rows) == {r \in rows : r.bank = b}

Configured(name) == \E n \in DOMAIN backends : backends[n] = name

\* When a run returns, gated or not, the document it wrote has, of every bank that
\* was left alone, exactly the records of the bank's present version; of a bank that
\* it reports as failed, some of them, and of one that it reports as skipped, none.
\* Other banks' failures, earlier runs and crashes make no difference.
DumpExact ==
  pc = "done" /\ Configured("json") =>
    /\ docState = "whole"
    /\ \A b \in Bank \ edited :
         /\ RowsOf(b, doc) \subseteq Parsed(b, src[b])
         /\ b \notin failed \cup skipped => RowsOf(b, doc) = Parsed(b, src[b])
         /\ b \in skipped => RowsOf(b, doc) = {}

\* When a run returns, gated or not, the database has every record of the present
\* version of each bank that was left alone and is reported neither as failed nor
\* as skipped.
DumpCurrent ==
  pc = "done" /\ Configured("sqlite3") =>
    \A b \in Bank \ (edited \cup failed \cup skipped) : Parsed(b, src[b]) \subseteq db

\* XTRAKT.md, idempotency: "skip if unchanged and a prior dump exists": a bank that a
\* run skips has its present records in what the run wrote to.
SkippedKept ==
  pc = "done" =>
    \A b \in skipped \ edited :
      /\ Configured("json") => Parsed(b, src[b]) \subseteq doc
      /\ Configured("sqlite3") => Parsed(b, src[b]) \subseteq db

\* One key, one row: a row is replaced by its successor, never kept beside it.
OneRowPerKey == \A r, s \in db : SamePK(r, s) => r = s

\* A run that is not killed comes to an end: it returns, or raises KeyError for
\* an unregistered backend.
RunEnds == Running ~> ~Running
============================================================================
