------------------------------ MODULE Migrate ------------------------------
(***************************************************************************)
(* Repeated calls of `convert` (storage/base.py) between two stores that   *)
(* outlive them: open the source for reading and the destination for       *)
(* writing, copy schemas and records, commit, and close both in a finally  *)
(* clause. Every step that reaches a file or a database may raise, and the *)
(* process may be killed between any two steps.                            *)
(*                                                                         *)
(* A store is of one of three kinds. "strict" stands for json, bson and    *)
(* xml, whose readers raise on a file that was cut short; "yaml" shares    *)
(* their life cycle (storage/json.py), but a prefix of a YAML file may     *)
(* well be a valid one; "sqlite3" is storage/sqlite.py. The order of       *)
(* records is left out, and a document has one record per key, as the      *)
(* MergeIndex that produced it does.                                       *)
(***************************************************************************)
CONSTANTS
  Store,         \* target paths
  Schema,        \* arch schemas
  Key,           \* record keys
  Val,           \* contents of a record
  InitialFiles   \* contents a store may start with

Kind == {"strict", "yaml", "sqlite3"}

\* Records of a store: a partial function from keys.
Rows == UNION {[S -> Val] : S \in SUBSET Key}
NoRows == << >>

\* "torn": a document that was truncated and not written to the end, with what
\* there is of it; "bare": an empty database file, without tables.
File == [state : {"absent", "torn", "bare", "whole"},
         schemas : SUBSET Schema, rows : Rows]

\* A file that is not there, or has no tables, has no contents.
ASSUME FilesAssumption ==
  /\ InitialFiles \subseteq File
  /\ \A f \in InitialFiles :
       f.state \in {"absent", "bare"} => f.schemas = {} /\ f.rows = NoRows

VARIABLES
  kind,      \* store -> kind; never changes
  file,      \* store -> what is on disk
  pc,        \* where the process is; "off": no process
  src, dst,  \* arguments of the call
  loaded,    \* what open() read of a document source
  schemas,   \* local variable of convert
  recs,      \* local variable of convert
  buf,       \* _schemas and _recs of a document destination
  tx,        \* rows a transaction of the destination would commit
  exc,       \* an exception is pending
  result,    \* how the last call ended
  srcOld, dstOld  \* history: both files when the call began

memory == <<loaded, schemas, recs, buf, tx, exc>>
call   == <<src, dst, srcOld, dstOld>>
vars   == <<kind, file, pc, src, dst, loaded, schemas, recs, buf, tx, exc,
            result, srcOld, dstOld>>

----------------------------------------------------------------------------

Contents(s, r) == [schemas |-> s, rows |-> r]
Empty == Contents({}, NoRows)
WholeFile(c) == [state |-> "whole", schemas |-> c.schemas, rows |-> c.rows]
TornFile(c) == [state |-> "torn", schemas |-> c.schemas, rows |-> c.rows]

Document(s) == kind[s] # "sqlite3"

Restrict(f, S) == [k \in DOMAIN f \cap S |-> f[k]]

\* Mutant of Upsert: a row is built from the wrong column.
WrongColumn(table, rows) ==
  [k \in DOMAIN table \cup DOMAIN rows |->
     IF k \in DOMAIN rows THEN k ELSE table[k]]

\* INSERT OR REPLACE of every record.
Upsert(table, rows) ==
  [k \in DOMAIN table \cup DOMAIN rows |->
     IF k \in DOMAIN rows THEN rows[k] ELSE table[k]]

Forget ==
  /\ loaded' = Empty /\ buf' = Empty
  /\ schemas' = {} /\ recs' = NoRows /\ tx' = NoRows
  /\ exc' = FALSE

\* convert returns or raises.
End(r) == pc' = "off" /\ result' = r /\ Forget /\ UNCHANGED call

\* An exception inside the try block: on to the finally clause.
Raise == pc' = "close" /\ exc' = TRUE

----------------------------------------------------------------------------

Init ==
  /\ kind \in [Store -> Kind]
  /\ file \in [Store -> InitialFiles]
  /\ \A s \in Store : file[s].state \in IF Document(s) THEN {"absent", "torn", "whole"}
                                                      ELSE {"absent", "bare", "whole"}
  /\ pc = "off" /\ result = "none"
  /\ src \in Store /\ dst = src
  /\ loaded = Empty /\ buf = Empty
  /\ schemas = {} /\ recs = NoRows /\ tx = NoRows
  /\ exc = FALSE
  /\ srcOld = file[src] /\ dstOld = file[dst]

\* Source and destination may be the same path. A name that is not registered
\* raises KeyError before anything is opened.
Call ==
  /\ pc = "off"
  /\ \E s, d \in Store :
       /\ src' = s /\ dst' = d
       /\ srcOld' = file[s] /\ dstOld' = file[d]
  /\ \/ pc' = "source" /\ result' = "none"
     \/ pc' = "off" /\ result' = "raised"
  /\ UNCHANGED <<kind, file, memory>>

\* Mutant of LoadSource: a missing file is taken for an empty container.
LoadSourceForgiving ==
  /\ pc = "source" /\ Document(src)
  /\ loaded' = Contents(file[src].schemas, file[src].rows)
  /\ pc' = "destination"
  /\ UNCHANGED <<kind, file, call, schemas, recs, buf, tx, exc, result>>

\* open(mode="r") of a document loads all of it. What is there of a torn YAML
\* file may be taken for all there is.
LoadSource ==
  /\ pc = "source" /\ Document(src)
  /\ \/ file[src].state = "whole"
     \/ file[src].state = "torn" /\ kind[src] = "yaml"
  /\ loaded' = Contents(file[src].schemas, file[src].rows)
  /\ pc' = "destination"
  /\ UNCHANGED <<kind, file, call, schemas, recs, buf, tx, exc, result>>

\* open(mode="r") of a document that is missing or cut short raises, outside the
\* try block: the destination is not touched.
SourceUnreadable ==
  /\ pc = "source" /\ Document(src)
  /\ file[src].state # "whole"
  /\ End("raised")
  /\ UNCHANGED <<kind, file>>

\* Mutant of ConnectSource: the tables are created in mode "r" too.
ConnectSourceForWriting ==
  /\ pc = "source" /\ ~Document(src)
  /\ file' = IF file[src].state = "whole" THEN file
             ELSE [file EXCEPT ![src] = WholeFile(Empty)]
  /\ pc' = "destination"
  /\ UNCHANGED <<kind, call, memory, result>>

\* sqlite3.connect creates a missing file, empty.
ConnectSource ==
  /\ pc = "source" /\ ~Document(src)
  /\ file' = IF file[src].state = "absent"
               THEN [file EXCEPT ![src].state = "bare"]
               ELSE file
  /\ pc' = "destination"
  /\ UNCHANGED <<kind, call, memory, result>>

\* open(mode="w"): a document does nothing yet; a database gets its tables.
OpenDestination ==
  /\ pc = "destination"
  /\ file' = IF Document(dst) \/ file[dst].state = "whole" THEN file
             ELSE [file EXCEPT ![dst] = WholeFile(Empty)]
  /\ pc' = "schemas"
  /\ UNCHANGED <<kind, call, memory, result>>

\* open(mode="w") of a database raises, still outside the try block.
DestinationFails ==
  /\ pc = "destination" /\ ~Document(dst)
  /\ file' \in {file, [file EXCEPT ![dst].state = IF @ = "absent" THEN "bare" ELSE @]}
  /\ End("raised")
  /\ UNCHANGED kind

\* src.get_schemas(): a database without tables raises.
GetSchemas ==
  /\ pc = "schemas"
  /\ \/ /\ Document(src) \/ file[src].state = "whole"
        /\ schemas' = IF Document(src) THEN loaded.schemas ELSE file[src].schemas
        /\ pc' = "put_schemas"
        /\ UNCHANGED exc
     \/ /\ ~Document(src)
        /\ Raise
        /\ UNCHANGED schemas
  /\ UNCHANGED <<kind, file, call, loaded, recs, buf, tx, result>>

\* if schemas: dst.put_schemas(schemas). A database first deletes what it has;
\* no transaction is open, so that is committed at once.
PutSchemas ==
  /\ pc = "put_schemas"
  /\ \/ schemas = {} /\ pc' = "get_records" /\ UNCHANGED <<file, buf, exc>>
     \/ /\ schemas # {} /\ Document(dst)
        /\ buf' = [buf EXCEPT !.schemas = schemas]
        /\ pc' = "get_records"
        /\ UNCHANGED <<file, exc>>
     \/ /\ schemas # {} /\ ~Document(dst)
        /\ \/ /\ file' = [file EXCEPT ![dst].schemas = {}]
              /\ pc' = "insert"
              /\ UNCHANGED exc
           \/ Raise /\ UNCHANGED file
        /\ UNCHANGED buf
  /\ UNCHANGED <<kind, call, loaded, schemas, recs, tx, result>>

\* Mutant of InsertSchema: an INSERT that fails, on a locked database say, makes
\* put_schemas start over.
InsertSchemaRetries ==
  /\ pc = "insert"
  /\ \/ \E x \in schemas \ file[dst].schemas :
          file' = [file EXCEPT ![dst].schemas = @ \cup {x}] /\ UNCHANGED pc
     \/ schemas \subseteq file[dst].schemas /\ pc' = "get_records" /\ UNCHANGED file
     \/ pc' = "put_schemas" /\ UNCHANGED file
  /\ UNCHANGED <<kind, call, loaded, schemas, recs, buf, tx, exc, result>>

\* SQLiteBackend.put_schemas: one INSERT, committed at once, or a failure.
InsertSchema ==
  /\ pc = "insert"
  /\ \/ \E x \in schemas \ file[dst].schemas :
          /\ file' = [file EXCEPT ![dst].schemas = @ \cup {x}]
          /\ UNCHANGED <<pc, exc>>
     \/ /\ schemas \subseteq file[dst].schemas
        /\ pc' = "get_records"
        /\ UNCHANGED <<file, exc>>
     \/ Raise /\ UNCHANGED file
  /\ UNCHANGED <<kind, call, loaded, schemas, recs, buf, tx, result>>

\* list(src.get_records()): a database is only read now, and a row of it may
\* not be decodable.
GetRecords ==
  /\ pc = "get_records"
  /\ \/ /\ recs' = IF Document(src) THEN loaded.rows ELSE file[src].rows
        /\ pc' = "put_records"
        /\ UNCHANGED exc
     \/ ~Document(src) /\ Raise /\ UNCHANGED recs
  /\ UNCHANGED <<kind, file, call, loaded, schemas, buf, tx, result>>

\* Mutant of PutRecords: rows are inserted without BEGIN.
PutRecordsAutocommit ==
  /\ pc = "put_records"
  /\ \/ /\ Document(dst)
        /\ buf' = [buf EXCEPT !.rows = recs]
        /\ pc' = "commit"
        /\ UNCHANGED <<file, tx, exc>>
     \/ /\ ~Document(dst)
        /\ \/ /\ file' = [file EXCEPT ![dst].rows = Upsert(@, recs)]
              /\ tx' = Upsert(file[dst].rows, recs)
              /\ pc' = "commit" /\ UNCHANGED exc
           \/ /\ \E S \in SUBSET Key :
                   file' = [file EXCEPT ![dst].rows = Upsert(@, Restrict(recs, S))]
              /\ Raise /\ UNCHANGED tx
        /\ UNCHANGED buf
  /\ UNCHANGED <<kind, call, loaded, schemas, recs, result>>

\* dst.begin(); dst.put_records(recs): into memory, or into a transaction.
PutRecords ==
  /\ pc = "put_records"
  /\ \/ /\ Document(dst)
        /\ buf' = [buf EXCEPT !.rows = recs]
        /\ pc' = "commit"
        /\ UNCHANGED <<tx, exc>>
     \/ /\ ~Document(dst)
        /\ \/ tx' = Upsert(file[dst].rows, recs) /\ pc' = "commit" /\ UNCHANGED exc
           \/ Raise /\ UNCHANGED tx
        /\ UNCHANGED buf
  /\ UNCHANGED <<kind, file, call, loaded, schemas, recs, result>>

\* dst.commit() of a database.
CommitRows ==
  /\ pc = "commit" /\ ~Document(dst)
  /\ \/ /\ file' = [file EXCEPT ![dst].rows = tx]
        /\ pc' = "close"
        /\ UNCHANGED exc
     \/ Raise /\ UNCHANGED file
  /\ UNCHANGED <<kind, call, loaded, schemas, recs, buf, tx, result>>

\* commit() of a document, from convert and again from close(), which does not
\* ask whether an exception is pending: opening for writing empties the file.
Truncate ==
  /\ Document(dst)
  /\ \/ pc = "commit" /\ pc' = "dump"
     \/ pc = "close" /\ pc' = "redump"
  /\ file' = [file EXCEPT ![dst] = TornFile(Empty)]
  /\ UNCHANGED <<kind, call, memory, result>>

\* commit() of a document cannot open the file for writing: nothing has changed,
\* and from close() the exception leaves convert.
CannotOpen ==
  /\ Document(dst)
  /\ \/ /\ pc = "commit" /\ Raise
        /\ UNCHANGED <<call, loaded, schemas, recs, buf, tx, result>>
     \/ pc = "close" /\ End("raised")
  /\ UNCHANGED <<kind, file>>

\* What a write that is cut short may leave of the buffer. Schemas come before
\* records, and the record at the cut may have lost fields.
Prefixes ==
  {Contents(s, NoRows) : s \in SUBSET buf.schemas}
    \cup {Contents(buf.schemas, r) : r \in {q \in Rows :
            /\ DOMAIN q \subseteq DOMAIN buf.rows
            /\ \E c \in Key : \A k \in DOMAIN q : k = c \/ q[k] = buf.rows[k]}}

\* (The last bytes of a document may not matter.)
CutShort ==
  \/ \E c \in Prefixes : file' = [file EXCEPT ![dst] = TornFile(c)]
  \/ file' = [file EXCEPT ![dst] = WholeFile(buf)]

\* commit(): the container is written, or not to the end.
Dump ==
  /\ pc = "dump"
  /\ \/ /\ file' = [file EXCEPT ![dst] = WholeFile(buf)]
        /\ pc' = "close"
        /\ UNCHANGED exc
     \/ Raise /\ CutShort
  /\ UNCHANGED <<kind, call, loaded, schemas, recs, buf, tx, result>>

Outcome == IF exc THEN "raised" ELSE "ok"

\* Mutant of Redump: put_records was given the generator, which the first
\* commit has used up.
RedumpExhausted ==
  /\ pc = "redump"
  /\ \/ /\ file' = [file EXCEPT ![dst] = WholeFile(Contents(buf.schemas, NoRows))]
        /\ End(Outcome)
     \/ CutShort /\ End("raised")
  /\ UNCHANGED kind

\* close() of a document destination commits a second time.
Redump ==
  /\ pc = "redump"
  /\ \/ file' = [file EXCEPT ![dst] = WholeFile(buf)] /\ End(Outcome)
     \/ CutShort /\ End("raised")
  /\ UNCHANGED kind

\* close() of a database: a transaction that is still open is rolled back.
CloseDatabase ==
  /\ pc = "close" /\ ~Document(dst)
  /\ End(Outcome)
  /\ UNCHANGED <<kind, file>>

\* The process is killed.
Crash ==
  /\ pc # "off"
  /\ End("killed")
  /\ \/ pc \in {"dump", "redump"} /\ CutShort
     \/ UNCHANGED file
  /\ UNCHANGED kind

convert ==
  \/ LoadSource \/ SourceUnreadable \/ ConnectSource
  \/ OpenDestination \/ DestinationFails
  \/ GetSchemas \/ PutSchemas \/ InsertSchema
  \/ GetRecords \/ PutRecords
  \/ CommitRows \/ Truncate \/ CannotOpen \/ Dump
  \/ Redump \/ CloseDatabase

Next == Call \/ convert \/ Crash

\* The operating system runs a process that was started; nothing obliges anyone
\* to call convert or to kill it.
Fairness == WF_vars(convert)

Spec == Init /\ [][Next]_vars

FairSpec == Spec /\ Fairness

----------------------------------------------------------------------------
(***************************************************************************)
(* Properties.                                                             *)
(***************************************************************************)

Steps == {"off", "source", "destination", "schemas", "put_schemas", "insert",
          "get_records", "put_records", "commit", "dump", "close", "redump"}

\* Every variable has its type.
TypeOK ==
  /\ kind \in [Store -> Kind]
  /\ file \in [Store -> File]
  /\ pc \in Steps
  /\ src \in Store /\ dst \in Store
  /\ loaded \in [schemas : SUBSET Schema, rows : Rows]
  /\ buf \in [schemas : SUBSET Schema, rows : Rows]
  /\ schemas \subseteq Schema
  /\ recs \in Rows /\ tx \in Rows
  /\ exc \in BOOLEAN
  /\ result \in {"none", "ok", "raised", "killed"}
  /\ srcOld \in File /\ dstOld \in File

Over(r) == pc = "off" /\ result = r

\* Every row of `new`, and those rows of `old` that have another key.
Updated(rows, old, new) ==
  /\ DOMAIN rows = DOMAIN old \cup DOMAIN new
  /\ \A k \in DOMAIN new : rows[k] = new[k]
  /\ \A k \in DOMAIN old \ DOMAIN new : rows[k] = old[k]

\* put_schemas is only called when the source has schemas.
SchemasAfter == IF srcOld.schemas = {} THEN dstOld.schemas ELSE srcOld.schemas

\* When convert returns, the source was readable, and reading the destination
\* back gives each of its records, whatever earlier calls left there: a document
\* has nothing else, a database has its former rows of other keys besides. The
\* schemas are those of the source, except that a source without any leaves a
\* database's as they were.
Lossless ==
  Over("ok") /\ srcOld.state = "whole" =>
    /\ file[dst].state = "whole"
    /\ Document(dst) => /\ file[dst].rows = srcOld.rows
                        /\ file[dst].schemas = srcOld.schemas
    /\ ~Document(dst) =>
         /\ Updated(file[dst].rows, dstOld.rows, srcOld.rows)
         /\ file[dst].schemas = SchemasAfter

\* convert only returns for a source that is not whole when that is a YAML file
\* cut short, or a database made on the spot because it is the destination too.
DamageRaises ==
  Over("ok") /\ srcOld.state # "whole" =>
    \/ kind[src] = "yaml" /\ srcOld.state = "torn"
    \/ ~Document(src) /\ src = dst

\* However a call fails or is killed, the destination is never a mix of old and
\* new. A database has its old rows, with its old schemas or some of the new
\* ones and no old one; or all new rows, and then all new schemas. A document is
\* as it was, torn (which the YAML reader may not notice), or whole with all of
\* the source's records or with none.
NoMixture ==
  \A r \in {"raised", "killed"} : Over(r) /\ srcOld.state = "whole" =>
    IF Document(dst)
      THEN \/ file[dst] = dstOld
           \/ file[dst].state = "torn"
           \/ file[dst].state = "whole" /\ file[dst].rows \in {NoRows, srcOld.rows}
      ELSE \/ /\ file[dst].rows = dstOld.rows
              /\ \/ file[dst].schemas = dstOld.schemas
                 \/ file[dst].schemas \subseteq srcOld.schemas
           \/ /\ Updated(file[dst].rows, dstOld.rows, srcOld.rows)
              /\ file[dst].schemas = SchemasAfter

\* The source is only read: convert leaves it as it was, but for the empty file
\* that connecting to a missing database makes.
SourceKept ==
  src # dst =>
    \/ file[src] = srcOld
    \/ /\ ~Document(src) /\ srcOld.state = "absent"
       /\ file[src] = [srcOld EXCEPT !.state = "bare"]

\* A call comes to an end.
CallEnds == pc # "off" ~> pc = "off"
============================================================================
