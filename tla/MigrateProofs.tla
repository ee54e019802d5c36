--------------------------- MODULE MigrateProofs ---------------------------
(***************************************************************************)
(* Theorems about repeated calls of `convert`, for any stores, any schemas *)
(* and records and any contents to start with, whichever steps raise and   *)
(* wherever the process is killed.                                         *)
(***************************************************************************)
EXTENDS Migrate, TLAPS

USE FilesAssumption

\* A set of rows is a function from some keys to contents.
LEMMA RowsDef == \A r : r \in Rows <=> DOMAIN r \subseteq Key /\ r \in [DOMAIN r -> Val]
  BY DEF Rows

LEMMA EmptyType == NoRows \in Rows /\ Empty \in [schemas : SUBSET Schema, rows : Rows]
<1>1. DOMAIN NoRows = {} /\ NoRows \in [{} -> Val]
  BY DEF NoRows
<1>2. NoRows \in Rows
  BY <1>1, RowsDef
<1> QED
  BY <1>2 DEF Empty, Contents

LEMMA UpsertType == \A t, r \in Rows : Upsert(t, r) \in Rows
  BY RowsDef DEF Upsert

\* What INSERT OR REPLACE leaves in a table.
LEMMA UpsertUpdates == \A t, r : Updated(Upsert(t, r), t, r)
  BY DEF Upsert, Updated

LEMMA FileType ==
  ASSUME NEW c \in [schemas : SUBSET Schema, rows : Rows]
  PROVE  WholeFile(c) \in File /\ TornFile(c) \in File
  BY DEF WholeFile, TornFile, File

\* What is left of a write that was cut short is a container.
LEMMA PrefixType ==
  ASSUME TypeOK PROVE Prefixes \subseteq [schemas : SUBSET Schema, rows : Rows]
  BY EmptyType DEF TypeOK, Prefixes, Contents

LEMMA CutShortType ==
  ASSUME TypeOK, CutShort PROVE file' \in [Store -> File]
<1>1. ASSUME NEW c \in [schemas : SUBSET Schema, rows : Rows]
      PROVE  /\ [file EXCEPT ![dst] = TornFile(c)] \in [Store -> File]
             /\ [file EXCEPT ![dst] = WholeFile(c)] \in [Store -> File]
  BY <1>1, FileType DEF TypeOK
<1>2. buf \in [schemas : SUBSET Schema, rows : Rows]
  BY DEF TypeOK
<1> QED
  BY <1>1, <1>2, PrefixType DEF CutShort

\* Init establishes the types.
LEMMA InitType == Init => TypeOK
<1> SUFFICES ASSUME Init PROVE TypeOK
  OBVIOUS
<1>1. file \in [Store -> File]
  BY DEF Init
<1> QED
  BY <1>1, EmptyType DEF Init, TypeOK, Steps

\* Every step keeps the types.
LEMMA TypeStep == TypeOK /\ [Next]_vars => TypeOK'
<1> SUFFICES ASSUME TypeOK, [Next]_vars PROVE TypeOK'
  OBVIOUS
<1> USE EmptyType
<1>0. \A s \in Store : /\ file[s].schemas \subseteq Schema /\ file[s].rows \in Rows
                       /\ file[s] \in File
  BY DEF TypeOK, File
<1>e. ASSUME NEW r \in {"ok", "raised", "killed"}, End(r), kind' = kind,
             file' \in [Store -> File]
      PROVE  TypeOK'
  BY <1>e DEF End, Forget, call, TypeOK, Steps
<1>o. Outcome \in {"ok", "raised", "killed"}
  BY DEF Outcome
<1>1. CASE Call
  BY <1>0, <1>1 DEF Call, memory, TypeOK, Steps
<1>2. CASE LoadSource
  <2>1. loaded' \in [schemas : SUBSET Schema, rows : Rows]
    BY <1>0, <1>2 DEF LoadSource, Contents, TypeOK
  <2> QED
    BY <1>2, <2>1 DEF LoadSource, call, TypeOK, Steps
<1>3. CASE SourceUnreadable
  BY <1>3, <1>e DEF SourceUnreadable, TypeOK
<1>4. CASE ConnectSource
  <2>1. file' \in [Store -> File]
    BY <1>4 DEF ConnectSource, TypeOK, File
  <2> QED
    BY <1>4, <2>1 DEF ConnectSource, call, memory, TypeOK, Steps
<1>5. CASE OpenDestination
  <2>1. file' \in [Store -> File]
    BY <1>5, FileType DEF OpenDestination, TypeOK
  <2> QED
    BY <1>5, <2>1 DEF OpenDestination, call, memory, TypeOK, Steps
<1>6. CASE DestinationFails
  <2>1. [file EXCEPT ![dst].state = IF @ = "absent" THEN "bare" ELSE @] \in [Store -> File]
    BY DEF TypeOK, File
  <2> QED
    BY <1>6, <2>1, <1>e DEF DestinationFails, TypeOK
<1>7. CASE GetSchemas
  BY <1>0, <1>7 DEF GetSchemas, Raise, call, TypeOK, Steps
<1>8. CASE PutSchemas
  <2>1. file' \in [Store -> File]
    BY <1>8 DEF PutSchemas, Raise, TypeOK, File
  <2>2. buf' \in [schemas : SUBSET Schema, rows : Rows]
    BY <1>8 DEF PutSchemas, TypeOK
  <2> QED
    BY <1>8, <2>1, <2>2 DEF PutSchemas, Raise, call, TypeOK, Steps
<1>9. CASE InsertSchema
  <2>1. file' \in [Store -> File]
    BY <1>9 DEF InsertSchema, Raise, TypeOK, File
  <2> QED
    BY <1>9, <2>1 DEF InsertSchema, Raise, call, TypeOK, Steps
<1>10. CASE GetRecords
  BY <1>0, <1>10 DEF GetRecords, Raise, call, TypeOK, Steps
<1>11. CASE PutRecords
  <2>1. buf' \in [schemas : SUBSET Schema, rows : Rows]
    BY <1>11 DEF PutRecords, TypeOK
  <2>2. tx' \in Rows
    BY <1>0, <1>11, UpsertType DEF PutRecords, Raise, TypeOK
  <2> QED
    BY <1>11, <2>1, <2>2 DEF PutRecords, Raise, call, TypeOK, Steps
<1>12. CASE CommitRows
  <2>1. file' \in [Store -> File]
    BY <1>12 DEF CommitRows, Raise, TypeOK, File
  <2> QED
    BY <1>12, <2>1 DEF CommitRows, Raise, call, TypeOK, Steps
<1>13. CASE Truncate
  <2>1. file' \in [Store -> File]
    BY <1>13, FileType DEF Truncate, TypeOK
  <2> QED
    BY <1>13, <2>1 DEF Truncate, call, memory, TypeOK, Steps
<1>14. CASE Dump
  <2>1. file' \in [Store -> File]
    BY <1>14, FileType, CutShortType DEF Dump, TypeOK
  <2> QED
    BY <1>14, <2>1 DEF Dump, Raise, call, TypeOK, Steps
<1>15. CASE Redump
  <2>1. file' \in [Store -> File]
    BY <1>15, FileType, CutShortType DEF Redump, TypeOK
  <2> QED
    BY <1>15, <2>1, <1>e, <1>o DEF Redump
<1>16. CASE CloseDatabase
  BY <1>16, <1>e, <1>o DEF CloseDatabase, TypeOK
<1>17. CASE Crash
  <2>1. file' \in [Store -> File]
    BY <1>17, CutShortType DEF Crash, TypeOK
  <2> QED
    BY <1>17, <2>1, <1>e DEF Crash
<1>18. CASE UNCHANGED vars
  BY <1>18 DEF vars, TypeOK
<1>19. CASE CannotOpen
  <2>1. CASE End("raised")
    BY <1>19, <2>1, <1>e DEF CannotOpen, TypeOK
  <2>2. CASE ~End("raised")
    BY <1>19, <2>2 DEF CannotOpen, Raise, call, TypeOK, Steps
  <2> QED
    BY <2>1, <2>2
<1> QED
  BY <1>1, <1>2, <1>3, <1>4, <1>5, <1>6, <1>7, <1>8, <1>9, <1>10, <1>11, <1>12, <1>13,
     <1>14, <1>15, <1>16, <1>17, <1>18, <1>19
  DEF Next, convert

\* Type correctness of `convert` and of both stores, whatever fails.
THEOREM TypeCorrect == Spec => []TypeOK
  BY InitType, TypeStep, PTL DEF Spec

----------------------------------------------------------------------------
(***************************************************************************)
(* The invariant. It says, for every step of a call, what the local        *)
(* variables and the two files have to do with the files as they were when *)
(* the call began.                                                         *)
(***************************************************************************)

\* Which states a file of each kind can be in; what is not there is empty.
FilesOK ==
  \A s \in Store :
    /\ file[s].state \in IF Document(s) THEN {"absent", "torn", "whole"}
                                        ELSE {"absent", "bare", "whole"}
    /\ file[s].state \in {"absent", "bare"} => file[s].schemas = {} /\ file[s].rows = NoRows

BeforeRecords == {"destination", "schemas", "put_schemas", "insert", "get_records"}
BeforeCommit  == BeforeRecords \cup {"put_records", "commit"}
Opened == {"schemas", "put_schemas", "insert", "get_records", "put_records", "commit",
           "dump", "close", "redump"}

\* The call has read all there is, and nothing has failed.
Undisturbed(steps) == pc \in steps \/ (pc \in {"close", "redump"} /\ ~exc)

\* A pending exception only waits for close().
Pending == exc => pc \in {"close", "redump"}

\* What the call has read of the source is what was there when it began, even
\* where the source is the destination too.
SourceRead ==
  /\ pc = "source" => file[src] = srcOld
  /\ Document(src) /\ pc \in {"destination"} \cup Opened =>
       loaded = Contents(srcOld.schemas, srcOld.rows)
  /\ ~Document(src) /\ pc \in BeforeRecords => file[src].rows = srcOld.rows
  /\ ~Document(src) /\ pc \in {"destination", "schemas"} =>
       file[src].schemas = srcOld.schemas
  /\ pc \in {"put_schemas", "insert"} => schemas = srcOld.schemas
  /\ pc = "put_records" => recs = srcOld.rows

\* The source could be read: it was whole, or it is one of the two exceptions.
Readable == \/ srcOld.state = "whole"
            \/ kind[src] = "yaml" /\ srcOld.state = "torn"
            \/ ~Document(src) /\ src = dst

SourceReadable ==
  /\ Document(src) /\ pc \in {"destination", "schemas"} => Readable
  /\ Undisturbed(Opened \ {"schemas", "close", "redump"}) => Readable

\* What a document destination will be given.
Buffered ==
  /\ pc \in {"off", "source", "destination", "schemas", "put_schemas", "insert"} =>
       buf = Empty
  /\ buf.rows \in {NoRows, srcOld.rows}
  /\ Document(dst) /\ Undisturbed({"get_records", "put_records", "commit", "dump"}) =>
       buf.schemas = srcOld.schemas
  /\ Document(dst) /\ Undisturbed({"commit", "dump"}) => buf.rows = srcOld.rows

FinalRows == Upsert(dstOld.rows, srcOld.rows)

\* A document is as it was until it is truncated; the rows of a database are as
\* they were until they are committed.
DestinationKept ==
  /\ pc = "source" => file[dst] = dstOld
  /\ pc \in {"dump", "redump"} => Document(dst)
  /\ pc = "insert" => ~Document(dst)
  /\ Document(dst) /\ pc \in BeforeCommit => file[dst] = dstOld
  /\ ~Document(dst) /\ pc \in Opened => file[dst].state = "whole"
  /\ ~Document(dst) /\ pc \in BeforeCommit => file[dst].rows = dstOld.rows
  /\ ~Document(dst) /\ pc \in {"destination", "schemas", "put_schemas"} =>
       file[dst].schemas = dstOld.schemas
  /\ pc = "insert" => schemas # {} /\ file[dst].schemas \subseteq schemas
  /\ ~Document(dst) /\ Undisturbed({"get_records", "put_records", "commit"}) =>
       file[dst].schemas = SchemasAfter
  /\ ~Document(dst) /\ pc = "commit" => tx = FinalRows
  /\ ~Document(dst) /\ pc = "close" =>
       file[dst].rows = IF exc THEN dstOld.rows ELSE FinalRows

\* A database with its old rows, and old schemas or only new ones, or with all of
\* the new rows and schemas.
OldOrNew(f) ==
  \/ /\ f.rows = dstOld.rows
     /\ f.schemas = dstOld.schemas \/ f.schemas \subseteq srcOld.schemas
  \/ f.rows = FinalRows /\ f.schemas = SchemasAfter

\* At any time, and so wherever a call ends, the destination is not a mixture.
NeverMixed ==
  IF Document(dst)
    THEN \/ file[dst] = dstOld
         \/ file[dst].state = "torn"
         \/ file[dst].state = "whole" /\ file[dst].rows \in {NoRows, srcOld.rows}
    ELSE OldOrNew(file[dst])

\* A call that returned.
Returned ==
  Over("ok") =>
    /\ Readable
    /\ file[dst].state = "whole"
    /\ Document(dst) => file[dst].rows = srcOld.rows /\ file[dst].schemas = srcOld.schemas
    /\ ~Document(dst) => file[dst].rows = FinalRows /\ file[dst].schemas = SchemasAfter

CallInv == /\ TypeOK /\ FilesOK /\ Pending /\ SourceRead /\ SourceReadable /\ Buffered
           /\ DestinationKept /\ SourceKept /\ NeverMixed /\ Returned

\* Init establishes the invariant.
LEMMA InitCallInv == Init => CallInv
<1> SUFFICES ASSUME Init PROVE CallInv
  OBVIOUS
<1>1. TypeOK
  BY InitType
<1>2. FilesOK
  BY DEF Init, FilesOK, Document
<1>3. Empty.rows = NoRows
  BY DEF Empty, Contents
<1>4. NeverMixed
  BY DEF Init, NeverMixed, OldOrNew
<1> QED
  BY <1>1, <1>2, <1>3, <1>4
  DEF Init, CallInv, Pending, SourceRead, SourceReadable, Buffered, DestinationKept,
      SourceKept, Returned, Over, BeforeRecords, BeforeCommit, Opened, Undisturbed

\* The call is the same one, between the same stores.
SameCall == UNCHANGED <<kind, src, dst, srcOld, dstOld>>

\* A step of a call that leaves the files alone.
LEMMA FilesFrame ==
  ASSUME CallInv, SameCall, file' = file
  PROVE  FilesOK' /\ SourceKept' /\ NeverMixed'
  BY DEF CallInv, SameCall, FilesOK, SourceKept, NeverMixed, OldOrNew, FinalRows,
         SchemasAfter, Document

\* A step of a call that writes the destination.
LEMMA DestinationFrame ==
  ASSUME CallInv, SameCall, NEW f \in File, file' = [file EXCEPT ![dst] = f],
         f.state \in IF Document(dst) THEN {"absent", "torn", "whole"}
                                      ELSE {"absent", "bare", "whole"},
         f.state \in {"absent", "bare"} => f.schemas = {} /\ f.rows = NoRows,
         Document(dst) => \/ f = dstOld
                          \/ f.state = "torn"
                          \/ f.state = "whole" /\ f.rows \in {NoRows, srcOld.rows},
         ~Document(dst) => OldOrNew(f)
  PROVE  /\ FilesOK' /\ SourceKept' /\ NeverMixed'
         /\ file'[dst] = f /\ \A s \in Store \ {dst} : file'[s] = file[s]
<1>1. file'[dst] = f /\ \A s \in Store \ {dst} : file'[s] = file[s]
  BY DEF CallInv, TypeOK
<1>2. FilesOK'
  BY <1>1 DEF CallInv, SameCall, FilesOK, Document
<1>3. SourceKept'
  BY <1>1 DEF CallInv, TypeOK, SameCall, SourceKept, Document
<1>4. NeverMixed'
  BY <1>1 DEF SameCall, NeverMixed, OldOrNew, FinalRows, SchemasAfter, Document
<1> QED
  BY <1>1, <1>2, <1>3, <1>4

\* convert returns or raises.
LEMMA EndFrame ==
  ASSUME CallInv, NEW r, End(r), kind' = kind, TypeOK', FilesOK', SourceKept',
         NeverMixed', r = "ok" => Returned'
  PROVE  CallInv'
<1>1. /\ pc' = "off" /\ result' = r /\ exc' = FALSE /\ buf' = Empty
      /\ src' = src /\ dst' = dst /\ srcOld' = srcOld /\ dstOld' = dstOld
  BY DEF End, Forget, call
<1>2. Returned'
  BY <1>1 DEF Returned, Over
<1>3. Empty.rows = NoRows
  BY DEF Empty, Contents
<1>4. Pending' /\ SourceRead' /\ SourceReadable' /\ Buffered' /\ DestinationKept'
  BY <1>1, <1>3
  DEF Pending, SourceRead, SourceReadable, Buffered, DestinationKept, BeforeRecords,
      BeforeCommit, Opened, Undisturbed
<1> QED
  BY <1>2, <1>4 DEF CallInv

\* What a write that is cut short leaves is no mixture either.
LEMMA CutShortFrame ==
  ASSUME CallInv, SameCall, CutShort, Document(dst)
  PROVE  FilesOK' /\ SourceKept' /\ NeverMixed'
<1>1. PICK f : /\ file' = [file EXCEPT ![dst] = f]
               /\ \/ \E c \in Prefixes : f = TornFile(c)
                  \/ f = WholeFile(buf)
  BY DEF CutShort
<1>2. f \in File
  BY <1>1, PrefixType, FileType DEF CallInv, TypeOK
<1>3. f.state = "torn" \/ (f.state = "whole" /\ f.rows \in {NoRows, srcOld.rows})
  BY <1>1 DEF WholeFile, TornFile, CallInv, Buffered
<1> QED
  BY <1>1, <1>2, <1>3, DestinationFrame

\* Every step keeps the invariant: opening both stores.
LEMMA OpeningSteps ==
  ASSUME CallInv, TypeOK',
         \/ Call \/ LoadSource \/ SourceUnreadable \/ ConnectSource
         \/ OpenDestination \/ DestinationFails
  PROVE  CallInv'
<1>1. CASE Call
  <2>1. /\ pc = "off" /\ pc' \in {"source", "off"} /\ result' \in {"none", "raised"}
        /\ src' \in Store /\ dst' \in Store /\ srcOld' = file[src'] /\ dstOld' = file[dst']
        /\ kind' = kind /\ file' = file /\ exc' = exc /\ buf' = buf
    BY <1>1 DEF Call, memory
  <2>2. exc = FALSE /\ buf = Empty /\ Empty.rows = NoRows
    BY <2>1 DEF CallInv, TypeOK, Pending, Buffered, Empty, Contents
  <2>3. FilesOK' /\ SourceKept' /\ NeverMixed' /\ Returned'
    BY <2>1 DEF CallInv, FilesOK, SourceKept, NeverMixed, OldOrNew, Returned, Over, Document
  <2>4. Pending' /\ SourceRead' /\ SourceReadable' /\ Buffered' /\ DestinationKept'
    BY <2>1, <2>2
    DEF Pending, SourceRead, SourceReadable, Buffered, DestinationKept, BeforeRecords,
        BeforeCommit, Opened, Undisturbed
  <2> QED
    BY <2>3, <2>4 DEF CallInv
<1>2. CASE LoadSource
  <2>1. /\ pc = "source" /\ pc' = "destination" /\ SameCall /\ file' = file
        /\ Document(src) /\ exc' = exc /\ buf' = buf
        /\ loaded' = Contents(file[src].schemas, file[src].rows)
        /\ file[src].state = "whole" \/ (file[src].state = "torn" /\ kind[src] = "yaml")
    BY <1>2 DEF LoadSource, SameCall, call
  <2>2. /\ file[src] = srcOld /\ file[dst] = dstOld /\ ~exc /\ buf = Empty
        /\ buf.rows \in {NoRows, srcOld.rows}
    BY <2>1 DEF CallInv, TypeOK, Pending, SourceRead, DestinationKept, Buffered
  <2>3. FilesOK' /\ SourceKept' /\ NeverMixed'
    BY <2>1, FilesFrame
  <2>4. Pending' /\ SourceRead' /\ SourceReadable'
    BY <2>1, <2>2
    DEF SameCall, Document, Pending, SourceRead, SourceReadable, Readable, BeforeRecords,
        Opened, Undisturbed
  <2>5. Buffered' /\ DestinationKept' /\ Returned'
    BY <2>1, <2>2
    DEF SameCall, Document, Buffered, DestinationKept, Returned, Over, BeforeRecords,
        BeforeCommit, Opened, Undisturbed
  <2> QED
    BY <2>3, <2>4, <2>5 DEF CallInv
<1>3. CASE SourceUnreadable
  <2>1. End("raised") /\ kind' = kind /\ file' = file /\ SameCall
    BY <1>3 DEF SourceUnreadable, End, call, SameCall
  <2> QED
    BY <2>1, FilesFrame, EndFrame
<1>4. CASE ConnectSource
  <2>1. /\ pc = "source" /\ pc' = "destination" /\ SameCall /\ ~Document(src)
        /\ exc' = exc /\ buf' = buf
        /\ file' = IF file[src].state = "absent"
                     THEN [file EXCEPT ![src].state = "bare"] ELSE file
    BY <1>4 DEF ConnectSource, SameCall, call, memory
  <2>2. /\ file[src] = srcOld /\ file[dst] = dstOld /\ ~exc /\ buf = Empty
        /\ buf.rows \in {NoRows, srcOld.rows} /\ src \in Store /\ dst \in Store
        /\ file[src] \in File
    BY <2>1 DEF CallInv, TypeOK, Pending, SourceRead, DestinationKept, Buffered
  <2>3. /\ \A s \in Store \ {src} : file'[s] = file[s]
        /\ file'[src].rows = file[src].rows /\ file'[src].schemas = file[src].schemas
        /\ file'[src].state = IF file[src].state = "absent" THEN "bare" ELSE file[src].state
        /\ \/ file'[src] = file[src]
           \/ file[src].state = "absent" /\ file'[src] = [file[src] EXCEPT !.state = "bare"]
    BY <2>1, <2>2 DEF CallInv, TypeOK, File
  <2>4. FilesOK'
    BY <2>1, <2>2, <2>3 DEF CallInv, FilesOK, SameCall, Document
  <2>5. SourceKept' /\ NeverMixed'
    BY <2>1, <2>2, <2>3 DEF SameCall, SourceKept, NeverMixed, OldOrNew, Document
  <2>6. Pending' /\ SourceRead' /\ SourceReadable'
    BY <2>1, <2>2, <2>3
    DEF SameCall, Document, Pending, SourceRead, SourceReadable, Readable, BeforeRecords,
        Opened, Undisturbed
  <2>7. Buffered' /\ DestinationKept' /\ Returned'
    BY <2>1, <2>2, <2>3
    DEF SameCall, Document, Buffered, DestinationKept, Returned, Over, BeforeRecords,
        BeforeCommit, Opened, Undisturbed
  <2> QED
    BY <2>4, <2>5, <2>6, <2>7 DEF CallInv
<1>5. CASE OpenDestination
  <2>1. /\ pc = "destination" /\ pc' = "schemas" /\ SameCall /\ exc' = exc /\ buf' = buf
        /\ loaded' = loaded
    BY <1>5 DEF OpenDestination, SameCall, call, memory
  <2>2. ~exc /\ buf = Empty /\ buf.rows \in {NoRows, srcOld.rows}
    BY <2>1 DEF CallInv, TypeOK, Pending, Buffered
  <2>3. CASE Document(dst) \/ file[dst].state = "whole"
    <3>1. file' = file
      BY <1>5, <2>3 DEF OpenDestination
    <3>2. FilesOK' /\ SourceKept' /\ NeverMixed'
      BY <2>1, <3>1, FilesFrame
    <3>3. Pending' /\ SourceRead' /\ SourceReadable'
      BY <2>1, <2>2, <3>1
      DEF CallInv, SameCall, Document, Pending, SourceRead, SourceReadable, Readable,
          BeforeRecords, Opened, Undisturbed
    <3>4. Buffered' /\ DestinationKept' /\ Returned'
      BY <2>1, <2>2, <2>3, <3>1
      DEF CallInv, SameCall, Document, Buffered, DestinationKept, Returned, Over,
          BeforeRecords, BeforeCommit, Opened, Undisturbed
    <3> QED
      BY <3>2, <3>3, <3>4 DEF CallInv
  <2>4. CASE ~Document(dst) /\ file[dst].state # "whole"
    <3>1. file' = [file EXCEPT ![dst] = WholeFile(Empty)]
      BY <1>5, <2>4 DEF OpenDestination
    <3>2. /\ WholeFile(Empty) \in File /\ WholeFile(Empty).state = "whole"
          /\ WholeFile(Empty).schemas = {} /\ WholeFile(Empty).rows = NoRows
      BY EmptyType, FileType DEF WholeFile, Empty, Contents
    <3>3. file[dst].schemas = {} /\ file[dst].rows = NoRows /\ file[dst].rows = dstOld.rows
          /\ file[dst].schemas = dstOld.schemas
      BY <2>1, <2>4 DEF CallInv, TypeOK, FilesOK, DestinationKept, BeforeRecords, BeforeCommit
    <3>4. /\ FilesOK' /\ SourceKept' /\ NeverMixed'
          /\ file'[dst] = WholeFile(Empty) /\ \A s \in Store \ {dst} : file'[s] = file[s]
      BY <2>1, <2>4, <3>1, <3>2, <3>3, DestinationFrame DEF OldOrNew
    <3>5. file'[src].rows = file[src].rows /\ file'[src].schemas = file[src].schemas
      BY <3>2, <3>3, <3>4 DEF CallInv, TypeOK
    <3>6. Pending' /\ SourceRead' /\ SourceReadable'
      BY <2>1, <2>2, <3>5
      DEF CallInv, SameCall, Document, Pending, SourceRead, SourceReadable, Readable,
          BeforeRecords, Opened, Undisturbed
    <3>7. Buffered' /\ DestinationKept' /\ Returned'
      BY <2>1, <2>2, <2>4, <3>2, <3>3, <3>4
      DEF SameCall, Document, Buffered, DestinationKept, Returned, Over, BeforeRecords,
          BeforeCommit, Opened, Undisturbed
    <3> QED
      BY <3>4, <3>6, <3>7 DEF CallInv
  <2> QED
    BY <2>3, <2>4
<1>6. CASE DestinationFails
  <2>1. pc = "destination" /\ ~Document(dst) /\ End("raised") /\ kind' = kind /\ SameCall
    BY <1>6 DEF DestinationFails, End, call, SameCall
  <2>2. CASE file' = file
    BY <2>1, <2>2, FilesFrame, EndFrame
  <2>3. CASE file' # file
    <3> DEFINE f == [file[dst] EXCEPT !.state = "bare"]
    <3>1. dst \in Store /\ file[dst] \in File
      BY DEF CallInv, TypeOK
    <3>2. file[dst].state = "absent" /\ file' = [file EXCEPT ![dst] = f]
      BY <1>6, <2>3, <3>1 DEF DestinationFails, CallInv, TypeOK, File
    <3>3. /\ f \in File /\ f.state = "bare" /\ f.schemas = file[dst].schemas
          /\ f.rows = file[dst].rows
      BY <3>1 DEF File
    <3>4. file[dst].schemas = {} /\ file[dst].rows = NoRows /\ file[dst].rows = dstOld.rows
          /\ file[dst].schemas = dstOld.schemas
      BY <2>1, <3>1, <3>2 DEF CallInv, FilesOK, DestinationKept, BeforeRecords, BeforeCommit
    <3> HIDE DEF f
    <3>5. FilesOK' /\ SourceKept' /\ NeverMixed'
      BY <2>1, <3>2, <3>3, <3>4, DestinationFrame DEF OldOrNew
    <3> QED
      BY <2>1, <3>5, EndFrame
  <2> QED
    BY <2>2, <2>3
<1> QED
  BY <1>1, <1>2, <1>3, <1>4, <1>5, <1>6

\* A step of the try block raises before the destination's records are written.
LEMMA RaiseFrame ==
  ASSUME CallInv, TypeOK', SameCall, Raise, pc \in Opened, pc \in BeforeCommit,
         file' = file, buf' = buf, loaded' = loaded
  PROVE  CallInv'
<1>1. pc' = "close" /\ exc'
  BY DEF Raise
<1>2. FilesOK' /\ SourceKept' /\ NeverMixed'
  BY FilesFrame
<1>3. Pending' /\ SourceRead' /\ SourceReadable'
  BY <1>1
  DEF CallInv, SameCall, Document, Pending, SourceRead, SourceReadable, BeforeRecords,
      Opened, Undisturbed
<1>4. Buffered' /\ DestinationKept' /\ Returned'
  BY <1>1
  DEF CallInv, SameCall, Document, Buffered, DestinationKept, Returned, Over,
      BeforeRecords, BeforeCommit, Opened, Undisturbed
<1> QED
  BY <1>2, <1>3, <1>4 DEF CallInv

\* Every step keeps the invariant: copying schemas and records.
LEMMA CopyingSteps ==
  ASSUME CallInv, TypeOK',
         GetSchemas \/ PutSchemas \/ InsertSchema \/ GetRecords \/ PutRecords
  PROVE  CallInv'
<1>1. CASE GetSchemas
  <2>1. /\ pc = "schemas" /\ SameCall /\ file' = file /\ loaded' = loaded /\ buf' = buf
    BY <1>1 DEF GetSchemas, SameCall, call
  <2>2. CASE Raise
    BY <2>1, <2>2, RaiseFrame DEF Opened, BeforeCommit, BeforeRecords
  <2>3. CASE ~Raise
    <3>1. /\ Document(src) \/ file[src].state = "whole"
          /\ schemas' = IF Document(src) THEN loaded.schemas ELSE file[src].schemas
          /\ pc' = "put_schemas" /\ exc' = exc
      BY <1>1, <2>3 DEF GetSchemas
    <3>2. ~exc /\ buf = Empty /\ buf.rows \in {NoRows, srcOld.rows}
      BY <2>1 DEF CallInv, TypeOK, Pending, Buffered
    <3>3. schemas' = srcOld.schemas
      BY <2>1, <3>1 DEF CallInv, SourceRead, Opened, Contents
    <3>4. Readable
      <4>1. CASE Document(src)
        BY <2>1, <4>1 DEF CallInv, SourceReadable
      <4>2. CASE ~Document(src) /\ src # dst
        BY <2>1, <3>1, <4>2 DEF CallInv, TypeOK, File, SourceKept, Readable
      <4> QED
        BY <4>1, <4>2 DEF Readable
    <3>5. FilesOK' /\ SourceKept' /\ NeverMixed'
      BY <2>1, FilesFrame
    <3>6. Pending' /\ SourceRead'
      BY <2>1, <3>1, <3>2, <3>3
      DEF CallInv, SameCall, Document, Pending, SourceRead, BeforeRecords, Opened
    <3>7. SourceReadable'
      BY <2>1, <3>1, <3>4 DEF SameCall, Document, SourceReadable, Readable
    <3>8. Buffered' /\ DestinationKept' /\ Returned'
      BY <2>1, <3>1, <3>2
      DEF CallInv, SameCall, Document, Buffered, DestinationKept, Returned, Over,
          BeforeRecords, BeforeCommit, Opened, Undisturbed
    <3> QED
      BY <3>5, <3>6, <3>7, <3>8 DEF CallInv
  <2> QED
    BY <2>2, <2>3
<1>2. CASE PutSchemas
  <2>1. pc = "put_schemas" /\ SameCall /\ loaded' = loaded /\ schemas' = schemas
    BY <1>2 DEF PutSchemas, SameCall, call
  <2>2. /\ ~exc /\ buf = Empty /\ schemas = srcOld.schemas /\ Empty.schemas = {}
        /\ Empty.rows = NoRows /\ Readable /\ dst \in Store /\ file[dst] \in File
    BY <2>1
    DEF CallInv, TypeOK, Pending, SourceRead, SourceReadable, Undisturbed, Opened, Buffered,
        Empty, Contents
  <2>3. CASE schemas = {} \/ Document(dst)
    <3>1. /\ pc' = "get_records" /\ file' = file /\ exc' = exc /\ buf'.rows = NoRows
          /\ Document(dst) => buf'.schemas = schemas
      BY <1>2, <2>2, <2>3 DEF PutSchemas, CallInv, TypeOK
    <3>2. FilesOK' /\ SourceKept' /\ NeverMixed'
      BY <2>1, <3>1, FilesFrame
    <3>3. Pending' /\ SourceRead' /\ SourceReadable'
      BY <2>1, <2>2, <3>1
      DEF CallInv, SameCall, Document, Pending, SourceRead, SourceReadable, Readable,
          BeforeRecords, Opened, Undisturbed
    <3>4. Buffered'
      BY <2>1, <2>2, <3>1 DEF SameCall, Document, Buffered, Undisturbed
    <3>5. DestinationKept' /\ Returned'
      BY <2>1, <2>2, <2>3, <3>1
      DEF CallInv, SameCall, Document, DestinationKept, Returned, Over, SchemasAfter,
          BeforeRecords, BeforeCommit, Opened, Undisturbed
    <3> QED
      BY <3>2, <3>3, <3>4, <3>5 DEF CallInv
  <2>4. CASE schemas # {} /\ ~Document(dst) /\ ~Raise
    <3> DEFINE f == [file[dst] EXCEPT !.schemas = {}]
    <3>1. pc' = "insert" /\ buf' = buf /\ exc' = exc /\ file' = [file EXCEPT ![dst] = f]
      BY <1>2, <2>4 DEF PutSchemas
    <3>2. f \in File /\ f.state = file[dst].state /\ f.schemas = {} /\ f.rows = file[dst].rows
      BY <2>2 DEF File
    <3>3. file[dst].state = "whole" /\ file[dst].rows = dstOld.rows
      BY <2>1, <2>4 DEF CallInv, DestinationKept, Opened, BeforeCommit, BeforeRecords
    <3> HIDE DEF f
    <3>4. /\ FilesOK' /\ SourceKept' /\ NeverMixed'
          /\ file'[dst] = f /\ \A s \in Store \ {dst} : file'[s] = file[s]
      BY <2>1, <2>4, <3>1, <3>2, <3>3, DestinationFrame DEF OldOrNew
    <3>5. file'[src].rows = file[src].rows
      BY <3>2, <3>4 DEF CallInv, TypeOK
    <3>6. Pending' /\ SourceRead' /\ SourceReadable'
      BY <2>1, <2>2, <3>1, <3>5
      DEF CallInv, SameCall, Document, Pending, SourceRead, SourceReadable, Readable,
          BeforeRecords, Opened, Undisturbed
    <3>7. Buffered' /\ DestinationKept' /\ Returned'
      BY <2>1, <2>2, <2>4, <3>1, <3>2, <3>3, <3>4
      DEF SameCall, Document, Buffered, DestinationKept, Returned, Over, BeforeRecords,
          BeforeCommit, Opened, Undisturbed
    <3> QED
      BY <3>4, <3>6, <3>7 DEF CallInv
  <2>5. CASE schemas # {} /\ ~Document(dst) /\ Raise
    <3>1. file' = file /\ buf' = buf
      BY <1>2, <2>5 DEF PutSchemas, Raise
    <3> QED
      BY <2>1, <2>5, <3>1, RaiseFrame DEF Opened, BeforeCommit, BeforeRecords
  <2> QED
    BY <2>3, <2>4, <2>5
<1>3. CASE InsertSchema
  <2>1. /\ pc = "insert" /\ SameCall /\ loaded' = loaded /\ schemas' = schemas /\ buf' = buf
    BY <1>3 DEF InsertSchema, SameCall, call
  <2>2. /\ ~exc /\ buf = Empty /\ schemas = srcOld.schemas /\ schemas # {}
        /\ file[dst].schemas \subseteq schemas /\ ~Document(dst) /\ Empty.rows = NoRows
        /\ file[dst].state = "whole" /\ file[dst].rows = dstOld.rows
        /\ Readable /\ dst \in Store /\ file[dst] \in File /\ schemas \subseteq Schema
    BY <2>1
    DEF CallInv, TypeOK, Pending, SourceRead, SourceReadable, Undisturbed, Opened, Buffered,
        DestinationKept, BeforeCommit, BeforeRecords, Empty, Contents
  <2>3. CASE Raise
    <3>1. file' = file
      BY <1>3, <2>1, <2>3 DEF InsertSchema, Raise
    <3> QED
      BY <2>1, <2>3, <3>1, RaiseFrame DEF Opened, BeforeCommit, BeforeRecords
  <2>4. CASE pc' = "get_records"
    <3>1. file' = file /\ exc' = exc /\ schemas \subseteq file[dst].schemas
      BY <1>3, <2>1, <2>4 DEF InsertSchema, Raise
    <3>2. FilesOK' /\ SourceKept' /\ NeverMixed'
      BY <2>1, <3>1, FilesFrame
    <3>3. Pending' /\ SourceRead' /\ SourceReadable'
      BY <2>1, <2>2, <2>4, <3>1
      DEF CallInv, SameCall, Document, Pending, SourceRead, SourceReadable, Readable,
          BeforeRecords, Opened, Undisturbed
    <3>4. file[dst].schemas = SchemasAfter
      BY <2>2, <3>1 DEF SchemasAfter
    <3>5. Buffered' /\ DestinationKept' /\ Returned'
      BY <2>1, <2>2, <2>4, <3>1, <3>4
      DEF SameCall, Document, Buffered, DestinationKept, Returned, Over, SchemasAfter,
          BeforeRecords, BeforeCommit, Opened, Undisturbed
    <3> QED
      BY <3>2, <3>3, <3>5 DEF CallInv
  <2>5. CASE pc' = "insert"
    <3>1. PICK x \in schemas : file' = [file EXCEPT ![dst].schemas = @ \cup {x}]
      BY <1>3, <2>1, <2>5 DEF InsertSchema, Raise
    <3> DEFINE f == [file[dst] EXCEPT !.schemas = @ \cup {x}]
    <3>2. exc' = exc /\ file' = [file EXCEPT ![dst] = f]
      BY <1>3, <2>1, <2>5, <3>1 DEF InsertSchema, Raise
    <3>3. /\ f \in File /\ f.state = "whole" /\ f.rows = dstOld.rows
          /\ f.schemas \subseteq schemas
      BY <2>2 DEF File
    <3> HIDE DEF f
    <3>4. /\ FilesOK' /\ SourceKept' /\ NeverMixed'
          /\ file'[dst] = f /\ \A s \in Store \ {dst} : file'[s] = file[s]
      BY <2>1, <2>2, <3>2, <3>3, DestinationFrame DEF OldOrNew
    <3>5. file'[src].rows = file[src].rows
      BY <2>2, <3>3, <3>4 DEF CallInv, TypeOK
    <3>6. Pending' /\ SourceRead' /\ SourceReadable'
      BY <2>1, <2>2, <2>5, <3>2, <3>5
      DEF CallInv, SameCall, Document, Pending, SourceRead, SourceReadable, Readable,
          BeforeRecords, Opened, Undisturbed
    <3>7. Buffered' /\ DestinationKept' /\ Returned'
      BY <2>1, <2>2, <2>5, <3>2, <3>3, <3>4
      DEF SameCall, Document, Buffered, DestinationKept, Returned, Over, BeforeRecords,
          BeforeCommit, Opened, Undisturbed
    <3> QED
      BY <3>4, <3>6, <3>7 DEF CallInv
  <2> QED
    BY <1>3, <2>1, <2>3, <2>4, <2>5 DEF InsertSchema
<1>4. CASE GetRecords
  <2>1. /\ pc = "get_records" /\ SameCall /\ file' = file /\ loaded' = loaded /\ buf' = buf
    BY <1>4 DEF GetRecords, SameCall, call
  <2>2. CASE Raise
    BY <2>1, <2>2, RaiseFrame DEF Opened, BeforeCommit, BeforeRecords
  <2>3. CASE ~Raise
    <3>1. /\ recs' = IF Document(src) THEN loaded.rows ELSE file[src].rows
          /\ pc' = "put_records" /\ exc' = exc
      BY <1>4, <2>3 DEF GetRecords
    <3>2. ~exc /\ recs' = srcOld.rows
      BY <2>1, <3>1 DEF CallInv, TypeOK, Pending, SourceRead, BeforeRecords, Opened, Contents
    <3>3. FilesOK' /\ SourceKept' /\ NeverMixed'
      BY <2>1, FilesFrame
    <3>4. Pending' /\ SourceRead' /\ SourceReadable'
      BY <2>1, <3>1, <3>2
      DEF CallInv, SameCall, Document, Pending, SourceRead, SourceReadable, Readable,
          BeforeRecords, Opened, Undisturbed
    <3>5. Buffered' /\ DestinationKept' /\ Returned'
      BY <2>1, <3>1, <3>2
      DEF CallInv, SameCall, Document, Buffered, DestinationKept, Returned, Over,
          SchemasAfter, BeforeRecords, BeforeCommit, Opened, Undisturbed
    <3> QED
      BY <3>3, <3>4, <3>5 DEF CallInv
  <2> QED
    BY <2>2, <2>3
<1>5. CASE PutRecords
  <2>1. /\ pc = "put_records" /\ SameCall /\ file' = file /\ loaded' = loaded
    BY <1>5 DEF PutRecords, SameCall, call
  <2>2. CASE Raise
    <3>1. buf' = buf
      BY <1>5, <2>2 DEF PutRecords, Raise
    <3> QED
      BY <2>1, <2>2, <3>1, RaiseFrame DEF Opened, BeforeCommit, BeforeRecords
  <2>3. CASE ~Raise
    <3>1. /\ pc' = "commit" /\ exc' = exc
          /\ Document(dst) => buf' = [buf EXCEPT !.rows = recs]
          /\ ~Document(dst) => buf' = buf /\ tx' = Upsert(file[dst].rows, recs)
      BY <1>5, <2>3 DEF PutRecords
    <3>2. ~exc /\ recs = srcOld.rows
      BY <2>1 DEF CallInv, TypeOK, Pending, SourceRead
    <3>3. /\ Document(dst) => buf'.schemas = buf.schemas /\ buf'.rows = srcOld.rows
          /\ ~Document(dst) => tx' = FinalRows
      BY <2>1, <3>1, <3>2
      DEF CallInv, TypeOK, DestinationKept, BeforeCommit, FinalRows
    <3>4. FilesOK' /\ SourceKept' /\ NeverMixed'
      BY <2>1, FilesFrame
    <3>5. Pending' /\ SourceRead' /\ SourceReadable'
      BY <2>1, <3>1, <3>2
      DEF CallInv, SameCall, Document, Pending, SourceRead, SourceReadable, Readable,
          BeforeRecords, Opened, Undisturbed
    <3>6. Buffered'
      BY <2>1, <3>1, <3>2, <3>3
      DEF CallInv, SameCall, Document, Buffered, Undisturbed
    <3>7. DestinationKept' /\ Returned'
      BY <2>1, <3>1, <3>2, <3>3
      DEF CallInv, SameCall, Document, DestinationKept, Returned, Over, SchemasAfter,
          FinalRows, BeforeRecords, BeforeCommit, Opened, Undisturbed
    <3> QED
      BY <3>4, <3>5, <3>6, <3>7 DEF CallInv
  <2> QED
    BY <2>2, <2>3
<1> QED
  BY <1>1, <1>2, <1>3, <1>4, <1>5

\* Every step keeps the invariant: writing the destination and closing it.
LEMMA WritingSteps ==
  ASSUME CallInv, TypeOK',
         \/ CommitRows \/ Truncate \/ CannotOpen \/ Dump \/ Redump \/ CloseDatabase
         \/ Crash \/ UNCHANGED vars
  PROVE  CallInv'
<1>0. /\ src \in Store /\ dst \in Store /\ file[dst] \in File /\ exc \in BOOLEAN
      /\ buf \in [schemas : SUBSET Schema, rows : Rows] /\ tx \in Rows
      /\ WholeFile(buf) \in File /\ WholeFile(buf).state = "whole"
      /\ WholeFile(buf).schemas = buf.schemas /\ WholeFile(buf).rows = buf.rows
      /\ buf.rows \in {NoRows, srcOld.rows}
  BY FileType DEF CallInv, TypeOK, Buffered, WholeFile
<1>w. ASSUME SameCall, Document(dst), file' = [file EXCEPT ![dst] = WholeFile(buf)]
      PROVE  FilesOK' /\ SourceKept' /\ NeverMixed' /\ file'[dst] = WholeFile(buf)
  BY <1>0, <1>w, DestinationFrame
<1>1. CASE CommitRows
  <2>1. pc = "commit" /\ ~Document(dst) /\ SameCall /\ loaded' = loaded /\ buf' = buf
    BY <1>1 DEF CommitRows, SameCall, call
  <2>2. CASE Raise
    <3>1. file' = file
      BY <1>1, <2>1, <2>2 DEF CommitRows, Raise, CallInv, TypeOK, Pending
    <3> QED
      BY <2>1, <2>2, <3>1, RaiseFrame DEF Opened, BeforeCommit, BeforeRecords
  <2>3. CASE ~Raise
    <3> DEFINE f == [file[dst] EXCEPT !.rows = tx]
    <3>1. pc' = "close" /\ exc' = exc /\ file' = [file EXCEPT ![dst] = f]
      BY <1>1, <2>3 DEF CommitRows
    <3>2. /\ ~exc /\ tx = FinalRows /\ file[dst].state = "whole"
          /\ file[dst].schemas = SchemasAfter /\ Readable
      BY <2>1
      DEF CallInv, TypeOK, Pending, DestinationKept, SourceReadable, Opened, Undisturbed
    <3>3. f \in File /\ f.state = "whole" /\ f.rows = FinalRows /\ f.schemas = SchemasAfter
      BY <1>0, <3>2 DEF File
    <3> HIDE DEF f
    <3>4. /\ FilesOK' /\ SourceKept' /\ NeverMixed' /\ file'[dst] = f
      BY <2>1, <3>1, <3>3, DestinationFrame DEF OldOrNew
    <3>5. Pending' /\ SourceRead' /\ SourceReadable'
      BY <2>1, <3>1, <3>2
      DEF CallInv, SameCall, Document, Pending, SourceRead, SourceReadable, Readable,
          BeforeRecords, Opened, Undisturbed
    <3>6. Buffered'
      BY <2>1, <3>1, <1>0 DEF SameCall, Document, Buffered
    <3>7. DestinationKept' /\ Returned'
      BY <2>1, <3>1, <3>2, <3>3, <3>4
      DEF SameCall, Document, DestinationKept, Returned, Over, SchemasAfter, FinalRows,
          BeforeRecords, BeforeCommit, Opened, Undisturbed
    <3> QED
      BY <3>4, <3>5, <3>6, <3>7 DEF CallInv
  <2> QED
    BY <2>2, <2>3
<1>2. CASE Truncate
  <2>1. /\ Document(dst) /\ SameCall /\ loaded' = loaded /\ buf' = buf /\ exc' = exc
        /\ \/ pc = "commit" /\ pc' = "dump"
           \/ pc = "close" /\ pc' = "redump"
        /\ file' = [file EXCEPT ![dst] = TornFile(Empty)]
    BY <1>2 DEF Truncate, SameCall, call, memory
  <2>2. TornFile(Empty) \in File /\ TornFile(Empty).state = "torn"
    BY EmptyType, FileType DEF TornFile
  <2>3. FilesOK' /\ SourceKept' /\ NeverMixed'
    BY <2>1, <2>2, DestinationFrame
  <2>4. Pending' /\ SourceRead' /\ SourceReadable'
    BY <2>1
    DEF CallInv, SameCall, Document, Pending, SourceRead, SourceReadable, Readable,
        BeforeRecords, Opened, Undisturbed
  <2>5. Buffered' /\ DestinationKept' /\ Returned'
    BY <2>1
    DEF CallInv, SameCall, Document, Buffered, DestinationKept, Returned, Over,
        BeforeRecords, BeforeCommit, Opened, Undisturbed
  <2> QED
    BY <2>3, <2>4, <2>5 DEF CallInv
<1>3. CASE Dump
  <2>1. /\ pc = "dump" /\ Document(dst) /\ SameCall /\ loaded' = loaded /\ buf' = buf
        /\ pc' = "close" /\ exc' \in BOOLEAN
    BY <1>3 DEF Dump, Raise, SameCall, call, CallInv, TypeOK, DestinationKept
  <2>2. FilesOK' /\ SourceKept' /\ NeverMixed'
    BY <1>3, <1>w, <2>1, CutShortFrame DEF Dump
  <2>3. Pending' /\ SourceRead' /\ SourceReadable'
    BY <2>1
    DEF CallInv, SameCall, Document, Pending, SourceRead, SourceReadable, Readable,
        BeforeRecords, Opened, Undisturbed
  <2>4. Buffered' /\ DestinationKept' /\ Returned'
    BY <2>1
    DEF CallInv, SameCall, Document, Buffered, DestinationKept, Returned, Over,
        BeforeRecords, BeforeCommit, Opened, Undisturbed
  <2> QED
    BY <2>2, <2>3, <2>4 DEF CallInv
<1>4. CASE Redump
  <2>1. pc = "redump" /\ Document(dst) /\ kind' = kind
    BY <1>4 DEF Redump, CallInv, DestinationKept
  <2>2. CASE CutShort /\ End("raised")
    <3>1. SameCall
      BY <2>1, <2>2 DEF End, call, SameCall
    <3> QED
      BY <2>1, <2>2, <3>1, CutShortFrame, EndFrame
  <2>3. CASE file' = [file EXCEPT ![dst] = WholeFile(buf)] /\ End(Outcome)
    <3>1. SameCall
      BY <2>1, <2>3 DEF End, call, SameCall
    <3>2. FilesOK' /\ SourceKept' /\ NeverMixed' /\ file'[dst] = WholeFile(buf)
      BY <1>w, <2>1, <2>3, <3>1
    <3>3. ASSUME Outcome = "ok" PROVE Returned'
      <4>1. ~exc
        BY <3>3 DEF Outcome
      <4>2. Readable /\ buf.rows = srcOld.rows /\ buf.schemas = srcOld.schemas
        BY <2>1, <4>1 DEF CallInv, SourceReadable, Buffered, Undisturbed
      <4> QED
        BY <1>0, <2>1, <3>1, <3>2, <4>2 DEF Returned, Readable, SameCall, Document
    <3> QED
      BY <2>1, <2>3, <3>2, <3>3, EndFrame
  <2> QED
    BY <1>4, <2>2, <2>3 DEF Redump
<1>5. CASE CloseDatabase
  <2>1. /\ pc = "close" /\ ~Document(dst) /\ End(Outcome) /\ kind' = kind /\ file' = file
        /\ SameCall
    BY <1>5 DEF CloseDatabase, End, call, SameCall
  <2>2. ASSUME Outcome = "ok" PROVE Returned'
    <3>1. ~exc
      BY <2>2 DEF Outcome
    <3>2. /\ Readable /\ file[dst].state = "whole" /\ file[dst].rows = FinalRows
          /\ file[dst].schemas = SchemasAfter
      BY <2>1, <3>1 DEF CallInv, SourceReadable, DestinationKept, Opened, Undisturbed
    <3> QED
      BY <2>1, <3>2 DEF Returned, Readable, SameCall, Document, FinalRows, SchemasAfter
  <2> QED
    BY <2>1, <2>2, FilesFrame, EndFrame
<1>6. CASE Crash
  <2>1. End("killed") /\ kind' = kind /\ SameCall
    BY <1>6 DEF Crash, End, call, SameCall
  <2>2. FilesOK' /\ SourceKept' /\ NeverMixed'
    BY <1>6, <2>1, FilesFrame, CutShortFrame DEF Crash, CallInv, DestinationKept
  <2> QED
    BY <2>1, <2>2, EndFrame
<1>7. CASE UNCHANGED vars
  <2>1. SameCall /\ file' = file /\ pc' = pc /\ loaded' = loaded /\ schemas' = schemas
        /\ recs' = recs /\ buf' = buf /\ tx' = tx /\ exc' = exc /\ result' = result
    BY <1>7 DEF vars, SameCall
  <2>2. FilesOK' /\ SourceKept' /\ NeverMixed'
    BY <2>1, FilesFrame
  <2>3. Pending' /\ SourceRead' /\ SourceReadable'
    BY <2>1
    DEF CallInv, SameCall, Document, Pending, SourceRead, SourceReadable, Readable,
        BeforeRecords, Opened, Undisturbed
  <2>4. Buffered' /\ DestinationKept' /\ Returned'
    BY <2>1
    DEF CallInv, SameCall, Document, Buffered, DestinationKept, Returned, Over, Readable,
        SchemasAfter, FinalRows, Undisturbed
  <2> QED
    BY <2>2, <2>3, <2>4 DEF CallInv
<1>8. CASE CannotOpen
  <2>1. CASE pc = "commit"
    <3>1. SameCall /\ Raise /\ file' = file /\ buf' = buf /\ loaded' = loaded
      BY <1>8, <2>1 DEF CannotOpen, SameCall, call
    <3> QED
      BY <2>1, <3>1, RaiseFrame DEF Opened, BeforeCommit
  <2>2. CASE pc # "commit"
    <3>1. End("raised") /\ kind' = kind /\ file' = file /\ SameCall
      BY <1>8, <2>2 DEF CannotOpen, End, call, SameCall
    <3> QED
      BY <3>1, FilesFrame, EndFrame
  <2> QED
    BY <2>1, <2>2
<1> QED
  BY <1>1, <1>2, <1>3, <1>4, <1>5, <1>6, <1>7, <1>8

\* The invariant is inductive.
LEMMA CallInvInductive == CallInv /\ [Next]_vars => CallInv'
<1> SUFFICES ASSUME CallInv, [Next]_vars PROVE CallInv'
  OBVIOUS
<1>1. TypeOK'
  BY TypeStep DEF CallInv
<1> QED
  BY <1>1, OpeningSteps, CopyingSteps, WritingSteps DEF Next, convert

\* At every step of every call, what was read and what was written stand in
\* their place to the two files as the call found them.
THEOREM Invariance == Spec => []CallInv
  BY InitCallInv, CallInvInductive, PTL DEF Spec

\* A call of convert that returns has lost nothing: the source's records and
\* schemas are in the destination, whatever earlier calls, failed or killed ones
\* included, left there, and also when both are the same store.
THEOREM ConvertLossless == Spec => []Lossless
<1>1. CallInv => Lossless
  BY UpsertUpdates
  DEF CallInv, Returned, Lossless, FinalRows, SchemasAfter
<1> QED
  BY <1>1, Invariance, PTL

\* convert does not return for a source that is missing or damaged, but in the
\* two cases DamageRaises names.
THEOREM DamageNeverReturns == Spec => []DamageRaises
<1>1. CallInv => DamageRaises
  BY DEF CallInv, Returned, Readable, DamageRaises
<1> QED
  BY <1>1, Invariance, PTL

\* A call that raises or is killed, at whichever step, leaves no mixture of the
\* destination's old records and the source's.
THEOREM NothingMixed == Spec => []NoMixture
<1>1. CallInv => NoMixture
  BY UpsertUpdates DEF CallInv, NeverMixed, OldOrNew, NoMixture, FinalRows
<1> QED
  BY <1>1, Invariance, PTL

\* However a call ends, it has only read its source.
THEOREM SourceUntouched == Spec => []SourceKept
<1>1. CallInv => SourceKept
  BY DEF CallInv
<1> QED
  BY <1>1, Invariance, PTL

============================================================================
