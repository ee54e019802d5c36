--------------------------- MODULE ExtractProofs ---------------------------
(***************************************************************************)
(* Theorems about repeated runs of `extract`, gated or not, for any        *)
(* manifest, any bank contents and any backend lists, in every             *)
(* environment. KeysStayUnique needs a manifest without a bank listed      *)
(* twice, and so does the half of DocumentExact about skipped banks.       *)
(***************************************************************************)
EXTENDS Extract, TLAPS

USE EntriesAssumption, VersionAssumption, ConfigAssumption, EnvironmentAssumption

Writing == {"write", "dump", "close", "redump", "commit", "done"}

\* While a bank is at hand there is one, and while a backend is written it is
\* the one the code branch was taken for.
ProgressOK ==
  /\ pc \in {"parse", "stamp"} => bankNo \in DOMAIN Entries
  /\ pc \in {"gate", "parse", "stamp"} => outNo = 1
  /\ pc \in {"dump", "close", "redump"} =>
       outNo \in DOMAIN backends /\ backends[outNo] = "json"
  /\ pc = "commit" => outNo \in DOMAIN backends /\ backends[outNo] = "sqlite3"
  /\ pc \in Writing => bankNo > Len(Entries)
  /\ pc = "done" => outNo > Len(backends)
  /\ pc = "off" => index = {} /\ bankNo = 1

IndInv == TypeOK /\ ProgressOK

\* The manifest as a function.
LEMMA EntriesDomain == /\ Len(Entries) \in Nat
                       /\ DOMAIN Entries = 1 .. Len(Entries)
                       /\ \A i \in 1 .. Len(Entries) : Entries[i] \in Bank
  BY DEF Bank

\* Backend lists are sequences.
LEMMA BackendsDomain ==
  \A c \in BackendConfigs \cup {<< >>} : /\ c \in Seq({"json", "sqlite3", "unregistered"})
                                         /\ Len(c) \in Nat /\ DOMAIN c = 1 .. Len(c)
<1> DEFINE Name == {"json", "sqlite3", "unregistered"}
<1>1. << >> \in Seq(Name)
  OBVIOUS
<1>2. BackendConfigs \subseteq Seq(Name)
  BY DEF Name
<1>3. \A c \in Seq(Name) : Len(c) \in Nat /\ DOMAIN c = 1 .. Len(c)
  OBVIOUS
<1> QED
  BY <1>1, <1>2, <1>3

\* What a parser yields are rows of its bank and of the version it read.
LEMMA ParsedRows ==
  \A b \in Bank, v \in Version \cup {Missing} :
    /\ Parsed(b, v) \subseteq Row
    /\ \A r \in Parsed(b, v) : r.bank = b /\ r.ver = v /\ v # Missing
  BY DEF Parsed, Row

\* The bank at hand.
LEMMA CurrentBank ==
  ASSUME TypeOK, bankNo \in DOMAIN Entries
  PROVE  Current \in Bank /\ src[Current] \in Version \cup {Missing}
  BY EntriesDomain DEF Current, TypeOK

LEMMA HashType ==
  ASSUME TypeOK, NEW b \in Bank
  PROVE  /\ _dir_hash(b) \in {Sig[v] : v \in Version} \cup {NoSig}
         /\ _dir_hash(b) # NoSig => src[b] \in Version /\ _dir_hash(b) = Sig[src[b]]
  BY DEF TypeOK, _dir_hash

LEMMA UpsertRows == \A t, r \in SUBSET Row : Upsert(t, r) \subseteq Row
  BY DEF Upsert

\* Init establishes the invariant.
LEMMA InitIndInv == Init => IndInv
<1> SUFFICES ASSUME Init PROVE IndInv
  OBVIOUS
<1>1. gated \in BOOLEAN
  BY Zenon DEF Init
<1>2. Len(<< >>) = 0 /\ 1 \in 1 .. 1 /\ 1 \in 1 .. Len(Entries) + 1
  BY EntriesDomain
<1>3. TypeOK
  BY <1>1, <1>2 DEF Init, TypeOK, Steps
<1> QED
  BY <1>3 DEF Init, IndInv, ProgressOK, Writing

\* The end of the process leaves nothing in memory.
LEMMA DeadIsTyped ==
  ASSUME TypeOK, Die,
         src' \in [Bank -> Version \cup {Missing}],
         stamp' \in [Bank -> {Sig[v] : v \in Version} \cup {NoSig}],
         docState' \in {"absent", "torn", "whole"}, doc' \subseteq Row, db' \subseteq Row
  PROVE  IndInv'
<1>1. gated' \in BOOLEAN
  BY Zenon DEF Die
<1>2. Len(<< >>) = 0 /\ 1 \in 1 .. 1 /\ 1 \in 1 .. Len(Entries) + 1
  BY EntriesDomain
<1>3. TypeOK'
  BY <1>1, <1>2 DEF Die, TypeOK, Steps
<1> QED
  BY <1>3 DEF Die, IndInv, ProgressOK, Writing

\* Every step keeps the invariant, in any environment.
LEMMA IndInvInductive == IndInv /\ [Next]_vars => IndInv'
<1> SUFFICES ASSUME IndInv, [Next]_vars PROVE IndInv'
  OBVIOUS
<1> USE DEF IndInv
<1>1. CASE Start
  <2>1. backends' \in BackendConfigs /\ gated' \in BOOLEAN
    BY <1>1 DEF Start
  <2> QED
    BY <1>1, <2>1, BackendsDomain, EntriesDomain
    DEF Start, disk, TypeOK, ProgressOK, Steps, Writing
<1>2. CASE Skip
  <2>1. bankNo \in DOMAIN Entries
    BY <1>2, EntriesDomain DEF Skip, TypeOK
  <2>2. skipped' \subseteq Bank
    BY <1>2, <2>1, CurrentBank DEF Skip, TypeOK
  <2> QED
    BY <1>2, <2>2, EntriesDomain DEF Skip, disk, TypeOK, ProgressOK, Steps, Writing
<1>3. CASE Enter
  BY <1>3, EntriesDomain DEF Enter, disk, memory, TypeOK, ProgressOK, Steps, Writing
<1>4. CASE Parse
  <2>1. index' \subseteq Row
    BY <1>4, CurrentBank, ParsedRows DEF Parse, TypeOK, ProgressOK
  <2> QED
    BY <1>4, <2>1 DEF Parse, disk, TypeOK, ProgressOK, Steps, Writing
<1>5. CASE ParseFails
  <2>1. index' \subseteq Row /\ failed' \subseteq Bank
    BY <1>5, CurrentBank, ParsedRows DEF ParseFails, TypeOK, ProgressOK
  <2> QED
    BY <1>5, <2>1 DEF ParseFails, disk, TypeOK, ProgressOK, Steps, Writing
<1>6. CASE Stamp
  <2>1. bankNo \in DOMAIN Entries /\ Current \in Bank
    BY <1>6, CurrentBank DEF Stamp, ProgressOK
  <2>2. stamp' \in [Bank -> {Sig[v] : v \in Version} \cup {NoSig}]
    BY <1>6, <2>1, HashType DEF Stamp, TypeOK
  <2>3. bankNo' \in 1 .. Len(Entries) + 1
    BY <1>6, <2>1, EntriesDomain DEF Stamp
  <2> QED
    BY <1>6, <2>2, <2>3 DEF Stamp, TypeOK, ProgressOK, Steps, Writing
<1>7. CASE Gathered
  BY <1>7, EntriesDomain DEF Gathered, disk, memory, TypeOK, ProgressOK, Steps, Writing
<1>8. CASE NoSuchBackend
  BY <1>8, DeadIsTyped DEF NoSuchBackend, disk, TypeOK
<1>9. CASE Truncate
  <2>1. pc' = "dump" => outNo \in DOMAIN backends /\ backends[outNo] = "json"
    BY <1>9, BackendsDomain DEF Truncate, Target, TypeOK
  <2> QED
    BY <1>9, <2>1 DEF Truncate, Target, memory, TypeOK, ProgressOK, Steps, Writing
<1>10. CASE Dump
  BY <1>10 DEF Dump, memory, TypeOK, ProgressOK, Steps, Writing
<1>11. CASE Redump
  <2>1. outNo' \in 1 .. Len(backends) + 1
    BY <1>11, BackendsDomain DEF Redump, TypeOK, ProgressOK
  <2> QED
    BY <1>11, <2>1 DEF Redump, TypeOK, ProgressOK, Steps, Writing
<1>12. CASE BeginTx
  <2>1. outNo \in DOMAIN backends /\ backends[outNo] = "sqlite3"
    BY <1>12, BackendsDomain DEF BeginTx, Target, TypeOK
  <2> QED
    BY <1>12, <2>1 DEF BeginTx, Target, disk, memory, TypeOK, ProgressOK, Steps, Writing
<1>13. CASE Commit
  <2>1. outNo' \in 1 .. Len(backends) + 1
    BY <1>13, BackendsDomain DEF Commit, TypeOK, ProgressOK
  <2>2. db' \subseteq Row
    BY <1>13, UpsertRows DEF Commit, TypeOK
  <2> QED
    BY <1>13, <2>1, <2>2 DEF Commit, TypeOK, ProgressOK, Steps, Writing
<1>14. CASE Return
  BY <1>14 DEF Return, disk, memory, TypeOK, ProgressOK, Steps, Writing
<1>15. CASE Crash
  <2>1. stamp' \in [Bank -> {Sig[v] : v \in Version} \cup {NoSig}]
    BY <1>15 DEF Crash, TypeOK
  <2> QED
    BY <1>15, <2>1, DeadIsTyped DEF Crash, TypeOK
<1>16. ASSUME NEW b \in Bank, Edit(b) PROVE IndInv'
  <2>1. src' \in [Bank -> Version \cup {Missing}] /\ edited' \subseteq Bank
    BY <1>16 DEF Edit, TypeOK
  <2> QED
    BY <1>16, <2>1 DEF Edit, memory, TypeOK, ProgressOK, Steps, Writing
<1>17. CASE UNCHANGED vars
  BY <1>17 DEF vars, TypeOK, ProgressOK
<1> QED
  BY <1>1, <1>2, <1>3, <1>4, <1>5, <1>6, <1>7, <1>8, <1>9, <1>10, <1>11, <1>12, <1>13,
     <1>14, <1>15, <1>16, <1>17
  DEF Next, Process, handle, write

\* Runs, writes, crashes and edits of `xtrakt extract` keep the position in the run and
\* what is on disk within what the step at hand allows.
THEOREM Invariance == Spec => []IndInv
  BY InitIndInv, IndInvInductive, PTL DEF Spec

\* Type correctness of `extract`, its stamps and its targets, whatever is killed,
\* raises or is edited: no bank or backend past the end is ever looked at.
THEOREM TypeCorrect == Spec => []TypeOK
<1>1. IndInv => TypeOK
  BY DEF IndInv
<1> QED
  BY <1>1, Invariance, PTL

----------------------------------------------------------------------------
(***************************************************************************)
(* The targets.                                                            *)
(***************************************************************************)

\* The backend list has this name among the targets already written.
Written(name) == \E n \in DOMAIN backends : n < outNo /\ backends[n] = name

\* A target that was written has what the run gathered, until the run is over.
TargetsHold ==
  /\ pc \in {"write", "commit", "done"} /\ Written("json") =>
       docState = "whole" /\ doc = index
  /\ pc \in Writing /\ Written("sqlite3") => index \subseteq db

LEMMA InitTargetsHold == Init => TargetsHold
  BY DEF Init, TargetsHold, Writing

\* Every step keeps what was written, in any environment.
LEMMA TargetsStep == ASSUME IndInv, TargetsHold, [Next]_vars PROVE TargetsHold'
<1> USE DEF TargetsHold, Written, Writing
<1>a. outNo \in Nat /\ \A n \in DOMAIN backends : n \in Nat /\ (n < outNo + 1 <=> n < outNo \/ n = outNo)
  BY BackendsDomain DEF IndInv, TypeOK
<1>1. CASE Start
  BY <1>1 DEF Start
<1>2. CASE Skip \/ Enter \/ Parse \/ ParseFails \/ Stamp
  BY <1>2 DEF Skip, Enter, Parse, ParseFails, Stamp, IndInv, TypeOK
<1>3. CASE Gathered
  <2>1. outNo = 1 /\ \A n \in DOMAIN backends : ~(n < 1)
    BY <1>3, BackendsDomain DEF Gathered, IndInv, TypeOK, ProgressOK
  <2> QED
    BY <1>3, <2>1 DEF Gathered, memory
<1>4. CASE NoSuchBackend \/ Crash
  BY <1>4 DEF NoSuchBackend, Crash, Die
<1>5. CASE Truncate
  BY <1>5 DEF Truncate, Target, memory
<1>6. CASE Dump
  BY <1>6 DEF Dump, memory
<1>7. CASE Redump
  <2>1. ~(backends[outNo] = "sqlite3")
    BY <1>7 DEF Redump, IndInv, ProgressOK
  <2> QED
    BY <1>7, <1>a, <2>1 DEF Redump
<1>8. CASE BeginTx
  BY <1>8 DEF BeginTx, Target, disk, memory
<1>9. CASE Commit
  <2>1. ~(backends[outNo] = "json")
    BY <1>9 DEF Commit, IndInv, ProgressOK
  <2>2. index \subseteq db'
    BY <1>9 DEF Commit, Upsert
  <2> QED
    BY <1>9, <1>a, <2>1, <2>2 DEF Commit
<1>10. CASE Return
  BY <1>10 DEF Return, disk, memory
<1>11. ASSUME NEW b \in Bank, Edit(b) PROVE TargetsHold'
  BY <1>11 DEF Edit, memory
<1>12. CASE UNCHANGED vars
  BY <1>12 DEF vars
<1> QED
  BY <1>1, <1>2, <1>3, <1>4, <1>5, <1>6, <1>7, <1>8, <1>9, <1>10, <1>11, <1>12
  DEF Next, Process, handle, write

\* When a run returns, all its targets were written.
LEMMA AllWritten ==
  ASSUME IndInv, pc = "done", NEW name, Configured(name) PROVE Written(name)
<1>1. outNo > Len(backends) /\ outNo \in Nat
  BY DEF IndInv, ProgressOK, TypeOK
<1>2. \A n \in DOMAIN backends : n < outNo
  BY <1>1, BackendsDomain DEF IndInv, TypeOK
<1> QED
  BY <1>2 DEF Configured, Written

----------------------------------------------------------------------------
(***************************************************************************)
(* What a run gathers: every bank that it does not skip.                   *)
(***************************************************************************)

\* Bank b was skipped, or its parser has come to its end, in this run.
Handled(b) ==
  \E i \in DOMAIN Entries : /\ Entries[i] = b
                            /\ i < bankNo \/ (i = bankNo /\ pc = "stamp")

\* Of a bank left alone the index has only present records, and all of them once
\* the bank was handled without an exception and not skipped.
Gathering ==
  \A b \in Bank \ edited :
    /\ RowsOf(b, index) \subseteq Parsed(b, src[b])
    /\ Handled(b) /\ b \notin failed \cup skipped => Parsed(b, src[b]) \subseteq index

LEMMA InitGathering == Init => Gathering
<1>1. \A i \in DOMAIN Entries : ~(i < 1)
  BY EntriesDomain
<1> QED
  BY <1>1 DEF Init, Gathering, Handled, RowsOf

\* Every step of a run, and every edit during it, keeps this.
LEMMA GatheringStep ==
  ASSUME IndInv, Gathering, [Next]_vars PROVE Gathering'
<1> USE DEF Gathering
<1>a. \A i \in DOMAIN Entries : i \in Nat /\ ~(i < 1)
  BY EntriesDomain
<1>b. bankNo \in Nat /\ \A i \in DOMAIN Entries : i < bankNo + 1 <=> i < bankNo \/ i = bankNo
  BY EntriesDomain DEF IndInv, TypeOK
<1>1. CASE Start \/ NoSuchBackend \/ Crash
  <2>1. index' = {} /\ bankNo' = 1 /\ pc' # "stamp"
    BY <1>1 DEF Start, NoSuchBackend, Crash, Die
  <2> QED
    BY <1>a, <2>1 DEF Handled, RowsOf
<1>2. CASE Skip
  <2>1. /\ pc = "gate" /\ pc' = "gate" /\ bankNo' = bankNo + 1 /\ index' = index
        /\ src' = src /\ failed' = failed /\ edited' = edited
        /\ skipped' = skipped \cup {Current}
    BY <1>2 DEF Skip, disk
  <2>2. \A b \in Bank : Handled(b)' => Handled(b) \/ b = Current
    BY <1>b, <2>1 DEF Handled, Current
  <2> QED
    BY <2>1, <2>2
<1>3. CASE Parse
  <2>1. /\ index' = index \cup Parsed(Current, src[Current]) /\ pc = "parse" /\ pc' = "stamp"
        /\ src' = src /\ bankNo' = bankNo /\ failed' = failed /\ edited' = edited
        /\ skipped' = skipped
    BY <1>3 DEF Parse, disk
  <2>2. Current \in Bank /\ \A r \in Parsed(Current, src[Current]) : r.bank = Current
    BY <2>1, CurrentBank, ParsedRows DEF IndInv, ProgressOK
  <2>3. ASSUME NEW b \in Bank, Handled(b)' PROVE Handled(b) \/ b = Current
    BY <2>1, <2>3 DEF Handled, Current
  <2>4. ASSUME NEW b \in Bank \ edited
        PROVE  RowsOf(b, index') \subseteq Parsed(b, src[b])
    BY <2>1, <2>2 DEF RowsOf
  <2> QED
    BY <2>1, <2>3, <2>4
<1>4. CASE ParseFails
  <2>1. /\ pc = "parse" /\ pc' = "stamp" /\ failed' = failed \cup {Current}
        /\ src' = src /\ bankNo' = bankNo /\ edited' = edited /\ skipped' = skipped
    BY <1>4 DEF ParseFails, disk
  <2>2. PICK part \in SUBSET Parsed(Current, src[Current]) : index' = index \cup part
    BY <1>4 DEF ParseFails
  <2>3. Current \in Bank /\ \A r \in part : r.bank = Current
    BY <2>1, <2>2, CurrentBank, ParsedRows DEF IndInv, ProgressOK
  <2>4. ASSUME NEW b \in Bank, Handled(b)' PROVE Handled(b) \/ b = Current
    BY <2>1, <2>4 DEF Handled, Current
  <2>5. ASSUME NEW b \in Bank \ edited
        PROVE  RowsOf(b, index') \subseteq Parsed(b, src[b])
    BY <2>2, <2>3 DEF RowsOf
  <2> QED
    BY <2>1, <2>2, <2>4, <2>5
<1>5. CASE Stamp
  <2>1. /\ pc = "stamp" /\ pc' = "gate" /\ bankNo' = bankNo + 1 /\ index' = index
        /\ src' = src /\ failed' = failed /\ edited' = edited /\ skipped' = skipped
    BY <1>5 DEF Stamp
  <2>2. \A b \in Bank : Handled(b)' => Handled(b)
    BY <1>b, <2>1 DEF Handled
  <2> QED
    BY <2>1, <2>2
<1>6. CASE \/ Enter \/ Gathered \/ Truncate \/ Dump \/ Redump \/ BeginTx \/ Commit
           \/ Return
  <2>1. /\ bankNo' = bankNo /\ index' = index /\ src' = src /\ failed' = failed
        /\ edited' = edited /\ skipped' = skipped /\ (pc' = "stamp" => pc = "stamp")
    BY <1>6
    DEF Enter, Gathered, Truncate, Dump, Redump, BeginTx, Commit, Return, disk, memory
  <2>2. \A b \in Bank : Handled(b)' => Handled(b)
    BY <2>1 DEF Handled
  <2> QED
    BY <2>1, <2>2
<1>7. ASSUME NEW b \in Bank, Edit(b) PROVE Gathering'
  <2>1. /\ bankNo' = bankNo /\ index' = index /\ failed' = failed /\ pc' = pc
        /\ skipped' = skipped
        /\ \A c \in Bank \ {b} : src'[c] = src[c]
    BY <1>7 DEF Edit, memory, IndInv, TypeOK
  <2>2. \A c \in Bank : Handled(c)' => Handled(c)
    BY <2>1 DEF Handled
  <2>3. CASE pc # "off"
    <3>1. \A c \in Bank \ edited' : c \in Bank \ edited /\ src'[c] = src[c]
      BY <1>7, <2>1, <2>3 DEF Edit
    <3> QED
      BY <2>1, <2>2, <3>1
  <2>4. CASE pc = "off"
    <3>1. index = {} /\ bankNo = 1
      BY <2>4 DEF IndInv, ProgressOK
    <3> QED
      BY <1>a, <2>1, <2>4, <3>1 DEF Handled, RowsOf
  <2> QED
    BY <2>3, <2>4
<1>8. CASE UNCHANGED vars
  BY <1>8 DEF vars, Handled
<1> QED
  BY <1>1, <1>2, <1>3, <1>4, <1>5, <1>6, <1>7, <1>8
  DEF Next, Process, handle, write

\* When a run returns, every bank was handled.
LEMMA AllHandled == ASSUME IndInv, pc = "done", NEW b \in Bank PROVE Handled(b)
<1>1. PICK i \in DOMAIN Entries : Entries[i] = b
  BY DEF Bank
<1>2. i < bankNo
  BY EntriesDomain DEF IndInv, TypeOK, ProgressOK, Writing
<1> QED
  BY <1>1, <1>2 DEF Handled

\* The database of a run that returns, gated or not, has every present record of
\* the banks that were left alone and are reported neither as failed nor as skipped,
\* whatever crashed before and whatever raises or is edited meanwhile.
THEOREM DatabaseCurrent == Spec => []DumpCurrent
<1>1. IndInv /\ TargetsHold /\ [Next]_vars => TargetsHold'
  BY TargetsStep
<1>2. IndInv /\ Gathering /\ [Next]_vars => Gathering'
  BY GatheringStep
<1>3. IndInv /\ TargetsHold /\ Gathering => DumpCurrent
  BY AllWritten, AllHandled DEF TargetsHold, Gathering, DumpCurrent, Writing
<1> QED
  BY <1>1, <1>2, <1>3, InitTargetsHold, InitGathering, Invariance, PTL DEF Spec

----------------------------------------------------------------------------
(***************************************************************************)
(* One row per key, gated or not, in any environment.                      *)
(***************************************************************************)

\* BANKS.yaml has one entry per bank.
DistinctBanks == \A i, j \in DOMAIN Entries : Entries[i] = Entries[j] => i = j

UniqueKeys(rows) == \A r, s \in rows : SamePK(r, s) => r = s

\* The index has rows of handled banks only, each key once.
IndexUnique == UniqueKeys(index) /\ \A r \in index : Handled(r.bank)

\* A parser yields a key once.
LEMMA ParsedUnique == \A b \in Bank, v \in Version \cup {Missing} : UniqueKeys(Parsed(b, v))
  BY DEF UniqueKeys, Parsed, SamePK

\* INSERT OR REPLACE keeps keys unique.
LEMMA UpsertUnique ==
  ASSUME NEW t, NEW rows, UniqueKeys(t), UniqueKeys(rows)
  PROVE  UniqueKeys(Upsert(t, rows))
  BY DEF UniqueKeys, Upsert, SamePK

LEMMA HandledGrows ==
  ASSUME IndInv, NEW b,
         \/ bankNo' = bankNo /\ (pc = "stamp" => pc' = "stamp")
         \/ bankNo' = bankNo + 1,
         Handled(b)
  PROVE  Handled(b)'
<1>1. bankNo \in Nat /\ \A i \in DOMAIN Entries : i < bankNo + 1 <=> i < bankNo \/ i = bankNo
  BY EntriesDomain DEF IndInv, TypeOK
<1> QED
  BY <1>1 DEF Handled

\* Adding rows of the bank at hand, which has none in the index yet.
LEMMA AddRows ==
  ASSUME DistinctBanks, IndInv, IndexUnique, pc = "parse", pc' = "stamp",
         bankNo' = bankNo,
         NEW part \in SUBSET Parsed(Current, src[Current]), index' = index \cup part
  PROVE  IndexUnique'
<1>1. /\ Current \in Bank /\ bankNo \in DOMAIN Entries
      /\ \A r \in part : r.bank = Current
      /\ UniqueKeys(part)
  BY CurrentBank, ParsedRows, ParsedUnique DEF IndInv, ProgressOK, UniqueKeys
<1>2. \A b \in Bank : b = Current => Handled(b)'
  BY <1>1 DEF Handled, Current
<1>3. \A r \in index : r.bank # Current
  <2> SUFFICES ASSUME NEW r \in index, r.bank = Current PROVE FALSE
    OBVIOUS
  <2>1. PICK i \in DOMAIN Entries : Entries[i] = Current /\ i < bankNo
    BY DEF IndexUnique, Handled
  <2>2. i = bankNo
    BY <1>1, <2>1 DEF DistinctBanks, Current
  <2>3. bankNo \in Nat
    BY DEF IndInv, TypeOK
  <2> QED
    BY <2>1, <2>2, <2>3
<1>4. \A r \in index : Handled(r.bank)'
  BY HandledGrows DEF IndexUnique
<1>5. UniqueKeys(index')
  BY <1>1, <1>3 DEF IndexUnique, UniqueKeys, SamePK
<1>6. \A r \in index' : Handled(r.bank)'
  BY <1>1, <1>2, <1>4
<1> QED
  BY <1>5, <1>6 DEF IndexUnique, UniqueKeys, SamePK

LEMMA IndexUniqueStep ==
  ASSUME DistinctBanks, IndInv, IndexUnique, [Next]_vars PROVE IndexUnique'
<1>1. CASE index' = {}
  BY <1>1 DEF IndexUnique, UniqueKeys
<1>2. CASE /\ index' = index
           /\ \/ bankNo' = bankNo /\ (pc = "stamp" => pc' = "stamp")
              \/ bankNo' = bankNo + 1
  BY <1>2, HandledGrows DEF IndexUnique, UniqueKeys, SamePK
<1>3. CASE Parse \/ ParseFails
  <2>1. pc = "parse" /\ pc' = "stamp" /\ bankNo' = bankNo
    BY <1>3 DEF Parse, ParseFails
  <2>2. PICK part \in SUBSET Parsed(Current, src[Current]) : index' = index \cup part
    BY <1>3 DEF Parse, ParseFails
  <2> QED
    BY <2>1, <2>2, AddRows
<1> QED
  BY <1>1, <1>2, <1>3
  DEF Next, Process, handle, write, Start, Skip, Enter, Stamp, Gathered, NoSuchBackend,
      Truncate, Target, Dump, Redump, BeginTx, Commit, Return, Crash, Die, Edit, memory,
      vars

\* Gated or not, and through any sequence of crashes, failures and edits, the
\* records table has one row per key: a re-run replaces a row, and never keeps an
\* old one beside it.
THEOREM KeysStayUnique == DistinctBanks => (Spec => []OneRowPerKey)
<1> SUFFICES ASSUME DistinctBanks PROVE Spec => []OneRowPerKey
  OBVIOUS
<1>1. Init => IndexUnique /\ OneRowPerKey
  BY DEF Init, IndexUnique, UniqueKeys, OneRowPerKey
<1>2. IndInv /\ IndexUnique /\ [Next]_vars => IndexUnique'
  BY IndexUniqueStep
<1>3. IndexUnique /\ OneRowPerKey /\ [Next]_vars => OneRowPerKey'
  <2> SUFFICES ASSUME IndexUnique, OneRowPerKey, [Next]_vars PROVE UniqueKeys(db')
    BY DEF OneRowPerKey, UniqueKeys, SamePK
  <2>1. UniqueKeys(db)
    BY DEF OneRowPerKey, UniqueKeys
  <2>2. db' = db \/ db' = Upsert(db, index)
    BY DEF Next, Process, handle, write, Start, Skip, Enter, Parse, ParseFails, Stamp,
           Gathered, NoSuchBackend, Truncate, Dump, Redump, BeginTx, Commit, Return,
           Crash, Edit, disk, vars
  <2> QED
    BY <2>1, <2>2, UpsertUnique DEF IndexUnique
<1> QED
  BY <1>1, <1>2, <1>3, Invariance, PTL DEF Spec

----------------------------------------------------------------------------
(***************************************************************************)
(* The document.                                                           *)
(***************************************************************************)

\* A skipped bank has been passed, and has no row in the index.
SkippedApart ==
  \A b \in skipped : /\ \E i \in DOMAIN Entries : Entries[i] = b /\ i < bankNo
                     /\ RowsOf(b, index) = {}

LEMMA InitSkippedApart == Init => SkippedApart
  BY DEF Init, SkippedApart

\* A skipped bank does not come again in a manifest that lists each bank once.
LEMMA SkippedApartStep ==
  ASSUME DistinctBanks, IndInv, IndexUnique, SkippedApart, [Next]_vars PROVE SkippedApart'
<1> USE DEF SkippedApart
<1>a. bankNo \in Nat /\ \A i \in DOMAIN Entries : i \in Nat /\ (i < bankNo => i < bankNo + 1)
  BY EntriesDomain DEF IndInv, TypeOK
<1>1. CASE skipped' = {}
  BY <1>1
<1>2. CASE /\ skipped' = skipped /\ index' = index
           /\ bankNo' = bankNo \/ bankNo' = bankNo + 1
  BY <1>2, <1>a DEF RowsOf
<1>3. CASE Skip
  <2>1. /\ pc = "gate" /\ bankNo' = bankNo + 1 /\ index' = index
        /\ skipped' = skipped \cup {Current} /\ bankNo <= Len(Entries)
    BY <1>3 DEF Skip
  <2>2. bankNo \in DOMAIN Entries /\ Entries[bankNo] = Current /\ bankNo < bankNo + 1
    BY <1>a, <2>1, EntriesDomain DEF IndInv, TypeOK, Current
  <2>3. \A r \in index : r.bank # Current
    <3> SUFFICES ASSUME NEW r \in index, r.bank = Current PROVE FALSE
      OBVIOUS
    <3>1. PICK i \in DOMAIN Entries : Entries[i] = Current /\ i < bankNo
      BY <2>1 DEF IndexUnique, Handled
    <3>2. i = bankNo
      BY <2>2, <3>1 DEF DistinctBanks
    <3> QED
      BY <1>a, <3>1, <3>2
  <2>4. RowsOf(Current, index') = {}
    BY <2>1, <2>3 DEF RowsOf
  <2> QED
    BY <1>a, <2>1, <2>2, <2>4 DEF RowsOf
<1>4. CASE Parse \/ ParseFails
  <2>1. pc = "parse" /\ bankNo' = bankNo /\ skipped' = skipped
    BY <1>4 DEF Parse, ParseFails
  <2>2. PICK part \in SUBSET Parsed(Current, src[Current]) : index' = index \cup part
    BY <1>4 DEF Parse, ParseFails
  <2>3. bankNo \in DOMAIN Entries /\ \A r \in part : r.bank = Current
    BY <2>1, <2>2, CurrentBank, ParsedRows DEF IndInv, ProgressOK
  <2>4. \A b \in skipped : b # Current
    <3> SUFFICES ASSUME Current \in skipped PROVE FALSE
      OBVIOUS
    <3>1. PICK i \in DOMAIN Entries : Entries[i] = Current /\ i < bankNo
      OBVIOUS
    <3>2. i = bankNo
      BY <2>3, <3>1 DEF DistinctBanks, Current
    <3> QED
      BY <1>a, <3>1, <3>2
  <2>5. \A b \in skipped : RowsOf(b, index') = RowsOf(b, index)
    BY <2>2, <2>3, <2>4 DEF RowsOf
  <2> QED
    BY <2>1, <2>5
<1> QED
  BY <1>1, <1>2, <1>3, <1>4
  DEF Next, Process, handle, write, Start, Enter, Stamp, Gathered, NoSuchBackend, Truncate,
      Target, Dump, Redump, BeginTx, Commit, Return, Crash, Die, Edit, memory, vars

\* Gated or not, whatever crashed before, whichever parsers raise, whichever stamps
\* cannot be read or written and whatever is edited meanwhile, the document of a run
\* that returns is whole and has exactly the records of the banks that were left
\* alone; of a bank reported as failed some of them, and of a skipped one none.
THEOREM DocumentExact == DistinctBanks => (Spec => []DumpExact)
<1> SUFFICES ASSUME DistinctBanks PROVE Spec => []DumpExact
  OBVIOUS
<1>1. IndInv /\ TargetsHold /\ [Next]_vars => TargetsHold'
  BY TargetsStep
<1>2. IndInv /\ Gathering /\ [Next]_vars => Gathering'
  BY GatheringStep
<1>3. IndInv /\ IndexUnique /\ [Next]_vars => IndexUnique'
  BY IndexUniqueStep
<1>4. IndInv /\ IndexUnique /\ SkippedApart /\ [Next]_vars => SkippedApart'
  BY SkippedApartStep
<1>5. IndInv /\ TargetsHold /\ Gathering /\ SkippedApart => DumpExact
  <2> SUFFICES ASSUME IndInv, TargetsHold, Gathering, SkippedApart, pc = "done",
                      Configured("json")
               PROVE  /\ docState = "whole"
                      /\ \A b \in Bank \ edited :
                           /\ RowsOf(b, doc) \subseteq Parsed(b, src[b])
                           /\ b \notin failed \cup skipped => RowsOf(b, doc) = Parsed(b, src[b])
                           /\ b \in skipped => RowsOf(b, doc) = {}
    BY DEF DumpExact
  <2>1. docState = "whole" /\ doc = index
    BY AllWritten DEF TargetsHold
  <2>2. \A b \in Bank \ edited : \A r \in Parsed(b, src[b]) : r.bank = b
    BY ParsedRows DEF IndInv, TypeOK
  <2>3. \A b \in skipped : RowsOf(b, index) = {}
    BY DEF SkippedApart
  <2>4. \A b \in Bank \ edited :
          /\ RowsOf(b, index) \subseteq Parsed(b, src[b])
          /\ b \notin failed \cup skipped => Parsed(b, src[b]) \subseteq index
    BY AllHandled DEF Gathering
  <2>5. \A b \in Bank \ edited :
          b \notin failed \cup skipped => RowsOf(b, index) = Parsed(b, src[b])
    BY <2>2, <2>4 DEF RowsOf
  <2> QED
    BY <2>1, <2>3, <2>4, <2>5
<1>6. Init => IndexUnique
  BY DEF Init, IndexUnique, UniqueKeys
<1> QED
  BY <1>1, <1>2, <1>3, <1>4, <1>5, <1>6, InitTargetsHold, InitGathering, InitSkippedApart,
     Invariance, PTL DEF Spec

============================================================================
