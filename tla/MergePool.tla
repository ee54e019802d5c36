----------------------------- MODULE MergePool -----------------------------
(***************************************************************************)
(* One extraction run of xtrakt up to the merged record set: the manifest  *)
(* entries are handed to worker threads (pipeline.py `extract`), each      *)
(* worker parses and normalises its bank record by record (`handle`), and  *)
(* every record goes through the MergeIndex all workers share              *)
(* (normalize.py `MergeIndex.add` and `_merge`), which takes no lock.      *)
(*                                                                         *)
(* An instruction record is a mutable Python object, and the index, the    *)
(* worker and `_merge` hold references to it, so records have an identity: *)
(* <<entry, n>> is the n-th raw record of manifest entry `entry`. Its      *)
(* source_banks list starts with the bank of that entry, only ever grows   *)
(* at the end and skips banks it already has: the first element is a       *)
(* function of the identity (BankOf) and the whole list is kept as a set.  *)
(* An action is a stretch of code between two accesses to shared objects;  *)
(* the interpreter may switch threads between any two of them.             *)
(*                                                                         *)
(* The run has no --idempotent directory: the stamps, and the backends     *)
(* written after this phase, are module Extract's.                         *)
(***************************************************************************)
EXTENDS Integers, Sequences

CONSTANTS
  Bank,        \* bank ids
  Entries,     \* the manifest after config.bank_filter: bank ids in order
  Worker,      \* threads of the pool; a single one is the plain loop
  Key,         \* dedup keys (arch, mnemonic, class, signature, ext)
  Enc,         \* encoding functions, stripped
  Sem,         \* semantics texts
  NoSem,       \* a record without semantics
  Precedence,  \* config.precedence: bank ids, highest first
  MaxYield     \* bound: raw records a parser returns for one bank

ASSUME EntriesAssumption == Entries \in Seq(Bank)
ASSUME PrecedenceAssumption == Precedence \in Seq(Bank)
ASSUME BoundAssumption == MaxYield \in Nat
ASSUME NoSemAssumption == NoSem \notin Sem

VARIABLES
  heap,       \* InstructionRecord objects that exist, by identity
  byKey,      \* MergeIndex._by_key: key -> record
  conflicts,  \* MergeIndex.conflicts; `by` tells whose add appended it
  queue,      \* number of entries the pool has handed out
  pc,         \* where each worker is
  entry,      \* the manifest entry each worker handles, 0 before the first
  pos,        \* raw records the worker has taken from the parser's result
  prev,       \* what `_by_key.get(k)` returned to the worker
  added,      \* records whose add() returned: BankResult.yielded, as a set
  rejected,   \* BankResult.rejected, per entry
  error,      \* BankResult.error is set, per entry
  phase       \* "parse", then "report" once the pool is drained

vars == <<heap, byKey, conflicts, queue, pc, entry, pos, prev, added,
          rejected, error, phase>>

----------------------------------------------------------------------------

Id == (1 .. Len(Entries)) \X (1 .. MaxYield)

\* What dict.get answers for a key that is not there.
None == <<0, 0>>

BankOf(id) == Entries[id[1]]

Elems(s) == {s[i] : i \in DOMAIN s}

Record == [key : Key, enc : Enc, raw : Sem \cup {NoSem},
           banks : SUBSET Bank, sem : Sem \cup {NoSem}]

Conflict == [key : Key, banks : SUBSET Bank, by : Id]

\* Config.precedence_of: minus the position in the list, 0 when not listed.
precedence_of(b) ==
  IF b \in Elems(Precedence)
    THEN 1 - (CHOOSE i \in DOMAIN Precedence :
                /\ Precedence[i] = b
                /\ \A j \in 1 .. i - 1 : Precedence[j] # b)
    ELSE 0

New(w) == <<entry[w], pos[w]>>

\* Mutant: a tie goes to the newcomer.
NewcomerWinsTies(w) ==
  precedence_of(BankOf(prev[w])) > precedence_of(BankOf(New(w)))

\* `_merge` compares source_banks[0] of the two records.
PrevWins(w) == precedence_of(BankOf(prev[w])) >= precedence_of(BankOf(New(w)))

\* What the worker that merges keeps, and what it drops.
Kept(w)  == IF PrevWins(w) THEN prev[w] ELSE New(w)
Other(w) == IF PrevWins(w) THEN New(w) ELSE prev[w]

----------------------------------------------------------------------------

Init ==
  /\ heap = << >>
  /\ byKey = << >>
  /\ conflicts = {}
  /\ queue = 0
  /\ pc = [w \in Worker |-> "idle"]
  /\ entry = [w \in Worker |-> 0]
  /\ pos = [w \in Worker |-> 0]
  /\ prev = [w \in Worker |-> None]
  /\ added = {}
  /\ rejected = [i \in DOMAIN Entries |-> 0]
  /\ error = [i \in DOMAIN Entries |-> FALSE]
  /\ phase = "parse"

Goto(w, from, to) ==
  /\ pc[w] = from
  /\ pc' = [pc EXCEPT ![w] = to]

\* Mutant: the pool hands out one entry too many.
TakePastEnd(w) ==
  /\ Goto(w, "idle", "loop")
  /\ queue <= Len(Entries)
  /\ queue' = queue + 1
  /\ entry' = [entry EXCEPT ![w] = queue + 1]
  /\ pos' = [pos EXCEPT ![w] = 0]
  /\ UNCHANGED <<heap, byKey, conflicts, prev, added, rejected, error, phase>>

\* An idle worker takes the next manifest entry, in order, and parses it.
Take(w) ==
  /\ Goto(w, "idle", "loop")
  /\ queue < Len(Entries)
  /\ queue' = queue + 1
  /\ entry' = [entry EXCEPT ![w] = queue + 1]
  /\ pos' = [pos EXCEPT ![w] = 0]
  /\ UNCHANGED <<heap, byKey, conflicts, prev, added, rejected, error, phase>>

\* A raw record without a schema, of a filtered arch, or refused by the
\* normaliser: counted, and the loop goes on.
Refuse(w) ==
  /\ pc[w] = "loop"
  /\ pos[w] < MaxYield
  /\ pos' = [pos EXCEPT ![w] = @ + 1]
  /\ rejected' = [rejected EXCEPT ![entry[w]] = @ + 1]
  /\ UNCHANGED <<heap, byKey, conflicts, queue, pc, entry, prev, added, error,
                 phase>>

\* A raw record the normaliser turns into a fresh InstructionRecord, whose
\* provenance is the bank at hand; add() is about to look its key up.
Normalise(w) ==
  /\ Goto(w, "loop", "lookup")
  /\ pos[w] < MaxYield
  /\ pos' = [pos EXCEPT ![w] = @ + 1]
  /\ \E k \in Key, e \in Enc, s \in Sem \cup {NoSem} :
       LET id  == <<entry[w], pos[w] + 1>>
           rec == [key |-> k, enc |-> e, raw |-> s,
                   banks |-> {Entries[entry[w]]}, sem |-> s]
       IN  heap' = [x \in DOMAIN heap \cup {id} |->
                      IF x = id THEN rec ELSE heap[x]]
  /\ UNCHANGED <<byKey, conflicts, queue, entry, prev, added, rejected, error,
                 phase>>

\* Mutant: the lookup ignores part of the key and finds some other record.
LookupPartOfKey(w) ==
  LET k == heap[New(w)].key IN
  /\ pc[w] = "lookup"
  /\ IF DOMAIN byKey # {}
       THEN /\ prev' = [prev EXCEPT ![w] = byKey[CHOOSE x \in DOMAIN byKey : TRUE]]
            /\ pc' = [pc EXCEPT ![w] = "union"]
       ELSE /\ prev' = [prev EXCEPT ![w] = None]
            /\ pc' = [pc EXCEPT ![w] = "insert"]
  /\ UNCHANGED <<heap, byKey, conflicts, queue, entry, pos, added, rejected,
                 error, phase>>

\* Mutant: the key never compares equal, so the last record wins.
LookupMisses(w) ==
  /\ Goto(w, "lookup", "insert")
  /\ prev' = [prev EXCEPT ![w] = None]
  /\ UNCHANGED <<heap, byKey, conflicts, queue, entry, pos, added, rejected,
                 error, phase>>

\* add(): prev = self._by_key.get(k), and the branch on it.
Lookup(w) ==
  LET k == heap[New(w)].key IN
  /\ pc[w] = "lookup"
  /\ IF k \in DOMAIN byKey
       THEN /\ prev' = [prev EXCEPT ![w] = byKey[k]]
            /\ pc' = [pc EXCEPT ![w] = "union"]
       ELSE /\ prev' = [prev EXCEPT ![w] = None]
            /\ pc' = [pc EXCEPT ![w] = "insert"]
  /\ UNCHANGED <<heap, byKey, conflicts, queue, entry, pos, added, rejected,
                 error, phase>>

\* add(): self._by_key[k] = rec; return. The caller counts it as yielded.
Insert(w) ==
  LET k == heap[New(w)].key IN
  /\ Goto(w, "insert", "loop")
  /\ byKey' = [x \in DOMAIN byKey \cup {k} |->
                 IF x = k THEN New(w) ELSE byKey[x]]
  /\ added' = added \cup {New(w)}
  /\ UNCHANGED <<heap, conflicts, queue, entry, pos, prev, rejected, error,
                 phase>>

\* Mutant: provenance is united only when the encodings agree.
UnionOnAgreement(w) ==
  /\ Goto(w, "union", "flag")
  /\ heap' = IF heap[Kept(w)].enc = heap[Other(w)].enc
               THEN [heap EXCEPT ![Kept(w)].banks = @ \cup heap[Other(w)].banks]
               ELSE heap
  /\ UNCHANGED <<byKey, conflicts, queue, entry, pos, prev, added, rejected,
                 error, phase>>

\* _merge(): the kept record takes over the banks of the other one. Either
\* the kept or the other record is still private to this worker, so the loop
\* over the list has the effect of its last read.
Union(w) ==
  /\ Goto(w, "union", "flag")
  /\ heap' = [heap EXCEPT ![Kept(w)].banks = @ \cup heap[Other(w)].banks]
  /\ UNCHANGED <<byKey, conflicts, queue, entry, pos, prev, added, rejected,
                 error, phase>>

\* Mutant: a bank that contradicts itself is not reported.
FlagAcrossBanks(w) ==
  /\ Goto(w, "flag", "semantics")
  /\ conflicts' =
       IF /\ heap[Kept(w)].enc # heap[Other(w)].enc
          /\ BankOf(Kept(w)) # BankOf(Other(w))
         THEN conflicts \cup {[key |-> heap[Kept(w)].key,
                               banks |-> heap[Kept(w)].banks,
                               by |-> New(w)]}
         ELSE conflicts
  /\ UNCHANGED <<heap, byKey, queue, entry, pos, prev, added, rejected, error,
                 phase>>

\* _merge(): a different encoding under one key is reported, with the banks
\* the kept record names at this moment.
Flag(w) ==
  /\ Goto(w, "flag", "semantics")
  /\ conflicts' =
       IF heap[Kept(w)].enc # heap[Other(w)].enc
         THEN conflicts \cup {[key |-> heap[Kept(w)].key,
                               banks |-> heap[Kept(w)].banks,
                               by |-> New(w)]}
         ELSE conflicts
  /\ UNCHANGED <<heap, byKey, queue, entry, pos, prev, added, rejected, error,
                 phase>>

\* _merge(): the test before semantics are taken over. When it fails, _merge
\* returns: nothing stores the kept record in _by_key.
KeepSemantics(w) ==
  /\ Goto(w, "semantics", "loop")
  /\ heap[Kept(w)].sem # NoSem \/ heap[Other(w)].sem = NoSem
  /\ added' = added \cup {New(w)}
  /\ UNCHANGED <<heap, byKey, conflicts, queue, entry, pos, prev, rejected,
                 error, phase>>

\* _merge(): the same test succeeds.
WantSemantics(w) ==
  /\ Goto(w, "semantics", "assign")
  /\ heap[Kept(w)].sem = NoSem
  /\ heap[Other(w)].sem # NoSem
  /\ UNCHANGED <<heap, byKey, conflicts, queue, entry, pos, prev, added,
                 rejected, error, phase>>

\* _merge(): the assignment, some time after the test.
TakeSemantics(w) ==
  /\ Goto(w, "assign", "loop")
  /\ heap' = [heap EXCEPT ![Kept(w)].sem = heap[Other(w)].sem]
  /\ added' = added \cup {New(w)}
  /\ UNCHANGED <<byKey, conflicts, queue, entry, pos, prev, rejected, error,
                 phase>>

\* Mutant: a bank that fails is retried, which clears its error, not given up.
FailAndRetry(w) ==
  /\ pc[w] = "loop"
  /\ error' = [error EXCEPT ![entry[w]] = ~@]
  /\ UNCHANGED <<heap, byKey, conflicts, queue, pc, entry, pos, prev, added,
                 rejected, phase>>

\* Any exception of the parser or the normaliser ends this bank only; what it
\* has already put in the index stays there.
Fail(w) ==
  /\ Goto(w, "loop", "idle")
  /\ error' = [error EXCEPT ![entry[w]] = TRUE]
  /\ UNCHANGED <<heap, byKey, conflicts, queue, entry, pos, prev, added,
                 rejected, phase>>

\* The parser's records are used up.
Finish(w) ==
  /\ Goto(w, "loop", "idle")
  /\ UNCHANGED <<heap, byKey, conflicts, queue, entry, pos, prev, added,
                 rejected, error, phase>>

\* The pool is joined; conflicts and records go into the report.
Collect ==
  /\ phase = "parse"
  /\ queue = Len(Entries)
  /\ \A w \in Worker : pc[w] = "idle"
  /\ phase' = "report"
  /\ UNCHANGED <<heap, byKey, conflicts, queue, pc, entry, pos, prev, added,
                 rejected, error>>

\* The run is over; it may only stutter.
Over == phase = "report" /\ UNCHANGED vars

add(w) == \/ Lookup(w) \/ Insert(w) \/ Union(w) \/ Flag(w)
          \/ KeepSemantics(w) \/ WantSemantics(w) \/ TakeSemantics(w)

handle(w) == \/ Take(w) \/ Refuse(w) \/ Normalise(w) \/ Fail(w) \/ Finish(w)
             \/ add(w)

Next == \/ \E w \in Worker : handle(w)
        \/ Collect
        \/ Over

\* A started thread keeps running until its bank is done, and the main thread
\* waits for the pool: each is weakly fair.
Fairness == /\ \A w \in Worker : WF_vars(handle(w))
            /\ WF_vars(Collect)

Spec == Init /\ [][Next]_vars

FairSpec == Spec /\ Fairness
----------------------------------------------------------------------------
(***************************************************************************)
(* Properties.                                                             *)
(***************************************************************************)

Steps == {"idle", "loop", "lookup", "insert", "union", "flag", "semantics",
          "assign"}

Adding  == {"lookup", "insert", "union", "flag", "semantics", "assign"}
Merging == {"union", "flag", "semantics", "assign"}

\* Every variable has its type.
TypeOK ==
  /\ DOMAIN heap \subseteq Id
  /\ heap \in [DOMAIN heap -> Record]
  /\ DOMAIN byKey \subseteq Key
  /\ byKey \in [DOMAIN byKey -> DOMAIN heap]
  /\ conflicts \subseteq Conflict
  /\ queue \in 0 .. Len(Entries)
  /\ pc \in [Worker -> Steps]
  /\ entry \in [Worker -> 0 .. Len(Entries)]
  /\ pos \in [Worker -> 0 .. MaxYield]
  /\ prev \in [Worker -> DOMAIN heap \cup {None}]
  /\ added \subseteq DOMAIN heap
  /\ rejected \in [DOMAIN Entries -> Nat]
  /\ error \in [DOMAIN Entries -> BOOLEAN]
  /\ phase \in {"parse", "report"}

Flagged(k) == \E c \in conflicts : c.key = k

\* "Flag conflicting encodings": whenever two yielded records agree on the key
\* and not on the encoding, MergeIndex.conflicts has an entry for that key.
ConflictsFlagged ==
  \A x, y \in added :
    heap[x].key = heap[y].key /\ heap[x].enc # heap[y].enc
      => Flagged(heap[x].key)

\* "Union source_banks": the record the index holds for a key names every bank
\* that yielded a record with that key.
ProvenanceKept ==
  \A x \in added :
    /\ heap[x].key \in DOMAIN byKey
    /\ BankOf(x) \in heap[byKey[heap[x].key]].banks

\* "Keep highest-precedence encoding_function": the record in the index is of a
\* bank at least as high in config.precedence as any other that yielded the key.
PrecedenceKept ==
  \A x \in added :
    precedence_of(BankOf(byKey[heap[x].key])) >= precedence_of(BankOf(x))

\* Whatever the interleaving: a key that was yielded is in the index, under a
\* record that has that key.
KeyPresent ==
  /\ \A x \in added : heap[x].key \in DOMAIN byKey
  /\ \A k \in DOMAIN byKey : heap[byKey[k]].key = k

\* Whatever the interleaving: source_banks never names a bank that has not
\* produced a record with that key.
ProvenanceSound ==
  \A x \in DOMAIN heap : \A b \in heap[x].banks :
    \E y \in DOMAIN heap : BankOf(y) = b /\ heap[y].key = heap[x].key

\* Whatever the interleaving: a conflict entry is about two records of its key
\* that really differ, and names the banks of both.
ConflictsSound ==
  \A c \in conflicts :
    \E x, y \in DOMAIN heap :
      /\ heap[x].key = c.key /\ heap[y].key = c.key
      /\ heap[x].enc # heap[y].enc
      /\ {BankOf(x), BankOf(y)} \subseteq c.banks

\* "semantics: prefer kept's if present, else other's", whatever the interleaving
\* of test and assignment: an indexed record that came with semantics still has
\* its own, and one that took some over has those of a record of its key whose
\* bank it names.
SemanticsSound ==
  \A k \in DOMAIN byKey :
    LET r == heap[byKey[k]] IN
    /\ r.raw # NoSem => r.sem = r.raw
    /\ r.sem # NoSem => \E y \in DOMAIN heap : /\ heap[y].key = k
                                               /\ heap[y].raw = r.sem
                                               /\ BankOf(y) \in r.banks

(***************************************************************************)
(* The inductive invariant behind the properties that hold for any number  *)
(* of workers.                                                             *)
(***************************************************************************)

\* In the middle of add() a worker's record exists, and so does the one it
\* merges with, under the same key.
WorkerOK ==
  \A w \in Worker :
    /\ pc[w] # "idle" => entry[w] \in 1 .. Len(Entries)
    /\ pc[w] \in Adding => New(w) \in DOMAIN heap
    /\ pc[w] \in Merging => /\ prev[w] \in DOMAIN heap
                            /\ heap[prev[w]].key = heap[New(w)].key
                            /\ heap[New(w)].key \in DOMAIN byKey

\* No two workers handle one entry, and a worker has created no record beyond
\* its position: a new record never takes the identity of an old one.
Fresh ==
  /\ \A x \in DOMAIN heap : x[1] <= queue
  /\ \A w \in Worker : entry[w] <= queue
  /\ \A w \in Worker : pc[w] # "idle" =>
       /\ \A x \in DOMAIN heap : x[1] = entry[w] => x[2] <= pos[w]
       /\ \A v \in Worker : v # w /\ pc[v] # "idle" => entry[v] # entry[w]

IndInv == TypeOK /\ WorkerOK /\ Fresh /\ KeyPresent

(***************************************************************************)
(* The invariants behind the promises of the plain loop (workers: 1).      *)
(***************************************************************************)

Sequential == \A v, w \in Worker : v = w

\* The manifest lists the banks in non-increasing precedence, as it does for
\* the default empty precedence list.
ManifestRanked ==
  \A i, j \in DOMAIN Entries :
    i <= j => precedence_of(Entries[i]) >= precedence_of(Entries[j])

\* What add() looked up is still what the index holds, and every yielded
\* record either agrees with the indexed one or its key has been flagged.
SeqInv ==
  /\ \A x \in added : \/ heap[x].enc = heap[byKey[heap[x].key]].enc
                      \/ Flagged(heap[x].key)
  /\ \A w \in Worker :
       /\ pc[w] = "insert" => heap[New(w)].key \notin DOMAIN byKey
       /\ pc[w] \in Merging => prev[w] = byKey[heap[New(w)].key]
       /\ pc[w] \in {"semantics", "assign"} =>
            \/ heap[New(w)].enc = heap[prev[w]].enc
            \/ Flagged(heap[New(w)].key)

\* In a ranked manifest the first record of a key is of the preferred bank, is
\* kept by every merge and collects the provenance of the others.
RankInv ==
  /\ \A x \in DOMAIN heap : BankOf(x) \in heap[x].banks
  /\ \A x \in added : /\ BankOf(x) \in heap[byKey[heap[x].key]].banks
                      /\ byKey[heap[x].key][1] <= x[1]
  /\ \A w \in Worker :
       /\ pc[w] # "idle" => entry[w] = queue
       /\ pc[w] \in {"flag", "semantics", "assign"} =>
            BankOf(New(w)) \in heap[prev[w]].banks

\* Isolation: a bank whose parser raises ends, and every other bank is still
\* handled, so the run always reaches its report.
Terminates == <>(phase = "report")
============================================================================
