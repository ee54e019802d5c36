---------------------------- MODULE MergeProofs ----------------------------
(***************************************************************************)
(* Theorems about MergePool and its refinement of MergeSpec, for any banks, *)
(* manifest, precedence list and number of raw records per bank.           *)
(*                                                                         *)
(* What is said of any number of workers comes first in each part. The rest *)
(* assumes the plain loop of `extract` (workers: 1), where the promise to  *)
(* flag every disagreement is kept; TLC refutes it for two workers.        *)
(***************************************************************************)
EXTENDS MergeRefinement, TLAPS

USE EntriesAssumption, PrecedenceAssumption, BoundAssumption, NoSemAssumption

\* The manifest as a function on 1 .. Len(Entries).
LEMMA EntriesDomain == /\ Len(Entries) \in Nat
                       /\ DOMAIN Entries = 1 .. Len(Entries)
                       /\ \A i \in 1 .. Len(Entries) : Entries[i] \in Bank
  OBVIOUS

\* dict.get's answer for an absent key is not a record.
LEMMA NoneNotId == None \notin Id
  BY EntriesDomain DEF None, Id

\* The identity of a record tells the bank it was first seen in.
LEMMA BankOfId == \A x \in Id : BankOf(x) \in Bank
  BY EntriesDomain DEF BankOf, Id

\* The pair a merging worker works on consists of existing records of one key.
LEMMA MergePair ==
  ASSUME NEW w \in Worker, TypeOK, WorkerOK, pc[w] \in Merging
  PROVE  /\ Kept(w) \in DOMAIN heap /\ Other(w) \in DOMAIN heap
         /\ heap[Kept(w)] \in Record /\ heap[Other(w)] \in Record
         /\ heap[Kept(w)].key = heap[New(w)].key
         /\ heap[Other(w)].key = heap[New(w)].key
         /\ {Kept(w), Other(w)} = {prev[w], New(w)}
  BY DEF TypeOK, WorkerOK, Kept, Other, Merging, Adding

\* Init establishes the invariant.
LEMMA InitIndInv == Init => IndInv
  BY EntriesDomain
  DEF Init, IndInv, TypeOK, WorkerOK, Fresh, KeyPresent, Steps, Adding, Merging,
      None, Id, Record, Conflict

\* The record the normaliser is about to create has an identity of its own.
LEMMA NewIdFresh ==
  ASSUME NEW w \in Worker, TypeOK, WorkerOK, Fresh, Normalise(w)
  PROVE  /\ <<entry[w], pos[w] + 1>> \in Id
         /\ <<entry[w], pos[w] + 1>> \notin DOMAIN heap
<1>1. pos[w] + 1 \in 1 .. MaxYield /\ ~ (pos[w] + 1 <= pos[w])
  BY DEF Normalise, TypeOK
<1>2. entry[w] \in 1 .. Len(Entries)
  BY DEF Normalise, Goto, WorkerOK
<1>3. <<entry[w], pos[w] + 1>> \in Id
  BY <1>1, <1>2 DEF Id
<1>4. <<entry[w], pos[w] + 1>> \notin DOMAIN heap
  BY <1>1 DEF Normalise, Goto, Fresh
<1> QED
  BY <1>3, <1>4

\* What Normalise does to the heap, without the record constructor.
LEMMA NormaliseHeap ==
  ASSUME NEW w \in Worker, TypeOK, WorkerOK, Fresh, Normalise(w)
  PROVE  \E rec \in Record :
           /\ heap' = [x \in DOMAIN heap \cup {<<entry[w], pos[w] + 1>>} |->
                         IF x = <<entry[w], pos[w] + 1>> THEN rec ELSE heap[x]]
           /\ rec.banks = {BankOf(<<entry[w], pos[w] + 1>>)}
           /\ rec.sem = rec.raw
<1>1. entry[w] \in 1 .. Len(Entries) /\ Entries[entry[w]] \in Bank
  BY EntriesDomain DEF Normalise, Goto, WorkerOK
<1>2. PICK k \in Key, e \in Enc, s \in Sem \cup {NoSem} :
        heap' = [x \in DOMAIN heap \cup {<<entry[w], pos[w] + 1>>} |->
                   IF x = <<entry[w], pos[w] + 1>>
                     THEN [key |-> k, enc |-> e, raw |-> s,
                           banks |-> {Entries[entry[w]]}, sem |-> s]
                     ELSE heap[x]]
  BY DEF Normalise
<1>3. [key |-> k, enc |-> e, raw |-> s, banks |-> {Entries[entry[w]]}, sem |-> s]
        \in Record
  BY <1>1 DEF Record
<1> QED
  BY <1>2, <1>3 DEF BankOf

\* Every step keeps the types.
LEMMA TypeStep == ASSUME TypeOK, WorkerOK, Fresh, [Next]_vars PROVE TypeOK'
<1>1. ASSUME NEW w \in Worker, Take(w) PROVE TypeOK'
  <2>1. queue' \in 0 .. Len(Entries) /\ queue + 1 \in 0 .. Len(Entries)
    BY <1>1, EntriesDomain DEF Take, TypeOK
  <2>2. entry' \in [Worker -> 0 .. Len(Entries)] /\ pos' \in [Worker -> 0 .. MaxYield]
    BY <1>1, <2>1 DEF Take, TypeOK
  <2> QED
    BY <1>1, <2>1, <2>2 DEF Take, Goto, TypeOK, Steps
<1>2. ASSUME NEW w \in Worker, Refuse(w) PROVE TypeOK'
  <2>1. pos' \in [Worker -> 0 .. MaxYield]
    BY <1>2 DEF Refuse, TypeOK
  <2>2. entry[w] \in DOMAIN Entries
    BY <1>2, EntriesDomain DEF Refuse, WorkerOK
  <2>3. rejected' \in [DOMAIN Entries -> Nat]
    BY <1>2, <2>2 DEF Refuse, TypeOK
  <2> QED
    BY <1>2, <2>1, <2>3 DEF Refuse, TypeOK
<1>3. ASSUME NEW w \in Worker, Normalise(w) PROVE TypeOK'
  <2>1. PICK rec \in Record :
          heap' = [x \in DOMAIN heap \cup {<<entry[w], pos[w] + 1>>} |->
                     IF x = <<entry[w], pos[w] + 1>> THEN rec ELSE heap[x]]
    BY <1>3, NormaliseHeap
  <2>2. DOMAIN heap \subseteq DOMAIN heap' /\ DOMAIN heap' \subseteq Id
        /\ heap' \in [DOMAIN heap' -> Record]
    BY <1>3, <2>1, NewIdFresh DEF TypeOK
  <2>3. pos' \in [Worker -> 0 .. MaxYield]
    BY <1>3 DEF Normalise, TypeOK
  <2>4. byKey' \in [DOMAIN byKey' -> DOMAIN heap'] /\ DOMAIN byKey' \subseteq Key
    BY <1>3, <2>2 DEF Normalise, TypeOK
  <2>5. prev' \in [Worker -> DOMAIN heap' \cup {None}] /\ added' \subseteq DOMAIN heap'
    BY <1>3, <2>2 DEF Normalise, TypeOK
  <2> QED
    BY <1>3, <2>2, <2>3, <2>4, <2>5 DEF Normalise, Goto, TypeOK, Steps
<1>4. ASSUME NEW w \in Worker, Lookup(w) PROVE TypeOK'
  <2>1. New(w) \in DOMAIN heap
    BY <1>4 DEF Lookup, WorkerOK, Adding
  <2>2. prev' \in [Worker -> DOMAIN heap \cup {None}]
    BY <1>4, <2>1, ZenonT(30) DEF Lookup, TypeOK
  <2> QED
    BY <1>4, <2>2 DEF Lookup, TypeOK, Steps
<1>5. ASSUME NEW w \in Worker, Insert(w) PROVE TypeOK'
  <2>1. New(w) \in DOMAIN heap /\ heap[New(w)].key \in Key
    BY <1>5 DEF Insert, Goto, TypeOK, WorkerOK, Adding, Record
  <2>2. byKey' \in [DOMAIN byKey' -> DOMAIN heap] /\ DOMAIN byKey' \subseteq Key
    BY <1>5, <2>1 DEF Insert, TypeOK
  <2> QED
    BY <1>5, <2>1, <2>2 DEF Insert, Goto, TypeOK, Steps
<1>6. ASSUME NEW w \in Worker, Union(w) PROVE TypeOK'
  <2>a. heap[Kept(w)] \in Record /\ heap[Other(w)] \in Record
    BY <1>6, MergePair DEF Union, Goto, Merging
  <2>b. [heap[Kept(w)] EXCEPT !.banks = @ \cup heap[Other(w)].banks] \in Record
    BY <2>a DEF Record
  <2>1. heap' \in [DOMAIN heap -> Record]
    BY <1>6, <2>b DEF Union, TypeOK
  <2>2. New(w) \in DOMAIN heap
    BY <1>6 DEF Union, Goto, WorkerOK, Adding
  <2>3. DOMAIN heap' = DOMAIN heap
    BY <1>6 DEF Union, TypeOK
  <2> QED
    BY <1>6, <2>1, <2>2, <2>3 DEF Union, Goto, TypeOK, Steps
<1>7. ASSUME NEW w \in Worker, Flag(w) PROVE TypeOK'
  <2>1. New(w) \in Id
    BY <1>7 DEF Flag, Goto, TypeOK, WorkerOK, Adding
  <2>a. [key |-> heap[Kept(w)].key, banks |-> heap[Kept(w)].banks, by |-> New(w)]
          \in Conflict
    BY <1>7, <2>1, MergePair DEF Flag, Goto, Record, Conflict, Merging
  <2>2. conflicts' \subseteq Conflict
    BY <1>7, <2>a DEF Flag, TypeOK
  <2> QED
    BY <1>7, <2>2 DEF Flag, Goto, TypeOK, Steps
<1>8. ASSUME NEW w \in Worker, KeepSemantics(w) PROVE TypeOK'
  <2>1. New(w) \in DOMAIN heap
    BY <1>8 DEF KeepSemantics, Goto, WorkerOK, Adding
  <2> QED
    BY <1>8, <2>1 DEF KeepSemantics, Goto, TypeOK, Steps
<1>9. ASSUME NEW w \in Worker, WantSemantics(w) PROVE TypeOK'
  BY <1>9 DEF WantSemantics, Goto, TypeOK, Steps
<1>10. ASSUME NEW w \in Worker, TakeSemantics(w) PROVE TypeOK'
  <2>a. heap[Kept(w)] \in Record /\ heap[Other(w)] \in Record
    BY <1>10, MergePair DEF TakeSemantics, Goto, Merging
  <2>b. [heap[Kept(w)] EXCEPT !.sem = heap[Other(w)].sem] \in Record
    BY <2>a DEF Record
  <2>1. heap' \in [DOMAIN heap -> Record]
    BY <1>10, <2>b DEF TakeSemantics, TypeOK
  <2>2. New(w) \in DOMAIN heap
    BY <1>10 DEF TakeSemantics, Goto, WorkerOK, Adding
  <2>3. DOMAIN heap' = DOMAIN heap
    BY <1>10 DEF TakeSemantics, TypeOK
  <2> QED
    BY <1>10, <2>1, <2>2, <2>3 DEF TakeSemantics, Goto, TypeOK, Steps
<1>11. ASSUME NEW w \in Worker, Fail(w) PROVE TypeOK'
  BY <1>11 DEF Fail, Goto, TypeOK, Steps
<1>12. ASSUME NEW w \in Worker, Finish(w) PROVE TypeOK'
  BY <1>12 DEF Finish, Goto, TypeOK, Steps
<1>13. CASE Collect
  BY <1>13 DEF Collect, TypeOK
<1>14. CASE UNCHANGED vars
  BY <1>14 DEF vars, TypeOK
<1> QED
  BY <1>1, <1>2, <1>3, <1>4, <1>5, <1>6, <1>7, <1>8, <1>9, <1>10, <1>11, <1>12, <1>13, <1>14 DEF Next, handle, add, Over

\* Every step keeps what the workers rely on.
LEMMA WorkerStep == ASSUME TypeOK, WorkerOK, Fresh, KeyPresent, [Next]_vars PROVE WorkerOK'
<1>1. ASSUME NEW w \in Worker, Take(w) PROVE WorkerOK'
  <2>1. queue + 1 \in 1 .. Len(Entries)
    BY <1>1, EntriesDomain DEF Take, TypeOK
  <2> QED
    BY <1>1, <2>1 DEF Take, Goto, TypeOK, WorkerOK, New, Adding, Merging
<1>2. ASSUME NEW w \in Worker, Refuse(w) PROVE WorkerOK'
  BY <1>2 DEF Refuse, Goto, TypeOK, WorkerOK, New, Adding, Merging
<1>3. ASSUME NEW w \in Worker, Normalise(w) PROVE WorkerOK'
  <2>1. PICK rec \in Record :
          heap' = [x \in DOMAIN heap \cup {<<entry[w], pos[w] + 1>>} |->
                     IF x = <<entry[w], pos[w] + 1>> THEN rec ELSE heap[x]]
    BY <1>3, NormaliseHeap
  <2>2. /\ DOMAIN heap' = DOMAIN heap \cup {<<entry[w], pos[w] + 1>>}
        /\ \A x \in DOMAIN heap : heap'[x] = heap[x]
    BY <1>3, <2>1, NewIdFresh
  <2>3. New(w)' = <<entry[w], pos[w] + 1>>
    BY <1>3 DEF Normalise, TypeOK, New
  <2>4. pc'[w] = "lookup" /\ entry'[w] \in 1 .. Len(Entries)
    BY <1>3 DEF Normalise, Goto, TypeOK, WorkerOK
  <2>5. \A v \in Worker \ {w} :
          pc'[v] = pc[v] /\ New(v)' = New(v) /\ prev'[v] = prev[v] /\ entry'[v] = entry[v]
    BY <1>3 DEF Normalise, Goto, TypeOK, New
  <2>6. byKey' = byKey
    BY <1>3 DEF Normalise
  <2>7. ASSUME NEW v \in Worker
        PROVE  /\ pc'[v] # "idle" => entry'[v] \in 1 .. Len(Entries)
               /\ pc'[v] \in Adding => New(v)' \in DOMAIN heap'
               /\ pc'[v] \in Merging => /\ prev'[v] \in DOMAIN heap'
                                        /\ heap'[prev'[v]].key = heap'[New(v)'].key
                                        /\ heap'[New(v)'].key \in DOMAIN byKey'
    <3>1. CASE v = w
      BY <2>2, <2>3, <2>4, <3>1 DEF Merging
    <3>2. CASE v # w
      BY <2>2, <2>5, <2>6, <3>2 DEF WorkerOK, Adding, Merging
    <3> QED
      BY <3>1, <3>2
  <2> QED
    BY <2>7 DEF WorkerOK
<1>4. ASSUME NEW w \in Worker, Lookup(w) PROVE WorkerOK'
  <2>1. New(w) \in DOMAIN heap /\ entry[w] \in 1 .. Len(Entries)
    BY <1>4 DEF Lookup, WorkerOK, Adding
  <2>2. \A v \in Worker : New(v)' = New(v)
    BY <1>4 DEF Lookup, New
  <2>3. \A v \in Worker \ {w} : pc'[v] = pc[v] /\ prev'[v] = prev[v]
    BY <1>4 DEF Lookup, TypeOK
  <2>4. pc'[w] \in Adding
        /\ (pc'[w] \in Merging => /\ prev'[w] \in DOMAIN heap
                                  /\ heap[prev'[w]].key = heap[New(w)].key
                                  /\ heap[New(w)].key \in DOMAIN byKey)
    BY <1>4, <2>1 DEF Lookup, TypeOK, KeyPresent, Adding, Merging
  <2> QED
    BY <1>4, <2>1, <2>2, <2>3, <2>4 DEF Lookup, WorkerOK
<1>5. ASSUME NEW w \in Worker, Insert(w) PROVE WorkerOK'
  <2>1. DOMAIN byKey \subseteq DOMAIN byKey'
    BY <1>5 DEF Insert
  <2> QED
    BY <1>5, <2>1 DEF Insert, Goto, TypeOK, WorkerOK, New, Adding, Merging
<1>6. ASSUME NEW w \in Worker, Union(w) PROVE WorkerOK'
  <2>1. /\ DOMAIN heap' = DOMAIN heap
        /\ \A x \in DOMAIN heap : heap'[x].key = heap[x].key
    BY <1>6, MergePair DEF Union, Goto, TypeOK, Record, Merging
  <2> QED
    BY <1>6, <2>1 DEF Union, Goto, TypeOK, WorkerOK, New, Adding, Merging
<1>7. ASSUME NEW w \in Worker, Flag(w) PROVE WorkerOK'
  BY <1>7 DEF Flag, Goto, TypeOK, WorkerOK, New, Adding, Merging
<1>8. ASSUME NEW w \in Worker, KeepSemantics(w) PROVE WorkerOK'
  BY <1>8 DEF KeepSemantics, Goto, TypeOK, WorkerOK, New, Adding, Merging
<1>9. ASSUME NEW w \in Worker, WantSemantics(w) PROVE WorkerOK'
  BY <1>9 DEF WantSemantics, Goto, TypeOK, WorkerOK, New, Adding, Merging
<1>10. ASSUME NEW w \in Worker, TakeSemantics(w) PROVE WorkerOK'
  <2>1. /\ DOMAIN heap' = DOMAIN heap
        /\ \A x \in DOMAIN heap : heap'[x].key = heap[x].key
    BY <1>10, MergePair DEF TakeSemantics, Goto, TypeOK, Record, Merging
  <2> QED
    BY <1>10, <2>1 DEF TakeSemantics, Goto, TypeOK, WorkerOK, New, Adding, Merging
<1>11. ASSUME NEW w \in Worker, Fail(w) PROVE WorkerOK'
  BY <1>11 DEF Fail, Goto, TypeOK, WorkerOK, New, Adding, Merging
<1>12. ASSUME NEW w \in Worker, Finish(w) PROVE WorkerOK'
  BY <1>12 DEF Finish, Goto, TypeOK, WorkerOK, New, Adding, Merging
<1>13. CASE Collect
  BY <1>13 DEF Collect, WorkerOK, New
<1>14. CASE UNCHANGED vars
  BY <1>14 DEF vars, WorkerOK, New
<1> QED
  BY <1>1, <1>2, <1>3, <1>4, <1>5, <1>6, <1>7, <1>8, <1>9, <1>10, <1>11, <1>12, <1>13, <1>14 DEF Next, handle, add, Over

\* Every step keeps identities apart.
LEMMA FreshStep == ASSUME TypeOK, WorkerOK, Fresh, [Next]_vars PROVE Fresh'
<1>1. ASSUME NEW w \in Worker, Take(w) PROVE Fresh'
  <2>1. entry'[w] = queue + 1 /\ queue' = queue + 1
    BY <1>1 DEF Take, TypeOK
  <2>2. \A v \in Worker \ {w} : pc'[v] = pc[v] /\ entry'[v] = entry[v] /\ pos'[v] = pos[v]
    BY <1>1 DEF Take, Goto, TypeOK
  <2>3. \A x \in DOMAIN heap : x[1] \in Nat /\ x[1] # queue + 1 /\ x[1] <= queue + 1
    BY EntriesDomain DEF Fresh, TypeOK, Id
  <2>4. \A v \in Worker : entry[v] # queue + 1 /\ entry[v] <= queue + 1
    BY EntriesDomain DEF Fresh, TypeOK
  <2>5. heap' = heap
    BY <1>1 DEF Take
  <2>6. queue + 1 <= queue + 1
    BY DEF TypeOK
  <2> QED
    BY <2>1, <2>2, <2>3, <2>4, <2>5, <2>6 DEF Fresh
<1>2. ASSUME NEW w \in Worker, Refuse(w) PROVE Fresh'
  <2>1. \A x \in DOMAIN heap : x[2] \in Nat /\ (x[2] <= pos[w] => x[2] <= pos[w] + 1)
    BY EntriesDomain DEF TypeOK, Id
  <2>2. pos'[w] = pos[w] + 1 /\ \A v \in Worker \ {w} : pos'[v] = pos[v]
    BY <1>2 DEF Refuse, TypeOK
  <2> QED
    BY <1>2, <2>1, <2>2 DEF Refuse, Fresh
<1>3. ASSUME NEW w \in Worker, Normalise(w) PROVE Fresh'
  <2>1. DOMAIN heap' = DOMAIN heap \cup {<<entry[w], pos[w] + 1>>}
    BY <1>3, NormaliseHeap
  <2>2. \A x \in DOMAIN heap : x[2] \in Nat /\ (x[2] <= pos[w] => x[2] <= pos[w] + 1)
    BY EntriesDomain DEF TypeOK, Id
  <2>3. pos'[w] = pos[w] + 1 /\ pos[w] + 1 <= pos[w] + 1
        /\ \A v \in Worker \ {w} : pos'[v] = pos[v]
    BY <1>3 DEF Normalise, TypeOK
  <2>4. pc[w] = "loop" /\ pc'[w] = "lookup" /\ \A v \in Worker \ {w} : pc'[v] = pc[v]
    BY <1>3 DEF Normalise, Goto, TypeOK
  <2>5. entry' = entry /\ queue' = queue
    BY <1>3 DEF Normalise
  <2> QED
    BY <2>1, <2>2, <2>3, <2>4, <2>5 DEF Fresh
<1>4. ASSUME NEW w \in Worker, Lookup(w) PROVE Fresh'
  BY <1>4 DEF Lookup, Goto, TypeOK, Fresh
<1>5. ASSUME NEW w \in Worker, Insert(w) PROVE Fresh'
  BY <1>5 DEF Insert, Goto, TypeOK, Fresh
<1>6. ASSUME NEW w \in Worker, Union(w) PROVE Fresh'
  <2>1. DOMAIN heap' = DOMAIN heap
    BY <1>6 DEF Union, TypeOK
  <2> QED
    BY <1>6, <2>1 DEF Union, Goto, TypeOK, Fresh
<1>7. ASSUME NEW w \in Worker, Flag(w) PROVE Fresh'
  BY <1>7 DEF Flag, Goto, TypeOK, Fresh
<1>8. ASSUME NEW w \in Worker, KeepSemantics(w) PROVE Fresh'
  BY <1>8 DEF KeepSemantics, Goto, TypeOK, Fresh
<1>9. ASSUME NEW w \in Worker, WantSemantics(w) PROVE Fresh'
  BY <1>9 DEF WantSemantics, Goto, TypeOK, Fresh
<1>10. ASSUME NEW w \in Worker, TakeSemantics(w) PROVE Fresh'
  <2>1. DOMAIN heap' = DOMAIN heap
    BY <1>10 DEF TakeSemantics, TypeOK
  <2> QED
    BY <1>10, <2>1 DEF TakeSemantics, Goto, TypeOK, Fresh
<1>11. ASSUME NEW w \in Worker, Fail(w) PROVE Fresh'
  BY <1>11 DEF Fail, Goto, TypeOK, Fresh
<1>12. ASSUME NEW w \in Worker, Finish(w) PROVE Fresh'
  BY <1>12 DEF Finish, Goto, TypeOK, Fresh
<1>13. CASE Collect
  BY <1>13 DEF Collect, Fresh
<1>14. CASE UNCHANGED vars
  BY <1>14 DEF vars, Fresh
<1> QED
  BY <1>1, <1>2, <1>3, <1>4, <1>5, <1>6, <1>7, <1>8, <1>9, <1>10, <1>11, <1>12, <1>13, <1>14 DEF Next, handle, add, Over

\* Every step keeps yielded keys indexed, each under its own record.
LEMMA KeyStep == ASSUME TypeOK, WorkerOK, Fresh, KeyPresent, [Next]_vars PROVE KeyPresent'
<1>1. ASSUME NEW w \in Worker, Take(w) PROVE KeyPresent'
  BY <1>1 DEF Take, KeyPresent
<1>2. ASSUME NEW w \in Worker, Refuse(w) PROVE KeyPresent'
  BY <1>2 DEF Refuse, KeyPresent
<1>3. ASSUME NEW w \in Worker, Normalise(w) PROVE KeyPresent'
  <2>1. PICK rec \in Record :
          heap' = [x \in DOMAIN heap \cup {<<entry[w], pos[w] + 1>>} |->
                     IF x = <<entry[w], pos[w] + 1>> THEN rec ELSE heap[x]]
    BY <1>3, NormaliseHeap
  <2>2. \A x \in DOMAIN heap : heap'[x] = heap[x]
    BY <1>3, <2>1, NewIdFresh
  <2> QED
    BY <1>3, <2>2 DEF Normalise, TypeOK, KeyPresent
<1>4. ASSUME NEW w \in Worker, Lookup(w) PROVE KeyPresent'
  BY <1>4 DEF Lookup, KeyPresent
<1>5. ASSUME NEW w \in Worker, Insert(w) PROVE KeyPresent'
  <2>1. New(w) \in DOMAIN heap
    BY <1>5 DEF Insert, Goto, WorkerOK, Adding
  <2> QED
    BY <1>5, <2>1 DEF Insert, TypeOK, KeyPresent
<1>6. ASSUME NEW w \in Worker, Union(w) PROVE KeyPresent'
  <2>1. /\ DOMAIN heap' = DOMAIN heap
        /\ \A x \in DOMAIN heap : heap'[x].key = heap[x].key
    BY <1>6, MergePair DEF Union, Goto, TypeOK, Record, Merging
  <2>2. heap[New(w)].key \in DOMAIN byKey /\ New(w) \in DOMAIN heap
    BY <1>6 DEF Union, Goto, WorkerOK, Merging, Adding
  <2> QED
    BY <1>6, <2>1, <2>2 DEF Union, TypeOK, KeyPresent
<1>7. ASSUME NEW w \in Worker, Flag(w) PROVE KeyPresent'
  BY <1>7 DEF Flag, KeyPresent
<1>8. ASSUME NEW w \in Worker, KeepSemantics(w) PROVE KeyPresent'
  <2>1. heap[New(w)].key \in DOMAIN byKey
    BY <1>8 DEF KeepSemantics, Goto, WorkerOK, Merging
  <2> QED
    BY <1>8, <2>1 DEF KeepSemantics, KeyPresent
<1>9. ASSUME NEW w \in Worker, WantSemantics(w) PROVE KeyPresent'
  BY <1>9 DEF WantSemantics, KeyPresent
<1>10. ASSUME NEW w \in Worker, TakeSemantics(w) PROVE KeyPresent'
  <2>1. /\ DOMAIN heap' = DOMAIN heap
        /\ \A x \in DOMAIN heap : heap'[x].key = heap[x].key
    BY <1>10, MergePair DEF TakeSemantics, Goto, TypeOK, Record, Merging
  <2>2. heap[New(w)].key \in DOMAIN byKey /\ New(w) \in DOMAIN heap
    BY <1>10 DEF TakeSemantics, Goto, WorkerOK, Merging, Adding
  <2> QED
    BY <1>10, <2>1, <2>2 DEF TakeSemantics, TypeOK, KeyPresent
<1>11. ASSUME NEW w \in Worker, Fail(w) PROVE KeyPresent'
  BY <1>11 DEF Fail, KeyPresent
<1>12. ASSUME NEW w \in Worker, Finish(w) PROVE KeyPresent'
  BY <1>12 DEF Finish, KeyPresent
<1>13. CASE Collect
  BY <1>13 DEF Collect, KeyPresent
<1>14. CASE UNCHANGED vars
  BY <1>14 DEF vars, KeyPresent
<1> QED
  BY <1>1, <1>2, <1>3, <1>4, <1>5, <1>6, <1>7, <1>8, <1>9, <1>10, <1>11, <1>12, <1>13, <1>14 DEF Next, handle, add, Over

\* The invariant is inductive.
LEMMA IndInvInductive == IndInv /\ [Next]_vars => IndInv'
  BY TypeStep, WorkerStep, FreshStep, KeyStep DEF IndInv

\* Whatever the number of workers and the interleaving, the invariant holds.
THEOREM Invariance == Spec => []IndInv
<1>1. Init => IndInv
  BY InitIndInv
<1>2. IndInv /\ [Next]_vars => IndInv'
  BY IndInvInductive
<1> QED
  BY <1>1, <1>2, PTL DEF Spec

\* Type correctness of the worker pool and the shared MergeIndex.
THEOREM TypeCorrect == Spec => []TypeOK
<1>1. IndInv => TypeOK
  BY DEF IndInv
<1> QED
  BY <1>1, Invariance, PTL

\* However many workers race on MergeIndex.add, a key that was yielded is never
\* missing from the merged records.
THEOREM NoKeyLost == Spec => []KeyPresent
<1>1. IndInv => KeyPresent
  BY DEF IndInv
<1> QED
  BY <1>1, Invariance, PTL

----------------------------------------------------------------------------
(***************************************************************************)
(* The plain loop: workers: 1.                                             *)
(***************************************************************************)

\* Init establishes the sequential invariant.
LEMMA InitSeqInv == Init => SeqInv
  BY DEF Init, SeqInv, Merging

\* With one worker every step keeps the sequential invariant.
LEMMA SeqStep == ASSUME Sequential, IndInv, SeqInv, [Next]_vars PROVE SeqInv'
<1>1. ASSUME NEW w \in Worker, Take(w) PROVE SeqInv'
  <2>1. pc'[w] = "loop" /\ \A v \in Worker : v = w
    BY <1>1 DEF Take, Goto, IndInv, TypeOK, Sequential
  <2> QED
    BY <1>1, <2>1 DEF Take, SeqInv, Merging, Flagged
<1>2. ASSUME NEW w \in Worker, Refuse(w) PROVE SeqInv'
  <2>1. pc'[w] = "loop" /\ \A v \in Worker : v = w
    BY <1>2 DEF Refuse, Sequential
  <2> QED
    BY <1>2, <2>1 DEF Refuse, SeqInv, Merging, Flagged
<1>3. ASSUME NEW w \in Worker, Normalise(w) PROVE SeqInv'
  <2>1. PICK rec \in Record :
          heap' = [x \in DOMAIN heap \cup {<<entry[w], pos[w] + 1>>} |->
                     IF x = <<entry[w], pos[w] + 1>> THEN rec ELSE heap[x]]
    BY <1>3, NormaliseHeap DEF IndInv
  <2>2. \A x \in DOMAIN heap : heap'[x] = heap[x]
    BY <1>3, <2>1, NewIdFresh DEF IndInv
  <2>3. pc'[w] = "lookup" /\ \A v \in Worker : v = w
    BY <1>3 DEF Normalise, Goto, IndInv, TypeOK, Sequential
  <2>4. \A x \in added' :
          /\ x \in added
          /\ heap'[x] = heap[x]
          /\ heap'[byKey'[heap[x].key]] = heap[byKey[heap[x].key]]
    BY <1>3, <2>2 DEF Normalise, IndInv, TypeOK, KeyPresent
  <2> QED
    <3>1. conflicts' = conflicts
      BY <1>3 DEF Normalise
    <3>2. \A x \in added' : \/ heap'[x].enc = heap'[byKey'[heap'[x].key]].enc
                            \/ \E c \in conflicts' : c.key = heap'[x].key
      BY <2>4, <3>1 DEF SeqInv, Flagged
    <3> QED
      BY <2>3, <3>2 DEF SeqInv, Merging, Flagged
<1>4. ASSUME NEW w \in Worker, Lookup(w) PROVE SeqInv'
  <2>1. \A v \in Worker : v = w
    BY DEF Sequential
  <2>2. New(w)' = New(w)
    BY <1>4 DEF Lookup, New
  <2>3. \/ pc'[w] = "insert" /\ heap[New(w)].key \notin DOMAIN byKey
        \/ pc'[w] = "union" /\ prev'[w] = byKey[heap[New(w)].key]
    BY <1>4 DEF Lookup, IndInv, TypeOK
  <2> QED
    BY <1>4, <2>1, <2>2, <2>3 DEF Lookup, SeqInv, Merging, Flagged
<1>5. ASSUME NEW w \in Worker, Insert(w) PROVE SeqInv'
  <2>1. pc'[w] = "loop" /\ \A v \in Worker : v = w
    BY <1>5 DEF Insert, Goto, IndInv, TypeOK, Sequential
  <2>2. heap[New(w)].key \notin DOMAIN byKey
    BY <1>5 DEF Insert, Goto, SeqInv
  <2>3. \A x \in added : byKey'[heap[x].key] = byKey[heap[x].key]
    BY <1>5, <2>2 DEF Insert, IndInv, KeyPresent
  <2>4. byKey'[heap[New(w)].key] = New(w)
    BY <1>5 DEF Insert
  <2>5. added' = added \cup {New(w)} /\ heap' = heap /\ conflicts' = conflicts
    BY <1>5 DEF Insert
  <2> QED
    BY <2>1, <2>3, <2>4, <2>5 DEF SeqInv, Merging, Flagged
<1>6. ASSUME NEW w \in Worker, Union(w) PROVE SeqInv'
  <2>1. pc'[w] = "flag" /\ (\A v \in Worker : v = w) /\ New(w)' = New(w)
    BY <1>6 DEF Union, Goto, IndInv, TypeOK, Sequential, New
  <2>2. \A x \in DOMAIN heap : heap'[x].key = heap[x].key /\ heap'[x].enc = heap[x].enc
    BY <1>6, MergePair DEF Union, Goto, IndInv, TypeOK, Record, Merging
  <2>4. New(w) \in DOMAIN heap /\ heap[New(w)].key \in DOMAIN byKey
        /\ prev[w] \in DOMAIN heap
    BY <1>6 DEF Union, Goto, IndInv, WorkerOK, Adding, Merging
  <2>5. \A x \in added : /\ heap'[x].key = heap[x].key /\ heap'[x].enc = heap[x].enc
                         /\ heap'[byKey[heap[x].key]].enc = heap[byKey[heap[x].key]].enc
    BY <2>2 DEF IndInv, TypeOK, KeyPresent
  <2>6. byKey' = byKey /\ conflicts' = conflicts /\ prev' = prev
    BY <1>6 DEF Union
  <2>7. /\ heap'[New(w)].key = heap[New(w)].key /\ heap'[New(w)].enc = heap[New(w)].enc
        /\ heap'[byKey[heap[New(w)].key]].enc = heap[byKey[heap[New(w)].key]].enc
        /\ heap'[prev[w]].enc = heap[prev[w]].enc
    BY <2>2, <2>4 DEF IndInv, TypeOK
  <2>8. added' = added
    BY <1>6 DEF Union
  <2>9. \A x \in added' : \/ heap'[x].enc = heap'[byKey'[heap'[x].key]].enc
                          \/ \E c \in conflicts' : c.key = heap'[x].key
    BY <2>5, <2>6, <2>7, <2>8 DEF SeqInv, Flagged
  <2>10. prev[w] = byKey[heap[New(w)].key]
    BY <1>6 DEF Union, Goto, SeqInv, Merging
  <2> QED
    BY <2>1, <2>6, <2>7, <2>9, <2>10 DEF SeqInv, Merging, Flagged
<1>7. ASSUME NEW w \in Worker, Flag(w) PROVE SeqInv'
  <2>1. pc'[w] = "semantics" /\ (\A v \in Worker : v = w) /\ New(w)' = New(w)
    BY <1>7 DEF Flag, Goto, IndInv, TypeOK, Sequential, New
  <2>2. \A k : Flagged(k) => Flagged(k)'
    BY <1>7 DEF Flag, Flagged
  <2>3. heap[Kept(w)].enc # heap[Other(w)].enc => Flagged(heap[New(w)].key)'
    <3> SUFFICES ASSUME heap[Kept(w)].enc # heap[Other(w)].enc
                 PROVE  \E c \in conflicts' : c.key = heap'[New(w)'].key
      BY <2>1 DEF Flagged
    <3>1. heap[Kept(w)].key = heap[New(w)].key
      BY <1>7, MergePair DEF Flag, Goto, IndInv, Merging
    <3>2. heap' = heap /\ [key |-> heap[Kept(w)].key, banks |-> heap[Kept(w)].banks,
                           by |-> New(w)] \in conflicts'
      BY <1>7 DEF Flag
    <3> QED
      BY <2>1, <3>1, <3>2
  <2>4. heap[New(w)].enc = heap[prev[w]].enc \/ heap[Kept(w)].enc # heap[Other(w)].enc
    BY DEF Kept, Other
  <2> HIDE DEF Flagged
  <2> QED
    BY <1>7, <2>1, <2>2, <2>3, <2>4 DEF Flag, Goto, SeqInv, Merging
<1>8. ASSUME NEW w \in Worker, KeepSemantics(w) PROVE SeqInv'
  <2>1. pc'[w] = "loop" /\ \A v \in Worker : v = w
    BY <1>8 DEF KeepSemantics, Goto, IndInv, TypeOK, Sequential
  <2>2. \/ heap[New(w)].enc = heap[byKey[heap[New(w)].key]].enc
        \/ Flagged(heap[New(w)].key)
    BY <1>8 DEF KeepSemantics, Goto, SeqInv, Merging
  <2> QED
    BY <1>8, <2>1, <2>2 DEF KeepSemantics, SeqInv, Merging, Flagged
<1>9. ASSUME NEW w \in Worker, WantSemantics(w) PROVE SeqInv'
  BY <1>9 DEF WantSemantics, Goto, IndInv, TypeOK, SeqInv, New, Merging, Flagged
<1>10. ASSUME NEW w \in Worker, TakeSemantics(w) PROVE SeqInv'
  <2>1. pc'[w] = "loop" /\ (\A v \in Worker : v = w) /\ New(w)' = New(w)
    BY <1>10 DEF TakeSemantics, Goto, IndInv, TypeOK, Sequential, New
  <2>2. \A x \in DOMAIN heap : heap'[x].key = heap[x].key /\ heap'[x].enc = heap[x].enc
    BY <1>10, MergePair DEF TakeSemantics, Goto, IndInv, TypeOK, Record, Merging
  <2>3. \/ heap[New(w)].enc = heap[byKey[heap[New(w)].key]].enc
        \/ Flagged(heap[New(w)].key)
    BY <1>10 DEF TakeSemantics, Goto, SeqInv, Merging
  <2>4. New(w) \in DOMAIN heap /\ heap[New(w)].key \in DOMAIN byKey
        /\ prev[w] \in DOMAIN heap
    BY <1>10 DEF TakeSemantics, Goto, IndInv, WorkerOK, Adding, Merging
  <2>5. \A x \in added : /\ heap'[x].key = heap[x].key /\ heap'[x].enc = heap[x].enc
                         /\ heap'[byKey[heap[x].key]].enc = heap[byKey[heap[x].key]].enc
    BY <2>2 DEF IndInv, TypeOK, KeyPresent
  <2>6. byKey' = byKey /\ conflicts' = conflicts /\ prev' = prev
    BY <1>10 DEF TakeSemantics
  <2>7. /\ heap'[New(w)].key = heap[New(w)].key /\ heap'[New(w)].enc = heap[New(w)].enc
        /\ heap'[byKey[heap[New(w)].key]].enc = heap[byKey[heap[New(w)].key]].enc
        /\ heap'[prev[w]].enc = heap[prev[w]].enc
    BY <2>2, <2>4 DEF IndInv, TypeOK
  <2>8. added' = added \cup {New(w)}
    BY <1>10 DEF TakeSemantics
  <2>9. \A x \in added' : \/ heap'[x].enc = heap'[byKey'[heap'[x].key]].enc
                          \/ \E c \in conflicts' : c.key = heap'[x].key
    BY <2>3, <2>5, <2>6, <2>7, <2>8 DEF SeqInv, Flagged
  <2>10. prev[w] = byKey[heap[New(w)].key]
    BY <1>10 DEF TakeSemantics, Goto, SeqInv, Merging
  <2> QED
    BY <2>1, <2>6, <2>7, <2>9, <2>10 DEF SeqInv, Merging, Flagged
<1>11. ASSUME NEW w \in Worker, Fail(w) PROVE SeqInv'
  <2>1. pc'[w] = "idle" /\ \A v \in Worker : v = w
    BY <1>11 DEF Fail, Goto, IndInv, TypeOK, Sequential
  <2> QED
    BY <1>11, <2>1 DEF Fail, SeqInv, Merging, Flagged
<1>12. ASSUME NEW w \in Worker, Finish(w) PROVE SeqInv'
  <2>1. pc'[w] = "idle" /\ \A v \in Worker : v = w
    BY <1>12 DEF Finish, Goto, IndInv, TypeOK, Sequential
  <2> QED
    BY <1>12, <2>1 DEF Finish, SeqInv, Merging, Flagged
<1>13. CASE Collect
  BY <1>13 DEF Collect, SeqInv, New, Merging, Flagged
<1>14. CASE UNCHANGED vars
  BY <1>14 DEF vars, SeqInv, New, Merging, Flagged
<1> QED
  BY <1>1, <1>2, <1>3, <1>4, <1>5, <1>6, <1>7, <1>8, <1>9, <1>10, <1>11, <1>12, <1>13, <1>14 DEF Next, handle, add, Over

\* With one worker, and whatever config.precedence says, two banks (or one bank
\* twice) that disagree on an encoding are always flagged.
THEOREM EveryConflictFlagged == Sequential => (Spec => []ConflictsFlagged)
<1> SUFFICES ASSUME Sequential PROVE Spec => []ConflictsFlagged
  OBVIOUS
<1>1. Init => SeqInv
  BY InitSeqInv
<1>2. IndInv /\ SeqInv /\ [Next]_vars => SeqInv'
  BY SeqStep
<1>3. SeqInv => ConflictsFlagged
  BY DEF SeqInv, ConflictsFlagged, Flagged
<1> QED
  BY <1>1, <1>2, <1>3, Invariance, PTL DEF Spec

\* Init establishes the invariant about ranked manifests.
LEMMA InitRankInv == Init => RankInv
  BY DEF Init, RankInv

\* A record is never of a later entry than the one at hand, so in a ranked
\* manifest the record found in the index wins every merge.
LEMMA FirstWins ==
  ASSUME ManifestRanked, IndInv, RankInv, NEW w \in Worker, pc[w] \in Merging
  PROVE  Kept(w) = prev[w] /\ Other(w) = New(w)
<1>1. prev[w] \in Id /\ New(w) \in Id /\ New(w)[1] = queue /\ prev[w][1] <= queue
  BY DEF IndInv, TypeOK, WorkerOK, Fresh, RankInv, Merging, Adding, New
<1>2. prev[w][1] \in DOMAIN Entries /\ New(w)[1] \in DOMAIN Entries
  BY <1>1, EntriesDomain DEF Id
<1>3. PrevWins(w)
  BY <1>1, <1>2 DEF ManifestRanked, PrevWins, BankOf
<1> QED
  BY <1>3 DEF Kept, Other

\* With one worker and a ranked manifest every step keeps the invariant.
LEMMA RankStep ==
  ASSUME Sequential, ManifestRanked, IndInv, SeqInv, RankInv, [Next]_vars
  PROVE  RankInv'
<1>1. ASSUME NEW w \in Worker, Take(w) PROVE RankInv'
  <2>1. /\ pc'[w] = "loop" /\ entry'[w] = queue'
        /\ \A v \in Worker : v = w
    BY <1>1 DEF Take, Goto, IndInv, TypeOK, Sequential
  <2> QED
    BY <1>1, <2>1 DEF Take, RankInv
<1>2. ASSUME NEW w \in Worker, Refuse(w) PROVE RankInv'
  <2>1. pc' = pc /\ pc[w] = "loop" /\ \A v \in Worker : v = w
    BY <1>2 DEF Refuse, Sequential
  <2> QED
    BY <1>2, <2>1 DEF Refuse, RankInv
<1>3. ASSUME NEW w \in Worker, Normalise(w) PROVE RankInv'
  <2> DEFINE id == <<entry[w], pos[w] + 1>>
  <2>1. PICK rec \in Record :
          /\ heap' = [x \in DOMAIN heap \cup {id} |-> IF x = id THEN rec ELSE heap[x]]
          /\ rec.banks = {BankOf(id)}
    BY <1>3, NormaliseHeap DEF IndInv
  <2>2. /\ \A x \in DOMAIN heap : heap'[x] = heap[x]
        /\ DOMAIN heap' = DOMAIN heap \cup {id}
        /\ heap'[id].banks = {BankOf(id)}
    BY <1>3, <2>1, NewIdFresh DEF IndInv
  <2>3. \A x \in DOMAIN heap' : BankOf(x) \in heap'[x].banks
    BY <2>2 DEF RankInv
  <2>4. pc'[w] = "lookup" /\ pc[w] = "loop" /\ (\A v \in Worker : v = w)
        /\ entry' = entry /\ queue' = queue
    BY <1>3 DEF Normalise, Goto, IndInv, TypeOK, Sequential
  <2>5. \A x \in added :
          /\ heap'[x] = heap[x]
          /\ heap'[byKey[heap[x].key]] = heap[byKey[heap[x].key]]
    BY <2>2 DEF IndInv, TypeOK, KeyPresent
  <2>6. added' = added /\ byKey' = byKey
    BY <1>3 DEF Normalise
  <2>7. \A x \in added' : /\ BankOf(x) \in heap'[byKey'[heap'[x].key]].banks
                          /\ byKey'[heap'[x].key][1] <= x[1]
    BY <2>5, <2>6 DEF RankInv
  <2> QED
    BY <2>3, <2>4, <2>7 DEF RankInv, BankOf
<1>4. ASSUME NEW w \in Worker, Lookup(w) PROVE RankInv'
  <2>1. pc'[w] \in {"insert", "union"} /\ pc[w] = "lookup" /\ \A v \in Worker : v = w
    BY <1>4 DEF Lookup, IndInv, TypeOK, Sequential
  <2> QED
    BY <1>4, <2>1 DEF Lookup, RankInv
<1>5. ASSUME NEW w \in Worker, Insert(w) PROVE RankInv'
  <2>1. /\ pc'[w] = "loop" /\ pc[w] = "insert"
        /\ \A v \in Worker : v = w
    BY <1>5 DEF Insert, Goto, IndInv, TypeOK, Sequential
  <2>2. heap[New(w)].key \notin DOMAIN byKey /\ New(w) \in DOMAIN heap /\ New(w) \in Id
    BY <2>1 DEF SeqInv, IndInv, TypeOK, WorkerOK, Adding
  <2>3. \A x \in added : byKey'[heap[x].key] = byKey[heap[x].key]
    BY <1>5, <2>2 DEF Insert, IndInv, KeyPresent
  <2>4. byKey'[heap[New(w)].key] = New(w) /\ New(w)[1] <= New(w)[1]
    BY <1>5, <2>2, EntriesDomain DEF Insert, Id
  <2>5. added' = added \cup {New(w)} /\ heap' = heap /\ entry' = entry /\ queue' = queue
    BY <1>5 DEF Insert
  <2>6. \A x \in added' : /\ BankOf(x) \in heap'[byKey'[heap'[x].key]].banks
                          /\ byKey'[heap'[x].key][1] <= x[1]
    BY <2>2, <2>3, <2>4, <2>5 DEF RankInv
  <2> QED
    BY <2>1, <2>5, <2>6 DEF RankInv
<1>6. ASSUME NEW w \in Worker, Union(w) PROVE RankInv'
  <2>1. /\ pc'[w] = "flag" /\ pc[w] = "union" /\ New(w)' = New(w)
        /\ \A v \in Worker : v = w
    BY <1>6 DEF Union, Goto, IndInv, TypeOK, Sequential, New
  <2>2. /\ Kept(w) = prev[w] /\ Other(w) = New(w)
        /\ prev[w] \in DOMAIN heap /\ New(w) \in DOMAIN heap
        /\ heap[prev[w]] \in Record /\ heap[New(w)] \in Record
    BY <2>1, FirstWins, MergePair DEF IndInv, Merging
  <2>3. /\ DOMAIN heap' = DOMAIN heap
        /\ \A x \in DOMAIN heap : /\ heap'[x].key = heap[x].key
                                  /\ heap[x].banks \subseteq heap'[x].banks
        /\ heap[New(w)].banks \subseteq heap'[prev[w]].banks
    BY <1>6, <2>2 DEF Union, IndInv, TypeOK, Record
  <2>4. \A x \in added : x \in DOMAIN heap /\ byKey[heap[x].key] \in DOMAIN heap
    BY DEF IndInv, TypeOK, KeyPresent
  <2>5. added' = added /\ byKey' = byKey /\ entry' = entry /\ queue' = queue /\ prev' = prev
    BY <1>6 DEF Union
  <2>6. \A x \in added' : /\ BankOf(x) \in heap'[byKey'[heap'[x].key]].banks
                          /\ byKey'[heap'[x].key][1] <= x[1]
    BY <2>3, <2>4, <2>5 DEF RankInv
  <2>7. BankOf(New(w)) \in heap'[prev'[w]].banks
    BY <2>2, <2>3, <2>5 DEF RankInv
  <2>8. \A x \in DOMAIN heap' : BankOf(x) \in heap'[x].banks
    BY <2>3 DEF RankInv
  <2> QED
    BY <2>1, <2>5, <2>6, <2>7, <2>8 DEF RankInv, BankOf
<1>7. ASSUME NEW w \in Worker, Flag(w) PROVE RankInv'
  BY <1>7 DEF Flag, Goto, IndInv, TypeOK, RankInv, New, BankOf
<1>8. ASSUME NEW w \in Worker, KeepSemantics(w) PROVE RankInv'
  <2>1. /\ pc'[w] = "loop" /\ pc[w] = "semantics"
        /\ \A v \in Worker : v = w
    BY <1>8 DEF KeepSemantics, Goto, IndInv, TypeOK, Sequential
  <2>2. prev[w] = byKey[heap[New(w)].key] /\ BankOf(New(w)) \in heap[prev[w]].banks
    BY <2>1 DEF SeqInv, RankInv, Merging
  <2>3. prev[w][1] <= New(w)[1]
    BY <2>1 DEF IndInv, WorkerOK, Fresh, RankInv, Merging, New
  <2>4. added' = added \cup {New(w)} /\ heap' = heap /\ byKey' = byKey
        /\ entry' = entry /\ queue' = queue
    BY <1>8 DEF KeepSemantics
  <2> QED
    BY <2>1, <2>2, <2>3, <2>4 DEF RankInv
<1>9. ASSUME NEW w \in Worker, WantSemantics(w) PROVE RankInv'
  BY <1>9 DEF WantSemantics, Goto, IndInv, TypeOK, RankInv, New, BankOf
<1>10. ASSUME NEW w \in Worker, TakeSemantics(w) PROVE RankInv'
  <2>1. /\ pc'[w] = "loop" /\ pc[w] = "assign"
        /\ \A v \in Worker : v = w
    BY <1>10 DEF TakeSemantics, Goto, IndInv, TypeOK, Sequential
  <2>2. prev[w] = byKey[heap[New(w)].key] /\ BankOf(New(w)) \in heap[prev[w]].banks
    BY <2>1 DEF SeqInv, RankInv, Merging
  <2>3. prev[w][1] <= New(w)[1] /\ New(w) \in DOMAIN heap /\ prev[w] \in DOMAIN heap
    BY <2>1 DEF IndInv, WorkerOK, Fresh, RankInv, Merging, Adding, New
  <2>4. /\ DOMAIN heap' = DOMAIN heap
        /\ \A x \in DOMAIN heap : /\ heap'[x].key = heap[x].key
                                  /\ heap'[x].banks = heap[x].banks
    BY <1>10, <2>1, MergePair DEF TakeSemantics, IndInv, TypeOK, Record, Merging
  <2>5. added' = added \cup {New(w)} /\ byKey' = byKey /\ entry' = entry /\ queue' = queue
    BY <1>10 DEF TakeSemantics
  <2>6. \A x \in added : x \in DOMAIN heap /\ byKey[heap[x].key] \in DOMAIN heap
    BY DEF IndInv, TypeOK, KeyPresent
  <2>7. \A x \in added' : /\ BankOf(x) \in heap'[byKey'[heap'[x].key]].banks
                          /\ byKey'[heap'[x].key][1] <= x[1]
    BY <2>2, <2>3, <2>4, <2>5, <2>6 DEF RankInv
  <2> QED
    BY <2>1, <2>4, <2>5, <2>7 DEF RankInv
<1>11. ASSUME NEW w \in Worker, Fail(w) PROVE RankInv'
  <2>1. pc'[w] = "idle" /\ \A v \in Worker : v = w
    BY <1>11 DEF Fail, Goto, IndInv, TypeOK, Sequential
  <2> QED
    BY <1>11, <2>1 DEF Fail, RankInv
<1>12. ASSUME NEW w \in Worker, Finish(w) PROVE RankInv'
  <2>1. pc'[w] = "idle" /\ \A v \in Worker : v = w
    BY <1>12 DEF Finish, Goto, IndInv, TypeOK, Sequential
  <2> QED
    BY <1>12, <2>1 DEF Finish, RankInv
<1>13. CASE Collect
  BY <1>13 DEF Collect, RankInv, New, BankOf
<1>14. CASE UNCHANGED vars
  BY <1>14 DEF vars, RankInv, New, BankOf
<1> QED
  BY <1>1, <1>2, <1>3, <1>4, <1>5, <1>6, <1>7, <1>8, <1>9, <1>10, <1>11, <1>12,
     <1>13, <1>14
  DEF Next, handle, add, Over

\* With one worker and a manifest in precedence order (which the default empty
\* list always is) the merged record names every contributing bank and is of a
\* bank no other contributor outranks.
THEOREM RankedMerge ==
  Sequential /\ ManifestRanked => (Spec => [](ProvenanceKept /\ PrecedenceKept))
<1> SUFFICES ASSUME Sequential, ManifestRanked
             PROVE  Spec => [](ProvenanceKept /\ PrecedenceKept)
  OBVIOUS
<1>1. Init => SeqInv /\ RankInv
  BY InitSeqInv, InitRankInv
<1>2. IndInv /\ SeqInv /\ RankInv /\ [Next]_vars => SeqInv' /\ RankInv'
  BY SeqStep, RankStep
<1>3. IndInv /\ RankInv => ProvenanceKept
  BY DEF IndInv, KeyPresent, RankInv, ProvenanceKept
<1>4. IndInv /\ RankInv => PrecedenceKept
  <2> SUFFICES ASSUME IndInv, RankInv, NEW x \in added
               PROVE  precedence_of(BankOf(byKey[heap[x].key])) >=
                        precedence_of(BankOf(x))
    BY DEF PrecedenceKept
  <2>1. x \in Id /\ byKey[heap[x].key] \in Id
    BY DEF IndInv, TypeOK, KeyPresent
  <2>2. x[1] \in DOMAIN Entries /\ byKey[heap[x].key][1] \in DOMAIN Entries
    BY <2>1, EntriesDomain DEF Id
  <2> QED
    BY <2>2 DEF RankInv, ManifestRanked, BankOf
<1> QED
  BY <1>1, <1>2, <1>3, <1>4, Invariance, PTL DEF Spec

----------------------------------------------------------------------------
(***************************************************************************)
(* What the shared MergeIndex reports: its provenance and conflict entries, *)
(* and whose semantics its records have, for any number of workers and any *)
(* interleaving.                                                           *)
(***************************************************************************)

(***************************************************************************)
(* Any number of workers.                                                  *)
(***************************************************************************)

\* source_banks of a record starts with the bank it came from.
OwnBank == \A x \in DOMAIN heap : BankOf(x) \in heap[x].banks

United == {"flag", "semantics", "assign"}

\* From the union to the end of `_merge`, the kept record names the other one's
\* bank, whatever the other workers do to the two records meanwhile.
UnionDone ==
  \A w \in Worker : pc[w] \in United => BankOf(Other(w)) \in heap[Kept(w)].banks

SoundInv == OwnBank /\ UnionDone /\ ProvenanceSound /\ ConflictsSound

\* No step makes a record disappear, changes its key, its encoding or what the
\* parser gave it, or takes a bank out of its source_banks.
LEMMA HeapGrows ==
  ASSUME IndInv, [Next]_vars
  PROVE  /\ DOMAIN heap \subseteq DOMAIN heap'
         /\ \A x \in DOMAIN heap : /\ heap'[x].key = heap[x].key
                                   /\ heap'[x].enc = heap[x].enc
                                   /\ heap'[x].raw = heap[x].raw
                                   /\ heap[x].banks \subseteq heap'[x].banks
<1>1. CASE heap' = heap
  BY <1>1
<1>2. ASSUME NEW w \in Worker, Normalise(w)
      PROVE  /\ DOMAIN heap \subseteq DOMAIN heap'
             /\ \A x \in DOMAIN heap : heap'[x] = heap[x]
  BY <1>2, NormaliseHeap, NewIdFresh DEF IndInv
<1>3. ASSUME NEW w \in Worker, Union(w)
      PROVE  /\ DOMAIN heap' = DOMAIN heap
             /\ \A x \in DOMAIN heap : /\ heap'[x].key = heap[x].key
                                       /\ heap'[x].enc = heap[x].enc
                                       /\ heap'[x].raw = heap[x].raw
                                       /\ heap[x].banks \subseteq heap'[x].banks
  BY <1>3, MergePair DEF Union, Goto, IndInv, TypeOK, Record, Merging
<1>4. ASSUME NEW w \in Worker, TakeSemantics(w)
      PROVE  /\ DOMAIN heap' = DOMAIN heap
             /\ \A x \in DOMAIN heap : /\ heap'[x].key = heap[x].key
                                       /\ heap'[x].enc = heap[x].enc
                                       /\ heap'[x].raw = heap[x].raw
                                       /\ heap[x].banks \subseteq heap'[x].banks
  BY <1>4, MergePair DEF TakeSemantics, Goto, IndInv, TypeOK, Record, Merging
<1> QED
  BY <1>1, <1>2, <1>3, <1>4
  DEF Next, handle, add, Over, vars, Take, Refuse, Lookup, Insert, Flag,
      KeepSemantics, WantSemantics, Fail, Finish, Collect

\* Init establishes the invariant.
LEMMA InitSoundInv == Init => SoundInv
  BY DEF Init, SoundInv, OwnBank, UnionDone, United, ProvenanceSound, ConflictsSound

\* Every step keeps each record's own bank in its source_banks.
LEMMA OwnBankStep == ASSUME IndInv, OwnBank, [Next]_vars PROVE OwnBank'
<1>1. ASSUME NEW w \in Worker, Normalise(w) PROVE OwnBank'
  <2> DEFINE id == <<entry[w], pos[w] + 1>>
  <2>1. PICK rec \in Record :
          /\ heap' = [x \in DOMAIN heap \cup {id} |-> IF x = id THEN rec ELSE heap[x]]
          /\ rec.banks = {BankOf(id)}
    BY <1>1, NormaliseHeap DEF IndInv
  <2> QED
    BY <2>1 DEF OwnBank, BankOf
<1>2. CASE DOMAIN heap' = DOMAIN heap
  BY <1>2, HeapGrows DEF OwnBank, BankOf
<1> QED
  BY <1>1, <1>2
  DEF Next, handle, add, Over, vars, Take, Refuse, Lookup, Insert, Flag, Union,
      KeepSemantics, WantSemantics, TakeSemantics, Fail, Finish, Collect, IndInv, TypeOK

\* A worker past the union still works on the same pair, unless it is the one
\* whose Union step this is.
LEMMA PairStable ==
  ASSUME IndInv, [Next]_vars, NEW v \in Worker, pc'[v] \in United, ~Union(v)
  PROVE  pc[v] \in United /\ Kept(v)' = Kept(v) /\ Other(v)' = Other(v)
<1>1. ASSUME NEW w \in Worker, Union(w) \/ handle(w)
      PROVE  /\ pc[v] \in United
             /\ entry'[v] = entry[v] /\ pos'[v] = pos[v] /\ prev'[v] = prev[v]
  BY <1>1
  DEF handle, add, Take, Refuse, Normalise, Lookup, Insert, Union, Flag, KeepSemantics,
      WantSemantics, TakeSemantics, Fail, Finish, Goto, IndInv, TypeOK, United
<1>2. CASE Collect \/ UNCHANGED vars
  BY <1>2 DEF Collect, vars, Kept, Other, PrevWins, New
<1> QED
  BY <1>1, <1>2 DEF Next, Over, Kept, Other, PrevWins, New

\* Every step keeps the pair of a worker past the union united.
LEMMA UnionDoneStep == ASSUME IndInv, OwnBank, UnionDone, [Next]_vars PROVE UnionDone'
<1> SUFFICES ASSUME NEW v \in Worker, pc'[v] \in United
             PROVE  BankOf(Other(v)') \in heap'[Kept(v)'].banks
  BY DEF UnionDone, BankOf
<1>1. CASE Union(v)
  <2>1. Kept(v)' = Kept(v) /\ Other(v)' = Other(v)
    BY <1>1 DEF Union, Kept, Other, PrevWins, New
  <2>2. /\ Kept(v) \in DOMAIN heap /\ heap[Kept(v)] \in Record
        /\ Other(v) \in DOMAIN heap /\ heap[Other(v)] \in Record
    BY <1>1, MergePair DEF Union, Goto, IndInv, Merging
  <2>3. heap[Other(v)].banks \subseteq heap'[Kept(v)].banks
    BY <1>1, <2>2 DEF Union, IndInv, TypeOK, Record
  <2> QED
    BY <2>1, <2>2, <2>3 DEF OwnBank
<1>2. CASE ~Union(v)
  <2>1. pc[v] \in United /\ Kept(v)' = Kept(v) /\ Other(v)' = Other(v)
    BY <1>2, PairStable
  <2>2. Kept(v) \in DOMAIN heap
    BY <2>1, MergePair DEF IndInv, Merging, United
  <2> QED
    BY <2>1, <2>2, HeapGrows DEF UnionDone
<1> QED
  BY <1>1, <1>2

\* Every step keeps source_banks free of banks that never had the key.
LEMMA ProvenanceStep ==
  ASSUME IndInv, ProvenanceSound, [Next]_vars PROVE ProvenanceSound'
<1> DEFINE Has(b, k) == \E y \in DOMAIN heap : BankOf(y) = b /\ heap[y].key = k
           HasNow(b, k) == \E y \in DOMAIN heap' : BankOf(y) = b /\ heap'[y].key = k
<1>1. \A b, k : Has(b, k) => HasNow(b, k)
  BY HeapGrows
<1>2. SUFFICES ASSUME NEW x \in DOMAIN heap', NEW b \in heap'[x].banks
               PROVE  HasNow(b, heap'[x].key)
  BY <1>2 DEF ProvenanceSound, BankOf
<1>3. ASSUME x \in DOMAIN heap, b \in heap[x].banks PROVE HasNow(b, heap'[x].key)
  BY <1>1, <1>3, HeapGrows DEF ProvenanceSound
<1>4. ASSUME NEW w \in Worker, Normalise(w) PROVE HasNow(b, heap'[x].key)
  <2> DEFINE id == <<entry[w], pos[w] + 1>>
  <2>1. PICK rec \in Record :
          /\ heap' = [y \in DOMAIN heap \cup {id} |-> IF y = id THEN rec ELSE heap[y]]
          /\ rec.banks = {BankOf(id)}
    BY <1>4, NormaliseHeap DEF IndInv
  <2>2. CASE x = id
    BY <2>1, <2>2
  <2>3. CASE x # id
    BY <1>3, <2>1, <2>3
  <2> QED
    BY <2>2, <2>3
<1>5. ASSUME NEW w \in Worker, Union(w) PROVE HasNow(b, heap'[x].key)
  <2>1. /\ Kept(w) \in DOMAIN heap /\ heap[Kept(w)] \in Record
        /\ Other(w) \in DOMAIN heap /\ heap[Other(w)] \in Record
        /\ heap[Kept(w)].key = heap[Other(w)].key
    BY <1>5, MergePair DEF Union, Goto, IndInv, Merging
  <2>2. /\ x \in DOMAIN heap
        /\ b \in heap[x].banks \/ (x = Kept(w) /\ b \in heap[Other(w)].banks)
    BY <1>5, <2>1 DEF Union, IndInv, TypeOK, Record
  <2>3. CASE x = Kept(w) /\ b \in heap[Other(w)].banks
    <3>1. Has(b, heap[Other(w)].key)
      BY <2>1, <2>3 DEF ProvenanceSound
    <3>2. heap'[x].key = heap[Other(w)].key
      BY <2>1, <2>3, HeapGrows
    <3>3. PICK y \in DOMAIN heap : BankOf(y) = b /\ heap[y].key = heap[Other(w)].key
      BY <3>1
    <3>4. y \in DOMAIN heap' /\ heap'[y].key = heap'[x].key
      BY <3>2, <3>3, HeapGrows
    <3> QED
      BY <3>3, <3>4
  <2> QED
    BY <1>3, <2>2, <2>3
<1>6. ASSUME NEW w \in Worker, TakeSemantics(w) PROVE HasNow(b, heap'[x].key)
  <2>1. x \in DOMAIN heap /\ heap'[x].banks = heap[x].banks
    BY <1>6, MergePair DEF TakeSemantics, Goto, IndInv, TypeOK, Record, Merging
  <2> QED
    BY <1>3, <2>1
<1>7. CASE heap' = heap
  BY <1>3, <1>7
<1> QED
  BY <1>4, <1>5, <1>6, <1>7
  DEF Next, handle, add, Over, vars, Take, Refuse, Lookup, Insert, Flag,
      KeepSemantics, WantSemantics, Fail, Finish, Collect

\* A conflict that names two records that differ goes on naming them.
LEMMA ConflictStep ==
  ASSUME IndInv, OwnBank, UnionDone, ConflictsSound, [Next]_vars PROVE ConflictsSound'
<1> DEFINE Differ(c) == \E x, y \in DOMAIN heap :
                          /\ heap[x].key = c.key /\ heap[y].key = c.key
                          /\ heap[x].enc # heap[y].enc
                          /\ {BankOf(x), BankOf(y)} \subseteq c.banks
           DifferNow(c) == \E x, y \in DOMAIN heap' :
                          /\ heap'[x].key = c.key /\ heap'[y].key = c.key
                          /\ heap'[x].enc # heap'[y].enc
                          /\ {BankOf(x), BankOf(y)} \subseteq c.banks
<1>1. \A c : Differ(c) => DifferNow(c)
  BY HeapGrows
<1>2. ASSUME NEW w \in Worker, Flag(w), NEW c \in conflicts' \ conflicts PROVE Differ(c)
  <2>1. /\ Kept(w) \in DOMAIN heap /\ Other(w) \in DOMAIN heap
        /\ heap[Kept(w)].key = heap[Other(w)].key
    BY <1>2, MergePair DEF Flag, Goto, IndInv, Merging
  <2>2. /\ heap[Kept(w)].enc # heap[Other(w)].enc
        /\ c.key = heap[Kept(w)].key /\ c.banks = heap[Kept(w)].banks
    BY <1>2 DEF Flag
  <2>3. {BankOf(Kept(w)), BankOf(Other(w))} \subseteq c.banks
    BY <1>2, <2>1, <2>2 DEF Flag, Goto, OwnBank, UnionDone, United
  <2> QED
    BY <2>1, <2>2, <2>3
<1>3. \A c \in conflicts' : Differ(c)
  <2>1. CASE conflicts' = conflicts
    BY <2>1 DEF ConflictsSound
  <2>2. ASSUME NEW w \in Worker, Flag(w) PROVE \A c \in conflicts' : Differ(c)
    BY <1>2, <2>2 DEF ConflictsSound
  <2> QED
    BY <2>1, <2>2
    DEF Next, handle, add, Over, vars, Take, Refuse, Normalise, Lookup, Insert, Union,
        KeepSemantics, WantSemantics, TakeSemantics, Fail, Finish, Collect
<1>4. \A c \in conflicts' : DifferNow(c)
  BY <1>1, <1>3
<1> QED
  BY <1>4 DEF ConflictsSound, BankOf

\* The invariant is inductive.
LEMMA SoundInvInductive == IndInv /\ SoundInv /\ [Next]_vars => SoundInv'
  BY OwnBankStep, UnionDoneStep, ProvenanceStep, ConflictStep DEF SoundInv

\* However many workers merge into one index without a lock, no record ever
\* claims a source bank that has not produced its key.
THEOREM ProvenanceTrue == Spec => []ProvenanceSound
<1>1. SoundInv => ProvenanceSound
  BY DEF SoundInv
<1> QED
  BY <1>1, InitSoundInv, SoundInvInductive, Invariance, PTL DEF Spec

\* However many workers merge, every entry of MergeIndex.conflicts is about two
\* records of its key that differ, and names the banks of both.
THEOREM ConflictsReal == Spec => []ConflictsSound
<1>1. SoundInv => ConflictsSound
  BY DEF SoundInv
<1> QED
  BY <1>1, InitSoundInv, SoundInvInductive, Invariance, PTL DEF Spec

----------------------------------------------------------------------------
(***************************************************************************)
(* Whose semantics a merged record has, for any number of workers.         *)
(***************************************************************************)

Indexed == {byKey[k] : k \in DOMAIN byKey}

\* The record a worker is adding is known to no other thread: it is neither in
\* the index nor what some worker has looked up.
Private ==
  \A w \in Worker : pc[w] \in Adding =>
    /\ New(w) \notin Indexed
    /\ \A v \in Worker : pc[v] \in Merging => prev[v] # New(w)

\* Until its add() returns it has the semantics its parser gave it.
Untouched ==
  \A w \in Worker : pc[w] \in Adding => heap[New(w)].sem = heap[New(w)].raw

\* No record that came with semantics has lost them, and none that did is the
\* target of an assignment under way.
OwnKept ==
  /\ \A x \in DOMAIN heap : heap[x].raw # NoSem => heap[x].sem = heap[x].raw
  /\ \A w \in Worker : pc[w] = "assign" => heap[Kept(w)].raw = NoSem

\* The semantics of x are those of a record of its key whose bank it names.
Attributed(x) ==
  heap[x].sem # NoSem =>
    \E y \in DOMAIN heap : /\ heap[y].key = heap[x].key
                           /\ heap[y].raw = heap[x].sem
                           /\ BankOf(y) \in heap[x].banks

\* So it is for what the index holds and for what some worker got from it.
SharedAttributed ==
  /\ \A x \in Indexed : Attributed(x)
  /\ \A w \in Worker : pc[w] \in Merging => Attributed(prev[w])

SemInv == Private /\ Untouched /\ OwnKept /\ SharedAttributed

\* Init establishes the invariant.
LEMMA InitSemInv == Init => SemInv
  BY DEF Init, SemInv, Private, Untouched, OwnKept, SharedAttributed, Attributed,
         Indexed, Adding, Merging

\* A worker in the middle of an add() that goes on is not the one that steps, or
\* works on the same record after the step.
LEMMA AddGoesOn ==
  ASSUME IndInv, [Next]_vars, NEW v \in Worker, pc'[v] \in Adding, ~Normalise(v)
  PROVE  pc[v] \in Adding /\ New(v)' = New(v)
<1>1. ASSUME NEW w \in Worker, handle(w), ~(w = v /\ Normalise(w))
      PROVE  pc[v] \in Adding /\ entry'[v] = entry[v] /\ pos'[v] = pos[v]
  BY <1>1
  DEF handle, add, Take, Refuse, Normalise, Lookup, Insert, Union, Flag, KeepSemantics,
      WantSemantics, TakeSemantics, Fail, Finish, Goto, IndInv, TypeOK, Adding
<1>2. CASE Collect \/ UNCHANGED vars
  BY <1>2 DEF Collect, vars, New
<1> QED
  BY <1>1, <1>2 DEF Next, Over, New

\* A worker that is merging after a step was before it, with the same pair, or
\* it has just looked prev up in the index.
LEMMA MergeGoesOn ==
  ASSUME IndInv, [Next]_vars, NEW v \in Worker, pc'[v] \in Merging
  PROVE  \/ pc[v] \in Merging /\ prev'[v] = prev[v] /\ New(v)' = New(v)
         \/ Lookup(v) /\ prev'[v] \in Indexed
<1>1. ASSUME NEW w \in Worker, handle(w), ~(w = v /\ Lookup(w))
      PROVE  /\ pc[v] \in Merging /\ prev'[v] = prev[v]
             /\ entry'[v] = entry[v] /\ pos'[v] = pos[v]
  BY <1>1
  DEF handle, add, Take, Refuse, Normalise, Lookup, Insert, Union, Flag, KeepSemantics,
      WantSemantics, TakeSemantics, Fail, Finish, Goto, IndInv, TypeOK, Merging
<1>2. ASSUME Lookup(v) PROVE prev'[v] \in Indexed
  BY <1>2 DEF Lookup, Indexed, IndInv, TypeOK, Merging
<1>3. CASE Collect \/ UNCHANGED vars
  BY <1>3 DEF Collect, vars, New
<1> QED
  BY <1>1, <1>2, <1>3 DEF Next, Over, New

\* What a step puts into the index is the record of the worker that inserts it.
LEMMA IndexGrows ==
  ASSUME IndInv, [Next]_vars, NEW x \in Indexed'
  PROVE  \/ x \in Indexed
         \/ \E w \in Worker : Insert(w) /\ x = New(w)
<1>1. CASE byKey' = byKey
  BY <1>1 DEF Indexed
<1>2. ASSUME NEW w \in Worker, Insert(w) PROVE x \in Indexed \/ x = New(w)
  BY <1>2 DEF Insert, Indexed
<1> QED
  BY <1>1, <1>2
  DEF Next, handle, add, Over, vars, Take, Refuse, Normalise, Lookup, Union, Flag,
      KeepSemantics, WantSemantics, TakeSemantics, Fail, Finish, Collect

\* Every step keeps the records under way private.
LEMMA PrivateStep == ASSUME IndInv, Private, [Next]_vars PROVE Private'
<1> SUFFICES ASSUME NEW w \in Worker, pc'[w] \in Adding
             PROVE  /\ New(w)' \notin Indexed'
                    /\ \A v \in Worker : pc'[v] \in Merging => prev'[v] # New(w)'
  BY DEF Private
<1>1. CASE Normalise(w)
  <2>1. New(w)' = <<entry[w], pos[w] + 1>> /\ byKey' = byKey /\ prev' = prev
    BY <1>1 DEF Normalise, New, IndInv, TypeOK
  <2>2. New(w)' \notin DOMAIN heap
    BY <1>1, <2>1, NewIdFresh DEF IndInv
  <2>3. Indexed' \subseteq DOMAIN heap
    BY <2>1 DEF Indexed, IndInv, TypeOK
  <2>4. \A v \in Worker : pc'[v] \in Merging => prev'[v] \in DOMAIN heap
    <3> SUFFICES ASSUME NEW v \in Worker, pc'[v] \in Merging PROVE prev[v] \in DOMAIN heap
      BY <2>1
    <3>1. pc[v] \in Merging
      BY <1>1 DEF Normalise, Goto, IndInv, TypeOK, Merging
    <3> QED
      BY <3>1 DEF IndInv, WorkerOK
  <2> QED
    BY <2>2, <2>3, <2>4
<1>2. CASE ~Normalise(w)
  <2>1. pc[w] \in Adding /\ New(w)' = New(w)
    BY <1>2, AddGoesOn
  <2>2. New(w) \notin Indexed /\ \A v \in Worker : pc[v] \in Merging => prev[v] # New(w)
    BY <2>1 DEF Private
  <2>3. \A v \in Worker : pc'[v] \in Merging => prev'[v] # New(w)
    BY <2>2, MergeGoesOn
  <2>4. ASSUME NEW v \in Worker, Insert(v) PROVE New(v) # New(w)
    <3>1. v # w
      BY <2>4 DEF Insert, Goto, IndInv, TypeOK, Adding
    <3>2. pc[v] # "idle" /\ pc[w] # "idle"
      BY <2>1, <2>4 DEF Insert, Goto, Adding
    <3>3. entry[v] # entry[w]
      BY <3>1, <3>2 DEF IndInv, Fresh
    <3> QED
      BY <3>3 DEF New
  <2>5. New(w) \notin Indexed'
    BY <2>2, <2>4, IndexGrows
  <2> QED
    BY <2>1, <2>3, <2>5
<1> QED
  BY <1>1, <1>2

\* A step changes the semantics of no record but the one a TakeSemantics keeps.
LEMMA SemanticsStay ==
  ASSUME IndInv, [Next]_vars, NEW x \in DOMAIN heap,
         \A w \in Worker : TakeSemantics(w) => x # Kept(w)
  PROVE  heap'[x].sem = heap[x].sem
<1>1. ASSUME NEW w \in Worker, Normalise(w) PROVE heap'[x] = heap[x]
  BY <1>1, NormaliseHeap, NewIdFresh DEF IndInv
<1>2. ASSUME NEW w \in Worker, Union(w) PROVE heap'[x].sem = heap[x].sem
  BY <1>2, MergePair DEF Union, Goto, IndInv, TypeOK, Record, Merging
<1>3. ASSUME NEW w \in Worker, TakeSemantics(w) PROVE heap'[x].sem = heap[x].sem
  BY <1>3, MergePair DEF TakeSemantics, Goto, IndInv, TypeOK, Record, Merging
<1>4. CASE heap' = heap
  BY <1>4
<1> QED
  BY <1>1, <1>2, <1>3, <1>4
  DEF Next, handle, add, Over, vars, Take, Refuse, Lookup, Insert, Flag,
      KeepSemantics, WantSemantics, Fail, Finish, Collect

\* What TakeSemantics does to the record it keeps.
LEMMA SemanticsTaken ==
  ASSUME IndInv, NEW w \in Worker, TakeSemantics(w)
  PROVE  heap'[Kept(w)].sem = heap[Other(w)].sem
BY MergePair DEF TakeSemantics, Goto, IndInv, TypeOK, Record, Merging

\* Every step leaves the semantics of the records under way alone.
LEMMA UntouchedStep ==
  ASSUME IndInv, Private, Untouched, [Next]_vars PROVE Untouched'
<1> SUFFICES ASSUME NEW w \in Worker, pc'[w] \in Adding
             PROVE  heap'[New(w)'].sem = heap'[New(w)'].raw
  BY DEF Untouched
<1>1. CASE Normalise(w)
  <2>1. New(w)' = <<entry[w], pos[w] + 1>>
    BY <1>1 DEF Normalise, New, IndInv, TypeOK
  <2> QED
    BY <1>1, <2>1, NormaliseHeap DEF IndInv
<1>2. CASE ~Normalise(w)
  <2>1. pc[w] \in Adding /\ New(w)' = New(w)
    BY <1>2, AddGoesOn
  <2>2. New(w) \in DOMAIN heap
    BY <2>1 DEF IndInv, WorkerOK
  <2>3. ASSUME NEW v \in Worker, TakeSemantics(v) PROVE New(w) # Kept(v)
    <3>1. v # w
      BY <2>3 DEF TakeSemantics, Goto, IndInv, TypeOK, Adding
    <3>2. pc[v] \in Merging /\ pc[v] # "idle" /\ pc[w] # "idle"
      BY <2>1, <2>3 DEF TakeSemantics, Goto, Adding, Merging
    <3>3. New(w) # New(v)
      BY <3>1, <3>2 DEF IndInv, Fresh, New
    <3>4. New(w) # prev[v]
      BY <2>1, <3>2 DEF Private
    <3> QED
      BY <3>3, <3>4 DEF Kept
  <2>4. heap'[New(w)].sem = heap[New(w)].sem
    BY <2>2, <2>3, SemanticsStay
  <2> QED
    BY <2>1, <2>2, <2>4, HeapGrows DEF Untouched
<1> QED
  BY <1>1, <1>2

\* Every step leaves a record its own semantics.
LEMMA OwnKeptStep == ASSUME IndInv, OwnKept, [Next]_vars PROVE OwnKept'
<1>1. ASSUME NEW x \in DOMAIN heap', heap'[x].raw # NoSem
      PROVE  heap'[x].sem = heap'[x].raw
  <2>1. CASE x \in DOMAIN heap
    <3>1. heap'[x].raw = heap[x].raw
      BY <2>1, HeapGrows
    <3>2. ASSUME NEW w \in Worker, TakeSemantics(w) PROVE x # Kept(w)
      BY <1>1, <3>1, <3>2 DEF TakeSemantics, Goto, OwnKept
    <3>3. heap'[x].sem = heap[x].sem
      BY <2>1, <3>2, SemanticsStay
    <3> QED
      BY <1>1, <2>1, <3>1, <3>3 DEF OwnKept
  <2>2. CASE x \notin DOMAIN heap
    <3>1. ASSUME NEW w \in Worker, Normalise(w) PROVE heap'[x].sem = heap'[x].raw
      BY <2>2, <3>1, NormaliseHeap DEF IndInv
    <3>2. ASSUME NEW w \in Worker, Union(w) \/ TakeSemantics(w) PROVE DOMAIN heap' = DOMAIN heap
      BY <3>2 DEF Union, TakeSemantics, IndInv, TypeOK
    <3> QED
      BY <2>2, <3>1, <3>2
      DEF Next, handle, add, Over, vars, Take, Refuse, Lookup, Insert, Flag,
          KeepSemantics, WantSemantics, Fail, Finish, Collect
  <2> QED
    BY <2>1, <2>2
<1>2. ASSUME NEW w \in Worker, pc'[w] = "assign" PROVE heap'[Kept(w)'].raw = NoSem
  <2>1. CASE WantSemantics(w)
    <3>1. Kept(w)' = Kept(w) /\ heap' = heap /\ heap[Kept(w)].sem = NoSem
      BY <2>1 DEF WantSemantics, Kept, PrevWins, New
    <3>2. Kept(w) \in DOMAIN heap
      BY <2>1, MergePair DEF WantSemantics, Goto, IndInv, Merging
    <3> QED
      BY <3>1, <3>2 DEF OwnKept
  <2>2. CASE ~WantSemantics(w)
    <3>1. ASSUME NEW v \in Worker, handle(v)
          PROVE  /\ pc[w] = "assign" /\ prev'[w] = prev[w]
                 /\ entry'[w] = entry[w] /\ pos'[w] = pos[w]
      BY <1>2, <2>2, <3>1
      DEF handle, add, Take, Refuse, Normalise, Lookup, Insert, Union, Flag,
          KeepSemantics, WantSemantics, TakeSemantics, Fail, Finish, Goto, IndInv, TypeOK
    <3>2. pc[w] = "assign" /\ Kept(w)' = Kept(w)
      <4>1. CASE Collect \/ UNCHANGED vars
        BY <1>2, <4>1 DEF Collect, vars, Kept, PrevWins, New
      <4> QED
        BY <3>1, <4>1 DEF Next, Over, Kept, PrevWins, New
    <3>3. Kept(w) \in DOMAIN heap
      BY <3>2, MergePair DEF IndInv, Merging
    <3> QED
      BY <3>2, <3>3, HeapGrows DEF OwnKept
  <2> QED
    BY <2>1, <2>2
<1> QED
  BY <1>1, <1>2 DEF OwnKept

\* A record whose semantics a step does not change stays attributed.
LEMMA AttributedStays ==
  ASSUME IndInv, [Next]_vars, NEW x \in DOMAIN heap, Attributed(x),
         heap'[x].sem = heap[x].sem
  PROVE  Attributed(x)'
<1> SUFFICES ASSUME heap'[x].sem # NoSem
             PROVE  \E y \in DOMAIN heap' : /\ heap'[y].key = heap'[x].key
                                            /\ heap'[y].raw = heap'[x].sem
                                            /\ BankOf(y) \in heap'[x].banks
  BY DEF Attributed, BankOf
<1>1. PICK y \in DOMAIN heap : /\ heap[y].key = heap[x].key
                               /\ heap[y].raw = heap[x].sem
                               /\ BankOf(y) \in heap[x].banks
  BY DEF Attributed
<1>2. /\ y \in DOMAIN heap' /\ heap'[y].key = heap'[x].key
      /\ heap'[y].raw = heap'[x].sem /\ BankOf(y) \in heap'[x].banks
  BY <1>1, HeapGrows
<1> QED
  BY <1>2

\* What some worker can reach of the shared records stays attributed.
LEMMA ReachedStays ==
  ASSUME IndInv, OwnBank, UnionDone, Private, Untouched, [Next]_vars,
         NEW x \in DOMAIN heap, Attributed(x),
         \A w \in Worker : pc[w] \in Adding => x # New(w)
  PROVE  Attributed(x)'
<1>1. CASE \A w \in Worker : TakeSemantics(w) => x # Kept(w)
  BY <1>1, SemanticsStay, AttributedStays
<1>2. ASSUME NEW w \in Worker, TakeSemantics(w), x = Kept(w) PROVE Attributed(x)'
  <2>1. pc[w] \in Adding /\ pc[w] \in Merging /\ pc[w] \in United
    BY <1>2 DEF TakeSemantics, Goto, Adding, Merging, United
  <2>2. x = prev[w] /\ Other(w) = New(w)
    BY <1>2, <2>1 DEF Kept, Other
  <2>3. /\ heap[New(w)].sem = heap[New(w)].raw /\ New(w) \in DOMAIN heap
        /\ heap[New(w)].key = heap[x].key
    BY <2>1, <2>2 DEF Untouched, IndInv, WorkerOK
  <2>4. BankOf(New(w)) \in heap[x].banks
    BY <1>2, <2>1, <2>2 DEF UnionDone
  <2>5. heap'[x].sem = heap[New(w)].raw
    BY <1>2, <2>2, <2>3, SemanticsTaken
  <2>6. /\ New(w) \in DOMAIN heap' /\ heap'[New(w)].key = heap'[x].key
        /\ heap'[New(w)].raw = heap'[x].sem /\ BankOf(New(w)) \in heap'[x].banks
    BY <2>3, <2>4, <2>5, HeapGrows
  <2>7. \E y \in DOMAIN heap' : /\ heap'[y].key = heap'[x].key
                                /\ heap'[y].raw = heap'[x].sem
                                /\ BankOf(y) \in heap'[x].banks
    BY <2>6
  <2> QED
    BY <2>7 DEF Attributed, BankOf
<1> QED
  BY <1>1, <1>2

\* Every step keeps the shared records attributed.
LEMMA SharedAttributedStep ==
  ASSUME IndInv, OwnBank, UnionDone, Private, Untouched, SharedAttributed, [Next]_vars
  PROVE  SharedAttributed'
<1>1. ASSUME NEW x \in Indexed PROVE Attributed(x)'
  <2>1. x \in DOMAIN heap /\ \A w \in Worker : pc[w] \in Adding => x # New(w)
    BY <1>1 DEF Private, Indexed, IndInv, TypeOK
  <2> QED
    BY <1>1, <2>1, ReachedStays DEF SharedAttributed
<1>2. ASSUME NEW v \in Worker, pc[v] \in Merging, NEW x, x = prev[v] PROVE Attributed(x)'
  <2>1. x \in DOMAIN heap /\ \A w \in Worker : pc[w] \in Adding => x # New(w)
    BY <1>2 DEF Private, IndInv, WorkerOK
  <2>2. Attributed(x)
    BY <1>2 DEF SharedAttributed
  <2> QED
    BY <2>1, <2>2, ReachedStays
<1>3. ASSUME NEW w \in Worker, Insert(w), NEW x, x = New(w) PROVE Attributed(x)'
  <2>1. /\ x \in DOMAIN heap /\ heap[x].sem = heap[x].raw
        /\ BankOf(x) \in heap[x].banks /\ heap' = heap
    BY <1>3 DEF Insert, Goto, Adding, IndInv, WorkerOK, Untouched, OwnBank
  <2> QED
    BY <2>1 DEF Attributed, BankOf
<1>4. ASSUME NEW x \in Indexed' PROVE Attributed(x)'
  BY <1>1, <1>3, <1>4, IndexGrows
<1>5. ASSUME NEW v \in Worker, pc'[v] \in Merging, NEW x, x = prev'[v] PROVE Attributed(x)'
  BY <1>1, <1>2, <1>5, MergeGoesOn
<1> QED
  BY <1>4, <1>5 DEF SharedAttributed

\* However many workers merge, and whatever happens between the test and the
\* assignment of `_merge`: an indexed record that came with semantics keeps them,
\* and one that took some over has those of a record of its key whose bank is in
\* its source_banks.
THEOREM SemanticsAccounted == Spec => []SemanticsSound
<1>1. IndInv /\ SoundInv /\ SemInv /\ [Next]_vars => SemInv'
  BY PrivateStep, UntouchedStep, OwnKeptStep, SharedAttributedStep DEF SoundInv, SemInv
<1>2. IndInv /\ SemInv => SemanticsSound
  <2> SUFFICES ASSUME IndInv, SemInv, NEW k \in DOMAIN byKey
               PROVE  LET r == heap[byKey[k]] IN
                      /\ r.raw # NoSem => r.sem = r.raw
                      /\ r.sem # NoSem => \E y \in DOMAIN heap :
                                            /\ heap[y].key = k
                                            /\ heap[y].raw = r.sem
                                            /\ BankOf(y) \in r.banks
    BY DEF SemanticsSound
  <2>1. byKey[k] \in DOMAIN heap /\ heap[byKey[k]].key = k /\ byKey[k] \in Indexed
    BY DEF IndInv, TypeOK, KeyPresent, Indexed
  <2>2. Attributed(byKey[k])
    BY <2>1 DEF SemInv, SharedAttributed
  <2> QED
    BY <2>1, <2>2 DEF Attributed, SemInv, OwnKept
<1> QED
  BY <1>1, <1>2, InitSemInv, InitSoundInv, SoundInvInductive, Invariance, PTL DEF Spec

----------------------------------------------------------------------------
(***************************************************************************)
(* The plain loop: workers: 1.                                             *)
(***************************************************************************)

\* When `_merge` comes to the assignment, its test still holds.
TestHolds == \A w \in Worker : pc[w] = "assign" => heap[Kept(w)].sem = NoSem

\* With one worker nothing happens between the test and the assignment.
LEMMA TestHoldsStep == ASSUME Sequential, IndInv, TestHolds, [Next]_vars PROVE TestHolds'
<1>1. ASSUME NEW w \in Worker, WantSemantics(w) PROVE TestHolds'
  <2>1. Kept(w)' = Kept(w) /\ heap' = heap /\ heap[Kept(w)].sem = NoSem
    BY <1>1 DEF WantSemantics, Kept, PrevWins, New
  <2>2. \A v \in Worker : v = w
    BY DEF Sequential
  <2> QED
    BY <2>1, <2>2 DEF TestHolds
<1>2. ASSUME NEW w \in Worker, handle(w), ~WantSemantics(w) PROVE TestHolds'
  <2>1. pc'[w] # "assign"
    BY <1>2
    DEF handle, add, Take, Refuse, Normalise, Lookup, Insert, Union, Flag, KeepSemantics,
        TakeSemantics, Fail, Finish, Goto, IndInv, TypeOK
  <2>2. \A v \in Worker : v = w
    BY DEF Sequential
  <2> QED
    BY <2>1, <2>2 DEF TestHolds
<1>3. CASE Collect \/ UNCHANGED vars
  BY <1>3 DEF Collect, vars, TestHolds, Kept, PrevWins, New
<1> QED
  BY <1>1, <1>2, <1>3 DEF Next, Over

\* With one worker and a manifest in precedence order, the merged record of a key
\* names every bank that yielded the key.
THEOREM ProvenanceComplete ==
  Sequential /\ ManifestRanked => (Spec => []ProvenanceKept)
<1> SUFFICES ASSUME Sequential, ManifestRanked PROVE Spec => []ProvenanceKept
  OBVIOUS
<1> QED
  BY RankedMerge, PTL

----------------------------------------------------------------------------
(***************************************************************************)
(* In the plain loop (workers: 1), over a manifest in precedence order,    *)
(* every step of MergePool is a step of MergeSpec or changes nothing there: *)
(* Insert is First, Union is Further, Collect is Report, and the rest of   *)
(* `_merge` pays what the mapping already counts in.                       *)
(***************************************************************************)

\* The record being added still has its own bank and no other.
NewAlone == \A w \in Worker : pc[w] \in Adding => heap[New(w)].banks = {BankOf(New(w))}

\* After the report every worker is idle and the manifest is used up.
Closed == phase = "report" => /\ queue = Len(Entries)
                              /\ \A w \in Worker : pc[w] = "idle"

MapInv == IndInv /\ SeqInv /\ RankInv /\ TestHolds /\ NewAlone /\ Closed

Merged(x, s) == [enc |-> heap[x].enc, banks |-> heap[x].banks, sem |-> s]

ConflictKeys == {c.key : c \in conflicts}

\* Outside `_merge` the mapping shows the index as it is.
QuietMapped ==
  (\A w \in Worker : ~Owing(w)) =>
    /\ MappedIndex = [k \in DOMAIN byKey |-> Merged(byKey[k], heap[byKey[k]].sem)]
    /\ MappedFlags = ConflictKeys

IndexWith(w) ==
  [k \in DOMAIN byKey |->
     Merged(byKey[k], IF k = heap[New(w)].key /\ heap[byKey[k]].sem = NoSem
                        THEN heap[New(w)].sem ELSE heap[byKey[k]].sem)]

FlagsWith(w) ==
  IF pc[w] = "flag" /\ heap[New(w)].enc # heap[prev[w]].enc
    THEN ConflictKeys \cup {heap[New(w)].key} ELSE ConflictKeys

\* Inside `_merge` it shows the one record at hand as merged in full.
OwingMapped ==
  \A w \in Worker : Owing(w) => MappedIndex = IndexWith(w) /\ MappedFlags = FlagsWith(w)

\* Choosing from a singleton.
LEMMA ChooseOnly == \A s : (CHOOSE x \in {s} : TRUE) = s
  OBVIOUS

\* The mapping without the choice in it, for one worker.
LEMMA MappingQuiet == QuietMapped
<1> SUFFICES ASSUME \A w \in Worker : ~Owing(w)
             PROVE  /\ MappedIndex = [k \in DOMAIN byKey |-> Merged(byKey[k], heap[byKey[k]].sem)]
                    /\ MappedFlags = ConflictKeys
  BY DEF QuietMapped
<1>1. \A k : OwedSem(k) = {}
  BY DEF OwedSem
<1>2. \A k : MappedSem(k) = heap[byKey[k]].sem
  BY <1>1 DEF MappedSem
<1>3. OwedFlags = {}
  BY DEF OwedFlags, Owing
<1> QED
  BY <1>2, <1>3 DEF MappedIndex, MappedFlags, Merged, ConflictKeys

LEMMA MappingOwing == Sequential => OwingMapped
<1> SUFFICES ASSUME Sequential, NEW w \in Worker, Owing(w)
             PROVE  MappedIndex = IndexWith(w) /\ MappedFlags = FlagsWith(w)
  BY DEF OwingMapped
<1>1. \A v \in Worker : v = w
  BY DEF Sequential
<1>2. \A k : OwedSem(k) = IF heap[New(w)].key = k THEN {heap[New(w)].sem} \ {NoSem} ELSE {}
  BY <1>1 DEF OwedSem
<1>3. ASSUME NEW k
      PROVE  MappedSem(k) = IF k = heap[New(w)].key /\ heap[byKey[k]].sem = NoSem
                              THEN heap[New(w)].sem ELSE heap[byKey[k]].sem
  <2>1. CASE k = heap[New(w)].key /\ heap[New(w)].sem # NoSem
    <3>1. OwedSem(k) = {heap[New(w)].sem}
      BY <1>2, <2>1
    <3> QED
      BY <2>1, <3>1, ChooseOnly DEF MappedSem
  <2>2. CASE ~(k = heap[New(w)].key /\ heap[New(w)].sem # NoSem)
    <3>1. OwedSem(k) = {}
      BY <1>2, <2>2
    <3> QED
      BY <2>2, <3>1 DEF MappedSem
  <2> QED
    BY <2>1, <2>2
<1>4. OwedFlags = IF pc[w] = "flag" /\ heap[New(w)].enc # heap[prev[w]].enc
                    THEN {heap[New(w)].key} ELSE {}
  BY <1>1 DEF OwedFlags
<1> QED
  BY <1>3, <1>4 DEF MappedIndex, MappedFlags, IndexWith, FlagsWith, Merged, ConflictKeys

\* Init establishes the invariant.
LEMMA InitMapInv == Init => MapInv
  BY InitIndInv, InitSeqInv, InitRankInv
  DEF Init, MapInv, TestHolds, NewAlone, Closed, Adding

\* Until it is taken up, the record at hand gets no banks from others.
LEMMA NewAloneStep ==
  ASSUME Sequential, ManifestRanked, MapInv, [Next]_vars PROVE NewAlone'
<1>1. ASSUME NEW w \in Worker, Normalise(w) PROVE NewAlone'
  <2> DEFINE id == <<entry[w], pos[w] + 1>>
  <2>1. PICK rec \in Record :
          /\ heap' = [x \in DOMAIN heap \cup {id} |-> IF x = id THEN rec ELSE heap[x]]
          /\ rec.banks = {BankOf(id)}
    BY <1>1, NormaliseHeap DEF MapInv, IndInv
  <2>2. New(w)' = id /\ \A v \in Worker : v = w
    BY <1>1 DEF Normalise, MapInv, IndInv, TypeOK, New, Sequential
  <2> QED
    BY <2>1, <2>2 DEF NewAlone, BankOf
<1>2. ASSUME NEW w \in Worker, Union(w) PROVE NewAlone'
  <2>1. New(w)' = New(w) /\ \A v \in Worker : v = w
    BY <1>2 DEF Union, New, Sequential
  <2>2. /\ Kept(w) = prev[w] /\ Other(w) = New(w)
        /\ New(w) \in DOMAIN heap /\ heap[New(w)] \in Record
        /\ heap[prev[w]] \in Record
    BY <1>2, FirstWins, MergePair DEF Union, Goto, MapInv, IndInv, Merging
  <2>3. heap'[New(w)].banks = heap[New(w)].banks
    BY <1>2, <2>2 DEF Union, MapInv, IndInv, TypeOK, Record
  <2>4. heap[New(w)].banks = {BankOf(New(w))}
    BY <1>2 DEF Union, Goto, MapInv, NewAlone, Adding
  <2> QED
    BY <2>1, <2>3, <2>4 DEF NewAlone, BankOf
<1>3. ASSUME NEW w \in Worker, handle(w), heap' = heap, ~Normalise(w) PROVE NewAlone'
  <2>1. pc'[w] \in Adding => pc[w] \in Adding /\ New(w)' = New(w)
    BY <1>3
    DEF handle, add, Take, Refuse, Lookup, Insert, Union, Flag, KeepSemantics,
        WantSemantics, TakeSemantics, Fail, Finish, Goto, MapInv, IndInv, TypeOK, New,
        Adding
  <2>2. \A v \in Worker : v = w
    BY DEF Sequential
  <2> QED
    BY <1>3, <2>1, <2>2 DEF MapInv, NewAlone, BankOf
<1>4. ASSUME NEW w \in Worker, TakeSemantics(w) PROVE NewAlone'
  <2>1. pc'[w] = "loop" /\ \A v \in Worker : v = w
    BY <1>4 DEF TakeSemantics, Goto, MapInv, IndInv, TypeOK, Sequential
  <2> QED
    BY <2>1 DEF NewAlone, Adding
<1>5. CASE Collect \/ UNCHANGED vars
  BY <1>5 DEF Collect, vars, MapInv, NewAlone, New, BankOf
<1> QED
  BY <1>1, <1>2, <1>3, <1>4, <1>5, ZenonT(30)
  DEF Next, handle, add, Over, Take, Refuse, Lookup, Insert, Flag, KeepSemantics,
      WantSemantics, Fail, Finish

\* Nothing happens after the report.
LEMMA ClosedStep == ASSUME IndInv, Closed, [Next]_vars PROVE Closed'
<1>1. ASSUME NEW w \in Worker, handle(w) PROVE phase # "report" /\ phase' = phase
  BY <1>1
  DEF handle, add, Take, Refuse, Normalise, Lookup, Insert, Union, Flag, KeepSemantics,
      WantSemantics, TakeSemantics, Fail, Finish, Goto, Closed, IndInv, TypeOK
<1>2. CASE Collect
  BY <1>2 DEF Collect, Closed
<1>3. CASE UNCHANGED vars
  BY <1>3 DEF vars, Closed
<1> QED
  BY <1>1, <1>2, <1>3 DEF Next, Over, Closed

\* The invariant is inductive.
LEMMA MapInvInductive ==
  Sequential /\ ManifestRanked => (MapInv /\ [Next]_vars => MapInv')
<1> SUFFICES ASSUME Sequential, ManifestRanked, MapInv, [Next]_vars PROVE MapInv'
  OBVIOUS
<1>1. IndInv' /\ SeqInv' /\ RankInv'
  BY IndInvInductive, SeqStep, RankStep DEF MapInv
<1>2. TestHolds' /\ NewAlone' /\ Closed'
  BY TestHoldsStep, NewAloneStep, ClosedStep DEF MapInv
<1> QED
  BY <1>1, <1>2 DEF MapInv

\* A step outside `_merge` that leaves the index and its records alone.
LEMMA QuietStep ==
  ASSUME Sequential, IndInv, NEW w \in Worker, ~Owing(w), ~Owing(w)',
         byKey' = byKey, conflicts' = conflicts, phase' = phase,
         \A x \in DOMAIN heap : heap'[x] = heap[x]
  PROVE  UNCHANGED Promise!vars
<1>1. QuietMapped /\ QuietMapped'
  BY MappingQuiet, PTL
<1>2. \A v \in Worker : v = w
  BY DEF Sequential
<1>3. /\ MappedIndex = [k \in DOMAIN byKey |-> Merged(byKey[k], heap[byKey[k]].sem)]
      /\ MappedFlags = ConflictKeys
  BY <1>1, <1>2 DEF QuietMapped
<1>4. /\ MappedIndex' = [k \in DOMAIN byKey |-> Merged(byKey[k], heap[byKey[k]].sem)]'
      /\ MappedFlags' = ConflictKeys'
  BY <1>1, <1>2 DEF QuietMapped
<1>5. \A k \in DOMAIN byKey : heap'[byKey[k]] = heap[byKey[k]]
  BY DEF IndInv, TypeOK
<1>6. MappedIndex' = MappedIndex
  BY <1>3, <1>4, <1>5 DEF Merged
<1>7. MappedFlags' = MappedFlags
  BY <1>3, <1>4 DEF ConflictKeys
<1> QED
  BY <1>6, <1>7 DEF Promise!vars

\* MergeIndex.add of a key that is not there is the abstract First.
LEMMA InsertIsFirst ==
  ASSUME Sequential, MapInv, NEW w \in Worker, Insert(w) PROVE Promise!Next
<1> DEFINE k == heap[New(w)].key  e == heap[New(w)].enc
           s == heap[New(w)].sem  b == BankOf(New(w))
<1>1. QuietMapped /\ QuietMapped'
  BY MappingQuiet, PTL
<1>2. pc[w] = "insert" /\ pc'[w] = "loop" /\ \A v \in Worker : v = w
  BY DEF Insert, Goto, MapInv, IndInv, TypeOK, Sequential
<1>3. New(w) \in DOMAIN heap /\ heap[New(w)] \in Record /\ heap[New(w)].banks = {b}
      /\ k \notin DOMAIN byKey /\ New(w) \in Id
  BY <1>2 DEF MapInv, IndInv, TypeOK, WorkerOK, SeqInv, NewAlone, Adding
<1>4. k \in Key /\ e \in Enc /\ s \in Sem \cup {NoSem} /\ b \in Bank
  BY <1>3, BankOfId DEF Record
<1>5. MappedIndex = [x \in DOMAIN byKey |-> Merged(byKey[x], heap[byKey[x]].sem)]
      /\ MappedFlags = ConflictKeys
  BY <1>1, <1>2 DEF QuietMapped, Owing
<1>6. MappedIndex' = [x \in DOMAIN byKey |-> Merged(byKey[x], heap[byKey[x]].sem)]'
      /\ MappedFlags' = ConflictKeys'
  BY <1>1, <1>2 DEF QuietMapped, Owing
<1>7. heap' = heap /\ conflicts' = conflicts /\ phase' = phase
      /\ byKey' = [x \in DOMAIN byKey \cup {k} |-> IF x = k THEN New(w) ELSE byKey[x]]
  BY DEF Insert
<1>8. MappedFlags' = MappedFlags
  BY <1>5, <1>6, <1>7 DEF ConflictKeys
<1>9. MappedIndex' = [x \in DOMAIN MappedIndex \cup {k} |->
                        IF x = k THEN [enc |-> e, banks |-> {b}, sem |-> s]
                                 ELSE MappedIndex[x]]
  BY <1>3, <1>5, <1>6, <1>7 DEF Merged
<1>10. phase = "parse"
  BY <1>2 DEF MapInv, IndInv, TypeOK, Closed
<1>11. Promise!First(k, e, s, b)
  BY <1>3, <1>5, <1>7, <1>8, <1>9, <1>10 DEF Promise!First
<1> QED
  BY <1>4, <1>11 DEF Promise!Next

\* A function that differs from another in one place is that one with an exception.
LEMMA OneException ==
  ASSUME NEW D, NEW f, NEW g, NEW x \in D, NEW v,
         f = [y \in D |-> f[y]], g = [y \in D |-> g[y]],
         \A y \in D : y # x => g[y] = f[y],
         g[x] = v
  PROVE  g = [f EXCEPT ![x] = v]
  OBVIOUS

\* The union in `_merge` is the abstract Further, flag and semantics included.
LEMMA UnionIsFurther ==
  ASSUME Sequential, ManifestRanked, MapInv, NEW w \in Worker, Union(w) PROVE Promise!Next
<1> DEFINE k == heap[New(w)].key  e == heap[New(w)].enc
           s == heap[New(w)].sem  b == BankOf(New(w))
<1>1. QuietMapped /\ OwingMapped'
  BY MappingQuiet, MappingOwing, PTL
<1>2. pc[w] = "union" /\ pc'[w] = "flag" /\ (\A v \in Worker : v = w) /\ New(w)' = New(w)
  BY DEF Union, Goto, MapInv, IndInv, TypeOK, Sequential, New
<1>3. /\ New(w) \in DOMAIN heap /\ heap[New(w)] \in Record /\ heap[New(w)].banks = {b}
      /\ k \in DOMAIN byKey /\ New(w) \in Id
      /\ prev[w] = byKey[k] /\ byKey[k] \in DOMAIN heap /\ heap[byKey[k]] \in Record
  BY <1>2 DEF MapInv, IndInv, TypeOK, WorkerOK, SeqInv, NewAlone, Adding, Merging
<1>4. k \in Key /\ e \in Enc /\ s \in Sem \cup {NoSem} /\ b \in Bank
  BY <1>3, BankOfId DEF Record
<1>5. MappedIndex = [x \in DOMAIN byKey |-> Merged(byKey[x], heap[byKey[x]].sem)]
      /\ MappedFlags = ConflictKeys
  BY <1>1, <1>2 DEF QuietMapped, Owing
<1>6. MappedIndex' = IndexWith(w)' /\ MappedFlags' = FlagsWith(w)'
  BY <1>1, <1>2 DEF OwingMapped, Owing
<1>7. Kept(w) = byKey[k] /\ Other(w) = New(w)
  BY <1>2, <1>3, FirstWins DEF MapInv, Merging
<1>8. /\ conflicts' = conflicts /\ phase' = phase /\ byKey' = byKey /\ prev' = prev
      /\ heap' = [heap EXCEPT ![byKey[k]].banks = @ \cup {b}]
  BY <1>3, <1>7 DEF Union
<1>9. /\ \A x \in DOMAIN heap : /\ heap'[x].key = heap[x].key /\ heap'[x].enc = heap[x].enc
                                /\ heap'[x].sem = heap[x].sem
                                /\ x # byKey[k] => heap'[x].banks = heap[x].banks
      /\ heap'[byKey[k]].banks = heap[byKey[k]].banks \cup {b}
  BY <1>3, <1>8 DEF MapInv, IndInv, TypeOK, Record
<1>10. \A x \in DOMAIN byKey : byKey[x] \in DOMAIN heap /\ (byKey[x] = byKey[k] => x = k)
  BY <1>3 DEF MapInv, IndInv, TypeOK, KeyPresent
<1>a. /\ heap'[New(w)'].enc = e /\ heap'[New(w)'].key = k /\ heap'[New(w)'].sem = s
      /\ heap'[prev'[w]].enc = heap[byKey[k]].enc
  BY <1>2, <1>3, <1>8, <1>9
<1>11. MappedFlags' = IF e = MappedIndex[k].enc THEN MappedFlags ELSE MappedFlags \cup {k}
  <2>1. MappedIndex[k].enc = heap[byKey[k]].enc
    BY <1>3, <1>5 DEF Merged
  <2>2. ConflictKeys' = ConflictKeys
    BY <1>8 DEF ConflictKeys
  <2> QED
    BY <1>2, <1>5, <1>6, <1>a, <2>1, <2>2 DEF FlagsWith
<1>12. MappedIndex' = [MappedIndex EXCEPT ![k] =
                 [enc   |-> MappedIndex[k].enc,
                  banks |-> MappedIndex[k].banks \cup {b},
                  sem   |-> IF MappedIndex[k].sem = NoSem THEN s ELSE MappedIndex[k].sem]]
  <2>1. MappedIndex' = [x \in DOMAIN byKey |->
           [enc |-> heap'[byKey[x]].enc, banks |-> heap'[byKey[x]].banks,
            sem |-> IF x = k /\ heap[byKey[x]].sem = NoSem THEN s ELSE heap[byKey[x]].sem]]
    <3>1. MappedIndex' = [x \in DOMAIN byKey' |->
             [enc |-> heap'[byKey'[x]].enc, banks |-> heap'[byKey'[x]].banks,
              sem |-> IF x = k /\ heap'[byKey'[x]].sem = NoSem
                        THEN s ELSE heap'[byKey'[x]].sem]]
      BY <1>6, <1>a DEF IndexWith, Merged
    <3>2. \A x \in DOMAIN byKey : heap'[byKey[x]].sem = heap[byKey[x]].sem
      BY <1>9, <1>10
    <3> HIDE DEF k, s
    <3> QED
      BY <1>8, <3>1, <3>2
  <2>2. \A x \in DOMAIN byKey : x # k => MappedIndex'[x] = MappedIndex[x]
    BY <1>5, <1>9, <1>10, <2>1 DEF Merged
  <2>3. MappedIndex[k] = [enc |-> heap[byKey[k]].enc, banks |-> heap[byKey[k]].banks,
                          sem |-> heap[byKey[k]].sem]
    BY <1>3, <1>5 DEF Merged
  <2>4. MappedIndex'[k] = [enc   |-> MappedIndex[k].enc,
                  banks |-> MappedIndex[k].banks \cup {b},
                  sem   |-> IF MappedIndex[k].sem = NoSem THEN s ELSE MappedIndex[k].sem]
    <3>1. /\ heap'[byKey[k]].enc = MappedIndex[k].enc
          /\ heap'[byKey[k]].banks = MappedIndex[k].banks \cup {b}
          /\ heap[byKey[k]].sem = MappedIndex[k].sem
      BY <1>3, <1>9, <2>3
    <3>2. k \in DOMAIN byKey
      BY <1>3
    <3> HIDE DEF k, b, s
    <3> QED
      BY <2>1, <3>1, <3>2
  <2> HIDE DEF k, e, s, b
  <2>5. MappedIndex = [x \in DOMAIN byKey |-> MappedIndex[x]]
        /\ MappedIndex' = [x \in DOMAIN byKey |-> MappedIndex'[x]]
    BY <1>5, <2>1, Zenon
  <2> QED
    BY <1>3, <2>2, <2>4, <2>5, OneException, Zenon
<1>13. phase = "parse"
  BY <1>2 DEF MapInv, IndInv, TypeOK, Closed
<1>14. Promise!Further(k, e, s, b)
  BY <1>3, <1>5, <1>8, <1>11, <1>12, <1>13 DEF Promise!Further
<1> QED
  BY <1>4, <1>14 DEF Promise!Next

\* The flag is already counted in.
LEMMA FlagStutters ==
  ASSUME Sequential, ManifestRanked, MapInv, NEW w \in Worker, Flag(w)
  PROVE  UNCHANGED Promise!vars
<1>1. OwingMapped /\ OwingMapped'
  BY MappingOwing, PTL
<1>2. /\ pc[w] = "flag" /\ pc'[w] = "semantics" /\ New(w)' = New(w)
      /\ heap' = heap /\ byKey' = byKey /\ phase' = phase /\ prev' = prev
  BY DEF Flag, Goto, MapInv, IndInv, TypeOK, New
<1>3. Kept(w) = prev[w] /\ Other(w) = New(w) /\ heap[prev[w]].key = heap[New(w)].key
  BY <1>2, FirstWins DEF MapInv, IndInv, WorkerOK, Merging
<1>4. MappedIndex = IndexWith(w) /\ MappedFlags = FlagsWith(w)
      /\ MappedIndex' = IndexWith(w)' /\ MappedFlags' = FlagsWith(w)'
  BY <1>1, <1>2 DEF OwingMapped, Owing
<1>5. IndexWith(w)' = IndexWith(w)
  BY <1>2 DEF IndexWith, Merged
<1>6. ConflictKeys' = IF heap[New(w)].enc # heap[prev[w]].enc
                        THEN ConflictKeys \cup {heap[New(w)].key} ELSE ConflictKeys
  <2>1. conflicts' = IF heap[New(w)].enc # heap[prev[w]].enc
                       THEN conflicts \cup {[key |-> heap[New(w)].key,
                                             banks |-> heap[prev[w]].banks, by |-> New(w)]}
                       ELSE conflicts
    BY <1>3 DEF Flag
  <2>2. \A c \in conflicts' :
          \/ c \in conflicts
          \/ heap[New(w)].enc # heap[prev[w]].enc /\ c.key = heap[New(w)].key
    BY <2>1
  <2>3. /\ conflicts \subseteq conflicts'
        /\ heap[New(w)].enc # heap[prev[w]].enc =>
             \E c \in conflicts' : c.key = heap[New(w)].key
    <3> DEFINE r == [key |-> heap[New(w)].key, banks |-> heap[prev[w]].banks, by |-> New(w)]
    <3>1. r.key = heap[New(w)].key
      OBVIOUS
    <3>2. conflicts' = IF heap[New(w)].enc # heap[prev[w]].enc
                         THEN conflicts \cup {r} ELSE conflicts
      BY <2>1
    <3> HIDE DEF r
    <3> QED
      BY <3>1, <3>2
  <2> QED
    BY <2>2, <2>3 DEF ConflictKeys
<1>7. FlagsWith(w)' = FlagsWith(w)
  BY <1>2, <1>6 DEF FlagsWith
<1> QED
  BY <1>2, <1>4, <1>5, <1>7 DEF Promise!vars

\* So are the semantics, whether there is something to take over or not.
LEMMA KeepSemanticsStutters ==
  ASSUME Sequential, ManifestRanked, MapInv, NEW w \in Worker, KeepSemantics(w)
  PROVE  UNCHANGED Promise!vars
<1>1. OwingMapped /\ QuietMapped'
  BY MappingOwing, MappingQuiet, PTL
<1>2. /\ pc[w] = "semantics" /\ pc'[w] = "loop" /\ (\A v \in Worker : v = w)
      /\ heap' = heap /\ byKey' = byKey /\ phase' = phase /\ conflicts' = conflicts
  BY DEF KeepSemantics, Goto, MapInv, IndInv, TypeOK, Sequential
<1>3. Kept(w) = prev[w] /\ Other(w) = New(w) /\ prev[w] = byKey[heap[New(w)].key]
  BY <1>2, FirstWins DEF MapInv, SeqInv, Merging
<1>4. MappedIndex = IndexWith(w) /\ MappedFlags = FlagsWith(w)
  BY <1>1, <1>2 DEF OwingMapped, Owing
<1>5. MappedIndex' = [k \in DOMAIN byKey |-> Merged(byKey[k], heap[byKey[k]].sem)]'
      /\ MappedFlags' = ConflictKeys'
  BY <1>1, <1>2 DEF QuietMapped, Owing
<1>6. heap[prev[w]].sem # NoSem \/ heap[New(w)].sem = NoSem
  BY <1>3 DEF KeepSemantics
<1>7. MappedIndex' = MappedIndex
  BY <1>2, <1>3, <1>4, <1>5, <1>6 DEF IndexWith, Merged
<1>8. MappedFlags' = MappedFlags
  BY <1>2, <1>4, <1>5 DEF FlagsWith, ConflictKeys
<1> QED
  BY <1>2, <1>7, <1>8 DEF Promise!vars

LEMMA WantSemanticsStutters ==
  ASSUME Sequential, MapInv, NEW w \in Worker, WantSemantics(w)
  PROVE  UNCHANGED Promise!vars
<1>1. OwingMapped /\ OwingMapped'
  BY MappingOwing, PTL
<1>2. /\ pc[w] = "semantics" /\ pc'[w] = "assign" /\ New(w)' = New(w) /\ heap' = heap
      /\ byKey' = byKey /\ phase' = phase /\ conflicts' = conflicts /\ prev' = prev
  BY DEF WantSemantics, Goto, MapInv, IndInv, TypeOK, New
<1>3. MappedIndex = IndexWith(w) /\ MappedFlags = FlagsWith(w)
      /\ MappedIndex' = IndexWith(w)' /\ MappedFlags' = FlagsWith(w)'
  BY <1>1, <1>2 DEF OwingMapped, Owing
<1>4. IndexWith(w)' = IndexWith(w) /\ FlagsWith(w)' = FlagsWith(w)
  BY <1>2 DEF IndexWith, FlagsWith, Merged, ConflictKeys
<1> QED
  BY <1>2, <1>3, <1>4 DEF Promise!vars

LEMMA TakeSemanticsStutters ==
  ASSUME Sequential, ManifestRanked, MapInv, NEW w \in Worker, TakeSemantics(w)
  PROVE  UNCHANGED Promise!vars
<1> DEFINE k == heap[New(w)].key
<1>1. OwingMapped /\ QuietMapped'
  BY MappingOwing, MappingQuiet, PTL
<1>2. /\ pc[w] = "assign" /\ pc'[w] = "loop" /\ (\A v \in Worker : v = w)
      /\ byKey' = byKey /\ phase' = phase /\ conflicts' = conflicts
  BY DEF TakeSemantics, Goto, MapInv, IndInv, TypeOK, Sequential
<1>3. Kept(w) = byKey[k] /\ Other(w) = New(w) /\ heap[byKey[k]].sem = NoSem
  BY <1>2, FirstWins DEF MapInv, SeqInv, TestHolds, Merging
<1>4. MappedIndex = IndexWith(w) /\ MappedFlags = FlagsWith(w)
  BY <1>1, <1>2 DEF OwingMapped, Owing
<1>5. MappedIndex' = [x \in DOMAIN byKey |-> Merged(byKey[x], heap[byKey[x]].sem)]'
      /\ MappedFlags' = ConflictKeys'
  BY <1>1, <1>2 DEF QuietMapped, Owing
<1>6. \A x \in DOMAIN byKey : /\ byKey[x] \in DOMAIN heap /\ heap[byKey[x]] \in Record
                              /\ (byKey[x] = byKey[k] => x = k)
  BY <1>2 DEF MapInv, IndInv, TypeOK, KeyPresent, WorkerOK, Merging
<1>7. \A x \in DOMAIN byKey :
        /\ heap'[byKey[x]].enc = heap[byKey[x]].enc
        /\ heap'[byKey[x]].banks = heap[byKey[x]].banks
        /\ heap'[byKey[x]].sem = IF x = k THEN heap[New(w)].sem ELSE heap[byKey[x]].sem
  BY <1>3, <1>6 DEF TakeSemantics, MapInv, IndInv, TypeOK, Record
<1>8. MappedIndex' = MappedIndex
  BY <1>2, <1>3, <1>4, <1>5, <1>7 DEF IndexWith, Merged
<1>9. MappedFlags' = MappedFlags
  BY <1>2, <1>4, <1>5 DEF FlagsWith, ConflictKeys
<1> QED
  BY <1>2, <1>8, <1>9 DEF Promise!vars

\* Initial states are mapped to initial states.
LEMMA InitMaps == Init => Promise!Init
<1> SUFFICES ASSUME Init PROVE Promise!Init
  OBVIOUS
<1>1. \A w \in Worker : ~Owing(w)
  BY DEF Init, Owing
<1>2. MappedIndex = [k \in DOMAIN byKey |-> Merged(byKey[k], heap[byKey[k]].sem)]
      /\ MappedFlags = ConflictKeys
  BY <1>1, MappingQuiet DEF QuietMapped
<1>3. MappedIndex = << >> /\ MappedFlags = {} /\ phase = "parse"
  BY <1>2 DEF Init, ConflictKeys
<1> QED
  BY <1>3 DEF Promise!Init

\* Every step is mapped to a step, or to none.
LEMMA StepMaps ==
  ASSUME Sequential, ManifestRanked, MapInv, [Next]_vars
  PROVE  [Promise!Next]_(Promise!vars)
<1>1. ASSUME NEW w \in Worker,
             Take(w) \/ Refuse(w) \/ Lookup(w) \/ Fail(w) \/ Finish(w)
      PROVE  UNCHANGED Promise!vars
  <2>1. ~Owing(w) /\ ~Owing(w)'
    BY <1>1
    DEF Owing, Take, Refuse, Lookup, Fail, Finish, Goto, MapInv, IndInv, TypeOK
  <2>2. byKey' = byKey /\ conflicts' = conflicts /\ phase' = phase /\ heap' = heap
    BY <1>1 DEF Take, Refuse, Lookup, Fail, Finish
  <2> QED
    BY <2>1, <2>2, QuietStep DEF MapInv
<1>2. ASSUME NEW w \in Worker, Normalise(w) PROVE UNCHANGED Promise!vars
  <2>1. ~Owing(w) /\ ~Owing(w)'
    BY <1>2 DEF Owing, Normalise, Goto, MapInv, IndInv, TypeOK
  <2>2. \A x \in DOMAIN heap : heap'[x] = heap[x]
    BY <1>2, NormaliseHeap, NewIdFresh DEF MapInv, IndInv
  <2>3. byKey' = byKey /\ conflicts' = conflicts /\ phase' = phase
    BY <1>2 DEF Normalise
  <2> QED
    BY <2>1, <2>2, <2>3, QuietStep DEF MapInv
<1>3. CASE Collect
  <2>1. /\ heap' = heap /\ byKey' = byKey /\ conflicts' = conflicts /\ pc' = pc
        /\ entry' = entry /\ pos' = pos /\ prev' = prev
    BY <1>3 DEF Collect
  <2>2. MappedIndex' = MappedIndex /\ MappedFlags' = MappedFlags
    <3>1. \A w \in Worker : ~Owing(w) /\ ~Owing(w)'
      BY <1>3 DEF Collect, Owing
    <3>2. QuietMapped /\ QuietMapped'
      BY MappingQuiet, PTL
    <3>3. MappedIndex = [k \in DOMAIN byKey |-> Merged(byKey[k], heap[byKey[k]].sem)]
          /\ MappedFlags = ConflictKeys
      BY <3>1, <3>2 DEF QuietMapped
    <3>4. MappedIndex' = [k \in DOMAIN byKey |-> Merged(byKey[k], heap[byKey[k]].sem)]'
          /\ MappedFlags' = ConflictKeys'
      BY <3>1, <3>2 DEF QuietMapped
    <3> QED
      BY <2>1, <3>3, <3>4 DEF Merged, ConflictKeys
  <2>3. phase = "parse" /\ phase' = "report"
    BY <1>3 DEF Collect
  <2>4. Promise!Report
    BY <2>2, <2>3 DEF Promise!Report
  <2> QED
    BY <2>4 DEF Promise!Next
<1>4. CASE UNCHANGED vars
  BY <1>4
  DEF vars, Promise!vars, MappedIndex, MappedSem, OwedSem, MappedFlags, OwedFlags,
      Owing, New
<1> QED
  BY <1>1, <1>2, <1>3, <1>4, InsertIsFirst, UnionIsFurther, FlagStutters,
     KeepSemanticsStutters, WantSemanticsStutters, TakeSemanticsStutters
  DEF Next, handle, add, Over

\* With one worker and a manifest in precedence order, the reads and writes of
\* `add` and `_merge` add up to one atomic step per record: the first record of a
\* key fixes its encoding, every further one adds its bank, supplies semantics
\* where there are none and flags a disagreement, and nothing follows the report.
THEOREM MergeImplementsPromise ==
  Sequential /\ ManifestRanked => (Spec => Promise!Spec)
<1> SUFFICES ASSUME Sequential, ManifestRanked PROVE Spec => Promise!Spec
  OBVIOUS
<1>1. MapInv /\ [Next]_vars => MapInv'
  BY MapInvInductive
<1>2. MapInv /\ [Next]_vars => [Promise!Next]_(Promise!vars)
  BY StepMaps
<1> QED
  BY <1>1, <1>2, InitMapInv, InitMaps, PTL DEF Spec, Promise!Spec
============================================================================
