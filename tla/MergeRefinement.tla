-------------------------- MODULE MergeRefinement --------------------------
(***************************************************************************)
(* MergePool with one worker and a manifest in precedence order implements *)
(* MergeSpec. A record counts as taken up when `add` stores it, or when    *)
(* `_merge` unites the banks; the flag and the semantics that follow are   *)
(* then already owed, and the mapping counts them in.                      *)
(***************************************************************************)
EXTENDS MergePool

\* Past the union, with the rest of `_merge` to do.
Owing(w) == pc[w] \in {"flag", "semantics", "assign"}

OwedSem(k) ==
  {heap[New(w)].sem : w \in {v \in Worker : Owing(v) /\ heap[New(v)].key = k}}
    \ {NoSem}

MappedSem(k) ==
  IF heap[byKey[k]].sem # NoSem \/ OwedSem(k) = {}
    THEN heap[byKey[k]].sem
    ELSE CHOOSE s \in OwedSem(k) : TRUE

MappedIndex ==
  [k \in DOMAIN byKey |-> [enc   |-> heap[byKey[k]].enc,
                           banks |-> heap[byKey[k]].banks,
                           sem   |-> MappedSem(k)]]

OwedFlags ==
  {heap[New(w)].key : w \in {v \in Worker :
     pc[v] = "flag" /\ heap[New(v)].enc # heap[prev[v]].enc}}

MappedFlags == {c.key : c \in conflicts} \cup OwedFlags

Promise == INSTANCE MergeSpec WITH index <- MappedIndex,
                                   flagged <- MappedFlags,
                                   open <- (phase = "parse")

\* The interleaved reads and writes of `add` and `_merge` add up to the one
\* atomic step per record that the MergeIndex docstring promises, and the run
\* is reported in the end.
KeepsPromise == Promise!FairSpec
============================================================================
