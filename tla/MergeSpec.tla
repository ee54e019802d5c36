----------------------------- MODULE MergeSpec -----------------------------
(***************************************************************************)
(* What the merge of one run promises (normalize.py `MergeIndex`): an      *)
(* index from dedup keys to merged records in which a record is taken up   *)
(* in one step. The first record of a key fixes its encoding; every later  *)
(* one adds its bank, supplies semantics where there are none and, when    *)
(* its encoding differs, flags the key.                                    *)
(***************************************************************************)
CONSTANTS
  Bank, Key, Enc, Sem,
  NoSem                \* a record without semantics

VARIABLES
  index,    \* key -> merged record
  flagged,  \* keys with a reported conflict
  open      \* the report has not been made

vars == <<index, flagged, open>>

Merged == [enc : Enc, banks : SUBSET Bank, sem : Sem \cup {NoSem}]

Init == index = << >> /\ flagged = {} /\ open = TRUE

\* The first record of a key.
First(k, e, s, b) ==
  /\ open
  /\ k \notin DOMAIN index
  /\ index' = [x \in DOMAIN index \cup {k} |->
                 IF x = k THEN [enc |-> e, banks |-> {b}, sem |-> s]
                          ELSE index[x]]
  /\ UNCHANGED <<flagged, open>>

\* A further record of a key: never overwrites, and never disagrees in silence.
Further(k, e, s, b) ==
  /\ open
  /\ k \in DOMAIN index
  /\ index' = [index EXCEPT ![k] =
                 [enc   |-> index[k].enc,
                  banks |-> index[k].banks \cup {b},
                  sem   |-> IF index[k].sem = NoSem THEN s ELSE index[k].sem]]
  /\ flagged' = IF e = index[k].enc THEN flagged ELSE flagged \cup {k}
  /\ UNCHANGED open

Report == open /\ open' = FALSE /\ UNCHANGED <<index, flagged>>

Next == \/ \E k \in Key, e \in Enc, s \in Sem \cup {NoSem}, b \in Bank :
             First(k, e, s, b) \/ Further(k, e, s, b)
        \/ Report

Spec == Init /\ [][Next]_vars

\* Every run is reported in the end.
FairSpec == Spec /\ WF_vars(Report)
============================================================================
