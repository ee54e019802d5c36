----------------------------- MODULE MCMigrate -----------------------------
(***************************************************************************)
(* Instances of Migrate for TLC.                                           *)
(***************************************************************************)
EXTENDS Migrate

CONSTANTS k1, k2, v1, v2, s1, s2

NoFile == [state |-> "absent", schemas |-> {}, rows |-> NoRows]
Cut == TornFile(Contents({s1}, [k \in {k1} |-> v1]))
Older == WholeFile(Contents({s1}, [k \in {k1, k2} |-> v1]))
Newer == WholeFile(Contents({s1, s2}, [k \in {k1} |-> v2]))

\* Records only, as a document written by hand may be.
NoSchemas == WholeFile(Contents({}, [k \in {k2} |-> v2]))

SomeFiles == {NoFile, Cut, Older, Newer, NoSchemas}
============================================================================
