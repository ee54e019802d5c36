------------------------------ MODULE MCPCode ------------------------------
(***************************************************************************)
(* Instances of PCode for TLC.                                             *)
(***************************************************************************)
EXTENDS PCode

\* The second constant is wider than any field.
TwoValues == {{1}, {0, 2, 5}}

============================================================================
