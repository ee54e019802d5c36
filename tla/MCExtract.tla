----------------------------- MODULE MCExtract -----------------------------
(***************************************************************************)
(* Instances of Extract for TLC.                                           *)
(***************************************************************************)
EXTENDS Extract

CONSTANTS k1, k2, v1, v2, h1, h2

TwoBanks == <<"llvm-td", "asmjit-db">>
OneBank == <<"llvm-td">>

\* The second version drops a record.
Shrinking == [v \in {v1, v2} |-> IF v = v1 THEN {k1, k2} ELSE {k1}]

\* The same key in every version.
OneRow == [v \in {v1, v2} |-> {k1}]

\* Versions that differ in a file name or size.
SizesDiffer == [v \in {v1, v2} |-> IF v = v1 THEN h1 ELSE h2]

\* A typo in the second name is only noticed after the first backend was
\* written.
BothOrTypo == {<<"sqlite3", "json">>, <<"json", "unregistered">>}
DocumentOnly == {<<"json">>}

============================================================================
