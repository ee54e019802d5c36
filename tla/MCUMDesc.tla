------------------------------ MODULE MCUMDesc ------------------------------
(***************************************************************************)
(* Instances of UMDesc for TLC.                                            *)
(***************************************************************************)
EXTENDS UMDesc

SeqsUpTo(S, n) == UNION {[1..k -> S] : k \in 0..n}

\* Nested and overlapping comments; strings across lines; every expression and
\* non-expression of a few tokens; and longer chains of operators.
Comments == SeqsUpTo({"/", "*", NL}, 7)
Strings == SeqsUpTo({Quote, "/", "*", NL}, 5)
Expressions == SeqsUpTo({"x", "+", "&", "(", ")"}, 5)
Mixed == SeqsUpTo({"x", "-", "/", "*", NL, " "}, 4)
Chains == {<<"x", a, "x", b, "x", c, "x">> : a, b, c \in Operators}
Brackets == {<<"(", "x", a, "x", ")", b, "(", "x", c, "x", ")">> : a, b, c \in {"+", "&", "|"}}

\* Comments before an operand, and after a line or two.
AroundTokens == {<<"x", NL>> \o c \o <<"+", NL, "x">> : c \in SeqsUpTo({"/", "*", NL}, 5)}

SomeTexts == Comments \cup Strings \cup Expressions \cup Mixed \cup Chains
               \cup Brackets \cup AroundTokens
=============================================================================
