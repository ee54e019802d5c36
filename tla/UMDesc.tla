------------------------------- MODULE UMDesc -------------------------------
(***************************************************************************)
(* uMDesc: the lexer (lexer.py), the rules of `expr` for identifiers,      *)
(* parentheses and operators (parser.py) and the base visitor's methods    *)
(* for what they build (visitor.py), on the right-hand side of an          *)
(* assignment and the semicolon after it.                                  *)
(*                                                                         *)
(* The lexer is a generator: the parser pulls one token ahead, so that     *)
(* their steps alternate and either may raise first. The rest of the       *)
(* grammar (declarations, calls, and the rules of `expr` for INT and for a *)
(* subscript) is left out; its tables are SLY's. A character is a string   *)
(* of length 1; identifiers are made of x. There is no backslash, so a     *)
(* string ends at the next quote.                                          *)
(***************************************************************************)
EXTENDS Integers, Sequences, FiniteSets

CONSTANTS Texts   \* what may be read: sequences of characters, without ";"

NL == "\n"
Quote == "\""

Operators == {"+", "-", "&", "|", "^"}
Literals == Operators \cup {"(", ")", ";"}
Chars == Literals \cup {"x", " ", "/", "*", NL, Quote}

ASSUME TextsAssumption == Texts \subseteq Seq(Chars \ {";"})

VARIABLES
  text,      \* self.text; never changes
  pos,       \* self.index
  lineno,    \* self.lineno
  start,     \* t.index of the comment being scanned
  depth,     \* local variable of BLOCK_COMMENT; 0 outside it
  look,      \* the parser's lookahead: a sequence of at most one token
  stack,     \* the parser's stack
  phase,     \* "parse", "visit", "over", "unterminated", "illegal", "syntax" or "end"
  agenda,    \* nodes the visitor has still to visit
  tokens,    \* history: every token so far
  inString,  \* history: newlines inside strings
  visits     \* history: nodes visited

vars == <<text, pos, lineno, start, depth, look, stack, phase, agenda, tokens,
          inString, visits>>

lexer == <<text, pos, lineno, start, depth, tokens, inString>>
parser == <<look, stack>>
visitor == <<agenda, visits>>

----------------------------------------------------------------------------
(***************************************************************************)
(* lexer.py                                                                *)
(***************************************************************************)

At(t, p, s) == p + Len(s) - 1 <= Len(t) /\ SubSeq(t, p, p + Len(s) - 1) = s
Opener == <<"/", "*">>
Closer == <<"*", "/">>

Newlines(from, to) == {i \in from..to - 1 : text[i] = NL}

Init ==
  /\ text \in {t \o <<";">> : t \in Texts}
  /\ pos = 1 /\ lineno = 1 /\ start = 0 /\ depth = 0
  /\ look = << >> /\ stack = << >>
  /\ phase = "parse"
  /\ agenda = << >> /\ visits = << >>
  /\ tokens = << >> /\ inString = {}

\* The parser needs a token and there is text left.
Lexing == phase = "parse" /\ look = << >> /\ depth = 0 /\ pos <= Len(text)

\* The next position after a run of characters of S.
RunEnd(S) == CHOOSE e \in pos..Len(text) + 1 :
               /\ \A i \in pos..e - 1 : text[i] \in S
               /\ e = Len(text) + 1 \/ text[e] \notin S

Token(type, end) == [type |-> type, line |-> lineno, at |-> pos, end |-> end]

\* A token is returned to the parser.
Return(t) ==
  /\ look' = <<t>> /\ tokens' = Append(tokens, t)
  /\ pos' = t.end
  /\ UNCHANGED <<text, lineno, start, depth, stack, phase, visitor>>

\* White space, and newlines, which are counted.
Ignore ==
  /\ Lexing
  /\ text[pos] \in {" ", NL}
  /\ pos' = pos + 1
  /\ lineno' = IF text[pos] = NL THEN lineno + 1 ELSE lineno
  /\ UNCHANGED <<text, start, depth, tokens, inString, phase, parser, visitor>>

LineComment ==
  /\ Lexing /\ At(text, pos, <<"/", "/">>)
  /\ pos' = CHOOSE e \in pos..Len(text) + 1 :
              /\ Newlines(pos, e) = {}
              /\ e = Len(text) + 1 \/ text[e] = NL
  /\ UNCHANGED <<text, lineno, start, depth, tokens, inString, phase, parser, visitor>>

BlockComment ==
  /\ Lexing /\ At(text, pos, Opener)
  /\ start' = pos /\ pos' = pos + 2 /\ depth' = 1
  /\ UNCHANGED <<text, lineno, tokens, inString, phase, parser, visitor>>

\* Mutant of Count: from the beginning of the text.
CountAll(from, to) == Cardinality(Newlines(1, to))

\* text.count("\n", t.index, pos)
Count(from, to) == Cardinality(Newlines(from, to))

\* Mutant of NextPos: the cursor stays at any other character.
NextPosStuck(p) == IF At(text, p, Opener) \/ At(text, p, Closer) THEN p + 2 ELSE p

\* Mutant of NextDepth: comments do not nest.
NextDepthFlat(p) == IF At(text, p, Closer) THEN depth - 1 ELSE depth

NextPos(p) == IF At(text, p, Opener) \/ At(text, p, Closer) THEN p + 2 ELSE p + 1
NextDepth(p) ==
  IF At(text, p, Opener) THEN depth + 1 ELSE IF At(text, p, Closer) THEN depth - 1 ELSE depth

\* One pass of the loop of BLOCK_COMMENT and, after the last, what follows it.
Scan ==
  /\ phase = "parse" /\ depth > 0 /\ pos <= Len(text)
  /\ pos' = NextPos(pos) /\ depth' = NextDepth(pos)
  /\ lineno' = IF depth' = 0 THEN lineno + Count(start, pos') ELSE lineno
  /\ UNCHANGED <<text, start, tokens, inString, phase, parser, visitor>>

Unterminated ==
  /\ phase = "parse" /\ depth > 0 /\ pos > Len(text)
  /\ phase' = "unterminated"
  /\ UNCHANGED <<lexer, parser, visitor>>

Ident ==
  /\ Lexing /\ text[pos] = "x"
  /\ Return(Token("IDENT", RunEnd({"x"})))
  /\ UNCHANGED inString

Quotes == {i \in pos + 1..Len(text) : text[i] = Quote}

\* A string may go on over the end of a line; the newlines are not counted.
String ==
  /\ Lexing /\ text[pos] = Quote /\ Quotes # {}
  /\ LET end == CHOOSE i \in Quotes : \A j \in Quotes : i <= j
     IN  /\ Return(Token("STRING", end + 1))
         /\ inString' = inString \cup Newlines(pos, end)

Literal ==
  /\ Lexing /\ text[pos] \in Literals
  /\ Return(Token(text[pos], pos + 1))
  /\ UNCHANGED inString

\* Nothing matches: a slash or star by itself, or a quote that is not closed.
IllegalChar ==
  /\ Lexing
  /\ \/ text[pos] \in {"/", "*"} /\ ~At(text, pos, <<"/", "/">>) /\ ~At(text, pos, Opener)
     \/ text[pos] = Quote /\ Quotes = {}
  /\ phase' = "illegal"
  /\ UNCHANGED <<lexer, parser, visitor>>

tokenize ==
  \/ Ignore \/ LineComment \/ BlockComment \/ Scan \/ Unterminated
  \/ Ident \/ String \/ Literal \/ IllegalChar

----------------------------------------------------------------------------
(***************************************************************************)
(* parser.py. The stack has tokens and trees; a tree knows its position.   *)
(***************************************************************************)

\* precedence: a later level binds tighter.
Levels == << {"|", "^"}, {"&"}, {"+", "-"} >>
Level(op) == CHOOSE i \in DOMAIN Levels : op \in Levels[i]

Leaf(t) == [type |-> "expr", op |-> "ident", kids |-> << >>, at |-> t.at]

\* Mutant of BinOp: expr0 and expr1 are exchanged.
BinOpSwapped(op, l, r) == [type |-> "expr", op |-> op, kids |-> <<r, l>>, at |-> l.at]

BinOp(op, l, r) == [type |-> "expr", op |-> op, kids |-> <<l, r>>, at |-> l.at]

Top(n) == stack[Len(stack) - n + 1]
TopTypes(n) == [i \in 1..n |-> Top(n - i + 1).type]
Ends(n, S) == Len(stack) >= n /\ TopTypes(n) \in S
Replace(n, e) == stack' = Append(SubSeq(stack, 1, Len(stack) - n), e)

Parsing == phase = "parse" /\ look # << >>
Ahead == look[1].type

Pending == Ends(3, {<<"expr", op, "expr">> : op \in Operators})
Closed == Ends(3, {<<"(", "expr", ")">>})

\* Mutant of ReduceFirst: equal levels group to the right.
ReduceUnlessEqual(op, t) == t \in Operators => Level(t) < Level(op)

\* The conflict between reducing "expr op expr" and shifting t: all levels are
\* "left".
ReduceFirst(op, t) == t \in Operators => Level(t) <= Level(op)

\* Number of items of this type on the stack.
OnStack(type) == Cardinality({i \in DOMAIN stack : stack[i].type = type})

\* Mutant of Expected: any number of parentheses may be closed, or left open.
ExpectedUnbalanced ==
  IF stack = << >> \/ Top(1).type \in Operators \cup {"("} THEN {"IDENT", "("}
  ELSE Operators \cup {")", ";"}

\* What may follow, a summary of the states of SLY's automaton for these rules:
\* it may reduce before it refuses, and refuses the same token.
Expected ==
  IF stack = << >> \/ Top(1).type \in Operators \cup {"("} THEN {"IDENT", "("}
  ELSE Operators \cup IF OnStack("(") > OnStack(")") THEN {")"} ELSE {";"}

Reducible ==
  \/ Ends(1, {<<"IDENT">>}) \/ Closed
  \/ Pending /\ ReduceFirst(Top(2).type, Ahead)

Reduce ==
  /\ Parsing /\ Ahead \in Expected
  /\ \/ Ends(1, {<<"IDENT">>}) /\ Replace(1, Leaf(Top(1)))
     \/ Closed /\ Replace(3, Top(2))
     \/ /\ Pending /\ ReduceFirst(Top(2).type, Ahead)
        /\ Replace(3, BinOp(Top(2).type, Top(3), Top(1)))
  /\ UNCHANGED <<look, phase, lexer, visitor>>

Shift ==
  /\ Parsing /\ Ahead \in Expected /\ Ahead # ";" /\ ~Reducible
  /\ stack' = Append(stack, look[1])
  /\ look' = << >>
  /\ UNCHANGED <<phase, lexer, visitor>>

SyntaxErr ==
  /\ Parsing /\ Ahead \notin Expected
  /\ phase' = "syntax"
  /\ UNCHANGED <<lexer, parser, visitor>>

\* The statement is complete; a visitor is sent to its expression.
Accept ==
  /\ Parsing /\ Ahead = ";" /\ Ahead \in Expected /\ ~Reducible
  /\ phase' = "visit"
  /\ agenda' = <<stack[1]>>
  /\ UNCHANGED <<visits, lexer, parser>>

\* The semicolon is in a comment: the parser is told of the end of the input.
EndOfInput ==
  /\ phase = "parse" /\ look = << >> /\ depth = 0 /\ pos > Len(text)
  /\ phase' = "end"
  /\ UNCHANGED <<lexer, parser, visitor>>

parse == Reduce \/ Shift \/ SyntaxErr \/ Accept \/ EndOfInput

----------------------------------------------------------------------------
(***************************************************************************)
(* visitor.py                                                              *)
(***************************************************************************)

\* visit_BinOp and visit_IdentRef.
Children(n) == n.kids

Visit ==
  /\ phase = "visit" /\ agenda # << >>
  /\ visits' = Append(visits, <<agenda[1].op, agenda[1].at>>)
  /\ agenda' = Children(agenda[1]) \o Tail(agenda)
  /\ UNCHANGED <<phase, lexer, parser>>

Leave ==
  /\ phase = "visit" /\ agenda = << >>
  /\ phase' = "over"
  /\ UNCHANGED <<lexer, parser, visitor>>

Final == {"over", "unterminated", "illegal", "syntax", "end"}

Done == phase \in Final /\ UNCHANGED vars

Next == tokenize \/ parse \/ Visit \/ Leave \/ Done

\* The program is sequential and waits for nothing.
FairSpec == Init /\ [][Next]_vars /\ WF_vars(Next)

----------------------------------------------------------------------------
(***************************************************************************)
(* Properties, and the definitions they compare the program with.          *)
(***************************************************************************)

\* A comment by recursive descent: the position after the rest of a comment
\* that goes on at p, 0 if it is not closed (and then nothing is after it).
AfterComment(t) ==
  LET after[p \in 0..Len(t) + 1] ==
        IF p = 0 \/ p > Len(t) THEN 0
        ELSE IF At(t, p, Closer) THEN p + 2
        ELSE IF At(t, p, Opener) THEN after[after[p + 2]]
        ELSE after[p + 1]
  IN  after

\* Comments nest: the lexer goes on right after the closer that matches the
\* opener, no earlier and no later, and raises exactly if there is none.
CommentsNest ==
  /\ phase = "unterminated" => AfterComment(text)[start + 2] = 0
  /\ start > 0 /\ depth = 0 =>
       LET end == AfterComment(text)[start + 2]
       IN  /\ end \in 1..pos
           /\ \A i \in DOMAIN tokens : tokens[i].at > start => tokens[i].at >= end

\* A token has the number of its line, whatever comments went before it; only
\* newlines inside strings are not counted.
LinesCounted ==
  \A i \in DOMAIN tokens :
    tokens[i].line = 1 + Cardinality(Newlines(1, tokens[i].at) \ inString)

\* Parentheses open after s[lo], ..., s[i], and the operators outside of them.
Nesting(s, lo, i) == Cardinality({j \in lo..i : s[j].type = "("})
                       - Cardinality({j \in lo..i : s[j].type = ")"})
Outside(s, lo, hi) == {i \in lo..hi : s[i].type \in Operators /\ Nesting(s, lo, i) = 0}

\* The last operator outside parentheses of the loosest level.
Root(s, lo, hi) ==
  CHOOSE i \in Outside(s, lo, hi) : \A j \in Outside(s, lo, hi) :
    \/ Level(s[i].type) < Level(s[j].type)
    \/ Level(s[i].type) = Level(s[j].type) /\ j <= i

Ranges(s) == (1..Len(s) + 1) \X (0..Len(s))

\* The tree of the expression s[lo], ..., s[hi] from the definition of
\* precedence: its root is at the top.
TreeOf(s) ==
  LET tree[r \in Ranges(s)] ==
        IF r[1] >= r[2] THEN Leaf(s[r[1]])
        ELSE IF Outside(s, r[1], r[2]) = {} THEN tree[<<r[1] + 1, r[2] - 1>>]
        ELSE LET m == Root(s, r[1], r[2])
             IN  BinOp(s[m].type, tree[<<r[1], m - 1>>], tree[<<m + 1, r[2]>>])
  IN  tree

\* A parse gives the tree that the table of precedences says: operators of the
\* same level group to the left, and parentheses are obeyed.
TreeRight == phase = "visit" => stack = <<TreeOf(tokens)[<<1, Len(tokens) - 1>>]>>

\* Tokens that some expression starts with: operands and operators alternate,
\* and no parenthesis is closed that was not opened.
Operand(t) == t.type \in {"IDENT", ")"}
ViableAt(s, i) ==
  /\ s[i].type # "STRING" /\ Nesting(s, 1, i) >= 0
  /\ (i > 1 /\ Operand(s[i - 1])) <=> s[i].type \in Operators \cup {")", ";"}
  /\ s[i].type = ";" => Nesting(s, 1, i) = 0
Viable(s) == \A i \in DOMAIN s : ViableAt(s, i)

\* A syntax error is raised at the first token that no expression can have
\* there, and not before: everything that is an expression is accepted.
ErrorsPrompt ==
  /\ phase = "syntax" => ~Viable(tokens)
  /\ phase # "syntax" /\ look = << >> => Viable(tokens)
  /\ phase \in {"visit", "end"} => Viable(tokens)

\* A walk meets the operands of an expression in the order of the text, each
\* once, whatever the levels of its operators, its parentheses and the comments
\* in it: what comes out of the visitor is compared with what went into the
\* lexer, and no tree or table is in between.
OperandsInOrder ==
  phase = "over" =>
    LET leaves == {i \in DOMAIN visits : visits[i][1] = "ident"}
        idents == {i \in DOMAIN tokens : tokens[i].type = "IDENT"}
    IN  /\ \A i, j \in leaves : i < j => visits[i][2] < visits[j][2]
        /\ {visits[i][2] : i \in leaves} = {tokens[i].at : i \in idents}

\* Every text is parsed and walked, or refused.
Terminates == <>(phase \in Final)
=============================================================================
