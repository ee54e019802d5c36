---------------------------- MODULE UMDescProofs ----------------------------
(***************************************************************************)
(* Theorems about UMDesc, for every set of texts: the lexer's comments and *)
(* line numbers, the parser's errors and trees, and the visitor's walk.    *)
(***************************************************************************)
EXTENDS UMDesc, InductionLemmas, FiniteSetTheorems, SequenceTheorems

(***************************************************************************)
(* Comments by recursive descent.                                          *)
(***************************************************************************)

\* An opener or closer is two characters of the text.
LEMMA AtTwo ==
  ASSUME NEW t \in Seq(Chars), NEW p \in Nat
  PROVE  /\ At(t, p, Opener) => p + 1 <= Len(t)
         /\ At(t, p, Closer) => p + 1 <= Len(t)
  BY DEF At, Opener, Closer

\* One step of AfterComment, for a function f that stands for the rest.
After(t, f, p) ==
  IF p = 0 \/ p > Len(t) THEN 0
  ELSE IF At(t, p, Closer) THEN p + 2
  ELSE IF At(t, p, Opener) THEN f[f[p + 2]]
  ELSE f[p + 1]

\* AfterComment is well defined, though it calls itself on its own result: it
\* only looks at later positions, and its results are later still.
LEMMA AfterExists ==
  ASSUME NEW t \in Seq(Chars)
  PROVE  \E f \in [0 .. Len(t) + 1 -> 0 .. Len(t) + 1] :
           \A p \in 0 .. Len(t) + 1 : f[p] = After(t, f, p) /\ (f[p] = 0 \/ f[p] > p)
<1> DEFINE N == Len(t)
           P == 0 .. N + 1
           Good(f, p) == f[p] = After(t, f, p) /\ (f[p] = 0 \/ f[p] > p)
           T == {m \in 0 .. N + 1 : \E f \in [P -> P] :
                   \A p \in P : p = 0 \/ p >= N + 1 - m => Good(f, p)}
<1>1. N \in Nat
  OBVIOUS
<1>2. 0 \in T
  <2> DEFINE f == [p \in P |-> 0]
  <2>1. f \in [P -> P]
    BY <1>1
  <2>2. \A p \in P : p = 0 \/ p >= N + 1 - 0 => Good(f, p)
    BY <1>1 DEF After
  <2> HIDE DEF f, Good
  <2>3. \E h \in [P -> P] : \A p \in P : p = 0 \/ p >= N + 1 - 0 => Good(h, p)
    BY <2>1, <2>2
  <2> QED
    BY <1>1, <2>3
<1>3. \A m \in 0 .. (N + 1) - 1 : m \in T => m + 1 \in T
  <2> SUFFICES ASSUME NEW m \in 0 .. (N + 1) - 1, m \in T PROVE m + 1 \in T
    OBVIOUS
  <2>1. PICK f \in [P -> P] : \A p \in P : p = 0 \/ p >= N + 1 - m => Good(f, p)
    OBVIOUS
  <2> DEFINE q == N - m
             g == [p \in P |-> IF p = q THEN After(t, f, q) ELSE f[p]]
  <2>2. q \in 0 .. N /\ q \in P /\ N + 1 - (m + 1) = q /\ N + 1 - m = q + 1
    BY <1>1
  <2>3. \A p \in P : p > q => Good(f, p)
    BY <1>1, <2>1, <2>2
  <2>4. Good(f, 0)
    BY <1>1, <2>1
  <2> HIDE DEF q
  <2>5. After(t, f, q) \in P /\ (After(t, f, q) = 0 \/ After(t, f, q) > q)
    <3>1. CASE q = 0
      BY <1>1, <3>1 DEF After
    <3>2. CASE q # 0 /\ At(t, q, Closer)
      BY <1>1, <2>2, <3>2, AtTwo DEF After
    <3>3. CASE q # 0 /\ ~At(t, q, Closer) /\ At(t, q, Opener)
      <4>1. q + 2 \in P /\ After(t, f, q) = f[f[q + 2]]
        BY <1>1, <2>2, <3>3, AtTwo DEF After
      <4>2. f[q + 2] \in P /\ (f[q + 2] = 0 \/ f[q + 2] > q + 2)
        <5>1. q + 2 > q
          BY <2>2
        <5>2. Good(f, q + 2)
          BY <2>3, <4>1, <5>1
        <5> QED
          BY <2>1, <4>1, <5>2
      <4>3. f[f[q + 2]] \in P /\ (f[f[q + 2]] = 0 \/ f[f[q + 2]] > f[q + 2])
        BY <1>1, <2>2, <2>3, <2>4, <4>2
      <4>4. f[0] = 0
        BY <2>4 DEF After
      <4> QED
        BY <1>1, <2>2, <4>1, <4>2, <4>3, <4>4
    <3>4. CASE q # 0 /\ ~At(t, q, Closer) /\ ~At(t, q, Opener)
      <4>1. q + 1 \in P /\ After(t, f, q) = f[q + 1]
        BY <1>1, <2>2, <3>4 DEF After
      <4>2. q + 1 > q
        BY <2>2
      <4>3. Good(f, q + 1)
        BY <2>3, <4>1, <4>2
      <4> QED
        BY <2>1, <2>2, <4>1, <4>3
    <3> QED
      BY <3>1, <3>2, <3>3, <3>4
  <2>6. g \in [P -> P]
    BY <2>5
  <2>7. ASSUME NEW p \in P, p = 0 \/ p >= q PROVE After(t, g, p) = After(t, f, p)
    <3>1. CASE p = 0 \/ p > N \/ At(t, p, Closer)
      BY <3>1 DEF After
    <3>2. CASE ~(p = 0 \/ p > N) /\ ~At(t, p, Closer) /\ At(t, p, Opener)
      <4>1. p + 2 \in P /\ p + 2 # q /\ p + 2 > q
        BY <1>1, <2>2, <2>7, <3>2, AtTwo
      <4>2. f[p + 2] \in P /\ (f[p + 2] = 0 \/ f[p + 2] > p + 2)
        BY <2>3, <4>1
      <4>3. g[p + 2] = f[p + 2]
        BY <4>1
      <4>4. g[f[p + 2]] = f[f[p + 2]]
        <5>1. CASE f[p + 2] # q
          BY <4>2, <5>1
        <5>2. CASE f[p + 2] = q
          <6>1. q = 0
            BY <1>1, <2>2, <4>1, <4>2, <5>2
          <6>2. After(t, f, q) = f[0]
            BY <2>4, <6>1
          <6> QED
            BY <2>2, <5>2, <6>1, <6>2
        <5> QED
          BY <5>1, <5>2
      <4> QED
        BY <3>2, <4>3, <4>4 DEF After
    <3>3. CASE ~(p = 0 \/ p > N) /\ ~At(t, p, Closer) /\ ~At(t, p, Opener)
      <4>1. p + 1 \in P /\ p + 1 # q
        BY <1>1, <2>2, <2>7, <3>3
      <4> QED
        BY <3>3, <4>1 DEF After
    <3> QED
      BY <3>1, <3>2, <3>3
  <2>8. ASSUME NEW p \in P, p = 0 \/ p >= q PROVE Good(g, p)
    <3>1. After(t, g, p) = After(t, f, p)
      BY <2>7, <2>8
    <3>2. CASE p = q
      BY <2>5, <3>1, <3>2
    <3>3. CASE p # q
      <4>1. g[p] = f[p] /\ Good(f, p)
        BY <1>1, <2>2, <2>3, <2>4, <2>8, <3>3
      <4> QED
        BY <3>1, <4>1
    <3> QED
      BY <3>2, <3>3
  <2> HIDE DEF g, Good
  <2>9. \A p \in P : p = 0 \/ p >= N + 1 - (m + 1) => Good(g, p)
    BY <2>2, <2>8
  <2>10. \E h \in [P -> P] : \A p \in P : p = 0 \/ p >= N + 1 - (m + 1) => Good(h, p)
    BY <2>6, <2>9
  <2>11. m + 1 \in 0 .. N + 1
    BY <1>1
  <2> QED
    BY <2>10, <2>11
<1> HIDE DEF T
<1>4. N + 1 \in T
  <2>1. 0 .. N + 1 \subseteq T
    BY <1>1, <1>2, <1>3, RangeInduction, SMTT(30)
  <2> QED
    BY <1>1, <2>1
<1>5. PICK f \in [P -> P] : \A p \in P : p = 0 \/ p >= N + 1 - (N + 1) => Good(f, p)
  BY <1>4 DEF T
<1>6. \A p \in P : Good(f, p)
  BY <1>1, <1>5
<1> QED
  BY <1>6

\* AfterComment as its own equation, and its results.
LEMMA AfterCommentStep ==
  ASSUME NEW t \in Seq(Chars)
  PROVE  /\ AfterComment(t) = [p \in 0 .. Len(t) + 1 |-> After(t, AfterComment(t), p)]
         /\ AfterComment(t)[0] = 0
         /\ AfterComment(t)[Len(t) + 1] = 0
<1> DEFINE P == 0 .. Len(t) + 1
           Is(f) == f = [p \in P |-> After(t, f, p)]
<1>1. PICK f \in [P -> P] : \A p \in P : f[p] = After(t, f, p)
  BY AfterExists
<1>2. Is(f)
  BY <1>1
<1>3. Is(AfterComment(t))
  <2>1. AfterComment(t) = CHOOSE g : Is(g)
    BY DEF AfterComment, After
  <2> HIDE DEF Is
  <2> QED
    BY <1>2, <2>1
<1>4. 0 \in P /\ Len(t) + 1 \in P /\ Len(t) + 1 > Len(t)
  OBVIOUS
<1>5. \A p \in P : AfterComment(t)[p] = After(t, AfterComment(t), p)
  BY <1>3, Zenon
<1>6. AfterComment(t)[0] = 0 /\ AfterComment(t)[Len(t) + 1] = 0
  BY <1>4, <1>5 DEF After
<1> QED
  BY <1>3, <1>6

(***************************************************************************)
(* Counting lines.                                                         *)
(***************************************************************************)

NewlinesIn(t, from, to) == {i \in from .. to - 1 : t[i] = NL}

\* Newlines before position k that are not in S.
Lines(t, S, k) == Cardinality(NewlinesIn(t, 1, k) \ S)

LEMMA NewlinesFinite ==
  ASSUME NEW t, NEW a \in Nat, NEW b \in Nat, NEW S
  PROVE  /\ IsFiniteSet(NewlinesIn(t, a, b) \ S)
         /\ Cardinality(NewlinesIn(t, a, b) \ S) \in Nat
<1>1. IsFiniteSet(a .. b - 1)
  BY FS_Interval
<1>2. (NewlinesIn(t, a, b) \ S) \subseteq a .. b - 1
  BY DEF NewlinesIn
<1>3. IsFiniteSet(NewlinesIn(t, a, b) \ S)
  BY <1>1, <1>2, FS_Subset
<1> QED
  BY <1>3, FS_CardinalityType

\* Moving on over b - a characters.
LEMMA LinesGrow ==
  ASSUME NEW t, NEW a \in Nat \ {0}, NEW b \in Nat, a <= b, NEW S, S \subseteq 1 .. a - 1
  PROVE  Lines(t, S, b) = Lines(t, S, a) + Cardinality(NewlinesIn(t, a, b))
<1> DEFINE A == NewlinesIn(t, 1, a) \ S
           B == NewlinesIn(t, a, b)
<1>1. NewlinesIn(t, 1, b) \ S = A \cup B /\ A \cap B = {} /\ B = B \ {}
  BY DEF NewlinesIn
<1>2. IsFiniteSet(A) /\ IsFiniteSet(B) /\ Cardinality(A) \in Nat /\ Cardinality(B) \in Nat
  <2>1. 1 \in Nat /\ a \in Nat
    OBVIOUS
  <2>2. IsFiniteSet(A) /\ Cardinality(A) \in Nat
    BY <2>1, NewlinesFinite
  <2>3. IsFiniteSet(B \ {}) /\ Cardinality(B \ {}) \in Nat
    BY <2>1, NewlinesFinite
  <2> QED
    BY <1>1, <2>2, <2>3
<1>3. Cardinality(A \cup B) = Cardinality(A) + Cardinality(B) - Cardinality({})
  BY <1>1, <1>2, FS_Union
<1>4. Cardinality({}) = 0
  BY FS_EmptySet
<1>5. Lines(t, S, b) = Cardinality(A \cup B) /\ Lines(t, S, a) = Cardinality(A)
  BY <1>1 DEF Lines
<1> QED
  BY <1>2, <1>3, <1>4, <1>5

\* Without a newline outside S' on the way, the count stays.
LEMMA LinesStay ==
  ASSUME NEW t, NEW a \in Nat \ {0}, NEW b \in Nat, a <= b, NEW S, S \subseteq 1 .. a - 1,
         NEW Q, Q = S \cup NewlinesIn(t, a, b)
  PROVE  Lines(t, Q, b) = Lines(t, S, a)
<1>1. NewlinesIn(t, 1, b) \ Q = NewlinesIn(t, 1, a) \ S
  BY DEF NewlinesIn
<1> QED
  BY <1>1 DEF Lines

\* What is excluded from k on does not matter before k.
LEMMA LinesBefore ==
  ASSUME NEW t, NEW k \in Nat, NEW b \in Nat, NEW a \in Nat, k <= a, NEW S,
         NEW Q, Q = S \cup NewlinesIn(t, a, b)
  PROVE  Lines(t, Q, k) = Lines(t, S, k)
<1>1. NewlinesIn(t, 1, k) \ Q = NewlinesIn(t, 1, k) \ S
  BY DEF NewlinesIn
<1> QED
  BY <1>1 DEF Lines

\* The run of characters of S at p has an end.
LEMMA RunExists ==
  ASSUME NEW t \in Seq(Chars), NEW p \in 1 .. Len(t) + 1, NEW S
  PROVE  \E e \in p .. Len(t) + 1 : /\ \A i \in p .. e - 1 : t[i] \in S
                                    /\ e = Len(t) + 1 \/ t[e] \notin S
<1> DEFINE E == {e \in p .. Len(t) + 1 : e = Len(t) + 1 \/ t[e] \notin S}
<1>1. E \subseteq Nat /\ Len(t) + 1 \in E /\ Len(t) \in Nat
  OBVIOUS
<1>2. PICK e \in E : \A k \in E : e <= k
  BY <1>1, LeastNatural
<1>3. e \in p .. Len(t) + 1 /\ (e = Len(t) + 1 \/ t[e] \notin S)
  BY <1>2
<1>4. ASSUME NEW i \in p .. e - 1 PROVE t[i] \in S
  <2>1. i \in p .. Len(t) + 1 /\ ~ (e <= i)
    BY <1>1, <1>3
  <2>2. i \notin E
    BY <1>2, <2>1
  <2> QED
    BY <2>1, <2>2
<1> QED
  BY <1>3, <1>4

(***************************************************************************)
(* The lexer's state. Outside a comment the text is read up to pos, inside *)
(* one it counts as read up to where the comment starts.                   *)
(***************************************************************************)

Mark == IF depth = 0 THEN pos ELSE start

TokenTypes == Literals \cup {"IDENT", "STRING"}
TokenSet == [type : TokenTypes, line : Nat, at : Nat, end : Nat]

LexOK ==
  /\ text \in Seq(Chars)
  /\ pos \in 1 .. Len(text) + 1
  /\ lineno \in Nat
  /\ start \in 0 .. Len(text)
  /\ depth \in Nat
  /\ depth > 0 => start >= 1 /\ start + 2 <= pos
  /\ tokens \in Seq(TokenSet)
  /\ inString \subseteq 1 .. Mark - 1
  /\ \A i \in DOMAIN tokens : tokens[i].at \in 1 .. Mark - 1

\* A step that passes over white space or a line comment.
Skipping ==
  /\ phase = "parse" /\ look = << >> /\ depth = 0
  /\ pos' \in pos .. Len(text) + 1
  /\ lineno' = lineno + Cardinality(NewlinesIn(text, pos, pos'))
  /\ UNCHANGED <<text, start, depth, tokens, inString, phase, look, stack, agenda, visits>>

\* A step that returns a token.
Returning(t) ==
  /\ phase = "parse" /\ look = << >> /\ depth = 0
  /\ t \in TokenSet /\ t.at = pos /\ t.line = lineno
  /\ pos' \in pos + 1 .. Len(text) + 1
  /\ tokens' = Append(tokens, t) /\ look' = <<t>>
  /\ inString' = inString \cup NewlinesIn(text, pos, pos')
  /\ UNCHANGED <<text, lineno, start, depth, stack, phase, agenda, visits>>

LEMMA IgnoreSkips == ASSUME LexOK, Ignore PROVE Skipping
<1>1. Len(text) \in Nat /\ pos \in 1 .. Len(text) /\ pos' = pos + 1 /\ lineno \in Nat
  <2>1. Lexing /\ pos' = pos + 1
    BY DEF Ignore
  <2> QED
    BY <2>1 DEF LexOK, Lexing
<1>2. ASSUME text[pos] = NL PROVE lineno' = lineno + Cardinality(NewlinesIn(text, pos, pos'))
  <2>1. lineno' = lineno + 1
    BY <1>2 DEF Ignore
  <2>2. NewlinesIn(text, pos, pos') = {pos}
    BY <1>1, <1>2 DEF NewlinesIn
  <2> QED
    BY <2>1, <2>2, FS_Singleton
<1>3. ASSUME text[pos] # NL PROVE lineno' = lineno + Cardinality(NewlinesIn(text, pos, pos'))
  <2>1. lineno' = lineno
    BY <1>3 DEF Ignore
  <2>2. NewlinesIn(text, pos, pos') = {}
    BY <1>1, <1>3 DEF NewlinesIn
  <2> QED
    BY <1>1, <2>1, <2>2, FS_EmptySet
<1>4. lineno' = lineno + Cardinality(NewlinesIn(text, pos, pos'))
  BY <1>2, <1>3
<1>5. /\ phase = "parse" /\ look = << >> /\ depth = 0
      /\ UNCHANGED <<text, start, depth, tokens, inString, phase, look, stack, agenda, visits>>
  BY DEF Ignore, Lexing, parser, visitor
<1> QED
  BY <1>1, <1>4, <1>5 DEF Skipping

LEMMA LineCommentSkips == ASSUME LexOK, LineComment PROVE Skipping
<1> DEFINE RunsTo(e) == Newlines(pos, e) = {} /\ (e = Len(text) + 1 \/ text[e] = NL)
           E == pos .. Len(text) + 1
<1>1. pos' = CHOOSE e \in E : RunsTo(e)
  BY DEF LineComment
<1>2. PICK e \in E : /\ \A i \in pos .. e - 1 : text[i] \in Chars \ {NL}
                     /\ e = Len(text) + 1 \/ text[e] \notin Chars \ {NL}
  <2>1. text \in Seq(Chars) /\ pos \in 1 .. Len(text) + 1
    BY DEF LexOK
  <2>2. \A S : \E e \in E : /\ \A i \in pos .. e - 1 : text[i] \in S
                            /\ e = Len(text) + 1 \/ text[e] \notin S
    BY <2>1, RunExists
  <2> HIDE DEF E
  <2> QED
    BY <2>2, Zenon
<1>3. RunsTo(e)
  <2>1. Newlines(pos, e) = {}
    BY <1>2 DEF Newlines
  <2>2. e # Len(text) + 1 => text[e] \in Chars
    BY <1>2 DEF LexOK
  <2> QED
    BY <1>2, <2>1, <2>2
<1> HIDE DEF RunsTo, E
<1>4. pos' \in E /\ RunsTo(pos')
  BY <1>1, <1>2, <1>3
<1>5. NewlinesIn(text, pos, pos') = {}
  BY <1>4 DEF RunsTo, Newlines, NewlinesIn
<1>6. lineno' = lineno /\ lineno \in Nat
  BY DEF LineComment, LexOK
<1>7. lineno' = lineno + Cardinality(NewlinesIn(text, pos, pos'))
  BY <1>5, <1>6, FS_EmptySet
<1> QED
  BY <1>4, <1>7 DEF LineComment, Lexing, parser, visitor, Skipping, E

\* An identifier is a run of x, so that no newline is in it.
LEMMA IdentReturns == ASSUME LexOK, Ident PROVE \E t : Returning(t)
<1> DEFINE t == Token("IDENT", RunEnd({"x"}))
           E == pos .. Len(text) + 1
           RunsTo(e) == /\ \A i \in pos .. e - 1 : text[i] \in {"x"}
                        /\ e = Len(text) + 1 \/ text[e] \notin {"x"}
<1>1. \E e \in E : RunsTo(e)
  BY RunExists DEF LexOK
<1>2. RunEnd({"x"}) = CHOOSE e \in E : RunsTo(e)
  BY DEF RunEnd
<1> HIDE DEF RunsTo, E
<1>3. RunEnd({"x"}) \in E /\ RunsTo(RunEnd({"x"}))
  BY <1>1, <1>2
<1>4. /\ text[pos] = "x" /\ pos \in 1 .. Len(text) /\ Len(text) \in Nat
      /\ pos' = RunEnd({"x"})
  BY DEF LexOK, Ident, Lexing, Return, Token
<1>5. pos' \in pos + 1 .. Len(text) + 1
  BY <1>3, <1>4 DEF E, RunsTo
<1>6. NewlinesIn(text, pos, pos') = {}
  BY <1>3, <1>4 DEF NewlinesIn, RunsTo, NL
<1>7. t \in TokenSet /\ t.at = pos /\ t.line = lineno
  BY <1>4, <1>5 DEF Token, TokenSet, TokenTypes, LexOK
<1>8. tokens' = Append(tokens, t) /\ look' = <<t>>
  BY DEF Ident, Return
<1> HIDE DEF t
<1>9. Returning(t)
  BY <1>5, <1>6, <1>7, <1>8 DEF Ident, Lexing, Return, Returning, visitor
<1> QED
  BY <1>9

LEMMA LiteralReturns == ASSUME LexOK, Literal PROVE \E t : Returning(t)
<1> DEFINE t == Token(text[pos], pos + 1)
<1>1. /\ text[pos] \in Literals /\ pos \in 1 .. Len(text) /\ Len(text) \in Nat
      /\ pos' = pos + 1
  BY DEF LexOK, Literal, Lexing, Return, Token
<1>2. NewlinesIn(text, pos, pos') = {}
  <2>1. text[pos] # NL
    BY <1>1 DEF NL, Literals, Operators
  <2> QED
    BY <1>1, <2>1 DEF NewlinesIn
<1>3. t \in TokenSet /\ t.at = pos /\ t.line = lineno
  BY <1>1 DEF Token, TokenSet, TokenTypes, LexOK
<1>4. tokens' = Append(tokens, t) /\ look' = <<t>>
  BY DEF Literal, Return
<1> HIDE DEF t
<1>5. Returning(t)
  BY <1>1, <1>2, <1>3, <1>4 DEF Literal, Lexing, Return, Returning, visitor
<1> QED
  BY <1>5

\* The newlines inside a string are the ones that are not counted.
LEMMA StringReturns == ASSUME LexOK, String PROVE \E t : Returning(t)
<1> DEFINE end == CHOOSE i \in Quotes : \A j \in Quotes : i <= j
           t == Token("STRING", end + 1)
<1>1. Quotes \subseteq Nat /\ Quotes # {}
  BY DEF String, Quotes, LexOK
<1>2. end \in Quotes
  BY <1>1, LeastNatural
<1> HIDE DEF end
<1>3. end \in pos + 1 .. Len(text) /\ text[end] = Quote /\ pos \in 1 .. Len(text) /\ Len(text) \in Nat
  BY <1>2 DEF Quotes, LexOK, String, Lexing
<1>4. /\ pos' = end + 1 /\ tokens' = Append(tokens, t) /\ look' = <<t>>
      /\ inString' = inString \cup Newlines(pos, end)
  BY DEF String, Return, end, Token
<1>5. Newlines(pos, end) = NewlinesIn(text, pos, pos')
  <2>1. text[end] # NL
    BY <1>3 DEF NL, Quote
  <2> QED
    BY <1>3, <1>4, <2>1 DEF Newlines, NewlinesIn
<1>6. t \in TokenSet /\ t.at = pos /\ t.line = lineno
  BY <1>3 DEF Token, TokenSet, TokenTypes, LexOK
<1> HIDE DEF t
<1>7. /\ phase = "parse" /\ look = << >> /\ depth = 0
      /\ UNCHANGED <<text, lineno, start, depth, stack, phase, agenda, visits>>
  BY DEF String, Lexing, Return, visitor
<1>8. pos' \in pos + 1 .. Len(text) + 1
  BY <1>3, <1>4
<1>9. Returning(t)
  BY <1>4, <1>5, <1>6, <1>7, <1>8 DEF Returning
<1> QED
  BY <1>9

\* A step that the lexer has no part in, or that raises.
Resting == UNCHANGED <<text, pos, lineno, start, depth, tokens, inString>>

\* What a step can be for the lexer.
LEMMA LexerSteps ==
  ASSUME LexOK, [Next]_vars
  PROVE  Resting \/ Skipping \/ BlockComment \/ Scan \/ \E t : Returning(t)
<1>1. CASE UNCHANGED vars
  BY <1>1 DEF vars, Resting
<1>2. CASE Unterminated \/ IllegalChar \/ parse \/ Visit \/ Leave \/ Done
  BY <1>2 DEF Unterminated, IllegalChar, parse, Reduce, Shift, SyntaxErr, Accept,
              EndOfInput, Visit, Leave, Done, lexer, vars, Resting
<1>3. CASE Ignore \/ LineComment
  BY <1>3, IgnoreSkips, LineCommentSkips
<1>4. CASE Ident \/ Literal \/ String
  BY <1>4, IdentReturns, LiteralReturns, StringReturns
<1> QED
  BY <1>1, <1>2, <1>3, <1>4 DEF Next, tokenize

\* One character or one opener or closer further.
LEMMA ScanStep ==
  ASSUME LexOK, Scan
  PROVE  /\ depth > 0 /\ pos \in 1 .. Len(text) /\ phase = "parse"
         /\ pos' \in pos + 1 .. Len(text) + 1
         /\ depth' \in Nat
         /\ depth' = 0 => lineno' = lineno + Cardinality(NewlinesIn(text, start, pos'))
         /\ depth' # 0 => lineno' = lineno
         /\ UNCHANGED <<text, start, tokens, inString, phase, look, stack, agenda, visits>>
<1>1. /\ depth > 0 /\ pos <= Len(text) /\ phase = "parse"
      /\ pos' = NextPos(pos) /\ depth' = NextDepth(pos)
      /\ UNCHANGED <<text, start, tokens, inString, phase, look, stack, agenda, visits>>
  BY DEF Scan, parser, visitor
<1>2. pos \in 1 .. Len(text) /\ Len(text) \in Nat /\ depth \in Nat /\ text \in Seq(Chars)
  BY <1>1 DEF LexOK
<1>3. pos' \in pos + 1 .. Len(text) + 1
  <2>1. At(text, pos, Opener) \/ At(text, pos, Closer) => pos + 1 <= Len(text)
    BY <1>2, AtTwo
  <2>2. CASE At(text, pos, Opener) \/ At(text, pos, Closer)
    BY <1>1, <1>2, <2>1, <2>2 DEF NextPos
  <2>3. CASE ~(At(text, pos, Opener) \/ At(text, pos, Closer))
    BY <1>1, <1>2, <2>3 DEF NextPos
  <2> QED
    BY <2>2, <2>3
<1>4. depth' \in Nat
  BY <1>1, <1>2 DEF NextDepth
<1>5. ASSUME depth' = 0
      PROVE  lineno' = lineno + Cardinality(NewlinesIn(text, start, pos'))
  <2>1. lineno' = lineno + Count(start, pos')
    BY <1>5 DEF Scan
  <2> QED
    BY <2>1 DEF Count, Newlines, NewlinesIn
<1>6. ASSUME depth' # 0 PROVE lineno' = lineno
  BY <1>6 DEF Scan
<1> QED
  BY <1>1, <1>2, <1>3, <1>4, <1>5, <1>6

LEMMA BlockCommentStep ==
  ASSUME LexOK, BlockComment
  PROVE  /\ phase = "parse" /\ look = << >> /\ depth = 0
         /\ start' = pos /\ depth' = 1 /\ pos' = pos + 2
         /\ pos + 2 \in 1 .. Len(text) + 1
         /\ UNCHANGED <<text, lineno, tokens, inString, phase, look, stack, agenda, visits>>
<1>1. /\ Lexing /\ At(text, pos, Opener) /\ start' = pos /\ depth' = 1 /\ pos' = pos + 2
      /\ UNCHANGED <<text, lineno, tokens, inString, phase, look, stack, agenda, visits>>
  BY DEF BlockComment, parser, visitor
<1>2. text \in Seq(Chars) /\ pos \in Nat /\ pos >= 1 /\ Len(text) \in Nat
  BY DEF LexOK
<1>3. pos + 1 <= Len(text)
  BY <1>1, <1>2, AtTwo
<1> QED
  BY <1>1, <1>2, <1>3 DEF Lexing

LEMMA LexOKInit == Init => LexOK
<1> SUFFICES ASSUME Init PROVE LexOK
  OBVIOUS
<1>1. PICK t \in Texts : text = t \o <<";">>
  BY DEF Init
<1>2. t \in Seq(Chars)
  <2> DEFINE D == Chars \ {";"}
  <2>1. t \in Seq(D)
    BY TextsAssumption
  <2>2. D \subseteq Chars
    OBVIOUS
  <2> HIDE DEF D
  <2> QED
    BY <2>1, <2>2, SeqMonotonic
<1>3. <<";">> \in Seq(Chars)
  BY DEF Chars, Literals
<1>4. text \in Seq(Chars)
  BY <1>1, <1>2, <1>3, ConcatProperties
<1>5. Len(text) \in Nat
  BY <1>4
<1>6. /\ pos = 1 /\ lineno = 1 /\ start = 0 /\ depth = 0 /\ tokens = << >> /\ inString = {}
      /\ Mark = 1
  BY DEF Init, Mark
<1>7. tokens \in Seq(TokenSet) /\ DOMAIN tokens = {}
  BY <1>6
<1>8. pos \in 1 .. Len(text) + 1 /\ start \in 0 .. Len(text)
  BY <1>5, <1>6
<1> QED
  BY <1>4, <1>6, <1>7, <1>8 DEF LexOK

\* tokens after one more.
LEMMA TokensAppend ==
  ASSUME NEW s \in Seq(TokenSet), NEW t \in TokenSet
  PROVE  /\ Append(s, t) \in Seq(TokenSet)
         /\ Len(Append(s, t)) = Len(s) + 1
         /\ Append(s, t)[Len(s) + 1] = t
         /\ \A i \in 1 .. Len(s) : Append(s, t)[i] = s[i] /\ s[i] \in TokenSet
         /\ DOMAIN s = 1 .. Len(s) /\ DOMAIN Append(s, t) = 1 .. Len(s) + 1 /\ Len(s) \in Nat
  OBVIOUS

LEMMA Widen ==
  ASSUME NEW a \in Nat, NEW b \in Nat, a <= b, NEW S, S \subseteq 1 .. a - 1
  PROVE  S \subseteq 1 .. b - 1
  OBVIOUS

LEMMA LexOKNext == ASSUME LexOK, [Next]_vars PROVE LexOK'
<1>0. /\ Len(text) \in Nat /\ pos \in 1 .. Len(text) + 1 /\ start \in 0 .. Len(text)
      /\ depth \in Nat /\ lineno \in Nat
      /\ inString \subseteq 1 .. Mark - 1
      /\ \A i \in DOMAIN tokens : tokens[i].at \in 1 .. Mark - 1
  BY DEF LexOK
<1>1. CASE Resting
  BY <1>1 DEF Resting, LexOK, Mark
<1>2. CASE Skipping
  <2>1. lineno' \in Nat
    <3>1. NewlinesIn(text, pos, pos') \ {} = NewlinesIn(text, pos, pos')
      OBVIOUS
    <3>2. pos' \in Nat /\ pos \in Nat
      BY <1>0, <1>2 DEF Skipping
    <3>3. Cardinality(NewlinesIn(text, pos, pos')) \in Nat
      BY <3>1, <3>2, NewlinesFinite
    <3> QED
      BY <1>0, <1>2, <3>3 DEF Skipping
  <2>2. Mark = pos /\ Mark' = pos' /\ pos <= pos' /\ pos' \in 1 .. Len(text') + 1
    BY <1>0, <1>2 DEF Skipping, Mark
  <2>3. UNCHANGED <<text, start, depth, tokens, inString>> /\ depth = 0
    BY <1>2 DEF Skipping
  <2>4. inString' \subseteq 1 .. Mark' - 1
    <3>1. Mark \in Nat /\ Mark' \in Nat /\ Mark <= Mark'
      BY <1>0, <2>2, <2>3
    <3> QED
      BY <1>0, <2>3, <3>1, Widen
  <2>5. \A i \in DOMAIN tokens' : tokens'[i].at \in 1 .. Mark' - 1
    BY <1>0, <2>2, <2>3
  <2>6. start' \in 0 .. Len(text') /\ depth' = 0
    BY <1>0, <2>3
  <2>7. text' \in Seq(Chars) /\ tokens' \in Seq(TokenSet)
    BY <2>3 DEF LexOK
  <2>8. pos' \in 1 .. Len(text') + 1 /\ depth' \in Nat /\ ~(depth' > 0)
    BY <2>2, <2>6
  <2> QED
    BY <2>1, <2>4, <2>5, <2>6, <2>7, <2>8 DEF LexOK
<1>3. CASE BlockComment
  <2>1. /\ Mark = pos /\ Mark' = pos /\ depth = 0 /\ depth' = 1 /\ start' = pos /\ pos' = pos + 2
        /\ pos + 2 \in 1 .. Len(text) + 1
        /\ UNCHANGED <<text, lineno, tokens, inString>>
    BY <1>3, BlockCommentStep DEF Mark
  <2>2. start' \in 0 .. Len(text') /\ start' >= 1 /\ start' + 2 <= pos'
    BY <1>0, <2>1
  <2> QED
    BY <2>1, <2>2 DEF LexOK
<1>4. CASE Scan
  <2>1. /\ depth > 0 /\ pos' \in pos + 1 .. Len(text) + 1 /\ depth' \in Nat
        /\ UNCHANGED <<text, start, tokens, inString>>
    BY <1>4, ScanStep
  <2>2. Mark = start /\ start >= 1 /\ start + 2 <= pos
    BY <1>0, <2>1 DEF LexOK, Mark
  <2>3. Mark' \in Nat /\ Mark <= Mark' /\ pos' \in Nat
    BY <1>0, <2>1, <2>2 DEF Mark
  <2>4. lineno' \in Nat
    <3>1. NewlinesIn(text, start, pos') \ {} = NewlinesIn(text, start, pos')
      OBVIOUS
    <3>2. start \in Nat
      BY <1>0
    <3>3. Cardinality(NewlinesIn(text, start, pos')) \in Nat
      BY <2>3, <3>1, <3>2, NewlinesFinite
    <3> QED
      BY <1>0, <1>4, <3>3, ScanStep
  <2>5. inString' \subseteq 1 .. Mark' - 1
    <3>1. Mark \in Nat
      BY <1>0, <2>2
    <3> QED
      BY <1>0, <2>1, <2>3, <3>1, Widen
  <2>6. \A i \in DOMAIN tokens' : tokens'[i].at \in 1 .. Mark' - 1
    BY <1>0, <2>1, <2>2, <2>3
  <2>7. depth' > 0 => start' >= 1 /\ start' + 2 <= pos'
    BY <1>0, <2>1, <2>2
  <2> QED
    BY <1>0, <2>1, <2>4, <2>5, <2>6, <2>7 DEF LexOK
<1>5. CASE \E t : Returning(t)
  <2>1. PICK t : Returning(t)
    BY <1>5
  <2>2. /\ depth = 0 /\ t \in TokenSet /\ t.at = pos /\ tokens' = Append(tokens, t)
        /\ pos' \in pos + 1 .. Len(text) + 1
        /\ inString' = inString \cup NewlinesIn(text, pos, pos')
        /\ UNCHANGED <<text, lineno, start, depth>>
    BY <2>1 DEF Returning
  <2>3. Mark = pos /\ Mark' = pos' /\ pos' \in Nat
    BY <1>0, <2>2 DEF Mark
  <2>4. tokens \in Seq(TokenSet)
    BY DEF LexOK
  <2>5. inString' \subseteq 1 .. Mark' - 1
    <3>1. NewlinesIn(text, pos, pos') \subseteq 1 .. pos' - 1
      BY <1>0, <2>3 DEF NewlinesIn
    <3>2. inString \subseteq 1 .. pos' - 1
      <4>1. pos \in Nat /\ pos <= pos' /\ inString \subseteq 1 .. pos - 1
        BY <1>0, <2>2, <2>3
      <4> QED
        BY <2>3, <4>1, Widen
    <3> QED
      BY <2>2, <2>3, <3>1, <3>2
  <2>6. \A i \in DOMAIN tokens' : tokens'[i].at \in 1 .. Mark' - 1
    <3> SUFFICES ASSUME NEW i \in DOMAIN tokens' PROVE tokens'[i].at \in 1 .. pos' - 1
      BY <2>3
    <3>1. CASE i = Len(tokens) + 1
      BY <1>0, <2>2, <2>3, <2>4, <3>1, TokensAppend
    <3>2. CASE i \in 1 .. Len(tokens)
      <4>1. tokens'[i] = tokens[i] /\ i \in DOMAIN tokens
        BY <2>2, <2>4, <3>2, TokensAppend
      <4>2. tokens[i].at \in 1 .. pos - 1
        BY <2>3, <4>1 DEF LexOK
      <4> QED
        BY <1>0, <2>2, <4>1, <4>2
    <3> QED
      BY <2>2, <2>4, <3>1, <3>2, TokensAppend
  <2>7. tokens' \in Seq(TokenSet)
    BY <2>2, <2>4, TokensAppend
  <2>8. pos' \in 1 .. Len(text') + 1
    BY <1>0, <2>2
  <2> QED
    BY <2>2, <2>5, <2>6, <2>7, <2>8 DEF LexOK
<1> QED
  BY <1>1, <1>2, <1>3, <1>4, <1>5, LexerSteps

(***************************************************************************)
(* Line numbers and comments.                                              *)
(***************************************************************************)

\* The lexer's counter has every newline before the mark, those inside strings
\* left out, and so has the line of every token.
LineInv ==
  /\ lineno = 1 + Lines(text, inString, Mark)
  /\ \A i \in DOMAIN tokens : tokens[i].line = 1 + Lines(text, inString, tokens[i].at)

LEMMA LineInvInit == Init => LineInv
<1> SUFFICES ASSUME Init PROVE LineInv
  OBVIOUS
<1>1. lineno = 1 /\ pos = 1 /\ depth = 0 /\ tokens = << >>
  BY DEF Init
<1>2. NewlinesIn(text, 1, 1) \ inString = {}
  BY DEF NewlinesIn
<1>3. Lines(text, inString, 1) = 0
  BY <1>2, FS_EmptySet DEF Lines
<1>4. Mark = 1
  BY <1>1 DEF Mark
<1>5. ASSUME NEW i \in DOMAIN tokens PROVE FALSE
  BY <1>1, <1>5
<1>6. lineno = 1 + Lines(text, inString, Mark)
  BY <1>1, <1>3, <1>4
<1> QED
  BY <1>5, <1>6 DEF LineInv

LEMMA LineInvNext == ASSUME LexOK, LineInv, [Next]_vars PROVE LineInv'
<1>0. /\ Len(text) \in Nat /\ pos \in 1 .. Len(text) + 1 /\ start \in 0 .. Len(text)
      /\ depth \in Nat /\ lineno \in Nat /\ tokens \in Seq(TokenSet)
      /\ inString \subseteq 1 .. Mark - 1
      /\ \A i \in DOMAIN tokens : tokens[i].at \in 1 .. Mark - 1
  BY DEF LexOK
<1>1. /\ lineno = 1 + Lines(text, inString, Mark)
      /\ \A i \in DOMAIN tokens : tokens[i].line = 1 + Lines(text, inString, tokens[i].at)
  BY DEF LineInv
<1>2. \A k \in Nat : Lines(text, inString, k) \in Nat
  <2> SUFFICES ASSUME NEW k \in Nat PROVE Lines(text, inString, k) \in Nat
    OBVIOUS
  <2>1. 1 \in Nat
    OBVIOUS
  <2> QED
    BY <2>1, NewlinesFinite DEF Lines
<1>4. CASE Resting
  BY <1>4 DEF Resting, LineInv, Mark
<1>5. CASE Skipping
  <2>1. /\ Mark = pos /\ Mark' = pos' /\ pos <= pos' /\ pos' \in Nat /\ pos \in Nat \ {0}
        /\ UNCHANGED <<text, tokens, inString>>
        /\ lineno' = lineno + Cardinality(NewlinesIn(text, pos, pos'))
    BY <1>0, <1>5 DEF Skipping, Mark
  <2>2. Lines(text, inString, pos') = Lines(text, inString, pos) + Cardinality(NewlinesIn(text, pos, pos'))
    BY <1>0, <2>1, LinesGrow
  <2>3. Lines(text, inString, pos) \in Nat /\ Cardinality(NewlinesIn(text, pos, pos')) \in Nat
    <3>1. NewlinesIn(text, pos, pos') \ {} = NewlinesIn(text, pos, pos')
      OBVIOUS
    <3> QED
      BY <1>2, <2>1, <3>1, NewlinesFinite
  <2>4. lineno' = 1 + Lines(text', inString', Mark')
    BY <1>1, <2>1, <2>2, <2>3
  <2> QED
    BY <1>1, <2>1, <2>4 DEF LineInv
<1>6. CASE BlockComment
  <2>1. Mark = pos /\ Mark' = pos /\ UNCHANGED <<text, lineno, tokens, inString>>
    BY <1>6, BlockCommentStep DEF Mark
  <2> QED
    BY <1>1, <2>1 DEF LineInv
<1>7. CASE Scan
  <2>1. /\ depth > 0 /\ pos' \in pos + 1 .. Len(text) + 1 /\ depth' \in Nat
        /\ depth' = 0 => lineno' = lineno + Cardinality(NewlinesIn(text, start, pos'))
        /\ depth' # 0 => lineno' = lineno
        /\ UNCHANGED <<text, start, tokens, inString>>
    BY <1>7, ScanStep
  <2>2. Mark = start /\ start \in Nat \ {0} /\ start <= pos' /\ pos' \in Nat
    BY <1>0, <2>1 DEF Mark, LexOK
  <2>3. CASE depth' = 0
    <3>1. Mark' = pos'
      BY <2>3 DEF Mark
    <3>2. Lines(text, inString, pos') = Lines(text, inString, start) + Cardinality(NewlinesIn(text, start, pos'))
      BY <1>0, <2>2, LinesGrow
    <3>3. Lines(text, inString, start) \in Nat /\ Cardinality(NewlinesIn(text, start, pos')) \in Nat
      <4>1. NewlinesIn(text, start, pos') \ {} = NewlinesIn(text, start, pos')
        OBVIOUS
      <4> QED
        BY <1>2, <2>2, <4>1, NewlinesFinite
    <3>4. lineno' = 1 + Lines(text', inString', Mark')
      BY <1>1, <2>1, <2>2, <2>3, <3>1, <3>2, <3>3
    <3> QED
      BY <1>1, <2>1, <3>4 DEF LineInv
  <2>4. CASE depth' # 0
    <3>1. Mark' = start
      BY <2>1, <2>4 DEF Mark
    <3> QED
      BY <1>1, <2>1, <2>2, <2>4, <3>1 DEF LineInv
  <2> QED
    BY <2>3, <2>4
<1>8. CASE \E t : Returning(t)
  <2>1. PICK t : Returning(t)
    BY <1>8
  <2>2. /\ depth = 0 /\ t \in TokenSet /\ t.at = pos /\ t.line = lineno
        /\ tokens' = Append(tokens, t)
        /\ pos' \in pos + 1 .. Len(text) + 1
        /\ inString' = inString \cup NewlinesIn(text, pos, pos')
        /\ UNCHANGED <<text, lineno, start, depth>>
    BY <2>1 DEF Returning
  <2>3. Mark = pos /\ Mark' = pos' /\ pos' \in Nat /\ pos \in Nat \ {0} /\ pos <= pos'
    BY <1>0, <2>2 DEF Mark
  <2>4. Lines(text', inString', pos') = Lines(text, inString, pos)
    BY <1>0, <2>2, <2>3, LinesStay, SMTT(30)
  <2>5. \A k \in Nat : k <= pos => Lines(text', inString', k) = Lines(text, inString, k)
    BY <2>2, <2>3, LinesBefore
  <2>6. ASSUME NEW i \in DOMAIN tokens'
        PROVE  tokens'[i].line = 1 + Lines(text', inString', tokens'[i].at)
    <3>1. CASE i = Len(tokens) + 1
      <4>1. tokens'[i] = t
        BY <1>0, <2>2, <3>1, TokensAppend
      <4>2. Lines(text', inString', pos) = Lines(text, inString, pos)
        BY <2>3, <2>5
      <4> QED
        BY <1>1, <2>2, <2>3, <4>1, <4>2
    <3>2. CASE i \in 1 .. Len(tokens)
      <4>1. tokens'[i] = tokens[i] /\ i \in DOMAIN tokens
        BY <1>0, <2>2, <3>2, TokensAppend
      <4>2. tokens[i].at \in Nat /\ tokens[i].at <= pos
        BY <1>0, <2>3, <4>1
      <4>3. Lines(text', inString', tokens[i].at) = Lines(text, inString, tokens[i].at)
        BY <2>5, <4>2
      <4> QED
        BY <1>1, <4>1, <4>3
    <3> QED
      BY <1>0, <2>2, <3>1, <3>2, TokensAppend
  <2>7. lineno' = 1 + Lines(text', inString', Mark')
    BY <1>1, <2>2, <2>3, <2>4
  <2> QED
    BY <2>6, <2>7 DEF LineInv
<1> QED
  BY <1>4, <1>5, <1>6, <1>7, <1>8, LexerSteps

\* c[0] is the position, c[1] the one after the innermost open comment, and so
\* on to the outermost.
Chain(c, t, p, d, end) ==
  /\ c[0] = p /\ c[d] = end
  /\ \A k \in 1 .. d : c[k] = AfterComment(t)[c[k - 1]]

\* Inside a comment: leaving as many comments as are open gets one to the
\* position after the outermost, or nowhere.
CommentInv ==
  /\ depth > 0 => \E c : Chain(c, text, pos, depth, AfterComment(text)[start + 2])
  /\ CommentsNest

LEMMA CommentInvInit == Init => CommentInv
<1> SUFFICES ASSUME Init PROVE CommentInv
  OBVIOUS
<1>1. depth = 0 /\ start = 0 /\ phase = "parse"
  BY DEF Init
<1> QED
  BY <1>1 DEF CommentInv, CommentsNest

\* With the text used up there is no way out.
LEMMA ChainEnds ==
  ASSUME NEW t \in Seq(Chars), NEW d \in Nat \ {0}, NEW c, NEW end,
         Chain(c, t, Len(t) + 1, d, end)
  PROVE  end = 0
<1> DEFINE T == {k \in 1 .. d : c[k] = 0}
<1>1. AfterComment(t)[0] = 0 /\ AfterComment(t)[Len(t) + 1] = 0
  BY AfterCommentStep
<1>2. 1 \in T
  BY <1>1 DEF Chain
<1>3. \A k \in 1 .. d - 1 : k \in T => k + 1 \in T
  <2> SUFFICES ASSUME NEW k \in 1 .. d - 1, c[k] = 0 PROVE c[k + 1] = 0
    OBVIOUS
  <2>1. k + 1 \in 1 .. d /\ (k + 1) - 1 = k
    OBVIOUS
  <2>2. c[k + 1] = AfterComment(t)[c[k]]
    BY <2>1 DEF Chain
  <2> QED
    BY <1>1, <2>2
<1> HIDE DEF T
<1>4. 1 .. d \subseteq T
  BY <1>2, <1>3, RangeInduction
<1> QED
  BY <1>4 DEF T, Chain

LEMMA CommentInvNext == ASSUME LexOK, LexOK', CommentInv, [Next]_vars PROVE CommentInv'
<1> DEFINE AC == AfterComment(text)
           N == Len(text)
<1>0. /\ N \in Nat /\ pos \in 1 .. N + 1 /\ start \in 0 .. N /\ depth \in Nat
      /\ tokens \in Seq(TokenSet) /\ text \in Seq(Chars)
      /\ depth > 0 => start >= 1 /\ start + 2 <= pos
      /\ \A i \in DOMAIN tokens : tokens[i].at \in 1 .. Mark - 1
  BY DEF LexOK
<1>2. ASSUME Resting PROVE CommentInv'
  <2>1. UNCHANGED <<text, pos, start, depth, tokens>>
    BY <1>2 DEF Resting
  <2>2. depth' > 0 => \E c : Chain(c, text', pos', depth', AfterComment(text')[start' + 2])
    BY <2>1 DEF CommentInv
  <2>3. ASSUME phase' = "unterminated" PROVE AC[start + 2] = 0
    <3>1. CASE phase = "unterminated"
      BY <3>1 DEF CommentInv, CommentsNest
    <3>2. CASE phase # "unterminated"
      <4>1. Unterminated
        BY <2>3, <3>2 DEF Next, vars, tokenize, parse, Ignore, LineComment, BlockComment, Scan,
              Ident, String, Literal, Return, IllegalChar, Reduce, Shift, SyntaxErr, Accept,
              EndOfInput, Visit, Leave, Done, Final
      <4>2. depth \in Nat \ {0} /\ pos = N + 1
        BY <1>0, <4>1 DEF Unterminated
      <4>3. PICK c : Chain(c, text, pos, depth, AC[start + 2])
        BY <4>2 DEF CommentInv
      <4> QED
        BY <1>0, <4>2, <4>3, ChainEnds
    <3> QED
      BY <3>1, <3>2
  <2> QED
    BY <2>1, <2>2, <2>3 DEF CommentInv, CommentsNest
<1>3. ASSUME Skipping PROVE CommentInv'
  <2>1. /\ depth = 0 /\ phase' = "parse" /\ UNCHANGED <<text, start, depth, tokens>>
        /\ pos' \in pos .. N + 1
    BY <1>3 DEF Skipping
  <2> QED
    BY <1>0, <2>1 DEF CommentInv, CommentsNest
<1>4. ASSUME BlockComment PROVE CommentInv'
  <2>1. /\ depth' = 1 /\ start' = pos /\ pos' = pos + 2 /\ phase' = "parse"
        /\ UNCHANGED <<text, tokens>>
    BY <1>4, BlockCommentStep
  <2> DEFINE c == [k \in 0 .. 1 |-> IF k = 0 THEN pos + 2 ELSE AC[pos + 2]]
  <2>2. Chain(c, text, pos + 2, 1, AC[pos + 2])
    BY DEF Chain
  <2> HIDE DEF c
  <2>3. Chain(c, text', pos', depth', AfterComment(text')[start' + 2])
    BY <2>1, <2>2
  <2> QED
    BY <2>1, <2>3 DEF CommentInv, CommentsNest
<1>5. ASSUME Scan PROVE CommentInv'
  <2>1. /\ depth > 0 /\ pos \in 1 .. N /\ pos' = NextPos(pos) /\ depth' = NextDepth(pos)
        /\ phase' = "parse" /\ UNCHANGED <<text, start, tokens>>
        /\ pos' \in pos + 1 .. N + 1
    BY <1>5, ScanStep DEF Scan
  <2>2. PICK c : Chain(c, text, pos, depth, AC[start + 2])
    BY <2>1 DEF CommentInv
  <2>3. c[0] = pos /\ c[depth] = AC[start + 2] /\ \A k \in 1 .. depth : c[k] = AC[c[k - 1]]
    BY <2>2 DEF Chain
  <2>4. c[1] = AC[pos] /\ AC[pos] = After(text, AC, pos)
    <3>1. 1 \in 1 .. depth /\ 1 - 1 = 0 /\ pos \in 0 .. N + 1
      BY <1>0, <2>1
    <3>2. c[1] = AC[c[1 - 1]]
      BY <2>3, <3>1, Zenon
    <3>3. c[1] = AC[pos]
      BY <2>3, <3>1, <3>2
    <3>4. AC[pos] = After(text, AC, pos)
      BY <1>0, <3>1, AfterCommentStep
    <3> QED
      BY <3>3, <3>4
  <2>5. \E g : Chain(g, text, pos', depth', AC[start + 2])
    <3>1. CASE At(text, pos, Closer)
      <4>1. ~ At(text, pos, Opener)
        <5>1. ASSUME At(text, pos, Opener) PROVE FALSE
          <6>1. Opener = Closer
            BY <3>1, <5>1 DEF At, Opener, Closer
          <6> QED
            BY <6>1 DEF Opener, Closer
        <5> QED
          BY <5>1
      <4>2. pos' = pos + 2 /\ depth' = depth - 1
        BY <2>1, <3>1, <4>1 DEF NextPos, NextDepth
      <4> DEFINE g == [k \in 0 .. depth - 1 |-> c[k + 1]]
      <4>3. g[0] = pos + 2
        BY <1>0, <2>1, <2>4, <3>1 DEF After
      <4>4. g[depth - 1] = AC[start + 2]
        BY <1>0, <2>1, <2>3
      <4>5. \A k \in 1 .. depth - 1 : g[k] = AC[g[k - 1]]
        <5> SUFFICES ASSUME NEW k \in 1 .. depth - 1 PROVE g[k] = AC[g[k - 1]]
          OBVIOUS
        <5>1. k + 1 \in 1 .. depth /\ (k + 1) - 1 = k /\ (k - 1) + 1 = k /\ k - 1 \in 0 .. depth - 1
              /\ k \in 0 .. depth - 1
          BY <1>0, <2>1
        <5>2. c[k + 1] = AC[c[k]]
          BY <2>3, <5>1
        <5>3. g[k] = c[k + 1] /\ g[k - 1] = c[k]
          BY <5>1
        <5> QED
          BY <5>2, <5>3
      <4> HIDE DEF g
      <4>6. Chain(g, text, pos', depth', AC[start + 2])
        BY <4>2, <4>3, <4>4, <4>5 DEF Chain
      <4> QED
        BY <4>6
    <3>2. CASE ~ At(text, pos, Closer) /\ At(text, pos, Opener)
      <4>1. pos' = pos + 2 /\ depth' = depth + 1
        BY <2>1, <3>2 DEF NextPos, NextDepth
      <4>2. c[1] = AC[AC[pos + 2]]
        BY <1>0, <2>1, <2>4, <3>2 DEF After
      <4> DEFINE g == [k \in 0 .. depth + 1 |-> IF k = 0 THEN pos + 2
                                               ELSE IF k = 1 THEN AC[pos + 2] ELSE c[k - 1]]
      <4>3. g[0] = pos + 2 /\ g[1] = AC[pos + 2] /\ g[depth + 1] = AC[start + 2]
        BY <1>0, <2>1, <2>3
      <4>4. \A k \in 1 .. depth + 1 : g[k] = AC[g[k - 1]]
        <5> SUFFICES ASSUME NEW k \in 1 .. depth + 1 PROVE g[k] = AC[g[k - 1]]
          OBVIOUS
        <5>1. CASE k = 1
          BY <4>3, <5>1
        <5>2. CASE k = 2
          <6>1. g[2] = c[1]
            BY <1>0, <2>1
          <6> QED
            BY <4>2, <4>3, <5>2, <6>1
        <5>3. CASE k > 2
          <6>1. /\ k - 1 \in 1 .. depth /\ (k - 1) - 1 = k - 2 /\ k \in 0 .. depth + 1
                /\ k - 1 \in 0 .. depth + 1 /\ k # 0 /\ k # 1 /\ k - 1 # 0 /\ k - 1 # 1
            BY <1>0, <5>3
          <6>2. g[k] = c[k - 1] /\ g[k - 1] = c[k - 2]
            BY <6>1
          <6>3. c[k - 1] = AC[c[k - 2]]
            BY <2>3, <6>1
          <6> QED
            BY <6>2, <6>3
        <5> QED
          BY <1>0, <5>1, <5>2, <5>3
      <4> HIDE DEF g
      <4>5. Chain(g, text, pos', depth', AC[start + 2])
        BY <4>1, <4>3, <4>4 DEF Chain
      <4> QED
        BY <4>5
    <3>3. CASE ~ At(text, pos, Closer) /\ ~ At(text, pos, Opener)
      <4>1. pos' = pos + 1 /\ depth' = depth
        BY <2>1, <3>3 DEF NextPos, NextDepth
      <4>2. c[1] = AC[pos + 1]
        BY <1>0, <2>1, <2>4, <3>3 DEF After
      <4> DEFINE g == [k \in 0 .. depth |-> IF k = 0 THEN pos + 1 ELSE c[k]]
      <4>3. g[0] = pos + 1 /\ g[depth] = AC[start + 2]
        BY <1>0, <2>1, <2>3
      <4>4. \A k \in 1 .. depth : g[k] = AC[g[k - 1]]
        <5> SUFFICES ASSUME NEW k \in 1 .. depth PROVE g[k] = AC[g[k - 1]]
          OBVIOUS
        <5>1. CASE k = 1
          BY <1>0, <2>1, <4>2, <4>3, <5>1
        <5>2. CASE k > 1
          <6>1. k \in 0 .. depth /\ k - 1 \in 0 .. depth /\ k # 0 /\ k - 1 # 0
            BY <1>0, <5>2
          <6>2. g[k] = c[k] /\ g[k - 1] = c[k - 1]
            BY <6>1
          <6> QED
            BY <2>3, <6>2
        <5> QED
          BY <1>0, <5>1, <5>2
      <4> HIDE DEF g
      <4>5. Chain(g, text, pos', depth', AC[start + 2])
        BY <4>1, <4>3, <4>4 DEF Chain
      <4> QED
        BY <4>5
    <3> QED
      BY <3>1, <3>2, <3>3
  <2>6. ASSUME depth' = 0 PROVE AC[start + 2] = pos'
    <3>1. PICK g : Chain(g, text, pos', depth', AC[start + 2])
      BY <2>5
    <3> QED
      BY <2>6, <3>1 DEF Chain
  <2>7. Mark = start /\ start \in Nat
    BY <1>0, <2>1 DEF Mark
  <2>8. \A i \in DOMAIN tokens : ~ (tokens[i].at > start)
    BY <1>0, <2>7
  <2>9. pos' \in 1 .. pos'
    BY <1>0, <2>1
  <2> HIDE DEF AC
  <2>10. CommentsNest'
    BY <2>1, <2>6, <2>8, <2>9 DEF CommentsNest, AC
  <2> QED
    BY <2>1, <2>5, <2>10 DEF CommentInv, AC
<1>6. ASSUME NEW t, Returning(t) PROVE CommentInv'
  <2>1. /\ depth = 0 /\ phase' = "parse" /\ UNCHANGED <<text, start, depth>>
        /\ t \in TokenSet /\ t.at = pos /\ tokens' = Append(tokens, t)
        /\ pos' \in pos + 1 .. N + 1
    BY <1>6 DEF Returning
  <2>2. ASSUME start > 0
        PROVE  /\ AC[start + 2] \in 1 .. pos'
               /\ \A i \in DOMAIN tokens' : tokens'[i].at > start => tokens'[i].at >= AC[start + 2]
    <3>1. /\ AC[start + 2] \in 1 .. pos
          /\ \A i \in DOMAIN tokens : tokens[i].at > start => tokens[i].at >= AC[start + 2]
      BY <2>1, <2>2 DEF CommentInv, CommentsNest
    <3>2. ASSUME NEW i \in DOMAIN tokens', tokens'[i].at > start
          PROVE  tokens'[i].at >= AC[start + 2]
      <4>1. CASE i = Len(tokens) + 1
        <5>1. tokens'[i].at = pos
          BY <1>0, <2>1, <4>1, TokensAppend
        <5> QED
          BY <1>0, <3>1, <5>1
      <4>2. CASE i \in 1 .. Len(tokens)
        <5>1. tokens'[i] = tokens[i] /\ i \in DOMAIN tokens
          BY <1>0, <2>1, <4>2, TokensAppend
        <5> QED
          BY <3>1, <3>2, <5>1
      <4> QED
        BY <1>0, <2>1, <4>1, <4>2, TokensAppend
    <3> QED
      BY <1>0, <2>1, <3>1, <3>2
  <2> HIDE DEF AC
  <2> QED
    BY <2>1, <2>2 DEF CommentInv, CommentsNest, AC
<1> QED
  BY <1>2, <1>3, <1>4, <1>5, <1>6, LexerSteps

\* The lexer's counter and the tokens agree with the text, for every text: a
\* token's line is 1 and the newlines before it that are not inside strings.
THEOREM LinesAreCounted == FairSpec => []LinesCounted
<1>1. Init => LexOK /\ LineInv
  BY LexOKInit, LineInvInit
<1>2. LexOK /\ LineInv /\ [Next]_vars => (LexOK /\ LineInv)'
  BY LexOKNext, LineInvNext
<1>3. LineInv => LinesCounted
  BY DEF LineInv, LinesCounted, Lines, NewlinesIn, Newlines
<1> QED
  BY <1>1, <1>2, <1>3, PTL DEF FairSpec

\* The loop of BLOCK_COMMENT finds, for every text, the end that recursive
\* descent finds, and raises exactly if there is none.
THEOREM CommentsAreNested == FairSpec => []CommentsNest
<1>1. Init => LexOK /\ CommentInv
  BY LexOKInit, CommentInvInit
<1>2. LexOK /\ CommentInv /\ [Next]_vars => (LexOK /\ CommentInv)'
  BY LexOKNext, CommentInvNext
<1>3. CommentInv => CommentsNest
  BY DEF CommentInv
<1> QED
  BY <1>1, <1>2, <1>3, PTL DEF FairSpec

----------------------------------------------------------------------------
(***************************************************************************)
(* Parentheses.                                                            *)
(***************************************************************************)

\* What a token adds to the nesting.
Opens(t) == IF t.type = "(" THEN 1 ELSE IF t.type = ")" THEN -1 ELSE 0

\* Tokens of a type among s[lo], ..., s[hi].
Of(s, lo, hi, type) == {j \in lo .. hi : s[j].type = type}

LEMMA OfSplit ==
  ASSUME NEW s, NEW type, NEW lo \in Nat, NEW m \in Nat, NEW hi \in Nat,
         lo <= m + 1, m <= hi
  PROVE  /\ IsFiniteSet(Of(s, lo, hi, type))
         /\ Cardinality(Of(s, lo, hi, type)) \in Nat
         /\ Cardinality(Of(s, lo, hi, type))
              = Cardinality(Of(s, lo, m, type)) + Cardinality(Of(s, m + 1, hi, type))
<1> DEFINE A == Of(s, lo, m, type)
           B == Of(s, m + 1, hi, type)
           C == Of(s, lo, hi, type)
<1>1. IsFiniteSet(lo .. hi)
  BY FS_Interval
<1>2. A \subseteq lo .. hi /\ B \subseteq lo .. hi /\ C \subseteq lo .. hi
  BY DEF Of
<1>3. IsFiniteSet(A) /\ IsFiniteSet(B) /\ IsFiniteSet(C)
  BY <1>1, <1>2, FS_Subset
<1>4. C = A \cup B
  BY DEF Of
<1>5. A \cap B = {}
  BY DEF Of
<1> HIDE DEF A, B, C
<1>6. Cardinality(C) = Cardinality(A) + Cardinality(B) - Cardinality(A \cap B)
  BY <1>3, <1>4, FS_Union
<1>7. Cardinality(A) \in Nat /\ Cardinality(B) \in Nat /\ Cardinality(C) \in Nat
  BY <1>3, FS_CardinalityType
<1>8. Cardinality(A \cap B) = 0
  BY <1>5, FS_EmptySet
<1> QED
  BY <1>3, <1>6, <1>7, <1>8 DEF A, B, C

LEMMA OfOne ==
  ASSUME NEW s, NEW type, NEW i \in Nat
  PROVE  Cardinality(Of(s, i, i, type)) = IF s[i].type = type THEN 1 ELSE 0
<1>1. CASE s[i].type = type
  <2>1. Of(s, i, i, type) = {i}
    BY <1>1 DEF Of
  <2> QED
    BY <1>1, <2>1, FS_Singleton
<1>2. CASE s[i].type # type
  <2>1. Of(s, i, i, type) = {}
    BY <1>2 DEF Of
  <2> QED
    BY <1>2, <2>1, FS_EmptySet
<1> QED
  BY <1>1, <1>2

\* The nesting of a range is that of its two parts.
LEMMA NestingSplit ==
  ASSUME NEW s, NEW lo \in Nat, NEW m \in Nat, NEW hi \in Nat, lo <= m + 1, m <= hi
  PROVE  /\ Nesting(s, lo, hi) \in Int
         /\ Nesting(s, lo, hi) = Nesting(s, lo, m) + Nesting(s, m + 1, hi)
<1>1. lo <= hi + 1 /\ m + 1 \in Nat /\ m + 1 <= hi + 1
  OBVIOUS
<1>2. \A type : /\ Cardinality(Of(s, lo, hi, type)) \in Nat
                /\ Cardinality(Of(s, lo, hi, type))
                    = Cardinality(Of(s, lo, m, type)) + Cardinality(Of(s, m + 1, hi, type))
  BY OfSplit
<1>3. \A type : Cardinality(Of(s, lo, m, type)) \in Nat
  BY OfSplit, m <= m
<1>4. \A type : Cardinality(Of(s, m + 1, hi, type)) \in Nat
  <2>1. hi <= hi
    OBVIOUS
  <2> QED
    BY <1>1, <2>1, OfSplit
<1>5. \A a, b : Nesting(s, a, b) = Cardinality(Of(s, a, b, "(")) - Cardinality(Of(s, a, b, ")"))
  BY DEF Nesting, Of
<1> QED
  BY <1>2, <1>3, <1>4, <1>5

LEMMA NestingOne ==
  ASSUME NEW s, NEW i \in Nat
  PROVE  Nesting(s, i, i) = Opens(s[i])
<1>1. Nesting(s, i, i) = Cardinality(Of(s, i, i, "(")) - Cardinality(Of(s, i, i, ")"))
  BY DEF Nesting, Of
<1> QED
  BY <1>1, OfOne DEF Opens

LEMMA NestingNone ==
  ASSUME NEW s, NEW lo \in Nat, NEW hi \in Int, hi < lo
  PROVE  Nesting(s, lo, hi) = 0
<1>1. Of(s, lo, hi, "(") = {} /\ Of(s, lo, hi, ")") = {}
  BY DEF Of
<1>2. Nesting(s, lo, hi) = Cardinality(Of(s, lo, hi, "(")) - Cardinality(Of(s, lo, hi, ")"))
  BY DEF Nesting, Of
<1> QED
  BY <1>1, <1>2, FS_EmptySet

\* One more token.
LEMMA NestingStep ==
  ASSUME NEW s, NEW lo \in Nat \ {0}, NEW i \in Nat \ {0}, lo <= i
  PROVE  /\ Nesting(s, lo, i - 1) \in Int
         /\ Nesting(s, lo, i) = Nesting(s, lo, i - 1) + Opens(s[i])
<1>1. i - 1 \in Nat /\ (i - 1) + 1 = i /\ lo <= (i - 1) + 1 /\ i - 1 <= i
  OBVIOUS
<1>2. Nesting(s, lo, i) = Nesting(s, lo, i - 1) + Nesting(s, (i - 1) + 1, i)
  <2>1. \A m \in Nat : lo <= m + 1 /\ m <= i =>
          Nesting(s, lo, i) = Nesting(s, lo, m) + Nesting(s, m + 1, i)
    BY NestingSplit
  <2> QED
    BY <1>1, <2>1, Zenon
<1>3. Nesting(s, lo, i - 1) \in Int
  BY <1>1, NestingSplit, i - 1 <= i - 1
<1>4. Nesting(s, (i - 1) + 1, i) = Opens(s[i])
  BY <1>1, NestingOne
<1> QED
  BY <1>2, <1>3, <1>4

\* Only the tokens of the range matter.
LEMMA NestingLocal ==
  ASSUME NEW s, NEW t, NEW lo \in Nat, NEW hi \in Int, \A j \in lo .. hi : s[j] = t[j]
  PROVE  Nesting(s, lo, hi) = Nesting(t, lo, hi)
BY DEF Nesting

(***************************************************************************)
(* The parser's stack and its steps.                                       *)
(***************************************************************************)

\* What is left after the last items are replaced by one.
LEMMA PopPush ==
  ASSUME NEW S, NEW s \in Seq(S), NEW k \in 0 .. Len(s), NEW e
  PROVE  LET u == Append(SubSeq(s, 1, k), e)
         IN  /\ u \in Seq(S \cup {e}) /\ Len(u) = k + 1
             /\ u[k + 1] = e /\ \A i \in 1 .. k : u[i] = s[i]
<1> DEFINE p == SubSeq(s, 1, k)
<1>1. Len(s) \in Nat /\ k \in Nat /\ k <= Len(s)
  OBVIOUS
<1>2. p \in Seq(S) /\ Len(p) = k /\ \A i \in 1 .. k : p[i] = s[i]
  BY <1>1
<1>3. p \in Seq(S \cup {e})
  <2>1. p \in [1 .. k -> S]
    BY <1>2, LenProperties
  <2>2. p \in [1 .. k -> S \cup {e}]
    BY <2>1
  <2> QED
    BY <1>1, <2>2, SeqDef
<1> HIDE DEF p
<1> DEFINE u == Append(p, e)
<1>4. u \in Seq(S \cup {e}) /\ Len(u) = k + 1 /\ u[k + 1] = e
  BY <1>1, <1>2, <1>3, AppendProperties
<1>5. \A i \in 1 .. k : u[i] = p[i]
  BY <1>1, <1>2, <1>3, AppendProperties
<1> QED
  BY <1>2, <1>4, <1>5 DEF p

LEMMA EndsOne ==
  ASSUME Len(stack) \in Nat
  PROVE  Ends(1, {<<"IDENT">>}) <=> Len(stack) >= 1 /\ stack[Len(stack)].type = "IDENT"
<1>1. Len(stack) - 1 + 1 = Len(stack) /\ 1 - 1 + 1 = 1
  BY \A d \in Nat : d - 1 + 1 = d
<1>2. TopTypes(1) = [i \in 1 .. 1 |-> Top(1 - i + 1).type]
  BY DEF TopTypes
<1>3. TopTypes(1)[1] = stack[Len(stack)].type
  BY <1>1, <1>2 DEF Top
<1>4. TopTypes(1) = <<"IDENT">> <=> TopTypes(1)[1] = "IDENT"
  BY <1>2
<1> QED
  BY <1>3, <1>4 DEF Ends

\* The types of the last three items.
LastThree(a, b, c) ==
  /\ Len(stack) >= 3
  /\ stack[Len(stack) - 2].type = a /\ stack[Len(stack) - 1].type = b
  /\ stack[Len(stack)].type = c

LEMMA EndsThree ==
  ASSUME Len(stack) \in Nat, NEW a, NEW b, NEW c
  PROVE  (Len(stack) >= 3 /\ TopTypes(3) = <<a, b, c>>) <=> LastThree(a, b, c)
<1> DEFINE d == Len(stack)
<1>1. TopTypes(3) = [i \in 1 .. 3 |-> stack[d - (3 - i + 1) + 1].type]
  BY DEF TopTypes, Top
<1>2. /\ d - (3 - 1 + 1) + 1 = d - 2 /\ d - (3 - 2 + 1) + 1 = d - 1
      /\ d - (3 - 3 + 1) + 1 = d
  BY \A n \in Nat : /\ n - (3 - 1 + 1) + 1 = n - 2 /\ n - (3 - 2 + 1) + 1 = n - 1
                    /\ n - (3 - 3 + 1) + 1 = n
<1>3. /\ TopTypes(3)[1] = stack[d - 2].type /\ TopTypes(3)[2] = stack[d - 1].type
      /\ TopTypes(3)[3] = stack[d].type
  BY <1>1, <1>2
<1>4. TopTypes(3) = <<a, b, c>> <=> TopTypes(3)[1] = a /\ TopTypes(3)[2] = b /\ TopTypes(3)[3] = c
  BY <1>1
<1> QED
  BY <1>3, <1>4 DEF LastThree

LEMMA ClosedMeans ==
  ASSUME Len(stack) \in Nat
  PROVE  Closed <=> LastThree("(", "expr", ")")
BY EndsThree DEF Closed, Ends

LEMMA PendingMeans ==
  ASSUME Len(stack) \in Nat
  PROVE  Pending <=> \E op \in Operators : LastThree("expr", op, "expr")
BY EndsThree DEF Pending, Ends

ReduceIdent ==
  /\ Len(stack) >= 1 /\ stack[Len(stack)].type = "IDENT"
  /\ stack' = Append(SubSeq(stack, 1, Len(stack) - 1), Leaf(stack[Len(stack)]))
ReduceParens ==
  /\ LastThree("(", "expr", ")")
  /\ stack' = Append(SubSeq(stack, 1, Len(stack) - 3), stack[Len(stack) - 1])
ReduceBinOp ==
  /\ \E op \in Operators : LastThree("expr", op, "expr")
  /\ ReduceFirst(stack[Len(stack) - 1].type, Ahead)
  /\ stack' = Append(SubSeq(stack, 1, Len(stack) - 3),
                     BinOp(stack[Len(stack) - 1].type, stack[Len(stack) - 2], stack[Len(stack)]))

LEMMA ReduceCases ==
  ASSUME Len(stack) \in Nat, Reduce
  PROVE  /\ phase = "parse" /\ look # << >> /\ phase' = phase
         /\ UNCHANGED <<look, tokens, agenda, visits>>
         /\ ReduceIdent \/ ReduceParens \/ ReduceBinOp
<1>1. Top(1) = stack[Len(stack)] /\ Top(2) = stack[Len(stack) - 1] /\ Top(3) = stack[Len(stack) - 2]
  <2>1. Len(stack) - 1 + 1 = Len(stack) /\ Len(stack) - 2 + 1 = Len(stack) - 1
        /\ Len(stack) - 3 + 1 = Len(stack) - 2
    BY \A d \in Nat : d - 1 + 1 = d /\ d - 2 + 1 = d - 1 /\ d - 3 + 1 = d - 2
  <2> QED
    BY <2>1 DEF Top
<1>2. \/ Ends(1, {<<"IDENT">>}) /\ Replace(1, Leaf(Top(1)))
      \/ Closed /\ Replace(3, Top(2))
      \/ /\ Pending /\ ReduceFirst(Top(2).type, Ahead)
         /\ Replace(3, BinOp(Top(2).type, Top(3), Top(1)))
  BY DEF Reduce
<1>3. ReduceIdent \/ ReduceParens \/ ReduceBinOp
  BY <1>1, <1>2, EndsOne, ClosedMeans, PendingMeans
     DEF Replace, ReduceIdent, ReduceParens, ReduceBinOp
<1> QED
  BY <1>3 DEF Reduce, Parsing, lexer, visitor

\* A step that moves no token. The phase stays or changes by one of these.
Quiet ==
  /\ UNCHANGED <<look, stack, tokens>>
  /\ \/ UNCHANGED phase
     \/ phase = "parse" /\ phase' \in {"unterminated", "illegal"}
     \/ SyntaxErr \/ Accept \/ EndOfInput \/ Leave

LEMMA ParserSteps ==
  ASSUME LexOK, [Next]_vars
  PROVE  Quiet \/ Reduce \/ Shift \/ \E t : Returning(t)
<1>1. CASE UNCHANGED vars
  BY <1>1 DEF vars, Quiet
<1>2. CASE Unterminated \/ IllegalChar
  BY <1>2 DEF Unterminated, IllegalChar, Lexing, lexer, parser, Quiet
<1>3. CASE SyntaxErr \/ Accept \/ EndOfInput \/ Visit \/ Leave \/ Done
  BY <1>3 DEF SyntaxErr, Accept, EndOfInput, Visit, Leave, Done, lexer, parser, vars, Quiet
<1>4. CASE Ignore \/ LineComment \/ BlockComment \/ Scan
  BY <1>4 DEF Ignore, LineComment, BlockComment, Scan, parser, Quiet
<1>5. CASE Ident \/ Literal \/ String
  BY <1>5, IdentReturns, LiteralReturns, StringReturns
<1> QED
  BY <1>1, <1>2, <1>3, <1>4, <1>5 DEF Next, tokenize, parse

(***************************************************************************)
(* Syntax errors.                                                          *)
(***************************************************************************)

\* The tokens that the parser has shifted.
Shifted == Len(tokens) - Len(look)

\* What the parser can tell from its stack: whether an operand has just ended,
\* and how many parentheses are open.
AfterOperand == stack # << >> /\ stack[Len(stack)].type \notin Operators \cup {"("}

LookOK == look = << >> \/ (tokens # << >> /\ look = <<tokens[Len(tokens)]>>)

\* The stack says of the tokens what Viable asks; the last token is viable, or
\* not, as the phase says.
ErrInv ==
  /\ LookOK
  /\ \E S : stack \in Seq(S)
  /\ \A i \in 1 .. Shifted : ViableAt(tokens, i)
  /\ Nesting(stack, 1, Len(stack)) = Nesting(tokens, 1, Shifted)
  /\ AfterOperand <=> Shifted > 0 /\ Operand(tokens[Shifted])
  /\ phase = "syntax" => look # << >> /\ ~ViableAt(tokens, Len(tokens))
  /\ phase = "visit" => look # << >> /\ ViableAt(tokens, Len(tokens))
  /\ phase = "end" => look = << >>

\* With a lookahead, the tokens before it are shifted; without, all are.
LEMMA ShiftedIs ==
  ASSUME tokens \in Seq(TokenSet), LookOK
  PROVE  /\ Shifted \in Nat /\ Shifted <= Len(tokens)
         /\ look = << >> => Shifted = Len(tokens)
         /\ look # << >> => /\ Len(tokens) \in Nat \ {0} /\ Shifted = Len(tokens) - 1
                            /\ look[1] = tokens[Len(tokens)] /\ look[1] \in TokenSet
                            /\ Len(look) = 1
<1>1. Len(tokens) \in Nat
  OBVIOUS
<1>2. CASE look = << >>
  <2>1. Len(look) = 0
    BY <1>2
  <2> QED
    BY <1>1, <1>2, <2>1 DEF Shifted
<1>3. CASE look # << >>
  <2>1. tokens # << >> /\ look = <<tokens[Len(tokens)]>>
    BY <1>3 DEF LookOK
  <2>2. Len(tokens) \in Nat \ {0}
    BY <2>1, EmptySeq
  <2>3. tokens[Len(tokens)] \in TokenSet
    BY <2>2, ElementOfSeq
  <2>4. Len(look) = 1 /\ look[1] = tokens[Len(tokens)]
    BY <2>1
  <2> QED
    BY <1>3, <2>2, <2>3, <2>4 DEF Shifted
<1> QED
  BY <1>2, <1>3

LEMMA StackLen == ErrInv => Len(stack) \in Nat /\ (stack = << >> <=> Len(stack) = 0)
BY EmptySeq DEF ErrInv

\* How many parentheses are open, as Expected asks it.
LEMMA OpenOnStack ==
  ASSUME NEW S, stack \in Seq(S)
  PROVE  /\ Nesting(stack, 1, Len(stack)) \in Int
         /\ OnStack("(") > OnStack(")") <=> Nesting(stack, 1, Len(stack)) > 0
<1>1. DOMAIN stack = 1 .. Len(stack) /\ Len(stack) \in Nat
  OBVIOUS
<1>2. \A type : OnStack(type) = Cardinality(Of(stack, 1, Len(stack), type))
  BY <1>1 DEF OnStack, Of
<1>3. \A type : OnStack(type) \in Nat
  <2>1. 1 <= Len(stack) + 1 /\ Len(stack) <= Len(stack)
    BY <1>1
  <2> QED
    BY <1>1, <1>2, <2>1, OfSplit
<1>4. Nesting(stack, 1, Len(stack)) = OnStack("(") - OnStack(")")
  BY <1>2 DEF Nesting, Of
<1> QED
  BY <1>3, <1>4

\* A token is expected exactly if it is viable.
LEMMA ExpectedViable ==
  ASSUME LexOK, ErrInv, Parsing
  PROVE  Ahead \in Expected <=> ViableAt(tokens, Len(tokens))
<1> DEFINE n == Len(tokens)
           t == tokens[n]
<1>1. /\ n \in Nat \ {0} /\ Shifted = n - 1 /\ look[1] = t /\ t.type \in TokenTypes
  BY ShiftedIs DEF LexOK, ErrInv, Parsing, TokenSet
<1> SUFFICES Ahead \in Expected <=> ViableAt(tokens, n)
  OBVIOUS
<1> HIDE DEF n, t
<1>2. Nesting(tokens, 1, n - 1) \in Int /\ Nesting(tokens, 1, n) = Nesting(tokens, 1, n - 1) + Opens(t)
  <2>1. 1 \in Nat \ {0} /\ 1 <= n
    BY <1>1
  <2> QED
    BY <1>1, <2>1, NestingStep DEF t
<1>3. Nesting(stack, 1, Len(stack)) = Nesting(tokens, 1, n - 1)
  BY <1>1 DEF ErrInv
<1>4. OnStack("(") > OnStack(")") <=> Nesting(tokens, 1, n - 1) > 0
  BY <1>3, OpenOnStack DEF ErrInv
<1>5. Nesting(tokens, 1, n - 1) >= 0
  <2>1. CASE n = 1
    BY <2>1, NestingNone
  <2>2. CASE n > 1
    <3>1. n - 1 \in 1 .. Shifted
      BY <1>1, <2>2
    <3> QED
      BY <3>1 DEF ErrInv, ViableAt
  <2> QED
    BY <1>1, <2>1, <2>2
<1>6. Len(stack) \in Nat /\ (stack = << >> <=> Len(stack) = 0)
  BY StackLen
<1>7. Top(1) = stack[Len(stack)]
  BY <1>6, \A d \in Nat : d - 1 + 1 = d DEF Top
<1>8. AfterOperand <=> n > 1 /\ Operand(tokens[n - 1])
  BY <1>1 DEF ErrInv
<1>9. CASE AfterOperand
  <2>1. Expected = Operators \cup IF Nesting(tokens, 1, n - 1) > 0 THEN {")"} ELSE {";"}
    BY <1>4, <1>7, <1>9 DEF Expected, AfterOperand
  <2>2. /\ t.type \in Operators => Opens(t) = 0
        /\ t.type = ";" => Opens(t) = 0
        /\ t.type = ")" => Opens(t) = -1
    BY DEF Opens, Operators
  <2>3. ViableAt(tokens, n) <=>
          /\ t.type # "STRING" /\ Nesting(tokens, 1, n) >= 0
          /\ t.type \in Operators \cup {")", ";"}
          /\ t.type = ";" => Nesting(tokens, 1, n) = 0
    BY <1>1, <1>8, <1>9 DEF ViableAt, t
  <2>4. Ahead = t.type
    BY <1>1 DEF Ahead
  <2>5. CASE t.type \in Operators
    <3>1. Nesting(tokens, 1, n) >= 0 /\ t.type # "STRING" /\ t.type # ";"
      <4>1. Opens(t) = 0 /\ t.type # "STRING" /\ t.type # ";"
        BY <2>2, <2>5 DEF Operators
      <4>2. Opens(t) = 0
        BY <4>1
      <4>3. Nesting(tokens, 1, n) >= 0
        BY <1>2, <1>5, <4>2
      <4> QED
        BY <4>1, <4>3
    <3>2. ViableAt(tokens, n)
      BY <2>3, <2>5, <3>1
    <3> QED
      BY <2>1, <2>4, <2>5, <3>2
  <2>6. CASE t.type = ")"
    <3>1. Nesting(tokens, 1, n) >= 0 <=> Nesting(tokens, 1, n - 1) > 0
      BY <1>2, <2>2, <2>6
    <3>2. ViableAt(tokens, n) <=> Nesting(tokens, 1, n) >= 0
      BY <2>3, <2>6
    <3>3. Ahead \in Expected <=> Nesting(tokens, 1, n - 1) > 0
      BY <2>1, <2>4, <2>6 DEF Operators
    <3> QED
      BY <3>1, <3>2, <3>3, Zenon
  <2>7. CASE t.type = ";"
    <3>1. Nesting(tokens, 1, n) >= 0 /\ (Nesting(tokens, 1, n) = 0 <=> ~(Nesting(tokens, 1, n - 1) > 0))
      <4>1. Opens(t) = 0
        BY <2>2, <2>7
      <4> QED
        BY <1>2, <1>5, <4>1
    <3>2. ViableAt(tokens, n) <=> Nesting(tokens, 1, n) = 0
      BY <2>3, <2>7, <3>1
    <3>3. Ahead \in Expected <=> ~(Nesting(tokens, 1, n - 1) > 0)
      BY <2>1, <2>4, <2>7 DEF Operators
    <3> QED
      BY <3>1, <3>2, <3>3, Zenon
  <2>8. CASE t.type \notin Operators \cup {")", ";"}
    BY <2>1, <2>3, <2>4, <2>8
  <2> QED
    BY <2>5, <2>6, <2>7, <2>8
<1>10. CASE ~AfterOperand
  <2>1. Expected = {"IDENT", "("}
    BY <1>7, <1>10 DEF Expected, AfterOperand
  <2>2. ViableAt(tokens, n) <=>
          /\ t.type # "STRING" /\ Nesting(tokens, 1, n) >= 0
          /\ t.type \notin Operators \cup {")", ";"}
    BY <1>1, <1>8, <1>10 DEF ViableAt, t
  <2>3. t.type \in {"IDENT", "("} => Opens(t) \in {0, 1}
    BY DEF Opens
  <2>4. Ahead = t.type
    BY <1>1 DEF Ahead
  <2>5. t.type \in {"IDENT", "("} <=> t.type # "STRING" /\ t.type \notin Operators \cup {")", ";"}
    BY <1>1 DEF TokenTypes, Literals, Operators
  <2> QED
    <3>1. t.type \in {"IDENT", "("} => Nesting(tokens, 1, n) >= 0
      BY <1>2, <1>5, <2>3
    <3>2. ViableAt(tokens, n) <=> t.type \in {"IDENT", "("} /\ Nesting(tokens, 1, n) >= 0
      BY <2>2, <2>5, Zenon
    <3> QED
      BY <2>1, <2>4, <3>1, <3>2, Zenon
<1> QED
  BY <1>9, <1>10

\* More tokens do not change what is viable.
LEMMA ViableLocal ==
  ASSUME NEW s, NEW t, NEW n \in Nat, \A j \in 1 .. n : s[j] = t[j], NEW i \in 1 .. n
  PROVE  ViableAt(s, i) <=> ViableAt(t, i)
<1>1. \A j \in 1 .. i : s[j] = t[j]
  OBVIOUS
<1>2. Nesting(s, 1, i) = Nesting(t, 1, i)
  BY <1>1, NestingLocal
<1>3. s[i] = t[i] /\ (i > 1 => s[i - 1] = t[i - 1])
  OBVIOUS
<1>4. (i > 1 /\ Operand(s[i - 1])) <=> (i > 1 /\ Operand(t[i - 1]))
  BY <1>3
<1>5. ASSUME ViableAt(s, i) PROVE ViableAt(t, i)
  <2>1. t[i].type # "STRING" /\ Nesting(t, 1, i) >= 0
    BY <1>2, <1>3, <1>5 DEF ViableAt
  <2>2. (i > 1 /\ Operand(t[i - 1])) <=> t[i].type \in Operators \cup {")", ";"}
    BY <1>3, <1>4, <1>5 DEF ViableAt
  <2>3. t[i].type = ";" => Nesting(t, 1, i) = 0
    BY <1>2, <1>3, <1>5 DEF ViableAt
  <2> QED
    BY <2>1, <2>2, <2>3 DEF ViableAt
<1>6. ASSUME ViableAt(t, i) PROVE ViableAt(s, i)
  <2>1. s[i].type # "STRING" /\ Nesting(s, 1, i) >= 0
    BY <1>2, <1>3, <1>6 DEF ViableAt
  <2>2. (i > 1 /\ Operand(s[i - 1])) <=> s[i].type \in Operators \cup {")", ";"}
    BY <1>3, <1>4, <1>6 DEF ViableAt
  <2>3. s[i].type = ";" => Nesting(s, 1, i) = 0
    BY <1>2, <1>3, <1>6 DEF ViableAt
  <2> QED
    BY <2>1, <2>2, <2>3 DEF ViableAt
<1> QED
  BY <1>5, <1>6

LEMMA ErrInvInit == Init => ErrInv
<1> SUFFICES ASSUME Init PROVE ErrInv
  OBVIOUS
<1>1. look = << >> /\ stack = << >> /\ tokens = << >> /\ phase = "parse"
  BY DEF Init
<1>2. Len(stack) = 0 /\ Shifted = 0
  BY <1>1 DEF Shifted
<1>3. Nesting(stack, 1, 0) = 0 /\ Nesting(tokens, 1, 0) = 0
  BY NestingNone
<1>4. stack \in Seq({})
  BY <1>1
<1>5. \A i \in 1 .. Shifted : ViableAt(tokens, i)
  BY <1>2
<1>6. AfterOperand <=> Shifted > 0 /\ Operand(tokens[Shifted])
  BY <1>1, <1>2 DEF AfterOperand
<1>7. Nesting(stack, 1, Len(stack)) = Nesting(tokens, 1, Shifted)
  BY <1>2, <1>3
<1>8. \E S : stack \in Seq(S)
  BY <1>4
<1>9. LookOK
  BY <1>1, Zenon DEF LookOK
<1>10. phase # "syntax" /\ phase # "visit" /\ phase # "end"
  BY <1>1
<1> QED
  BY <1>5, <1>6, <1>7, <1>8, <1>9, <1>10, Zenon DEF ErrInv

\* A reduction keeps the number of open parentheses and that an operand ended.
LEMMA ReduceKeeps ==
  ASSUME ErrInv, Reduce
  PROVE  /\ \E S : stack' \in Seq(S)
         /\ Nesting(stack', 1, Len(stack')) = Nesting(stack, 1, Len(stack))
         /\ AfterOperand /\ AfterOperand'
<1> DEFINE d == Len(stack)
<1>1. PICK S : stack \in Seq(S)
  BY DEF ErrInv
<1>2. d \in Nat
  BY <1>1
<1> HIDE DEF d
<1>3. ReduceIdent \/ ReduceParens \/ ReduceBinOp
  BY <1>2, ReduceCases DEF d
<1>4. ASSUME NEW k \in 0 .. d - 1, NEW e, e.type = "expr", d >= 1,
             stack' = Append(SubSeq(stack, 1, k), e),
             stack[d].type \notin Operators \cup {"("},
             Nesting(stack, 1, d) = Nesting(stack, 1, k)
      PROVE  /\ \E R : stack' \in Seq(R)
             /\ Nesting(stack', 1, Len(stack')) = Nesting(stack, 1, Len(stack))
             /\ AfterOperand /\ AfterOperand'
  <2>1. k \in 0 .. Len(stack)
    BY <1>2 DEF d
  <2>2. /\ stack' \in Seq(S \cup {e}) /\ Len(stack') = k + 1
        /\ stack'[k + 1] = e /\ \A i \in 1 .. k : stack'[i] = stack[i]
    BY <1>1, <1>4, <2>1, PopPush
  <2>3. k + 1 \in Nat \ {0} /\ (k + 1) - 1 = k /\ 1 \in Nat \ {0} /\ 1 <= k + 1 /\ k \in Int
    BY <2>1
  <2>4. Nesting(stack', 1, k) = Nesting(stack, 1, k)
    BY <2>2, <2>3, NestingLocal
  <2>5. /\ Nesting(stack', 1, (k + 1) - 1) \in Int
        /\ Nesting(stack', 1, k + 1) = Nesting(stack', 1, (k + 1) - 1) + Opens(stack'[k + 1])
    BY <2>3, NestingStep
  <2>6. Opens(stack'[k + 1]) = 0
    BY <1>4, <2>2 DEF Opens
  <2>7. Nesting(stack', 1, k + 1) = Nesting(stack, 1, k)
    BY <2>3, <2>4, <2>5, <2>6
  <2>8. AfterOperand
    BY <1>1, <1>4, EmptySeq DEF AfterOperand, d
  <2>9. stack' # << >>
    BY <2>2, <2>3, EmptySeq
  <2>10. stack'[Len(stack')].type \notin Operators \cup {"("}
    BY <1>4, <2>2 DEF Operators
  <2>11. AfterOperand'
    BY <2>9, <2>10 DEF AfterOperand
  <2> QED
    BY <1>4, <2>2, <2>7, <2>8, <2>11 DEF d
<1>5. ASSUME NEW i \in 1 .. d
      PROVE  /\ Nesting(stack, 1, i - 1) \in Int
             /\ Nesting(stack, 1, i) = Nesting(stack, 1, i - 1) + Opens(stack[i])
  <2>1. i \in Nat \ {0} /\ 1 \in Nat \ {0} /\ 1 <= i
    BY <1>2
  <2> QED
    BY <2>1, NestingStep
<1>6. CASE ReduceIdent
  <2>1. d >= 1 /\ stack[d].type = "IDENT" /\ stack' = Append(SubSeq(stack, 1, d - 1), Leaf(stack[d]))
    BY <1>6 DEF ReduceIdent, d
  <2>2. d \in 1 .. d /\ d - 1 \in 0 .. d - 1
    BY <1>2, <2>1
  <2>3. Opens(stack[d]) = 0 /\ stack[d].type \notin Operators \cup {"("}
    BY <2>1 DEF Opens, Operators
  <2>4. Nesting(stack, 1, d) = Nesting(stack, 1, d - 1)
    BY <1>5, <2>2, <2>3
  <2>5. Leaf(stack[d]).type = "expr"
    BY DEF Leaf
  <2> QED
    BY <1>4, <2>1, <2>2, <2>3, <2>4, <2>5
<1>7. ASSUME d >= 3, Opens(stack[d - 2]) + Opens(stack[d - 1]) + Opens(stack[d]) = 0
      PROVE  Nesting(stack, 1, d) = Nesting(stack, 1, d - 3)
  <2>1. d \in 1 .. d /\ d - 1 \in 1 .. d /\ d - 2 \in 1 .. d /\ (d - 1) - 1 = d - 2 /\ (d - 2) - 1 = d - 3
    BY <1>2, <1>7
  <2>2. /\ Nesting(stack, 1, d - 1) \in Int
        /\ Nesting(stack, 1, d) = Nesting(stack, 1, d - 1) + Opens(stack[d])
    BY <1>5, <2>1
  <2>3. /\ Nesting(stack, 1, d - 2) \in Int
        /\ Nesting(stack, 1, d - 1) = Nesting(stack, 1, d - 2) + Opens(stack[d - 1])
    BY <1>5, <2>1
  <2>4. /\ Nesting(stack, 1, d - 3) \in Int
        /\ Nesting(stack, 1, d - 2) = Nesting(stack, 1, d - 3) + Opens(stack[d - 2])
    BY <1>5, <2>1
  <2>5. Opens(stack[d]) \in Int /\ Opens(stack[d - 1]) \in Int /\ Opens(stack[d - 2]) \in Int
    BY DEF Opens
  <2> QED
    BY <1>7, <2>2, <2>3, <2>4, <2>5
<1>8. CASE ReduceParens
  <2>1. /\ d >= 3 /\ stack[d - 2].type = "(" /\ stack[d - 1].type = "expr" /\ stack[d].type = ")"
        /\ stack' = Append(SubSeq(stack, 1, d - 3), stack[d - 1])
    BY <1>8 DEF ReduceParens, LastThree, d
  <2>2. Opens(stack[d - 2]) = 1 /\ Opens(stack[d - 1]) = 0 /\ Opens(stack[d]) = -1
    BY <2>1 DEF Opens
  <2>3. stack[d].type \notin Operators \cup {"("}
    BY <2>1 DEF Operators
  <2>4. Nesting(stack, 1, d) = Nesting(stack, 1, d - 3)
    BY <1>7, <2>1, <2>2
  <2>5. d - 3 \in 0 .. d - 1 /\ d >= 1
    BY <1>2, <2>1
  <2> QED
    BY <1>4, <2>1, <2>3, <2>4, <2>5
<1>9. CASE ReduceBinOp
  <2> DEFINE e == BinOp(stack[d - 1].type, stack[d - 2], stack[d])
  <2>1. /\ d >= 3 /\ stack[d - 2].type = "expr" /\ stack[d - 1].type \in Operators
        /\ stack[d].type = "expr" /\ stack' = Append(SubSeq(stack, 1, d - 3), e)
    BY <1>9 DEF ReduceBinOp, LastThree, d
  <2>2. Opens(stack[d - 2]) = 0 /\ Opens(stack[d - 1]) = 0 /\ Opens(stack[d]) = 0
    BY <2>1 DEF Opens, Operators
  <2>3. stack[d].type \notin Operators \cup {"("}
    BY <2>1 DEF Operators
  <2>4. Nesting(stack, 1, d) = Nesting(stack, 1, d - 3)
    BY <1>7, <2>1, <2>2
  <2>5. d - 3 \in 0 .. d - 1 /\ d >= 1
    BY <1>2, <2>1
  <2>6. e.type = "expr"
    BY DEF BinOp
  <2> QED
    BY <1>4, <2>1, <2>3, <2>4, <2>5, <2>6
<1> QED
  BY <1>3, <1>6, <1>8, <1>9

\* A shift does with the stack what the token does with the nesting.
LEMMA ShiftKeeps ==
  ASSUME LexOK, ErrInv, Shift
  PROVE  ErrInv'
<1> DEFINE n == Len(tokens)
           d == Len(stack)
           t == tokens[n]
<1>1. Parsing /\ Ahead \in Expected /\ Ahead # ";" /\ UNCHANGED <<phase, tokens>>
      /\ stack' = Append(stack, look[1]) /\ look' = << >>
  BY DEF Shift, lexer
<1>2. /\ n \in Nat \ {0} /\ Shifted = n - 1 /\ look[1] = t /\ tokens' = tokens
      /\ phase = "parse" /\ phase' = "parse"
  BY <1>1, ShiftedIs DEF LexOK, ErrInv, Parsing
<1>3. Shifted' = n
  <2>1. Len(look') = 0
    BY <1>1
  <2> QED
    BY <1>2, <2>1, \A m \in Nat : m - 0 = m DEF Shifted
<1>4. ViableAt(tokens, n)
  BY <1>1, ExpectedViable
<1>5. \A i \in 1 .. n : ViableAt(tokens, i)
  <2> SUFFICES ASSUME NEW i \in 1 .. n PROVE ViableAt(tokens, i)
    OBVIOUS
  <2>1. CASE i = n
    BY <1>4, <2>1
  <2>2. CASE i # n
    <3>1. i \in 1 .. Shifted
      BY <1>2, <2>2
    <3> QED
      BY <3>1 DEF ErrInv
  <2> QED
    BY <2>1, <2>2
<1>6. PICK S : stack \in Seq(S)
  BY DEF ErrInv
<1>7. /\ stack' \in Seq(S \cup {t}) /\ Len(stack') = d + 1 /\ stack'[d + 1] = t
      /\ d \in Nat /\ \A i \in 1 .. d : stack'[i] = stack[i]
  <2>1. d \in 0 .. d /\ d \in Nat /\ SubSeq(stack, 1, d) = stack
    BY <1>6
  <2>2. stack' = Append(SubSeq(stack, 1, d), t)
    BY <1>1, <1>2, <2>1
  <2> QED
    BY <1>6, <2>1, <2>2, PopPush
<1> HIDE DEF n, d, t
<1>8. Nesting(stack', 1, d + 1) = Nesting(tokens, 1, n)
  <2>1. d + 1 \in Nat \ {0} /\ (d + 1) - 1 = d /\ 1 \in Nat \ {0} /\ 1 <= d + 1 /\ d \in Int /\ 1 <= n
    BY <1>2, <1>7
  <2>2. /\ Nesting(stack', 1, (d + 1) - 1) \in Int
        /\ Nesting(stack', 1, d + 1) = Nesting(stack', 1, (d + 1) - 1) + Opens(stack'[d + 1])
    BY <2>1, NestingStep
  <2>3. Nesting(stack', 1, d) = Nesting(stack, 1, d)
    BY <1>7, <2>1, NestingLocal
  <2>4. Nesting(tokens, 1, n) = Nesting(tokens, 1, n - 1) + Opens(t)
    BY <1>2, <2>1, NestingStep DEF t
  <2>5. Nesting(stack, 1, d) = Nesting(tokens, 1, n - 1)
    BY <1>2 DEF ErrInv, d
  <2> QED
    BY <1>7, <2>1, <2>2, <2>3, <2>4, <2>5
<1>9. AfterOperand' <=> Operand(t)
  <2>1. stack' # << >>
    BY <1>7, EmptySeq
  <2>2. t.type \in Operators \cup {")", "IDENT", "("}
    <3>1. t.type = Ahead
      BY <1>2 DEF Ahead
    <3> QED
      BY <1>1, <3>1 DEF Expected
  <2>3. stack'[Len(stack')] = t
    BY <1>7
  <2>4. AfterOperand' <=> t.type \notin Operators \cup {"("}
    BY <2>1, <2>3 DEF AfterOperand
  <2> QED
    BY <2>2, <2>4 DEF Operand, Operators
<1>10. /\ LookOK' /\ \E R : stack' \in Seq(R)
  BY <1>1, <1>7 DEF LookOK
<1>11. \A i \in 1 .. Shifted' : ViableAt(tokens', i)
  BY <1>2, <1>3, <1>5
<1>12. Nesting(stack', 1, Len(stack')) = Nesting(tokens', 1, Shifted')
  BY <1>2, <1>3, <1>7, <1>8
<1>13. AfterOperand' <=> Shifted' > 0 /\ Operand(tokens'[Shifted'])
  BY <1>2, <1>3, <1>9 DEF t
<1>14. phase' # "syntax" /\ phase' # "visit" /\ phase' # "end"
  BY <1>2
<1> QED
  BY <1>10, <1>11, <1>12, <1>13, <1>14 DEF ErrInv

\* The lexer adds a token behind those that are shifted.
LEMMA ReturnKeeps ==
  ASSUME LexOK, LookOK, NEW t, Returning(t)
  PROVE  /\ LookOK' /\ look' # << >> /\ phase' = "parse" /\ stack' = stack
         /\ Shifted = Len(tokens) /\ Shifted' = Shifted
         /\ \A i \in 1 .. Shifted : tokens'[i] = tokens[i]
<1> DEFINE n == Len(tokens)
<1>1. /\ phase' = "parse" /\ look = << >> /\ stack' = stack /\ t \in TokenSet
      /\ tokens' = Append(tokens, t) /\ look' = <<t>> /\ tokens \in Seq(TokenSet)
  BY DEF LexOK, Returning
<1>2. n \in Nat /\ Shifted = n
  BY <1>1, ShiftedIs
<1>3. Len(tokens') = n + 1 /\ tokens'[n + 1] = t /\ \A i \in 1 .. n : tokens'[i] = tokens[i]
      /\ tokens' \in Seq(TokenSet)
  BY <1>1, <1>2, AppendProperties
<1>4. tokens' # << >>
  BY <1>2, <1>3, EmptySeq
<1>5. LookOK'
  BY <1>1, <1>3, <1>4 DEF LookOK
<1>6. look' # << >> /\ Len(look') = 1
  BY <1>1
<1>7. Shifted' = n
  BY <1>2, <1>3, <1>6, \A m \in Nat : (m + 1) - 1 = m DEF Shifted
<1> QED
  BY <1>1, <1>2, <1>3, <1>5, <1>6, <1>7

LEMMA ErrInvNext == ASSUME LexOK, ErrInv, [Next]_vars PROVE ErrInv'
<1>1. tokens \in Seq(TokenSet) /\ LookOK
  BY DEF LexOK, ErrInv
<1>2. Shifted \in Nat /\ Shifted <= Len(tokens) /\ Len(tokens) \in Nat
  BY <1>1, ShiftedIs
<1>3. ASSUME Quiet PROVE ErrInv'
  <2>1. UNCHANGED <<look, stack, tokens>>
    BY <1>3 DEF Quiet
  <2>2. /\ LookOK' /\ \E S : stack' \in Seq(S)
    BY <2>1 DEF ErrInv, LookOK
  <2>3. Shifted' = Shifted
    BY <2>1 DEF Shifted
  <2>4. /\ \A i \in 1 .. Shifted' : ViableAt(tokens', i)
        /\ Nesting(stack', 1, Len(stack')) = Nesting(tokens', 1, Shifted')
    BY <2>1, <2>3 DEF ErrInv
  <2>5. AfterOperand' <=> Shifted' > 0 /\ Operand(tokens'[Shifted'])
    <3>1. AfterOperand' <=> AfterOperand
      BY <2>1 DEF AfterOperand
    <3> QED
      BY <2>1, <2>3, <3>1 DEF ErrInv
  <2>6. phase' = "syntax" => look # << >> /\ ~ViableAt(tokens, Len(tokens))
    <3>1. CASE SyntaxErr
      BY <3>1, ExpectedViable DEF SyntaxErr, Parsing
    <3>2. CASE UNCHANGED phase
      BY <3>2 DEF ErrInv
    <3> QED
      BY <1>3, <3>1, <3>2 DEF Quiet, Accept, EndOfInput, Leave
  <2>7. phase' = "visit" => look # << >> /\ ViableAt(tokens, Len(tokens))
    <3>1. CASE Accept
      BY <3>1, ExpectedViable DEF Accept, Parsing
    <3>2. CASE UNCHANGED phase
      BY <3>2 DEF ErrInv
    <3> QED
      BY <1>3, <3>1, <3>2 DEF Quiet, SyntaxErr, EndOfInput, Leave
  <2>8. phase' = "end" => look = << >>
    <3>1. CASE EndOfInput
      BY <3>1 DEF EndOfInput
    <3>2. CASE UNCHANGED phase
      BY <3>2 DEF ErrInv
    <3> QED
      BY <1>3, <3>1, <3>2 DEF Quiet, SyntaxErr, Accept, Leave
  <2> QED
    BY <2>1, <2>2, <2>4, <2>5, <2>6, <2>7, <2>8 DEF ErrInv
<1>4. ASSUME Reduce PROVE ErrInv'
  <2>1. /\ \E S : stack' \in Seq(S)
        /\ Nesting(stack', 1, Len(stack')) = Nesting(stack, 1, Len(stack))
        /\ AfterOperand /\ AfterOperand'
    BY <1>4, ReduceKeeps
  <2>2. phase = "parse" /\ phase' = phase /\ UNCHANGED <<look, tokens>>
    BY <1>4 DEF Reduce, Parsing, lexer
  <2>3. Shifted' = Shifted /\ LookOK'
    BY <1>1, <2>2 DEF Shifted, LookOK
  <2>4. \A i \in 1 .. Shifted' : ViableAt(tokens', i)
    BY <2>2, <2>3 DEF ErrInv
  <2>5. Nesting(stack', 1, Len(stack')) = Nesting(tokens', 1, Shifted')
    BY <2>1, <2>2, <2>3 DEF ErrInv
  <2>6. AfterOperand' <=> Shifted' > 0 /\ Operand(tokens'[Shifted'])
    BY <2>1, <2>2, <2>3 DEF ErrInv
  <2>7. phase' # "syntax" /\ phase' # "visit" /\ phase' # "end"
    BY <2>2
  <2> QED
    BY <2>1, <2>3, <2>4, <2>5, <2>6, <2>7 DEF ErrInv
<1>5. ASSUME NEW t, Returning(t) PROVE ErrInv'
  <2>1. /\ LookOK' /\ look' # << >> /\ phase' = "parse" /\ stack' = stack
        /\ Shifted' = Shifted /\ \A i \in 1 .. Shifted : tokens'[i] = tokens[i]
    BY <1>1, <1>5, ReturnKeeps
  <2>2. \E S : stack' \in Seq(S)
    BY <2>1 DEF ErrInv
  <2>3. \A i \in 1 .. Shifted' : ViableAt(tokens', i)
    <3> SUFFICES ASSUME NEW i \in 1 .. Shifted PROVE ViableAt(tokens', i)
      BY <2>1
    <3>1. ViableAt(tokens, i)
      BY DEF ErrInv
    <3>2. ViableAt(tokens', i) <=> ViableAt(tokens, i)
      BY <1>2, <2>1, ViableLocal
    <3> QED
      BY <3>1, <3>2
  <2>4. Nesting(stack', 1, Len(stack')) = Nesting(tokens', 1, Shifted')
    <3>1. Nesting(tokens', 1, Shifted) = Nesting(tokens, 1, Shifted)
      <4>1. 1 \in Nat /\ Shifted \in Int
        BY <1>2
      <4> QED
        BY <2>1, <4>1, NestingLocal
    <3> QED
      BY <2>1, <3>1 DEF ErrInv
  <2>5. AfterOperand' <=> Shifted' > 0 /\ Operand(tokens'[Shifted'])
    <3>1. AfterOperand' <=> AfterOperand
      BY <2>1 DEF AfterOperand
    <3>2. Shifted > 0 => tokens'[Shifted] = tokens[Shifted]
      BY <1>2, <2>1
    <3>3. AfterOperand <=> Shifted > 0 /\ Operand(tokens[Shifted])
      BY DEF ErrInv
    <3> QED
      BY <2>1, <3>1, <3>2, <3>3
  <2>6. phase' # "syntax" /\ phase' # "visit" /\ phase' # "end"
    BY <2>1
  <2> QED
    BY <2>1, <2>2, <2>3, <2>4, <2>5, <2>6 DEF ErrInv
<1> QED
  BY <1>3, <1>4, <1>5, ShiftKeeps, ParserSteps

LEMMA ErrInvShows == ASSUME LexOK, ErrInv PROVE ErrorsPrompt
<1>1. /\ DOMAIN tokens = 1 .. Len(tokens) /\ Len(tokens) \in Nat
      /\ look = << >> => Shifted = Len(tokens)
      /\ look # << >> => Len(tokens) \in Nat \ {0} /\ Shifted = Len(tokens) - 1
  BY ShiftedIs DEF LexOK, ErrInv
<1>2. look = << >> => Viable(tokens)
  BY <1>1 DEF ErrInv, Viable
<1>3. ASSUME phase = "syntax" PROVE ~Viable(tokens)
  <2>1. look # << >> /\ ~ViableAt(tokens, Len(tokens))
    BY <1>3 DEF ErrInv
  <2>2. Len(tokens) \in DOMAIN tokens
    <3>1. Len(tokens) \in Nat \ {0}
      BY <1>1, <2>1
    <3>2. \A m \in Nat \ {0} : m \in 1 .. m
      OBVIOUS
    <3> QED
      BY <1>1, <3>1, <3>2, Zenon
  <2> QED
    BY <2>1, <2>2 DEF Viable
<1>4. ASSUME phase = "visit" PROVE Viable(tokens)
  <2> SUFFICES ASSUME NEW i \in 1 .. Len(tokens) PROVE ViableAt(tokens, i)
    BY <1>1 DEF Viable
  <2>1. look # << >> /\ ViableAt(tokens, Len(tokens))
    BY <1>4 DEF ErrInv
  <2>2. CASE i # Len(tokens)
    <3>1. Shifted = Len(tokens) - 1
      BY <1>1, <2>1
    <3>2. i \in 1 .. Shifted
      <4>1. \A m \in Nat : \A j \in 1 .. m : j # m => j \in 1 .. m - 1
        OBVIOUS
      <4>2. i \in 1 .. Len(tokens) - 1
        BY <1>1, <2>2, <4>1, Zenon
      <4> QED
        BY <3>1, <4>2
    <3> QED
      BY <3>2 DEF ErrInv
  <2> QED
    BY <2>1, <2>2
<1>5. phase = "end" => Viable(tokens)
  BY <1>2 DEF ErrInv
<1> QED
  BY <1>2, <1>3, <1>4, <1>5 DEF ErrorsPrompt

\* For every text: the parser refuses exactly at the first token that no
\* expression has there.
THEOREM ErrorsArePrompt == FairSpec => []ErrorsPrompt
<1>1. Init => LexOK /\ ErrInv
  BY LexOKInit, ErrInvInit
<1>2. LexOK /\ ErrInv /\ [Next]_vars => (LexOK /\ ErrInv)'
  BY LexOKNext, ErrInvNext
<1>3. LexOK /\ ErrInv => ErrorsPrompt
  BY ErrInvShows
<1> QED
  BY <1>1, <1>2, <1>3, PTL DEF FairSpec

----------------------------------------------------------------------------
(***************************************************************************)
(* The definition of the tree.                                             *)
(***************************************************************************)

LEMMA LevelIn == \A op \in Operators : Level(op) \in 1 .. 3
<1> SUFFICES ASSUME NEW op \in Operators PROVE Level(op) \in 1 .. 3
  OBVIOUS
<1>1. DOMAIN Levels = 1 .. 3
  BY DEF Levels
<1>2. Levels[1] = {"|", "^"} /\ Levels[2] = {"&"} /\ Levels[3] = {"+", "-"}
  BY DEF Levels
<1>3. \E i \in DOMAIN Levels : op \in Levels[i]
  <2>1. op \in Levels[1] \/ op \in Levels[2] \/ op \in Levels[3]
    BY <1>2 DEF Operators
  <2>2. 1 \in DOMAIN Levels /\ 2 \in DOMAIN Levels /\ 3 \in DOMAIN Levels
    BY <1>1
  <2> QED
    BY <2>1, <2>2
<1>4. Level(op) \in DOMAIN Levels
  BY <1>3 DEF Level
<1> QED
  BY <1>1, <1>4

\* An operator outside of parentheses that the others are not looser than.
IsRoot(s, lo, hi, i) ==
  /\ i \in Outside(s, lo, hi)
  /\ \A j \in Outside(s, lo, hi) :
       \/ Level(s[i].type) < Level(s[j].type)
       \/ Level(s[i].type) = Level(s[j].type) /\ j <= i

LEMMA OutsideIn ==
  ASSUME NEW s, NEW lo \in Nat, NEW hi \in Nat, NEW i \in Outside(s, lo, hi)
  PROVE  i \in lo .. hi /\ i \in Nat /\ s[i].type \in Operators /\ Level(s[i].type) \in 1 .. 3
         /\ Nesting(s, lo, i) = 0
BY LevelIn DEF Outside

LEMMA RootExists ==
  ASSUME NEW s, NEW lo \in Nat, NEW hi \in Nat, Outside(s, lo, hi) # {}
  PROVE  \E i : IsRoot(s, lo, hi, i)
<1> DEFINE O == Outside(s, lo, hi)
           V == {Level(s[i].type) : i \in O}
<1>1. \A i \in O : i \in lo .. hi /\ i \in Nat /\ Level(s[i].type) \in 1 .. 3
  BY OutsideIn
<1> HIDE DEF O
<1>2. V \subseteq Nat /\ V # {}
  BY <1>1 DEF O
<1>3. PICK l \in V : \A k \in V : l <= k
  BY <1>2, LeastNatural
<1> DEFINE W == {hi - i : i \in {j \in O : Level(s[j].type) = l}}
<1>4. W \subseteq Nat /\ W # {}
  BY <1>1, <1>3
<1>5. PICK w \in W : \A k \in W : w <= k
  BY <1>4, LeastNatural
<1>6. PICK i \in O : Level(s[i].type) = l /\ w = hi - i
  BY <1>5
<1>7. ASSUME NEW j \in O
      PROVE  \/ Level(s[i].type) < Level(s[j].type)
             \/ Level(s[i].type) = Level(s[j].type) /\ j <= i
  <2>1. l <= Level(s[j].type) /\ Level(s[j].type) \in Int /\ l \in Int
    BY <1>1, <1>3
  <2>2. CASE Level(s[j].type) = l
    <3>1. hi - j \in W
      BY <2>2
    <3>2. w <= hi - j
      BY <1>5, <3>1
    <3> QED
      BY <1>1, <1>6, <2>2, <3>2
  <2> QED
    BY <1>6, <2>1, <2>2
<1> QED
  BY <1>6, <1>7 DEF IsRoot, O

LEMMA RootIs ==
  ASSUME NEW s, NEW lo \in Nat, NEW hi \in Nat, Outside(s, lo, hi) # {}
  PROVE  /\ IsRoot(s, lo, hi, Root(s, lo, hi))
         /\ Root(s, lo, hi) \in lo .. hi
<1> DEFINE O == Outside(s, lo, hi)
           Best(i) == \A j \in O : \/ Level(s[i].type) < Level(s[j].type)
                                   \/ Level(s[i].type) = Level(s[j].type) /\ j <= i
<1>1. \E i \in O : Best(i)
  BY RootExists DEF IsRoot
<1>2. Root(s, lo, hi) = CHOOSE i \in O : Best(i)
  BY DEF Root
<1> HIDE DEF Best, O
<1>3. Root(s, lo, hi) \in O /\ Best(Root(s, lo, hi))
  BY <1>1, <1>2
<1>4. IsRoot(s, lo, hi, Root(s, lo, hi))
  BY <1>3 DEF IsRoot, Best, O
<1> QED
  BY <1>3, <1>4, OutsideIn DEF O

\* There is one such operator.
LEMMA RootUnique ==
  ASSUME NEW s, NEW lo \in Nat, NEW hi \in Nat, NEW i, IsRoot(s, lo, hi, i)
  PROVE  Root(s, lo, hi) = i
<1> DEFINE r == Root(s, lo, hi)
<1>1. Outside(s, lo, hi) # {}
  BY DEF IsRoot
<1>2. IsRoot(s, lo, hi, r)
  BY <1>1, RootIs
<1> HIDE DEF r
<1>3. i \in Outside(s, lo, hi) /\ r \in Outside(s, lo, hi)
  BY <1>2 DEF IsRoot
<1>4. /\ i \in Nat /\ r \in Nat
      /\ Level(s[i].type) \in Int /\ Level(s[r].type) \in Int
  BY <1>3, OutsideIn
<1>5. \/ Level(s[i].type) < Level(s[r].type)
      \/ Level(s[i].type) = Level(s[r].type) /\ r <= i
  BY <1>3 DEF IsRoot
<1>6. \/ Level(s[r].type) < Level(s[i].type)
      \/ Level(s[r].type) = Level(s[i].type) /\ i <= r
  BY <1>2, <1>3 DEF IsRoot
<1>7. i = r
  BY <1>4, <1>5, <1>6
<1> QED
  BY <1>7 DEF r

\* What TreeOf says of a range, given its value for narrower ones.
TreeAt(s, f, r) ==
  IF r[1] >= r[2] THEN Leaf(s[r[1]])
  ELSE IF Outside(s, r[1], r[2]) = {} THEN f[<<r[1] + 1, r[2] - 1>>]
  ELSE LET m == Root(s, r[1], r[2])
       IN  BinOp(s[m].type, f[<<r[1], m - 1>>], f[<<m + 1, r[2]>>])

\* The ranges that TreeOf goes on with are ranges of s, and narrower.
Narrower(s, q, r) == q \in Ranges(s) /\ q[2] - q[1] < r[2] - r[1]

LEMMA RangeIs ==
  ASSUME NEW s, Len(s) \in Nat, NEW r \in Ranges(s)
  PROVE  /\ r[1] \in Nat \ {0} /\ r[2] \in Nat /\ r[1] <= Len(s) + 1 /\ r[2] <= Len(s)
         /\ r = <<r[1], r[2]>>
BY DEF Ranges

LEMMA PairIn ==
  ASSUME NEW s, Len(s) \in Nat, NEW lo \in Nat \ {0}, NEW hi \in Nat, lo <= Len(s) + 1, hi <= Len(s)
  PROVE  /\ <<lo, hi>> \in Ranges(s) /\ <<lo, hi>>[1] = lo /\ <<lo, hi>>[2] = hi
<1>1. lo \in 1 .. Len(s) + 1 /\ hi \in 0 .. Len(s)
  OBVIOUS
<1> QED
  BY <1>1 DEF Ranges

LEMMA Parts ==
  ASSUME NEW s, Len(s) \in Nat, NEW r \in Ranges(s), r[1] < r[2]
  PROVE  /\ Narrower(s, <<r[1] + 1, r[2] - 1>>, r)
         /\ Outside(s, r[1], r[2]) # {} =>
              /\ Root(s, r[1], r[2]) \in r[1] .. r[2]
              /\ Narrower(s, <<r[1], Root(s, r[1], r[2]) - 1>>, r)
              /\ Narrower(s, <<Root(s, r[1], r[2]) + 1, r[2]>>, r)
<1> DEFINE n == Len(s)
           lo == r[1]
           hi == r[2]
<1>1. /\ n \in Nat /\ lo \in Nat \ {0} /\ hi \in Nat /\ lo <= n + 1 /\ hi <= n /\ lo < hi
  BY RangeIs
<1>2. \A a \in Nat \ {0}, b \in Nat : a <= n + 1 /\ b <= n =>
        <<a, b>> \in Ranges(s) /\ <<a, b>>[1] = a /\ <<a, b>>[2] = b
  BY <1>1, PairIn
<1> HIDE DEF n, lo, hi
<1>3. ASSUME NEW a \in Nat \ {0}, NEW b \in Nat, a <= n + 1, b <= n, b - a < hi - lo
      PROVE  Narrower(s, <<a, b>>, r)
  BY <1>2, <1>3 DEF Narrower, lo, hi
<1>4. Narrower(s, <<lo + 1, hi - 1>>, r)
  <2>1. /\ lo + 1 \in Nat \ {0} /\ hi - 1 \in Nat /\ lo + 1 <= n + 1 /\ hi - 1 <= n
        /\ (hi - 1) - (lo + 1) < hi - lo
    BY <1>1
  <2> QED
    BY <1>3, <2>1
<1>5. ASSUME Outside(s, lo, hi) # {}
      PROVE  /\ Root(s, lo, hi) \in lo .. hi
             /\ Narrower(s, <<lo, Root(s, lo, hi) - 1>>, r)
             /\ Narrower(s, <<Root(s, lo, hi) + 1, hi>>, r)
  <2> DEFINE m == Root(s, lo, hi)
  <2>1. m \in lo .. hi
    BY <1>1, <1>5, RootIs
  <2> HIDE DEF m
  <2>2. /\ m - 1 \in Nat /\ m - 1 <= n /\ (m - 1) - lo < hi - lo
        /\ m + 1 \in Nat \ {0} /\ m + 1 <= n + 1 /\ hi - (m + 1) < hi - lo
    BY <1>1, <2>1
  <2>3. Narrower(s, <<lo, m - 1>>, r)
    BY <1>1, <1>3, <2>2
  <2>4. Narrower(s, <<m + 1, hi>>, r)
    BY <1>1, <1>3, <2>2
  <2> QED
    BY <2>1, <2>3, <2>4 DEF m
<1> QED
  BY <1>4, <1>5 DEF lo, hi

\* The tree of a range is that of its narrower ranges.
LEMMA TreeAtSame ==
  ASSUME NEW s, Len(s) \in Nat, NEW r \in Ranges(s), NEW f, NEW g,
         \A q \in Ranges(s) : q[2] - q[1] < r[2] - r[1] => f[q] = g[q]
  PROVE  TreeAt(s, f, r) = TreeAt(s, g, r)
<1>1. \A q : Narrower(s, q, r) => f[q] = g[q]
  BY DEF Narrower
<1>2. CASE r[1] >= r[2]
  BY <1>2 DEF TreeAt
<1>3. CASE ~(r[1] >= r[2])
  <2>1. r[1] < r[2]
    BY <1>3, RangeIs
  <2>2. f[<<r[1] + 1, r[2] - 1>>] = g[<<r[1] + 1, r[2] - 1>>]
    BY <1>1, <2>1, Parts
  <2>3. Outside(s, r[1], r[2]) # {} =>
          /\ f[<<r[1], Root(s, r[1], r[2]) - 1>>] = g[<<r[1], Root(s, r[1], r[2]) - 1>>]
          /\ f[<<Root(s, r[1], r[2]) + 1, r[2]>>] = g[<<Root(s, r[1], r[2]) + 1, r[2]>>]
    BY <1>1, <2>1, Parts
  <2> QED
    BY <2>2, <2>3, Zenon DEF TreeAt
<1> QED
  BY <1>2, <1>3

\* TreeOf is well defined: it is found for wider and wider ranges.
LEMMA TreeExists ==
  ASSUME NEW s, Len(s) \in Nat
  PROVE  \E f : f = [r \in Ranges(s) |-> TreeAt(s, f, r)]
<1> DEFINE R == Ranges(s)
           n == Len(s)
           Good(f, m) == \A r \in R : r[2] - r[1] <= m => f[r] = TreeAt(s, f, r)
           T == {m \in 0 .. n : \E f : f = [r \in R |-> f[r]] /\ Good(f, m)}
<1>0. n \in Nat
  OBVIOUS
<1>1. \A r \in R : r[2] - r[1] \in Int /\ r[2] - r[1] <= n /\ (r[2] - r[1] <= 0 <=> r[1] >= r[2])
  BY RangeIs
<1> HIDE DEF n
<1>2. 0 \in T
  <2> DEFINE f == [r \in R |-> Leaf(s[r[1]])]
  <2>1. f = [r \in R |-> f[r]]
    OBVIOUS
  <2>2. Good(f, 0)
    <3> SUFFICES ASSUME NEW r \in R, r[2] - r[1] <= 0 PROVE f[r] = TreeAt(s, f, r)
      OBVIOUS
    <3>1. r[1] >= r[2]
      BY <1>1
    <3> QED
      BY <3>1 DEF TreeAt
  <2> HIDE DEF f, Good
  <2> QED
    BY <1>0, <2>1, <2>2
<1>3. \A m \in 0 .. n - 1 : m \in T => m + 1 \in T
  <2> SUFFICES ASSUME NEW m \in 0 .. n - 1, m \in T PROVE m + 1 \in T
    OBVIOUS
  <2>1. PICK f : f = [r \in R |-> f[r]] /\ Good(f, m)
    OBVIOUS
  <2> DEFINE g == [r \in R |-> IF r[2] - r[1] = m + 1 THEN TreeAt(s, f, r) ELSE f[r]]
  <2>2. g = [r \in R |-> g[r]]
    OBVIOUS
  <2>3. \A q \in R : q[2] - q[1] < m + 1 => g[q] = f[q]
    BY <1>0, <1>1
  <2>4. \A q \in R : q[2] - q[1] = m + 1 => g[q] = TreeAt(s, f, q)
    OBVIOUS
  <2> HIDE DEF g
  <2>5. Good(g, m + 1)
    <3> SUFFICES ASSUME NEW r \in R, r[2] - r[1] <= m + 1 PROVE g[r] = TreeAt(s, g, r)
      OBVIOUS
    <3>1. \A q \in R : q[2] - q[1] < r[2] - r[1] => g[q] = f[q]
      BY <1>0, <1>1, <2>3
    <3>2. TreeAt(s, g, r) = TreeAt(s, f, r)
      BY <3>1, TreeAtSame
    <3>3. CASE r[2] - r[1] = m + 1
      BY <2>4, <3>2, <3>3
    <3>4. CASE r[2] - r[1] <= m
      <4>1. r[2] - r[1] < m + 1
        BY <1>0, <1>1, <3>4
      <4>2. g[r] = f[r]
        BY <2>3, <4>1
      <4>3. f[r] = TreeAt(s, f, r)
        BY <2>1, <3>4
      <4> QED
        BY <3>2, <4>2, <4>3
    <3> QED
      BY <1>0, <1>1, <3>3, <3>4
  <2> HIDE DEF Good
  <2>6. m + 1 \in 0 .. n
    BY <1>0
  <2> QED
    BY <2>2, <2>5, <2>6
<1> HIDE DEF T
<1>4. n \in T
  <2>1. 0 .. n \subseteq T
    BY <1>0, <1>2, <1>3, RangeInduction
  <2> QED
    BY <1>0, <2>1
<1>5. PICK f : f = [r \in R |-> f[r]] /\ Good(f, n)
  BY <1>4 DEF T
<1>6. \A r \in R : f[r] = TreeAt(s, f, r)
  BY <1>1, <1>5
<1>7. f = [r \in R |-> TreeAt(s, f, r)]
  BY <1>5, <1>6
<1> QED
  BY <1>7

LEMMA TreeStep ==
  ASSUME NEW s, Len(s) \in Nat, NEW lo \in Nat \ {0}, NEW hi \in Nat,
         lo <= Len(s) + 1, hi <= Len(s)
  PROVE  TreeOf(s)[<<lo, hi>>] =
           IF lo >= hi THEN Leaf(s[lo])
           ELSE IF Outside(s, lo, hi) = {} THEN TreeOf(s)[<<lo + 1, hi - 1>>]
           ELSE LET m == Root(s, lo, hi)
                IN  BinOp(s[m].type, TreeOf(s)[<<lo, m - 1>>], TreeOf(s)[<<m + 1, hi>>])
<1> DEFINE Is(f) == f = [r \in Ranges(s) |-> TreeAt(s, f, r)]
<1>1. Is(TreeOf(s))
  <2>1. TreeOf(s) = CHOOSE f : Is(f)
    BY DEF TreeOf, TreeAt
  <2>2. \E f : Is(f)
    BY TreeExists
  <2> HIDE DEF Is
  <2> QED
    BY <2>1, <2>2
<1>2. \A r \in Ranges(s) : TreeOf(s)[r] = TreeAt(s, TreeOf(s), r)
  BY <1>1, Zenon
<1>3. <<lo, hi>> \in Ranges(s) /\ <<lo, hi>>[1] = lo /\ <<lo, hi>>[2] = hi
  BY PairIn
<1>4. TreeOf(s)[<<lo, hi>>] = TreeAt(s, TreeOf(s), <<lo, hi>>)
  BY <1>2, <1>3
<1> QED
  BY <1>3, <1>4 DEF TreeAt

(***************************************************************************)
(* Trees of ranges that are put together.                                  *)
(***************************************************************************)

LEMMA OutsideLocal ==
  ASSUME NEW s, NEW t, NEW lo \in Nat, NEW hi \in Nat, \A j \in lo .. hi : s[j] = t[j]
  PROVE  Outside(s, lo, hi) = Outside(t, lo, hi)
<1>1. ASSUME NEW i \in lo .. hi PROVE Nesting(s, lo, i) = Nesting(t, lo, i) /\ s[i] = t[i]
  <2>1. i \in Int /\ \A j \in lo .. i : s[j] = t[j]
    OBVIOUS
  <2> QED
    BY <2>1, NestingLocal
<1> QED
  BY <1>1 DEF Outside

LEMMA RootLocal ==
  ASSUME NEW s, NEW t, NEW lo \in Nat, NEW hi \in Nat, \A j \in lo .. hi : s[j] = t[j],
         Outside(s, lo, hi) # {}
  PROVE  Root(s, lo, hi) = Root(t, lo, hi)
<1> DEFINE r == Root(s, lo, hi)
<1>1. Outside(t, lo, hi) = Outside(s, lo, hi)
  BY OutsideLocal
<1>2. IsRoot(s, lo, hi, r)
  BY RootIs
<1>3. \A j \in Outside(s, lo, hi) : s[j] = t[j]
  BY DEF Outside
<1> HIDE DEF r
<1>4. IsRoot(t, lo, hi, r)
  BY <1>1, <1>2, <1>3 DEF IsRoot
<1>5. Root(t, lo, hi) = r
  BY <1>4, RootUnique
<1> QED
  BY <1>5 DEF r

SameTree(s, t, lo, hi) == TreeOf(s)[<<lo, hi>>] = TreeOf(t)[<<lo, hi>>]

\* Ranges within a .. b, with or without the ends or on one side of m, are shorter.
LEMMA ShorterWithin ==
  \A n, w \in Nat : \A a \in 1 .. n, b \in 0 .. n - 1 :
    a < b /\ b - a = w + 1 =>
      /\ a + 1 \in 1 .. n /\ b - 1 \in 0 .. n - 1 /\ a + 1 <= (b - 1) + 1
      /\ (b - 1) - (a + 1) <= w
      /\ \A m \in a .. b : /\ m - 1 \in 0 .. n - 1 /\ a <= (m - 1) + 1 /\ (m - 1) - a <= w
                           /\ m + 1 \in 1 .. n /\ m + 1 <= b + 1 /\ b - (m + 1) <= w
OBVIOUS

\* The tree of a range depends on the tokens of the range only (and on the one
\* after it, if the range is no expression).
LEMMA TreeLocal ==
  ASSUME NEW s, NEW t, Len(s) \in Nat, Len(t) \in Nat, NEW n \in Nat, n <= Len(s), n <= Len(t),
         \A j \in 1 .. n : s[j] = t[j],
         NEW lo \in 1 .. n, NEW hi \in 0 .. n - 1, lo <= hi + 1
  PROVE  SameTree(s, t, lo, hi)
<1> DEFINE Same(a, b) == TreeOf(s)[<<a, b>>] = TreeOf(t)[<<a, b>>]
           T == {w \in 0 .. n : \A a \in 1 .. n, b \in 0 .. n - 1 :
                                  a <= b + 1 /\ b - a <= w => Same(a, b)}
<1>1. ASSUME NEW a \in 1 .. n, NEW b \in 0 .. n - 1
      PROVE  a \in Nat \ {0} /\ b \in Nat /\ a <= Len(s) + 1 /\ b <= Len(s)
             /\ a <= Len(t) + 1 /\ b <= Len(t)
  OBVIOUS
<1>2. 0 \in T
  <2> SUFFICES ASSUME NEW a \in 1 .. n, NEW b \in 0 .. n - 1, a <= b + 1, b - a <= 0
               PROVE  Same(a, b)
    OBVIOUS
  <2>1. a >= b /\ s[a] = t[a]
    OBVIOUS
  <2>2. TreeOf(s)[<<a, b>>] = Leaf(s[a])
    BY <1>1, <2>1, TreeStep
  <2>3. TreeOf(t)[<<a, b>>] = Leaf(t[a])
    BY <1>1, <2>1, TreeStep
  <2> QED
    BY <2>1, <2>2, <2>3
<1>3. \A w \in 0 .. n - 1 : w \in T => w + 1 \in T
  <2> SUFFICES ASSUME NEW w \in 0 .. n - 1, w \in T PROVE w + 1 \in T
    OBVIOUS
  <2>0. w + 1 \in 0 .. n
    OBVIOUS
  <2> SUFFICES ASSUME NEW a \in 1 .. n, NEW b \in 0 .. n - 1, a <= b + 1, b - a <= w + 1
               PROVE  Same(a, b)
    BY <2>0
  <2>1. ASSUME NEW p \in 1 .. n, NEW q \in 0 .. n - 1, p <= q + 1, q - p <= w PROVE Same(p, q)
    BY <2>1
  <2> HIDE DEF Same, T
  <2>2. CASE b - a <= w
    BY <2>1, <2>2
  <2>4. w \in Nat
    OBVIOUS
  <2>3. CASE b - a = w + 1
    <3>1. a < b /\ ~(a >= b) /\ a \in Nat /\ b \in Nat /\ \A j \in a .. b : s[j] = t[j]
      BY <2>3
    <3>2. Outside(s, a, b) = Outside(t, a, b)
      BY <3>1, OutsideLocal
    <3>0. a \in Nat \ {0} /\ b \in Nat /\ a <= Len(s) + 1 /\ b <= Len(s)
          /\ a <= Len(t) + 1 /\ b <= Len(t)
      BY <1>1
    <3>3. CASE Outside(s, a, b) = {}
      <4>1. TreeOf(s)[<<a, b>>] = TreeOf(s)[<<a + 1, b - 1>>]
        BY <3>0, <3>1, <3>3, TreeStep
      <4>2. TreeOf(t)[<<a, b>>] = TreeOf(t)[<<a + 1, b - 1>>]
        <5>1. Outside(t, a, b) = {}
          BY <3>2, <3>3
        <5> QED
          BY <3>0, <3>1, <5>1, TreeStep
      <4>3. /\ a + 1 \in 1 .. n /\ b - 1 \in 0 .. n - 1 /\ a + 1 <= (b - 1) + 1
            /\ (b - 1) - (a + 1) <= w
        BY <2>3, <2>4, <3>1, ShorterWithin, Zenon
      <4>4. Same(a + 1, b - 1)
        BY <2>1, <4>3
      <4> QED
        BY <4>1, <4>2, <4>4 DEF Same
    <3>4. CASE Outside(s, a, b) # {}
      <4> DEFINE m == Root(s, a, b)
      <4>1. m = Root(t, a, b) /\ m \in a .. b
        BY <3>1, <3>4, RootLocal, RootIs, SMTT(30)
      <4>2. TreeOf(s)[<<a, b>>] = BinOp(s[m].type, TreeOf(s)[<<a, m - 1>>], TreeOf(s)[<<m + 1, b>>])
        BY <3>0, <3>1, <3>4, TreeStep
      <4>3. TreeOf(t)[<<a, b>>] = BinOp(t[m].type, TreeOf(t)[<<a, m - 1>>], TreeOf(t)[<<m + 1, b>>])
        <5>1. Outside(t, a, b) # {}
          BY <3>2, <3>4
        <5>2. TreeOf(t)[<<a, b>>] = BinOp(t[Root(t, a, b)].type, TreeOf(t)[<<a, Root(t, a, b) - 1>>],
                                          TreeOf(t)[<<Root(t, a, b) + 1, b>>])
          BY <3>0, <3>1, <5>1, TreeStep
        <5> QED
          BY <4>1, <5>2, Zenon
      <4> HIDE DEF m
      <4>4. /\ m - 1 \in 0 .. n - 1 /\ a <= (m - 1) + 1 /\ (m - 1) - a <= w
            /\ m + 1 \in 1 .. n /\ m + 1 <= b + 1 /\ b - (m + 1) <= w
        BY <2>3, <2>4, <3>1, <4>1, ShorterWithin, Zenon
      <4>5. Same(a, m - 1) /\ Same(m + 1, b) /\ s[m] = t[m]
        BY <2>1, <3>1, <4>1, <4>4
      <4> QED
        BY <4>2, <4>3, <4>5 DEF Same
    <3> QED
      BY <3>3, <3>4
  <2> QED
    BY <2>2, <2>3
<1> HIDE DEF T
<1>4. n \in T
  <2>1. 0 .. n \subseteq T
    BY <1>2, <1>3, RangeInduction
  <2> QED
    BY <2>1
<1>5. hi - lo <= n
  OBVIOUS
<1>6. \A a \in 1 .. n, b \in 0 .. n - 1 : a <= b + 1 /\ b - a <= n => Same(a, b)
  BY <1>4 DEF T
<1> HIDE DEF Same
<1>7. Same(lo, hi)
  BY <1>5, <1>6
<1> QED
  BY <1>7 DEF Same, SameTree

\* A range whose parentheses match.
Balanced(s, lo, hi) == Nesting(s, lo, hi) = 0 /\ \A j \in lo .. hi : Nesting(s, lo, j) >= 0

\* No operator outside the parentheses of the range is looser than level l.
Tight(s, lo, hi, l) == \A j \in Outside(s, lo, hi) : l <= Level(s[j].type)

\* One operand.
LEMMA JoinIdent ==
  ASSUME NEW s, Len(s) \in Nat, NEW i \in Nat \ {0}, i <= Len(s), s[i].type = "IDENT"
  PROVE  /\ Balanced(s, i, i) /\ Outside(s, i, i) = {}
         /\ TreeOf(s)[<<i, i>>] = Leaf(s[i])
<1>1. Nesting(s, i, i) = 0
  BY NestingOne DEF Opens
<1>2. Balanced(s, i, i)
  BY <1>1 DEF Balanced
<1>3. Outside(s, i, i) = {}
  BY DEF Outside, Operators
<1>4. i <= Len(s) + 1 /\ i >= i
  OBVIOUS
<1>5. TreeOf(s)[<<i, i>>] = Leaf(s[i])
  BY <1>4, TreeStep
<1> QED
  BY <1>2, <1>3, <1>5

\* Parentheses around an expression.
LEMMA JoinParens ==
  ASSUME NEW s, Len(s) \in Nat, NEW lo \in Nat \ {0}, NEW hi \in Nat, lo < hi, hi <= Len(s),
         s[lo].type = "(", s[hi].type = ")", Balanced(s, lo + 1, hi - 1)
  PROVE  /\ Balanced(s, lo, hi) /\ Outside(s, lo, hi) = {}
         /\ TreeOf(s)[<<lo, hi>>] = TreeOf(s)[<<lo + 1, hi - 1>>]
<1>1. Nesting(s, lo, lo) = 1
  BY NestingOne DEF Opens
<1>2. ASSUME NEW j \in lo .. hi - 1
      PROVE  Nesting(s, lo, j) \in Int /\ Nesting(s, lo, j) >= 1
             /\ (j = hi - 1 => Nesting(s, lo, j) = 1)
  <2>1. lo <= lo + 1 /\ lo <= j /\ j \in Nat /\ lo \in Nat
    OBVIOUS
  <2>2. Nesting(s, lo, j) \in Int /\ Nesting(s, lo, j) = Nesting(s, lo, lo) + Nesting(s, lo + 1, j)
    BY <2>1, NestingSplit
  <2>3. CASE j = lo
    <3>1. Nesting(s, lo + 1, j) = 0
      BY <2>3, NestingNone, lo + 1 \in Nat, j \in Int, j < lo + 1
    <3> QED
      BY <1>1, <2>2, <3>1
  <2>4. CASE j # lo
    <3>1. j \in lo + 1 .. hi - 1
      BY <2>4
    <3>2. Nesting(s, lo + 1, j) >= 0 /\ (j = hi - 1 => Nesting(s, lo + 1, j) = 0)
      BY <3>1 DEF Balanced
    <3>3. Nesting(s, lo + 1, j) \in Int
      BY <3>1, NestingSplit, lo + 1 \in Nat, lo + 1 <= j + 1, j \in Nat, j <= j
    <3> QED
      BY <1>1, <2>2, <3>2, <3>3
  <2> QED
    BY <2>3, <2>4
<1>3. Nesting(s, lo, hi) = 0
  <2>1. hi - 1 \in lo .. hi - 1 /\ hi \in Nat \ {0} /\ lo <= hi
    OBVIOUS
  <2>2. Nesting(s, lo, hi) = Nesting(s, lo, hi - 1) + Opens(s[hi])
    BY <2>1, NestingStep
  <2>3. Opens(s[hi]) = -1
    BY DEF Opens
  <2>4. Nesting(s, lo, hi - 1) = 1
    BY <1>2, <2>1
  <2> QED
    BY <2>2, <2>3, <2>4
<1>4. Balanced(s, lo, hi)
  <2>1. ASSUME NEW j \in lo .. hi PROVE Nesting(s, lo, j) >= 0
    <3>1. CASE j = hi
      BY <1>3, <3>1
    <3>2. CASE j # hi
      <4>1. j \in lo .. hi - 1
        BY <3>2
      <4> QED
        BY <1>2, <4>1
    <3> QED
      BY <3>1, <3>2
  <2> QED
    BY <1>3, <2>1 DEF Balanced
<1>5. Outside(s, lo, hi) = {}
  <2>1. ASSUME NEW j \in lo .. hi, s[j].type \in Operators, Nesting(s, lo, j) = 0 PROVE FALSE
    <3>1. j # hi
      BY <2>1 DEF Operators
    <3>2. j \in lo .. hi - 1
      BY <3>1
    <3>3. Nesting(s, lo, j) >= 1
      BY <1>2, <3>2
    <3> QED
      BY <2>1, <3>3
  <2> QED
    BY <2>1 DEF Outside
<1>6. lo <= Len(s) + 1 /\ ~(lo >= hi)
  OBVIOUS
<1>7. TreeOf(s)[<<lo, hi>>] = TreeOf(s)[<<lo + 1, hi - 1>>]
  BY <1>5, <1>6, TreeStep
<1> QED
  BY <1>4, <1>5, <1>7

\* Two expressions and an operator between them that is looser than those of
\* the right one, and not tighter than those of the left one.
LEMMA JoinBinOp ==
  ASSUME NEW s, Len(s) \in Nat, NEW lo \in Nat \ {0}, NEW m \in Nat, NEW hi \in Nat,
         lo < m, m < hi, hi <= Len(s), s[m].type \in Operators,
         Balanced(s, lo, m - 1), Balanced(s, m + 1, hi),
         Tight(s, lo, m - 1, Level(s[m].type)), Tight(s, m + 1, hi, Level(s[m].type) + 1)
  PROVE  /\ Balanced(s, lo, hi)
         /\ Outside(s, lo, hi) = Outside(s, lo, m - 1) \cup {m} \cup Outside(s, m + 1, hi)
         /\ TreeOf(s)[<<lo, hi>>]
              = BinOp(s[m].type, TreeOf(s)[<<lo, m - 1>>], TreeOf(s)[<<m + 1, hi>>])
<1>1. Nesting(s, lo, m) = 0
  <2>1. m \in Nat \ {0} /\ lo <= m
    OBVIOUS
  <2>2. Nesting(s, lo, m) = Nesting(s, lo, m - 1) + Opens(s[m])
    BY <2>1, NestingStep
  <2>3. Opens(s[m]) = 0
    BY DEF Opens, Operators
  <2>4. Nesting(s, lo, m - 1) = 0
    BY DEF Balanced
  <2> QED
    BY <2>2, <2>3, <2>4
<1>2. ASSUME NEW j \in m + 1 .. hi PROVE Nesting(s, lo, j) = Nesting(s, m + 1, j)
  <2>1. lo \in Nat /\ j \in Nat /\ lo <= m + 1 /\ m <= j /\ m + 1 \in Nat /\ m + 1 <= j + 1 /\ j <= j
    OBVIOUS
  <2>2. Nesting(s, lo, j) = Nesting(s, lo, m) + Nesting(s, m + 1, j)
    BY <2>1, NestingSplit
  <2>3. Nesting(s, m + 1, j) \in Int
    BY <2>1, NestingSplit
  <2> QED
    BY <1>1, <2>2, <2>3
<1>3. \A j \in lo .. hi : j \in lo .. m - 1 \/ j = m \/ j \in m + 1 .. hi
  OBVIOUS
<1>4. Balanced(s, lo, hi)
  <2>1. ASSUME NEW j \in lo .. hi PROVE Nesting(s, lo, j) >= 0
    BY <1>1, <1>2, <1>3 DEF Balanced
  <2>2. hi \in m + 1 .. hi
    OBVIOUS
  <2>3. Nesting(s, lo, hi) = 0
    BY <1>2, <2>2 DEF Balanced
  <2> QED
    BY <2>1, <2>3 DEF Balanced
<1>5. Outside(s, lo, hi) = Outside(s, lo, m - 1) \cup {m} \cup Outside(s, m + 1, hi)
  <2>1. ASSUME NEW j \in Outside(s, lo, hi)
        PROVE  j \in Outside(s, lo, m - 1) \cup {m} \cup Outside(s, m + 1, hi)
    BY <1>2, <1>3 DEF Outside
  <2>2. ASSUME NEW j \in Outside(s, lo, m - 1) PROVE j \in Outside(s, lo, hi)
    BY DEF Outside
  <2>3. m \in Outside(s, lo, hi)
    BY <1>1 DEF Outside
  <2>4. ASSUME NEW j \in Outside(s, m + 1, hi) PROVE j \in Outside(s, lo, hi)
    BY <1>2 DEF Outside
  <2> QED
    BY <2>1, <2>2, <2>3, <2>4
<1>6. IsRoot(s, lo, hi, m)
  <2>0. Level(s[m].type) \in 1 .. 3
    BY LevelIn
  <2>1. ASSUME NEW j \in Outside(s, lo, hi)
        PROVE  \/ Level(s[m].type) < Level(s[j].type)
               \/ Level(s[m].type) = Level(s[j].type) /\ j <= m
    <3>1. Level(s[j].type) \in 1 .. 3 /\ j \in Nat
      BY OutsideIn
    <3>2. CASE j \in Outside(s, lo, m - 1)
      <4>1. j <= m
        BY <3>2 DEF Outside
      <4>2. Level(s[m].type) <= Level(s[j].type)
        BY <3>2 DEF Tight
      <4> QED
        BY <2>0, <3>1, <4>1, <4>2
    <3>3. CASE j \in Outside(s, m + 1, hi)
      <4>1. Level(s[m].type) + 1 <= Level(s[j].type)
        BY <3>3 DEF Tight
      <4> QED
        BY <2>0, <3>1, <4>1
    <3> QED
      BY <1>5, <3>2, <3>3
  <2>2. m \in Outside(s, lo, hi)
    BY <1>5
  <2> QED
    BY <2>1, <2>2 DEF IsRoot
<1>7. Root(s, lo, hi) = m /\ Outside(s, lo, hi) # {}
  BY <1>6, RootUnique DEF IsRoot
<1>8. lo <= Len(s) + 1 /\ ~(lo >= hi)
  OBVIOUS
<1>9. TreeOf(s)[<<lo, hi>>]
        = BinOp(s[m].type, TreeOf(s)[<<lo, m - 1>>], TreeOf(s)[<<m + 1, hi>>])
  BY <1>7, <1>8, TreeStep
<1> QED
  BY <1>4, <1>5, <1>9

(***************************************************************************)
(* What the items of the stack stand for.                                  *)
(***************************************************************************)

\* The types of the items, from the bottom to the top.
ShapeAt(stk, i) ==
  /\ stk[i].type \in {"expr", "IDENT", "(", ")"} \cup Operators
  /\ stk[i].type \in {"expr", "IDENT", "("} => i = 1 \/ stk[i - 1].type \in Operators \cup {"("}
  /\ stk[i].type \in Operators => i > 1 /\ stk[i - 1].type = "expr"
  /\ stk[i].type = "IDENT" => i = Len(stk)
  /\ stk[i].type = ")" => /\ i = Len(stk) /\ i > 2
                          /\ stk[i - 1].type = "expr" /\ stk[i - 2].type = "("
Shape(stk) == \A i \in 1 .. Len(stk) : ShapeAt(stk, i)

\* Item i stands for the tokens s[b[i - 1] + 1], ..., s[b[i]]: it is that token,
\* or the tree of the expression.
ItemOK(s, stk, b, i) ==
  /\ b[i - 1] < b[i]
  /\ stk[i].type # "expr" => b[i] = b[i - 1] + 1 /\ stk[i] = s[b[i]]
  /\ stk[i].type = "expr" => /\ stk[i] = TreeOf(s)[<<b[i - 1] + 1, b[i]>>]
                             /\ Balanced(s, b[i - 1] + 1, b[i])

\* What was reduced binds at least as tight as the operator after it, and
\* tighter than the one before it; operators that wait bind tighter and tighter.
LevelsOK(s, stk, b, i) ==
  i > 1 =>
    /\ stk[i].type = "expr" /\ stk[i - 1].type \in Operators =>
         Tight(s, b[i - 1] + 1, b[i], Level(stk[i - 1].type) + 1)
    /\ stk[i].type \in Operators =>
         /\ Tight(s, b[i - 2] + 1, b[i - 1], Level(stk[i].type))
         /\ i > 2 /\ stk[i - 2].type \in Operators => Level(stk[i - 2].type) < Level(stk[i].type)

Covers(s, stk, b, n) ==
  /\ b[0] = 0 /\ b[Len(stk)] = n
  /\ \A i \in 0 .. Len(stk) : b[i] \in 0 .. n
  /\ \A i \in 1 .. Len(stk) : ItemOK(s, stk, b, i) /\ LevelsOK(s, stk, b, i)

\* An expression on the top was reduced because of the token ahead.
TopOK(s, stk, b, n, ahead) ==
  Len(stk) > 0 /\ stk[Len(stk)].type = "expr" =>
    /\ ahead # << >>
    /\ ahead[1].type \in Operators => Tight(s, b[Len(stk) - 1] + 1, n, Level(ahead[1].type))

LEMMA ItemsBelow ==
  ASSUME NEW s, NEW stk, NEW u, NEW b, NEW c, NEW k \in Nat,
         \A i \in 1 .. k : u[i] = stk[i], \A i \in 0 .. k : c[i] = b[i],
         NEW i \in 1 .. k
  PROVE  /\ ItemOK(s, stk, b, i) => ItemOK(s, u, c, i)
         /\ LevelsOK(s, stk, b, i) => LevelsOK(s, u, c, i)
<1>1. u[i] = stk[i] /\ c[i] = b[i] /\ c[i - 1] = b[i - 1]
  <2>1. i \in 0 .. k /\ i - 1 \in 0 .. k
    OBVIOUS
  <2> QED
    BY <2>1
<1>2. i > 1 => u[i - 1] = stk[i - 1] /\ c[i - 2] = b[i - 2]
  <2>1. i > 1 => i - 1 \in 1 .. k /\ i - 2 \in 0 .. k
    OBVIOUS
  <2> QED
    BY <2>1
<1>3. i > 2 => u[i - 2] = stk[i - 2]
  <2>1. i > 2 => i - 2 \in 1 .. k
    OBVIOUS
  <2> QED
    BY <2>1
<1>4. ItemOK(s, stk, b, i) => ItemOK(s, u, c, i)
  BY <1>1, Zenon DEF ItemOK
<1>5. ASSUME LevelsOK(s, stk, b, i), i > 1
      PROVE  /\ u[i].type = "expr" /\ u[i - 1].type \in Operators =>
                  Tight(s, c[i - 1] + 1, c[i], Level(u[i - 1].type) + 1)
             /\ u[i].type \in Operators => Tight(s, c[i - 2] + 1, c[i - 1], Level(u[i].type))
  BY <1>1, <1>2, <1>5, Zenon DEF LevelsOK
<1>6. ASSUME LevelsOK(s, stk, b, i), i > 1, u[i].type \in Operators, i > 2,
             u[i - 2].type \in Operators
      PROVE  Level(u[i - 2].type) < Level(u[i].type)
  BY <1>1, <1>3, <1>6, Zenon DEF LevelsOK
<1>7. LevelsOK(s, stk, b, i) => LevelsOK(s, u, c, i)
  BY <1>5, <1>6, Zenon DEF LevelsOK
<1> QED
  BY <1>4, <1>7

\* An expression takes the place of the items after the first k.
LEMMA CoversReduced ==
  ASSUME NEW s, NEW S, NEW stk \in Seq(S), NEW b, NEW n \in Nat, Covers(s, stk, b, n),
         NEW k \in 0 .. Len(stk) - 1, NEW e, e.type = "expr",
         e = TreeOf(s)[<<b[k] + 1, n>>], b[k] < n, Balanced(s, b[k] + 1, n),
         k > 0 /\ stk[k].type \in Operators => Tight(s, b[k] + 1, n, Level(stk[k].type) + 1),
         NEW ahead, ahead # << >>,
         ahead[1].type \in Operators => Tight(s, b[k] + 1, n, Level(ahead[1].type))
  PROVE  LET u == Append(SubSeq(stk, 1, k), e)
         IN  \E c : Covers(s, u, c, n) /\ TopOK(s, u, c, n, ahead)
<1> DEFINE u == Append(SubSeq(stk, 1, k), e)
           c == [i \in 0 .. k + 1 |-> IF i <= k THEN b[i] ELSE n]
<1>0. k \in Nat /\ Len(stk) \in Nat /\ k \in 0 .. Len(stk) /\ (k + 1) - 1 = k
  OBVIOUS
<1>1. Len(u) = k + 1 /\ u[k + 1] = e /\ \A i \in 1 .. k : u[i] = stk[i]
  BY <1>0, PopPush
<1>2. c[k + 1] = n /\ \A i \in 0 .. k : c[i] = b[i]
  BY <1>0
<1> HIDE DEF u, c
<1>3. /\ b[0] = 0 /\ \A i \in 0 .. Len(stk) : b[i] \in 0 .. n
      /\ \A i \in 1 .. Len(stk) : ItemOK(s, stk, b, i) /\ LevelsOK(s, stk, b, i)
  BY DEF Covers
<1>4. c[0] = 0 /\ c[k] = b[k]
  BY <1>0, <1>2, <1>3
<1>5. ASSUME NEW i \in 0 .. k + 1 PROVE c[i] \in 0 .. n
  <2>1. CASE i = k + 1
    BY <1>2, <2>1
  <2>2. CASE i # k + 1
    <3>1. i \in 0 .. k /\ i \in 0 .. Len(stk)
      BY <1>0, <2>2
    <3> QED
      BY <1>2, <1>3, <3>1
  <2> QED
    BY <2>1, <2>2
<1>6. ASSUME NEW i \in 1 .. k PROVE ItemOK(s, u, c, i) /\ LevelsOK(s, u, c, i)
  <2>1. i \in 1 .. Len(stk)
    BY <1>0
  <2> QED
    BY <1>0, <1>1, <1>2, <1>3, <2>1, ItemsBelow
<1>7. ItemOK(s, u, c, k + 1)
  <2>1. c[(k + 1) - 1] < c[k + 1]
    BY <1>0, <1>2, <1>4
  <2>2. u[k + 1].type = "expr"
    BY <1>1
  <2>3. u[k + 1] = TreeOf(s)[<<c[(k + 1) - 1] + 1, c[k + 1]>>]
    BY <1>0, <1>1, <1>2, <1>4
  <2>4. Balanced(s, c[(k + 1) - 1] + 1, c[k + 1])
    BY <1>0, <1>2, <1>4
  <2> QED
    BY <2>1, <2>2, <2>3, <2>4, Zenon DEF ItemOK
<1>8. LevelsOK(s, u, c, k + 1)
  <2>1. u[k + 1].type \notin Operators
    BY <1>1 DEF Operators
  <2>2. ASSUME k + 1 > 1, u[(k + 1) - 1].type \in Operators
        PROVE  Tight(s, c[(k + 1) - 1] + 1, c[k + 1], Level(u[(k + 1) - 1].type) + 1)
    <3>1. k > 0 /\ k \in 1 .. k
      BY <1>0, <2>2
    <3>2. u[(k + 1) - 1] = stk[k]
      BY <1>0, <1>1, <3>1
    <3> QED
      BY <1>0, <1>2, <1>4, <2>2, <3>1, <3>2
  <2> QED
    BY <2>1, <2>2, Zenon DEF LevelsOK
<1>9. \A i \in 1 .. k + 1 : ItemOK(s, u, c, i) /\ LevelsOK(s, u, c, i)
  <2>1. \A i \in 1 .. k + 1 : i = k + 1 \/ i \in 1 .. k
    BY <1>0
  <2> QED
    BY <1>6, <1>7, <1>8, <2>1
<1>10. Covers(s, u, c, n)
  BY <1>1, <1>2, <1>4, <1>5, <1>9 DEF Covers
<1>11. TopOK(s, u, c, n, ahead)
  BY <1>0, <1>1, <1>4 DEF TopOK
<1> QED
  BY <1>10, <1>11 DEF u

\* A token is put on the stack.
LEMMA CoversShifted ==
  ASSUME NEW s, NEW S, NEW stk \in Seq(S), NEW b, NEW n \in Nat, Covers(s, stk, b, n),
         NEW t, t = s[n + 1], t.type # "expr",
         t.type \in Operators /\ Len(stk) > 0 =>
           /\ Tight(s, b[Len(stk) - 1] + 1, n, Level(t.type))
           /\ Len(stk) > 1 /\ stk[Len(stk) - 1].type \in Operators =>
                Level(stk[Len(stk) - 1].type) < Level(t.type)
  PROVE  \E c : /\ Covers(s, Append(stk, t), c, n + 1)
                /\ \A ahead : TopOK(s, Append(stk, t), c, n + 1, ahead)
<1> DEFINE d == Len(stk)
           u == Append(stk, t)
           c == [i \in 0 .. d + 1 |-> IF i <= d THEN b[i] ELSE n + 1]
<1>0. d \in Nat /\ (d + 1) - 1 = d /\ (d + 1) - 2 = d - 1
  OBVIOUS
<1>1. Len(u) = d + 1 /\ u[d + 1] = t /\ \A i \in 1 .. d : u[i] = stk[i]
  <2>1. d \in 0 .. Len(stk) /\ SubSeq(stk, 1, d) = stk
    OBVIOUS
  <2> QED
    BY <2>1, PopPush
<1>2. c[d + 1] = n + 1 /\ \A i \in 0 .. d : c[i] = b[i]
  BY <1>0
<1> HIDE DEF u, c
<1>3. /\ b[0] = 0 /\ b[d] = n /\ \A i \in 0 .. d : b[i] \in 0 .. n
      /\ \A i \in 1 .. d : ItemOK(s, stk, b, i) /\ LevelsOK(s, stk, b, i)
  BY DEF Covers
<1>4. /\ t.type \in Operators /\ d > 0 =>
           /\ Tight(s, b[d - 1] + 1, n, Level(t.type))
           /\ d > 1 /\ stk[d - 1].type \in Operators => Level(stk[d - 1].type) < Level(t.type)
  OBVIOUS
<1> HIDE DEF d
<1>5. c[0] = 0 /\ c[d] = n
  BY <1>0, <1>2, <1>3
<1>6. ASSUME NEW i \in 0 .. d + 1 PROVE c[i] \in 0 .. n + 1
  <2>1. CASE i = d + 1
    BY <1>2, <2>1
  <2>2. CASE i # d + 1
    <3>1. i \in 0 .. d
      BY <1>0, <2>2
    <3> QED
      BY <1>2, <1>3, <3>1
  <2> QED
    BY <2>1, <2>2
<1>7. ASSUME NEW i \in 1 .. d PROVE ItemOK(s, u, c, i) /\ LevelsOK(s, u, c, i)
  BY <1>0, <1>1, <1>2, <1>3, ItemsBelow
<1>8. ItemOK(s, u, c, d + 1)
  <2>1. c[(d + 1) - 1] < c[d + 1] /\ c[d + 1] = c[(d + 1) - 1] + 1
    BY <1>0, <1>2, <1>5
  <2>2. u[d + 1].type # "expr" /\ u[d + 1] = s[c[d + 1]]
    BY <1>1, <1>2
  <2> QED
    BY <2>1, <2>2, Zenon DEF ItemOK
<1>9. LevelsOK(s, u, c, d + 1)
  <2>1. u[d + 1].type # "expr"
    BY <1>1
  <2>2. ASSUME d + 1 > 1, u[d + 1].type \in Operators
        PROVE  Tight(s, c[(d + 1) - 2] + 1, c[(d + 1) - 1], Level(u[d + 1].type))
    <3>1. d > 0 /\ d - 1 \in 0 .. d
      BY <1>0, <2>2
    <3>2. c[(d + 1) - 2] = b[d - 1] /\ c[(d + 1) - 1] = n
      BY <1>0, <1>2, <1>5, <3>1
    <3>3. Tight(s, b[d - 1] + 1, n, Level(t.type))
      BY <1>1, <1>4, <2>2, <3>1
    <3> QED
      BY <1>1, <3>2, <3>3
  <2>3. ASSUME d + 1 > 2, u[d + 1].type \in Operators, u[(d + 1) - 2].type \in Operators
        PROVE  Level(u[(d + 1) - 2].type) < Level(u[d + 1].type)
    <3>1. d > 0 /\ d > 1 /\ d - 1 \in 1 .. d
      BY <1>0, <2>3
    <3>2. u[(d + 1) - 2] = stk[d - 1]
      BY <1>0, <1>1, <3>1
    <3> QED
      BY <1>1, <1>4, <2>3, <3>1, <3>2
  <2> QED
    BY <2>1, <2>2, <2>3, Zenon DEF LevelsOK
<1>10. \A i \in 1 .. d + 1 : ItemOK(s, u, c, i) /\ LevelsOK(s, u, c, i)
  <2>1. \A i \in 1 .. d + 1 : i = d + 1 \/ i \in 1 .. d
    BY <1>0
  <2> QED
    BY <1>7, <1>8, <1>9, <2>1
<1>11. Covers(s, u, c, n + 1)
  BY <1>1, <1>2, <1>5, <1>6, <1>10 DEF Covers
<1>12. \A ahead : TopOK(s, u, c, n + 1, ahead)
  BY <1>1 DEF TopOK
<1> QED
  BY <1>11, <1>12 DEF u

LEMMA TightLocal ==
  ASSUME NEW s, NEW t, NEW lo \in Nat, NEW hi \in Nat, \A j \in lo .. hi : s[j] = t[j], NEW l
  PROVE  /\ Tight(s, lo, hi, l) => Tight(t, lo, hi, l)
         /\ Balanced(s, lo, hi) => Balanced(t, lo, hi)
<1>1. Outside(s, lo, hi) = Outside(t, lo, hi)
  BY OutsideLocal
<1>2. \A j \in Outside(t, lo, hi) : s[j] = t[j]
  BY DEF Outside
<1>3. Tight(s, lo, hi, l) => Tight(t, lo, hi, l)
  BY <1>1, <1>2 DEF Tight
<1>4. Nesting(s, lo, hi) = Nesting(t, lo, hi)
  BY NestingLocal, hi \in Int
<1>5. ASSUME NEW i \in lo .. hi PROVE Nesting(s, lo, i) = Nesting(t, lo, i)
  <2>1. i \in Int /\ \A j \in lo .. i : s[j] = t[j]
    OBVIOUS
  <2> QED
    BY <2>1, NestingLocal
<1>6. Balanced(s, lo, hi) => Balanced(t, lo, hi)
  BY <1>4, <1>5 DEF Balanced
<1> QED
  BY <1>3, <1>6

LEMMA TreeAppended ==
  ASSUME NEW s, NEW t, NEW n \in Nat, Len(s) = n, Len(t) = n + 1, \A j \in 1 .. n : s[j] = t[j],
         NEW lo \in 1 .. n, NEW hi \in 0 .. n - 1, lo <= hi + 1
  PROVE  SameTree(s, t, lo, hi)
<1>1. Len(s) \in Nat /\ Len(t) \in Nat /\ n <= Len(s) /\ n <= Len(t)
  OBVIOUS
<1> QED
  BY <1>1, TreeLocal

\* More tokens come: what is on the stack stands for the same, since there is
\* no expression on the top.
LEMMA CoversAppended ==
  ASSUME NEW s, NEW t, NEW n \in Nat, Len(s) = n, Len(t) = n + 1, \A j \in 1 .. n : s[j] = t[j],
         NEW stk, Len(stk) \in Nat, NEW b, Covers(s, stk, b, n),
         Len(stk) > 0 => stk[Len(stk)].type # "expr"
  PROVE  Covers(t, stk, b, n)
<1> DEFINE d == Len(stk)
<1>1. /\ b[0] = 0 /\ b[d] = n /\ \A i \in 0 .. d : b[i] \in 0 .. n
      /\ \A i \in 1 .. d : ItemOK(s, stk, b, i) /\ LevelsOK(s, stk, b, i)
  BY DEF Covers
<1>2. d \in Nat /\ (d > 0 => stk[d].type # "expr")
  OBVIOUS
<1> HIDE DEF d
<1>3. ASSUME NEW lo \in Nat \ {0}, NEW hi \in 0 .. n, NEW l
      PROVE  /\ Tight(s, lo, hi, l) => Tight(t, lo, hi, l)
             /\ Balanced(s, lo, hi) => Balanced(t, lo, hi)
  <2>1. hi \in Nat /\ lo \in Nat /\ \A j \in lo .. hi : s[j] = t[j]
    OBVIOUS
  <2> QED
    BY <2>1, TightLocal
<1>4. ASSUME NEW i \in 1 .. d PROVE ItemOK(t, stk, b, i)
  <2>1. ItemOK(s, stk, b, i) /\ i \in 0 .. d /\ i - 1 \in 0 .. d
    BY <1>1, <1>2
  <2>2. b[i] \in 0 .. n /\ b[i - 1] \in 0 .. n /\ b[i - 1] < b[i]
    BY <1>1, <2>1 DEF ItemOK
  <2>3. ASSUME stk[i].type # "expr" PROVE b[i] = b[i - 1] + 1 /\ stk[i] = t[b[i]]
    <3>1. b[i] = b[i - 1] + 1 /\ stk[i] = s[b[i]]
      BY <2>1, <2>3 DEF ItemOK
    <3>2. b[i] \in 1 .. n
      BY <2>2
    <3> QED
      BY <3>1, <3>2
  <2>4. ASSUME stk[i].type = "expr"
        PROVE  /\ stk[i] = TreeOf(t)[<<b[i - 1] + 1, b[i]>>]
               /\ Balanced(t, b[i - 1] + 1, b[i])
    <3>1. stk[i] = TreeOf(s)[<<b[i - 1] + 1, b[i]>>] /\ Balanced(s, b[i - 1] + 1, b[i])
      BY <2>1, <2>4 DEF ItemOK
    <3>2. i # d
      BY <1>2, <2>4
    <3>3. i + 1 \in 1 .. d /\ i + 1 \in 0 .. d /\ (i + 1) - 1 = i
      BY <1>2, <3>2
    <3>4. b[(i + 1) - 1] < b[i + 1] /\ b[i + 1] \in 0 .. n
      BY <1>1, <3>3 DEF ItemOK
    <3>5. b[i] \in 0 .. n - 1 /\ b[i - 1] + 1 \in 1 .. n /\ b[i - 1] + 1 <= b[i] + 1
      <4>1. \A x, y, z \in 0 .. n :
              x < y /\ y < z => y \in 0 .. n - 1 /\ x + 1 \in 1 .. n /\ x + 1 <= y + 1
        OBVIOUS
      <4>2. b[i] < b[i + 1]
        BY <3>3, <3>4, Zenon
      <4> QED
        BY <2>2, <3>4, <4>1, <4>2, Zenon
    <3>6. Len(s) \in Nat /\ Len(t) \in Nat /\ n <= Len(s) /\ n <= Len(t)
      OBVIOUS
    <3>7. TreeOf(s)[<<b[i - 1] + 1, b[i]>>] = TreeOf(t)[<<b[i - 1] + 1, b[i]>>]
      <4>1. SameTree(s, t, b[i - 1] + 1, b[i])
        BY <3>5, TreeAppended
      <4> QED
        BY <4>1 DEF SameTree
    <3>8. Balanced(t, b[i - 1] + 1, b[i])
      <4>1. b[i - 1] + 1 \in Nat \ {0}
        BY <2>2
      <4> QED
        BY <1>3, <2>2, <3>1, <4>1
    <3> QED
      BY <3>1, <3>7, <3>8
  <2> QED
    BY <2>2, <2>3, <2>4, Zenon DEF ItemOK
<1>5. ASSUME NEW i \in 1 .. d PROVE LevelsOK(t, stk, b, i)
  <2>1. LevelsOK(s, stk, b, i) /\ i \in 0 .. d /\ i - 1 \in 0 .. d /\ (i > 1 => i - 2 \in 0 .. d)
    BY <1>1, <1>2
  <2>2. /\ b[i] \in 0 .. n /\ b[i - 1] \in 0 .. n /\ b[i - 1] + 1 \in Nat \ {0}
        /\ i > 1 => b[i - 2] + 1 \in Nat \ {0}
    BY <1>1, <2>1
  <2>3. ASSUME i > 1, stk[i].type = "expr", stk[i - 1].type \in Operators
        PROVE  Tight(t, b[i - 1] + 1, b[i], Level(stk[i - 1].type) + 1)
    <3>1. Tight(s, b[i - 1] + 1, b[i], Level(stk[i - 1].type) + 1)
      BY <2>1, <2>3, Zenon DEF LevelsOK
    <3> QED
      BY <1>3, <2>2, <3>1
  <2>4. ASSUME i > 1, stk[i].type \in Operators
        PROVE  Tight(t, b[i - 2] + 1, b[i - 1], Level(stk[i].type))
    <3>1. Tight(s, b[i - 2] + 1, b[i - 1], Level(stk[i].type))
      BY <2>1, <2>4, Zenon DEF LevelsOK
    <3> QED
      BY <1>3, <2>2, <2>4, <3>1
  <2>5. ASSUME i > 1, stk[i].type \in Operators, i > 2, stk[i - 2].type \in Operators
        PROVE  Level(stk[i - 2].type) < Level(stk[i].type)
    BY <2>1, <2>5, Zenon DEF LevelsOK
  <2> QED
    BY <2>3, <2>4, <2>5, Zenon DEF LevelsOK
<1> QED
  BY <1>1, <1>4, <1>5 DEF Covers, d

LEMMA ShapeBelow ==
  ASSUME NEW stk, NEW u, Len(stk) \in Nat, Shape(stk), NEW k \in 0 .. Len(stk), Len(u) = k + 1,
         \A i \in 1 .. k : u[i] = stk[i],
         k = Len(stk) => k = 0 \/ stk[k].type \notin {"IDENT", ")"},
         ShapeAt(u, k + 1)
  PROVE  Shape(u)
<1> DEFINE d == Len(stk)
<1>1. d \in Nat /\ k \in 0 .. d /\ (k = d => k = 0 \/ stk[k].type \notin {"IDENT", ")"})
      /\ \A i \in 1 .. d : ShapeAt(stk, i)
  BY DEF Shape
<1>2. ASSUME NEW i \in 1 .. k PROVE ShapeAt(u, i)
  <2>1. i \in 1 .. d
    BY <1>1
  <2>2. ShapeAt(stk, i) /\ u[i] = stk[i]
    BY <1>1, <2>1
  <2>3. i > 1 => u[i - 1] = stk[i - 1]
    BY <1>1
  <2>4. stk[i].type \notin {"IDENT", ")"}
    <3>1. CASE i = d
      BY <1>1, <3>1
    <3>2. CASE i # d
      BY <2>2, <3>2 DEF ShapeAt
    <3> QED
      BY <3>1, <3>2
  <2>5. u[i].type \in {"expr", "IDENT", "("} => i = 1 \/ u[i - 1].type \in Operators \cup {"("}
    <3>1. i = 1 \/ i > 1
      BY <1>1
    <3> QED
      BY <2>2, <2>3, <3>1, Zenon DEF ShapeAt
  <2>6. u[i].type \in Operators => i > 1 /\ u[i - 1].type = "expr"
    BY <2>2, <2>3, Zenon DEF ShapeAt
  <2>7. u[i].type \in {"expr", "IDENT", "(", ")"} \cup Operators
    BY <2>2 DEF ShapeAt
  <2> QED
    BY <2>2, <2>4, <2>5, <2>6, <2>7 DEF ShapeAt
<1>3. \A i \in 1 .. k + 1 : i = k + 1 \/ i \in 1 .. k
  BY <1>1
<1> QED
  BY <1>2, <1>3 DEF Shape

(***************************************************************************)
(* The parser's trees.                                                     *)
(***************************************************************************)

\* The stack stands for the tokens that are shifted, and at the end it has the
\* expression only.
TreeInv ==
  /\ Shape(stack)
  /\ \E b : /\ Covers(tokens, stack, b, Shifted)
            /\ TopOK(tokens, stack, b, Shifted, look)
  /\ phase \in {"visit", "over"} => look # << >> /\ Len(stack) = 1 /\ stack[1].type = "expr"

\* A reduction to e of the items after the first k.
LEMMA TreeInvReduced ==
  ASSUME LexOK, ErrInv, TreeInv, phase' = "parse", look # << >>, UNCHANGED <<look, tokens>>,
         NEW b, Covers(tokens, stack, b, Shifted),
         NEW k \in 0 .. Len(stack) - 1, NEW e, e.type = "expr",
         stack' = Append(SubSeq(stack, 1, k), e),
         k = 0 \/ stack[k].type \in Operators \cup {"("},
         e = TreeOf(tokens)[<<b[k] + 1, Shifted>>], b[k] < Shifted,
         Balanced(tokens, b[k] + 1, Shifted),
         k > 0 /\ stack[k].type \in Operators =>
           Tight(tokens, b[k] + 1, Shifted, Level(stack[k].type) + 1),
         look[1].type \in Operators => Tight(tokens, b[k] + 1, Shifted, Level(look[1].type))
  PROVE  TreeInv'
<1>1. PICK S : stack \in Seq(S)
  BY DEF ErrInv
<1>2. Len(stack) \in Nat /\ k \in Nat /\ k \in 0 .. Len(stack) /\ k # Len(stack) /\ (k + 1) - 1 = k
  BY <1>1
<1>3. Shifted \in Nat /\ Shifted' = Shifted
  BY ShiftedIs DEF LexOK, ErrInv, Shifted
<1>4. Len(stack') = k + 1 /\ stack'[k + 1] = e /\ \A i \in 1 .. k : stack'[i] = stack[i]
  BY <1>1, <1>2, PopPush
<1>5. ShapeAt(stack', k + 1)
  <2>1. stack'[k + 1].type = "expr"
    BY <1>4
  <2>2. k + 1 = 1 \/ stack'[(k + 1) - 1].type \in Operators \cup {"("}
    <3>1. CASE k = 0
      BY <3>1
    <3>2. CASE k # 0
      <4>1. k \in 1 .. k
        BY <1>2, <3>2
      <4>2. stack'[k] = stack[k]
        BY <1>4, <4>1
      <4> QED
        BY <1>2, <3>2, <4>2
    <3> QED
      BY <3>1, <3>2
  <2> QED
    BY <2>1, <2>2 DEF ShapeAt, Operators
<1>6. Shape(stack')
  <2>1. Shape(stack)
    BY DEF TreeInv
  <2> QED
    BY <1>2, <1>4, <1>5, <2>1, ShapeBelow
<1>7. \E c : Covers(tokens, stack', c, Shifted) /\ TopOK(tokens, stack', c, Shifted, look)
  BY <1>1, <1>3, CoversReduced
<1>8. \E c : /\ Covers(tokens', stack', c, Shifted')
             /\ TopOK(tokens', stack', c, Shifted', look')
  BY <1>3, <1>7
<1>9. phase' \notin {"visit", "over"}
  OBVIOUS
<1> QED
  BY <1>6, <1>8, <1>9 DEF TreeInv

LEMMA TreeInvReduce ==
  ASSUME LexOK, ErrInv, TreeInv, Reduce
  PROVE  TreeInv'
<1> DEFINE s == tokens
           n == Shifted
           d == Len(stack)
<1>1. /\ d \in Nat /\ n \in Nat /\ Len(s) \in Nat /\ n <= Len(s)
      /\ look # << >> /\ Ahead = look[1].type
  BY StackLen, ShiftedIs DEF LexOK, ErrInv, Reduce, Parsing, Ahead
<1>2. /\ phase' = "parse" /\ UNCHANGED <<look, tokens>>
      /\ ReduceIdent \/ ReduceParens \/ ReduceBinOp
  BY <1>1, ReduceCases
<1>3. PICK b : Covers(s, stack, b, n)
  BY DEF TreeInv
<1>4. /\ b[d] = n /\ \A i \in 0 .. d : b[i] \in 0 .. n
      /\ \A i \in 1 .. d : ItemOK(s, stack, b, i) /\ LevelsOK(s, stack, b, i) /\ ShapeAt(stack, i)
  BY <1>3 DEF Covers, TreeInv, Shape
<1> DEFINE Joined(k, e) ==
             /\ e.type = "expr" /\ stack' = Append(SubSeq(stack, 1, k), e)
             /\ k = 0 \/ stack[k].type \in Operators \cup {"("}
             /\ e = TreeOf(s)[<<b[k] + 1, n>>] /\ b[k] < n /\ Balanced(s, b[k] + 1, n)
             /\ k > 0 /\ stack[k].type \in Operators => Tight(s, b[k] + 1, n, Level(stack[k].type) + 1)
             /\ look[1].type \in Operators => Tight(s, b[k] + 1, n, Level(look[1].type))
<1>5. ASSUME NEW k \in 0 .. d - 1, NEW e, Joined(k, e) PROVE TreeInv'
  BY <1>1, <1>2, <1>3, <1>5, TreeInvReduced
<1> HIDE DEF s, n, d
<1>6. CASE ReduceIdent
  <2> DEFINE k == d - 1
  <2>1. /\ d >= 1 /\ stack[d].type = "IDENT" /\ k \in 0 .. d - 1 /\ d \in 1 .. d
        /\ stack' = Append(SubSeq(stack, 1, k), Leaf(stack[d]))
    BY <1>1, <1>6 DEF ReduceIdent, d
  <2>2. b[d] = b[d - 1] + 1 /\ stack[d] = s[b[d]]
    BY <1>4, <2>1 DEF ItemOK
  <2>3. b[k] \in 0 .. n /\ b[k] + 1 = n /\ stack[d] = s[n] /\ n \in Nat \ {0} /\ b[k] < n
    <3>1. k \in 0 .. d
      BY <1>1, <2>1
    <3>2. b[k] \in 0 .. n
      BY <1>4, <3>1
    <3> QED
      BY <1>1, <1>4, <2>2, <3>2
  <2>4. /\ Balanced(s, n, n) /\ Outside(s, n, n) = {}
        /\ TreeOf(s)[<<n, n>>] = Leaf(s[n])
    BY <1>1, <2>1, <2>3, JoinIdent
  <2>5. k = 0 \/ stack[k].type \in Operators \cup {"("}
    <3>1. d = 1 \/ stack[d - 1].type \in Operators \cup {"("}
      BY <1>4, <2>1 DEF ShapeAt
    <3> QED
      BY <1>1, <3>1
  <2>6. \A l : Tight(s, n, n, l)
    BY <2>4 DEF Tight
  <2>7. Leaf(stack[d]).type = "expr"
    BY DEF Leaf
  <2>8. Leaf(stack[d]) = TreeOf(s)[<<b[k] + 1, n>>] /\ Balanced(s, b[k] + 1, n)
        /\ \A l : Tight(s, b[k] + 1, n, l)
    BY <2>3, <2>4, <2>6
  <2> HIDE DEF k
  <2>9. Joined(k, Leaf(stack[d]))
    BY <2>1, <2>3, <2>5, <2>7, <2>8
  <2> QED
    BY <1>5, <2>1, <2>9
<1>7. ASSUME d >= 3
      PROVE  /\ d - 3 \in 0 .. d - 1 /\ d - 2 \in 1 .. d /\ d - 1 \in 1 .. d /\ d \in 1 .. d
             /\ (d - 2) - 1 = d - 3 /\ (d - 1) - 1 = d - 2 /\ (d - 1) - 2 = d - 3
             /\ b[d - 3] \in Nat /\ b[d - 2] \in Nat /\ b[d - 1] \in Nat
  <2>1. /\ d - 3 \in 0 .. d /\ d - 2 \in 0 .. d /\ d - 1 \in 0 .. d
    BY <1>1, <1>7
  <2>2. b[d - 3] \in 0 .. n /\ b[d - 2] \in 0 .. n /\ b[d - 1] \in 0 .. n
    BY <1>4, <2>1
  <2> QED
    BY <1>1, <1>7, <2>2
<1>8. CASE ReduceParens
  <2> DEFINE lo == b[d - 2]
             k == d - 3
  <2>1. /\ d >= 3 /\ stack[d - 2].type = "(" /\ stack[d - 1].type = "expr" /\ stack[d].type = ")"
        /\ stack' = Append(SubSeq(stack, 1, k), stack[d - 1])
    BY <1>8 DEF ReduceParens, LastThree, d
  <2>2. /\ b[d - 2] = b[(d - 2) - 1] + 1 /\ stack[d - 2] = s[b[d - 2]]
    BY <1>4, <1>7, <2>1 DEF ItemOK
  <2>3. /\ b[(d - 1) - 1] < b[d - 1] /\ stack[d - 1] = TreeOf(s)[<<b[(d - 1) - 1] + 1, b[d - 1]>>]
        /\ Balanced(s, b[(d - 1) - 1] + 1, b[d - 1])
    BY <1>4, <1>7, <2>1 DEF ItemOK
  <2>4. b[d] = b[d - 1] + 1 /\ stack[d] = s[b[d]]
    BY <1>4, <1>7, <2>1 DEF ItemOK
  <2>5. /\ lo = b[k] + 1 /\ s[lo].type = "("
    BY <1>7, <2>1, <2>2
  <2>6. b[d - 1] = n - 1 /\ lo < n /\ lo \in Nat \ {0} /\ b[k] < n /\ s[n].type = ")"
    BY <1>1, <1>4, <1>7, <2>1, <2>3, <2>4, <2>5, SMTT(30)
  <2>7. stack[d - 1] = TreeOf(s)[<<lo + 1, n - 1>>] /\ Balanced(s, lo + 1, n - 1)
    BY <1>7, <2>1, <2>3, <2>6
  <2>8. k = 0 \/ stack[k].type \in Operators \cup {"("}
    <3>1. d - 2 = 1 \/ stack[(d - 2) - 1].type \in Operators \cup {"("}
      BY <1>4, <1>7, <2>1 DEF ShapeAt
    <3> QED
      BY <1>1, <1>7, <2>1, <3>1
  <2>9. k \in 0 .. d - 1
    BY <1>7, <2>1
  <2> HIDE DEF lo, k
  <2>10. /\ Balanced(s, lo, n) /\ Outside(s, lo, n) = {}
         /\ TreeOf(s)[<<lo, n>>] = TreeOf(s)[<<lo + 1, n - 1>>]
    BY <1>1, <2>5, <2>6, <2>7, JoinParens
  <2>11. \A l : Tight(s, lo, n, l)
    BY <2>10 DEF Tight
  <2>12. stack[d - 1] = TreeOf(s)[<<b[k] + 1, n>>] /\ Balanced(s, b[k] + 1, n)
         /\ \A l : Tight(s, b[k] + 1, n, l)
    BY <2>5, <2>7, <2>10, <2>11
  <2>13. Joined(k, stack[d - 1])
    BY <2>1, <2>6, <2>8, <2>12
  <2> QED
    BY <1>5, <2>9, <2>13
<1>9. CASE ReduceBinOp
  <2> DEFINE k == d - 3
             lo == b[k] + 1
             m == b[d - 1]
             op == stack[d - 1].type
             e == BinOp(op, stack[d - 2], stack[d])
  <2>1. /\ d >= 3 /\ stack[d - 2].type = "expr" /\ op \in Operators
        /\ stack[d].type = "expr" /\ stack' = Append(SubSeq(stack, 1, k), e)
        /\ ReduceFirst(op, look[1].type)
    BY <1>1, <1>9 DEF ReduceBinOp, LastThree, d
  <2>2. op # "expr"
    BY <2>1 DEF Operators
  <2>3. /\ b[(d - 2) - 1] < b[d - 2] /\ stack[d - 2] = TreeOf(s)[<<b[(d - 2) - 1] + 1, b[d - 2]>>]
        /\ Balanced(s, b[(d - 2) - 1] + 1, b[d - 2])
    BY <1>4, <1>7, <2>1 DEF ItemOK
  <2>4. b[d - 1] = b[(d - 1) - 1] + 1 /\ stack[d - 1] = s[b[d - 1]]
    BY <1>4, <1>7, <2>1, <2>2 DEF ItemOK
  <2>5. /\ b[d - 1] < b[d] /\ stack[d] = TreeOf(s)[<<b[d - 1] + 1, b[d]>>]
        /\ Balanced(s, b[d - 1] + 1, b[d])
    BY <1>4, <1>7, <2>1 DEF ItemOK
  <2>6. /\ m - 1 = b[d - 2] /\ op = s[m].type /\ lo < m /\ m < n /\ b[k] < n
        /\ lo \in Nat \ {0} /\ m \in Nat /\ k \in 0 .. d - 1
    <3>1. /\ b[k] \in Nat /\ b[d - 2] \in Nat /\ m \in Nat /\ k \in 0 .. d - 1
          /\ b[k] < b[d - 2] /\ m = b[d - 2] + 1
      BY <1>7, <2>1, <2>3, <2>4
    <3>2. m < n
      BY <1>4, <2>5
    <3>3. op = s[m].type
      BY <2>4
    <3>4. b[k] + 1 < m /\ b[k] < m /\ b[k] + 1 \in Nat \ {0}
      <4>1. \A x, y \in Nat : x < y => x + 1 < y + 1 /\ x < y + 1 /\ x + 1 \in Nat \ {0}
        OBVIOUS
      <4> QED
        BY <3>1, <4>1, Zenon
    <3>5. b[k] < n
      <4>1. \A x, y, z \in Nat : x < y /\ y < z => x < z
        OBVIOUS
      <4>2. n \in Nat
        BY <1>1
      <4> QED
        BY <3>1, <3>2, <3>4, <4>1, <4>2, Zenon
    <3>6. m - 1 = b[d - 2]
      <4>1. \A x \in Nat : (x + 1) - 1 = x
        OBVIOUS
      <4> QED
        BY <3>1, <4>1, Zenon
    <3> QED
      BY <3>1, <3>2, <3>3, <3>4, <3>5, <3>6, Zenon
  <2>7. /\ stack[d - 2] = TreeOf(s)[<<lo, m - 1>>] /\ Balanced(s, lo, m - 1)
        /\ stack[d] = TreeOf(s)[<<m + 1, n>>] /\ Balanced(s, m + 1, n)
    BY <1>4, <1>7, <2>1, <2>3, <2>5, <2>6
  <2>8. Tight(s, lo, m - 1, Level(op))
    <3>1. d - 1 > 1
      BY <1>1, <2>1
    <3>2. Tight(s, b[(d - 1) - 2] + 1, b[(d - 1) - 1], Level(op))
      BY <1>4, <1>7, <2>1, <3>1, Zenon DEF LevelsOK
    <3> QED
      BY <1>7, <2>1, <2>6, <3>2
  <2>9. Tight(s, m + 1, n, Level(op) + 1)
    <3>1. d > 1
      BY <1>1, <2>1
    <3>2. Tight(s, b[d - 1] + 1, b[d], Level(op) + 1)
      BY <1>4, <1>7, <2>1, <3>1, Zenon DEF LevelsOK
    <3> QED
      BY <1>4, <3>2
  <2>10. k = 0 \/ stack[k].type \in Operators \cup {"("}
    <3>1. d - 2 = 1 \/ stack[(d - 2) - 1].type \in Operators \cup {"("}
      BY <1>4, <1>7, <2>1 DEF ShapeAt
    <3> QED
      BY <1>1, <1>7, <2>1, <3>1
  <2>11. ASSUME k > 0, stack[k].type \in Operators
         PROVE  Tight(s, lo, m - 1, Level(stack[k].type) + 1) /\ Level(stack[k].type) < Level(op)
    <3>1. d - 2 > 1 /\ d - 1 > 1 /\ d - 1 > 2
      BY <1>1, <2>1, <2>11
    <3>2. Tight(s, b[(d - 2) - 1] + 1, b[d - 2], Level(stack[(d - 2) - 1].type) + 1)
      <4>1. stack[(d - 2) - 1].type \in Operators
        BY <1>7, <2>1, <2>11
      <4> QED
        BY <1>4, <1>7, <2>1, <3>1, <4>1, Zenon DEF LevelsOK
    <3>3. Level(stack[(d - 1) - 2].type) < Level(op)
      <4>1. stack[(d - 1) - 2].type \in Operators
        BY <1>7, <2>1, <2>11
      <4> QED
        BY <1>4, <1>7, <2>1, <3>1, <4>1, Zenon DEF LevelsOK
    <3> QED
      BY <1>7, <2>1, <2>6, <3>2, <3>3
  <2> HIDE DEF k, lo, m, op
  <2>12. /\ Balanced(s, lo, n)
         /\ Outside(s, lo, n) = Outside(s, lo, m - 1) \cup {m} \cup Outside(s, m + 1, n)
         /\ TreeOf(s)[<<lo, n>>]
              = BinOp(s[m].type, TreeOf(s)[<<lo, m - 1>>], TreeOf(s)[<<m + 1, n>>])
    BY <1>1, <2>1, <2>6, <2>7, <2>8, <2>9, JoinBinOp
  <2>13. ASSUME NEW l \in Int, l <= Level(op), Tight(s, lo, m - 1, l) PROVE Tight(s, lo, n, l)
    <3> SUFFICES ASSUME NEW j \in Outside(s, lo, n) PROVE l <= Level(s[j].type)
      BY DEF Tight
    <3>1. Level(op) \in Int
      BY <2>1, LevelIn
    <3>2. CASE j \in Outside(s, lo, m - 1)
      BY <2>13, <3>2 DEF Tight
    <3>3. CASE j = m
      BY <2>6, <2>13, <3>3
    <3>4. CASE j \in Outside(s, m + 1, n)
      <4>1. Level(op) + 1 <= Level(s[j].type)
        BY <2>9, <3>4 DEF Tight
      <4>2. Level(s[j].type) \in Int
        BY <1>1, <2>6, <3>4, OutsideIn, m + 1 \in Nat
      <4> QED
        BY <2>13, <3>1, <4>1, <4>2
    <3> QED
      BY <2>12, <3>2, <3>3, <3>4
  <2>14. ASSUME k > 0, stack[k].type \in Operators PROVE Tight(s, lo, n, Level(stack[k].type) + 1)
    <3>1. Level(op) \in Int /\ Level(stack[k].type) \in Int
      BY <2>1, <2>14, LevelIn
    <3>2. Level(stack[k].type) + 1 <= Level(op) /\ Level(stack[k].type) + 1 \in Int
      BY <2>11, <2>14, <3>1
    <3> QED
      BY <2>11, <2>13, <2>14, <3>2
  <2>15. ASSUME look[1].type \in Operators PROVE Tight(s, lo, n, Level(look[1].type))
    <3>1. Level(op) \in Int /\ Level(look[1].type) \in Int
      BY <2>1, <2>15, LevelIn
    <3>2. Level(look[1].type) <= Level(op)
      BY <2>1, <2>15 DEF ReduceFirst
    <3>3. Tight(s, lo, m - 1, Level(look[1].type))
      <4> SUFFICES ASSUME NEW j \in Outside(s, lo, m - 1) PROVE Level(look[1].type) <= Level(s[j].type)
        BY DEF Tight
      <4>1. Level(s[j].type) \in Int
        BY <2>6, OutsideIn, lo \in Nat, m - 1 \in Nat
      <4>2. Level(op) <= Level(s[j].type)
        BY <2>8 DEF Tight
      <4> QED
        BY <3>1, <3>2, <4>1, <4>2
    <3> QED
      BY <2>13, <3>1, <3>2, <3>3
  <2>16. e.type = "expr"
    BY DEF BinOp
  <2>17. e = TreeOf(s)[<<lo, n>>]
    BY <2>6, <2>7, <2>12
  <2> HIDE DEF e
  <2>18. Joined(k, e)
    BY <2>1, <2>6, <2>10, <2>12, <2>14, <2>15, <2>16, <2>17 DEF lo
  <2> QED
    BY <1>5, <2>6, <2>18
<1> QED
  BY <1>2, <1>6, <1>8, <1>9

\* An operand has ended and nothing can be reduced: there is an expression on
\* the top, and below it nothing, a parenthesis, or an operator that is looser
\* than the token ahead.
LEMMA Irreducible ==
  ASSUME ErrInv, TreeInv, AfterOperand, ~Reducible
  PROVE  LET d == Len(stack)
         IN  /\ d \in Nat \ {0} /\ stack[d].type = "expr"
             /\ \/ d = 1
                \/ d > 1 /\ stack[d - 1].type = "("
                \/ /\ d > 1 /\ stack[d - 1].type \in Operators
                   /\ ~ReduceFirst(stack[d - 1].type, Ahead)
<1> DEFINE d == Len(stack)
<1>1. d \in Nat /\ stack # << >> /\ (stack = << >> <=> d = 0)
      /\ stack[d].type \notin Operators \cup {"("}
  BY StackLen DEF AfterOperand
<1>2. /\ Ends(1, {<<"IDENT">>}) <=> d >= 1 /\ stack[d].type = "IDENT"
      /\ Closed <=> LastThree("(", "expr", ")")
      /\ Pending <=> \E op \in Operators : LastThree("expr", op, "expr")
  BY <1>1, EndsOne, ClosedMeans, PendingMeans
<1>3. d \in Nat \ {0} /\ d \in 1 .. d /\ d >= 1
  BY <1>1
<1>4. \A i \in 1 .. d : ShapeAt(stack, i)
  BY DEF TreeInv, Shape
<1>5. Top(2) = stack[d - 1]
  BY <1>1, \A a \in Nat : a - 2 + 1 = a - 1 DEF Top
<1>6. LastThree("(", "expr", ")") <=> /\ d >= 3 /\ stack[d - 2].type = "("
                                      /\ stack[d - 1].type = "expr" /\ stack[d].type = ")"
  BY DEF LastThree
<1>7. \A op : LastThree("expr", op, "expr") <=> /\ d >= 3 /\ stack[d - 2].type = "expr"
                                               /\ stack[d - 1].type = op /\ stack[d].type = "expr"
  BY DEF LastThree
<1> HIDE DEF d
<1>8. stack[d].type # "IDENT"
  BY <1>2, <1>3 DEF Reducible
<1>9. stack[d].type # ")"
  <2>1. ASSUME stack[d].type = ")" PROVE FALSE
    <3>1. d > 2 /\ stack[d - 1].type = "expr" /\ stack[d - 2].type = "("
      BY <1>3, <1>4, <2>1 DEF ShapeAt
    <3>2. d >= 3
      BY <1>1, <3>1
    <3> QED
      BY <1>2, <1>6, <2>1, <3>1, <3>2 DEF Reducible
  <2> QED
    BY <2>1
<1>10. stack[d].type = "expr"
  BY <1>1, <1>3, <1>4, <1>8, <1>9 DEF ShapeAt
<1>11. d = 1 \/ (d > 1 /\ stack[d - 1].type \in Operators \cup {"("})
  <2>1. d = 1 \/ stack[d - 1].type \in Operators \cup {"("}
    BY <1>3, <1>4, <1>10 DEF ShapeAt
  <2> QED
    BY <1>3, <2>1
<1>12. ASSUME d > 1, stack[d - 1].type \in Operators
       PROVE  ~ReduceFirst(stack[d - 1].type, Ahead)
  <2>1. d - 1 \in 1 .. d /\ (d - 1) - 1 = d - 2
    BY <1>1, <1>12
  <2>2. d - 1 > 1 /\ stack[d - 2].type = "expr"
    BY <1>4, <1>12, <2>1 DEF ShapeAt
  <2>3. d >= 3
    BY <1>1, <2>2
  <2>4. Pending
    BY <1>2, <1>7, <1>10, <1>12, <2>2, <2>3
  <2> QED
    BY <1>5, <2>4 DEF Reducible
<1> QED
  BY <1>3, <1>10, <1>11, <1>12 DEF d

\* With an expression on the top there is no closing parenthesis on the stack.
LEMMA OpenBelow ==
  ASSUME ErrInv, TreeInv, Len(stack) > 0, stack[Len(stack)].type = "expr"
  PROVE  OnStack("(") > OnStack(")") <=> \E i \in 1 .. Len(stack) : stack[i].type = "("
<1>1. Len(stack) \in Nat /\ DOMAIN stack = 1 .. Len(stack)
  BY DEF ErrInv
<1>2. \A i \in 1 .. Len(stack) : stack[i].type # ")"
  BY DEF TreeInv, Shape, ShapeAt
<1> DEFINE O == {i \in DOMAIN stack : stack[i].type = "("}
           C == {i \in DOMAIN stack : stack[i].type = ")"}
<1>3. C = {}
  BY <1>1, <1>2
<1>4. IsFiniteSet(1 .. Len(stack))
  BY <1>1, FS_Interval, 1 \in Int, Len(stack) \in Int
<1>5. IsFiniteSet(O)
  BY <1>1, <1>4, FS_Subset, O \subseteq 1 .. Len(stack)
<1>6. Cardinality(O) \in Nat /\ (Cardinality(O) = 0 <=> O = {})
  BY <1>5, FS_CardinalityType, FS_EmptySet
<1>7. Cardinality(C) = 0
  BY <1>3, FS_EmptySet
<1>8. OnStack("(") = Cardinality(O) /\ OnStack(")") = Cardinality(C)
  BY DEF OnStack
<1>9. O # {} <=> \E i \in 1 .. Len(stack) : stack[i].type = "("
  BY <1>1
<1> HIDE DEF O, C
<1>10. OnStack("(") > OnStack(")") <=> O # {}
  BY <1>6, <1>7, <1>8
<1> QED
  BY <1>9, <1>10

LEMMA TreeInvShift ==
  ASSUME LexOK, ErrInv, TreeInv, Shift
  PROVE  TreeInv'
<1> DEFINE s == tokens
           n == Shifted
           d == Len(stack)
           t == look[1]
           u == Append(stack, t)
<1>1. /\ Parsing /\ Ahead \in Expected /\ Ahead # ";" /\ ~Reducible /\ phase' = "parse"
      /\ stack' = u /\ look' = << >> /\ tokens' = tokens
  BY DEF Shift, lexer, Parsing
<1>2. /\ n \in Nat /\ n + 1 = Len(s) /\ t = s[n + 1] /\ t.type \in TokenTypes /\ Ahead = t.type
  <2>1. /\ Len(tokens) \in Nat \ {0} /\ Shifted = Len(tokens) - 1
        /\ look[1] = tokens[Len(tokens)] /\ look[1] \in TokenSet
    BY <1>1, ShiftedIs DEF LexOK, ErrInv, Parsing
  <2>2. \A a \in Nat \ {0} : a - 1 \in Nat /\ (a - 1) + 1 = a
    OBVIOUS
  <2>3. n \in Nat /\ n + 1 = Len(s)
    BY <2>1, <2>2
  <2> QED
    BY <2>1, <2>3 DEF TokenSet, Ahead
<1>3. d \in Nat /\ (stack = << >> <=> d = 0)
  BY StackLen
<1>4. PICK S : stack \in Seq(S)
  BY DEF ErrInv
<1>5. Len(u) = d + 1 /\ u[d + 1] = t /\ \A i \in 1 .. d : u[i] = stack[i]
  <2>1. d \in 0 .. Len(stack) /\ SubSeq(stack, 1, d) = stack
    BY <1>4
  <2> QED
    BY <1>4, <2>1, PopPush
<1>6. PICK b : Covers(s, stack, b, n) /\ TopOK(s, stack, b, n, look)
  BY DEF TreeInv
<1>7. Top(1) = stack[d]
  BY <1>3, \A a \in Nat : a - 1 + 1 = a DEF Top
<1>8. /\ d > 0 => (AfterOperand <=> stack[d].type \notin Operators \cup {"("})
      /\ d = 0 => ~AfterOperand
  BY <1>3 DEF AfterOperand
<1>9. ASSUME AfterOperand
      PROVE  /\ d \in Nat \ {0} /\ stack[d].type = "expr"
             /\ \/ d = 1
                \/ d > 1 /\ stack[d - 1].type = "("
                \/ /\ d > 1 /\ stack[d - 1].type \in Operators
                   /\ ~ReduceFirst(stack[d - 1].type, t.type)
             /\ t.type \in Operators \cup {")"}
             /\ t.type = ")" => \E i \in 1 .. d : stack[i].type = "("
  <2>1. Ahead \in Operators \cup IF OnStack("(") > OnStack(")") THEN {")"} ELSE {";"}
    BY <1>1, <1>7, <1>9 DEF Expected, AfterOperand
  <2>2. /\ d \in Nat \ {0} /\ stack[d].type = "expr"
        /\ \/ d = 1
           \/ d > 1 /\ stack[d - 1].type = "("
           \/ /\ d > 1 /\ stack[d - 1].type \in Operators
              /\ ~ReduceFirst(stack[d - 1].type, Ahead)
    BY <1>1, <1>9, Irreducible
  <2>3. OnStack("(") > OnStack(")") <=> \E i \in 1 .. d : stack[i].type = "("
    <3>1. Len(stack) > 0 /\ stack[Len(stack)].type = "expr"
      BY <2>2
    <3> QED
      BY <3>1, OpenBelow
  <2>4. t.type = ")" => \E i \in 1 .. d : stack[i].type = "("
    BY <1>2, <2>1, <2>3 DEF Operators
  <2> HIDE DEF d
  <2> QED
    BY <1>1, <1>2, <2>1, <2>2, <2>4
<1>10. ASSUME ~AfterOperand PROVE t.type \in {"IDENT", "("}
  BY <1>1, <1>2, <1>7, <1>10 DEF Expected, AfterOperand
<1>11. \A i \in 1 .. d : ShapeAt(stack, i)
  BY DEF TreeInv, Shape
<1>12. TopOK(s, stack, b, n, look) <=>
         (d > 0 /\ stack[d].type = "expr" =>
            /\ look # << >>
            /\ t.type \in Operators => Tight(s, b[d - 1] + 1, n, Level(t.type)))
  BY DEF TopOK
<1>13. (\E c : Covers(s, u, c, n + 1) /\ \A ahead : TopOK(s, u, c, n + 1, ahead))
  <2>1. t.type # "expr"
    BY <1>2 DEF TokenTypes, Literals, Operators
  <2>2. ASSUME t.type \in Operators, d > 0
        PROVE  /\ Tight(s, b[d - 1] + 1, n, Level(t.type))
               /\ d > 1 /\ stack[d - 1].type \in Operators => Level(stack[d - 1].type) < Level(t.type)
    <3>1. AfterOperand
      BY <1>10, <2>2 DEF Operators
    <3>2. stack[d].type = "expr"
      BY <1>9, <3>1
    <3>3. Tight(s, b[d - 1] + 1, n, Level(t.type))
      BY <1>6, <1>12, <2>2, <3>2
    <3>4. ASSUME d > 1, stack[d - 1].type \in Operators
          PROVE  Level(stack[d - 1].type) < Level(t.type)
      <4>1. d # 1 /\ stack[d - 1].type # "("
        <5>1. \A a \in Nat : a > 1 => a # 1
          OBVIOUS
        <5>2. d # 1
          BY <1>3, <3>4, <5>1, Zenon
        <5>3. stack[d - 1].type # "("
          BY <3>4 DEF Operators
        <5> QED
          BY <5>2, <5>3
      <4>2. ~ReduceFirst(stack[d - 1].type, t.type)
        BY <1>9, <3>1, <4>1
      <4>3. Level(stack[d - 1].type) \in Int /\ Level(t.type) \in Int
        BY <2>2, <3>4, LevelIn
      <4> QED
        BY <4>2, <4>3 DEF ReduceFirst
    <3> QED
      BY <3>3, <3>4
  <2> QED
    BY <1>2, <1>4, <1>6, <2>1, <2>2, CoversShifted
<1> HIDE DEF d, u, t, n, s
<1>14. ShapeAt(u, d + 1) /\ (d = 0 \/ stack[d].type \notin {"IDENT", ")"})
  <2>1. CASE ~AfterOperand
    <3>1. t.type \in {"IDENT", "("}
      BY <1>10, <2>1
    <3>2. d + 1 = 1 \/ u[(d + 1) - 1].type \in Operators \cup {"("}
      <4>1. CASE d = 0
        BY <4>1
      <4>2. CASE d # 0
        <5>1. d > 0 /\ d \in 1 .. d /\ (d + 1) - 1 = d
          BY <1>3, <4>2
        <5> QED
          BY <1>5, <1>8, <2>1, <5>1
      <4> QED
        BY <4>1, <4>2
    <3>3. ShapeAt(u, d + 1)
      BY <1>5, <3>1, <3>2 DEF ShapeAt, Operators
    <3>4. d = 0 \/ stack[d].type \notin {"IDENT", ")"}
      <4>1. d = 0 \/ d > 0
        BY <1>3
      <4>2. d > 0 => stack[d].type \in Operators \cup {"("}
        BY <1>8, <2>1
      <4> QED
        BY <4>1, <4>2 DEF Operators
    <3> QED
      BY <3>3, <3>4
  <2>2. CASE AfterOperand
    <3>1. /\ d \in 1 .. d /\ d + 1 > 1 /\ (d + 1) - 1 = d /\ (d + 1) - 2 = d - 1
          /\ stack[d].type = "expr" /\ t.type \in Operators \cup {")"}
      BY <1>9, <2>2
    <3>2. u[(d + 1) - 1].type = "expr"
      BY <1>5, <3>1
    <3>3. ASSUME t.type = ")" PROVE d + 1 > 2 /\ u[(d + 1) - 2].type = "("
      <4>1. ReduceFirst(stack[d - 1].type, t.type)
        BY <3>3 DEF ReduceFirst, Operators
      <4>2. d # 1
        <5>1. ASSUME d = 1 PROVE FALSE
          <6>1. PICK i \in 1 .. d : stack[i].type = "("
            BY <1>9, <2>2, <3>3
          <6>2. i = d
            BY <5>1
          <6> QED
            BY <3>1, <6>1, <6>2
        <5> QED
          BY <5>1
      <4>3. d > 1 /\ stack[d - 1].type = "("
        BY <1>9, <2>2, <4>1, <4>2
      <4>4. d - 1 \in 1 .. d
        BY <1>3, <4>3
      <4> QED
        BY <1>3, <1>5, <3>1, <4>3, <4>4
    <3>4. ShapeAt(u, d + 1)
      <4>1. CASE t.type \in Operators
        BY <1>5, <3>1, <3>2, <4>1 DEF ShapeAt, Operators
      <4>2. CASE t.type = ")"
        BY <1>5, <3>2, <3>3, <4>2 DEF ShapeAt, Operators
      <4> QED
        BY <3>1, <4>1, <4>2
    <3> QED
      BY <3>1, <3>4
  <2> QED
    BY <2>1, <2>2
<1>15. Shape(stack')
  <2>1. d \in 0 .. d /\ Shape(stack)
    BY <1>3 DEF TreeInv
  <2>2. Shape(u)
    BY <1>3, <1>5, <1>14, <2>1, ShapeBelow DEF d
  <2> QED
    BY <1>1, <2>2
<1>16. Shifted' = n + 1
  <2>1. Len(look') = 0
    BY <1>1
  <2>2. Len(tokens') = n + 1 /\ n + 1 \in Nat
    <3>1. tokens' = s
      BY <1>1 DEF s
    <3>2. n + 1 \in Nat
      BY <1>2
    <3> QED
      BY <1>2, <3>1, <3>2, Zenon
  <2> QED
    BY <2>1, <2>2 DEF Shifted
<1>17. \E c : /\ Covers(tokens', stack', c, Shifted')
              /\ TopOK(tokens', stack', c, Shifted', look')
  BY <1>1, <1>13, <1>16 DEF s
<1> QED
  BY <1>1, <1>15, <1>17 DEF TreeInv

\* The statement is accepted with one expression on the stack.
LEMMA AcceptShape ==
  ASSUME LexOK, ErrInv, TreeInv, Accept
  PROVE  look # << >> /\ Len(stack) = 1 /\ stack[1].type = "expr"
<1> DEFINE d == Len(stack)
<1>1. Parsing /\ Ahead = ";" /\ Ahead \in Expected /\ ~Reducible /\ look # << >>
  BY DEF Accept, Parsing
<1>2. d \in Nat /\ (stack = << >> <=> d = 0)
  BY StackLen
<1>3. Top(1) = stack[d]
  BY <1>2, \A a \in Nat : a - 1 + 1 = a DEF Top
<1>4. AfterOperand
  BY <1>1, <1>3 DEF Expected, AfterOperand
<1>5. /\ d \in Nat \ {0} /\ stack[d].type = "expr"
      /\ \/ d = 1
         \/ d > 1 /\ stack[d - 1].type = "("
         \/ /\ d > 1 /\ stack[d - 1].type \in Operators
            /\ ~ReduceFirst(stack[d - 1].type, Ahead)
  BY <1>1, <1>4, Irreducible
<1>6. ReduceFirst(stack[d - 1].type, Ahead)
  BY <1>1 DEF ReduceFirst, Operators
<1>7. OnStack("(") > OnStack(")") <=> \E i \in 1 .. d : stack[i].type = "("
  <2>1. Len(stack) > 0 /\ stack[Len(stack)].type = "expr"
    BY <1>5
  <2> QED
    BY <2>1, OpenBelow
<1>8. Expected = Operators \cup IF OnStack("(") > OnStack(")") THEN {")"} ELSE {";"}
  BY <1>3, <1>4 DEF Expected, AfterOperand
<1>9. ~ \E i \in 1 .. d : stack[i].type = "("
  BY <1>1, <1>7, <1>8 DEF Operators
<1>10. d = 1
  <2> HIDE DEF d
  <2>1. ASSUME d > 1, stack[d - 1].type = "(" PROVE FALSE
    <3>1. d - 1 \in 1 .. d
      BY <1>5, <2>1
    <3> QED
      BY <1>9, <2>1, <3>1
  <2> QED
    BY <1>5, <1>6, <2>1
<1> QED
  BY <1>1, <1>5, <1>10

LEMMA TreeInvReturn ==
  ASSUME LexOK, ErrInv, TreeInv, NEW t, Returning(t)
  PROVE  TreeInv'
<1>1. /\ tokens \in Seq(TokenSet) /\ LookOK /\ look = << >> /\ t \in TokenSet
      /\ tokens' = Append(tokens, t)
  BY DEF LexOK, ErrInv, Returning
<1>2. /\ phase' = "parse" /\ stack' = stack /\ Shifted = Len(tokens) /\ Shifted' = Shifted
      /\ \A i \in 1 .. Shifted : tokens'[i] = tokens[i]
  BY <1>1, ReturnKeeps
<1>3. Shifted \in Nat /\ Len(tokens') = Shifted + 1
  BY <1>1, <1>2, AppendProperties
<1>4. Len(stack) \in Nat
  BY StackLen
<1>5. PICK b : Covers(tokens, stack, b, Shifted) /\ TopOK(tokens, stack, b, Shifted, look)
  BY DEF TreeInv
<1>6. Len(stack) > 0 => stack[Len(stack)].type # "expr"
  BY <1>1, <1>5 DEF TopOK
<1>7. Covers(tokens', stack, b, Shifted)
  BY <1>2, <1>3, <1>4, <1>5, <1>6, CoversAppended
<1>8. TopOK(tokens', stack', b, Shifted', look')
  BY <1>2, <1>6 DEF TopOK
<1>9. Covers(tokens', stack', b, Shifted')
  BY <1>2, <1>7
<1>10. Shape(stack')
  BY <1>2 DEF TreeInv
<1> QED
  BY <1>2, <1>8, <1>9, <1>10 DEF TreeInv

LEMMA TreeInvInit == Init => TreeInv
<1> SUFFICES ASSUME Init PROVE TreeInv
  OBVIOUS
<1>1. look = << >> /\ stack = << >> /\ tokens = << >> /\ phase = "parse"
  BY DEF Init
<1>2. Len(stack) = 0 /\ Shifted = 0
  BY <1>1 DEF Shifted
<1> DEFINE b == [i \in 0 .. 0 |-> 0]
<1>3. b[0] = 0 /\ \A i \in 0 .. 0 : b[i] \in 0 .. 0
  OBVIOUS
<1> HIDE DEF b
<1>4. Covers(tokens, stack, b, Shifted)
  BY <1>2, <1>3 DEF Covers
<1>5. TopOK(tokens, stack, b, Shifted, look)
  BY <1>2 DEF TopOK
<1>6. Shape(stack)
  BY <1>2 DEF Shape
<1> QED
  BY <1>1, <1>4, <1>5, <1>6 DEF TreeInv

LEMMA TreeInvNext == ASSUME LexOK, ErrInv, TreeInv, [Next]_vars PROVE TreeInv'
<1>1. ASSUME Quiet PROVE TreeInv'
  <2>1. UNCHANGED <<look, stack, tokens>>
    BY <1>1 DEF Quiet
  <2>2. Shifted' = Shifted
    BY <2>1 DEF Shifted
  <2>3. Shape(stack') /\ \E b : /\ Covers(tokens', stack', b, Shifted')
                                /\ TopOK(tokens', stack', b, Shifted', look')
    BY <2>1, <2>2 DEF TreeInv
  <2>4. ASSUME phase' \in {"visit", "over"}
        PROVE  look # << >> /\ Len(stack) = 1 /\ stack[1].type = "expr"
    <3>1. CASE Accept
      BY <3>1, AcceptShape
    <3>2. CASE UNCHANGED phase \/ Leave
      BY <2>4, <3>2 DEF TreeInv, Leave
    <3> QED
      BY <1>1, <2>4, <3>1, <3>2 DEF Quiet, SyntaxErr, EndOfInput
  <2> QED
    BY <2>1, <2>3, <2>4 DEF TreeInv
<1> QED
  BY <1>1, TreeInvReduce, TreeInvShift, TreeInvReturn, ParserSteps

\* What is on the stack at the end.
LEMMA TreeInvShows ==
  ASSUME LexOK, ErrInv, TreeInv, phase \in {"visit", "over"}
  PROVE  /\ stack = <<TreeOf(tokens)[<<1, Len(tokens) - 1>>]>>
         /\ Len(tokens) \in Nat \ {0}
<1>1. look # << >> /\ Len(stack) = 1 /\ stack[1].type = "expr"
  BY DEF TreeInv
<1>2. Len(tokens) \in Nat \ {0} /\ Shifted = Len(tokens) - 1
  BY <1>1, ShiftedIs DEF LexOK, ErrInv
<1>3. PICK b : Covers(tokens, stack, b, Shifted)
  BY DEF TreeInv
<1>4. b[0] = 0 /\ b[1] = Shifted /\ ItemOK(tokens, stack, b, 1)
  <2>1. 1 \in 1 .. 1
    OBVIOUS
  <2> QED
    BY <1>1, <1>3, <2>1 DEF Covers
<1>5. stack[1] = TreeOf(tokens)[<<b[0] + 1, b[1]>>]
  BY <1>1, <1>4, 1 - 1 = 0 DEF ItemOK
<1>6. stack[1] = TreeOf(tokens)[<<1, Len(tokens) - 1>>]
  BY <1>2, <1>4, <1>5, 0 + 1 = 1
<1>7. stack = <<stack[1]>>
  BY <1>1 DEF ErrInv
<1> QED
  BY <1>2, <1>6, <1>7

\* For every text that is accepted: shifting and reducing by the table of
\* precedences gives the tree that the definition of precedence gives.
THEOREM TreesAreRight == FairSpec => []TreeRight
<1>1. Init => LexOK /\ ErrInv /\ TreeInv
  BY LexOKInit, ErrInvInit, TreeInvInit
<1>2. LexOK /\ ErrInv /\ TreeInv /\ [Next]_vars => (LexOK /\ ErrInv /\ TreeInv)'
  BY LexOKNext, ErrInvNext, TreeInvNext
<1>3. LexOK /\ ErrInv /\ TreeInv => TreeRight
  BY TreeInvShows DEF TreeRight
<1> QED
  BY <1>1, <1>2, <1>3, PTL DEF FairSpec
(***************************************************************************)
(* The visitor.                                                            *)
(***************************************************************************)

\* The nodes of the tree of a range, each before those of its operands.
Preorder(s) ==
  LET order[r \in Ranges(s)] ==
        LET n == TreeOf(s)[r]
        IN  IF r[1] >= r[2] THEN << <<n.op, n.at>> >>
            ELSE IF Outside(s, r[1], r[2]) = {} THEN order[<<r[1] + 1, r[2] - 1>>]
            ELSE LET m == Root(s, r[1], r[2])
                 IN  << <<n.op, n.at>> >> \o order[<<r[1], m - 1>>] \o order[<<m + 1, r[2]>>]
  IN  order

\* What the visitor records of the node of a range.
NodeOf(s, r) == <<TreeOf(s)[r].op, TreeOf(s)[r].at>>
Nodes(s) == {NodeOf(s, r) : r \in Ranges(s)}

\* What Preorder says of a range, given its value for narrower ones.
OrderAt(s, f, r) ==
  LET n == TreeOf(s)[r]
  IN  IF r[1] >= r[2] THEN << <<n.op, n.at>> >>
      ELSE IF Outside(s, r[1], r[2]) = {} THEN f[<<r[1] + 1, r[2] - 1>>]
      ELSE LET m == Root(s, r[1], r[2])
           IN  << <<n.op, n.at>> >> \o f[<<r[1], m - 1>>] \o f[<<m + 1, r[2]>>]

LEMMA OrderAtSame ==
  ASSUME NEW s, Len(s) \in Nat, NEW r \in Ranges(s), NEW f, NEW g,
         \A q \in Ranges(s) : q[2] - q[1] < r[2] - r[1] => f[q] = g[q]
  PROVE  OrderAt(s, f, r) = OrderAt(s, g, r)
<1>1. \A q : Narrower(s, q, r) => f[q] = g[q]
  BY DEF Narrower
<1>2. CASE r[1] >= r[2]
  BY <1>2, Zenon DEF OrderAt
<1>3. CASE ~(r[1] >= r[2])
  <2>1. r[1] < r[2]
    BY <1>3, RangeIs
  <2>2. f[<<r[1] + 1, r[2] - 1>>] = g[<<r[1] + 1, r[2] - 1>>]
    BY <1>1, <2>1, Parts
  <2>3. Outside(s, r[1], r[2]) # {} =>
          /\ f[<<r[1], Root(s, r[1], r[2]) - 1>>] = g[<<r[1], Root(s, r[1], r[2]) - 1>>]
          /\ f[<<Root(s, r[1], r[2]) + 1, r[2]>>] = g[<<Root(s, r[1], r[2]) + 1, r[2]>>]
    BY <1>1, <2>1, Parts
  <2> QED
    BY <2>2, <2>3, Zenon DEF OrderAt
<1> QED
  BY <1>2, <1>3

\* Preorder is well defined, for the same reason as TreeOf.
LEMMA OrderExists ==
  ASSUME NEW s, Len(s) \in Nat
  PROVE  \E f : f = [r \in Ranges(s) |-> OrderAt(s, f, r)]
<1> DEFINE R == Ranges(s)
           n == Len(s)
           Good(f, m) == \A r \in R : r[2] - r[1] <= m => f[r] = OrderAt(s, f, r)
           T == {m \in 0 .. n : \E f : f = [r \in R |-> f[r]] /\ Good(f, m)}
<1>0. n \in Nat
  OBVIOUS
<1>1. \A r \in R : r[2] - r[1] \in Int /\ r[2] - r[1] <= n /\ (r[2] - r[1] <= 0 <=> r[1] >= r[2])
  BY RangeIs
<1> HIDE DEF n
<1>2. 0 \in T
  <2> DEFINE f == [r \in R |-> << <<TreeOf(s)[r].op, TreeOf(s)[r].at>> >>]
  <2>1. f = [r \in R |-> f[r]]
    OBVIOUS
  <2>2. Good(f, 0)
    <3> SUFFICES ASSUME NEW r \in R, r[2] - r[1] <= 0 PROVE f[r] = OrderAt(s, f, r)
      OBVIOUS
    <3>1. r[1] >= r[2]
      BY <1>1
    <3> QED
      BY <3>1 DEF OrderAt
  <2> HIDE DEF f, Good
  <2> QED
    BY <1>0, <2>1, <2>2
<1>3. \A m \in 0 .. n - 1 : m \in T => m + 1 \in T
  <2> SUFFICES ASSUME NEW m \in 0 .. n - 1, m \in T PROVE m + 1 \in T
    OBVIOUS
  <2>1. PICK f : f = [r \in R |-> f[r]] /\ Good(f, m)
    OBVIOUS
  <2> DEFINE g == [r \in R |-> IF r[2] - r[1] = m + 1 THEN OrderAt(s, f, r) ELSE f[r]]
  <2>2. g = [r \in R |-> g[r]]
    OBVIOUS
  <2>3. \A q \in R : q[2] - q[1] < m + 1 => g[q] = f[q]
    BY <1>0, <1>1
  <2>4. \A q \in R : q[2] - q[1] = m + 1 => g[q] = OrderAt(s, f, q)
    OBVIOUS
  <2> HIDE DEF g
  <2>5. Good(g, m + 1)
    <3> SUFFICES ASSUME NEW r \in R, r[2] - r[1] <= m + 1 PROVE g[r] = OrderAt(s, g, r)
      OBVIOUS
    <3>1. \A q \in R : q[2] - q[1] < r[2] - r[1] => g[q] = f[q]
      BY <1>0, <1>1, <2>3
    <3>2. OrderAt(s, g, r) = OrderAt(s, f, r)
      BY <3>1, OrderAtSame
    <3>3. CASE r[2] - r[1] = m + 1
      BY <2>4, <3>2, <3>3
    <3>4. CASE r[2] - r[1] <= m
      <4>1. r[2] - r[1] < m + 1
        BY <1>0, <1>1, <3>4
      <4>2. g[r] = f[r]
        BY <2>3, <4>1
      <4>3. f[r] = OrderAt(s, f, r)
        BY <2>1, <3>4
      <4> QED
        BY <3>2, <4>2, <4>3
    <3> QED
      BY <1>0, <1>1, <3>3, <3>4
  <2> HIDE DEF Good
  <2>6. m + 1 \in 0 .. n
    BY <1>0
  <2> QED
    BY <2>2, <2>5, <2>6
<1> HIDE DEF T
<1>4. n \in T
  <2>1. 0 .. n \subseteq T
    BY <1>0, <1>2, <1>3, RangeInduction
  <2> QED
    BY <1>0, <2>1
<1>5. PICK f : f = [r \in R |-> f[r]] /\ Good(f, n)
  BY <1>4 DEF T
<1>6. \A r \in R : f[r] = OrderAt(s, f, r)
  BY <1>1, <1>5
<1>7. f = [r \in R |-> OrderAt(s, f, r)]
  BY <1>5, <1>6
<1> QED
  BY <1>7

LEMMA OrderStep ==
  ASSUME NEW s, Len(s) \in Nat, NEW r \in Ranges(s)
  PROVE  Preorder(s)[r] = OrderAt(s, Preorder(s), r)
<1> DEFINE Is(f) == f = [q \in Ranges(s) |-> OrderAt(s, f, q)]
<1>1. Is(Preorder(s))
  <2>1. Preorder(s) = CHOOSE f : Is(f)
    BY Zenon DEF Preorder, OrderAt
  <2>2. \E f : Is(f)
    BY OrderExists
  <2> HIDE DEF Is
  <2> QED
    BY <2>1, <2>2
<1> QED
  BY <1>1, Zenon
LEMMA TreeStepAt ==
  ASSUME NEW s, Len(s) \in Nat, NEW r \in Ranges(s)
  PROVE  TreeOf(s)[r] = TreeAt(s, TreeOf(s), r)
<1>1. /\ r[1] \in Nat \ {0} /\ r[2] \in Nat /\ r[1] <= Len(s) + 1 /\ r[2] <= Len(s)
      /\ r = <<r[1], r[2]>>
  BY RangeIs
<1>2. TreeOf(s)[<<r[1], r[2]>>] = TreeAt(s, TreeOf(s), r)
  BY <1>1, TreeStep DEF TreeAt
<1> QED
  BY <1>1, <1>2, Zenon

\* A node has no operands, and is then the only node of its tree, or two, which
\* are trees of ranges, and their nodes follow it.
NodeAt(s, r) ==
  /\ Preorder(s)[r] \in Seq(Nodes(s))
  /\ \/ TreeOf(s)[r].kids = << >> /\ Preorder(s)[r] = <<NodeOf(s, r)>>
     \/ \E x, y \in Ranges(s) :
          /\ TreeOf(s)[r].kids = <<TreeOf(s)[x], TreeOf(s)[y]>>
          /\ Preorder(s)[r] = <<NodeOf(s, r)>> \o Preorder(s)[x] \o Preorder(s)[y]

LEMMA NodeAtStep ==
  ASSUME NEW s, Len(s) \in Nat, NEW r \in Ranges(s),
         \A q : Narrower(s, q, r) => NodeAt(s, q)
  PROVE  NodeAt(s, r)
<1> DEFINE lo == r[1]
           hi == r[2]
           m == Root(s, lo, hi)
           q == <<lo + 1, hi - 1>>
           x == <<lo, m - 1>>
           y == <<m + 1, hi>>
<1>1. TreeOf(s)[r] = TreeAt(s, TreeOf(s), r)
  BY TreeStepAt
<1>2. Preorder(s)[r] = OrderAt(s, Preorder(s), r)
  BY OrderStep
<1>3. NodeOf(s, r) \in Nodes(s)
  BY DEF Nodes
<1>4. <<NodeOf(s, r)>> \in Seq(Nodes(s))
  BY <1>3
<1>5. CASE lo >= hi
  <2>1. TreeOf(s)[r] = Leaf(s[lo])
    BY <1>1, <1>5, Zenon DEF TreeAt
  <2>2. TreeOf(s)[r].kids = << >>
    BY <2>1 DEF Leaf
  <2>3. Preorder(s)[r] = <<NodeOf(s, r)>>
    BY <1>2, <1>5, Zenon DEF OrderAt, NodeOf
  <2> QED
    BY <1>4, <2>2, <2>3, Zenon DEF NodeAt
<1>6. CASE ~(lo >= hi)
  <2>1. lo < hi
    BY <1>6, RangeIs
  <2>2. CASE Outside(s, lo, hi) = {}
    <3>1. Narrower(s, q, r)
      BY <2>1, Parts
    <3>2. NodeAt(s, q)
      BY <3>1
    <3>3. TreeOf(s)[r] = TreeOf(s)[q]
      BY <1>1, <1>6, <2>2, Zenon DEF TreeAt
    <3>4. Preorder(s)[r] = Preorder(s)[q]
      BY <1>2, <1>6, <2>2, Zenon DEF OrderAt
    <3>5. NodeOf(s, r) = NodeOf(s, q)
      BY <3>3, Zenon DEF NodeOf
    <3> QED
      BY <3>2, <3>3, <3>4, <3>5, Zenon DEF NodeAt
  <2>3. CASE Outside(s, lo, hi) # {}
    <3>1. Narrower(s, x, r) /\ Narrower(s, y, r)
      BY <2>1, <2>3, Parts
    <3>2. NodeAt(s, x) /\ NodeAt(s, y) /\ x \in Ranges(s) /\ y \in Ranges(s)
      BY <3>1, Zenon DEF Narrower
    <3>3. TreeOf(s)[r] = BinOp(s[m].type, TreeOf(s)[x], TreeOf(s)[y])
      BY <1>1, <1>6, <2>3, Zenon DEF TreeAt
    <3>4. TreeOf(s)[r].kids = <<TreeOf(s)[x], TreeOf(s)[y]>>
      BY <3>3 DEF BinOp
    <3>5. Preorder(s)[r] = <<NodeOf(s, r)>> \o Preorder(s)[x] \o Preorder(s)[y]
      BY <1>2, <1>6, <2>3, Zenon DEF OrderAt, NodeOf
    <3>6. Preorder(s)[x] \in Seq(Nodes(s)) /\ Preorder(s)[y] \in Seq(Nodes(s))
      BY <3>2, Zenon DEF NodeAt
    <3>7. Preorder(s)[r] \in Seq(Nodes(s))
      <4>1. <<NodeOf(s, r)>> \o Preorder(s)[x] \in Seq(Nodes(s))
        BY <1>4, <3>6, ConcatProperties, Zenon
      <4> QED
        BY <3>5, <3>6, <4>1, ConcatProperties, Zenon
    <3> HIDE DEF x, y
    <3> QED
      BY <3>2, <3>4, <3>5, <3>7, Zenon DEF NodeAt
  <2> QED
    BY <2>2, <2>3
<1> QED
  BY <1>5, <1>6

LEMMA NodesAt ==
  ASSUME NEW s, Len(s) \in Nat, NEW r \in Ranges(s)
  PROVE  NodeAt(s, r)
<1> DEFINE R == Ranges(s)
           n == Len(s)
           k == n + n + 1
           W(q) == q[2] - q[1] + n + 1
           T == {m \in 0 .. k : \A q \in R : W(q) < m => NodeAt(s, q)}
<1>1. k \in Nat
  OBVIOUS
<1>2. \A q \in R : W(q) \in Nat /\ W(q) < k
  BY RangeIs
<1>3. \A q \in R : (\A p \in R : W(p) < W(q) => NodeAt(s, p)) => NodeAt(s, q)
  <2> SUFFICES ASSUME NEW q \in R, \A p \in R : W(p) < W(q) => NodeAt(s, p)
               PROVE  NodeAt(s, q)
    OBVIOUS
  <2>1. \A p \in R : p[2] - p[1] < q[2] - q[1] => W(p) < W(q)
    BY RangeIs
  <2>2. \A p : Narrower(s, p, q) => NodeAt(s, p)
    BY <2>1 DEF Narrower
  <2> QED
    BY <2>2, NodeAtStep
<1> HIDE DEF k, W
<1>4. 0 \in T
  BY <1>1, <1>2
<1>5. \A m \in 0 .. k - 1 : m \in T => m + 1 \in T
  <2> SUFFICES ASSUME NEW m \in 0 .. k - 1, m \in T PROVE m + 1 \in T
    OBVIOUS
  <2>1. ASSUME NEW q \in R, W(q) < m + 1 PROVE NodeAt(s, q)
    <3>1. \A p \in R : W(p) < W(q) => W(p) < m
      BY <1>1, <1>2, <2>1
    <3>2. \A p \in R : W(p) < W(q) => NodeAt(s, p)
      BY <3>1
    <3> QED
      BY <1>3, <3>2
  <2>2. m + 1 \in 0 .. k
    BY <1>1
  <2> QED
    BY <2>1, <2>2
<1> HIDE DEF T
<1>6. k \in T
  <2>1. 0 .. k \subseteq T
    BY <1>1, <1>4, <1>5, RangeInduction
  <2> QED
    BY <1>1, <2>1
<1> QED
  BY <1>2, <1>6 DEF T
\* The nodes of the trees a[1], a[2], ..., which are those of the ranges g[1],
\* g[2], ...: rest[k] are the nodes from a[k] on.
Trees(s) == {TreeOf(s)[r] : r \in Ranges(s)}

Walk(s, a, g, rest) ==
  /\ a \in Seq(Trees(s))
  /\ \A k \in 1 .. Len(a) : /\ g[k] \in Ranges(s) /\ a[k] = TreeOf(s)[g[k]]
                            /\ rest[k] = Preorder(s)[g[k]] \o rest[k + 1]
  /\ \A k \in 1 .. Len(a) + 1 : rest[k] \in Seq(Nodes(s))
  /\ rest[Len(a) + 1] = << >>

\* A visit of the trees a gives w.
Todo(s, a, w) == \E g, rest : Walk(s, a, g, rest) /\ w = rest[1]

LEMMA TodoTyped ==
  ASSUME NEW s, NEW a, NEW w, Todo(s, a, w)
  PROVE  a \in Seq(Trees(s)) /\ w \in Seq(Nodes(s))
<1>1. PICK g, rest : Walk(s, a, g, rest) /\ w = rest[1]
  BY DEF Todo
<1>2. a \in Seq(Trees(s))
  BY <1>1 DEF Walk
<1>3. 1 \in 1 .. Len(a) + 1
  BY <1>2
<1> QED
  BY <1>1, <1>2, <1>3, Zenon DEF Walk

LEMMA TodoNone ==
  ASSUME NEW s
  PROVE  /\ Todo(s, << >>, << >>)
         /\ \A w : Todo(s, << >>, w) => w = << >>
<1>1. Len(<< >>) = 0 /\ Len(<< >>) + 1 = 1 /\ << >> \in Seq(Trees(s)) /\ << >> \in Seq(Nodes(s))
  OBVIOUS
<1>2. Todo(s, << >>, << >>)
  <2> DEFINE e == [k \in {1} |-> << >>]
  <2>1. e[1] = << >> /\ 1 .. 0 = {} /\ 1 .. 1 = {1}
    OBVIOUS
  <2> HIDE DEF e
  <2>2. Walk(s, << >>, e, e)
    BY <1>1, <2>1, Zenon DEF Walk
  <2> QED
    BY <2>1, <2>2, Zenon DEF Todo
<1>3. \A w : Todo(s, << >>, w) => w = << >>
  BY <1>1, Zenon DEF Todo, Walk
<1> QED
  BY <1>2, <1>3

\* The first of the trees is visited first.
LEMMA TodoFirst ==
  ASSUME NEW s, NEW a, NEW w, Todo(s, a, w), a # << >>
  PROVE  \E r \in Ranges(s) : \E v : /\ a[1] = TreeOf(s)[r]
                                      /\ w = Preorder(s)[r] \o v
                                      /\ Todo(s, Tail(a), v)
<1>1. PICK g, rest : Walk(s, a, g, rest) /\ w = rest[1]
  BY DEF Todo
<1> DEFINE b == Tail(a)
           n == Len(a)
           h == [k \in 1 .. n |-> g[k + 1]]
           next == [k \in 1 .. n |-> rest[k + 1]]
<1>2. a \in Seq(Trees(s))
  BY <1>1 DEF Walk
<1>3. n \in Nat \ {0}
  BY <1>2, EmptySeq
<1>4. b \in Seq(Trees(s)) /\ Len(b) = n - 1 /\ \A k \in 1 .. n - 1 : b[k] = a[k + 1]
  BY <1>2, HeadTailProperties
<1>5. /\ \A k \in 1 .. n : /\ g[k] \in Ranges(s) /\ a[k] = TreeOf(s)[g[k]]
                           /\ rest[k] = Preorder(s)[g[k]] \o rest[k + 1]
      /\ \A k \in 1 .. n + 1 : rest[k] \in Seq(Nodes(s))
      /\ rest[n + 1] = << >>
  BY <1>1, Zenon DEF Walk
<1> HIDE DEF n, b
<1>6. /\ 1 \in 1 .. n /\ 1 + 1 = 2 /\ (n - 1) + 1 = n
      /\ \A k \in 1 .. n - 1 : k \in 1 .. n /\ k + 1 \in 1 .. n
      /\ \A k \in 1 .. n : k + 1 \in 1 .. n + 1
      /\ n \in 1 .. n
  BY <1>3
<1>7. Walk(s, b, h, next)
  <2>1. ASSUME NEW k \in 1 .. n - 1
        PROVE  /\ h[k] \in Ranges(s) /\ b[k] = TreeOf(s)[h[k]]
               /\ next[k] = Preorder(s)[h[k]] \o next[k + 1]
    <3>1. h[k] = g[k + 1] /\ next[k] = rest[k + 1] /\ next[k + 1] = rest[(k + 1) + 1]
      BY <1>6, Zenon
    <3> QED
      BY <1>4, <1>5, <1>6, <3>1, Zenon
  <2>2. \A k \in 1 .. n : next[k] \in Seq(Nodes(s))
    BY <1>5, <1>6, Zenon
  <2>3. next[n] = << >>
    BY <1>5, <1>6, Zenon
  <2> HIDE DEF h, next
  <2> QED
    BY <1>4, <1>6, <2>1, <2>2, <2>3, Zenon DEF Walk
<1>8. next[1] = rest[2]
  BY <1>6, Zenon
<1> HIDE DEF h, next
<1>9. Todo(s, b, rest[2])
  BY <1>7, <1>8, Zenon DEF Todo
<1>10. g[1] \in Ranges(s) /\ a[1] = TreeOf(s)[g[1]] /\ rest[1] = Preorder(s)[g[1]] \o rest[2]
  BY <1>5, <1>6, Zenon
<1> QED
  BY <1>1, <1>9, <1>10, Zenon DEF b

\* A tree that is put before the others is visited before them.
LEMMA TodoMore ==
  ASSUME NEW s, Len(s) \in Nat, NEW a, NEW v, Todo(s, a, v), NEW r \in Ranges(s)
  PROVE  Todo(s, <<TreeOf(s)[r]>> \o a, Preorder(s)[r] \o v)
<1>1. PICK g, rest : Walk(s, a, g, rest) /\ v = rest[1]
  BY DEF Todo
<1> DEFINE t == TreeOf(s)[r]
           b == <<t>> \o a
           n == Len(a)
           h == [k \in 1 .. n + 1 |-> IF k = 1 THEN r ELSE g[k - 1]]
           next == [k \in 1 .. n + 2 |-> IF k = 1 THEN Preorder(s)[r] \o v ELSE rest[k - 1]]
<1>2. a \in Seq(Trees(s)) /\ t \in Trees(s)
  BY <1>1, Zenon DEF Walk, Trees
<1>3. n \in Nat
  BY <1>2
<1>4. /\ b \in Seq(Trees(s)) /\ Len(b) = n + 1 /\ b[1] = t
      /\ \A k \in 2 .. n + 1 : b[k] = a[k - 1]
  <2> HIDE DEF t
  <2> QED
    BY <1>2
<1>5. /\ \A k \in 1 .. n : /\ g[k] \in Ranges(s) /\ a[k] = TreeOf(s)[g[k]]
                           /\ rest[k] = Preorder(s)[g[k]] \o rest[k + 1]
      /\ \A k \in 1 .. n + 1 : rest[k] \in Seq(Nodes(s))
      /\ rest[n + 1] = << >>
  BY <1>1, Zenon DEF Walk
<1>6. Preorder(s)[r] \o v \in Seq(Nodes(s))
  <2>1. Preorder(s)[r] \in Seq(Nodes(s))
    BY NodesAt, Zenon DEF NodeAt
  <2>2. v \in Seq(Nodes(s))
    BY TodoTyped
  <2> QED
    BY <2>1, <2>2, ConcatProperties, Zenon
<1> HIDE DEF n, b
<1>7. /\ (n + 1) + 1 = n + 2 /\ n + 2 \in 1 .. n + 2 /\ n + 2 # 1 /\ (n + 2) - 1 = n + 1
      /\ \A k \in 1 .. n + 2 : k # 1 => k - 1 \in 1 .. n + 1 /\ (k - 1) + 1 = k /\ k \in 2 .. n + 2
      /\ \A k \in 1 .. n + 1 : k # 1 => k - 1 \in 1 .. n /\ k \in 2 .. n + 1
      /\ \A k \in 1 .. n + 1 : k \in 1 .. n + 2 /\ k + 1 \in 1 .. n + 2 /\ k + 1 # 1 /\ (k + 1) - 1 = k
  BY <1>3
<1>8. /\ 1 \in 1 .. n + 1 /\ 1 \in 1 .. n + 2 /\ 2 \in 1 .. n + 2 /\ 2 # 1 /\ 2 - 1 = 1 /\ 1 + 1 = 2
  BY <1>3
<1>9. Walk(s, b, h, next)
  <2>1. ASSUME NEW k \in 1 .. n + 1
        PROVE  /\ h[k] \in Ranges(s) /\ b[k] = TreeOf(s)[h[k]]
               /\ next[k] = Preorder(s)[h[k]] \o next[k + 1]
    <3>1. CASE k = 1
      <4>1. h[1] = r /\ next[1] = Preorder(s)[r] \o v /\ next[2] = rest[1]
        BY <1>8, Zenon
      <4> QED
        BY <1>1, <1>4, <1>8, <3>1, <4>1, Zenon
    <3>2. CASE k # 1
      <4>1. h[k] = g[k - 1] /\ next[k] = rest[k - 1] /\ next[k + 1] = rest[k]
        BY <1>7, <3>2, Zenon
      <4>2. k - 1 \in 1 .. n /\ k \in 2 .. n + 1 /\ (k - 1) + 1 = k
        BY <1>7, <3>2, Zenon
      <4>3. g[k - 1] \in Ranges(s) /\ a[k - 1] = TreeOf(s)[g[k - 1]]
            /\ rest[k - 1] = Preorder(s)[g[k - 1]] \o rest[(k - 1) + 1]
        BY <1>5, <4>2, Zenon
      <4>4. b[k] = a[k - 1]
        BY <1>4, <4>2, Zenon
      <4> HIDE DEF h, next
      <4> QED
        BY <4>1, <4>2, <4>3, <4>4, Zenon
    <3> QED
      BY <3>1, <3>2
  <2>2. ASSUME NEW k \in 1 .. n + 2 PROVE next[k] \in Seq(Nodes(s))
    <3>1. CASE k = 1
      BY <1>6, <3>1, Zenon
    <3>2. CASE k # 1
      <4>1. next[k] = rest[k - 1]
        BY <3>2, Zenon
      <4> QED
        BY <1>5, <1>7, <3>2, <4>1, Zenon
    <3> QED
      BY <3>1, <3>2
  <2>3. next[n + 2] = << >>
    BY <1>5, <1>7, Zenon
  <2> HIDE DEF h, next
  <2> QED
    BY <1>4, <1>7, <2>1, <2>2, <2>3, Zenon DEF Walk
<1>10. next[1] = Preorder(s)[r] \o v
  BY <1>8, Zenon
<1> HIDE DEF h, next
<1> QED
  BY <1>9, <1>10, Zenon DEF Todo, b

\* Three sequences, and four, may be put together from either end.
Associates(a, b, c) == (a \o b) \o c = a \o (b \o c)
EitherEnd(a, b, c, d) == ((a \o b) \o c) \o d = a \o (b \o (c \o d))

LEMMA ConcatsOfThree ==
  ASSUME NEW S, NEW a \in Seq(S), NEW b \in Seq(S), NEW c \in Seq(S)
  PROVE  Associates(a, b, c)
BY ConcatAssociative DEF Associates

LEMMA Concats ==
  ASSUME NEW S, NEW a \in Seq(S), NEW b \in Seq(S), NEW c \in Seq(S), NEW d \in Seq(S)
  PROVE  EitherEnd(a, b, c, d)
<1>1. a \o b \in Seq(S) /\ c \o d \in Seq(S)
  BY ConcatProperties
<1>2. \A x \in Seq(S) : Associates(x, c, d)
  BY ConcatsOfThree
<1>3. \A y \in Seq(S) : Associates(a, b, y)
  BY ConcatsOfThree
<1>4. ((a \o b) \o c) \o d = (a \o b) \o (c \o d)
  BY <1>1, <1>2, Zenon DEF Associates
<1>5. (a \o b) \o (c \o d) = a \o (b \o (c \o d))
  BY <1>1, <1>3, Zenon DEF Associates
<1> QED
  BY <1>4, <1>5, Zenon DEF EitherEnd

\* One visit: the node is recorded, and its operands take its place.
LEMMA TodoVisit ==
  ASSUME NEW s, Len(s) \in Nat, NEW a, NEW w, Todo(s, a, w), a # << >>
  PROVE  \E v : /\ w = << <<a[1].op, a[1].at>> >> \o v
                /\ <<a[1].op, a[1].at>> \in Nodes(s)
                /\ Todo(s, a[1].kids \o Tail(a), v)
<1>1. PICK r \in Ranges(s) : \E v : /\ a[1] = TreeOf(s)[r]
                                    /\ w = Preorder(s)[r] \o v
                                    /\ Todo(s, Tail(a), v)
  BY TodoFirst
<1>2. PICK v : /\ a[1] = TreeOf(s)[r]
               /\ w = Preorder(s)[r] \o v
               /\ Todo(s, Tail(a), v)
  BY <1>1
<1> DEFINE p == NodeOf(s, r)
           b == Tail(a)
<1>3. p = <<a[1].op, a[1].at>> /\ p \in Nodes(s)
  BY <1>2, Zenon DEF NodeOf, Nodes
<1>4. b \in Seq(Trees(s)) /\ v \in Seq(Nodes(s))
  BY <1>2, TodoTyped, Zenon
<1>5. NodeAt(s, r)
  BY NodesAt
<1>6. <<p>> \in Seq(Nodes(s))
  <2> HIDE DEF p
  <2> QED
    BY <1>3
<1>7. CASE TreeOf(s)[r].kids = << >> /\ Preorder(s)[r] = <<p>>
  <2>1. << >> \o b = b
    BY <1>4, ConcatEmptySeq, Zenon
  <2>2. a[1].kids \o b = b
    BY <1>2, <1>7, <2>1, Zenon
  <2> QED
    BY <1>2, <1>3, <1>7, <2>2, Zenon
<1>8. ASSUME NEW x \in Ranges(s), NEW y \in Ranges(s),
             TreeOf(s)[r].kids = <<TreeOf(s)[x], TreeOf(s)[y]>>,
             Preorder(s)[r] = <<p>> \o Preorder(s)[x] \o Preorder(s)[y]
      PROVE  \E u : w = <<p>> \o u /\ Todo(s, a[1].kids \o b, u)
  <2> DEFINE X == Preorder(s)[x]
             Y == Preorder(s)[y]
             l == TreeOf(s)[x]
             m == TreeOf(s)[y]
  <2>1. X \in Seq(Nodes(s)) /\ Y \in Seq(Nodes(s))
    BY NodesAt, Zenon DEF NodeAt
  <2>2. l \in Trees(s) /\ m \in Trees(s)
    BY DEF Trees
  <2>3. Todo(s, <<m>> \o b, Y \o v)
    BY <1>2, TodoMore
  <2>4. Todo(s, <<l>> \o (<<m>> \o b), X \o (Y \o v))
    BY <2>3, TodoMore
  <2> HIDE DEF X, Y, l, m, p, b
  <2>5. <<l>> \o (<<m>> \o b) = <<l, m>> \o b
    <3> DEFINE c == <<l>> \o (<<m>> \o b)
               d == <<l, m>> \o b
               S == Trees(s)
    <3>1. l \in S /\ m \in S /\ b \in Seq(S)
      BY <1>4, <2>2
    <3> HIDE DEF S
    <3>2. /\ c \in Seq(S) /\ Len(c) = Len(b) + 2 /\ c[1] = l /\ c[2] = m
          /\ \A i \in 3 .. Len(b) + 2 : c[i] = b[i - 2]
      BY <3>1
    <3>3. /\ d \in Seq(S) /\ Len(d) = Len(b) + 2 /\ d[1] = l /\ d[2] = m
          /\ \A i \in 3 .. Len(b) + 2 : d[i] = b[i - 2]
      BY <3>1
    <3> HIDE DEF c, d
    <3>4. Len(b) \in Nat
      BY <3>1
    <3>5. \A i \in 1 .. Len(c) : c[i] = d[i]
      BY <3>2, <3>3, <3>4
    <3>6. c = d
      BY <3>2, <3>3, <3>5, SeqEqual
    <3> QED
      BY <3>6 DEF c, d
  <2>6. w = <<p>> \o (X \o (Y \o v))
    <3>1. w = ((<<p>> \o X) \o Y) \o v
      BY <1>2, <1>8, Zenon DEF X, Y
    <3>2. ((<<p>> \o X) \o Y) \o v = <<p>> \o (X \o (Y \o v))
      <4> DEFINE S == Nodes(s)
                 q == <<p>>
      <4>1. q \in Seq(S) /\ v \in Seq(S) /\ X \in Seq(S) /\ Y \in Seq(S)
        BY <1>4, <1>6, <2>1
      <4> HIDE DEF S, q
      <4>2. EitherEnd(q, X, Y, v)
        BY <4>1, Concats
      <4> QED
        BY <4>2, Zenon DEF EitherEnd, q
    <3> QED
      BY <3>1, <3>2, Zenon
  <2>7. a[1].kids = <<l, m>>
    BY <1>2, <1>8, Zenon DEF l, m
  <2> QED
    BY <2>4, <2>5, <2>6, <2>7, Zenon
<1>9. CASE \E x, y \in Ranges(s) :
             /\ TreeOf(s)[r].kids = <<TreeOf(s)[x], TreeOf(s)[y]>>
             /\ Preorder(s)[r] = <<p>> \o Preorder(s)[x] \o Preorder(s)[y]
  BY <1>3, <1>8, <1>9, Zenon
<1> QED
  BY <1>5, <1>7, <1>9, Zenon DEF NodeAt

\* What is visited and what the visitor has still to visit are, together, the
\* nodes of the tree in their order.
WalkInv ==
  /\ phase \notin {"visit", "over"} => visits = << >>
  /\ phase \in {"visit", "over"} =>
       \E w : /\ Todo(tokens, agenda, w) /\ visits \in Seq(Nodes(tokens))
              /\ Preorder(tokens)[<<1, Len(tokens) - 1>>] = visits \o w
  /\ phase = "over" => agenda = << >>

LEMMA WalkInvInit == Init => WalkInv
BY DEF Init, WalkInv

\* What the parser hands over to the visitor.
Parsed ==
  phase \in {"visit", "over"} =>
    stack = <<TreeOf(tokens)[<<1, Len(tokens) - 1>>]>> /\ Len(tokens) \in Nat \ {0}

LEMMA WalkInvAccept ==
  ASSUME Parsed', WalkInv, Accept
  PROVE  WalkInv'
<1>1. /\ phase = "parse" /\ phase' = "visit" /\ agenda' = <<stack[1]>>
      /\ visits' = visits /\ tokens' = tokens /\ stack' = stack
  BY DEF Accept, Parsing, lexer, parser
<1>2. visits = << >>
  BY <1>1 DEF WalkInv
<1> DEFINE n == Len(tokens) - 1
           r == <<1, n>>
<1>3. stack' = <<TreeOf(tokens')[<<1, Len(tokens') - 1>>]>> /\ Len(tokens') \in Nat \ {0}
  BY <1>1 DEF Parsed
<1>4. stack = <<TreeOf(tokens)[r]>> /\ Len(tokens) \in Nat \ {0}
  BY <1>1, <1>3, Zenon
<1>5. r \in Ranges(tokens) /\ Len(tokens) \in Nat
  BY <1>4 DEF Ranges
<1> HIDE DEF r
<1> DEFINE t == TreeOf(tokens)[r]
           w == Preorder(tokens)[r] \o << >>
<1>6. Preorder(tokens)[r] \in Seq(Nodes(tokens)) /\ t \in Trees(tokens)
  BY <1>5, NodesAt, Zenon DEF NodeAt, Trees
<1>7. Todo(tokens, <<t>> \o << >>, w)
  BY <1>5, TodoNone, TodoMore
<1>8. agenda' = <<t>> \o << >>
  <2>1. stack[1] = t
    BY <1>4
  <2> HIDE DEF t
  <2>2. <<t>> \o << >> = <<t>>
    OBVIOUS
  <2> QED
    BY <1>1, <2>1, <2>2, Zenon
<1>9. w = Preorder(tokens)[r] /\ w = << >> \o w
  <2>1. w = Preorder(tokens)[r]
    BY <1>6, ConcatEmptySeq, Zenon
  <2> QED
    BY <1>6, <2>1, ConcatEmptySeq, Zenon
<1>10. << >> \in Seq(Nodes(tokens))
  OBVIOUS
<1> HIDE DEF t, w
<1>11. \E v : /\ Todo(tokens', agenda', v) /\ visits' \in Seq(Nodes(tokens'))
              /\ Preorder(tokens')[<<1, Len(tokens') - 1>>] = visits' \o v
  BY <1>1, <1>2, <1>7, <1>8, <1>9, <1>10, Zenon DEF r
<1>12. phase' \in {"visit", "over"} /\ phase' # "over"
  BY <1>1
<1> QED
  BY <1>11, <1>12, Zenon DEF WalkInv

LEMMA WalkInvVisit ==
  ASSUME LexOK, WalkInv, Visit
  PROVE  WalkInv'
<1>1. /\ phase = "visit" /\ phase' = "visit" /\ agenda # << >> /\ tokens' = tokens
      /\ visits' = Append(visits, <<agenda[1].op, agenda[1].at>>)
      /\ agenda' = agenda[1].kids \o Tail(agenda)
  BY DEF Visit, Children, lexer
<1>2. Len(tokens) \in Nat
  BY DEF LexOK
<1>3. PICK w : /\ Todo(tokens, agenda, w) /\ visits \in Seq(Nodes(tokens))
               /\ Preorder(tokens)[<<1, Len(tokens) - 1>>] = visits \o w
  BY <1>1 DEF WalkInv
<1> DEFINE p == <<agenda[1].op, agenda[1].at>>
<1>4. PICK v : w = <<p>> \o v /\ p \in Nodes(tokens) /\ Todo(tokens, agenda', v)
  BY <1>1, <1>2, <1>3, TodoVisit, Zenon
<1>5. v \in Seq(Nodes(tokens))
  BY <1>4, TodoTyped, Zenon
<1>6. visits' = Append(visits, p)
  BY <1>1
<1> HIDE DEF p
<1>7. <<p>> \in Seq(Nodes(tokens))
  BY <1>4
<1>8. visits' = visits \o <<p>> /\ visits' \in Seq(Nodes(tokens))
  BY <1>3, <1>4, <1>6, AppendIsConcat, AppendProperties
<1>9. visits \o w = visits' \o v
  <2> DEFINE S == Nodes(tokens)
  <2>1. visits \in Seq(S) /\ v \in Seq(S) /\ <<p>> \in Seq(S)
    BY <1>3, <1>5, <1>7
  <2> HIDE DEF S
  <2>2. \A q \in Seq(S) : Associates(visits, q, v)
    BY <2>1, ConcatsOfThree
  <2>3. (visits \o <<p>>) \o v = visits \o (<<p>> \o v)
    BY <2>1, <2>2, Zenon DEF Associates
  <2> QED
    BY <1>4, <1>8, <2>3, Zenon
<1>10. \E u : /\ Todo(tokens', agenda', u) /\ visits' \in Seq(Nodes(tokens'))
              /\ Preorder(tokens')[<<1, Len(tokens') - 1>>] = visits' \o u
  BY <1>1, <1>3, <1>4, <1>8, <1>9, Zenon
<1>11. phase' \in {"visit", "over"} /\ phase' # "over"
  BY <1>1
<1> QED
  BY <1>10, <1>11, Zenon DEF WalkInv

LEMMA WalkInvNext ==
  ASSUME LexOK, Parsed', WalkInv, [Next]_vars
  PROVE  WalkInv'
<1>1. CASE Accept
  BY <1>1, WalkInvAccept
<1>2. CASE Visit
  BY <1>2, WalkInvVisit
<1>3. CASE UNCHANGED vars \/ Done
  BY <1>3 DEF vars, Done, WalkInv
<1>4. CASE Leave
  <2>1. phase = "visit" /\ phase' = "over" /\ agenda = << >> /\ UNCHANGED <<tokens, agenda, visits>>
    BY <1>4 DEF Leave, lexer, visitor
  <2> QED
    BY <2>1 DEF WalkInv
<1>5. CASE tokenize \/ Reduce \/ Shift \/ SyntaxErr \/ EndOfInput
  <2>1. phase = "parse" /\ phase' \notin {"visit", "over"} /\ visits' = visits
    <3>1. CASE Ignore \/ LineComment \/ BlockComment \/ Scan
      BY <3>1 DEF Ignore, LineComment, BlockComment, Scan, Lexing, visitor
    <3>2. CASE Unterminated \/ IllegalChar
      BY <3>2 DEF Unterminated, IllegalChar, Lexing, visitor
    <3>3. CASE Ident \/ String \/ Literal
      BY <3>3, Zenon DEF Ident, String, Literal, Return, Lexing, visitor
    <3>4. CASE Reduce \/ Shift \/ SyntaxErr \/ EndOfInput
      BY <3>4, Zenon DEF Reduce, Shift, SyntaxErr, EndOfInput, Parsing, visitor
    <3> QED
      BY <1>5, <3>1, <3>2, <3>3, <3>4 DEF tokenize
  <2>2. visits = << >>
    BY <2>1 DEF WalkInv
  <2>3. phase' # "over"
    BY <2>1
  <2> QED
    BY <2>1, <2>2, <2>3, Zenon DEF WalkInv
<1> QED
  BY <1>1, <1>2, <1>3, <1>4, <1>5 DEF Next, parse

LEMMA WalkInvShows ==
  ASSUME WalkInv, phase = "over"
  PROVE  visits = Preorder(tokens)[<<1, Len(tokens) - 1>>]
<1>1. agenda = << >>
  BY DEF WalkInv
<1>2. PICK w : /\ Todo(tokens, agenda, w) /\ visits \in Seq(Nodes(tokens))
               /\ Preorder(tokens)[<<1, Len(tokens) - 1>>] = visits \o w
  BY DEF WalkInv
<1>3. w = << >>
  BY <1>1, <1>2, TodoNone
<1> QED
  BY <1>2, <1>3, ConcatEmptySeq, Zenon

----------------------------------------------------------------------------
(***************************************************************************)
(* The order of the operands.                                              *)
(***************************************************************************)

\* The operands among the nodes w, their positions, and that these increase.
Leaves(w) == {i \in DOMAIN w : w[i][1] = "ident"}
Places(w) == {w[i][2] : i \in Leaves(w)}
Ordered(w) == \A i, j \in Leaves(w) : i < j => w[i][2] < w[j][2]

Joined(a, b) == Ordered(a \o b) /\ Places(a \o b) = Places(a) \cup Places(b)

LEMMA PlacesJoined ==
  ASSUME NEW S, NEW a \in Seq(S), NEW b \in Seq(S), Ordered(a), Ordered(b),
         \A x \in Places(a), y \in Places(b) : x < y
  PROVE  Joined(a, b)
<1> DEFINE n == Len(a)
           m == Len(b)
           c == a \o b
<1>1. n \in Nat /\ m \in Nat /\ DOMAIN a = 1 .. n /\ DOMAIN b = 1 .. m
  OBVIOUS
<1>2. /\ c \in Seq(S) /\ Len(c) = n + m
      /\ \A i \in 1 .. n + m : c[i] = IF i <= n THEN a[i] ELSE b[i - n]
  BY ConcatProperties
<1>3. DOMAIN c = 1 .. n + m
  BY <1>2
<1> HIDE DEF n, m, c
<1>4. ASSUME NEW i \in Leaves(c)
      PROVE  /\ i \in 1 .. n + m
             /\ i <= n => i \in Leaves(a) /\ c[i] = a[i] /\ c[i][2] \in Places(a)
             /\ ~(i <= n) => i - n \in Leaves(b) /\ c[i] = b[i - n] /\ c[i][2] \in Places(b)
  <2>1. i \in 1 .. n + m /\ c[i][1] = "ident"
    BY <1>3 DEF Leaves
  <2>2. CASE i <= n
    <3>1. i \in 1 .. n /\ c[i] = a[i]
      BY <1>1, <1>2, <2>1, <2>2
    <3>2. i \in Leaves(a)
      BY <1>1, <2>1, <3>1, Zenon DEF Leaves
    <3> QED
      BY <2>1, <2>2, <3>1, <3>2, Zenon DEF Places
  <2>3. CASE ~(i <= n)
    <3>1. i - n \in 1 .. m /\ c[i] = b[i - n]
      BY <1>1, <1>2, <2>1, <2>3
    <3>2. i - n \in Leaves(b)
      BY <1>1, <2>1, <3>1, Zenon DEF Leaves
    <3> QED
      BY <2>1, <2>3, <3>1, <3>2, Zenon DEF Places
  <2> QED
    BY <2>2, <2>3
<1>5. Ordered(c)
  <2> SUFFICES ASSUME NEW i \in Leaves(c), NEW j \in Leaves(c), i < j
               PROVE  c[i][2] < c[j][2]
    BY DEF Ordered
  <2>1. i \in 1 .. n + m /\ j \in 1 .. n + m
    BY <1>4
  <2>2. CASE j <= n
    <3>1. i <= n
      BY <1>1, <2>1, <2>2
    <3> QED
      BY <1>4, <2>2, <3>1 DEF Ordered
  <2>3. CASE i <= n /\ ~(j <= n)
    BY <1>4, <2>3
  <2>4. CASE ~(i <= n) /\ ~(j <= n)
    <3>1. i - n < j - n
      BY <1>1, <2>1
    <3> QED
      BY <1>4, <2>4, <3>1 DEF Ordered
  <2> QED
    BY <2>2, <2>3, <2>4
<1>6. Places(c) \subseteq Places(a) \cup Places(b)
  BY <1>4 DEF Places
<1>7. ASSUME NEW i \in Leaves(a) PROVE a[i][2] \in Places(c)
  <2>1. i \in 1 .. n /\ a[i][1] = "ident"
    BY <1>1 DEF Leaves
  <2>2. i \in 1 .. n + m /\ c[i] = a[i]
    BY <1>1, <1>2, <2>1
  <2> QED
    BY <1>3, <2>1, <2>2, Zenon DEF Places, Leaves
<1>8. ASSUME NEW i \in Leaves(b) PROVE b[i][2] \in Places(c)
  <2>1. i \in 1 .. m /\ b[i][1] = "ident"
    BY <1>1 DEF Leaves
  <2>2. n + i \in 1 .. n + m /\ c[n + i] = b[i]
    <3>1. n + i \in 1 .. n + m /\ ~(n + i <= n) /\ (n + i) - n = i
      BY <1>1, <2>1
    <3>2. c[n + i] = b[(n + i) - n]
      BY <1>2, <3>1, Zenon
    <3> QED
      BY <3>1, <3>2, Zenon
  <2> QED
    BY <1>3, <2>1, <2>2, Zenon DEF Places, Leaves
<1>9. Places(c) = Places(a) \cup Places(b)
  <2>1. Places(a) \subseteq Places(c)
    BY <1>7 DEF Places
  <2>2. Places(b) \subseteq Places(c)
    BY <1>8 DEF Places
  <2> QED
    BY <1>6, <2>1, <2>2
<1> QED
  BY <1>5, <1>9, Zenon DEF c, Joined

\* One node.
LEMMA PlacesOfOne ==
  ASSUME NEW p
  PROVE  /\ Ordered(<<p>>)
         /\ Places(<<p>>) = IF p[1] = "ident" THEN {p[2]} ELSE {}
<1>1. DOMAIN <<p>> = {1} /\ <<p>>[1] = p
  OBVIOUS
<1>2. Ordered(<<p>>)
  BY <1>1 DEF Ordered, Leaves
<1>3. Places(<<p>>) = IF p[1] = "ident" THEN {p[2]} ELSE {}
  BY <1>1, Zenon DEF Places, Leaves
<1> QED
  BY <1>2, <1>3

\* Tokens that are an expression: operands and operators alternate, from an
\* operand to an operand, and the parentheses match.
Starts(t) == t.type \in {"IDENT", "("}

Phrase(s, lo, hi) ==
  /\ lo \in Nat \ {0} /\ hi \in Nat /\ lo <= hi /\ hi <= Len(s)
  /\ Balanced(s, lo, hi)
  /\ Starts(s[lo]) /\ Operand(s[hi])
  /\ \A i \in lo .. hi : ViableAt(s, i) /\ s[i].type # ";"

\* After an operand there is an operator or a closing parenthesis, and only
\* there.
LEMMA Alternates ==
  ASSUME NEW s \in Seq(TokenSet), NEW lo, NEW hi, Phrase(s, lo, hi), NEW i \in lo .. hi
  PROVE  /\ s[i].type \in Operators \cup {"IDENT", "(", ")"}
         /\ i > lo /\ Operand(s[i - 1]) => s[i].type \in Operators \cup {")"}
         /\ i > lo /\ ~Operand(s[i - 1]) => Starts(s[i])
         /\ i > lo /\ s[i].type \in Operators \cup {")"} => Operand(s[i - 1])
<1>1. lo \in Nat \ {0} /\ hi \in Nat /\ hi <= Len(s) /\ Len(s) \in Nat
  BY LenProperties, Zenon DEF Phrase
<1>2. i \in 1 .. Len(s)
  BY <1>1
<1>3. s[i].type \in Literals \cup {"IDENT", "STRING"}
  <2>1. s[i] \in TokenSet
    BY <1>2, ElementOfSeq
  <2> QED
    BY <2>1 DEF TokenSet, TokenTypes
<1>4. ViableAt(s, i) /\ s[i].type # ";"
  BY DEF Phrase
<1>5. s[i].type # "STRING"
  BY <1>4 DEF ViableAt
<1>6. s[i].type \in Operators \cup {"IDENT", "(", ")"}
  BY <1>3, <1>4, <1>5 DEF Literals
<1>7. ASSUME i > lo PROVE Operand(s[i - 1]) <=> s[i].type \in Operators \cup {")"}
  <2>1. i > 1
    BY <1>1, <1>7
  <2>2. Operand(s[i - 1]) <=> s[i].type \in Operators \cup {")", ";"}
    BY <1>4, <2>1, Zenon DEF ViableAt
  <2> QED
    BY <1>4, <2>2
<1>8. s[i].type \in Operators \cup {")"} \/ Starts(s[i])
  BY <1>6 DEF Starts
<1> QED
  BY <1>6, <1>7, <1>8

\* A range without an operator outside of parentheses is in parentheses: where
\* the first one is closed, nothing could follow but an operator.
LEMMA PhraseParens ==
  ASSUME NEW s \in Seq(TokenSet), NEW lo, NEW hi, Phrase(s, lo, hi), lo < hi,
         Outside(s, lo, hi) = {}
  PROVE  s[lo].type = "(" /\ s[hi].type = ")" /\ Phrase(s, lo + 1, hi - 1)
<1>1. /\ lo \in Nat \ {0} /\ hi \in Nat /\ hi <= Len(s) /\ Len(s) \in Nat
      /\ Nesting(s, lo, hi) = 0 /\ \A j \in lo .. hi : Nesting(s, lo, j) >= 0
      /\ Starts(s[lo]) /\ Operand(s[hi])
  BY LenProperties, Zenon DEF Phrase, Balanced
<1>2. \A j \in lo .. hi : s[j].type \in Operators => Nesting(s, lo, j) # 0
  BY DEF Outside
<1>3. \A j \in lo .. hi : /\ Nesting(s, lo, j) \in Int
                          /\ Nesting(s, lo, j - 1) \in Int
                          /\ Nesting(s, lo, j) = Nesting(s, lo, j - 1) + Opens(s[j])
  <2> SUFFICES ASSUME NEW j \in lo .. hi
               PROVE  /\ Nesting(s, lo, j) \in Int /\ Nesting(s, lo, j - 1) \in Int
                      /\ Nesting(s, lo, j) = Nesting(s, lo, j - 1) + Opens(s[j])
    OBVIOUS
  <2>1. j \in Nat \ {0} /\ lo <= j
    BY <1>1
  <2>2. /\ Nesting(s, lo, j - 1) \in Int
        /\ Nesting(s, lo, j) = Nesting(s, lo, j - 1) + Opens(s[j])
    BY <1>1, <2>1, NestingStep
  <2>3. Opens(s[j]) \in Int
    BY DEF Opens
  <2> QED
    BY <2>2, <2>3
<1>4. ASSUME NEW j \in lo .. hi - 1 PROVE Nesting(s, lo, j) # 0
  <2> SUFFICES ASSUME Nesting(s, lo, j) = 0 PROVE FALSE
    OBVIOUS
  <2>1. j \in lo .. hi /\ j + 1 \in lo .. hi /\ j + 1 > lo /\ (j + 1) - 1 = j
    BY <1>1
  <2>2. s[j].type \notin Operators
    BY <1>2, <2>1
  <2>3. Operand(s[j])
    <3>1. s[j].type \in {"IDENT", "(", ")"}
      BY <2>1, <2>2, Alternates
    <3>2. s[j].type # "("
      <4> SUFFICES ASSUME s[j].type = "(" PROVE FALSE
        OBVIOUS
      <4>1. Opens(s[j]) = 1
        BY DEF Opens
      <4>2. Nesting(s, lo, j - 1) = -1
        BY <1>3, <2>1, <4>1
      <4>3. CASE j = lo
        <5>1. Nesting(s, lo, j - 1) = 0
          BY <1>1, <4>3, NestingNone, lo - 1 \in Int, lo - 1 < lo
        <5> QED
          BY <4>2, <5>1
      <4>4. CASE j # lo
        <5>1. j - 1 \in lo .. hi
          BY <1>1, <4>4
        <5> QED
          BY <1>1, <4>2, <5>1
      <4> QED
        BY <4>3, <4>4
    <3> QED
      BY <3>1, <3>2 DEF Operand
  <2>4. s[j + 1].type \in Operators \cup {")"}
    BY <2>1, <2>3, Alternates
  <2>5. Nesting(s, lo, j + 1) = Opens(s[j + 1])
    BY <1>3, <2>1, 0 + Opens(s[j + 1]) = Opens(s[j + 1]) DEF Opens
  <2>6. CASE s[j + 1].type \in Operators
    <3>1. Opens(s[j + 1]) = 0
      BY <2>6 DEF Opens, Operators
    <3> QED
      BY <1>2, <2>1, <2>5, <2>6, <3>1
  <2>7. CASE s[j + 1].type = ")"
    <3>1. Opens(s[j + 1]) = -1
      BY <2>7 DEF Opens
    <3> QED
      BY <1>1, <2>1, <2>5, <3>1
  <2> QED
    BY <2>4, <2>6, <2>7
<1>5. s[lo].type = "("
  <2>1. Nesting(s, lo, lo) = Opens(s[lo])
    BY <1>1, NestingOne
  <2>2. Opens(s[lo]) # 0
    BY <1>1, <1>4, <2>1
  <2> QED
    BY <1>1, <2>2 DEF Starts, Opens
<1>6. Nesting(s, lo, lo) = 1
  BY <1>1, <1>5, NestingOne DEF Opens
<1>7. s[hi].type = ")"
  <2>1. hi - 1 \in lo .. hi - 1 /\ hi \in lo .. hi
    BY <1>1
  <2>2. Nesting(s, lo, hi - 1) # 0
    BY <1>4, <2>1
  <2>3. Opens(s[hi]) # 0
    <3>1. Nesting(s, lo, hi) = Nesting(s, lo, hi - 1) + Opens(s[hi]) /\ Nesting(s, lo, hi - 1) \in Int
      BY <1>3, <2>1
    <3> QED
      BY <1>1, <2>2, <3>1
  <2> QED
    BY <1>1, <2>3 DEF Operand, Opens
<1>8. Operand(s[hi - 1]) /\ hi - 1 > lo
  <2>1. hi \in lo .. hi /\ hi > lo
    BY <1>1
  <2>2. Operand(s[hi - 1])
    BY <1>7, <2>1, Alternates
  <2>3. ~Operand(s[lo])
    BY <1>5 DEF Operand
  <2>4. hi - 1 # lo
    BY <2>2, <2>3
  <2> QED
    BY <1>1, <2>2, <2>4
<1>9. Starts(s[lo + 1])
  <2>1. lo + 1 \in lo .. hi /\ lo + 1 > lo /\ (lo + 1) - 1 = lo
    BY <1>1
  <2>2. ~Operand(s[lo])
    BY <1>5 DEF Operand
  <2> QED
    BY <2>1, <2>2, Alternates
<1>10. ASSUME NEW j \in lo + 1 .. hi - 1
       PROVE  Nesting(s, lo + 1, j) \in Int /\ Nesting(s, lo, j) = 1 + Nesting(s, lo + 1, j)
  <2>1. lo \in Nat /\ j \in Nat /\ lo <= lo + 1 /\ lo <= j /\ lo + 1 \in Nat /\ lo + 1 <= j + 1 /\ j <= j
    BY <1>1
  <2>2. Nesting(s, lo, j) = Nesting(s, lo, lo) + Nesting(s, lo + 1, j)
    BY <2>1, NestingSplit
  <2>3. Nesting(s, lo + 1, j) \in Int
    BY <2>1, NestingSplit
  <2> QED
    BY <1>6, <2>2, <2>3
<1>11. Balanced(s, lo + 1, hi - 1)
  <2>1. ASSUME NEW j \in lo + 1 .. hi - 1 PROVE Nesting(s, lo + 1, j) >= 0
    <3>1. j \in lo .. hi /\ j \in lo .. hi - 1
      BY <1>1
    <3>2. Nesting(s, lo, j) >= 0 /\ Nesting(s, lo, j) # 0
      BY <1>1, <1>4, <3>1
    <3> QED
      BY <1>10, <3>2
  <2>2. Nesting(s, lo + 1, hi - 1) = 0
    <3>1. hi - 1 \in lo + 1 .. hi - 1 /\ hi \in lo .. hi
      BY <1>1, <1>8
    <3>2. Opens(s[hi]) = -1
      BY <1>7 DEF Opens
    <3>3. Nesting(s, lo, hi - 1) = 1
      BY <1>1, <1>3, <3>1, <3>2
    <3> QED
      BY <1>10, <3>1, <3>3
  <2> QED
    BY <2>1, <2>2 DEF Balanced
<1>12. \A i \in lo + 1 .. hi - 1 : ViableAt(s, i) /\ s[i].type # ";"
  <2>1. \A i \in lo + 1 .. hi - 1 : i \in lo .. hi
    BY <1>1
  <2> QED
    BY <2>1 DEF Phrase
<1>13. lo + 1 \in Nat \ {0} /\ hi - 1 \in Nat /\ lo + 1 <= hi - 1 /\ hi - 1 <= Len(s)
  BY <1>1, <1>8
<1> QED
  BY <1>5, <1>7, <1>8, <1>9, <1>11, <1>12, <1>13 DEF Phrase

\* On both sides of an operator outside of parentheses there is an expression.
LEMMA PhraseBinOp ==
  ASSUME NEW s \in Seq(TokenSet), NEW lo, NEW hi, Phrase(s, lo, hi),
         NEW m \in Outside(s, lo, hi)
  PROVE  /\ lo < m /\ m < hi /\ s[m].type \in Operators
         /\ Phrase(s, lo, m - 1) /\ Phrase(s, m + 1, hi)
<1>1. /\ lo \in Nat \ {0} /\ hi \in Nat /\ hi <= Len(s) /\ Len(s) \in Nat
      /\ Nesting(s, lo, hi) = 0 /\ \A j \in lo .. hi : Nesting(s, lo, j) >= 0
      /\ Starts(s[lo]) /\ Operand(s[hi])
  BY LenProperties, Zenon DEF Phrase, Balanced
<1>2. m \in lo .. hi /\ s[m].type \in Operators /\ Nesting(s, lo, m) = 0
  BY DEF Outside
<1>3. ~Starts(s[m]) /\ ~Operand(s[m]) /\ Opens(s[m]) = 0
  BY <1>2 DEF Starts, Operand, Opens, Operators
<1>4. m # lo /\ m # hi
  BY <1>1, <1>3
<1>5. lo < m /\ m < hi /\ m \in Nat \ {0}
  BY <1>1, <1>2, <1>4
<1>6. Operand(s[m - 1])
  BY <1>2, <1>5, Alternates
<1>7. Starts(s[m + 1])
  <2>1. m + 1 \in lo .. hi /\ m + 1 > lo /\ (m + 1) - 1 = m
    BY <1>1, <1>5
  <2> QED
    BY <1>3, <2>1, Alternates
<1>8. Balanced(s, lo, m - 1)
  <2>1. \A j \in lo .. m - 1 : j \in lo .. hi
    BY <1>1, <1>5
  <2>2. Nesting(s, lo, m - 1) = 0
    <3>1. Nesting(s, lo, m - 1) \in Int /\ Nesting(s, lo, m) = Nesting(s, lo, m - 1) + Opens(s[m])
      BY <1>1, <1>5, NestingStep
    <3> QED
      BY <1>2, <1>3, <3>1
  <2> QED
    BY <1>1, <2>1, <2>2 DEF Balanced
<1>9. Balanced(s, m + 1, hi)
  <2>1. ASSUME NEW j \in m + 1 .. hi PROVE Nesting(s, m + 1, j) = Nesting(s, lo, j)
    <3>1. lo \in Nat /\ m \in Nat /\ j \in Nat /\ lo <= m + 1 /\ m <= j /\ m + 1 \in Nat
          /\ m + 1 <= j + 1 /\ j <= j
      BY <1>1, <1>5
    <3>2. Nesting(s, lo, j) = Nesting(s, lo, m) + Nesting(s, m + 1, j)
      BY <3>1, NestingSplit
    <3>3. Nesting(s, m + 1, j) \in Int
      BY <3>1, NestingSplit
    <3> QED
      BY <1>2, <3>2, <3>3
  <2>2. \A j \in m + 1 .. hi : j \in lo .. hi
    BY <1>1, <1>5
  <2>3. hi \in m + 1 .. hi
    BY <1>1, <1>5
  <2> QED
    BY <1>1, <2>1, <2>2, <2>3 DEF Balanced
<1>10. /\ \A i \in lo .. m - 1 : ViableAt(s, i) /\ s[i].type # ";"
       /\ \A i \in m + 1 .. hi : ViableAt(s, i) /\ s[i].type # ";"
  <2>1. /\ \A i \in lo .. m - 1 : i \in lo .. hi
        /\ \A i \in m + 1 .. hi : i \in lo .. hi
    BY <1>1, <1>5
  <2> QED
    BY <2>1 DEF Phrase
<1>11. /\ m - 1 \in Nat /\ lo <= m - 1 /\ m - 1 <= Len(s)
       /\ m + 1 \in Nat \ {0} /\ m + 1 <= hi
  BY <1>1, <1>5
<1>12. Phrase(s, lo, m - 1)
  BY <1>1, <1>6, <1>8, <1>10, <1>11 DEF Phrase
<1>13. Phrase(s, m + 1, hi)
  BY <1>1, <1>7, <1>9, <1>10, <1>11 DEF Phrase
<1> QED
  BY <1>2, <1>5, <1>12, <1>13

\* Where the identifiers among s[lo], ..., s[hi] are.
IdentsAt(s, lo, hi) == {s[i].at : i \in {j \in lo .. hi : s[j].type = "IDENT"}}

Increasing(s) == \A i, j \in DOMAIN s : i < j => s[i].at < s[j].at

\* The nodes of an expression have its identifiers in their order.
InOrder(s, r) ==
  Phrase(s, r[1], r[2]) =>
    Ordered(Preorder(s)[r]) /\ Places(Preorder(s)[r]) = IdentsAt(s, r[1], r[2])

LEMMA IdentsBefore ==
  ASSUME NEW s \in Seq(TokenSet), Increasing(s), NEW lo \in Nat \ {0}, NEW hi \in Nat, hi <= Len(s),
         NEW m \in lo .. hi
  PROVE  \A x \in IdentsAt(s, lo, m - 1), y \in IdentsAt(s, m + 1, hi) : x < y
<1> SUFFICES ASSUME NEW i \in lo .. m - 1, NEW j \in m + 1 .. hi PROVE s[i].at < s[j].at
  BY DEF IdentsAt
<1>1. DOMAIN s = 1 .. Len(s) /\ Len(s) \in Nat
  BY LenProperties
<1>2. i \in DOMAIN s /\ j \in DOMAIN s /\ i < j
  BY <1>1
<1> QED
  BY <1>2 DEF Increasing

LEMMA InOrderStep ==
  ASSUME NEW s \in Seq(TokenSet), Increasing(s), NEW r \in Ranges(s),
         \A q : Narrower(s, q, r) => InOrder(s, q)
  PROVE  InOrder(s, r)
<1> DEFINE lo == r[1]
           hi == r[2]
           m == Root(s, lo, hi)
           q == <<lo + 1, hi - 1>>
           x == <<lo, m - 1>>
           y == <<m + 1, hi>>
           p == NodeOf(s, r)
<1> SUFFICES ASSUME Phrase(s, lo, hi)
             PROVE  /\ Ordered(Preorder(s)[r])
                    /\ Places(Preorder(s)[r]) = IdentsAt(s, lo, hi)
  BY DEF InOrder
<1>0. Len(s) \in Nat
  BY LenProperties
<1>1. TreeOf(s)[r] = TreeAt(s, TreeOf(s), r)
  BY <1>0, TreeStepAt
<1>2. Preorder(s)[r] = OrderAt(s, Preorder(s), r)
  BY <1>0, OrderStep
<1>3. lo \in Nat \ {0} /\ hi \in Nat /\ lo <= hi /\ hi <= Len(s)
  BY Zenon DEF Phrase
<1>4. CASE lo = hi
  <2>1. TreeOf(s)[r] = Leaf(s[lo])
    BY <1>1, <1>3, <1>4, lo >= hi, Zenon DEF TreeAt
  <2>2. Preorder(s)[r] = <<p>>
    BY <1>2, <1>3, <1>4, lo >= hi, Zenon DEF OrderAt, NodeOf
  <2>3. s[lo].type = "IDENT"
    BY <1>4 DEF Phrase, Starts, Operand
  <2>4. p[1] = "ident" /\ p[2] = s[lo].at
    BY <2>1 DEF NodeOf, Leaf
  <2>5. {j \in lo .. hi : s[j].type = "IDENT"} = {lo}
    BY <1>3, <1>4, <2>3
  <2>6. IdentsAt(s, lo, hi) = {s[lo].at}
    BY <2>5, Zenon DEF IdentsAt
  <2> HIDE DEF p
  <2> QED
    BY <2>2, <2>4, <2>6, PlacesOfOne, Zenon
<1>5. CASE lo < hi /\ Outside(s, lo, hi) = {}
  <2>1. s[lo].type = "(" /\ s[hi].type = ")" /\ Phrase(s, lo + 1, hi - 1)
    BY <1>5, PhraseParens
  <2>2. Narrower(s, q, r)
    BY <1>0, <1>5, Parts
  <2>3. q[1] = lo + 1 /\ q[2] = hi - 1
    OBVIOUS
  <2>4. Preorder(s)[r] = Preorder(s)[q]
    BY <1>2, <1>3, <1>5, ~(lo >= hi), Zenon DEF OrderAt
  <2>5. IdentsAt(s, lo, hi) = IdentsAt(s, lo + 1, hi - 1)
    <3>1. ASSUME NEW j, s[j].type = "IDENT" PROVE j \in lo .. hi <=> j \in lo + 1 .. hi - 1
      <4>1. j # lo /\ j # hi
        BY <2>1, <3>1
      <4> QED
        BY <1>3, <4>1
    <3>2. {j \in lo .. hi : s[j].type = "IDENT"} = {j \in lo + 1 .. hi - 1 : s[j].type = "IDENT"}
      BY <3>1, Zenon
    <3> QED
      BY <3>2, Zenon DEF IdentsAt
  <2>6. InOrder(s, q)
    BY <2>2
  <2> QED
    BY <2>1, <2>3, <2>4, <2>5, <2>6, Zenon DEF InOrder
<1>6. CASE lo < hi /\ Outside(s, lo, hi) # {}
  <2>1. m \in Outside(s, lo, hi)
    <3>1. IsRoot(s, lo, hi, m)
      BY <1>3, <1>6, RootIs
    <3> QED
      BY <3>1, Zenon DEF IsRoot
  <2>2. /\ lo < m /\ m < hi /\ s[m].type \in Operators
        /\ Phrase(s, lo, m - 1) /\ Phrase(s, m + 1, hi)
    BY <2>1, PhraseBinOp
  <2>3. Narrower(s, x, r) /\ Narrower(s, y, r)
    BY <1>0, <1>6, Parts
  <2>4. x \in Ranges(s) /\ y \in Ranges(s) /\ InOrder(s, x) /\ InOrder(s, y)
    BY <2>3, Zenon DEF Narrower
  <2>5. x[1] = lo /\ x[2] = m - 1 /\ y[1] = m + 1 /\ y[2] = hi
    OBVIOUS
  <2>6. Preorder(s)[r] = <<p>> \o Preorder(s)[x] \o Preorder(s)[y]
    BY <1>2, <1>3, <1>6, ~(lo >= hi), Zenon DEF OrderAt, NodeOf
  <2>7. TreeOf(s)[r] = BinOp(s[m].type, TreeOf(s)[x], TreeOf(s)[y])
    BY <1>1, <1>3, <1>6, ~(lo >= hi), Zenon DEF TreeAt
  <2>8. p[1] # "ident"
    <3>1. p[1] = s[m].type
      BY <2>7 DEF NodeOf, BinOp
    <3> QED
      BY <2>2, <3>1 DEF Operators
  <2> DEFINE X == Preorder(s)[x]
             Y == Preorder(s)[y]
             S == Nodes(s)
  <2>9. X \in Seq(S) /\ Y \in Seq(S)
    BY <1>0, <2>4, NodesAt, Zenon DEF NodeAt
  <2>10. p \in S
    BY DEF Nodes
  <2>11. /\ Ordered(X) /\ Places(X) = IdentsAt(s, lo, m - 1)
         /\ Ordered(Y) /\ Places(Y) = IdentsAt(s, m + 1, hi)
    BY <2>2, <2>4, <2>5, Zenon DEF InOrder
  <2> HIDE DEF X, Y, S, p
  <2>12. <<p>> \in Seq(S) /\ Ordered(<<p>>) /\ Places(<<p>>) = {}
    <3>1. <<p>> \in Seq(S)
      BY <2>10
    <3> QED
      BY <2>8, <3>1, PlacesOfOne, Zenon
  <2>13. Ordered(<<p>> \o X) /\ Places(<<p>> \o X) = Places(X) /\ <<p>> \o X \in Seq(S)
    <3>1. Ordered(<<p>> \o X) /\ Places(<<p>> \o X) = Places(<<p>>) \cup Places(X)
      <4> DEFINE Q == <<p>>
      <4>1. Q \in Seq(S) /\ Ordered(Q) /\ Places(Q) = {}
        BY <2>12
      <4> HIDE DEF Q
      <4>2. \A a \in Places(Q), b \in Places(X) : a < b
        BY <4>1, Zenon
      <4>3. Joined(Q, X)
        BY <2>9, <2>11, <4>1, <4>2, PlacesJoined
      <4> QED
        BY <4>3, Zenon DEF Q, Joined
    <3>2. <<p>> \o X \in Seq(S)
      BY <2>9, <2>12, ConcatProperties
    <3> QED
      BY <2>12, <3>1, <3>2
  <2>14. m \in lo .. hi
    BY <2>1 DEF Outside
  <2>15. \A a \in Places(X), b \in Places(Y) : a < b
    BY <1>3, <2>11, <2>14, IdentsBefore, Zenon
  <2>16. /\ Ordered((<<p>> \o X) \o Y)
         /\ Places((<<p>> \o X) \o Y) = Places(X) \cup Places(Y)
    <3> DEFINE Z == <<p>> \o X
    <3>1. Z \in Seq(S) /\ Ordered(Z) /\ Places(Z) = Places(X)
      BY <2>13
    <3> HIDE DEF Z
    <3>2. \A a \in Places(Z), b \in Places(Y) : a < b
      BY <2>15, <3>1
    <3>3. Joined(Z, Y)
      BY <2>9, <2>11, <3>1, <3>2, PlacesJoined
    <3> QED
      BY <3>1, <3>3, Zenon DEF Z, Joined
  <2>17. IdentsAt(s, lo, hi) = IdentsAt(s, lo, m - 1) \cup IdentsAt(s, m + 1, hi)
    <3>1. s[m].type # "IDENT"
      BY <2>2 DEF Operators
    <3>2. {j \in lo .. hi : s[j].type = "IDENT"}
            = {j \in lo .. m - 1 : s[j].type = "IDENT"} \cup {j \in m + 1 .. hi : s[j].type = "IDENT"}
      BY <1>3, <2>14, <3>1
    <3> QED
      BY <3>2, Zenon DEF IdentsAt
  <2> QED
    BY <2>6, <2>11, <2>16, <2>17, Zenon DEF X, Y
<1> QED
  BY <1>3, <1>4, <1>5, <1>6

LEMMA InOrderAll ==
  ASSUME NEW s \in Seq(TokenSet), Increasing(s), NEW r \in Ranges(s)
  PROVE  InOrder(s, r)
<1> DEFINE R == Ranges(s)
           n == Len(s)
           k == n + n + 1
           W(q) == q[2] - q[1] + n + 1
           T == {m \in 0 .. k : \A q \in R : W(q) < m => InOrder(s, q)}
<1>1. n \in Nat /\ k \in Nat
  BY LenProperties
<1>2. \A q \in R : W(q) \in Nat /\ W(q) < k
  BY <1>1, RangeIs
<1>3. \A q \in R : (\A p \in R : W(p) < W(q) => InOrder(s, p)) => InOrder(s, q)
  <2> SUFFICES ASSUME NEW q \in R, \A p \in R : W(p) < W(q) => InOrder(s, p)
               PROVE  InOrder(s, q)
    OBVIOUS
  <2>1. \A p \in R : p[2] - p[1] < q[2] - q[1] => W(p) < W(q)
    BY <1>1, RangeIs
  <2>2. \A p : Narrower(s, p, q) => InOrder(s, p)
    BY <2>1 DEF Narrower
  <2> QED
    BY <2>2, InOrderStep
<1> HIDE DEF k, W
<1>4. 0 \in T
  BY <1>1, <1>2
<1>5. \A m \in 0 .. k - 1 : m \in T => m + 1 \in T
  <2> SUFFICES ASSUME NEW m \in 0 .. k - 1, m \in T PROVE m + 1 \in T
    OBVIOUS
  <2>1. ASSUME NEW q \in R, W(q) < m + 1 PROVE InOrder(s, q)
    <3>1. \A p \in R : W(p) < W(q) => W(p) < m
      BY <1>1, <1>2, <2>1
    <3>2. \A p \in R : W(p) < W(q) => InOrder(s, p)
      BY <3>1
    <3> QED
      BY <1>3, <3>2
  <2>2. m + 1 \in 0 .. k
    BY <1>1
  <2> QED
    BY <2>1, <2>2
<1> HIDE DEF T
<1>6. k \in T
  <2>1. 0 .. k \subseteq T
    BY <1>1, <1>4, <1>5, RangeInduction
  <2> QED
    BY <1>1, <2>1
<1> QED
  BY <1>2, <1>6 DEF T

\* Tokens come in the order of the text; the semicolon is never shifted, and is
\* the last token of what is accepted.
OrderInv ==
  /\ Increasing(tokens)
  /\ \A i \in 1 .. Shifted : tokens[i].type # ";"
  /\ phase \in {"visit", "over"} => tokens[Len(tokens)].type = ";"

LEMMA OrderInvInit == Init => OrderInv
<1> SUFFICES ASSUME Init PROVE OrderInv
  OBVIOUS
<1>1. tokens = << >> /\ look = << >> /\ phase = "parse"
  BY DEF Init
<1>2. DOMAIN tokens = {} /\ Len(tokens) = 0 /\ Len(look) = 0
  BY <1>1
<1>3. 1 .. Shifted = {}
  BY <1>2 DEF Shifted
<1> QED
  BY <1>1, <1>2, <1>3 DEF OrderInv, Increasing

LEMMA OrderInvNext ==
  ASSUME LexOK, ErrInv, OrderInv, [Next]_vars
  PROVE  OrderInv'
<1>1. tokens \in Seq(TokenSet) /\ LookOK
  BY DEF LexOK, ErrInv
<1> DEFINE n == Len(tokens)
<1>2. n \in Nat /\ DOMAIN tokens = 1 .. n
  BY <1>1, LenProperties
<1>3. CASE Quiet
  <2>1. UNCHANGED <<look, tokens>>
    BY <1>3 DEF Quiet
  <2>2. Shifted' = Shifted
    BY <2>1 DEF Shifted
  <2>3. phase' \in {"visit", "over"} => phase \in {"visit", "over"} \/ Accept
    BY <1>3 DEF Quiet, SyntaxErr, EndOfInput, Leave
  <2>4. ASSUME Accept PROVE tokens[Len(tokens)].type = ";"
    <3>1. look # << >> /\ look[1].type = ";"
      BY <2>4 DEF Accept, Parsing, Ahead
    <3> QED
      BY <1>1, <3>1, ShiftedIs
  <2> QED
    BY <2>1, <2>2, <2>3, <2>4 DEF OrderInv, Increasing
<1>4. CASE Reduce
  <2>1. UNCHANGED <<look, tokens, phase>>
    BY <1>4 DEF Reduce, lexer
  <2>2. Shifted' = Shifted
    BY <2>1 DEF Shifted
  <2> QED
    BY <2>1, <2>2 DEF OrderInv, Increasing
<1>5. CASE Shift
  <2>1. /\ look # << >> /\ look[1].type # ";" /\ look' = << >> /\ phase = "parse"
        /\ UNCHANGED <<tokens, phase>>
    BY <1>5 DEF Shift, Parsing, Ahead, lexer
  <2>2. Shifted = n - 1 /\ look[1] = tokens[n] /\ n \in Nat \ {0}
    BY <1>1, <2>1, ShiftedIs
  <2>3. Shifted' = n
    <3>1. Len(tokens') = n /\ Len(look') = 0
      BY <2>1
    <3>2. n - 0 = n
      BY <1>2
    <3> QED
      BY <3>1, <3>2, Zenon DEF Shifted
  <2>4. ASSUME NEW i \in 1 .. n PROVE tokens[i].type # ";"
    <3>1. i = n \/ i \in 1 .. n - 1
      <4>1. \A k \in Nat : \A j \in 1 .. k : j = k \/ j \in 1 .. k - 1
        OBVIOUS
      <4> QED
        BY <1>2, <4>1, Zenon
    <3> QED
      BY <2>1, <2>2, <3>1 DEF OrderInv
  <2>5. phase' \notin {"visit", "over"}
    BY <2>1
  <2> QED
    BY <2>1, <2>3, <2>4, <2>5 DEF OrderInv, Increasing
<1>6. ASSUME NEW t, Returning(t) PROVE OrderInv'
  <2>1. /\ t \in TokenSet /\ t.at = pos /\ tokens' = Append(tokens, t) /\ depth = 0
        /\ pos \in Nat
    BY <1>6 DEF Returning, LexOK
  <2>2. /\ phase' = "parse" /\ Shifted = n /\ Shifted' = Shifted
        /\ \A i \in 1 .. n : tokens'[i] = tokens[i]
    BY <1>1, <1>6, ReturnKeeps, Zenon
  <2>3. /\ DOMAIN tokens' = 1 .. n + 1 /\ tokens'[n + 1] = t
    BY <1>1, <2>1, TokensAppend
  <2>4. \A i \in 1 .. n : tokens[i].at \in 1 .. pos - 1
    BY <1>2, <2>1 DEF LexOK, Mark
  <2>5. Increasing(tokens')
    <3> SUFFICES ASSUME NEW i \in 1 .. n + 1, NEW j \in 1 .. n + 1, i < j
                 PROVE  tokens'[i].at < tokens'[j].at
      BY <2>3 DEF Increasing
    <3>1. i \in 1 .. n /\ (j \in 1 .. n \/ j = n + 1)
      BY <1>2
    <3>2. CASE j \in 1 .. n
      <4>1. tokens[i].at < tokens[j].at
        BY <1>2, <3>1, <3>2 DEF OrderInv, Increasing
      <4> QED
        BY <2>2, <3>1, <3>2, <4>1
    <3>3. CASE j = n + 1
      <4>1. tokens'[j].at = pos /\ tokens'[i].at = tokens[i].at /\ tokens[i].at \in 1 .. pos - 1
        BY <2>1, <2>2, <2>3, <2>4, <3>1, <3>3
      <4> QED
        BY <2>1, <4>1
    <3> QED
      BY <3>1, <3>2, <3>3
  <2>6. \A i \in 1 .. Shifted' : tokens'[i].type # ";"
    BY <2>2 DEF OrderInv
  <2>7. phase' \notin {"visit", "over"}
    BY <2>2
  <2> QED
    BY <2>5, <2>6, <2>7 DEF OrderInv
<1> QED
  BY <1>3, <1>4, <1>5, <1>6, ParserSteps

\* What is accepted is an expression and a semicolon.
LEMMA AcceptedIsPhrase ==
  ASSUME LexOK, ErrInv, TreeInv, OrderInv, phase = "over"
  PROVE  Phrase(tokens, 1, Len(tokens) - 1) /\ Len(tokens) \in Nat \ {0}
<1> DEFINE n == Len(tokens) - 1
<1>0. tokens \in Seq(TokenSet)
  BY DEF LexOK
<1>1. look # << >> /\ Len(stack) = 1 /\ stack[1].type = "expr"
  BY DEF TreeInv
<1>2. Len(tokens) \in Nat \ {0} /\ Shifted = n
  BY <1>1, ShiftedIs DEF LexOK, ErrInv
<1>3. PICK b : Covers(tokens, stack, b, Shifted)
  BY DEF TreeInv
<1>4. b[0] = 0 /\ b[1] = Shifted /\ ItemOK(tokens, stack, b, 1)
  <2>1. 1 \in 1 .. 1
    OBVIOUS
  <2> QED
    BY <1>1, <1>3, <2>1 DEF Covers
<1>5. Balanced(tokens, 1, n)
  <2>1. Balanced(tokens, b[0] + 1, b[1])
    BY <1>1, <1>4, 1 - 1 = 0 DEF ItemOK
  <2> QED
    BY <1>2, <1>4, <2>1, 0 + 1 = 1
<1>6. AfterOperand
  <2>1. stack # << >>
    BY <1>1
  <2>2. stack[Len(stack)].type \notin Operators \cup {"("}
    BY <1>1 DEF Operators
  <2> QED
    BY <2>1, <2>2 DEF AfterOperand
<1>7. n > 0 /\ Operand(tokens[n])
  BY <1>2, <1>6 DEF ErrInv
<1>8. \A i \in 1 .. n : ViableAt(tokens, i) /\ tokens[i].type # ";"
  BY <1>2 DEF ErrInv, OrderInv
<1> HIDE DEF n
<1>9. n \in Nat /\ 1 <= n /\ n <= Len(tokens) /\ 1 \in 1 .. n /\ 1 \in 1 .. Len(tokens)
  BY <1>2, <1>7 DEF n
<1>10. Starts(tokens[1])
  <2>1. tokens[1] \in TokenSet
    BY <1>0, <1>9, ElementOfSeq
  <2>2. tokens[1].type \in Literals \cup {"IDENT", "STRING"}
    BY <2>1 DEF TokenSet, TokenTypes
  <2>3. ViableAt(tokens, 1)
    BY <1>8, <1>9
  <2>4. ~(1 > 1)
    OBVIOUS
  <2>5. tokens[1].type # "STRING" /\ tokens[1].type \notin Operators \cup {")", ";"}
    BY <2>3, <2>4, Zenon DEF ViableAt
  <2> QED
    BY <2>2, <2>5 DEF Literals, Starts
<1>11. 1 \in Nat \ {0}
  OBVIOUS
<1>12. Phrase(tokens, 1, n)
  BY <1>5, <1>7, <1>8, <1>9, <1>10, <1>11, Zenon DEF Phrase
<1> QED
  BY <1>2, <1>12 DEF n

LEMMA OrderInvShows ==
  ASSUME LexOK, ErrInv, TreeInv, WalkInv, OrderInv
  PROVE  OperandsInOrder
<1> SUFFICES ASSUME phase = "over"
             PROVE  Ordered(visits) /\ Places(visits) = IdentsAt(tokens, 1, Len(tokens))
  <2>1. tokens \in Seq(TokenSet)
    BY DEF LexOK
  <2>2. DOMAIN tokens = 1 .. Len(tokens)
    BY <2>1, LenProperties
  <2> QED
    BY <2>2, Zenon DEF OperandsInOrder, Ordered, Places, Leaves, IdentsAt
<1> DEFINE n == Len(tokens)
           r == <<1, n - 1>>
<1>1. tokens \in Seq(TokenSet) /\ Increasing(tokens) /\ tokens[n].type = ";"
  BY DEF LexOK, OrderInv
<1>2. Phrase(tokens, 1, n - 1) /\ n \in Nat \ {0}
  BY AcceptedIsPhrase
<1>3. visits = Preorder(tokens)[r]
  BY WalkInvShows
<1>4. r \in Ranges(tokens) /\ r[1] = 1 /\ r[2] = n - 1
  BY <1>2 DEF Ranges
<1>5. InOrder(tokens, r)
  BY <1>1, <1>4, InOrderAll
<1>6. Ordered(visits) /\ Places(visits) = IdentsAt(tokens, 1, n - 1)
  BY <1>2, <1>3, <1>4, <1>5, Zenon DEF InOrder
<1>7. IdentsAt(tokens, 1, n - 1) = IdentsAt(tokens, 1, n)
  <2>1. {j \in 1 .. n - 1 : tokens[j].type = "IDENT"} = {j \in 1 .. n : tokens[j].type = "IDENT"}
    <3>1. tokens[n].type # "IDENT"
      BY <1>1
    <3>2. \A k \in Nat \ {0} : \A j : j \in 1 .. k <=> j = k \/ j \in 1 .. k - 1
      OBVIOUS
    <3>3. \A j : j \in 1 .. n <=> j = n \/ j \in 1 .. n - 1
      BY <1>2, <3>2, Zenon
    <3> HIDE DEF n
    <3> QED
      BY <3>1, <3>3
  <2> QED
    BY <2>1, Zenon DEF IdentsAt
<1> QED
  BY <1>6, <1>7

\* For every text that is accepted: the visitor meets the identifiers of the
\* expression in the order of the text, each once.
THEOREM OperandsVisitedInOrder == FairSpec => []OperandsInOrder
<1>1. Init => LexOK /\ ErrInv /\ TreeInv /\ WalkInv /\ OrderInv
  BY LexOKInit, ErrInvInit, TreeInvInit, WalkInvInit, OrderInvInit
<1>2. LexOK /\ ErrInv /\ TreeInv /\ [Next]_vars => (LexOK /\ ErrInv /\ TreeInv)'
  BY LexOKNext, ErrInvNext, TreeInvNext
<1>3. LexOK /\ ErrInv /\ TreeInv => Parsed
  BY TreeInvShows DEF Parsed
<1>4. LexOK /\ Parsed' /\ WalkInv /\ [Next]_vars => WalkInv'
  BY WalkInvNext
<1>5. LexOK /\ ErrInv /\ OrderInv /\ [Next]_vars => OrderInv'
  BY OrderInvNext
<1>6. LexOK /\ ErrInv /\ TreeInv /\ WalkInv /\ OrderInv => OperandsInOrder
  BY OrderInvShows
<1> QED
  BY <1>1, <1>2, <1>3, <1>4, <1>5, <1>6, PTL DEF FairSpec

=============================================================================
