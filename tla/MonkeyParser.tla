---------------------------- MODULE MonkeyParser ----------------------------
(***************************************************************************)
(* The parser of the REPL, src/src/parser.cpp: operator precedence over    *)
(* the token it is at and the one after it.  A syntax error is recorded    *)
(* and parsing goes on, with a null node where one could not be made.      *)
(*                                                                         *)
(* A parsing operator takes the state of the parser and returns the state  *)
(* after it, with what it made in the field node.  Where a procedure calls *)
(* parseExpression(), or goes on with a list, the operator looks the call  *)
(* up in p, the calls that are one level deeper.                           *)
(***************************************************************************)
EXTENDS MonkeyNodes, FiniteSets

CONSTANT IntLimit   \* std::stoi throws on a literal of IntLimit and more

Eof == [type |-> "Eof", literal |-> "Eof"]
TokenAt(s, i) == IF i <= Len(s.tokens) THEN s.tokens[i] ELSE Eof
Cur(s) == TokenAt(s, s.pos)
Peek(s) == TokenAt(s, s.pos + 1)
CurIs(s, c) == Cur(s).type = c
PeekIs(s, c) == Peek(s).type = c
NextToken(s) == [s EXCEPT !.pos = @ + 1]

Made(s, node) == [s EXCEPT !.node = node]
Error(s) == [s EXCEPT !.errors = TRUE]
Refused(s) == Made(Error(s), Nullptr)

\* expectPeek, where what comes next does not depend on its answer.
Expected(s, c) == IF PeekIs(s, c) THEN NextToken(s) ELSE Error(s)
OptionalSemicolon(s) == IF PeekIs(s, "Semicolon") THEN NextToken(s) ELSE s

Lowest == 0
PrefixLevel == 5
Precedences ==
  [EQ |-> 1, NotEQ |-> 1, LessThan |-> 2, GreaterThan |-> 2,
   Plus |-> 3, Minus |-> 3, Slash |-> 4, Asterisk |-> 4, LParen |-> 6]
Precedence(t) == IF t.type \in DOMAIN Precedences THEN Precedences[t.type] ELSE Lowest

Start(tokens) ==
  [tokens |-> tokens, pos |-> 1, errors |-> FALSE, thrown |-> FALSE, node |-> Nullptr]

\* Calls, which know nothing of what was made so far: of parseExpression(), and
\* to read statements up to a token that ends them, or arguments.
Parsed(p, s, level) == p.expression[<<Made(s, Nullptr), level>>]
StatementsFrom(p, s, ends) == p.statements[<<Made(s, Nullptr), ends>>]
ArgumentsFrom(p, s) == p.arguments[Made(s, Nullptr)]

-----------------------------------------------------------------------------
(* Statements, and the lists of them.                                      *)

ParseLetStatement(p, s) ==
  IF ~PeekIs(s, "Ident") THEN Refused(s)
  ELSE LET named == NextToken(s)
       IN  IF ~PeekIs(named, "Assign") THEN Refused(named)
           ELSE LET bound == Parsed(p, NextToken(NextToken(named)), Lowest)
                IN  Made(OptionalSemicolon(bound), Let(Cur(named).literal, bound.node))

ParseReturnStatement(p, s) ==
  LET returned == Parsed(p, NextToken(s), Lowest)
  IN  Made(OptionalSemicolon(returned), Return(returned.node))

ParseExpressionStatement(p, s) ==
  LET value == Parsed(p, s, Lowest)
  IN  Made(OptionalSemicolon(value), Expr(value.node))

ParseStatement(p, s) ==
  CASE CurIs(s, "Let") -> ParseLetStatement(p, s)
    [] CurIs(s, "Return") -> ParseReturnStatement(p, s)
    [] OTHER -> ParseExpressionStatement(p, s)

\* Statements that could not be made at all are left out.
Statements(p, s, ends) ==
  IF Cur(s).type \in ends THEN Made(s, <<>>)
  ELSE LET t == ParseStatement(p, s)
           rest == StatementsFrom(p, NextToken(t), ends)
       IN  Made(rest, IF t.node = Nullptr THEN rest.node ELSE <<t.node>> \o rest.node)

-----------------------------------------------------------------------------
(* Operators and calls.                                                    *)

\* Mutant: operators of a level associate to the right.
InfixFromTheRight(p, s) ==
  LET right == Parsed(p, NextToken(s), Precedence(Cur(s)) - 1)
  IN  Made(right, Infix(s.node, Cur(s).type, right.node))
ParseInfixExpression(p, s) ==
  LET right == Parsed(p, NextToken(s), Precedence(Cur(s)))
  IN  Made(right, Infix(s.node, Cur(s).type, right.node))

\* Mutant: an argument that no comma follows is lost.
ArgumentsBeforeCommas(p, s) ==
  LET first == Parsed(p, s, Lowest)
      rest == ArgumentsFrom(p, NextToken(NextToken(first)))
  IN  IF PeekIs(first, "Comma") THEN Made(rest, <<first.node>> \o rest.node)
      ELSE Made(first, <<>>)
Arguments(p, s) ==
  LET first == Parsed(p, s, Lowest)
      rest == ArgumentsFrom(p, NextToken(NextToken(first)))
  IN  IF PeekIs(first, "Comma") THEN Made(rest, <<first.node>> \o rest.node)
      ELSE Made(first, <<first.node>>)

\* A call without arguments is one whose parenthesis another one follows.
ParseCallArguments(p, s) ==
  IF PeekIs(s, "LParen") THEN Made(NextToken(s), <<>>)
  ELSE Expected(ArgumentsFrom(p, NextToken(s)), "RParen")
ParseCallExpression(p, s) ==
  LET args == ParseCallArguments(p, s) IN Made(args, Call(s.node, args.node))

NextOperator(p, s, level) ==
  IF PeekIs(s, "Semicolon") \/ level >= Precedence(Peek(s)) THEN s
  ELSE IF PeekIs(s, "LParen") THEN ParseCallExpression(p, NextToken(s))
  ELSE ParseInfixExpression(p, NextToken(s))

\* The loop has at most one turn for each operator left.
Operators(s) == {i \in DOMAIN s.tokens : i >= s.pos /\ s.tokens[i].type \in DOMAIN Precedences}
Extended(p, s, level) ==
  LET after[k \in 0..Cardinality(Operators(s))] ==
        IF k = 0 THEN s ELSE NextOperator(p, after[k - 1], level)
  IN  after[Cardinality(Operators(s))]

-----------------------------------------------------------------------------
(* Expressions.                                                            *)

ParseIntegerLiteral(s) == [Made(s, IntLit(Cur(s).literal)) EXCEPT !.thrown = @ \/ Cur(s).literal >= IntLimit]

ParsePrefixExpression(p, s) ==
  LET right == Parsed(p, NextToken(s), PrefixLevel)
  IN  Made(right, Prefix(Cur(s).type, right.node))

ParseGroupedExpression(p, s) ==
  LET inner == Parsed(p, NextToken(s), Lowest)
  IN  IF PeekIs(inner, "RParen") THEN NextToken(inner) ELSE Refused(inner)

\* A block ends at its brace or, without a word, at the end of the input.
ParseBlockStatement(p, s) ==
  LET read == StatementsFrom(p, NextToken(s), {"RBrace", "Eof"})
  IN  Made(read, Block(read.node))

Alternative(p, s, tested, taken) ==
  IF ~PeekIs(s, "Else") THEN Made(s, IfElse(tested, taken, Nullptr))
  ELSE IF ~PeekIs(NextToken(s), "LBrace") THEN Refused(NextToken(s))
  ELSE LET t == ParseBlockStatement(p, NextToken(NextToken(s)))
       IN  Made(t, IfElse(tested, taken, t.node))

ParseIfExpression(p, s) ==
  IF ~PeekIs(s, "LParen") THEN Refused(s)
  ELSE LET tested == Parsed(p, NextToken(NextToken(s)), Lowest)
           closed == NextToken(tested)
       IN  IF ~PeekIs(tested, "RParen") THEN Refused(tested)
           ELSE IF ~PeekIs(closed, "LBrace") THEN Refused(closed)
           ELSE LET taken == ParseBlockStatement(p, NextToken(closed))
                IN  Alternative(p, taken, tested.node, taken.node)

\* Parameters are every other token from the first one, as long as commas are
\* between them.  Any token is taken for one, if need be with a name nothing
\* else has.
ParameterName(t) == IF t.type = "Ident" THEN t.literal ELSE t.type
CommaAfter(s, i) == TokenAt(s, s.pos + 2 * i - 1).type = "Comma"
NumberOfParameters(s) ==
  CHOOSE n \in 1..(Len(s.tokens) + 1) : ~CommaAfter(s, n) /\ \A i \in 1..(n - 1) : CommaAfter(s, i)
Parameters(s) ==
  LET n == NumberOfParameters(s)
  IN  [s EXCEPT !.pos = @ + 2 * (n - 1),
                !.node = [i \in 1..n |-> ParameterName(TokenAt(s, s.pos + 2 * (i - 1)))]]
ParseFunctionParameters(s) ==
  IF PeekIs(s, "RParen") THEN Made(NextToken(s), <<>>)
  ELSE Expected(Parameters(NextToken(s)), "RParen")

ParseFunctionLiteral(p, s) ==
  IF ~PeekIs(s, "LParen") THEN Refused(s)
  ELSE LET ps == ParseFunctionParameters(NextToken(s))
       IN  IF ~PeekIs(ps, "LBrace") THEN Refused(ps)
           ELSE LET body == ParseBlockStatement(p, NextToken(ps))
                IN  Made(body, Fn(ps.node, body.node))

\* The function registered for a token that begins an expression.
Begun(p, s) ==
  CASE CurIs(s, "Ident") -> Made(s, Ident(Cur(s).literal))
    [] CurIs(s, "Int") -> ParseIntegerLiteral(s)
    [] Cur(s).type \in {"True", "False"} -> Made(s, BoolLit(CurIs(s, "True")))
    [] Cur(s).type \in {"Bang", "Minus"} -> ParsePrefixExpression(p, s)
    [] CurIs(s, "LParen") -> ParseGroupedExpression(p, s)
    [] CurIs(s, "If") -> ParseIfExpression(p, s)
    [] CurIs(s, "Function") -> ParseFunctionLiteral(p, s)

Beginnings == {"Ident", "Int", "True", "False", "Bang", "Minus", "LParen", "If", "Function"}
\* Mutant: a token that begins no expression is not reported.
ParseSilently(p, s, level) ==
  IF Cur(s).type \in Beginnings THEN Extended(p, Begun(p, s), level) ELSE Made(s, Nullptr)
\* noPrefixParseFnError is the other case.
ParseExpression(p, s, level) ==
  IF Cur(s).type \in Beginnings THEN Extended(p, Begun(p, s), level) ELSE Refused(s)

-----------------------------------------------------------------------------
(* The descent: the calls, and what they return.                           *)

States(tokens) ==
  [tokens : {tokens}, pos : Nat \ {0}, errors : BOOLEAN, thrown : BOOLEAN, node : {Nullptr}]
Ends == {{"RBrace", "Eof"}, {"Eof"}}

\* A call at a token calls for the same token once at most.
Depth(tokens) == 2 * (Len(tokens) + 1)
Descent(tokens) ==
  LET upTo[k \in 0..Depth(tokens)] ==
        [expression |-> [c \in States(tokens) \X (0..6) |->
           IF k = 0 THEN Refused(c[1]) ELSE ParseExpression(upTo[k - 1], c[1], c[2])],
         statements |-> [c \in States(tokens) \X Ends |->
           IF k = 0 THEN Refused(c[1]) ELSE Statements(upTo[k - 1], c[1], c[2])],
         arguments |-> [c \in States(tokens) |->
           IF k = 0 THEN Refused(c) ELSE Arguments(upTo[k - 1], c)]]
  IN  upTo[Depth(tokens)]

ParseProgram(tokens) == Statements(Descent(tokens), Start(tokens), {"Eof"})
=============================================================================
