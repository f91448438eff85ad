---------------------------- MODULE SyntaxParser ----------------------------
(***************************************************************************)
(* The syntax check of src/src/SyntaxParser.cpp: a recursive descent over  *)
(* the tokens of the scanner that stores each token it reads in the table  *)
(* the code generator reads next.                                          *)
(*                                                                         *)
(* A parsing operator takes the state of the parser and returns the state  *)
(* after it; one that failed (a SyntaxError is returned) stops every rule. *)
(* Where a procedure calls itself or one that leads back to it, the        *)
(* operator looks the call up in p, the calls that are one level deeper.   *)
(***************************************************************************)
EXTENDS TokensTable

Start(tokens) == [tokens |-> tokens, pos |-> 1, failed |-> FALSE, inFunction |-> FALSE]

\* A token that is not the expected one is reported only if error_ is set, and
\* nothing sets it: the parser goes on at the token it found.
Expect(s, c) == IF Code(s) = c THEN Advanced(s) ELSE s

\* The binary operators, from the loosest level to the tightest.
Operators ==
  << {"Or", "And"},
     {"LessThan", "LessThanOrEqual", "MoreThan", "MoreThanOrEqual",
      "NotEqual", "Equivalence"},
     {"Plus", "Minus"},
     {"Mult", "Divide"} >>
Tightest == Len(Operators) + 1
Loosest == 1

Expression(p, s, level) ==
  IF level = Tightest THEN p[<<"Power", s, 0>>]
  ELSE p[<<"Operands", p[<<"Expression", s, level + 1>>], level>>]

Operands(p, s, level) ==
  IF Code(s) \in Operators[level]
  THEN p[<<"Operands", p[<<"Expression", Advanced(s), level + 1>>], level>>]
  ELSE s

\* The error of an expression after a not is dropped.
Forgiven(s) == [s EXCEPT !.failed = FALSE]

Factor(p, s) ==
  CASE Code(s) \in {"Integer", "Float", "Identifier", "String", "False", "True"} ->
         Advanced(s)
    [] Code(s) = "LeftParenthesis" ->
         Expect(p[<<"Expression", Advanced(s), Loosest>>], "RightParenthesis")
    [] Code(s) = "Not" -> Forgiven(p[<<"Expression", Advanced(s), Loosest>>])
    [] OTHER -> Fail(s)

ExpressionList(p, s) ==
  IF Code(s) = "Comma"
  THEN p[<<"ExpressionList", p[<<"Expression", Advanced(s), Loosest>>], 0>>]
  ELSE s
FunctionCall(p, s) ==
  Expect(IF Code(s) = "RightParenthesis" THEN s
         ELSE p[<<"ExpressionList", p[<<"Expression", s, Loosest>>], 0>>], "RightParenthesis")

\* Any factor may be selected from or called, not only a name.
PrimaryPlus(p, s) ==
  CASE Code(s) = "Period" -> p[<<"PrimaryPlus", Expect(Advanced(s), "Identifier"), 0>>]
    [] Code(s) = "LeftParenthesis" -> p[<<"PrimaryPlus", FunctionCall(p, Advanced(s)), 0>>]
    [] OTHER -> s

Exponent(p, s) == IF Code(s) = "Power" THEN p[<<"Power", Advanced(s), 0>>] ELSE s
Power(p, s) ==
  IF Code(s) \in {"Minus", "Plus"} THEN p[<<"Power", Advanced(s), 0>>]
  ELSE Exponent(p, p[<<"PrimaryPlus", Factor(p, s), 0>>])

-----------------------------------------------------------------------------
(* Statements.                                                             *)

AfterLeft(p, s) ==
  IF Code(s) = "Assign" THEN p[<<"Expression", Advanced(s), Loosest>>] ELSE s
ExpressionStatement(p, s) == AfterLeft(p, p[<<"Expression", s, Loosest>>])

Variable(s) == IF Code(s) = "Identifier" THEN Advanced(s) ELSE Fail(s)

LetStatement(p, s) ==
  p[<<"Expression", Expect(Variable(Advanced(s)), "Assign"), Loosest>>]

AfterThen(p, s) ==
  Expect(IF Code(s) = "Else" THEN p[<<"StatementList", Advanced(s), 0>>] ELSE s, "End")
IfStatement(p, s) ==
  AfterThen(p, p[<<"StatementList",
                   Expect(p[<<"Expression", Advanced(s), Loosest>>], "Then"), 0>>])

\* Mutant: the check for a function is the wrong way round.
ReturnOutside(p, s) ==
  IF s.inFunction THEN Fail(s) ELSE p[<<"Expression", Advanced(s), Loosest>>]
ReturnStatement(p, s) ==
  IF s.inFunction THEN p[<<"Expression", Advanced(s), Loosest>>] ELSE Fail(s)

FunctionArgumentList(p, s) ==
  IF Code(s) = "Comma" THEN p[<<"FunctionArgumentList", Variable(Advanced(s)), 0>>] ELSE s
FunctionArguments(p, s) ==
  p[<<"FunctionArgumentList", IF Code(s) = "Identifier" THEN Variable(s) ELSE s, 0>>]

\* The token after fn is taken for a name whatever it is, and the parameters
\* may be left out with their parentheses.
Parameters(p, s) ==
  IF Code(s) = "LeftParenthesis"
  THEN Expect(FunctionArguments(p, Advanced(s)), "RightParenthesis")
  ELSE s
Named(s) == [Advanced(Advanced(s)) EXCEPT !.inFunction = TRUE]
AfterBody(s) == IF s.failed THEN s ELSE Expect([s EXCEPT !.inFunction = FALSE], "End")
ParseUserDefinedFunction(p, s) ==
  AfterBody(p[<<"StatementList", Parameters(p, Named(s)), 0>>])

Statement(p, s) ==
  CASE Code(s) = "If" -> IfStatement(p, s)
    [] Code(s) = "Return" -> ReturnStatement(p, s)
    [] Code(s) = "Function" -> ParseUserDefinedFunction(p, s)
    [] Code(s) \in {"End", "EndofStream"} -> s
    [] Code(s) = "Let" -> LetStatement(p, s)
    [] Code(s) = "Error" -> Fail(s)
    [] OTHER -> ExpressionStatement(p, s)

\* Semicolons are optional; end, else and the end of the tokens stop the list,
\* at the top level too, and what follows them is not read.
AfterSemicolon(s) == IF Code(s) = "Semicolon" THEN Advanced(s) ELSE s
MoreStatements(p, s) ==
  IF Code(s) \in {"End", "Else", "EndofStream", "failed"} THEN s
  ELSE p[<<"StatementList", s, 0>>]
StatementList(p, s) == MoreStatements(p, AfterSemicolon(Statement(p, s)))

-----------------------------------------------------------------------------
(* The descent: the procedures that call each other, and what they return.  *)

States(tokens) ==
  [tokens : {tokens}, pos : Nat \ {0}, failed : BOOLEAN, inFunction : BOOLEAN]

Procedures == {"Expression", "Operands", "Power", "PrimaryPlus", "ExpressionList",
               "FunctionArgumentList", "StatementList"}
Calls(tokens) == Procedures \X States(tokens) \X Nat

Procedure(p, name, s, n) ==
  CASE name = "Expression"           -> Expression(p, s, n)
    [] name = "Operands"             -> Operands(p, s, n)
    [] name = "Power"                -> Power(p, s)
    [] name = "PrimaryPlus"          -> PrimaryPlus(p, s)
    [] name = "ExpressionList"       -> ExpressionList(p, s)
    [] name = "FunctionArgumentList" -> FunctionArgumentList(p, s)
    [] name = "StatementList"        -> StatementList(p, s)

\* Calls are pending no deeper than that: of ten in a row, one reads a token.
Depth(tokens) == 10 * (Len(tokens) + 1)
Descent(tokens) ==
  LET upTo[k \in 0..Depth(tokens)] ==
        [c \in Calls(tokens) |->
           IF k = 0 THEN Fail(c[2]) ELSE Procedure(upTo[k - 1], c[1], c[2], c[3])]
  IN  upTo[Depth(tokens)]

\* syntaxCheck().  A program without a token is accepted.
Checked(tokens) ==
  IF Code(Start(tokens)) = "EndofStream" THEN Start(tokens)
  ELSE Descent(tokens)[<<"StatementList", Start(tokens), 0>>]

\* The tokens read, of which the last is the one the parser stopped at.
Table(s) == SubSeq(s.tokens, 1, IF s.pos <= Len(s.tokens) THEN s.pos ELSE Len(s.tokens))
=============================================================================
