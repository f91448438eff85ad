----------------------------- MODULE ASTBuilder -----------------------------
(***************************************************************************)
(* The tree builder of src/src/ASTBuilder.cpp: a recursive descent over    *)
(* the table of tokens that returns the nodes of src/src/ASTNode.hpp.      *)
(*                                                                         *)
(* A parsing operator takes the state of the builder and returns the state *)
(* after it, with the node the procedure returns.  Two things end every    *)
(* rule: an exception, and a list of statements that never ends.           *)
(***************************************************************************)
EXTENDS TokensTable, SyntaxTree

\* rightFirst: the compiler evaluates the last argument of a call first, which
\* the language leaves to it.
Start(tokens, rightFirst) ==
  [tokens |-> tokens, pos |-> 1, failed |-> FALSE, endless |-> FALSE,
   rightFirst |-> rightFirst, inFunction |-> FALSE, node |-> Nullptr]

Made(s, node) == [s EXCEPT !.node = node]
Refused(s) == Made(s, ASTErrorNode)
Endless(s) == [Fail(s) EXCEPT !.endless = TRUE]

\* The error node that expect() makes for a wrong token is dropped by all callers.
Expect(s, c) == IF Code(s) = c THEN Advanced(s) ELSE s

\* make_unique<Node>(f(), g()), where both read tokens.
Both(s, F(_), G(_), Node(_, _)) ==
  IF s.rightFirst
  THEN LET g == G(s)
           f == F(g)
       IN  Made(f, Node(f.node, g.node))
  ELSE LET f == F(s)
           g == G(f)
       IN  Made(g, Node(f.node, g.node))

\* The binary operators, from the loosest level to the tightest.
Operators ==
  << {"Or", "And"},
     {"LessThan", "LessThanOrEqual", "MoreThan", "MoreThanOrEqual",
      "NotEqual", "Equivalence"},
     {"Plus", "Minus"},
     {"Mult", "Divide"} >>
Tightest == Len(Operators) + 1
Loosest == 1

RECURSIVE Expression(_, _), Operands(_, _), Power(_), Factor(_), PrimaryPlus(_),
          ExpressionList(_, _), FunctionArgumentList(_, _), StatementList(_),
          MoreStatements(_, _)

Expression(s, level) ==
  IF level = Tightest THEN Power(s)
  ELSE Operands(Expression(s, level + 1), level)

\* Mutant: the operand read last is put first.
OperandsSwapped(s, level) ==
  IF Code(s) \in Operators[level]
  THEN LET right == Expression(Advanced(s), level + 1)
       IN  Operands(Made(right, ASTBinOp(right.node, s.node, BinaryTypes[Code(s)])), level)
  ELSE s
Operands(s, level) ==
  IF Code(s) \in Operators[level]
  THEN LET right == Expression(Advanced(s), level + 1)
       IN  Operands(Made(right, ASTBinOp(s.node, right.node, BinaryTypes[Code(s)])), level)
  ELSE s

\* primary
Primary(s) == Both(s, Factor, PrimaryPlus, ASTPrimary)
Exponent(s) ==
  IF Code(s) = "Power"
  THEN LET right == Power(Advanced(s))
       IN  Made(right, ASTPowerOp(s.node, right.node))
  ELSE s
\* The unary minuses are applied after the power, one node for each.
Power(s) ==
  CASE Code(s) = "Minus" -> LET operand == Power(Advanced(s))
                            IN  Made(operand, ASTUniOp(operand.node, "UnaryMinus"))
    [] Code(s) = "Plus" -> Power(Advanced(s))
    [] OTHER -> Exponent(Primary(s))

\* An error node in place of the operand of a not takes the place of the not.
Negated(s) == IF s.node.type = "Error" THEN s ELSE Made(s, ASTNotOp(s.node))
Factor(s) ==
  CASE Code(s) = "Integer" -> Made(Advanced(s), ASTInteger(Current(s)))
    [] Code(s) = "Float" -> Made(Advanced(s), ASTFloat(Current(s)))
    [] Code(s) = "Identifier" -> Made(Advanced(s), ASTIdentifier(Current(s)))
    [] Code(s) = "String" -> Made(Advanced(s), ASTString(Current(s)))
    [] Code(s) \in {"False", "True"} -> Made(Advanced(s), ASTBoolean(Code(s) = "True"))
    [] Code(s) = "Not" -> Negated(Expression(Advanced(s), Loosest))
    [] Code(s) = "LeftParenthesis" ->
         Expect(Expression(Advanced(s), Loosest), "RightParenthesis")
    [] Code(s) = "LeftCurleyBracket" -> Fail(s)
    [] OTHER -> Refused(s)

ExpressionList(s, list) ==
  LET expression == Expression(s, Loosest)
      longer == Append(list, expression.node)
  IN  IF Code(expression) = "Comma" THEN ExpressionList(Advanced(expression), longer)
      ELSE Made(expression, ASTNodeList(longer))
ParseFunctionCall(s) ==
  Expect(IF Code(s) = "RightParenthesis" THEN Made(s, ASTNodeList(<<>>))
         ELSE ExpressionList(s, <<>>), "RightParenthesis")
PrimaryPlus(s) ==
  IF Code(s) = "LeftParenthesis"
  THEN Both(Advanced(s), ParseFunctionCall, PrimaryPlus, ASTPrimaryFunction)
  ELSE Made(s, ASTNull)

-----------------------------------------------------------------------------
(* Statements.                                                             *)

\* The node of an assignment is not made yet.
Assigned(s, left) ==
  Made(s, IF left.type = "Primary" THEN Nullptr ELSE ASTErrorNode)
ExprStatement(s) ==
  LET left == Expression(s, Loosest)
  IN  IF Code(left) = "Assign" THEN Assigned(Expression(Advanced(left), Loosest), left.node)
      ELSE Made(left, ASTExpressionStatement(left.node))

\* What stands in place of a name is taken for one.
NameOf(s) == IF Code(s) = "Identifier" THEN Current(s) ELSE "none"
Variable(s) == Made(Advanced(s), ASTIdentifier(NameOf(s)))

LetStatement(s) ==
  LET lhs == Variable(Advanced(s))
      rhs == Expression(Expect(lhs, "Assign"), Loosest)
  IN  Made(rhs, ASTLetStatement(lhs.node, rhs.node))

\* Mutant: the end of a branch is read only after an else.
IfUnclosed(s) ==
  LET condition == Expression(Advanced(s), Loosest)
      then == StatementList(Expect(condition, "Then"))
  IN  IF Code(then) = "Else"
      THEN LET else == StatementList(Advanced(then))
           IN  Made(Expect(else, "End"), ASTIf(condition.node, then.node, else.node))
      ELSE Made(then, ASTIf(condition.node, then.node, Nullptr))
IfStatement(s) ==
  LET condition == Expression(Advanced(s), Loosest)
      then == StatementList(Expect(condition, "Then"))
      else == IF Code(then) = "Else" THEN StatementList(Advanced(then))
              ELSE Made(then, Nullptr)
  IN  Made(Expect(else, "End"), ASTIf(condition.node, then.node, else.node))

ReturnStmt(s) ==
  IF s.inFunction
  THEN LET value == Expression(Advanced(s), Loosest)
       IN  Made(value, ASTReturn(ASTExpression(value.node)))
  ELSE Refused(s)

FunctionArgumentList(s, list) ==
  IF Code(s) = "Comma"
  THEN LET argument == Variable(Advanced(s))
       IN  FunctionArgumentList(argument, Append(list, argument.node))
  ELSE Made(s, ASTNodeList(list))
FunctionArguments(s) ==
  IF Code(s) = "Identifier" THEN LET first == Variable(s)
                                 IN  FunctionArgumentList(first, <<first.node>>)
  ELSE FunctionArgumentList(s, <<>>)
Parameters(s) ==
  IF Code(s) = "LeftParenthesis"
  THEN Expect(FunctionArguments(Advanced(s)), "RightParenthesis")
  ELSE Made(s, Nullptr)
Inside(s, b) == [s EXCEPT !.inFunction = b]

\* Mutant: the scope of a function is left before its body is read.
ScopeLeftEarly(s) ==
  LET name == Advanced(s)
      parameters == Parameters(Advanced(Inside(name, TRUE)))
      body == StatementList(Inside(parameters, FALSE))
  IN  IF Code(name) # "Identifier" THEN Refused(name)
      ELSE Made(Expect(body, "End"),
                ASTUserFunction(Current(name), parameters.node, body.node))
\* A function without a name is an error node, and its tokens are read next.
ParseUserDefinedFunction(s) ==
  LET name == Advanced(s)
      parameters == Parameters(Advanced(Inside(name, TRUE)))
      body == StatementList(parameters)
  IN  IF Code(name) # "Identifier" THEN Refused(name)
      ELSE Made(Expect(Inside(body, FALSE), "End"),
                ASTUserFunction(Current(name), parameters.node, body.node))

Statement(s) ==
  CASE Code(s) = "If" -> IfStatement(s)
    [] Code(s) = "Return" -> ReturnStmt(s)
    [] Code(s) = "Function" -> ParseUserDefinedFunction(s)
    [] Code(s) \in {"End", "EndofStream"} -> Made(s, Nullptr)
    [] Code(s) = "Let" -> LetStatement(s)
    [] OTHER -> ExprStatement(s)

\* A statement that reads no token, where none can be skipped, is read again.
AfterSemicolon(s) == IF Code(s) = "Semicolon" THEN Advanced(s) ELSE s
Stuck(before, after) == after.pos = before.pos /\ Code(after) \notin {"Semicolon", "failed"}
MoreStatements(s, list) ==
  LET here == AfterSemicolon(s)
      next == Statement(here)
  IN  IF Code(here) \in {"End", "Else", "EndofStream", "failed"}
      THEN Made(here, StatementListNode(list))
      ELSE IF Stuck(here, next) THEN Endless(next)
      ELSE MoreStatements(next, Append(list, next.node))
StatementList(s) ==
  LET first == Statement(s)
  IN  MoreStatements(first, <<first.node>>)

\* build(): the tree, or none when there is no token.
Built(tokens, rightFirst) ==
  LET s == Start(tokens, rightFirst)
      statements == StatementList(s)
  IN  IF Code(s) = "EndofStream" THEN s ELSE Made(statements, ASTProgram(statements.node))
=============================================================================
