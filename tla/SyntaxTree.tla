----------------------------- MODULE SyntaxTree -----------------------------
(***************************************************************************)
(* The nodes of the syntax tree of src/src/ASTNode.hpp: each is a record   *)
(* with its type and its children.  Line numbers are left out.             *)
(***************************************************************************)
EXTENDS Sequences

\* A std::unique_ptr that holds no node.
Nullptr == [type |-> "nullptr"]

ASTNull == [type |-> "Null"]
ASTErrorNode == [type |-> "Error"]
ASTNodeList(nodes) == [type |-> "NodeList", list |-> nodes]
StatementListNode(nodes) == [type |-> "StatementList", list |-> nodes]
ASTProgram(statements) == [type |-> "Program", statements |-> statements]

ASTInteger(n) == [type |-> "Integer", int |-> n]
ASTFloat(d) == [type |-> "Float", float |-> d]
ASTString(s) == [type |-> "String", string |-> s]
ASTBoolean(b) == [type |-> "Boolean", bool |-> b]
ASTIdentifier(x) == [type |-> "Identifier", symbolName |-> x]

ASTPrimary(factor, plus) == [type |-> "Primary", factor |-> factor, primaryPlus |-> plus]
ASTPrimaryFunction(args, plus) ==
  [type |-> "PrimaryFunction", argumentList |-> args, primaryPlus |-> plus]
ASTNotOp(node) == [type |-> "NOT", expression |-> node]
ASTUniOp(left, type) == [type |-> type, left |-> left]
ASTBinOp(left, right, type) == [type |-> type, left |-> left, right |-> right]
ASTPowerOp(left, right) == ASTBinOp(left, right, "Power")
ASTExpression(node) == [type |-> "Expression", expression |-> node]

ASTExpressionStatement(node) == [type |-> "ExpressionStatement", expression |-> node]
ASTLetStatement(lhs, rhs) == [type |-> "Assignment", leftSide |-> lhs, rightSide |-> rhs]
ASTIf(condition, then, else) ==
  [type |-> "If", condition |-> condition, thenList |-> then, elseList |-> else]
ASTReturn(node) == [type |-> "Return", expression |-> node]
ASTUserFunction(name, args, body) ==
  [type |-> "Function", functionName |-> name, argumentList |-> args, statementList |-> body]

\* The types of the nodes of the binary operators, by the codes of their tokens.
BinaryTypes ==
  [Or |-> "OR", And |-> "AND", LessThan |-> "LT", LessThanOrEqual |-> "LE",
   MoreThan |-> "GT", MoreThanOrEqual |-> "GE", NotEqual |-> "NE", Equivalence |-> "EQ",
   Plus |-> "Add", Minus |-> "Sub", Mult |-> "Mult", Divide |-> "Div"]
=============================================================================
