---------------------------- MODULE DaewooTrees ----------------------------
(***************************************************************************)
(* The tree of nodes that stands for a program, from the syntax of the     *)
(* program alone: the reference the tree builder is compared with.         *)
(***************************************************************************)
EXTENDS DaewooLanguage, SyntaxTree

RECURSIVE ExprNode(_, _)

Plain(factor) == ASTPrimary(factor, ASTNull)

\* The node of e where an expression of that level or tighter is expected: one
\* written in parentheses is the factor of a primary.
ExprNode(e, level) ==
  IF LevelOf(e) < level THEN Plain(ExprNode(e, 1))
  ELSE CASE e.kind = "int"    -> Plain(ASTInteger(e.n))
         [] e.kind = "float"  -> Plain(ASTFloat(e.d))
         [] e.kind = "string" -> Plain(ASTString(0))
         [] e.kind = "bool"   -> Plain(ASTBoolean(e.b))
         [] e.kind = "var"    -> Plain(ASTIdentifier(e.x))
         [] e.kind = "neg"    -> ASTUniOp(ExprNode(e.e, 5), "UnaryMinus")
         [] e.kind = "not"    -> Plain(ASTNotOp(ExprNode(e.e, 1)))
         [] e.kind = "apply"  ->
              ASTPrimary(ASTIdentifier(e.f),
                         ASTPrimaryFunction(
                           ASTNodeList([i \in DOMAIN e.args |-> ExprNode(e.args[i], 1)]),
                           ASTNull))
         [] e.kind = "bin" /\ e.op = "Power" -> ASTPowerOp(ExprNode(e.l, 6), ExprNode(e.r, 5))
         [] OTHER -> LET p == Precedence[e.op]
                         left == IF e.l.kind = "not" THEN 2 ELSE p
                     IN  ASTBinOp(ExprNode(e.l, left), ExprNode(e.r, p + 1), BinaryTypes[e.op])

RECURSIVE StmtNode(_), BlockNode(_)

\* An assignment has no node yet.
StmtNode(s) ==
  CASE s.kind = "let" -> ASTLetStatement(ASTIdentifier(s.x), ExprNode(s.e, 1))
    [] s.kind = "assign" -> Nullptr
    [] s.kind = "if" -> ASTIf(ExprNode(s.e, 1), BlockNode(s.s),
                              IF s.t = <<>> THEN Nullptr ELSE BlockNode(s.t))
    [] s.kind = "fn" -> ASTUserFunction(s.f,
                          ASTNodeList([i \in DOMAIN s.ps |-> ASTIdentifier(s.ps[i])]),
                          BlockNode(s.body))
    [] s.kind = "ret" -> ASTReturn(ASTExpression(ExprNode(s.e, 1)))
    [] s.kind = "expr" -> ASTExpressionStatement(ExprNode(s.e, 1))

\* A block without a statement has the node of none.
BlockNode(block) ==
  StatementListNode(IF block = <<>> THEN <<Nullptr>>
                    ELSE [i \in DOMAIN block |-> StmtNode(block[i])])

TreeOf(program) == ASTProgram(BlockNode(program))
=============================================================================
