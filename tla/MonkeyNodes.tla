---------------------------- MODULE MonkeyNodes ----------------------------
(***************************************************************************)
(* The nodes of src/src/ast.hpp: what the parser of the REPL makes and the *)
(* evaluator walks.                                                        *)
(***************************************************************************)
EXTENDS Integers, Sequences

Nullptr           == [kind |-> "nullptr"]
Ident(x)          == [kind |-> "Identifier", x |-> x]
IntLit(n)         == [kind |-> "IntegerLiteral", n |-> n]
BoolLit(b)        == [kind |-> "Boolean", b |-> b]
Prefix(op, e)     == [kind |-> "Prefix", op |-> op, right |-> e]
Infix(l, op, r)   == [kind |-> "Infix", left |-> l, op |-> op, right |-> r]
Block(stmts)      == [kind |-> "Block", stmts |-> stmts]
IfElse(e, s, t)   == [kind |-> "If", condition |-> e, consequence |-> s, alternative |-> t]
Fn(ps, body)      == [kind |-> "Function", parameters |-> ps, body |-> body]
Call(f, args)     == [kind |-> "Call", function |-> f, arguments |-> args]

Let(x, e)         == [kind |-> "Let", name |-> x, value |-> e]
Return(e)         == [kind |-> "Return", value |-> e]
Expr(e)           == [kind |-> "Expression", value |-> e]
Program(stmts)    == [kind |-> "Program", stmts |-> stmts]

-----------------------------------------------------------------------------

\* The nodes that a node points to: an else may be missing.
Entries(list) == {list[i] : i \in DOMAIN list}
Children(n) ==
  CASE n.kind \in {"Let", "Return", "Expression"} -> {n.value}
    [] n.kind \in {"Block", "Program"} -> Entries(n.stmts)
    [] n.kind = "Prefix" -> {n.right}
    [] n.kind = "Infix" -> {n.left, n.right}
    [] n.kind = "If" -> {n.condition, n.consequence} \cup ({n.alternative} \ {Nullptr})
    [] n.kind = "Function" -> {n.body}
    [] n.kind = "Call" -> {n.function} \cup Entries(n.arguments)
    [] OTHER -> {}

\* The nodes of a tree down to a height, without what is below those of the
\* kinds that are closed.
ChildrenOf(nodes, closed) == UNION {Children(n) : n \in {x \in nodes : x.kind \notin closed}}
NodesOf(n, height, closed) ==
  LET downTo[k \in 0..height] ==
        IF k = 0 THEN {n}
        ELSE LET above == downTo[k - 1] IN above \cup ChildrenOf(above, closed)
  IN  downTo[height]
=============================================================================
