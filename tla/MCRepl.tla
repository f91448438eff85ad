------------------------------- MODULE MCRepl -------------------------------
(***************************************************************************)
(* Sessions of lines that share the names a, f and g: globals bound and    *)
(* bound again, functions that recur, close over their arguments or take   *)
(* functions, lines that fail half-way, and lines the evaluator or the     *)
(* parser is not up to.                                                    *)
(***************************************************************************)
EXTENDS Integers, Sequences, Repl

a == Ident("a")
f == Ident("f")
g == Ident("g")
x == Ident("x")
y == Ident("y")
One == IntLit(1)
Two == IntLit(2)
Minus(l, r) == Infix(l, "Minus", r)
Less(l, r) == Infix(l, "LessThan", r)
If(e, s) == IfElse(e, Block(s), Nullptr)

Sums ==
  {<<Let("a", Minus(Prefix("Minus", One), Infix(Minus(One, Two), "Asterisk", Two)))>>,
   <<Let("a", Minus(Infix(Infix(IntLit(5), "Slash", Minus(a, One)), "Plus", a), One)), Expr(a)>>,
   <<Expr(IfElse(Infix(Less(One, a), "EQ", Infix(a, "GreaterThan", One)),
                 Block(<<Let("a", Two), Expr(a)>>), Block(<<Return(Prefix("Bang", a)), Expr(One)>>)))>>}

Functions ==
  {<<Let("f", Fn(<<"x">>, Block(<<Expr(If(Less(x, Two), <<Return(x)>>)),
                                  Expr(Infix(Call(f, <<Minus(x, One)>>), "Plus", Call(f, <<Minus(x, Two)>>)))>>)))>>,
   <<Let("g", Fn(<<"x">>, Block(<<Let("a", Minus(x, One)),
                                  Return(Fn(<<"y">>, Block(<<Expr(Minus(a, y))>>)))>>))),
     Let("f", Call(g, <<IntLit(4)>>))>>,
   <<Let("g", Fn(<<"f", "x">>, Block(<<Expr(Call(f, <<Call(f, <<x>>)>>))>>))),
     Expr(Call(g, <<f, IntLit(3)>>))>>,
   <<Expr(Call(Fn(<<"x">>, Block(<<Let("g", Fn(<<"y">>, Block(
       <<Expr(IfElse(Less(y, One), Block(<<Expr(x)>>), Block(<<Expr(Call(g, <<Minus(y, One)>>))>>)))>>))),
       Expr(Call(g, <<x>>))>>)), <<Two>>))>>}

Uses ==
  {<<Let("a", Call(f, <<IntLit(3)>>))>>,
   <<Expr(Infix(Call(g, <<One>>), "NotEQ", f)), Return(Call(g, <<Two>>)), Let("a", One)>>,
   <<Let("a", BoolLit(TRUE)), Expr(Minus(a, One)), Let("g", a)>>,
   <<Return(If(BoolLit(FALSE), <<Expr(One)>>))>>}

\* An empty block, too few arguments, functions that cannot be printed, a
\* literal that is too large, calls that cannot be written, a blank line.
Odd ==
  {<<Let("f", Fn(<<"x">>, Block(<<>>)))>>,
   <<Let("g", Fn(<<>>, Block(<<Expr(Fn(<<>>, Block(<<Expr(a)>>)))>>)))>>,
   <<Expr(Infix(Prefix("Bang", If(BoolLit(TRUE), <<>>)), "EQ", a))>>,
   <<Let("a", IntLit(200))>>, <<Expr(Call(g, <<>>))>>, <<>>}

MCLines == Sums \cup Functions \cup Uses \cup Odd

MCAlphabet ==
  {"Ident", "Int", "Assign", "Plus", "Comma", "Semicolon", "LParen", "RParen", "LBrace",
   "RBrace", "Function", "Let", "Minus", "Bang", "EQ", "True", "If", "Else", "Return", "Illegal"}
=============================================================================
