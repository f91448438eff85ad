----------------------------- MODULE MCFrontEnd -----------------------------
(***************************************************************************)
(* Sources for the front end: programs with every kind of statement and    *)
(* expression, each token of which is removed, doubled up or replaced.     *)
(***************************************************************************)
EXTENDS Integers, Sequences, FrontEnd

p == Var("p")
x == Var("x")
One == IntLit(1)
F(e) == Apply("p", <<e>>)

\* Operators of every level, both association and the unary ones.
Arithmetic ==
  {<<Expr(Bin("Plus", Bin("Mult", One, Bin("Minus", One, One)), Bin("Power", Neg(One), One)))>>}

\* Names are few, so that an edited program may still have a meaning.
Statements ==
  {<<Let("p", Bin("Or", Bin("LessThan", One, FloatLit(3)), Not(BoolLit(TRUE)))),
     If(p, <<Assign("p", One), Expr(p)>>, <<Let("x", StringLit)>>), Expr(Bin("Equivalence", p, One))>>,
   <<Let("p", One), If(p, <<Expr(p)>>, <<Let("x", p)>>), If(p, <<Expr(p)>>, <<>>)>>}

Functions ==
  {<<Fn("p", <<"p", "x">>, <<If(p, <<Ret(x)>>, <<Let("y", x)>>), Ret(Var("y"))>>),
     Expr(Apply("p", <<One, Bin("Divide", One, One)>>))>>,
   <<Fn("p", <<"x">>, <<Assign("x", F(x)), Expr(x)>>), Fn("h", <<>>, <<Ret(F(One))>>),
     Let("x", Apply("h", <<>>)), If(BoolLit(FALSE), <<Expr(F(x))>>, <<>>)>>,
   <<Fn("p", <<>>, <<Fn("x", <<"p">>, <<Ret(p)>>)>>), Expr(Apply("x", <<One>>))>>,
   <<Fn("p", <<>>, <<If(BoolLit(TRUE), <<Ret(One), Fn("x", <<>>, <<>>)>>, <<>>)>>)>>}

MCPrograms == Arithmetic \cup Statements \cup Functions

\* The scanner makes no token of a period and none of an error: it reads a
\* float, and throws.
MCAlphabet ==
  {"Integer", "Float", "Identifier", "Plus", "Minus", "Power", "LessThan", "Or", "Not",
   "LeftParenthesis", "RightParenthesis", "LeftCurleyBracket", "Comma", "Semicolon", "Assign",
   "Let", "If", "Then", "Else", "End", "Function", "Return"}

MCSources == EditedSources

\* Sums in parentheses, with a token removed.
Sums == {<<Expr(Bin("Minus", One, Bin("Minus", One, One)))>>}
=============================================================================
