------------------------------ MODULE MCLimits ------------------------------
(***************************************************************************)
(* Programs that push the machine to its limits, on a small stack and few  *)
(* frames: recursion without end with and without arguments, locals and    *)
(* pending operands; functions that return nothing, take a name twice,     *)
(* define another function or have more locals than a frame can count;     *)
(* values of the wrong type, divisions by zero and overflowing ints.       *)
(***************************************************************************)
EXTENDS Integers, Sequences, Pipeline

p == Var("p")
x == Var("x")
y == Var("y")
One == IntLit(1)
Minus(l, r) == Bin("Minus", l, r)
F(e) == Apply("f", <<e>>)
H == Apply("h", <<>>)

Unary(body) == Fn("f", <<"p">>, body)
Nullary(body) == Fn("h", <<>>, body)

\* Functions that call themselves whatever happens.
Endless ==
  {<<Unary(<<Ret(e)>>), Expr(m)>> :
      e \in {F(p), Minus(p, F(p)), Minus(F(p), p)}, m \in {F(One), Minus(One, F(One))}} \cup
  {<<Unary(<<Let("x", p), Let("y", x), Ret(F(y))>>), Expr(F(One))>>,
   <<Nullary(<<Ret(H)>>), Expr(H)>>,
   <<Nullary(<<Ret(Minus(One, H))>>), Expr(H)>>,
   <<Nullary(<<Ret(H)>>), Unary(<<Ret(H)>>), Expr(F(F(One)))>>}

\* Functions that fall off their end, or run a statement no machine supports.
Results ==
  {<<Nullary(body), Let("a", last), Expr(Var("a"))>> :
      body \in {<<>>, <<Let("x", One)>>, <<Let("x", StringLit)>>, <<Expr(One)>>,
                <<If(BoolLit(FALSE), <<Let("x", One)>>, <<>>), Ret(x)>>,
                <<If(BoolLit(FALSE), <<Let("x", One), Let("y", x)>>, <<>>), Ret(y)>>,
                <<Let("x", y), Ret(x)>>, <<Let("x", H)>>},
      last \in {H, Minus(H, One), FloatLit(3), StringLit}}

\* Functions with a repeated parameter, or with another function inside.
Shapes ==
  {<<Fn("f", <<"p", "p">>, body), Expr(Minus(Apply("f", <<One, m>>), One))>> :
      body \in {<<Ret(p)>>, <<Let("x", p), Ret(Minus(x, p))>>},
      m \in {One, BoolLit(TRUE)}} \cup
  {<<Fn("f", <<"p">>, <<Nullary(<<Ret(One)>>)>> \o rest), Expr(F(m))>> :
      rest \in {<<>>, <<Expr(Var("f"))>>, <<Let("a", One)>>}, m \in {One, H}} \cup
  {<<Unary(<<Ret(p)>>), Assign("f", One), Expr(Minus(F(m), One))>> :
      m \in {One, BoolLit(TRUE)}} \cup
  {<<Unary(<<Let("x", p), Let("y", x), Let("z", y), Ret(Minus(Var("z"), x))>>),
     Expr(m)>> : m \in {F(One), Minus(F(One), One), F(F(One))}}

Operators == {"Plus", "Mult", "Divide", "Power", "Equivalence", "NotEqual",
              "LessThan", "LessThanOrEqual", "MoreThan", "MoreThanOrEqual", "And", "Or"}
Literals == {IntLit(0), IntLit(3), FloatLit(3), BoolLit(TRUE)}
Values ==
  {<<Expr(Bin(op, l, r))>> : op \in Operators, l \in Literals, r \in Literals} \cup
  {<<Expr(u)>> : u \in {Neg(l) : l \in Literals} \cup {Not(l) : l \in Literals}} \cup
  {<<Let("a", l), If(Var("a"), <<Assign("a", One)>>, <<Expr(One)>>), Expr(Var("a"))>> :
      l \in Literals}

AllPrograms == Endless \cup Results \cup Shapes \cup Values
MCPrograms == AllPrograms
MCModules == CompiledModules
=============================================================================
