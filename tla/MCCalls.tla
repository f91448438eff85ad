------------------------------ MODULE MCCalls ------------------------------
(***************************************************************************)
(* Programs of two functions and a top level that calls them: recursion,   *)
(* branches that return or not, locals defined in one branch, arguments    *)
(* that are calls, calls with operands pending below them.  Besides these, *)
(* every expression of a bounded shape.                                    *)
(***************************************************************************)
EXTENDS Integers, Sequences, Pipeline

p == Var("p")
q == Var("q")
x == Var("x")
a == Var("a")
Minus(l, r) == Bin("Minus", l, r)
Less(l, r) == Bin("LessThan", l, r)
F(e) == Apply("f", <<e>>)
G(d, e) == Apply("g", <<d, e>>)
One == IntLit(1)
Two == IntLit(2)

BodiesOfF ==
  {<<Ret(e)>> : e \in {p, Minus(p, Two), Not(Less(p, Two))}} \cup
  {<<Let("x", d), Ret(Minus(x, e))>> : d \in {p, Two}, e \in {p, x}} \cup
  {<<If(Less(p, Two), <<Ret(d)>>, <<>>), Ret(e)>> :
      d \in {p, One}, e \in {Two, F(Minus(p, One)), Minus(p, F(Minus(p, One))),
                             Minus(F(Minus(p, One)), F(Minus(p, Two)))}} \cup
  {<<If(Less(p, Two), <<Assign("p", d)>>, <<Let("x", p), Assign("p", e)>>), Ret(p)>> :
      d \in {p, Two}, e \in {x, Minus(x, p)}} \cup
  {<<Let("x", p), If(Less(x, Two), <<Assign("x", Two), Ret(x)>>, <<Assign("p", One)>>),
     Ret(Minus(p, x))>>}

BodiesOfG ==
  {<<Ret(Minus(F(q), p))>>, <<Ret(Minus(F(p), F(q)))>>} \cup
  {<<Let("x", F(p)), Let("y", F(x)), Ret(Minus(Var("y"), q))>>,
   <<If(Less(q, p), <<Ret(G(q, p))>>, <<Ret(Minus(p, F(q)))>>)>>}

BottomsOfF ==
  {<<Expr(e)>> : e \in {F(Two), Minus(F(One), F(Two)), F(F(Two)), F(BoolLit(TRUE))}} \cup
  {<<Let("a", Two), If(Less(a, One), <<Let("b", a)>>, <<Assign("a", F(a))>>), Expr(Minus(a, One))>>,
   <<Let("a", Two), Let("b", F(a)), Assign("a", Minus(a, Var("b"))), Expr(One)>>}

BottomsOfG ==
  {<<Expr(e)>> : e \in {G(F(One), Two), Minus(IntLit(3), G(Two, F(One)))}} \cup
  {<<Let("a", F(Two)), If(Less(a, Two), <<Assign("a", G(a, One))>>, <<Expr(a)>>), Expr(a)>>}

\* g is there where the top level calls it.
AllPrograms ==
  {<<Fn("f", <<"p">>, f)>> \o bottom : f \in BodiesOfF, bottom \in BottomsOfF} \cup
  {<<Fn("f", <<"p">>, f), Fn("g", <<"p", "q">>, g)>> \o bottom :
      f \in BodiesOfF, g \in BodiesOfG, bottom \in BottomsOfG}

-----------------------------------------------------------------------------

Leaves == {IntLit(1), IntLit(3), BoolLit(TRUE)}
Operators == {"Or", "Equivalence", "LessThan", "Minus", "Mult"}

Grow(E, E2) ==
  {Bin(op, l, r) : op \in Operators, l \in E, r \in E2} \cup
  {Neg(e) : e \in E} \cup {Not(e) : e \in E}
Small == Leaves \cup Grow(Leaves, Leaves)
Expressions == Small \cup Grow(Small, Leaves) \cup Grow(Leaves, Small)

MCPrograms == AllPrograms \cup {<<Expr(e)>> : e \in Expressions}
MCModules == CompiledModules
=============================================================================
