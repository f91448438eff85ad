------------------------------ MODULE MCClaims ------------------------------
(***************************************************************************)
(* The programs that show what the properties of Claims say not to be so,  *)
(* one set for each.                                                       *)
(***************************************************************************)
EXTENDS Integers, Sequences, Claims

p == Var("p")
One == IntLit(1)
Two == IntLit(2)
F(e) == Apply("f", <<e>>)
H == Apply("h", <<>>)

\* A function without a return statement, whose result is used.
NoReturn == {<<Fn("h", <<>>, <<Let("x", One)>>), Expr(H)>>}

\* Recursion that leaves an operand pending.
Pending == {<<Fn("f", <<"p">>, <<Ret(Bin("Minus", p, F(p)))>>), Expr(F(One))>>}

\* An int and a double compared, either way round.
Mixed == {<<Expr(Bin("Equivalence", l, r))>> :
            l \in {Two, FloatLit(4)}, r \in {Two, FloatLit(4)}}

MCModules == CompiledModules
=============================================================================
