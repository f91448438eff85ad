--------------------------- MODULE DaewooLanguage ---------------------------
(***************************************************************************)
(* The language the code generator reads, independently of how it reads    *)
(* it: programs as syntax trees, the tokens each is written with, and what *)
(* it means.  The reference the generated code is compared with.           *)
(*                                                                         *)
(* The grammar is that of the comments of src/src/TByteCodeBuilder.cpp.    *)
(***************************************************************************)
EXTENDS Integers, Sequences, SequencesExt

Tok(c) == <<[code |-> c, value |-> 0]>>
TokOf(c, val) == <<[code |-> c, value |-> val]>>

-----------------------------------------------------------------------------
(* Expressions and statements.                                             *)

IntLit(n)       == [kind |-> "int", n |-> n]
FloatLit(d)     == [kind |-> "float", d |-> d]
StringLit       == [kind |-> "string"]
BoolLit(b)      == [kind |-> "bool", b |-> b]
Var(x)          == [kind |-> "var", x |-> x]
Bin(op, l, r)   == [kind |-> "bin", op |-> op, l |-> l, r |-> r]
Neg(e)          == [kind |-> "neg", e |-> e]
Not(e)          == [kind |-> "not", e |-> e]
Apply(f, args)  == [kind |-> "apply", f |-> f, args |-> args]

Let(x, e)       == [kind |-> "let", x |-> x, e |-> e]
Assign(x, e)    == [kind |-> "assign", x |-> x, e |-> e]
If(e, s, t)     == [kind |-> "if", e |-> e, s |-> s, t |-> t]
Fn(f, ps, body) == [kind |-> "fn", f |-> f, ps |-> ps, body |-> body]
Ret(e)          == [kind |-> "ret", e |-> e]
Expr(e)         == [kind |-> "expr", e |-> e]

-----------------------------------------------------------------------------
(* The tokens of a program, with the parentheses that precedence calls for. *)

Precedence ==
  [Or |-> 1, And |-> 1,
   Equivalence |-> 2, NotEqual |-> 2, LessThan |-> 2, LessThanOrEqual |-> 2,
   MoreThan |-> 2, MoreThanOrEqual |-> 2,
   Plus |-> 3, Minus |-> 3, Mult |-> 4, Divide |-> 4, Power |-> 5]

\* A not takes in the whole expression after it, so that it stands alone.
LevelOf(e) ==
  CASE e.kind = "bin" -> Precedence[e.op]
    [] e.kind = "neg" -> 5
    [] e.kind = "not" -> 1
    [] OTHER -> 6

RECURSIVE ExprTokens(_, _), ArgTokens(_)

\* The tokens of e where an expression of that level or tighter is expected.
ExprTokens(e, level) ==
  IF LevelOf(e) < level
  THEN Tok("LeftParenthesis") \o ExprTokens(e, 1) \o Tok("RightParenthesis")
  ELSE CASE e.kind = "int"    -> TokOf("Integer", e.n)
         [] e.kind = "float"  -> TokOf("Float", e.d)
         [] e.kind = "string" -> Tok("String")
         [] e.kind = "bool"   -> Tok(IF e.b THEN "True" ELSE "False")
         [] e.kind = "var"    -> TokOf("Identifier", e.x)
         [] e.kind = "neg"    -> Tok("Minus") \o ExprTokens(e.e, 5)
         [] e.kind = "not"    -> Tok("Not") \o ExprTokens(e.e, 1)
         [] e.kind = "apply"  -> TokOf("Identifier", e.f) \o Tok("LeftParenthesis")
                                 \o ArgTokens(e.args) \o Tok("RightParenthesis")
         [] e.kind = "bin" /\ e.op = "Power" ->
              ExprTokens(e.l, 6) \o Tok("Power") \o ExprTokens(e.r, 5)
         [] OTHER -> LET p == Precedence[e.op]
                         \* a leading not would take in the operator as well
                         left == IF e.l.kind = "not" THEN 2 ELSE p
                     IN  ExprTokens(e.l, left) \o Tok(e.op) \o ExprTokens(e.r, p + 1)

ArgTokens(args) ==
  IF args = <<>> THEN <<>>
  ELSE ExprTokens(Head(args), 1) \o
       FoldLeft(LAMBDA ts, e : ts \o Tok("Comma") \o ExprTokens(e, 1), <<>>, Tail(args))

ParamTokens(ps) ==
  IF ps = <<>> THEN <<>>
  ELSE TokOf("Identifier", Head(ps)) \o
       FoldLeft(LAMBDA ts, p : ts \o Tok("Comma") \o TokOf("Identifier", p), <<>>, Tail(ps))

RECURSIVE StmtTokens(_), BlockTokens(_)

StmtTokens(s) ==
  CASE s.kind = "let" -> Tok("Let") \o TokOf("Identifier", s.x) \o Tok("Assign")
                         \o ExprTokens(s.e, 1)
    [] s.kind = "assign" -> TokOf("Identifier", s.x) \o Tok("Assign") \o ExprTokens(s.e, 1)
    [] s.kind = "if" -> Tok("If") \o ExprTokens(s.e, 1) \o Tok("Then") \o BlockTokens(s.s)
                        \o (IF s.t = <<>> THEN <<>> ELSE Tok("Else") \o BlockTokens(s.t))
                        \o Tok("End")
    [] s.kind = "fn" -> Tok("Function") \o TokOf("Identifier", s.f)
                        \o Tok("LeftParenthesis") \o ParamTokens(s.ps)
                        \o Tok("RightParenthesis") \o BlockTokens(s.body) \o Tok("End")
    [] s.kind = "ret" -> Tok("Return") \o ExprTokens(s.e, 1)
    [] s.kind = "expr" -> ExprTokens(s.e, 1)

BlockTokens(block) == FoldLeft(LAMBDA ts, s : ts \o StmtTokens(s) \o Tok("Semicolon"), <<>>, block)

ProgramTokens(program) == BlockTokens(program)

-----------------------------------------------------------------------------
(* What a program means, for ints and booleans.  A result is a value or an  *)
(* error, which what contains it passes on.                                 *)

Err == [type |-> "Error", v |-> 0]
IntValue(n) == [type |-> "Integer", v |-> n]
BoolValue(b) == [type |-> "Boolean", v |-> IF b THEN 1 ELSE 0]

BothInts(a, b) == a.type = "Integer" /\ b.type = "Integer"
BothBools(a, b) == a.type = "Boolean" /\ b.type = "Boolean"

MeaningOf(op, a, b) ==
  CASE op = "Or" /\ BothBools(a, b) -> BoolValue(a.v = 1 \/ b.v = 1)
    [] op = "And" /\ BothBools(a, b) -> BoolValue(a.v = 1 /\ b.v = 1)
    [] op = "Equivalence" /\ (BothInts(a, b) \/ BothBools(a, b)) -> BoolValue(a.v = b.v)
    [] op = "NotEqual" /\ (BothInts(a, b) \/ BothBools(a, b)) -> BoolValue(a.v # b.v)
    [] op = "LessThan" /\ BothInts(a, b) -> BoolValue(a.v < b.v)
    [] op = "LessThanOrEqual" /\ BothInts(a, b) -> BoolValue(a.v <= b.v)
    [] op = "MoreThan" /\ BothInts(a, b) -> BoolValue(a.v > b.v)
    [] op = "MoreThanOrEqual" /\ BothInts(a, b) -> BoolValue(a.v >= b.v)
    [] op = "Plus" /\ BothInts(a, b) -> IntValue(a.v + b.v)
    [] op = "Minus" /\ BothInts(a, b) -> IntValue(a.v - b.v)
    [] op = "Mult" /\ BothInts(a, b) -> IntValue(a.v * b.v)
    [] OTHER -> Err

\* A scope: the values of the variables, the functions defined so far, the
\* value of the last expression statement or return, and whether to go on.
Scope(variables, functions) ==
  [variables |-> variables, functions |-> functions, result |-> Err, done |-> FALSE]
Failed(scope) == [scope EXCEPT !.result = Err, !.done = TRUE]

RECURSIVE MeaningIn(_, _), Effect(_, _), Run(_, _)

MeaningIn(e, scope) ==
  CASE e.kind = "int"  -> IntValue(e.n)
    [] e.kind = "bool" -> BoolValue(e.b)
    [] e.kind = "var"  -> IF e.x \in DOMAIN scope.variables
                          THEN scope.variables[e.x] ELSE Err
    [] e.kind = "neg"  -> LET r == MeaningIn(e.e, scope)
                          IN  IF r.type = "Integer" THEN IntValue(-r.v) ELSE Err
    [] e.kind = "not"  -> LET r == MeaningIn(e.e, scope)
                          IN  IF r.type = "Boolean" THEN BoolValue(r.v = 0) ELSE Err
    [] e.kind = "bin"  -> MeaningOf(e.op, MeaningIn(e.l, scope), MeaningIn(e.r, scope))
    [] e.kind = "apply" ->
         LET f    == scope.functions[e.f]
             args == [i \in DOMAIN e.args |-> MeaningIn(e.args[i], scope)]
             vars == [x \in {f.ps[i] : i \in DOMAIN f.ps} |->
                        args[CHOOSE i \in DOMAIN f.ps : f.ps[i] = x]]
         IN  IF \E i \in DOMAIN args : args[i] = Err THEN Err
             ELSE Run(f.body, Scope(vars, scope.functions)).result
    [] OTHER -> Err

Effect(s, scope) ==
  LET r == MeaningIn(s.e, scope)
  IN CASE s.kind = "fn" -> [scope EXCEPT !.functions = (s.f :> s) @@ @]
       [] r = Err -> Failed(scope)
       [] s.kind \in {"let", "assign"} -> [scope EXCEPT !.variables = (s.x :> r) @@ @]
       [] s.kind = "ret" -> [scope EXCEPT !.result = r, !.done = TRUE]
       [] s.kind = "expr" -> [scope EXCEPT !.result = r]
       [] s.kind = "if" -> Run(IF r.v = 1 THEN s.s ELSE s.t, scope)

Run(block, scope) ==
  IF block = <<>> \/ scope.done THEN scope
  ELSE Run(Tail(block), Effect(Head(block), scope))

\* The names that the statements of a program define outside its functions, in
\* the order they are written: a let of a name that is there defines nothing.
RECURSIVE Defined(_, _)
Defined(known, block) ==
  FoldLeft(LAMBDA names, s :
             CASE s.kind = "fn" -> Append(names, s.f)
               [] s.kind = "let" /\ ~Contains(names, s.x) -> Append(names, s.x)
               [] s.kind = "if" -> Defined(Defined(names, s.s), s.t)
               [] OTHER -> names,
           known, block)
NamesOf(program) == Defined(<<>>, program)

\* The scope in which a program ends; a call uses the last definition.
Meaning(program) == Run(program, Scope(<<>>, <<>>))
=============================================================================
