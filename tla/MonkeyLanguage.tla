--------------------------- MODULE MonkeyLanguage ---------------------------
(***************************************************************************)
(* The language of the REPL, independently of how the parser reads it and  *)
(* the evaluator runs it: syntax trees, the tokens each is written with,   *)
(* and what the lines of a session mean.  The reference the interpreter is *)
(* compared with.                                                          *)
(***************************************************************************)
EXTENDS MonkeyNodes, SequencesExt

Tok(c) == <<[type |-> c, literal |-> c]>>
TokOf(c, lit) == <<[type |-> c, literal |-> lit]>>

-----------------------------------------------------------------------------
(* The tokens of a line, with the parentheses that precedence calls for.   *)

LevelOfOp ==
  [EQ |-> 1, NotEQ |-> 1, LessThan |-> 2, GreaterThan |-> 2,
   Plus |-> 3, Minus |-> 3, Asterisk |-> 4, Slash |-> 4]

LevelOf(e) ==
  CASE e.kind = "Infix" -> LevelOfOp[e.op]
    [] e.kind = "Prefix" -> 5
    [] OTHER -> 6

Separated(parts) ==
  IF parts = <<>> THEN <<>>
  ELSE FoldLeft(LAMBDA ts, part : ts \o Tok("Comma") \o part, Head(parts), Tail(parts))
Parens(ts) == Tok("LParen") \o ts \o Tok("RParen")

RECURSIVE ExprTokens(_, _), StmtTokens(_), BlockTokens(_)

\* The tokens of e where an expression of that level or tighter is expected.
ExprTokens(e, level) ==
  IF LevelOf(e) < level THEN Parens(ExprTokens(e, 1))
  ELSE CASE e.kind = "Identifier" -> TokOf("Ident", e.x)
         [] e.kind = "IntegerLiteral" -> TokOf("Int", e.n)
         [] e.kind = "Boolean" -> Tok(IF e.b THEN "True" ELSE "False")
         [] e.kind = "Prefix" -> Tok(e.op) \o ExprTokens(e.right, 5)
         [] e.kind = "Infix" -> ExprTokens(e.left, LevelOfOp[e.op]) \o Tok(e.op)
                                \o ExprTokens(e.right, LevelOfOp[e.op] + 1)
         [] e.kind = "If" ->
              Tok("If") \o Parens(ExprTokens(e.condition, 1)) \o BlockTokens(e.consequence)
              \o (IF e.alternative = Nullptr THEN <<>>
                  ELSE Tok("Else") \o BlockTokens(e.alternative))
         [] e.kind = "Function" ->
              Tok("Function")
              \o Parens(Separated([i \in DOMAIN e.parameters |-> TokOf("Ident", e.parameters[i])]))
              \o BlockTokens(e.body)
         [] e.kind = "Call" ->
              ExprTokens(e.function, 6)
              \o Parens(Separated([i \in DOMAIN e.arguments |-> ExprTokens(e.arguments[i], 1)]))

StmtTokens(s) ==
  (CASE s.kind = "Let" -> Tok("Let") \o TokOf("Ident", s.name) \o Tok("Assign")
     [] s.kind = "Return" -> Tok("Return")
     [] s.kind = "Expression" -> <<>>) \o ExprTokens(s.value, 1) \o Tok("Semicolon")

LineTokens(stmts) == FoldLeft(LAMBDA ts, s : ts \o StmtTokens(s), <<>>, stmts)
BlockTokens(b) == Tok("LBrace") \o LineTokens(b.stmts) \o Tok("RBrace")

-----------------------------------------------------------------------------
(* What a session means.  Names are looked up in the locals of the         *)
(* function that is running, then in the globals.  A function takes with   *)
(* it the locals it was made among, by value: the language asks that a     *)
(* local be bound before the functions that use it, and that only a        *)
(* statement return or bind.  What it gives no meaning is Undefined.       *)

Undefined == [type |-> "Undefined"]
Err == [type |-> "Error"]
Nothing == [type |-> "Null"]
IntValue(n) == [type |-> "Integer", v |-> n]
BoolValue(b) == [type |-> "Boolean", b |-> b]
Closure(ps, body, locals, self) ==
  [type |-> "Function", parameters |-> ps, body |-> body, locals |-> locals, self |-> self]

Failed(values) ==
  IF \E i \in DOMAIN values : values[i] = Undefined THEN Undefined ELSE Err
Fails(value) == value.type \in {"Undefined", "Error"}
Truthy(value) == value \notin {Nothing, BoolValue(FALSE)}

Quotient(m, n) ==
  IF n = 0 THEN Undefined
  ELSE LET Abs(i) == IF i < 0 THEN -i ELSE i
           q == Abs(m) \div Abs(n)
       IN  IntValue(IF (m < 0) = (n < 0) THEN q ELSE -q)

OfInts(op, m, n) ==
  CASE op = "Plus" -> IntValue(m + n)
    [] op = "Minus" -> IntValue(m - n)
    [] op = "Asterisk" -> IntValue(m * n)
    [] op = "Slash" -> Quotient(m, n)
    [] op = "LessThan" -> BoolValue(m < n)
    [] op = "GreaterThan" -> BoolValue(m > n)
    [] op = "EQ" -> BoolValue(m = n)
    [] op = "NotEQ" -> BoolValue(m # n)

\* An error that is compared, negated or tested is left without a meaning, and
\* so are comparisons of functions and the negation of nothing.
Comparable(a) == a.type \in {"Integer", "Boolean", "Null"}
OfOperands(op, a, b) ==
  CASE a.type = "Integer" /\ b.type = "Integer" -> OfInts(op, a.v, b.v)
    [] op \in {"EQ", "NotEQ"} -> IF Comparable(a) /\ Comparable(b)
                                 THEN BoolValue((a = b) = (op = "EQ")) ELSE Undefined
    [] Fails(a) \/ Fails(b) -> Failed(<<a, b>>)
    [] OTHER -> Err

OfPrefix(op, a) ==
  CASE op = "Minus" /\ a.type = "Integer" -> IntValue(-a.v)
    [] op = "Minus" -> IF Fails(a) THEN a ELSE Err
    [] op = "Bang" -> IF Fails(a) \/ a = Nothing THEN Undefined ELSE BoolValue(a = BoolValue(FALSE))

Binding(names, values) == [x \in Range(names) |-> values[CHOOSE i \in DOMAIN names : names[i] = x]]
Over(f, g) == [x \in DOMAIN f \cup DOMAIN g |-> IF x \in DOMAIN f THEN f[x] ELSE g[x]]
NoLocals == [x \in {} |-> Nothing]

RECURSIVE ValueOf(_, _), AfterStmts(_, _), AfterIf(_, _)

\* The scope after a statement: the names, the value of the statement, and
\* whether it ended the function or the line.
Scope(globals, locals, top) ==
  [globals |-> globals, locals |-> locals, top |-> top, value |-> Undefined, done |-> FALSE]
Yields(sc, value) == [sc EXCEPT !.value = value, !.done = Fails(value)]
Names(sc) == <<sc.globals, sc.locals>>

Applied(f, args, sc) ==
  IF Fails(f) THEN f
  ELSE IF \E i \in DOMAIN args : Fails(args[i]) THEN Failed(args)
  ELSE IF f.type # "Function" THEN Err
  ELSE IF Len(args) # Len(f.parameters) THEN Undefined
  ELSE LET own == IF f.self = "" THEN NoLocals ELSE Binding(<<f.self>>, <<f>>)
           locals == Over(Binding(f.parameters, args), Over(own, f.locals))
       IN  AfterStmts(f.body.stmts, Scope(sc.globals, locals, FALSE)).value

ValueOf(e, sc) ==
  CASE e.kind = "Identifier" ->
         IF e.x \in DOMAIN sc.locals THEN sc.locals[e.x]
         ELSE IF e.x \in DOMAIN sc.globals THEN sc.globals[e.x] ELSE Err
    [] e.kind = "IntegerLiteral" -> IntValue(e.n)
    [] e.kind = "Boolean" -> BoolValue(e.b)
    [] e.kind = "Prefix" -> OfPrefix(e.op, ValueOf(e.right, sc))
    [] e.kind = "Infix" -> OfOperands(e.op, ValueOf(e.left, sc), ValueOf(e.right, sc))
    [] e.kind = "Function" -> Closure(e.parameters, e.body, sc.locals, "")
    [] e.kind = "Call" ->
         Applied(ValueOf(e.function, sc),
                 [i \in DOMAIN e.arguments |-> ValueOf(e.arguments[i], sc)], sc)
    [] e.kind = "If" ->
         LET after == AfterIf(e, sc)
         IN  IF Names(after) # Names(sc) \/ (after.done /\ ~Fails(after.value))
             THEN Undefined ELSE after.value

AfterIf(e, sc) ==
  LET tested == ValueOf(e.condition, sc)
  IN  IF Fails(tested) THEN Yields(sc, Undefined)
      ELSE IF Truthy(tested) THEN AfterStmts(e.consequence.stmts, sc)
      ELSE IF e.alternative = Nullptr THEN Yields(sc, Nothing)
      ELSE AfterStmts(e.alternative.stmts, sc)

AfterLet(s, sc) ==
  LET value == ValueOf(s.value, sc)
      named == IF value.type = "Function" /\ s.value.kind = "Function" /\ ~sc.top
               THEN [value EXCEPT !.self = s.name] ELSE value
      bind == Binding(<<s.name>>, <<named>>)
  IN  IF Fails(value) THEN Yields(sc, value)
      ELSE IF sc.top THEN Yields([sc EXCEPT !.globals = Over(bind, @)], named)
      ELSE Yields([sc EXCEPT !.locals = Over(bind, @)], named)

AfterStmt(s, sc) ==
  CASE s.kind = "Let" -> AfterLet(s, sc)
    [] s.kind = "Return" -> [Yields(sc, ValueOf(s.value, sc)) EXCEPT !.done = TRUE]
    [] s.value.kind = "If" -> AfterIf(s.value, sc)
    [] OTHER -> Yields(sc, ValueOf(s.value, sc))

\* A block without statements has no value.
AfterStmts(stmts, sc) ==
  IF stmts = <<>> THEN [sc EXCEPT !.value = Undefined]
  ELSE LET after == AfterStmt(Head(stmts), sc)
       IN  IF after.done \/ Len(stmts) = 1 THEN after ELSE AfterStmts(Tail(stmts), after)

\* The value of the last line of a session, and the globals after it.  A line
\* without statements has no answer, and one without a meaning leaves none to
\* what follows.
NoAnswer == [type |-> "nullptr"]
SessionMeaning(lines) ==
  FoldLeft(LAMBDA sc, line :
             IF sc.value = Undefined THEN sc
             ELSE IF line = <<>> THEN [sc EXCEPT !.value = NoAnswer]
             ELSE AfterStmts(line, Scope(sc.globals, NoLocals, TRUE)),
           [Scope(NoLocals, NoLocals, TRUE) EXCEPT !.value = NoAnswer], lines)
=============================================================================
