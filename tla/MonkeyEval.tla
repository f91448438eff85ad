----------------------------- MODULE MonkeyEval -----------------------------
(***************************************************************************)
(* The evaluator of the REPL: the evaluate functions of src/src/ast.cpp,   *)
(* with the objects they make and the environments of environment.cpp.     *)
(*                                                                         *)
(* An object never changes once it is made, so that it is a value; those   *)
(* whose identity == may tell apart have an id.  Environments do change:   *)
(* they are a sequence, and a pointer to one is its index, 0 for none.     *)
(*                                                                         *)
(* The calls of evaluate() that are pending are in the memory too, each    *)
(* with its node, its environment and what the calls it made have given.   *)
(* Once an undefined operation was reached (a null pointer followed, an    *)
(* element past the end of a vector read), a division trapped or calls     *)
(* nested deeper than the stack, the fate of the memory says so and        *)
(* nothing is evaluated any more.                                          *)
(***************************************************************************)
EXTENDS MonkeyNodes

CONSTANT MaxDepth   \* the calls that the stack of the process has room for

NullObject == [type |-> "nullptr"]
Integer(n) == [type |-> "Integer", v |-> n]
Boolean(b) == [type |-> "Boolean", b |-> b]
TRUEObject == Boolean(TRUE)
FALSEObject == Boolean(FALSE)
NIL == [type |-> "Null"]

\* The environment that the REPL keeps, the only one at first.
NoNames == [x \in {} |-> NullObject]
EmptyEnvironment == [repo |-> NoNames, outer |-> 0]
Fresh == [envs |-> <<EmptyEnvironment>>, made |-> 0, object |-> NullObject,
          running |-> <<>>, fate |-> "well"]
Global == 1

Struck(m, fate) == [m EXCEPT !.fate = fate]

-----------------------------------------------------------------------------
(* Pending calls, the innermost last.                                      *)

Activation(n, e) == [node |-> n, env |-> e, given |-> <<>>]
Innermost(m) == m.running[Len(m.running)]

\* evaluate() is called, and what a call of it returns.
Evaluate(m, n, e) ==
  IF Len(m.running) = MaxDepth THEN Struck(m, "depth")
  ELSE [m EXCEPT !.running = Append(@, Activation(n, e))]
Gives(m, object) ==
  LET callers == SubSeq(m.running, 1, Len(m.running) - 1)
  IN  IF callers = <<>> THEN [m EXCEPT !.running = callers, !.object = object]
      ELSE [m EXCEPT !.running =
              [callers EXCEPT ![Len(callers)].given = Append(@, object)]]

\* Objects with an identity.
GivesNew(m, object) == Gives([m EXCEPT !.made = @ + 1], object)
ErrorObject(m) == GivesNew(m, [type |-> "Error", id |-> m.made])
ReturnObject(m, object) == GivesNew(m, [type |-> "Return", object |-> object, id |-> m.made])
FunctionObject(m, n, e) ==
  GivesNew(m, [type |-> "Function", parameters |-> n.parameters, body |-> n.body,
               env |-> e, id |-> m.made])

-----------------------------------------------------------------------------
(* Environments: get() and set().                                          *)

Get(envs, e, x) ==
  LET from[i \in 0..Len(envs)] ==
        IF i = 0 THEN NullObject
        ELSE IF x \in DOMAIN envs[i].repo THEN envs[i].repo[x] ELSE from[envs[i].outer]
  IN  from[e]
With(repo, x, object) == [y \in DOMAIN repo \cup {x} |-> IF y = x THEN object ELSE repo[y]]
\* Mutant: a binding goes to the environment outside when that has the name.
SetWhereFound(m, e, x, object) ==
  LET o == m.envs[e].outer
      at == IF x \notin DOMAIN m.envs[e].repo /\ o # 0 /\ x \in DOMAIN m.envs[o].repo THEN o ELSE e
  IN  [m EXCEPT !.envs[at].repo = With(@, x, object)]
Set(m, e, x, object) == [m EXCEPT !.envs[e].repo = With(@, x, object)]

-----------------------------------------------------------------------------
(* Operators.                                                              *)

\* evalBangOperatorExpression and evalMinusPrefixOperatorExpression.
Bang(m, right) == Gives(m, IF right = FALSEObject THEN TRUEObject ELSE FALSEObject)
MinusPrefix(m, right) ==
  CASE right = NullObject -> Struck(m, "nothing")
    [] right.type = "Integer" -> Gives(m, Integer(-right.v))
    [] OTHER -> ErrorObject(m)

\* Division of ints, towards zero; by zero it traps.
Abs(n) == IF n < 0 THEN -n ELSE n
Divided(m, a, b) ==
  IF b = 0 THEN Struck(m, "trap")
  ELSE Gives(m, Integer(IF (a < 0) = (b < 0) THEN Abs(a) \div Abs(b)
                                             ELSE -(Abs(a) \div Abs(b))))

IntegerInfix(m, op, a, b) ==
  CASE op = "Plus" -> Gives(m, Integer(a + b))
    [] op = "Minus" -> Gives(m, Integer(a - b))
    [] op = "Asterisk" -> Gives(m, Integer(a * b))
    [] op = "Slash" -> Divided(m, a, b)
    [] op = "LessThan" -> Gives(m, Boolean(a < b))
    [] op = "GreaterThan" -> Gives(m, Boolean(a > b))
    [] op = "EQ" -> Gives(m, Boolean(a = b))
    [] op = "NotEQ" -> Gives(m, Boolean(a # b))

\* Other operands are the same when they are one object; the type of the right
\* one is read only where it matters.
InfixObject(m, op, l, r) ==
  LET numbers == l.type = "Integer" /\ r.type = "Integer"
      missing == l = NullObject \/ (r = NullObject /\ (l.type = "Integer" \/ op \notin {"EQ", "NotEQ"}))
  IN  CASE missing -> Struck(m, "nothing")
        [] numbers -> IntegerInfix(m, op, l.v, r.v)
        [] ~missing /\ ~numbers /\ op = "EQ" -> Gives(m, Boolean(l = r))
        [] ~missing /\ ~numbers /\ op = "NotEQ" -> Gives(m, Boolean(l # r))
        [] OTHER -> ErrorObject(m)

IsTruthy(object) == object \notin {NIL, FALSEObject}

-----------------------------------------------------------------------------
(* Expressions: a is the innermost call of evaluate(), and does what comes *)
(* next after the objects that it was given so far.                        *)

Identifier(m, a) ==
  LET val == Get(m.envs, a.env, a.node.x)
  IN  IF val = NullObject THEN ErrorObject(m) ELSE Gives(m, val)

PrefixExpression(m, a) ==
  CASE a.given = <<>> -> Evaluate(m, a.node.right, a.env)
    [] a.given # <<>> /\ a.node.op = "Bang" -> Bang(m, a.given[1])
    [] a.given # <<>> /\ a.node.op = "Minus" -> MinusPrefix(m, a.given[1])

InfixExpression(m, a) ==
  CASE Len(a.given) = 0 -> Evaluate(m, a.node.left, a.env)
    [] Len(a.given) = 1 -> Evaluate(m, a.node.right, a.env)
    [] Len(a.given) = 2 -> InfixObject(m, a.node.op, a.given[1], a.given[2])

\* Mutant: an if that is not taken gives no object.
IfOrNothing(m, a) ==
  CASE Len(a.given) = 0 -> Evaluate(m, a.node.condition, a.env)
    [] Len(a.given) = 1 ->
         IF IsTruthy(a.given[1]) THEN Evaluate(m, a.node.consequence, a.env)
         ELSE IF a.node.alternative # Nullptr THEN Evaluate(m, a.node.alternative, a.env)
         ELSE Gives(m, NullObject)
    [] Len(a.given) = 2 -> Gives(m, a.given[2])
IfExpression(m, a) ==
  CASE Len(a.given) = 0 -> Evaluate(m, a.node.condition, a.env)
    [] Len(a.given) = 1 ->
         IF IsTruthy(a.given[1]) THEN Evaluate(m, a.node.consequence, a.env)
         ELSE IF a.node.alternative # Nullptr THEN Evaluate(m, a.node.alternative, a.env)
         ELSE Gives(m, NIL)
    [] Len(a.given) = 2 -> Gives(m, a.given[2])

\* extendFunctionEnv: of parameters with one name the last one counts.  One
\* argument too many is left aside, one too few is read past the vector.
LastOf(ps, x) == CHOOSE i \in DOMAIN ps : ps[i] = x /\ \A j \in DOMAIN ps : ps[j] = x => j <= i
Bound(ps, args) == [x \in Entries(ps) |-> args[LastOf(ps, x)]]
\* Mutant: a function sees the session, and not the scope it was written in.
ExtendedGlobally(f, args) == [repo |-> Bound(f.parameters, args), outer |-> Global]
ExtendedEnv(f, args) == [repo |-> Bound(f.parameters, args), outer |-> f.env]

\* applyFunction
ApplyFunction(m, f, args) ==
  CASE f.type # "Function" -> ErrorObject(m)
    [] f.type = "Function" /\ Len(args) < Len(f.parameters) -> Struck(m, "arguments")
    [] f.type = "Function" /\ Len(args) >= Len(f.parameters) ->
         Evaluate([m EXCEPT !.envs = Append(@, ExtendedEnv(f, args))], f.body, Len(m.envs) + 1)
Unwrapped(object) == IF object.type = "Return" THEN object.object ELSE object

\* The function, the arguments and the body are evaluated one after the other,
\* to the first that is an error; a null pointer is followed.
CallExpression(m, a) ==
  LET given == a.given
      arguments == a.node.arguments
      last == given[Len(given)]
  IN  CASE given = <<>> -> Evaluate(m, a.node.function, a.env)
        [] given # <<>> /\ last = NullObject -> Struck(m, "nothing")
        [] given # <<>> /\ last.type = "Error" -> Gives(m, last)
        [] given # <<>> /\ last.type \notin {"nullptr", "Error"} ->
             IF Len(given) <= Len(arguments) THEN Evaluate(m, arguments[Len(given)], a.env)
             ELSE IF Len(given) = Len(arguments) + 1
             THEN ApplyFunction(m, given[1], SubSeq(given, 2, Len(given)))
             ELSE Gives(m, Unwrapped(last))

-----------------------------------------------------------------------------
(* Statements.                                                             *)

\* Mutant: an error is bound like any object.
LetWhatever(m, a) ==
  CASE a.given = <<>> -> Evaluate(m, a.node.value, a.env)
    [] a.given = <<NullObject>> -> Struck(m, "nothing")
    [] OTHER -> Gives(Set(m, a.env, a.node.name, a.given[1]), a.given[1])
LetStatement(m, a) ==
  CASE a.given = <<>> -> Evaluate(m, a.node.value, a.env)
    [] a.given = <<NullObject>> -> Struck(m, "nothing")
    [] a.given # <<>> /\ a.given[1].type = "Error" -> Gives(m, a.given[1])
    [] OTHER -> Gives(Set(m, a.env, a.node.name, a.given[1]), a.given[1])

ReturnStatement(m, a) ==
  IF a.given = <<>> THEN Evaluate(m, a.node.value, a.env) ELSE ReturnObject(m, a.given[1])
ExpressionStatement(m, a) ==
  IF a.given = <<>> THEN Evaluate(m, a.node.value, a.env) ELSE Gives(m, a.given[1])

\* A return or an error ends a block; one without statements gives no object.
Result(a) == IF a.given = <<>> THEN NullObject ELSE a.given[Len(a.given)]
AtEnd(a) == Len(a.given) = Len(a.node.stmts) \/ Result(a).type \in {"Return", "Error"}
BlockStatement(m, a) ==
  IF AtEnd(a) THEN Gives(m, Result(a))
  ELSE Evaluate(m, a.node.stmts[Len(a.given) + 1], a.env)

\* Program::evaluate reads the type of each object.
EvaluateProgram(m, a) ==
  CASE a.given # <<>> /\ Result(a) = NullObject -> Struck(m, "nothing")
    [] (a.given = <<>> \/ Result(a) # NullObject) /\ AtEnd(a) -> Gives(m, Unwrapped(Result(a)))
    [] (a.given = <<>> \/ Result(a) # NullObject) /\ ~AtEnd(a) ->
         Evaluate(m, a.node.stmts[Len(a.given) + 1], a.env)

-----------------------------------------------------------------------------

\* What the innermost call does next.
Proceed(m) ==
  LET a == Innermost(m)
      n == a.node
  IN  CASE n.kind = "IntegerLiteral" -> Gives(m, Integer(n.n))
        [] n.kind = "Boolean" -> Gives(m, Boolean(n.b))
        [] n.kind = "Identifier" -> Identifier(m, a)
        [] n.kind = "Prefix" -> PrefixExpression(m, a)
        [] n.kind = "Infix" -> InfixExpression(m, a)
        [] n.kind = "If" -> IfExpression(m, a)
        [] n.kind = "Function" -> FunctionObject(m, n, a.env)
        [] n.kind = "Call" -> CallExpression(m, a)
        [] n.kind = "Let" -> LetStatement(m, a)
        [] n.kind = "Return" -> ReturnStatement(m, a)
        [] n.kind = "Expression" -> ExpressionStatement(m, a)
        [] n.kind = "Block" -> BlockStatement(m, a)
        [] n.kind = "Program" -> EvaluateProgram(m, a)
        [] n.kind = "nullptr" -> Struck(m, "hole")

-----------------------------------------------------------------------------

\* inspect: the text of a function lists the parameters of the functions and
\* the arguments of the calls in its body, and reads the first of them.  The
\* calls of toString() are nested as the nodes are.
Shallow(n) == NodesOf(n, MaxDepth, {}) = NodesOf(n, MaxDepth - 1, {})
Printable(n) ==
  /\ \A x \in NodesOf(n, MaxDepth, {}) :
       /\ x.kind = "Function" => x.parameters # <<>>
       /\ x.kind = "Call" => x.arguments # <<>>
  /\ Shallow(n)
\* The object inside the returns.
Inspected(object) ==
  LET inner[k \in 0..MaxDepth] == IF k = 0 THEN object ELSE Unwrapped(inner[k - 1])
  IN  inner[MaxDepth]
Inspectable(object) ==
  LET last == Inspected(object)
  IN  CASE last.type \in {"nullptr", "Return"} -> FALSE
        [] last.type = "Function" -> Printable(last.body)
        [] OTHER -> TRUE
NestedTooDeep(object) ==
  LET last == Inspected(object)
  IN  last.type = "Return" \/ (last.type = "Function" /\ ~Shallow(last.body))
=============================================================================
