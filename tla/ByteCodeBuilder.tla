-------------------------- MODULE ByteCodeBuilder --------------------------
(***************************************************************************)
(* The code generator of src/src/TByteCodeBuilder.cpp: a recursive descent *)
(* over the tokens of a program that writes the bytecode of its top level  *)
(* and of its functions, and the symbol tables the bytecode refers to.     *)
(*                                                                         *)
(* A parsing operator takes the state of the builder and returns the state *)
(* after it; one that failed (the code throws) stops every rule.  Where a  *)
(* procedure calls itself or one that leads back to it, the operator looks *)
(* the call up in p, the calls that are one level deeper.                  *)
(***************************************************************************)
EXTENDS Bytecode, TokensTable, SequencesExt

Instr(op, arg) == [op |-> op, arg |-> arg]
NoArg == -1

\* names of symbols_ and whether each is a function; the functions' own tables.
NewFunction == [nargs |-> 0, locals |-> <<>>, code |-> <<>>]
Start(tokens) ==
  [tokens |-> tokens, pos |-> 1, failed |-> FALSE,
   names |-> <<>>, isFunction |-> <<>>, functions |-> <<>>,
   constants |-> <<>>,
   current |-> 0, inFunction |-> FALSE, inDefinition |-> FALSE,
   out |-> <<>>]

Expect(s, c) == IF Code(s) = c THEN Advanced(s) ELSE Fail(s)
Emit(s, op, arg) == [s EXCEPT !.out = Append(@, Instr(op, arg))]

\* The index of the first symbol of that name; 0 when there is none.
FirstNamed(names, name) == SelectInSeq(names, LAMBDA n : n = name)

AddSymbol(s, name, function) ==
  [s EXCEPT !.names = Append(@, name),
            !.isFunction = Append(@, function),
            !.functions = Append(@, NewFunction)]

Locals(s) == s.functions[s.current].locals
AddLocal(s, name) ==
  [s EXCEPT !.functions[s.current].locals = Append(@, name)]

\* The binary operators, from the loosest level to the tightest.
BinaryOpcodes ==
  << [Or |-> "Or", And |-> "And"],
     [Equivalence |-> "IsEq", NotEqual |-> "IsNotEq",
      LessThan |-> "IsLt", LessThanOrEqual |-> "IsLte",
      MoreThan |-> "IsGt", MoreThanOrEqual |-> "IsGte"],
     [Plus |-> "Add", Minus |-> "Sub"],
     [Mult |-> "Mult", Divide |-> "Divide"] >>
Tightest == Len(BinaryOpcodes) + 1
Loosest == 1

Expression(p, s, level) ==
  IF level = Tightest THEN p[<<"Power", s, 0>>]
  ELSE p[<<"Operands", p[<<"Expression", s, level + 1>>], level>>]

Operands(p, s, level) ==
  IF Code(s) \in DOMAIN BinaryOpcodes[level]
  THEN p[<<"Operands", Emit(p[<<"Expression", Advanced(s), level + 1>>],
                            BinaryOpcodes[level][Code(s)], NoArg), level>>]
  ELSE s

\* e follows the n-th expression of a list; the list and its length.
MoreExpressions(p, e, n) ==
  IF Code(e) = "Comma"
  THEN p[<<"MoreExpressions", p[<<"Expression", Advanced(e), Loosest>>], n + 1>>]
  ELSE <<e, n>>
Arguments(p, s) ==
  IF Code(s) = "RightParenthesis" THEN <<s, 0>>
  ELSE p[<<"MoreExpressions", p[<<"Expression", s, Loosest>>], 1>>]

\* s is at the left parenthesis of a call of the symbol f.
CallOf(args, f) ==
  IF args[2] # args[1].functions[f].nargs THEN Fail(args[1])
  ELSE Emit(Emit(Expect(args[1], "RightParenthesis"), "Pushi", f - 1), "Call", NoArg)
Call(p, s, f) == CallOf(Arguments(p, Advanced(s)), f)

\* A name in a function is one of its locals: its list of global variables is
\* never filled.  A let defines every name its statement meets.
LocalVariable(s, name) ==
  LET i == FirstNamed(Locals(s), name)
  IN  IF i # 0 THEN Emit(s, "LoadLocal", i - 1)
      ELSE IF s.inDefinition /\ Code(s) # "LeftBracket"
      THEN Emit(AddLocal(s, name), "LoadLocal", Len(Locals(s)))
      ELSE Fail(s)

\* Mutant: the index of a new symbol is taken after it is added.
ModuleVariableAfter(s, name) ==
  LET i == FirstNamed(s.names, name)
  IN  IF Code(s) = "LeftBracket" THEN Fail(s)
      ELSE IF i # 0 THEN Emit(s, "Load", i - 1)
      ELSE IF s.inDefinition
      THEN Emit(AddSymbol(s, name, FALSE), "Load", Len(s.names) + 1)
      ELSE Fail(s)

ModuleVariable(s, name) ==
  LET i == FirstNamed(s.names, name)
  IN  IF Code(s) = "LeftBracket" THEN Fail(s)
      ELSE IF i # 0 THEN Emit(s, "Load", i - 1)
      ELSE IF s.inDefinition
      THEN Emit(AddSymbol(s, name, FALSE), "Load", Len(s.names))
      ELSE Fail(s)

Identifier(p, s) ==
  LET name == Current(s)
      next == Advanced(s)
      f == FirstNamed(s.names, name)
  IN  IF Code(next) = "LeftParenthesis"
      THEN IF f # 0 /\ s.isFunction[f] THEN Call(p, next, f) ELSE Fail(s)
      ELSE IF s.inFunction THEN LocalVariable(next, name)
      ELSE ModuleVariable(next, name)

Factor(p, s) ==
  LET next == Advanced(s)
  IN CASE Code(s) = "Integer" -> Emit(next, "Pushi", Current(s))
       [] Code(s) = "Float" ->
            Emit([next EXCEPT !.constants = Append(@, Current(s))],
                 "Pushd", Len(s.constants) + 1)
       [] Code(s) = "String" -> Emit(next, "Pushs", NoArg)
       [] Code(s) = "True" -> Emit(next, "Pushb", 1)
       [] Code(s) = "False" -> Emit(next, "Pushb", 0)
       [] Code(s) = "LeftParenthesis" ->
            Expect(p[<<"Expression", next, Loosest>>], "RightParenthesis")
       [] Code(s) = "Identifier" -> Identifier(p, s)
       [] Code(s) = "Not" -> Emit(p[<<"Expression", next, Loosest>>], "Not", NoArg)
       [] OTHER -> Fail(s)

\* Signs apply to the whole power that follows them.
Exponent(p, base) ==
  IF Code(base) = "Power"
  THEN Emit(p[<<"Power", Advanced(base), 0>>], "Power", NoArg)
  ELSE base
Power(p, s) ==
  CASE Code(s) = "Minus" -> Emit(p[<<"Power", Advanced(s), 0>>], "Umi", NoArg)
    [] Code(s) = "Plus"  -> p[<<"Power", Advanced(s), 0>>]
    [] OTHER -> Exponent(p, Factor(p, s))

-----------------------------------------------------------------------------
(* Statements.                                                             *)

AsStore == [Load |-> "Store", LoadLocal |-> "StoreLocal"]

\* The left-hand side is generated apart and comes after the right-hand side,
\* its last load made a store.
\* Mutant: outside functions the store is to the symbol that was added last.
AssignmentToNewest(right, left) ==
  LET final == Last(left.out)
  IN  IF right.failed \/ final.op \notin DOMAIN AsStore THEN Fail(right)
      ELSE [right EXCEPT !.out = @ \o Front(left.out) \o
              <<Instr(AsStore[final.op],
                      IF right.inFunction THEN final.arg ELSE Len(right.names) - 1)>>]
Assignment(right, left) ==
  LET final == Last(left.out)
  IN  IF right.failed \/ final.op \notin DOMAIN AsStore THEN Fail(right)
      ELSE [right EXCEPT !.out = @ \o Front(left.out) \o
                                 <<Instr(AsStore[final.op], final.arg)>>]
\* Mutant: the value of an expression statement is left in a function too.
ExpressionKept(left, out) == [left EXCEPT !.out = out \o @]
ExpressionOnly(left, out) ==
  [left EXCEPT !.out = out \o @ \o
     (IF left.inFunction THEN <<Instr("Pop", NoArg)>> ELSE <<>>)]
AfterLeft(p, left, out) ==
  IF Code(left) = "Assign"
  THEN Assignment(p[<<"Expression", Advanced([left EXCEPT !.out = out]), Loosest>>], left)
  ELSE ExpressionOnly(left, out)
ExprStatement(p, s) ==
  AfterLeft(p, p[<<"Expression", [s EXCEPT !.out = <<>>], Loosest>>], s.out)

LetStatement(p, s) ==
  [ExprStatement(p, [Advanced(s) EXCEPT !.inDefinition = TRUE])
     EXCEPT !.inDefinition = FALSE]

\* The jump at position i of the code goes to the next instruction written.
\* Mutants: the label is that of the instruction before; it is never set.
SetGotoLabelBefore(s, i) == [s EXCEPT !.out[i].arg = Len(s.out) - i]
SetGotoLabelNever(s, i) == s
SetGotoLabel(s, i) == [s EXCEPT !.out[i].arg = Len(s.out) + 1 - i]

\* Mutant: the end after an else branch is not read.
AfterElseUnclosed(s, jump) == IF s.failed THEN s ELSE SetGotoLabel(s, jump)
AfterElse(s, jump) ==
  IF s.failed THEN s ELSE Expect(SetGotoLabel(s, jump), "End")
ElsePart(p, over, jump1) ==
  AfterElse(p[<<"StatementList", Advanced(SetGotoLabel(over, jump1)), 0>>], Len(over.out))
AfterThen(p, s, jump) ==
  CASE s.failed -> s
    [] Code(s) = "Else" -> ElsePart(p, Emit(s, "Jmp", NoArg), jump)
    [] OTHER -> SetGotoLabel(Expect(s, "End"), jump)
ThenPart(p, test) ==
  AfterThen(p, p[<<"StatementList", Expect(test, "Then"), 0>>], Len(test.out))
IfStatement(p, s) ==
  ThenPart(p, Emit(p[<<"Expression", Advanced(s), Loosest>>], "JmpIfFalse", NoArg))

\* A repeated parameter is counted each time and is one local.
Parameter(s) ==
  IF Code(s) # "Identifier" THEN Fail(s)
  ELSE Advanced(IF FirstNamed(Locals(s), Current(s)) # 0 THEN s
                ELSE AddLocal(s, Current(s)))

ParameterList(p, s, n) ==
  IF Code(s) = "Comma" THEN p[<<"ParameterList", Parameter(Advanced(s)), n + 1>>]
  ELSE [s EXCEPT !.functions[s.current].nargs = n]

Parameters(p, s) ==
  IF Code(s) = "Identifier" THEN p[<<"ParameterList", Parameter(s), 1>>]
  ELSE p[<<"ParameterList", s, 0>>]

\* A function is known before its body is read.  Leaving it ends the function
\* scope, and the final return goes to the function that was defined last.
Header(name) ==
  [AddSymbol(name, Current(name), TRUE)
     EXCEPT !.current = Len(name.names) + 1, !.inFunction = TRUE, !.out = <<>>]
Body(p, params) == p[<<"StatementList", Expect(params, "RightParenthesis"), 0>>]
\* Mutant: no final return is written.
ReturnsItself(s) == s
Returns(s) ==
  [s EXCEPT !.functions[s.current].code =
     @ \o <<Instr("PushNone", NoArg), Instr("Return", NoArg)>>]
EndOfBody(body, f, out) ==
  IF Code(body) # "End" THEN Fail(body)
  ELSE Returns([Advanced(body) EXCEPT !.inFunction = FALSE,
                  !.functions[f].code = body.out, !.out = out])
FunctionDef(p, s) ==
  IF Code(Advanced(s)) # "Identifier" THEN Fail(s)
  ELSE EndOfBody(Body(p, Parameters(p, Expect(Advanced(Header(Advanced(s))), "LeftParenthesis"))),
                 Len(s.names) + 1, s.out)

ReturnStatement(p, s) ==
  IF s.inFunction
  THEN Emit(p[<<"Expression", Advanced(s), Loosest>>], "Return", NoArg)
  ELSE Fail(s)

Statement(p, s) ==
  CASE Code(s) = "If" -> IfStatement(p, s)
    [] Code(s) = "Return" -> ReturnStatement(p, s)
    [] Code(s) = "Function" -> FunctionDef(p, s)
    [] Code(s) = "Let" -> LetStatement(p, s)
    [] Code(s) = "End" -> s
    [] OTHER -> ExprStatement(p, s)

\* Semicolons are optional; end, else and the end of the tokens stop the list.
AfterSemicolon(s) == IF Code(s) = "Semicolon" THEN Advanced(s) ELSE s
MoreStatements(p, s) ==
  IF Code(s) \in {"End", "Else", "EndofStream", "failed"} THEN s
  ELSE p[<<"StatementList", s, 0>>]
StatementList(p, s) == MoreStatements(p, AfterSemicolon(Statement(p, s)))

-----------------------------------------------------------------------------
(* The descent: the procedures that call each other, and what they return.  *)

UserFunctions == [nargs : Nat, locals : Seq(STRING), code : Seq(Instruction)]
States(tokens) ==
  [tokens : {tokens}, pos : Nat \ {0}, failed : BOOLEAN,
   names : Seq(STRING), isFunction : Seq(BOOLEAN), functions : Seq(UserFunctions),
   constants : Seq(Int),
   current : Nat, inFunction : BOOLEAN, inDefinition : BOOLEAN,
   out : Seq(Instruction)]

Procedures == {"Expression", "Operands", "Power", "MoreExpressions",
               "StatementList", "ParameterList"}
Calls(tokens) == Procedures \X States(tokens) \X Nat

Procedure(p, name, s, n) ==
  CASE name = "Expression"      -> Expression(p, s, n)
    [] name = "Operands"        -> Operands(p, s, n)
    [] name = "Power"           -> Power(p, s)
    [] name = "MoreExpressions" -> MoreExpressions(p, s, n)
    [] name = "StatementList"   -> StatementList(p, s)
    [] name = "ParameterList"   -> ParameterList(p, s, n)
TooDeep(name, s) == IF name = "MoreExpressions" THEN <<Fail(s), 0>> ELSE Fail(s)

\* Calls are pending no deeper than that: of ten in a row, one reads a token.
Depth(tokens) == 10 * (Len(tokens) + 1)
Descent(tokens) ==
  LET upTo[k \in 0..Depth(tokens)] ==
        [c \in Calls(tokens) |->
           IF k = 0 THEN TooDeep(c[1], c[2])
           ELSE Procedure(upTo[k - 1], c[1], c[2], c[3])]
  IN  upTo[Depth(tokens)]

-----------------------------------------------------------------------------
(* build(): the module that the machine is given.                          *)

\* Symbol i of the module is at position i + 1 of the builder's sequences.  The
\* module remembers the program it comes from, for the properties only.
ModuleOf(s, source) ==
  LET indices == 0..(Len(s.names) - 1)
      functions == {i \in indices : s.isFunction[i + 1]}
  IN  [size |-> Len(s.names),
       symbols |-> [i \in indices |->
         [type |-> IF i \in functions THEN "UserFunc" ELSE "Undefined", v |-> 0]],
       code |-> [c \in {-1} \cup functions |->
         IF c = -1 THEN s.out ELSE s.functions[c + 1].code],
       nargs |-> [f \in functions |-> s.functions[f + 1].nargs],
       nlocals |-> [f \in functions |-> Len(s.functions[f + 1].locals)],
       constants |-> s.constants,
       source |-> source]

Generated(tokens) ==
  Emit(Descent(tokens)[<<"StatementList", Start(tokens), 0>>], "Halt", NoArg)
=============================================================================
