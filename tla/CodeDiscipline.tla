--------------------------- MODULE CodeDiscipline ---------------------------
(***************************************************************************)
(* The discipline that code must keep for the machine of DaewooVM, which   *)
(* checks no access to its stack, to stay within its frames: at each       *)
(* instruction of a code the number of operands above the locals is known  *)
(* before the program runs.                                                *)
(***************************************************************************)
EXTENDS Bytecode

\* Instruction i of code c, counted from 0 as ip is.
InstructionAt(m, c, i) == m.code[c][i + 1]
OpAt(m, c, i) == InstructionAt(m, c, i).op

\* A call is made right after its function's index is pushed.
Callee(m, c, i) == m.code[c][i].arg
CallsFunction(m, c, i) ==
  /\ i > 0
  /\ OpAt(m, c, i - 1) = "Pushi"
  /\ Callee(m, c, i) \in FunctionIds(m)

\* The records an instruction pops, and those it pushes.
Takes(m, c, i) ==
  CASE OpAt(m, c, i) \in BinaryOps -> 2
    [] OpAt(m, c, i) \in UnaryOps \cup {"JmpIfFalse", "Store", "StoreLocal", "Return"} -> 1
    [] OpAt(m, c, i) = "Call" -> IF CallsFunction(m, c, i)
                                 THEN 1 + m.nargs[Callee(m, c, i)] ELSE 1
    [] OTHER -> 0
Gives(m, c, i) ==
  IF OpAt(m, c, i) \in BinaryOps \cup UnaryOps \cup ConstOps \cup
                       {"Load", "LoadLocal", "PushNone", "Call"}
  THEN 1 ELSE 0

\* The instructions that may follow instruction i of the same run().
Successors(m, c, i) ==
  CASE OpAt(m, c, i) \in {"Halt", "Return"} \cup UnsupportedOps -> {}
    [] OpAt(m, c, i) = "Jmp" -> {i + InstructionAt(m, c, i).arg}
    [] OpAt(m, c, i) = "JmpIfFalse" -> {i + 1, i + InstructionAt(m, c, i).arg}
    [] OTHER -> {i + 1}

\* Every jump of the module goes forward.
GoesForward(m) ==
  \A c \in CodeIds(m) : \A i \in DOMAIN m.code[c] :
    m.code[c][i].op \in {"Jmp", "JmpIfFalse"} => m.code[c][i].arg > 0

\* The operands that are on the stack at least when instruction i of c starts:
\* the fewest that the instructions before it that lead to it leave.
Least(S) == CHOOSE n \in S : \A k \in S : n <= k
Height(m, c) ==
  LET h[i \in 0..Len(m.code[c])] ==
        LET before == {j \in 0..(i - 1) : i \in Successors(m, c, j)}
        IN  IF before = {} THEN 0
            ELSE Least({h[j] - Takes(m, c, j) + Gives(m, c, j) : j \in before})
  IN  h

\* In a function all the ways to an instruction leave the same operands.
Follows(m, c, i, j) ==
  LET left == Height(m, c)[i] - Takes(m, c, i) + Gives(m, c, i)
  IN  /\ j \in 0..(Len(m.code[c]) - 1)
      /\ Height(m, c)[j] <= left
      /\ c # Main => Height(m, c)[j] = left
      /\ OpAt(m, c, j) = "Call" => j = i + 1

Disciplined(m) ==
  /\ \A f \in FunctionIds(m) : m.nlocals[f] < ByteMod
  /\ \A c \in CodeIds(m) :
       /\ Len(m.code[c]) > 0
       /\ Height(m, c)[0] = 0
       /\ \A i \in 0..(Len(m.code[c]) - 1) :
            /\ Height(m, c)[i] \in Nat
            /\ Height(m, c)[i] >= Takes(m, c, i)
            /\ \A j \in Successors(m, c, i) : Follows(m, c, i, j)
            /\ OpAt(m, c, i) = "Call" => CallsFunction(m, c, i)
            /\ OpAt(m, c, i) = "Return" => c # Main /\ Height(m, c)[i] = 1
            /\ OpAt(m, c, i) = "Halt" => c = Main
            /\ OpAt(m, c, i) = "Store" =>
                 InstructionAt(m, c, i).arg \in DOMAIN m.symbols \ FunctionIds(m)
            /\ OpAt(m, c, i) \in {"LoadLocal", "StoreLocal"} =>
                 c # Main /\ InstructionAt(m, c, i).arg \in 0..(m.nlocals[c] - 1)
-----------------------------------------------------------------------------
(* The modules for which the code generator is to keep the discipline.     *)

\* A function has a return of its own: a definition inside it would take it.
EndsInReturn(instructions) ==
  LET n == Len(instructions)
  IN  /\ n > 1
      /\ instructions[n - 1].op = "PushNone"
      /\ instructions[n].op = "Return"

\* Each function has its return, and locals that a frame can count; nothing is
\* stored to the name of a function; there is no string, at which the machine
\* stops and what follows pops a record that nothing pushes.
Ordinary(m) ==
  /\ \A f \in FunctionIds(m) : EndsInReturn(m.code[f]) /\ m.nlocals[f] < ByteMod
  /\ \A c \in CodeIds(m) : \A i \in DOMAIN m.code[c] :
       /\ m.code[c][i].op # "Pushs"
       /\ m.code[c][i].op = "Store" => m.code[c][i].arg \notin FunctionIds(m)
=============================================================================
