------------------------------ MODULE DaewooVM ------------------------------
(***************************************************************************)
(* The bytecode virtual machine of src/src/VM.cpp: its operand stack       *)
(* (TMachineStack), its stack of activation frames (TFrameStack), the      *)
(* symbol table of the module it runs, and the recursion of run(), which   *)
(* calls itself once per active user function.                             *)
(*                                                                         *)
(* Strings and lists never reach the operand stack of this machine: Pushs  *)
(* throws, and nothing else creates one.  The branches of the operations   *)
(* that handle them are therefore not modelled.                            *)
(***************************************************************************)
EXTENDS Bytecode

CONSTANTS
  StackSize,      \* slots of TMachineStack::stack_ (4000 in the code)
  FrameLimit,     \* frames of TFrameStack::frameStack_ (2048 in the code)
  AllocBy,        \* TProgram::ALLOC_BY, the growth of a code vector (512)
  IntLimit,       \* one more than the largest int (2^31)
  DoubleValues,   \* doubles that arithmetic may produce, counted in halves
  Modules         \* the modules the code generator may hand to the machine

ASSUME SizesAssumption ==
  /\ StackSize \in Nat \ {0}
  /\ FrameLimit \in Nat \ {0}
  /\ ByteMod \in Nat \ {0}
  /\ AllocBy \in Nat \ {0}

ASSUME ValuesAssumption ==
  /\ IntLimit \in Nat \ {0}
  /\ DoubleValues \subseteq Int

-----------------------------------------------------------------------------
(* Values.                                                                 *)

ValueTypes == {"None", "Integer", "Double", "Boolean"}

\* A stack record: a tag and a payload.  Booleans are 0 and 1, a double counts
\* halves, and the payload of None is whatever the slot held before.
Value == [type : ValueTypes, v : Int]

Integer(n) == [type |-> "Integer", v |-> n]
Double(d)  == [type |-> "Double", v |-> d]
Boolean(b) == [type |-> "Boolean", v |-> IF b THEN 1 ELSE 0]

Ints == (-IntLimit)..(IntLimit - 1)

ASSUME ModulesAssumption == \A m \in Modules : IsModule(m)

VARIABLES
  module,     \* the module being run (it never changes)
  symbols,    \* module_->symboltable(): types and values at run time
  slots,      \* stack_.stack_
  stackTop,   \* stack_.stackTop_
  frames,     \* frameStack_.frameStack_
  frameTop,   \* frameStack_.topIndex_
  code, ip,   \* the innermost run(): its code and its instruction counter
  callers,    \* the run() calls suspended in callUserFunction, oldest first
  status      \* running, or how the machine stopped

stack == <<slots, stackTop>>
frameStack == <<frames, frameTop>>
control == <<code, ip, callers>>
vars == <<module, symbols, stack, frameStack, control, status>>

\* halted: run() returned.     error: a std::runtime_error was thrown.
\* overrun: an access at or above stack_.end().    trap: integer division by 0.
\* wild: an access below the stack, outside a code vector or a symbol table.
Statuses == {"running", "halted", "error", "overrun", "trap", "wild"}

SlotIndices == 0..(StackSize - 1)
FrameIndices == 0..(FrameLimit - 1)
Byte == 0..(ByteMod - 1)
Frame == [funcIndex : Int, bsp : Int, nArgs : Byte, nlocals : Byte]

Init ==
  /\ module \in Modules
  /\ symbols = module.symbols
  /\ slots = [i \in SlotIndices |-> [type |-> "None", v |-> 0]]
  /\ stackTop = -1
  /\ frames = [i \in FrameIndices |->
                 [funcIndex |-> -1, bsp |-> -1, nArgs |-> 0, nlocals |-> 0]]
  /\ frameTop = -1
  /\ code = Main
  /\ ip = 0
  /\ callers = <<>>
  /\ status = "running"

-----------------------------------------------------------------------------
(* What the operators compute.  Each yields the set of records the code may *)
(* push; the empty set means that it throws.  a is TOS1 and b is TOS.       *)

ArithmeticOps == {"Add", "Sub", "Mult", "Divide", "Power"}
EqualityOps == {"IsEq", "IsNotEq"}
OrderOps == {"IsLt", "IsLte", "IsGt", "IsGte"}
LogicOps == {"And", "Or"}

IsNumber(r) == r.type \in {"Integer", "Double"}
Halves(r) == IF r.type = "Double" THEN r.v ELSE 2 * r.v

Doubles == {Double(d) : d \in DoubleValues}

\* Signed overflow is undefined: any int may come out.
IntResult(n) == {Integer(k) : k \in IF n \in Ints THEN {n} ELSE Ints}

\* Integer division truncates towards zero.
Quotient(x, y) ==
  LET Abs(z) == IF z < 0 THEN -z ELSE z
      q == Abs(x) \div Abs(y)
  IN  IF (x < 0) = (y < 0) THEN q ELSE -q

\* The divisions of two ints that the hardware refuses.
Traps(op, a, b) ==
  /\ op = "Divide" /\ a.type = "Integer" /\ b.type = "Integer"
  /\ b.v = 0 \/ (b.v = -1 /\ -a.v \notin Ints)

IntArithmetic(op, x, y) ==
  CASE op = "Add"    -> IntResult(x + y)
    [] op = "Sub"    -> IntResult(x - y)
    [] op = "Mult"   -> IntResult(x * y)
    [] op = "Divide" -> IntResult(Quotient(x, y))
    [] op = "Power"  -> Doubles

Arithmetic(op, a, b) ==
  IF ~(IsNumber(a) /\ IsNumber(b)) THEN {}
  ELSE IF a.type = "Integer" /\ b.type = "Integer"
       THEN IntArithmetic(op, a.v, b.v)
       ELSE Doubles

Order(op, a, b) ==
  LET x == Halves(a)
      y == Halves(b)
      holds == CASE op = "IsLt"  -> x < y
                 [] op = "IsLte" -> x <= y
                 [] op = "IsGt"  -> x > y
                 [] op = "IsGte" -> x >= y
  IN  IF IsNumber(a) /\ IsNumber(b) THEN {Boolean(holds)} ELSE {}

\* With a Double on top of an Integer, isEq reads the int of the one and the
\* double of the other: members of the unions that were not the last written.
ReadsWrongMember(a, b) == b.type = "Double" /\ a.type = "Integer"

Equal(a, b) ==
  IF a.type = "Boolean" /\ b.type = "Boolean" THEN {a.v = b.v}
  ELSE IF ~(IsNumber(a) /\ IsNumber(b)) THEN {}
  ELSE IF ReadsWrongMember(a, b) THEN BOOLEAN
  ELSE {Halves(a) = Halves(b)}

Equality(op, a, b) ==
  {Boolean(IF op = "IsEq" THEN e ELSE ~e) : e \in Equal(a, b)}

Logic(op, a, b) ==
  IF a.type = "Boolean" /\ b.type = "Boolean"
  THEN {Boolean(IF op = "And" THEN a.v = 1 /\ b.v = 1 ELSE a.v = 1 \/ b.v = 1)}
  ELSE {}

BinaryResults(op, a, b) ==
  CASE op \in ArithmeticOps -> Arithmetic(op, a, b)
    [] op \in EqualityOps   -> Equality(op, a, b)
    [] op \in OrderOps      -> Order(op, a, b)
    [] op \in LogicOps      -> Logic(op, a, b)

UnaryResults(op, r) ==
  CASE op = "Umi" /\ r.type = "Integer" -> IntResult(-r.v)
    [] op = "Umi" /\ r.type = "Double"  -> Doubles
    [] op = "Not" /\ r.type = "Boolean" -> {Boolean(r.v = 0)}
    [] OTHER -> {}

\* Reads of a record's union that do not look at its tag.
BooleanReads(r) == IF r.type = "Boolean" THEN {r.v = 1} ELSE BOOLEAN
IntegerReads(r) == IF r.type = "Integer" THEN {r.v} ELSE Ints

-----------------------------------------------------------------------------
(* The fetch-execute loop of run().                                        *)

Running == status = "running"

\* The vector of a TProgram grows by AllocBy records, Nop until written.
Allocated(n) == IF n % AllocBy = 0 THEN n ELSE (n + AllocBy) - (n % AllocBy)

CodeSize == Len(module.code[code])
InCode == ip \in 0..(Allocated(CodeSize) - 1)
Fetched == IF ip < CodeSize THEN module.code[code][ip + 1] ELSE Nop

Executes(ops) == Running /\ InCode /\ Fetched.op \in ops
Arg == Fetched.arg

InFrame == frameTop >= 0
CurrentFrame == frames[frameTop]
\* Mutant: the locals grow downwards from the base.
LocalSlotDownwards(index) == CurrentFrame.bsp - index
LocalSlot(index) == CurrentFrame.bsp + index

\* Where the record returned by the current function goes: below its locals,
\* which are given back as the frame counted them.
\* Mutant: only the arguments are given back.
ResultSlotAboveLocals == stackTop - CurrentFrame.nArgs
ResultSlot == stackTop - CurrentFrame.nlocals

\* Loading a symbol with a value pushes it; anything else throws first.
HasValue(s) == s.type \in ValueTypes
Loads == HasValue(symbols[Arg])

\* The slots the instruction reads or writes.  PushNone touches none.
Touched ==
  CASE Fetched.op \in BinaryOps -> {stackTop - 1, stackTop}
    [] Fetched.op \in UnaryOps \cup {"JmpIfFalse", "Store", "Call"} -> {stackTop}
    [] Fetched.op \in ConstOps -> {stackTop + 1}
    [] Fetched.op = "Load" /\ Loads -> {stackTop + 1}
    [] Fetched.op = "LoadLocal" /\ InFrame -> {LocalSlot(Arg), stackTop + 1}
    [] Fetched.op = "StoreLocal" /\ InFrame -> {LocalSlot(Arg), stackTop}
    [] Fetched.op = "Return" -> {stackTop} \cup (IF InFrame THEN {ResultSlot} ELSE {})
    [] OTHER -> {}

Step(ops) == Executes(ops) /\ Touched \subseteq SlotIndices

\* Control flow of one step.  An exception leaves every active run().
Goto(target) == ip' = target /\ UNCHANGED <<code, callers, status>>
Advance == Goto(ip + 1)
Throw == status' = "error" /\ UNCHANGED control

\* Pops n records and pushes r.
PopPush(n, r) ==
  /\ slots' = [slots EXCEPT ![stackTop - n + 1] = r]
  /\ stackTop' = stackTop - n + 1

Pop(n) == stackTop' = stackTop - n /\ UNCHANGED slots

\* An instruction that pops n records and pushes one of results, or throws.
Compute(n, results) ==
  \/ \E r \in results : PopPush(n, r) /\ Advance
  \/ results = {} /\ Pop(n) /\ Throw

NopOp ==
  /\ Step({"Nop"})
  /\ Advance
  /\ UNCHANGED <<module, symbols, stack, frameStack>>

PushConstant ==
  /\ Step(ConstOps)
  /\ PopPush(0, CASE Fetched.op = "Pushi" -> Integer(Arg)
                  [] Fetched.op = "Pushb" -> Boolean(Arg # 0)
                  [] Fetched.op = "Pushd" -> Double(module.constants[Arg]))
  /\ Advance
  /\ UNCHANGED <<module, symbols, frameStack>>

\* TMachineStack::push() makes room for a record and leaves it as it is.
PushNone ==
  /\ Step({"PushNone"})
  /\ stackTop' = stackTop + 1
  /\ Advance
  /\ UNCHANGED <<module, symbols, slots, frameStack>>

BinaryOp ==
  /\ Step(BinaryOps)
  /\ LET a == slots[stackTop - 1]
         b == slots[stackTop]
     IN  IF Traps(Fetched.op, a, b)
         THEN Pop(2) /\ status' = "trap" /\ UNCHANGED control
         ELSE Compute(2, BinaryResults(Fetched.op, a, b))
  /\ UNCHANGED <<module, symbols, frameStack>>

UnaryOp ==
  /\ Step(UnaryOps)
  /\ Compute(1, UnaryResults(Fetched.op, slots[stackTop]))
  /\ UNCHANGED <<module, symbols, frameStack>>

LoadSymbol ==
  /\ Step({"Load"})
  /\ IF Loads THEN PopPush(0, symbols[Arg]) /\ Advance
              ELSE Throw /\ UNCHANGED stack
  /\ UNCHANGED <<module, symbols, frameStack>>

\* Storing None pops it and leaves the symbol with its old value.
\* Mutant: every record is stored.
AlwaysStores(r) == TRUE
Stores(r) == r.type # "None"
StoreSymbol ==
  /\ Step({"Store"})
  /\ Pop(1)
  /\ LET r == slots[stackTop]
     IN  IF ~Stores(r) THEN Advance /\ UNCHANGED symbols
         ELSE IF Arg \notin DOMAIN symbols THEN Throw /\ UNCHANGED symbols
         ELSE Advance /\ symbols' = [symbols EXCEPT ![Arg] = r]
  /\ UNCHANGED <<module, frameStack>>

LoadLocalSymbol ==
  /\ Step({"LoadLocal"})
  /\ IF InFrame THEN PopPush(0, slots[LocalSlot(Arg)]) /\ Advance
                ELSE Throw /\ UNCHANGED stack
  /\ UNCHANGED <<module, symbols, frameStack>>

StoreLocalSymbol ==
  /\ Step({"StoreLocal"})
  /\ IF ~InFrame THEN Throw /\ UNCHANGED stack
     ELSE IF slots[stackTop].type = "None" THEN Pop(1) /\ Throw
     ELSE /\ slots' = [slots EXCEPT ![LocalSlot(Arg)] = slots[stackTop]]
          /\ stackTop' = stackTop - 1
          /\ Advance
  /\ UNCHANGED <<module, symbols, frameStack>>

\* A jump is relative to the instruction that makes it: the loop adds the
\* operand less one, and then the one of every instruction.
\* Mutant: the increment of the loop is not taken off.
JumpTargetPlusOne == ip + Arg + 1
JumpTarget == ip + Arg

Jump ==
  /\ Step({"Jmp"})
  /\ Goto(JumpTarget)
  /\ UNCHANGED <<module, symbols, stack, frameStack>>

\* The popped record is read as a bool whatever its type.
JumpIfFalse ==
  /\ Step({"JmpIfFalse"})
  /\ Pop(1)
  /\ \E taken \in BooleanReads(slots[stackTop]) :
       IF taken THEN Advance ELSE Goto(JumpTarget)
  /\ UNCHANGED <<module, symbols, frameStack>>

UnsupportedOp ==
  /\ Step(UnsupportedOps)
  /\ Throw
  /\ UNCHANGED <<module, symbols, stack, frameStack>>

-----------------------------------------------------------------------------
(* Calls and returns.                                                      *)

\* Mutant: the base is one slot too low.
FrameBaseBelow(f, top) == top - module.nargs[f]

\* The frame of a call to f whose last argument is in slot top.  The counts
\* are kept in bytes.
FrameBase(f, top) == top - module.nargs[f] + 1
CountedArgs(f) == module.nargs[f] % ByteMod
CountedLocals(f) == module.nlocals[f] % ByteMod
NewFrame(f, top) ==
  [funcIndex |-> f, bsp |-> FrameBase(f, top),
   nArgs |-> CountedArgs(f), nlocals |-> CountedLocals(f)]

\* Slots set aside for the locals that are not arguments; they are not cleared.
\* Mutant: the arguments are set aside a second time.
ReservedTwice(f) == module.nlocals[f]
Reserved(f) == module.nlocals[f] - module.nargs[f]

\* TFrameStack::top() refuses an index past the array.
FrameExists(top) == top < FrameLimit

EnterFunction(f) ==
  /\ frameTop' = frameTop + 1
  /\ IF FrameExists(frameTop + 1)
     THEN /\ frames' = [frames EXCEPT ![frameTop + 1] = NewFrame(f, stackTop - 1)]
          /\ stackTop' = stackTop - 1 + Reserved(f)
          /\ callers' = Append(callers, [code |-> code, ip |-> ip])
          /\ code' = f
          /\ ip' = 0
          /\ UNCHANGED <<slots, status>>
     ELSE Pop(1) /\ Throw /\ UNCHANGED frames

\* A call of a symbol that is not a function pops its index and does nothing.
CallUserFunction ==
  /\ Step({"Call"})
  /\ \E index \in IntegerReads(slots[stackTop]) :
       IF index \notin DOMAIN symbols
       THEN Pop(1) /\ status' = "wild" /\ UNCHANGED <<control, frameStack>>
       ELSE IF symbols[index].type = "UserFunc" THEN EnterFunction(index)
       ELSE Pop(1) /\ Advance /\ UNCHANGED frameStack
  /\ UNCHANGED <<module, symbols>>

\* Mutant: the caller goes on at the instruction that made the call.
LeaveRunAtCall ==
  IF callers = <<>>
  THEN status' = "halted" /\ UNCHANGED control
  ELSE /\ code' = callers[Len(callers)].code
       /\ ip' = callers[Len(callers)].ip
       /\ callers' = SubSeq(callers, 1, Len(callers) - 1)
       /\ UNCHANGED status
\* The end of a run(): its caller goes on after the instruction that made the
\* call, and runModule returns when there is none.
LeaveRun ==
  IF callers = <<>>
  THEN status' = "halted" /\ UNCHANGED control
  ELSE LET caller == callers[Len(callers)]
       IN  /\ code' = caller.code
           /\ ip' = caller.ip + 1
           /\ callers' = SubSeq(callers, 1, Len(callers) - 1)
           /\ UNCHANGED status

\* Pushing a record of type None copies the type and not the payload.
Pushed(slot, value) ==
  IF value.type = "None" THEN [slot EXCEPT !.type = "None"] ELSE value

ReturnOp ==
  /\ Step({"Return"})
  /\ IF InFrame
     THEN /\ slots' = [slots EXCEPT ![ResultSlot] = Pushed(@, slots[stackTop])]
          /\ stackTop' = ResultSlot
          /\ frameTop' = frameTop - 1
          /\ LeaveRun
     ELSE Pop(1) /\ Throw /\ UNCHANGED frameTop
  /\ UNCHANGED <<module, symbols, frames>>

Halt ==
  /\ Step({"Halt"})
  /\ LeaveRun
  /\ UNCHANGED <<module, symbols, stack, frameStack>>

-----------------------------------------------------------------------------
(* Accesses the code does not check.  What follows one is undefined, and the *)
(* machine is stopped there.                                                 *)

Stray(kind) == status' = kind /\ UNCHANGED <<module, symbols, stack, frameStack, control>>

\* run() reads an instruction outside the vector of the code.
RunOffCode ==
  /\ Running
  /\ ~InCode
  /\ Stray("wild")

\* An instruction uses a slot outside the array of the stack.
AccessOutside ==
  /\ Executes(OpCodes)
  /\ ~(Touched \subseteq SlotIndices)
  /\ Stray(IF \E i \in Touched : i < 0 THEN "wild" ELSE "overrun")

Stopped == ~Running /\ UNCHANGED vars

Next ==
  \/ NopOp \/ PushConstant \/ PushNone \/ BinaryOp \/ UnaryOp
  \/ LoadSymbol \/ StoreSymbol \/ LoadLocalSymbol \/ StoreLocalSymbol
  \/ Jump \/ JumpIfFalse \/ UnsupportedOp
  \/ CallUserFunction \/ ReturnOp \/ Halt
  \/ RunOffCode \/ AccessOutside
  \/ Stopped

Spec == Init /\ [][Next]_vars

\* run() is a loop in one thread: while the machine runs it takes steps.
FairSpec == Spec /\ WF_vars(Next)
=============================================================================
