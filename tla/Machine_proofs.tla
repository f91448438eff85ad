--------------------------- MODULE Machine_proofs ---------------------------
(***************************************************************************)
(* Proofs about the virtual machine, for every module, all sizes of the    *)
(* stack and any number of frames: its state is well typed, a module whose *)
(* code keeps the stack discipline stays within its frames, and running it *)
(* the machine implements Activations: with its frames in one array it     *)
(* does what calls and returns between activations that share nothing do.  *)
(***************************************************************************)
EXTENDS CallRefinement, SequenceTheorems, TLAPS

\* A symbol never becomes a function: only records are stored in symbols.
FunctionsDeclared ==
  \A i \in DOMAIN symbols : symbols[i].type = "UserFunc" => i \in FunctionIds(module)

TypeInv == TypeOK /\ FunctionsDeclared

-----------------------------------------------------------------------------
(* The machine's operators.                                                *)

\* The vector of a code has room for all its instructions.
LEMMA AllocatedRoom ==
  ASSUME NEW n \in Nat
  PROVE  Allocated(n) \in Nat /\ n <= Allocated(n)
<1>1. n % AllocBy \in 0..(AllocBy - 1)
  BY SizesAssumption
<1> QED
  BY <1>1, SizesAssumption DEF Allocated

\* What run() fetches is an instruction, whose operand indexes the table it
\* was taken from.
LEMMA FetchedTyped ==
  ASSUME TypeOK, InCode
  PROVE  /\ Fetched \in Instruction
         /\ Fetched.op = "Load" => Arg \in DOMAIN module.symbols
         /\ Fetched.op = "Pushd" => Arg \in DOMAIN module.constants
         /\ ip < CodeSize \/ Fetched = Nop
<1> DEFINE c == module.code[code]
<1>1. IsModule(module)
  BY ModulesAssumption DEF TypeOK
<1>2. c \in Seq(Instruction)
  BY <1>1 DEF TypeOK, IsModule
<1>3. CASE ip < CodeSize
  <2>1. ip + 1 \in 1..Len(c)
    BY <1>2, <1>3 DEF InCode, CodeSize, TypeOK
  <2>2. Fetched = c[ip + 1]
    BY <1>3 DEF Fetched
  <2> QED
    BY <1>1, <1>2, <1>3, <2>1, <2>2 DEF IsModule, TypeOK, Arg
<1>4. CASE ~(ip < CodeSize)
  <2>1. Fetched = Nop
    BY <1>4 DEF Fetched
  <2> QED
    BY <2>1 DEF Nop, Instruction, OpCodes
<1> QED
  BY <1>3, <1>4

\* The three ways to make a record make one of the type Value.
LEMMA ConstructorsTyped ==
  /\ \A n \in Int : Integer(n) \in Value
  /\ \A d \in Int : Double(d) \in Value
  /\ \A b \in BOOLEAN : Boolean(b) \in Value
BY DEF Integer, Double, Boolean, Value, ValueTypes

\* Whatever int comes out of an overflow, it is in a record.
LEMMA IntResultTyped == \A n : IntResult(n) \subseteq Value
<1>1. Ints \subseteq Int
  BY ValuesAssumption DEF Ints
<1>2. ASSUME NEW n, NEW k \in IF n \in Ints THEN {n} ELSE Ints
      PROVE  k \in Int
  BY <1>1, <1>2
<1> QED
  BY <1>2, ConstructorsTyped DEF IntResult

\* The doubles that arithmetic produces are records.
LEMMA DoublesTyped == Doubles \subseteq Value
BY ValuesAssumption, ConstructorsTyped DEF Doubles

\* Whatever the records it is given, an operator pushes a record.
LEMMA ResultsTyped ==
  /\ \A op \in BinaryOps, a \in Value, b \in Value : BinaryResults(op, a, b) \subseteq Value
  /\ \A op \in UnaryOps, r \in Value : UnaryResults(op, r) \subseteq Value
<1>1. ASSUME NEW op \in BinaryOps, NEW a \in Value, NEW b \in Value
      PROVE  BinaryResults(op, a, b) \subseteq Value
  <2>1. CASE op \in ArithmeticOps
    <3>1. \A x, y : IntArithmetic(op, x, y) \subseteq Value
      BY <2>1, IntResultTyped, DoublesTyped DEF IntArithmetic, ArithmeticOps
    <3>2. Arithmetic(op, a, b) \subseteq Value
      BY <3>1, DoublesTyped DEF Arithmetic
    <3> QED
      BY <2>1, <3>2 DEF BinaryResults, ArithmeticOps, EqualityOps, OrderOps, LogicOps
  <2>2. CASE op \in EqualityOps
    <3>1. Equal(a, b) \subseteq BOOLEAN
      BY DEF Equal
    <3>2. Equality(op, a, b) \subseteq Value
      BY <3>1, ConstructorsTyped DEF Equality
    <3> QED
      BY <2>2, <3>2 DEF BinaryResults, ArithmeticOps, EqualityOps, OrderOps, LogicOps
  <2>3. CASE op \in OrderOps
    <3>1. Order(op, a, b) \subseteq Value
      <4>1. \A x, y : (x < y) \in BOOLEAN /\ (x <= y) \in BOOLEAN
                      /\ (x > y) \in BOOLEAN /\ (x >= y) \in BOOLEAN
        OBVIOUS
      <4> QED
        BY <2>3, <4>1, ConstructorsTyped DEF Order, OrderOps
    <3> QED
      BY <2>3, <3>1 DEF BinaryResults, ArithmeticOps, EqualityOps, OrderOps, LogicOps
  <2>4. CASE op \in LogicOps
    <3>1. Logic(op, a, b) \subseteq Value
      BY ConstructorsTyped DEF Logic
    <3> QED
      BY <2>4, <3>1 DEF BinaryResults, ArithmeticOps, EqualityOps, OrderOps, LogicOps
  <2> QED
    BY <2>1, <2>2, <2>3, <2>4
       DEF BinaryOps, ArithmeticOps, EqualityOps, OrderOps, LogicOps
<1>2. ASSUME NEW op \in UnaryOps, NEW r \in Value
      PROVE  UnaryResults(op, r) \subseteq Value
  BY <1>2, IntResultTyped, DoublesTyped, ConstructorsTyped DEF UnaryResults, UnaryOps
<1> QED
  BY <1>1, <1>2

\* The slots that each instruction uses.
LEMMA TouchedSlots ==
  /\ Fetched.op \in BinaryOps => Touched = {stackTop - 1, stackTop}
  /\ Fetched.op \in UnaryOps \cup {"JmpIfFalse", "Store", "Call"} => Touched = {stackTop}
  /\ Fetched.op \in ConstOps => Touched = {stackTop + 1}
  /\ Fetched.op = "Load" /\ Loads => Touched = {stackTop + 1}
  /\ Fetched.op = "LoadLocal" /\ InFrame => Touched = {LocalSlot(Arg), stackTop + 1}
  /\ Fetched.op = "StoreLocal" /\ InFrame => Touched = {LocalSlot(Arg), stackTop}
  /\ Fetched.op = "Return" /\ InFrame => Touched = {stackTop, ResultSlot}
  /\ Fetched.op = "Return" /\ ~InFrame => Touched = {stackTop}
<1> USE DEF BinaryOps, UnaryOps, ConstOps
<1>1. Fetched.op \in BinaryOps => Touched = {stackTop - 1, stackTop}
  BY DEF Touched
<1>2. Fetched.op \in UnaryOps \cup {"JmpIfFalse", "Store", "Call"} => Touched = {stackTop}
  BY DEF Touched
<1>3. Fetched.op \in ConstOps => Touched = {stackTop + 1}
  BY DEF Touched
<1>4. Fetched.op = "Load" /\ Loads => Touched = {stackTop + 1}
  BY DEF Touched
<1>5. Fetched.op = "LoadLocal" /\ InFrame => Touched = {LocalSlot(Arg), stackTop + 1}
  BY DEF Touched
<1>6. Fetched.op = "StoreLocal" /\ InFrame => Touched = {LocalSlot(Arg), stackTop}
  BY DEF Touched
<1>7. Fetched.op = "Return" /\ InFrame => Touched = {stackTop, ResultSlot}
  BY DEF Touched
<1>8. Fetched.op = "Return" /\ ~InFrame => Touched = {stackTop}
  BY DEF Touched
<1> QED
  BY <1>1, <1>2, <1>3, <1>4, <1>5, <1>6, <1>7, <1>8

-----------------------------------------------------------------------------
(* Type correctness.                                                       *)

\* What a step that pushes a record, moves on or throws keeps of TypeOK.
StackTyped == slots \in [SlotIndices -> Value] /\ stackTop \in Int
ControlTyped ==
  /\ code \in CodeIds(module)
  /\ ip \in Int
  /\ callers \in Seq([code : CodeIds(module), ip : Int])
  /\ status \in Statuses

\* Popping n records and pushing one keeps the array an array of records.
LEMMA PushTyped ==
  ASSUME StackTyped, NEW n \in 0..2, NEW r \in Value, PopPush(n, r)
  PROVE  StackTyped'
<1>1. stackTop' \in Int
  BY DEF StackTyped, PopPush
<1>2. slots' \in [SlotIndices -> Value]
  BY DEF StackTyped, PopPush
<1> QED
  BY <1>1, <1>2 DEF StackTyped

\* So does an operator whose results are records, or that throws.
LEMMA ComputeTyped ==
  ASSUME StackTyped, ControlTyped, NEW n \in 0..2, NEW R \in SUBSET Value, Compute(n, R),
         module' = module
  PROVE  StackTyped' /\ ControlTyped'
<1>1. CASE \E r \in R : PopPush(n, r) /\ Advance
  <2>1. StackTyped'
    BY <1>1, PushTyped
  <2>2. ControlTyped'
    BY <1>1 DEF ControlTyped, Advance, Goto
  <2> QED
    BY <2>1, <2>2
<1>2. CASE R = {} /\ Pop(n) /\ Throw
  BY <1>2 DEF StackTyped, ControlTyped, Pop, Throw, control, Statuses
<1> QED
  BY <1>1, <1>2 DEF Compute

\* The callers below the last one.
LEMMA SequenceEnds ==
  ASSUME NEW C, NEW s \in Seq(C), NEW x \in C
  PROVE  /\ Append(s, x) \in Seq(C)
         /\ s # <<>> => s[Len(s)] \in C /\ SubSeq(s, 1, Len(s) - 1) \in Seq(C)
<1>1. Append(s, x) \in Seq(C)
  BY AppendProperties
<1>2. ASSUME s # <<>> PROVE s[Len(s)] \in C /\ SubSeq(s, 1, Len(s) - 1) \in Seq(C)
  <2>1. Len(s) \in Nat \ {0} /\ Len(s) \in 1..Len(s)
    BY <1>2, EmptySeq, LenProperties
  <2>2. s[Len(s)] \in C
    BY <2>1, ElementOfSeq
  <2>3. \A i \in 1..(Len(s) - 1) : s[i] \in C
    BY <2>1, ElementOfSeq
  <2>4. SubSeq(s, 1, Len(s) - 1) \in Seq(C)
    BY <2>1, SubSeqProperties
  <2> QED
    BY <2>2, <2>4
<1> QED
  BY <1>1, <1>2

\* A machine that was just made is well typed.
LEMMA InitTyped == Init => TypeInv
<1> SUFFICES ASSUME Init PROVE TypeInv
  OBVIOUS
<1>1. IsModule(module)
  BY ModulesAssumption DEF Init
<1>2. symbols \in [DOMAIN module.symbols -> Symbol]
  BY <1>1 DEF Init, IsModule
<1>3. slots \in [SlotIndices -> Value]
  BY DEF Init, Value, ValueTypes
<1>4. frames \in [FrameIndices -> Frame]
  BY SizesAssumption DEF Init, Frame, Byte
<1>5. code \in CodeIds(module) /\ ip \in Int /\ status \in Statuses
  BY DEF Init, CodeIds, Main, Statuses
<1>6. stackTop \in Int /\ frameTop \in Int
  BY DEF Init
<1>7. FunctionsDeclared
  BY DEF Init, FunctionsDeclared, FunctionIds
<1> QED
  BY <1>2, <1>3, <1>4, <1>5, <1>6, <1>7 DEF Init, TypeInv, TypeOK

\* One step of the machine.
LEMMA NextTyped == TypeInv /\ [Next]_vars => TypeInv'
<1> SUFFICES ASSUME TypeInv, [Next]_vars PROVE TypeInv'
  OBVIOUS
<1> USE DEF TypeInv
<1>a. IsModule(module) /\ DOMAIN symbols = DOMAIN module.symbols
  BY ModulesAssumption DEF TypeOK
<1>b. StackTyped /\ ControlTyped
  BY DEF TypeOK, StackTyped, ControlTyped
<1>c. ASSUME NEW ops, Step(ops)
      PROVE  InCode /\ Fetched.op \in ops /\ Fetched \in Instruction /\ Arg \in Int
                    /\ Touched \subseteq SlotIndices /\ status = "running"
  BY <1>c, FetchedTyped DEF Step, Executes, Running, Instruction, Arg
<1>d. ASSUME module' = module, symbols' = symbols, frames' = frames, frameTop' = frameTop,
             StackTyped', ControlTyped'
      PROVE  TypeInv'
  BY <1>d DEF TypeOK, StackTyped, ControlTyped, FunctionsDeclared, FunctionIds
<1>1. CASE NopOp
  BY <1>1, <1>b, <1>d DEF NopOp, Advance, Goto, StackTyped, ControlTyped, stack, frameStack
<1>2. CASE PushConstant
  <2> DEFINE r == CASE Fetched.op = "Pushi" -> Integer(Arg)
                    [] Fetched.op = "Pushb" -> Boolean(Arg # 0)
                    [] Fetched.op = "Pushd" -> Double(module.constants[Arg])
  <2>1. Fetched.op \in ConstOps /\ InCode /\ Arg \in Int
    BY <1>2, <1>c DEF PushConstant
  <2>2. Fetched.op = "Pushd" => module.constants[Arg] \in Int
    BY <2>1, <1>a, FetchedTyped DEF IsModule
  <2>3. (Arg # 0) \in BOOLEAN
    OBVIOUS
  <2>4. r \in Value
    BY <2>1, <2>2, <2>3, ConstructorsTyped DEF ConstOps
  <2>5. PopPush(0, r) /\ Advance /\ UNCHANGED <<module, symbols, frameStack>>
    BY <1>2 DEF PushConstant
  <2>6. StackTyped'
    BY <1>b, <2>4, <2>5, 0 \in 0..2, PushTyped
  <2>7. ControlTyped'
    BY <1>b, <2>5 DEF Advance, Goto, ControlTyped
  <2> QED
    BY <2>5, <2>6, <2>7, <1>d DEF frameStack
<1>3. CASE PushNone
  BY <1>3, <1>b, <1>d DEF PushNone, Advance, Goto, StackTyped, ControlTyped, frameStack
<1>4. CASE BinaryOp
  <2> DEFINE a == slots[stackTop - 1]
             b == slots[stackTop]
  <2>1. Fetched.op \in BinaryOps /\ a \in Value /\ b \in Value
    BY <1>4, <1>b, <1>c, TouchedSlots DEF BinaryOp, StackTyped
  <2>2. CASE Traps(Fetched.op, a, b)
    <3>1. Pop(2) /\ status' = "trap" /\ UNCHANGED control /\ UNCHANGED <<module, symbols, frameStack>>
      BY <1>4, <2>2 DEF BinaryOp
    <3> QED
      BY <3>1, <1>b, <1>d DEF Pop, control, frameStack, StackTyped, ControlTyped, Statuses
  <2>3. CASE ~Traps(Fetched.op, a, b)
    <3>1. Compute(2, BinaryResults(Fetched.op, a, b)) /\ UNCHANGED <<module, symbols, frameStack>>
      BY <1>4, <2>3 DEF BinaryOp
    <3>2. BinaryResults(Fetched.op, a, b) \in SUBSET Value
      BY <2>1, ResultsTyped
    <3> QED
      BY <3>1, <3>2, <1>b, <1>d, ComputeTyped DEF frameStack
  <2> QED
    BY <2>2, <2>3
<1>5. CASE UnaryOp
  <2> DEFINE R == UnaryResults(Fetched.op, slots[stackTop])
  <2>1. Fetched.op \in UnaryOps /\ slots[stackTop] \in Value
    BY <1>5, <1>b, <1>c, TouchedSlots DEF UnaryOp, StackTyped
  <2>2. Compute(1, R) /\ UNCHANGED <<module, symbols, frameStack>>
    BY <1>5 DEF UnaryOp
  <2>3. R \in SUBSET Value
    BY <2>1, ResultsTyped
  <2> QED
    BY <2>2, <2>3, <1>b, <1>d, ComputeTyped DEF frameStack
<1>6. CASE LoadSymbol
  <2>1. CASE Loads
    <3>1. Arg \in DOMAIN module.symbols
      BY <1>6, <1>c, FetchedTyped DEF LoadSymbol
    <3>2. symbols[Arg] \in Value
      BY <2>1, <3>1 DEF TypeOK, Loads, HasValue, Symbol, Value
    <3>3. PopPush(0, symbols[Arg]) /\ Advance /\ UNCHANGED <<module, symbols, frameStack>>
      BY <1>6, <2>1 DEF LoadSymbol
    <3>4. StackTyped' /\ ControlTyped'
      BY <1>b, <3>2, <3>3, PushTyped DEF Advance, Goto, ControlTyped
    <3> QED
      BY <3>3, <3>4, <1>d DEF frameStack
  <2>2. CASE ~Loads
    BY <1>6, <2>2, <1>b, <1>d
       DEF LoadSymbol, Throw, stack, frameStack, control, StackTyped, ControlTyped, Statuses
  <2> QED
    BY <2>1, <2>2
<1>7. CASE StoreSymbol
  <2> DEFINE r == slots[stackTop]
  <2>1. r \in Value
    BY <1>7, <1>b, <1>c, TouchedSlots DEF StoreSymbol, StackTyped
  <2>2. StackTyped' /\ ControlTyped' /\ UNCHANGED <<module, frameStack>>
    BY <1>7, <1>b DEF StoreSymbol, Pop, Advance, Goto, Throw, control, StackTyped, ControlTyped, Statuses
  <2>3. CASE symbols' = symbols
    BY <2>2, <2>3, <1>d DEF frameStack
  <2>4. CASE Stores(r) /\ Arg \in DOMAIN symbols /\ symbols' = [symbols EXCEPT ![Arg] = r]
    <3>1. r \in Symbol /\ r.type # "UserFunc"
      BY <2>1, <2>4 DEF Stores, Value, ValueTypes, Symbol, SymbolTypes
    <3>2. symbols' \in [DOMAIN module.symbols -> Symbol]
      BY <2>4, <3>1 DEF TypeOK
    <3>3. FunctionsDeclared'
      BY <2>2, <2>4, <3>1, <1>a DEF FunctionsDeclared, FunctionIds
    <3> QED
      BY <2>2, <3>2, <3>3 DEF TypeOK, StackTyped, ControlTyped, frameStack
  <2> QED
    BY <1>7, <2>3, <2>4 DEF StoreSymbol
<1>8. CASE LoadLocalSymbol
  <2>1. CASE InFrame
    <3>1. PopPush(0, slots[LocalSlot(Arg)]) /\ Advance /\ UNCHANGED <<module, symbols, frameStack>>
      BY <1>8, <2>1 DEF LoadLocalSymbol
    <3>2. slots[LocalSlot(Arg)] \in Value
      BY <1>8, <2>1, <1>b, <1>c, TouchedSlots DEF LoadLocalSymbol, StackTyped
    <3>3. StackTyped' /\ ControlTyped'
      BY <1>b, <3>1, <3>2, PushTyped DEF Advance, Goto, ControlTyped
    <3> QED
      BY <3>1, <3>3, <1>d DEF frameStack
  <2>2. CASE ~InFrame
    BY <1>8, <2>2, <1>b, <1>d
       DEF LoadLocalSymbol, Throw, stack, frameStack, control, StackTyped, ControlTyped, Statuses
  <2> QED
    BY <2>1, <2>2
<1>9. CASE StoreLocalSymbol
  <2>1. CASE InFrame
    <3>1. slots[stackTop] \in Value /\ LocalSlot(Arg) \in SlotIndices
      BY <1>9, <2>1, <1>b, <1>c, TouchedSlots DEF StoreLocalSymbol, StackTyped
    <3>2. StackTyped' /\ ControlTyped' /\ UNCHANGED <<module, symbols, frameStack>>
      BY <1>9, <2>1, <3>1, <1>b
         DEF StoreLocalSymbol, Pop, Throw, Advance, Goto, control, StackTyped, ControlTyped, Statuses
    <3> QED
      BY <3>2, <1>d DEF frameStack
  <2>2. CASE ~InFrame
    BY <1>9, <2>2, <1>b, <1>d
       DEF StoreLocalSymbol, Throw, stack, frameStack, control, StackTyped, ControlTyped, Statuses
  <2> QED
    BY <2>1, <2>2
<1>10. CASE Jump
  <2>1. JumpTarget \in Int
    BY <1>10, <1>b, <1>c DEF Jump, JumpTarget, ControlTyped
  <2> QED
    BY <1>10, <2>1, <1>b, <1>d DEF Jump, Goto, StackTyped, ControlTyped, stack, frameStack
<1>11. CASE JumpIfFalse
  <2>1. JumpTarget \in Int
    BY <1>11, <1>b, <1>c DEF JumpIfFalse, JumpTarget, ControlTyped
  <2>2. StackTyped' /\ ControlTyped'
    BY <1>11, <2>1, <1>b DEF JumpIfFalse, Pop, Advance, Goto, StackTyped, ControlTyped
  <2> QED
    BY <1>11, <2>2, <1>d DEF JumpIfFalse, frameStack
<1>12. CASE UnsupportedOp
  BY <1>12, <1>b, <1>d
     DEF UnsupportedOp, Throw, stack, frameStack, control, StackTyped, ControlTyped, Statuses
<1>13. CASE CallUserFunction
  <2>1. PICK f \in IntegerReads(slots[stackTop]) :
          IF f \notin DOMAIN symbols
          THEN Pop(1) /\ status' = "wild" /\ UNCHANGED <<control, frameStack>>
          ELSE IF symbols[f].type = "UserFunc" THEN EnterFunction(f)
          ELSE Pop(1) /\ Advance /\ UNCHANGED frameStack
    BY <1>13 DEF CallUserFunction
  <2>2. UNCHANGED <<module, symbols>>
    BY <1>13 DEF CallUserFunction
  <2>3. CASE f \in DOMAIN symbols /\ symbols[f].type = "UserFunc"
    <3>1. f \in FunctionIds(module) /\ f \in Int
      BY <2>3, <1>a DEF FunctionsDeclared, FunctionIds, IsModule
    <3>2. module.nargs[f] \in Nat /\ module.nlocals[f] \in Nat
      BY <3>1, <1>a DEF IsModule
    <3>3. EnterFunction(f)
      BY <2>1, <2>3
    <3>4. StackTyped'
      BY <3>2, <3>3, <1>b DEF EnterFunction, Reserved, Pop, StackTyped
    <3>5. CASE FrameExists(frameTop + 1)
      <4>1. NewFrame(f, stackTop - 1) \in Frame
        <5>1. CountedArgs(f) \in Byte /\ CountedLocals(f) \in Byte
          BY <3>2, SizesAssumption DEF CountedArgs, CountedLocals, Byte
        <5>2. FrameBase(f, stackTop - 1) \in Int
          BY <3>2, <1>b DEF FrameBase, StackTyped
        <5> QED
          BY <5>1, <5>2, <3>1 DEF NewFrame, Frame
      <4>2. frames' \in [FrameIndices -> Frame] /\ frameTop' \in Int
        BY <3>3, <3>5, <4>1 DEF EnterFunction, TypeOK
      <4>3. ControlTyped'
        <5> DEFINE C == [code : CodeIds(module), ip : Int]
                   x == [code |-> code, ip |-> ip]
        <5>1. x \in C /\ callers \in Seq(C)
          BY <1>b DEF ControlTyped
        <5>2. callers' = Append(callers, x) /\ code' = f /\ ip' = 0 /\ status' = status
          BY <3>3, <3>5 DEF EnterFunction
        <5> HIDE DEF C, x
        <5>3. callers' \in Seq(C)
          BY <5>1, <5>2, SequenceEnds
        <5>4. code' \in CodeIds(module) /\ ip' \in Int
          BY <5>2, <3>1 DEF CodeIds
        <5> QED
          BY <5>2, <5>3, <5>4, <2>2, <1>b DEF ControlTyped, C
      <4> QED
        BY <4>2, <4>3, <3>4, <2>2
           DEF TypeOK, StackTyped, ControlTyped, FunctionsDeclared, FunctionIds
    <3>6. CASE ~FrameExists(frameTop + 1)
      <4>1. ControlTyped' /\ frames' = frames /\ frameTop' \in Int
        BY <3>3, <3>6, <2>2, <1>b DEF EnterFunction, Throw, control, ControlTyped, Statuses, TypeOK
      <4> QED
        BY <4>1, <3>4, <2>2
           DEF TypeOK, StackTyped, ControlTyped, FunctionsDeclared, FunctionIds
    <3> QED
      BY <3>5, <3>6
  <2>4. CASE ~(f \in DOMAIN symbols /\ symbols[f].type = "UserFunc")
    <3>1. StackTyped' /\ ControlTyped' /\ UNCHANGED frameStack
      BY <2>1, <2>2, <2>4, <1>b
         DEF Pop, Advance, Goto, control, StackTyped, ControlTyped, Statuses
    <3> QED
      BY <3>1, <2>2, <1>d DEF frameStack
  <2> QED
    BY <2>3, <2>4
<1>14. ASSUME LeaveRun, module' = module
       PROVE  ControlTyped'
  <2>1. CASE callers = <<>>
    BY <1>14, <2>1, <1>b DEF LeaveRun, control, ControlTyped, Statuses
  <2>2. CASE callers # <<>>
    <3> DEFINE C == [code : CodeIds(module), ip : Int]
    <3>1. [code |-> code, ip |-> ip] \in C /\ callers \in Seq(C)
      BY <1>b DEF ControlTyped
    <3> HIDE DEF C
    <3>2. callers[Len(callers)] \in C /\ SubSeq(callers, 1, Len(callers) - 1) \in Seq(C)
      BY <2>2, <3>1, SequenceEnds
    <3>3. callers[Len(callers)].code \in CodeIds(module) /\ callers[Len(callers)].ip \in Int
      BY <3>2 DEF C
    <3>4. code' \in CodeIds(module) /\ ip' \in Int /\ status' = status
      BY <1>14, <2>2, <3>3 DEF LeaveRun
    <3>5. callers' \in Seq(C)
      BY <1>14, <2>2, <3>2 DEF LeaveRun
    <3> QED
      BY <1>14, <3>4, <3>5, <1>b DEF ControlTyped, C
  <2> QED
    BY <2>1, <2>2
<1>15. CASE ReturnOp
  <2>1. CASE InFrame
    <3>1. ResultSlot \in SlotIndices /\ slots[stackTop] \in Value
      BY <1>15, <2>1, <1>b, <1>c, TouchedSlots DEF ReturnOp, StackTyped
    <3>2. Pushed(slots[ResultSlot], slots[stackTop]) \in Value
      BY <3>1, <1>b DEF Pushed, StackTyped, Value, ValueTypes
    <3>3. StackTyped'
      BY <1>15, <2>1, <3>1, <3>2, <1>b DEF ReturnOp, StackTyped, SlotIndices
    <3>4. ControlTyped'
      BY <1>15, <2>1, <1>14 DEF ReturnOp
    <3> QED
      BY <1>15, <2>1, <3>3, <3>4
         DEF ReturnOp, TypeOK, StackTyped, ControlTyped, FunctionsDeclared, FunctionIds
  <2>2. CASE ~InFrame
    <3>1. StackTyped' /\ ControlTyped' /\ UNCHANGED <<module, symbols, frames, frameTop>>
      BY <1>15, <2>2, <1>b DEF ReturnOp, Pop, Throw, control, StackTyped, ControlTyped, Statuses
    <3> QED
      BY <3>1, <1>d
  <2> QED
    BY <2>1, <2>2
<1>16. CASE Halt
  <2>1. ControlTyped'
    BY <1>16, <1>14 DEF Halt
  <2> QED
    BY <1>16, <2>1, <1>b, <1>d DEF Halt, stack, frameStack, StackTyped
<1>17. CASE RunOffCode \/ AccessOutside
  <2>1. UNCHANGED <<module, symbols, stack, frameStack, control>> /\ status' \in {"wild", "overrun"}
    BY <1>17 DEF RunOffCode, AccessOutside, Stray
  <2> QED
    BY <2>1, <1>b, <1>d DEF stack, frameStack, control, StackTyped, ControlTyped, Statuses
<1>18. CASE UNCHANGED vars
  BY <1>18, <1>b, <1>d DEF vars, stack, frameStack, control, StackTyped, ControlTyped
<1> QED
  BY <1>1, <1>2, <1>3, <1>4, <1>5, <1>6, <1>7, <1>8, <1>9, <1>10, <1>11, <1>12,
     <1>13, <1>15, <1>16, <1>17, <1>18 DEF Next, Stopped

\* Type correctness of the machine, whatever module it runs.
THEOREM TypeCorrect == Spec => []TypeOK
<1>1. Spec => []TypeInv
  BY InitTyped, NextTyped, PTL DEF Spec
<1>2. TypeInv => TypeOK
  BY DEF TypeInv
<1> QED
  BY <1>1, <1>2, PTL


-----------------------------------------------------------------------------
(* What the discipline says of one instruction.                            *)

\* How the operands and the instruction counter change, by instruction.
LEMMA Effects ==
  ASSUME NEW m, NEW c, NEW i
  PROVE  /\ OpAt(m, c, i) \in BinaryOps =>
              Takes(m, c, i) = 2 /\ Gives(m, c, i) = 1 /\ Successors(m, c, i) = {i + 1}
         /\ OpAt(m, c, i) \in UnaryOps =>
              Takes(m, c, i) = 1 /\ Gives(m, c, i) = 1 /\ Successors(m, c, i) = {i + 1}
         /\ OpAt(m, c, i) \in ConstOps \cup {"PushNone", "Load", "LoadLocal"} =>
              Takes(m, c, i) = 0 /\ Gives(m, c, i) = 1 /\ Successors(m, c, i) = {i + 1}
         /\ OpAt(m, c, i) = "Nop" =>
              Takes(m, c, i) = 0 /\ Gives(m, c, i) = 0 /\ Successors(m, c, i) = {i + 1}
         /\ OpAt(m, c, i) \in {"Store", "StoreLocal"} =>
              Takes(m, c, i) = 1 /\ Gives(m, c, i) = 0 /\ Successors(m, c, i) = {i + 1}
         /\ OpAt(m, c, i) = "Jmp" =>
              /\ Takes(m, c, i) = 0 /\ Gives(m, c, i) = 0
              /\ Successors(m, c, i) = {i + InstructionAt(m, c, i).arg}
         /\ OpAt(m, c, i) = "JmpIfFalse" =>
              /\ Takes(m, c, i) = 1 /\ Gives(m, c, i) = 0
              /\ Successors(m, c, i) = {i + 1, i + InstructionAt(m, c, i).arg}
         /\ OpAt(m, c, i) = "Call" /\ CallsFunction(m, c, i) =>
              /\ Takes(m, c, i) = 1 + m.nargs[Callee(m, c, i)] /\ Gives(m, c, i) = 1
              /\ Successors(m, c, i) = {i + 1}
         /\ OpAt(m, c, i) = "Return" => Takes(m, c, i) = 1
<1> DEFINE op == OpAt(m, c, i)
<1> USE DEF BinaryOps, UnaryOps, ConstOps, UnsupportedOps, Takes, Gives, Successors
<1>1. op \in BinaryOps =>
        Takes(m, c, i) = 2 /\ Gives(m, c, i) = 1 /\ Successors(m, c, i) = {i + 1}
  OBVIOUS
<1>2. op \in UnaryOps =>
        Takes(m, c, i) = 1 /\ Gives(m, c, i) = 1 /\ Successors(m, c, i) = {i + 1}
  OBVIOUS
<1>3. op \in ConstOps \cup {"PushNone", "Load", "LoadLocal"} =>
        Takes(m, c, i) = 0 /\ Gives(m, c, i) = 1 /\ Successors(m, c, i) = {i + 1}
  OBVIOUS
<1>4. op = "Nop" =>
        Takes(m, c, i) = 0 /\ Gives(m, c, i) = 0 /\ Successors(m, c, i) = {i + 1}
  OBVIOUS
<1>5. op \in {"Store", "StoreLocal"} =>
        Takes(m, c, i) = 1 /\ Gives(m, c, i) = 0 /\ Successors(m, c, i) = {i + 1}
  OBVIOUS
<1>6. op = "Jmp" =>
        /\ Takes(m, c, i) = 0 /\ Gives(m, c, i) = 0
        /\ Successors(m, c, i) = {i + InstructionAt(m, c, i).arg}
  OBVIOUS
<1>7. op = "JmpIfFalse" =>
        /\ Takes(m, c, i) = 1 /\ Gives(m, c, i) = 0
        /\ Successors(m, c, i) = {i + 1, i + InstructionAt(m, c, i).arg}
  OBVIOUS
<1>8. op = "Call" /\ CallsFunction(m, c, i) =>
        /\ Takes(m, c, i) = 1 + m.nargs[Callee(m, c, i)] /\ Gives(m, c, i) = 1
        /\ Successors(m, c, i) = {i + 1}
  OBVIOUS
<1>9. op = "Return" => Takes(m, c, i) = 1
  OBVIOUS
<1> HIDE DEF BinaryOps, UnaryOps, ConstOps, UnsupportedOps, Takes, Gives, Successors
<1> QED
  BY <1>1, <1>2, <1>3, <1>4, <1>5, <1>6, <1>7, <1>8, <1>9

\* The discipline at one instruction of a module that keeps it.
LEMMA DisciplineAt ==
  ASSUME NEW m \in DisciplinedModules, NEW c \in CodeIds(m),
         NEW i \in 0..(Len(m.code[c]) - 1)
  PROVE  /\ Height(m, c)[i] \in Nat
         /\ Height(m, c)[i] >= Takes(m, c, i)
         /\ \A j \in Successors(m, c, i) : Follows(m, c, i, j)
         /\ OpAt(m, c, i) = "Call" => CallsFunction(m, c, i)
         /\ OpAt(m, c, i) = "Return" => c # Main /\ Height(m, c)[i] = 1
         /\ OpAt(m, c, i) = "Halt" => c = Main
         /\ OpAt(m, c, i) = "Store" =>
              InstructionAt(m, c, i).arg \in DOMAIN m.symbols \ FunctionIds(m)
         /\ OpAt(m, c, i) \in {"LoadLocal", "StoreLocal"} =>
              c # Main /\ InstructionAt(m, c, i).arg \in 0..(m.nlocals[c] - 1)
BY DEF DisciplinedModules, Disciplined

\* An instruction pops a natural number of records.
LEMMA TakesTyped ==
  ASSUME NEW m \in DisciplinedModules, NEW c \in CodeIds(m),
         NEW i \in 0..(Len(m.code[c]) - 1)
  PROVE  Takes(m, c, i) \in Nat
<1>1. CASE OpAt(m, c, i) = "Call"
  <2>1. CallsFunction(m, c, i)
    BY <1>1, DisciplineAt
  <2>2. m.nargs[Callee(m, c, i)] \in Nat
    BY <2>1, ModulesAssumption DEF CallsFunction, DisciplinedModules, IsModule
  <2> QED
    BY <1>1, <2>1, <2>2, Effects
<1>2. CASE OpAt(m, c, i) # "Call"
  <2>1. Takes(m, c, i) \in {0, 1, 2}
    BY <1>2 DEF Takes
  <2> QED
    BY <2>1
<1> QED
  BY <1>1, <1>2

\* A code begins with no operands, and with no call.
LEMMA DisciplineAtStart ==
  ASSUME NEW m \in DisciplinedModules, NEW c \in CodeIds(m)
  PROVE  0 \in 0..(Len(m.code[c]) - 1) /\ Height(m, c)[0] = 0 /\ OpAt(m, c, 0) # "Call"
<1>1. IsModule(m)
  BY ModulesAssumption DEF DisciplinedModules
<1>2. Len(m.code[c]) \in Nat /\ Len(m.code[c]) > 0 /\ Height(m, c)[0] = 0
  BY <1>1, LenProperties DEF DisciplinedModules, Disciplined, IsModule
<1>3. 0 \in 0..(Len(m.code[c]) - 1)
  BY <1>2
<1> QED
  BY <1>2, <1>3, DisciplineAt DEF CallsFunction

\* Only the instruction that pushes a function's index is followed by a call.
LEMMA CallAfterPush ==
  ASSUME NEW m \in DisciplinedModules, NEW c \in CodeIds(m),
         NEW i \in 0..(Len(m.code[c]) - 1), NEW j \in Successors(m, c, i),
         OpAt(m, c, j) = "Call"
  PROVE  OpAt(m, c, i) = "Pushi" /\ Callee(m, c, j) = InstructionAt(m, c, i).arg
<1>1. j = i + 1 /\ j \in 0..(Len(m.code[c]) - 1)
  BY DisciplineAt DEF Follows
<1>2. CallsFunction(m, c, j)
  BY <1>1, DisciplineAt
<1> QED
  BY <1>1, <1>2 DEF CallsFunction, Callee, InstructionAt

\* Functions are known by indices of the symbol table, and Main is not one.
LEMMA FunctionsIndexed ==
  ASSUME NEW m \in Modules, NEW f \in FunctionIds(m)
  PROVE  /\ f \in CodeIds(m) /\ f \in Nat /\ f # Main
         /\ m.nargs[f] \in Nat /\ m.nlocals[f] \in Nat
<1>1. IsModule(m)
  BY ModulesAssumption
<1> QED
  BY <1>1 DEF IsModule, FunctionIds, CodeIds, Main

-----------------------------------------------------------------------------
(* What the invariant says of a running machine.                           *)

Sound == TypeInv /\ StackSound /\ RunsDisciplined

\* The running code is Main when there is no frame, and a function otherwise.
LEMMA RunningCode ==
  ASSUME Sound, Running
  PROVE  /\ module \in DisciplinedModules /\ IsModule(module)
         /\ frameTop \in (-1)..(FrameLimit - 1) /\ frameTop + 1 \in Nat
         /\ code = CodeOf(frameTop + 1) /\ code \in CodeIds(module)
         /\ (code = Main) = (frameTop = -1)
         /\ InFrame => /\ FrameSound(frameTop) /\ code = CurrentFrame.funcIndex
                       /\ code \in FunctionIds(module)
         /\ ip \in 0..(CodeSize - 1) /\ CodeSize = Len(module.code[code]) /\ CodeSize \in Nat
<1>1. module \in DisciplinedModules /\ module \in Modules /\ IsModule(module)
  BY ModulesAssumption DEF Sound, TypeInv, TypeOK, RunsDisciplined
<1>2. frameTop \in (-1)..(FrameLimit - 1) /\ frameTop + 1 \in Nat
  BY SizesAssumption DEF Sound, StackSound
<1>3. code = CodeOf(frameTop + 1) /\ ip \in 0..(CodeSize - 1)
  BY DEF Sound, StackSound, RunSound
<1>4. InFrame => FrameSound(frameTop)
  BY <1>2 DEF Sound, StackSound, InFrame
<1>5. InFrame => code = CurrentFrame.funcIndex
  BY <1>2, <1>3 DEF InFrame, CodeOf, CurrentFrame
<1>6. InFrame => code \in FunctionIds(module)
  BY <1>4, <1>5 DEF FrameSound, CurrentFrame
<1>7. ~InFrame => frameTop = -1 /\ code = Main
  BY <1>2, <1>3 DEF InFrame, CodeOf
<1>8. InFrame => frameTop # -1 /\ code # Main
  BY <1>1, <1>6, FunctionsIndexed DEF InFrame
<1>9. code \in CodeIds(module)
  BY DEF Sound, TypeInv, TypeOK
<1>10. CodeSize = Len(module.code[code]) /\ CodeSize \in Nat
  BY <1>1, <1>9, LenProperties DEF CodeSize, IsModule
<1> QED
  BY <1>1, <1>2, <1>3, <1>4, <1>5, <1>6, <1>7, <1>8, <1>9, <1>10

\* The instruction fetched is the one the discipline counts for.
LEMMA RunningInstruction ==
  ASSUME Sound, Running
  PROVE  /\ InCode
         /\ Fetched = InstructionAt(module, code, ip)
         /\ Fetched.op = OpAt(module, code, ip)
         /\ Arg = InstructionAt(module, code, ip).arg
<1>1. CodeSize <= Allocated(CodeSize) /\ Allocated(CodeSize) \in Nat
  BY RunningCode, AllocatedRoom
<1>2. ip \in 0..(CodeSize - 1) /\ CodeSize \in Nat
  BY RunningCode
<1>3. InCode /\ ip < CodeSize
  BY <1>1, <1>2 DEF InCode
<1> QED
  BY <1>3 DEF Fetched, InstructionAt, OpAt, Arg

\* The operands are above the locals, at least as many as are taken.
LEMMA RunningOperands ==
  ASSUME Sound, Running
  PROVE  LET taken == Takes(module, code, ip)
             high  == Height(module, code)[ip]
             floor == OperandsFrom(frameTop + 1)
         IN  /\ high \in Nat /\ taken <= high /\ floor \in Nat
             /\ floor + high <= stackTop + 1
             /\ InFrame => stackTop + 1 = floor + high
             /\ InFrame => /\ floor = CurrentFrame.bsp + CurrentFrame.nlocals
                           /\ CurrentFrame.bsp \in Nat /\ CurrentFrame.nlocals \in Nat
                           /\ CurrentFrame.nlocals = module.nlocals[code]
<1> DEFINE high == Height(module, code)[ip]
           floor == OperandsFrom(frameTop + 1)
<1>1. high \in Nat /\ Takes(module, code, ip) <= high
  BY RunningCode, DisciplineAt
<1>2. CASE InFrame
  <2>1. frameTop \in FrameIndices
    BY <1>2, RunningCode DEF InFrame, FrameIndices
  <2>2. CurrentFrame \in Frame
    BY <2>1 DEF Sound, TypeInv, TypeOK, CurrentFrame
  <2>3. FrameSound(frameTop) /\ code = CurrentFrame.funcIndex
    BY <1>2, RunningCode
  <2>4. CurrentFrame.bsp \in Nat /\ CurrentFrame.nlocals \in Nat
    BY <2>2, <2>3, SizesAssumption DEF Frame, Byte, FrameSound, CurrentFrame
  <2>5. CurrentFrame.nlocals = module.nlocals[code]
    BY <2>3 DEF FrameSound, CurrentFrame
  <2>6. floor = CurrentFrame.bsp + CurrentFrame.nlocals
    BY <2>1 DEF OperandsFrom, FrameEnd, CurrentFrame, FrameIndices
  <2>7. stackTop + 1 - floor = high
    BY <2>1, <1>1, RunningCode DEF Sound, StackSound, RunSound, Counts, FrameIndices
  <2>8. stackTop + 1 = floor + high
    BY <2>4, <2>6, <2>7, <1>1 DEF Sound, TypeInv, TypeOK
  <2> QED
    BY <1>1, <1>2, <2>4, <2>5, <2>6, <2>8
<1>3. CASE ~InFrame
  <2>1. frameTop + 1 = 0 /\ floor = 0
    BY <1>3, RunningCode DEF InFrame, OperandsFrom
  <2>2. high <= stackTop + 1 - floor
    BY <2>1, RunningCode DEF Sound, StackSound, RunSound, Counts
  <2>3. stackTop \in Int
    BY DEF Sound, TypeInv, TypeOK
  <2> HIDE DEF high, floor
  <2>4. floor + high <= stackTop + 1 /\ floor \in Nat
    BY <1>1, <2>1, <2>2, <2>3
  <2> QED
    BY <1>1, <1>3, <2>4 DEF high, floor
<1> QED
  BY <1>2, <1>3

\* A return finds one operand, and gives back the locals below it.
LEMMA ReturnSlot ==
  ASSUME Sound, Running, OpAt(module, code, ip) = "Return"
  PROVE  InFrame /\ ResultSlot = CurrentFrame.bsp /\ CurrentFrame.bsp \in Nat
<1>1. Height(module, code)[ip] = 1 /\ code # Main
  BY RunningCode, DisciplineAt
<1>2. InFrame
  BY <1>1, RunningCode DEF InFrame
<1>3. stackTop + 1 = CurrentFrame.bsp + CurrentFrame.nlocals + 1 /\ stackTop \in Int
       /\ CurrentFrame.bsp \in Nat /\ CurrentFrame.nlocals \in Nat
  BY <1>1, <1>2, RunningOperands DEF Sound, TypeInv, TypeOK
<1> QED
  BY <1>2, <1>3 DEF ResultSlot

\* No instruction uses a slot below the stack.
LEMMA TouchedAbove ==
  ASSUME Sound, Running
  PROVE  Touched \subseteq Nat
<1> DEFINE op == OpAt(module, code, ip)
           high == Height(module, code)[ip]
           floor == OperandsFrom(frameTop + 1)
<1>1. stackTop \in Int /\ floor \in Nat /\ high \in Nat /\ floor + high <= stackTop + 1
       /\ Takes(module, code, ip) <= high
  BY RunningOperands DEF Sound, TypeInv, TypeOK
<1>2. Fetched.op = op /\ Arg = InstructionAt(module, code, ip).arg /\ Fetched \in Instruction
  BY RunningInstruction, FetchedTyped DEF Sound, TypeInv
<1>3. module \in DisciplinedModules /\ code \in CodeIds(module)
       /\ ip \in 0..(Len(module.code[code]) - 1)
  BY RunningCode
<1> HIDE DEF high, floor
<1>4. CASE op \in BinaryOps
  <2>1. Takes(module, code, ip) = 2
    BY <1>4, Effects
  <2>2. Touched = {stackTop - 1, stackTop}
    BY <1>2, <1>4, TouchedSlots
  <2> QED
    BY <1>1, <2>1, <2>2
<1>5. CASE op \in UnaryOps \cup {"JmpIfFalse", "Store", "Call"}
  <2>1. CASE op = "Call"
    <3>1. CallsFunction(module, code, ip)
      BY <1>3, <2>1, DisciplineAt
    <3>2. Takes(module, code, ip) = 1 + module.nargs[Callee(module, code, ip)]
      BY <2>1, <3>1, Effects
    <3>3. module.nargs[Callee(module, code, ip)] \in Nat
      BY <3>1, FunctionsIndexed DEF CallsFunction, Sound, TypeInv, TypeOK
    <3>4. Takes(module, code, ip) >= 1 /\ Takes(module, code, ip) \in Nat
      BY <3>2, <3>3
    <3> QED
      BY <1>1, <1>2, <1>5, <3>4, TouchedSlots
  <2>2. CASE op # "Call"
    <3>1. Takes(module, code, ip) = 1
      BY <1>5, <2>2, Effects
    <3> QED
      BY <1>1, <1>2, <1>5, <3>1, TouchedSlots
  <2> QED
    BY <2>1, <2>2
<1>6. CASE op \in ConstOps \/ (op = "Load" /\ Loads)
  <2>1. Touched = {stackTop + 1}
    BY <1>2, <1>6, TouchedSlots
  <2> QED
    BY <1>1, <2>1
<1>7. CASE op \in {"LoadLocal", "StoreLocal"} /\ InFrame
  <2>1. Arg \in Nat
    BY <1>2, <1>3, <1>7, DisciplineAt
  <2>2. LocalSlot(Arg) \in Nat
    BY <2>1, <1>7, RunningOperands DEF LocalSlot
  <2>3. CASE op = "LoadLocal"
    <3>1. Touched = {LocalSlot(Arg), stackTop + 1}
      BY <1>2, <1>7, <2>3, TouchedSlots
    <3> QED
      BY <1>1, <2>2, <3>1
  <2>4. CASE op = "StoreLocal"
    <3>1. Touched = {LocalSlot(Arg), stackTop} /\ Takes(module, code, ip) = 1
      BY <1>2, <1>7, <2>4, TouchedSlots, Effects
    <3> QED
      BY <1>1, <2>2, <3>1
  <2> QED
    BY <1>7, <2>3, <2>4
<1>8. CASE op = "Return"
  <2>1. ResultSlot \in Nat /\ InFrame /\ Takes(module, code, ip) = 1
    BY <1>8, ReturnSlot, Effects
  <2>2. Touched = {stackTop, ResultSlot}
    BY <1>2, <1>8, <2>1, TouchedSlots
  <2> QED
    BY <1>1, <2>1, <2>2
<1>9. CASE /\ op \notin BinaryOps \cup UnaryOps \cup ConstOps
           /\ op \notin {"JmpIfFalse", "Store", "Call", "Return"}
           /\ ~(op = "Load" /\ Loads)
           /\ ~(op \in {"LoadLocal", "StoreLocal"} /\ InFrame)
  <2>1. Touched = {}
    BY <1>2, <1>9 DEF Touched
  <2> QED
    BY <2>1
<1> QED
  BY <1>4, <1>5, <1>6, <1>7, <1>8, <1>9

-----------------------------------------------------------------------------
(* One step of the machine.                                                *)

\* A step that stops the machine, but by an access the code does not check.
LEMMA StopSound ==
  ASSUME Sound, module' = module, FunctionsKept', status' \in Statuses \ {"running", "wild"}
  PROVE  StackSound'
BY DEF StackSound, Running

\* What the frames rely on is the same while they and the module are.
LEMMA FramesKept ==
  ASSUME module' = module, frames' = frames, callers' = callers
  PROVE  /\ \A k : FrameSound(k)' = FrameSound(k)
         /\ \A k : CodeOf(k)' = CodeOf(k) /\ OperandsFrom(k)' = OperandsFrom(k)
         /\ \A k, i, n : Counts(k, i, n)' = Counts(k, i, n)
BY DEF FrameSound, CodeOf, OperandsFrom, FrameEnd, Counts

\* A step within one run() that takes and gives the operands it should, and
\* goes to one of the instructions that may follow.
LEMMA MoveSound ==
  ASSUME Sound, Running, module' = module, FunctionsKept',
         UNCHANGED <<frameStack, code, callers, status>>,
         ip' \in Successors(module, code, ip),
         stackTop' = stackTop - Takes(module, code, ip) + Gives(module, code, ip),
         OpAt(module, code, ip) = "Pushi" => slots'[stackTop'] = Integer(Arg)
  PROVE  StackSound'
<1> DEFINE taken == Takes(module, code, ip)
           given == Gives(module, code, ip)
           high == Height(module, code)[ip]
           next == Height(module, code)[ip']
           floor == OperandsFrom(frameTop + 1)
<1>1. module \in DisciplinedModules /\ code \in CodeIds(module)
       /\ ip \in 0..(Len(module.code[code]) - 1)
  BY RunningCode
<1>2. Follows(module, code, ip, ip')
  BY <1>1, DisciplineAt
<1>3. ip' \in 0..(Len(module.code[code]) - 1) /\ next <= high - taken + given
       /\ (code # Main => next = high - taken + given)
  BY <1>2 DEF Follows
<1>4. UNCHANGED <<frames, frameTop>>
  BY DEF frameStack
<1>5. \A k \in 0..frameTop : FrameSound(k)'
  BY <1>4, FramesKept DEF Sound, StackSound
<1>6. Counts(frameTop + 1, ip', stackTop' + 1 - floor)
  <2>1. stackTop \in Int /\ floor \in Nat /\ high \in Nat /\ floor + high <= stackTop + 1
         /\ (InFrame => stackTop + 1 = floor + high)
    BY RunningOperands DEF Sound, TypeInv, TypeOK
  <2>2. given \in Int
    BY DEF Gives
  <2>3. taken \in Int
    BY <1>1, TakesTyped
  <2>4. next \in Int
    BY <1>1, <1>3, DisciplineAt
  <2>5. (frameTop + 1 # 0) = (code # Main) /\ (frameTop + 1 # 0) = InFrame
         /\ code = CodeOf(frameTop + 1)
    BY RunningCode DEF InFrame
  <2> HIDE DEF taken, given, high, next, floor
  <2>6. stackTop' + 1 - floor = stackTop - taken + given + 1 - floor
    BY DEF taken, given
  <2>7. next <= stackTop' + 1 - floor
    BY <1>3, <2>1, <2>2, <2>3, <2>4, <2>6
  <2>8. ASSUME frameTop + 1 # 0 PROVE next = stackTop' + 1 - floor
    <3>1. code # Main /\ InFrame
      BY <2>5, <2>8
    <3> QED
      BY <3>1, <1>3, <2>1, <2>2, <2>3, <2>4, <2>6
  <2> QED
    BY <2>5, <2>7, <2>8 DEF Counts, next
<1>7. OpAt(module, code, ip') = "Call" =>
        slots'[stackTop'] = Integer(Callee(module, code, ip'))
  BY <1>1, CallAfterPush, RunningInstruction
<1>8. code = CodeOf(frameTop + 1) /\ CodeSize = Len(module.code[code])
  BY RunningCode
<1>9. RunSound'
  BY <1>3, <1>4, <1>6, <1>7, <1>8, FramesKept DEF RunSound, CodeSize
<1> QED
  BY <1>4, <1>5, <1>9 DEF Sound, StackSound, RunsDisciplined

\* An instruction that computes a record from those on top of the stack.
LEMMA ComputeSound ==
  ASSUME Sound, Running, NEW n \in Nat, NEW R, Compute(n, R),
         UNCHANGED <<module, symbols, frameStack>>,
         n = Takes(module, code, ip), Gives(module, code, ip) = 1,
         Successors(module, code, ip) = {ip + 1}, OpAt(module, code, ip) # "Pushi"
  PROVE  StackSound'
<1>1. FunctionsKept'
  BY DEF FunctionsKept, Sound, StackSound
<1>2. CASE \E r \in R : PopPush(n, r) /\ Advance
  <2>1. stackTop' = stackTop - n + 1 /\ ip' = ip + 1 /\ UNCHANGED <<code, callers, status>>
    BY <1>2 DEF PopPush, Advance, Goto
  <2> QED
    BY <1>1, <2>1, MoveSound
<1>3. CASE R = {} /\ Pop(n) /\ Throw
  <2>1. status' = "error"
    BY <1>3 DEF Throw
  <2> QED
    BY <1>1, <2>1, StopSound DEF Statuses
<1> QED
  BY <1>2, <1>3 DEF Compute

\* The frames up to top are sound if they were and stay as they are.
LEMMA FramesBelow ==
  ASSUME module' = module, NEW top \in Int,
         \A k \in 0..top : frames'[k] = frames[k] /\ callers'[k + 1] = callers[k + 1]
  PROVE  /\ \A k \in 0..top : FrameSound(k)' = FrameSound(k)
         /\ \A k \in 0..(top + 1) :
              CodeOf(k)' = CodeOf(k) /\ OperandsFrom(k)' = OperandsFrom(k)
         /\ \A k \in 0..(top + 1) : \A i, n : Counts(k, i, n)' = Counts(k, i, n)
<1>1. \A k \in 0..(top + 1) : k = 0 \/ k - 1 \in 0..top
  OBVIOUS
<1>2. \A k \in 0..(top + 1) :
        CodeOf(k)' = CodeOf(k) /\ OperandsFrom(k)' = OperandsFrom(k)
  BY <1>1 DEF CodeOf, OperandsFrom, FrameEnd
<1>3. \A k \in 0..(top + 1) : \A i, n : Counts(k, i, n)' = Counts(k, i, n)
  BY <1>2 DEF Counts
<1>4. \A k \in 0..top : k \in 0..(top + 1)
  OBVIOUS
<1>5. \A k \in 0..top : FrameSound(k)' = FrameSound(k)
  BY <1>2, <1>3, <1>4 DEF FrameSound
<1> QED
  BY <1>2, <1>3, <1>5

\* A call builds a sound frame over the arguments among the operands.
LEMMA EnterSound ==
  ASSUME Sound, Running, OpAt(module, code, ip) = "Call",
         NEW f \in FunctionIds(module), f = Callee(module, code, ip),
         UNCHANGED <<module, symbols>>, EnterFunction(f)
  PROVE  StackSound'
<1>1. FunctionsKept'
  BY DEF FunctionsKept, Sound, StackSound
<1>2. CASE ~FrameExists(frameTop + 1)
  <2>1. status' = "error"
    BY <1>2 DEF EnterFunction, Throw
  <2> QED
    BY <1>1, <2>1, StopSound DEF Statuses
<1>3. CASE FrameExists(frameTop + 1)
  <2>0. PICK k : k = frameTop + 1
    OBVIOUS
  <2> DEFINE floor == OperandsFrom(k)
             high == Height(module, code)[ip]
             nargs == module.nargs[f]
             nlocals == module.nlocals[f]
             bsp == stackTop - nargs
  <2>1. module \in DisciplinedModules /\ k \in Nat /\ code = CodeOf(k)
         /\ code \in CodeIds(module) /\ ip \in 0..(Len(module.code[code]) - 1)
    BY <2>0, RunningCode
  <2>2. f \in CodeIds(module) /\ f # Main /\ nargs \in Nat /\ nlocals \in Nat
    BY FunctionsIndexed DEF Sound, TypeInv, TypeOK
  <2>3. nlocals < ByteMod
    BY <2>1 DEF DisciplinedModules, Disciplined
  <2>4. k \in 0..(FrameLimit - 1) /\ k \in FrameIndices /\ frameTop \in Int
    BY <1>3, <2>0, <2>1, SizesAssumption DEF FrameExists, FrameIndices, Sound, TypeInv, TypeOK
  <2>5. callers' = Append(callers, [code |-> code, ip |-> ip]) /\ Len(callers) = k
         /\ callers \in Seq([code : CodeIds(module), ip : Int])
    BY <1>3, <2>0 DEF EnterFunction, Sound, StackSound, TypeInv, TypeOK
  <2>6. Len(callers') = k + 1 /\ callers'[k + 1] = [code |-> code, ip |-> ip]
         /\ \A j \in 1..k : callers'[j] = callers[j]
    <3> DEFINE x == [code |-> code, ip |-> ip]
               C == [code : CodeIds(module), ip : Int]
    <3>1. x \in C
      BY <2>1
    <3> HIDE DEF x, C
    <3>2. callers \in Seq(C) /\ callers' = Append(callers, x) /\ Len(callers) = k
      BY <2>5 DEF x, C
    <3>3. Len(callers') = k + 1 /\ callers'[k + 1] = x /\ \A j \in 1..k : callers'[j] = callers[j]
      BY <3>1, <3>2, AppendProperties
    <3> QED
      BY <3>3 DEF x
  <2>7. frames' = [frames EXCEPT ![k] = NewFrame(f, stackTop - 1)] /\ frameTop' = k
         /\ stackTop' = stackTop - 1 + nlocals - nargs /\ code' = f /\ ip' = 0
         /\ status' = status
    <3>1. stackTop' = stackTop - 1 + (nlocals - nargs)
      BY <1>3 DEF EnterFunction, Reserved
    <3>2. stackTop \in Int
      BY DEF Sound, TypeInv, TypeOK
    <3> QED
      BY <1>3, <2>0, <2>2, <3>1, <3>2 DEF EnterFunction
  <2>8. frames'[k].funcIndex = f /\ frames'[k].bsp = bsp /\ frames'[k].nlocals = nlocals
         /\ \A j \in 0..frameTop : frames'[j] = frames[j]
    <3>1. frames'[k] = NewFrame(f, stackTop - 1) /\ \A j \in 0..frameTop : frames'[j] = frames[j]
      BY <2>0, <2>4, <2>7 DEF Sound, TypeInv, TypeOK, FrameIndices
    <3>2. nlocals % ByteMod = nlocals
      BY <2>2, <2>3, SizesAssumption
    <3>3. stackTop - 1 - nargs + 1 = stackTop - nargs
      <4>1. stackTop \in Int
        BY DEF Sound, TypeInv, TypeOK
      <4> HIDE DEF nargs
      <4> QED
        BY <2>2, <4>1
    <3> QED
      BY <3>1, <3>2, <3>3 DEF NewFrame, FrameBase, CountedLocals
  <2>9. stackTop \in Int /\ floor \in Nat /\ high \in Nat /\ 1 + nargs <= high
         /\ floor + high <= stackTop + 1
    <3>1. CallsFunction(module, code, ip)
      BY <2>1, DisciplineAt
    <3>2. Takes(module, code, ip) = 1 + nargs
      BY <3>1, Effects
    <3> QED
      BY <2>0, <3>2, RunningOperands DEF Sound, TypeInv, TypeOK
  <2>10. bsp \in Nat /\ bsp - floor + nargs + 1 = stackTop + 1 - floor
    <3> HIDE DEF floor, high, nargs
    <3> QED
      BY <2>2, <2>9
  <2>11. \A j \in 0..frameTop : frames'[j] = frames[j] /\ callers'[j + 1] = callers[j + 1]
    BY <2>0, <2>4, <2>6, <2>8
  <2>12. \A j \in 0..frameTop : FrameSound(j)'
    BY <2>4, <2>11, FramesBelow DEF Sound, StackSound
  <2>13. CodeOf(k)' = CodeOf(k) /\ OperandsFrom(k)' = floor
          /\ \A i, n : Counts(k, i, n)' = Counts(k, i, n)
    <3>1. k \in 0..(frameTop + 1)
      BY <2>0, <2>1
    <3> QED
      BY <2>4, <2>11, <3>1, FramesBelow
  <2>14. FrameSound(k)'
    <3>1. Counts(k, ip, bsp - floor + nargs + 1)
      BY <2>0, <2>10 DEF Sound, StackSound, RunSound
    <3> HIDE DEF floor, nargs, nlocals, bsp
    <3>2. callers'[k + 1].code = code /\ callers'[k + 1].ip = ip
      BY <2>6
    <3> USE DEF nargs, nlocals
    <3> QED
      BY <2>1, <2>2, <2>6, <2>8, <2>10, <2>13, <3>1, <3>2 DEF FrameSound
  <2>15. \A j \in 0..k : FrameSound(j)'
    BY <2>0, <2>4, <2>12, <2>14
  <2>16. RunSound'
    <3>1. PICK j \in Nat : j = k + 1 /\ j # 0 /\ j - 1 = k
      BY <2>1
    <3>2. CodeOf(j)' = f
      BY <2>8, <3>1 DEF CodeOf
    <3>3. OperandsFrom(j)' = bsp + nlocals
      <4>1. OperandsFrom(j)' = FrameEnd(k)'
        BY <3>1 DEF OperandsFrom
      <4> HIDE DEF bsp, nlocals
      <4> QED
        BY <2>8, <4>1 DEF FrameEnd
    <3>4. stackTop' + 1 - (bsp + nlocals) = 0
      BY <2>2, <2>7, <2>9
    <3>5. 0 \in 0..(Len(module.code[f]) - 1) /\ Height(module, f)[0] = 0
           /\ OpAt(module, f, 0) # "Call"
      BY <2>1, <2>2, DisciplineAtStart
    <3>6. Counts(j, 0, 0)'
      BY <3>2, <3>5 DEF Counts
    <3>7. frameTop' + 1 = j
      BY <2>7, <3>1
    <3> HIDE DEF bsp, nlocals
    <3> QED
      BY <2>7, <3>2, <3>3, <3>4, <3>5, <3>6, <3>7 DEF RunSound, CodeSize
  <2> QED
    BY <1>1, <2>0, <2>4, <2>6, <2>7, <2>15, <2>16 DEF Sound, StackSound, RunsDisciplined
<1> QED
  BY <1>2, <1>3

\* A return goes on in the caller as the discipline expects a call to.
LEMMA LeaveSound ==
  ASSUME Sound, Running, InFrame, OpAt(module, code, ip) = "Return",
         UNCHANGED <<module, symbols, frames>>, LeaveRun,
         stackTop' = ResultSlot, frameTop' = frameTop - 1
  PROVE  StackSound'
<1>0. PICK k : k = frameTop
  OBVIOUS
<1> DEFINE c == CodeOf(k)
           i == callers[k + 1].ip
           f == frames[k].funcIndex
           floor == OperandsFrom(k)
           nargs == module.nargs[f]
           bsp == frames[k].bsp
<1>1. module \in DisciplinedModules /\ k \in 0..(FrameLimit - 1) /\ k \in Int
  BY <1>0, RunningCode, SizesAssumption DEF InFrame
<1>2. FrameSound(k) /\ \A j \in 0..k : FrameSound(j)
  BY <1>0, <1>1 DEF Sound, StackSound
<1>3. c \in CodeIds(module) /\ (k # 0 => c # Main)
  <2>1. CASE k = 0
    BY <2>1 DEF CodeOf, CodeIds
  <2>2. CASE k # 0
    <3>1. FrameSound(k - 1)
      BY <1>1, <1>2, <2>2
    <3>2. c \in FunctionIds(module)
      BY <2>2, <3>1 DEF FrameSound, CodeOf
    <3> QED
      BY <3>2, FunctionsIndexed DEF Sound, TypeInv, TypeOK
  <2> QED
    BY <2>1, <2>2
<1>4. i \in 0..(Len(module.code[c]) - 1) /\ OpAt(module, c, i) = "Call"
       /\ Callee(module, c, i) = f /\ f \in FunctionIds(module)
       /\ Counts(k, i, bsp - floor + nargs + 1)
  BY <1>2 DEF FrameSound
<1>5. CallsFunction(module, c, i) /\ nargs \in Nat
  BY <1>1, <1>3, <1>4, DisciplineAt, FunctionsIndexed DEF Sound, TypeInv, TypeOK
<1>6. Successors(module, c, i) = {i + 1} /\ Takes(module, c, i) = 1 + nargs
       /\ Gives(module, c, i) = 1
  BY <1>4, <1>5, Effects
<1>7. Follows(module, c, i, i + 1)
  BY <1>1, <1>3, <1>4, <1>6, DisciplineAt
<1>8. i + 1 \in 0..(Len(module.code[c]) - 1) /\ OpAt(module, c, i + 1) # "Call"
  BY <1>1, <1>3, <1>4, <1>6, <1>7, CallAfterPush DEF Follows
<1>9. ResultSlot = bsp /\ stackTop' = bsp
  BY <1>0, ReturnSlot DEF CurrentFrame
<1>10. Counts(k, i + 1, bsp + 1 - floor)
  <2> DEFINE before == Height(module, c)[i]
             after == Height(module, c)[i + 1]
  <2>1. before \in Nat /\ after \in Nat
    BY <1>1, <1>3, <1>4, <1>8, DisciplineAt
  <2>2. after <= before - (1 + nargs) + 1 /\ (c # Main => after = before - (1 + nargs) + 1)
    BY <1>6, <1>7 DEF Follows
  <2>3. before <= bsp - floor + nargs + 1 /\ (k # 0 => before = bsp - floor + nargs + 1)
    BY <1>4 DEF Counts
  <2>4. bsp \in Int /\ floor \in Int
    <3>1. bsp \in Int
      BY <1>1 DEF Sound, TypeInv, TypeOK, FrameIndices, Frame
    <3>2. k # 0 => k - 1 \in FrameIndices
      BY <1>1, SizesAssumption DEF FrameIndices
    <3>3. k # 0 => frames[k - 1] \in Frame
      BY <3>2 DEF Sound, TypeInv, TypeOK
    <3>4. k # 0 => frames[k - 1].bsp \in Int /\ frames[k - 1].nlocals \in Int
      BY <3>3, SizesAssumption DEF Frame, Byte
    <3> QED
      BY <3>1, <3>4 DEF OperandsFrom, FrameEnd
  <2> HIDE DEF before, after, bsp, floor, nargs, c
  <2>5. after <= bsp + 1 - floor
    BY <1>5, <2>1, <2>2, <2>3, <2>4
  <2>6. k # 0 => after = bsp + 1 - floor
    BY <1>3, <1>5, <2>1, <2>2, <2>3, <2>4
  <2> QED
    BY <2>5, <2>6 DEF Counts, after, c
<1>11. code' = c /\ ip' = i + 1 /\ status' = status /\ Len(callers') = k
        /\ \A j \in 1..k : callers'[j] = callers[j]
  <2> DEFINE C == [code : CodeIds(module), ip : Int]
  <2>1. callers \in Seq(C) /\ Len(callers) = k + 1
    BY <1>0 DEF Sound, TypeInv, TypeOK, StackSound
  <2> HIDE DEF C
  <2>2. callers # <<>>
    BY <1>1, <2>1
  <2>3. callers' = SubSeq(callers, 1, k) /\ code' = callers[k + 1].code
         /\ ip' = callers[k + 1].ip + 1 /\ status' = status
    BY <1>1, <2>1, <2>2 DEF LeaveRun
  <2>4. \A j \in 1..k : callers[j] \in C
    BY <1>1, <2>1, ElementOfSeq
  <2>5. Len(SubSeq(callers, 1, k)) = k /\ \A j \in 1..k : SubSeq(callers, 1, k)[j] = callers[j]
    BY <1>1, <2>4, SubSeqProperties
  <2> QED
    BY <1>2, <2>3, <2>5 DEF FrameSound
<1>12. \A j \in 0..(k - 1) : frames'[j] = frames[j] /\ callers'[j + 1] = callers[j + 1]
  BY <1>1, <1>11
<1>13. k - 1 \in Int /\ k \in 0..(k - 1 + 1)
  BY <1>1
<1>14. \A j \in 0..(k - 1) : FrameSound(j)'
  BY <1>1, <1>2, <1>12, <1>13, FramesBelow
<1>15. CodeOf(k)' = c /\ OperandsFrom(k)' = floor
        /\ \A j, n : Counts(k, j, n)' = Counts(k, j, n)
  BY <1>12, <1>13, FramesBelow
<1>16. RunSound'
  <2>1. frameTop' + 1 = k
    BY <1>0, <1>1
  <2> HIDE DEF c, i, floor, bsp
  <2> QED
    BY <2>1, <1>8, <1>9, <1>10, <1>11, <1>15 DEF RunSound, CodeSize
<1>17. FunctionsKept'
  BY DEF FunctionsKept, Sound, StackSound
<1>18. frameTop' = k - 1 /\ frameTop' \in (-1)..(FrameLimit - 1) /\ Len(callers') = frameTop' + 1
  BY <1>0, <1>1, <1>11, SizesAssumption
<1>19. \A j \in 0..frameTop' : FrameSound(j)'
  BY <1>14, <1>18
<1> QED
  BY <1>11, <1>16, <1>17, <1>18, <1>19 DEF Sound, StackSound, RunsDisciplined

\* A machine that was just made keeps the discipline of the code it runs.
LEMMA InitSound == Init => StackSound
<1> SUFFICES ASSUME Init, RunsDisciplined PROVE StackSound
  BY DEF StackSound
<1>1. module \in DisciplinedModules /\ Main \in CodeIds(module)
  BY DEF RunsDisciplined, CodeIds
<1>2. 0 \in 0..(Len(module.code[Main]) - 1) /\ Height(module, Main)[0] = 0
       /\ OpAt(module, Main, 0) # "Call"
  BY <1>1, DisciplineAtStart
<1>3. stackTop = -1 /\ frameTop = -1 /\ code = Main /\ ip = 0 /\ callers = <<>>
       /\ symbols = module.symbols /\ status = "running"
  BY DEF Init
<1>4. frameTop + 1 = 0 /\ stackTop + 1 - 0 = 0
  BY <1>3
<1>5. RunSound
  BY <1>2, <1>3, <1>4 DEF RunSound, CodeOf, OperandsFrom, Counts, CodeSize
<1>6. FunctionsKept
  BY <1>3 DEF FunctionsKept, FunctionIds
<1>7. frameTop \in (-1)..(FrameLimit - 1) /\ Len(callers) = frameTop + 1
       /\ \A k \in 0..frameTop : FrameSound(k)
  BY <1>3, SizesAssumption
<1> QED
  BY <1>3, <1>5, <1>6, <1>7 DEF StackSound

\* Every action of the machine keeps it.
LEMMA NextSound == TypeInv /\ StackSound /\ [Next]_vars => StackSound'
<1> SUFFICES ASSUME TypeInv, StackSound, [Next]_vars PROVE StackSound'
  OBVIOUS
<1>a. module' = module
  BY DEF Next, vars, NopOp, PushConstant, PushNone, BinaryOp, UnaryOp, LoadSymbol, StoreSymbol,
     LoadLocalSymbol, StoreLocalSymbol, Jump, JumpIfFalse, UnsupportedOp, CallUserFunction,
     ReturnOp, Halt, RunOffCode, AccessOutside, Stray, Stopped
<1> SUFFICES ASSUME RunsDisciplined PROVE StackSound'
  BY <1>a DEF StackSound, RunsDisciplined
<1> DEFINE op == OpAt(module, code, ip)
<1>b. Sound
  BY DEF Sound
<1>c. symbols' = symbols => FunctionsKept'
  BY <1>a, <1>b DEF FunctionsKept, Sound, StackSound
<1>d. ASSUME NEW ops, Step(ops)
      PROVE  /\ Running /\ op \in ops /\ Fetched.op = op /\ Fetched \in Instruction
             /\ Arg = InstructionAt(module, code, ip).arg
             /\ Touched \subseteq SlotIndices
             /\ module \in DisciplinedModules /\ code \in CodeIds(module)
             /\ ip \in 0..(Len(module.code[code]) - 1)
  BY <1>b, <1>d, RunningInstruction, RunningCode, FetchedTyped DEF Step, Executes, Sound, TypeInv
<1>e. stackTop \in Int /\ slots \in [SlotIndices -> Value]
  BY <1>b DEF Sound, TypeInv, TypeOK
<1>1. CASE NopOp
  <2>1. Running /\ op = "Nop"
    BY <1>1, <1>d DEF NopOp
  <2>2. stackTop' = stackTop - 0 + 0 /\ ip' = ip + 1
         /\ UNCHANGED <<symbols, frameStack, code, callers, status>>
    BY <1>1, <1>e DEF NopOp, Advance, Goto, stack
  <2> QED
    BY <1>a, <1>b, <1>c, <2>1, <2>2, Effects, MoveSound
<1>2. CASE PushConstant
  <2>1. Running /\ op \in ConstOps /\ op = Fetched.op /\ Touched = {stackTop + 1}
         /\ Touched \subseteq SlotIndices
    BY <1>2, <1>d, TouchedSlots DEF PushConstant
  <2>2. stackTop' = stackTop - 0 + 1 /\ ip' = ip + 1
         /\ UNCHANGED <<symbols, frameStack, code, callers, status>>
    BY <1>2, <1>e DEF PushConstant, PopPush, Advance, Goto
  <2>3. op = "Pushi" => slots' = [slots EXCEPT ![stackTop - 0 + 1] = Integer(Arg)]
    BY <1>2, <2>1 DEF PushConstant, PopPush
  <2>4. op = "Pushi" => slots'[stackTop'] = Integer(Arg)
    BY <1>e, <2>1, <2>2, <2>3
  <2> QED
    BY <1>a, <1>b, <1>c, <2>1, <2>2, <2>4, Effects, MoveSound
<1>3. CASE PushNone
  <2>1. Running /\ op = "PushNone"
    BY <1>3, <1>d DEF PushNone
  <2>2. stackTop' = stackTop - 0 + 1 /\ ip' = ip + 1
         /\ UNCHANGED <<symbols, frameStack, code, callers, status>>
    BY <1>3, <1>e DEF PushNone, Advance, Goto
  <2> QED
    BY <1>a, <1>b, <1>c, <2>1, <2>2, Effects, MoveSound
<1>4. CASE BinaryOp
  <2>1. Running /\ op \in BinaryOps /\ op # "Pushi"
    BY <1>4, <1>d DEF BinaryOp, BinaryOps
  <2>2. CASE Traps(Fetched.op, slots[stackTop - 1], slots[stackTop])
    <3>1. status' = "trap" /\ symbols' = symbols
      BY <1>4, <2>2 DEF BinaryOp
    <3> QED
      BY <1>a, <1>b, <1>c, <3>1, StopSound DEF Statuses
  <2>3. CASE ~Traps(Fetched.op, slots[stackTop - 1], slots[stackTop])
    <3> DEFINE R == BinaryResults(Fetched.op, slots[stackTop - 1], slots[stackTop])
    <3>1. Compute(2, R) /\ UNCHANGED <<module, symbols, frameStack>>
      BY <1>4, <2>3 DEF BinaryOp
    <3> HIDE DEF R
    <3> QED
      BY <1>b, <2>1, <3>1, Effects, ComputeSound
  <2> QED
    BY <2>2, <2>3
<1>5. CASE UnaryOp
  <2> DEFINE R == UnaryResults(Fetched.op, slots[stackTop])
  <2>1. Running /\ op \in UnaryOps /\ op # "Pushi"
    BY <1>5, <1>d DEF UnaryOp, UnaryOps
  <2>2. Compute(1, R) /\ UNCHANGED <<module, symbols, frameStack>>
    BY <1>5 DEF UnaryOp
  <2> HIDE DEF R
  <2> QED
    BY <1>b, <2>1, <2>2, Effects, ComputeSound
<1>6. CASE LoadSymbol
  <2>1. Running /\ op = "Load" /\ symbols' = symbols
    BY <1>6, <1>d DEF LoadSymbol
  <2>2. CASE Loads
    <3>1. stackTop' = stackTop - 0 + 1 /\ ip' = ip + 1
           /\ UNCHANGED <<frameStack, code, callers, status>>
      BY <1>6, <2>2 DEF LoadSymbol, PopPush, Advance, Goto
    <3> QED
      BY <1>a, <1>b, <1>c, <2>1, <3>1, Effects, MoveSound
  <2>3. CASE ~Loads
    <3>1. status' = "error"
      BY <1>6, <2>3 DEF LoadSymbol, Throw
    <3> QED
      BY <1>a, <1>b, <1>c, <2>1, <3>1, StopSound DEF Statuses
  <2> QED
    BY <2>2, <2>3
<1>7. CASE StoreSymbol
  <2>1. Running /\ op = "Store" /\ Arg \notin FunctionIds(module)
    BY <1>7, <1>d, DisciplineAt DEF StoreSymbol
  <2>2. symbols' = symbols \/ symbols' = [symbols EXCEPT ![Arg] = slots[stackTop]]
    BY <1>7 DEF StoreSymbol
  <2>3. FunctionsKept'
    <3>1. \A f \in FunctionIds(module) : f \in DOMAIN symbols /\ symbols[f].type = "UserFunc"
      BY <1>b DEF Sound, StackSound, FunctionsKept, TypeInv, TypeOK, FunctionIds
    <3>2. \A f \in FunctionIds(module) : symbols'[f] = symbols[f]
      BY <2>1, <2>2, <3>1
    <3> QED
      BY <1>a, <3>1, <3>2 DEF FunctionsKept
  <2>4. stackTop' = stackTop - 1 /\ frameStack' = frameStack
    BY <1>7 DEF StoreSymbol, Pop
  <2>5. CASE Advance
    <3>1. stackTop' = stackTop - 1 + 0 /\ ip' = ip + 1 /\ UNCHANGED <<code, callers, status>>
      BY <1>e, <2>4, <2>5 DEF Advance, Goto
    <3> QED
      BY <1>a, <1>b, <2>1, <2>3, <2>4, <3>1, Effects, MoveSound
  <2>6. CASE Throw
    <3>1. status' = "error"
      BY <2>6 DEF Throw
    <3> QED
      BY <1>a, <1>b, <2>3, <3>1, StopSound DEF Statuses
  <2> QED
    BY <1>7, <2>5, <2>6 DEF StoreSymbol
<1>8. CASE LoadLocalSymbol
  <2>1. Running /\ op = "LoadLocal" /\ symbols' = symbols
    BY <1>8, <1>d DEF LoadLocalSymbol
  <2>2. CASE InFrame
    <3>1. stackTop' = stackTop - 0 + 1 /\ ip' = ip + 1
           /\ UNCHANGED <<frameStack, code, callers, status>>
      BY <1>8, <2>2 DEF LoadLocalSymbol, PopPush, Advance, Goto
    <3> QED
      BY <1>a, <1>b, <1>c, <2>1, <3>1, Effects, MoveSound
  <2>3. CASE ~InFrame
    <3>1. status' = "error"
      BY <1>8, <2>3 DEF LoadLocalSymbol, Throw
    <3> QED
      BY <1>a, <1>b, <1>c, <2>1, <3>1, StopSound DEF Statuses
  <2> QED
    BY <2>2, <2>3
<1>9. CASE StoreLocalSymbol
  <2>1. Running /\ op = "StoreLocal" /\ symbols' = symbols /\ frameStack' = frameStack
    BY <1>9, <1>d DEF StoreLocalSymbol
  <2>2. CASE Throw
    <3>1. status' = "error"
      BY <2>2 DEF Throw
    <3> QED
      BY <1>a, <1>b, <1>c, <2>1, <3>1, StopSound DEF Statuses
  <2>3. CASE stackTop' = stackTop - 1 /\ Advance
    <3>1. stackTop' = stackTop - 1 + 0 /\ ip' = ip + 1 /\ UNCHANGED <<code, callers, status>>
      BY <1>e, <2>3 DEF Advance, Goto
    <3> QED
      BY <1>a, <1>b, <1>c, <2>1, <3>1, Effects, MoveSound
  <2> QED
    BY <1>9, <2>2, <2>3 DEF StoreLocalSymbol
<1>10. CASE Jump
  <2>1. Running /\ op = "Jmp" /\ Arg = InstructionAt(module, code, ip).arg
    BY <1>10, <1>d DEF Jump
  <2>2. stackTop' = stackTop - 0 + 0 /\ ip' = ip + Arg
         /\ UNCHANGED <<symbols, frameStack, code, callers, status>>
    BY <1>10, <1>e DEF Jump, JumpTarget, Goto, stack
  <2> QED
    BY <1>a, <1>b, <1>c, <2>1, <2>2, Effects, MoveSound
<1>11. CASE JumpIfFalse
  <2>1. Running /\ op = "JmpIfFalse" /\ Arg = InstructionAt(module, code, ip).arg
    BY <1>11, <1>d DEF JumpIfFalse
  <2>2. stackTop' = stackTop - 1 + 0 /\ ip' \in {ip + 1, ip + Arg}
         /\ UNCHANGED <<symbols, frameStack, code, callers, status>>
    BY <1>11, <1>e DEF JumpIfFalse, JumpTarget, Advance, Goto, Pop
  <2> QED
    BY <1>a, <1>b, <1>c, <2>1, <2>2, Effects, MoveSound
<1>12. CASE UnsupportedOp
  <2>1. status' = "error" /\ symbols' = symbols
    BY <1>12 DEF UnsupportedOp, Throw
  <2> QED
    BY <1>a, <1>b, <1>c, <2>1, StopSound DEF Statuses
<1>13. CASE CallUserFunction
  <2> DEFINE f == Callee(module, code, ip)
  <2>1. Running /\ op = "Call" /\ CallsFunction(module, code, ip)
    BY <1>13, <1>d, DisciplineAt DEF CallUserFunction
  <2>2. slots[stackTop] = Integer(f)
    BY <1>b, <2>1 DEF Sound, StackSound, RunSound
  <2>3. IntegerReads(slots[stackTop]) = {f}
    BY <2>2 DEF IntegerReads, Integer
  <2>4. f \in FunctionIds(module) /\ f \in DOMAIN symbols /\ symbols[f].type = "UserFunc"
    BY <1>b, <2>1
       DEF CallsFunction, Sound, StackSound, FunctionsKept, TypeInv, TypeOK, FunctionIds
  <2>5. EnterFunction(f) /\ UNCHANGED <<module, symbols>>
    BY <1>13, <2>3, <2>4 DEF CallUserFunction
  <2> QED
    BY <1>b, <2>1, <2>4, <2>5, EnterSound
<1>14. CASE ReturnOp
  <2>1. Running /\ op = "Return" /\ UNCHANGED <<module, symbols, frames>>
    BY <1>14, <1>d DEF ReturnOp
  <2>2. InFrame
    BY <1>b, <2>1, ReturnSlot
  <2>3. LeaveRun /\ stackTop' = ResultSlot /\ frameTop' = frameTop - 1
    BY <1>14, <2>2 DEF ReturnOp
  <2> QED
    BY <1>b, <2>1, <2>2, <2>3, LeaveSound
<1>15. CASE Halt
  <2>1. Running /\ symbols' = symbols /\ code = Main
    BY <1>15, <1>d, DisciplineAt DEF Halt
  <2>2. frameTop = -1 /\ Len(callers) = frameTop + 1
    BY <1>b, <2>1, RunningCode DEF Sound, StackSound
  <2>3. callers = <<>>
    BY <1>b, <2>2, EmptySeq DEF Sound, TypeInv, TypeOK
  <2>4. status' = "halted"
    BY <1>15, <2>3 DEF Halt, LeaveRun
  <2> QED
    BY <1>a, <1>b, <1>c, <2>1, <2>4, StopSound DEF Statuses
<1>16. CASE RunOffCode
  BY <1>16, <1>b, RunningInstruction DEF RunOffCode
<1>17. CASE AccessOutside
  <2>1. Running
    BY <1>17 DEF AccessOutside, Executes
  <2>2. ~ \E i \in Touched : i < 0
    BY <1>b, <2>1, TouchedAbove
  <2>3. status' = "overrun" /\ symbols' = symbols
    BY <1>17, <2>2 DEF AccessOutside, Stray
  <2> QED
    BY <1>a, <1>b, <1>c, <2>3, StopSound DEF Statuses
<1>18. CASE UNCHANGED vars
  BY <1>18 DEF vars, stack, frameStack, control, StackSound, RunsDisciplined, FunctionsKept,
     Running, FrameSound, RunSound, Counts, CodeOf, OperandsFrom, FrameEnd, CodeSize
<1> QED
  BY <1>1, <1>2, <1>3, <1>4, <1>5, <1>6, <1>7, <1>8, <1>9, <1>10, <1>11, <1>12, <1>13,
     <1>14, <1>15, <1>16, <1>17, <1>18 DEF Next, Stopped

-----------------------------------------------------------------------------
(* The properties.                                                         *)

\* The invariant is one of every behaviour.
THEOREM StackSoundness == Spec => [](TypeInv /\ StackSound)
BY InitTyped, NextTyped, InitSound, NextSound, PTL DEF Spec

\* No access of VM.cpp that is not checked goes below the stack or outside a
\* code vector or the symbol table, when the code keeps the discipline.
THEOREM NeverWildAccess == Spec => []NeverWild
<1>1. TypeInv /\ StackSound => NeverWild
  BY DEF StackSound, NeverWild
<1> QED
  BY <1>1, StackSoundness, PTL

\* Frames do not overlap and the operands are where the code counts on them.
THEOREM FramesDisciplined == Spec => []FrameDiscipline
<1>1. TypeInv /\ StackSound => FrameDiscipline
  <2> SUFFICES ASSUME TypeInv, StackSound, RunsDisciplined, Running PROVE FrameDiscipline
    BY DEF FrameDiscipline
  <2>1. Sound
    BY DEF Sound
  <2>2. Len(callers) = frameTop + 1 /\ frameTop \in (-1)..(FrameLimit - 1) /\ stackTop \in Int
    BY <2>1, SizesAssumption DEF Sound, StackSound, TypeInv, TypeOK
  <2>3. \A k \in 0..frameTop : frames[k].bsp >= 0
    BY <2>1 DEF Sound, StackSound, FrameSound
  <2>4. ASSUME NEW k \in 1..frameTop PROVE FrameEnd(k - 1) <= frames[k].bsp
    <3>1. k \in 0..frameTop /\ k - 1 \in 0..frameTop /\ k \in FrameIndices /\ k - 1 \in FrameIndices
           /\ k # 0
      BY <2>2, SizesAssumption DEF FrameIndices
    <3>2. FrameSound(k) /\ FrameSound(k - 1)
      BY <2>1, <3>1 DEF Sound, StackSound
    <3> DEFINE c == CodeOf(k)
               i == callers[k + 1].ip
               nargs == module.nargs[frames[k].funcIndex]
    <3>3. c \in CodeIds(module) /\ module \in DisciplinedModules /\ nargs \in Nat
      BY <2>1, <3>1, <3>2, RunningCode, FunctionsIndexed
         DEF FrameSound, CodeOf, Sound, TypeInv, TypeOK
    <3>4. i \in 0..(Len(module.code[c]) - 1) /\ OpAt(module, c, i) = "Call"
           /\ Callee(module, c, i) = frames[k].funcIndex
           /\ Height(module, c)[i] = frames[k].bsp - FrameEnd(k - 1) + nargs + 1
      BY <3>1, <3>2 DEF FrameSound, Counts, OperandsFrom
    <3>5. Height(module, c)[i] >= 1 + nargs /\ Height(module, c)[i] \in Nat
      <4>1. CallsFunction(module, c, i)
        BY <3>3, <3>4, DisciplineAt
      <4>2. Takes(module, c, i) = 1 + nargs
        BY <3>4, <4>1, Effects
      <4> QED
        BY <3>3, <3>4, <4>2, DisciplineAt
    <3>6. frames[k].bsp \in Int /\ FrameEnd(k - 1) \in Int
      <4>1. frames[k] \in Frame /\ frames[k - 1] \in Frame
        BY <2>1, <3>1 DEF Sound, TypeInv, TypeOK
      <4> QED
        BY <4>1, SizesAssumption DEF Frame, Byte, FrameEnd
    <3> HIDE DEF c, i, nargs
    <3> QED
      BY <3>3, <3>4, <3>5, <3>6
  <2>5. InFrame => stackTop + 1 = FrameEnd(frameTop) + Height(module, code)[ip]
    BY <2>1, RunningOperands DEF FrameEnd, CurrentFrame
  <2>6. ~InFrame => stackTop + 1 >= Height(module, code)[ip]
    <3>1. ~InFrame => OperandsFrom(frameTop + 1) = 0
      BY <2>1, RunningCode DEF InFrame, OperandsFrom
    <3> QED
      BY <2>1, <2>2, <3>1, RunningOperands
  <2> QED
    BY <2>2, <2>3, <2>4, <2>5, <2>6 DEF FrameDiscipline
<1> QED
  BY <1>1, StackSoundness, PTL

\* A slot at or above the base of the frame is written, if any.
LEMMA WritesAboveBase ==
  ASSUME TypeInv, StackSound, RunsDisciplined, InFrame, [Next]_vars
  PROVE  slots' = slots \/ \E i \in Int : \E r : CurrentFrame.bsp \in 0..i /\ slots' = [slots EXCEPT ![i] = r]
<1> DEFINE op == OpAt(module, code, ip)
           Written(i) == CurrentFrame.bsp \in 0..i /\ \E r : slots' = [slots EXCEPT ![i] = r]
<1>a. Sound /\ stackTop \in Int
  BY DEF Sound, TypeInv, TypeOK
<1>b. ASSUME NEW ops, Step(ops)
      PROVE  /\ Running /\ op \in ops /\ module \in DisciplinedModules /\ code \in CodeIds(module)
             /\ ip \in 0..(Len(module.code[code]) - 1)
             /\ Arg = InstructionAt(module, code, ip).arg
  BY <1>a, <1>b, RunningInstruction, RunningCode DEF Step, Executes
<1>c. ASSUME NEW i \in Int, Written(i)
      PROVE  \E j \in Int : \E r : CurrentFrame.bsp \in 0..j /\ slots' = [slots EXCEPT ![j] = r]
  BY <1>c
<1>d. ASSUME Running, NEW n \in Nat, n = Takes(module, code, ip), NEW r, PopPush(n, r)
      PROVE  \E j \in Int : \E q : CurrentFrame.bsp \in 0..j /\ slots' = [slots EXCEPT ![j] = q]
  <2> DEFINE high == Height(module, code)[ip]
             taken == Takes(module, code, ip)
             base == CurrentFrame.bsp
             locals == CurrentFrame.nlocals
  <2>1. high \in Nat /\ taken <= high /\ base \in Nat /\ locals \in Nat
         /\ stackTop + 1 = base + locals + high
    BY <1>a, <1>d, RunningOperands
  <2>2. taken \in Nat
    BY <1>a, <1>d, RunningCode, TakesTyped
  <2>3. stackTop - n + 1 >= base /\ stackTop - n + 1 \in Int
    <3> HIDE DEF high, taken, base, locals
    <3>1. n <= taken
      BY <1>d DEF taken
    <3> QED
      BY <1>a, <1>d, <2>1, <2>2, <3>1
  <2>4. base \in 0..(stackTop - n + 1)
    BY <2>1, <2>3
  <2>5. Written(stackTop - n + 1)
    BY <1>d, <2>4 DEF PopPush
  <2> QED
    BY <2>3, <2>5, <1>c
<1>1. CASE PushConstant
  <2>1. Running /\ Takes(module, code, ip) = 0
    BY <1>1, <1>b, Effects DEF PushConstant
  <2>2. \E r : PopPush(0, r)
    BY <1>1 DEF PushConstant
  <2> QED
    BY <2>1, <2>2, <1>d
<1>2. CASE BinaryOp
  <2>1. Running /\ Takes(module, code, ip) = 2
    BY <1>2, <1>b, Effects DEF BinaryOp
  <2>2. slots' = slots \/ \E r : PopPush(2, r)
    BY <1>2 DEF BinaryOp, Compute, Pop
  <2> QED
    BY <2>1, <2>2, <1>d
<1>3. CASE UnaryOp
  <2>1. Running /\ Takes(module, code, ip) = 1
    BY <1>3, <1>b, Effects DEF UnaryOp
  <2>2. slots' = slots \/ \E r : PopPush(1, r)
    BY <1>3 DEF UnaryOp, Compute, Pop
  <2> QED
    BY <2>1, <2>2, <1>d
<1>4. CASE LoadSymbol
  <2>1. Running /\ Takes(module, code, ip) = 0
    BY <1>4, <1>b, Effects DEF LoadSymbol
  <2>2. slots' = slots \/ \E r : PopPush(0, r)
    BY <1>4 DEF LoadSymbol, stack
  <2> QED
    BY <2>1, <2>2, <1>d
<1>5. CASE LoadLocalSymbol
  <2>1. Running /\ Takes(module, code, ip) = 0
    BY <1>5, <1>b, Effects DEF LoadLocalSymbol
  <2>2. \E r : PopPush(0, r)
    BY <1>5 DEF LoadLocalSymbol
  <2> QED
    BY <2>1, <2>2, <1>d
<1>6. CASE StoreLocalSymbol
  <2>1. Running /\ op = "StoreLocal"
    BY <1>6, <1>b DEF StoreLocalSymbol
  <2>2. slots' = slots \/ \E r : slots' = [slots EXCEPT ![LocalSlot(Arg)] = r]
    BY <1>6 DEF StoreLocalSymbol, Pop
  <2>3. Arg \in Nat
    <3>1. Arg \in 0..(module.nlocals[code] - 1)
      BY <1>6, <2>1, <1>b, DisciplineAt DEF StoreLocalSymbol
    <3> QED
      BY <3>1
  <2>4. LocalSlot(Arg) \in Int /\ CurrentFrame.bsp \in 0..LocalSlot(Arg)
    <3>1. CurrentFrame.bsp \in Nat
      BY <1>a, <2>1, RunningOperands
    <3> QED
      BY <2>3, <3>1 DEF LocalSlot
  <2> QED
    BY <2>2, <2>4, <1>c
<1>7. CASE ReturnOp
  <2>1. slots' = [slots EXCEPT ![ResultSlot] = Pushed(@, slots[stackTop])]
    BY <1>7 DEF ReturnOp
  <2>2. Running /\ ResultSlot = CurrentFrame.bsp /\ CurrentFrame.bsp \in Nat
    BY <1>7, <1>a, <1>b, ReturnSlot DEF ReturnOp
  <2>3. ResultSlot \in Int /\ CurrentFrame.bsp \in 0..ResultSlot
    BY <2>2
  <2>4. Written(ResultSlot)
    BY <2>1, <2>3
  <2> QED
    BY <2>3, <2>4, <1>c
<1>8. CASE CallUserFunction
  BY <1>8 DEF CallUserFunction, EnterFunction, Pop
<1>9. CASE ~(\/ PushConstant \/ BinaryOp \/ UnaryOp \/ LoadSymbol \/ LoadLocalSymbol
             \/ StoreLocalSymbol \/ ReturnOp \/ CallUserFunction)
  BY <1>9 DEF Next, vars, stack, NopOp, PushNone, StoreSymbol, Jump, JumpIfFalse, UnsupportedOp,
     Halt, RunOffCode, AccessOutside, Stray, Stopped, Pop
<1> QED
  BY <1>1, <1>2, <1>3, <1>4, <1>5, <1>6, <1>7, <1>8, <1>9

\* A function changes no slot below its frame.
THEOREM CallersKept == Spec => CallerSlotsIntact
<1>1. TypeInv /\ StackSound /\ [Next]_vars =>
        [RunsDisciplined /\ InFrame =>
           \A i \in SlotIndices : i < CurrentFrame.bsp => slots'[i] = slots[i]]_vars
  <2> SUFFICES ASSUME TypeInv, StackSound, [Next]_vars, RunsDisciplined, InFrame,
                      NEW i \in SlotIndices, i < CurrentFrame.bsp
               PROVE  slots'[i] = slots[i]
    OBVIOUS
  <2>1. CASE slots' = slots
    BY <2>1
  <2>2. CASE \E j \in Int : \E r : CurrentFrame.bsp \in 0..j /\ slots' = [slots EXCEPT ![j] = r]
    <3>1. PICK j \in Int : \E r : CurrentFrame.bsp \in 0..j /\ slots' = [slots EXCEPT ![j] = r]
      BY <2>2
    <3>2. i # j
      BY <3>1 DEF SlotIndices
    <3> QED
      BY <3>1, <3>2 DEF TypeInv, TypeOK
  <2> QED
    BY <2>1, <2>2, WritesAboveBase
<1> QED
  BY <1>1, StackSoundness, PTL DEF Spec, CallerSlotsIntact

\* A return leaves its record where the arguments began.
THEOREM ReturnsReplace == Spec => ReturnReplacesArguments
<1>1. TypeInv /\ StackSound /\ [Next]_vars =>
        [RunsDisciplined /\ frameTop' < frameTop => stackTop' = CurrentFrame.bsp]_vars
  <2> SUFFICES ASSUME TypeInv, StackSound, [Next]_vars, RunsDisciplined, frameTop' < frameTop
               PROVE  stackTop' = CurrentFrame.bsp
    OBVIOUS
  <2>1. frameTop \in Int
    BY DEF TypeInv, TypeOK
  <2>2. frameTop' # frameTop /\ frameTop' # frameTop + 1
    BY <2>1
  <2>3. ReturnOp /\ InFrame
    BY <2>2 DEF Next, vars, frameStack, NopOp, PushConstant, PushNone, BinaryOp, UnaryOp, LoadSymbol,
       StoreSymbol, LoadLocalSymbol, StoreLocalSymbol, Jump, JumpIfFalse, UnsupportedOp,
       CallUserFunction, EnterFunction, ReturnOp, Halt, RunOffCode, AccessOutside, Stray, Stopped
  <2>4. Sound
    BY DEF Sound
  <2>5. Running /\ OpAt(module, code, ip) = "Return"
    BY <2>3, <2>4, RunningInstruction DEF ReturnOp, Step, Executes
  <2> QED
    BY <2>3, <2>4, <2>5, ReturnSlot DEF ReturnOp
<1> QED
  BY <1>1, StackSoundness, PTL DEF Spec, ReturnReplacesArguments

-----------------------------------------------------------------------------
(* All frames are in order, not only each and the next.                    *)

\* The locals of a frame end before any later frame begins.
FramesOrdered ==
  RunsDisciplined /\ Running =>
    \A j, k \in 0..frameTop : j < k => FrameEnd(j) <= frames[k].bsp

\* What is known of the frames of a running machine.
LEMMA FramesTyped ==
  ASSUME Sound, Running, NEW k \in 0..frameTop
  PROVE  /\ k \in FrameIndices /\ FrameSound(k)
         /\ frames[k].bsp \in Nat /\ frames[k].nlocals \in Nat /\ FrameEnd(k) \in Nat
         /\ frames[k].bsp <= FrameEnd(k)
<1>1. k \in FrameIndices /\ FrameSound(k)
  <2>1. frameTop \in (-1)..(FrameLimit - 1) /\ FrameLimit \in Int
    BY RunningCode, SizesAssumption
  <2> QED
    BY <2>1 DEF Sound, StackSound, FrameIndices
<1>2. frames[k] \in Frame
  BY <1>1 DEF Sound, TypeInv, TypeOK
<1>3. frames[k].bsp \in Nat /\ frames[k].nlocals \in Nat
  BY <1>1, <1>2, SizesAssumption DEF Frame, Byte, FrameSound
<1> QED
  BY <1>1, <1>3 DEF FrameEnd

\* The module stays, and a machine that stopped does not run again.
LEMMA NextRuns ==
  ASSUME [Next]_vars
  PROVE  module' = module /\ RunsDisciplined' = RunsDisciplined /\ (Running' => Running)
<1>1. module' = module
  BY DEF Next, vars, NopOp, PushConstant, PushNone, BinaryOp, UnaryOp, LoadSymbol, StoreSymbol,
     LoadLocalSymbol, StoreLocalSymbol, Jump, JumpIfFalse, UnsupportedOp, CallUserFunction,
     ReturnOp, Halt, RunOffCode, AccessOutside, Stray, Stopped
<1>2. Running' => Running
  BY DEF Next, vars, NopOp, PushConstant, PushNone, BinaryOp, UnaryOp, LoadSymbol, StoreSymbol,
     LoadLocalSymbol, StoreLocalSymbol, Jump, JumpIfFalse, UnsupportedOp, CallUserFunction,
     ReturnOp, Halt, RunOffCode, AccessOutside, Stopped, Step, Executes, Running
<1> QED
  BY <1>1, <1>2 DEF RunsDisciplined

\* A call that does not fail enters the function whose index is on top.
LEMMA CallEnters ==
  ASSUME Sound, Running, Running', CallUserFunction
  PROVE  /\ OpAt(module, code, ip) = "Call" /\ FrameExists(frameTop + 1)
         /\ Callee(module, code, ip) \in FunctionIds(module)
         /\ EnterFunction(Callee(module, code, ip))
<1> DEFINE f == Callee(module, code, ip)
<1>1. OpAt(module, code, ip) = "Call"
  BY RunningInstruction DEF CallUserFunction, Step, Executes
<1>2. CallsFunction(module, code, ip)
  BY <1>1, RunningCode, DisciplineAt
<1>3. slots[stackTop] = Integer(f)
  BY <1>1 DEF Sound, StackSound, RunSound
<1>4. IntegerReads(slots[stackTop]) = {f}
  BY <1>3 DEF IntegerReads, Integer
<1>5. f \in FunctionIds(module) /\ f \in DOMAIN symbols /\ symbols[f].type = "UserFunc"
  BY <1>2 DEF CallsFunction, Sound, StackSound, FunctionsKept, TypeInv, TypeOK, FunctionIds
<1>6. EnterFunction(f)
  BY <1>4, <1>5 DEF CallUserFunction
<1>7. FrameExists(frameTop + 1)
  BY <1>6 DEF EnterFunction, Throw, Running
<1> QED
  BY <1>1, <1>5, <1>6, <1>7

\* Each step leaves the frames as they are, gives back the last, or enters one.
LEMMA FrameSteps ==
  ASSUME TypeInv, StackSound, RunsDisciplined, Running, [Next]_vars, Running'
  PROVE  \/ UNCHANGED frameStack
         \/ frames' = frames /\ frameTop' = frameTop - 1
         \/ /\ OpAt(module, code, ip) = "Call" /\ FrameExists(frameTop + 1)
            /\ Callee(module, code, ip) \in FunctionIds(module)
            /\ EnterFunction(Callee(module, code, ip))
<1>1. CASE CallUserFunction
  <2>1. Sound
    BY DEF Sound
  <2> QED
    BY <1>1, <2>1, CallEnters
<1>2. CASE ReturnOp
  BY <1>2 DEF ReturnOp, frameStack
<1>3. CASE ~CallUserFunction /\ ~ReturnOp
  BY <1>3 DEF Next, vars, frameStack, NopOp, PushConstant, PushNone, BinaryOp, UnaryOp, LoadSymbol,
     StoreSymbol, LoadLocalSymbol, StoreLocalSymbol, Jump, JumpIfFalse, UnsupportedOp,
     Halt, RunOffCode, AccessOutside, Stray, Stopped
<1> QED
  BY <1>1, <1>2, <1>3

\* A call builds its frame above the operands of the caller, and above its locals.
LEMMA FrameAbove ==
  ASSUME Sound, Running, OpAt(module, code, ip) = "Call", FrameExists(frameTop + 1),
         NEW f \in FunctionIds(module), f = Callee(module, code, ip), EnterFunction(f)
  PROVE  /\ frameTop' = frameTop + 1 /\ frameTop + 1 \in FrameIndices
         /\ \A j \in 0..frameTop : frames'[j] = frames[j]
         /\ frames'[frameTop + 1] = NewFrame(f, stackTop - 1)
         /\ frames'[frameTop + 1].bsp = stackTop - module.nargs[f]
         /\ frames'[frameTop + 1].nlocals = module.nlocals[f]
         /\ frames'[frameTop + 1].funcIndex = f
         /\ OperandsFrom(frameTop + 1) <= stackTop - module.nargs[f]
         /\ slots' = slots
         /\ stackTop' = stackTop - 1 + module.nlocals[f] - module.nargs[f]
<1> DEFINE nargs == module.nargs[f]
           nlocals == module.nlocals[f]
           k == frameTop + 1
<1>1. module \in DisciplinedModules /\ module \in Modules /\ frameTop \in Int /\ k \in Nat
       /\ code \in CodeIds(module) /\ ip \in 0..(Len(module.code[code]) - 1)
  BY RunningCode DEF DisciplinedModules
<1>2. nargs \in Nat /\ nlocals \in Nat /\ stackTop \in Int
  BY <1>1, FunctionsIndexed DEF Sound, TypeInv, TypeOK
<1>3. nlocals < ByteMod
  BY <1>1 DEF DisciplinedModules, Disciplined
<1>4. k \in FrameIndices
  BY <1>1, SizesAssumption DEF FrameExists, FrameIndices
<1>5. frames' = [frames EXCEPT ![k] = NewFrame(f, stackTop - 1)] /\ frameTop' = k
       /\ stackTop' = stackTop - 1 + (nlocals - nargs) /\ slots' = slots
  BY DEF EnterFunction, Reserved
<1>6. frames'[k] = NewFrame(f, stackTop - 1) /\ \A j \in 0..frameTop : frames'[j] = frames[j]
  BY <1>1, <1>4, <1>5 DEF Sound, TypeInv, TypeOK
<1>7. nlocals % ByteMod = nlocals
  BY <1>2, <1>3, SizesAssumption
<1>8. NewFrame(f, stackTop - 1).bsp = stackTop - 1 - nargs + 1
       /\ NewFrame(f, stackTop - 1).nlocals = nlocals /\ NewFrame(f, stackTop - 1).funcIndex = f
  BY <1>7 DEF NewFrame, FrameBase, CountedLocals
<1>9. CallsFunction(module, code, ip)
  BY <1>1, DisciplineAt
<1>10. Takes(module, code, ip) = 1 + nargs
  BY <1>9, Effects
<1>11. OperandsFrom(k) \in Nat /\ OperandsFrom(k) + Height(module, code)[ip] <= stackTop + 1
        /\ 1 + nargs <= Height(module, code)[ip] /\ Height(module, code)[ip] \in Nat
  BY <1>10, RunningOperands
<1> HIDE DEF nargs, nlocals, k
<1>12. OperandsFrom(k) <= stackTop - nargs
        /\ stackTop - 1 + (nlocals - nargs) = stackTop - 1 + nlocals - nargs
        /\ stackTop - 1 - nargs + 1 = stackTop - nargs
  BY <1>2, <1>11
<1> QED
  BY <1>4, <1>5, <1>6, <1>8, <1>12 DEF nargs, nlocals, k

\* A machine that was just made has no frames, and every step keeps their order.
LEMMA OrderKept ==
  /\ Init => FramesOrdered
  /\ TypeInv /\ StackSound /\ FramesOrdered /\ [Next]_vars => FramesOrdered'
<1>1. Init => FramesOrdered
  <2>1. Init => \A j, k \in 0..frameTop : FALSE
    BY DEF Init
  <2> QED
    BY <2>1 DEF FramesOrdered
<1>2. ASSUME TypeInv, StackSound, FramesOrdered, [Next]_vars, RunsDisciplined', Running'
      PROVE  \A j, k \in 0..frameTop' : j < k => FrameEnd(j)' <= frames'[k].bsp
  <2>1. RunsDisciplined /\ Running
    BY <1>2, NextRuns
  <2>2. Sound
    BY <1>2, <2>1 DEF Sound
  <2>3. frameTop \in Int /\ \A j, k \in 0..frameTop : j < k => FrameEnd(j) <= frames[k].bsp
    BY <1>2, <2>1, <2>2, RunningCode DEF FramesOrdered
  <2>4. CASE frames' = frames /\ frameTop' \in {frameTop, frameTop - 1}
    BY <2>3, <2>4 DEF FrameEnd
  <2>5. CASE /\ OpAt(module, code, ip) = "Call" /\ FrameExists(frameTop + 1)
             /\ Callee(module, code, ip) \in FunctionIds(module)
             /\ EnterFunction(Callee(module, code, ip))
    <3> DEFINE top == frameTop + 1
               bsp == frames'[top].bsp
    <3>1. /\ frameTop' = top /\ \A j \in 0..frameTop : frames'[j] = frames[j]
          /\ OperandsFrom(top) <= bsp
      BY <2>1, <2>2, <2>5, FrameAbove
    <3>2. \A j \in 0..frameTop : FrameEnd(j)' = FrameEnd(j)
      BY <3>1 DEF FrameEnd
    <3>3. ASSUME NEW j \in 0..frameTop PROVE FrameEnd(j) <= bsp
      <4>1. OperandsFrom(top) = FrameEnd(frameTop)
        BY <2>3, <3>3 DEF OperandsFrom
      <4>2. frameTop \in 0..frameTop
        BY <2>3, <3>3
      <4>3. FrameEnd(frameTop) \in Nat /\ FrameEnd(j) \in Nat /\ frames[frameTop].bsp \in Nat
             /\ frames[frameTop].bsp <= FrameEnd(frameTop)
        BY <2>1, <2>2, <3>3, <4>2, FramesTyped
      <4>4. j = frameTop \/ FrameEnd(j) <= frames[frameTop].bsp
        BY <2>3, <3>3, <4>2
      <4>5. bsp \in Int
        <5>1. Callee(module, code, ip) \in Nat /\ module.nargs[Callee(module, code, ip)] \in Nat
          BY <2>2, <2>5, FunctionsIndexed DEF Sound, TypeInv, TypeOK
        <5>2. bsp = stackTop - module.nargs[Callee(module, code, ip)]
          BY <2>1, <2>2, <2>5, FrameAbove
        <5> QED
          BY <2>2, <5>1, <5>2 DEF Sound, TypeInv, TypeOK
      <4> HIDE DEF bsp
      <4> QED
        BY <3>1, <4>1, <4>3, <4>4, <4>5
    <3> HIDE DEF bsp
    <3>4. ASSUME NEW j \in 0..frameTop', NEW k \in 0..frameTop', j < k
          PROVE  FrameEnd(j)' <= frames'[k].bsp
      <4>1. j \in 0..frameTop /\ (k = top \/ k \in 0..frameTop)
        BY <2>3, <3>1, <3>4
      <4>2. CASE k = top
        BY <3>2, <3>3, <4>1, <4>2 DEF bsp
      <4>3. CASE k \in 0..frameTop
        BY <2>3, <3>1, <3>2, <3>4, <4>1, <4>3
      <4> QED
        BY <4>1, <4>2, <4>3
    <3> QED
      BY <3>4
  <2> QED
    BY <1>2, <2>1, <2>4, <2>5, FrameSteps DEF frameStack
<1>3. TypeInv /\ StackSound /\ FramesOrdered /\ [Next]_vars => FramesOrdered'
  BY <1>2 DEF FramesOrdered
<1> QED
  BY <1>1, <1>3

-----------------------------------------------------------------------------
(* The activations that the frames tell apart.                             *)

\* A function on 1..n is a sequence of length n.
LEMMA TupleLength ==
  ASSUME NEW n \in Nat, NEW s, s = [k \in 1..n |-> s[k]]
  PROVE  Len(s) = n
<1>1. s \in Seq({s[k] : k \in 1..n})
  BY SeqDef
<1>2. DOMAIN s = 1..n /\ DOMAIN s = 1..Len(s) /\ Len(s) \in Nat
  BY <1>1, LenProperties
<1> QED
  BY <1>2

\* A running machine has one activation for each frame, and that of Main.
LEMMA RunsListed ==
  ASSUME Sound, Running
  PROVE  /\ Len(Runs) = frameTop + 2
         /\ \A k \in 0..(frameTop + 1) : Runs[k + 1] = RunOf(k)
<1>1. frameTop + 2 \in Nat /\ frameTop \in Int
  BY RunningCode
<1>2. Runs = [k \in 1..(frameTop + 2) |-> RunOf(k - 1)]
  BY DEF Runs, Sound
<1>3. Len(Runs) = frameTop + 2
  BY <1>1, <1>2, TupleLength
<1> QED
  BY <1>1, <1>2, <1>3

\* The same after a step, whatever it does to the frames.
LEMMA RunsListedNext ==
  ASSUME RunsDisciplined', Running', NEW top \in Int, top + 2 \in Nat, frameTop' = top
  PROVE  /\ Len(Runs') = top + 2
         /\ \A k \in 0..(top + 1) : Runs'[k + 1] = RunOf(k)'
<1> DEFINE R(k) == RunOf(k)'
<1>1. Runs' = [k \in 1..(top + 2) |-> R(k - 1)]
  BY DEF Runs
<1> HIDE DEF R
<1>2. Len(Runs') = top + 2
  BY <1>1, TupleLength
<1>3. \A k \in 0..(top + 1) : Runs'[k + 1] = R(k)
  BY <1>1
<1> QED
  BY <1>2, <1>3 DEF R

\* The locals of a run stay with its frame and the slots below its operands.
LEMMA LocalsKept ==
  ASSUME NEW k,
         k # 0 => /\ frames'[k - 1] = frames[k - 1]
                  /\ frames[k - 1].bsp \in Nat /\ frames[k - 1].nlocals \in Nat
                  /\ \A i \in Int : i < FrameEnd(k - 1) => SlotAt(i)' = SlotAt(i)
  PROVE  LocalsOf(k)' = LocalsOf(k)
<1>1. CASE k = 0
  BY <1>1 DEF LocalsOf
<1>2. CASE k # 0
  <2>1. PICK b, n : b = frames[k - 1].bsp /\ n = frames[k - 1].nlocals
    OBVIOUS
  <2>2. b \in Nat /\ n \in Nat /\ frames'[k - 1] = frames[k - 1] /\ b + n = FrameEnd(k - 1)
    BY <1>2, <2>1 DEF FrameEnd
  <2>3. LocalsOf(k) = [i \in 0..(n - 1) |-> SlotAt(b + i)]
         /\ LocalsOf(k)' = [i \in 0..(n - 1) |-> SlotAt(b + i)']
    BY <1>2, <2>1, <2>2 DEF LocalsOf, SlotAt
  <2>4. \A i \in 0..(n - 1) : SlotAt(b + i)' = SlotAt(b + i)
    <3>1. \A i \in 0..(n - 1) : b + i \in Int /\ b + i < b + n
      BY <2>2
    <3> QED
      BY <1>2, <2>2, <3>1
  <2> QED
    BY <2>3, <2>4
<1> QED
  BY <1>1, <1>2

\* A run has as many operands as there are slots for them.
LEMMA OperandsListed ==
  ASSUME NEW k, OperandsTo(k) - OperandsFrom(k) \in Nat
  PROVE  /\ Len(OperandsOf(k)) = OperandsTo(k) - OperandsFrom(k)
         /\ \A i \in 1..(OperandsTo(k) - OperandsFrom(k)) :
              OperandsOf(k)[i] = SlotAt(OperandsFrom(k) + i - 1)
BY TupleLength DEF OperandsOf

\* A run whose operands end n lower and then m higher has exchanged them.
LEMMA OperandsExchanged ==
  ASSUME NEW k, NEW from \in Nat, NEW to \in Int, NEW n \in Nat, NEW m \in Nat,
         OperandsFrom(k) = from, OperandsFrom(k)' = from,
         OperandsTo(k) = to, OperandsTo(k)' = to - n + m, from + n <= to,
         \A i \in Int : from <= i /\ i < to - n => SlotAt(i)' = SlotAt(i)
  PROVE  /\ Abstract!Exchanged(OperandsOf(k), OperandsOf(k)', n, m)
         /\ Len(OperandsOf(k)') = to - n + m - from
         /\ \A i \in 1..(to - n + m - from) : OperandsOf(k)'[i] = SlotAt(from + i - 1)'
<1>1. OperandsOf(k) = [i \in 1..(to - from) |-> SlotAt(from + i - 1)]
       /\ OperandsOf(k)' = [i \in 1..(to - n + m - from) |-> SlotAt(from + i - 1)']
  BY DEF OperandsOf, SlotAt
<1>2. to - from \in Nat /\ to - n + m - from \in Nat
  OBVIOUS
<1>3. Len(OperandsOf(k)) = to - from /\ Len(OperandsOf(k)') = to - n + m - from
  BY <1>1, <1>2, TupleLength
<1>4. \A i \in 1..(to - from - n) :
        OperandsOf(k)'[i] = SlotAt(from + i - 1)' /\ OperandsOf(k)[i] = SlotAt(from + i - 1)
  <2>1. \A i \in 1..(to - from - n) : i \in 1..(to - from) /\ i \in 1..(to - n + m - from)
    OBVIOUS
  <2> QED
    BY <1>1, <2>1
<1>5. \A i \in 1..(to - from - n) : SlotAt(from + i - 1)' = SlotAt(from + i - 1)
  <2>1. \A i \in 1..(to - from - n) : from + i - 1 \in Int /\ from + i - 1 < to - n
                                      /\ from <= from + i - 1
    OBVIOUS
  <2> QED
    BY <2>1
<1>6. n <= to - from /\ to - n + m - from = to - from - n + m
  OBVIOUS
<1> QED
  BY <1>1, <1>3, <1>4, <1>5, <1>6 DEF Abstract!Exchanged

\* A step that changes no slot below the running frame, nor the frames up to
\* that of run k, leaves a suspended run k as it is.
LEMMA SuspendedKept ==
  ASSUME Sound, Running, FramesOrdered, NEW k \in 0..frameTop, k # frameTop' + 1,
         \A j \in 0..k : frames'[j] = frames[j],
         \A i \in SlotIndices : InFrame /\ i < CurrentFrame.bsp => slots'[i] = slots[i]
  PROVE  RunOf(k)' = RunOf(k)
<1>1. frameTop \in Int /\ frameTop \in 0..frameTop /\ k # frameTop + 1 /\ InFrame
  BY RunningCode DEF InFrame
<1>2. frames[k].bsp \in Nat /\ CurrentFrame.bsp \in Nat /\ frames[k].bsp <= CurrentFrame.bsp
  <2>1. frames[k].bsp \in Nat /\ frames[k].bsp <= FrameEnd(k) /\ FrameEnd(k) \in Nat
         /\ CurrentFrame.bsp \in Nat
    BY <1>1, FramesTyped DEF CurrentFrame
  <2>2. k = frameTop \/ FrameEnd(k) <= CurrentFrame.bsp
    BY <1>1 DEF FramesOrdered, Sound, CurrentFrame
  <2> QED
    BY <2>1, <2>2 DEF CurrentFrame
<1>3. \A i \in Int : i < frames[k].bsp => SlotAt(i)' = SlotAt(i)
  BY <1>1, <1>2 DEF SlotAt, SlotIndices
<1>4. k # 0 => /\ k - 1 \in 0..k /\ k - 1 \in 0..frameTop
               /\ frames[k - 1].bsp \in Nat /\ frames[k - 1].nlocals \in Nat
               /\ frames[k - 1].bsp + frames[k - 1].nlocals <= frames[k].bsp
  <2> SUFFICES ASSUME k # 0
               PROVE  /\ k - 1 \in 0..k /\ k - 1 \in 0..frameTop
                      /\ frames[k - 1].bsp \in Nat /\ frames[k - 1].nlocals \in Nat
                      /\ frames[k - 1].bsp + frames[k - 1].nlocals <= frames[k].bsp
    OBVIOUS
  <2>1. k - 1 \in 0..k /\ k - 1 \in 0..frameTop /\ k - 1 < k
    BY <1>1
  <2> QED
    BY <2>1, FramesTyped DEF FramesOrdered, Sound, FrameEnd
<1>5. CodeOf(k)' = CodeOf(k) /\ OperandsFrom(k)' = OperandsFrom(k)
  BY <1>4 DEF CodeOf, OperandsFrom, FrameEnd
<1>6. LocalsOf(k)' = LocalsOf(k)
  <2>1. k # 0 => /\ frames'[k - 1] = frames[k - 1]
                 /\ \A i \in Int : i < FrameEnd(k - 1) => SlotAt(i)' = SlotAt(i)
    BY <1>2, <1>3, <1>4 DEF FrameEnd
  <2> QED
    BY <1>4, <2>1, LocalsKept
<1>7. OperandsOf(k)' = OperandsOf(k)
  <2>0. PICK from, n : from = OperandsFrom(k) /\ n = frames[k].bsp - from
    OBVIOUS
  <2>1. OperandsTo(k) = frames[k].bsp /\ OperandsTo(k)' = frames[k].bsp /\ from \in Nat
    <3>1. k = 0 \/ from = frames[k - 1].bsp + frames[k - 1].nlocals
      BY <2>0 DEF OperandsFrom, FrameEnd
    <3>2. from \in Nat
      BY <1>4, <2>0, <3>1 DEF OperandsFrom
    <3>3. frames'[k] = frames[k]
      OBVIOUS
    <3> QED
      BY <1>1, <3>2, <3>3 DEF OperandsTo
  <2>2. OperandsOf(k) = [i \in 1..n |-> SlotAt(from + i - 1)]
         /\ OperandsOf(k)' = [i \in 1..n |-> SlotAt(from + i - 1)']
    BY <1>5, <2>0, <2>1 DEF OperandsOf, SlotAt
  <2>3. \A i \in 1..n : SlotAt(from + i - 1)' = SlotAt(from + i - 1)
    <3>1. \A i \in 1..n : from + i - 1 \in Int /\ from + i - 1 < frames[k].bsp
      BY <1>2, <2>0, <2>1
    <3> QED
      BY <1>3, <3>1
  <2> QED
    BY <2>2, <2>3
<1> QED
  BY <1>5, <1>6, <1>7 DEF RunOf

-----------------------------------------------------------------------------
(* The steps.                                                              *)

\* The run that is active: where its operands are, and that it stays the same
\* up to them.
LEMMA ActiveKept ==
  ASSUME Sound, Running, FramesOrdered, Running', module' = module, UNCHANGED frameStack,
         NEW top \in Int, top = frameTop,
         \A i \in SlotIndices : InFrame /\ i < CurrentFrame.bsp => slots'[i] = slots[i]
  PROVE  /\ Len(Runs) = top + 2 /\ Len(Runs') = top + 2
         /\ Runs[top + 2] = RunOf(top + 1) /\ Runs'[top + 2] = RunOf(top + 1)'
         /\ \A k \in 1..(top + 1) : Runs'[k] = Runs[k]
         /\ CodeOf(top + 1)' = CodeOf(top + 1)
         /\ OperandsFrom(top + 1) \in Nat /\ OperandsFrom(top + 1)' = OperandsFrom(top + 1)
         /\ OperandsTo(top + 1) = stackTop + 1 /\ OperandsTo(top + 1)' = stackTop' + 1
         /\ (\A i \in SlotIndices : i < OperandsFrom(top + 1) => slots'[i] = slots[i])
              => LocalsOf(top + 1)' = LocalsOf(top + 1)
<1>1. top + 1 \in Nat /\ top + 2 \in Nat /\ frames' = frames /\ frameTop' = top
       /\ RunsDisciplined'
  BY RunningCode DEF frameStack, Sound, RunsDisciplined
<1>2. Len(Runs) = top + 2 /\ \A k \in 0..(top + 1) : Runs[k + 1] = RunOf(k)
  BY RunsListed
<1>3. Len(Runs') = top + 2 /\ \A k \in 0..(top + 1) : Runs'[k + 1] = RunOf(k)'
  BY <1>1, RunsListedNext
<1>4. \A k \in 0..top : RunOf(k)' = RunOf(k)
  <2>1. \A k \in 0..top : k # frameTop' + 1
    BY <1>1
  <2> QED
    BY <1>1, <2>1, SuspendedKept
<1>5. \A k \in 1..(top + 1) : Runs'[k] = Runs[k]
  <2>1. \A k \in 1..(top + 1) : k - 1 \in 0..(top + 1) /\ k - 1 \in 0..top /\ k - 1 + 1 = k
    OBVIOUS
  <2> QED
    BY <1>2, <1>3, <1>4, <2>1
<1>6. top + 1 \in 0..(top + 1) /\ top + 1 + 1 = top + 2 /\ top + 1 - 1 = top
  BY <1>1
<1>7. Runs[top + 2] = RunOf(top + 1) /\ Runs'[top + 2] = RunOf(top + 1)'
  BY <1>2, <1>3, <1>6
<1>8. CodeOf(top + 1)' = CodeOf(top + 1) /\ OperandsFrom(top + 1)' = OperandsFrom(top + 1)
       /\ OperandsTo(top + 1) = stackTop + 1 /\ OperandsTo(top + 1)' = stackTop' + 1
  BY <1>1 DEF CodeOf, OperandsFrom, OperandsTo, FrameEnd
<1>9. OperandsFrom(top + 1) \in Nat
  BY RunningOperands
<1>10. ASSUME \A i \in SlotIndices : i < OperandsFrom(top + 1) => slots'[i] = slots[i]
       PROVE  LocalsOf(top + 1)' = LocalsOf(top + 1)
  <2>1. \A i \in Int : i < OperandsFrom(top + 1) => SlotAt(i)' = SlotAt(i)
    BY <1>10 DEF SlotAt, SlotIndices
  <2>2. top + 1 # 0 => top \in 0..frameTop /\ OperandsFrom(top + 1) = FrameEnd(top)
    BY <1>1, <1>6 DEF OperandsFrom
  <2>3. top + 1 # 0 => /\ frames'[top] = frames[top]
                       /\ frames[top].bsp \in Nat /\ frames[top].nlocals \in Nat
                       /\ \A i \in Int : i < FrameEnd(top) => SlotAt(i)' = SlotAt(i)
    BY <1>1, <2>1, <2>2, FramesTyped
  <2> QED
    BY <1>6, <2>3, LocalsKept
<1> QED
  BY <1>2, <1>3, <1>5, <1>7, <1>8, <1>9, <1>10

\* A step that takes n operands and gives m, and leaves the slots below, is one
\* of the activation alone.
LEMMA ComputeStep ==
  ASSUME Sound, Running, FramesOrdered, Running', module' = module, UNCHANGED frameStack,
         NEW n \in 0..2, NEW m \in 0..1, n <= Height(module, code)[ip],
         stackTop' = stackTop - n + m,
         \A i \in SlotIndices : i <= stackTop - n => slots'[i] = slots[i]
  PROVE  Abstract!Compute
<1>0. PICK top \in Int : top = frameTop /\ top + 2 \in Nat /\ top + 2 > 0
  BY RunningCode
<1>1. PICK from : from = OperandsFrom(top + 1)
  OBVIOUS
<1>2. from \in Nat /\ from + n <= stackTop + 1 /\ stackTop \in Int
       /\ (InFrame => CurrentFrame.bsp <= from)
  BY <1>0, <1>1, RunningOperands DEF Sound, TypeInv, TypeOK
<1>3. \A i \in SlotIndices : i < from => slots'[i] = slots[i]
  BY <1>2 DEF SlotIndices
<1>4. \A i \in SlotIndices : InFrame /\ i < CurrentFrame.bsp => slots'[i] = slots[i]
  <2>1. InFrame => CurrentFrame.bsp \in Nat
    BY RunningOperands
  <2> QED
    BY <1>2, <1>3, <2>1 DEF SlotIndices
<1>5. /\ Len(Runs) = top + 2 /\ Len(Runs') = top + 2
      /\ Runs[top + 2] = RunOf(top + 1) /\ Runs'[top + 2] = RunOf(top + 1)'
      /\ \A k \in 1..(top + 1) : Runs'[k] = Runs[k]
      /\ CodeOf(top + 1)' = CodeOf(top + 1) /\ LocalsOf(top + 1)' = LocalsOf(top + 1)
      /\ OperandsFrom(top + 1)' = from
      /\ OperandsTo(top + 1) = stackTop + 1 /\ OperandsTo(top + 1)' = stackTop' + 1
  BY <1>0, <1>1, <1>3, <1>4, ActiveKept
<1>6. Abstract!Exchanged(OperandsOf(top + 1), OperandsOf(top + 1)', n, m)
  <2>1. stackTop' + 1 = stackTop + 1 - n + m /\ n \in Nat /\ m \in Nat /\ stackTop + 1 \in Int
    BY <1>2
  <2>2. \A i \in Int : from <= i /\ i < stackTop + 1 - n => SlotAt(i)' = SlotAt(i)
    BY <1>2 DEF SlotAt, SlotIndices
  <2> QED
    BY <1>1, <1>2, <1>5, <2>1, <2>2, OperandsExchanged
<1>7. Abstract!Keeps(top + 1) /\ Abstract!GoesOn(top + 2)
  BY <1>5 DEF Abstract!Keeps, Abstract!GoesOn, RunOf
<1>8. Runs[top + 2].operands = OperandsOf(top + 1)
       /\ Runs'[top + 2].operands = OperandsOf(top + 1)'
  BY <1>5 DEF RunOf
<1>9. top + 2 - 1 = top + 1
  BY <1>0
<1> QED
  BY <1>0, <1>5, <1>6, <1>7, <1>8, <1>9 DEF Abstract!Compute, Abstract!Depth

\* A store to a local moves the last operand of the activation to it.
LEMMA StoreStep ==
  ASSUME Sound, Running, FramesOrdered, Running', StoreLocalSymbol
  PROVE  Abstract!StoreLocal
<1>0. PICK top \in Int : top = frameTop /\ top + 2 \in Nat
  BY RunningCode
<1>1. PICK from, base, n, a : /\ from = OperandsFrom(top + 1) /\ a = Arg
                              /\ base = CurrentFrame.bsp /\ n = CurrentFrame.nlocals
  OBVIOUS
<1>2. OpAt(module, code, ip) = "StoreLocal" /\ Fetched.op = "StoreLocal"
       /\ Arg = InstructionAt(module, code, ip).arg /\ Touched \subseteq SlotIndices
       /\ Fetched \in Instruction
  BY RunningInstruction, FetchedTyped DEF StoreLocalSymbol, Step, Executes, Sound, TypeInv
<1>3. InFrame /\ Arg \in 0..(module.nlocals[code] - 1)
  <2>1. code # Main /\ Arg \in 0..(module.nlocals[code] - 1)
    BY <1>2, RunningCode, DisciplineAt
  <2> QED
    BY <2>1, RunningCode DEF InFrame
<1>4. from \in Nat /\ base \in Nat /\ n \in Nat /\ from = base + n /\ a \in 0..(n - 1)
       /\ from + 1 <= stackTop + 1 /\ stackTop \in Int
  <2>1. Takes(module, code, ip) = 1
    BY <1>2, Effects
  <2>2. PICK high : /\ high \in Nat /\ 1 <= high /\ from \in Nat
                    /\ stackTop + 1 = from + high
                    /\ from = base + n /\ base \in Nat /\ n \in Nat
                    /\ n = module.nlocals[code]
    BY <1>0, <1>1, <1>3, <2>1, RunningOperands
  <2>3. stackTop \in Int
    BY DEF Sound, TypeInv, TypeOK
  <2>4. a \in 0..(n - 1)
    BY <1>1, <1>3, <2>2
  <2> QED
    BY <2>2, <2>3, <2>4
<1>5. base + a \in SlotIndices /\ stackTop \in SlotIndices
  <2>1. Touched = {base + a, stackTop}
    BY <1>1, <1>2, <1>3, TouchedSlots DEF LocalSlot
  <2> QED
    BY <1>2, <2>1
<1>6. slots' = [slots EXCEPT ![base + a] = slots[stackTop]] /\ stackTop' = stackTop - 1
       /\ module' = module /\ UNCHANGED frameStack
  BY <1>1, <1>3 DEF StoreLocalSymbol, Throw, Running, LocalSlot
<1>7. /\ \A i \in SlotIndices : i # base + a => slots'[i] = slots[i]
      /\ slots'[base + a] = slots[stackTop]
  BY <1>5, <1>6 DEF Sound, TypeInv, TypeOK
<1>8. \A i \in Int : i # base + a => SlotAt(i)' = SlotAt(i)
  BY <1>7 DEF SlotAt, SlotIndices
<1>9. SlotAt(base + a)' = SlotAt(stackTop)
  BY <1>5, <1>7 DEF SlotAt
<1>10. /\ Len(Runs) = top + 2 /\ Len(Runs') = top + 2
       /\ Runs[top + 2] = RunOf(top + 1) /\ Runs'[top + 2] = RunOf(top + 1)'
       /\ \A k \in 1..(top + 1) : Runs'[k] = Runs[k]
       /\ CodeOf(top + 1)' = CodeOf(top + 1)
       /\ OperandsFrom(top + 1)' = from
       /\ OperandsTo(top + 1) = stackTop + 1 /\ OperandsTo(top + 1)' = stackTop' + 1
  <2>1. \A i \in SlotIndices : i < base => slots'[i] = slots[i]
    BY <1>4, <1>7 DEF SlotIndices
  <2> QED
    BY <1>0, <1>1, <1>6, <2>1, ActiveKept
<1>11. /\ Abstract!Exchanged(OperandsOf(top + 1), OperandsOf(top + 1)', 1, 0)
       /\ Len(OperandsOf(top + 1)) = stackTop + 1 - from
       /\ OperandsOf(top + 1)[Len(OperandsOf(top + 1))] = SlotAt(stackTop)
  <2>1. PICK to \in Int, p \in Nat, q \in Nat : to = stackTop + 1 /\ p = 1 /\ q = 0
    BY <1>4
  <2>2. \A i \in Int : from <= i /\ i < to - p => SlotAt(i)' = SlotAt(i)
    BY <1>4, <1>8, <2>1
  <2>3. /\ Abstract!Exchanged(OperandsOf(top + 1), OperandsOf(top + 1)', p, q)
        /\ Len(OperandsOf(top + 1)) = to - from
        /\ \A i \in 1..(to - from) : OperandsOf(top + 1)[i] = SlotAt(from + i - 1)
    <3>1. OperandsTo(top + 1)' = to - p + q /\ OperandsTo(top + 1) = to /\ from + p <= to
           /\ OperandsFrom(top + 1) = from /\ OperandsFrom(top + 1)' = from /\ from \in Nat
      BY <1>1, <1>4, <1>6, <1>10, <2>1
    <3>2. Abstract!Exchanged(OperandsOf(top + 1), OperandsOf(top + 1)', p, q)
      BY <2>1, <2>2, <3>1, OperandsExchanged
    <3>3. OperandsTo(top + 1) - OperandsFrom(top + 1) \in Nat
      BY <2>1, <3>1
    <3> QED
      BY <3>1, <3>2, <3>3, OperandsListed
  <2>4. to - from \in 1..(to - from) /\ from + (to - from) - 1 = stackTop
    BY <1>4, <2>1
  <2> QED
    <3>1. Len(OperandsOf(top + 1)) \in 1..(to - from) /\ Len(OperandsOf(top + 1)) = to - from
      BY <2>1, <2>3, <2>4
    <3>2. OperandsOf(top + 1)[to - from] = SlotAt(stackTop)
      BY <2>1, <2>3, <2>4
    <3>3. Abstract!Exchanged(OperandsOf(top + 1), OperandsOf(top + 1)', 1, 0)
      BY <2>1, <2>3
    <3> QED
      BY <1>4, <2>1, <3>1, <3>2, <3>3
<1>12. /\ LocalsOf(top + 1) = [i \in 0..(n - 1) |-> SlotAt(base + i)]
       /\ LocalsOf(top + 1)' = [i \in 0..(n - 1) |-> SlotAt(base + i)']
  <2>1. top + 1 # 0 /\ top + 1 - 1 = top /\ frames' = frames
    BY <1>0, <1>3, <1>6 DEF InFrame, frameStack
  <2>2. frames[top].bsp = base /\ frames[top].nlocals = n
    BY <1>0, <1>1 DEF CurrentFrame
  <2> QED
    BY <2>1, <2>2 DEF LocalsOf, SlotAt
<1>13. LocalsOf(top + 1)' = [LocalsOf(top + 1) EXCEPT ![a] = SlotAt(stackTop)]
  <2>1. \A i \in 0..(n - 1) : base + i \in Int /\ (i = a <=> base + i = base + a)
    BY <1>4
  <2>2. \A i \in 0..(n - 1) : SlotAt(base + i)' = IF i = a THEN SlotAt(stackTop) ELSE SlotAt(base + i)
    BY <1>8, <1>9, <2>1
  <2> QED
    BY <1>4, <1>12, <2>2
<1>14. Abstract!Keeps(top + 1) /\ Runs'[top + 2].code = Runs[top + 2].code
  BY <1>10 DEF Abstract!Keeps, RunOf
<1>15. /\ Runs[top + 2].operands = OperandsOf(top + 1) /\ Runs[top + 2].locals = LocalsOf(top + 1)
       /\ Runs'[top + 2].operands = OperandsOf(top + 1)'
       /\ Runs'[top + 2].locals = LocalsOf(top + 1)'
  BY <1>10 DEF RunOf
<1>16. top + 2 - 1 = top + 1 /\ top + 2 > 0 /\ a \in DOMAIN LocalsOf(top + 1)
  BY <1>0, <1>3, <1>4, <1>12 DEF InFrame
<1> QED
  BY <1>10, <1>11, <1>13, <1>14, <1>15, <1>16 DEF Abstract!StoreLocal, Abstract!Depth

\* A call makes an activation of the arguments.
LEMMA EnterStep ==
  ASSUME Sound, Running, FramesOrdered, Running', module' = module,
         OpAt(module, code, ip) = "Call", FrameExists(frameTop + 1),
         NEW f \in FunctionIds(module), f = Callee(module, code, ip), EnterFunction(f),
         Touched \subseteq SlotIndices
  PROVE  Abstract!Call
<1>0. PICK top \in Int : top = frameTop /\ top + 1 \in Nat
  BY RunningCode
<1>1. PICK from, to, n, m : /\ from = OperandsFrom(top + 1) /\ to = stackTop + 1
                            /\ n = module.nargs[f] /\ m = module.nlocals[f]
  OBVIOUS
<1>2. /\ frameTop' = top + 1
      /\ \A j \in 0..top : frames'[j] = frames[j]
      /\ frames'[top + 1].bsp = to - 1 - n /\ frames'[top + 1].nlocals = m
      /\ frames'[top + 1].funcIndex = f
      /\ from <= to - 1 - n /\ slots' = slots /\ stackTop' = to - 2 + m - n
      /\ from \in Nat /\ to \in Int /\ n \in Nat /\ m \in Nat
  <2>1. n \in Nat /\ m \in Nat /\ stackTop \in Int /\ from \in Nat
    BY <1>0, <1>1, FunctionsIndexed, RunningOperands DEF Sound, TypeInv, TypeOK
  <2>2. stackTop - n = to - 1 - n /\ stackTop - 1 + m - n = to - 2 + m - n /\ to \in Int
    BY <1>1, <2>1
  <2> QED
    BY <1>0, <1>1, <2>1, <2>2, FrameAbove
<1>3. Len(Runs) = top + 2 /\ \A k \in 0..(top + 1) : Runs[k + 1] = RunOf(k)
  BY <1>0, RunsListed
<1>4. Len(Runs') = top + 3 /\ \A k \in 0..(top + 2) : Runs'[k + 1] = RunOf(k)'
  <2>1. PICK u \in Int : u = top + 1 /\ u + 2 \in Nat
    BY <1>0
  <2>2. RunsDisciplined' /\ frameTop' = u
    BY <1>2, <2>1 DEF Sound, RunsDisciplined
  <2>3. Len(Runs') = u + 2 /\ \A k \in 0..(u + 1) : Runs'[k + 1] = RunOf(k)'
    BY <2>1, <2>2, RunsListedNext
  <2>4. u + 2 = top + 3 /\ u + 1 = top + 2
    BY <2>1
  <2> QED
    BY <2>3, <2>4
<1>5. Runs[top + 2] = RunOf(top + 1) /\ Runs'[top + 2] = RunOf(top + 1)'
       /\ Runs'[top + 3] = RunOf(top + 2)'
  <2>1. top + 1 \in 0..(top + 1) /\ top + 1 \in 0..(top + 2) /\ top + 1 + 1 = top + 2
         /\ top + 2 \in 0..(top + 2) /\ top + 2 + 1 = top + 3
    BY <1>0
  <2> QED
    BY <1>3, <1>4, <2>1
<1>6. \A k \in 1..(top + 1) : Runs'[k] = Runs[k]
  <2>1. \A k \in 0..top : RunOf(k)' = RunOf(k)
    <3>1. \A k \in 0..top : k # frameTop' + 1 /\ \A j \in 0..k : j \in 0..top
      BY <1>0, <1>2
    <3> QED
      BY <1>0, <1>2, <3>1, SuspendedKept
  <2>2. \A k \in 1..(top + 1) : k - 1 \in 0..(top + 1) /\ k - 1 \in 0..(top + 2)
                               /\ k - 1 \in 0..top /\ k - 1 + 1 = k
    BY <1>0
  <2> QED
    BY <1>3, <1>4, <2>1, <2>2
<1>7. \A i : SlotAt(i)' = SlotAt(i)
  BY <1>2 DEF SlotAt, SlotIndices
<1>8. CodeOf(top + 1)' = CodeOf(top + 1) /\ OperandsFrom(top + 1)' = from
       /\ OperandsTo(top + 1) = to /\ OperandsTo(top + 1)' = to - 1 - n
       /\ CodeOf(top + 2)' = f /\ OperandsFrom(top + 2)' = to - 1 - n + m
       /\ OperandsTo(top + 2)' = to - 1 - n + m
  <2>1. top + 1 # 0 => top + 1 - 1 = top /\ top \in 0..top
    BY <1>0
  <2>2. top + 2 # 0 /\ top + 2 - 1 = top + 1 /\ top + 1 # top + 2 /\ top + 1 + 1 = top + 2
    BY <1>0
  <2>3. stackTop' + 1 = to - 1 - n + m
    BY <1>2
  <2> QED
    BY <1>0, <1>1, <1>2, <2>1, <2>2, <2>3 DEF CodeOf, OperandsFrom, OperandsTo, FrameEnd
<1>9. LocalsOf(top + 1)' = LocalsOf(top + 1)
  <2>1. top + 1 # 0 => top + 1 - 1 = top /\ top \in 0..frameTop
    BY <1>0
  <2> QED
    BY <1>0, <1>2, <1>7, <2>1, FramesTyped, LocalsKept
<1>10. Abstract!Exchanged(OperandsOf(top + 1), OperandsOf(top + 1)', n + 1, 0)
  <2>1. PICK p \in Nat, q \in Nat : p = n + 1 /\ q = 0
    BY <1>2
  <2>2. OperandsTo(top + 1)' = to - p + q /\ from + p <= to
    BY <1>2, <1>8, <2>1
  <2>3. Abstract!Exchanged(OperandsOf(top + 1), OperandsOf(top + 1)', p, q)
    BY <1>1, <1>2, <1>7, <1>8, <2>1, <2>2, OperandsExchanged
  <2> QED
    BY <2>1, <2>3
<1>11. Len(OperandsOf(top + 1)) = to - from
        /\ \A i \in 1..(to - from) : OperandsOf(top + 1)[i] = SlotAt(from + i - 1)
  <2>1. OperandsTo(top + 1) - OperandsFrom(top + 1) = to - from /\ to - from \in Nat
    BY <1>1, <1>2, <1>8
  <2> QED
    BY <1>1, <2>1, OperandsListed
<1>12. OperandsOf(top + 1)[to - from] = Abstract!Index(f)
  <2>1. to - from \in 1..(to - from) /\ from + (to - from) - 1 = stackTop
    <3>1. stackTop \in Int /\ to = stackTop + 1 /\ from \in Nat /\ n \in Nat /\ from <= to - 1 - n
      BY <1>1, <1>2 DEF Sound, TypeInv, TypeOK
    <3> QED
      BY <3>1
  <2>2. stackTop \in SlotIndices
    <3>1. Fetched.op = "Call" /\ Fetched \in Instruction
      BY RunningInstruction, FetchedTyped DEF Sound, TypeInv
    <3> QED
      BY <3>1, TouchedSlots
  <2>3. slots[stackTop] = Integer(f)
    BY DEF Sound, StackSound, RunSound
  <2> QED
    BY <1>11, <2>1, <2>2, <2>3 DEF SlotAt, Integer, Abstract!Index
<1>13. LocalsOf(top + 2)' = [i \in 0..(m - 1) |-> SlotAt(to - 1 - n + i)]
  <2>1. top + 2 # 0 /\ top + 2 - 1 = top + 1
    BY <1>0
  <2>2. LocalsOf(top + 2)' = [i \in 0..(m - 1) |-> SlotAt(to - 1 - n + i)']
    BY <1>2, <2>1 DEF LocalsOf, SlotAt
  <2> QED
    BY <1>2, <2>2 DEF SlotAt, SlotIndices
<1>14. DOMAIN LocalsOf(top + 2)' = 0..(m - 1)
        /\ \A i \in DOMAIN LocalsOf(top + 2)' : i < n =>
             LocalsOf(top + 2)'[i] = OperandsOf(top + 1)[to - from - n + i]
  <2>1. \A i \in 0..(m - 1) : i < n => /\ to - from - n + i \in 1..(to - from)
                                      /\ from + (to - from - n + i) - 1 = to - 1 - n + i
    BY <1>2
  <2> QED
    BY <1>11, <1>13, <2>1
<1>15. Len(OperandsOf(top + 2)') = 0
  <2>1. OperandsTo(top + 2)' - OperandsFrom(top + 2)' = 0
    BY <1>2, <1>8
  <2>2. OperandsOf(top + 2)' = [i \in 1..0 |-> SlotAt(OperandsFrom(top + 2) + i - 1)']
    BY <2>1 DEF OperandsOf, SlotAt
  <2> QED
    BY <2>2, TupleLength
<1>16. /\ Runs[top + 2].operands = OperandsOf(top + 1) /\ Runs[top + 2].code = CodeOf(top + 1)
       /\ Runs[top + 2].locals = LocalsOf(top + 1)
       /\ Runs'[top + 2].operands = OperandsOf(top + 1)' /\ Runs'[top + 2].code = CodeOf(top + 1)'
       /\ Runs'[top + 2].locals = LocalsOf(top + 1)'
       /\ Runs'[top + 3].operands = OperandsOf(top + 2)' /\ Runs'[top + 3].code = CodeOf(top + 2)'
       /\ Runs'[top + 3].locals = LocalsOf(top + 2)'
  BY <1>5 DEF RunOf
<1>17. Abstract!Keeps(top + 1) /\ Abstract!GoesOn(top + 2)
  BY <1>6, <1>8, <1>9, <1>16 DEF Abstract!Keeps, Abstract!GoesOn
<1>18. top + 2 - 1 = top + 1 /\ top + 2 + 1 = top + 3 /\ top + 2 > 0
  BY <1>0
<1>19. Abstract!Depth = top + 2 /\ Len(Runs') = top + 3
  BY <1>3, <1>4 DEF Abstract!Depth
<1>20. f = Runs'[top + 3].code /\ n = module.nargs[f] /\ m = module.nlocals[f]
  BY <1>1, <1>8, <1>16
<1>21. Abstract!Exchanged(Runs[top + 2].operands, Runs'[top + 2].operands, n + 1, 0)
  BY <1>10, <1>16
<1>22. Runs[top + 2].operands[Len(Runs[top + 2].operands)] = Abstract!Index(f)
        /\ Len(Runs[top + 2].operands) - n = to - from - n
  BY <1>11, <1>12, <1>16
<1>23. /\ DOMAIN Runs'[top + 3].locals = 0..(m - 1)
       /\ \A i \in DOMAIN Runs'[top + 3].locals : i < n =>
            Runs'[top + 3].locals[i] = Runs[top + 2].operands[to - from - n + i]
       /\ Len(Runs'[top + 3].operands) = 0
  BY <1>14, <1>15, <1>16
<1>24. PICK caller, again, called :
         /\ caller = Runs[top + 2] /\ again = Runs'[top + 2] /\ called = Runs'[top + 3]
  OBVIOUS
<1>25. /\ caller = Runs[Abstract!Depth] /\ again = Runs'[Abstract!Depth]
       /\ called = Runs'[Abstract!Depth + 1]
       /\ Abstract!Depth > 0 /\ Len(Runs') = Abstract!Depth + 1
       /\ Abstract!Keeps(Abstract!Depth - 1) /\ Abstract!GoesOn(Abstract!Depth)
  BY <1>17, <1>18, <1>19, <1>24
<1>26. /\ called.code = f /\ n = module.nargs[f] /\ m = module.nlocals[f]
       /\ Abstract!Exchanged(caller.operands, again.operands, n + 1, 0)
       /\ caller.operands[Len(caller.operands)] = Abstract!Index(f)
       /\ DOMAIN called.locals = 0..(m - 1)
       /\ \A i \in DOMAIN called.locals : i < n =>
            called.locals[i] = caller.operands[Len(caller.operands) - n + i]
       /\ Len(called.operands) = 0
  BY <1>20, <1>21, <1>22, <1>23, <1>24
<1>27. Abstract!FunctionIds(module) = FunctionIds(module)
  BY DEF Abstract!FunctionIds, FunctionIds
<1> QED
  BY <1>25, <1>26, <1>27 DEF Abstract!Call

\* A return ends an activation, whose one operand the caller takes back.
LEMMA ReturnStep ==
  ASSUME Sound, Running, FramesOrdered, Running', ReturnOp
  PROVE  Abstract!Return
<1>1. OpAt(module, code, ip) = "Return" /\ Touched \subseteq SlotIndices
       /\ Fetched.op = "Return" /\ Fetched \in Instruction
  BY RunningInstruction, FetchedTyped DEF ReturnOp, Step, Executes, Sound, TypeInv
<1>2. InFrame /\ ResultSlot = CurrentFrame.bsp /\ Height(module, code)[ip] = 1
  BY <1>1, ReturnSlot, RunningCode, DisciplineAt
<1>3. PICK top \in Nat, b \in Nat, t \in Int :
        /\ top = frameTop /\ b = CurrentFrame.bsp /\ t = stackTop
        /\ b =< OperandsFrom(top + 1) /\ t = OperandsFrom(top + 1)
  <2>1. frameTop \in Nat /\ stackTop \in Int
    BY <1>2, RunningCode DEF InFrame, Sound, TypeInv, TypeOK
  <2>2. CurrentFrame.bsp \in Nat /\ CurrentFrame.bsp <= OperandsFrom(frameTop + 1)
         /\ stackTop + 1 = OperandsFrom(frameTop + 1) + 1 /\ OperandsFrom(frameTop + 1) \in Nat
    BY <1>2, RunningOperands
  <2>3. stackTop = OperandsFrom(frameTop + 1)
    BY <2>1, <2>2
  <2> QED
    BY <2>1, <2>2, <2>3
<1>4. /\ slots' = [slots EXCEPT ![b] = Pushed(slots[b], slots[t])] /\ stackTop' = b
      /\ frameTop' = top - 1 /\ frames' = frames /\ module' = module
      /\ b \in SlotIndices /\ t \in SlotIndices
  <2>1. Touched = {stackTop, ResultSlot}
    BY <1>1, <1>2, TouchedSlots
  <2> QED
    BY <1>1, <1>2, <1>3, <2>1 DEF ReturnOp
<1>5. /\ \A i \in Int : i < b => SlotAt(i)' = SlotAt(i)
      /\ SlotAt(b)' = Pushed(SlotAt(b), SlotAt(t))
  BY <1>4 DEF SlotAt, SlotIndices, Sound, TypeInv, TypeOK
<1>6. Len(Runs) = top + 2 /\ \A k \in 0..(top + 1) : Runs[k + 1] = RunOf(k)
  BY <1>3, RunsListed
<1>7. Len(Runs') = top + 1 /\ \A k \in 0..top : Runs'[k + 1] = RunOf(k)'
  <2>1. PICK u \in Int : u = top - 1 /\ u + 2 \in Nat /\ u + 2 = top + 1 /\ u + 1 = top
    BY <1>3
  <2>2. RunsDisciplined' /\ frameTop' = u
    BY <1>4, <2>1 DEF Sound, RunsDisciplined
  <2>3. Len(Runs') = u + 2 /\ \A k \in 0..(u + 1) : Runs'[k + 1] = RunOf(k)'
    BY <2>1, <2>2, RunsListedNext
  <2> QED
    BY <2>1, <2>3
<1>8. \A k \in 1..top : Runs'[k] = Runs[k]
  <2>1. \A k \in 0..(top - 1) : RunOf(k)' = RunOf(k)
    <3>1. \A k \in 0..(top - 1) : k \in 0..frameTop /\ k # frameTop' + 1
      BY <1>3, <1>4
    <3>2. \A i \in SlotIndices : InFrame /\ i < CurrentFrame.bsp => slots'[i] = slots[i]
      BY <1>3, <1>4 DEF SlotIndices, Sound, TypeInv, TypeOK
    <3> QED
      BY <1>4, <3>1, <3>2, SuspendedKept
  <2>2. \A k \in 1..top : k - 1 \in 0..(top + 1) /\ k - 1 \in 0..top /\ k - 1 \in 0..(top - 1)
                         /\ k - 1 + 1 = k
    BY <1>3
  <2> QED
    BY <1>6, <1>7, <2>1, <2>2
<1>9. PICK from \in Nat : from = OperandsFrom(top) /\ from <= b
       /\ (top # 0 => /\ frames[top - 1].bsp \in Nat /\ frames[top - 1].nlocals \in Nat
                      /\ from = FrameEnd(top - 1))
  <2>1. CASE top = 0
    BY <1>3, <2>1 DEF OperandsFrom
  <2>2. CASE top # 0
    <3>1. top - 1 \in 0..frameTop /\ top \in 0..frameTop /\ top - 1 < top
      BY <1>3, <2>2
    <3>2. FrameEnd(top - 1) <= b
      BY <1>3, <3>1 DEF FramesOrdered, Sound, CurrentFrame
    <3> QED
      BY <2>2, <3>1, <3>2, FramesTyped DEF OperandsFrom
  <2> QED
    BY <2>1, <2>2
<1>10. /\ CodeOf(top)' = CodeOf(top) /\ OperandsFrom(top)' = from
       /\ OperandsTo(top) = b /\ OperandsTo(top)' = b + 1
       /\ OperandsTo(top + 1) = t + 1
  <2>1. top # frameTop + 1 /\ top = frameTop' + 1 /\ frames[top].bsp = b /\ stackTop' + 1 = b + 1
    BY <1>3, <1>4 DEF CurrentFrame
  <2> QED
    BY <1>3, <1>4, <1>9, <2>1 DEF CodeOf, OperandsFrom, OperandsTo, FrameEnd
<1>11. LocalsOf(top)' = LocalsOf(top)
  <2>1. top # 0 => \A i \in Int : i < FrameEnd(top - 1) => SlotAt(i)' = SlotAt(i)
    <3>1. \A i \in Int : i < from => i < b
      BY <1>3, <1>9
    <3> QED
      BY <1>5, <1>9, <3>1
  <2> QED
    BY <1>4, <1>9, <2>1, LocalsKept
<1>12. /\ Abstract!Exchanged(OperandsOf(top), OperandsOf(top)', 0, 1)
       /\ Len(OperandsOf(top)') = b + 1 - from
       /\ OperandsOf(top)'[b + 1 - from] = SlotAt(b)'
  <2>1. PICK p \in Nat, q \in Nat : p = 0 /\ q = 1
    OBVIOUS
  <2>2. OperandsTo(top)' = b - p + q /\ from + p <= b /\ b - p + q - from = b + 1 - from
    BY <1>9, <1>10, <2>1
  <2>3. \A i \in Int : from <= i /\ i < b - p => SlotAt(i)' = SlotAt(i)
    BY <1>5, <2>1
  <2>4. Abstract!Exchanged(OperandsOf(top), OperandsOf(top)', p, q)
    BY <1>9, <1>10, <2>1, <2>2, <2>3, OperandsExchanged
  <2>5. PICK n \in Nat : n = b + 1 - from /\ n \in 1..n /\ from + n - 1 = b
    BY <1>9
  <2>6. OperandsOf(top)' = [i \in 1..n |-> SlotAt(from + i - 1)']
    BY <1>9, <1>10, <2>5 DEF OperandsOf, SlotAt
  <2>7. Len(OperandsOf(top)') = n
    BY <2>6, TupleLength
  <2>8. OperandsOf(top)'[n] = SlotAt(b)'
    BY <2>5, <2>6
  <2> QED
    BY <2>1, <2>4, <2>5, <2>7, <2>8
<1>13. Len(OperandsOf(top + 1)) = 1 /\ OperandsOf(top + 1)[1] = SlotAt(t)
  <2>1. OperandsTo(top + 1) - OperandsFrom(top + 1) = 1 /\ OperandsFrom(top + 1) + 1 - 1 = t
    BY <1>3, <1>10
  <2> QED
    BY <2>1, OperandsListed
<1>14. Abstract!Moved(SlotAt(b)', SlotAt(t))
  <2>1. SlotAt(b) = slots[b] /\ slots[b] \in Value
    BY <1>4 DEF SlotAt, Sound, TypeInv, TypeOK
  <2> QED
    BY <1>5, <2>1 DEF Pushed, Abstract!Moved, Value
<1>15. /\ Runs[top + 1] = RunOf(top) /\ Runs'[top + 1] = RunOf(top)'
       /\ Runs[top + 2] = RunOf(top + 1)
  <2>1. top \in 0..top /\ top \in 0..(top + 1) /\ top + 1 \in 0..(top + 1) /\ top + 1 + 1 = top + 2
    BY <1>3
  <2> QED
    BY <1>6, <1>7, <2>1
<1>16. /\ Runs[top + 1].operands = OperandsOf(top) /\ Runs[top + 2].operands = OperandsOf(top + 1)
       /\ Runs'[top + 1].operands = OperandsOf(top)'
       /\ Abstract!GoesOn(top + 1)
  BY <1>10, <1>11, <1>15 DEF RunOf, Abstract!GoesOn
<1>17. PICK caller, again, callee :
         /\ caller = Runs[top + 1] /\ again = Runs'[top + 1] /\ callee = Runs[top + 2]
  OBVIOUS
<1>18. /\ Abstract!Depth > 1 /\ Len(Runs') = Abstract!Depth - 1
       /\ caller = Runs[Abstract!Depth - 1] /\ again = Runs'[Abstract!Depth - 1]
       /\ callee = Runs[Abstract!Depth]
       /\ Abstract!Keeps(Abstract!Depth - 2) /\ Abstract!GoesOn(Abstract!Depth - 1)
  <2>1. Abstract!Depth = top + 2 /\ top + 2 - 1 = top + 1 /\ top + 2 - 2 = top /\ top + 2 > 1
    BY <1>3, <1>6 DEF Abstract!Depth
  <2>2. Abstract!Keeps(top)
    BY <1>8 DEF Abstract!Keeps
  <2> QED
    BY <1>7, <1>16, <1>17, <2>1, <2>2
<1>19. /\ Len(callee.operands) = 1
       /\ Abstract!Exchanged(caller.operands, again.operands, 0, 1)
       /\ Abstract!Moved(again.operands[Len(again.operands)], callee.operands[1])
  BY <1>12, <1>13, <1>14, <1>16, <1>17
<1> QED
  BY <1>18, <1>19 DEF Abstract!Return

\* A step of the machine is a step between activations, or changes none.
LEMMA StepImplements ==
  ASSUME TypeInv, StackSound, FramesOrdered, [Next]_vars
  PROVE  [Abstract!Next]_<<module, Runs>>
<1> DEFINE op == OpAt(module, code, ip)
           high == Height(module, code)[ip]
<1>1. module' = module
  BY NextRuns
<1>2. CASE ~(RunsDisciplined /\ Running)
  <2>1. ~(RunsDisciplined' /\ Running')
    BY <1>2, NextRuns
  <2>2. Runs = <<>> /\ Runs' = <<>>
    BY <1>2, <2>1 DEF Runs
  <2> QED
    BY <1>1, <2>2
<1>3. CASE RunsDisciplined /\ Running /\ ~Running'
  <2>1. Runs' = <<>>
    BY <1>3 DEF Runs
  <2> QED
    BY <1>1, <2>1 DEF Abstract!Next, Abstract!Stop
<1>4. CASE RunsDisciplined /\ Running /\ Running'
  <2>1. Sound /\ Running /\ Running'
    BY <1>4 DEF Sound
  <2>2. ASSUME NEW ops, Step(ops)
        PROVE  /\ op \in ops /\ Touched \subseteq SlotIndices /\ high \in Nat
               /\ Takes(module, code, ip) <= high
    BY <2>1, <2>2, RunningInstruction, RunningOperands DEF Step, Executes
  <2>3. stackTop \in Int /\ slots \in [SlotIndices -> Value]
    BY <2>1 DEF Sound, TypeInv, TypeOK
  <2> SUFFICES ASSUME ~UNCHANGED vars
               PROVE  Abstract!Compute \/ Abstract!StoreLocal \/ Abstract!Call \/ Abstract!Return
    <3>1. CASE UNCHANGED vars
      BY <3>1 DEF vars, stack, frameStack, control, Runs, RunsDisciplined, Running, RunOf, CodeOf,
         LocalsOf, OperandsOf, OperandsFrom, OperandsTo, FrameEnd, SlotAt
    <3> QED
      BY <1>1, <3>1 DEF Abstract!Next
  <2>4. ASSUME NEW n \in 0..2, NEW m \in 0..1, n <= high, UNCHANGED frameStack,
               stackTop' = stackTop - n + m,
               \A i \in SlotIndices : i <= stackTop - n => slots'[i] = slots[i]
        PROVE  Abstract!Compute
    BY <1>1, <2>1, <2>4, ComputeStep
  <2>5. ASSUME NEW n \in 0..2, n <= high, UNCHANGED frameStack, NEW r, PopPush(n, r)
        PROVE  Abstract!Compute
    <3>1. stackTop' = stackTop - n + 1
           /\ \A i \in SlotIndices : i <= stackTop - n => slots'[i] = slots[i]
      BY <2>3, <2>5 DEF PopPush, SlotIndices
    <3> QED
      BY <2>4, <2>5, <3>1
  <2>6. ASSUME NEW n \in 0..2, n <= high, UNCHANGED <<frameStack, slots>>, stackTop' = stackTop - n
        PROVE  Abstract!Compute
    <3>1. stackTop' = stackTop - n + 0
      BY <2>3, <2>6
    <3> QED
      BY <2>4, <2>6, <3>1
  <2>7. CASE NopOp \/ Jump
    BY <2>2, <2>3, <2>6, <2>7 DEF NopOp, Jump, stack
  <2>8. CASE PushConstant \/ LoadSymbol \/ LoadLocalSymbol
    <3>1. high \in Nat /\ UNCHANGED frameStack
      BY <2>2, <2>8 DEF PushConstant, LoadSymbol, LoadLocalSymbol
    <3>2. \E r : PopPush(0, r)
      BY <2>1, <2>8 DEF PushConstant, LoadSymbol, LoadLocalSymbol, Throw, Running
    <3> QED
      BY <2>5, <3>1, <3>2
  <2>9. CASE PushNone
    <3>1. high \in Nat /\ UNCHANGED <<frameStack, slots>> /\ stackTop' = stackTop - 0 + 1
      BY <2>2, <2>3, <2>9 DEF PushNone
    <3> QED
      BY <2>4, <3>1
  <2>10. CASE BinaryOp
    <3>1. 2 <= high /\ UNCHANGED frameStack
      BY <2>2, <2>10, Effects DEF BinaryOp
    <3>2. \E r : PopPush(2, r)
      BY <2>1, <2>10 DEF BinaryOp, Compute, Throw, Running
    <3> QED
      BY <2>5, <3>1, <3>2
  <2>11. CASE UnaryOp
    <3>1. 1 <= high /\ UNCHANGED frameStack
      BY <2>2, <2>11, Effects DEF UnaryOp
    <3>2. \E r : PopPush(1, r)
      BY <2>1, <2>11 DEF UnaryOp, Compute, Throw, Running
    <3> QED
      BY <2>5, <3>1, <3>2
  <2>12. CASE StoreSymbol \/ JumpIfFalse
    <3>1. op \in {"Store", "JmpIfFalse"} /\ Takes(module, code, ip) <= high
      BY <2>2, <2>12 DEF StoreSymbol, JumpIfFalse
    <3>2. 1 <= high
      BY <3>1, Effects
    <3>3. UNCHANGED <<frameStack, slots>> /\ stackTop' = stackTop - 1
      BY <2>12 DEF StoreSymbol, JumpIfFalse, Pop
    <3> QED
      BY <2>6, <3>2, <3>3
  <2>13. CASE StoreLocalSymbol
    BY <2>1, <2>13, StoreStep
  <2>14. CASE CallUserFunction
    <3>1. Touched \subseteq SlotIndices /\ op = "Call"
      BY <2>2, <2>14 DEF CallUserFunction
    <3> QED
      BY <1>1, <2>1, <2>14, <3>1, CallEnters, EnterStep
  <2>15. CASE ReturnOp
    BY <2>1, <2>15, ReturnStep
  <2>16. CASE Halt
    <3>1. code = Main
      BY <2>1, <2>2, <2>16, RunningCode, DisciplineAt DEF Halt
    <3>2. frameTop = -1 /\ Len(callers) = frameTop + 1
      BY <2>1, <3>1, RunningCode DEF Sound, StackSound
    <3>3. callers = <<>>
      BY <2>1, <3>2, EmptySeq DEF Sound, TypeInv, TypeOK
    <3> QED
      BY <2>1, <2>16, <3>3 DEF Halt, LeaveRun, Running
  <2>17. CASE UnsupportedOp \/ RunOffCode \/ AccessOutside
    BY <2>1, <2>17 DEF UnsupportedOp, Throw, RunOffCode, AccessOutside, Stray, Running
  <2> QED
    BY <2>1, <2>7, <2>8, <2>9, <2>10, <2>11, <2>12, <2>13, <2>14, <2>15, <2>16, <2>17
       DEF Next, Stopped
<1> QED
  BY <1>2, <1>3, <1>4

-----------------------------------------------------------------------------

\* The machine starts as one activation of Main, if its module is disciplined.
LEMMA StartImplements == Init => Abstract!Init
<1> SUFFICES ASSUME Init PROVE Abstract!Init
  OBVIOUS
<1>1. CASE ~RunsDisciplined
  BY <1>1 DEF Runs, Abstract!Init
<1>2. CASE RunsDisciplined
  <2>1. Runs = [k \in 1..1 |-> RunOf(k - 1)]
    BY <1>2 DEF Init, Running, Runs
  <2>2. RunOf(0) = Abstract!Activation(Main, <<>>, <<>>)
    <3>1. OperandsTo(0) - OperandsFrom(0) = 0
      BY DEF Init, OperandsTo, OperandsFrom
    <3>2. OperandsOf(0) = <<>>
      BY <3>1 DEF OperandsOf
    <3> QED
      BY <3>2 DEF RunOf, CodeOf, LocalsOf, Abstract!Activation
  <2>3. Runs = <<Abstract!Activation(Main, <<>>, <<>>)>>
    BY <2>1, <2>2
  <2> QED
    BY <2>3 DEF Abstract!Init, Abstract!Start, Abstract!Main, Main
<1> QED
  BY <1>1, <1>2

\* The machine implements the activations: whatever its sizes, and for every
\* module whose code keeps the discipline, calls and returns by frames in one
\* array do what they do between activations that share nothing.
THEOREM MachineImplements == Spec => ImplementsActivations
<1>1. Spec => [](TypeInv /\ StackSound /\ FramesOrdered)
  <2>1. Init => FramesOrdered
    BY OrderKept
  <2>2. TypeInv /\ StackSound /\ FramesOrdered /\ [Next]_vars => FramesOrdered'
    BY OrderKept
  <2> QED
    BY <2>1, <2>2, StackSoundness, PTL DEF Spec
<1>2. TypeInv /\ StackSound /\ FramesOrdered /\ [Next]_vars
        => [Abstract!Next]_<<module, Runs>>
  BY StepImplements
<1> QED
  BY <1>1, <1>2, StartImplements, PTL DEF Spec, ImplementsActivations
=============================================================================
