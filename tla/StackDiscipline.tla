-------------------------- MODULE StackDiscipline --------------------------
(***************************************************************************)
(* What the machine of DaewooVM, which checks no access to its stack,      *)
(* guarantees when it runs code that keeps the discipline of               *)
(* CodeDiscipline, and why.                                                *)
(***************************************************************************)
EXTENDS DaewooVM, CodeDiscipline

DisciplinedModules == {m \in Modules : Disciplined(m)}
RunsDisciplined == module \in DisciplinedModules

-----------------------------------------------------------------------------
(* What holds of every module that keeps it.                               *)

FrameEnd(k) == frames[k].bsp + frames[k].nlocals

\* Frames do not overlap, and the operands of the running code are above the
\* locals of its frame, as many as its instruction counts on.  Every access of
\* callUserFunction, returnOp and the local loads and stores relies on it.
FrameDiscipline ==
  RunsDisciplined /\ Running =>
    /\ Len(callers) = frameTop + 1
    /\ \A k \in 0..frameTop : frames[k].bsp >= 0
    /\ \A k \in 1..frameTop : FrameEnd(k - 1) <= frames[k].bsp
    /\ InFrame => stackTop + 1 = FrameEnd(frameTop) + Height(module, code)[ip]
    /\ ~InFrame => stackTop + 1 >= Height(module, code)[ip]

\* run() never reads a slot below the stack, an instruction outside its code,
\* or a symbol outside the table: the unchecked accesses of VM.cpp go wrong
\* only at the upper end of the stack.
NeverWild == RunsDisciplined => status # "wild"

\* What the generator makes needs no check: the code of every ordinary module
\* keeps the discipline, whatever program it is compiled from, and the machine
\* stays within its stack, its code and its tables because of it.
CompiledRunsSafely == Ordinary(module) => RunsDisciplined /\ status # "wild"

\* A function changes no slot below its frame: its caller's variables and
\* pending operands are there when it returns.
CallerSlotsIntact ==
  [][RunsDisciplined /\ InFrame =>
       \A i \in SlotIndices : i < CurrentFrame.bsp => slots'[i] = slots[i]]_vars

\* returnOp leaves one record in place of the arguments, wherever in the
\* function the return stands.
ReturnReplacesArguments ==
  [][RunsDisciplined /\ frameTop' < frameTop =>
       stackTop' = CurrentFrame.bsp]_vars

\* Every program stops: jumps go forward and the frames are bounded.
Termination == <>(~Running)

\* Every variable has its type: bytes fit, the symbols never hold a record
\* without a value, the code that runs is that of the module.
TypeOK ==
  /\ module \in Modules
  /\ symbols \in [DOMAIN module.symbols -> Symbol]
  /\ slots \in [SlotIndices -> Value]
  /\ stackTop \in Int
  /\ frames \in [FrameIndices -> Frame]
  /\ frameTop \in Int
  /\ code \in CodeIds(module)
  /\ ip \in Int
  /\ callers \in Seq([code : CodeIds(module), ip : Int])
  /\ status \in Statuses

-----------------------------------------------------------------------------
(* Why it holds: what is true at each step of the run() that is active and  *)
(* of those that are suspended in a call.  Run k was entered with frame     *)
(* k - 1; run 0 is that of Main and has no frame.                           *)

CodeOf(k) == IF k = 0 THEN Main ELSE frames[k - 1].funcIndex
OperandsFrom(k) == IF k = 0 THEN 0 ELSE FrameEnd(k - 1)

\* Run k may have n operands at its instruction i.
Counts(k, i, n) ==
  /\ Height(module, CodeOf(k))[i] <= n
  /\ k # 0 => Height(module, CodeOf(k))[i] = n

\* Frame k is that of the function that run k calls, and begins at the
\* arguments among the operands of run k.
FrameSound(k) ==
  LET f == frames[k].funcIndex
      i == callers[k + 1].ip
  IN  /\ f \in FunctionIds(module)
      /\ frames[k].nlocals = module.nlocals[f]
      /\ frames[k].bsp >= 0
      /\ callers[k + 1].code = CodeOf(k)
      /\ i \in 0..(Len(module.code[CodeOf(k)]) - 1)
      /\ OpAt(module, CodeOf(k), i) = "Call"
      /\ Callee(module, CodeOf(k), i) = f
      /\ Counts(k, i, frames[k].bsp - OperandsFrom(k) + module.nargs[f] + 1)

\* The run() that is active has the operands its instruction counts on, the
\* index of the function to call on top before a call.
RunSound ==
  /\ code = CodeOf(frameTop + 1)
  /\ ip \in 0..(CodeSize - 1)
  /\ Counts(frameTop + 1, ip, stackTop + 1 - OperandsFrom(frameTop + 1))
  /\ OpAt(module, code, ip) = "Call" => slots[stackTop] = Integer(Callee(module, code, ip))

\* Nothing is stored over the symbol of a function.
FunctionsKept == \A f \in FunctionIds(module) : symbols[f].type = "UserFunc"

\* While the machine runs code that keeps the discipline, all of this is true
\* of every run() on the C++ stack at once, and no access has gone astray.
StackSound ==
  RunsDisciplined =>
    /\ status # "wild"
    /\ FunctionsKept
    /\ Running => /\ frameTop \in (-1)..(FrameLimit - 1)
                  /\ Len(callers) = frameTop + 1
                  /\ \A k \in 0..frameTop : FrameSound(k)
                  /\ RunSound
=============================================================================
