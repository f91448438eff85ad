--------------------------- MODULE CallRefinement ---------------------------
(***************************************************************************)
(* The machine of DaewooVM keeps the locals and the operands of all the    *)
(* functions that are active in one array, and tells them apart by the     *)
(* frames.  Running code that keeps the discipline it implements           *)
(* Activations, where each activation has its own.                         *)
(***************************************************************************)
EXTENDS StackDiscipline

\* The slots of run k, those of its locals and then those of its operands up
\* to the next frame.  What is above the array is never read.
SlotAt(i) == IF i \in SlotIndices THEN slots[i] ELSE [type |-> "None", v |-> 0]
LocalsOf(k) ==
  IF k = 0 THEN <<>>
  ELSE [i \in 0..(frames[k - 1].nlocals - 1) |-> SlotAt(frames[k - 1].bsp + i)]
OperandsTo(k) == IF k = frameTop + 1 THEN stackTop + 1 ELSE frames[k].bsp
OperandsOf(k) ==
  [i \in 1..(OperandsTo(k) - OperandsFrom(k)) |-> SlotAt(OperandsFrom(k) + i - 1)]

RunOf(k) == [code |-> CodeOf(k), locals |-> LocalsOf(k), operands |-> OperandsOf(k)]
Runs ==
  IF RunsDisciplined /\ Running THEN [k \in 1..(frameTop + 2) |-> RunOf(k - 1)] ELSE <<>>

Abstract == INSTANCE Activations WITH acts <- Runs

\* Calls and returns by frames in a shared array do what calls and returns do
\* between activations that share nothing: Abstract!Spec, written out.
ImplementsActivations == Abstract!Init /\ [][Abstract!Next]_<<module, Runs>>
=============================================================================
