------------------------------- MODULE Claims -------------------------------
(***************************************************************************)
(* What comments and error messages of the source say of the machine and   *)
(* of the code generator, where a run of the model shows otherwise.        *)
(***************************************************************************)
EXTENDS Pipeline

\* OpCodes.hpp: PushNone pushes a record of type none, "used by retVal for
\* returning nothing".
PushNonePushesNone ==
  [][(Executes({"PushNone"}) /\ stackTop' \in SlotIndices) =>
       slots'[stackTop'].type = "None"]_vars

\* MachineStack.cpp: a push on a full stack is refused with "TMachineStack:
\* Stack overflow error", so that no access goes past the array.
OverflowRefused == status # "overrun"

\* OpCodes.hpp: IsEq pushes True if TOS1 = TOS.
IsEqTellsEquality ==
  [][(Executes({"IsEq"}) /\ status' = "running") =>
       LET a == slots[stackTop - 1]
           b == slots[stackTop]
       IN  IsNumber(a) /\ IsNumber(b) =>
             (slots'[stackTop'].v = 1) = (Halves(a) = Halves(b))]_vars
=============================================================================
