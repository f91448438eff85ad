------------------------------ MODULE Progress ------------------------------
(***************************************************************************)
(* Why the loop of run() in src/src/VM.cpp ends: the code generator makes  *)
(* jumps forward only, so that a run() moves on through its code, and a    *)
(* function called again is in a new frame, of which there are FrameLimit. *)
(* A number that every step makes smaller says so.                         *)
(***************************************************************************)
EXTENDS DaewooVM, CodeDiscipline

\* The number with the n digits d in base b, the first one the highest.
Numeral(b, n, d) ==
  LET upTo[k \in 0..n] == IF k = 0 THEN 0 ELSE upTo[k - 1] * b + d[k]
  IN  upTo[n]

-----------------------------------------------------------------------------
(* The run() calls on the C++ stack, oldest first: each is not entered yet, *)
(* at an instruction of its code, or past it.                               *)

RoomOf(c) == Allocated(Len(module.code[c]))
Room == CHOOSE n \in {RoomOf(c) : c \in CodeIds(module)} :
          \A c \in CodeIds(module) : RoomOf(c) <= n

RunLimit == FrameLimit + 1
Base == Room + 2
Place(k) ==
  CASE k <= Len(callers)    -> callers[k].ip + 1
    [] k = Len(callers) + 1 -> IF InCode THEN ip + 1 ELSE Room + 1
    [] k > Len(callers) + 1 -> 0
Places == [k \in 1..RunLimit |-> Place(k)]

\* The steps that the machine can still take at most.
StepsLeft == Numeral(Base, RunLimit, [k \in 1..RunLimit |-> Base - 1]) - Numeral(Base, RunLimit, Places)

\* A step after which the machine is still running leaves fewer: no step goes
\* back, neither in the code that runs nor in that of a caller, whatever the
\* program calls and however deep.  The machine therefore stops within as many
\* steps as StepsLeft is at its start, with an error when the frames run out.
Advances ==
  [][GoesForward(module) /\ Running' => StepsLeft' \in 0..(StepsLeft - 1)]_vars

\* The jumps of the module are such: each is patched, and with a place behind
\* it.
JumpsForward == GoesForward(module)
=============================================================================
