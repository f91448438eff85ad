---------------------------- MODULE Activations ----------------------------
(***************************************************************************)
(* What the call mechanism of the machine promises, without the stack the  *)
(* activations share and the frames that divide it: each activation of a   *)
(* function has locals and operands of its own, which only it changes, and *)
(* a call hands over arguments and takes back one result.                  *)
(***************************************************************************)
EXTENDS Bytecode

VARIABLES
  module,   \* the program, which never changes
  acts      \* the activations, the running one last; none when stopped

\* An activation: its code, its locals by their index, its operands.
Activation(c, locals, operands) == [code |-> c, locals |-> locals, operands |-> operands]

Start == <<Activation(Main, <<>>, <<>>)>>
Init == acts \in {Start, <<>>}

Depth == Len(acts)
Index(f) == [type |-> "Integer", v |-> f]

-----------------------------------------------------------------------------

\* The first n activations stay as they are.
Keeps(n) == \A k \in 1..n : acts'[k] = acts[k]
\* Activation k goes on in its code, with its locals.
GoesOn(k) == acts'[k].code = acts[k].code /\ acts'[k].locals = acts[k].locals

\* new are the operands old without the last n, and with m more.
Exchanged(old, new, n, m) ==
  /\ n =< Len(old)
  /\ Len(new) = Len(old) - n + m
  /\ \A i \in 1..Len(old) - n : new[i] = old[i]

\* A record without a value may change its payload when it is moved.
Moved(r, s) == r = s \/ (r.type = "None" /\ s.type = "None")

Compute ==
  /\ Depth > 0 /\ Len(acts') = Depth
  /\ Keeps(Depth - 1) /\ GoesOn(Depth)
  /\ \E n \in 0..2, m \in 0..1 : Exchanged(acts[Depth].operands, acts'[Depth].operands, n, m)

StoreLocal ==
  LET old == acts[Depth]
      new == acts'[Depth]
  IN  /\ Depth > 0 /\ Len(acts') = Depth
      /\ Keeps(Depth - 1)
      /\ new.code = old.code
      /\ Exchanged(old.operands, new.operands, 1, 0)
      /\ \E i \in DOMAIN old.locals :
           new.locals = [old.locals EXCEPT ![i] = old.operands[Len(old.operands)]]

\* The locals that are not arguments hold anything.
Call ==
  LET caller == acts[Depth]
      called == acts'[Depth + 1]
      f      == called.code
      n      == module.nargs[f]
      args   == Len(caller.operands) - n
  IN  /\ Depth > 0 /\ Len(acts') = Depth + 1
      /\ Keeps(Depth - 1) /\ GoesOn(Depth)
      /\ f \in FunctionIds(module)
      /\ Exchanged(caller.operands, acts'[Depth].operands, n + 1, 0)
      /\ caller.operands[Len(caller.operands)] = Index(f)
      /\ DOMAIN called.locals = 0..module.nlocals[f] - 1
      /\ \A i \in DOMAIN called.locals : i < n => called.locals[i] = caller.operands[args + i]
      /\ Len(called.operands) = 0

Return ==
  LET caller == acts[Depth - 1]
      again  == acts'[Depth - 1]
  IN  /\ Depth > 1 /\ Len(acts') = Depth - 1
      /\ Keeps(Depth - 2) /\ GoesOn(Depth - 1)
      /\ Len(acts[Depth].operands) = 1
      /\ Exchanged(caller.operands, again.operands, 0, 1)
      /\ Moved(again.operands[Len(again.operands)], acts[Depth].operands[1])

Stop == acts' = <<>>

Next == (Compute \/ StoreLocal \/ Call \/ Return \/ Stop) /\ UNCHANGED module
Spec == Init /\ [][Next]_<<module, acts>>
=============================================================================
