--------------------------- MODULE Compiler_proofs ---------------------------
(***************************************************************************)
(* Proofs about the compiler, for every sequence of tokens: the syntax     *)
(* parser leaves a part of the tokens it is given, and a code generator    *)
(* that does not fail leaves a module whose code names what its tables     *)
(* have, jumps forward only and keeps the discipline the machine relies    *)
(* on.                                                                     *)
(*                                                                         *)
(* The code of an expression is an operand line: it takes nothing from     *)
(* below the height it starts at and leaves one value.  The code of a      *)
(* statement is a block: it starts and ends with no operand of its own.    *)
(* That every procedure of the descent writes such code, into tables that  *)
(* only grow, is shown by induction on the height of the descent.          *)
(***************************************************************************)
EXTENDS Compiler, Numbers_proofs, SequenceTheorems

-----------------------------------------------------------------------------
(* What the builder knows of the module: its tables.                       *)

TableSet ==
  [names : Seq(STRING), isFunction : Seq(BOOLEAN), functions : Seq(UserFunctions),
   constants : Seq(Int)]
Shaped(T) ==
  /\ T \in TableSet
  /\ Len(T.isFunction) = Len(T.names)
  /\ Len(T.functions) = Len(T.names)

\* Index f of the module's symbols is a function; it takes so many arguments.
Known(T, f) == f \in 0..(Len(T.names) - 1) /\ T.isFunction[f + 1]
Arity(T, f) == T.functions[f + 1].nargs

\* The tables U have what the first n symbols of T have.
Keeps(n, T, U) ==
  /\ Len(T.names) <= Len(U.names)
  /\ Len(T.constants) <= Len(U.constants)
  /\ \A f \in 1..n : /\ U.isFunction[f] = T.isFunction[f]
                     /\ U.functions[f].nargs = T.functions[f].nargs
                     /\ Len(T.functions[f].locals) <= Len(U.functions[f].locals)
Extends(T, U) == Keeps(Len(T.names), T, U)

-----------------------------------------------------------------------------
(* The records that an instruction takes and gives.  A string gives one, as *)
(* the generator takes it for an expression.                                *)

LineOps == BinaryOps \cup UnaryOps \cup ConstOps \cup {"Load", "LoadLocal", "Call", "Pushs"}
Taken(op) ==
  IF op \in BinaryOps THEN 2
  ELSE IF op \in UnaryOps \cup {"JmpIfFalse", "Store", "StoreLocal", "Return"} THEN 1 ELSE 0
Given(op) == IF op \in LineOps \cup {"PushNone"} THEN 1 ELSE 0

\* Of instruction q of a piece of code, counted from 1.
TakesBy(T, F, q) == IF F[q].op = "Call" THEN 1 + Arity(T, F[q - 1].arg) ELSE Taken(F[q].op)
Left(T, F, h, q) == h[q - 1] - TakesBy(T, F, q) + Given(F[q].op)

\* What an instruction of code c refers to is there.
Resolved(T, c, i) ==
  /\ i.op \in {"Load", "Store"} => i.arg \in 0..(Len(T.names) - 1)
  /\ i.op = "Pushd" => i.arg \in 1..Len(T.constants)
  /\ i.op \in {"LoadLocal", "StoreLocal"} =>
       c # 0 /\ i.arg \in 0..(Len(T.functions[c].locals) - 1)
CallsKnown(T, F, q) ==
  F[q].op = "Call" => q > 1 /\ F[q - 1].op = "Pushi" /\ Known(T, F[q - 1].arg)
Sensible(T, c, F, q) == Resolved(T, c, F[q]) /\ CallsKnown(T, F, q)

\* The piece F, of code c, makes b operands of a, and leaves one at least
\* wherever it is past its first instruction.
LineStep(T, c, F, g, q) ==
  /\ F[q].op \in LineOps /\ Sensible(T, c, F, q)
  /\ TakesBy(T, F, q) <= g[q - 1]
  /\ g[q] = Left(T, F, g, q) /\ g[q] >= 1
Line(T, c, F, a, b) ==
  \E g \in [0..Len(F) -> Nat] :
    /\ g[0] = a /\ g[Len(F)] = b
    /\ \A q \in 1..Len(F) : LineStep(T, c, F, g, q)

Codes == Seq(Instruction)

\* No instruction of a piece looks further back than the one before it.
LEMMA SameStep ==
  ASSUME NEW T, NEW c, NEW F, NEW G, NEW q, NEW r,
         F[q] = G[r], F[q].op = "Call" => q > 1 /\ r > 1 /\ F[q - 1] = G[r - 1]
  PROVE  /\ TakesBy(T, F, q) = TakesBy(T, G, r)
         /\ Sensible(T, c, F, q) <=> Sensible(T, c, G, r)
BY DEF TakesBy, Sensible, CallsKnown

\* Positions in a concatenation.
LEMMA Joined ==
  ASSUME NEW F \in Codes, NEW G \in Codes
  PROVE  /\ F \o G \in Codes /\ Len(F \o G) = Len(F) + Len(G)
         /\ Len(F) \in Nat /\ Len(G) \in Nat
         /\ \A q \in 1..Len(F) : (F \o G)[q] = F[q]
         /\ \A q \in (Len(F) + 1)..(Len(F) + Len(G)) : (F \o G)[q] = G[q - Len(F)]
         /\ \A r \in 1..Len(G) : (F \o G)[Len(F) + r] = G[r]
<1>1. /\ F \o G \in Codes /\ Len(F \o G) = Len(F) + Len(G)
      /\ Len(F) \in Nat /\ Len(G) \in Nat
      /\ \A q \in 1..Len(F) : (F \o G)[q] = F[q]
      /\ \A q \in (Len(F) + 1)..(Len(F) + Len(G)) : (F \o G)[q] = G[q - Len(F)]
  BY ConcatProperties, LenProperties DEF Codes
<1>2. ASSUME NEW r \in 1..Len(G) PROVE (F \o G)[Len(F) + r] = G[r]
  <2>1. Len(F) + r \in (Len(F) + 1)..(Len(F) + Len(G)) /\ (Len(F) + r) - Len(F) = r
    BY <1>1
  <2> QED
    BY <1>1, <2>1
<1> QED
  BY <1>1, <1>2

(* No code leaves the stack as it was. *)
LEMMA LineEmpty ==
  ASSUME NEW T, NEW c, NEW a \in Nat
  PROVE  Line(T, c, <<>>, a, a)
<1> DEFINE g == [i \in 0..0 |-> a]
<1>1. Len(<<>>) = 0 /\ g \in [0..0 -> Nat] /\ g[0] = a
  OBVIOUS
<1> HIDE DEF g
<1>2. \A q \in 1..0 : FALSE
  OBVIOUS
<1> QED
  BY <1>1, <1>2, Zenon DEF Line

(* An operand line does not mind k more values below its operands. *)
LEMMA LineShift ==
  ASSUME NEW T, NEW c, NEW F \in Codes, NEW a \in Nat, NEW b \in Nat, NEW k \in Nat,
         Shaped(T), Line(T, c, F, a, b)
  PROVE  Line(T, c, F, a + k, b + k)
<1>1. PICK g \in [0..Len(F) -> Nat] :
        g[0] = a /\ g[Len(F)] = b /\ \A q \in 1..Len(F) : LineStep(T, c, F, g, q)
  BY DEF Line
<1> DEFINE h == [i \in 0..Len(F) |-> g[i] + k]
<1>2. Len(F) \in Nat
  BY LenProperties DEF Codes
<1>3. h \in [0..Len(F) -> Nat] /\ h[0] = a + k /\ h[Len(F)] = b + k
  BY <1>1, <1>2
<1>4. ASSUME NEW q \in 1..Len(F) PROVE LineStep(T, c, F, h, q)
  <2>1. h[q] = g[q] + k /\ h[q - 1] = g[q - 1] + k /\ g[q] \in Nat /\ g[q - 1] \in Nat
    <3>1. q \in 0..Len(F) /\ q - 1 \in 0..Len(F)
      BY <1>2
    <3> QED
      BY <3>1
  <2>2. TakesBy(T, F, q) \in Int /\ Given(F[q].op) \in Int
    <3>1. LineStep(T, c, F, g, q)
      BY <1>1
    <3>2. CASE F[q].op = "Call"
      <4>0. Known(T, F[q - 1].arg)
        BY <3>1, <3>2 DEF LineStep, Sensible, CallsKnown
      <4>1. F[q - 1].arg + 1 \in 1..Len(T.functions)
        <5>1. Len(T.names) \in Nat /\ Len(T.functions) = Len(T.names)
          BY LenProperties DEF Shaped, TableSet
        <5>2. F[q - 1].arg \in 0..(Len(T.names) - 1)
          BY <4>0 DEF Known
        <5> QED
          BY ONLY <5>1, <5>2
      <4>2. T.functions[F[q - 1].arg + 1] \in UserFunctions
        BY <4>1, ElementOfSeq DEF Shaped, TableSet
      <4> QED
        BY <3>2, <4>2 DEF TakesBy, Arity, UserFunctions, Given
    <3>3. CASE F[q].op # "Call"
      BY <3>3 DEF TakesBy, Taken, Given
    <3> QED
      BY <3>2, <3>3
  <2> QED
    BY <1>1, <2>1, <2>2 DEF LineStep, Left
<1> QED
  BY <1>3, <1>4 DEF Line

(* Operand lines follow one another: the second starts at the height the first ends at. *)
LEMMA LineConcat ==
  ASSUME NEW T, NEW c, NEW F \in Codes, NEW G \in Codes, NEW a, NEW b, NEW d,
         Line(T, c, F, a, b), Line(T, c, G, b, d)
  PROVE  Line(T, c, F \o G, a, d)
<1>1. PICK g \in [0..Len(F) -> Nat] :
        g[0] = a /\ g[Len(F)] = b /\ \A q \in 1..Len(F) : LineStep(T, c, F, g, q)
  BY DEF Line
<1>2. PICK k \in [0..Len(G) -> Nat] :
        k[0] = b /\ k[Len(G)] = d /\ \A q \in 1..Len(G) : LineStep(T, c, G, k, q)
  BY DEF Line
<1> DEFINE n == Len(F)
           h == [i \in 0..(n + Len(G)) |-> IF i <= n THEN g[i] ELSE k[i - n]]
           H == F \o G
<1>3. n \in Nat /\ Len(G) \in Nat /\ Len(H) = n + Len(G)
  BY Joined
<1>4. h \in [0..Len(H) -> Nat] /\ h[0] = a /\ h[Len(H)] = d
  BY <1>1, <1>2, <1>3
<1>5. ASSUME NEW q \in 1..Len(H) PROVE LineStep(T, c, H, h, q)
  <2>1. CASE q <= n
    <3>1. q \in 1..n /\ H[q] = F[q] /\ (q > 1 => H[q - 1] = F[q - 1])
      <4>1. q \in 1..n /\ (q > 1 => q - 1 \in 1..n)
        BY <2>1, <1>3
      <4>2. \A s \in 1..n : H[s] = F[s]
        BY Joined
      <4> HIDE DEF H, n
      <4> QED
        BY ONLY <4>1, <4>2
    <3>2. h[q] = g[q] /\ h[q - 1] = g[q - 1]
      BY <2>1, <1>3
    <3>3. LineStep(T, c, F, g, q)
      BY <1>1, <3>1
    <3>4. F[q].op = "Call" => q > 1
      BY <3>3 DEF LineStep, Sensible, CallsKnown
    <3>5. TakesBy(T, H, q) = TakesBy(T, F, q) /\ (Sensible(T, c, H, q) <=> Sensible(T, c, F, q))
      BY <3>1, <3>4, SameStep
    <3> QED
      BY <3>1, <3>2, <3>3, <3>5 DEF LineStep, Left
  <2>2. CASE q > n
    <3> DEFINE r == q - n
    <3>1. r \in 1..Len(G) /\ H[q] = G[r] /\ (r > 1 => q > 1 /\ H[q - 1] = G[r - 1])
      <4>1. r \in 1..Len(G) /\ q \in (n + 1)..(n + Len(G))
        BY <2>2, <1>3
      <4>2. \A s \in (n + 1)..(n + Len(G)) : H[s] = G[s - n]
        BY Joined
      <4>3. CASE r > 1
        <5>1. q - 1 \in (n + 1)..(n + Len(G)) /\ (q - 1) - n = r - 1 /\ q > 1
          BY <4>1, <4>3, <1>3
        <5> QED
          BY <4>1, <4>2, <5>1
      <4> QED
        BY <4>1, <4>2, <4>3
    <3>2. h[q] = k[r] /\ h[q - 1] = k[r - 1]
      <4>1. CASE r = 1
        BY <4>1, <1>1, <1>2, <1>3
      <4>2. CASE r > 1
        BY <4>2, <2>2, <1>3
      <4> QED
        BY <4>1, <4>2, <3>1
    <3> HIDE DEF r, h
    <3>3. LineStep(T, c, G, k, r)
      BY <1>2, <3>1
    <3>4. G[r].op = "Call" => r > 1
      BY <3>3 DEF LineStep, Sensible, CallsKnown
    <3>5. TakesBy(T, H, q) = TakesBy(T, G, r) /\ (Sensible(T, c, H, q) <=> Sensible(T, c, G, r))
      BY <3>1, <3>4, SameStep
    <3> QED
      BY <3>1, <3>2, <3>3, <3>5 DEF LineStep, Left
  <2> QED
    BY <2>1, <2>2, <1>3
<1> QED
  BY <1>4, <1>5 DEF Line

\* One instruction that is not a call.
LEMMA LineOne ==
  ASSUME NEW T, NEW c, NEW i \in Instruction, NEW a \in Nat, NEW b \in Nat,
         i.op \in LineOps \ {"Call"}, Resolved(T, c, i),
         Taken(i.op) <= a, b = a - Taken(i.op) + 1, b >= 1
  PROVE  <<i>> \in Codes /\ Line(T, c, <<i>>, a, b)
<1> DEFINE g == [k \in 0..1 |-> IF k = 0 THEN a ELSE b]
<1>1. <<i>> \in Codes /\ Len(<<i>>) = 1 /\ <<i>>[1] = i
  BY DEF Codes
<1>2. g \in [0..1 -> Nat] /\ g[0] = a /\ g[1] = b
  OBVIOUS
<1>3. LineStep(T, c, <<i>>, g, 1)
  BY <1>1, <1>2 DEF LineStep, Left, Sensible, CallsKnown, TakesBy, Given
<1>4. \A q \in 1..1 : q = 1
  OBVIOUS
<1> QED
  BY <1>1, <1>2, <1>3, <1>4 DEF Line

\* The index of a function and the call.
LEMMA LineCall ==
  ASSUME NEW T, NEW c, NEW f, Shaped(T), Known(T, f), NEW a \in Nat, Arity(T, f) <= a
  PROVE  LET F == <<Instr("Pushi", f), Instr("Call", NoArg)>>
         IN  F \in Codes /\ Line(T, c, F, a, a - Arity(T, f) + 1)
<1> DEFINE F == <<Instr("Pushi", f), Instr("Call", NoArg)>>
           b == a - Arity(T, f) + 1
           g == [k \in 0..2 |-> CASE k = 0 -> a [] k = 1 -> a + 1 [] k = 2 -> b]
<1>1. F \in Codes /\ Len(F) = 2 /\ F[1] = Instr("Pushi", f) /\ F[2] = Instr("Call", NoArg)
  BY DEF Codes, Instr, Instruction, OpCodes, ConstOps, NoArg, Known
<1>2. Arity(T, f) \in Nat
  <2>1. f + 1 \in 1..Len(T.functions)
    BY DEF Known, Shaped
  <2>2. T.functions[f + 1] \in UserFunctions
    BY <2>1, ElementOfSeq DEF Shaped, TableSet
  <2> QED
    BY <2>2 DEF Arity, UserFunctions
<1>3. b \in Nat /\ b >= 1
  BY <1>2
<1>4. g \in [0..2 -> Nat] /\ g[0] = a /\ g[1] = a + 1 /\ g[2] = b
  BY <1>3
<1> HIDE DEF F, g
<1>5. LineStep(T, c, F, g, 1)
  BY <1>1, <1>4 DEF LineStep, Left, Sensible, CallsKnown, Resolved, TakesBy, Taken, Given, Instr, LineOps,
     ConstOps, BinaryOps, UnaryOps
<1>6. LineStep(T, c, F, g, 2)
  <2>1. F[2].op = "Call" /\ F[2 - 1].op = "Pushi" /\ F[2 - 1].arg = f
    BY <1>1 DEF Instr
  <2>2. TakesBy(T, F, 2) = 1 + Arity(T, f) /\ Given("Call") = 1 /\ "Call" \in LineOps
    BY <2>1 DEF TakesBy, Given, LineOps
  <2>3. Sensible(T, c, F, 2)
    BY <2>1 DEF Sensible, CallsKnown, Resolved
  <2> QED
    BY <2>1, <2>2, <2>3, <1>2, <1>3, <1>4 DEF LineStep, Left
<1>7. \A q \in 1..2 : q = 1 \/ q = 2
  OBVIOUS
<1>8. Line(T, c, F, a, b)
  BY <1>1, <1>4, <1>5, <1>6, <1>7 DEF Line
<1> QED
  BY <1>1, <1>8 DEF F

(* A position below m is one below every larger n. *)
LEMMA Within ==
  ASSUME NEW m \in Nat, NEW n \in Nat, m <= n, NEW a \in 0..(m - 1)
  PROVE  a \in 0..(n - 1)
OBVIOUS

\* What a piece refers to stays when the tables grow.
LEMMA SensibleKept ==
  ASSUME NEW T, NEW U, Shaped(T), Shaped(U), Extends(T, U), NEW c \in 0..Len(T.names),
         NEW F \in Codes, NEW q \in 1..Len(F), Sensible(T, c, F, q)
  PROVE  Sensible(U, c, F, q) /\ TakesBy(U, F, q) = TakesBy(T, F, q)
<1>1. Len(T.names) \in Nat /\ Len(U.names) \in Nat /\ Len(T.constants) \in Nat /\ Len(U.constants) \in Nat
  BY LenProperties DEF Shaped, TableSet
<1>2. F[q] \in Instruction
  BY ElementOfSeq DEF Codes
<1>3. Resolved(U, c, F[q])
  <2>1. CASE c = 0
    BY <1>1, <1>2, <2>1 DEF Sensible, Resolved, Extends, Keeps
  <2>2. CASE c # 0
    <3>1. c \in 1..Len(T.functions) /\ c \in 1..Len(U.functions)
      BY <1>1, <2>2 DEF Shaped, Extends, Keeps
    <3>2. T.functions[c] \in UserFunctions /\ U.functions[c] \in UserFunctions
      BY <3>1, ElementOfSeq DEF Shaped, TableSet
    <3>3. T.functions[c].locals \in Seq(STRING) /\ U.functions[c].locals \in Seq(STRING)
      BY <3>2 DEF UserFunctions
    <3>4. Len(T.functions[c].locals) \in Nat /\ Len(U.functions[c].locals) \in Nat
      BY <3>3, LenProperties
    <3>5. Len(T.functions[c].locals) <= Len(U.functions[c].locals)
      BY <3>1 DEF Extends, Keeps, Shaped
    <3> QED
      <4>1. F[q].arg \in Int /\ Resolved(T, c, F[q])
        BY <1>2 DEF Sensible, Instruction
      <4>2. Len(T.names) <= Len(U.names) /\ Len(T.constants) <= Len(U.constants)
        BY DEF Extends, Keeps
      <4>3. F[q].op \in {"LoadLocal", "StoreLocal"} => F[q].arg \in 0..(Len(U.functions[c].locals) - 1)
        <5>1. SUFFICES ASSUME F[q].op \in {"LoadLocal", "StoreLocal"}
                       PROVE  F[q].arg \in 0..(Len(U.functions[c].locals) - 1)
          OBVIOUS
        <5>2. F[q].arg \in 0..(Len(T.functions[c].locals) - 1)
          BY <4>1, <5>1 DEF Resolved
        <5> QED
          BY <3>4, <3>5, <5>2, Within
      <4>4. F[q].op = "Pushd" => F[q].arg \in 1..Len(U.constants)
        BY <1>1, <4>1, <4>2 DEF Resolved
      <4>5. F[q].op \in {"Load", "Store"} => F[q].arg \in 0..(Len(U.names) - 1)
        BY <1>1, <4>1, <4>2 DEF Resolved
      <4> QED
        BY <2>2, <4>3, <4>4, <4>5 DEF Resolved
  <2> QED
    BY <2>1, <2>2
<1>4. CASE F[q].op = "Call"
  <2>1. Known(T, F[q - 1].arg)
    BY <1>4 DEF Sensible, CallsKnown
  <2>2. F[q - 1].arg + 1 \in 1..Len(T.names)
    BY <2>1, <1>1 DEF Known
  <2>3. Known(U, F[q - 1].arg) /\ Arity(U, F[q - 1].arg) = Arity(T, F[q - 1].arg)
    <3> DEFINE f == F[q - 1].arg
    <3>1. f \in 0..(Len(T.names) - 1) /\ T.isFunction[f + 1] /\ f + 1 \in 1..Len(T.names)
      BY <2>1, <2>2 DEF Known
    <3> HIDE DEF f
    <3>2. U.isFunction[f + 1] = T.isFunction[f + 1]
          /\ U.functions[f + 1].nargs = T.functions[f + 1].nargs
      BY <3>1, Zenon DEF Extends, Keeps
    <3>3. f \in 0..(Len(U.names) - 1)
      BY <3>1, <1>1 DEF Extends, Keeps
    <3>4. Known(U, f) /\ Arity(U, f) = Arity(T, f)
      BY <3>1, <3>2, <3>3 DEF Known, Arity
    <3> QED
      BY <3>4 DEF f
  <2> QED
    BY <1>3, <1>4, <2>3 DEF Sensible, CallsKnown, TakesBy
<1>5. CASE F[q].op # "Call"
  BY <1>3, <1>5 DEF Sensible, CallsKnown, TakesBy
<1> QED
  BY <1>4, <1>5

(* An operand line stays one when the tables grow. *)
LEMMA LineKept ==
  ASSUME NEW T, NEW U, Shaped(T), Shaped(U), Extends(T, U), NEW c \in 0..Len(T.names),
         NEW F \in Codes, NEW a, NEW b, Line(T, c, F, a, b)
  PROVE  Line(U, c, F, a, b)
<1>1. PICK g \in [0..Len(F) -> Nat] :
        g[0] = a /\ g[Len(F)] = b /\ \A q \in 1..Len(F) : LineStep(T, c, F, g, q)
  BY DEF Line
<1>2. ASSUME NEW q \in 1..Len(F) PROVE LineStep(U, c, F, g, q)
  <2>1. LineStep(T, c, F, g, q)
    BY <1>1
  <2>2. Sensible(U, c, F, q) /\ TakesBy(U, F, q) = TakesBy(T, F, q)
    BY <2>1, SensibleKept DEF LineStep
  <2> QED
    BY <2>1, <2>2 DEF LineStep, Left
<1> QED
  BY <1>1, <1>2 DEF Line

-----------------------------------------------------------------------------
(* Pieces with jumps.  A piece of the top level may leave more operands than *)
(* are counted on: that of an expression nobody takes.                      *)

BlockOps == LineOps \cup {"Store", "StoreLocal", "PushNone", "Jmp", "JmpIfFalse", "Pop", "Return"}
Jumps == {"Jmp", "JmpIfFalse"}
Barriers == {"Jmp", "Pop", "Return"}

\* Instruction q of a piece counts on h[q - 1] operands, and the next on h[q];
\* a jump leads to where none is counted on.
Counted(T, c, F, h, q) ==
  /\ F[q].op \in BlockOps /\ Sensible(T, c, F, q)
  /\ TakesBy(T, F, q) <= h[q - 1]
  /\ F[q].op = "Return" => c # 0 /\ h[q - 1] = 1
  /\ IF F[q].op \in Barriers THEN h[q] = 0
     ELSE h[q] <= Left(T, F, h, q) /\ (c # 0 => h[q] = Left(T, F, h, q))
Lands(T, F, h, q) ==
  F[q].op \in Jumps =>
    /\ F[q].arg > 0 /\ q - 1 + F[q].arg <= Len(F)
    /\ h[q - 1 + F[q].arg] = 0 /\ Left(T, F, h, q) = 0
BlockStep(T, c, F, h, q) == Counted(T, c, F, h, q) /\ Lands(T, F, h, q)
Block(T, c, F) ==
  \E h \in [0..Len(F) -> Nat] :
    /\ h[0] = 0 /\ h[Len(F)] = 0
    /\ \A q \in 1..Len(F) : BlockStep(T, c, F, h, q)

(* No code is a block. *)
LEMMA BlockEmpty ==
  ASSUME NEW T, NEW c
  PROVE  Block(T, c, <<>>)
<1> DEFINE g == [i \in 0..0 |-> 0]
<1>1. Len(<<>>) = 0 /\ g \in [0..0 -> Nat] /\ g[0] = 0
  OBVIOUS
<1> HIDE DEF g
<1>2. \A q \in 1..0 : FALSE
  OBVIOUS
<1> QED
  BY <1>1, <1>2, Zenon DEF Block

\* A step is the same in a longer piece, at its place there: of a piece F that
\* is moved on by n places to G, with its operands from h to k.
LEMMA BlockStepMoved ==
  ASSUME NEW T, NEW c, NEW F \in Codes, NEW G \in Codes, NEW n \in Nat,
         n + Len(F) <= Len(G),
         \A q \in 1..Len(F) : G[n + q] = F[q],
         NEW h, NEW k, \A q \in 0..Len(F) : k[n + q] = h[q],
         NEW q \in 1..Len(F), BlockStep(T, c, F, h, q)
  PROVE  BlockStep(T, c, G, k, n + q)
<1> DEFINE r == n + q
<1>1. Len(F) \in Nat /\ Len(G) \in Nat
  BY LenProperties DEF Codes
<1>2. G[r] = F[q] /\ (q > 1 => r > 1 /\ G[r - 1] = F[q - 1])
  <2>1. CASE q > 1
    <3>1. q - 1 \in 1..Len(F) /\ r - 1 = n + (q - 1) /\ r > 1
      BY <1>1, <2>1
    <3> QED
      BY <3>1
  <2> QED
    BY <2>1
<1>3. k[r] = h[q] /\ k[r - 1] = h[q - 1]
  <2>1. q \in 0..Len(F) /\ q - 1 \in 0..Len(F) /\ r - 1 = n + (q - 1)
    BY <1>1
  <2> QED
    BY <2>1
<1>4. F[q] \in Instruction
  BY ElementOfSeq DEF Codes
<1> HIDE DEF r
<1>5. TakesBy(T, G, r) = TakesBy(T, F, q) /\ (Sensible(T, c, G, r) <=> Sensible(T, c, F, q))
  <2>1. F[q].op = "Call" => q > 1
    BY DEF BlockStep, Counted, Sensible, CallsKnown
  <2> QED
    BY <1>2, <2>1, SameStep
<1>6. Left(T, G, k, r) = Left(T, F, h, q)
  BY <1>2, <1>3, <1>5 DEF Left
<1>7. Counted(T, c, G, k, r)
  BY <1>2, <1>3, <1>5, <1>6 DEF BlockStep, Counted
<1>8. ASSUME F[q].op \in Jumps PROVE Lands(T, G, k, r)
  <2>1. /\ F[q].arg > 0 /\ q - 1 + F[q].arg <= Len(F)
        /\ h[q - 1 + F[q].arg] = 0 /\ Left(T, F, h, q) = 0
    BY <1>8 DEF BlockStep, Lands
  <2>2. F[q].arg \in Int
    BY <1>4 DEF Instruction
  <2>3. /\ q - 1 + F[q].arg \in 0..Len(F)
        /\ r - 1 + F[q].arg = n + (q - 1 + F[q].arg)
        /\ r - 1 + F[q].arg <= Len(G)
    BY <1>1, <2>1, <2>2 DEF r
  <2>4. k[r - 1 + F[q].arg] = 0
    BY <2>1, <2>3
  <2> QED
    BY <1>2, <1>6, <2>1, <2>3, <2>4 DEF Lands
<1>9. ASSUME F[q].op \notin Jumps PROVE Lands(T, G, k, r)
  BY <1>2, <1>9 DEF Lands
<1> QED
  BY <1>7, <1>8, <1>9 DEF r, BlockStep

(* Two blocks, one after the other, are a block: both start and end with an empty stack. *)
LEMMA BlockConcat ==
  ASSUME NEW T, NEW c, NEW F \in Codes, NEW G \in Codes, Block(T, c, F), Block(T, c, G)
  PROVE  Block(T, c, F \o G)
<1>1. PICK g \in [0..Len(F) -> Nat] :
        g[0] = 0 /\ g[Len(F)] = 0 /\ \A q \in 1..Len(F) : BlockStep(T, c, F, g, q)
  BY DEF Block
<1>2. PICK k \in [0..Len(G) -> Nat] :
        k[0] = 0 /\ k[Len(G)] = 0 /\ \A q \in 1..Len(G) : BlockStep(T, c, G, k, q)
  BY DEF Block
<1> DEFINE n == Len(F)
           h == [i \in 0..(n + Len(G)) |-> IF i <= n THEN g[i] ELSE k[i - n]]
           H == F \o G
<1>3. n \in Nat /\ Len(G) \in Nat /\ Len(H) = n + Len(G) /\ H \in Codes
  BY Joined
<1>4. h \in [0..Len(H) -> Nat] /\ h[0] = 0 /\ h[Len(H)] = 0
  BY <1>1, <1>2, <1>3
<1>5. \A q \in 0..Len(F) : h[0 + q] = g[q]
  BY <1>3
<1>6. ASSUME NEW q \in 0..Len(G) PROVE h[n + q] = k[q]
  <2>1. n + q \in 0..(n + Len(G)) /\ (n + q) - n = q /\ (n + q <= n <=> q = 0)
    BY <1>3
  <2> QED
    BY <1>1, <1>2, <2>1
<1>7. (\A q \in 1..Len(F) : H[0 + q] = F[q]) /\ (\A q \in 1..Len(G) : H[n + q] = G[q])
  <2>1. ASSUME NEW q \in 1..Len(F) PROVE H[0 + q] = F[q]
    <3>1. 0 + q = q
      BY <1>3
    <3> QED
      BY <3>1, Joined
  <2>2. ASSUME NEW q \in 1..Len(G) PROVE H[n + q] = G[q]
    <3>1. n + q \in (n + 1)..(n + Len(G)) /\ (n + q) - n = q
      BY <1>3
    <3> QED
      BY <3>1, Joined
  <2> QED
    BY <2>1, <2>2
<1>8. ASSUME NEW q \in 1..Len(H) PROVE BlockStep(T, c, H, h, q)
  <2> HIDE DEF h, H
  <2>1. CASE q <= n
    <3>1. q \in 1..Len(F) /\ 0 + q = q /\ 0 + Len(F) <= Len(H)
      BY <1>3, <2>1
    <3>2. PICK z \in Nat : z = 0
      OBVIOUS
    <3>3. BlockStep(T, c, H, h, z + q)
      BY <1>1, <1>3, <1>5, <1>7, <3>1, <3>2, BlockStepMoved
    <3> QED
      BY <3>1, <3>2, <3>3
  <2>2. CASE q > n
    <3>1. q - n \in 1..Len(G) /\ n + (q - n) = q /\ n + Len(G) <= Len(H)
      BY <1>3, <2>2
    <3>2. BlockStep(T, c, H, h, n + (q - n))
      BY <1>2, <1>3, <1>6, <1>7, <3>1, BlockStepMoved
    <3> QED
      BY <3>1, <3>2
  <2> QED
    BY <2>1, <2>2, <1>3
<1> QED
  BY <1>4, <1>8 DEF Block

(* A block stays one when the tables grow. *)
LEMMA BlockKept ==
  ASSUME NEW T, NEW U, Shaped(T), Shaped(U), Extends(T, U), NEW c \in 0..Len(T.names),
         NEW F \in Codes, Block(T, c, F)
  PROVE  Block(U, c, F)
<1>1. PICK h \in [0..Len(F) -> Nat] :
        h[0] = 0 /\ h[Len(F)] = 0 /\ \A q \in 1..Len(F) : BlockStep(T, c, F, h, q)
  BY DEF Block
<1>2. ASSUME NEW q \in 1..Len(F) PROVE BlockStep(U, c, F, h, q)
  <2>1. BlockStep(T, c, F, h, q)
    BY <1>1
  <2>2. Sensible(U, c, F, q) /\ TakesBy(U, F, q) = TakesBy(T, F, q)
    BY <2>1, SensibleKept DEF BlockStep, Counted
  <2>3. Left(U, F, h, q) = Left(T, F, h, q)
    BY <2>2 DEF Left
  <2> QED
    BY <2>1, <2>2, <2>3 DEF BlockStep, Counted, Lands
<1> QED
  BY <1>1, <1>2 DEF Block

\* An expression of the top level alone: its value stays.
LEMMA LineAlone ==
  ASSUME NEW T, NEW F \in Codes, Shaped(T), Line(T, 0, F, 0, 1)
  PROVE  Block(T, 0, F)
<1>1. PICK g \in [0..Len(F) -> Nat] :
        g[0] = 0 /\ g[Len(F)] = 1 /\ \A q \in 1..Len(F) : LineStep(T, 0, F, g, q)
  BY DEF Line
<1> DEFINE h == [i \in 0..Len(F) |-> IF i = Len(F) THEN 0 ELSE g[i]]
<1>2. Len(F) \in Nat /\ Len(F) # 0
  BY <1>1, LenProperties DEF Codes
<1>3. h \in [0..Len(F) -> Nat] /\ h[0] = 0 /\ h[Len(F)] = 0
  BY <1>1, <1>2
<1>4. ASSUME NEW q \in 1..Len(F) PROVE BlockStep(T, 0, F, h, q)
  <2>1. LineStep(T, 0, F, g, q)
    BY <1>1
  <2>2. h[q - 1] = g[q - 1] /\ h[q] <= g[q] /\ g[q] \in Nat
    <3>1. q - 1 \in 0..Len(F) /\ q \in 0..Len(F) /\ q - 1 # Len(F)
      BY <1>2
    <3> QED
      BY <3>1
  <2> HIDE DEF h
  <2>3. Left(T, F, h, q) = g[q]
    BY <2>1, <2>2 DEF LineStep, Left
  <2>4. F[q].op \in BlockOps /\ F[q].op \notin Barriers \cup Jumps \cup {"Return"}
    BY <2>1 DEF LineStep, LineOps, BlockOps, Barriers, Jumps, BinaryOps, UnaryOps, ConstOps
  <2> QED
    BY <2>1, <2>2, <2>3, <2>4 DEF BlockStep, Counted, Lands, LineStep
<1> QED
  BY <1>3, <1>4 DEF Block

\* An expression whose value is stored, popped or returned.
LEMMA LineThen ==
  ASSUME NEW T, NEW c, NEW F \in Codes, Shaped(T), Line(T, c, F, 0, 1),
         NEW i \in Instruction, i.op \in {"Store", "StoreLocal", "Pop", "Return"},
         Resolved(T, c, i), i.op = "Return" => c # 0
  PROVE  F \o <<i>> \in Codes /\ Block(T, c, F \o <<i>>)
<1>1. PICK g \in [0..Len(F) -> Nat] :
        g[0] = 0 /\ g[Len(F)] = 1 /\ \A q \in 1..Len(F) : LineStep(T, c, F, g, q)
  BY DEF Line
<1> DEFINE n == Len(F)
           H == F \o <<i>>
           h == [j \in 0..(n + 1) |-> IF j <= n THEN g[j] ELSE 0]
<1>2. <<i>> \in Codes /\ Len(<<i>>) = 1 /\ <<i>>[1] = i
  BY DEF Codes
<1>3. n \in Nat /\ H \in Codes /\ Len(H) = n + 1
  BY <1>2, Joined
<1>4. H[n + 1] = i /\ \A q \in 1..n : H[q] = F[q]
  <2>1. n + 1 \in (n + 1)..(n + 1) /\ (n + 1) - n = 1
    BY <1>3
  <2>2. H[n + 1] = <<i>>[(n + 1) - n]
    BY <1>2, <2>1, Joined
  <2> QED
    BY <1>2, <2>1, <2>2, Joined
<1>5. h \in [0..Len(H) -> Nat] /\ h[0] = 0 /\ h[Len(H)] = 0 /\ h[n] = 1 /\ h[n + 1] = 0
  BY <1>1, <1>3
<1>6. \A j \in 0..n : h[j] = g[j]
  BY <1>3
<1> HIDE DEF h, H
<1>7. ASSUME NEW q \in 1..n PROVE BlockStep(T, c, H, h, q)
  <2>1. LineStep(T, c, F, g, q)
    BY <1>1
  <2>2. h[q - 1] = g[q - 1] /\ h[q] = g[q] /\ g[q] \in Nat
    <3>1. q - 1 \in 0..n /\ q \in 0..n
      BY <1>3
    <3> QED
      BY <1>6, <3>1
  <2>3. F[q].op = "Call" => q > 1 /\ F[q - 1] = H[q - 1]
    <3>1. F[q].op = "Call" => q > 1
      BY <2>1 DEF LineStep, Sensible, CallsKnown
    <3>2. q > 1 => q - 1 \in 1..n
      BY <1>3
    <3> QED
      BY <1>4, <3>1, <3>2
  <2>4. TakesBy(T, H, q) = TakesBy(T, F, q) /\ (Sensible(T, c, H, q) <=> Sensible(T, c, F, q))
    BY <1>4, <2>3, SameStep
  <2>5. Left(T, H, h, q) = g[q]
    BY <1>4, <2>1, <2>2, <2>4 DEF LineStep, Left
  <2>6. F[q].op \in BlockOps /\ F[q].op \notin Barriers \cup Jumps \cup {"Return"}
    BY <2>1 DEF LineStep, LineOps, BlockOps, Barriers, Jumps, BinaryOps, UnaryOps, ConstOps
  <2> QED
    BY <1>4, <2>1, <2>2, <2>4, <2>5, <2>6 DEF BlockStep, Counted, Lands, LineStep
<1>8. BlockStep(T, c, H, h, n + 1)
  <2>1. (n + 1) - 1 = n
    BY <1>3
  <2>2. TakesBy(T, H, n + 1) = IF i.op = "Pop" THEN 0 ELSE 1
    BY <1>4 DEF TakesBy, Taken, BinaryOps, UnaryOps
  <2>3. Given(i.op) = 0 /\ i.op \in BlockOps /\ i.op \notin Jumps /\ (i.op \notin Barriers => i.op # "Pop")
    BY DEF Given, LineOps, BlockOps, Barriers, Jumps, BinaryOps, UnaryOps, ConstOps
  <2>4. Sensible(T, c, H, n + 1)
    BY <1>4 DEF Sensible, CallsKnown
  <2>5. i.op # "Pop" => Left(T, H, h, n + 1) = 0
    BY <1>4, <1>5, <2>1, <2>2, <2>3 DEF Left
  <2> QED
    BY <1>4, <1>5, <2>1, <2>2, <2>3, <2>4, <2>5 DEF BlockStep, Counted, Lands
<1>9. \A q \in 1..Len(H) : q \in 1..n \/ q = n + 1
  BY <1>3
<1>10. Block(T, c, H)
  BY <1>5, <1>7, <1>8, <1>9 DEF Block
<1> QED
  BY <1>3, <1>10 DEF H

\* A jump over a piece.
LEMMA BlockSkip ==
  ASSUME NEW T, NEW c, NEW F \in Codes, Block(T, c, F)
  PROVE  LET J == <<Instr("Jmp", Len(F) + 1)>>
         IN  J \in Codes /\ J \o F \in Codes /\ Block(T, c, J \o F)
<1> DEFINE n == Len(F)
           i == Instr("Jmp", n + 1)
           J == <<i>>
           H == J \o F
<1>1. PICK k \in [0..n -> Nat] : k[0] = 0 /\ k[n] = 0 /\ \A q \in 1..n : BlockStep(T, c, F, k, q)
  BY DEF Block
<1>2. n \in Nat
  BY LenProperties DEF Codes
<1>3. J \in Codes /\ Len(J) = 1 /\ J[1] = i
  BY <1>2 DEF Codes, Instr, Instruction, OpCodes
<1>4. H \in Codes /\ Len(H) = 1 + n
  BY <1>3, Joined
<1>5. H[1] = i /\ \A q \in 1..n : H[1 + q] = F[q]
  <2>1. ASSUME NEW q \in 1..n PROVE H[1 + q] = F[q]
    <3> HIDE DEF J
    <3>1. H[Len(J) + q] = F[q]
      BY <1>3, Joined
    <3> QED
      BY <3>1, <1>3
  <2>2. 1 \in 1..Len(J)
    BY <1>3
  <2> HIDE DEF J
  <2> QED
    BY <2>1, <2>2, <1>3, Joined
<1> DEFINE h == [j \in 0..(1 + n) |-> IF j = 0 THEN 0 ELSE k[j - 1]]
<1>6. h \in [0..Len(H) -> Nat] /\ h[0] = 0 /\ h[1] = 0 /\ h[Len(H)] = 0
  BY <1>1, <1>2, <1>4
<1>7. ASSUME NEW q \in 0..n PROVE h[1 + q] = k[q]
  BY <1>2
<1> HIDE DEF h, H
<1>8. ASSUME NEW q \in 1..n PROVE BlockStep(T, c, H, h, 1 + q)
  <2>1. PICK z \in Nat : z = 1
    OBVIOUS
  <2>2. /\ z + Len(F) <= Len(H)
        /\ \A r \in 1..Len(F) : H[z + r] = F[r]
        /\ \A r \in 0..Len(F) : h[z + r] = k[r]
    BY <1>2, <1>4, <1>5, <1>7, <2>1
  <2>3. BlockStep(T, c, H, h, z + q)
    BY <1>1, <1>4, <2>2, BlockStepMoved
  <2> QED
    BY <2>1, <2>3
<1>9. BlockStep(T, c, H, h, 1)
  <2>1. H[1].op = "Jmp" /\ H[1].arg = n + 1
    BY <1>5 DEF Instr
  <2>2. "Jmp" \in BlockOps /\ "Jmp" \in Barriers /\ "Jmp" \in Jumps /\ Taken("Jmp") = 0 /\ Given("Jmp") = 0
    BY DEF BlockOps, Barriers, Jumps, Taken, Given, LineOps, BinaryOps, UnaryOps, ConstOps
  <2>3. TakesBy(T, H, 1) = 0 /\ Sensible(T, c, H, 1)
    BY <2>1, <2>2 DEF TakesBy, Sensible, Resolved, CallsKnown
  <2>4. h[1 - 1] = 0 /\ Left(T, H, h, 1) = 0
    BY <1>6, <2>1, <2>2, <2>3 DEF Left
  <2>5. Counted(T, c, H, h, 1)
    BY <1>6, <2>1, <2>2, <2>3, <2>4 DEF Counted
  <2>6. 1 - 1 + H[1].arg = Len(H) /\ H[1].arg > 0
    BY <1>2, <1>4, <2>1
  <2>7. Lands(T, H, h, 1)
    BY <1>4, <1>6, <1>2, <2>4, <2>6 DEF Lands
  <2> QED
    BY <2>5, <2>7 DEF BlockStep
<1>10. ASSUME NEW q \in 1..Len(H) PROVE BlockStep(T, c, H, h, q)
  <2>1. CASE q = 1
    BY <2>1, <1>9
  <2>2. CASE q # 1
    <3>1. q - 1 \in 1..n /\ 1 + (q - 1) = q
      BY <2>2, <1>2, <1>4
    <3>2. BlockStep(T, c, H, h, 1 + (q - 1))
      BY <1>8, <3>1
    <3> QED
      BY <3>1, <3>2
  <2> QED
    BY <2>1, <2>2
<1>11. Block(T, c, H)
  BY <1>6, <1>10 DEF Block
<1> QED
  BY <1>3, <1>4, <1>11 DEF H

\* A test, and a jump from it to a place of the piece that follows where none
\* is counted on.
LEMMA BlockTest ==
  ASSUME NEW T, NEW c, NEW E \in Codes, Shaped(T), Line(T, c, E, 0, 1),
         NEW F \in Codes, NEW k \in [0..Len(F) -> Nat], k[0] = 0, k[Len(F)] = 0,
         \A q \in 1..Len(F) : BlockStep(T, c, F, k, q),
         NEW d \in 0..Len(F), k[d] = 0
  PROVE  LET H == (E \o <<Instr("JmpIfFalse", d + 1)>>) \o F
         IN  H \in Codes /\ Block(T, c, H)
<1> DEFINE n == Len(E)
           i == Instr("JmpIfFalse", d + 1)
           D == E \o <<i>>
           H == D \o F
           m == n + 1
<1>1. PICK g \in [0..n -> Nat] :
        g[0] = 0 /\ g[n] = 1 /\ \A q \in 1..n : LineStep(T, c, E, g, q)
  BY DEF Line
<1>2. n \in Nat /\ Len(F) \in Nat /\ d \in Nat /\ d <= Len(F)
  BY LenProperties DEF Codes
<1>3. <<i>> \in Codes /\ Len(<<i>>) = 1 /\ <<i>>[1] = i
  BY <1>2 DEF Codes, Instr, Instruction, OpCodes
<1>4. D \in Codes /\ Len(D) = m /\ D[m] = i /\ \A q \in 1..n : D[q] = E[q]
  <2>1. n + 1 \in (n + 1)..(n + 1) /\ (n + 1) - n = 1
    BY <1>2
  <2>2. D[n + 1] = <<i>>[(n + 1) - n]
    BY <1>3, <2>1, Joined
  <2> QED
    BY <1>3, <2>1, <2>2, Joined
<1> HIDE DEF D
<1>5. H \in Codes /\ Len(H) = m + Len(F)
  <2>1. H \in Codes /\ Len(H) = Len(D) + Len(F)
    BY <1>4, Joined
  <2> QED
    BY <1>4, <2>1
<1>6. H[m] = i /\ (\A q \in 1..n : H[q] = E[q]) /\ (\A q \in 1..Len(F) : H[m + q] = F[q])
  <2>1. ASSUME NEW q \in 1..Len(F) PROVE H[m + q] = F[q]
    <3>1. H[Len(D) + q] = F[q]
      BY <1>4, Joined
    <3> QED
      BY <3>1, <1>4
  <2>2. ASSUME NEW q \in 1..m PROVE H[q] = D[q]
    BY <1>4, Joined
  <2>3. m \in 1..m /\ \A q \in 1..n : q \in 1..m
    BY <1>2
  <2> QED
    BY <2>1, <2>2, <2>3, <1>4
<1> DEFINE h == [j \in 0..(m + Len(F)) |-> IF j <= n THEN g[j] ELSE k[j - m]]
<1>7. h \in [0..Len(H) -> Nat] /\ h[0] = 0 /\ h[n] = 1 /\ h[Len(H)] = 0
  BY <1>1, <1>2, <1>5
<1>8. ASSUME NEW q \in 0..Len(F) PROVE h[m + q] = k[q]
  <2>1. m + q \in 0..(m + Len(F)) /\ ~(m + q <= n) /\ (m + q) - m = q
    BY <1>2
  <2> QED
    BY <2>1
<1>9. \A j \in 0..n : h[j] = g[j]
  BY <1>2
<1> HIDE DEF h, H
<1>10. ASSUME NEW q \in 1..Len(F) PROVE BlockStep(T, c, H, h, m + q)
  <2>1. m \in Nat /\ m + Len(F) <= Len(H)
    BY <1>2, <1>5
  <2> HIDE DEF m
  <2> QED
    BY <2>1, <1>5, <1>6, <1>8, BlockStepMoved
<1>11. ASSUME NEW q \in 1..n PROVE BlockStep(T, c, H, h, q)
  <2>1. LineStep(T, c, E, g, q)
    BY <1>1
  <2>2. h[q - 1] = g[q - 1] /\ h[q] = g[q] /\ g[q] \in Nat
    <3>1. q - 1 \in 0..n /\ q \in 0..n
      BY <1>2
    <3> QED
      BY <1>9, <3>1
  <2>3. E[q].op = "Call" => q > 1 /\ E[q - 1] = H[q - 1]
    <3>1. E[q].op = "Call" => q > 1
      BY <2>1 DEF LineStep, Sensible, CallsKnown
    <3>2. q > 1 => q - 1 \in 1..n
      BY <1>2
    <3> QED
      BY <1>6, <3>1, <3>2
  <2>4. TakesBy(T, H, q) = TakesBy(T, E, q) /\ (Sensible(T, c, H, q) <=> Sensible(T, c, E, q))
    BY <1>6, <2>3, SameStep
  <2>5. Left(T, H, h, q) = g[q]
    BY <1>6, <2>1, <2>2, <2>4 DEF LineStep, Left
  <2>6. E[q].op \in BlockOps /\ E[q].op \notin Barriers \cup Jumps \cup {"Return"}
    BY <2>1 DEF LineStep, LineOps, BlockOps, Barriers, Jumps, BinaryOps, UnaryOps, ConstOps
  <2> QED
    BY <1>6, <2>1, <2>2, <2>4, <2>5, <2>6 DEF BlockStep, Counted, Lands, LineStep
<1>12. BlockStep(T, c, H, h, m)
  <2>1. H[m].op = "JmpIfFalse" /\ H[m].arg = d + 1 /\ m - 1 = n
    BY <1>2, <1>6 DEF Instr
  <2>2. "JmpIfFalse" \in BlockOps /\ "JmpIfFalse" \notin Barriers /\ Taken("JmpIfFalse") = 1
        /\ Given("JmpIfFalse") = 0
    BY DEF BlockOps, Barriers, Taken, Given, LineOps, BinaryOps, UnaryOps, ConstOps
  <2>3. TakesBy(T, H, m) = 1 /\ Sensible(T, c, H, m)
    BY <2>1, <2>2 DEF TakesBy, Sensible, Resolved, CallsKnown
  <2>4. h[m - 1] = 1 /\ Left(T, H, h, m) = 0
    BY <1>7, <2>1, <2>2, <2>3 DEF Left
  <2>5. h[m] = 0
    <3>1. 0 \in 0..Len(F) /\ m + 0 = m
      BY <1>2
    <3> QED
      BY <1>8, <3>1
  <2>6. Counted(T, c, H, h, m)
    BY <2>1, <2>2, <2>3, <2>4, <2>5 DEF Counted
  <2>7. m - 1 + H[m].arg = m + d /\ H[m].arg > 0 /\ m + d <= Len(H)
    <3>1. m - 1 + (d + 1) = m + d /\ d + 1 > 0 /\ m + d <= m + Len(F)
      BY <1>2
    <3> HIDE DEF m
    <3> QED
      BY <1>5, <2>1, <3>1
  <2>8. Lands(T, H, h, m)
    BY <1>8, <2>4, <2>7 DEF Lands
  <2> QED
    BY <2>6, <2>8 DEF BlockStep
<1>13. ASSUME NEW q \in 1..Len(H) PROVE BlockStep(T, c, H, h, q)
  <2>1. CASE q <= n
    BY <2>1, <1>11, <1>2
  <2>2. CASE q = m
    BY <2>2, <1>12
  <2>3. CASE q > m
    <3>1. q - m \in 1..Len(F) /\ m + (q - m) = q
      BY <2>3, <1>2, <1>5
    <3>2. BlockStep(T, c, H, h, m + (q - m))
      BY <1>10, <3>1
    <3> QED
      BY <3>1, <3>2
  <2> QED
    BY <2>1, <2>2, <2>3, <1>2
<1>14. Block(T, c, H)
  BY <1>7, <1>13 DEF Block
<1> QED
  BY <1>5, <1>14 DEF H, D

\* A branch that is taken or not, and one of two branches.
LEMMA BlockIf ==
  ASSUME NEW T, NEW c, NEW E \in Codes, Shaped(T), Line(T, c, E, 0, 1),
         NEW A \in Codes, Block(T, c, A)
  PROVE  LET H == (E \o <<Instr("JmpIfFalse", Len(A) + 1)>>) \o A
         IN  H \in Codes /\ Block(T, c, H)
<1>1. PICK k \in [0..Len(A) -> Nat] :
        k[0] = 0 /\ k[Len(A)] = 0 /\ \A q \in 1..Len(A) : BlockStep(T, c, A, k, q)
  BY DEF Block
<1>2. Len(A) \in 0..Len(A)
  BY LenProperties DEF Codes
<1> QED
  BY <1>1, <1>2, BlockTest

(* Test, then-block, jump over the else-block, else-block: together a block (ElsePart). *)
LEMMA BlockIfElse ==
  ASSUME NEW T, NEW c, NEW E \in Codes, Shaped(T), Line(T, c, E, 0, 1),
         NEW A \in Codes, Block(T, c, A), NEW B \in Codes, Block(T, c, B)
  PROVE  LET R == A \o (<<Instr("Jmp", Len(B) + 1)>> \o B)
             H == (E \o <<Instr("JmpIfFalse", Len(A) + 2)>>) \o R
         IN  H \in Codes /\ Block(T, c, H)
<1> DEFINE J == <<Instr("Jmp", Len(B) + 1)>>
           S == J \o B
           R == A \o S
           d == Len(A) + 1
<1>1. J \in Codes /\ S \in Codes /\ Block(T, c, S)
  BY BlockSkip
<1>2. R \in Codes /\ Block(T, c, R)
  <2> HIDE DEF S
  <2> QED
    BY <1>1, Joined, BlockConcat
<1>3. PICK k \in [0..Len(R) -> Nat] :
        k[0] = 0 /\ k[Len(R)] = 0 /\ \A q \in 1..Len(R) : BlockStep(T, c, R, k, q)
  BY <1>2 DEF Block
<1>4. Len(J) = 1 /\ J[1] = Instr("Jmp", Len(B) + 1)
  OBVIOUS
<1> HIDE DEF J
<1>5. Len(S) = 1 + Len(B) /\ S[1] = J[1] /\ Len(B) \in Nat
  <2>1. 1 \in 1..Len(J)
    BY <1>4
  <2>2. Len(S) = Len(J) + Len(B) /\ S[1] = J[1] /\ Len(B) \in Nat
    BY <1>1, <2>1, Joined
  <2> QED
    BY <1>4, <2>2
<1> HIDE DEF S
<1>6. Len(R) = Len(A) + Len(S) /\ R[d] = S[1] /\ Len(A) \in Nat
  <2>1. Len(A) \in Nat /\ Len(R) = Len(A) + Len(S)
    BY <1>1, Joined
  <2>2. d \in (Len(A) + 1)..(Len(A) + Len(S)) /\ d - Len(A) = 1
    BY <1>5, <2>1
  <2> QED
    BY <1>1, <2>1, <2>2, Joined
<1> HIDE DEF R
<1>7. d \in 1..Len(R) /\ d \in 0..Len(R) /\ R[d].op = "Jmp" /\ d + 1 = Len(A) + 2
  BY <1>4, <1>5, <1>6 DEF Instr
<1>8. k[d] = 0
  <2>1. BlockStep(T, c, R, k, d)
    BY <1>3, <1>7
  <2> HIDE DEF d
  <2> QED
    BY <2>1, <1>7 DEF BlockStep, Counted, Barriers
<1> HIDE DEF d
<1>9. LET H == (E \o <<Instr("JmpIfFalse", d + 1)>>) \o R
      IN  H \in Codes /\ Block(T, c, H)
  BY <1>2, <1>3, <1>7, <1>8, BlockTest
<1> QED
  BY <1>7, <1>9 DEF R, S, J

-----------------------------------------------------------------------------
(* What holds of the code of every function, also of one that is not closed. *)

\* An instruction refers to what is there, and jumps forward.
Regular(T, F) ==
  \A q \in 1..Len(F) :
    /\ F[q].op = "Load" => F[q].arg \in 0..(Len(T.names) - 1)
    /\ F[q].op = "Pushd" => F[q].arg \in 1..Len(T.constants)
    /\ F[q].op \in Jumps => F[q].arg > 0

\* None is for the end of a function.
Open(F) == \A q \in 1..Len(F) : F[q].op # "PushNone"

(* Regular pieces of code make a regular code. *)
LEMMA RegularConcat ==
  ASSUME NEW T, NEW F \in Codes, NEW G \in Codes, Regular(T, F), Regular(T, G)
  PROVE  Regular(T, F \o G)
<1> DEFINE H == F \o G
<1>1. Len(H) = Len(F) + Len(G) /\ Len(F) \in Nat /\ Len(G) \in Nat
  BY Joined
<1>2. ASSUME NEW q \in 1..Len(H)
      PROVE  \/ q \in 1..Len(F) /\ H[q] = F[q]
             \/ q - Len(F) \in 1..Len(G) /\ H[q] = G[q - Len(F)]
  <2>1. \/ q \in 1..Len(F)
        \/ q \in (Len(F) + 1)..(Len(F) + Len(G)) /\ q - Len(F) \in 1..Len(G)
    BY <1>1
  <2> QED
    BY <2>1, Joined
<1> HIDE DEF H
<1>3. Regular(T, H)
  BY <1>2 DEF Regular
<1> QED
  BY <1>3 DEF H

(* Code without Halt followed by code without Halt has no Halt. *)
LEMMA OpenConcat ==
  ASSUME NEW F \in Codes, NEW G \in Codes, Open(F), Open(G)
  PROVE  Open(F \o G)
<1> DEFINE H == F \o G
<1>1. Len(H) = Len(F) + Len(G) /\ Len(F) \in Nat /\ Len(G) \in Nat
  BY Joined
<1>2. ASSUME NEW q \in 1..Len(H)
      PROVE  \/ q \in 1..Len(F) /\ H[q] = F[q]
             \/ q - Len(F) \in 1..Len(G) /\ H[q] = G[q - Len(F)]
  <2>1. \/ q \in 1..Len(F)
        \/ q \in (Len(F) + 1)..(Len(F) + Len(G)) /\ q - Len(F) \in 1..Len(G)
    BY <1>1
  <2> QED
    BY <2>1, Joined
<1> HIDE DEF H
<1>3. Open(H)
  BY <1>2 DEF Open
<1> QED
  BY <1>3 DEF H

(* Regular code stays regular when the tables grow. *)
LEMMA RegularKept ==
  ASSUME NEW T, NEW U, Shaped(T), Shaped(U), Extends(T, U), NEW F \in Codes, Regular(T, F)
  PROVE  Regular(U, F)
<1>1. Len(T.names) \in Nat /\ Len(U.names) \in Nat /\ Len(T.constants) \in Nat /\ Len(U.constants) \in Nat
  BY LenProperties DEF Shaped, TableSet
<1>2. Len(T.names) <= Len(U.names) /\ Len(T.constants) <= Len(U.constants)
  BY DEF Extends, Keeps
<1>3. ASSUME NEW q \in 1..Len(F), F[q].op = "Load" PROVE F[q].arg \in 0..(Len(U.names) - 1)
  BY <1>1, <1>2, <1>3, Within DEF Regular
<1>4. ASSUME NEW q \in 1..Len(F), F[q].op = "Pushd" PROVE F[q].arg \in 1..Len(U.constants)
  <2>1. F[q].arg \in 1..Len(T.constants)
    BY <1>4 DEF Regular
  <2> QED
    BY <1>1, <1>2, <2>1
<1> QED
  BY <1>3, <1>4 DEF Regular

(* An operand line is regular and has no Halt. *)
LEMMA LineRegular ==
  ASSUME NEW T, NEW c, NEW F \in Codes, NEW a, NEW b, Line(T, c, F, a, b)
  PROVE  Regular(T, F) /\ Open(F)
<1>1. PICK g \in [0..Len(F) -> Nat] : \A q \in 1..Len(F) : LineStep(T, c, F, g, q)
  BY DEF Line
<1>2. ASSUME NEW q \in 1..Len(F)
      PROVE  F[q].op \in LineOps /\ Resolved(T, c, F[q])
  BY <1>1 DEF LineStep, Sensible
<1>3. \A op \in LineOps : op # "PushNone" /\ op \notin Jumps
  BY DEF LineOps, Jumps, BinaryOps, UnaryOps, ConstOps
<1> QED
  BY <1>2, <1>3 DEF Regular, Open, Resolved

-----------------------------------------------------------------------------
(* The heights of a code, which are defined by recursion, and what is known  *)
(* of them from one way to count the operands.                              *)

Before(m, c, i) == {j \in 0..(i - 1) : i \in Successors(m, c, j)}
Leaves(m, c, g, j) == g[j] - Takes(m, c, j) + Gives(m, c, j)
HeightFrom(m, c, g, i) ==
  IF Before(m, c, i) = {} THEN 0
  ELSE Least({Leaves(m, c, g, j) : j \in Before(m, c, i)})
HeightsUpTo(m, c, n, g) == g = [i \in 0..n |-> HeightFrom(m, c, g, i)]

\* A height comes from those before it.
LEMMA HeightFromBelow ==
  ASSUME NEW m, NEW c, NEW i \in Nat, NEW g, NEW h, \A j \in 0..(i - 1) : g[j] = h[j]
  PROVE  HeightFrom(m, c, g, i) = HeightFrom(m, c, h, i)
<1>1. \A j \in Before(m, c, i) : Leaves(m, c, g, j) = Leaves(m, c, h, j)
  BY DEF Before, Leaves
<1>2. {Leaves(m, c, g, j) : j \in Before(m, c, i)} = {Leaves(m, c, h, j) : j \in Before(m, c, i)}
  BY <1>1
<1> QED
  BY <1>2 DEF HeightFrom

(* The height CodeDiscipline computes is the function its definition describes. *)
LEMMA HeightDefined ==
  ASSUME NEW m, NEW c, Len(m.code[c]) \in Nat
  PROVE  \A i \in 0..Len(m.code[c]) : Height(m, c)[i] = HeightFrom(m, c, Height(m, c), i)
<1> DEFINE N == Len(m.code[c])
           Made == {n \in 0..N : \E g : HeightsUpTo(m, c, n, g)}
<1>1. 0 \in Made
  <2> DEFINE g == [i \in 0..0 |-> HeightFrom(m, c, <<>>, 0)]
  <2>1. \A i \in 0..0 : HeightFrom(m, c, g, i) = HeightFrom(m, c, <<>>, 0)
    <3>1. \A i \in 0..0 : i = 0
      OBVIOUS
    <3>2. \A j \in 0..(0 - 1) : FALSE
      OBVIOUS
    <3>3. HeightFrom(m, c, g, 0) = HeightFrom(m, c, <<>>, 0)
      BY <3>2, HeightFromBelow
    <3> QED
      BY <3>1, <3>3
  <2>2. HeightsUpTo(m, c, 0, g)
    BY <2>1 DEF HeightsUpTo
  <2> QED
    BY <2>2
<1>2. ASSUME NEW n \in 0..(N - 1), n \in Made PROVE n + 1 \in Made
  <2>1. PICK g : HeightsUpTo(m, c, n, g)
    BY <1>2
  <2> DEFINE w == [i \in 0..(n + 1) |-> IF i <= n THEN g[i] ELSE HeightFrom(m, c, g, n + 1)]
  <2>2. \A j \in 0..n : w[j] = g[j]
    OBVIOUS
  <2>3. ASSUME NEW i \in 0..(n + 1) PROVE HeightFrom(m, c, w, i) = HeightFrom(m, c, g, i)
    <3>1. i \in Nat /\ \A j \in 0..(i - 1) : j \in 0..n
      OBVIOUS
    <3> HIDE DEF w
    <3>2. \A j \in 0..(i - 1) : w[j] = g[j]
      BY <2>2, <3>1
    <3> QED
      BY <3>1, <3>2, HeightFromBelow
  <2>4. \A i \in 0..n : g[i] = HeightFrom(m, c, g, i)
    BY <2>1 DEF HeightsUpTo
  <2>5. ASSUME NEW i \in 0..(n + 1) PROVE w[i] = HeightFrom(m, c, w, i)
    <3>1. CASE i <= n
      BY <3>1, <2>2, <2>3, <2>4
    <3>2. CASE i = n + 1
      BY <3>2, <2>3
    <3> QED
      BY <3>1, <3>2
  <2>6. w = [i \in 0..(n + 1) |-> w[i]]
    OBVIOUS
  <2> HIDE DEF w
  <2>7. HeightsUpTo(m, c, n + 1, w)
    BY <2>5, <2>6 DEF HeightsUpTo
  <2>8. n + 1 \in 0..N
    BY <1>2
  <2> QED
    BY <2>7, <2>8
<1>3. N \in Made
  <2> HIDE DEF Made
  <2>1. 0..N \subseteq Made
    BY <1>1, <1>2, InductionUpTo
  <2> QED
    BY <2>1
<1>4. PICK g : HeightsUpTo(m, c, N, g)
  BY <1>3
<1> DEFINE Heights(f) == [i \in 0..N |->
             LET before == {j \in 0..(i - 1) : i \in Successors(m, c, j)}
             IN  IF before = {} THEN 0
                 ELSE Least({f[j] - Takes(m, c, j) + Gives(m, c, j) : j \in before})]
<1>5. \A f : f = Heights(f) <=> HeightsUpTo(m, c, N, f)
  BY DEF HeightsUpTo, HeightFrom, Before, Leaves
<1>6. Height(m, c) = CHOOSE f : f = Heights(f)
  BY DEF Height
<1>7. \E f : f = Heights(f)
  BY <1>4, <1>5
<1> HIDE DEF Heights
<1>8. Height(m, c) = Heights(Height(m, c))
  BY <1>6, <1>7
<1>9. HeightsUpTo(m, c, N, Height(m, c))
  BY <1>5, <1>8
<1> HIDE DEF N
<1>10. \A i \in 0..N : Height(m, c)[i] = HeightFrom(m, c, Height(m, c), i)
  <2> DEFINE f == Height(m, c)
  <2>1. f = [i \in 0..N |-> HeightFrom(m, c, f, i)]
    BY <1>9 DEF HeightsUpTo
  <2> HIDE DEF f
  <2>2. \A i \in 0..N : f[i] = HeightFrom(m, c, f, i)
    BY <2>1
  <2> QED
    BY <2>2 DEF f
<1> QED
  BY <1>10 DEF N

\* h counts the operands of code c: exactly, unless it is the top level.
Counting(m, c, h) ==
  LET n == Len(m.code[c])
  IN  /\ n \in Nat
      /\ h \in [0..n -> Nat] /\ h[0] = 0
      /\ \A i \in 0..(n - 1) :
           /\ Takes(m, c, i) \in Nat /\ Gives(m, c, i) \in Nat
           /\ Takes(m, c, i) <= h[i]
           /\ i + 1 \notin Successors(m, c, i) => h[i + 1] = 0
           /\ \A j \in Successors(m, c, i) :
                /\ j \in 0..(n - 1) /\ j > i
                /\ h[j] <= Leaves(m, c, h, i)
                /\ c # Main => h[j] = Leaves(m, c, h, i)

\* Then there are as many at least, and in a function as many.
LEMMA HeightCounts ==
  ASSUME NEW m, NEW c, NEW h, Counting(m, c, h)
  PROVE  LET H == Height(m, c)
             n == Len(m.code[c])
         IN  /\ \A i \in 0..n : H[i] \in Nat /\ h[i] <= H[i] /\ (c # Main => H[i] = h[i])
             /\ H[0] = 0
             /\ \A i \in 0..(n - 1) : \A j \in Successors(m, c, i) :
                  /\ H[j] <= Leaves(m, c, H, i)
                  /\ c # Main => H[j] = Leaves(m, c, H, i)
<1> DEFINE H == Height(m, c)
           n == Len(m.code[c])
           Bounded(i) == H[i] \in Nat /\ h[i] <= H[i] /\ (c # Main => H[i] = h[i])
           Low == {i \in 0..n : \A j \in 0..i : Bounded(j)}
<1>1. n \in Nat /\ h \in [0..n -> Nat] /\ h[0] = 0
  BY DEF Counting
<1>2. \A i \in 0..n : H[i] = HeightFrom(m, c, H, i)
  BY <1>1, HeightDefined
<1> HIDE DEF H
<1>3. H[0] = 0
  <2>1. Before(m, c, 0) = {}
    BY DEF Before
  <2>2. 0 \in 0..n
    BY <1>1
  <2> QED
    BY <1>2, <2>1, <2>2 DEF HeightFrom
<1>4. 0 \in Low
  <2>1. Bounded(0)
    BY <1>1, <1>3
  <2>2. 0 \in 0..n /\ \A j \in 0..0 : j = 0
    BY <1>1
  <2> HIDE DEF Bounded
  <2> QED
    BY <2>1, <2>2
\* What leads to a place that is next.
<1>5. ASSUME NEW i \in 1..n, \A j \in 0..(i - 1) : Bounded(j)
      PROVE  LET L == {Leaves(m, c, H, j) : j \in Before(m, c, i)}
             IN  /\ L \in SUBSET Nat
                 /\ \A v \in L : h[i] <= v /\ (c # Main => v = h[i])
                 /\ L = {} <=> Before(m, c, i) = {}
                 /\ Before(m, c, i) = {} => h[i] = 0
  <2> DEFINE L == {Leaves(m, c, H, j) : j \in Before(m, c, i)}
  <2>1. ASSUME NEW j \in Before(m, c, i)
        PROVE  /\ Leaves(m, c, H, j) \in Nat /\ h[i] <= Leaves(m, c, H, j)
               /\ c # Main => Leaves(m, c, H, j) = h[i]
    <3>1. j \in 0..(i - 1) /\ j \in 0..(n - 1) /\ j \in 0..n /\ i \in Successors(m, c, j)
      BY <1>1 DEF Before
    <3>2. Bounded(j) /\ h[j] \in Nat /\ h[i] \in Nat
      BY <1>1, <1>5, <3>1
    <3>3. /\ Takes(m, c, j) \in Nat /\ Gives(m, c, j) \in Nat /\ Takes(m, c, j) <= h[j]
          /\ h[i] <= Leaves(m, c, h, j) /\ (c # Main => h[i] = Leaves(m, c, h, j))
      BY <3>1 DEF Counting
    <3> QED
      BY <3>2, <3>3 DEF Leaves
  <2>2. ASSUME Before(m, c, i) = {} PROVE h[i] = 0
    <3>1. i - 1 \in 0..(n - 1) /\ i - 1 \in 0..(i - 1) /\ (i - 1) + 1 = i
      BY <1>1
    <3>2. (i - 1) + 1 \notin Successors(m, c, i - 1)
      BY <2>2, <3>1 DEF Before
    <3>3. h[(i - 1) + 1] = 0
      BY <3>1, <3>2 DEF Counting
    <3> QED
      BY <3>1, <3>3
  <2> QED
    BY <2>1, <2>2
<1>6. ASSUME NEW S \in SUBSET Nat, S # {}
      PROVE  Least(S) \in S /\ \A v \in S : Least(S) <= v
  <2>1. \E v \in S : \A w \in S : v <= w
    BY <1>6, LeastNumber
  <2> QED
    BY <2>1 DEF Least
<1>7. ASSUME NEW i \in 0..(n - 1), i \in Low PROVE i + 1 \in Low
  <2> DEFINE k == i + 1
             L == {Leaves(m, c, H, j) : j \in Before(m, c, k)}
  <2>1. k \in 1..n /\ k \in 0..n /\ k - 1 = i
    BY <1>1
  <2>2. \A j \in 0..(k - 1) : Bounded(j)
    BY <1>7, <2>1
  <2> HIDE DEF Bounded
  <2>3. /\ L \in SUBSET Nat
        /\ \A v \in L : h[k] <= v /\ (c # Main => v = h[k])
        /\ L = {} <=> Before(m, c, k) = {}
        /\ Before(m, c, k) = {} => h[k] = 0
    BY <1>5, <2>1, <2>2
  <2>4. H[k] = IF Before(m, c, k) = {} THEN 0 ELSE Least(L)
    BY <1>2, <2>1 DEF HeightFrom
  <2> HIDE DEF L
  <2>5. Bounded(k)
    <3>1. CASE L = {}
      BY <2>3, <2>4, <3>1 DEF Bounded
    <3>2. CASE L # {}
      <4>1. Least(L) \in L
        BY <1>6, <2>3, <3>2
      <4> QED
        BY <2>3, <2>4, <3>2, <4>1 DEF Bounded
    <3> QED
      BY <3>1, <3>2
  <2>6. \A j \in 0..k : j \in 0..(k - 1) \/ j = k
    BY <2>1
  <2> HIDE DEF k
  <2>7. k \in Low
    BY <2>1, <2>2, <2>5, <2>6
  <2> QED
    BY <2>7 DEF k
<1>8. 0..n \subseteq Low
  <2> HIDE DEF Low, n
  <2> QED
    BY <1>1, <1>4, <1>7, InductionUpTo
<1>9. \A i \in 0..n : \A j \in 0..i : Bounded(j)
  <2> HIDE DEF Bounded
  <2> QED
    BY <1>8
<1>10. \A i \in 0..n : Bounded(i)
  <2> HIDE DEF Bounded
  <2>1. \A i \in 0..n : i \in 0..i
    BY <1>1
  <2> QED
    BY <1>9, <2>1
<1>11. ASSUME NEW i \in 0..(n - 1), NEW j \in Successors(m, c, i)
       PROVE  H[j] <= Leaves(m, c, H, i) /\ (c # Main => H[j] = Leaves(m, c, H, i))
  <2>1. j \in 0..(n - 1) /\ j > i
    BY DEF Counting
  <2>2. j \in 1..n /\ j \in 0..n /\ i \in 0..(j - 1) /\ \A l \in 0..(j - 1) : l \in 0..n
    BY <1>1, <2>1
  <2>3. i \in Before(m, c, j)
    BY <2>2 DEF Before
  <2> DEFINE L == {Leaves(m, c, H, l) : l \in Before(m, c, j)}
  <2> HIDE DEF Bounded
  <2>4. \A l \in 0..(j - 1) : Bounded(l)
    BY <1>10, <2>2
  <2>5. L \in SUBSET Nat /\ (\A v \in L : h[j] <= v /\ (c # Main => v = h[j]))
    BY <1>5, <2>2, <2>4
  <2>6. Leaves(m, c, H, i) \in L /\ L # {}
    BY <2>3
  <2>7. H[j] = Least(L)
    BY <1>2, <2>2, <2>3 DEF HeightFrom
  <2> HIDE DEF L
  <2>8. Least(L) \in L /\ \A v \in L : Least(L) <= v
    BY <1>6, <2>5, <2>6
  <2> QED
    BY <2>5, <2>6, <2>7, <2>8
<1> QED
  BY <1>3, <1>10, <1>11 DEF H

-----------------------------------------------------------------------------
(* A code that ends is disciplined.                                        *)

\* What Disciplined asks of instruction i, when k counts the operands.
Orderly(m, c, k, i) ==
  /\ \A j \in Successors(m, c, i) : j = i + 1 \/ k[j] = 0
  /\ OpAt(m, c, i) = "Call" => CallsFunction(m, c, i) /\ Takes(m, c, i) >= 1
  /\ OpAt(m, c, i) = "Return" => c # Main /\ k[i] = 1
  /\ OpAt(m, c, i) = "Halt" => c = Main
  /\ OpAt(m, c, i) = "Store" => InstructionAt(m, c, i).arg \in DOMAIN m.symbols
  /\ OpAt(m, c, i) \in {"LoadLocal", "StoreLocal"} =>
       c # Main /\ InstructionAt(m, c, i).arg \in 0..(m.nlocals[c] - 1)
Countable(m, c, k) == Counting(m, c, k) /\ \A i \in 0..(Len(m.code[c]) - 1) : Orderly(m, c, k, i)

(* A module whose codes can all be counted keeps the machine's discipline. *)
LEMMA CountedDisciplined ==
  ASSUME NEW m, Ordinary(m),
         \A c \in CodeIds(m) : Len(m.code[c]) > 0 /\ \E k : Countable(m, c, k)
  PROVE  Disciplined(m)
<1>1. \A f \in FunctionIds(m) : m.nlocals[f] < ByteMod
  BY DEF Ordinary
<1>2. ASSUME NEW c \in CodeIds(m)
      PROVE
       /\ Len(m.code[c]) > 0
       /\ Height(m, c)[0] = 0
       /\ \A i \in 0..(Len(m.code[c]) - 1) :
            /\ Height(m, c)[i] \in Nat
            /\ Height(m, c)[i] >= Takes(m, c, i)
            /\ \A j \in Successors(m, c, i) : Follows(m, c, i, j)
            /\ OpAt(m, c, i) = "Call" => CallsFunction(m, c, i)
            /\ OpAt(m, c, i) = "Return" => c # Main /\ Height(m, c)[i] = 1
            /\ OpAt(m, c, i) = "Halt" => c = Main
            /\ OpAt(m, c, i) = "Store" =>
                 InstructionAt(m, c, i).arg \in DOMAIN m.symbols \ FunctionIds(m)
            /\ OpAt(m, c, i) \in {"LoadLocal", "StoreLocal"} =>
                 c # Main /\ InstructionAt(m, c, i).arg \in 0..(m.nlocals[c] - 1)
  <2>1. PICK k : Countable(m, c, k)
    BY <1>2
  <2> DEFINE H == Height(m, c)
             n == Len(m.code[c])
  <2>2. Counting(m, c, k)
    BY <2>1 DEF Countable
  <2>3. /\ \A i \in 0..n : H[i] \in Nat /\ k[i] <= H[i] /\ (c # Main => H[i] = k[i])
        /\ H[0] = 0
        /\ \A i \in 0..(n - 1) : \A j \in Successors(m, c, i) :
             /\ H[j] <= Leaves(m, c, H, i)
             /\ c # Main => H[j] = Leaves(m, c, H, i)
    BY <2>2, HeightCounts
  <2> HIDE DEF H
  <2>4. n \in Nat /\ n > 0 /\ k \in [0..n -> Nat]
    BY <1>2, <2>2 DEF Counting
  <2>5. ASSUME NEW i \in 0..(n - 1)
        PROVE  /\ H[i] \in Nat
               /\ H[i] >= Takes(m, c, i)
               /\ \A j \in Successors(m, c, i) : Follows(m, c, i, j)
               /\ OpAt(m, c, i) = "Call" => CallsFunction(m, c, i)
               /\ OpAt(m, c, i) = "Return" => c # Main /\ H[i] = 1
               /\ OpAt(m, c, i) = "Halt" => c = Main
               /\ OpAt(m, c, i) = "Store" =>
                    InstructionAt(m, c, i).arg \in DOMAIN m.symbols \ FunctionIds(m)
               /\ OpAt(m, c, i) \in {"LoadLocal", "StoreLocal"} =>
                    c # Main /\ InstructionAt(m, c, i).arg \in 0..(m.nlocals[c] - 1)
    <3>1. Orderly(m, c, k, i)
      BY <2>1 DEF Countable
    <3>2. /\ Takes(m, c, i) \in Nat /\ Takes(m, c, i) <= k[i] /\ k[i] \in Nat
          /\ H[i] \in Nat /\ k[i] <= H[i] /\ (c # Main => H[i] = k[i])
      <4>1. i \in 0..n
        BY <2>4
      <4> QED
        BY <2>2, <2>3, <2>4, <4>1 DEF Counting
    <3>3. ASSUME NEW j \in Successors(m, c, i) PROVE Follows(m, c, i, j)
      <4>1. j \in 0..(n - 1)
        BY <2>2 DEF Counting
      <4>2. H[j] <= Leaves(m, c, H, i) /\ (c # Main => H[j] = Leaves(m, c, H, i))
        BY <2>3
      <4>3. ASSUME OpAt(m, c, j) = "Call" PROVE j = i + 1
        <5>1. Orderly(m, c, k, j) /\ Takes(m, c, j) <= k[j] /\ Takes(m, c, j) \in Nat
          BY <2>1, <2>2, <4>1 DEF Countable, Counting
        <5>2. Takes(m, c, j) >= 1 /\ k[j] \in Nat
          BY <2>4, <4>1, <4>3, <5>1 DEF Orderly
        <5>3. k[j] # 0
          BY <5>1, <5>2
        <5> QED
          BY <3>1, <5>3 DEF Orderly
      <4> QED
        BY <4>1, <4>2, <4>3 DEF Follows, Leaves, H
    <3>4. ASSUME OpAt(m, c, i) = "Store" PROVE InstructionAt(m, c, i).arg \notin FunctionIds(m)
      <4>1. i + 1 \in DOMAIN m.code[c]
        BY <2>4 DEF Counting
      <4> QED
        BY <3>4, <4>1 DEF Ordinary, OpAt, InstructionAt
    <3>5. H[i] >= Takes(m, c, i)
      BY <3>2
    <3> QED
      BY <3>1, <3>2, <3>3, <3>4, <3>5 DEF Orderly
  <2> QED
    BY <2>3, <2>4, <2>5 DEF H
<1> QED
  BY <1>1, <1>2, Zenon DEF Disciplined

-----------------------------------------------------------------------------
(* The code of a piece and an end.                                         *)

\* The module m is made from the tables T.
Represents(m, T) ==
  /\ DOMAIN m.symbols = 0..(Len(T.names) - 1)
  /\ \A f : f \in FunctionIds(m) <=> Known(T, f)
  /\ \A f \in FunctionIds(m) : /\ m.nargs[f] = Arity(T, f)
                               /\ m.nlocals[f] = Len(T.functions[f + 1].locals)
\* Code c of the module is that of the function at this position of the tables.
Position(c) == IF c = Main THEN 0 ELSE c + 1

(* A known function takes a natural number of arguments. *)
LEMMA ArityNatural ==
  ASSUME NEW T, Shaped(T), NEW f, Known(T, f)
  PROVE  Arity(T, f) \in Nat
<1>1. f + 1 \in 1..Len(T.functions)
  BY DEF Known, Shaped
<1>2. T.functions[f + 1] \in UserFunctions
  BY <1>1, ElementOfSeq DEF Shaped, TableSet
<1> QED
  BY <1>2 DEF Arity, UserFunctions

(* What an instruction takes and gives is the same read off the tables and off the module. *)
LEMMA TakesMeans ==
  ASSUME NEW m, NEW T, Shaped(T), Represents(m, T), NEW c, NEW i \in Nat,
         LET F == m.code[c]
         IN  /\ CallsKnown(T, F, i + 1)
             /\ F[i + 1].op \in (BlockOps \ {"Pushs"}) \cup {"Halt"}
  PROVE  LET F == m.code[c]
         IN  /\ Takes(m, c, i) = TakesBy(T, F, i + 1) /\ Takes(m, c, i) \in Nat
             /\ Gives(m, c, i) = Given(F[i + 1].op) /\ Gives(m, c, i) \in Nat
             /\ OpAt(m, c, i) = "Call" => CallsFunction(m, c, i) /\ Takes(m, c, i) >= 1
<1> DEFINE F == m.code[c]
           op == F[i + 1].op
<1>1. OpAt(m, c, i) = op
  BY DEF OpAt, InstructionAt
<1>2. Gives(m, c, i) = Given(op) /\ Given(op) \in Nat
  BY <1>1 DEF Gives, Given, LineOps, BlockOps
<1>3. CASE op = "Call"
  <2>1. (i + 1) - 1 = i /\ i > 0 /\ F[i].op = "Pushi" /\ Known(T, F[i].arg)
    BY <1>3 DEF CallsKnown
  <2>2. Callee(m, c, i) = F[i].arg /\ OpAt(m, c, i - 1) = F[i].op
    BY <2>1 DEF Callee, OpAt, InstructionAt
  <2>3. CallsFunction(m, c, i)
    BY <2>1, <2>2 DEF CallsFunction, Represents
  <2>4. m.nargs[F[i].arg] = Arity(T, F[i].arg) /\ Arity(T, F[i].arg) \in Nat
    BY <2>1, ArityNatural DEF Represents
  <2>5. Takes(m, c, i) = 1 + Arity(T, F[i].arg)
    BY <1>1, <1>3, <2>2, <2>3, <2>4 DEF Takes, BinaryOps, UnaryOps
  <2>6. TakesBy(T, F, i + 1) = 1 + Arity(T, F[i].arg)
    BY <1>3, <2>1 DEF TakesBy
  <2> QED
    BY <1>1, <1>2, <2>3, <2>4, <2>5, <2>6
<1>4. CASE op # "Call"
  <2>1. TakesBy(T, F, i + 1) = Taken(op)
    BY <1>4 DEF TakesBy
  <2>2. Takes(m, c, i) = Taken(op) /\ Taken(op) \in Nat
    BY <1>1, <1>4 DEF Takes, Taken, BinaryOps, UnaryOps
  <2> QED
    BY <1>1, <1>2, <1>4, <2>1, <2>2
<1> QED
  BY <1>3, <1>4

(* Where the machine may continue after an instruction of generated code. *)
LEMMA SuccessorsMeans ==
  ASSUME NEW m, NEW c, NEW i \in Nat,
         m.code[c][i + 1].op \in (BlockOps \ {"Pushs"}) \cup {"Halt"}
  PROVE  LET q == m.code[c][i + 1]
         IN  /\ q.op \in {"Halt", "Pop", "Return"} => Successors(m, c, i) = {}
             /\ q.op = "Jmp" => Successors(m, c, i) = {i + q.arg}
             /\ q.op = "JmpIfFalse" => Successors(m, c, i) = {i + 1, i + q.arg}
             /\ q.op \notin {"Halt", "Pop", "Return"} \cup Jumps => Successors(m, c, i) = {i + 1}
BY DEF Successors, OpAt, InstructionAt, UnsupportedOps, BlockOps, LineOps, Jumps, BinaryOps,
       UnaryOps, ConstOps

\* The instructions of a piece at the start of a code.
LEMMA PieceCounted ==
  ASSUME NEW m, NEW T, Shaped(T), Represents(m, T), NEW c, Position(c) # 0 => c # Main,
         c # Main => c \in FunctionIds(m),
         NEW F \in Codes, m.code[c] \in Codes, Len(F) < Len(m.code[c]),
         \A q \in 1..Len(F) : m.code[c][q] = F[q],
         NEW h \in [0..Len(F) -> Nat], NEW k \in [0..Len(m.code[c]) -> Nat],
         \A q \in 0..Len(F) : k[q] = h[q],
         NEW q \in 1..Len(F), BlockStep(T, Position(c), F, h, q), F[q].op # "Pushs"
  PROVE  LET i == q - 1
         IN  /\ Takes(m, c, i) \in Nat /\ Gives(m, c, i) \in Nat
             /\ Takes(m, c, i) <= k[i]
             /\ i + 1 \notin Successors(m, c, i) => k[i + 1] = 0
             /\ \A j \in Successors(m, c, i) :
                  /\ j \in 0..(Len(m.code[c]) - 1) /\ j > i
                  /\ k[j] <= Leaves(m, c, k, i)
                  /\ c # Main => k[j] = Leaves(m, c, k, i)
             /\ Orderly(m, c, k, i)
<1> DEFINE i == q - 1
           G == m.code[c]
           d == Position(c)
<1>1. Len(F) \in Nat /\ Len(G) \in Nat /\ i \in Nat /\ i + 1 = q /\ i \in 0..Len(F) /\ q \in 0..Len(F)
  BY LenProperties DEF Codes
<1>2. Counted(T, d, F, h, q) /\ Lands(T, F, h, q)
  BY DEF BlockStep
<1>3. F[q] \in Instruction /\ G[q] = F[q]
  BY ElementOfSeq DEF Codes
<1>4. F[q].op = "Call" => q > 1 /\ F[q - 1] = G[q - 1]
  <2>1. F[q].op = "Call" => q > 1
    BY <1>2 DEF Counted, Sensible, CallsKnown
  <2>2. q > 1 => q - 1 \in 1..Len(F)
    BY <1>1
  <2> QED
    BY <2>1, <2>2
<1>5. TakesBy(T, G, q) = TakesBy(T, F, q) /\ Sensible(T, d, G, q)
  <2>1. Sensible(T, d, F, q)
    BY <1>2 DEF Counted
  <2>2. F[q] = G[q] /\ (F[q].op = "Call" => q > 1 /\ q > 1 /\ F[q - 1] = G[q - 1])
    BY <1>3, <1>4
  <2> HIDE DEF G, d, i
  <2>3. /\ TakesBy(T, F, q) = TakesBy(T, G, q)
        /\ Sensible(T, d, F, q) <=> Sensible(T, d, G, q)
    BY ONLY <2>2, SameStep
  <2> QED
    BY <2>1, <2>3
<1>6. G[i + 1].op \in (BlockOps \ {"Pushs"}) \cup {"Halt"} /\ CallsKnown(T, G, i + 1)
  BY <1>1, <1>2, <1>3, <1>5 DEF Counted, Sensible
<1>7. /\ Takes(m, c, i) = TakesBy(T, F, q) /\ Takes(m, c, i) \in Nat
      /\ Gives(m, c, i) = Given(F[q].op) /\ Gives(m, c, i) \in Nat
      /\ OpAt(m, c, i) = "Call" => CallsFunction(m, c, i) /\ Takes(m, c, i) >= 1
  <2> HIDE DEF i
  <2>1. /\ Takes(m, c, i) = TakesBy(T, G, i + 1) /\ Takes(m, c, i) \in Nat
        /\ Gives(m, c, i) = Given(G[i + 1].op) /\ Gives(m, c, i) \in Nat
        /\ OpAt(m, c, i) = "Call" => CallsFunction(m, c, i) /\ Takes(m, c, i) >= 1
    BY <1>1, <1>6, TakesMeans
  <2> QED
    BY <2>1, <1>1, <1>3, <1>5
<1>8. k[i] = h[i] /\ k[q] = h[q] /\ h[i] \in Nat /\ h[q] \in Nat
  BY <1>1
<1>9. Leaves(m, c, k, i) = Left(T, F, h, q)
  BY <1>7, <1>8 DEF Leaves, Left
<1>10. F[q].op \notin Barriers => h[q] <= Left(T, F, h, q) /\ (c # Main => h[q] = Left(T, F, h, q))
  <2>1. c # Main => d # 0
    <3>1. c # Main => c \in 0..(Len(T.names) - 1)
      BY DEF Represents, Known
    <3> QED
      BY <3>1 DEF Position
  <2> QED
    BY <1>2, <2>1 DEF Counted
<1>11. F[q].op \in Jumps => /\ i + F[q].arg \in 0..Len(F) /\ i + F[q].arg > i
                            /\ k[i + F[q].arg] = 0 /\ Left(T, F, h, q) = 0
  <2>1. SUFFICES ASSUME F[q].op \in Jumps
                 PROVE  /\ i + F[q].arg \in 0..Len(F) /\ i + F[q].arg > i
                        /\ k[i + F[q].arg] = 0 /\ Left(T, F, h, q) = 0
    OBVIOUS
  <2>2. /\ F[q].arg > 0 /\ i + F[q].arg <= Len(F) /\ F[q].arg \in Int
        /\ h[i + F[q].arg] = 0 /\ Left(T, F, h, q) = 0
    BY <1>2, <1>3, <2>1 DEF Lands, Instruction
  <2>3. i + F[q].arg \in 0..Len(F) /\ i + F[q].arg > i
    BY <1>1, <2>2
  <2> QED
    BY <2>2, <2>3
<1>12. LET r == G[i + 1]
       IN  /\ r.op \in {"Halt", "Pop", "Return"} => Successors(m, c, i) = {}
           /\ r.op = "Jmp" => Successors(m, c, i) = {i + r.arg}
           /\ r.op = "JmpIfFalse" => Successors(m, c, i) = {i + 1, i + r.arg}
           /\ r.op \notin {"Halt", "Pop", "Return"} \cup Jumps => Successors(m, c, i) = {i + 1}
  BY <1>1, <1>6, SuccessorsMeans
<1>13. F[q].op # "Halt"
  BY <1>2 DEF Counted, BlockOps, LineOps, BinaryOps, UnaryOps, ConstOps
<1>14. /\ F[q].op \in {"Pop", "Return"} => Successors(m, c, i) = {}
       /\ F[q].op = "Jmp" => Successors(m, c, i) = {i + F[q].arg}
       /\ F[q].op = "JmpIfFalse" => Successors(m, c, i) = {q, i + F[q].arg}
       /\ F[q].op \notin {"Pop", "Return"} \cup Jumps => Successors(m, c, i) = {q}
  BY <1>1, <1>3, <1>12, <1>13
<1>15. i + 1 \notin Successors(m, c, i) => k[i + 1] = 0
  <2>1. F[q].op \notin Barriers => q \in Successors(m, c, i)
    BY <1>14 DEF Barriers, Jumps
  <2>2. F[q].op \in Barriers => h[q] = 0
    BY <1>2 DEF Counted
  <2> QED
    BY <1>1, <1>8, <2>1, <2>2
<1>16. ASSUME NEW j \in Successors(m, c, i)
       PROVE  /\ j \in 0..(Len(G) - 1) /\ j > i
              /\ k[j] <= Leaves(m, c, k, i)
              /\ c # Main => k[j] = Leaves(m, c, k, i)
              /\ j = i + 1 \/ k[j] = 0
  <2>1. \/ j = q /\ F[q].op \notin Barriers
        \/ F[q].op \in Jumps /\ j = i + F[q].arg
    BY <1>14 DEF Barriers, Jumps
  <2>2. CASE j = q /\ F[q].op \notin Barriers
    <3>1. j \in 0..(Len(G) - 1) /\ j > i /\ j = i + 1
      BY <2>2, <1>1
    <3> QED
      BY <2>2, <3>1, <1>8, <1>9, <1>10
  <2>3. CASE F[q].op \in Jumps /\ j = i + F[q].arg
    <3>1. j \in 0..Len(F) /\ j > i /\ k[j] = 0 /\ Left(T, F, h, q) = 0
      BY <2>3, <1>11
    <3>2. j \in 0..(Len(G) - 1)
      BY <1>1, <3>1
    <3> QED
      BY <3>1, <3>2, <1>9
  <2> QED
    BY <2>1, <2>2, <2>3
<1>17. Orderly(m, c, k, i)
  <2>1. OpAt(m, c, i) = F[q].op /\ InstructionAt(m, c, i) = F[q]
    BY <1>1, <1>3 DEF OpAt, InstructionAt
  <2>2. \A j \in Successors(m, c, i) : j = i + 1 \/ k[j] = 0
    BY <1>16
  <2>3. F[q].op = "Return" => c # Main /\ k[i] = 1
    BY <1>2, <1>8 DEF Counted, Position
  <2>4. F[q].op = "Store" => F[q].arg \in DOMAIN m.symbols
    BY <1>2 DEF Counted, Sensible, Resolved, Represents
  <2>5. F[q].op \in {"LoadLocal", "StoreLocal"} => c # Main /\ F[q].arg \in 0..(m.nlocals[c] - 1)
    <3>1. SUFFICES ASSUME F[q].op \in {"LoadLocal", "StoreLocal"}
                   PROVE  c # Main /\ F[q].arg \in 0..(m.nlocals[c] - 1)
      OBVIOUS
    <3>2. d # 0 /\ F[q].arg \in 0..(Len(T.functions[d].locals) - 1)
      BY <1>2, <3>1 DEF Counted, Sensible, Resolved
    <3>3. c # Main /\ d = c + 1
      BY <3>2 DEF Position
    <3>4. m.nlocals[c] = Len(T.functions[c + 1].locals)
      BY <3>3 DEF Represents
    <3> QED
      BY <3>2, <3>3, <3>4
  <2> QED
    BY <1>7, <1>13, <2>1, <2>2, <2>3, <2>4, <2>5 DEF Orderly
<1> QED
  BY <1>1, <1>2, <1>7, <1>8, <1>15, <1>16, <1>17 DEF Counted

\* The top level ends with a halt.
LEMMA TopLevelCounted ==
  ASSUME NEW m, NEW T, Shaped(T), Represents(m, T), Ordinary(m),
         NEW F \in Codes, Block(T, 0, F),
         m.code[Main] = Append(F, Instr("Halt", NoArg))
  PROVE  Len(m.code[Main]) > 0 /\ \E k : Countable(m, Main, k)
<1> DEFINE G == m.code[Main]
           n == Len(F)
<1>1. PICK h \in [0..n -> Nat] : h[0] = 0 /\ h[n] = 0 /\ \A q \in 1..n : BlockStep(T, 0, F, h, q)
  BY DEF Block
<1>2. Instr("Halt", NoArg) \in Instruction
  BY DEF Instr, Instruction, OpCodes, NoArg
<1>3. /\ G \in Codes /\ Len(G) = n + 1 /\ n \in Nat
      /\ G[n + 1] = Instr("Halt", NoArg)
      /\ \A q \in 1..n : G[q] = F[q]
  BY <1>2, AppendProperties, LenProperties DEF Codes
<1> DEFINE k == [j \in 0..(n + 1) |-> IF j <= n THEN h[j] ELSE 0]
<1>4. k \in [0..Len(G) -> Nat] /\ k[0] = 0 /\ k[n + 1] = 0 /\ \A q \in 0..n : k[q] = h[q]
  BY <1>1, <1>3
<1> HIDE DEF k
<1>5. ASSUME NEW q \in 1..n PROVE F[q].op # "Pushs"
  <2>1. q \in DOMAIN G /\ Main \in CodeIds(m)
    BY <1>3, LenProperties DEF Codes, CodeIds
  <2> QED
    BY <1>3, <2>1 DEF Ordinary
<1>6. ASSUME NEW i \in 0..n
      PROVE  /\ Takes(m, Main, i) \in Nat /\ Gives(m, Main, i) \in Nat
             /\ Takes(m, Main, i) <= k[i]
             /\ i + 1 \notin Successors(m, Main, i) => k[i + 1] = 0
             /\ \A j \in Successors(m, Main, i) :
                  /\ j \in 0..(Len(G) - 1) /\ j > i
                  /\ k[j] <= Leaves(m, Main, k, i)
                  /\ Main # Main => k[j] = Leaves(m, Main, k, i)
             /\ Orderly(m, Main, k, i)
  <2>1. CASE i < n
    <3>1. i + 1 \in 1..n /\ (i + 1) - 1 = i
      BY <1>3, <2>1
    <3>2. PICK q \in 1..n : q = i + 1 /\ q - 1 = i
      BY <3>1
    <3>3. Position(Main) = 0 /\ Len(F) < Len(G)
      BY <1>3 DEF Position
    <3>4. BlockStep(T, Position(Main), F, h, q) /\ F[q].op # "Pushs"
      BY <1>1, <1>5, <3>3
    <3> QED
      BY <1>3, <1>4, <3>2, <3>3, <3>4, PieceCounted
  <2>2. CASE i = n
    <3>1. OpAt(m, Main, i) = "Halt"
      BY <1>3, <2>2 DEF OpAt, InstructionAt, Instr
    <3>2. Takes(m, Main, i) = 0 /\ Gives(m, Main, i) = 0 /\ Successors(m, Main, i) = {}
      BY <3>1 DEF Takes, Gives, Successors, BinaryOps, UnaryOps, ConstOps
    <3>3. Orderly(m, Main, k, i)
      BY <3>1, <3>2 DEF Orderly
    <3>4. k[i] \in Nat /\ k[i + 1] = 0
      BY <1>3, <1>4, <2>2
    <3> QED
      BY <3>2, <3>3, <3>4
  <2> QED
    BY <2>1, <2>2, <1>3
<1>7. Len(G) - 1 = n
  BY <1>3
<1>8. Counting(m, Main, k)
  BY <1>3, <1>4, <1>6, <1>7 DEF Counting
<1>9. Countable(m, Main, k)
  BY <1>6, <1>7, <1>8 DEF Countable
<1> QED
  BY <1>3, <1>9

\* A function ends with the return that is put there for it.
Ending == <<Instr("PushNone", NoArg), Instr("Return", NoArg)>>

(* A function body ends with PushNone and Return (endOfBody). *)
LEMMA EndingInstructions ==
  /\ Ending \in Codes /\ Len(Ending) = 2
  /\ Ending[1] = Instr("PushNone", NoArg) /\ Ending[2] = Instr("Return", NoArg)
BY DEF Ending, Codes, Instr, Instruction, OpCodes, NoArg

(* A function's code, a block and its ending, can be counted. *)
LEMMA FunctionCounted ==
  ASSUME NEW m, NEW T, Shaped(T), Represents(m, T), Ordinary(m),
         NEW c \in FunctionIds(m), NEW F \in Codes, Block(T, c + 1, F),
         m.code[c] = F \o Ending
  PROVE  Len(m.code[c]) > 0 /\ \E k : Countable(m, c, k)
<1> DEFINE G == m.code[c]
           n == Len(F)
<1>1. PICK h \in [0..n -> Nat] : h[0] = 0 /\ h[n] = 0 /\ \A q \in 1..n : BlockStep(T, c + 1, F, h, q)
  BY DEF Block
<1>2. c # Main /\ Position(c) = c + 1 /\ c \in Nat /\ Position(c) # 0
  BY DEF Represents, Known, Main, Position
<1>3. /\ G \in Codes /\ Len(G) = n + 2 /\ n \in Nat
      /\ G[n + 1] = Instr("PushNone", NoArg) /\ G[n + 2] = Instr("Return", NoArg)
      /\ \A q \in 1..n : G[q] = F[q]
  <2>1. 1 \in 1..Len(Ending) /\ 2 \in 1..Len(Ending)
    BY EndingInstructions
  <2>2. G = F \o Ending
    OBVIOUS
  <2> HIDE DEF G
  <2>3. /\ F \o Ending \in Codes /\ Len(F \o Ending) = n + Len(Ending) /\ n \in Nat
        /\ \A q \in 1..n : (F \o Ending)[q] = F[q]
        /\ \A r \in 1..Len(Ending) : (F \o Ending)[n + r] = Ending[r]
    BY EndingInstructions, Joined
  <2>4. G[n + 1] = Ending[1] /\ G[n + 2] = Ending[2]
    BY <2>1, <2>2, <2>3
  <2> QED
    BY <2>2, <2>3, <2>4, EndingInstructions
<1> DEFINE k == [j \in 0..(n + 2) |-> IF j <= n THEN h[j] ELSE IF j = n + 1 THEN 1 ELSE 0]
<1>4. /\ k \in [0..Len(G) -> Nat] /\ k[0] = 0 /\ k[n] = 0 /\ k[n + 1] = 1 /\ k[n + 2] = 0
      /\ \A q \in 0..n : k[q] = h[q]
  BY <1>1, <1>3
<1> HIDE DEF k
<1>5. ASSUME NEW q \in 1..n PROVE F[q].op # "Pushs"
  <2>1. q \in DOMAIN G /\ c \in CodeIds(m)
    BY <1>3, LenProperties DEF Codes, CodeIds
  <2> QED
    BY <1>3, <2>1 DEF Ordinary
<1>6. ASSUME NEW i \in 0..(n + 1)
      PROVE  /\ Takes(m, c, i) \in Nat /\ Gives(m, c, i) \in Nat
             /\ Takes(m, c, i) <= k[i]
             /\ i + 1 \notin Successors(m, c, i) => k[i + 1] = 0
             /\ \A j \in Successors(m, c, i) :
                  /\ j \in 0..(Len(G) - 1) /\ j > i
                  /\ k[j] <= Leaves(m, c, k, i)
                  /\ c # Main => k[j] = Leaves(m, c, k, i)
             /\ Orderly(m, c, k, i)
  <2>1. CASE i < n
    <3>1. i + 1 \in 1..n /\ (i + 1) - 1 = i
      BY <1>3, <2>1
    <3>2. PICK q \in 1..n : q = i + 1 /\ q - 1 = i
      BY <3>1
    <3>3. Len(F) < Len(G)
      BY <1>3
    <3>4. BlockStep(T, Position(c), F, h, q) /\ F[q].op # "Pushs"
      BY <1>1, <1>2, <1>5
    <3>5. /\ Takes(m, c, q - 1) \in Nat /\ Gives(m, c, q - 1) \in Nat
          /\ Takes(m, c, q - 1) <= k[q - 1]
          /\ q - 1 + 1 \notin Successors(m, c, q - 1) => k[q - 1 + 1] = 0
          /\ \A j \in Successors(m, c, q - 1) :
               /\ j \in 0..(Len(G) - 1) /\ j > q - 1
               /\ k[j] <= Leaves(m, c, k, q - 1)
               /\ c # Main => k[j] = Leaves(m, c, k, q - 1)
          /\ Orderly(m, c, k, q - 1)
      <4>1. G \in Codes /\ (\A r \in 1..n : G[r] = F[r])
        BY <1>3
      <4>2. k \in [0..Len(G) -> Nat] /\ (\A r \in 0..n : k[r] = h[r])
        BY <1>4
      <4>3. c # Main /\ h \in [0..Len(F) -> Nat] /\ q \in 1..Len(F)
        BY <1>1, <1>2
      <4> QED
        BY <3>3, <3>4, <4>1, <4>2, <4>3, PieceCounted, Zenon
    <3> QED
      BY <3>2, <3>5
  <2>2. CASE i = n
    <3>1. OpAt(m, c, i) = "PushNone"
      BY <1>3, <2>2 DEF OpAt, InstructionAt, Instr
    <3>2. Takes(m, c, i) = 0 /\ Gives(m, c, i) = 1 /\ Successors(m, c, i) = {i + 1}
      BY <3>1 DEF Takes, Gives, Successors, BinaryOps, UnaryOps, ConstOps, UnsupportedOps
    <3>3. Orderly(m, c, k, i)
      BY <3>1, <3>2 DEF Orderly
    <3>4. k[i] = 0 /\ k[i + 1] = 1 /\ i + 1 \in 0..(Len(G) - 1) /\ i + 1 > i
      BY <1>3, <1>4, <2>2
    <3>5. Leaves(m, c, k, i) = 1
      BY <3>2, <3>4 DEF Leaves
    <3> QED
      BY <3>2, <3>3, <3>4, <3>5
  <2>3. CASE i = n + 1
    <3>1. OpAt(m, c, i) = "Return"
      <4>1. i + 1 = n + 2
        BY <1>3, <2>3
      <4> QED
        BY <1>3, <4>1 DEF OpAt, InstructionAt, Instr
    <3>2. Takes(m, c, i) = 1 /\ Gives(m, c, i) = 0 /\ Successors(m, c, i) = {}
      BY <3>1 DEF Takes, Gives, Successors, BinaryOps, UnaryOps, ConstOps
    <3>3. k[i] = 1 /\ k[i + 1] = 0
      <4>1. i + 1 = n + 2
        BY <1>3, <2>3
      <4> QED
        BY <1>4, <2>3, <4>1
    <3>4. Orderly(m, c, k, i)
      BY <1>2, <3>1, <3>2, <3>3 DEF Orderly
    <3> QED
      BY <3>2, <3>3, <3>4
  <2> QED
    BY <2>1, <2>2, <2>3, <1>3
<1>7. Len(G) - 1 = n + 1
  BY <1>3
<1>8. Counting(m, c, k)
  BY <1>3, <1>4, <1>6, <1>7 DEF Counting
<1>9. Countable(m, c, k)
  BY <1>6, <1>7, <1>8 DEF Countable
<1> QED
  BY <1>3, <1>9

-----------------------------------------------------------------------------
(* The states of the builder between two calls.                            *)

Tables(s) == [names |-> s.names, isFunction |-> s.isFunction, functions |-> s.functions,
              constants |-> s.constants]
\* The code that is being generated, as the tables know it.
Home(s) == IF s.inFunction THEN s.current ELSE 0

\* A function has its body and its return, or lost its return to another.
Finished(T, f) ==
  \E F \in Codes : T.functions[f].code = F \o Ending /\ Block(T, f, F)
Coded(T, f) ==
  Regular(T, T.functions[f].code) /\ (Open(T.functions[f].code) \/ Finished(T, f))
AllCoded(T) == \A f \in 1..Len(T.names) : T.isFunction[f] => Coded(T, f)

\* The function that is read, or the one that was defined last.
Placed(T, current, inFunction) ==
  /\ current \in 0..Len(T.names)
  /\ inFunction => current # 0 /\ T.isFunction[current]
  /\ ~inFunction /\ current # 0 => Finished(T, current)
Sound(s) ==
  /\ Shaped(Tables(s)) /\ AllCoded(Tables(s))
  /\ Placed(Tables(s), s.current, s.inFunction)
Builders(tokens) == {s \in States(tokens) : s.failed \/ Sound(s)}

\* Steps that change neither the tables nor the place in them.
Beside(s, r) == Tables(r) = Tables(s) /\ r.current = s.current /\ r.inFunction = s.inFunction

(* The parts of a builder's state are of their types. *)
LEMMA StateTables ==
  ASSUME NEW tokens, NEW s \in States(tokens)
  PROVE  Tables(s) \in TableSet /\ s.out \in Codes /\ s.current \in Nat
         /\ s.failed \in BOOLEAN /\ s.inFunction \in BOOLEAN /\ s.pos \in Nat
         /\ s.tokens = tokens
BY DEF Tables, TableSet, States, Codes

(* A state that differs from a sound builder only beside the tables is a sound builder. *)
LEMMA BesideBuilder ==
  ASSUME NEW tokens, NEW s \in Builders(tokens), NEW r \in States(tokens), Beside(s, r),
         s.failed => r.failed
  PROVE  r \in Builders(tokens)
BY DEF Builders, Sound, Beside

(* Taking a token changes the position only. *)
LEMMA AdvancedState ==
  ASSUME NEW tokens, NEW s \in Builders(tokens)
  PROVE  /\ Advanced(s) \in Builders(tokens) /\ Beside(s, Advanced(s))
         /\ Advanced(s).out = s.out /\ Advanced(s).failed = s.failed
<1>1. Advanced(s) \in States(tokens)
  <2>1. s \in States(tokens)
    BY DEF Builders
  <2>2. s.pos + 1 \in Nat \ {0}
    BY <2>1 DEF States
  <2> QED
    BY <2>1, <2>2 DEF States, Advanced
<1>2. Beside(s, Advanced(s)) /\ Advanced(s).out = s.out /\ Advanced(s).failed = s.failed
  BY DEF Builders, States, Advanced, Beside, Tables
<1> QED
  BY <1>1, <1>2, BesideBuilder

(* A failed builder promises nothing and stays failed. *)
LEMMA FailState ==
  ASSUME NEW tokens, NEW s \in States(tokens)
  PROVE  Fail(s) \in Builders(tokens) /\ Fail(s).failed
BY DEF Builders, States, Fail

(* Replacing the code under construction leaves the tables alone. *)
LEMMA WrittenState ==
  ASSUME NEW tokens, NEW s \in Builders(tokens), NEW F \in Codes
  PROVE  LET r == [s EXCEPT !.out = F]
         IN  /\ r \in Builders(tokens) /\ Beside(s, r)
             /\ r.out = F /\ r.failed = s.failed
<1> DEFINE r == [s EXCEPT !.out = F]
<1>1. r \in States(tokens)
  BY DEF Builders, States, Codes
<1>2. Beside(s, r) /\ r.out = F /\ r.failed = s.failed
  BY DEF Builders, States, Beside, Tables
<1> HIDE DEF r
<1>3. r \in Builders(tokens)
  BY <1>1, <1>2, BesideBuilder
<1> QED
  BY <1>2, <1>3 DEF r

(* Expecting a token fails or changes the position only. *)
LEMMA ExpectState ==
  ASSUME NEW tokens, NEW s \in Builders(tokens), NEW c
  PROVE  /\ Expect(s, c) \in Builders(tokens)
         /\ s.failed => Expect(s, c).failed
         /\ ~Expect(s, c).failed => Beside(s, Expect(s, c)) /\ Expect(s, c).out = s.out
<1>1. s \in States(tokens)
  BY DEF Builders
<1> QED
  BY <1>1, AdvancedState, FailState DEF Expect

(* Emitting appends one instruction to the code under construction. *)
LEMMA EmitState ==
  ASSUME NEW tokens, NEW s \in Builders(tokens), NEW op, NEW arg, Instr(op, arg) \in Instruction
  PROVE  LET r == Emit(s, op, arg)
         IN  /\ r \in Builders(tokens) /\ Beside(s, r)
             /\ r.out = s.out \o <<Instr(op, arg)>> /\ r.failed = s.failed
<1> DEFINE i == Instr(op, arg)
<1>1. s \in States(tokens) /\ s.out \in Codes
  BY StateTables DEF Builders
<1>2. Append(s.out, i) = s.out \o <<i>> /\ Append(s.out, i) \in Codes
  BY <1>1 DEF Codes
<1> QED
  BY <1>2, WrittenState DEF Emit

-----------------------------------------------------------------------------
(* Growing tables.                                                         *)

(* The tables of a module run in parallel, and their entries are of their types. *)
LEMMA TablesLengths ==
  ASSUME NEW T, Shaped(T)
  PROVE  /\ Len(T.names) \in Nat /\ Len(T.functions) = Len(T.names)
         /\ Len(T.isFunction) = Len(T.names) /\ Len(T.constants) \in Nat
         /\ \A f \in 1..Len(T.names) :
              /\ T.isFunction[f] \in BOOLEAN
              /\ T.functions[f] \in UserFunctions
              /\ T.functions[f].code \in Codes /\ T.functions[f].nargs \in Nat
              /\ Len(T.functions[f].locals) \in Nat
<1>1. /\ Len(T.names) \in Nat /\ Len(T.functions) = Len(T.names)
      /\ Len(T.isFunction) = Len(T.names) /\ Len(T.constants) \in Nat
  BY LenProperties DEF Shaped, TableSet
<1>2. ASSUME NEW f \in 1..Len(T.names)
      PROVE /\ T.isFunction[f] \in BOOLEAN
            /\ T.functions[f] \in UserFunctions
            /\ T.functions[f].code \in Codes /\ T.functions[f].nargs \in Nat
            /\ Len(T.functions[f].locals) \in Nat
  <2>1. T.isFunction[f] \in BOOLEAN /\ T.functions[f] \in UserFunctions
    BY <1>1, ElementOfSeq DEF Shaped, TableSet
  <2>2. T.functions[f].locals \in Seq(STRING)
    BY <2>1 DEF UserFunctions
  <2> QED
    BY <2>1, <2>2, LenProperties DEF UserFunctions, Codes
<1> QED
  BY <1>1, <1>2

(* Tables extend themselves. *)
LEMMA ExtendsSelf ==
  ASSUME NEW T, Shaped(T)
  PROVE  Extends(T, T)
BY TablesLengths DEF Extends, Keeps

(* At most is transitive on the naturals. *)
LEMMA AtMostThen ==
  ASSUME NEW a \in Nat, NEW b \in Nat, NEW d \in Nat, a <= b, b <= d
  PROVE  a <= d
OBVIOUS

(* To grow and to grow again is to grow. *)
LEMMA ExtendsThen ==
  ASSUME NEW T, NEW U, NEW V, Shaped(T), Shaped(U), Shaped(V), Extends(T, U), Extends(U, V)
  PROVE  Extends(T, V)
<1>1. /\ Len(T.names) \in Nat /\ Len(U.names) \in Nat /\ Len(V.names) \in Nat
      /\ Len(T.constants) \in Nat /\ Len(U.constants) \in Nat /\ Len(V.constants) \in Nat
  BY TablesLengths
<1>2. /\ Len(T.names) <= Len(U.names) /\ Len(U.names) <= Len(V.names)
      /\ Len(T.constants) <= Len(U.constants) /\ Len(U.constants) <= Len(V.constants)
  BY DEF Extends, Keeps
<1>3. ASSUME NEW f \in 1..Len(T.names)
      PROVE  /\ V.isFunction[f] = T.isFunction[f]
             /\ V.functions[f].nargs = T.functions[f].nargs
             /\ Len(T.functions[f].locals) <= Len(V.functions[f].locals)
  <2>1. f \in 1..Len(U.names) /\ f \in 1..Len(V.names)
    BY <1>1, <1>2
  <2>2. /\ U.isFunction[f] = T.isFunction[f] /\ V.isFunction[f] = U.isFunction[f]
        /\ U.functions[f].nargs = T.functions[f].nargs
        /\ V.functions[f].nargs = U.functions[f].nargs
        /\ Len(T.functions[f].locals) <= Len(U.functions[f].locals)
        /\ Len(U.functions[f].locals) <= Len(V.functions[f].locals)
    BY <2>1 DEF Extends, Keeps
  <2>3. /\ Len(T.functions[f].locals) \in Nat /\ Len(U.functions[f].locals) \in Nat
        /\ Len(V.functions[f].locals) \in Nat
    BY <2>1, TablesLengths
  <2>4. Len(T.functions[f].locals) <= Len(V.functions[f].locals)
    BY <2>2, <2>3, AtMostThen
  <2> QED
    BY <2>2, <2>4, Zenon
<1> QED
  BY <1>1, <1>2, <1>3 DEF Extends, Keeps

\* The code of each function stays, and a new function has none yet.
KeepsCode(T, U) ==
  /\ \A f \in 1..Len(T.names) : U.functions[f].code = T.functions[f].code
  /\ \A f \in (Len(T.names) + 1)..Len(U.names) : U.functions[f].code = <<>>

(* A finished function stays finished when the tables grow and leave its code alone. *)
LEMMA FinishedKept ==
  ASSUME NEW T, NEW U, Shaped(T), Shaped(U), Extends(T, U), NEW f \in 1..Len(T.names),
         U.functions[f].code = T.functions[f].code, Finished(T, f)
  PROVE  Finished(U, f)
<1>1. PICK F \in Codes : T.functions[f].code = F \o Ending /\ Block(T, f, F)
  BY DEF Finished
<1>2. f \in 0..Len(T.names)
  BY TablesLengths
<1>3. Block(U, f, F)
  BY <1>1, <1>2, BlockKept
<1> QED
  BY <1>1, <1>3 DEF Finished

(* If all codes are sound they are so in grown tables that leave the codes alone. *)
LEMMA CodesKept ==
  ASSUME NEW T, NEW U, Shaped(T), Shaped(U), Extends(T, U), KeepsCode(T, U), AllCoded(T)
  PROVE  AllCoded(U)
<1> SUFFICES ASSUME NEW f \in 1..Len(U.names), U.isFunction[f] PROVE Coded(U, f)
  BY DEF AllCoded
<1>1. Len(T.names) \in Nat /\ Len(U.names) \in Nat
  BY TablesLengths
<1>2. CASE f \in 1..Len(T.names)
  <2>1. T.isFunction[f] /\ U.functions[f].code = T.functions[f].code
    BY <1>2 DEF Extends, Keeps, KeepsCode
  <2>2. Coded(T, f) /\ T.functions[f].code \in Codes
    BY <1>2, <2>1, TablesLengths DEF AllCoded
  <2>3. Regular(U, U.functions[f].code)
    BY <2>1, <2>2, RegularKept DEF Coded
  <2> QED
    BY <1>2, <2>1, <2>2, <2>3, FinishedKept DEF Coded
<1>3. CASE f \in (Len(T.names) + 1)..Len(U.names)
  <2>1. U.functions[f].code = <<>> /\ Len(<<>>) = 0
    BY <1>3 DEF KeepsCode
  <2>2. \A q \in 1..0 : FALSE
    OBVIOUS
  <2> QED
    BY <2>1, <2>2, Zenon DEF Coded, Regular, Open
<1> QED
  BY <1>1, <1>2, <1>3

(* The function being built stays in place when the tables grow. *)
LEMMA PlacedKept ==
  ASSUME NEW T, NEW U, Shaped(T), Shaped(U), Extends(T, U), KeepsCode(T, U),
         NEW current, NEW inFunction, Placed(T, current, inFunction)
  PROVE  Placed(U, current, inFunction)
<1>1. /\ Len(T.names) \in Nat /\ Len(U.names) \in Nat /\ Len(T.names) <= Len(U.names)
      /\ current \in 0..Len(T.names)
  BY TablesLengths DEF Extends, Keeps, Placed
<1>2. CASE current = 0
  BY <1>1, <1>2 DEF Placed
<1>3. CASE current # 0
  <2>1. current \in 1..Len(T.names)
    BY <1>1, <1>3
  <2>2. /\ U.isFunction[current] = T.isFunction[current]
        /\ U.functions[current].code = T.functions[current].code
    BY <2>1 DEF Extends, Keeps, KeepsCode
  <2>3. Finished(T, current) => Finished(U, current)
    BY <2>1, <2>2, FinishedKept
  <2> QED
    BY <1>1, <1>3, <2>2, <2>3 DEF Placed
<1> QED
  BY <1>2, <1>3

-----------------------------------------------------------------------------
(* What the procedures for expressions do.                                 *)

\* From a operands, the code that is written from s to r makes b.
Evaluates(tokens, s, r, a, b) ==
  /\ r \in Builders(tokens)
  /\ s.failed => r.failed
  /\ ~r.failed =>
       /\ Extends(Tables(s), Tables(r))
       /\ r.current = s.current /\ r.inFunction = s.inFunction
       /\ \E F \in Codes : r.out = s.out \o F /\ Line(Tables(r), Home(s), F, a, b)

(* Concatenation is associative. *)
LEMMA Regroup ==
  ASSUME NEW F \in Codes, NEW G \in Codes, NEW H \in Codes
  PROVE  (F \o G) \o H = F \o (G \o H)
BY ConcatAssociative DEF Codes

(* What a sound builder that has not failed promises. *)
LEMMA BuilderSound ==
  ASSUME NEW tokens, NEW s \in Builders(tokens), ~s.failed
  PROVE  /\ Shaped(Tables(s)) /\ AllCoded(Tables(s))
         /\ Placed(Tables(s), s.current, s.inFunction)
         /\ Home(s) \in 0..Len(Tables(s).names)
         /\ Home(s) # 0 <=> s.inFunction
<1>1. Sound(s) /\ s.inFunction \in BOOLEAN
  BY StateTables DEF Builders
<1>2. Len(Tables(s).names) \in Nat
  BY <1>1, TablesLengths DEF Sound
<1> QED
  BY <1>1, <1>2 DEF Sound, Placed, Home

(* A step that writes no code evaluates nothing: the height stays. *)
LEMMA BesideEvaluates ==
  ASSUME NEW tokens, NEW s \in Builders(tokens), NEW r \in Builders(tokens),
         s.failed => r.failed, ~r.failed => Beside(s, r) /\ r.out = s.out, NEW a \in Nat
  PROVE  Evaluates(tokens, s, r, a, a)
<1> SUFFICES ASSUME ~r.failed
             PROVE  /\ Extends(Tables(s), Tables(r))
                    /\ r.current = s.current /\ r.inFunction = s.inFunction
                    /\ \E F \in Codes : r.out = s.out \o F /\ Line(Tables(r), Home(s), F, a, a)
  BY DEF Evaluates
<1>1. s.out \in Codes
  BY StateTables DEF Builders
<1>2. <<>> \in Codes /\ s.out \o <<>> = s.out
  BY <1>1 DEF Codes
<1>3. Extends(Tables(s), Tables(r))
  BY BuilderSound, ExtendsSelf DEF Beside
<1> QED
  BY <1>2, <1>3, LineEmpty DEF Beside

(* Two evaluations in turn: the heights join. *)
LEMMA EvaluatesThen ==
  ASSUME NEW tokens, NEW s \in Builders(tokens), NEW m, NEW r, NEW a, NEW b, NEW d,
         Evaluates(tokens, s, m, a, b), Evaluates(tokens, m, r, b, d)
  PROVE  Evaluates(tokens, s, r, a, d)
<1>1. r \in Builders(tokens) /\ m \in Builders(tokens) /\ (s.failed => r.failed)
  BY DEF Evaluates
<1> SUFFICES ASSUME ~r.failed
             PROVE  /\ Extends(Tables(s), Tables(r))
                    /\ r.current = s.current /\ r.inFunction = s.inFunction
                    /\ \E F \in Codes : r.out = s.out \o F /\ Line(Tables(r), Home(s), F, a, d)
  BY <1>1 DEF Evaluates
<1>2. ~m.failed /\ ~s.failed
  BY DEF Evaluates
<1>3. /\ Shaped(Tables(s)) /\ Shaped(Tables(m)) /\ Shaped(Tables(r))
      /\ Home(s) \in 0..Len(Tables(s).names) /\ Home(m) \in 0..Len(Tables(m).names)
  BY <1>1, <1>2, BuilderSound
<1>4. /\ Extends(Tables(s), Tables(m)) /\ Extends(Tables(m), Tables(r))
      /\ m.current = s.current /\ m.inFunction = s.inFunction
      /\ r.current = m.current /\ r.inFunction = m.inFunction
  BY <1>2 DEF Evaluates
<1>5. PICK F \in Codes : m.out = s.out \o F /\ Line(Tables(m), Home(s), F, a, b)
  BY <1>2 DEF Evaluates
<1>6. PICK G \in Codes : r.out = m.out \o G /\ Line(Tables(r), Home(m), G, b, d)
  BY DEF Evaluates
<1>7. Home(m) = Home(s)
  BY <1>4 DEF Home
<1>8. Extends(Tables(s), Tables(r))
  BY <1>3, <1>4, ExtendsThen
<1>9. Line(Tables(r), Home(s), F, a, b)
  BY <1>3, <1>4, <1>5, <1>7, LineKept
<1>10. F \o G \in Codes /\ Line(Tables(r), Home(s), F \o G, a, d)
  BY <1>6, <1>7, <1>9, LineConcat, Joined
<1>11. r.out = s.out \o (F \o G)
  <2>1. s.out \in Codes
    BY StateTables DEF Builders
  <2>2. (s.out \o F) \o G = s.out \o (F \o G)
    BY <2>1, Regroup
  <2> QED
    BY <1>5, <1>6, <2>2
<1> QED
  BY <1>4, <1>8, <1>10, <1>11

(* An evaluation may stand above k more values. *)
LEMMA EvaluatesAbove ==
  ASSUME NEW tokens, NEW s \in Builders(tokens), NEW r, NEW a \in Nat, NEW b \in Nat,
         NEW k \in Nat, Evaluates(tokens, s, r, a, b)
  PROVE  Evaluates(tokens, s, r, a + k, b + k)
<1> SUFFICES ASSUME ~r.failed
             PROVE  \E F \in Codes : r.out = s.out \o F /\ Line(Tables(r), Home(s), F, a + k, b + k)
  BY DEF Evaluates
<1>1. PICK F \in Codes : r.out = s.out \o F /\ Line(Tables(r), Home(s), F, a, b)
  BY DEF Evaluates
<1>2. Shaped(Tables(r))
  BY BuilderSound DEF Evaluates
<1> QED
  BY <1>1, <1>2, LineShift

(* A failed builder evaluates anything: the program is refused. *)
LEMMA FailEvaluates ==
  ASSUME NEW tokens, NEW s, NEW r \in States(tokens), NEW a, NEW b
  PROVE  Evaluates(tokens, s, Fail(r), a, b)
BY FailState DEF Evaluates

\* An instruction that is not a call.
LEMMA EmitEvaluates ==
  ASSUME NEW tokens, NEW s \in Builders(tokens), NEW op, NEW arg, Instr(op, arg) \in Instruction,
         op \in LineOps \ {"Call"}, ~s.failed => Resolved(Tables(s), Home(s), Instr(op, arg)),
         NEW a \in Nat, NEW b \in Nat, Taken(op) <= a, b = a - Taken(op) + 1, b >= 1
  PROVE  Evaluates(tokens, s, Emit(s, op, arg), a, b)
<1> DEFINE i == Instr(op, arg)
           r == Emit(s, op, arg)
<1>1. /\ r \in Builders(tokens) /\ Beside(s, r)
      /\ r.out = s.out \o <<i>> /\ r.failed = s.failed
  BY EmitState
<1> HIDE DEF r
<1> SUFFICES ASSUME ~r.failed
             PROVE  /\ Extends(Tables(s), Tables(r))
                    /\ r.current = s.current /\ r.inFunction = s.inFunction
                    /\ \E F \in Codes : r.out = s.out \o F /\ Line(Tables(r), Home(s), F, a, b)
  BY <1>1 DEF Evaluates, r
<1>2. i.op = op
  BY DEF Instr
<1>3. Resolved(Tables(r), Home(s), i)
  BY <1>1 DEF Beside
<1> HIDE DEF i
<1>4. <<i>> \in Codes /\ Line(Tables(r), Home(s), <<i>>, a, b)
  BY <1>2, <1>3, LineOne DEF i
<1>5. Extends(Tables(s), Tables(r))
  BY <1>1, BuilderSound, ExtendsSelf DEF Beside
<1> QED
  BY <1>1, <1>4, <1>5 DEF Beside

\* The call of the symbol at position f, which takes n arguments.
LEMMA CallEvaluates ==
  ASSUME NEW tokens, NEW s \in Builders(tokens), NEW f \in Nat \ {0}, NEW n \in Nat,
         ~s.failed => Known(Tables(s), f - 1) /\ Arity(Tables(s), f - 1) = n
  PROVE  Evaluates(tokens, s, Emit(Emit(s, "Pushi", f - 1), "Call", NoArg), n, 1)
<1> DEFINE i == Instr("Pushi", f - 1)
           j == Instr("Call", NoArg)
           m == Emit(s, "Pushi", f - 1)
           r == Emit(m, "Call", NoArg)
           F == <<i, j>>
<1>1. i \in Instruction /\ j \in Instruction
  BY DEF Instr, Instruction, OpCodes, ConstOps, NoArg
<1>2. /\ m \in Builders(tokens) /\ Beside(s, m)
      /\ m.out = s.out \o <<i>> /\ m.failed = s.failed
  BY <1>1, EmitState
<1> HIDE DEF m
<1>3. /\ r \in Builders(tokens) /\ Beside(m, r)
      /\ r.out = m.out \o <<j>> /\ r.failed = m.failed
  <2>1. m \in Builders(tokens) /\ Instr("Call", NoArg) \in Instruction
    BY <1>1, <1>2
  <2> PICK arg : arg = NoArg
    OBVIOUS
  <2> QED
    BY ONLY <2>1, EmitState, arg = NoArg
<1> HIDE DEF r
<1>4. r.out = s.out \o F /\ F \in Codes
  <2>1. s.out \in Codes
    BY StateTables DEF Builders
  <2>2. <<i>> \in Codes /\ <<j>> \in Codes /\ F = <<i>> \o <<j>> /\ F \in Codes
    BY <1>1 DEF Codes
  <2> HIDE DEF F
  <2>3. (s.out \o <<i>>) \o <<j>> = s.out \o (<<i>> \o <<j>>)
    BY <2>1, <2>2, Regroup
  <2> QED
    BY <1>2, <1>3, <2>2, <2>3
<1>5. Tables(r) = Tables(s) /\ r.current = s.current /\ r.inFunction = s.inFunction
  BY <1>2, <1>3 DEF Beside
<1>6. ASSUME ~r.failed
      PROVE  Extends(Tables(s), Tables(r)) /\ Line(Tables(r), Home(s), F, n, 1)
  <2>1. Shaped(Tables(s)) /\ Known(Tables(s), f - 1) /\ Arity(Tables(s), f - 1) = n
    BY <1>2, <1>3, <1>6, BuilderSound
  <2> PICK g : g = f - 1
    OBVIOUS
  <2>2. Line(Tables(s), Home(s), <<Instr("Pushi", g), Instr("Call", NoArg)>>,
             n, n - Arity(Tables(s), g) + 1)
    BY <2>1, LineCall
  <2>3. n - Arity(Tables(s), g) + 1 = 1
    BY <2>1
  <2> QED
    BY <1>5, <2>1, <2>2, <2>3, ExtendsSelf
<1>7. s.failed => r.failed
  BY <1>2, <1>3
<1> QED
  BY <1>3, <1>4, <1>5, <1>6, <1>7 DEF Evaluates, r, m

\* A step that only makes the tables grow.
LEMMA GrowthEvaluates ==
  ASSUME NEW tokens, NEW s \in Builders(tokens), ~s.failed, NEW r \in States(tokens),
         r.out = s.out, ~r.failed, r.current = s.current, r.inFunction = s.inFunction,
         Shaped(Tables(r)), Extends(Tables(s), Tables(r)), KeepsCode(Tables(s), Tables(r)),
         NEW a \in Nat
  PROVE  r \in Builders(tokens) /\ Evaluates(tokens, s, r, a, a)
<1>1. Shaped(Tables(s)) /\ AllCoded(Tables(s)) /\ Placed(Tables(s), s.current, s.inFunction)
  BY BuilderSound
<1>2. Sound(r)
  BY <1>1, CodesKept, PlacedKept DEF Sound
<1>3. r \in Builders(tokens)
  BY <1>2 DEF Builders
<1>4. s.out \in Codes
  BY StateTables DEF Builders
<1>5. <<>> \in Codes /\ s.out \o <<>> = s.out
  BY <1>4 DEF Codes
<1> QED
  BY <1>3, <1>5, LineEmpty DEF Evaluates

-----------------------------------------------------------------------------
(* Names.                                                                  *)

(* Looking a name up gives a position of the table, or 0. *)
LEMMA FirstNamedRange ==
  ASSUME NEW names \in Seq(STRING), NEW name
  PROVE  FirstNamed(names, name) \in 0..Len(names)
<1> DEFINE I == {i \in 1..Len(names) : names[i] = name}
<1>1. Len(names) \in Nat
  BY LenProperties
<1>2. FirstNamed(names, name) = IF I # {} THEN Min(I) ELSE 0
  BY DEF FirstNamed, SelectInSeq
<1>3. CASE I = {}
  BY <1>1, <1>2, <1>3
<1>4. CASE I # {}
  <2>1. I \in SUBSET Nat
    OBVIOUS
  <2> HIDE DEF I
  <2>2. \E i \in I : \A j \in I : i <= j
    BY <2>1, <1>4, LeastNumber
  <2>3. Min(I) \in I
    BY <2>2 DEF Min
  <2> QED
    BY <1>1, <1>2, <1>4, <2>3 DEF I
<1> QED
  BY <1>3, <1>4

(* A new local is appended to the current function's locals, and to nothing else. *)
LEMMA AddLocalGrows ==
  ASSUME NEW tokens, NEW s \in Builders(tokens), ~s.failed, s.inFunction, NEW name \in STRING
  PROVE  LET r == AddLocal(s, name)
         IN  /\ Locals(s) \in Seq(STRING) /\ Locals(r) = Append(Locals(s), name)
             /\ r \in Builders(tokens)
             /\ r.failed = s.failed /\ r.tokens = s.tokens /\ r.pos = s.pos
             /\ r.inDefinition = s.inDefinition
             /\ \A a \in Nat : Evaluates(tokens, s, r, a, a)
<1> DEFINE T == Tables(s)
           c == s.current
           g == [s.functions[c] EXCEPT !.locals = Append(@, name)]
           fs == [s.functions EXCEPT ![c] = g]
           r == [s EXCEPT !.functions = fs]
<1>1. s \in States(tokens) /\ Shaped(T) /\ c \in 1..Len(T.names)
  <2>1. Placed(T, c, s.inFunction) /\ Shaped(T)
    BY BuilderSound
  <2>2. Len(T.names) \in Nat
    BY <2>1, TablesLengths
  <2> QED
    BY <2>1, <2>2 DEF Placed, Builders
<1>2. AddLocal(s, name) = r
  BY <1>1 DEF AddLocal, States
<1>3. s.functions \in Seq(UserFunctions) /\ c \in 1..Len(s.functions) /\ s.functions[c] \in UserFunctions
  BY <1>1, ElementOfSeq DEF States, Tables, Shaped
<1>4. Locals(s) \in Seq(STRING) /\ s.functions[c].locals = Locals(s)
  BY <1>3 DEF Locals, UserFunctions
<1>5. /\ Append(Locals(s), name) \in Seq(STRING)
      /\ Len(Append(Locals(s), name)) = Len(Locals(s)) + 1 /\ Len(Locals(s)) \in Nat
  BY <1>4, AppendProperties, LenProperties
<1>6. g \in UserFunctions /\ g.locals = Append(Locals(s), name) /\ g.code = s.functions[c].code
      /\ g.nargs = s.functions[c].nargs
  BY <1>3, <1>4, <1>5 DEF UserFunctions
<1> HIDE DEF g
<1>7. fs \in Seq(UserFunctions) /\ Len(fs) = Len(s.functions)
      /\ fs[c] = g /\ \A f \in 1..Len(s.functions) : f # c => fs[f] = s.functions[f]
  BY <1>3, <1>6, ExceptSeq
<1> HIDE DEF fs
<1>8. r \in States(tokens)
  BY <1>1, <1>7 DEF States
<1>9. /\ r.functions = fs /\ r.names = s.names /\ r.isFunction = s.isFunction
      /\ r.constants = s.constants /\ r.out = s.out /\ r.failed = s.failed
      /\ r.current = s.current /\ r.inFunction = s.inFunction /\ r.pos = s.pos
      /\ r.tokens = s.tokens /\ r.inDefinition = s.inDefinition
  BY <1>1 DEF States
<1> HIDE DEF r
<1>10. Shaped(Tables(r)) /\ Len(Tables(r).names) = Len(T.names)
  BY <1>1, <1>7, <1>8, <1>9, StateTables DEF Shaped, Tables
<1>11. /\ Len(T.names) = Len(s.functions) /\ Len(T.names) \in Nat /\ Len(T.constants) \in Nat
       /\ \A f \in 1..Len(T.names) : Len(T.functions[f].locals) \in Nat
  BY <1>1, TablesLengths DEF Tables
<1>12. Extends(T, Tables(r))
  <2>1. ASSUME NEW f \in 1..Len(T.names)
        PROVE  /\ r.isFunction[f] = s.isFunction[f]
               /\ fs[f].nargs = s.functions[f].nargs
               /\ Len(s.functions[f].locals) <= Len(fs[f].locals)
    <3>1. CASE f = c
      <4>1. fs[f].locals = Append(Locals(s), name) /\ s.functions[f].locals = Locals(s)
            /\ fs[f].nargs = s.functions[f].nargs
        BY <3>1, <1>4, <1>6, <1>7
      <4> QED
        BY <4>1, <1>5, <1>9
    <3>2. CASE f # c
      <4>1. fs[f] = s.functions[f]
        BY <3>2, <1>7, <1>11
      <4>2. Len(s.functions[f].locals) \in Nat
        BY <1>11 DEF Tables
      <4> QED
        BY <4>1, <4>2, <1>9
    <3> QED
      BY <3>1, <3>2
  <2>2. Tables(r).names = T.names /\ Tables(r).constants = T.constants
    BY <1>9 DEF Tables
  <2>3. \A f \in 1..Len(T.names) :
          /\ Tables(r).isFunction[f] = T.isFunction[f]
          /\ Tables(r).functions[f].nargs = T.functions[f].nargs
          /\ Len(T.functions[f].locals) <= Len(Tables(r).functions[f].locals)
    BY <2>1, <1>9 DEF Tables
  <2> HIDE DEF T
  <2> QED
    BY <2>2, <2>3, <1>11 DEF Extends, Keeps
<1>13. KeepsCode(T, Tables(r))
  BY <1>6, <1>7, <1>9, <1>10, <1>11 DEF Tables, KeepsCode
<1>14. ASSUME NEW a \in Nat PROVE r \in Builders(tokens) /\ Evaluates(tokens, s, r, a, a)
  BY <1>8, <1>9, <1>10, <1>12, <1>13, GrowthEvaluates
<1>15. r \in Builders(tokens)
  BY <1>14
<1>16. Locals(r) = Append(Locals(s), name)
  BY <1>6, <1>7, <1>9 DEF Locals
<1> QED
  BY <1>2, <1>4, <1>9, <1>14, <1>15, <1>16, Zenon

(* A new symbol goes behind all others, with an empty function. *)
LEMMA AddSymbolTables ==
  ASSUME NEW tokens, NEW s \in States(tokens), Shaped(Tables(s)), NEW name \in STRING,
         NEW function \in BOOLEAN
  PROVE  LET r == AddSymbol(s, name, function)
             n == Len(s.names)
         IN  /\ r \in States(tokens) /\ Shaped(Tables(r))
             /\ Len(r.names) = n + 1 /\ n \in Nat
             /\ r.isFunction[n + 1] = function /\ r.functions[n + 1] = NewFunction
             /\ Extends(Tables(s), Tables(r)) /\ KeepsCode(Tables(s), Tables(r))
             /\ r.out = s.out /\ r.failed = s.failed /\ r.current = s.current
             /\ r.inFunction = s.inFunction /\ r.tokens = s.tokens /\ r.pos = s.pos
             /\ \A f \in 1..n : r.functions[f] = s.functions[f]
<1> DEFINE T == Tables(s)
           n == Len(s.names)
           names == Append(s.names, name)
           kinds == Append(s.isFunction, function)
           fs == Append(s.functions, NewFunction)
           r == [s EXCEPT !.names = names, !.isFunction = kinds, !.functions = fs]
<1>1. /\ s.names \in Seq(STRING) /\ s.isFunction \in Seq(BOOLEAN)
      /\ s.functions \in Seq(UserFunctions) /\ s.constants \in Seq(Int)
  BY DEF States
<1>2. AddSymbol(s, name, function) = r
  BY DEF AddSymbol, States
<1>3. NewFunction \in UserFunctions /\ NewFunction.code = <<>>
  BY DEF NewFunction, UserFunctions
<1>4. n \in Nat /\ Len(s.isFunction) = n /\ Len(s.functions) = n /\ Len(s.constants) \in Nat
  BY TablesLengths DEF Tables
<1>5. /\ names \in Seq(STRING) /\ Len(names) = n + 1
      /\ kinds \in Seq(BOOLEAN) /\ Len(kinds) = n + 1 /\ kinds[n + 1] = function
      /\ fs \in Seq(UserFunctions) /\ Len(fs) = n + 1 /\ fs[n + 1] = NewFunction
      /\ \A f \in 1..n : kinds[f] = s.isFunction[f] /\ fs[f] = s.functions[f]
  BY <1>1, <1>3, <1>4, AppendProperties
<1> HIDE DEF names, kinds, fs
<1>6. r \in States(tokens)
  BY <1>5 DEF States
<1>7. /\ r.functions = fs /\ r.names = names /\ r.isFunction = kinds
      /\ r.constants = s.constants /\ r.out = s.out /\ r.failed = s.failed
      /\ r.current = s.current /\ r.inFunction = s.inFunction /\ r.pos = s.pos
      /\ r.tokens = s.tokens
  BY DEF States
<1> HIDE DEF r
<1>8. Shaped(Tables(r))
  BY <1>5, <1>6, <1>7, StateTables DEF Shaped, Tables
<1>9. ASSUME NEW f \in 1..n PROVE Len(s.functions[f].locals) \in Nat
  BY <1>9, TablesLengths DEF Tables
<1>10. Extends(T, Tables(r))
  BY <1>4, <1>5, <1>7, <1>9 DEF Tables, Extends, Keeps
<1>11. KeepsCode(T, Tables(r))
  BY <1>3, <1>4, <1>5, <1>7 DEF Tables, KeepsCode
<1> QED
  BY <1>2, <1>4, <1>5, <1>6, <1>7, <1>8, <1>10, <1>11

-----------------------------------------------------------------------------
(* The procedures for expressions, when those they call do what they promise. *)

Calculates(tokens, p) ==
  \A s \in Builders(tokens) :
    /\ \A n \in 1..5 : Evaluates(tokens, s, p[<<"Expression", s, n>>], 0, 1)
    /\ \A n \in 1..4 : Evaluates(tokens, s, p[<<"Operands", s, n>>], 1, 1)
    /\ Evaluates(tokens, s, p[<<"Power", s, 0>>], 0, 1)
    /\ \A n \in Nat : LET e == p[<<"MoreExpressions", s, n>>]
                      IN  e[2] \in Nat /\ Evaluates(tokens, s, e[1], n, e[2])

(* The levels of precedence and their opcodes are those of the tables. *)
LEMMA Levels ==
  /\ Tightest = 5 /\ Loosest = 1 /\ Loosest \in 1..5
  /\ \A n \in 1..4 : \A c \in DOMAIN BinaryOpcodes[n] : BinaryOpcodes[n][c] \in BinaryOps
<1>1. Tightest = 5 /\ Loosest = 1 /\ Loosest \in 1..5
  BY DEF Tightest, Loosest, BinaryOpcodes
<1>2. ASSUME NEW n \in 1..4, NEW c \in DOMAIN BinaryOpcodes[n]
      PROVE  BinaryOpcodes[n][c] \in BinaryOps
  <2>1. n = 1 \/ n = 2 \/ n = 3 \/ n = 4
    OBVIOUS
  <2>2. CASE n = 1
    BY <2>2, <1>2 DEF BinaryOpcodes, BinaryOps
  <2>3. CASE n = 2
    BY <2>3, <1>2 DEF BinaryOpcodes, BinaryOps
  <2>4. CASE n = 3
    BY <2>4, <1>2 DEF BinaryOpcodes, BinaryOps
  <2>5. CASE n = 4
    BY <2>5, <1>2 DEF BinaryOpcodes, BinaryOps
  <2> QED
    BY <2>1, <2>2, <2>3, <2>4, <2>5
<1> QED
  BY <1>1, <1>2

\* Reading a token before or after leaves the operands.
LEMMA AdvancedEvaluates ==
  ASSUME NEW tokens, NEW s \in Builders(tokens), NEW a \in Nat
  PROVE  Advanced(s) \in Builders(tokens) /\ Evaluates(tokens, s, Advanced(s), a, a)
BY AdvancedState, BesideEvaluates

(* Expecting a token writes no code. *)
LEMMA ExpectEvaluates ==
  ASSUME NEW tokens, NEW s \in Builders(tokens), NEW c, NEW a \in Nat
  PROVE  Expect(s, c) \in Builders(tokens) /\ Evaluates(tokens, s, Expect(s, c), a, a)
BY ExpectState, BesideEvaluates

(* An evaluation ends in a sound builder. *)
LEMMA EvaluatesBuilder ==
  ASSUME NEW tokens, NEW s, NEW r, NEW a, NEW b, Evaluates(tokens, s, r, a, b)
  PROVE  r \in Builders(tokens) /\ r \in States(tokens)
BY DEF Evaluates, Builders

\* An expression over a operands, after a token.
LEMMA NextEvaluates ==
  ASSUME NEW tokens, NEW p, Calculates(tokens, p), NEW s \in Builders(tokens),
         NEW n \in 1..5, NEW a \in Nat
  PROVE  /\ Evaluates(tokens, s, p[<<"Expression", s, n>>], a, a + 1)
         /\ Evaluates(tokens, s, p[<<"Expression", Advanced(s), n>>], a, a + 1)
<1>1. ASSUME NEW x \in Builders(tokens) PROVE Evaluates(tokens, x, p[<<"Expression", x, n>>], a, a + 1)
  <2>1. Evaluates(tokens, x, p[<<"Expression", x, n>>], 0, 1)
    BY DEF Calculates
  <2> PICK z \in Nat, o \in Nat : z = 0 /\ o = 1
    OBVIOUS
  <2>2. Evaluates(tokens, x, p[<<"Expression", x, n>>], z + a, o + a)
    BY <2>1, EvaluatesAbove
  <2>3. z + a = a /\ o + a = a + 1
    OBVIOUS
  <2> QED
    BY <2>2, <2>3
<1>2. Advanced(s) \in Builders(tokens) /\ Evaluates(tokens, s, Advanced(s), a, a)
  BY AdvancedEvaluates
<1> QED
  BY <1>1, <1>2, EvaluatesThen

\* An instruction that takes two operands or one.
LEMMA OperatorEvaluates ==
  ASSUME NEW tokens, NEW s \in Builders(tokens), NEW op
  PROVE  /\ op \in BinaryOps => Evaluates(tokens, s, Emit(s, op, NoArg), 2, 1)
         /\ op \in UnaryOps => Evaluates(tokens, s, Emit(s, op, NoArg), 1, 1)
<1> DEFINE i == Instr(op, NoArg)
<1>1. ASSUME op \in BinaryOps \cup UnaryOps
      PROVE  /\ i \in Instruction /\ op \in LineOps \ {"Call"}
             /\ Resolved(Tables(s), Home(s), i)
             /\ op \in BinaryOps => Taken(op) = 2
             /\ op \in UnaryOps => Taken(op) = 1
  BY <1>1 DEF Instr, Instruction, OpCodes, NoArg, LineOps, Resolved, BinaryOps, UnaryOps, ConstOps, Taken
<1> PICK arg : arg = NoArg
  OBVIOUS
<1> PICK o \in Nat, w \in Nat : o = 1 /\ w = 2
  OBVIOUS
<1>2. ASSUME op \in BinaryOps PROVE Evaluates(tokens, s, Emit(s, op, arg), w, o)
  <2>1. Taken(op) <= w /\ o = w - Taken(op) + 1 /\ o >= 1
    BY <1>1, <1>2
  <2>2. Instr(op, arg) \in Instruction /\ Resolved(Tables(s), Home(s), Instr(op, arg)) /\ op \in LineOps \ {"Call"}
    BY <1>1, <1>2
  <2> QED
    BY <2>1, <2>2, EmitEvaluates
<1>3. ASSUME op \in UnaryOps PROVE Evaluates(tokens, s, Emit(s, op, arg), o, o)
  <2>1. Taken(op) <= o /\ o = o - Taken(op) + 1 /\ o >= 1
    BY <1>1, <1>3
  <2>2. Instr(op, arg) \in Instruction /\ Resolved(Tables(s), Home(s), Instr(op, arg)) /\ op \in LineOps \ {"Call"}
    BY <1>1, <1>3
  <2> QED
    BY <2>1, <2>2, EmitEvaluates
<1> QED
  BY <1>2, <1>3

(* A binary level leaves one value, when the descent below it does. *)
LEMMA ExpressionEvaluates ==
  ASSUME NEW tokens, NEW p, Calculates(tokens, p), NEW s \in Builders(tokens), NEW n \in 1..5
  PROVE  Evaluates(tokens, s, Expression(p, s, n), 0, 1)
<1>1. CASE n = Tightest
  BY <1>1 DEF Expression, Calculates
<1>2. CASE n # Tightest
  <2>1. n \in 1..4 /\ n + 1 \in 1..5
    BY <1>2, Levels
  <2> DEFINE m == p[<<"Expression", s, n + 1>>]
  <2>2. Evaluates(tokens, s, m, 0, 1)
    BY <2>1 DEF Calculates
  <2>3. Evaluates(tokens, m, p[<<"Operands", m, n>>], 1, 1)
    BY <2>1, <2>2, EvaluatesBuilder DEF Calculates
  <2>4. Expression(p, s, n) = p[<<"Operands", m, n>>]
    BY <1>2 DEF Expression
  <2> HIDE DEF m
  <2> QED
    BY <2>2, <2>3, <2>4, EvaluatesThen
<1> QED
  BY <1>1, <1>2

(* Each further operand and its operator turn one value into one value. *)
LEMMA OperandsEvaluates ==
  ASSUME NEW tokens, NEW p, Calculates(tokens, p), NEW s \in Builders(tokens), NEW n \in 1..4
  PROVE  Evaluates(tokens, s, Operands(p, s, n), 1, 1)
<1>1. CASE Code(s) \in DOMAIN BinaryOpcodes[n]
  <2> DEFINE op == BinaryOpcodes[n][Code(s)]
             x == p[<<"Expression", Advanced(s), n + 1>>]
             y == Emit(x, op, NoArg)
             z == p[<<"Operands", y, n>>]
  <2>1. op \in BinaryOps
    BY <1>1, Levels
  <2>2. Operands(p, s, n) = z
    BY <1>1 DEF Operands
  <2> HIDE DEF op
  <2>3. Evaluates(tokens, s, x, 1, 2)
    <3>1. n + 1 \in 1..5
      OBVIOUS
    <3> PICK o \in Nat : o = 1
      OBVIOUS
    <3>2. Evaluates(tokens, s, x, o, o + 1)
      BY <3>1, NextEvaluates
    <3> QED
      BY <3>2
  <2> HIDE DEF x
  <2>4. x \in Builders(tokens)
    BY <2>3, EvaluatesBuilder
  <2>5. Evaluates(tokens, x, y, 2, 1)
    BY <2>1, <2>4, OperatorEvaluates
  <2> HIDE DEF y
  <2>6. Evaluates(tokens, y, z, 1, 1)
    BY <2>5, EvaluatesBuilder DEF Calculates
  <2> HIDE DEF z
  <2>7. Evaluates(tokens, s, y, 1, 1)
    BY <2>3, <2>5, EvaluatesThen
  <2> QED
    BY <2>2, <2>6, <2>7, EvaluatesThen
<1>2. CASE Code(s) \notin DOMAIN BinaryOpcodes[n]
  <2> PICK o \in Nat : o = 1
    OBVIOUS
  <2>1. Evaluates(tokens, s, s, o, o)
    BY BesideEvaluates DEF Beside
  <2> QED
    BY <1>2, <2>1 DEF Operands
<1> QED
  BY <1>1, <1>2

(* Further arguments leave as many values as it counts. *)
LEMMA MoreExpressionsEvaluates ==
  ASSUME NEW tokens, NEW p, Calculates(tokens, p), NEW s \in Builders(tokens), NEW n \in Nat
  PROVE  LET e == MoreExpressions(p, s, n)
         IN  e[2] \in Nat /\ Evaluates(tokens, s, e[1], n, e[2])
<1>1. CASE Code(s) = "Comma"
  <2> DEFINE x == p[<<"Expression", Advanced(s), Loosest>>]
             e == p[<<"MoreExpressions", x, n + 1>>]
  <2>1. Evaluates(tokens, s, x, n, n + 1)
    BY Levels, NextEvaluates
  <2>2. MoreExpressions(p, s, n) = e
    BY <1>1 DEF MoreExpressions
  <2> HIDE DEF x
  <2>3. e[2] \in Nat /\ Evaluates(tokens, x, e[1], n + 1, e[2])
    <3> PICK k \in Nat : k = n + 1
      OBVIOUS
    <3>1. LET g == p[<<"MoreExpressions", x, k>>]
          IN  g[2] \in Nat /\ Evaluates(tokens, x, g[1], k, g[2])
      BY <2>1, EvaluatesBuilder DEF Calculates
    <3> QED
      BY <3>1
  <2> HIDE DEF e
  <2> QED
    BY <2>1, <2>2, <2>3, EvaluatesThen
<1>2. CASE Code(s) # "Comma"
  <2>1. Evaluates(tokens, s, s, n, n)
    BY BesideEvaluates DEF Beside
  <2> QED
    BY <1>2, <2>1 DEF MoreExpressions
<1> QED
  BY <1>1, <1>2

(* An argument list leaves as many values as it counts. *)
LEMMA ArgumentsEvaluates ==
  ASSUME NEW tokens, NEW p, Calculates(tokens, p), NEW s \in Builders(tokens)
  PROVE  LET e == Arguments(p, s)
         IN  e[2] \in Nat /\ Evaluates(tokens, s, e[1], 0, e[2])
<1>1. CASE Code(s) = "RightParenthesis"
  <2> PICK z \in Nat : z = 0
    OBVIOUS
  <2>1. Evaluates(tokens, s, s, z, z)
    BY BesideEvaluates DEF Beside
  <2> QED
    BY <1>1, <2>1 DEF Arguments
<1>2. CASE Code(s) # "RightParenthesis"
  <2> DEFINE x == p[<<"Expression", s, Loosest>>]
             e == p[<<"MoreExpressions", x, 1>>]
  <2>1. Evaluates(tokens, s, x, 0, 1)
    BY Levels DEF Calculates
  <2>2. Arguments(p, s) = e
    BY <1>2 DEF Arguments
  <2> HIDE DEF x
  <2>3. e[2] \in Nat /\ Evaluates(tokens, x, e[1], 1, e[2])
    <3> PICK o \in Nat : o = 1
      OBVIOUS
    <3>1. LET k == p[<<"MoreExpressions", x, o>>]
          IN  k[2] \in Nat /\ Evaluates(tokens, x, k[1], o, k[2])
      BY <2>1, EvaluatesBuilder DEF Calculates
    <3> QED
      BY <3>1
  <2> HIDE DEF e
  <2> QED
    BY <2>1, <2>2, <2>3, EvaluatesThen
<1> QED
  BY <1>1, <1>2

(* The token at hand carries the value its code calls for. *)
LEMMA CurrentValue ==
  ASSUME NEW tokens \in Seq(Tokens), NEW s \in States(tokens)
  PROVE  /\ Code(s) = "Identifier" => Current(s) \in STRING
         /\ Code(s) \in {"Integer", "Float"} => Current(s) \in Int
         /\ Code(s) # "failed" => ~s.failed
<1>1. s.tokens = tokens /\ s.pos \in Nat \ {0} /\ s.failed \in BOOLEAN
  BY DEF States
<1>2. ASSUME Code(s) \in {"Identifier", "Integer", "Float"}
      PROVE  s.pos \in 1..Len(tokens) /\ Code(s) = tokens[s.pos].code
  <2>1. ~s.failed /\ ~(s.pos > Len(s.tokens))
    BY <1>2 DEF Code
  <2>2. Len(tokens) \in Nat
    BY LenProperties
  <2> QED
    BY <1>1, <2>1, <2>2 DEF Code
<1>3. ASSUME Code(s) \in {"Identifier", "Integer", "Float"} PROVE tokens[s.pos] \in Tokens
  BY <1>2, <1>3, ElementOfSeq
<1>4. Code(s) = "Identifier" => Current(s) \in STRING
  BY <1>1, <1>2, <1>3 DEF Tokens, Valued, Current
<1>5. Code(s) \in {"Integer", "Float"} => Current(s) \in Int
  BY <1>1, <1>2, <1>3 DEF Tokens, Valued, Current
<1>6. Code(s) # "failed" => ~s.failed
  BY DEF Code
<1> QED
  BY <1>4, <1>5, <1>6

(* A call takes exactly the callee's arguments and leaves its result, or is refused. *)
LEMMA CallIsEvaluated ==
  ASSUME NEW tokens, NEW p, Calculates(tokens, p), NEW s \in Builders(tokens), ~s.failed,
         NEW f \in 1..Len(s.names), s.isFunction[f]
  PROVE  Evaluates(tokens, s, Call(p, s, f), 0, 1)
<1> DEFINE x == Advanced(s)
           e == Arguments(p, x)
           y == e[1]
           n == e[2]
           z == Expect(y, "RightParenthesis")
           r == Emit(Emit(z, "Pushi", f - 1), "Call", NoArg)
<1>1. x \in Builders(tokens) /\ Evaluates(tokens, s, x, 0, 0)
  <2> PICK o \in Nat : o = 0
    OBVIOUS
  <2>1. x \in Builders(tokens) /\ Evaluates(tokens, s, x, o, o)
    BY AdvancedEvaluates
  <2> QED
    BY <2>1
<1> HIDE DEF x
<1>2. n \in Nat /\ Evaluates(tokens, x, y, 0, n)
  BY <1>1, ArgumentsEvaluates
<1>3. Call(p, s, f) = IF n # y.functions[f].nargs THEN Fail(y) ELSE r
  BY DEF Call, CallOf, x
<1> HIDE DEF e
<1>4. y \in Builders(tokens) /\ y \in States(tokens)
  BY <1>2, EvaluatesBuilder
<1>5. CASE n # y.functions[f].nargs
  BY <1>3, <1>4, <1>5, FailEvaluates
<1>6. CASE n = y.functions[f].nargs
  <2>1. z \in Builders(tokens) /\ Evaluates(tokens, y, z, n, n)
    BY <1>2, <1>4, ExpectEvaluates
  <2> HIDE DEF z
  <2>2. Evaluates(tokens, s, y, 0, n)
    BY <1>1, <1>2, EvaluatesThen
  <2>3. Evaluates(tokens, s, z, 0, n)
    BY <2>1, <2>2, EvaluatesThen
  <2>4. ~z.failed => Known(Tables(z), f - 1) /\ Arity(Tables(z), f - 1) = n
    <3> SUFFICES ASSUME ~z.failed PROVE Known(Tables(z), f - 1) /\ Arity(Tables(z), f - 1) = n
      OBVIOUS
    <3>1. ~y.failed
      BY <2>1 DEF Evaluates
    <3>2. Shaped(Tables(s)) /\ Shaped(Tables(y)) /\ Shaped(Tables(z))
      BY <1>4, <2>1, <3>1, BuilderSound
    <3>3. Extends(Tables(s), Tables(y)) /\ Extends(Tables(y), Tables(z))
      BY <2>1, <2>2, <3>1 DEF Evaluates
    <3>4. /\ Len(s.names) \in Nat /\ Len(y.names) \in Nat /\ Len(z.names) \in Nat
          /\ Len(s.names) <= Len(y.names) /\ Len(y.names) <= Len(z.names)
      BY <3>2, <3>3, TablesLengths DEF Tables, Extends, Keeps
    <3>5. f \in 1..Len(y.names) /\ f \in 1..Len(z.names) /\ f - 1 + 1 = f
      BY <3>4
    <3>6. z.functions[f].nargs = y.functions[f].nargs /\ z.isFunction[f] = s.isFunction[f]
      BY <3>3, <3>5 DEF Extends, Keeps, Tables
    <3>7. f - 1 \in 0..(Len(z.names) - 1)
      BY <3>4, <3>5
    <3> QED
      BY <1>6, <3>5, <3>6, <3>7 DEF Known, Arity, Tables
  <2>5. f \in Nat \ {0}
    OBVIOUS
  <2>6. Evaluates(tokens, z, r, n, 1)
    BY <1>2, <2>1, <2>4, <2>5, CallEvaluates
  <2> HIDE DEF r
  <2> QED
    BY <1>3, <1>6, <2>3, <2>6, EvaluatesThen
<1> QED
  BY <1>5, <1>6

(* A name inside a function loads a local that exists or is added. *)
LEMMA LocalVariableEvaluates ==
  ASSUME NEW tokens, NEW s \in Builders(tokens), ~s.failed, s.inFunction, NEW name \in STRING
  PROVE  Evaluates(tokens, s, LocalVariable(s, name), 0, 1)
<1> PICK z \in Nat, o \in Nat : z = 0 /\ o = 1
  OBVIOUS
<1> DEFINE i == FirstNamed(Locals(s), name)
           l == AddLocal(s, name)
           n == Len(Locals(s))
<1>1. /\ Locals(s) \in Seq(STRING) /\ Locals(l) = Append(Locals(s), name)
      /\ l \in Builders(tokens) /\ l.failed = s.failed
      /\ Evaluates(tokens, s, l, z, z)
  BY AddLocalGrows
<1> HIDE DEF l
<1>2. i \in 0..n /\ n \in Nat /\ Len(Locals(l)) = n + 1
  BY <1>1, FirstNamedRange, LenProperties, AppendProperties
<1>3. ASSUME NEW x \in Builders(tokens), ~x.failed, x.inFunction, NEW k \in 0..(Len(Locals(x)) - 1)
      PROVE  Evaluates(tokens, x, Emit(x, "LoadLocal", k), z, o)
  <2> DEFINE j == Instr("LoadLocal", k)
  <2>0. Placed(Tables(x), x.current, x.inFunction) /\ Shaped(Tables(x))
    BY <1>3, BuilderSound
  <2>1. Home(x) = x.current /\ x.current # 0
    BY <1>3, <2>0 DEF Home, Placed
  <2>2. Locals(x) = Tables(x).functions[Home(x)].locals
    BY <2>1 DEF Locals, Tables
  <2>3. k \in Int
    <3>1. Home(x) \in 1..Len(Tables(x).names)
      BY <2>0, <2>1, TablesLengths DEF Placed
    <3>2. Len(Locals(x)) \in Nat
      BY <2>0, <2>2, <3>1, TablesLengths
    <3> QED
      BY <3>2
  <2>4. Resolved(Tables(x), Home(x), j)
    BY <2>1, <2>2 DEF Resolved, Instr
  <2>5. j \in Instruction
    BY <2>3 DEF Instr, Instruction, OpCodes
  <2>6. "LoadLocal" \in LineOps \ {"Call"} /\ Taken("LoadLocal") = 0
    BY DEF LineOps, Taken, BinaryOps, UnaryOps
  <2>7. Taken("LoadLocal") <= z /\ o = z - Taken("LoadLocal") + 1 /\ o >= 1
    BY <2>6
  <2> QED
    BY <2>4, <2>5, <2>6, <2>7, EmitEvaluates
<1>4. CASE i # 0
  <2>1. i - 1 \in 0..(n - 1)
    BY <1>2, <1>4
  <2>2. Evaluates(tokens, s, Emit(s, "LoadLocal", i - 1), z, o)
    BY <1>3, <2>1
  <2> QED
    BY <1>4, <2>2 DEF LocalVariable
<1>5. CASE i = 0 /\ s.inDefinition /\ Code(s) # "LeftBracket"
  <2>1. n \in 0..(Len(Locals(l)) - 1)
    BY <1>2
  <2>2. l.inFunction /\ ~l.failed
    BY <1>1 DEF Evaluates
  <2>3. Evaluates(tokens, l, Emit(l, "LoadLocal", n), z, o)
    BY <1>1, <1>3, <2>1, <2>2
  <2>4. Evaluates(tokens, s, Emit(l, "LoadLocal", n), z, o)
    BY <1>1, <2>3, EvaluatesThen
  <2> QED
    BY <1>5, <2>4 DEF LocalVariable, l
<1>6. CASE i = 0 /\ ~(s.inDefinition /\ Code(s) # "LeftBracket")
  <2>1. LocalVariable(s, name) = Fail(s) /\ s \in States(tokens)
    BY <1>6 DEF LocalVariable, Builders
  <2> QED
    BY <2>1, FailEvaluates
<1> QED
  BY <1>4, <1>5, <1>6

(* A name outside functions loads a symbol that exists or is added. *)
LEMMA ModuleVariableEvaluates ==
  ASSUME NEW tokens, NEW s \in Builders(tokens), ~s.failed, NEW name \in STRING
  PROVE  Evaluates(tokens, s, ModuleVariable(s, name), 0, 1)
<1> PICK z \in Nat, o \in Nat : z = 0 /\ o = 1
  OBVIOUS
<1> DEFINE i == FirstNamed(s.names, name)
           l == AddSymbol(s, name, FALSE)
           n == Len(s.names)
<1>1. s \in States(tokens) /\ s.names \in Seq(STRING) /\ Shaped(Tables(s))
  BY BuilderSound DEF Builders, States
<1>2. /\ l \in States(tokens) /\ Shaped(Tables(l))
      /\ Len(l.names) = n + 1 /\ n \in Nat
      /\ Extends(Tables(s), Tables(l)) /\ KeepsCode(Tables(s), Tables(l))
      /\ l.out = s.out /\ l.failed = s.failed /\ l.current = s.current
      /\ l.inFunction = s.inFunction
  <2> PICK no : no = FALSE
    OBVIOUS
  <2>1. no \in BOOLEAN /\ l = AddSymbol(s, name, no)
    OBVIOUS
  <2> HIDE DEF l
  <2> QED
    BY <1>1, <2>1, AddSymbolTables
<1> HIDE DEF l
<1>3. l \in Builders(tokens) /\ Evaluates(tokens, s, l, z, z)
  BY <1>2, GrowthEvaluates
<1>4. i \in 0..n
  BY <1>1, FirstNamedRange
<1>5. ASSUME NEW x \in Builders(tokens), NEW k \in 0..(Len(x.names) - 1)
      PROVE  Evaluates(tokens, x, Emit(x, "Load", k), z, o)
  <2> DEFINE j == Instr("Load", k)
  <2>1. k \in Int
    <3>1. x.names \in Seq(STRING)
      BY DEF Builders, States
    <3>2. Len(x.names) \in Nat
      BY <3>1, LenProperties
    <3> QED
      BY <3>2
  <2>2. Resolved(Tables(x), Home(x), j)
    BY DEF Resolved, Instr, Tables
  <2>3. j \in Instruction
    BY <2>1 DEF Instr, Instruction, OpCodes
  <2>4. "Load" \in LineOps \ {"Call"} /\ Taken("Load") = 0
    BY DEF LineOps, Taken, BinaryOps, UnaryOps
  <2>5. Taken("Load") <= z /\ o = z - Taken("Load") + 1 /\ o >= 1
    BY <2>4
  <2> QED
    BY <2>2, <2>3, <2>4, <2>5, EmitEvaluates
<1>6. CASE i # 0 /\ Code(s) # "LeftBracket"
  <2>1. i - 1 \in 0..(n - 1)
    BY <1>2, <1>4, <1>6
  <2>2. Evaluates(tokens, s, Emit(s, "Load", i - 1), z, o)
    BY <1>5, <2>1
  <2> QED
    BY <1>6, <2>2 DEF ModuleVariable
<1>7. CASE i = 0 /\ s.inDefinition /\ Code(s) # "LeftBracket"
  <2>1. n \in 0..(Len(l.names) - 1)
    BY <1>2
  <2>2. Evaluates(tokens, l, Emit(l, "Load", n), z, o)
    BY <1>3, <1>5, <2>1
  <2>3. Evaluates(tokens, s, Emit(l, "Load", n), z, o)
    BY <1>3, <2>2, EvaluatesThen
  <2> QED
    BY <1>7, <2>3 DEF ModuleVariable, l
<1>8. CASE Code(s) = "LeftBracket" \/ (i = 0 /\ ~s.inDefinition)
  <2>1. ModuleVariable(s, name) = Fail(s)
    BY <1>8 DEF ModuleVariable
  <2> QED
    BY <1>1, <2>1, FailEvaluates
<1> QED
  BY <1>6, <1>7, <1>8

\* A constant: an instruction that takes nothing and gives one.
LEMMA ConstantEvaluates ==
  ASSUME NEW tokens, NEW s \in Builders(tokens), NEW op \in {"Pushi", "Pushd", "Pushb", "Pushs"},
         NEW arg \in Int, op = "Pushd" => arg \in 1..Len(s.constants)
  PROVE  Evaluates(tokens, s, Emit(s, op, arg), 0, 1)
<1> PICK z \in Nat, o \in Nat : z = 0 /\ o = 1
  OBVIOUS
<1>1. Instr(op, arg) \in Instruction
  BY DEF Instr, Instruction, OpCodes, ConstOps, UnsupportedOps
<1>2. Resolved(Tables(s), Home(s), Instr(op, arg))
  BY DEF Resolved, Instr, Tables
<1>3. op \in LineOps \ {"Call"} /\ Taken(op) = 0
  BY DEF LineOps, Taken, ConstOps, BinaryOps, UnaryOps
<1>4. Taken(op) <= z /\ o = z - Taken(op) + 1 /\ o >= 1
  BY <1>3
<1> QED
  BY <1>1, <1>2, <1>3, <1>4, EmitEvaluates

(* A new constant goes behind the others, and its index lies in the table. *)
LEMMA ConstantGrows ==
  ASSUME NEW tokens, NEW s \in Builders(tokens), NEW v \in Int
  PROVE  LET r == [s EXCEPT !.constants = Append(@, v)]
         IN  /\ r \in Builders(tokens) /\ Evaluates(tokens, s, r, 0, 0)
             /\ Len(s.constants) + 1 \in 1..Len(r.constants)
<1> PICK z \in Nat : z = 0
  OBVIOUS
<1> DEFINE r == [s EXCEPT !.constants = Append(@, v)]
<1>1. s \in States(tokens) /\ s.constants \in Seq(Int)
  BY DEF Builders, States
<1>2. /\ Append(s.constants, v) \in Seq(Int) /\ Len(s.constants) \in Nat
      /\ Len(Append(s.constants, v)) = Len(s.constants) + 1
  BY <1>1, AppendProperties, LenProperties
<1>3. r \in States(tokens)
  BY <1>1, <1>2 DEF States
<1>4. /\ r.constants = Append(s.constants, v)
      /\ r.functions = s.functions /\ r.names = s.names /\ r.isFunction = s.isFunction
      /\ r.out = s.out /\ r.failed = s.failed
      /\ r.current = s.current /\ r.inFunction = s.inFunction
  BY <1>1 DEF States
<1> HIDE DEF r
<1>5. Len(s.constants) + 1 \in 1..Len(r.constants)
  BY <1>2, <1>4
<1>6. CASE s.failed
  <2>1. r \in Builders(tokens) /\ r.failed
    BY <1>3, <1>4, <1>6 DEF Builders
  <2> QED
    BY <1>5, <1>6, <2>1 DEF Evaluates, r
<1>7. CASE ~s.failed
  <2>1. Shaped(Tables(s)) /\ ~r.failed
    BY <1>4, <1>7, BuilderSound
  <2>2. Shaped(Tables(r))
    BY <1>3, <1>4, <2>1, StateTables DEF Shaped, Tables
  <2>3. Extends(Tables(s), Tables(r))
    <3>1. /\ Len(s.names) \in Nat
          /\ \A f \in 1..Len(s.names) : Len(s.functions[f].locals) \in Nat
      BY <2>1, TablesLengths DEF Tables
    <3> QED
      BY <1>2, <1>4, <3>1 DEF Extends, Keeps, Tables
  <2>4. KeepsCode(Tables(s), Tables(r))
    <3>1. Len(s.names) \in Nat
      BY <2>1, TablesLengths DEF Tables
    <3> QED
      BY <1>4, <3>1 DEF KeepsCode, Tables
  <2>5. r \in Builders(tokens) /\ Evaluates(tokens, s, r, z, z)
    BY <1>3, <1>4, <1>7, <2>1, <2>2, <2>3, <2>4, GrowthEvaluates
  <2> QED
    BY <1>5, <2>5 DEF r
<1> QED
  BY <1>6, <1>7

(* An identifier, call or variable, leaves one value. *)
LEMMA IdentifierEvaluates ==
  ASSUME NEW tokens \in Seq(Tokens), NEW p, Calculates(tokens, p), NEW s \in Builders(tokens),
         Code(s) = "Identifier"
  PROVE  Evaluates(tokens, s, Identifier(p, s), 0, 1)
<1> DEFINE name == Current(s)
           next == Advanced(s)
           f == FirstNamed(s.names, name)
<1>1. s \in States(tokens) /\ s.names \in Seq(STRING)
  BY DEF Builders, States
<1>2. name \in STRING /\ ~s.failed
  BY <1>1, CurrentValue
<1>3. /\ next \in Builders(tokens) /\ Beside(s, next) /\ next.failed = s.failed
      /\ Evaluates(tokens, s, next, 0, 0)
  <2> PICK z \in Nat : z = 0
    OBVIOUS
  <2>1. Evaluates(tokens, s, next, z, z)
    BY AdvancedEvaluates
  <2> QED
    BY <2>1, AdvancedState
<1>4. next \in States(tokens) /\ next.names = s.names /\ next.isFunction = s.isFunction
      /\ next.inFunction = s.inFunction /\ s.inFunction \in BOOLEAN
  BY <1>1, <1>3 DEF Beside, Tables, Builders, States
<1>5. f \in 0..Len(s.names)
  BY <1>1, FirstNamedRange
<1>6. Identifier(p, s) =
        IF Code(next) = "LeftParenthesis"
        THEN IF f # 0 /\ s.isFunction[f] THEN Call(p, next, f) ELSE Fail(s)
        ELSE IF s.inFunction THEN LocalVariable(next, name) ELSE ModuleVariable(next, name)
  BY DEF Identifier
<1> HIDE DEF name, next, f
<1>7. CASE Code(next) = "LeftParenthesis" /\ f # 0 /\ s.isFunction[f]
  <2>1. f \in 1..Len(next.names) /\ next.isFunction[f]
    BY <1>4, <1>5, <1>7
  <2>2. Evaluates(tokens, next, Call(p, next, f), 0, 1)
    BY <1>2, <1>3, <2>1, CallIsEvaluated
  <2> QED
    BY <1>3, <1>6, <1>7, <2>2, EvaluatesThen
<1>8. CASE Code(next) = "LeftParenthesis" /\ ~(f # 0 /\ s.isFunction[f])
  BY <1>1, <1>6, <1>8, FailEvaluates
<1>9. CASE Code(next) # "LeftParenthesis" /\ s.inFunction
  <2>1. Evaluates(tokens, next, LocalVariable(next, name), 0, 1)
    BY <1>2, <1>3, <1>4, <1>9, LocalVariableEvaluates
  <2> QED
    BY <1>3, <1>6, <1>9, <2>1, EvaluatesThen
<1>10. CASE Code(next) # "LeftParenthesis" /\ ~s.inFunction
  <2>1. Evaluates(tokens, next, ModuleVariable(next, name), 0, 1)
    BY <1>2, <1>3, ModuleVariableEvaluates
  <2> QED
    BY <1>3, <1>6, <1>10, <2>1, EvaluatesThen
<1> QED
  BY <1>7, <1>8, <1>9, <1>10

(* A factor leaves one value. *)
LEMMA FactorEvaluates ==
  ASSUME NEW tokens \in Seq(Tokens), NEW p, Calculates(tokens, p), NEW s \in Builders(tokens)
  PROVE  Evaluates(tokens, s, Factor(p, s), 0, 1)
<1> DEFINE next == Advanced(s)
           v == Current(s)
<1>1. s \in States(tokens) /\ s.constants \in Seq(Int)
  BY DEF Builders, States
<1>2. next \in Builders(tokens) /\ Evaluates(tokens, s, next, 0, 0) /\ next.constants = s.constants
  <2> PICK z \in Nat : z = 0
    OBVIOUS
  <2>1. Evaluates(tokens, s, next, z, z)
    BY AdvancedEvaluates
  <2> QED
    BY <2>1, AdvancedState DEF Beside, Tables
<1>3. Code(s) \in {"Integer", "Float"} => v \in Int
  BY <1>1, CurrentValue
<1> HIDE DEF next, v
<1>4. ASSUME NEW r, Evaluates(tokens, next, r, 0, 1) PROVE Evaluates(tokens, s, r, 0, 1)
  BY <1>2, <1>4, EvaluatesThen
<1>5. CASE Code(s) = "Integer"
  <2>1. Factor(p, s) = Emit(next, "Pushi", v)
    BY <1>5 DEF Factor, next, v
  <2>2. Evaluates(tokens, next, Emit(next, "Pushi", v), 0, 1)
    BY <1>2, <1>3, <1>5, ConstantEvaluates
  <2> QED
    BY <1>4, <2>1, <2>2
<1>6. CASE Code(s) = "Float"
  <2> DEFINE x == [next EXCEPT !.constants = Append(@, v)]
             n == Len(s.constants) + 1
  <2>1. Factor(p, s) = Emit(x, "Pushd", n)
    BY <1>6 DEF Factor, next, v
  <2>2. /\ x \in Builders(tokens) /\ Evaluates(tokens, next, x, 0, 0)
        /\ n \in 1..Len(x.constants)
    BY <1>2, <1>3, <1>6, ConstantGrows
  <2>3. n \in Int
    BY <1>1, LenProperties
  <2> HIDE DEF x, n
  <2>4. Evaluates(tokens, x, Emit(x, "Pushd", n), 0, 1)
    BY <2>2, <2>3, ConstantEvaluates
  <2>5. Evaluates(tokens, next, Emit(x, "Pushd", n), 0, 1)
    BY <1>2, <2>2, <2>4, EvaluatesThen
  <2> QED
    BY <1>4, <2>1, <2>5
<1>7. CASE Code(s) \in {"String", "True", "False"}
  <2>1. PICK op \in {"Pushs", "Pushb"}, arg \in Int : Factor(p, s) = Emit(next, op, arg)
    <3>1. CASE Code(s) = "String"
      BY <3>1 DEF Factor, next, NoArg
    <3>2. CASE Code(s) = "True"
      BY <3>2 DEF Factor, next
    <3>3. CASE Code(s) = "False"
      BY <3>3 DEF Factor, next
    <3> QED
      BY <1>7, <3>1, <3>2, <3>3
  <2>2. Evaluates(tokens, next, Emit(next, op, arg), 0, 1)
    BY <1>2, ConstantEvaluates
  <2> QED
    BY <1>4, <2>1, <2>2
<1>8. ASSUME TRUE PROVE Evaluates(tokens, next, p[<<"Expression", next, Loosest>>], 0, 1)
                         /\ p[<<"Expression", next, Loosest>>] \in Builders(tokens)
  BY <1>2, Levels, EvaluatesBuilder DEF Calculates
<1> DEFINE e == p[<<"Expression", next, Loosest>>]
<1>9. CASE Code(s) = "LeftParenthesis"
  <2>1. Factor(p, s) = Expect(e, "RightParenthesis")
    BY <1>9 DEF Factor, next
  <2> HIDE DEF e
  <2>2. Evaluates(tokens, e, Expect(e, "RightParenthesis"), 1, 1)
    <3> PICK o \in Nat : o = 1
      OBVIOUS
    <3>1. e \in Builders(tokens)
      BY <1>8 DEF e
    <3>2. Evaluates(tokens, e, Expect(e, "RightParenthesis"), o, o)
      BY <3>1, ExpectEvaluates
    <3> QED
      BY <3>2
  <2>3. Evaluates(tokens, next, e, 0, 1)
    BY <1>8 DEF e
  <2> QED
    BY <1>2, <1>4, <2>1, <2>2, <2>3, EvaluatesThen
<1>10. CASE Code(s) = "Not"
  <2>1. Factor(p, s) = Emit(e, "Not", NoArg)
    BY <1>10 DEF Factor, next
  <2>2. Evaluates(tokens, next, e, 0, 1) /\ e \in Builders(tokens)
    BY <1>8
  <2> HIDE DEF e
  <2>3. Evaluates(tokens, e, Emit(e, "Not", NoArg), 1, 1)
    BY <2>2, OperatorEvaluates DEF UnaryOps
  <2> QED
    BY <1>2, <1>4, <2>1, <2>2, <2>3, EvaluatesThen
<1>11. CASE Code(s) = "Identifier"
  <2>1. Factor(p, s) = Identifier(p, s)
    BY <1>11 DEF Factor
  <2> QED
    BY <1>11, <2>1, IdentifierEvaluates
<1>12. CASE Code(s) \notin {"Integer", "Float", "String", "True", "False", "LeftParenthesis",
                            "Identifier", "Not"}
  <2>1. Factor(p, s) = Fail(s)
    BY <1>12 DEF Factor
  <2> QED
    BY <1>1, <2>1, FailEvaluates
<1> QED
  BY <1>5, <1>6, <1>7, <1>9, <1>10, <1>11, <1>12

(* A power, with its signs, leaves one value. *)
LEMMA PowerEvaluates ==
  ASSUME NEW tokens \in Seq(Tokens), NEW p, Calculates(tokens, p), NEW s \in Builders(tokens)
  PROVE  Evaluates(tokens, s, Power(p, s), 0, 1)
<1> PICK z \in Nat, o \in Nat : z = 0 /\ o = 1
  OBVIOUS
<1>1. Advanced(s) \in Builders(tokens) /\ Evaluates(tokens, s, Advanced(s), z, z)
  BY AdvancedEvaluates
<1> DEFINE x == p[<<"Power", Advanced(s), 0>>]
<1>2. Evaluates(tokens, s, x, 0, 1) /\ x \in Builders(tokens)
  <2>1. Evaluates(tokens, Advanced(s), x, 0, 1)
    BY <1>1 DEF Calculates
  <2>2. Evaluates(tokens, s, Advanced(s), 0, 0)
    BY <1>1
  <2> HIDE DEF x
  <2> QED
    BY <2>1, <2>2, EvaluatesThen, EvaluatesBuilder
<1>3. CASE Code(s) = "Minus"
  <2>1. Power(p, s) = Emit(x, "Umi", NoArg)
    BY <1>3 DEF Power
  <2> HIDE DEF x
  <2>2. Evaluates(tokens, x, Emit(x, "Umi", NoArg), 1, 1)
    BY <1>2, OperatorEvaluates DEF UnaryOps
  <2> QED
    BY <1>2, <2>1, <2>2, EvaluatesThen
<1>4. CASE Code(s) = "Plus"
  BY <1>2, <1>4 DEF Power
<1>5. CASE Code(s) \notin {"Minus", "Plus"}
  <2> DEFINE b == Factor(p, s)
  <2>1. Evaluates(tokens, s, b, 0, 1) /\ b \in Builders(tokens)
    BY FactorEvaluates, EvaluatesBuilder
  <2>2. Power(p, s) = Exponent(p, b)
    BY <1>5 DEF Power
  <2> HIDE DEF b
  <2>3. CASE Code(b) = "Power"
    <3> DEFINE y == p[<<"Power", Advanced(b), 0>>]
    <3>1. Advanced(b) \in Builders(tokens) /\ Evaluates(tokens, b, Advanced(b), o, o)
      BY <2>1, AdvancedEvaluates
    <3>2. Evaluates(tokens, Advanced(b), y, 0, 1)
      BY <3>1 DEF Calculates
    <3>3. Exponent(p, b) = Emit(y, "Power", NoArg)
      BY <2>3 DEF Exponent
    <3> HIDE DEF y
    <3>4. Evaluates(tokens, Advanced(b), y, z + o, o + o)
      <4>1. Evaluates(tokens, Advanced(b), y, z, o)
        BY <3>2
      <4> QED
        BY <3>1, <4>1, EvaluatesAbove
    <3>5. Evaluates(tokens, Advanced(b), y, 1, 2)
      <4>1. z + o = 1 /\ o + o = 2
        OBVIOUS
      <4> QED
        BY <3>4, <4>1
    <3>6. Evaluates(tokens, b, Advanced(b), 1, 1)
      BY <3>1
    <3>7. Evaluates(tokens, b, y, 1, 2) /\ y \in Builders(tokens)
      BY <2>1, <3>5, <3>6, EvaluatesThen, EvaluatesBuilder
    <3>8. Evaluates(tokens, y, Emit(y, "Power", NoArg), 2, 1)
      BY <3>7, OperatorEvaluates DEF BinaryOps
    <3>9. Evaluates(tokens, b, Emit(y, "Power", NoArg), 1, 1)
      BY <2>1, <3>7, <3>8, EvaluatesThen
    <3> QED
      BY <2>1, <2>2, <3>3, <3>9, EvaluatesThen
  <2>4. CASE Code(b) # "Power"
    BY <2>1, <2>2, <2>4 DEF Exponent
  <2> QED
    BY <2>3, <2>4
<1> QED
  BY <1>3, <1>4, <1>5

-----------------------------------------------------------------------------
(* What the procedures for statements do.                                  *)

\* A function that is left behind leaves another one as the last.
Moves(s, r) ==
  /\ r.inFunction => s.inFunction /\ r.current = s.current
  /\ s.inFunction /\ ~r.inFunction => r.current > s.current
  /\ r.current >= s.current

\* The code that is written is that of whole statements, unless a definition
\* inside it took the builder out of the function.
Runs(tokens, s, r) ==
  /\ r \in Builders(tokens)
  /\ s.failed => r.failed
  /\ ~r.failed =>
       /\ Extends(Tables(s), Tables(r)) /\ Moves(s, r)
       /\ \E F \in Codes :
            /\ r.out = s.out \o F
            /\ Regular(Tables(r), F) /\ Open(F)
            /\ r.inFunction = s.inFunction => Block(Tables(r), Home(s), F)

(* Moving between functions composes, and home is where one was before. *)
LEMMA MovesThen ==
  ASSUME NEW tokens, NEW s \in States(tokens), NEW m \in States(tokens), NEW r \in States(tokens),
         Moves(s, m), Moves(m, r)
  PROVE  /\ Moves(s, r)
         /\ r.inFunction = s.inFunction => r.inFunction = m.inFunction /\ m.inFunction = s.inFunction
         /\ m.inFunction = s.inFunction => Home(m) = Home(s)
<1>1. /\ s.current \in Nat /\ m.current \in Nat /\ r.current \in Nat
      /\ s.inFunction \in BOOLEAN /\ m.inFunction \in BOOLEAN /\ r.inFunction \in BOOLEAN
  BY StateTables
<1>2. Moves(s, r)
  BY <1>1 DEF Moves
<1>3. r.inFunction = s.inFunction => r.inFunction = m.inFunction /\ m.inFunction = s.inFunction
  BY <1>1 DEF Moves
<1>4. m.inFunction = s.inFunction => Home(m) = Home(s)
  BY <1>1 DEF Moves, Home
<1> QED
  BY <1>2, <1>3, <1>4

(* A step that keeps the current function stays at home. *)
LEMMA MovesBeside ==
  ASSUME NEW tokens, NEW s \in States(tokens), NEW r,
         r.current = s.current, r.inFunction = s.inFunction
  PROVE  Moves(s, r)
<1>1. s.current \in Nat
  BY StateTables
<1> QED
  BY <1>1 DEF Moves

(* A failed builder runs anything: the program is refused. *)
LEMMA FailRuns ==
  ASSUME NEW tokens, NEW s, NEW r \in States(tokens)
  PROVE  Runs(tokens, s, Fail(r))
BY FailState DEF Runs

(* A statement ends in a sound builder. *)
LEMMA RunsBuilder ==
  ASSUME NEW tokens, NEW s, NEW r, Runs(tokens, s, r)
  PROVE  r \in Builders(tokens) /\ r \in States(tokens)
BY DEF Runs, Builders

\* A piece of code in the same function, or of the top level.
LEMMA BlockRuns ==
  ASSUME NEW tokens, NEW s \in Builders(tokens), NEW r \in Builders(tokens),
         s.failed => r.failed,
         ~r.failed =>
           /\ Extends(Tables(s), Tables(r))
           /\ r.current = s.current /\ r.inFunction = s.inFunction
           /\ \E F \in Codes :
                /\ r.out = s.out \o F
                /\ Regular(Tables(r), F) /\ Open(F) /\ Block(Tables(r), Home(s), F)
  PROVE  Runs(tokens, s, r)
<1>1. s \in States(tokens)
  BY DEF Builders
<1> QED
  BY <1>1, MovesBeside DEF Runs

(* A step that writes no code is a run of the empty block. *)
LEMMA BesideRuns ==
  ASSUME NEW tokens, NEW s \in Builders(tokens), NEW r \in Builders(tokens),
         s.failed => r.failed, ~r.failed => Beside(s, r) /\ r.out = s.out
  PROVE  Runs(tokens, s, r)
<1> SUFFICES ASSUME ~r.failed
             PROVE  /\ Extends(Tables(s), Tables(r))
                    /\ r.current = s.current /\ r.inFunction = s.inFunction
                    /\ \E F \in Codes :
                         /\ r.out = s.out \o F
                         /\ Regular(Tables(r), F) /\ Open(F) /\ Block(Tables(r), Home(s), F)
  BY BlockRuns
<1>1. s.out \in Codes
  BY StateTables DEF Builders
<1>2. <<>> \in Codes /\ s.out \o <<>> = s.out
  BY <1>1 DEF Codes
<1>3. Extends(Tables(s), Tables(r))
  BY BuilderSound, ExtendsSelf DEF Beside
<1>4. Regular(Tables(r), <<>>) /\ Open(<<>>)
  <2>1. Len(<<>>) = 0 /\ \A q \in 1..0 : FALSE
    OBVIOUS
  <2> QED
    BY <2>1, Zenon DEF Regular, Open
<1> QED
  BY <1>2, <1>3, <1>4, BlockEmpty DEF Beside

(* Two statements in turn are one run. *)
LEMMA RunsThen ==
  ASSUME NEW tokens, NEW s \in Builders(tokens), NEW m, NEW r,
         Runs(tokens, s, m), Runs(tokens, m, r)
  PROVE  Runs(tokens, s, r)
<1>1. /\ r \in Builders(tokens) /\ m \in Builders(tokens) /\ (s.failed => r.failed)
      /\ s \in States(tokens) /\ m \in States(tokens) /\ r \in States(tokens)
  BY DEF Runs, Builders
<1> SUFFICES ASSUME ~r.failed
             PROVE  /\ Extends(Tables(s), Tables(r)) /\ Moves(s, r)
                    /\ \E F \in Codes :
                         /\ r.out = s.out \o F
                         /\ Regular(Tables(r), F) /\ Open(F)
                         /\ r.inFunction = s.inFunction => Block(Tables(r), Home(s), F)
  BY <1>1 DEF Runs
<1>2. ~m.failed /\ ~s.failed
  BY DEF Runs
<1>3. /\ Shaped(Tables(s)) /\ Shaped(Tables(m)) /\ Shaped(Tables(r))
      /\ Home(s) \in 0..Len(Tables(s).names) /\ Home(m) \in 0..Len(Tables(m).names)
  BY <1>1, <1>2, BuilderSound
<1>4. /\ Extends(Tables(s), Tables(m)) /\ Extends(Tables(m), Tables(r))
      /\ Moves(s, m) /\ Moves(m, r)
  BY <1>2 DEF Runs
<1>5. PICK F \in Codes : /\ m.out = s.out \o F
                         /\ Regular(Tables(m), F) /\ Open(F)
                         /\ m.inFunction = s.inFunction => Block(Tables(m), Home(s), F)
  BY <1>2 DEF Runs
<1>6. PICK G \in Codes : /\ r.out = m.out \o G
                         /\ Regular(Tables(r), G) /\ Open(G)
                         /\ r.inFunction = m.inFunction => Block(Tables(r), Home(m), G)
  BY DEF Runs
<1>7. /\ Moves(s, r)
      /\ r.inFunction = s.inFunction => r.inFunction = m.inFunction /\ m.inFunction = s.inFunction
      /\ m.inFunction = s.inFunction => Home(m) = Home(s)
  BY <1>1, <1>4, MovesThen
<1>8. Extends(Tables(s), Tables(r))
  BY <1>3, <1>4, ExtendsThen
<1>9. F \o G \in Codes /\ r.out = s.out \o (F \o G)
  <2>1. s.out \in Codes
    BY <1>1, StateTables
  <2>2. F \o G \in Codes
    BY Joined
  <2>3. (s.out \o F) \o G = s.out \o (F \o G)
    BY <2>1, Regroup
  <2> QED
    BY <1>5, <1>6, <2>2, <2>3
<1>10. Regular(Tables(r), F \o G) /\ Open(F \o G)
  BY <1>3, <1>4, <1>5, <1>6, RegularKept, RegularConcat, OpenConcat
<1>11. ASSUME r.inFunction = s.inFunction PROVE Block(Tables(r), Home(s), F \o G)
  <2>1. r.inFunction = m.inFunction /\ m.inFunction = s.inFunction /\ Home(m) = Home(s)
    BY <1>7, <1>11
  <2>2. Block(Tables(r), Home(s), F)
    BY <1>3, <1>4, <1>5, <2>1, BlockKept
  <2>3. Block(Tables(r), Home(s), G)
    BY <1>6, <2>1
  <2> QED
    BY <2>2, <2>3, BlockConcat
<1> QED
  BY <1>7, <1>8, <1>9, <1>10, <1>11

\* A load that ends a piece for one operand is all of it.
LEMMA LoadAlone ==
  ASSUME NEW T, NEW c, NEW G \in Codes, Line(T, c, G, 0, 1)
  PROVE  /\ Len(G) > 0 /\ Last(G) \in Instruction
         /\ Last(G).op \in {"Load", "LoadLocal"} =>
              Front(G) = <<>> /\ Resolved(T, c, Last(G))
<1>1. PICK g \in [0..Len(G) -> Nat] :
        g[0] = 0 /\ g[Len(G)] = 1 /\ \A q \in 1..Len(G) : LineStep(T, c, G, g, q)
  BY DEF Line
<1>2. Len(G) \in Nat /\ Len(G) > 0
  BY <1>1, LenProperties DEF Codes
<1>3. Last(G) = G[Len(G)] /\ Last(G) \in Instruction
  BY <1>2, ElementOfSeq DEF Last, Codes
<1>4. ASSUME Last(G).op \in {"Load", "LoadLocal"}
      PROVE  Front(G) = <<>> /\ Resolved(T, c, Last(G))
  <2> DEFINE n == Len(G)
  <2>1. LineStep(T, c, G, g, n) /\ n \in 1..n /\ n - 1 \in 0..n
    BY <1>1, <1>2
  <2>2. TakesBy(T, G, n) = 0 /\ Given(G[n].op) = 1
    BY <1>3, <1>4 DEF TakesBy, Taken, Given, LineOps, BinaryOps, UnaryOps
  <2>3. g[n] = g[n - 1] - 0 + 1 /\ g[n - 1] \in Nat /\ g[n] = 1
    BY <1>1, <2>1, <2>2 DEF LineStep, Left
  <2>4. n = 1
    <3>1. SUFFICES ASSUME n - 1 \in 1..n PROVE FALSE
      BY <1>2
    <3>2. g[n - 1] >= 1
      BY <1>1, <3>1 DEF LineStep
    <3> QED
      BY <2>3, <3>2
  <2>5. Front(G) = SubSeq(G, 1, 0)
    BY <2>4 DEF Front
  <2>6. Front(G) = <<>>
    BY <2>5, SubSeqEmpty DEF Codes
  <2> QED
    BY <1>3, <2>1, <2>6 DEF LineStep, Sensible
<1> QED
  BY <1>2, <1>3, <1>4

(* The one instruction that ends a statement is regular. *)
LEMMA StoredRegular ==
  ASSUME NEW T, NEW i \in Instruction, i.op \in {"Store", "StoreLocal", "Pop", "Return"}
  PROVE  <<i>> \in Codes /\ Regular(T, <<i>>) /\ Open(<<i>>)
<1>1. <<i>> \in Codes /\ Len(<<i>>) = 1 /\ <<i>>[1] = i
  BY DEF Codes
<1>2. \A q \in 1..1 : q = 1
  OBVIOUS
<1> QED
  BY <1>1, <1>2 DEF Regular, Open, Jumps

\* An expression and the instruction that takes its value.
LEMMA LineThenRegular ==
  ASSUME NEW T, NEW c, NEW F \in Codes, Shaped(T), Line(T, c, F, 0, 1),
         NEW i \in Instruction, i.op \in {"Store", "StoreLocal", "Pop", "Return"},
         Resolved(T, c, i), i.op = "Return" => c # 0
  PROVE  LET H == F \o <<i>>
         IN  H \in Codes /\ Regular(T, H) /\ Open(H) /\ Block(T, c, H)
<1>1. F \o <<i>> \in Codes /\ Block(T, c, F \o <<i>>)
  BY LineThen
<1>2. Regular(T, F) /\ Open(F)
  BY LineRegular
<1>3. <<i>> \in Codes /\ Regular(T, <<i>>) /\ Open(<<i>>)
  BY StoredRegular
<1> QED
  BY <1>1, <1>2, <1>3, RegularConcat, OpenConcat

\* The code of an expression and what was there before it.
LEMMA ExpressionOnlyRuns ==
  ASSUME NEW tokens, NEW s \in Builders(tokens), NEW left,
         Evaluates(tokens, [s EXCEPT !.out = <<>>], left, 0, 1)
  PROVE  Runs(tokens, s, ExpressionOnly(left, s.out))
<1> DEFINE e == [s EXCEPT !.out = <<>>]
           pop == Instr("Pop", NoArg)
           X == IF left.inFunction THEN <<pop>> ELSE <<>>
           H == (s.out \o left.out) \o X
           r == [left EXCEPT !.out = H]
<1>1. e \in Builders(tokens) /\ Beside(s, e) /\ e.out = <<>> /\ e.failed = s.failed
  <2>1. <<>> \in Codes
    BY DEF Codes
  <2> QED
    BY <2>1, WrittenState
<1> HIDE DEF e
<1>2. left \in Builders(tokens) /\ left \in States(tokens)
  BY EvaluatesBuilder DEF e
<1>3. s.out \in Codes /\ left.out \in Codes /\ left.inFunction \in BOOLEAN
  BY <1>2, StateTables DEF Builders
<1>4. pop \in Instruction /\ pop.op = "Pop" /\ X \in Codes
  <2>1. pop \in Instruction /\ pop.op = "Pop"
    BY DEF Instr, Instruction, OpCodes, UnsupportedOps, NoArg
  <2> HIDE DEF pop
  <2>2. <<pop>> \in Codes /\ <<>> \in Codes
    BY <2>1 DEF Codes
  <2> QED
    BY <2>1, <2>2
<1> HIDE DEF pop, X
<1>5. H \in Codes
  BY <1>3, <1>4, Joined
<1>6. ExpressionOnly(left, s.out) = r
  BY <1>2 DEF ExpressionOnly, X, pop, States
<1> HIDE DEF H
<1>7. r \in Builders(tokens) /\ Beside(left, r) /\ r.out = H /\ r.failed = left.failed
  BY <1>2, <1>5, WrittenState
<1> HIDE DEF r
<1>8. ASSUME ~r.failed
      PROVE  /\ Extends(Tables(s), Tables(r))
             /\ r.current = s.current /\ r.inFunction = s.inFunction
             /\ \E F \in Codes :
                  /\ r.out = s.out \o F
                  /\ Regular(Tables(r), F) /\ Open(F) /\ Block(Tables(r), Home(s), F)
  <2>1. ~left.failed
    BY <1>7, <1>8
  <2>2. /\ Extends(Tables(e), Tables(left))
        /\ left.current = e.current /\ left.inFunction = e.inFunction
    BY <2>1 DEF Evaluates, e
  <2>3. PICK F \in Codes : left.out = e.out \o F /\ Line(Tables(left), Home(e), F, 0, 1)
    BY <2>1 DEF Evaluates, e
  <2>4. left.out = F
    BY <1>1, <2>3 DEF Codes
  <2>5. /\ Tables(e) = Tables(s) /\ Home(e) = Home(s) /\ Tables(r) = Tables(left)
        /\ r.current = s.current /\ r.inFunction = s.inFunction /\ left.inFunction = s.inFunction
    BY <1>1, <1>7, <2>2 DEF Beside, Home
  <2>6. Shaped(Tables(left)) /\ (Home(s) # 0 <=> s.inFunction)
    BY <1>1, <1>2, <1>7, <2>1, <2>5, BuilderSound DEF Evaluates, e
  <2>7. r.out = s.out \o (F \o X) /\ F \o X \in Codes
    <3>1. (s.out \o F) \o X = s.out \o (F \o X)
      BY <1>3, <1>4, Regroup
    <3>2. F \o X \in Codes
      BY <1>4, Joined
    <3> QED
      BY <1>7, <2>4, <3>1, <3>2 DEF H
  <2>8. Regular(Tables(left), F \o X) /\ Open(F \o X) /\ Block(Tables(left), Home(s), F \o X)
    <3>1. CASE s.inFunction
      <4>1. X = <<pop>>
        BY <2>5, <3>1 DEF X
      <4>2. Resolved(Tables(left), Home(s), pop)
        BY <1>4 DEF Resolved
      <4> QED
        BY <1>4, <2>3, <2>5, <2>6, <4>1, <4>2, LineThenRegular
    <3>2. CASE ~s.inFunction
      <4>1. F \o X = F /\ Home(s) = 0
        BY <2>5, <2>6, <3>2 DEF X, Codes
      <4> QED
        BY <2>3, <2>5, <2>6, <4>1, LineRegular, LineAlone
    <3> QED
      BY <3>1, <3>2
  <2> QED
    BY <2>2, <2>5, <2>7, <2>8
<1>9. s.failed => r.failed
  BY <1>1, <1>7 DEF Evaluates, e
<1> QED
  BY <1>6, <1>7, <1>8, <1>9, BlockRuns

(* An assignment turns the load of its left side into a store, and is a block. *)
LEMMA AssignmentRuns ==
  ASSUME NEW tokens, NEW p, Calculates(tokens, p), NEW s \in Builders(tokens), NEW left,
         ~left.failed, Evaluates(tokens, [s EXCEPT !.out = <<>>], left, 0, 1)
  PROVE  LET y == Advanced([left EXCEPT !.out = s.out])
         IN  Runs(tokens, s, Assignment(p[<<"Expression", y, Loosest>>], left))
<1> DEFINE e == [s EXCEPT !.out = <<>>]
           x == [left EXCEPT !.out = s.out]
           y == Advanced(x)
           right == p[<<"Expression", y, Loosest>>]
           G == left.out
           store == Instr(AsStore[Last(G).op], Last(G).arg)
           W == (right.out \o Front(G)) \o <<store>>
           r == [right EXCEPT !.out = W]
           a == Assignment(right, left)
<1>1. e \in Builders(tokens) /\ Beside(s, e) /\ e.out = <<>> /\ e.failed = s.failed
  <2>1. <<>> \in Codes
    BY DEF Codes
  <2> QED
    BY <2>1, WrittenState
<1> HIDE DEF e
<1>2. left \in Builders(tokens) /\ left \in States(tokens)
  BY EvaluatesBuilder DEF e
<1>3. s.out \in Codes /\ G \in Codes
  BY <1>2, StateTables DEF Builders
<1>4. x \in Builders(tokens) /\ Beside(left, x) /\ x.out = s.out /\ x.failed = left.failed
  BY <1>2, <1>3, WrittenState
<1> HIDE DEF x
<1>5. y \in Builders(tokens) /\ Beside(x, y) /\ y.out = s.out /\ y.failed = left.failed
  BY <1>4, AdvancedState
<1> HIDE DEF y
<1>6. Evaluates(tokens, y, right, 0, 1) /\ right \in Builders(tokens) /\ right \in States(tokens)
  BY <1>5, Levels, EvaluatesBuilder DEF Calculates
<1> HIDE DEF right, G
<1>7. /\ Extends(Tables(e), Tables(left)) /\ ~e.failed
      /\ left.current = e.current /\ left.inFunction = e.inFunction
  BY DEF Evaluates, e
<1>8. Line(Tables(left), Home(e), G, 0, 1)
  <2>1. PICK F \in Codes : left.out = e.out \o F /\ Line(Tables(left), Home(e), F, 0, 1)
    BY DEF Evaluates, e
  <2>2. G = F
    BY <1>1, <2>1 DEF G, Codes
  <2> QED
    BY <2>1, <2>2
<1>9. DOMAIN AsStore = {"Load", "LoadLocal"}
  BY DEF AsStore
<1>10. /\ Last(G) \in Instruction
       /\ Last(G).op \in {"Load", "LoadLocal"} =>
            Front(G) = <<>> /\ Resolved(Tables(left), Home(e), Last(G))
  BY <1>3, <1>8, LoadAlone
<1>11. CASE right.failed \/ Last(G).op \notin DOMAIN AsStore
  <2>1. a = Fail(right)
    BY <1>11 DEF Assignment, G
  <2> QED
    BY <1>6, <2>1, FailRuns DEF right, y, x
<1>12. CASE ~right.failed /\ Last(G).op \in DOMAIN AsStore
  <2>1. a = r
    BY <1>6, <1>12 DEF Assignment, G, States
  <2>2. store \in Instruction /\ store.op \in {"Store", "StoreLocal"} /\ store.arg = Last(G).arg
        /\ (store.op = "Store" => Last(G).op = "Load")
        /\ (store.op = "StoreLocal" => Last(G).op = "LoadLocal")
    BY <1>9, <1>10, <1>12 DEF AsStore, Instr, Instruction, OpCodes
  <2> HIDE DEF store
  <2>3. /\ right.out \in Codes /\ <<store>> \in Codes
    BY <1>6, <2>2, StateTables DEF Codes
  <2>4. (right.out \o Front(G)) \o <<store>> = right.out \o <<store>>
    BY <1>9, <1>10, <1>12, <2>3 DEF Codes
  <2>5. right.out \o <<store>> \in Codes
    BY <2>3, Joined
  <2>6. /\ r \in Builders(tokens) /\ Beside(right, r)
        /\ r.out = right.out \o <<store>> /\ r.failed = right.failed
    <3>1. W = right.out \o <<store>>
      BY <2>4
    <3>2. W \in Codes
      BY <2>4, <2>5
    <3>3. right \in Builders(tokens)
      BY <1>6
    <3> HIDE DEF W
    <3>4. /\ r \in Builders(tokens) /\ Beside(right, r)
          /\ r.out = W /\ r.failed = right.failed
      BY ONLY <3>2, <3>3, WrittenState, ZenonT(60)
    <3> QED
      BY ONLY <3>1, <3>4, Zenon
  <2> HIDE DEF r, a
  <2>7. /\ Extends(Tables(y), Tables(right))
        /\ right.current = y.current /\ right.inFunction = y.inFunction
    BY <1>6, <1>12 DEF Evaluates
  <2>8. PICK F \in Codes : right.out = y.out \o F /\ Line(Tables(right), Home(y), F, 0, 1)
    BY <1>6, <1>12 DEF Evaluates
  <2>9. /\ Tables(y) = Tables(left) /\ Tables(e) = Tables(s) /\ Tables(r) = Tables(right)
        /\ Home(e) = Home(s) /\ Home(y) = Home(s)
        /\ r.current = s.current /\ r.inFunction = s.inFunction
    BY <1>1, <1>4, <1>5, <1>7, <2>6, <2>7 DEF Beside, Home
  <2>10. /\ Shaped(Tables(s)) /\ Shaped(Tables(left)) /\ Shaped(Tables(right))
         /\ Home(s) \in 0..Len(Tables(s).names)
    BY <1>1, <1>2, <1>6, <1>7, <1>12, BuilderSound
  <2>11. Extends(Tables(s), Tables(right)) /\ Extends(Tables(left), Tables(right))
    BY <1>7, <2>7, <2>9, <2>10, ExtendsThen
  <2>12. Resolved(Tables(right), Home(s), store)
    <3>1. Home(s) \in 0..Len(Tables(left).names)
      BY <1>7, <2>9, <2>10, TablesLengths DEF Extends, Keeps
    <3>l. <<Last(G)>> \in Codes
      <4> PICK i \in Instruction : i = Last(G)
        BY <1>10
      <4>1. <<i>> \in Codes
        BY DEF Codes
      <4> QED
        BY <4>1
    <3> PICK L \in Codes : L = <<Last(G)>>
      BY <3>l
    <3>2. Len(L) = 1 /\ L[1] = Last(G)
      OBVIOUS
    <3>3. Last(G).op # "Call" /\ Resolved(Tables(left), Home(s), L[1])
      BY <1>9, <1>10, <1>12, <2>9, <3>2
    <3> PICK o \in 1..Len(L) : o = 1
      BY <3>2
    <3>4. Sensible(Tables(left), Home(s), L, o)
      BY <3>2, <3>3 DEF Sensible, CallsKnown
    <3>5. Sensible(Tables(right), Home(s), L, o)
      BY <2>10, <2>11, <3>1, <3>4, SensibleKept
    <3> QED
      BY <2>2, <3>2, <3>5 DEF Sensible, Resolved
  <2>13. /\ F \o <<store>> \in Codes /\ Regular(Tables(right), F \o <<store>>)
         /\ Open(F \o <<store>>) /\ Block(Tables(right), Home(s), F \o <<store>>)
    BY <2>2, <2>8, <2>9, <2>10, <2>12, LineThenRegular
  <2>14. r.out = s.out \o (F \o <<store>>)
    <3>1. (s.out \o F) \o <<store>> = s.out \o (F \o <<store>>)
      BY <1>3, <2>3, Regroup
    <3> QED
      BY <1>5, <2>6, <2>8, <3>1
  <2>15. Runs(tokens, s, r)
    <3>1. ~s.failed
      BY <1>1, <1>7
    <3>2. \E H \in Codes :
                  /\ r.out = s.out \o H
                  /\ Regular(Tables(r), H) /\ Open(H) /\ Block(Tables(r), Home(s), H)
      BY <2>9, <2>13, <2>14
    <3> QED
      BY <2>6, <2>9, <2>11, <3>1, <3>2, BlockRuns
  <2> QED
    BY <2>1, <2>15 DEF a, right, y, x
<1> QED
  BY <1>11, <1>12

(* An expression statement, call or assignment, is a block. *)
LEMMA ExprStatementRuns ==
  ASSUME NEW tokens, NEW p, Calculates(tokens, p), NEW s \in Builders(tokens)
  PROVE  Runs(tokens, s, ExprStatement(p, s))
<1> DEFINE e == [s EXCEPT !.out = <<>>]
           left == p[<<"Expression", e, Loosest>>]
<1>1. e \in Builders(tokens)
  <2>1. <<>> \in Codes
    BY DEF Codes
  <2> QED
    BY <2>1, WrittenState
<1>2. Evaluates(tokens, e, left, 0, 1)
  BY <1>1, Levels DEF Calculates
<1>3. left \in States(tokens)
  BY <1>2, EvaluatesBuilder
<1>4. ExprStatement(p, s) = AfterLeft(p, left, s.out)
  BY DEF ExprStatement
<1> HIDE DEF left
<1>5. CASE Code(left) = "Assign"
  <2>1. ~left.failed
    BY <1>5 DEF Code
  <2> QED
    BY <1>2, <1>4, <1>5, <2>1, AssignmentRuns DEF AfterLeft
<1>6. CASE Code(left) # "Assign"
  <2>1. ExprStatement(p, s) = ExpressionOnly(left, s.out)
    BY <1>4, <1>6 DEF AfterLeft
  <2> QED
    BY <1>2, <2>1, ExpressionOnlyRuns
<1> QED
  BY <1>5, <1>6

(* The flag of let says nothing about the code. *)
LEMMA InDefinitionState ==
  ASSUME NEW tokens, NEW s \in Builders(tokens), NEW b \in BOOLEAN
  PROVE  LET r == [s EXCEPT !.inDefinition = b]
         IN  /\ r \in Builders(tokens) /\ Beside(s, r)
             /\ r.out = s.out /\ r.failed = s.failed
<1> DEFINE r == [s EXCEPT !.inDefinition = b]
<1>1. r \in States(tokens)
  BY DEF Builders, States
<1>2. Beside(s, r) /\ r.out = s.out /\ r.failed = s.failed
  BY DEF Builders, States, Beside, Tables
<1> HIDE DEF r
<1>3. r \in Builders(tokens)
  BY <1>1, <1>2, BesideBuilder
<1> QED
  BY <1>2, <1>3 DEF r

(* A let statement is a block. *)
LEMMA LetStatementRuns ==
  ASSUME NEW tokens, NEW p, Calculates(tokens, p), NEW s \in Builders(tokens)
  PROVE  Runs(tokens, s, LetStatement(p, s))
<1> PICK yes \in BOOLEAN, no \in BOOLEAN : yes = TRUE /\ no = FALSE
  OBVIOUS
<1> DEFINE x == Advanced(s)
           y == [x EXCEPT !.inDefinition = yes]
           z == ExprStatement(p, y)
           r == [z EXCEPT !.inDefinition = no]
<1>1. /\ x \in Builders(tokens) /\ Beside(s, x) /\ x.out = s.out /\ x.failed = s.failed
  BY AdvancedState
<1> HIDE DEF x
<1>2. /\ y \in Builders(tokens) /\ Beside(x, y) /\ y.out = x.out /\ y.failed = x.failed
  BY <1>1, InDefinitionState
<1> HIDE DEF y
<1>3. Runs(tokens, y, z) /\ z \in Builders(tokens)
  BY <1>2, ExprStatementRuns, RunsBuilder
<1> HIDE DEF z
<1>4. /\ r \in Builders(tokens) /\ Beside(z, r) /\ r.out = z.out /\ r.failed = z.failed
  BY <1>3, InDefinitionState
<1>5. LetStatement(p, s) = r
  BY DEF LetStatement, r, z, y, x
<1> HIDE DEF r
<1>6. Runs(tokens, s, y)
  BY <1>1, <1>2, BesideRuns DEF Beside
<1>7. Runs(tokens, z, r)
  BY <1>3, <1>4, BesideRuns
<1> QED
  BY <1>3, <1>5, <1>6, <1>7, RunsThen

(* A return statement is a block, and stands inside a function. *)
LEMMA ReturnStatementRuns ==
  ASSUME NEW tokens, NEW p, Calculates(tokens, p), NEW s \in Builders(tokens)
  PROVE  Runs(tokens, s, ReturnStatement(p, s))
<1> DEFINE e == p[<<"Expression", Advanced(s), Loosest>>]
           i == Instr("Return", NoArg)
           r == Emit(e, "Return", NoArg)
<1>1. CASE ~s.inFunction
  <2>1. ReturnStatement(p, s) = Fail(s) /\ s \in States(tokens)
    BY <1>1 DEF ReturnStatement, Builders
  <2> QED
    BY <2>1, FailRuns
<1>2. CASE s.inFunction
  <2>1. Evaluates(tokens, s, e, 0, 1) /\ e \in Builders(tokens)
    <3> PICK z \in Nat : z = 0
      OBVIOUS
    <3>1. Evaluates(tokens, s, e, z, z + 1)
      BY Levels, NextEvaluates
    <3>2. z = 0 /\ z + 1 = 1
      OBVIOUS
    <3> QED
      BY <3>1, <3>2, EvaluatesBuilder
  <2>2. ReturnStatement(p, s) = r
    BY <1>2 DEF ReturnStatement
  <2>3. i \in Instruction /\ i.op = "Return"
    BY DEF Instr, Instruction, OpCodes, NoArg
  <2> HIDE DEF e
  <2>4. /\ r \in Builders(tokens) /\ Beside(e, r)
        /\ r.out = e.out \o <<i>> /\ r.failed = e.failed
    <3> PICK none : none = NoArg
      OBVIOUS
    <3> QED
      BY <2>1, <2>3, EmitState
  <2> HIDE DEF i, r
  <2>5. ASSUME ~r.failed
        PROVE  /\ Extends(Tables(s), Tables(r))
               /\ r.current = s.current /\ r.inFunction = s.inFunction
               /\ \E F \in Codes :
                    /\ r.out = s.out \o F
                    /\ Regular(Tables(r), F) /\ Open(F) /\ Block(Tables(r), Home(s), F)
    <3>1. ~e.failed /\ ~s.failed
      BY <2>1, <2>4, <2>5 DEF Evaluates
    <3>2. /\ Extends(Tables(s), Tables(e))
          /\ e.current = s.current /\ e.inFunction = s.inFunction
      BY <2>1, <3>1 DEF Evaluates
    <3>3. PICK F \in Codes : e.out = s.out \o F /\ Line(Tables(e), Home(s), F, 0, 1)
      BY <2>1, <3>1 DEF Evaluates
    <3>4. Home(s) # 0 /\ Shaped(Tables(e))
      BY <1>2, <2>1, <3>1, BuilderSound
    <3>5. Resolved(Tables(e), Home(s), i)
      BY <2>3 DEF Resolved
    <3>6. /\ F \o <<i>> \in Codes /\ Regular(Tables(e), F \o <<i>>)
          /\ Open(F \o <<i>>) /\ Block(Tables(e), Home(s), F \o <<i>>)
      BY <2>3, <3>3, <3>4, <3>5, LineThenRegular
    <3>7. r.out = s.out \o (F \o <<i>>)
      <4>1. s.out \in Codes /\ <<i>> \in Codes
        BY <2>3, StateTables DEF Builders, Codes
      <4>2. (s.out \o F) \o <<i>> = s.out \o (F \o <<i>>)
        BY <4>1, Regroup
      <4> QED
        BY <2>4, <3>3, <4>2
    <3> QED
      BY <2>4, <3>2, <3>6, <3>7 DEF Beside
  <2>6. s.failed => r.failed
    BY <2>1, <2>4 DEF Evaluates
  <2> QED
    BY <2>2, <2>4, <2>5, <2>6, BlockRuns
<1> QED
  BY <1>1, <1>2

Reaches(s, r) == Extends(Tables(s), Tables(r)) /\ Moves(s, r)

(* A step beside the tables reaches its state. *)
LEMMA ReachesBeside ==
  ASSUME NEW tokens, NEW s \in Builders(tokens), ~s.failed, NEW r, Beside(s, r)
  PROVE  Reaches(s, r)
<1>1. s \in States(tokens) /\ Extends(Tables(s), Tables(r))
  BY BuilderSound, ExtendsSelf DEF Beside, Builders
<1> QED
  BY <1>1, MovesBeside DEF Beside, Reaches

(* Reaching composes, and home is where one was before. *)
LEMMA ReachesThen ==
  ASSUME NEW tokens, NEW s \in Builders(tokens), NEW m \in Builders(tokens),
         NEW r \in Builders(tokens), ~s.failed, ~m.failed, ~r.failed,
         Reaches(s, m), Reaches(m, r)
  PROVE  /\ Reaches(s, r)
         /\ r.inFunction = s.inFunction => r.inFunction = m.inFunction /\ m.inFunction = s.inFunction
         /\ m.inFunction = s.inFunction => Home(m) = Home(s)
<1>1. s \in States(tokens) /\ m \in States(tokens) /\ r \in States(tokens)
  BY DEF Builders
<1>2. Shaped(Tables(s)) /\ Shaped(Tables(m)) /\ Shaped(Tables(r))
  BY BuilderSound
<1> QED
  BY <1>1, <1>2, MovesThen, ExtendsThen DEF Reaches

(* Expecting a token writes nothing, even when it fails. *)
LEMMA ExpectWritten ==
  ASSUME NEW tokens, NEW s \in Builders(tokens), NEW c
  PROVE  Expect(s, c).out = s.out
<1>1. s \in States(tokens)
  BY DEF Builders
<1> QED
  BY <1>1, AdvancedState DEF Expect, Fail, States

\* The label of a jump that is known once what it jumps over is written.
LEMMA SetGotoLabelState ==
  ASSUME NEW tokens, NEW s \in Builders(tokens), NEW P \in Codes, NEW A \in Codes,
         NEW op, NEW k \in Int, Instr(op, k) \in Instruction,
         s.out = (P \o <<Instr(op, k)>>) \o A, NEW at, at = Len(P \o <<Instr(op, k)>>)
  PROVE  LET r == SetGotoLabel(s, at)
         IN  /\ r \in Builders(tokens) /\ Beside(s, r) /\ r.failed = s.failed
             /\ r.out = (P \o <<Instr(op, Len(A) + 1)>>) \o A
<1>0. s \in States(tokens) /\ Len(A) + 1 \in Int
  BY LenProperties DEF Builders, Codes
<1> PICK v \in Int : v = Len(A) + 1
  BY <1>0
<1> DEFINE i == Instr(op, k)
           j == Instr(op, v)
           D == P \o <<i>>
           H == D \o A
           G == [H EXCEPT ![Len(D)].arg = v]
           I == (P \o <<j>>) \o A
           n == Len(P)
<1>1. /\ i \in Instruction /\ j \in Instruction /\ [i EXCEPT !.arg = v] = j
  BY DEF Instr, Instruction
<1> HIDE DEF i, j
<1>2. /\ <<i>> \in Codes /\ <<j>> \in Codes /\ Len(<<i>>) = 1 /\ Len(<<j>>) = 1
      /\ <<i>>[1] = i /\ <<j>>[1] = j
  BY <1>1 DEF Codes
<1>3. /\ D \in Codes /\ Len(D) = n + 1 /\ n \in Nat /\ D[n + 1] = i
      /\ \A q \in 1..n : D[q] = P[q]
  <2>1. 1 \in 1..Len(<<i>>)
    BY <1>2
  <2> QED
    BY <1>2, <2>1, Joined
<1>4. /\ P \o <<j>> \in Codes /\ Len(P \o <<j>>) = n + 1 /\ (P \o <<j>>)[n + 1] = j
      /\ \A q \in 1..n : (P \o <<j>>)[q] = P[q]
  <2>1. 1 \in 1..Len(<<j>>)
    BY <1>2
  <2> QED
    BY <1>2, <2>1, Joined
<1> HIDE DEF D
<1>5. /\ H \in Codes /\ Len(H) = Len(D) + Len(A) /\ Len(A) \in Nat
      /\ \A q \in 1..Len(D) : H[q] = D[q]
      /\ \A q \in (Len(D) + 1)..(Len(D) + Len(A)) : H[q] = A[q - Len(D)]
  BY <1>3, Joined
<1> PICK K \in Codes : K = P \o <<j>>
  BY <1>4
<1>6. /\ I \in Codes /\ Len(I) = Len(K) + Len(A)
      /\ \A q \in 1..Len(K) : I[q] = K[q]
      /\ \A q \in (Len(K) + 1)..(Len(K) + Len(A)) : I[q] = A[q - Len(K)]
  BY Joined
<1> HIDE DEF H, I
<1>7. Len(D) = n + 1 /\ Len(K) = n + 1 /\ n + 1 \in 1..Len(H) /\ Len(H) = n + 1 + Len(A)
      /\ Len(I) = n + 1 + Len(A)
  BY <1>3, <1>4, <1>5, <1>6
<1>8. H[n + 1] = i
  <2>1. n + 1 \in 1..Len(D)
    BY <1>3
  <2> QED
    BY <1>3, <1>5, <2>1
<1>9. G = [H EXCEPT ![n + 1] = j]
  BY <1>1, <1>7, <1>8
<1>10. /\ [H EXCEPT ![n + 1] = j] \in Codes /\ Len([H EXCEPT ![n + 1] = j]) = Len(H)
       /\ \A q \in 1..Len(H) : [H EXCEPT ![n + 1] = j][q] = IF q = n + 1 THEN j ELSE H[q]
  BY <1>1, <1>5, <1>7, ExceptSeq DEF Codes
<1>11. G \in Codes /\ Len(G) = Len(I)
  BY <1>7, <1>9, <1>10
<1>12. ASSUME NEW q \in 1..Len(I) PROVE G[q] = I[q]
  <2>1. q \in 1..Len(H) /\ q \in 1..(n + 1 + Len(A))
    BY <1>7
  <2>2. G[q] = IF q = n + 1 THEN j ELSE H[q]
    BY <2>1, <1>9, <1>10
  <2>3. CASE q \in 1..n
    <3>1. q \in 1..Len(D) /\ q \in 1..Len(K) /\ q # n + 1
      BY <1>3, <1>7, <2>3
    <3> QED
      BY <2>2, <2>3, <3>1, <1>3, <1>4, <1>5, <1>6
  <2>4. CASE q = n + 1
    <3>1. q \in 1..Len(K)
      BY <1>3, <1>7, <2>4
    <3> QED
      BY <2>2, <2>4, <3>1, <1>4, <1>6
  <2>5. CASE q \in (n + 2)..(n + 1 + Len(A))
    <3>1. /\ q \in (Len(D) + 1)..(Len(D) + Len(A)) /\ q \in (Len(K) + 1)..(Len(K) + Len(A))
          /\ q # n + 1 /\ Len(D) = Len(K)
      BY <1>3, <1>5, <1>7, <2>5
    <3> QED
      BY <2>2, <3>1, <1>5, <1>6
  <2> QED
    BY <1>3, <1>5, <2>1, <2>3, <2>4, <2>5
<1> HIDE DEF G
<1>13. G = I
  BY <1>6, <1>11, <1>12, SeqEqual DEF Codes
<1>14. Len(H) + 1 - Len(D) = Len(A) + 1 /\ Len(A) + 1 \in Int
  BY <1>3, <1>5, <1>7
<1>15. SetGotoLabel(s, at) = [s EXCEPT !.out = G]
  <2>1. s.out = H /\ at = Len(D)
    BY DEF H, D, i
  <2>2. Len(s.out) + 1 - at = v
    BY <1>14, <2>1
  <2>3. SetGotoLabel(s, at) = [s EXCEPT !.out = [s.out EXCEPT ![at].arg = Len(s.out) + 1 - at]]
    BY <1>0 DEF SetGotoLabel, States
  <2> QED
    BY <2>1, <2>2, <2>3 DEF G
<1>16. LET r == [s EXCEPT !.out = I]
       IN  /\ r \in Builders(tokens) /\ Beside(s, r) /\ r.failed = s.failed
           /\ r.out = I
  BY <1>6, WrittenState
<1> QED
  BY <1>13, <1>15, <1>16 DEF I, j

Performs(tokens, p) ==
  \A s \in Builders(tokens) : Runs(tokens, s, p[<<"StatementList", s, 0>>])

(* A forward jump is regular. *)
LEMMA JumpRegular ==
  ASSUME NEW T, NEW op \in Jumps, NEW k \in Nat \ {0}
  PROVE  <<Instr(op, k)>> \in Codes /\ Regular(T, <<Instr(op, k)>>) /\ Open(<<Instr(op, k)>>)
<1> DEFINE i == Instr(op, k)
<1>1. i \in Instruction /\ i.op \in Jumps /\ i.arg > 0
  BY DEF Instr, Instruction, OpCodes, Jumps
<1> HIDE DEF i
<1>2. <<i>> \in Codes /\ Len(<<i>>) = 1 /\ <<i>>[1] = i
  BY <1>1 DEF Codes
<1>3. \A q \in 1..1 : q = 1
  OBVIOUS
<1>4. <<i>> \in Codes /\ Regular(T, <<i>>) /\ Open(<<i>>)
  BY <1>1, <1>2, <1>3 DEF Regular, Open, Jumps
<1> QED
  BY <1>4 DEF i

\* A test E and a branch A are written from s to body; the label is not set.
Begun(tokens, s, body, E, A) ==
  /\ s \in Builders(tokens) /\ ~s.failed
  /\ body \in Builders(tokens) /\ ~body.failed /\ Reaches(s, body)
  /\ body.out = ((s.out \o E) \o <<Instr("JmpIfFalse", NoArg)>>) \o A
  /\ Line(Tables(body), Home(s), E, 0, 1)
  /\ Regular(Tables(body), A) /\ Open(A)
  /\ body.inFunction = s.inFunction => Block(Tables(body), Home(s), A)

(* An if without else, its jump set to the end of its block, is a block. *)
LEMMA ThenOnlyRuns ==
  ASSUME NEW tokens, NEW s, NEW body, NEW E \in Codes, NEW A \in Codes,
         Begun(tokens, s, body, E, A)
  PROVE  LET jump == Len((s.out \o E) \o <<Instr("JmpIfFalse", NoArg)>>)
         IN  Runs(tokens, s, SetGotoLabel(Expect(body, "End"), jump))
<1> DEFINE none == NoArg
           jump == Len((s.out \o E) \o <<Instr("JmpIfFalse", none)>>)
           x == Expect(body, "End")
           r == SetGotoLabel(x, jump)
           P == s.out \o E
           J == <<Instr("JmpIfFalse", Len(A) + 1)>>
           T == Tables(body)
           H == (E \o J) \o A
<1>1. /\ s \in Builders(tokens) /\ ~s.failed /\ s.out \in Codes
      /\ body \in Builders(tokens) /\ ~body.failed /\ Shaped(T)
  BY StateTables, BuilderSound DEF Begun, Builders
<1>2. /\ x \in Builders(tokens) /\ x.out = body.out
      /\ ~x.failed => Beside(body, x)
  BY <1>1, ExpectState, ExpectWritten
<1>3. P \in Codes /\ Instr("JmpIfFalse", none) \in Instruction /\ none \in Int
  BY <1>1, Joined DEF Instr, Instruction, OpCodes, NoArg
<1>4. /\ r \in Builders(tokens) /\ Beside(x, r) /\ r.failed = x.failed
      /\ r.out = (P \o J) \o A
  <2>1. x.out = (P \o <<Instr("JmpIfFalse", none)>>) \o A
    BY <1>2 DEF Begun
  <2> HIDE DEF none, P, x
  <2>2. jump = Len(P \o <<Instr("JmpIfFalse", none)>>)
    BY DEF P
  <2> HIDE DEF jump
  <2> QED
    <3>1. x \in Builders(tokens) /\ P \in Codes /\ A \in Codes
      BY <1>2, <1>3
    <3> HIDE DEF r
    <3>2. r = SetGotoLabel(x, jump)
      BY DEF r
    <3> QED
      BY ONLY <1>3, <2>1, <2>2, <3>1, <3>2, SetGotoLabelState
<1>5. Len(A) + 1 \in Nat \ {0}
  BY LenProperties DEF Codes
<1>6. J \in Codes /\ Regular(T, J) /\ Open(J)
  <2> PICK k \in Nat \ {0} : k = Len(A) + 1
    BY <1>5
  <2>1. <<Instr("JmpIfFalse", k)>> \in Codes /\ Regular(T, <<Instr("JmpIfFalse", k)>>)
        /\ Open(<<Instr("JmpIfFalse", k)>>)
    BY JumpRegular DEF Jumps
  <2> QED
    BY <2>1
<1>7. body.inFunction = s.inFunction => Block(T, Home(s), H)
  <2>1. Line(T, Home(s), E, 0, 1)
    BY DEF Begun
  <2> QED
    BY <1>1, <2>1, BlockIf DEF Begun
<1> HIDE DEF J, r, x
<1>8. H \in Codes /\ Regular(T, H) /\ Open(H)
  <2>1. Regular(T, E) /\ Open(E)
    BY LineRegular DEF Begun
  <2>2. E \o J \in Codes /\ Regular(T, E \o J) /\ Open(E \o J)
    BY <1>6, <2>1, Joined, RegularConcat, OpenConcat
  <2>3. Regular(T, A) /\ Open(A)
    BY DEF Begun
  <2> QED
    BY <2>2, <2>3, Joined, RegularConcat, OpenConcat
<1>9. r.out = s.out \o H
  <2>1. (s.out \o E) \o J = s.out \o (E \o J) /\ E \o J \in Codes
    <3>1. (s.out \o E) \o J = s.out \o (E \o J)
      BY <1>1, <1>6, Regroup
    <3>2. E \o J \in Codes
      BY <1>6, Joined
    <3> QED
      BY <3>1, <3>2
  <2>2. (s.out \o (E \o J)) \o A = s.out \o ((E \o J) \o A)
    BY <1>1, <2>1, Regroup
  <2> QED
    BY <1>4, <2>1, <2>2
<1> HIDE DEF H
<1>10. ASSUME ~r.failed
       PROVE  /\ Extends(Tables(s), Tables(r)) /\ Moves(s, r)
              /\ r.inFunction = s.inFunction => Block(Tables(r), Home(s), H)
              /\ Regular(Tables(r), H)
  <2>1. Tables(r) = T /\ r.current = body.current /\ r.inFunction = body.inFunction
    BY <1>2, <1>4, <1>10 DEF Beside
  <2>2. Reaches(s, body)
    BY DEF Begun
  <2> QED
    BY <1>7, <1>8, <2>1, <2>2 DEF Reaches, Moves
<1>11. Runs(tokens, s, r)
  BY <1>1, <1>4, <1>8, <1>9, <1>10 DEF Runs
<1> QED
  BY <1>11 DEF r, x

\* With another branch, that the first one jumps over.
LEMMA ThenElseRuns ==
  ASSUME NEW tokens, NEW p, Performs(tokens, p), NEW s, NEW body,
         NEW E \in Codes, NEW A \in Codes, Begun(tokens, s, body, E, A)
  PROVE  LET jump == Len((s.out \o E) \o <<Instr("JmpIfFalse", NoArg)>>)
         IN  Runs(tokens, s, ElsePart(p, Emit(body, "Jmp", NoArg), jump))
<1> DEFINE none == NoArg
           jump == Len((s.out \o E) \o <<Instr("JmpIfFalse", none)>>)
           over == Emit(body, "Jmp", none)
           x == SetGotoLabel(over, jump)
           v == Advanced(x)
           w == p[<<"StatementList", v, 0>>]
           z == SetGotoLabel(w, Len(over.out))
           r == Expect(z, "End")
           a == AfterElse(w, Len(over.out))
           P == s.out \o E
           K == <<Instr("Jmp", none)>>
           R == A \o K
           J == <<Instr("JmpIfFalse", Len(R) + 1)>>
           Q == (P \o J) \o A
           T == Tables(body)
<1>1. /\ s \in Builders(tokens) /\ ~s.failed /\ s.out \in Codes
      /\ body \in Builders(tokens) /\ ~body.failed /\ Shaped(T) /\ body.out \in Codes
  BY StateTables, BuilderSound DEF Begun, Builders
<1>2. /\ Instr("JmpIfFalse", none) \in Instruction /\ Instr("Jmp", none) \in Instruction
      /\ none \in Int
  BY DEF Instr, Instruction, OpCodes, NoArg
<1>3. /\ P \in Codes /\ K \in Codes /\ R \in Codes /\ Len(R) = Len(A) + 1 /\ Len(A) \in Nat
      /\ <<Instr("JmpIfFalse", none)>> \in Codes
  <2>1. K \in Codes /\ Len(K) = 1 /\ <<Instr("JmpIfFalse", none)>> \in Codes
    BY <1>2 DEF Codes
  <2> HIDE DEF K
  <2>2. P \in Codes
    BY <1>1, Joined
  <2>3. R \in Codes /\ Len(R) = Len(A) + Len(K) /\ Len(A) \in Nat
    BY <2>1, Joined
  <2> QED
    BY <2>1, <2>2, <2>3
<1>4. /\ over \in Builders(tokens) /\ Beside(body, over) /\ over.failed = body.failed
      /\ over.out = (P \o <<Instr("JmpIfFalse", none)>>) \o R
  <2>1. /\ over \in Builders(tokens) /\ Beside(body, over) /\ over.failed = body.failed
        /\ over.out = body.out \o K
    <3> HIDE DEF none
    <3> QED
      BY <1>1, <1>2, EmitState
  <2>2. body.out = (P \o <<Instr("JmpIfFalse", none)>>) \o A
    BY DEF Begun
  <2> HIDE DEF over, P, K, none
  <2> DEFINE D == P \o <<Instr("JmpIfFalse", none)>>
  <2>3. D \in Codes
    BY <1>3, Joined
  <2> HIDE DEF D
  <2>4. (D \o A) \o K = D \o (A \o K)
    BY <1>3, <2>3, Regroup
  <2> QED
    BY <2>1, <2>2, <2>4 DEF D
<1> HIDE DEF over
<1>5. /\ x \in Builders(tokens) /\ Beside(over, x) /\ x.failed = over.failed
      /\ x.out = (P \o J) \o R
  <2> HIDE DEF none, P, R
  <2>1. jump = Len(P \o <<Instr("JmpIfFalse", none)>>)
    BY DEF P
  <2> HIDE DEF jump
  <2>2. /\ over \in Builders(tokens) /\ P \in Codes /\ R \in Codes /\ none \in Int
        /\ Instr("JmpIfFalse", none) \in Instruction
        /\ over.out = (P \o <<Instr("JmpIfFalse", none)>>) \o R
        /\ jump = Len(P \o <<Instr("JmpIfFalse", none)>>)
    BY <1>2, <1>3, <1>4, <2>1
  <2> QED
    BY ONLY <2>2, SetGotoLabelState
<1> HIDE DEF x
<1>6. v \in Builders(tokens) /\ Beside(body, v) /\ ~v.failed /\ v.out = (P \o J) \o R
  <2>1. v \in Builders(tokens) /\ Beside(x, v) /\ v.out = x.out /\ v.failed = x.failed
    BY <1>5, AdvancedState
  <2> QED
    BY <2>1, <1>1, <1>4, <1>5 DEF Beside
<1> HIDE DEF v
<1>7. Runs(tokens, v, w) /\ w \in Builders(tokens)
  BY <1>6, RunsBuilder DEF Performs
<1>8. ElsePart(p, over, jump) = a
  BY DEF ElsePart, w, v, x
<1> HIDE DEF w
<1>9. CASE w.failed
  <2>1. a = w
    BY <1>9 DEF AfterElse
  <2> QED
    BY <1>1, <1>7, <1>8, <1>9, <2>1 DEF Runs, over
<1>10. CASE ~w.failed
  <2>1. Reaches(v, w) /\ a = r
    BY <1>7, <1>10 DEF Runs, Reaches, AfterElse
  <2>2. PICK B \in Codes : /\ w.out = v.out \o B
                           /\ Regular(Tables(w), B) /\ Open(B)
                           /\ w.inFunction = v.inFunction => Block(Tables(w), Home(v), B)
    BY <1>7, <1>10 DEF Runs
  <2> DEFINE L == <<Instr("Jmp", Len(B) + 1)>>
             S == A \o (L \o B)
             H == (E \o J) \o S
             U == Tables(w)
  <2>3. Len(R) + 1 \in Nat \ {0} /\ Len(B) + 1 \in Nat \ {0} /\ Len(R) + 1 = Len(A) + 2
    BY <1>3, LenProperties DEF Codes
  <2>4. /\ J \in Codes /\ Regular(U, J) /\ Open(J)
        /\ L \in Codes /\ Regular(U, L) /\ Open(L)
    <3> PICK k \in Nat \ {0}, m \in Nat \ {0} : k = Len(R) + 1 /\ m = Len(B) + 1
      BY <2>3
    <3>1. /\ <<Instr("JmpIfFalse", k)>> \in Codes /\ Regular(U, <<Instr("JmpIfFalse", k)>>)
          /\ Open(<<Instr("JmpIfFalse", k)>>)
      BY JumpRegular DEF Jumps
    <3>2. /\ <<Instr("Jmp", m)>> \in Codes /\ Regular(U, <<Instr("Jmp", m)>>)
          /\ Open(<<Instr("Jmp", m)>>)
      BY JumpRegular DEF Jumps
    <3> QED
      BY <3>1, <3>2
  <2>5. J = <<Instr("JmpIfFalse", Len(A) + 2)>>
    BY <2>3
  <2> HIDE DEF J, L, P, K, R
  <2>6. P \o J \in Codes
    BY <1>3, <2>4, Joined
  <2>7. Q \in Codes
    BY <2>6, Joined
  <2>8. (P \o J) \o R = Q \o K
    <3> DEFINE D == P \o J
    <3>1. D \in Codes /\ A \in Codes /\ K \in Codes
      BY <1>3, <2>6
    <3> HIDE DEF D
    <3>2. (D \o A) \o K = D \o (A \o K)
      BY ONLY <3>1, Regroup
    <3> QED
      BY ONLY <3>2 DEF D, Q, R
  <2> HIDE DEF Q
  <2>9. w.out = (Q \o K) \o B /\ Len(over.out) = Len(Q \o K)
    <3>1. Len(over.out) = Len(x.out)
      <4> PICK i \in Instruction, j \in Instruction :
            i = Instr("JmpIfFalse", none) /\ <<j>> = J
        <5>1. Instr("JmpIfFalse", Len(R) + 1) \in Instruction
          BY <2>3 DEF Instr, Instruction, OpCodes
        <5> QED
          BY <1>2, <5>1 DEF J
      <4>1. <<i>> \in Codes /\ <<j>> \in Codes /\ Len(<<i>>) = 1 /\ Len(<<j>>) = 1
        BY DEF Codes
      <4>2. P \o <<i>> \in Codes /\ P \o <<j>> \in Codes /\ Len(P \o <<i>>) = Len(P) + 1
            /\ Len(P \o <<j>>) = Len(P) + 1
        BY <1>3, <4>1, Joined
      <4>3. Len((P \o <<i>>) \o R) = Len(P) + 1 + Len(R) /\ Len((P \o <<j>>) \o R) = Len(P) + 1 + Len(R)
        <5> PICK X \in Codes, Y \in Codes : X = P \o <<i>> /\ Y = P \o <<j>>
          BY <4>2
        <5>1. Len(X \o R) = Len(X) + Len(R) /\ Len(Y \o R) = Len(Y) + Len(R)
          BY <1>3, Joined
        <5> QED
          BY <4>2, <5>1
      <4> QED
        BY <1>4, <1>5, <4>3
    <3>2. v.out = Q \o K
      BY <1>6, <2>8
    <3>3. Len(x.out) = Len(v.out)
      BY <1>5, <1>6
    <3> QED
      BY <2>2, <3>1, <3>2, <3>3
  <2>10. /\ z \in Builders(tokens) /\ Beside(w, z) /\ z.failed = w.failed
         /\ z.out = (Q \o L) \o B
    <3>1. /\ w.out = (Q \o <<Instr("Jmp", none)>>) \o B
          /\ Len(over.out) = Len(Q \o <<Instr("Jmp", none)>>)
      BY <2>9 DEF K
    <3> HIDE DEF none
    <3> PICK at : at = Len(over.out)
      OBVIOUS
    <3>2. LET y == SetGotoLabel(w, at)
          IN  /\ y \in Builders(tokens) /\ Beside(w, y) /\ y.failed = w.failed
              /\ y.out = (Q \o <<Instr("Jmp", Len(B) + 1)>>) \o B
      <4>1. /\ w \in Builders(tokens) /\ Q \in Codes /\ B \in Codes /\ none \in Int
            /\ Instr("Jmp", none) \in Instruction
            /\ w.out = (Q \o <<Instr("Jmp", none)>>) \o B /\ at = Len(Q \o <<Instr("Jmp", none)>>)
        BY <1>2, <1>7, <2>7, <3>1
      <4> QED
        BY ONLY <4>1, SetGotoLabelState
    <3> QED
      BY <3>2 DEF L
  <2> HIDE DEF z
  <2>11. /\ r \in Builders(tokens) /\ r.out = z.out /\ (~r.failed => Beside(z, r))
    BY <2>10, ExpectState, ExpectWritten
  <2> HIDE DEF r
  <2>12. /\ Reaches(s, w) /\ Reaches(body, w)
         /\ w.inFunction = s.inFunction =>
              /\ body.inFunction = s.inFunction /\ w.inFunction = v.inFunction
              /\ Home(v) = Home(s)
    <3>1. Reaches(s, body) /\ Reaches(body, v)
      BY <1>1, <1>6, ReachesBeside DEF Begun
    <3>2. Home(v) = Home(body) /\ v.inFunction = body.inFunction
      BY <1>6 DEF Beside, Home
    <3>3. Reaches(body, w)
      BY <1>1, <1>6, <1>7, <1>10, <2>1, <3>1, ReachesThen
    <3>4. /\ Reaches(s, w)
          /\ w.inFunction = s.inFunction => w.inFunction = body.inFunction /\ body.inFunction = s.inFunction
          /\ body.inFunction = s.inFunction => Home(body) = Home(s)
      BY <1>1, <1>7, <1>10, <3>1, <3>3, ReachesThen
    <3> QED
      BY <3>2, <3>3, <3>4
  <2>13. /\ Shaped(U) /\ Extends(T, U) /\ Home(s) \in 0..Len(T.names)
         /\ Line(U, Home(s), E, 0, 1) /\ Regular(U, A) /\ Open(A)
    <3>1. Shaped(U) /\ Extends(T, U)
      BY <1>7, <1>10, <2>12, BuilderSound DEF Reaches
    <3>2. Home(s) \in 0..Len(T.names)
      <4>1. Home(s) \in 0..Len(Tables(s).names) /\ Shaped(Tables(s))
        BY <1>1, BuilderSound
      <4>2. Extends(Tables(s), T)
        BY DEF Begun, Reaches
      <4> QED
        BY <1>1, <4>1, <4>2, TablesLengths DEF Extends, Keeps
    <3> QED
      BY <1>1, <3>1, <3>2, LineKept, RegularKept DEF Begun
  <2>14. w.inFunction = s.inFunction => Block(U, Home(s), H)
    <3> SUFFICES ASSUME w.inFunction = s.inFunction PROVE Block(U, Home(s), H)
      OBVIOUS
    <3>1. Block(T, Home(s), A) /\ Block(U, Home(s), B)
      <4>1. body.inFunction = s.inFunction /\ w.inFunction = v.inFunction /\ Home(v) = Home(s)
        BY <2>12
      <4>2. Block(T, Home(s), A)
        BY <4>1 DEF Begun
      <4>3. Block(U, Home(v), B)
        <5>1. (w.inFunction = v.inFunction) => Block(U, Home(v), B)
          BY <2>2
        <5> QED
          BY <4>1, <5>1, Zenon
      <4> QED
        BY <4>1, <4>2, <4>3
    <3>2. Block(U, Home(s), A)
      BY <1>1, <2>13, <3>1, BlockKept
    <3> QED
      BY <2>5, <2>13, <3>1, <3>2, BlockIfElse DEF L
  <2>15. L \o B \in Codes /\ Regular(U, L \o B) /\ Open(L \o B)
    <3>1. L \o B \in Codes
      BY <2>4, Joined
    <3>2. L \in Codes /\ B \in Codes /\ Regular(U, L) /\ Regular(U, B) /\ Open(L) /\ Open(B)
      BY <2>2, <2>4
    <3>3. Regular(U, L \o B)
      BY ONLY <3>2, RegularConcat
    <3>4. Open(L \o B)
      BY ONLY <3>2, OpenConcat
    <3> QED
      BY <3>1, <3>3, <3>4
  <2>16. S \in Codes /\ Regular(U, S) /\ Open(S)
    BY <2>13, <2>15, Joined, RegularConcat, OpenConcat
  <2> HIDE DEF S
  <2>17. E \o J \in Codes /\ Regular(U, E \o J) /\ Open(E \o J)
    BY <2>4, <2>13, LineRegular, Joined, RegularConcat, OpenConcat
  <2>18. H \in Codes /\ Regular(U, H) /\ Open(H)
    BY <2>16, <2>17, Joined, RegularConcat, OpenConcat
  <2>19. r.out = s.out \o H
    <3>1. (Q \o L) \o B = Q \o (L \o B)
      BY <2>4, <2>7, Regroup
    <3>2. Q \o (L \o B) = (P \o J) \o S
      BY <2>6, <2>15, Regroup DEF Q, S
    <3>3. (s.out \o E) \o J = s.out \o (E \o J)
      <4>1. s.out \in Codes /\ E \in Codes /\ J \in Codes
        BY <1>1, <2>4
      <4> QED
        BY ONLY <4>1, Regroup
    <3> PICK M \in Codes : M = E \o J
      BY <2>17
    <3>4. s.out \in Codes /\ M \in Codes /\ S \in Codes
      BY <1>1, <2>16
    <3>5. (s.out \o M) \o S = s.out \o (M \o S)
      <4> PICK X \in Codes, Y \in Codes : X = s.out /\ Y = S
        BY <3>4
      <4>1. (X \o M) \o Y = X \o (M \o Y)
        BY ONLY Regroup, X \in Codes, M \in Codes, Y \in Codes
      <4> QED
        BY <4>1
    <3> QED
      BY <2>10, <2>11, <3>1, <3>2, <3>3, <3>5 DEF P, H
  <2> HIDE DEF H
  <2>20. ASSUME ~r.failed
         PROVE  /\ Extends(Tables(s), Tables(r)) /\ Moves(s, r)
                /\ r.inFunction = s.inFunction => Block(Tables(r), Home(s), H)
                /\ Regular(Tables(r), H)
    <3>1. Tables(r) = U /\ r.current = w.current /\ r.inFunction = w.inFunction
      BY <2>10, <2>11, <2>20 DEF Beside
    <3> QED
      BY <2>12, <2>14, <2>18, <3>1 DEF Reaches, Moves
  <2>21. Runs(tokens, s, r)
    BY <1>1, <2>11, <2>18, <2>19, <2>20 DEF Runs
  <2> QED
    BY <1>8, <2>1, <2>21 DEF over
<1> QED
  BY <1>9, <1>10

(* An if statement is a block, whichever parts it has. *)
LEMMA IfStatementRuns ==
  ASSUME NEW tokens, NEW p, Calculates(tokens, p), Performs(tokens, p),
         NEW s \in Builders(tokens)
  PROVE  Runs(tokens, s, IfStatement(p, s))
<1> DEFINE none == NoArg
           e == p[<<"Expression", Advanced(s), Loosest>>]
           t == Emit(e, "JmpIfFalse", none)
           u == Expect(t, "Then")
           body == p[<<"StatementList", u, 0>>]
           at == Len(t.out)
           J == <<Instr("JmpIfFalse", none)>>
           r == AfterThen(p, body, at)
<1>1. IfStatement(p, s) = r
  BY DEF IfStatement, ThenPart
<1>2. Evaluates(tokens, s, e, 0, 1) /\ e \in Builders(tokens)
  <2> PICK z \in Nat : z = 0
    OBVIOUS
  <2>1. Evaluates(tokens, s, e, z, z + 1)
    BY Levels, NextEvaluates
  <2>2. z = 0 /\ z + 1 = 1
    OBVIOUS
  <2> QED
    BY <2>1, <2>2, EvaluatesBuilder
<1> HIDE DEF e
<1>3. /\ t \in Builders(tokens) /\ Beside(e, t)
      /\ t.out = e.out \o J /\ t.failed = e.failed
  <2>1. Instr("JmpIfFalse", none) \in Instruction
    BY DEF Instr, Instruction, OpCodes, NoArg
  <2> HIDE DEF none
  <2> QED
    BY <1>2, <2>1, EmitState
<1>4. J \in Codes
  BY DEF Instr, Instruction, OpCodes, NoArg, Codes
<1> HIDE DEF t
<1>5. /\ u \in Builders(tokens) /\ (t.failed => u.failed) /\ u.out = t.out
      /\ ~u.failed => Beside(t, u)
  BY <1>3, ExpectState, ExpectWritten
<1> HIDE DEF u
<1>6. Runs(tokens, u, body) /\ body \in Builders(tokens) /\ body \in States(tokens)
  BY <1>5, RunsBuilder DEF Performs
<1> HIDE DEF body
<1>7. CASE body.failed
  <2>1. r = body
    BY <1>7 DEF AfterThen, Code
  <2> QED
    BY <1>1, <1>6, <1>7, <2>1 DEF Runs
<1>8. CASE ~body.failed
  <2>1. ~u.failed /\ ~t.failed /\ ~e.failed /\ ~s.failed
    BY <1>2, <1>3, <1>5, <1>6, <1>8 DEF Runs, Evaluates
  <2>2. PICK E \in Codes : e.out = s.out \o E /\ Line(Tables(e), Home(s), E, 0, 1)
    BY <1>2, <2>1 DEF Evaluates
  <2>3. PICK A \in Codes : /\ body.out = u.out \o A
                           /\ Regular(Tables(body), A) /\ Open(A)
                           /\ body.inFunction = u.inFunction => Block(Tables(body), Home(u), A)
    BY <1>6, <1>8 DEF Runs
  <2>4. /\ Extends(Tables(s), Tables(e)) /\ e.current = s.current /\ e.inFunction = s.inFunction
        /\ Reaches(s, e)
    <3>1. Extends(Tables(s), Tables(e)) /\ e.current = s.current /\ e.inFunction = s.inFunction
      BY <1>2, <2>1 DEF Evaluates
    <3>2. Moves(s, e)
      BY <3>1, MovesBeside DEF Builders
    <3> QED
      BY <3>1, <3>2 DEF Reaches
  <2>5. /\ Reaches(e, u) /\ Tables(u) = Tables(e) /\ Home(u) = Home(s)
        /\ u.inFunction = s.inFunction
    <3>1. Beside(e, u)
      BY <1>3, <1>5, <2>1 DEF Beside
    <3>2. Reaches(e, u)
      BY <1>2, <2>1, <3>1, ReachesBeside
    <3> QED
      BY <2>4, <3>1, <3>2 DEF Beside, Home
  <2>6. Reaches(u, body)
    BY <1>6, <1>8 DEF Runs, Reaches
  <2>7. Reaches(s, body)
    <3>1. Reaches(s, u)
      BY <1>2, <1>5, <2>1, <2>4, <2>5, ReachesThen
    <3> QED
      BY <1>5, <1>6, <1>8, <2>1, <2>6, <3>1, ReachesThen
  <2>8. Line(Tables(body), Home(s), E, 0, 1)
    <3>1. Shaped(Tables(e)) /\ Home(e) \in 0..Len(Tables(e).names) /\ Home(e) = Home(s)
      BY <1>2, <2>1, <2>4, BuilderSound DEF Home
    <3>2. Shaped(Tables(body)) /\ Extends(Tables(e), Tables(body))
      BY <1>6, <1>8, <2>5, <2>6, BuilderSound DEF Reaches
    <3> QED
      BY <2>2, <3>1, <3>2, LineKept
  <2>9. body.out = ((s.out \o E) \o J) \o A /\ at = Len((s.out \o E) \o J)
    BY <1>3, <1>5, <2>2, <2>3
  <2>10. body.inFunction = s.inFunction => Block(Tables(body), Home(s), A)
    BY <2>3, <2>5, Zenon
  <2>11. Begun(tokens, s, body, E, A)
    BY <1>6, <1>8, <2>1, <2>3, <2>7, <2>8, <2>9, <2>10 DEF Begun
  <2> DEFINE over == Emit(body, "Jmp", none)
  <2>12. CASE Code(body) = "Else"
    <3>1. r = ElsePart(p, over, at)
      BY <1>8, <2>12 DEF AfterThen
    <3>2. Runs(tokens, s, ElsePart(p, over, at))
      BY <2>9, <2>11, ThenElseRuns
    <3> QED
      BY <1>1, <3>1, <3>2
  <2>13. CASE Code(body) # "Else"
    <3>1. r = SetGotoLabel(Expect(body, "End"), at)
      BY <1>8, <2>13 DEF AfterThen
    <3>2. Runs(tokens, s, SetGotoLabel(Expect(body, "End"), at))
      BY <2>9, <2>11, ThenOnlyRuns
    <3> QED
      BY <1>1, <3>1, <3>2
  <2> QED
    BY <2>12, <2>13
<1> QED
  BY <1>7, <1>8

-----------------------------------------------------------------------------
(* Parameters: the function that is being declared grows, the others stay.  *)

Declaring(s) == s.failed \/ (Shaped(Tables(s)) /\ s.current \in 1..Len(s.names))
Declares(tokens, s, r) ==
  /\ r \in States(tokens)
  /\ s.failed => r.failed
  /\ ~r.failed =>
       /\ Shaped(Tables(r))
       /\ r.names = s.names /\ r.isFunction = s.isFunction /\ r.constants = s.constants
       /\ r.current = s.current /\ r.inFunction = s.inFunction /\ r.out = s.out
       /\ \A f \in 1..Len(s.names) : f # s.current => r.functions[f] = s.functions[f]
       /\ r.functions[s.current].code = s.functions[s.current].code
ReadsParameters(tokens, p) ==
  \A s \in States(tokens), n \in Nat :
    Declaring(s) => Declares(tokens, s, p[<<"ParameterList", s, n>>])

(* Declarations compose. *)
LEMMA DeclaresThen ==
  ASSUME NEW tokens, NEW s \in States(tokens), NEW m, NEW r, Declares(tokens, s, m),
         Declares(tokens, m, r)
  PROVE  Declares(tokens, s, r)
<1>1. r \in States(tokens) /\ (s.failed => r.failed)
  BY StateTables DEF Declares
<1>2. ASSUME ~r.failed
      PROVE  /\ Shaped(Tables(r))
             /\ r.names = s.names /\ r.isFunction = s.isFunction /\ r.constants = s.constants
             /\ r.current = s.current /\ r.inFunction = s.inFunction /\ r.out = s.out
             /\ \A f \in 1..Len(s.names) : f # s.current => r.functions[f] = s.functions[f]
             /\ r.functions[s.current].code = s.functions[s.current].code
  <2>1. ~m.failed
    BY <1>2, StateTables DEF Declares
  <2>2. m.names = s.names /\ m.current = s.current
    BY <2>1 DEF Declares
  <2>3. \A f \in 1..Len(s.names) : f # s.current => r.functions[f] = s.functions[f]
    BY <1>2, <2>1, <2>2 DEF Declares
  <2> QED
    BY <1>2, <2>1, <2>2, <2>3 DEF Declares
<1> QED
  BY <1>1, <1>2 DEF Declares

(* After a declaration the function being declared is still the current one. *)
LEMMA StillDeclaring ==
  ASSUME NEW tokens, NEW s \in States(tokens), Declaring(s), NEW m, Declares(tokens, s, m)
  PROVE  Declaring(m) /\ m \in States(tokens)
<1>1. CASE m.failed
  BY <1>1 DEF Declaring, Declares
<1>2. CASE ~m.failed
  BY <1>2, StateTables DEF Declaring, Declares
<1> QED
  BY <1>1, <1>2, StateTables DEF Declares

(* A failed builder declares anything. *)
LEMMA FailDeclares ==
  ASSUME NEW tokens, NEW s \in States(tokens)
  PROVE  Declares(tokens, s, Fail(s))
BY FailState DEF Declares, Builders

(* Taking a token declares nothing. *)
LEMMA AdvancedDeclares ==
  ASSUME NEW tokens, NEW s \in States(tokens), Declaring(s)
  PROVE  Declares(tokens, s, Advanced(s))
<1> DEFINE r == Advanced(s)
<1>1. r \in States(tokens)
  <2>1. s.pos + 1 \in Nat \ {0}
    BY DEF States
  <2> QED
    BY <2>1 DEF States, Advanced
<1>2. /\ r.names = s.names /\ r.isFunction = s.isFunction /\ r.constants = s.constants
      /\ r.current = s.current /\ r.inFunction = s.inFunction /\ r.out = s.out
      /\ r.functions = s.functions /\ r.failed = s.failed
  BY DEF States, Advanced
<1>3. Tables(r) = Tables(s)
  BY <1>2 DEF Tables
<1> HIDE DEF r
<1>4. s.failed \in BOOLEAN /\ r.failed \in BOOLEAN
  BY <1>1, StateTables
<1>5. ASSUME s.failed PROVE Declares(tokens, s, r)
  BY <1>1, <1>2, <1>4, <1>5 DEF Declares
<1>6. ASSUME ~s.failed PROVE Declares(tokens, s, r)
  <2>1. ~r.failed /\ Shaped(Tables(r))
    BY <1>2, <1>3, <1>4, <1>6 DEF Declaring
  <2> QED
    BY <1>1, <1>2, <1>6, <2>1 DEF Declares
<1> QED
  BY <1>4, <1>5, <1>6 DEF r

Becomes(s, g) == [s EXCEPT !.functions = [s.functions EXCEPT ![s.current] = g]]

(* Changing the header of the current function leaves all codes alone. *)
LEMMA BecomesDeclares ==
  ASSUME NEW tokens, NEW s \in States(tokens), ~s.failed, Declaring(s),
         NEW g \in UserFunctions, g.code = s.functions[s.current].code
  PROVE  Declares(tokens, s, Becomes(s, g)) /\ ~Becomes(s, g).failed
<1> DEFINE c == s.current
           fs == [s.functions EXCEPT ![c] = g]
           r == [s EXCEPT !.functions = fs]
<1>1. Shaped(Tables(s)) /\ c \in 1..Len(s.names) /\ Len(s.functions) = Len(s.names)
  BY DEF Declaring, Shaped, Tables
<1>2. /\ fs \in Seq(UserFunctions) /\ Len(fs) = Len(s.functions)
      /\ fs[c] = g /\ \A f \in 1..Len(s.functions) : f # c => fs[f] = s.functions[f]
  BY <1>1, ExceptSeq DEF States
<1> HIDE DEF fs
<1>3. r \in States(tokens)
  BY <1>2 DEF States
<1>4. /\ r.functions = fs /\ r.names = s.names /\ r.isFunction = s.isFunction
      /\ r.constants = s.constants /\ r.out = s.out /\ r.failed = s.failed
      /\ r.current = s.current /\ r.inFunction = s.inFunction
  BY DEF States
<1> HIDE DEF r
<1>5. Shaped(Tables(r))
  BY <1>1, <1>2, <1>3, <1>4, StateTables DEF Shaped, Tables
<1>6. Declares(tokens, s, r) /\ ~r.failed
  BY <1>1, <1>2, <1>3, <1>4, <1>5 DEF Declares
<1> QED
  BY <1>6 DEF r, fs, Becomes

(* A parameter changes the header of the current function only. *)
LEMMA ParameterDeclares ==
  ASSUME NEW tokens \in Seq(Tokens), NEW s \in States(tokens), Declaring(s)
  PROVE  Declares(tokens, s, Parameter(s))
<1>1. CASE Code(s) # "Identifier"
  BY <1>1, FailDeclares DEF Parameter
<1>2. CASE Code(s) = "Identifier"
  <2> DEFINE name == Current(s)
             c == s.current
             g == [s.functions[c] EXCEPT !.locals = Append(@, name)]
             m == IF FirstNamed(Locals(s), name) # 0 THEN s ELSE AddLocal(s, name)
  <2>1. name \in STRING /\ ~s.failed
    BY <1>2, CurrentValue
  <2>2. AddLocal(s, name) = Becomes(s, g)
    BY DEF AddLocal, Becomes, States
  <2>3. s.functions[c] \in UserFunctions
    <3>1. c \in 1..Len(Tables(s).names) /\ Shaped(Tables(s))
      BY <2>1 DEF Declaring, Tables
    <3> QED
      BY <3>1, TablesLengths DEF Tables
  <2> HIDE DEF name
  <2>4. g \in UserFunctions /\ g.code = s.functions[c].code
    BY <2>1, <2>3, AppendProperties DEF UserFunctions
  <2> HIDE DEF g
  <2>5. Declares(tokens, s, Becomes(s, g))
    BY <2>1, <2>4, BecomesDeclares
  <2>6. Declares(tokens, s, s)
    BY <2>1 DEF Declares, Declaring
  <2>7. Declares(tokens, s, m)
    BY <2>2, <2>5, <2>6
  <2> HIDE DEF m
  <2>8. Declares(tokens, m, Advanced(m))
    BY <2>7, StillDeclaring, AdvancedDeclares
  <2>9. Declares(tokens, s, Advanced(m))
    BY <2>7, <2>8, DeclaresThen
  <2>10. Parameter(s) = Advanced(m)
    BY <1>2 DEF Parameter, m, name
  <2> QED
    BY <2>9, <2>10
<1> QED
  BY <1>1, <1>2

(* So does a list of parameters. *)
LEMMA ParameterListDeclares ==
  ASSUME NEW tokens \in Seq(Tokens), NEW p, ReadsParameters(tokens, p),
         NEW s \in States(tokens), Declaring(s), NEW n \in Nat
  PROVE  Declares(tokens, s, ParameterList(p, s, n))
<1>1. CASE Code(s) = "Comma"
  <2> DEFINE x == Advanced(s)
             y == Parameter(x)
             k == n + 1
             z == p[<<"ParameterList", y, k>>]
  <2>1. Declares(tokens, s, x) /\ Declaring(x) /\ x \in States(tokens)
    BY AdvancedDeclares, StillDeclaring
  <2> HIDE DEF x
  <2>2. Declares(tokens, x, y) /\ Declaring(y) /\ y \in States(tokens)
    BY <2>1, ParameterDeclares, StillDeclaring
  <2> HIDE DEF y
  <2>3. k \in Nat
    OBVIOUS
  <2> HIDE DEF k
  <2>4. Declares(tokens, y, z)
    BY <2>2, <2>3 DEF ReadsParameters
  <2>5. ParameterList(p, s, n) = z
    BY <1>1 DEF ParameterList, z, y, x, k
  <2> HIDE DEF z
  <2>6. Declares(tokens, s, z)
    BY <2>1, <2>2, <2>4, DeclaresThen
  <2> QED
    BY <2>5, <2>6
<1>2. CASE Code(s) # "Comma"
  <2> DEFINE c == s.current
             g == [s.functions[c] EXCEPT !.nargs = n]
  <2>1. ParameterList(p, s, n) = Becomes(s, g)
    BY <1>2 DEF ParameterList, Becomes, States
  <2>2. CASE ~s.failed
    <3>1. s.functions[c] \in UserFunctions
      <4>1. c \in 1..Len(Tables(s).names) /\ Shaped(Tables(s))
        BY <2>2 DEF Declaring, Tables
      <4> QED
        BY <4>1, TablesLengths DEF Tables
    <3>2. g \in UserFunctions /\ g.code = s.functions[c].code
      BY <3>1 DEF UserFunctions
    <3> HIDE DEF g
    <3> QED
      BY <2>1, <2>2, <3>2, BecomesDeclares
  <2>3. CASE s.failed
    <3> DEFINE fs == [s.functions EXCEPT ![c] = g]
               r == [s EXCEPT !.functions = fs]
    <3>1. s.functions \in Seq(UserFunctions)
      BY DEF States
    <3>2. fs \in Seq(UserFunctions)
      <4>1. CASE c \in 1..Len(s.functions)
        <5>1. s.functions[c] \in UserFunctions
          BY <3>1, <4>1, ElementOfSeq
        <5>2. g \in UserFunctions
          BY <5>1 DEF UserFunctions
        <5> HIDE DEF g
        <5> QED
          BY <3>1, <4>1, <5>2, ExceptSeq
      <4>2. CASE c \notin 1..Len(s.functions)
        <5>1. DOMAIN s.functions = 1..Len(s.functions)
              /\ s.functions = [i \in DOMAIN s.functions |-> s.functions[i]]
          BY <3>1
        <5> HIDE DEF g
        <5>2. fs = s.functions
          BY <4>2, <5>1
        <5> QED
          BY <3>1, <5>2
      <4> QED
        BY <4>1, <4>2
    <3> HIDE DEF fs
    <3>3. r \in States(tokens) /\ r.failed = s.failed
      BY <3>2 DEF States
    <3>4. Becomes(s, g) = r
      BY DEF Becomes, fs
    <3> HIDE DEF r
    <3> QED
      BY <2>1, <2>3, <3>3, <3>4 DEF Declares
  <2> QED
    BY <2>2, <2>3
<1> QED
  BY <1>1, <1>2

(* So do parameters between their parentheses. *)
LEMMA ParametersDeclares ==
  ASSUME NEW tokens \in Seq(Tokens), NEW p, ReadsParameters(tokens, p),
         NEW s \in States(tokens), Declaring(s)
  PROVE  Declares(tokens, s, Parameters(p, s))
<1>1. CASE Code(s) = "Identifier"
  <2> DEFINE y == Parameter(s)
             z == p[<<"ParameterList", y, 1>>]
  <2>1. Declares(tokens, s, y) /\ Declaring(y) /\ y \in States(tokens)
    BY ParameterDeclares, StillDeclaring
  <2> HIDE DEF y
  <2>2. Declares(tokens, y, z)
    <3> PICK k \in Nat : k = 1
      OBVIOUS
    <3>1. Declares(tokens, y, p[<<"ParameterList", y, k>>])
      BY <2>1 DEF ReadsParameters
    <3> QED
      BY <3>1
  <2>3. Parameters(p, s) = z
    BY <1>1 DEF Parameters, z, y
  <2> HIDE DEF z
  <2>4. Declares(tokens, s, z)
    BY <2>1, <2>2, DeclaresThen
  <2> QED
    BY <2>3, <2>4
<1>2. CASE Code(s) # "Identifier"
  <2> PICK k \in Nat : k = 0
    OBVIOUS
  <2>1. Declares(tokens, s, p[<<"ParameterList", s, k>>])
    BY DEF ReadsParameters
  <2> QED
    BY <1>2, <2>1 DEF Parameters
<1> QED
  BY <1>1, <1>2

(* Expecting a token declares nothing. *)
LEMMA ExpectDeclares ==
  ASSUME NEW tokens, NEW s \in States(tokens), Declaring(s), NEW c
  PROVE  Declares(tokens, s, Expect(s, c))
BY AdvancedDeclares, FailDeclares DEF Expect

\* s is at the name of the function.
Headed(s, h) ==
  /\ ~h.failed /\ Shaped(Tables(h))
  /\ h.current = Len(s.names) + 1 /\ h.inFunction = TRUE /\ h.out = <<>>
  /\ Len(h.names) = Len(s.names) + 1 /\ h.isFunction[Len(s.names) + 1] = TRUE
  /\ Extends(Tables(s), Tables(h)) /\ KeepsCode(Tables(s), Tables(h))

(* A function's header makes its new symbol the current function. *)
LEMMA HeaderState ==
  ASSUME NEW tokens, NEW s \in Builders(tokens), ~s.failed, Current(s) \in STRING
  PROVE  Header(s) \in States(tokens) /\ Headed(s, Header(s))
<1> DEFINE a == AddSymbol(s, Current(s), TRUE)
           n == Len(s.names)
           c == n + 1
           r == [a EXCEPT !.current = c, !.inFunction = TRUE, !.out = <<>>]
<1>1. /\ a \in States(tokens) /\ Shaped(Tables(a))
      /\ Len(a.names) = n + 1 /\ n \in Nat
      /\ a.isFunction[n + 1] = TRUE
      /\ Extends(Tables(s), Tables(a)) /\ KeepsCode(Tables(s), Tables(a))
      /\ a.failed = s.failed
  <2>1. s \in States(tokens) /\ Shaped(Tables(s))
    BY BuilderSound DEF Builders
  <2> PICK name, yes : name = Current(s) /\ yes = TRUE
    OBVIOUS
  <2>2. name \in STRING /\ yes \in BOOLEAN /\ a = AddSymbol(s, name, yes)
    OBVIOUS
  <2> HIDE DEF a
  <2>3. a \in States(tokens) /\ Shaped(Tables(a))
    BY <2>1, <2>2, AddSymbolTables, Zenon
  <2>5. Len(a.names) = n + 1 /\ n \in Nat
    <3>1. a.names = Append(s.names, name) /\ s.names \in Seq(STRING)
      BY <2>1, <2>2 DEF AddSymbol, States
    <3> QED
      BY <2>2, <3>1, AppendProperties, LenProperties
  <2>6. Extends(Tables(s), Tables(a)) /\ KeepsCode(Tables(s), Tables(a))
    BY <2>1, <2>2, AddSymbolTables, Zenon
  <2>7. a.failed = s.failed
    BY <2>1, <2>2 DEF AddSymbol, States
  <2>4. a.isFunction[n + 1] = yes
    BY <2>1, <2>2, AddSymbolTables, Zenon
  <2> QED
    BY <2>3, <2>4, <2>5, <2>6, <2>7
<1>2. Header(s) = r
  BY DEF Header
<1> HIDE DEF a
<1>3. r \in States(tokens)
  <2>1. c \in Nat /\ <<>> \in Seq(Instruction) /\ TRUE \in BOOLEAN
    BY <1>1
  <2> HIDE DEF c
  <2> QED
    BY <1>1, <2>1 DEF States
<1>4. /\ r.current = n + 1 /\ r.inFunction = TRUE /\ r.out = <<>> /\ r.failed = a.failed
      /\ r.names = a.names /\ r.isFunction = a.isFunction
      /\ r.functions = a.functions /\ r.constants = a.constants
  BY <1>1 DEF States
<1> HIDE DEF r
<1>5. Tables(r) = Tables(a)
  BY <1>4 DEF Tables
<1>6. Headed(s, r)
  BY <1>1, <1>4, <1>5 DEF Headed
<1> QED
  BY <1>2, <1>3, <1>6

(* After header and parameters the builder is sound, inside the new function, with no code. *)
LEMMA HeadedBuilder ==
  ASSUME NEW tokens, NEW s \in Builders(tokens), ~s.failed, NEW h \in States(tokens),
         Headed(s, h), NEW q, Declares(tokens, h, q), ~q.failed
  PROVE  /\ q \in Builders(tokens) /\ Extends(Tables(s), Tables(q))
         /\ q.current = Len(s.names) + 1 /\ q.inFunction = TRUE /\ q.out = <<>>
         /\ s.current < q.current
<1> DEFINE n == Len(s.names)
           T == Tables(s)
           H == Tables(h)
           U == Tables(q)
<1>1. /\ q \in States(tokens) /\ Shaped(U)
      /\ q.names = h.names /\ q.isFunction = h.isFunction /\ q.constants = h.constants
      /\ q.current = n + 1 /\ q.inFunction = TRUE /\ q.out = <<>>
      /\ \A f \in 1..Len(h.names) : f # n + 1 => q.functions[f] = h.functions[f]
      /\ q.functions[n + 1].code = h.functions[n + 1].code
      /\ Len(h.names) = n + 1 /\ h.isFunction[n + 1] = TRUE
  BY DEF Declares, Headed
<1>2. Shaped(T) /\ AllCoded(T) /\ s.current \in 0..n /\ n \in Nat /\ Len(T.constants) \in Nat
  <2>1. Shaped(T) /\ AllCoded(T) /\ Placed(T, s.current, s.inFunction)
    BY BuilderSound
  <2>2. Len(T.names) \in Nat /\ Len(T.constants) \in Nat
    BY <2>1, TablesLengths
  <2> QED
    BY <2>1, <2>2 DEF Placed, Tables
<1>3. Extends(T, H) /\ KeepsCode(T, H)
  BY DEF Headed
<1>4. \A f \in 1..n : q.functions[f] = h.functions[f] /\ q.isFunction[f] = h.isFunction[f]
  BY <1>1, <1>2
<1>5. Extends(T, U)
  <2>1. /\ Len(T.names) <= Len(H.names) /\ Len(T.constants) <= Len(H.constants)
        /\ \A f \in 1..n : /\ H.isFunction[f] = T.isFunction[f]
                           /\ H.functions[f].nargs = T.functions[f].nargs
                           /\ Len(T.functions[f].locals) <= Len(H.functions[f].locals)
    BY <1>3 DEF Extends, Keeps, Tables
  <2>2. U.names = H.names /\ U.constants = H.constants
    BY <1>1 DEF Tables
  <2>3. \A f \in 1..n : U.functions[f] = H.functions[f] /\ U.isFunction[f] = H.isFunction[f]
    BY <1>4 DEF Tables
  <2>4. T.names = s.names
    BY DEF Tables
  <2> HIDE DEF T, U, H
  <2> QED
    BY <2>1, <2>2, <2>3, <2>4 DEF Extends, Keeps
<1>6. KeepsCode(T, U)
  <2>1. ASSUME NEW f \in 1..Len(T.names) PROVE U.functions[f].code = T.functions[f].code
    BY <1>3, <1>4 DEF KeepsCode, Tables
  <2>2. ASSUME NEW f \in (Len(T.names) + 1)..Len(U.names) PROVE U.functions[f].code = <<>>
    <3>1. f = n + 1
      BY <1>1, <1>2 DEF Tables
    <3>2. h.functions[n + 1].code = <<>>
      BY <1>1, <1>2, <1>3 DEF KeepsCode, Tables
    <3> QED
      BY <1>1, <3>1, <3>2 DEF Tables
  <2> QED
    BY <2>1, <2>2 DEF KeepsCode
<1>7. AllCoded(U)
  BY <1>1, <1>2, <1>5, <1>6, CodesKept
<1>8. Placed(U, q.current, q.inFunction)
  BY <1>1, <1>2 DEF Placed, Tables
<1> QED
  BY <1>1, <1>2, <1>5, <1>7, <1>8 DEF Builders, Sound

\* The return that is written to the code of function c.
LEMMA BlockEnding ==
  ASSUME NEW T, NEW c, c # 0
  PROVE  Block(T, c, Ending)
<1> DEFINE h == [q \in 0..2 |-> IF q = 1 THEN 1 ELSE 0]
<1>1. /\ Ending \in Codes /\ Len(Ending) = 2
      /\ Ending[1] = Instr("PushNone", NoArg) /\ Ending[2] = Instr("Return", NoArg)
  BY EndingInstructions
<1>2. h \in [0..2 -> Nat] /\ h[0] = 0 /\ h[1] = 1 /\ h[2] = 0
  OBVIOUS
<1> HIDE DEF h
<1>3. Ending[1].op = "PushNone" /\ Ending[2].op = "Return"
  BY <1>1 DEF Instr
<1>4. BlockStep(T, c, Ending, h, 1)
  <2>1. TakesBy(T, Ending, 1) = 0 /\ Given(Ending[1].op) = 1
    BY <1>3 DEF TakesBy, Taken, Given, BinaryOps, UnaryOps
  <2>2. Left(T, Ending, h, 1) = 1
    BY <1>2, <2>1 DEF Left
  <2>3. Sensible(T, c, Ending, 1)
    BY <1>3 DEF Sensible, Resolved, CallsKnown
  <2>4. Ending[1].op \in BlockOps /\ Ending[1].op \notin Barriers \cup Jumps
    BY <1>3 DEF BlockOps, Barriers, Jumps
  <2> QED
    BY <1>2, <1>3, <2>1, <2>2, <2>3, <2>4 DEF BlockStep, Counted, Lands
<1>5. BlockStep(T, c, Ending, h, 2)
  <2>1. TakesBy(T, Ending, 2) = 1
    BY <1>3 DEF TakesBy, Taken, BinaryOps, UnaryOps
  <2>2. Sensible(T, c, Ending, 2)
    BY <1>3 DEF Sensible, Resolved, CallsKnown
  <2>3. Ending[2].op \in BlockOps /\ Ending[2].op \in Barriers /\ Ending[2].op \notin Jumps
    BY <1>3 DEF BlockOps, Barriers, Jumps
  <2> QED
    BY <1>2, <1>3, <2>1, <2>2, <2>3 DEF BlockStep, Counted, Lands
<1>6. \A q \in 1..2 : q = 1 \/ q = 2
  OBVIOUS
<1>7. \A q \in 1..Len(Ending) : BlockStep(T, c, Ending, h, q)
  BY <1>1, <1>4, <1>5, <1>6
<1> QED
  BY <1>1, <1>2, <1>7 DEF Block

(* The ending of a body is regular. *)
LEMMA EndingRegular ==
  ASSUME NEW T
  PROVE  Ending \in Codes /\ Regular(T, Ending)
<1>1. /\ Ending \in Codes /\ Len(Ending) = 2
      /\ Ending[1].op = "PushNone" /\ Ending[2].op = "Return"
  BY EndingInstructions DEF Instr
<1>2. \A q \in 1..2 : q = 1 \/ q = 2
  OBVIOUS
<1> QED
  BY <1>1, <1>2 DEF Regular, Jumps

\* What the end of a body leaves: the body in function f, and the final return
\* in the function that was defined last, at c.
EndState(s, f, out, fs) == [s EXCEPT !.inFunction = FALSE, !.functions = fs, !.out = out]
Bodied(s, f, fs) ==
  LET c == s.current
  IN  /\ fs \in Seq(UserFunctions) /\ Len(fs) = Len(s.functions)
      /\ \A g \in 1..Len(s.functions) :
           /\ fs[g].nargs = s.functions[g].nargs /\ fs[g].locals = s.functions[g].locals
           /\ g # f /\ g # c => fs[g].code = s.functions[g].code
      /\ c = f => fs[f].code = s.out \o Ending
      /\ c # f => fs[f].code = s.out /\ fs[c].code = s.functions[c].code \o Ending

(* The end of a body puts the code under construction in the function's table entry. *)
LEMMA EndOfBodyState ==
  ASSUME NEW tokens, NEW s \in States(tokens), Shaped(Tables(s)), Code(s) = "End",
         NEW f \in 1..Len(s.names), s.current \in 1..Len(s.names), NEW out \in Codes
  PROVE  \E fs : /\ Bodied(s, f, fs)
                 /\ EndOfBody(s, f, out) = EndState(Advanced(s), f, out, fs)
<1> DEFINE c == s.current
           F == s.functions
           g1 == [F[f] EXCEPT !.code = s.out]
           fs1 == [F EXCEPT ![f] = g1]
           new == fs1[c].code \o Ending
           g2 == [fs1[c] EXCEPT !.code = new]
           fs2 == [fs1 EXCEPT ![c] = g2]
           a == Advanced(s)
           y == [a EXCEPT !.inFunction = FALSE, !.functions = fs1, !.out = out]
<1>1. /\ F \in Seq(UserFunctions) /\ Len(F) = Len(s.names) /\ Len(F) \in Nat
      /\ \A g \in 1..Len(F) : F[g] \in UserFunctions
  <2>1. F \in Seq(UserFunctions) /\ Len(F) = Len(s.names) /\ Len(F) \in Nat
    BY TablesLengths DEF States, Tables
  <2> QED
    BY <2>1, TablesLengths DEF Tables
<1>2. g1 \in UserFunctions /\ g1.code = s.out /\ g1.nargs = F[f].nargs /\ g1.locals = F[f].locals
  BY <1>1 DEF UserFunctions, States
<1> HIDE DEF g1
<1>3. /\ fs1 \in Seq(UserFunctions) /\ Len(fs1) = Len(F) /\ fs1[f] = g1
      /\ \A g \in 1..Len(F) : g # f => fs1[g] = F[g]
  BY <1>1, <1>2, ExceptSeq
<1> HIDE DEF fs1
<1>4. fs1[c] \in UserFunctions
  BY <1>1, <1>3, ElementOfSeq
<1>5. new \in Codes
  <2>1. fs1[c].code \in Codes
    BY <1>4 DEF UserFunctions, Codes
  <2> QED
    BY <2>1, EndingInstructions, Joined
<1> HIDE DEF new
<1>6. g2 \in UserFunctions /\ g2.code = new /\ g2.nargs = fs1[c].nargs /\ g2.locals = fs1[c].locals
  BY <1>4, <1>5 DEF UserFunctions, Codes
<1> HIDE DEF g2
<1>7. /\ fs2 \in Seq(UserFunctions) /\ Len(fs2) = Len(F) /\ fs2[c] = g2
      /\ \A g \in 1..Len(F) : g # c => fs2[g] = fs1[g]
  <2>1. c \in 1..Len(fs1)
    BY <1>1, <1>3
  <2>2. /\ fs2 \in Seq(UserFunctions) /\ Len(fs2) = Len(fs1) /\ fs2[c] = g2
        /\ \A g \in 1..Len(fs1) : g # c => fs2[g] = fs1[g]
    BY <1>3, <1>6, <2>1, ExceptSeq
  <2> QED
    BY <1>3, <2>2
<1> HIDE DEF fs2
<1>8. Bodied(s, f, fs2)
  <2>1. ASSUME NEW g \in 1..Len(F)
        PROVE  /\ fs2[g].nargs = F[g].nargs /\ fs2[g].locals = F[g].locals
               /\ g # f /\ g # c => fs2[g].code = F[g].code
    BY <1>2, <1>3, <1>6, <1>7, <1>1
  <2>2. c = f => fs2[f].code = s.out \o Ending
    BY <1>2, <1>3, <1>6, <1>7 DEF new
  <2>3. c # f => fs2[f].code = s.out /\ fs2[c].code = F[c].code \o Ending
    BY <1>1, <1>2, <1>3, <1>6, <1>7 DEF new
  <2> QED
    BY <1>7, <2>1, <2>2, <2>3 DEF Bodied
<1>9. a \in States(tokens) /\ a.functions = F /\ a.current = c
  <2>1. s.pos + 1 \in Nat \ {0}
    BY DEF States
  <2> QED
    BY <2>1 DEF States, Advanced
<1>10. EndOfBody(s, f, out) = Returns(y)
  <2>1. fs1 = [a.functions EXCEPT ![f] = [a.functions[f] EXCEPT !.code = s.out]]
    BY <1>9 DEF fs1, g1
  <2> HIDE DEF a
  <2>2. EndOfBody(s, f, out) =
          Returns([a EXCEPT !.inFunction = FALSE, !.functions[f].code = s.out, !.out = out])
    BY DEF EndOfBody, a
  <2>3. [a EXCEPT !.inFunction = FALSE, !.functions[f].code = s.out, !.out = out] = y
    BY <1>9, <2>1 DEF States
  <2> QED
    BY <2>2, <2>3
<1>11. y.functions = fs1 /\ y.current = c
  BY <1>9 DEF States
<1>12. Returns(y) = [y EXCEPT !.functions = fs2]
  <2>1. fs2 = [y.functions EXCEPT ![y.current] =
                 [y.functions[y.current] EXCEPT !.code =
                    @ \o <<Instr("PushNone", NoArg), Instr("Return", NoArg)>>]]
    BY <1>11 DEF fs2, g2, new, Ending
  <2> HIDE DEF y
  <2> QED
    BY <2>1 DEF Returns
<1>13. [y EXCEPT !.functions = fs2] = EndState(a, f, out, fs2)
  <2> HIDE DEF a
  <2> QED
    BY <1>9 DEF EndState, States
<1> QED
  BY <1>8, <1>10, <1>12, <1>13

(* After the end of a body the builder is sound: a body that is a block is a finished function. *)
LEMMA EndOfBodySound ==
  ASSUME NEW tokens, NEW s \in Builders(tokens), ~s.failed, Code(s) = "End",
         NEW f \in 1..Len(s.names), s.current \in 1..Len(s.names),
         Regular(Tables(s), s.out), Open(s.out),
         s.inFunction => s.current = f /\ Block(Tables(s), f, s.out),
         ~s.inFunction => s.current # f,
         NEW out \in Codes
  PROVE  LET r == EndOfBody(s, f, out)
         IN  /\ r \in Builders(tokens) /\ Extends(Tables(s), Tables(r))
             /\ r.current = s.current /\ r.inFunction = FALSE /\ r.out = out
<1> DEFINE c == s.current
           r == EndOfBody(s, f, out)
           T == Tables(s)
           U == Tables(r)
           n == Len(s.names)
<1>1. /\ s \in States(tokens) /\ Shaped(T) /\ AllCoded(T) /\ Placed(T, c, s.inFunction)
      /\ s.out \in Codes /\ n \in Nat /\ T.names = s.names
  BY BuilderSound, StateTables, LenProperties DEF Builders, States, Tables
<1>2. PICK fs : Bodied(s, f, fs) /\ r = EndState(Advanced(s), f, out, fs)
  BY <1>1, EndOfBodyState
<1> HIDE DEF r
<1>3. /\ r \in States(tokens) /\ r.functions = fs /\ r.names = s.names
      /\ r.isFunction = s.isFunction /\ r.constants = s.constants
      /\ r.current = c /\ r.inFunction = FALSE /\ r.out = out
  <2> DEFINE a == Advanced(s)
  <2>1. /\ a \in States(tokens) /\ a.functions = s.functions /\ a.names = s.names
        /\ a.isFunction = s.isFunction /\ a.constants = s.constants /\ a.current = c
    <3>1. s.pos + 1 \in Nat \ {0}
      BY <1>1 DEF States
    <3> QED
      BY <1>1, <3>1 DEF States, Advanced
  <2>2. fs \in Seq(UserFunctions)
    BY <1>2 DEF Bodied
  <2> HIDE DEF a
  <2> QED
    BY <1>2, <2>1, <2>2 DEF EndState, States, Codes, a
<1>4. /\ Len(fs) = n /\ Len(s.functions) = n
      /\ \A g \in 1..n :
           /\ fs[g].nargs = s.functions[g].nargs /\ fs[g].locals = s.functions[g].locals
           /\ g # f /\ g # c => fs[g].code = s.functions[g].code
      /\ c = f => fs[f].code = s.out \o Ending
      /\ c # f => fs[f].code = s.out /\ fs[c].code = s.functions[c].code \o Ending
  <2>1. Len(s.functions) = n
    BY <1>1 DEF Shaped, Tables
  <2> QED
    BY <1>2, <2>1 DEF Bodied
<1>5. Shaped(U)
  <2>1. U \in TableSet
    BY <1>3, StateTables
  <2> QED
    BY <1>1, <1>3, <1>4, <2>1 DEF Shaped, Tables
<1>6. Extends(T, U)
  <2>1. \A g \in 1..n : Len(s.functions[g].locals) \in Nat
    BY <1>1, TablesLengths DEF Tables
  <2>2. Len(s.constants) \in Nat
    BY <1>1, TablesLengths DEF Tables
  <2> QED
    BY <1>1, <1>3, <1>4, <2>1, <2>2 DEF Extends, Keeps, Tables
<1>7. f \in 0..n /\ c \in 0..n /\ c # 0 /\ c \in 1..n
  BY <1>1
<1>8. Ending \in Codes /\ Regular(U, Ending) /\ Block(U, c, Ending)
  BY <1>7, EndingRegular, BlockEnding
<1>9. Regular(U, s.out)
  BY <1>1, <1>5, <1>6, RegularKept
<1>10. CASE s.inFunction
  <2>1. c = f /\ Block(T, f, s.out)
    BY <1>10
  <2>2. Block(U, f, s.out)
    BY <1>1, <1>5, <1>6, <1>7, <2>1, BlockKept
  <2>3. U.functions[f].code = s.out \o Ending
    BY <1>3, <1>4, <2>1 DEF Tables
  <2>4. Finished(U, c)
    BY <1>1, <2>1, <2>2, <2>3 DEF Finished
  <2>5. Coded(U, f)
    BY <1>1, <1>8, <1>9, <2>1, <2>3, <2>4, RegularConcat DEF Coded
  <2>6. ASSUME NEW g \in 1..n, U.isFunction[g] PROVE Coded(U, g)
    <3>1. CASE g = f
      BY <2>5, <3>1
    <3>2. CASE g # f
      <4>1. U.functions[g].code = T.functions[g].code /\ Coded(T, g)
            /\ T.functions[g].code \in Codes
        <5>1. T.isFunction[g] /\ U.functions[g].code = T.functions[g].code
          BY <1>3, <1>4, <2>1, <2>6, <3>2 DEF Tables
        <5> QED
          BY <1>1, <5>1, TablesLengths DEF AllCoded
      <4>2. Regular(U, U.functions[g].code)
        BY <1>1, <1>5, <1>6, <4>1, RegularKept DEF Coded
      <4>3. Finished(T, g) => Finished(U, g)
        BY <1>1, <1>5, <1>6, <4>1, FinishedKept
      <4> QED
        BY <4>1, <4>2, <4>3 DEF Coded
    <3> QED
      BY <3>1, <3>2
  <2>7. AllCoded(U) /\ Placed(U, c, FALSE)
    <3>1. U.names = s.names
      BY <1>3 DEF Tables
    <3> QED
      BY <1>7, <2>4, <2>6, <3>1 DEF AllCoded, Placed
  <2> QED
    BY <1>3, <1>5, <1>6, <2>7 DEF r, Builders, Sound
<1>11. CASE ~s.inFunction
  <2>1. c # f /\ Finished(T, c)
    BY <1>1, <1>7, <1>11 DEF Placed
  <2>2. PICK F \in Codes : T.functions[c].code = F \o Ending /\ Block(T, c, F)
    BY <2>1 DEF Finished
  <2>3. /\ U.functions[f].code = s.out
        /\ U.functions[c].code = T.functions[c].code \o Ending
    BY <1>3, <1>4, <2>1 DEF Tables
  <2>4. F \o Ending \in Codes /\ Block(U, c, F \o Ending)
    <3>1. Block(U, c, F)
      BY <1>1, <1>5, <1>6, <1>7, <2>2, BlockKept
    <3> QED
      BY <1>8, <3>1, BlockConcat, Joined
  <2>5. Finished(U, c)
    BY <2>2, <2>3, <2>4 DEF Finished
  <2>6. Coded(U, f)
    BY <1>9, <2>3 DEF Coded
  <2>7. ASSUME NEW g \in 1..n, U.isFunction[g] PROVE Coded(U, g)
    <3>1. CASE g = f
      BY <2>6, <3>1
    <3>2. Coded(T, g) /\ T.functions[g].code \in Codes
      <4>1. T.isFunction[g]
        BY <1>3, <2>7 DEF Tables
      <4> QED
        BY <1>1, <4>1, TablesLengths DEF AllCoded
    <3>3. Regular(U, T.functions[g].code)
      BY <1>1, <1>5, <1>6, <3>2, RegularKept DEF Coded
    <3>4. CASE g = c
      BY <1>8, <2>3, <2>5, <3>2, <3>3, <3>4, RegularConcat DEF Coded
    <3>5. CASE g # f /\ g # c
      <4>1. U.functions[g].code = T.functions[g].code
        BY <1>3, <1>4, <3>5 DEF Tables
      <4>2. Finished(T, g) => Finished(U, g)
        BY <1>1, <1>5, <1>6, <4>1, FinishedKept
      <4> QED
        BY <3>2, <3>3, <4>1, <4>2 DEF Coded
    <3> QED
      BY <3>1, <3>4, <3>5
  <2>8. AllCoded(U) /\ Placed(U, c, FALSE)
    <3>1. U.names = s.names
      BY <1>3 DEF Tables
    <3> QED
      BY <1>7, <2>5, <2>7, <3>1 DEF AllCoded, Placed
  <2> QED
    BY <1>3, <1>5, <1>6, <2>8 DEF r, Builders, Sound
<1> QED
  BY <1>10, <1>11

(* A function definition adds a finished function and writes no code where it stands. *)
LEMMA FunctionDefRuns ==
  ASSUME NEW tokens \in Seq(Tokens), NEW p, ReadsParameters(tokens, p), Performs(tokens, p),
         NEW s \in Builders(tokens)
  PROVE  Runs(tokens, s, FunctionDef(p, s))
<1> DEFINE name == Advanced(s)
           h == Header(name)
           w == Advanced(h)
           x == Expect(w, "LeftParenthesis")
           y == Parameters(p, x)
           q == Expect(y, "RightParenthesis")
           body == p[<<"StatementList", q, 0>>]
           f == Len(s.names) + 1
           r == EndOfBody(body, f, s.out)
<1>1. CASE Code(name) # "Identifier"
  <2>1. FunctionDef(p, s) = Fail(s) /\ s \in States(tokens)
    BY <1>1 DEF FunctionDef, Builders
  <2> QED
    BY <2>1, FailRuns
<1>2. CASE Code(name) = "Identifier"
  <2>1. FunctionDef(p, s) = r
    BY <1>2 DEF FunctionDef, Body
  <2>2. /\ name \in Builders(tokens) /\ name \in States(tokens) /\ Beside(s, name)
        /\ name.failed = s.failed
    BY AdvancedState DEF Builders
  <2>3. ~name.failed /\ Current(name) \in STRING /\ ~s.failed
    BY <1>2, <2>2, CurrentValue
  <2>4. Len(name.names) + 1 = f /\ Tables(name) = Tables(s) /\ name.current = s.current
    BY <2>2 DEF Beside, Tables
  <2> HIDE DEF name
  <2>5. h \in States(tokens) /\ Headed(name, h)
    BY <2>2, <2>3, HeaderState
  <2>6. Declaring(h) /\ h.current = f
    BY <2>2, <2>3, <2>4, <2>5, BuilderSound, TablesLengths DEF Declaring, Headed, Tables
  <2> HIDE DEF h
  <2>7. Declares(tokens, h, w) /\ Declaring(w) /\ w \in States(tokens)
    BY <2>5, <2>6, AdvancedDeclares, StillDeclaring
  <2> HIDE DEF w
  <2>8. Declares(tokens, w, x) /\ Declaring(x) /\ x \in States(tokens)
    BY <2>7, ExpectDeclares, StillDeclaring
  <2> HIDE DEF x
  <2>9. Declares(tokens, x, y) /\ Declaring(y) /\ y \in States(tokens)
    BY <2>8, ParametersDeclares, StillDeclaring
  <2> HIDE DEF y
  <2>10. Declares(tokens, y, q) /\ q \in States(tokens)
    BY <2>9, ExpectDeclares, StillDeclaring
  <2> HIDE DEF q
  <2>11. Declares(tokens, h, q)
    BY <2>5, <2>7, <2>8, <2>9, <2>10, DeclaresThen
  <2>12. q \in Builders(tokens)
    BY <2>2, <2>3, <2>5, <2>10, <2>11, HeadedBuilder DEF Builders
  <2>13. Runs(tokens, q, body) /\ body \in Builders(tokens) /\ body \in States(tokens)
    BY <2>12, RunsBuilder DEF Performs
  <2> HIDE DEF body
  <2>14. CASE Code(body) # "End"
    <3>1. r = Fail(body)
      BY <2>14 DEF EndOfBody
    <3> QED
      BY <2>1, <2>13, <3>1, FailRuns
  <2>15. CASE Code(body) = "End"
    <3>1. ~body.failed /\ ~q.failed
      <4>1. ~body.failed
        BY <2>13, <2>15, CurrentValue
      <4> QED
        BY <2>13, <4>1 DEF Runs
    <3>2. /\ Extends(Tables(s), Tables(q)) /\ q.current = f /\ q.inFunction = TRUE
          /\ q.out = <<>> /\ s.current < q.current
      BY <2>2, <2>3, <2>4, <2>5, <2>11, <3>1, HeadedBuilder
    <3>3. Extends(Tables(q), Tables(body)) /\ Moves(q, body)
      BY <2>13, <3>1 DEF Runs
    <3>4. PICK B \in Codes : /\ body.out = q.out \o B
                             /\ Regular(Tables(body), B) /\ Open(B)
                             /\ body.inFunction = q.inFunction => Block(Tables(body), Home(q), B)
      BY <2>13, <3>1 DEF Runs
    <3>5. body.out = B
      BY <3>2, <3>4, ConcatEmptySeq DEF Codes
    <3>6. /\ Shaped(Tables(s)) /\ Shaped(Tables(q)) /\ Shaped(Tables(body))
          /\ Placed(Tables(q), q.current, q.inFunction)
          /\ Placed(Tables(body), body.current, body.inFunction)
      BY <2>3, <2>12, <2>13, <3>1, BuilderSound
    <3>7. /\ Len(s.names) \in Nat /\ Len(body.names) \in Nat /\ f \in Nat \ {0}
          /\ s.current \in Nat /\ body.current \in Nat /\ s.out \in Codes
          /\ s.inFunction \in BOOLEAN /\ body.inFunction \in BOOLEAN
      BY <2>13, <3>6, TablesLengths, StateTables DEF Tables, Builders
    <3>8. f \in 1..Len(body.names)
      <4>1. f \in 0..Len(q.names) /\ Len(q.names) <= Len(body.names) /\ Len(q.names) \in Nat
        BY <3>2, <3>3, <3>6, TablesLengths DEF Placed, Extends, Keeps, Tables
      <4> QED
        BY <3>7, <4>1
    <3>9. /\ body.inFunction => body.current = f
          /\ ~body.inFunction => body.current > f
      BY <3>2, <3>3 DEF Moves
    <3>10. body.current \in 1..Len(body.names)
      <4>1. body.current \in 0..Len(body.names)
        BY <3>6 DEF Placed, Tables
      <4> QED
        BY <3>7, <3>9, <4>1
    <3>11. body.inFunction => Block(Tables(body), f, body.out)
      <4>1. Home(q) = f
        BY <3>2 DEF Home
      <4>2. body.inFunction => body.inFunction = q.inFunction
        BY <3>2, <3>7
      <4> QED
        BY <3>4, <3>5, <4>1, <4>2
    <3>12. body.current > f => body.current # f
      BY <3>7
    <3>13. /\ r \in Builders(tokens) /\ Extends(Tables(body), Tables(r))
           /\ r.current = body.current /\ r.inFunction = FALSE /\ r.out = s.out
      <4> PICK g, out : g = f /\ out = s.out
        OBVIOUS
      <4>1. /\ body \in Builders(tokens) /\ ~body.failed /\ Code(body) = "End"
            /\ g \in 1..Len(body.names) /\ body.current \in 1..Len(body.names)
            /\ Regular(Tables(body), body.out) /\ Open(body.out)
            /\ body.inFunction => body.current = g /\ Block(Tables(body), g, body.out)
            /\ ~body.inFunction => body.current # g
            /\ out \in Codes
        BY <2>13, <2>15, <3>1, <3>4, <3>5, <3>7, <3>8, <3>9, <3>10, <3>11, <3>12
      <4>2. LET z == EndOfBody(body, g, out)
            IN  /\ z \in Builders(tokens) /\ Extends(Tables(body), Tables(z))
                /\ z.current = body.current /\ z.inFunction = FALSE /\ z.out = out
        BY ONLY <4>1, EndOfBodySound
      <4> QED
        BY <4>2
    <3> HIDE DEF r
    <3>14. CASE r.failed
      BY <2>1, <2>3, <3>13, <3>14 DEF Runs
    <3>15. CASE ~r.failed
      <4>1. Shaped(Tables(r))
        BY <3>13, <3>15, BuilderSound
      <4>2. Extends(Tables(s), Tables(r))
        <5>1. Extends(Tables(s), Tables(body))
          BY <3>2, <3>3, <3>6, ExtendsThen
        <5> QED
          BY <3>6, <3>13, <4>1, <5>1, ExtendsThen
      <4>3. Moves(s, r)
        <5>1. s.current < f /\ f <= body.current
          BY <3>2, <3>7, <3>9
        <5>2. r.current > s.current
          BY <3>7, <3>13, <5>1
        <5> QED
          BY <3>7, <3>13, <5>2 DEF Moves
      <4>4. /\ <<>> \in Codes /\ s.out \o <<>> = s.out
            /\ Regular(Tables(r), <<>>) /\ Open(<<>>) /\ Block(Tables(r), Home(s), <<>>)
        <5>1. <<>> \in Codes /\ s.out \o <<>> = s.out
          BY <3>7, ConcatEmptySeq DEF Codes
        <5>2. Len(<<>>) = 0 /\ \A k \in 1..0 : FALSE
          OBVIOUS
        <5>3. Regular(Tables(r), <<>>) /\ Open(<<>>)
          BY <5>2, Zenon DEF Regular, Open
        <5> QED
          BY <5>1, <5>3, BlockEmpty
      <4>5. /\ r.out = s.out \o <<>>
            /\ r.inFunction = s.inFunction => Block(Tables(r), Home(s), <<>>)
        BY <3>13, <4>4
      <4>6. \E F \in Codes :
              /\ r.out = s.out \o F
              /\ Regular(Tables(r), F) /\ Open(F)
              /\ r.inFunction = s.inFunction => Block(Tables(r), Home(s), F)
        BY <4>4, <4>5, Zenon
      <4>7. Runs(tokens, s, r)
        BY <2>3, <3>13, <4>2, <4>3, <4>6 DEF Runs
      <4> QED
        BY <2>1, <4>7
    <3> QED
      BY <3>14, <3>15
  <2> QED
    BY <2>14, <2>15
<1> QED
  BY <1>1, <1>2

(* A statement is a block, when the descent below it obeys. *)
LEMMA StatementRuns ==
  ASSUME NEW tokens \in Seq(Tokens), NEW p, Calculates(tokens, p), Performs(tokens, p),
         ReadsParameters(tokens, p), NEW s \in Builders(tokens)
  PROVE  Runs(tokens, s, Statement(p, s))
<1>1. CASE Code(s) = "If"
  BY <1>1, IfStatementRuns DEF Statement
<1>2. CASE Code(s) = "Return"
  BY <1>2, ReturnStatementRuns DEF Statement
<1>3. CASE Code(s) = "Function"
  BY <1>3, FunctionDefRuns DEF Statement
<1>4. CASE Code(s) = "Let"
  BY <1>4, LetStatementRuns DEF Statement
<1>5. CASE Code(s) = "End"
  <2>1. Beside(s, s)
    BY DEF Beside
  <2>2. Runs(tokens, s, s)
    BY <2>1, BesideRuns
  <2> QED
    BY <1>5, <2>2 DEF Statement
<1>6. CASE Code(s) \notin {"If", "Return", "Function", "Let", "End"}
  BY <1>6, ExprStatementRuns DEF Statement
<1> QED
  BY <1>1, <1>2, <1>3, <1>4, <1>5, <1>6

(* A list of statements is a block, when the descent below it obeys. *)
LEMMA StatementListRuns ==
  ASSUME NEW tokens \in Seq(Tokens), NEW p, Calculates(tokens, p), Performs(tokens, p),
         ReadsParameters(tokens, p), NEW s \in Builders(tokens)
  PROVE  Runs(tokens, s, StatementList(p, s))
<1> DEFINE x == Statement(p, s)
           y == AfterSemicolon(x)
           z == MoreStatements(p, y)
<1>1. Runs(tokens, s, x) /\ x \in Builders(tokens)
  BY StatementRuns, RunsBuilder
<1> HIDE DEF x
<1>2. Runs(tokens, x, y) /\ y \in Builders(tokens)
  <2>1. y \in Builders(tokens) /\ Beside(x, y) /\ y.out = x.out /\ y.failed = x.failed
    BY <1>1, AdvancedState DEF AfterSemicolon, Beside
  <2> HIDE DEF y
  <2> QED
    BY <1>1, <2>1, BesideRuns
<1> HIDE DEF y
<1>3. Runs(tokens, y, z)
  <2>1. Runs(tokens, y, p[<<"StatementList", y, 0>>])
    BY <1>2 DEF Performs
  <2>2. Runs(tokens, y, y)
    <3>1. Beside(y, y)
      BY DEF Beside
    <3> QED
      BY <1>2, <3>1, BesideRuns
  <2> QED
    BY <2>1, <2>2 DEF MoreStatements
<1>4. Runs(tokens, s, z)
  BY <1>1, <1>2, <1>3, RunsThen
<1> QED
  BY <1>4 DEF StatementList, y, x

-----------------------------------------------------------------------------
(* The descent, from its bottom.                                           *)

Obeys(tokens, p) == Calculates(tokens, p) /\ Performs(tokens, p) /\ ReadsParameters(tokens, p)

Level(tokens, k, q) ==
  [c \in Calls(tokens) |-> IF k = 0 THEN TooDeep(c[1], c[2])
                           ELSE Procedure(q, c[1], c[2], c[3])]

(* What a level of the descent answers. *)
LEMMA LevelMeans ==
  ASSUME NEW tokens, NEW k, NEW q, NEW s \in States(tokens), NEW n \in Nat,
         NEW name \in Procedures
  PROVE  Level(tokens, k, q)[<<name, s, n>>] =
           IF k = 0 THEN TooDeep(name, s) ELSE Procedure(q, name, s, n)
<1>1. <<name, s, n>> \in Calls(tokens)
  BY DEF Calls
<1> QED
  BY <1>1 DEF Level

(* The bottom of the descent fails, and so obeys. *)
LEMMA BottomObeys ==
  ASSUME NEW tokens, NEW q
  PROVE  Obeys(tokens, Level(tokens, 0, q))
<1> DEFINE p == Level(tokens, 0, q)
<1>1. ASSUME NEW s \in States(tokens), NEW n \in Nat
      PROVE  /\ \A name \in {"Expression", "Operands", "Power", "StatementList", "ParameterList"} :
                  p[<<name, s, n>>] = Fail(s)
             /\ p[<<"MoreExpressions", s, n>>] = <<Fail(s), 0>>
  <2>1. \A name \in Procedures : p[<<name, s, n>>] = TooDeep(name, s)
    <3> PICK z : z = 0
      OBVIOUS
    <3>1. \A name \in Procedures : Level(tokens, z, q)[<<name, s, n>>] = TooDeep(name, s)
      BY LevelMeans
    <3> QED
      BY <3>1
  <2> HIDE DEF p
  <2>2. /\ TooDeep("MoreExpressions", s) = <<Fail(s), 0>>
        /\ \A name \in {"Expression", "Operands", "Power", "StatementList", "ParameterList"} :
             name \in Procedures /\ TooDeep(name, s) = Fail(s)
    BY DEF TooDeep, Procedures
  <2>3. "MoreExpressions" \in Procedures
    BY DEF Procedures
  <2> QED
    BY <2>1, <2>2, <2>3
<1> HIDE DEF p
<1>2. Calculates(tokens, p)
  <2> SUFFICES ASSUME NEW s \in Builders(tokens)
               PROVE  /\ \A n \in 1..5 : Evaluates(tokens, s, p[<<"Expression", s, n>>], 0, 1)
                      /\ \A n \in 1..4 : Evaluates(tokens, s, p[<<"Operands", s, n>>], 1, 1)
                      /\ Evaluates(tokens, s, p[<<"Power", s, 0>>], 0, 1)
                      /\ \A n \in Nat :
                           LET e == p[<<"MoreExpressions", s, n>>]
                           IN  e[2] \in Nat /\ Evaluates(tokens, s, e[1], n, e[2])
    BY DEF Calculates
  <2>1. s \in States(tokens)
    BY DEF Builders
  <2>2. \A a, b : Evaluates(tokens, s, Fail(s), a, b)
    BY <2>1, FailEvaluates
  <2>3. /\ \A n \in 1..5 : p[<<"Expression", s, n>>] = Fail(s)
        /\ \A n \in 1..4 : p[<<"Operands", s, n>>] = Fail(s)
        /\ p[<<"Power", s, 0>>] = Fail(s)
        /\ \A n \in Nat : p[<<"MoreExpressions", s, n>>] = <<Fail(s), 0>>
    <3>1. /\ \A n \in Nat : /\ p[<<"Expression", s, n>>] = Fail(s)
                           /\ p[<<"Operands", s, n>>] = Fail(s)
                           /\ p[<<"Power", s, n>>] = Fail(s)
                           /\ p[<<"MoreExpressions", s, n>>] = <<Fail(s), 0>>
      BY <1>1, <2>1
    <3>2. 1..5 \subseteq Nat /\ 1..4 \subseteq Nat /\ 0 \in Nat
      OBVIOUS
    <3> QED
      BY <3>1, <3>2
  <2> QED
    BY <2>2, <2>3
<1>3. Performs(tokens, p)
  <2> SUFFICES ASSUME NEW s \in Builders(tokens)
               PROVE  Runs(tokens, s, p[<<"StatementList", s, 0>>])
    BY DEF Performs
  <2>1. s \in States(tokens) /\ p[<<"StatementList", s, 0>>] = Fail(s)
    BY <1>1 DEF Builders
  <2> QED
    BY <2>1, FailRuns
<1>4. ReadsParameters(tokens, p)
  BY <1>1, FailDeclares DEF ReadsParameters
<1> QED
  BY <1>2, <1>3, <1>4 DEF Obeys, p

(* A level above one that obeys obeys: the induction step over all procedures. *)
LEMMA LevelObeys ==
  ASSUME NEW tokens \in Seq(Tokens), NEW k, k # 0, NEW q, Obeys(tokens, q)
  PROVE  Obeys(tokens, Level(tokens, k, q))
<1> DEFINE p == Level(tokens, k, q)
<1>1. ASSUME NEW s \in States(tokens), NEW n \in Nat
      PROVE  /\ p[<<"Expression", s, n>>] = Expression(q, s, n)
             /\ p[<<"Operands", s, n>>] = Operands(q, s, n)
             /\ p[<<"Power", s, n>>] = Power(q, s)
             /\ p[<<"MoreExpressions", s, n>>] = MoreExpressions(q, s, n)
             /\ p[<<"StatementList", s, n>>] = StatementList(q, s)
             /\ p[<<"ParameterList", s, n>>] = ParameterList(q, s, n)
  <2>1. \A name \in Procedures : p[<<name, s, n>>] = Procedure(q, name, s, n)
    BY LevelMeans
  <2> HIDE DEF p
  <2> QED
    BY <2>1 DEF Procedure, Procedures
<1> HIDE DEF p
<1>2. Calculates(tokens, q) /\ Performs(tokens, q) /\ ReadsParameters(tokens, q)
  BY DEF Obeys
<1>3. Calculates(tokens, p)
  <2> SUFFICES ASSUME NEW s \in Builders(tokens)
               PROVE  /\ \A n \in 1..5 : Evaluates(tokens, s, p[<<"Expression", s, n>>], 0, 1)
                      /\ \A n \in 1..4 : Evaluates(tokens, s, p[<<"Operands", s, n>>], 1, 1)
                      /\ Evaluates(tokens, s, p[<<"Power", s, 0>>], 0, 1)
                      /\ \A n \in Nat :
                           LET e == p[<<"MoreExpressions", s, n>>]
                           IN  e[2] \in Nat /\ Evaluates(tokens, s, e[1], n, e[2])
    BY DEF Calculates
  <2>1. s \in States(tokens)
    BY DEF Builders
  <2>2. ASSUME NEW n \in 1..5 PROVE Evaluates(tokens, s, p[<<"Expression", s, n>>], 0, 1)
    <3>1. p[<<"Expression", s, n>>] = Expression(q, s, n)
      <4>1. n \in Nat
        OBVIOUS
      <4> QED
        BY <1>1, <2>1, <4>1
    <3>2. Evaluates(tokens, s, Expression(q, s, n), 0, 1)
      BY <1>2, ExpressionEvaluates
    <3> QED
      BY <3>1, <3>2
  <2>3. ASSUME NEW n \in 1..4 PROVE Evaluates(tokens, s, p[<<"Operands", s, n>>], 1, 1)
    <3>1. p[<<"Operands", s, n>>] = Operands(q, s, n)
      <4>1. n \in Nat
        OBVIOUS
      <4> QED
        BY <1>1, <2>1, <4>1
    <3>2. Evaluates(tokens, s, Operands(q, s, n), 1, 1)
      BY <1>2, OperandsEvaluates
    <3> QED
      BY <3>1, <3>2
  <2>4. Evaluates(tokens, s, p[<<"Power", s, 0>>], 0, 1)
    BY <1>1, <1>2, <2>1, PowerEvaluates
  <2>5. ASSUME NEW n \in Nat
        PROVE  LET e == p[<<"MoreExpressions", s, n>>]
               IN  e[2] \in Nat /\ Evaluates(tokens, s, e[1], n, e[2])
    <3>1. p[<<"MoreExpressions", s, n>>] = MoreExpressions(q, s, n)
      BY <1>1, <2>1
    <3> QED
      BY <1>2, <3>1, MoreExpressionsEvaluates
  <2> QED
    BY <2>2, <2>3, <2>4, <2>5
<1>4. Performs(tokens, p)
  <2> SUFFICES ASSUME NEW s \in Builders(tokens)
               PROVE  Runs(tokens, s, p[<<"StatementList", s, 0>>])
    BY DEF Performs
  <2>1. s \in States(tokens) /\ p[<<"StatementList", s, 0>>] = StatementList(q, s)
    BY <1>1 DEF Builders
  <2> QED
    BY <1>2, <2>1, StatementListRuns
<1>5. ReadsParameters(tokens, p)
  <2> SUFFICES ASSUME NEW s \in States(tokens), NEW n \in Nat, Declaring(s)
               PROVE  Declares(tokens, s, p[<<"ParameterList", s, n>>])
    BY DEF ReadsParameters
  <2> QED
    BY <1>1, <1>2, ParameterListDeclares
<1> QED
  BY <1>3, <1>4, <1>5 DEF Obeys, p

Descends(tokens, m, u) == u = [k \in 0..m |-> Level(tokens, k, u[k - 1])]

(* The descent is the top of levels each built on the one below. *)
LEMMA DescentDefined ==
  ASSUME NEW tokens, Len(tokens) \in Nat
  PROVE  \E u : Descends(tokens, Depth(tokens), u) /\ Descent(tokens) = u[Depth(tokens)]
<1> DEFINE N == Depth(tokens)
           Made == {m \in 0..N : \E u : Descends(tokens, m, u)}
<1>1. N \in Nat
  BY DEF Depth
<1>2. \A q : Level(tokens, 0, q) = Level(tokens, 0, 0)
  BY DEF Level
<1>3. 0 \in Made
  <2> DEFINE u == [k \in 0..0 |-> Level(tokens, 0, 0)]
  <2>1. \A k \in 0..0 : k = 0
    OBVIOUS
  <2>2. \A k \in 0..0 : u[k] = Level(tokens, k, u[k - 1])
    BY <1>2, <2>1
  <2>3. u = [k \in 0..0 |-> u[k]]
    OBVIOUS
  <2> HIDE DEF u
  <2>4. Descends(tokens, 0, u)
    BY <2>2, <2>3 DEF Descends
  <2> QED
    BY <1>1, <2>4
<1>4. ASSUME NEW m \in 0..(N - 1), m \in Made PROVE m + 1 \in Made
  <2>1. PICK u : Descends(tokens, m, u)
    BY <1>4
  <2> DEFINE w == [k \in 0..(m + 1) |-> IF k <= m THEN u[k] ELSE Level(tokens, k, u[m])]
  <2>2. ASSUME NEW k \in 0..(m + 1) PROVE w[k] = Level(tokens, k, w[k - 1])
    <3>1. CASE k <= m /\ k # 0
      <4>1. k \in 0..m /\ k - 1 \in 0..m /\ k - 1 \in 0..(m + 1) /\ k - 1 <= m
        BY <3>1
      <4>2. u[k] = Level(tokens, k, u[k - 1])
        BY <2>1, <4>1 DEF Descends
      <4>3. w[k] = u[k] /\ w[k - 1] = u[k - 1]
        BY <3>1, <4>1
      <4> HIDE DEF w
      <4> QED
        BY <4>2, <4>3
    <3>2. CASE k = 0
      <4>1. 0 \in 0..m /\ 0 \in 0..(m + 1) /\ 0 <= m
        OBVIOUS
      <4>2. u[0] = Level(tokens, 0, u[0 - 1])
        BY <2>1, <4>1 DEF Descends
      <4>3. w[0] = u[0]
        BY <4>1
      <4> HIDE DEF w
      <4>4. Level(tokens, 0, w[0 - 1]) = Level(tokens, 0, u[0 - 1])
        BY <1>2
      <4> QED
        BY <3>2, <4>2, <4>3, <4>4
    <3>3. CASE k = m + 1
      <4>1. k - 1 = m /\ m \in 0..(m + 1) /\ ~(k <= m) /\ m <= m
        BY <3>3
      <4>2. w[k] = Level(tokens, k, u[m]) /\ w[k - 1] = u[m]
        BY <4>1
      <4> HIDE DEF w
      <4> QED
        BY <4>2
    <3> QED
      BY <3>1, <3>2, <3>3
  <2>3. w = [k \in 0..(m + 1) |-> w[k]]
    OBVIOUS
  <2> HIDE DEF w
  <2>4. Descends(tokens, m + 1, w)
    BY <2>2, <2>3 DEF Descends
  <2> QED
    BY <1>1, <1>4, <2>4
<1>5. N \in Made
  <2>1. N \in 0..N /\ \A m \in 0..(N - 1) : m \in Made => m + 1 \in Made
    BY <1>1, <1>4
  <2> HIDE DEF Made, N
  <2> QED
    BY <1>1, <1>3, <2>1, InductionUpTo
<1>6. PICK u : Descends(tokens, N, u)
  BY <1>5
<1> DEFINE Goes(g) == [k \in 0..N |-> [c \in Calls(tokens) |->
                         IF k = 0 THEN TooDeep(c[1], c[2])
                         ELSE Procedure(g[k - 1], c[1], c[2], c[3])]]
           upTo == CHOOSE g : g = Goes(g)
<1>7. \A g : Goes(g) = [k \in 0..N |-> Level(tokens, k, g[k - 1])]
  BY DEF Level
<1>8. Descent(tokens) = upTo[N]
  BY DEF Descent
<1>9. u = Goes(u)
  <2> HIDE DEF Goes, N
  <2> QED
    BY <1>6, <1>7 DEF Descends
<1>10. upTo = Goes(upTo)
  <2> HIDE DEF Goes
  <2> QED
    BY <1>9
<1>11. Descends(tokens, N, upTo)
  <2> HIDE DEF upTo, Goes, N
  <2> QED
    BY <1>7, <1>10 DEF Descends
<1> QED
  BY <1>8, <1>11

(* The whole descent obeys. *)
LEMMA DescentObeys ==
  ASSUME NEW tokens \in Seq(Tokens)
  PROVE  Obeys(tokens, Descent(tokens))
<1> DEFINE N == Depth(tokens)
<1>1. Len(tokens) \in Nat
  BY LenProperties
<1>2. N \in Nat
  BY <1>1 DEF Depth
<1>3. PICK u : Descends(tokens, N, u) /\ Descent(tokens) = u[N]
  BY <1>1, DescentDefined
<1> HIDE DEF N
<1> DEFINE Good == {k \in 0..N : Obeys(tokens, u[k])}
<1>4. \A k \in 0..N : u[k] = Level(tokens, k, u[k - 1])
  BY <1>3 DEF Descends
<1>5. 0 \in Good
  <2>1. 0 \in 0..N /\ u[0] = Level(tokens, 0, u[0 - 1])
    BY <1>2, <1>4
  <2> PICK q : q = u[0 - 1]
    OBVIOUS
  <2>2. Obeys(tokens, Level(tokens, 0, q))
    BY BottomObeys
  <2> QED
    BY <2>1, <2>2
<1>6. ASSUME NEW k \in 0..(N - 1), k \in Good PROVE k + 1 \in Good
  <2> PICK n : n = k + 1
    OBVIOUS
  <2>1. n \in 0..N /\ n # 0 /\ n - 1 = k
    BY <1>2
  <2>2. u[n] = Level(tokens, n, u[k])
    BY <1>4, <2>1
  <2>3. Obeys(tokens, u[k])
    BY <1>6
  <2> PICK q : q = u[k]
    OBVIOUS
  <2>4. Obeys(tokens, Level(tokens, n, q))
    BY <2>1, <2>3, LevelObeys
  <2> QED
    BY <2>1, <2>2, <2>4
<1>7. N \in Good
  <2>1. N \in 0..N /\ \A k \in 0..(N - 1) : k \in Good => k + 1 \in Good
    BY <1>2, <1>6
  <2> HIDE DEF Good
  <2> QED
    BY <1>2, <1>5, <2>1, InductionUpTo
<1> QED
  BY <1>3, <1>7

(* The builder starts sound, outside functions, with no code. *)
LEMMA StartBuilder ==
  ASSUME NEW tokens
  PROVE  /\ Start(tokens) \in Builders(tokens) /\ ~Start(tokens).failed
         /\ Start(tokens).inFunction = FALSE /\ Start(tokens).out = <<>>
<1> DEFINE s == Start(tokens)
<1>1. /\ s \in States(tokens) /\ ~s.failed /\ s.inFunction = FALSE /\ s.out = <<>>
      /\ s.names = <<>> /\ s.isFunction = <<>> /\ s.functions = <<>> /\ s.current = 0
  BY DEF Start, States
<1> HIDE DEF s
<1>2. Len(<<>>) = 0 /\ \A f \in 1..0 : FALSE
  OBVIOUS
<1>3. Tables(s).names = <<>> /\ Tables(s).isFunction = <<>> /\ Tables(s).functions = <<>>
  BY <1>1 DEF Tables
<1>4. Shaped(Tables(s))
  BY <1>1, <1>3, StateTables DEF Shaped
<1>5. AllCoded(Tables(s))
  BY <1>2, <1>3 DEF AllCoded
<1>6. Placed(Tables(s), s.current, s.inFunction)
  BY <1>1, <1>2, <1>3 DEF Placed
<1>7. s \in Builders(tokens)
  BY <1>1, <1>4, <1>5, <1>6 DEF Builders, Sound
<1> QED
  BY <1>1, <1>7 DEF s

(* The module of a builder's state is what its tables say. *)
LEMMA ModuleMeans ==
  ASSUME NEW tokens, NEW s \in States(tokens), Shaped(Tables(s)), NEW source
  PROVE  LET m == ModuleOf(s, source)
             T == Tables(s)
         IN  /\ Represents(m, T)
             /\ m.size = Len(s.names) /\ Len(s.names) \in Nat
             /\ m.symbols \in [0..(m.size - 1) -> Symbol]
             /\ m.constants = s.constants
             /\ FunctionIds(m) = {f \in 0..(Len(s.names) - 1) : s.isFunction[f + 1]}
             /\ m.code[Main] = s.out
             /\ m.code = [c \in CodeIds(m) |-> m.code[c]]
             /\ m.nargs = [f \in FunctionIds(m) |-> m.nargs[f]]
             /\ m.nlocals = [f \in FunctionIds(m) |-> m.nlocals[f]]
             /\ \A f \in FunctionIds(m) : m.code[f] = s.functions[f + 1].code
<1> DEFINE m == ModuleOf(s, source)
           T == Tables(s)
           n == Len(s.names)
           indices == 0..(n - 1)
           functions == {i \in indices : s.isFunction[i + 1]}
<1>1. /\ m.size = n
      /\ m.symbols = [i \in indices |->
           [type |-> IF i \in functions THEN "UserFunc" ELSE "Undefined", v |-> 0]]
      /\ m.code = [c \in {-1} \cup functions |->
           IF c = -1 THEN s.out ELSE s.functions[c + 1].code]
      /\ m.nargs = [f \in functions |-> s.functions[f + 1].nargs]
      /\ m.nlocals = [f \in functions |-> Len(s.functions[f + 1].locals)]
      /\ m.constants = s.constants
  BY DEF ModuleOf
<1> HIDE DEF m
<1>2. n \in Nat /\ functions \subseteq indices /\ -1 \notin functions
  BY TablesLengths DEF Tables
<1> HIDE DEF functions
<1>3. /\ DOMAIN m.symbols = indices
      /\ \A i \in indices : m.symbols[i].type = "UserFunc" <=> i \in functions
      /\ \A i \in indices : m.symbols[i] \in Symbol
  BY <1>1 DEF Symbol, SymbolTypes
<1>4. FunctionIds(m) = functions
  BY <1>2, <1>3 DEF FunctionIds
<1>5. m.symbols \in [indices -> Symbol]
  BY <1>1, <1>3
<1>6. CodeIds(m) = {-1} \cup functions /\ Main = -1
  BY <1>4 DEF CodeIds, Main
<1>7. /\ m.code[Main] = s.out
      /\ m.code = [c \in CodeIds(m) |-> m.code[c]]
      /\ m.nargs = [f \in FunctionIds(m) |-> m.nargs[f]]
      /\ m.nlocals = [f \in FunctionIds(m) |-> m.nlocals[f]]
      /\ \A f \in functions : m.code[f] = s.functions[f + 1].code
  BY <1>1, <1>2, <1>4, <1>6
<1>8. \A f \in functions : /\ m.nargs[f] = s.functions[f + 1].nargs
                           /\ m.nlocals[f] = Len(s.functions[f + 1].locals)
  BY <1>1
<1>9. \A f : f \in functions <=> Known(T, f)
  BY DEF functions, Known, Tables
<1>10. Represents(m, T)
  BY <1>3, <1>4, <1>8, <1>9 DEF Represents, Arity, Tables
<1> QED
  BY <1>1, <1>2, <1>4, <1>5, <1>7, <1>10 DEF m, functions

\* What a program that the generator accepts leaves.
LEMMA GeneratedBuilder ==
  ASSUME NEW tokens \in Seq(Tokens), ~Generated(tokens).failed
  PROVE  LET s == Generated(tokens)
         IN  /\ s \in Builders(tokens) /\ Shaped(Tables(s)) /\ AllCoded(Tables(s))
             /\ \E F \in Codes : /\ s.out = Append(F, Instr("Halt", NoArg))
                                 /\ Block(Tables(s), 0, F) /\ Regular(Tables(s), F)
<1> DEFINE b == Start(tokens)
           d == Descent(tokens)[<<"StatementList", b, 0>>]
           i == Instr("Halt", NoArg)
           s == Generated(tokens)
<1>1. /\ b \in Builders(tokens) /\ ~b.failed
      /\ b.inFunction = FALSE /\ b.out = <<>>
  BY StartBuilder
<1> HIDE DEF b
<1>2. Runs(tokens, b, d)
  BY <1>1, DescentObeys DEF Obeys, Performs
<1>3. d \in Builders(tokens) /\ d \in States(tokens)
  BY <1>2, RunsBuilder
<1>4. s = Emit(d, "Halt", NoArg)
  BY DEF Generated, b
<1> HIDE DEF d, s
<1>5. /\ s \in Builders(tokens) /\ Beside(d, s)
      /\ s.out = d.out \o <<i>> /\ s.failed = d.failed
  <2>1. i \in Instruction
    BY DEF Instr, Instruction, OpCodes, NoArg
  <2> PICK none : none = NoArg
    OBVIOUS
  <2> QED
    BY <1>3, <1>4, <2>1, EmitState
<1>6. ~s.failed /\ ~d.failed
  BY <1>5 DEF s
<1>7. PICK F \in Codes : /\ d.out = b.out \o F
                         /\ Regular(Tables(d), F) /\ Open(F)
                         /\ d.inFunction = b.inFunction => Block(Tables(d), Home(b), F)
  BY <1>2, <1>6 DEF Runs
<1>8. d.inFunction = b.inFunction /\ Home(b) = 0
  <2>1. d.inFunction => b.inFunction
    BY <1>2, <1>6 DEF Runs, Moves
  <2>2. d.inFunction \in BOOLEAN
    BY <1>3, StateTables
  <2> QED
    BY <1>1, <2>1, <2>2 DEF Home
<1>9. Block(Tables(d), 0, F)
  BY <1>7, <1>8
<1>10. d.out = F
  BY <1>1, <1>7, ConcatEmptySeq DEF Codes
<1>11. F \o <<i>> = Append(F, i)
  BY DEF Codes
<1>12. Tables(s) = Tables(d)
  BY <1>5 DEF Beside
<1>13. Shaped(Tables(s)) /\ AllCoded(Tables(s))
  BY <1>5, <1>6, BuilderSound
<1>14. s.out = Append(F, i) /\ Block(Tables(s), 0, F) /\ Regular(Tables(s), F)
  BY <1>5, <1>7, <1>9, <1>10, <1>11, <1>12
<1> HIDE DEF i
<1>15. /\ s \in Builders(tokens) /\ Shaped(Tables(s)) /\ AllCoded(Tables(s))
       /\ \E G \in Codes : /\ s.out = Append(G, i)
                           /\ Block(Tables(s), 0, G) /\ Regular(Tables(s), G)
  BY <1>5, <1>13, <1>14
<1> QED
  BY <1>15 DEF s, i

(* Whatever tokens it is given, a generator that does not fail leaves code that keeps
   the discipline of the machine, where the module is ordinary (TByteCodeBuilder::build
   and the procedures below it). *)
THEOREM GeneratedDisciplined ==
  ASSUME NEW tokens \in Seq(Tokens), ~Generated(tokens).failed, NEW source
  PROVE  LET m == ModuleOf(Generated(tokens), source)
         IN  Ordinary(m) => Disciplined(m)
<1> DEFINE s == Generated(tokens)
           T == Tables(s)
           m == ModuleOf(s, source)
<1>1. s \in States(tokens) /\ Shaped(T) /\ AllCoded(T)
  BY GeneratedBuilder DEF Builders
<1>2. PICK F \in Codes : s.out = Append(F, Instr("Halt", NoArg)) /\ Block(T, 0, F)
  BY GeneratedBuilder
<1> HIDE DEF s
<1>3. /\ Represents(m, T)
      /\ m.size = Len(s.names) /\ Len(s.names) \in Nat
      /\ m.symbols \in [0..(m.size - 1) -> Symbol]
      /\ m.constants = s.constants
      /\ m.code[Main] = s.out
      /\ m.code = [c \in CodeIds(m) |-> m.code[c]]
      /\ m.nargs = [f \in FunctionIds(m) |-> m.nargs[f]]
      /\ m.nlocals = [f \in FunctionIds(m) |-> m.nlocals[f]]
      /\ \A f \in FunctionIds(m) : m.code[f] = s.functions[f + 1].code
  BY <1>1, ModuleMeans
<1> SUFFICES ASSUME Ordinary(m) PROVE Disciplined(m)
  BY DEF s, m
<1> HIDE DEF m
<1>4. Len(m.code[Main]) > 0 /\ \E k : Countable(m, Main, k)
  BY <1>1, <1>2, <1>3, TopLevelCounted
<1>5. ASSUME NEW c \in FunctionIds(m)
      PROVE  Len(m.code[c]) > 0 /\ \E k : Countable(m, c, k)
  <2> DEFINE f == c + 1
  <2>1. f \in 1..Len(T.names) /\ T.isFunction[f]
    <3>1. Known(T, c) /\ Len(T.names) \in Nat
      BY <1>1, <1>3, TablesLengths DEF Represents
    <3> QED
      BY <3>1 DEF Known
  <2>2. m.code[c] = T.functions[f].code /\ T.functions[f].code \in Codes
    <3>1. T.functions[f].code \in Codes
      BY <1>1, <2>1, TablesLengths
    <3> QED
      BY <1>3, <3>1 DEF Tables
  <2>3. Open(T.functions[f].code) \/ Finished(T, f)
    BY <1>1, <2>1 DEF AllCoded, Coded
  <2>4. ~Open(T.functions[f].code)
    <3>1. EndsInReturn(m.code[c])
      BY DEF Ordinary
    <3>2. Len(m.code[c]) \in Nat
      BY <2>2, LenProperties DEF Codes
    <3>3. /\ Len(m.code[c]) - 1 \in 1..Len(m.code[c])
          /\ m.code[c][Len(m.code[c]) - 1].op = "PushNone"
      BY <3>1, <3>2 DEF EndsInReturn
    <3> QED
      BY <2>2, <3>3 DEF Open
  <2>5. PICK G \in Codes : T.functions[f].code = G \o Ending /\ Block(T, c + 1, G)
    BY <2>3, <2>4 DEF Finished
  <2> QED
    BY <1>1, <1>3, <2>2, <2>5, FunctionCounted
<1>6. \A c \in CodeIds(m) : Len(m.code[c]) > 0 /\ \E k : Countable(m, c, k)
  BY <1>4, <1>5 DEF CodeIds
<1> QED
  BY <1>6, CountedDisciplined

(* Whatever tokens it is given, a generator that does not fail leaves a module, whose
   instructions name symbols and constants that exist, and no jump goes back. *)
THEOREM GeneratedModule ==
  ASSUME NEW tokens \in Seq(Tokens), ~Generated(tokens).failed, NEW source
  PROVE  IsModule(ModuleOf(Generated(tokens), source)) /\ GoesForward(ModuleOf(Generated(tokens), source))
<1> DEFINE s == Generated(tokens)
           T == Tables(s)
           m == ModuleOf(s, source)
           i == Instr("Halt", NoArg)
<1>1. s \in States(tokens) /\ Shaped(T) /\ AllCoded(T)
  BY GeneratedBuilder DEF Builders
<1>2. PICK F \in Codes : s.out = Append(F, i) /\ Regular(T, F)
  BY GeneratedBuilder
<1> HIDE DEF s
<1>3. /\ Represents(m, T)
      /\ m.size = Len(s.names) /\ Len(s.names) \in Nat
      /\ m.symbols \in [0..(m.size - 1) -> Symbol]
      /\ m.constants = s.constants
      /\ m.code[Main] = s.out
      /\ m.code = [c \in CodeIds(m) |-> m.code[c]]
      /\ m.nargs = [f \in FunctionIds(m) |-> m.nargs[f]]
      /\ m.nlocals = [f \in FunctionIds(m) |-> m.nlocals[f]]
      /\ \A f \in FunctionIds(m) : m.code[f] = s.functions[f + 1].code
  BY <1>1, ModuleMeans
<1> HIDE DEF m
<1>4. ASSUME NEW f \in FunctionIds(m)
      PROVE  /\ f + 1 \in 1..Len(T.names) /\ m.nargs[f] \in Nat /\ m.nlocals[f] \in Nat
             /\ m.code[f] \in Codes /\ Regular(T, m.code[f])
  <2> DEFINE g == f + 1
  <2>1. g \in 1..Len(T.names) /\ T.isFunction[g]
    <3>1. Known(T, f) /\ Len(T.names) \in Nat
      BY <1>1, <1>3, TablesLengths DEF Represents
    <3> QED
      BY <3>1 DEF Known
  <2>2. /\ T.functions[g].code \in Codes /\ T.functions[g].nargs \in Nat
        /\ Len(T.functions[g].locals) \in Nat
    BY <1>1, <2>1, TablesLengths
  <2>3. m.code[f] = T.functions[g].code
    BY <1>3 DEF Tables
  <2>4. m.nargs[f] = T.functions[g].nargs /\ m.nlocals[f] = Len(T.functions[g].locals)
    BY <1>3 DEF Represents, Arity
  <2>5. Regular(T, m.code[f])
    BY <1>1, <2>1, <2>3 DEF AllCoded, Coded
  <2> QED
    BY <2>1, <2>2, <2>3, <2>4, <2>5
<1>5. m.code[Main] \in Codes /\ Regular(T, m.code[Main])
  <2>1. i \in Instruction /\ i.op = "Halt"
    BY DEF Instr, Instruction, OpCodes, NoArg
  <2> HIDE DEF i
  <2>2. <<i>> \in Codes /\ Len(<<i>>) = 1 /\ <<i>>[1] = i /\ Append(F, i) = F \o <<i>>
    BY <2>1 DEF Codes
  <2>3. \A q \in 1..1 : q = 1
    OBVIOUS
  <2>4. Regular(T, <<i>>)
    BY <2>1, <2>2, <2>3 DEF Regular, Jumps
  <2>5. F \o <<i>> \in Codes /\ Regular(T, F \o <<i>>)
    BY <1>2, <2>2, <2>4, Joined, RegularConcat
  <2> QED
    BY <1>2, <1>3, <2>2, <2>5
<1>6. \A c \in CodeIds(m) : m.code[c] \in Codes /\ Regular(T, m.code[c])
  BY <1>4, <1>5 DEF CodeIds
<1>7. m.code \in [CodeIds(m) -> Seq(Instruction)]
  <2>1. \A c \in CodeIds(m) : m.code[c] \in Seq(Instruction)
    BY <1>6 DEF Codes
  <2> QED
    BY <1>3, <2>1
<1>8. m.nargs \in [FunctionIds(m) -> Nat] /\ m.nlocals \in [FunctionIds(m) -> Nat]
  <2>1. m.nargs \in [FunctionIds(m) -> Nat]
    BY <1>3, <1>4
  <2>2. m.nlocals \in [FunctionIds(m) -> Nat]
    BY <1>3, <1>4
  <2> QED
    BY <2>1, <2>2
<1>9. DOMAIN m.symbols = 0..(Len(T.names) - 1) /\ DOMAIN m.constants = 1..Len(T.constants)
  <2>1. s.constants \in Seq(Int)
    BY <1>1 DEF States
  <2> QED
    BY <1>3, <2>1 DEF Represents, Tables
<1>10. ASSUME NEW c \in CodeIds(m), NEW q \in 1..Len(m.code[c])
       PROVE  /\ m.code[c][q].op = "Load" => m.code[c][q].arg \in DOMAIN m.symbols
              /\ m.code[c][q].op = "Pushd" => m.code[c][q].arg \in DOMAIN m.constants
              /\ m.code[c][q].op \in Jumps => m.code[c][q].arg > 0
  BY <1>6, <1>9 DEF Regular
<1>11. m.constants \in Seq(Int)
  BY <1>1, <1>3 DEF States
<1>12. IsModule(m)
  BY <1>3, <1>7, <1>8, <1>10, <1>11 DEF IsModule
<1>13. GoesForward(m)
  <2>1. \A c \in CodeIds(m) : DOMAIN m.code[c] = 1..Len(m.code[c])
    BY <1>6 DEF Codes
  <2> QED
    BY <1>10, <2>1 DEF GoesForward, Jumps
<1> QED
  BY <1>12, <1>13 DEF m, s

-----------------------------------------------------------------------------
(* The syntax parser reads a source and keeps it.                          *)

\* The procedures of p leave a parser of the same tokens.
Reads(tokens, p) ==
  \A name \in Parser!Procedures, s \in Parser!States(tokens), n \in Nat :
    p[<<name, s, n>>] \in Parser!States(tokens)

\* The steps of the parser keep its tokens.
LEMMA ParserSteps ==
  ASSUME NEW tokens, NEW s \in Parser!States(tokens)
  PROVE  /\ Parser!Advanced(s) \in Parser!States(tokens)
         /\ Parser!Fail(s) \in Parser!States(tokens)
         /\ Parser!Forgiven(s) \in Parser!States(tokens)
         /\ \A b \in BOOLEAN : [s EXCEPT !.inFunction = b] \in Parser!States(tokens)
         /\ s.inFunction \in BOOLEAN /\ s.failed \in BOOLEAN
<1>1. s.inFunction \in BOOLEAN /\ s.failed \in BOOLEAN /\ s.pos + 1 \in Nat \ {0}
  BY DEF Parser!States
<1>2. Parser!Advanced(s) \in Parser!States(tokens)
  BY <1>1 DEF Parser!States, Parser!Advanced
<1>3. Parser!Fail(s) \in Parser!States(tokens) /\ Parser!Forgiven(s) \in Parser!States(tokens)
  BY DEF Parser!States, Parser!Fail, Parser!Forgiven
<1>4. ASSUME NEW b \in BOOLEAN PROVE [s EXCEPT !.inFunction = b] \in Parser!States(tokens)
  BY DEF Parser!States
<1> QED
  BY <1>1, <1>2, <1>3, <1>4

\* What the parser expects or passes over keeps them too.
LEMMA ParserExpects ==
  ASSUME NEW tokens, NEW s \in Parser!States(tokens)
  PROVE  /\ \A c : Parser!Expect(s, c) \in Parser!States(tokens)
         /\ Parser!Variable(s) \in Parser!States(tokens)
         /\ Parser!AfterSemicolon(s) \in Parser!States(tokens)
         /\ Parser!Named(s) \in Parser!States(tokens)
<1>1. Parser!Advanced(s) \in Parser!States(tokens) /\ Parser!Fail(s) \in Parser!States(tokens)
  BY ParserSteps
<1>2. Parser!Named(s) \in Parser!States(tokens)
  <2>1. Parser!Advanced(Parser!Advanced(s)) \in Parser!States(tokens)
    BY <1>1, ParserSteps
  <2> QED
    BY <2>1, ParserSteps DEF Parser!Named
<1> QED
  BY <1>1, <1>2 DEF Parser!Expect, Parser!Variable, Parser!AfterSemicolon

\* The calls one level deeper leave a parser of the same tokens.
LEMMA CallsRead ==
  ASSUME NEW tokens, NEW p, Reads(tokens, p), NEW s \in Parser!States(tokens), NEW n \in Nat
  PROVE  /\ p[<<"Expression", s, n>>] \in Parser!States(tokens)
         /\ p[<<"Operands", s, n>>] \in Parser!States(tokens)
         /\ p[<<"Power", s, n>>] \in Parser!States(tokens)
         /\ p[<<"PrimaryPlus", s, n>>] \in Parser!States(tokens)
         /\ p[<<"ExpressionList", s, n>>] \in Parser!States(tokens)
         /\ p[<<"FunctionArgumentList", s, n>>] \in Parser!States(tokens)
         /\ p[<<"StatementList", s, n>>] \in Parser!States(tokens)
BY DEF Reads, Parser!Procedures

\* The loosest level is one.
LEMMA LoosestIsLevel == Parser!Loosest \in Nat /\ 0 \in Nat
BY DEF Parser!Loosest

\* The procedures of an expression keep the tokens.
LEMMA ExpressionsRead ==
  ASSUME NEW tokens, NEW p, Reads(tokens, p), NEW s \in Parser!States(tokens), NEW n \in Nat
  PROVE  /\ Parser!Expression(p, s, n) \in Parser!States(tokens)
         /\ Parser!Operands(p, s, n) \in Parser!States(tokens)
         /\ Parser!Exponent(p, s) \in Parser!States(tokens)
         /\ Parser!ExpressionList(p, s) \in Parser!States(tokens)
         /\ Parser!FunctionCall(p, s) \in Parser!States(tokens)
         /\ Parser!Factor(p, s) \in Parser!States(tokens)
<1>1. n + 1 \in Nat
  OBVIOUS
<1>2. PICK k \in Nat : k = n + 1
  BY <1>1
<1>3. PICK z \in Nat : z = 0
  OBVIOUS
<1>4. PICK l \in Nat : l = Parser!Loosest
  BY LoosestIsLevel
<1> DEFINE next == Parser!Advanced(s)
<1>5. next \in Parser!States(tokens)
  BY ParserSteps
<1> HIDE DEF next
<1>6. Parser!Expression(p, s, n) \in Parser!States(tokens)
  <2>1. p[<<"Power", s, z>>] \in Parser!States(tokens)
    BY CallsRead
  <2>2. p[<<"Expression", s, k>>] \in Parser!States(tokens)
    BY CallsRead
  <2> DEFINE e == p[<<"Expression", s, k>>]
  <2> HIDE DEF e
  <2>3. p[<<"Operands", e, n>>] \in Parser!States(tokens)
    BY <2>2, CallsRead DEF e
  <2> QED
    BY <1>2, <1>3, <2>1, <2>3 DEF Parser!Expression, e
<1>7. Parser!Operands(p, s, n) \in Parser!States(tokens)
  <2>1. p[<<"Expression", next, k>>] \in Parser!States(tokens)
    BY <1>5, CallsRead
  <2> DEFINE e == p[<<"Expression", next, k>>]
  <2> HIDE DEF e
  <2>2. p[<<"Operands", e, n>>] \in Parser!States(tokens)
    BY <2>1, CallsRead DEF e
  <2> QED
    BY <1>2, <2>2 DEF Parser!Operands, e, next
<1>8. Parser!Exponent(p, s) \in Parser!States(tokens)
  <2>1. p[<<"Power", next, z>>] \in Parser!States(tokens)
    BY <1>5, CallsRead
  <2> QED
    BY <1>3, <2>1 DEF Parser!Exponent, next
<1>9. p[<<"Expression", next, l>>] \in Parser!States(tokens)
      /\ p[<<"Expression", s, l>>] \in Parser!States(tokens)
  BY <1>5, CallsRead
<1>10. Parser!ExpressionList(p, s) \in Parser!States(tokens)
  <2> DEFINE e == p[<<"Expression", next, l>>]
  <2> HIDE DEF e
  <2>1. p[<<"ExpressionList", e, z>>] \in Parser!States(tokens)
    BY <1>9, CallsRead DEF e
  <2> QED
    BY <1>3, <1>4, <2>1 DEF Parser!ExpressionList, e, next
<1>11. Parser!FunctionCall(p, s) \in Parser!States(tokens)
  <2> DEFINE e == p[<<"Expression", s, l>>]
             a == IF Parser!Code(s) = "RightParenthesis" THEN s
                  ELSE p[<<"ExpressionList", e, z>>]
  <2>1. p[<<"ExpressionList", e, z>>] \in Parser!States(tokens)
    <3> HIDE DEF e
    <3> QED
      BY <1>9, CallsRead DEF e
  <2>2. a \in Parser!States(tokens)
    BY <2>1
  <2>3. Parser!FunctionCall(p, s) = Parser!Expect(a, "RightParenthesis")
    BY <1>3, <1>4 DEF Parser!FunctionCall
  <2> HIDE DEF a
  <2> QED
    BY <2>2, <2>3, ParserExpects
<1>12. Parser!Factor(p, s) \in Parser!States(tokens)
  <2> DEFINE e == p[<<"Expression", next, l>>]
  <2> HIDE DEF e
  <2>1. /\ Parser!Expect(e, "RightParenthesis") \in Parser!States(tokens)
        /\ Parser!Forgiven(e) \in Parser!States(tokens)
        /\ Parser!Fail(s) \in Parser!States(tokens)
    BY <1>9, ParserExpects, ParserSteps DEF e
  <2> QED
    BY <1>4, <1>5, <2>1 DEF Parser!Factor, e, next
<1> QED
  BY <1>6, <1>7, <1>8, <1>10, <1>11, <1>12

\* So do a power and what follows a factor.
LEMMA PowersRead ==
  ASSUME NEW tokens, NEW p, Reads(tokens, p), NEW s \in Parser!States(tokens)
  PROVE  /\ Parser!Power(p, s) \in Parser!States(tokens)
         /\ Parser!PrimaryPlus(p, s) \in Parser!States(tokens)
<1>1. PICK z \in Nat : z = 0
  OBVIOUS
<1> DEFINE next == Parser!Advanced(s)
           f == Parser!Factor(p, s)
           c == Parser!FunctionCall(p, next)
           i == Parser!Expect(next, "Identifier")
<1>2. next \in Parser!States(tokens)
  BY ParserSteps
<1>3. f \in Parser!States(tokens)
  BY <1>1, ExpressionsRead
<1> HIDE DEF next
<1>4. c \in Parser!States(tokens) /\ i \in Parser!States(tokens)
  BY <1>1, <1>2, ExpressionsRead, ParserExpects
<1> HIDE DEF f, c, i
<1>5. /\ p[<<"Power", next, z>>] \in Parser!States(tokens)
      /\ p[<<"PrimaryPlus", f, z>>] \in Parser!States(tokens)
      /\ p[<<"PrimaryPlus", c, z>>] \in Parser!States(tokens)
      /\ p[<<"PrimaryPlus", i, z>>] \in Parser!States(tokens)
  BY <1>2, <1>3, <1>4, CallsRead
<1> DEFINE e == p[<<"PrimaryPlus", f, z>>]
<1> HIDE DEF e
<1>6. Parser!Exponent(p, e) \in Parser!States(tokens)
  BY <1>1, <1>5, ExpressionsRead DEF e
<1>7. Parser!Power(p, s) \in Parser!States(tokens)
  BY <1>1, <1>5, <1>6 DEF Parser!Power, e, f, next
<1>8. Parser!PrimaryPlus(p, s) \in Parser!States(tokens)
  BY <1>1, <1>5 DEF Parser!PrimaryPlus, c, i, next
<1> QED
  BY <1>7, <1>8

\* An expression of the loosest level, and a list of statements.
LEMMA PartsRead ==
  ASSUME NEW tokens, NEW p, Reads(tokens, p), NEW s \in Parser!States(tokens)
  PROVE  /\ p[<<"Expression", s, Parser!Loosest>>] \in Parser!States(tokens)
         /\ p[<<"StatementList", s, 0>>] \in Parser!States(tokens)
         /\ p[<<"FunctionArgumentList", s, 0>>] \in Parser!States(tokens)
<1>1. PICK z \in Nat : z = 0
  OBVIOUS
<1>2. PICK l \in Nat : l = Parser!Loosest
  BY LoosestIsLevel
<1>3. p[<<"Expression", s, l>>] \in Parser!States(tokens)
      /\ p[<<"StatementList", s, z>>] \in Parser!States(tokens)
      /\ p[<<"FunctionArgumentList", s, z>>] \in Parser!States(tokens)
  BY CallsRead
<1> QED
  BY <1>1, <1>2, <1>3

\* So do a let, a return and an expression statement.
LEMMA LetAndReturnRead ==
  ASSUME NEW tokens, NEW p, Reads(tokens, p), NEW s \in Parser!States(tokens)
  PROVE  /\ Parser!LetStatement(p, s) \in Parser!States(tokens)
         /\ Parser!ReturnStatement(p, s) \in Parser!States(tokens)
         /\ Parser!ExpressionStatement(p, s) \in Parser!States(tokens)
<1>1. /\ Parser!Advanced(s) \in Parser!States(tokens)
      /\ Parser!Fail(s) \in Parser!States(tokens)
  BY ParserSteps
<1>2. Parser!ReturnStatement(p, s) \in Parser!States(tokens)
  BY <1>1, PartsRead DEF Parser!ReturnStatement
<1>3. Parser!LetStatement(p, s) \in Parser!States(tokens)
  <2> DEFINE v == Parser!Variable(Parser!Advanced(s))
             e == Parser!Expect(v, "Assign")
  <2>1. v \in Parser!States(tokens)
    BY <1>1, ParserExpects
  <2> HIDE DEF v
  <2>2. e \in Parser!States(tokens)
    BY <2>1, ParserExpects
  <2> HIDE DEF e
  <2>3. p[<<"Expression", e, Parser!Loosest>>] \in Parser!States(tokens)
    BY <2>2, PartsRead
  <2> QED
    BY <2>3 DEF Parser!LetStatement, e, v
<1>4. Parser!ExpressionStatement(p, s) \in Parser!States(tokens)
  <2> DEFINE e == p[<<"Expression", s, Parser!Loosest>>]
  <2>1. e \in Parser!States(tokens)
    BY PartsRead
  <2> HIDE DEF e
  <2>2. Parser!Advanced(e) \in Parser!States(tokens)
    BY <2>1, ParserSteps
  <2> DEFINE a == Parser!Advanced(e)
  <2> HIDE DEF a
  <2>3. p[<<"Expression", a, Parser!Loosest>>] \in Parser!States(tokens)
    BY <2>2, PartsRead DEF a
  <2> QED
    BY <2>1, <2>3 DEF Parser!ExpressionStatement, Parser!AfterLeft, e, a
<1> QED
  BY <1>2, <1>3, <1>4

\* So does an if.
LEMMA IfRead ==
  ASSUME NEW tokens, NEW p, Reads(tokens, p), NEW s \in Parser!States(tokens)
  PROVE  Parser!IfStatement(p, s) \in Parser!States(tokens)
<1> DEFINE test == p[<<"Expression", Parser!Advanced(s), Parser!Loosest>>]
           opened == Parser!Expect(test, "Then")
           body == p[<<"StatementList", opened, 0>>]
           over == Parser!Advanced(body)
           rest == IF Parser!Code(body) = "Else"
                   THEN p[<<"StatementList", over, 0>>] ELSE body
<1>1. test \in Parser!States(tokens)
  <2> PICK a \in Parser!States(tokens) : a = Parser!Advanced(s)
    BY ParserSteps
  <2>1. p[<<"Expression", a, Parser!Loosest>>] \in Parser!States(tokens)
    BY PartsRead
  <2> QED
    BY <2>1
<1> HIDE DEF test
<1>2. opened \in Parser!States(tokens)
  BY <1>1, ParserExpects
<1> HIDE DEF opened
<1>3. body \in Parser!States(tokens)
  BY <1>2, PartsRead
<1> HIDE DEF body
<1>4. over \in Parser!States(tokens)
  BY <1>3, ParserSteps
<1> HIDE DEF over
<1>5. p[<<"StatementList", over, 0>>] \in Parser!States(tokens)
  BY <1>4, PartsRead
<1>6. rest \in Parser!States(tokens)
  BY <1>3, <1>5
<1>7. Parser!IfStatement(p, s) = Parser!Expect(rest, "End")
  BY DEF Parser!IfStatement, Parser!AfterThen, over, body, opened, test
<1> HIDE DEF rest
<1> QED
  BY <1>6, <1>7, ParserExpects

\* So does a function.
LEMMA FunctionRead ==
  ASSUME NEW tokens, NEW p, Reads(tokens, p), NEW s \in Parser!States(tokens)
  PROVE  /\ Parser!FunctionArgumentList(p, s) \in Parser!States(tokens)
         /\ Parser!ParseUserDefinedFunction(p, s) \in Parser!States(tokens)
<1>1. Parser!FunctionArgumentList(p, s) \in Parser!States(tokens)
  <2> DEFINE v == Parser!Variable(Parser!Advanced(s))
  <2>1. v \in Parser!States(tokens)
    BY ParserSteps, ParserExpects
  <2> HIDE DEF v
  <2>2. p[<<"FunctionArgumentList", v, 0>>] \in Parser!States(tokens)
    BY <2>1, PartsRead
  <2> QED
    BY <2>2 DEF Parser!FunctionArgumentList, v
<1> DEFINE n == Parser!Named(s)
           a == Parser!Advanced(n)
           v == IF Parser!Code(a) = "Identifier" THEN Parser!Variable(a) ELSE a
           l == p[<<"FunctionArgumentList", v, 0>>]
           r == IF Parser!Code(n) = "LeftParenthesis"
                THEN Parser!Expect(l, "RightParenthesis") ELSE n
           b == p[<<"StatementList", r, 0>>]
<1>2. n \in Parser!States(tokens)
  BY ParserExpects
<1> HIDE DEF n
<1>3. a \in Parser!States(tokens)
  BY <1>2, ParserSteps
<1> HIDE DEF a
<1>4. v \in Parser!States(tokens)
  BY <1>3, ParserExpects
<1> HIDE DEF v
<1>5. l \in Parser!States(tokens)
  BY <1>4, PartsRead
<1> HIDE DEF l
<1>6. r \in Parser!States(tokens)
  <2>1. Parser!Expect(l, "RightParenthesis") \in Parser!States(tokens)
    BY <1>5, ParserExpects
  <2> QED
    BY <1>2, <2>1
<1>7. r = Parser!Parameters(p, n)
  BY DEF Parser!Parameters, Parser!FunctionArguments, l, v, a
<1> HIDE DEF r
<1>8. b \in Parser!States(tokens)
  BY <1>6, PartsRead
<1>9. Parser!ParseUserDefinedFunction(p, s) = Parser!AfterBody(b)
  BY <1>7 DEF Parser!ParseUserDefinedFunction, n
<1> HIDE DEF b
<1>10. Parser!AfterBody(b) \in Parser!States(tokens)
  <2> PICK g : g = [b EXCEPT !.inFunction = FALSE]
    OBVIOUS
  <2>1. g \in Parser!States(tokens)
    BY <1>8, ParserSteps
  <2>2. Parser!Expect(g, "End") \in Parser!States(tokens)
    BY <2>1, ParserExpects
  <2> QED
    BY <1>8, <2>2 DEF Parser!AfterBody
<1> QED
  BY <1>1, <1>9, <1>10

\* So does a list of statements.
LEMMA StatementsRead ==
  ASSUME NEW tokens, NEW p, Reads(tokens, p), NEW s \in Parser!States(tokens)
  PROVE  Parser!StatementList(p, s) \in Parser!States(tokens)
<1> DEFINE t == Parser!Statement(p, s)
           a == Parser!AfterSemicolon(t)
<1>1. t \in Parser!States(tokens)
  <2>1. Parser!Fail(s) \in Parser!States(tokens)
    BY ParserSteps
  <2>2. /\ Parser!IfStatement(p, s) \in Parser!States(tokens)
        /\ Parser!ReturnStatement(p, s) \in Parser!States(tokens)
        /\ Parser!ParseUserDefinedFunction(p, s) \in Parser!States(tokens)
        /\ Parser!LetStatement(p, s) \in Parser!States(tokens)
        /\ Parser!ExpressionStatement(p, s) \in Parser!States(tokens)
    BY IfRead, LetAndReturnRead, FunctionRead
  <2> QED
    BY <2>1, <2>2 DEF Parser!Statement
<1> HIDE DEF t
<1>2. a \in Parser!States(tokens)
  BY <1>1, ParserExpects
<1> HIDE DEF a
<1>3. p[<<"StatementList", a, 0>>] \in Parser!States(tokens)
  BY <1>2, PartsRead
<1> QED
  BY <1>2, <1>3 DEF Parser!StatementList, Parser!MoreStatements, a, t

\* One level of the descent, above the level q, and the levels up to m.
ParserLevel(tokens, k, q) ==
  [c \in Parser!Calls(tokens) |->
     IF k = 0 THEN Parser!Fail(c[2]) ELSE Parser!Procedure(q, c[1], c[2], c[3])]
ParserDescends(tokens, m, u) == u = [k \in 0..m |-> ParserLevel(tokens, k, u[k - 1])]

(* The bottom of the descent fails at the tokens it was given. *)
LEMMA BottomReads ==
  ASSUME NEW tokens, NEW q
  PROVE  Reads(tokens, ParserLevel(tokens, 0, q))
<1> SUFFICES ASSUME NEW name \in Parser!Procedures, NEW s \in Parser!States(tokens), NEW n \in Nat
             PROVE  ParserLevel(tokens, 0, q)[<<name, s, n>>] \in Parser!States(tokens)
  BY DEF Reads
<1>1. <<name, s, n>> \in Parser!Calls(tokens)
  BY DEF Parser!Calls
<1>2. ParserLevel(tokens, 0, q)[<<name, s, n>>] = Parser!Fail(s)
  BY <1>1 DEF ParserLevel
<1> QED
  BY <1>2, ParserSteps

(* A level above one that reads reads: the induction step over all procedures. *)
LEMMA LevelReads ==
  ASSUME NEW tokens, NEW k, k # 0, NEW q, Reads(tokens, q)
  PROVE  Reads(tokens, ParserLevel(tokens, k, q))
<1> SUFFICES ASSUME NEW name \in Parser!Procedures, NEW s \in Parser!States(tokens), NEW n \in Nat
             PROVE  ParserLevel(tokens, k, q)[<<name, s, n>>] \in Parser!States(tokens)
  BY DEF Reads
<1>1. <<name, s, n>> \in Parser!Calls(tokens)
  BY DEF Parser!Calls
<1>2. ParserLevel(tokens, k, q)[<<name, s, n>>] = Parser!Procedure(q, name, s, n)
  BY <1>1 DEF ParserLevel
<1>3. /\ Parser!Expression(q, s, n) \in Parser!States(tokens)
      /\ Parser!Operands(q, s, n) \in Parser!States(tokens)
      /\ Parser!Power(q, s) \in Parser!States(tokens)
      /\ Parser!PrimaryPlus(q, s) \in Parser!States(tokens)
      /\ Parser!ExpressionList(q, s) \in Parser!States(tokens)
      /\ Parser!FunctionArgumentList(q, s) \in Parser!States(tokens)
      /\ Parser!StatementList(q, s) \in Parser!States(tokens)
  BY ExpressionsRead, PowersRead, FunctionRead, StatementsRead
<1>4. Parser!Procedure(q, name, s, n) \in Parser!States(tokens)
  BY <1>3 DEF Parser!Procedure, Parser!Procedures
<1> QED
  BY <1>2, <1>4

(* The descent is the top of levels each built on the one below. *)
LEMMA ParserDescentDefined ==
  ASSUME NEW tokens, Len(tokens) \in Nat
  PROVE  \E u : ParserDescends(tokens, Parser!Depth(tokens), u) /\ Parser!Descent(tokens) = u[Parser!Depth(tokens)]
<1> DEFINE N == Parser!Depth(tokens)
           Made == {m \in 0..N : \E u : ParserDescends(tokens, m, u)}
<1>1. N \in Nat
  BY DEF Parser!Depth
<1>2. \A q : ParserLevel(tokens, 0, q) = ParserLevel(tokens, 0, 0)
  BY DEF ParserLevel
<1>3. 0 \in Made
  <2> DEFINE u == [k \in 0..0 |-> ParserLevel(tokens, 0, 0)]
  <2>1. \A k \in 0..0 : k = 0
    OBVIOUS
  <2>2. \A k \in 0..0 : u[k] = ParserLevel(tokens, k, u[k - 1])
    BY <1>2, <2>1
  <2>3. u = [k \in 0..0 |-> u[k]]
    OBVIOUS
  <2> HIDE DEF u
  <2>4. ParserDescends(tokens, 0, u)
    BY <2>2, <2>3 DEF ParserDescends
  <2> QED
    BY <1>1, <2>4
<1>4. ASSUME NEW m \in 0..(N - 1), m \in Made PROVE m + 1 \in Made
  <2>1. PICK u : ParserDescends(tokens, m, u)
    BY <1>4
  <2> DEFINE w == [k \in 0..(m + 1) |-> IF k <= m THEN u[k] ELSE ParserLevel(tokens, k, u[m])]
  <2>2. ASSUME NEW k \in 0..(m + 1) PROVE w[k] = ParserLevel(tokens, k, w[k - 1])
    <3>1. CASE k <= m /\ k # 0
      <4>1. k \in 0..m /\ k - 1 \in 0..m /\ k - 1 \in 0..(m + 1) /\ k - 1 <= m
        BY <3>1
      <4>2. u[k] = ParserLevel(tokens, k, u[k - 1])
        BY <2>1, <4>1 DEF ParserDescends
      <4>3. w[k] = u[k] /\ w[k - 1] = u[k - 1]
        BY <3>1, <4>1
      <4> HIDE DEF w
      <4> QED
        BY <4>2, <4>3
    <3>2. CASE k = 0
      <4>1. 0 \in 0..m /\ 0 \in 0..(m + 1) /\ 0 <= m
        OBVIOUS
      <4>2. u[0] = ParserLevel(tokens, 0, u[0 - 1])
        BY <2>1, <4>1 DEF ParserDescends
      <4>3. w[0] = u[0]
        BY <4>1
      <4> HIDE DEF w
      <4>4. ParserLevel(tokens, 0, w[0 - 1]) = ParserLevel(tokens, 0, u[0 - 1])
        BY <1>2
      <4> QED
        BY <3>2, <4>2, <4>3, <4>4
    <3>3. CASE k = m + 1
      <4>1. k - 1 = m /\ m \in 0..(m + 1) /\ ~(k <= m) /\ m <= m
        BY <3>3
      <4>2. w[k] = ParserLevel(tokens, k, u[m]) /\ w[k - 1] = u[m]
        BY <4>1
      <4> HIDE DEF w
      <4> QED
        BY <4>2
    <3> QED
      BY <3>1, <3>2, <3>3
  <2>3. w = [k \in 0..(m + 1) |-> w[k]]
    OBVIOUS
  <2> HIDE DEF w
  <2>4. ParserDescends(tokens, m + 1, w)
    BY <2>2, <2>3 DEF ParserDescends
  <2> QED
    BY <1>1, <1>4, <2>4
<1>5. N \in Made
  <2>1. N \in 0..N /\ \A m \in 0..(N - 1) : m \in Made => m + 1 \in Made
    BY <1>1, <1>4
  <2> HIDE DEF Made, N
  <2> QED
    BY <1>1, <1>3, <2>1, InductionUpTo
<1>6. PICK u : ParserDescends(tokens, N, u)
  BY <1>5
<1> DEFINE Goes(g) == [k \in 0..N |-> [c \in Parser!Calls(tokens) |->
                         IF k = 0 THEN Parser!Fail(c[2])
                         ELSE Parser!Procedure(g[k - 1], c[1], c[2], c[3])]]
           upTo == CHOOSE g : g = Goes(g)
<1>7. \A g : Goes(g) = [k \in 0..N |-> ParserLevel(tokens, k, g[k - 1])]
  BY DEF ParserLevel
<1>8. Parser!Descent(tokens) = upTo[N]
  BY DEF Parser!Descent
<1>9. u = Goes(u)
  <2> HIDE DEF Goes, N
  <2> QED
    BY <1>6, <1>7 DEF ParserDescends
<1>10. upTo = Goes(upTo)
  <2> HIDE DEF Goes
  <2> QED
    BY <1>9
<1>11. ParserDescends(tokens, N, upTo)
  <2> HIDE DEF upTo, Goes, N
  <2> QED
    BY <1>7, <1>10 DEF ParserDescends
<1> QED
  BY <1>8, <1>11

(* The whole descent reads. *)
LEMMA DescentReads ==
  ASSUME NEW tokens, Len(tokens) \in Nat
  PROVE  Reads(tokens, Parser!Descent(tokens))
<1> DEFINE N == Parser!Depth(tokens)
<1>1. Len(tokens) \in Nat
  OBVIOUS
<1>2. N \in Nat
  BY <1>1 DEF Parser!Depth
<1>3. PICK u : ParserDescends(tokens, N, u) /\ Parser!Descent(tokens) = u[N]
  BY <1>1, ParserDescentDefined
<1> HIDE DEF N
<1> DEFINE Good == {k \in 0..N : Reads(tokens, u[k])}
<1>4. \A k \in 0..N : u[k] = ParserLevel(tokens, k, u[k - 1])
  BY <1>3 DEF ParserDescends
<1>5. 0 \in Good
  <2>1. 0 \in 0..N /\ u[0] = ParserLevel(tokens, 0, u[0 - 1])
    BY <1>2, <1>4
  <2> PICK q : q = u[0 - 1]
    OBVIOUS
  <2>2. Reads(tokens, ParserLevel(tokens, 0, q))
    BY BottomReads
  <2> QED
    BY <2>1, <2>2
<1>6. ASSUME NEW k \in 0..(N - 1), k \in Good PROVE k + 1 \in Good
  <2> PICK n : n = k + 1
    OBVIOUS
  <2>1. n \in 0..N /\ n # 0 /\ n - 1 = k
    BY <1>2
  <2>2. u[n] = ParserLevel(tokens, n, u[k])
    BY <1>4, <2>1
  <2>3. Reads(tokens, u[k])
    BY <1>6
  <2> PICK q : q = u[k]
    OBVIOUS
  <2>4. Reads(tokens, ParserLevel(tokens, n, q))
    BY <2>1, <2>3, LevelReads
  <2> QED
    BY <2>1, <2>2, <2>4
<1>7. N \in Good
  <2>1. N \in 0..N /\ \A k \in 0..(N - 1) : k \in Good => k + 1 \in Good
    BY <1>2, <1>6
  <2> HIDE DEF Good
  <2> QED
    BY <1>2, <1>5, <2>1, InductionUpTo
<1> QED
  BY <1>3, <1>7

(* The syntax check keeps its tokens. *)
LEMMA CheckedReads ==
  ASSUME NEW tokens, Len(tokens) \in Nat
  PROVE  Parser!Checked(tokens) \in Parser!States(tokens)
<1> PICK s : s = Parser!Start(tokens)
  OBVIOUS
<1>1. s \in Parser!States(tokens)
  BY DEF Parser!Start, Parser!States
<1> PICK p : p = Parser!Descent(tokens)
  OBVIOUS
<1>2. Reads(tokens, p)
  BY DescentReads
<1>3. p[<<"StatementList", s, 0>>] \in Parser!States(tokens)
  BY <1>1, <1>2, PartsRead
<1> QED
  BY <1>1, <1>3 DEF Parser!Checked

(* What it leaves in the table is a part of them. *)
LEMMA TableTokens ==
  ASSUME NEW tokens \in Seq(Tokens), NEW s \in Parser!States(tokens)
  PROVE  Parser!Table(s) \in Seq(Tokens)
<1> DEFINE n == IF s.pos <= Len(s.tokens) THEN s.pos ELSE Len(s.tokens)
<1>1. s.tokens = tokens /\ s.pos \in Nat \ {0} /\ Len(tokens) \in Nat
  BY LenProperties DEF Parser!States
<1>2. n \in 0..Len(tokens)
  BY <1>1
<1>3. Parser!Table(s) = SubSeq(tokens, 1, n)
  BY <1>1 DEF Parser!Table
<1> HIDE DEF n
<1>4. \A i \in 1..n : tokens[i] \in Tokens
  BY <1>1, <1>2, ElementOfSeq
<1> QED
  BY <1>2, <1>3, <1>4, SubSeqProperties

(* A module that comes out of the compiler is the one its generator left. *)
LEMMA CompiledGenerated ==
  ASSUME NEW tokens \in Seq(Tokens), NEW source, NEW m \in Compiled(tokens, source)
  PROVE  \E table \in Seq(Tokens) : ~Generated(table).failed /\ m = ModuleOf(Generated(table), source)
<1> PICK s : s = Parser!Checked(tokens)
  OBVIOUS
<1>1. s \in Parser!States(tokens)
  BY CheckedReads, LenProperties
<1> PICK table : table = Parser!Table(s)
  OBVIOUS
<1>2. table \in Seq(Tokens)
  BY <1>1, TableTokens
<1>3. m = ModuleOf(Generated(table), source) /\ ~Generated(table).failed
  BY DEF Compiled
<1> QED
  BY <1>2, <1>3

\* Whatever tokens go in, what comes out of the compiler is a module: its
\* instructions name symbols and constants that exist, and no jump goes back.
\* Where it is ordinary, its code keeps the discipline of the machine, which
\* checks no access to its stack (TByteCodeBuilder.cpp, SyntaxParser.cpp).
THEOREM CompiledCode ==
  ASSUME NEW tokens \in Seq(Tokens), NEW source, NEW m \in Compiled(tokens, source)
  PROVE  IsModule(m) /\ GoesForward(m) /\ (Ordinary(m) => Disciplined(m))
<1> PICK table \in Seq(Tokens) :
      ~Generated(table).failed /\ m = ModuleOf(Generated(table), source)
  BY CompiledGenerated
<1>1. IsModule(m) /\ GoesForward(m)
  BY GeneratedModule
<1>2. Ordinary(m) => Disciplined(m)
  BY GeneratedDisciplined
<1> QED
  BY <1>1, <1>2
=============================================================================
