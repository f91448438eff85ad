-------------------------- MODULE Execution_proofs --------------------------
(***************************************************************************)
(* Proofs that the machine takes a bounded number of steps, for every      *)
(* module whose jumps go forward and every number of frames, and of what   *)
(* it does with the modules that the compiler makes: their jumps do go     *)
(* forward, and they keep the discipline the machine relies on.            *)
(***************************************************************************)
EXTENDS Progress, Machine_proofs, Numbers_proofs


-----------------------------------------------------------------------------
(* Numerals.                                                               *)

Digits(b, n) == [1..n -> 0..(b - 1)]

\* The numbers that the first digits make.
Partial(b, n, d, u) ==
  /\ u \in [0..n -> Nat]
  /\ \A k \in 0..n : u[k] = IF k = 0 THEN 0 ELSE u[k - 1] * b + d[k]

\* There are such numbers, and the last one is the numeral.
LEMMA NumeralDefined ==
  ASSUME NEW b \in Nat, NEW n \in Nat, NEW d \in Digits(b, n)
  PROVE  \E u : Partial(b, n, d, u) /\ Numeral(b, n, d) = u[n]
<1> DEFINE Made == {m \in 0..n : \E u : Partial(b, m, d, u)}
<1>1. 0 \in Made
  <2>1. Partial(b, 0, d, [k \in 0..0 |-> 0])
    BY DEF Partial
  <2> QED
    BY <2>1
<1>2. ASSUME NEW m \in 0..(n - 1), m \in Made PROVE m + 1 \in Made
  <2>1. PICK u : Partial(b, m, d, u)
    BY <1>2
  <2> DEFINE w == [k \in 0..(m + 1) |-> IF k <= m THEN u[k] ELSE u[m] * b + d[m + 1]]
  <2>2. u[m] \in Nat /\ d[m + 1] \in Nat /\ u[m] * b \in Nat
    <3>1. u[m] \in Nat /\ d[m + 1] \in Nat
      BY <2>1 DEF Partial, Digits
    <3> QED
      BY <3>1
  <2>3. w \in [0..(m + 1) -> Nat]
    BY <2>1, <2>2 DEF Partial
  <2>4. ASSUME NEW k \in 0..(m + 1)
        PROVE  w[k] = IF k = 0 THEN 0 ELSE w[k - 1] * b + d[k]
    <3>1. CASE k <= m
      <4>1. k \in 0..m /\ (k # 0 => k - 1 \in 0..m)
        BY <3>1
      <4> QED
        BY <2>1, <4>1 DEF Partial
    <3>2. CASE k = m + 1
      BY <3>2
    <3> QED
      BY <3>1, <3>2
  <2>5. Partial(b, m + 1, d, w)
    BY <2>3, <2>4 DEF Partial
  <2> QED
    BY <2>5
<1>3. n \in Made
  <2> HIDE DEF Made
  <2> QED
    BY <1>1, <1>2, InductionUpTo
<1>4. PICK u : Partial(b, n, d, u)
  BY <1>3
<1> DEFINE Extend(g) == [k \in 0..n |-> IF k = 0 THEN 0 ELSE g[k - 1] * b + d[k]]
           upTo == CHOOSE g : g = Extend(g)
<1>5. u = Extend(u)
  BY <1>4 DEF Partial
<1>6. upTo = Extend(upTo)
  BY <1>5
<1>7. Numeral(b, n, d) = upTo[n]
  BY DEF Numeral
<1> HIDE DEF upTo
<1> DEFINE Same == {k \in 0..n : upTo[k] = u[k]}
<1>8. 0..n \subseteq Same
  <2>1. 0 \in Same
    BY <1>4, <1>6 DEF Partial
  <2>2. ASSUME NEW k \in 0..(n - 1), k \in Same PROVE k + 1 \in Same
    <3>1. k + 1 \in 0..n /\ (k + 1) - 1 = k /\ k + 1 # 0
      BY <2>2
    <3>2. upTo[k + 1] = upTo[k] * b + d[k + 1]
      BY <1>6, <3>1
    <3>3. u[k + 1] = u[k] * b + d[k + 1]
      BY <1>4, <3>1 DEF Partial
    <3> QED
      BY <2>2, <3>1, <3>2, <3>3
  <2> HIDE DEF Same
  <2> QED
    BY <2>1, <2>2, InductionUpTo
<1>9. n \in Same
  BY <1>8
<1> QED
  BY <1>4, <1>7, <1>9

\* Multiplied by the base and with a digit added, the larger stays the larger.
LEMMA DigitAdded ==
  ASSUME NEW b \in Nat, NEW x \in Nat, NEW y \in Nat, x < y,
         NEW i \in 0..(b - 1), NEW j \in 0..(b - 1)
  PROVE  x * b + i < y * b + j
<1>1. (x + 1) * b <= y * b
  <2>1. PICK z \in Nat : y = (x + 1) + z
    <3>1. y - (x + 1) \in Nat
      OBVIOUS
    <3> QED
      BY <3>1
  <2>2. y * b = (x + 1) * b + z * b /\ z * b \in Nat
    BY <2>1
  <2> QED
    BY <2>2
<1>2. (x + 1) * b = x * b + b
  OBVIOUS
<1>3. x * b \in Nat /\ y * b \in Nat
  OBVIOUS
<1> QED
  BY <1>1, <1>2, <1>3

\* The first digit that differs decides which of two numerals is the larger.
LEMMA NumeralLess ==
  ASSUME NEW b \in Nat, NEW n \in Nat, NEW d \in Digits(b, n), NEW e \in Digits(b, n),
         NEW j \in 1..n, \A i \in 1..(j - 1) : d[i] = e[i], d[j] < e[j]
  PROVE  Numeral(b, n, d) < Numeral(b, n, e)
<1>1. PICK u : Partial(b, n, d, u) /\ Numeral(b, n, d) = u[n]
  BY NumeralDefined
<1>2. PICK w : Partial(b, n, e, w) /\ Numeral(b, n, e) = w[n]
  BY NumeralDefined
<1> DEFINE Ordered == {k \in 0..n : IF k < j THEN u[k] = w[k] ELSE u[k] < w[k]}
<1>3. 0 \in Ordered
  BY <1>1, <1>2 DEF Partial
<1>4. ASSUME NEW k \in 0..(n - 1), k \in Ordered PROVE k + 1 \in Ordered
  <2>1. k + 1 \in 1..n /\ k + 1 \in 0..n /\ (k + 1) - 1 = k /\ k + 1 # 0 /\ k \in 0..n
    BY <1>4
  <2>2. u[k + 1] = u[k] * b + d[k + 1] /\ w[k + 1] = w[k] * b + e[k + 1]
    BY <1>1, <1>2, <2>1 DEF Partial
  <2>3. /\ u[k] \in Nat /\ w[k] \in Nat
        /\ d[k + 1] \in 0..(b - 1) /\ e[k + 1] \in 0..(b - 1)
    BY <1>1, <1>2, <2>1 DEF Partial, Digits
  <2>4. CASE k + 1 < j
    <3>1. u[k] = w[k] /\ d[k + 1] = e[k + 1]
      BY <1>4, <2>1, <2>4
    <3> QED
      BY <2>1, <2>2, <2>4, <3>1
  <2>5. CASE k + 1 = j
    <3>1. u[k] = w[k] /\ d[k + 1] < e[k + 1]
      BY <1>4, <2>1, <2>5
    <3>2. u[k] * b \in Nat
      BY <2>3
    <3>3. u[k + 1] < w[k + 1]
      BY <2>2, <2>3, <3>1, <3>2
    <3> QED
      BY <2>1, <2>5, <3>3
  <2>6. CASE j <= k
    <3>1. u[k] < w[k]
      BY <1>4, <2>1, <2>6
    <3>2. u[k + 1] < w[k + 1]
      BY <2>2, <2>3, <3>1, DigitAdded
    <3> QED
      BY <2>1, <2>6, <3>2
  <2> QED
    BY <2>1, <2>4, <2>5, <2>6
<1>5. n \in Ordered
  <2> HIDE DEF Ordered
  <2>1. 0..n \subseteq Ordered
    BY <1>3, <1>4, InductionUpTo
  <2> QED
    BY <2>1
<1> QED
  BY <1>1, <1>2, <1>5

\* The largest numeral has the largest digit everywhere.
LEMMA NumeralLargest ==
  ASSUME NEW b \in Nat, b > 0, NEW n \in Nat, NEW d \in Digits(b, n),
         NEW top, top = [k \in 1..n |-> b - 1]
  PROVE  /\ Numeral(b, n, d) \in Nat /\ Numeral(b, n, top) \in Nat
         /\ Numeral(b, n, d) <= Numeral(b, n, top)
<1>1. top \in Digits(b, n)
  BY DEF Digits
<1>2. Numeral(b, n, d) \in Nat /\ Numeral(b, n, top) \in Nat
  <2>1. PICK u : Partial(b, n, d, u) /\ Numeral(b, n, d) = u[n]
    BY NumeralDefined
  <2>2. PICK w : Partial(b, n, top, w) /\ Numeral(b, n, top) = w[n]
    BY <1>1, NumeralDefined
  <2> QED
    BY <2>1, <2>2 DEF Partial
<1>3. CASE d = top
  BY <1>2, <1>3
<1>4. CASE d # top
  <2> DEFINE Differ == {k \in 1..n : d[k] # top[k]}
  <2>1. Differ \in SUBSET Nat /\ Differ # {}
    BY <1>4 DEF Digits
  <2>2. PICK j \in Differ : \A i \in Differ : j <= i
    <3> HIDE DEF Differ
    <3> QED
      BY <2>1, LeastNumber
  <2>3. j \in 1..n /\ d[j] # b - 1 /\ d[j] \in 0..(b - 1)
    BY DEF Digits
  <2>4. \A i \in 1..(j - 1) : d[i] = top[i]
    <3> SUFFICES ASSUME NEW i \in 1..(j - 1), d[i] # top[i] PROVE FALSE
      OBVIOUS
    <3>1. i \in Differ /\ ~(j <= i)
      BY <2>3
    <3> QED
      BY <2>2, <3>1
  <2>5. d[j] < top[j]
    BY <2>3
  <2>6. Numeral(b, n, d) < Numeral(b, n, top)
    <3> HIDE DEF Differ
    <3> QED
      BY <1>1, <2>3, <2>4, <2>5, NumeralLess
  <2> QED
    BY <1>2, <2>6
<1> QED
  BY <1>3, <1>4

-----------------------------------------------------------------------------
(* Where the run() calls are.                                              *)

\* Some code of the module takes the most room.
LEMMA RoomLargest ==
  ASSUME TypeOK
  PROVE  /\ Room \in Nat
         /\ \A c \in CodeIds(module) : RoomOf(c) \in Nat /\ RoomOf(c) <= Room
<1>1. IsModule(module)
  BY ModulesAssumption DEF TypeOK
<1>2. \A c \in CodeIds(module) : c \in Int /\ c < module.size /\ -1 <= c
  BY <1>1 DEF CodeIds, FunctionIds, Main, IsModule
<1>3. \A c \in CodeIds(module) : RoomOf(c) \in Nat
  BY <1>1, AllocatedRoom, LenProperties DEF RoomOf, IsModule
<1>4. Main \in CodeIds(module) /\ Main = -1 /\ module.size \in Nat
  BY <1>1 DEF CodeIds, Main, IsModule
<1> DEFINE Large(k, c) == \A e \in CodeIds(module) : e < k => RoomOf(e) <= RoomOf(c)
           Bounded == {k \in 0..module.size : \E c \in CodeIds(module) : Large(k, c)}
<1>5. 0 \in Bounded
  <2>1. \A e \in CodeIds(module) : e < 0 => e = Main
    BY <1>2, <1>4
  <2>2. Large(0, Main)
    BY <1>3, <1>4, <2>1
  <2> QED
    BY <1>4, <2>2
<1>6. ASSUME NEW k \in 0..(module.size - 1), k \in Bounded PROVE k + 1 \in Bounded
  <2>1. PICK c \in CodeIds(module) : Large(k, c)
    BY <1>6
  <2>2. \A e \in CodeIds(module) : e < k + 1 => e < k \/ e = k
    BY <1>2
  <2>3. k + 1 \in 0..module.size
    BY <1>4
  <2>4. CASE k \in CodeIds(module) /\ RoomOf(c) <= RoomOf(k)
    <3>1. Large(k + 1, k)
      BY <1>3, <2>1, <2>2, <2>4
    <3> QED
      BY <2>3, <2>4, <3>1
  <2>5. CASE ~(k \in CodeIds(module) /\ RoomOf(c) <= RoomOf(k))
    <3>1. Large(k + 1, c)
      BY <1>3, <2>1, <2>2, <2>5
    <3> QED
      BY <2>3, <3>1
  <2> QED
    BY <2>4, <2>5
<1>7. module.size \in Bounded
  <2> HIDE DEF Bounded
  <2>1. 0..module.size \subseteq Bounded
    BY <1>4, <1>5, <1>6, InductionUpTo
  <2> QED
    BY <1>4, <2>1
<1>8. PICK c \in CodeIds(module) : \A e \in CodeIds(module) : RoomOf(e) <= RoomOf(c)
  BY <1>2, <1>7
<1>9. Room \in {RoomOf(e) : e \in CodeIds(module)} /\ \A e \in CodeIds(module) : RoomOf(e) <= Room
  BY <1>8 DEF Room
<1> QED
  BY <1>3, <1>9

\* A suspended run() is at an instruction, and there are no more than frames.
Suspended ==
  /\ frameTop < FrameLimit
  /\ Len(callers) <= frameTop + 1
  /\ \A k \in 1..Len(callers) : callers[k].ip \in 0..(RoomOf(callers[k].code) - 1)

ProgressInv == TypeInv /\ (Running => Suspended)

\* A suspended run() has its code and its instruction.
LEMMA CallersTyped ==
  ASSUME TypeOK
  PROVE  /\ Len(callers) \in Nat
         /\ \A k \in 1..Len(callers) : callers[k].code \in CodeIds(module) /\ callers[k].ip \in Int
<1> DEFINE C == [code : CodeIds(module), ip : Int]
<1>1. callers \in Seq(C)
  BY DEF TypeOK
<1>2. \A x \in C : x.code \in CodeIds(module) /\ x.ip \in Int
  OBVIOUS
<1> HIDE DEF C
<1>3. \A k \in 1..Len(callers) : callers[k] \in C
  BY <1>1, ElementOfSeq
<1> QED
  BY <1>1, <1>2, <1>3, LenProperties

\* The places are digits.
PlacesAreDigits ==
  /\ Base \in Nat /\ Base > 0 /\ RunLimit \in Nat
  /\ Len(callers) \in Nat /\ Len(callers) + 1 \in 1..RunLimit
  /\ Places \in Digits(Base, RunLimit)
  /\ \A k \in 1..Len(callers) : Places[k] = callers[k].ip + 1
  /\ Places[Len(callers) + 1] = IF InCode THEN ip + 1 ELSE Room + 1
  /\ \A k \in 1..RunLimit : k > Len(callers) + 1 => Places[k] = 0

LEMMA PlacesTyped == TypeOK /\ Suspended => PlacesAreDigits
<1> SUFFICES ASSUME TypeOK, Suspended PROVE PlacesAreDigits
  OBVIOUS
<1>1. Room \in Nat /\ FrameLimit \in Nat
  BY RoomLargest, SizesAssumption
<1>2. Len(callers) \in Nat /\ Len(callers) + 1 \in 1..RunLimit
  BY <1>1, LenProperties DEF TypeOK, Suspended, RunLimit
<1>3. ASSUME NEW k \in 1..RunLimit PROVE Place(k) \in 0..(Room + 1)
  <2>1. CASE k <= Len(callers)
    <3>1. k \in 1..Len(callers)
      BY <1>2, <2>1
    <3>2. callers[k].code \in CodeIds(module)
      BY <3>1, CallersTyped
    <3>3. RoomOf(callers[k].code) \in Nat /\ RoomOf(callers[k].code) <= Room
      BY <3>2, RoomLargest
    <3>4. Place(k) = callers[k].ip + 1
      BY <1>2, <2>1 DEF Place
    <3> QED
      BY <1>1, <3>1, <3>3, <3>4 DEF Suspended
  <2>2. CASE k = Len(callers) + 1
    <3>1. Place(k) = IF InCode THEN ip + 1 ELSE Room + 1
      BY <1>2, <2>2 DEF Place
    <3>2. InCode => ip \in 0..(RoomOf(code) - 1)
      BY DEF InCode, CodeSize, RoomOf
    <3>3. RoomOf(code) \in Nat /\ RoomOf(code) <= Room
      BY RoomLargest DEF TypeOK
    <3> QED
      BY <1>1, <3>1, <3>2, <3>3
  <2>3. CASE k > Len(callers) + 1
    BY <1>1, <1>2, <2>3 DEF Place
  <2> QED
    BY <1>2, <2>1, <2>2, <2>3
<1>4. /\ \A k \in 1..Len(callers) : k \in 1..RunLimit /\ Place(k) = callers[k].ip + 1
      /\ Place(Len(callers) + 1) = IF InCode THEN ip + 1 ELSE Room + 1
      /\ \A k \in 1..RunLimit : k > Len(callers) + 1 => Place(k) = 0
  <2>1. ASSUME NEW k \in 1..Len(callers) PROVE k \in 1..RunLimit /\ Place(k) = callers[k].ip + 1
    <3>1. k <= Len(callers) /\ k \in 1..RunLimit
      BY <1>1, <1>2 DEF RunLimit
    <3> QED
      BY <3>1 DEF Place
  <2>2. Place(Len(callers) + 1) = IF InCode THEN ip + 1 ELSE Room + 1
    BY <1>2 DEF Place
  <2>3. ASSUME NEW k \in 1..RunLimit, k > Len(callers) + 1 PROVE Place(k) = 0
    BY <1>2, <2>3 DEF Place
  <2> QED
    BY <2>1, <2>2, <2>3
<1>5. \A k \in 1..RunLimit : Places[k] = Place(k)
  BY DEF Places
<1>6. Places \in Digits(Base, RunLimit)
  BY <1>1, <1>3 DEF Places, Digits, Base, RunLimit
<1> QED
  BY <1>1, <1>2, <1>4, <1>5, <1>6 DEF PlacesAreDigits, Base, RunLimit

-----------------------------------------------------------------------------
(* The three things that a step does to the run() calls.                   *)

MovesOn ==
  /\ InCode
  /\ UNCHANGED <<code, callers, frameTop>>
  /\ GoesForward(module) => ip < ip'

Enters ==
  /\ InCode
  /\ callers' = Append(callers, [code |-> code, ip |-> ip])
  /\ ip' = 0
  /\ frameTop' = frameTop + 1 /\ frameTop' < FrameLimit

Leaves ==
  /\ callers # <<>>
  /\ code' = callers[Len(callers)].code
  /\ ip' = callers[Len(callers)].ip + 1
  /\ callers' = SubSeq(callers, 1, Len(callers) - 1)
  /\ frameTop' \in {frameTop, frameTop - 1}

\* A jump of a module whose jumps go forward goes forward.
LEMMA JumpForward ==
  ASSUME TypeOK, InCode, GoesForward(module), Fetched.op \in {"Jmp", "JmpIfFalse"}
  PROVE  ip < JumpTarget
<1>1. Fetched # Nop
  BY DEF Nop
<1>2. ip < CodeSize /\ Fetched = module.code[code][ip + 1]
  BY <1>1 DEF Fetched
<1>3. module.code[code] \in Seq(Instruction)
  BY ModulesAssumption DEF TypeOK, IsModule
<1>4. ip \in Int /\ ip + 1 \in DOMAIN module.code[code]
  BY <1>2, <1>3, LenProperties DEF InCode, CodeSize, TypeOK
<1>5. Arg > 0
  BY <1>2, <1>4 DEF GoesForward, Arg, TypeOK
<1>6. Arg \in Int
  BY FetchedTyped DEF Instruction, Arg
<1> QED
  BY <1>4, <1>5, <1>6 DEF JumpTarget

\* Every step after which the machine runs is one of them.
LEMMA StepKinds ==
  ASSUME TypeInv, Next, Running'
  PROVE  /\ Running /\ UNCHANGED module
         /\ MovesOn \/ Enters \/ Leaves
<1> USE DEF Running
<1>a. ASSUME NEW ops, Step(ops) PROVE Running /\ InCode /\ Fetched.op \in ops /\ ip \in Int
  BY <1>a DEF Step, Executes, TypeInv, TypeOK
<1>b. ASSUME Running, InCode, Advance, frameTop' = frameTop PROVE MovesOn
  BY <1>b DEF Advance, Goto, MovesOn, TypeInv, TypeOK
<1>c. ASSUME NEW n, NEW R, Compute(n, R), Running, InCode, frameTop' = frameTop PROVE MovesOn
  BY <1>b, <1>c DEF Compute, Throw
<1>d. ASSUME LeaveRun, frameTop' \in {frameTop, frameTop - 1} PROVE Leaves
  BY <1>d DEF LeaveRun, Leaves
<1>1. CASE NopOp
  BY <1>1, <1>a, <1>b DEF NopOp, frameStack
<1>2. CASE PushConstant
  BY <1>2, <1>a, <1>b DEF PushConstant, frameStack
<1>3. CASE PushNone
  BY <1>3, <1>a, <1>b DEF PushNone, frameStack
<1>4. CASE BinaryOp
  <2> DEFINE R == BinaryResults(Fetched.op, slots[stackTop - 1], slots[stackTop])
  <2>1. Compute(2, R) /\ UNCHANGED <<module, frameTop>>
    BY <1>4 DEF BinaryOp, frameStack
  <2> QED
    BY <1>4, <2>1, <1>a, <1>c DEF BinaryOp
<1>5. CASE UnaryOp
  BY <1>5, <1>a, <1>c DEF UnaryOp, frameStack
<1>6. CASE LoadSymbol
  BY <1>6, <1>a, <1>b DEF LoadSymbol, Throw, frameStack
<1>7. CASE StoreSymbol
  BY <1>7, <1>a, <1>b DEF StoreSymbol, Throw, frameStack
<1>8. CASE LoadLocalSymbol
  BY <1>8, <1>a, <1>b DEF LoadLocalSymbol, Throw, frameStack
<1>9. CASE StoreLocalSymbol
  BY <1>9, <1>a, <1>b DEF StoreLocalSymbol, Throw, frameStack
<1>10. CASE Jump
  BY <1>10, <1>a, JumpForward DEF Jump, Goto, MovesOn, frameStack, TypeInv
<1>11. CASE JumpIfFalse
  <2>1. Running /\ InCode /\ Fetched.op = "JmpIfFalse" /\ UNCHANGED <<module, frameTop>>
    BY <1>11, <1>a DEF JumpIfFalse, frameStack
  <2>2. Advance \/ Goto(JumpTarget)
    BY <1>11 DEF JumpIfFalse
  <2> QED
    BY <2>1, <2>2, <1>b, JumpForward DEF Goto, MovesOn, TypeInv
<1>12. CASE UnsupportedOp
  BY <1>12 DEF UnsupportedOp, Throw
<1>13. CASE CallUserFunction
  <2>1. PICK f \in IntegerReads(slots[stackTop]) :
          IF f \notin DOMAIN symbols
          THEN Pop(1) /\ status' = "wild" /\ UNCHANGED <<control, frameStack>>
          ELSE IF symbols[f].type = "UserFunc" THEN EnterFunction(f)
          ELSE Pop(1) /\ Advance /\ UNCHANGED frameStack
    BY <1>13 DEF CallUserFunction
  <2>2. Running /\ InCode /\ UNCHANGED module /\ frameTop \in Int
    BY <1>13, <1>a DEF CallUserFunction, TypeInv, TypeOK
  <2>3. CASE EnterFunction(f)
    BY <2>2, <2>3 DEF EnterFunction, FrameExists, Throw, Enters
  <2>4. CASE Advance /\ UNCHANGED frameStack
    BY <2>2, <2>4, <1>b DEF frameStack
  <2> QED
    BY <2>1, <2>2, <2>3, <2>4
<1>14. CASE ReturnOp
  <2>1. Running /\ UNCHANGED module /\ LeaveRun /\ frameTop' = frameTop - 1
    BY <1>14, <1>a DEF ReturnOp, Throw
  <2> QED
    BY <2>1, <1>d
<1>15. CASE Halt
  <2>1. Running /\ UNCHANGED module /\ LeaveRun /\ frameTop' = frameTop
    BY <1>15, <1>a DEF Halt, frameStack
  <2> QED
    BY <2>1, <1>d
<1>16. CASE RunOffCode \/ AccessOutside
  BY <1>16 DEF RunOffCode, AccessOutside, Stray
<1>17. CASE Stopped
  BY <1>17 DEF Stopped, vars
<1> QED
  BY <1>1, <1>2, <1>3, <1>4, <1>5, <1>6, <1>7, <1>8, <1>9, <1>10, <1>11, <1>12,
     <1>13, <1>14, <1>15, <1>16, <1>17 DEF Next

-----------------------------------------------------------------------------
(* The invariant, and the steps that are left.                             *)

\* What is left of the suspended runs when one goes on.
LEMMA CallersShorter ==
  ASSUME TypeOK, Leaves
  PROVE  /\ Len(callers) \in Nat \ {0} /\ Len(callers) \in 1..Len(callers)
         /\ Len(callers') = Len(callers) - 1
         /\ \A k \in 1..(Len(callers) - 1) : callers'[k] = callers[k]
<1> DEFINE C == [code : CodeIds(module), ip : Int]
<1>1. callers \in Seq(C) /\ callers # <<>> /\ callers' = SubSeq(callers, 1, Len(callers) - 1)
  BY DEF TypeOK, Leaves
<1> HIDE DEF C
<1>2. Len(callers) \in Nat \ {0} /\ Len(callers) \in 1..Len(callers)
  BY <1>1, EmptySeq, LenProperties
<1>3. \A k \in 1..(Len(callers) - 1) : callers[k] \in C
  BY <1>1, <1>2, ElementOfSeq
<1> DEFINE n == Len(callers) - 1
<1>4. n \in Nat
  BY <1>2
<1>5. Len(SubSeq(callers, 1, n)) = n /\ \A k \in 1..n : SubSeq(callers, 1, n)[k] = callers[k]
  <2> HIDE DEF n
  <2>1. /\ Len(SubSeq(callers, 1, n)) = IF 1 <= n THEN n - 1 + 1 ELSE 0
        /\ \A k \in 1..(n - 1 + 1) : SubSeq(callers, 1, n)[k] = callers[1 + k - 1]
    BY <1>3, <1>4, SubSeqProperties DEF n
  <2>2. n - 1 + 1 = n /\ \A k \in 1..n : 1 + k - 1 = k
    BY <1>4
  <2> QED
    BY <1>4, <2>1, <2>2
<1> QED
  BY <1>1, <1>2, <1>5

\* A call suspends the run() at its instruction, for which there is a frame.
LEMMA SuspendedStay ==
  ASSUME ProgressInv, Next, Running'
  PROVE  Suspended'
<1>1. TypeInv /\ TypeOK /\ Running /\ Suspended /\ UNCHANGED module
  BY StepKinds DEF ProgressInv, TypeInv
<1>2. \A c : RoomOf(c)' = RoomOf(c)
  BY <1>1 DEF RoomOf
<1>3. frameTop \in Int /\ Len(callers) \in Nat
  BY <1>1, CallersTyped DEF TypeOK
<1>4. CASE MovesOn
  BY <1>1, <1>2, <1>4 DEF MovesOn, Suspended
<1>5. CASE Enters
  <2> DEFINE C == [code : CodeIds(module), ip : Int]
             x == [code |-> code, ip |-> ip]
  <2>1. callers \in Seq(C) /\ x \in C
    BY <1>1 DEF TypeOK
  <2>2. ip \in 0..(RoomOf(code) - 1)
    BY <1>5 DEF Enters, InCode, CodeSize, RoomOf
  <2>3. /\ Len(callers') = Len(callers) + 1
        /\ \A k \in 1..Len(callers) : callers'[k] = callers[k]
        /\ callers'[Len(callers) + 1] = x
    <3> HIDE DEF C, x
    <3>1. callers' = Append(callers, x)
      BY <1>5 DEF Enters, x
    <3> QED
      BY <2>1, <3>1, AppendProperties
  <2>4. \A k \in 1..Len(callers') : callers'[k].ip \in 0..(RoomOf(callers'[k].code) - 1)
    <3> TAKE k \in 1..Len(callers')
    <3>1. CASE k \in 1..Len(callers)
      BY <1>1, <2>3, <3>1 DEF Suspended
    <3>2. CASE k = Len(callers) + 1
      BY <2>2, <2>3, <3>2
    <3> QED
      BY <1>3, <2>3, <3>1, <3>2
  <2>5. frameTop' < FrameLimit /\ Len(callers') <= frameTop' + 1
    BY <1>1, <1>3, <1>5, <2>3 DEF Enters, Suspended
  <2> QED
    BY <1>2, <2>4, <2>5 DEF Suspended
<1>6. CASE Leaves
  <2>1. /\ Len(callers') = Len(callers) - 1
        /\ \A k \in 1..(Len(callers) - 1) : callers'[k] = callers[k]
    BY <1>1, <1>6, CallersShorter
  <2>2. \A k \in 1..Len(callers') : callers'[k].ip \in 0..(RoomOf(callers'[k].code) - 1)
    BY <1>1, <1>3, <2>1 DEF Suspended
  <2>3. frameTop' < FrameLimit /\ Len(callers') <= frameTop' + 1
    BY <1>1, <1>3, <1>6, <2>1, SizesAssumption DEF Leaves, Suspended
  <2> QED
    BY <1>2, <2>2, <2>3 DEF Suspended
<1> QED
  BY <1>1, <1>4, <1>5, <1>6, StepKinds

\* The first run() whose place changes is at a later one.
LEMMA PlaceLater ==
  ASSUME ProgressInv, Next, Running', GoesForward(module)
  PROVE  \E j \in 1..RunLimit : /\ \A i \in 1..(j - 1) : Places'[i] = Places[i]
                            /\ Places[j] < Places'[j]
<1>1. TypeInv /\ TypeOK /\ Running /\ Suspended /\ UNCHANGED module
  BY StepKinds DEF ProgressInv, TypeInv
<1>2. Suspended' /\ TypeInv' /\ TypeOK'
  <2>1. TypeInv'
    BY <1>1, NextTyped
  <2> QED
    BY <2>1, SuspendedStay DEF TypeInv
<1>3. PlacesAreDigits /\ PlacesAreDigits'
  <2>1. (TypeOK /\ Suspended => PlacesAreDigits)'
    BY PlacesTyped, PTL
  <2> QED
    BY <1>1, <1>2, <2>1, PlacesTyped
<1>4. /\ Room' = Room /\ Room \in Nat /\ RunLimit' = RunLimit /\ RunLimit \in Nat
      /\ \A c \in CodeIds(module) : RoomOf(c) \in Nat /\ RoomOf(c) <= Room
  BY <1>1, <1>3, RoomLargest DEF Room, RoomOf, RunLimit, PlacesAreDigits
<1>5. ip \in Int /\ ip' \in Int /\ code \in CodeIds(module)
  BY <1>1, <1>2 DEF TypeOK
<1>6. /\ Len(callers) \in Nat /\ Len(callers) + 1 \in 1..RunLimit
      /\ \A k \in 1..Len(callers) : Places[k] = callers[k].ip + 1
      /\ Places[Len(callers) + 1] = IF InCode THEN ip + 1 ELSE Room + 1
      /\ \A k \in 1..RunLimit : k > Len(callers) + 1 => Places[k] = 0
  BY <1>3 DEF PlacesAreDigits
<1>7. /\ Len(callers') \in Nat /\ Len(callers') + 1 \in 1..RunLimit
      /\ \A k \in 1..Len(callers') : Places'[k] = callers'[k].ip + 1
      /\ Places'[Len(callers') + 1] = IF InCode' THEN ip' + 1 ELSE Room + 1
  BY <1>3, <1>4 DEF PlacesAreDigits
<1>8. InCode => ip \in 0..(Room - 1)
  BY <1>4, <1>5 DEF InCode, CodeSize, RoomOf
<1>9. CASE MovesOn
  <2> DEFINE j == Len(callers) + 1
  <2>1. callers' = callers /\ InCode /\ ip < ip'
    BY <1>9 DEF MovesOn
  <2>2. \A i \in 1..(j - 1) : Places'[i] = Places[i]
    BY <1>3, <1>6, <1>7, <2>1
  <2>3. Places[j] = ip + 1
    BY <1>6, <2>1
  <2>4. Places'[j] = IF InCode' THEN ip' + 1 ELSE Room + 1
    BY <1>7, <2>1
  <2>5. j \in 1..RunLimit
    BY <1>6
  <2>6. Places[j] < Places'[j]
    <3> HIDE DEF j
    <3>1. ip + 1 <= Room
      BY <1>4, <1>8, <2>1
    <3>2. Places'[j] \in {ip' + 1, Room + 1}
      BY <2>4
    <3> QED
      BY <1>4, <1>5, <2>1, <2>3, <3>1, <3>2
  <2> HIDE DEF j
  <2> QED
    BY <2>2, <2>5, <2>6
<1>10. CASE Enters
  <2> DEFINE j == Len(callers) + 2
             C == [code : CodeIds(module), ip : Int]
             x == [code |-> code, ip |-> ip]
  <2>1. callers \in Seq(C) /\ x \in C
    BY <1>1 DEF TypeOK
  <2>2. /\ Len(callers') = Len(callers) + 1
        /\ \A k \in 1..Len(callers) : callers'[k] = callers[k]
        /\ callers'[Len(callers) + 1] = x
    <3> HIDE DEF C, x
    <3>1. callers' = Append(callers, x)
      BY <1>10 DEF Enters, x
    <3> QED
      BY <2>1, <3>1, AppendProperties
  <2>3. InCode /\ ip' = 0
    BY <1>10 DEF Enters
  <2>4. \A i \in 1..(j - 1) : Places'[i] = Places[i]
    <3> TAKE i \in 1..(j - 1)
    <3>1. CASE i \in 1..Len(callers)
      BY <1>3, <1>6, <1>7, <2>2, <3>1
    <3>2. CASE i = Len(callers) + 1
      BY <1>3, <1>6, <1>7, <2>2, <2>3, <3>2
    <3> QED
      BY <1>3, <3>1, <3>2
  <2>5. j \in 1..RunLimit /\ Places[j] = 0
    <3>1. j \in 1..RunLimit /\ j > Len(callers) + 1
      BY <1>4, <1>6, <1>7, <2>2
    <3> QED
      BY <1>6, <3>1
  <2>6. Places'[j] = IF InCode' THEN ip' + 1 ELSE Room + 1
    <3>1. j = Len(callers') + 1
      BY <1>3, <2>2
    <3> QED
      BY <1>7, <3>1
  <2>7. Places[j] < Places'[j]
    <3> HIDE DEF j
    <3> QED
      BY <1>4, <2>3, <2>5, <2>6
  <2> HIDE DEF j
  <2> QED
    BY <2>4, <2>5, <2>7
<1>11. CASE Leaves
  <2> DEFINE j == Len(callers)
  <2>1. /\ j \in 1..j /\ Len(callers') = j - 1
        /\ \A k \in 1..(j - 1) : callers'[k] = callers[k]
    BY <1>1, <1>11, CallersShorter
  <2>2. callers[j].ip \in 0..(RoomOf(callers[j].code) - 1) /\ callers[j].code \in CodeIds(module)
    BY <1>1, <2>1, CallersTyped DEF Suspended
  <2>3. \A i \in 1..(j - 1) : Places'[i] = Places[i]
    BY <1>3, <1>6, <1>7, <2>1
  <2>4. j \in 1..RunLimit /\ Places[j] = callers[j].ip + 1
    BY <1>4, <1>6, <2>1
  <2>5. Places'[j] = IF InCode' THEN ip' + 1 ELSE Room + 1
    <3>1. j = Len(callers') + 1
      BY <1>3, <2>1
    <3> QED
      BY <1>7, <3>1
  <2>6. ip' = callers[j].ip + 1
    BY <1>11 DEF Leaves
  <2>7. Places[j] < Places'[j]
    <3> HIDE DEF j
    <3> QED
      BY <1>4, <2>2, <2>4, <2>5, <2>6
  <2> HIDE DEF j
  <2> QED
    BY <2>3, <2>4, <2>7
<1> QED
  BY <1>1, <1>9, <1>10, <1>11, StepKinds

\* The numeral of the places grows, and is never above the largest.
LEMMA StepsFewer ==
  ASSUME ProgressInv, Next, Running', GoesForward(module)
  PROVE  StepsLeft' \in 0..(StepsLeft - 1)
<1>1. TypeInv /\ TypeOK /\ Running /\ Suspended /\ UNCHANGED module
  BY StepKinds DEF ProgressInv, TypeInv
<1>2. Suspended' /\ TypeOK'
  <2>1. TypeInv'
    BY <1>1, NextTyped
  <2> QED
    BY <2>1, SuspendedStay DEF TypeInv
<1>3. PlacesAreDigits /\ PlacesAreDigits'
  <2>1. (TypeOK /\ Suspended => PlacesAreDigits)'
    BY PlacesTyped, PTL
  <2> QED
    BY <1>1, <1>2, <2>1, PlacesTyped
<1>4. Base' = Base
  BY <1>1 DEF Base, Room, RoomOf
<1>5. PICK j \in 1..RunLimit : /\ \A i \in 1..(j - 1) : Places'[i] = Places[i]
                          /\ Places[j] < Places'[j]
  BY PlaceLater
<1> DEFINE top == [k \in 1..RunLimit |-> Base - 1]
           b == Base
           d == Places
           e == Places'
<1>6. /\ b \in Nat /\ b > 0 /\ RunLimit \in Nat
      /\ d \in Digits(b, RunLimit) /\ e \in Digits(b, RunLimit)
  BY <1>3, <1>4 DEF PlacesAreDigits, RunLimit, Digits
<1>7. (\A i \in 1..(j - 1) : d[i] = e[i]) /\ d[j] < e[j]
  BY <1>5
<1>8. /\ StepsLeft = Numeral(b, RunLimit, top) - Numeral(b, RunLimit, d)
      /\ StepsLeft' = Numeral(b, RunLimit, top) - Numeral(b, RunLimit, e)
  BY <1>4 DEF StepsLeft, RunLimit, Numeral
<1> HIDE DEF b, d, e, top
<1>9. Numeral(b, RunLimit, d) < Numeral(b, RunLimit, e)
  BY <1>6, <1>7, NumeralLess
<1>10. top = [k \in 1..RunLimit |-> b - 1]
  BY DEF top, b
<1>11. /\ Numeral(b, RunLimit, d) \in Nat /\ Numeral(b, RunLimit, e) \in Nat
       /\ Numeral(b, RunLimit, top) \in Nat /\ Numeral(b, RunLimit, e) <= Numeral(b, RunLimit, top)
  BY <1>6, <1>10, NumeralLargest
<1> QED
  BY <1>8, <1>9, <1>11

\* The machine is in a known place at each step.
LEMMA ProgressKept == Spec => []ProgressInv
<1>1. Init => ProgressInv
  <2> SUFFICES ASSUME Init PROVE ProgressInv
    OBVIOUS
  <2>1. Len(callers) = 0
    BY DEF Init
  <2>2. Suspended
    BY <2>1, SizesAssumption DEF Init, Suspended
  <2> QED
    BY <2>2, InitTyped DEF ProgressInv
<1>2. ProgressInv /\ [Next]_vars => ProgressInv'
  <2> SUFFICES ASSUME ProgressInv, [Next]_vars PROVE ProgressInv'
    OBVIOUS
  <2>1. TypeInv'
    BY NextTyped DEF ProgressInv
  <2>2. CASE Next
    BY <2>1, <2>2, SuspendedStay DEF ProgressInv
  <2>3. CASE UNCHANGED vars
    BY <2>1, <2>3 DEF ProgressInv, vars, Running, Suspended, frameStack, control, RoomOf
  <2> QED
    BY <2>2, <2>3
<1> QED
  BY <1>1, <1>2, PTL DEF Spec

\* The machine stops within as many steps as are left at its start, for every
\* module whose jumps go forward, every number of frames and size of the stack:
\* the safety half of termination.
THEOREM StepsBounded == Spec => Advances
<1>1. ProgressInv /\ [Next]_vars => [GoesForward(module) /\ Running' => StepsLeft' \in 0..(StepsLeft - 1)]_vars
  BY StepsFewer DEF ProgressInv
<1> QED
  BY <1>1, ProgressKept, PTL DEF Spec, Advances

-----------------------------------------------------------------------------
(* The modules of the compiler.                                            *)

C == INSTANCE Compiler_proofs

\* Each module comes out of the compiler, from some sequence of tokens.
ModulesCompiled ==
  \A m \in Modules : \E tokens \in Seq(C!Tokens) : m \in C!Compiled(tokens, m.source)

\* The compiler and the machine speak of the same functions, heights, jumps.
LEMMA SameIds == \A m : C!FunctionIds(m) = FunctionIds(m) /\ C!CodeIds(m) = CodeIds(m)
BY DEF C!FunctionIds, FunctionIds, C!CodeIds, CodeIds, C!Main, Main

LEMMA SameEffects ==
  ASSUME NEW m, NEW c, NEW i
  PROVE  /\ C!InstructionAt(m, c, i) = InstructionAt(m, c, i) /\ C!OpAt(m, c, i) = OpAt(m, c, i)
         /\ C!Callee(m, c, i) = Callee(m, c, i)
         /\ C!CallsFunction(m, c, i) <=> CallsFunction(m, c, i)
         /\ C!Takes(m, c, i) = Takes(m, c, i)
         /\ C!Successors(m, c, i) = Successors(m, c, i)
         /\ C!Height(m, c) = Height(m, c)
<1> USE DEF InstructionAt, C!InstructionAt, OpAt, C!OpAt, Callee, C!Callee
<1>1. C!InstructionAt(m, c, i) = InstructionAt(m, c, i) /\ C!OpAt(m, c, i) = OpAt(m, c, i)
      /\ C!Callee(m, c, i) = Callee(m, c, i)
  OBVIOUS
<1> USE DEF CallsFunction, C!CallsFunction, FunctionIds, C!FunctionIds
<1>2. C!CallsFunction(m, c, i) <=> CallsFunction(m, c, i)
  OBVIOUS
<1> USE DEF Takes, C!Takes, Successors, C!Successors, BinaryOps, C!BinaryOps,
            UnaryOps, C!UnaryOps, UnsupportedOps, C!UnsupportedOps
<1>3. C!Takes(m, c, i) = Takes(m, c, i)
  OBVIOUS
<1>4. C!Successors(m, c, i) = Successors(m, c, i)
  OBVIOUS
<1>5. C!Height(m, c) = Height(m, c)
  BY DEF Height, C!Height, Gives, C!Gives, ConstOps, C!ConstOps, Least, C!Least
<1> QED
  BY <1>1, <1>2, <1>3, <1>4, <1>5

LEMMA SameForward == ASSUME NEW m PROVE C!GoesForward(m) <=> GoesForward(m)
BY SameIds DEF GoesForward, C!GoesForward

LEMMA SameOrdinary == ASSUME NEW m PROVE C!Ordinary(m) <=> Ordinary(m)
BY SameIds DEF Ordinary, C!Ordinary, EndsInReturn, C!EndsInReturn

LEMMA SameDiscipline == ASSUME NEW m PROVE C!Disciplined(m) <=> Disciplined(m)
BY DEF Disciplined, C!Disciplined, Follows, C!Follows, Height, C!Height, Successors, C!Successors,
       Takes, C!Takes, Gives, C!Gives, OpAt, C!OpAt, InstructionAt, C!InstructionAt,
       BinaryOps, C!BinaryOps, UnaryOps, C!UnaryOps, ConstOps, C!ConstOps,
       UnsupportedOps, C!UnsupportedOps, CallsFunction, C!CallsFunction, Callee, C!Callee,
       FunctionIds, C!FunctionIds, Least, C!Least, CodeIds, C!CodeIds, Main, C!Main

\* What the compiler promises, said of the module that the machine runs.
LEMMA CompiledCode ==
  ASSUME ModulesCompiled, NEW m \in Modules
  PROVE  GoesForward(m) /\ (Ordinary(m) => Disciplined(m))
<1> PICK tokens \in Seq(C!Tokens) : m \in C!Compiled(tokens, m.source)
  BY DEF ModulesCompiled
<1>1. C!GoesForward(m) /\ (C!Ordinary(m) => C!Disciplined(m))
  BY C!CompiledCode
<1> QED
  BY <1>1, SameForward, SameOrdinary, SameDiscipline

LEMMA RunsModule == Spec => [](module \in Modules)
<1>1. TypeOK => module \in Modules
  BY DEF TypeOK
<1> QED
  BY <1>1, TypeCorrect, PTL

\* Whatever program the compiler made the module from, no jump of it goes back.
THEOREM CompiledForward == ASSUME ModulesCompiled PROVE Spec => []JumpsForward
<1>1. module \in Modules => JumpsForward
  BY CompiledCode DEF JumpsForward
<1> QED
  BY <1>1, RunsModule, PTL

\* So each step leaves the machine fewer: every program that was compiled stops,
\* with an error where it calls itself without end.
THEOREM CompiledAdvances ==
  ASSUME ModulesCompiled
  PROVE  Spec => [][Running' => StepsLeft' \in 0..(StepsLeft - 1)]_vars
<1>1. /\ JumpsForward
      /\ [GoesForward(module) /\ Running' => StepsLeft' \in 0..(StepsLeft - 1)]_vars
      => [Running' => StepsLeft' \in 0..(StepsLeft - 1)]_vars
  BY DEF JumpsForward
<1> QED
  BY <1>1, CompiledForward, StepsBounded, PTL DEF Advances

\* The machine runs the code of every ordinary program without an access below
\* its stack or outside its code and tables, although it checks none.
THEOREM CompiledSafe == ASSUME ModulesCompiled PROVE Spec => []CompiledRunsSafely
<1>1. module \in Modules /\ NeverWild => CompiledRunsSafely
  BY CompiledCode DEF CompiledRunsSafely, NeverWild, RunsDisciplined, DisciplinedModules
<1> QED
  BY <1>1, RunsModule, NeverWildAccess, PTL
=============================================================================
