-------------------------- MODULE Compilation_proofs --------------------------
(***************************************************************************)
(* Proofs that the driver of the compiler only ever leaves sound modules,  *)
(* generated from all the tokens that were checked, whatever sources it is *)
(* given.                                                                  *)
(***************************************************************************)
EXTENDS Compilation, Compiler_proofs

\* Whether or not it fails, the generator ends in a state of a builder.
LEMMA GeneratedState ==
  ASSUME NEW tokens \in Seq(Tokens)
  PROVE  Generated(tokens) \in States(tokens)
<1> PICK b : b = Start(tokens)
  OBVIOUS
<1> PICK d : d = Descent(tokens)[<<"StatementList", b, 0>>]
  OBVIOUS
<1> PICK i : i = Instr("Halt", NoArg)
  OBVIOUS
<1>1. b \in Builders(tokens) /\ ~b.failed
  BY StartBuilder
<1>2. Runs(tokens, b, d)
  BY <1>1, DescentObeys DEF Obeys, Performs
<1>3. d \in States(tokens)
  BY <1>2, RunsBuilder DEF Builders
<1>4. i \in Instruction
  BY DEF Instr, Instruction, OpCodes, NoArg
<1>5. Generated(tokens) = [d EXCEPT !.out = Append(@, i)]
  BY DEF Generated, Emit
<1>6. Append(d.out, i) \in Seq(Instruction)
  BY <1>3, <1>4 DEF States
<1> QED
  BY <1>3, <1>5, <1>6 DEF States

\* The parser keeps the source; the generator starts with what it left, and
\* leaves what it makes of it.
CompilationInv ==
  /\ phase \in {"scanned", "refused", "checked", "thrown", "built"}
  /\ parser.tokens \in Sources /\ parser \in Parser!States(parser.tokens)
  /\ phase \in {"scanned", "refused", "checked"} => builder = Start(<<>>)
  /\ phase \in {"thrown", "built"} => builder = Generated(Table)
  /\ phase = "built" => ~builder.failed
  /\ phase \in {"checked", "thrown", "built"} =>
       ~parser.failed /\ parser = Parser!Checked(parser.tokens)

LEMMA CompilationStarts == CompilationInit => CompilationInv
<1> SUFFICES ASSUME CompilationInit PROVE CompilationInv
  OBVIOUS
<1> PICK tokens \in Sources : parser = Parser!Start(tokens)
  BY DEF CompilationInit
<1>1. parser.tokens = tokens /\ parser \in Parser!States(tokens)
  BY DEF Parser!Start, Parser!States
<1> QED
  BY <1>1 DEF CompilationInit, CompilationInv

LEMMA CompilationKeeps ==
  ASSUME SourcesScanned, CompilationInv, [CompilationNext]_compilation
  PROVE  CompilationInv'
<1>1. CASE SyntaxCheck
  <2> PICK tokens : tokens = parser.tokens
    OBVIOUS
  <2>1. tokens \in Sources /\ Len(tokens) \in Nat
    BY LenProperties DEF CompilationInv, SourcesScanned
  <2>2. parser' = Parser!Checked(tokens)
    BY <1>1 DEF SyntaxCheck
  <2>3. parser' \in Parser!States(tokens)
    BY <2>1, <2>2, CheckedReads
  <2>4. parser'.tokens = tokens
    BY <2>3 DEF Parser!States
  <2>5. /\ phase' \in {"refused", "checked"} /\ builder' = builder /\ phase = "scanned"
        /\ phase' = "checked" => ~parser'.failed
    BY <1>1 DEF SyntaxCheck
  <2> QED
    BY <2>1, <2>2, <2>3, <2>4, <2>5 DEF CompilationInv
<1>2. CASE Generate
  <2>1. /\ builder' = Generated(Table) /\ parser' = parser
        /\ phase' \in {"thrown", "built"} /\ (phase' = "built" => ~builder'.failed)
        /\ phase = "checked"
    BY <1>2 DEF Generate
  <2>2. Table' = Table
    BY <2>1 DEF Table
  <2> QED
    BY <2>1, <2>2 DEF CompilationInv
<1>3. CASE UNCHANGED compilation
  BY <1>3 DEF CompilationInv, compilation, Table
<1> QED
  BY <1>1, <1>2, <1>3 DEF CompilationNext, CompilationEnded

LEMMA CompilationInvariant == ASSUME SourcesScanned PROVE CompilationSpec => []CompilationInv
<1>1. CompilationInv /\ [CompilationNext]_compilation => CompilationInv'
  BY CompilationKeeps
<1> QED
  BY <1>1, CompilationStarts, PTL DEF CompilationSpec

\* What the parser leaves in the table are tokens.
LEMMA TableScanned == ASSUME SourcesScanned, CompilationInv PROVE Table \in Seq(Tokens)
<1>1. parser.tokens \in Seq(Tokens)
  BY DEF SourcesScanned, CompilationInv
<1> QED
  BY <1>1, TableTokens DEF Table, CompilationInv

\* Whatever source the driver is given, what it builds is a module the machine
\* can be given (testVM of vm.t.cpp, with TByteCodeBuilder.cpp below it).
THEOREM CompilationTyped == ASSUME SourcesScanned PROVE CompilationSpec => []CompilationTypeOK
<1>1. ASSUME CompilationInv PROVE CompilationTypeOK
  <2>1. parser.pos \in Nat \ {0}
    BY <1>1 DEF CompilationInv, Parser!States
  <2>2. builder.pos \in Nat \ {0}
    <3>1. CASE phase \in {"thrown", "built"}
      <4>1. builder \in States(Table)
        BY <1>1, <3>1, TableScanned, GeneratedState DEF CompilationInv
      <4> QED
        BY <4>1 DEF States
    <3>2. CASE phase \in {"scanned", "refused", "checked"}
      BY <1>1, <3>2 DEF CompilationInv, Start
    <3> QED
      BY <1>1, <3>1, <3>2 DEF CompilationInv
  <2>3. ASSUME phase = "built" PROVE IsModule(Built)
    BY <1>1, <2>3, TableScanned, GeneratedModule DEF CompilationInv, Built, Module
  <2> QED
    BY <1>1, <2>1, <2>2, <2>3 DEF CompilationTypeOK, CompilationInv
<1> QED
  BY <1>1, CompilationInvariant, PTL

\* The code of what it builds keeps the discipline of the machine, where the
\* module is ordinary.
THEOREM CompilationDisciplined ==
  ASSUME SourcesScanned PROVE CompilationSpec => []BuiltDisciplined
<1>1. ASSUME CompilationInv PROVE BuiltDisciplined
  <2> SUFFICES ASSUME phase = "built" PROVE KeepsDiscipline(builder)
    BY DEF BuiltDisciplined
  <2>1. builder = Generated(Table) /\ ~Generated(Table).failed
    BY <1>1 DEF CompilationInv
  <2> QED
    BY <1>1, <2>1, TableScanned, GeneratedDisciplined DEF KeepsDiscipline, Module
<1> QED
  BY <1>1, CompilationInvariant, PTL

\* And it has no loop.
THEOREM CompilationForward == ASSUME SourcesScanned PROVE CompilationSpec => []BuiltForward
<1>1. ASSUME CompilationInv PROVE BuiltForward
  BY <1>1, TableScanned, GeneratedModule DEF CompilationInv, BuiltForward, Built, Module
<1> QED
  BY <1>1, CompilationInvariant, PTL

-----------------------------------------------------------------------------
(* How deep a token lies in the blocks of a source.                        *)

\* The token at a position; behind the last, the end of the stream.
Word(tokens, j) == IF j > Len(tokens) THEN "EndofStream" ELSE tokens[j].code

\* The tokens that stop a list of statements, and those that move in blocks.
Enders == {"End", "Else", "EndofStream", "failed"}
Plain(tokens, j) == Word(tokens, j) \notin Enders \cup {"If", "Function"}

\* The number of the open blocks, and what opened them, the last one first.
Outermost == [depth |-> 0, blocks |-> <<>>]
Opened(n, kind) == [depth |-> n.depth + 1, blocks |-> <<kind, n.blocks>>]
AfterWord(n, w) ==
  CASE w = "If" -> Opened(n, "then")
    [] w = "Function" -> Opened(n, "fn")
    [] w = "Else" /\ n.depth > 0 -> [depth |-> n.depth, blocks |-> <<"else", n.blocks[2]>>]
    [] w = "End" /\ n.depth > 0 -> [depth |-> n.depth - 1, blocks |-> n.blocks[2]]
    [] OTHER -> n

NestFrom(tokens, N, j) == IF j = 0 THEN Outermost ELSE AfterWord(N[j - 1], Word(tokens, j))
NestUpTo(tokens, m, N) == N = [j \in 0..m |-> NestFrom(tokens, N, j)]

\* Before the token at j, the blocks that those up to j - 1 have opened.
Nest(tokens, j) == (CHOOSE N : NestUpTo(tokens, j - 1, N))[j - 1]

\* The blocks before a token are counted as far as one likes.
LEMMA NestMade ==
  ASSUME NEW tokens, NEW m \in Nat
  PROVE  \E N : NestUpTo(tokens, m, N)
<1> DEFINE Made == {n \in 0..m : \E N : NestUpTo(tokens, n, N)}
<1>1. 0 \in Made
  <2> DEFINE N == [j \in 0..0 |-> Outermost]
  <2>1. \A j \in 0..0 : N[j] = NestFrom(tokens, N, j)
    BY DEF NestFrom
  <2>2. N = [j \in 0..0 |-> N[j]]
    OBVIOUS
  <2> HIDE DEF N
  <2>3. NestUpTo(tokens, 0, N)
    BY <2>1, <2>2 DEF NestUpTo
  <2> QED
    BY <2>3
<1>2. ASSUME NEW n \in 0..(m - 1), n \in Made PROVE n + 1 \in Made
  <2>1. PICK N : NestUpTo(tokens, n, N)
    BY <1>2
  <2> DEFINE W == [j \in 0..(n + 1) |-> IF j <= n THEN N[j] ELSE NestFrom(tokens, N, j)]
  <2>2. \A j \in 0..n : N[j] = NestFrom(tokens, N, j)
    BY <2>1 DEF NestUpTo
  <2>3. ASSUME NEW j \in 0..(n + 1) PROVE W[j] = NestFrom(tokens, W, j)
    <3>1. NestFrom(tokens, W, j) = NestFrom(tokens, N, j)
      <4>1. j # 0 => j - 1 \in 0..(n + 1) /\ j - 1 <= n
        OBVIOUS
      <4>2. j # 0 => W[j - 1] = N[j - 1]
        BY <4>1
      <4> HIDE DEF W
      <4> QED
        BY <4>2 DEF NestFrom
    <3>2. W[j] = NestFrom(tokens, N, j)
      BY <2>2
    <3> QED
      BY <3>1, <3>2
  <2>4. W = [j \in 0..(n + 1) |-> W[j]]
    OBVIOUS
  <2> HIDE DEF W
  <2>5. NestUpTo(tokens, n + 1, W)
    BY <2>3, <2>4 DEF NestUpTo
  <2>6. n + 1 \in 0..m
    BY <1>2
  <2> QED
    BY <2>5, <2>6
<1>3. m \in Made
  <2> HIDE DEF Made
  <2>1. 0..m \subseteq Made
    BY <1>1, <1>2, InductionUpTo
  <2> QED
    BY <2>1
<1> QED
  BY <1>3

\* However far one counts, the blocks before a token are the same.
LEMMA NestUnique ==
  ASSUME NEW tokens, NEW m \in Nat, NEW n \in Nat, NEW k \in Nat, k <= m, k <= n,
         NEW N, NestUpTo(tokens, m, N), NEW M, NestUpTo(tokens, n, M)
  PROVE  N[k] = M[k]
<1> DEFINE Same == {j \in 0..k : N[j] = M[j]}
<1>1. \A j \in 0..k : N[j] = NestFrom(tokens, N, j) /\ M[j] = NestFrom(tokens, M, j)
  <2>1. \A j \in 0..m : N[j] = NestFrom(tokens, N, j)
    BY DEF NestUpTo
  <2>2. \A j \in 0..n : M[j] = NestFrom(tokens, M, j)
    BY DEF NestUpTo
  <2> QED
    BY <2>1, <2>2
<1>2. 0 \in Same
  BY <1>1 DEF NestFrom
<1>3. ASSUME NEW j \in 0..(k - 1), j \in Same PROVE j + 1 \in Same
  <2>1. j + 1 \in 0..k /\ j + 1 # 0 /\ j + 1 - 1 = j
    OBVIOUS
  <2>2. NestFrom(tokens, N, j + 1) = NestFrom(tokens, M, j + 1)
    BY <1>3, <2>1 DEF NestFrom
  <2> QED
    BY <1>1, <2>1, <2>2
<1>4. 0..k \subseteq Same
  <2> HIDE DEF Same
  <2> QED
    BY <1>2, <1>3, InductionUpTo
<1> QED
  BY <1>4

\* Each token moves in the blocks from where those before it left.
LEMMA NestSteps ==
  ASSUME NEW tokens, NEW j \in Nat \ {0}
  PROVE  /\ Nest(tokens, 1) = Outermost
         /\ Nest(tokens, j + 1) = AfterWord(Nest(tokens, j), Word(tokens, j))
<1>1. Nest(tokens, 1) = Outermost
  <2> PICK z \in Nat : z = 0
    OBVIOUS
  <2>1. \E N : NestUpTo(tokens, z, N)
    BY NestMade
  <2> PICK N : N = CHOOSE M : NestUpTo(tokens, z, M)
    OBVIOUS
  <2>2. NestUpTo(tokens, z, N)
    BY <2>1
  <2>3. z \in 0..z
    OBVIOUS
  <2>4. N[z] = NestFrom(tokens, N, z)
    BY <2>2, <2>3 DEF NestUpTo
  <2>5. Nest(tokens, 1) = N[z]
    <3>1. 1 - 1 = z
      OBVIOUS
    <3> QED
      BY <3>1 DEF Nest
  <2> QED
    BY <2>4, <2>5 DEF NestFrom
<1>2. Nest(tokens, j + 1) = AfterWord(Nest(tokens, j), Word(tokens, j))
  <2> PICK i \in Nat : i = j - 1
    OBVIOUS
  <2> PICK N : N = CHOOSE M : NestUpTo(tokens, i, M)
    OBVIOUS
  <2> PICK L : L = CHOOSE M : NestUpTo(tokens, j, M)
    OBVIOUS
  <2>1. NestUpTo(tokens, i, N) /\ NestUpTo(tokens, j, L)
    BY NestMade
  <2>2. N[i] = L[i]
    <3>1. i <= i /\ i <= j
      OBVIOUS
    <3> QED
      BY <2>1, <3>1, NestUnique
  <2>3. Nest(tokens, j) = N[i]
    BY DEF Nest
  <2>4. Nest(tokens, j + 1) = L[j]
    <3>1. j + 1 - 1 = j
      OBVIOUS
    <3> QED
      BY <3>1 DEF Nest
  <2>5. L[j] = NestFrom(tokens, L, j)
    BY <2>1 DEF NestUpTo
  <2>6. NestFrom(tokens, L, j) = AfterWord(L[i], Word(tokens, j))
    BY DEF NestFrom
  <2> QED
    BY <2>2, <2>3, <2>4, <2>5, <2>6
<1> QED
  BY <1>1, <1>2

\* No token closes more blocks than are open.
LEMMA NestDepth ==
  ASSUME NEW tokens, NEW j \in Nat \ {0}
  PROVE  Nest(tokens, j).depth \in Nat
<1> DEFINE Good == {k \in 0..(j - 1) : Nest(tokens, k + 1).depth \in Nat}
<1>1. 0 \in Good
  <2>1. Nest(tokens, 1).depth = 0
    BY NestSteps DEF Outermost
  <2> QED
    BY <2>1
<1>2. ASSUME NEW k \in 0..(j - 1 - 1), k \in Good PROVE k + 1 \in Good
  <2> PICK n : n = Nest(tokens, k + 1)
    OBVIOUS
  <2>1. n.depth \in Nat
    BY <1>2
  <2>2. Nest(tokens, k + 1 + 1) = AfterWord(n, Word(tokens, k + 1))
    BY NestSteps
  <2>3. AfterWord(n, Word(tokens, k + 1)).depth \in Nat
    BY <2>1 DEF AfterWord, Opened
  <2> QED
    BY <2>2, <2>3
<1>3. 0..(j - 1) \subseteq Good
  <2>1. j - 1 \in Nat
    OBVIOUS
  <2> HIDE DEF Good
  <2> QED
    BY <1>1, <1>2, <2>1, InductionUpTo
<1>4. j - 1 \in Good
  BY <1>3
<1> QED
  BY <1>4
-----------------------------------------------------------------------------
(* Pieces of a source, from one token to the one before another.           *)

\* A position in the tokens.
Place == Nat \ {0}

\* The same blocks are open.
Alike(n, m) == n.depth = m.depth /\ n.blocks = m.blocks

\* No token from i to k - 1 has to do with blocks.
AllPlain(tokens, i, k) == \A j \in i..(k - 1) : Plain(tokens, j)

\* A token that no program has there: an else that does not follow a then, the
\* end of the tokens in a block, a function that has no name.
Broken(tokens, j) ==
  LET n == Nest(tokens, j)
      w == Word(tokens, j)
  IN  \/ w = "Else" /\ n.depth > 0 /\ n.blocks[1] # "then"
      \/ w \in {"EndofStream", "failed"} /\ n.depth > 0
      \/ w = "Function" /\ Word(tokens, j + 1) # "Identifier"
Unbroken(tokens, i, k) == \A j \in i..k : ~Broken(tokens, j)

\* A token that would stop a list is in a block of the piece.
Covered(tokens, i, j) ==
  Word(tokens, j) \in Enders => Nest(tokens, j).depth > Nest(tokens, i).depth

\* A piece that closes what it opens, and has nothing broken.
Closed(tokens, i, k) ==
  /\ i <= k
  /\ Alike(Nest(tokens, k), Nest(tokens, i))
  /\ \A j \in i..(k - 1) : ~Broken(tokens, j) /\ Covered(tokens, i, j)

\* One that does as far as nothing is broken in it.
Meant(tokens, i, k) ==
  /\ i <= k
  /\ Unbroken(tokens, i, k) => Alike(Nest(tokens, k), Nest(tokens, i))
  /\ \A j \in i..(k - 1) : Unbroken(tokens, i, j) => Covered(tokens, i, j)

\* What the tokens do to the blocks.
LEMMA NestMoves ==
  ASSUME NEW tokens, NEW j \in Place
  PROVE  /\ Nest(tokens, j).depth \in Nat
         /\ Plain(tokens, j) => Nest(tokens, j + 1) = Nest(tokens, j)
         /\ Word(tokens, j) = "If" => Nest(tokens, j + 1) = Opened(Nest(tokens, j), "then")
         /\ Word(tokens, j) = "Function" => Nest(tokens, j + 1) = Opened(Nest(tokens, j), "fn")
         /\ Nest(tokens, j).depth > 0 =>
              /\ Word(tokens, j) = "Else" =>
                   /\ Nest(tokens, j + 1).depth = Nest(tokens, j).depth
                   /\ Nest(tokens, j + 1).blocks = <<"else", Nest(tokens, j).blocks[2]>>
              /\ Word(tokens, j) = "End" =>
                   /\ Nest(tokens, j + 1).depth = Nest(tokens, j).depth - 1
                   /\ Nest(tokens, j + 1).blocks = Nest(tokens, j).blocks[2]
<1>1. Nest(tokens, j + 1) = AfterWord(Nest(tokens, j), Word(tokens, j))
  BY NestSteps DEF Place
<1>2. Nest(tokens, j).depth \in Nat
  BY NestDepth DEF Place
<1> QED
  BY <1>1, <1>2 DEF AfterWord, Plain, Enders

\* Plain tokens leave the blocks as they are.
LEMMA PlainAlike ==
  ASSUME NEW tokens, NEW i \in Place, NEW k \in Place, i <= k, AllPlain(tokens, i, k)
  PROVE  Nest(tokens, k) = Nest(tokens, i)
<1> DEFINE Good == {j \in 0..(k - i) : Nest(tokens, i + j) = Nest(tokens, i)}
<1>1. 0 \in Good
  BY DEF Place
<1>2. ASSUME NEW j \in 0..(k - i - 1), j \in Good PROVE j + 1 \in Good
  <2>1. i + j \in i..(k - 1) /\ i + j \in Place /\ i + j + 1 = i + (j + 1) /\ j + 1 \in 0..(k - i)
    BY DEF Place
  <2>2. Nest(tokens, i + j + 1) = Nest(tokens, i + j)
    BY <2>1, NestMoves DEF AllPlain
  <2> QED
    BY <1>2, <2>1, <2>2
<1>3. k - i \in Good
  <2>1. k - i \in Nat
    BY DEF Place
  <2> HIDE DEF Good
  <2>2. 0..(k - i) \subseteq Good
    BY <1>1, <1>2, <2>1, InductionUpTo
  <2> QED
    BY <2>1, <2>2
<1> QED
  BY <1>3 DEF Place

\* A piece of plain tokens closes what it opens.
LEMMA PlainPiece ==
  ASSUME NEW tokens, NEW i \in Place, NEW k \in Place, i <= k, AllPlain(tokens, i, k)
  PROVE  Closed(tokens, i, k) /\ Meant(tokens, i, k)
<1>1. Alike(Nest(tokens, k), Nest(tokens, i))
  BY PlainAlike DEF Alike
<1>2. \A j \in i..(k - 1) : ~Broken(tokens, j) /\ Covered(tokens, i, j)
  BY DEF AllPlain, Plain, Broken, Covered, Enders
<1> QED
  BY <1>1, <1>2 DEF Closed, Meant

\* Pieces that close, one after the other, are one.
LEMMA ClosedThen ==
  ASSUME NEW tokens, NEW i \in Place, NEW k \in Place, NEW m \in Place,
         Closed(tokens, i, k), Closed(tokens, k, m)
  PROVE  Closed(tokens, i, m)
<1>1. Alike(Nest(tokens, m), Nest(tokens, i)) /\ Nest(tokens, k).depth = Nest(tokens, i).depth
  BY DEF Closed, Alike
<1>2. i <= m /\ \A j \in i..(m - 1) : j \in i..(k - 1) \/ j \in k..(m - 1)
  BY DEF Closed, Place
<1>3. \A j \in i..(m - 1) : ~Broken(tokens, j) /\ Covered(tokens, i, j)
  BY <1>1, <1>2 DEF Closed, Covered
<1> QED
  BY <1>1, <1>2, <1>3 DEF Closed

LEMMA MeantThen ==
  ASSUME NEW tokens, NEW i \in Place, NEW k \in Place, NEW m \in Place,
         Meant(tokens, i, k), Meant(tokens, k, m)
  PROVE  Meant(tokens, i, m)
<1>1. i <= k /\ k <= m /\ i <= m
  BY DEF Meant, Place
<1>2. ASSUME NEW j \in Place, k <= j, Unbroken(tokens, i, j)
      PROVE  Unbroken(tokens, k, j) /\ Alike(Nest(tokens, k), Nest(tokens, i))
  <2>1. Unbroken(tokens, i, k) /\ Unbroken(tokens, k, j)
    BY <1>1, <1>2 DEF Unbroken, Place
  <2> QED
    BY <2>1 DEF Meant
<1>3. Unbroken(tokens, i, m) => Alike(Nest(tokens, m), Nest(tokens, i))
  BY <1>1, <1>2 DEF Meant, Alike
<1>4. ASSUME NEW j \in i..(m - 1), Unbroken(tokens, i, j) PROVE Covered(tokens, i, j)
  <2>1. CASE j < k
    <3>1. j \in i..(k - 1)
      BY <2>1 DEF Place
    <3> QED
      BY <1>4, <3>1 DEF Meant
  <2>2. CASE j >= k
    <3>1. j \in Place /\ j \in k..(m - 1)
      BY <1>1, <2>2 DEF Place
    <3>2. Unbroken(tokens, k, j) /\ Nest(tokens, k).depth = Nest(tokens, i).depth
      BY <1>2, <1>4, <2>2, <3>1 DEF Alike
    <3>3. Covered(tokens, k, j)
      BY <3>1, <3>2 DEF Meant
    <3> QED
      BY <3>2, <3>3 DEF Covered
  <2> QED
    BY <2>1, <2>2 DEF Place
<1> QED
  BY <1>1, <1>3, <1>4 DEF Meant

\* A block closes what it opens, if what is in it does.
LEMMA ClosedBlock ==
  ASSUME NEW tokens, NEW i \in Place, NEW b \in Place,
         Word(tokens, i) = "If" \/ (Word(tokens, i) = "Function" /\ Word(tokens, i + 1) = "Identifier"),
         Closed(tokens, i + 1, b), Word(tokens, b) = "End"
  PROVE  Closed(tokens, i, b + 1)
<1> DEFINE n == Nest(tokens, i)
           m == Nest(tokens, b)
<1>1. i + 1 \in Place /\ i + 1 <= b /\ i <= b + 1 /\ n.depth \in Nat
  BY NestMoves DEF Closed, Place
<1>2. PICK kind : Nest(tokens, i + 1) = Opened(n, kind)
  BY NestMoves
<1>3. m.depth = n.depth + 1 /\ m.blocks = <<kind, n.blocks>>
  BY <1>2 DEF Closed, Alike, Opened
<1>4. Alike(Nest(tokens, b + 1), n)
  BY <1>1, <1>3, NestMoves DEF Alike
<1>5. ASSUME NEW j \in i..b PROVE ~Broken(tokens, j) /\ Covered(tokens, i, j)
  <2>1. CASE j = i
    BY <2>1 DEF Broken, Covered, Enders
  <2>2. CASE j = b
    BY <1>1, <1>3, <2>2 DEF Broken, Covered
  <2>3. CASE j \in (i + 1)..(b - 1)
    <3>1. ~Broken(tokens, j) /\ Covered(tokens, i + 1, j) /\ Nest(tokens, j).depth \in Nat
      <4>1. j \in Place
        BY <2>3 DEF Place
      <4> QED
        BY <2>3, <4>1, NestMoves DEF Closed
    <3> QED
      BY <1>1, <1>2, <3>1 DEF Covered, Opened
  <2> QED
    BY <2>1, <2>2, <2>3 DEF Place
<1>6. \A j \in i..((b + 1) - 1) : ~Broken(tokens, j) /\ Covered(tokens, i, j)
  <2>1. \A j \in i..((b + 1) - 1) : j \in i..b
    BY DEF Place
  <2> QED
    BY <1>5, <2>1
<1> QED
  BY <1>1, <1>4, <1>6 DEF Closed

\* So does one with an alternative.
LEMMA ClosedIfElse ==
  ASSUME NEW tokens, NEW i \in Place, NEW b \in Place, NEW c \in Place,
         Word(tokens, i) = "If", Closed(tokens, i + 1, b), Word(tokens, b) = "Else",
         Closed(tokens, b + 1, c), Word(tokens, c) = "End"
  PROVE  Closed(tokens, i, c + 1)
<1> DEFINE n == Nest(tokens, i)
           m == Nest(tokens, b)
           o == Nest(tokens, b + 1)
           e == Nest(tokens, c)
<1>1. /\ i + 1 \in Place /\ b + 1 \in Place /\ i + 1 <= b /\ b + 1 <= c /\ i <= c + 1
      /\ n.depth \in Nat
  BY NestMoves DEF Closed, Place
<1>2. Nest(tokens, i + 1) = Opened(n, "then")
  BY NestMoves
<1>3. m.depth = n.depth + 1 /\ m.blocks = <<"then", n.blocks>>
  BY <1>2 DEF Closed, Alike, Opened
<1>4. o.depth = n.depth + 1 /\ o.blocks = <<"else", n.blocks>>
  BY <1>1, <1>3, NestMoves
<1>5. e.depth = n.depth + 1 /\ e.blocks = <<"else", n.blocks>>
  BY <1>4 DEF Closed, Alike
<1>6. Alike(Nest(tokens, c + 1), n)
  BY <1>1, <1>5, NestMoves DEF Alike
<1>7. ASSUME NEW j \in i..c PROVE ~Broken(tokens, j) /\ Covered(tokens, i, j)
  <2>1. CASE j = i
    BY <2>1 DEF Broken, Covered, Enders
  <2>2. CASE j = b
    BY <1>1, <1>3, <2>2 DEF Broken, Covered
  <2>3. CASE j = c
    BY <1>1, <1>5, <2>3 DEF Broken, Covered
  <2>4. j \in Place /\ Nest(tokens, j).depth \in Nat
    <3>1. j \in Place
      BY DEF Place
    <3> QED
      BY <3>1, NestMoves
  <2>5. CASE j \in (i + 1)..(b - 1)
    BY <1>1, <1>2, <2>4, <2>5 DEF Covered, Opened, Closed
  <2>6. CASE j \in (b + 1)..(c - 1)
    BY <1>1, <1>4, <2>4, <2>6 DEF Covered, Closed
  <2> QED
    BY <2>1, <2>2, <2>3, <2>5, <2>6 DEF Place
<1>8. \A j \in i..((c + 1) - 1) : ~Broken(tokens, j) /\ Covered(tokens, i, j)
  <2>1. \A j \in i..((c + 1) - 1) : j \in i..c
    BY DEF Place
  <2> QED
    BY <1>7, <2>1
<1> QED
  BY <1>1, <1>6, <1>8 DEF Closed

\* What is expected after a block is read where it is.
PastEnd(tokens, b) == IF Word(tokens, b) = "End" THEN b + 1 ELSE b

\* A block whose end may be missing is meant, if what is in it is.
LEMMA MeantBlock ==
  ASSUME NEW tokens, NEW i \in Place, NEW b \in Place,
         Word(tokens, i) \in {"If", "Function"}, Meant(tokens, i + 1, b),
         Word(tokens, b) \in Enders, Word(tokens, b) = "Else" => Word(tokens, i) = "Function"
  PROVE  Meant(tokens, i, PastEnd(tokens, b))
<1> DEFINE n == Nest(tokens, i)
           m == Nest(tokens, b)
           k == PastEnd(tokens, b)
<1>1. i + 1 \in Place /\ i + 1 <= b /\ i <= b /\ n.depth \in Nat /\ m.depth \in Nat
  BY NestMoves DEF Meant, Place
<1>2. PICK kind : Nest(tokens, i + 1) = Opened(n, kind) /\ (kind = "then" => Word(tokens, i) = "If")
  BY NestMoves
<1>3. ASSUME NEW j \in Place, i <= j, Unbroken(tokens, i, j)
      PROVE  Unbroken(tokens, i + 1, j)
  BY <1>3 DEF Unbroken, Place
<1>4. ASSUME Unbroken(tokens, i, b)
      PROVE  m.depth = n.depth + 1 /\ m.blocks = <<kind, n.blocks>> /\ Word(tokens, b) = "End"
  <2>1. m.depth = n.depth + 1 /\ m.blocks = <<kind, n.blocks>>
    BY <1>1, <1>2, <1>3, <1>4 DEF Meant, Alike, Opened
  <2>2. ~Broken(tokens, b)
    BY <1>1, <1>4 DEF Unbroken, Place
  <2>3. m.depth > 0 /\ m.blocks[1] = kind
    BY <1>1, <2>1
  <2> QED
    BY <1>2, <2>1, <2>2, <2>3 DEF Broken, Enders
<1>5. b <= k /\ k \in {b, b + 1} /\ (Word(tokens, b) = "End" => k = b + 1)
  BY DEF PastEnd, Place
<1> HIDE DEF k
<1>6. ASSUME Unbroken(tokens, i, k) PROVE Alike(Nest(tokens, k), n)
  <2>1. Unbroken(tokens, i, b)
    BY <1>5, <1>6 DEF Unbroken, Place
  <2>2. k = b + 1 /\ Word(tokens, b) = "End" /\ m.depth > 0
    BY <1>1, <1>4, <1>5, <2>1
  <2> QED
    BY <1>1, <1>4, <2>1, <2>2, NestMoves DEF Alike
<1>7. ASSUME NEW j \in i..(k - 1), Unbroken(tokens, i, j) PROVE Covered(tokens, i, j)
  <2>1. CASE j = i
    BY <2>1 DEF Covered, Enders
  <2>2. CASE j = b
    BY <1>1, <1>4, <1>7, <2>2 DEF Covered
  <2>3. CASE j \in (i + 1)..(b - 1)
    <3>1. j \in Place /\ i <= j
      BY <2>3 DEF Place
    <3>2. Nest(tokens, j).depth \in Nat
      BY <3>1, NestMoves
    <3>3. Covered(tokens, i + 1, j)
      BY <1>3, <1>7, <2>3, <3>1 DEF Meant
    <3> QED
      BY <1>1, <1>2, <3>2, <3>3 DEF Covered, Opened
  <2> QED
    BY <1>5, <2>1, <2>2, <2>3 DEF Place
<1>8. i <= k
  BY <1>1, <1>5 DEF Place
<1>9. Meant(tokens, i, k)
  BY <1>6, <1>7, <1>8 DEF Meant
<1> QED
  BY <1>9 DEF k

\* So is one with an alternative.
LEMMA MeantIfElse ==
  ASSUME NEW tokens, NEW i \in Place, NEW b \in Place, NEW c \in Place,
         Word(tokens, i) = "If", Meant(tokens, i + 1, b), Word(tokens, b) = "Else",
         Meant(tokens, b + 1, c), Word(tokens, c) \in Enders
  PROVE  Meant(tokens, i, PastEnd(tokens, c))
<1> DEFINE n == Nest(tokens, i)
           m == Nest(tokens, b)
           o == Nest(tokens, b + 1)
           e == Nest(tokens, c)
           k == PastEnd(tokens, c)
<1>1. /\ i + 1 \in Place /\ b + 1 \in Place /\ i + 1 <= b /\ b + 1 <= c /\ i <= c
      /\ n.depth \in Nat /\ m.depth \in Nat /\ o.depth \in Nat /\ e.depth \in Nat
  <2>1. i + 1 \in Place /\ b + 1 \in Place
    BY DEF Place
  <2>2. i + 1 <= b /\ b + 1 <= c /\ i <= c
    BY DEF Meant, Place
  <2> QED
    BY <2>1, <2>2, NestMoves
<1>2. Nest(tokens, i + 1) = Opened(n, "then")
  BY NestMoves
<1>3. ASSUME NEW j \in Place, i <= j, Unbroken(tokens, i, j)
      PROVE  /\ Unbroken(tokens, i + 1, j)
             /\ j >= b => m.depth = n.depth + 1 /\ m.blocks = <<"then", n.blocks>>
             /\ j > b => /\ Unbroken(tokens, b + 1, j)
                         /\ o.depth = n.depth + 1 /\ o.blocks = <<"else", n.blocks>>
  <2>1. Unbroken(tokens, i + 1, j)
    BY <1>3 DEF Unbroken, Place
  <2>2. ASSUME j >= b PROVE m.depth = n.depth + 1 /\ m.blocks = <<"then", n.blocks>>
    <3>1. Unbroken(tokens, i + 1, b)
      BY <2>1, <2>2 DEF Unbroken, Place
    <3> QED
      BY <1>2, <3>1 DEF Meant, Alike, Opened
  <2>3. ASSUME j > b
        PROVE  /\ Unbroken(tokens, b + 1, j)
               /\ o.depth = n.depth + 1 /\ o.blocks = <<"else", n.blocks>>
    <3>1. Unbroken(tokens, b + 1, j)
      BY <1>1, <2>1, <2>3 DEF Unbroken, Place
    <3>2. m.depth = n.depth + 1 /\ m.blocks = <<"then", n.blocks>>
      BY <2>2, <2>3 DEF Place
    <3> QED
      BY <1>1, <3>1, <3>2, NestMoves
  <2> QED
    BY <2>1, <2>2, <2>3
<1>4. ASSUME Unbroken(tokens, i, c)
      PROVE  e.depth = n.depth + 1 /\ e.blocks = <<"else", n.blocks>> /\ Word(tokens, c) = "End"
  <2>1. c > b
    BY <1>1 DEF Place
  <2>2. e.depth = n.depth + 1 /\ e.blocks = <<"else", n.blocks>>
    BY <1>1, <1>3, <1>4, <2>1 DEF Meant, Alike
  <2>3. ~Broken(tokens, c)
    BY <1>1, <1>4 DEF Unbroken, Place
  <2>4. e.depth > 0 /\ e.blocks[1] = "else"
    BY <1>1, <2>2
  <2> QED
    BY <2>2, <2>3, <2>4 DEF Broken, Enders
<1>5. c <= k /\ k \in {c, c + 1} /\ (Word(tokens, c) = "End" => k = c + 1)
  BY DEF PastEnd, Place
<1> HIDE DEF k
<1>6. ASSUME Unbroken(tokens, i, k) PROVE Alike(Nest(tokens, k), n)
  <2>1. Unbroken(tokens, i, c)
    BY <1>5, <1>6 DEF Unbroken, Place
  <2>2. k = c + 1 /\ Word(tokens, c) = "End" /\ e.depth > 0
    BY <1>1, <1>4, <1>5, <2>1
  <2> QED
    BY <1>1, <1>4, <2>1, <2>2, NestMoves DEF Alike
<1>7. ASSUME NEW j \in i..(k - 1), Unbroken(tokens, i, j) PROVE Covered(tokens, i, j)
  <2>1. j \in Place /\ i <= j
    BY DEF Place
  <2>2. Nest(tokens, j).depth \in Nat
    BY <2>1, NestMoves
  <2>3. CASE j = i
    BY <2>3 DEF Covered, Enders
  <2>4. CASE j = b
    BY <1>1, <1>3, <1>7, <2>1, <2>4 DEF Covered, Place
  <2>5. CASE j = c
    BY <1>1, <1>4, <1>7, <2>5 DEF Covered
  <2>6. CASE j \in (i + 1)..(b - 1)
    <3>1. Covered(tokens, i + 1, j)
      BY <1>3, <1>7, <2>1, <2>6 DEF Meant
    <3> QED
      BY <1>1, <1>2, <2>2, <3>1 DEF Covered, Opened
  <2>7. CASE j \in (b + 1)..(c - 1)
    <3>1. j > b
      BY <2>7 DEF Place
    <3>2. Unbroken(tokens, b + 1, j) /\ o.depth = n.depth + 1
      BY <1>3, <1>7, <2>1, <3>1
    <3>3. Covered(tokens, b + 1, j)
      BY <2>7, <3>2 DEF Meant
    <3> QED
      BY <1>1, <2>2, <3>2, <3>3 DEF Covered
  <2> QED
    BY <1>5, <2>3, <2>4, <2>5, <2>6, <2>7 DEF Place
<1>8. i <= k
  BY <1>1, <1>5 DEF Place
<1>9. Meant(tokens, i, k)
  BY <1>6, <1>7, <1>8 DEF Meant
<1> QED
  BY <1>9 DEF k

\* A piece of another source, whose tokens are the same up to P.
LEMMA NestAgrees ==
  ASSUME NEW tokens, NEW table, NEW P \in Place,
         \A j \in 1..P : Word(table, j) = Word(tokens, j)
  PROVE  \A j \in 1..P : Nest(table, j) = Nest(tokens, j)
<1> DEFINE Good == {j \in 0..(P - 1) : Nest(table, j + 1) = Nest(tokens, j + 1)}
<1>1. 0 \in Good
  <2> PICK o \in Place : o = 1
    BY DEF Place
  <2>1. Nest(table, o) = Nest(tokens, o)
    BY NestSteps DEF Place
  <2> QED
    BY <2>1 DEF Place
<1>2. ASSUME NEW j \in 0..((P - 1) - 1), j \in Good PROVE j + 1 \in Good
  <2> PICK i : i = j + 1
    OBVIOUS
  <2>1. i \in 1..P /\ i \in Nat \ {0} /\ j + 1 \in 0..(P - 1)
    BY DEF Place
  <2>2. Nest(table, i + 1) = Nest(tokens, i + 1)
    BY <1>2, <2>1, NestSteps
  <2> QED
    BY <2>1, <2>2
<1>3. 0..(P - 1) \subseteq Good
  <2>1. P - 1 \in Nat
    BY DEF Place
  <2> HIDE DEF Good
  <2> QED
    BY <1>1, <1>2, <2>1, InductionUpTo
<1>4. ASSUME NEW j \in 1..P PROVE Nest(table, j) = Nest(tokens, j)
  <2>1. j - 1 \in 0..(P - 1) /\ (j - 1) + 1 = j
    BY DEF Place
  <2> QED
    BY <1>3, <2>1
<1> QED
  BY <1>4

\* Where the one reader means a program of the source, and the other closes one
\* of the tokens that the first has read, both end at the same token.
LEMMA SameEnd ==
  ASSUME NEW tokens, NEW table, NEW P \in Place, NEW G \in Place,
         \A j \in 1..P : Word(table, j) = Word(tokens, j),
         Meant(tokens, 1, P), Word(tokens, P) \in Enders,
         Closed(table, 1, G), Word(table, G) \in Enders
  PROVE  G = P
<1>1. \A j \in 1..P : Nest(table, j) = Nest(tokens, j)
  BY NestAgrees
<1>2. 1 \in 1..P /\ P \in 1..P /\ 1 \in Place /\ Nest(tokens, 1).depth = 0 /\ Nest(table, 1).depth = 0
  <2>1. 1 \in 1..P /\ P \in 1..P /\ 1 \in Place
    BY DEF Place
  <2>2. Nest(tokens, 1) = Outermost /\ Nest(table, 1) = Outermost
    BY <2>1, NestSteps DEF Place
  <2> QED
    BY <2>1, <2>2 DEF Outermost
<1>3. ASSUME NEW j \in 1..P, ~Broken(table, j), j < P PROVE ~Broken(tokens, j)
  <2>1. j + 1 \in 1..P
    BY <1>3 DEF Place
  <2> QED
    BY <1>1, <1>3, <2>1 DEF Broken
<1>4. ASSUME P < G PROVE FALSE
  <2>1. \A j \in 1..P : ~Broken(table, j) /\ Covered(table, 1, j)
    BY <1>4 DEF Closed, Place
  <2>2. ~Broken(tokens, P)
    BY <1>1, <1>2, <2>1 DEF Broken, Enders
  <2>3. Unbroken(tokens, 1, P)
    BY <1>3, <2>1, <2>2 DEF Unbroken, Place
  <2>4. Nest(tokens, P).depth = 0
    BY <1>2, <2>3 DEF Meant, Alike
  <2>5. Nest(table, P).depth > 0
    BY <1>2, <2>1 DEF Covered
  <2> QED
    BY <1>1, <1>2, <2>4, <2>5
<1>5. ASSUME G < P PROVE FALSE
  <2>1. G \in 1..P /\ G \in 1..(P - 1)
    BY <1>5 DEF Place
  <2>2. Nest(tokens, G).depth = 0 /\ Word(tokens, G) \in Enders
    BY <1>1, <1>2, <2>1 DEF Closed, Alike
  <2>3. ~Broken(tokens, G)
    BY <2>2 DEF Broken, Enders
  <2>4. ASSUME NEW j \in 1..G, j < G PROVE ~Broken(tokens, j)
    <3>1. j \in 1..P /\ j < P /\ j \in 1..(G - 1)
      BY <2>1, <2>4 DEF Place
    <3> QED
      BY <1>3, <3>1 DEF Closed
  <2>5. Unbroken(tokens, 1, G)
    BY <2>3, <2>4 DEF Unbroken, Place
  <2>6. Nest(tokens, G).depth > 0
    BY <1>2, <2>1, <2>2, <2>5 DEF Meant, Covered
  <2> QED
    BY <2>2, <2>6
<1> QED
  BY <1>4, <1>5 DEF Place

-----------------------------------------------------------------------------
(* What the descents do to their place in the tokens.                      *)

\* From s to r, none but plain tokens are read.
Passes(tokens, s, r) ==
  /\ s.pos \in Place /\ r.pos \in Place /\ s.pos <= r.pos
  /\ s.failed => r.failed
  /\ AllPlain(tokens, s.pos, r.pos)

\* A step that leaves a reader where it is.
Stays(s, r) == r.pos = s.pos /\ (s.failed => r.failed)

LEMMA PassesThen ==
  ASSUME NEW tokens, NEW s, NEW m, NEW r, Passes(tokens, s, m), Passes(tokens, m, r)
  PROVE  Passes(tokens, s, r)
BY DEF Passes, AllPlain, Place

LEMMA PassesStays ==
  ASSUME NEW tokens, NEW s, NEW m, NEW r, Stays(m, r)
  PROVE  /\ Passes(tokens, s, m) => Passes(tokens, s, r)
         /\ s.pos \in Place => Passes(tokens, s, s)
         /\ m.pos \in Place => Passes(tokens, m, r)
BY DEF Passes, AllPlain, Place, Stays

LEMMA StaysPasses ==
  ASSUME NEW tokens, NEW s, NEW m, NEW r, Stays(s, m), Passes(tokens, m, r)
  PROVE  Passes(tokens, s, r)
BY DEF Passes, Stays

-----------------------------------------------------------------------------
(* The generator, step by step.                                            *)

\* What the generator sees of a token, unless it failed.
LEMMA CodeWord ==
  ASSUME NEW tokens, NEW s \in States(tokens)
  PROVE  /\ s.pos \in Place /\ s.pos + 1 \in Place
         /\ ~s.failed => Code(s) = Word(tokens, s.pos)
         /\ s.failed => Code(s) = "failed"
BY DEF States, Code, Word, Place

LEMMA StaysThere ==
  ASSUME NEW tokens, NEW s \in States(tokens)
  PROVE  /\ Stays(s, s) /\ Stays(s, Fail(s))
         /\ \A F : Stays(s, [s EXCEPT !.out = F])
         /\ \A b : Stays(s, [s EXCEPT !.inDefinition = b])
         /\ \A fs : Stays(s, [s EXCEPT !.functions = fs])
         /\ \A cs : Stays(s, [s EXCEPT !.constants = cs])
BY DEF States, Stays, Fail

LEMMA EmitStays ==
  ASSUME NEW tokens, NEW s \in States(tokens), NEW op, NEW arg
  PROVE  Stays(s, Emit(s, op, arg)) /\ Emit(s, op, arg).failed = s.failed
BY DEF States, Stays, Emit

\* A plain token is passed, read or expected.
LEMMA NextPasses ==
  ASSUME NEW tokens, NEW s \in States(tokens)
  PROVE  /\ Code(s) \notin Enders \cup {"If", "Function"} => Passes(tokens, s, Advanced(s))
         /\ \A c : c \notin Enders \cup {"If", "Function"} => Passes(tokens, s, Expect(s, c))
<1>1. Code(s) \notin Enders \cup {"If", "Function"} => Passes(tokens, s, Advanced(s))
  <2> SUFFICES ASSUME Code(s) \notin Enders \cup {"If", "Function"}
               PROVE  Passes(tokens, s, Advanced(s))
    OBVIOUS
  <2>1. ~s.failed /\ Plain(tokens, s.pos) /\ s.pos \in Place
    BY CodeWord DEF Plain, Enders
  <2>2. Advanced(s).pos = s.pos + 1
    BY DEF States, Advanced
  <2> QED
    BY <2>1, <2>2 DEF Passes, AllPlain, Place
<1>2. Passes(tokens, s, Fail(s))
  BY CodeWord, StaysThere, PassesStays
<1> QED
  BY <1>1, <1>2 DEF Expect

-----------------------------------------------------------------------------
(* The expressions of the generator pass plain tokens only.                *)

Glides(tokens, p) ==
  \A s \in Builders(tokens) :
    /\ \A n \in 1..5 : Passes(tokens, s, p[<<"Expression", s, n>>])
    /\ \A n \in 1..4 : Passes(tokens, s, p[<<"Operands", s, n>>])
    /\ Passes(tokens, s, p[<<"Power", s, 0>>])
    /\ \A n \in Nat : Passes(tokens, s, p[<<"MoreExpressions", s, n>>][1])

\* Where the calls below glide, an expression ends in a builder, past plain tokens.
LEMMA ExpressionGlides ==
  ASSUME NEW tokens, NEW p, Calculates(tokens, p), Glides(tokens, p), NEW s \in Builders(tokens)
  PROVE  /\ s \in States(tokens) /\ Advanced(s) \in Builders(tokens)
         /\ \A n \in 1..5 : /\ p[<<"Expression", s, n>>] \in Builders(tokens)
                            /\ p[<<"Expression", s, n>>] \in States(tokens)
                            /\ Passes(tokens, s, p[<<"Expression", s, n>>])
         /\ p[<<"Power", s, 0>>] \in Builders(tokens)
         /\ p[<<"Power", s, 0>>] \in States(tokens)
         /\ Passes(tokens, s, p[<<"Power", s, 0>>])
<1>1. s \in States(tokens) /\ Advanced(s) \in Builders(tokens)
  BY AdvancedState DEF Builders
<1>2. \A n \in 1..5 : Evaluates(tokens, s, p[<<"Expression", s, n>>], 0, 1)
  BY DEF Calculates
<1>3. Evaluates(tokens, s, p[<<"Power", s, 0>>], 0, 1)
  BY DEF Calculates
<1>4. \A n \in 1..5 : /\ p[<<"Expression", s, n>>] \in Builders(tokens)
                      /\ p[<<"Expression", s, n>>] \in States(tokens)
  BY <1>2, EvaluatesBuilder
<1>5. p[<<"Power", s, 0>>] \in Builders(tokens) /\ p[<<"Power", s, 0>>] \in States(tokens)
  BY <1>3, EvaluatesBuilder
<1> QED
  BY <1>1, <1>4, <1>5 DEF Glides

\* After a plain token too.
LEMMA NextGlides ==
  ASSUME NEW tokens, NEW p, Calculates(tokens, p), Glides(tokens, p), NEW s \in Builders(tokens),
         Code(s) \notin Enders \cup {"If", "Function"}
  PROVE  /\ \A n \in 1..5 : /\ p[<<"Expression", Advanced(s), n>>] \in Builders(tokens)
                            /\ p[<<"Expression", Advanced(s), n>>] \in States(tokens)
                            /\ Passes(tokens, s, p[<<"Expression", Advanced(s), n>>])
         /\ p[<<"Power", Advanced(s), 0>>] \in Builders(tokens)
         /\ p[<<"Power", Advanced(s), 0>>] \in States(tokens)
         /\ Passes(tokens, s, p[<<"Power", Advanced(s), 0>>])
<1> PICK x : x = Advanced(s)
  OBVIOUS
<1>1. x \in Builders(tokens)
  BY ExpressionGlides
<1>2. Passes(tokens, s, x)
  BY ExpressionGlides, NextPasses
<1>3. /\ \A n \in 1..5 : /\ p[<<"Expression", x, n>>] \in Builders(tokens)
                         /\ p[<<"Expression", x, n>>] \in States(tokens)
                         /\ Passes(tokens, x, p[<<"Expression", x, n>>])
      /\ p[<<"Power", x, 0>>] \in Builders(tokens)
      /\ p[<<"Power", x, 0>>] \in States(tokens)
      /\ Passes(tokens, x, p[<<"Power", x, 0>>])
  BY <1>1, ExpressionGlides
<1>4. /\ \A n \in 1..5 : Passes(tokens, s, p[<<"Expression", x, n>>])
      /\ Passes(tokens, s, p[<<"Power", x, 0>>])
  BY <1>2, <1>3, PassesThen
<1> QED
  BY <1>3, <1>4

LEMMA ExpressionPasses ==
  ASSUME NEW tokens, NEW p, Calculates(tokens, p), Glides(tokens, p), NEW s \in Builders(tokens),
         NEW n \in 1..5
  PROVE  Passes(tokens, s, Expression(p, s, n))
<1>1. CASE n = Tightest
  BY <1>1 DEF Expression, Glides
<1>2. CASE n # Tightest
  <2>1. n \in 1..4 /\ n + 1 \in 1..5
    BY <1>2, Levels
  <2> DEFINE m == p[<<"Expression", s, n + 1>>]
  <2>2. m \in Builders(tokens) /\ Passes(tokens, s, m)
    BY <2>1, ExpressionGlides
  <2>3. Expression(p, s, n) = p[<<"Operands", m, n>>]
    BY <1>2 DEF Expression
  <2> HIDE DEF m
  <2>4. Passes(tokens, m, p[<<"Operands", m, n>>])
    BY <2>1, <2>2 DEF Glides
  <2> QED
    BY <2>2, <2>3, <2>4, PassesThen
<1> QED
  BY <1>1, <1>2

\* No operator has to do with blocks.
LEMMA OperatorsPlain ==
  ASSUME NEW n \in 1..4, NEW c \in DOMAIN BinaryOpcodes[n]
  PROVE  c \notin Enders \cup {"If", "Function"}
<1>1. n = 1 \/ n = 2 \/ n = 3 \/ n = 4
  OBVIOUS
<1>2. CASE n = 1
  BY <1>2 DEF BinaryOpcodes, Enders
<1>3. CASE n = 2
  BY <1>3 DEF BinaryOpcodes, Enders
<1>4. CASE n = 3
  BY <1>4 DEF BinaryOpcodes, Enders
<1>5. CASE n = 4
  BY <1>5 DEF BinaryOpcodes, Enders
<1> QED
  BY <1>1, <1>2, <1>3, <1>4, <1>5

LEMMA OperandsPasses ==
  ASSUME NEW tokens, NEW p, Calculates(tokens, p), Glides(tokens, p), NEW s \in Builders(tokens),
         NEW n \in 1..4
  PROVE  Passes(tokens, s, Operands(p, s, n))
<1>1. CASE Code(s) \in DOMAIN BinaryOpcodes[n]
  <2> DEFINE op == BinaryOpcodes[n][Code(s)]
             x == p[<<"Expression", Advanced(s), n + 1>>]
             y == Emit(x, op, NoArg)
             z == p[<<"Operands", y, n>>]
  <2>1. op \in BinaryOps /\ Code(s) \notin Enders \cup {"If", "Function"} /\ n + 1 \in 1..5
    BY <1>1, Levels, OperatorsPlain
  <2>2. Operands(p, s, n) = z
    BY <1>1 DEF Operands
  <2> HIDE DEF op
  <2>3. x \in Builders(tokens) /\ x \in States(tokens) /\ Passes(tokens, s, x)
    BY <2>1, NextGlides
  <2> HIDE DEF x
  <2>4. y \in Builders(tokens)
    <3>1. Evaluates(tokens, x, y, 2, 1)
      BY <2>1, <2>3, OperatorEvaluates
    <3> QED
      BY <3>1, EvaluatesBuilder
  <2>5. Passes(tokens, s, y)
    BY <2>3, EmitStays, PassesStays
  <2> HIDE DEF y
  <2>6. Passes(tokens, y, z)
    BY <2>4 DEF Glides
  <2> QED
    BY <2>2, <2>5, <2>6, PassesThen
<1>2. CASE Code(s) \notin DOMAIN BinaryOpcodes[n]
  <2>1. Passes(tokens, s, s)
    BY ExpressionGlides, CodeWord, StaysThere, PassesStays
  <2> QED
    BY <1>2, <2>1 DEF Operands
<1> QED
  BY <1>1, <1>2

LEMMA MoreExpressionsPasses ==
  ASSUME NEW tokens, NEW p, Calculates(tokens, p), Glides(tokens, p), NEW s \in Builders(tokens),
         NEW n \in Nat
  PROVE  Passes(tokens, s, MoreExpressions(p, s, n)[1])
<1>1. CASE Code(s) = "Comma"
  <2> DEFINE x == p[<<"Expression", Advanced(s), Loosest>>]
  <2>1. x \in Builders(tokens) /\ Passes(tokens, s, x)
    BY <1>1, Levels, NextGlides DEF Enders
  <2>2. MoreExpressions(p, s, n) = p[<<"MoreExpressions", x, n + 1>>]
    BY <1>1 DEF MoreExpressions
  <2> HIDE DEF x
  <2>3. Passes(tokens, x, p[<<"MoreExpressions", x, n + 1>>][1])
    <3> PICK k \in Nat : k = n + 1
      OBVIOUS
    <3>1. Passes(tokens, x, p[<<"MoreExpressions", x, k>>][1])
      BY <2>1 DEF Glides
    <3> QED
      BY <3>1
  <2> QED
    BY <2>1, <2>2, <2>3, PassesThen
<1>2. CASE Code(s) # "Comma"
  <2>1. Passes(tokens, s, s)
    BY ExpressionGlides, CodeWord, StaysThere, PassesStays
  <2> QED
    BY <1>2, <2>1 DEF MoreExpressions
<1> QED
  BY <1>1, <1>2

LEMMA ArgumentsPasses ==
  ASSUME NEW tokens, NEW p, Calculates(tokens, p), Glides(tokens, p), NEW s \in Builders(tokens)
  PROVE  Passes(tokens, s, Arguments(p, s)[1]) /\ Arguments(p, s)[1] \in Builders(tokens)
<1>1. Arguments(p, s)[1] \in Builders(tokens)
  BY ArgumentsEvaluates, EvaluatesBuilder
<1>2. CASE Code(s) = "RightParenthesis"
  <2>1. Passes(tokens, s, s)
    BY ExpressionGlides, CodeWord, StaysThere, PassesStays
  <2> QED
    BY <1>1, <1>2, <2>1 DEF Arguments
<1>3. CASE Code(s) # "RightParenthesis"
  <2> DEFINE x == p[<<"Expression", s, Loosest>>]
  <2>1. x \in Builders(tokens) /\ Passes(tokens, s, x)
    BY Levels, ExpressionGlides
  <2>2. Arguments(p, s) = p[<<"MoreExpressions", x, 1>>]
    BY <1>3 DEF Arguments
  <2> HIDE DEF x
  <2>3. Passes(tokens, x, p[<<"MoreExpressions", x, 1>>][1])
    <3> PICK k \in Nat : k = 1
      OBVIOUS
    <3>1. Passes(tokens, x, p[<<"MoreExpressions", x, k>>][1])
      BY <2>1 DEF Glides
    <3> QED
      BY <3>1
  <2> QED
    BY <1>1, <2>1, <2>2, <2>3, PassesThen
<1> QED
  BY <1>2, <1>3

LEMMA EmitTwiceStays ==
  ASSUME NEW tokens, NEW s \in States(tokens), NEW op, NEW arg, NEW op2, NEW arg2
  PROVE  Stays(s, Emit(Emit(s, op, arg), op2, arg2))
BY DEF States, Stays, Emit

LEMMA CallPasses ==
  ASSUME NEW tokens, NEW p, Calculates(tokens, p), Glides(tokens, p), NEW s \in Builders(tokens),
         Code(s) = "LeftParenthesis", NEW f
  PROVE  Passes(tokens, s, Call(p, s, f))
<1> DEFINE x == Advanced(s)
           e == Arguments(p, x)
           y == e[1]
           z == Expect(y, "RightParenthesis")
           r == Emit(Emit(z, "Pushi", f - 1), "Call", NoArg)
<1>1. x \in Builders(tokens) /\ Passes(tokens, s, x)
  BY ExpressionGlides, NextPasses DEF Enders
<1>2. Call(p, s, f) = IF e[2] # y.functions[f].nargs THEN Fail(y) ELSE r
  BY DEF Call, CallOf
<1> HIDE DEF x
<1>3. y \in Builders(tokens) /\ y \in States(tokens) /\ Passes(tokens, x, y)
  BY <1>1, ArgumentsPasses DEF Builders
<1> HIDE DEF e
<1>4. Passes(tokens, s, y)
  BY <1>1, <1>3, PassesThen
<1> DEFINE w == y
<1>5. Passes(tokens, s, Fail(y))
  BY <1>3, <1>4, StaysThere, PassesStays
<1>6. Passes(tokens, s, z) /\ z \in States(tokens)
  <2>1. z \in States(tokens)
    BY <1>3, ExpectState DEF Builders
  <2>2. Passes(tokens, y, z)
    BY <1>3, NextPasses DEF Enders
  <2> QED
    BY <1>4, <2>1, <2>2, PassesThen
<1> HIDE DEF z
<1>7. Passes(tokens, s, r)
  BY <1>6, EmitTwiceStays, PassesStays
<1> QED
  BY <1>2, <1>5, <1>7

\* A name is looked up, or added to the tables, without reading a token.
LEMMA VariableStays ==
  ASSUME NEW tokens, NEW s \in States(tokens), NEW name
  PROVE  Stays(s, LocalVariable(s, name)) /\ Stays(s, ModuleVariable(s, name))
<1>1. \A op, arg : Stays(s, Emit(s, op, arg))
  BY EmitStays
<1>2. Stays(s, Fail(s))
  BY StaysThere
<1>3. \A op, arg : Stays(s, Emit(AddLocal(s, name), op, arg))
  <2> PICK fs : AddLocal(s, name) = [s EXCEPT !.functions = fs]
    BY DEF AddLocal, States
  <2> QED
    BY DEF Emit, Stays, States
<1>4. \A op, arg : Stays(s, Emit(AddSymbol(s, name, FALSE), op, arg))
  BY DEF AddSymbol, Emit, Stays, States
<1>5. Stays(s, LocalVariable(s, name))
  BY <1>1, <1>2, <1>3 DEF LocalVariable
<1>6. Stays(s, ModuleVariable(s, name))
  BY <1>1, <1>2, <1>4 DEF ModuleVariable
<1> QED
  BY <1>5, <1>6

LEMMA IdentifierPasses ==
  ASSUME NEW tokens, NEW p, Calculates(tokens, p), Glides(tokens, p), NEW s \in Builders(tokens),
         Code(s) = "Identifier"
  PROVE  Passes(tokens, s, Identifier(p, s))
<1> DEFINE next == Advanced(s)
           name == Current(s)
           f == FirstNamed(s.names, name)
<1>1. next \in Builders(tokens) /\ next \in States(tokens) /\ Passes(tokens, s, next)
  BY ExpressionGlides, NextPasses DEF Enders, Builders
<1>2. Passes(tokens, s, Fail(s))
  BY ExpressionGlides, CodeWord, StaysThere, PassesStays
<1>3. Identifier(p, s) =
        IF Code(next) = "LeftParenthesis"
        THEN IF f # 0 /\ s.isFunction[f] THEN Call(p, next, f) ELSE Fail(s)
        ELSE IF s.inFunction THEN LocalVariable(next, name) ELSE ModuleVariable(next, name)
  BY DEF Identifier
<1> HIDE DEF next, name, f
<1>4. Code(next) = "LeftParenthesis" => Passes(tokens, s, Call(p, next, f))
  BY <1>1, CallPasses, PassesThen
<1>5. Passes(tokens, s, LocalVariable(next, name)) /\ Passes(tokens, s, ModuleVariable(next, name))
  BY <1>1, VariableStays, PassesStays
<1> QED
  BY <1>2, <1>3, <1>4, <1>5

LEMMA FactorPasses ==
  ASSUME NEW tokens, NEW p, Calculates(tokens, p), Glides(tokens, p), NEW s \in Builders(tokens)
  PROVE  Passes(tokens, s, Factor(p, s))
<1> DEFINE next == Advanced(s)
           e == p[<<"Expression", next, Loosest>>]
<1>1. next \in Builders(tokens) /\ next \in States(tokens)
  BY ExpressionGlides DEF Builders
<1>2. CASE Code(s) \in {"Integer", "Float", "String", "True", "False"}
  <2>1. Passes(tokens, s, next)
    BY <1>2, ExpressionGlides, NextPasses DEF Enders
  <2> PICK v : v = Current(s)
    OBVIOUS
  <2> HIDE DEF next
  <2>2. \A op, arg : Passes(tokens, s, Emit(next, op, arg))
    BY <1>1, <2>1, EmitStays, PassesStays
  <2>3. \A op, arg : Passes(tokens, s, Emit([next EXCEPT !.constants = Append(@, v)], op, arg))
    <3>1. \A op, arg : Stays(next, Emit([next EXCEPT !.constants = Append(@, v)], op, arg))
      BY <1>1 DEF Emit, Stays, States
    <3> QED
      BY <2>1, <3>1, PassesStays
  <2> QED
    BY <1>2, <2>2, <2>3 DEF Factor, next
<1>3. CASE Code(s) \in {"LeftParenthesis", "Not"}
  <2>1. e \in States(tokens) /\ Passes(tokens, s, e)
    BY <1>3, Levels, NextGlides DEF Enders
  <2>2. /\ Code(s) = "LeftParenthesis" => Factor(p, s) = Expect(e, "RightParenthesis")
        /\ Code(s) = "Not" => Factor(p, s) = Emit(e, "Not", NoArg)
    BY DEF Factor
  <2> HIDE DEF e
  <2>3. Passes(tokens, e, Expect(e, "RightParenthesis"))
    BY <2>1, NextPasses DEF Enders
  <2>4. Passes(tokens, s, Expect(e, "RightParenthesis"))
    BY <2>1, <2>3, PassesThen
  <2>5. Passes(tokens, s, Emit(e, "Not", NoArg))
    BY <2>1, EmitStays, PassesStays
  <2> QED
    BY <1>3, <2>2, <2>4, <2>5
<1>4. CASE Code(s) = "Identifier"
  <2>1. Factor(p, s) = Identifier(p, s)
    BY <1>4 DEF Factor
  <2> QED
    BY <1>4, <2>1, IdentifierPasses
<1>5. CASE Code(s) \notin {"Integer", "Float", "String", "True", "False", "LeftParenthesis",
                           "Identifier", "Not"}
  <2>1. Factor(p, s) = Fail(s)
    BY <1>5 DEF Factor
  <2>2. Passes(tokens, s, Fail(s))
    BY ExpressionGlides, CodeWord, StaysThere, PassesStays
  <2> QED
    BY <2>1, <2>2
<1> QED
  BY <1>2, <1>3, <1>4, <1>5

LEMMA PowerPasses ==
  ASSUME NEW tokens \in Seq(Tokens), NEW p, Calculates(tokens, p), Glides(tokens, p),
         NEW s \in Builders(tokens)
  PROVE  Passes(tokens, s, Power(p, s))
<1>1. CASE Code(s) \in {"Minus", "Plus"}
  <2> DEFINE x == p[<<"Power", Advanced(s), 0>>]
  <2>1. x \in States(tokens) /\ Passes(tokens, s, x)
    BY <1>1, NextGlides DEF Enders
  <2>2. Power(p, s) \in {x, Emit(x, "Umi", NoArg)}
    BY <1>1 DEF Power
  <2> HIDE DEF x
  <2>3. Passes(tokens, s, Emit(x, "Umi", NoArg))
    BY <2>1, EmitStays, PassesStays
  <2> QED
    BY <2>1, <2>2, <2>3
<1>2. CASE Code(s) \notin {"Minus", "Plus"}
  <2> DEFINE b == Factor(p, s)
             y == p[<<"Power", Advanced(b), 0>>]
  <2>1. b \in Builders(tokens) /\ Passes(tokens, s, b)
    BY FactorEvaluates, EvaluatesBuilder, FactorPasses
  <2>2. Power(p, s) = Exponent(p, b)
    BY <1>2 DEF Power
  <2> HIDE DEF b
  <2>3. CASE Code(b) = "Power"
    <3>1. y \in States(tokens) /\ Passes(tokens, b, y)
      BY <2>1, <2>3, NextGlides DEF Enders
    <3>2. Exponent(p, b) = Emit(y, "Power", NoArg)
      BY <2>3 DEF Exponent
    <3> HIDE DEF y
    <3>3. Passes(tokens, b, Emit(y, "Power", NoArg))
      BY <3>1, EmitStays, PassesStays
    <3> QED
      BY <2>1, <2>2, <3>2, <3>3, PassesThen
  <2>4. CASE Code(b) # "Power"
    BY <2>1, <2>2, <2>4 DEF Exponent
  <2> QED
    BY <2>3, <2>4
<1> QED
  BY <1>1, <1>2

-----------------------------------------------------------------------------
(* So do the parameters.                                                   *)

GlidesParameters(tokens, p) ==
  \A s \in States(tokens), n \in Nat :
    Declaring(s) => Passes(tokens, s, p[<<"ParameterList", s, n>>])

LEMMA ParameterPasses ==
  ASSUME NEW tokens, NEW s \in States(tokens)
  PROVE  Passes(tokens, s, Parameter(s))
<1>1. CASE Code(s) # "Identifier"
  <2>1. Passes(tokens, s, Fail(s))
    BY CodeWord, StaysThere, PassesStays
  <2> QED
    BY <1>1, <2>1 DEF Parameter
<1>2. CASE Code(s) = "Identifier"
  <2>1. Passes(tokens, s, Advanced(s))
    BY <1>2, NextPasses DEF Enders
  <2> PICK name : name = Current(s)
    OBVIOUS
  <2>2. Stays(Advanced(s), Advanced(AddLocal(s, name)))
    <3> PICK fs : AddLocal(s, name) = [s EXCEPT !.functions = fs]
      BY DEF AddLocal, States
    <3> QED
      BY DEF Advanced, Stays, States
  <2>3. Passes(tokens, s, Advanced(AddLocal(s, name)))
    BY <2>1, <2>2, PassesStays
  <2>4. Parameter(s) \in {Advanced(s), Advanced(AddLocal(s, name))}
    BY <1>2 DEF Parameter
  <2> QED
    BY <2>1, <2>3, <2>4
<1> QED
  BY <1>1, <1>2

LEMMA ParameterListPasses ==
  ASSUME NEW tokens \in Seq(Tokens), NEW p, ReadsParameters(tokens, p),
         GlidesParameters(tokens, p), NEW s \in States(tokens), Declaring(s), NEW n \in Nat
  PROVE  Passes(tokens, s, ParameterList(p, s, n))
<1>1. CASE Code(s) = "Comma"
  <2> DEFINE x == Advanced(s)
             y == Parameter(x)
             k == n + 1
             z == p[<<"ParameterList", y, k>>]
  <2>1. Declaring(x) /\ x \in States(tokens) /\ Passes(tokens, s, x)
    BY <1>1, AdvancedDeclares, StillDeclaring, NextPasses DEF Enders
  <2> HIDE DEF x
  <2>2. Declaring(y) /\ y \in States(tokens) /\ Passes(tokens, x, y)
    BY <2>1, ParameterDeclares, StillDeclaring, ParameterPasses
  <2> HIDE DEF y
  <2>3. k \in Nat
    OBVIOUS
  <2> HIDE DEF k
  <2>4. Passes(tokens, y, z)
    BY <2>2, <2>3 DEF GlidesParameters
  <2>5. ParameterList(p, s, n) = z
    BY <1>1 DEF ParameterList, z, y, x, k
  <2> QED
    BY <2>1, <2>2, <2>4, <2>5, PassesThen
<1>2. CASE Code(s) # "Comma"
  <2>1. Stays(s, ParameterList(p, s, n))
    <3> PICK fs : [s EXCEPT !.functions[s.current].nargs = n] = [s EXCEPT !.functions = fs]
      BY DEF States
    <3>1. ParameterList(p, s, n) = [s EXCEPT !.functions = fs]
      BY <1>2 DEF ParameterList
    <3>2. Stays(s, [s EXCEPT !.functions = fs])
      BY StaysThere
    <3> QED
      BY ONLY <3>1, <3>2
  <2> QED
    BY <2>1, CodeWord, PassesStays
<1> QED
  BY <1>1, <1>2

LEMMA ParametersPasses ==
  ASSUME NEW tokens \in Seq(Tokens), NEW p, ReadsParameters(tokens, p),
         GlidesParameters(tokens, p), NEW s \in States(tokens), Declaring(s)
  PROVE  Passes(tokens, s, Parameters(p, s))
<1>1. ASSUME NEW y \in States(tokens), Declaring(y)
      PROVE  Passes(tokens, y, p[<<"ParameterList", y, 1>>]) /\ Passes(tokens, y, p[<<"ParameterList", y, 0>>])
  <2> PICK z \in Nat, o \in Nat : z = 0 /\ o = 1
    OBVIOUS
  <2>1. Passes(tokens, y, p[<<"ParameterList", y, o>>]) /\ Passes(tokens, y, p[<<"ParameterList", y, z>>])
    BY <1>1 DEF GlidesParameters
  <2> QED
    BY <2>1
<1>2. CASE Code(s) = "Identifier"
  <2> DEFINE y == Parameter(s)
  <2>1. Declaring(y) /\ y \in States(tokens) /\ Passes(tokens, s, y)
    BY ParameterDeclares, StillDeclaring, ParameterPasses
  <2>2. Parameters(p, s) = p[<<"ParameterList", y, 1>>]
    BY <1>2 DEF Parameters
  <2> HIDE DEF y
  <2> QED
    BY <1>1, <2>1, <2>2, PassesThen
<1>3. CASE Code(s) # "Identifier"
  BY <1>1, <1>3 DEF Parameters
<1> QED
  BY <1>2, <1>3

-----------------------------------------------------------------------------
(* A statement closes the blocks that it opens.                            *)

Settled(tokens, s, r) ==
  /\ s.pos \in Place /\ r.pos \in Place
  /\ ~r.failed => ~s.failed /\ Closed(tokens, s.pos, r.pos)
Settles(tokens, p) ==
  \A s \in Builders(tokens) :
    LET r == p[<<"StatementList", s, 0>>]
    IN  Settled(tokens, s, r) /\ (~r.failed => Word(tokens, r.pos) \in Enders)

LEMMA PassesSettled ==
  ASSUME NEW tokens, NEW s, NEW r, Passes(tokens, s, r)
  PROVE  Settled(tokens, s, r)
BY PlainPiece DEF Passes, Settled

LEMMA SettledThen ==
  ASSUME NEW tokens, NEW s, NEW m, NEW r, Settled(tokens, s, m), Settled(tokens, m, r)
  PROVE  Settled(tokens, s, r)
BY ClosedThen DEF Settled

LEMMA SettledStays ==
  ASSUME NEW tokens, NEW s, NEW m, NEW r, Settled(tokens, s, m), Stays(m, r)
  PROVE  Settled(tokens, s, r)
BY DEF Settled, Stays

LEMMA ExprStatementPasses ==
  ASSUME NEW tokens, NEW p, Calculates(tokens, p), Glides(tokens, p), NEW s \in Builders(tokens)
  PROVE  Passes(tokens, s, ExprStatement(p, s))
<1> DEFINE e == [s EXCEPT !.out = <<>>]
           left == p[<<"Expression", e, Loosest>>]
           x == [left EXCEPT !.out = s.out]
           right == p[<<"Expression", Advanced(x), Loosest>>]
<1>1. e \in Builders(tokens) /\ s.out \in Codes /\ Stays(s, e)
  <2>1. <<>> \in Codes
    BY DEF Codes
  <2>2. e \in Builders(tokens)
    BY <2>1, WrittenState
  <2>3. Stays(s, e)
    BY StaysThere DEF Builders
  <2> QED
    BY <2>2, <2>3, StateTables DEF Builders
<1>2. ExprStatement(p, s) = AfterLeft(p, left, s.out)
  BY DEF ExprStatement
<1> HIDE DEF e
<1>3. left \in Builders(tokens) /\ left \in States(tokens) /\ Passes(tokens, s, left)
  BY <1>1, Levels, ExpressionGlides, StaysPasses
<1> HIDE DEF left
<1>4. CASE Code(left) = "Assign"
  <2>1. x \in Builders(tokens) /\ Stays(left, x) /\ Code(x) = Code(left)
    <3>1. x \in Builders(tokens)
      BY <1>1, <1>3, WrittenState
    <3> PICK F : F = s.out
      OBVIOUS
    <3>2. Stays(left, [left EXCEPT !.out = F]) /\ Code([left EXCEPT !.out = F]) = Code(left)
      BY <1>3 DEF Code, Stays, States
    <3> QED
      BY <3>1, <3>2
  <2>2. AfterLeft(p, left, s.out) = Assignment(right, left)
    BY <1>4 DEF AfterLeft
  <2> HIDE DEF x
  <2>3. right \in States(tokens) /\ Passes(tokens, x, right)
    BY <1>4, <2>1, Levels, NextGlides DEF Enders
  <2> HIDE DEF right
  <2>4. Stays(right, Assignment(right, left))
    BY <2>3, StaysThere DEF Assignment
  <2>5. Passes(tokens, s, x)
    BY <1>3, <2>1, PassesStays
  <2> QED
    BY <1>2, <2>2, <2>3, <2>4, <2>5, PassesStays, PassesThen
<1>5. CASE Code(left) # "Assign"
  <2>1. AfterLeft(p, left, s.out) = ExpressionOnly(left, s.out)
    BY <1>5 DEF AfterLeft
  <2>2. Stays(left, ExpressionOnly(left, s.out))
    BY <1>3, StaysThere DEF ExpressionOnly
  <2> QED
    BY <1>2, <1>3, <2>1, <2>2, PassesStays
<1> QED
  BY <1>4, <1>5

LEMMA LetAndReturnPass ==
  ASSUME NEW tokens, NEW p, Calculates(tokens, p), Glides(tokens, p), NEW s \in Builders(tokens)
  PROVE  /\ Code(s) = "Let" => Passes(tokens, s, LetStatement(p, s))
         /\ Code(s) = "Return" => Passes(tokens, s, ReturnStatement(p, s))
<1>1. ASSUME Code(s) = "Let" PROVE Passes(tokens, s, LetStatement(p, s))
  <2> PICK yes \in BOOLEAN, no \in BOOLEAN : yes = TRUE /\ no = FALSE
    OBVIOUS
  <2> DEFINE x == Advanced(s)
             y == [x EXCEPT !.inDefinition = yes]
             z == ExprStatement(p, y)
             r == [z EXCEPT !.inDefinition = no]
  <2>1. x \in Builders(tokens) /\ x \in States(tokens) /\ Passes(tokens, s, x)
    BY <1>1, ExpressionGlides, NextPasses DEF Enders, Builders
  <2>2. LetStatement(p, s) = r
    BY DEF LetStatement
  <2> HIDE DEF x
  <2>3. y \in Builders(tokens) /\ Passes(tokens, s, y)
    BY <2>1, InDefinitionState, StaysThere, PassesStays
  <2> HIDE DEF y
  <2>4. z \in States(tokens) /\ Passes(tokens, y, z)
    BY <2>3, ExprStatementRuns, RunsBuilder, ExprStatementPasses
  <2> HIDE DEF z
  <2>5. Stays(z, r)
    BY <2>4, StaysThere
  <2> HIDE DEF r
  <2> QED
    BY <2>2, <2>3, <2>4, <2>5, PassesThen, PassesStays
<1>2. ASSUME Code(s) = "Return" PROVE Passes(tokens, s, ReturnStatement(p, s))
  <2> DEFINE e == p[<<"Expression", Advanced(s), Loosest>>]
  <2>1. e \in States(tokens) /\ Passes(tokens, s, e)
    BY <1>2, Levels, NextGlides DEF Enders
  <2>2. ReturnStatement(p, s) \in {Fail(s), Emit(e, "Return", NoArg)}
    BY DEF ReturnStatement
  <2> HIDE DEF e
  <2>3. Passes(tokens, s, Fail(s))
    BY ExpressionGlides, CodeWord, StaysThere, PassesStays
  <2>4. Passes(tokens, s, Emit(e, "Return", NoArg))
    BY <2>1, EmitStays, PassesStays
  <2> QED
    BY <2>2, <2>3, <2>4
<1> QED
  BY <1>1, <1>2

\* Setting a label stays where it is.
LEMMA GotoStays ==
  ASSUME NEW tokens, NEW s \in States(tokens), NEW i
  PROVE  /\ Stays(s, SetGotoLabel(s, i)) /\ SetGotoLabel(s, i).failed = s.failed
         /\ Code(SetGotoLabel(s, i)) = Code(s)
<1> PICK F : SetGotoLabel(s, i) = [s EXCEPT !.out = F]
  BY DEF SetGotoLabel, States
<1> QED
  BY DEF Stays, Code, States

LEMMA GotoBuilder ==
  ASSUME NEW tokens, NEW s \in Builders(tokens), NEW i \in Nat
  PROVE  SetGotoLabel(s, i) \in Builders(tokens)
<1> DEFINE G == s.out
           v == Len(G) + 1 - i
           j == [G[i] EXCEPT !.arg = v]
           F == [G EXCEPT ![i] = j]
<1>1. s \in States(tokens) /\ G \in Seq(Instruction) /\ Len(G) \in Nat /\ DOMAIN G = 1..Len(G)
  BY StateTables DEF Builders, Codes
<1>2. SetGotoLabel(s, i) = [s EXCEPT !.out = F]
  BY <1>1 DEF SetGotoLabel, States
<1>3. v \in Int
  BY <1>1
<1>4. F \in Seq(Instruction)
  <2>1. CASE i \in 1..Len(G)
    <3>1. G[i] \in Instruction
      BY <1>1, <2>1, ElementOfSeq
    <3>2. j \in Instruction
      BY <1>3, <3>1 DEF Instruction
    <3> HIDE DEF G, j
    <3> QED
      BY <1>1, <2>1, <3>2, ExceptSeq
  <2>2. CASE i \notin 1..Len(G)
    <3> HIDE DEF j
    <3>1. F = G
      BY <1>1, <2>2
    <3> QED
      BY <1>1, <3>1
  <2> QED
    BY <2>1, <2>2
<1> HIDE DEF F
<1> QED
  BY <1>2, <1>4, WrittenState DEF Codes

\* An end that is read, or else it fails.
LEMMA EndRead ==
  ASSUME NEW tokens, NEW s \in States(tokens)
  PROVE  /\ Expect(s, "End") \in States(tokens)
         /\ ~Expect(s, "End").failed =>
              Word(tokens, s.pos) = "End" /\ Expect(s, "End").pos = s.pos + 1
<1>1. CASE Code(s) = "End"
  <2>1. Expect(s, "End") = Advanced(s) /\ Word(tokens, s.pos) = "End"
    BY <1>1, CodeWord DEF Expect
  <2>2. s.pos + 1 \in Nat \ {0}
    BY DEF States
  <2>3. Advanced(s) \in States(tokens) /\ Advanced(s).pos = s.pos + 1
    BY <2>2 DEF Advanced, States
  <2> QED
    BY <2>1, <2>3
<1>2. CASE Code(s) # "End"
  <2>1. Expect(s, "End") = Fail(s)
    BY <1>2 DEF Expect
  <2>2. Fail(s) \in States(tokens) /\ Fail(s).failed
    BY DEF Fail, States
  <2> QED
    BY <2>1, <2>2
<1> QED
  BY <1>1, <1>2

\* The alternative of an if, that begins at i and whose then part ends at s.
LEMMA ElseSettles ==
  ASSUME NEW tokens, NEW p, Performs(tokens, p), Settles(tokens, p),
         NEW s \in Builders(tokens), Code(s) = "Else", NEW i \in Place,
         Word(tokens, i) = "If", Closed(tokens, i + 1, s.pos), NEW at \in Nat
  PROVE  LET r == ElsePart(p, Emit(s, "Jmp", NoArg), at)
         IN  r.pos \in Place /\ (~r.failed => Closed(tokens, i, r.pos))
<1> DEFINE over == Emit(s, "Jmp", NoArg)
           n == Len(over.out)
           x == SetGotoLabel(over, at)
           v == Advanced(x)
           b == p[<<"StatementList", v, 0>>]
           y == SetGotoLabel(b, n)
           r == AfterElse(b, n)
<1>1. ElsePart(p, Emit(s, "Jmp", NoArg), at) = r
  BY DEF ElsePart
<1>2. over \in Builders(tokens) /\ Stays(s, over) /\ s \in States(tokens) /\ n \in Nat
  <2>1. Instr("Jmp", NoArg) \in Instruction
    BY DEF Instr, Instruction, OpCodes, NoArg
  <2>2. over \in Builders(tokens) /\ s \in States(tokens)
    BY <2>1, EmitState DEF Builders
  <2>3. over.out \in Codes
    BY <2>2, StateTables DEF Builders
  <2>4. Len(over.out) \in Nat
    BY <2>3 DEF Codes
  <2> HIDE DEF over
  <2> QED
    BY <2>2, <2>4, EmitStays DEF over
<1> HIDE DEF over, n
<1>3. x \in Builders(tokens) /\ x \in States(tokens) /\ x.pos = s.pos
  <2>1. x \in Builders(tokens)
    BY <1>2, GotoBuilder
  <2>2. over \in States(tokens)
    BY <1>2 DEF Builders
  <2> QED
    BY <1>2, <2>1, <2>2, GotoStays DEF Builders, Stays
<1> HIDE DEF x
<1>4. v \in Builders(tokens) /\ v.pos = s.pos + 1
  <2>1. v.pos = x.pos + 1
    BY <1>3 DEF Advanced, States
  <2> QED
    BY <1>3, <2>1, AdvancedState
<1> HIDE DEF v
<1>5. b \in States(tokens) /\ Settled(tokens, v, b)
  BY <1>4, RunsBuilder DEF Performs, Settles
<1> HIDE DEF b
<1>6. CASE b.failed
  <2>1. r = b /\ r.pos \in Place
    BY <1>5, <1>6 DEF AfterElse, Settled
  <2> HIDE DEF r
  <2> QED
    BY <1>1, <1>6, <2>1
<1>7. CASE ~b.failed
  <2>1. r = Expect(y, "End")
    BY <1>7 DEF AfterElse
  <2>2. y \in States(tokens) /\ y.pos = b.pos
    <3>1. y \in Builders(tokens)
      BY <1>2, <1>4, GotoBuilder, RunsBuilder DEF b, Performs
    <3> QED
      BY <1>5, <3>1, GotoStays DEF Builders, Stays
  <2> HIDE DEF y
  <2>3. r \in States(tokens) /\ (~r.failed => Word(tokens, b.pos) = "End" /\ r.pos = b.pos + 1)
    BY <2>1, <2>2, EndRead
  <2> HIDE DEF r
  <2>4. ASSUME ~r.failed PROVE Closed(tokens, i, r.pos)
    <3>1. s.pos \in Place /\ Word(tokens, s.pos) = "Else"
      BY <1>2, CodeWord DEF Enders
    <3>2. Closed(tokens, s.pos + 1, b.pos) /\ b.pos \in Place
      BY <1>4, <1>5, <1>7 DEF Settled
    <3> QED
      BY <2>3, <2>4, <3>1, <3>2, ClosedIfElse
  <2>5. r.pos \in Place
    BY <2>3, CodeWord
  <2> QED
    BY <1>1, <2>4, <2>5
<1> QED
  BY <1>6, <1>7

LEMMA IfStatementSettles ==
  ASSUME NEW tokens, NEW p, Calculates(tokens, p), Glides(tokens, p), Performs(tokens, p),
         Settles(tokens, p), NEW s \in Builders(tokens), Code(s) = "If"
  PROVE  Settled(tokens, s, IfStatement(p, s))
<1> DEFINE a == Advanced(s)
           e == p[<<"Expression", a, Loosest>>]
           t == Emit(e, "JmpIfFalse", NoArg)
           u == Expect(t, "Then")
           body == p[<<"StatementList", u, 0>>]
           at == Len(t.out)
           r == AfterThen(p, body, at)
<1>1. IfStatement(p, s) = r
  BY DEF IfStatement, ThenPart
<1>2. s \in States(tokens) /\ s.pos \in Place /\ ~s.failed /\ Word(tokens, s.pos) = "If"
  BY CodeWord DEF Builders
<1>3. a \in Builders(tokens) /\ a.pos = s.pos + 1
  <2>1. a.pos = s.pos + 1
    BY <1>2 DEF Advanced, States
  <2> QED
    BY <2>1, AdvancedState
<1> HIDE DEF a
<1>4. e \in Builders(tokens) /\ e \in States(tokens) /\ Passes(tokens, a, e)
  BY <1>3, Levels, ExpressionGlides
<1> HIDE DEF e
<1>5. t \in Builders(tokens) /\ t \in States(tokens) /\ Passes(tokens, a, t) /\ at \in Nat
  <2>1. Instr("JmpIfFalse", NoArg) \in Instruction
    BY DEF Instr, Instruction, OpCodes, NoArg
  <2>2. t \in Builders(tokens) /\ t \in States(tokens)
    BY <1>4, <2>1, EmitState DEF Builders
  <2>3. Passes(tokens, a, t)
    BY <1>4, EmitStays, PassesStays
  <2> HIDE DEF t
  <2>4. t.out \in Codes
    BY <2>2, StateTables
  <2> QED
    BY <2>2, <2>3, <2>4 DEF Codes
<1> HIDE DEF t, at
<1>6. u \in Builders(tokens) /\ Passes(tokens, a, u)
  <2>1. u \in Builders(tokens) /\ Passes(tokens, t, u)
    BY <1>5, ExpectState, NextPasses DEF Enders
  <2> QED
    BY <1>5, <2>1, PassesThen
<1> HIDE DEF u
<1>7. body \in Builders(tokens) /\ body \in States(tokens) /\ Settled(tokens, a, body)
  <2>1. body \in Builders(tokens) /\ body \in States(tokens) /\ Settled(tokens, u, body)
    BY <1>6, RunsBuilder DEF Performs, Settles
  <2> QED
    BY <1>6, <2>1, PassesSettled, SettledThen
<1> HIDE DEF body
<1>8. CASE body.failed
  <2>1. r = body
    BY <1>8 DEF AfterThen, Code
  <2> QED
    BY <1>1, <1>2, <1>7, <1>8, <2>1 DEF Settled
<1>9. CASE ~body.failed
  <2>1. Closed(tokens, s.pos + 1, body.pos) /\ body.pos \in Place
    BY <1>3, <1>7, <1>9 DEF Settled
  <2>2. CASE Code(body) = "Else"
    <3>1. r = ElsePart(p, Emit(body, "Jmp", NoArg), at)
      BY <1>9, <2>2 DEF AfterThen
    <3> PICK i \in Place : i = s.pos
      BY <1>2
    <3>2. r.pos \in Place /\ (~r.failed => Closed(tokens, s.pos, r.pos))
      <4>1. Word(tokens, i) = "If" /\ Closed(tokens, i + 1, body.pos)
        BY <1>2, <2>1
      <4>2. LET q == ElsePart(p, Emit(body, "Jmp", NoArg), at)
            IN  q.pos \in Place /\ (~q.failed => Closed(tokens, i, q.pos))
        BY <1>5, <1>7, <2>2, <4>1, ElseSettles
      <4> HIDE DEF r
      <4> QED
        BY <3>1, <4>2
    <3> HIDE DEF r
    <3> QED
      BY <1>1, <1>2, <3>2 DEF Settled
  <2>3. CASE Code(body) # "Else"
    <3> DEFINE x == Expect(body, "End")
    <3>1. r = SetGotoLabel(x, at)
      BY <1>9, <2>3 DEF AfterThen
    <3>2. x \in States(tokens) /\ (~x.failed => Word(tokens, body.pos) = "End" /\ x.pos = body.pos + 1)
      BY <1>7, EndRead
    <3> HIDE DEF x
    <3>3. r.pos = x.pos /\ r.failed = x.failed /\ x.pos \in Place
      BY <3>1, <3>2, GotoStays, CodeWord DEF Stays
    <3> HIDE DEF r
    <3>4. ~r.failed => Closed(tokens, s.pos, r.pos)
      BY <1>2, <2>1, <3>2, <3>3, ClosedBlock
    <3> QED
      BY <1>1, <1>2, <3>3, <3>4 DEF Settled
  <2> QED
    BY <2>2, <2>3
<1> QED
  BY <1>8, <1>9

\* A function ends after the end of its body.
LEMMA EndOfBodyStays ==
  ASSUME NEW tokens, NEW s \in States(tokens), NEW f, NEW out
  PROVE  LET r == EndOfBody(s, f, out)
         IN  /\ r.pos \in Place
             /\ ~r.failed => Word(tokens, s.pos) = "End" /\ r.pos = s.pos + 1
<1> DEFINE a == Advanced(s)
           x == [a EXCEPT !.inFunction = FALSE, !.functions[f].code = s.out, !.out = out]
           r == EndOfBody(s, f, out)
<1>1. CASE Code(s) # "End"
  <2>1. r = Fail(s)
    BY <1>1 DEF EndOfBody
  <2>2. Fail(s).pos = s.pos /\ Fail(s).failed
    BY DEF Fail, States
  <2> HIDE DEF r
  <2>3. r.pos \in Place /\ r.failed
    BY <2>1, <2>2, CodeWord
  <2> QED
    BY <2>3 DEF r
<1>2. CASE Code(s) = "End"
  <2>1. r = Returns(x)
    BY <1>2 DEF EndOfBody
  <2>2. a.pos = s.pos + 1 /\ a.failed = s.failed /\ ~s.failed /\ Word(tokens, s.pos) = "End"
    BY <1>2, CodeWord DEF Advanced, States
  <2>3. a \in States(tokens)
    <3>1. s.pos + 1 \in Nat \ {0}
      BY DEF States
    <3> QED
      BY <3>1 DEF Advanced, States
  <2> HIDE DEF a
  <2> PICK no, fs, g : no = FALSE /\ fs = x.functions /\ g = r.functions
    OBVIOUS
  <2>4. x.pos = a.pos /\ x.failed = a.failed
    BY <2>3 DEF States
  <2>5. Returns(x).pos = x.pos /\ Returns(x).failed = x.failed
    BY <2>3 DEF Returns, States
  <2> HIDE DEF x, r
  <2>6. r.pos = s.pos + 1 /\ r.failed = s.failed
    BY <2>1, <2>2, <2>4, <2>5
  <2>7. r.pos \in Place
    BY <2>6, CodeWord
  <2> QED
    BY <2>2, <2>6, <2>7 DEF r
<1> QED
  BY <1>1, <1>2

LEMMA FunctionDefSettles ==
  ASSUME NEW tokens \in Seq(Tokens), NEW p, ReadsParameters(tokens, p), GlidesParameters(tokens, p),
         Performs(tokens, p), Settles(tokens, p), NEW s \in Builders(tokens), Code(s) = "Function"
  PROVE  Settled(tokens, s, FunctionDef(p, s))
<1> DEFINE name == Advanced(s)
           h == Header(name)
           w == Advanced(h)
           x == Expect(w, "LeftParenthesis")
           y == Parameters(p, x)
           q == Expect(y, "RightParenthesis")
           body == p[<<"StatementList", q, 0>>]
           f == Len(s.names) + 1
           r == EndOfBody(body, f, s.out)
<1>1. s \in States(tokens) /\ s.pos \in Place /\ ~s.failed /\ Word(tokens, s.pos) = "Function"
  BY CodeWord DEF Builders
<1>2. CASE Code(name) # "Identifier"
  <2>1. FunctionDef(p, s) = Fail(s)
    BY <1>2 DEF FunctionDef
  <2>2. Fail(s).pos = s.pos /\ Fail(s).failed
    BY <1>1 DEF Fail, States
  <2> QED
    BY <1>1, <2>1, <2>2 DEF Settled
<1>3. CASE Code(name) = "Identifier"
  <2>1. FunctionDef(p, s) = r
    BY <1>3 DEF FunctionDef, Body
  <2>2. /\ name \in Builders(tokens) /\ name \in States(tokens) /\ Beside(s, name)
        /\ name.failed = s.failed
    BY AdvancedState DEF Builders
  <2>3. ~name.failed /\ Current(name) \in STRING /\ name.pos = s.pos + 1
    <3>1. name.pos = s.pos + 1
      BY <1>1 DEF Advanced, States
    <3> HIDE DEF name
    <3> QED
      BY <1>3, <2>2, <3>1, CurrentValue
  <2>4. Word(tokens, s.pos + 1) = "Identifier"
    <3> HIDE DEF name
    <3> QED
      BY <1>3, <2>2, <2>3, CodeWord
  <2>5. Len(name.names) + 1 = f /\ Tables(name) = Tables(s) /\ name.current = s.current
    BY <2>2 DEF Beside, Tables
  <2> HIDE DEF name
  <2>6. h \in States(tokens) /\ Headed(name, h)
    BY <2>2, <2>3, HeaderState
  <2>7. Declaring(h) /\ h.current = f /\ h.pos = name.pos /\ ~h.failed
    <3>1. Declaring(h) /\ h.current = f /\ ~h.failed
      BY <2>2, <2>3, <2>5, <2>6, BuilderSound, TablesLengths DEF Declaring, Headed, Tables
    <3>2. AddSymbol(name, Current(name), TRUE).pos = name.pos
      BY <2>2 DEF AddSymbol, States
    <3>3. h.pos = AddSymbol(name, Current(name), TRUE).pos
      <4> PICK z, l : z = AddSymbol(name, Current(name), TRUE) /\ l = Len(name.names) + 1
        OBVIOUS
      <4>1. h = [z EXCEPT !.current = l, !.inFunction = TRUE, !.out = <<>>]
        BY DEF Header
      <4>2. "pos" \in DOMAIN z
        BY <2>2 DEF AddSymbol, States
      <4> HIDE DEF h
      <4> QED
        BY <4>1, <4>2
    <3> QED
      BY <3>1, <3>2, <3>3
  <2> HIDE DEF h
  <2>8. /\ Declares(tokens, h, w) /\ Declaring(w) /\ w \in States(tokens)
        /\ Passes(tokens, h, w)
    <3>1. Code(h) = "Identifier"
      BY <2>3, <2>4, <2>6, <2>7, CodeWord
    <3> QED
      BY <2>6, <2>7, <3>1, AdvancedDeclares, StillDeclaring, NextPasses DEF Enders
  <2> HIDE DEF w
  <2>9. Declares(tokens, w, x) /\ Declaring(x) /\ x \in States(tokens) /\ Passes(tokens, w, x)
    BY <2>8, ExpectDeclares, StillDeclaring, NextPasses DEF Enders
  <2> HIDE DEF x
  <2>10. Declares(tokens, x, y) /\ Declaring(y) /\ y \in States(tokens) /\ Passes(tokens, x, y)
    BY <2>9, ParametersDeclares, StillDeclaring, ParametersPasses
  <2> HIDE DEF y
  <2>11. Declares(tokens, y, q) /\ q \in States(tokens) /\ Passes(tokens, y, q)
    BY <2>10, ExpectDeclares, StillDeclaring, NextPasses DEF Enders
  <2> HIDE DEF q
  <2>12. Declares(tokens, h, q) /\ Passes(tokens, h, q)
    BY <2>6, <2>8, <2>9, <2>10, <2>11, DeclaresThen, PassesThen
  <2>13. q \in Builders(tokens)
    BY <2>2, <2>3, <2>6, <2>11, <2>12, HeadedBuilder DEF Builders
  <2>14. body \in States(tokens) /\ Settled(tokens, q, body)
    BY <2>13, RunsBuilder DEF Performs, Settles
  <2> HIDE DEF body, f
  <2>15. /\ r.pos \in Place
         /\ ~r.failed => Word(tokens, body.pos) = "End" /\ r.pos = body.pos + 1
    BY <2>14, EndOfBodyStays
  <2>16. r.failed \/ ~body.failed
    <3>1. Code(body) # "End" => r = Fail(body) /\ Fail(body).failed
      BY <2>14 DEF EndOfBody, Fail, States
    <3> HIDE DEF r
    <3> QED
      BY <2>14, <3>1, CodeWord
  <2> HIDE DEF r
  <2>17. ASSUME ~r.failed PROVE Closed(tokens, s.pos, r.pos)
    <3>1. Settled(tokens, h, body)
      BY <2>12, <2>14, PassesSettled, SettledThen
    <3>2. Closed(tokens, s.pos + 1, body.pos) /\ body.pos \in Place
      BY <2>3, <2>7, <2>16, <2>17, <3>1 DEF Settled
    <3> QED
      BY <1>1, <2>4, <2>15, <2>17, <3>2, ClosedBlock
  <2> QED
    BY <1>1, <2>1, <2>15, <2>17 DEF Settled
<1> QED
  BY <1>2, <1>3

LEMMA StatementSettles ==
  ASSUME NEW tokens \in Seq(Tokens), NEW p, Obeys(tokens, p), Glides(tokens, p),
         GlidesParameters(tokens, p), Settles(tokens, p), NEW s \in Builders(tokens)
  PROVE  Settled(tokens, s, Statement(p, s))
<1>1. CASE Code(s) = "If"
  BY <1>1, IfStatementSettles DEF Statement, Obeys
<1>2. CASE Code(s) = "Return"
  BY <1>2, LetAndReturnPass, PassesSettled DEF Statement, Obeys
<1>3. CASE Code(s) = "Function"
  BY <1>3, FunctionDefSettles DEF Statement, Obeys
<1>4. CASE Code(s) = "Let"
  BY <1>4, LetAndReturnPass, PassesSettled DEF Statement, Obeys
<1>5. CASE Code(s) = "End"
  <2>1. Passes(tokens, s, s)
    BY CodeWord, StaysThere, PassesStays DEF Builders
  <2> QED
    BY <1>5, <2>1, PassesSettled DEF Statement
<1>6. CASE Code(s) \notin {"If", "Return", "Function", "Let", "End"}
  BY <1>6, ExprStatementPasses, PassesSettled DEF Statement, Obeys
<1> QED
  BY <1>1, <1>2, <1>3, <1>4, <1>5, <1>6

LEMMA StatementListSettles ==
  ASSUME NEW tokens \in Seq(Tokens), NEW p, Obeys(tokens, p), Glides(tokens, p),
         GlidesParameters(tokens, p), Settles(tokens, p), NEW s \in Builders(tokens)
  PROVE  LET r == StatementList(p, s)
         IN  Settled(tokens, s, r) /\ (~r.failed => Word(tokens, r.pos) \in Enders)
<1> DEFINE x == Statement(p, s)
           y == AfterSemicolon(x)
           z == MoreStatements(p, y)
<1>1. Settled(tokens, s, x) /\ x \in Builders(tokens) /\ x \in States(tokens)
  BY StatementRuns, RunsBuilder, StatementSettles DEF Obeys
<1> HIDE DEF x
<1>2. y \in Builders(tokens) /\ y \in States(tokens) /\ Passes(tokens, x, y)
  <2>1. CASE Code(x) = "Semicolon"
    BY <1>1, <2>1, AdvancedState, NextPasses DEF AfterSemicolon, Enders, Builders
  <2>2. CASE Code(x) # "Semicolon"
    BY <1>1, <2>2, CodeWord, StaysThere, PassesStays DEF AfterSemicolon
  <2> QED
    BY <2>1, <2>2
<1> HIDE DEF y
<1>3. Settled(tokens, s, y)
  BY <1>1, <1>2, PassesSettled, SettledThen
<1>4. Settled(tokens, s, z) /\ (~z.failed => Word(tokens, z.pos) \in Enders)
  <2>1. CASE Code(y) \in {"End", "Else", "EndofStream", "failed"}
    <3>1. z = y
      BY <2>1 DEF MoreStatements
    <3> QED
      BY <1>2, <1>3, <2>1, <3>1, CodeWord DEF Enders
  <2>2. CASE Code(y) \notin {"End", "Else", "EndofStream", "failed"}
    <3>1. z = p[<<"StatementList", y, 0>>]
      BY <2>2 DEF MoreStatements
    <3> HIDE DEF z
    <3>2. Settled(tokens, y, z) /\ (~z.failed => Word(tokens, z.pos) \in Enders)
      BY <1>2, <3>1 DEF Settles
    <3> QED
      BY <1>3, <3>2, SettledThen
  <2> QED
    BY <2>1, <2>2
<1>5. StatementList(p, s) = z
  BY DEF StatementList, y, x
<1> HIDE DEF z
<1> QED
  BY <1>4, <1>5

-----------------------------------------------------------------------------
(* The descent, from its bottom.                                           *)

Closes(tokens, p) ==
  /\ Obeys(tokens, p)
  /\ Glides(tokens, p) /\ GlidesParameters(tokens, p) /\ Settles(tokens, p)

LEMMA FailPasses ==
  ASSUME NEW tokens, NEW s \in States(tokens)
  PROVE  Passes(tokens, s, Fail(s)) /\ Fail(s).failed
<1>1. Fail(s).failed
  BY DEF Fail, States
<1> QED
  BY <1>1, CodeWord, StaysThere, PassesStays

LEMMA BottomCloses ==
  ASSUME NEW tokens, NEW q
  PROVE  Closes(tokens, Level(tokens, 0, q))
<1> DEFINE p == Level(tokens, 0, q)
<1>1. ASSUME NEW s \in States(tokens), NEW n \in Nat
      PROVE  /\ \A name \in {"Expression", "Operands", "Power", "StatementList", "ParameterList"} :
                  p[<<name, s, n>>] = Fail(s)
             /\ p[<<"MoreExpressions", s, n>>] = <<Fail(s), 0>>
  <2>1. \A name \in Procedures : p[<<name, s, n>>] = TooDeep(name, s)
    <3> PICK z : z = 0
      OBVIOUS
    <3>1. \A name \in Procedures : Level(tokens, z, q)[<<name, s, n>>] = TooDeep(name, s)
      BY LevelMeans
    <3> QED
      BY <3>1
  <2> HIDE DEF p
  <2>2. /\ TooDeep("MoreExpressions", s) = <<Fail(s), 0>>
        /\ \A name \in {"Expression", "Operands", "Power", "StatementList", "ParameterList"} :
             name \in Procedures /\ TooDeep(name, s) = Fail(s)
    BY DEF TooDeep, Procedures
  <2>3. "MoreExpressions" \in Procedures
    BY DEF Procedures
  <2> QED
    BY <2>1, <2>2, <2>3
<1>2. Obeys(tokens, p)
  BY BottomObeys
<1> HIDE DEF p
<1>4. Glides(tokens, p)
  <2> SUFFICES ASSUME NEW s \in Builders(tokens)
               PROVE  /\ \A n \in 1..5 : Passes(tokens, s, p[<<"Expression", s, n>>])
                      /\ \A n \in 1..4 : Passes(tokens, s, p[<<"Operands", s, n>>])
                      /\ Passes(tokens, s, p[<<"Power", s, 0>>])
                      /\ \A n \in Nat : Passes(tokens, s, p[<<"MoreExpressions", s, n>>][1])
    BY DEF Glides
  <2>1. s \in States(tokens) /\ Passes(tokens, s, Fail(s))
    BY FailPasses DEF Builders
  <2>2. \A n \in Nat : /\ p[<<"Expression", s, n>>] = Fail(s) /\ p[<<"Operands", s, n>>] = Fail(s)
                       /\ p[<<"Power", s, n>>] = Fail(s)
                       /\ p[<<"MoreExpressions", s, n>>] = <<Fail(s), 0>>
    BY <1>1, <2>1
  <2>3. 0 \in Nat
    OBVIOUS
  <2>4. 1..5 \subseteq Nat /\ 1..4 \subseteq Nat
    OBVIOUS
  <2>5. ASSUME NEW n \in Nat PROVE p[<<"MoreExpressions", s, n>>][1] = Fail(s)
    <3>1. p[<<"MoreExpressions", s, n>>] = <<Fail(s), 0>>
      BY <2>2
    <3> QED
      BY ONLY <3>1
  <2> QED
    BY ONLY <2>1, <2>2, <2>3, <2>4, <2>5, Zenon
<1>5. GlidesParameters(tokens, p)
  BY <1>1, FailPasses DEF GlidesParameters
<1>6. Settles(tokens, p)
  <2> SUFFICES ASSUME NEW s \in Builders(tokens)
               PROVE  LET r == p[<<"StatementList", s, 0>>]
                      IN  Settled(tokens, s, r) /\ (~r.failed => Word(tokens, r.pos) \in Enders)
    BY DEF Settles
  <2>1. s \in States(tokens) /\ p[<<"StatementList", s, 0>>] = Fail(s)
    BY <1>1 DEF Builders
  <2> QED
    BY <2>1, FailPasses, PassesSettled
<1> QED
  BY <1>2, <1>4, <1>5, <1>6 DEF Closes, p

LEMMA LevelCloses ==
  ASSUME NEW tokens \in Seq(Tokens), NEW k, k # 0, NEW q, Closes(tokens, q)
  PROVE  Closes(tokens, Level(tokens, k, q))
<1> DEFINE p == Level(tokens, k, q)
<1>1. ASSUME NEW s \in States(tokens), NEW n \in Nat
      PROVE  /\ p[<<"Expression", s, n>>] = Expression(q, s, n)
             /\ p[<<"Operands", s, n>>] = Operands(q, s, n)
             /\ p[<<"Power", s, n>>] = Power(q, s)
             /\ p[<<"MoreExpressions", s, n>>] = MoreExpressions(q, s, n)
             /\ p[<<"StatementList", s, n>>] = StatementList(q, s)
             /\ p[<<"ParameterList", s, n>>] = ParameterList(q, s, n)
  <2>1. \A name \in Procedures : p[<<name, s, n>>] = Procedure(q, name, s, n)
    BY LevelMeans
  <2> HIDE DEF p
  <2> QED
    BY <2>1 DEF Procedure, Procedures
<1>2. Obeys(tokens, p)
  BY LevelObeys DEF Closes
<1> HIDE DEF p
<1>3. /\ Obeys(tokens, q) /\ Calculates(tokens, q) /\ ReadsParameters(tokens, q)
      /\ Glides(tokens, q) /\ GlidesParameters(tokens, q) /\ Settles(tokens, q)
  BY DEF Closes, Obeys
<1>4. Glides(tokens, p)
  <2> SUFFICES ASSUME NEW s \in Builders(tokens)
               PROVE  /\ \A n \in 1..5 : Passes(tokens, s, p[<<"Expression", s, n>>])
                      /\ \A n \in 1..4 : Passes(tokens, s, p[<<"Operands", s, n>>])
                      /\ Passes(tokens, s, p[<<"Power", s, 0>>])
                      /\ \A n \in Nat : Passes(tokens, s, p[<<"MoreExpressions", s, n>>][1])
    BY DEF Glides
  <2>1. s \in States(tokens)
    BY DEF Builders
  <2>2. ASSUME NEW n \in 1..5 PROVE Passes(tokens, s, p[<<"Expression", s, n>>])
    <3>1. n \in Nat
      OBVIOUS
    <3>2. p[<<"Expression", s, n>>] = Expression(q, s, n)
      BY <1>1, <2>1, <3>1
    <3> QED
      BY <1>3, <3>2, ExpressionPasses
  <2>3. ASSUME NEW n \in 1..4 PROVE Passes(tokens, s, p[<<"Operands", s, n>>])
    <3>1. n \in Nat
      OBVIOUS
    <3>2. p[<<"Operands", s, n>>] = Operands(q, s, n)
      BY <1>1, <2>1, <3>1
    <3> QED
      BY <1>3, <3>2, OperandsPasses
  <2>4. Passes(tokens, s, p[<<"Power", s, 0>>])
    BY <1>1, <1>3, <2>1, PowerPasses
  <2>5. ASSUME NEW n \in Nat PROVE Passes(tokens, s, p[<<"MoreExpressions", s, n>>][1])
    BY <1>1, <1>3, <2>1, MoreExpressionsPasses
  <2> QED
    BY <2>2, <2>3, <2>4, <2>5
<1>5. GlidesParameters(tokens, p)
  BY <1>1, <1>3, ParameterListPasses DEF GlidesParameters
<1>6. Settles(tokens, p)
  <2> SUFFICES ASSUME NEW s \in Builders(tokens)
               PROVE  LET r == p[<<"StatementList", s, 0>>]
                      IN  Settled(tokens, s, r) /\ (~r.failed => Word(tokens, r.pos) \in Enders)
    BY DEF Settles
  <2>1. p[<<"StatementList", s, 0>>] = StatementList(q, s)
    BY <1>1 DEF Builders
  <2> QED
    BY <1>3, <2>1, StatementListSettles
<1> QED
  BY <1>2, <1>4, <1>5, <1>6 DEF Closes, p

LEMMA DescentCloses ==
  ASSUME NEW tokens \in Seq(Tokens)
  PROVE  Closes(tokens, Descent(tokens))
<1> DEFINE N == Depth(tokens)
<1>1. Len(tokens) \in Nat
  BY LenProperties
<1>2. N \in Nat
  BY <1>1 DEF Depth
<1>3. PICK u : Descends(tokens, N, u) /\ Descent(tokens) = u[N]
  BY <1>1, DescentDefined
<1> HIDE DEF N
<1> DEFINE Good == {k \in 0..N : Closes(tokens, u[k])}
<1>4. \A k \in 0..N : u[k] = Level(tokens, k, u[k - 1])
  BY <1>3 DEF Descends
<1>5. 0 \in Good
  <2>1. 0 \in 0..N /\ u[0] = Level(tokens, 0, u[0 - 1])
    BY <1>2, <1>4
  <2> PICK q : q = u[0 - 1]
    OBVIOUS
  <2>2. Closes(tokens, Level(tokens, 0, q))
    BY BottomCloses
  <2> QED
    BY <2>1, <2>2
<1>6. ASSUME NEW k \in 0..(N - 1), k \in Good PROVE k + 1 \in Good
  <2> PICK n : n = k + 1
    OBVIOUS
  <2>1. n \in 0..N /\ n # 0 /\ n - 1 = k
    BY <1>2
  <2>2. u[n] = Level(tokens, n, u[k])
    BY <1>4, <2>1
  <2>3. Closes(tokens, u[k])
    BY <1>6
  <2> PICK q : q = u[k]
    OBVIOUS
  <2>4. Closes(tokens, Level(tokens, n, q))
    BY <2>1, <2>3, LevelCloses
  <2> QED
    BY <2>1, <2>2, <2>4
<1>7. N \in Good
  <2>1. N \in 0..N /\ \A k \in 0..(N - 1) : k \in Good => k + 1 \in Good
    BY <1>2, <1>6
  <2> HIDE DEF Good
  <2> QED
    BY <1>2, <1>5, <2>1, InductionUpTo
<1> QED
  BY <1>3, <1>7

\* What the generator reads of a table closes the blocks that it opens.
LEMMA GeneratedCloses ==
  ASSUME NEW tokens \in Seq(Tokens)
  PROVE  LET r == Generated(tokens)
         IN  /\ r.pos \in Place
             /\ ~r.failed => Closed(tokens, 1, r.pos) /\ Word(tokens, r.pos) \in Enders
<1> DEFINE s == Start(tokens)
           d == Descent(tokens)[<<"StatementList", s, 0>>]
           r == Emit(d, "Halt", NoArg)
<1>1. Generated(tokens) = r
  BY DEF Generated
<1>2. s \in Builders(tokens) /\ s.pos = 1
  BY StartBuilder DEF Start
<1> HIDE DEF s
<1>3. /\ d \in States(tokens) /\ Settled(tokens, s, d)
      /\ ~d.failed => Word(tokens, d.pos) \in Enders
  <2>1. Closes(tokens, Descent(tokens))
    BY DescentCloses
  <2> HIDE DEF d
  <2> PICK p : p = Descent(tokens)
    OBVIOUS
  <2>2. Runs(tokens, s, p[<<"StatementList", s, 0>>])
    BY <1>2, <2>1 DEF Closes, Obeys, Performs
  <2>3. LET z == p[<<"StatementList", s, 0>>]
        IN  Settled(tokens, s, z) /\ (~z.failed => Word(tokens, z.pos) \in Enders)
    BY <1>2, <2>1 DEF Closes, Settles
  <2> QED
    BY <2>2, <2>3, RunsBuilder DEF d
<1> HIDE DEF d
<1>4. r.pos = d.pos /\ r.failed = d.failed
  BY <1>3, EmitStays DEF Stays
<1> HIDE DEF r
<1> QED
  BY <1>1, <1>2, <1>3, <1>4 DEF Settled

-----------------------------------------------------------------------------
(* The syntax parser, step by step.                                        *)

LEMMA ReaderWord ==
  ASSUME NEW tokens, NEW s \in Parser!States(tokens)
  PROVE  /\ s.pos \in Place /\ s.pos + 1 \in Place
         /\ ~s.failed => Parser!Code(s) = Word(tokens, s.pos)
         /\ s.failed => Parser!Code(s) = "failed"
BY DEF Parser!States, Parser!Code, Word, Place

LEMMA ReaderStays ==
  ASSUME NEW tokens, NEW s \in Parser!States(tokens)
  PROVE  /\ Passes(tokens, s, s) /\ Passes(tokens, s, Parser!Fail(s))
         /\ Parser!Fail(s).failed /\ Parser!Fail(s) \in Parser!States(tokens)
         /\ \A b : [s EXCEPT !.inFunction = b].pos = s.pos
                   /\ [s EXCEPT !.inFunction = b].failed = s.failed
         /\ Parser!Advanced(s).pos = s.pos + 1
         /\ Parser!Advanced(s).failed = s.failed
         /\ Parser!Advanced(s) \in Parser!States(tokens)
<1>1. /\ \A b : [s EXCEPT !.inFunction = b].pos = s.pos
                /\ [s EXCEPT !.inFunction = b].failed = s.failed
      /\ Parser!Fail(s).failed /\ Parser!Fail(s).pos = s.pos
      /\ Parser!Advanced(s).pos = s.pos + 1 /\ Parser!Advanced(s).failed = s.failed
  BY DEF Parser!States, Parser!Fail, Parser!Advanced
<1>2. Stays(s, s) /\ Stays(s, Parser!Fail(s))
  BY <1>1 DEF Stays
<1> QED
  BY <1>1, <1>2, ReaderWord, PassesStays, ParserSteps

LEMMA ReaderNext ==
  ASSUME NEW tokens, NEW s \in Parser!States(tokens)
  PROVE  /\ Parser!Code(s) \notin Enders \cup {"If", "Function"} => Passes(tokens, s, Parser!Advanced(s))
         /\ \A c : c \notin Enders \cup {"If", "Function"} => Passes(tokens, s, Parser!Expect(s, c))
<1>1. ASSUME Parser!Code(s) \notin Enders \cup {"If", "Function"}
      PROVE  Passes(tokens, s, Parser!Advanced(s))
  <2>1. ~s.failed /\ Plain(tokens, s.pos) /\ s.pos \in Place
    BY <1>1, ReaderWord DEF Plain, Enders
  <2>2. Parser!Advanced(s).pos = s.pos + 1
    BY ReaderStays
  <2> QED
    BY <2>1, <2>2 DEF Passes, AllPlain, Place
<1> QED
  BY <1>1, ReaderStays DEF Parser!Expect

-----------------------------------------------------------------------------
(* Its expressions pass plain tokens only.                                 *)

Roams(tokens, p) ==
  \A s \in Parser!States(tokens) :
    /\ \A n \in 1..5 : Passes(tokens, s, p[<<"Expression", s, n>>])
    /\ \A n \in 1..4 : Passes(tokens, s, p[<<"Operands", s, n>>])
    /\ \A name \in {"Power", "PrimaryPlus", "ExpressionList", "FunctionArgumentList"} :
         Passes(tokens, s, p[<<name, s, 0>>])

LEMMA ParserLevels ==
  Parser!Loosest \in 1..5 /\ Parser!Tightest = 5 /\ Parser!Loosest \in Nat
BY DEF Parser!Loosest, Parser!Tightest, Parser!Operators

\* Where the calls below roam, they end in a parser, past plain tokens.
LEMMA PartsRoam ==
  ASSUME NEW tokens, NEW p, Reads(tokens, p), Roams(tokens, p), NEW s \in Parser!States(tokens)
  PROVE  /\ \A n \in 1..5 : /\ p[<<"Expression", s, n>>] \in Parser!States(tokens)
                            /\ Passes(tokens, s, p[<<"Expression", s, n>>])
         /\ \A n \in 1..4 : /\ p[<<"Operands", s, n>>] \in Parser!States(tokens)
                            /\ Passes(tokens, s, p[<<"Operands", s, n>>])
         /\ \A name \in {"Power", "PrimaryPlus", "ExpressionList", "FunctionArgumentList"} :
              /\ p[<<name, s, 0>>] \in Parser!States(tokens)
              /\ Passes(tokens, s, p[<<name, s, 0>>])
<1>1. 1..5 \subseteq Nat /\ 1..4 \subseteq Nat /\ 0 \in Nat
  OBVIOUS
<1>2. /\ {"Power", "PrimaryPlus", "ExpressionList", "FunctionArgumentList"} \subseteq Parser!Procedures
      /\ "Expression" \in Parser!Procedures /\ "Operands" \in Parser!Procedures
  BY DEF Parser!Procedures
<1>3. \A name \in Parser!Procedures, n \in Nat : p[<<name, s, n>>] \in Parser!States(tokens)
  BY DEF Reads
<1>4. /\ \A n \in 1..5 : Passes(tokens, s, p[<<"Expression", s, n>>])
      /\ \A n \in 1..4 : Passes(tokens, s, p[<<"Operands", s, n>>])
      /\ \A name \in {"Power", "PrimaryPlus", "ExpressionList", "FunctionArgumentList"} :
           Passes(tokens, s, p[<<name, s, 0>>])
  BY DEF Roams
<1> QED
  BY ONLY <1>1, <1>2, <1>3, <1>4, Zenon

\* After a plain token too.
LEMMA NextRoams ==
  ASSUME NEW tokens, NEW p, Reads(tokens, p), Roams(tokens, p), NEW s \in Parser!States(tokens),
         Parser!Code(s) \notin Enders \cup {"If", "Function"}
  PROVE  LET a == Parser!Advanced(s)
         IN  /\ a \in Parser!States(tokens) /\ Passes(tokens, s, a)
             /\ \A n \in 1..5 : /\ p[<<"Expression", a, n>>] \in Parser!States(tokens)
                                /\ Passes(tokens, s, p[<<"Expression", a, n>>])
             /\ p[<<"Power", a, 0>>] \in Parser!States(tokens)
             /\ Passes(tokens, s, p[<<"Power", a, 0>>])
<1> PICK a : a = Parser!Advanced(s)
  OBVIOUS
<1>1. a \in Parser!States(tokens) /\ Passes(tokens, s, a)
  BY ReaderStays, ReaderNext
<1>2. /\ \A n \in 1..5 : /\ p[<<"Expression", a, n>>] \in Parser!States(tokens)
                         /\ Passes(tokens, a, p[<<"Expression", a, n>>])
      /\ p[<<"Power", a, 0>>] \in Parser!States(tokens)
      /\ Passes(tokens, a, p[<<"Power", a, 0>>])
  BY <1>1, PartsRoam
<1>3. /\ \A n \in 1..5 : Passes(tokens, s, p[<<"Expression", a, n>>])
      /\ Passes(tokens, s, p[<<"Power", a, 0>>])
  BY <1>1, <1>2, PassesThen
<1> QED
  BY <1>1, <1>2, <1>3

LEMMA ReaderExpressionPasses ==
  ASSUME NEW tokens, NEW p, Reads(tokens, p), Roams(tokens, p), NEW s \in Parser!States(tokens),
         NEW n \in 1..5
  PROVE  Passes(tokens, s, Parser!Expression(p, s, n))
<1>1. CASE n = Parser!Tightest
  BY <1>1, PartsRoam DEF Parser!Expression
<1>2. CASE n # Parser!Tightest
  <2>1. n \in 1..4 /\ n + 1 \in 1..5
    BY <1>2, ParserLevels
  <2> DEFINE m == p[<<"Expression", s, n + 1>>]
  <2>2. m \in Parser!States(tokens) /\ Passes(tokens, s, m)
    BY <2>1, PartsRoam
  <2>3. Parser!Expression(p, s, n) = p[<<"Operands", m, n>>]
    BY <1>2 DEF Parser!Expression
  <2> HIDE DEF m
  <2>4. Passes(tokens, m, p[<<"Operands", m, n>>])
    BY <2>1, <2>2, PartsRoam
  <2> QED
    BY <2>2, <2>3, <2>4, PassesThen
<1> QED
  BY <1>1, <1>2

LEMMA ReaderOperatorsPlain ==
  ASSUME NEW n \in 1..4, NEW c \in Parser!Operators[n]
  PROVE  c \notin Enders \cup {"If", "Function"}
<1>1. n = 1 \/ n = 2 \/ n = 3 \/ n = 4
  OBVIOUS
<1>2. CASE n = 1
  BY <1>2 DEF Parser!Operators, Enders
<1>3. CASE n = 2
  BY <1>3 DEF Parser!Operators, Enders
<1>4. CASE n = 3
  BY <1>4 DEF Parser!Operators, Enders
<1>5. CASE n = 4
  BY <1>5 DEF Parser!Operators, Enders
<1> QED
  BY <1>1, <1>2, <1>3, <1>4, <1>5

LEMMA ReaderOperandsPasses ==
  ASSUME NEW tokens, NEW p, Reads(tokens, p), Roams(tokens, p), NEW s \in Parser!States(tokens),
         NEW n \in 1..4
  PROVE  Passes(tokens, s, Parser!Operands(p, s, n))
<1>1. CASE Parser!Code(s) \in Parser!Operators[n]
  <2> DEFINE x == p[<<"Expression", Parser!Advanced(s), n + 1>>]
  <2>1. Parser!Code(s) \notin Enders \cup {"If", "Function"} /\ n + 1 \in 1..5
    BY <1>1, ReaderOperatorsPlain
  <2>2. x \in Parser!States(tokens) /\ Passes(tokens, s, x)
    BY <2>1, NextRoams
  <2>3. Parser!Operands(p, s, n) = p[<<"Operands", x, n>>]
    BY <1>1 DEF Parser!Operands
  <2> HIDE DEF x
  <2>4. Passes(tokens, x, p[<<"Operands", x, n>>])
    BY <2>2, PartsRoam
  <2> QED
    BY <2>2, <2>3, <2>4, PassesThen
<1>2. CASE Parser!Code(s) \notin Parser!Operators[n]
  BY <1>2, ReaderStays DEF Parser!Operands
<1> QED
  BY <1>1, <1>2

\* An error after a not is forgiven where there was none before it.
LEMMA ReaderFactorPasses ==
  ASSUME NEW tokens, NEW p, Reads(tokens, p), Roams(tokens, p), NEW s \in Parser!States(tokens)
  PROVE  Passes(tokens, s, Parser!Factor(p, s)) /\ Parser!Factor(p, s) \in Parser!States(tokens)
<1> PICK z \in Nat : z = 0
  OBVIOUS
<1>1. Parser!Factor(p, s) \in Parser!States(tokens)
  BY ExpressionsRead
<1>2. CASE Parser!Code(s) \in {"Integer", "Float", "Identifier", "String", "False", "True"}
  <2>1. Passes(tokens, s, Parser!Advanced(s))
    BY <1>2, ReaderNext DEF Enders
  <2> QED
    BY <1>1, <1>2, <2>1 DEF Parser!Factor
<1>3. CASE Parser!Code(s) \in {"LeftParenthesis", "Not"}
  <2> DEFINE e == p[<<"Expression", Parser!Advanced(s), Parser!Loosest>>]
  <2>1. e \in Parser!States(tokens) /\ Passes(tokens, s, e)
    BY <1>3, ParserLevels, NextRoams DEF Enders
  <2>2. /\ Parser!Code(s) = "LeftParenthesis" => Parser!Factor(p, s) = Parser!Expect(e, "RightParenthesis")
        /\ Parser!Code(s) = "Not" => Parser!Factor(p, s) = Parser!Forgiven(e)
    BY DEF Parser!Factor
  <2> HIDE DEF e
  <2>3. Passes(tokens, s, Parser!Expect(e, "RightParenthesis"))
    <3>1. Passes(tokens, e, Parser!Expect(e, "RightParenthesis"))
      BY <2>1, ReaderNext DEF Enders
    <3> QED
      BY <2>1, <3>1, PassesThen
  <2>4. Passes(tokens, s, Parser!Forgiven(e))
    <3>1. ~s.failed
      BY <1>3, ReaderWord
    <3>2. Parser!Forgiven(e).pos = e.pos
      BY <2>1 DEF Parser!Forgiven, Parser!States
    <3> QED
      BY <2>1, <3>1, <3>2 DEF Passes
  <2> QED
    BY <1>1, <1>3, <2>2, <2>3, <2>4
<1>4. CASE Parser!Code(s) \notin {"Integer", "Float", "Identifier", "String", "False", "True",
                                  "LeftParenthesis", "Not"}
  <2>1. Parser!Factor(p, s) = Parser!Fail(s)
    BY <1>4 DEF Parser!Factor
  <2> QED
    BY <1>1, <2>1, ReaderStays
<1> QED
  BY <1>2, <1>3, <1>4

LEMMA ReaderCallPasses ==
  ASSUME NEW tokens, NEW p, Reads(tokens, p), Roams(tokens, p), NEW s \in Parser!States(tokens)
  PROVE  /\ Passes(tokens, s, Parser!ExpressionList(p, s))
         /\ Passes(tokens, s, Parser!FunctionCall(p, s))
         /\ Parser!FunctionCall(p, s) \in Parser!States(tokens)
<1> DEFINE e == p[<<"Expression", s, Parser!Loosest>>]
           l == p[<<"ExpressionList", e, 0>>]
           a == IF Parser!Code(s) = "RightParenthesis" THEN s ELSE l
<1>1. e \in Parser!States(tokens) /\ Passes(tokens, s, e)
  BY ParserLevels, PartsRoam
<1>2. Parser!FunctionCall(p, s) = Parser!Expect(a, "RightParenthesis")
  BY DEF Parser!FunctionCall
<1> HIDE DEF e
<1>3. l \in Parser!States(tokens) /\ Passes(tokens, s, l)
  <2>1. l \in Parser!States(tokens) /\ Passes(tokens, e, l)
    BY <1>1, PartsRoam
  <2> QED
    BY <1>1, <2>1, PassesThen
<1> HIDE DEF l
<1>4. a \in Parser!States(tokens) /\ Passes(tokens, s, a)
  BY <1>3, ReaderStays
<1> HIDE DEF a
<1>5. Passes(tokens, a, Parser!Expect(a, "RightParenthesis"))
  BY <1>4, ReaderNext DEF Enders
<1>6. Passes(tokens, s, Parser!ExpressionList(p, s))
  <2>1. CASE Parser!Code(s) = "Comma"
    <3> DEFINE x == p[<<"Expression", Parser!Advanced(s), Parser!Loosest>>]
    <3>1. x \in Parser!States(tokens) /\ Passes(tokens, s, x)
      BY <2>1, ParserLevels, NextRoams DEF Enders
    <3>2. Parser!ExpressionList(p, s) = p[<<"ExpressionList", x, 0>>]
      BY <2>1 DEF Parser!ExpressionList
    <3> HIDE DEF x
    <3>3. Passes(tokens, x, p[<<"ExpressionList", x, 0>>])
      BY <3>1, PartsRoam
    <3> QED
      BY <3>1, <3>2, <3>3, PassesThen
  <2>2. CASE Parser!Code(s) # "Comma"
    BY <2>2, ReaderStays DEF Parser!ExpressionList
  <2> QED
    BY <2>1, <2>2
<1> QED
  BY <1>2, <1>4, <1>5, <1>6, PassesThen, ParserExpects

LEMMA ReaderPowerPasses ==
  ASSUME NEW tokens, NEW p, Reads(tokens, p), Roams(tokens, p), NEW s \in Parser!States(tokens)
  PROVE  /\ Passes(tokens, s, Parser!PrimaryPlus(p, s))
         /\ Passes(tokens, s, Parser!Power(p, s))
<1> DEFINE a == Parser!Advanced(s)
           i == Parser!Expect(a, "Identifier")
           c == Parser!FunctionCall(p, a)
           f == Parser!Factor(p, s)
           e == p[<<"PrimaryPlus", f, 0>>]
           g == p[<<"Power", Parser!Advanced(e), 0>>]
<1>1. ASSUME NEW x \in Parser!States(tokens), Passes(tokens, s, x)
      PROVE  /\ p[<<"PrimaryPlus", x, 0>>] \in Parser!States(tokens)
             /\ Passes(tokens, s, p[<<"PrimaryPlus", x, 0>>])
  <2>1. /\ p[<<"PrimaryPlus", x, 0>>] \in Parser!States(tokens)
        /\ Passes(tokens, x, p[<<"PrimaryPlus", x, 0>>])
    BY PartsRoam
  <2> QED
    BY <1>1, <2>1, PassesThen
<1>2. Passes(tokens, s, Parser!PrimaryPlus(p, s))
  <2>1. CASE Parser!Code(s) \in {"Period", "LeftParenthesis"}
    <3>1. a \in Parser!States(tokens) /\ Passes(tokens, s, a)
      BY <2>1, NextRoams DEF Enders
    <3>2. /\ Parser!Code(s) = "Period" => Parser!PrimaryPlus(p, s) = p[<<"PrimaryPlus", i, 0>>]
          /\ Parser!Code(s) = "LeftParenthesis" => Parser!PrimaryPlus(p, s) = p[<<"PrimaryPlus", c, 0>>]
      BY DEF Parser!PrimaryPlus
    <3> HIDE DEF a
    <3>3. i \in Parser!States(tokens) /\ Passes(tokens, a, i)
      BY <3>1, ParserExpects, ReaderNext DEF Enders
    <3>4. c \in Parser!States(tokens) /\ Passes(tokens, a, c)
      BY <3>1, ReaderCallPasses
    <3> HIDE DEF i, c
    <3>5. Passes(tokens, s, i) /\ Passes(tokens, s, c)
      BY <3>1, <3>3, <3>4, PassesThen
    <3> QED
      BY <1>1, <2>1, <3>2, <3>3, <3>4, <3>5
  <2>2. CASE Parser!Code(s) \notin {"Period", "LeftParenthesis"}
    BY <2>2, ReaderStays DEF Parser!PrimaryPlus
  <2> QED
    BY <2>1, <2>2
<1>3. Passes(tokens, s, Parser!Power(p, s))
  <2>1. CASE Parser!Code(s) \in {"Minus", "Plus"}
    BY <2>1, NextRoams DEF Parser!Power, Enders
  <2>2. CASE Parser!Code(s) \notin {"Minus", "Plus"}
    <3>1. Parser!Power(p, s) = IF Parser!Code(e) = "Power" THEN g ELSE e
      BY <2>2 DEF Parser!Power, Parser!Exponent
    <3>2. f \in Parser!States(tokens) /\ Passes(tokens, s, f)
      BY ReaderFactorPasses
    <3> HIDE DEF f
    <3>3. e \in Parser!States(tokens) /\ Passes(tokens, s, e)
      BY <1>1, <3>2
    <3> HIDE DEF e
    <3>4. Parser!Code(e) = "Power" => Passes(tokens, s, g)
      <4>1. Parser!Code(e) = "Power" => Passes(tokens, e, g)
        BY <3>3, NextRoams DEF Enders
      <4> QED
        BY <3>3, <4>1, PassesThen
    <3> QED
      BY <3>1, <3>3, <3>4
  <2> QED
    BY <2>1, <2>2
<1> QED
  BY <1>2, <1>3

LEMMA ReaderArgumentsPasses ==
  ASSUME NEW tokens, NEW p, Reads(tokens, p), Roams(tokens, p), NEW s \in Parser!States(tokens)
  PROVE  /\ Passes(tokens, s, Parser!Variable(s))
         /\ Passes(tokens, s, Parser!FunctionArgumentList(p, s))
         /\ Passes(tokens, s, Parser!Parameters(p, s)) /\ Parser!Parameters(p, s) \in Parser!States(tokens)
<1>1. ASSUME NEW x \in Parser!States(tokens) PROVE Passes(tokens, x, Parser!Variable(x))
  BY ReaderNext, ReaderStays DEF Parser!Variable, Enders
<1>2. Passes(tokens, s, Parser!FunctionArgumentList(p, s))
  <2>1. CASE Parser!Code(s) = "Comma"
    <3> DEFINE a == Parser!Advanced(s)
               v == Parser!Variable(a)
               l == p[<<"FunctionArgumentList", v, 0>>]
    <3>1. a \in Parser!States(tokens) /\ Passes(tokens, s, a)
      BY <2>1, NextRoams DEF Enders
    <3>2. Parser!FunctionArgumentList(p, s) = l
      BY <2>1 DEF Parser!FunctionArgumentList
    <3> HIDE DEF a
    <3>3. v \in Parser!States(tokens) /\ Passes(tokens, a, v)
      BY <1>1, <3>1, ParserExpects
    <3> HIDE DEF v
    <3>4. Passes(tokens, v, l)
      BY <3>3, PartsRoam
    <3> HIDE DEF l
    <3> QED
      BY <3>1, <3>2, <3>3, <3>4, PassesThen
  <2>2. CASE Parser!Code(s) # "Comma"
    BY <2>2, ReaderStays DEF Parser!FunctionArgumentList
  <2> QED
    BY <2>1, <2>2
<1>3. Passes(tokens, s, Parser!Parameters(p, s)) /\ Parser!Parameters(p, s) \in Parser!States(tokens)
  <2>1. CASE Parser!Code(s) = "LeftParenthesis"
    <3> DEFINE a == Parser!Advanced(s)
               v == IF Parser!Code(a) = "Identifier" THEN Parser!Variable(a) ELSE a
               l == p[<<"FunctionArgumentList", v, 0>>]
               r == Parser!Expect(l, "RightParenthesis")
    <3>1. a \in Parser!States(tokens) /\ Passes(tokens, s, a)
      BY <2>1, NextRoams DEF Enders
    <3>2. Parser!Parameters(p, s) = r
      BY <2>1 DEF Parser!Parameters, Parser!FunctionArguments
    <3> HIDE DEF a
    <3>3. v \in Parser!States(tokens) /\ Passes(tokens, a, v)
      BY <1>1, <3>1, ParserExpects, ReaderStays
    <3> HIDE DEF v
    <3>4. l \in Parser!States(tokens) /\ Passes(tokens, v, l)
      BY <3>3, PartsRoam
    <3> HIDE DEF l
    <3>5. r \in Parser!States(tokens) /\ Passes(tokens, l, r)
      BY <3>4, ParserExpects, ReaderNext DEF Enders
    <3> HIDE DEF r
    <3> QED
      BY <3>1, <3>2, <3>3, <3>4, <3>5, PassesThen
  <2>2. CASE Parser!Code(s) # "LeftParenthesis"
    BY <2>2, ReaderStays DEF Parser!Parameters
  <2> QED
    BY <2>1, <2>2
<1> QED
  BY <1>1, <1>2, <1>3

-----------------------------------------------------------------------------
(* A statement of the parser means the blocks that it reads.               *)

Means(tokens, s, r) ==
  /\ s.pos \in Place /\ r.pos \in Place
  /\ ~r.failed => ~s.failed /\ Meant(tokens, s.pos, r.pos)
Lists(tokens, p) ==
  \A s \in Parser!States(tokens) :
    LET r == p[<<"StatementList", s, 0>>]
    IN  Means(tokens, s, r) /\ (~r.failed => Word(tokens, r.pos) \in Enders)

LEMMA PassesMeans ==
  ASSUME NEW tokens, NEW s, NEW r, Passes(tokens, s, r)
  PROVE  Means(tokens, s, r)
BY PlainPiece DEF Passes, Means

LEMMA MeansThen ==
  ASSUME NEW tokens, NEW s, NEW m, NEW r, Means(tokens, s, m), Means(tokens, m, r)
  PROVE  Means(tokens, s, r)
BY MeantThen DEF Means

\* An end is read if it is there.
LEMMA EndPassed ==
  ASSUME NEW tokens, NEW s \in Parser!States(tokens), ~s.failed
  PROVE  /\ Parser!Expect(s, "End").pos = PastEnd(tokens, s.pos)
         /\ Parser!Expect(s, "End").failed = FALSE
         /\ PastEnd(tokens, s.pos) \in Place
<1>1. Parser!Code(s) = Word(tokens, s.pos) /\ s.pos \in Place /\ s.pos + 1 \in Place
  BY ReaderWord
<1>2. s.failed = FALSE
  BY DEF Parser!States
<1> QED
  BY <1>1, <1>2, ReaderStays DEF Parser!Expect, PastEnd

LEMMA LetAndReturnMean ==
  ASSUME NEW tokens, NEW p, Reads(tokens, p), Roams(tokens, p), NEW s \in Parser!States(tokens)
  PROVE  /\ Parser!Code(s) = "Let" => Passes(tokens, s, Parser!LetStatement(p, s))
         /\ Parser!Code(s) = "Return" => Passes(tokens, s, Parser!ReturnStatement(p, s))
         /\ Passes(tokens, s, Parser!ExpressionStatement(p, s))
<1>1. ASSUME Parser!Code(s) = "Let" PROVE Passes(tokens, s, Parser!LetStatement(p, s))
  <2> DEFINE a == Parser!Advanced(s)
             v == Parser!Variable(a)
             x == Parser!Expect(v, "Assign")
             e == p[<<"Expression", x, Parser!Loosest>>]
  <2>1. a \in Parser!States(tokens) /\ Passes(tokens, s, a)
    BY <1>1, NextRoams DEF Enders
  <2>2. Parser!LetStatement(p, s) = e
    BY DEF Parser!LetStatement
  <2> HIDE DEF a
  <2>3. v \in Parser!States(tokens) /\ Passes(tokens, a, v)
    BY <2>1, ParserExpects, ReaderArgumentsPasses
  <2> HIDE DEF v
  <2>4. x \in Parser!States(tokens) /\ Passes(tokens, v, x)
    BY <2>3, ParserExpects, ReaderNext DEF Enders
  <2> HIDE DEF x
  <2>5. Passes(tokens, x, e)
    BY <2>4, ParserLevels, PartsRoam
  <2> HIDE DEF e
  <2> QED
    BY <2>1, <2>2, <2>3, <2>4, <2>5, PassesThen
<1>2. ASSUME Parser!Code(s) = "Return" PROVE Passes(tokens, s, Parser!ReturnStatement(p, s))
  <2>1. Passes(tokens, s, p[<<"Expression", Parser!Advanced(s), Parser!Loosest>>])
    BY <1>2, ParserLevels, NextRoams DEF Enders
  <2> QED
    BY <2>1, ReaderStays DEF Parser!ReturnStatement
<1>3. Passes(tokens, s, Parser!ExpressionStatement(p, s))
  <2> DEFINE e == p[<<"Expression", s, Parser!Loosest>>]
             g == p[<<"Expression", Parser!Advanced(e), Parser!Loosest>>]
  <2>1. e \in Parser!States(tokens) /\ Passes(tokens, s, e)
    BY ParserLevels, PartsRoam
  <2>2. Parser!ExpressionStatement(p, s) = IF Parser!Code(e) = "Assign" THEN g ELSE e
    BY DEF Parser!ExpressionStatement, Parser!AfterLeft
  <2> HIDE DEF e
  <2>3. Parser!Code(e) = "Assign" => Passes(tokens, e, g)
    BY <2>1, ParserLevels, NextRoams DEF Enders
  <2> HIDE DEF g
  <2> QED
    BY <2>1, <2>2, <2>3, PassesThen
<1> QED
  BY <1>1, <1>2, <1>3

LEMMA IfMeans ==
  ASSUME NEW tokens, NEW p, Reads(tokens, p), Roams(tokens, p), Lists(tokens, p),
         NEW s \in Parser!States(tokens), Parser!Code(s) = "If"
  PROVE  Means(tokens, s, Parser!IfStatement(p, s))
<1> DEFINE a == Parser!Advanced(s)
           test == p[<<"Expression", a, Parser!Loosest>>]
           opened == Parser!Expect(test, "Then")
           body == p[<<"StatementList", opened, 0>>]
           over == Parser!Advanced(body)
           other == p[<<"StatementList", over, 0>>]
           rest == IF Parser!Code(body) = "Else" THEN other ELSE body
           r == Parser!Expect(rest, "End")
<1>1. Parser!IfStatement(p, s) = r
  BY DEF Parser!IfStatement, Parser!AfterThen
<1>2. s.pos \in Place /\ ~s.failed /\ Word(tokens, s.pos) = "If"
  BY ReaderWord
<1>3. a \in Parser!States(tokens) /\ a.pos = s.pos + 1
  BY ReaderStays
<1> HIDE DEF a
<1>4. test \in Parser!States(tokens) /\ Passes(tokens, a, test)
  BY <1>3, ParserLevels, PartsRoam
<1> HIDE DEF test
<1>5. opened \in Parser!States(tokens) /\ Passes(tokens, a, opened)
  <2>1. opened \in Parser!States(tokens) /\ Passes(tokens, test, opened)
    BY <1>4, ParserExpects, ReaderNext DEF Enders
  <2> QED
    BY <1>4, <2>1, PassesThen
<1> HIDE DEF opened
<1>6. /\ body \in Parser!States(tokens) /\ Means(tokens, a, body)
      /\ ~body.failed => Word(tokens, body.pos) \in Enders
  <2>1. /\ body \in Parser!States(tokens) /\ Means(tokens, opened, body)
        /\ ~body.failed => Word(tokens, body.pos) \in Enders
    BY <1>5, PartsRead DEF Lists
  <2> QED
    BY <1>5, <2>1, PassesMeans, MeansThen
<1> HIDE DEF body
<1>7. over \in Parser!States(tokens) /\ over.pos = body.pos + 1 /\ over.failed = body.failed
  BY <1>6, ReaderStays
<1> HIDE DEF over
<1>8. /\ other \in Parser!States(tokens) /\ Means(tokens, over, other)
      /\ ~other.failed => Word(tokens, other.pos) \in Enders
  BY <1>7, PartsRead DEF Lists
<1> HIDE DEF other
<1>9. rest \in Parser!States(tokens)
  BY <1>6, <1>8
<1>10. CASE rest.failed
  <2>1. Parser!Code(rest) = "failed"
    BY <1>9, <1>10, ReaderWord
  <2>2. r = rest
    BY <2>1 DEF Parser!Expect
  <2> HIDE DEF rest
  <2> QED
    BY <1>1, <1>2, <1>9, <1>10, <2>2, ReaderWord DEF Means
<1>11. CASE ~rest.failed
  <2>1. r.pos = PastEnd(tokens, rest.pos) /\ r.pos \in Place
    BY <1>9, <1>11, EndPassed
  <2> HIDE DEF r
  <2>2. CASE Parser!Code(body) = "Else"
    <3>1. rest = other
      BY <2>2
    <3>2. ~other.failed /\ ~over.failed /\ ~body.failed
      BY <1>7, <1>8, <1>11, <3>1 DEF Means
    <3>3. Word(tokens, body.pos) = "Else" /\ body.pos \in Place
      BY <1>6, <2>2, <3>2, ReaderWord
    <3>4. Meant(tokens, s.pos + 1, body.pos) /\ Meant(tokens, body.pos + 1, other.pos)
      BY <1>3, <1>6, <1>7, <1>8, <3>2 DEF Means
    <3>5. other.pos \in Place /\ Word(tokens, other.pos) \in Enders
      BY <1>8, <3>2 DEF Means
    <3> HIDE DEF rest
    <3>6. Meant(tokens, s.pos, PastEnd(tokens, other.pos))
      BY <1>2, <3>3, <3>4, <3>5, MeantIfElse
    <3> QED
      BY <1>1, <1>2, <2>1, <3>1, <3>6 DEF Means
  <2>3. CASE Parser!Code(body) # "Else"
    <3>1. rest = body
      BY <2>3
    <3> HIDE DEF rest
    <3>2. ~body.failed
      BY <1>11, <3>1
    <3>3. Word(tokens, body.pos) # "Else" /\ body.pos \in Place /\ Word(tokens, body.pos) \in Enders
      BY <1>6, <2>3, <3>2, ReaderWord
    <3>4. Meant(tokens, s.pos + 1, body.pos)
      BY <1>3, <1>6, <3>2 DEF Means
    <3>5. Meant(tokens, s.pos, PastEnd(tokens, body.pos))
      BY <1>2, <3>3, <3>4, MeantBlock
    <3> QED
      BY <1>1, <1>2, <2>1, <3>1, <3>5 DEF Means
  <2> QED
    BY <2>2, <2>3
<1> QED
  BY <1>10, <1>11

\* A function that has no name is broken, whatever is read after it.
LEMMA FunctionMeans ==
  ASSUME NEW tokens, NEW p, Reads(tokens, p), Roams(tokens, p), Lists(tokens, p),
         NEW s \in Parser!States(tokens), Parser!Code(s) = "Function"
  PROVE  Means(tokens, s, Parser!ParseUserDefinedFunction(p, s))
<1> DEFINE i == s.pos
           n == Parser!Named(s)
           q == Parser!Parameters(p, n)
           body == p[<<"StatementList", q, 0>>]
           r == Parser!AfterBody(body)
<1>1. Parser!ParseUserDefinedFunction(p, s) = r
  BY DEF Parser!ParseUserDefinedFunction
<1>2. i \in Place /\ ~s.failed /\ Word(tokens, i) = "Function"
  BY ReaderWord
<1>3. n \in Parser!States(tokens) /\ n.pos = (i + 1) + 1 /\ n.failed = s.failed
  <2> PICK a : a = Parser!Advanced(s)
    OBVIOUS
  <2>1. a \in Parser!States(tokens) /\ a.pos = i + 1 /\ a.failed = s.failed
    BY ReaderStays
  <2> PICK b : b = Parser!Advanced(a)
    OBVIOUS
  <2>2. b \in Parser!States(tokens) /\ b.pos = a.pos + 1 /\ b.failed = a.failed
    BY <2>1, ReaderStays
  <2>3. n = [b EXCEPT !.inFunction = TRUE]
    BY DEF Parser!Named
  <2>4. n \in Parser!States(tokens)
    BY ParserExpects
  <2> PICK yes : yes = TRUE
    OBVIOUS
  <2>5. [b EXCEPT !.inFunction = yes].pos = b.pos /\ [b EXCEPT !.inFunction = yes].failed = b.failed
    BY <2>2, ReaderStays
  <2> HIDE DEF n
  <2> QED
    BY <2>1, <2>2, <2>3, <2>4, <2>5
<1> HIDE DEF n
<1>4. q \in Parser!States(tokens) /\ Passes(tokens, n, q)
  BY <1>3, ReaderArgumentsPasses
<1> HIDE DEF q
<1>5. /\ body \in Parser!States(tokens) /\ Means(tokens, n, body)
      /\ ~body.failed => Word(tokens, body.pos) \in Enders
  <2>1. /\ body \in Parser!States(tokens) /\ Means(tokens, q, body)
        /\ ~body.failed => Word(tokens, body.pos) \in Enders
    BY <1>4, PartsRead DEF Lists
  <2> QED
    BY <1>4, <2>1, PassesMeans, MeansThen
<1> HIDE DEF body
<1>6. CASE body.failed
  <2>1. r = body
    BY <1>6 DEF Parser!AfterBody
  <2> QED
    BY <1>1, <1>2, <1>5, <1>6, <2>1 DEF Means
<1>7. CASE ~body.failed
  <2> PICK no \in BOOLEAN : no = FALSE
    OBVIOUS
  <2> DEFINE x == [body EXCEPT !.inFunction = no]
  <2>1. x \in Parser!States(tokens) /\ x.pos = body.pos /\ x.failed = body.failed
    BY <1>5, ReaderStays, ParserSteps
  <2>2. r = Parser!Expect(x, "End")
    BY <1>7 DEF Parser!AfterBody
  <2> HIDE DEF x, r
  <2>3. r.pos = PastEnd(tokens, body.pos) /\ r.pos \in Place
    BY <1>7, <2>1, <2>2, EndPassed
  <2>4. body.pos \in Place /\ Word(tokens, body.pos) \in Enders
        /\ Meant(tokens, (i + 1) + 1, body.pos)
    BY <1>3, <1>5, <1>7 DEF Means
  <2>5. CASE Word(tokens, i + 1) = "Identifier"
    <3>1. i + 1 \in Place /\ (i + 1) + 1 \in Place
      BY <1>2 DEF Place
    <3>2. Meant(tokens, i + 1, (i + 1) + 1)
      <4> PICK j \in Place : j = i + 1
        BY <3>1
      <4>1. j + 1 \in Place /\ j <= j + 1 /\ \A k \in j..((j + 1) - 1) : k = j
        BY <3>1 DEF Place
      <4>2. AllPlain(tokens, j, j + 1)
        BY <2>5, <4>1 DEF AllPlain, Plain, Enders
      <4> QED
        BY <4>1, <4>2, PlainPiece
    <3>3. Meant(tokens, i + 1, body.pos)
      BY <2>4, <3>1, <3>2, MeantThen
    <3>4. Meant(tokens, i, PastEnd(tokens, body.pos))
      BY <1>2, <2>4, <3>3, MeantBlock
    <3> QED
      BY <1>1, <1>2, <2>3, <3>4 DEF Means
  <2>6. CASE Word(tokens, i + 1) # "Identifier"
    <3>1. i <= r.pos
      BY <1>2, <2>3, <2>4 DEF PastEnd, Meant, Place
    <3>2. Broken(tokens, i)
      BY <1>2, <2>6 DEF Broken
    <3>3. \A j \in Place : i <= j => ~Unbroken(tokens, i, j)
      BY <1>2, <3>2 DEF Unbroken, Place
    <3>4. \A j \in i..(r.pos - 1) : j \in Place /\ i <= j
      BY <1>2, <2>3 DEF Place
    <3>5. Meant(tokens, i, r.pos)
      BY <2>3, <3>1, <3>3, <3>4 DEF Meant
    <3> QED
      BY <1>1, <1>2, <2>3, <3>5 DEF Means
  <2> QED
    BY <2>5, <2>6
<1> QED
  BY <1>6, <1>7

LEMMA ListMeans ==
  ASSUME NEW tokens, NEW p, Reads(tokens, p), Roams(tokens, p), Lists(tokens, p),
         NEW s \in Parser!States(tokens)
  PROVE  LET r == Parser!StatementList(p, s)
         IN  Means(tokens, s, r) /\ (~r.failed => Word(tokens, r.pos) \in Enders)
<1> DEFINE x == Parser!Statement(p, s)
           y == Parser!AfterSemicolon(x)
           z == Parser!MoreStatements(p, y)
<1>1. x \in Parser!States(tokens) /\ Means(tokens, s, x)
  <2>1. x \in Parser!States(tokens)
    BY IfRead, LetAndReturnRead, FunctionRead, ParserSteps DEF Parser!Statement
  <2>2. CASE Parser!Code(s) = "If"
    BY <2>1, <2>2, IfMeans DEF Parser!Statement
  <2>3. CASE Parser!Code(s) \in {"Return", "Let"}
    BY <2>1, <2>3, LetAndReturnMean, PassesMeans DEF Parser!Statement
  <2>4. CASE Parser!Code(s) = "Function"
    BY <2>1, <2>4, FunctionMeans DEF Parser!Statement
  <2>5. CASE Parser!Code(s) \in {"End", "EndofStream", "Error"}
    BY <2>1, <2>5, ReaderStays, PassesMeans DEF Parser!Statement
  <2>6. CASE Parser!Code(s) \notin {"If", "Return", "Let", "Function", "End", "EndofStream", "Error"}
    BY <2>1, <2>6, LetAndReturnMean, PassesMeans DEF Parser!Statement
  <2> QED
    BY <2>1, <2>2, <2>3, <2>4, <2>5, <2>6
<1> HIDE DEF x
<1>2. y \in Parser!States(tokens) /\ Means(tokens, s, y)
  <2>1. y \in Parser!States(tokens)
    BY <1>1, ParserExpects
  <2>2. Passes(tokens, x, y)
    BY <1>1, ReaderNext, ReaderStays DEF Parser!AfterSemicolon, Enders
  <2> QED
    BY <1>1, <2>1, <2>2, PassesMeans, MeansThen
<1> HIDE DEF y
<1>3. Means(tokens, s, z) /\ (~z.failed => Word(tokens, z.pos) \in Enders)
  <2>1. CASE Parser!Code(y) \in {"End", "Else", "EndofStream", "failed"}
    <3>1. z = y
      BY <2>1 DEF Parser!MoreStatements
    <3> QED
      BY <1>2, <2>1, <3>1, ReaderWord DEF Enders
  <2>2. CASE Parser!Code(y) \notin {"End", "Else", "EndofStream", "failed"}
    <3>1. z = p[<<"StatementList", y, 0>>]
      BY <2>2 DEF Parser!MoreStatements
    <3> HIDE DEF z
    <3>2. Means(tokens, y, z) /\ (~z.failed => Word(tokens, z.pos) \in Enders)
      BY <1>2, <3>1 DEF Lists
    <3> QED
      BY <1>2, <3>2, MeansThen
  <2> QED
    BY <2>1, <2>2
<1>4. Parser!StatementList(p, s) = z
  BY DEF Parser!StatementList, y, x
<1> HIDE DEF z
<1> QED
  BY <1>3, <1>4

-----------------------------------------------------------------------------
(* The descent of the parser, from its bottom.                             *)

ReadsOn(tokens, p) == Reads(tokens, p) /\ Roams(tokens, p) /\ Lists(tokens, p)

LEMMA BottomReadsOn ==
  ASSUME NEW tokens, NEW q
  PROVE  ReadsOn(tokens, ParserLevel(tokens, 0, q))
<1> DEFINE p == ParserLevel(tokens, 0, q)
<1>1. ASSUME NEW name \in Parser!Procedures, NEW s \in Parser!States(tokens), NEW n \in Nat
      PROVE  p[<<name, s, n>>] = Parser!Fail(s)
  <2>1. <<name, s, n>> \in Parser!Calls(tokens)
    BY DEF Parser!Calls
  <2> QED
    BY <2>1 DEF ParserLevel
<1>2. Reads(tokens, p)
  BY BottomReads
<1> HIDE DEF p
<1>3. 1..5 \subseteq Nat /\ 1..4 \subseteq Nat /\ 0 \in Nat
  OBVIOUS
<1>4. /\ {"Power", "PrimaryPlus", "ExpressionList", "FunctionArgumentList"} \subseteq Parser!Procedures
      /\ "Expression" \in Parser!Procedures /\ "Operands" \in Parser!Procedures
      /\ "StatementList" \in Parser!Procedures
  BY DEF Parser!Procedures
<1>5. ASSUME NEW s \in Parser!States(tokens), NEW name \in Parser!Procedures, NEW n \in Nat
      PROVE  /\ Passes(tokens, s, p[<<name, s, n>>]) /\ Means(tokens, s, p[<<name, s, n>>])
             /\ p[<<name, s, n>>].failed
  BY <1>1, ReaderStays, PassesMeans
<1>6. Roams(tokens, p)
  BY ONLY <1>3, <1>4, <1>5, Zenon DEF Roams
<1>7. Lists(tokens, p)
  BY ONLY <1>3, <1>4, <1>5 DEF Lists
<1> QED
  BY <1>2, <1>6, <1>7 DEF ReadsOn, p

LEMMA LevelReadsOn ==
  ASSUME NEW tokens, NEW k, k # 0, NEW q, ReadsOn(tokens, q)
  PROVE  ReadsOn(tokens, ParserLevel(tokens, k, q))
<1> DEFINE p == ParserLevel(tokens, k, q)
<1>1. ASSUME NEW s \in Parser!States(tokens), NEW n \in Nat
      PROVE  /\ p[<<"Expression", s, n>>] = Parser!Expression(q, s, n)
             /\ p[<<"Operands", s, n>>] = Parser!Operands(q, s, n)
             /\ p[<<"Power", s, n>>] = Parser!Power(q, s)
             /\ p[<<"PrimaryPlus", s, n>>] = Parser!PrimaryPlus(q, s)
             /\ p[<<"ExpressionList", s, n>>] = Parser!ExpressionList(q, s)
             /\ p[<<"FunctionArgumentList", s, n>>] = Parser!FunctionArgumentList(q, s)
             /\ p[<<"StatementList", s, n>>] = Parser!StatementList(q, s)
  <2>1. ASSUME NEW name \in Parser!Procedures
        PROVE  p[<<name, s, n>>] = Parser!Procedure(q, name, s, n)
    <3>1. <<name, s, n>> \in Parser!Calls(tokens)
      BY DEF Parser!Calls
    <3> QED
      BY <3>1 DEF ParserLevel
  <2> HIDE DEF p
  <2> QED
    BY <2>1 DEF Parser!Procedure, Parser!Procedures
<1>2. Reads(tokens, p)
  BY LevelReads DEF ReadsOn
<1> HIDE DEF p
<1>3. Reads(tokens, q) /\ Roams(tokens, q) /\ Lists(tokens, q)
  BY DEF ReadsOn
<1>4. Roams(tokens, p)
  <2> SUFFICES ASSUME NEW s \in Parser!States(tokens)
               PROVE  /\ \A n \in 1..5 : Passes(tokens, s, p[<<"Expression", s, n>>])
                      /\ \A n \in 1..4 : Passes(tokens, s, p[<<"Operands", s, n>>])
                      /\ \A name \in {"Power", "PrimaryPlus", "ExpressionList", "FunctionArgumentList"} :
                           Passes(tokens, s, p[<<name, s, 0>>])
    BY DEF Roams
  <2>1. ASSUME NEW n \in 1..5 PROVE Passes(tokens, s, p[<<"Expression", s, n>>])
    <3>1. n \in Nat
      OBVIOUS
    <3>2. p[<<"Expression", s, n>>] = Parser!Expression(q, s, n)
      BY <1>1, <3>1
    <3> QED
      BY <1>3, <3>2, ReaderExpressionPasses
  <2>2. ASSUME NEW n \in 1..4 PROVE Passes(tokens, s, p[<<"Operands", s, n>>])
    <3>1. n \in Nat
      OBVIOUS
    <3>2. p[<<"Operands", s, n>>] = Parser!Operands(q, s, n)
      BY <1>1, <3>1
    <3> QED
      BY <1>3, <3>2, ReaderOperandsPasses
  <2>3. /\ Passes(tokens, s, p[<<"Power", s, 0>>]) /\ Passes(tokens, s, p[<<"PrimaryPlus", s, 0>>])
        /\ Passes(tokens, s, p[<<"ExpressionList", s, 0>>])
        /\ Passes(tokens, s, p[<<"FunctionArgumentList", s, 0>>])
    <3> PICK z \in Nat : z = 0
      OBVIOUS
    <3>1. /\ p[<<"Power", s, z>>] = Parser!Power(q, s)
          /\ p[<<"PrimaryPlus", s, z>>] = Parser!PrimaryPlus(q, s)
          /\ p[<<"ExpressionList", s, z>>] = Parser!ExpressionList(q, s)
          /\ p[<<"FunctionArgumentList", s, z>>] = Parser!FunctionArgumentList(q, s)
      BY <1>1
    <3>2. /\ Passes(tokens, s, Parser!Power(q, s)) /\ Passes(tokens, s, Parser!PrimaryPlus(q, s))
          /\ Passes(tokens, s, Parser!ExpressionList(q, s))
          /\ Passes(tokens, s, Parser!FunctionArgumentList(q, s))
      BY <1>3, ReaderPowerPasses, ReaderCallPasses, ReaderArgumentsPasses
    <3> QED
      BY <3>1, <3>2
  <2> QED
    BY <2>1, <2>2, <2>3
<1>5. Lists(tokens, p)
  <2> SUFFICES ASSUME NEW s \in Parser!States(tokens)
               PROVE  LET r == p[<<"StatementList", s, 0>>]
                      IN  Means(tokens, s, r) /\ (~r.failed => Word(tokens, r.pos) \in Enders)
    BY DEF Lists
  <2>1. p[<<"StatementList", s, 0>>] = Parser!StatementList(q, s)
    BY <1>1
  <2> QED
    BY <1>3, <2>1, ListMeans
<1> QED
  BY <1>2, <1>4, <1>5 DEF ReadsOn, p

LEMMA DescentReadsOn ==
  ASSUME NEW tokens, Len(tokens) \in Nat
  PROVE  ReadsOn(tokens, Parser!Descent(tokens))
<1> DEFINE N == Parser!Depth(tokens)
<1>1. N \in Nat
  BY DEF Parser!Depth
<1>2. PICK u : ParserDescends(tokens, N, u) /\ Parser!Descent(tokens) = u[N]
  BY ParserDescentDefined
<1> HIDE DEF N
<1> DEFINE Good == {k \in 0..N : ReadsOn(tokens, u[k])}
<1>3. \A k \in 0..N : u[k] = ParserLevel(tokens, k, u[k - 1])
  BY <1>2 DEF ParserDescends
<1>4. 0 \in Good
  <2>1. 0 \in 0..N /\ u[0] = ParserLevel(tokens, 0, u[0 - 1])
    BY <1>1, <1>3
  <2> PICK q : q = u[0 - 1]
    OBVIOUS
  <2>2. ReadsOn(tokens, ParserLevel(tokens, 0, q))
    BY BottomReadsOn
  <2> QED
    BY <2>1, <2>2
<1>5. ASSUME NEW k \in 0..(N - 1), k \in Good PROVE k + 1 \in Good
  <2> PICK n : n = k + 1
    OBVIOUS
  <2>1. n \in 0..N /\ n # 0 /\ n - 1 = k
    BY <1>1
  <2>2. u[n] = ParserLevel(tokens, n, u[k])
    BY <1>3, <2>1
  <2>3. ReadsOn(tokens, u[k])
    BY <1>5
  <2> PICK q : q = u[k]
    OBVIOUS
  <2>4. ReadsOn(tokens, ParserLevel(tokens, n, q))
    BY <2>1, <2>3, LevelReadsOn
  <2> QED
    BY <2>1, <2>2, <2>4
<1>6. N \in Good
  <2>1. N \in 0..N /\ \A k \in 0..(N - 1) : k \in Good => k + 1 \in Good
    BY <1>1, <1>5
  <2> HIDE DEF Good
  <2> QED
    BY <1>1, <1>4, <2>1, InductionUpTo
<1> QED
  BY <1>2, <1>6

\* What the parser accepts of a source is meant, as far as it reads.
LEMMA CheckedMeans ==
  ASSUME NEW tokens, Len(tokens) \in Nat
  PROVE  LET r == Parser!Checked(tokens)
         IN  ~r.failed => Meant(tokens, 1, r.pos) /\ Word(tokens, r.pos) \in Enders
<1> DEFINE s == Parser!Start(tokens)
<1>1. s \in Parser!States(tokens) /\ s.pos = 1 /\ ~s.failed
  BY DEF Parser!Start, Parser!States
<1> HIDE DEF s
<1> PICK p : p = Parser!Descent(tokens)
  OBVIOUS
<1> DEFINE d == p[<<"StatementList", s, 0>>]
<1>2. Means(tokens, s, d) /\ (~d.failed => Word(tokens, d.pos) \in Enders)
  BY <1>1, DescentReadsOn DEF ReadsOn, Lists
<1>3. Parser!Checked(tokens) = IF Parser!Code(s) = "EndofStream" THEN s ELSE d
  BY DEF Parser!Checked, s
<1> HIDE DEF d
<1>4. CASE Parser!Code(s) = "EndofStream"
  <2>1. Meant(tokens, s.pos, s.pos)
    BY <1>1, ReaderStays, PassesMeans DEF Means
  <2> QED
    BY <1>1, <1>3, <1>4, <2>1, ReaderWord DEF Enders
<1>5. CASE Parser!Code(s) # "EndofStream"
  BY <1>1, <1>2, <1>3, <1>5 DEF Means
<1> QED
  BY <1>4, <1>5

-----------------------------------------------------------------------------
(* The two descents end at the same token.                                 *)

\* The table has the words that the parser has read.
LEMMA TableWords ==
  ASSUME NEW tokens \in Seq(Tokens), NEW s \in Parser!States(tokens)
  PROVE  \A j \in 1..s.pos : Word(Parser!Table(s), j) = Word(tokens, j)
<1> DEFINE n == IF s.pos <= Len(s.tokens) THEN s.pos ELSE Len(s.tokens)
           table == Parser!Table(s)
<1>1. s.tokens = tokens /\ s.pos \in Nat \ {0} /\ Len(tokens) \in Nat
  BY LenProperties DEF Parser!States
<1>2. n \in 0..Len(tokens) /\ \A j \in 1..s.pos : j <= n <=> j <= Len(tokens)
  BY <1>1
<1>3. table = SubSeq(tokens, 1, n)
  BY <1>1 DEF Parser!Table
<1> HIDE DEF n, table
<1>4. Len(table) = n /\ \A j \in 1..n : table[j] = tokens[j]
  BY <1>1, <1>2, <1>3
<1>5. ASSUME NEW j \in 1..s.pos PROVE Word(table, j) = Word(tokens, j)
  BY <1>1, <1>2, <1>4 DEF Word
<1> QED
  BY <1>5 DEF table

\* A module is made of all the tokens that were checked: where both descents
\* accept a source, they end at the same token, whatever the parser passed over
\* (SyntaxParser.cpp expects without checking, TByteCodeBuilder.cpp throws).
THEOREM CompilationSameExtent == ASSUME SourcesScanned PROVE CompilationSpec => []SameExtent
<1>1. ASSUME CompilationInv PROVE SameExtent
  <2> SUFFICES ASSUME phase = "built" PROVE builder.pos = parser.pos
    BY DEF SameExtent
  <2> PICK tokens : tokens = parser.tokens
    OBVIOUS
  <2>1. tokens \in Seq(Tokens) /\ Len(tokens) \in Nat /\ Table \in Seq(Tokens)
    BY <1>1, TableScanned, LenProperties DEF CompilationInv, SourcesScanned
  <2>2. builder = Generated(Table) /\ ~builder.failed
    BY <1>1 DEF CompilationInv
  <2>3. /\ parser \in Parser!States(tokens) /\ parser = Parser!Checked(tokens)
        /\ ~parser.failed
    BY <1>1 DEF CompilationInv
  <2>4. /\ builder.pos \in Place /\ Closed(Table, 1, builder.pos)
        /\ Word(Table, builder.pos) \in Enders
    BY <2>1, <2>2, GeneratedCloses
  <2>5. /\ parser.pos \in Place /\ Meant(tokens, 1, parser.pos)
        /\ Word(tokens, parser.pos) \in Enders
    BY <2>1, <2>3, CheckedMeans, ReaderWord
  <2>6. \A j \in 1..parser.pos : Word(Table, j) = Word(tokens, j)
    BY <2>1, <2>3, TableWords DEF Table
  <2> QED
    BY <2>4, <2>5, <2>6, SameEnd
<1> QED
  BY <1>1, CompilationInvariant, PTL
=============================================================================
