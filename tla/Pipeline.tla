------------------------------ MODULE Pipeline ------------------------------
(***************************************************************************)
(* From source to result, as the drivers of src/tests/vm.t.cpp and         *)
(* src/app/benchmarks run a program: its tokens are checked and compiled   *)
(* to a new module, and a new machine runs the module.                     *)
(***************************************************************************)
EXTENDS CallRefinement, Progress, DaewooLanguage

CONSTANT Programs    \* the syntax trees of the programs

Compiler == INSTANCE Compiler

ASSUME ProgramsAssumption == \A p \in Programs : ProgramTokens(p) \in Seq(Compiler!Tokens)

\* The module remembers the program it is compiled from.
CompiledModules == UNION {Compiler!Compiled(ProgramTokens(p), p) : p \in Programs}

\* Where the last expression statement leaves its value.
Result == slots[stackTop]

\* The symbol table has a symbol for each name in the order they are defined:
\* a variable has its value, and no other symbol is touched.
StoredAsMeant(variables) ==
  LET names == NamesOf(module.source)
  IN  \A i \in DOMAIN names :
        symbols[i - 1] = IF names[i] \in DOMAIN variables THEN variables[names[i]]
                         ELSE module.symbols[i - 1]

\* A program whose values are ints and booleans, and that stays within the
\* stack, ends as the language says: with the value of its last expression
\* statement on top of the stack, or with an exception when it has no meaning.
\* Either way each variable of the symbol table has the value that was stored
\* last, and the variables that no statement reached have none.
RunsAsMeant ==
  status \in {"halted", "error"} =>
    LET meant == Meaning(module.source)
    IN  /\ meant.result = IF status = "halted" THEN Result ELSE Err
        /\ StoredAsMeant(meant.variables)

\* Whether the program defines no function inside another, and stores to no
\* name of a function: what the code generator does with those is not sound.
RECURSIVE StatementsOf(_)
StatementsOf(block) ==
  UNION {IF block[i].kind = "if"
         THEN StatementsOf(block[i].s) \cup StatementsOf(block[i].t)
         ELSE {block[i]} : i \in DOMAIN block}
FunctionsOf(block) == {s \in StatementsOf(block) : s.kind = "fn"}
FunctionNames(p) == {d.f : d \in FunctionsOf(p)}
StoresTo(block) == {s.x : s \in {t \in StatementsOf(block) : t.kind \in {"let", "assign"}}}
Plain(p) ==
  /\ \A d \in FunctionsOf(p) : FunctionsOf(d.body) = {}
  /\ StoresTo(p) \cap FunctionNames(p) = {}

\* The code generator checks nothing on the stack, and the machine relies on
\* it: the code of every plain program keeps the stack discipline, whatever
\* the branches, returns and calls it is made of.
KeepsDiscipline == Plain(module.source) => RunsDisciplined

\* run() checks neither its place in the code nor the stack, and so it relies
\* on the generator to end the code of every function with a return, in case
\* the function's own statements reach no other: a plain program runs off no
\* code and reads nothing below its stack, whatever its functions return, the
\* values it computes with, and however few slots and frames there are.
PlainStaysInside == Plain(module.source) => status # "wild"
=============================================================================
