------------------------------ MODULE Compiler ------------------------------
(***************************************************************************)
(* The compiler of the machine language, as the drivers of                 *)
(* src/tests/vm.t.cpp and src/app/benchmarks put it together: the code     *)
(* generator builds a module from the table that the syntax parser filled  *)
(* with the tokens it read.                                                *)
(***************************************************************************)
EXTENDS ByteCodeBuilder, CodeDiscipline

Parser == INSTANCE SyntaxParser

\* The modules that tokens compile to: one, or none where the parser returns
\* an error or the generator throws.
Compiled(tokens, source) ==
  LET checked == Parser!Checked(tokens)
      built == Generated(Parser!Table(checked))
  IN  IF checked.failed \/ built.failed THEN {} ELSE {ModuleOf(built, source)}

-----------------------------------------------------------------------------
(* What the generator promises of the module it leaves: the machine checks *)
(* no access to its stack, and relies on it.                               *)

\* The program a module comes from says nothing of its code.
Module(s) == ModuleOf(s, <<>>)

\* Whatever the branches, returns, calls and operands, the code of a module
\* that is ordinary keeps the discipline of the machine.
KeepsDiscipline(s) == Ordinary(Module(s)) => Disciplined(Module(s))
=============================================================================
