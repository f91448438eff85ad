---------------------------- MODULE Compilation ----------------------------
(***************************************************************************)
(* The compiler at work on any source, as testVM of src/tests/vm.t.cpp     *)
(* drives it: a source that the syntax parser refuses goes no further, one *)
(* it lets through goes to the code generator, which may still throw.      *)
(***************************************************************************)
EXTENDS Compiler

CONSTANT Sources    \* sequences of tokens, well formed or not

\* The scanner gives a name the letters it has, a number its value.
SourcesScanned == \A tokens \in Sources : tokens \in Seq(Tokens)

VARIABLES phase,    \* how far the driver is, or how it stopped
          parser,   \* the syntax parser, at the token it is at
          builder   \* the code generator, likewise

compilation == <<phase, parser, builder>>

CompilationInit ==
  /\ phase = "scanned"
  /\ \E tokens \in Sources : parser = Parser!Start(tokens)
  /\ builder = Start(<<>>)

\* checkSyntaxParserErrors() stops the driver at a syntax error.
SyntaxCheck ==
  /\ phase = "scanned"
  /\ parser' = Parser!Checked(parser.tokens)
  /\ phase' = IF parser'.failed THEN "refused" ELSE "checked"
  /\ UNCHANGED builder

Table == Parser!Table(parser)

Generate ==
  /\ phase = "checked"
  /\ builder' = Generated(Table)
  /\ phase' = IF builder'.failed THEN "thrown" ELSE "built"
  /\ UNCHANGED parser

CompilationEnded == phase \in {"refused", "thrown", "built"} /\ UNCHANGED compilation

CompilationNext == SyntaxCheck \/ Generate \/ CompilationEnded
CompilationSpec == CompilationInit /\ [][CompilationNext]_compilation

-----------------------------------------------------------------------------

Built == Module(builder)

\* What is built is a module the machine can be given: its instructions name
\* symbols and constants that its tables have.
CompilationTypeOK ==
  /\ phase \in {"scanned", "refused", "checked", "thrown", "built"}
  /\ parser.pos \in Nat \ {0} /\ builder.pos \in Nat \ {0}
  /\ phase = "built" => IsModule(Built)

\* Whatever the two let through, the code that comes out keeps the discipline
\* of the machine, in every module whose functions have a return of their own.
BuiltDisciplined == phase = "built" => KeepsDiscipline(builder)

\* No loop comes out, whatever goes in: a program ends unless it calls itself.
BuiltForward == phase = "built" => GoesForward(Built)

\* The two descents agree on where a program ends: what is built was generated
\* from all the tokens that were checked, although the parser passes over
\* tokens that are missing and the generator reads with rules of its own.
SameExtent == phase = "built" => builder.pos = parser.pos
=============================================================================
