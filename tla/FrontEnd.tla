------------------------------ MODULE FrontEnd ------------------------------
(***************************************************************************)
(* The readers of the token table: the code generator, as testVM of        *)
(* src/tests/vm.t.cpp drives it (Compilation), or the tree builder, as the *)
(* tests of src/tests/parser.t.cpp do.                                     *)
(*                                                                         *)
(* The sources are the tokens of well-formed programs, and these with a    *)
(* token removed, put in or replaced.                                      *)
(***************************************************************************)
EXTENDS Compilation, DaewooTrees

CONSTANTS Programs,   \* the syntax trees of the well-formed programs
          Alphabet    \* the codes of the tokens that an edit may put in

VARIABLES construction,  \* whether the tree builder has been called, and its end
          trees          \* the tree builder

Trees == INSTANCE ASTBuilder

ASSUME SourcesAssumption == SourcesScanned

vars == <<phase, parser, builder, construction, trees>>

-----------------------------------------------------------------------------

\* A token that an edit puts in; names and numbers are those programs use.
Written(c) == IF c = "Identifier" THEN Token(c, "p")
              ELSE IF c = "Integer" THEN Token(c, 1) ELSE Token(c, 0)

Edits(tokens) ==
  UNION {{RemoveAt(tokens, i)} \cup
         {InsertAt(tokens, i, Written(c)) : c \in Alphabet} \cup
         {ReplaceAt(tokens, i, Written(c)) : c \in Alphabet} : i \in DOMAIN tokens}

WellFormed == {ProgramTokens(p) : p \in Programs}
EditedSources == WellFormed \cup UNION {Edits(tokens) : tokens \in WellFormed}

Init ==
  /\ CompilationInit
  /\ construction = "none"
  /\ trees = Trees!Start(<<>>, FALSE)

Compile ==
  /\ construction = "none" /\ CompilationNext
  /\ UNCHANGED <<construction, trees>>

\* Either order of the arguments that the compiler may choose.
Construct(rightFirst) ==
  /\ phase = "checked" /\ construction = "none"
  /\ trees' = Trees!Built(Table, rightFirst)
  /\ construction' = CASE trees'.endless -> "endless"
                       [] trees'.failed /\ ~trees'.endless -> "thrown"
                       [] OTHER -> "constructed"
  /\ UNCHANGED <<phase, parser, builder>>

Constructed == construction # "none" /\ UNCHANGED vars

Next == Compile \/ (\E r \in BOOLEAN : Construct(r)) \/ Constructed
Spec == Init /\ [][Next]_vars

-----------------------------------------------------------------------------

\* Whether the source is a program of the grammar.
Intact == parser.tokens \in WellFormed

\* Every program the grammar has is checked without an error and built: the
\* descents, written apart, all take the whole language.
LanguageAccepted ==
  Intact => phase \notin {"refused", "thrown"} /\ construction \notin {"thrown", "endless"}

\* The parser takes any token for the name of a function.
Nameless ==
  LET read == trees.tokens
  IN  \E i \in DOMAIN read : /\ read[i].code = "Function"
                             /\ i = Len(read) \/ read[i + 1].code # "Identifier"

\* The tree builder ends where the parser did, as the code generator does,
\* unless a function has no name: a tree is made of all the tokens checked.
TreeExtent ==
  construction = "constructed" /\ ~trees.rightFirst /\ ~Nameless => trees.pos = parser.pos

\* Where the factor is read before what follows it, the tree of a program of
\* the grammar is the one its syntax has.
AsWritten == \E p \in Programs : /\ parser.tokens = ProgramTokens(p)
                                /\ trees.node = TreeOf(p)
TreeAsWritten ==
  construction = "constructed" /\ Intact /\ ~trees.rightFirst => AsWritten

\* A list of statements that never ends, as the one at hand reads no token, is
\* met only in a source with a function that has no name, of those the parser
\* let through (with the factor read first).
TreeBuilderEnds == construction = "endless" /\ ~trees.rightFirst => Nameless

\* TByteCodeBuilder.hpp: the generator "assumes that the code is valid.
\* SyntaxAnalysis is responsible for this", so that it meets no syntax error.
SyntaxAnalysisResponsible == phase # "thrown"

\* ASTBuilder.cpp, of primary(): "primary => factor primaryPlus".
PrimaryInOrder == construction = "constructed" /\ Intact => AsWritten
=============================================================================
