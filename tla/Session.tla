------------------------------- MODULE Session -------------------------------
(***************************************************************************)
(* The loop of src/src/repl.cpp: it reads a line, parses it and, when that *)
(* gave no error, evaluates it in the one environment of the session and   *)
(* prints what came out.  A line is the tokens the lexer cuts it into; the *)
(* input ends after a whole line or in the middle of one.                  *)
(***************************************************************************)
EXTENDS MonkeyEval, MonkeyParser

CONSTANT Inputs   \* the lines that may be typed, as tokens

\* A name has its text for a literal, a number its value.
IsLine(tokens) ==
  /\ Len(tokens) \in Nat /\ DOMAIN tokens = 1..Len(tokens)
  /\ \A i \in DOMAIN tokens :
       /\ tokens[i].type \in STRING \ {"Eof"}
       /\ tokens[i].type = "Int" => tokens[i].literal \in Nat
       /\ tokens[i].type # "Int" => tokens[i].literal \in STRING
ASSUME SessionAssumption ==
  IntLimit \in Nat /\ MaxDepth \in Nat \ {0} /\ \A tokens \in Inputs : IsLine(tokens)

VARIABLES phase,      \* how far the loop is, or how it stopped
          input,      \* the tokens of the line in input
          exhausted,  \* whether std::cin met its end: it reads nothing more
          program,    \* the statements that were parsed
          memory,     \* the environments, the pending calls, the last object
          inputs,     \* history: the lines read
          before      \* history: the environments when the last evaluation began

vars == <<phase, input, exhausted, program, memory, inputs, before>>

-----------------------------------------------------------------------------

Init ==
  /\ phase = "reading" /\ input = <<>> /\ exhausted = FALSE /\ program = <<>>
  /\ memory = Fresh /\ inputs = <<>> /\ before = Fresh.envs

\* std::getline reads a line, which the end of the input may end as well.
Reads(tokens) ==
  /\ phase = "reading" /\ ~exhausted
  /\ input' = tokens
  /\ exhausted' \in BOOLEAN
  /\ phase' = "read"
  /\ inputs' = Append(inputs, tokens)
  /\ UNCHANGED <<program, memory, before>>
ReadLine == \E tokens \in Inputs : Reads(tokens)

\* An empty line ends the loop; so does the end of the input after a whole line.
\* Mutant: an empty line is passed over.
ReadNothingAgain ==
  /\ phase = "reading" /\ ~exhausted
  /\ input' = <<>>
  /\ UNCHANGED <<phase, exhausted, program, memory, inputs, before>>
ReadNothing ==
  /\ phase = "reading" /\ ~exhausted
  /\ input' = <<>>
  /\ exhausted' \in BOOLEAN
  /\ phase' = "ended"
  /\ UNCHANGED <<program, memory, inputs, before>>

\* Past its end std::getline fails before it clears the string: the line that
\* the end of the input cut off is there again.
ReadSameLine ==
  /\ phase = "reading" /\ exhausted
  /\ phase' = "read"
  /\ inputs' = Append(inputs, input)
  /\ UNCHANGED <<input, exhausted, program, memory, before>>

\* The constructor of the lexer throws on a line of more characters than its
\* positions count, and reading the line's tokens does at a name or a number of
\* more than a length counts; nothing catches.  No tokens stand for such a line.
ReadTooLong ==
  /\ phase = "reading" /\ ~exhausted
  /\ input' = <<>>
  /\ exhausted' \in BOOLEAN
  /\ phase' = "thrown"
  /\ UNCHANGED <<program, memory, inputs, before>>

\* std::stoi throws, and nothing catches; errors are printed and the line left.
Parse ==
  /\ phase = "read"
  /\ LET parsed == ParseProgram(input)
     IN  IF parsed.thrown THEN phase' = "thrown" /\ program' = <<>>
         ELSE IF parsed.errors THEN phase' = "reading" /\ program' = <<>>
         ELSE phase' = "parsed" /\ program' = parsed.node
  /\ UNCHANGED <<input, exhausted, memory, inputs, before>>

\* Eval() of a line, in the environment of the session, and what the innermost
\* of the calls of evaluate() does next, to the last of them.
Eval ==
  /\ phase = "parsed"
  /\ memory' = Evaluate(memory, Program(program), Global)
  /\ before' = memory.envs
  /\ phase' = "evaluating"
  /\ UNCHANGED <<input, exhausted, program, inputs>>
Evaluation ==
  /\ phase = "evaluating"
  /\ memory' = Proceed(memory)
  /\ phase' = CASE memory'.fate # "well" -> "crashed"
                [] memory'.fate = "well" /\ memory'.running # <<>> -> "evaluating"
                [] memory'.fate = "well" /\ memory'.running = <<>> -> "evaluated"
  /\ UNCHANGED <<input, exhausted, program, inputs, before>>

\* A result that is no object is not printed.
Answer ==
  /\ phase = "evaluated"
  /\ LET printed == memory.object = NullObject \/ Inspectable(memory.object)
     IN  /\ phase' = IF printed THEN "reading" ELSE "crashed"
         /\ memory' = [memory EXCEPT !.object = NullObject,
                                     !.fate = IF printed THEN @ ELSE "printing"]
  /\ program' = <<>>
  /\ UNCHANGED <<input, exhausted, inputs, before>>

Stopped == phase \in {"ended", "thrown", "crashed"}

SessionNext ==
  ReadLine \/ ReadNothing \/ ReadSameLine \/ ReadTooLong \/ Parse \/ Eval \/ Evaluation \/ Answer
SessionSpec == Init /\ [][SessionNext]_vars

-----------------------------------------------------------------------------
(* Properties.                                                             *)

\* Every environment but the one of the session is inside an older one, so
\* that a look-up ends; names are bound to objects that are there and are no
\* errors, and the functions among them know an environment that exists.
Phases == {"reading", "read", "parsed", "evaluating", "evaluated", "ended", "thrown", "crashed"}
Known(object) ==
  CASE object.type = "Function" -> object.env \in DOMAIN memory.envs
    [] OTHER -> object.type \in {"Integer", "Boolean", "Null", "Return"}
TypeOK ==
  /\ phase \in Phases /\ exhausted \in BOOLEAN
  /\ memory.fate # "well" <=> phase = "crashed"
  /\ phase # "crashed" => (memory.running # <<>> <=> phase = "evaluating")
  /\ Len(memory.running) <= MaxDepth
  /\ \A e \in DOMAIN memory.envs :
       /\ memory.envs[e].outer \in 0..(e - 1) /\ (memory.envs[e].outer = 0 <=> e = Global)
       /\ \A x \in DOMAIN memory.envs[e].repo : Known(memory.envs[e].repo[x])

\* Where a node could not be made an error was recorded: no tree that is
\* evaluated has a null pointer where the evaluator follows one, whatever the
\* line was.
NoHoles ==
  /\ phase = "parsed" => Nullptr \notin NodesOf(Program(program), MaxDepth, {})
  /\ memory.fate # "hole"

\* What a function binds while it runs stays with that call: a line changes no
\* global but those its own lets bind, the ones in no function, and the
\* environments that closures keep from earlier lines stay as they were.
LetsOf(n) == {y.name : y \in {z \in NodesOf(n, MaxDepth, {"Function"}) : z.kind = "Let"}}
CallsLeaveNoTrace ==
  phase \in {"evaluating", "evaluated"} =>
    \A e \in DOMAIN before :
      LET was == before[e].repo
          is == memory.envs[e].repo
      IN  \A x \in DOMAIN was \cup DOMAIN is :
            \/ /\ x \in DOMAIN was /\ x \in DOMAIN is
               /\ is[x] = was[x]
            \/ e = Global /\ x \in LetsOf(Program(program))

\* A null pointer comes from a block without statements only: in a session
\* whose lines had none no evaluation follows it.
BlockIsEmpty(tokens, i) ==
  /\ tokens[i].type = "LBrace"
  /\ i < Len(tokens) => tokens[i + 1].type = "RBrace"
HasEmptyBlock(tokens) == \E i \in DOMAIN tokens : BlockIsEmpty(tokens, i)
NothingFromEmptyBlocks ==
  memory.fate = "nothing" => \E l \in DOMAIN inputs : HasEmptyBlock(inputs[l])

\* The text of a function reads the first of the parameters and arguments in
\* its body without a test.  An answer that cannot be printed comes from a
\* function written without parameters, from what is taken for a call without
\* arguments, from an empty block inside a return, or is nested too deep: no
\* other line may lead to it, however the lines before were parsed and bound.
EmptyListAt(tokens, i) ==
  /\ tokens[i].type = "LParen" /\ i \in 2..(Len(tokens) - 1)
  /\ tokens[i + 1].type = IF tokens[i - 1].type = "Function" THEN "RParen" ELSE "LParen"
HasEmptyList(tokens) == \E i \in DOMAIN tokens : EmptyListAt(tokens, i)
PrintedUnlessEmpty ==
  phase = "evaluated" /\ memory.object # NullObject =>
    \/ Inspectable(memory.object) \/ NestedTooDeep(memory.object)
    \/ /\ Inspected(memory.object) = NullObject
       /\ \E l \in DOMAIN inputs : HasEmptyBlock(inputs[l])
    \/ /\ Inspected(memory.object).type = "Function"
       /\ \E l \in DOMAIN inputs : HasEmptyList(inputs[l])
=============================================================================
