-------------------------------- MODULE Repl --------------------------------
(***************************************************************************)
(* Sessions of the REPL, and what they should answer.  The lines are those *)
(* of well-formed programs, and these with a token removed, put in or      *)
(* replaced.                                                               *)
(***************************************************************************)
EXTENDS Session, MonkeyLanguage

CONSTANTS Lines,      \* the syntax trees of the lines
          Alphabet,   \* the types of the tokens that an edit may put in
          MaxLines    \* the bound on the lines read in a session

ASSUME ReplAssumption == MaxLines \in Nat

\* The lines as they are written, and the trees they were written from.
Texts == [line \in Lines |-> LineTokens(line)]
TreeOf(tokens) == CHOOSE line \in Lines : Texts[line] = tokens

\* Tokens an edit puts in; names and numbers are those the lines use.
Written(c) == IF c = "Ident" THEN TokOf(c, "a") ELSE IF c = "Int" THEN TokOf(c, 1) ELSE Tok(c)
EditsOf(tokens) ==
  UNION {{RemoveAt(tokens, i)} \cup {InsertAt(tokens, i, Written(c)[1]) : c \in Alphabet}
         \cup {ReplaceAt(tokens, i, Written(c)[1]) : c \in Alphabet} : i \in DOMAIN tokens}
TextsAndEdits == UNION {{Texts[line]} \cup EditsOf(Texts[line]) : line \in Lines}

\* Whether the session has well-formed lines only.
AllKnown == \A i \in DOMAIN inputs : inputs[i] \in Range(Texts)

\* An edited line is the only one of its session, and a whole one.
ReadEditedLine == inputs = <<>> /\ ReadLine /\ ~exhausted'
ReadKnownLine ==
  /\ Len(inputs) < MaxLines /\ AllKnown
  /\ \E line \in Lines : Reads(Texts[line])
ReadLineAgain == Len(inputs) < MaxLines /\ ReadSameLine

\* The session stops, or has read as many lines as the bound lets it.
Ended ==
  /\ Stopped \/ (phase = "reading" /\ exhausted /\ Len(inputs) = MaxLines)
  /\ UNCHANGED vars

Next == \/ ReadEditedLine \/ ReadKnownLine \/ ReadNothing \/ ReadLineAgain \/ ReadTooLong
        \/ Parse \/ Eval \/ Evaluation \/ Answer \/ Ended

\* The loop waits for nothing but its input, and the input comes to an end.
GoesOn == phase \in {"read", "parsed", "evaluated"} /\ phase' \in Phases \ {phase}
Fairness == WF_phase(GoesOn) /\ WF_vars(Evaluation) /\ WF_vars(ReadNothing)
Spec == Init /\ [][Next]_vars /\ Fairness

-----------------------------------------------------------------------------
(* Properties.                                                             *)

\* What can be written for the parser: no call lacks arguments or has a first
\* one that begins with a parenthesis, and no literal is too large.
Speakable(line) ==
  \A n \in NodesOf(Program(line), MaxDepth, {}) :
    CASE n.kind = "Call" -> /\ n.arguments # <<>>
                            /\ Head(ExprTokens(n.arguments[1], 1)).type # "LParen"
      [] n.kind = "IntegerLiteral" -> n.n < IntLimit
      [] OTHER -> TRUE
Speaks == [line \in Lines |-> Speakable(line)]

\* The parser makes of a line the tree it was written from: the precedences
\* group it as the language does, and no part is lost or taken twice.
TreesAsWritten ==
  [][Parse /\ AllKnown /\ Speaks[TreeOf(input)] =>
       phase' = "parsed" /\ program' = TreeOf(input)]_vars

\* A session of lines that mean something answers each with its meaning, after
\* errors, redefinitions and refused lines as well: names are found in the
\* scope a function was written in, at the value they have by then.
Meaning ==
  LET read == [i \in DOMAIN inputs |-> TreeOf(inputs[i])]
  IN  SessionMeaning(SelectSeq(read, LAMBDA line : Speaks[line]))
Agrees(object, value) ==
  /\ object.type = value.type
  /\ CASE value.type = "Integer" -> object.v = value.v
       [] value.type = "Boolean" -> object.b = value.b
       [] value.type = "Function" -> /\ object.parameters = value.parameters
                                     /\ object.body = value.body
       [] OTHER -> TRUE
AnswersAsMeant ==
  AllKnown /\ phase \in {"evaluated", "crashed"} =>
    LET meant == Meaning.value
    IN  meant # Undefined =>
          IF phase = "evaluated" THEN Agrees(memory.object, meant)
                                 ELSE memory.fate \in {"printing", "depth"}

\* A session whose input does not end in the middle of a line comes to an end.
SessionEnds == <>(Stopped \/ exhausted)
=============================================================================
