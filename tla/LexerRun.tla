------------------------------ MODULE LexerRun ------------------------------
(***************************************************************************)
(* The lexer of the interpreted language, class Lexer of src/src/lexer.cpp, *)
(* at work on any input: nextToken() is called again and again, past the   *)
(* end of the input too, where it is to make the token of the end.         *)
(***************************************************************************)
EXTENDS Integers, Sequences, Characters

CONSTANTS Texts,                  \* the inputs, sequences of characters
          MaxTokens,              \* the calls of nextToken()
          BufferMax, LengthMax    \* see MonkeyLexer

Monkey == INSTANCE MonkeyLexer

ASSUME TextsAssumption == Texts \subseteq Seq(STRING)
ASSUME CallsAssumption == MaxTokens \in Nat
\* A sign of two characters has a length.
ASSUME WidthsAssumption == BufferMax \in Nat /\ LengthMax \in Nat /\ LengthMax >= 2

VARIABLES reader,  \* the lexer
          tokens   \* the tokens it made

lexerVars == <<reader, tokens>>

LexerInit(texts) ==
  /\ \E text \in texts : reader = Monkey!Start(text)
  /\ tokens = <<>>

LexerNextToken ==
  /\ ~reader.failed /\ Len(tokens) < MaxTokens
  /\ reader' = Monkey!NextToken(reader)
  /\ tokens' = IF reader'.failed THEN tokens ELSE Append(tokens, reader'.token)

LexerStopped == reader.failed \/ Len(tokens) = MaxTokens
LexerEnded == LexerStopped /\ UNCHANGED lexerVars

LexerNext == LexerNextToken \/ LexerEnded
LexerSpec == LexerInit(Texts) /\ [][LexerNext]_lexerVars

-----------------------------------------------------------------------------

\* Positions and lengths fit their types.
LexerTypeOK ==
  /\ {reader.position, reader.readPosition} \subseteq 0..BufferMax
  /\ reader.failed \in BOOLEAN
  /\ tokens \in Seq([type : Monkey!Type, position : 0..BufferMax, length : 0..LengthMax])
  /\ Len(tokens) <= MaxTokens

\* The characters of the text from p up to q are all in that set.
Char(text, p) == Monkey!CharAt(text, p)
Within(text, p, q, set) == \A i \in p..(q - 1) : Char(text, i) \in set

\* Where the lexer looks for the i-th token: behind the one before it, or past
\* the end, as far as the position goes.
Ended(token) == token.type = "Eof"
Behind(token) ==
  IF Ended(token) THEN (token.position + 1) % (BufferMax + 1) ELSE token.position + token.length
From(i) == IF i = 1 THEN 0 ELSE Behind(tokens[i - 1])

\* The token is a slice of the text: a whole word, a whole number, a sign, with
\* the equal sign that belongs to it, or the end.
AllOf(text, token, set) ==
  /\ token.length > 0
  /\ Within(text, token.position, token.position + token.length, set)
  /\ Char(text, token.position + token.length) \notin set
IsWord(text, token) ==
  /\ AllOf(text, token, Letter)
  /\ token.type = Monkey!LookupIdent(Monkey!GetLiteral(text, token))
IsNumber(text, token) == AllOf(text, token, Digit) /\ token.type = "Int"
IsSign(text, token) ==
  LET first == Char(text, token.position)
  IN  IF first \in {"=", "!"} /\ Char(text, token.position + 1) = "="
      THEN token.length = 2 /\ token.type = Monkey!WithEqual[first]
      ELSE /\ token.length = 1
           /\ token.type = IF first \in DOMAIN Monkey!Alone THEN Monkey!Alone[first] ELSE "Illegal"
IsEnd(token) == Ended(token) /\ token.length = 0

AsWritten(text, token) ==
  LET first == Char(text, token.position)
  IN  CASE first \in Letter     -> IsWord(text, token)
        [] first \in Digit      -> IsNumber(text, token)
        [] first = Monkey!End   -> IsEnd(token)
        [] OTHER                -> IsSign(text, token)

\* The next token when the lexer looks for it from p.
NextFrom(text, p, token) ==
  /\ p <= token.position
  /\ Within(text, p, token.position, Monkey!Whitespace)
  /\ AsWritten(text, token)

\* What it finds from p is longer than a token can be.
TooLongFrom(text, p) ==
  \E q \in p..Len(text) :
    /\ Within(text, p, q, Monkey!Whitespace)
    /\ \E set \in {Letter, Digit} : Within(text, q, q + LengthMax + 1, set)

\* Nothing of the input is lost and nothing is read twice: the tokens are slices
\* of it in their order, with white space between them, and each is the longest
\* of its kind.  The lexer gives up only on an input, a word or a number too
\* long for its counters.
SlicesAsWritten ==
  /\ \A i \in DOMAIN tokens : NextFrom(reader.text, From(i), tokens[i])
  /\ reader.failed => \/ Len(reader.text) > BufferMax
                      \/ TooLongFrom(reader.text, From(Len(tokens) + 1))

\* Past the end the lexer makes the token of the end, at one position after the
\* other, up to the largest.  There the position wraps, and the input is read
\* again from its start.
EndStays ==
  \A i \in DOMAIN tokens :
    tokens[i].position >= Len(reader.text) =>
      /\ Ended(tokens[i])
      /\ i + 1 \in DOMAIN tokens /\ tokens[i].position < BufferMax =>
           tokens[i + 1].position = tokens[i].position + 1
=============================================================================
