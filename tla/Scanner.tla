------------------------------ MODULE Scanner ------------------------------
(***************************************************************************)
(* The scanner of the machine language, class Scanner of                   *)
(* src/src/lexer.cpp: nextToken() skips blanks and comments and reads the  *)
(* next token of a stream of characters.                                   *)
(*                                                                         *)
(* An operator takes the state of the scanner and returns the state after  *)
(* it.  One that failed (the code throws) sees the end of the stream.      *)
(***************************************************************************)
EXTENDS Integers, Sequences, SequencesExt, Characters

CONSTANTS MaxInt,       \* the largest int
          MaxExponent   \* the largest exponent of a float

\* ch is the character read ahead, the at-th of the text; eof is the state of
\* the stream, which also looking at the end sets.
Blank(text) ==
  [text |-> text, at |-> 0, ch |-> EOF, eof |-> FALSE, failed |-> FALSE,
   line |-> 1, column |-> 0, inComment |-> FALSE,
   token |-> [code |-> "Error", value |-> "", line |-> 0, column |-> 0]]

Fail(s) == [s EXCEPT !.failed = TRUE, !.ch = EOF]

PeekChar(s) == IF s.at = Len(s.text) THEN EOF ELSE s.text[s.at + 1]
Peeked(s) == [s EXCEPT !.eof = @ \/ s.at = Len(s.text)]

ReadRawChar(s) ==
  IF s.eof \/ s.failed THEN [s EXCEPT !.ch = EOF]
  ELSE IF s.at = Len(s.text) THEN [s EXCEPT !.ch = EOF, !.eof = TRUE, !.column = @ + 1]
  ELSE [s EXCEPT !.ch = PeekChar(s), !.at = @ + 1, !.column = @ + 1]

\* A carriage return is read together with the line feed that must follow.
GetOSIndependentChar(s) ==
  LET one == ReadRawChar(s)
      two == ReadRawChar(one)
  IN  IF one.ch # CR THEN one ELSE IF two.ch = LF THEN two ELSE Fail(two)

NextChar(s) ==
  LET c == GetOSIndependentChar(s)
  IN  IF c.ch = LF THEN [c EXCEPT !.ch = Space, !.line = @ + 1, !.column = 0] ELSE c

Start(text) == NextChar(Blank(text))

-----------------------------------------------------------------------------
(* Blanks and comments.                                                     *)

RECURSIVE InMultiLineComment(_), InSingleLineComment(_), SkipBlanksAndComments(_)

InMultiLineComment(s) ==
  CASE s.ch = EOF -> s
    [] s.ch = "*" -> LET n == NextChar(s)
                     IN  IF n.ch = "/" THEN [NextChar(n) EXCEPT !.inComment = FALSE]
                         ELSE InMultiLineComment(n)
    [] OTHER -> InMultiLineComment(NextChar(s))
SkipMultiLineComment(s) == InMultiLineComment(NextChar([s EXCEPT !.inComment = TRUE]))

InSingleLineComment(s) ==
  IF s.ch \in {LF, EOF} THEN s ELSE InSingleLineComment(GetOSIndependentChar(s))
\* Mutant: the line feed that ends a comment is not counted.
LineNotCounted(s) ==
  LET end == InSingleLineComment(s)
  IN  [(IF end.ch = EOF THEN end ELSE NextChar(end)) EXCEPT !.column = 1]
SkipSingleLineComment(s) ==
  LET end == InSingleLineComment(s)
  IN  [(IF end.ch = EOF THEN end ELSE NextChar(end)) EXCEPT !.column = 1, !.line = @ + 1]

SkipBlanksAndComments(s) ==
  CASE s.ch \in {Space, TAB} -> SkipBlanksAndComments(NextChar(s))
    [] s.ch = "/" /\ PeekChar(s) = "/" ->
         SkipBlanksAndComments(SkipSingleLineComment(GetOSIndependentChar(s)))
    [] s.ch = "/" /\ PeekChar(s) = "*" ->
         SkipBlanksAndComments(SkipMultiLineComment(GetOSIndependentChar(s)))
    [] s.ch = "/" /\ PeekChar(s) \notin {"/", "*"} -> Peeked(s)
    [] OTHER -> s

-----------------------------------------------------------------------------
(* Tokens.  A number is the digits it is written with: the value of a float *)
(* is not computed.                                                         *)

Made(s, code, val) == [s EXCEPT !.token.code = code, !.token.value = val]
IntToken(n) == [units |-> n, fraction |-> <<>>, exponent |-> 0]

RECURSIVE Digits(_, _, _), Fraction(_), InWord(_, _), InString(_, _)

\* Mutant: the check for an overflow leaves out the digit.
DigitsUnchecked(s, n, max) ==
  LET next == NextChar(s)
      m == 10 * n + DigitValue[s.ch]
  IN  IF n > max \div 10 THEN Fail(s)
      ELSE IF next.ch \in Digit THEN Digits(next, m, max) ELSE Made(next, "Integer", m)
\* The digits from ch on, of a number that is n so far and at most max.
Digits(s, n, max) ==
  LET next == NextChar(s)
      m == 10 * n + DigitValue[s.ch]
  IN  IF n > (max - DigitValue[s.ch]) \div 10 THEN Fail(s)
      ELSE IF next.ch \in Digit THEN Digits(next, m, max) ELSE Made(next, "Integer", m)

Units(s) ==
  LET read == IF s.ch = "." THEN Made(s, "Integer", 0) ELSE Digits(s, 0, MaxInt)
  IN  Made(read, "Integer", IntToken(read.token.value))

Fraction(s) ==
  IF s.ch \in Digit
  THEN Fraction([NextChar(s) EXCEPT !.token.value.fraction = Append(@, s.ch)])
  ELSE s
Point(s) ==
  IF s.ch = "." THEN Fraction(NextChar([s EXCEPT !.token.code = "Float"])) ELSE s

Signed(s) == IF s.ch \in {"-", "+"} THEN NextChar(s) ELSE s
Exponent(s) ==
  LET mark == NextChar(s)
      first == Signed(mark)
      last == Digits(first, 0, MaxExponent)
      sign == IF mark.ch = "-" THEN -1 ELSE 1
  IN  IF first.ch \notin Digit \/ last.failed THEN Fail(first)
      ELSE Made(last, "Float", [s.token.value EXCEPT !.exponent = sign * last.token.value])
Scientific(s) == IF s.ch \in {"e", "E"} THEN Exponent(s) ELSE s

GetNumber(s) == Scientific(Point(Units(s)))

\* std::stoi is given the digits after a $, and throws whatever they are.
GetHexNumber(s) == Fail(s)

Keywords ==
  [let |-> "Let", if |-> "If", do |-> "Do", to |-> "To", or |-> "Or", end |-> "End",
   for |-> "For", and |-> "And", not |-> "Not", then |-> "Then", else |-> "Else",
   true |-> "True", false |-> "False", print |-> "Print", step |-> "Step",
   while |-> "While", until |-> "Until", break |-> "Break", println |-> "Println",
   repeat |-> "Repeat", downto |-> "DownTo", fn |-> "Function", return |-> "Return",
   global |-> "Global", import |-> "Import", switch |-> "Switch", case |-> "Case"]
GetKeywordCode(word) ==
  IF word \in DOMAIN Keywords THEN Keywords[word] ELSE "Identifier"

InWord(s, word) ==
  IF s.ch \in Letter \cup Digit THEN InWord(NextChar(s), word \o s.ch)
  ELSE Made(s, GetKeywordCode(word), word)
GetWord(s) == InWord(s, "")

\* What stands in a string is read as it is, except for its first character.
InString(s, string) ==
  CASE s.ch = EOF -> Fail(s)
    [] s.ch = Quote -> Made(NextChar(s), "String", string)
    [] OTHER -> InString(ReadRawChar(s), string \o s.ch)
GetString(s) == InString(NextChar(s), "")

Alone ==
  "+" :> "Plus" @@ "^" :> "Power" @@ "(" :> "LeftParenthesis" @@ ")" :> "RightParenthesis" @@
  "[" :> "LeftBracket" @@ "]" :> "RightBracket" @@
  "{" :> "LeftCurleyBracket" @@ "}" :> "RightCurleyBracket" @@
  ">" :> "MoreThan" @@ "<" :> "LessThan" @@ "=" :> "Assign" @@ ";" :> "Semicolon" @@
  ":" :> "Colon" @@ "," :> "Comma" @@ "." :> "Period" @@ "-" :> "Minus" @@
  "/" :> "Divide" @@ "*" :> "Mult" @@ "@" :> "Dotproduct"
WithEqual ==
  "!" :> "NotEqual" @@ ">" :> "MoreThanOrEqual" @@ "<" :> "LessThanOrEqual" @@
  "=" :> "Equivalence"
\* Mutant: the equal sign of a token with one is read again.
GetSpecialEqualAgain(s) ==
  IF s.ch \in DOMAIN WithEqual /\ PeekChar(s) = "="
  THEN Made(NextChar(s), WithEqual[s.ch], s.ch)
  ELSE IF s.ch \in DOMAIN Alone THEN Made(NextChar(s), Alone[s.ch], s.ch) ELSE Fail(s)
GetSpecial(s) ==
  LET peeked == IF s.ch \in DOMAIN WithEqual THEN Peeked(s) ELSE s
  IN  IF s.ch \in DOMAIN WithEqual /\ PeekChar(s) = "="
      THEN Made(NextChar(NextChar(s)), WithEqual[s.ch], s.ch)
      ELSE IF s.ch \in DOMAIN Alone THEN Made(NextChar(peeked), Alone[s.ch], s.ch)
      ELSE Fail(s)

\* The end inside a comment is an error, once.
AtEnd(s) ==
  IF s.inComment THEN Fail([s EXCEPT !.inComment = FALSE]) ELSE Made(s, "EndofStream", "")

Placed(s) == [s EXCEPT !.token.line = s.line, !.token.column = s.column]
NextToken(s) ==
  LET here == Placed(SkipBlanksAndComments(s))
  IN  CASE here.failed -> here
        [] ~here.failed /\ here.ch \in Letter -> GetWord(here)
        [] here.ch \in Digit \cup {"."} -> GetNumber(here)
        [] here.ch = "#" -> GetHexNumber(here)
        [] here.ch = Quote -> GetString(here)
        [] ~here.failed /\ here.ch = EOF -> AtEnd(here)
        [] OTHER -> GetSpecial(here)
=============================================================================
