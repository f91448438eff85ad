---------------------------- MODULE MonkeyLexer ----------------------------
(***************************************************************************)
(* The lexer of the interpreted language, class Lexer of src/src/lexer.cpp: *)
(* a token is its type and the slice of the input it stands for.           *)
(*                                                                         *)
(* Positions in the input are of type BufferSize and lengths of tokens of  *)
(* type Length (src/src/defs.hpp): unsigned, of a bounded width.           *)
(***************************************************************************)
EXTENDS Integers, Sequences, Characters

CONSTANTS BufferMax,  \* the largest position (65535 in the code)
          LengthMax   \* the largest length of a token (255 in the code)

Type ==
  {"Illegal", "Eof", "Ident", "Int", "Assign", "Plus", "Comma", "Semicolon", "LParen", "RParen",
   "LBrace", "RBrace", "Function", "Let", "Minus", "Bang", "Asterisk", "Slash", "LessThan",
   "GreaterThan", "True", "False", "If", "Else", "Return", "EQ", "NotEQ"}

End == "nul"   \* what ch_ is at the end of the input

Whitespace == {Space, TAB, LF, CR}

Fail(s) == [s EXCEPT !.failed = TRUE]

\* Positions count from 0.
CharAt(text, p) == IF p >= Len(text) THEN End ELSE text[p + 1]

\* Mutant: a position is as wide as it takes.
ReadCharUnbounded(s) ==
  [s EXCEPT !.ch = CharAt(s.text, s.readPosition),
            !.position = s.readPosition, !.readPosition = @ + 1]
\* Mutant: at the end the input starts over.
ReadCharAgain(s) ==
  [s EXCEPT !.ch = CharAt(s.text, s.readPosition), !.position = s.readPosition,
            !.readPosition = IF @ >= Len(s.text) THEN 0 ELSE @ + 1]
\* read_position_ is counted on at the end as well.
ReadChar(s) ==
  [s EXCEPT !.ch = CharAt(s.text, s.readPosition),
            !.position = s.readPosition,
            !.readPosition = (@ + 1) % (BufferMax + 1)]
PeekChar(s) == CharAt(s.text, s.readPosition)

\* Lexer().  An input too long to be counted is refused.
Start(text) ==
  LET s == [text |-> text, position |-> 0, readPosition |-> 0, ch |-> End, failed |-> FALSE,
            token |-> [type |-> "Illegal", position |-> 0, length |-> 0]]
  IN  IF Len(text) > BufferMax THEN Fail(s) ELSE ReadChar(s)

\* A loop that reads on while ch_ is in that set, which End is not: it reads no
\* more characters than there are.
Run(s, set) ==
  LET after[n \in 0..Len(s.text)] ==
        IF n = 0 THEN s
        ELSE LET t == after[n - 1] IN IF t.ch \in set THEN ReadChar(t) ELSE t
  IN  after[Len(s.text)]
SkipWhitespace(s) == Run(s, Whitespace)

Token(s, tokenType, n) == [type |-> tokenType, position |-> s.position, length |-> n]
Made(s, tokenType, n) == [s EXCEPT !.token = Token(s, tokenType, n)]

LookupIdent(ident) ==
  CASE ident = <<"f", "n">>                     -> "Function"
    [] ident = <<"l", "e", "t">>                -> "Let"
    [] ident = <<"t", "r", "u", "e">>           -> "True"
    [] ident = <<"f", "a", "l", "s", "e">>      -> "False"
    [] ident = <<"i", "f">>                     -> "If"
    [] ident = <<"e", "l", "s", "e">>           -> "Else"
    [] ident = <<"r", "e", "t", "u", "r", "n">> -> "Return"
    [] OTHER                                    -> "Ident"

\* getLiteral() of a token within the input.
GetLiteral(text, token) == SubSeq(text, token.position + 1, token.position + token.length)

\* Mutant: a length that a token cannot hold is cut.
RunTokenCut(s, set, tokenType) ==
  LET after == Run(s, set)
      length == (after.position - s.position) % (LengthMax + 1)
  IN  [after EXCEPT !.token = Token(s, tokenType, length)]
RunToken(s, set, tokenType) ==
  LET after == Run(s, set)
      length == (after.position - s.position) % (BufferMax + 1)
  IN  IF length > LengthMax THEN Fail(after)
      ELSE [after EXCEPT !.token = Token(s, tokenType, length)]

\* A word has no digits.
ReadIdentifier(s) ==
  LET word == RunToken(s, Letter, "Ident")
  IN  IF word.failed THEN word
      ELSE [word EXCEPT !.token.type = LookupIdent(GetLiteral(word.text, word.token))]
ReadNumber(s) == RunToken(s, Digit, "Int")

Alone ==
  [c \in {"=", "-", "!", "*", "/", "<", ">", ";", "(", ")", ",", "+", "{", "}"} |->
     CASE c = "=" -> "Assign"   [] c = "-" -> "Minus"     [] c = "!" -> "Bang"
       [] c = "*" -> "Asterisk" [] c = "/" -> "Slash"     [] c = "<" -> "LessThan"
       [] c = ">" -> "GreaterThan" [] c = ";" -> "Semicolon" [] c = "(" -> "LParen"
       [] c = ")" -> "RParen"   [] c = "," -> "Comma"     [] c = "+" -> "Plus"
       [] c = "{" -> "LBrace"   [] c = "}" -> "RBrace"]
WithEqual == [c \in {"=", "!"} |-> IF c = "=" THEN "EQ" ELSE "NotEQ"]

Special(s) ==
  CASE s.ch \in DOMAIN WithEqual /\ PeekChar(s) = "=" ->
         ReadChar(ReadChar(Made(s, WithEqual[s.ch], 2)))
    [] s.ch \in DOMAIN Alone /\ ~(s.ch \in DOMAIN WithEqual /\ PeekChar(s) = "=") ->
         ReadChar(Made(s, Alone[s.ch], 1))
    [] s.ch = End -> ReadChar(Made(s, "Eof", 0))
    [] OTHER -> ReadChar(Made(s, "Illegal", 1))

NextToken(s) ==
  LET here == SkipWhitespace(s)
  IN  CASE here.ch \in Letter -> ReadIdentifier(here)
        [] here.ch \in Digit -> ReadNumber(here)
        [] OTHER -> Special(here)
=============================================================================
