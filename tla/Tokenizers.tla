----------------------------- MODULE Tokenizers -----------------------------
(***************************************************************************)
(* The two tokenizers of src/src/lexer.cpp at work: the scanner of the     *)
(* machine language, which a parser calls until the end of the stream, and *)
(* the lexer of the interpreted one, which is called on past the end.      *)
(*                                                                         *)
(* A source of the scanner is a sequence of pieces: lexemes, each with the  *)
(* token it is written for, and the layout between them.  What the scanner *)
(* makes of the characters is compared with the pieces.  The lexer and     *)
(* what is to hold of it, of any input, are in LexerRun.                   *)
(***************************************************************************)
EXTENDS LexerRun, SequencesExt

CONSTANTS Sources,                \* sequences of pieces
          MaxInt, MaxExponent     \* see Scanner

Daewoo == INSTANCE Scanner

VARIABLES language,  \* "daewoo" or "monkey": which of the two is at work
          source,    \* the pieces that the scanner reads
          scanner,   \* the scanner
          scanned    \* the tokens it made

scannerVars == <<source, scanner, scanned>>
vars == <<language, scannerVars, lexerVars>>

-----------------------------------------------------------------------------
(* Pieces.  Two may be next to each other when they are read apart.         *)

Lexeme(string, code, val) == [string |-> string, code |-> code, value |-> val]
Layout(string) == Lexeme(string, "layout", "")
\* A lexeme that no token is made of: the tokenizer throws.
Refused(string) == Lexeme(string, "refused", "")

Chars(string) == [i \in 1..Len(string) |-> SubSeq(string, i, i)]
Text(pieces) == FlattenSeq([i \in DOMAIN pieces |-> Chars(pieces[i].string)])

Joins(c, d) ==
  \/ {c, d} \subseteq Letter \cup Digit \cup {"."}
  \/ c \in {"=", "<", ">", "!"} /\ d = "="
  \/ c = "/" /\ d \in {"/", "*"}
Apart(p, q) == ~Joins(Last(Chars(p.string)), Head(Chars(q.string)))
ReadApart(pieces) == \A i \in 1..Len(pieces) - 1 : Apart(pieces[i], pieces[i + 1])

IsLexeme(p) == p.code # "layout"
Lexemes == SelectSeq(source, IsLexeme)

-----------------------------------------------------------------------------

ScannerInit(sources) ==
  /\ source \in sources
  /\ scanner = Daewoo!Start(Text(source))
  /\ scanned = <<>>

\* The one that is not at work has nothing to read.
Init ==
  \/ language = "daewoo" /\ ScannerInit(Sources) /\ LexerInit({<<>>})
  \/ language = "monkey" /\ ScannerInit({<<>>}) /\ LexerInit(Texts)

AtEnd == scanned # <<>> /\ Last(scanned).code = "EndofStream"
ScannerNextToken ==
  /\ ~scanner.failed /\ ~AtEnd
  /\ scanner' = Daewoo!NextToken(scanner)
  /\ scanned' = IF scanner'.failed THEN scanned ELSE Append(scanned, scanner'.token)
  /\ UNCHANGED source
ScannerEnded == (scanner.failed \/ AtEnd) /\ UNCHANGED scannerVars

Next ==
  \/ language = "daewoo" /\ (ScannerNextToken \/ ScannerEnded) /\ UNCHANGED <<language, lexerVars>>
  \/ language = "monkey" /\ LexerNext /\ UNCHANGED <<language, scannerVars>>
Spec == Init /\ [][Next]_vars

-----------------------------------------------------------------------------

TypeOK ==
  /\ language \in {"daewoo", "monkey"}
  /\ scanner.at \in 0..Len(scanner.text) /\ scanner.line \in Nat \ {0}
  /\ Len(scanned) <= Len(Lexemes) + 1

\* The scanner makes the tokens that the lexemes are written for, one for each
\* and in their order, whatever layout is between them, and throws at the first
\* lexeme that is none: an int or an exponent that is too large among them.
Agrees(token, lexeme) == token.code = lexeme.code /\ token.value = lexeme.value
Unread == Len(scanned) < Len(Lexemes)
TokensAsWritten ==
  /\ \A i \in DOMAIN scanned :
       IF i =< Len(Lexemes) THEN Agrees(scanned[i], Lexemes[i])
       ELSE scanned[i].code = "EndofStream"
  /\ scanner.failed => Unread /\ Lexemes[Len(scanned) + 1].code = "refused"

\* A token has the line and the column its lexeme begins at.  The line is not
\* right after a string with a line feed in it, nor the column in a line that
\* follows a comment and an empty line.
PlaceIn(text) ==
  LET feeds == {i \in DOMAIN text : text[i] = LF}
  IN  [line |-> 1 + Cardinality(feeds), column |-> Len(text) + 1 - Max(feeds \cup {0})]
Place(i) == PlaceIn(Text(SubSeq(source, 1, i - 1)))
IndexIn(i) == Len(SelectSeq(SubSeq(source, 1, i), IsLexeme))
HasFeed(p) == IsLexeme(p) /\ LF \in Range(Chars(p.string))
EmptyLineAfterComment(i) ==
  \E j \in 1..i - 2 :
    /\ IsPrefix(<<"/", "/">>, Chars(source[j].string))
    /\ Head(Chars(source[j + 1].string)) \in {LF, CR}
    /\ \A k \in j + 2..i - 1 : LF \notin Range(Chars(source[k].string))
PositionsAsWritten ==
  \A i \in DOMAIN source :
    IsLexeme(source[i]) /\ IndexIn(i) \in DOMAIN scanned =>
      LET token == scanned[IndexIn(i)]
      IN  \/ \E j \in 1..i - 1 : HasFeed(source[j])
          \/ /\ token.line = Place(i).line
             /\ token.column = Place(i).column \/ EmptyLineAfterComment(i)
=============================================================================
