---------------------------- MODULE MCTokenizers ----------------------------
(***************************************************************************)
(* For the scanner, sources of up to three pieces of every kind, and of    *)
(* four for layout: words, numbers at their limits, strings, tokens of one *)
(* or two characters, comments and line ends of both systems.  For the     *)
(* lexer, all short inputs, and longer ones up to past the largest.        *)
(***************************************************************************)
EXTENDS Integers, Sequences, Tokenizers

IntOf(n) == [units |-> n, fraction |-> <<>>, exponent |-> 0]
FloatOf(n, fraction, exponent) == [units |-> n, fraction |-> fraction, exponent |-> exponent]

Words ==
  {Lexeme("if", "If", "if"), Lexeme("x1", "Identifier", "x1"), Lexeme("_e", "Identifier", "_e")}
Numbers ==
  {Lexeme("7", "Integer", IntOf(7)), Lexeme("127", "Integer", IntOf(127)),
   Lexeme("1.5", "Float", FloatOf(1, <<"5">>, 0)), Lexeme(".", "Float", FloatOf(0, <<>>, 0)),
   Lexeme("3e12", "Float", FloatOf(3, <<>>, 12)), Lexeme(".2E-1", "Float", FloatOf(0, <<"2">>, -1)),
   Refused("128"), Refused("1e13"), Refused("1e"), Refused("#1")}
\* The first character of a string is read as outside one, a line feed as a blank.
Strings ==
  {Lexeme("\"a //\"", "String", "a //"), Lexeme("\"a\nb\"", "String", "a\nb"),
   Lexeme("\"\nb\"", "String", " b")}
Signs ==
  {Lexeme("=", "Assign", "="), Lexeme("==", "Equivalence", "="), Lexeme("<=", "LessThanOrEqual", "<"),
   Lexeme("<", "LessThan", "<"), Lexeme("!=", "NotEqual", "!"), Lexeme("/", "Divide", "/"),
   Lexeme("*", "Mult", "*"), Lexeme("(", "LeftParenthesis", "("), Refused("!"), Refused("&")}
Layouts ==
  {Layout(" "), Layout("\t"), Layout("\n"), Layout("\r\n"), Layout("// c\n"), Layout("/*c\n*/"),
   Layout("/***/")}
Pieces == Words \cup Numbers \cup Strings \cup Signs \cup Layouts

Few ==
  {Lexeme("if", "If", "if"), Lexeme("7", "Integer", IntOf(7)), Lexeme("/", "Divide", "/"),
   Lexeme("\"a\nb\"", "String", "a\nb")} \cup Layouts

\* A string or a comment that does not end takes in the rest of the source.
Open == {Refused("\"a"), Refused("/*c")}

UpTo(pieces, n) == UNION {{s \in [1..k -> pieces] : ReadApart(s)} : k \in 0..n}
OpenEnded == {s \in {Append(t, o) : t \in UpTo(Pieces, 2), o \in Open} : ReadApart(s)}
MCSources == UpTo(Pieces, 3) \cup UpTo(Few, 4) \cup OpenEnded

\* For the lexer: words, keywords and parts of them, numbers, signs with and
\* without an equal sign behind, in any order, and the longest inputs.
MonkeyChars == {"i", "f", "_", "1", "=", "!", "{", "@", " ", CR}
MonkeyParts == {Chars(w) : w \in {"if", "elses", "17", "12345", "==", "!=", "\r\n", "{", "@", "x"}}
MCTexts ==
  UNION {[1..k -> MonkeyChars] : k \in 0..4} \cup
  UNION {{FlattenSeq(s) : s \in [1..k -> MonkeyParts]} : k \in 2..4}
=============================================================================
