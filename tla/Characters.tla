----------------------------- MODULE Characters -----------------------------
(***************************************************************************)
(* The characters of a text.  Those beyond ASCII are left out.             *)
(***************************************************************************)
EXTENDS Integers

Space == " "
TAB == "\t"
LF == "\n"
CR == "\r"
Quote == "\""
EOF == "EOF"

Digit == {"0", "1", "2", "3", "4", "5", "6", "7", "8", "9"}
DigitValue ==
  [c \in Digit |->
     CASE c = "0" -> 0 [] c = "1" -> 1 [] c = "2" -> 2 [] c = "3" -> 3 [] c = "4" -> 4
       [] c = "5" -> 5 [] c = "6" -> 6 [] c = "7" -> 7 [] c = "8" -> 8 [] c = "9" -> 9]
Letter ==
  {"a", "b", "c", "d", "e", "f", "g", "h", "i", "j", "k", "l", "m", "n", "o", "p", "q",
   "r", "s", "t", "u", "v", "w", "x", "y", "z",
   "A", "B", "C", "D", "E", "F", "G", "H", "I", "J", "K", "L", "M", "N", "O", "P", "Q",
   "R", "S", "T", "U", "V", "W", "X", "Y", "Z", "_"}
=============================================================================
