---------------------------- MODULE TokensTable ----------------------------
(***************************************************************************)
(* The tokens that the syntax parser stores in the table of                *)
(* src/src/TokenTable.cpp and the code generator reads from it, as both    *)
(* see them: the token they are at and the step to the next one.           *)
(*                                                                         *)
(* A reader is a record with the tokens, its position and whether it       *)
(* failed.  One that failed sees a token that no rule of a grammar         *)
(* accepts, as an error leaves every procedure that is reading.            *)
(***************************************************************************)
EXTENDS Integers, Sequences

\* A token is its code and its value: a name, an int, a double in halves.
Token(c, val) == [code |-> c, value |-> val]

\* A token that has no value is given 0.
Valued == {"Identifier", "Integer", "Float"}
Tokens ==
  [code : {"Identifier"}, value : STRING] \cup
  [code : {"Integer", "Float"}, value : Int] \cup
  [code : STRING \ Valued, value : {0}]

Code(s) == IF s.failed THEN "failed"
           ELSE IF s.pos > Len(s.tokens) THEN "EndofStream"
           ELSE s.tokens[s.pos].code
Current(s) == s.tokens[s.pos].value

Advanced(s) == [s EXCEPT !.pos = @ + 1]
Fail(s) == [s EXCEPT !.failed = TRUE]
=============================================================================
