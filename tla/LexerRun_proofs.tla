--------------------------- MODULE LexerRun_proofs ---------------------------
(***************************************************************************)
(* Proofs that the lexer of the interpreted language makes the tokens the  *)
(* input is written with, for every input and all widths of its counters.  *)
(***************************************************************************)
EXTENDS LexerRun, Numbers_proofs, SequenceTheorems

-----------------------------------------------------------------------------
(* The characters.                                                         *)

\* The sets that the lexer tells apart are apart, and the end is in none.
LEMMA KindsApart ==
  /\ Monkey!Letter = Letter /\ Monkey!Digit = Digit
  /\ Letter \cap Digit = {} /\ Monkey!Whitespace \cap (Letter \cup Digit) = {}
  /\ Monkey!End \notin Letter \cup Digit \cup Monkey!Whitespace
<1>1. Monkey!Letter = Letter /\ Monkey!Digit = Digit
  BY DEF Letter, Monkey!Letter, Digit, Monkey!Digit
<1>2. Letter \cap Digit = {}
  BY DEF Letter, Digit
<1>3. Monkey!Whitespace \cap (Letter \cup Digit) = {}
  BY DEF Letter, Digit, Monkey!Whitespace, Monkey!Space, Monkey!TAB, Monkey!LF, Monkey!CR
<1>4. Monkey!End \notin Letter \cup Digit \cup Monkey!Whitespace
  BY DEF Letter, Digit, Monkey!Whitespace, Monkey!Space, Monkey!TAB, Monkey!LF, Monkey!CR,
         Monkey!End
<1> QED
  BY <1>1, <1>2, <1>3, <1>4

\* No word and no sign is taken for the end.
LEMMA TypesOfTokens ==
  /\ \A word : Monkey!LookupIdent(word) \in Monkey!Type \ {"Eof"}
  /\ \A c \in DOMAIN Monkey!Alone : Monkey!Alone[c] \in Monkey!Type \ {"Eof"}
  /\ \A c \in {"=", "!"} : Monkey!WithEqual[c] \in Monkey!Type \ {"Eof"}
<1>1. \A word : Monkey!LookupIdent(word) \in Monkey!Type \ {"Eof"}
  BY DEF Monkey!LookupIdent, Monkey!Type
<1>2. \A c \in DOMAIN Monkey!Alone : Monkey!Alone[c] \in Monkey!Type \ {"Eof"}
  BY DEF Monkey!Alone, Monkey!Type
<1>3. \A c \in {"=", "!"} : Monkey!WithEqual[c] \in Monkey!Type \ {"Eof"}
  BY DEF Monkey!WithEqual, Monkey!Type
<1> QED
  BY <1>1, <1>2, <1>3

\* The characters that may be signs.
LEMMA Signs ==
  /\ DOMAIN Monkey!WithEqual = {"=", "!"} /\ {"=", "!"} \subseteq DOMAIN Monkey!Alone
  /\ Monkey!End \notin DOMAIN Monkey!Alone
BY DEF Monkey!WithEqual, Monkey!Alone, Monkey!End

-----------------------------------------------------------------------------
(* Positions.                                                              *)

Slices == [type : Monkey!Type, position : 0..BufferMax, length : 0..LengthMax]
Characters == STRING \cup {Monkey!End}
Readers ==
  [text : Seq(STRING), position : 0..BufferMax, readPosition : 0..BufferMax,
   ch : Characters, failed : BOOLEAN, token : Slices]

\* The lexer is at a character and will read the next one.
Ready(s) ==
  /\ s \in Readers /\ ~s.failed /\ Len(s.text) <= BufferMax
  /\ s.ch = Char(s.text, s.position)
  /\ s.readPosition = (s.position + 1) % (BufferMax + 1)

\* A position that is counted on is the next one, or the first after the largest.
LEMMA CountedOn ==
  /\ \A p \in 0..BufferMax : (p + 1) % (BufferMax + 1) = IF p < BufferMax THEN p + 1 ELSE 0
  /\ \A p \in 0..BufferMax : p % (BufferMax + 1) = p
<1>1. BufferMax \in Nat
  BY WidthsAssumption
<1>2. \A p \in 0..BufferMax : p % (BufferMax + 1) = p
  BY <1>1
<1>3. (BufferMax + 1) % (BufferMax + 1) = 0
  BY <1>1
<1> QED
  BY <1>1, <1>2, <1>3

\* There is a character at every place, and past the last it is the end.
LEMMA CharAnywhere ==
  ASSUME NEW text \in Seq(STRING), NEW p \in Nat
  PROVE  /\ Char(text, p) \in Characters
         /\ Char(text, p) # Monkey!End => p < Len(text)
<1>1. CASE p < Len(text)
  <2>1. p + 1 \in 1..Len(text)
    BY <1>1
  <2> QED
    BY <1>1, <2>1, ElementOfSeq DEF Char, Monkey!CharAt, Characters
<1>2. CASE p >= Len(text)
  BY <1>2 DEF Char, Monkey!CharAt, Characters
<1> QED
  BY <1>1, <1>2

\* Reading a character makes the lexer ready, at the place it was to read.
LEMMA ReadCharMakesReady ==
  ASSUME NEW s \in Readers, ~s.failed, Len(s.text) <= BufferMax
  PROVE  LET t == Monkey!ReadChar(s)
         IN  /\ Ready(t) /\ t.text = s.text /\ t.token = s.token
             /\ t.position = s.readPosition
<1>1. s.text \in Seq(STRING) /\ s.readPosition \in 0..BufferMax
  BY DEF Readers
<1>2. BufferMax \in Nat /\ s.readPosition \in Nat
  BY <1>1, WidthsAssumption
<1>3. (s.readPosition + 1) % (BufferMax + 1) \in 0..BufferMax
  BY <1>1, <1>2, CountedOn
<1>4. Char(s.text, s.readPosition) \in Characters
  BY <1>1, <1>2, CharAnywhere
<1> QED
  BY <1>1, <1>2, <1>3, <1>4 DEF Ready, Readers, Monkey!ReadChar, Char

LEMMA ReadCharReady ==
  ASSUME NEW s, Ready(s)
  PROVE  LET t == Monkey!ReadChar(s)
         IN  /\ Ready(t) /\ t.text = s.text /\ t.token = s.token
             /\ t.position = s.readPosition
BY ReadCharMakesReady DEF Ready

-----------------------------------------------------------------------------
(* Reading on.                                                             *)

\* The lexer read on from s, one character after the other.
ReadOn(s, set, n, u) ==
  u = [k \in 0..n |-> IF k = 0 THEN s
                      ELSE IF u[k - 1].ch \in set THEN Monkey!ReadChar(u[k - 1]) ELSE u[k - 1]]

\* There are such lexers, and the last one is what Run gives.
LEMMA RunDefined ==
  ASSUME NEW s, NEW set, Len(s.text) \in Nat
  PROVE  \E u : ReadOn(s, set, Len(s.text), u) /\ Monkey!Run(s, set) = u[Len(s.text)]
<1> DEFINE N == Len(s.text)
           Step(t) == IF t.ch \in set THEN Monkey!ReadChar(t) ELSE t
           Made == {m \in 0..N : \E u : ReadOn(s, set, m, u)}
<1>1. 0 \in Made
  <2>1. ReadOn(s, set, 0, [k \in 0..0 |-> s])
    BY DEF ReadOn
  <2> QED
    BY <2>1
<1>2. ASSUME NEW m \in 0..(N - 1), m \in Made PROVE m + 1 \in Made
  <2>1. PICK u : ReadOn(s, set, m, u)
    BY <1>2
  <2> DEFINE w == [k \in 0..(m + 1) |-> IF k <= m THEN u[k] ELSE Step(u[m])]
  <2>2. ASSUME NEW k \in 0..(m + 1)
        PROVE  w[k] = IF k = 0 THEN s ELSE Step(w[k - 1])
    <3>1. CASE k <= m
      <4>1. k \in 0..m /\ (k # 0 => k - 1 \in 0..m /\ k - 1 \in 0..(m + 1) /\ k - 1 <= m)
        BY <3>1
      <4>2. u[k] = IF k = 0 THEN s ELSE Step(u[k - 1])
        BY <2>1, <4>1 DEF ReadOn
      <4>3. w[k] = u[k] /\ (k # 0 => w[k - 1] = u[k - 1])
        BY <3>1, <4>1
      <4> HIDE DEF w, Step
      <4> QED
        BY <4>2, <4>3
    <3>2. CASE k = m + 1
      <4>1. k # 0 /\ k - 1 = m /\ m \in 0..(m + 1) /\ ~(k <= m)
        BY <3>2
      <4>2. w[k] = Step(u[m]) /\ w[k - 1] = u[m]
        BY <4>1
      <4> HIDE DEF w, Step
      <4> QED
        BY <4>1, <4>2
    <3> QED
      BY <3>1, <3>2
  <2>3. ReadOn(s, set, m + 1, w)
    <3>1. w = [k \in 0..(m + 1) |-> w[k]]
      OBVIOUS
    <3> HIDE DEF w
    <3> QED
      BY <2>2, <3>1 DEF ReadOn
  <2> HIDE DEF w
  <2> QED
    BY <2>3, <1>2
<1>3. N \in Made
  <2>1. N \in Nat /\ \A m \in 0..(N - 1) : m \in Made => m + 1 \in Made
    BY <1>2
  <2>2. N \in 0..N
    BY <2>1
  <2> HIDE DEF Made, N
  <2> QED
    BY <1>1, <2>1, <2>2, InductionUpTo
<1>4. PICK u : ReadOn(s, set, N, u)
  BY <1>3
<1> DEFINE Extend(g) == [k \in 0..N |-> IF k = 0 THEN s
                                        ELSE IF g[k - 1].ch \in set THEN Monkey!ReadChar(g[k - 1])
                                             ELSE g[k - 1]]
           after == CHOOSE g : g = Extend(g)
<1>5. u = Extend(u)
  BY <1>4 DEF ReadOn
<1>6. after = Extend(after)
  BY <1>5
<1>7. Monkey!Run(s, set) = after[N]
  BY DEF Monkey!Run
<1>8. ReadOn(s, set, N, after)
  BY <1>6 DEF ReadOn
<1> QED
  BY <1>7, <1>8

\* The lexer read from s as far as t, over characters of that set.
ReadTo(s, t, set) ==
  /\ Ready(t) /\ t.text = s.text /\ t.token = s.token
  /\ s.position <= t.position /\ Within(s.text, s.position, t.position, set)

\* A character that is not the end is within the input, and the next one is
\* the one behind it.
LEMMA NextCharacter ==
  ASSUME NEW s, Ready(s), s.ch # Monkey!End
  PROVE  s.position < Len(s.text) /\ s.readPosition = s.position + 1
<1>1. s.text \in Seq(STRING) /\ s.position \in 0..BufferMax /\ Len(s.text) <= BufferMax
  BY DEF Ready, Readers
<1>2. BufferMax \in Nat /\ s.position \in Nat /\ Len(s.text) \in Nat
  BY <1>1, WidthsAssumption
<1>3. s.position < Len(s.text)
  BY <1>1, <1>2, CharAnywhere DEF Ready
<1> QED
  BY <1>1, <1>2, <1>3, CountedOn DEF Ready

\* One character further.
LEMMA ReadOneMore ==
  ASSUME NEW s, Ready(s), NEW set, Monkey!End \notin set, NEW t, ReadTo(s, t, set), t.ch \in set
  PROVE  /\ ReadTo(s, Monkey!ReadChar(t), set)
         /\ Monkey!ReadChar(t).position = t.position + 1 /\ t.position < Len(s.text)
<1> DEFINE r == Monkey!ReadChar(t)
<1>1. Ready(t) /\ t.text = s.text /\ t.token = s.token /\ s.position <= t.position
  BY DEF ReadTo
<1>2. t.position < Len(s.text) /\ t.readPosition = t.position + 1
  BY <1>1, NextCharacter
<1>3. Ready(r) /\ r.text = s.text /\ r.token = s.token /\ r.position = t.position + 1
  BY <1>1, <1>2, ReadCharReady
<1> HIDE DEF r
<1>4. s.position \in Nat /\ t.position \in Nat
  BY <1>1, WidthsAssumption DEF Ready, Readers
<1>5. Within(s.text, s.position, r.position, set)
  <2> SUFFICES ASSUME NEW i \in s.position..t.position PROVE Char(s.text, i) \in set
    BY <1>3, <1>4 DEF Within
  <2>1. CASE i = t.position
    BY <1>1, <2>1 DEF Ready
  <2>2. CASE i # t.position
    <3>1. i \in s.position..(t.position - 1)
      BY <1>4, <2>2
    <3> QED
      BY <3>1 DEF ReadTo, Within
  <2> QED
    BY <2>1, <2>2
<1>6. ReadTo(s, r, set)
  BY <1>1, <1>3, <1>4, <1>5 DEF ReadTo
<1> QED
  BY <1>2, <1>3, <1>6 DEF r

\* The lexer reads over all the characters of the set, and no other.
LEMMA RunReads ==
  ASSUME NEW s, Ready(s), NEW set, Monkey!End \notin set
  PROVE  ReadTo(s, Monkey!Run(s, set), set) /\ Monkey!Run(s, set).ch \notin set
<1> DEFINE N == Len(s.text)
<1>1. s.text \in Seq(STRING) /\ N \in Nat /\ s.position \in Nat
  BY WidthsAssumption DEF Ready, Readers
<1>2. PICK u : ReadOn(s, set, N, u) /\ Monkey!Run(s, set) = u[N]
  BY <1>1, RunDefined
<1> DEFINE Reached == {k \in 0..N : /\ ReadTo(s, u[k], set)
                                    /\ u[k].ch \in set => u[k].position = s.position + k}
<1>3. 0 \in Reached
  <2>1. u[0] = s
    BY <1>1, <1>2 DEF ReadOn
  <2>2. ReadTo(s, s, set)
    BY <1>1 DEF ReadTo, Within
  <2> QED
    BY <1>1, <2>1, <2>2
<1>4. ASSUME NEW k \in 0..(N - 1), k \in Reached PROVE k + 1 \in Reached
  <2>1. k + 1 \in 0..N /\ k + 1 # 0 /\ (k + 1) - 1 = k
    BY <1>1
  <2>2. u[k + 1] = IF u[k].ch \in set THEN Monkey!ReadChar(u[k]) ELSE u[k]
    BY <1>2, <2>1 DEF ReadOn
  <2>3. ReadTo(s, u[k], set) /\ (u[k].ch \in set => u[k].position = s.position + k)
    BY <1>4
  <2>4. CASE u[k].ch \in set
    <3>1. ReadTo(s, u[k + 1], set) /\ u[k + 1].position = u[k].position + 1
      BY <2>2, <2>3, <2>4, ReadOneMore
    <3> QED
      BY <1>1, <2>1, <2>3, <2>4, <3>1
  <2>5. CASE u[k].ch \notin set
    BY <2>1, <2>2, <2>3, <2>5
  <2> QED
    BY <2>4, <2>5
<1>5. N \in Reached
  <2>1. N \in 0..N
    BY <1>1
  <2> HIDE DEF Reached, N
  <2> QED
    BY <1>1, <1>3, <1>4, <2>1, InductionUpTo
<1>6. ReadTo(s, u[N], set) /\ (u[N].ch \in set => u[N].position = s.position + N)
  BY <1>5
<1>7. u[N].ch \notin set
  <2> SUFFICES ASSUME u[N].ch \in set PROVE FALSE
    OBVIOUS
  <2>1. u[N].position < N
    BY <1>6, ReadOneMore
  <2> QED
    BY <1>1, <1>6, <2>1
<1> QED
  BY <1>2, <1>6, <1>7

-----------------------------------------------------------------------------
(* A token.                                                                *)

\* Another token leaves the lexer where it is.
LEMMA ReadyWithToken ==
  ASSUME NEW s, Ready(s), NEW token \in Slices
  PROVE  /\ Ready([s EXCEPT !.token = token])
         /\ [s EXCEPT !.token = token].token = token
         /\ [s EXCEPT !.token = token].text = s.text
         /\ [s EXCEPT !.token = token].position = s.position
         /\ [s EXCEPT !.token = token].readPosition = s.readPosition
         /\ [s EXCEPT !.token = token].ch = s.ch
BY DEF Ready, Readers

\* A run of letters or digits is the token of its place, or is too long for one.
LEMMA RunTokenReads ==
  ASSUME NEW s, Ready(s), NEW set, Monkey!End \notin set, s.ch \in set,
         NEW tokenType \in Monkey!Type
  PROVE  LET t == Monkey!RunToken(s, set, tokenType)
         IN  /\ t \in Readers /\ t.text = s.text
             /\ t.failed => Within(s.text, s.position, s.position + LengthMax + 1, set)
             /\ ~t.failed => /\ Ready(t) /\ AllOf(s.text, t.token, set)
                             /\ t.token.type = tokenType /\ t.token.position = s.position
                             /\ t.position = t.token.position + t.token.length
<1> DEFINE after == Monkey!Run(s, set)
           length == after.position - s.position
           token == [type |-> tokenType, position |-> s.position, length |-> length]
<1>1. ReadTo(s, after, set) /\ after.ch \notin set
  BY RunReads
<1> HIDE DEF after
<1>2. Ready(after) /\ after.text = s.text /\ s.position <= after.position
  BY <1>1 DEF ReadTo
<1>3. /\ s.position \in 0..BufferMax /\ after.position \in 0..BufferMax
      /\ BufferMax \in Nat /\ LengthMax \in Nat
  BY <1>2, WidthsAssumption DEF Ready, Readers
<1>4. s.position # after.position
  BY <1>1, <1>2 DEF Ready
<1>5. length \in 1..BufferMax /\ after.position = s.position + length
  BY <1>2, <1>3, <1>4
<1>6. length % (BufferMax + 1) = length
  BY <1>3, <1>5, CountedOn
<1> HIDE DEF length
<1>7. Monkey!RunToken(s, set, tokenType)
        = IF length > LengthMax THEN [after EXCEPT !.failed = TRUE]
          ELSE [after EXCEPT !.token = token]
  BY <1>6 DEF Monkey!RunToken, Monkey!Fail, Monkey!Token, after, length
<1>8. CASE length > LengthMax
  <2>1. [after EXCEPT !.failed = TRUE] \in Readers
    BY <1>2 DEF Ready, Readers
  <2>2. [after EXCEPT !.failed = TRUE].text = s.text /\ [after EXCEPT !.failed = TRUE].failed
    BY <1>2 DEF Ready, Readers
  <2>3. Within(s.text, s.position, s.position + LengthMax + 1, set)
    <3> SUFFICES ASSUME NEW i \in s.position..((s.position + LengthMax + 1) - 1)
                 PROVE  Char(s.text, i) \in set
      BY DEF Within
    <3>1. i \in s.position..(after.position - 1)
      BY <1>3, <1>5, <1>8
    <3> QED
      BY <1>1, <3>1 DEF ReadTo, Within
  <2> QED
    BY <1>7, <1>8, <2>1, <2>2, <2>3
<1>9. CASE ~(length > LengthMax)
  <2>1. token \in Slices
    BY <1>3, <1>5, <1>9 DEF Slices
  <2>2. AllOf(s.text, token, set)
    BY <1>1, <1>2, <1>5 DEF AllOf, ReadTo, Ready
  <2> DEFINE t == [after EXCEPT !.token = token]
  <2>3. Ready(t) /\ t.token = token /\ t.text = s.text /\ t.position = after.position
    BY <1>2, <2>1, ReadyWithToken
  <2>4. t \in Readers /\ ~t.failed
    BY <2>3 DEF Ready
  <2> HIDE DEF t
  <2>5. Monkey!RunToken(s, set, tokenType) = t
    BY <1>7, <1>9 DEF t
  <2>6. token.type = tokenType /\ token.position = s.position /\ token.length = length
    OBVIOUS
  <2> HIDE DEF token
  <2> QED
    BY <1>5, <2>2, <2>3, <2>4, <2>5, <2>6
<1> QED
  BY <1>8, <1>9

\* What is made at a character that is not white space.
Makes(s, t) ==
  /\ t \in Readers /\ t.text = s.text
  /\ t.failed => \E set \in {Letter, Digit} :
                   Within(s.text, s.position, s.position + LengthMax + 1, set)
  /\ ~t.failed => /\ Ready(t) /\ t.token.position = s.position
                  /\ AsWritten(s.text, t.token) /\ t.position = Behind(t.token)

\* A word.
LEMMA ReadIdentifierMakes ==
  ASSUME NEW s, Ready(s), s.ch \in Letter
  PROVE  Makes(s, Monkey!ReadIdentifier(s))
<1> DEFINE word == Monkey!RunToken(s, Letter, "Ident")
           lookedUp == Monkey!LookupIdent(Monkey!GetLiteral(word.text, word.token))
           token == [word.token EXCEPT !.type = lookedUp]
<1>1. Monkey!End \notin Letter /\ "Ident" \in Monkey!Type
  BY KindsApart DEF Monkey!Type
<1>2. /\ word \in Readers /\ word.text = s.text
      /\ word.failed => Within(s.text, s.position, s.position + LengthMax + 1, Letter)
      /\ ~word.failed => /\ Ready(word) /\ AllOf(s.text, word.token, Letter)
                         /\ word.token.type = "Ident" /\ word.token.position = s.position
                         /\ word.position = word.token.position + word.token.length
  BY <1>1, RunTokenReads
<1>3. Monkey!ReadIdentifier(s)
        = IF word.failed THEN word ELSE [word EXCEPT !.token.type = lookedUp]
  BY KindsApart DEF Monkey!ReadIdentifier
<1> HIDE DEF word
<1>4. CASE word.failed
  BY <1>2, <1>3, <1>4 DEF Makes
<1>5. CASE ~word.failed
  <2>1. lookedUp \in Monkey!Type \ {"Eof"}
    BY TypesOfTokens
  <2>2. word.token \in Slices
    BY <1>2 DEF Readers
  <2>3. /\ token \in Slices /\ token.type = lookedUp
        /\ token.position = word.token.position /\ token.length = word.token.length
    BY <2>1, <2>2 DEF Slices
  <2>4. [word EXCEPT !.token.type = lookedUp] = [word EXCEPT !.token = token]
    BY <1>2 DEF Readers
  <2> DEFINE t == [word EXCEPT !.token = token]
  <2>5. Ready(t) /\ t.token = token /\ t.text = s.text /\ t.position = word.position
    BY <1>2, <1>5, <2>3, ReadyWithToken
  <2>6. Monkey!GetLiteral(word.text, word.token) = Monkey!GetLiteral(s.text, token)
    BY <1>2, <2>3 DEF Monkey!GetLiteral
  <2> HIDE DEF t
  <2>7. Monkey!ReadIdentifier(s) = t
    BY <1>3, <1>5, <2>4 DEF t
  <2> HIDE DEF token
  <2>8. AllOf(s.text, token, Letter)
    BY <1>2, <1>5, <2>3 DEF AllOf
  <2>9. IsWord(s.text, token)
    BY <2>3, <2>6, <2>8 DEF IsWord
  <2>10. Char(s.text, token.position) \in Letter
    BY <1>2, <1>5, <2>3 DEF Ready
  <2>11. AsWritten(s.text, token)
    <3>1. /\ Char(s.text, token.position) \notin Digit
          /\ Char(s.text, token.position) # Monkey!End
      BY <2>10, KindsApart
    <3> QED
      BY <2>9, <2>10, <3>1 DEF AsWritten
  <2>12. t.position = Behind(token)
    BY <1>2, <1>5, <2>1, <2>3, <2>5 DEF Behind, Ended
  <2>13. t \in Readers /\ ~t.failed
    BY <2>5 DEF Ready
  <2> QED
    BY <1>2, <1>5, <2>3, <2>5, <2>7, <2>11, <2>12, <2>13 DEF Makes
<1> QED
  BY <1>4, <1>5

\* A number.
LEMMA ReadNumberMakes ==
  ASSUME NEW s, Ready(s), s.ch \in Digit
  PROVE  Makes(s, Monkey!ReadNumber(s))
<1> DEFINE t == Monkey!RunToken(s, Digit, "Int")
<1>1. Monkey!End \notin Digit /\ "Int" \in Monkey!Type /\ s.ch \notin Letter
  BY KindsApart DEF Monkey!Type
<1>2. /\ t \in Readers /\ t.text = s.text
      /\ t.failed => Within(s.text, s.position, s.position + LengthMax + 1, Digit)
      /\ ~t.failed => /\ Ready(t) /\ AllOf(s.text, t.token, Digit)
                      /\ t.token.type = "Int" /\ t.token.position = s.position
                      /\ t.position = t.token.position + t.token.length
  BY <1>1, RunTokenReads
<1>3. Monkey!ReadNumber(s) = t
  BY KindsApart DEF Monkey!ReadNumber
<1> HIDE DEF t
<1>4. Char(s.text, s.position) = s.ch
  BY DEF Ready
<1>5. ~t.failed => AsWritten(s.text, t.token) /\ t.position = Behind(t.token)
  BY <1>1, <1>2, <1>4 DEF AsWritten, IsNumber, Behind, Ended
<1> QED
  BY <1>2, <1>3, <1>5 DEF Makes

\* A token made of the characters at a place, and the lexer behind it.
LEMMA MadeAndRead ==
  ASSUME NEW s, Ready(s), NEW tokenType \in Monkey!Type, NEW n \in 0..2
  PROVE  LET m == Monkey!Made(s, tokenType, n)
             token == [type |-> tokenType, position |-> s.position, length |-> n]
         IN  /\ token \in Slices
             /\ Ready(m) /\ m.token = token /\ m.text = s.text /\ m.ch = s.ch
             /\ m.position = s.position /\ m.readPosition = s.readPosition
<1> DEFINE token == [type |-> tokenType, position |-> s.position, length |-> n]
<1>1. token \in Slices
  BY WidthsAssumption DEF Ready, Readers, Slices
<1>2. Monkey!Made(s, tokenType, n) = [s EXCEPT !.token = token]
  BY DEF Monkey!Made, Monkey!Token
<1> HIDE DEF token
<1>3. QED
  BY <1>1, <1>2, ReadyWithToken DEF token

\* A sign, the end, or a character that begins no token.
LEMMA SpecialMakes ==
  ASSUME NEW s, Ready(s), s.ch \notin Letter \cup Digit
  PROVE  Makes(s, Monkey!Special(s))
<1> DEFINE Peeked == Char(s.text, s.readPosition)
           Sign(k, n) == [type |-> k, position |-> s.position, length |-> n]
<1>1. /\ s.ch = Char(s.text, s.position) /\ s.position \in 0..BufferMax /\ BufferMax \in Nat
      /\ s.text \in Seq(STRING) /\ Len(s.text) <= BufferMax /\ Len(s.text) \in Nat
  BY WidthsAssumption DEF Ready, Readers
<1>2. Monkey!PeekChar(s) = Peeked
  BY DEF Monkey!PeekChar, Char
<1>3. s.ch # Monkey!End => s.position < Len(s.text) /\ s.readPosition = s.position + 1
  BY NextCharacter
<1>4. s.readPosition = (s.position + 1) % (BufferMax + 1)
  BY DEF Ready
<1>5. Monkey!End \notin {"=", "!"}
  BY DEF Monkey!End
<1> HIDE DEF Sign
<1>6. \A k \in Monkey!Type, n \in 0..2 :
        LET m == Monkey!Made(s, k, n)
        IN  /\ Ready(m) /\ m.token = Sign(k, n) /\ m.text = s.text
            /\ m.position = s.position /\ m.readPosition = s.readPosition
  BY MadeAndRead DEF Sign
<1>7. CASE s.ch \in {"=", "!"} /\ Peeked = "="
  <2> DEFINE m == Monkey!Made(s, Monkey!WithEqual[s.ch], 2)
             r == Monkey!ReadChar(m)
             t == Monkey!ReadChar(r)
             token == Sign(Monkey!WithEqual[s.ch], 2)
  <2>1. Monkey!WithEqual[s.ch] \in Monkey!Type \ {"Eof"} /\ 2 \in 0..2
    BY <1>7, TypesOfTokens
  <2>2. /\ Ready(m) /\ m.token = token /\ m.text = s.text
        /\ m.position = s.position /\ m.readPosition = s.readPosition
    BY <1>6, <2>1
  <2> HIDE DEF m
  <2>3. Ready(r) /\ r.token = token /\ r.text = s.text /\ r.position = s.position + 1
    BY <1>3, <1>5, <1>7, <2>2, ReadCharReady
  <2> HIDE DEF r
  <2>4. r.ch = "="
    BY <1>3, <1>5, <1>7, <2>3 DEF Ready
  <2>5. r.readPosition = s.position + 2
    <3>1. r.readPosition = r.position + 1
      BY <1>5, <2>3, <2>4, NextCharacter
    <3> QED
      BY <1>1, <2>3, <3>1
  <2>6. Ready(t) /\ t.token = token /\ t.text = s.text /\ t.position = s.position + 2
    BY <2>3, <2>5, ReadCharReady
  <2> HIDE DEF t
  <2>7. Monkey!Special(s) = t
    BY <1>2, <1>7, Signs DEF Monkey!Special, t, r, m
  <2>8. /\ token.type = Monkey!WithEqual[s.ch] /\ token.position = s.position
        /\ token.length = 2
    BY DEF Sign
  <2> HIDE DEF token
  <2>9. IsSign(s.text, token)
    BY <1>1, <1>3, <1>5, <1>7, <2>8 DEF IsSign
  <2>10. AsWritten(s.text, token)
    BY <1>1, <1>5, <1>7, <2>8, <2>9 DEF AsWritten
  <2>11. t.position = Behind(token)
    BY <2>1, <2>6, <2>8 DEF Behind, Ended
  <2> QED
    BY <2>6, <2>7, <2>8, <2>10, <2>11 DEF Makes, Ready
<1>8. CASE s.ch # Monkey!End /\ ~(s.ch \in {"=", "!"} /\ Peeked = "=")
  <2> DEFINE kind == IF s.ch \in DOMAIN Monkey!Alone THEN Monkey!Alone[s.ch] ELSE "Illegal"
             m == Monkey!Made(s, kind, 1)
             t == Monkey!ReadChar(m)
             token == Sign(kind, 1)
  <2>1. kind \in Monkey!Type \ {"Eof"} /\ kind \in Monkey!Type /\ 1 \in 0..2
    BY TypesOfTokens DEF Monkey!Type
  <2>2. Monkey!Special(s) = t
    BY <1>2, <1>8, Signs DEF Monkey!Special
  <2> HIDE DEF kind
  <2>3. /\ Ready(m) /\ m.token = token /\ m.text = s.text
        /\ m.position = s.position /\ m.readPosition = s.readPosition
    BY <1>6, <2>1
  <2> HIDE DEF m
  <2>4. Ready(t) /\ t.token = token /\ t.text = s.text /\ t.position = s.position + 1
    BY <1>3, <1>8, <2>3, ReadCharReady
  <2> HIDE DEF t
  <2>5. token.type = kind /\ token.position = s.position /\ token.length = 1
    BY DEF Sign
  <2> HIDE DEF token
  <2>6. IsSign(s.text, token)
    BY <1>1, <1>3, <1>8, <2>5 DEF IsSign, kind
  <2>7. AsWritten(s.text, token)
    BY <1>1, <1>8, <2>5, <2>6 DEF AsWritten
  <2>8. t.position = Behind(token)
    BY <2>1, <2>4, <2>5 DEF Behind, Ended
  <2> QED
    BY <2>2, <2>4, <2>5, <2>7, <2>8 DEF Makes, Ready
<1>9. CASE s.ch = Monkey!End
  <2> DEFINE m == Monkey!Made(s, "Eof", 0)
             t == Monkey!ReadChar(m)
             token == Sign("Eof", 0)
  <2>1. "Eof" \in Monkey!Type /\ 0 \in 0..2
    BY DEF Monkey!Type
  <2>2. Monkey!Special(s) = t
    BY <1>5, <1>9, Signs DEF Monkey!Special
  <2>3. /\ Ready(m) /\ m.token = token /\ m.text = s.text
        /\ m.position = s.position /\ m.readPosition = s.readPosition
    BY <1>6, <2>1
  <2> HIDE DEF m
  <2>4. Ready(t) /\ t.token = token /\ t.text = s.text /\ t.position = s.readPosition
    BY <2>3, ReadCharReady
  <2> HIDE DEF t
  <2>5. token.type = "Eof" /\ token.position = s.position /\ token.length = 0
    BY DEF Sign
  <2> HIDE DEF token
  <2>6. AsWritten(s.text, token)
    BY <1>1, <1>9, <2>5, KindsApart DEF AsWritten, IsEnd, Ended
  <2>7. t.position = Behind(token)
    BY <1>4, <2>4, <2>5 DEF Behind, Ended
  <2> QED
    BY <2>2, <2>4, <2>5, <2>6, <2>7 DEF Makes, Ready
<1> QED
  BY <1>5, <1>7, <1>8, <1>9

\* What the lexer does in a call of nextToken().
Finds(s, t) ==
  /\ t \in Readers /\ t.text = s.text
  /\ t.failed => TooLongFrom(s.text, s.position)
  /\ ~t.failed => /\ Ready(t) /\ NextFrom(s.text, s.position, t.token)
                  /\ t.position = Behind(t.token)

\* nextToken() makes the next token of the input.
LEMMA NextTokenFinds ==
  ASSUME NEW s, Ready(s)
  PROVE  Finds(s, Monkey!NextToken(s))
<1> DEFINE here == Monkey!Run(s, Monkey!Whitespace)
           t == Monkey!NextToken(s)
<1>1. ReadTo(s, here, Monkey!Whitespace) /\ here.ch \notin Monkey!Whitespace
  BY RunReads, KindsApart
<1> HIDE DEF here
<1>2. Ready(here) /\ here.text = s.text
  BY <1>1 DEF ReadTo
<1>3. t = CASE here.ch \in Letter -> Monkey!ReadIdentifier(here)
            [] here.ch \in Digit -> Monkey!ReadNumber(here)
            [] OTHER -> Monkey!Special(here)
  BY KindsApart DEF Monkey!NextToken, Monkey!SkipWhitespace, here
<1> HIDE DEF t
<1>4. Makes(here, t)
  <2>1. CASE here.ch \in Letter
    <3>1. here.ch \notin Digit
      BY <2>1, KindsApart
    <3>2. t = Monkey!ReadIdentifier(here)
      BY <1>3, <2>1, <3>1
    <3> QED
      BY <1>2, <2>1, <3>2, ReadIdentifierMakes
  <2>2. CASE here.ch \in Digit
    <3>1. here.ch \notin Letter
      BY <2>2, KindsApart
    <3>2. t = Monkey!ReadNumber(here)
      BY <1>3, <2>2, <3>1
    <3> QED
      BY <1>2, <2>2, <3>2, ReadNumberMakes
  <2>3. CASE here.ch \notin Letter \cup Digit
    <3>1. t = Monkey!Special(here)
      BY <1>3, <2>3
    <3> QED
      BY <1>2, <2>3, <3>1, SpecialMakes
  <2> QED
    BY <2>1, <2>2, <2>3
<1>5. t \in Readers /\ t.text = s.text
  BY <1>2, <1>4 DEF Makes
<1>6. t.failed => TooLongFrom(s.text, s.position)
  <2> SUFFICES ASSUME t.failed PROVE TooLongFrom(s.text, s.position)
    OBVIOUS
  <2>1. PICK set \in {Letter, Digit} :
          Within(s.text, here.position, here.position + LengthMax + 1, set)
    BY <1>2, <1>4 DEF Makes
  <2>2. s.position <= here.position /\ Within(s.text, s.position, here.position, Monkey!Whitespace)
    BY <1>1 DEF ReadTo
  <2>3. /\ s.position \in Nat /\ here.position \in Nat /\ LengthMax \in Nat
        /\ s.text \in Seq(STRING) /\ Len(s.text) \in Nat
    BY <1>2, WidthsAssumption DEF Ready, Readers
  <2>4. here.position \in here.position..((here.position + LengthMax + 1) - 1)
    BY <2>3
  <2>5. Char(s.text, here.position) \in set
    BY <2>1, <2>4 DEF Within
  <2>6. Char(s.text, here.position) # Monkey!End
    BY <2>5, KindsApart
  <2>7. here.position < Len(s.text)
    BY <2>3, <2>6, CharAnywhere
  <2>8. here.position \in s.position..Len(s.text)
    BY <2>2, <2>3, <2>7
  <2> QED
    BY <2>1, <2>2, <2>8 DEF TooLongFrom
<1>7. ASSUME ~t.failed
      PROVE  Ready(t) /\ NextFrom(s.text, s.position, t.token) /\ t.position = Behind(t.token)
  <2>1. /\ Ready(t) /\ t.token.position = here.position /\ AsWritten(s.text, t.token)
        /\ t.position = Behind(t.token)
    BY <1>2, <1>4, <1>7 DEF Makes
  <2>2. s.position <= here.position /\ Within(s.text, s.position, here.position, Monkey!Whitespace)
    BY <1>1 DEF ReadTo
  <2> QED
    BY <2>1, <2>2 DEF NextFrom
<1> QED
  BY <1>5, <1>6, <1>7 DEF Finds, t

-----------------------------------------------------------------------------
(* The invariant.                                                          *)

LexerInv ==
  /\ reader \in Readers
  /\ tokens \in Seq(Slices) /\ Len(tokens) <= MaxTokens
  /\ ~reader.failed => Ready(reader) /\ reader.position = From(Len(tokens) + 1)
  /\ SlicesAsWritten

\* An input is refused or its first character is read.
LEMMA InitLexerInv == LexerInit(Texts) => LexerInv
<1> SUFFICES ASSUME LexerInit(Texts) PROVE LexerInv
  OBVIOUS
<1>1. PICK text \in Texts : reader = Monkey!Start(text) /\ tokens = <<>>
  BY DEF LexerInit
<1>2. text \in Seq(STRING) /\ Len(text) \in Nat
  BY TextsAssumption
<1>3. BufferMax \in Nat /\ LengthMax \in Nat /\ MaxTokens \in Nat
  BY WidthsAssumption, CallsAssumption
<1> DEFINE first == [type |-> "Illegal", position |-> 0, length |-> 0]
<1>4. first \in Slices
  BY <1>3 DEF Slices, Monkey!Type
<1>5. tokens \in Seq(Slices) /\ Len(tokens) = 0 /\ DOMAIN tokens = {}
  BY <1>1
<1>6. From(Len(tokens) + 1) = 0
  BY <1>5 DEF From
<1>7. CASE Len(text) > BufferMax
  <2>1. reader = [text |-> text, position |-> 0, readPosition |-> 0, ch |-> Monkey!End,
                  failed |-> TRUE, token |-> first]
    BY <1>1, <1>7 DEF Monkey!Start, Monkey!Fail
  <2>2. reader \in Readers /\ reader.failed /\ reader.text = text
    <3> HIDE DEF first
    <3> QED
      BY <1>2, <1>3, <1>4, <2>1 DEF Readers, Characters
  <2> QED
    BY <1>3, <1>5, <1>7, <2>2 DEF LexerInv, SlicesAsWritten
<1>8. CASE ~(Len(text) > BufferMax)
  <2> DEFINE start == [text |-> text, position |-> 0, readPosition |-> 0, ch |-> Monkey!End,
                       failed |-> FALSE, token |-> first]
  <2>1. reader = Monkey!ReadChar(start)
    BY <1>1, <1>8 DEF Monkey!Start
  <2>2. /\ start \in Readers /\ start.text = text /\ ~start.failed
        /\ start.readPosition = 0
    <3> HIDE DEF first
    <3> QED
      BY <1>2, <1>3, <1>4 DEF Readers, Characters
  <2> HIDE DEF start
  <2>3. Ready(reader) /\ reader.position = 0
    BY <1>8, <1>2, <1>3, <2>1, <2>2, ReadCharMakesReady
  <2> QED
    BY <1>3, <1>5, <1>6, <2>3 DEF LexerInv, SlicesAsWritten, Ready
<1> QED
  BY <1>7, <1>8

\* A call of nextToken() adds the next token, behind the one before it.
LEMMA LexerNextTokenInv == LexerInv /\ LexerNextToken => LexerInv'
<1> SUFFICES ASSUME LexerInv, LexerNextToken PROVE LexerInv'
  OBVIOUS
<1> DEFINE n == Len(tokens)
<1>1. /\ ~reader.failed /\ n < MaxTokens /\ reader' = Monkey!NextToken(reader)
      /\ tokens' = IF reader'.failed THEN tokens ELSE Append(tokens, reader'.token)
  BY DEF LexerNextToken
<1>2. Ready(reader) /\ reader.position = From(n + 1)
  BY <1>1 DEF LexerInv
<1>3. Finds(reader, reader')
  BY <1>1, <1>2, NextTokenFinds
<1>4. tokens \in Seq(Slices) /\ n \in Nat /\ MaxTokens \in Nat
  BY CallsAssumption DEF LexerInv
<1>5. CASE reader'.failed
  <2>1. tokens' = tokens /\ reader'.text = reader.text
    BY <1>1, <1>3, <1>5 DEF Finds
  <2>2. \A i : From(i)' = From(i)
    BY <2>1 DEF From
  <2>3. TooLongFrom(reader.text, From(n + 1))
    BY <1>2, <1>3, <1>5 DEF Finds
  <2>4. SlicesAsWritten'
    BY <2>1, <2>2, <2>3 DEF SlicesAsWritten, LexerInv
  <2> QED
    BY <1>3, <1>5, <2>1, <2>4 DEF LexerInv, Finds
<1>6. CASE ~reader'.failed
  <2>1. tokens' = Append(tokens, reader'.token) /\ reader'.text = reader.text
    BY <1>1, <1>3, <1>6 DEF Finds
  <2>2. /\ reader' \in Readers /\ reader'.token \in Slices /\ Ready(reader')
        /\ NextFrom(reader.text, From(n + 1), reader'.token)
        /\ reader'.position = Behind(reader'.token)
    BY <1>2, <1>3, <1>6 DEF Finds, Readers
  <2>3. /\ tokens' \in Seq(Slices) /\ Len(tokens') = n + 1
        /\ \A i \in 1..n : tokens'[i] = tokens[i]
        /\ tokens'[n + 1] = reader'.token
    BY <1>4, <2>1, <2>2, AppendProperties
  <2>4. DOMAIN tokens = 1..n /\ DOMAIN tokens' = 1..(n + 1)
    BY <1>4, <2>3
  <2>5. \A i \in 1..(n + 1) : From(i)' = From(i)
    BY <1>4, <2>3 DEF From
  <2>6. ASSUME NEW i \in DOMAIN tokens' PROVE NextFrom(reader'.text, From(i)', tokens'[i])
    <3>1. CASE i = n + 1
      BY <2>1, <2>2, <2>3, <2>4, <2>5, <3>1
    <3>2. CASE i # n + 1
      <4>1. i \in 1..n /\ i \in DOMAIN tokens /\ From(i)' = From(i)
        BY <1>4, <2>4, <2>5, <3>2
      <4>2. NextFrom(reader.text, From(i), tokens[i])
        BY <4>1 DEF LexerInv, SlicesAsWritten
      <4> QED
        BY <2>1, <2>3, <4>1, <4>2
    <3> QED
      BY <3>1, <3>2
  <2>7. SlicesAsWritten'
    BY <1>6, <2>6 DEF SlicesAsWritten
  <2>8. reader'.position = From(Len(tokens) + 1)'
    <3>1. (Len(tokens') + 1) - 1 = n + 1 /\ Len(tokens') + 1 # 1
      BY <1>4, <2>3
    <3>2. From(Len(tokens) + 1)' = Behind(tokens'[n + 1])
      BY <3>1 DEF From
    <3> QED
      BY <2>2, <2>3, <3>2
  <2> QED
    BY <1>1, <1>4, <2>2, <2>3, <2>7, <2>8 DEF LexerInv
<1> QED
  BY <1>5, <1>6

\* The invariant holds in every state.
LEMMA LexerInvariant == LexerSpec => []LexerInv
<1>1. LexerInv /\ [LexerNext]_lexerVars => LexerInv'
  <2> SUFFICES ASSUME LexerInv, [LexerNext]_lexerVars PROVE LexerInv'
    OBVIOUS
  <2>1. CASE LexerNextToken
    BY <2>1, LexerNextTokenInv
  <2>2. CASE LexerEnded \/ UNCHANGED lexerVars
    BY <2>2 DEF LexerEnded, lexerVars, LexerInv, SlicesAsWritten, From
  <2> QED
    BY <2>1, <2>2 DEF LexerNext
<1> QED
  BY <1>1, InitLexerInv, PTL DEF LexerSpec

\* The token behind one that is past the end is looked for where there is no
\* white space, so it is made at once.
LEMMA EndFollows ==
  ASSUME tokens \in Seq(Slices), reader.text \in Seq(STRING), SlicesAsWritten
  PROVE  EndStays
<1> SUFFICES ASSUME NEW i \in DOMAIN tokens, tokens[i].position >= Len(reader.text)
             PROVE  /\ Ended(tokens[i])
                    /\ i + 1 \in DOMAIN tokens /\ tokens[i].position < BufferMax =>
                         tokens[i + 1].position = tokens[i].position + 1
  BY DEF EndStays
<1> DEFINE p == tokens[i].position
<1>1. /\ p \in 0..BufferMax /\ BufferMax \in Nat /\ Len(reader.text) \in Nat
      /\ DOMAIN tokens = 1..Len(tokens) /\ Len(tokens) \in Nat
  <2>1. tokens[i] \in Slices
    BY ElementOfSeq
  <2> QED
    BY <2>1, WidthsAssumption DEF Slices
<1>2. \A q \in Nat : q >= p => Char(reader.text, q) = Monkey!End
  BY <1>1 DEF Char, Monkey!CharAt
<1>3. AsWritten(reader.text, tokens[i])
  BY DEF SlicesAsWritten, NextFrom
<1>4. Char(reader.text, p) = Monkey!End
  BY <1>1, <1>2
<1>5. Ended(tokens[i])
  BY <1>3, <1>4, KindsApart DEF AsWritten, IsEnd
<1>6. ASSUME i + 1 \in DOMAIN tokens, p < BufferMax PROVE tokens[i + 1].position = p + 1
  <2> DEFINE q == tokens[i + 1].position
  <2>1. From(i + 1) = Behind(tokens[i])
    BY <1>1 DEF From
  <2>2. Behind(tokens[i]) = p + 1
    BY <1>1, <1>5, <1>6, CountedOn DEF Behind
  <2>3. q \in 0..BufferMax
    <3>1. tokens[i + 1] \in Slices
      BY <1>6, ElementOfSeq
    <3> QED
      BY <3>1 DEF Slices
  <2>4. p + 1 <= q /\ Within(reader.text, p + 1, q, Monkey!Whitespace)
    BY <1>6, <2>1, <2>2 DEF SlicesAsWritten, NextFrom
  <2>5. CASE p + 1 < q
    <3>1. p + 1 \in (p + 1)..(q - 1) /\ p + 1 \in Nat /\ p + 1 >= p
      BY <1>1, <2>3, <2>5
    <3>2. Char(reader.text, p + 1) \in Monkey!Whitespace
      BY <2>4, <3>1 DEF Within
    <3> QED
      BY <1>2, <3>1, <3>2, KindsApart
  <2> QED
    BY <1>1, <2>3, <2>4, <2>5
<1> QED
  BY <1>5, <1>6

-----------------------------------------------------------------------------
(* The theorems.                                                           *)

\* The tokens are slices of the input, in their order and with nothing but white
\* space between them; the lexer gives up only on what is too long to be counted.
THEOREM LexerSlices == LexerSpec => []SlicesAsWritten
<1>1. LexerInv => SlicesAsWritten
  BY DEF LexerInv
<1> QED
  BY <1>1, LexerInvariant, PTL

\* Positions and lengths fit the types that hold them.
THEOREM LexerTypeCorrect == LexerSpec => []LexerTypeOK
<1>1. LexerInv => LexerTypeOK
  BY DEF LexerInv, LexerTypeOK, Readers, Slices
<1> QED
  BY <1>1, LexerInvariant, PTL

\* Past the end of the input every token is the token of the end.
THEOREM LexerEndStays == LexerSpec => []EndStays
<1>1. LexerInv => EndStays
  <2> SUFFICES ASSUME LexerInv PROVE EndStays
    OBVIOUS
  <2>1. tokens \in Seq(Slices) /\ reader.text \in Seq(STRING) /\ SlicesAsWritten
    BY DEF LexerInv, Readers
  <2> QED
    BY <2>1, EndFollows
<1> QED
  BY <1>1, LexerInvariant, PTL
=============================================================================
