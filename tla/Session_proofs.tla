--------------------------- MODULE Session_proofs ---------------------------
(***************************************************************************)
(* Proofs about the REPL, for every line that may be typed and every depth *)
(* of the stack: what the parser gives without an error is a whole tree,   *)
(* and the evaluator walks such trees without leaving the environments.    *)
(***************************************************************************)
EXTENDS Session, Numbers_proofs, SequenceTheorems, FiniteSetTheorems

-----------------------------------------------------------------------------
(* Whole trees.                                                            *)

Leaves == {"Identifier", "IntegerLiteral", "Boolean"}
Single == {"Let", "Return", "Expression"}
Words == STRING \cup {"Eof"}
InfixOps == {"EQ", "NotEQ", "LessThan", "GreaterThan", "Plus", "Minus", "Slash", "Asterisk"}

\* A node whose parts are in a set; blocks may be empty if e allows it.
Proper(n, S, e) ==
  \/ n.kind \in Leaves
  \/ n.kind \in Single /\ n.value \in S
  \/ n.kind = "Prefix" /\ n.op \in {"Bang", "Minus"} /\ n.right \in S
  \/ n.kind = "Infix" /\ n.op \in InfixOps /\ n.left \in S /\ n.right \in S
  \/ n.kind = "If" /\ n.condition \in S /\ n.consequence \in S /\ n.alternative \in S \cup {Nullptr}
  \/ n.kind = "Function" /\ n.parameters \in Seq(Words) /\ n.body \in S
  \/ n.kind = "Call" /\ n.function \in S /\ n.arguments \in Seq(S)
  \/ n.kind = "Block" /\ n.stmts \in Seq(S) /\ (n.stmts = <<>> => e)
Closed(S, e) == \A n \in S : Proper(n, S, e)
Whole(n, e) == \E S : n \in S /\ Closed(S, e)
AllWhole(list, e) == \E S : list \in Seq(S) /\ Closed(S, e)

\* More nodes do no harm.
LEMMA ProperMore ==
  ASSUME NEW S, NEW T, S \subseteq T, NEW e, NEW d, e => d, NEW n, Proper(n, S, e)
  PROVE  Proper(n, T, d)
<1>1. Seq(S) \subseteq Seq(T)
  BY SeqMonotonic, Zenon
<1>2. CASE n.kind \in Leaves
  BY <1>2 DEF Proper
<1>3. CASE n.kind \in Single /\ n.value \in S
  BY <1>3 DEF Proper
<1>4. CASE n.kind = "Prefix" /\ n.op \in {"Bang", "Minus"} /\ n.right \in S
  BY <1>4 DEF Proper
<1>5. CASE n.kind = "Infix" /\ n.op \in InfixOps /\ n.left \in S /\ n.right \in S
  BY <1>5 DEF Proper
<1>6. CASE n.kind = "If" /\ n.condition \in S /\ n.consequence \in S /\ n.alternative \in S \cup {Nullptr}
  BY <1>6 DEF Proper
<1>7. CASE n.kind = "Function" /\ n.parameters \in Seq(Words) /\ n.body \in S
  BY <1>7 DEF Proper
<1>8. CASE n.kind = "Call" /\ n.function \in S /\ n.arguments \in Seq(S)
  BY <1>1, <1>8 DEF Proper
<1>9. CASE n.kind = "Block" /\ n.stmts \in Seq(S) /\ (n.stmts = <<>> => e)
  BY <1>1, <1>9 DEF Proper
<1> QED
  BY <1>2, <1>3, <1>4, <1>5, <1>6, <1>7, <1>8, <1>9 DEF Proper

\* Two sets of proper nodes are one.
LEMMA ClosedTogether ==
  ASSUME NEW S, NEW T, NEW e, Closed(S, e), Closed(T, e)
  PROVE  Closed(S \cup T, e)
<1> SUFFICES ASSUME NEW n \in S \cup T PROVE Proper(n, S \cup T, e)
  BY DEF Closed
<1>1. S \subseteq S \cup T /\ T \subseteq S \cup T
  OBVIOUS
<1>2. CASE n \in S
  BY <1>1, <1>2, ProperMore, Zenon DEF Closed
<1>3. CASE n \in T
  BY <1>1, <1>3, ProperMore, Zenon DEF Closed
<1> QED
  BY <1>2, <1>3

\* A node whose parts are whole is whole.
LEMMA WholeOf ==
  ASSUME NEW S, NEW e, Closed(S, e), NEW n, Proper(n, S, e)
  PROVE  Whole(n, e)
<1> DEFINE T == S \cup {n}
<1>1. S \subseteq T /\ n \in T
  OBVIOUS
<1>2. ASSUME NEW x \in T PROVE Proper(x, T, e)
  <2>1. Proper(x, S, e)
    BY <1>2 DEF Closed
  <2> QED
    BY <1>1, <2>1, ProperMore, Zenon
<1> HIDE DEF T
<1> QED
  BY <1>1, <1>2, Zenon DEF Closed, Whole

\* Two whole trees are made of one set of nodes.
LEMMA WholePair ==
  ASSUME NEW a, NEW b, NEW e, Whole(a, e), Whole(b, e)
  PROVE  \E S : a \in S /\ b \in S /\ Closed(S, e)
<1>1. PICK S : a \in S /\ Closed(S, e)
  BY DEF Whole
<1>2. PICK T : b \in T /\ Closed(T, e)
  BY DEF Whole
<1>3. Closed(S \cup T, e) /\ a \in S \cup T /\ b \in S \cup T
  BY <1>1, <1>2, ClosedTogether
<1> QED
  BY <1>3, Zenon

\* So are three,
LEMMA WholeTriple ==
  ASSUME NEW a, NEW b, NEW c, NEW e, Whole(a, e), Whole(b, e), Whole(c, e)
  PROVE  \E S : a \in S /\ b \in S /\ c \in S /\ Closed(S, e)
<1>1. PICK S : a \in S /\ b \in S /\ Closed(S, e)
  BY WholePair
<1>2. PICK T : c \in T /\ Closed(T, e)
  BY DEF Whole
<1>3. Closed(S \cup T, e) /\ a \in S \cup T /\ b \in S \cup T /\ c \in S \cup T
  BY <1>1, <1>2, ClosedTogether
<1> QED
  BY <1>3, Zenon

\* and a tree with a list of trees.
LEMMA WholeList ==
  ASSUME NEW a, NEW list, NEW e, Whole(a, e), AllWhole(list, e)
  PROVE  \E S : a \in S /\ list \in Seq(S) /\ Closed(S, e)
<1>1. PICK S : a \in S /\ Closed(S, e)
  BY DEF Whole
<1>2. PICK T : list \in Seq(T) /\ Closed(T, e)
  BY DEF AllWhole
<1>3. Closed(S \cup T, e) /\ a \in S \cup T /\ T \subseteq S \cup T
  BY <1>1, <1>2, ClosedTogether
<1>4. list \in Seq(S \cup T)
  BY <1>2, <1>3, SeqMonotonic, Zenon
<1> QED
  BY <1>3, <1>4, Zenon

\* A whole tree more in a list.
LEMMA ListLonger ==
  ASSUME NEW a, NEW list, NEW e, Whole(a, e), AllWhole(list, e)
  PROVE  AllWhole(<<a>> \o list, e) /\ <<a>> \o list # <<>>
<1>1. PICK S : a \in S /\ list \in Seq(S) /\ Closed(S, e)
  BY WholeList
<1>2. <<a>> \in Seq(S) /\ Len(<<a>>) = 1
  BY <1>1
<1>3. <<a>> \o list \in Seq(S) /\ Len(<<a>> \o list) = 1 + Len(list) /\ Len(list) \in Nat
  BY <1>1, <1>2, ConcatProperties
<1>4. <<a>> \o list # <<>>
  BY <1>3
<1> QED
  BY <1>1, <1>3, <1>4, Zenon DEF AllWhole

\* The list without trees.
LEMMA NoList == ASSUME NEW e PROVE AllWhole(<<>>, e)
<1>1. <<>> \in Seq({}) /\ Closed({}, e)
  BY DEF Closed
<1> QED
  BY <1>1, Zenon DEF AllWhole

\* The list of one tree.
LEMMA ListOfOne == ASSUME NEW a, NEW e, Whole(a, e) PROVE AllWhole(<<a>>, e)
<1>1. PICK S : a \in S /\ Closed(S, e)
  BY DEF Whole
<1>2. <<a>> \in Seq(S)
  BY <1>1
<1> QED
  BY <1>1, <1>2, Zenon DEF AllWhole

\* The nodes there are.
LEMMA NullIsNotWhole == ASSUME NEW e PROVE ~Whole(Nullptr, e)
<1>1. ASSUME NEW S PROVE ~Proper(Nullptr, S, e)
  <2>1. Nullptr.kind = "nullptr"
    BY DEF Nullptr
  <2> QED
    BY <2>1 DEF Proper, Leaves, Single
<1> QED
  BY <1>1, Zenon DEF Whole, Closed

\* Names and literals have no parts.
LEMMA LeavesAreWhole ==
  ASSUME NEW x, NEW e
  PROVE  Whole(Ident(x), e) /\ Whole(IntLit(x), e) /\ Whole(BoolLit(x), e)
<1>1. Closed({}, e)
  BY DEF Closed
<1>2. Proper(Ident(x), {}, e) /\ Proper(IntLit(x), {}, e) /\ Proper(BoolLit(x), {}, e)
  BY DEF Proper, Leaves, Ident, IntLit, BoolLit
<1> QED
  BY <1>1, <1>2, WholeOf

\* Statements are whole if their value is.
LEMMA SinglesAreWhole ==
  ASSUME NEW x, NEW v, NEW e, Whole(v, e)
  PROVE  Whole(Let(x, v), e) /\ Whole(Return(v), e) /\ Whole(Expr(v), e)
<1>1. PICK S : v \in S /\ Closed(S, e)
  BY DEF Whole
<1>2. Proper(Let(x, v), S, e) /\ Proper(Return(v), S, e) /\ Proper(Expr(v), S, e)
  BY <1>1 DEF Proper, Single, Let, Return, Expr
<1> QED
  BY <1>1, <1>2, WholeOf

\* So are prefix expressions,
LEMMA PrefixIsWhole ==
  ASSUME NEW op \in {"Bang", "Minus"}, NEW v, NEW e, Whole(v, e)
  PROVE  Whole(Prefix(op, v), e)
<1>1. PICK S : v \in S /\ Closed(S, e)
  BY DEF Whole
<1>2. Proper(Prefix(op, v), S, e)
  BY <1>1 DEF Proper, Prefix
<1> QED
  BY <1>1, <1>2, WholeOf

\* infix expressions,
LEMMA InfixIsWhole ==
  ASSUME NEW op \in InfixOps, NEW l, NEW r, NEW e, Whole(l, e), Whole(r, e)
  PROVE  Whole(Infix(l, op, r), e)
<1>1. PICK S : l \in S /\ r \in S /\ Closed(S, e)
  BY WholePair
<1>2. Proper(Infix(l, op, r), S, e)
  BY <1>1 DEF Proper, Infix
<1> QED
  BY <1>1, <1>2, WholeOf

\* conditionals, which may lack the second block,
LEMMA IfIsWhole ==
  ASSUME NEW c, NEW t, NEW f, NEW e, Whole(c, e), Whole(t, e), f = Nullptr \/ Whole(f, e)
  PROVE  Whole(IfElse(c, t, f), e)
<1>1. CASE f = Nullptr
  <2>1. PICK S : c \in S /\ t \in S /\ Closed(S, e)
    BY WholePair
  <2>2. Proper(IfElse(c, t, f), S, e)
    BY <1>1, <2>1 DEF Proper, IfElse
  <2> QED
    BY <2>1, <2>2, WholeOf
<1>2. CASE Whole(f, e)
  <2>1. PICK S : c \in S /\ t \in S /\ f \in S /\ Closed(S, e)
    BY <1>2, WholeTriple
  <2>2. Proper(IfElse(c, t, f), S, e)
    BY <2>1 DEF Proper, IfElse
  <2> QED
    BY <2>1, <2>2, WholeOf
<1> QED
  BY <1>1, <1>2

\* functions,
LEMMA FunctionIsWhole ==
  ASSUME NEW ps \in Seq(Words), NEW b, NEW e, Whole(b, e)
  PROVE  Whole(Fn(ps, b), e)
<1>1. PICK S : b \in S /\ Closed(S, e)
  BY DEF Whole
<1>2. Proper(Fn(ps, b), S, e)
  BY <1>1 DEF Proper, Fn
<1> QED
  BY <1>1, <1>2, WholeOf

\* calls,
LEMMA CallIsWhole ==
  ASSUME NEW f, NEW args, NEW e, Whole(f, e), AllWhole(args, e)
  PROVE  Whole(Call(f, args), e)
<1>1. PICK S : f \in S /\ args \in Seq(S) /\ Closed(S, e)
  BY WholeList
<1>2. Proper(Call(f, args), S, e)
  BY <1>1 DEF Proper, Call
<1> QED
  BY <1>1, <1>2, WholeOf

\* and blocks, if they may be empty or are not.
LEMMA BlocksAreWhole ==
  ASSUME NEW list, NEW e, AllWhole(list, e), list # <<>> \/ e
  PROVE  Whole(Block(list), e)
<1>1. PICK S : list \in Seq(S) /\ Closed(S, e)
  BY DEF AllWhole
<1>2. Proper(Block(list), S, e)
  BY <1>1 DEF Proper, Block
<1> QED
  BY <1>1, <1>2, WholeOf

-----------------------------------------------------------------------------
(* The states of the parser.                                               *)

\* The states over a line that have made a node.
Having(tokens, node) ==
  [tokens : {tokens}, pos : Nat \ {0}, errors : BOOLEAN, thrown : BOOLEAN, node : {node}]
Over(tokens, t) == t \in Having(tokens, t.node)

\* What keeps the errors that there were.
Leads(tokens, s, t) == Over(tokens, t) /\ (s.errors => t.errors)

\* States of the parser are what the record set has.
LEMMA HavingIsOver ==
  ASSUME NEW tokens, NEW node, NEW t \in Having(tokens, node)
  PROVE  t.node = node /\ Over(tokens, t)
BY DEF Having, Over

\* One state leads to a third by way of a second.
LEMMA LeadsOn ==
  ASSUME NEW tokens, NEW s, NEW t, NEW u, Leads(tokens, s, t), Leads(tokens, t, u)
  PROVE  Leads(tokens, s, u)
BY DEF Leads

\* A state leads to itself.
LEMMA LeadsToItself ==
  ASSUME NEW tokens, NEW s, Over(tokens, s) PROVE Leads(tokens, s, s)
BY DEF Leads

\* nextToken() keeps the tokens and the errors,
LEMMA NextTokenLeads ==
  ASSUME NEW tokens, NEW s, Over(tokens, s)
  PROVE  /\ Leads(tokens, s, NextToken(s)) /\ NextToken(s).tokens = tokens
         /\ NextToken(s).node = s.node /\ NextToken(s).errors = s.errors
         /\ NextToken(s).pos = s.pos + 1
BY DEF Over, Having, Leads, NextToken

\* a node that is made does,
LEMMA MadeLeads ==
  ASSUME NEW tokens, NEW s, Over(tokens, s), NEW n
  PROVE  /\ Leads(tokens, s, Made(s, n)) /\ Made(s, n) \in Having(tokens, n)
         /\ Made(s, n).node = n /\ Made(s, n).errors = s.errors /\ Made(s, n).pos = s.pos
BY DEF Over, Having, Leads, Made

\* an error is added,
LEMMA RefusedLeads ==
  ASSUME NEW tokens, NEW s, Over(tokens, s)
  PROVE  /\ Leads(tokens, s, Refused(s)) /\ Refused(s).errors
         /\ Leads(tokens, s, Error(s)) /\ Error(s).errors /\ Error(s).node = s.node
BY DEF Over, Having, Leads, Refused, Error, Made

\* and expectPeek() does the one or the other.
LEMMA ExpectedLeads ==
  ASSUME NEW tokens, NEW s, Over(tokens, s), NEW c
  PROVE  /\ Leads(tokens, s, Expected(s, c)) /\ Expected(s, c).node = s.node
         /\ Leads(tokens, s, OptionalSemicolon(s)) /\ OptionalSemicolon(s).node = s.node
BY NextTokenLeads, RefusedLeads, LeadsToItself, Zenon DEF Expected, OptionalSemicolon

\* The parser begins with its first two tokens.
LEMMA StartIsOver ==
  ASSUME NEW tokens PROVE Over(tokens, Start(tokens)) /\ Start(tokens).node = Nullptr
BY DEF Over, Having, Start

-----------------------------------------------------------------------------
(* What is made where no error was recorded.                               *)

Makes(tokens, s, t, e) == Leads(tokens, s, t) /\ (~t.errors => Whole(t.node, e))
MakesList(tokens, s, t, e) == Leads(tokens, s, t) /\ (~t.errors => AllWhole(t.node, e))
MakesStatements(tokens, s, t, ends, e) ==
  MakesList(tokens, s, t, e) /\ (~t.errors /\ t.node = <<>> => Cur(s).type \in ends)

\* Calls, in a state that has made nothing yet, do so.
Sound(p, tokens, e) ==
  /\ \A s \in States(tokens), level \in 0..6 : Makes(tokens, s, p.expression[<<s, level>>], e)
  /\ \A s \in States(tokens), ends \in Ends :
       MakesStatements(tokens, s, p.statements[<<s, ends>>], ends, e)
  /\ \A s \in States(tokens) : MakesList(tokens, s, p.arguments[s], e)

\* The state a call is made in.
LEMMA CallState ==
  ASSUME NEW tokens, NEW s, Over(tokens, s)
  PROVE  /\ Made(s, Nullptr) \in States(tokens) /\ Cur(Made(s, Nullptr)) = Cur(s)
         /\ \A t : Leads(tokens, Made(s, Nullptr), t) => Leads(tokens, s, t)
<1>1. /\ Made(s, Nullptr) \in Having(tokens, Nullptr) /\ Made(s, Nullptr).errors = s.errors
      /\ Made(s, Nullptr).pos = s.pos
  BY MadeLeads
<1>2. States(tokens) = Having(tokens, Nullptr)
  BY DEF States, Having
<1>3. Made(s, Nullptr).tokens = s.tokens
  BY <1>1 DEF Having, Over
<1> QED
  BY <1>1, <1>2, <1>3 DEF Cur, TokenAt, Leads

\* What the parsers of the level below give: an expression,
LEMMA ParsedMakes ==
  ASSUME NEW tokens, NEW e, NEW p, Sound(p, tokens, e), NEW s, Over(tokens, s), NEW level \in 0..6
  PROVE  Makes(tokens, s, Parsed(p, s, level), e)
<1>1. Made(s, Nullptr) \in States(tokens)
  BY CallState
<1>2. Makes(tokens, Made(s, Nullptr), Parsed(p, s, level), e)
  BY <1>1, Zenon DEF Sound, Parsed
<1> QED
  BY <1>2, CallState DEF Makes

\* statements up to an end,
LEMMA StatementsFromMakes ==
  ASSUME NEW tokens, NEW e, NEW p, Sound(p, tokens, e), NEW s, Over(tokens, s), NEW ends \in Ends
  PROVE  MakesStatements(tokens, s, StatementsFrom(p, s, ends), ends, e)
<1>1. Made(s, Nullptr) \in States(tokens)
  BY CallState
<1>2. MakesStatements(tokens, Made(s, Nullptr), StatementsFrom(p, s, ends), ends, e)
  BY <1>1, Zenon DEF Sound, StatementsFrom
<1> QED
  BY <1>2, CallState DEF MakesStatements, MakesList

\* and arguments.
LEMMA ArgumentsFromMakes ==
  ASSUME NEW tokens, NEW e, NEW p, Sound(p, tokens, e), NEW s, Over(tokens, s)
  PROVE  MakesList(tokens, s, ArgumentsFrom(p, s), e)
<1>1. Made(s, Nullptr) \in States(tokens)
  BY CallState
<1>2. MakesList(tokens, Made(s, Nullptr), ArgumentsFrom(p, s), e)
  BY <1>1, Zenon DEF Sound, ArgumentsFrom
<1> QED
  BY <1>2, CallState DEF MakesList

\* A refusal is an error, so that nothing need be whole.
LEMMA RefusedMakes ==
  ASSUME NEW tokens, NEW e, NEW s, NEW t, Over(tokens, s), Leads(tokens, s, t)
  PROVE  Makes(tokens, s, Refused(t), e)
<1>1. Over(tokens, t)
  BY DEF Leads
<1>2. Leads(tokens, t, Refused(t)) /\ Refused(t).errors
  BY <1>1, RefusedLeads
<1> QED
  BY <1>2, LeadsOn DEF Makes

\* What is made of what a call gave, perhaps after a semicolon.
LEMMA MadeMakes ==
  ASSUME NEW tokens, NEW e, NEW s, NEW t, Leads(tokens, s, t), NEW n, ~t.errors => Whole(n, e)
  PROVE  Makes(tokens, s, Made(t, n), e)
<1>1. Over(tokens, t)
  BY DEF Leads
<1>2. Leads(tokens, t, Made(t, n)) /\ Made(t, n).node = n /\ Made(t, n).errors = t.errors
  BY <1>1, MadeLeads
<1> QED
  BY <1>2, LeadsOn DEF Makes

\* The optional semicolon is passed over.
LEMMA StatementEnds ==
  ASSUME NEW tokens, NEW e, NEW s, NEW t, Makes(tokens, s, t, e), NEW n,
         Whole(t.node, e) => Whole(n, e)
  PROVE  Makes(tokens, s, Made(OptionalSemicolon(t), n), e)
<1>1. Over(tokens, t) /\ Leads(tokens, s, t)
  BY DEF Makes, Leads
<1>2. Leads(tokens, t, OptionalSemicolon(t))
  BY <1>1, ExpectedLeads
<1>3. Leads(tokens, s, OptionalSemicolon(t))
  BY <1>1, <1>2, LeadsOn
<1>4. ~OptionalSemicolon(t).errors => ~t.errors
  BY <1>2 DEF Leads
<1> QED
  BY <1>3, <1>4, MadeMakes DEF Makes

\* parseLetStatement() gives a whole statement or an error.
LEMMA LetMakes ==
  ASSUME NEW tokens, NEW e, NEW p, Sound(p, tokens, e), NEW s, Over(tokens, s)
  PROVE  Makes(tokens, s, ParseLetStatement(p, s), e)
<1> DEFINE named == NextToken(s)
           bound == Parsed(p, NextToken(NextToken(named)), Lowest)
<1>1. Leads(tokens, s, named) /\ Over(tokens, named)
  BY NextTokenLeads DEF Leads
<1>2. Leads(tokens, s, NextToken(NextToken(named))) /\ Over(tokens, NextToken(NextToken(named)))
  BY <1>1, NextTokenLeads DEF Leads
<1>3. Makes(tokens, NextToken(NextToken(named)), bound, e)
  BY <1>2, ParsedMakes DEF Lowest
<1>4. Makes(tokens, s, bound, e)
  BY <1>2, <1>3, LeadsOn DEF Makes
<1>5. \A x : Makes(tokens, s, Made(OptionalSemicolon(bound), Let(x, bound.node)), e)
  BY <1>4, StatementEnds, SinglesAreWhole
<1>6. Makes(tokens, s, Refused(s), e) /\ Makes(tokens, s, Refused(named), e)
  BY <1>1, RefusedMakes, LeadsToItself
<1> QED
  BY <1>5, <1>6, Zenon DEF ParseLetStatement

\* So does parseReturnStatement(),
LEMMA ReturnMakes ==
  ASSUME NEW tokens, NEW e, NEW p, Sound(p, tokens, e), NEW s, Over(tokens, s)
  PROVE  Makes(tokens, s, ParseReturnStatement(p, s), e)
<1> DEFINE returned == Parsed(p, NextToken(s), Lowest)
<1>1. Leads(tokens, s, NextToken(s)) /\ Over(tokens, NextToken(s))
  BY NextTokenLeads DEF Leads
<1>2. Makes(tokens, NextToken(s), returned, e)
  BY <1>1, ParsedMakes DEF Lowest
<1>3. Makes(tokens, s, returned, e)
  BY <1>1, <1>2, LeadsOn DEF Makes
<1> QED
  BY <1>3, StatementEnds, SinglesAreWhole DEF ParseReturnStatement

\* parseExpressionStatement(),
LEMMA ExpressionStatementMakes ==
  ASSUME NEW tokens, NEW e, NEW p, Sound(p, tokens, e), NEW s, Over(tokens, s)
  PROVE  Makes(tokens, s, ParseExpressionStatement(p, s), e)
<1>1. Makes(tokens, s, Parsed(p, s, Lowest), e)
  BY ParsedMakes DEF Lowest
<1> QED
  BY <1>1, StatementEnds, SinglesAreWhole DEF ParseExpressionStatement

\* and parseStatement(), whichever it calls.
LEMMA StatementMakes ==
  ASSUME NEW tokens, NEW e, NEW p, Sound(p, tokens, e), NEW s, Over(tokens, s)
  PROVE  Makes(tokens, s, ParseStatement(p, s), e)
<1>1. CASE CurIs(s, "Let")
  BY <1>1, LetMakes DEF ParseStatement, CurIs
<1>2. CASE ~CurIs(s, "Let") /\ CurIs(s, "Return")
  BY <1>2, ReturnMakes DEF ParseStatement, CurIs
<1>3. CASE ~CurIs(s, "Let") /\ ~CurIs(s, "Return")
  BY <1>3, ExpressionStatementMakes DEF ParseStatement
<1> QED
  BY <1>1, <1>2, <1>3

\* Statements: where no error was recorded each of them was made.
LEMMA StatementsMake ==
  ASSUME NEW tokens, NEW e, NEW p, Sound(p, tokens, e), NEW s, Over(tokens, s), NEW ends \in Ends
  PROVE  MakesStatements(tokens, s, Statements(p, s, ends), ends, e)
<1>1. CASE Cur(s).type \in ends
  <2>1. Statements(p, s, ends) = Made(s, <<>>)
    BY <1>1 DEF Statements
  <2>2. Leads(tokens, s, Made(s, <<>>)) /\ Made(s, <<>>).node = <<>>
    BY MadeLeads
  <2> QED
    BY <1>1, <2>1, <2>2, NoList DEF MakesStatements, MakesList
<1>2. CASE Cur(s).type \notin ends
  <2> DEFINE t == ParseStatement(p, s)
             rest == StatementsFrom(p, NextToken(t), ends)
             list == IF t.node = Nullptr THEN rest.node ELSE <<t.node>> \o rest.node
  <2>1. Statements(p, s, ends) = Made(rest, list)
    BY <1>2 DEF Statements
  <2>2. Makes(tokens, s, t, e) /\ Over(tokens, t)
    BY StatementMakes DEF Makes, Leads
  <2>3. Leads(tokens, t, NextToken(t)) /\ Over(tokens, NextToken(t))
    BY <2>2, NextTokenLeads DEF Leads
  <2>4. MakesList(tokens, NextToken(t), rest, e)
    BY <2>3, StatementsFromMakes DEF MakesStatements
  <2> HIDE DEF t
  <2>5. Leads(tokens, s, rest) /\ Leads(tokens, t, rest) /\ Over(tokens, rest)
    BY <2>2, <2>3, <2>4, LeadsOn DEF Makes, MakesList, Leads
  <2>6. ~rest.errors => Whole(t.node, e) /\ AllWhole(rest.node, e)
    BY <2>2, <2>4, <2>5 DEF Makes, MakesList, Leads
  <2> HIDE DEF rest
  <2>7. ~rest.errors => AllWhole(list, e) /\ list # <<>>
    BY <2>6, ListLonger, NullIsNotWhole
  <2> HIDE DEF list
  <2>8. Leads(tokens, rest, Made(rest, list)) /\ Made(rest, list).node = list
        /\ Made(rest, list).errors = rest.errors
    BY <2>5, MadeLeads
  <2>9. Leads(tokens, s, Made(rest, list))
    BY <2>5, <2>8, LeadsOn
  <2> QED
    BY <2>1, <2>7, <2>8, <2>9 DEF MakesStatements, MakesList
<1> QED
  BY <1>1, <1>2

\* The loop over the arguments: each is whole, or there is an error.
LEMMA ArgumentsMake ==
  ASSUME NEW tokens, NEW e, NEW p, Sound(p, tokens, e), NEW s, Over(tokens, s)
  PROVE  MakesList(tokens, s, Arguments(p, s), e)
<1> DEFINE first == Parsed(p, s, Lowest)
           rest == ArgumentsFrom(p, NextToken(NextToken(first)))
<1>1. Makes(tokens, s, first, e) /\ Over(tokens, first)
  BY ParsedMakes DEF Lowest, Makes, Leads
<1>2. Leads(tokens, first, NextToken(NextToken(first))) /\ Over(tokens, NextToken(NextToken(first)))
  BY <1>1, NextTokenLeads, LeadsOn DEF Leads
<1>3. MakesList(tokens, NextToken(NextToken(first)), rest, e)
  BY <1>2, ArgumentsFromMakes
<1>4. Leads(tokens, s, rest) /\ Leads(tokens, first, rest) /\ Over(tokens, rest)
  BY <1>1, <1>2, <1>3, LeadsOn DEF Makes, MakesList, Leads
<1>5. ~rest.errors => Whole(first.node, e) /\ AllWhole(rest.node, e)
  BY <1>1, <1>3, <1>4 DEF Makes, MakesList, Leads
<1> HIDE DEF rest, first
<1>6. MakesList(tokens, s, Made(rest, <<first.node>> \o rest.node), e)
  <2> DEFINE list == <<first.node>> \o rest.node
  <2>1. ~rest.errors => AllWhole(list, e)
    BY <1>5, ListLonger
  <2> HIDE DEF list
  <2>2. Leads(tokens, rest, Made(rest, list)) /\ Made(rest, list).node = list
        /\ Made(rest, list).errors = rest.errors
    BY <1>4, MadeLeads
  <2>3. MakesList(tokens, s, Made(rest, list), e)
    BY <1>4, <2>1, <2>2, LeadsOn DEF MakesList
  <2> QED
    BY <2>3 DEF list
<1>7. MakesList(tokens, s, Made(first, <<first.node>>), e)
  <2>1. Leads(tokens, first, Made(first, <<first.node>>)) /\ Made(first, <<first.node>>).node = <<first.node>>
        /\ Made(first, <<first.node>>).errors = first.errors
    BY <1>1, MadeLeads
  <2>2. ~first.errors => AllWhole(<<first.node>>, e)
    BY <1>1, ListOfOne DEF Makes
  <2>3. Leads(tokens, s, Made(first, <<first.node>>))
    BY <1>1, <2>1, LeadsOn DEF Makes
  <2> QED
    BY <2>1, <2>2, <2>3 DEF MakesList
<1> QED
  BY <1>6, <1>7 DEF Arguments, first, rest

-----------------------------------------------------------------------------
(* Expressions.                                                            *)

\* The tokens of a line.
LEMMA TokensAt ==
  ASSUME NEW tokens, IsLine(tokens), NEW s, Over(tokens, s), NEW i \in Nat \ {0}
  PROVE  /\ TokenAt(s, i).type \in Words
         /\ i \in DOMAIN tokens => TokenAt(s, i) = tokens[i]
         /\ i \notin DOMAIN tokens => TokenAt(s, i) = Eof
         /\ TokenAt(s, i).type = "Int" => TokenAt(s, i).literal \in Nat
         /\ TokenAt(s, i).type # "Int" => TokenAt(s, i).literal \in Words
<1>1. s.tokens = tokens
  BY DEF Over, Having
<1>2. CASE i \in DOMAIN tokens
  <2>1. TokenAt(s, i) = tokens[i]
    BY <1>1, <1>2 DEF TokenAt, IsLine
  <2> QED
    BY <1>2, <2>1 DEF IsLine, Words
<1>3. CASE i \notin DOMAIN tokens
  <2>1. ~(i <= Len(tokens))
    BY <1>3 DEF IsLine
  <2>2. TokenAt(s, i) = Eof
    BY <1>1, <2>1 DEF TokenAt
  <2>3. /\ Eof.type \in Words /\ (Eof.type # "Int" => Eof.literal \in Words)
        /\ (Eof.type = "Int" => Eof.literal \in Nat)
    BY DEF Eof, Words
  <2> QED
    BY <1>3, <2>2, <2>3, Zenon
<1> QED
  BY <1>2, <1>3

\* The position of the parser is among those of the tokens.
LEMMA Positions ==
  ASSUME NEW tokens, NEW s, Over(tokens, s)
  PROVE  s.pos \in Nat \ {0} /\ s.tokens = tokens /\ s.errors \in BOOLEAN /\ s.thrown \in BOOLEAN
BY DEF Over, Having

\* The levels of the operators.
LEMMA Levels ==
  ASSUME NEW tokens, IsLine(tokens), NEW s, Over(tokens, s)
  PROVE  /\ Precedence(Cur(s)) \in 0..6 /\ Precedence(Peek(s)) \in 0..6
         /\ Precedence(Peek(s)) > 0 /\ ~PeekIs(s, "LParen") => Peek(s).type \in InfixOps
<1>1. \A t : Precedence(t) \in 0..6
  BY DEF Precedence, Precedences, Lowest
<1>2. \A t : Precedence(t) > 0 => t.type \in InfixOps \cup {"LParen"}
  BY DEF Precedence, Precedences, Lowest, InfixOps
<1> QED
  BY <1>1, <1>2 DEF PeekIs

\* parseInfixExpression() gives a whole node of the two operands.
LEMMA InfixMakes ==
  ASSUME NEW tokens, IsLine(tokens), NEW e, NEW p, Sound(p, tokens, e), NEW s, Over(tokens, s),
         ~s.errors => Whole(s.node, e), Cur(s).type \in InfixOps
  PROVE  Makes(tokens, s, ParseInfixExpression(p, s), e)
<1> DEFINE right == Parsed(p, NextToken(s), Precedence(Cur(s)))
<1>1. Leads(tokens, s, NextToken(s)) /\ Over(tokens, NextToken(s))
  BY NextTokenLeads DEF Leads
<1>2. Makes(tokens, NextToken(s), right, e)
  BY <1>1, Levels, ParsedMakes
<1>3. Leads(tokens, s, right) /\ (~right.errors => ~s.errors /\ Whole(right.node, e))
  BY <1>1, <1>2, LeadsOn DEF Makes, Leads
<1> HIDE DEF right
<1>4. ~right.errors => Whole(Infix(s.node, Cur(s).type, right.node), e)
  BY <1>3, InfixIsWhole
<1>5. Makes(tokens, s, Made(right, Infix(s.node, Cur(s).type, right.node)), e)
  BY <1>3, <1>4, MadeMakes
<1> QED
  BY <1>5 DEF ParseInfixExpression, right

\* parseCallExpression() gives a whole node, its arguments up to the parenthesis.
LEMMA CallMakes ==
  ASSUME NEW tokens, NEW e, NEW p, Sound(p, tokens, e), NEW s, Over(tokens, s),
         ~s.errors => Whole(s.node, e)
  PROVE  Makes(tokens, s, ParseCallExpression(p, s), e)
<1> DEFINE args == ParseCallArguments(p, s)
<1>1. Leads(tokens, s, NextToken(s)) /\ Over(tokens, NextToken(s))
  BY NextTokenLeads DEF Leads
<1>2. MakesList(tokens, s, args, e)
  <2>1. CASE PeekIs(s, "LParen")
    <3>1. args = Made(NextToken(s), <<>>)
      BY <2>1 DEF ParseCallArguments
    <3>2. Leads(tokens, NextToken(s), args) /\ args.node = <<>>
      BY <1>1, <3>1, MadeLeads
    <3> QED
      BY <1>1, <3>2, LeadsOn, NoList DEF MakesList
  <2>2. CASE ~PeekIs(s, "LParen")
    <3> DEFINE read == ArgumentsFrom(p, NextToken(s))
    <3>1. args = Expected(read, "RParen")
      BY <2>2 DEF ParseCallArguments
    <3>2. MakesList(tokens, NextToken(s), read, e) /\ Over(tokens, read)
      BY <1>1, ArgumentsFromMakes DEF MakesList, Leads
    <3>3. Leads(tokens, read, args) /\ args.node = read.node
      BY <3>1, <3>2, ExpectedLeads
    <3>4. Leads(tokens, s, args)
      BY <1>1, <3>2, <3>3, LeadsOn DEF MakesList
    <3> QED
      BY <3>2, <3>3, <3>4 DEF MakesList, Leads
  <2> QED
    BY <2>1, <2>2
<1> HIDE DEF args
<1>3. ~args.errors => Whole(s.node, e) /\ AllWhole(args.node, e)
  BY <1>2 DEF MakesList, Leads
<1>4. ~args.errors => Whole(Call(s.node, args.node), e)
  BY <1>3, CallIsWhole
<1>5. Makes(tokens, s, Made(args, Call(s.node, args.node)), e)
  BY <1>2, <1>4, MadeMakes DEF MakesList
<1> QED
  BY <1>5 DEF ParseCallExpression, args

\* One turn of the loop over the operators.
LEMMA NextOperatorMakes ==
  ASSUME NEW tokens, IsLine(tokens), NEW e, NEW p, Sound(p, tokens, e), NEW s, Over(tokens, s),
         ~s.errors => Whole(s.node, e), NEW level \in 0..6
  PROVE  Makes(tokens, s, NextOperator(p, s, level), e)
<1>1. /\ Leads(tokens, s, NextToken(s)) /\ Over(tokens, NextToken(s))
      /\ NextToken(s).node = s.node /\ NextToken(s).errors = s.errors
      /\ NextToken(s).pos = s.pos + 1 /\ NextToken(s).tokens = tokens
  BY NextTokenLeads DEF Leads
<1>2. Cur(NextToken(s)) = Peek(s)
  BY <1>1, Positions DEF Cur, Peek, TokenAt
<1>3. CASE PeekIs(s, "Semicolon") \/ level >= Precedence(Peek(s))
  <2>1. NextOperator(p, s, level) = s
    BY <1>3 DEF NextOperator
  <2> QED
    BY <2>1, LeadsToItself DEF Makes
<1>4. CASE ~(PeekIs(s, "Semicolon") \/ level >= Precedence(Peek(s))) /\ PeekIs(s, "LParen")
  <2>1. NextOperator(p, s, level) = ParseCallExpression(p, NextToken(s))
    BY <1>4 DEF NextOperator
  <2>2. Makes(tokens, NextToken(s), ParseCallExpression(p, NextToken(s)), e)
    BY <1>1, CallMakes
  <2> QED
    BY <1>1, <2>1, <2>2, LeadsOn DEF Makes
<1>5. CASE ~(PeekIs(s, "Semicolon") \/ level >= Precedence(Peek(s))) /\ ~PeekIs(s, "LParen")
  <2>1. NextOperator(p, s, level) = ParseInfixExpression(p, NextToken(s))
    BY <1>5 DEF NextOperator
  <2>2. Precedence(Peek(s)) > 0
    BY <1>5, Levels
  <2>3. Cur(NextToken(s)).type \in InfixOps
    BY <1>2, <1>5, <2>2, Levels
  <2>4. Makes(tokens, NextToken(s), ParseInfixExpression(p, NextToken(s)), e)
    BY <1>1, <2>3, InfixMakes
  <2> QED
    BY <1>1, <2>1, <2>4, LeadsOn DEF Makes
<1> QED
  BY <1>3, <1>4, <1>5

\* The loop over the operators, one turn after the other.
Turned(p, s, level, n, u) ==
  u = [k \in 0..n |-> IF k = 0 THEN s ELSE NextOperator(p, u[k - 1], level)]

\* The function of the turns is what its recursion says.
LEMMA TurnsDefined ==
  ASSUME NEW p, NEW s, NEW level, Cardinality(Operators(s)) \in Nat
  PROVE  \E u : /\ Turned(p, s, level, Cardinality(Operators(s)), u)
                /\ Extended(p, s, level) = u[Cardinality(Operators(s))]
<1> DEFINE N == Cardinality(Operators(s))
           Step(t) == NextOperator(p, t, level)
           Possible == {m \in 0..N : \E u : Turned(p, s, level, m, u)}
<1>1. 0 \in Possible
  <2>1. Turned(p, s, level, 0, [k \in 0..0 |-> s])
    BY DEF Turned
  <2> QED
    BY <2>1
<1>2. ASSUME NEW m \in 0..(N - 1), m \in Possible PROVE m + 1 \in Possible
  <2>1. PICK u : Turned(p, s, level, m, u)
    BY <1>2
  <2> DEFINE w == [k \in 0..(m + 1) |-> IF k <= m THEN u[k] ELSE Step(u[m])]
  <2>2. ASSUME NEW k \in 0..(m + 1)
        PROVE  w[k] = IF k = 0 THEN s ELSE Step(w[k - 1])
    <3>1. CASE k <= m
      <4>1. k \in 0..m /\ (k # 0 => k - 1 \in 0..m /\ k - 1 \in 0..(m + 1) /\ k - 1 <= m)
        BY <3>1
      <4>2. u[k] = IF k = 0 THEN s ELSE Step(u[k - 1])
        BY <2>1, <4>1 DEF Turned
      <4>3. w[k] = u[k] /\ (k # 0 => w[k - 1] = u[k - 1])
        BY <3>1, <4>1
      <4> HIDE DEF w, Step
      <4> QED
        BY <4>2, <4>3
    <3>2. CASE k = m + 1
      <4>1. k # 0 /\ k - 1 = m /\ m \in 0..(m + 1) /\ ~(k <= m)
        BY <3>2
      <4>2. w[k] = Step(u[m]) /\ w[k - 1] = u[m]
        BY <4>1
      <4> HIDE DEF w, Step
      <4> QED
        BY <4>1, <4>2
    <3> QED
      BY <3>1, <3>2
  <2>3. Turned(p, s, level, m + 1, w)
    <3>1. w = [k \in 0..(m + 1) |-> w[k]]
      OBVIOUS
    <3> HIDE DEF w
    <3> QED
      BY <2>2, <3>1 DEF Turned
  <2> HIDE DEF w
  <2> QED
    BY <2>3, <1>2
<1>3. N \in Possible
  <2>1. N \in Nat /\ \A m \in 0..(N - 1) : m \in Possible => m + 1 \in Possible
    BY <1>2
  <2>2. N \in 0..N
    BY <2>1
  <2> HIDE DEF Possible, N
  <2> QED
    BY <1>1, <2>1, <2>2, InductionUpTo
<1>4. PICK u : Turned(p, s, level, N, u)
  BY <1>3
<1> DEFINE Extend(g) == [k \in 0..N |-> IF k = 0 THEN s ELSE NextOperator(p, g[k - 1], level)]
           after == CHOOSE g : g = Extend(g)
<1>5. u = Extend(u)
  BY <1>4 DEF Turned
<1>6. after = Extend(after)
  BY <1>5
<1>7. Extended(p, s, level) = after[N]
  BY DEF Extended
<1>8. Turned(p, s, level, N, after)
  BY <1>6 DEF Turned
<1> QED
  BY <1>7, <1>8

\* There are finitely many operators in a line.
LEMMA OperatorsCounted ==
  ASSUME NEW tokens, IsLine(tokens), NEW s, Over(tokens, s)
  PROVE  Cardinality(Operators(s)) \in Nat
<1>1. Operators(s) \in SUBSET (1..Len(tokens)) /\ Len(tokens) \in Nat
  BY Positions DEF Operators, IsLine
<1>2. IsFiniteSet(1..Len(tokens))
  BY <1>1, FS_Interval
<1>3. IsFiniteSet(Operators(s))
  BY <1>1, <1>2, FS_Subset
<1> QED
  BY <1>3, FS_CardinalityType

\* The loop over the operators, to its end.
LEMMA ExtendedMakes ==
  ASSUME NEW tokens, IsLine(tokens), NEW e, NEW p, Sound(p, tokens, e), NEW s, Over(tokens, s),
         ~s.errors => Whole(s.node, e), NEW level \in 0..6
  PROVE  Makes(tokens, s, Extended(p, s, level), e)
<1> DEFINE N == Cardinality(Operators(s))
<1>1. N \in Nat
  BY OperatorsCounted
<1>2. PICK u : Turned(p, s, level, N, u) /\ Extended(p, s, level) = u[N]
  BY <1>1, TurnsDefined
<1> DEFINE Well == {k \in 0..N : Makes(tokens, s, u[k], e)}
<1> HIDE DEF N
<1>3. 0 \in Well
  <2>1. u[0] = s
    BY <1>1, <1>2 DEF Turned
  <2> QED
    BY <1>1, <2>1, LeadsToItself DEF Makes
<1>4. ASSUME NEW k \in 0..(N - 1), k \in Well PROVE k + 1 \in Well
  <2>1. k + 1 \in 0..N /\ k + 1 # 0 /\ (k + 1) - 1 = k
    BY <1>1
  <2>2. u[k + 1] = NextOperator(p, u[k], level)
    BY <1>2, <2>1 DEF Turned
  <2>3. Makes(tokens, s, u[k], e) /\ Over(tokens, u[k])
    BY <1>4 DEF Makes, Leads
  <2>4. Makes(tokens, u[k], u[k + 1], e)
    BY <2>2, <2>3, NextOperatorMakes DEF Makes
  <2>5. Makes(tokens, s, u[k + 1], e)
    BY <2>3, <2>4, LeadsOn DEF Makes
  <2> QED
    BY <2>1, <2>5
<1>5. N \in 0..N
  BY <1>1
<1>6. N \in Well
  <2> HIDE DEF Well
  <2> QED
    BY <1>1, <1>3, <1>4, <1>5, InductionUpTo
<1> QED
  BY <1>2, <1>6

\* A block: it is empty only if its brace is closed at once.
LEMMA BlockMakes ==
  ASSUME NEW tokens, IsLine(tokens), NEW e, HasEmptyBlock(tokens) => e,
         NEW p, Sound(p, tokens, e), NEW s, Over(tokens, s), Cur(s).type = "LBrace"
  PROVE  Makes(tokens, s, ParseBlockStatement(p, s), e)
<1> DEFINE ends == {"RBrace", "Eof"}
           read == StatementsFrom(p, NextToken(s), ends)
<1>1. /\ Leads(tokens, s, NextToken(s)) /\ Over(tokens, NextToken(s))
      /\ NextToken(s).pos = s.pos + 1 /\ NextToken(s).tokens = tokens
  BY NextTokenLeads DEF Leads
<1>2. MakesStatements(tokens, NextToken(s), read, ends, e)
  BY <1>1, StatementsFromMakes DEF Ends
<1>3. Leads(tokens, s, read)
  BY <1>1, <1>2, LeadsOn DEF MakesStatements, MakesList
<1>4. Cur(NextToken(s)).type \in ends => e
  <2> SUFFICES ASSUME Cur(NextToken(s)).type \in ends PROVE HasEmptyBlock(tokens)
    OBVIOUS
  <2>1. s.pos \in Nat \ {0} /\ Cur(s) = TokenAt(s, s.pos)
    BY Positions DEF Cur
  <2>2. s.pos \in DOMAIN tokens /\ tokens[s.pos].type = "LBrace"
    <3>1. s.pos \notin DOMAIN tokens => Cur(s).type = "Eof"
      BY <2>1, TokensAt DEF Eof
    <3> QED
      BY <2>1, <3>1, TokensAt
  <2>3. Cur(NextToken(s)) = TokenAt(s, s.pos + 1) /\ s.pos + 1 \in Nat \ {0}
    BY <1>1, <2>1, Positions DEF Cur, TokenAt
  <2>4. ASSUME s.pos < Len(tokens) PROVE tokens[s.pos + 1].type = "RBrace"
    <3>1. s.pos + 1 \in DOMAIN tokens
      BY <2>1, <2>4 DEF IsLine
    <3>2. tokens[s.pos + 1].type \in {"RBrace", "Eof"}
      BY <2>3, <3>1, TokensAt
    <3> QED
      BY <3>1, <3>2 DEF IsLine
  <2> QED
    BY <2>2, <2>4 DEF HasEmptyBlock, BlockIsEmpty
<1> HIDE DEF read
<1>5. ~read.errors => Whole(Block(read.node), e)
  BY <1>2, <1>4, BlocksAreWhole DEF MakesStatements, MakesList
<1>6. Makes(tokens, s, Made(read, Block(read.node)), e)
  BY <1>3, <1>5, MadeMakes
<1> QED
  BY <1>6 DEF ParseBlockStatement, read

\* parseIdentifier(), parseIntegerLiteral() and parseBoolean().
LEMMA LiteralMakes ==
  ASSUME NEW tokens, IsLine(tokens), NEW e, NEW s, Over(tokens, s)
  PROVE  Makes(tokens, s, ParseIntegerLiteral(s), e)
<1> DEFINE n == Cur(s).literal
           t == ParseIntegerLiteral(s)
<1>1. Made(s, IntLit(n)) \in Having(tokens, IntLit(n)) /\ Made(s, IntLit(n)).errors = s.errors
  BY MadeLeads
<1>2. t \in Having(tokens, IntLit(n)) /\ t.errors = s.errors /\ t.node = IntLit(n)
  <2> HIDE DEF n
  <2> QED
    BY <1>1 DEF ParseIntegerLiteral, Having, n
<1> HIDE DEF t
<1>3. Leads(tokens, s, t) /\ t.node = IntLit(n)
  BY <1>2 DEF Leads, Over
<1> QED
  BY <1>3, LeavesAreWhole DEF Makes, t

\* parsePrefixExpression().
LEMMA PrefixMakes ==
  ASSUME NEW tokens, NEW e, NEW p, Sound(p, tokens, e), NEW s, Over(tokens, s),
         Cur(s).type \in {"Bang", "Minus"}
  PROVE  Makes(tokens, s, ParsePrefixExpression(p, s), e)
<1> DEFINE right == Parsed(p, NextToken(s), PrefixLevel)
<1>1. Leads(tokens, s, NextToken(s)) /\ Over(tokens, NextToken(s))
  BY NextTokenLeads DEF Leads
<1>2. Makes(tokens, NextToken(s), right, e)
  BY <1>1, ParsedMakes DEF PrefixLevel
<1>3. Leads(tokens, s, right) /\ (~right.errors => Whole(right.node, e))
  BY <1>1, <1>2, LeadsOn DEF Makes
<1> HIDE DEF right
<1>4. ~right.errors => Whole(Prefix(Cur(s).type, right.node), e)
  BY <1>3, PrefixIsWhole
<1>5. Makes(tokens, s, Made(right, Prefix(Cur(s).type, right.node)), e)
  BY <1>3, <1>4, MadeMakes
<1> QED
  BY <1>5 DEF ParsePrefixExpression, right

\* parseGroupedExpression().
LEMMA GroupMakes ==
  ASSUME NEW tokens, NEW e, NEW p, Sound(p, tokens, e), NEW s, Over(tokens, s)
  PROVE  Makes(tokens, s, ParseGroupedExpression(p, s), e)
<1> DEFINE inner == Parsed(p, NextToken(s), Lowest)
<1>1. Leads(tokens, s, NextToken(s)) /\ Over(tokens, NextToken(s))
  BY NextTokenLeads DEF Leads
<1>2. Makes(tokens, NextToken(s), inner, e)
  BY <1>1, ParsedMakes DEF Lowest
<1>3. Makes(tokens, s, inner, e) /\ Over(tokens, inner)
  BY <1>1, <1>2, LeadsOn DEF Makes, Leads
<1> HIDE DEF inner
<1>4. Leads(tokens, inner, NextToken(inner)) /\ NextToken(inner).node = inner.node
      /\ NextToken(inner).errors = inner.errors
  BY <1>3, NextTokenLeads
<1>5. Makes(tokens, s, NextToken(inner), e)
  BY <1>3, <1>4, LeadsOn DEF Makes
<1>6. Makes(tokens, s, Refused(inner), e)
  BY <1>3, RefusedMakes DEF Makes
<1> QED
  BY <1>5, <1>6 DEF ParseGroupedExpression, inner

\* The else of a conditional is a whole block, an error or a null pointer.
LEMMA AlternativeMakes ==
  ASSUME NEW tokens, IsLine(tokens), NEW e, HasEmptyBlock(tokens) => e,
         NEW p, Sound(p, tokens, e), NEW s, Over(tokens, s),
         NEW c, NEW n, ~s.errors => Whole(c, e) /\ Whole(n, e)
  PROVE  Makes(tokens, s, Alternative(p, s, c, n), e)
<1>1. /\ Leads(tokens, s, NextToken(s)) /\ Over(tokens, NextToken(s))
      /\ NextToken(s).pos = s.pos + 1 /\ NextToken(s).tokens = tokens
  BY NextTokenLeads DEF Leads
<1>2. Makes(tokens, s, Made(s, IfElse(c, n, Nullptr)), e)
  BY LeadsToItself, IfIsWhole, MadeMakes
<1>3. Makes(tokens, s, Refused(NextToken(s)), e)
  BY <1>1, RefusedMakes
<1>4. CASE PeekIs(s, "Else") /\ PeekIs(NextToken(s), "LBrace")
  <2> DEFINE b == NextToken(NextToken(s))
             t == ParseBlockStatement(p, b)
  <2>1. /\ Leads(tokens, s, b) /\ Over(tokens, b) /\ b.pos = NextToken(s).pos + 1 /\ b.tokens = tokens
    BY <1>1, NextTokenLeads, LeadsOn DEF Leads
  <2>2. Cur(b).type = "LBrace"
    BY <1>1, <1>4, <2>1 DEF PeekIs, Peek, Cur, TokenAt
  <2>3. Makes(tokens, b, t, e)
    BY <2>1, <2>2, BlockMakes
  <2>4. Leads(tokens, s, t) /\ (~t.errors => ~s.errors /\ Whole(t.node, e))
    BY <2>1, <2>3, LeadsOn DEF Makes, Leads
  <2> HIDE DEF t
  <2>5. ~t.errors => Whole(IfElse(c, n, t.node), e)
    BY <2>4, IfIsWhole
  <2>6. Makes(tokens, s, Made(t, IfElse(c, n, t.node)), e)
    BY <2>4, <2>5, MadeMakes
  <2> QED
    BY <1>4, <2>6 DEF Alternative, t
<1> QED
  BY <1>2, <1>3, <1>4 DEF Alternative

\* parseIfExpression().
LEMMA IfMakes ==
  ASSUME NEW tokens, IsLine(tokens), NEW e, HasEmptyBlock(tokens) => e,
         NEW p, Sound(p, tokens, e), NEW s, Over(tokens, s)
  PROVE  Makes(tokens, s, ParseIfExpression(p, s), e)
<1> DEFINE opened == NextToken(NextToken(s))
           tested == Parsed(p, opened, Lowest)
           closed == NextToken(tested)
           b == NextToken(closed)
           taken == ParseBlockStatement(p, b)
<1>1. Leads(tokens, s, opened) /\ Over(tokens, opened)
  BY NextTokenLeads, LeadsOn DEF Leads
<1>2. Makes(tokens, opened, tested, e)
  BY <1>1, ParsedMakes DEF Lowest
<1> HIDE DEF opened
<1>3. Leads(tokens, s, tested) /\ Over(tokens, tested) /\ (~tested.errors => Whole(tested.node, e))
  BY <1>1, <1>2, LeadsOn DEF Makes, Leads
<1> HIDE DEF tested
<1>4. Leads(tokens, tested, closed) /\ Leads(tokens, s, closed) /\ Over(tokens, closed)
  BY <1>3, NextTokenLeads, LeadsOn DEF Leads
<1> HIDE DEF closed
<1>5. Makes(tokens, s, Refused(s), e) /\ Makes(tokens, s, Refused(tested), e)
      /\ Makes(tokens, s, Refused(closed), e)
  BY <1>3, <1>4, RefusedMakes, LeadsToItself
<1>6. ASSUME PeekIs(closed, "LBrace")
      PROVE  Makes(tokens, s, Alternative(p, taken, tested.node, taken.node), e)
  <2>1. /\ Leads(tokens, closed, b) /\ Over(tokens, b) /\ b.pos = closed.pos + 1
        /\ b.tokens = tokens /\ closed.tokens = tokens
    BY <1>4, NextTokenLeads, Positions DEF Leads
  <2>2. Cur(b).type = "LBrace"
    BY <1>6, <2>1 DEF PeekIs, Peek, Cur, TokenAt
  <2>3. Makes(tokens, b, taken, e)
    BY <2>1, <2>2, BlockMakes
  <2> HIDE DEF taken, b
  <2>4. Leads(tokens, s, taken) /\ Leads(tokens, tested, taken) /\ Over(tokens, taken)
    BY <1>3, <1>4, <2>1, <2>3, LeadsOn DEF Makes, Leads
  <2>5. ~taken.errors => Whole(tested.node, e) /\ Whole(taken.node, e)
    BY <1>3, <2>3, <2>4 DEF Makes, Leads
  <2>6. Makes(tokens, taken, Alternative(p, taken, tested.node, taken.node), e)
    BY <2>4, <2>5, AlternativeMakes
  <2> QED
    BY <2>4, <2>6, LeadsOn DEF Makes
<1> QED
  BY <1>5, <1>6, Zenon DEF ParseIfExpression, opened, tested, closed, b, taken

\* The parameters end after the line, if nowhere before.
LEMMA ParametersCounted ==
  ASSUME NEW tokens, IsLine(tokens), NEW s, Over(tokens, s)
  PROVE  NumberOfParameters(s) \in Nat \ {0}
<1> DEFINE L == Len(s.tokens)
           Final(n) == ~CommaAfter(s, n) /\ \A i \in 1..(n - 1) : CommaAfter(s, i)
           Last == {n \in 1..(L + 1) : ~CommaAfter(s, n)}
<1>1. s.tokens = tokens /\ L \in Nat /\ s.pos \in Nat \ {0}
  BY Positions DEF IsLine
<1> HIDE DEF L
<1>2. L + 1 \in Last
  <2>1. ~(s.pos + 2 * (L + 1) - 1 <= L) /\ L + 1 \in 1..(L + 1)
    BY <1>1
  <2>2. TokenAt(s, s.pos + 2 * (L + 1) - 1) = Eof
    BY <2>1 DEF TokenAt, L
  <2>3. ~CommaAfter(s, L + 1)
    BY <2>2 DEF CommaAfter, Eof
  <2> QED
    BY <2>1, <2>3
<1>3. PICK n \in Last : \A j \in Last : n <= j
  <2>1. Last \in SUBSET Nat /\ Last # {}
    BY <1>1, <1>2
  <2> HIDE DEF Last
  <2> QED
    BY <2>1, LeastNumber
<1>4. n \in 1..(L + 1) /\ Final(n)
  <2>1. n \in 1..(L + 1) /\ ~CommaAfter(s, n)
    OBVIOUS
  <2>2. ASSUME NEW i \in 1..(n - 1) PROVE CommaAfter(s, i)
    <3>1. i \in 1..(L + 1) /\ ~(n <= i)
      BY <1>1, <2>1
    <3> QED
      BY <1>3, <3>1
  <2> QED
    BY <2>1, <2>2
<1>5. NumberOfParameters(s) = CHOOSE m \in 1..(L + 1) : Final(m)
  BY DEF NumberOfParameters, L
<1> HIDE DEF Final
<1>6. NumberOfParameters(s) \in 1..(L + 1)
  BY <1>4, <1>5
<1> QED
  BY <1>1, <1>6

\* The loop over the parameters keeps the tokens and the errors.
LEMMA ParametersLead ==
  ASSUME NEW tokens, IsLine(tokens), NEW s, Over(tokens, s)
  PROVE  Leads(tokens, s, Parameters(s)) /\ Parameters(s).node \in Seq(Words)
<1> DEFINE n == NumberOfParameters(s)
           names == [i \in 1..n |-> ParameterName(TokenAt(s, s.pos + 2 * (i - 1)))]
<1>1. n \in Nat \ {0} /\ s.pos \in Nat \ {0}
  BY ParametersCounted, Positions
<1>2. ASSUME NEW i \in 1..n PROVE ParameterName(TokenAt(s, s.pos + 2 * (i - 1))) \in Words
  <2>1. s.pos + 2 * (i - 1) \in Nat \ {0}
    BY <1>1
  <2>2. /\ TokenAt(s, s.pos + 2 * (i - 1)).type \in Words
        /\ TokenAt(s, s.pos + 2 * (i - 1)).type # "Int" => TokenAt(s, s.pos + 2 * (i - 1)).literal \in Words
    BY <2>1, TokensAt
  <2> QED
    BY <2>2 DEF ParameterName
<1>3. names \in Seq(Words)
  <2> HIDE DEF n
  <2>1. names \in [1..n -> Words]
    BY <1>2
  <2> HIDE DEF names
  <2> QED
    BY <1>1, <2>1
<1>4. Parameters(s) = [s EXCEPT !.pos = @ + 2 * (n - 1), !.node = names]
  BY DEF Parameters
<1> HIDE DEF n, names
<1>5. s.pos + 2 * (n - 1) \in Nat \ {0}
  BY <1>1
<1>6. Parameters(s) \in Having(tokens, names) /\ Parameters(s).errors = s.errors
      /\ Parameters(s).node = names
  BY <1>4, <1>5 DEF Over, Having
<1> QED
  BY <1>3, <1>6 DEF Leads, Over

\* parseFunctionParameters() gives names.
LEMMA FunctionParametersLead ==
  ASSUME NEW tokens, IsLine(tokens), NEW s, Over(tokens, s)
  PROVE  Leads(tokens, s, ParseFunctionParameters(s)) /\ ParseFunctionParameters(s).node \in Seq(Words)
<1>1. Leads(tokens, s, NextToken(s)) /\ Over(tokens, NextToken(s))
  BY NextTokenLeads DEF Leads
<1>2. Leads(tokens, s, Made(NextToken(s), <<>>)) /\ Made(NextToken(s), <<>>).node \in Seq(Words)
  <2>1. Leads(tokens, NextToken(s), Made(NextToken(s), <<>>)) /\ Made(NextToken(s), <<>>).node = <<>>
    BY <1>1, MadeLeads
  <2>2. <<>> \in Seq(Words)
    OBVIOUS
  <2>3. Leads(tokens, s, Made(NextToken(s), <<>>))
    BY <1>1, <2>1, LeadsOn
  <2> QED
    BY <2>1, <2>2, <2>3, Zenon
<1>3. Leads(tokens, s, Expected(Parameters(NextToken(s)), "RParen"))
      /\ Expected(Parameters(NextToken(s)), "RParen").node \in Seq(Words)
  <2> DEFINE t == Parameters(NextToken(s))
  <2>1. Leads(tokens, NextToken(s), t) /\ Over(tokens, t) /\ t.node \in Seq(Words)
    BY <1>1, ParametersLead DEF Leads
  <2> HIDE DEF t
  <2>2. Leads(tokens, t, Expected(t, "RParen")) /\ Expected(t, "RParen").node = t.node
    BY <2>1, ExpectedLeads
  <2>3. Leads(tokens, s, Expected(t, "RParen")) /\ Expected(t, "RParen").node \in Seq(Words)
    BY <1>1, <2>1, <2>2, LeadsOn
  <2> QED
    BY <2>3 DEF t
<1> QED
  BY <1>2, <1>3, Zenon DEF ParseFunctionParameters

\* parseFunctionLiteral().
LEMMA FunctionMakes ==
  ASSUME NEW tokens, IsLine(tokens), NEW e, HasEmptyBlock(tokens) => e,
         NEW p, Sound(p, tokens, e), NEW s, Over(tokens, s)
  PROVE  Makes(tokens, s, ParseFunctionLiteral(p, s), e)
<1> DEFINE ps == ParseFunctionParameters(NextToken(s))
           b == NextToken(ps)
           body == ParseBlockStatement(p, b)
<1>1. Leads(tokens, s, NextToken(s)) /\ Over(tokens, NextToken(s))
  BY NextTokenLeads DEF Leads
<1>2. Leads(tokens, NextToken(s), ps) /\ ps.node \in Seq(Words)
  BY <1>1, FunctionParametersLead
<1>3. Leads(tokens, s, ps) /\ Over(tokens, ps)
  BY <1>1, <1>2, LeadsOn DEF Leads
<1> HIDE DEF ps
<1>4. Makes(tokens, s, Refused(s), e) /\ Makes(tokens, s, Refused(ps), e)
  BY <1>3, RefusedMakes, LeadsToItself
<1>5. ASSUME PeekIs(ps, "LBrace")
      PROVE  Makes(tokens, s, Made(body, Fn(ps.node, body.node)), e)
  <2>1. /\ Leads(tokens, ps, b) /\ Over(tokens, b) /\ b.pos = ps.pos + 1
        /\ b.tokens = tokens /\ ps.tokens = tokens
    BY <1>3, NextTokenLeads, Positions DEF Leads
  <2>2. Cur(b).type = "LBrace"
    BY <1>5, <2>1 DEF PeekIs, Peek, Cur, TokenAt
  <2>3. Makes(tokens, b, body, e)
    BY <2>1, <2>2, BlockMakes
  <2> HIDE DEF body, b
  <2>4. Leads(tokens, s, body)
    BY <1>3, <2>1, <2>3, LeadsOn DEF Makes
  <2>5. ~body.errors => Whole(Fn(ps.node, body.node), e)
    BY <1>2, <2>3, FunctionIsWhole DEF Makes
  <2> QED
    BY <2>4, <2>5, MadeMakes
<1> QED
  BY <1>4, <1>5, Zenon DEF ParseFunctionLiteral, ps, b, body

\* Whichever prefix parser is found for the token gives a whole node.
LEMMA BegunMakes ==
  ASSUME NEW tokens, IsLine(tokens), NEW e, HasEmptyBlock(tokens) => e,
         NEW p, Sound(p, tokens, e), NEW s, Over(tokens, s), Cur(s).type \in Beginnings
  PROVE  Makes(tokens, s, Begun(p, s), e)
<1> DEFINE c == Cur(s).type
<1>1. \A x : Makes(tokens, s, Made(s, Ident(x)), e) /\ Makes(tokens, s, Made(s, BoolLit(x)), e)
  BY LeadsToItself, LeavesAreWhole, MadeMakes
<1>2. CASE c = "Ident"
  BY <1>1, <1>2 DEF Begun, CurIs
<1>3. CASE c = "Int"
  BY <1>3, LiteralMakes DEF Begun, CurIs
<1>4. CASE c \in {"True", "False"}
  BY <1>1, <1>4 DEF Begun, CurIs
<1>5. CASE c \in {"Bang", "Minus"}
  BY <1>5, PrefixMakes DEF Begun, CurIs
<1>6. CASE c = "LParen"
  BY <1>6, GroupMakes DEF Begun, CurIs
<1>7. CASE c = "If"
  BY <1>7, IfMakes DEF Begun, CurIs
<1>8. CASE c = "Function"
  BY <1>8, FunctionMakes DEF Begun, CurIs
<1> QED
  BY <1>2, <1>3, <1>4, <1>5, <1>6, <1>7, <1>8 DEF Beginnings

\* parseExpression(): a prefix, and the operators that follow it.
LEMMA ExpressionMakes ==
  ASSUME NEW tokens, IsLine(tokens), NEW e, HasEmptyBlock(tokens) => e,
         NEW p, Sound(p, tokens, e), NEW s, Over(tokens, s), NEW level \in 0..6
  PROVE  Makes(tokens, s, ParseExpression(p, s, level), e)
<1>1. CASE Cur(s).type \in Beginnings
  <2>1. Makes(tokens, s, Begun(p, s), e)
    BY <1>1, BegunMakes
  <2>2. Over(tokens, Begun(p, s)) /\ (~Begun(p, s).errors => Whole(Begun(p, s).node, e))
    BY <2>1 DEF Makes, Leads
  <2>3. Makes(tokens, Begun(p, s), Extended(p, Begun(p, s), level), e)
    BY <2>2, ExtendedMakes
  <2>4. Makes(tokens, s, Extended(p, Begun(p, s), level), e)
    BY <2>1, <2>3, LeadsOn DEF Makes
  <2> QED
    BY <1>1, <2>4 DEF ParseExpression
<1>2. CASE Cur(s).type \notin Beginnings
  BY <1>2, RefusedMakes, LeadsToItself DEF ParseExpression
<1> QED
  BY <1>1, <1>2

-----------------------------------------------------------------------------
(* The descent, one level of calls after the other.                        *)

Level(tokens, k, p) ==
  [expression |-> [c \in States(tokens) \X (0..6) |->
     IF k = 0 THEN Refused(c[1]) ELSE ParseExpression(p, c[1], c[2])],
   statements |-> [c \in States(tokens) \X Ends |->
     IF k = 0 THEN Refused(c[1]) ELSE Statements(p, c[1], c[2])],
   arguments |-> [c \in States(tokens) |->
     IF k = 0 THEN Refused(c) ELSE Arguments(p, c)]]
Descended(tokens, n, u) == u = [k \in 0..n |-> Level(tokens, k, u[k - 1])]

\* On no level is a parser that can be called on the lowest.
LEMMA NoLevelBelow ==
  ASSUME NEW tokens, NEW p, NEW q PROVE Level(tokens, 0, p) = Level(tokens, 0, q)
BY DEF Level

\* The recursive function of Descent exists.
LEMMA DescentDefined ==
  ASSUME NEW tokens, IsLine(tokens)
  PROVE  \E u : Descended(tokens, Depth(tokens), u) /\ Descent(tokens) = u[Depth(tokens)]
<1> DEFINE N == Depth(tokens)
           Possible == {m \in 0..N : \E u : Descended(tokens, m, u)}
<1>0. N \in Nat
  BY DEF Depth, IsLine
<1> HIDE DEF N
<1>1. 0 \in Possible
  <2> DEFINE u == [k \in 0..0 |-> Level(tokens, 0, 0)]
  <2>1. \A k \in 0..0 : Level(tokens, k, u[k - 1]) = Level(tokens, 0, 0)
    BY NoLevelBelow
  <2>2. [k \in 0..0 |-> Level(tokens, k, u[k - 1])] = u
    BY <2>1, Zenon
  <2> HIDE DEF u
  <2>3. Descended(tokens, 0, u)
    BY <2>2 DEF Descended
  <2> QED
    BY <1>0, <2>3
<1>2. ASSUME NEW m \in 0..(N - 1), m \in Possible PROVE m + 1 \in Possible
  <2>1. PICK u : Descended(tokens, m, u)
    BY <1>2
  <2> DEFINE w == [k \in 0..(m + 1) |-> IF k <= m THEN u[k] ELSE Level(tokens, m + 1, u[m])]
  <2>2. ASSUME NEW k \in 0..(m + 1) PROVE w[k] = Level(tokens, k, w[k - 1])
    <3>1. CASE k <= m /\ k # 0
      <4>1. k \in 0..m /\ k - 1 \in 0..m /\ k - 1 \in 0..(m + 1) /\ k - 1 <= m
        BY <3>1
      <4>2. u[k] = Level(tokens, k, u[k - 1])
        BY <2>1, <4>1 DEF Descended
      <4>3. w[k] = u[k] /\ w[k - 1] = u[k - 1]
        BY <3>1, <4>1
      <4> HIDE DEF w
      <4> QED
        BY <4>2, <4>3
    <3>2. CASE k = m + 1
      <4>1. k - 1 = m /\ m \in 0..(m + 1) /\ ~(k <= m)
        BY <3>2
      <4>2. w[k] = Level(tokens, m + 1, u[m]) /\ w[k - 1] = u[m]
        BY <4>1
      <4> HIDE DEF w
      <4> QED
        BY <3>2, <4>2
    <3>3. CASE k = 0
      <4>1. k \in 0..m /\ k <= m
        BY <3>3
      <4>2. u[k] = Level(tokens, k, u[k - 1]) /\ w[k] = u[k]
        BY <2>1, <4>1 DEF Descended
      <4> HIDE DEF w
      <4> QED
        BY <3>3, <4>2, NoLevelBelow
    <3> QED
      BY <3>1, <3>2, <3>3
  <2>3. Descended(tokens, m + 1, w)
    <3>1. w = [k \in 0..(m + 1) |-> w[k]]
      OBVIOUS
    <3> HIDE DEF w
    <3> QED
      BY <2>2, <3>1 DEF Descended
  <2> HIDE DEF w
  <2> QED
    BY <1>0, <1>2, <2>3
<1>3. N \in Possible
  <2>1. N \in Nat /\ N \in 0..N /\ \A m \in 0..(N - 1) : m \in Possible => m + 1 \in Possible
    BY <1>0, <1>2
  <2> HIDE DEF Possible
  <2> QED
    BY <1>1, <2>1, InductionUpTo
<1>4. PICK u : Descended(tokens, N, u)
  BY <1>3
<1> DEFINE Extend(g) == [k \in 0..N |->
             [expression |-> [c \in States(tokens) \X (0..6) |->
                IF k = 0 THEN Refused(c[1]) ELSE ParseExpression(g[k - 1], c[1], c[2])],
              statements |-> [c \in States(tokens) \X Ends |->
                IF k = 0 THEN Refused(c[1]) ELSE Statements(g[k - 1], c[1], c[2])],
              arguments |-> [c \in States(tokens) |->
                IF k = 0 THEN Refused(c) ELSE Arguments(g[k - 1], c)]]]
           upTo == CHOOSE g : g = Extend(g)
<1>5. u = Extend(u)
  BY <1>4, Zenon DEF Descended, Level
<1>6. upTo = Extend(upTo)
  <2> HIDE DEF Extend
  <2> QED
    BY <1>5, Zenon
<1>7. Descent(tokens) = upTo[N]
  BY Zenon DEF Descent, N
<1>8. Descended(tokens, N, upTo)
  <2> HIDE DEF upTo
  <2> QED
    BY <1>6, Zenon DEF Descended, Level
<1> HIDE DEF upTo
<1> QED
  BY <1>7, <1>8, Zenon DEF N

\* A state in the set of those of a line is over its tokens.
LEMMA StatesAreOver ==
  ASSUME NEW tokens, NEW s \in States(tokens) PROVE Over(tokens, s)
BY DEF Over, Having, States

\* What ends a list of statements.
LEMMA EndsAreSets == ASSUME NEW ends \in Ends PROVE ends \in SUBSET {"RBrace", "Eof"}
BY DEF Ends

\* No call of the descent gives a tree with a hole in it without an error.
LEMMA DescentIsSound ==
  ASSUME NEW tokens, IsLine(tokens), NEW e, HasEmptyBlock(tokens) => e
  PROVE  Sound(Descent(tokens), tokens, e)
<1> DEFINE N == Depth(tokens)
<1>1. N \in Nat
  BY DEF Depth, IsLine
<1>2. PICK u : Descended(tokens, N, u) /\ Descent(tokens) = u[N]
  BY DescentDefined
<1> HIDE DEF N
<1> DEFINE Well == {k \in 0..N : Sound(u[k], tokens, e)}
<1>3. ASSUME NEW k \in 0..N
      PROVE  /\ \A s \in States(tokens), level \in 0..6 :
                  u[k].expression[<<s, level>>] =
                    IF k = 0 THEN Refused(s) ELSE ParseExpression(u[k - 1], s, level)
             /\ \A s \in States(tokens), ends \in Ends :
                  u[k].statements[<<s, ends>>] =
                    IF k = 0 THEN Refused(s) ELSE Statements(u[k - 1], s, ends)
             /\ \A s \in States(tokens) :
                  u[k].arguments[s] = IF k = 0 THEN Refused(s) ELSE Arguments(u[k - 1], s)
  <2>1. u[k] = Level(tokens, k, u[k - 1])
    BY <1>2 DEF Descended
  <2> DEFINE Calls(v, q) ==
        /\ \A s \in States(tokens), level \in 0..6 :
             v.expression[<<s, level>>] = IF k = 0 THEN Refused(s) ELSE ParseExpression(q, s, level)
        /\ \A s \in States(tokens), ends \in Ends :
             v.statements[<<s, ends>>] = IF k = 0 THEN Refused(s) ELSE Statements(q, s, ends)
        /\ \A s \in States(tokens) : v.arguments[s] = IF k = 0 THEN Refused(s) ELSE Arguments(q, s)
  <2>2. \A q : Calls(Level(tokens, k, q), q)
    BY DEF Level
  <2>3. Calls(u[k], u[k - 1])
    <3> HIDE DEF Calls
    <3> QED
      BY <2>1, <2>2, Zenon
  <2> QED
    BY <2>3, Zenon
<1>4. 0 \in Well
  <2>1. ASSUME NEW s \in States(tokens), NEW ends \in Ends
        PROVE  /\ Makes(tokens, s, Refused(s), e) /\ MakesList(tokens, s, Refused(s), e)
               /\ MakesStatements(tokens, s, Refused(s), ends, e)
    BY StatesAreOver, RefusedLeads DEF Makes, MakesList, MakesStatements
  <2>2. {"Eof"} \in Ends
    BY DEF Ends
  <2>3. /\ \A s \in States(tokens), level \in 0..6 : u[0].expression[<<s, level>>] = Refused(s)
        /\ \A s \in States(tokens), ends \in Ends : u[0].statements[<<s, ends>>] = Refused(s)
        /\ \A s \in States(tokens) : u[0].arguments[s] = Refused(s)
    <3>1. 0 \in 0..N
      BY <1>1
    <3> QED
      BY <1>3, <3>1
  <2>4. Sound(u[0], tokens, e)
    BY <2>1, <2>2, <2>3, Zenon DEF Sound
  <2> QED
    BY <1>1, <2>4
<1>5. ASSUME NEW k \in 0..(N - 1), k \in Well PROVE k + 1 \in Well
  <2>1. k + 1 \in 0..N /\ k + 1 # 0 /\ (k + 1) - 1 = k
    BY <1>1
  <2>2. Sound(u[k], tokens, e)
    BY <1>5
  <2>3. /\ \A s \in States(tokens), level \in 0..6 :
             u[k + 1].expression[<<s, level>>] = ParseExpression(u[k], s, level)
        /\ \A s \in States(tokens), ends \in Ends :
             u[k + 1].statements[<<s, ends>>] = Statements(u[k], s, ends)
        /\ \A s \in States(tokens) : u[k + 1].arguments[s] = Arguments(u[k], s)
    BY <1>3, <2>1
  <2>4. /\ \A s \in States(tokens), level \in 0..6 :
             Makes(tokens, s, ParseExpression(u[k], s, level), e)
        /\ \A s \in States(tokens), ends \in Ends :
             MakesStatements(tokens, s, Statements(u[k], s, ends), ends, e)
        /\ \A s \in States(tokens) : MakesList(tokens, s, Arguments(u[k], s), e)
    BY <2>2, StatesAreOver, ExpressionMakes, StatementsMake, ArgumentsMake
  <2>5. Sound(u[k + 1], tokens, e)
    BY <2>3, <2>4, Zenon DEF Sound
  <2> QED
    BY <2>1, <2>5
<1>6. N \in Well
  <2>1. N \in 0..N
    BY <1>1
  <2> HIDE DEF Well
  <2> QED
    BY <1>1, <1>4, <1>5, <2>1, InductionUpTo
<1> QED
  BY <1>2, <1>6

\* The program a line was parsed to is whole.
LEMMA ParsedIsWhole ==
  ASSUME NEW tokens, IsLine(tokens), NEW e, HasEmptyBlock(tokens) => e,
         ~ParseProgram(tokens).errors
  PROVE  AllWhole(ParseProgram(tokens).node, e)
<1>1. Sound(Descent(tokens), tokens, e)
  BY DescentIsSound
<1>2. Over(tokens, Start(tokens)) /\ {"Eof"} \in Ends
  BY StartIsOver DEF Ends
<1>3. MakesStatements(tokens, Start(tokens), ParseProgram(tokens), {"Eof"}, e)
  BY <1>1, <1>2, StatementsMake DEF ParseProgram
<1> QED
  BY <1>3 DEF MakesStatements, MakesList

-----------------------------------------------------------------------------
(* The memory of the evaluator.                                            *)

Bindable(o) == o.type \notin {"nullptr", "Error"}

\* An object whose parts are in a set, when there are n environments: there is
\* no object that is none unless a block may be empty.
Object(o, O, S, n, e) ==
  \/ o.type \in {"Integer", "Boolean", "Null", "Error"}
  \/ o = NullObject /\ e
  \/ o.type = "Return" /\ o.object \in O
  \/ o.type = "Function" /\ o.body \in S /\ o.parameters \in Seq(Words) /\ o.env \in 1..n
Objects(O, S, n, e) == \A o \in O : Object(o, O, S, n, e)

\* Names are bound to objects that are there and are no errors.
Repos(R, O) == \A r \in R : \A x \in DOMAIN r : r[x] \in O /\ Bindable(r[x])
Scoped(envs) ==
  /\ Len(envs) > 0
  /\ \A i \in 1..Len(envs) : envs[i].outer \in 0..(i - 1) /\ (envs[i].outer = 0 <=> i = Global)

Fates == {"well", "nothing", "trap", "depth", "arguments", "printing"}
Environments(R) == [repo : R, outer : Nat]
Activations(N, O) == [node : N, env : Nat, given : Seq(O)]
Memories(N, O, R) ==
  [envs : Seq(Environments(R)), made : Nat, object : O \cup {NullObject},
   running : Seq(Activations(N, O)), fate : Fates]

\* What holds of the memory at all times.
Store(m, N, S, O, R, e) ==
  /\ m \in Memories(N, O, R)
  /\ Closed(S, e) /\ Objects(O, S, Len(m.envs), e) /\ Repos(R, O)
  /\ Scoped(m.envs)
  /\ Len(m.running) <= MaxDepth
  /\ m.fate = "nothing" => e

\* The objects that a call was given, or will have been once the call that it
\* waits for returns: what it needs of them when it goes on.
Fits(a, k) ==
  /\ a.node.kind \in {"Infix", "If"} => k <= 2
  /\ a.node.kind = "Let" => k <= 1
  /\ a.node.kind \in {"Block", "Program"} => k <= Len(a.node.stmts)
  /\ a.node.kind = "Call" => \A j \in 1..(k - 1) : Bindable(a.given[j])
GivenTo(m, i) == Len(m.running[i].given) + (IF i = Len(m.running) THEN 0 ELSE 1)

\* The first call is of the program P, the others of nodes of S: in the
\* environment of the session if they are of the program itself, else in one
\* that there was not before.
Placed(a, i, S, P, n, was) ==
  /\ IF i = 1 THEN a.node = P /\ a.env = Global ELSE a.node \in S
  /\ a.env \in 1..n
  /\ IF a.env = Global THEN a.node \in NodesOf(P, i - 1, {"Function"}) ELSE a.env > Len(was)
Nested(m, S, P, was) ==
  \A i \in 1..Len(m.running) :
    Placed(m.running[i], i, S, P, Len(m.envs), was) /\ Fits(m.running[i], GivenTo(m, i))

\* The environments that there were: only the names that P itself binds have
\* changed, in the environment of the session.
Traced(m, P, was) ==
  /\ DOMAIN was = 1..Len(was) /\ Len(was) \in 1..Len(m.envs)
  /\ \A i \in 1..Len(was) : \A x \in DOMAIN was[i].repo \cup DOMAIN m.envs[i].repo :
       \/ /\ x \in DOMAIN was[i].repo /\ x \in DOMAIN m.envs[i].repo
          /\ m.envs[i].repo[x] = was[i].repo[x]
       \/ i = Global /\ x \in LetsOf(P)

Good(m, S, O, R, P, was, e) ==
  /\ Store(m, S \cup {P}, S, O, R, e)
  /\ P.kind = "Program" /\ P.stmts \in Seq(S)
  /\ Nested(m, S, P, was) /\ Traced(m, P, was)

-----------------------------------------------------------------------------
(* What happens to the pending calls.                                      *)

\* The parts of a memory.
LEMMA MemoryParts ==
  ASSUME NEW N, NEW O, NEW R, NEW m \in Memories(N, O, R)
  PROVE  /\ m.envs \in Seq(Environments(R)) /\ Len(m.envs) \in Nat /\ DOMAIN m.envs = 1..Len(m.envs)
         /\ m.running \in Seq(Activations(N, O)) /\ Len(m.running) \in Nat
         /\ DOMAIN m.running = 1..Len(m.running)
         /\ m.made \in Nat /\ m.fate \in Fates /\ m.object \in O \cup {NullObject}
<1>1. /\ m.envs \in Seq(Environments(R)) /\ m.running \in Seq(Activations(N, O))
      /\ m.made \in Nat /\ m.fate \in Fates /\ m.object \in O \cup {NullObject}
  BY DEF Memories
<1> QED
  BY <1>1, LenProperties

\* The parts of a pending call.
LEMMA ActivationParts ==
  ASSUME NEW N, NEW O, NEW R, NEW m \in Memories(N, O, R), NEW i \in 1..Len(m.running)
  PROVE  /\ m.running[i] \in Activations(N, O) /\ m.running[i].node \in N
         /\ m.running[i].env \in Nat /\ m.running[i].given \in Seq(O)
         /\ Len(m.running[i].given) \in Nat
<1>1. m.running[i] \in Activations(N, O)
  BY MemoryParts, ElementOfSeq
<1>2. m.running[i].given \in Seq(O)
  BY <1>1 DEF Activations
<1> QED
  BY <1>1, <1>2, LenProperties DEF Activations

\* A fate strikes.
LEMMA StruckIsGood ==
  ASSUME NEW m, NEW S, NEW O, NEW R, NEW P, NEW was, NEW e, Good(m, S, O, R, P, was, e),
         NEW fate \in Fates, fate = "nothing" => e
  PROVE  Good(Struck(m, fate), S, O, R, P, was, e) /\ Struck(m, fate).fate = fate
<1> DEFINE N == S \cup {P}
           d == Struck(m, fate)
<1>1. m \in Memories(N, O, R)
  BY DEF Good, Store
<1> HIDE DEF N
<1>2. /\ d \in Memories(N, O, R) /\ d.envs = m.envs /\ d.running = m.running /\ d.fate = fate
  BY <1>1 DEF Memories, Struck
<1> HIDE DEF d
<1>3. Store(d, N, S, O, R, e)
  BY <1>2 DEF Good, Store, N
<1>4. Nested(d, S, P, was) /\ Traced(d, P, was)
  BY <1>2 DEF Good, Nested, Traced, GivenTo
<1> QED
  BY <1>2, <1>3, <1>4 DEF Good, N, d

\* A call is made of a node in the same or another environment.
LEMMA EvaluateIsGood ==
  ASSUME NEW m, NEW S, NEW O, NEW R, NEW P, NEW was, NEW e, Good(m, S, O, R, P, was, e),
         m.running # <<>>, Fits(Innermost(m), Len(Innermost(m).given) + 1),
         NEW n, NEW env, Placed(Activation(n, env), Len(m.running) + 1, S, P, Len(m.envs), was)
  PROVE  Good(Evaluate(m, n, env), S, O, R, P, was, e)
<1> DEFINE N == S \cup {P}
           d == Evaluate(m, n, env)
           L == Len(m.running)
           a == Activation(n, env)
<1>1. m \in Memories(N, O, R) /\ L <= MaxDepth
  BY DEF Good, Store
<1>2. L \in Nat \ {0} /\ m.running \in Seq(Activations(N, O)) /\ Len(m.envs) \in Nat
  BY <1>1, MemoryParts, EmptySeq
<1>3. CASE L = MaxDepth
  <2>1. d = Struck(m, "depth")
    BY <1>3 DEF Evaluate
  <2> QED
    BY <2>1, StruckIsGood DEF Fates
<1>4. CASE L # MaxDepth
  <2>1. a.node = n /\ a.env = env /\ a.given = <<>> /\ a \in Activations(N, O)
    <3>1. a.node = n /\ a.env = env /\ a.given = <<>>
      BY DEF Activation
    <3>2. n \in N /\ env \in Nat
      BY <1>2, <3>1 DEF Placed
    <3>3. <<>> \in Seq(O)
      OBVIOUS
    <3> HIDE DEF N
    <3> QED
      BY <3>1, <3>2, <3>3 DEF Activation, Activations
  <2> HIDE DEF a, N
  <2>2. /\ Append(m.running, a) \in Seq(Activations(N, O)) /\ Len(Append(m.running, a)) = L + 1
        /\ \A i \in 1..L : Append(m.running, a)[i] = m.running[i]
        /\ Append(m.running, a)[L + 1] = a
    BY <1>2, <2>1, AppendProperties
  <2>3. d = [m EXCEPT !.running = Append(@, a)]
    BY <1>4 DEF Evaluate, a
  <2> HIDE DEF d, L
  <2>4. /\ d \in Memories(N, O, R) /\ d.envs = m.envs /\ d.running = Append(m.running, a)
        /\ d.fate = m.fate
    BY <1>1, <2>2, <2>3 DEF Memories
  <2>5. Store(d, N, S, O, R, e)
    <3>1. L + 1 <= MaxDepth
      BY <1>1, <1>2, <1>4, SessionAssumption
    <3> QED
      BY <2>2, <2>4, <3>1 DEF Good, Store, N
  <2>6. Traced(d, P, was)
    BY <2>4 DEF Good, Traced
  <2>7. Nested(d, S, P, was)
    <3> SUFFICES ASSUME NEW i \in 1..(L + 1)
                 PROVE  /\ Placed(d.running[i], i, S, P, Len(m.envs), was)
                        /\ Fits(d.running[i], GivenTo(d, i))
      BY <2>2, <2>4 DEF Nested
    <3>1. CASE i = L + 1
      <4>1. d.running[i] = a /\ GivenTo(d, i) = 0
        <5>1. d.running[i] = a /\ i = Len(d.running)
          BY <2>2, <2>4, <3>1
        <5>2. Len(a.given) = 0
          BY <2>1, EmptySeq
        <5> QED
          BY <5>1, <5>2 DEF GivenTo
      <4>2. Fits(a, 0)
        <5>1. a.node.kind \in {"Block", "Program"} => Len(a.node.stmts) \in Nat
          <6>1. a.node \in S => Proper(a.node, S, e)
            BY DEF Good, Store, Closed
          <6>2. a.node.kind = "Program" \/ a.node.kind = "Block" => a.node = P \/ a.node.stmts \in Seq(S)
            BY <2>1, <6>1 DEF Proper, Leaves, Single, Placed, a, Activation
          <6>3. P.stmts \in Seq(S)
            BY DEF Good
          <6> QED
            BY <6>2, <6>3, LenProperties
        <5> QED
          BY <5>1 DEF Fits
      <4> QED
        BY <3>1, <4>1, <4>2 DEF a, L
    <3>2. CASE i # L + 1
      <4>1. i \in 1..L
        BY <1>2, <3>2
      <4>2. d.running[i] = m.running[i]
        BY <2>2, <2>4, <4>1
      <4>3. Placed(m.running[i], i, S, P, Len(m.envs), was) /\ Fits(m.running[i], GivenTo(m, i))
        BY <4>1 DEF Good, Nested, L
      <4>4. GivenTo(d, i) = Len(m.running[i].given) + 1
        BY <2>2, <2>4, <3>2, <4>2 DEF GivenTo
      <4>5. i # L => GivenTo(m, i) = Len(m.running[i].given) + 1
        BY DEF GivenTo, L
      <4>6. i = L => Fits(m.running[i], Len(m.running[i].given) + 1)
        BY DEF Innermost, L
      <4> QED
        BY <4>2, <4>3, <4>4, <4>5, <4>6
    <3> QED
      BY <3>1, <3>2
  <2> QED
    BY <2>5, <2>6, <2>7 DEF Good, N, d
<1> QED
  BY <1>3, <1>4

\* The innermost call returns.
LEMMA GivesIsGood ==
  ASSUME NEW m, NEW S, NEW O, NEW R, NEW P, NEW was, NEW e, Good(m, S, O, R, P, was, e),
         m.running # <<>>, NEW o, o \in O \/ (o = NullObject /\ Len(m.running) = 1)
  PROVE  Good(Gives(m, o), S, O, R, P, was, e) /\ Gives(m, o).fate = m.fate
<1> DEFINE N == S \cup {P}
           d == Gives(m, o)
           L == Len(m.running)
           callers == SubSeq(m.running, 1, L - 1)
<1>1. m \in Memories(N, O, R) /\ L <= MaxDepth
  BY DEF Good, Store
<1>2. L \in Nat \ {0} /\ m.running \in Seq(Activations(N, O)) /\ Len(m.envs) \in Nat
  BY <1>1, MemoryParts, EmptySeq
<1>3. /\ callers \in Seq(Activations(N, O)) /\ Len(callers) = L - 1
      /\ \A i \in 1..(L - 1) : callers[i] = m.running[i]
  <2> HIDE DEF L, N
  <2>1. \A i \in 1..(L - 1) : m.running[i] \in Activations(N, O)
    BY <1>2, ElementOfSeq DEF L
  <2>2. /\ callers \in Seq(Activations(N, O)) /\ Len(callers) = IF 1 <= L - 1 THEN (L - 1) - 1 + 1 ELSE 0
        /\ \A i \in 1..((L - 1) - 1 + 1) : callers[i] = m.running[1 + i - 1]
    BY <1>2, <2>1, SubSeqProperties
  <2> HIDE DEF callers
  <2> QED
    BY <1>2, <2>2
<1> HIDE DEF N
<1>4. CASE callers = <<>>
  <2>1. d = [m EXCEPT !.running = callers, !.object = o]
    BY <1>4 DEF Gives
  <2>2. Len(callers) = 0 /\ L = 1
    <3> HIDE DEF callers, L
    <3>1. Len(callers) = 0
      BY <1>4, EmptySeq
    <3> QED
      BY <1>2, <1>3, <3>1
  <2> HIDE DEF d, callers, L
  <2>3. /\ d \in Memories(N, O, R) /\ d.envs = m.envs /\ d.running = callers /\ d.fate = m.fate
    BY <1>1, <1>3, <2>1 DEF Memories
  <2>4. Store(d, N, S, O, R, e)
    BY <1>1, <2>2, <2>3, SessionAssumption DEF Good, Store, N
  <2>5. Nested(d, S, P, was) /\ Traced(d, P, was)
    BY <2>2, <2>3 DEF Good, Nested, Traced
  <2> QED
    BY <2>3, <2>4, <2>5 DEF Good, N, d
<1>5. CASE callers # <<>>
  <2> DEFINE K == L - 1
             a == [callers[K] EXCEPT !.given = Append(@, o)]
             left == [callers EXCEPT ![K] = a]
  <2>1. K \in 1..Len(callers) /\ K = Len(callers) /\ K + 1 = L /\ K # L /\ L # 1
    <3> HIDE DEF callers, L
    <3>1. Len(callers) # 0
      BY <1>3, <1>5, EmptySeq
    <3> QED
      BY <1>2, <1>3, <3>1
  <2>2. o \in O
    BY <2>1
  <2>3. d = [m EXCEPT !.running = left]
    BY <1>5, <2>1 DEF Gives
  <2>4. /\ callers[K] \in Activations(N, O) /\ callers[K] = m.running[K] /\ callers[K].given \in Seq(O)
    BY <1>3, <2>1, ElementOfSeq DEF Activations
  <2>5. /\ Append(callers[K].given, o) \in Seq(O)
        /\ Len(Append(callers[K].given, o)) = Len(callers[K].given) + 1
        /\ \A j \in 1..Len(callers[K].given) : Append(callers[K].given, o)[j] = callers[K].given[j]
    <3> DEFINE given == callers[K].given
    <3>1. given \in Seq(O)
      BY <2>4
    <3> HIDE DEF given
    <3>2. /\ Append(given, o) \in Seq(O) /\ Len(Append(given, o)) = Len(given) + 1
          /\ \A j \in 1..Len(given) : Append(given, o)[j] = given[j]
      BY <2>2, <3>1, AppendProperties
    <3> QED
      BY <3>2 DEF given
  <2> HIDE DEF callers, K
  <2>6. /\ a \in Activations(N, O) /\ a.node = callers[K].node /\ a.env = callers[K].env
        /\ a.given = Append(callers[K].given, o)
    BY <2>4, <2>5 DEF Activations
  <2> HIDE DEF a
  <2>7. /\ left \in Seq(Activations(N, O)) /\ Len(left) = K
        /\ \A i \in 1..K : left[i] = IF i = K THEN a ELSE callers[i]
    BY <1>3, <2>1, <2>6, ExceptSeq
  <2> HIDE DEF left, d, L
  <2>8. /\ d \in Memories(N, O, R) /\ d.envs = m.envs /\ d.running = left /\ d.fate = m.fate
    BY <1>1, <2>3, <2>7 DEF Memories
  <2>9. Store(d, N, S, O, R, e)
    <3>1. Len(left) <= MaxDepth
      BY <1>1, <1>2, <2>1, <2>7, SessionAssumption
    <3> QED
      BY <2>8, <3>1 DEF Good, Store, N
  <2>10. Traced(d, P, was)
    BY <2>8 DEF Good, Traced
  <2>11. Nested(d, S, P, was)
    <3> SUFFICES ASSUME NEW i \in 1..K
                 PROVE  /\ Placed(left[i], i, S, P, Len(m.envs), was)
                        /\ Fits(left[i], GivenTo(d, i))
      BY <2>7, <2>8 DEF Nested
    <3>1. /\ i \in 1..L /\ i # L /\ callers[i] = m.running[i]
      BY <1>2, <1>3, <2>1
    <3>2. /\ Placed(m.running[i], i, S, P, Len(m.envs), was)
          /\ Fits(m.running[i], Len(m.running[i].given) + 1)
      BY <3>1 DEF Good, Nested, GivenTo, L
    <3>3. CASE i # K
      <4>1. left[i] = m.running[i] /\ GivenTo(d, i) = Len(m.running[i].given) + 1
        BY <2>7, <2>8, <3>1, <3>3 DEF GivenTo
      <4> QED
        BY <3>2, <4>1
    <3>4. CASE i = K
      <4>1. left[i] = a /\ GivenTo(d, i) = Len(m.running[i].given) + 1
        BY <2>5, <2>6, <2>7, <2>8, <3>1, <3>4 DEF GivenTo
      <4>2. Placed(a, i, S, P, Len(m.envs), was)
        BY <2>6, <3>1, <3>2, <3>4 DEF Placed
      <4>3. Len(m.running[i].given) \in Nat
        BY <1>1, <3>1, ActivationParts DEF L
      <4>4. \A j \in 1..((Len(m.running[i].given) + 1) - 1) : a.given[j] = m.running[i].given[j]
        BY <2>5, <2>6, <3>1, <3>4, <4>3
      <4>5. a.node = m.running[i].node
        BY <2>6, <3>1, <3>4
      <4>6. Fits(a, Len(m.running[i].given) + 1)
        BY <3>2, <4>4, <4>5 DEF Fits
      <4> QED
        BY <4>1, <4>2, <4>6
    <3> QED
      BY <3>3, <3>4
  <2> QED
    BY <2>8, <2>9, <2>10, <2>11 DEF Good, N, d
<1> QED
  BY <1>4, <1>5

-----------------------------------------------------------------------------
(* The nodes of a tree, height by height.                                  *)

Walked(root, closed, n, u) ==
  u = [k \in 0..n |-> IF k = 0 THEN {root} ELSE u[k - 1] \cup ChildrenOf(u[k - 1], closed)]

\* The recursive function of NodesOf exists.
LEMMA WalkDefined ==
  ASSUME NEW root, NEW closed, NEW n \in Nat
  PROVE  \E u : Walked(root, closed, n, u) /\ NodesOf(root, n, closed) = u[n]
<1> DEFINE Step(t) == t \cup ChildrenOf(t, closed)
           Possible == {m \in 0..n : \E u : Walked(root, closed, m, u)}
<1>1. 0 \in Possible
  <2>1. Walked(root, closed, 0, [k \in 0..0 |-> {root}])
    BY DEF Walked
  <2> QED
    BY <2>1
<1>2. ASSUME NEW m \in 0..(n - 1), m \in Possible PROVE m + 1 \in Possible
  <2>1. PICK u : Walked(root, closed, m, u)
    BY <1>2
  <2> DEFINE w == [k \in 0..(m + 1) |-> IF k <= m THEN u[k] ELSE Step(u[m])]
  <2>2. ASSUME NEW k \in 0..(m + 1)
        PROVE  w[k] = IF k = 0 THEN {root} ELSE Step(w[k - 1])
    <3>1. CASE k <= m
      <4>1. k \in 0..m /\ (k # 0 => k - 1 \in 0..m /\ k - 1 \in 0..(m + 1) /\ k - 1 <= m)
        BY <3>1
      <4>2. u[k] = IF k = 0 THEN {root} ELSE Step(u[k - 1])
        BY <2>1, <4>1 DEF Walked
      <4>3. w[k] = u[k] /\ (k # 0 => w[k - 1] = u[k - 1])
        BY <3>1, <4>1
      <4> HIDE DEF w, Step
      <4> QED
        BY <4>2, <4>3
    <3>2. CASE k = m + 1
      <4>1. k # 0 /\ k - 1 = m /\ m \in 0..(m + 1) /\ ~(k <= m)
        BY <3>2
      <4>2. w[k] = Step(u[m]) /\ w[k - 1] = u[m]
        BY <4>1
      <4> HIDE DEF w, Step
      <4> QED
        BY <4>1, <4>2
    <3> QED
      BY <3>1, <3>2
  <2>3. Walked(root, closed, m + 1, w)
    <3>1. w = [k \in 0..(m + 1) |-> w[k]]
      OBVIOUS
    <3> HIDE DEF w
    <3> QED
      BY <2>2, <3>1 DEF Walked
  <2> HIDE DEF w
  <2> QED
    BY <2>3, <1>2
<1>3. n \in Possible
  <2>1. n \in 0..n /\ \A m \in 0..(n - 1) : m \in Possible => m + 1 \in Possible
    BY <1>2
  <2> HIDE DEF Possible
  <2> QED
    BY <1>1, <2>1, InductionUpTo
<1>4. PICK u : Walked(root, closed, n, u)
  BY <1>3
<1> DEFINE Extend(g) == [k \in 0..n |->
             IF k = 0 THEN {root}
             ELSE LET above == g[k - 1] IN above \cup ChildrenOf(above, closed)]
           downTo == CHOOSE g : g = Extend(g)
<1>5. u = Extend(u)
  BY <1>4 DEF Walked
<1>6. downTo = Extend(downTo)
  <2> HIDE DEF Extend
  <2> QED
    BY <1>5, Zenon
<1>7. NodesOf(root, n, closed) = downTo[n]
  BY DEF NodesOf
<1>8. Walked(root, closed, n, downTo)
  BY <1>6 DEF Walked
<1> QED
  BY <1>7, <1>8

\* From one height to the next.
LEMMA NodesOfStep ==
  ASSUME NEW root, NEW closed, NEW n \in Nat
  PROVE  /\ NodesOf(root, 0, closed) = {root}
         /\ NodesOf(root, n + 1, closed) =
              NodesOf(root, n, closed) \cup ChildrenOf(NodesOf(root, n, closed), closed)
<1>1. PICK u : Walked(root, closed, n, u) /\ NodesOf(root, n, closed) = u[n]
  BY WalkDefined
<1>2. PICK w : Walked(root, closed, n + 1, w) /\ NodesOf(root, n + 1, closed) = w[n + 1]
  BY WalkDefined
<1>3. \A k \in 0..n : u[k] = IF k = 0 THEN {root} ELSE u[k - 1] \cup ChildrenOf(u[k - 1], closed)
  BY <1>1 DEF Walked
<1>4. \A k \in 0..(n + 1) : w[k] = IF k = 0 THEN {root} ELSE w[k - 1] \cup ChildrenOf(w[k - 1], closed)
  BY <1>2 DEF Walked
<1> DEFINE Same == {k \in 0..n : u[k] = w[k]}
<1>5. 0 \in Same
  <2>1. 0 \in 0..n /\ 0 \in 0..(n + 1)
    OBVIOUS
  <2>2. u[0] = {root} /\ w[0] = {root}
    BY <1>3, <1>4, <2>1
  <2> QED
    BY <2>1, <2>2
<1>6. ASSUME NEW k \in 0..(n - 1), k \in Same PROVE k + 1 \in Same
  <2>1. k + 1 \in 0..n /\ k + 1 \in 0..(n + 1) /\ k + 1 # 0 /\ (k + 1) - 1 = k /\ u[k] = w[k]
    BY <1>6
  <2>2. u[k + 1] = w[k + 1]
    BY <1>3, <1>4, <2>1
  <2> QED
    BY <2>1, <2>2
<1>7. n \in Same
  <2>1. n \in 0..n
    OBVIOUS
  <2> HIDE DEF Same
  <2> QED
    BY <1>5, <1>6, <2>1, InductionUpTo
<1>8. w[n + 1] = w[n] \cup ChildrenOf(w[n], closed)
  <2>1. n + 1 \in 0..(n + 1) /\ n + 1 # 0 /\ (n + 1) - 1 = n
    OBVIOUS
  <2> QED
    BY <1>4, <2>1
<1>9. NodesOf(root, 0, closed) = {root}
  <2>1. PICK v : Walked(root, closed, 0, v) /\ NodesOf(root, 0, closed) = v[0]
    BY WalkDefined
  <2> QED
    BY <2>1 DEF Walked
<1> QED
  BY <1>1, <1>2, <1>7, <1>8, <1>9

\* A greater height has more nodes.
LEMMA NodesOfMore ==
  ASSUME NEW root, NEW closed, NEW n \in Nat, NEW k \in 0..n
  PROVE  NodesOf(root, k, closed) \subseteq NodesOf(root, n, closed)
<1> DEFINE More == {d \in 0..(n - k) : NodesOf(root, k, closed) \subseteq NodesOf(root, k + d, closed)}
<1>1. 0 \in More
  OBVIOUS
<1>2. ASSUME NEW d \in 0..((n - k) - 1), d \in More PROVE d + 1 \in More
  <2>1. d + 1 \in 0..(n - k) /\ k + d \in Nat /\ (k + d) + 1 = k + (d + 1)
    OBVIOUS
  <2>2. NodesOf(root, (k + d) + 1, closed) =
          NodesOf(root, k + d, closed) \cup ChildrenOf(NodesOf(root, k + d, closed), closed)
    BY <2>1, NodesOfStep
  <2> QED
    BY <1>2, <2>1, <2>2
<1>3. n - k \in More
  <2>1. n - k \in Nat /\ n - k \in 0..(n - k)
    OBVIOUS
  <2> HIDE DEF More
  <2> QED
    BY <1>1, <1>2, <2>1, InductionUpTo
<1> QED
  BY <1>3

\* What a node of a whole tree points to.
LEMMA ChildrenAreWhole ==
  ASSUME NEW S, NEW e, NEW n, Proper(n, S, e) \/ (n.kind = "Program" /\ n.stmts \in Seq(S))
  PROVE  Children(n) \subseteq S
<1> USE DEF Children
<1>1. CASE n.kind \in Leaves
  BY <1>1 DEF Leaves
<1>2. CASE n.kind \in Single /\ n.value \in S
  BY <1>2 DEF Single
<1>3. CASE n.kind = "Prefix" /\ n.right \in S
  BY <1>3
<1>4. CASE n.kind = "Infix" /\ n.left \in S /\ n.right \in S
  BY <1>4
<1>5. CASE n.kind = "If" /\ n.condition \in S /\ n.consequence \in S /\ n.alternative \in S \cup {Nullptr}
  BY <1>5
<1>6. CASE n.kind = "Function" /\ n.body \in S
  BY <1>6
<1>7. CASE n.kind = "Call" /\ n.function \in S /\ n.arguments \in Seq(S)
  <2>1. Entries(n.arguments) \subseteq S
    BY <1>7, LenProperties, ElementOfSeq DEF Entries
  <2> QED
    BY <1>7, <2>1
<1>8. CASE n.kind \in {"Block", "Program"} /\ n.stmts \in Seq(S)
  <2>1. Entries(n.stmts) \subseteq S
    BY <1>8, LenProperties, ElementOfSeq DEF Entries
  <2> QED
    BY <1>8, <2>1
<1> QED
  BY <1>1, <1>2, <1>3, <1>4, <1>5, <1>6, <1>7, <1>8 DEF Proper

\* The nodes of a whole program are its own, to every height.
LEMMA NodesAreWhole ==
  ASSUME NEW S, NEW e, Closed(S, e), NEW P, P.kind = "Program", P.stmts \in Seq(S),
         NEW n \in Nat, NEW closed
  PROVE  NodesOf(P, n, closed) \subseteq S \cup {P}
<1> DEFINE Inside == {k \in 0..n : NodesOf(P, k, closed) \subseteq S \cup {P}}
<1>1. 0 \in Inside
  BY NodesOfStep
<1>2. ASSUME NEW k \in 0..(n - 1), k \in Inside PROVE k + 1 \in Inside
  <2>1. k + 1 \in 0..n /\ k \in Nat /\ NodesOf(P, k, closed) \subseteq S \cup {P}
    BY <1>2
  <2>2. NodesOf(P, k + 1, closed) =
          NodesOf(P, k, closed) \cup ChildrenOf(NodesOf(P, k, closed), closed)
    BY <2>1, NodesOfStep
  <2>3. \A x \in S \cup {P} : Children(x) \subseteq S
    BY ChildrenAreWhole DEF Closed
  <2>4. ChildrenOf(NodesOf(P, k, closed), closed) \subseteq S
    BY <2>1, <2>3 DEF ChildrenOf
  <2> QED
    BY <2>1, <2>2, <2>4
<1>3. n \in 0..n
  OBVIOUS
<1> HIDE DEF Inside
<1>4. n \in Inside
  BY <1>1, <1>2, <1>3, InductionUpTo
<1> QED
  BY <1>4 DEF Inside

-----------------------------------------------------------------------------
(* Environments.                                                           *)

GotUpTo(envs, x, n, u) ==
  u = [i \in 0..n |-> IF i = 0 THEN NullObject
                      ELSE IF x \in DOMAIN envs[i].repo THEN envs[i].repo[x] ELSE u[envs[i].outer]]

\* The recursive function of Get exists: the environment outside is an older one.
LEMMA LookUpDefined ==
  ASSUME NEW envs, Len(envs) \in Nat, Scoped(envs), NEW x, NEW env
  PROVE  \E u : GotUpTo(envs, x, Len(envs), u) /\ Get(envs, env, x) = u[env]
<1> DEFINE N == Len(envs)
           Found(i, u) == IF i = 0 THEN NullObject
                          ELSE IF x \in DOMAIN envs[i].repo THEN envs[i].repo[x] ELSE u[envs[i].outer]
           Possible == {m \in 0..N : \E u : GotUpTo(envs, x, m, u)}
<1>1. 0 \in Possible
  <2>1. GotUpTo(envs, x, 0, [i \in 0..0 |-> NullObject])
    BY DEF GotUpTo
  <2> QED
    BY <2>1
<1>2. ASSUME NEW m \in 0..(N - 1), m \in Possible PROVE m + 1 \in Possible
  <2>1. PICK u : GotUpTo(envs, x, m, u)
    BY <1>2
  <2> DEFINE w == [i \in 0..(m + 1) |-> IF i <= m THEN u[i] ELSE Found(m + 1, u)]
  <2>2. ASSUME NEW i \in 0..(m + 1) PROVE w[i] = Found(i, w)
    <3>1. i # 0 => envs[i].outer \in 0..m /\ envs[i].outer <= m /\ envs[i].outer \in 0..(m + 1)
      <4>1. i # 0 => i \in 1..N
        OBVIOUS
      <4>2. i # 0 => envs[i].outer \in 0..(i - 1)
        BY <4>1 DEF Scoped
      <4> QED
        BY <4>2
    <3>2. i # 0 => w[envs[i].outer] = u[envs[i].outer]
      BY <3>1
    <3>3. CASE i <= m
      <4>1. i \in 0..m
        BY <3>3
      <4>2. u[i] = Found(i, u)
        BY <2>1, <4>1 DEF GotUpTo
      <4>3. w[i] = u[i]
        BY <3>3
      <4> HIDE DEF w
      <4> QED
        BY <3>2, <4>2, <4>3
    <3>4. CASE i = m + 1
      <4>1. i # 0 /\ ~(i <= m)
        BY <3>4
      <4>2. w[i] = Found(i, u)
        BY <3>4, <4>1
      <4> HIDE DEF w
      <4> QED
        BY <3>2, <4>1, <4>2
    <3> QED
      BY <3>3, <3>4
  <2>3. GotUpTo(envs, x, m + 1, w)
    <3>1. w = [i \in 0..(m + 1) |-> w[i]]
      OBVIOUS
    <3> HIDE DEF w
    <3> QED
      BY <2>2, <3>1 DEF GotUpTo
  <2> HIDE DEF w
  <2> QED
    BY <2>3, <1>2
<1>3. N \in Possible
  <2>1. N \in Nat /\ N \in 0..N /\ \A m \in 0..(N - 1) : m \in Possible => m + 1 \in Possible
    BY <1>2
  <2> HIDE DEF Possible, N
  <2> QED
    BY <1>1, <2>1, InductionUpTo
<1>4. PICK u : GotUpTo(envs, x, N, u)
  BY <1>3
<1> DEFINE Extend(g) == [i \in 0..Len(envs) |->
             IF i = 0 THEN NullObject
             ELSE IF x \in DOMAIN envs[i].repo THEN envs[i].repo[x] ELSE g[envs[i].outer]]
           from == CHOOSE g : g = Extend(g)
<1>5. u = Extend(u)
  BY <1>4 DEF GotUpTo
<1>6. from = Extend(from)
  <2> HIDE DEF Extend
  <2> QED
    BY <1>5, Zenon
<1>7. Get(envs, env, x) = from[env]
  BY DEF Get
<1>8. GotUpTo(envs, x, N, from)
  BY <1>6 DEF GotUpTo
<1> QED
  BY <1>7, <1>8

\* A look-up finds nothing or an object that a name is bound to.
LEMMA GotIsBindable ==
  ASSUME NEW R, NEW O, Repos(R, O), NEW envs \in Seq(Environments(R)), Scoped(envs),
         NEW x, NEW env \in 1..Len(envs)
  PROVE  Get(envs, env, x) = NullObject \/ (Get(envs, env, x) \in O /\ Bindable(Get(envs, env, x)))
<1> DEFINE N == Len(envs)
           Fine(o) == o = NullObject \/ (o \in O /\ Bindable(o))
<1>1. N \in Nat
  BY LenProperties
<1>2. PICK u : GotUpTo(envs, x, N, u) /\ Get(envs, env, x) = u[env]
  BY <1>1, LookUpDefined
<1> DEFINE FineTo == {k \in 0..N : \A i \in 0..k : Fine(u[i])}
<1>3. 0 \in FineTo
  <2>1. u[0] = NullObject
    BY <1>1, <1>2 DEF GotUpTo
  <2> QED
    BY <1>1, <2>1
<1>4. ASSUME NEW k \in 0..(N - 1), k \in FineTo PROVE k + 1 \in FineTo
  <2>1. k + 1 \in 0..N /\ k + 1 # 0 /\ k + 1 \in 1..N
    BY <1>1
  <2>2. envs[k + 1].outer \in 0..k
    BY <2>1 DEF Scoped
  <2>3. envs[k + 1].repo \in R
    <3>1. envs[k + 1] \in Environments(R)
      BY <2>1, ElementOfSeq
    <3> QED
      BY <3>1 DEF Environments
  <2>4. u[k + 1] = IF x \in DOMAIN envs[k + 1].repo THEN envs[k + 1].repo[x] ELSE u[envs[k + 1].outer]
    BY <1>2, <2>1 DEF GotUpTo
  <2>5. Fine(u[k + 1])
    BY <1>4, <2>2, <2>3, <2>4 DEF Repos
  <2> HIDE DEF Fine
  <2> QED
    BY <1>4, <2>1, <2>5
<1>5. N \in FineTo
  <2>1. N \in 0..N
    BY <1>1
  <2> HIDE DEF FineTo, N
  <2> QED
    BY <1>1, <1>3, <1>4, <2>1, InductionUpTo
<1> QED
  BY <1>2, <1>5

-----------------------------------------------------------------------------
(* What the innermost call can rely on.                                    *)

\* A memory that is good for some objects and bindings.
Fine(m, S, P, was, e) == \E O, R : Good(m, S, O, R, P, was, e)

\* What is known of the innermost call.
LEMMA InnermostParts ==
  ASSUME NEW m, NEW S, NEW O, NEW R, NEW P, NEW was, NEW e, Good(m, S, O, R, P, was, e),
         m.running # <<>>
  PROVE  LET a == Innermost(m)
             L == Len(m.running)
         IN  /\ L \in 1..MaxDepth /\ Len(m.envs) \in Nat
             /\ a.given \in Seq(O) /\ Len(a.given) \in Nat
             /\ \A j \in 1..Len(a.given) : a.given[j] \in O
             /\ a.env \in 1..Len(m.envs)
             /\ Placed(a, L, S, P, Len(m.envs), was) /\ Fits(a, Len(a.given))
             /\ \/ L = 1 /\ a.node = P
                \/ a.node \in S /\ Proper(a.node, S, e)
<1> DEFINE a == Innermost(m)
           L == Len(m.running)
<1>1. m \in Memories(S \cup {P}, O, R) /\ L <= MaxDepth /\ MaxDepth \in Nat
  BY SessionAssumption DEF Good, Store
<1>2. L \in Nat \ {0} /\ Len(m.envs) \in Nat
  BY <1>1, MemoryParts, EmptySeq
<1>3. L \in 1..L /\ a = m.running[L] /\ GivenTo(m, L) = Len(a.given) + 0
  BY <1>2 DEF Innermost, GivenTo
<1> HIDE DEF L
<1>4. a.given \in Seq(O) /\ Len(a.given) \in Nat
  <2> HIDE DEF a
  <2>1. L \in 1..Len(m.running)
    BY <1>3 DEF L
  <2>2. m.running[L].given \in Seq(O) /\ Len(m.running[L].given) \in Nat
    BY <1>1, <2>1, ActivationParts
  <2> QED
    BY <1>3, <2>2
<1>5. \A j \in 1..Len(a.given) : a.given[j] \in O
  BY <1>4, ElementOfSeq
<1>6. Placed(a, L, S, P, Len(m.envs), was) /\ Fits(a, GivenTo(m, L))
  BY <1>3 DEF Good, Nested, L
<1> HIDE DEF a
<1>7. GivenTo(m, L) = Len(a.given)
  BY <1>3, <1>4
<1>8. a.env \in 1..Len(m.envs) /\ ((L = 1 /\ a.node = P) \/ a.node \in S)
  BY <1>6 DEF Placed
<1>9. a.node \in S => Proper(a.node, S, e)
  BY DEF Good, Store, Closed
<1>10. L \in 1..MaxDepth
  BY <1>1, <1>2
<1> QED
  BY <1>2, <1>4, <1>5, <1>6, <1>7, <1>8, <1>9, <1>10 DEF a, L

\* It may evaluate what its node points to, but for the body of a function.
LEMMA ChildIsGood ==
  ASSUME NEW m, NEW S, NEW O, NEW R, NEW P, NEW was, NEW e, Good(m, S, O, R, P, was, e),
         m.running # <<>>, Innermost(m).node.kind # "Function",
         Fits(Innermost(m), Len(Innermost(m).given) + 1),
         NEW n \in Children(Innermost(m).node)
  PROVE  Fine(Evaluate(m, n, Innermost(m).env), S, P, was, e)
<1> DEFINE a == Innermost(m)
           L == Len(m.running)
<1>1. /\ L \in 1..MaxDepth /\ a.env \in 1..Len(m.envs)
      /\ Placed(a, L, S, P, Len(m.envs), was)
      /\ (L = 1 /\ a.node = P) \/ (a.node \in S /\ Proper(a.node, S, e))
  BY InnermostParts
<1>2. n \in S
  <2>1. Children(a.node) \subseteq S
    BY <1>1, ChildrenAreWhole DEF Good
  <2> QED
    BY <2>1
<1>3. L \in Nat /\ L + 1 # 1 /\ (L + 1) - 1 = L /\ L - 1 \in Nat /\ (L - 1) + 1 = L
  BY <1>1, SessionAssumption
<1> HIDE DEF L
<1>4. a.env = Global => n \in NodesOf(P, (L + 1) - 1, {"Function"})
  <2> SUFFICES ASSUME a.env = Global PROVE n \in NodesOf(P, L, {"Function"})
    BY <1>3
  <2>1. a.node \in NodesOf(P, L - 1, {"Function"})
    BY <1>1 DEF Placed
  <2>2. n \in ChildrenOf(NodesOf(P, L - 1, {"Function"}), {"Function"})
    BY <2>1 DEF ChildrenOf
  <2>3. NodesOf(P, (L - 1) + 1, {"Function"}) =
          NodesOf(P, L - 1, {"Function"}) \cup ChildrenOf(NodesOf(P, L - 1, {"Function"}), {"Function"})
    BY <1>3, NodesOfStep
  <2> QED
    BY <1>3, <2>2, <2>3
<1>5. a.env # Global => a.env > Len(was)
  BY <1>1 DEF Placed
<1>6. Placed(Activation(n, a.env), L + 1, S, P, Len(m.envs), was)
  <2>1. Activation(n, a.env).node = n /\ Activation(n, a.env).env = a.env
    BY DEF Activation
  <2> HIDE DEF a
  <2> QED
    BY <1>1, <1>2, <1>3, <1>4, <1>5, <2>1 DEF Placed
<1>7. Good(Evaluate(m, n, a.env), S, O, R, P, was, e)
  BY <1>6, EvaluateIsGood DEF L
<1> QED
  BY <1>7, Zenon DEF Fine

\* It may strike a fate.
LEMMA StrikeIsFine ==
  ASSUME NEW m, NEW S, NEW O, NEW R, NEW P, NEW was, NEW e, Good(m, S, O, R, P, was, e),
         NEW fate \in Fates, fate = "nothing" => e
  PROVE  Fine(Struck(m, fate), S, P, was, e)
BY StruckIsGood, Zenon DEF Fine

\* It may give an object that it knows.
LEMMA KnownIsFine ==
  ASSUME NEW m, NEW S, NEW O, NEW R, NEW P, NEW was, NEW e, Good(m, S, O, R, P, was, e),
         m.running # <<>>, NEW o \in O
  PROVE  Fine(Gives(m, o), S, P, was, e)
<1>1. Good(Gives(m, o), S, O, R, P, was, e)
  BY GivesIsGood
<1> QED
  BY <1>1, Zenon DEF Fine

\* An object more among those of the memory.
LEMMA MoreObjects ==
  ASSUME NEW m, NEW S, NEW O, NEW R, NEW P, NEW was, NEW e, Good(m, S, O, R, P, was, e),
         NEW o, Object(o, O \cup {o}, S, Len(m.envs), e)
  PROVE  Good(m, S, O \cup {o}, R, P, was, e)
<1> DEFINE N == S \cup {P}
           Q == O \cup {o}
<1>1. m \in Memories(N, O, R)
  BY DEF Good, Store
<1>2. O \subseteq Q
  OBVIOUS
<1>3. Objects(Q, S, Len(m.envs), e)
  <2> SUFFICES ASSUME NEW q \in O PROVE Object(q, Q, S, Len(m.envs), e)
    BY DEF Objects
  <2>1. Object(q, O, S, Len(m.envs), e)
    BY DEF Good, Store, Objects
  <2> HIDE DEF Q
  <2> QED
    BY <1>2, <2>1 DEF Object
<1> HIDE DEF Q, N
<1>4. m \in Memories(N, Q, R)
  <2>1. Seq(O) \subseteq Seq(Q)
    BY <1>2, SeqMonotonic, Zenon
  <2>2. Activations(N, O) \subseteq Activations(N, Q)
    BY <2>1 DEF Activations
  <2>3. m.running \in Seq(Activations(N, Q))
    BY <1>1, <2>2, MemoryParts, SeqMonotonic
  <2> QED
    BY <1>1, <1>2, <2>3 DEF Memories
<1>5. Repos(R, Q)
  BY <1>2 DEF Good, Store, Repos
<1> QED
  BY <1>3, <1>4, <1>5 DEF Good, Store, N, Q

\* It may give another object.
LEMMA GivesIsFine ==
  ASSUME NEW m, NEW S, NEW O, NEW R, NEW P, NEW was, NEW e, Good(m, S, O, R, P, was, e),
         m.running # <<>>, NEW o, Object(o, O \cup {o}, S, Len(m.envs), e)
  PROVE  Fine(Gives(m, o), S, P, was, e)
<1>1. Good(m, S, O \cup {o}, R, P, was, e) /\ o \in O \cup {o}
  BY MoreObjects
<1> QED
  BY <1>1, KnownIsFine

\* A result without parts returns to the caller.
LEMMA PlainIsFine ==
  ASSUME NEW m, NEW S, NEW O, NEW R, NEW P, NEW was, NEW e, Good(m, S, O, R, P, was, e),
         m.running # <<>>, NEW o, o.type \in {"Integer", "Boolean", "Null"}
  PROVE  Fine(Gives(m, o), S, P, was, e)
BY GivesIsFine DEF Object

\* The count of the objects that were made may be any number.
LEMMA CountIsGood ==
  ASSUME NEW m, NEW S, NEW O, NEW R, NEW P, NEW was, NEW e, Good(m, S, O, R, P, was, e)
  PROVE  /\ Good([m EXCEPT !.made = @ + 1], S, O, R, P, was, e)
         /\ [m EXCEPT !.made = @ + 1].running = m.running
         /\ [m EXCEPT !.made = @ + 1].envs = m.envs
<1> DEFINE N == S \cup {P}
           d == [m EXCEPT !.made = @ + 1]
<1>1. m \in Memories(N, O, R)
  BY DEF Good, Store
<1> HIDE DEF N
<1>2. /\ d \in Memories(N, O, R) /\ d.envs = m.envs /\ d.running = m.running /\ d.fate = m.fate
  BY <1>1 DEF Memories
<1> HIDE DEF d
<1>3. Store(d, N, S, O, R, e)
  BY <1>2 DEF Good, Store, N
<1>4. Nested(d, S, P, was) /\ Traced(d, P, was)
  BY <1>2 DEF Good, Nested, Traced, GivenTo
<1> QED
  BY <1>2, <1>3, <1>4 DEF Good, N, d

\* Among others a new one.
LEMMA NewIsFine ==
  ASSUME NEW m, NEW S, NEW O, NEW R, NEW P, NEW was, NEW e, Good(m, S, O, R, P, was, e),
         m.running # <<>>, NEW o, Object(o, O \cup {o}, S, Len(m.envs), e)
  PROVE  Fine(GivesNew(m, o), S, P, was, e)
<1> DEFINE d == [m EXCEPT !.made = @ + 1]
<1>1. Good(d, S, O, R, P, was, e) /\ d.running = m.running /\ d.envs = m.envs
  BY CountIsGood
<1>2. GivesNew(m, o) = Gives(d, o)
  BY DEF GivesNew
<1> HIDE DEF d
<1> QED
  BY <1>1, <1>2, GivesIsFine

\* An error object returns to the caller.
LEMMA ErrorIsFine ==
  ASSUME NEW m, NEW S, NEW O, NEW R, NEW P, NEW was, NEW e, Good(m, S, O, R, P, was, e),
         m.running # <<>>
  PROVE  Fine(ErrorObject(m), S, P, was, e)
BY NewIsFine DEF ErrorObject, Object

-----------------------------------------------------------------------------
(* What happens to the environments.                                       *)

\* A name is bound where the innermost call is.
LEMMA SetIsGood ==
  ASSUME NEW m, NEW S, NEW O, NEW R, NEW P, NEW was, NEW e, Good(m, S, O, R, P, was, e),
         NEW env \in 1..Len(m.envs), NEW x, NEW o \in O, Bindable(o),
         env = Global => x \in LetsOf(P), env # Global => env > Len(was)
  PROVE  \E Q : /\ Good(Set(m, env, x, o), S, O, Q, P, was, e)
                /\ Set(m, env, x, o).running = m.running
<1> DEFINE N == S \cup {P}
           repo == m.envs[env].repo
           new == With(repo, x, o)
           Q == R \cup {new}
           changed == [m.envs[env] EXCEPT !.repo = new]
           envs == [m.envs EXCEPT ![env] = changed]
           d == Set(m, env, x, o)
<1>1. m \in Memories(N, O, R)
  BY DEF Good, Store
<1>2. /\ m.envs \in Seq(Environments(R)) /\ m.envs[env] \in Environments(R) /\ repo \in R
      /\ Len(m.envs) \in Nat
  <2>1. m.envs \in Seq(Environments(R)) /\ Len(m.envs) \in Nat
    BY <1>1, MemoryParts
  <2>2. m.envs[env] \in Environments(R)
    BY <2>1, ElementOfSeq
  <2> QED
    BY <2>1, <2>2 DEF Environments
<1>3. d = [m EXCEPT !.envs = envs]
  BY DEF Set
<1>4. DOMAIN new = DOMAIN repo \cup {x} /\ new[x] = o /\ \A y \in DOMAIN repo : y # x => new[y] = repo[y]
  BY DEF With
<1> HIDE DEF new, N
<1>5. Repos(Q, O)
  <2>1. Repos(R, O)
    BY DEF Good, Store
  <2>2. \A y \in DOMAIN new : new[y] \in O /\ Bindable(new[y])
    BY <1>2, <1>4, <2>1 DEF Repos
  <2> QED
    BY <2>1, <2>2 DEF Repos
<1> HIDE DEF repo
<1>6. changed \in Environments(Q) /\ changed.repo = new /\ changed.outer = m.envs[env].outer
  BY <1>2 DEF Environments
<1> HIDE DEF changed
<1>7. m.envs \in Seq(Environments(Q))
  <2>1. Environments(R) \subseteq Environments(Q)
    BY DEF Environments
  <2> QED
    BY <1>2, <2>1, SeqMonotonic
<1> HIDE DEF Q
<1>8. /\ envs \in Seq(Environments(Q)) /\ Len(envs) = Len(m.envs)
      /\ \A i \in 1..Len(m.envs) : envs[i] = IF i = env THEN changed ELSE m.envs[i]
  BY <1>6, <1>7, ExceptSeq
<1> HIDE DEF envs, d
<1>9. /\ d \in Memories(N, O, Q) /\ d.envs = envs /\ d.running = m.running /\ d.fate = m.fate
  BY <1>1, <1>3, <1>8 DEF Memories
<1>10. Scoped(envs)
  <2>1. Scoped(m.envs)
    BY DEF Good, Store
  <2>2. \A i \in 1..Len(m.envs) : envs[i].outer = m.envs[i].outer
    BY <1>6, <1>8
  <2> QED
    BY <1>8, <2>1, <2>2 DEF Scoped
<1>11. Store(d, N, S, O, Q, e)
  BY <1>5, <1>8, <1>9, <1>10 DEF Good, Store, N
<1>12. Nested(d, S, P, was)
  BY <1>8, <1>9 DEF Good, Nested, GivenTo
<1>13. Traced(d, P, was)
  <2>1. Traced(m, P, was)
    BY DEF Good
  <2> SUFFICES ASSUME NEW i \in 1..Len(was), NEW y \in DOMAIN was[i].repo \cup DOMAIN envs[i].repo
               PROVE  \/ /\ y \in DOMAIN was[i].repo /\ y \in DOMAIN envs[i].repo
                         /\ envs[i].repo[y] = was[i].repo[y]
                      \/ i = Global /\ y \in LetsOf(P)
    BY <1>8, <1>9, <2>1 DEF Traced
  <2>2. i \in 1..Len(m.envs)
    BY <2>1, <1>2 DEF Traced
  <2>3. CASE i # env
    <3>1. envs[i] = m.envs[i]
      BY <1>8, <2>2, <2>3
    <3> QED
      BY <2>1, <3>1 DEF Traced
  <2>4. CASE i = env
    <3>1. i = Global /\ x \in LetsOf(P)
      BY <2>1, <2>2, <2>4 DEF Traced
    <3>2. envs[i].repo = new
      BY <1>6, <1>8, <2>2, <2>4
    <3>3. CASE y = x
      BY <3>1, <3>3
    <3>4. CASE y # x
      <4>1. y \in DOMAIN was[i].repo \cup DOMAIN repo /\ (y \in DOMAIN repo => y \in DOMAIN new /\ new[y] = repo[y])
        BY <1>4, <3>2, <3>4
      <4> QED
        BY <2>1, <2>4, <3>2, <4>1 DEF Traced, repo
    <3> QED
      BY <3>3, <3>4
  <2> QED
    BY <2>3, <2>4
<1> QED
  BY <1>9, <1>11, <1>12, <1>13, Zenon DEF Good, N, d

\* A call of a function gets an environment of its own, inside the function's.
LEMMA LastOfIsThere ==
  ASSUME NEW ps \in Seq(Words), NEW x \in Entries(ps)
  PROVE  LastOf(ps, x) \in 1..Len(ps)
<1> DEFINE N == Len(ps)
           At == {k \in 0..N : N - k \in 1..N /\ ps[N - k] = x}
<1>1. N \in Nat /\ DOMAIN ps = 1..N
  BY LenProperties
<1>2. PICK i \in 1..N : ps[i] = x
  BY <1>1 DEF Entries
<1> HIDE DEF N
<1>3. N - i \in At /\ At \in SUBSET Nat
  BY <1>1, <1>2
<1>4. PICK k \in At : \A j \in At : k <= j
  <2> HIDE DEF At
  <2> QED
    BY <1>3, LeastNumber
<1>5. N - k \in 1..N /\ ps[N - k] = x /\ \A j \in 1..N : ps[j] = x => j <= N - k
  <2>1. N - k \in 1..N /\ ps[N - k] = x /\ k \in Nat
    BY <1>1
  <2>2. ASSUME NEW j \in 1..N, ps[j] = x PROVE j <= N - k
    <3>1. N - j \in 0..N /\ N - (N - j) = j
      BY <1>1
    <3>2. N - j \in At
      BY <2>2, <3>1
    <3>3. k <= N - j
      BY <1>4, <3>2
    <3> QED
      BY <1>1, <2>1, <3>3
  <2> QED
    BY <2>1, <2>2
<1>6. \E l \in DOMAIN ps : ps[l] = x /\ \A j \in DOMAIN ps : ps[j] = x => j <= l
  BY <1>1, <1>5
<1>7. LastOf(ps, x) \in DOMAIN ps
  BY <1>6 DEF LastOf
<1> QED
  BY <1>1, <1>7 DEF N

Entered(m, f, args) == [m EXCEPT !.envs = Append(@, ExtendedEnv(f, args))]

\* A call of a function has a new environment inside the one of the function.
LEMMA EnteredIsGood ==
  ASSUME NEW m, NEW S, NEW O, NEW R, NEW P, NEW was, NEW e, Good(m, S, O, R, P, was, e),
         NEW f, f.env \in 1..Len(m.envs), f.parameters \in Seq(Words),
         NEW args, Len(f.parameters) <= Len(args), Len(args) \in Nat,
         \A i \in 1..Len(args) : args[i] \in O /\ Bindable(args[i])
  PROVE  \E Q : /\ Good(Entered(m, f, args), S, O, Q, P, was, e)
                /\ Entered(m, f, args).running = m.running
                /\ Len(Entered(m, f, args).envs) = Len(m.envs) + 1
<1> DEFINE N == S \cup {P}
           new == Bound(f.parameters, args)
           Q == R \cup {new}
           made == ExtendedEnv(f, args)
           envs == Append(m.envs, made)
           n == Len(m.envs)
           d == Entered(m, f, args)
<1>1. m \in Memories(N, O, R)
  BY DEF Good, Store
<1>2. m.envs \in Seq(Environments(R)) /\ n \in Nat
  BY <1>1, MemoryParts
<1>3. Repos(Q, O)
  <2>1. Repos(R, O)
    BY DEF Good, Store
  <2>2. ASSUME NEW y \in DOMAIN new PROVE new[y] \in O /\ Bindable(new[y])
    <3>1. y \in Entries(f.parameters) /\ new[y] = args[LastOf(f.parameters, y)]
      BY DEF Bound
    <3>2. LastOf(f.parameters, y) \in 1..Len(f.parameters) /\ Len(f.parameters) \in Nat
      BY <3>1, LastOfIsThere, LenProperties
    <3>3. LastOf(f.parameters, y) \in 1..Len(args)
      BY <3>2
    <3> QED
      BY <3>1, <3>3
  <2> HIDE DEF new
  <2> QED
    BY <2>1, <2>2 DEF Repos
<1> HIDE DEF N
<1>4. made \in Environments(Q) /\ made.repo = new /\ made.outer = f.env
  BY <1>2 DEF Environments, ExtendedEnv
<1>5. d = [m EXCEPT !.envs = envs]
  BY DEF Entered
<1> HIDE DEF made, new
<1>6. m.envs \in Seq(Environments(Q))
  <2>1. Environments(R) \subseteq Environments(Q)
    BY DEF Environments
  <2> QED
    BY <1>2, <2>1, SeqMonotonic
<1> HIDE DEF Q
<1>7. /\ envs \in Seq(Environments(Q)) /\ Len(envs) = n + 1
      /\ \A i \in 1..n : envs[i] = m.envs[i]
      /\ envs[n + 1] = made
  BY <1>4, <1>6, AppendProperties
<1> HIDE DEF envs, d
<1>8. /\ d \in Memories(N, O, Q) /\ d.envs = envs /\ d.running = m.running /\ d.fate = m.fate
  BY <1>1, <1>5, <1>7 DEF Memories
<1> HIDE DEF n
<1>9. Scoped(envs)
  <2>1. Scoped(m.envs)
    BY DEF Good, Store
  <2> SUFFICES ASSUME NEW i \in 1..(n + 1)
               PROVE  envs[i].outer \in 0..(i - 1) /\ (envs[i].outer = 0 <=> i = Global)
    BY <1>2, <1>7 DEF Scoped
  <2>2. CASE i = n + 1
    <3>1. envs[i].outer = f.env /\ f.env \in 1..n
      BY <1>4, <1>7, <2>2 DEF n
    <3>2. i # Global /\ f.env # 0 /\ f.env \in 0..(i - 1)
      BY <1>2, <2>2, <3>1 DEF Global
    <3> QED
      BY <3>1, <3>2
  <2>3. CASE i # n + 1
    <3>1. i \in 1..n
      BY <1>2, <2>3
    <3>2. envs[i] = m.envs[i]
      BY <1>7, <3>1
    <3> QED
      BY <2>1, <3>1, <3>2 DEF Scoped, n
  <2> QED
    BY <2>2, <2>3
<1>10. Objects(O, S, n + 1, e)
  <2>1. Objects(O, S, n, e)
    BY DEF Good, Store, n
  <2>2. 1..n \subseteq 1..(n + 1)
    BY <1>2
  <2> QED
    BY <2>1, <2>2 DEF Objects, Object
<1>11. Store(d, N, S, O, Q, e)
  BY <1>3, <1>7, <1>8, <1>9, <1>10 DEF Good, Store, N
<1>12. Nested(d, S, P, was)
  <2>1. \A a, i : Placed(a, i, S, P, n, was) => Placed(a, i, S, P, n + 1, was)
    BY <1>2 DEF Placed
  <2> QED
    BY <1>7, <1>8, <2>1 DEF Good, Nested, GivenTo, n
<1>13. Traced(d, P, was)
  <2>1. Traced(m, P, was)
    BY DEF Good
  <2>2. \A i \in 1..Len(was) : d.envs[i] = m.envs[i]
    <3>1. \A i \in 1..Len(was) : i \in 1..n
      BY <1>2, <2>1 DEF Traced, n
    <3> QED
      BY <1>7, <1>8, <3>1
  <2>3. Len(was) \in 1..(n + 1)
    BY <1>2, <2>1 DEF Traced, n
  <2> QED
    BY <1>7, <1>8, <2>1, <2>2, <2>3 DEF Traced
<1>14. Good(d, S, O, Q, P, was, e) /\ d.running = m.running /\ Len(d.envs) = Len(m.envs) + 1
  BY <1>7, <1>8, <1>11, <1>12, <1>13 DEF Good, N, n
<1> QED
  BY <1>14, Zenon DEF d

-----------------------------------------------------------------------------
(* What the innermost call does next, one kind of node after the other.    *)

\* The node of an innermost call that is not of the program.
LEMMA NodeIsProper ==
  ASSUME NEW m, NEW S, NEW O, NEW R, NEW P, NEW was, NEW e, Good(m, S, O, R, P, was, e),
         m.running # <<>>, Innermost(m).node.kind # "Program"
  PROVE  Innermost(m).node \in S /\ Proper(Innermost(m).node, S, e)
<1>1. P.kind = "Program"
  BY DEF Good
<1>2. Innermost(m).node = P \/ (Innermost(m).node \in S /\ Proper(Innermost(m).node, S, e))
  BY InnermostParts
<1> QED
  BY <1>1, <1>2

\* An object is none where an empty block was, and has the parts it needs.
LEMMA ObjectParts ==
  ASSUME NEW m, NEW S, NEW O, NEW R, NEW P, NEW was, NEW e, Good(m, S, O, R, P, was, e), NEW o \in O
  PROVE  /\ o.type = "nullptr" <=> o = NullObject
         /\ o = NullObject => e
         /\ o.type = "Return" => o.object \in O
         /\ o.type = "Function" =>
              o.body \in S /\ o.parameters \in Seq(Words) /\ o.env \in 1..Len(m.envs)
         /\ Unwrapped(o) \in O
<1>1. Object(o, O, S, Len(m.envs), e)
  BY DEF Good, Store, Objects
<1>2. NullObject.type = "nullptr"
  BY DEF NullObject
<1> QED
  BY <1>1, <1>2 DEF Object, Unwrapped

\* Where blocks may be empty an evaluation may give no object.
LEMMA NoObjectIsFine ==
  ASSUME NEW m, NEW S, NEW O, NEW R, NEW P, NEW was, NEW e, Good(m, S, O, R, P, was, e), NullObject \in O
  PROVE  Fine(Struck(m, "nothing"), S, P, was, e)
<1>1. e
  BY ObjectParts
<1> QED
  BY <1>1, StrikeIsFine DEF Fates

\* The literals give their value.
LEMMA LiteralsAreFine ==
  ASSUME NEW m, NEW S, NEW O, NEW R, NEW P, NEW was, NEW e, Good(m, S, O, R, P, was, e),
         m.running # <<>>, NEW n
  PROVE  Fine(Gives(m, Integer(n)), S, P, was, e) /\ Fine(Gives(m, Boolean(n)), S, P, was, e)
<1>1. Integer(n).type = "Integer" /\ Boolean(n).type = "Boolean"
  BY DEF Integer, Boolean
<1> QED
  BY <1>1, PlainIsFine

\* A name gives what it is bound to, or an error.
LEMMA IdentifierIsFine ==
  ASSUME NEW m, NEW S, NEW O, NEW R, NEW P, NEW was, NEW e, Good(m, S, O, R, P, was, e),
         m.running # <<>>
  PROVE  Fine(Identifier(m, Innermost(m)), S, P, was, e)
<1> DEFINE a == Innermost(m)
           val == Get(m.envs, a.env, a.node.x)
<1>1. /\ m.envs \in Seq(Environments(R)) /\ Scoped(m.envs) /\ Repos(R, O)
      /\ a.env \in 1..Len(m.envs)
  <2>1. m \in Memories(S \cup {P}, O, R)
    BY DEF Good, Store
  <2> QED
    BY <2>1, MemoryParts, InnermostParts DEF Good, Store
<1>2. val = NullObject \/ val \in O
  BY <1>1, GotIsBindable
<1>3. CASE val = NullObject
  <2>1. Identifier(m, a) = ErrorObject(m)
    BY <1>3 DEF Identifier
  <2> QED
    BY <2>1, ErrorIsFine
<1>4. CASE val # NullObject
  <2>1. Identifier(m, a) = Gives(m, val)
    BY <1>4 DEF Identifier
  <2> QED
    BY <1>2, <1>4, <2>1, KnownIsFine
<1> QED
  BY <1>3, <1>4

\* An object that a call was given first.
LEMMA GivenFirst ==
  ASSUME NEW m, NEW S, NEW O, NEW R, NEW P, NEW was, NEW e, Good(m, S, O, R, P, was, e),
         m.running # <<>>
  PROVE  LET given == Innermost(m).given
         IN  /\ given # <<>> => given[1] \in O /\ given[Len(given)] \in O /\ Len(given) \in Nat \ {0}
             /\ given = <<>> => Len(given) = 0
<1> DEFINE given == Innermost(m).given
<1>1. given \in Seq(O) /\ Len(given) \in Nat /\ \A j \in 1..Len(given) : given[j] \in O
  BY InnermostParts
<1> HIDE DEF given
<1>2. given # <<>> => Len(given) \in Nat \ {0}
  BY <1>1, EmptySeq
<1>3. given = <<>> => Len(given) = 0
  BY EmptySeq
<1> QED
  BY <1>1, <1>2, <1>3 DEF given

\* evalPrefixExpression(), before and after its operand.
LEMMA PrefixIsFine ==
  ASSUME NEW m, NEW S, NEW O, NEW R, NEW P, NEW was, NEW e, Good(m, S, O, R, P, was, e),
         m.running # <<>>, Innermost(m).node.kind = "Prefix"
  PROVE  Fine(PrefixExpression(m, Innermost(m)), S, P, was, e)
<1> DEFINE a == Innermost(m)
<1>1. a.node.op \in {"Bang", "Minus"} /\ a.node.right \in Children(a.node)
  <2>1. Proper(a.node, S, e)
    BY NodeIsProper
  <2> QED
    BY <2>1 DEF Proper, Leaves, Single, Children
<1>2. CASE a.given = <<>>
  <2>1. PrefixExpression(m, a) = Evaluate(m, a.node.right, a.env)
    BY <1>2 DEF PrefixExpression
  <2>2. Fits(a, Len(a.given) + 1)
    BY DEF Fits
  <2> QED
    BY <1>1, <2>1, <2>2, ChildIsGood
<1>3. CASE a.given # <<>>
  <2>1. a.given[1] \in O
    BY <1>3, GivenFirst
  <2>2. Fine(Bang(m, a.given[1]), S, P, was, e)
    BY LiteralsAreFine DEF Bang, TRUEObject, FALSEObject
  <2>3. Fine(MinusPrefix(m, a.given[1]), S, P, was, e)
    <3>1. CASE a.given[1] = NullObject
      <4>1. MinusPrefix(m, a.given[1]) = Struck(m, "nothing")
        BY <3>1 DEF MinusPrefix, NullObject
      <4> QED
        BY <2>1, <3>1, <4>1, NoObjectIsFine
    <3>2. CASE a.given[1] # NullObject /\ a.given[1].type = "Integer"
      BY <3>2, LiteralsAreFine DEF MinusPrefix
    <3>3. CASE a.given[1] # NullObject /\ a.given[1].type # "Integer"
      BY <3>3, ErrorIsFine DEF MinusPrefix
    <3> QED
      BY <3>1, <3>2, <3>3
  <2>4. PrefixExpression(m, a) \in {Bang(m, a.given[1]), MinusPrefix(m, a.given[1])}
    BY <1>1, <1>3 DEF PrefixExpression
  <2> QED
    BY <2>2, <2>3, <2>4
<1> QED
  BY <1>2, <1>3

\* Operators on two objects that are there.
LEMMA OperationIsFine ==
  ASSUME NEW m, NEW S, NEW O, NEW R, NEW P, NEW was, NEW e, Good(m, S, O, R, P, was, e),
         m.running # <<>>, NEW op \in InfixOps, NEW l \in O, NEW r \in O
  PROVE  Fine(InfixObject(m, op, l, r), S, P, was, e)
<1> DEFINE numbers == l.type = "Integer" /\ r.type = "Integer"
           missing == l = NullObject \/ (r = NullObject /\ (l.type = "Integer" \/ op \notin {"EQ", "NotEQ"}))
<1>1. ~(missing /\ numbers)
  BY DEF NullObject
<1>2. InfixObject(m, op, l, r) =
        CASE missing -> Struck(m, "nothing")
          [] numbers -> IntegerInfix(m, op, l.v, r.v)
          [] ~missing /\ ~numbers /\ op = "EQ" -> Gives(m, Boolean(l = r))
          [] ~missing /\ ~numbers /\ op = "NotEQ" -> Gives(m, Boolean(l # r))
          [] OTHER -> ErrorObject(m)
  BY DEF InfixObject
<1>3. missing => Fine(Struck(m, "nothing"), S, P, was, e)
  BY NoObjectIsFine
<1>4. Fine(IntegerInfix(m, op, l.v, r.v), S, P, was, e)
  <2>1. \A p, q : Fine(Divided(m, p, q), S, P, was, e)
    BY LiteralsAreFine, StrikeIsFine DEF Divided, Fates
  <2>2. \A p, q : Fine(IntegerInfix(m, op, p, q), S, P, was, e)
    BY <2>1, LiteralsAreFine DEF IntegerInfix, InfixOps
  <2> QED
    BY <2>2
<1> HIDE DEF numbers, missing
<1>5. /\ Fine(Gives(m, Boolean(l = r)), S, P, was, e) /\ Fine(Gives(m, Boolean(l # r)), S, P, was, e)
      /\ Fine(ErrorObject(m), S, P, was, e)
  BY LiteralsAreFine, ErrorIsFine
<1> QED
  BY <1>1, <1>2, <1>3, <1>4, <1>5

\* evalInfixExpression(), before, between and after its operands.
LEMMA InfixIsFine ==
  ASSUME NEW m, NEW S, NEW O, NEW R, NEW P, NEW was, NEW e, Good(m, S, O, R, P, was, e),
         m.running # <<>>, Innermost(m).node.kind = "Infix"
  PROVE  Fine(InfixExpression(m, Innermost(m)), S, P, was, e)
<1> DEFINE a == Innermost(m)
           k == Len(a.given)
<1>1. a.node.op \in InfixOps /\ a.node.left \in Children(a.node) /\ a.node.right \in Children(a.node)
  <2>1. Proper(a.node, S, e)
    BY NodeIsProper
  <2> QED
    BY <2>1 DEF Proper, Leaves, Single, Children
<1>2. k \in {0, 1, 2} /\ \A j \in 1..k : a.given[j] \in O
  <2>1. k \in Nat /\ Fits(a, k) /\ \A j \in 1..k : a.given[j] \in O
    BY InnermostParts
  <2>2. k <= 2
    BY <2>1 DEF Fits
  <2> HIDE DEF k
  <2> QED
    BY <2>1, <2>2
<1>3. CASE k \in {0, 1}
  <2>1. Fits(a, k + 1)
    BY <1>3 DEF Fits
  <2>2. PICK n \in {a.node.left, a.node.right} : InfixExpression(m, a) = Evaluate(m, n, a.env)
    BY <1>3 DEF InfixExpression
  <2> HIDE DEF a
  <2> QED
    BY <1>1, <2>1, <2>2, ChildIsGood DEF a
<1>4. CASE k = 2
  <2>1. InfixExpression(m, a) = InfixObject(m, a.node.op, a.given[1], a.given[2])
    BY <1>4 DEF InfixExpression
  <2>2. a.given[1] \in O /\ a.given[2] \in O
    BY <1>2, <1>4
  <2> QED
    BY <1>1, <2>1, <2>2, OperationIsFine
<1> QED
  BY <1>2, <1>3, <1>4

\* evalIfExpression(), before and after the condition.
LEMMA IfIsFine ==
  ASSUME NEW m, NEW S, NEW O, NEW R, NEW P, NEW was, NEW e, Good(m, S, O, R, P, was, e),
         m.running # <<>>, Innermost(m).node.kind = "If"
  PROVE  Fine(IfExpression(m, Innermost(m)), S, P, was, e)
<1> DEFINE a == Innermost(m)
           k == Len(a.given)
<1>1. /\ a.node.condition \in Children(a.node) /\ a.node.consequence \in Children(a.node)
      /\ a.node.alternative # Nullptr => a.node.alternative \in Children(a.node)
  BY DEF Children
<1>2. k \in {0, 1, 2} /\ \A j \in 1..k : a.given[j] \in O
  <2>1. k \in Nat /\ Fits(a, k) /\ \A j \in 1..k : a.given[j] \in O
    BY InnermostParts
  <2>2. k <= 2
    BY <2>1 DEF Fits
  <2> HIDE DEF k
  <2> QED
    BY <2>1, <2>2
<1>3. k < 2 => Fits(a, k + 1)
  BY <1>2 DEF Fits
<1>4. k < 2 => \A n \in Children(a.node) : Fine(Evaluate(m, n, a.env), S, P, was, e)
  BY <1>3, ChildIsGood
<1>5. CASE k = 0
  BY <1>1, <1>4, <1>5 DEF IfExpression
<1>6. CASE k = 1
  <2>1. Fine(Gives(m, NIL), S, P, was, e)
    BY PlainIsFine DEF NIL
  <2> QED
    BY <1>1, <1>4, <1>6, <2>1 DEF IfExpression
<1>7. CASE k = 2
  <2>1. IfExpression(m, a) = Gives(m, a.given[2])
    BY <1>7 DEF IfExpression
  <2> QED
    BY <1>2, <1>7, <2>1, KnownIsFine
<1> QED
  BY <1>2, <1>5, <1>6, <1>7

\* A function literal remembers the environment that it is in.
LEMMA FunctionIsFine ==
  ASSUME NEW m, NEW S, NEW O, NEW R, NEW P, NEW was, NEW e, Good(m, S, O, R, P, was, e),
         m.running # <<>>, Innermost(m).node.kind = "Function"
  PROVE  Fine(FunctionObject(m, Innermost(m).node, Innermost(m).env), S, P, was, e)
<1> DEFINE a == Innermost(m)
           f == [type |-> "Function", parameters |-> a.node.parameters, body |-> a.node.body,
                 env |-> a.env, id |-> m.made]
<1>1. a.node.parameters \in Seq(Words) /\ a.node.body \in S
  <2>1. Proper(a.node, S, e)
    BY NodeIsProper
  <2> QED
    BY <2>1 DEF Proper, Leaves, Single
<1>2. a.env \in 1..Len(m.envs)
  BY InnermostParts
<1>3. Object(f, O \cup {f}, S, Len(m.envs), e)
  BY <1>1, <1>2 DEF Object
<1>4. FunctionObject(m, a.node, a.env) = GivesNew(m, f)
  BY DEF FunctionObject
<1> HIDE DEF f
<1> QED
  BY <1>3, <1>4, NewIsFine

\* applyFunction, for a function and arguments that are no errors.
LEMMA ApplyIsFine ==
  ASSUME NEW m, NEW S, NEW O, NEW R, NEW P, NEW was, NEW e, Good(m, S, O, R, P, was, e),
         m.running # <<>>, Innermost(m).node.kind = "Call",
         NEW f \in O, NEW args, Len(args) \in Nat,
         \A j \in 1..Len(Innermost(m).given) : Bindable(Innermost(m).given[j]),
         \A i \in 1..Len(args) : args[i] \in O /\ Bindable(args[i])
  PROVE  Fine(ApplyFunction(m, f, args), S, P, was, e)
<1>1. CASE f.type # "Function"
  <2>1. ApplyFunction(m, f, args) = ErrorObject(m)
    BY <1>1 DEF ApplyFunction
  <2> QED
    BY <2>1, ErrorIsFine
<1>2. CASE f.type = "Function"
  <2>1. f.body \in S /\ f.parameters \in Seq(Words) /\ f.env \in 1..Len(m.envs) /\ Len(f.parameters) \in Nat
    BY <1>2, ObjectParts, LenProperties
  <2>2. CASE Len(args) < Len(f.parameters)
    <3>1. ApplyFunction(m, f, args) = Struck(m, "arguments")
      BY <1>2, <2>2 DEF ApplyFunction
    <3> QED
      BY <3>1, StrikeIsFine DEF Fates
  <2>3. CASE ~(Len(args) < Len(f.parameters))
    <3> DEFINE d == Entered(m, f, args)
               L == Len(m.running)
               n == Len(m.envs) + 1
    <3>1. ApplyFunction(m, f, args) = Evaluate(d, f.body, n)
      BY <1>2, <2>1, <2>3 DEF ApplyFunction, Entered
    <3>2. PICK Q : Good(d, S, O, Q, P, was, e) /\ d.running = m.running /\ Len(d.envs) = n
      <4>1. Len(f.parameters) <= Len(args)
        BY <2>1, <2>3
      <4> QED
        BY <2>1, <4>1, EnteredIsGood
    <3> HIDE DEF d
    <3>3. Innermost(d) = Innermost(m)
      BY <3>2 DEF Innermost
    <3>4. Fits(Innermost(d), Len(Innermost(d).given) + 1)
      <4>1. Len(Innermost(m).given) \in Nat
        BY InnermostParts
      <4>2. (Len(Innermost(m).given) + 1) - 1 = Len(Innermost(m).given)
        BY <4>1
      <4> QED
        BY <3>3, <4>2 DEF Fits
    <3>5. Placed(Activation(f.body, n), L + 1, S, P, Len(d.envs), was)
      <4>1. L \in Nat \ {0} /\ Len(m.envs) \in Nat \ {0}
        BY <2>1, SessionAssumption, InnermostParts
      <4>2. n \in 1..n /\ n # Global /\ n > Len(was)
        BY <4>1 DEF Good, Traced, Global
      <4>3. Activation(f.body, n).node = f.body /\ Activation(f.body, n).env = n
        BY DEF Activation
      <4> HIDE DEF n, L
      <4> QED
        BY <2>1, <3>2, <4>1, <4>2, <4>3 DEF Placed
    <3>6. Good(Evaluate(d, f.body, n), S, O, Q, P, was, e)
      <4> HIDE DEF n
      <4> QED
        BY <3>2, <3>4, <3>5, EvaluateIsGood
    <3> QED
      BY <3>1, <3>6, Zenon DEF Fine
  <2> QED
    BY <2>2, <2>3
<1> QED
  BY <1>1, <1>2

\* A call: the function, its arguments one by one, and its body.
LEMMA CallIsFine ==
  ASSUME NEW m, NEW S, NEW O, NEW R, NEW P, NEW was, NEW e, Good(m, S, O, R, P, was, e),
         m.running # <<>>, Innermost(m).node.kind = "Call"
  PROVE  Fine(CallExpression(m, Innermost(m)), S, P, was, e)
<1> DEFINE a == Innermost(m)
           given == a.given
           k == Len(given)
           last == given[k]
           args == a.node.arguments
<1>1. args \in Seq(S) /\ Len(args) \in Nat /\ DOMAIN args = 1..Len(args)
  <2>1. Proper(a.node, S, e)
    BY NodeIsProper
  <2>2. args \in Seq(S)
    BY <2>1 DEF Proper, Leaves, Single
  <2> QED
    BY <2>2, LenProperties
<1>2. a.node.function \in Children(a.node) /\ \A i \in 1..Len(args) : args[i] \in Children(a.node)
  BY <1>1 DEF Children, Entries
<1>3. k \in Nat /\ (\A j \in 1..k : given[j] \in O) /\ \A j \in 1..(k - 1) : Bindable(given[j])
  BY InnermostParts DEF Fits
<1>4. given = <<>> => k = 0
  BY GivenFirst
<1>5. ASSUME \A j \in 1..k : Bindable(given[j]), NEW n \in Children(a.node)
      PROVE  Fine(Evaluate(m, n, a.env), S, P, was, e)
  <2>1. (k + 1) - 1 = k
    BY <1>3
  <2>2. Fits(a, k + 1)
    BY <1>5, <2>1 DEF Fits
  <2> QED
    BY <1>5, <2>2, ChildIsGood
<1>6. CASE given = <<>>
  <2>1. CallExpression(m, a) = Evaluate(m, a.node.function, a.env)
    BY <1>6 DEF CallExpression
  <2>2. \A j \in 1..k : Bindable(given[j])
    BY <1>4, <1>6
  <2> QED
    BY <1>2, <1>5, <2>1, <2>2
<1>7. CASE given # <<>>
  <2>1. last \in O /\ k \in Nat \ {0}
    BY <1>7, GivenFirst
  <2>2. /\ last.type = "nullptr" <=> last = NullObject
        /\ Unwrapped(last) \in O
    BY <2>1, ObjectParts
  <2>3. CASE last = NullObject
    <3>1. CallExpression(m, a) = Struck(m, "nothing")
      BY <1>7, <2>2, <2>3 DEF CallExpression
    <3> QED
      BY <2>1, <2>3, <3>1, NoObjectIsFine
  <2>4. CASE last.type = "Error"
    <3>1. CallExpression(m, a) = Gives(m, last)
      BY <1>7, <2>2, <2>4 DEF CallExpression
    <3> QED
      BY <2>1, <3>1, KnownIsFine
  <2>5. CASE last.type \notin {"nullptr", "Error"}
    <3>1. \A j \in 1..k : Bindable(given[j])
      BY <1>3, <2>5 DEF Bindable
    <3>2. CallExpression(m, a) =
            IF k <= Len(args) THEN Evaluate(m, args[k], a.env)
            ELSE IF k = Len(args) + 1 THEN ApplyFunction(m, given[1], SubSeq(given, 2, k))
            ELSE Gives(m, Unwrapped(last))
      BY <1>7, <2>2, <2>5 DEF CallExpression
    <3>3. CASE k <= Len(args)
      <4>1. args[k] \in Children(a.node)
        BY <1>2, <2>1, <3>3
      <4> HIDE DEF a, k, args
      <4> QED
        BY <1>5, <3>1, <3>2, <3>3, <4>1 DEF a
    <3>4. CASE k > Len(args) /\ k # Len(args) + 1
      BY <1>1, <2>1, <2>2, <3>2, <3>4, KnownIsFine
    <3>5. CASE k = Len(args) + 1
      <4> DEFINE passed == SubSeq(given, 2, k)
      <4>1. CallExpression(m, a) = ApplyFunction(m, given[1], passed)
        BY <1>1, <3>2, <3>5
      <4>2. /\ Len(passed) = IF 2 <= k THEN k - 2 + 1 ELSE 0
            /\ \A i \in 1..(k - 2 + 1) : passed[i] = given[2 + i - 1]
        <5> HIDE DEF given
        <5>1. \A i \in 2..k : given[i] \in O
          BY <1>3, <2>1
        <5> HIDE DEF k
        <5> QED
          BY <2>1, <5>1, SubSeqProperties
      <4>3. Len(passed) \in Nat /\ Len(passed) = k - 1
        BY <2>1, <4>2
      <4>4. \A i \in 1..Len(passed) : passed[i] \in O /\ Bindable(passed[i])
        <5> SUFFICES ASSUME NEW i \in 1..Len(passed) PROVE passed[i] \in O /\ Bindable(passed[i])
          OBVIOUS
        <5>1. i \in 1..(k - 2 + 1) /\ 2 + i - 1 \in 1..k
          BY <2>1, <4>3
        <5>2. passed[i] = given[2 + i - 1]
          BY <4>2, <5>1
        <5> HIDE DEF passed, given, k
        <5> QED
          BY <1>3, <3>1, <5>1, <5>2
      <4>5. given[1] \in O
        BY <1>3, <2>1
      <4> HIDE DEF passed
      <4> QED
        BY <3>1, <4>1, <4>3, <4>4, <4>5, ApplyIsFine
    <3> QED
      BY <1>1, <2>1, <3>3, <3>4, <3>5
  <2> QED
    BY <2>2, <2>3, <2>4, <2>5
<1> QED
  BY <1>6, <1>7

\* A let binds one of the program's own names, or one in a new environment.
LEMMA LetIsFine ==
  ASSUME NEW m, NEW S, NEW O, NEW R, NEW P, NEW was, NEW e, Good(m, S, O, R, P, was, e),
         m.running # <<>>, Innermost(m).node.kind = "Let"
  PROVE  Fine(LetStatement(m, Innermost(m)), S, P, was, e)
<1> DEFINE a == Innermost(m)
           L == Len(m.running)
           value == a.given[1]
<1>1. a.node.value \in Children(a.node)
  BY DEF Children
<1>2. CASE a.given = <<>>
  <2>1. LetStatement(m, a) = Evaluate(m, a.node.value, a.env)
    BY <1>2 DEF LetStatement
  <2>2. Fits(a, Len(a.given) + 1)
    <3>1. Len(a.given) = 0
      BY <1>2, GivenFirst
    <3> QED
      BY <3>1 DEF Fits
  <2> QED
    BY <1>1, <2>1, <2>2, ChildIsGood
<1>3. CASE a.given # <<>>
  <2>1. value \in O /\ a.given = <<value>>
    <3>1. value \in O /\ a.given \in Seq(O) /\ Len(a.given) \in Nat \ {0} /\ Fits(a, Len(a.given))
      BY <1>3, GivenFirst, InnermostParts
    <3>2. Len(a.given) = 1
      <4> DEFINE k == Len(a.given)
      <4>1. k \in Nat \ {0} /\ k <= 1
        BY <3>1 DEF Fits
      <4> HIDE DEF k
      <4>2. k = 1
        BY <4>1
      <4> QED
        BY <4>2 DEF k
    <3>3. <<value>> \in Seq(O) /\ Len(<<value>>) = 1 /\ <<value>>[1] = value
      BY <3>1
    <3> QED
      BY <3>1, <3>2, <3>3, SeqEqual
  <2>2. value.type = "nullptr" <=> value = NullObject
    BY <2>1, ObjectParts
  <2>3. CASE value = NullObject
    <3>1. LetStatement(m, a) = Struck(m, "nothing")
      <4>1. a.given = <<NullObject>> /\ NullObject.type # "Error"
        BY <2>1, <2>3 DEF NullObject
      <4> QED
        BY <1>3, <4>1 DEF LetStatement
    <3> QED
      BY <2>1, <2>3, <3>1, NoObjectIsFine
  <2>4. value # NullObject => a.given # <<NullObject>>
    <3>1. <<value>>[1] = value /\ <<NullObject>>[1] = NullObject
      OBVIOUS
    <3> QED
      BY <2>1, <3>1
  <2>5. CASE value # NullObject /\ value.type = "Error"
    <3>1. LetStatement(m, a) = Gives(m, value)
      BY <1>3, <2>4, <2>5 DEF LetStatement
    <3> QED
      BY <2>1, <3>1, KnownIsFine
  <2>6. CASE value # NullObject /\ value.type # "Error"
    <3> DEFINE x == a.node.name
               d == Set(m, a.env, x, value)
    <3>1. LetStatement(m, a) = Gives(d, value)
      BY <1>3, <2>4, <2>6 DEF LetStatement
    <3>2. a.env \in 1..Len(m.envs) /\ L \in 1..MaxDepth /\ Placed(a, L, S, P, Len(m.envs), was)
      BY InnermostParts
    <3>3. a.env = Global => x \in LetsOf(P)
      <4> SUFFICES ASSUME a.env = Global PROVE x \in LetsOf(P)
        OBVIOUS
      <4>1. a.node \in NodesOf(P, L - 1, {"Function"})
        BY <3>2 DEF Placed
      <4>2. L - 1 \in 0..MaxDepth /\ MaxDepth \in Nat
        BY <3>2, SessionAssumption
      <4>3. a.node \in NodesOf(P, MaxDepth, {"Function"})
        BY <4>1, <4>2, NodesOfMore
      <4> QED
        BY <4>3 DEF LetsOf
    <3>4. a.env # Global => a.env > Len(was)
      BY <3>2 DEF Placed
    <3>5. Bindable(value)
      BY <2>2, <2>6 DEF Bindable
    <3> HIDE DEF x, d
    <3>6. PICK Q : Good(d, S, O, Q, P, was, e) /\ d.running = m.running
      BY <2>1, <3>2, <3>3, <3>4, <3>5, SetIsGood DEF d
    <3> QED
      BY <2>1, <3>1, <3>6, KnownIsFine
  <2> QED
    BY <2>3, <2>5, <2>6
<1> QED
  BY <1>2, <1>3

\* Statements that have a value.
LEMMA ValuesAreFine ==
  ASSUME NEW m, NEW S, NEW O, NEW R, NEW P, NEW was, NEW e, Good(m, S, O, R, P, was, e),
         m.running # <<>>, Innermost(m).node.kind \in {"Return", "Expression"}
  PROVE  /\ Fine(ReturnStatement(m, Innermost(m)), S, P, was, e)
         /\ Fine(ExpressionStatement(m, Innermost(m)), S, P, was, e)
<1> DEFINE a == Innermost(m)
<1>1. a.node.value \in Children(a.node) /\ Fits(a, Len(a.given) + 1)
  BY DEF Children, Fits
<1>2. Fine(Evaluate(m, a.node.value, a.env), S, P, was, e)
  BY <1>1, ChildIsGood
<1>3. ASSUME a.given # <<>>
      PROVE  /\ Fine(ReturnObject(m, a.given[1]), S, P, was, e)
             /\ Fine(Gives(m, a.given[1]), S, P, was, e)
  <2>1. a.given[1] \in O
    BY <1>3, GivenFirst
  <2> DEFINE o == [type |-> "Return", object |-> a.given[1], id |-> m.made]
  <2>2. Object(o, O \cup {o}, S, Len(m.envs), e)
    <3>1. o.type = "Return" /\ o.object = a.given[1]
      OBVIOUS
    <3> HIDE DEF o
    <3> QED
      BY <2>1, <3>1 DEF Object
  <2>3. ReturnObject(m, a.given[1]) = GivesNew(m, o)
    BY DEF ReturnObject
  <2> HIDE DEF o
  <2>4. Fine(ReturnObject(m, a.given[1]), S, P, was, e)
    BY <2>2, <2>3, NewIsFine
  <2>5. Fine(Gives(m, a.given[1]), S, P, was, e)
    BY <2>1, KnownIsFine
  <2> QED
    BY <2>4, <2>5
<1> QED
  BY <1>2, <1>3 DEF ReturnStatement, ExpressionStatement

\* The statements of a block or a program.
LEMMA StatementsAreFine ==
  ASSUME NEW m, NEW S, NEW O, NEW R, NEW P, NEW was, NEW e, Good(m, S, O, R, P, was, e),
         m.running # <<>>, Innermost(m).node.kind \in {"Block", "Program"}
  PROVE  LET a == Innermost(m)
         IN  /\ ~AtEnd(a) => Fine(Evaluate(m, a.node.stmts[Len(a.given) + 1], a.env), S, P, was, e)
             /\ a.given # <<>> => Result(a) \in O
             /\ a.given = <<>> /\ AtEnd(a) => a.node.stmts = <<>>
<1> DEFINE a == Innermost(m)
           k == Len(a.given)
           stmts == a.node.stmts
<1>1. stmts \in Seq(S) /\ Len(stmts) \in Nat /\ DOMAIN stmts = 1..Len(stmts)
  <2>1. a.node = P \/ Proper(a.node, S, e)
    BY InnermostParts
  <2>2. stmts \in Seq(S)
    BY <2>1 DEF Proper, Leaves, Single, Good
  <2> QED
    BY <2>2, LenProperties
<1>2. k \in Nat /\ Fits(a, k)
  BY InnermostParts
<1>3. k <= Len(stmts)
  BY <1>2 DEF Fits
<1>4. ASSUME ~AtEnd(a) PROVE Fine(Evaluate(m, stmts[k + 1], a.env), S, P, was, e)
  <2>1. k # Len(stmts)
    BY <1>4 DEF AtEnd
  <2>2. k + 1 \in 1..Len(stmts) /\ k + 1 <= Len(stmts)
    <3> DEFINE n == Len(stmts)
    <3>1. n \in Nat /\ k \in Nat /\ k <= n /\ k # n
      BY <1>1, <1>2, <1>3, <2>1
    <3> HIDE DEF k, n
    <3>2. k + 1 \in 1..n /\ k + 1 <= n
      BY <3>1
    <3> QED
      BY <3>2 DEF n
  <2>3. Fits(a, k + 1) /\ stmts[k + 1] \in Children(a.node)
    BY <1>1, <2>2 DEF Fits, Children, Entries
  <2> QED
    BY <2>3, ChildIsGood
<1>5. a.given # <<>> => Result(a) \in O
  BY GivenFirst DEF Result
<1>6. ASSUME a.given = <<>>, AtEnd(a) PROVE stmts = <<>>
  <2>1. k = 0
    BY <1>6, GivenFirst
  <2>2. Result(a).type \notin {"Return", "Error"}
    BY <1>6 DEF Result, NullObject
  <2>3. Len(stmts) = 0
    BY <1>6, <2>1, <2>2 DEF AtEnd
  <2> QED
    BY <1>1, <2>3, EmptySeq
<1> QED
  BY <1>4, <1>5, <1>6

\* evalBlockStatement(), before and after each statement.
LEMMA BlockIsFine ==
  ASSUME NEW m, NEW S, NEW O, NEW R, NEW P, NEW was, NEW e, Good(m, S, O, R, P, was, e),
         m.running # <<>>, Innermost(m).node.kind = "Block"
  PROVE  Fine(BlockStatement(m, Innermost(m)), S, P, was, e)
<1> DEFINE a == Innermost(m)
<1>1. CASE ~AtEnd(a)
  BY <1>1, StatementsAreFine DEF BlockStatement
<1>2. CASE AtEnd(a) /\ a.given # <<>>
  <2>1. BlockStatement(m, a) = Gives(m, Result(a)) /\ Result(a) \in O
    BY <1>2, StatementsAreFine DEF BlockStatement
  <2> QED
    BY <2>1, KnownIsFine
<1>3. CASE AtEnd(a) /\ a.given = <<>>
  <2>1. BlockStatement(m, a) = Gives(m, NullObject)
    BY <1>3 DEF BlockStatement, Result
  <2>2. e
    <3>1. Proper(a.node, S, e) /\ a.node.stmts = <<>>
      BY <1>3, NodeIsProper, StatementsAreFine
    <3> QED
      BY <3>1 DEF Proper, Leaves, Single
  <2>3. Object(NullObject, O \cup {NullObject}, S, Len(m.envs), e)
    BY <2>2 DEF Object
  <2> QED
    BY <2>1, <2>3, GivesIsFine
<1> QED
  BY <1>1, <1>2, <1>3

\* Only the program itself, which no call waits for, gives no object without
\* an empty block.
LEMMA ProgramIsFine ==
  ASSUME NEW m, NEW S, NEW O, NEW R, NEW P, NEW was, NEW e, Good(m, S, O, R, P, was, e),
         m.running # <<>>, Innermost(m).node.kind = "Program"
  PROVE  Fine(EvaluateProgram(m, Innermost(m)), S, P, was, e)
<1> DEFINE a == Innermost(m)
           L == Len(m.running)
<1>1. L = 1
  <2>1. L = 1 \/ Proper(a.node, S, e)
    BY InnermostParts
  <2> QED
    BY <2>1 DEF Proper, Leaves, Single
<1>2. CASE a.given # <<>> /\ Result(a) = NullObject
  <2>1. EvaluateProgram(m, a) = Struck(m, "nothing")
    BY <1>2 DEF EvaluateProgram
  <2>2. NullObject \in O
    BY <1>2, StatementsAreFine
  <2> QED
    BY <2>1, <2>2, NoObjectIsFine
<1>3. CASE (a.given = <<>> \/ Result(a) # NullObject) /\ ~AtEnd(a)
  <2>1. EvaluateProgram(m, a) = Evaluate(m, a.node.stmts[Len(a.given) + 1], a.env)
    BY <1>3 DEF EvaluateProgram
  <2> QED
    BY <1>3, <2>1, StatementsAreFine
<1>4. CASE (a.given = <<>> \/ Result(a) # NullObject) /\ AtEnd(a)
  <2>1. EvaluateProgram(m, a) = Gives(m, Unwrapped(Result(a)))
    BY <1>4 DEF EvaluateProgram
  <2>2. CASE a.given # <<>>
    <3>1. Unwrapped(Result(a)) \in O
      BY <2>2, StatementsAreFine, ObjectParts
    <3> QED
      BY <2>1, <3>1, KnownIsFine
  <2>3. CASE a.given = <<>>
    <3>1. Unwrapped(Result(a)) = NullObject
      BY <2>3 DEF Unwrapped, Result, NullObject
    <3>2. Good(Gives(m, NullObject), S, O, R, P, was, e)
      BY <1>1, GivesIsGood
    <3> QED
      BY <2>1, <3>1, <3>2, Zenon DEF Fine
  <2> QED
    BY <2>2, <2>3
<1> QED
  BY <1>2, <1>3, <1>4

\* One step of the evaluator, whatever the innermost call is of.
LEMMA ProceedIsFine ==
  ASSUME NEW m, NEW S, NEW O, NEW R, NEW P, NEW was, NEW e, Good(m, S, O, R, P, was, e),
         m.running # <<>>
  PROVE  Fine(Proceed(m), S, P, was, e)
<1> DEFINE a == Innermost(m)
           kind == a.node.kind
<1>1. kind \in Leaves \cup Single \cup {"Prefix", "Infix", "If", "Function", "Call", "Block", "Program"}
  <2>1. kind = "Program" \/ Proper(a.node, S, e)
    BY NodeIsProper
  <2> QED
    BY <2>1 DEF Proper
<1>2. CASE kind = "IntegerLiteral"
  BY <1>2, LiteralsAreFine DEF Proceed
<1>3. CASE kind = "Boolean"
  BY <1>3, LiteralsAreFine DEF Proceed
<1>4. CASE kind = "Identifier"
  BY <1>4, IdentifierIsFine DEF Proceed
<1>5. CASE kind = "Prefix"
  BY <1>5, PrefixIsFine DEF Proceed
<1>6. CASE kind = "Infix"
  BY <1>6, InfixIsFine DEF Proceed
<1>7. CASE kind = "If"
  BY <1>7, IfIsFine DEF Proceed
<1>8. CASE kind = "Function"
  BY <1>8, FunctionIsFine DEF Proceed
<1>9. CASE kind = "Call"
  BY <1>9, CallIsFine DEF Proceed
<1>10. CASE kind = "Let"
  BY <1>10, LetIsFine DEF Proceed
<1>11. CASE kind = "Return"
  BY <1>11, ValuesAreFine DEF Proceed
<1>12. CASE kind = "Expression"
  BY <1>12, ValuesAreFine DEF Proceed
<1>13. CASE kind = "Block"
  BY <1>13, BlockIsFine DEF Proceed
<1>14. CASE kind = "Program"
  BY <1>14, ProgramIsFine DEF Proceed
<1> QED
  BY <1>1, <1>2, <1>3, <1>4, <1>5, <1>6, <1>7, <1>8, <1>9, <1>10, <1>11, <1>12, <1>13, <1>14
     DEF Leaves, Single

-----------------------------------------------------------------------------
(* The session.                                                            *)

\* Whether a line had a block without statements.
Emptied == \E l \in DOMAIN inputs : HasEmptyBlock(inputs[l])

SessionInv ==
  /\ phase \in Phases /\ exhausted \in BOOLEAN
  /\ inputs \in Seq(Inputs \cup {<<>>}) /\ input \in Inputs \cup {<<>>}
  /\ phase = "read" => \E l \in DOMAIN inputs : inputs[l] = input
  /\ memory.fate # "well" <=> phase = "crashed"
  /\ phase # "crashed" => (memory.running # <<>> <=> phase = "evaluating")
  /\ \E N, S, O, R : Store(memory, N, S, O, R, Emptied)
  /\ phase = "parsed" => AllWhole(program, Emptied)
  /\ phase = "evaluating" => \E S : Fine(memory, S, Program(program), before, Emptied)
  /\ phase = "evaluated" => Traced(memory, Program(program), before)

\* Nodes stay proper when blocks may be empty as well.
LEMMA ClosedLater ==
  ASSUME NEW S, NEW e, NEW d, e => d, Closed(S, e)
  PROVE  Closed(S, d)
<1> SUFFICES ASSUME NEW n \in S PROVE Proper(n, S, d)
  BY DEF Closed
<1>1. Proper(n, S, e)
  BY DEF Closed
<1> QED
  BY <1>1, ProperMore

\* What was good stays so when more lines have empty blocks.
LEMMA StoreLater ==
  ASSUME NEW m, NEW N, NEW S, NEW O, NEW R, NEW e, NEW d, e => d, Store(m, N, S, O, R, e)
  PROVE  Store(m, N, S, O, R, d)
<1>1. Closed(S, d)
  BY ClosedLater DEF Store
<1>2. Objects(O, S, Len(m.envs), d)
  <2>1. Objects(O, S, Len(m.envs), e)
    BY DEF Store
  <2> QED
    BY <2>1 DEF Objects, Object
<1> QED
  BY <1>1, <1>2 DEF Store

\* An evaluation begins.
LEMMA BeginIsFine ==
  ASSUME NEW m, NEW N, NEW S, NEW O, NEW R, NEW e, Store(m, N, S, O, R, e),
         m.running = <<>>, NEW list, AllWhole(list, e)
  PROVE  /\ \E T : Fine(Evaluate(m, Program(list), Global), T, Program(list), m.envs, e)
         /\ Evaluate(m, Program(list), Global).fate = m.fate
         /\ Evaluate(m, Program(list), Global).running # <<>>
<1> DEFINE P == Program(list)
           a == Activation(P, Global)
           d == Evaluate(m, P, Global)
           n == Len(m.envs)
<1>1. PICK Q : list \in Seq(Q) /\ Closed(Q, e)
  BY DEF AllWhole
<1> DEFINE T == S \cup Q
           M == T \cup {P}
<1>2. P.kind = "Program" /\ P.stmts = list /\ P.stmts \in Seq(T)
  <2>1. list \in Seq(T)
    <3>1. Q \subseteq T
      OBVIOUS
    <3> QED
      BY <1>1, <3>1, SeqMonotonic
  <2> QED
    BY <2>1 DEF Program
<1> HIDE DEF P
<1>3. Closed(T, e)
  BY <1>1, ClosedTogether DEF Store
<1>4. Objects(O, T, n, e)
  <2>1. S \subseteq T
    OBVIOUS
  <2> HIDE DEF T
  <2> QED
    BY <2>1 DEF Store, Objects, Object
<1> HIDE DEF T
<1>5. m \in Memories(N, O, R) /\ m.envs \in Seq(Environments(R)) /\ n \in Nat /\ DOMAIN m.envs = 1..n
  BY MemoryParts DEF Store
<1>6. n \in Nat \ {0}
  BY <1>5 DEF Store, Scoped
<1>7. a.node = P /\ a.env = Global /\ a.given = <<>> /\ a \in Activations(M, O)
  <2>1. <<>> \in Seq(O) /\ Global \in Nat /\ P \in M
    BY DEF Global
  <2> HIDE DEF M
  <2> QED
    BY <2>1 DEF Activation, Activations
<1>8. d = [m EXCEPT !.running = Append(@, a)]
  <2>1. Len(m.running) = 0 /\ MaxDepth # 0
    BY SessionAssumption, EmptySeq
  <2> QED
    BY <2>1 DEF Evaluate
<1> HIDE DEF a, M, d
<1>9. Append(m.running, a) \in Seq(Activations(M, O)) /\ Len(Append(m.running, a)) = 1
      /\ Append(m.running, a)[1] = a
  <2>1. m.running \in Seq(Activations(M, O)) /\ Len(m.running) = 0
    BY EmptySeq
  <2>2. Append(m.running, a) \in Seq(Activations(M, O)) /\ Len(Append(m.running, a)) = Len(m.running) + 1
        /\ Append(m.running, a)[Len(m.running) + 1] = a
    BY <1>7, <2>1, AppendProperties
  <2> QED
    BY <2>1, <2>2
<1>10. /\ d \in Memories(M, O, R) /\ d.envs = m.envs /\ d.running = Append(m.running, a)
       /\ d.fate = m.fate
  BY <1>5, <1>8, <1>9 DEF Memories
<1>11. Store(d, M, T, O, R, e)
  <2>1. 1 <= MaxDepth
    BY SessionAssumption
  <2> QED
    BY <1>3, <1>4, <1>9, <1>10, <2>1 DEF Store
<1>12. Nested(d, T, P, m.envs)
  <2>1. Placed(a, 1, T, P, n, m.envs)
    <3>1. NodesOf(P, 1 - 1, {"Function"}) = {P}
      BY NodesOfStep
    <3> HIDE DEF n
    <3> QED
      BY <1>6, <1>7, <3>1 DEF Placed, Global
  <2>2. Fits(a, 0)
    <3>1. Len(P.stmts) \in Nat
      BY <1>2, LenProperties
    <3> QED
      BY <1>2, <1>7, <3>1 DEF Fits
  <2>3. GivenTo(d, 1) = 0
    BY <1>7, <1>9, <1>10, EmptySeq DEF GivenTo
  <2> QED
    BY <1>9, <1>10, <2>1, <2>2, <2>3 DEF Nested
<1>13. Traced(d, P, m.envs)
  BY <1>5, <1>6, <1>10 DEF Traced
<1>14. Good(d, T, O, R, P, m.envs, e)
  BY <1>2, <1>11, <1>12, <1>13 DEF Good, M
<1>15. \E U : Fine(d, U, P, m.envs, e)
  BY <1>14, Zenon DEF Fine
<1>16. d.running # <<>>
  BY <1>9, <1>10, EmptySeq
<1> QED
  BY <1>10, <1>15, <1>16 DEF d, P

\* A result is printed or the attempt crashes.
Answered(m, fate) == [m EXCEPT !.object = NullObject, !.fate = fate]
LEMMA AnswerIsStored ==
  ASSUME NEW m, NEW N, NEW S, NEW O, NEW R, NEW e, Store(m, N, S, O, R, e),
         NEW fate \in {"well", "printing"}
  PROVE  /\ Store(Answered(m, fate), N, S, O, R, e)
         /\ Answered(m, fate).fate = fate /\ Answered(m, fate).running = m.running
<1> DEFINE d == Answered(m, fate)
<1>1. m \in Memories(N, O, R)
  BY DEF Store
<1>2. /\ d \in Memories(N, O, R) /\ d.envs = m.envs /\ d.running = m.running /\ d.fate = fate
  BY <1>1 DEF Memories, Fates, Answered
<1> HIDE DEF d
<1>3. Store(d, N, S, O, R, e)
  <2>1. d.fate # "nothing"
    BY <1>2
  <2> QED
    BY <1>2, <2>1 DEF Store
<1> QED
  BY <1>2, <1>3 DEF d

\* The first memory.
LEMMA FreshIsStored ==
  ASSUME NEW e
  PROVE  Store(Fresh, {}, {}, {}, {NoNames}, e) /\ Fresh.fate = "well" /\ Fresh.running = <<>>
<1>1. /\ Fresh.envs = <<EmptyEnvironment>> /\ Fresh.running = <<>> /\ Fresh.fate = "well"
      /\ Fresh.made = 0 /\ Fresh.object = NullObject
  BY DEF Fresh
<1>2. /\ <<EmptyEnvironment>> \in Seq(Environments({NoNames})) /\ Len(<<EmptyEnvironment>>) = 1
      /\ <<EmptyEnvironment>>[1] = EmptyEnvironment /\ EmptyEnvironment.outer = 0
  <2>1. EmptyEnvironment \in Environments({NoNames}) /\ EmptyEnvironment.outer = 0
    BY DEF EmptyEnvironment, Environments
  <2> HIDE DEF EmptyEnvironment
  <2> QED
    BY <2>1
<1>3. Fresh \in Memories({}, {}, {NoNames})
  <2>1. <<>> \in Seq(Activations({}, {}))
    OBVIOUS
  <2> QED
    BY <1>2, <2>1 DEF Fresh, Memories, Fates
<1>4. Closed({}, e) /\ Objects({}, {}, Len(Fresh.envs), e) /\ Repos({NoNames}, {})
  BY DEF Closed, Objects, Repos, NoNames
<1>5. Scoped(Fresh.envs)
  BY <1>1, <1>2 DEF Scoped, Global
<1>6. Len(Fresh.running) <= MaxDepth
  BY <1>1, SessionAssumption, EmptySeq
<1> QED
  BY <1>1, <1>3, <1>4, <1>5, <1>6 DEF Store

\* No line has been read and the memory is the first one.
LEMMA SessionInvInit == Init => SessionInv
<1> SUFFICES ASSUME Init PROVE SessionInv
  OBVIOUS
<1>1. /\ phase = "reading" /\ input = <<>> /\ exhausted = FALSE /\ inputs = <<>> /\ memory = Fresh
  BY DEF Init
<1>2. Store(memory, {}, {}, {}, {NoNames}, Emptied) /\ memory.fate = "well" /\ memory.running = <<>>
  BY <1>1, FreshIsStored
<1>3. \E N, S, O, R : Store(memory, N, S, O, R, Emptied)
  BY <1>2, Zenon
<1>4. inputs \in Seq(Inputs \cup {<<>>})
  BY <1>1
<1> QED
  BY <1>1, <1>2, <1>3, <1>4 DEF SessionInv, Phases

\* An empty block of the lines read so far remains one of the lines read.
LEMMA EmptiedLater ==
  ASSUME NEW line, inputs \in Seq(Inputs \cup {<<>>}), line \in Inputs \cup {<<>>},
         inputs' = Append(inputs, line)
  PROVE  /\ inputs' \in Seq(Inputs \cup {<<>>}) /\ (Emptied => Emptied')
         /\ \E l \in DOMAIN inputs' : inputs'[l] = line
<1> DEFINE T == Inputs \cup {<<>>}
           n == Len(inputs)
<1> HIDE DEF T
<1>1. inputs \in Seq(T) /\ line \in T
  BY DEF T
<1>2. /\ inputs' \in Seq(T) /\ Len(inputs') = n + 1
      /\ \A i \in 1..n : inputs'[i] = inputs[i]
      /\ inputs'[n + 1] = line
  BY <1>1, AppendProperties
<1>3. n \in Nat /\ DOMAIN inputs = 1..n /\ DOMAIN inputs' = 1..(n + 1)
  BY <1>1, <1>2, LenProperties
<1> HIDE DEF n
<1>4. Emptied => Emptied'
  <2> SUFFICES ASSUME NEW l \in DOMAIN inputs, HasEmptyBlock(inputs[l]) PROVE Emptied'
    BY DEF Emptied
  <2>1. l \in DOMAIN inputs' /\ inputs'[l] = inputs[l]
    BY <1>2, <1>3
  <2> QED
    BY <2>1 DEF Emptied
<1> QED
  BY <1>2, <1>3, <1>4 DEF T

\* A line is read: the memory waits with no call pending.
LEMMA ReadPreserves ==
  ASSUME SessionInv, NEW line \in Inputs \cup {<<>>}, phase = "reading",
         input' = line, exhausted' \in BOOLEAN, phase' = "read",
         inputs' = Append(inputs, line), UNCHANGED memory
  PROVE  SessionInv'
<1>1. /\ inputs' \in Seq(Inputs \cup {<<>>}) /\ (Emptied => Emptied')
      /\ \E l \in DOMAIN inputs' : inputs'[l] = line
  BY EmptiedLater DEF SessionInv
<1>2. memory' = memory /\ memory.fate = "well" /\ memory.running = <<>>
  BY DEF SessionInv
<1>3. \E N, S, O, R : Store(memory', N, S, O, R, Emptied')
  <2>1. PICK N, S, O, R : Store(memory, N, S, O, R, Emptied)
    BY Zenon DEF SessionInv
  <2>2. Store(memory', N, S, O, R, Emptied')
    BY <1>1, <1>2, <2>1, StoreLater
  <2> QED
    BY <2>2, Zenon
<1> QED
  BY <1>1, <1>2, <1>3 DEF SessionInv, Phases

\* A line leaves the loop for good, or for the next line.
LEMMA LeftPreserves ==
  ASSUME SessionInv, NEW stage \in {"reading", "thrown", "ended"}, phase \in {"reading", "read"},
         input' \in Inputs \cup {<<>>}, exhausted' \in BOOLEAN, phase' = stage,
         UNCHANGED <<memory, inputs>>
  PROVE  SessionInv'
<1>1. memory' = memory /\ inputs' = inputs /\ Emptied' = Emptied
  BY DEF Emptied
<1> QED
  BY <1>1, Zenon DEF SessionInv, Phases

\* A line that is read was one of the lines or is the empty one.
LEMMA InputIsLine ==
  ASSUME NEW tokens \in Inputs \cup {<<>>}
  PROVE  IsLine(tokens)
<1>1. CASE tokens \in Inputs
  BY <1>1, SessionAssumption
<1>2. CASE tokens = <<>>
  BY <1>2, EmptySeq DEF IsLine
<1> QED
  BY <1>1, <1>2

\* Parsing gives whole statements, or the loop does not evaluate them.
LEMMA ParsePreserves == ASSUME SessionInv, Parse PROVE SessionInv'
<1> DEFINE parsed == ParseProgram(input)
<1>1. phase = "read" /\ UNCHANGED <<input, exhausted, memory, inputs, before>>
  BY DEF Parse
<1>2. CASE parsed.thrown \/ parsed.errors
  <2>1. phase' = "thrown" \/ phase' = "reading"
    BY <1>2 DEF Parse
  <2> HIDE DEF parsed
  <2>2. input' \in Inputs \cup {<<>>} /\ exhausted' \in BOOLEAN /\ UNCHANGED <<memory, inputs>>
    BY <1>1 DEF SessionInv
  <2> QED
    BY <1>1, <2>1, <2>2, LeftPreserves
<1>3. CASE ~parsed.thrown /\ ~parsed.errors
  <2>1. phase' = "parsed" /\ program' = parsed.node
    BY <1>3 DEF Parse
  <2>2. HasEmptyBlock(input) => Emptied
    BY <1>1 DEF SessionInv, Emptied
  <2>3. IsLine(input)
    BY InputIsLine DEF SessionInv
  <2>4. AllWhole(parsed.node, Emptied)
    BY <1>3, <2>2, <2>3, ParsedIsWhole
  <2> HIDE DEF parsed
  <2>5. memory' = memory /\ inputs' = inputs /\ Emptied' = Emptied
    BY <1>1 DEF Emptied
  <2>6. AllWhole(program', Emptied')
    BY <2>1, <2>4, <2>5
  <2> QED
    BY <1>1, <2>1, <2>5, <2>6, Zenon DEF SessionInv, Phases
<1> QED
  BY <1>2, <1>3

\* The statements are evaluated in the environment of the session.
LEMMA EvalPreserves == ASSUME SessionInv, Eval PROVE SessionInv'
<1> DEFINE P == Program(program)
<1>1. /\ phase = "parsed" /\ memory' = Evaluate(memory, P, Global) /\ before' = memory.envs
      /\ phase' = "evaluating" /\ UNCHANGED <<input, exhausted, program, inputs>>
  BY DEF Eval
<1>2. memory.fate = "well" /\ memory.running = <<>> /\ AllWhole(program, Emptied)
  BY <1>1 DEF SessionInv
<1>3. PICK N, S, O, R : Store(memory, N, S, O, R, Emptied)
  BY Zenon DEF SessionInv
<1>4. /\ \E T : Fine(Evaluate(memory, P, Global), T, P, memory.envs, Emptied)
      /\ Evaluate(memory, P, Global).fate = memory.fate
      /\ Evaluate(memory, P, Global).running # <<>>
  BY <1>2, <1>3, BeginIsFine
<1>5. P' = P /\ inputs' = inputs /\ Emptied' = Emptied
  BY <1>1 DEF Emptied
<1> HIDE DEF P
<1>6. PICK T : Fine(memory', T, P, memory.envs, Emptied)
  BY <1>1, <1>4, Zenon
<1>7. Fine(memory', T, P', before', Emptied')
  BY <1>1, <1>5, <1>6
<1>8. PICK U, V : Good(memory', T, U, V, P, memory.envs, Emptied)
  BY <1>6, Zenon DEF Fine
<1>9. \E M, X, U1, V1 : Store(memory', M, X, U1, V1, Emptied')
  <2>1. Store(memory', T \cup {P}, T, U, V, Emptied')
    BY <1>5, <1>8 DEF Good
  <2> QED
    BY <2>1, Zenon
<1>10. memory'.fate = "well" /\ memory'.running # <<>>
  BY <1>1, <1>2, <1>4
<1>11. \E X : Fine(memory', X, Program(program'), before', Emptied')
  BY <1>7, Zenon DEF P
<1> QED
  BY <1>1, <1>5, <1>9, <1>10, <1>11, Zenon DEF SessionInv, Phases

\* The innermost call goes on.
LEMMA EvaluationPreserves == ASSUME SessionInv, Evaluation PROVE SessionInv'
<1> DEFINE P == Program(program)
<1>1. /\ phase = "evaluating" /\ memory' = Proceed(memory)
      /\ UNCHANGED <<input, exhausted, program, inputs, before>>
  BY DEF Evaluation
<1>2. /\ memory'.fate # "well" => phase' = "crashed"
      /\ memory'.fate = "well" /\ memory'.running # <<>> => phase' = "evaluating"
      /\ memory'.fate = "well" /\ memory'.running = <<>> => phase' = "evaluated"
  BY DEF Evaluation
<1>3. memory.fate = "well" /\ memory.running # <<>>
  BY <1>1 DEF SessionInv
<1>4. PICK S : Fine(memory, S, P, before, Emptied)
  BY <1>1, Zenon DEF SessionInv
<1>5. P' = P /\ inputs' = inputs /\ Emptied' = Emptied /\ before' = before
  BY <1>1 DEF Emptied
<1>6. P = Program(program) /\ P' = Program(program')
  OBVIOUS
<1> HIDE DEF P
<1>7. PICK O, R : Good(memory, S, O, R, P, before, Emptied)
  BY <1>4, Zenon DEF Fine
<1>8. Fine(memory', S, P, before, Emptied)
  BY <1>1, <1>3, <1>7, ProceedIsFine
<1>9. PICK U, V : Good(memory', S, U, V, P, before, Emptied)
  BY <1>8, Zenon DEF Fine
<1>10. Store(memory', S \cup {P}, S, U, V, Emptied') /\ Traced(memory', Program(program'), before')
  BY <1>5, <1>6, <1>9 DEF Good
<1>11. \E N, X, O1, R1 : Store(memory', N, X, O1, R1, Emptied')
  BY <1>10, Zenon
<1>12. \E X : Fine(memory', X, Program(program'), before', Emptied')
  <2>1. Fine(memory', S, Program(program'), before', Emptied')
    BY <1>5, <1>6, <1>8
  <2> QED
    BY <2>1, Zenon
<1>13. /\ inputs' \in Seq(Inputs \cup {<<>>}) /\ input' \in Inputs \cup {<<>>}
       /\ exhausted' \in BOOLEAN
  BY <1>1 DEF SessionInv
<1> QED
  BY <1>2, <1>10, <1>11, <1>12, <1>13 DEF SessionInv, Phases

\* A line's result is printed.
LEMMA AnswerPreserves == ASSUME SessionInv, Answer PROVE SessionInv'
<1> DEFINE printed == memory.object = NullObject \/ Inspectable(memory.object)
           fate == IF printed THEN "well" ELSE "printing"
<1>1. /\ phase = "evaluated" /\ phase' = (IF printed THEN "reading" ELSE "crashed")
      /\ memory' = [memory EXCEPT !.object = NullObject,
                                  !.fate = IF printed THEN @ ELSE "printing"]
      /\ UNCHANGED <<input, exhausted, inputs>>
  BY DEF Answer
<1>2. fate \in {"well", "printing"} /\ (fate = "well" <=> phase' = "reading") /\ phase' \in {"reading", "crashed"}
  BY <1>1
<1>3. memory.fate = "well" /\ memory.running = <<>>
  BY <1>1 DEF SessionInv
<1>4. memory' = [memory EXCEPT !.object = NullObject, !.fate = fate]
  <2>1. CASE printed
    BY <1>1, <1>3, <2>1
  <2>2. CASE ~printed
    BY <1>1, <2>2
  <2> QED
    BY <2>1, <2>2
<1> HIDE DEF fate, printed
<1>5. PICK N, S, O, R : Store(memory, N, S, O, R, Emptied)
  BY Zenon DEF SessionInv
<1>6. Store(memory', N, S, O, R, Emptied) /\ memory'.fate = fate /\ memory'.running = memory.running
  <2>1. memory' = Answered(memory, fate)
    BY <1>4 DEF Answered
  <2> QED
    BY <1>2, <1>3, <1>5, <2>1, AnswerIsStored
<1>7. inputs' = inputs /\ Emptied' = Emptied
  BY <1>1 DEF Emptied
<1>8. \E M, X, O1, R1 : Store(memory', M, X, O1, R1, Emptied')
  BY <1>6, <1>7, Zenon
<1>9. /\ inputs' \in Seq(Inputs \cup {<<>>}) /\ input' \in Inputs \cup {<<>>}
      /\ exhausted' \in BOOLEAN
  BY <1>1 DEF SessionInv
<1> QED
  BY <1>2, <1>3, <1>6, <1>8, <1>9 DEF SessionInv, Phases

\* Every step of the loop keeps the invariant.
LEMMA SessionInvStep == ASSUME SessionInv, [SessionNext]_vars PROVE SessionInv'
<1>1. CASE ReadLine
  <2>1. PICK tokens \in Inputs : Reads(tokens)
    BY <1>1 DEF ReadLine
  <2> QED
    BY <2>1, ReadPreserves DEF Reads
<1>2. CASE ReadNothing
  BY <1>2, LeftPreserves DEF ReadNothing
<1>3. CASE ReadSameLine
  <2>1. input \in Inputs \cup {<<>>} /\ exhausted' \in BOOLEAN
    BY <1>3 DEF ReadSameLine, SessionInv
  <2> QED
    BY <1>3, <2>1, ReadPreserves DEF ReadSameLine
<1>4. CASE ReadTooLong
  BY <1>4, LeftPreserves DEF ReadTooLong
<1>5. CASE Parse
  BY <1>5, ParsePreserves
<1>6. CASE Eval
  BY <1>6, EvalPreserves
<1>7. CASE Evaluation
  BY <1>7, EvaluationPreserves
<1>8. CASE Answer
  BY <1>8, AnswerPreserves
<1>9. CASE UNCHANGED vars
  <2>1. /\ phase' = phase /\ input' = input /\ exhausted' = exhausted /\ program' = program
        /\ memory' = memory /\ inputs' = inputs /\ before' = before
    BY <1>9 DEF vars
  <2>2. Emptied' = Emptied
    BY <2>1 DEF Emptied
  <2> QED
    BY <2>1, <2>2 DEF SessionInv
<1> QED
  BY <1>1, <1>2, <1>3, <1>4, <1>5, <1>6, <1>7, <1>8, <1>9 DEF SessionNext

-----------------------------------------------------------------------------
(* What the invariant says of a session.                                   *)

\* The environments: each has its outer one before it, its names bound.
LEMMA SessionInvImpliesTypeOK == ASSUME SessionInv PROVE TypeOK
<1>1. PICK N, S, O, R : Store(memory, N, S, O, R, Emptied)
  BY Zenon DEF SessionInv
<1>2. memory \in Memories(N, O, R)
  BY <1>1 DEF Store
<1>3. memory.envs \in Seq(Environments(R)) /\ DOMAIN memory.envs = 1..Len(memory.envs)
  BY <1>2, MemoryParts
<1>4. ASSUME NEW i \in DOMAIN memory.envs
      PROVE  /\ memory.envs[i].outer \in 0..(i - 1) /\ (memory.envs[i].outer = 0 <=> i = Global)
             /\ \A x \in DOMAIN memory.envs[i].repo : Known(memory.envs[i].repo[x])
  <2>1. memory.envs[i].repo \in R
    <3>1. memory.envs[i] \in Environments(R)
      BY <1>3, <1>4, ElementOfSeq
    <3> QED
      BY <3>1 DEF Environments
  <2>2. ASSUME NEW x \in DOMAIN memory.envs[i].repo
        PROVE  Known(memory.envs[i].repo[x])
    <3> DEFINE o == memory.envs[i].repo[x]
    <3>1. o \in O /\ Bindable(o)
      BY <1>1, <2>1, <2>2 DEF Store, Repos
    <3> HIDE DEF o
    <3>2. Object(o, O, S, Len(memory.envs), Emptied)
      BY <1>1, <3>1 DEF Store, Objects
    <3>3. o # NullObject /\ o.type # "Error"
      BY <3>1 DEF Bindable, NullObject
    <3>4. Known(o)
      BY <1>3, <3>2, <3>3 DEF Object, Known
    <3> QED
      BY <3>4 DEF o
  <2> QED
    BY <1>1, <1>3, <2>2 DEF Store, Scoped
<1>5. Len(memory.running) <= MaxDepth
  BY <1>1 DEF Store
<1> QED
  BY <1>4, <1>5 DEF SessionInv, TypeOK

\* The trees: a null pointer is no node of a whole program.
LEMMA SessionInvImpliesNoHoles == ASSUME SessionInv PROVE NoHoles
<1>1. memory.fate # "hole"
  <2>1. PICK N, S, O, R : Store(memory, N, S, O, R, Emptied)
    BY Zenon DEF SessionInv
  <2>2. memory.fate \in Fates
    BY <2>1, MemoryParts DEF Store
  <2> QED
    BY <2>2 DEF Fates
<1>2. ASSUME phase = "parsed" PROVE Nullptr \notin NodesOf(Program(program), MaxDepth, {})
  <2> DEFINE P == Program(program)
  <2>1. PICK S : program \in Seq(S) /\ Closed(S, Emptied)
    BY <1>2 DEF SessionInv, AllWhole
  <2>2. P.kind = "Program" /\ P.stmts \in Seq(S)
    BY <2>1 DEF Program
  <2>3. Nullptr \notin S
    BY <2>1, NullIsNotWhole DEF Whole
  <2>4. Nullptr # P
    BY <2>2 DEF Nullptr
  <2> HIDE DEF P
  <2>5. NodesOf(P, MaxDepth, {}) \subseteq S \cup {P}
    BY <2>1, <2>2, SessionAssumption, NodesAreWhole
  <2> QED
    BY <2>3, <2>4, <2>5 DEF P
<1> QED
  BY <1>1, <1>2 DEF NoHoles

\* The environments from before the line, compared with those of now.
LEMMA SessionInvImpliesCallsLeaveNoTrace == ASSUME SessionInv PROVE CallsLeaveNoTrace
<1> SUFFICES ASSUME phase \in {"evaluating", "evaluated"}, NEW i \in DOMAIN before,
                    NEW x \in DOMAIN before[i].repo \cup DOMAIN memory.envs[i].repo
             PROVE  \/ /\ x \in DOMAIN before[i].repo /\ x \in DOMAIN memory.envs[i].repo
                       /\ memory.envs[i].repo[x] = before[i].repo[x]
                    \/ i = Global /\ x \in LetsOf(Program(program))
  BY DEF CallsLeaveNoTrace
<1>1. Traced(memory, Program(program), before)
  <2>1. CASE phase = "evaluated"
    BY <2>1 DEF SessionInv
  <2>2. CASE phase = "evaluating"
    <3>1. PICK S : Fine(memory, S, Program(program), before, Emptied)
      BY <2>2, Zenon DEF SessionInv
    <3> QED
      BY <3>1 DEF Fine, Good
  <2> QED
    BY <2>1, <2>2
<1> HIDE DEF LetsOf
<1> QED
  BY <1>1 DEF Traced

\* An object that is none: only where a block may be empty.
LEMMA SessionInvImpliesNothingFromEmptyBlocks == ASSUME SessionInv PROVE NothingFromEmptyBlocks
<1>1. PICK N, S, O, R : Store(memory, N, S, O, R, Emptied)
  BY Zenon DEF SessionInv
<1> QED
  BY <1>1 DEF Store, NothingFromEmptyBlocks, Emptied

\* The invariant holds at all times.
LEMMA SessionInvariant == SessionSpec => []SessionInv
<1>1. Init => SessionInv
  BY SessionInvInit
<1>2. SessionInv /\ [SessionNext]_vars => SessionInv'
  BY SessionInvStep
<1> QED
  BY <1>1, <1>2, PTL DEF SessionSpec

\* Whatever lines are read: every environment but the one of the session is
\* inside an older one, so that Environment::get() ends, names are bound to
\* objects that are there and are no errors, and calls are pending exactly
\* while a line is evaluated (src/src/environment.cpp, src/src/evaluator.cpp).
THEOREM SessionTypeCorrect == SessionSpec => []TypeOK
BY SessionInvariant, SessionInvImpliesTypeOK, PTL

\* Whatever tokens a line has, a tree that the parser gave without recording an
\* error has no null pointer where evaluate() follows one (src/src/parser.cpp,
\* src/src/repl.cpp).
THEOREM SessionNoHoles == SessionSpec => []NoHoles
BY SessionInvariant, SessionInvImpliesNoHoles, PTL

\* Whatever functions a line calls, however they recur, close over their
\* arguments or are passed on, the line binds no global but those of its own
\* lets, and leaves the environments of earlier closures as they were.
THEOREM SessionCallsLeaveNoTrace == SessionSpec => []CallsLeaveNoTrace
BY SessionInvariant, SessionInvImpliesCallsLeaveNoTrace, PTL

\* The evaluator follows a null pointer for an object only in a session one of
\* whose lines had a block without statements.
THEOREM SessionNothingFromEmptyBlocks == SessionSpec => []NothingFromEmptyBlocks
BY SessionInvariant, SessionInvImpliesNothingFromEmptyBlocks, PTL
=============================================================================
