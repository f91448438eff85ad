----------------------------- MODULE MemoryList -----------------------------
(***************************************************************************)
(* The heap of src/src/MemoryManager.cpp: strings in a linked list, which  *)
(* a pass over the list deletes when they are garbage, and the symbols of  *)
(* src/src/TSymbolTable.cpp that strings are stored to.                    *)
(*                                                                         *)
(* A block is a node of the list together with its string: the code makes  *)
(* and deletes the two together.  The passes take a step for each turn of  *)
(* their loops.                                                            *)
(***************************************************************************)
EXTENDS Integers, FiniteSets

CONSTANTS Blocks,   \* the addresses of blocks
          Names,    \* the symbols
          Null

ASSUME BlocksAssumption == IsFiniteSet(Blocks) /\ Null \notin Blocks

BlockTypes == {"Garbage", "Bound", "Owned", "Constant"}

VARIABLES live,         \* the blocks allocated and not deleted
          type,         \* robj->type_ of each block
          next,         \* next of each block
          head, tail, sizeOfList,
          symbols,      \* the string of each symbol
          control,      \* what the list is doing, or how it ended
          cursor, previous    \* of the pass under way

list == <<live, type, next, head, tail, sizeOfList>>
pass == <<control, cursor, previous>>
vars == <<list, symbols, pass>>

Init ==
  /\ live = {} /\ sizeOfList = 0
  /\ type = [b \in Blocks |-> "Garbage"]
  /\ next = [b \in Blocks |-> Null]
  /\ head = Null /\ tail = Null
  /\ symbols = [n \in Names |-> Null]
  /\ control = "idle"
  /\ cursor = Null /\ previous = Null

-----------------------------------------------------------------------------
(* Strings are made and stored.                                            *)

\* Mutant: the tail stays where it was.
TailKept(b) == IF head = Null THEN b ELSE tail
NewTail(b) == b

\* addNode() of a block that the allocator hands out, made of that type.
AddNode(b, t) ==
  /\ b \notin live
  /\ live' = live \cup {b}
  /\ type' = [type EXCEPT ![b] = t]
  /\ next' = IF head = Null THEN [next EXCEPT ![b] = Null]
             ELSE [next EXCEPT ![b] = Null, ![tail] = b]
  /\ head' = IF head = Null THEN b ELSE head
  /\ tail' = NewTail(b)
  /\ sizeOfList' = sizeOfList + 1

\* A new string is garbage until it is stored; one that TListObject::clone()
\* copies into a list is owned.
CreateString(b, t) ==
  /\ control = "idle"
  /\ AddNode(b, t)
  /\ UNCHANGED <<symbols, pass>>

\* The strings that are bound when they are stored to a symbol; of one that is
\* bound already, or a constant, which is not in the list, a copy is.
\* Mutant: only a constant is copied.
TakenUnlessConstant == {v \in live : type[v] # "Constant"}
Taken == {v \in live : type[v] \notin {"Constant", "Bound"}}

StoreString(n, v) ==
  /\ control = "idle"
  /\ v \in Taken
  /\ type' = [type EXCEPT ![v] = "Bound"]
  /\ symbols' = [symbols EXCEPT ![n] = v]
  /\ UNCHANGED <<live, next, head, tail, sizeOfList, pass>>

StoreCopy(n, b) ==
  /\ control = "idle"
  /\ AddNode(b, "Bound")
  /\ symbols' = [symbols EXCEPT ![n] = b]
  /\ UNCHANGED pass

-----------------------------------------------------------------------------
(* freeGarbage().  The procedures that delete a node are given the cursor   *)
(* by value: that of the pass stays on the node they deleted.               *)

BeginPass ==
  /\ control = "idle"
  /\ head # Null
  /\ control' = "pass"
  /\ cursor' = head
  /\ previous' = Null
  /\ UNCHANGED <<list, symbols>>

InPass == control = "pass" /\ cursor \in live
Collects == InPass /\ type[cursor] = "Garbage"

\* Mutant: the procedure that deletes a node counts it as well.
DeleteCountedTwice(b) == live' = live \ {b} /\ sizeOfList' = sizeOfList - 2
Delete(b) == live' = live \ {b} /\ sizeOfList' = sizeOfList - 1

\* Mutant: the node behind is set after the cursor has moved.
PreviousMoved == next[cursor]
NodeBehind == cursor
KeepNode ==
  /\ InPass
  /\ type[cursor] # "Garbage"
  /\ previous' = NodeBehind
  /\ cursor' = next[cursor]
  /\ UNCHANGED <<list, symbols, control>>

FreeFirstNode ==
  /\ Collects
  /\ cursor = head
  /\ head' = next[head]
  /\ Delete(cursor)
  /\ UNCHANGED <<type, next, tail, symbols, pass>>

\* Only the first node has none behind it, so that the test of previous that
\* the code makes here does not fail.
FreeLastNode ==
  /\ Collects
  /\ cursor # head
  /\ next[cursor] = Null
  /\ tail' = previous
  /\ next' = [next EXCEPT ![previous] = Null]
  /\ Delete(cursor)
  /\ UNCHANGED <<type, head, symbols, pass>>

FreeMiddleNode ==
  /\ Collects
  /\ cursor # head
  /\ next[cursor] # Null
  /\ next' = [next EXCEPT ![previous] = next[cursor]]
  /\ Delete(cursor)
  /\ UNCHANGED <<type, head, tail, symbols, pass>>

\* The loop reads the node at the cursor although it is deleted.  What it finds
\* is undefined, and nothing is modelled after it.
ReadDeleted ==
  /\ control = "pass"
  /\ cursor \notin live \cup {Null}
  /\ control' = "wild"
  /\ UNCHANGED <<list, symbols, cursor, previous>>

EndPass ==
  /\ control = "pass"
  /\ cursor = Null
  /\ control' = "idle"
  /\ UNCHANGED <<list, symbols, cursor, previous>>

-----------------------------------------------------------------------------
(* freeList(), after which no holder of a string is left.                   *)

BeginFree ==
  /\ control = "idle"
  /\ control' = "freeing"
  /\ UNCHANGED <<list, symbols, cursor, previous>>

FreeHead ==
  /\ control = "freeing"
  /\ head # Null
  /\ head' = next[head]
  /\ live' = live \ {head}
  /\ UNCHANGED <<type, next, tail, sizeOfList, symbols, pass>>

EndFree ==
  /\ control = "freeing"
  /\ head = Null
  /\ tail' = Null
  /\ sizeOfList' = 0
  /\ control' = "freed"
  /\ UNCHANGED <<live, type, next, head, symbols, cursor, previous>>

Ended == control \in {"wild", "freed"} /\ UNCHANGED vars

Store == \E n \in Names, b \in Blocks : StoreString(n, b) \/ StoreCopy(n, b)
Create == \E b \in Blocks, t \in {"Garbage", "Owned"} : CreateString(b, t)

Next ==
  \/ Create \/ Store
  \/ BeginPass \/ KeepNode \/ FreeFirstNode \/ FreeLastNode \/ FreeMiddleNode
  \/ ReadDeleted \/ EndPass
  \/ BeginFree \/ FreeHead \/ EndFree
  \/ Ended

Spec == Init /\ [][Next]_vars

-----------------------------------------------------------------------------

TypeOK ==
  /\ live \in SUBSET Blocks
  /\ type \in [Blocks -> BlockTypes]
  /\ next \in [Blocks -> Blocks \cup {Null}]
  /\ {head, tail, cursor, previous} \subseteq Blocks \cup {Null}
  /\ sizeOfList \in Nat
  /\ symbols \in [Names -> Blocks \cup {Null}]
  /\ control \in {"idle", "pass", "wild", "freeing", "freed"}

\* The block that many nodes after the head.
Node ==
  LET node[i \in 0..Cardinality(Blocks)] ==
        IF i = 0 THEN head
        ELSE IF node[i - 1] = Null THEN Null ELSE next[node[i - 1]]
  IN  node
Listed == {Node[i] : i \in DOMAIN Node} \ {Null}

\* Whatever is added, stored and deleted, one by one and in the middle of a
\* pass, the list has every block that is allocated and no other, ends in the
\* tail and is as long as sizeOfList says; freeList() deletes all of it.
Linked ==
  /\ Listed = live
  /\ Node[Cardinality(Blocks)] = Null
  /\ control # "freeing" => sizeOfList = Cardinality(live)
  /\ control # "freeing" /\ head # Null => tail \in live /\ next[tail] = Null
  /\ control = "freed" => live = {}

\* The pass unlinks a node through the one it remembers to be behind it.
PreviousBehind ==
  InPass /\ cursor # head => previous \in live /\ next[previous] = cursor

\* A symbol has a string of its own, which the passes spare until the end.
SymbolsOwnStrings ==
  \A n \in Names :
    symbols[n] # Null /\ control \notin {"freeing", "freed"} =>
      /\ symbols[n] \in live
      /\ type[symbols[n]] = "Bound"
      /\ \A m \in Names \ {n} : symbols[m] # symbols[n]

\* MemoryManager.cpp: deleting a node will "move cursor to the next node".
CursorMovesOn == control = "pass" => cursor \in live \cup {Null}
=============================================================================
