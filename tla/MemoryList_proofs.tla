-------------------------- MODULE MemoryList_proofs --------------------------
(***************************************************************************)
(* Proofs that the list of the heap stays linked, for any number of blocks *)
(* and symbols.                                                            *)
(*                                                                         *)
(* The inductive invariant names the blocks of the list in their order: a  *)
(* function from 1..n, of which adding a block makes one from 1..n+1 and   *)
(* deleting one makes one from 1..n-1.  Node, which walks the list from    *)
(* its head, is shown to be that function in any state that has one.       *)
(***************************************************************************)
EXTENDS MemoryList, Numbers_proofs, FiniteSetTheorems, TLAPS

\* The n blocks of b, linked by s in that order, from h.
Ordered(n, s, b, nx, h) ==
  /\ n \in Nat
  /\ s \in [1..n -> b]
  /\ \A i, j \in 1..n : s[i] = s[j] => i = j
  /\ \A x \in b : \E i \in 1..n : s[i] = x
  /\ \A i \in 1..n : nx[s[i]] = IF i = n THEN Null ELSE s[i + 1]
  /\ h = IF n = 0 THEN Null ELSE s[1]

\* The order with one more at its end, and without the k-th.
Behind(n, s, x) == [i \in 1..(n + 1) |-> IF i = n + 1 THEN x ELSE s[i]]
Without(n, s, k) == [i \in 1..(n - 1) |-> IF i < k THEN s[i] ELSE s[i + 1]]

Typed ==
  /\ live \in SUBSET Blocks
  /\ type \in [Blocks -> BlockTypes]
  /\ next \in [Blocks -> Blocks \cup {Null}]
  /\ {head, tail, cursor, previous} \subseteq Blocks \cup {Null}
  /\ symbols \in [Names -> Blocks \cup {Null}]
  /\ control \in {"idle", "pass", "wild", "freeing", "freed"}

\* That order of the blocks, the tail and the size that go with it.
Holds(n, s) ==
  /\ Ordered(n, s, live, next, head)
  /\ control # "freeing" => sizeOfList = n
  /\ control # "freeing" /\ n # 0 => tail = s[n]
  /\ control = "freed" => n = 0

InOrder == \E n \in Nat : \E s \in [1..n -> live] : Holds(n, s)

\* While the list is freed its size is that of before.
SizeNatural == sizeOfList \in Nat

Inv == Typed /\ SizeNatural /\ InOrder /\ PreviousBehind /\ SymbolsOwnStrings

-----------------------------------------------------------------------------
(* An order with a block more, or a block less.                            *)

\* A new block goes behind the last.
LEMMA Added ==
  ASSUME NEW n, NEW s, NEW b, NEW nx, NEW h, Ordered(n, s, b, nx, h),
         NEW x, x \notin b, NEW b2, b2 = b \cup {x}, NEW nx2, NEW h2,
         nx2[x] = Null,
         \A i \in 1..n : i # n => nx2[s[i]] = nx[s[i]],
         n # 0 => nx2[s[n]] = x,
         h2 = IF n = 0 THEN x ELSE h
  PROVE  Ordered(n + 1, Behind(n, s, x), b2, nx2, h2)
<1> DEFINE s2 == Behind(n, s, x)
<1> USE DEF Ordered
<1>1. n \in Nat /\ s2 \in [1..(n + 1) -> b \cup {x}] /\ s2[n + 1] = x
      /\ \A i \in 1..n : s2[i] = s[i] /\ s[i] \in b
  BY DEF Behind
<1>2. \A i, j \in 1..(n + 1) : s2[i] = s2[j] => i = j
  BY <1>1
<1>3. \A y \in b \cup {x} : \E i \in 1..(n + 1) : s2[i] = y
  BY <1>1
<1> HIDE DEF s2
<1>4. ASSUME NEW i \in 1..(n + 1)
      PROVE  nx2[s2[i]] = IF i = n + 1 THEN Null ELSE s2[i + 1]
  <2>1. CASE i = n + 1
    BY <2>1, <1>1
  <2>2. CASE i = n
    <3>1. n \in 1..n /\ n # 0 /\ n # n + 1
      BY <2>2, <1>1
    <3> QED
      BY <2>2, <1>1, <3>1
  <2>3. CASE i # n /\ i # n + 1
    <3>1. i \in 1..n /\ i + 1 \in 1..n
      BY <2>3, <1>1
    <3> QED
      BY <2>3, <1>1, <3>1
  <2> QED
    BY <2>1, <2>2, <2>3
<1>5. h2 = IF n + 1 = 0 THEN Null ELSE s2[1]
  BY <1>1
<1> QED
  BY <1>1, <1>2, <1>3, <1>4, <1>5 DEF s2

\* A block is unlinked through the one before it, or through the head.
LEMMA Removed ==
  ASSUME NEW n, NEW s, NEW b, NEW nx, NEW h, Ordered(n, s, b, nx, h),
         NEW k \in 1..n, NEW b2, b2 = b \ {s[k]}, NEW nx2, NEW h2,
         \A i \in 1..n : i # k /\ i # k - 1 => nx2[s[i]] = nx[s[i]],
         k # 1 => nx2[s[k - 1]] = nx[s[k]],
         h2 = IF k = 1 THEN nx[s[k]] ELSE h
  PROVE  Ordered(n - 1, Without(n, s, k), b2, nx2, h2)
<1> DEFINE s2 == Without(n, s, k)
<1> USE DEF Ordered
<1>1. n \in Nat /\ n - 1 \in Nat /\ \A i \in 1..n : s[i] \in b
  OBVIOUS
<1>2. \A i \in 1..(n - 1) : i \in 1..n /\ i + 1 \in 1..n
  BY <1>1
<1>3. \A i \in 1..(n - 1) : s2[i] = (IF i < k THEN s[i] ELSE s[i + 1]) /\ s2[i] \in b \ {s[k]}
  BY <1>1, <1>2 DEF Without
<1>4. s2 \in [1..(n - 1) -> b \ {s[k]}]
  BY <1>3 DEF Without
<1> HIDE DEF s2
<1>5. \A i, j \in 1..(n - 1) : s2[i] = s2[j] => i = j
  BY <1>1, <1>2, <1>3
<1>6. ASSUME NEW x \in b \ {s[k]}
      PROVE  \E i \in 1..(n - 1) : s2[i] = x
  <2>1. PICK i \in 1..n : s[i] = x /\ i # k
    OBVIOUS
  <2>2. CASE i < k
    <3>1. i \in 1..(n - 1)
      BY <1>1, <2>2
    <3> QED
      BY <1>3, <2>1, <2>2, <3>1
  <2>3. CASE i > k
    <3>1. i - 1 \in 1..(n - 1) /\ ~(i - 1 < k) /\ i - 1 + 1 = i
      BY <1>1, <2>3
    <3>2. s2[i - 1] = s[i]
      BY <1>3, <3>1
    <3> QED
      BY <2>1, <3>1, <3>2
  <2> QED
    BY <2>1, <2>2, <2>3
<1>7. ASSUME NEW i \in 1..(n - 1)
      PROVE  nx2[s2[i]] = IF i = n - 1 THEN Null ELSE s2[i + 1]
  <2>1. CASE i < k - 1
    <3>1. i \in 1..n /\ i # n /\ i # k /\ i # k - 1 /\ i < k /\ i + 1 < k /\ i # n - 1
          /\ i + 1 \in 1..(n - 1)
      BY <1>1, <2>1
    <3> QED
      BY <1>3, <3>1
  <2>2. CASE i = k - 1
    <3>1. k # 1 /\ i < k /\ ~(i + 1 < k) /\ i + 1 = k /\ (i = n - 1 <=> k = n)
          /\ (k # n => i + 1 \in 1..(n - 1))
      BY <1>1, <2>2
    <3>2. nx2[s2[i]] = nx[s[k]]
      BY <1>3, <2>2, <3>1
    <3> QED
      BY <1>3, <3>1, <3>2
  <2>3. CASE i >= k
    <3>1. i + 1 \in 1..n /\ i + 1 # k /\ i + 1 # k - 1 /\ ~(i < k) /\ ~(i + 1 < k)
          /\ (i = n - 1 <=> i + 1 = n) /\ (i # n - 1 => i + 1 \in 1..(n - 1))
      BY <1>1, <2>3
    <3>2. nx2[s2[i]] = nx[s[i + 1]]
      BY <1>3, <3>1
    <3> QED
      BY <1>3, <3>1, <3>2
  <2> QED
    BY <1>1, <2>1, <2>2, <2>3
<1>8. h2 = IF n - 1 = 0 THEN Null ELSE s2[1]
  <2>1. CASE k = 1
    BY <1>1, <1>3, <2>1
  <2>2. CASE k # 1
    <3>1. 1 < k /\ n - 1 # 0 /\ n # 0 /\ 1 \in 1..(n - 1)
      BY <1>1, <2>2
    <3> QED
      BY <1>3, <2>2, <3>1
  <2> QED
    BY <2>1, <2>2
<1> QED
  BY <1>1, <1>4, <1>5, <1>6, <1>7, <1>8 DEF s2

\* What is last then.
LEMMA LastLeft ==
  ASSUME NEW n \in Nat, NEW s, NEW k \in 1..n, n # 1
  PROVE  Without(n, s, k)[n - 1] = IF k = n THEN s[n - 1] ELSE s[n]
<1>1. n - 1 \in 1..(n - 1) /\ (n - 1 < k <=> k = n) /\ n - 1 + 1 = n
  OBVIOUS
<1> QED
  BY <1>1 DEF Without

-----------------------------------------------------------------------------
(* The steps.                                                              *)

LEMMA InitInv == Init => Inv
<1> SUFFICES ASSUME Init PROVE Inv
  OBVIOUS
<1>1. Typed /\ SizeNatural /\ PreviousBehind /\ SymbolsOwnStrings
  BY DEF Init, Typed, SizeNatural, PreviousBehind, InPass, SymbolsOwnStrings, BlockTypes
<1>2. Holds(0, [i \in 1..0 |-> Null])
  BY DEF Init, Holds, Ordered
<1>3. InOrder
  <2>1. [i \in 1..0 |-> Null] \in [1..0 -> live]
    OBVIOUS
  <2> QED
    BY <1>2, <2>1 DEF InOrder
<1> QED
  BY <1>1, <1>3 DEF Inv

\* The variables keep to their types, but for the size.
LEMMA TypedKept == Inv /\ [Next]_vars => Typed'
<1> SUFFICES ASSUME Inv, [Next]_vars PROVE Typed'
  OBVIOUS
<1> USE DEF Inv, Typed, BlockTypes, list, pass
<1>1. ASSUME NEW b \in Blocks, NEW t \in BlockTypes, AddNode(b, t)
      PROVE  /\ live' \in SUBSET Blocks /\ type' \in [Blocks -> BlockTypes]
             /\ next' \in [Blocks -> Blocks \cup {Null}]
             /\ {head', tail'} \subseteq Blocks \cup {Null}
  BY <1>1 DEF AddNode, NewTail
<1>2. CASE Create
  BY <1>1, <1>2 DEF Create, CreateString
<1>3. CASE Store
  <2>1. ASSUME NEW m \in Names, NEW b \in Blocks, StoreString(m, b) PROVE Typed'
    BY <2>1 DEF StoreString
  <2>2. ASSUME NEW m \in Names, NEW b \in Blocks, StoreCopy(m, b) PROVE Typed'
    BY <1>1, <2>2 DEF StoreCopy
  <2> QED
    BY <1>3, <2>1, <2>2 DEF Store
<1>4. CASE BeginPass \/ KeepNode \/ ReadDeleted \/ EndPass
  BY <1>4 DEF BeginPass, KeepNode, InPass, NodeBehind, ReadDeleted, EndPass
<1>5. CASE FreeFirstNode \/ FreeLastNode \/ FreeMiddleNode
  BY <1>5 DEF FreeFirstNode, FreeLastNode, FreeMiddleNode, Delete, Collects, InPass
<1>6. CASE BeginFree \/ FreeHead \/ EndFree
  BY <1>6 DEF BeginFree, FreeHead, EndFree
<1>7. CASE UNCHANGED vars
  BY <1>7 DEF vars
<1> QED
  BY <1>2, <1>3, <1>4, <1>5, <1>6, <1>7 DEF Next, Ended

\* A pass ends with the node it deletes, and steps to the node behind which it
\* has left.
LEMMA PreviousKept == Inv /\ [Next]_vars => PreviousBehind'
<1> SUFFICES ASSUME Inv, [Next]_vars, InPass', cursor' # head'
             PROVE  previous' \in live' /\ next'[previous'] = cursor'
  BY DEF PreviousBehind
<1> USE DEF InPass, list, pass
<1>1. CASE Create \/ Store
  BY <1>1 DEF Create, CreateString, Store, StoreString, StoreCopy
<1>2. CASE BeginPass \/ ReadDeleted \/ EndPass
  BY <1>2 DEF BeginPass, ReadDeleted, EndPass
<1>3. CASE KeepNode
  BY <1>3 DEF KeepNode, NodeBehind
<1>4. CASE FreeFirstNode \/ FreeLastNode \/ FreeMiddleNode
  BY <1>4 DEF FreeFirstNode, FreeLastNode, FreeMiddleNode, Delete
<1>5. CASE BeginFree \/ FreeHead \/ EndFree
  BY <1>5 DEF BeginFree, FreeHead, EndFree
<1>6. CASE UNCHANGED vars
  BY <1>6 DEF vars, Inv, PreviousBehind
<1> QED
  BY <1>1, <1>2, <1>3, <1>4, <1>5, <1>6 DEF Next, Ended

\* What is stored to a symbol was bound to none, and what is deleted is not
\* bound.
LEMMA SymbolsKept == Inv /\ [Next]_vars => SymbolsOwnStrings'
<1> SUFFICES ASSUME Inv, [Next]_vars, control' \notin {"freeing", "freed"}
             PROVE  SymbolsOwnStrings'
  BY DEF SymbolsOwnStrings
<1>1. Typed /\ SymbolsOwnStrings
  BY DEF Inv
<1> USE DEF list, pass
<1>2. CASE Create
  <2>1. PICK b \in Blocks, t \in {"Garbage", "Owned"} : CreateString(b, t)
    BY <1>2 DEF Create
  <2>2. /\ control = "idle" /\ b \notin live /\ live' = live \cup {b}
        /\ symbols' = symbols /\ \A x \in Blocks : x # b => type'[x] = type[x]
    BY <1>1, <2>1 DEF CreateString, AddNode, Typed
  <2> QED
    BY <1>1, <2>2 DEF SymbolsOwnStrings, Typed
<1>3. CASE Store
  <2>1. PICK m \in Names, b \in Blocks : StoreString(m, b) \/ StoreCopy(m, b)
    BY <1>3 DEF Store
  <2>2. /\ control = "idle" /\ live \subseteq live' /\ b \in live' /\ type'[b] = "Bound"
        /\ symbols' = [symbols EXCEPT ![m] = b]
        /\ \A x \in Blocks : x # b => type'[x] = type[x]
        /\ b \notin live \/ type[b] # "Bound"
    <3>1. CASE StoreString(m, b)
      BY <1>1, <3>1 DEF StoreString, Taken, Typed
    <3>2. CASE StoreCopy(m, b)
      BY <1>1, <3>2 DEF StoreCopy, AddNode, Typed
    <3> QED
      BY <2>1, <3>1, <3>2
  <2>3. ASSUME NEW q \in Names, symbols[q] # Null
        PROVE  symbols[q] \in live /\ type[symbols[q]] = "Bound" /\ symbols[q] # b
               /\ symbols[q] \in Blocks
    BY <1>1, <2>2, <2>3 DEF SymbolsOwnStrings, Typed
  <2>4. symbols'[m] = b /\ \A q \in Names : q # m => symbols'[q] = symbols[q]
    BY <1>1, <2>2 DEF Typed
  <2>5. ASSUME NEW q \in Names, symbols'[q] # Null
        PROVE  /\ symbols'[q] \in live' /\ type'[symbols'[q]] = "Bound"
               /\ \A r \in Names \ {q} : symbols'[r] # symbols'[q]
    <3>1. CASE q = m
      BY <2>2, <2>3, <2>4, <3>1, BlocksAssumption
    <3>2. CASE q # m
      BY <1>1, <2>2, <2>3, <2>4, <2>5, <3>2 DEF SymbolsOwnStrings
    <3> QED
      BY <3>1, <3>2
  <2> QED
    BY <2>5 DEF SymbolsOwnStrings
<1>4. CASE BeginPass \/ KeepNode \/ ReadDeleted \/ EndPass
  BY <1>1, <1>4 DEF BeginPass, KeepNode, InPass, ReadDeleted, EndPass, SymbolsOwnStrings
<1>5. CASE FreeFirstNode \/ FreeLastNode \/ FreeMiddleNode
  <2>1. control = "pass" /\ type[cursor] = "Garbage" /\ live' = live \ {cursor}
         /\ UNCHANGED <<type, symbols>>
    BY <1>5 DEF FreeFirstNode, FreeLastNode, FreeMiddleNode, Delete, Collects, InPass
  <2> QED
    BY <1>1, <2>1 DEF SymbolsOwnStrings
<1>6. CASE BeginFree \/ FreeHead \/ EndFree
  BY <1>6 DEF BeginFree, FreeHead, EndFree
<1>7. CASE UNCHANGED vars
  BY <1>1, <1>7 DEF vars, SymbolsOwnStrings
<1> QED
  BY <1>2, <1>3, <1>4, <1>5, <1>6, <1>7 DEF Next, Ended

-----------------------------------------------------------------------------
(* The order is kept.                                                      *)

LEMMA AddKept ==
  ASSUME Typed, NEW n \in Nat, NEW s \in [1..n -> live], Holds(n, s), control = "idle",
         NEW b \in Blocks, NEW t, AddNode(b, t), control' = "idle"
  PROVE  InOrder'
<1>1. Ordered(n, s, live, next, head) /\ (n # 0 => tail = s[n]) /\ sizeOfList = n
  BY DEF Holds
<1>2. b \notin live /\ live' = live \cup {b} /\ tail' = b /\ sizeOfList' = n + 1
  BY <1>1 DEF AddNode, NewTail
<1>3. (head = Null <=> n = 0) /\ \A i \in 1..n : s[i] \in live /\ s[i] \in Blocks
  BY <1>1, BlocksAssumption DEF Ordered, Typed
<1>4. /\ next'[b] = Null
      /\ \A i \in 1..n : i # n => next'[s[i]] = next[s[i]]
      /\ n # 0 => next'[s[n]] = b
      /\ head' = IF n = 0 THEN b ELSE head
  <2>1. CASE n = 0
    BY <1>1, <1>2, <1>3, <2>1 DEF AddNode, Typed
  <2>2. CASE n # 0
    <3>1. n \in 1..n /\ \A i \in 1..n : i # n => s[i] # s[n]
      BY <1>1, <2>2 DEF Ordered
    <3>2. next' = [next EXCEPT ![b] = Null, ![s[n]] = b] /\ head' = head
      BY <1>1, <1>3, <2>2 DEF AddNode
    <3> QED
      BY <1>2, <1>3, <2>2, <3>1, <3>2 DEF Typed
  <2> QED
    BY <2>1, <2>2
<1>5. PICK s2 : Ordered(n + 1, s2, live', next', head') /\ s2[n + 1] = b
  <2>1. Ordered(n + 1, Behind(n, s, b), live', next', head')
    BY <1>1, <1>2, <1>4, Added
  <2> QED
    BY <2>1 DEF Behind
<1>6. Holds(n + 1, s2)' /\ n + 1 \in Nat /\ s2 \in [1..(n + 1) -> live']
  BY <1>2, <1>5 DEF Holds, Ordered
<1> QED
  BY <1>6 DEF InOrder

\* A pass deletes the block at the cursor.
LEMMA CollectKept ==
  ASSUME Typed, NEW n \in Nat, NEW s \in [1..n -> live], Holds(n, s), PreviousBehind,
         FreeFirstNode \/ FreeLastNode \/ FreeMiddleNode
  PROVE  InOrder'
<1>1. /\ Ordered(n, s, live, next, head) /\ InPass /\ control' = "pass"
      /\ n # 0 => tail = s[n]
      /\ sizeOfList' = n - 1 /\ live' = live \ {cursor}
  BY DEF Holds, FreeFirstNode, FreeLastNode, FreeMiddleNode, Delete, Collects, InPass, pass
<1>2. PICK k \in 1..n : s[k] = cursor
  BY <1>1 DEF Ordered, InPass
<1>3. /\ \A i \in 1..n : s[i] \in live /\ s[i] \in Blocks /\ s[i] # Null
      /\ \A i, j \in 1..n : s[i] = s[j] => i = j
      /\ n # 0 /\ n \in 1..n /\ 1 \in 1..n /\ head = s[1]
      /\ \A i \in 1..n : next[s[i]] = IF i = n THEN Null ELSE s[i + 1]
  BY <1>1, BlocksAssumption DEF Ordered, Typed
<1>4. k = 1 <=> cursor = head
  BY <1>2, <1>3
<1>5. k # 1 => k - 1 \in 1..n /\ s[k - 1] = previous
  <2> SUFFICES ASSUME k # 1 PROVE k - 1 \in 1..n /\ s[k - 1] = previous
    OBVIOUS
  <2>1. previous \in live /\ next[previous] = cursor
    BY <1>1, <1>4 DEF PreviousBehind
  <2>2. PICK j \in 1..n : s[j] = previous
    BY <1>1, <2>1 DEF Ordered
  <2>3. j # n /\ j + 1 \in 1..n /\ s[j + 1] = s[k]
    BY <1>2, <1>3, <2>1, <2>2
  <2>4. j + 1 = k
    BY <1>3, <2>3
  <2> QED
    BY <2>2, <2>4
<1>6. /\ head' = IF k = 1 THEN next[s[k]] ELSE head
      /\ k # 1 => next' = [next EXCEPT ![previous] = next[cursor]]
      /\ k = 1 => next' = next
      /\ tail' = IF k = n /\ k # 1 THEN previous ELSE tail
  <2>1. next[cursor] = Null <=> k = n
    <3>1. k # n => k + 1 \in 1..n
      OBVIOUS
    <3> QED
      BY <1>2, <1>3, <3>1
  <2>2. CASE FreeFirstNode
    BY <1>2, <1>4, <2>2 DEF FreeFirstNode
  <2>3. CASE FreeLastNode
    BY <1>2, <1>4, <2>1, <2>3 DEF FreeLastNode
  <2>4. CASE FreeMiddleNode
    BY <1>2, <1>4, <2>1, <2>4 DEF FreeMiddleNode
  <2> QED
    BY <2>2, <2>3, <2>4
<1>7. /\ \A i \in 1..n : i # k /\ i # k - 1 => next'[s[i]] = next[s[i]]
      /\ k # 1 => next'[s[k - 1]] = next[s[k]]
  <2>1. CASE k = 1
    BY <1>6, <2>1
  <2>2. CASE k # 1
    BY <1>2, <1>3, <1>5, <1>6, <2>2 DEF Typed
  <2> QED
    BY <2>1, <2>2
<1>8. PICK s2 : /\ Ordered(n - 1, s2, live', next', head')
                /\ n # 1 => s2[n - 1] = IF k = n THEN s[n - 1] ELSE s[n]
  <2>1. Ordered(n - 1, Without(n, s, k), live', next', head')
    BY <1>1, <1>2, <1>6, <1>7, Removed
  <2> QED
    BY <2>1, LastLeft
<1>9. n - 1 # 0 => tail' = s2[n - 1]
  BY <1>1, <1>3, <1>5, <1>6, <1>8
<1>10. Holds(n - 1, s2)' /\ n - 1 \in Nat /\ s2 \in [1..(n - 1) -> live']
  BY <1>1, <1>3, <1>8, <1>9 DEF Holds, Ordered
<1> QED
  BY <1>10 DEF InOrder

\* freeList() deletes the block at the head.
LEMMA FreeHeadKept ==
  ASSUME Typed, NEW n \in Nat, NEW s \in [1..n -> live], Holds(n, s), FreeHead
  PROVE  InOrder'
<1>1. /\ Ordered(n, s, live, next, head) /\ control' = "freeing" /\ next' = next
      /\ live' = live \ {head} /\ head' = next[head] /\ head # Null
  BY DEF Holds, FreeHead, pass
<1>2. n # 0 /\ 1 \in 1..n /\ head = s[1]
  BY <1>1 DEF Ordered
<1>3. PICK s2 : Ordered(n - 1, s2, live', next', head')
  <2>1. PICK k \in 1..n : k = 1
    BY <1>2
  <2>2. /\ \A i \in 1..n : i # k /\ i # k - 1 => next'[s[i]] = next[s[i]]
        /\ k # 1 => next'[s[k - 1]] = next[s[k]]
        /\ head' = IF k = 1 THEN next[s[k]] ELSE head
        /\ live' = live \ {s[k]}
    BY <1>1, <1>2, <2>1
  <2>3. Ordered(n - 1, Without(n, s, k), live', next', head')
    BY <1>1, <2>2, Removed
  <2> QED
    BY <2>3
<1>4. Holds(n - 1, s2)' /\ n - 1 \in Nat /\ s2 \in [1..(n - 1) -> live']
  BY <1>1, <1>2, <1>3 DEF Holds, Ordered
<1> QED
  BY <1>4 DEF InOrder

LEMMA OrderKept == Inv /\ [Next]_vars => InOrder'
<1> SUFFICES ASSUME Inv, [Next]_vars PROVE InOrder'
  OBVIOUS
<1>1. Typed /\ PreviousBehind
  BY DEF Inv
<1>11. PICK n \in Nat : \E s \in [1..n -> live] : Holds(n, s)
  BY DEF Inv, InOrder
<1>2. PICK s \in [1..n -> live] : Holds(n, s)
  BY <1>11
<1>3. CASE Create
  BY <1>1, <1>2, <1>3, AddKept DEF Create, CreateString, pass
<1>4. ASSUME UNCHANGED <<live, next, head, tail, sizeOfList>>,
             control' # "freed", control = "freeing" => control' = "freeing"
      PROVE  InOrder'
  BY <1>2, <1>4 DEF InOrder, Holds
<1>5. CASE Store
  <2>1. ASSUME NEW m \in Names, NEW b \in Blocks, StoreString(m, b) PROVE InOrder'
    <3>1. control' = "idle" /\ control = "idle"
      BY <2>1 DEF StoreString, pass
    <3> QED
      BY <1>4, <2>1, <3>1 DEF StoreString
  <2>2. ASSUME NEW m \in Names, NEW b \in Blocks, StoreCopy(m, b) PROVE InOrder'
    BY <1>1, <1>2, <2>2, AddKept DEF StoreCopy, pass
  <2> QED
    BY <1>5, <2>1, <2>2 DEF Store
<1>6. CASE BeginPass \/ KeepNode \/ ReadDeleted \/ EndPass \/ BeginFree
  BY <1>4, <1>6 DEF BeginPass, KeepNode, InPass, ReadDeleted, EndPass, BeginFree, list
<1>7. CASE FreeFirstNode \/ FreeLastNode \/ FreeMiddleNode
  BY <1>1, <1>2, <1>7, CollectKept
<1>8. CASE FreeHead
  BY <1>1, <1>2, <1>8, FreeHeadKept
<1>9. CASE EndFree
  <2>1. n = 0
    <3>1. n # 0 => s[1] \in Blocks
      BY <1>1, <1>2 DEF Typed
    <3> QED
      BY <1>2, <1>9, <3>1, BlocksAssumption DEF EndFree, Holds, Ordered
  <2> QED
    BY <1>2, <1>9, <2>1 DEF EndFree, InOrder, Holds
<1>10. CASE UNCHANGED vars
  BY <1>2, <1>10 DEF vars, list, pass, InOrder, Holds
<1> QED
  BY <1>3, <1>5, <1>6, <1>7, <1>8, <1>9, <1>10 DEF Next, Ended

LEMMA SizeKept == Inv /\ [Next]_vars /\ Typed' /\ InOrder' => SizeNatural'
<1> SUFFICES ASSUME Inv, [Next]_vars, InOrder' PROVE SizeNatural'
  OBVIOUS
<1>1. CASE control' # "freeing"
  BY <1>1 DEF InOrder, Holds, SizeNatural
<1>2. CASE control' = "freeing"
  <2>1. sizeOfList' = sizeOfList
    BY <1>2 DEF Next, Create, CreateString, Store, StoreString, StoreCopy, BeginPass, KeepNode,
       InPass, FreeFirstNode, FreeLastNode, FreeMiddleNode, Collects, ReadDeleted, EndPass,
       BeginFree, FreeHead, EndFree, Ended, vars, list, pass
  <2> QED
    BY <2>1 DEF Inv, SizeNatural
<1> QED
  BY <1>1, <1>2

-----------------------------------------------------------------------------
(* The walk from the head finds the blocks in their order.  There is no    *)
(* induction in this: the order satisfies the definition of Node, so that  *)
(* Node does, and a least number at which they differ there is not.        *)

\* There are as many blocks as numbers.
LEMMA Counted ==
  ASSUME NEW n, NEW s, NEW b, b \subseteq Blocks, NEW nx, NEW h, Ordered(n, s, b, nx, h)
  PROVE  /\ Cardinality(b) = n /\ n <= Cardinality(Blocks)
         /\ Cardinality(Blocks) \in Nat /\ n \in Nat
<1>1. n \in Nat /\ s \in Bijection(1..n, b)
  BY DEF Ordered, Bijection, Injection, Surjection, IsInjective
<1>2. Cardinality(b) = n
  BY <1>1, FS_CountingElements DEF ExistsBijection
<1>3. Cardinality(b) <= Cardinality(Blocks) /\ Cardinality(Blocks) \in Nat
  BY BlocksAssumption, FS_Subset, FS_CardinalityType
<1> QED
  BY <1>1, <1>2, <1>3

LEMMA Walked ==
  ASSUME live \subseteq Blocks, NEW n, NEW s, Ordered(n, s, live, next, head)
  PROVE  /\ DOMAIN Node = 0..Cardinality(Blocks)
         /\ \A i \in 0..Cardinality(Blocks) : Node[i] = IF i < n THEN s[i + 1] ELSE Null
<1> DEFINE top == Cardinality(Blocks)
           w == [i \in 0..top |-> IF i < n THEN s[i + 1] ELSE Null]
           From(g) == [i \in 0..top |-> IF i = 0 THEN head
                                        ELSE IF g[i - 1] = Null THEN Null ELSE next[g[i - 1]]]
<1>1. top \in Nat /\ n \in Nat /\ \A i \in 1..n : s[i] # Null
  <2>1. top \in Nat /\ n \in Nat
    BY Counted
  <2>2. \A i \in 1..n : s[i] \in live
    BY DEF Ordered
  <2> QED
    BY <2>1, <2>2, BlocksAssumption
<1> HIDE DEF top
<1>2. ASSUME NEW i \in 0..top
      PROVE  w[i] = IF i = 0 THEN head ELSE IF w[i - 1] = Null THEN Null ELSE next[w[i - 1]]
  <2>1. CASE i = 0
    BY <1>1, <2>1 DEF Ordered
  <2>2. CASE i # 0
    <3>1. i - 1 \in 0..top /\ w[i - 1] = IF i - 1 < n THEN s[i] ELSE Null
      BY <1>1, <2>2
    <3>2. i \in 1..n => next[s[i]] = IF i = n THEN Null ELSE s[i + 1]
      BY DEF Ordered
    <3>3. w[i] = IF i < n THEN s[i + 1] ELSE Null
      OBVIOUS
    <3>4. (i - 1 < n <=> i \in 1..n) /\ (i < n <=> i \in 1..n /\ i # n)
      BY <1>1, <2>2
    <3> HIDE DEF w
    <3> QED
      BY <1>1, <2>2, <3>1, <3>2, <3>3, <3>4
  <2> QED
    BY <2>1, <2>2
<1>3. w = From(w)
  BY <1>2
<1> HIDE DEF w
<1>4. Node = From(Node)
  BY <1>3 DEF Node, top
<1>5. \A i \in 0..top : Node[i] = w[i]
  <2> SUFFICES ASSUME NEW d \in 0..top, Node[d] # w[d] PROVE FALSE
    OBVIOUS
  <2> DEFINE S == {i \in 0..top : Node[i] # w[i]}
  <2>1. PICK i \in S : \A j \in S : i <= j
    <3>1. S \in SUBSET Nat /\ S # {}
      BY <1>1
    <3> HIDE DEF S
    <3> QED
      BY <3>1, LeastNumber
  <2>2. /\ i \in 0..top /\ Node[i] # w[i]
        /\ Node[i] = IF i = 0 THEN head
                     ELSE IF Node[i - 1] = Null THEN Null ELSE next[Node[i - 1]]
    BY <1>4
  <2>3. i # 0
    BY <1>2, <2>2
  <2>4. i - 1 \in 0..top /\ ~(i <= i - 1)
    BY <1>1, <2>2, <2>3
  <2>5. Node[i - 1] = w[i - 1]
    BY <2>1, <2>4
  <2> QED
    BY <1>2, <2>2, <2>3, <2>5
<1> QED
  BY <1>4, <1>5 DEF top, w

LEMMA InvLinked == Inv => Linked
<1> SUFFICES ASSUME Inv PROVE Linked
  OBVIOUS
<1>1. PICK n \in Nat : \E s \in [1..n -> live] : Holds(n, s)
  BY DEF Inv, InOrder
<1>2. PICK s \in [1..n -> live] : Holds(n, s)
  BY <1>1
<1>3. live \subseteq Blocks /\ Ordered(n, s, live, next, head)
  BY <1>2 DEF Inv, Typed, Holds
<1>4. /\ Cardinality(live) = n /\ n <= Cardinality(Blocks) /\ Cardinality(Blocks) \in Nat
      /\ DOMAIN Node = 0..Cardinality(Blocks)
      /\ \A i \in 0..Cardinality(Blocks) : Node[i] = IF i < n THEN s[i + 1] ELSE Null
  BY <1>3, Counted, Walked
<1>5. \A i \in 1..n : s[i] \in live /\ s[i] # Null
  BY <1>3, BlocksAssumption
<1>6. Listed = live
  <2>1. ASSUME NEW x \in live PROVE x \in Listed
    <3>1. PICK i \in 1..n : s[i] = x
      BY <1>3 DEF Ordered
    <3>2. i - 1 \in 0..Cardinality(Blocks) /\ i - 1 < n /\ i - 1 + 1 = i
      BY <1>4
    <3> QED
      BY <1>4, <1>5, <3>1, <3>2 DEF Listed
  <2>2. ASSUME NEW x \in Listed PROVE x \in live
    <3>1. PICK i \in 0..Cardinality(Blocks) : Node[i] = x /\ x # Null
      BY <1>4 DEF Listed
    <3>2. i < n /\ x = s[i + 1] /\ i + 1 \in 1..n
      BY <1>4, <3>1
    <3> QED
      BY <1>5, <3>2
  <2> QED
    BY <2>1, <2>2
<1>7. Node[Cardinality(Blocks)] = Null
  BY <1>4
<1>8. head # Null => n # 0
  BY <1>3 DEF Ordered
<1>9. control # "freeing" /\ head # Null => tail \in live /\ next[tail] = Null
  <2>1. n # 0 => n \in 1..n /\ next[s[n]] = Null
    BY <1>3 DEF Ordered
  <2> QED
    BY <1>2, <1>5, <1>8, <2>1 DEF Holds
<1>10. control = "freed" => live = {}
  BY <1>2, <1>3 DEF Holds, Ordered
<1> QED
  BY <1>2, <1>4, <1>6, <1>7, <1>9, <1>10 DEF Linked, Holds

-----------------------------------------------------------------------------

LEMMA Invariance == Spec => []Inv
<1>1. Inv /\ [Next]_vars => Inv'
  BY TypedKept, OrderKept, SizeKept, PreviousKept, SymbolsKept DEF Inv
<1> QED
  BY <1>1, InitInv, PTL DEF Spec

\* The list keeps to its types, whatever is stored and deleted.
THEOREM ListTypeCorrect == Spec => []TypeOK
<1>1. Inv => TypeOK
  BY DEF Inv, Typed, SizeNatural, TypeOK
<1> QED
  BY <1>1, Invariance, PTL

\* Every block that is allocated is in the list and no other is; the list ends
\* in its tail and is as long as its size says: addNode(), the three ways to
\* delete a node, and freeList().
THEOREM ListLinked == Spec => []Linked
  BY Invariance, InvLinked, PTL

\* The pass knows the node behind the one that it may delete.
THEOREM PassKnowsPrevious == Spec => []PreviousBehind
<1>1. Inv => PreviousBehind
  BY DEF Inv
<1> QED
  BY <1>1, Invariance, PTL

\* No two symbols share a string, and no pass deletes that of a symbol.
THEOREM SymbolsKeepStrings == Spec => []SymbolsOwnStrings
<1>1. Inv => SymbolsOwnStrings
  BY DEF Inv
<1> QED
  BY <1>1, Invariance, PTL
=============================================================================
