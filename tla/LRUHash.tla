------------------------------ MODULE LRUHash ------------------------------
(***************************************************************************)
(* The page table of the buffer pool (struct LRUHash of pagefs.h): open    *)
(* addressing with linear probing over MAX_BUFFER_SIZE slots, and the      *)
(* backward-shift deletion of popByKey.  Slots are found again through two *)
(* paths that must agree: probing from the hash of a page (get), and the   *)
(* item pointer of the page's LRU node (remove(node) - table), which       *)
(* popByKey repairs whenever it moves an entry.                            *)
(*                                                                         *)
(* popByKey is modelled one loop iteration per step, so that what holds    *)
(* inside the loop can be stated; nothing else runs meanwhile.             *)
(***************************************************************************)
EXTENDS Integers, FiniteSets

CONSTANTS MAX_BUFFER_SIZE,  \* number of slots
          FILE_STRIDE,      \* 32: hash() shifts the file id left by 5
          FileIds, PageNums,
          Free,             \* a slot whose node is nullptr
          NoSlot            \* a page that has no LRU node

Slots == 0 .. MAX_BUFFER_SIZE - 1
Keys  == FileIds \X PageNums

ASSUME LRUHashAssumption ==
  /\ MAX_BUFFER_SIZE \in Nat \ {0}
  /\ FILE_STRIDE \in Nat
  /\ FileIds \subseteq Nat
  /\ PageNums \subseteq Nat
  /\ Free \notin Keys
  /\ NoSlot \notin Slots

VARIABLES table,   \* slot -> the page stored there, or Free
          item,    \* page -> the slot its LRU node points at, or NoSlot
          total,
          pc,      \* "idle", or "popping" inside popByKey's loop
          i, j     \* popByKey's locals: the hole, the slot last examined

vars == <<table, item, total, pc, i, j>>

\* hash(): the mask with MAX_BUFFER_SIZE_M1 is the remainder, the size being 2^n.
HashOf(k) == (k[1] * FILE_STRIDE + k[2]) % MAX_BUFFER_SIZE

\* (s + 1) & MAX_BUFFER_SIZE_M1
Following(s) == IF s = MAX_BUFFER_SIZE - 1 THEN 0 ELSE s + 1

\* x is one of the slots h, h+1, ..., s-1 of the probe that starts at h and is at s.
Before(h, s, x) == IF h <= s THEN h <= x /\ x < s ELSE x >= h \/ x < s

\* Mutant of Between: the slot b itself is left out.
BetweenOpen(a, b, x) == IF a <= b THEN a < x /\ x < b ELSE a < x \/ x < b

\* x is one of a+1, ..., b going round the table: the test of popByKey's loop.
Between(a, b, x) == IF a <= b THEN a < x /\ x <= b ELSE a < x \/ x <= b

\* Mutant of Found: get() looks at the slot of the hash only.
FoundAtHash(k, s) == s = HashOf(k) /\ table[s] = k

\* get(): the first slot of the probe that holds k, all slots before it being in use.
Found(k, s) ==
  /\ table[s] = k
  /\ \A x \in Slots : Before(HashOf(k), s, x) => table[x] \notin {Free, k}

Hit(k) == \E s \in Slots : Found(k, s)

Get(k) == CHOOSE s \in Slots : Found(k, s)

-----------------------------------------------------------------------------
Init ==
  /\ table = [s \in Slots |-> Free]
  /\ item = [k \in Keys |-> NoSlot]
  /\ total = 0
  /\ pc = "idle"
  /\ i = 0
  /\ j = 0

\* add() and the push_back of loadPage that gives the slot its node, on a miss.
Add(k) ==
  /\ pc = "idle"
  /\ ~Hit(k)
  /\ total < MAX_BUFFER_SIZE
  /\ \E s \in Slots :
       /\ table[s] = Free
       /\ \A x \in Slots : Before(HashOf(k), s, x) => table[x] # Free
       /\ table' = [table EXCEPT ![s] = k]
       /\ item' = [item EXCEPT ![k] = s]
  /\ total' = total + 1
  /\ UNCHANGED <<pc, i, j>>

\* remove(node) deletes the LRU node of k, then popByKey(node->item - table) begins.
BeginPop(k) ==
  /\ pc = "idle"
  /\ item[k] # NoSlot
  /\ total' = total - 1
  /\ table' = [table EXCEPT ![item[k]] = Free]
  /\ item' = [item EXCEPT ![k] = NoSlot]
  /\ i' = item[k]
  /\ j' = item[k]
  /\ pc' = "popping"

\* One iteration of popByKey's loop: the slot after j is free, and the loop ends ...
ShiftStop ==
  /\ pc = "popping"
  /\ table[Following(j)] = Free
  /\ pc' = "idle"
  /\ i' = 0
  /\ j' = 0
  /\ UNCHANGED <<table, item, total>>

\* Mutants of ShiftSkip: the loop ends instead of going on; j is not advanced.
ShiftSkipBreaks ==
  /\ pc = "popping"
  /\ table[Following(j)] # Free
  /\ Between(i, Following(j), HashOf(table[Following(j)]))
  /\ pc' = "idle" /\ i' = 0 /\ j' = 0
  /\ UNCHANGED <<table, item, total>>

ShiftSkipStays ==
  /\ pc = "popping"
  /\ table[Following(j)] # Free
  /\ Between(i, Following(j), HashOf(table[Following(j)]))
  /\ UNCHANGED vars

\* ... or its page hashes behind the hole and stays where it is ...
ShiftSkip ==
  LET n == Following(j) IN
  /\ pc = "popping"
  /\ table[n] # Free
  /\ Between(i, n, HashOf(table[n]))
  /\ j' = n
  /\ UNCHANGED <<table, item, total, pc, i>>

\* Mutant of ShiftMove: the node of the page that moved is not told.
ShiftMoveUntold ==
  LET n == Following(j) IN
  /\ pc = "popping"
  /\ table[n] # Free
  /\ ~Between(i, n, HashOf(table[n]))
  /\ table' = [table EXCEPT ![i] = table[n], ![n] = Free]
  /\ i' = n
  /\ j' = n
  /\ UNCHANGED <<item, total, pc>>

\* ... or it moves into the hole, its node is told, and its slot is the new hole.
ShiftMove ==
  LET n == Following(j) IN
  /\ pc = "popping"
  /\ table[n] # Free
  /\ ~Between(i, n, HashOf(table[n]))
  /\ table' = [table EXCEPT ![i] = table[n], ![n] = Free]
  /\ item' = [item EXCEPT ![table[n]] = i]
  /\ i' = n
  /\ j' = n
  /\ UNCHANGED <<total, pc>>

Shift == ShiftStop \/ ShiftSkip \/ ShiftMove

Next == Shift \/ \E k \in Keys : Add(k) \/ BeginPop(k)

\* popByKey is a loop of sequential code: once begun it keeps going.
Spec == Init /\ [][Next]_vars /\ WF_vars(Shift)

-----------------------------------------------------------------------------
Occupied == {s \in Slots : table[s] # Free}

\* Type correctness; total counts the slots in use (commitOnePage is called on
\* total = MAX_BUFFER_SIZE, pagefs.cpp:113), also between the steps of popByKey.
TypeOK ==
  /\ table \in [Slots -> Keys \cup {Free}]
  /\ item \in [Keys -> Slots \cup {NoSlot}]
  /\ total = Cardinality(Occupied)
  /\ pc \in {"idle", "popping"}
  /\ i \in Slots /\ j \in Slots

\* The item pointer of every LRU node leads to the slot that holds its page, and
\* every slot in use is some node's: the repair table[i].node->item of popByKey
\* leaves no node behind, at any step of the loop.
ItemsMatchTable ==
  /\ \A k \in Keys : item[k] # NoSlot => table[item[k]] = k
  /\ \A s \in Slots : table[s] # Free => item[table[s]] = s

\* The loop invariant of popByKey.  The hole is free, all slots from it up to j are
\* in use, and a page that a probe would miss (there is a free slot between its
\* hash and its slot) is cut off by the hole alone and still lies ahead of j.
\* Outside the loop no page is cut off.
NoPageCutOff ==
  /\ pc = "popping" =>
       /\ table[i] = Free
       /\ \A x \in Slots : Between(i, j, x) => table[x] # Free
  /\ \A s, x \in Slots :
       table[s] # Free /\ table[x] = Free /\ Before(HashOf(table[s]), s, x) =>
         pc = "popping" /\ x = i /\ ~Between(i, j, s)

\* get() finds a page exactly when the page has an LRU node, and then finds the very
\* slot that node points at: probing never loses a page behind a deleted one, which
\* would load the page twice and lose the updates of one copy.
LookupExact ==
  pc = "idle" =>
    \A k \in Keys : /\ Hit(k) <=> item[k] # NoSlot
                    /\ Hit(k) => Get(k) = item[k]

\* The table is the set of pages get() finds; inside popByKey, those that have a node.
Resident == {k \in Keys : IF pc = "idle" THEN Hit(k) ELSE item[k] # NoSlot}

Abstract == INSTANCE PageTable
              WITH Capacity <- MAX_BUFFER_SIZE, resident <- Resident

\* Seen through get(), the table is PageTable: add inserts one page, a whole popByKey
\* drops one page and no other, whatever it has to move.
ImplementsPageTable == Abstract!Spec
=============================================================================
