--------------------------- MODULE PagePoolProofs ---------------------------
(***************************************************************************)
(* The page table, the LRU list and the calls of PageFS that drive them,   *)
(* for every table size, stride and set of pages.                          *)
(*                                                                         *)
(* The table.  The inductive invariant is HashInv: the types, the          *)
(* agreement of the two access paths and the loop invariant of popByKey.   *)
(* Every step of the argument is about one probe at a time, so that after  *)
(* the hash function is known to return a slot (HashOfType) only           *)
(* comparisons of slots are left for the SMT solver.                       *)
(*                                                                         *)
(* The list.  The pointers spell some sequence of the live nodes (Spells), *)
(* and each operation of the list turns that sequence into another.        *)
(*                                                                         *)
(* The calls.  commitOnePage and commitAll pass nodes of the list to       *)
(* remove(), and popByKey then trusts the item pointer of the node.  So    *)
(* the argument needs that the nodes of the list are those of the resident *)
(* pages (NodesAreResident): with it every step of PagePool is a step of   *)
(* LRUHash or leaves the table alone, and HashInv carries over.            *)
(***************************************************************************)
EXTENDS PagePool, ListsProofs

-----------------------------------------------------------------------------
(* The page table.                                                          *)

Types ==
  /\ table \in [Slots -> Keys \cup {Free}]
  /\ item \in [Keys -> Slots \cup {NoSlot}]
  /\ pc \in {"idle", "popping"}
  /\ i \in Slots /\ j \in Slots

HashInv == Types /\ ItemsMatchTable /\ NoPageCutOff

\* hash() returns a slot (the mask of pagefs.h:79).
LEMMA HashOfType == \A k \in Keys : HashOf(k) \in Slots
<1> SUFFICES ASSUME NEW k \in Keys PROVE HashOf(k) \in Slots
  OBVIOUS
<1>1. k[1] \in Nat /\ k[2] \in Nat
  BY LRUHashAssumption DEF Keys
<1> DEFINE h == k[1] * FILE_STRIDE + k[2]
<1>2. h \in Nat
  BY <1>1, LRUHashAssumption
<1> HIDE DEF h
<1>3. h % MAX_BUFFER_SIZE \in 0 .. MAX_BUFFER_SIZE - 1
  BY <1>2, LRUHashAssumption
<1> QED
  BY <1>3 DEF HashOf, Slots, h

\* The next slot of a probe is a slot.
LEMMA FollowingType == \A s \in Slots : Following(s) \in Slots
BY LRUHashAssumption DEF Following, Slots

LEMMA InitHashInv == Init => HashInv
BY LRUHashAssumption DEF Init, HashInv, Types, ItemsMatchTable, NoPageCutOff, Slots

LEMMA AddHashInv == ASSUME HashInv, NEW k \in Keys, Add(k) PROVE HashInv'
<1> USE DEF HashInv
<1>a. pc = "idle"
  BY DEF Add
<1>h. HashOf(k) \in Slots
  BY HashOfType
<1>1. PICK s \in Slots :
        /\ table[s] = Free
        /\ \A x \in Slots : Before(HashOf(k), s, x) => table[x] # Free
        /\ table' = [table EXCEPT ![s] = k]
        /\ item' = [item EXCEPT ![k] = s]
  BY DEF Add
<1>2. Types'
  BY <1>1 DEF Add, Types
<1>3. table' = [x \in Slots |-> IF x = s THEN k ELSE table[x]]
  BY <1>1 DEF Types
<1>4. item' = [x \in Keys |-> IF x = k THEN s ELSE item[x]]
  BY <1>1 DEF Types
<1>5. k # Free /\ s # NoSlot
  BY LRUHashAssumption
<1>6. \A x \in Slots : table[x] # k
  \* otherwise the probe for k would have stopped at x
  <2> SUFFICES ASSUME NEW x \in Slots, table[x] = k PROVE Hit(k)
    BY DEF Add
  <2>1. \A y \in Slots : Before(HashOf(k), x, y) => table[y] # Free
    BY <1>a, <1>5 DEF NoPageCutOff
  <2>2. \A y \in Slots : table[y] = k => y = x
    BY <1>5 DEF ItemsMatchTable
  <2>3. ~Before(HashOf(k), x, x)
    BY <1>h DEF Before, Slots
  <2> QED
    BY <2>1, <2>2, <2>3 DEF Hit, Found
<1>7. ItemsMatchTable'
  <2>1. ASSUME NEW q \in Keys, item'[q] # NoSlot PROVE table'[item'[q]] = q
    <3>1. CASE q = k
      BY <3>1, <1>3, <1>4
    <3>2. CASE q # k
      BY <3>2, <2>1, <1>1, <1>3, <1>4, LRUHashAssumption DEF ItemsMatchTable, Types
    <3> QED
      BY <3>1, <3>2
  <2>2. ASSUME NEW x \in Slots, table'[x] # Free PROVE item'[table'[x]] = x
    <3>1. CASE x = s
      BY <3>1, <1>3, <1>4
    <3>2. CASE x # s
      BY <3>2, <2>2, <1>3, <1>4, <1>6 DEF ItemsMatchTable, Types
    <3> QED
      BY <3>1, <3>2
  <2> QED
    BY <2>1, <2>2 DEF ItemsMatchTable
<1>8. NoPageCutOff'
  <2>1. pc' = "idle"
    BY <1>a DEF Add
  <2>2. ASSUME NEW y \in Slots, NEW x \in Slots, table'[y] # Free, table'[x] = Free,
               Before(HashOf(table'[y]), y, x)
        PROVE  FALSE
    <3>1. table[x] = Free
      BY <2>2, <1>3, <1>5
    <3>2. CASE y = s
      BY <3>1, <3>2, <2>2, <1>1, <1>3
    <3>3. CASE y # s
      BY <3>1, <3>3, <2>2, <1>3, <1>a DEF NoPageCutOff
    <3> QED
      BY <3>2, <3>3
  <2> QED
    BY <2>1, <2>2 DEF NoPageCutOff
<1> QED
  BY <1>2, <1>7, <1>8

LEMMA BeginPopHashInv == ASSUME HashInv, NEW k \in Keys, BeginPop(k) PROVE HashInv'
<1> USE DEF HashInv
<1> DEFINE s == item[k]
<1>1. s \in Slots /\ table[s] = k /\ pc = "idle"
  BY DEF BeginPop, Types, ItemsMatchTable
<1> HIDE DEF s
<1>2. /\ table' = [x \in Slots |-> IF x = s THEN Free ELSE table[x]]
      /\ item' = [x \in Keys |-> IF x = k THEN NoSlot ELSE item[x]]
      /\ i' = s /\ j' = s /\ pc' = "popping"
  BY DEF BeginPop, Types, s
<1>3. Types'
  BY <1>1, <1>2 DEF Types
<1>4. \A x \in Slots : table[x] = k => x = s
  BY <1>1, LRUHashAssumption DEF ItemsMatchTable, s
<1>5. ItemsMatchTable'
  <2>1. ASSUME NEW q \in Keys, item'[q] # NoSlot PROVE table'[item'[q]] = q
    <3>1. q # k /\ item'[q] = item[q] /\ item[q] \in Slots /\ table[item[q]] = q
      BY <2>1, <1>2 DEF ItemsMatchTable, Types
    <3>2. item[q] # s
      BY <3>1, <1>1
    <3> QED
      BY <3>1, <3>2, <1>2
  <2>2. ASSUME NEW x \in Slots, table'[x] # Free PROVE item'[table'[x]] = x
    <3>1. x # s /\ table'[x] = table[x] /\ table[x] # k /\ table[x] \in Keys
      BY <2>2, <1>2, <1>4 DEF Types
    <3> QED
      BY <3>1, <2>2, <1>2 DEF ItemsMatchTable
  <2> QED
    BY <2>1, <2>2 DEF ItemsMatchTable
<1>6. NoPageCutOff'
  <2>1. \A x \in Slots : ~Between(s, s, x)
    BY <1>1 DEF Between, Slots
  <2>2. table'[s] = Free
    BY <1>1, <1>2
  <2>3. ASSUME NEW y \in Slots, NEW x \in Slots, table'[y] # Free, table'[x] = Free,
               Before(HashOf(table'[y]), y, x)
        PROVE  x = s
    BY <2>3, <1>1, <1>2 DEF NoPageCutOff
  <2> QED
    BY <2>1, <2>2, <2>3, <1>2 DEF NoPageCutOff
<1> QED
  BY <1>3, <1>5, <1>6

LEMMA ShiftStopHashInv == ASSUME HashInv, ShiftStop PROVE HashInv'
<1> USE DEF HashInv
<1>1. /\ pc = "popping" /\ table[Following(j)] = Free /\ pc' = "idle"
      /\ i' = 0 /\ j' = 0 /\ table' = table /\ item' = item
  BY DEF ShiftStop
<1>2. Types'
  BY <1>1, LRUHashAssumption DEF Types, Slots
<1>3. ItemsMatchTable'
  BY <1>1 DEF ItemsMatchTable
<1>4. ASSUME NEW s \in Slots, NEW x \in Slots, table[s] # Free, table[x] = Free,
             Before(HashOf(table[s]), s, x)
      PROVE  FALSE
  <2> DEFINE h == HashOf(table[s])
             n == Following(j)
  <2>1. h \in Slots /\ n \in Slots
    BY <1>4, HashOfType, FollowingType DEF Types
  <2>2. x = i /\ ~Between(i, j, s)
    BY <1>1, <1>4 DEF NoPageCutOff
  <2>3. Before(h, s, n) => n = i
    BY <1>1, <1>4, <2>1 DEF NoPageCutOff
  <2>4. s # n /\ s # i /\ Before(h, s, i)
    BY <1>1, <1>4, <2>2
  <2>5. i \in Slots /\ j \in Slots /\ n = (IF j = MAX_BUFFER_SIZE - 1 THEN 0 ELSE j + 1)
    BY DEF Types, Following
  <2> HIDE DEF h, n
  <2>6. ~Between(i, j, n) \/ n = i
    BY <1>1, <2>1 DEF NoPageCutOff, n
  <2> QED
    BY <2>1, <2>2, <2>3, <2>4, <2>5, <2>6, LRUHashAssumption DEF Before, Between, Slots
<1>5. NoPageCutOff'
  BY <1>1, <1>4 DEF NoPageCutOff
<1> QED
  BY <1>2, <1>3, <1>5

LEMMA ShiftSkipHashInv == ASSUME HashInv, ShiftSkip PROVE HashInv'
<1> USE DEF HashInv
<1> DEFINE n == Following(j)
<1>1. /\ pc = "popping" /\ table[n] # Free /\ Between(i, n, HashOf(table[n]))
      /\ j' = n /\ i' = i /\ pc' = pc /\ table' = table /\ item' = item
  BY DEF ShiftSkip
<1>2. i \in Slots /\ j \in Slots /\ n \in Slots
  BY FollowingType DEF Types
<1>3. Types' /\ ItemsMatchTable'
  BY <1>1, <1>2 DEF Types, ItemsMatchTable
<1>4. n # i /\ table[i] = Free
  BY <1>1 DEF NoPageCutOff
<1>5. n = (IF j = MAX_BUFFER_SIZE - 1 THEN 0 ELSE j + 1)
  BY DEF Following
<1> HIDE DEF n
<1>6. \A x \in Slots : Between(i, n, x) => x = n \/ Between(i, j, x)
  BY <1>2, <1>4, <1>5 DEF Between, Slots
<1>7. \A x \in Slots : Between(i, n, x) => table[x] # Free
  BY <1>1, <1>6 DEF NoPageCutOff
<1>8. ASSUME NEW s \in Slots, NEW x \in Slots, table[s] # Free, table[x] = Free,
             Before(HashOf(table[s]), s, x)
      PROVE  x = i /\ ~Between(i, n, s)
  <2>1. x = i /\ ~Between(i, j, s)
    BY <1>1, <1>8 DEF NoPageCutOff
  <2>2. s # n
    <3> SUFFICES ASSUME s = n PROVE FALSE
      OBVIOUS
    <3> DEFINE h == HashOf(table[n])
    <3>1. h \in Slots
      BY <1>1, <1>2, HashOfType DEF Types
    <3>2. Before(h, n, i) /\ Between(i, n, h)
      BY <1>1, <1>8, <2>1
    <3> HIDE DEF h
    <3> QED
      BY <3>1, <3>2, <1>2, <1>4 DEF Before, Between, Slots
  <2> QED
    BY <2>1, <2>2, <1>6
<1>9. NoPageCutOff'
  BY <1>1, <1>4, <1>7, <1>8 DEF NoPageCutOff
<1> QED
  BY <1>3, <1>9

LEMMA ShiftMoveHashInv == ASSUME HashInv, ShiftMove PROVE HashInv'
<1> USE DEF HashInv
<1> DEFINE n == Following(j)
           p == table[n]
           h == HashOf(p)
<1>1. /\ pc = "popping" /\ p # Free /\ ~Between(i, n, h)
      /\ j' = n /\ i' = n /\ pc' = pc
      /\ table' = [table EXCEPT ![i] = p, ![n] = Free]
      /\ item' = [item EXCEPT ![p] = i]
  BY DEF ShiftMove
<1>2. i \in Slots /\ j \in Slots /\ n \in Slots
  BY FollowingType DEF Types
<1>3. p \in Keys /\ h \in Slots /\ item[p] = n
  BY <1>1, <1>2, HashOfType DEF Types, ItemsMatchTable
<1>4. n # i /\ table[i] = Free
  BY <1>1 DEF NoPageCutOff
<1> HIDE DEF n
<1>5. /\ table' = [x \in Slots |-> IF x = n THEN Free ELSE IF x = i THEN p ELSE table[x]]
      /\ item' = [q \in Keys |-> IF q = p THEN i ELSE item[q]]
  BY <1>1, <1>2, <1>4 DEF Types
<1>6. Types'
  BY <1>1, <1>2, <1>3, <1>5 DEF Types
<1>7. \A x \in Slots : table[x] = p => x = n
  BY <1>1, <1>3 DEF ItemsMatchTable
<1>8. ItemsMatchTable'
  <2>1. ASSUME NEW q \in Keys, item'[q] # NoSlot PROVE table'[item'[q]] = q
    <3>1. CASE q = p
      BY <3>1, <1>2, <1>4, <1>5
    <3>2. CASE q # p
      <4>1. item'[q] = item[q] /\ item[q] \in Slots /\ table[item[q]] = q
        BY <3>2, <2>1, <1>5 DEF ItemsMatchTable, Types
      <4>2. item[q] # n /\ item[q] # i
        BY <4>1, <3>2, <1>4, LRUHashAssumption
      <4> QED
        BY <4>1, <4>2, <1>5
    <3> QED
      BY <3>1, <3>2
  <2>2. ASSUME NEW x \in Slots, table'[x] # Free PROVE item'[table'[x]] = x
    <3>1. CASE x = i
      BY <3>1, <1>2, <1>3, <1>4, <1>5
    <3>2. CASE x # i
      <4>1. x # n /\ table'[x] = table[x]
        BY <3>2, <2>2, <1>5
      <4>2. table[x] # p /\ table[x] \in Keys
        BY <4>1, <2>2, <1>7 DEF Types
      <4> QED
        BY <4>1, <4>2, <2>2, <1>5 DEF ItemsMatchTable
    <3> QED
      BY <3>1, <3>2
  <2> QED
    BY <2>1, <2>2 DEF ItemsMatchTable
<1>9. NoPageCutOff'
  <2>1. \A x \in Slots : ~Between(n, n, x)
    BY <1>2 DEF Between, Slots
  <2>2. table'[n] = Free
    BY <1>2, <1>5
  <2>3. ASSUME NEW s \in Slots, NEW x \in Slots, table'[s] # Free, table'[x] = Free,
               Before(HashOf(table'[s]), s, x), x # n
        PROVE  FALSE
    <3>1. table[x] = Free /\ x # i /\ s # n
      BY <2>3, <1>1, <1>2, <1>5
    <3>2. CASE s = i
      \* p, now at i, was probed from h to n: x lies on that way too
      <4>1. Before(h, i, x)
        BY <2>3, <3>1, <3>2, <1>5
      <4> HIDE DEF h
      <4>2. Before(h, n, x)
        BY <4>1, <1>1, <1>2, <1>3, <1>4 DEF Before, Between, Slots
      <4>3. x = i
        BY <4>2, <3>1, <1>1, <1>2 DEF NoPageCutOff, h
      <4> QED
        BY <4>3, <3>1
    <3>3. CASE s # i
      BY <3>1, <3>3, <2>3, <1>5 DEF NoPageCutOff
    <3> QED
      BY <3>2, <3>3
  <2> QED
    BY <2>1, <2>2, <2>3, <1>1 DEF NoPageCutOff
<1> QED
  BY <1>6, <1>8, <1>9

\* The invariant is inductive: one case per action of Next.
LEMMA NextHashInv == HashInv /\ [Next]_vars => HashInv'
<1> SUFFICES ASSUME HashInv, [Next]_vars PROVE HashInv'
  OBVIOUS
<1>1. CASE Shift
  BY <1>1, ShiftStopHashInv, ShiftSkipHashInv, ShiftMoveHashInv DEF Shift
<1>2. CASE \E k \in Keys : Add(k) \/ BeginPop(k)
  BY <1>2, AddHashInv, BeginPopHashInv
<1>3. CASE UNCHANGED vars
  BY <1>3 DEF vars, HashInv, Types, ItemsMatchTable, NoPageCutOff
<1> QED
  BY <1>1, <1>2, <1>3 DEF Next

LEMMA HashInvariant == Spec => []HashInv
BY InitHashInv, NextHashInv, PTL DEF Spec

\* popByKey cuts no page off from its hash, at any step of its loop and for a table of
\* any size: every page that a probe would miss is still ahead of the loop.
THEOREM NoPageCutOffAlways == Spec => []NoPageCutOff
BY HashInvariant, PTL DEF HashInv

\* The back pointers of the LRU nodes follow their pages through every shift.
THEOREM ItemsMatchTableAlways == Spec => []ItemsMatchTable
BY HashInvariant, PTL DEF HashInv

LEMMA InvLookupExact == ASSUME HashInv PROVE LookupExact
<1> SUFFICES ASSUME pc = "idle", NEW k \in Keys
             PROVE  /\ Hit(k) <=> item[k] # NoSlot
                    /\ Hit(k) => Get(k) = item[k]
  BY DEF LookupExact
<1>1. ASSUME NEW s \in Slots, table[s] = k PROVE item[k] = s /\ s # NoSlot
  BY <1>1, LRUHashAssumption DEF HashInv, ItemsMatchTable
<1>2. ASSUME item[k] # NoSlot PROVE item[k] \in Slots /\ Found(k, item[k])
  <2> DEFINE s == item[k]
  <2>1. s \in Slots /\ table[s] = k /\ k # Free
    BY <1>2, LRUHashAssumption DEF HashInv, Types, ItemsMatchTable
  <2>2. \A x \in Slots : Before(HashOf(k), s, x) => table[x] # Free
    BY <2>1 DEF HashInv, NoPageCutOff
  <2>3. ~Before(HashOf(k), s, s)
    BY <2>1, HashOfType DEF Before, Slots
  <2> QED
    BY <2>1, <2>2, <2>3, <1>1 DEF Found
<1>3. Hit(k) => Get(k) \in Slots /\ Found(k, Get(k))
  BY DEF Hit, Get
<1> QED
  BY <1>1, <1>2, <1>3 DEF Hit, Found

\* What get() answers: a page is found exactly when it has an LRU node, in the slot
\* the node points at.
THEOREM LookupExactAlways == Spec => []LookupExact
BY InvLookupExact, HashInvariant, PTL

-----------------------------------------------------------------------------
(***************************************************************************)
(* total counts the slots in use, which needs the slots to be finite.      *)
(***************************************************************************)
LEMMA OccupiedFinite == IsFiniteSet(Occupied) /\ Cardinality(Occupied) \in Nat
<1>1. IsFiniteSet(Slots)
  BY LRUHashAssumption, FS_Interval DEF Slots
<1>2. Occupied \in SUBSET Slots
  BY DEF Occupied
<1> QED
  BY <1>1, <1>2, FS_Subset, FS_CardinalityType

LEMMA NextTypeOK == HashInv /\ TypeOK /\ [Next]_vars => TypeOK'
<1> SUFFICES ASSUME HashInv, TypeOK, [Next]_vars PROVE TypeOK'
  OBVIOUS
<1> USE DEF TypeOK
<1>1. Types'
  BY NextHashInv DEF HashInv
<1>2. ASSUME NEW k \in Keys, Add(k) PROVE total' = Cardinality(Occupied')
  <2>1. PICK s \in Slots : table[s] = Free /\ table' = [table EXCEPT ![s] = k]
    BY <1>2 DEF Add
  <2>2. k # Free
    BY LRUHashAssumption
  <2>3. Occupied' = Occupied \cup {s} /\ s \notin Occupied
    BY <2>1, <2>2 DEF Occupied
  <2> QED
    BY <2>3, <1>2, OccupiedFinite, FS_AddElement DEF Add
<1>3. ASSUME NEW k \in Keys, BeginPop(k) PROVE total' = Cardinality(Occupied')
  <2> DEFINE s == item[k]
  <2>1. s \in Slots /\ table[s] = k /\ k # Free
    BY <1>3, LRUHashAssumption DEF BeginPop, HashInv, ItemsMatchTable
  <2>2. table' = [table EXCEPT ![s] = Free]
    BY <1>3 DEF BeginPop
  <2>3. Occupied' = Occupied \ {s} /\ s \in Occupied
    BY <2>1, <2>2 DEF Occupied
  <2> QED
    BY <2>3, <1>3, OccupiedFinite, FS_RemoveElement DEF BeginPop
<1>4. ASSUME ShiftMove PROVE total' = Cardinality(Occupied')
  <2> DEFINE n == Following(j)
  <2>1. /\ table[i] = Free /\ table[n] # Free /\ n \in Slots /\ i \in Slots
        /\ table' = [table EXCEPT ![i] = table[n], ![n] = Free] /\ total' = total
    BY <1>4, FollowingType DEF ShiftMove, HashInv, NoPageCutOff, Types
  <2> HIDE DEF n
  <2>2. Occupied' = (Occupied \ {n}) \cup {i} /\ n \in Occupied /\ i \notin Occupied
    BY <2>1 DEF Occupied
  <2>3. Cardinality(Occupied \ {n}) = Cardinality(Occupied) - 1 /\ IsFiniteSet(Occupied \ {n})
    BY <2>2, OccupiedFinite, FS_RemoveElement
  <2>4. Cardinality((Occupied \ {n}) \cup {i}) = Cardinality(Occupied \ {n}) + 1
    BY <2>2, <2>3, FS_AddElement
  <2> QED
    BY <2>1, <2>2, <2>3, <2>4, OccupiedFinite
<1>5. ASSUME ShiftStop \/ ShiftSkip \/ UNCHANGED vars PROVE total' = Cardinality(Occupied')
  BY <1>5 DEF ShiftStop, ShiftSkip, vars, Occupied
<1>6. total' = Cardinality(Occupied')
  BY <1>2, <1>3, <1>4, <1>5 DEF Next, Shift
<1> QED
  BY <1>1, <1>6 DEF Types

\* Types, and total is the number of slots in use, at every step of popByKey as well.
THEOREM TypeCorrect == Spec => []TypeOK
<1>1. Init => TypeOK
  <2> SUFFICES ASSUME Init PROVE TypeOK
    OBVIOUS
  <2>1. Occupied = {}
    BY DEF Init, Occupied
  <2>2. Types
    BY InitHashInv DEF HashInv
  <2> QED
    BY <2>1, <2>2, FS_EmptySet DEF Init, TypeOK, Types
<1> QED
  BY <1>1, NextTypeOK, HashInvariant, PTL DEF Spec

-----------------------------------------------------------------------------
(***************************************************************************)
(* Refinement.  In every reachable state the abstract set is the set of    *)
(* pages with an LRU node (get() finds those, outside popByKey), so that   *)
(* add is Insert, the first step of popByKey is Drop, and the rest of its  *)
(* loop changes nothing.                                                   *)
(***************************************************************************)
WithNode == {k \in Keys : item[k] # NoSlot}

LEMMA ResidentIsWithNode == HashInv => Resident = WithNode
BY InvLookupExact DEF LookupExact, Resident, WithNode

\* loadPage's test of total bounds the abstract set: its pages are in different slots.
LEMMA ResidentBounded ==
  ASSUME HashInv, TypeOK
  PROVE  IsFiniteSet(WithNode) /\ Cardinality(WithNode) <= total
<1> DEFINE f == [k \in WithNode |-> item[k]]
<1>1. f \in [WithNode -> Occupied]
  BY LRUHashAssumption DEF WithNode, Occupied, HashInv, Types, ItemsMatchTable
<1>2. \A k, q \in WithNode : f[k] = f[q] => k = q
  BY DEF WithNode, HashInv, ItemsMatchTable
<1>3. f \in Injection(WithNode, Occupied)
  BY <1>1, <1>2 DEF Injection, IsInjective
<1> QED
  BY <1>3, OccupiedFinite, FS_Injection DEF TypeOK

LEMMA StepImplements ==
  ASSUME HashInv, TypeOK, [Next]_vars, HashInv'
  PROVE  [Abstract!Next]_Resident
<1> SUFFICES [Abstract!Next]_Resident
  OBVIOUS
<1>a. (Resident = WithNode)'
  BY ResidentIsWithNode, PTL
<1>1. Resident = WithNode /\ Resident' = WithNode'
  BY <1>a, ResidentIsWithNode
<1>2. ASSUME NEW k \in Keys, Add(k) PROVE Abstract!Insert(k)
  <2>1. k \notin WithNode
    BY <1>1, <1>2 DEF Add, Resident
  <2>2. PICK s \in Slots : item' = [item EXCEPT ![k] = s]
    BY <1>2 DEF Add
  <2>3. WithNode' = WithNode \cup {k}
    BY <2>2, LRUHashAssumption DEF WithNode, HashInv, Types
  <2>4. Cardinality(WithNode) < MAX_BUFFER_SIZE
    <3>1. total \in Nat /\ total < MAX_BUFFER_SIZE
      BY <1>2, OccupiedFinite DEF Add, TypeOK
    <3> QED
      BY <3>1, ResidentBounded, FS_CardinalityType, LRUHashAssumption
  <2> QED
    BY <1>1, <2>1, <2>3, <2>4 DEF Abstract!Insert, Abstract!Cardinality, Cardinality
<1>3. ASSUME NEW k \in Keys, BeginPop(k) PROVE Abstract!Drop(k)
  BY <1>1, <1>3 DEF Abstract!Drop, BeginPop, WithNode, HashInv, Types
<1>4. ASSUME Shift PROVE WithNode' = WithNode
  <2>1. CASE ShiftMove
    <3> DEFINE p == table[Following(j)]
    <3>1. p \in Keys /\ item[p] # NoSlot /\ i # NoSlot /\ item' = [item EXCEPT ![p] = i]
      BY <2>1, FollowingType, LRUHashAssumption
         DEF ShiftMove, HashInv, Types, ItemsMatchTable
    <3> QED
      BY <3>1 DEF WithNode, HashInv, Types
  <2>2. CASE ShiftStop \/ ShiftSkip
    BY <2>2 DEF ShiftStop, ShiftSkip, WithNode
  <2> QED
    BY <1>4, <2>1, <2>2 DEF Shift
<1>5. ASSUME UNCHANGED vars PROVE WithNode' = WithNode
  BY <1>5 DEF vars, WithNode
<1> QED
  BY <1>1, <1>2, <1>3, <1>4, <1>5 DEF Next, Abstract!Next

\* LRUHash implements PageTable, whatever the size, the hash and the collisions.
THEOREM Refinement == Spec => ImplementsPageTable
<1>1. Init => Abstract!Init
  <2> SUFFICES ASSUME Init PROVE Abstract!Init
    OBVIOUS
  <2>1. Resident = WithNode
    BY InitHashInv, ResidentIsWithNode
  <2> QED
    BY <2>1 DEF Abstract!Init, Init, WithNode
<1>2. HashInv /\ TypeOK /\ HashInv' /\ [Next]_vars => [Abstract!Next]_Resident
  BY StepImplements
<1> QED
  BY <1>1, <1>2, HashInvariant, TypeCorrect, PTL DEF Spec, Abstract!Spec, ImplementsPageTable

-----------------------------------------------------------------------------
(* The list.                                                                *)

\* The pointers spell the sequence s.
Spells(s) ==
  /\ s \in Seq(Nodes) /\ IsInjective(s) /\ ToSet(s) = live
  /\ head = IF Len(s) = 0 THEN Null ELSE s[1]
  /\ tail = IF Len(s) = 0 THEN Null ELSE s[Len(s)]
  /\ \A k \in 1 .. Len(s) :
       /\ next[s[k]] = IF k = Len(s) THEN Null ELSE s[k + 1]
       /\ prev[s[k]] = IF k = 1 THEN Null ELSE s[k - 1]

PointerTypes == /\ next \in [Nodes -> Nodes \cup {Null}]
                /\ prev \in [Nodes -> Nodes \cup {Null}]

ListInv == PointerTypes /\ \E s : Spells(s)

LEMMA ListInitInv == ListInit => ListInv
<1> SUFFICES ASSUME ListInit PROVE ListInv
  OBVIOUS
<1>1. <<>> \in Seq(Nodes) /\ Len(<<>>) = 0 /\ IsInjective(<<>>) /\ ToSet(<<>>) = {}
  BY DEF IsInjective, ToSet
<1>2. Spells(<<>>)
  <2>1. head = Null /\ tail = Null /\ live = {}
    BY DEF ListInit
  <2> QED
    BY <1>1, <2>1 DEF Spells
<1> QED
  BY <1>2 DEF ListInit, ListInv, PointerTypes

\* The positions of a spelled sequence: its nodes are nodes, each in one place.
LEMMA SpelledNodes ==
  ASSUME NEW s, Spells(s)
  PROVE  /\ Len(s) \in Nat /\ DOMAIN s = 1 .. Len(s)
         /\ \A k \in 1 .. Len(s) : s[k] \in Nodes /\ s[k] \in live /\ s[k] # Null
         /\ \A a, b \in 1 .. Len(s) : s[a] = s[b] => a = b
         /\ \A n \in live : \E k \in 1 .. Len(s) : s[k] = n
<1>1. s \in Seq(Nodes) /\ IsInjective(s) /\ ToSet(s) = live
  BY DEF Spells
<1>2. Len(s) \in Nat /\ DOMAIN s = 1 .. Len(s) /\ \A k \in 1 .. Len(s) : s[k] \in Nodes
  BY <1>1
<1>3. \A k \in 1 .. Len(s) : s[k] \in live
  BY <1>1, <1>2 DEF ToSet
<1>4. \A n \in live : \E k \in 1 .. Len(s) : s[k] = n
  BY <1>1, <1>2 DEF ToSet
<1>5. \A a, b \in 1 .. Len(s) : s[a] = s[b] => a = b
  BY <1>1, <1>2 DEF IsInjective
<1> QED
  BY <1>2, <1>3, <1>4, <1>5, LRUListAssumption

\* push_back appends the node to the sequence.
LEMMA PushBackSpells ==
  ASSUME PointerTypes, NEW s, Spells(s), NEW n \in Nodes, PushBack(n)
  PROVE  PointerTypes' /\ Spells(Append(s, n))'
<1> DEFINE len == Len(s)
           t == Append(s, n)
<1>1. /\ len \in Nat /\ n \notin live
      /\ \A k \in 1 .. len : s[k] \in Nodes /\ s[k] \in live /\ s[k] # Null
      /\ \A a, b \in 1 .. len : s[a] = s[b] => a = b
  BY SpelledNodes DEF PushBack
<1>2. t \in Seq(Nodes) /\ IsInjective(t) /\ ToSet(t) = live'
  BY AppendOnce DEF Spells, PushBack
<1>3. Len(t) = len + 1 /\ t[len + 1] = n /\ \A k \in 1 .. len : t[k] = s[k]
  BY DEF Spells
<1>4. /\ head = IF len = 0 THEN Null ELSE s[1]
      /\ tail = IF len = 0 THEN Null ELSE s[len]
      /\ \A k \in 1 .. len :
           /\ next[s[k]] = IF k = len THEN Null ELSE s[k + 1]
           /\ prev[s[k]] = IF k = 1 THEN Null ELSE s[k - 1]
  BY DEF Spells
<1>5. /\ \A m \in Nodes : prev'[m] = IF m = n THEN tail ELSE prev[m]
      /\ \A m \in Nodes : next'[m] = IF m = tail THEN n ELSE IF m = n THEN Null ELSE next[m]
      /\ tail' = n /\ head' = IF head = Null THEN n ELSE head
  BY DEF PushBack, PointerTypes
<1>6. PointerTypes'
  <2>1. tail \in Nodes \cup {Null}
    BY <1>1, <1>4
  <2> QED
    BY <2>1 DEF PushBack, PointerTypes
<1> HIDE DEF t, len
<1>7. head' = t[1] /\ tail' = t[len + 1]
  BY <1>1, <1>3, <1>4, <1>5
<1>8. ASSUME NEW k \in 1 .. len + 1
      PROVE  /\ next'[t[k]] = IF k = len + 1 THEN Null ELSE t[k + 1]
             /\ prev'[t[k]] = IF k = 1 THEN Null ELSE t[k - 1]
  <2>1. CASE k = len + 1
    <3>1. n # tail
      BY <1>1, <1>4, LRUListAssumption
    <3> QED
      BY <1>1, <1>3, <1>4, <1>5, <2>1, <3>1
  <2>2. CASE k = len /\ k # len + 1
    BY <1>1, <1>3, <1>4, <1>5, <2>2
  <2>3. CASE k # len /\ k # len + 1
    <3>1. k \in 1 .. len /\ k + 1 \in 1 .. len /\ t[k] = s[k] /\ t[k + 1] = s[k + 1]
      BY <1>1, <1>3, <2>3
    <3>2. s[k] # n /\ s[k] # tail
      BY <1>1, <1>4, <2>3, <3>1
    <3>3. next'[s[k]] = next[s[k]] /\ prev'[s[k]] = prev[s[k]]
      BY <1>1, <1>5, <3>1, <3>2
    <3>4. k # 1 => k - 1 \in 1 .. len /\ t[k - 1] = s[k - 1]
      BY <1>1, <1>3, <3>1
    <3> QED
      BY <1>4, <2>3, <3>1, <3>3, <3>4
  <2> QED
    BY <2>1, <2>2, <2>3
<1>9. Len(t) # 0 /\ Len(t) = len + 1
  BY <1>1, <1>3
<1>10. Spells(t)'
  BY <1>2, <1>7, <1>8, <1>9 DEF Spells
<1> QED
  BY <1>6, <1>10 DEF t

\* remove() takes the node out of the sequence.
LEMMA DeleteSpells ==
  ASSUME PointerTypes, NEW s, Spells(s), NEW n, Delete(n)
  PROVE  PointerTypes' /\ Spells(Without(s, {n}))'
<1> DEFINE len == Len(s)
           t == Without(s, {n})
<1>1. /\ len \in Nat /\ n \in live
      /\ \A k \in 1 .. len : s[k] \in Nodes /\ s[k] \in live /\ s[k] # Null
      /\ \A a, b \in 1 .. len : s[a] = s[b] => a = b
  BY SpelledNodes DEF Delete
<1>2. t \in Seq(Nodes) /\ IsInjective(t) /\ ToSet(t) = live'
  BY WithoutElements DEF Spells, Delete
<1>3. PICK p \in 1 .. len : s[p] = n
  BY <1>1, SpelledNodes
<1>4. /\ Len(t) = len - 1
      /\ \A m \in 1 .. len - 1 : t[m] = IF m < p THEN s[m] ELSE s[m + 1]
  BY <1>3, WithoutOne DEF Spells
<1>5. /\ head = IF len = 0 THEN Null ELSE s[1]
      /\ tail = IF len = 0 THEN Null ELSE s[len]
      /\ \A k \in 1 .. len :
           /\ next[s[k]] = IF k = len THEN Null ELSE s[k + 1]
           /\ prev[s[k]] = IF k = 1 THEN Null ELSE s[k - 1]
  BY DEF Spells
<1>6. /\ head' = IF n = head THEN next[n] ELSE head
      /\ tail' = IF n = tail THEN prev[n] ELSE tail
      /\ \A m \in Nodes : next'[m] = IF m = n THEN Null ELSE IF m = prev[n] THEN next[n] ELSE next[m]
      /\ \A m \in Nodes : prev'[m] = IF m = n THEN Null ELSE IF m = next[n] THEN prev[n] ELSE prev[m]
  BY DEF Delete
<1>7. PointerTypes'
  <2>1. n \in Nodes
    BY <1>1, <1>3
  <2> QED
    BY <2>1 DEF Delete, PointerTypes
<1> HIDE DEF t, len
<1>8. /\ next[n] = IF p = len THEN Null ELSE s[p + 1]
      /\ prev[n] = IF p = 1 THEN Null ELSE s[p - 1]
      /\ n = head <=> p = 1
      /\ n = tail <=> p = len
  BY <1>1, <1>3, <1>5
<1>9. /\ head' = IF len - 1 = 0 THEN Null ELSE t[1]
      /\ tail' = IF len - 1 = 0 THEN Null ELSE t[len - 1]
  BY <1>1, <1>3, <1>4, <1>5, <1>6, <1>8
<1>10. ASSUME NEW k \in 1 .. len - 1
       PROVE  /\ next'[t[k]] = IF k = len - 1 THEN Null ELSE t[k + 1]
              /\ prev'[t[k]] = IF k = 1 THEN Null ELSE t[k - 1]
  <2>1. CASE k < p
    <3>1. k \in 1 .. len /\ t[k] = s[k] /\ s[k] \in Nodes /\ s[k] # n /\ p \in 1 .. len
      BY <1>1, <1>3, <1>4, <2>1
    <3>2. s[k] = prev[n] <=> k = p - 1
      BY <1>1, <1>8, <2>1, <3>1
    <3>3. s[k] # next[n]
      BY <1>1, <1>8, <2>1, <3>1
    <3>4. next'[t[k]] = IF k = len - 1 THEN Null ELSE t[k + 1]
      <4>1. CASE k = p - 1
        <5>1. next'[t[k]] = next[n]
          BY <1>6, <3>1, <3>2, <4>1
        <5> QED
          BY <1>1, <1>4, <1>8, <3>1, <4>1, <5>1
      <4>2. CASE k # p - 1
        <5>1. next'[t[k]] = next[s[k]]
          BY <1>6, <3>1, <3>2, <4>2
        <5> QED
          BY <1>1, <1>4, <1>5, <2>1, <3>1, <4>2, <5>1
      <4> QED
        BY <4>1, <4>2
    <3>5. prev'[t[k]] = prev[s[k]]
      BY <1>6, <3>1, <3>3
    <3>6. prev'[t[k]] = IF k = 1 THEN Null ELSE t[k - 1]
      BY <1>1, <1>4, <1>5, <2>1, <3>1, <3>5
    <3> QED
      BY <3>4, <3>6
  <2>2. CASE ~(k < p)
    <3>1. k + 1 \in 1 .. len /\ t[k] = s[k + 1] /\ s[k + 1] \in Nodes /\ s[k + 1] # n
      BY <1>1, <1>3, <1>4, <2>2
    <3>2. s[k + 1] = next[n] <=> k = p
      BY <1>1, <1>8, <2>2, <3>1
    <3>3. s[k + 1] # prev[n]
      BY <1>1, <1>8, <2>2, <3>1
    <3>4. next'[t[k]] = next[s[k + 1]]
      BY <1>6, <3>1, <3>3
    <3>5. next'[t[k]] = IF k = len - 1 THEN Null ELSE t[k + 1]
      BY <1>1, <1>4, <1>5, <2>2, <3>1, <3>4
    <3>6. prev'[t[k]] = IF k = 1 THEN Null ELSE t[k - 1]
      <4>1. CASE k = p
        <5>1. prev'[t[k]] = prev[n]
          BY <1>6, <3>1, <3>2, <4>1
        <5> QED
          BY <1>1, <1>4, <1>8, <3>1, <4>1, <5>1
      <4>2. CASE k # p
        <5>1. prev'[t[k]] = prev[s[k + 1]]
          BY <1>6, <3>1, <3>2, <4>2
        <5> QED
          BY <1>1, <1>4, <1>5, <2>2, <3>1, <4>2, <5>1
      <4> QED
        BY <4>1, <4>2
    <3> QED
      BY <3>5, <3>6
  <2> QED
    BY <2>1, <2>2
<1>11. Spells(t)'
  <2>1. Len(t) \in Nat
    BY <1>2
  <2> QED
    BY <1>2, <1>4, <1>9, <1>10, <2>1 DEF Spells
<1> QED
  BY <1>7, <1>11 DEF t

\* move_back() takes the node, which is not the last, to the end of the sequence.
LEMMA MoveBackSpells ==
  ASSUME PointerTypes, NEW s, Spells(s), NEW n, MoveBack(n)
  PROVE  PointerTypes' /\ Spells(Append(Without(s, {n}), n))'
<1> DEFINE len == Len(s)
           w == Without(s, {n})
           t == Append(w, n)
<1>1. /\ len \in Nat /\ n \in live
      /\ \A k \in 1 .. len : s[k] \in Nodes /\ s[k] \in live /\ s[k] # Null
      /\ \A a, b \in 1 .. len : s[a] = s[b] => a = b
  BY SpelledNodes DEF MoveBack
<1>2. PICK p \in 1 .. len : s[p] = n
  BY <1>1, SpelledNodes
<1>3. w \in Seq(Nodes) /\ IsInjective(w) /\ ToSet(w) = live \ {n} /\ n \in Nodes
  BY <1>1, <1>2, WithoutElements DEF Spells
<1>4. /\ Len(w) = len - 1
      /\ \A m \in 1 .. len - 1 : w[m] = IF m < p THEN s[m] ELSE s[m + 1]
  BY <1>2, WithoutOne DEF Spells
<1> HIDE DEF w
<1>5. t \in Seq(Nodes) /\ IsInjective(t) /\ ToSet(t) = live'
  <2>1. n \notin ToSet(w) /\ ToSet(w) \cup {n} = live'
    BY <1>1, <1>3 DEF MoveBack
  <2> QED
    BY <1>3, <2>1, AppendOnce
<1>6. /\ Len(t) = len /\ t[len] = n
      /\ \A m \in 1 .. len - 1 : t[m] = IF m < p THEN s[m] ELSE s[m + 1]
  <2> HIDE DEF len
  <2>1. Len(t) = Len(w) + 1 /\ t[Len(w) + 1] = n /\ \A m \in 1 .. Len(w) : t[m] = w[m]
    BY <1>3
  <2>2. Len(w) + 1 = len
    BY <1>1, <1>4
  <2> HIDE DEF t
  <2> QED
    BY <1>4, <2>1, <2>2
<1>7. /\ head = IF len = 0 THEN Null ELSE s[1]
      /\ tail = IF len = 0 THEN Null ELSE s[len]
      /\ \A k \in 1 .. len :
           /\ next[s[k]] = IF k = len THEN Null ELSE s[k + 1]
           /\ prev[s[k]] = IF k = 1 THEN Null ELSE s[k - 1]
  BY DEF Spells
<1>8. /\ n # tail /\ tail' = n /\ head' = IF n = head THEN next[n] ELSE head
      /\ \A m \in Nodes : next'[m] = IF m = n THEN Null ELSE IF m = tail THEN n
                                     ELSE IF m = prev[n] THEN next[n] ELSE next[m]
      /\ \A m \in Nodes : prev'[m] = IF m = n THEN tail
                                     ELSE IF m = next[n] THEN prev[n] ELSE prev[m]
  BY DEF MoveBack
<1> HIDE DEF t, len
<1>9. PointerTypes'
  <2>1. n \in Nodes /\ tail \in Nodes \cup {Null}
    BY <1>1, <1>2, <1>7
  <2> QED
    BY <2>1 DEF MoveBack, PointerTypes
<1>10. /\ p < len /\ tail = s[len]
       /\ next[n] = s[p + 1]
       /\ prev[n] = IF p = 1 THEN Null ELSE s[p - 1]
       /\ n = head <=> p = 1
  BY <1>1, <1>2, <1>7, <1>8
<1>11. head' = t[1] /\ tail' = t[len]
  BY <1>1, <1>2, <1>6, <1>7, <1>8, <1>10
<1>12. ASSUME NEW k \in 1 .. len
       PROVE  /\ next'[t[k]] = IF k = len THEN Null ELSE t[k + 1]
              /\ prev'[t[k]] = IF k = 1 THEN Null ELSE t[k - 1]
  <2>1. CASE k = len
    <3>1. t[k] = n /\ t[len - 1] = s[len] /\ n \in Nodes /\ k # 1
      BY <1>1, <1>2, <1>6, <1>10, <2>1
    <3> QED
      BY <1>8, <1>10, <2>1, <3>1
  <2>2. CASE k < p
    <3>1. /\ k \in 1 .. len - 1 /\ t[k] = s[k] /\ s[k] \in Nodes
          /\ s[k] # n /\ s[k] # tail /\ s[k] # next[n]
      BY <1>1, <1>2, <1>6, <1>10, <2>2
    <3>2. s[k] = prev[n] <=> k = p - 1
      BY <1>1, <1>2, <1>10, <2>2
    <3>3. next'[t[k]] = IF k = len THEN Null ELSE t[k + 1]
      <4>1. CASE k = p - 1
        <5>1. next'[t[k]] = next[n]
          BY <1>8, <3>1, <3>2, <4>1
        <5>2. k + 1 = p /\ p \in 1 .. len - 1 /\ k # len
          BY <1>1, <1>10, <4>1
        <5>3. t[k + 1] = s[p + 1]
          BY <1>6, <5>2
        <5> QED
          BY <1>10, <5>1, <5>2, <5>3
      <4>2. CASE k # p - 1
        <5>1. next'[t[k]] = next[s[k]]
          BY <1>8, <3>1, <3>2, <4>2
        <5>2. k + 1 \in 1 .. len - 1 /\ k + 1 < p /\ k # len
          BY <1>1, <1>10, <2>2, <4>2
        <5>3. t[k + 1] = s[k + 1]
          BY <1>6, <5>2
        <5> QED
          BY <1>7, <5>1, <5>2, <5>3
      <4> QED
        BY <4>1, <4>2
    <3>4. prev'[t[k]] = prev[s[k]]
      BY <1>8, <3>1
    <3>5. prev'[t[k]] = IF k = 1 THEN Null ELSE t[k - 1]
      BY <1>1, <1>6, <1>7, <2>2, <3>1, <3>4
    <3> QED
      BY <3>3, <3>5
  <2>3. CASE ~(k < p) /\ k # len
    <3>1. /\ k \in 1 .. len - 1 /\ k + 1 \in 1 .. len /\ t[k] = s[k + 1] /\ s[k + 1] \in Nodes
          /\ s[k + 1] # n /\ s[k + 1] # prev[n]
      BY <1>1, <1>2, <1>6, <1>10, <2>3
    <3>2. (s[k + 1] = next[n] <=> k = p) /\ (s[k + 1] = tail <=> k + 1 = len)
      BY <1>1, <1>2, <1>10, <2>3, <3>1
    <3>3. next'[t[k]] = IF k = len THEN Null ELSE t[k + 1]
      <4>1. CASE k + 1 = len
        BY <1>6, <1>8, <2>3, <3>1, <3>2, <4>1
      <4>2. CASE k + 1 # len
        <5>1. next'[t[k]] = next[s[k + 1]]
          BY <1>8, <3>1, <3>2, <4>2
        <5>2. k + 1 \in 1 .. len - 1 /\ ~(k + 1 < p)
          BY <1>1, <2>3, <3>1, <4>2
        <5>3. t[k + 1] = s[(k + 1) + 1]
          BY <1>6, <5>2
        <5> QED
          BY <1>7, <2>3, <3>1, <4>2, <5>1, <5>3
      <4> QED
        BY <4>1, <4>2
    <3>4. prev'[t[k]] = IF k = 1 THEN Null ELSE t[k - 1]
      <4>1. CASE k = p
        <5>1. prev'[t[k]] = prev[n]
          BY <1>8, <3>1, <3>2, <4>1
        <5> QED
          BY <1>1, <1>6, <1>10, <3>1, <4>1, <5>1
      <4>2. CASE k # p
        <5>1. prev'[t[k]] = prev[s[k + 1]]
          BY <1>8, <3>1, <3>2, <4>2
        <5> QED
          BY <1>1, <1>6, <1>7, <2>3, <3>1, <4>2, <5>1
      <4> QED
        BY <4>1, <4>2
    <3> QED
      BY <3>3, <3>4
  <2> QED
    BY <1>1, <2>1, <2>2, <2>3
<1>13. Spells(t)'
  <2>1. len # 0
    BY <1>1, <1>2
  <2> QED
    BY <1>5, <1>6, <1>11, <1>12, <2>1 DEF Spells
<1> QED
  BY <1>9, <1>13 DEF t, w


\* Walk visits the sequence that the pointers spell from start along link.
LEMMA WalkSpelled ==
  ASSUME NEW r \in Seq(Nodes), IsFiniteSet(live), Cardinality(live) = Len(r),
         NEW start, NEW link,
         start = IF Len(r) = 0 THEN Null ELSE r[1],
         \A k \in 1 .. Len(r) : link[r[k]] = IF k = Len(r) THEN Null ELSE r[k + 1]
  PROVE  Walk(start, link) = r
<1> DEFINE len == Len(r)
           Steps(f) == f = [k \in 1 .. Cardinality(live) + 1 |->
                              IF k = 1 THEN start
                              ELSE IF f[k - 1] = Null THEN Null ELSE link[f[k - 1]]]
           walked == [k \in 1 .. len + 1 |-> IF k <= len THEN r[k] ELSE Null]
           at == CHOOSE f : Steps(f)
<1>1. len \in Nat /\ \A k \in 1 .. len : r[k] \in Nodes /\ r[k] # Null
  BY LRUListAssumption
<1>2. Steps(walked)
  <2>1. ASSUME NEW k \in 1 .. len + 1
        PROVE  walked[k] = IF k = 1 THEN start
                           ELSE IF walked[k - 1] = Null THEN Null ELSE link[walked[k - 1]]
    <3>1. CASE k = 1
      BY <1>1, <3>1
    <3>2. CASE k # 1
      <4>1. k - 1 \in 1 .. len /\ walked[k - 1] = r[k - 1] /\ r[k - 1] # Null
        BY <1>1, <3>2
      <4>2. link[r[k - 1]] = IF k - 1 = len THEN Null ELSE r[(k - 1) + 1]
        BY <4>1
      <4>3. walked[k] = link[r[k - 1]]
        BY <1>1, <3>2, <4>2
      <4> HIDE DEF walked
      <4> QED
        BY <3>2, <4>1, <4>3
    <3> QED
      BY <3>1, <3>2
  <2>2. walked = [k \in 1 .. len + 1 |-> walked[k]]
    OBVIOUS
  <2> HIDE DEF walked, len
  <2>3. walked = [k \in 1 .. len + 1 |->
                    IF k = 1 THEN start
                    ELSE IF walked[k - 1] = Null THEN Null ELSE link[walked[k - 1]]]
    BY <2>1, <2>2
  <2> QED
    BY <2>3 DEF len
<1>3. Steps(at)
  <2> HIDE DEF Steps
  <2> QED
    BY <1>2
<1>4. Walk(start, link) = SubSeq(at, 1, Cardinality({k \in DOMAIN at : at[k] # Null}))
  BY DEF Walk
<1> HIDE DEF at
<1>5. DOMAIN at = 1 .. len + 1
  BY <1>3
<1>6. at[1] = start /\ \A k \in 2 .. len + 1 :
                         at[k] = IF at[k - 1] = Null THEN Null ELSE link[at[k - 1]]
  <2> HIDE DEF len
  <2>1. at = [k \in 1 .. len + 1 |->
                IF k = 1 THEN start
                ELSE IF at[k - 1] = Null THEN Null ELSE link[at[k - 1]]]
    BY <1>3 DEF len
  <2> HIDE DEF Steps
  <2>2. 1 \in 1 .. len + 1 /\ \A k \in 2 .. len + 1 : k \in 1 .. len + 1 /\ k # 1
    BY <1>1
  <2> QED
    BY <2>1, <2>2
<1> HIDE DEF Steps
<1>7. \A k \in 1 .. len + 1 : at[k] = IF k <= len THEN r[k] ELSE Null
  <2> DEFINE Bad == {k \in 1 .. len + 1 : at[k] # IF k <= len THEN r[k] ELSE Null}
  <2> SUFFICES ASSUME Bad # {} PROVE FALSE
    OBVIOUS
  <2>1. Bad \subseteq Nat
    OBVIOUS
  <2>2. PICK m \in Bad : \A k \in Bad : m <= k
    <3> HIDE DEF Bad
    <3> QED
      BY <2>1, LeastNumber
  <2>3. m \in 1 .. len + 1 /\ at[m] # IF m <= len THEN r[m] ELSE Null
    OBVIOUS
  <2>4. m # 1
    BY <1>1, <1>6, <2>3
  <2>5. m - 1 \in 1 .. len /\ m \in 2 .. len + 1 /\ ~(m <= m - 1) /\ m - 1 \in 1 .. len + 1
    BY <1>1, <2>3, <2>4
  <2>6. m - 1 \notin Bad
    <3> HIDE DEF Bad
    <3> QED
      BY <2>2, <2>5
  <2>7. at[m - 1] = r[m - 1] /\ r[m - 1] # Null
    BY <1>1, <2>5, <2>6
  <2>8. at[m] = link[r[m - 1]]
    BY <1>6, <2>5, <2>7
  <2>9. link[r[m - 1]] = IF m - 1 = len THEN Null ELSE r[(m - 1) + 1]
    BY <2>5
  <2> QED
    BY <1>1, <2>3, <2>5, <2>8, <2>9
<1> HIDE DEF len
<1>8. {k \in DOMAIN at : at[k] # Null} = 1 .. len
  <2>1. \A k \in 1 .. len + 1 : at[k] # Null <=> k <= len
    BY <1>1, <1>7
  <2>2. \A k \in 1 .. len : k \in 1 .. len + 1 /\ k <= len
    BY <1>1
  <2>3. \A k \in 1 .. len + 1 : k <= len => k \in 1 .. len
    BY <1>1
  <2> QED
    BY <1>5, <2>1, <2>2, <2>3
<1>9. Cardinality(1 .. len) = len
  BY <1>1, FS_Interval
<1>10. Walk(start, link) = SubSeq(at, 1, len)
  BY <1>4, <1>8, <1>9
<1>11. \A k \in 1 .. len : at[k] = r[k] /\ at[k] \in Nodes
  BY <1>1, <1>7
<1> DEFINE w == SubSeq(at, 1, len)
<1>12. /\ w \in Seq(Nodes) /\ Len(w) = IF 1 <= len THEN (len - 1) + 1 ELSE 0
       /\ \A k \in 1 .. (len - 1) + 1 : w[k] = at[(1 + k) - 1]
  BY <1>1, <1>11, SubSeqProperties
<1> HIDE DEF w
<1>13. Len(w) = len
  <2>1. CASE 1 <= len
    BY <1>1, <1>12, <2>1
  <2>2. CASE ~(1 <= len)
    BY <1>1, <1>12, <2>2
  <2> QED
    BY <2>1, <2>2
<1>14. ASSUME NEW k \in 1 .. len PROVE w[k] = r[k]
  <2>1. (1 + k) - 1 = k /\ k \in 1 .. (len - 1) + 1
    BY <1>1
  <2> QED
    BY <1>11, <1>12, <2>1
<1>15. w = r
  BY <1>12, <1>13, <1>14, SeqEqual DEF len
<1> QED
  BY <1>10, <1>15 DEF w

\* The walks from both ends see the sequence that the pointers spell.
LEMMA SpelledWalks ==
  ASSUME NEW s, Spells(s)
  PROVE  Forward = s /\ Walk(tail, prev) = Reverse(s)
<1> DEFINE len == Len(s)
           r == Reverse(s)
<1>1. /\ len \in Nat /\ s \in Seq(Nodes)
      /\ \A k \in 1 .. len : s[k] \in Nodes
  BY SpelledNodes DEF Spells
<1>2. IsFiniteSet(live) /\ Cardinality(live) = len
  BY OnceLength DEF Spells
<1>3. /\ head = IF len = 0 THEN Null ELSE s[1]
      /\ tail = IF len = 0 THEN Null ELSE s[len]
      /\ \A k \in 1 .. len : next[s[k]] = IF k = len THEN Null ELSE s[k + 1]
      /\ \A k \in 1 .. len : prev[s[k]] = IF k = 1 THEN Null ELSE s[k - 1]
  BY DEF Spells
<1>4. Forward = s
  <2>1. /\ s \in Seq(Nodes) /\ IsFiniteSet(live) /\ Cardinality(live) = Len(s)
        /\ head = IF Len(s) = 0 THEN Null ELSE s[1]
        /\ \A k \in 1 .. Len(s) : next[s[k]] = IF k = Len(s) THEN Null ELSE s[k + 1]
    BY <1>1, <1>2, <1>3
  <2>2. Walk(head, next) = s
    BY ONLY <2>1, WalkSpelled
  <2> QED
    BY <2>2 DEF Forward
<1>5. r = [k \in 1 .. len |-> s[(len - k) + 1]]
  BY <1>1 DEF Reverse
<1> HIDE DEF r, len
<1>6. \A k \in 1 .. len : (len - k) + 1 \in 1 .. len
  BY <1>1
<1>7. r \in Seq(Nodes) /\ Len(r) = len
  BY <1>1, <1>5, <1>6
<1>8. \A k \in 1 .. len : r[k] = s[(len - k) + 1]
  BY <1>5
<1>9. tail = IF Len(r) = 0 THEN Null ELSE r[1]
  <2>1. len # 0 => r[1] = s[len]
    BY <1>1, <1>8
  <2> QED
    BY <1>3, <1>7, <2>1
<1>10. ASSUME NEW k \in 1 .. Len(r)
       PROVE  prev[r[k]] = IF k = Len(r) THEN Null ELSE r[k + 1]
  <2> DEFINE m == (len - k) + 1
  <2>1. m \in 1 .. len /\ r[k] = s[m] /\ (m = 1 <=> k = len)
    BY <1>1, <1>6, <1>7, <1>8
  <2>2. k # len => k + 1 \in 1 .. len /\ (len - (k + 1)) + 1 = m - 1
    BY <1>1, <1>7
  <2>3. k # len => r[k + 1] = s[m - 1]
    BY <1>8, <2>2
  <2> HIDE DEF m
  <2> QED
    BY <1>3, <1>7, <2>1, <2>3
<1>11. Walk(tail, prev) = r
  BY <1>2, <1>7, <1>9, <1>10, WalkSpelled
<1> QED
  BY <1>4, <1>11 DEF r


-----------------------------------------------------------------------------
(* The calls.                                                               *)

\* A node is allocated for a page when it gets its slot and deleted with it.
NodesAreResident == live = WithNode

\* loadPage, while it evicts another page, holds the page it was called for.
LoadsPage ==
  /\ "call" \in DOMAIN op
  /\ op.call = "loadPage" => op.page \in Keys

PoolInv == HashInv /\ TypeOK /\ NodesAreResident /\ LoadsPage

LEMMA AddWithNode ==
  ASSUME HashInv, NEW k \in Keys, Add(k)
  PROVE  WithNode' = WithNode \cup {k}
<1>1. PICK s \in Slots : item' = [item EXCEPT ![k] = s]
  BY DEF Add
<1> QED
  BY <1>1, LRUHashAssumption DEF WithNode, HashInv, Types

LEMMA BeginPopWithNode ==
  ASSUME HashInv, NEW k \in Keys, BeginPop(k)
  PROVE  WithNode' = WithNode \ {k}
BY DEF BeginPop, WithNode, HashInv, Types

LEMMA ShiftWithNode == ASSUME HashInv, Shift PROVE WithNode' = WithNode
<1>1. CASE ShiftMove
  <2> DEFINE p == table[Following(j)]
  <2>1. p \in Keys /\ item[p] # NoSlot /\ i # NoSlot /\ item' = [item EXCEPT ![p] = i]
    BY <1>1, FollowingType, LRUHashAssumption DEF ShiftMove, HashInv, Types, ItemsMatchTable
  <2> QED
    BY <2>1 DEF WithNode, HashInv, Types
<1>2. CASE ShiftStop \/ ShiftSkip
  BY <1>2 DEF ShiftStop, ShiftSkip, WithNode
<1> QED
  BY <1>1, <1>2 DEF Shift

\* What a step of PagePool may do: a step of the table, or none, with the list in step.
InStep == [Next]_vars /\ NodesAreResident' /\ LoadsPage'

LEMMA StepInStep == ASSUME PoolInv, [PoolNext]_pool PROVE InStep
<1> USE DEF PoolInv, NodesAreResident, LoadsPage
<1>1. ASSUME NEW k \in Keys, LoadMiss(k) PROVE InStep
  <2>1. Add(k) /\ live' = live \cup {k} /\ op' = op
    BY <1>1 DEF LoadMiss, PushBack
  <2> QED
    BY <2>1, AddWithNode DEF InStep, Next
<1>2. ASSUME LoadEvicted PROVE InStep
  <2> DEFINE k == op.page
  <2>1. k \in Keys /\ Add(k) /\ live' = live \cup {k} /\ op' = [call |-> "none"]
    BY <1>2 DEF LoadEvicted, PushBack
  <2> HIDE DEF k
  <2> QED
    BY <2>1, AddWithNode DEF InStep, Next
<1>3. ASSUME NEW k \in Keys, NEW p \in live, LoadEvict(k, p) PROVE InStep
  <2>1. p \in Keys /\ BeginPop(p) /\ live' = live \ {p}
        /\ op' = [call |-> "loadPage", page |-> k]
    BY <1>3 DEF LoadEvict, Delete, WithNode
  <2> QED
    BY <2>1, BeginPopWithNode DEF InStep, Next
<1>4. ASSUME CommitNode PROVE InStep
  <2> DEFINE p == op.p
  <2>1. p \in live /\ BeginPop(p) /\ live' = live \ {p} /\ op.call = "commitAll"
        /\ op' = [op EXCEPT !.p = next[op.p]]
    BY <1>4 DEF CommitNode, Committing, Delete
  <2>2. p \in Keys
    BY <2>1 DEF WithNode
  <2>3. LoadsPage'
    BY <2>1
  <2> HIDE DEF p
  <2> QED
    BY <2>1, <2>2, <2>3, BeginPopWithNode DEF InStep, Next
<1>5. ASSUME Shift, UNCHANGED <<list, op>> PROVE InStep
  BY <1>5, ShiftWithNode DEF InStep, Next, list
<1>6. ASSUME UNCHANGED vars, live' = live, LoadsPage' PROVE InStep
  BY <1>6 DEF InStep, vars, WithNode
<1>7. ASSUME NEW k \in Keys, LoadHit(k) PROVE InStep
  BY <1>7, <1>6 DEF LoadHit, MovedBack, MoveBack, list
<1>8. ASSUME NEW f, CommitAll(f) \/ ForceAll(f) PROVE InStep
  BY <1>8, <1>6 DEF CommitAll, ForceAll, list
<1>9. ASSUME PassNode \/ CommittedAll PROVE InStep
  <2>1. UNCHANGED vars /\ live' = live
    BY <1>9 DEF PassNode, CommittedAll, list
  <2>2. CASE PassNode
    <3>1. op.call = "commitAll" /\ op' = [op EXCEPT !.p = next[op.p]]
      BY <2>2 DEF PassNode, Committing
    <3> QED
      BY <3>1, <2>1, <1>6
  <2>3. CASE CommittedAll
    BY <2>1, <2>3, <1>6 DEF CommittedAll
  <2> QED
    BY <1>9, <2>2, <2>3
<1>10. ASSUME ForceSlot PROVE InStep
  <2>1. UNCHANGED vars /\ live' = live
    BY <1>10 DEF ForceSlot, MovedBack, MoveBack, list
  <2>2. op.call = "forcePage"
        /\ (op' = [call |-> "none"] \/ op' = [op EXCEPT !.i = op.i + 1])
    BY <1>10 DEF ForceSlot
  <2> QED
    BY <2>1, <2>2, <1>6
<1>11. ASSUME UNCHANGED pool PROVE InStep
  BY <1>11, <1>6 DEF pool, list
<1>12. ASSUME Execute PROVE InStep
  BY <1>12, <1>2, <1>4, <1>5, <1>9, <1>10 DEF Execute
<1>13. ASSUME PoolNext PROVE InStep
  BY <1>13, <1>1, <1>3, <1>7, <1>8, <1>12, Zenon DEF PoolNext
<1> QED
  BY <1>11, <1>13

LEMMA InitPoolInv == PoolInit => PoolInv
<1> SUFFICES ASSUME PoolInit PROVE PoolInv
  OBVIOUS
<1>1. HashInv
  BY InitHashInv DEF PoolInit
<1>2. TypeOK
  <2>1. Occupied = {} /\ total = 0
    BY DEF PoolInit, Init, Occupied
  <2> QED
    BY <1>1, <2>1, FS_EmptySet DEF HashInv, Types, TypeOK
<1>3. NodesAreResident /\ LoadsPage
  BY DEF PoolInit, Init, ListInit, Idle, NodesAreResident, LoadsPage, WithNode
<1> QED
  BY <1>1, <1>2, <1>3 DEF PoolInv

LEMMA PoolInvariant == PoolSpec => []PoolInv /\ [][Next]_vars
<1>1. PoolInv /\ [PoolNext]_pool => PoolInv' /\ [Next]_vars
  BY StepInStep, NextHashInv, NextTypeOK DEF PoolInv, InStep
<1> QED
  BY <1>1, InitPoolInv, PTL DEF PoolSpec

\* The node of a page leads to its slot at every moment of every call, so commitOnePage
\* and commitAll empty the slot of the page whose node they delete and not another's.
THEOREM PoolItemsMatchTable == PoolSpec => []ItemsMatchTable
BY PoolInvariant, PTL DEF PoolInv, HashInv

\* No page is cut off from its hash by the deletions of an eviction or of a whole
\* commitAll, but by the hole popByKey is about to close.
THEOREM PoolNoPageCutOff == PoolSpec => []NoPageCutOff
BY PoolInvariant, PTL DEF PoolInv, HashInv

\* Between the steps of every call get() finds the pages that have a node, and no other.
THEOREM PoolLookupExact == PoolSpec => []LookupExact
<1>1. PoolInv => LookupExact
  BY InvLookupExact DEF PoolInv
<1> QED
  BY <1>1, PoolInvariant, PTL

\* A page has a node in the list exactly while it is in the table: none leaks, and the
\* walks of commitOnePage and commitAll can meet every page there is to write.
THEOREM PoolNodesAreResident == PoolSpec => []NodesAreResident
BY PoolInvariant, PTL DEF PoolInv

\* The calls of PageFS implement PageTable.
THEOREM PoolRefinement == PoolSpec => ImplementsPageTable
<1>1. PoolInit => Abstract!Init
  <2> SUFFICES ASSUME PoolInit PROVE Abstract!Init
    OBVIOUS
  <2>1. Resident = WithNode
    BY InitPoolInv, ResidentIsWithNode DEF PoolInv
  <2> QED
    BY <2>1 DEF Abstract!Init, PoolInit, Init, WithNode
<1>2. PoolInv /\ PoolInv' /\ [Next]_vars => [Abstract!Next]_Resident
  BY StepImplements DEF PoolInv
<1> QED
  BY <1>1, <1>2, PoolInvariant, PTL DEF PoolSpec, Abstract!Spec, ImplementsPageTable

-----------------------------------------------------------------------------
(* The order of the list, through every call.                               *)

PagesOfFile(f) == {p \in Keys : f \in {AllFiles, p[1]}}

\* commitAll is at a node of s, or at its end, and has left no page of the file behind.
Progress(s) ==
  op.call = "commitAll" =>
    /\ op = [call |-> "commitAll", file |-> op.file, p |-> op.p]
    /\ \E k \in 1 .. Len(s) + 1 :
         /\ op.p = IF k = Len(s) + 1 THEN Null ELSE s[k]
         /\ \A m \in 1 .. k - 1 : s[m] \notin PagesOfFile(op.file)

\* Kept, when the pointers spell s and o is executed.
KeptOf(s, o) ==
  IF o.call = "commitAll" THEN Without(s, PagesOfFile(o.file))
  ELSE IF o.call = "loadPage" THEN Append(s, o.page) ELSE s

OrderInv == PointerTypes /\ \E s : Spells(s) /\ Progress(s)

KeptIsSpelled == \A s : Spells(s) => Kept = KeptOf(s, op)

LEMMA KeptSpelled == KeptIsSpelled
<1> SUFFICES ASSUME NEW s, Spells(s) PROVE Kept = KeptOf(s, op)
  BY DEF KeptIsSpelled
<1>1. Forward = s
  BY SpelledWalks
<1> QED
  BY <1>1 DEF Kept, KeptOf, PagesOfFile

LEMMA OrderOperators ==
  /\ \A s, S : Order!Without(s, S) = Without(s, S)
  /\ \A s : Order!ToSet(s) = ToSet(s)
  /\ Order!Pages = Keys
  /\ \A f : Order!PagesOf(f) = PagesOfFile(f)
<1>1. \A s, S : Order!Without(s, S) = Without(s, S)
  BY DEF Order!Without, Without
<1>2. \A s : Order!ToSet(s) = ToSet(s)
  BY DEF Order!ToSet, ToSet
<1>3. Order!Pages = Keys
  BY DEF Order!Pages, Keys
<1>4. \A f : Order!PagesOf(f) = PagesOfFile(f)
  BY <1>3 DEF Order!PagesOf, PagesOfFile
<1> QED
  BY <1>1, <1>2, <1>3, <1>4

\* "p->item->data.fileId" is the file of the page whose node p is.
LEMMA OfFileExact ==
  ASSUME PoolInv, NEW p \in live, NEW f
  PROVE  OfFile(p, f) <=> p \in PagesOfFile(f)
<1>1. p \in Keys /\ table[item[p]] = p
  BY DEF PoolInv, NodesAreResident, WithNode, HashInv, ItemsMatchTable
<1> QED
  BY <1>1 DEF OfFile, PagesOfFile

\* The list is as long as total says, between calls.
LEMMA LengthIsTotal ==
  ASSUME PoolInv, NEW s, Spells(s)
  PROVE  Len(s) = total
<1>1. Cardinality(WithNode) = total
  <2> DEFINE g == [k \in WithNode |-> item[k]]
  <2>1. g \in [WithNode -> Occupied]
    BY LRUHashAssumption DEF WithNode, Occupied, PoolInv, HashInv, Types, ItemsMatchTable
  <2>2. \A k, q \in WithNode : g[k] = g[q] => k = q
    BY DEF WithNode, PoolInv, HashInv, ItemsMatchTable
  <2>3. \A x \in Occupied : \E k \in WithNode : g[k] = x
    <3> SUFFICES ASSUME NEW x \in Occupied PROVE \E k \in WithNode : g[k] = x
      OBVIOUS
    <3>1. table[x] \in Keys /\ item[table[x]] = x
      BY DEF Occupied, PoolInv, HashInv, Types, ItemsMatchTable
    <3>2. table[x] \in WithNode
      BY <3>1, LRUHashAssumption DEF WithNode, Occupied
    <3> QED
      BY <3>1, <3>2
  <2>4. g \in Injection(WithNode, Occupied) /\ g \in Surjection(WithNode, Occupied)
    BY <2>1, <2>2, <2>3 DEF Injection, Surjection, IsInjective
  <2> QED
    BY <2>4, OccupiedFinite, FS_Injection DEF PoolInv, TypeOK
<1> QED
  BY <1>1, OnceLength DEF Spells, PoolInv, NodesAreResident

\* A page that a call touches becomes the most recently used.
LEMMA MovedBackOrder ==
  ASSUME PoolInv, PointerTypes, NEW s, Spells(s), NEW p, MovedBack(p)
  PROVE  /\ PointerTypes'
         /\ \/ Spells(s)'
            \/ /\ p \in Keys /\ p \in ToSet(s)
               /\ Spells(Append(Without(s, {p}), p))'
<1>1. CASE MoveBack(p)
  <2>1. p \in live
    BY <1>1 DEF MoveBack
  <2>2. p \in Keys /\ p \in ToSet(s)
    BY <2>1 DEF PoolInv, NodesAreResident, WithNode, Spells
  <2> QED
    BY <1>1, <2>2, MoveBackSpells
<1>2. CASE UNCHANGED list
  BY <1>2 DEF list, Spells, PointerTypes
<1> QED
  BY <1>1, <1>2 DEF MovedBack

\* One step of PageFS is one step of the order, or none.
LEMMA OrderStep ==
  ASSUME PoolInv, PoolInv', PointerTypes, NEW s, Spells(s), Progress(s), [PoolNext]_pool
  PROVE  /\ PointerTypes'
         /\ \E t : Spells(t)' /\ Progress(t)'
         /\ [Order!Next]_Kept
<1> DEFINE Done == /\ PointerTypes'
                   /\ \E t : Spells(t)' /\ Progress(t)'
                   /\ [Order!Next]_Kept
<1>s. /\ s \in Seq(Nodes) /\ IsInjective(s) /\ ToSet(s) = live /\ Nodes = Keys
      /\ s \in Seq(Keys)
  BY PagePoolAssumption DEF Spells
<1>k. Kept = KeptOf(s, op)
  BY KeptSpelled DEF KeptIsSpelled
<1>n. \A t : Spells(t)' => Kept' = KeptOf(t, op')
  <2>1. KeptIsSpelled'
    BY KeptSpelled, PTL
  <2> QED
    BY <2>1 DEF KeptIsSpelled
<1>c. ASSUME NEW t, PointerTypes', Spells(t)', Progress(t)', KeptOf(t, op') = KeptOf(s, op)
      PROVE  Done
  BY <1>c, <1>k, <1>n
<1>o. ASSUME NEW t, PointerTypes', Spells(t)', op'.call # "commitAll", NEW p \in Keys,
             Order!Touch(p) \/ Order!Load(p)
      PROVE  Done
  BY <1>o, OrderOperators DEF Progress, Order!Next
<1>t. ASSUME NEW p, MovedBack(p),
             op.call \in {"none", "forcePage"}, op'.call \in {"none", "forcePage"}
      PROVE  Done
  <2>1. CASE Spells(s)'
    <3>1. Progress(s)'
      BY <1>t DEF Progress
    <3> QED
      BY <1>c, <1>t, <2>1, <3>1, MovedBackOrder DEF KeptOf
  <2>2. CASE p \in Keys /\ p \in ToSet(s) /\ Spells(Append(Without(s, {p}), p))'
    <3> DEFINE t == Append(Without(s, {p}), p)
    <3> HIDE DEF t
    <3>1. Spells(t)' /\ Kept = s /\ Kept' = t
      BY <1>k, <1>n, <1>t, <2>2 DEF KeptOf, t
    <3>2. Order!Touch(p)
      BY <2>2, <3>1, OrderOperators DEF Order!Touch, t
    <3> QED
      BY <1>o, <1>t, <2>2, <3>1, <3>2, MovedBackOrder
  <2> QED
    BY <1>t, <2>1, <2>2, MovedBackOrder
<1>1. ASSUME NEW k \in Keys, LoadHit(k) PROVE Done
  BY <1>1, <1>t DEF LoadHit, Idle
<1>2. ASSUME NEW k \in Keys, LoadMiss(k) PROVE Done
  <2> DEFINE t == Append(s, k)
  <2>1. op = [call |-> "none"] /\ op' = op /\ PushBack(k) /\ Add(k)
    BY <1>2 DEF LoadMiss, Idle
  <2>2. PointerTypes' /\ Spells(t)'
    BY <1>s, <2>1, PushBackSpells
  <2> HIDE DEF t
  <2>3. Kept = s /\ Kept' = t
    BY <1>k, <1>n, <2>1, <2>2 DEF KeptOf
  <2>4. k \notin ToSet(s) /\ Len(s) < MAX_BUFFER_SIZE
    BY <1>s, <2>1, LengthIsTotal DEF PushBack, Add
  <2>5. Order!Load(k)
    BY <2>3, <2>4, OrderOperators DEF Order!Load, t
  <2> QED
    BY <1>o, <2>1, <2>2, <2>5
<1>3. ASSUME NEW k \in Keys, NEW p \in live, LoadEvict(k, p) PROVE Done
  <2> PICK v : v = p
    OBVIOUS
  <2> DEFINE t == Without(s, {v})
  <2>1. /\ op = [call |-> "none"] /\ op' = [call |-> "loadPage", page |-> k]
        /\ Delete(v) /\ pc = "idle" /\ ~Hit(k) /\ total = MAX_BUFFER_SIZE
    BY <1>3 DEF LoadEvict, Idle
  <2>2. PointerTypes' /\ Spells(t)'
    BY <2>1, DeleteSpells
  <2>3. Kept = s /\ Kept' = Append(t, k)
    <3> HIDE DEF t
    <3> QED
      BY <1>k, <1>n, <2>1, <2>2 DEF KeptOf
  <2>4. k \notin ToSet(s) /\ v \in ToSet(s) /\ Len(s) = MAX_BUFFER_SIZE
    <3>1. k \notin live
      BY <2>1, ResidentIsWithNode DEF PoolInv, NodesAreResident, Resident
    <3> QED
      BY <1>s, <2>1, <3>1, LengthIsTotal
  <2>5. Order!Load(k)
    BY <2>3, <2>4, OrderOperators DEF Order!Load
  <2> HIDE DEF t
  <2> QED
    BY <1>o, <2>1, <2>2, <2>5
<1>4. ASSUME LoadEvicted PROVE Done
  <2> PICK k : k = op.page
    OBVIOUS
  <2> DEFINE t == Append(s, k)
  <2>1. op.call = "loadPage" /\ PushBack(k) /\ op' = [call |-> "none"] /\ k \in Keys
    BY <1>4 DEF LoadEvicted, PoolInv, LoadsPage
  <2>2. PointerTypes' /\ Spells(t)'
    BY <1>s, <2>1, PushBackSpells
  <2>3. KeptOf(s, op) = t /\ KeptOf(t, op') = t
    BY <2>1 DEF KeptOf
  <2>4. Progress(t)'
    BY <2>1 DEF Progress
  <2> HIDE DEF t
  <2> QED
    BY <1>c, <2>2, <2>3, <2>4
<1>5. ASSUME NEW f \in FileIds \cup {AllFiles}, CommitAll(f) PROVE Done
  <2>1. /\ op = [call |-> "none"] /\ UNCHANGED list
        /\ op' = [call |-> "commitAll", file |-> f, p |-> head]
    BY <1>5 DEF CommitAll, Idle
  <2>2. PointerTypes' /\ Spells(s)'
    BY <2>1 DEF list, PointerTypes, Spells
  <2>3. Kept = s /\ Kept' = Without(s, PagesOfFile(f))
    BY <1>k, <1>n, <2>1, <2>2 DEF KeptOf
  <2>4. Progress(s)'
    <3>1. 1 \in 1 .. Len(s) + 1 /\ (1 = Len(s) + 1 <=> Len(s) = 0)
      BY <1>s
    <3>2. head = IF 1 = Len(s) + 1 THEN Null ELSE s[1]
      BY <3>1 DEF Spells
    <3>3. op'.p = head /\ op'.call = "commitAll" /\ op' = [call |-> "commitAll", file |-> op'.file, p |-> op'.p]
      BY <2>1
    <3>4. \A m \in 1 .. 1 - 1 : s[m] \notin PagesOfFile(op'.file)
      OBVIOUS
    <3> QED
      BY <3>1, <3>2, <3>3, <3>4 DEF Progress
  <2>5. Order!Close(f)
    BY <2>3, OrderOperators DEF Order!Close
  <2>6. Order!Next
    BY <2>5 DEF Order!Next
  <2> QED
    BY <2>2, <2>4, <2>6
<1>6. ASSUME Committing, op.p # Null
      PROVE  \E k \in 1 .. Len(s) :
               /\ op.p = s[k] /\ op.p \in live
               /\ op = [call |-> "commitAll", file |-> op.file, p |-> op.p]
               /\ \A m \in 1 .. k - 1 : s[m] \notin PagesOfFile(op.file)
               /\ next[op.p] = IF k = Len(s) THEN Null ELSE s[k + 1]
  <2>1. PICK k \in 1 .. Len(s) + 1 :
          /\ op.p = IF k = Len(s) + 1 THEN Null ELSE s[k]
          /\ \A m \in 1 .. k - 1 : s[m] \notin PagesOfFile(op.file)
    BY <1>6 DEF Committing, Progress
  <2>2. k \in 1 .. Len(s) /\ op.p = s[k]
    BY <1>6, <1>s, <2>1
  <2>3. s[k] \in live /\ next[s[k]] = IF k = Len(s) THEN Null ELSE s[k + 1]
    BY <2>2, SpelledNodes DEF Spells
  <2> QED
    BY <1>6, <2>1, <2>2, <2>3 DEF Committing, Progress
<1>7. ASSUME CommitNode PROVE Done
  <2>0. Committing /\ op.p # Null /\ OfFile(op.p, op.file)
    BY <1>7 DEF CommitNode
  <2>1. PICK k \in 1 .. Len(s) :
          /\ op.p = s[k] /\ op.p \in live
          /\ op = [call |-> "commitAll", file |-> op.file, p |-> op.p]
          /\ \A m \in 1 .. k - 1 : s[m] \notin PagesOfFile(op.file)
          /\ next[op.p] = IF k = Len(s) THEN Null ELSE s[k + 1]
    BY <1>6, <2>0
  <2> PICK v, f : v = op.p /\ f = op.file
    OBVIOUS
  <2> DEFINE t == Without(s, {v})
             F == PagesOfFile(f)
  <2>2. /\ Delete(v) /\ v = s[k]
        /\ op = [call |-> "commitAll", file |-> f, p |-> v]
        /\ op' = [call |-> "commitAll", file |-> f, p |-> next[v]]
    BY <1>7, <2>1 DEF CommitNode
  <2>3. PointerTypes' /\ Spells(t)'
    BY <2>2, DeleteSpells
  <2>4. v \in F
    BY <2>0, <2>1, OfFileExact
  <2>5. KeptOf(t, op') = KeptOf(s, op)
    <3>1. {v} \cup F = F
      BY <2>4
    <3> HIDE DEF F
    <3>2. Without(t, F) = Without(s, F)
      BY <1>s, <3>1, WithoutBoth
    <3> HIDE DEF t
    <3> QED
      BY <2>2, <3>2 DEF KeptOf, F
  <2>6. Progress(t)'
    <3> DEFINE len == Len(s)
    <3>1. /\ len \in Nat /\ Len(t) = len - 1
          /\ \A m \in 1 .. len - 1 : t[m] = IF m < k THEN s[m] ELSE s[m + 1]
      <4>1. s \in Seq(Nodes) /\ IsInjective(s) /\ Len(s) \in Nat /\ k \in 1 .. Len(s)
        BY <1>s
      <4>2. LET w == Without(s, {s[k]}) IN
            /\ Len(w) = Len(s) - 1
            /\ \A m \in 1 .. Len(s) - 1 : w[m] = IF m < k THEN s[m] ELSE s[m + 1]
        BY ONLY <4>1, WithoutOne
      <4> QED
        BY <2>2, <4>1, <4>2
    <3> HIDE DEF t, len, F
    <3>2. k \in 1 .. len
      BY DEF len
    <3>3. k \in 1 .. Len(t) + 1
      BY <3>1, <3>2
    <3>4. next[v] = IF k = Len(t) + 1 THEN Null ELSE t[k]
      <4>1. next[v] = IF k = len THEN Null ELSE s[k + 1]
        BY <2>1 DEF len
      <4> QED
        BY <3>1, <3>2, <4>1
    <3>5. \A m \in 1 .. k - 1 : t[m] \notin F
      <4>1. \A m \in 1 .. k - 1 : s[m] \notin F
        BY <2>1 DEF F
      <4>2. \A m \in 1 .. k - 1 : m \in 1 .. len - 1 /\ m < k
        BY <3>1, <3>2
      <4> QED
        BY <3>1, <4>1, <4>2
    <3>6. op'.p = next[v] /\ op'.file = f /\ op' = [call |-> "commitAll", file |-> op'.file, p |-> op'.p]
      BY <2>2
    <3> QED
      BY <3>3, <3>4, <3>5, <3>6 DEF Progress, F
  <2> HIDE DEF t
  <2> QED
    BY <1>c, <2>3, <2>5, <2>6
<1>8. ASSUME PassNode PROVE Done
  <2>0. Committing /\ op.p # Null /\ ~OfFile(op.p, op.file) /\ UNCHANGED list
    BY <1>8 DEF PassNode
  <2>1. PICK k \in 1 .. Len(s) :
          /\ op.p = s[k] /\ op.p \in live
          /\ op = [call |-> "commitAll", file |-> op.file, p |-> op.p]
          /\ \A m \in 1 .. k - 1 : s[m] \notin PagesOfFile(op.file)
          /\ next[op.p] = IF k = Len(s) THEN Null ELSE s[k + 1]
    BY <1>6, <2>0
  <2> PICK v, f : v = op.p /\ f = op.file
    OBVIOUS
  <2> DEFINE F == PagesOfFile(f)
             len == Len(s)
  <2>2. /\ op = [call |-> "commitAll", file |-> f, p |-> v]
        /\ op' = [call |-> "commitAll", file |-> f, p |-> next[v]]
    BY <1>8, <2>1 DEF PassNode
  <2>3. PointerTypes' /\ Spells(s)'
    BY <2>0 DEF list, PointerTypes, Spells
  <2>4. v \notin F
    BY <2>0, <2>1, OfFileExact
  <2>5. KeptOf(s, op') = KeptOf(s, op)
    BY <2>2 DEF KeptOf
  <2>6. Progress(s)'
    <3>1. len \in Nat /\ k \in 1 .. len /\ next[v] = (IF k = len THEN Null ELSE s[k + 1]) /\ v = s[k]
      BY <1>s, <2>1
    <3>2. \A m \in 1 .. k - 1 : s[m] \notin F
      BY <2>1
    <3> HIDE DEF F, len
    <3>3. k + 1 \in 1 .. len + 1 /\ next[v] = IF k + 1 = len + 1 THEN Null ELSE s[k + 1]
      BY <3>1
    <3>4. \A m \in 1 .. (k + 1) - 1 : s[m] \notin F
      <4>1. \A m \in 1 .. (k + 1) - 1 : m = k \/ m \in 1 .. k - 1
        BY <3>1
      <4> QED
        BY <2>4, <3>1, <3>2, <4>1
    <3>5. op'.p = next[v] /\ op'.file = f /\ op' = [call |-> "commitAll", file |-> op'.file, p |-> op'.p]
      BY <2>2
    <3> QED
      BY <3>3, <3>4, <3>5 DEF Progress, F, len
  <2> QED
    BY <1>c, <2>3, <2>5, <2>6
<1>9. ASSUME CommittedAll PROVE Done
  <2>1. /\ op.call = "commitAll" /\ op.p = Null /\ UNCHANGED list
        /\ op' = [call |-> "none"]
    BY <1>9 DEF CommittedAll, Committing
  <2>2. PointerTypes' /\ Spells(s)' /\ Progress(s)'
    BY <2>1 DEF list, PointerTypes, Spells, Progress
  <2> PICK f : f = op.file
    OBVIOUS
  <2> DEFINE F == PagesOfFile(f)
  <2>3. ToSet(s) \cap F = {}
    <3>1. PICK k \in 1 .. Len(s) + 1 :
            /\ op.p = IF k = Len(s) + 1 THEN Null ELSE s[k]
            /\ \A m \in 1 .. k - 1 : s[m] \notin F
      BY <2>1 DEF Progress
    <3>2. \A m \in 1 .. Len(s) : s[m] # Null
      BY SpelledNodes
    <3>3. k = Len(s) + 1
      BY <1>s, <2>1, <3>1, <3>2
    <3>4. \A m \in 1 .. Len(s) : m \in 1 .. k - 1
      BY <1>s, <3>3
    <3>5. \A m \in 1 .. Len(s) : s[m] \notin F
      BY <3>1, <3>4
    <3>6. \A n \in ToSet(s) : \E m \in 1 .. Len(s) : s[m] = n
      BY <1>s, SpelledNodes
    <3> HIDE DEF F
    <3> QED
      BY <3>5, <3>6
  <2>4. Without(s, F) = s
    <3> HIDE DEF F
    <3> QED
      BY <1>s, <2>3, WithoutNone
  <2>5. KeptOf(s, op') = KeptOf(s, op)
    BY <2>1, <2>4 DEF KeptOf
  <2> QED
    BY <1>c, <2>2, <2>5
<1>10. ASSUME ForceSlot PROVE Done
  <2>1. /\ op.call = "forcePage"
        /\ op' = [call |-> "none"] \/ op' = [op EXCEPT !.i = op.i + 1]
    BY <1>10 DEF ForceSlot
  <2>2. op'.call \in {"none", "forcePage"}
    <3>1. CASE op' = [op EXCEPT !.i = op.i + 1]
      <4>1. "call" \in DOMAIN op
        BY DEF PoolInv, LoadsPage
      <4> QED
        BY <2>1, <3>1, <4>1
    <3> QED
      BY <2>1, <3>1
  <2>3. CASE UNCHANGED list
    <3>1. PointerTypes' /\ Spells(s)' /\ Progress(s)'
      BY <2>2, <2>3 DEF list, PointerTypes, Spells, Progress
    <3> QED
      BY <1>c, <2>1, <2>2, <3>1 DEF KeptOf
  <2>4. CASE MovedBack(table[op.i])
    <3> PICK p : p = table[op.i]
      OBVIOUS
    <3>1. MovedBack(p)
      BY <2>4
    <3> QED
      BY <1>t, <2>1, <2>2, <3>1
  <2> QED
    BY <1>10, <2>3, <2>4 DEF ForceSlot
<1>11. ASSUME NEW f \in FileIds, ForceAll(f) PROVE Done
  <2>1. op.call = "none" /\ op'.call = "forcePage" /\ UNCHANGED list
    BY <1>11 DEF ForceAll, Idle
  <2>2. PointerTypes' /\ Spells(s)' /\ Progress(s)'
    BY <2>1 DEF list, PointerTypes, Spells, Progress
  <2> QED
    BY <1>c, <2>1, <2>2 DEF KeptOf
<1>12. ASSUME UNCHANGED <<list, op>> PROVE Done
  <2>1. PointerTypes' /\ Spells(s)' /\ Progress(s)'
    BY <1>12 DEF list, PointerTypes, Spells, Progress
  <2> QED
    BY <1>c, <1>12, <2>1
<1>13. ASSUME Execute PROVE Done
  BY <1>13, <1>4, <1>7, <1>8, <1>9, <1>10, <1>12 DEF Execute
<1>14. ASSUME PoolNext PROVE Done
  BY <1>14, <1>1, <1>2, <1>3, <1>5, <1>11, <1>13, Zenon DEF PoolNext
<1> QED
  BY <1>12, <1>14 DEF pool

LEMMA InitOrder == PoolInit => OrderInv /\ Kept = <<>>
<1> SUFFICES ASSUME PoolInit PROVE OrderInv /\ Kept = <<>>
  OBVIOUS
<1>1. PICK s : Spells(s)
  BY ListInitInv DEF PoolInit, ListInv
<1>2. PointerTypes /\ op = [call |-> "none"] /\ live = {}
  BY ListInitInv DEF PoolInit, ListInv, Idle, ListInit
<1>3. Progress(s)
  BY <1>2 DEF Progress
<1>4. Kept = s
  BY <1>1, <1>2, KeptSpelled DEF KeptOf, KeptIsSpelled
<1>5. s = <<>>
  <2>1. s \in Seq(Nodes) /\ \A k \in 1 .. Len(s) : s[k] \in live
    BY <1>1, SpelledNodes DEF Spells
  <2> QED
    BY <1>2, <2>1
<1> QED
  BY <1>1, <1>2, <1>3, <1>4, <1>5 DEF OrderInv

LEMMA NextOrder ==
  PoolInv /\ PoolInv' /\ OrderInv /\ [PoolNext]_pool => OrderInv' /\ [Order!Next]_Kept
<1> SUFFICES ASSUME PoolInv, PoolInv', OrderInv, [PoolNext]_pool
             PROVE  OrderInv' /\ [Order!Next]_Kept
  OBVIOUS
<1>1. PICK s : Spells(s) /\ Progress(s)
  BY DEF OrderInv
<1>2. /\ PointerTypes'
      /\ \E t : Spells(t)' /\ Progress(t)'
      /\ [Order!Next]_Kept
  BY <1>1, OrderStep DEF OrderInv
<1> QED
  BY <1>2 DEF OrderInv

LEMMA OrderInvariant == PoolSpec => []OrderInv /\ [][Order!Next]_Kept
BY InitOrder, NextOrder, PoolInvariant, PTL DEF PoolSpec

\* The walks of commitOnePage and commitAll meet every resident page once and no deleted
\* node, whatever was moved back or removed, and the prev pointers spell the same list.
THEOREM PoolWalkMeetsEveryNode == PoolSpec => []WalkMeetsEveryNode
<1>1. OrderInv => WalkMeetsEveryNode
  <2> SUFFICES ASSUME NEW s, Spells(s) PROVE WalkMeetsEveryNode
    BY DEF OrderInv
  <2>1. Forward = s /\ Walk(tail, prev) = Reverse(s)
    BY SpelledWalks
  <2>2. ToSet(s) = live /\ Cardinality(live) = Len(s)
    BY OnceLength DEF Spells
  <2> QED
    BY <2>1, <2>2 DEF WalkMeetsEveryNode
<1> QED
  BY <1>1, OrderInvariant, PTL

\* The calls of PageFS implement LRUOrder: a load makes its page the most recently used
\* and drops one other at most, and commitAll drops the pages of the file and no other.
THEOREM OrderRefinement == PoolSpec => ImplementsLRUOrder
<1>1. PoolInit => Order!Init
  BY InitOrder DEF Order!Init
<1> QED
  BY <1>1, OrderInvariant, PTL DEF PoolSpec, Order!Spec, ImplementsLRUOrder
=============================================================================
