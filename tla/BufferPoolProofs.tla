-------------------------- MODULE BufferPoolProofs --------------------------
(***************************************************************************)
(* What the pool does to the contents of pages, and that its list and its  *)
(* table name the same pages, for any number of frames, files and pages.   *)
(* The order of the list plays no part in the first: the contents are      *)
(* right whatever page is chosen for eviction.                             *)
(***************************************************************************)
EXTENDS BufferPool, ListsProofs

\* The part of TypeOK that the argument needs.
PoolTypes ==
  /\ resident \subseteq Pages
  /\ data \in [Pages -> Contents]
  /\ dirty \subseteq resident
  /\ pinned \subseteq resident
  /\ disk \in [Pages -> Contents]
  /\ held \subseteq Pages
  /\ unmarked \subseteq resident
  /\ latest \in [Pages -> Contents]

\* Why the contents agree.  A page has its last update in its frame, or on disk when it
\* has no frame; a clean frame equals the disk unless its update was never marked; and
\* such an update is in a clean frame, so that dropping the frame loses it, as Forget
\* records, and nothing else.
PoolInv ==
  /\ PoolTypes
  /\ dirty \cap unmarked = {}
  /\ \A p \in resident : data[p] = latest[p]
  /\ \A p \in Pages \ resident : disk[p] = latest[p]
  /\ \A p \in resident \ (dirty \cup unmarked) : data[p] = disk[p]

LEMMA InitPoolInv == Init => PoolInv
BY BufferPoolAssumption DEF Init, PoolInv, PoolTypes

\* Releasing frames, pinned or not, keeps the invariant: commitAll's part.
LEMMA ReleasePoolInv == ASSUME PoolInv, NEW S \in SUBSET Pages, Release(S) PROVE PoolInv'
<1> USE BufferPoolAssumption DEF PoolInv, Release, WriteBack, Forget
<1>1. PoolTypes'
  BY DEF PoolTypes
<1>2. ASSUME NEW p \in resident' PROVE data'[p] = latest'[p]
  BY DEF PoolTypes
<1>3. ASSUME NEW p \in Pages \ resident' PROVE disk'[p] = latest'[p]
  <2>1. CASE p \in S \cap unmarked
    BY <2>1 DEF PoolTypes
  <2>2. CASE p \in S \ unmarked
    BY <2>2, <1>3 DEF PoolTypes
  <2>3. CASE p \notin S
    BY <2>3, <1>3 DEF PoolTypes
  <2> QED
    BY <2>1, <2>2, <2>3
<1>4. ASSUME NEW p \in resident' \ (dirty' \cup unmarked') PROVE data'[p] = disk'[p]
  BY DEF PoolTypes
<1>5. dirty' \cap unmarked' = {}
  OBVIOUS
<1> QED
  BY <1>1, <1>2, <1>3, <1>4, <1>5

\* An eviction keeps it too: the victim's marked update is on disk before its frame is
\* given to p, which is read from disk.
LEMMA LoadEvictPoolInv == ASSUME PoolInv, NEW p \in Pages, LoadEvict(p) PROVE PoolInv'
<1> USE BufferPoolAssumption
<1>1. PICK v \in resident :
        /\ WriteBack({v})
        /\ Forget({v})
        /\ resident' = (resident \ {v}) \cup {p}
        /\ data' = [data EXCEPT ![v] = Zero, ![p] = disk[p]]
        /\ dirty' = dirty \ {v}
        /\ v \notin pinned
  BY DEF LoadEvict, Victim
<1>2. p \notin resident /\ v \in Pages /\ v # p /\ p \notin dirty /\ p \notin unmarked
  BY DEF LoadEvict, PoolInv, PoolTypes
<1>3. /\ data' = [q \in Pages |-> IF q = p THEN disk[p] ELSE IF q = v THEN Zero ELSE data[q]]
      /\ disk' = [q \in Pages |-> IF q = v /\ v \in dirty THEN data[v] ELSE disk[q]]
      /\ latest' = [q \in Pages |-> IF q = v /\ v \in unmarked THEN disk[v] ELSE latest[q]]
      /\ unmarked' = unmarked \ {v}
      /\ pinned' = pinned \cup {p} /\ held' = held \cup {p}
  <2>1. data' = [q \in Pages |-> IF q = p THEN disk[p] ELSE IF q = v THEN Zero ELSE data[q]]
    BY <1>1, <1>2 DEF PoolInv, PoolTypes
  <2>2. /\ disk' = [q \in Pages |-> IF q = v /\ v \in dirty THEN data[v] ELSE disk[q]]
        /\ latest' = [q \in Pages |-> IF q = v /\ v \in unmarked THEN disk[v] ELSE latest[q]]
        /\ unmarked' = unmarked \ {v}
    BY <1>1, <1>2 DEF WriteBack, Forget
  <2> QED
    BY <2>1, <2>2 DEF LoadEvict
<1>4. PoolTypes'
  BY <1>1, <1>2, <1>3 DEF PoolInv, PoolTypes
<1>5. ASSUME NEW q \in resident' PROVE data'[q] = latest'[q]
  BY <1>1, <1>2, <1>3, <1>5 DEF PoolInv, PoolTypes
<1>6. ASSUME NEW q \in Pages \ resident' PROVE disk'[q] = latest'[q]
  BY <1>1, <1>2, <1>3, <1>6 DEF PoolInv, PoolTypes
<1>7. ASSUME NEW q \in resident' \ (dirty' \cup unmarked') PROVE data'[q] = disk'[q]
  BY <1>1, <1>2, <1>3, <1>7 DEF PoolInv, PoolTypes
<1>8. dirty' \cap unmarked' = {}
  BY <1>1, <1>3 DEF PoolInv
<1> QED
  BY <1>4, <1>5, <1>6, <1>7, <1>8 DEF PoolInv

\* The invariant is inductive.
LEMMA NextPoolInv == PoolInv /\ [Next]_vars => PoolInv'
<1> SUFFICES ASSUME PoolInv, [Next]_vars PROVE PoolInv'
  OBVIOUS
<1> USE DEF PoolInv, PoolTypes
<1>1. ASSUME NEW p \in Pages, LoadHit(p) PROVE PoolInv'
  BY <1>1 DEF LoadHit
<1>2. ASSUME NEW p \in Pages, LoadMiss(p) PROVE PoolInv'
  BY <1>2 DEF LoadMiss
<1>3. ASSUME NEW p \in Pages, LoadEvict(p) PROVE PoolInv'
  BY <1>3, LoadEvictPoolInv
<1>4. ASSUME NEW p \in Pages, MarkDirty(p) PROVE PoolInv'
  BY <1>4 DEF MarkDirty
<1>5. ASSUME NEW p \in Pages, UnpinPage(p) PROVE PoolInv'
  BY <1>5 DEF UnpinPage
<1>6. ASSUME NEW p \in Pages, ForcePage(p) PROVE PoolInv'
  BY <1>6 DEF ForcePage, WriteBack, clients
<1>7. ASSUME NEW p \in Pages, NEW c \in Contents, Write(p, c) PROVE PoolInv'
  BY <1>7 DEF Write
<1>8. ASSUME NEW f \in Files, ForceAllPages(f) PROVE PoolInv'
  BY <1>8 DEF ForceAllPages, WriteBack, clients
<1>9. ASSUME NEW f \in Files, CloseFile(f) PROVE PoolInv'
  BY <1>9, ReleasePoolInv DEF CloseFile, PagesOf
<1>10. CASE Shutdown
  BY <1>10, ReleasePoolInv DEF Shutdown
<1>11. CASE UNCHANGED vars
  BY <1>11 DEF vars, pool, clients
<1> QED
  BY <1>1, <1>2, <1>3, <1>4, <1>5, <1>6, <1>7, <1>8, <1>9, <1>10, <1>11 DEF Next

LEMMA PoolInvariant == Spec => []PoolInv
BY InitPoolInv, NextPoolInv, PTL DEF Spec

\* No update marked dirty is lost, for any number of frames and any replacement order.
THEOREM MarkedUpdatesSurviveAlways == Spec => []MarkedUpdatesSurvive
<1>1. PoolInv => MarkedUpdatesSurvive
  BY DEF PoolInv, PoolTypes, MarkedUpdatesSurvive, View
<1> QED
  BY <1>1, PoolInvariant, PTL

\* What makes dropping a clean frame without a write safe.
THEOREM CleanFramesMatchDiskAlways == Spec => []CleanFramesMatchDisk
<1>1. PoolInv => CleanFramesMatchDisk
  BY DEF PoolInv, CleanFramesMatchDisk
<1> QED
  BY <1>1, PoolInvariant, PTL

-----------------------------------------------------------------------------
(* The list and the table.                                                  *)

\* The list has the node of every frame once.
PoolList ==
  /\ lru \in Seq(Pages)
  /\ IsInjective(lru)
  /\ ToSet(lru) = resident
  /\ Cardinality(resident) <= MAX_BUFFER_SIZE

\* A frame moved to the end of the list.
LEMMA MovedBackElements ==
  ASSUME NEW p \in Pages, lru \in Seq(Pages), IsInjective(lru)
  PROVE  LET s == Append(Without(lru, {p}), p) IN
         s \in Seq(Pages) /\ IsInjective(s) /\ ToSet(s) = ToSet(lru) \cup {p}
<1> DEFINE t == Without(lru, {p})
<1>1. t \in Seq(Pages) /\ IsInjective(t) /\ ToSet(t) = ToSet(lru) \ {p}
  BY WithoutElements
<1> HIDE DEF t
<1>2. p \notin ToSet(t)
  BY <1>1
<1>3. /\ Append(t, p) \in Seq(Pages) /\ IsInjective(Append(t, p))
      /\ ToSet(Append(t, p)) = ToSet(t) \cup {p}
  BY <1>1, <1>2, AppendOnce
<1> QED
  BY <1>1, <1>3 DEF t

LEMMA InitPoolList == Init => PoolList
<1> SUFFICES ASSUME Init PROVE PoolList
  OBVIOUS
<1>1. lru = <<>> /\ resident = {}
  BY DEF Init
<1>2. ToSet(lru) = {} /\ IsInjective(lru) /\ lru \in Seq(Pages)
  BY <1>1 DEF ToSet, IsInjective
<1>3. Cardinality(resident) = 0
  BY <1>1, FS_EmptySet
<1> QED
  BY <1>1, <1>2, <1>3, BufferPoolAssumption DEF PoolList

\* Every operation keeps the list and the table together.
LEMMA NextPoolList == PoolTypes /\ PoolList /\ [Next]_vars => PoolList'
<1> SUFFICES ASSUME PoolTypes, PoolList, [Next]_vars PROVE PoolList'
  OBVIOUS
<1>0. /\ lru \in Seq(Pages) /\ IsInjective(lru) /\ ToSet(lru) = resident
      /\ Cardinality(resident) <= MAX_BUFFER_SIZE
      /\ IsFiniteSet(resident) /\ Cardinality(resident) \in Nat
  BY OnceLength, FS_CardinalityType DEF PoolList
<1>a. ASSUME NEW p \in resident, lru' = MovedBack(p), UNCHANGED resident PROVE PoolList'
  <2>1. p \in Pages /\ ToSet(lru) \cup {p} = resident
    BY <1>0 DEF PoolTypes
  <2> QED
    BY <1>0, <1>a, <2>1, MovedBackElements DEF PoolList, MovedBack
<1>b. ASSUME NEW S, Release(S) PROVE PoolList'
  <2>1. lru' = Without(lru, S) /\ resident' = resident \ S
    BY <1>b DEF Release
  <2>2. Cardinality(resident \ S) <= Cardinality(resident)
    BY <1>0, FS_Subset
  <2>3. Cardinality(resident \ S) \in Nat
    BY <1>0, FS_Subset, FS_CardinalityType
  <2> QED
    BY <1>0, <2>1, <2>2, <2>3, WithoutElements, BufferPoolAssumption DEF PoolList
<1>1. ASSUME NEW p \in Pages, LoadHit(p) PROVE PoolList'
  BY <1>1, <1>a DEF LoadHit
<1>2. ASSUME NEW p \in Pages, LoadMiss(p) PROVE PoolList'
  <2>1. p \notin ToSet(lru) /\ lru' = Append(lru, p) /\ resident' = resident \cup {p}
    BY <1>0, <1>2 DEF LoadMiss
  <2>2. Cardinality(resident \cup {p}) = Cardinality(resident) + 1
    BY <1>0, <2>1, FS_AddElement
  <2>3. Cardinality(resident \cup {p}) <= MAX_BUFFER_SIZE
    BY <1>0, <1>2, <2>2, BufferPoolAssumption DEF LoadMiss
  <2> QED
    BY <1>0, <2>1, <2>3, AppendOnce DEF PoolList
<1>3. ASSUME NEW p \in Pages, LoadEvict(p) PROVE PoolList'
  <2>1. PICK v \in resident : /\ lru' = Append(Without(lru, {v}), p)
                             /\ resident' = (resident \ {v}) \cup {p}
    BY <1>3 DEF LoadEvict
  <2> DEFINE t == Without(lru, {v})
  <2>2. t \in Seq(Pages) /\ IsInjective(t) /\ ToSet(t) = resident \ {v}
    BY <1>0, WithoutElements
  <2>3. p \notin resident /\ Cardinality(resident) = MAX_BUFFER_SIZE
    BY <1>3 DEF LoadEvict
  <2>4. Cardinality(resident') = Cardinality(resident)
    <3>1. IsFiniteSet(resident \ {v}) /\ Cardinality(resident \ {v}) = Cardinality(resident) - 1
      BY <1>0, FS_RemoveElement
    <3>2. Cardinality((resident \ {v}) \cup {p}) = (Cardinality(resident) - 1) + 1
      BY <2>3, <3>1, FS_AddElement
    <3> QED
      BY <1>0, <2>1, <3>2
  <2> HIDE DEF t
  <2>5. /\ Append(t, p) \in Seq(Pages) /\ IsInjective(Append(t, p))
        /\ ToSet(Append(t, p)) = (resident \ {v}) \cup {p}
    BY <2>2, <2>3, AppendOnce
  <2>6. lru' = Append(t, p)
    BY <2>1 DEF t
  <2> QED
    BY <1>0, <2>1, <2>4, <2>5, <2>6 DEF PoolList
<1>4. ASSUME NEW p \in Pages, MarkDirty(p) \/ UnpinPage(p) PROVE PoolList'
  BY <1>4 DEF MarkDirty, UnpinPage, PoolList
<1>5. ASSUME NEW p \in Pages, ForcePage(p) PROVE PoolList'
  BY <1>5, <1>a DEF ForcePage
<1>6. ASSUME NEW p \in Pages, NEW c \in Contents, Write(p, c) PROVE PoolList'
  BY <1>6 DEF Write, PoolList
<1>7. ASSUME NEW f \in Files, ForceAllPages(f) PROVE PoolList'
  <2> DEFINE S == resident \cap PagesOf(f)
             t == Without(lru, S)
  <2>1. PICK order \in SetToSeqs(S) : lru' = t \o order
    BY <1>7 DEF ForceAllPages
  <2>2. resident' = resident
    BY <1>7 DEF ForceAllPages
  <2>3. t \in Seq(Pages) /\ IsInjective(t) /\ ToSet(t) = resident \ S
    BY <1>0, WithoutElements
  <2>4. IsFiniteSet(S) /\ S \in SUBSET Pages /\ S \subseteq resident
    BY <1>0, FS_Subset DEF PoolTypes
  <2> HIDE DEF S, t
  <2>5. /\ t \o order \in Seq(Pages) /\ IsInjective(t \o order)
        /\ ToSet(t \o order) = (resident \ S) \cup S
    BY <2>3, <2>4, AppendedElements
  <2>6. (resident \ S) \cup S = resident
    BY <2>4
  <2> QED
    BY <1>0, <2>1, <2>2, <2>5, <2>6 DEF PoolList
<1>8. ASSUME NEW f \in Files, CloseFile(f) PROVE PoolList'
  BY <1>8, <1>b DEF CloseFile
<1>9. CASE Shutdown
  BY <1>9, <1>b DEF Shutdown
<1>10. CASE UNCHANGED vars
  BY <1>10 DEF vars, pool, PoolList
<1> QED
  BY <1>1, <1>2, <1>3, <1>4, <1>5, <1>6, <1>7, <1>8, <1>9, <1>10 DEF Next

LEMMA PoolListInvariant == Spec => [](PoolTypes /\ PoolList)
<1>1. PoolInv => PoolTypes
  BY DEF PoolInv
<1>2. Spec => []PoolTypes
  BY <1>1, PoolInvariant, PTL
<1> QED
  BY <1>2, InitPoolList, NextPoolList, PTL DEF Spec

\* Every variable of the pool keeps its type.
THEOREM PoolTypeCorrect == Spec => []TypeOK
<1>1. PoolTypes /\ PoolList => TypeOK
  BY DEF PoolTypes, PoolList, TypeOK
<1> QED
  BY <1>1, PoolListInvariant, PTL

\* The list that commitOnePage walks has every frame of the table once, and there are
\* never more than MAX_BUFFER_SIZE.
THEOREM ListMatchesTableAlways == Spec => []ListMatchesTable
<1>1. PoolTypes /\ PoolList => ListMatchesTable
  BY OnceLength DEF PoolList, ListMatchesTable
<1> QED
  BY <1>1, PoolListInvariant, PTL

\* A load drops at most one frame: the least recently used of those not pinned.
THEOREM LoadSparesPinnedAlways == Spec => LoadSparesPinned
<1> DEFINE Spares ==
      resident' \ resident # {} =>
        \A v \in resident \ resident' :
          /\ v \notin pinned
          /\ resident \ resident' = {v}
          /\ \A k, m \in 1 .. Len(lru) : lru[k] = v /\ m < k => lru[m] \in pinned
<1>1. ASSUME PoolTypes, PoolList, [Next]_vars PROVE [Spares]_vars
  <2>1. ASSUME NEW p \in Pages, LoadEvict(p) PROVE Spares
    <3>1. PICK v \in resident : Victim(v) /\ resident' = (resident \ {v}) \cup {p}
      BY <2>1 DEF LoadEvict
    <3>2. resident \ resident' = {v}
      BY <2>1, <3>1 DEF LoadEvict
    <3>3. v \notin pinned
      BY <3>1 DEF Victim
    <3>4. PICK i \in 1 .. Len(lru) : lru[i] = v /\ \A m \in 1 .. i - 1 : lru[m] \in pinned
      BY <3>1 DEF Victim
    <3>5. \A k \in 1 .. Len(lru) : lru[k] = v => k = i
      BY <1>1, <3>4 DEF PoolList, IsInjective
    <3>6. \A m \in 1 .. Len(lru) : m < i => m \in 1 .. i - 1
      OBVIOUS
    <3> QED
      BY <3>2, <3>3, <3>4, <3>5, <3>6
  <2>2. ASSUME NEW p \in Pages, LoadMiss(p) PROVE Spares
    BY <2>2 DEF LoadMiss
  <2>3. ASSUME NEW S, Release(S) PROVE Spares
    BY <2>3 DEF Release
  <2>4. ASSUME UNCHANGED resident PROVE Spares
    BY <2>4
  <2> HIDE DEF Spares
  <2>5. ASSUME NEW p \in Pages,
               LoadHit(p) \/ MarkDirty(p) \/ UnpinPage(p) \/ ForcePage(p)
                 \/ \E c \in Contents : Write(p, c)
        PROVE  Spares
    BY <2>5, <2>4 DEF LoadHit, MarkDirty, UnpinPage, ForcePage, Write
  <2>6. ASSUME NEW f \in Files, ForceAllPages(f) \/ CloseFile(f) PROVE Spares
    BY <2>6, <2>3, <2>4 DEF ForceAllPages, CloseFile
  <2>7. CASE Shutdown
    BY <2>7, <2>3 DEF Shutdown
  <2> QED
    BY <1>1, <2>1, <2>2, <2>5, <2>6, <2>7 DEF Next
<1>2. PoolTypes /\ PoolList /\ [Next]_vars => [Spares]_vars
  BY <1>1
<1>3. Spec => [][Spares]_vars
  BY <1>2, PoolListInvariant, PTL DEF Spec
<1> QED
  BY <1>3 DEF LoadSparesPinned
=============================================================================
