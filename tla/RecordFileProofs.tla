-------------------------- MODULE RecordFileProofs --------------------------
(***************************************************************************)
(* RecordFile and RecordScan, for every page size and any number of pages. *)
(*                                                                         *)
(* The bitmap, the counts and the free list hold each other up.  Because   *)
(* the list holds exactly the pages with room, allocateRec stops at its    *)
(* first page (StopsAtHead); because it stops there, the page to unlink    *)
(* when it fills up is always the head, the only one the code can unlink.  *)
(*                                                                         *)
(* A scan returns each record that matched when it was opened exactly      *)
(* once, in every file, whatever is done to the records it has returned:   *)
(* what happens during a scan happens behind the cursor.                   *)
(***************************************************************************)
EXTENDS RecordScan, FiniteSetTheorems, TLAPS

FreeOf(p) == {s \in Slots : <<p, s>> \notin used}

FileInv ==
  /\ TypeOK
  /\ BitmapMatchesAlive
  /\ used \subseteq Allocated \X Slots
  /\ EmptySlotCounts
  /\ FreeListExact

-----------------------------------------------------------------------------
(***************************************************************************)
(* Counting the empty slots of one page.                                   *)
(***************************************************************************)
LEMMA SlotsFinite == IsFiniteSet(Slots) /\ Cardinality(Slots) = slotPerPage
<1>1. 0 \in Int /\ slotPerPage - 1 \in Int /\ slotPerPage \in Nat \ {0}
  BY RecordFileAssumption
<1>2. /\ IsFiniteSet(0 .. slotPerPage - 1)
      /\ Cardinality(0 .. slotPerPage - 1) =
           IF 0 > slotPerPage - 1 THEN 0 ELSE slotPerPage - 1 - 0 + 1
  BY <1>1, FS_Interval
<1> QED
  BY <1>1, <1>2 DEF Slots

LEMMA FreeOfCount ==
  ASSUME NEW F \in SUBSET Slots
  PROVE  /\ IsFiniteSet(F)
         /\ Cardinality(F) \in 0 .. slotPerPage
         /\ Cardinality(F) > 0 <=> F # {}
<1>1. IsFiniteSet(F) /\ Cardinality(F) <= slotPerPage
  BY SlotsFinite, FS_Subset
<1>2. Cardinality(F) \in Nat /\ (Cardinality(F) = 0 <=> F = {})
  BY <1>1, FS_CardinalityType, FS_EmptySet
<1> QED
  BY <1>1, <1>2, RecordFileAssumption

\* The count of an allocated page says whether it has room.
LEMMA RoomIsCounted ==
  ASSUME FileInv, NEW p \in Allocated
  PROVE  emptySlot[p] > 0 <=> HasRoom(p)
<1>1. emptySlot[p] = Cardinality(FreeOf(p)) /\ FreeOf(p) \in SUBSET Slots
  BY DEF FileInv, EmptySlotCounts, FreeOf
<1>2. FreeOf(p) # {} <=> HasRoom(p)
  BY DEF FreeOf, HasRoom
<1> QED
  BY <1>1, <1>2, FreeOfCount

\* The first page of the list has room.
LEMMA HeadHasRoom ==
  ASSUME FileInv, firstEmptyPage # 0
  PROVE  /\ firstEmptyPage \in Allocated
         /\ HasRoom(firstEmptyPage)
         /\ emptySlot[firstEmptyPage] > 0
<1>1. PICK n \in 0 .. MAX_PAGES  : \E stack \in [1 .. n -> Pages] : FreeListIs(n, stack)
  BY DEF FileInv, FreeListExact
<1>2. PICK stack \in [1 .. n -> Pages] : FreeListIs(n, stack)
  BY <1>1
<1>3. n # 0 /\ firstEmptyPage = stack[1] /\ 1 \in 1 .. n
  BY <1>2, RecordFileAssumption DEF FreeListIs
<1>4. firstEmptyPage \in Allocated /\ emptySlot[firstEmptyPage] > 0
  BY <1>2, <1>3 DEF FreeListIs
<1> QED
  BY <1>4, RoomIsCounted

\* The loop of allocateRec looks at one page only: it takes the head, or finds the list
\* empty, and in that case every page is full.
LEMMA StopsAtHead ==
  ASSUME FileInv, NEW p \in 0 .. MAX_PAGES, StopsAt(p)
  PROVE  p = firstEmptyPage
<1>1. PICK n \in 1 .. MAX_PAGES + 1 : \E path \in [1 .. n -> 0 .. MAX_PAGES] :
        /\ path[1] = firstEmptyPage
        /\ \A k \in 1 .. n - 1 : path[k] # 0 /\ ~HasRoom(path[k])
        /\ path[n] = p
  BY DEF StopsAt
<1>2. PICK path \in [1 .. n -> 0 .. MAX_PAGES] :
        /\ path[1] = firstEmptyPage
        /\ \A k \in 1 .. n - 1 : path[k] # 0 /\ ~HasRoom(path[k])
        /\ path[n] = p
  BY <1>1
<1>3. n = 1
  <2> SUFFICES ASSUME n # 1 PROVE FALSE
    OBVIOUS
  <2>1. 1 \in 1 .. n - 1
    OBVIOUS
  <2>2. firstEmptyPage # 0 /\ ~HasRoom(firstEmptyPage)
    BY <1>2, <2>1
  <2> QED
    BY <2>2, HeadHasRoom
<1> QED
  BY <1>2, <1>3

LEMMA EmptyListMeansFull ==
  ASSUME FileInv, firstEmptyPage = 0
  PROVE  \A p \in Allocated : emptySlot[p] = 0 /\ ~HasRoom(p)
<1>1. PICK n \in 0 .. MAX_PAGES  : \E stack \in [1 .. n -> Pages] : FreeListIs(n, stack)
  BY DEF FileInv, FreeListExact
<1>2. PICK stack \in [1 .. n -> Pages] : FreeListIs(n, stack)
  BY <1>1
<1>3. n = 0
  BY <1>2, RecordFileAssumption DEF FreeListIs, Pages
<1>4. {p \in Allocated : emptySlot[p] > 0} = {}
  BY <1>2, <1>3 DEF FreeListIs
<1>5. ASSUME NEW p \in Allocated PROVE emptySlot[p] = 0 /\ ~HasRoom(p)
  <2>1. p \in Pages /\ emptySlot[p] \in 0 .. slotPerPage
    BY RecordFileAssumption DEF FileInv, TypeOK, Allocated, Pages
  <2>2. ~(emptySlot[p] > 0)
    BY <1>4
  <2> QED
    BY <2>1, <2>2, RoomIsCounted, RecordFileAssumption
<1> QED
  BY <1>5

-----------------------------------------------------------------------------
LEMMA InitFileInv == Init => FileInv
<1> SUFFICES ASSUME Init PROVE FileInv
  OBVIOUS
<1> USE RecordFileAssumption DEF Init
<1>1. Allocated = {}
  BY DEF Allocated
<1>2. TypeOK
  BY DEF TypeOK
<1>3. BitmapMatchesAlive
  BY DEF BitmapMatchesAlive
<1>4. EmptySlotCounts
  BY <1>1 DEF EmptySlotCounts
<1>5. FreeListExact
  <2> DEFINE stack == [k \in 1 .. 0 |-> 1]
  <2>1. 1 .. 0 = {}
    OBVIOUS
  <2>2. stack \in [1 .. 0 -> Pages]
    BY <2>1
  <2>3. FreeListIs(0, stack)
    BY <1>1, <2>1 DEF FreeListIs
  <2>4. 0 \in 0 .. MAX_PAGES
    OBVIOUS
  <2> HIDE DEF stack
  <2> QED
    BY <2>2, <2>3, <2>4 DEF FreeListExact
<1> QED
  BY <1>1, <1>2, <1>3, <1>4, <1>5 DEF FileInv

\* Insertion into the head of the list, which leaves the list when it becomes full.
LEMMA InsertInPageInv ==
  ASSUME FileInv, NEW p \in Pages, NEW v \in Values, InsertInPage(p, v)
  PROVE  FileInv'
<1> USE RecordFileAssumption
<1>1. p = firstEmptyPage /\ p # 0
  BY StopsAtHead DEF InsertInPage, Pages
<1>2. p \in Allocated /\ emptySlot[p] > 0 /\ emptySlot[p] \in 0 .. slotPerPage
  BY <1>1, HeadHasRoom DEF FileInv, TypeOK
<1>3. PICK s \in Slots :
        /\ <<p, s>> \notin used
        /\ used' = used \cup {<<p, s>>}
        /\ rec' = [rec EXCEPT ![<<p, s>>] = v]
  BY DEF InsertInPage, LowestFree
<1>4. /\ emptySlot' = [emptySlot EXCEPT ![p] = @ - 1]
      /\ firstEmptyPage' = IF emptySlot[p] = 1 THEN nextPage[p] ELSE firstEmptyPage
      /\ totalPageNum' = totalPageNum /\ nextPage' = nextPage
  BY <1>1 DEF InsertInPage
<1>5. <<p, s>> \in RIDs /\ v # Dead
  BY DEF RIDs
<1>6. TypeOK'
  BY <1>2, <1>3, <1>4, <1>5 DEF FileInv, TypeOK
<1>7. BitmapMatchesAlive'
  BY <1>3, <1>5 DEF FileInv, TypeOK, BitmapMatchesAlive
<1>8. Allocated' = Allocated /\ used' \subseteq Allocated \X Slots
  BY <1>2, <1>3, <1>4 DEF FileInv, Allocated
<1>9. EmptySlotCounts'
  <2>1. ASSUME NEW q \in Allocated PROVE emptySlot'[q] = Cardinality(FreeOf(q)')
    <3>1. q \in Pages /\ emptySlot[q] = Cardinality(FreeOf(q)) /\ FreeOf(q) \subseteq Slots
      BY DEF FileInv, TypeOK, EmptySlotCounts, FreeOf, Allocated, Pages
    <3>2. CASE q = p
      <4>1. FreeOf(q)' = FreeOf(q) \ {s} /\ s \in FreeOf(q)
        BY <1>3, <3>2 DEF FreeOf
      <4>2. Cardinality(FreeOf(q)') = Cardinality(FreeOf(q)) - 1
        BY <3>1, <4>1, FreeOfCount, FS_RemoveElement
      <4> QED
        BY <4>2, <3>1, <3>2, <1>4 DEF FileInv, TypeOK
    <3>3. CASE q # p
      <4>1. FreeOf(q)' = FreeOf(q)
        BY <1>3, <3>3 DEF FreeOf
      <4> QED
        BY <4>1, <3>1, <3>3, <1>4 DEF FileInv, TypeOK
    <3> QED
      BY <3>2, <3>3
  <2> QED
    BY <2>1, <1>8 DEF EmptySlotCounts, FreeOf
<1>10. FreeListExact'
  <2>1. PICK n \in 0 .. MAX_PAGES : \E stack \in [1 .. n -> Pages] : FreeListIs(n, stack)
    BY DEF FileInv, FreeListExact
  <2>2. PICK stack \in [1 .. n -> Pages] : FreeListIs(n, stack)
    BY <2>1
  <2>3. n # 0 /\ 1 \in 1 .. n /\ p = stack[1]
    BY <1>1, <2>2 DEF FreeListIs
  <2>4. CASE emptySlot[p] = 1
    <3> DEFINE m == n - 1
               rest == [k \in 1 .. m |-> stack[k + 1]]
    <3>1. m \in 0 .. MAX_PAGES /\ \A k \in 1 .. m : k + 1 \in 2 .. n
      BY <2>3
    <3>2. rest \in [1 .. m -> Pages]
      BY <3>1
    <3>3. firstEmptyPage' = IF m = 0 THEN 0 ELSE rest[1]
      BY <1>4, <2>2, <2>3, <2>4 DEF FreeListIs
    <3>4. \A k \in 1 .. m : nextPage'[rest[k]] = IF k = m THEN 0 ELSE rest[k + 1]
      BY <1>4, <2>2, <3>1 DEF FreeListIs
    <3>5. \A k, l \in 1 .. m : rest[k] = rest[l] => k = l
      BY <2>2, <3>1 DEF FreeListIs
    <3>6. {rest[k] : k \in 1 .. m} = {q \in Allocated' : emptySlot'[q] > 0}
      <4>1. ASSUME NEW k \in 1 .. m
            PROVE  rest[k] \in Allocated /\ emptySlot'[rest[k]] > 0
        <5>1. stack[k + 1] # stack[1]
          BY <2>2, <2>3, <3>1 DEF FreeListIs
        <5> QED
          BY <5>1, <2>2, <2>3, <3>1, <1>4 DEF FreeListIs, FileInv, TypeOK
      <4>2. ASSUME NEW q \in Allocated, emptySlot'[q] > 0
            PROVE  \E k \in 1 .. m : q = rest[k]
        <5>1. q \in Pages
          BY DEF FileInv, TypeOK, Allocated, Pages
        <5>2. q # p
          BY <5>1, <4>2, <2>4, <1>4 DEF FileInv, TypeOK
        <5>3. emptySlot[q] > 0
          BY <5>1, <5>2, <4>2, <1>4 DEF FileInv, TypeOK
        <5>4. PICK k \in 1 .. n : stack[k] = q
          BY <5>3, <2>2 DEF FreeListIs
        <5>5. k # 1 /\ k - 1 \in 1 .. m /\ rest[k - 1] = q
          BY <5>2, <5>4, <2>3
        <5> QED
          BY <5>5
      <4> QED
        BY <4>1, <4>2, <1>8
    <3>7. FreeListIs(m, rest)'
      BY <3>3, <3>4, <3>5, <3>6 DEF FreeListIs
    <3> QED
      BY <3>1, <3>2, <3>7 DEF FreeListExact
  <2>5. CASE emptySlot[p] # 1
    <3>1. \A q \in Allocated : emptySlot'[q] > 0 <=> emptySlot[q] > 0
      BY <1>2, <1>4, <2>5 DEF FileInv, TypeOK, Allocated, Pages
    <3>2. FreeListIs(n, stack)'
      BY <2>2, <2>5, <3>1, <1>4, <1>8 DEF FreeListIs
    <3> QED
      BY <3>2 DEF FreeListExact
  <2> QED
    BY <2>4, <2>5
<1> QED
  BY <1>6, <1>7, <1>8, <1>9, <1>10 DEF FileInv

\* Insertion into a new page: the list was empty, and holds the new page unless its only
\* slot is already taken.
LEMMA InsertInNewPageInv ==
  ASSUME FileInv, NEW v \in Values, InsertInNewPage(v)
  PROVE  FileInv'
<1> USE RecordFileAssumption
<1>1. firstEmptyPage = 0 /\ totalPageNum \in Pages
  <2>1. firstEmptyPage = 0
    BY StopsAtHead DEF InsertInNewPage
  <2>2. totalPageNum \in Pages
    BY DEF InsertInNewPage, FileInv, TypeOK, Pages
  <2> QED
    BY <2>1, <2>2
<1>p. PICK p \in Pages : p = totalPageNum
  BY <1>1
<1>2. /\ totalPageNum' = p + 1
      /\ nextPage' = [nextPage EXCEPT ![p] = 0]
      /\ emptySlot' = [emptySlot EXCEPT ![p] = slotPerPage - 1]
      /\ used' = (used \ ({p} \X Slots)) \cup {<<p, 0>>}
      /\ rec' = [rec EXCEPT ![<<p, 0>>] = v]
      /\ firstEmptyPage' = IF slotPerPage = 1 THEN 0 ELSE p
  BY <1>1, <1>p DEF InsertInNewPage
<1>3. p \notin Allocated /\ Allocated' = Allocated \cup {p} /\ Allocated \subseteq Pages
  BY <1>p, <1>2 DEF FileInv, TypeOK, Allocated, Pages
<1>4. 0 \in Slots /\ <<p, 0>> \in RIDs /\ v # Dead
  BY DEF RIDs, Slots
<1>5. used' = used \cup {<<p, 0>>}
  BY <1>2, <1>3 DEF FileInv
<1>6. TypeOK'
  <2>1. totalPageNum' \in 1 .. MAX_PAGES + 1
    BY <1>2 DEF Pages
  <2>2. firstEmptyPage' \in 0 .. MAX_PAGES
    BY <1>2 DEF Pages
  <2>3. nextPage' \in [Pages -> 0 .. MAX_PAGES] /\ emptySlot' \in [Pages -> 0 .. slotPerPage]
    BY <1>2 DEF FileInv, TypeOK
  <2>4. used' \subseteq RIDs /\ rec' \in [RIDs -> Values \cup {Dead}]
    BY <1>2, <1>4, <1>5 DEF FileInv, TypeOK
  <2> QED
    BY <2>1, <2>2, <2>3, <2>4 DEF TypeOK
<1>7. BitmapMatchesAlive'
  BY <1>2, <1>4, <1>5 DEF FileInv, TypeOK, BitmapMatchesAlive
<1>8. used' \subseteq Allocated' \X Slots
  BY <1>3, <1>4, <1>5 DEF FileInv
<1>9. EmptySlotCounts'
  <2>1. ASSUME NEW q \in Allocated' PROVE emptySlot'[q] = Cardinality(FreeOf(q)')
    <3>1. CASE q = p
      <4>1. FreeOf(q)' = Slots \ {0}
        BY <3>1, <1>3, <1>5 DEF FreeOf, FileInv
      <4>2. Cardinality(Slots \ {0}) = slotPerPage - 1
        BY <1>4, SlotsFinite, FS_RemoveElement
      <4> QED
        BY <4>1, <4>2, <3>1, <1>1, <1>2 DEF FileInv, TypeOK
    <3>2. CASE q # p
      <4>1. q \in Allocated /\ FreeOf(q)' = FreeOf(q)
        BY <3>2, <1>3, <1>5 DEF FreeOf
      <4>2. emptySlot[q] = Cardinality(FreeOf(q))
        BY <4>1 DEF FileInv, EmptySlotCounts, FreeOf
      <4> QED
        BY <4>1, <4>2, <3>2, <1>2, <1>3 DEF FileInv, TypeOK
    <3> QED
      BY <3>1, <3>2
  <2> QED
    BY <2>1 DEF EmptySlotCounts, FreeOf
<1>10. FreeListExact'
  <2>1. \A q \in Allocated : emptySlot'[q] = 0
    BY <1>1, <1>2, <1>3, EmptyListMeansFull DEF FileInv, TypeOK
  <2>2. emptySlot'[p] = slotPerPage - 1 /\ nextPage'[p] = 0
    BY <1>1, <1>2 DEF FileInv, TypeOK
  <2>3. CASE slotPerPage = 1
    <3> DEFINE stack == [k \in 1 .. 0 |-> 1]
    <3>1. stack \in [1 .. 0 -> Pages] /\ 1 .. 0 = {} /\ 0 \in 0 .. MAX_PAGES
      OBVIOUS
    <3>2. FreeListIs(0, stack)'
      BY <2>1, <2>2, <2>3, <1>2, <1>3 DEF FreeListIs
    <3> HIDE DEF stack
    <3> QED
      BY <3>1, <3>2 DEF FreeListExact
  <2>4. CASE slotPerPage # 1
    <3> DEFINE stack == [k \in 1 .. 1 |-> p]
    <3>1. stack \in [1 .. 1 -> Pages] /\ 1 .. 1 = {1} /\ 1 \in 0 .. MAX_PAGES
      BY <1>1 DEF Pages
    <3>2. {stack[k] : k \in 1 .. 1} = {q \in Allocated' : emptySlot'[q] > 0}
      BY <2>1, <2>2, <2>4, <1>3
    <3>3. FreeListIs(1, stack)'
      BY <2>2, <2>4, <3>1, <3>2, <1>2 DEF FreeListIs
    <3> HIDE DEF stack
    <3> QED
      BY <3>1, <3>3 DEF FreeListExact
  <2> QED
    BY <2>3, <2>4
<1> QED
  BY <1>6, <1>7, <1>8, <1>9, <1>10 DEF FileInv

\* A step that touches neither the page headers nor the bitmaps.
LEMMA SameListInv ==
  ASSUME FileInv, UNCHANGED <<firstEmptyPage, totalPageNum, nextPage, emptySlot, used>>,
         rec' \in [RIDs -> Values \cup {Dead}], BitmapMatchesAlive'
  PROVE  FileInv'
<1>1. TypeOK' /\ Allocated' = Allocated
  BY DEF FileInv, TypeOK, Allocated
<1>2. EmptySlotCounts'
  BY <1>1 DEF FileInv, EmptySlotCounts
<1>3. FreeListExact'
  BY <1>1 DEF FileInv, FreeListExact, FreeListIs
<1> QED
  BY <1>1, <1>2, <1>3 DEF FileInv

LEMMA UpdateRecInv ==
  ASSUME FileInv, NEW r \in RIDs, NEW v \in Values, UpdateRec(r, v)
  PROVE  FileInv'
<1>1. rec' \in [RIDs -> Values \cup {Dead}]
  BY DEF UpdateRec, FileInv, TypeOK
<1>2. BitmapMatchesAlive'
  BY RecordFileAssumption DEF UpdateRec, FileInv, TypeOK, BitmapMatchesAlive
<1> QED
  BY <1>1, <1>2, SameListInv DEF UpdateRec

\* Distinct pages fill at most MAX_PAGES places: the list has room for one that was full.
LEMMA ListBounded ==
  ASSUME NEW n \in Nat, NEW stack \in [1 .. n -> Pages],
         \A k, m \in 1 .. n : stack[k] = stack[m] => k = m
  PROVE  n <= MAX_PAGES
<1>1. stack \in Injection(1 .. n, Pages)
  BY DEF Injection, IsInjective
<1>2. IsFiniteSet(Pages) /\ Cardinality(Pages) = MAX_PAGES
  <2>1. 1 \in Int /\ MAX_PAGES \in Int /\ MAX_PAGES \in Nat
    BY RecordFileAssumption
  <2> QED
    BY <2>1, FS_Interval DEF Pages
<1>3. Cardinality(1 .. n) = n
  <2>1. 1 \in Int /\ n \in Int
    OBVIOUS
  <2> QED
    BY <2>1, FS_Interval
<1>4. Cardinality(1 .. n) <= Cardinality(Pages)
  BY <1>1, <1>2, FS_Injection
<1> QED
  BY <1>2, <1>3, <1>4

\* Deletion: a page that was full is not in the list, and is pushed on it.
LEMMA DeleteRecInv == ASSUME FileInv, NEW r \in RIDs, DeleteRec(r) PROVE FileInv'
<1> USE RecordFileAssumption
<1>1. PICK p \in Pages, s \in Slots : r = <<p, s>> /\ r[1] = p
  BY DEF RIDs
<1>2. r \in used /\ p \in Allocated
  BY <1>1 DEF DeleteRec, FileInv, BitmapMatchesAlive
<1>3. /\ emptySlot' = [emptySlot EXCEPT ![p] = @ + 1]
      /\ used' = used \ {r}
      /\ rec' = [rec EXCEPT ![r] = Dead]
      /\ totalPageNum' = totalPageNum /\ Allocated' = Allocated
  BY <1>1 DEF DeleteRec, Allocated
<1>4. Allocated \subseteq Pages /\ emptySlot[p] \in 0 .. slotPerPage
  BY DEF FileInv, TypeOK, Allocated, Pages
<1>5. ASSUME NEW q \in Allocated PROVE emptySlot'[q] = Cardinality(FreeOf(q)')
  <2>1. emptySlot[q] = Cardinality(FreeOf(q)) /\ FreeOf(q) \subseteq Slots
    BY DEF FileInv, EmptySlotCounts, FreeOf
  <2>2. CASE q = p
    <3>1. FreeOf(q)' = FreeOf(q) \cup {s} /\ s \notin FreeOf(q)
      BY <1>1, <1>2, <1>3, <2>2 DEF FreeOf
    <3>2. Cardinality(FreeOf(q)') = Cardinality(FreeOf(q)) + 1
      BY <2>1, <3>1, FreeOfCount, FS_AddElement
    <3> QED
      BY <3>2, <2>1, <2>2, <1>3, <1>4 DEF FileInv, TypeOK
  <2>3. CASE q # p
    <3>1. FreeOf(q)' = FreeOf(q)
      BY <1>1, <1>3, <2>3 DEF FreeOf
    <3> QED
      BY <3>1, <2>1, <2>3, <1>3, <1>4 DEF FileInv, TypeOK
  <2> QED
    BY <2>2, <2>3
<1>6. EmptySlotCounts'
  BY <1>3, <1>5 DEF EmptySlotCounts, FreeOf
<1>7. emptySlot'[p] \in 1 .. slotPerPage
  <2>1. FreeOf(p)' \in SUBSET Slots
    BY DEF FreeOf
  <2>2. Cardinality(FreeOf(p)') \in 0 .. slotPerPage
    BY <2>1, FreeOfCount
  <2>3. emptySlot'[p] = emptySlot[p] + 1
    BY <1>3 DEF FileInv, TypeOK
  <2>4. emptySlot'[p] = Cardinality(FreeOf(p)')
    BY <1>2, <1>5
  <2> QED
    BY <2>2, <2>3, <2>4, <1>4
<1>8. TypeOK'
  <2>1. emptySlot' \in [Pages -> 0 .. slotPerPage]
    BY <1>3, <1>7 DEF FileInv, TypeOK
  <2>2. nextPage' \in [Pages -> 0 .. MAX_PAGES] /\ firstEmptyPage' \in 0 .. MAX_PAGES
    <3>1. CASE emptySlot[p] = 0
      <4>1. nextPage' = [nextPage EXCEPT ![p] = firstEmptyPage] /\ firstEmptyPage' = p
        BY <1>1, <3>1 DEF DeleteRec
      <4> QED
        BY <4>1 DEF FileInv, TypeOK, Pages
    <3>2. CASE emptySlot[p] # 0
      <4>1. nextPage' = nextPage /\ firstEmptyPage' = firstEmptyPage
        BY <1>1, <3>2 DEF DeleteRec
      <4> QED
        BY <4>1 DEF FileInv, TypeOK
    <3> QED
      BY <3>1, <3>2
  <2> QED
    BY <2>1, <2>2, <1>3 DEF FileInv, TypeOK
<1>9. BitmapMatchesAlive' /\ used' \subseteq Allocated' \X Slots
  BY <1>3 DEF FileInv, TypeOK, BitmapMatchesAlive
<1>10. FreeListExact'
  <2>1. PICK n \in 0 .. MAX_PAGES : \E stack \in [1 .. n -> Pages] : FreeListIs(n, stack)
    BY DEF FileInv, FreeListExact
  <2>2. PICK stack \in [1 .. n -> Pages] : FreeListIs(n, stack)
    BY <2>1
  <2>3. CASE emptySlot[p] = 0
    <3>1. \A k \in 1 .. n : stack[k] # p
      BY <2>2, <2>3 DEF FreeListIs
    <3>2. nextPage' = [nextPage EXCEPT ![p] = firstEmptyPage] /\ firstEmptyPage' = p
      BY <1>1, <2>3 DEF DeleteRec
    <3> DEFINE m == n + 1
               more == [k \in 1 .. m |-> IF k = 1 THEN p ELSE stack[k - 1]]
    <3>3. m \in Nat /\ \A k \in 1 .. m : k # 1 => k - 1 \in 1 .. n
      OBVIOUS
    <3>4. more \in [1 .. m -> Pages]
      BY <3>3
    <3>5. \A k, l \in 1 .. m : more[k] = more[l] => k = l
      BY <3>1, <3>3, <2>2 DEF FreeListIs
    <3>6. m \in 0 .. MAX_PAGES
      <4> HIDE DEF m, more
      <4>1. m <= MAX_PAGES
        BY <3>3, <3>4, <3>5, ListBounded
      <4> QED
        BY <4>1, <3>3
    <3>7. firstEmptyPage' = more[1]
      BY <3>2
    <3>8. ASSUME NEW k \in 1 .. m
          PROVE  nextPage'[more[k]] = IF k = m THEN 0 ELSE more[k + 1]
      <4>1. CASE k = 1
        BY <4>1, <3>2, <2>2 DEF FreeListIs, FileInv, TypeOK
      <4>2. CASE k # 1
        <5>1. more[k] = stack[k - 1] /\ k - 1 \in 1 .. n /\ stack[k - 1] # p
          BY <4>2, <3>1, <3>3
        <5>2. nextPage'[more[k]] = nextPage[stack[k - 1]]
          BY <5>1, <3>2 DEF FileInv, TypeOK
        <5>3. nextPage[stack[k - 1]] = IF k - 1 = n THEN 0 ELSE stack[k]
          BY <5>1, <2>2 DEF FreeListIs
        <5> QED
          BY <5>2, <5>3, <4>2
      <4> QED
        BY <4>1, <4>2
    <3>9. {more[k] : k \in 1 .. m} = {q \in Allocated' : emptySlot'[q] > 0}
      <4>1. ASSUME NEW k \in 1 .. m PROVE more[k] \in Allocated /\ emptySlot'[more[k]] > 0
        <5>1. CASE k = 1
          BY <5>1, <1>2, <1>7
        <5>2. CASE k # 1
          BY <5>2, <3>1, <3>3, <2>2, <1>3, <1>4 DEF FreeListIs, FileInv, TypeOK
        <5> QED
          BY <5>1, <5>2
      <4>2. ASSUME NEW q \in Allocated, emptySlot'[q] > 0
            PROVE  \E k \in 1 .. m : q = more[k]
        <5>1. CASE q = p
          <6>1. 1 \in 1 .. m /\ more[1] = p
            OBVIOUS
          <6> QED
            BY <6>1, <5>1
        <5>2. CASE q # p
          <6>1. emptySlot[q] > 0
            BY <5>2, <4>2, <1>3, <1>4 DEF FileInv, TypeOK
          <6>2. PICK k \in 1 .. n : stack[k] = q
            BY <6>1, <2>2 DEF FreeListIs
          <6>3. k + 1 \in 1 .. m /\ more[k + 1] = q
            BY <6>2
          <6> QED
            BY <6>3
        <5> QED
          BY <5>1, <5>2
      <4> QED
        BY <4>1, <4>2, <1>3
    <3>10. FreeListIs(m, more)'
      BY <3>5, <3>7, <3>8, <3>9 DEF FreeListIs
    <3> QED
      BY <3>4, <3>6, <3>10 DEF FreeListExact
  <2>4. CASE emptySlot[p] # 0
    <3>1. nextPage' = nextPage /\ firstEmptyPage' = firstEmptyPage
      BY <1>1, <2>4 DEF DeleteRec
    <3>2. \A q \in Allocated : emptySlot'[q] > 0 <=> emptySlot[q] > 0
      BY <2>4, <1>3, <1>4 DEF FileInv, TypeOK
    <3>3. FreeListIs(n, stack)'
      BY <3>1, <3>2, <2>2, <1>3 DEF FreeListIs
    <3> QED
      BY <3>3 DEF FreeListExact
  <2> QED
    BY <2>3, <2>4
<1> QED
  BY <1>6, <1>8, <1>9, <1>10 DEF FileInv

\* The invariant is inductive.
LEMMA NextFileInv == FileInv /\ [Next]_vars => FileInv'
<1> SUFFICES ASSUME FileInv, [Next]_vars PROVE FileInv'
  OBVIOUS
<1>1. CASE Next
  BY <1>1, InsertInNewPageInv, InsertInPageInv, UpdateRecInv, DeleteRecInv DEF Next
<1>2. CASE UNCHANGED vars
  BY <1>2, SameListInv DEF vars, FileInv, TypeOK, BitmapMatchesAlive
<1> QED
  BY <1>1, <1>2

LEMMA FileInvariant == Spec => []FileInv
BY InitFileInv, NextFileInv, PTL DEF Spec

\* The free list is a list of exactly the pages with an empty slot, for every page size
\* and however often pages fill up and empty.
THEOREM FreeListExactAlways == Spec => []FreeListExact
BY FileInvariant, PTL DEF FileInv

\* The bits of the bitmaps and the flags of the records never part.
THEOREM BitmapMatchesAliveAlways == Spec => []BitmapMatchesAlive
BY FileInvariant, PTL DEF FileInv

\* The counts of the page headers and the bitmaps never part.
THEOREM EmptySlotCountsAlways == Spec => []EmptySlotCounts
BY FileInvariant, PTL DEF FileInv

\* Types; in particular no count leaves 0 .. slotPerPage.
THEOREM TypeCorrect == Spec => []TypeOK
BY FileInvariant, PTL DEF FileInv

\* The file grows only when all its slots are taken: deleted space is always found again.
THEOREM GrowsOnlyWhenFullAlways == Spec => GrowsOnlyWhenFull
<1>1. ASSUME FileInv, [Next]_vars
      PROVE  totalPageNum' # totalPageNum =>
               \A p \in Allocated, s \in Slots : rec[<<p, s>>] # Dead
  <2> SUFFICES ASSUME totalPageNum' # totalPageNum, NEW p \in Allocated, NEW s \in Slots
               PROVE  rec[<<p, s>>] # Dead
    OBVIOUS
  <2>1. PICK v \in Values : InsertInNewPage(v)
    BY <1>1 DEF Next, vars, InsertInPage, UpdateRec, DeleteRec
  <2>2. firstEmptyPage = 0
    BY <1>1, <2>1, StopsAtHead, RecordFileAssumption DEF InsertInNewPage
  <2>3. <<p, s>> \in used
    BY <1>1, <2>2, EmptyListMeansFull DEF HasRoom
  <2> QED
    BY <1>1, <2>3 DEF FileInv, BitmapMatchesAlive
<1> QED
  BY <1>1, FileInvariant, PTL DEF Spec, GrowsOnlyWhenFull

\* One page header counts c records, and the others what they counted before.
LEMMA RecordsStep ==
  ASSUME NEW p \in Pages, NEW c \in Int,
         p \in Allocated', slotPerPage - emptySlot'[p] = c,
         \A q \in Pages \ {p} : /\ q \in Allocated' <=> q \in Allocated
                                /\ emptySlot'[q] = emptySlot[q]
  PROVE  Records' = [Records EXCEPT ![p] = c]
<1>1. \A q \in Pages : Records'[q] = IF q = p THEN c ELSE Records[q]
  BY DEF Records
<1>2. Records' = [q \in Pages |-> Records'[q]]
  BY DEF Records
<1>3. Records = [q \in Pages |-> Records[q]]
  BY DEF Records
<1> HIDE DEF Records
<1> QED
  BY <1>1, <1>2, <1>3

\* An insertion that a page header counts is an insertion of the abstract file.
LEMMA InsertMaps ==
  ASSUME FileInv, NEW p \in Pages, NEW s \in Slots, NEW v \in Values,
         <<p, s>> \notin used,
         rec' = [rec EXCEPT ![<<p, s>>] = v],
         Records' = [Records EXCEPT ![p] = @ + 1]
  PROVE  Abstract!Next
<1>1. <<p, s>> \in RIDs /\ <<p, s>>[1] = p
  BY DEF RIDs
<1>2. Abstract!Insert(<<p, s>>, v)
  BY <1>1 DEF FileInv, BitmapMatchesAlive, Abstract!Insert
<1> QED
  BY <1>1, <1>2 DEF Abstract!Next, Abstract!RIDs, RIDs

\* The record file implements HeapFile: the slot an insertion takes held no live record.
THEOREM Refinement == Spec => ImplementsHeapFile
<1> USE RecordFileAssumption
<1>1. Init => Abstract!Init
  BY DEF Init, Records, Allocated, RIDs, Abstract!Init, Abstract!RIDs
<1>2. ASSUME FileInv, [Next]_vars PROVE [Abstract!Next]_<<rec, Records>>
  <2>0. /\ Allocated \subseteq Pages /\ \A p \in Pages : emptySlot[p] \in 0 .. slotPerPage
        /\ emptySlot \in [Pages -> 0 .. slotPerPage]
    BY <1>2 DEF FileInv, TypeOK, Allocated, Pages
  <2>1. ASSUME NEW v \in Values, InsertInNewPage(v) PROVE Abstract!Next
    <3>1. totalPageNum \in Pages /\ 0 \in Slots
      BY <1>2, <2>1 DEF InsertInNewPage, FileInv, TypeOK, Pages, Slots
    <3>2. PICK p \in Pages : p = totalPageNum
      BY <3>1
    <3>3. /\ totalPageNum' = p + 1
          /\ emptySlot' = [emptySlot EXCEPT ![p] = slotPerPage - 1]
          /\ rec' = [rec EXCEPT ![<<p, 0>>] = v]
      BY <2>1, <3>2 DEF InsertInNewPage
    <3>4. p \notin Allocated /\ Allocated' = Allocated \cup {p}
      BY <3>2, <3>3 DEF Allocated, Pages
    <3>5. Records' = [Records EXCEPT ![p] = @ + 1]
      <4>1. Records[p] = 0 /\ emptySlot'[p] = slotPerPage - 1
        BY <2>0, <3>3, <3>4 DEF Records
      <4>2. Records' = [Records EXCEPT ![p] = 1]
        BY <2>0, <3>3, <3>4, <4>1, RecordsStep
      <4> QED
        BY <4>1, <4>2
    <3>6. <<p, 0>> \notin used
      BY <1>2, <3>4 DEF FileInv
    <3> QED
      BY <1>2, <3>1, <3>3, <3>5, <3>6, InsertMaps
  <2>2. ASSUME NEW v \in Values, NEW p \in Pages, InsertInPage(p, v) PROVE Abstract!Next
    <3>1. PICK s \in Slots : /\ <<p, s>> \notin used
                             /\ rec' = [rec EXCEPT ![<<p, s>>] = v]
      BY <2>2 DEF InsertInPage, LowestFree
    <3>2. p \in Allocated
      BY <1>2, <2>2, StopsAtHead, HeadHasRoom DEF InsertInPage, Pages
    <3>3. Allocated' = Allocated /\ emptySlot' = [emptySlot EXCEPT ![p] = @ - 1]
      BY <2>2 DEF InsertInPage, Allocated
    <3>4. Records' = [Records EXCEPT ![p] = @ + 1]
      <4>1. Records[p] = slotPerPage - emptySlot[p] /\ emptySlot'[p] = emptySlot[p] - 1
        BY <2>0, <3>2, <3>3 DEF Records
      <4>2. Records[p] \in Int /\ emptySlot[p] \in Int
        BY <2>0, <4>1
      <4>3. Records' = [Records EXCEPT ![p] = Records[p] + 1]
        BY <2>0, <3>2, <3>3, <4>1, <4>2, RecordsStep
      <4> QED
        BY <4>3
    <3> QED
      BY <1>2, <3>1, <3>4, InsertMaps
  <2>3. ASSUME NEW r \in RIDs, DeleteRec(r) PROVE Abstract!Next
    <3>1. PICK p \in Pages, s \in Slots : r = <<p, s>> /\ r[1] = p
      BY DEF RIDs
    <3>2. p \in Allocated
      BY <1>2, <2>3, <3>1 DEF DeleteRec, FileInv, BitmapMatchesAlive
    <3>3. Allocated' = Allocated /\ emptySlot' = [emptySlot EXCEPT ![p] = @ + 1]
      BY <2>3, <3>1 DEF DeleteRec, Allocated
    <3>4. Records' = [Records EXCEPT ![p] = @ - 1]
      <4>1. Records[p] = slotPerPage - emptySlot[p] /\ emptySlot'[p] = emptySlot[p] + 1
        BY <2>0, <3>2, <3>3 DEF Records
      <4>2. Records[p] \in Int /\ emptySlot[p] \in Int
        BY <2>0, <4>1
      <4>3. Records' = [Records EXCEPT ![p] = Records[p] - 1]
        BY <2>0, <3>2, <3>3, <4>1, <4>2, RecordsStep
      <4> QED
        BY <4>3
    <3>5. Abstract!Delete(r)
      BY <2>3, <3>1, <3>4 DEF DeleteRec, Abstract!Delete
    <3> QED
      BY <3>5 DEF Abstract!Next, Abstract!RIDs, RIDs
  <2>4. ASSUME NEW r \in RIDs, NEW v \in Values, UpdateRec(r, v) PROVE Abstract!Next
    <3>1. Records' = Records
      BY <2>4 DEF UpdateRec, Records, Allocated
    <3>2. Abstract!Update(r, v)
      BY <2>4, <3>1 DEF UpdateRec, Abstract!Update
    <3> QED
      BY <3>2 DEF Abstract!Next, Abstract!RIDs, RIDs
  <2>5. CASE UNCHANGED vars
    BY <2>5 DEF vars, Records, Allocated
  <2> QED
    BY <1>2, <2>1, <2>2, <2>3, <2>4, <2>5 DEF Next
<1> QED
  BY <1>1, <1>2, FileInvariant, PTL DEF Spec, Abstract!Spec, ImplementsHeapFile

-----------------------------------------------------------------------------
(***************************************************************************)
(* The scan.                                                               *)
(***************************************************************************)
\* The slots the scan has looked at.
Passed(r) == r[1] < pageNum_ \/ (r[1] = pageNum_ /\ r[2] < slotNum_)

\* Behind the cursor, the records wanted have been returned; from it on, none has been,
\* and they are still as they were.
CursorSplits ==
  scanning =>
    \A r \in RIDs :
      IF Passed(r) THEN r \in returned <=> r \in wanted
                   ELSE r \notin returned /\ (r \in wanted <=> MatchesAt(r))

CurrentPassed == current # NoRID => scanning /\ current \in RIDs /\ Passed(current)

ScanInv == FileInv /\ ScanTypeOK /\ CursorSplits /\ CurrentPassed

-----------------------------------------------------------------------------
\* A slot of the model's pages is a pair of a page and a slot.
LEMMA RIDPair ==
  ASSUME NEW r \in RIDs
  PROVE  r = <<r[1], r[2]>> /\ r[1] \in Pages /\ r[2] \in Slots /\ r[1] \in Int /\ r[2] \in Int
BY RecordFileAssumption DEF RIDs, Pages, Slots

\* Advance moves the cursor past exactly one slot.
LEMMA AdvancePassesOne ==
  ASSUME ScanInv, InFile, Advance, NEW r \in RIDs
  PROVE  /\ Passed(r)' <=> Passed(r) \/ r = AtCursor
         /\ ~(Passed(r) /\ r = AtCursor)
         /\ AtCursor \in RIDs
<1>1. /\ totalPageNum \in 1 .. MAX_PAGES + 1 /\ pageNum_ \in 1 .. totalPageNum
      /\ slotNum_ \in 0 .. slotPerPage - 1 /\ pageNum_ # totalPageNum
      /\ MAX_PAGES \in Nat /\ slotPerPage \in Nat \ {0}
  BY RecordFileAssumption DEF ScanInv, FileInv, TypeOK, ScanTypeOK, InFile, Slots
<1>2. r = <<r[1], r[2]>> /\ r[1] \in 1 .. MAX_PAGES /\ r[2] \in 0 .. slotPerPage - 1
  BY RIDPair DEF Pages, Slots
<1>3. r = AtCursor <=> r[1] = pageNum_ /\ r[2] = slotNum_
  BY <1>2 DEF AtCursor
<1>4. Passed(r)' <=> Passed(r) \/ r = AtCursor
  <2>1. CASE slotNum_ + 1 = slotPerPage
    BY <1>1, <1>2, <1>3, <2>1 DEF Advance, Passed
  <2>2. CASE slotNum_ + 1 # slotPerPage
    BY <1>1, <1>2, <1>3, <2>2 DEF Advance, Passed
  <2> QED
    BY <2>1, <2>2
<1>5. ~(Passed(r) /\ r = AtCursor)
  BY <1>1, <1>2, <1>3 DEF Passed
<1>6. AtCursor \in RIDs
  BY <1>1 DEF AtCursor, RIDs, Pages, Slots
<1> QED
  BY <1>4, <1>5, <1>6

\* The cursor stays within the file.
LEMMA AdvanceStaysInFile ==
  ASSUME ScanInv, InFile, Advance, UNCHANGED totalPageNum
  PROVE  pageNum_' \in 1 .. totalPageNum' /\ slotNum_' \in Slots
<1>1. /\ totalPageNum \in 1 .. MAX_PAGES + 1 /\ pageNum_ \in 1 .. totalPageNum
      /\ slotNum_ \in 0 .. slotPerPage - 1 /\ pageNum_ # totalPageNum
      /\ MAX_PAGES \in Nat /\ slotPerPage \in Nat \ {0}
  BY RecordFileAssumption DEF ScanInv, FileInv, TypeOK, ScanTypeOK, InFile, Slots
<1> QED
  BY <1>1 DEF Advance, Slots

LEMMA SameFile == FileInv /\ UNCHANGED file => FileInv'
<1> SUFFICES ASSUME FileInv, UNCHANGED file PROVE FileInv'
  OBVIOUS
<1>1. [Next]_vars
  BY DEF file, vars
<1> QED
  BY <1>1, NextFileInv

\* The number of pages never decreases.
LEMMA FileGrows ==
  ASSUME TypeOK, [Next]_vars
  PROVE  totalPageNum \in Nat /\ totalPageNum' \in Nat /\ totalPageNum' >= totalPageNum
BY RecordFileAssumption
   DEF TypeOK, Next, vars, InsertInPage, InsertInNewPage, UpdateRec, DeleteRec

LEMMA InitScanInv == ScanInit => ScanInv
<1> SUFFICES ASSUME ScanInit PROVE ScanInv
  OBVIOUS
<1>1. FileInv
  BY InitFileInv DEF ScanInit
<1>2. ScanTypeOK
  <2>1. totalPageNum = 1 /\ pageNum_ = 1 /\ slotNum_ = 0 /\ current = NoRID
    BY DEF ScanInit, Init
  <2>2. 0 \in Slots
    BY RecordFileAssumption DEF Slots
  <2>3. scanning \in BOOLEAN /\ wanted = {} /\ returned = {}
    BY DEF ScanInit
  <2>4. pageNum_ \in 1 .. totalPageNum
    BY <2>1
  <2> QED
    BY <2>1, <2>2, <2>3, <2>4 DEF ScanTypeOK
<1> QED
  BY <1>1, <1>2 DEF ScanInit, ScanInv, CursorSplits, CurrentPassed

LEMMA OpenScanInv == ASSUME ScanInv, OpenScan PROVE ScanInv'
<1>1. FileInv' /\ UNCHANGED <<rec, totalPageNum>>
  BY SameFile DEF ScanInv, OpenScan, file
<1>2. ScanTypeOK'
  BY <1>1, RecordFileAssumption
     DEF ScanInv, FileInv, TypeOK, OpenScan, ScanTypeOK, Slots, NoRID
<1>3. CursorSplits'
  <2> SUFFICES ASSUME NEW r \in RIDs
               PROVE  /\ ~Passed(r)'
                      /\ r \notin returned' /\ (r \in wanted' <=> MatchesAt(r)')
    BY DEF CursorSplits
  <2>1. ~Passed(r)'
    BY RIDPair, RecordFileAssumption DEF OpenScan, Passed, Pages, Slots
  <2> QED
    BY <2>1, <1>1 DEF OpenScan, MatchesAt
<1> QED
  BY <1>1, <1>2, <1>3 DEF ScanInv, CurrentPassed, OpenScan

LEMMA SkipSlotInv == ASSUME ScanInv, SkipSlot PROVE ScanInv'
<1>1. FileInv' /\ UNCHANGED <<rec, totalPageNum>>
  BY SameFile DEF ScanInv, SkipSlot, file
<1>2. ScanTypeOK'
  BY <1>1, AdvanceStaysInFile DEF ScanInv, ScanTypeOK, SkipSlot
<1>3. CursorSplits'
  <2> SUFFICES ASSUME NEW r \in RIDs
               PROVE  IF Passed(r)' THEN r \in returned' <=> r \in wanted'
                      ELSE r \notin returned' /\ (r \in wanted' <=> MatchesAt(r)')
    BY DEF CursorSplits
  <2>1. Passed(r)' <=> Passed(r) \/ r = AtCursor
    BY AdvancePassesOne DEF SkipSlot
  <2>2. r = AtCursor => ~Passed(r) /\ ~MatchesAt(r)
    BY AdvancePassesOne DEF SkipSlot
  <2>3. IF Passed(r) THEN r \in returned <=> r \in wanted
                     ELSE r \notin returned /\ (r \in wanted <=> MatchesAt(r))
    BY DEF ScanInv, CursorSplits, SkipSlot, InFile
  <2>4. returned' = returned /\ wanted' = wanted /\ (MatchesAt(r)' <=> MatchesAt(r))
    BY <1>1 DEF SkipSlot, MatchesAt
  <2> QED
    BY <2>1, <2>2, <2>3, <2>4
<1> QED
  BY <1>1, <1>2, <1>3 DEF ScanInv, CurrentPassed, SkipSlot

LEMMA ReturnRecordInv == ASSUME ScanInv, ReturnRecord PROVE ScanInv'
<1>1. FileInv' /\ UNCHANGED <<rec, totalPageNum>>
  BY SameFile DEF ScanInv, ReturnRecord, file
<1>2. PICK c \in RIDs : c = AtCursor /\ Passed(c)'
  <2>1. AtCursor \in RIDs
    BY RecordFileAssumption
       DEF ScanInv, FileInv, TypeOK, ScanTypeOK, InFile, ReturnRecord, AtCursor, RIDs, Pages
  <2>2. PICK c \in RIDs : c = AtCursor
    BY <2>1
  <2>3. Passed(c)'
    BY <2>2, AdvancePassesOne DEF ReturnRecord
  <2> QED
    BY <2>2, <2>3
<1>3. ScanTypeOK'
  BY <1>1, <1>2, AdvanceStaysInFile DEF ScanInv, ScanTypeOK, ReturnRecord
<1>4. CursorSplits'
  <2> SUFFICES ASSUME NEW r \in RIDs
               PROVE  IF Passed(r)' THEN r \in returned' <=> r \in wanted'
                      ELSE r \notin returned' /\ (r \in wanted' <=> MatchesAt(r)')
    BY DEF CursorSplits
  <2>1. Passed(r)' <=> Passed(r) \/ r = AtCursor
    BY AdvancePassesOne DEF ReturnRecord
  <2>2. r = AtCursor => ~Passed(r) /\ MatchesAt(r)
    BY AdvancePassesOne DEF ReturnRecord
  <2>3. IF Passed(r) THEN r \in returned <=> r \in wanted
                     ELSE r \notin returned /\ (r \in wanted <=> MatchesAt(r))
    BY DEF ScanInv, CursorSplits, ReturnRecord, InFile
  <2>4. /\ returned' = returned \cup {AtCursor}
        /\ wanted' = wanted /\ (MatchesAt(r)' <=> MatchesAt(r))
    BY <1>1 DEF ReturnRecord, MatchesAt
  <2> QED
    BY <2>1, <2>2, <2>3, <2>4
<1>5. CurrentPassed'
  BY <1>2 DEF CurrentPassed, ReturnRecord, InFile, Passed
<1> QED
  BY <1>1, <1>3, <1>4, <1>5 DEF ScanInv

\* A change of the current record is behind the cursor.
LEMMA ChangeCurrentInv ==
  ASSUME ScanInv, current # NoRID, Next, NEW v,
         rec' = [rec EXCEPT ![current] = v],
         current' = NoRID, UNCHANGED <<totalPageNum, scanning, pageNum_, slotNum_, wanted, returned>>
  PROVE  ScanInv'
<1>1. FileInv'
  BY NextFileInv DEF ScanInv
<1>2. ScanTypeOK'
  BY DEF ScanInv, ScanTypeOK
<1>3. CursorSplits'
  <2> SUFFICES ASSUME NEW r \in RIDs, scanning
               PROVE  IF Passed(r)' THEN r \in returned' <=> r \in wanted'
                      ELSE r \notin returned' /\ (r \in wanted' <=> MatchesAt(r)')
    BY DEF CursorSplits
  <2>1. Passed(r)' <=> Passed(r)
    BY DEF Passed
  <2>2. ~Passed(r) => r # current
    BY DEF ScanInv, CurrentPassed
  <2>3. ~Passed(r) => (MatchesAt(r)' <=> MatchesAt(r))
    BY <2>2 DEF MatchesAt, ScanInv, FileInv, TypeOK
  <2>4. IF Passed(r) THEN r \in returned <=> r \in wanted
                     ELSE r \notin returned /\ (r \in wanted <=> MatchesAt(r))
    BY DEF ScanInv, CursorSplits
  <2> QED
    BY <2>1, <2>3, <2>4
<1> QED
  BY <1>1, <1>2, <1>3 DEF ScanInv, CurrentPassed

\* Steps that close the scan, and steps while none is open.
LEMMA ClosedInv ==
  ASSUME ScanInv, [Next]_vars, scanning' = FALSE, current' \in {current, NoRID},
         scanning \/ current' = current,
         current' = NoRID \/ ~scanning,
         \/ UNCHANGED <<pageNum_, slotNum_, wanted, returned>>
         \/ pageNum_' = 1 /\ slotNum_' = 0 /\ wanted' = {} /\ returned' = {}
  PROVE  ScanInv'
<1>1. FileInv'
  BY NextFileInv DEF ScanInv
<1>2. pageNum_' \in 1 .. totalPageNum'
  <2>1. totalPageNum' \in 1 .. MAX_PAGES + 1
    BY <1>1 DEF FileInv, TypeOK
  <2> QED
    BY <2>1, FileGrows DEF ScanInv, FileInv, ScanTypeOK
<1>3. current' = NoRID
  BY DEF ScanInv, CurrentPassed
<1>4. ScanTypeOK'
  <2>1. 0 \in Slots
    BY RecordFileAssumption DEF Slots
  <2> QED
    BY <2>1, <1>2, <1>3 DEF ScanInv, ScanTypeOK
<1> QED
  BY <1>1, <1>3, <1>4 DEF ScanInv, CursorSplits, CurrentPassed

\* Every step keeps the invariant.
LEMMA NextScanInv == ScanInv /\ [ScanNext]_scanVars => ScanInv'
<1> SUFFICES ASSUME ScanInv, [ScanNext]_scanVars PROVE ScanInv'
  OBVIOUS
<1>1. CASE OpenScan
  BY <1>1, OpenScanInv
<1>2. CASE SkipSlot
  BY <1>2, SkipSlotInv
<1>3. CASE ReturnRecord
  BY <1>3, ReturnRecordInv
<1>4. CASE EndScan
  BY <1>4, ClosedInv DEF EndScan, file, vars
<1>5. CASE AbandonScan
  <2>1. scanning
    BY <1>5 DEF AbandonScan, ScanInv, CurrentPassed
  <2> QED
    BY <1>5, <2>1, ClosedInv DEF AbandonScan, file, vars
<1>6. CASE BetweenScans
  BY <1>6, ClosedInv DEF BetweenScans, cursor, ScanInv, ScanTypeOK
<1>7. CASE DeleteCurrent
  <2>1. Next /\ rec' = [rec EXCEPT ![current] = Dead] /\ UNCHANGED totalPageNum
    BY <1>7 DEF DeleteCurrent, DeleteRec, Next, ScanInv, CurrentPassed
  <2> QED
    BY <1>7, <2>1, ChangeCurrentInv DEF DeleteCurrent
<1>8. ASSUME NEW v \in Values, UpdateCurrent(v) PROVE ScanInv'
  <2>1. Next /\ rec' = [rec EXCEPT ![current] = v] /\ UNCHANGED totalPageNum
    BY <1>8 DEF UpdateCurrent, UpdateRec, Next, ScanInv, CurrentPassed
  <2> QED
    BY <1>8, <2>1, ChangeCurrentInv DEF UpdateCurrent
<1>9. CASE UNCHANGED scanVars
  <2>1. FileInv'
    BY <1>9, SameFile DEF ScanInv, scanVars
  <2> QED
    BY <1>9, <2>1
       DEF ScanInv, ScanTypeOK, CursorSplits, CurrentPassed, scanVars, cursor, file, Passed, MatchesAt
<1> QED
  BY <1>1, <1>2, <1>3, <1>4, <1>5, <1>6, <1>7, <1>8, <1>9 DEF ScanNext, ScanStep

-----------------------------------------------------------------------------
LEMMA ScanInvariant == ScanSpec => []ScanInv
BY InitScanInv, NextScanInv, PTL DEF ScanSpec

\* A scan that has come to the end of the file has returned exactly the records that
\* matched when it was opened.
THEOREM ScanCompleteAlways == ScanSpec => []ScanComplete
<1>1. ScanInv => ScanComplete
  <2> SUFFICES ASSUME ScanInv, scanning, pageNum_ = totalPageNum
               PROVE  returned = wanted
    BY DEF ScanComplete
  <2>1. ASSUME NEW r \in RIDs, ~Passed(r) PROVE ~MatchesAt(r)
    <3>1. r[1] \notin Allocated
      BY <2>1, RIDPair DEF Passed, Allocated, ScanInv, FileInv, TypeOK
    <3>2. r \notin used
      BY <3>1, RIDPair DEF ScanInv, FileInv
    <3>3. rec[r] = Dead
      BY <3>2 DEF ScanInv, FileInv, BitmapMatchesAlive
    <3> QED
      BY <3>3, RecordFileAssumption, RecordScanAssumption DEF MatchesAt
  <2>2. \A r \in RIDs : r \in returned <=> r \in wanted
    BY <2>1 DEF ScanInv, CursorSplits
  <2> QED
    BY <2>2 DEF ScanInv, ScanTypeOK
<1> QED
  BY <1>1, ScanInvariant, PTL

\* A record is returned once, not again when its update makes it match.
THEOREM ReturnedOnceAlways == ScanSpec => ReturnedOnce
<1>1. ScanInv /\ [ScanNext]_scanVars => [ReturnRecord => AtCursor \notin returned]_scanVars
  <2> SUFFICES ASSUME ScanInv, ReturnRecord PROVE AtCursor \notin returned
    OBVIOUS
  <2>1. AtCursor \in RIDs
    BY RecordFileAssumption
       DEF ScanInv, FileInv, TypeOK, ScanTypeOK, InFile, ReturnRecord, AtCursor, RIDs, Pages
  <2>2. ~Passed(AtCursor)
    <3>1. PICK c \in RIDs : c = AtCursor
      BY <2>1
    <3> QED
      BY <3>1, AdvancePassesOne DEF ReturnRecord
  <2> QED
    BY <2>1, <2>2 DEF ScanInv, CursorSplits, ReturnRecord, InFile
<1> QED
  BY <1>1, ScanInvariant, PTL DEF ScanSpec, ReturnedOnce

\* The types of the cursor; it reads no page past the end of the file.
THEOREM ScanTypeCorrect == ScanSpec => []ScanTypeOK
<1>1. ScanInv => ScanTypeOK
  BY DEF ScanInv
<1> QED
  BY <1>1, ScanInvariant, PTL
=============================================================================
