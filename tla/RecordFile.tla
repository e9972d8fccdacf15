----------------------------- MODULE RecordFile -----------------------------
(***************************************************************************)
(* A record file (class FileHandle of rm/filehandle.h): pages of           *)
(* slotPerPage fixed-size slots after a header page 0.  Three structures   *)
(* say which slots are free and must agree: the bitmap of a page, its      *)
(* count emptySlot, and the list of pages with room that starts at         *)
(* firstEmptyPage and runs through nextPage.  A fourth, the REC_ALIVE flag *)
(* in the record itself, is what scans go by.                              *)
(*                                                                         *)
(* One handle is modelled, and each of its operations is one step: every   *)
(* page an operation uses is brought in by the buffer pool and marked      *)
(* dirty before the operation returns.                                     *)
(***************************************************************************)
EXTENDS Integers, Sequences, FiniteSets

CONSTANTS slotPerPage,
          MAX_PAGES,   \* bound of the model: no page beyond it is allocated
          Values,      \* what a record can hold
          Dead         \* a slot whose record has not the flag REC_ALIVE

ASSUME RecordFileAssumption ==
  /\ slotPerPage \in Nat \ {0}    \* else createFile throws RecordTooLargeException
  /\ MAX_PAGES \in Nat
  /\ Dead \notin Values

Pages == 1 .. MAX_PAGES
Slots == 0 .. slotPerPage - 1
RIDs  == Pages \X Slots

VARIABLES firstEmptyPage, totalPageNum,  \* FileInfo, in page 0 and in the handle
          nextPage, emptySlot,           \* PageHeader of each page
          used,                          \* the slots whose bit is set in a bitmap
          rec                            \* RID -> the live record there, or Dead

vars == <<firstEmptyPage, totalPageNum, nextPage, emptySlot, used, rec>>

\* RecordManager::createFile writes page 0 only; unwritten pages read as zeros.
Init ==
  /\ firstEmptyPage = 0
  /\ totalPageNum = 1
  /\ nextPage = [p \in Pages |-> 0]
  /\ emptySlot = [p \in Pages |-> 0]
  /\ used = {}
  /\ rec = [r \in RIDs |-> Dead]

-----------------------------------------------------------------------------
HasRoom(p) == \E s \in Slots : <<p, s>> \notin used

\* Mutant of LowestFree: the bitmap is not looked at.
LowestFreeFirst(p, s) == s = 0

\* The first zero bit of the bitmap: lowest0() of its first byte that is not 255.
LowestFree(p, s) ==
  /\ <<p, s>> \notin used
  /\ \A t \in Slots : t < s => <<p, t>> \in used

\* Mutant of StopsAt: the list is not consulted.
StopsAtEnd(p) == p = 0

\* The loop of allocateRec follows nextPage from firstEmptyPage and stops at p: a page
\* whose bitmap has a zero bit, or 0, the end of the list.
StopsAt(p) ==
  \E n \in 1 .. MAX_PAGES + 1 : \E path \in [1 .. n -> 0 .. MAX_PAGES] :
    /\ path[1] = firstEmptyPage
    /\ \A k \in 1 .. n - 1 : /\ path[k] # 0
                             /\ ~HasRoom(path[k])
                             /\ path[k + 1] = nextPage[path[k]]
    /\ path[n] = p
    /\ p = 0 \/ HasRoom(p)

\* Mutant of InsertInPage: emptySlot is written back as it was read.
InsertInPageUncounted(p, v) ==
  /\ p # 0
  /\ StopsAt(p)
  /\ \E s \in Slots :
       /\ LowestFree(p, s)
       /\ used' = used \cup {<<p, s>>}
       /\ rec' = [rec EXCEPT ![<<p, s>>] = v]
  /\ UNCHANGED <<firstEmptyPage, totalPageNum, nextPage, emptySlot>>

\* insertRec() or declareRec() in a page that has room.  A page that becomes full leaves
\* the list if it is the first.
InsertInPage(p, v) ==
  /\ p # 0
  /\ StopsAt(p)
  /\ \E s \in Slots :
       /\ LowestFree(p, s)
       /\ used' = used \cup {<<p, s>>}
       /\ rec' = [rec EXCEPT ![<<p, s>>] = v]
  /\ emptySlot' = [emptySlot EXCEPT ![p] = @ - 1]
  /\ firstEmptyPage' = IF emptySlot[p] = 1 /\ p = firstEmptyPage
                         THEN nextPage[p] ELSE firstEmptyPage
  /\ UNCHANGED <<totalPageNum, nextPage>>

\* insertRec() or declareRec() after newPage(), which appends a page and puts it first in
\* the list; its slot 0 is then taken.
InsertInNewPage(v) ==
  LET p == totalPageNum IN
  /\ StopsAt(0)
  /\ p <= MAX_PAGES
  /\ totalPageNum' = p + 1
  /\ nextPage' = [nextPage EXCEPT ![p] = firstEmptyPage]
  /\ emptySlot' = [emptySlot EXCEPT ![p] = slotPerPage - 1]
  /\ used' = (used \ ({p} \X Slots)) \cup {<<p, 0>>}
  /\ rec' = [rec EXCEPT ![<<p, 0>>] = v]
  /\ firstEmptyPage' = IF slotPerPage = 1 THEN firstEmptyPage ELSE p

\* updateRec() sets the flag REC_ALIVE whatever was there; callers pass a record that a
\* scan or the index returned.
UpdateRec(r, v) ==
  /\ rec[r] # Dead
  /\ rec' = [rec EXCEPT ![r] = v]
  /\ UNCHANGED <<firstEmptyPage, totalPageNum, nextPage, emptySlot, used>>

\* Mutants of DeleteRec: the page is pushed on the list whether or not it was full; the bit
\* stays set.
DeleteRecPushes(r) ==
  /\ rec[r] # Dead
  /\ nextPage' = [nextPage EXCEPT ![r[1]] = firstEmptyPage]
  /\ firstEmptyPage' = r[1]
  /\ emptySlot' = [emptySlot EXCEPT ![r[1]] = @ + 1]
  /\ used' = used \ {r}
  /\ rec' = [rec EXCEPT ![r] = Dead]
  /\ UNCHANGED totalPageNum

DeleteRecKeepsBit(r) ==
  /\ rec[r] # Dead
  /\ rec' = [rec EXCEPT ![r] = Dead]
  /\ UNCHANGED <<firstEmptyPage, totalPageNum, nextPage, emptySlot, used>>

\* deleteRec() does not look at the flag; callers pass a live record.  A page that was
\* full is put back at the front of the list.
DeleteRec(r) ==
  LET p == r[1] IN
  /\ rec[r] # Dead
  /\ IF emptySlot[p] = 0
       THEN /\ nextPage' = [nextPage EXCEPT ![p] = firstEmptyPage]
            /\ firstEmptyPage' = p
       ELSE UNCHANGED <<nextPage, firstEmptyPage>>
  /\ emptySlot' = [emptySlot EXCEPT ![p] = @ + 1]
  /\ used' = used \ {r}
  /\ rec' = [rec EXCEPT ![r] = Dead]
  /\ UNCHANGED totalPageNum

Next ==
  \/ \E v \in Values : InsertInNewPage(v) \/ \E p \in Pages : InsertInPage(p, v)
  \/ \E r \in RIDs : DeleteRec(r) \/ \E v \in Values : UpdateRec(r, v)

Spec == Init /\ [][Next]_vars

-----------------------------------------------------------------------------
Allocated == 1 .. totalPageNum - 1

\* Type correctness.
TypeOK ==
  /\ totalPageNum \in 1 .. MAX_PAGES + 1
  /\ firstEmptyPage \in 0 .. MAX_PAGES
  /\ nextPage \in [Pages -> 0 .. MAX_PAGES]
  /\ emptySlot \in [Pages -> 0 .. slotPerPage]
  /\ used \subseteq RIDs
  /\ rec \in [RIDs -> Values \cup {Dead}]

\* A slot's bit is set exactly when its record is alive, so that allocateRec, which goes
\* by the bits, overwrites no record that scans return, and loses no slot for ever.
BitmapMatchesAlive == used = {r \in RIDs : rec[r] # Dead}

\* The count in a page's header is the number of zero bits in its bitmap.
EmptySlotCounts ==
  \A p \in Allocated : emptySlot[p] = Cardinality({s \in Slots : <<p, s>> \notin used})

\* The list from firstEmptyPage is stack: no page twice, so no cycle, it ends with 0, and
\* its members are the allocated pages that have an empty slot.
FreeListIs(n, stack) ==
  /\ firstEmptyPage = IF n = 0 THEN 0 ELSE stack[1]
  /\ \A k \in 1 .. n : nextPage[stack[k]] = IF k = n THEN 0 ELSE stack[k + 1]
  /\ \A k, m \in 1 .. n : stack[k] = stack[m] => k = m
  /\ {stack[k] : k \in 1 .. n} = {p \in Allocated : emptySlot[p] > 0}

\* No page with room is lost to later insertions, and the loop of allocateRec never
\* walks over a full page or round in circles.
FreeListExact ==
  \E n \in 0 .. MAX_PAGES : \E stack \in [1 .. n -> Pages] : FreeListIs(n, stack)

\* The file grows only when every slot of every page is taken.
GrowsOnlyWhenFull ==
  [][totalPageNum' # totalPageNum =>
       \A p \in Allocated, s \in Slots : rec[<<p, s>>] # Dead]_vars

\* The records of each page, as its header counts them.
Records == [p \in Pages |-> IF p \in Allocated THEN slotPerPage - emptySlot[p] ELSE 0]

Abstract == INSTANCE HeapFile WITH store <- rec, count <- Records, None <- Dead

\* Inserting disturbs no live record, wherever allocateRec finds a slot.
ImplementsHeapFile == Abstract!Spec
=============================================================================
