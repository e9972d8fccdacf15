----------------------------- MODULE BufferPool -----------------------------
(***************************************************************************)
(* The buffer pool of class PageFS: at most MAX_BUFFER_SIZE frames over    *)
(* the pages of the open files, dirty frames written back when they are    *)
(* forced, evicted or their file is closed, pinned frames never evicted.   *)
(*                                                                         *)
(* The two structures that find a frame are abstracted to what they        *)
(* promise: the hash table to the set resident (PageTable, which LRUHash   *)
(* implements), the list to the sequence lru (LRUOrder, which LRUList      *)
(* implements).  disk is what the FILE streams read back.                  *)
(*                                                                         *)
(* The pool hands out raw pointers, so whether an update survives depends  *)
(* on its clients too.  held, unmarked and latest record what the clients  *)
(* do and are read by no operation of the pool.                            *)
(***************************************************************************)
EXTENDS Integers, Sequences, FiniteSets, SequencesExt, Lists

CONSTANTS MAX_BUFFER_SIZE,
          Files, PageNums,
          Contents,  \* what a page can hold
          Zero       \* a page of zeros: what is read past the end of a file

Pages == Files \X PageNums

PagesOf(f) == {p \in Pages : p[1] = f}

ASSUME BufferPoolAssumption ==
  /\ MAX_BUFFER_SIZE \in Nat \ {0}
  /\ Zero \in Contents

VARIABLES resident,  \* pages that have a frame
          lru,       \* the frames, least recently used first
          data,      \* the frames' contents; Zero where there is no frame
          dirty, pinned,
          disk,
          held,      \* pages whose pointer a client got and has not given back
          unmarked,  \* pages with an update in a frame that was never marked dirty
          latest     \* page -> its last update that was not lost before being marked

pool    == <<resident, lru, data, dirty, pinned>>
clients == <<held, unmarked, latest>>
vars    == <<pool, disk, clients>>

Init ==
  /\ resident = {} /\ lru = <<>>
  /\ data = [p \in Pages |-> Zero]
  /\ dirty = {} /\ pinned = {}
  /\ disk = [p \in Pages |-> Zero]
  /\ held = {} /\ unmarked = {}
  /\ latest = [p \in Pages |-> Zero]

-----------------------------------------------------------------------------
\* Mutant of MovedBack: the node is not unlinked first.
MovedBackTwice(p) == Append(lru, p)

\* list.move_back(node of p)
MovedBack(p) == Append(Without(lru, {p}), p)

\* Mutant of WriteBack: the test of the dirty flag is inverted.
WriteBackClean(S) == disk' = [p \in Pages |-> IF p \in S \ dirty THEN data[p] ELSE disk[p]]

\* writeBack(): a clean frame is not written.
WriteBack(S) == disk' = [p \in Pages |-> IF p \in S \cap dirty THEN data[p] ELSE disk[p]]

\* What clients lose with the frames of S: an update that was not marked is gone.
Forget(S) ==
  /\ unmarked' = unmarked \ S
  /\ latest' = [p \in Pages |-> IF p \in S \cap unmarked THEN disk[p] ELSE latest[p]]

\* Mutant of Victim: the pin is not looked at.
VictimPinned(v) == lru[1] = v

\* The choice of commitOnePage: the least recently used frame that is not pinned.
Victim(v) ==
  \E k \in 1 .. Len(lru) : /\ lru[k] = v
                           /\ v \notin pinned
                           /\ \A m \in 1 .. k - 1 : lru[m] \in pinned

\* loadPage() on a resident page: it becomes the most recently used; it is not pinned.
LoadHit(p) ==
  /\ p \in resident
  /\ lru' = MovedBack(p)
  /\ held' = held \cup {p}
  /\ UNCHANGED <<resident, data, dirty, pinned, disk, unmarked, latest>>

\* loadPage() on another page while there is a frame left: it is read and pinned.
LoadMiss(p) ==
  /\ p \notin resident
  /\ Cardinality(resident) < MAX_BUFFER_SIZE
  /\ resident' = resident \cup {p}
  /\ lru' = Append(lru, p)
  /\ data' = [data EXCEPT ![p] = disk[p]]
  /\ pinned' = pinned \cup {p}
  /\ held' = held \cup {p}
  /\ UNCHANGED <<dirty, disk, unmarked, latest>>

\* loadPage() with every frame in use: commitOnePage makes room.  When all are pinned,
\* NoBufError is thrown before anything has changed.
LoadEvict(p) ==
  /\ p \notin resident
  /\ Cardinality(resident) = MAX_BUFFER_SIZE
  /\ \E v \in resident :
       /\ Victim(v)
       /\ WriteBack({v})
       /\ Forget({v})
       /\ resident' = (resident \ {v}) \cup {p}
       /\ lru' = Append(Without(lru, {v}), p)
       /\ data' = [data EXCEPT ![v] = Zero, ![p] = disk[p]]
       /\ dirty' = dirty \ {v}
  /\ pinned' = pinned \cup {p}
  /\ held' = held \cup {p}

\* A client changes a page through the pointer loadPage returned.
Write(p, c) ==
  /\ p \in held \cap resident
  /\ c # data[p]
  /\ data' = [data EXCEPT ![p] = c]
  /\ latest' = [latest EXCEPT ![p] = c]
  /\ unmarked' = IF p \in dirty THEN unmarked ELSE unmarked \cup {p}
  /\ UNCHANGED <<resident, lru, dirty, pinned, disk, held>>

\* markDirty(), called on a resident page: get() returns no null pointer for it.
MarkDirty(p) ==
  /\ p \in resident
  /\ dirty' = dirty \cup {p}
  /\ unmarked' = unmarked \ {p}
  /\ UNCHANGED <<resident, lru, data, pinned, disk, held, latest>>

\* unpinPage(), likewise; the client uses its pointer no more.
UnpinPage(p) ==
  /\ p \in resident
  /\ pinned' = pinned \ {p}
  /\ held' = held \ {p}
  /\ UNCHANGED <<resident, lru, data, dirty, disk, unmarked, latest>>

\* Mutant of ForcePage: the flag is cleared before writeBack looks at it.
ForcePageUnwritten(p) ==
  /\ p \in resident
  /\ dirty' = dirty \ {p}
  /\ lru' = MovedBack(p)
  /\ UNCHANGED <<resident, data, pinned, disk, clients>>

\* forcePage() of one page.
ForcePage(p) ==
  /\ p \in resident
  /\ WriteBack({p})
  /\ dirty' = dirty \ {p}
  /\ lru' = MovedBack(p)
  /\ UNCHANGED <<resident, data, pinned, clients>>

\* forcePage(f, ALL_PAGES): the frames of f, in the order of their slots in the table,
\* which is no order of the pages.
ForceAllPages(f) ==
  LET S == resident \cap PagesOf(f) IN
  /\ WriteBack(S)
  /\ dirty' = dirty \ S
  /\ \E order \in SetToSeqs(S) :
       lru' = Without(lru, S) \o order
  /\ UNCHANGED <<resident, data, pinned, clients>>

\* commitAll(): the frames of S are written back and released, pinned or not.
Release(S) ==
  /\ WriteBack(S)
  /\ Forget(S)
  /\ resident' = resident \ S
  /\ lru' = Without(lru, S)
  /\ data' = [p \in Pages |-> IF p \in S THEN Zero ELSE data[p]]
  /\ dirty' = dirty \ S
  /\ pinned' = pinned \ S
  /\ held' = held \ S

\* closeFile(), which is commitAll(f): the entry of the file stays.
CloseFile(f) == Release(PagesOf(f))

\* ~PageFS(), which is commitAll(-1).
Shutdown == Release(Pages)

Next ==
  \/ \E p \in Pages :
       \/ LoadHit(p) \/ LoadMiss(p) \/ LoadEvict(p)
       \/ MarkDirty(p) \/ UnpinPage(p) \/ ForcePage(p)
       \/ \E c \in Contents : Write(p, c)
  \/ \E f \in Files : ForceAllPages(f) \/ CloseFile(f)
  \/ Shutdown

Spec == Init /\ [][Next]_vars

-----------------------------------------------------------------------------
\* Type correctness.
TypeOK ==
  /\ resident \subseteq Pages
  /\ lru \in Seq(Pages)
  /\ data \in [Pages -> Contents]
  /\ dirty \subseteq resident
  /\ pinned \subseteq resident
  /\ disk \in [Pages -> Contents]
  /\ held \subseteq Pages
  /\ unmarked \subseteq resident
  /\ latest \in [Pages -> Contents]

\* The frames in the table are the nodes of the list, each once, and never more than
\* MAX_BUFFER_SIZE: commitOnePage, which walks the list, sees every frame the table
\* counts, so a full pool with an unpinned page always finds it.
ListMatchesTable ==
  /\ ToSet(lru) = resident
  /\ Len(lru) = Cardinality(resident)
  /\ Cardinality(resident) <= MAX_BUFFER_SIZE

\* What a client reading page p gets, now or after a load.
View(p) == IF p \in resident THEN data[p] ELSE disk[p]

\* No update is lost or undone but those whose frame went before they were marked
\* dirty (Forget): through any sequence of evictions, forces, closes and reloads,
\* loadPage returns the last one.
MarkedUpdatesSurvive == \A p \in Pages : View(p) = latest[p]

\* A frame that is not dirty may be dropped without a write because it equals the file,
\* unless its update was never marked.
CleanFramesMatchDisk ==
  \A p \in resident \ (dirty \cup unmarked) : data[p] = disk[p]

\* A load makes room by dropping at most one frame, which is not pinned, and no frame
\* used less recently was a candidate.
LoadSparesPinned ==
  [][resident' \ resident # {} =>
       \A v \in resident \ resident' :
         /\ v \notin pinned
         /\ resident \ resident' = {v}
         /\ \A k, m \in 1 .. Len(lru) : lru[k] = v /\ m < k => lru[m] \in pinned]_vars

\* pagefs.cpp:124 has a loaded page "automatically pinned": it stays in the pool, and
\* the pointer returned stays valid, until the client unpins it.
HeldPagesStay == held \subseteq resident
=============================================================================
