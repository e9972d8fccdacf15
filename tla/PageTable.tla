----------------------------- MODULE PageTable -----------------------------
(***************************************************************************)
(* What the buffer pool's page table promises to PageFS: a set of resident *)
(* pages of bounded size, in which a page is found exactly when it was     *)
(* inserted and not yet dropped.  LRUHash implements it with one open      *)
(* addressing table.                                                       *)
(***************************************************************************)
EXTENDS Integers, FiniteSets

CONSTANTS Keys,      \* the <<fileId, pageNum>> pairs
          Capacity   \* MAX_BUFFER_SIZE

VARIABLE resident

Init == resident = {}

Insert(k) ==
  /\ k \notin resident
  /\ Cardinality(resident) < Capacity
  /\ resident' = resident \cup {k}

Drop(k) ==
  /\ k \in resident
  /\ resident' = resident \ {k}

Next == \E k \in Keys : Insert(k) \/ Drop(k)

Spec == Init /\ [][Next]_resident
=============================================================================
