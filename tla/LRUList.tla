------------------------------ MODULE LRUList ------------------------------
(***************************************************************************)
(* The doubly linked list of pagefs.h (struct LRUList), pointer by         *)
(* pointer.  commitOnePage and commitAll walk it from head along next, so  *)
(* a next or prev left stale by move_back or remove would skip a resident  *)
(* page or walk into a deleted one.  PagePool calls these operations;      *)
(* push_head and pop_head, which nothing calls, are left out.              *)
(***************************************************************************)
EXTENDS Integers, Sequences, FiniteSets, SequencesExt, Lists

CONSTANTS Nodes,  \* LRUListNode objects
          Null

ASSUME LRUListAssumption == Null \notin Nodes

VARIABLES head, tail, next, prev,
          live   \* the nodes allocated and not yet deleted

list == <<head, tail, next, prev, live>>

ListInit ==
  /\ head = Null /\ tail = Null
  /\ next = [n \in Nodes |-> Null]
  /\ prev = [n \in Nodes |-> Null]
  /\ live = {}

\* push_back()
PushBack(n) ==
  /\ n \notin live
  /\ live' = live \cup {n}
  /\ prev' = [prev EXCEPT ![n] = tail]
  /\ next' = [m \in Nodes |-> IF m = tail THEN n ELSE IF m = n THEN Null ELSE next[m]]
  /\ tail' = n
  /\ head' = IF head = Null THEN n ELSE head

\* Mutant of MoveBack: the predecessor of the node still points at it.
MoveBackStaleNext(n) ==
  /\ n \in live
  /\ n # tail
  /\ head' = IF n = head THEN next[n] ELSE head
  /\ next' = [next EXCEPT ![n] = Null, ![tail] = n]
  /\ prev' = [m \in Nodes |-> IF m = n THEN tail ELSE IF m = next[n] THEN prev[n] ELSE prev[m]]
  /\ tail' = n
  /\ UNCHANGED live

\* move_back(): the tail stays, any other node is unlinked and linked after the tail.
\* The neighbour of n that becomes null is skipped by the code's tests, and tail # null.
MoveBack(n) ==
  LET q == prev[n]
      r == next[n]
  IN
  /\ n \in live
  /\ n # tail
  /\ head' = IF n = head THEN r ELSE head
  /\ next' = [m \in Nodes |-> IF m = n THEN Null
                              ELSE IF m = tail THEN n
                              ELSE IF m = q THEN r ELSE next[m]]
  /\ prev' = [m \in Nodes |-> IF m = n THEN tail
                              ELSE IF m = r THEN q ELSE prev[m]]
  /\ tail' = n
  /\ UNCHANGED live

\* remove(), which deletes the node.
Delete(n) ==
  LET q == prev[n]
      r == next[n]
  IN
  /\ n \in live
  /\ head' = IF n = head THEN r ELSE head
  /\ tail' = IF n = tail THEN q ELSE tail
  /\ next' = [m \in Nodes |-> IF m = n THEN Null ELSE IF m = q THEN r ELSE next[m]]
  /\ prev' = [m \in Nodes |-> IF m = n THEN Null ELSE IF m = r THEN q ELSE prev[m]]
  /\ live' = live \ {n}

-----------------------------------------------------------------------------
\* The nodes met from start along link up to a null pointer, at most one more than are
\* live.
Walk(start, link) ==
  LET at[k \in 1 .. Cardinality(live) + 1] ==
        IF k = 1 THEN start
        ELSE IF at[k - 1] = Null THEN Null ELSE link[at[k - 1]]
  IN  SubSeq(at, 1, Cardinality({k \in DOMAIN at : at[k] # Null}))

Forward == Walk(head, next)

\* The walk of commitOnePage and commitAll from head meets every live node once and
\* no deleted one, and the prev pointers spell the same list backwards from tail.
WalkMeetsEveryNode ==
  /\ ToSet(Forward) = live
  /\ Len(Forward) = Cardinality(live)
  /\ Walk(tail, prev) = Reverse(Forward)
=============================================================================
