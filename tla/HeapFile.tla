------------------------------ MODULE HeapFile ------------------------------
(***************************************************************************)
(* What a record file promises to the index and query layers: a set of     *)
(* records under record identifiers.  Insertion returns an identifier that *)
(* no live record has; a record changes only when it is updated or         *)
(* deleted under its own identifier.  The number of records of each page   *)
(* says which of the two happened: an insertion over a live record is not  *)
(* an update.                                                              *)
(***************************************************************************)
EXTENDS Integers

CONSTANTS Pages, Slots, Values, None

RIDs == Pages \X Slots

VARIABLES store, count

Init ==
  /\ store = [r \in RIDs |-> None]
  /\ count = [p \in Pages |-> 0]

Insert(r, v) ==
  /\ store[r] = None
  /\ store' = [store EXCEPT ![r] = v]
  /\ count' = [count EXCEPT ![r[1]] = @ + 1]

Update(r, v) ==
  /\ store[r] # None
  /\ store' = [store EXCEPT ![r] = v]
  /\ UNCHANGED count

Delete(r) ==
  /\ store[r] # None
  /\ store' = [store EXCEPT ![r] = None]
  /\ count' = [count EXCEPT ![r[1]] = @ - 1]

Next == \E r \in RIDs : Delete(r) \/ \E v \in Values : Insert(r, v) \/ Update(r, v)

Spec == Init /\ [][Next]_<<store, count>>
=============================================================================
