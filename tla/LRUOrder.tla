------------------------------ MODULE LRUOrder ------------------------------
(***************************************************************************)
(* What the buffer pool promises of the pages it keeps: a sequence of at   *)
(* most Capacity pages, the least recently used first, each once.          *)
(***************************************************************************)
EXTENDS Integers, Sequences, SequencesExt, Lists

CONSTANTS Files, PageNums, AllFiles, Capacity

VARIABLE order

Pages == Files \X PageNums

PagesOf(f) == {p \in Pages : f = AllFiles \/ p[1] = f}

Init == order = <<>>

Touch(p) == p \in ToSet(order) /\ order' = Append(Without(order, {p}), p)

Load(p) ==
  /\ p \notin ToSet(order)
  /\ \/ Len(order) < Capacity /\ order' = Append(order, p)
     \/ \E v \in ToSet(order) : Len(order) = Capacity /\ order' = Append(Without(order, {v}), p)

\* Closing a file drops its pages and leaves the others in their order.
Close(f) == order' = Without(order, PagesOf(f))

Next == (\E p \in Pages : Touch(p) \/ Load(p)) \/ \E f \in Files \cup {AllFiles} : Close(f)

Spec == Init /\ [][Next]_order
=============================================================================
