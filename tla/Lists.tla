------------------------------- MODULE Lists -------------------------------
(***************************************************************************)
(* What is left of a sequence without some elements: of the LRU list when  *)
(* nodes are unlinked, of a table when a scan passes over records.         *)
(***************************************************************************)
EXTENDS Integers, Sequences

\* The sequence without the elements in S, the others in their order.
Without(s, S) ==
  LET kept[n \in 0 .. Len(s)] ==
        IF n = 0 THEN <<>>
        ELSE IF s[n] \in S THEN kept[n - 1] ELSE Append(kept[n - 1], s[n])
  IN  kept[Len(s)]
=============================================================================
