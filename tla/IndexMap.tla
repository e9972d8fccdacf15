------------------------------ MODULE IndexMap ------------------------------
(***************************************************************************)
(* What the primary key index promises: a map from keys to records in      *)
(* which a key, once entered, keeps its record; entering it again does     *)
(* nothing (Index::insertEntry returns the record it has).                 *)
(***************************************************************************)
CONSTANTS Keys, Values, None

VARIABLE entries

Init == entries = [k \in Keys |-> None]

Enter(k, v) ==
  /\ entries[k] = None
  /\ entries' = [entries EXCEPT ![k] = v]

Next == \E k \in Keys, v \in Values : Enter(k, v)

Spec == Init /\ [][Next]_entries
=============================================================================
