------------------------------ MODULE MCJoins -------------------------------
(***************************************************************************)
(* Queries of up to three conditions on two or three tables.  Records with *)
(* equal and with different columns, a deleted one, one without a partner, *)
(* an empty table; the third table has its column as a primary key.  Its   *)
(* index is current, or what the statements before have left of it:        *)
(*   - key 1 was deleted;                                                  *)
(*   - key 1 was deleted, 4 inserted into its slot, and 2 updated to 1;    *)
(*   - the root above key 1 was lost.                                      *)
(***************************************************************************)
EXTENDS Joins

CONSTANTS a, b, k

MCFroms == {<<a, b>>, <<k, a>>, <<a, b, k>>}

Slot(x) == [col |-> x, alive |-> TRUE]

Dead(x) == [col |-> x, alive |-> FALSE]

Table(slots, keys, at) == [slots |-> slots, entry |-> [x \in keys |-> at[x]]]

Tables(ofA, ofB, ofK) ==
  [r \in {a, b, k} |-> CASE r = a -> Table(ofA, {}, <<>>)
                         [] r = b -> Table(ofB, {}, <<>>)
                         [] r = k -> ofK]

TwoAndThree(ofK) == Tables(<<Slot(1), Slot(2)>>, <<Slot(2), Dead(1), Slot(1), Slot(1)>>, ofK)

MCContents ==
  {TwoAndThree(Table(<<Slot(3), Slot(1), Slot(2)>>, {1, 2, 3}, <<2, 3, 1>>)),
   TwoAndThree(Table(<<Slot(3), Dead(1), Slot(2)>>, {1, 2, 3}, <<2, 3, 1>>)),
   TwoAndThree(Table(<<Slot(3), Slot(4), Slot(1)>>, {1, 2, 3, 4}, <<2, 3, 1, 2>>)),
   Tables(<<Slot(1)>>, <<>>, Table(<<Slot(2), Slot(1)>>, {2}, <<0, 1>>))}
=============================================================================
