------------------------------ MODULE MCTable ------------------------------
(***************************************************************************)
(* Statements for Table, with every kind of mistake in them, but that they *)
(* set no key and repeat none within an INSERT.                            *)
(***************************************************************************)
EXTENDS Table

Row(k, v, n)  == [row |-> [key |-> k, val |-> v, null |-> n], valid |-> TRUE]
BadTuple      == [Row(2, 1, FALSE) EXCEPT !.valid = FALSE]
Holds(P)      == [holds |-> P, bad |-> FALSE]
Uncomparable  == [holds |-> {}, bad |-> TRUE]
KeyIs(k)      == {row \in Rows : row.key = k}
ValIs(v)      == {row \in Rows : row.val = v}
IsNull        == {row \in Rows : row.null}
All           == [first |-> Rows, rest |-> <<>>]
SetVal(v)     == [col |-> "val", from |-> "value", value |-> v]
CopyTo(col)   == [col |-> col, from |-> "column", value |-> 1]
Float         == [col |-> "float", from |-> "value", value |-> 1]

Insert(ts)    == [kind |-> "insert", tuples |-> ts, where |-> All, set |-> SetVal(1)]
Delete(w)     == [kind |-> "delete", tuples |-> <<>>, where |-> w, set |-> SetVal(1)]
Update(w, s)  == [kind |-> "update", tuples |-> <<>>, where |-> w, set |-> s]
Select(w)     == [kind |-> "select", tuples |-> <<>>, where |-> w, set |-> SetVal(1)]

SomeWheres ==
  { [first |-> KeyIs(1), rest |-> <<Holds(ValIs(1))>>],
    [first |-> ValIs(2), rest |-> <<Holds(KeyIs(1)), Uncomparable>>],
    [first |-> Rows, rest |-> <<Holds(ValIs(2)), Holds(IsNull)>>] }

CarefulStatements ==
  { Insert(<<Row(1, 1, FALSE)>>), Insert(<<Row(2, 2, TRUE)>>), Insert(<<Row(3, 2, TRUE)>>),
    Insert(<<Row(1, 2, FALSE), Row(2, 1, FALSE)>>), Insert(<<Row(1, 2, FALSE), BadTuple>>) }
  \cup {Delete(w) : w \in SomeWheres}
  \cup {Update(w, s) : w \in SomeWheres, s \in {SetVal(2), CopyTo("val"), Float}}

MCStatements == CarefulStatements \cup {Select(w) : w \in SomeWheres}

=============================================================================
