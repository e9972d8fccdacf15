---------------------------- MODULE AtomicTable ----------------------------
(***************************************************************************)
(* What a table promises to those who type statements: a statement is      *)
(* executed at once, on the table as it was when it began, or is refused   *)
(* and changes nothing.  A statement is refused when there is a reason for *)
(* it, in its tuples or in the rows it would change, and only then.        *)
(*                                                                         *)
(* entered are the keys that INSERT refuses: all there ever were, as the   *)
(* index keeps those of deleted rows.                                      *)
(***************************************************************************)
EXTENDS Integers, Sequences

CONSTANTS RIDs, Statements, NoRow

VARIABLES rows, entered, state, call

Init ==
  /\ rows = [r \in RIDs |-> NoRow]
  /\ entered = {}
  /\ state = "idle" /\ call \in Statements

Begin(s) ==
  /\ state # "running"
  /\ state' = "running" /\ call' = s
  /\ UNCHANGED <<rows, entered>>

-----------------------------------------------------------------------------
Tuples == {call.tuples[i] : i \in DOMAIN call.tuples}

Unacceptable == \E t \in Tuples : ~t.valid \/ t.row.key \in entered

\* Each tuple gets a record of its own that was free.
Insert ==
  /\ state = "running" /\ call.kind = "insert" /\ ~Unacceptable
  /\ \E at \in [DOMAIN call.tuples -> {r \in RIDs : rows[r] = NoRow}] :
       /\ \A i, j \in DOMAIN at : at[i] = at[j] => i = j
       /\ rows' = [r \in RIDs |-> IF \E i \in DOMAIN at : at[i] = r
                                    THEN call.tuples[CHOOSE i \in DOMAIN at : at[i] = r].row
                                    ELSE rows[r]]
  /\ entered' = entered \cup {t.row.key : t \in Tuples}
  /\ state' = "done" /\ UNCHANGED call

-----------------------------------------------------------------------------
Candidates == {r \in RIDs : rows[r] # NoRow /\ rows[r] \in call.where.first}

\* The record meets the conditions before the nth.
Meets(r, n) == \A i \in 1 .. n - 1 : rows[r] \in call.where.rest[i].holds

\* Conditions are evaluated in order until one does not hold, and some cannot be.
Undecided ==
  {r \in Candidates : \E n \in DOMAIN call.where.rest : call.where.rest[n].bad /\ Meets(r, n)}

Selected == {r \in Candidates \ Undecided : Meets(r, Len(call.where.rest) + 1)}

Impossible == Undecided # {} \/ (call.kind = "update" /\ call.set.col = "float" /\ Selected # {})

\* The columns of a row that can be set, and the one that is not set.
OtherColumn(col) == CHOOSE c \in {"key", "val"} : c # col

Result(row) ==
  CASE call.kind = "delete" -> NoRow
    [] call.kind = "update" ->
         [row EXCEPT ![call.set.col] = IF call.set.from = "value" THEN call.set.value
                                       ELSE row[OtherColumn(call.set.col)]]
    [] call.kind = "select" -> row

\* DELETE, UPDATE and SELECT.
Change ==
  /\ state = "running" /\ call.kind # "insert" /\ ~Impossible
  /\ rows' = [r \in RIDs |-> IF r \in Selected THEN Result(rows[r]) ELSE rows[r]]
  /\ state' = "done" /\ UNCHANGED <<entered, call>>

Refuse ==
  /\ state = "running"
  /\ IF call.kind = "insert" THEN Unacceptable ELSE Impossible
  /\ state' = "refused" /\ UNCHANGED <<rows, entered, call>>

Next == Insert \/ Change \/ Refuse \/ \E s \in Statements : Begin(s)

Spec == Init /\ [][Next]_<<rows, entered, state, call>>
=============================================================================
