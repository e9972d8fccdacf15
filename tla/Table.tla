------------------------------- MODULE Table -------------------------------
(***************************************************************************)
(* INSERT, DELETE, UPDATE and SELECT on one table with an INT primary key  *)
(* and one more INT column (ql/interpreter.cpp), statement by statement,   *)
(* each iteration of a statement's loops one action.  The record file is a *)
(* heap of rows, by what RecordFile shows of it, and a scan goes through   *)
(* it in the order of the identifiers, by what RecordScan shows.  The      *)
(* index is a map, by what BPlusTree shows of it between two openings;     *)
(* what IndexFile shows is lost at an opening is left out here.            *)
(*                                                                         *)
(* A statement refused before its loops (no such table, a WHERE on or a    *)
(* SET of no such column, types that differ in SET) changes nothing and is *)
(* left out.  So are statements with undefined behaviour: an INSERT of     *)
(* NULL as the primary key, which dereferences a null pointer, and an      *)
(* UPDATE that sets from no such column, which is not refused and reads    *)
(* dataAttrInfo[-1].                                                       *)
(*                                                                         *)
(* before is the table at the start of the statement; no operation reads   *)
(* it.                                                                     *)
(***************************************************************************)
EXTENDS Integers, Sequences, FiniteSets

CONSTANTS MAX_RID,     \* bound of the model: record identifiers 1 .. MAX_RID
          Ints,        \* values of the columns
          Statements,  \* what is executed
          NoRow, NoRID

\* A row's null bit is kept apart from the value, as in the record.
Rows   == [key : Ints, val : Ints, null : BOOLEAN]
Tuples == [row : Rows, valid : BOOLEAN]  \* valid: as many values as columns, of their types

\* A condition: the rows it holds of, or bad: it compares columns or values of two types.
Conditions == [holds : SUBSET Rows, bad : BOOLEAN]

\* The condition given to the scan, which compares no types, and the others in order.
Wheres == [first : SUBSET Rows, rest : Seq(Conditions)]

\* SET col = value, or the other column; "float" is a column that UPDATE cannot set.
Settings == [col : {"key", "val", "float"}, from : {"value", "column"}, value : Ints]

ASSUME TableAssumption ==
  /\ MAX_RID \in Nat
  /\ Statements \subseteq [kind : {"insert", "delete", "update", "select"},
                           tuples : Seq(Tuples), where : Wheres, set : Settings]
  /\ \A s \in Statements : s.kind = "insert" => s.tuples # <<>>
  /\ NoRow \notin Rows
  /\ NoRID \notin 1 .. MAX_RID

RIDs == 1 .. MAX_RID

VARIABLES heap,      \* RID -> row, or NoRow
          index,     \* key -> RID, or NoRID
          phase,     \* the loop the statement is in, or how it ended
          call,      \* the statement
          pos,       \* the tuple, or the record of the scan, to look at next
          affected,  \* the records inserted, deleted, updated or printed
          before

store     == <<heap, index>>
statement == <<phase, call, pos, affected, before>>
vars      == <<store, statement>>

Init ==
  /\ heap = [r \in RIDs |-> NoRow]
  /\ index = [k \in Ints |-> NoRID]
  /\ phase = "idle" /\ call \in Statements
  /\ pos = 1 /\ affected = {} /\ before = heap

Running == phase \in {"validate", "insert", "scan"}

\* Bound of the model: the rows of an INSERT fit.
Fits(s) == Len(s.tuples) <= Cardinality({r \in RIDs : heap[r] = NoRow})

Begin(s) ==
  /\ ~Running
  /\ s.kind = "insert" => Fits(s)
  /\ phase' = IF s.kind = "insert" THEN "validate" ELSE "scan"
  /\ call' = s
  /\ pos' = 1 /\ affected' = {} /\ before' = heap
  /\ UNCHANGED store

End(how) == phase' = how /\ UNCHANGED <<call, before>>

-----------------------------------------------------------------------------
(***************************************************************************)
(* INSERT: all tuples are looked at before any is inserted.                *)
(***************************************************************************)
Tuple == call.tuples[pos]

LastTuple == pos = Len(call.tuples)

\* Mutant of Accept: the key is not searched.
AcceptUnsearched ==
  /\ phase = "validate"
  /\ Tuple.valid
  /\ IF LastTuple THEN pos' = 1 /\ End("insert") ELSE pos' = pos + 1 /\ End("validate")
  /\ UNCHANGED <<store, affected>>

\* The first loop.  A NULL in a column declared NOT NULL is reported and accepted.
Accept ==
  /\ phase = "validate"
  /\ Tuple.valid
  /\ index[Tuple.row.key] = NoRID
  /\ IF LastTuple THEN pos' = 1 /\ End("insert") ELSE pos' = pos + 1 /\ End("validate")
  /\ UNCHANGED <<store, affected>>

\* Too many or too few values, or one of another type.
RejectTuple ==
  /\ phase = "validate"
  /\ ~Tuple.valid
  /\ End("error")
  /\ UNCHANGED <<store, pos, affected>>

\* "primary key conflict"; it may be met before the tuple's mistake, if it has one.
Conflict ==
  /\ phase = "validate"
  /\ index[Tuple.row.key] # NoRID
  /\ End("conflict")
  /\ UNCHANGED <<store, pos, affected>>

\* The second loop: insertRec, in any slot that has no record, and insertEntry, which keeps
\* the entry of a key that has one.
InsertTuple ==
  /\ phase = "insert"
  /\ \E r \in RIDs :
       /\ heap[r] = NoRow
       /\ heap' = [heap EXCEPT ![r] = Tuple.row]
       /\ index' = IF index[Tuple.row.key] = NoRID
                     THEN [index EXCEPT ![Tuple.row.key] = r] ELSE index
       /\ affected' = affected \cup {r}
  /\ pos' = pos + 1
  /\ End(IF LastTuple THEN "done" ELSE "insert")

-----------------------------------------------------------------------------
(***************************************************************************)
(* DELETE, UPDATE and SELECT: a scan by one condition, then the others.    *)
(***************************************************************************)
\* No condition stops the row.
Passes(row, rest) == \A i \in DOMAIN rest : ~rest[i].bad /\ row \in rest[i].holds

\* The first condition that stops the row is one that cannot be evaluated.
Fails(row, rest) ==
  \E i \in DOMAIN rest : rest[i].bad /\ \A j \in 1 .. i - 1 : row \in rest[j].holds

Scanning == phase = "scan" /\ pos \in RIDs

Returned == heap[pos] # NoRow /\ heap[pos] \in call.where.first

\* Mutant of SkipRow: the cursor stays.
SkipRowStays ==
  /\ Scanning
  /\ Returned => ~Passes(heap[pos], call.where.rest) /\ ~Fails(heap[pos], call.where.rest)
  /\ UNCHANGED vars

\* Mutant of SkipRow: a condition that cannot be evaluated counts as one that does not hold.
SkipRowUndecided ==
  /\ Scanning
  /\ Returned => ~Passes(heap[pos], call.where.rest)
  /\ pos' = pos + 1
  /\ UNCHANGED <<store, phase, call, affected, before>>

\* The scan does not return the record, or a condition does not hold.
SkipRow ==
  /\ Scanning
  /\ Returned => ~Passes(heap[pos], call.where.rest) /\ ~Fails(heap[pos], call.where.rest)
  /\ pos' = pos + 1
  /\ UNCHANGED <<store, phase, call, affected, before>>

CannotSet == call.kind = "update" /\ call.set.col = "float"

\* "uncomparable attributes", or a column that UPDATE cannot set.
FailRow ==
  /\ Scanning
  /\ Returned
  /\ \/ Fails(heap[pos], call.where.rest)
     \/ Passes(heap[pos], call.where.rest) /\ CannotSet
  /\ End("error")
  /\ UNCHANGED <<store, pos, affected>>

\* The null bit of the column that is set, or read, is not looked at.
SetTo(row, set) ==
  CASE set.col = "key" -> [row EXCEPT !.key = IF set.from = "value" THEN set.value ELSE row.val]
    [] set.col = "val" -> [row EXCEPT !.val = IF set.from = "value" THEN set.value ELSE row.key]
    [] OTHER -> row

\* What the statement makes of a row that it selects.
After(row) ==
  CASE call.kind = "delete" -> NoRow
    [] call.kind = "update" -> SetTo(row, call.set)
    [] OTHER -> row

\* Mutant of ActOnRow: a condition that does not hold is passed over, not the row.
ActOnRowAnyway ==
  /\ Scanning
  /\ Returned
  /\ ~Fails(heap[pos], call.where.rest) /\ ~CannotSet
  /\ heap' = [heap EXCEPT ![pos] = After(@)]
  /\ affected' = affected \cup {pos}
  /\ pos' = pos + 1
  /\ UNCHANGED <<index, phase, call, before>>

\* deleteRec, which leaves the key in the index (removeEntry is commented out); updateRec,
\* which has nothing to do with it; or the row is printed.
ActOnRow ==
  /\ Scanning
  /\ Returned
  /\ Passes(heap[pos], call.where.rest) /\ ~CannotSet
  /\ heap' = [heap EXCEPT ![pos] = After(@)]
  /\ affected' = affected \cup {pos}
  /\ pos' = pos + 1
  /\ UNCHANGED <<index, phase, call, before>>

EndScan ==
  /\ phase = "scan" /\ pos = MAX_RID + 1
  /\ End("done")
  /\ UNCHANGED <<store, pos, affected>>

-----------------------------------------------------------------------------
Work ==
  \/ Accept \/ RejectTuple \/ Conflict \/ InsertTuple
  \/ SkipRow \/ FailRow \/ ActOnRow \/ EndScan

Next == Work \/ \E s \in Statements : Begin(s)

\* A statement that has begun runs; nothing says that another one begins.
Spec == Init /\ [][Next]_vars /\ WF_vars(Work)

-----------------------------------------------------------------------------
\* Type correctness; no loop of INSERT reads past the tuples.
TypeOK ==
  /\ heap \in [RIDs -> Rows \cup {NoRow}]
  /\ before \in [RIDs -> Rows \cup {NoRow}]
  /\ index \in [Ints -> RIDs \cup {NoRID}]
  /\ phase \in {"idle", "validate", "insert", "scan", "done", "error", "conflict"}
  /\ call \in Statements
  /\ affected \subseteq RIDs
  /\ pos \in Nat \ {0}
  /\ phase \in {"validate", "insert"} => call.kind = "insert" /\ pos <= Len(call.tuples)

\* The first n tuples of the statement are in the table, each in a record of its own that
\* was free, and all other records are as they were.
Inserted(n) ==
  \E at \in [1 .. n -> RIDs] :
    /\ \A i, j \in 1 .. n : at[i] = at[j] => i = j
    /\ \A i \in 1 .. n : before[at[i]] = NoRow /\ heap[at[i]] = call.tuples[i].row
    /\ affected = {at[i] : i \in 1 .. n}
    /\ \A r \in RIDs \ affected : heap[r] = before[r]

\* The rows of S that meet the WHERE clause, as they were before the statement, have become
\* what the statement makes of them, and all other records are as they were.
Changed(S) ==
  /\ affected = {r \in S : /\ before[r] # NoRow /\ before[r] \in call.where.first
                           /\ Passes(before[r], call.where.rest)}
  /\ heap = [r \in RIDs |-> IF r \in affected THEN After(before[r]) ELSE before[r]]

\* A statement that ends without an error has done all it says, and nothing else, though
\* its scan runs over the table that it changes and its rows fill slots others left.
StatementExact ==
  phase = "done" => IF call.kind = "insert" THEN Inserted(Len(call.tuples)) ELSE Changed(RIDs)

\* A statement that ends with an error, at any tuple or any row, has changed nothing: a
\* condition that cannot be evaluated for one row lets no other row pass.
ErrorChangesNothing == phase \in {"error", "conflict"} => heap = before

\* A statement ends, at the latest with the scan at the end of the file.
StatementEnds == Running ~> ~Running

\* No two rows have the same primary key.
KeysUnique ==
  \A r, q \in RIDs :
    heap[r] # NoRow /\ heap[q] # NoRow /\ heap[r].key = heap[q].key => r = q

\* The keys with an entry when the statement began.
KnownKeys ==
  {k \in Ints : index[k] # NoRID}
    \ (IF phase = "insert" THEN {call.tuples[i].row.key : i \in 1 .. pos - 1} ELSE {})

Outcome ==
  CASE Running -> "running"
    [] phase \in {"error", "conflict"} -> "refused"
    [] OTHER -> phase

Promise == INSTANCE AtomicTable WITH rows <- IF Running THEN before ELSE heap,
                                     entered <- KnownKeys, state <- Outcome

\* Statements are atomic, although they are loops that change the table row by row and
\* find their mistakes on the way: each has its whole effect when it ends, or is refused,
\* which it is exactly if a tuple, or a row of the table as it was, is a reason to.
StatementsAtomic == Promise!Spec

=============================================================================
