----------------------------- MODULE Databases ------------------------------
(***************************************************************************)
(* What CREATE, USE and DROP of databases and tables, INSERT and DELETE    *)
(* are for: databases of tables of rows, each statement changing what it   *)
(* names in the current database and nothing else.  Any of them may be     *)
(* refused, which changes no rows; one that names a database leaves the    *)
(* current one.                                                            *)
(***************************************************************************)
CONSTANTS Names, Tables, Rows,
          Absent  \* a database or a table that does not exist; no current database

VARIABLES rowsOf,  \* [Names -> Absent or [Tables -> Absent or a set of rows]]
          current

vars == <<rowsOf, current>>

NoTables == [t \in Tables |-> Absent]

Init == rowsOf = [d \in Names |-> Absent] /\ current = Absent

CreateDatabase(d) ==
  /\ rowsOf[d] = Absent
  /\ rowsOf' = [rowsOf EXCEPT ![d] = NoTables]
  /\ current' = Absent

DropDatabase(d) ==
  /\ rowsOf[d] # Absent
  /\ rowsOf' = [rowsOf EXCEPT ![d] = Absent]
  /\ current' = Absent

UseDatabase(d) == rowsOf[d] # Absent /\ current' = d /\ UNCHANGED rowsOf

\* A statement about a database that is refused; the end of the process.
Leave == current' = Absent /\ UNCHANGED rowsOf

\* A statement on table t makes its rows new.
Change(t, new) ==
  /\ current # Absent
  /\ rowsOf' = [rowsOf EXCEPT ![current][t] = new]
  /\ UNCHANGED current

CreateTable(t) == rowsOf[current][t] = Absent /\ Change(t, {})
DropTable(t)   == rowsOf[current][t] # Absent /\ Change(t, Absent)
Insert(t, r)   == rowsOf[current][t] # Absent /\ Change(t, rowsOf[current][t] \cup {r})
Delete(t)      == rowsOf[current][t] # Absent /\ Change(t, {})

Next ==
  \/ \E d \in Names : CreateDatabase(d) \/ DropDatabase(d) \/ UseDatabase(d)
  \/ Leave
  \/ /\ current # Absent
     /\ \E t \in Tables : CreateTable(t) \/ DropTable(t) \/ Delete(t) \/ \E r \in Rows : Insert(t, r)

Spec == Init /\ [][Next]_vars
=============================================================================
