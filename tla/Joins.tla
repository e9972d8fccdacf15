------------------------------- MODULE Joins --------------------------------
(***************************************************************************)
(* SELECT from several tables (decideJoinOrder, execute2JoinSelect and     *)
(* recursiveJoin of the interpreter).  One condition is chosen to scan     *)
(* with, the others are put in an order in which each shares a table with  *)
(* the one before, and recursiveJoin takes them one after the other: it    *)
(* scans the table a condition adds to those that are joined, or compares  *)
(* two that are.                                                           *)
(*                                                                         *)
(* The recursion is a stack of frames, one for each condition taken, with  *)
(* the records its scan has still to return.  What the code leaves         *)
(* undefined (a null pointer followed, an array indexed with -1) is a      *)
(* state of its own.  Each table has one column, a number, which may be    *)
(* its primary key, and all columns are selected.                          *)
(*                                                                         *)
(* A table is its slots, with the record each has or had, and its index,   *)
(* which the other statements do not keep up with them (Table, IndexFile): *)
(* it leads to slots whose record is deleted or has another key by now,    *)
(* and lacks keys that were set by an UPDATE or hung on a root it lost.    *)
(***************************************************************************)
EXTENDS Lists, FiniteSets, SequencesExt

CONSTANTS Relations, Froms,  \* tables, and the lists of them a query may name
          Contents,          \* the tables: [Relations -> [slots, entry]]
          Indexed,           \* tables whose column is the primary key
          Values, MAX_CONDS, \* the constants and the number of conditions of a query
          Null               \* no record; the right hand side of a condition on a constant

ASSUME JoinsAssumption ==
  /\ Null \notin Relations \cup Nat
  /\ Indexed \subseteq Relations
  /\ \A fs \in Froms : fs \in Seq(Relations) /\ fs # <<>>
  /\ \A tables \in Contents, r \in Relations :
       /\ tables[r].slots \in Seq([col : Int, alive : BOOLEAN])
       /\ \A key \in DOMAIN tables[r].entry : tables[r].entry[key] \in DOMAIN tables[r].slots
  /\ Values \subseteq Int
  /\ MAX_CONDS \in Nat

Ops == {"EQ", "LT"}

Holds(op, x, y) ==
  CASE op = "EQ" -> x = y
    [] op = "LT" -> x < y
    [] op = "NO" -> TRUE

\* A condition compares the column of table lhs with that of rhs or, when rhs is Null, with
\* value.
Conds(from) ==
  [lhs : ToSet(from), op : Ops, rhs : ToSet(from), value : {0}]
    \cup [lhs : ToSet(from), op : Ops, rhs : {Null}, value : Values]

VARIABLES from, conds, content,  \* the query and the tables
          queryOrder,
          joined,   \* table -> the slot of its record in the join, or Null
          frames,   \* [rel, left] for each condition taken
          pc,       \* "call" or "loop" of recursiveJoin, or how the query ended
          printed

query == <<from, conds, content>>
joins == <<query, queryOrder, joined, frames, pc, printed>>

NoTables == [r \in Relations |-> [slots |-> <<>>, entry |-> <<>>]]

Ended == pc \in {"done", "planning failed", "undefined"}

JoinsInit ==
  /\ from = <<>> /\ conds = <<>> /\ content = NoTables
  /\ queryOrder = <<>> /\ joined = [r \in Relations |-> Null] /\ frames = <<>>
  /\ pc = "no query" /\ printed = <<>>

-----------------------------------------------------------------------------
(* decideJoinOrder                                                          *)

\* The scan of all records of the first table that is added when nothing else can start.
AnyRecord(fs) == [lhs |-> fs[1], op |-> "NO", rhs |-> Null, value |-> 0]

\* The conditions as the plan has them, and the last that is not of one table with itself.
Planned(fs, cs) == IF \E i \in DOMAIN cs : cs[i].lhs # cs[i].rhs THEN cs ELSE Append(cs, AnyRecord(fs))

Start(cs) == Max({i \in DOMAIN cs : cs[i].lhs # cs[i].rhs})

\* The comparisons of relId and rhsRelId, which is -1 on both sides of two constants.
Shares(c, b) == {c.lhs, c.rhs} \cap {b.lhs, b.rhs} # {}

\* queryOrder: each time the first condition not taken that shares a table with the last one
\* taken; shorter than conds if the planning fails.
OrderFrom(cs) ==
  LET order[n \in 1 .. Len(cs)] ==
        IF n = 1 THEN <<Start(cs)>>
        ELSE LET taken == order[n - 1]
                 more == {i \in DOMAIN cs \ ToSet(taken) : Shares(cs[i], cs[Last(taken)])}
             IN IF Len(taken) < n - 1 \/ more = {} THEN taken ELSE Append(taken, Min(more))
  IN order[Len(cs)]

-----------------------------------------------------------------------------
\* A live record whose column is in relation op to x.
Live(table, i, op, x) == table.slots[i].alive /\ Holds(op, table.slots[i].col, x)

\* Their slots, as a FileScan comes to them.
Matches(table, op, x) ==
  Without([i \in DOMAIN table.slots |-> i], {i \in DOMAIN table.slots : ~Live(table, i, op, x)})

\* searchEntry: the slot of the key in the index.  getRec does not ask whether its record is
\* alive, and nothing compares its key.
Entry(table, key) == IF key \in DOMAIN table.entry THEN << table.entry[key] >> ELSE <<>>

\* The records of r related to x: by the index when there is one and op is equality.
Left(r, op, x) ==
  IF op = "EQ" /\ r \in Indexed THEN Entry(content[r], x) ELSE Matches(content[r], op, x)

ColumnOf(r) == content[r].slots[joined[r]].col

\* A query is planned; without a constant the first scan compares with a null pointer.
BeginJoin(fs, cs, tables) ==
  LET all   == Planned(fs, cs)
      order == OrderFrom(all)
      first == all[order[1]]
  IN
  /\ from' = fs /\ conds' = all /\ content' = tables
  /\ queryOrder' = order
  /\ joined' = [r \in Relations |-> Null]
  /\ printed' = <<>>
  /\ LET left == Matches(tables[first.lhs],
                         IF first.rhs # Null THEN "NO" ELSE first.op, first.value)
     IN /\ frames' = IF Len(order) = Len(all) THEN <<[rel |-> first.lhs, left |-> left]>> ELSE <<>>
        /\ pc' = IF Len(order) < Len(all) THEN "planning failed"
                 ELSE IF first.rhs # Null /\ left # <<>> THEN "undefined"
                 ELSE "loop"

\* The condition this call of recursiveJoin is for.
c == conds[queryOrder[Len(frames) + 1]]

Calling == pc = "call" /\ Len(frames) < Len(conds)

HasLhs == joined[c.lhs] # Null
HasRhs == c.rhs # Null /\ joined[c.rhs] # Null
Valued == c.rhs = Null

\* printSelected, when all conditions are taken.
PrintSelected ==
  /\ pc = "call" /\ Len(frames) = Len(conds)
  /\ IF \E r \in ToSet(from) : joined[r] = Null
       THEN pc' = "undefined" /\ UNCHANGED printed
       ELSE pc' = "loop" /\ printed' = Append(printed, [r \in ToSet(from) |-> joined[r]])
  /\ UNCHANGED <<query, queryOrder, joined, frames>>

\* A condition on a constant, beyond the first: the record would be joined as that of table
\* -1, or the table of the right hand side is looked up as -1.  When neither table is joined,
\* "[NOT IMPL] complex query plan", the call returns.
Unplanned ==
  /\ Calling
  /\ Valued \/ ~(HasLhs \/ HasRhs)
  /\ pc' = IF Valued THEN "undefined" ELSE "loop"
  /\ UNCHANGED <<query, queryOrder, joined, frames, printed>>

\* The call scans r.
Scan(r, op, x) ==
  /\ frames' = Append(frames, [rel |-> r, left |-> Left(r, op, x)])
  /\ pc' = "loop"
  /\ UNCHANGED <<query, queryOrder, joined, printed>>

\* The table on the right is joined, the one on the left is scanned ...
ScanLhs ==
  /\ Calling
  /\ ~HasLhs /\ HasRhs
  /\ Scan(c.lhs, c.op, ColumnOf(c.rhs))

\* ... or the other way round; the comparison is not turned round.
ScanRhs ==
  /\ Calling
  /\ HasLhs /\ ~HasRhs /\ ~Valued
  /\ Scan(c.rhs, c.op, ColumnOf(c.lhs))

\* Mutant of Compare: two tables that are joined are taken to match.
CompareNot ==
  /\ Calling
  /\ HasLhs /\ HasRhs
  /\ frames' = Append(frames, [rel |-> Null, left |-> <<>>]) /\ pc' = "call"
  /\ UNCHANGED <<query, queryOrder, joined, printed>>

\* Both are joined: the call goes on with the next condition, or returns.
Compare ==
  /\ Calling
  /\ HasLhs /\ HasRhs
  /\ IF Holds(c.op, ColumnOf(c.lhs), ColumnOf(c.rhs))
       THEN frames' = Append(frames, [rel |-> Null, left |-> <<>>]) /\ pc' = "call"
       ELSE frames' = frames /\ pc' = "loop"
  /\ UNCHANGED <<query, queryOrder, joined, printed>>

top == Last(frames)

\* Mutant of NextRecord: the scan returns the record again.
NextRecordStays ==
  /\ pc = "loop" /\ frames # <<>> /\ top.left # <<>>
  /\ joined' = [joined EXCEPT ![top.rel] = Head(top.left)]
  /\ pc' = "call"
  /\ UNCHANGED <<query, queryOrder, frames, printed>>

\* The loop of the innermost scan joins the next record and calls for the next condition.
NextRecord ==
  /\ pc = "loop" /\ frames # <<>> /\ top.left # <<>>
  /\ joined' = [joined EXCEPT ![top.rel] = Head(top.left)]
  /\ frames' = Append(Front(frames), [top EXCEPT !.left = Tail(@)])
  /\ pc' = "call"
  /\ UNCHANGED <<query, queryOrder, printed>>

\* Its records are exhausted, or it compared two tables: the call returns to its caller.
Return ==
  /\ pc = "loop" /\ frames # <<>> /\ top.left = <<>>
  /\ joined' = IF top.rel = Null THEN joined ELSE [joined EXCEPT ![top.rel] = Null]
  /\ frames' = Front(frames)
  /\ UNCHANGED <<query, queryOrder, pc, printed>>

Finish ==
  /\ pc = "loop" /\ frames = <<>>
  /\ pc' = "done"
  /\ UNCHANGED <<query, queryOrder, joined, frames, printed>>

\* Nothing of a query is left for the next one.
Forget ==
  /\ Ended
  /\ from' = <<>> /\ conds' = <<>> /\ content' = NoTables
  /\ queryOrder' = <<>> /\ joined' = [r \in Relations |-> Null] /\ frames' = <<>>
  /\ pc' = "no query" /\ printed' = <<>>

Join == \/ PrintSelected \/ Unplanned \/ ScanLhs \/ ScanRhs \/ Compare
        \/ NextRecord \/ Return \/ Finish

JoinsNext ==
  \/ /\ pc = "no query"
     /\ \E fs \in Froms, tables \in Contents, n \in 0 .. MAX_CONDS :
          \E cs \in [1 .. n -> Conds(fs)] : BeginJoin(fs, cs, tables)
  \/ Join
  \/ Forget

\* A query that is begun is executed.
JoinsSpec == JoinsInit /\ [][JoinsNext]_joins /\ WF_joins(Join)

-----------------------------------------------------------------------------
\* A plan that starts from a constant and needs no other, and joins all tables.
Supported ==
  /\ pc # "no query"
  /\ Len(queryOrder) = Len(conds)
  /\ {i \in DOMAIN conds : conds[i].rhs = Null} = {queryOrder[1]}
  /\ ToSet(from) \subseteq {conds[i].lhs : i \in DOMAIN conds} \cup {conds[i].rhs : i \in DOMAIN conds}

\* The tables joined by the conditions before the nth of the plan.
JoinedBefore(n) == UNION {{conds[queryOrder[i]].lhs, conds[queryOrder[i]].rhs} : i \in 1 .. n - 1}

\* No < is used to scan the table on its right.
Oriented ==
  \A n \in 2 .. Len(queryOrder) :
    conds[queryOrder[n]].op = "EQ" \/ conds[queryOrder[n]].rhs \in JoinedBefore(n)

\* The indexes lead to the live records of their keys and to all of them.
Current ==
  \A r \in ToSet(from) \cap Indexed :
    LET slots == content[r].slots
        entry == content[r].entry
    IN
    /\ \A key \in DOMAIN entry : slots[entry[key]] = [col |-> key, alive |-> TRUE]
    /\ \A i \in DOMAIN slots :
         slots[i].alive => slots[i].col \in DOMAIN entry /\ entry[slots[i].col] = i

Combinations ==
  {f \in [ToSet(from) -> UNION {DOMAIN content[r].slots : r \in ToSet(from)}] :
     \A r \in ToSet(from) : f[r] \in DOMAIN content[r].slots}

\* The column that combination f has of table r.
Column(r, f) == content[r].slots[f[r]].col

\* The answer of the query: the combinations of live records that satisfy all conditions.
Wanted ==
  {f \in Combinations :
     /\ \A r \in ToSet(from) : content[r].slots[f[r]].alive
     /\ \A i \in DOMAIN conds :
          Holds(conds[i].op, Column(conds[i].lhs, f),
                IF conds[i].rhs = Null THEN conds[i].value ELSE Column(conds[i].rhs, f))}

\* What can be said of slot i of table r when it is reached from a value x: the index gives it
\* for the key x, or it is live and related to x.
Reached(r, op, x, i) ==
  IF op = "EQ" /\ r \in Indexed THEN x \in DOMAIN content[r].entry /\ content[r].entry[x] = i
  ELSE Live(content[r], i, op, x)

\* What the nth condition of the plan demands of a combination, by the tables that the ones
\* before it have joined.
Admits(n, f) ==
  LET q == conds[queryOrder[n]]
      before == JoinedBefore(n)
  IN
  CASE n = 1 -> Live(content[q.lhs], f[q.lhs], q.op, q.value)
    [] n > 1 /\ q.lhs \in before /\ q.rhs \in before ->
         Holds(q.op, Column(q.lhs, f), Column(q.rhs, f))
    [] n > 1 /\ q.lhs \notin before -> Reached(q.lhs, q.op, Column(q.rhs, f), f[q.lhs])
    [] n > 1 /\ q.lhs \in before /\ q.rhs \notin before ->
         Reached(q.rhs, q.op, Column(q.lhs, f), f[q.rhs])

Admitted == {f \in Combinations : \A n \in 1 .. Len(conds) : Admits(n, f)}

\* A supported query never meets undefined behaviour nor a plan that is not implemented, and
\* prints once each combination that all conditions of its plan admit, although the first is
\* not looked at again and any other may be used to scan either of its tables or to compare
\* them.  That is the answer to the query when no < scans the table on its right and the
\* indexes are current; when they are not, what an index gives is printed, be it deleted or
\* changed, and what it lacks is not.
JoinExact ==
  Supported =>
    /\ pc # "undefined"
    /\ Calling => HasLhs \/ HasRhs
    /\ pc = "done" =>
         /\ ToSet(printed) = Admitted /\ IsInjective(printed)
         /\ Oriented /\ Current => ToSet(printed) = Wanted

\* Every query ends: with its rows, refused by the planner, or undefined.
JoinEnds == pc \in {"call", "loop"} ~> Ended
=============================================================================
