-------------------------- MODULE InterpreterProofs -------------------------
(***************************************************************************)
(* Table and Joins, for every set of statements and tables of every size.  *)
(*                                                                         *)
(* A statement is exact because its loop keeps a boundary: tuples before   *)
(* pos are in, records before pos are changed, and the rest is as it was.  *)
(* An error changes nothing because a condition that is bad for one row    *)
(* lets no row pass.  Keys stay unique only under careful statements: then *)
(* every row is the one its key's entry points at, although the index also *)
(* keeps entries of rows long deleted.                                     *)
(*                                                                         *)
(* That statements are atomic (AtomicTable) rests on what the loops have   *)
(* found out on the way (FoundOut): one that ends well had no reason to be *)
(* refused, in any tuple or row.                                           *)
(*                                                                         *)
(* A complete plan of a join prints each row that its conditions admit,    *)
(* once, and no other: the invariant says of the stack of frames which     *)
(* tables are joined, that the conditions taken admit every row that       *)
(* agrees with the records joined or that a frame has still to come to,    *)
(* and that a row that is admitted was printed or is still to come, never  *)
(* both.  That these rows are the answer to the query is a matter of the   *)
(* contents alone, when the indexes are current: each table is live where  *)
(* the condition that adds it has reached it.                              *)
(***************************************************************************)
EXTENDS Table, Joins, ListsProofs

Progress ==
  /\ phase = "validate" => heap = before /\ affected = {}
  /\ phase = "insert" => Inserted(pos - 1)
  /\ phase = "scan" => /\ call.kind # "insert"
                       /\ pos \in 1 .. MAX_RID + 1
                       /\ Changed(1 .. pos - 1)
                       /\ CannotSet => affected = {}

TableInv ==
  /\ TypeOK
  /\ Progress
  /\ StatementExact
  /\ ErrorChangesNothing

-----------------------------------------------------------------------------
LEMMA CallFields ==
  ASSUME TypeOK
  PROVE  /\ call.tuples \in Seq(Tuples)
         /\ call.where.first \subseteq Rows
         /\ call.where.rest \in Seq(Conditions)
         /\ call.set \in Settings
BY TableAssumption DEF TypeOK, Wheres

\* The tuple that a loop of INSERT looks at.
LEMMA TupleType ==
  ASSUME TypeOK, phase \in {"validate", "insert"}
  PROVE  /\ Tuple \in Tuples
         /\ Tuple.row \in Rows
         /\ Tuple.row.key \in Ints
         /\ pos \in 1 .. Len(call.tuples)
<1>1. pos \in 1 .. Len(call.tuples) /\ call.tuples \in Seq(Tuples)
  BY CallFields DEF TypeOK
<1>2. Tuple \in Tuples
  BY <1>1 DEF Tuple
<1> QED
  BY <1>1, <1>2 DEF Tuples, Rows

LEMMA SetToType == ASSUME NEW row \in Rows, NEW s \in Settings PROVE SetTo(row, s) \in Rows
<1>1. s.value \in Ints /\ row.key \in Ints /\ row.val \in Ints
  BY DEF Rows, Settings
<1>2. CASE s.col = "key"
  BY <1>1, <1>2 DEF SetTo, Rows
<1>3. CASE s.col = "val"
  BY <1>1, <1>3 DEF SetTo, Rows
<1>4. CASE s.col = "float"
  BY <1>4 DEF SetTo
<1> QED
  BY <1>2, <1>3, <1>4 DEF Settings

LEMMA AfterType ==
  ASSUME TypeOK, NEW row \in Rows
  PROVE  After(row) \in Rows \cup {NoRow}
<1>1. SetTo(row, call.set) \in Rows
  BY CallFields, SetToType
<1> QED
  BY <1>1 DEF After

-----------------------------------------------------------------------------
LEMMA InitTableInv == Init => TableInv
BY TableAssumption DEF Init, TableInv, TypeOK, Progress, StatementExact, ErrorChangesNothing, RIDs

LEMMA BeginInv == ASSUME TableInv, NEW s \in Statements, Begin(s) PROVE TableInv'
<1>1. /\ call' = s /\ pos' = 1 /\ affected' = {} /\ before' = heap
      /\ heap' = heap /\ index' = index
      /\ phase' = IF s.kind = "insert" THEN "validate" ELSE "scan"
  BY DEF Begin, store
<1>2. s.kind = "insert" => 1 <= Len(s.tuples)
  <2>1. s.tuples \in Seq(Tuples) /\ (s.kind = "insert" => s.tuples # <<>>)
    BY TableAssumption
  <2> QED
    BY <2>1
<1>3. TypeOK'
  BY <1>1, <1>2 DEF TableInv, TypeOK
<1>4. CASE s.kind = "insert"
  BY <1>1, <1>3, <1>4 DEF TableInv, Progress, StatementExact, ErrorChangesNothing
<1>5. CASE s.kind # "insert"
  <2>1. 1 .. pos' - 1 = {} /\ pos' \in 1 .. MAX_RID + 1
    BY <1>1, TableAssumption
  <2>2. Changed(1 .. pos - 1)'
    <3>1. heap' = [r \in RIDs |-> before'[r]]
      BY <1>1 DEF TableInv, TypeOK
    <3> QED
      BY <1>1, <2>1, <3>1 DEF Changed
  <2> QED
    BY <1>1, <1>3, <1>5, <2>1, <2>2
    DEF TableInv, Progress, StatementExact, ErrorChangesNothing
<1> QED
  BY <1>4, <1>5

\* The loops of INSERT.
LEMMA AcceptInv == ASSUME TableInv, Accept PROVE TableInv'
<1>1. /\ phase = "validate" /\ UNCHANGED <<heap, index, affected, call, before>>
      /\ \/ ~LastTuple /\ pos' = pos + 1 /\ phase' = "validate"
         \/ LastTuple /\ pos' = 1 /\ phase' = "insert"
  BY DEF Accept, End, store
<1>2. /\ pos \in 1 .. Len(call.tuples) /\ Len(call.tuples) \in Nat
      /\ call.kind = "insert" /\ heap = before /\ affected = {}
  BY <1>1, TupleType, CallFields DEF TableInv, TypeOK, Progress
<1>3. TypeOK'
  BY <1>1, <1>2 DEF TableInv, TypeOK, LastTuple
<1>4. ASSUME phase' = "insert" PROVE Inserted(pos - 1)'
  <2> DEFINE at == [i \in 1 .. 0 |-> 1]
  <2>1. pos' - 1 = 0 /\ 1 .. 0 = {}
    BY <1>1, <1>4
  <2>2. at \in [1 .. 0 -> RIDs]
    BY <2>1
  <2>3. affected' = {at[i] : i \in 1 .. 0} /\ \A r \in RIDs : heap'[r] = before'[r]
    BY <1>1, <1>2, <2>1
  <2> HIDE DEF at
  <2> QED
    BY <2>1, <2>2, <2>3 DEF Inserted
<1> QED
  BY <1>1, <1>2, <1>3, <1>4 DEF TableInv, Progress, StatementExact, ErrorChangesNothing

LEMMA RefuseInv == ASSUME TableInv, RejectTuple \/ Conflict PROVE TableInv'
<1>1. /\ phase = "validate" /\ phase' \in {"error", "conflict"}
      /\ UNCHANGED <<heap, index, pos, affected, call, before>>
  BY DEF RejectTuple, Conflict, End, store
<1> QED
  BY <1>1 DEF TableInv, TypeOK, Progress, StatementExact, ErrorChangesNothing

LEMMA InsertTupleInv == ASSUME TableInv, InsertTuple PROVE TableInv'
<1>1. PICK p \in Nat : p = pos
  BY DEF TableInv, TypeOK
<1>2. PICK t \in Rows : t = Tuple.row
  BY TupleType DEF TableInv, InsertTuple
<1>3. PICK r \in RIDs :
        /\ heap[r] = NoRow
        /\ heap' = [heap EXCEPT ![r] = t]
        /\ index' = IF index[t.key] = NoRID THEN [index EXCEPT ![t.key] = r] ELSE index
        /\ affected' = affected \cup {r}
  BY <1>2 DEF InsertTuple
<1>4. /\ phase = "insert" /\ pos' = p + 1 /\ call' = call /\ before' = before
      /\ phase' = IF LastTuple THEN "done" ELSE "insert"
  BY <1>1 DEF InsertTuple, End
<1>5. /\ p \in 1 .. Len(call.tuples) /\ Len(call.tuples) \in Nat /\ call.kind = "insert"
      /\ call.tuples[p].row = t
  BY <1>1, <1>2, <1>4, TupleType, CallFields DEF TableInv, TypeOK, Tuple
<1>6. TypeOK'
  <2>1. index' \in [Ints -> RIDs \cup {NoRID}]
    BY <1>3 DEF TableInv, TypeOK
  <2>2. heap' \in [RIDs -> Rows \cup {NoRow}] /\ affected' \subseteq RIDs
    BY <1>3 DEF TableInv, TypeOK
  <2>3. pos' \in Nat \ {0} /\ (phase' = "insert" => pos' <= Len(call.tuples))
    BY <1>1, <1>4, <1>5 DEF LastTuple
  <2> QED
    BY <1>4, <1>5, <2>1, <2>2, <2>3 DEF TableInv, TypeOK
<1>7. Inserted(p)'
  <2>1. PICK at \in [1 .. p - 1 -> RIDs] :
          /\ \A i, j \in 1 .. p - 1 : at[i] = at[j] => i = j
          /\ \A i \in 1 .. p - 1 : before[at[i]] = NoRow /\ heap[at[i]] = call.tuples[i].row
          /\ affected = {at[i] : i \in 1 .. p - 1}
          /\ \A q \in RIDs \ affected : heap[q] = before[q]
    BY <1>1, <1>4 DEF TableInv, Progress, Inserted
  <2>2. \A i \in 1 .. p - 1 : at[i] # r
    <3> SUFFICES ASSUME NEW i \in 1 .. p - 1, at[i] = r PROVE FALSE
      OBVIOUS
    <3>1. i \in 1 .. Len(call.tuples)
      BY <1>5
    <3>2. call.tuples[i].row \in Rows
      <4>1. call.tuples \in Seq(Tuples)
        BY CallFields DEF TableInv
      <4>2. call.tuples[i] \in Tuples
        BY <3>1, <4>1
      <4> QED
        BY <4>2 DEF Tuples
    <3> QED
      BY <2>1, <3>2, <1>3, TableAssumption
  <2>3. before[r] = NoRow
    BY <2>1, <2>2, <1>3
  <2> DEFINE more == [i \in 1 .. p |-> IF i = p THEN r ELSE at[i]]
  <2>4. \A i \in 1 .. p : i # p => i \in 1 .. p - 1
    OBVIOUS
  <2>5. more \in [1 .. p -> RIDs]
    BY <2>4
  <2>6. \A i, j \in 1 .. p : more[i] = more[j] => i = j
    BY <2>1, <2>2, <2>4
  <2>7. ASSUME NEW i \in 1 .. p
        PROVE  before'[more[i]] = NoRow /\ heap'[more[i]] = call'.tuples[i].row
    <3>1. CASE i = p
      BY <3>1, <1>3, <1>4, <1>5, <2>3 DEF TableInv, TypeOK
    <3>2. CASE i # p
      BY <3>2, <1>3, <1>4, <2>1, <2>2, <2>4 DEF TableInv, TypeOK
    <3> QED
      BY <3>1, <3>2
  <2>8. affected' = {more[i] : i \in 1 .. p}
    <3>1. p \in 1 .. p /\ more[p] = r /\ \A i \in 1 .. p - 1 : i \in 1 .. p /\ more[i] = at[i]
      BY <1>5
    <3> QED
      BY <3>1, <2>1, <2>4, <1>3
  <2>9. \A q \in RIDs \ affected' : heap'[q] = before'[q]
    BY <2>1, <1>3, <1>4 DEF TableInv, TypeOK
  <2> HIDE DEF more
  <2> QED
    BY <2>5, <2>6, <2>7, <2>8, <2>9 DEF Inserted
<1>8. pos' - 1 = p
  BY <1>4
<1>9. LastTuple => p = Len(call'.tuples)
  BY <1>1, <1>4 DEF LastTuple
<1> QED
  BY <1>4, <1>5, <1>6, <1>7, <1>8, <1>9
  DEF TableInv, Progress, StatementExact, ErrorChangesNothing

-----------------------------------------------------------------------------
\* The scan.  The records from pos on are as they were.
LEMMA AheadUnchanged ==
  ASSUME TableInv, Scanning
  PROVE  heap[pos] = before[pos] /\ pos \notin affected
<1>1. affected \subseteq 1 .. pos - 1 /\ pos \in RIDs
  BY DEF TableInv, Progress, Changed, Scanning
<1>2. pos \notin affected
  BY <1>1 DEF RIDs
<1> QED
  BY <1>1, <1>2 DEF TableInv, Progress, Changed, Scanning

LEMMA SkipRowInv == ASSUME TableInv, SkipRow PROVE TableInv'
<1>1. PICK p \in 1 .. MAX_RID : p = pos
  BY DEF SkipRow, Scanning, RIDs
<1>2. /\ phase = "scan" /\ pos' = p + 1
      /\ UNCHANGED <<heap, index, phase, call, affected, before>>
  BY <1>1 DEF SkipRow, Scanning, store
<1>3. /\ heap[p] = before[p] /\ p \notin affected
      /\ ~(/\ before[p] # NoRow /\ before[p] \in call.where.first
           /\ Passes(before[p], call.where.rest))
  BY <1>1, AheadUnchanged DEF SkipRow, Returned
<1>4. TypeOK'
  BY <1>1, <1>2 DEF TableInv, TypeOK
<1>5. 1 .. pos' - 1 = (1 .. p - 1) \cup {p} /\ pos' \in 1 .. MAX_RID + 1
  BY <1>2, TableAssumption
<1>6. Changed(1 .. p - 1)
  BY <1>1, <1>2 DEF TableInv, Progress
<1>7. Changed(1 .. pos - 1)'
  <2>1. affected' = {r \in 1 .. pos' - 1 : /\ before[r] # NoRow /\ before[r] \in call.where.first
                                          /\ Passes(before[r], call.where.rest)}
    BY <1>2, <1>3, <1>5, <1>6 DEF Changed
  <2>2. heap' = [r \in RIDs |-> IF r \in affected THEN After(before[r]) ELSE before[r]]
    BY <1>2, <1>6 DEF Changed
  <2> QED
    BY <1>2, <2>1, <2>2 DEF Changed, After
<1> QED
  BY <1>2, <1>4, <1>5, <1>7
  DEF TableInv, Progress, StatementExact, ErrorChangesNothing, CannotSet

LEMMA ActOnRowInv == ASSUME TableInv, ActOnRow PROVE TableInv'
<1>1. PICK p \in 1 .. MAX_RID : p = pos
  BY DEF ActOnRow, Scanning, RIDs
<1>2. /\ phase = "scan" /\ pos' = p + 1 /\ affected' = affected \cup {p}
      /\ UNCHANGED <<index, phase, call, before>>
      /\ ~CannotSet
  BY <1>1 DEF ActOnRow, Scanning
<1>3. /\ heap[p] = before[p] /\ p \notin affected
      /\ before[p] # NoRow /\ before[p] \in call.where.first
      /\ Passes(before[p], call.where.rest)
  BY <1>1, AheadUnchanged DEF ActOnRow, Returned
<1>4. p \in RIDs /\ before[p] \in Rows
  BY <1>3 DEF RIDs, TableInv, TypeOK
<1>5. PICK new \in Rows \cup {NoRow} : new = After(before[p])
  BY <1>4, AfterType DEF TableInv
<1>6. heap' = [heap EXCEPT ![p] = new]
  BY <1>1, <1>3, <1>5 DEF ActOnRow
<1>7. TypeOK'
  BY <1>2, <1>4, <1>6 DEF TableInv, TypeOK
<1>8. 1 .. pos' - 1 = (1 .. p - 1) \cup {p} /\ pos' \in 1 .. MAX_RID + 1
  BY <1>2, TableAssumption
<1>9. Changed(1 .. p - 1)
  BY <1>1, <1>2 DEF TableInv, Progress
<1>10. Changed(1 .. pos - 1)'
  <2>1. affected' = {r \in 1 .. pos' - 1 : /\ before[r] # NoRow /\ before[r] \in call.where.first
                                          /\ Passes(before[r], call.where.rest)}
    BY <1>2, <1>3, <1>8, <1>9 DEF Changed
  <2>2. heap = [r \in RIDs |-> IF r \in affected THEN After(before[r]) ELSE before[r]]
    BY <1>9 DEF Changed
  <2>3. heap' = [r \in RIDs |-> IF r \in affected' THEN After(before[r]) ELSE before[r]]
    BY <1>2, <1>4, <1>5, <1>6, <2>2
  <2> QED
    BY <1>2, <2>1, <2>3 DEF Changed, After
<1> QED
  BY <1>2, <1>7, <1>8, <1>10
  DEF TableInv, Progress, StatementExact, ErrorChangesNothing, CannotSet

\* A bad condition that one row meets would have stopped any row before it.
LEMMA FailRowInv == ASSUME TableInv, FailRow PROVE TableInv'
<1>1. /\ phase = "scan" /\ phase' = "error"
      /\ UNCHANGED <<heap, index, pos, affected, call, before>>
  BY DEF FailRow, Scanning, End, store
<1>2. affected = {}
  <2>1. CASE CannotSet
    BY <1>1, <2>1 DEF TableInv, Progress
  <2>2. CASE Fails(heap[pos], call.where.rest)
    <3>1. PICK i \in DOMAIN call.where.rest : call.where.rest[i].bad
      BY <2>2 DEF Fails
    <3>2. \A row : ~Passes(row, call.where.rest)
      BY <3>1 DEF Passes
    <3> QED
      BY <1>1, <3>2 DEF TableInv, Progress, Changed
  <2> QED
    BY <2>1, <2>2 DEF FailRow
<1>3. heap = before
  BY <1>1, <1>2 DEF TableInv, TypeOK, Progress, Changed
<1> QED
  BY <1>1, <1>3 DEF TableInv, TypeOK, Progress, StatementExact, ErrorChangesNothing

LEMMA EndScanInv == ASSUME TableInv, EndScan PROVE TableInv'
<1>1. /\ phase = "scan" /\ phase' = "done" /\ pos = MAX_RID + 1
      /\ UNCHANGED <<heap, index, pos, affected, call, before>>
  BY DEF EndScan, End, store
<1>2. 1 .. pos - 1 = RIDs
  BY <1>1, TableAssumption DEF RIDs
<1>3. call.kind # "insert" /\ Changed(RIDs)
  BY <1>1, <1>2 DEF TableInv, Progress
<1>4. Changed(RIDs)'
  BY <1>1, <1>3 DEF Changed, After
<1> QED
  BY <1>1, <1>3, <1>4 DEF TableInv, TypeOK, Progress, StatementExact, ErrorChangesNothing

LEMMA StutterInv == ASSUME TableInv, UNCHANGED vars PROVE TableInv'
<1>1. UNCHANGED <<heap, index, phase, call, pos, affected, before>>
  BY DEF vars, store, statement
<1> QED
  BY <1>1 DEF TableInv, TypeOK, Progress, StatementExact, ErrorChangesNothing,
              Inserted, Changed, After, CannotSet

LEMMA NextTableInv == TableInv /\ [Next]_vars => TableInv'
BY BeginInv, AcceptInv, RefuseInv, InsertTupleInv, SkipRowInv, ActOnRowInv, FailRowInv,
   EndScanInv, StutterInv DEF Next, Work

LEMMA TableInvariant == Spec => []TableInv
BY InitTableInv, NextTableInv, PTL DEF Spec

\* Types; no loop of INSERT reads past the tuples, for any statements.
THEOREM TypeCorrect == Spec => []TypeOK
BY TableInvariant, PTL DEF TableInv

\* Every statement that ends without an error did what it says to exactly the rows it
\* says, whatever rows and slots earlier statements left.
THEOREM StatementExactAlways == Spec => []StatementExact
BY TableInvariant, PTL DEF TableInv

\* No statement is half done when it ends with an error, wherever the error is met.
THEOREM ErrorChangesNothingAlways == Spec => []ErrorChangesNothing
BY TableInvariant, PTL DEF TableInv

-----------------------------------------------------------------------------
(***************************************************************************)
(* Primary keys.                                                           *)
(***************************************************************************)
\* No INSERT repeats a key and no UPDATE sets one.
Careful ==
  \A s \in Statements :
    /\ \A i, j \in DOMAIN s.tuples : s.tuples[i].row.key = s.tuples[j].row.key => i = j
    /\ s.kind = "update" => s.set.col # "key"

\* The entry of every row's key is that row; the tuples that have been validated and not
\* yet inserted have no entry.  Entries of deleted rows may be left.
KeyInv ==
  /\ \A r \in RIDs : heap[r] # NoRow => index[heap[r].key] = r
  /\ phase = "validate" =>
       \A i \in 1 .. pos - 1 : index[call.tuples[i].row.key] = NoRID
  /\ phase = "insert" =>
       \A i \in pos .. Len(call.tuples) : index[call.tuples[i].row.key] = NoRID

LEMMA InitKeyInv == Init => KeyInv
BY DEF Init, KeyInv

LEMMA BeginKeyInv == ASSUME KeyInv, NEW s \in Statements, Begin(s) PROVE KeyInv'
<1>1. /\ UNCHANGED <<heap, index>> /\ pos' = 1 /\ phase' \in {"validate", "scan"}
  BY DEF Begin, store
<1>2. 1 .. pos' - 1 = {}
  BY <1>1
<1> QED
  BY <1>1, <1>2 DEF KeyInv

LEMMA AcceptKeyInv == ASSUME TypeOK, KeyInv, Accept PROVE KeyInv'
<1>1. PICK p \in Nat : p = pos
  BY DEF TypeOK
<1>2. /\ phase = "validate" /\ UNCHANGED <<heap, index, call>>
      /\ index[call.tuples[p].row.key] = NoRID
      /\ \/ ~LastTuple /\ pos' = p + 1 /\ phase' = "validate"
         \/ LastTuple /\ pos' = 1 /\ phase' = "insert"
  BY <1>1 DEF Accept, End, store, Tuple
<1>3. \A i \in 1 .. p : index[call.tuples[i].row.key] = NoRID
  <2>1. \A i \in 1 .. p - 1 : index[call.tuples[i].row.key] = NoRID
    BY <1>1, <1>2 DEF KeyInv
  <2>2. \A i \in 1 .. p : i = p \/ i \in 1 .. p - 1
    OBVIOUS
  <2> QED
    BY <1>2, <2>1, <2>2
<1>4. CASE ~LastTuple
  <2>1. 1 .. pos' - 1 = 1 .. p /\ phase' = "validate"
    BY <1>2, <1>4
  <2> QED
    BY <1>2, <1>3, <2>1 DEF KeyInv
<1>5. CASE LastTuple
  <2>1. pos' .. Len(call'.tuples) = 1 .. p /\ phase' = "insert"
    BY <1>1, <1>2, <1>5 DEF LastTuple
  <2> QED
    BY <1>2, <1>3, <2>1 DEF KeyInv
<1> QED
  BY <1>4, <1>5

\* A key that has no entry has no row, so its new entry takes none away.
LEMMA InsertTupleKeyInv ==
  ASSUME Careful, TypeOK, KeyInv, InsertTuple
  PROVE  KeyInv'
<1>1. PICK p \in Nat : p = pos
  BY DEF TypeOK
<1>2. PICK t \in Rows : t = Tuple.row /\ t.key \in Ints
  BY TupleType DEF InsertTuple
<1>3. PICK r \in RIDs :
        /\ heap[r] = NoRow
        /\ heap' = [heap EXCEPT ![r] = t]
        /\ index' = IF index[t.key] = NoRID THEN [index EXCEPT ![t.key] = r] ELSE index
  BY <1>2 DEF InsertTuple
<1>4. /\ phase = "insert" /\ pos' = p + 1 /\ call' = call /\ phase' # "validate"
      /\ p \in 1 .. Len(call.tuples) /\ t = call.tuples[p].row
  BY <1>1, <1>2, TupleType DEF InsertTuple, End, Tuple
<1>5. index[t.key] = NoRID
  BY <1>1, <1>4 DEF KeyInv
<1>6. index' = [index EXCEPT ![t.key] = r]
  BY <1>3, <1>5
<1>7. ASSUME NEW q \in RIDs, heap'[q] # NoRow PROVE index'[heap'[q].key] = q
  <2>1. CASE q = r
    BY <2>1, <1>2, <1>3, <1>6 DEF TypeOK
  <2>2. CASE q # r
    <3>1. heap'[q] = heap[q] /\ heap[q] # NoRow /\ heap[q] \in Rows
      BY <2>2, <1>3, <1>7 DEF TypeOK
    <3>2. index[heap[q].key] = q /\ q # NoRID
      BY <3>1, TableAssumption DEF KeyInv, RIDs
    <3>3. heap[q].key # t.key
      BY <3>2, <1>5
    <3> QED
      BY <3>1, <3>2, <3>3, <1>6 DEF TypeOK
  <2> QED
    BY <2>1, <2>2
<1>8. ASSUME NEW i \in pos' .. Len(call'.tuples)
      PROVE  index'[call'.tuples[i].row.key] = NoRID
  <2>1. /\ i \in p .. Len(call.tuples) /\ i # p /\ Len(call.tuples) \in Nat
        /\ i \in 1 .. Len(call.tuples)
    BY <1>4, CallFields
  <2>2. index[call.tuples[i].row.key] = NoRID
    BY <2>1, <1>1, <1>4 DEF KeyInv
  <2>3. call.tuples[i].row.key # t.key
    <3>1. i \in DOMAIN call.tuples /\ p \in DOMAIN call.tuples
      BY <2>1, <1>4, CallFields
    <3> QED
      BY <3>1, <2>1, <1>4 DEF Careful, TypeOK
  <2> QED
    BY <2>2, <2>3, <1>4, <1>6 DEF TypeOK
<1> QED
  BY <1>4, <1>7, <1>8 DEF KeyInv

\* DELETE and a careful UPDATE leave the keys of the rows that stay.
LEMMA ActOnRowKeyInv == ASSUME Careful, TypeOK, KeyInv, ActOnRow PROVE KeyInv'
<1>1. PICK p \in RIDs : p = pos
  BY DEF ActOnRow, Scanning
<1>2. PICK row \in Rows : row = heap[p]
  BY <1>1 DEF ActOnRow, Returned, TypeOK
<1>3. After(row) = NoRow \/ After(row).key = row.key
  <2>1. CASE call.kind = "delete"
    BY <2>1 DEF After
  <2>2. CASE call.kind = "update"
    <3>1. call.set.col # "key" /\ After(row) = SetTo(row, call.set)
      BY <2>2 DEF Careful, TypeOK, After
    <3>2. CASE call.set.col = "val"
      BY <3>1, <3>2 DEF SetTo, Rows
    <3>3. CASE call.set.col # "val"
      BY <3>1, <3>3 DEF SetTo
    <3> QED
      BY <3>2, <3>3
  <2>3. CASE call.kind \notin {"delete", "update"}
    BY <2>3 DEF After
  <2> QED
    BY <2>1, <2>2, <2>3
<1>4. PICK new : new = After(row)
  OBVIOUS
<1>5. /\ heap' = [heap EXCEPT ![p] = new] /\ index' = index /\ phase' = "scan"
      /\ heap[p] # NoRow
  BY <1>1, <1>2, <1>4 DEF ActOnRow, Scanning, Returned
<1>6. ASSUME NEW q \in RIDs, heap'[q] # NoRow PROVE index'[heap'[q].key] = q
  BY <1>2, <1>3, <1>4, <1>5, <1>6 DEF TypeOK, KeyInv
<1> QED
  BY <1>5, <1>6 DEF KeyInv

LEMMA NextKeyInv == ASSUME Careful, TypeOK, KeyInv, [Next]_vars PROVE KeyInv'
<1>1. ASSUME UNCHANGED <<heap, index>>, phase' \notin {"validate", "insert"} PROVE KeyInv'
  BY <1>1 DEF KeyInv
<1>2. CASE RejectTuple \/ Conflict \/ SkipRow \/ FailRow \/ EndScan
  <2>1. UNCHANGED <<heap, index>> /\ phase' \notin {"validate", "insert"}
    BY <1>2 DEF RejectTuple, Conflict, SkipRow, FailRow, EndScan, End, Scanning, store
  <2> QED
    BY <1>1, <2>1
<1>3. CASE UNCHANGED vars
  BY <1>3 DEF vars, store, statement, KeyInv
<1> QED
  BY <1>2, <1>3, BeginKeyInv, AcceptKeyInv, InsertTupleKeyInv, ActOnRowKeyInv DEF Next, Work

\* With careful statements no two rows ever have the same primary key, although DELETE
\* leaves entries in the index and their slots are given to other rows.
THEOREM KeysUniqueAlways == ASSUME Careful PROVE Spec => []KeysUnique
<1>1. TypeOK /\ KeyInv /\ [Next]_vars => KeyInv'
  BY NextKeyInv
<1>2. KeyInv => KeysUnique
  BY DEF KeyInv, KeysUnique
<1> QED
  BY <1>1, <1>2, InitKeyInv, TypeCorrect, PTL DEF Spec

-----------------------------------------------------------------------------
(***************************************************************************)
(* Statements are atomic.                                                  *)
(***************************************************************************)
KeyOf(i) == call.tuples[i].row.key

\* What the loops have found out when they are at pos: the tuples are acceptable by the
\* keys that had an entry when the statement began, and those inserted have one now; no
\* record before pos was a reason to refuse the statement.
FoundOut ==
  /\ phase = "validate" =>
       \A i \in 1 .. pos - 1 : call.tuples[i].valid /\ index[KeyOf(i)] = NoRID
  /\ phase = "insert" =>
       /\ \A i \in DOMAIN call.tuples : call.tuples[i].valid /\ KeyOf(i) \notin KnownKeys
       /\ \A i \in 1 .. pos - 1 : index[KeyOf(i)] # NoRID
  /\ phase = "scan" =>
       \A r \in 1 .. pos - 1 : before[r] # NoRow /\ before[r] \in call.where.first =>
         /\ ~Fails(before[r], call.where.rest)
         /\ ~(Passes(before[r], call.where.rest) /\ CannotSet)

LEMMA KeyTypes ==
  ASSUME TypeOK
  PROVE  \A i \in DOMAIN call.tuples : KeyOf(i) \in Ints
<1>1. call.tuples \in Seq(Tuples)
  BY CallFields
<1>2. \A i \in DOMAIN call.tuples : call.tuples[i] \in Tuples
  BY <1>1
<1> QED
  BY <1>2 DEF KeyOf, Tuples, Rows

LEMMA InitFoundOut == Init => FoundOut
BY DEF Init, FoundOut

LEMMA BeginFoundOut == ASSUME NEW s \in Statements, Begin(s) PROVE FoundOut'
<1>1. pos' = 1 /\ phase' \in {"validate", "scan"} /\ 1 .. 1 - 1 = {}
  BY DEF Begin
<1> QED
  BY <1>1 DEF FoundOut

LEMMA AcceptFoundOut == ASSUME TableInv, FoundOut, Accept PROVE FoundOut'
<1>1. PICK p \in Nat : p = pos
  BY DEF TableInv, TypeOK
<1>2. /\ phase = "validate" /\ UNCHANGED <<index, call>>
      /\ call.tuples[p].valid /\ index[KeyOf(p)] = NoRID
      /\ \/ ~LastTuple /\ pos' = p + 1 /\ phase' = "validate"
         \/ LastTuple /\ pos' = 1 /\ phase' = "insert"
  BY <1>1 DEF Accept, End, store, Tuple, KeyOf
<1>3. \A i \in 1 .. p : call.tuples[i].valid /\ index[KeyOf(i)] = NoRID
  <2>1. \A i \in 1 .. p - 1 : call.tuples[i].valid /\ index[KeyOf(i)] = NoRID
    BY <1>1, <1>2 DEF FoundOut
  <2>2. \A i \in 1 .. p : i = p \/ i \in 1 .. p - 1
    OBVIOUS
  <2> QED
    BY <1>2, <2>1, <2>2
<1>4. CASE ~LastTuple
  <2>1. 1 .. pos' - 1 = 1 .. p /\ phase' = "validate"
    BY <1>2, <1>4
  <2> QED
    BY <1>2, <1>3, <2>1 DEF FoundOut, KeyOf
<1>5. CASE LastTuple
  <2>1. DOMAIN call'.tuples = 1 .. p /\ phase' = "insert" /\ 1 .. pos' - 1 = {}
    BY <1>1, <1>2, <1>5, CallFields DEF LastTuple, TableInv
  <2>2. \A i \in 1 .. p : KeyOf(i)' = KeyOf(i) /\ KeyOf(i)' \notin KnownKeys'
    BY <1>2, <1>3 DEF KnownKeys, KeyOf
  <2> QED
    BY <1>2, <1>3, <2>1, <2>2 DEF FoundOut
<1> QED
  BY <1>4, <1>5

\* The entry of the tuple's key is there afterwards; no key that was not known becomes known.
LEMMA InsertTupleKnown ==
  ASSUME TableInv, FoundOut, InsertTuple
  PROVE  /\ pos \in DOMAIN call.tuples
         /\ pos' = pos + 1 /\ call' = call /\ phase = "insert"
         /\ phase' = IF LastTuple THEN "done" ELSE "insert"
         /\ \A i \in 1 .. pos : index'[KeyOf(i)] # NoRID
         /\ {k \in Ints : index'[k] # NoRID} = KnownKeys \cup {KeyOf(i) : i \in 1 .. pos}
<1>1. PICK p \in Nat : p = pos
  BY DEF TableInv, TypeOK
<1>2. PICK k \in Ints : k = Tuple.row.key
  BY TupleType DEF TableInv, InsertTuple
<1>3. PICK r \in RIDs : index' = IF index[k] = NoRID THEN [index EXCEPT ![k] = r] ELSE index
  BY <1>2 DEF InsertTuple
<1>4. /\ phase = "insert" /\ pos' = p + 1 /\ call' = call
      /\ phase' = IF LastTuple THEN "done" ELSE "insert"
      /\ p \in DOMAIN call.tuples /\ DOMAIN call.tuples = 1 .. Len(call.tuples)
      /\ Len(call.tuples) \in Nat /\ KeyOf(p) = k
  BY <1>1, <1>2, TupleType, CallFields DEF InsertTuple, End, Tuple, KeyOf, TableInv
<1>5. index \in [Ints -> RIDs \cup {NoRID}] /\ r # NoRID
  BY TableAssumption DEF TableInv, TypeOK, RIDs
<1>6. \A q \in Ints : index'[q] # NoRID <=> index[q] # NoRID \/ q = k
  BY <1>2, <1>3, <1>5
<1>7. \A i \in 1 .. p : i = p \/ i \in 1 .. p - 1
  OBVIOUS
<1>8. \A i \in 1 .. p : i \in DOMAIN call.tuples
  BY <1>4
<1>9. \A i \in 1 .. p : KeyOf(i) \in Ints
  BY <1>8, KeyTypes DEF TableInv
<1>10. \A i \in 1 .. p - 1 : index[KeyOf(i)] # NoRID
  BY <1>1, <1>4 DEF FoundOut
<1>11. \A i \in 1 .. p : index'[KeyOf(i)] # NoRID
  <2>1. \A i \in 1 .. p - 1 : i \in 1 .. p
    OBVIOUS
  <2> QED
    BY <1>2, <1>4, <1>6, <1>7, <1>9, <1>10
<1>12. KnownKeys = {q \in Ints : index[q] # NoRID} \ {KeyOf(i) : i \in 1 .. p - 1}
  BY <1>1, <1>4 DEF KnownKeys, KeyOf
<1>13. p \in 1 .. p /\ \A i \in 1 .. p - 1 : i \in 1 .. p
  BY <1>4
<1>14. {q \in Ints : index'[q] # NoRID} = KnownKeys \cup {KeyOf(i) : i \in 1 .. p}
  <2>1. ASSUME NEW q \in Ints, index'[q] # NoRID
        PROVE  q \in KnownKeys \cup {KeyOf(i) : i \in 1 .. p}
    BY <2>1, <1>4, <1>6, <1>12, <1>13
  <2>2. ASSUME NEW q \in KnownKeys PROVE q \in Ints /\ index'[q] # NoRID
    BY <2>2, <1>6, <1>12
  <2> QED
    BY <2>1, <2>2, <1>9, <1>11
<1> QED
  BY <1>1, <1>4, <1>11, <1>14

LEMMA InsertTupleFoundOut == ASSUME TableInv, FoundOut, InsertTuple PROVE FoundOut'
<1>1. PICK p \in Nat : p = pos
  BY DEF TableInv, TypeOK
<1>2. /\ pos' = p + 1 /\ call' = call /\ phase = "insert" /\ p \in DOMAIN call.tuples
      /\ phase' \in {"done", "insert"}
      /\ \A i \in 1 .. p : index'[KeyOf(i)] # NoRID
      /\ {k \in Ints : index'[k] # NoRID} = KnownKeys \cup {KeyOf(i) : i \in 1 .. p}
  BY <1>1, InsertTupleKnown
<1>3. /\ 1 .. pos' - 1 = 1 .. p
      /\ \A i : KeyOf(i)' = KeyOf(i)
  BY <1>2 DEF KeyOf
<1>4. ASSUME phase' = "insert" PROVE KnownKeys' \subseteq KnownKeys
  <2>1. KnownKeys' = {k \in Ints : index'[k] # NoRID} \ {KeyOf(i)' : i \in 1 .. pos' - 1}
    BY <1>4 DEF KnownKeys, KeyOf
  <2> QED
    BY <2>1, <1>2, <1>3
<1>5. \A i \in DOMAIN call.tuples : call.tuples[i].valid /\ KeyOf(i) \notin KnownKeys
  BY <1>2 DEF FoundOut
<1> QED
  BY <1>2, <1>3, <1>4, <1>5 DEF FoundOut

\* A step of the scan looks at the record at pos.
LEMMA ScanFoundOut == ASSUME TableInv, FoundOut, SkipRow \/ ActOnRow PROVE FoundOut'
<1>1. PICK p \in 1 .. MAX_RID : p = pos
  BY DEF SkipRow, ActOnRow, Scanning, RIDs
<1>2. /\ phase = "scan" /\ phase' = "scan" /\ pos' = p + 1
      /\ UNCHANGED <<call, before>>
  BY <1>1 DEF SkipRow, ActOnRow, Scanning
<1>3. heap[p] = before[p]
  BY <1>1, AheadUnchanged DEF SkipRow, ActOnRow
<1>4. before[p] # NoRow /\ before[p] \in call.where.first =>
        /\ ~Fails(before[p], call.where.rest)
        /\ ~(Passes(before[p], call.where.rest) /\ CannotSet)
  <2>1. CASE SkipRow
    BY <2>1, <1>1, <1>3 DEF SkipRow, Returned
  <2>2. CASE ActOnRow
    <3>1. Passes(before[p], call.where.rest) /\ ~CannotSet
      BY <2>2, <1>1, <1>3 DEF ActOnRow
    <3>2. ~Fails(before[p], call.where.rest)
      BY <3>1 DEF Passes, Fails
    <3> QED
      BY <3>1, <3>2
  <2> QED
    BY <2>1, <2>2
<1>5. \A r \in 1 .. p : r = p \/ r \in 1 .. p - 1
  OBVIOUS
<1>6. 1 .. pos' - 1 = 1 .. p
  BY <1>2
<1> QED
  BY <1>1, <1>2, <1>4, <1>5, <1>6 DEF FoundOut, CannotSet

LEMMA NextFoundOut == ASSUME TableInv, FoundOut, [Next]_vars PROVE FoundOut'
<1>1. CASE RejectTuple \/ Conflict \/ FailRow \/ EndScan
  <2>1. phase' \notin {"validate", "insert", "scan"}
    BY <1>1 DEF RejectTuple, Conflict, FailRow, EndScan, End
  <2> QED
    BY <2>1 DEF FoundOut
<1>2. CASE UNCHANGED vars
  <2>1. UNCHANGED <<index, phase, call, pos, before>>
    BY <1>2 DEF vars, store, statement
  <2> QED
    BY <2>1 DEF FoundOut, KnownKeys, KeyOf, CannotSet
<1> QED
  BY <1>1, <1>2, BeginFoundOut, AcceptFoundOut, InsertTupleFoundOut, ScanFoundOut
  DEF Next, Work

\* The rows and keys of the promise while the statement runs are those it began with.
LEMMA KnownAtBegin ==
  phase # "insert" => KnownKeys = {k \in Ints : index[k] # NoRID}
BY DEF KnownKeys

LEMMA BeginPromised ==
  ASSUME TableInv, NEW s \in Statements, Begin(s)
  PROVE  Promise!Begin(s)
<1>1. /\ ~Running /\ Running' /\ call' = s /\ before' = heap /\ heap' = heap /\ index' = index
      /\ phase' # "insert"
  BY DEF Begin, store, Running
<1>2. phase # "insert"
  BY <1>1 DEF Running
<1>3. KnownKeys' = KnownKeys
  BY <1>1, <1>2 DEF KnownKeys
<1>4. Outcome # "running" /\ Outcome' = "running"
  BY <1>1 DEF Outcome, TableInv, TypeOK, Running
<1> QED
  BY <1>1, <1>3, <1>4 DEF Promise!Begin

\* Steps of a loop that go on.
LEMMA LoopHidden ==
  ASSUME Running, Running', call' = call, before' = before, KnownKeys' = KnownKeys
  PROVE  UNCHANGED <<IF Running THEN before ELSE heap, KnownKeys, Outcome, call>>
<1>1. Outcome = "running" /\ Outcome' = "running"
  BY DEF Outcome, Running
<1> QED
  BY <1>1

LEMMA AcceptHidden ==
  ASSUME TableInv, Accept
  PROVE  UNCHANGED <<IF Running THEN before ELSE heap, KnownKeys, Outcome, call>>
<1>1. /\ phase = "validate" /\ UNCHANGED <<index, call, before>>
      /\ \/ phase' = "validate"
         \/ LastTuple /\ pos' = 1 /\ phase' = "insert"
  BY DEF Accept, End, store
<1>2. KnownKeys' = KnownKeys
  <2>1. CASE phase' = "validate"
    BY <1>1, <2>1 DEF KnownKeys
  <2>2. CASE pos' = 1 /\ phase' = "insert"
    <3>1. 1 .. pos' - 1 = {}
      BY <2>2
    <3> QED
      BY <1>1, <2>2, <3>1 DEF KnownKeys
  <2> QED
    BY <1>1, <2>1, <2>2
<1> QED
  BY <1>1, <1>2, LoopHidden DEF Running

LEMMA ScanHidden ==
  ASSUME TableInv, SkipRow \/ ActOnRow
  PROVE  UNCHANGED <<IF Running THEN before ELSE heap, KnownKeys, Outcome, call>>
<1>1. phase = "scan" /\ UNCHANGED <<phase, index, call, before>>
  BY DEF SkipRow, ActOnRow, Scanning, store
<1>2. KnownKeys' = KnownKeys
  BY <1>1 DEF KnownKeys
<1> QED
  BY <1>1, <1>2, LoopHidden DEF Running

LEMMA RefuseTuplePromised ==
  ASSUME TableInv, FoundOut, RejectTuple \/ Conflict
  PROVE  Promise!Refuse
<1>1. /\ phase = "validate" /\ phase' \in {"error", "conflict"}
      /\ UNCHANGED <<heap, index, call, before>>
      /\ ~Tuple.valid \/ index[Tuple.row.key] # NoRID
  BY DEF RejectTuple, Conflict, End, store
<1>2. /\ Running /\ ~Running' /\ before = heap /\ call.kind = "insert"
      /\ KnownKeys' = KnownKeys /\ KnownKeys = {k \in Ints : index[k] # NoRID}
      /\ Outcome = "running" /\ Outcome' = "refused"
  BY <1>1 DEF Running, Outcome, KnownKeys, TableInv, TypeOK, Progress
<1>3. Tuple.row.key \in Ints
  BY <1>1, TupleType DEF TableInv
<1>4. Tuple \in {call.tuples[i] : i \in DOMAIN call.tuples}
  BY <1>1, TupleType, CallFields DEF TableInv, Tuple
<1>5. Promise!Unacceptable
  BY <1>1, <1>2, <1>3, <1>4 DEF Promise!Unacceptable, Promise!Tuples
<1> QED
  BY <1>1, <1>2, <1>5 DEF Promise!Refuse

LEMMA InsertTuplePromised ==
  ASSUME TableInv, FoundOut, InsertTuple, TableInv'
  PROVE  \/ Promise!Insert
         \/ UNCHANGED <<IF Running THEN before ELSE heap, KnownKeys, Outcome, call>>
<1>1. PICK p \in Nat : p = pos
  BY DEF TableInv, TypeOK
<1>2. /\ pos' = p + 1 /\ call' = call /\ phase = "insert" /\ p \in DOMAIN call.tuples
      /\ before' = before /\ call.kind = "insert"
      /\ phase' = IF LastTuple THEN "done" ELSE "insert"
      /\ \A i \in 1 .. p : index'[KeyOf(i)] # NoRID
      /\ {k \in Ints : index'[k] # NoRID} = KnownKeys \cup {KeyOf(i) : i \in 1 .. p}
  BY <1>1, InsertTupleKnown DEF InsertTuple, End, TableInv, TypeOK
<1>3. \A i \in DOMAIN call.tuples : call.tuples[i].valid /\ KeyOf(i) \notin KnownKeys
  BY <1>2 DEF FoundOut
<1>4. DOMAIN call.tuples = 1 .. Len(call.tuples) /\ Len(call.tuples) \in Nat
  BY CallFields DEF TableInv
<1>5. CASE ~LastTuple
  <2>1. KnownKeys' = {k \in Ints : index'[k] # NoRID} \ {KeyOf(i) : i \in 1 .. p}
    <3>1. 1 .. pos' - 1 = 1 .. p /\ phase' = "insert"
      BY <1>2, <1>5
    <3> QED
      BY <1>2, <3>1 DEF KnownKeys, KeyOf
  <2>2. \A i \in 1 .. p : KeyOf(i) \notin KnownKeys
    BY <1>2, <1>3, <1>4
  <2>3. KnownKeys' = KnownKeys
    BY <1>2, <2>1, <2>2
  <2> QED
    BY <1>2, <1>5, <2>3, LoopHidden DEF Running
<1>6. CASE LastTuple
  <2>1. DOMAIN call.tuples = 1 .. p /\ phase' = "done"
    BY <1>1, <1>2, <1>4, <1>6 DEF LastTuple
  <2>2. KnownKeys' = KnownKeys \cup {KeyOf(i) : i \in 1 .. p}
    BY <1>2, <2>1, KnownAtBegin DEF KnownKeys
  <2>3. Running /\ ~Running' /\ Outcome = "running" /\ Outcome' = "done"
    BY <1>2, <2>1 DEF Running, Outcome
  <2>4. Promise!Tuples = {call.tuples[i] : i \in 1 .. p}
    BY <2>1 DEF Promise!Tuples
  <2>5. ~Promise!Unacceptable
    BY <1>3, <2>1, <2>4 DEF Promise!Unacceptable, KeyOf
  <2>6. {t.row.key : t \in Promise!Tuples} = {KeyOf(i) : i \in 1 .. p}
    BY <2>4 DEF KeyOf
  <2>7. Inserted(p)'
    <3>1. StatementExact' /\ Len(call'.tuples) = p
      BY <1>1, <1>2, <1>6 DEF TableInv, LastTuple
    <3> QED
      BY <1>2, <2>1, <3>1 DEF StatementExact
  <2>8. PICK at \in [1 .. p -> RIDs] :
          /\ \A i, j \in 1 .. p : at[i] = at[j] => i = j
          /\ \A i \in 1 .. p : before[at[i]] = NoRow /\ heap'[at[i]] = call.tuples[i].row
          /\ affected' = {at[i] : i \in 1 .. p}
          /\ \A r \in RIDs \ affected' : heap'[r] = before[r]
    BY <1>2, <2>7 DEF Inserted
  <2>9. at \in [DOMAIN call.tuples -> {r \in RIDs : before[r] = NoRow}] /\ DOMAIN at = 1 .. p
    BY <2>1, <2>8
  <2>10. heap' = [r \in RIDs |-> IF \E i \in DOMAIN at : at[i] = r
                                   THEN call.tuples[CHOOSE i \in DOMAIN at : at[i] = r].row
                                   ELSE before[r]]
    <3>1. heap' = [r \in RIDs |-> heap'[r]]
      BY DEF TableInv, TypeOK
    <3>2. ASSUME NEW r \in RIDs, NEW i \in 1 .. p, at[i] = r
          PROVE  heap'[r] = call.tuples[CHOOSE q \in DOMAIN at : at[q] = r].row
      <4>1. (CHOOSE q \in DOMAIN at : at[q] = r) = i
        BY <2>8, <2>9, <3>2
      <4> QED
        BY <2>8, <3>2, <4>1
    <3>3. ASSUME NEW r \in RIDs, ~\E i \in 1 .. p : at[i] = r PROVE heap'[r] = before[r]
      BY <2>8, <3>3
    <3> QED
      BY <2>9, <3>1, <3>2, <3>3
  <2>11. /\ (IF Running THEN before ELSE heap) = before
         /\ (IF Running THEN before ELSE heap)' = heap'
    BY <2>3
  <2>12. Promise!Insert
    <3>1. at \in [DOMAIN call.tuples
                   -> {r \in RIDs : (IF Running THEN before ELSE heap)[r] = NoRow}]
      BY <2>9, <2>11
    <3>2. (IF Running THEN before ELSE heap)'
            = [r \in RIDs |-> IF \E i \in DOMAIN at : at[i] = r
                               THEN call.tuples[CHOOSE i \in DOMAIN at : at[i] = r].row
                               ELSE (IF Running THEN before ELSE heap)[r]]
      BY <2>10, <2>11
    <3>3. \A i, j \in DOMAIN at : at[i] = at[j] => i = j
      BY <2>8, <2>9
    <3> QED
      BY <1>2, <2>2, <2>3, <2>5, <2>6, <3>1, <3>2, <3>3 DEF Promise!Insert
  <2> QED
    BY <2>12
<1> QED
  BY <1>5, <1>6

\* During a scan the promise selects and finds undecided what the loop does.
LEMMA ScanSelection ==
  ASSUME TableInv, phase = "scan"
  PROVE  /\ Promise!Undecided = {r \in RIDs : /\ before[r] # NoRow /\ before[r] \in call.where.first
                                              /\ Fails(before[r], call.where.rest)}
         /\ Promise!Selected = {r \in RIDs : /\ before[r] # NoRow /\ before[r] \in call.where.first
                                             /\ Passes(before[r], call.where.rest)}
<1>1. (IF Running THEN before ELSE heap) = before
  BY DEF Running
<1>2. DOMAIN call.where.rest = 1 .. Len(call.where.rest) /\ Len(call.where.rest) \in Nat
  BY CallFields DEF TableInv
<1>3. Promise!Candidates = {r \in RIDs : before[r] # NoRow /\ before[r] \in call.where.first}
  BY <1>1 DEF Promise!Candidates
<1>4. \A r, n : Promise!Meets(r, n) <=> \A i \in 1 .. n - 1 : before[r] \in call.where.rest[i].holds
  BY <1>1 DEF Promise!Meets
<1>5. \A r : Fails(before[r], call.where.rest) <=>
               \E n \in DOMAIN call.where.rest : call.where.rest[n].bad /\ Promise!Meets(r, n)
  BY <1>4 DEF Fails
<1>6. Promise!Undecided = {r \in RIDs : /\ before[r] # NoRow /\ before[r] \in call.where.first
                                        /\ Fails(before[r], call.where.rest)}
  BY <1>3, <1>5 DEF Promise!Undecided
<1>7. ASSUME NEW r
      PROVE  Passes(before[r], call.where.rest) <=>
               /\ ~Fails(before[r], call.where.rest)
               /\ Promise!Meets(r, Len(call.where.rest) + 1)
  <2>1. 1 .. (Len(call.where.rest) + 1) - 1 = DOMAIN call.where.rest
    BY <1>2
  <2>2. Promise!Meets(r, Len(call.where.rest) + 1) <=>
          \A i \in DOMAIN call.where.rest : before[r] \in call.where.rest[i].holds
    BY <1>4, <2>1
  <2>3. \A n \in DOMAIN call.where.rest : \A i \in 1 .. n - 1 : i \in DOMAIN call.where.rest
    BY <1>2
  <2> QED
    BY <2>2, <2>3 DEF Passes, Fails
<1>8. Promise!Selected = {r \in RIDs : /\ before[r] # NoRow /\ before[r] \in call.where.first
                                       /\ Passes(before[r], call.where.rest)}
  BY <1>3, <1>6, <1>7 DEF Promise!Selected
<1> QED
  BY <1>6, <1>8

LEMMA FailRowPromised == ASSUME TableInv, FailRow, TableInv' PROVE Promise!Refuse
<1>1. PICK p \in RIDs : p = pos
  BY DEF FailRow, Scanning
<1>2. /\ phase = "scan" /\ phase' = "error" /\ UNCHANGED <<heap, index, call, before>>
      /\ heap[p] # NoRow /\ heap[p] \in call.where.first
      /\ \/ Fails(heap[p], call.where.rest)
         \/ Passes(heap[p], call.where.rest) /\ CannotSet
  BY <1>1 DEF FailRow, Scanning, Returned, End, store
<1>3. heap[p] = before[p] /\ call.kind # "insert"
  BY <1>1, AheadUnchanged DEF FailRow, TableInv, Progress, Scanning
<1>4. heap' = before
  BY <1>2 DEF TableInv, ErrorChangesNothing
<1>5. Promise!Impossible
  BY <1>2, <1>3, ScanSelection DEF Promise!Impossible, CannotSet
<1>6. /\ Outcome = "running" /\ Outcome' = "refused" /\ Running /\ ~Running'
      /\ KnownKeys' = KnownKeys
  BY <1>2 DEF Outcome, Running, KnownKeys
<1> QED
  BY <1>2, <1>3, <1>4, <1>5, <1>6 DEF Promise!Refuse

\* What a statement makes of a row.
LEMMA SameResult ==
  ASSUME TypeOK, call.kind # "insert", ~CannotSet, NEW row \in Rows
  PROVE  Promise!Result(row) = After(row)
<1>1. call.kind \in {"delete", "update", "select"} /\ call.set.col \in {"key", "val", "float"}
  BY CallFields, TableAssumption DEF TypeOK, Settings
<1>2. CASE call.kind = "delete"
  BY <1>2 DEF After, Promise!Result
<1>3. CASE call.kind = "select"
  BY <1>3 DEF After, Promise!Result
<1>4. CASE call.kind = "update"
  <2>1. Promise!OtherColumn("key") = "val" /\ Promise!OtherColumn("val") = "key"
    BY DEF Promise!OtherColumn
  <2>2. CASE call.set.col = "key"
    BY <1>4, <2>1, <2>2 DEF After, SetTo, Promise!Result
  <2>3. CASE call.set.col = "val"
    BY <1>4, <2>1, <2>3 DEF After, SetTo, Promise!Result
  <2> QED
    BY <1>1, <1>4, <2>2, <2>3 DEF CannotSet
<1> QED
  BY <1>1, <1>2, <1>3, <1>4

LEMMA EndScanPromised ==
  ASSUME TableInv, FoundOut, EndScan
  PROVE  Promise!Change
<1>1. /\ phase = "scan" /\ phase' = "done" /\ pos = MAX_RID + 1
      /\ UNCHANGED <<heap, index, call, before>>
  BY DEF EndScan, End, store
<1>2. 1 .. pos - 1 = RIDs /\ call.kind # "insert"
  BY <1>1, TableAssumption DEF RIDs, TableInv, Progress
<1>3. \A r \in RIDs : before[r] # NoRow /\ before[r] \in call.where.first =>
        /\ ~Fails(before[r], call.where.rest)
        /\ ~(Passes(before[r], call.where.rest) /\ CannotSet)
  BY <1>1, <1>2 DEF FoundOut
<1>4. ~Promise!Impossible
  BY <1>1, <1>3, ScanSelection DEF Promise!Impossible, CannotSet
<1>5. Promise!Selected = affected
  BY <1>1, <1>2, ScanSelection DEF TableInv, Progress, Changed
<1>6. heap = [r \in RIDs |-> IF r \in affected THEN After(before[r]) ELSE before[r]]
  BY <1>1 DEF TableInv, Progress, Changed
<1>7. \A r \in affected : r \in RIDs /\ before[r] \in Rows /\ ~CannotSet
  BY <1>1, <1>2, <1>3 DEF TableInv, TypeOK, Progress, Changed
<1>8. heap = [r \in RIDs |-> IF r \in Promise!Selected THEN Promise!Result(before[r]) ELSE before[r]]
  BY <1>2, <1>5, <1>6, <1>7, SameResult DEF TableInv
<1>9. /\ Outcome = "running" /\ Outcome' = "done" /\ Running /\ ~Running'
      /\ KnownKeys' = KnownKeys
  BY <1>1 DEF Outcome, Running, KnownKeys
<1> QED
  BY <1>1, <1>2, <1>4, <1>8, <1>9 DEF Promise!Change

LEMMA StepPromised ==
  ASSUME TableInv, TableInv', FoundOut, [Next]_vars
  PROVE  \/ Promise!Next
         \/ UNCHANGED <<IF Running THEN before ELSE heap, KnownKeys, Outcome, call>>
<1>1. CASE \E s \in Statements : Begin(s)
  BY <1>1, BeginPromised DEF Promise!Next
<1>2. CASE Accept
  BY <1>2, AcceptHidden
<1>3. CASE RejectTuple \/ Conflict
  BY <1>3, RefuseTuplePromised DEF Promise!Next
<1>4. CASE InsertTuple
  BY <1>4, InsertTuplePromised DEF Promise!Next
<1>5. CASE SkipRow \/ ActOnRow
  BY <1>5, ScanHidden
<1>6. CASE FailRow
  BY <1>6, FailRowPromised DEF Promise!Next
<1>7. CASE EndScan
  BY <1>7, EndScanPromised DEF Promise!Next
<1>8. CASE UNCHANGED vars
  <2>1. UNCHANGED <<heap, index, phase, call, pos, before>>
    BY <1>8 DEF vars, store, statement
  <2>2. Running' = Running /\ KnownKeys' = KnownKeys /\ Outcome' = Outcome
    BY <2>1 DEF Running, KnownKeys, Outcome
  <2> QED
    BY <2>1, <2>2
<1> QED
  BY <1>1, <1>2, <1>3, <1>4, <1>5, <1>6, <1>7, <1>8 DEF Next, Work

LEMMA InitPromised == Init => Promise!Init
<1> SUFFICES ASSUME Init PROVE Promise!Init
  OBVIOUS
<1>1. phase = "idle" /\ ~Running /\ call \in Statements
  BY DEF Init, Running
<1>2. KnownKeys = {} /\ Outcome = "idle"
  BY <1>1 DEF Init, KnownKeys, Outcome
<1> QED
  BY <1>1, <1>2 DEF Init, Promise!Init

\* Every statement takes effect at once, on the table it found, or is refused for a reason
\* that this table or the statement gives, and then changes nothing: whatever the statements,
\* the size of the table and the values.
THEOREM StatementsAtomicAlways == Spec => StatementsAtomic
<1>1. TableInv /\ FoundOut /\ [Next]_vars => FoundOut'
  BY NextFoundOut
<1>2. TableInv /\ TableInv' /\ FoundOut /\ [Next]_vars =>
        [Promise!Next]_<<IF Running THEN before ELSE heap, KnownKeys, Outcome, call>>
  BY StepPromised
<1> QED
  BY <1>1, <1>2, InitFoundOut, InitPromised, TableInvariant, PTL
  DEF Spec, StatementsAtomic, Promise!Spec

-----------------------------------------------------------------------------
(* The plan.                                                                *)

\* The nth condition that the query takes, and its tables.
Cond(n) == conds[queryOrder[n]]

TablesOf(n) == {Cond(n).lhs, Cond(n).rhs}

\* decideJoinOrder takes no condition twice, and each shares a table with the one before.
Plans(cs, order) ==
  /\ order \in Seq(DOMAIN cs) /\ Len(order) \in 1 .. Len(cs)
  /\ IsInjective(order)
  /\ \A n \in 2 .. Len(order) : Shares(cs[order[n]], cs[order[n - 1]])

\* The conditions of a query on the tables fs: those of the WHERE, or the one added to them.
CondsOf(fs, cs) ==
  /\ cs \in Seq(Conds(fs) \cup {AnyRecord(fs)})
  /\ \E i \in DOMAIN cs : cs[i].lhs # cs[i].rhs

QueryInv ==
  /\ from \in Froms /\ content \in Contents
  /\ CondsOf(from, conds)
  /\ Plans(conds, queryOrder)

\* Supported, of a query.
Complete ==
  /\ Len(queryOrder) = Len(conds)
  /\ {i \in DOMAIN conds : conds[i].rhs = Null} = {queryOrder[1]}
  /\ ToSet(from) \subseteq {conds[i].lhs : i \in DOMAIN conds}
                             \cup {conds[i].rhs : i \in DOMAIN conds}

-----------------------------------------------------------------------------
(* The recursion.  fr are the frames, j the records joined.  In a call each  *)
(* frame has a record joined, in its loop the innermost may have none.       *)

BoundFrames(fr, p) == IF p = "call" THEN Len(fr) ELSE Len(fr) - 1

\* The tables the first m frames scan.
Scanned(fr, m) == {fr[i].rel : i \in 1 .. m} \ {Null}

\* Each frame scans the table its condition adds, or adds none and has nothing to scan.
FrameOK(fr, i) ==
  /\ fr[i].left \in Seq(Nat) /\ IsInjective(fr[i].left)
  /\ \/ /\ fr[i].rel = Null /\ fr[i].left = <<>>
        /\ TablesOf(i) \subseteq Scanned(fr, i - 1)
     \/ /\ fr[i].rel \in TablesOf(i) \ {Null} /\ fr[i].rel \notin Scanned(fr, i - 1)
        /\ TablesOf(i) \subseteq Scanned(fr, i - 1) \cup {fr[i].rel, Null}
        /\ ToSet(fr[i].left) \subseteq DOMAIN content[fr[i].rel].slots

\* The records joined are those of the first b frames, and that of the last frame perhaps.
JoinedOK(fr, j, m) ==
  /\ j \in [Relations -> Nat \cup {Null}]
  /\ \A r \in Scanned(fr, m) : j[r] \in DOMAIN content[r].slots
  /\ \A r \in Relations \ Scanned(fr, Len(fr)) : j[r] = Null
  /\ \A i \in 1 .. m : fr[i].rel # Null => j[fr[i].rel] \notin ToSet(fr[i].left)

Control(fr, j, p) ==
  /\ p \in {"call", "loop", "done"}
  /\ p = "call" => fr # <<>>
  /\ p = "done" => fr = <<>>
  /\ fr \in Seq([rel : Relations \cup {Null}, left : Seq(Nat)]) /\ Len(fr) <= Len(conds)
  /\ \A i \in 1 .. Len(fr) : FrameOK(fr, i)
  /\ JoinedOK(fr, j, BoundFrames(fr, p))

-----------------------------------------------------------------------------
(* The rows.                                                                *)

\* f has the records joined by the first m frames.
Agrees(f, fr, j, m) == \A i \in 1 .. m : fr[i].rel # Null => f[fr[i].rel] = j[fr[i].rel]

\* f is one of the rows that the ith frame has still to come to.
OnFrame(f, fr, j, i) ==
  /\ fr[i].rel # Null
  /\ Agrees(f, fr, j, i - 1)
  /\ f[fr[i].rel] \in ToSet(fr[i].left)

Pending(f, fr, j, p) ==
  \/ p = "call" /\ Agrees(f, fr, j, Len(fr))
  \/ \E i \in 1 .. Len(fr) : OnFrame(f, fr, j, i)

\* The conditions taken hold of the records joined and of those the frames have left; what
\* matches was printed, once, or is still to come.
Answers(fr, j, p, pr) ==
  /\ \A i \in 1 .. BoundFrames(fr, p), f \in Combinations : Agrees(f, fr, j, i) => Admits(i, f)
  /\ \A i \in 1 .. Len(fr), f \in Combinations : OnFrame(f, fr, j, i) => Admits(i, f)
  /\ pr \in Seq(Admitted) /\ IsInjective(pr)
  /\ \A f \in Admitted : f \in ToSet(pr) <=> ~Pending(f, fr, j, p)

JoinGood(fr, j, p, pr) == Control(fr, j, p) /\ Answers(fr, j, p, pr)

JoinInv ==
  /\ pc \in {"no query", "call", "loop", "done", "planning failed", "undefined"}
  /\ pc # "no query" => QueryInv /\ (Complete => JoinGood(frames, joined, pc, printed))

-----------------------------------------------------------------------------
(* decideJoinOrder.                                                         *)

\* The conditions that can be taken after some, and an entry of the recursive definition.
More(cs, taken) == {i \in DOMAIN cs \ ToSet(taken) : Shares(cs[i], cs[Last(taken)])}

AfterTaken(cs, taken, n) ==
  IF Len(taken) < n \/ More(cs, taken) = {} THEN taken ELSE Append(taken, Min(More(cs, taken)))

OrderStep(g, cs, n) == IF n = 1 THEN <<Start(cs)>> ELSE AfterTaken(cs, g[n - 1], n - 1)

FitsOrder(g, cs, len) == g = [n \in 1 .. len |-> OrderStep(g, cs, n)]

\* There is a function that fits the definition.
LEMMA OrderExists ==
  ASSUME NEW cs, NEW len \in Nat
  PROVE  \E g : FitsOrder(g, cs, len)
<1> DEFINE Bad == {n \in Nat : ~ \E g : FitsOrder(g, cs, n)}
<1> SUFFICES ASSUME Bad # {} PROVE FALSE
  OBVIOUS
<1>1. PICK n \in Bad : \A m \in Bad : n <= m
  BY LeastNumber
<1>2. n \in Nat /\ ~ \E g : FitsOrder(g, cs, n)
  OBVIOUS
<1>3. n # 0
  <2>1. FitsOrder([i \in 1 .. 0 |-> 0], cs, 0)
    BY DEF FitsOrder
  <2> QED
    BY <1>2, <2>1
<1>4. n - 1 \in Nat /\ n - 1 \notin Bad
  BY <1>1, <1>2, <1>3
<1>5. PICK g : FitsOrder(g, cs, n - 1)
  BY <1>4
<1> DEFINE more == [i \in 1 .. n |-> IF i = n THEN OrderStep(g, cs, n) ELSE g[i]]
<1>6. FitsOrder(more, cs, n)
  <2>1. \A i \in 1 .. n - 1 : more[i] = g[i]
    BY <1>2
  <2>2. \A i \in 1 .. n - 1 : g[i] = OrderStep(g, cs, i)
    BY <1>5 DEF FitsOrder
  <2>3. more[n] = OrderStep(g, cs, n)
    BY <1>2, <1>3
  <2>4. more = [i \in 1 .. n |-> more[i]]
    OBVIOUS
  <2> HIDE DEF more
  <2>5. \A i \in 1 .. n : OrderStep(more, cs, i) = OrderStep(g, cs, i)
    <3>1. \A i \in 1 .. n : i # 1 => more[i - 1] = g[i - 1]
      BY <1>2, <2>1
    <3> QED
      BY <3>1 DEF OrderStep
  <2>6. \A i \in 1 .. n : more[i] = OrderStep(more, cs, i)
    BY <1>2, <2>1, <2>2, <2>3, <2>5
  <2> QED
    BY <2>4, <2>6 DEF FitsOrder
<1> QED
  BY <1>2, <1>6

\* What the order is after n steps.
PartPlan(cs, order, n) ==
  /\ order \in Seq(DOMAIN cs) /\ Len(order) \in 1 .. n
  /\ IsInjective(order)
  /\ \A m \in 2 .. Len(order) : Shares(cs[order[m]], cs[order[m - 1]])

\* The planning begins with the last condition that is not of one table with itself, ...
LEMMA StartPlan ==
  ASSUME NEW fs, NEW cs, CondsOf(fs, cs)
  PROVE  PartPlan(cs, <<Start(cs)>>, 1)
<1>1. DOMAIN cs = 1 .. Len(cs) /\ Len(cs) \in Nat
  BY DEF CondsOf
<1> DEFINE S == {i \in DOMAIN cs : cs[i].lhs # cs[i].rhs}
<1>2. S \subseteq 1 .. Len(cs) /\ S # {}
  BY <1>1 DEF CondsOf
<1>3. Max(S) \in S
  BY <1>1, <1>2, MaxOf
<1>4. Start(cs) \in DOMAIN cs
  BY <1>3 DEF Start
<1> DEFINE o == <<Start(cs)>>
<1>5. o \in Seq(DOMAIN cs) /\ Len(o) = 1
  BY <1>4
<1>6. DOMAIN o = {1}
  BY <1>5
<1> HIDE DEF o
<1>7. IsInjective(o)
  BY <1>6 DEF IsInjective
<1> QED
  BY <1>5, <1>7 DEF PartPlan, o

\* ... and each step adds another one, or none from then on.
LEMMA MorePlan ==
  ASSUME NEW fs, NEW cs, CondsOf(fs, cs), NEW n \in Nat, n # 0, NEW taken, PartPlan(cs, taken, n),
         NEW g, g[n] = taken
  PROVE  PartPlan(cs, OrderStep(g, cs, n + 1), n + 1)
<1> DEFINE more == More(cs, taken)
           x == Min(more)
           o == Append(taken, x)
<1>1. /\ taken \in Seq(DOMAIN cs) /\ Len(taken) \in 1 .. n /\ IsInjective(taken)
      /\ \A m \in 2 .. Len(taken) : Shares(cs[taken[m]], cs[taken[m - 1]])
  BY DEF PartPlan
<1>2. OrderStep(g, cs, n + 1) = IF Len(taken) < n \/ more = {} THEN taken ELSE o
  <2>1. n + 1 # 1 /\ n + 1 - 1 = n
    OBVIOUS
  <2>2. OrderStep(g, cs, n + 1) = AfterTaken(cs, taken, n)
    BY <2>1 DEF OrderStep
  <2> QED
    BY <2>2 DEF AfterTaken
<1>3. PartPlan(cs, taken, n + 1)
  BY <1>1 DEF PartPlan
<1>4. ASSUME more # {} PROVE PartPlan(cs, o, n + 1)
  <2>1. more \subseteq Nat
    BY DEF CondsOf, More
  <2>2. x \in more
    BY <1>4, <2>1, MinOf
  <2>3. x \in DOMAIN cs /\ x \notin ToSet(taken) /\ Shares(cs[x], cs[taken[Len(taken)]])
    BY <1>1, <2>2 DEF Last, More
  <2> HIDE DEF x
  <2>4. /\ o \in Seq(DOMAIN cs) /\ Len(o) = Len(taken) + 1 /\ o[Len(taken) + 1] = x
        /\ \A m \in 1 .. Len(taken) : o[m] = taken[m]
    BY <1>1, <2>3
  <2>5. IsInjective(o)
    BY <1>1, <2>3, AppendOnce
  <2> HIDE DEF o
  <2>6. ASSUME NEW m \in 2 .. Len(o) PROVE Shares(cs[o[m]], cs[o[m - 1]])
    <3>1. CASE m = Len(taken) + 1
      <4>1. o[m] = x /\ o[m - 1] = taken[Len(taken)]
        BY <1>1, <2>4, <3>1
      <4> QED
        BY <2>3, <4>1
    <3>2. CASE m # Len(taken) + 1
      <4>1. m \in 2 .. Len(taken) /\ o[m] = taken[m] /\ o[m - 1] = taken[m - 1]
        BY <1>1, <2>4, <3>2
      <4> QED
        BY <1>1, <4>1
    <3> QED
      BY <3>1, <3>2
  <2>7. Len(o) \in 1 .. n + 1
    BY <1>1, <2>4
  <2> QED
    BY <2>4, <2>5, <2>6, <2>7 DEF PartPlan
<1> HIDE DEF more, o
<1> QED
  BY <1>2, <1>3, <1>4

\* What decideJoinOrder answers: Plans.
LEMMA OrderIs ==
  ASSUME NEW fs, NEW cs, CondsOf(fs, cs)
  PROVE  Plans(cs, OrderFrom(cs))
<1>1. Len(cs) \in Nat /\ Len(cs) >= 1
  BY DEF CondsOf
<1> DEFINE order == CHOOSE g : FitsOrder(g, cs, Len(cs))
<1>2. FitsOrder(order, cs, Len(cs))
  BY <1>1, OrderExists
<1>3. OrderFrom(cs) = order[Len(cs)]
  BY DEF OrderFrom, FitsOrder, OrderStep, AfterTaken, More
<1> HIDE DEF order
<1>4. \A n \in 1 .. Len(cs) : order[n] = OrderStep(order, cs, n)
  BY <1>2 DEF FitsOrder
<1> DEFINE Bad == {n \in 1 .. Len(cs) : ~PartPlan(cs, order[n], n)}
<1>5. Bad = {}
  <2> SUFFICES ASSUME Bad # {} PROVE FALSE
    OBVIOUS
  <2>0. Bad \subseteq Nat
    OBVIOUS
  <2>1. PICK n \in Bad : \A m \in Bad : n <= m
    BY <2>0, LeastNumber
  <2>2. n \in 1 .. Len(cs) /\ ~PartPlan(cs, order[n], n)
    OBVIOUS
  <2>3. n # 1
    <3>1. OrderStep(order, cs, 1) = <<Start(cs)>>
      BY DEF OrderStep
    <3> QED
      BY <1>1, <1>4, <2>2, <3>1, StartPlan
  <2>4. PICK m : m = n - 1
    OBVIOUS
  <2>5. m \in 1 .. Len(cs) /\ m \in Nat /\ m # 0 /\ n = m + 1 /\ m \notin Bad
    BY <2>1, <2>2, <2>3, <2>4
  <2>6. PartPlan(cs, order[m], m)
    BY <2>5
  <2>7. PartPlan(cs, OrderStep(order, cs, m + 1), m + 1)
    BY <2>5, <2>6, MorePlan
  <2> QED
    BY <1>4, <2>2, <2>5, <2>7
<1>6. PartPlan(cs, order[Len(cs)], Len(cs))
  BY <1>1, <1>5
<1> QED
  BY <1>3, <1>6 DEF PartPlan, Plans

-----------------------------------------------------------------------------
(* What the recursion needs of the plan.                                    *)

\* The slots of a table, and its index into them.
GoodTable(table) ==
  /\ table.slots \in Seq([col : Int, alive : BOOLEAN])
  /\ \A key \in DOMAIN table.entry : table.entry[key] \in DOMAIN table.slots

PlanView ==
  /\ Null \notin ToSet(from) /\ ToSet(from) \subseteq Relations
  /\ Len(conds) \in Nat /\ Len(conds) >= 1
  /\ \A n \in 1 .. Len(conds) : Cond(n).lhs \in ToSet(from) /\ Cond(n).op \in {"EQ", "LT", "NO"}
  /\ Cond(1).rhs = Null
  /\ \A n \in 2 .. Len(conds) : Cond(n).rhs \in ToSet(from)
  /\ \A n \in 2 .. Len(conds) : TablesOf(n) \cap TablesOf(n - 1) # {}
  /\ \A r \in ToSet(from) : \E n \in 1 .. Len(conds) : r \in TablesOf(n)
  /\ \A n \in 1 .. Len(conds) : queryOrder[n] \in DOMAIN conds
  /\ \A i \in DOMAIN conds : \E n \in 1 .. Len(conds) : i = queryOrder[n]
  /\ \A r \in Relations : GoodTable(content[r])

\* The conditions are on tables of the query.
LEMMA QueryConds ==
  ASSUME QueryInv
  PROVE  /\ Null \notin ToSet(from) /\ ToSet(from) \subseteq Relations
         /\ Len(conds) \in Nat /\ DOMAIN conds = 1 .. Len(conds)
         /\ \A i \in DOMAIN conds : /\ conds[i].lhs \in ToSet(from)
                                    /\ conds[i].rhs \in ToSet(from) \cup {Null}
                                    /\ conds[i].op \in {"EQ", "LT", "NO"}
<1>1. from \in Seq(Relations) /\ from # <<>> /\ Null \notin Relations
  BY JoinsAssumption DEF QueryInv
<1>2. ToSet(from) \subseteq Relations /\ from[1] \in ToSet(from)
  <2>1. Len(from) \in Nat /\ Len(from) # 0 /\ \A i \in 1 .. Len(from) : from[i] \in Relations
    BY <1>1
  <2> QED
    BY <1>1, <2>1 DEF ToSet
<1>3. conds \in Seq(Conds(from) \cup {AnyRecord(from)})
  BY DEF QueryInv, CondsOf
<1>4. \A x \in Conds(from) : /\ x.lhs \in ToSet(from) /\ x.rhs \in ToSet(from) \cup {Null}
                             /\ x.op \in {"EQ", "LT", "NO"}
  BY DEF Conds, Ops
<1>5. /\ AnyRecord(from).lhs = from[1] /\ AnyRecord(from).rhs = Null
      /\ AnyRecord(from).op = "NO"
  BY DEF AnyRecord
<1>6. \A i \in DOMAIN conds : conds[i] \in Conds(from) \cup {AnyRecord(from)}
  BY <1>3
<1>7. Len(conds) \in Nat /\ DOMAIN conds = 1 .. Len(conds)
  BY <1>3
<1>8. ASSUME NEW i \in DOMAIN conds
      PROVE  /\ conds[i].lhs \in ToSet(from) /\ conds[i].rhs \in ToSet(from) \cup {Null}
             /\ conds[i].op \in {"EQ", "LT", "NO"}
  <2>1. CASE conds[i] \in Conds(from)
    BY <1>4, <2>1
  <2>2. CASE conds[i] = AnyRecord(from)
    BY <1>2, <1>5, <2>2
  <2> QED
    BY <1>6, <2>1, <2>2
<1> QED
  BY <1>1, <1>2, <1>7, <1>8

\* A complete plan takes every condition.
LEMMA AllTaken ==
  ASSUME QueryInv, Complete
  PROVE  ToSet(queryOrder) = DOMAIN conds
<1>1. /\ Len(conds) \in Nat /\ DOMAIN conds = 1 .. Len(conds)
      /\ queryOrder \in Seq(DOMAIN conds) /\ IsInjective(queryOrder) /\ Len(queryOrder) = Len(conds)
  BY QueryConds DEF QueryInv, Plans, Complete
<1>2. ToSet(queryOrder) \subseteq DOMAIN conds
  BY <1>1 DEF ToSet
<1>3. Cardinality(ToSet(queryOrder)) = Len(conds)
  BY <1>1, OnceLength
<1>4. IsFiniteSet(DOMAIN conds) /\ Cardinality(DOMAIN conds) = Len(conds)
  <2>1. PICK len \in Nat : len = Len(conds)
    BY <1>1
  <2>2. IsFiniteSet(1 .. len) /\ Cardinality(1 .. len) = len
    BY FS_Interval
  <2> QED
    BY <1>1, <2>1, <2>2
<1> QED
  BY <1>2, <1>3, <1>4, FS_Subset

\* The view, from the invariant.
LEMMA PlanViewOf ==
  ASSUME QueryInv, Complete
  PROVE  PlanView
<1>1. /\ Null \notin ToSet(from) /\ ToSet(from) \subseteq Relations
      /\ Len(conds) \in Nat /\ DOMAIN conds = 1 .. Len(conds)
      /\ \A i \in DOMAIN conds : /\ conds[i].lhs \in ToSet(from)
                                 /\ conds[i].rhs \in ToSet(from) \cup {Null}
                                 /\ conds[i].op \in {"EQ", "LT", "NO"}
  BY QueryConds
<1>2. /\ queryOrder \in Seq(DOMAIN conds) /\ IsInjective(queryOrder)
      /\ Len(queryOrder) = Len(conds) /\ Len(conds) >= 1
      /\ \A n \in 2 .. Len(queryOrder) : Shares(conds[queryOrder[n]], conds[queryOrder[n - 1]])
      /\ {i \in DOMAIN conds : conds[i].rhs = Null} = {queryOrder[1]}
  BY <1>1 DEF QueryInv, Plans, Complete
<1>3. \A n \in 1 .. Len(conds) : n \in DOMAIN queryOrder /\ queryOrder[n] \in DOMAIN conds
  BY <1>1, <1>2
<1>4. \A i \in DOMAIN conds : \E n \in 1 .. Len(conds) : i = queryOrder[n]
  <2>1. ToSet(queryOrder) = DOMAIN conds
    BY AllTaken
  <2>2. DOMAIN queryOrder = 1 .. Len(conds)
    BY <1>2
  <2> QED
    BY <2>1, <2>2 DEF ToSet
<1>5. Cond(1).rhs = Null
  BY <1>2 DEF Cond
<1>6. \A n \in 2 .. Len(conds) : Cond(n).rhs \in ToSet(from)
  <2> SUFFICES ASSUME NEW n \in 2 .. Len(conds) PROVE Cond(n).rhs \in ToSet(from)
    OBVIOUS
  <2>1. n \in 1 .. Len(conds) /\ 1 \in 1 .. Len(conds) /\ n # 1
    BY <1>1
  <2>2. queryOrder[n] # queryOrder[1]
    BY <1>2, <1>3, <2>1 DEF IsInjective
  <2>3. queryOrder[n] \in DOMAIN conds
    BY <1>3, <2>1
  <2>4. conds[queryOrder[n]].rhs # Null
    BY <1>2, <2>2, <2>3
  <2> QED
    BY <1>1, <2>3, <2>4 DEF Cond
<1>7. \A n \in 2 .. Len(conds) : TablesOf(n) \cap TablesOf(n - 1) # {}
  BY <1>2 DEF Shares, TablesOf, Cond
<1>8. \A r \in ToSet(from) : \E n \in 1 .. Len(conds) : r \in TablesOf(n)
  <2> SUFFICES ASSUME NEW r \in ToSet(from) PROVE \E n \in 1 .. Len(conds) : r \in TablesOf(n)
    OBVIOUS
  <2>1. PICK i \in DOMAIN conds : r = conds[i].lhs \/ r = conds[i].rhs
    BY DEF Complete
  <2>2. PICK n \in 1 .. Len(conds) : i = queryOrder[n]
    BY <1>4
  <2> QED
    BY <2>1, <2>2 DEF TablesOf, Cond
<1>9. \A n \in 1 .. Len(conds) : Cond(n).lhs \in ToSet(from) /\ Cond(n).op \in {"EQ", "LT", "NO"}
  BY <1>1, <1>3 DEF Cond
<1>10. \A r \in Relations : GoodTable(content[r])
  BY JoinsAssumption DEF QueryInv, GoodTable
<1> QED
  BY <1>1, <1>2, <1>3, <1>4, <1>5, <1>6, <1>7, <1>8, <1>9, <1>10 DEF PlanView

-----------------------------------------------------------------------------
(* Scans.                                                                   *)

\* The slots a scan comes to, each once.
LEMMA MatchesAre ==
  ASSUME NEW table, GoodTable(table), NEW o, NEW x
  PROVE  LET l == Matches(table, o, x) IN
         /\ l \in Seq(Nat) /\ IsInjective(l)
         /\ ToSet(l) = {i \in DOMAIN table.slots : Live(table, i, o, x)}
<1> DEFINE D == DOMAIN table.slots
           s == [i \in D |-> i]
           S == {i \in D : ~Live(table, i, o, x)}
<1>1. D = 1 .. Len(table.slots) /\ Len(table.slots) \in Nat
  BY DEF GoodTable
<1>2. s \in Seq(Nat) /\ DOMAIN s = D /\ \A i \in DOMAIN s : s[i] = i
  BY <1>1
<1>3. Matches(table, o, x) = Without(s, S)
  BY DEF Matches
<1>5. D \ S = {i \in D : Live(table, i, o, x)}
  OBVIOUS
<1> HIDE DEF s
<1>4. IsInjective(s) /\ ToSet(s) = D
  BY <1>2 DEF IsInjective, ToSet
<1> HIDE DEF S
<1>6. /\ Without(s, S) \in Seq(Nat) /\ IsInjective(Without(s, S))
      /\ ToSet(Without(s, S)) = ToSet(s) \ S
  BY <1>2, <1>4, WithoutElements
<1> QED
  BY <1>3, <1>4, <1>5, <1>6

\* The slots left to a scan or given by the index, each once.
LEMMA LeftIs ==
  ASSUME PlanView, NEW r \in Relations, NEW o, NEW x
  PROVE  /\ Left(r, o, x) \in Seq(Nat) /\ IsInjective(Left(r, o, x))
         /\ ToSet(Left(r, o, x)) = {i \in DOMAIN content[r].slots : Reached(r, o, x, i)}
<1>1. GoodTable(content[r])
  BY DEF PlanView
<1>2. CASE o = "EQ" /\ r \in Indexed
  <2> DEFINE l == Entry(content[r], x)
  <2>1. Left(r, o, x) = l
    BY <1>2 DEF Left
  <2>2. \A i : Reached(r, o, x, i) <=> x \in DOMAIN content[r].entry /\ content[r].entry[x] = i
    BY <1>2 DEF Reached
  <2>3. CASE x \in DOMAIN content[r].entry
    <3>1. PICK e : e = content[r].entry[x]
      OBVIOUS
    <3>2. e \in DOMAIN content[r].slots /\ e \in Nat
      BY <1>1, <2>3, <3>1 DEF GoodTable
    <3>3. l = << e >>
      BY <2>3, <3>1 DEF Entry
    <3>4. DOMAIN << e >> = {1} /\ << e >>[1] = e /\ << e >> \in Seq(Nat)
      BY <3>2
    <3>5. IsInjective(<< e >>) /\ ToSet(<< e >>) = {e}
      BY <3>4 DEF IsInjective, ToSet
    <3> QED
      BY <2>1, <2>2, <2>3, <3>1, <3>2, <3>3, <3>4, <3>5
  <2>4. CASE x \notin DOMAIN content[r].entry
    <3>1. l = <<>>
      BY <2>4 DEF Entry
    <3>2. <<>> \in Seq(Nat) /\ IsInjective(<<>>) /\ ToSet(<<>>) = {}
      BY DEF IsInjective, ToSet
    <3> QED
      BY <2>1, <2>2, <2>4, <3>1, <3>2
  <2> QED
    BY <2>3, <2>4
<1>3. CASE ~(o = "EQ" /\ r \in Indexed)
  <2>1. Left(r, o, x) = Matches(content[r], o, x)
    BY <1>3 DEF Left
  <2>2. \A i : Reached(r, o, x, i) <=> Live(content[r], i, o, x)
    BY <1>3 DEF Reached
  <2> QED
    BY <1>1, <2>1, <2>2, MatchesAre
<1> QED
  BY <1>2, <1>3

-----------------------------------------------------------------------------
(* Frames.                                                                  *)

\* Up to m the frames scan the same tables, with the same records joined.
SameJoin(fr, j, fr2, j2, m) ==
  \A i \in 1 .. m : /\ fr2[i].rel = fr[i].rel
                    /\ fr[i].rel # Null => j2[fr[i].rel] = j[fr[i].rel]

LEMMA SameScanned ==
  ASSUME NEW fr, NEW j, NEW fr2, NEW j2, NEW m \in Int, SameJoin(fr, j, fr2, j2, m),
         NEW n \in Int, n <= m
  PROVE  /\ Scanned(fr2, n) = Scanned(fr, n)
         /\ \A f : Agrees(f, fr2, j2, n) <=> Agrees(f, fr, j, n)
<1>1. \A i \in 1 .. n : /\ fr2[i].rel = fr[i].rel
                        /\ fr[i].rel # Null => j2[fr[i].rel] = j[fr[i].rel]
  BY DEF SameJoin
<1>2. Scanned(fr2, n) = Scanned(fr, n)
  BY <1>1 DEF Scanned
<1>3. \A f : Agrees(f, fr2, j2, n) <=> Agrees(f, fr, j, n)
  BY <1>1 DEF Agrees
<1> QED
  BY <1>2, <1>3

\* A frame that both have, after the same others, is as good, and has the same to come.
LEMMA SameFrame ==
  ASSUME NEW fr, NEW j, NEW fr2, NEW j2, NEW n \in Nat, n # 0,
         SameJoin(fr, j, fr2, j2, n - 1), fr2[n] = fr[n]
  PROVE  /\ FrameOK(fr2, n) <=> FrameOK(fr, n)
         /\ \A f : OnFrame(f, fr2, j2, n) <=> OnFrame(f, fr, j, n)
<1>1. /\ Scanned(fr2, n - 1) = Scanned(fr, n - 1)
      /\ \A f : Agrees(f, fr2, j2, n - 1) <=> Agrees(f, fr, j, n - 1)
  <2>1. n - 1 \in Int /\ n - 1 <= n - 1
    OBVIOUS
  <2> QED
    BY <2>1, SameScanned
<1> QED
  BY <1>1 DEF FrameOK, OnFrame

\* What the first m frames scan, the first n scan.
LEMMA ScannedGrows ==
  ASSUME NEW fr, NEW m \in Int, NEW n \in Int, m <= n
  PROVE  Scanned(fr, m) \subseteq Scanned(fr, n)
<1>1. \A i \in 1 .. m : i \in 1 .. n
  OBVIOUS
<1> QED
  BY <1>1 DEF Scanned

\* One frame more.
LEMMA ScannedNext ==
  ASSUME NEW fr, NEW n \in Nat, n # 0
  PROVE  Scanned(fr, n) = Scanned(fr, n - 1) \cup ({fr[n].rel} \ {Null})
<1>1. \A i \in 1 .. n : i = n \/ i \in 1 .. n - 1
  OBVIOUS
<1>2. n \in 1 .. n /\ \A i \in 1 .. n - 1 : i \in 1 .. n
  OBVIOUS
<1> QED
  BY <1>1, <1>2 DEF Scanned

\* A frame has the tables of its condition scanned.
LEMMA FrameTables ==
  ASSUME NEW fr, NEW n \in Nat, n # 0, FrameOK(fr, n)
  PROVE  TablesOf(n) \ {Null} \subseteq Scanned(fr, n)
<1>1. Scanned(fr, n) = Scanned(fr, n - 1) \cup ({fr[n].rel} \ {Null})
  BY ScannedNext
<1> QED
  BY <1>1 DEF FrameOK

\* In a call a table is joined if one of the frames scans it.
LEMMA JoinedIffScanned ==
  ASSUME PlanView, NEW fr, NEW j, Control(fr, j, "call"), NEW r \in Relations
  PROVE  /\ j[r] # Null <=> r \in Scanned(fr, Len(fr))
         /\ r \in Scanned(fr, Len(fr)) => j[r] \in DOMAIN content[r].slots
<1>1. /\ \A x \in Scanned(fr, Len(fr)) : j[x] \in DOMAIN content[x].slots
      /\ \A x \in Relations \ Scanned(fr, Len(fr)) : j[x] = Null
  BY DEF Control, JoinedOK, BoundFrames
<1>2. Null \notin DOMAIN content[r].slots
  <2>1. content[r].slots \in Seq([col : Int, alive : BOOLEAN]) /\ Null \notin Nat
    BY JoinsAssumption DEF PlanView, GoodTable
  <2>2. DOMAIN content[r].slots = 1 .. Len(content[r].slots)
    BY <2>1
  <2>3. \A i \in DOMAIN content[r].slots : i \in Nat
    BY <2>2
  <2> QED
    BY <2>1, <2>3
<1> QED
  BY <1>1, <1>2

-----------------------------------------------------------------------------
(* Where the recursion is, step by step.                                    *)

Frame == [rel : Relations \cup {Null}, left : Seq(Nat)]

\* Frames that are the same up to m, with the same records joined, are as good, have the same
\* tables scanned, agree with the same rows and have the same rows to come.
LEMMA SameUpTo ==
  ASSUME NEW fr, NEW j, NEW g, NEW j2, NEW m \in Int,
         \A i \in 1 .. m : /\ g[i] = fr[i]
                           /\ fr[i].rel # Null => j2[fr[i].rel] = j[fr[i].rel]
  PROVE  /\ \A k \in Int : k <= m => /\ Scanned(g, k) = Scanned(fr, k)
                                     /\ \A f : Agrees(f, g, j2, k) <=> Agrees(f, fr, j, k)
         /\ \A i \in 1 .. m : /\ FrameOK(g, i) <=> FrameOK(fr, i)
                              /\ \A f : OnFrame(f, g, j2, i) <=> OnFrame(f, fr, j, i)
<1>1. SameJoin(fr, j, g, j2, m)
  BY DEF SameJoin
<1>2. \A k \in Int : k <= m => /\ Scanned(g, k) = Scanned(fr, k)
                               /\ \A f : Agrees(f, g, j2, k) <=> Agrees(f, fr, j, k)
  BY <1>1, SameScanned
<1>3. ASSUME NEW i \in 1 .. m
      PROVE  /\ FrameOK(g, i) <=> FrameOK(fr, i)
             /\ \A f : OnFrame(f, g, j2, i) <=> OnFrame(f, fr, j, i)
  <2>1. i \in Nat /\ i # 0 /\ g[i] = fr[i]
    OBVIOUS
  <2>2. SameJoin(fr, j, g, j2, i - 1)
    BY <1>1 DEF SameJoin
  <2> QED
    BY <2>1, <2>2, SameFrame
<1> QED
  BY <1>2, <1>3

\* A query has conditions.
LEMMA LenConds == ASSUME PlanView PROVE Len(conds) \in Nat /\ Len(conds) >= 1
BY DEF PlanView

\* What Control says in a call and in a loop.
LEMMA ControlIs ==
  ASSUME NEW fr, NEW j, NEW p, Control(fr, j, p)
  PROVE  /\ fr \in Seq(Frame) /\ Len(fr) \in Nat /\ Len(fr) <= Len(conds)
         /\ \A i \in 1 .. Len(fr) : fr[i] \in Frame /\ FrameOK(fr, i)
         /\ fr # <<>> <=> Len(fr) # 0
         /\ j \in [Relations -> Nat \cup {Null}]
         /\ JoinedOK(fr, j, BoundFrames(fr, p))
<1>1. /\ fr \in Seq(Frame) /\ Len(fr) <= Len(conds)
      /\ \A i \in 1 .. Len(fr) : FrameOK(fr, i)
      /\ JoinedOK(fr, j, BoundFrames(fr, p))
  BY DEF Control, Frame
<1>2. /\ Len(fr) \in Nat /\ \A i \in 1 .. Len(fr) : fr[i] \in Frame
      /\ fr # <<>> <=> Len(fr) # 0
  BY <1>1
<1>3. j \in [Relations -> Nat \cup {Null}]
  BY <1>1 DEF JoinedOK
<1> QED
  BY <1>1, <1>2, <1>3

\* A condition is taken: the frames with one more.
LEMMA AppendIs ==
  ASSUME NEW fr \in Seq(Frame), NEW x \in Frame, NEW j
  PROVE  LET g == Append(fr, x) IN
         /\ g \in Seq(Frame) /\ Len(g) = Len(fr) + 1 /\ Len(fr) \in Nat
         /\ g[Len(fr) + 1] = x /\ \A i \in 1 .. Len(fr) : g[i] = fr[i]
         /\ \A k \in Int : k <= Len(fr) => /\ Scanned(g, k) = Scanned(fr, k)
                                           /\ \A f : Agrees(f, g, j, k) <=> Agrees(f, fr, j, k)
         /\ \A i \in 1 .. Len(fr) : /\ FrameOK(g, i) <=> FrameOK(fr, i)
                                    /\ \A f : OnFrame(f, g, j, i) <=> OnFrame(f, fr, j, i)
<1> DEFINE g == Append(fr, x)
<1>1. /\ g \in Seq(Frame) /\ Len(g) = Len(fr) + 1 /\ Len(fr) \in Nat
      /\ g[Len(fr) + 1] = x /\ \A i \in 1 .. Len(fr) : g[i] = fr[i]
  OBVIOUS
<1> HIDE DEF g
<1>2. \A i \in 1 .. Len(fr) : /\ g[i] = fr[i]
                              /\ fr[i].rel # Null => j[fr[i].rel] = j[fr[i].rel]
  BY <1>1
<1>3. Len(fr) \in Int
  BY <1>1
<1>4. /\ \A k \in Int : k <= Len(fr) => /\ Scanned(g, k) = Scanned(fr, k)
                                        /\ \A f : Agrees(f, g, j, k) <=> Agrees(f, fr, j, k)
      /\ \A i \in 1 .. Len(fr) : /\ FrameOK(g, i) <=> FrameOK(fr, i)
                                 /\ \A f : OnFrame(f, g, j, i) <=> OnFrame(f, fr, j, i)
  BY <1>2, <1>3, SameUpTo
<1> QED
  BY <1>1, <1>4 DEF g

\* The innermost frame is left or goes on: the frames before it are the same.
LEMMA FrontIs ==
  ASSUME NEW fr \in Seq(Frame), Len(fr) # 0, FrameOK(fr, Len(fr)), NEW j,
         NEW g, \A i \in 1 .. Len(fr) - 1 : g[i] = fr[i],
         NEW j2, \A r \in Relations \ {fr[Len(fr)].rel} : j2[r] = j[r]
  PROVE  /\ \A k \in Int : k <= Len(fr) - 1 =>
                             /\ Scanned(g, k) = Scanned(fr, k)
                             /\ \A f : Agrees(f, g, j2, k) <=> Agrees(f, fr, j, k)
         /\ \A i \in 1 .. Len(fr) - 1 : /\ FrameOK(g, i) <=> FrameOK(fr, i)
                                        /\ \A f : OnFrame(f, g, j2, i) <=> OnFrame(f, fr, j, i)
<1>1. Len(fr) \in Nat /\ Len(fr) - 1 \in Int /\ \A i \in 1 .. Len(fr) : fr[i] \in Frame
  OBVIOUS
<1>2. fr[Len(fr)].rel = Null \/ fr[Len(fr)].rel \notin Scanned(fr, Len(fr) - 1)
  BY DEF FrameOK
<1>3. \A i \in 1 .. Len(fr) - 1 : fr[i].rel # Null => fr[i].rel # fr[Len(fr)].rel
  BY <1>2 DEF Scanned
<1>4. \A i \in 1 .. Len(fr) - 1 : fr[i].rel # Null => fr[i].rel \in Relations
  <2>1. \A i \in 1 .. Len(fr) - 1 : fr[i] \in Frame
    BY <1>1
  <2>2. \A y \in Frame : y.rel # Null => y.rel \in Relations
    BY DEF Frame
  <2> QED
    BY <2>1, <2>2
<1>5. \A i \in 1 .. Len(fr) - 1 : /\ g[i] = fr[i]
                                  /\ fr[i].rel # Null => j2[fr[i].rel] = j[fr[i].rel]
  BY <1>3, <1>4
<1> QED
  BY <1>1, <1>5, SameUpTo

\* A condition is taken that scans a table.
LEMMA ScanControl ==
  ASSUME PlanView, NEW fr, NEW j, Control(fr, j, "call"), Len(fr) < Len(conds),
         NEW r \in TablesOf(Len(fr) + 1) \cap Relations, r \notin Scanned(fr, Len(fr)),
         TablesOf(Len(fr) + 1) \subseteq Scanned(fr, Len(fr)) \cup {r, Null},
         NEW l \in Seq(Nat), IsInjective(l), ToSet(l) \subseteq DOMAIN content[r].slots
  PROVE  Control(Append(fr, [rel |-> r, left |-> l]), j, "loop")
<1> DEFINE x == [rel |-> r, left |-> l]
           g == Append(fr, x)
           n == Len(fr) + 1
<1>1. /\ fr \in Seq(Frame) /\ Len(fr) \in Nat /\ Len(fr) <= Len(conds)
      /\ \A i \in 1 .. Len(fr) : FrameOK(fr, i)
      /\ JoinedOK(fr, j, Len(fr))
  BY ControlIs DEF BoundFrames
<1>2. x \in Frame /\ x.rel = r /\ x.left = l /\ r # Null
  BY JoinsAssumption DEF Frame
<1> HIDE DEF x
<1>3. /\ g \in Seq(Frame) /\ Len(g) = n /\ g[n] = x
      /\ \A i \in 1 .. Len(fr) : g[i] = fr[i]
      /\ \A k \in Int : k <= Len(fr) => Scanned(g, k) = Scanned(fr, k)
      /\ \A i \in 1 .. Len(fr) : FrameOK(g, i) <=> FrameOK(fr, i)
  BY <1>1, <1>2, AppendIs
<1> HIDE DEF g
<1>4. n \in Nat /\ n # 0 /\ n - 1 = Len(fr) /\ n <= Len(conds)
  BY <1>1, LenConds
<1>5. Scanned(g, Len(fr)) = Scanned(fr, Len(fr)) /\ Scanned(g, n) = Scanned(fr, Len(fr)) \cup {r}
  <2>1. Scanned(g, Len(fr)) = Scanned(fr, Len(fr))
    BY <1>1, <1>3
  <2>2. Scanned(g, n) = Scanned(g, n - 1) \cup ({g[n].rel} \ {Null})
    BY <1>4, ScannedNext
  <2> QED
    BY <1>2, <1>3, <1>4, <2>1, <2>2
<1>6. FrameOK(g, n)
  <2>1. Scanned(g, n - 1) = Scanned(fr, Len(fr))
    BY <1>4, <1>5
  <2> QED
    BY <1>2, <1>3, <2>1 DEF FrameOK
<1>7. \A i \in 1 .. Len(g) : FrameOK(g, i)
  <2>1. \A i \in 1 .. n : i = n \/ i \in 1 .. Len(fr)
    BY <1>1
  <2> QED
    BY <1>1, <1>3, <1>6, <2>1
<1>8. JoinedOK(g, j, Len(g) - 1)
  <2>1. Len(g) - 1 = Len(fr)
    BY <1>3, <1>4
  <2>2. JoinedOK(g, j, Len(fr))
    BY <1>1, <1>3, <1>5 DEF JoinedOK
  <2> QED
    BY <2>1, <2>2
<1>9. BoundFrames(g, "loop") = Len(g) - 1
  BY DEF BoundFrames
<1> QED
  BY <1>3, <1>4, <1>7, <1>8, <1>9 DEF Control, Frame, g, x

\* A condition is taken that compares two tables that are joined.
LEMMA CompareControl ==
  ASSUME PlanView, NEW fr, NEW j, Control(fr, j, "call"), Len(fr) < Len(conds),
         TablesOf(Len(fr) + 1) \subseteq Scanned(fr, Len(fr))
  PROVE  Control(Append(fr, [rel |-> Null, left |-> <<>>]), j, "call")
<1> DEFINE x == [rel |-> Null, left |-> <<>>]
           g == Append(fr, x)
           n == Len(fr) + 1
<1>1. /\ fr \in Seq(Frame) /\ Len(fr) \in Nat /\ Len(fr) <= Len(conds)
      /\ \A i \in 1 .. Len(fr) : FrameOK(fr, i)
      /\ JoinedOK(fr, j, Len(fr))
  BY ControlIs DEF BoundFrames
<1>2. /\ x \in Frame /\ x.rel = Null /\ x.left = <<>>
      /\ <<>> \in Seq(Nat) /\ IsInjective(x.left)
  BY DEF Frame, IsInjective
<1> HIDE DEF x
<1>3. /\ g \in Seq(Frame) /\ Len(g) = n /\ g[n] = x
      /\ \A i \in 1 .. Len(fr) : g[i] = fr[i]
      /\ \A k \in Int : k <= Len(fr) => Scanned(g, k) = Scanned(fr, k)
      /\ \A i \in 1 .. Len(fr) : FrameOK(g, i) <=> FrameOK(fr, i)
  BY <1>1, <1>2, AppendIs
<1> HIDE DEF g
<1>4. n \in Nat /\ n # 0 /\ n - 1 = Len(fr) /\ n <= Len(conds)
  BY <1>1, LenConds
<1>5. Scanned(g, n) = Scanned(fr, Len(fr)) /\ Scanned(g, Len(fr)) = Scanned(fr, Len(fr))
  <2>1. Scanned(g, Len(fr)) = Scanned(fr, Len(fr))
    BY <1>1, <1>3
  <2>2. Scanned(g, n) = Scanned(g, n - 1) \cup ({g[n].rel} \ {Null})
    BY <1>4, ScannedNext
  <2> QED
    BY <1>2, <1>3, <1>4, <2>1, <2>2
<1>6. FrameOK(g, n)
  <2>1. Scanned(g, n - 1) = Scanned(fr, Len(fr))
    BY <1>4, <1>5
  <2> QED
    BY <1>2, <1>3, <2>1 DEF FrameOK
<1>7. \A i \in 1 .. n : i = n \/ i \in 1 .. Len(fr)
  BY <1>1
<1>8. \A i \in 1 .. Len(g) : FrameOK(g, i)
  BY <1>1, <1>3, <1>6, <1>7
<1>9. JoinedOK(g, j, n)
  BY <1>1, <1>2, <1>3, <1>5, <1>7 DEF JoinedOK
<1>10. BoundFrames(g, "call") = n /\ g # <<>>
  BY <1>3, <1>4 DEF BoundFrames
<1> QED
  BY <1>3, <1>4, <1>8, <1>9, <1>10 DEF Control, Frame, g, x

\* A call that took no condition is back in the loop of the innermost frame.
LEMMA LoopControl ==
  ASSUME NEW fr, NEW j, Control(fr, j, "call")
  PROVE  Control(fr, j, "loop")
<1>1. /\ fr \in Seq(Frame) /\ Len(fr) \in Nat /\ Len(fr) <= Len(conds)
      /\ \A i \in 1 .. Len(fr) : FrameOK(fr, i)
      /\ JoinedOK(fr, j, Len(fr))
  BY ControlIs DEF BoundFrames
<1>2. Scanned(fr, Len(fr) - 1) \subseteq Scanned(fr, Len(fr))
  BY <1>1, ScannedGrows
<1>3. \A i \in 1 .. Len(fr) - 1 : i \in 1 .. Len(fr)
  BY <1>1
<1>4. JoinedOK(fr, j, Len(fr) - 1)
  BY <1>1, <1>2, <1>3 DEF JoinedOK
<1> QED
  BY <1>1, <1>4 DEF Control, BoundFrames, Frame

\* The end of the query.
LEMMA DoneControl ==
  ASSUME NEW fr, NEW j, Control(fr, j, "loop"), fr = <<>>
  PROVE  Control(fr, j, "done")
BY DEF Control, BoundFrames
\* The records left to a scan after its next one.
LEMMA TailIs ==
  ASSUME NEW l \in Seq(Nat), IsInjective(l), l # <<>>
  PROVE  /\ Tail(l) \in Seq(Nat) /\ IsInjective(Tail(l))
         /\ Head(l) \in Nat /\ ToSet(l) = {Head(l)} \cup ToSet(Tail(l))
         /\ Head(l) \notin ToSet(Tail(l))
<1>1. PICK t : t = Tail(l)
  OBVIOUS
<1>2. /\ Len(l) \in Nat /\ Len(l) # 0 /\ t \in Seq(Nat) /\ Len(t) = Len(l) - 1
      /\ Head(l) = l[1] /\ \A i \in 1 .. Len(t) : t[i] = l[i + 1]
  BY <1>1
<1>3. /\ DOMAIN l = 1 .. Len(l) /\ DOMAIN t = 1 .. Len(l) - 1
      /\ \A i \in 1 .. Len(l) - 1 : t[i] = l[i + 1] /\ i + 1 \in 1 .. Len(l) /\ i + 1 # 1
      /\ \A i \in 1 .. Len(l) : i = 1 \/ (i - 1 \in 1 .. Len(l) - 1 /\ i = (i - 1) + 1)
      /\ 1 \in 1 .. Len(l)
  BY <1>2
<1>4. IsInjective(t)
  <2> SUFFICES ASSUME NEW a \in DOMAIN t, NEW b \in DOMAIN t, t[a] = t[b] PROVE a = b
    BY DEF IsInjective
  <2>1. l[a + 1] = l[b + 1] /\ a + 1 \in DOMAIN l /\ b + 1 \in DOMAIN l
    BY <1>3
  <2>2. a + 1 = b + 1
    BY <2>1 DEF IsInjective
  <2> QED
    BY <1>3, <2>2
<1>5. ToSet(l) = {l[1]} \cup ToSet(t)
  <2>1. \A i \in DOMAIN l : i = 1 \/ (i - 1 \in DOMAIN t /\ l[i] = t[i - 1])
    BY <1>3
  <2>2. \A i \in DOMAIN t : i + 1 \in DOMAIN l /\ l[i + 1] = t[i]
    BY <1>3
  <2>3. ToSet(l) \subseteq {l[1]} \cup ToSet(t)
    BY <2>1 DEF ToSet
  <2>4. {l[1]} \cup ToSet(t) \subseteq ToSet(l)
    BY <1>3, <2>2 DEF ToSet
  <2> QED
    BY <2>3, <2>4
<1>6. l[1] \notin ToSet(t)
  <2> SUFFICES ASSUME NEW i \in DOMAIN t, t[i] = l[1] PROVE FALSE
    BY DEF ToSet
  <2> QED
    BY <1>3 DEF IsInjective
<1> QED
  BY <1>1, <1>2, <1>4, <1>5, <1>6

\* The innermost frame.
LEMMA LastIs ==
  ASSUME NEW fr, NEW j, NEW p, Control(fr, j, p), fr # <<>>
  PROVE  LET n == Len(fr) r == Last(fr).rel l == Last(fr).left IN
         /\ n \in Nat /\ n # 0 /\ Last(fr) = fr[n] /\ fr[n] \in Frame
         /\ Front(fr) \in Seq(Frame) /\ Len(Front(fr)) = n - 1
         /\ \A i \in 1 .. n - 1 : Front(fr)[i] = fr[i]
         /\ l \in Seq(Nat) /\ IsInjective(l)
         /\ r = Null => l = <<>>
         /\ r # Null => /\ r \in Relations /\ r \in TablesOf(n) /\ r \notin Scanned(fr, n - 1)
                        /\ TablesOf(n) \subseteq Scanned(fr, n - 1) \cup {r, Null}
                        /\ ToSet(l) \subseteq DOMAIN content[r].slots
<1>1. /\ fr \in Seq(Frame) /\ Len(fr) \in Nat /\ Len(fr) # 0
      /\ fr[Len(fr)] \in Frame /\ FrameOK(fr, Len(fr))
  <2>1. /\ fr \in Seq(Frame) /\ Len(fr) \in Nat /\ Len(fr) # 0
        /\ \A i \in 1 .. Len(fr) : fr[i] \in Frame /\ FrameOK(fr, i)
    BY ControlIs
  <2>2. Len(fr) \in 1 .. Len(fr)
    BY <2>1
  <2> QED
    BY <2>1, <2>2
<1>2. Last(fr) = fr[Len(fr)] /\ Front(fr) = SubSeq(fr, 1, Len(fr) - 1)
  BY DEF Last, Front
<1>3. /\ Front(fr) \in Seq(Frame) /\ Len(Front(fr)) = Len(fr) - 1
      /\ \A i \in 1 .. Len(Front(fr)) : Front(fr)[i] = fr[i]
  BY <1>1, <1>2, AllButLast
<1>4. Last(fr).rel # Null => Last(fr).rel \in Relations
  BY <1>1, <1>2 DEF Frame
<1> QED
  BY <1>1, <1>2, <1>3, <1>4 DEF FrameOK

\* The next record of the innermost scan is joined.
LEMMA NextIs ==
  ASSUME NEW fr, NEW j, Control(fr, j, "loop"), fr # <<>>, Last(fr).left # <<>>
  PROVE  LET n  == Len(fr)
             r  == Last(fr).rel
             l  == Last(fr).left
             g  == Append(Front(fr), [Last(fr) EXCEPT !.left = Tail(@)])
             j2 == [j EXCEPT ![r] = Head(l)]
         IN
         /\ g \in Seq(Frame) /\ Len(g) = n /\ g[n].rel = r /\ g[n].left = Tail(l)
         /\ \A i \in 1 .. n - 1 : g[i] = fr[i]
         /\ j2 \in [Relations -> Nat \cup {Null}] /\ j2[r] = Head(l)
         /\ \A s \in Relations \ {r} : j2[s] = j[s]
         /\ \A k \in Int : k <= n - 1 => /\ Scanned(g, k) = Scanned(fr, k)
                                         /\ \A f : Agrees(f, g, j2, k) <=> Agrees(f, fr, j, k)
         /\ \A i \in 1 .. n - 1 : /\ FrameOK(g, i) <=> FrameOK(fr, i)
                                  /\ \A f : OnFrame(f, g, j2, i) <=> OnFrame(f, fr, j, i)
<1> DEFINE n  == Len(fr)
           r  == Last(fr).rel
           l  == Last(fr).left
           x  == [Last(fr) EXCEPT !.left = Tail(@)]
           h  == Front(fr)
           g  == Append(h, x)
           j2 == [j EXCEPT ![r] = Head(l)]
<1>1. /\ n \in Nat /\ n # 0 /\ Last(fr) = fr[n] /\ fr[n] \in Frame
      /\ h \in Seq(Frame) /\ Len(h) = n - 1
      /\ \A i \in 1 .. n - 1 : h[i] = fr[i]
      /\ l \in Seq(Nat) /\ IsInjective(l)
      /\ r # Null /\ r \in Relations
  BY LastIs
<1>2. Tail(l) \in Seq(Nat) /\ Head(l) \in Nat
  BY <1>1, TailIs
<1>3. x \in Frame /\ x.rel = r /\ x.left = Tail(l)
  <2>1. Last(fr) \in [rel : Relations \cup {Null}, left : Seq(Nat)]
    BY <1>1 DEF Frame
  <2> QED
    BY <1>2, <2>1 DEF Frame
<1> HIDE DEF x, h
<1>4. g \in Seq(Frame) /\ Len(g) = n /\ g[n] = x /\ \A i \in 1 .. n - 1 : g[i] = fr[i]
  BY <1>1, <1>3
<1>5. j \in [Relations -> Nat \cup {Null}] /\ fr \in Seq(Frame) /\ FrameOK(fr, n)
  <2>1. n \in 1 .. n
    BY <1>1
  <2> QED
    BY <2>1, ControlIs
<1>6. /\ j2 \in [Relations -> Nat \cup {Null}] /\ j2[r] = Head(l)
      /\ \A s \in Relations \ {r} : j2[s] = j[s]
  BY <1>1, <1>2, <1>5
<1> HIDE DEF g, j2
<1>7. fr[n].rel = r
  BY <1>1
<1>8. /\ \A k \in Int : k <= n - 1 => /\ Scanned(g, k) = Scanned(fr, k)
                                      /\ \A f : Agrees(f, g, j2, k) <=> Agrees(f, fr, j, k)
      /\ \A i \in 1 .. n - 1 : /\ FrameOK(g, i) <=> FrameOK(fr, i)
                               /\ \A f : OnFrame(f, g, j2, i) <=> OnFrame(f, fr, j, i)
  BY <1>1, <1>4, <1>5, <1>6, <1>7, FrontIs
<1> QED
  BY <1>3, <1>4, <1>6, <1>8 DEF g, j2, h, x

\* Control after that.
LEMMA NextControl ==
  ASSUME PlanView, NEW fr, NEW j, Control(fr, j, "loop"), fr # <<>>, Last(fr).left # <<>>
  PROVE  Control(Append(Front(fr), [Last(fr) EXCEPT !.left = Tail(@)]),
                 [j EXCEPT ![Last(fr).rel] = Head(Last(fr).left)], "call")
<1> DEFINE n  == Len(fr)
           r  == Last(fr).rel
           l  == Last(fr).left
           g  == Append(Front(fr), [Last(fr) EXCEPT !.left = Tail(@)])
           j2 == [j EXCEPT ![r] = Head(l)]
<1>1. /\ n \in Nat /\ n # 0 /\ l \in Seq(Nat) /\ IsInjective(l)
      /\ r # Null /\ r \in Relations /\ r \in TablesOf(n) /\ r \notin Scanned(fr, n - 1)
      /\ TablesOf(n) \subseteq Scanned(fr, n - 1) \cup {r, Null}
      /\ ToSet(l) \subseteq DOMAIN content[r].slots
      /\ fr[n].rel = r
  BY LastIs
<1>2. /\ g \in Seq(Frame) /\ Len(g) = n /\ g[n].rel = r /\ g[n].left = Tail(l)
      /\ \A i \in 1 .. n - 1 : g[i] = fr[i]
      /\ j2 \in [Relations -> Nat \cup {Null}] /\ j2[r] = Head(l)
      /\ \A s \in Relations \ {r} : j2[s] = j[s]
      /\ \A k \in Int : k <= n - 1 => Scanned(g, k) = Scanned(fr, k)
      /\ \A i \in 1 .. n - 1 : FrameOK(g, i) <=> FrameOK(fr, i)
  BY NextIs
<1> HIDE DEF g, j2
<1>3. /\ Tail(l) \in Seq(Nat) /\ IsInjective(Tail(l))
      /\ ToSet(l) = {Head(l)} \cup ToSet(Tail(l)) /\ Head(l) \notin ToSet(Tail(l))
  BY <1>1, TailIs
<1>4. /\ n <= Len(conds) /\ \A i \in 1 .. n : FrameOK(fr, i)
      /\ JoinedOK(fr, j, n - 1)
  BY ControlIs DEF BoundFrames
<1> HIDE DEF l, r
<1>5. n - 1 \in Int /\ n - 1 <= n - 1 /\ \A i \in 1 .. n : i = n \/ i \in 1 .. n - 1
  BY <1>1
<1>6. Scanned(g, n - 1) = Scanned(fr, n - 1)
  BY <1>2, <1>5
<1>7. Scanned(g, n) = Scanned(fr, n) /\ Scanned(fr, n) = Scanned(fr, n - 1) \cup {r}
  <2>1. /\ Scanned(g, n) = Scanned(g, n - 1) \cup ({g[n].rel} \ {Null})
        /\ Scanned(fr, n) = Scanned(fr, n - 1) \cup ({fr[n].rel} \ {Null})
    BY <1>1, ScannedNext
  <2> QED
    BY <1>1, <1>2, <1>6, <2>1
<1>8. FrameOK(g, n)
  BY <1>1, <1>2, <1>3, <1>6 DEF FrameOK
<1>9. \A i \in 1 .. Len(g) : FrameOK(g, i)
  BY <1>2, <1>4, <1>5, <1>8
<1>10. JoinedOK(g, j2, n)
  <2>1. \A s \in Scanned(g, n) : j2[s] \in DOMAIN content[s].slots
    <3>1. \A i \in 1 .. n - 1 : fr[i].rel # Null => fr[i].rel \in Relations
      <4>1. \A i \in 1 .. n : fr[i] \in Frame
        BY ControlIs
      <4>2. \A y \in Frame : y.rel # Null => y.rel \in Relations
        BY DEF Frame
      <4> QED
        BY <1>5, <4>1, <4>2
    <3>2. \A s \in Scanned(fr, n - 1) : s \in Relations \ {r}
      BY <1>1, <3>1 DEF Scanned
    <3>3. \A s \in Scanned(fr, n - 1) : j2[s] \in DOMAIN content[s].slots
      BY <1>2, <1>4, <3>2 DEF JoinedOK
    <3> QED
      BY <1>1, <1>2, <1>3, <1>7, <3>3
  <2>2. \A s \in Relations \ Scanned(g, Len(g)) : j2[s] = Null
    BY <1>2, <1>4, <1>7 DEF JoinedOK
  <2>3. \A i \in 1 .. n : g[i].rel # Null => j2[g[i].rel] \notin ToSet(g[i].left)
    <3> SUFFICES ASSUME NEW i \in 1 .. n, g[i].rel # Null
                 PROVE  j2[g[i].rel] \notin ToSet(g[i].left)
      OBVIOUS
    <3>1. CASE i = n
      BY <1>2, <1>3, <3>1
    <3>2. CASE i # n
      <4>1. i \in 1 .. n - 1 /\ g[i] = fr[i] /\ i \in Int
        BY <1>2, <1>5, <3>2
      <4>2. fr[i].rel \in Scanned(fr, n - 1)
        BY <4>1 DEF Scanned
      <4>3. fr[i] \in Frame
        BY ControlIs
      <4>4. fr[i].rel \in Relations \ {r}
        BY <1>1, <4>1, <4>2, <4>3 DEF Frame
      <4> QED
        BY <1>2, <1>4, <4>1, <4>4 DEF JoinedOK
    <3> QED
      BY <3>1, <3>2
  <2> QED
    BY <1>2, <2>1, <2>2, <2>3 DEF JoinedOK
<1>11. BoundFrames(g, "call") = n /\ g # <<>>
  BY <1>1, <1>2 DEF BoundFrames
<1> QED
  BY <1>2, <1>4, <1>9, <1>10, <1>11 DEF Control, Frame, g, j2, r, l
\* The innermost frame is left, with its table.
LEMMA ReturnIs ==
  ASSUME NEW fr, NEW j, Control(fr, j, "loop"), fr # <<>>
  PROVE  LET n  == Len(fr)
             r  == Last(fr).rel
             g  == Front(fr)
             j2 == IF r = Null THEN j ELSE [j EXCEPT ![r] = Null]
         IN
         /\ g \in Seq(Frame) /\ Len(g) = n - 1 /\ \A i \in 1 .. n - 1 : g[i] = fr[i]
         /\ j2 \in [Relations -> Nat \cup {Null}] /\ (r # Null => j2[r] = Null)
         /\ \A s \in Relations \ {r} : j2[s] = j[s]
         /\ \A k \in Int : k <= n - 1 => /\ Scanned(g, k) = Scanned(fr, k)
                                         /\ \A f : Agrees(f, g, j2, k) <=> Agrees(f, fr, j, k)
         /\ \A i \in 1 .. n - 1 : /\ FrameOK(g, i) <=> FrameOK(fr, i)
                                  /\ \A f : OnFrame(f, g, j2, i) <=> OnFrame(f, fr, j, i)
<1> DEFINE n  == Len(fr)
           r  == Last(fr).rel
           g  == Front(fr)
           j2 == IF r = Null THEN j ELSE [j EXCEPT ![r] = Null]
<1>1. /\ n \in Nat /\ n # 0 /\ fr[n].rel = r
      /\ g \in Seq(Frame) /\ Len(g) = n - 1 /\ \A i \in 1 .. n - 1 : g[i] = fr[i]
      /\ r # Null => r \in Relations
  BY LastIs
<1>2. j \in [Relations -> Nat \cup {Null}] /\ fr \in Seq(Frame) /\ FrameOK(fr, n)
  <2>1. n \in 1 .. n
    BY <1>1
  <2> QED
    BY <2>1, ControlIs
<1> HIDE DEF g
<1>3. /\ j2 \in [Relations -> Nat \cup {Null}] /\ (r # Null => j2[r] = Null)
      /\ \A s \in Relations \ {r} : j2[s] = j[s]
  BY <1>1, <1>2
<1> HIDE DEF j2
<1>4. /\ \A k \in Int : k <= n - 1 => /\ Scanned(g, k) = Scanned(fr, k)
                                      /\ \A f : Agrees(f, g, j2, k) <=> Agrees(f, fr, j, k)
      /\ \A i \in 1 .. n - 1 : /\ FrameOK(g, i) <=> FrameOK(fr, i)
                               /\ \A f : OnFrame(f, g, j2, i) <=> OnFrame(f, fr, j, i)
  BY <1>1, <1>2, <1>3, FrontIs
<1> QED
  BY <1>1, <1>3, <1>4 DEF g, j2

\* Control after that.
LEMMA ReturnControl ==
  ASSUME PlanView, NEW fr, NEW j, Control(fr, j, "loop"), fr # <<>>
  PROVE  Control(Front(fr), IF Last(fr).rel = Null THEN j ELSE [j EXCEPT ![Last(fr).rel] = Null],
                 "loop")
<1> DEFINE n  == Len(fr)
           r  == Last(fr).rel
           g  == Front(fr)
           j2 == IF r = Null THEN j ELSE [j EXCEPT ![r] = Null]
<1>1. /\ n \in Nat /\ n # 0 /\ fr[n].rel = r
      /\ r # Null => r \in Relations /\ r \notin Scanned(fr, n - 1)
  BY LastIs
<1>2. /\ g \in Seq(Frame) /\ Len(g) = n - 1 /\ \A i \in 1 .. n - 1 : g[i] = fr[i]
      /\ j2 \in [Relations -> Nat \cup {Null}] /\ (r # Null => j2[r] = Null)
      /\ \A s \in Relations \ {r} : j2[s] = j[s]
      /\ \A k \in Int : k <= n - 1 => Scanned(g, k) = Scanned(fr, k)
      /\ \A i \in 1 .. n - 1 : FrameOK(g, i) <=> FrameOK(fr, i)
  BY ReturnIs
<1> HIDE DEF g, j2
<1>3. /\ n <= Len(conds) /\ \A i \in 1 .. n : fr[i] \in Frame /\ FrameOK(fr, i)
      /\ JoinedOK(fr, j, n - 1)
  BY ControlIs DEF BoundFrames
<1>4. /\ n - 1 \in Int /\ n - 2 \in Int /\ n - 2 <= n - 1 /\ \A i \in 1 .. n - 1 : i \in 1 .. n
      /\ \A i \in 1 .. n - 2 : i \in 1 .. n - 1
  BY <1>1
<1>5. \A i \in 1 .. n - 1 : FrameOK(g, i)
  BY <1>2, <1>3, <1>4
<1>6. Scanned(g, n - 1) = Scanned(fr, n - 1) /\ Scanned(g, n - 2) = Scanned(fr, n - 2)
  BY <1>2, <1>4
<1>7. Scanned(fr, n) = Scanned(fr, n - 1) \cup ({r} \ {Null})
  BY <1>1, ScannedNext
<1>8. \A s \in Scanned(fr, n - 1) : s \in Relations \ {r}
  <2>1. \A y \in Frame : y.rel # Null => y.rel \in Relations
    BY DEF Frame
  <2>2. \A i \in 1 .. n - 1 : fr[i].rel # Null => fr[i].rel \in Relations
    BY <1>3, <1>4, <2>1
  <2>3. r \notin Scanned(fr, n - 1)
    BY <1>1 DEF Scanned
  <2> QED
    BY <2>2, <2>3 DEF Scanned
<1>9. Scanned(fr, n - 2) \subseteq Scanned(fr, n - 1)
  BY <1>4, ScannedGrows
<1>10. JoinedOK(g, j2, n - 2)
  <2>1. \A s \in Scanned(g, n - 2) : j2[s] \in DOMAIN content[s].slots
    BY <1>2, <1>3, <1>6, <1>8, <1>9 DEF JoinedOK
  <2>2. \A s \in Relations \ Scanned(g, Len(g)) : j2[s] = Null
    <3> SUFFICES ASSUME NEW s \in Relations, s \notin Scanned(g, Len(g)) PROVE j2[s] = Null
      OBVIOUS
    <3>1. CASE s = r
      BY <1>2, <3>1, JoinsAssumption
    <3>2. CASE s # r
      <4>1. s \notin Scanned(fr, n)
        BY <1>2, <1>6, <1>7, <3>2
      <4> QED
        BY <1>2, <1>3, <3>2, <4>1 DEF JoinedOK
    <3> QED
      BY <3>1, <3>2
  <2>3. \A i \in 1 .. n - 2 : g[i].rel # Null => j2[g[i].rel] \notin ToSet(g[i].left)
    <3> SUFFICES ASSUME NEW i \in 1 .. n - 2, g[i].rel # Null
                 PROVE  j2[g[i].rel] \notin ToSet(g[i].left)
      OBVIOUS
    <3>1. i \in 1 .. n - 1 /\ g[i] = fr[i]
      BY <1>2, <1>4
    <3>2. fr[i].rel \in Scanned(fr, n - 1)
      BY <3>1 DEF Scanned
    <3>3. j2[fr[i].rel] = j[fr[i].rel]
      BY <1>2, <1>8, <3>2
    <3> QED
      BY <1>3, <3>1, <3>3 DEF JoinedOK
  <2> QED
    BY <1>2, <2>1, <2>2, <2>3 DEF JoinedOK
<1>11. BoundFrames(g, "loop") = n - 2
  BY <1>1, <1>2 DEF BoundFrames
<1>12. Len(g) <= Len(conds)
  BY <1>1, <1>2, <1>3, LenConds
<1> QED
  BY <1>2, <1>5, <1>10, <1>11, <1>12 DEF Control, Frame, g, j2

\* The first scan, of the table that is compared with a constant.
LEMMA BeginControl ==
  ASSUME PlanView, NEW l \in Seq(Nat), IsInjective(l),
         ToSet(l) \subseteq DOMAIN content[Cond(1).lhs].slots
  PROVE  Control(<<[rel |-> Cond(1).lhs, left |-> l]>>, [r \in Relations |-> Null], "loop")
<1> DEFINE x == [rel |-> Cond(1).lhs, left |-> l]
           g == <<x>>
           j == [r \in Relations |-> Null]
<1>1. /\ Cond(1).lhs \in Relations /\ Cond(1).lhs # Null /\ Cond(1).rhs = Null
      /\ Len(conds) \in Nat /\ Len(conds) >= 1
  BY DEF PlanView
<1>2. x \in Frame /\ x.rel = Cond(1).lhs /\ x.left = l
  BY <1>1 DEF Frame
<1> HIDE DEF x
<1>3. g \in Seq(Frame) /\ Len(g) = 1 /\ g[1] = x /\ g # <<>>
  BY <1>2
<1> HIDE DEF g
<1>4. Scanned(g, 0) = {} /\ Scanned(g, 1) = {x.rel}
  BY <1>1, <1>2, <1>3 DEF Scanned
<1>5. FrameOK(g, 1)
  <2>1. Scanned(g, 1 - 1) = {}
    BY <1>4
  <2> QED
    BY <1>1, <1>2, <1>3, <2>1 DEF FrameOK, TablesOf
<1>6. \A i \in 1 .. Len(g) : FrameOK(g, i)
  BY <1>3, <1>5
<1>7. JoinedOK(g, j, 0)
  BY <1>4 DEF JoinedOK
<1>8. BoundFrames(g, "loop") = 0
  BY <1>3 DEF BoundFrames
<1> HIDE DEF j
<1> QED
  BY <1>1, <1>3, <1>6, <1>7, <1>8 DEF Control, Frame, g, x, j

-----------------------------------------------------------------------------
(* What is printed, step by step.                                           *)

\* To agree with the records of all frames is to agree with those of some.
LEMMA AgreesLess ==
  ASSUME NEW f, NEW fr, NEW j, NEW m \in Int, NEW n \in Int, m <= n, Agrees(f, fr, j, n)
  PROVE  Agrees(f, fr, j, m)
<1>1. \A i \in 1 .. m : i \in 1 .. n
  OBVIOUS
<1> QED
  BY <1>1 DEF Agrees

\* One frame more to agree with.
LEMMA AgreesNext ==
  ASSUME NEW f, NEW fr, NEW j, NEW n \in Nat, n # 0
  PROVE  Agrees(f, fr, j, n) <=> /\ Agrees(f, fr, j, n - 1)
                                 /\ fr[n].rel # Null => f[fr[n].rel] = j[fr[n].rel]
<1>1. /\ n \in 1 .. n
      /\ \A i \in 1 .. n : i = n \/ i \in 1 .. n - 1
      /\ \A i \in 1 .. n - 1 : i \in 1 .. n
  OBVIOUS
<1> QED
  BY <1>1 DEF Agrees

\* A scan that leaves the records with which the condition holds.
LEMMA ScanAnswers ==
  ASSUME PlanView, NEW fr, NEW j, NEW pr,
         Control(fr, j, "call"), Answers(fr, j, "call", pr), Len(fr) < Len(conds),
         NEW r \in Relations, NEW l \in Seq(Nat),
         \A f \in Combinations : Agrees(f, fr, j, Len(fr))
                           => (f[r] \in ToSet(l) <=> Admits(Len(fr) + 1, f))
  PROVE  Answers(Append(fr, [rel |-> r, left |-> l]), j, "loop", pr)
<1> DEFINE x == [rel |-> r, left |-> l]
           g == Append(fr, x)
           n == Len(fr) + 1
<1>1. x \in Frame /\ x.rel = r /\ x.left = l /\ r # Null
  BY JoinsAssumption DEF Frame
<1> HIDE DEF x
<1>2. fr \in Seq(Frame)
  BY ControlIs
<1>3. /\ Len(g) = n /\ Len(fr) \in Nat /\ g[n] = x
      /\ \A k \in Int : k <= Len(fr) => \A f : Agrees(f, g, j, k) <=> Agrees(f, fr, j, k)
      /\ \A i \in 1 .. Len(fr) : \A f : OnFrame(f, g, j, i) <=> OnFrame(f, fr, j, i)
  BY <1>1, <1>2, AppendIs
<1> HIDE DEF g
<1>4. /\ n \in Nat /\ n # 0 /\ n - 1 = Len(fr) /\ n \in 1 .. Len(conds) /\ n \in 1 .. n
      /\ \A i \in 1 .. n : i = n \/ i \in 1 .. Len(fr)
      /\ \A i \in 1 .. Len(fr) : i \in 1 .. n /\ i \in Int /\ i <= Len(fr)
  BY <1>3, LenConds
<1>5. \A f : OnFrame(f, g, j, n) <=> Agrees(f, fr, j, Len(fr)) /\ f[r] \in ToSet(l)
  BY <1>1, <1>3, <1>4 DEF OnFrame
<1>6. \A f \in Admitted : f \in Combinations /\ Admits(n, f)
  BY <1>4 DEF Admitted
<1>7. BoundFrames(g, "loop") = Len(fr) /\ BoundFrames(fr, "call") = Len(fr)
  BY <1>3, <1>4 DEF BoundFrames
<1>8. \A i \in 1 .. Len(fr), f \in Combinations : Agrees(f, g, j, i) => Admits(i, f)
  BY <1>3, <1>4, <1>7 DEF Answers
<1>9. \A i \in 1 .. n, f \in Combinations : OnFrame(f, g, j, i) => Admits(i, f)
  BY <1>3, <1>4, <1>5 DEF Answers
<1>10. \A f \in Admitted : Pending(f, g, j, "loop") <=> Pending(f, fr, j, "call")
  BY <1>3, <1>4, <1>5, <1>6 DEF Pending
<1> QED
  BY <1>3, <1>7, <1>8, <1>9, <1>10 DEF Answers, g, x

\* A comparison of two tables that are joined, of records of which the condition holds, ...
LEMMA CompareAnswers ==
  ASSUME PlanView, NEW fr, NEW j, NEW pr,
         Control(fr, j, "call"), Answers(fr, j, "call", pr), Len(fr) < Len(conds),
         \A f \in Combinations : Agrees(f, fr, j, Len(fr)) => Admits(Len(fr) + 1, f)
  PROVE  Answers(Append(fr, [rel |-> Null, left |-> <<>>]), j, "call", pr)
<1> DEFINE x == [rel |-> Null, left |-> <<>>]
           g == Append(fr, x)
           n == Len(fr) + 1
<1>1. x \in Frame /\ x.rel = Null
  BY DEF Frame
<1> HIDE DEF x
<1>2. fr \in Seq(Frame)
  BY ControlIs
<1>3. /\ Len(g) = n /\ Len(fr) \in Nat /\ g[n] = x
      /\ \A k \in Int : k <= Len(fr) => \A f : Agrees(f, g, j, k) <=> Agrees(f, fr, j, k)
      /\ \A i \in 1 .. Len(fr) : \A f : OnFrame(f, g, j, i) <=> OnFrame(f, fr, j, i)
  BY <1>1, <1>2, AppendIs
<1> HIDE DEF g
<1>4. /\ n \in Nat /\ n # 0 /\ n - 1 = Len(fr) /\ n \in 1 .. n
      /\ \A i \in 1 .. n : i = n \/ i \in 1 .. Len(fr)
      /\ \A i \in 1 .. Len(fr) : i \in 1 .. n /\ i \in Int /\ i <= Len(fr)
  BY <1>3
<1>5. /\ \A f : ~OnFrame(f, g, j, n)
      /\ \A f : Agrees(f, g, j, n) <=> Agrees(f, fr, j, Len(fr))
  BY <1>1, <1>3, <1>4, AgreesNext DEF OnFrame
<1>6. BoundFrames(g, "call") = n /\ BoundFrames(fr, "call") = Len(fr)
  BY <1>3, <1>4 DEF BoundFrames
<1>7. \A i \in 1 .. n, f \in Combinations : Agrees(f, g, j, i) => Admits(i, f)
  BY <1>3, <1>4, <1>5, <1>6 DEF Answers
<1>8. \A i \in 1 .. n, f \in Combinations : OnFrame(f, g, j, i) => Admits(i, f)
  BY <1>3, <1>4, <1>5 DEF Answers
<1>9. \A f : Pending(f, g, j, "call") <=> Pending(f, fr, j, "call")
  BY <1>3, <1>4, <1>5 DEF Pending
<1> QED
  BY <1>3, <1>6, <1>7, <1>8, <1>9 DEF Answers, g, x

\* ... or does not.
LEMMA DiffersAnswers ==
  ASSUME PlanView, NEW fr, NEW j, NEW pr,
         Control(fr, j, "call"), Answers(fr, j, "call", pr), Len(fr) < Len(conds),
         \A f \in Combinations : Agrees(f, fr, j, Len(fr)) => ~Admits(Len(fr) + 1, f)
  PROVE  Answers(fr, j, "loop", pr)
<1>1. Len(fr) \in Nat
  BY ControlIs
<1>2. Len(fr) + 1 \in 1 .. Len(conds) /\ \A i \in 1 .. Len(fr) - 1 : i \in 1 .. Len(fr)
  BY <1>1, LenConds
<1>3. \A f \in Admitted : f \in Combinations /\ Admits(Len(fr) + 1, f)
  BY <1>2 DEF Admitted
<1>4. \A f \in Admitted : Pending(f, fr, j, "loop") <=> Pending(f, fr, j, "call")
  BY <1>3 DEF Pending
<1>5. BoundFrames(fr, "loop") = Len(fr) - 1 /\ BoundFrames(fr, "call") = Len(fr)
  BY DEF BoundFrames
<1> QED
  BY <1>2, <1>4, <1>5 DEF Answers

\* The next record of the innermost scan.
LEMMA NextAnswers ==
  ASSUME PlanView, NEW fr, NEW j, NEW pr, Control(fr, j, "loop"), Answers(fr, j, "loop", pr),
         fr # <<>>, Last(fr).left # <<>>
  PROVE  Answers(Append(Front(fr), [Last(fr) EXCEPT !.left = Tail(@)]),
                 [j EXCEPT ![Last(fr).rel] = Head(Last(fr).left)], "call", pr)
<1> DEFINE n  == Len(fr)
           r  == Last(fr).rel
           l  == Last(fr).left
           g  == Append(Front(fr), [Last(fr) EXCEPT !.left = Tail(@)])
           j2 == [j EXCEPT ![r] = Head(l)]
<1>1. /\ n \in Nat /\ n # 0 /\ l \in Seq(Nat) /\ IsInjective(l) /\ r # Null
      /\ fr[n].rel = r /\ fr[n].left = l
  BY LastIs
<1>2. /\ Len(g) = n /\ g[n].rel = r /\ g[n].left = Tail(l) /\ j2[r] = Head(l)
      /\ \A k \in Int : k <= n - 1 => \A f : Agrees(f, g, j2, k) <=> Agrees(f, fr, j, k)
      /\ \A i \in 1 .. n - 1 : \A f : OnFrame(f, g, j2, i) <=> OnFrame(f, fr, j, i)
  BY NextIs
<1>3. ToSet(l) = {Head(l)} \cup ToSet(Tail(l))
  BY <1>1, TailIs
<1> HIDE DEF g, j2, l, r
<1>4. /\ n - 1 \in Int /\ n - 1 <= n - 1 /\ n \in 1 .. n
      /\ \A i \in 1 .. n : i = n \/ i \in 1 .. n - 1
      /\ \A i \in 1 .. n - 1 : i \in 1 .. n /\ i \in Int /\ i <= n - 1
  BY <1>1
<1>5. \A f : /\ Agrees(f, g, j2, n) <=> Agrees(f, fr, j, n - 1) /\ f[r] = Head(l)
             /\ OnFrame(f, g, j2, n) <=> Agrees(f, fr, j, n - 1) /\ f[r] \in ToSet(Tail(l))
             /\ OnFrame(f, fr, j, n) <=> Agrees(f, fr, j, n - 1) /\ f[r] \in ToSet(l)
  <2>1. \A f : Agrees(f, g, j2, n) <=> Agrees(f, g, j2, n - 1) /\ f[r] = Head(l)
    BY <1>1, <1>2, AgreesNext
  <2>2. \A f : Agrees(f, g, j2, n - 1) <=> Agrees(f, fr, j, n - 1)
    BY <1>2, <1>4
  <2> QED
    BY <1>1, <1>2, <2>1, <2>2 DEF OnFrame
<1>6. \A f : OnFrame(f, fr, j, n) <=> Agrees(f, g, j2, n) \/ OnFrame(f, g, j2, n)
  BY <1>3, <1>5
<1>7. BoundFrames(g, "call") = n /\ BoundFrames(fr, "loop") = n - 1
  BY <1>2 DEF BoundFrames
<1>8. \A i \in 1 .. n, f \in Combinations : Agrees(f, g, j2, i) => Admits(i, f)
  BY <1>2, <1>4, <1>6, <1>7 DEF Answers
<1>9. \A i \in 1 .. n, f \in Combinations : OnFrame(f, g, j2, i) => Admits(i, f)
  BY <1>2, <1>4, <1>6 DEF Answers
<1>10. \A f : Pending(f, g, j2, "call") <=> Pending(f, fr, j, "loop")
  BY <1>2, <1>4, <1>6 DEF Pending
<1> QED
  BY <1>2, <1>7, <1>8, <1>9, <1>10 DEF Answers, g, j2, l, r

\* The innermost scan is exhausted.
LEMMA ReturnAnswers ==
  ASSUME PlanView, NEW fr, NEW j, NEW pr, Control(fr, j, "loop"), Answers(fr, j, "loop", pr),
         fr # <<>>, Last(fr).left = <<>>
  PROVE  Answers(Front(fr), IF Last(fr).rel = Null THEN j ELSE [j EXCEPT ![Last(fr).rel] = Null],
                 "loop", pr)
<1> DEFINE n  == Len(fr)
           r  == Last(fr).rel
           g  == Front(fr)
           j2 == IF r = Null THEN j ELSE [j EXCEPT ![r] = Null]
<1>1. n \in Nat /\ n # 0 /\ fr[n].left = <<>>
  BY LastIs
<1>2. /\ Len(g) = n - 1
      /\ \A k \in Int : k <= n - 1 => \A f : Agrees(f, g, j2, k) <=> Agrees(f, fr, j, k)
      /\ \A i \in 1 .. n - 1 : \A f : OnFrame(f, g, j2, i) <=> OnFrame(f, fr, j, i)
  BY ReturnIs
<1> HIDE DEF g, j2
<1>3. /\ n \in 1 .. n
      /\ \A i \in 1 .. n : i = n \/ i \in 1 .. n - 1
      /\ \A i \in 1 .. n - 1 : i \in 1 .. n /\ i \in Int /\ i <= n - 1
      /\ \A i \in 1 .. n - 2 : i \in 1 .. n - 1
  BY <1>1
<1>4. \A f : ~OnFrame(f, fr, j, n)
  BY <1>1 DEF OnFrame, ToSet
<1>5. BoundFrames(g, "loop") = n - 2 /\ BoundFrames(fr, "loop") = n - 1
  BY <1>1, <1>2 DEF BoundFrames
<1>6. \A i \in 1 .. n - 2, f \in Combinations : Agrees(f, g, j2, i) => Admits(i, f)
  BY <1>2, <1>3, <1>5 DEF Answers
<1>7. \A i \in 1 .. n - 1, f \in Combinations : OnFrame(f, g, j2, i) => Admits(i, f)
  BY <1>2, <1>3 DEF Answers
<1>8. \A f : Pending(f, g, j2, "loop") <=> Pending(f, fr, j, "loop")
  BY <1>2, <1>3, <1>4 DEF Pending
<1> QED
  BY <1>2, <1>5, <1>6, <1>7, <1>8 DEF Answers, g, j2

\* The end of the query.
LEMMA DoneAnswers ==
  ASSUME NEW fr, NEW j, NEW pr, Answers(fr, j, "loop", pr)
  PROVE  Answers(fr, j, "done", pr)
BY DEF Answers, BoundFrames, Pending

\* The first scan leaves the records of which the first condition holds.
LEMMA BeginAnswers ==
  ASSUME PlanView, NEW l \in Seq(Nat), NEW j,
         \A f \in Combinations : f[Cond(1).lhs] \in ToSet(l) <=> Admits(1, f)
  PROVE  Answers(<<[rel |-> Cond(1).lhs, left |-> l]>>, j, "loop", <<>>)
<1> DEFINE x == [rel |-> Cond(1).lhs, left |-> l]
           g == <<x>>
<1>1. x.rel = Cond(1).lhs /\ x.left = l /\ x.rel # Null /\ 1 \in 1 .. Len(conds)
  BY DEF PlanView
<1> HIDE DEF x
<1>2. Len(g) = 1 /\ g[1] = x
  OBVIOUS
<1> HIDE DEF g
<1>3. \A f : Agrees(f, g, j, 0)
  BY DEF Agrees
<1>4. \A f : OnFrame(f, g, j, 1) <=> f[Cond(1).lhs] \in ToSet(l)
  <2>1. 1 - 1 = 0
    OBVIOUS
  <2> QED
    BY <1>1, <1>2, <1>3, <2>1 DEF OnFrame
<1>5. BoundFrames(g, "loop") = 0 /\ 1 .. Len(g) = {1}
  BY <1>2 DEF BoundFrames
<1>6. \A f \in Admitted : f \in Combinations /\ Admits(1, f)
  BY <1>1 DEF Admitted
<1>7. \A f \in Admitted : Pending(f, g, j, "loop")
  BY <1>4, <1>5, <1>6 DEF Pending
<1>8. <<>> \in Seq(Admitted) /\ IsInjective(<<>>) /\ ToSet(<<>>) = {}
  BY DEF IsInjective, ToSet
<1> QED
  BY <1>4, <1>5, <1>7, <1>8 DEF Answers, g, x
\* The tables of a condition are tables of the query; only the first has a constant.
LEMMA PlanTables ==
  ASSUME PlanView
  PROVE  /\ \A n \in 1 .. Len(conds) : TablesOf(n) \ {Null} \subseteq ToSet(from)
         /\ \A n \in 2 .. Len(conds) : Cond(n).rhs # Null /\ TablesOf(n) \subseteq ToSet(from)
<1>1. \A n \in 2 .. Len(conds) : Cond(n).rhs # Null /\ TablesOf(n) \subseteq ToSet(from)
  <2>1. \A n \in 2 .. Len(conds) : n \in 1 .. Len(conds)
    BY LenConds
  <2> QED
    BY <2>1 DEF PlanView, TablesOf
<1>2. TablesOf(1) \ {Null} \subseteq ToSet(from)
  <2>1. 1 \in 1 .. Len(conds)
    BY LenConds
  <2> QED
    BY <2>1 DEF PlanView, TablesOf
<1>3. \A n \in 1 .. Len(conds) : n = 1 \/ n \in 2 .. Len(conds)
  BY LenConds
<1> QED
  BY <1>1, <1>2, <1>3

\* A frame scans a table of the query.
LEMMA FrameRels ==
  ASSUME PlanView, NEW fr, NEW j, NEW p, Control(fr, j, p), NEW i \in 1 .. Len(fr), fr[i].rel # Null
  PROVE  fr[i].rel \in ToSet(from)
<1>1. Len(fr) \in Nat /\ Len(fr) <= Len(conds) /\ FrameOK(fr, i)
  BY ControlIs
<1>2. i \in 1 .. Len(conds)
  BY <1>1, LenConds
<1> QED
  BY <1>1, <1>2, PlanTables DEF FrameOK

\* The record that a row has of a table that is scanned.
LEMMA AgreedRecord ==
  ASSUME NEW fr, NEW j, NEW f, NEW n, Agrees(f, fr, j, n), NEW r \in Scanned(fr, n)
  PROVE  f[r] = j[r]
BY DEF Agrees, Scanned

\* When all conditions are taken the records joined are the one row that agrees with them.
LEMMA JoinedRow ==
  ASSUME PlanView, NEW fr, NEW j, Control(fr, j, "call"), Len(fr) = Len(conds)
  PROVE  LET f0 == [r \in ToSet(from) |-> j[r]] IN
         /\ \A r \in ToSet(from) : j[r] # Null
         /\ f0 \in Combinations /\ Agrees(f0, fr, j, Len(fr))
         /\ \A f \in Combinations : Agrees(f, fr, j, Len(fr)) => f = f0
         /\ \A i \in 1 .. Len(fr) : ~OnFrame(f0, fr, j, i)
<1> DEFINE f0 == [r \in ToSet(from) |-> j[r]]
<1>1. /\ Len(fr) \in Nat /\ \A i \in 1 .. Len(fr) : FrameOK(fr, i)
      /\ JoinedOK(fr, j, Len(fr))
  BY ControlIs DEF BoundFrames
<1>2. \A r \in ToSet(from) : r \in Scanned(fr, Len(fr))
  <2> SUFFICES ASSUME NEW r \in ToSet(from) PROVE r \in Scanned(fr, Len(fr))
    OBVIOUS
  <2>1. r # Null
    BY DEF PlanView
  <2>2. PICK n \in 1 .. Len(conds) : r \in TablesOf(n)
    BY DEF PlanView
  <2>3. n \in Nat /\ n # 0 /\ FrameOK(fr, n) /\ n <= Len(fr)
    BY <1>1
  <2>4. r \in Scanned(fr, n)
    BY <2>1, <2>2, <2>3, FrameTables
  <2> QED
    BY <1>1, <2>3, <2>4, ScannedGrows
<1>3. ToSet(from) \subseteq Relations
  BY DEF PlanView
<1>4. \A r \in ToSet(from) : j[r] # Null /\ j[r] \in DOMAIN content[r].slots
  BY <1>2, <1>3, JoinedIffScanned
<1>5. f0 \in Combinations
  BY <1>4 DEF Combinations
<1>6. \A i \in 1 .. Len(fr) : fr[i].rel # Null => f0[fr[i].rel] = j[fr[i].rel]
  BY FrameRels
<1>7. \A f \in Combinations : Agrees(f, fr, j, Len(fr)) => f = f0
  <2> SUFFICES ASSUME NEW f \in Combinations, Agrees(f, fr, j, Len(fr)) PROVE f = f0
    OBVIOUS
  <2>1. \A r \in ToSet(from) : f[r] = j[r]
    BY <1>2, AgreedRecord
  <2>2. f = [r \in ToSet(from) |-> f[r]]
    BY DEF Combinations
  <2> QED
    BY <2>1, <2>2
<1>8. \A i \in 1 .. Len(fr) : ~OnFrame(f0, fr, j, i)
  BY <1>1, <1>6 DEF OnFrame, JoinedOK
<1>9. Agrees(f0, fr, j, Len(fr))
  BY <1>6 DEF Agrees
<1> QED
  BY <1>4, <1>5, <1>7, <1>8, <1>9

\* It is printed for the first time, and no frame comes to it again.
LEMMA PrintAnswers ==
  ASSUME PlanView, NEW fr, NEW j, NEW pr,
         Control(fr, j, "call"), Answers(fr, j, "call", pr), Len(fr) = Len(conds)
  PROVE  Answers(fr, j, "loop", Append(pr, [r \in ToSet(from) |-> j[r]]))
<1> DEFINE f0 == [r \in ToSet(from) |-> j[r]]
           pr2 == Append(pr, f0)
<1>1. /\ f0 \in Combinations /\ Agrees(f0, fr, j, Len(fr))
      /\ \A f \in Combinations : Agrees(f, fr, j, Len(fr)) => f = f0
      /\ \A i \in 1 .. Len(fr) : ~OnFrame(f0, fr, j, i)
  BY JoinedRow
<1> HIDE DEF f0
<1>2. Len(fr) \in Nat /\ \A i \in 1 .. Len(fr) - 1 : i \in 1 .. Len(fr)
  <2>1. Len(fr) \in Nat
    BY ControlIs
  <2> QED
    BY <2>1
<1>3. BoundFrames(fr, "loop") = Len(fr) - 1 /\ BoundFrames(fr, "call") = Len(fr)
  BY DEF BoundFrames
<1>4. f0 \in Admitted
  <2>1. \A n \in 1 .. Len(conds) : n \in Int /\ n <= Len(fr)
    BY LenConds
  <2>2. \A n \in 1 .. Len(conds) : Agrees(f0, fr, j, n)
    BY <1>1, <1>2, <2>1, AgreesLess
  <2>3. \A n \in 1 .. Len(conds) : Admits(n, f0)
    BY <1>1, <1>3, <2>2 DEF Answers
  <2> QED
    BY <1>1, <2>3 DEF Admitted
<1>5. pr \in Seq(Admitted) /\ IsInjective(pr) /\ f0 \notin ToSet(pr)
  BY <1>1, <1>4 DEF Answers, Pending
<1>6. pr2 \in Seq(Admitted) /\ IsInjective(pr2) /\ ToSet(pr2) = ToSet(pr) \cup {f0}
  BY <1>4, <1>5, AppendOnce
<1> HIDE DEF pr2
<1>7. \A f \in Admitted : f \in Combinations
  BY DEF Admitted
<1>8. \A f \in Admitted : f \in ToSet(pr2) <=> ~Pending(f, fr, j, "loop")
  <2> SUFFICES ASSUME NEW f \in Admitted PROVE f \in ToSet(pr2) <=> ~Pending(f, fr, j, "loop")
    OBVIOUS
  <2>1. CASE f = f0
    BY <1>1, <1>6, <2>1 DEF Pending
  <2>2. CASE f # f0
    <3>1. ~Agrees(f, fr, j, Len(fr))
      BY <1>1, <1>7, <2>2
    <3>2. Pending(f, fr, j, "loop") <=> Pending(f, fr, j, "call")
      BY <3>1 DEF Pending
    <3> QED
      BY <1>6, <2>2, <3>2 DEF Answers
  <2> QED
    BY <2>1, <2>2
<1> QED
  BY <1>2, <1>3, <1>6, <1>8 DEF Answers, pr2, f0

-----------------------------------------------------------------------------
(* The calls of recursiveJoin.                                              *)

\* What a call for a condition meets: no constant, and one of the tables joined.
LEMMA CallMeets ==
  ASSUME PlanView, NEW fr, NEW j, Control(fr, j, "call"), Len(fr) < Len(conds)
  PROVE  LET n == Len(fr) + 1 l == Cond(n).lhs r == Cond(n).rhs IN
         /\ n \in 2 .. Len(conds) /\ n - 1 = Len(fr)
         /\ l \in ToSet(from) /\ r \in ToSet(from) /\ r # Null
         /\ l \in Relations /\ r \in Relations
         /\ j[l] # Null <=> l \in Scanned(fr, Len(fr))
         /\ j[r] # Null <=> r \in Scanned(fr, Len(fr))
         /\ j[l] # Null \/ j[r] # Null
<1> DEFINE n == Len(fr) + 1
           l == Cond(n).lhs
           r == Cond(n).rhs
<1>1. Len(fr) \in Nat /\ Len(fr) # 0 /\ \A i \in 1 .. Len(fr) : FrameOK(fr, i)
  BY ControlIs DEF Control
<1>2. n \in 2 .. Len(conds) /\ n - 1 = Len(fr) /\ Len(fr) \in 1 .. Len(fr)
  BY <1>1, LenConds
<1>3. r # Null /\ TablesOf(n) \subseteq ToSet(from) /\ ToSet(from) \subseteq Relations
  BY <1>2, PlanTables DEF PlanView
<1>4. TablesOf(n) = {l, r}
  BY DEF TablesOf
<1>5. l \in Relations /\ r \in Relations /\ l \in ToSet(from) /\ r \in ToSet(from)
  BY <1>3, <1>4
<1>6. /\ j[l] # Null <=> l \in Scanned(fr, Len(fr))
      /\ j[r] # Null <=> r \in Scanned(fr, Len(fr))
  BY <1>5, JoinedIffScanned
<1>7. PICK t \in TablesOf(n) : t \in TablesOf(n - 1)
  BY <1>2 DEF PlanView
<1>8. t # Null
  BY <1>3, JoinsAssumption
<1>9. t \in Scanned(fr, Len(fr))
  <2>1. FrameOK(fr, Len(fr))
    BY <1>1, <1>2
  <2> QED
    BY <1>1, <1>2, <1>7, <1>8, <2>1, FrameTables
<1> QED
  BY <1>2, <1>3, <1>4, <1>5, <1>6, <1>7, <1>9
\* The tables the frames scan are those of the conditions taken.
LEMMA ScannedBefore ==
  ASSUME PlanView, NEW fr, NEW j, Control(fr, j, "call"), Len(fr) < Len(conds),
         NEW r, r # Null
  PROVE  r \in JoinedBefore(Len(fr) + 1) <=> r \in Scanned(fr, Len(fr))
<1>1. Len(fr) \in Nat /\ \A i \in 1 .. Len(fr) : FrameOK(fr, i)
  BY ControlIs
<1>2. r \in JoinedBefore(Len(fr) + 1) <=> \E i \in 1 .. Len(fr) : r \in TablesOf(i)
  <2>1. Len(fr) + 1 - 1 = Len(fr)
    BY <1>1
  <2> QED
    BY <2>1 DEF JoinedBefore, TablesOf, Cond
<1>3. ASSUME NEW i \in 1 .. Len(fr), r \in TablesOf(i) PROVE r \in Scanned(fr, Len(fr))
  <2>1. i \in Nat /\ i # 0 /\ i <= Len(fr) /\ FrameOK(fr, i)
    BY <1>1
  <2>2. r \in Scanned(fr, i)
    BY <1>3, <2>1, FrameTables
  <2> QED
    BY <1>1, <2>1, <2>2, ScannedGrows
<1>4. ASSUME r \in Scanned(fr, Len(fr)) PROVE \E i \in 1 .. Len(fr) : r \in TablesOf(i)
  <2>1. PICK i \in 1 .. Len(fr) : r = fr[i].rel
    BY <1>4 DEF Scanned
  <2> QED
    BY <1>1, <2>1 DEF FrameOK
<1> QED
  BY <1>2, <1>3, <1>4

\* A condition after the first, by the tables joined when it is taken.
LEMMA AdmitsIs ==
  ASSUME NEW n \in Nat, n > 1, NEW f
  PROVE  LET l == Cond(n).lhs r == Cond(n).rhs o == Cond(n).op IN
         /\ l \in JoinedBefore(n) /\ r \in JoinedBefore(n) =>
              (Admits(n, f) <=> Holds(o, Column(l, f), Column(r, f)))
         /\ l \notin JoinedBefore(n) =>
              (Admits(n, f) <=> Reached(l, o, Column(r, f), f[l]))
         /\ l \in JoinedBefore(n) /\ r \notin JoinedBefore(n) =>
              (Admits(n, f) <=> Reached(r, o, Column(l, f), f[r]))
<1>1. n # 1
  OBVIOUS
<1> QED
  BY <1>1, Zenon DEF Admits, Cond

\* The table on the left is scanned for the records that the condition admits.
LEMMA ScanLhsGood ==
  ASSUME PlanView, NEW fr, NEW j, NEW pr, JoinGood(fr, j, "call", pr), Len(fr) < Len(conds),
         NEW n, n = Len(fr) + 1, j[Cond(n).lhs] = Null, j[Cond(n).rhs] # Null
  PROVE  JoinGood(Append(fr, [rel  |-> Cond(n).lhs,
                              left |-> Left(Cond(n).lhs, Cond(n).op,
                                            content[Cond(n).rhs].slots[j[Cond(n).rhs]].col)]),
                  j, "loop", pr)
<1> DEFINE l == Cond(n).lhs
           r == Cond(n).rhs
           o == Cond(n).op
           x == content[r].slots[j[r]].col
           s == Left(l, o, x)
<1>0. Control(fr, j, "call") /\ Answers(fr, j, "call", pr)
  BY DEF JoinGood
<1>1. /\ n \in 2 .. Len(conds) /\ l \in ToSet(from) /\ r \in ToSet(from) /\ r # Null
      /\ l \in Relations /\ r \in Relations
      /\ l \notin Scanned(fr, Len(fr)) /\ r \in Scanned(fr, Len(fr))
  BY <1>0, CallMeets
<1>2. TablesOf(n) = {l, r}
  BY DEF TablesOf
<1>3. /\ s \in Seq(Nat) /\ IsInjective(s)
      /\ ToSet(s) = {i \in DOMAIN content[l].slots : Reached(l, o, x, i)}
  BY <1>1, LeftIs
<1> HIDE DEF s
<1>4. ToSet(s) \subseteq DOMAIN content[l].slots
  BY <1>3
<1>5. Control(Append(fr, [rel |-> l, left |-> s]), j, "loop")
  BY <1>0, <1>1, <1>2, <1>3, <1>4, ScanControl
<1>6. l \notin JoinedBefore(n) /\ n \in Nat /\ n > 1
  <2>1. l # Null
    BY <1>1, JoinsAssumption
  <2> QED
    BY <1>0, <1>1, <2>1, ScannedBefore
<1>7. ASSUME NEW f \in Combinations, Agrees(f, fr, j, Len(fr))
      PROVE  f[l] \in ToSet(s) <=> Admits(Len(fr) + 1, f)
  <2>1. f[r] = j[r]
    BY <1>1, <1>7, AgreedRecord
  <2>2. f[l] \in DOMAIN content[l].slots
    BY <1>1 DEF Combinations
  <2>3. Column(r, f) = x
    BY <2>1 DEF Column
  <2>4. Admits(n, f) <=> Reached(l, o, x, f[l])
    BY <1>6, <2>3, AdmitsIs
  <2> HIDE DEF l, o, x
  <2> QED
    BY <1>3, <2>2, <2>4
<1>8. Answers(Append(fr, [rel |-> l, left |-> s]), j, "loop", pr)
  BY <1>0, <1>1, <1>3, <1>7, ScanAnswers
<1> QED
  BY <1>5, <1>8 DEF JoinGood, s

\* The table on the right is scanned.
LEMMA ScanRhsGood ==
  ASSUME PlanView, NEW fr, NEW j, NEW pr, JoinGood(fr, j, "call", pr), Len(fr) < Len(conds),
         NEW n, n = Len(fr) + 1, j[Cond(n).lhs] # Null, j[Cond(n).rhs] = Null
  PROVE  JoinGood(Append(fr, [rel  |-> Cond(n).rhs,
                              left |-> Left(Cond(n).rhs, Cond(n).op,
                                            content[Cond(n).lhs].slots[j[Cond(n).lhs]].col)]),
                  j, "loop", pr)
<1> DEFINE l == Cond(n).lhs
           r == Cond(n).rhs
           o == Cond(n).op
           x == content[l].slots[j[l]].col
           s == Left(r, o, x)
<1>0. Control(fr, j, "call") /\ Answers(fr, j, "call", pr)
  BY DEF JoinGood
<1>1. /\ n \in 2 .. Len(conds)
      /\ l \in ToSet(from) /\ r \in ToSet(from) /\ r # Null
      /\ l \in Relations /\ r \in Relations
      /\ r \notin Scanned(fr, Len(fr)) /\ l \in Scanned(fr, Len(fr))
  BY <1>0, CallMeets
<1>2. TablesOf(n) = {l, r}
  BY DEF TablesOf
<1>3. /\ s \in Seq(Nat) /\ IsInjective(s)
      /\ ToSet(s) = {i \in DOMAIN content[r].slots : Reached(r, o, x, i)}
  BY <1>1, LeftIs
<1> HIDE DEF s
<1>4. ToSet(s) \subseteq DOMAIN content[r].slots
  BY <1>3
<1>5. Control(Append(fr, [rel |-> r, left |-> s]), j, "loop")
  BY <1>0, <1>1, <1>2, <1>3, <1>4, ScanControl
<1>6. l \in JoinedBefore(n) /\ r \notin JoinedBefore(n) /\ n \in Nat /\ n > 1
  <2>1. l # Null
    BY <1>1, JoinsAssumption
  <2> QED
    BY <1>0, <1>1, <2>1, ScannedBefore
<1>7. ASSUME NEW f \in Combinations, Agrees(f, fr, j, Len(fr))
      PROVE  f[r] \in ToSet(s) <=> Admits(Len(fr) + 1, f)
  <2>1. f[l] = j[l]
    BY <1>1, <1>7, AgreedRecord
  <2>2. f[r] \in DOMAIN content[r].slots
    BY <1>1 DEF Combinations
  <2>3. Column(l, f) = x
    BY <2>1 DEF Column
  <2>4. Admits(n, f) <=> Reached(r, o, x, f[r])
    BY <1>6, <2>3, AdmitsIs
  <2> HIDE DEF r, o, x
  <2> QED
    BY <1>3, <2>2, <2>4
<1>8. Answers(Append(fr, [rel |-> r, left |-> s]), j, "loop", pr)
  BY <1>0, <1>1, <1>3, <1>7, ScanAnswers
<1> QED
  BY <1>5, <1>8 DEF JoinGood, s

\* Both tables are joined: their records are compared.
LEMMA CompareGood ==
  ASSUME PlanView, NEW fr, NEW j, NEW pr, JoinGood(fr, j, "call", pr), Len(fr) < Len(conds),
         NEW n, n = Len(fr) + 1, j[Cond(n).lhs] # Null, j[Cond(n).rhs] # Null
  PROVE  IF Holds(Cond(n).op, content[Cond(n).lhs].slots[j[Cond(n).lhs]].col,
                  content[Cond(n).rhs].slots[j[Cond(n).rhs]].col)
           THEN JoinGood(Append(fr, [rel |-> Null, left |-> <<>>]), j, "call", pr)
           ELSE JoinGood(fr, j, "loop", pr)
<1> DEFINE l == Cond(n).lhs
           r == Cond(n).rhs
           o == Cond(n).op
           holds == Holds(o, content[l].slots[j[l]].col, content[r].slots[j[r]].col)
<1>0. Control(fr, j, "call") /\ Answers(fr, j, "call", pr)
  BY DEF JoinGood
<1>1. /\ n \in 2 .. Len(conds) /\ r # Null /\ l \in Relations
      /\ l \in Scanned(fr, Len(fr)) /\ r \in Scanned(fr, Len(fr))
  BY <1>0, CallMeets
<1>2. TablesOf(n) = {l, r}
  BY DEF TablesOf
<1>3. l \in JoinedBefore(n) /\ r \in JoinedBefore(n) /\ n \in Nat /\ n > 1
  <2>1. l # Null
    BY <1>1, JoinsAssumption
  <2> QED
    BY <1>0, <1>1, <2>1, ScannedBefore
<1>4. ASSUME NEW f \in Combinations, Agrees(f, fr, j, Len(fr)) PROVE Admits(Len(fr) + 1, f) <=> holds
  <2>1. f[l] = j[l] /\ f[r] = j[r]
    BY <1>1, <1>4, AgreedRecord
  <2>2. holds <=> Holds(o, Column(l, f), Column(r, f))
    BY <2>1 DEF Column
  <2> HIDE DEF holds
  <2> QED
    BY <1>3, <2>2, AdmitsIs
<1> HIDE DEF holds
<1>5. CASE holds
  <2>1. Control(Append(fr, [rel |-> Null, left |-> <<>>]), j, "call")
    BY <1>0, <1>1, <1>2, CompareControl
  <2>2. Answers(Append(fr, [rel |-> Null, left |-> <<>>]), j, "call", pr)
    BY <1>0, <1>4, <1>5, CompareAnswers
  <2> QED
    BY <1>5, <2>1, <2>2 DEF JoinGood, holds
<1>6. CASE ~holds
  <2>1. Control(fr, j, "loop")
    BY <1>0, LoopControl
  <2>2. Answers(fr, j, "loop", pr)
    BY <1>0, <1>4, <1>6, DiffersAnswers
  <2> QED
    BY <1>6, <2>1, <2>2 DEF JoinGood, holds
<1> QED
  BY <1>5, <1>6

-----------------------------------------------------------------------------
(* The invariant.                                                           *)

\* All this depends on the query only.
LEMMA QueryKept ==
  ASSUME UNCHANGED <<query, queryOrder>>
  PROVE  /\ QueryInv' <=> QueryInv
         /\ Complete' <=> Complete
         /\ \A fr, j, p, pr : JoinGood(fr, j, p, pr)' <=> JoinGood(fr, j, p, pr)
<1>1. from' = from /\ conds' = conds /\ content' = content /\ queryOrder' = queryOrder
  BY DEF query
<1>2. (QueryInv' <=> QueryInv) /\ (Complete' <=> Complete)
  BY <1>1 DEF QueryInv, CondsOf, Plans, Complete
<1>3. \A n : Cond(n)' = Cond(n) /\ TablesOf(n)' = TablesOf(n)
  <2> SUFFICES ASSUME NEW n PROVE Cond(n)' = Cond(n) /\ TablesOf(n)' = TablesOf(n)
    OBVIOUS
  <2>1. Cond(n)' = Cond(n)
    BY <1>1 DEF Cond
  <2> QED
    BY <2>1 DEF TablesOf
<1>4. \A fr, i : FrameOK(fr, i)' <=> FrameOK(fr, i)
  <2> SUFFICES ASSUME NEW fr, NEW i PROVE FrameOK(fr, i)' <=> FrameOK(fr, i)
    OBVIOUS
  <2> QED
    BY <1>1, <1>3 DEF FrameOK
<1>5. \A fr, j, m : JoinedOK(fr, j, m)' <=> JoinedOK(fr, j, m)
  <2> SUFFICES ASSUME NEW fr, NEW j, NEW m PROVE JoinedOK(fr, j, m)' <=> JoinedOK(fr, j, m)
    OBVIOUS
  <2> QED
    BY <1>1 DEF JoinedOK
<1>6. \A fr, j, p : Control(fr, j, p)' <=> Control(fr, j, p)
  <2> SUFFICES ASSUME NEW fr, NEW j, NEW p PROVE Control(fr, j, p)' <=> Control(fr, j, p)
    OBVIOUS
  <2> QED
    BY <1>1, <1>4, <1>5 DEF Control
<1>7. Combinations' = Combinations
  BY <1>1 DEF Combinations
<1>8. \A n, f : Admits(n, f)' <=> Admits(n, f)
  <2> SUFFICES ASSUME NEW n, NEW f PROVE Admits(n, f)' <=> Admits(n, f)
    OBVIOUS
  <2> QED
    BY <1>1 DEF Admits, Live, Reached, Column, JoinedBefore
<1>9. Admitted' = Admitted
  BY <1>1, <1>7, <1>8 DEF Admitted
<1>10. \A fr, j, p, pr : Answers(fr, j, p, pr)' <=> Answers(fr, j, p, pr)
  <2> SUFFICES ASSUME NEW fr, NEW j, NEW p, NEW pr
               PROVE  Answers(fr, j, p, pr)' <=> Answers(fr, j, p, pr)
    OBVIOUS
  <2> QED
    BY <1>7, <1>8, <1>9 DEF Answers
<1>11. \A fr, j, p, pr : JoinGood(fr, j, p, pr)' <=> JoinGood(fr, j, p, pr)
  BY <1>6, <1>10 DEF JoinGood
<1> QED
  BY <1>2, <1>11

\* What a step of a query has to keep.
LEMMA StepInv ==
  ASSUME JoinInv, pc # "no query", UNCHANGED <<query, queryOrder>>,
         pc' \in {"call", "loop", "done", "undefined"},
         NEW fr, NEW j, NEW p, NEW pr, fr = frames', j = joined', p = pc', pr = printed',
         PlanView /\ Len(queryOrder) = Len(conds) /\ JoinGood(frames, joined, pc, printed)
           => JoinGood(fr, j, p, pr)
  PROVE  JoinInv'
<1>1. QueryInv /\ (Complete => JoinGood(frames, joined, pc, printed))
  BY DEF JoinInv
<1>2. ASSUME Complete PROVE JoinGood(fr, j, p, pr)
  <2>1. PlanView /\ Len(queryOrder) = Len(conds)
    BY <1>1, <1>2, PlanViewOf DEF Complete
  <2> QED
    BY <1>1, <1>2, <2>1
<1>3. QueryInv' /\ (Complete' => JoinGood(fr, j, p, pr)')
  BY <1>1, <1>2, QueryKept
<1> QED
  BY <1>3 DEF JoinInv

\* A query that is begun.
Begun ==
  LET first == Cond(1)
      left  == Matches(content[first.lhs], IF first.rhs # Null THEN "NO" ELSE first.op, first.value)
  IN
  /\ joined = [r \in Relations |-> Null] /\ printed = <<>>
  /\ frames = IF Len(queryOrder) = Len(conds) THEN <<[rel |-> first.lhs, left |-> left]>> ELSE <<>>
  /\ pc = IF Len(queryOrder) < Len(conds) THEN "planning failed"
          ELSE IF first.rhs # Null /\ left # <<>> THEN "undefined"
          ELSE "loop"

\* It keeps to the invariant.
LEMMA BegunInv == QueryInv /\ Begun => JoinInv
<1> SUFFICES ASSUME QueryInv, Begun PROVE JoinInv
  OBVIOUS
<1>1. pc \in {"loop", "planning failed", "undefined"}
  BY DEF Begun
<1>2. ASSUME Complete PROVE JoinGood(frames, joined, pc, printed)
  <2>1. PlanView /\ Len(queryOrder) = Len(conds) /\ Len(conds) \in Nat
    BY <1>2, PlanViewOf DEF PlanView, Complete
  <2> DEFINE t == Cond(1).lhs
             s == Matches(content[t], Cond(1).op, Cond(1).value)
  <2>2. t \in ToSet(from) /\ t \in Relations /\ GoodTable(content[t]) /\ Cond(1).rhs = Null
    <3>1. 1 \in 1 .. Len(conds)
      BY <2>1, LenConds
    <3> QED
      BY <2>1, <3>1 DEF PlanView
  <2>3. /\ joined = [r \in Relations |-> Null] /\ printed = <<>>
        /\ frames = <<[rel |-> t, left |-> s]>> /\ pc = "loop"
    <3>1. ~(Len(queryOrder) < Len(conds))
      BY <2>1
    <3> QED
      BY <2>1, <2>2, <3>1 DEF Begun
  <2>4. /\ s \in Seq(Nat) /\ IsInjective(s)
        /\ ToSet(s) = {i \in DOMAIN content[t].slots :
                       Live(content[t], i, Cond(1).op, Cond(1).value)}
    BY <2>2, MatchesAre
  <2> HIDE DEF s
  <2>5. ToSet(s) \subseteq DOMAIN content[t].slots
    BY <2>4
  <2>6. Control(<<[rel |-> t, left |-> s]>>, [r \in Relations |-> Null], "loop")
    BY <2>1, <2>4, <2>5, BeginControl
  <2>7. \A f \in Combinations : f[t] \in ToSet(s) <=> Admits(1, f)
    BY <2>2, <2>4 DEF Combinations, Admits, Cond
  <2>8. Answers(<<[rel |-> t, left |-> s]>>, [r \in Relations |-> Null], "loop", <<>>)
    BY <2>1, <2>4, <2>7, BeginAnswers
  <2> QED
    BY <2>3, <2>6, <2>8 DEF JoinGood
<1> QED
  BY <1>1, <1>2 DEF JoinInv

\* The conditions of a query, with the one that is added when none can start.
LEMMA PlannedConds ==
  ASSUME NEW fs \in Froms, NEW n \in Nat, NEW cs \in [1 .. n -> Conds(fs)]
  PROVE  CondsOf(fs, Planned(fs, cs))
<1>1. fs \in Seq(Relations) /\ fs # <<>> /\ Null \notin Relations
  BY JoinsAssumption
<1>2. cs \in Seq(Conds(fs)) /\ Len(cs) = n
  OBVIOUS
<1>3. CASE \E i \in DOMAIN cs : cs[i].lhs # cs[i].rhs
  <2>1. cs \in Seq(Conds(fs) \cup {AnyRecord(fs)})
    OBVIOUS
  <2> QED
    BY <1>3, <2>1 DEF Planned, CondsOf
<1>4. CASE ~ \E i \in DOMAIN cs : cs[i].lhs # cs[i].rhs
  <2> DEFINE x == AnyRecord(fs)
             all == Append(cs, x)
  <2>1. x.lhs # x.rhs
    BY <1>1 DEF AnyRecord
  <2> HIDE DEF x
  <2>2. all \in Seq(Conds(fs) \cup {x})
    <3>1. cs \in Seq(Conds(fs) \cup {x})
      OBVIOUS
    <3> QED
      BY <3>1
  <2>3. n + 1 \in DOMAIN all /\ all[n + 1] = x
    BY <1>2
  <2> HIDE DEF all
  <2>4. \E i \in DOMAIN all : all[i].lhs # all[i].rhs
    BY <2>1, <2>3
  <2> QED
    BY <1>4, <2>2, <2>4 DEF Planned, CondsOf, all, x
<1> QED
  BY <1>3, <1>4

\* A query begins.
LEMMA BeginJoinInv ==
  ASSUME NEW fs \in Froms, NEW tables \in Contents, NEW n \in 0 .. MAX_CONDS,
         NEW cs \in [1 .. n -> Conds(fs)], BeginJoin(fs, cs, tables)
  PROVE  JoinInv'
<1>1. n \in Nat
  OBVIOUS
<1>2. CondsOf(fs, Planned(fs, cs))
  BY <1>1, PlannedConds
<1>3. Plans(Planned(fs, cs), OrderFrom(Planned(fs, cs)))
  BY <1>2, OrderIs
<1>4. /\ from' = fs /\ content' = tables /\ conds' = Planned(fs, cs)
      /\ queryOrder' = OrderFrom(Planned(fs, cs))
  BY DEF BeginJoin
<1>5. QueryInv'
  BY <1>2, <1>3, <1>4 DEF QueryInv
<1>6. Begun'
  BY <1>4 DEF BeginJoin, Begun, Cond
<1>7. (QueryInv /\ Begun)' => JoinInv'
  BY BegunInv, PTL
<1> QED
  BY <1>5, <1>6, <1>7

\* There is no query at first, ...
LEMMA InitInv == JoinsInit => JoinInv
BY DEF JoinsInit, JoinInv

\* ... nor after one.
LEMMA ForgetInv ==
  ASSUME Forget
  PROVE  JoinInv'
BY DEF Forget, JoinInv

-----------------------------------------------------------------------------
(* Each step of recursiveJoin keeps it.                                     *)

\* The call's condition and the columns compared, by the names they have here.
LEMMA CallNames == c = Cond(Len(frames) + 1)
BY DEF c, Cond

\* All conditions are taken: the one row that agrees is printed.
LEMMA PrintSelectedInv ==
  ASSUME JoinInv, PrintSelected
  PROVE  JoinInv'
<1>1. /\ pc = "call" /\ Len(frames) = Len(conds) /\ UNCHANGED <<query, queryOrder, joined, frames>>
      /\ pc' \in {"loop", "undefined"}
  BY DEF PrintSelected
<1> DEFINE row == [r \in ToSet(from) |-> joined[r]]
<1>2. PICK fr, j, p, pr : fr = frames' /\ j = joined' /\ p = pc' /\ pr = printed'
  OBVIOUS
<1>3. ASSUME PlanView, JoinGood(frames, joined, pc, printed) PROVE JoinGood(fr, j, p, pr)
  <2>1. /\ Control(frames, joined, "call")
        /\ Answers(frames, joined, "call", printed)
    BY <1>1, <1>3 DEF JoinGood
  <2>2. \A r \in ToSet(from) : joined[r] # Null
    BY <1>1, <1>3, <2>1, JoinedRow
  <2>3. pc' = "loop" /\ printed' = Append(printed, row)
    BY <2>2 DEF PrintSelected
  <2>4. Control(frames, joined, "loop")
    BY <2>1, LoopControl
  <2>5. Answers(frames, joined, "loop", Append(printed, row))
    BY <1>1, <1>3, <2>1, PrintAnswers
  <2> QED
    BY <1>1, <1>2, <2>3, <2>4, <2>5 DEF JoinGood
<1> QED
  BY <1>1, <1>2, <1>3, StepInv

\* A complete plan never comes here.
LEMMA UnplannedInv ==
  ASSUME JoinInv, Unplanned
  PROVE  JoinInv'
<1>1. /\ Calling /\ UNCHANGED <<query, queryOrder, joined, frames, printed>>
      /\ pc' \in {"loop", "undefined"}
  BY DEF Unplanned
<1>2. PICK fr, j, p, pr : fr = frames' /\ j = joined' /\ p = pc' /\ pr = printed'
  OBVIOUS
<1>3. ASSUME PlanView, JoinGood(frames, joined, pc, printed) PROVE FALSE
  <2>1. Control(frames, joined, "call") /\ Len(frames) < Len(conds)
    BY <1>1, <1>3 DEF JoinGood, Calling
  <2>2. c.rhs # Null /\ (joined[c.lhs] # Null \/ joined[c.rhs] # Null)
    BY <1>3, <2>1, CallMeets, CallNames
  <2> QED
    BY <2>2 DEF Unplanned, Valued, HasLhs, HasRhs
<1> QED
  BY <1>1, <1>2, <1>3, StepInv DEF Calling

\* What a scan of a step is.
LEMMA ScanIs ==
  ASSUME NEW r, NEW o, NEW x, Scan(r, o, x)
  PROVE  /\ frames' = Append(frames, [rel |-> r, left |-> Left(r, o, x)]) /\ pc' = "loop"
         /\ UNCHANGED <<query, queryOrder, joined, printed>>
BY DEF Scan

\* The table on the left is scanned.
LEMMA ScanLhsInv ==
  ASSUME JoinInv, ScanLhs
  PROVE  JoinInv'
<1>1. /\ Calling /\ ~HasLhs /\ HasRhs
      /\ frames' = Append(frames, [rel |-> c.lhs, left |-> Left(c.lhs, c.op, ColumnOf(c.rhs))])
      /\ pc' = "loop" /\ UNCHANGED <<query, queryOrder, joined, printed>>
  BY ScanIs DEF ScanLhs
<1>2. PICK fr, j, p, pr : fr = frames' /\ j = joined' /\ p = pc' /\ pr = printed'
  OBVIOUS
<1>3. PICK n : n = Len(frames) + 1
  OBVIOUS
<1>4. c = Cond(n)
  BY <1>3, CallNames
<1>5. ASSUME PlanView, JoinGood(frames, joined, pc, printed) PROVE JoinGood(fr, j, p, pr)
  <2>1. /\ JoinGood(frames, joined, "call", printed) /\ Len(frames) < Len(conds)
        /\ joined[Cond(n).lhs] = Null /\ joined[Cond(n).rhs] # Null
    BY <1>1, <1>4, <1>5 DEF Calling, HasLhs, HasRhs
  <2> QED
    BY <1>1, <1>2, <1>3, <1>4, <1>5, <2>1, ScanLhsGood DEF ColumnOf
<1> QED
  BY <1>1, <1>2, <1>5, StepInv DEF Calling

\* The table on the right is scanned.
LEMMA ScanRhsInv ==
  ASSUME JoinInv, ScanRhs
  PROVE  JoinInv'
<1>1. /\ Calling /\ HasLhs /\ ~HasRhs /\ ~Valued
      /\ frames' = Append(frames, [rel |-> c.rhs, left |-> Left(c.rhs, c.op, ColumnOf(c.lhs))])
      /\ pc' = "loop" /\ UNCHANGED <<query, queryOrder, joined, printed>>
  BY ScanIs DEF ScanRhs
<1>2. PICK fr, j, p, pr : fr = frames' /\ j = joined' /\ p = pc' /\ pr = printed'
  OBVIOUS
<1>3. PICK n : n = Len(frames) + 1
  OBVIOUS
<1>4. c = Cond(n)
  BY <1>3, CallNames
<1>5. ASSUME PlanView, Len(queryOrder) = Len(conds), JoinGood(frames, joined, pc, printed)
      PROVE  JoinGood(fr, j, p, pr)
  <2>1. /\ JoinGood(frames, joined, "call", printed) /\ Len(frames) < Len(conds)
        /\ joined[Cond(n).lhs] # Null /\ joined[Cond(n).rhs] = Null
    BY <1>1, <1>4, <1>5 DEF Calling, HasLhs, HasRhs, Valued
  <2> QED
    BY <1>1, <1>2, <1>3, <1>4, <1>5, <2>1, ScanRhsGood DEF ColumnOf
<1> QED
  BY <1>1, <1>2, <1>5, StepInv DEF Calling

\* Two joined tables are compared.
LEMMA CompareInv ==
  ASSUME JoinInv, Compare
  PROVE  JoinInv'
<1>1. /\ Calling /\ HasLhs /\ HasRhs
      /\ IF Holds(c.op, ColumnOf(c.lhs), ColumnOf(c.rhs))
           THEN frames' = Append(frames, [rel |-> Null, left |-> <<>>]) /\ pc' = "call"
           ELSE frames' = frames /\ pc' = "loop"
      /\ UNCHANGED <<query, queryOrder, joined, printed>>
  BY DEF Compare
<1>2. PICK fr, j, p, pr : fr = frames' /\ j = joined' /\ p = pc' /\ pr = printed'
  OBVIOUS
<1>3. PICK n : n = Len(frames) + 1
  OBVIOUS
<1>4. c = Cond(n)
  BY <1>3, CallNames
<1>5. ASSUME PlanView, JoinGood(frames, joined, pc, printed) PROVE JoinGood(fr, j, p, pr)
  <2>1. /\ JoinGood(frames, joined, "call", printed) /\ Len(frames) < Len(conds)
        /\ joined[Cond(n).lhs] # Null /\ joined[Cond(n).rhs] # Null
    BY <1>1, <1>4, <1>5 DEF Calling, HasLhs, HasRhs
  <2>2. IF Holds(Cond(n).op, content[Cond(n).lhs].slots[joined[Cond(n).lhs]].col,
                 content[Cond(n).rhs].slots[joined[Cond(n).rhs]].col)
          THEN JoinGood(Append(frames, [rel |-> Null, left |-> <<>>]), joined, "call", printed)
          ELSE JoinGood(frames, joined, "loop", printed)
    BY <1>3, <1>5, <2>1, CompareGood
  <2> QED
    BY <1>1, <1>2, <1>4, <2>2 DEF ColumnOf
<1>6. pc' \in {"call", "loop"}
  BY <1>1
<1> QED
  BY <1>1, <1>2, <1>5, <1>6, StepInv DEF Calling

\* The innermost scan goes on.
LEMMA NextRecordInv ==
  ASSUME JoinInv, NextRecord
  PROVE  JoinInv'
<1>1. /\ pc = "loop" /\ frames # <<>> /\ Last(frames).left # <<>>
      /\ joined' = [joined EXCEPT ![Last(frames).rel] = Head(Last(frames).left)]
      /\ frames' = Append(Front(frames), [Last(frames) EXCEPT !.left = Tail(@)])
      /\ pc' = "call" /\ UNCHANGED <<query, queryOrder, printed>>
  BY DEF NextRecord, top
<1>2. PICK fr, j, p, pr : fr = frames' /\ j = joined' /\ p = pc' /\ pr = printed'
  OBVIOUS
<1>3. ASSUME PlanView, JoinGood(frames, joined, pc, printed) PROVE JoinGood(fr, j, p, pr)
  <2>1. /\ Control(frames, joined, "loop")
        /\ Answers(frames, joined, "loop", printed)
    BY <1>1, <1>3 DEF JoinGood
  <2>2. Control(fr, j, "call")
    BY <1>1, <1>2, <1>3, <2>1, NextControl
  <2>3. Answers(fr, j, "call", printed)
    BY <1>1, <1>2, <1>3, <2>1, NextAnswers
  <2> QED
    BY <1>1, <1>2, <2>2, <2>3 DEF JoinGood
<1> QED
  BY <1>1, <1>2, <1>3, StepInv

\* A call returns.
LEMMA ReturnInv ==
  ASSUME JoinInv, Return
  PROVE  JoinInv'
<1> DEFINE j2 == IF Last(frames).rel = Null THEN joined
                 ELSE [joined EXCEPT ![Last(frames).rel] = Null]
<1>1. /\ pc = "loop" /\ frames # <<>> /\ Last(frames).left = <<>>
      /\ joined' = j2 /\ frames' = Front(frames)
      /\ UNCHANGED <<query, queryOrder, pc, printed>>
  BY DEF Return, top
<1>2. PICK fr, j, p, pr : fr = frames' /\ j = joined' /\ p = pc' /\ pr = printed'
  OBVIOUS
<1>3. ASSUME PlanView, JoinGood(frames, joined, pc, printed) PROVE JoinGood(fr, j, p, pr)
  <2>1. /\ Control(frames, joined, "loop")
        /\ Answers(frames, joined, "loop", printed)
    BY <1>1, <1>3 DEF JoinGood
  <2>2. Control(Front(frames), j2, "loop")
    BY <1>1, <1>3, <2>1, ReturnControl
  <2>3. Answers(Front(frames), j2, "loop", printed)
    BY <1>1, <1>3, <2>1, ReturnAnswers
  <2> HIDE DEF j2
  <2> QED
    BY <1>1, <1>2, <2>2, <2>3 DEF JoinGood
<1> HIDE DEF j2
<1> QED
  BY <1>1, <1>2, <1>3, StepInv

\* The first call has returned.
LEMMA FinishInv ==
  ASSUME JoinInv, Finish
  PROVE  JoinInv'
<1>1. /\ pc = "loop" /\ frames = <<>> /\ pc' = "done"
      /\ UNCHANGED <<query, queryOrder, joined, frames, printed>>
  BY DEF Finish
<1>2. PICK fr, j, p, pr : fr = frames' /\ j = joined' /\ p = pc' /\ pr = printed'
  OBVIOUS
<1>3. ASSUME PlanView, JoinGood(frames, joined, pc, printed) PROVE JoinGood(fr, j, p, pr)
  <2>1. /\ Control(frames, joined, "loop")
        /\ Answers(frames, joined, "loop", printed)
    BY <1>1, <1>3 DEF JoinGood
  <2>2. Control(frames, joined, "done")
    BY <1>1, <2>1, DoneControl
  <2>3. Answers(frames, joined, "done", printed)
    BY <2>1, DoneAnswers
  <2> QED
    BY <1>1, <1>2, <2>2, <2>3 DEF JoinGood
<1> QED
  BY <1>1, <1>2, <1>3, StepInv

\* Every step.
LEMMA NextInv ==
  ASSUME JoinInv, [JoinsNext]_joins
  PROVE  JoinInv'
<1>1. ASSUME NEW fs \in Froms, NEW tables \in Contents, NEW n \in 0 .. MAX_CONDS,
             NEW cs \in [1 .. n -> Conds(fs)], BeginJoin(fs, cs, tables)
      PROVE  JoinInv'
  BY <1>1, BeginJoinInv
<1>2. CASE PrintSelected
  BY <1>2, PrintSelectedInv
<1>3. CASE Unplanned
  BY <1>3, UnplannedInv
<1>4. CASE ScanLhs
  BY <1>4, ScanLhsInv
<1>5. CASE ScanRhs
  BY <1>5, ScanRhsInv
<1>6. CASE Compare
  BY <1>6, CompareInv
<1>7. CASE NextRecord
  BY <1>7, NextRecordInv
<1>8. CASE Return
  BY <1>8, ReturnInv
<1>9. CASE Finish
  BY <1>9, FinishInv
<1>10. CASE Forget
  BY <1>10, ForgetInv
<1>11. CASE UNCHANGED joins
  <2>1. UNCHANGED <<query, queryOrder, joined, frames, pc, printed>>
    BY <1>11 DEF joins
  <2>2. CASE pc = "no query"
    BY <2>1, <2>2 DEF JoinInv
  <2>3. CASE pc # "no query"
    <3>1. QueryInv /\ (Complete => JoinGood(frames, joined, pc, printed))
      BY <2>3 DEF JoinInv
    <3>2. QueryInv' /\ (Complete' => JoinGood(frames, joined, pc, printed)')
      BY <2>1, <3>1, QueryKept
    <3> QED
      BY <2>1, <3>2 DEF JoinInv
  <2> QED
    BY <2>2, <2>3
<1> QED
  BY <1>1, <1>2, <1>3, <1>4, <1>5, <1>6, <1>7, <1>8, <1>9, <1>10, <1>11 DEF JoinsNext, Join

\* The elements of a sequence.
LEMMA InSequence ==
  ASSUME NEW W, NEW s \in Seq(W)
  PROVE  ToSet(s) \subseteq W
<1>1. DOMAIN s = 1 .. Len(s) /\ \A i \in 1 .. Len(s) : s[i] \in W
  OBVIOUS
<1> QED
  BY <1>1 DEF ToSet

\* Under a current index that is asked for equality, or in a scan, what is reached is live and
\* related, and all that is so is reached.
LEMMA ReachedCurrent ==
  ASSUME Current, NEW r \in ToSet(from), NEW o \in {"EQ", "LT", "NO"}, NEW x,
         NEW i \in DOMAIN content[r].slots
  PROVE  Reached(r, o, x, i) <=> Live(content[r], i, o, x)
<1>1. CASE o = "EQ" /\ r \in Indexed
  <2> DEFINE slots == content[r].slots
             entry == content[r].entry
  <2>1. /\ \A key \in DOMAIN entry : slots[entry[key]] = [col |-> key, alive |-> TRUE]
        /\ \A m \in DOMAIN slots :
             slots[m].alive => slots[m].col \in DOMAIN entry /\ entry[slots[m].col] = m
    BY <1>1 DEF Current
  <2>2. Reached(r, o, x, i) <=> x \in DOMAIN entry /\ entry[x] = i
    BY <1>1 DEF Reached
  <2>3. Live(content[r], i, o, x) <=> slots[i].alive /\ slots[i].col = x
    BY <1>1 DEF Live, Holds
  <2>4. ASSUME x \in DOMAIN entry, entry[x] = i PROVE slots[i].alive /\ slots[i].col = x
    <3>1. slots[i] = [col |-> x, alive |-> TRUE]
      BY <2>1, <2>4
    <3> QED
      BY <3>1
  <2> QED
    BY <2>1, <2>2, <2>3, <2>4
<1>2. CASE ~(o = "EQ" /\ r \in Indexed)
  BY <1>2 DEF Reached
<1> QED
  BY <1>1, <1>2

\* Then a condition admits the rows of which it holds, if the record is live of the table it
\* adds.
LEMMA AdmitsCurrent ==
  ASSUME PlanView, Oriented, Current, Len(queryOrder) = Len(conds),
         NEW n \in 2 .. Len(conds), NEW f \in Combinations
  PROVE  LET l == Cond(n).lhs r == Cond(n).rhs IN
         Admits(n, f) <=> /\ Holds(Cond(n).op, Column(l, f), Column(r, f))
                          /\ \A t \in {l, r} : t \notin JoinedBefore(n) => content[t].slots[f[t]].alive
<1> DEFINE l == Cond(n).lhs
           r == Cond(n).rhs
           o == Cond(n).op
<1>1. /\ n \in Nat /\ n > 1 /\ n \in 1 .. Len(conds)
      /\ l \in ToSet(from) /\ r \in ToSet(from) /\ o \in {"EQ", "LT", "NO"}
      /\ f[l] \in DOMAIN content[l].slots /\ f[r] \in DOMAIN content[r].slots
  <2>1. n \in Nat /\ n > 1 /\ n \in 1 .. Len(conds)
    BY LenConds
  <2>2. l \in ToSet(from) /\ r \in ToSet(from) /\ o \in {"EQ", "LT", "NO"}
    BY <2>1 DEF PlanView
  <2> QED
    BY <2>1, <2>2 DEF Combinations
<1>2. l \in JoinedBefore(n) \/ r \in JoinedBefore(n)
  <2>1. PICK t \in {l, r} : t \in TablesOf(n - 1)
    BY DEF PlanView, TablesOf
  <2>2. n - 1 \in 1 .. n - 1
    BY <1>1
  <2> QED
    BY <2>1, <2>2 DEF JoinedBefore, TablesOf, Cond
<1>3. CASE l \in JoinedBefore(n) /\ r \in JoinedBefore(n)
  BY <1>1, <1>3, AdmitsIs
<1>4. CASE l \notin JoinedBefore(n)
  <2>1. Admits(n, f) <=> Live(content[l], f[l], o, Column(r, f))
    BY <1>1, <1>4, AdmitsIs, ReachedCurrent
  <2>2. Live(content[l], f[l], o, Column(r, f)) <=>
          content[l].slots[f[l]].alive /\ Holds(o, Column(l, f), Column(r, f))
    BY DEF Live, Column
  <2> QED
    BY <1>2, <1>4, <2>1, <2>2
<1>5. CASE l \in JoinedBefore(n) /\ r \notin JoinedBefore(n)
  <2>1. Admits(n, f) <=> Live(content[r], f[r], o, Column(l, f))
    BY <1>1, <1>5, AdmitsIs, ReachedCurrent
  <2>2. o = "EQ"
    <3>1. n \in 2 .. Len(queryOrder)
      OBVIOUS
    <3> QED
      BY <1>5, <3>1 DEF Oriented, Cond
  <2>3. Live(content[r], f[r], o, Column(l, f)) <=>
          content[r].slots[f[r]].alive /\ Holds(o, Column(l, f), Column(r, f))
    BY <2>2 DEF Live, Column, Holds
  <2> QED
    BY <1>5, <2>1, <2>3
<1> QED
  BY <1>2, <1>3, <1>4, <1>5

\* A table of the query is joined by one of the conditions, before which it was not.
LEMMA FirstJoined ==
  ASSUME PlanView, NEW r \in ToSet(from)
  PROVE  \E n \in 1 .. Len(conds) : r \in TablesOf(n) /\ r \notin JoinedBefore(n)
<1> DEFINE S == {n \in 1 .. Len(conds) : r \in TablesOf(n)}
<1>1. S \subseteq Nat /\ S # {}
  <2>1. S \subseteq Nat
    BY LenConds
  <2>2. \E n \in 1 .. Len(conds) : r \in TablesOf(n)
    BY DEF PlanView
  <2> QED
    BY <2>1, <2>2
<1>2. PICK n \in S : \A m \in S : n <= m
  BY <1>1, LeastNumber
<1>3. n \in 1 .. Len(conds) /\ r \in TablesOf(n)
  OBVIOUS
<1>4. \A i \in 1 .. n - 1 : i \in 1 .. Len(conds) /\ ~(n <= i)
  BY <1>3, LenConds
<1>5. \A i \in 1 .. n - 1 : r \notin TablesOf(i)
  BY <1>2, <1>4
<1>6. r \notin JoinedBefore(n)
  BY <1>5 DEF JoinedBefore, TablesOf, Cond
<1> QED
  BY <1>3, <1>6

\* What the plan admits is then the answer to the query.
LEMMA AdmittedIsWanted ==
  ASSUME PlanView, Oriented, Current, Len(queryOrder) = Len(conds)
  PROVE  Admitted = Wanted
<1> DEFINE Alive(f) == \A r \in ToSet(from) : content[r].slots[f[r]].alive
           Of(i, f) == Holds(conds[i].op, Column(conds[i].lhs, f),
                             IF conds[i].rhs = Null THEN conds[i].value
                             ELSE Column(conds[i].rhs, f))
<1>1. Len(conds) \in Nat /\ 1 \in 1 .. Len(conds) /\ \A n \in 1 .. Len(conds) : n = 1 \/ n \in 2 .. Len(conds)
  BY LenConds
<1>2. \A f : f \in Wanted <=> f \in Combinations /\ Alive(f) /\ \A i \in DOMAIN conds : Of(i, f)
  BY DEF Wanted
<1>3. \A f : (\A i \in DOMAIN conds : Of(i, f)) <=> \A n \in 1 .. Len(conds) : Of(queryOrder[n], f)
  <2> HIDE DEF Of
  <2>1. /\ \A n \in 1 .. Len(conds) : queryOrder[n] \in DOMAIN conds
        /\ \A i \in DOMAIN conds : \E n \in 1 .. Len(conds) : i = queryOrder[n]
    BY DEF PlanView
  <2> QED
    BY <2>1
<1>4. \A f : Of(queryOrder[1], f) <=> Holds(Cond(1).op, Column(Cond(1).lhs, f), Cond(1).value)
  BY DEF PlanView, Cond
<1>5. \A f : Admits(1, f) <=> content[Cond(1).lhs].slots[f[Cond(1).lhs]].alive /\ Of(queryOrder[1], f)
  <2>1. \A f : Admits(1, f) <=> Live(content[Cond(1).lhs], f[Cond(1).lhs], Cond(1).op, Cond(1).value)
    BY DEF Admits, Cond
  <2> QED
    BY <1>4, <2>1 DEF Live, Column
<1>6. \A n \in 2 .. Len(conds) : \A f :
        Of(queryOrder[n], f) <=> Holds(Cond(n).op, Column(Cond(n).lhs, f), Column(Cond(n).rhs, f))
  <2>1. \A n \in 2 .. Len(conds) : Cond(n).rhs # Null
    BY PlanTables
  <2> QED
    BY <2>1 DEF Cond
<1> HIDE DEF Of
<1>7. ASSUME NEW f \in Combinations, Alive(f), NEW n \in 1 .. Len(conds), Of(queryOrder[n], f)
      PROVE  Admits(n, f)
  <2>1. CASE n = 1
    BY <1>1, <1>5, <1>7, <2>1 DEF PlanView
  <2>2. CASE n \in 2 .. Len(conds)
    <3>1. TablesOf(n) \subseteq ToSet(from)
      BY <2>2, PlanTables
    <3>2. \A t \in {Cond(n).lhs, Cond(n).rhs} : content[t].slots[f[t]].alive
      BY <1>7, <3>1 DEF TablesOf
    <3> QED
      BY <1>6, <1>7, <2>2, <3>2, AdmitsCurrent
  <2> QED
    BY <1>1, <2>1, <2>2
<1>8. ASSUME NEW f \in Combinations, NEW n \in 1 .. Len(conds), Admits(n, f)
      PROVE  /\ Of(queryOrder[n], f)
             /\ \A r \in ToSet(from) : r \in TablesOf(n) /\ r \notin JoinedBefore(n)
                                         => content[r].slots[f[r]].alive
  <2>1. CASE n = 1
    <3>1. TablesOf(1) = {Cond(1).lhs, Null} /\ Null \notin ToSet(from)
      BY DEF PlanView, TablesOf
    <3> QED
      BY <1>5, <1>8, <2>1, <3>1
  <2>2. CASE n \in 2 .. Len(conds)
    <3>1. /\ Holds(Cond(n).op, Column(Cond(n).lhs, f), Column(Cond(n).rhs, f))
          /\ \A t \in {Cond(n).lhs, Cond(n).rhs} :
               t \notin JoinedBefore(n) => content[t].slots[f[t]].alive
      BY <1>8, <2>2, AdmitsCurrent
    <3> QED
      BY <1>6, <2>2, <3>1 DEF TablesOf
  <2> QED
    BY <1>1, <2>1, <2>2
<1>9. ASSUME NEW f \in Combinations, \A n \in 1 .. Len(conds) : Admits(n, f)
      PROVE  Alive(f) /\ \A n \in 1 .. Len(conds) : Of(queryOrder[n], f)
  <2>1. ASSUME NEW r \in ToSet(from) PROVE content[r].slots[f[r]].alive
    <3>1. PICK n \in 1 .. Len(conds) : r \in TablesOf(n) /\ r \notin JoinedBefore(n)
      BY FirstJoined
    <3> QED
      BY <1>8, <1>9, <3>1
  <2> QED
    BY <1>8, <1>9, <2>1
<1> HIDE DEF Alive
<1>10. \A f : f \in Admitted <=> f \in Combinations /\ \A n \in 1 .. Len(conds) : Admits(n, f)
  BY DEF Admitted
<1>11. \A f \in Combinations : f \in Admitted <=> f \in Wanted
  BY <1>2, <1>3, <1>7, <1>9, <1>10
<1> QED
  BY <1>2, <1>10, <1>11

\* What JoinExact says follows.
LEMMA InvJoinExact == JoinInv => JoinExact
<1> SUFFICES ASSUME JoinInv, pc # "no query", Complete
             PROVE  /\ pc # "undefined"
                    /\ Calling => HasLhs \/ HasRhs
                    /\ pc = "done" => /\ ToSet(printed) = Admitted /\ IsInjective(printed)
                                      /\ Oriented /\ Current => ToSet(printed) = Wanted
  BY DEF JoinExact, Supported, Complete
<1>1. PlanView /\ JoinGood(frames, joined, pc, printed) /\ Len(queryOrder) = Len(conds)
  BY PlanViewOf DEF JoinInv, Complete
<1>2. Control(frames, joined, pc) /\ Answers(frames, joined, pc, printed)
  BY <1>1 DEF JoinGood
<1>3. pc # "undefined"
  BY <1>2 DEF Control
<1>4. ASSUME Calling PROVE HasLhs \/ HasRhs
  <2>1. Control(frames, joined, "call") /\ Len(frames) < Len(conds)
    BY <1>2, <1>4 DEF Calling
  <2>2. c.rhs # Null /\ (joined[c.lhs] # Null \/ joined[c.rhs] # Null)
    BY <1>1, <2>1, CallMeets, CallNames
  <2> QED
    BY <2>2 DEF HasLhs, HasRhs
<1>5. ASSUME pc = "done" PROVE ToSet(printed) = Admitted /\ IsInjective(printed)
  <2>1. frames = <<>> /\ Len(frames) = 0
    BY <1>2, <1>5 DEF Control
  <2>2. \A f : ~Pending(f, frames, joined, pc)
    BY <1>5, <2>1 DEF Pending
  <2>3. printed \in Seq(Admitted) /\ IsInjective(printed) /\ Admitted \subseteq ToSet(printed)
    BY <1>2, <2>2 DEF Answers
  <2>4. ToSet(printed) \subseteq Admitted
    BY <2>3, InSequence
  <2> QED
    BY <2>3, <2>4
<1>6. ASSUME Oriented, Current PROVE Admitted = Wanted
  BY <1>1, <1>6, AdmittedIsWanted
<1> QED
  BY <1>3, <1>4, <1>5, <1>6

\* JoinExact holds always.
THEOREM JoinsExact == JoinsSpec => []JoinExact
<1>1. JoinsInit /\ [][JoinsNext]_joins => []JoinInv
  BY InitInv, NextInv, PTL
<1> QED
  BY <1>1, InvJoinExact, PTL DEF JoinsSpec
=============================================================================
