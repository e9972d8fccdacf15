----------------------------- MODULE IndexScan ------------------------------
(***************************************************************************)
(* Iteration over the index in the order of its keys (class IndexScan of   *)
(* ix/indexscan.h).  The scan has no links between leaves to follow: it    *)
(* keeps the number of the child, or in the leaf of the entry, it took at  *)
(* each level below the root (position), and climbs by the parent links of *)
(* the nodes to the first level at which there is a neighbour.             *)
(*                                                                         *)
(* A statement opens the index, then the scan, and makes no entry while it *)
(* is open; one iteration of the loops of next() is one action.            *)
(***************************************************************************)
EXTENDS IndexFile

CONSTANT ScanValues  \* the values a scan compares keys with

ASSUME IndexScanAssumption == ScanValues \subseteq Int

Ops == {"NO", "EQ", "LT", "GT", "LE", "GE", "NE"}

\* What a read before the first entry of a node gives; next()'s answer RID(-1, -1).
Garbage == -2
NoRID   == -1

VARIABLES compOp,    \* "closed" when there is no scan
          value,
          current,   \* a node
          position,  \* from the root down
          canDo,
          returned   \* the answers of next() but the last

cursor   == <<current, position, canDo>>
scanVars == <<compOp, value, cursor, returned>>
allVars  == <<fileVars, scanVars>>

ScanInit ==
  /\ FileInit
  /\ compOp = "closed" /\ value = 0
  /\ current = NoNode /\ position = <<>> /\ canDo = FALSE
  /\ returned = <<>>

-----------------------------------------------------------------------------
\* toStart1 from a node: the nodes from it down to its first leaf, ...
FirstPath ==
  LET path[x \in DOMAIN node] ==
        IF node[x].isLeaf THEN <<x>> ELSE <<x>> \o path[node[x].n[1]]
  IN path

\* ... the last steps of toLeft: to its last leaf, ...
LastPath ==
  LET path[x \in DOMAIN node] ==
        IF node[x].isLeaf THEN <<x>> ELSE <<x>> \o path[Last(node[x].n)]
  IN path

\* ... toStart2: to the leaf the value belongs to.
ValuePath(v) ==
  LET path[x \in DOMAIN node] ==
        IF node[x].isLeaf THEN <<x>> ELSE <<x>> \o path[node[x].n[Rank(node[x].k, v) + 1]]
  IN path[root]

\* The numbers, from 0, of the children a path goes through.
ChildNumbers(path) ==
  [l \in 1 .. Len(path) - 1 |->
     (CHOOSE i \in DOMAIN node[path[l]].n : node[path[l]].n[i] = path[l + 1]) - 1]

\* The node at a level of position, by the parent links from the current leaf.
At(level) ==
  LET up[l \in 1 .. Len(position)] ==
        IF l = Len(position) THEN current ELSE node[up[l + 1]].parent
  IN up[level]

\* The levels at which toRight, toLeft find a neighbour.
RightOf(l) ==
  position[l] < IF l = Len(position) THEN Size(At(l)) - 1 ELSE Size(At(l))

LeftOf(l) == position[l] > 0

\* The constructor, on an index that was just opened.  An empty root leaves position empty.
Open(c, v) ==
  /\ op = "idle" /\ hot_ = NoNode /\ compOp = "closed"
  /\ compOp' = c /\ value' = v
  /\ canDo' = TRUE
  /\ returned' = <<>>
  /\ LET path == IF c \in {"NO", "NE"} THEN FirstPath[root] ELSE ValuePath(v)
         leaf == Last(path)
     IN IF Size(root) = 0
          THEN current' = root /\ position' = <<>>
          ELSE /\ current' = leaf
               /\ position' = ChildNumbers(path) \o
                    <<IF c \in {"NO", "NE"} THEN 0 ELSE Rank(node[leaf].k, v) - 1>>
  /\ UNCHANGED fileVars

\* toRight(): the entry after the current one.  When there is none, canDo becomes false
\* and the cursor, left somewhere on the way to the root, is not used again.
ToRight ==
  LET levels == {l \in DOMAIN position : RightOf(l)} IN
  IF levels = {}
    THEN canDo' = FALSE /\ UNCHANGED <<current, position>>
    ELSE LET l    == Max(levels)
             path == IF l = Len(position) THEN <<current>>
                     ELSE FirstPath[node[At(l)].n[position[l] + 2]]
         IN /\ position' = SubSeq(position, 1, l - 1) \o <<position[l] + 1>> \o
                             [x \in 1 .. Len(position) - l |-> 0]
            /\ current' = Last(path)
            /\ canDo' = TRUE

\* Mutant of ToLeft: the levels below the climb start at the left as in toRight.
ToLeftToFirst ==
  LET levels == {l \in DOMAIN position : LeftOf(l)} IN
  IF levels = {}
    THEN canDo' = FALSE /\ UNCHANGED <<current, position>>
    ELSE LET l    == Max(levels)
             path == IF l = Len(position) THEN <<current>>
                     ELSE FirstPath[node[At(l)].n[position[l]]]
         IN /\ position' = SubSeq(position, 1, l - 1) \o <<position[l] - 1>> \o
                             [x \in 1 .. Len(position) - l |-> 0]
            /\ current' = Last(path)
            /\ canDo' = TRUE

\* toLeft(): the entry before the current one.
ToLeft ==
  LET levels == {l \in DOMAIN position : LeftOf(l)} IN
  IF levels = {}
    THEN canDo' = FALSE /\ UNCHANGED <<current, position>>
    ELSE LET l    == Max(levels)
             path == IF l = Len(position) THEN <<current>>
                     ELSE LastPath[node[At(l)].n[position[l]]]
         IN /\ position' = SubSeq(position, 1, l - 1) \o <<position[l] - 1>> \o
                             (IF l = Len(position) THEN <<>>
                              ELSE ChildNumbers(path) \o <<Size(Last(path)) - 1>>)
            /\ current' = Last(path)
            /\ canDo' = TRUE

\* The key and the record at the cursor.  toStart2 leaves it before the first entry of the
\* leaf when the value is less than all keys: k[-1] and n[-1] are then read.
OnEntry == Last(position) >= 0
KeyAt    == node[current].k[Last(position) + 1]
RecordAt == IF OnEntry THEN node[current].n[Last(position) + 1] ELSE Garbage

Satisfies(k, c, v) ==
  CASE c = "NO" -> TRUE
    [] c = "EQ" -> k = v
    [] c = "NE" -> k # v
    [] c = "LT" -> k < v
    [] c = "LE" -> k <= v
    [] c = "GT" -> k > v
    [] c = "GE" -> k >= v

\* The outcomes of the loop's comparison at the cursor.
Outcomes ==
  IF OnEntry \/ compOp = "NO" THEN {Satisfies(KeyAt, compOp, value)} ELSE BOOLEAN

Move == IF compOp \in {"LT", "LE"} THEN ToLeft ELSE ToRight

Reading == compOp # "closed" /\ canDo /\ position # <<>>

\* Mutant of Skip: the loop does not move on.
SkipStays ==
  /\ Reading /\ compOp # "EQ"
  /\ FALSE \in Outcomes
  /\ UNCHANGED allVars

\* An iteration of the loop of LtSearch, GtSearch, ...: the entry is passed over ...
Skip ==
  /\ Reading /\ compOp # "EQ"
  /\ FALSE \in Outcomes
  /\ Move
  /\ UNCHANGED <<fileVars, compOp, value, returned>>

\* ... or it is the answer, and the cursor moves on.
Return ==
  /\ Reading /\ compOp # "EQ"
  /\ TRUE \in Outcomes
  /\ returned' = Append(returned, RecordAt)
  /\ Move
  /\ UNCHANGED <<fileVars, compOp, value>>

\* EqSearch answers with the entry at the cursor, whatever its key, unless the key is 0.
\* The cursor stays: every call gives the same answer, of which the last is kept here.
ReturnEqual ==
  /\ Reading /\ compOp = "EQ"
  /\ \E answer \in IF ~OnEntry THEN {Garbage, NoRID}
                   ELSE {IF KeyAt # 0 THEN RecordAt ELSE NoRID} :
       returned' = <<answer>>
  /\ UNCHANGED <<fileVars, compOp, value, cursor>>

\* The scan is deleted, and its cursor and answers with it.
Closed ==
  /\ compOp' = "closed" /\ value' = 0
  /\ current' = NoNode /\ position' = <<>> /\ canDo' = FALSE
  /\ returned' = <<>>
  /\ UNCHANGED fileVars

\* next() answers RID(-1, -1), and the client closes the scan.
Exhausted == ~canDo \/ position = <<>>

Close ==
  /\ compOp # "closed"
  /\ Exhausted
  /\ Closed

\* The client closes a scan it has an answer from.
Abandon ==
  /\ compOp = "EQ" /\ returned # <<>>
  /\ Closed

ScanStep == Skip \/ Return \/ ReturnEqual \/ Close

AllNext ==
  \/ compOp = "closed" /\ FileNext /\ UNCHANGED scanVars
  \/ \E c \in Ops, v \in ScanValues : Open(c, v)
  \/ ScanStep \/ Abandon

\* The client asks for answers until there is none.
AllSpec == ScanInit /\ [][AllNext]_allVars /\ WF_fileVars(FileWork) /\ WF_allVars(ScanStep)

-----------------------------------------------------------------------------
Entered == UNION {ToSet(node[x].k) : x \in Leaves}

\* The keys that satisfy the scan, and those of them before k in its order.
Wanted == {k \in Entered : Satisfies(k, compOp, value)}

WantedBefore(k) == {w \in Wanted : IF compOp \in {"LT", "LE"} THEN w > k ELSE w < k}

\* Is the value less than all keys, so that toStart2 leaves the tree on the left?
FallsOff == compOp \notin {"closed", "NO", "NE"} /\ \A k \in Entered : value < k

\* Unless the scan fell off the tree, its answers are the records that match, each once,
\* in the order of their keys, ascending or, for < and <=, descending: climbing by the
\* parent links over splits of every shape neither misses a leaf nor meets one twice.  A
\* scan for equality that has the key, if it is not 0, answers with its record.
IndexScanExact ==
  /\ compOp \notin {"closed", "EQ"} /\ ~FallsOff =>
       /\ \A i \in DOMAIN returned :
            \E k \in Wanted : /\ Cardinality(WantedBefore(k)) = i - 1
                              /\ returned[i] = RecordOf(k)
       /\ Exhausted => Len(returned) = Cardinality(Wanted)
  /\ compOp = "EQ" /\ value \in Entered \ {0} =>
       ToSet(returned) \subseteq {RecordOf(value)}

\* A scan by any comparison but = comes to an end, on every tree, also when it begins
\* before the first entry.
IndexScanEnds == compOp \notin {"closed", "EQ"} ~> compOp = "closed"
=============================================================================
