----------------------------- MODULE BPlusTree ------------------------------
(***************************************************************************)
(* The primary key index of a table (class Index of ix/index.h): a B+ tree *)
(* of nodes that know their parent, each in a slot of a record file.       *)
(*                                                                         *)
(* insertEntry is searchEntry, which descends from the root one node at a  *)
(* time and leaves the leaf it reached in hot_, then the insertion in that *)
(* leaf, then solveOverFlow, which splits a node and calls itself for the  *)
(* parent.  Each of these calls is one action: between them the tree has   *)
(* a node with one key too many, and must still be searchable from the     *)
(* root and from nowhere else.                                             *)
(*                                                                         *)
(* removeEntry, which nothing calls, is not modelled, so no node is ever   *)
(* released, and allocateNode gives the nodes 1, 2, 3 in their order.      *)
(***************************************************************************)
EXTENDS Integers, Sequences, FiniteSets, SequencesExt

CONSTANTS B_PLUS_TREE_BRANCH,
          MAX_NODES,  \* bound of the model: no node beyond it is allocated
          Rows        \* <<key, record>>: the entries made

ASSUME BPlusTreeAssumption ==
  /\ B_PLUS_TREE_BRANCH \in Nat /\ B_PLUS_TREE_BRANCH >= 2
  /\ MAX_NODES \in Nat \ {0}
  /\ Rows \subseteq Int \X Nat

Keys    == {row[1] : row \in Rows}
Records == {row[2] : row \in Rows}

NodeIds == 1 .. MAX_NODES
NoNode  == 0
None    == -1

VARIABLES node,      \* nodes 1 .. allocated: [isLeaf, k, n, parent]
          allocated,
          root,      \* indexInfo_
          op,        \* what the index is doing: "idle", "search" or "fix"
          key, record,  \* the arguments of the call; record is None for searchEntry
          hot_       \* the node reached by the search, then the node to split

tree == <<node, allocated, root>>
call == <<op, key, record, hot_>>
vars == <<tree, call>>

Leaf(k, n, parent)  == [isLeaf |-> TRUE,  k |-> k, n |-> n, parent |-> parent]
Inner(k, n, parent) == [isLeaf |-> FALSE, k |-> k, n |-> n, parent |-> parent]

\* What key holds before the first call; it is not looked at.
AnyKey == CHOOSE k \in Keys : TRUE

\* createIndex.
Init ==
  /\ node = <<Leaf(<<>>, <<>>, NoNode)>>
  /\ allocated = 1
  /\ root = 1
  /\ op = "idle" /\ key = AnyKey /\ record = None /\ hot_ = NoNode

-----------------------------------------------------------------------------
\* getPosition(value) + 1, by what NodeSearch shows of it: the keys not greater.
Rank(k, value) == Cardinality({i \in DOMAIN k : k[i] <= value})

Size(x) == Len(node[x].k)

Overfull(x) == Size(x) > B_PLUS_TREE_BRANCH

\* The call of insertEntry(k, r), or of searchEntry(k) when r is None.
Begin(k, r) ==
  /\ op = "idle"
  /\ op' = "search"
  /\ key' = k /\ record' = r
  /\ hot_' = root
  /\ UNCHANGED tree

\* Mutant of Descend: hot_ is not moved to the child.
DescendStays ==
  /\ op = "search"
  /\ ~node[hot_].isLeaf
  /\ hot_' = hot_
  /\ UNCHANGED <<tree, op, key, record>>

\* An iteration of searchEntry at an inner node.
Descend ==
  /\ op = "search"
  /\ ~node[hot_].isLeaf
  /\ hot_' = node[hot_].n[Rank(node[hot_].k, key) + 1]
  /\ UNCHANGED <<tree, op, key, record>>

\* searchEntry ends; there is nothing to insert, or the key is there already.
Answer ==
  /\ op = "search"
  /\ node[hot_].isLeaf
  /\ record = None \/ key \in ToSet(node[hot_].k)
  /\ op' = "idle"
  /\ UNCHANGED <<tree, key, record, hot_>>

\* Mutant of InsertInLeaf: insertN is given the wrong position.
InsertInLeafRecordFirst ==
  /\ op = "search"
  /\ node[hot_].isLeaf
  /\ record # None /\ key \notin ToSet(node[hot_].k)
  /\ node' = [node EXCEPT ![hot_].k = InsertAt(@, Rank(@, key) + 1, key),
                          ![hot_].n = InsertAt(@, 1, record)]
  /\ op' = "fix"
  /\ UNCHANGED <<allocated, root, key, record, hot_>>

\* insertEntry puts the key in the leaf and calls solveOverFlow.
InsertInLeaf ==
  /\ op = "search"
  /\ node[hot_].isLeaf
  /\ record # None /\ key \notin ToSet(node[hot_].k)
  /\ LET v == node[hot_]
         p == Rank(v.k, key) + 1
     IN node' = [node EXCEPT ![hot_].k = InsertAt(v.k, p, key),
                             ![hot_].n = InsertAt(v.n, p, record)]
  /\ op' = "fix"
  /\ UNCHANGED <<allocated, root, key, record, hot_>>

half == (B_PLUS_TREE_BRANCH + 1) \div 2

\* The new root of a split: the node split is its only child, for now.
NewRoot(x) == Inner(<<>>, <<x>>, NoNode)

\* The second half of a split: v, to which rest is left, gets the right neighbour new, and
\* the parent, a new one if v was the root, gets new behind the separator.  moved are the
\* children of new, which learn of their parent.
Split(v, rest, new, separator, moved) ==
  LET nid  == allocated + 1
      grow == hot_ = root
      pid  == IF grow THEN allocated + 2 ELSE v.parent
      p    == IF grow THEN NewRoot(hot_) ELSE node[pid]
      at   == Rank(p.k, v.k[1]) + 1
  IN
  /\ allocated' = IF grow THEN allocated + 2 ELSE nid
  /\ allocated' <= MAX_NODES
  /\ node' = [x \in 1 .. allocated' |->
                IF x = hot_ THEN [rest EXCEPT !.parent = pid]
                ELSE IF x = nid THEN [new EXCEPT !.parent = pid]
                ELSE IF x = pid THEN [p EXCEPT !.k = InsertAt(@, at, separator),
                                               !.n = InsertAt(@, at + 1, nid)]
                ELSE IF x \in moved THEN [node[x] EXCEPT !.parent = nid]
                ELSE node[x]]
  /\ root' = IF grow THEN pid ELSE root
  /\ hot_' = pid
  /\ UNCHANGED <<op, key, record>>

\* Mutants of SplitLeaf: the separator is the last key that stays; a full leaf is split.
SplitLeafHigh ==
  /\ op = "fix"
  /\ node[hot_].isLeaf /\ Overfull(hot_)
  /\ LET v   == node[hot_]
         cut == half + 1
         new == Leaf(SubSeq(v.k, cut + 1, Len(v.k)), SubSeq(v.n, cut + 1, Len(v.n)), NoNode)
     IN Split(v, [v EXCEPT !.k = SubSeq(@, 1, cut), !.n = SubSeq(@, 1, cut)],
              new, v.k[cut], {})

SplitLeafEarly ==
  /\ op = "fix"
  /\ node[hot_].isLeaf /\ Size(hot_) >= B_PLUS_TREE_BRANCH
  /\ LET v   == node[hot_]
         cut == half + 1
         new == Leaf(SubSeq(v.k, cut + 1, Len(v.k)), SubSeq(v.n, cut + 1, Len(v.n)), NoNode)
     IN Split(v, [v EXCEPT !.k = SubSeq(@, 1, cut), !.n = SubSeq(@, 1, cut)],
              new, v.k[Len(v.k)], {})

\* solveOverFlow of a leaf: the first half + 1 entries stay.
SplitLeaf ==
  /\ op = "fix"
  /\ node[hot_].isLeaf /\ Overfull(hot_)
  /\ LET v   == node[hot_]
         cut == half + 1
         new == Leaf(SubSeq(v.k, cut + 1, Len(v.k)), SubSeq(v.n, cut + 1, Len(v.n)), NoNode)
     IN Split(v, [v EXCEPT !.k = SubSeq(@, 1, cut), !.n = SubSeq(@, 1, cut)],
              new, new.k[1], {})

\* Mutant of SplitInner: the children that move are not told.
SplitInnerKeepsChildren ==
  /\ op = "fix"
  /\ ~node[hot_].isLeaf /\ Overfull(hot_)
  /\ LET v   == node[hot_]
         cut == half + 1
         new == Inner(SubSeq(v.k, cut + 1, Len(v.k)), SubSeq(v.n, cut + 1, Len(v.n)), NoNode)
     IN Split(v, [v EXCEPT !.k = SubSeq(@, 1, half), !.n = SubSeq(@, 1, cut)],
              new, v.k[cut], {})

\* solveOverFlow of an inner node: half keys stay, the next one moves up between the two.
SplitInner ==
  /\ op = "fix"
  /\ ~node[hot_].isLeaf /\ Overfull(hot_)
  /\ LET v   == node[hot_]
         cut == half + 1
         new == Inner(SubSeq(v.k, cut + 1, Len(v.k)), SubSeq(v.n, cut + 1, Len(v.n)), NoNode)
     IN Split(v, [v EXCEPT !.k = SubSeq(@, 1, half), !.n = SubSeq(@, 1, cut)],
              new, v.k[cut], ToSet(new.n))

\* solveOverFlow of a node that is not too full; insertEntry ends.
Settle ==
  /\ op = "fix"
  /\ ~Overfull(hot_)
  /\ op' = "idle"
  /\ UNCHANGED <<tree, key, record, hot_>>

Work == Descend \/ Answer \/ InsertInLeaf \/ SplitLeaf \/ SplitInner \/ Settle

Next ==
  \/ Work
  \/ \E row \in Rows : Begin(row[1], row[2])
  \/ \E k \in Keys : Begin(k, None)

\* A call, once begun, is carried out.
Spec == Init /\ [][Next]_vars /\ WF_vars(Work)

-----------------------------------------------------------------------------
Nodes == DOMAIN node

Leaves == {x \in Nodes : node[x].isLeaf}

Children(x) == IF node[x].isLeaf THEN {} ELSE ToSet(node[x].n)

\* The keys of the leaves below a node.
KeysBelow ==
  LET below[x \in Nodes] ==
        IF node[x].isLeaf THEN ToSet(node[x].k) ELSE UNION {below[c] : c \in Children(x)}
  IN below

\* The keys of a node separate what is below its children, also while a split is not
\* finished: a search that goes by the separators misses nothing.
SeparatorsHold ==
  \A x \in Nodes \ Leaves : \A i \in 1 .. Size(x) :
    /\ \A c \in KeysBelow[node[x].n[i]] : c < node[x].k[i]
    /\ \A c \in KeysBelow[node[x].n[i + 1]] : node[x].k[i] <= c

Depth ==
  LET depth[x \in Nodes] == IF x = root THEN 0 ELSE depth[node[x].parent] + 1
  IN depth

\* Each node but the root is the child of one node, once, and knows which: the parent a
\* split is charged to is the one that searches come through.  All leaves are equally deep.
TreeShape ==
  /\ \A x \in Nodes \ Leaves : /\ IsInjective(node[x].n)
                               /\ \A c \in Children(x) : c # root /\ node[c].parent = x
  /\ UNION {Children(x) : x \in Nodes} = Nodes \ {root}
  /\ \A x, y \in Leaves : Depth[x] = Depth[y]

\* At most one node has a key too many, the one solveOverFlow is called for; all but the
\* root are at least half full.
NodeSizes ==
  \A x \in Nodes :
    /\ Overfull(x) => op = "fix" /\ x = hot_
    /\ x # root => Size(x) >= B_PLUS_TREE_BRANCH \div 2

\* A search that has come to a leaf has come to the one with the key, if any has it.
SearchExact ==
  /\ op = "search" /\ hot_ \in Leaves
  /\ \E x \in Leaves : key \in ToSet(node[x].k)
  => key \in ToSet(node[hot_].k)

\* The record entered with key k.
RecordOf(k) ==
  IF \E x \in Leaves : k \in ToSet(node[x].k)
    THEN LET x == CHOOSE x \in Leaves : k \in ToSet(node[x].k)
         IN node[x].n[CHOOSE i \in 1 .. Size(x) : node[x].k[i] = k]
    ELSE None

Map == INSTANCE IndexMap WITH entries <- [k \in Keys |-> RecordOf(k)], Values <- Records

\* The index is a map: a key keeps the record it was entered with, through all splits, and
\* is not entered twice.
ImplementsIndexMap == Map!Spec

\* Every call of insertEntry and searchEntry ends.
CallEnds == op = "search" ~> op = "idle"
=============================================================================
