--------------------------- MODULE BPlusTreeProofs ---------------------------
(***************************************************************************)
(* Proofs about the primary key index, for every branching factor, any     *)
(* number of nodes and any entries, and about the search in a node.        *)
(*                                                                         *)
(* The argument follows a search: to each node belongs the range of keys   *)
(* with which searchEntry comes to it, all integers for the root and, for  *)
(* the ith child of a node, those of the node's range that have rank i - 1 *)
(* in its keys.  To each node belongs also its height above the leaves.    *)
(* The invariant (IInv) says that such ranges and heights exist, that a    *)
(* node has keys of its range only, and that nodes of the same height have *)
(* ranges apart from each other.  SplitTree shows that solveOverFlow keeps *)
(* that: it cuts the range of the node it splits at the separator, and     *)
(* leaves all other ranges as they are.                                    *)
(*                                                                         *)
(* An index scan is a way down (Way): the nodes from the root to a leaf    *)
(* and the numbers of the children taken.  A key is compared with the key  *)
(* at the cursor at the level where their ways part (KeyPlace), so the     *)
(* neighbour of a cursor at the lowest level that has one is the next key  *)
(* (NeighbourKeys), and the invariant (ScanGood) counts the keys passed.   *)
(*                                                                         *)
(* An index file may lose its root when it is opened again.  The nodes     *)
(* below any node of a tree are a tree (TreeBelow), so what the old root   *)
(* leads to is a tree again: FileInv says that some of the nodes are one,  *)
(* and BelowRoot is which.                                                 *)
(*                                                                         *)
(* Induction is by the least counterexample (LeastNumber).                 *)
(***************************************************************************)
EXTENDS IndexScan, NodeSearch, ListsProofs

-----------------------------------------------------------------------------
(* Natural numbers, sequences and Rank.                                     *)

\* A set of indices with all smaller ones is an interval.
LEMMA InitialIndices ==
  ASSUME NEW len \in Nat, NEW S, S \subseteq 1 .. len,
         \A i \in S : \A j \in 1 .. len : j < i => j \in S
  PROVE  /\ Cardinality(S) \in 0 .. len
         /\ \A i \in 1 .. len : i \in S <=> i <= Cardinality(S)
<1> DEFINE Out == {i \in 1 .. len + 1 : i \notin S}
<1>1. Out \subseteq Nat /\ len + 1 \in Out
  OBVIOUS
<1> HIDE DEF Out
<1>2. PICK m \in Out : \A i \in Out : m <= i
  BY <1>1, LeastNumber
<1>3. m \in 1 .. len + 1 /\ m \notin S
  BY DEF Out
<1>4. \A i \in 1 .. len : i < m => i \in S
  BY <1>2, <1>3 DEF Out
<1>5. \A i \in S : i < m
  <2> SUFFICES ASSUME NEW i \in S, m <= i PROVE FALSE
    BY <1>3
  <2> QED
    BY <1>3
<1>6. S = 1 .. m - 1
  <2>1. \A i \in S : i \in 1 .. m - 1
    BY <1>3, <1>5
  <2>2. \A i \in 1 .. m - 1 : i \in S
    BY <1>3, <1>4
  <2> QED
    BY <2>1, <2>2
<1>7. Cardinality(S) = m - 1
  BY <1>3, <1>6, FS_Interval
<1> QED
  BY <1>3, <1>6, <1>7

Sorted(k) == \A i, j \in 1 .. Len(k) : i < j => k[i] < k[j]

\* In a sorted node the keys not greater than a value are the first Rank of them.
LEMMA RankOfSorted ==
  ASSUME NEW k \in Seq(Int), Sorted(k), NEW v \in Int
  PROVE  /\ Rank(k, v) \in 0 .. Len(k)
         /\ \A i \in 1 .. Len(k) : k[i] <= v <=> i <= Rank(k, v)
<1> DEFINE S == {i \in DOMAIN k : k[i] <= v}
<1>1. S \subseteq 1 .. Len(k)
  OBVIOUS
<1>2. \A i \in S : \A j \in 1 .. Len(k) : j < i => j \in S
  BY DEF Sorted
<1>3. \A i \in 1 .. Len(k) : i \in S <=> k[i] <= v
  OBVIOUS
<1>4. Rank(k, v) = Cardinality(S)
  BY DEF Rank
<1> HIDE DEF S
<1>5. /\ Cardinality(S) \in 0 .. Len(k)
      /\ \A i \in 1 .. Len(k) : i \in S <=> i <= Cardinality(S)
  <2>1. Len(k) \in Nat
    OBVIOUS
  <2> QED
    BY <1>1, <1>2, <2>1, InitialIndices
<1> QED
  BY <1>3, <1>4, <1>5

\* There is no other number like that.
LEMMA RankIs ==
  ASSUME NEW k \in Seq(Int), Sorted(k), NEW v \in Int, NEW r \in 0 .. Len(k),
         \A i \in 1 .. Len(k) : k[i] <= v <=> i <= r
  PROVE  Rank(k, v) = r
<1>1. \A i \in 1 .. Len(k) : i <= Rank(k, v) <=> i <= r
  BY RankOfSorted
<1>2. Rank(k, v) \in 0 .. Len(k)
  BY RankOfSorted
<1>3. ~ (r < Rank(k, v))
  BY <1>1, <1>2
<1>4. ~ (Rank(k, v) < r)
  BY <1>1, <1>2
<1> QED
  BY <1>2, <1>3, <1>4

\* t is s with e in place i, the elements from there on moved by one.
Inserted(T, s, i, e, t) ==
  /\ t \in Seq(T) /\ Len(t) = Len(s) + 1
  /\ \A j \in 1 .. Len(s) + 1 : t[j] = IF j < i THEN s[j] ELSE IF j = i THEN e ELSE s[j - 1]

\* InsertAt does that.
LEMMA InsertAtProperties ==
  ASSUME NEW T, NEW s \in Seq(T), NEW i \in 1 .. Len(s) + 1, NEW e \in T
  PROVE  Inserted(T, s, i, e, InsertAt(s, i, e))
<1> DEFINE a == SubSeq(s, 1, i - 1)
           b == SubSeq(s, i, Len(s))
           c == a \o <<e>>
           t == c \o b
<1>1. a \in Seq(T) /\ Len(a) = i - 1 /\ \A j \in 1 .. i - 1 : a[j] = s[j]
  OBVIOUS
<1>2. /\ b \in Seq(T) /\ Len(b) = Len(s) - i + 1
      /\ \A j \in 1 .. Len(s) - i + 1 : b[j] = s[i + j - 1]
  OBVIOUS
<1>3. InsertAt(s, i, e) = t
  BY DEF InsertAt
<1> HIDE DEF a, b
<1>4. /\ c \in Seq(T) /\ Len(c) = i /\ c[i] = e
      /\ \A j \in 1 .. i - 1 : c[j] = s[j]
  BY <1>1
<1> HIDE DEF c
<1>5. t \in Seq(T) /\ Len(t) = Len(s) + 1
  <2>1. c \in Seq(T) /\ b \in Seq(T)
    BY <1>2, <1>4
  <2>2. t \in Seq(T)
    BY <2>1
  <2>3. Len(t) = Len(c) + Len(b)
    BY <2>1
  <2> QED
    BY <1>2, <1>4, <2>2, <2>3
<1>6. \A j \in 1 .. i : t[j] = c[j]
  BY <1>2, <1>4
<1>7. \A j \in 1 .. Len(s) - i + 1 : t[i + j] = b[j]
  BY <1>2, <1>4
<1> HIDE DEF t
<1>8. ASSUME NEW j \in 1 .. Len(s) + 1
      PROVE  t[j] = IF j < i THEN s[j] ELSE IF j = i THEN e ELSE s[j - 1]
  <2>1. CASE j < i
    BY <1>4, <1>6, <2>1
  <2>2. CASE j = i
    BY <1>4, <1>6, <2>2
  <2>3. CASE j > i
    <3>1. j - i \in 1 .. Len(s) - i + 1 /\ i + (j - i) = j /\ i + (j - i) - 1 = j - 1
      BY <2>3
    <3>2. b[j - i] = s[j - 1]
      BY <1>2, <3>1
    <3>3. t[j] = b[j - i]
      BY <1>7, <3>1
    <3> QED
      BY <2>3, <3>2, <3>3
  <2> QED
    BY <2>1, <2>2, <2>3
<1> QED
  BY <1>3, <1>5, <1>8 DEF Inserted

\* Where the len elements of s are in t.
Shifted(s, len, i, e, t) ==
  /\ len \in Nat /\ Len(t) = len + 1 /\ i \in 1 .. Len(t) /\ t[i] = e
  /\ \A j \in 1 .. len : /\ j < i => j \in 1 .. Len(t) /\ t[j] = s[j]
                         /\ ~(j < i) => j + 1 \in 1 .. Len(t) /\ t[j + 1] = s[j]
  /\ \A j \in 1 .. Len(t) : /\ j < i => j \in 1 .. len /\ t[j] = s[j]
                            /\ j > i => j - 1 \in 1 .. len /\ t[j] = s[j - 1]

\* An inserted element moves the others as Shifted says.
LEMMA InsertedElements ==
  ASSUME NEW T, NEW s \in Seq(T), NEW len, len = Len(s), NEW i \in 1 .. len + 1, NEW e,
         NEW t, Inserted(T, s, i, e, t)
  PROVE  Shifted(s, len, i, e, t)
<1>1. /\ len \in Nat /\ Len(t) = len + 1 /\ t \in Seq(T)
      /\ \A j \in 1 .. len + 1 : t[j] = IF j < i THEN s[j] ELSE IF j = i THEN e ELSE s[j - 1]
  BY DEF Inserted
<1>2. i \in 1 .. Len(t) /\ t[i] = e
  BY <1>1
<1>3. ASSUME NEW j \in 1 .. len, j < i
      PROVE  j \in 1 .. Len(t) /\ t[j] = s[j]
  BY <1>1, <1>3
<1>4. ASSUME NEW j \in 1 .. len, ~(j < i)
      PROVE  j + 1 \in 1 .. Len(t) /\ t[j + 1] = s[j]
  <2>1. j + 1 \in 1 .. len + 1 /\ ~(j + 1 < i) /\ j + 1 # i /\ (j + 1) - 1 = j
    BY <1>1, <1>4
  <2> QED
    BY <1>1, <2>1
<1>5. ASSUME NEW j \in 1 .. Len(t), j < i
      PROVE  j \in 1 .. len /\ t[j] = s[j]
  BY <1>1, <1>5
<1>6. ASSUME NEW j \in 1 .. Len(t), j > i
      PROVE  j - 1 \in 1 .. len /\ t[j] = s[j - 1]
  <2>1. j \in 1 .. len + 1 /\ ~(j < i) /\ j # i /\ j - 1 \in 1 .. len
    BY <1>1, <1>6
  <2> QED
    BY <1>1, <2>1
<1> QED
  BY <1>1, <1>2, <1>3, <1>4, <1>5, <1>6 DEF Shifted

\* kk is the keys of k, sorted, and s, which adds one to the rank of the values not less.
WithKey(k, s, kk) ==
  /\ Sorted(kk)
  /\ \A i \in 1 .. Len(kk) : kk[i] = s \/ \E j \in 1 .. Len(k) : kk[i] = k[j]
  /\ \A i \in 1 .. Len(k) : \E j \in 1 .. Len(kk) : kk[j] = k[i]
  /\ \A w \in Int : Rank(kk, w) = IF s <= w THEN Rank(k, w) + 1 ELSE Rank(k, w)

\* A key inserted behind the smaller ones.
LEMMA KeyBetween ==
  ASSUME NEW k \in Seq(Int), Sorted(k), NEW s \in Int, NEW at \in 1 .. Len(k) + 1,
         \A i \in 1 .. Len(k) : k[i] # s, \A i \in 1 .. Len(k) : k[i] <= s <=> i < at,
         NEW kk, Inserted(Int, k, at, s, kk)
  PROVE  WithKey(k, s, kk)
<1>k. \A i, j \in 1 .. Len(k) : i < j => k[i] < k[j]
  BY DEF Sorted
<1>1. /\ kk \in Seq(Int) /\ Len(kk) = Len(k) + 1 /\ kk[at] = s
      /\ \A j \in 1 .. Len(k) + 1 :
           kk[j] = IF j < at THEN k[j] ELSE IF j = at THEN s ELSE k[j - 1]
  BY DEF Inserted
<1>2. ASSUME NEW i \in 1 .. Len(kk), i < at
      PROVE  i \in 1 .. Len(k) /\ kk[i] = k[i] /\ k[i] \in Int /\ k[i] < s
  <2>1. i \in 1 .. Len(k) /\ kk[i] = k[i] /\ k[i] \in Int
    BY <1>1, <1>2
  <2> QED
    BY <1>2, <2>1
<1>3. ASSUME NEW i \in 1 .. Len(kk), i > at
      PROVE  i - 1 \in 1 .. Len(k) /\ kk[i] = k[i - 1] /\ k[i - 1] \in Int /\ s < k[i - 1]
  <2>1. i - 1 \in 1 .. Len(k) /\ kk[i] = k[i - 1] /\ k[i - 1] \in Int
    BY <1>1, <1>3
  <2>2. ~(k[i - 1] <= s)
    BY <1>3, <2>1
  <2> QED
    BY <2>1, <2>2
<1>4. Sorted(kk)
  <2> SUFFICES ASSUME NEW i \in 1 .. Len(kk), NEW j \in 1 .. Len(kk), i < j
               PROVE  kk[i] < kk[j]
    BY DEF Sorted
  <2>1. CASE j < at
    <3>1. i \in 1 .. Len(k) /\ kk[i] = k[i] /\ j \in 1 .. Len(k) /\ kk[j] = k[j]
      BY <1>2, <2>1
    <3> QED
      BY <1>k, <3>1
  <2>2. CASE j = at
    BY <1>1, <1>2, <2>2
  <2>3. CASE j > at /\ i > at
    <3>1. /\ i - 1 \in 1 .. Len(k) /\ kk[i] = k[i - 1]
          /\ j - 1 \in 1 .. Len(k) /\ kk[j] = k[j - 1]
          /\ i - 1 < j - 1
      BY <1>3, <2>3
    <3> QED
      BY <1>k, <3>1
  <2>4. CASE j > at /\ i = at
    BY <1>1, <1>3, <2>4
  <2>5. CASE j > at /\ i < at
    <3>1. kk[i] \in Int /\ kk[i] < s
      BY <1>2, <2>5
    <3>2. kk[j] \in Int /\ s < kk[j]
      BY <1>3, <2>5
    <3> QED
      BY <3>1, <3>2
  <2> QED
    BY <1>1, <2>1, <2>2, <2>3, <2>4, <2>5
<1>5. /\ \A i \in 1 .. Len(kk) : kk[i] = s \/ \E j \in 1 .. Len(k) : kk[i] = k[j]
      /\ \A i \in 1 .. Len(k) : \E j \in 1 .. Len(kk) : kk[j] = k[i]
  <2>1. ASSUME NEW i \in 1 .. Len(kk)
        PROVE  kk[i] = s \/ \E j \in 1 .. Len(k) : kk[i] = k[j]
    <3>1. CASE i < at
      BY <1>2, <3>1
    <3>2. CASE i = at
      BY <1>1, <3>2
    <3>3. CASE i > at
      <4>1. i - 1 \in 1 .. Len(k) /\ kk[i] = k[i - 1]
        BY <1>3, <3>3
      <4> QED
        BY <4>1
    <3> QED
      BY <1>1, <3>1, <3>2, <3>3
  <2>2. ASSUME NEW i \in 1 .. Len(k)
        PROVE  \E j \in 1 .. Len(kk) : kk[j] = k[i]
    <3>1. CASE i < at
      <4>1. i \in 1 .. Len(kk) /\ kk[i] = k[i]
        BY <1>1, <1>2, <3>1
      <4> QED
        BY <4>1
    <3>2. CASE ~(i < at)
      <4>1. i + 1 \in 1 .. Len(kk) /\ i + 1 > at /\ i + 1 - 1 = i
        BY <1>1, <3>2
      <4>2. kk[i + 1] = k[i]
        BY <1>3, <4>1
      <4> QED
        BY <4>1, <4>2
    <3> QED
      BY <3>1, <3>2
  <2> QED
    BY <2>1, <2>2
<1>6. ASSUME NEW w \in Int
      PROVE  Rank(kk, w) = IF s <= w THEN Rank(k, w) + 1 ELSE Rank(k, w)
  <2> DEFINE r == Rank(k, w)
  <2>1. r \in 0 .. Len(k) /\ \A i \in 1 .. Len(k) : k[i] <= w <=> i <= r
    BY RankOfSorted
  <2> HIDE DEF r
  <2>4. CASE s <= w
    <3>1. at <= r + 1
      <4>1. CASE at = 1
        BY <2>1, <4>1
      <4>2. CASE at > 1
        <5>1. at - 1 \in 1 .. Len(k) /\ k[at - 1] \in Int /\ k[at - 1] <= s
          BY <4>2
        <5> QED
          BY <2>1, <2>4, <5>1
      <4> QED
        BY <4>1, <4>2
    <3>2. \A i \in 1 .. Len(kk) : kk[i] <= w <=> i <= r + 1
      <4> TAKE i \in 1 .. Len(kk)
      <4>1. CASE i < at
        <5>1. kk[i] \in Int /\ kk[i] <= w
          BY <1>2, <2>4, <4>1
        <5> QED
          BY <2>1, <3>1, <4>1, <5>1
      <4>2. CASE i = at
        BY <1>1, <2>1, <2>4, <3>1, <4>2
      <4>3. CASE i > at
        <5>1. i - 1 \in 1 .. Len(k) /\ kk[i] = k[i - 1]
          BY <1>3, <4>3
        <5>2. k[i - 1] <= w <=> i - 1 <= r
          BY <2>1, <5>1
        <5> QED
          BY <2>1, <5>1, <5>2
      <4> QED
        BY <1>1, <4>1, <4>2, <4>3
    <3>3. r + 1 \in 0 .. Len(kk)
      BY <1>1, <2>1
    <3>4. Rank(kk, w) = r + 1
      BY <1>1, <1>4, <3>2, <3>3, RankIs
    <3> QED
      BY <2>4, <3>4 DEF r
  <2>5. CASE ~(s <= w)
    <3>1. r < at
      <4> SUFFICES ASSUME at <= r PROVE FALSE
        BY <2>1
      <4>1. at \in 1 .. Len(k) /\ k[at] \in Int /\ k[at] <= w
        BY <2>1
      <4> QED
        BY <2>5, <4>1
    <3>2. \A i \in 1 .. Len(kk) : kk[i] <= w <=> i <= r
      <4> TAKE i \in 1 .. Len(kk)
      <4>1. CASE i < at
        <5>1. i \in 1 .. Len(k) /\ kk[i] = k[i]
          BY <1>2, <4>1
        <5> QED
          BY <2>1, <5>1
      <4>2. CASE i = at
        BY <1>1, <2>1, <2>5, <3>1, <4>2
      <4>3. CASE i > at
        <5>1. kk[i] = k[i - 1] /\ k[i - 1] \in Int /\ s < k[i - 1]
          BY <1>3, <4>3
        <5>2. ~(kk[i] <= w)
          BY <2>5, <5>1
        <5>3. ~(i <= r)
          BY <2>1, <3>1, <4>3
        <5> QED
          BY <5>2, <5>3
      <4> QED
        BY <1>1, <4>1, <4>2, <4>3
    <3>3. r \in 0 .. Len(kk)
      BY <1>1, <2>1
    <3>4. Rank(kk, w) = r
      BY <1>1, <1>4, <3>2, <3>3, RankIs
    <3> QED
      BY <2>5, <3>4 DEF r
  <2> QED
    BY <2>4, <2>5
<1> QED
  BY <1>4, <1>5, <1>6 DEF WithKey

\* The same of the insertion of the code.
LEMMA InsertKey ==
  ASSUME NEW k \in Seq(Int), Sorted(k), NEW s \in Int, \A i \in 1 .. Len(k) : k[i] # s
  PROVE  /\ Inserted(Int, k, Rank(k, s) + 1, s, InsertAt(k, Rank(k, s) + 1, s))
         /\ WithKey(k, s, InsertAt(k, Rank(k, s) + 1, s))
<1> DEFINE at == Rank(k, s) + 1
<1>1. at \in 1 .. Len(k) + 1 /\ \A i \in 1 .. Len(k) : k[i] <= s <=> i < at
  <2>1. /\ Rank(k, s) \in 0 .. Len(k)
        /\ \A i \in 1 .. Len(k) : k[i] <= s <=> i <= Rank(k, s)
    BY RankOfSorted
  <2> QED
    BY <2>1
<1> HIDE DEF at
<1>2. Inserted(Int, k, at, s, InsertAt(k, at, s))
  BY <1>1, InsertAtProperties
<1>3. WithKey(k, s, InsertAt(k, at, s))
  BY <1>1, <1>2, KeyBetween
<1> QED
  BY <1>2, <1>3 DEF at

\* The first m keys of a node, and the others.
LEMMA FirstKeys ==
  ASSUME NEW k \in Seq(Int), Sorted(k), NEW m \in 0 .. Len(k)
  PROVE  LET f == SubSeq(k, 1, m) IN
         /\ f \in Seq(Int) /\ Len(f) = m /\ \A i \in 1 .. m : f[i] = k[i]
         /\ Sorted(f)
         /\ \A w \in Int : Rank(f, w) = IF Rank(k, w) <= m THEN Rank(k, w) ELSE m
<1> DEFINE f == SubSeq(k, 1, m)
<1>1. f \in Seq(Int) /\ Len(f) = m /\ \A i \in 1 .. m : f[i] = k[i]
  OBVIOUS
<1> HIDE DEF f
<1>2. Sorted(f)
  <2>1. \A i \in 1 .. Len(f) : i \in 1 .. Len(k) /\ f[i] = k[i]
    BY <1>1
  <2> QED
    BY <2>1 DEF Sorted
<1>3. ASSUME NEW w \in Int
      PROVE  Rank(f, w) = IF Rank(k, w) <= m THEN Rank(k, w) ELSE m
  <2> DEFINE r == Rank(k, w)
  <2>1. r \in 0 .. Len(k) /\ \A i \in 1 .. Len(k) : k[i] <= w <=> i <= r
    BY RankOfSorted
  <2> HIDE DEF r
  <2>2. \A i \in 1 .. Len(f) : i \in 1 .. Len(k) /\ (f[i] <= w <=> i <= r)
    BY <1>1, <2>1, SMTT(30)
  <2>3. CASE r <= m
    <3>1. r \in 0 .. Len(f)
      BY <1>1, <2>1, <2>3
    <3>2. Rank(f, w) = r
      BY <1>1, <1>2, <2>2, <3>1, RankIs
    <3> QED
      BY <2>3, <3>2 DEF r
  <2>4. CASE ~(r <= m)
    <3>1. m \in 0 .. Len(f) /\ \A i \in 1 .. Len(f) : f[i] <= w <=> i <= m
      BY <1>1, <2>1, <2>2, <2>4
    <3>2. Rank(f, w) = m
      BY <1>1, <1>2, <3>1, RankIs
    <3> QED
      BY <2>4, <3>2 DEF r
  <2> QED
    BY <2>3, <2>4
<1> QED
  BY <1>1, <1>2, <1>3 DEF f

\* The keys from place m + 1 on, and the ranks in them.
LEMMA LastKeys ==
  ASSUME NEW k \in Seq(Int), Sorted(k), NEW m \in 0 .. Len(k)
  PROVE  LET l == SubSeq(k, m + 1, Len(k)) IN
         /\ l \in Seq(Int) /\ Len(l) = Len(k) - m /\ \A i \in 1 .. Len(k) - m : l[i] = k[m + i]
         /\ Sorted(l)
         /\ \A w \in Int : Rank(l, w) = IF Rank(k, w) <= m THEN 0 ELSE Rank(k, w) - m
<1> DEFINE l == SubSeq(k, m + 1, Len(k))
<1>1. l \in Seq(Int) /\ Len(l) = Len(k) - m /\ \A i \in 1 .. Len(k) - m : l[i] = k[m + i]
  OBVIOUS
<1> HIDE DEF l
<1>2. \A i \in 1 .. Len(l) : m + i \in 1 .. Len(k) /\ l[i] = k[m + i]
  BY <1>1
<1>3. Sorted(l)
  BY <1>2 DEF Sorted
<1>4. ASSUME NEW w \in Int
      PROVE  Rank(l, w) = IF Rank(k, w) <= m THEN 0 ELSE Rank(k, w) - m
  <2> DEFINE r == Rank(k, w)
  <2>1. r \in 0 .. Len(k) /\ \A i \in 1 .. Len(k) : k[i] <= w <=> i <= r
    BY RankOfSorted
  <2> HIDE DEF r
  <2>2. \A i \in 1 .. Len(l) : l[i] <= w <=> m + i <= r
    BY <1>2, <2>1
  <2>3. CASE r <= m
    <3>1. 0 \in 0 .. Len(l) /\ \A i \in 1 .. Len(l) : l[i] <= w <=> i <= 0
      BY <1>1, <2>1, <2>2, <2>3
    <3>2. Rank(l, w) = 0
      BY <1>1, <1>3, <3>1, RankIs
    <3> QED
      BY <2>3, <3>2 DEF r
  <2>4. CASE ~(r <= m)
    <3>1. r - m \in 0 .. Len(l) /\ \A i \in 1 .. Len(l) : l[i] <= w <=> i <= r - m
      BY <1>1, <2>1, <2>2, <2>4
    <3>2. Rank(l, w) = r - m
      BY <1>1, <1>3, <3>1, RankIs
    <3> QED
      BY <2>4, <3>2 DEF r
  <2> QED
    BY <2>3, <2>4
<1> QED
  BY <1>1, <1>3, <1>4 DEF l

-----------------------------------------------------------------------------
(* Trees.                                                                   *)

Cell == [isLeaf : BOOLEAN, k : Seq(Int), n : Seq(Nat), parent : Nat]

\* The part of a range that a search sends to the ith child of v.
Part(v, range, i) == {w \in range : Rank(v.k, w) = i - 1}

\* A node whose keys are in range.
Sound(v, range) ==
  /\ v \in Cell
  /\ Sorted(v.k)
  /\ \A i \in 1 .. Len(v.k) : v.k[i] \in range
  /\ Len(v.n) = IF v.isLeaf THEN Len(v.k) ELSE Len(v.k) + 1

\* The ith child of x.
ChildAt(D, nd, R, h, x, i) ==
  LET c == nd[x].n[i] IN
  /\ c \in D
  /\ nd[c].parent = x
  /\ h[x] = h[c] + 1
  /\ R[c] = Part(nd[x], R[x], i)
  /\ \A j \in 1 .. Len(nd[x].n) : nd[x].n[j] = c => j = i

\* The parent of x has it among its children.
HasParent(D, nd, x) ==
  /\ nd[x].parent \in D
  /\ ~nd[nd[x].parent].isLeaf
  /\ \E i \in 1 .. Len(nd[nd[x].parent].n) : nd[nd[x].parent].n[i] = x

\* The nodes nd of D form a tree with root rt: the keys with which a search reaches node x are
\* R[x], and h[x] is its height above the leaves.
TreeTypes(D, nd, rt, R, h) ==
  /\ D \subseteq Nat \ {0} /\ rt \in D
  /\ nd \in [D -> Cell] /\ R \in [D -> SUBSET Int] /\ h \in [D -> Nat]
  /\ R[rt] = Int

TreeNodes(D, nd, R, h) ==
  \A x \in D : Sound(nd[x], R[x]) /\ (nd[x].isLeaf <=> h[x] = 0)

TreeChildren(D, nd, rt, R, h) ==
  \A x \in D : ~nd[x].isLeaf =>
    \A i \in 1 .. Len(nd[x].n) : ChildAt(D, nd, R, h, x, i) /\ nd[x].n[i] # rt

TreeParents(D, nd, rt, h) ==
  \A x \in D \ {rt} : HasParent(D, nd, x) /\ h[x] < h[rt]

TreeApart(D, R, h) ==
  \A x, y \in D : x # y /\ h[x] = h[y] => R[x] \cap R[y] = {}

Tree(D, nd, rt, R, h) ==
  /\ TreeTypes(D, nd, rt, R, h)
  /\ TreeNodes(D, nd, R, h)
  /\ TreeChildren(D, nd, rt, R, h)
  /\ TreeParents(D, nd, rt, h)
  /\ TreeApart(D, R, h)

\* What x, of range, is split into: below sep and from sep on.
Low(range, sep)  == {w \in range : w < sep}
High(range, sep) == {w \in range : sep <= w}

Halves(v, range, rest, new, sep) ==
  /\ sep \in range /\ \E w \in range : w < sep
  /\ Sound(rest, Low(range, sep)) /\ Sound(new, High(range, sep))
  /\ rest.isLeaf = v.isLeaf /\ new.isLeaf = v.isLeaf
  /\ ~v.isLeaf =>
       /\ Len(v.n) = Len(rest.n) + Len(new.n)
       /\ \A i \in 1 .. Len(rest.n) : /\ rest.n[i] = v.n[i]
                                      /\ Part(rest, Low(range, sep), i) = Part(v, range, i)
       /\ \A i \in 1 .. Len(new.n) : /\ new.n[i] = v.n[Len(rest.n) + i]
                                     /\ Part(new, High(range, sep), i)
                                          = Part(v, range, Len(rest.n) + i)

Moves(new, y) == ~new.isLeaf /\ \E i \in 1 .. Len(new.n) : new.n[i] = y

SameBody(v, w) == v.isLeaf = w.isLeaf /\ v.k = w.k /\ v.n = w.n

\* nd2 is nd with x split into rest and new, which gets the number nid, under the parent pid.
Divided(D, nd, x, nid, pid, sep, rest, new, nd2) ==
  /\ nd2 \in [D \cup {nid} -> Cell]
  /\ SameBody(nd2[x], rest) /\ nd2[x].parent = pid
  /\ SameBody(nd2[nid], new) /\ nd2[nid].parent = pid
  /\ nd2[pid].isLeaf = nd[pid].isLeaf /\ nd2[pid].parent = nd[pid].parent
  /\ nd2[pid].k = InsertAt(nd[pid].k, Rank(nd[pid].k, sep) + 1, sep)
  /\ nd2[pid].n = InsertAt(nd[pid].n, Rank(nd[pid].k, sep) + 1 + 1, nid)
  /\ \A y \in D \ {x, pid} : SameBody(nd2[y], nd[y])
  /\ \A y \in D \ {x, pid} : nd2[y].parent = IF Moves(new, y) THEN nid ELSE nd[y].parent

RangesAfter(D, R, x, nid, sep) ==
  [y \in D \cup {nid} |-> IF y = x THEN Low(R[x], sep)
                          ELSE IF y = nid THEN High(R[x], sep) ELSE R[y]]

HeightsAfter(D, h, x, nid) == [y \in D \cup {nid} |-> IF y = nid THEN h[x] ELSE h[y]]

\* Part looks at the keys only.
LEMMA PartOfBody ==
  ASSUME NEW v, NEW u, SameBody(v, u), NEW range, NEW i
  PROVE  Part(v, range, i) = Part(u, range, i)
BY DEF Part, SameBody

\* The parts of a node a separator is inserted in: the one it is in is divided, the others
\* stay what they are.
LEMMA PartsAfter ==
  ASSUME NEW p \in Cell, Sorted(p.k), NEW range, range \subseteq Int,
         NEW sep \in range, NEW at, at = Rank(p.k, sep) + 1,
         NEW q, WithKey(p.k, sep, q.k), NEW i \in Nat \ {0}
  PROVE  /\ i < at => Part(q, range, i) = Part(p, range, i)
         /\ i = at => Part(q, range, i) = Low(Part(p, range, at), sep)
         /\ i = at + 1 => Part(q, range, i) = High(Part(p, range, at), sep)
         /\ i > at + 1 => Part(q, range, i) = Part(p, range, i - 1)
<1> DEFINE r(w) == Rank(p.k, w)
<1>1. \A w \in range : r(w) \in Nat
  BY RankOfSorted DEF Cell
<1>2. \A w \in range : /\ w < sep => r(w) <= r(sep)
                       /\ sep <= w => r(sep) <= r(w)
  <2> SUFFICES ASSUME NEW v \in Int, NEW w \in Int, v <= w PROVE r(v) <= r(w)
    BY DEF Cell
  <2>1. /\ r(v) \in 0 .. Len(p.k) /\ \A j \in 1 .. Len(p.k) : p.k[j] <= v <=> j <= r(v)
        /\ r(w) \in 0 .. Len(p.k) /\ \A j \in 1 .. Len(p.k) : p.k[j] <= w <=> j <= r(w)
    BY RankOfSorted DEF Cell
  <2> SUFFICES ASSUME r(v) > r(w) PROVE FALSE
    BY <2>1
  <2>2. r(v) \in 1 .. Len(p.k) /\ p.k[r(v)] \in Int
    BY <2>1 DEF Cell
  <2>3. p.k[r(v)] <= v /\ ~(p.k[r(v)] <= w)
    BY <2>1, <2>2
  <2> QED
    BY <2>2, <2>3
<1>3. \A w \in range : Rank(q.k, w) = IF sep <= w THEN r(w) + 1 ELSE r(w)
  BY DEF WithKey
<1>4. at = r(sep) + 1
  OBVIOUS
<1> HIDE DEF r
<1>5. \A w \in range : w \in Int
  OBVIOUS
<1>6. ASSUME i < at PROVE Part(q, range, i) = Part(p, range, i)
  <2>1. \A w \in range : Rank(q.k, w) = i - 1 <=> r(w) = i - 1
    BY <1>1, <1>2, <1>3, <1>4, <1>5, <1>6
  <2> QED
    BY <2>1 DEF Part, r
<1>7. ASSUME i = at PROVE Part(q, range, i) = Low(Part(p, range, at), sep)
  <2>1. \A w \in range : Rank(q.k, w) = i - 1 <=> r(w) = at - 1 /\ w < sep
    BY <1>1, <1>2, <1>3, <1>4, <1>5, <1>7
  <2> QED
    BY <2>1 DEF Part, Low, r
<1>8. ASSUME i = at + 1 PROVE Part(q, range, i) = High(Part(p, range, at), sep)
  <2>1. \A w \in range : Rank(q.k, w) = i - 1 <=> r(w) = at - 1 /\ sep <= w
    BY <1>1, <1>2, <1>3, <1>4, <1>5, <1>8
  <2> QED
    BY <2>1 DEF Part, High, r
<1>9. ASSUME i > at + 1 PROVE Part(q, range, i) = Part(p, range, i - 1)
  <2>1. \A w \in range : Rank(q.k, w) = i - 1 <=> r(w) = (i - 1) - 1
    BY <1>1, <1>2, <1>3, <1>4, <1>5, <1>9
  <2> QED
    BY <2>1 DEF Part, r
<1> QED
  BY <1>6, <1>7, <1>8, <1>9

\* The parent of a node that is split, and the place of the node in it.
LEMMA PlaceInParent ==
  ASSUME NEW D, NEW nd, NEW rt, NEW R, NEW h, Tree(D, nd, rt, R, h),
         NEW x \in D \ {rt}, NEW sep \in R[x], \E w \in R[x] : w < sep,
         NEW pid, pid = nd[x].parent
  PROVE  /\ pid \in D \ {x} /\ ~nd[pid].isLeaf /\ h[pid] = h[x] + 1
         /\ Rank(nd[pid].k, sep) + 1 \in 1 .. Len(nd[pid].n)
         /\ nd[pid].n[Rank(nd[pid].k, sep) + 1] = x
         /\ R[x] = Part(nd[pid], R[pid], Rank(nd[pid].k, sep) + 1)
         /\ \A i \in 1 .. Len(nd[pid].k) : nd[pid].k[i] # sep
<1>1. PICK i \in 1 .. Len(nd[pid].n) : nd[pid].n[i] = x
  BY DEF Tree, TreeParents, HasParent
<1>2. pid \in D /\ ~nd[pid].isLeaf
  BY DEF Tree, TreeParents, HasParent
<1>3. ChildAt(D, nd, R, h, pid, i)
  BY <1>1, <1>2 DEF Tree, TreeChildren
<1>4. h[pid] = h[x] + 1 /\ R[x] = Part(nd[pid], R[pid], i)
  BY <1>1, <1>3 DEF ChildAt
<1>5. h[x] \in Nat /\ h[pid] \in Nat /\ nd[pid] \in Cell
  BY <1>2 DEF Tree, TreeTypes
<1>6. i \in Nat \ {0} /\ Rank(nd[pid].k, sep) = i - 1 /\ sep \in R[pid]
  BY <1>1, <1>4, <1>5 DEF Part, Cell
<1>7. Rank(nd[pid].k, sep) \in Int
  BY <1>6
<1>8. ASSUME NEW j \in 1 .. Len(nd[pid].k), nd[pid].k[j] = sep
      PROVE  FALSE
  <2>1. Sorted(nd[pid].k) /\ nd[pid].k \in Seq(Int) /\ R[pid] \subseteq Int
    BY <1>2, <1>5 DEF Tree, TreeTypes, TreeNodes, Sound, Cell
  <2>2. PICK w \in R[x] : w < sep
    OBVIOUS
  <2>3. w \in Int /\ sep \in Int /\ Rank(nd[pid].k, w) = i - 1
    BY <1>4, <1>6, <2>1 DEF Part
  <2>4. sep <= sep => j <= i - 1
    BY <1>6, <1>8, <2>1, <2>3, RankOfSorted
  <2>5. nd[pid].k[j] <= w <=> j <= i - 1
    BY <2>1, <2>3, RankOfSorted
  <2> QED
    BY <1>8, <2>2, <2>3, <2>4, <2>5
<1> QED
  BY <1>1, <1>2, <1>4, <1>5, <1>6, <1>8

\* Splitting a node that is not the root leaves a tree.
LEMMA SplitTree ==
  ASSUME NEW D, NEW nd, NEW rt, NEW R, NEW h, Tree(D, nd, rt, R, h),
         NEW x \in D \ {rt}, NEW nid \in Nat \ {0}, nid \notin D,
         NEW rest, NEW new, NEW sep, Halves(nd[x], R[x], rest, new, sep),
         NEW pid, pid = nd[x].parent,
         NEW nd2, Divided(D, nd, x, nid, pid, sep, rest, new, nd2)
  PROVE  Tree(D \cup {nid}, nd2, rt, RangesAfter(D, R, x, nid, sep), HeightsAfter(D, h, x, nid))
<1> DEFINE D2 == D \cup {nid}
           R2 == RangesAfter(D, R, x, nid, sep)
           h2 == HeightsAfter(D, h, x, nid)
           at == Rank(nd[pid].k, sep) + 1
<1>1. /\ pid \in D \ {x} /\ ~nd[pid].isLeaf /\ h[pid] = h[x] + 1
      /\ at \in 1 .. Len(nd[pid].n) /\ nd[pid].n[at] = x
      /\ R[x] = Part(nd[pid], R[pid], at)
      /\ \A i \in 1 .. Len(nd[pid].k) : nd[pid].k[i] # sep
  BY PlaceInParent DEF Halves
<1>2. /\ D \subseteq Nat \ {0} /\ rt \in D
      /\ nd \in [D -> Cell] /\ R \in [D -> SUBSET Int] /\ h \in [D -> Nat]
      /\ R[rt] = Int
  BY DEF Tree, TreeTypes
<1>3. sep \in R[x] /\ sep \in Int
  BY <1>2 DEF Halves
<1>4. /\ nd2 \in [D2 -> Cell]
      /\ SameBody(nd2[x], rest) /\ nd2[x].parent = pid
      /\ SameBody(nd2[nid], new) /\ nd2[nid].parent = pid
      /\ nd2[pid].isLeaf = nd[pid].isLeaf /\ nd2[pid].parent = nd[pid].parent
      /\ nd2[pid].k = InsertAt(nd[pid].k, at, sep)
      /\ nd2[pid].n = InsertAt(nd[pid].n, at + 1, nid)
  BY DEF Divided
<1>5. /\ \A y \in D \ {x, pid} : SameBody(nd2[y], nd[y])
      /\ \A y \in D \ {x, pid} : nd2[y].parent = IF Moves(new, y) THEN nid ELSE nd[y].parent
  BY DEF Divided
<1>6. /\ R2 \in [D2 -> SUBSET Int] /\ h2 \in [D2 -> Nat]
      /\ R2[x] = Low(R[x], sep) /\ R2[nid] = High(R[x], sep)
      /\ \A y \in D \ {x} : R2[y] = R[y]
      /\ \A y \in D : h2[y] = h[y]
      /\ h2[nid] = h[x]
  BY <1>2 DEF RangesAfter, HeightsAfter, Low, High
<1>7. /\ Inserted(Int, nd[pid].k, at, sep, nd2[pid].k) /\ WithKey(nd[pid].k, sep, nd2[pid].k)
      /\ sep \in R[pid]
  <2>1. nd[pid].k \in Seq(Int) /\ Sorted(nd[pid].k)
    BY <1>1, <1>2 DEF Tree, TreeNodes, Sound, Cell
  <2>2. sep \in R[pid]
    BY <1>1, <1>3 DEF Part
  <2> QED
    BY <1>1, <1>3, <1>4, <2>1, <2>2, InsertKey
<1>8. /\ Inserted(Nat, nd[pid].n, at + 1, nid, nd2[pid].n)
      /\ nd[pid].n \in Seq(Nat) /\ at \in Nat /\ at + 1 \in 1 .. Len(nd[pid].n) + 1
  <2>1. nd[pid].n \in Seq(Nat)
    BY <1>1, <1>2 DEF Cell
  <2> HIDE DEF at
  <2>2. Len(nd[pid].n) \in Nat
    BY <2>1
  <2>3. at \in Nat /\ at + 1 \in 1 .. Len(nd[pid].n) + 1
    BY <1>1, <2>2
  <2> QED
    BY <1>4, <2>1, <2>3, InsertAtProperties
<1> HIDE DEF D2, R2, h2, at
<1>9. TreeTypes(D2, nd2, rt, R2, h2)
  <2>1. R2[rt] = Int
    BY <1>2, <1>6
  <2> QED
    BY <1>2, <1>4, <1>6, <2>1 DEF TreeTypes, D2
<1>10. TreeNodes(D2, nd2, R2, h2)
  <2>1. ASSUME NEW u, NEW v, SameBody(u, v), u \in Cell, NEW range, Sound(v, range)
        PROVE  Sound(u, range)
    BY <2>1 DEF Sound, SameBody
  <2>2. Sound(nd2[x], R2[x]) /\ Sound(nd2[nid], R2[nid])
    BY <1>4, <1>6, <2>1 DEF Halves, D2
  <2>3. (nd2[x].isLeaf <=> h2[x] = 0) /\ (nd2[nid].isLeaf <=> h2[nid] = 0)
    BY <1>4, <1>6 DEF Halves, SameBody, Tree, TreeNodes
  <2>4. Sound(nd2[pid], R2[pid]) /\ (nd2[pid].isLeaf <=> h2[pid] = 0)
    <3>1. Sound(nd[pid], R[pid]) /\ (nd[pid].isLeaf <=> h[pid] = 0) /\ R2[pid] = R[pid]
      BY <1>1, <1>6 DEF Tree, TreeNodes
    <3>2. nd2[pid] \in Cell /\ Sorted(nd2[pid].k)
      BY <1>1, <1>4, <1>7 DEF WithKey, D2
    <3>3. \A i \in 1 .. Len(nd2[pid].k) : nd2[pid].k[i] \in R[pid]
      BY <1>7, <3>1 DEF WithKey, Sound
    <3>4. Len(nd2[pid].n) = Len(nd2[pid].k) + 1
      BY <1>1, <1>7, <1>8, <3>1 DEF Inserted, Sound, Cell
    <3> QED
      BY <1>1, <1>4, <1>6, <3>1, <3>2, <3>3, <3>4 DEF Sound
  <2>5. ASSUME NEW y \in D \ {x, pid}
        PROVE  Sound(nd2[y], R2[y]) /\ (nd2[y].isLeaf <=> h2[y] = 0)
    <3>1. Sound(nd[y], R[y]) /\ (nd[y].isLeaf <=> h[y] = 0)
      BY DEF Tree, TreeNodes
    <3>2. nd2[y] \in Cell /\ SameBody(nd2[y], nd[y]) /\ R2[y] = R[y] /\ h2[y] = h[y]
      BY <1>4, <1>5, <1>6 DEF D2
    <3> QED
      BY <2>1, <3>1, <3>2 DEF SameBody
  <2> QED
    BY <2>2, <2>3, <2>4, <2>5 DEF TreeNodes, D2
<1> DEFINE la == Len(rest.n)
           lb == Len(new.n)
           lx == Len(nd[x].n)
           len == Len(nd[pid].n)
<1>a. ASSUME ~nd[x].isLeaf
      PROVE  /\ la \in Nat /\ lb \in Nat /\ lx = la + lb /\ ~new.isLeaf /\ ~rest.isLeaf
             /\ \A j \in 1 .. la : /\ rest.n[j] = nd[x].n[j]
                                   /\ Part(rest, Low(R[x], sep), j) = Part(nd[x], R[x], j)
             /\ \A j \in 1 .. lb : /\ new.n[j] = nd[x].n[la + j]
                                   /\ Part(new, High(R[x], sep), j) = Part(nd[x], R[x], la + j)
  <2>1. la \in Nat /\ lb \in Nat
    BY DEF Halves, Sound, Cell
  <2> QED
    BY <1>a, <2>1 DEF Halves
<1> HIDE DEF la, lb, lx
<1>b. ASSUME ~nd[x].isLeaf
      PROVE  /\ \A j \in 1 .. la : j \in 1 .. lx /\ j <= la
             /\ \A j \in 1 .. lb : la + j \in 1 .. lx /\ ~(la + j <= la)
             /\ \A i, j \in 1 .. lb : la + i = la + j => i = j
             /\ \A i \in 1 .. lx : ~(i <= la) => i - la \in 1 .. lb /\ la + (i - la) = i
  <2>1. la \in Nat /\ lb \in Nat /\ lx = la + lb
    BY <1>a, <1>b
  <2> QED
    BY <2>1
<1>c. ASSUME NEW y, Moves(new, y)
      PROVE  ~nd[x].isLeaf /\ \E i \in 1 .. lx : nd[x].n[i] = y /\ ~(i <= la)
  <2>1. ~new.isLeaf /\ ~nd[x].isLeaf
    BY <1>c DEF Moves, Halves
  <2>2. PICK l \in 1 .. lb : new.n[l] = y
    BY <1>c DEF Moves, lb
  <2>3. la + l \in 1 .. lx /\ ~(la + l <= la) /\ nd[x].n[la + l] = y
    BY <1>a, <1>b, <2>1, <2>2
  <2> QED
    BY <2>1, <2>3
<1>d. /\ len \in Nat /\ Len(nd2[pid].n) = len + 1 /\ nd2[pid].n[at + 1] = nid
      /\ at + 1 \in 1 .. Len(nd2[pid].n) /\ at \in 1 .. len
      /\ \A j \in 1 .. len :
           /\ j < at + 1 => j \in 1 .. Len(nd2[pid].n) /\ nd2[pid].n[j] = nd[pid].n[j]
           /\ ~(j < at + 1) => /\ j + 1 \in 1 .. Len(nd2[pid].n)
                               /\ nd2[pid].n[j + 1] = nd[pid].n[j]
      /\ \A j \in 1 .. Len(nd2[pid].n) :
           /\ j < at + 1 => j \in 1 .. len /\ nd2[pid].n[j] = nd[pid].n[j]
           /\ j > at + 1 => j - 1 \in 1 .. len /\ nd2[pid].n[j] = nd[pid].n[j - 1]
  <2>1. at \in 1 .. len
    BY <1>1
  <2>2. nd[pid].n \in Seq(Nat) /\ at + 1 \in 1 .. len + 1
    BY <1>8
  <2> HIDE DEF len
  <2>3. len = Len(nd[pid].n)
    BY DEF len
  <2>4. Shifted(nd[pid].n, len, at + 1, nid, nd2[pid].n)
    BY <1>8, <2>2, <2>3, InsertedElements
  <2> QED
    BY <2>1, <2>4 DEF Shifted
<1> HIDE DEF len
<1>11. ASSUME ~nd[x].isLeaf, NEW i \in 1 .. lx, NEW c, c = nd[x].n[i]
       PROVE  /\ c \in D \ {x, pid} /\ c # rt /\ c # nid
              /\ nd[c].parent = x /\ h[x] = h[c] + 1 /\ R[c] = Part(nd[x], R[x], i)
              /\ \A j \in 1 .. lx : nd[x].n[j] = c => j = i
              /\ R2[c] = R[c] /\ h2[c] = h[c]
              /\ SameBody(nd2[c], nd[c])
              /\ nd2[c].parent = IF i <= la THEN x ELSE nid
  <2>1. ChildAt(D, nd, R, h, x, i) /\ c # rt
    BY <1>11 DEF Tree, TreeChildren, lx
  <2>2. /\ c \in D /\ nd[c].parent = x /\ h[x] = h[c] + 1 /\ R[c] = Part(nd[x], R[x], i)
        /\ \A j \in 1 .. lx : nd[x].n[j] = c => j = i
    BY <1>11, <2>1 DEF ChildAt, lx
  <2>3. c # x /\ c # pid
    BY <1>1, <1>2, <2>2
  <2>4. CASE i <= la
    <3>1. ~Moves(new, c)
      BY <1>c, <2>2, <2>4
    <3> QED
      BY <1>5, <1>6, <2>1, <2>2, <2>3, <2>4, <3>1
  <2>5. CASE ~(i <= la)
    <3>1. i - la \in 1 .. lb /\ new.n[i - la] = c /\ ~new.isLeaf
      BY <1>11, <1>a, <1>b, <2>5
    <3>2. Moves(new, c)
      BY <3>1 DEF Moves, lb
    <3> QED
      BY <1>5, <1>6, <2>1, <2>2, <2>3, <2>5, <3>2
  <2> QED
    BY <2>4, <2>5
<1>12. ASSUME ~nd[x].isLeaf, NEW i \in 1 .. la
       PROVE  ChildAt(D2, nd2, R2, h2, x, i) /\ nd2[x].n[i] # rt
  <2>1. /\ i \in 1 .. lx /\ i <= la /\ rest.n[i] = nd[x].n[i]
        /\ Part(rest, Low(R[x], sep), i) = Part(nd[x], R[x], i)
    BY <1>12, <1>a, <1>b
  <2>2. nd2[x].n = rest.n /\ Part(nd2[x], R2[x], i) = Part(nd[x], R[x], i)
    BY <1>4, <1>6, <2>1, PartOfBody DEF SameBody
  <2>3. PICK c : c = nd[x].n[i]
    OBVIOUS
  <2>4. nd2[x].n[i] = c
    BY <2>1, <2>2, <2>3
  <2>5. /\ c \in D \ {x, pid} /\ c # rt
        /\ h[x] = h[c] + 1 /\ R[c] = Part(nd[x], R[x], i)
        /\ \A j \in 1 .. lx : nd[x].n[j] = c => j = i
        /\ R2[c] = R[c] /\ h2[c] = h[c] /\ nd2[c].parent = x
    BY <1>11, <1>12, <2>1, <2>3
  <2>6. \A j \in 1 .. Len(nd2[x].n) : nd2[x].n[j] = c => j = i
    <3>1. \A j \in 1 .. la : j \in 1 .. lx /\ rest.n[j] = nd[x].n[j]
      BY <1>12, <1>a, <1>b
    <3> QED
      BY <2>2, <2>5, <3>1 DEF la
  <2>7. h2[x] = h2[c] + 1
    BY <1>6, <2>5
  <2> QED
    BY <2>2, <2>4, <2>5, <2>6, <2>7 DEF ChildAt, D2
<1>13. ASSUME ~nd[x].isLeaf, NEW i \in 1 .. lb
       PROVE  ChildAt(D2, nd2, R2, h2, nid, i) /\ nd2[nid].n[i] # rt
  <2>1. /\ la + i \in 1 .. lx /\ ~(la + i <= la) /\ new.n[i] = nd[x].n[la + i]
        /\ Part(new, High(R[x], sep), i) = Part(nd[x], R[x], la + i)
    BY <1>13, <1>a, <1>b
  <2>2. nd2[nid].n = new.n /\ Part(nd2[nid], R2[nid], i) = Part(nd[x], R[x], la + i)
    <3>1. nd2[nid].n = new.n /\ SameBody(nd2[nid], new)
      BY <1>4 DEF SameBody
    <3>2. Part(nd2[nid], R2[nid], i) = Part(new, High(R[x], sep), i)
      BY <1>6, <3>1, PartOfBody
    <3> QED
      BY <2>1, <3>1, <3>2
  <2>3. PICK c : c = nd[x].n[la + i]
    OBVIOUS
  <2>4. nd2[nid].n[i] = c
    BY <2>1, <2>2, <2>3
  <2>5. /\ c \in D \ {x, pid} /\ c # rt
        /\ h[x] = h[c] + 1 /\ R[c] = Part(nd[x], R[x], la + i)
        /\ \A j \in 1 .. lx : nd[x].n[j] = c => j = la + i
        /\ R2[c] = R[c] /\ h2[c] = h[c] /\ nd2[c].parent = nid
    BY <1>11, <1>13, <2>1, <2>3
  <2>6. \A j \in 1 .. Len(nd2[nid].n) : nd2[nid].n[j] = c => j = i
    <3> SUFFICES ASSUME NEW j \in 1 .. lb, new.n[j] = c PROVE j = i
      BY <2>2 DEF lb
    <3>1. la + j \in 1 .. lx /\ nd[x].n[la + j] = c
      BY <1>13, <1>a, <1>b
    <3>2. la + j = la + i
      BY <2>5, <3>1
    <3> QED
      BY <1>13, <1>b, <3>2
  <2>7. h2[nid] = h2[c] + 1
    BY <1>6, <2>5
  <2> QED
    BY <2>2, <2>4, <2>5, <2>6, <2>7 DEF ChildAt, D2
<1>14. ASSUME NEW j \in 1 .. len
       PROVE  /\ nd[pid].n[j] \in D \ {pid} /\ nd[pid].n[j] # rt /\ nd[pid].n[j] # nid
              /\ nd[nd[pid].n[j]].parent = pid /\ h[pid] = h[nd[pid].n[j]] + 1
              /\ R[nd[pid].n[j]] = Part(nd[pid], R[pid], j)
              /\ \A l \in 1 .. len : nd[pid].n[l] = nd[pid].n[j] => l = j
              /\ nd2[nd[pid].n[j]].parent = pid
  <2> DEFINE c == nd[pid].n[j]
  <2>1. ChildAt(D, nd, R, h, pid, j) /\ c # rt
    BY <1>1 DEF Tree, TreeChildren, len
  <2>2. /\ c \in D /\ nd[c].parent = pid /\ h[pid] = h[c] + 1 /\ R[c] = Part(nd[pid], R[pid], j)
        /\ \A l \in 1 .. len : nd[pid].n[l] = c => l = j
    BY <2>1 DEF ChildAt, len
  <2> HIDE DEF c
  <2>3. c # pid
    <3>1. h[c] \in Nat
      BY <1>2, <2>2
    <3> QED
      BY <2>2, <3>1
  <2>4. nd2[c].parent = pid
    <3>1. CASE c = x
      BY <1>4, <3>1
    <3>2. CASE c # x
      <4>1. ~Moves(new, c)
        <5> SUFFICES ASSUME Moves(new, c) PROVE FALSE
          OBVIOUS
        <5>1. nd[c].parent = x
          BY <1>11, <1>c
        <5> QED
          BY <1>1, <2>2, <5>1
      <4> QED
        BY <1>5, <2>2, <2>3, <3>2, <4>1
    <3> QED
      BY <3>1, <3>2
  <2> QED
    BY <2>1, <2>2, <2>3, <2>4 DEF c
<1>15. ASSUME NEW i \in 1 .. Len(nd2[pid].n)
       PROVE  ChildAt(D2, nd2, R2, h2, pid, i) /\ nd2[pid].n[i] # rt
  <2> DEFINE p == nd[pid]
  <2>1. /\ p \in Cell /\ Sorted(p.k) /\ R[pid] \subseteq Int /\ sep \in R[pid]
        /\ at = Rank(p.k, sep) + 1 /\ WithKey(p.k, sep, nd2[pid].k)
    BY <1>1, <1>2, <1>7 DEF Tree, TreeNodes, Sound, at
  <2>2. /\ i < at => Part(nd2[pid], R[pid], i) = Part(p, R[pid], i)
        /\ i = at => Part(nd2[pid], R[pid], i) = Low(Part(p, R[pid], at), sep)
        /\ i = at + 1 => Part(nd2[pid], R[pid], i) = High(Part(p, R[pid], at), sep)
        /\ i > at + 1 => Part(nd2[pid], R[pid], i) = Part(p, R[pid], i - 1)
    <3>1. i \in Nat \ {0}
      OBVIOUS
    <3> QED
      BY <2>1, <3>1, PartsAfter
  <2>4. R2[pid] = R[pid] /\ h2[pid] = h[pid] /\ h[pid] = h[x] + 1 /\ R[x] = Part(p, R[pid], at)
    BY <1>1, <1>6
  <2>5. ASSUME NEW j \in 1 .. len, NEW l \in 1 .. Len(nd2[pid].n),
               nd2[pid].n[l] = p.n[j]
        PROVE  l = IF j < at + 1 THEN j ELSE j + 1
    <3>1. \A m \in 1 .. len : p.n[m] = p.n[j] => m = j
      BY <1>14
    <3>2. p.n[j] # nid
      BY <1>14
    <3>3. CASE l < at + 1
      <4>1. l \in 1 .. len /\ p.n[l] = p.n[j]
        BY <1>d, <2>5, <3>3
      <4> QED
        BY <3>1, <3>3, <4>1
    <3>4. CASE l = at + 1
      BY <1>d, <2>5, <3>2, <3>4
    <3>5. CASE l > at + 1
      <4>1. l - 1 \in 1 .. len /\ p.n[l - 1] = p.n[j]
        BY <1>d, <2>5, <3>5
      <4>2. l - 1 = j
        BY <3>1, <4>1
      <4>3. ~(j < at + 1) /\ l = j + 1
        BY <1>8, <3>5, <4>2
      <4> QED
        BY <4>3
    <3> QED
      BY <1>8, <1>d, <3>3, <3>4, <3>5
  <2>6. ASSUME NEW j \in 1 .. len, i = (IF j < at + 1 THEN j ELSE j + 1),
               R2[p.n[j]] = Part(nd2[pid], R2[pid], i)
        PROVE  ChildAt(D2, nd2, R2, h2, pid, i) /\ nd2[pid].n[i] # rt
    <3>1. nd2[pid].n[i] = p.n[j]
      BY <1>d, <2>6
    <3>2. /\ p.n[j] \in D /\ p.n[j] # rt /\ h[pid] = h[p.n[j]] + 1
          /\ nd2[p.n[j]].parent = pid
      BY <1>14
    <3>3. h2[pid] = h2[p.n[j]] + 1
      BY <1>6, <2>4, <3>2
    <3>4. \A l \in 1 .. Len(nd2[pid].n) : nd2[pid].n[l] = p.n[j] => l = i
      BY <1>d, <2>5, <2>6
    <3> QED
      BY <2>6, <3>1, <3>2, <3>3, <3>4 DEF ChildAt, D2
  <2>7. CASE i < at
    <3>0. at \in 1 .. len /\ p.n[at] = x /\ i < at + 1 /\ i # at
      BY <1>1, <1>8, <1>d, <2>7
    <3>1. i \in 1 .. len /\ i < at + 1 /\ p.n[i] # x
      <4>1. i \in 1 .. len
        BY <1>d, <3>0
      <4>2. \A l \in 1 .. len : p.n[l] = p.n[i] => l = i
        BY <1>14, <4>1
      <4> QED
        BY <3>0, <4>1, <4>2
    <3>2. R2[p.n[i]] = Part(nd2[pid], R2[pid], i)
      BY <1>6, <1>14, <2>2, <2>4, <2>7, <3>1, ZenonT(40)
    <3> QED
      BY <2>6, <3>1, <3>2
  <2>8. CASE i = at
    <3>1. i \in 1 .. len /\ i < at + 1 /\ p.n[i] = x
      BY <1>1, <1>8, <1>d, <2>8
    <3>2. R2[x] = Low(Part(p, R[pid], at), sep)
      BY <1>6, <2>4
    <3>3. R2[p.n[i]] = Part(nd2[pid], R2[pid], i)
      BY <2>2, <2>4, <2>8, <3>1, <3>2
    <3> QED
      BY <2>6, <3>1, <3>3
  <2>9. CASE i = at + 1
    <3>1. nd2[pid].n[i] = nid
      BY <1>d, <2>9
    <3>2. R2[nid] = Part(nd2[pid], R2[pid], i)
      BY <1>6, <2>2, <2>4, <2>9
    <3>3. \A l \in 1 .. Len(nd2[pid].n) : nd2[pid].n[l] = nid => l = i
      <4> SUFFICES ASSUME NEW l \in 1 .. Len(nd2[pid].n), nd2[pid].n[l] = nid, l # at + 1
                   PROVE  FALSE
        BY <2>9
      <4>1. CASE l < at + 1
        BY <1>14, <1>d, <4>1
      <4>2. CASE l > at + 1
        <5>1. l - 1 \in 1 .. len /\ nd2[pid].n[l] = p.n[l - 1]
          BY <1>d, <4>2
        <5> QED
          BY <1>14, <5>1
      <4> QED
        BY <1>8, <1>d, <4>1, <4>2
    <3>4. h2[pid] = h2[nid] + 1 /\ nd2[nid].parent = pid /\ nid # rt
      BY <1>2, <1>4, <1>6, <2>4
    <3> QED
      BY <3>1, <3>2, <3>3, <3>4 DEF ChildAt, D2
  <2>10. CASE i > at + 1
    <3>1. i - 1 \in 1 .. len
      BY <1>d, <2>10
    <3>2. ~(i - 1 < at + 1) /\ (i - 1) + 1 = i /\ i - 1 # at
      BY <1>8, <1>d, <2>10
    <3>3. p.n[i - 1] # x
      <4>1. at \in 1 .. len /\ p.n[at] = x
        BY <1>1, <1>8, <1>d
      <4>2. \A l \in 1 .. len : p.n[l] = p.n[i - 1] => l = i - 1
        BY <1>14, <3>1
      <4> QED
        BY <3>2, <4>1, <4>2
    <3>4. R2[p.n[i - 1]] = Part(nd2[pid], R2[pid], i)
      BY <1>6, <1>14, <2>2, <2>4, <2>10, <3>1, <3>3, ZenonT(40)
    <3> QED
      BY <2>6, <3>1, <3>2, <3>4
  <2> QED
    BY <1>8, <1>d, <2>7, <2>8, <2>9, <2>10
<1>16. ASSUME NEW y \in D \ {x, pid}, ~nd[y].isLeaf, NEW i \in 1 .. Len(nd[y].n)
       PROVE  ChildAt(D2, nd2, R2, h2, y, i) /\ nd2[y].n[i] # rt
  <2> DEFINE c == nd[y].n[i]
  <2>1. ChildAt(D, nd, R, h, y, i) /\ c # rt
    BY <1>16 DEF Tree, TreeChildren
  <2>2. /\ c \in D /\ nd[c].parent = y /\ h[y] = h[c] + 1 /\ R[c] = Part(nd[y], R[y], i)
        /\ \A l \in 1 .. Len(nd[y].n) : nd[y].n[l] = c => l = i
    BY <2>1 DEF ChildAt
  <2>3. SameBody(nd2[y], nd[y]) /\ nd2[y].n = nd[y].n /\ R2[y] = R[y] /\ h2[y] = h[y]
    BY <1>5, <1>6 DEF SameBody
  <2> HIDE DEF c
  <2>4. c # x
    BY <1>16, <2>2
  <2>5. nd2[c].parent = y
    <3>1. CASE c = pid
      BY <1>4, <2>2, <3>1
    <3>2. CASE c # pid
      <4>1. ~Moves(new, c)
        <5> SUFFICES ASSUME Moves(new, c) PROVE FALSE
          OBVIOUS
        <5>1. nd[c].parent = x
          BY <1>11, <1>c
        <5> QED
          BY <1>16, <2>2, <5>1
      <4> QED
        BY <1>5, <2>2, <2>4, <3>2, <4>1
    <3> QED
      BY <3>1, <3>2
  <2>6. R2[c] = Part(nd2[y], R2[y], i) /\ h2[y] = h2[c] + 1
    BY <1>6, <2>2, <2>3, <2>4, PartOfBody
  <2>7. nd2[y].n[i] = c
    BY <2>3 DEF c
  <2> QED
    BY <2>1, <2>2, <2>3, <2>5, <2>6, <2>7 DEF ChildAt, D2
<1>17. TreeChildren(D2, nd2, rt, R2, h2)
  <2> SUFFICES ASSUME NEW y \in D2, ~nd2[y].isLeaf, NEW i \in 1 .. Len(nd2[y].n)
               PROVE  ChildAt(D2, nd2, R2, h2, y, i) /\ nd2[y].n[i] # rt
    BY DEF TreeChildren
  <2>1. CASE y = x
    BY <1>4, <1>12, <2>1 DEF SameBody, Halves, la
  <2>2. CASE y = nid
    BY <1>4, <1>13, <2>2 DEF SameBody, Halves, lb
  <2>3. CASE y = pid
    BY <1>15, <2>3
  <2>4. CASE y \in D \ {x, pid}
    <3>1. nd2[y].isLeaf = nd[y].isLeaf /\ nd2[y].n = nd[y].n
      BY <1>5, <2>4 DEF SameBody
    <3> QED
      BY <1>16, <2>4, <3>1
  <2> QED
    BY <2>1, <2>2, <2>3, <2>4 DEF D2
<1>19. ASSUME NEW y \in D2 \ {rt}
       PROVE  HasParent(D2, nd2, y) /\ h2[y] < h2[rt]
  <2>1. CASE y = x
    <3>1. at \in 1 .. Len(nd2[pid].n) /\ nd2[pid].n[at] = x
      BY <1>1, <1>8, <1>d
    <3>2. h[x] < h[rt]
      BY DEF Tree, TreeParents
    <3> QED
      BY <1>1, <1>2, <1>4, <1>6, <2>1, <3>1, <3>2 DEF HasParent, D2
  <2>2. CASE y = nid
    <3>1. at + 1 \in 1 .. Len(nd2[pid].n) /\ nd2[pid].n[at + 1] = nid
      BY <1>d
    <3>2. h[x] < h[rt]
      BY DEF Tree, TreeParents
    <3> QED
      BY <1>1, <1>2, <1>4, <1>6, <2>2, <3>1, <3>2 DEF HasParent, D2
  <2>3. CASE y \in D \ {x}
    <3> DEFINE q == nd[y].parent
    <3>1. q \in D /\ ~nd[q].isLeaf /\ h[y] < h[rt]
      BY <2>3 DEF Tree, TreeParents, HasParent, D2
    <3>2. PICK i \in 1 .. Len(nd[q].n) : nd[q].n[i] = y
      BY <2>3 DEF Tree, TreeParents, HasParent, D2
    <3>3. h2[y] < h2[rt]
      BY <1>2, <1>6, <2>3, <3>1
    <3>4. ChildAt(D, nd, R, h, q, i)
      BY <3>1 DEF Tree, TreeChildren
    <3>5. h[q] = h[y] + 1
      BY <3>2, <3>4 DEF ChildAt
    <3> HIDE DEF q
    <3>6. CASE q = x
      <4>1. ~nd[x].isLeaf /\ i \in 1 .. lx /\ nd[x].n[i] = y
        BY <3>1, <3>2, <3>6 DEF lx
      <4>2. nd2[y].parent = IF i <= la THEN x ELSE nid
        BY <1>11, <4>1
      <4>3. nd2[x].n = rest.n /\ ~nd2[x].isLeaf /\ nd2[nid].n = new.n /\ ~nd2[nid].isLeaf
        BY <1>4, <1>a, <4>1 DEF SameBody
      <4>4. CASE i <= la
        <5>1. i \in 1 .. la
          BY <1>a, <4>1, <4>4
        <5>2. i \in 1 .. Len(nd2[x].n) /\ nd2[x].n[i] = y
          BY <1>a, <4>1, <4>3, <5>1 DEF la
        <5> QED
          BY <3>3, <4>2, <4>3, <4>4, <5>2 DEF HasParent, D2
      <4>5. CASE ~(i <= la)
        <5>1. i - la \in 1 .. lb /\ la + (i - la) = i
          BY <1>b, <4>1, <4>5
        <5>2. new.n[i - la] = y
          BY <1>a, <4>1, <5>1
        <5>3. i - la \in 1 .. Len(nd2[nid].n) /\ nd2[nid].n[i - la] = y
          BY <4>3, <5>1, <5>2 DEF lb
        <5> QED
          BY <3>3, <4>2, <4>3, <4>5, <5>3 DEF HasParent, D2
      <4> QED
        BY <4>4, <4>5
    <3>7. CASE q = pid
      <4>1. i \in 1 .. len /\ nd[pid].n[i] = y
        BY <3>2, <3>7 DEF len
      <4>2. nd2[y].parent = pid /\ ~nd2[pid].isLeaf
        BY <1>1, <1>4, <1>14, <4>1
      <4>3. \E l \in 1 .. Len(nd2[pid].n) : nd2[pid].n[l] = y
        BY <1>d, <4>1
      <4> QED
        BY <1>1, <3>3, <4>2, <4>3 DEF HasParent, D2
    <3>8. CASE q # x /\ q # pid
      <4>1. SameBody(nd2[q], nd[q])
        BY <1>5, <3>1, <3>8
      <4>2. nd2[y].parent = q
        <5>1. CASE y = pid
          BY <1>4, <5>1 DEF q
        <5>2. CASE y # pid
          <6>1. ~Moves(new, y)
            <7> SUFFICES ASSUME Moves(new, y) PROVE FALSE
              OBVIOUS
            <7>1. nd[y].parent = x
              BY <1>11, <1>c
            <7> QED
              BY <3>8, <7>1 DEF q
          <6> QED
            BY <1>5, <2>3, <5>2, <6>1 DEF q
        <5> QED
          BY <5>1, <5>2
      <4> QED
        BY <3>1, <3>2, <3>3, <4>1, <4>2 DEF HasParent, SameBody, D2
    <3> QED
      BY <3>6, <3>7, <3>8
  <2> QED
    BY <2>1, <2>2, <2>3 DEF D2
<1>20. TreeApart(D2, R2, h2)
  <2>1. ASSUME NEW y \in D, NEW z \in D, y # z, h[y] = h[z]
        PROVE  \A w \in R[y] : w \notin R[z]
    BY <2>1 DEF Tree, TreeApart
  <2>2. \A w \in R2[x] : w \notin R2[nid]
    BY <1>2, <1>3, <1>6 DEF Low, High
  <2>3. (\A w \in R2[x] : w \in R[x]) /\ (\A w \in R2[nid] : w \in R[x])
    BY <1>6 DEF Low, High
  <2>4. \A y \in D : \A w \in R2[y] : w \in R[y]
    BY <1>6, <2>3
  <2>5. ASSUME NEW y \in D2, NEW z \in D2, y # z, h2[y] = h2[z]
        PROVE  \A w \in R2[y] : w \notin R2[z]
    <3>1. CASE y = nid /\ z = x
      BY <2>2, <3>1
    <3>2. CASE y = x /\ z = nid
      BY <2>2, <3>2
    <3>3. CASE y = nid /\ z \in D \ {x}
      <4>1. h[x] = h[z] /\ R2[z] = R[z]
        BY <1>6, <2>5, <3>3
      <4> QED
        BY <2>1, <2>3, <3>3, <4>1
    <3>4. CASE z = nid /\ y \in D \ {x}
      <4>1. h[x] = h[y] /\ R2[y] = R[y]
        BY <1>6, <2>5, <3>4
      <4> QED
        BY <2>1, <2>3, <3>4, <4>1
    <3>5. CASE y \in D /\ z \in D
      <4>1. h[y] = h[z]
        BY <1>6, <2>5, <3>5
      <4> QED
        BY <2>1, <2>4, <2>5, <3>5, <4>1
    <3> QED
      BY <2>5, <3>1, <3>2, <3>3, <3>4, <3>5 DEF D2
  <2> QED
    BY <2>5 DEF TreeApart
<1> QED
  BY <1>9, <1>10, <1>17, <1>19, <1>20 DEF Tree, TreeParents, D2, R2, h2


\* nd1 is nd with a new root pid over the root.
Grown(D, nd, rt, pid, nd1) ==
  /\ nd1 \in [D \cup {pid} -> Cell]
  /\ SameBody(nd1[rt], nd[rt]) /\ nd1[rt].parent = pid
  /\ nd1[pid] = NewRoot(rt)
  /\ \A y \in D \ {rt} : nd1[y] = nd[y]

RangesGrown(D, R, pid) == [y \in D \cup {pid} |-> IF y = pid THEN Int ELSE R[y]]

HeightsGrown(D, h, rt, pid) == [y \in D \cup {pid} |-> IF y = pid THEN h[rt] + 1 ELSE h[y]]

\* A new root over the root leaves a tree.
LEMMA GrowTree ==
  ASSUME NEW D, NEW nd, NEW rt, NEW R, NEW h, Tree(D, nd, rt, R, h),
         NEW pid \in Nat \ {0}, pid \notin D, NEW nd1, Grown(D, nd, rt, pid, nd1)
  PROVE  Tree(D \cup {pid}, nd1, pid, RangesGrown(D, R, pid), HeightsGrown(D, h, rt, pid))
<1> DEFINE D1 == D \cup {pid}
           R1 == RangesGrown(D, R, pid)
           h1 == HeightsGrown(D, h, rt, pid)
<1>1. /\ D \subseteq Nat \ {0} /\ rt \in D /\ rt # pid
      /\ nd \in [D -> Cell] /\ R \in [D -> SUBSET Int] /\ h \in [D -> Nat]
      /\ R[rt] = Int
  BY DEF Tree, TreeTypes
<1>2. /\ R1 \in [D1 -> SUBSET Int] /\ R1[pid] = Int /\ \A y \in D : R1[y] = R[y]
      /\ h1 \in [D1 -> Nat] /\ h1[pid] = h[rt] + 1 /\ \A y \in D : h1[y] = h[y]
  BY <1>1 DEF RangesGrown, HeightsGrown
<1>3. /\ nd1 \in [D1 -> Cell]
      /\ nd1[rt].parent = pid /\ \A y \in D \ {rt} : nd1[y].parent = nd[y].parent
      /\ \A y \in D : SameBody(nd1[y], nd[y])
      /\ ~nd1[pid].isLeaf /\ nd1[pid].k = <<>> /\ nd1[pid].n = <<rt>>
  BY DEF Grown, SameBody, NewRoot, Inner
<1> HIDE DEF D1, R1, h1
<1>4. \A y \in D : nd1[y].isLeaf = nd[y].isLeaf /\ nd1[y].k = nd[y].k /\ nd1[y].n = nd[y].n
  BY <1>3 DEF SameBody
<1>5. TreeTypes(D1, nd1, pid, R1, h1)
  BY <1>1, <1>2, <1>3 DEF TreeTypes, D1
<1>6. TreeNodes(D1, nd1, R1, h1)
  <2>1. ASSUME NEW y \in D
        PROVE  Sound(nd1[y], R1[y]) /\ (nd1[y].isLeaf <=> h1[y] = 0)
    <3>1. Sound(nd[y], R[y]) /\ (nd[y].isLeaf <=> h[y] = 0) /\ nd1[y] \in Cell
      BY <1>3 DEF Tree, TreeNodes, D1
    <3> QED
      BY <1>2, <1>4, <3>1 DEF Sound
  <2>2. Sound(nd1[pid], R1[pid]) /\ h1[pid] # 0
    <3>1. nd1[pid] \in Cell /\ h[rt] \in Nat
      BY <1>1, <1>3 DEF D1
    <3> QED
      BY <1>2, <1>3, <3>1 DEF Sound, Sorted
  <2> QED
    BY <1>3, <2>1, <2>2 DEF TreeNodes, D1
<1>7. \A w \in Int : Rank(nd1[pid].k, w) = 0
  <2> DEFINE k == nd1[pid].k
  <2>1. k \in Seq(Int) /\ Len(k) = 0 /\ Sorted(k)
    BY <1>3 DEF Sorted
  <2> HIDE DEF k
  <2>2. 0 \in 0 .. Len(k) /\ \A w \in Int : \A i \in 1 .. Len(k) : k[i] <= w <=> i <= 0
    BY <2>1
  <2>3. \A w \in Int : Rank(k, w) = 0
    BY <2>1, <2>2, RankIs
  <2> QED
    BY <2>3 DEF k
<1>8. TreeChildren(D1, nd1, pid, R1, h1)
  <2>1. ASSUME NEW y \in D, ~nd1[y].isLeaf, NEW i \in 1 .. Len(nd1[y].n)
        PROVE  ChildAt(D1, nd1, R1, h1, y, i) /\ nd1[y].n[i] # pid
    <3>1. ChildAt(D, nd, R, h, y, i) /\ nd[y].n[i] # rt /\ nd1[y].n[i] = nd[y].n[i]
      BY <1>4, <2>1 DEF Tree, TreeChildren
    <3>2. nd[y].n[i] \in D
      BY <3>1 DEF ChildAt
    <3>3. Part(nd1[y], R1[y], i) = Part(nd[y], R[y], i)
      BY <1>2, <1>3, PartOfBody
    <3> QED
      BY <1>2, <1>3, <1>4, <3>1, <3>2, <3>3 DEF ChildAt, D1
  <2>2. ASSUME NEW i \in 1 .. Len(nd1[pid].n)
        PROVE  ChildAt(D1, nd1, R1, h1, pid, i) /\ nd1[pid].n[i] # pid
    <3>1. i = 1 /\ Len(nd1[pid].n) = 1 /\ nd1[pid].n[i] = rt
      BY <1>3
    <3>2. Part(nd1[pid], R1[pid], 1) = Int
      BY <1>2, <1>7 DEF Part
    <3>3. \A j \in 1 .. Len(nd1[pid].n) : j = i
      BY <3>1
    <3>4. rt \in D1 /\ nd1[rt].parent = pid /\ h1[pid] = h1[rt] + 1 /\ R1[rt] = Int /\ rt # pid
      <4>1. rt \in D1
        BY <1>1 DEF D1
      <4>2. h1[rt] = h[rt] /\ R1[rt] = R[rt]
        BY <1>1, <1>2
      <4> QED
        BY <1>1, <1>2, <1>3, <4>1, <4>2
    <3>5. ChildAt(D1, nd1, R1, h1, pid, 1)
      BY <3>1, <3>2, <3>3, <3>4 DEF ChildAt
    <3> QED
      BY <3>1, <3>4, <3>5
  <2> QED
    BY <2>1, <2>2 DEF TreeChildren, D1
<1>9. ASSUME NEW y \in D PROVE h[y] <= h[rt]
  <2>1. h[rt] \in Nat
    BY <1>1
  <2>2. y # rt => h[y] < h[rt]
    BY DEF Tree, TreeParents
  <2> QED
    BY <1>1, <2>1, <2>2
<1>10. TreeParents(D1, nd1, pid, h1)
  <2>1. HasParent(D1, nd1, rt)
    <3>1. 1 \in 1 .. Len(nd1[pid].n) /\ nd1[pid].n[1] = rt
      BY <1>3
    <3> QED
      BY <1>3, <3>1 DEF HasParent, D1
  <2>2. ASSUME NEW y \in D \ {rt} PROVE HasParent(D1, nd1, y)
    <3>1. HasParent(D, nd, y) /\ nd1[y].parent = nd[y].parent
      BY <1>3 DEF Tree, TreeParents
    <3> QED
      BY <1>4, <3>1 DEF HasParent, D1
  <2>3. ASSUME NEW y \in D PROVE h1[y] < h1[pid]
    <3>1. h[y] \in Nat /\ h[rt] \in Nat
      BY <1>1
    <3> QED
      BY <1>2, <1>9, <3>1
  <2> QED
    BY <2>1, <2>2, <2>3 DEF TreeParents, D1
<1>11. TreeApart(D1, R1, h1)
  <2>1. \A y \in D : h1[y] # h1[pid]
    <3> SUFFICES ASSUME NEW y \in D PROVE h1[y] # h1[pid]
      OBVIOUS
    <3>1. h[y] \in Nat /\ h[rt] \in Nat
      BY <1>1
    <3> QED
      BY <1>2, <1>9, <3>1
  <2>2. ASSUME NEW y \in D, NEW z \in D, y # z, h1[y] = h1[z]
        PROVE  R1[y] \cap R1[z] = {}
    BY <1>2, <2>2 DEF Tree, TreeApart
  <2> QED
    BY <2>1, <2>2 DEF TreeApart, D1
<1> QED
  BY <1>5, <1>6, <1>8, <1>10, <1>11 DEF Tree, D1, R1, h1

-----------------------------------------------------------------------------
(* The halves that solveOverFlow makes.                                     *)

\* half is at least one and leaves at least one key behind the separator; both parts of a
\* node with one key too many have at least as many keys as NodeSizes asks for.
LEMMA HalfBounds ==
  /\ half \in Nat /\ half >= 1 /\ half + 1 <= B_PLUS_TREE_BRANCH
  /\ B_PLUS_TREE_BRANCH \div 2 <= half
  /\ B_PLUS_TREE_BRANCH - half = B_PLUS_TREE_BRANCH \div 2
<1>1. B_PLUS_TREE_BRANCH \in Nat /\ B_PLUS_TREE_BRANCH >= 2
  BY BPlusTreeAssumption
<1> QED
  BY <1>1 DEF half

HalfFull(v) == Len(v.k) >= B_PLUS_TREE_BRANCH \div 2 /\ Len(v.k) <= B_PLUS_TREE_BRANCH

\* The entry <<a, b>> is in the leaf v.
Pair(v, a, b) == \E i \in 1 .. Len(v.k) : v.k[i] = a /\ v.n[i] = b

\* What a leaf is split into.
LeafRest(v) == [v EXCEPT !.k = SubSeq(@, 1, half + 1), !.n = SubSeq(@, 1, half + 1)]
LeafNew(v) ==
  Leaf(SubSeq(v.k, half + 1 + 1, Len(v.k)), SubSeq(v.n, half + 1 + 1, Len(v.n)), NoNode)

\* The first m children of a node, or records of a leaf, ...
LEMMA FirstNumbers ==
  ASSUME NEW n \in Seq(Nat), NEW m \in 0 .. Len(n)
  PROVE  LET f == SubSeq(n, 1, m) IN
         f \in Seq(Nat) /\ Len(f) = m /\ \A i \in 1 .. m : f[i] = n[i]
OBVIOUS

\* ... and those from place m + 1 on.
LEMMA LastNumbers ==
  ASSUME NEW n \in Seq(Nat), NEW m \in 0 .. Len(n)
  PROVE  LET l == SubSeq(n, m + 1, Len(n)) IN
         l \in Seq(Nat) /\ Len(l) = Len(n) - m /\ \A i \in 1 .. Len(n) - m : l[i] = n[m + i]
OBVIOUS

\* A leaf with one key too many falls into halves with all its entries between them.
LEMMA LeafHalves ==
  ASSUME NEW v, NEW range, range \subseteq Int, Sound(v, range), v.isLeaf,
         Len(v.k) = B_PLUS_TREE_BRANCH + 1
  PROVE  /\ Halves(v, range, LeafRest(v), LeafNew(v), LeafNew(v).k[1])
         /\ LeafNew(v).k[1] = v.k[half + 1 + 1]
         /\ HalfFull(LeafRest(v)) /\ HalfFull(LeafNew(v))
         /\ LeafRest(v) \in Cell /\ LeafNew(v) \in Cell
         /\ \A a, b : Pair(v, a, b) <=> Pair(LeafRest(v), a, b) \/ Pair(LeafNew(v), a, b)
<1> DEFINE B == B_PLUS_TREE_BRANCH
           len == Len(v.k)
           m == half + 1
           f == SubSeq(v.k, 1, m)
           fn == SubSeq(v.n, 1, m)
           l == SubSeq(v.k, m + 1, len)
           ln == SubSeq(v.n, m + 1, len)
           sep == v.k[m + 1]
<1>1. /\ v \in Cell /\ v.k \in Seq(Int) /\ v.n \in Seq(Nat) /\ Sorted(v.k)
      /\ len \in Nat /\ Len(v.n) = len /\ len = B + 1
      /\ \A i \in 1 .. len : v.k[i] \in range
  BY DEF Sound, Cell
<1>2. m \in 1 .. len /\ m >= 2 /\ m + 1 \in 1 .. len /\ B \in Nat
  BY <1>1, HalfBounds, BPlusTreeAssumption
<1>3. m <= B /\ m >= B \div 2 /\ len - m <= B /\ len - m >= B \div 2
  BY <1>1, HalfBounds, BPlusTreeAssumption
<1> HIDE DEF m, len
<1>4. m \in 0 .. Len(v.k) /\ len = Len(v.k)
  BY <1>1, <1>2 DEF len
<1>5. f \in Seq(Int) /\ Len(f) = m /\ (\A i \in 1 .. m : f[i] = v.k[i]) /\ Sorted(f)
  BY <1>1, <1>4, FirstKeys
<1>6. /\ l \in Seq(Int) /\ Len(l) = len - m
      /\ \A i \in 1 .. len - m : l[i] = v.k[m + i]
      /\ Sorted(l)
  <2>1. l = SubSeq(v.k, m + 1, Len(v.k))
    BY DEF len
  <2> HIDE DEF l
  <2> QED
    BY <1>1, <1>4, <2>1, LastKeys
<1>7. fn \in Seq(Nat) /\ Len(fn) = m /\ \A i \in 1 .. m : fn[i] = v.n[i]
  BY <1>1, <1>2
<1>8. ln \in Seq(Nat) /\ Len(ln) = len - m /\ \A i \in 1 .. len - m : ln[i] = v.n[m + i]
  <2>1. m \in 0 .. Len(v.n) /\ ln = SubSeq(v.n, m + 1, Len(v.n))
    BY <1>1, <1>2
  <2> HIDE DEF ln
  <2> QED
    BY <1>1, <2>1, LastNumbers
<1>9. \A i \in 1 .. len - m : m + i \in 1 .. len /\ m + 1 <= m + i
  BY <1>1, <1>2
<1>10. 1 \in 1 .. len - m /\ \A i \in 1 .. m : i \in 1 .. len /\ i < m + 1
  BY <1>1, <1>2
<1> HIDE DEF f, fn, l, ln
<1>11. /\ LeafRest(v) = [v EXCEPT !.k = f, !.n = fn]
       /\ LeafNew(v) = Leaf(l, ln, NoNode)
  BY <1>1 DEF LeafRest, LeafNew, f, fn, l, ln, m, len
<1> DEFINE rest == LeafRest(v)
           new == LeafNew(v)
<1>12. /\ rest \in Cell /\ rest.isLeaf /\ rest.k = f /\ rest.n = fn
       /\ new \in Cell /\ new.isLeaf /\ new.k = l /\ new.n = ln
  <2>1. rest \in Cell /\ rest.isLeaf /\ rest.k = f /\ rest.n = fn
    BY <1>1, <1>5, <1>7, <1>11 DEF Cell
  <2>2. new \in Cell /\ new.isLeaf /\ new.k = l /\ new.n = ln
    BY <1>6, <1>8, <1>11 DEF Cell, Leaf, NoNode
  <2> QED
    BY <2>1, <2>2
<1>13. sep \in range /\ sep \in Int /\ l[1] = sep
  BY <1>1, <1>2, <1>6, <1>10
<1> HIDE DEF rest, new
<1>14. ASSUME NEW i \in 1 .. m PROVE v.k[i] < sep /\ v.k[i] \in range
  BY <1>1, <1>2, <1>10 DEF Sorted, len
<1>15. ASSUME NEW i \in 1 .. len - m PROVE sep <= v.k[m + i] /\ v.k[m + i] \in range
  <2>1. m + i \in 1 .. len /\ m + 1 <= m + i
    BY <1>9
  <2>2. CASE m + 1 = m + i
    BY <1>13, <2>2
  <2>3. CASE m + 1 # m + i
    <3>1. m + 1 < m + i
      BY <1>2, <2>1, <2>3
    <3>2. v.k[m + 1] < v.k[m + i] /\ v.k[m + i] \in range
      BY <1>1, <1>2, <2>1, <3>1 DEF Sorted, len
    <3>3. v.k[m + i] \in Int
      BY <3>2
    <3> QED
      BY <1>13, <3>2, <3>3
  <2> QED
    BY <2>2, <2>3
<1> HIDE DEF sep
<1>16. Sound(rest, Low(range, sep))
  BY <1>5, <1>7, <1>12, <1>14 DEF Sound, Low
<1>17. Sound(new, High(range, sep))
  BY <1>6, <1>8, <1>12, <1>15 DEF Sound, High
<1>18. \E w \in range : w < sep
  <2>1. 1 \in 1 .. m
    BY <1>2
  <2> QED
    BY <1>14, <2>1
<1>19. Halves(v, range, rest, new, sep)
  BY <1>12, <1>13, <1>16, <1>17, <1>18 DEF Halves
<1>20. HalfFull(rest) /\ HalfFull(new)
  BY <1>3, <1>5, <1>6, <1>12 DEF HalfFull
<1>21. ASSUME NEW a, NEW b
       PROVE  Pair(v, a, b) <=> Pair(rest, a, b) \/ Pair(new, a, b)
  <2>1. ASSUME NEW i \in 1 .. len, v.k[i] = a, v.n[i] = b
        PROVE  Pair(rest, a, b) \/ Pair(new, a, b)
    <3>1. CASE i <= m
      <4>1. i \in 1 .. m
        BY <1>2, <3>1
      <4>2. f[i] = a /\ fn[i] = b
        BY <1>5, <1>7, <2>1, <4>1
      <4> QED
        BY <1>5, <1>12, <4>1, <4>2 DEF Pair
    <3>2. CASE ~(i <= m)
      <4>1. i - m \in 1 .. len - m /\ m + (i - m) = i
        BY <1>1, <1>2, <3>2
      <4>2. l[i - m] = a /\ ln[i - m] = b
        BY <1>6, <1>8, <2>1, <4>1
      <4> QED
        BY <1>6, <1>12, <4>1, <4>2 DEF Pair
    <3> QED
      BY <3>1, <3>2
  <2>2. ASSUME NEW i \in 1 .. m, f[i] = a, fn[i] = b
        PROVE  Pair(v, a, b)
    BY <1>4, <1>5, <1>7, <1>10, <2>2 DEF Pair
  <2>3. ASSUME NEW i \in 1 .. len - m, l[i] = a, ln[i] = b
        PROVE  Pair(v, a, b)
    BY <1>4, <1>6, <1>8, <1>9, <2>3 DEF Pair
  <2> QED
    BY <1>4, <1>5, <1>6, <1>12, <2>1, <2>2, <2>3 DEF Pair
<1>22. new.k[1] = sep /\ sep = v.k[half + 1 + 1]
  BY <1>12, <1>13 DEF sep, m
<1> QED
  BY <1>12, <1>19, <1>20, <1>21, <1>22 DEF rest, new

\* What an inner node is split into.
InnerRest(v) == [v EXCEPT !.k = SubSeq(@, 1, half), !.n = SubSeq(@, 1, half + 1)]
InnerNew(v) ==
  Inner(SubSeq(v.k, half + 1 + 1, Len(v.k)), SubSeq(v.n, half + 1 + 1, Len(v.n)), NoNode)

\* An inner node with one key too many falls into halves on both sides of the middle key.
LEMMA InnerHalves ==
  ASSUME NEW v, NEW range, range \subseteq Int, Sound(v, range), ~v.isLeaf,
         Len(v.k) = B_PLUS_TREE_BRANCH + 1
  PROVE  /\ Halves(v, range, InnerRest(v), InnerNew(v), v.k[half + 1])
         /\ HalfFull(InnerRest(v)) /\ HalfFull(InnerNew(v))
         /\ InnerRest(v) \in Cell /\ InnerNew(v) \in Cell
<1> DEFINE B == B_PLUS_TREE_BRANCH
           len == Len(v.k)
           m == half
           f == SubSeq(v.k, 1, m)
           fn == SubSeq(v.n, 1, m + 1)
           l == SubSeq(v.k, m + 1 + 1, Len(v.k))
           ln == SubSeq(v.n, m + 1 + 1, Len(v.n))
           sep == v.k[m + 1]
<1>1. /\ v \in Cell /\ v.k \in Seq(Int) /\ v.n \in Seq(Nat) /\ Sorted(v.k)
      /\ len \in Nat /\ Len(v.n) = len + 1 /\ len = B + 1
      /\ \A i \in 1 .. len : v.k[i] \in range
  BY DEF Sound, Cell
<1>2. m \in 1 .. len /\ m + 1 \in 1 .. len /\ B \in Nat /\ m \in Nat
  BY <1>1, HalfBounds, BPlusTreeAssumption
<1>3. m <= B /\ m >= B \div 2 /\ len - (m + 1) <= B /\ len - (m + 1) >= B \div 2
  BY <1>1, HalfBounds, BPlusTreeAssumption
<1> HIDE DEF m, len
<1>4. m \in 0 .. Len(v.k) /\ m + 1 \in 0 .. Len(v.k) /\ len = Len(v.k)
  BY <1>1, <1>2 DEF len
<1>5. /\ f \in Seq(Int) /\ Len(f) = m /\ (\A i \in 1 .. m : f[i] = v.k[i]) /\ Sorted(f)
      /\ \A w \in Int : Rank(f, w) = IF Rank(v.k, w) <= m THEN Rank(v.k, w) ELSE m
  BY <1>1, <1>4, FirstKeys
<1> DEFINE c == m + 1
<1>6. /\ l \in Seq(Int) /\ Len(l) = len - c /\ (\A i \in 1 .. len - c : l[i] = v.k[c + i])
      /\ Sorted(l)
      /\ \A w \in Int : Rank(l, w) = IF Rank(v.k, w) <= c THEN 0 ELSE Rank(v.k, w) - c
  <2> HIDE DEF c
  <2>1. c \in 0 .. Len(v.k)
    BY <1>4 DEF c
  <2>2. l = SubSeq(v.k, c + 1, Len(v.k))
    BY DEF c
  <2> HIDE DEF l
  <2> QED
    BY <1>1, <1>4, <2>1, <2>2, LastKeys
<1>7. fn \in Seq(Nat) /\ Len(fn) = c /\ \A i \in 1 .. c : fn[i] = v.n[i]
  <2>1. c \in 0 .. Len(v.n)
    BY <1>1, <1>2
  <2> HIDE DEF c
  <2>2. PICK s : s = v.n
    OBVIOUS
  <2>3. s \in Seq(Nat) /\ c \in 0 .. Len(s)
    BY <1>1, <2>1, <2>2
  <2>4. LET t == SubSeq(s, 1, c) IN t \in Seq(Nat) /\ Len(t) = c /\ \A i \in 1 .. c : t[i] = s[i]
    BY <2>3, FirstNumbers
  <2>5. fn = SubSeq(s, 1, c)
    BY <2>2 DEF c
  <2> HIDE DEF fn
  <2> QED
    BY <2>2, <2>4, <2>5
<1>8. ln \in Seq(Nat) /\ Len(ln) = len + 1 - c /\ \A i \in 1 .. len + 1 - c : ln[i] = v.n[c + i]
  <2>1. c \in 0 .. Len(v.n) /\ ln = SubSeq(v.n, c + 1, Len(v.n))
    <3>1. ln = SubSeq(v.n, c + 1, Len(v.n))
      OBVIOUS
    <3> HIDE DEF ln
    <3>2. c \in 0 .. Len(v.n)
      BY <1>1, <1>2
    <3> QED
      BY <3>1, <3>2
  <2> HIDE DEF ln, c
  <2>2. v.n \in Seq(Nat) /\ Len(v.n) = len + 1
    BY <1>1
  <2>3. /\ ln \in Seq(Nat) /\ Len(ln) = Len(v.n) - c
        /\ \A i \in 1 .. Len(v.n) - c : ln[i] = v.n[c + i]
    <3>1. PICK s : s = v.n
      OBVIOUS
    <3>2. s \in Seq(Nat) /\ c \in 0 .. Len(s) /\ ln = SubSeq(s, c + 1, Len(s))
      BY <2>1, <2>2, <3>1
    <3>3. ln \in Seq(Nat) /\ Len(ln) = Len(s) - c /\ \A i \in 1 .. Len(s) - c : ln[i] = s[c + i]
      BY <3>2, LastNumbers
    <3> QED
      BY <3>1, <3>3
  <2>4. len \in Nat /\ Len(v.n) \in Nat /\ c \in Nat
    BY <1>1, <2>1
  <2>5. Len(v.n) - c = len + 1 - c
    BY <2>2, <2>4
  <2> QED
    BY <2>3, <2>5
<1>9. \A i \in 1 .. len - c : c + i \in 1 .. len /\ c < c + i
  BY <1>1, <1>2
<1>10. c \in Nat /\ c \in 1 .. len /\ c = m + 1 /\ \A i \in 1 .. m : i \in 1 .. len /\ i < c
  BY <1>1, <1>2
<1>0. sep = v.k[c]
  OBVIOUS
<1> HIDE DEF f, fn, l, ln, sep
<1>11. /\ InnerRest(v) = [v EXCEPT !.k = f, !.n = fn]
       /\ InnerNew(v) = Inner(l, ln, NoNode)
  BY <1>1 DEF InnerRest, InnerNew, f, fn, l, ln, m
<1> DEFINE rest == InnerRest(v)
           new == InnerNew(v)
<1> HIDE DEF c
<1>12. /\ rest \in Cell /\ ~rest.isLeaf /\ rest.k = f /\ rest.n = fn
       /\ new \in Cell /\ ~new.isLeaf /\ new.k = l /\ new.n = ln
  <2>1. rest \in Cell /\ ~rest.isLeaf /\ rest.k = f /\ rest.n = fn
    BY <1>1, <1>5, <1>7, <1>11 DEF Cell
  <2>2. new \in Cell /\ ~new.isLeaf /\ new.k = l /\ new.n = ln
    BY <1>6, <1>8, <1>11 DEF Cell, Inner, NoNode
  <2> QED
    BY <2>1, <2>2
<1>13. sep \in range /\ sep \in Int
  BY <1>0, <1>1, <1>10
<1> HIDE DEF rest, new
<1>14. ASSUME NEW i \in 1 .. m PROVE v.k[i] < sep /\ v.k[i] \in range
  <2>1. i \in 1 .. len /\ c \in 1 .. len /\ i < c
    BY <1>10
  <2> QED
    BY <1>0, <1>1, <2>1 DEF Sorted, len
<1>15. ASSUME NEW i \in 1 .. len - c PROVE sep <= v.k[c + i] /\ v.k[c + i] \in range
  <2>1. c + i \in 1 .. len /\ c \in 1 .. len /\ c < c + i
    BY <1>9, <1>10
  <2>2. v.k[c] < v.k[c + i] /\ v.k[c + i] \in range
    BY <1>1, <2>1 DEF Sorted, len
  <2>3. v.k[c + i] \in Int
    BY <2>2
  <2> QED
    BY <1>0, <1>13, <2>2, <2>3
<1>16. Sound(rest, Low(range, sep))
  BY <1>5, <1>7, <1>10, <1>12, <1>14 DEF Sound, Low
<1>17. Sound(new, High(range, sep))
  <2>1. len + 1 - c = (len - c) + 1
    BY <1>1, <1>10
  <2> QED
    BY <1>6, <1>8, <1>12, <1>15, <2>1 DEF Sound, High
<1>18. \E w \in range : w < sep
  <2>1. 1 \in 1 .. m
    BY <1>2
  <2> QED
    BY <1>14, <2>1
<1>19. \A w \in range : /\ w \in Int /\ Rank(v.k, w) \in 0 .. len
                        /\ sep <= w <=> c <= Rank(v.k, w)
  BY <1>0, <1>1, <1>10, RankOfSorted DEF len
<1>20. ASSUME NEW i \in 1 .. c
       PROVE  Part(rest, Low(range, sep), i) = Part(v, range, i)
  <2>1. \A w \in range : w < sep /\ Rank(f, w) = i - 1 <=> Rank(v.k, w) = i - 1
    BY <1>5, <1>10, <1>13, <1>19
  <2> QED
    BY <1>12, <2>1 DEF Part, Low
<1>21. ASSUME NEW i \in 1 .. len + 1 - c
       PROVE  Part(new, High(range, sep), i) = Part(v, range, c + i)
  <2>1. ASSUME NEW w \in range
        PROVE  sep <= w /\ Rank(l, w) = i - 1 <=> Rank(v.k, w) = (c + i) - 1
    <3> DEFINE r == Rank(v.k, w)
    <3>1. w \in Int /\ r \in Nat /\ (sep <= w <=> c <= r)
      BY <1>1, <1>19
    <3>2. Rank(l, w) = IF r <= c THEN 0 ELSE r - c
      BY <1>6, <3>1
    <3>3. i \in Nat /\ i >= 1 /\ c \in Nat
      BY <1>1, <1>10
    <3> HIDE DEF r
    <3>4. sep <= w /\ Rank(l, w) = i - 1 <=> r = (c + i) - 1
      BY <3>1, <3>2, <3>3
    <3> QED
      BY <3>4 DEF r
  <2>2. Part(new, High(range, sep), i) = {w \in range : sep <= w /\ Rank(l, w) = i - 1}
    BY <1>12 DEF Part, High
  <2>3. Part(v, range, c + i) = {w \in range : Rank(v.k, w) = (c + i) - 1}
    BY DEF Part
  <2> QED
    BY <2>1, <2>2, <2>3
<1>22. Len(rest.n) = c /\ Len(new.n) = len + 1 - c
  BY <1>7, <1>8, <1>12
<1>23. Halves(v, range, rest, new, sep)
  <2>1. Len(v.n) = Len(rest.n) + Len(new.n)
    <3>1. Len(v.n) = len + 1 /\ len \in Nat /\ c \in Nat
      BY <1>1, <1>10
    <3> QED
      BY <1>22, <3>1
  <2>2. rest.isLeaf = v.isLeaf /\ new.isLeaf = v.isLeaf
    BY <1>1, <1>12 DEF Cell
  <2>3. \A i \in 1 .. Len(rest.n) : /\ rest.n[i] = v.n[i]
                                    /\ Part(rest, Low(range, sep), i) = Part(v, range, i)
    BY <1>7, <1>12, <1>20, <1>22
  <2>4. \A i \in 1 .. Len(new.n) : /\ new.n[i] = v.n[Len(rest.n) + i]
                                   /\ Part(new, High(range, sep), i)
                                       = Part(v, range, Len(rest.n) + i)
    BY <1>8, <1>12, <1>21, <1>22
  <2> QED
    BY <1>13, <1>16, <1>17, <1>18, <2>1, <2>2, <2>3, <2>4 DEF Halves
<1>24. HalfFull(rest) /\ HalfFull(new)
  BY <1>3, <1>5, <1>6, <1>12 DEF HalfFull, c
<1>25. sep = v.k[half + 1]
  BY DEF sep, m
<1> QED
  BY <1>12, <1>23, <1>24, <1>25 DEF rest, new

-----------------------------------------------------------------------------
(* The state.                                                               *)

CallTypes ==
  /\ allocated \in Nat \ {0}
  /\ op \in {"idle", "search", "fix"}
  /\ op # "idle" =>
       key \in Keys /\ record \in Records \cup {None} /\ hot_ \in 1 .. allocated

\* The nodes are a tree, in which a search has come to a node that may have the key.
TreeState(R, h) ==
  /\ Tree(1 .. allocated, node, root, R, h)
  /\ op = "search" => key \in R[hot_]

SizeBound == \A x \in Nodes : Size(x) <= B_PLUS_TREE_BRANCH + 1

IInv == CallTypes /\ NodeSizes /\ SizeBound /\ \E R, h : TreeState(R, h)

\* The nodes after a split: their bodies, where the separator goes, and the root.
AfterSplit(rest, new) ==
  LET nid == allocated + 1 IN
  /\ DOMAIN node' = 1 .. allocated' /\ nid \in 1 .. allocated'
  /\ allocated' \in Nat \ {0} /\ \A y \in 1 .. allocated : y \in 1 .. allocated'
  /\ SameBody(node'[hot_], rest) /\ SameBody(node'[nid], new)
  /\ hot_' \in 1 .. allocated' /\ hot_' # hot_ /\ hot_' # nid /\ ~node'[hot_'].isLeaf
  /\ IF hot_ = root
       THEN root' = hot_' /\ Len(node'[hot_'].k) = 1 /\ hot_' \notin 1 .. allocated
       ELSE /\ root' = root /\ hot_' \in 1 .. allocated /\ ~node[hot_'].isLeaf
            /\ Len(node'[hot_'].k) = Len(node[hot_'].k) + 1
  /\ \A y \in 1 .. allocated' \ {hot_, nid, hot_'} :
       y \in 1 .. allocated /\ SameBody(node'[y], node[y])

\* A node that gets a separator, and a child behind it.
PutBehind(p, at, sep, nid) ==
  [p EXCEPT !.k = InsertAt(@, at, sep), !.n = InsertAt(@, at + 1, nid)]

\* The fields of such a node.
LEMMA PutBehindFields ==
  ASSUME NEW p \in Cell, NEW at \in 1 .. Len(p.k) + 1, Len(p.n) = Len(p.k) + 1,
         NEW sep \in Int, NEW nid \in Nat
  PROVE  /\ PutBehind(p, at, sep, nid) \in Cell
         /\ PutBehind(p, at, sep, nid).isLeaf = p.isLeaf
         /\ PutBehind(p, at, sep, nid).parent = p.parent
         /\ PutBehind(p, at, sep, nid).k = InsertAt(p.k, at, sep)
         /\ PutBehind(p, at, sep, nid).n = InsertAt(p.n, at + 1, nid)
         /\ Len(PutBehind(p, at, sep, nid).k) = Len(p.k) + 1
<1>1. p.k \in Seq(Int) /\ p.n \in Seq(Nat) /\ Len(p.k) \in Nat
  BY DEF Cell
<1>2. Inserted(Int, p.k, at, sep, InsertAt(p.k, at, sep))
  BY <1>1, InsertAtProperties
<1>3. at + 1 \in 1 .. Len(p.n) + 1
  BY <1>1
<1>4. Inserted(Nat, p.n, at + 1, nid, InsertAt(p.n, at + 1, nid))
  BY <1>1, <1>3, InsertAtProperties
<1>5. /\ InsertAt(p.k, at, sep) \in Seq(Int) /\ Len(InsertAt(p.k, at, sep)) = Len(p.k) + 1
      /\ InsertAt(p.n, at + 1, nid) \in Seq(Nat)
  BY <1>2, <1>4 DEF Inserted
<1> QED
  BY <1>5 DEF Cell, PutBehind

\* All keys of a node's range have the same place in the parent.
LEMMA SamePlace ==
  ASSUME NEW D, NEW nd, NEW rt, NEW R, NEW h, Tree(D, nd, rt, R, h),
         NEW x \in D \ {rt}, NEW v \in R[x], NEW w \in R[x]
  PROVE  Rank(nd[nd[x].parent].k, v) = Rank(nd[nd[x].parent].k, w)
<1> DEFINE pid == nd[x].parent
<1>1. PICK i \in 1 .. Len(nd[pid].n) : nd[pid].n[i] = x
  BY DEF Tree, TreeParents, HasParent
<1>2. pid \in D /\ ~nd[pid].isLeaf
  BY DEF Tree, TreeParents, HasParent
<1>3. ChildAt(D, nd, R, h, pid, i)
  BY <1>1, <1>2 DEF Tree, TreeChildren
<1>4. R[x] = Part(nd[pid], R[pid], i)
  BY <1>1, <1>3 DEF ChildAt
<1> QED
  BY <1>4 DEF Part

\* The nodes of D alone, and those a step allocates.
On(nd, D) == [x \in D |-> nd[x]]

NewNodes == allocated + 1 .. allocated'

\* A split of a node that is not the root, of a tree of some of the nodes.
LEMMA SplitBelowRoot ==
  ASSUME NEW D, D \subseteq 1 .. allocated, node \in [1 .. allocated -> Cell],
         NEW R, NEW h, Tree(D, On(node, D), root, R, h),
         allocated \in Nat \ {0}, hot_ \in D, hot_ # root,
         NEW rest \in Cell, NEW new \in Cell, NEW sep, NEW moved,
         Halves(node[hot_], R[hot_], rest, new, sep), node[hot_].k[1] \in R[hot_],
         \A y \in 1 .. allocated : y \in moved <=> Moves(new, y),
         Split(node[hot_], rest, new, sep, moved)
  PROVE  /\ \E R2, h2 : Tree(D \cup NewNodes, On(node', D \cup NewNodes), root', R2, h2)
         /\ AfterSplit(rest, new)
         /\ node' \in [1 .. allocated' -> Cell] /\ hot_' \in D \cup NewNodes
<1> DEFINE N == 1 .. allocated
           x == hot_
           nid == allocated + 1
           pid == node[x].parent
           at == Rank(node[pid].k, sep) + 1
           nd == On(node, D)
<1>0. \A y \in D : nd[y] = node[y] /\ y \in N
  BY DEF On
<1> HIDE DEF nd
<1>1. /\ pid \in D \ {x} /\ ~node[pid].isLeaf
      /\ at \in 1 .. Len(node[pid].n)
  <2>1. nd[x] = node[x] /\ Tree(D, nd, root, R, h)
    BY <1>0 DEF nd
  <2>2. /\ pid \in D \ {x} /\ ~nd[pid].isLeaf
        /\ Rank(nd[pid].k, sep) + 1 \in 1 .. Len(nd[pid].n)
    BY <2>1, PlaceInParent DEF Halves
  <2> QED
    BY <1>0, <2>2
<1>2. at = Rank(node[pid].k, node[x].k[1]) + 1
  <2>1. nd[x] = node[x] /\ nd[pid] = node[pid] /\ Tree(D, nd, root, R, h)
    BY <1>0, <1>1 DEF nd
  <2>2. Rank(nd[nd[x].parent].k, sep) = Rank(nd[nd[x].parent].k, node[x].k[1])
    BY <2>1, SamePlace DEF Halves
  <2> QED
    BY <2>1, <2>2
<1>3. /\ sep \in Int /\ Sound(node[pid], R[pid])
      /\ nid \in Nat \ {0} /\ nid \notin N /\ nid \notin D /\ N \cup {nid} = 1 .. nid
  <2>1. R[x] \subseteq Int /\ Sound(nd[pid], R[pid])
    BY <1>1 DEF Tree, TreeTypes, TreeNodes, nd
  <2>2. sep \in Int
    BY <2>1 DEF Halves
  <2>3. nid \in Nat \ {0} /\ nid \notin N /\ nid \notin D /\ N \cup {nid} = 1 .. nid
    OBVIOUS
  <2> QED
    BY <1>0, <1>1, <2>1, <2>2, <2>3
<1> HIDE DEF at
<1>4. /\ node[pid] \in Cell /\ Len(node[pid].n) = Len(node[pid].k) + 1
      /\ at \in 1 .. Len(node[pid].k) + 1
  BY <1>1, <1>3 DEF Sound
<1>5. /\ allocated' = nid /\ root' = root /\ hot_' = pid
      /\ node' = [y \in 1 .. nid |->
                    IF y = x THEN [rest EXCEPT !.parent = pid]
                    ELSE IF y = nid THEN [new EXCEPT !.parent = pid]
                    ELSE IF y = pid THEN PutBehind(node[pid], at, sep, nid)
                    ELSE IF y \in moved THEN [node[y] EXCEPT !.parent = nid]
                    ELSE node[y]]
  BY <1>2 DEF Split, PutBehind
<1> DEFINE q == PutBehind(node[pid], at, sep, nid)
<1>6. /\ q \in Cell /\ q.isLeaf = node[pid].isLeaf /\ q.parent = node[pid].parent
      /\ q.k = InsertAt(node[pid].k, at, sep) /\ q.n = InsertAt(node[pid].n, at + 1, nid)
      /\ Len(q.k) = Len(node[pid].k) + 1
  <2>1. nid \in Nat /\ sep \in Int
    BY <1>3
  <2> HIDE DEF nid, pid
  <2> QED
    BY <1>4, <2>1, PutBehindFields
<1> HIDE DEF q, pid
<1>7. /\ node'[x] = [rest EXCEPT !.parent = pid] /\ node'[nid] = [new EXCEPT !.parent = pid]
      /\ node'[pid] = q
      /\ \A y \in N \ {x, pid} :
           node'[y] = IF y \in moved THEN [node[y] EXCEPT !.parent = nid] ELSE node[y]
  BY <1>0, <1>1, <1>3, <1>5 DEF q
<1>8. pid \in Nat /\ nid \in Nat /\ x \in N /\ pid \in N
  <2>1. pid \in N /\ x \in N
    BY <1>0, <1>1
  <2> QED
    BY <1>3, <2>1
<1>9. /\ node'[x] \in Cell /\ SameBody(node'[x], rest) /\ node'[x].parent = pid
      /\ node'[nid] \in Cell /\ SameBody(node'[nid], new) /\ node'[nid].parent = pid
  BY <1>7, <1>8 DEF Cell, SameBody
<1>10. ASSUME NEW y \in N \ {x, pid}
       PROVE  /\ node'[y] \in Cell /\ SameBody(node'[y], node[y])
              /\ node'[y].parent = IF Moves(new, y) THEN nid ELSE node[y].parent
  <2>1. node[y] \in Cell /\ (y \in moved <=> Moves(new, y))
    OBVIOUS
  <2> QED
    BY <1>7, <1>8, <2>1 DEF Cell, SameBody
<1>11. node' \in [N \cup {nid} -> Cell]
  <2>1. \A y \in N \cup {nid} : node'[y] \in Cell
    BY <1>6, <1>7, <1>9, <1>10
  <2>2. node' = [y \in N \cup {nid} |-> node'[y]]
    BY <1>3, <1>5
  <2> QED
    BY <2>1, <2>2
<1>12. NewNodes = {nid}
  BY <1>3, <1>5 DEF NewNodes
<1> DEFINE nd2 == On(node', D \cup {nid})
<1>13. /\ nd2 \in [D \cup {nid} -> Cell]
       /\ \A y \in D \cup {nid} : nd2[y] = node'[y]
  BY <1>0, <1>11 DEF On
<1> HIDE DEF nd2
<1>14. Divided(D, nd, x, nid, pid, sep, rest, new, nd2)
  <2>1. nd2[x] = node'[x] /\ nd2[nid] = node'[nid] /\ nd2[pid] = node'[pid] /\ nd[pid] = node[pid]
    BY <1>0, <1>1, <1>13
  <2>2. \A y \in D \ {x, pid} : y \in N \ {x, pid} /\ nd2[y] = node'[y] /\ nd[y] = node[y]
    BY <1>0, <1>13
  <2>3. /\ \A y \in D \ {x, pid} : SameBody(nd2[y], nd[y])
        /\ \A y \in D \ {x, pid} : nd2[y].parent = IF Moves(new, y) THEN nid ELSE nd[y].parent
    BY <1>10, <2>2
  <2> QED
    BY <1>6, <1>7, <1>9, <1>13, <2>1, <2>3 DEF Divided, at
<1>15. Tree(D \cup {nid}, nd2, root, RangesAfter(D, R, x, nid, sep),
            HeightsAfter(D, h, x, nid))
  <2>1. pid = nd[x].parent /\ Halves(nd[x], R[x], rest, new, sep) /\ x \in D \ {root}
    BY <1>0 DEF pid
  <2>2. Tree(D, nd, root, R, h)
    BY DEF nd
  <2> HIDE DEF x, nid
  <2> QED
    BY <1>3, <1>14, <2>1, <2>2, SplitTree
<1>16. \E R2, h2 : Tree(D \cup NewNodes, On(node', D \cup NewNodes), root', R2, h2)
  BY <1>5, <1>12, <1>15 DEF nd2
<1>17. AfterSplit(rest, new)
  <2>1. DOMAIN node' = 1 .. nid /\ \A y \in N : y \in 1 .. nid
    BY <1>3, <1>5
  <2>2. \A y \in 1 .. nid \ {x, nid, pid} : y \in N /\ SameBody(node'[y], node[y])
    BY <1>3, <1>10
  <2> QED
    BY <1>1, <1>3, <1>5, <1>6, <1>7, <1>8, <1>9, <2>1, <2>2 DEF AfterSplit
<1>18. node' \in [1 .. allocated' -> Cell] /\ hot_' \in D \cup NewNodes
  BY <1>1, <1>3, <1>5, <1>11
<1> QED
  BY <1>16, <1>17, <1>18

\* A node that differs in its parent only falls into the same halves.
LEMMA HalvesOfBody ==
  ASSUME NEW u, NEW v, SameBody(u, v), NEW range, NEW rest, NEW new, NEW sep,
         Halves(v, range, rest, new, sep)
  PROVE  Halves(u, range, rest, new, sep)
<1>1. u.isLeaf = v.isLeaf /\ u.k = v.k /\ u.n = v.n
  BY DEF SameBody
<1> QED
  BY <1>1 DEF Halves, Part

\* A split of the root: a new root is put over it, and then it is split below that.
LEMMA SplitRoot ==
  ASSUME NEW D, D \subseteq 1 .. allocated, node \in [1 .. allocated -> Cell],
         NEW R, NEW h, Tree(D, On(node, D), root, R, h),
         allocated \in Nat \ {0}, hot_ = root,
         NEW rest \in Cell, NEW new \in Cell, NEW sep, NEW moved,
         Halves(node[hot_], R[hot_], rest, new, sep), node[hot_].k[1] \in R[hot_],
         \A y \in 1 .. allocated : y \in moved <=> Moves(new, y),
         Split(node[hot_], rest, new, sep, moved)
  PROVE  /\ \E R2, h2 : Tree(D \cup NewNodes, On(node', D \cup NewNodes), root', R2, h2)
         /\ AfterSplit(rest, new)
         /\ node' \in [1 .. allocated' -> Cell] /\ hot_' \in D \cup NewNodes
<1> DEFINE N == 1 .. allocated
           x == hot_
           nid == allocated + 1
           pid == allocated + 2
           D1 == D \cup {pid}
           nd == On(node, D)
           nd1 == [y \in D1 |-> IF y = pid THEN NewRoot(x)
                                ELSE IF y = x THEN [node[x] EXCEPT !.parent = pid]
                                ELSE node[y]]
           R1 == RangesGrown(D, R, pid)
           h1 == HeightsGrown(D, h, root, pid)
           p == NewRoot(x)
           q == PutBehind(p, 1, sep, nid)
<1>0. nd \in [D -> Cell] /\ \A y \in D : nd[y] = node[y] /\ y \in N
  BY DEF On
<1>1. /\ nid \in Nat \ {0} /\ pid \in Nat \ {0} /\ nid # pid /\ nid \notin N /\ pid \notin N
      /\ N \cup {nid, pid} = 1 .. pid /\ x \in D /\ x \in N
      /\ nid \notin D /\ pid \notin D
  BY DEF Tree, TreeTypes
<1>2. /\ sep \in Int /\ R[x] \subseteq Int /\ D \subseteq Nat
      /\ R \in [D -> SUBSET Int]
  BY <1>1 DEF Tree, TreeTypes, Halves
<1>3. p \in Cell /\ ~p.isLeaf /\ p.k = <<>> /\ Len(p.k) = 0 /\ p.n = << x >> /\ Len(p.n) = 1
  BY <1>1, <1>2 DEF NewRoot, Inner, NoNode, Cell
<1>4. \A w \in Int : Rank(p.k, w) = 0
  <2>1. Sorted(p.k) /\ p.k \in Seq(Int)
    BY <1>3 DEF Sorted, Cell
  <2>2. 0 \in 0 .. Len(p.k) /\ \A w \in Int : \A i \in 1 .. Len(p.k) : p.k[i] <= w <=> i <= 0
    BY <1>3
  <2> HIDE DEF p
  <2> QED
    BY <2>1, <2>2, RankIs
<1>5. Rank(p.k, sep) + 1 = 1 /\ Rank(p.k, node[x].k[1]) + 1 = 1
  BY <1>2, <1>4
<1>6. /\ allocated' = pid /\ root' = pid /\ hot_' = pid
      /\ node' = [y \in 1 .. pid |->
                    IF y = x THEN [rest EXCEPT !.parent = pid]
                    ELSE IF y = nid THEN [new EXCEPT !.parent = pid]
                    ELSE IF y = pid THEN q
                    ELSE IF y \in moved THEN [node[y] EXCEPT !.parent = nid]
                    ELSE node[y]]
  BY <1>5 DEF Split, PutBehind
<1>7. /\ q \in Cell /\ q.isLeaf = p.isLeaf /\ q.parent = p.parent
      /\ q.k = InsertAt(p.k, 1, sep) /\ q.n = InsertAt(p.n, 1 + 1, nid)
      /\ Len(q.k) = 1
  <2>1. nid \in Nat /\ 1 \in 1 .. Len(p.k) + 1 /\ Len(p.n) = Len(p.k) + 1
    BY <1>1, <1>3
  <2> DEFINE at == 1
             qq == PutBehind(p, at, sep, nid)
  <2>2. p \in Cell /\ sep \in Int /\ at \in 1 .. Len(p.k) + 1
    BY <1>2, <1>3
  <2>4. Len(p.k) = 0
    BY <1>3
  <2> HIDE DEF nid, p, at
  <2>3. /\ qq \in Cell /\ qq.isLeaf = p.isLeaf /\ qq.parent = p.parent
        /\ qq.k = InsertAt(p.k, at, sep) /\ qq.n = InsertAt(p.n, at + 1, nid)
        /\ Len(qq.k) = Len(p.k) + 1
    BY <2>1, <2>2, PutBehindFields
  <2> QED
    BY <2>3, <2>4 DEF at
<1> HIDE DEF p, q, nd
<1>8. /\ nd1 \in [D1 -> Cell]
      /\ SameBody(nd1[x], node[x]) /\ nd1[x].parent = pid /\ nd1[pid] = p
      /\ \A y \in D \ {x} : nd1[y] = node[y]
  <2>1. [node[x] EXCEPT !.parent = pid] \in Cell
    BY <1>1, <1>2 DEF Cell
  <2>2. \A y \in D : node[y] \in Cell
    BY <1>0
  <2> HIDE DEF pid
  <2> QED
    BY <1>1, <1>2, <1>3, <2>1, <2>2 DEF SameBody, p, Cell
<1> HIDE DEF nd1
<1>9. Grown(D, nd, root, pid, nd1)
  BY <1>0, <1>1, <1>8 DEF Grown, p
<1>10. Tree(D1, nd1, pid, R1, h1)
  <2>1. Tree(D, nd, root, R, h)
    BY DEF nd
  <2> QED
    BY <1>1, <1>9, <2>1, GrowTree
<1>11. R1[x] = R[x]
  BY <1>1 DEF RangesGrown
<1>12. Halves(nd1[x], R1[x], rest, new, sep)
  BY <1>8, <1>11, HalvesOfBody
<1>13. /\ node'[x] = [rest EXCEPT !.parent = pid] /\ node'[nid] = [new EXCEPT !.parent = pid]
       /\ node'[pid] = q
       /\ \A y \in N \ {x} :
            node'[y] = IF y \in moved THEN [node[y] EXCEPT !.parent = nid] ELSE node[y]
  BY <1>1, <1>6
<1>14. /\ node'[x] \in Cell /\ SameBody(node'[x], rest) /\ node'[x].parent = pid
       /\ node'[nid] \in Cell /\ SameBody(node'[nid], new) /\ node'[nid].parent = pid
  BY <1>1, <1>13 DEF Cell, SameBody
<1>15. ASSUME NEW y \in N \ {x}
       PROVE  /\ node'[y] \in Cell /\ SameBody(node'[y], node[y])
              /\ node'[y].parent = IF Moves(new, y) THEN nid ELSE node[y].parent
  <2>1. node[y] \in Cell /\ (y \in moved <=> Moves(new, y))
    OBVIOUS
  <2> HIDE DEF nid
  <2>2. CASE y \in moved
    <3>1. node'[y] = [node[y] EXCEPT !.parent = nid]
      BY <1>13, <2>2
    <3> QED
      BY <1>1, <2>1, <2>2, <3>1 DEF Cell, SameBody
  <2>3. CASE y \notin moved
    <3>1. node'[y] = node[y]
      BY <1>13, <2>3
    <3> QED
      BY <1>1, <2>1, <2>3, <3>1 DEF Cell, SameBody
  <2> QED
    BY <2>2, <2>3
<1>16. node' \in [N \cup {nid, pid} -> Cell]
  <2>1. \A y \in N \cup {nid, pid} : node'[y] \in Cell
    BY <1>7, <1>13, <1>14, <1>15
  <2>2. node' = [y \in N \cup {nid, pid} |-> node'[y]]
    BY <1>1, <1>6
  <2> QED
    BY <2>1, <2>2
<1>17. D1 \cup {nid} = D \cup NewNodes
  <2>1. NewNodes = {nid, pid}
    BY <1>6 DEF NewNodes
  <2> QED
    BY <2>1
<1> DEFINE nd2 == On(node', D1 \cup {nid})
<1>18. /\ nd2 \in [D1 \cup {nid} -> Cell]
       /\ \A y \in D1 \cup {nid} : nd2[y] = node'[y]
  <2>1. \A y \in D1 \cup {nid} : y \in N \cup {nid, pid}
    BY <1>0
  <2> HIDE DEF D1, N, nid, pid
  <2> QED
    BY <1>16, <2>1 DEF On
<1> HIDE DEF nd2
<1>19. Divided(D1, nd1, x, nid, pid, sep, rest, new, nd2)
  <2>1. nd2[x] = node'[x] /\ nd2[nid] = node'[nid] /\ nd2[pid] = node'[pid]
    BY <1>1, <1>18
  <2>2. ASSUME NEW y \in D1 \ {x, pid}
        PROVE  /\ SameBody(nd2[y], nd1[y])
               /\ nd2[y].parent = IF Moves(new, y) THEN nid ELSE nd1[y].parent
    <3>1. y \in D \ {x} /\ y \in N \ {x} /\ nd2[y] = node'[y] /\ nd1[y] = node[y]
      BY <1>0, <1>8, <1>18, <2>2
    <3> HIDE DEF N, nid
    <3> QED
      BY <1>15, <3>1
  <2> HIDE DEF N, nid, pid
  <2> QED
    BY <1>1, <1>5, <1>7, <1>8, <1>13, <1>14, <1>18, <2>1, <2>2 DEF Divided
<1>20. Tree(D1 \cup {nid}, nd2, pid, RangesAfter(D1, R1, x, nid, sep),
            HeightsAfter(D1, h1, x, nid))
  <2>1. pid = nd1[x].parent /\ x \in D1 \ {pid} /\ nid \notin D1
    BY <1>1, <1>8
  <2> QED
    BY <1>1, <1>10, <1>12, <1>19, <2>1, SplitTree
<1>21. \E R2, h2 : Tree(D \cup NewNodes, On(node', D \cup NewNodes), root', R2, h2)
  BY <1>6, <1>17, <1>20 DEF nd2
<1>22. AfterSplit(rest, new)
  <2>1. DOMAIN node' = 1 .. pid /\ (\A y \in N : y \in 1 .. pid) /\ nid \in 1 .. pid
    BY <1>1, <1>6
  <2>2. \A y \in 1 .. pid \ {x, nid, pid} : y \in N /\ SameBody(node'[y], node[y])
    BY <1>1, <1>15
  <2> HIDE DEF pid, N
  <2>3. pid \in 1 .. pid /\ pid # x /\ pid # nid /\ ~node'[pid].isLeaf /\ Len(node'[pid].k) = 1
    BY <1>1, <1>3, <1>7, <1>13
  <2> QED
    BY <1>1, <1>6, <1>14, <2>1, <2>2, <2>3 DEF AfterSplit, N
<1>23. node' \in [1 .. allocated' -> Cell] /\ hot_' \in D \cup NewNodes
  BY <1>1, <1>6, <1>16, <1>17
<1> QED
  BY <1>21, <1>22, <1>23

-----------------------------------------------------------------------------
(* Entries and searches.                                                    *)

\* A change of the entries of leaves, in their ranges, leaves a tree.
LEMMA LeafTree ==
  ASSUME NEW D, NEW nd, NEW rt, NEW R, NEW h, Tree(D, nd, rt, R, h),
         NEW nd2 \in [D -> Cell],
         \A y \in D : /\ nd2[y].isLeaf = nd[y].isLeaf /\ nd2[y].parent = nd[y].parent
                      /\ ~nd[y].isLeaf => SameBody(nd2[y], nd[y])
                      /\ Sound(nd2[y], R[y])
  PROVE  Tree(D, nd2, rt, R, h)
<1>1. TreeTypes(D, nd2, rt, R, h) /\ TreeNodes(D, nd2, R, h) /\ TreeApart(D, R, h)
  BY DEF Tree, TreeTypes, TreeNodes
<1>2. TreeChildren(D, nd2, rt, R, h)
  <2> SUFFICES ASSUME NEW x \in D, ~nd2[x].isLeaf, NEW i \in 1 .. Len(nd2[x].n)
               PROVE  ChildAt(D, nd2, R, h, x, i) /\ nd2[x].n[i] # rt
    BY DEF TreeChildren
  <2>1. ~nd[x].isLeaf /\ SameBody(nd2[x], nd[x]) /\ nd2[x].n = nd[x].n
    BY DEF SameBody
  <2>2. ChildAt(D, nd, R, h, x, i) /\ nd[x].n[i] # rt
    BY <2>1 DEF Tree, TreeChildren
  <2>3. Part(nd2[x], R[x], i) = Part(nd[x], R[x], i)
    BY <2>1, PartOfBody
  <2> QED
    BY <2>1, <2>2, <2>3 DEF ChildAt
<1>3. TreeParents(D, nd2, rt, h)
  <2> SUFFICES ASSUME NEW x \in D \ {rt} PROVE HasParent(D, nd2, x) /\ h[x] < h[rt]
    BY DEF TreeParents
  <2>1. HasParent(D, nd, x) /\ h[x] < h[rt]
    BY DEF Tree, TreeParents
  <2> DEFINE q == nd[x].parent
  <2>2. q \in D /\ ~nd[q].isLeaf /\ \E i \in 1 .. Len(nd[q].n) : nd[q].n[i] = x
    BY <2>1 DEF HasParent
  <2>3. SameBody(nd2[q], nd[q]) /\ nd2[q].n = nd[q].n /\ ~nd2[q].isLeaf /\ nd2[x].parent = q
    BY <2>2 DEF SameBody
  <2> QED
    BY <2>1, <2>2, <2>3 DEF HasParent
<1> QED
  BY <1>1, <1>2, <1>3 DEF Tree

\* A leaf with an entry more.
PutEntry(v, a, b) ==
  [v EXCEPT !.k = InsertAt(v.k, Rank(v.k, a) + 1, a), !.n = InsertAt(v.n, Rank(v.k, a) + 1, b)]

\* A key that is new to a leaf, and in its range, is entered with its record.
LEMMA EntryInLeaf ==
  ASSUME NEW v, NEW range, range \subseteq Int, Sound(v, range), v.isLeaf,
         NEW a \in range, a \notin ToSet(v.k), NEW b \in Nat
  PROVE  /\ Sound(PutEntry(v, a, b), range)
         /\ PutEntry(v, a, b).isLeaf /\ PutEntry(v, a, b).parent = v.parent
         /\ Len(PutEntry(v, a, b).k) = Len(v.k) + 1
         /\ \A c, d : Pair(PutEntry(v, a, b), c, d) <=> Pair(v, c, d) \/ (c = a /\ d = b)
<1> DEFINE at == Rank(v.k, a) + 1
           kk == InsertAt(v.k, at, a)
           nn == InsertAt(v.n, at, b)
           len == Len(v.k)
           u == PutEntry(v, a, b)
<1>1. /\ v \in Cell /\ v.k \in Seq(Int) /\ v.n \in Seq(Nat) /\ Sorted(v.k) /\ a \in Int
      /\ Len(v.n) = len /\ \A i \in 1 .. len : v.k[i] \in range
  BY DEF Sound, Cell
<1>2. \A i \in 1 .. len : v.k[i] # a
  BY <1>1 DEF ToSet
<1>3. at \in 1 .. len + 1
  <2>1. Rank(v.k, a) \in 0 .. len
    BY <1>1, RankOfSorted
  <2> QED
    BY <1>1, <2>1
<1>4. Inserted(Int, v.k, at, a, kk) /\ WithKey(v.k, a, kk)
  BY <1>1, <1>2, InsertKey
<1> HIDE DEF at
<1>5. Inserted(Nat, v.n, at, b, nn)
  BY <1>1, <1>3, InsertAtProperties
<1> HIDE DEF kk, nn
<1>6. /\ kk \in Seq(Int) /\ Len(kk) = len + 1 /\ Sorted(kk)
      /\ nn \in Seq(Nat) /\ Len(nn) = len + 1
      /\ \A i \in 1 .. len + 1 : kk[i] \in range
  BY <1>1, <1>4, <1>5 DEF Inserted, WithKey
<1>7. u = [v EXCEPT !.k = kk, !.n = nn]
  BY DEF PutEntry, kk, nn, at
<1> HIDE DEF u
<1>8. u \in Cell /\ u.isLeaf /\ u.k = kk /\ u.n = nn /\ u.parent = v.parent
  BY <1>1, <1>6, <1>7 DEF Cell
<1>9. Sound(u, range)
  BY <1>6, <1>8 DEF Sound
<1>10. Shifted(v.k, len, at, a, kk) /\ Shifted(v.n, len, at, b, nn)
  <2>1. Shifted(v.k, len, at, a, kk)
    BY <1>1, <1>3, <1>4, InsertedElements
  <2>2. Shifted(v.n, len, at, b, nn)
    BY <1>1, <1>3, <1>5, InsertedElements
  <2> QED
    BY <2>1, <2>2
<1> HIDE DEF len
<1>11. ASSUME NEW c, NEW d
       PROVE  Pair(u, c, d) <=> Pair(v, c, d) \/ (c = a /\ d = b)
  <2>1. ASSUME NEW i \in 1 .. len, v.k[i] = c, v.n[i] = d
        PROVE  Pair(u, c, d)
    <3>1. CASE i < at
      <4>1. i \in 1 .. Len(kk) /\ kk[i] = c /\ nn[i] = d
        BY <1>10, <2>1, <3>1 DEF Shifted
      <4> QED
        BY <1>8, <4>1 DEF Pair
    <3>2. CASE ~(i < at)
      <4>1. i + 1 \in 1 .. Len(kk) /\ kk[i + 1] = c /\ nn[i + 1] = d
        BY <1>10, <2>1, <3>2 DEF Shifted
      <4> QED
        BY <1>8, <4>1 DEF Pair
    <3> QED
      BY <3>1, <3>2
  <2>2. Pair(u, a, b)
    <3>1. at \in 1 .. Len(kk) /\ kk[at] = a /\ nn[at] = b
      BY <1>10 DEF Shifted
    <3> QED
      BY <1>8, <3>1 DEF Pair
  <2>3. ASSUME NEW i \in 1 .. Len(kk), kk[i] = c, nn[i] = d
        PROVE  Pair(v, c, d) \/ (c = a /\ d = b)
    <3>1. len \in Nat /\ len = Len(v.k) /\ Len(kk) = Len(nn)
      BY <1>6, <1>10 DEF Shifted, len
    <3>2. CASE i < at
      <4>1. i \in 1 .. len /\ v.k[i] = c /\ v.n[i] = d
        BY <1>10, <2>3, <3>1, <3>2 DEF Shifted
      <4> QED
        BY <3>1, <4>1 DEF Pair
    <3>3. CASE i = at
      <4>1. kk[at] = a /\ nn[at] = b
        BY <1>10 DEF Shifted
      <4> QED
        BY <2>3, <3>3, <4>1
    <3>4. CASE i > at
      <4>1. i - 1 \in 1 .. len /\ v.k[i - 1] = c /\ v.n[i - 1] = d
        BY <1>10, <2>3, <3>1, <3>4 DEF Shifted
      <4> QED
        BY <3>1, <4>1 DEF Pair
    <3>5. at \in Int
      BY <1>3
    <3> QED
      BY <3>2, <3>3, <3>4, <3>5
  <2> QED
    BY <1>8, <2>1, <2>2, <2>3 DEF Pair, len
<1>12. Len(u.k) = Len(v.k) + 1
  BY <1>6, <1>8 DEF len
<1> QED
  BY <1>8, <1>9, <1>11, <1>12 DEF u

\* The child that searchEntry goes on to has the key in its range.
LEMMA DescendInTree ==
  ASSUME NEW D, NEW nd, NEW rt, NEW R, NEW h, Tree(D, nd, rt, R, h),
         NEW x \in D, ~nd[x].isLeaf, NEW w \in R[x]
  PROVE  /\ nd[x].n[Rank(nd[x].k, w) + 1] \in D
         /\ w \in R[nd[x].n[Rank(nd[x].k, w) + 1]]
<1> DEFINE i == Rank(nd[x].k, w) + 1
<1>1. Sound(nd[x], R[x]) /\ nd[x].k \in Seq(Int) /\ w \in Int
  BY DEF Tree, TreeTypes, TreeNodes, Sound, Cell
<1>2. Rank(nd[x].k, w) \in 0 .. Len(nd[x].k) /\ Len(nd[x].n) = Len(nd[x].k) + 1
  BY <1>1, RankOfSorted DEF Sound
<1>3. i \in 1 .. Len(nd[x].n) /\ Rank(nd[x].k, w) = i - 1
  BY <1>1, <1>2
<1> HIDE DEF i
<1>4. ChildAt(D, nd, R, h, x, i)
  BY <1>3 DEF Tree, TreeChildren
<1>5. nd[x].n[i] \in D /\ w \in R[nd[x].n[i]]
  BY <1>3, <1>4 DEF ChildAt, Part
<1> QED
  BY <1>5 DEF i

-----------------------------------------------------------------------------
(* The invariant.                                                           *)

\* The entry <<a, b>> is in the index.
HasEntry(a, b) == \E x \in Leaves : Pair(node[x], a, b)

\* The nodes are numbered from 1 to allocated.
LEMMA TreeDomain ==
  ASSUME NEW R, NEW h, TreeState(R, h)
  PROVE  /\ DOMAIN node = 1 .. allocated /\ Nodes = 1 .. allocated
         /\ node \in [1 .. allocated -> Cell] /\ root \in 1 .. allocated
BY DEF TreeState, Tree, TreeTypes, Nodes

\* A step that splits a node into halves keeps the invariant and the entries.
LEMMA SplitStep ==
  ASSUME CallTypes, NodeSizes, SizeBound, op = "fix",
         NEW R, NEW h, TreeState(R, h),
         NEW rest \in Cell, NEW new \in Cell, NEW sep, NEW moved,
         Halves(node[hot_], R[hot_], rest, new, sep), node[hot_].k[1] \in R[hot_],
         HalfFull(rest), HalfFull(new),
         \A y \in 1 .. allocated : y \in moved <=> Moves(new, y),
         node[hot_].isLeaf =>
           \A a, b : Pair(node[hot_], a, b) <=> Pair(rest, a, b) \/ Pair(new, a, b),
         Split(node[hot_], rest, new, sep, moved)
  PROVE  IInv' /\ \A a, b : HasEntry(a, b)' <=> HasEntry(a, b)
<1> DEFINE D == 1 .. allocated
           nid == allocated + 1
           B == B_PLUS_TREE_BRANCH
<1>1. /\ DOMAIN node = D /\ Nodes = D /\ node \in [D -> Cell] /\ root \in D
      /\ allocated \in Nat \ {0} /\ hot_ \in D
      /\ B \in Nat /\ B \div 2 \in Nat /\ 1 <= B
  BY TreeDomain, BPlusTreeAssumption DEF CallTypes
<1>2. /\ \E R2, h2 : Tree(1 .. allocated', node', root', R2, h2)
      /\ AfterSplit(rest, new)
  <2>1. Tree(D, On(node, D), root, R, h)
    <3>1. On(node, D) = node
      BY <1>1 DEF On
    <3> QED
      BY <3>1 DEF TreeState
  <2>2. /\ \E R2, h2 : Tree(D \cup NewNodes, On(node', D \cup NewNodes), root', R2, h2)
        /\ AfterSplit(rest, new) /\ node' \in [1 .. allocated' -> Cell]
    BY <1>1, <2>1, SplitBelowRoot, SplitRoot
  <2>3. allocated' \in Nat /\ allocated' >= allocated
    BY <1>1 DEF Split
  <2>4. D \cup NewNodes = 1 .. allocated'
    BY <1>1, <2>3 DEF NewNodes
  <2>5. On(node', D \cup NewNodes) = node'
    BY <2>2, <2>4 DEF On
  <2> QED
    BY <2>2, <2>4, <2>5
<1>3. op' = "fix" /\ key' = key /\ record' = record
  BY DEF Split
<1>4. CallTypes'
  BY <1>2, <1>3 DEF CallTypes, AfterSplit
<1> DEFINE pid == hot_'
           D2 == 1 .. allocated'
<1>5. /\ DOMAIN node' = D2 /\ nid \in D2 /\ (\A y \in D : y \in D2) /\ allocated' \in Nat \ {0}
      /\ SameBody(node'[hot_], rest) /\ SameBody(node'[nid], new)
      /\ pid \in D2 /\ pid # hot_ /\ pid # nid /\ ~node'[pid].isLeaf
      /\ \A y \in D2 \ {hot_, nid, pid} : y \in D /\ SameBody(node'[y], node[y])
  BY <1>2 DEF AfterSplit
<1>6. \/ root' = pid /\ Len(node'[pid].k) = 1 /\ pid \notin D /\ hot_ = root
      \/ /\ root' = root /\ pid \in D /\ ~node[pid].isLeaf
         /\ Len(node'[pid].k) = Len(node[pid].k) + 1
  BY <1>2 DEF AfterSplit
<1>7. nid \notin D
  BY <1>1
<1> HIDE DEF D, D2, nid, pid, B
<1>8. Nodes' = D2
  BY <1>5 DEF Nodes
<1>9. \A y \in D : /\ Len(node[y].k) \in Nat /\ Len(node[y].k) <= B + 1
                   /\ Len(node[y].k) > B => y = hot_
                   /\ y # root => Len(node[y].k) >= B \div 2
  BY <1>1 DEF NodeSizes, SizeBound, Size, Overfull, Cell, B
<1>10. ASSUME NEW y \in D2
       PROVE  /\ Len(node'[y].k) \in Nat /\ Len(node'[y].k) <= B + 1
              /\ Len(node'[y].k) > B => y = pid
              /\ y # root' => Len(node'[y].k) >= B \div 2
  <2>1. CASE y = hot_ \/ y = nid
    <3>1. node'[y].k = rest.k \/ node'[y].k = new.k
      BY <1>5, <2>1 DEF SameBody
    <3>2. Len(node'[y].k) \in Nat /\ Len(node'[y].k) <= B /\ Len(node'[y].k) >= B \div 2
      BY <3>1 DEF HalfFull, Cell, B
    <3> QED
      BY <1>1, <3>2
  <2>2. CASE y = pid
    <3>1. CASE root' = pid /\ Len(node'[pid].k) = 1 /\ pid \notin D
      BY <1>1, <2>2, <3>1
    <3>2. CASE root' = root /\ pid \in D /\ Len(node'[pid].k) = Len(node[pid].k) + 1
      <4>1. /\ Len(node[pid].k) \in Nat /\ Len(node[pid].k) <= B
            /\ pid # root => Len(node[pid].k) >= B \div 2
        BY <1>1, <1>5, <1>9, <3>2
      <4> QED
        BY <1>1, <2>2, <3>2, <4>1
    <3> QED
      BY <1>6, <3>1, <3>2
  <2>3. CASE y \notin {hot_, nid, pid}
    <3>1. y \in D /\ node'[y].k = node[y].k
      BY <1>5, <2>3 DEF SameBody
    <3>2. y = root => y = root'
      BY <1>1, <1>6, <2>3
    <3>4. CASE root' = root
      BY <1>9, <2>3, <3>1, <3>4
    <3>5. CASE root' = pid /\ pid \notin D
      BY <1>9, <2>3, <3>1, <3>2, <3>5
    <3> QED
      BY <1>6, <3>4, <3>5
  <2> QED
    BY <2>1, <2>2, <2>3
<1>11. NodeSizes' /\ SizeBound'
  BY <1>3, <1>8, <1>10 DEF NodeSizes, SizeBound, Size, Overfull, B, pid
<1>12. \E R2, h2 : TreeState(R2, h2)'
  BY <1>2, <1>3 DEF TreeState
<1>13. IInv'
  BY <1>4, <1>11, <1>12 DEF IInv
<1>14. ASSUME NEW a, NEW b
       PROVE  HasEntry(a, b)' <=> HasEntry(a, b)
  <2>1. HasEntry(a, b) <=> \E y \in D : node[y].isLeaf /\ Pair(node[y], a, b)
    BY <1>1 DEF HasEntry, Leaves, D
  <2>2. HasEntry(a, b)' <=> \E y \in D2 : node'[y].isLeaf /\ Pair(node'[y], a, b)
    BY <1>8 DEF HasEntry, Leaves
  <2>3. \A u, v : SameBody(u, v) => u.isLeaf = v.isLeaf /\ (Pair(u, a, b) <=> Pair(v, a, b))
    BY DEF SameBody, Pair
  <2>4. rest.isLeaf = node[hot_].isLeaf /\ new.isLeaf = node[hot_].isLeaf
    BY DEF Halves
  <2>5. ASSUME NEW y \in D, node[y].isLeaf, Pair(node[y], a, b)
        PROVE  \E z \in D2 : node'[z].isLeaf /\ Pair(node'[z], a, b)
    <3>1. CASE y = hot_
      <4>1. /\ Pair(rest, a, b) \/ Pair(new, a, b)
            /\ rest.isLeaf /\ new.isLeaf
        BY <2>4, <2>5, <3>1
      <4>2. CASE Pair(rest, a, b)
        BY <1>1, <1>5, <2>3, <4>1, <4>2 DEF D
      <4>3. CASE Pair(new, a, b)
        BY <1>5, <2>3, <4>1, <4>3
      <4> QED
        BY <4>1, <4>2, <4>3
    <3>2. CASE y # hot_
      <4>1. y # nid /\ y # pid
        BY <1>6, <1>7, <2>5
      <4> QED
        BY <1>5, <2>3, <2>5, <3>2, <4>1
    <3> QED
      BY <3>1, <3>2
  <2>6. ASSUME NEW y \in D2, node'[y].isLeaf, Pair(node'[y], a, b)
        PROVE  \E z \in D : node[z].isLeaf /\ Pair(node[z], a, b)
    <3>1. CASE y = hot_ \/ y = nid
      <4>1. node[hot_].isLeaf /\ (Pair(rest, a, b) \/ Pair(new, a, b))
        BY <1>5, <2>3, <2>4, <2>6, <3>1
      <4> QED
        BY <1>1, <4>1 DEF D
    <3>2. CASE y # hot_ /\ y # nid
      <4>1. y # pid
        BY <1>5, <2>6
      <4> QED
        BY <1>5, <2>3, <2>6, <3>2, <4>1
    <3> QED
      BY <3>1, <3>2
  <2> QED
    BY <2>1, <2>2, <2>5, <2>6
<1> QED
  BY <1>13, <1>14

\* Keys are integers, records are numbers, and no record is the mark for none.
LEMMA RowTypes == Keys \subseteq Int /\ Records \subseteq Nat /\ None \notin Records
BY BPlusTreeAssumption DEF Keys, Records, None

\* solveOverFlow of a leaf and of an inner node keep the invariant and the entries.
LEMMA SplitInv ==
  ASSUME IInv, SplitLeaf \/ SplitInner
  PROVE  IInv' /\ \A a, b : HasEntry(a, b)' <=> HasEntry(a, b)
<1>1. PICK R, h : TreeState(R, h)
  BY DEF IInv
<1> DEFINE v == node[hot_]
<1>2. op = "fix" /\ Overfull(hot_) /\ CallTypes /\ NodeSizes /\ SizeBound
  BY DEF SplitLeaf, SplitInner, IInv
<1>3. hot_ \in 1 .. allocated /\ hot_ \in Nodes
  BY <1>1, <1>2, TreeDomain DEF CallTypes
<1>4. Sound(v, R[hot_]) /\ R[hot_] \subseteq Int /\ v \in Cell
  BY <1>1, <1>3 DEF TreeState, Tree, TreeTypes, TreeNodes, Sound
<1>5. Len(v.k) = B_PLUS_TREE_BRANCH + 1
  <2>1. Len(v.k) \in Nat /\ B_PLUS_TREE_BRANCH \in Nat
    BY <1>4, BPlusTreeAssumption DEF Cell
  <2>2. Len(v.k) > B_PLUS_TREE_BRANCH /\ Len(v.k) <= B_PLUS_TREE_BRANCH + 1
    BY <1>2, <1>3 DEF Overfull, SizeBound, Size
  <2> QED
    BY <2>1, <2>2
<1>6. v.k[1] \in R[hot_]
  <2>1. 1 \in 1 .. Len(v.k)
    BY <1>5, BPlusTreeAssumption
  <2> QED
    BY <1>4, <2>1 DEF Sound
<1>7. CASE SplitLeaf
  <2> DEFINE rest == LeafRest(v)
             new == LeafNew(v)
             sep == new.k[1]
  <2>1. v.isLeaf /\ Split(v, rest, new, sep, {})
    BY <1>7 DEF SplitLeaf, LeafRest, LeafNew
  <2>2. /\ Halves(v, R[hot_], rest, new, sep)
        /\ HalfFull(rest) /\ HalfFull(new) /\ rest \in Cell /\ new \in Cell
        /\ \A a, b : Pair(v, a, b) <=> Pair(rest, a, b) \/ Pair(new, a, b)
    BY <1>4, <1>5, <2>1, LeafHalves
  <2>3. \A y \in 1 .. allocated : y \in {} <=> Moves(new, y)
    BY DEF Moves, LeafNew, Leaf
  <2> HIDE DEF rest, new, sep, v
  <2> QED
    BY <1>1, <1>2, <1>6, <2>1, <2>2, <2>3, SplitStep DEF v
<1>8. CASE SplitInner
  <2> DEFINE rest == InnerRest(v)
             new == InnerNew(v)
             sep == v.k[half + 1]
  <2>1. ~v.isLeaf /\ Split(v, rest, new, sep, ToSet(new.n))
    BY <1>8 DEF SplitInner, InnerRest, InnerNew
  <2>2. /\ Halves(v, R[hot_], rest, new, sep)
        /\ HalfFull(rest) /\ HalfFull(new) /\ rest \in Cell /\ new \in Cell
    BY <1>4, <1>5, <2>1, InnerHalves
  <2>3. ~new.isLeaf /\ new.n \in Seq(Nat)
    BY <2>2 DEF InnerNew, Inner, Cell
  <2> HIDE DEF rest, new, sep
  <2>4. \A y \in 1 .. allocated : y \in ToSet(new.n) <=> Moves(new, y)
    BY <2>3 DEF Moves, ToSet
  <2> QED
    BY <1>1, <1>2, <1>6, <2>1, <2>2, <2>4, SplitStep DEF v
<1> QED
  BY <1>7, <1>8

\* The entry insertEntry makes keeps the invariant, and is the only new one.
LEMMA InsertInLeafInv ==
  ASSUME IInv, InsertInLeaf
  PROVE  IInv' /\ \A a, b : HasEntry(a, b)' <=> HasEntry(a, b) \/ (a = key /\ b = record)
<1>1. PICK R, h : TreeState(R, h)
  BY DEF IInv
<1> DEFINE v == node[hot_]
           u == PutEntry(v, key, record)
           D == 1 .. allocated
<1>2. /\ CallTypes /\ NodeSizes /\ SizeBound
      /\ op = "search" /\ v.isLeaf /\ record # None /\ key \notin ToSet(v.k)
  BY DEF IInv, InsertInLeaf
<1>3. hot_ \in D /\ key \in R[hot_] /\ record \in Nat /\ allocated \in Nat \ {0}
  BY <1>1, <1>2, RowTypes DEF CallTypes, TreeState
<1>4. Tree(D, node, root, R, h) /\ DOMAIN node = D /\ Nodes = D /\ node \in [D -> Cell]
  BY <1>1, TreeDomain DEF TreeState
<1>5. R[hot_] \subseteq Int /\ \A y \in D : Sound(node[y], R[y])
  BY <1>3, <1>4 DEF Tree, TreeTypes, TreeNodes
<1>6. /\ Sound(u, R[hot_]) /\ u.isLeaf /\ u.parent = v.parent /\ Len(u.k) = Len(v.k) + 1
      /\ \A c, d : Pair(u, c, d) <=> Pair(v, c, d) \/ (c = key /\ d = record)
  BY <1>2, <1>3, <1>5, EntryInLeaf
<1> HIDE DEF u
<1>7. /\ node' = [node EXCEPT ![hot_] = u]
      /\ op' = "fix" /\ allocated' = allocated /\ root' = root /\ hot_' = hot_
      /\ key' = key /\ record' = record
  <2>1. node' = [node EXCEPT ![hot_].k = InsertAt(v.k, Rank(v.k, key) + 1, key),
                             ![hot_].n = InsertAt(v.n, Rank(v.k, key) + 1, record)]
    BY DEF InsertInLeaf
  <2>2. node' = [node EXCEPT ![hot_] = u]
    BY <1>3, <1>4, <2>1 DEF u, PutEntry
  <2> QED
    BY <2>2 DEF InsertInLeaf
<1>8. /\ node'[hot_] = u /\ (\A y \in D \ {hot_} : node'[y] = node[y])
      /\ DOMAIN node' = D /\ node' \in [D -> Cell]
  <2>1. u \in Cell
    BY <1>6 DEF Sound
  <2> QED
    BY <1>3, <1>4, <1>7, <2>1
<1>9. Tree(D, node', root, R, h)
  <2>1. ASSUME NEW y \in D
        PROVE  /\ node'[y].isLeaf = node[y].isLeaf /\ node'[y].parent = node[y].parent
               /\ ~node[y].isLeaf => SameBody(node'[y], node[y])
               /\ Sound(node'[y], R[y])
    <3>1. CASE y = hot_
      <4>1. u.isLeaf = v.isLeaf
        BY <1>2, <1>3, <1>4, <1>6 DEF Sound, Cell
      <4> QED
        BY <1>2, <1>6, <1>8, <3>1, <4>1
    <3>2. CASE y # hot_
      BY <1>5, <1>8, <3>2 DEF SameBody
    <3> QED
      BY <3>1, <3>2
  <2> QED
    BY <1>4, <1>8, <2>1, LeafTree
<1>10. TreeState(R, h)'
  BY <1>7, <1>9 DEF TreeState
<1>11. CallTypes'
  BY <1>2, <1>7 DEF CallTypes
<1>12. NodeSizes' /\ SizeBound'
  <2> DEFINE B == B_PLUS_TREE_BRANCH
  <2>1. ASSUME NEW y \in D
        PROVE  /\ Len(node'[y].k) <= B + 1
               /\ Len(node'[y].k) > B => y = hot_
               /\ y # root => Len(node'[y].k) >= B \div 2
    <3>1. /\ Len(node[y].k) \in Nat /\ Len(node[y].k) <= B
          /\ y # root => Len(node[y].k) >= B \div 2
          /\ B \in Nat /\ B \div 2 \in Nat
      BY <1>2, <1>4, BPlusTreeAssumption DEF NodeSizes, SizeBound, Size, Overfull, Cell
    <3>2. CASE y = hot_
      BY <1>6, <1>8, <3>1, <3>2
    <3>3. CASE y # hot_
      BY <1>8, <3>1, <3>3
    <3> QED
      BY <3>2, <3>3
  <2> QED
    BY <1>7, <1>8, <2>1 DEF NodeSizes, SizeBound, Size, Overfull, Nodes
<1>13. ASSUME NEW a, NEW b
       PROVE  HasEntry(a, b)' <=> HasEntry(a, b) \/ (a = key /\ b = record)
  <2>1. HasEntry(a, b) <=> \E y \in D : node[y].isLeaf /\ Pair(node[y], a, b)
    BY <1>4 DEF HasEntry, Leaves
  <2>2. HasEntry(a, b)' <=> \E y \in D : node'[y].isLeaf /\ Pair(node'[y], a, b)
    BY <1>8 DEF HasEntry, Leaves, Nodes
  <2>3. \A y \in D \ {hot_} : node'[y] = node[y]
    BY <1>8
  <2>4. /\ node'[hot_].isLeaf /\ node[hot_].isLeaf
        /\ Pair(node'[hot_], a, b) <=> Pair(node[hot_], a, b) \/ (a = key /\ b = record)
    BY <1>2, <1>6, <1>8
  <2> HIDE DEF D
  <2> QED
    BY <1>3, <2>1, <2>2, <2>3, <2>4
<1> QED
  BY <1>10, <1>11, <1>12, <1>13 DEF IInv

\* The other steps keep the nodes.
LEMMA CallInv ==
  ASSUME IInv,
         \/ Descend \/ Answer \/ Settle \/ UNCHANGED vars
         \/ \E k \in Keys, r \in Records \cup {None} : Begin(k, r)
  PROVE  IInv' /\ \A a, b : HasEntry(a, b)' <=> HasEntry(a, b)
<1>1. UNCHANGED tree
  BY DEF Descend, Answer, Settle, Begin, vars, tree
<1>2. node' = node /\ allocated' = allocated /\ root' = root
  BY <1>1 DEF tree
<1>3. \A a, b : HasEntry(a, b)' <=> HasEntry(a, b)
  BY <1>2 DEF HasEntry, Leaves, Nodes
<1>4. PICK R, h : TreeState(R, h)
  BY DEF IInv
<1>5. CallTypes /\ NodeSizes /\ SizeBound /\ Tree(1 .. allocated, node, root, R, h)
  BY <1>4 DEF IInv, TreeState
<1>6. SizeBound' /\ Nodes' = Nodes
  BY <1>2, <1>5 DEF SizeBound, Nodes, Size
<1>7. /\ (op' = "fix" /\ hot_' = hot_ <=> op = "fix") \/ \A x \in Nodes : ~Overfull(x)
      /\ CallTypes' /\ (op' = "search" => key' \in R[hot_'])
  <2>1. op # "fix" => \A x \in Nodes : ~Overfull(x)
    BY <1>5 DEF NodeSizes
  <2>2. CASE Descend
    <3>1. op = "search" /\ op' = op /\ key' = key /\ record' = record
      BY <2>2 DEF Descend
    <3>2. hot_ \in 1 .. allocated /\ ~node[hot_].isLeaf /\ key \in R[hot_]
      BY <1>4, <1>5, <2>2, <3>1 DEF CallTypes, Descend, TreeState
    <3>3. hot_' \in 1 .. allocated /\ key \in R[hot_']
      BY <1>5, <2>2, <3>2, DescendInTree DEF Descend
    <3> QED
      BY <1>2, <1>5, <2>1, <3>1, <3>3 DEF CallTypes
  <2>3. CASE Answer
    BY <1>2, <1>5, <2>1, <2>3 DEF Answer, CallTypes
  <2>4. CASE Settle
    <3>1. op = "fix" /\ op' = "idle" /\ ~Overfull(hot_)
      BY <2>4 DEF Settle
    <3>2. \A x \in Nodes : ~Overfull(x)
      BY <1>5, <3>1 DEF NodeSizes
    <3> QED
      BY <1>2, <1>5, <3>1, <3>2 DEF CallTypes
  <2>5. CASE \E k \in Keys, r \in Records \cup {None} : Begin(k, r)
    <3>1. /\ op = "idle" /\ op' = "search" /\ hot_' = root
          /\ key' \in Keys /\ record' \in Records \cup {None}
      BY <2>5 DEF Begin
    <3>2. root \in 1 .. allocated /\ R[root] = Int
      BY <1>5 DEF Tree, TreeTypes
    <3> QED
      BY <1>2, <1>5, <2>1, <3>1, <3>2, RowTypes DEF CallTypes
  <2>6. CASE UNCHANGED vars
    <3>1. op' = op /\ key' = key /\ record' = record /\ hot_' = hot_
      BY <2>6 DEF vars, call
    <3> QED
      BY <1>2, <1>4, <1>5, <2>1, <3>1 DEF CallTypes, TreeState
  <2> QED
    BY <2>2, <2>3, <2>4, <2>5, <2>6
<1>8. NodeSizes'
  <2>1. \A x \in Nodes : Overfull(x)' = Overfull(x) /\ Size(x)' = Size(x)
    BY <1>2 DEF Overfull, Size
  <2> QED
    BY <1>2, <1>5, <1>6, <1>7, <2>1 DEF NodeSizes
<1>9. TreeState(R, h)'
  BY <1>2, <1>5, <1>7 DEF TreeState
<1> QED
  BY <1>3, <1>6, <1>7, <1>8, <1>9 DEF IInv

\* createIndex makes a tree of one empty leaf.
LEMMA InitInv ==
  ASSUME Init
  PROVE  IInv /\ \A a, b : ~HasEntry(a, b)
<1> DEFINE v == Leaf(<<>>, <<>>, NoNode)
           D == 1 .. 1
           R == [x \in D |-> Int]
           h == [x \in D |-> 0]
<1>1. /\ node = <<v>> /\ allocated = 1 /\ root = 1 /\ op = "idle"
  BY DEF Init
<1>2. v \in Cell /\ v.isLeaf /\ v.k = <<>> /\ v.n = <<>> /\ Len(v.k) = 0 /\ Sorted(v.k)
  BY DEF Leaf, NoNode, Cell, Sorted
<1>3. D = {1} /\ node \in [D -> Cell] /\ node[1] = v /\ DOMAIN node = D
  BY <1>1, <1>2
<1>4. Tree(D, node, 1, R, h)
  <2>1. Sound(v, Int)
    BY <1>2 DEF Sound
  <2>2. TreeTypes(D, node, 1, R, h)
    BY <1>3 DEF TreeTypes
  <2>3. TreeNodes(D, node, R, h)
    BY <1>2, <1>3, <2>1 DEF TreeNodes
  <2>4. TreeChildren(D, node, 1, R, h) /\ TreeParents(D, node, 1, h) /\ TreeApart(D, R, h)
    BY <1>2, <1>3 DEF TreeChildren, TreeParents, TreeApart
  <2> QED
    BY <2>2, <2>3, <2>4 DEF Tree
<1>5. TreeState(R, h) /\ CallTypes
  BY <1>1, <1>4 DEF TreeState, CallTypes
<1>6. NodeSizes /\ SizeBound
  <2>1. \A x \in Nodes : x = 1 /\ Size(x) = 0
    BY <1>2, <1>3 DEF Nodes, Size
  <2> QED
    BY <1>1, <2>1, BPlusTreeAssumption DEF NodeSizes, SizeBound, Overfull
<1>7. ASSUME NEW a, NEW b PROVE ~HasEntry(a, b)
  BY <1>2, <1>3 DEF HasEntry, Leaves, Nodes, Pair
<1> QED
  BY <1>5, <1>6, <1>7 DEF IInv

\* Each iteration of searchEntry, each entry and each call of solveOverFlow keeps the
\* invariant.
LEMMA NextInv ==
  ASSUME IInv, [Next]_vars
  PROVE  IInv'
<1>1. CASE InsertInLeaf
  BY <1>1, InsertInLeafInv
<1>2. CASE SplitLeaf \/ SplitInner
  BY <1>2, SplitInv
<1>3. CASE \E row \in Rows : Begin(row[1], row[2])
  BY <1>3, CallInv DEF Keys, Records
<1>4. CASE \E k \in Keys : Begin(k, None)
  BY <1>4, CallInv
<1>5. CASE Descend \/ Answer \/ Settle \/ UNCHANGED vars
  BY <1>5, CallInv
<1> QED
  BY <1>1, <1>2, <1>3, <1>4, <1>5 DEF Next, Work

\* The invariant holds in every state.
THEOREM TreeInvariant == Spec => []IInv
<1>1. Init => IInv
  BY InitInv
<1>2. IInv /\ [Next]_vars => IInv'
  BY NextInv
<1> QED
  BY <1>1, <1>2, PTL DEF Spec

\* The keys of a node are in its range.
LEMMA KeysInRange ==
  ASSUME NEW v, NEW range, Sound(v, range)
  PROVE  ToSet(v.k) \subseteq range
<1>1. v.k \in Seq(Int) /\ \A i \in 1 .. Len(v.k) : v.k[i] \in range
  BY DEF Sound, Cell
<1> QED
  BY <1>1 DEF ToSet

\* The range of a node has its keys, and no other node of the same height has any of them.
LEMMA LeafOfKey ==
  ASSUME NEW R, NEW h, TreeState(R, h),
         NEW x \in Leaves, NEW w \in ToSet(node[x].k), NEW y \in Leaves, w \in R[y]
  PROVE  x = y
<1>1. x \in 1 .. allocated /\ node[x].isLeaf /\ y \in 1 .. allocated /\ node[y].isLeaf
  BY TreeDomain DEF Leaves
<1>2. w \in R[x] /\ h[x] = 0 /\ h[y] = 0
  <2>1. /\ Sound(node[x], R[x]) /\ (node[x].isLeaf <=> h[x] = 0)
        /\ node[y].isLeaf <=> h[y] = 0
    BY <1>1 DEF TreeState, Tree, TreeNodes
  <2> QED
    BY <1>1, <2>1, KeysInRange
<1> QED
  BY <1>1, <1>2 DEF TreeState, Tree, TreeApart

\* A search that has come to a leaf has come to the one whose range has the key.
LEMMA InvSearchExact == IInv => SearchExact
<1> SUFFICES ASSUME IInv, op = "search", hot_ \in Leaves,
                    NEW x \in Leaves, key \in ToSet(node[x].k)
             PROVE  key \in ToSet(node[hot_].k)
  BY DEF SearchExact
<1>1. PICK R, h : TreeState(R, h)
  BY DEF IInv
<1>2. key \in R[hot_]
  BY <1>1 DEF TreeState
<1> QED
  BY <1>1, <1>2, LeafOfKey

\* The sizes are part of the invariant.
LEMMA InvNodeSizes == IInv => NodeSizes
BY DEF IInv

-----------------------------------------------------------------------------
(* Recursive definitions: there is a function that they fit, and by        *)
(* induction on the height every such function is as the ranges have it.   *)

\* What the tree says of a child, in the words of the model.
LEMMA ChildrenInTree ==
  ASSUME NEW R, NEW h, TreeState(R, h), NEW x \in Nodes \ Leaves, NEW i \in 1 .. Len(node[x].n)
  PROVE  /\ node[x].n[i] \in Nodes \ {root} /\ node[node[x].n[i]].parent = x
         /\ h[x] = h[node[x].n[i]] + 1
         /\ R[node[x].n[i]] = Part(node[x], R[x], i)
         /\ \A j \in 1 .. Len(node[x].n) : node[x].n[j] = node[x].n[i] => j = i
<1>1. x \in 1 .. allocated /\ ~node[x].isLeaf /\ Nodes = 1 .. allocated
  BY TreeDomain DEF Leaves
<1>2. ChildAt(1 .. allocated, node, R, h, x, i) /\ node[x].n[i] # root
  BY <1>1 DEF TreeState, Tree, TreeChildren
<1> QED
  BY <1>1, <1>2 DEF ChildAt

\* The children of an inner node are the elements of n.
LEMMA ChildrenAre ==
  ASSUME IInv, NEW x \in Nodes \ Leaves
  PROVE  Children(x) = {node[x].n[i] : i \in 1 .. Len(node[x].n)}
<1>1. PICK R, h : TreeState(R, h)
  BY DEF IInv
<1>2. ~node[x].isLeaf /\ node[x].n \in Seq(Nat)
  BY <1>1, TreeDomain DEF Leaves, Cell
<1> QED
  BY <1>2 DEF Children, ToSet

\* What fits the definition of KeysBelow.
FitsBelow(g) ==
  g = [x \in Nodes |-> IF node[x].isLeaf THEN ToSet(node[x].k)
                       ELSE UNION {g[c] : c \in Children(x)}]

\* Whatever fits the definition of KeysBelow has, below a node, keys of its range only: a
\* node of least height below which there is another key has a child with the same fault.
LEMMA BelowInRange ==
  ASSUME IInv, NEW R, NEW h, TreeState(R, h), NEW g, FitsBelow(g)
  PROVE  \A x \in Nodes : g[x] \subseteq R[x]
<1> DEFINE S == {h[x] : x \in {y \in Nodes : ~(g[y] \subseteq R[y])}}
<1>1. Nodes = 1 .. allocated /\ h \in [Nodes -> Nat]
  BY TreeDomain DEF TreeState, Tree, TreeTypes
<1> SUFFICES ASSUME S # {} PROVE FALSE
  OBVIOUS
<1>2. S \subseteq Nat
  BY <1>1
<1>3. PICK m \in S : \A n \in S : m <= n
  <2> HIDE DEF S
  <2> QED
    BY <1>2, LeastNumber
<1>4. PICK x \in Nodes : h[x] = m /\ ~(g[x] \subseteq R[x])
  BY <1>3
<1>5. \A y \in Nodes : h[y] < h[x] => g[y] \subseteq R[y]
  <2> SUFFICES ASSUME NEW y \in Nodes, h[y] < h[x], ~(g[y] \subseteq R[y]) PROVE FALSE
    OBVIOUS
  <2>1. h[y] \in S
    OBVIOUS
  <2> HIDE DEF S
  <2>2. m <= h[y] /\ h[y] \in Nat /\ m \in Nat
    BY <1>2, <1>3, <2>1
  <2> QED
    BY <1>4, <2>2
<1> HIDE DEF S
<1>6. CASE node[x].isLeaf
  <2>1. g[x] = ToSet(node[x].k)
    BY <1>6 DEF FitsBelow
  <2>2. Sound(node[x], R[x])
    BY <1>1 DEF TreeState, Tree, TreeNodes
  <2> QED
    BY <1>4, <2>1, <2>2, KeysInRange
<1>7. CASE ~node[x].isLeaf
  <2>1. g[x] = UNION {g[c] : c \in Children(x)}
    BY <1>7 DEF FitsBelow
  <2>2. x \in Nodes \ Leaves
    BY <1>7 DEF Leaves
  <2>3. ASSUME NEW c \in Children(x) PROVE g[c] \subseteq R[x]
    <3>1. PICK i \in 1 .. Len(node[x].n) : c = node[x].n[i]
      BY <2>2, ChildrenAre
    <3>2. c \in Nodes /\ h[x] = h[c] + 1 /\ R[c] \subseteq R[x]
      BY <2>2, <3>1, ChildrenInTree DEF Part
    <3>3. h[c] < h[x]
      BY <1>1, <3>2
    <3> QED
      BY <1>5, <3>2, <3>3
  <2> QED
    BY <1>4, <2>1, <2>3
<1> QED
  BY <1>6, <1>7

\* KeysBelow fits its definition: the keys of all leaves, cut to the ranges, do.
LEMMA BelowExists ==
  ASSUME IInv
  PROVE  FitsBelow(KeysBelow)
<1>1. PICK R, h : TreeState(R, h)
  BY DEF IInv
<1> DEFINE K == {w \in Int : \E l \in Leaves : w \in ToSet(node[l].k)}
           g == [x \in Nodes |-> R[x] \cap K]
<1>2. Nodes = 1 .. allocated /\ node \in [Nodes -> Cell] /\ R \in [Nodes -> SUBSET Int]
  BY <1>1, TreeDomain DEF TreeState, Tree, TreeTypes
<1>3. \A x \in Nodes : Sound(node[x], R[x])
  BY <1>1, <1>2 DEF TreeState, Tree, TreeNodes
<1>4. ASSUME NEW x \in Nodes, node[x].isLeaf
      PROVE  g[x] = ToSet(node[x].k)
  <2>1. x \in Leaves
    BY <1>4 DEF Leaves
  <2>2. ASSUME NEW w \in ToSet(node[x].k) PROVE w \in g[x]
    <3>1. w \in R[x] /\ w \in Int
      BY <1>2, <1>3 DEF Sound, ToSet, Cell
    <3> QED
      BY <2>1, <3>1
  <2>3. ASSUME NEW w \in g[x] PROVE w \in ToSet(node[x].k)
    BY <1>1, <2>1, LeafOfKey
  <2> QED
    BY <2>2, <2>3
<1>5. ASSUME NEW x \in Nodes, ~node[x].isLeaf
      PROVE  g[x] = UNION {g[c] : c \in Children(x)}
  <2>1. x \in Nodes \ Leaves
    BY <1>5 DEF Leaves
  <2>2. ASSUME NEW w \in g[x] PROVE \E c \in Children(x) : w \in g[c]
    <3> DEFINE i == Rank(node[x].k, w) + 1
    <3>1. w \in R[x] /\ w \in K /\ w \in Int /\ node[x].k \in Seq(Int) /\ Sorted(node[x].k)
      BY <1>2, <1>3 DEF Sound, Cell
    <3>2. Rank(node[x].k, w) \in 0 .. Len(node[x].k) /\ Len(node[x].n) = Len(node[x].k) + 1
      BY <1>3, <1>5, <3>1, RankOfSorted DEF Sound
    <3>3. i \in 1 .. Len(node[x].n) /\ Rank(node[x].k, w) = i - 1
      BY <3>1, <3>2
    <3> HIDE DEF i
    <3>4. node[x].n[i] \in Nodes /\ w \in R[node[x].n[i]]
      BY <1>1, <2>1, <3>1, <3>3, ChildrenInTree DEF Part
    <3>5. node[x].n[i] \in Children(x)
      BY <2>1, <3>3, ChildrenAre
    <3> QED
      BY <3>1, <3>4, <3>5
  <2>3. ASSUME NEW c \in Children(x), NEW w \in g[c] PROVE w \in g[x]
    <3>1. PICK i \in 1 .. Len(node[x].n) : c = node[x].n[i]
      BY <2>1, ChildrenAre
    <3>2. c \in Nodes /\ R[c] \subseteq R[x]
      BY <1>1, <2>1, <3>1, ChildrenInTree DEF Part
    <3> QED
      BY <3>2
  <2> QED
    BY <2>2, <2>3
<1>6. FitsBelow(g)
  <2> DEFINE e(x) == IF node[x].isLeaf THEN ToSet(node[x].k)
                     ELSE UNION {g[c] : c \in Children(x)}
  <2>1. \A x \in Nodes : g[x] = e(x)
    BY <1>4, <1>5
  <2>2. g = [x \in Nodes |-> g[x]]
    OBVIOUS
  <2> HIDE DEF g
  <2>3. g = [x \in Nodes |-> e(x)]
    BY <2>1, <2>2
  <2> QED
    BY <2>3 DEF FitsBelow
<1> HIDE DEF g
<1>7. KeysBelow = CHOOSE f : FitsBelow(f)
  BY DEF KeysBelow, FitsBelow
<1> QED
  BY <1>6, <1>7

\* A key below the ith child has rank i - 1 in the node, so it is on the right side of each
\* separator.
LEMMA InvSeparatorsHold == IInv => SeparatorsHold
<1> SUFFICES ASSUME IInv, NEW x \in Nodes \ Leaves, NEW i \in 1 .. Size(x)
             PROVE  /\ \A c \in KeysBelow[node[x].n[i]] : c < node[x].k[i]
                    /\ \A c \in KeysBelow[node[x].n[i + 1]] : node[x].k[i] <= c
  BY DEF SeparatorsHold
<1>1. PICK R, h : TreeState(R, h)
  BY DEF IInv
<1>2. \A y \in Nodes : KeysBelow[y] \subseteq R[y]
  BY <1>1, BelowExists, BelowInRange
<1> DEFINE k == node[x].k
<1>3. /\ k \in Seq(Int) /\ Sorted(k) /\ Len(node[x].n) = Len(k) + 1 /\ R[x] \subseteq Int
  <2>1. Nodes = 1 .. allocated /\ R \in [Nodes -> SUBSET Int]
    BY <1>1, TreeDomain DEF TreeState, Tree, TreeTypes
  <2>2. ~node[x].isLeaf /\ Sound(node[x], R[x])
    BY <1>1, <2>1 DEF TreeState, Tree, TreeNodes, Leaves
  <2> QED
    BY <2>1, <2>2 DEF Sound, Cell
<1>4. /\ i \in 1 .. Len(k) /\ i \in 1 .. Len(node[x].n) /\ i + 1 \in 1 .. Len(node[x].n)
      /\ i \in Nat /\ k[i] \in Int
  <2>1. i \in 1 .. Len(k) /\ Len(k) \in Nat
    BY <1>3 DEF Size
  <2> QED
    BY <1>3, <2>1
<1> HIDE DEF k
<1>5. ASSUME NEW j \in 1 .. Len(node[x].n), NEW c \in KeysBelow[node[x].n[j]]
      PROVE  c \in Int /\ Rank(k, c) = j - 1 /\ (k[i] <= c <=> i <= j - 1)
  <2>1. c \in Part(node[x], R[x], j)
    BY <1>1, <1>2, ChildrenInTree
  <2>2. c \in Int /\ Rank(k, c) = j - 1
    BY <1>3, <2>1 DEF Part, k
  <2>3. k[i] <= c <=> i <= Rank(k, c)
    BY <1>3, <1>4, <2>2, RankOfSorted
  <2> QED
    BY <2>2, <2>3
<1>6. ASSUME NEW c \in KeysBelow[node[x].n[i]] PROVE c < k[i]
  <2>1. c \in Int /\ (k[i] <= c <=> i <= i - 1)
    BY <1>4, <1>5
  <2> QED
    BY <1>4, <2>1
<1>7. ASSUME NEW c \in KeysBelow[node[x].n[i + 1]] PROVE k[i] <= c
  <2>1. k[i] <= c <=> i <= (i + 1) - 1
    BY <1>4, <1>5
  <2> QED
    BY <1>4, <2>1
<1> QED
  BY <1>6, <1>7 DEF k

\* What fits the definition of Depth.
FitsDepth(g) == g = [x \in Nodes |-> IF x = root THEN 0 ELSE g[node[x].parent] + 1]

\* A node but the root is a child of the node it names as its parent, which is higher.
LEMMA ParentInTree ==
  ASSUME NEW R, NEW h, TreeState(R, h), NEW x \in Nodes \ {root}
  PROVE  /\ node[x].parent \in Nodes \ Leaves /\ h[node[x].parent] = h[x] + 1
         /\ h[x] < h[root]
         /\ x \in Children(node[x].parent)
<1> DEFINE q == node[x].parent
<1>1. Nodes = 1 .. allocated /\ node \in [Nodes -> Cell]
  BY TreeDomain
<1>2. HasParent(Nodes, node, x) /\ h[x] < h[root]
  BY <1>1 DEF TreeState, Tree, TreeParents
<1>3. q \in Nodes \ Leaves /\ ~node[q].isLeaf
  BY <1>2 DEF HasParent, Leaves
<1>4. PICK i \in 1 .. Len(node[q].n) : node[q].n[i] = x
  BY <1>2 DEF HasParent
<1>5. h[q] = h[x] + 1
  BY <1>3, <1>4, ChildrenInTree
<1>6. x \in Children(q)
  BY <1>1, <1>3, <1>4 DEF Children, ToSet, Cell
<1> QED
  BY <1>2, <1>3, <1>5, <1>6

\* Depth fits its definition: the distance of the heights to that of the root does.
LEMMA DepthExists ==
  ASSUME IInv
  PROVE  FitsDepth(Depth)
<1>1. PICK R, h : TreeState(R, h)
  BY DEF IInv
<1>2. Nodes = 1 .. allocated /\ h \in [Nodes -> Nat] /\ root \in Nodes
  BY <1>1, TreeDomain DEF TreeState, Tree, TreeTypes
<1> DEFINE g == [x \in Nodes |-> h[root] - h[x]]
<1>3. ASSUME NEW x \in Nodes PROVE g[x] = IF x = root THEN 0 ELSE g[node[x].parent] + 1
  <2>1. CASE x = root
    <3>1. h[root] \in Nat
      BY <1>2
    <3> QED
      BY <2>1, <3>1
  <2>2. CASE x # root
    <3>1. node[x].parent \in Nodes /\ h[node[x].parent] = h[x] + 1
      BY <1>1, <2>2, ParentInTree
    <3>2. h[root] \in Nat /\ h[x] \in Nat
      BY <1>2
    <3> QED
      BY <2>2, <3>1, <3>2
  <2> QED
    BY <2>1, <2>2
<1>4. FitsDepth(g)
  <2> DEFINE e(x) == IF x = root THEN 0 ELSE g[node[x].parent] + 1
  <2>1. \A x \in Nodes : g[x] = e(x)
    BY <1>3
  <2>2. g = [x \in Nodes |-> g[x]]
    OBVIOUS
  <2> HIDE DEF g
  <2>3. g = [x \in Nodes |-> e(x)]
    BY <2>1, <2>2
  <2> QED
    BY <2>3 DEF FitsDepth
<1> HIDE DEF g
<1>5. Depth = CHOOSE f : FitsDepth(f)
  BY DEF Depth, FitsDepth
<1> QED
  BY <1>4, <1>5

\* Whatever fits the definition of Depth is that distance, by induction on it.
LEMMA DepthIsHeight ==
  ASSUME IInv, NEW R, NEW h, TreeState(R, h), NEW g, FitsDepth(g)
  PROVE  \A x \in Nodes : g[x] = h[root] - h[x]
<1> DEFINE S == {h[root] - h[x] : x \in {y \in Nodes : g[y] # h[root] - h[y]}}
<1>1. /\ Nodes = 1 .. allocated /\ h \in [Nodes -> Nat] /\ root \in Nodes
      /\ h[root] \in Nat /\ \A x \in Nodes : h[x] \in Nat
  BY TreeDomain DEF TreeState, Tree, TreeTypes
<1> SUFFICES ASSUME S # {} PROVE FALSE
  OBVIOUS
<1>2. S \subseteq Nat
  <2> SUFFICES ASSUME NEW x \in Nodes PROVE h[root] - h[x] \in Nat
    OBVIOUS
  <2>1. x # root => h[x] < h[root]
    BY ParentInTree
  <2> QED
    BY <1>1, <2>1
<1>3. PICK m \in S : \A n \in S : m <= n
  <2> HIDE DEF S
  <2> QED
    BY <1>2, LeastNumber
<1>4. PICK x \in Nodes : h[root] - h[x] = m /\ g[x] # h[root] - h[x]
  BY <1>3
<1>5. CASE x = root
  <2>1. g[x] = 0
    BY <1>5 DEF FitsDepth
  <2> QED
    BY <1>1, <1>4, <1>5, <2>1
<1>6. CASE x # root
  <2> DEFINE q == node[x].parent
  <2>1. q \in Nodes /\ h[q] = h[x] + 1
    BY <1>6, ParentInTree
  <2>2. g[x] = g[q] + 1
    BY <1>6 DEF FitsDepth
  <2> HIDE DEF q
  <2>3. g[q] # h[root] - h[q]
    BY <1>1, <1>4, <2>1, <2>2
  <2>4. h[root] - h[q] \in S
    BY <2>1, <2>3
  <2> HIDE DEF S
  <2>5. m <= h[root] - h[q]
    BY <1>3, <2>4
  <2> QED
    BY <1>1, <1>4, <2>1, <2>5
<1> QED
  BY <1>5, <1>6

\* Parents and children agree, and as all leaves have height 0 they are equally deep.
LEMMA InvTreeShape == IInv => TreeShape
<1> SUFFICES ASSUME IInv PROVE TreeShape
  OBVIOUS
<1>1. PICK R, h : TreeState(R, h)
  BY DEF IInv
<1>2. Nodes = 1 .. allocated /\ node \in [Nodes -> Cell]
  BY <1>1, TreeDomain
<1>3. ASSUME NEW x \in Nodes \ Leaves
      PROVE  /\ IsInjective(node[x].n)
             /\ \A c \in Children(x) : c \in Nodes \ {root} /\ node[c].parent = x
  <2>1. \A i \in 1 .. Len(node[x].n) :
          /\ node[x].n[i] \in Nodes \ {root} /\ node[node[x].n[i]].parent = x
          /\ \A j \in 1 .. Len(node[x].n) : node[x].n[j] = node[x].n[i] => j = i
    BY <1>1, ChildrenInTree
  <2>2. node[x].n \in Seq(Nat)
    BY <1>2 DEF Cell
  <2>3. IsInjective(node[x].n)
    BY <2>1, <2>2 DEF IsInjective
  <2> QED
    BY <2>1, <2>3, ChildrenAre
<1>4. UNION {Children(x) : x \in Nodes} = Nodes \ {root}
  <2>1. ASSUME NEW x \in Nodes, NEW c \in Children(x) PROVE c \in Nodes \ {root}
    <3>1. x \in Nodes \ Leaves
      BY <2>1 DEF Children, Leaves
    <3> QED
      BY <1>3, <3>1
  <2>2. ASSUME NEW c \in Nodes \ {root} PROVE \E x \in Nodes : c \in Children(x)
    BY <1>1, ParentInTree
  <2> QED
    BY <2>1, <2>2
<1>5. ASSUME NEW x \in Leaves PROVE Depth[x] = h[root]
  <2>1. x \in Nodes /\ h[x] = 0 /\ h[root] \in Nat
    BY <1>1, <1>2, TreeDomain DEF Leaves, TreeState, Tree, TreeTypes, TreeNodes
  <2>2. Depth[x] = h[root] - h[x]
    BY <1>1, <2>1, DepthExists, DepthIsHeight
  <2> QED
    BY <2>1, <2>2
<1> QED
  BY <1>3, <1>4, <1>5 DEF TreeShape

-----------------------------------------------------------------------------
(* The theorems about a tree that is kept in memory, for every branching    *)
(* factor and any number of nodes.                                          *)

\* A search that has come to a leaf finds the key there if any leaf has it, after any number
\* of splits (Index::searchEntry).
THEOREM SearchesExact == Spec => []SearchExact
BY InvSearchExact, TreeInvariant, PTL

\* The keys of a node separate what is below its children, also between two calls of
\* solveOverFlow.
THEOREM SeparatorsKept == Spec => []SeparatorsHold
BY InvSeparatorsHold, TreeInvariant, PTL

\* Every node but the root is the child of the one node it names as its parent, once, and all
\* leaves are equally deep.
THEOREM ShapeKept == Spec => []TreeShape
BY InvTreeShape, TreeInvariant, PTL

\* Only the node that solveOverFlow is called for has a key too many, and all but the root are
\* at least half full.
THEOREM NodesFilled == Spec => []NodeSizes
BY InvNodeSizes, TreeInvariant, PTL

-----------------------------------------------------------------------------
(* The index is a map.                                                      *)

\* RecordOf is the record of the only entry with the key.
RecordsFound ==
  \A a : /\ (\E b : HasEntry(a, b)) => HasEntry(a, RecordOf(a))
         /\ \A b : HasEntry(a, b) => b = RecordOf(a)
         /\ (\A b : ~HasEntry(a, b)) => RecordOf(a) = None

\* No key is in two leaves, or twice in one, so RecordOf finds the record it was entered with.
LEMMA RecordsAreFound == IInv => RecordsFound
<1> SUFFICES ASSUME IInv, NEW a
             PROVE  /\ (\E b : HasEntry(a, b)) => HasEntry(a, RecordOf(a))
                    /\ \A b : HasEntry(a, b) => b = RecordOf(a)
                    /\ (\A b : ~HasEntry(a, b)) => RecordOf(a) = None
  BY DEF RecordsFound
<1>1. PICK R, h : TreeState(R, h)
  BY DEF IInv
<1>2. Nodes = 1 .. allocated /\ \A x \in Nodes : Sound(node[x], R[x]) /\ node[x].k \in Seq(Int)
  BY <1>1, TreeDomain DEF TreeState, Tree, TreeNodes, Sound, Cell
<1>3. ASSUME NEW x \in Leaves, NEW i \in 1 .. Size(x), node[x].k[i] = a,
             NEW y \in Leaves, NEW j \in 1 .. Size(y), node[y].k[j] = a
      PROVE  x = y /\ i = j
  <2>1. x \in Nodes /\ y \in Nodes /\ a \in ToSet(node[x].k) /\ a \in R[y]
    BY <1>2, <1>3 DEF Leaves, Sound, Size, ToSet
  <2>2. x = y
    BY <1>1, <2>1, LeafOfKey
  <2>3. Sorted(node[x].k) /\ node[x].k \in Seq(Int)
    BY <1>2, <2>1 DEF Sound
  <2>4. ~(i < j) /\ ~(j < i)
    BY <1>3, <2>2, <2>3 DEF Sorted, Size
  <2> QED
    BY <2>2, <2>4
<1>4. ASSUME NEW b, HasEntry(a, b) PROVE b = RecordOf(a)
  <2>1. PICK x \in Leaves : Pair(node[x], a, b)
    BY <1>4 DEF HasEntry
  <2>2. PICK i \in 1 .. Size(x) : node[x].k[i] = a /\ node[x].n[i] = b
    BY <2>1 DEF Pair, Size
  <2>3. a \in ToSet(node[x].k)
    BY <1>2, <2>2 DEF ToSet, Size, Leaves
  <2> DEFINE y == CHOOSE z \in Leaves : a \in ToSet(node[z].k)
             j == CHOOSE l \in 1 .. Size(y) : node[y].k[l] = a
  <2>4. y \in Leaves /\ a \in ToSet(node[y].k)
    BY <2>3
  <2>5. RecordOf(a) = node[y].n[j]
    BY <2>3 DEF RecordOf
  <2> HIDE DEF y
  <2>6. \E l \in 1 .. Size(y) : node[y].k[l] = a
    BY <1>2, <2>4 DEF ToSet, Size, Leaves
  <2>7. j \in 1 .. Size(y) /\ node[y].k[j] = a
    BY <2>6
  <2> HIDE DEF j
  <2> QED
    BY <1>3, <2>2, <2>4, <2>5, <2>7
<1>5. ASSUME \A b : ~HasEntry(a, b) PROVE RecordOf(a) = None
  <2>1. ASSUME NEW x \in Leaves, a \in ToSet(node[x].k) PROVE FALSE
    <3>1. PICK i \in 1 .. Size(x) : node[x].k[i] = a
      BY <1>2, <2>1 DEF ToSet, Size, Leaves
    <3>2. HasEntry(a, node[x].n[i])
      BY <3>1 DEF HasEntry, Pair, Size
    <3> QED
      BY <1>5, <3>2
  <2> QED
    BY <2>1 DEF RecordOf
<1> QED
  BY <1>4, <1>5

\* An index that was just created is the empty map.
LEMMA MapInit == Init => Map!Init
<1> SUFFICES ASSUME Init PROVE Map!Init
  OBVIOUS
<1>1. RecordsFound /\ \A a, b : ~HasEntry(a, b)
  BY InitInv, RecordsAreFound
<1>2. \A k \in Keys : RecordOf(k) = None
  BY <1>1 DEF RecordsFound
<1> QED
  BY <1>2 DEF Map!Init

\* insertEntry enters a key that no leaf has, and the splits move entries without changing
\* what the index maps a key to.
LEMMA MapStep ==
  ASSUME IInv, IInv', RecordsFound', [Next]_vars
  PROVE  [Map!Next]_[k \in Keys |-> RecordOf(k)]
<1> DEFINE entries == [k \in Keys |-> RecordOf(k)]
<1>1. RecordsFound
  BY RecordsAreFound
<1>2. ASSUME NEW k, \A b : HasEntry(k, b)' <=> HasEntry(k, b)
      PROVE  RecordOf(k)' = RecordOf(k)
  <2>1. CASE \E b : HasEntry(k, b)
    <3>1. PICK b : HasEntry(k, b)
      BY <2>1
    <3>2. HasEntry(k, b)'
      BY <1>2, <3>1
    <3>3. b = RecordOf(k) /\ b = RecordOf(k)'
      BY <1>1, <3>1, <3>2 DEF RecordsFound
    <3> QED
      BY <3>3
  <2>2. CASE \A b : ~HasEntry(k, b)
    <3>1. RecordOf(k) = None
      BY <1>1, <2>2 DEF RecordsFound
    <3>2. RecordOf(k)' = None
      BY <1>2, <2>2 DEF RecordsFound
    <3> QED
      BY <3>1, <3>2
  <2> QED
    BY <2>1, <2>2
<1>3. CASE \A a, b : HasEntry(a, b)' <=> HasEntry(a, b)
  <2>1. entries' = entries
    BY <1>2, <1>3
  <2> QED
    BY <2>1
<1>4. CASE InsertInLeaf
  <2>1. PICK a, r : a = key /\ r = record
    OBVIOUS
  <2>2. \A k, b : HasEntry(k, b)' <=> HasEntry(k, b) \/ (k = a /\ b = r)
    BY <1>4, <2>1, InsertInLeafInv
  <2>3. a \in Keys /\ r \in Records
    BY <1>4, <2>1 DEF IInv, CallTypes, InsertInLeaf
  <2>4. ASSUME NEW b PROVE ~HasEntry(a, b)
    <3> SUFFICES ASSUME NEW x \in Leaves, Pair(node[x], a, b) PROVE FALSE
      BY DEF HasEntry
    <3>1. PICK R, h : TreeState(R, h)
      BY DEF IInv
    <3>2. a \in R[hot_] /\ hot_ \in Leaves /\ a \notin ToSet(node[hot_].k)
      BY <1>4, <2>1, <3>1, TreeDomain DEF IInv, CallTypes, TreeState, InsertInLeaf, Leaves
    <3>3. a \in ToSet(node[x].k)
      BY <3>1, TreeDomain DEF Pair, ToSet, Leaves, Cell
    <3> QED
      BY <3>1, <3>2, <3>3, LeafOfKey
  <2>5. RecordOf(a) = None
    BY <1>1, <2>4 DEF RecordsFound
  <2>6. RecordOf(a)' = r
    <3>1. HasEntry(a, r)'
      BY <2>2
    <3> QED
      BY <3>1 DEF RecordsFound
  <2>7. \A k \in Keys : k # a => RecordOf(k)' = RecordOf(k)
    BY <1>2, <2>2
  <2>8. entries' = [k \in Keys |-> RecordOf(k)']
    OBVIOUS
  <2>9. [entries EXCEPT ![a] = r] = [k \in Keys |-> IF k = a THEN r ELSE RecordOf(k)]
    BY <2>3
  <2>10. entries' = [entries EXCEPT ![a] = r]
    BY <2>6, <2>7, <2>8, <2>9
  <2>11. Map!Enter(a, r)
    BY <2>3, <2>5, <2>10 DEF Map!Enter
  <2> QED
    BY <2>3, <2>11 DEF Map!Next
<1>5. CASE SplitLeaf \/ SplitInner
  BY <1>3, <1>5, SplitInv
<1>6. CASE \E row \in Rows : Begin(row[1], row[2])
  <2>1. \E k \in Keys, r \in Records \cup {None} : Begin(k, r)
    BY <1>6 DEF Keys, Records
  <2> QED
    BY <1>3, <2>1, CallInv
<1>7. CASE \E k \in Keys : Begin(k, None)
  BY <1>3, <1>7, CallInv
<1>8. CASE Descend \/ Answer \/ Settle \/ UNCHANGED vars
  BY <1>3, <1>8, CallInv
<1> QED
  BY <1>4, <1>5, <1>6, <1>7, <1>8 DEF Next, Work

\* The tree implements the map (IndexMap): through all splits a key keeps the record it was
\* entered with, and it is not entered twice.
THEOREM IndexIsMap == Spec => ImplementsIndexMap
<1>1. (IInv => RecordsFound)'
  BY RecordsAreFound, PTL
<1>2. IInv /\ IInv' /\ [Next]_vars => [Map!Next]_[k \in Keys |-> RecordOf(k)]
  BY <1>1, MapStep
<1> QED
  BY <1>2, MapInit, TreeInvariant, PTL DEF Spec, ImplementsIndexMap, Map!Spec

-----------------------------------------------------------------------------
(* The index file.  A root that is not saved is lost when the file is       *)
(* opened again, and with it the nodes that are not below the root in page  *)
(* 0.  What remains below that root is a tree again.                        *)

\* A set of nodes with the children of all of them.
ClosedSet(nd, S) ==
  \A y \in S : ~nd[y].isLeaf => \A i \in 1 .. Len(nd[y].n) : nd[y].n[i] \in S

\* The nodes below s, and those that a search for w from s comes to.
Below(D, nd, s) == {x \in D : \A S \in SUBSET D : s \in S /\ ClosedSet(nd, S) => x \in S}

TurnOf(nd, y, w) == nd[y].n[Rank(nd[y].k, w) + 1]

Follows(nd, S, w) == \A y \in S : ~nd[y].isLeaf => TurnOf(nd, y, w) \in S

OnWay(D, nd, s, w) == {x \in D : \A S \in SUBSET D : s \in S /\ Follows(nd, S, w) => x \in S}

RangesBelow(D, nd, s) ==
  [x \in Below(D, nd, s) |-> {w \in Int : x \in OnWay(D, nd, s, w)}]

\* A search in a tree turns to a child.
LEMMA TurnInTree ==
  ASSUME NEW D, NEW nd, NEW rt, NEW R, NEW h, Tree(D, nd, rt, R, h),
         NEW x \in D, ~nd[x].isLeaf, NEW w \in Int
  PROVE  /\ Rank(nd[x].k, w) + 1 \in 1 .. Len(nd[x].n)
         /\ ChildAt(D, nd, R, h, x, Rank(nd[x].k, w) + 1)
<1>1. Sound(nd[x], R[x]) /\ nd[x].k \in Seq(Int)
  BY DEF Tree, TreeTypes, TreeNodes, Sound, Cell
<1>2. Rank(nd[x].k, w) \in 0 .. Len(nd[x].k) /\ Len(nd[x].n) = Len(nd[x].k) + 1
  BY <1>1, RankOfSorted DEF Sound
<1>3. Rank(nd[x].k, w) + 1 \in 1 .. Len(nd[x].n)
  BY <1>1, <1>2
<1> QED
  BY <1>3 DEF Tree, TreeChildren

\* The nodes below s, s first, with what a search from s needs of them.
LEMMA BelowFacts ==
  ASSUME NEW D, NEW nd, NEW rt, NEW R, NEW h, Tree(D, nd, rt, R, h), NEW s \in D
  PROVE  LET B == Below(D, nd, s) IN
         /\ s \in B /\ B \subseteq D /\ ClosedSet(nd, B)
         /\ \A x \in B : x = s \/ h[x] < h[s]
         /\ \A x \in B \ {s} : HasParent(B, nd, x)
<1> DEFINE B == Below(D, nd, s)
<1>1. s \in B /\ B \subseteq D
  BY DEF Below
<1>2. ClosedSet(nd, B)
  <2> SUFFICES ASSUME NEW y \in B, ~nd[y].isLeaf, NEW i \in 1 .. Len(nd[y].n)
               PROVE  nd[y].n[i] \in B
    BY DEF ClosedSet
  <2>1. nd[y].n[i] \in D
    BY <1>1 DEF Tree, TreeChildren, ChildAt
  <2>2. ASSUME NEW S \in SUBSET D, s \in S, ClosedSet(nd, S) PROVE nd[y].n[i] \in S
    <3>1. y \in S
      BY <2>2 DEF Below
    <3> QED
      BY <2>2, <3>1 DEF ClosedSet
  <2> QED
    BY <2>1, <2>2 DEF Below
<1>3. \A y \in D : h[y] \in Nat
  BY DEF Tree, TreeTypes
<1>4. \A x \in B : x = s \/ h[x] < h[s]
  <2> DEFINE S == {x \in D : x = s \/ h[x] < h[s]}
  <2>1. ClosedSet(nd, S)
    <3> SUFFICES ASSUME NEW y \in S, ~nd[y].isLeaf, NEW i \in 1 .. Len(nd[y].n)
                 PROVE  nd[y].n[i] \in S
      BY DEF ClosedSet
    <3>1. nd[y].n[i] \in D /\ h[y] = h[nd[y].n[i]] + 1
      BY DEF Tree, TreeChildren, ChildAt
    <3>2. h[y] <= h[s]
      BY <1>3
    <3>3. h[nd[y].n[i]] < h[s]
      BY <1>3, <3>1, <3>2
    <3> QED
      BY <3>1, <3>3
  <2>2. s \in S /\ S \in SUBSET D
    OBVIOUS
  <2>3. \A x \in B : x \in S
    <3> HIDE DEF S
    <3> QED
      BY <2>1, <2>2 DEF Below
  <2> QED
    BY <2>3
<1>5. ASSUME NEW x \in B \ {s} PROVE HasParent(B, nd, x)
  <2> DEFINE S == B \ {x}
             q == nd[x].parent
  <2>1. ~ClosedSet(nd, S)
    <3>1. s \in S /\ S \in SUBSET D /\ x \notin S
      BY <1>1
    <3> HIDE DEF S
    <3> QED
      BY <3>1 DEF Below
  <2>2. PICK y \in S : ~nd[y].isLeaf /\ \E i \in 1 .. Len(nd[y].n) : nd[y].n[i] \notin S
    BY <2>1 DEF ClosedSet
  <2>3. PICK i \in 1 .. Len(nd[y].n) : nd[y].n[i] \notin S
    BY <2>2
  <2>4. nd[y].n[i] = x
    BY <1>2, <2>2, <2>3 DEF ClosedSet
  <2>5. nd[x].parent = y
    BY <1>1, <2>2, <2>4 DEF Tree, TreeChildren, ChildAt
  <2> QED
    BY <2>2, <2>4, <2>5 DEF HasParent
<1> QED
  BY <1>1, <1>2, <1>4, <1>5

\* The way of a search from s: it turns to one child of each node, and comes to no node
\* otherwise.
LEMMA WayFacts ==
  ASSUME NEW D, NEW nd, NEW rt, NEW R, NEW h, Tree(D, nd, rt, R, h), NEW s \in D, NEW w \in Int
  PROVE  LET V == OnWay(D, nd, s, w) IN
         /\ s \in V /\ V \subseteq Below(D, nd, s) /\ Follows(nd, V, w)
         /\ \A x \in V \ {s} : \E y \in V : /\ ~nd[y].isLeaf /\ TurnOf(nd, y, w) = x
                                            /\ nd[x].parent = y /\ h[y] = h[x] + 1
<1> DEFINE V == OnWay(D, nd, s, w)
<1>1. s \in V /\ V \subseteq D
  BY DEF OnWay
<1>2. ASSUME NEW y \in D, ~nd[y].isLeaf
      PROVE  /\ TurnOf(nd, y, w) \in D /\ nd[TurnOf(nd, y, w)].parent = y
             /\ h[y] = h[TurnOf(nd, y, w)] + 1
             /\ \E i \in 1 .. Len(nd[y].n) : nd[y].n[i] = TurnOf(nd, y, w)
  <2>1. /\ Rank(nd[y].k, w) + 1 \in 1 .. Len(nd[y].n)
        /\ ChildAt(D, nd, R, h, y, Rank(nd[y].k, w) + 1)
    BY <1>2, TurnInTree
  <2> QED
    BY <2>1 DEF TurnOf, ChildAt
<1>3. Follows(nd, V, w)
  <2> SUFFICES ASSUME NEW y \in V, ~nd[y].isLeaf PROVE TurnOf(nd, y, w) \in V
    BY DEF Follows
  <2>1. TurnOf(nd, y, w) \in D
    BY <1>1, <1>2
  <2>2. ASSUME NEW S \in SUBSET D, s \in S, Follows(nd, S, w) PROVE TurnOf(nd, y, w) \in S
    <3>1. y \in S
      BY <2>2 DEF OnWay
    <3> QED
      BY <2>2, <3>1 DEF Follows
  <2> QED
    BY <2>1, <2>2 DEF OnWay
<1>4. V \subseteq Below(D, nd, s)
  <2> SUFFICES ASSUME NEW x \in V, NEW S \in SUBSET D, s \in S, ClosedSet(nd, S) PROVE x \in S
    BY <1>1 DEF Below
  <2>1. Follows(nd, S, w)
    BY <1>2 DEF Follows, ClosedSet
  <2> QED
    BY <2>1 DEF OnWay
<1>5. ASSUME NEW x \in V \ {s}
      PROVE  \E y \in V : /\ ~nd[y].isLeaf /\ TurnOf(nd, y, w) = x
                          /\ nd[x].parent = y /\ h[y] = h[x] + 1
  <2> DEFINE S == V \ {x}
  <2>1. ~Follows(nd, S, w)
    <3>1. s \in S /\ S \in SUBSET D /\ x \notin S
      BY <1>1
    <3> HIDE DEF S
    <3> QED
      BY <3>1 DEF OnWay
  <2>2. PICK y \in S : ~nd[y].isLeaf /\ TurnOf(nd, y, w) \notin S
    BY <2>1 DEF Follows
  <2>3. TurnOf(nd, y, w) = x
    BY <1>3, <2>2 DEF Follows
  <2> QED
    BY <1>1, <1>2, <2>2, <2>3
<1> QED
  BY <1>1, <1>3, <1>4, <1>5

\* The nodes below any node of a tree are a tree, with that node for its root: a search that
\* starts there also finds what is entered below.
LEMMA TreeBelow ==
  ASSUME NEW D, NEW nd, NEW rt, NEW R, NEW h, Tree(D, nd, rt, R, h), NEW s \in D
  PROVE  LET B == Below(D, nd, s) IN
         Tree(B, On(nd, B), s, RangesBelow(D, nd, s), [x \in B |-> h[x]])
<1> DEFINE B == Below(D, nd, s)
           R2 == RangesBelow(D, nd, s)
           h2 == [x \in B |-> h[x]]
           n2 == On(nd, B)
<1>1. /\ s \in B /\ B \subseteq D /\ ClosedSet(nd, B)
      /\ \A x \in B : x = s \/ h[x] < h[s]
      /\ \A x \in B \ {s} : HasParent(B, nd, x)
  BY BelowFacts
<1>2. /\ D \subseteq Nat \ {0} /\ nd \in [D -> Cell] /\ R \in [D -> SUBSET Int] /\ h \in [D -> Nat]
  BY DEF Tree, TreeTypes
<1>3. ASSUME NEW w \in Int
      PROVE  /\ s \in OnWay(D, nd, s, w) /\ Follows(nd, OnWay(D, nd, s, w), w)
             /\ \A x \in OnWay(D, nd, s, w) \ {s} :
                  \E y \in OnWay(D, nd, s, w) : /\ ~nd[y].isLeaf /\ TurnOf(nd, y, w) = x
                                                /\ nd[x].parent = y /\ h[y] = h[x] + 1
             /\ OnWay(D, nd, s, w) \subseteq B
  BY WayFacts
<1>4. /\ R2 \in [B -> SUBSET Int]
      /\ \A x \in B : n2[x] = nd[x] /\ h2[x] = h[x] /\ h[x] \in Nat
      /\ \A x \in B, w \in Int : w \in R2[x] <=> x \in OnWay(D, nd, s, w)
      /\ n2 \in [B -> Cell] /\ h2 \in [B -> Nat]
  BY <1>1, <1>2 DEF RangesBelow, On
<1>5. R2[s] = Int
  BY <1>1, <1>3, <1>4
<1> HIDE DEF B, R2, h2, n2
<1>6. ASSUME NEW w \in Int, NEW x \in B, w \in R[x]
      PROVE  w \in R2[x]
  <2> DEFINE S == {y \in D : w \in R[y] => y \in OnWay(D, nd, s, w)}
  <2>1. ClosedSet(nd, S)
    <3> SUFFICES ASSUME NEW y \in S, ~nd[y].isLeaf, NEW i \in 1 .. Len(nd[y].n),
                        w \in R[nd[y].n[i]]
                 PROVE  nd[y].n[i] \in OnWay(D, nd, s, w)
      BY DEF ClosedSet, Tree, TreeChildren, ChildAt
    <3>1. R[nd[y].n[i]] = Part(nd[y], R[y], i)
      BY DEF Tree, TreeChildren, ChildAt
    <3>2. w \in R[y] /\ Rank(nd[y].k, w) = i - 1
      BY <3>1 DEF Part
    <3>3. TurnOf(nd, y, w) = nd[y].n[i]
      BY <3>2 DEF TurnOf
    <3> QED
      BY <1>3, <3>2, <3>3 DEF Follows
  <2>2. s \in S /\ S \in SUBSET D
    BY <1>3
  <2>3. x \in S
    <3> HIDE DEF S
    <3> QED
      BY <2>1, <2>2 DEF Below, B
  <2> QED
    BY <1>4, <1>6, <2>3
<1>7. TreeTypes(B, n2, s, R2, h2)
  BY <1>1, <1>2, <1>4, <1>5 DEF TreeTypes
<1>8. TreeNodes(B, n2, R2, h2)
  <2> SUFFICES ASSUME NEW x \in B PROVE Sound(nd[x], R2[x]) /\ (nd[x].isLeaf <=> h[x] = 0)
    BY <1>4 DEF TreeNodes
  <2>1. Sound(nd[x], R[x]) /\ (nd[x].isLeaf <=> h[x] = 0) /\ R[x] \subseteq Int
    BY <1>1, <1>2 DEF Tree, TreeNodes
  <2>2. \A i \in 1 .. Len(nd[x].k) : nd[x].k[i] \in R2[x]
    BY <1>6, <2>1 DEF Sound
  <2> QED
    BY <2>1, <2>2 DEF Sound
<1>9. TreeChildren(B, n2, s, R2, h2)
  <2> SUFFICES ASSUME NEW x \in B, ~nd[x].isLeaf, NEW i \in 1 .. Len(nd[x].n)
               PROVE  ChildAt(B, n2, R2, h2, x, i) /\ n2[x].n[i] # s
    BY <1>4 DEF TreeChildren
  <2> DEFINE c == nd[x].n[i]
  <2>1. /\ c \in D /\ nd[c].parent = x /\ h[x] = h[c] + 1
        /\ \A j \in 1 .. Len(nd[x].n) : nd[x].n[j] = c => j = i
    BY <1>1 DEF Tree, TreeChildren, ChildAt
  <2>2. c \in B
    BY <1>1 DEF ClosedSet
  <2> HIDE DEF c
  <2>3. h[c] < h[s]
    BY <1>1, <1>4, <2>1, <2>2
  <2>4. c # s
    BY <1>4, <2>2, <2>3
  <2>5. ASSUME NEW w \in Int
        PROVE  w \in R2[c] <=> w \in R2[x] /\ Rank(nd[x].k, w) = i - 1
    <3>1. ASSUME w \in R2[c] PROVE w \in R2[x] /\ Rank(nd[x].k, w) = i - 1
      <4>1. c \in OnWay(D, nd, s, w) \ {s}
        BY <1>4, <2>2, <2>4, <3>1
      <4>2. x \in OnWay(D, nd, s, w) /\ TurnOf(nd, x, w) = c
        BY <1>3, <2>1, <4>1
      <4>3. Rank(nd[x].k, w) + 1 \in 1 .. Len(nd[x].n)
        BY <1>1, TurnInTree
      <4>4. Rank(nd[x].k, w) + 1 = i
        BY <2>1, <4>2, <4>3 DEF TurnOf
      <4>5. Rank(nd[x].k, w) \in Int
        BY <1>1, <1>2, RankOfSorted DEF Tree, TreeNodes, Sound, Cell
      <4> QED
        BY <1>4, <4>2, <4>4, <4>5
    <3>2. ASSUME w \in R2[x], Rank(nd[x].k, w) = i - 1 PROVE w \in R2[c]
      <4>1. TurnOf(nd, x, w) = c
        BY <3>2 DEF TurnOf, c
      <4>2. c \in OnWay(D, nd, s, w)
        BY <1>3, <1>4, <3>2, <4>1 DEF Follows
      <4> QED
        BY <1>4, <2>2, <4>2
    <3> QED
      BY <3>1, <3>2
  <2>6. R2[c] = Part(nd[x], R2[x], i)
    BY <1>4, <2>2, <2>5 DEF Part
  <2>7. n2[x] = nd[x] /\ n2[c] = nd[c] /\ h2[x] = h[x] /\ h2[c] = h[c] /\ n2[x].n[i] = c
    BY <1>4, <2>2 DEF c
  <2> QED
    BY <2>1, <2>2, <2>4, <2>6, <2>7 DEF ChildAt
<1>10. TreeParents(B, n2, s, h2)
  <2> SUFFICES ASSUME NEW x \in B \ {s} PROVE HasParent(B, n2, x) /\ h2[x] < h2[s]
    BY DEF TreeParents
  <2>1. HasParent(B, nd, x) /\ h[x] < h[s]
    BY <1>1
  <2> QED
    BY <1>1, <1>4, <2>1 DEF HasParent
<1>11. TreeApart(B, R2, h2)
  <2> SUFFICES ASSUME NEW x \in B, NEW z \in B, h[x] = h[z], NEW w \in Int,
                      w \in R2[x], w \in R2[z]
               PROVE  x = z
    BY <1>4 DEF TreeApart
  <2> DEFINE V == OnWay(D, nd, s, w)
             S == {y \in V : \A u \in V : h[u] = h[y] => u = y}
  <2>0. V \subseteq B /\ V \subseteq D /\ s \in V
    BY <1>1, <1>3
  <2>1. Follows(nd, S, w)
    <3> SUFFICES ASSUME NEW y \in S, ~nd[y].isLeaf, NEW u \in V, h[u] = h[TurnOf(nd, y, w)]
                 PROVE  u = TurnOf(nd, y, w)
      BY <1>3 DEF Follows
    <3>1. h[y] = h[TurnOf(nd, y, w)] + 1
      BY <2>0, TurnInTree DEF TurnOf, ChildAt
    <3>2. h[u] < h[y] /\ h[y] \in Nat /\ h[u] \in Nat /\ h[s] \in Nat /\ h[y] <= h[s]
      BY <1>1, <1>4, <2>0, <3>1
    <3>3. u # s
      BY <3>2
    <3>4. PICK q \in V : ~nd[q].isLeaf /\ TurnOf(nd, q, w) = u /\ h[q] = h[u] + 1
      BY <1>3, <3>3
    <3>5. h[q] = h[y]
      BY <3>1, <3>4
    <3> QED
      BY <3>4, <3>5
  <2>2. s \in S /\ S \in SUBSET D
    <3>1. \A u \in V : h[u] = h[s] => u = s
      BY <1>1, <1>4, <2>0
    <3> QED
      BY <2>0, <3>1
  <2>3. x \in V /\ z \in V
    BY <1>4
  <2>4. x \in S
    <3> HIDE DEF S
    <3> QED
      BY <2>1, <2>2, <2>3 DEF OnWay
  <2> QED
    BY <2>3, <2>4
<1> QED
  BY <1>7, <1>8, <1>9, <1>10, <1>11 DEF Tree, B, R2, h2, n2

\* A tree is all below its root.
LEMMA AllBelowRoot ==
  ASSUME NEW D, NEW nd, NEW rt, NEW R, NEW h, Tree(D, nd, rt, R, h),
         NEW S, rt \in S, ClosedSet(nd, S)
  PROVE  D \subseteq S
<1> DEFINE T == {h[rt] - h[x] : x \in D \ S}
<1>1. /\ rt \in D /\ h \in [D -> Nat] /\ h[rt] \in Nat
      /\ \A x \in D \ {rt} : HasParent(D, nd, x) /\ h[x] < h[rt]
  BY DEF Tree, TreeTypes, TreeParents
<1> SUFFICES ASSUME T # {} PROVE FALSE
  OBVIOUS
<1>2. T \subseteq Nat
  <2> SUFFICES ASSUME NEW x \in D \ S PROVE h[rt] - h[x] \in Nat
    OBVIOUS
  <2>1. h[x] \in Nat /\ h[x] < h[rt]
    BY <1>1
  <2> QED
    BY <1>1, <2>1
<1>3. PICK m \in T : \A n \in T : m <= n
  <2> HIDE DEF T
  <2> QED
    BY <1>2, LeastNumber
<1>4. PICK x \in D \ S : h[rt] - h[x] = m
  BY <1>3
<1> DEFINE q == nd[x].parent
<1>5. PICK i \in 1 .. Len(nd[q].n) : q \in D /\ ~nd[q].isLeaf /\ nd[q].n[i] = x
  BY <1>1, <1>4 DEF HasParent
<1>6. q \notin S
  BY <1>4, <1>5 DEF ClosedSet
<1>7. h[q] = h[x] + 1
  BY <1>5 DEF Tree, TreeChildren, ChildAt
<1>8. h[rt] - h[q] \in T
  BY <1>5, <1>6
<1> HIDE DEF T, q
<1>9. m <= h[rt] - h[q] /\ h[x] \in Nat
  BY <1>1, <1>3, <1>4, <1>8
<1> QED
  BY <1>1, <1>4, <1>7, <1>9

-----------------------------------------------------------------------------
(* The invariant of the index file, whatever roots are lost.                *)

\* What the calls need of the nodes, below the root or not.
FileTypes ==
  /\ allocated \in Nat \ {0} /\ node \in [1 .. allocated -> Cell]
  /\ op \in {"idle", "search", "fix"}
  /\ op # "idle" => key \in Keys /\ record \in Records \cup {None}
  /\ \A x \in 1 .. allocated : /\ Size(x) <= B_PLUS_TREE_BRANCH + 1
                               /\ Overfull(x) => op = "fix" /\ x = hot_

\* The nodes of D are a tree below the root, and have the saved root among them.
TreeIn(D, R, h) ==
  /\ Tree(D, On(node, D), root, R, h)
  /\ savedRoot \in D
  /\ op # "idle" => hot_ \in D
  /\ op = "search" => key \in R[hot_]

FileInv == FileTypes /\ \E D \in SUBSET (1 .. allocated) : \E R, h : TreeIn(D, R, h)

\* The nodes that a search may come to.
BelowRoot ==
  {x \in Nodes : \A S \in SUBSET Nodes :
                   root \in S /\ (\A y \in S : Children(y) \subseteq S) => x \in S}

EntryBelow(a, b) == \E x \in Leaves \cap BelowRoot : Pair(node[x], a, b)

\* <<a, b>> is in a leaf of D.
EntryIn(nd, D, a, b) == \E x \in D : nd[x].isLeaf /\ Pair(nd[x], a, b)

\* The tree is what is below the root.
LEMMA BelowRootIs ==
  ASSUME FileTypes, NEW D \in SUBSET (1 .. allocated), NEW R, NEW h,
         Tree(D, On(node, D), root, R, h)
  PROVE  BelowRoot = D
<1>1. Nodes = 1 .. allocated /\ \A x \in Nodes : node[x] \in Cell
  BY DEF FileTypes, Nodes
<1>2. \A x \in D : On(node, D)[x] = node[x]
  BY DEF On
<1>3. ASSUME NEW y \in Nodes, ~node[y].isLeaf
      PROVE  Children(y) = {node[y].n[i] : i \in 1 .. Len(node[y].n)}
  <2>1. node[y].n \in Seq(Nat)
    BY <1>1 DEF Cell
  <2> QED
    BY <1>3, <2>1 DEF Children, ToSet
<1>4. root \in D
  BY DEF Tree, TreeTypes
<1>5. \A y \in D : Children(y) \subseteq D
  <2> SUFFICES ASSUME NEW y \in D, NEW c \in Children(y) PROVE c \in D
    OBVIOUS
  <2>1. ~node[y].isLeaf
    BY DEF Children
  <2>2. PICK i \in 1 .. Len(node[y].n) : c = node[y].n[i]
    BY <1>1, <1>3, <2>1
  <2> QED
    BY <1>2, <2>1, <2>2 DEF Tree, TreeChildren, ChildAt
<1>6. BelowRoot \subseteq D
  BY <1>1, <1>4, <1>5 DEF BelowRoot
<1>7. ASSUME NEW x \in D, NEW S \in SUBSET Nodes, root \in S, \A y \in S : Children(y) \subseteq S
      PROVE  x \in S
  <2> DEFINE T == S \cap D
  <2>1. ClosedSet(On(node, D), T)
    <3> SUFFICES ASSUME NEW y \in T, ~node[y].isLeaf, NEW i \in 1 .. Len(node[y].n)
                 PROVE  node[y].n[i] \in T
      BY <1>2 DEF ClosedSet
    <3>1. node[y].n[i] \in Children(y)
      BY <1>1, <1>3
    <3> QED
      BY <1>5, <1>7, <3>1
  <2>2. root \in T
    BY <1>4, <1>7
  <2> HIDE DEF T
  <2>3. D \subseteq T
    BY <2>1, <2>2, AllBelowRoot
  <2> QED
    BY <2>3 DEF T
<1> QED
  BY <1>1, <1>6, <1>7 DEF BelowRoot

\* So the entries below the root are those of the tree.
EntriesInTree ==
  FileTypes => \A D \in SUBSET (1 .. allocated) : \A R, h :
                 TreeIn(D, R, h) =>
                   /\ BelowRoot = D
                   /\ \A a, b : EntryBelow(a, b) <=> EntryIn(node, D, a, b)

LEMMA EntriesBelowAre == EntriesInTree
<1> SUFFICES ASSUME FileTypes, NEW D \in SUBSET (1 .. allocated), NEW R, NEW h, TreeIn(D, R, h)
             PROVE  /\ BelowRoot = D
                    /\ \A a, b : EntryBelow(a, b) <=> EntryIn(node, D, a, b)
  BY DEF EntriesInTree
<1>1. BelowRoot = D /\ Nodes = 1 .. allocated
  BY BelowRootIs DEF FileTypes, TreeIn, Nodes
<1> QED
  BY <1>1 DEF EntryBelow, EntryIn, Leaves

\* A split leaves the entries of every set of nodes that has the node that is split.
LEMMA SplitEntries ==
  ASSUME NEW D, D \subseteq 1 .. allocated, allocated \in Nat \ {0}, hot_ \in D,
         hot_' \in D \cup NewNodes, allocated' \in Nat, allocated' >= allocated,
         NEW rest, NEW new, AfterSplit(rest, new),
         rest.isLeaf = node[hot_].isLeaf, new.isLeaf = node[hot_].isLeaf,
         node[hot_].isLeaf =>
           \A a, b : Pair(node[hot_], a, b) <=> Pair(rest, a, b) \/ Pair(new, a, b),
         NEW a, NEW b
  PROVE  EntryIn(node', D \cup NewNodes, a, b) <=> EntryIn(node, D, a, b)
<1> DEFINE nid == allocated + 1
           pid == hot_'
           D2 == D \cup NewNodes
<1>1. /\ SameBody(node'[hot_], rest) /\ SameBody(node'[nid], new)
      /\ pid # hot_ /\ pid # nid /\ ~node'[pid].isLeaf
      /\ \A y \in 1 .. allocated' \ {hot_, nid, pid} : y \in 1 .. allocated /\ SameBody(node'[y], node[y])
      /\ pid \in 1 .. allocated => ~node[pid].isLeaf
  BY DEF AfterSplit
<1>2. nid \in NewNodes /\ nid \notin D /\ D2 \subseteq 1 .. allocated' /\ hot_ \in D2
  BY DEF NewNodes, AfterSplit
<1>3. \A y \in D2 \ {hot_, nid, pid} : y \in D /\ SameBody(node'[y], node[y])
  <2>1. \A y \in NewNodes : y \notin 1 .. allocated
    BY DEF NewNodes
  <2> QED
    BY <1>1, <1>2, <2>1
<1>4. \A u, v : SameBody(u, v) => u.isLeaf = v.isLeaf /\ (Pair(u, a, b) <=> Pair(v, a, b))
  BY DEF SameBody, Pair
<1> HIDE DEF nid, pid, D2
<1>5. ASSUME NEW y \in D, node[y].isLeaf, Pair(node[y], a, b)
      PROVE  \E z \in D2 : node'[z].isLeaf /\ Pair(node'[z], a, b)
  <2>1. CASE y = hot_
    <3>1. (Pair(rest, a, b) \/ Pair(new, a, b)) /\ rest.isLeaf /\ new.isLeaf
      BY <1>5, <2>1
    <3>2. CASE Pair(rest, a, b)
      BY <1>1, <1>2, <1>4, <3>1, <3>2
    <3>3. CASE Pair(new, a, b)
      BY <1>1, <1>2, <1>4, <3>1, <3>3 DEF D2
    <3> QED
      BY <3>1, <3>2, <3>3
  <2>2. CASE y # hot_
    <3>1. y # nid /\ y # pid /\ y \in D2
      BY <1>1, <1>2, <1>5 DEF D2
    <3> QED
      BY <1>3, <1>4, <1>5, <2>2, <3>1
  <2> QED
    BY <2>1, <2>2
<1>6. ASSUME NEW y \in D2, node'[y].isLeaf, Pair(node'[y], a, b)
      PROVE  \E z \in D : node[z].isLeaf /\ Pair(node[z], a, b)
  <2>1. CASE y = hot_ \/ y = nid
    <3>1. node[hot_].isLeaf /\ (Pair(rest, a, b) \/ Pair(new, a, b))
      BY <1>1, <1>4, <1>6, <2>1
    <3> QED
      BY <3>1
  <2>2. CASE y # hot_ /\ y # nid
    <3>1. y # pid
      BY <1>1, <1>6
    <3> QED
      BY <1>3, <1>4, <1>6, <2>2, <3>1
  <2> QED
    BY <2>1, <2>2
<1> QED
  BY <1>5, <1>6 DEF EntryIn, D2

\* createIndex.
LEMMA FileInitInv == FileInit => FileInv
<1> SUFFICES ASSUME FileInit PROVE FileInv
  OBVIOUS
<1>1. IInv /\ savedRoot = root /\ op = "idle"
  BY InitInv DEF FileInit, Init
<1>2. PICK R, h : TreeState(R, h)
  BY <1>1 DEF IInv
<1>3. node \in [1 .. allocated -> Cell] /\ root \in 1 .. allocated /\ Nodes = 1 .. allocated
  BY <1>2, TreeDomain
<1>4. On(node, 1 .. allocated) = node
  BY <1>3 DEF On
<1>5. TreeIn(1 .. allocated, R, h)
  BY <1>1, <1>2, <1>3, <1>4 DEF TreeIn, TreeState
<1>6. FileTypes
  BY <1>1, <1>3 DEF FileTypes, IInv, CallTypes, NodeSizes, SizeBound
<1> QED
  BY <1>5, <1>6 DEF FileInv

\* Opening the file, whatever root is found in it: what is below that root is a tree.
LEMMA ReopenFile ==
  ASSUME FileInv, Reopen
  PROVE  /\ FileInv'
         /\ \A a, b : EntryBelow(a, b)' => EntryBelow(a, b)
         /\ BelowRoot' \subseteq BelowRoot
         /\ root \in BelowRoot' => savedRoot = root
<1>1. FileTypes
  BY DEF FileInv
<1>2. PICK D \in SUBSET (1 .. allocated) : \E R, h : TreeIn(D, R, h)
  BY DEF FileInv
<1>3. PICK R, h : TreeIn(D, R, h)
  BY <1>2
<1>4. /\ node' = node /\ allocated' = allocated /\ root' = savedRoot /\ savedRoot' = savedRoot
      /\ op = "idle" /\ op' = "idle"
  BY DEF Reopen
<1>5. \E B \in SUBSET D :
        /\ \E R2, h2 : Tree(B, On(node, B), savedRoot, R2, h2)
        /\ savedRoot \in B
        /\ root \in B => savedRoot = root
  <2> DEFINE B == Below(D, On(node, D), savedRoot)
  <2>1. Tree(D, On(node, D), root, R, h) /\ savedRoot \in D
    BY <1>3 DEF TreeIn
  <2>2. \E R2, h2 : Tree(B, On(On(node, D), B), savedRoot, R2, h2)
    BY <2>1, TreeBelow
  <2>3. B \subseteq D /\ savedRoot \in B
    BY <2>1 DEF Below
  <2>4. On(On(node, D), B) = On(node, B)
    <3> HIDE DEF B
    <3> QED
      BY <2>3 DEF On
  <2>5. ASSUME root \in B, savedRoot # root PROVE FALSE
    <3>1. h[root] < h[savedRoot]
      BY <2>1, <2>5, BelowFacts
    <3>2. h[savedRoot] < h[root] /\ h[root] \in Nat /\ h[savedRoot] \in Nat
      BY <2>1, <2>5 DEF Tree, TreeTypes, TreeParents
    <3> QED
      BY <3>1, <3>2
  <2> HIDE DEF B
  <2> QED
    BY <2>2, <2>3, <2>4, <2>5
<1>6. PICK B \in SUBSET D : /\ \E R2, h2 : Tree(B, On(node, B), savedRoot, R2, h2)
                            /\ savedRoot \in B
                            /\ root \in B => savedRoot = root
  BY <1>5
<1>7. PICK R2, h2 : Tree(B, On(node, B), savedRoot, R2, h2)
  BY <1>6
<1>8. TreeIn(B, R2, h2)'
  BY <1>4, <1>6, <1>7 DEF TreeIn
<1>9. FileTypes'
  <2>1. \A x : Size(x)' = Size(x) /\ Overfull(x)' = Overfull(x)
    BY <1>4 DEF Size, Overfull
  <2> QED
    BY <1>1, <1>4, <2>1 DEF FileTypes
<1>10. B \in SUBSET (1 .. allocated)'
  BY <1>4
<1>11. FileInv'
  BY <1>8, <1>9, <1>10 DEF FileInv
<1>12. BelowRoot = D /\ \A a, b : EntryBelow(a, b) <=> EntryIn(node, D, a, b)
  BY <1>1, <1>3, EntriesBelowAre DEF EntriesInTree
<1>13. BelowRoot' = B /\ \A a, b : EntryBelow(a, b)' <=> EntryIn(node', B, a, b)
  <2>1. EntriesInTree'
    BY EntriesBelowAre, PTL
  <2> QED
    BY <1>8, <1>9, <1>10, <2>1 DEF EntriesInTree, EntryIn
<1>14. \A a, b : EntryBelow(a, b)' => EntryBelow(a, b)
  BY <1>4, <1>12, <1>13 DEF EntryIn
<1> QED
  BY <1>6, <1>11, <1>12, <1>13, <1>14

\* The entry of insertEntry, in the tree below the root.
LEMMA InsertInFile ==
  ASSUME FileInv, InsertInLeaf, UNCHANGED savedRoot
  PROVE  /\ FileInv'
         /\ \A b : ~EntryBelow(key, b)
         /\ \A a, b : EntryBelow(a, b)' <=> EntryBelow(a, b) \/ (a = key /\ b = record)
         /\ \A a, b : HasEntry(a, b) => HasEntry(a, b)'
         /\ BelowRoot' = BelowRoot /\ Nodes' = Nodes
<1>1. FileTypes
  BY DEF FileInv
<1>2. PICK D \in SUBSET (1 .. allocated) : \E R, h : TreeIn(D, R, h)
  BY DEF FileInv
<1>3. PICK R, h : TreeIn(D, R, h)
  BY <1>2
<1> DEFINE v == node[hot_]
           u == PutEntry(v, key, record)
           N == 1 .. allocated
           nd == On(node, D)
<1>4. op = "search" /\ v.isLeaf /\ record # None /\ key \notin ToSet(v.k)
  BY DEF InsertInLeaf
<1>5. /\ hot_ \in D /\ hot_ \in N /\ key \in R[hot_] /\ record \in Nat /\ key \in Int
      /\ Tree(D, nd, root, R, h)
  BY <1>1, <1>2, <1>3, <1>4, RowTypes DEF FileTypes, TreeIn
<1>6. node \in [N -> Cell] /\ \A y \in D : nd[y] = node[y] /\ y \in N
  BY <1>1 DEF FileTypes, On
<1> HIDE DEF nd
<1>7. R[hot_] \subseteq Int /\ \A y \in D : Sound(node[y], R[y]) /\ (node[y].isLeaf <=> h[y] = 0)
  BY <1>5, <1>6 DEF Tree, TreeTypes, TreeNodes
<1>8. /\ Sound(u, R[hot_]) /\ u.isLeaf /\ u.parent = v.parent /\ Len(u.k) = Len(v.k) + 1
      /\ \A c, d : Pair(u, c, d) <=> Pair(v, c, d) \/ (c = key /\ d = record)
  BY <1>4, <1>5, <1>7, EntryInLeaf
<1> HIDE DEF u
<1>9. /\ node' = [node EXCEPT ![hot_] = u]
      /\ op' = "fix" /\ allocated' = allocated /\ root' = root /\ hot_' = hot_
      /\ key' = key /\ record' = record /\ savedRoot' = savedRoot
  <2>1. node' = [node EXCEPT ![hot_].k = InsertAt(v.k, Rank(v.k, key) + 1, key),
                             ![hot_].n = InsertAt(v.n, Rank(v.k, key) + 1, record)]
    BY DEF InsertInLeaf
  <2>2. node' = [node EXCEPT ![hot_] = u]
    BY <1>5, <1>6, <2>1 DEF u, PutEntry
  <2> QED
    BY <2>2 DEF InsertInLeaf
<1>10. /\ node'[hot_] = u /\ (\A y \in N \ {hot_} : node'[y] = node[y])
       /\ DOMAIN node' = N /\ node' \in [N -> Cell]
  <2>1. u \in Cell
    BY <1>8 DEF Sound
  <2> QED
    BY <1>5, <1>6, <1>9, <2>1
<1>11. Tree(D, On(node', D), root, R, h)
  <2> DEFINE n2 == On(node', D)
  <2>1. n2 \in [D -> Cell] /\ \A y \in D : n2[y] = node'[y]
    BY <1>6, <1>10 DEF On
  <2> HIDE DEF n2
  <2>2. ASSUME NEW y \in D
        PROVE  /\ n2[y].isLeaf = nd[y].isLeaf /\ n2[y].parent = nd[y].parent
               /\ ~nd[y].isLeaf => SameBody(n2[y], nd[y])
               /\ Sound(n2[y], R[y])
    <3>1. n2[y] = node'[y] /\ nd[y] = node[y] /\ y \in N
      BY <1>6, <2>1
    <3>2. CASE y = hot_
      <4>1. u.isLeaf = v.isLeaf
        BY <1>4, <1>5, <1>6, <1>8 DEF Sound, Cell
      <4> QED
        BY <1>4, <1>8, <1>10, <3>1, <3>2, <4>1
    <3>3. CASE y # hot_
      BY <1>7, <1>10, <3>1, <3>3 DEF SameBody
    <3> QED
      BY <3>2, <3>3
  <2>3. Tree(D, n2, root, R, h)
    BY <1>5, <2>1, <2>2, LeafTree
  <2> QED
    BY <2>3 DEF n2
<1>12. TreeIn(D, R, h)'
  <2>1. op' # "idle" => hot_' \in D
    BY <1>5, <1>9
  <2>2. savedRoot' \in D
    BY <1>3, <1>9 DEF TreeIn
  <2>3. Tree(D, On(node', D), root', R, h) /\ op' # "search"
    BY <1>9, <1>11
  <2> QED
    BY <2>1, <2>2, <2>3 DEF TreeIn
<1>13. FileTypes'
  <2> DEFINE B == B_PLUS_TREE_BRANCH
  <2>1. ASSUME NEW y \in N
        PROVE  Len(node'[y].k) <= B + 1 /\ (Len(node'[y].k) > B => y = hot_)
    <3>1. Len(node[y].k) \in Nat /\ Len(node[y].k) <= B /\ B \in Nat
      <4>1. Len(node[y].k) \in Nat /\ B \in Nat
        BY <1>6, BPlusTreeAssumption DEF Cell
      <4>2. ~(Len(node[y].k) > B)
        BY <1>1, <1>4 DEF FileTypes, Size, Overfull
      <4> QED
        BY <4>1, <4>2
    <3>2. CASE y = hot_
      BY <1>8, <1>10, <3>1, <3>2
    <3>3. CASE y # hot_
      BY <1>10, <3>1, <3>3
    <3> QED
      BY <3>2, <3>3
  <2> QED
    BY <1>1, <1>4, <1>9, <1>10, <2>1 DEF FileTypes, Size, Overfull
<1>14. FileInv'
  BY <1>9, <1>12, <1>13 DEF FileInv
<1>15. ASSUME NEW S \in SUBSET N, hot_ \in S, NEW a, NEW b
       PROVE  EntryIn(node', S, a, b) <=> EntryIn(node, S, a, b) \/ (a = key /\ b = record)
  <2>1. /\ node'[hot_].isLeaf /\ node[hot_].isLeaf
        /\ Pair(node'[hot_], a, b) <=> Pair(node[hot_], a, b) \/ (a = key /\ b = record)
    BY <1>4, <1>8, <1>10
  <2>2. \A y \in S \ {hot_} : node'[y] = node[y]
    BY <1>10
  <2> HIDE DEF N
  <2> QED
    BY <1>15, <2>1, <2>2 DEF EntryIn
<1>16. BelowRoot = D /\ \A a, b : EntryBelow(a, b) <=> EntryIn(node, D, a, b)
  BY <1>1, <1>3, EntriesBelowAre DEF EntriesInTree
<1>17. BelowRoot' = D /\ \A a, b : EntryBelow(a, b)' <=> EntryIn(node', D, a, b)
  <2>1. EntriesInTree'
    BY EntriesBelowAre, PTL
  <2>2. D \in SUBSET (1 .. allocated)'
    BY <1>9
  <2> QED
    BY <1>12, <1>13, <2>1, <2>2 DEF EntriesInTree, EntryIn
<1>18. ASSUME NEW b PROVE ~EntryBelow(key, b)
  <2> SUFFICES ASSUME NEW y \in D, node[y].isLeaf, Pair(node[y], key, b) PROVE FALSE
    BY <1>16 DEF EntryIn
  <2>1. PICK i \in 1 .. Len(node[y].k) : node[y].k[i] = key
    BY DEF Pair
  <2>2. key \in R[y]
    BY <1>7, <2>1 DEF Sound
  <2>3. h[y] = 0 /\ h[hot_] = 0
    BY <1>4, <1>5, <1>7
  <2>4. y = hot_
    BY <1>5, <2>2, <2>3 DEF Tree, TreeApart
  <2>5. key \in ToSet(node[y].k)
    BY <1>5, <1>6, <2>1, <2>4 DEF ToSet, Cell
  <2> QED
    BY <1>4, <2>4, <2>5
<1>19. ASSUME NEW a, NEW b, HasEntry(a, b) PROVE HasEntry(a, b)'
  <2>1. HasEntry(a, b) <=> EntryIn(node, N, a, b)
    BY <1>6 DEF HasEntry, Leaves, Nodes, EntryIn
  <2>2. HasEntry(a, b)' <=> EntryIn(node', N, a, b)
    BY <1>10 DEF HasEntry, Leaves, Nodes, EntryIn
  <2> QED
    BY <1>5, <1>15, <1>19, <2>1, <2>2
<1>20. Nodes' = Nodes
  BY <1>6, <1>10 DEF Nodes
<1> QED
  BY <1>5, <1>14, <1>15, <1>16, <1>17, <1>18, <1>19, <1>20

\* A step that splits a node of the tree into halves.
LEMMA SplitInFile ==
  ASSUME FileTypes, NEW D \in SUBSET (1 .. allocated), NEW R, NEW h, TreeIn(D, R, h), op = "fix",
         UNCHANGED savedRoot,
         NEW rest \in Cell, NEW new \in Cell, NEW sep, NEW moved,
         Halves(node[hot_], R[hot_], rest, new, sep), node[hot_].k[1] \in R[hot_],
         HalfFull(rest), HalfFull(new),
         \A y \in 1 .. allocated : y \in moved <=> Moves(new, y),
         node[hot_].isLeaf =>
           \A a, b : Pair(node[hot_], a, b) <=> Pair(rest, a, b) \/ Pair(new, a, b),
         Split(node[hot_], rest, new, sep, moved)
  PROVE  /\ FileInv'
         /\ \A a, b : EntryBelow(a, b)' <=> EntryBelow(a, b)
         /\ \A a, b : HasEntry(a, b)' <=> HasEntry(a, b)
         /\ BelowRoot' = Nodes' => BelowRoot = Nodes
<1> DEFINE N == 1 .. allocated
           N2 == 1 .. allocated'
           B == B_PLUS_TREE_BRANCH
           nid == allocated + 1
           pid == hot_'
<1>1. /\ allocated \in Nat \ {0} /\ node \in [N -> Cell] /\ hot_ \in D /\ hot_ \in N
      /\ Tree(D, On(node, D), root, R, h) /\ savedRoot \in D /\ B \in Nat /\ 1 <= B
  <2>1. B \in Nat /\ 1 <= B
    BY BPlusTreeAssumption
  <2>2. allocated \in Nat \ {0} /\ node \in [N -> Cell]
    BY DEF FileTypes
  <2>3. hot_ \in D /\ Tree(D, On(node, D), root, R, h) /\ savedRoot \in D
    BY DEF TreeIn
  <2>4. hot_ \in N
    BY <2>3
  <2> QED
    BY <2>1, <2>2, <2>3, <2>4
<1>2. /\ \E R2, h2 : Tree(D \cup NewNodes, On(node', D \cup NewNodes), root', R2, h2)
      /\ AfterSplit(rest, new)
      /\ node' \in [N2 -> Cell] /\ pid \in D \cup NewNodes
  BY <1>1, SplitBelowRoot, SplitRoot
<1>3. /\ op' = "fix" /\ key' = key /\ record' = record
      /\ allocated' \in Nat \ {0} /\ allocated' >= allocated
  BY <1>1 DEF Split
<1>4. D \cup NewNodes \subseteq N2 /\ N \cup NewNodes = N2 /\ D \subseteq N
  BY <1>1, <1>3 DEF NewNodes
<1>5. PICK D2 \in SUBSET N2 : D2 = D \cup NewNodes
  BY <1>4
<1>6. PICK R2, h2 : Tree(D2, On(node', D2), root', R2, h2)
  BY <1>2, <1>5
<1>7. TreeIn(D2, R2, h2)'
  <2>1. savedRoot' \in D2 /\ hot_' \in D2 /\ op' # "search"
    BY <1>1, <1>2, <1>3, <1>5
  <2> QED
    BY <1>6, <2>1 DEF TreeIn
<1>8. rest.isLeaf = node[hot_].isLeaf /\ new.isLeaf = node[hot_].isLeaf
  BY DEF Halves
<1>9. /\ SameBody(node'[hot_], rest) /\ SameBody(node'[nid], new) /\ nid \in N2
      /\ pid # hot_ /\ pid # nid
      /\ \A y \in N2 \ {hot_, nid, pid} : y \in N /\ SameBody(node'[y], node[y])
      /\ \/ Len(node'[pid].k) = 1
         \/ pid \in N /\ Len(node'[pid].k) = Len(node[pid].k) + 1
  BY <1>2 DEF AfterSplit
<1>10. FileTypes'
  <2>1. \A y \in N : /\ Len(node[y].k) \in Nat /\ Len(node[y].k) <= B + 1
                     /\ Len(node[y].k) > B => y = hot_
    <3>1. ASSUME NEW y \in N PROVE Len(node[y].k) \in Nat
      <4>1. node[y] \in Cell
        BY <1>1
      <4>2. node[y].k \in Seq(Int)
        BY <4>1 DEF Cell
      <4> QED
        BY <4>2
    <3>2. ASSUME NEW y \in N
          PROVE  Len(node[y].k) <= B + 1 /\ (Len(node[y].k) > B => y = hot_)
      BY DEF FileTypes, Size, Overfull
    <3> QED
      BY <3>1, <3>2
  <2> HIDE DEF N, N2, nid, pid, B
  <2>2. ASSUME NEW y \in N2
        PROVE  Len(node'[y].k) <= B + 1 /\ (Len(node'[y].k) > B => y = pid)
    <3>1. CASE y = hot_ \/ y = nid
      <4>1. node'[y].k = rest.k \/ node'[y].k = new.k
        BY <1>9, <3>1 DEF SameBody
      <4>2. Len(node'[y].k) \in Nat /\ Len(node'[y].k) <= B
        BY <4>1 DEF HalfFull, Cell, B
      <4> QED
        BY <1>1, <4>2
    <3>2. CASE y = pid
      <4>1. CASE Len(node'[pid].k) = 1
        BY <1>1, <3>2, <4>1
      <4>2. CASE pid \in N /\ Len(node'[pid].k) = Len(node[pid].k) + 1
        <5>1. Len(node[pid].k) \in Nat /\ Len(node[pid].k) <= B
          BY <1>1, <1>9, <2>1, <4>2
        <5> QED
          BY <1>1, <3>2, <4>2, <5>1
      <4> QED
        BY <1>9, <4>1, <4>2
    <3>3. CASE y \notin {hot_, nid, pid}
      <4>1. y \in N /\ node'[y].k = node[y].k
        BY <1>9, <3>3 DEF SameBody
      <4> QED
        BY <2>1, <3>3, <4>1
    <3> QED
      BY <3>1, <3>2, <3>3
  <2>3. \A y \in N2 : Size(y)' <= B + 1 /\ (Overfull(y)' => y = pid)
    BY <2>2 DEF Size, Overfull, B
  <2>4. op = "fix" => key \in Keys /\ record \in Records \cup {None}
    BY DEF FileTypes
  <2> QED
    BY <1>2, <1>3, <2>3, <2>4 DEF FileTypes, N2, pid, B
<1>11. FileInv'
  BY <1>5, <1>7, <1>10 DEF FileInv
<1>12. ASSUME NEW a, NEW b
       PROVE  /\ EntryIn(node', D \cup NewNodes, a, b) <=> EntryIn(node, D, a, b)
              /\ EntryIn(node', N \cup NewNodes, a, b) <=> EntryIn(node, N, a, b)
  <2>1. hot_' \in N \cup NewNodes
    BY <1>2, <1>4
  <2>2. EntryIn(node', D \cup NewNodes, a, b) <=> EntryIn(node, D, a, b)
    BY <1>1, <1>2, <1>3, <1>4, <1>8, SplitEntries
  <2>3. EntryIn(node', N \cup NewNodes, a, b) <=> EntryIn(node, N, a, b)
    <3> N \subseteq 1 .. allocated
      OBVIOUS
    <3> HIDE DEF N
    <3> QED
      BY <1>1, <1>2, <1>3, <1>8, <2>1, SplitEntries
  <2> QED
    BY <2>2, <2>3
<1>13. ASSUME NEW a, NEW b PROVE EntryBelow(a, b)' <=> EntryBelow(a, b)
  <2>1. EntryBelow(a, b) <=> EntryIn(node, D, a, b)
    BY EntriesBelowAre DEF EntriesInTree
  <2>2. EntriesInTree'
    BY EntriesBelowAre, PTL
  <2>3. D2 \in SUBSET (1 .. allocated)'
    OBVIOUS
  <2>4. EntryBelow(a, b)' <=> EntryIn(node', D2, a, b)
    BY <1>7, <1>10, <2>2, <2>3 DEF EntriesInTree, EntryIn
  <2> QED
    BY <1>5, <1>12, <2>1, <2>4
<1>14. ASSUME NEW a, NEW b PROVE HasEntry(a, b)' <=> HasEntry(a, b)
  <2>1. HasEntry(a, b) <=> EntryIn(node, N, a, b)
    BY <1>1 DEF HasEntry, Leaves, Nodes, EntryIn
  <2>2. HasEntry(a, b)' <=> EntryIn(node', N2, a, b)
    BY <1>2 DEF HasEntry, Leaves, Nodes, EntryIn
  <2> QED
    BY <1>4, <1>12, <2>1, <2>2
<1>15. BelowRoot' = Nodes' => BelowRoot = Nodes
  <2>1. Nodes = N /\ Nodes' = N2
    BY <1>1, <1>2 DEF Nodes
  <2>2. BelowRoot = D
    BY EntriesBelowAre DEF EntriesInTree
  <2>3. BelowRoot' = D2
    <3>1. EntriesInTree'
      BY EntriesBelowAre, PTL
    <3>2. D2 \in SUBSET (1 .. allocated)'
      OBVIOUS
    <3> QED
      BY <1>7, <1>10, <3>1, <3>2 DEF EntriesInTree
  <2>4. \A y \in N : y \notin NewNodes
    BY <1>1 DEF NewNodes
  <2> HIDE DEF N, N2
  <2> QED
    BY <1>4, <1>5, <2>1, <2>2, <2>3, <2>4
<1> QED
  BY <1>11, <1>13, <1>14, <1>15

\* solveOverFlow, in the tree below the root.
LEMMA SplitFile ==
  ASSUME FileInv, SplitLeaf \/ SplitInner, UNCHANGED savedRoot
  PROVE  /\ FileInv'
         /\ \A a, b : EntryBelow(a, b)' <=> EntryBelow(a, b)
         /\ \A a, b : HasEntry(a, b)' <=> HasEntry(a, b)
         /\ BelowRoot' = Nodes' => BelowRoot = Nodes
<1>1. FileTypes
  BY DEF FileInv
<1>2. PICK D \in SUBSET (1 .. allocated) : \E R, h : TreeIn(D, R, h)
  BY DEF FileInv
<1>3. PICK R, h : TreeIn(D, R, h)
  BY <1>2
<1> DEFINE v == node[hot_]
<1>4. op = "fix" /\ Overfull(hot_)
  BY DEF SplitLeaf, SplitInner
<1>5. hot_ \in D /\ hot_ \in 1 .. allocated /\ Tree(D, On(node, D), root, R, h)
  BY <1>2, <1>3, <1>4 DEF TreeIn
<1>6. Sound(v, R[hot_]) /\ R[hot_] \subseteq Int /\ v \in Cell
  <2>1. On(node, D)[hot_] = v
    BY <1>5 DEF On
  <2> QED
    BY <1>5, <2>1 DEF Tree, TreeTypes, TreeNodes, Sound
<1>7. Len(v.k) = B_PLUS_TREE_BRANCH + 1
  <2>1. Len(v.k) \in Nat /\ B_PLUS_TREE_BRANCH \in Nat
    BY <1>6, BPlusTreeAssumption DEF Cell
  <2>2. Len(v.k) > B_PLUS_TREE_BRANCH /\ Len(v.k) <= B_PLUS_TREE_BRANCH + 1
    BY <1>1, <1>4, <1>5 DEF Overfull, FileTypes, Size
  <2> QED
    BY <2>1, <2>2
<1>8. v.k[1] \in R[hot_]
  <2>1. 1 \in 1 .. Len(v.k)
    BY <1>7, BPlusTreeAssumption
  <2> QED
    BY <1>6, <2>1 DEF Sound
<1>9. CASE SplitLeaf
  <2> DEFINE rest == LeafRest(v)
             new == LeafNew(v)
             sep == new.k[1]
  <2>1. v.isLeaf /\ Split(v, rest, new, sep, {})
    BY <1>9 DEF SplitLeaf, LeafRest, LeafNew
  <2>2. /\ Halves(v, R[hot_], rest, new, sep)
        /\ HalfFull(rest) /\ HalfFull(new) /\ rest \in Cell /\ new \in Cell
        /\ \A a, b : Pair(v, a, b) <=> Pair(rest, a, b) \/ Pair(new, a, b)
    BY <1>6, <1>7, <2>1, LeafHalves
  <2>3. \A y \in 1 .. allocated : y \in {} <=> Moves(new, y)
    BY DEF Moves, LeafNew, Leaf
  <2> HIDE DEF rest, new, sep, v
  <2> QED
    BY <1>1, <1>3, <1>4, <1>8, <2>1, <2>2, <2>3, SplitInFile DEF v
<1>10. CASE SplitInner
  <2> DEFINE rest == InnerRest(v)
             new == InnerNew(v)
             sep == v.k[half + 1]
  <2>1. ~v.isLeaf /\ Split(v, rest, new, sep, ToSet(new.n))
    BY <1>10 DEF SplitInner, InnerRest, InnerNew
  <2>2. /\ Halves(v, R[hot_], rest, new, sep)
        /\ HalfFull(rest) /\ HalfFull(new) /\ rest \in Cell /\ new \in Cell
    BY <1>6, <1>7, <2>1, InnerHalves
  <2>3. ~new.isLeaf /\ new.n \in Seq(Nat)
    BY <2>2 DEF InnerNew, Inner, Cell
  <2> HIDE DEF rest, new, sep
  <2>4. \A y \in 1 .. allocated : y \in ToSet(new.n) <=> Moves(new, y)
    BY <2>3 DEF Moves, ToSet
  <2> HIDE DEF v
  <2> QED
    BY <1>1, <1>3, <1>4, <1>8, <2>1, <2>2, <2>4, SplitInFile DEF v
<1> QED
  BY <1>9, <1>10

\* The other steps of a call keep the nodes; the end of insertEntry may save the root.
LEMMA CallInFile ==
  ASSUME FileInv, savedRoot' \in {savedRoot, root},
         \/ Descend \/ Answer \/ Settle \/ UNCHANGED vars
         \/ \E k \in Keys, r \in Records \cup {None} : Begin(k, r)
  PROVE  /\ FileInv'
         /\ \A a, b : EntryBelow(a, b)' <=> EntryBelow(a, b)
         /\ \A a, b : HasEntry(a, b)' <=> HasEntry(a, b)
         /\ BelowRoot' = BelowRoot /\ Nodes' = Nodes
<1>1. FileTypes
  BY DEF FileInv
<1>2. PICK D \in SUBSET (1 .. allocated) : \E R, h : TreeIn(D, R, h)
  BY DEF FileInv
<1>3. PICK R, h : TreeIn(D, R, h)
  BY <1>2
<1>4. node' = node /\ allocated' = allocated /\ root' = root
  BY DEF Descend, Answer, Settle, Begin, vars, tree
<1>5. Tree(D, On(node, D), root, R, h) /\ root \in D /\ R[root] = Int /\ savedRoot' \in D
  BY <1>3 DEF TreeIn, Tree, TreeTypes
<1>6. \A y \in D : On(node, D)[y] = node[y]
  BY DEF On
<1>7. /\ op' \in {"idle", "search", "fix"}
      /\ op' # "idle" => key' \in Keys /\ record' \in Records \cup {None} /\ hot_' \in D
      /\ op' = "search" => key' \in R[hot_']
      /\ \A x \in 1 .. allocated : Overfull(x) => op' = "fix" /\ x = hot_'
  <2>1. CASE Descend
    <3>1. op = "search" /\ op' = op /\ key' = key /\ record' = record /\ ~node[hot_].isLeaf
      BY <2>1 DEF Descend
    <3>2. hot_ \in D /\ key \in R[hot_]
      BY <1>3, <3>1 DEF TreeIn
    <3>3. hot_' \in D /\ key \in R[hot_']
      BY <1>5, <1>6, <2>1, <3>1, <3>2, DescendInTree DEF Descend
    <3> QED
      BY <1>1, <3>1, <3>3 DEF FileTypes
  <2>2. CASE Answer
    BY <1>1, <2>2 DEF Answer, FileTypes
  <2>3. CASE Settle
    BY <1>1, <2>3 DEF Settle, FileTypes
  <2>4. CASE \E k \in Keys, r \in Records \cup {None} : Begin(k, r)
    <3>1. /\ op = "idle" /\ op' = "search" /\ hot_' = root
          /\ key' \in Keys /\ record' \in Records \cup {None}
      BY <2>4 DEF Begin
    <3> QED
      BY <1>1, <1>5, <3>1, RowTypes DEF FileTypes
  <2>5. CASE UNCHANGED vars
    <3>1. op' = op /\ key' = key /\ record' = record /\ hot_' = hot_
      BY <2>5 DEF vars, call
    <3> QED
      BY <1>1, <1>3, <3>1 DEF FileTypes, TreeIn
  <2> QED
    BY <2>1, <2>2, <2>3, <2>4, <2>5
<1>8. FileTypes'
  <2>1. \A x : Size(x)' = Size(x) /\ Overfull(x)' = Overfull(x)
    BY <1>4 DEF Size, Overfull
  <2> QED
    BY <1>1, <1>4, <1>7, <2>1 DEF FileTypes
<1>9. TreeIn(D, R, h)'
  BY <1>4, <1>5, <1>7 DEF TreeIn
<1>10. FileInv'
  BY <1>4, <1>8, <1>9 DEF FileInv
<1>11. /\ \A a, b : EntryBelow(a, b)' <=> EntryBelow(a, b)
       /\ BelowRoot' = BelowRoot /\ Nodes' = Nodes
  BY <1>4 DEF EntryBelow, BelowRoot, Leaves, Nodes, Children
<1>12. \A a, b : HasEntry(a, b)' <=> HasEntry(a, b)
  BY <1>4 DEF HasEntry, Leaves, Nodes
<1> QED
  BY <1>10, <1>11, <1>12

\* A step of the index file, by what it does to the tree and to the root in page 0.
LEMMA FileSteps ==
  ASSUME [FileNext]_fileVars
  PROVE  \/ Reopen
         \/ InsertInLeaf /\ UNCHANGED savedRoot
         \/ (SplitLeaf \/ SplitInner) /\ UNCHANGED savedRoot
         \/ /\ savedRoot' \in {savedRoot, root}
            /\ \/ Descend \/ Answer \/ Settle \/ UNCHANGED vars
               \/ \E k \in Keys, r \in Records \cup {None} : Begin(k, r)
<1>1. CASE (\E row \in Rows : Begin(row[1], row[2])) /\ InMemory
  <2>1. PICK row \in Rows : Begin(row[1], row[2])
    BY <1>1
  <2>2. row[1] \in Keys /\ row[2] \in Records
    BY DEF Keys, Records
  <2> QED
    BY <1>1, <2>1, <2>2 DEF InMemory
<1>2. CASE (\E k \in Keys : Begin(k, None)) /\ InMemory
  BY <1>2 DEF InMemory
<1>3. CASE FileWork
  BY <1>3 DEF FileWork, FileSplit, FileSettle, InMemory
<1>4. CASE Reopen
  BY <1>4
<1>5. CASE UNCHANGED fileVars
  BY <1>5 DEF fileVars
<1> QED
  BY <1>1, <1>2, <1>3, <1>4, <1>5 DEF FileNext

\* What a step does to the entries below the root, and to the others.
FileStep ==
  /\ InsertInLeaf =>
       /\ \A b : ~EntryBelow(key, b)
       /\ \A a, b : EntryBelow(a, b)' <=> EntryBelow(a, b) \/ (a = key /\ b = record)
  /\ ~InsertInLeaf /\ ~Reopen => \A a, b : EntryBelow(a, b)' <=> EntryBelow(a, b)
  /\ Reopen => \A a, b : EntryBelow(a, b)' => EntryBelow(a, b)
  /\ \A a, b : HasEntry(a, b) => HasEntry(a, b)'

\* A node that is not below the root stays lost: if all nodes are below the root they were so
\* before, and the root that was found in the file was the root.
StaysWhole ==
  (BelowRoot = Nodes)' => /\ BelowRoot = Nodes
                          /\ Reopen /\ root \in Nodes => savedRoot = root

LEMMA FileNextInv ==
  ASSUME FileInv, [FileNext]_fileVars
  PROVE  FileInv' /\ FileStep /\ StaysWhole
<1>1. CASE Reopen
  <2>1. Nodes' = Nodes /\ ~InsertInLeaf
    BY <1>1 DEF Reopen, Nodes, InsertInLeaf
  <2>2. \A a, b : HasEntry(a, b)' <=> HasEntry(a, b)
    BY <1>1 DEF Reopen, HasEntry, Leaves, Nodes
  <2>3. /\ FileInv' /\ BelowRoot' \subseteq BelowRoot
        /\ root \in BelowRoot' => savedRoot = root
        /\ \A a, b : EntryBelow(a, b)' => EntryBelow(a, b)
    BY <1>1, ReopenFile
  <2>4. BelowRoot \subseteq Nodes
    BY DEF BelowRoot
  <2> QED
    BY <1>1, <2>1, <2>2, <2>3, <2>4 DEF FileStep, StaysWhole
<1>2. CASE InsertInLeaf /\ UNCHANGED savedRoot
  <2>1. ~Reopen
    BY <1>2 DEF InsertInLeaf, Reopen
  <2> QED
    BY <1>2, <2>1, InsertInFile DEF FileStep, StaysWhole
<1>3. CASE (SplitLeaf \/ SplitInner) /\ UNCHANGED savedRoot
  <2>1. ~Reopen /\ ~InsertInLeaf
    BY <1>3 DEF SplitLeaf, SplitInner, InsertInLeaf, Reopen
  <2> QED
    BY <1>3, <2>1, SplitFile DEF FileStep, StaysWhole
<1>4. CASE /\ savedRoot' \in {savedRoot, root}
           /\ \/ Descend \/ Answer \/ Settle \/ UNCHANGED vars
              \/ \E k \in Keys, r \in Records \cup {None} : Begin(k, r)
           /\ ~Reopen
  <2>1. ~InsertInLeaf
    BY <1>4 DEF Descend, Answer, Settle, Begin, vars, call, InsertInLeaf
  <2> QED
    BY <1>4, <2>1, CallInFile DEF FileStep, StaysWhole
<1> QED
  BY <1>1, <1>2, <1>3, <1>4, FileSteps

LEMMA FileInvariant == FileSpec => []FileInv
BY FileInitInv, FileNextInv, PTL DEF FileSpec

-----------------------------------------------------------------------------
(* The theorems about the index file, for any number of nodes to a page,    *)
(* with no assumption on the roots it loses.                                *)

\* A search comes to the one leaf below the root that may have the key.
SearchBelow ==
  op = "search" /\ hot_ \in Leaves =>
    /\ hot_ \in BelowRoot
    /\ \A x \in Leaves \cap BelowRoot : key \in ToSet(node[x].k) => x = hot_

LEMMA InvSearchBelow == FileInv => SearchBelow
<1> SUFFICES ASSUME FileInv, op = "search", hot_ \in Leaves
             PROVE  /\ hot_ \in BelowRoot
                    /\ \A x \in Leaves \cap BelowRoot : key \in ToSet(node[x].k) => x = hot_
  BY DEF SearchBelow
<1>1. PICK D \in SUBSET (1 .. allocated) : \E R, h : TreeIn(D, R, h)
  BY DEF FileInv
<1>2. PICK R, h : TreeIn(D, R, h)
  BY <1>1
<1>3. BelowRoot = D /\ hot_ \in D /\ key \in R[hot_] /\ Tree(D, On(node, D), root, R, h)
  BY <1>2, EntriesBelowAre DEF EntriesInTree, FileInv, TreeIn
<1>4. \A y \in D : /\ R[y] \subseteq Int /\ Sound(node[y], R[y])
                   /\ node[y].isLeaf <=> h[y] = 0
  <2>1. \A y \in D : On(node, D)[y] = node[y]
    BY DEF On
  <2> QED
    BY <1>3, <2>1 DEF Tree, TreeTypes, TreeNodes
<1>5. ASSUME NEW x \in D, node[x].isLeaf, key \in ToSet(node[x].k) PROVE x = hot_
  <2>1. node[x].k \in Seq(Int) /\ \A i \in 1 .. Len(node[x].k) : node[x].k[i] \in R[x]
    BY <1>4 DEF Sound, Cell
  <2>2. key \in R[x]
    BY <1>5, <2>1 DEF ToSet
  <2>3. h[x] = 0 /\ h[hot_] = 0
    BY <1>3, <1>4, <1>5 DEF Leaves
  <2> QED
    BY <1>3, <2>2, <2>3 DEF Tree, TreeApart
<1> QED
  BY <1>3, <1>5 DEF Leaves

\* Searches after a root was lost (commitIndexInfo does not mark page 0), in a tree whose
\* leaves still have the parents and the neighbours of the lost one, are exact for all that is
\* below the root found in the file: searchEntry comes to the leaf with the key, if any there
\* has it, also in the leaves that are split again.
THEOREM FileSearchesExact == FileSpec => []SearchBelow
BY FileInvariant, InvSearchBelow, PTL

\* Whatever roots are lost, an entry is lost only by opening the file: insertEntry adds the
\* key it was called with, which no leaf below the root had, and nothing else; a split, also of
\* a leaf whose parent was lost, adds and removes nothing; and no leaf of the file ever loses an
\* entry, so that what an opening loses is the way to it.
THEOREM FileEntriesKept == FileSpec => [][FileStep]_fileVars
<1>1. FileInv /\ [FileNext]_fileVars => [FileStep]_fileVars
  BY FileNextInv
<1> QED
  BY <1>1, FileInvariant, PTL DEF FileSpec

\* Until a page of nodes is allocated, page 0 names the first leaf for the root: every opening
\* of a file with fewer nodes finds an index of one leaf, whatever was entered (setRoot,
\* commitIndexInfo and the order of the commits of FileInfo).
FirstRootSaved == allocated < NodesPerPage => savedRoot = 1

THEOREM FirstRootKept == FileSpec => []FirstRootSaved
<1> DEFINE J == /\ allocated \in Nat \ {0}
                /\ allocated < NodesPerPage => savedRoot = 1 /\ page0Dirty = FALSE
<1>1. FileInit => J
  BY DEF FileInit, Init
<1>2. J /\ [FileNext]_fileVars => J'
  <2> SUFFICES ASSUME J, [FileNext]_fileVars PROVE J'
    OBVIOUS
  <2>1. CASE FileSplit
    <3>1. allocated' = allocated + 1 \/ allocated' = allocated + 2
      BY <2>1 DEF FileSplit, SplitLeaf, SplitInner, Split
    <3>2. allocated' \in Nat \ {0} /\ savedRoot' = savedRoot
      BY <2>1, <3>1 DEF FileSplit
    <3>3. ASSUME allocated' < NodesPerPage PROVE savedRoot = 1 /\ page0Dirty' = FALSE
      <4>1. NodesPerPage \in Nat /\ allocated < NodesPerPage /\ NodesPerPage > 2
        BY <3>1, <3>3, IndexFileAssumption
      <4>2. ASSUME NEW x \in allocated + 1 .. allocated' PROVE ~CommitsInfo(x)
        <5>1. x \in Nat /\ 1 < x /\ x < NodesPerPage
          BY <3>1, <3>3, <4>1
        <5>2. x % NodesPerPage = x /\ 1 % NodesPerPage = 1
          BY <4>1, <5>1
        <5> QED
          BY <5>1, <5>2 DEF CommitsInfo
      <4> QED
        BY <2>1, <4>1, <4>2 DEF FileSplit
    <3> QED
      BY <3>2, <3>3
  <2>2. CASE FileSettle
    BY <2>2 DEF FileSettle, Settle, tree
  <2>3. CASE Reopen
    BY <2>3 DEF Reopen
  <2>4. CASE /\ \/ Descend \/ Answer \/ InsertInLeaf
                \/ (\E row \in Rows : Begin(row[1], row[2])) \/ (\E k \in Keys : Begin(k, None))
             /\ InMemory
    BY <2>4 DEF Descend, Answer, InsertInLeaf, Begin, InMemory, tree
  <2>5. CASE UNCHANGED fileVars
    BY <2>5 DEF fileVars, vars, tree
  <2> QED
    BY <2>1, <2>2, <2>3, <2>4, <2>5 DEF FileNext, FileWork
<1>3. J => FirstRootSaved
  BY DEF FirstRootSaved
<1> QED
  BY <1>1, <1>2, <1>3, PTL DEF FileSpec

-----------------------------------------------------------------------------
(* A tree with all nodes of the file below the root.  It is as a tree in    *)
(* memory.                                                                  *)

\* Opening the file again is harmless if the root in page 0 is the root.
LEMMA ReopenInv ==
  ASSUME IInv, savedRoot = root, Reopen
  PROVE  IInv'
<1>1. /\ node' = node /\ allocated' = allocated /\ root' = root
      /\ op = "idle" /\ op' = "idle"
  BY DEF Reopen
<1>2. PICK R, h : TreeState(R, h)
  BY DEF IInv
<1>3. TreeState(R, h)'
  BY <1>1, <1>2 DEF TreeState
<1>4. CallTypes' /\ NodeSizes' /\ SizeBound'
  <2>1. Nodes' = Nodes /\ \A x \in Nodes : Overfull(x)' = Overfull(x) /\ Size(x)' = Size(x)
    BY <1>1 DEF Overfull, Size, Nodes
  <2> QED
    BY <1>1, <2>1 DEF IInv, CallTypes, NodeSizes, SizeBound
<1> QED
  BY <1>3, <1>4 DEF IInv

WholeInv == BelowRoot = Nodes => IInv

LEMMA WholeNext ==
  ASSUME FileInv, WholeInv, [FileNext]_fileVars
  PROVE  WholeInv'
<1> SUFFICES ASSUME (BelowRoot = Nodes)' PROVE IInv'
  BY DEF WholeInv
<1>1. BelowRoot = Nodes /\ (Reopen /\ root \in Nodes => savedRoot = root)
  BY FileNextInv DEF StaysWhole
<1>2. IInv
  BY <1>1 DEF WholeInv
<1>3. CASE Reopen
  <2>1. root \in Nodes
    BY <1>2, TreeDomain DEF IInv
  <2> QED
    BY <1>1, <1>2, <1>3, <2>1, ReopenInv
<1>4. CASE [Next]_vars
  BY <1>2, <1>4, NextInv
<1> QED
  BY <1>3, <1>4 DEF FileNext, FileWork, FileSplit, FileSettle, Next, Work, fileVars

LEMMA WholeInvariant == FileSpec => [](FileInv /\ WholeInv)
<1>1. FileInit => WholeInv
  BY InitInv DEF FileInit, WholeInv
<1>2. FileInv /\ WholeInv /\ [FileNext]_fileVars => WholeInv'
  BY WholeNext
<1> QED
  BY <1>1, <1>2, FileInvariant, PTL DEF FileSpec

\* In the file, over all openings that found the last root, the tree is as it should be and
\* searches are exact for all entries.
THEOREM WholeTreeKept ==
  FileSpec => [](BelowRoot = Nodes => SearchExact /\ SeparatorsHold /\ TreeShape /\ NodeSizes)
<1>1. WholeInv => (BelowRoot = Nodes => SearchExact /\ SeparatorsHold /\ TreeShape /\ NodeSizes)
  BY InvSearchExact, InvSeparatorsHold, InvTreeShape, InvNodeSizes DEF WholeInv
<1> QED
  BY <1>1, WholeInvariant, PTL

-----------------------------------------------------------------------------
(* What a scan needs of the tree besides the invariant: inner nodes have    *)
(* keys, and all of them are keys of entries.                               *)

KeysEntered ==
  \A x \in Nodes \ Leaves : Size(x) >= 1 /\ \A i \in 1 .. Size(x) : node[x].k[i] \in Entered

EnteredAreEntries == \A a : a \in Entered <=> \E b : HasEntry(a, b)

\* Entered names the keys of the entries.
LEMMA EntriesEntered == IInv => EnteredAreEntries
<1> SUFFICES ASSUME IInv, NEW a PROVE a \in Entered <=> \E b : HasEntry(a, b)
  BY DEF EnteredAreEntries
<1>1. \A x \in Leaves : node[x].k \in Seq(Int)
  <2>1. PICK R, h : TreeState(R, h)
    BY DEF IInv
  <2> QED
    BY <2>1, TreeDomain DEF Leaves, Cell
<1>2. a \in Entered <=> \E x \in Leaves : a \in ToSet(node[x].k)
  BY DEF Entered
<1>3. ASSUME NEW x \in Leaves
      PROVE  a \in ToSet(node[x].k) <=> \E i \in 1 .. Len(node[x].k) : node[x].k[i] = a
  BY <1>1 DEF ToSet
<1> QED
  BY <1>2, <1>3 DEF HasEntry, Pair

\* Splitting a node moves its keys, and its separator is one of an entry.
LEMMA SplitKeysEntered ==
  ASSUME IInv, IInv', KeysEntered, op = "fix", EnteredAreEntries, EnteredAreEntries',
         \A a, b : HasEntry(a, b)' <=> HasEntry(a, b),
         NEW rest \in Cell, NEW new \in Cell, NEW sep \in Entered, NEW moved,
         Split(node[hot_], rest, new, sep, moved),
         rest.isLeaf = node[hot_].isLeaf, new.isLeaf = node[hot_].isLeaf,
         Len(rest.k) >= 1, Len(new.k) >= 1,
         ~rest.isLeaf => \A i \in 1 .. Len(rest.k) : rest.k[i] \in Entered,
         ~new.isLeaf => \A i \in 1 .. Len(new.k) : new.k[i] \in Entered,
         node[hot_].k[1] \in Int
  PROVE  KeysEntered'
<1>1. Entered' = Entered
  BY DEF EnteredAreEntries
<1>2. PICK R, h : TreeState(R, h)
  BY DEF IInv
<1>3. /\ DOMAIN node = 1 .. allocated /\ node \in [1 .. allocated -> Cell] /\ Nodes = 1 .. allocated
      /\ \A y \in 1 .. allocated : Sound(node[y], R[y])
      /\ hot_ \in 1 .. allocated /\ root \in 1 .. allocated /\ allocated \in Nat \ {0}
      /\ Entered \subseteq Int
  <2>1. \A y \in 1 .. allocated : Sound(node[y], R[y])
    BY <1>2 DEF TreeState, Tree, TreeNodes
  <2>2. \A x \in Leaves : node[x].k \in Seq(Int)
    BY <1>2, TreeDomain DEF Leaves, Cell
  <2> QED
    BY <1>2, <2>1, <2>2, TreeDomain DEF IInv, CallTypes, Entered, ToSet
<1> DEFINE nid == allocated + 1
           grow == hot_ = root
           pid == IF grow THEN allocated + 2 ELSE node[hot_].parent
           p == IF grow THEN NewRoot(hot_) ELSE node[pid]
           at == Rank(p.k, node[hot_].k[1]) + 1
<1>4. /\ allocated' = IF grow THEN allocated + 2 ELSE nid
      /\ node' = [x \in 1 .. allocated' |->
                IF x = hot_ THEN [rest EXCEPT !.parent = pid]
                ELSE IF x = nid THEN [new EXCEPT !.parent = pid]
                ELSE IF x = pid THEN [p EXCEPT !.k = InsertAt(@, at, sep),
                                               !.n = InsertAt(@, at + 1, nid)]
                ELSE IF x \in moved THEN [node[x] EXCEPT !.parent = nid]
                ELSE node[x]]
  BY DEF Split
<1>5. p \in Cell /\ Sorted(p.k) /\ \A j \in 1 .. Len(p.k) : p.k[j] \in Entered
  <2>1. CASE grow
    BY <1>3, <2>1 DEF NewRoot, Inner, NoNode, Cell, Sorted
  <2>2. CASE ~grow
    <3>1. HasParent(1 .. allocated, node, hot_)
      BY <1>2, <1>3, <2>2 DEF TreeState, Tree, TreeParents
    <3>2. pid \in 1 .. allocated /\ ~node[pid].isLeaf
      BY <2>2, <3>1 DEF HasParent
    <3>3. Sound(node[pid], R[pid]) /\ pid \in Nodes \ Leaves
      BY <1>3, <3>2 DEF Leaves
    <3> QED
      BY <2>2, <3>3 DEF Sound, KeysEntered, Size
  <2> QED
    BY <2>1, <2>2
<1>6. at \in 1 .. Len(p.k) + 1
  <2>1. p.k \in Seq(Int) /\ Len(p.k) \in Nat
    BY <1>5 DEF Cell
  <2> HIDE DEF p
  <2>2. Rank(p.k, node[hot_].k[1]) \in 0 .. Len(p.k)
    BY <1>5, <2>1, RankOfSorted
  <2> QED
    BY <2>1, <2>2
<1> HIDE DEF p, at, pid
<1>7. ASSUME NEW x \in 1 .. allocated', ~node'[x].isLeaf
      PROVE  Len(node'[x].k) >= 1 /\ \A i \in 1 .. Len(node'[x].k) : node'[x].k[i] \in Entered
  <2>1. CASE x = hot_
    <3>1. node'[x] = [rest EXCEPT !.parent = pid]
      BY <1>4, <2>1
    <3>2. node'[x].k = rest.k /\ node'[x].isLeaf = rest.isLeaf
      BY <3>1 DEF Cell
    <3> QED
      BY <1>7, <3>2
  <2>2. CASE x # hot_ /\ x = nid
    <3>1. node'[x] = [new EXCEPT !.parent = pid]
      BY <1>4, <2>2
    <3>2. node'[x].k = new.k /\ node'[x].isLeaf = new.isLeaf
      BY <3>1 DEF Cell
    <3> QED
      BY <1>7, <3>2
  <2>3. CASE x # hot_ /\ x # nid /\ x = pid
    <3>1. node'[x] = [p EXCEPT !.k = InsertAt(@, at, sep), !.n = InsertAt(@, at + 1, nid)]
      BY <1>4, <2>3
    <3>2. node'[x].k = InsertAt(p.k, at, sep) /\ p.k \in Seq(Int)
      BY <1>5, <3>1 DEF Cell
    <3>3. sep \in Int
      BY <1>3
    <3>4. Inserted(Int, p.k, at, sep, InsertAt(p.k, at, sep))
      BY <1>6, <3>2, <3>3, InsertAtProperties
    <3>5. Len(node'[x].k) >= 1
      BY <3>2, <3>4 DEF Inserted
    <3>6. ASSUME NEW i \in 1 .. Len(InsertAt(p.k, at, sep))
          PROVE  InsertAt(p.k, at, sep)[i] \in Entered
      <4> DEFINE ks == p.k
                 t == InsertAt(ks, at, sep)
      <4>1. ks \in Seq(Int) /\ at \in 1 .. Len(ks) + 1 /\ Inserted(Int, ks, at, sep, t) /\ i \in 1 .. Len(t)
        BY <1>6, <3>2, <3>4
      <4>2. \A j \in 1 .. Len(ks) : ks[j] \in Entered
        BY <1>5
      <4> HIDE DEF ks, t
      <4>3. t[i] = IF i < at THEN ks[i] ELSE IF i = at THEN sep ELSE ks[i - 1]
        BY <4>1 DEF Inserted
      <4>4. i \in 1 .. Len(ks) + 1
        BY <4>1 DEF Inserted
      <4>5. t[i] \in Entered
        BY <4>1, <4>2, <4>3, <4>4
      <4> QED
        BY <4>5 DEF t, ks
    <3> QED
      BY <3>2, <3>5, <3>6
  <2>4. CASE x # hot_ /\ x # nid /\ x # pid
    <3>1. node'[x] = IF x \in moved THEN [node[x] EXCEPT !.parent = nid] ELSE node[x]
      BY <1>4, <2>4
    <3>2. x \in 1 .. allocated
      <4>0. allocated' \in {allocated + 1, allocated + 2} /\ x \in 1 .. allocated'
        BY <1>4
      <4>1. CASE grow
        <5>1. pid = allocated + 2
          BY <4>1 DEF pid
        <5> QED
          BY <1>3, <4>0, <5>1, <2>4
      <4>2. CASE ~grow
        <5>1. allocated' = allocated + 1
          BY <1>4, <4>2
        <5> QED
          BY <1>3, <4>0, <5>1, <2>4
      <4> QED
        BY <4>1, <4>2
    <3>3. node'[x].k = node[x].k /\ node'[x].isLeaf = node[x].isLeaf
      BY <1>3, <3>1, <3>2 DEF Cell
    <3>4. x \in Nodes \ Leaves
      BY <1>3, <1>7, <3>2, <3>3 DEF Leaves
    <3> QED
      BY <3>3, <3>4 DEF KeysEntered, Size
  <2> QED
    BY <2>1, <2>2, <2>3, <2>4
<1>8. Nodes' = 1 .. allocated'
  BY <1>4 DEF Nodes
<1> QED
  BY <1>1, <1>7, <1>8 DEF KeysEntered, Size, Leaves


\* Half of an overfull node has a key.
LEMMA HalfHasKey ==
  ASSUME NEW v \in Cell, HalfFull(v)
  PROVE  Len(v.k) >= 1
<1>1. Len(v.k) \in Nat
  BY DEF Cell
<1>2. B_PLUS_TREE_BRANCH \div 2 >= 1 /\ B_PLUS_TREE_BRANCH \div 2 \in Nat
  BY BPlusTreeAssumption
<1> QED
  BY <1>1, <1>2 DEF HalfFull

\* A split keeps inner nodes filled with keys of entries: the separator of a leaf is its own
\* key, that of an inner node goes up.
LEMMA SplitKeepsKeys ==
  ASSUME IInv, KeysEntered, SplitLeaf \/ SplitInner, EnteredAreEntries, EnteredAreEntries', IInv'
  PROVE  KeysEntered'
<1>1. PICK R, h : TreeState(R, h)
  BY DEF IInv
<1> DEFINE v == node[hot_]
<1>2. op = "fix" /\ Overfull(hot_) /\ CallTypes /\ SizeBound
  BY DEF SplitLeaf, SplitInner, IInv
<1>3. hot_ \in 1 .. allocated /\ hot_ \in Nodes
  BY <1>1, <1>2, TreeDomain DEF CallTypes
<1>4. Sound(v, R[hot_]) /\ R[hot_] \subseteq Int /\ v \in Cell
  BY <1>1, <1>3 DEF TreeState, Tree, TreeTypes, TreeNodes, Sound
<1>5. Len(v.k) = B_PLUS_TREE_BRANCH + 1
  <2>1. Len(v.k) \in Nat /\ B_PLUS_TREE_BRANCH \in Nat
    BY <1>4, BPlusTreeAssumption DEF Cell
  <2>2. Len(v.k) > B_PLUS_TREE_BRANCH /\ Len(v.k) <= B_PLUS_TREE_BRANCH + 1
    BY <1>2, <1>3 DEF Overfull, SizeBound, Size
  <2> QED
    BY <2>1, <2>2
<1>6. v.k[1] \in Int
  <2>1. 1 \in 1 .. Len(v.k)
    BY <1>5, BPlusTreeAssumption
  <2> QED
    BY <1>4, <2>1 DEF Sound
<1>7. \A a, b : HasEntry(a, b)' <=> HasEntry(a, b)
  BY SplitInv
<1>8. B_PLUS_TREE_BRANCH \div 2 >= 1 /\ half \in 1 .. Len(v.k) /\ half + 1 + 1 \in 1 .. Len(v.k)
  BY <1>5, HalfBounds, BPlusTreeAssumption
<1>9. CASE SplitLeaf
  <2> DEFINE rest == LeafRest(v)
             new == LeafNew(v)
             sep == new.k[1]
  <2>1. v.isLeaf /\ Split(v, rest, new, sep, {})
    BY <1>9 DEF SplitLeaf, LeafRest, LeafNew
  <2>2. /\ rest \in Cell /\ new \in Cell /\ HalfFull(rest) /\ HalfFull(new)
        /\ sep = v.k[half + 1 + 1] /\ Halves(v, R[hot_], rest, new, sep)
    BY <1>4, <1>5, <2>1, LeafHalves
  <2>3. sep \in Entered
    <3>1. PICK j \in 1 .. Len(v.k) : sep = v.k[j]
      BY <1>8, <2>2
    <3>2. v.k \in Seq(Int)
      BY <1>4 DEF Cell
    <3> HIDE DEF sep, v
    <3>3. sep \in ToSet(v.k)
      BY <3>1, <3>2 DEF ToSet
    <3> QED
      BY <1>3, <2>1, <3>3 DEF Entered, Leaves, v
  <2>4. rest.isLeaf = v.isLeaf /\ new.isLeaf = v.isLeaf
    BY <2>2 DEF Halves
  <2>5. Len(rest.k) >= 1 /\ Len(new.k) >= 1
    <3> HIDE DEF rest, new
    <3> QED
      BY <2>2, HalfHasKey
  <2> HIDE DEF rest, new, sep
  <2>6. ~rest.isLeaf => FALSE
    BY <2>1, <2>4
  <2>7. ~new.isLeaf => FALSE
    BY <2>1, <2>4
  <2> QED
    BY <1>2, <1>6, <1>7, <2>1, <2>2, <2>3, <2>4, <2>5, <2>6, <2>7, SplitKeysEntered
<1>10. CASE SplitInner
  <2> DEFINE rest == InnerRest(v)
             new == InnerNew(v)
             sep == v.k[half + 1]
  <2>1. ~v.isLeaf /\ Split(v, rest, new, sep, ToSet(new.n))
    BY <1>10 DEF SplitInner, InnerRest, InnerNew
  <2>2. /\ rest \in Cell /\ new \in Cell /\ HalfFull(rest) /\ HalfFull(new)
        /\ Halves(v, R[hot_], rest, new, sep)
    BY <1>4, <1>5, <2>1, InnerHalves
  <2>3. \A i \in 1 .. Len(v.k) : v.k[i] \in Entered
    BY <1>3, <2>1 DEF KeysEntered, Leaves, Size
  <2>4. rest.isLeaf = v.isLeaf /\ new.isLeaf = v.isLeaf
    BY <2>2 DEF Halves
  <2>5. Len(rest.k) >= 1 /\ Len(new.k) >= 1
    <3> HIDE DEF rest, new
    <3> QED
      BY <2>2, HalfHasKey
  <2>6. \A i \in 1 .. Len(rest.k) : rest.k[i] \in Entered
    <3>1. /\ rest.k = SubSeq(v.k, 1, half)
      BY <1>4 DEF InnerRest, Cell
    <3>2. /\ v.k \in Seq(Int) /\ half \in 0 .. Len(v.k)
      BY <1>4, <1>8 DEF Cell
    <3>3. Len(rest.k) = half /\ \A i \in 1 .. half : rest.k[i] = v.k[i]
      BY <3>1, <3>2
    <3> HIDE DEF rest
    <3>4. \A i \in 1 .. half : i \in 1 .. Len(v.k)
      BY <3>2
    <3> QED
      BY <2>3, <3>3, <3>4
  <2>7. \A i \in 1 .. Len(new.k) : new.k[i] \in Entered
    <3> DEFINE m == half + 1
    <3>1. /\ new.k = SubSeq(v.k, m + 1, Len(v.k))
      BY DEF InnerNew, Inner
    <3>2. /\ v.k \in Seq(Int) /\ m \in 0 .. Len(v.k)
      BY <1>4, <1>8 DEF Cell
    <3> HIDE DEF m, rest, new
    <3>3. Len(new.k) = Len(v.k) - m /\ \A i \in 1 .. Len(v.k) - m : new.k[i] = v.k[m + i]
      BY <3>1, <3>2
    <3>4. \A i \in 1 .. Len(v.k) - m : m + i \in 1 .. Len(v.k)
      BY <3>2
    <3> QED
      BY <2>3, <3>3, <3>4
  <2>8. sep \in Entered
    BY <1>8, <2>3
  <2> HIDE DEF rest, new, sep
  <2> QED
    BY <1>2, <1>6, <1>7, <2>1, <2>2, <2>4, <2>5, <2>6, <2>7, <2>8, SplitKeysEntered
<1> QED
  BY <1>9, <1>10

\* An entry adds to the keys of a leaf.
LEMMA InsertKeepsKeys ==
  ASSUME IInv, KeysEntered, InsertInLeaf, EnteredAreEntries, EnteredAreEntries'
  PROVE  KeysEntered'
<1>1. PICK R, h : TreeState(R, h)
  BY DEF IInv
<1>2. Nodes = DOMAIN node /\ node[hot_].isLeaf /\ hot_ \in DOMAIN node /\ node \in [DOMAIN node -> Cell]
  BY <1>1, TreeDomain DEF IInv, CallTypes, InsertInLeaf, Nodes
<1>3. \A a, b : HasEntry(a, b)' <=> HasEntry(a, b) \/ (a = key /\ b = record)
  BY InsertInLeafInv
<1>4. Entered \subseteq Entered'
  BY <1>3 DEF EnteredAreEntries
<1>5. DOMAIN node' = DOMAIN node
  BY DEF InsertInLeaf
<1>6. ASSUME NEW x \in DOMAIN node, x # hot_ PROVE node'[x] = node[x]
  BY <1>6 DEF InsertInLeaf
<1>7. node'[hot_].isLeaf
  BY <1>2 DEF InsertInLeaf, Cell
<1>8. \A x \in Nodes' \ Leaves' : x \in Nodes \ Leaves /\ node'[x] = node[x]
  BY <1>2, <1>5, <1>6, <1>7 DEF Nodes, Leaves
<1> QED
  BY <1>4, <1>8 DEF KeysEntered, Size

\* KeysEntered is kept by every operation, as long as the root is saved.
LEMMA InnerKeysInv ==
  ASSUME IInv, IInv', KeysEntered, [FileNext]_fileVars,
         EnteredAreEntries, EnteredAreEntries'
  PROVE  KeysEntered'
<1>1. CASE InsertInLeaf
  BY <1>1, InsertKeepsKeys
<1>2. CASE SplitLeaf \/ SplitInner
  BY <1>2, SplitKeepsKeys
<1>3. CASE node' = node
  BY <1>3 DEF KeysEntered, Size, Nodes, Leaves, Entered
<1>4. \/ InsertInLeaf \/ SplitLeaf \/ SplitInner \/ node' = node
  BY DEF FileNext, FileWork, FileSplit, FileSettle, fileVars, vars, tree,
         Begin, Descend, Answer, Settle, Reopen
<1> QED
  BY <1>1, <1>2, <1>3, <1>4
-----------------------------------------------------------------------------
(* Paths: a recursive definition of the way down from a node, by the child  *)
(* that j names in each inner node.                                         *)

\* The tree, as the scan uses it.
ChildView(R, h, x, i) ==
  LET c == node[x].n[i] IN
  /\ c \in Nodes /\ node[c].parent = x /\ h[x] = h[c] + 1
  /\ R[c] = {w \in R[x] : Rank(node[x].k, w) = i - 1}
  /\ \A l \in 1 .. Size(x) + 1 : node[x].n[l] = c => l = i

TreeView(R, h) ==
  /\ Nodes = DOMAIN node /\ root \in Nodes /\ R[root] = Int
  /\ node \in [Nodes -> Cell] /\ R \in [Nodes -> SUBSET Int] /\ h \in [Nodes -> Nat]
  /\ \A x \in Nodes :
       /\ x \in Leaves <=> node[x].isLeaf
       /\ x \in Leaves <=> h[x] = 0
       /\ node[x].k \in Seq(Int) /\ Sorted(node[x].k) /\ Size(x) = Len(node[x].k)
       /\ Size(x) \in Nat
       /\ \A i \in 1 .. Size(x) : node[x].k[i] \in R[x]
       /\ Len(node[x].n) = IF x \in Leaves THEN Size(x) ELSE Size(x) + 1
  /\ \A x \in Nodes \ {root} : h[x] < h[root]
  /\ \A x \in Nodes \ Leaves : \A i \in 1 .. Size(x) + 1 : ChildView(R, h, x, i)

\* The view, from the invariant.
LEMMA TreeViewOf ==
  ASSUME NEW R, NEW h, TreeState(R, h)
  PROVE  TreeView(R, h)
<1>1. /\ Nodes = 1 .. allocated /\ Nodes = DOMAIN node /\ root \in Nodes /\ R[root] = Int
      /\ node \in [Nodes -> Cell] /\ R \in [Nodes -> SUBSET Int] /\ h \in [Nodes -> Nat]
  BY TreeDomain DEF TreeState, Tree, TreeTypes, Nodes
<1>2. \A x \in Nodes : x \in Leaves <=> node[x].isLeaf
  BY DEF Leaves
<1>3. \A x \in Nodes : Sound(node[x], R[x]) /\ (node[x].isLeaf <=> h[x] = 0)
  BY <1>1 DEF TreeState, Tree, TreeNodes
<1>4. \A x \in Nodes \ {root} : h[x] < h[root]
  BY <1>1 DEF TreeState, Tree, TreeParents
<1>5. ASSUME NEW x \in Nodes
      PROVE  /\ node[x].k \in Seq(Int) /\ Sorted(node[x].k) /\ Size(x) = Len(node[x].k)
             /\ Size(x) \in Nat
             /\ \A i \in 1 .. Size(x) : node[x].k[i] \in R[x]
             /\ Len(node[x].n) = IF x \in Leaves THEN Size(x) ELSE Size(x) + 1
  BY <1>2, <1>3 DEF Sound, Cell, Size
<1>6. ASSUME NEW x \in Nodes \ Leaves, NEW i \in 1 .. Size(x) + 1
      PROVE  ChildView(R, h, x, i)
  BY <1>5, ChildrenInTree DEF Part, ChildView
<1> QED
  BY <1>1, <1>2, <1>3, <1>4, <1>5, <1>6 DEF TreeView

Turns(j) == \A x \in Nodes \ Leaves : j[x] \in 1 .. Size(x) + 1

FitsPath(f, j) ==
  f = [x \in Nodes |-> IF node[x].isLeaf THEN <<x>> ELSE <<x>> \o f[node[x].n[j[x]]]]

\* There is a function that fits the definition: it fits below each height.
LEMMA PathExists ==
  ASSUME NEW R, NEW h, TreeView(R, h), NEW j, Turns(j)
  PROVE  \E f : FitsPath(f, j)
<1> DEFINE e(f, x) == IF node[x].isLeaf THEN <<x>> ELSE <<x>> \o f[node[x].n[j[x]]]
           Fits(H) == \E f : f = [x \in Nodes |-> f[x]] /\ \A x \in Nodes : h[x] <= H => f[x] = e(f, x)
           S == {H \in Nat : ~Fits(H)}
<1>1. \A x \in Nodes : h[x] \in Nat /\ (node[x].isLeaf <=> h[x] = 0)
  BY DEF TreeView
<1>2. ASSUME NEW x \in Nodes, ~node[x].isLeaf
      PROVE  node[x].n[j[x]] \in Nodes /\ h[x] = h[node[x].n[j[x]]] + 1
  <2>1. x \in Nodes \ Leaves
    BY <1>2 DEF TreeView
  <2>2. j[x] \in 1 .. Size(x) + 1
    BY <2>1 DEF Turns
  <2>3. ChildView(R, h, x, j[x])
    BY <2>1, <2>2 DEF TreeView
  <2> QED
    BY <2>3 DEF ChildView
<1>3. Fits(0)
  <2> DEFINE f == [x \in Nodes |-> <<x>>]
  <2>1. f = [x \in Nodes |-> f[x]] /\ \A x \in Nodes : h[x] <= 0 => f[x] = e(f, x)
    BY <1>1
  <2> QED
    BY <2>1
<1>4. ASSUME NEW H \in Nat, Fits(H) PROVE Fits(H + 1)
  <2>1. PICK f : f = [x \in Nodes |-> f[x]] /\ \A x \in Nodes : h[x] <= H => f[x] = e(f, x)
    BY <1>4
  <2> DEFINE g == [x \in Nodes |-> IF h[x] <= H THEN f[x] ELSE e(f, x)]
  <2>2. ASSUME NEW x \in Nodes, h[x] <= H + 1 PROVE g[x] = e(g, x)
    <3>1. g[x] = e(f, x)
      BY <2>1
    <3>2. CASE node[x].isLeaf
      BY <3>1, <3>2
    <3>3. CASE ~node[x].isLeaf
      <4> DEFINE c == node[x].n[j[x]]
      <4>1. c \in Nodes /\ h[c] <= H
        BY <1>1, <1>2, <2>2, <3>3
      <4>2. g[c] = f[c]
        BY <4>1
      <4> QED
        BY <3>1, <3>3, <4>2
    <3> QED
      BY <3>2, <3>3
  <2>3. g = [x \in Nodes |-> g[x]]
    OBVIOUS
  <2> HIDE DEF g
  <2> QED
    BY <2>2, <2>3
<1> HIDE DEF Fits
<1>5. S = {}
  <2> SUFFICES ASSUME S # {} PROVE FALSE
    OBVIOUS
  <2>1. PICK m \in S : \A n \in S : m <= n
    BY LeastNumber
  <2>2. m \in Nat /\ m # 0
    BY <1>3
  <2>3. m - 1 \in Nat /\ m - 1 \notin S
    BY <2>1, <2>2
  <2>4. Fits(m - 1)
    BY <2>3
  <2>5. Fits(m - 1 + 1)
    BY <1>4, <2>3, <2>4
  <2> QED
    BY <2>2, <2>5
<1>6. root \in Nodes /\ \A x \in Nodes : h[x] <= h[root]
  <2>1. root \in Nodes /\ \A x \in Nodes \ {root} : h[x] < h[root]
    BY DEF TreeView
  <2> QED
    BY <1>1, <2>1
<1>7. Fits(h[root])
  BY <1>1, <1>5, <1>6
<1>8. PICK f : f = [x \in Nodes |-> f[x]] /\ \A x \in Nodes : h[x] <= h[root] => f[x] = e(f, x)
  BY <1>7 DEF Fits
<1>9. \A x \in Nodes : f[x] = e(f, x)
  BY <1>6, <1>8
<1>10. f = [x \in Nodes |-> e(f, x)]
  BY <1>8, <1>9
<1> QED
  BY <1>10 DEF FitsPath

\* p goes down from x to a leaf.
IsPath(p, x, j, len) ==
  /\ p \in Seq(Nodes) /\ Len(p) = len /\ len \in Nat \ {0} /\ p[1] = x /\ p[len] \in Leaves
  /\ \A l \in 1 .. len - 1 : p[l] \in Nodes \ Leaves /\ p[l + 1] = node[p[l]].n[j[p[l]]]

\* A node before a path from one of its children.
LEMMA LongerPath ==
  ASSUME NEW x \in Nodes \ Leaves, NEW j, NEW c, c = node[x].n[j[x]], NEW p, NEW len,
         IsPath(p, c, j, len)
  PROVE  IsPath(<<x>> \o p, x, j, len + 1)
<1> DEFINE s == <<x>> \o p
<1>1. p \in Seq(Nodes) /\ Len(p) = len /\ len \in Nat \ {0} /\ x \in Nodes
  BY DEF IsPath
<1>2. /\ s \in Seq(Nodes) /\ Len(s) = len + 1 /\ s[1] = x
      /\ \A l \in 2 .. len + 1 : s[l] = p[l - 1]
  BY <1>1
<1> HIDE DEF s
<1>3. s[len + 1] = p[len]
  BY <1>1, <1>2
<1>4. ASSUME NEW l \in 1 .. len PROVE s[l] \in Nodes \ Leaves /\ s[l + 1] = node[s[l]].n[j[s[l]]]
  <2>1. CASE l = 1
    <3>1. s[2] = p[1]
      BY <1>1, <1>2
    <3> QED
      BY <1>2, <2>1, <3>1 DEF IsPath
  <2>2. CASE l # 1
    <3>1. s[l] = p[l - 1] /\ s[l + 1] = p[l - 1 + 1] /\ l - 1 \in 1 .. len - 1
      BY <1>1, <1>2, <2>2
    <3> QED
      BY <3>1 DEF IsPath
  <2> QED
    BY <2>1, <2>2
<1>5. len + 1 \in Nat \ {0} /\ len + 1 - 1 = len /\ p[len] \in Leaves
  BY <1>1 DEF IsPath
<1>6. IsPath(s, x, j, len + 1)
  BY <1>2, <1>3, <1>4, <1>5 DEF IsPath
<1> QED
  BY <1>6 DEF s

\* What fits the definition is a path, from each node: a lowest node from which it is none
\* would not be a leaf, nor have a child.
LEMMA PathIs ==
  ASSUME NEW R, NEW h, TreeView(R, h), NEW j, Turns(j), NEW f, FitsPath(f, j)
  PROVE  \A x \in Nodes : IsPath(f[x], x, j, h[x] + 1)
<1> DEFINE S == {h[x] : x \in {y \in Nodes : ~IsPath(f[y], y, j, h[y] + 1)}}
<1>1. \A x \in Nodes : h[x] \in Nat /\ (node[x].isLeaf <=> h[x] = 0) /\ (x \in Leaves <=> h[x] = 0)
  BY DEF TreeView
<1> SUFFICES ASSUME S # {} PROVE FALSE
  OBVIOUS
<1>2. S \subseteq Nat
  BY <1>1
<1>3. PICK m \in S : \A n \in S : m <= n
  BY <1>2, LeastNumber
<1>4. PICK x \in Nodes : h[x] = m /\ ~IsPath(f[x], x, j, h[x] + 1)
  BY <1>3
<1>5. f[x] = IF node[x].isLeaf THEN <<x>> ELSE <<x>> \o f[node[x].n[j[x]]]
  BY DEF FitsPath
<1>6. CASE node[x].isLeaf
  <2>1. f[x] = <<x>> /\ x \in Leaves /\ h[x] = 0
    BY <1>1, <1>5, <1>6
  <2>2. <<x>> \in Seq(Nodes) /\ Len(<<x>>) = 1 /\ <<x>>[1] = x
    OBVIOUS
  <2>3. IsPath(<<x>>, x, j, 1)
    BY <2>1, <2>2 DEF IsPath
  <2> QED
    BY <1>4, <2>1, <2>3
<1>7. CASE ~node[x].isLeaf
  <2> DEFINE c == node[x].n[j[x]]
  <2>1. x \in Nodes \ Leaves
    BY <1>1, <1>7
  <2>2. j[x] \in 1 .. Size(x) + 1
    BY <2>1 DEF Turns
  <2>3. c \in Nodes /\ h[x] = h[c] + 1
    <3>1. ChildView(R, h, x, j[x])
      BY <2>1, <2>2 DEF TreeView
    <3> QED
      BY <3>1 DEF ChildView
  <2>4. IsPath(f[c], c, j, h[c] + 1)
    <3> SUFFICES ASSUME ~IsPath(f[c], c, j, h[c] + 1) PROVE FALSE
      OBVIOUS
    <3>1. h[c] \in S
      BY <2>3
    <3>2. m <= h[c] /\ h[c] \in Nat
      BY <1>1, <1>3, <2>3, <3>1
    <3> QED
      BY <1>4, <2>3, <3>2
  <2>5. IsPath(<<x>> \o f[c], x, j, h[c] + 1 + 1)
    BY <2>1, <2>4, LongerPath
  <2> QED
    BY <1>4, <1>5, <1>7, <2>3, <2>5
<1> QED
  BY <1>6, <1>7

\* toStart1 goes by the first child of each node, ...
LEMMA FirstPathIs ==
  ASSUME NEW R, NEW h, TreeView(R, h), NEW j, j = [x \in Nodes |-> 1]
  PROVE  Turns(j) /\ \A x \in Nodes : IsPath(FirstPath[x], x, j, h[x] + 1)
<1>1. Turns(j)
  BY DEF Turns, TreeView
<1>2. PICK f : FitsPath(f, j)
  BY <1>1, PathExists
<1> DEFINE E(g) == g = [x \in DOMAIN node |->
                          IF node[x].isLeaf THEN <<x>> ELSE <<x>> \o g[node[x].n[1]]]
<1>3. \A g : E(g) <=> FitsPath(g, j)
  <2>1. Nodes = DOMAIN node /\ \A x \in Nodes : j[x] = 1
    BY DEF TreeView
  <2> QED
    BY <2>1 DEF FitsPath
<1>4. FirstPath = CHOOSE g : E(g)
  BY DEF FirstPath
<1> HIDE DEF E
<1>5. E(FirstPath)
  BY <1>2, <1>3, <1>4
<1> QED
  BY <1>1, <1>3, <1>5, PathIs

\* ... toLeft by the last, ...
LEMMA LastPathIs ==
  ASSUME NEW R, NEW h, TreeView(R, h), NEW j, j = [x \in Nodes |-> Len(node[x].n)]
  PROVE  Turns(j) /\ \A x \in Nodes : IsPath(LastPath[x], x, j, h[x] + 1)
<1>1. Turns(j)
  BY DEF Turns, TreeView
<1>2. PICK f : FitsPath(f, j)
  BY <1>1, PathExists
<1> DEFINE E(g) == g = [x \in DOMAIN node |->
                          IF node[x].isLeaf THEN <<x>> ELSE <<x>> \o g[Last(node[x].n)]]
<1>3. \A g : E(g) <=> FitsPath(g, j)
  <2>1. Nodes = DOMAIN node /\ \A x \in Nodes : Last(node[x].n) = node[x].n[j[x]]
    BY DEF TreeView, Last
  <2> QED
    BY <2>1 DEF FitsPath
<1>4. LastPath = CHOOSE g : E(g)
  BY DEF LastPath
<1> HIDE DEF E
<1>5. E(LastPath)
  BY <1>2, <1>3, <1>4
<1> QED
  BY <1>1, <1>3, <1>5, PathIs

\* ... and toStart2 by the child that the value belongs to.
LEMMA ValuePathIs ==
  ASSUME NEW R, NEW h, TreeView(R, h), NEW v \in Int,
         NEW j, j = [x \in Nodes |-> Rank(node[x].k, v) + 1]
  PROVE  Turns(j) /\ IsPath(ValuePath(v), root, j, h[root] + 1)
<1>1. Turns(j)
  <2> SUFFICES ASSUME NEW x \in Nodes \ Leaves PROVE Rank(node[x].k, v) + 1 \in 1 .. Size(x) + 1
    BY DEF Turns
  <2>1. node[x].k \in Seq(Int) /\ Sorted(node[x].k) /\ Size(x) = Len(node[x].k) /\ Size(x) \in Nat
    BY DEF TreeView
  <2>2. Rank(node[x].k, v) \in 0 .. Len(node[x].k)
    BY <2>1, RankOfSorted
  <2> QED
    BY <2>1, <2>2
<1>2. PICK f : FitsPath(f, j)
  BY <1>1, PathExists
<1> DEFINE E(g) == g = [x \in DOMAIN node |->
             IF node[x].isLeaf THEN <<x>> ELSE <<x>> \o g[node[x].n[Rank(node[x].k, v) + 1]]]
<1>3. \A g : E(g) <=> FitsPath(g, j)
  <2>1. Nodes = DOMAIN node /\ \A x \in Nodes : j[x] = Rank(node[x].k, v) + 1
    BY DEF TreeView
  <2> QED
    BY <2>1 DEF FitsPath
<1>4. ValuePath(v) = (CHOOSE g : E(g))[root]
  BY DEF ValuePath
<1> HIDE DEF E
<1>5. PICK g : E(g) /\ ValuePath(v) = g[root]
  BY <1>2, <1>3, <1>4
<1>6. root \in Nodes
  BY DEF TreeView
<1> QED
  BY <1>1, <1>3, <1>5, <1>6, PathIs
-----------------------------------------------------------------------------
(* The place of a key beside a cursor.                                      *)

\* q are the nodes from the root to a leaf, by the numbers pos of the children; the last
\* number is of an entry, or -1.
Way(L, q, pos) ==
  /\ L \in Nat \ {0} /\ q \in [1 .. L -> Nodes] /\ pos \in Seq(Int) /\ Len(pos) = L
  /\ q[1] = root /\ q[L] \in Leaves
  /\ \A l \in 1 .. L - 1 : /\ q[l] \in Nodes \ Leaves
                           /\ pos[l] \in 0 .. Size(q[l])
                           /\ q[l + 1] = node[q[l]].n[pos[l] + 1]

\* The greatest number at a level, and the number of the child or entry for w.
Limit(L, q, l)   == IF l = L THEN Size(q[l]) - 1 ELSE Size(q[l])
Slot(L, q, l, w) == IF l = L THEN Rank(node[q[l]].k, w) - 1 ELSE Rank(node[q[l]].k, w)

Cursor(L, q, pos) == Way(L, q, pos) /\ pos[L] \in 0 .. Size(q[L]) - 1

KeyOf(L, q, pos) == node[q[L]].k[pos[L] + 1]

\* One step of a way: what the child at level l + 1 is to the node at level l.
LEMMA WayDown ==
  ASSUME NEW R, NEW h, TreeView(R, h), NEW L, NEW q, NEW pos, Way(L, q, pos),
         NEW l \in 1 .. L - 1
  PROVE  /\ q[l] \in Nodes \ Leaves /\ q[l + 1] \in Nodes /\ node[q[l + 1]].parent = q[l]
         /\ h[q[l]] = h[q[l + 1]] + 1
         /\ R[q[l + 1]] = {w \in R[q[l]] : Rank(node[q[l]].k, w) = pos[l]}
         /\ l \in 1 .. L /\ l + 1 \in 1 .. L /\ pos[l] \in 0 .. Size(q[l])
<1> DEFINE x == q[l]
           i == pos[l] + 1
<1>1. x \in Nodes \ Leaves /\ pos[l] \in 0 .. Size(x) /\ q[l + 1] = node[x].n[i] /\ L \in Nat
  BY DEF Way
<1>2. Size(x) \in Nat
  BY <1>1 DEF TreeView
<1>3. i \in 1 .. Size(x) + 1 /\ i - 1 = pos[l]
  BY <1>1, <1>2
<1> HIDE DEF i, x
<1>4. ChildView(R, h, x, i)
  BY <1>1, <1>3 DEF TreeView
<1>5. l \in 1 .. L /\ l + 1 \in 1 .. L
  BY <1>1
<1> QED
  BY <1>1, <1>3, <1>4, <1>5 DEF x, ChildView

\* A key in the range of a node is in that of all nodes above, which send it this way.
LEMMA WayUp ==
  ASSUME NEW R, NEW h, TreeView(R, h), NEW L, NEW q, NEW pos, Way(L, q, pos),
         NEW l \in 1 .. L, NEW w \in R[q[l]]
  PROVE  \A i \in 1 .. l : w \in R[q[i]] /\ (i < l => Rank(node[q[i]].k, w) = pos[i])
<1> DEFINE Bad == {n \in Nat : n < l /\ w \notin R[q[l - n]]}
<1>0. L \in Nat
  BY DEF Way
<1>1. ASSUME NEW i \in 1 .. l - 1, w \in R[q[i + 1]]
      PROVE  w \in R[q[i]] /\ Rank(node[q[i]].k, w) = pos[i]
  <2>1. i \in 1 .. L - 1
    BY <1>0
  <2> QED
    BY <1>1, <2>1, WayDown
<1>2. Bad = {}
  <2> SUFFICES ASSUME Bad # {} PROVE FALSE
    OBVIOUS
  <2>1. PICK n \in Bad : \A m \in Bad : n <= m
    BY LeastNumber
  <2>2. n \in Nat /\ n < l /\ w \notin R[q[l - n]] /\ n # 0
    BY <2>1
  <2>3. n - 1 \in Nat /\ n - 1 < l /\ n - 1 \notin Bad
    BY <2>1, <2>2
  <2>4. w \in R[q[l - (n - 1)]]
    BY <2>3
  <2>5. l - (n - 1) = l - n + 1 /\ l - n \in 1 .. l - 1
    BY <2>2
  <2> QED
    BY <1>1, <2>2, <2>4, <2>5
<1>3. ASSUME NEW i \in 1 .. l PROVE w \in R[q[i]]
  <2>1. l - i \in Nat /\ l - i < l /\ l - (l - i) = i
    OBVIOUS
  <2>2. l - i \notin Bad
    BY <1>2
  <2> QED
    BY <2>1, <2>2
<1>4. ASSUME NEW i \in 1 .. l, i < l PROVE Rank(node[q[i]].k, w) = pos[i]
  <2>1. i \in 1 .. l - 1 /\ i + 1 \in 1 .. l
    BY <1>4
  <2> QED
    BY <1>1, <1>3, <2>1
<1> QED
  BY <1>3, <1>4

\* All ways are as long as the tree is high.
LEMMA WayHeights ==
  ASSUME NEW R, NEW h, TreeView(R, h), NEW L, NEW q, NEW pos, Way(L, q, pos)
  PROVE  \A l \in 1 .. L : h[q[l]] = L - l
<1> DEFINE Bad == {n \in Nat : n < L /\ h[q[L - n]] # n}
<1>1. L \in Nat \ {0} /\ q[L] \in Leaves /\ q[L] \in Nodes
  BY DEF Way, Leaves
<1>2. Bad = {}
  <2> SUFFICES ASSUME Bad # {} PROVE FALSE
    OBVIOUS
  <2>1. PICK n \in Bad : \A m \in Bad : n <= m
    BY LeastNumber
  <2>2. n \in Nat /\ n < L /\ h[q[L - n]] # n
    BY <2>1
  <2>3. n # 0
    <3>1. h[q[L]] = 0
      BY <1>1 DEF TreeView
    <3> QED
      BY <1>1, <2>2, <3>1
  <2>4. n - 1 \in Nat /\ n - 1 < L /\ n - 1 \notin Bad
    <3>1. n - 1 \in Nat /\ n - 1 < L /\ ~(n <= n - 1)
      BY <1>1, <2>2, <2>3
    <3> HIDE DEF Bad
    <3> QED
      BY <2>1, <3>1
  <2>5. h[q[L - (n - 1)]] = n - 1
    BY <2>4
  <2>6. L - (n - 1) = L - n + 1 /\ L - n \in 1 .. L - 1
    BY <1>1, <2>2, <2>3
  <2>7. h[q[L - n]] = h[q[L - n + 1]] + 1
    BY <2>6, WayDown
  <2> QED
    BY <2>2, <2>5, <2>6, <2>7
<1>3. ASSUME NEW l \in 1 .. L PROVE h[q[l]] = L - l
  <2>1. L - l \in Nat /\ L - l < L /\ L - (L - l) = l
    BY <1>1
  <2>2. L - l \notin Bad
    BY <1>2
  <2> QED
    BY <2>1, <2>2
<1> QED
  BY <1>3

\* At climbs back by the parent links.
LEMMA AtIs ==
  ASSUME NEW R, NEW h, TreeView(R, h), NEW q, Way(Len(position), q, position),
         current = q[Len(position)]
  PROVE  \A l \in 1 .. Len(position) : At(l) = q[l]
<1> DEFINE L == Len(position)
           E(f) == f = [l \in 1 .. L |-> IF l = L THEN current ELSE node[f[l + 1]].parent]
<1>1. L \in Nat \ {0} /\ q \in [1 .. L -> Nodes]
  BY DEF Way
<1>2. \A l \in 1 .. L - 1 : q[l] = node[q[l + 1]].parent
  BY WayDown
<1>3. \A l \in 1 .. L : q[l] = IF l = L THEN current ELSE node[q[l + 1]].parent
  BY <1>1, <1>2
<1> DEFINE g == [l \in 1 .. L |-> IF l = L THEN current ELSE node[q[l + 1]].parent]
<1>4. q = g
  <2>1. q = [l \in 1 .. L |-> q[l]]
    BY <1>1
  <2> QED
    BY <1>3, <2>1
<1>5. E(q)
  BY <1>4
<1> DEFINE up == CHOOSE f : E(f)
<1>6. \A l : At(l) = up[l]
  BY DEF At
<1> HIDE DEF E
<1>7. E(up)
  BY <1>5
<1> HIDE DEF up
<1>8. \A l \in 1 .. L : up[l] = IF l = L THEN current ELSE node[up[l + 1]].parent
  BY <1>7 DEF E
<1> HIDE DEF L
<1> DEFINE Bad == {n \in Nat : n < L /\ up[L - n] # q[L - n]}
<1>9. Bad = {}
  <2> SUFFICES ASSUME Bad # {} PROVE FALSE
    OBVIOUS
  <2>1. PICK n \in Bad : \A m \in Bad : n <= m
    BY LeastNumber
  <2>2. n \in Nat /\ n < L /\ up[L - n] # q[L - n]
    BY <2>1
  <2>3. n # 0
    BY <1>1, <1>3, <1>8, <2>2
  <2>4. n - 1 \in Nat /\ n - 1 < L /\ n - 1 \notin Bad
    <3>1. n - 1 \in Nat /\ n - 1 < L /\ ~(n <= n - 1)
      BY <1>1, <2>2, <2>3
    <3> HIDE DEF Bad
    <3> QED
      BY <2>1, <3>1
  <2>5. up[L - (n - 1)] = q[L - (n - 1)]
    BY <2>4
  <2>6. L - (n - 1) = L - n + 1 /\ L - n \in 1 .. L /\ L - n # L
    BY <1>1, <2>2, <2>3
  <2>7. up[L - n] = node[up[L - n + 1]].parent /\ q[L - n] = node[q[L - n + 1]].parent
    BY <1>3, <1>8, <2>6
  <2> QED
    BY <2>2, <2>5, <2>6, <2>7
<1>10. ASSUME NEW l \in 1 .. L PROVE up[l] = q[l]
  <2>1. L - l \in Nat /\ L - l < L /\ L - (L - l) = l
    BY <1>1
  <2>2. L - l \notin Bad
    BY <1>9
  <2> QED
    BY <2>1, <2>2
<1> QED
  BY <1>6, <1>10 DEF L

\* The lowest level whose range a key is in.
LEMMA LevelOf ==
  ASSUME NEW R, NEW h, TreeView(R, h), NEW L, NEW q, NEW pos, Way(L, q, pos), NEW w \in Int
  PROVE  \E m \in 1 .. L : w \in R[q[m]] /\ (m < L => Rank(node[q[m]].k, w) # pos[m])
<1> DEFINE T == {l \in 1 .. L : w \notin R[q[l]]}
<1>1. L \in Nat \ {0} /\ w \in R[q[1]]
  BY DEF Way, TreeView
<1>2. CASE T = {}
  <2>1. L \in 1 .. L /\ w \in R[q[L]] /\ ~(L < L)
    BY <1>1, <1>2
  <2> QED
    BY <2>1
<1>3. CASE T # {}
  <2>0. T \subseteq Nat
    OBVIOUS
  <2>1. PICK t \in T : \A n \in T : t <= n
    BY <1>3, <2>0, LeastNumber
  <2>2. t \in 1 .. L /\ w \notin R[q[t]] /\ t # 1
    BY <1>1, <2>1
  <2>3. t - 1 \in 1 .. L - 1 /\ t - 1 \in 1 .. L /\ t - 1 + 1 = t /\ t - 1 \notin T
    BY <1>1, <2>1, <2>2
  <2>4. w \in R[q[t - 1]]
    BY <2>3
  <2>5. R[q[t - 1 + 1]] = {u \in R[q[t - 1]] : Rank(node[q[t - 1]].k, u) = pos[t - 1]}
    BY <2>3, WayDown
  <2> QED
    BY <2>2, <2>3, <2>4, <2>5
<1> QED
  BY <1>2, <1>3

\* Rank does not fall.
LEMMA RankOrder ==
  ASSUME NEW R, NEW h, TreeView(R, h), NEW x \in Nodes, NEW a \in Int, NEW b \in Int
  PROVE  /\ Rank(node[x].k, a) \in 0 .. Size(x) /\ Rank(node[x].k, b) \in 0 .. Size(x)
         /\ a <= b => Rank(node[x].k, a) <= Rank(node[x].k, b)
<1> DEFINE k == node[x].k
           ra == Rank(k, a)
           rb == Rank(k, b)
<1>1. k \in Seq(Int) /\ Sorted(k) /\ Size(x) = Len(k)
  BY DEF TreeView
<1> HIDE DEF k
<1>2. ra \in 0 .. Len(k) /\ \A i \in 1 .. Len(k) : k[i] <= a <=> i <= ra
  BY <1>1, RankOfSorted
<1>3. rb \in 0 .. Len(k) /\ \A i \in 1 .. Len(k) : k[i] <= b <=> i <= rb
  BY <1>1, RankOfSorted
<1> HIDE DEF ra, rb
<1>4. ASSUME a <= b PROVE ra <= rb
  <2>1. CASE ra = 0
    BY <1>3, <2>1
  <2>2. CASE ra # 0
    <3>1. ra \in 1 .. Len(k) /\ k[ra] \in Int
      BY <1>1, <1>2, <2>2
    <3>2. k[ra] <= a
      BY <1>2, <3>1
    <3>3. k[ra] <= b
      BY <1>4, <3>1, <3>2
    <3> QED
      BY <1>3, <3>1, <3>3
  <2> QED
    BY <2>1, <2>2
<1> QED
  BY <1>1, <1>2, <1>3, <1>4 DEF k, ra, rb

\* The rank of a key of the node.
LEMMA RankOfKey ==
  ASSUME NEW R, NEW h, TreeView(R, h), NEW x \in Nodes, NEW i \in 1 .. Size(x)
  PROVE  /\ Rank(node[x].k, node[x].k[i]) = i /\ node[x].k[i] \in R[x] /\ node[x].k[i] \in Int
         /\ \A j \in 1 .. Size(x) : node[x].k[j] < node[x].k[i] <=> j < i
<1> DEFINE k == node[x].k
<1>1. k \in Seq(Int) /\ Sorted(k) /\ Size(x) = Len(k) /\ k[i] \in R[x]
  BY DEF TreeView
<1> HIDE DEF k
<1>2. i \in 1 .. Len(k) /\ k[i] \in Int /\ Len(k) \in Nat /\ \A j \in 1 .. Len(k) : k[j] \in Int
  BY <1>1
<1>3. \A j \in 1 .. Len(k) : (j < i => k[j] < k[i]) /\ (i < j => k[i] < k[j])
  BY <1>1, <1>2 DEF Sorted
<1>4. \A j \in 1 .. Len(k) : (k[j] <= k[i] <=> j <= i) /\ (k[j] < k[i] <=> j < i)
  BY <1>2, <1>3
<1>5. i \in 0 .. Len(k)
  BY <1>2
<1>6. Rank(k, k[i]) = i
  BY <1>1, <1>2, <1>4, <1>5, RankIs
<1> QED
  BY <1>1, <1>2, <1>4, <1>6 DEF k

\* The key at a cursor is in the ranges on the way, at the numbers of the cursor.
LEMMA CursorKey ==
  ASSUME NEW R, NEW h, TreeView(R, h), NEW L, NEW q, NEW pos, Cursor(L, q, pos)
  PROVE  LET u == KeyOf(L, q, pos) IN
         /\ u \in Int /\ u \in Entered
         /\ \A l \in 1 .. L : q[l] \in Nodes /\ u \in R[q[l]] /\ Slot(L, q, l, u) = pos[l]
<1> DEFINE u == KeyOf(L, q, pos)
           i == pos[L] + 1
<1>1. /\ Way(L, q, pos) /\ L \in Nat \ {0} /\ q[L] \in Leaves /\ q[L] \in Nodes
      /\ pos[L] \in 0 .. Size(q[L]) - 1
  BY DEF Cursor, Way, Leaves
<1>2. Size(q[L]) \in Nat /\ Size(q[L]) = Len(node[q[L]].k) /\ node[q[L]].k \in Seq(Int)
  BY <1>1 DEF TreeView
<1>3. i \in 1 .. Size(q[L]) /\ u = node[q[L]].k[i] /\ i - 1 = pos[L]
  <2> DEFINE s == Size(q[L])
             p == pos[L]
  <2>1. s \in Nat /\ p \in 0 .. s - 1
    BY <1>1, <1>2
  <2>2. u = node[q[L]].k[p + 1]
    BY DEF KeyOf
  <2> HIDE DEF s, p
  <2>3. p + 1 \in 1 .. s /\ p + 1 - 1 = p
    BY <2>1
  <2>4. p + 1 = i /\ s = Size(q[L]) /\ p = pos[L]
    BY DEF p, s
  <2> HIDE DEF i, u
  <2>5. i \in 1 .. s /\ i - 1 = p
    BY <2>1, <2>3, <2>4
  <2>6. u = node[q[L]].k[i]
    BY <2>2, <2>4
  <2> QED
    BY <2>4, <2>5, <2>6
<1> HIDE DEF u, i
<1>4. Rank(node[q[L]].k, u) = i /\ u \in R[q[L]] /\ u \in Int
  BY <1>1, <1>3, RankOfKey
<1>5. u \in Entered
  <2>1. u \in ToSet(node[q[L]].k)
    BY <1>2, <1>3 DEF ToSet
  <2> QED
    BY <1>1, <2>1 DEF Entered
<1>6. ASSUME NEW l \in 1 .. L PROVE q[l] \in Nodes /\ u \in R[q[l]] /\ Slot(L, q, l, u) = pos[l]
  <2>1. q[l] \in Nodes /\ L \in 1 .. L
    BY <1>1 DEF Way
  <2>2. u \in R[q[l]] /\ (l < L => Rank(node[q[l]].k, u) = pos[l])
    BY <1>1, <1>4, <2>1, WayUp
  <2> QED
    BY <1>1, <1>3, <1>4, <2>1, <2>2 DEF Slot
<1> QED
  BY <1>4, <1>5, <1>6 DEF u

\* Keys are integers.
LEMMA EnteredInts == ASSUME NEW R, NEW h, TreeView(R, h) PROVE Entered \subseteq Int
BY DEF TreeView, Entered, Leaves, ToSet

\* An entered key in the range of a leaf is in the leaf.
LEMMA EnteredInLeaf ==
  ASSUME NEW R, NEW h, TreeState(R, h), NEW w \in Entered, NEW x \in Leaves, w \in R[x]
  PROVE  \E i \in 1 .. Size(x) : node[x].k[i] = w
<1>1. TreeView(R, h)
  BY TreeViewOf
<1>2. PICK y \in Leaves : w \in ToSet(node[y].k)
  BY DEF Entered
<1>3. x = y
  BY <1>2, LeafOfKey
<1>4. x \in Nodes
  BY DEF Leaves
<1>5. node[x].k \in Seq(Int) /\ Size(x) = Len(node[x].k)
  BY <1>1, <1>4 DEF TreeView
<1> QED
  BY <1>2, <1>3, <1>5 DEF ToSet

\* An entered key is the one at the cursor, or it is, at some level, on the side of the cursor
\* that its order says.
LEMMA KeyPlace ==
  ASSUME NEW R, NEW h, TreeState(R, h), NEW L, NEW q, NEW pos, Cursor(L, q, pos),
         NEW w \in Entered, w # KeyOf(L, q, pos)
  PROVE  \E m \in 1 .. L :
           /\ w \in R[q[m]] /\ Slot(L, q, m, w) \in 0 .. Limit(L, q, m)
           /\ Slot(L, q, m, w) # pos[m] /\ pos[m] \in Int
           /\ w < KeyOf(L, q, pos) <=> Slot(L, q, m, w) < pos[m]
<1> DEFINE u == KeyOf(L, q, pos)
<1>1. TreeView(R, h) /\ Way(L, q, pos) /\ L \in Nat \ {0} /\ w \in Int
  BY TreeViewOf, EnteredInts DEF Cursor, Way
<1>2. /\ u \in Int
      /\ \A l \in 1 .. L : q[l] \in Nodes /\ u \in R[q[l]] /\ Slot(L, q, l, u) = pos[l]
  BY <1>1, CursorKey
<1>3. PICK m \in 1 .. L : w \in R[q[m]] /\ (m < L => Rank(node[q[m]].k, w) # pos[m])
  BY <1>1, LevelOf
<1> DEFINE x == q[m]
           ru == Rank(node[x].k, u)
           rw == Rank(node[x].k, w)
<1>4. x \in Nodes /\ Slot(L, q, m, u) = pos[m]
  BY <1>2
<1>5. /\ ru \in 0 .. Size(x) /\ rw \in 0 .. Size(x) /\ Size(x) \in Nat
      /\ (u <= w => ru <= rw) /\ (w <= u => rw <= ru)
  BY <1>1, <1>2, <1>4, RankOrder DEF TreeView
<1> HIDE DEF u
<1>6. CASE m < L
  <2>1. Slot(L, q, m, w) = rw /\ pos[m] = ru /\ Limit(L, q, m) = Size(x) /\ rw # pos[m]
    BY <1>1, <1>3, <1>4, <1>6 DEF Slot, Limit
  <2> HIDE DEF x, ru, rw
  <2>2. w < u <=> rw < ru
    BY <1>1, <1>2, <1>5, <2>1
  <2> QED
    BY <1>3, <1>5, <2>1, <2>2 DEF u, x
<1>7. CASE m = L
  <2>1. x \in Leaves
    BY <1>1, <1>7 DEF Way
  <2>2. PICK i \in 1 .. Size(x) : node[x].k[i] = w
    BY <1>3, <2>1, EnteredInLeaf
  <2>3. rw = i /\ \A j \in 1 .. Size(x) : node[x].k[j] < w <=> j < i
    BY <1>1, <1>4, <2>2, RankOfKey
  <2>4. Slot(L, q, m, w) = i - 1 /\ Limit(L, q, m) = Size(x) - 1 /\ pos[m] = ru - 1
    BY <1>4, <1>7, <2>3 DEF Slot, Limit
  <2>5. pos[m] \in 0 .. Size(x) - 1 /\ u = node[x].k[pos[m] + 1]
    BY <1>7 DEF Cursor, KeyOf, u
  <2> HIDE DEF x, ru, rw
  <2>6. pos[m] + 1 \in 1 .. Size(x) /\ pos[m] \in Int /\ i \in Int
    BY <1>5, <2>5
  <2>7. i # pos[m] + 1
    BY <2>2, <2>5 DEF u
  <2>8. u < w <=> pos[m] + 1 < i
    BY <2>3, <2>5, <2>6
  <2>9. u # w
    BY DEF u
  <2>10. w < u <=> i - 1 < pos[m]
    BY <1>1, <1>2, <2>6, <2>7, <2>8, <2>9
  <2>11. i - 1 \in 0 .. Size(x) - 1 /\ i - 1 # pos[m] /\ pos[m] \in Int
    BY <1>5, <2>6, <2>7
  <2> QED
    BY <1>3, <2>4, <2>10, <2>11 DEF u, x
<1> QED
  BY <1>1, <1>6, <1>7
-----------------------------------------------------------------------------
(* toRight and toLeft.                                                      *)

\* One cursor is a step from another at level l, to the right (d = 1) or to the left (-1):
\* below l they are at opposite ends.
Neighbours(d, l, L, q, pos, q2, pos2) ==
  /\ d \in {1, -1} /\ l \in 1 .. L
  /\ \A i \in 1 .. l : q2[i] = q[i]
  /\ \A i \in 1 .. l - 1 : pos2[i] = pos[i]
  /\ pos2[l] = pos[l] + d
  /\ \A i \in l + 1 .. L :
       /\ d = 1 => pos[i] = Limit(L, q, i) /\ pos2[i] = 0
       /\ d = -1 => pos[i] = 0 /\ pos2[i] = Limit(L, q2, i)

Ahead(d, a, b) == IF d = 1 THEN a < b ELSE b < a

\* Then their keys follow each other.
LEMMA NeighbourKeys ==
  ASSUME NEW R, NEW h, TreeState(R, h), NEW L, NEW q, NEW pos, Cursor(L, q, pos),
         NEW q2, NEW pos2, Cursor(L, q2, pos2),
         NEW d, NEW l, Neighbours(d, l, L, q, pos, q2, pos2)
  PROVE  /\ Ahead(d, KeyOf(L, q, pos), KeyOf(L, q2, pos2))
         /\ \A w \in Entered : ~(/\ Ahead(d, KeyOf(L, q, pos), w)
                                 /\ Ahead(d, w, KeyOf(L, q2, pos2)))
<1> DEFINE u == KeyOf(L, q, pos)
           u2 == KeyOf(L, q2, pos2)
<1>1. /\ TreeView(R, h) /\ Way(L, q, pos) /\ Way(L, q2, pos2)
      /\ L \in Nat \ {0} /\ l \in 1 .. L /\ d \in {1, -1}
  BY TreeViewOf DEF Cursor, Way, Neighbours
<1>2. /\ u \in Int
      /\ \A i \in 1 .. L : q[i] \in Nodes /\ u \in R[q[i]] /\ Slot(L, q, i, u) = pos[i]
  BY <1>1, CursorKey
<1>3. /\ u2 \in Int
      /\ \A i \in 1 .. L : q2[i] \in Nodes /\ u2 \in R[q2[i]] /\ Slot(L, q2, i, u2) = pos2[i]
  BY <1>1, CursorKey
<1> HIDE DEF u, u2
<1>4. \A i \in 1 .. l : q2[i] = q[i] /\ i \in 1 .. L
  BY <1>1 DEF Neighbours
<1>5. \A i \in 1 .. l : \A w : Slot(L, q2, i, w) = Slot(L, q, i, w)
  BY <1>4 DEF Slot
<1>6. ASSUME NEW i \in 1 .. L, NEW a \in Int, NEW b \in Int, a <= b
      PROVE  /\ Slot(L, q, i, a) \in Int /\ Slot(L, q, i, b) \in Int
             /\ Slot(L, q, i, a) <= Slot(L, q, i, b)
  <2>1. /\ Rank(node[q[i]].k, a) \in 0 .. Size(q[i]) /\ Rank(node[q[i]].k, b) \in 0 .. Size(q[i])
        /\ Rank(node[q[i]].k, a) <= Rank(node[q[i]].k, b)
    BY <1>1, <1>2, <1>6, RankOrder
  <2> QED
    BY <2>1 DEF Slot
<1>7. /\ l \in 1 .. l /\ Slot(L, q, l, u) = pos[l] /\ Slot(L, q, l, u2) = pos[l] + d
      /\ pos2[l] = pos[l] + d /\ pos[l] \in Int
  <2>1. l \in 1 .. l
    BY <1>1
  <2>2. Slot(L, q, l, u2) = pos2[l]
    BY <1>1, <1>3, <1>5, <2>1
  <2>3. pos[l] \in Int
    BY <1>1 DEF Way
  <2> QED
    BY <1>1, <1>2, <2>1, <2>2, <2>3 DEF Neighbours
<1>8. Ahead(d, u, u2)
  <2>1. CASE d = 1
    <3>1. ~(u2 <= u)
      <4> SUFFICES ASSUME u2 <= u PROVE FALSE
        OBVIOUS
      <4>1. Slot(L, q, l, u2) <= Slot(L, q, l, u)
        BY <1>1, <1>2, <1>3, <1>6
      <4> QED
        BY <1>7, <2>1, <4>1
    <3> QED
      BY <1>2, <1>3, <2>1, <3>1 DEF Ahead
  <2>2. CASE d = -1
    <3>0. pos[l] + d = pos[l] - 1
      BY <1>7, <2>2
    <3>1. ~(u <= u2)
      <4> SUFFICES ASSUME u <= u2 PROVE FALSE
        OBVIOUS
      <4>1. Slot(L, q, l, u) <= Slot(L, q, l, u2)
        BY <1>1, <1>2, <1>3, <1>6
      <4> QED
        BY <1>7, <3>0, <4>1
    <3> QED
      BY <1>2, <1>3, <2>2, <3>1 DEF Ahead
  <2> QED
    BY <1>1, <2>1, <2>2
<1>9. ASSUME NEW w \in Entered, Ahead(d, u, w), Ahead(d, w, u2) PROVE FALSE
  <2>1. w \in Int /\ w # u /\ w # u2
    BY <1>1, <1>2, <1>3, <1>9, EnteredInts DEF Ahead
  <2>2. PICK m \in 1 .. L :
          /\ w \in R[q[m]] /\ Slot(L, q, m, w) \in 0 .. Limit(L, q, m)
          /\ Slot(L, q, m, w) # pos[m] /\ pos[m] \in Int
          /\ w < u <=> Slot(L, q, m, w) < pos[m]
    BY <2>1, KeyPlace DEF u
  <2>3. PICK m2 \in 1 .. L :
          /\ w \in R[q2[m2]] /\ Slot(L, q2, m2, w) \in 0 .. Limit(L, q2, m2)
          /\ Slot(L, q2, m2, w) # pos2[m2] /\ pos2[m2] \in Int
          /\ w < u2 <=> Slot(L, q2, m2, w) < pos2[m2]
    BY <2>1, KeyPlace DEF u2
  <2>4. ~(m > l)
    <3> SUFFICES ASSUME m > l PROVE FALSE
      OBVIOUS
    <3>1. m \in l + 1 .. L
      BY <1>1
    <3>2. CASE d = 1
      <4>1. pos[m] = Limit(L, q, m) /\ u < w
        BY <1>9, <3>1, <3>2 DEF Neighbours, Ahead
      <4>2. Slot(L, q, m, w) < pos[m]
        BY <2>2, <4>1
      <4> QED
        BY <1>2, <2>1, <2>2, <4>1, <4>2
    <3>3. CASE d = -1
      <4>1. pos[m] = 0 /\ w < u
        BY <1>9, <3>1, <3>3 DEF Neighbours, Ahead
      <4> QED
        BY <2>2, <4>1
    <3> QED
      BY <1>1, <3>2, <3>3
  <2>5. \A i \in 1 .. l : i \in 1 .. L /\ (d = 1 => /\ pos[i] <= Slot(L, q, i, w)
                                                    /\ Slot(L, q, i, w) <= pos2[i])
                          /\ (d = -1 => /\ pos2[i] <= Slot(L, q, i, w)
                                        /\ Slot(L, q, i, w) <= pos[i])
    <3> SUFFICES ASSUME NEW i \in 1 .. l
                 PROVE  i \in 1 .. L /\ (d = 1 => /\ pos[i] <= Slot(L, q, i, w)
                                                  /\ Slot(L, q, i, w) <= pos2[i])
                        /\ (d = -1 => /\ pos2[i] <= Slot(L, q, i, w)
                                      /\ Slot(L, q, i, w) <= pos[i])
      OBVIOUS
    <3>1. i \in 1 .. L /\ Slot(L, q, i, u) = pos[i] /\ Slot(L, q, i, u2) = pos2[i]
      BY <1>2, <1>3, <1>4, <1>5
    <3>2. CASE d = 1
      <4>1. u <= w /\ w <= u2
        BY <1>2, <1>3, <1>9, <2>1, <3>2 DEF Ahead
      <4> QED
        BY <1>2, <1>3, <1>6, <2>1, <3>1, <3>2, <4>1
    <3>3. CASE d = -1
      <4>1. w <= u /\ u2 <= w
        BY <1>2, <1>3, <1>9, <2>1, <3>3 DEF Ahead
      <4> QED
        BY <1>2, <1>3, <1>6, <2>1, <3>1, <3>3, <4>1
    <3> QED
      BY <1>1, <3>2, <3>3
  <2>6. Slot(L, q, m, w) \in Int /\ Slot(L, q2, m2, w) \in Int
    BY <2>2, <2>3
  <2>7. m = l
    <3>1. ASSUME m < l PROVE FALSE
      <4>1. m \in 1 .. l - 1 /\ m \in 1 .. l
        BY <1>1, <3>1
      <4>2. pos2[m] = pos[m]
        BY <4>1 DEF Neighbours
      <4>3. Slot(L, q, m, w) = pos[m]
        BY <1>1, <2>2, <2>5, <2>6, <4>1, <4>2
      <4> QED
        BY <2>2, <4>3
    <3> QED
      BY <1>1, <2>4, <3>1
  <2>8. Slot(L, q, l, w) = pos2[l]
    BY <1>1, <1>7, <2>2, <2>5, <2>6, <2>7
  <2>9. CASE m2 > l
    <3>1. m2 \in l + 1 .. L
      BY <1>1, <2>9
    <3>2. CASE d = 1
      <4>1. pos2[m2] = 0 /\ w < u2
        BY <1>9, <3>1, <3>2 DEF Neighbours, Ahead
      <4> QED
        BY <2>3, <4>1
    <3>3. CASE d = -1
      <4>1. pos2[m2] = Limit(L, q2, m2) /\ u2 < w
        BY <1>9, <3>1, <3>3 DEF Neighbours, Ahead
      <4>2. Slot(L, q2, m2, w) < pos2[m2]
        BY <2>3, <4>1
      <4> QED
        BY <1>3, <2>1, <2>3, <4>1, <4>2
    <3> QED
      BY <1>1, <3>2, <3>3
  <2>10. CASE m2 = l
    BY <1>5, <1>7, <2>3, <2>8, <2>10
  <2>11. CASE m2 < l
    <3>1. m2 \in 1 .. l - 1 /\ m2 \in 1 .. l /\ m2 < L
      BY <1>1, <2>11
    <3>2. Rank(node[q[m2]].k, w) = pos[m2]
      BY <1>1, <2>2, <2>7, <2>11, <3>1, WayUp
    <3>3. Slot(L, q2, m2, w) = Rank(node[q[m2]].k, w) /\ pos2[m2] = pos[m2]
      BY <1>1, <1>4, <3>1 DEF Slot, Neighbours
    <3> QED
      BY <2>3, <3>2, <3>3
  <2> QED
    BY <1>1, <2>9, <2>10, <2>11
<1> QED
  BY <1>8, <1>9 DEF u, u2

\* At the end of all levels there is no key ahead.
LEMMA NoKeyAhead ==
  ASSUME NEW R, NEW h, TreeState(R, h), NEW L, NEW q, NEW pos, Cursor(L, q, pos),
         NEW d \in {1, -1},
         \A i \in 1 .. L : (d = 1 => pos[i] = Limit(L, q, i)) /\ (d = -1 => pos[i] = 0)
  PROVE  \A w \in Entered : ~Ahead(d, KeyOf(L, q, pos), w)
<1> DEFINE u == KeyOf(L, q, pos)
<1> SUFFICES ASSUME NEW w \in Entered, Ahead(d, u, w) PROVE FALSE
  OBVIOUS
<1>1. TreeView(R, h)
  BY TreeViewOf
<1>2. u \in Int /\ w \in Int
  BY <1>1, CursorKey, EnteredInts
<1> HIDE DEF u
<1>3. w # u
  BY <1>2 DEF Ahead
<1>4. PICK m \in 1 .. L :
        /\ w \in R[q[m]] /\ Slot(L, q, m, w) \in 0 .. Limit(L, q, m)
        /\ Slot(L, q, m, w) # pos[m] /\ pos[m] \in Int
        /\ w < u <=> Slot(L, q, m, w) < pos[m]
  BY <1>3, KeyPlace DEF u
<1>5. CASE d = 1
  <2>1. u < w /\ pos[m] = Limit(L, q, m)
    BY <1>5 DEF Ahead
  <2>2. Slot(L, q, m, w) < pos[m]
    BY <1>4, <2>1
  <2> QED
    BY <1>2, <1>4, <2>1, <2>2
<1>6. CASE d = -1
  <2>1. w < u /\ pos[m] = 0
    BY <1>6 DEF Ahead
  <2> QED
    BY <1>4, <2>1
<1> QED
  BY <1>5, <1>6
\* The child numbers of a path are those it was made by.
LEMMA ChildNumbersAre ==
  ASSUME NEW R, NEW h, TreeView(R, h), NEW j, Turns(j), NEW x, NEW p, NEW len, IsPath(p, x, j, len)
  PROVE  /\ ChildNumbers(p) \in Seq(Int) /\ Len(ChildNumbers(p)) = len - 1
         /\ \A l \in 1 .. len - 1 : ChildNumbers(p)[l] = j[p[l]] - 1
<1> DEFINE c(l) == (CHOOSE i \in DOMAIN node[p[l]].n : node[p[l]].n[i] = p[l + 1]) - 1
<1>1. Len(p) = len /\ len \in Nat \ {0}
  BY DEF IsPath
<1>2. ASSUME NEW l \in 1 .. len - 1 PROVE c(l) = j[p[l]] - 1 /\ c(l) \in Int
  <2> DEFINE y == p[l]
  <2>1. y \in Nodes \ Leaves /\ p[l + 1] = node[y].n[j[y]]
    BY DEF IsPath
  <2> HIDE DEF y
  <2>2. j[y] \in 1 .. Size(y) + 1
    BY <2>1 DEF Turns
  <2>3. DOMAIN node[y].n = 1 .. Size(y) + 1
    <3>1. node[y] \in Cell /\ Len(node[y].n) = Size(y) + 1
      BY <2>1 DEF TreeView
    <3>2. node[y].n \in Seq(Nat)
      BY <3>1 DEF Cell
    <3> QED
      BY <3>1, <3>2
  <2>4. ChildView(R, h, y, j[y])
    BY <2>1, <2>2 DEF TreeView
  <2>5. \A i \in DOMAIN node[y].n : node[y].n[i] = p[l + 1] <=> i = j[y]
    BY <2>1, <2>2, <2>3, <2>4 DEF ChildView
  <2> DEFINE i == CHOOSE i \in DOMAIN node[y].n : node[y].n[i] = p[l + 1]
  <2>6. i = j[y]
    BY <2>2, <2>3, <2>5
  <2>7. c(l) = i - 1
    BY DEF y
  <2> HIDE DEF i
  <2>8. j[y] \in Int
    BY <2>2
  <2> QED
    BY <2>6, <2>7, <2>8 DEF y
<1>3. ChildNumbers(p) = [l \in 1 .. len - 1 |-> c(l)]
  BY <1>1 DEF ChildNumbers
<1> HIDE DEF c
<1>4. len - 1 \in Nat
  BY <1>1
<1> QED
  BY <1>2, <1>3, <1>4

\* A new end of a sequence, from l on.
Replaced(pos, l, e, t) == SubSeq(pos, 1, l - 1) \o <<e>> \o t

NewFrom(pos, L, l, e, t, s) ==
  /\ s \in Seq(Int) /\ Len(s) = L /\ s[l] = e
  /\ \A i \in 1 .. l - 1 : s[i] = pos[i]
  /\ \A i \in l + 1 .. L : s[i] = t[i - l]

\* Its elements.
LEMMA NewEnd ==
  ASSUME NEW pos \in Seq(Int), NEW L \in Nat, Len(pos) = L, NEW l \in 1 .. L, NEW e \in Int,
         NEW t \in Seq(Int), Len(t) = L - l, NEW s, s = Replaced(pos, l, e, t)
  PROVE  NewFrom(pos, L, l, e, t, s)
<1> DEFINE a == SubSeq(pos, 1, l - 1)
           o == <<e>>
           b == a \o o
<1>0. L \in Nat /\ l \in Nat /\ l >= 1 /\ l <= L
  OBVIOUS
<1>1. a \in Seq(Int) /\ Len(a) = l - 1 /\ \A i \in 1 .. l - 1 : a[i] = pos[i]
  BY <1>0
<1>2. s = b \o t
  BY DEF Replaced
<1>3. o \in Seq(Int) /\ Len(o) = 1 /\ o[1] = e
  OBVIOUS
<1> HIDE DEF a, o
<1>4. /\ b \in Seq(Int) /\ Len(b) = l
      /\ \A i \in 1 .. l : b[i] = IF i <= l - 1 THEN a[i] ELSE o[i - (l - 1)]
  <2>1. l - 1 + 1 = l
    BY <1>0
  <2>2. /\ b \in Seq(Int) /\ Len(b) = Len(a) + Len(o)
        /\ \A i \in 1 .. Len(a) + Len(o) : b[i] = IF i <= Len(a) THEN a[i] ELSE o[i - Len(a)]
    BY <1>1, <1>3, ConcatProperties
  <2> HIDE DEF b
  <2>3. Len(a) + Len(o) = l
    BY <1>1, <1>3, <2>1
  <2> QED
    BY <1>1, <2>2, <2>3
<1>5. b[l] = e /\ \A i \in 1 .. l - 1 : b[i] = a[i]
  <2>1. l \in 1 .. l /\ ~(l <= l - 1) /\ l - (l - 1) = 1
    BY <1>0
  <2>2. \A i \in 1 .. l - 1 : i \in 1 .. l /\ i <= l - 1
    BY <1>0
  <2> QED
    BY <1>3, <1>4, <2>1, <2>2
<1> HIDE DEF b
<1>6. /\ s \in Seq(Int) /\ Len(s) = L
      /\ \A i \in 1 .. L : s[i] = IF i <= l THEN b[i] ELSE t[i - l]
  <2>1. l + (L - l) = L
    BY <1>0
  <2>2. Len(b) + Len(t) = L
    BY <1>4, <2>1
  <2> DEFINE c == b \o t
  <2>3. /\ c \in Seq(Int) /\ Len(c) = Len(b) + Len(t)
        /\ \A i \in 1 .. Len(b) + Len(t) : c[i] = IF i <= Len(b) THEN b[i] ELSE t[i - Len(b)]
    BY <1>4, ConcatProperties
  <2>4. s = c
    BY <1>2
  <2> HIDE DEF c
  <2> QED
    BY <1>4, <2>2, <2>3, <2>4
<1>7. /\ l \in 1 .. L /\ l <= l
      /\ \A i \in 1 .. l - 1 : i \in 1 .. L /\ i <= l
      /\ \A i \in l + 1 .. L : i \in 1 .. L /\ ~(i <= l)
  BY <1>0
<1> QED
  BY <1>1, <1>5, <1>6, <1>7 DEF NewFrom

\* The leaf of a tree of more than one node has an entry.
LEMMA LeafFilled ==
  ASSUME NodeSizes, NEW x \in Nodes \ {root}, NEW R, NEW h, TreeView(R, h)
  PROVE  Size(x) >= 1 /\ Size(x) \in Nat
<1>1. Size(x) >= B_PLUS_TREE_BRANCH \div 2 /\ Size(x) \in Nat
  BY DEF NodeSizes, TreeView
<1>2. B_PLUS_TREE_BRANCH \div 2 >= 1 /\ B_PLUS_TREE_BRANCH \div 2 \in Nat
  BY BPlusTreeAssumption
<1> QED
  BY <1>1, <1>2

\* Below level l the cursor is at the end in direction d; there is a neighbour at l, from which
\* p goes down by the children j nearest to the cursor, and t are its numbers.
Numbers(d, j, p, n, t) ==
  /\ t \in Seq(Int) /\ Len(t) = n
  /\ \A i \in 1 .. n - 1 : t[i] = j[p[i]] - 1
  /\ n # 0 => t[n] = IF d = 1 THEN 0 ELSE Size(p[n]) - 1

Nearest(d, j) == j = IF d = 1 THEN [x \in Nodes |-> 1] ELSE [x \in Nodes |-> Len(node[x].n)]

Climbs(d, l, L, q, pos, e, h, j, p, t, pos2) ==
  /\ d \in {1, -1} /\ l \in 1 .. L
  /\ \A i \in l + 1 .. L : (d = 1 => pos[i] = Limit(L, q, i)) /\ (d = -1 => pos[i] = 0)
  /\ e = pos[l] + d /\ e \in 0 .. Limit(L, q, l)
  /\ Turns(j) /\ Nearest(d, j)
  /\ l < L => IsPath(p, node[q[l]].n[e + 1], j, h[node[q[l]].n[e + 1]] + 1)
  /\ Numbers(d, j, p, L - l, t)
  /\ pos2 = Replaced(pos, l, e, t)

\* The cursor that climbs to level l, takes the neighbour there, and goes down to the nearest
\* leaf below it.
LEMMA CursorStep ==
  ASSUME NEW R, NEW h, TreeState(R, h), NodeSizes,
         NEW L, NEW q, NEW pos, Cursor(L, q, pos),
         NEW d, NEW l, NEW e, NEW j, NEW p, NEW t, NEW pos2,
         Climbs(d, l, L, q, pos, e, h, j, p, t, pos2)
  PROVE  /\ l < L => Len(p) = L - l /\ L - l >= 1
         /\ Len(pos2) = L
         /\ \E q2 : /\ Cursor(L, q2, pos2) /\ Neighbours(d, l, L, q, pos, q2, pos2)
                    /\ q2[L] = IF l = L THEN q[L] ELSE p[L - l]
<1>1. /\ TreeView(R, h) /\ Way(L, q, pos) /\ L \in Nat \ {0} /\ q \in [1 .. L -> Nodes]
      /\ pos \in Seq(Int) /\ Len(pos) = L
  BY TreeViewOf DEF Cursor, Way
<1>a. d \in {1, -1} /\ l \in 1 .. L /\ e = pos[l] + d
  BY DEF Climbs
<1>b. e \in 0 .. Limit(L, q, l)
  BY DEF Climbs
<1>c. \A i \in l + 1 .. L : (d = 1 => pos[i] = Limit(L, q, i)) /\ (d = -1 => pos[i] = 0)
  BY DEF Climbs
<1>d. Turns(j) /\ Nearest(d, j)
  BY DEF Climbs
<1>e. l < L => IsPath(p, node[q[l]].n[e + 1], j, h[node[q[l]].n[e + 1]] + 1)
  BY DEF Climbs
<1>f. Numbers(d, j, p, L - l, t) /\ pos2 = Replaced(pos, l, e, t)
  BY DEF Climbs
<1>0. L \in Nat \ {0} /\ L \in Nat /\ l \in 1 .. L /\ l \in Nat
  BY <1>1, <1>a
<1>2. e \in Int
  BY <1>b
<1>3. /\ pos2 \in Seq(Int) /\ Len(pos2) = L /\ pos2[l] = e
      /\ \A i \in 1 .. l - 1 : pos2[i] = pos[i]
      /\ \A i \in l + 1 .. L : pos2[i] = t[i - l]
  <2>1. t \in Seq(Int) /\ Len(t) = L - l
    BY <1>f DEF Numbers
  <2> QED
    <3>1. L \in Nat /\ l \in 1 .. L /\ e \in Int
      BY <1>0, <1>2
    <3>2. pos \in Seq(Int) /\ Len(pos) = L
      BY <1>1
    <3>3. pos2 = Replaced(pos, l, e, t)
      BY <1>f
    <3>4. NewFrom(pos, L, l, e, t, pos2)
      BY <2>1, <3>1, <3>2, <3>3, NewEnd
    <3> QED
      BY <3>4 DEF NewFrom
<1>4. CASE l = L
  <2>1. Cursor(L, q, pos2)
    <3>1. pos2[L] \in 0 .. Size(q[L]) - 1
      BY <1>3, <1>4, <1>b DEF Limit
    <3>2. Way(L, q, pos2)
      BY <1>1, <1>3, <1>4 DEF Way
    <3> QED
      BY <3>1, <3>2 DEF Cursor
  <2>2. Neighbours(d, l, L, q, pos, q, pos2)
    BY <1>1, <1>3, <1>4, <1>a DEF Neighbours
  <2> QED
    BY <1>1, <1>3, <1>4, <2>1, <2>2
<1>5. CASE l < L
  <2>n. PICK n : n = L - l
    OBVIOUS
  <2>c. PICK c : c = node[q[l]].n[e + 1]
    OBVIOUS
  <2>q. PICK q2 : q2 = [i \in 1 .. L |-> IF i <= l THEN q[i] ELSE p[i - l]]
    OBVIOUS
  <2>1. l \in 1 .. L - 1 /\ n \in Nat \ {0} /\ n >= 1
    BY <1>0, <1>5, <2>n
  <2>2. h[q[l]] = n /\ q[l] \in Nodes \ Leaves
    <3>0. TreeView(R, h) /\ Way(L, q, pos)
      BY <1>1
    <3>1. \A i \in 1 .. L : h[q[i]] = L - i
      BY <3>0, WayHeights
    <3>2. q[l] \in Nodes \ Leaves
      BY <1>1, <2>1 DEF Way
    <3>3. h[q[l]] = L - l
      BY <1>0, <3>1
    <3> QED
      BY <2>n, <3>2, <3>3
  <2>3. Limit(L, q, l) = Size(q[l]) /\ Size(q[l]) \in Nat
    <3>1. \A x \in Nodes : Size(x) \in Nat
      BY <1>1 DEF TreeView
    <3>2. Limit(L, q, l) = Size(q[l])
      BY <1>5, <2>1 DEF Limit
    <3> QED
      BY <2>2, <3>1, <3>2
  <2>4. e \in 0 .. Size(q[l]) /\ IsPath(p, c, j, h[c] + 1)
    BY <1>5, <1>b, <1>e, <2>3, <2>c
  <2>5. e + 1 \in 1 .. Size(q[l]) + 1
    BY <2>3, <2>4
  <2>6. ChildView(R, h, q[l], e + 1)
    BY <1>1, <2>2, <2>5 DEF TreeView
  <2>7. c \in Nodes /\ h[q[l]] = h[c] + 1
    BY <2>4, <2>6, <2>c DEF ChildView
  <2>8. IsPath(p, c, j, n)
    BY <2>2, <2>4, <2>7
  <2>9. /\ p \in Seq(Nodes) /\ Len(p) = n /\ p[1] = c /\ p[n] \in Leaves
        /\ \A i \in 1 .. n - 1 : p[i] \in Nodes \ Leaves /\ p[i + 1] = node[p[i]].n[j[p[i]]]
    BY <2>8 DEF IsPath
  <2>10. /\ \A i \in 1 .. l : q2[i] = q[i]
         /\ \A i \in l + 1 .. L : i - l \in 1 .. n /\ q2[i] = p[i - l]
         /\ q2 \in [1 .. L -> Nodes]
    <3>1. \A i \in l + 1 .. L : i - l \in 1 .. n
      BY <1>0, <2>n
    <3>2. \A i \in 1 .. n : p[i] \in Nodes
      BY <2>9
    <3>3. \A i \in 1 .. L : i <= l \/ i \in l + 1 .. L
      BY <1>0
    <3>4. \A i \in 1 .. l : i \in 1 .. L /\ i <= l
      BY <1>0
    <3>5. \A i \in l + 1 .. L : i \in 1 .. L /\ ~(i <= l)
      BY <1>0
    <3> QED
      BY <1>1, <2>q, <3>1, <3>2, <3>3, <3>4, <3>5
  <2>11. q2[L] = p[n] /\ q2[1] = root /\ q2[L] \in Leaves
    <3>1. L \in l + 1 .. L /\ 1 \in 1 .. l
      BY <1>0, <1>5
    <3>2. q[1] = root
      BY <1>1 DEF Way
    <3> QED
      BY <2>9, <2>10, <2>n, <3>1, <3>2
  <2>12. ASSUME NEW i \in 1 .. L - 1
         PROVE  /\ q2[i] \in Nodes \ Leaves /\ pos2[i] \in 0 .. Size(q2[i])
                /\ q2[i + 1] = node[q2[i]].n[pos2[i] + 1]
                /\ i > l => pos2[i] = j[q2[i]] - 1
    <3>1. CASE i < l
      <4>1. i \in 1 .. l - 1 /\ i \in 1 .. l /\ i + 1 \in 1 .. l /\ i \in 1 .. L - 1
        BY <1>0, <3>1
      <4>2. q2[i] = q[i] /\ q2[i + 1] = q[i + 1] /\ pos2[i] = pos[i]
        BY <1>3, <2>10, <4>1
      <4>3. /\ q[i] \in Nodes \ Leaves /\ pos[i] \in 0 .. Size(q[i])
            /\ q[i + 1] = node[q[i]].n[pos[i] + 1]
        BY <1>1, <4>1 DEF Way
      <4>4. ~(i > l)
        BY <1>0, <3>1
      <4> QED
        BY <4>2, <4>3, <4>4
    <3>2. CASE i = l
      <4>1. l \in 1 .. l /\ l + 1 \in l + 1 .. L /\ l + 1 - l = 1
        BY <1>0, <1>5
      <4>2. q2[l] = q[l] /\ q2[l + 1] = c /\ pos2[l] = e
        BY <1>3, <2>9, <2>10, <4>1
      <4>3. ~(i > l)
        BY <1>0, <3>2
      <4> QED
        BY <2>2, <2>4, <2>c, <3>2, <4>2, <4>3
    <3>3. CASE i > l
      <4>1. /\ i \in l + 1 .. L /\ i + 1 \in l + 1 .. L /\ i - l \in 1 .. n - 1
            /\ i + 1 - l = i - l + 1 /\ i - l \in 1 .. L - l - 1
        BY <1>0, <2>n, <3>3
      <4> DEFINE y == p[i - l]
      <4>2. q2[i] = y /\ q2[i + 1] = p[i - l + 1] /\ pos2[i] = j[y] - 1
        <5>1. q2[i] = p[i - l] /\ q2[i + 1] = p[i + 1 - l] /\ pos2[i] = t[i - l]
          <6>1. q2[i] = p[i - l] /\ q2[i + 1] = p[i + 1 - l]
            <7>1. \A m \in l + 1 .. L : q2[m] = p[m - l]
              BY <2>10
            <7>2. i \in l + 1 .. L /\ i + 1 \in l + 1 .. L
              BY <4>1
            <7> QED
              BY <1>0, <7>1, <7>2
          <6>2. pos2[i] = t[i - l]
            BY <1>3, <4>1
          <6> QED
            BY <6>1, <6>2
        <5>2. t[i - l] = j[p[i - l]] - 1
          BY <1>f, <4>1 DEF Numbers
        <5> QED
          BY <4>1, <5>1, <5>2
      <4>3. y \in Nodes \ Leaves /\ p[i - l + 1] = node[y].n[j[y]]
        BY <2>9, <4>1
      <4> HIDE DEF y
      <4>4. j[y] \in 1 .. Size(y) + 1 /\ Size(y) \in Nat
        BY <1>1, <1>d, <4>3 DEF Turns, TreeView
      <4>5. j[y] - 1 \in 0 .. Size(y) /\ j[y] - 1 + 1 = j[y]
        BY <4>4
      <4> QED
        BY <4>2, <4>3, <4>5
    <3>4. i \in Int
      OBVIOUS
    <3> QED
      BY <1>0, <3>1, <3>2, <3>3, <3>4
  <2>13. Way(L, q2, pos2)
    BY <1>1, <1>3, <2>10, <2>11, <2>12 DEF Way
  <2>14. pos2[L] = t[n] /\ p[n] \in Nodes
    <3>1. L \in l + 1 .. L
      BY <1>0, <1>5
    <3> QED
      BY <1>3, <2>9, <2>n, <3>1 DEF Leaves
  <2>15. Size(p[n]) \in Nat /\ Size(p[n]) >= 1
    <3>1. p[n] # root
      <4>1. h[p[n]] = 0 /\ root \in Nodes
        BY <1>1, <2>9, <2>14 DEF TreeView
      <4>2. q[l] # root => h[q[l]] < h[root]
        BY <1>1, <2>2 DEF TreeView
      <4> QED
        BY <2>1, <2>2, <4>1, <4>2
    <3> QED
      BY <1>1, <2>14, <3>1, LeafFilled
  <2>16. pos2[L] = IF d = 1 THEN 0 ELSE Size(q2[L]) - 1
    BY <1>f, <2>1, <2>11, <2>14, <2>n DEF Numbers
  <2>17. Cursor(L, q2, pos2)
    <3>1. pos2[L] \in 0 .. Size(q2[L]) - 1
      <4> DEFINE s == Size(p[n])
      <4>1. s \in Nat /\ s >= 1 /\ pos2[L] = (IF d = 1 THEN 0 ELSE s - 1) /\ Size(q2[L]) = s
        BY <2>11, <2>15, <2>16
      <4> HIDE DEF s
      <4> QED
        BY <4>1
    <3> QED
      BY <2>13, <3>1 DEF Cursor
  <2>18. ASSUME NEW i \in l + 1 .. L
         PROVE  (d = 1 => pos2[i] = 0) /\ (d = -1 => pos2[i] = Limit(L, q2, i))
    <3>1. CASE i = L
      BY <2>16, <3>1 DEF Limit
    <3>2. CASE i # L
      <4>1. i \in 1 .. L - 1 /\ i > l
        BY <1>0, <3>2
      <4> DEFINE y == q2[i]
      <4>2. y \in Nodes \ Leaves /\ pos2[i] = j[y] - 1
        BY <2>12, <4>1
      <4>3. Limit(L, q2, i) = Size(y)
        BY <3>2 DEF Limit
      <4> HIDE DEF y
      <4>4. Len(node[y].n) = Size(y) + 1 /\ Size(y) \in Nat
        BY <1>1, <4>2 DEF TreeView
      <4>5. j[y] = IF d = 1 THEN 1 ELSE Size(y) + 1
        BY <1>d, <4>2, <4>4 DEF Nearest
      <4> DEFINE s == Size(y)
      <4>6. s \in Nat /\ pos2[i] = j[y] - 1 /\ j[y] = (IF d = 1 THEN 1 ELSE s + 1) /\ Limit(L, q2, i) = s
        BY <4>2, <4>3, <4>4, <4>5
      <4> HIDE DEF s
      <4>7. d = 1 => pos2[i] = 0
        BY <4>6
      <4>8. d = -1 => pos2[i] = s
        BY <4>6
      <4> QED
        BY <4>6, <4>7, <4>8
    <3> QED
      BY <3>1, <3>2
  <2>19. Neighbours(d, l, L, q, pos, q2, pos2)
    BY <1>3, <1>a, <1>c, <2>10, <2>18 DEF Neighbours
  <2> QED
    BY <1>3, <1>5, <2>1, <2>9, <2>11, <2>17, <2>19, <2>n
<1>6. l = L \/ l < L
  BY <1>0
<1> QED
  BY <1>4, <1>5, <1>6
-----------------------------------------------------------------------------
(* toRight and toLeft.                                                      *)

\* What a move from the cursor leads to: no entry ahead and the end of the scan, or the cursor
\* on the next entry in direction d.
NextKey(d, u, w) ==
  Ahead(d, u, w) /\ \A x \in Entered : ~(Ahead(d, u, x) /\ Ahead(d, x, w))

Moved(d, u, go, cur2, pos2) ==
  IF go THEN \E q2 : /\ Cursor(Len(pos2), q2, pos2) /\ cur2 = q2[Len(pos2)]
                     /\ NextKey(d, u, KeyOf(Len(pos2), q2, pos2))
  ELSE \A w \in Entered : ~Ahead(d, u, w)

\* A climb leads to the next entry.
LEMMA ClimbMoves ==
  ASSUME NEW R, NEW h, TreeState(R, h), NodeSizes,
         NEW L, NEW q, NEW pos, Cursor(L, q, pos),
         NEW d, NEW l, NEW e, NEW j, NEW p, NEW t, NEW pos2,
         Climbs(d, l, L, q, pos, e, h, j, p, t, pos2),
         NEW cur2, cur2 = IF l = L THEN q[L] ELSE p[Len(p)]
  PROVE  Moved(d, KeyOf(L, q, pos), TRUE, cur2, pos2)
<1>0. L \in Nat /\ l \in 1 .. L
  BY DEF Cursor, Way, Climbs
<1>1. PICK q2 : /\ Cursor(L, q2, pos2) /\ Neighbours(d, l, L, q, pos, q2, pos2)
                /\ q2[L] = IF l = L THEN q[L] ELSE p[L - l]
  BY CursorStep
<1>2. Len(pos2) = L /\ (l < L => Len(p) = L - l)
  BY CursorStep
<1>3. cur2 = q2[L]
  <2>1. l = L \/ l < L
    BY <1>0
  <2> QED
    BY <1>1, <1>2, <2>1
<1>4. NextKey(d, KeyOf(L, q, pos), KeyOf(L, q2, pos2))
  BY <1>1, NeighbourKeys DEF NextKey
<1> QED
  BY <1>1, <1>2, <1>3, <1>4 DEF Moved

\* The child the climb goes to.
LEMMA ChildBelow ==
  ASSUME NEW R, NEW h, TreeView(R, h), NEW L, NEW q, NEW pos, Way(L, q, pos),
         NEW l \in 1 .. L, l # L, NEW e \in 0 .. Limit(L, q, l),
         NEW c, c = node[q[l]].n[e + 1]
  PROVE  c \in Nodes /\ h[c] + 1 = L - l
<1>1. L \in Nat \ {0}
  BY DEF Way
<1>2. l \in 1 .. L - 1
  BY <1>1
<1>3. q[l] \in Nodes \ Leaves /\ Size(q[l]) \in Nat /\ Limit(L, q, l) = Size(q[l])
  BY <1>2 DEF Way, TreeView, Limit
<1>4. e + 1 \in 1 .. Size(q[l]) + 1
  BY <1>3
<1>5. ChildView(R, h, q[l], e + 1)
  BY <1>3, <1>4 DEF TreeView
<1>6. h[q[l]] = L - l
  <2>1. \A m \in 1 .. L : h[q[m]] = L - m
    BY WayHeights
  <2> QED
    BY <2>1
<1> QED
  BY <1>5, <1>6 DEF ChildView

\* toRight moves the cursor to the next greater key, or finds that there is none.
LEMMA RightStep ==
  ASSUME NEW R, NEW h, TreeState(R, h), NodeSizes,
         NEW q, Cursor(Len(position), q, position), current = q[Len(position)], ToRight
  PROVE  Moved(1, KeyOf(Len(position), q, position), canDo', current', position')
<1>0. PICK L, pos : L = Len(position) /\ pos = position
  OBVIOUS
<1>1. /\ TreeView(R, h) /\ Cursor(L, q, pos) /\ Way(L, q, pos)
      /\ L \in Nat \ {0} /\ q \in [1 .. L -> Nodes] /\ pos \in Seq(Int) /\ Len(pos) = L
  BY <1>0, TreeViewOf DEF Cursor, Way
<1>2. \A l \in 1 .. L : /\ pos[l] \in Int /\ Limit(L, q, l) \in Int
                        /\ pos[l] >= 0 /\ pos[l] <= Limit(L, q, l)
                        /\ RightOf(l) <=> pos[l] < Limit(L, q, l)
  <2> SUFFICES ASSUME NEW l \in 1 .. L
               PROVE  /\ pos[l] \in Int /\ Limit(L, q, l) \in Int
                      /\ pos[l] >= 0 /\ pos[l] <= Limit(L, q, l)
                      /\ RightOf(l) <=> pos[l] < Limit(L, q, l)
    OBVIOUS
  <2>1. At(l) = q[l]
    BY <1>0, <1>1, AtIs
  <2>2. RightOf(l) <=> pos[l] < Limit(L, q, l)
    BY <1>0, <2>1 DEF RightOf, Limit
  <2>3. Size(q[l]) \in Nat
    BY <1>1 DEF TreeView
  <2>4. CASE l = L
    BY <1>1, <2>2, <2>3, <2>4 DEF Cursor, Limit
  <2>5. CASE l # L
    <3>1. l \in 1 .. L - 1
      BY <1>1, <2>5
    <3>2. pos[l] \in 0 .. Size(q[l])
      BY <1>1, <3>1 DEF Way
    <3> QED
      BY <2>2, <2>3, <2>5, <3>2 DEF Limit
  <2> QED
    BY <2>4, <2>5
<1> DEFINE S == {l \in 1 .. L : RightOf(l)}
<1>3. DOMAIN position = 1 .. L
  BY <1>0, <1>1
<1>4. CASE S = {}
  <2>1. canDo' = FALSE
    BY <1>3, <1>4 DEF ToRight
  <2>2. \A i \in 1 .. L : pos[i] = Limit(L, q, i)
    <3>1. \A i \in 1 .. L : ~RightOf(i)
      BY <1>4
    <3> QED
      BY <1>2, <3>1
  <2>3. \A w \in Entered : ~Ahead(1, KeyOf(L, q, pos), w)
    BY <1>1, <2>2, NoKeyAhead
  <2> QED
    BY <1>0, <2>1, <2>3 DEF Moved
<1>5. CASE S # {}
  <2>1. PICK l : l = Max(S)
    OBVIOUS
  <2>2. l \in S /\ \A y \in S : y <= l
    <3>1. S \subseteq 1 .. L /\ L \in Nat
      BY <1>1
    <3> HIDE DEF S
    <3> QED
      BY <1>5, <2>1, <3>1, MaxOf
  <2>3. l \in 1 .. L /\ RightOf(l)
    BY <2>2
  <2>4. \A i \in l + 1 .. L : pos[i] = Limit(L, q, i)
    <3> SUFFICES ASSUME NEW i \in l + 1 .. L PROVE pos[i] = Limit(L, q, i)
      OBVIOUS
    <3>1. i \in 1 .. L /\ ~(i <= l)
      BY <1>1, <2>3
    <3>2. ~RightOf(i)
      BY <2>2, <3>1
    <3> QED
      BY <1>2, <3>1, <3>2
  <2>5. PICK e : e = pos[l] + 1
    OBVIOUS
  <2>6. e \in 0 .. Limit(L, q, l) /\ pos[l] + 2 = e + 1
    BY <1>2, <2>3, <2>5
  <2>7. PICK j : j = [x \in Nodes |-> 1]
    OBVIOUS
  <2>8. Turns(j) /\ \A x \in Nodes : IsPath(FirstPath[x], x, j, h[x] + 1)
    BY <1>1, <2>7, FirstPathIs
  <2>9. PICK c : c = node[q[l]].n[e + 1]
    OBVIOUS
  <2>10. PICK p : p = IF l = L THEN <<current>> ELSE FirstPath[c]
    OBVIOUS
  <2>11. PICK t : t = [x \in 1 .. L - l |-> 0]
    OBVIOUS
  <2>12. PICK pos2 : pos2 = Replaced(pos, l, e, t)
    OBVIOUS
  <2>13. canDo' = TRUE /\ current' = Last(p) /\ position' = pos2
    <3> DEFINE path == IF l = Len(position) THEN <<current>>
                       ELSE FirstPath[node[At(l)].n[position[l] + 2]]
    <3>1. /\ position' = SubSeq(position, 1, l - 1) \o <<position[l] + 1>> \o
                             [x \in 1 .. Len(position) - l |-> 0]
          /\ current' = Last(path)
          /\ canDo' = TRUE
      BY <1>3, <1>5, <2>1 DEF ToRight
    <3>2. At(l) = q[l]
      BY <1>0, <1>1, <2>3, AtIs
    <3>3. path = p
      BY <1>0, <2>6, <2>9, <2>10, <3>2
    <3> HIDE DEF path
    <3>4. position' = Replaced(pos, l, e, t)
      BY <1>0, <2>5, <2>11, <3>1 DEF Replaced
    <3> QED
      BY <2>12, <3>1, <3>3, <3>4
  <2>c. l # L => c \in Nodes /\ h[c] + 1 = L - l
    <3> SUFFICES ASSUME l # L PROVE c \in Nodes /\ h[c] + 1 = L - l
      OBVIOUS
    <3>1. TreeView(R, h) /\ Way(L, q, pos)
      BY <1>1
    <3>2. l \in 1 .. L
      BY <2>3
    <3>3. e \in 0 .. Limit(L, q, l)
      BY <2>6
    <3> QED
      BY <2>9, <3>1, <3>2, <3>3, ChildBelow
  <2>14. l < L => IsPath(p, c, j, h[c] + 1)
    <3> SUFFICES ASSUME l < L PROVE IsPath(p, c, j, h[c] + 1)
      OBVIOUS
    <3>1. l # L
      BY <1>1, <2>3
    <3> QED
      BY <2>8, <2>10, <2>c, <3>1
  <2>15. Numbers(1, j, p, L - l, t)
    <3>1. L - l \in Nat
      BY <1>1, <2>3
    <3>2. t \in Seq(Int) /\ Len(t) = L - l
      BY <2>11, <3>1
    <3>3. \A i \in 1 .. L - l - 1 : p[i] \in Nodes
      <4> SUFFICES ASSUME NEW i \in 1 .. L - l - 1 PROVE p[i] \in Nodes
        OBVIOUS
      <4>1. l < L /\ l # L
        BY <1>1, <2>3
      <4>2. IsPath(p, c, j, h[c] + 1)
        BY <2>14, <4>1
      <4>3. h[c] + 1 = L - l
        BY <2>c, <4>1
      <4>4. Len(p) = L - l /\ p \in Seq(Nodes)
        BY <4>2, <4>3 DEF IsPath
      <4>5. i \in 1 .. L - l
        BY <3>1
      <4> QED
        BY <4>4, <4>5
    <3>4. \A i \in 1 .. L - l - 1 : t[i] = j[p[i]] - 1
      <4> SUFFICES ASSUME NEW i \in 1 .. L - l - 1 PROVE t[i] = j[p[i]] - 1
        OBVIOUS
      <4>1. t[i] = 0
        BY <2>11, <3>1
      <4>2. j[p[i]] = 1
        BY <2>7, <3>3
      <4> QED
        BY <4>1, <4>2
    <3>5. L - l # 0 => t[L - l] = 0
      BY <2>11, <3>1
    <3> QED
      BY <3>2, <3>4, <3>5 DEF Numbers
  <2>16. Climbs(1, l, L, q, pos, e, h, j, p, t, pos2)
    <3>1. Nearest(1, j)
      BY <2>7 DEF Nearest
    <3>2. 1 \in {1, -1} /\ 1 # -1
      OBVIOUS
    <3> QED
      BY <2>3, <2>4, <2>5, <2>6, <2>8, <2>9, <2>12, <2>14, <2>15, <3>1, <3>2 DEF Climbs
  <2>17. PICK cur2 : cur2 = IF l = L THEN q[L] ELSE p[Len(p)]
    OBVIOUS
  <2>18. current' = cur2
    <3>1. CASE l = L
      BY <1>0, <2>10, <2>13, <2>17, <3>1 DEF Last
    <3>2. CASE l # L
      BY <2>13, <2>17, <3>2 DEF Last
    <3> QED
      BY <3>1, <3>2
  <2>19. Moved(1, KeyOf(L, q, pos), TRUE, cur2, pos2)
    BY <1>1, <2>16, <2>17, ClimbMoves
  <2> QED
    BY <1>0, <2>13, <2>18, <2>19
<1> QED
  BY <1>4, <1>5
\* toLeft moves the cursor to the next smaller key, or finds that there is none.
LEMMA LeftStep ==
  ASSUME NEW R, NEW h, TreeState(R, h), NodeSizes,
         NEW q, Cursor(Len(position), q, position), current = q[Len(position)], ToLeft
  PROVE  Moved(-1, KeyOf(Len(position), q, position), canDo', current', position')
<1>0. PICK L, pos : L = Len(position) /\ pos = position
  OBVIOUS
<1>1. /\ TreeView(R, h) /\ Cursor(L, q, pos) /\ Way(L, q, pos)
      /\ L \in Nat \ {0} /\ q \in [1 .. L -> Nodes] /\ pos \in Seq(Int) /\ Len(pos) = L
  BY <1>0, TreeViewOf DEF Cursor, Way
<1>2. \A l \in 1 .. L : /\ pos[l] \in Int /\ Limit(L, q, l) \in Int
                        /\ pos[l] >= 0 /\ pos[l] <= Limit(L, q, l)
                        /\ LeftOf(l) <=> pos[l] > 0
  <2> SUFFICES ASSUME NEW l \in 1 .. L
               PROVE  /\ pos[l] \in Int /\ Limit(L, q, l) \in Int
                      /\ pos[l] >= 0 /\ pos[l] <= Limit(L, q, l)
                      /\ LeftOf(l) <=> pos[l] > 0
    OBVIOUS
  <2>2. LeftOf(l) <=> pos[l] > 0
    BY <1>0 DEF LeftOf
  <2>3. Size(q[l]) \in Nat
    BY <1>1 DEF TreeView
  <2>4. CASE l = L
    BY <1>1, <2>2, <2>3, <2>4 DEF Cursor, Limit
  <2>5. CASE l # L
    <3>1. l \in 1 .. L - 1
      BY <1>1, <2>5
    <3>2. pos[l] \in 0 .. Size(q[l])
      BY <1>1, <3>1 DEF Way
    <3> QED
      BY <2>2, <2>3, <2>5, <3>2 DEF Limit
  <2> QED
    BY <2>4, <2>5
<1> DEFINE S == {l \in 1 .. L : LeftOf(l)}
<1>3. DOMAIN position = 1 .. L
  BY <1>0, <1>1
<1>4. CASE S = {}
  <2>1. canDo' = FALSE
    BY <1>3, <1>4 DEF ToLeft
  <2>2. \A i \in 1 .. L : pos[i] = 0
    <3>1. \A i \in 1 .. L : ~LeftOf(i)
      BY <1>4
    <3> QED
      BY <1>2, <3>1
  <2>3. \A w \in Entered : ~Ahead(-1, KeyOf(L, q, pos), w)
    BY <1>1, <2>2, NoKeyAhead
  <2> QED
    BY <1>0, <2>1, <2>3 DEF Moved
<1>5. CASE S # {}
  <2>1. PICK l : l = Max(S)
    OBVIOUS
  <2>2. l \in S /\ \A y \in S : y <= l
    <3>1. S \subseteq 1 .. L /\ L \in Nat
      BY <1>1
    <3> HIDE DEF S
    <3> QED
      BY <1>5, <2>1, <3>1, MaxOf
  <2>3. l \in 1 .. L /\ LeftOf(l)
    BY <2>2
  <2>4. \A i \in l + 1 .. L : pos[i] = 0
    <3> SUFFICES ASSUME NEW i \in l + 1 .. L PROVE pos[i] = 0
      OBVIOUS
    <3>1. i \in 1 .. L /\ ~(i <= l)
      BY <1>1, <2>3
    <3>2. ~LeftOf(i)
      BY <2>2, <3>1
    <3> QED
      BY <1>2, <3>1, <3>2
  <2>5. PICK e : e = pos[l] - 1
    OBVIOUS
  <2>6. e \in 0 .. Limit(L, q, l) /\ pos[l] = e + 1
    BY <1>2, <2>3, <2>5
  <2>7. PICK j : j = [x \in Nodes |-> Len(node[x].n)]
    OBVIOUS
  <2>8. Turns(j) /\ \A x \in Nodes : IsPath(LastPath[x], x, j, h[x] + 1)
    BY <1>1, <2>7, LastPathIs
  <2>9. PICK c : c = node[q[l]].n[e + 1]
    OBVIOUS
  <2>10. PICK p : p = IF l = L THEN <<current>> ELSE LastPath[c]
    OBVIOUS
  <2>11. PICK t : t = IF l = L THEN <<>> ELSE ChildNumbers(p) \o <<Size(Last(p)) - 1>>
    OBVIOUS
  <2>12. PICK pos2 : pos2 = Replaced(pos, l, e, t)
    OBVIOUS
  <2>13. canDo' = TRUE /\ current' = Last(p) /\ position' = pos2
    <3> DEFINE path == IF l = Len(position) THEN <<current>>
                       ELSE LastPath[node[At(l)].n[position[l]]]
    <3>1. /\ position' = SubSeq(position, 1, l - 1) \o <<position[l] - 1>> \o
                             (IF l = Len(position) THEN <<>>
                              ELSE ChildNumbers(path) \o <<Size(Last(path)) - 1>>)
          /\ current' = Last(path)
          /\ canDo' = TRUE
      BY <1>3, <1>5, <2>1 DEF ToLeft
    <3>2. At(l) = q[l]
      BY <1>0, <1>1, <2>3, AtIs
    <3>3. path = p
      BY <1>0, <2>6, <2>9, <2>10, <3>2
    <3> HIDE DEF path
    <3>4. position' = Replaced(pos, l, e, t)
      <4>1. t = IF l = Len(position) THEN <<>> ELSE ChildNumbers(p) \o <<Size(Last(p)) - 1>>
        BY <1>0, <2>11
      <4> QED
        BY <1>0, <2>5, <3>1, <3>3, <4>1 DEF Replaced
    <3> QED
      BY <2>12, <3>1, <3>3, <3>4
  <2>c. l # L => c \in Nodes /\ h[c] + 1 = L - l
    <3> SUFFICES ASSUME l # L PROVE c \in Nodes /\ h[c] + 1 = L - l
      OBVIOUS
    <3>1. TreeView(R, h) /\ Way(L, q, pos)
      BY <1>1
    <3>2. l \in 1 .. L
      BY <2>3
    <3>3. e \in 0 .. Limit(L, q, l)
      BY <2>6
    <3> QED
      BY <2>9, <3>1, <3>2, <3>3, ChildBelow
  <2>14. l < L => IsPath(p, c, j, h[c] + 1)
    <3> SUFFICES ASSUME l < L PROVE IsPath(p, c, j, h[c] + 1)
      OBVIOUS
    <3>1. l # L
      BY <1>1, <2>3
    <3> QED
      BY <2>8, <2>10, <2>c, <3>1
  <2>15. Numbers(-1, j, p, L - l, t)
    <3>1. CASE l = L
      <4>1. L - l = 0 /\ t = <<>>
        BY <1>1, <2>11, <3>1
      <4> QED
        BY <4>1 DEF Numbers
    <3>2. CASE l # L
      <4> DEFINE a == ChildNumbers(p)
                 o == <<Size(Last(p)) - 1>>
      <4>0. PICK n : n = L - l
        OBVIOUS
      <4>1. n \in Nat \ {0} /\ l < L
        BY <1>1, <2>3, <3>2, <4>0
      <4>2. IsPath(p, c, j, n)
        BY <2>c, <2>14, <3>2, <4>0, <4>1
      <4>3. /\ a \in Seq(Int) /\ Len(a) = n - 1
            /\ \A i \in 1 .. n - 1 : a[i] = j[p[i]] - 1
        BY <1>1, <2>8, <4>2, ChildNumbersAre
      <4>4. Last(p) = p[n] /\ p[n] \in Nodes
        BY <4>1, <4>2 DEF IsPath, Last
      <4>5. Size(p[n]) \in Nat
        BY <1>1, <4>4 DEF TreeView
      <4>6. o \in Seq(Int) /\ Len(o) = 1 /\ o[1] = Size(p[n]) - 1
        BY <4>4, <4>5
      <4>7. t = a \o o
        BY <2>11, <3>2
      <4> HIDE DEF a, o
      <4>8. t \in Seq(Int) /\ Len(t) = Len(a) + Len(o)
            /\ \A i \in 1 .. Len(a) + Len(o) : t[i] = IF i <= Len(a) THEN a[i] ELSE o[i - Len(a)]
        <5> DEFINE b == a \o o
        <5>1. /\ b \in Seq(Int) /\ Len(b) = Len(a) + Len(o)
              /\ \A i \in 1 .. Len(a) + Len(o) : b[i] = IF i <= Len(a) THEN a[i] ELSE o[i - Len(a)]
          BY <4>3, <4>6, ConcatProperties
        <5>2. t = b
          BY <4>7
        <5> HIDE DEF b
        <5> QED
          BY <5>1, <5>2
      <4>9. Len(a) + Len(o) = n
        BY <4>1, <4>3, <4>6
      <4>10. \A i \in 1 .. n - 1 : t[i] = j[p[i]] - 1
        <5> SUFFICES ASSUME NEW i \in 1 .. n - 1 PROVE t[i] = j[p[i]] - 1
          OBVIOUS
        <5>1. i \in 1 .. n /\ i <= n - 1
          BY <4>1
        <5>2. t[i] = a[i]
          BY <4>3, <4>8, <4>9, <5>1
        <5> QED
          BY <4>3, <5>2
      <4>11. t[n] = Size(p[n]) - 1
        <5>1. n \in 1 .. n /\ ~(n <= n - 1) /\ n - (n - 1) = 1
          BY <4>1
        <5> QED
          BY <4>3, <4>6, <4>8, <4>9, <5>1
      <4>12. Numbers(-1, j, p, n, t)
        <5>1. -1 # 1
          OBVIOUS
        <5> QED
          BY <4>8, <4>9, <4>10, <4>11, <5>1 DEF Numbers
      <4> QED
        BY <4>0, <4>12
    <3> QED
      BY <3>1, <3>2
  <2>16. Climbs(-1, l, L, q, pos, e, h, j, p, t, pos2)
    <3>1. Nearest(-1, j)
      <4>1. -1 # 1
        OBVIOUS
      <4> QED
        BY <2>7, <4>1 DEF Nearest
    <3>2. -1 \in {1, -1} /\ 1 # -1
      OBVIOUS
    <3> QED
      BY <2>3, <2>4, <2>5, <2>6, <2>8, <2>9, <2>12, <2>14, <2>15, <3>1, <3>2 DEF Climbs
  <2>17. PICK cur2 : cur2 = IF l = L THEN q[L] ELSE p[Len(p)]
    OBVIOUS
  <2>18. current' = cur2
    <3>1. CASE l = L
      BY <1>0, <2>10, <2>13, <2>17, <3>1 DEF Last
    <3>2. CASE l # L
      BY <2>13, <2>17, <3>2 DEF Last
    <3> QED
      BY <3>1, <3>2
  <2>19. Moved(-1, KeyOf(L, q, pos), TRUE, cur2, pos2)
    BY <1>1, <2>16, <2>17, ClimbMoves
  <2> QED
    BY <1>0, <2>13, <2>18, <2>19
<1> QED
  BY <1>4, <1>5
-----------------------------------------------------------------------------
(* The constructor.                                                         *)

\* A path from the root and its numbers are a way to a leaf.
Starts(L, p, pos, j, e) ==
  /\ Way(L, p, pos) /\ Len(pos) = L /\ Last(p) = p[L] /\ pos[L] = e
  /\ \A i \in 1 .. L - 1 : pos[i] = j[p[i]] - 1

\* A path from the root with its numbers, and a number for the leaf, is a way.
LEMMA StartWay ==
  ASSUME NEW R, NEW h, TreeView(R, h), NEW j, Turns(j), NEW p, NEW L, IsPath(p, root, j, L),
         NEW e \in Int, NEW pos, pos = ChildNumbers(p) \o <<e>>
  PROVE  Starts(L, p, pos, j, e)
<1> DEFINE a == ChildNumbers(p)
           o == <<e>>
<1>1. /\ p \in Seq(Nodes) /\ Len(p) = L /\ L \in Nat \ {0} /\ p[1] = root /\ p[L] \in Leaves
      /\ \A l \in 1 .. L - 1 : p[l] \in Nodes \ Leaves /\ p[l + 1] = node[p[l]].n[j[p[l]]]
  BY DEF IsPath
<1>2. /\ a \in Seq(Int) /\ Len(a) = L - 1
      /\ \A i \in 1 .. L - 1 : a[i] = j[p[i]] - 1
  BY ChildNumbersAre
<1>3. o \in Seq(Int) /\ Len(o) = 1 /\ o[1] = e
  OBVIOUS
<1>4. pos = a \o o
  OBVIOUS
<1> HIDE DEF a, o
<1>5. pos \in Seq(Int) /\ Len(pos) = Len(a) + Len(o)
      /\ \A i \in 1 .. Len(a) + Len(o) : pos[i] = IF i <= Len(a) THEN a[i] ELSE o[i - Len(a)]
  <2> DEFINE b == a \o o
  <2>1. /\ b \in Seq(Int) /\ Len(b) = Len(a) + Len(o)
        /\ \A i \in 1 .. Len(a) + Len(o) : b[i] = IF i <= Len(a) THEN a[i] ELSE o[i - Len(a)]
    BY <1>2, <1>3, ConcatProperties
  <2>2. pos = b
    BY <1>4
  <2> HIDE DEF b
  <2> QED
    BY <2>1, <2>2
<1>6. Len(a) + Len(o) = L
  BY <1>1, <1>2, <1>3
<1>7. \A i \in 1 .. L - 1 : pos[i] = j[p[i]] - 1
  <2> SUFFICES ASSUME NEW i \in 1 .. L - 1 PROVE pos[i] = j[p[i]] - 1
    OBVIOUS
  <2>1. i \in 1 .. L /\ i <= L - 1
    BY <1>1
  <2>2. pos[i] = a[i]
    BY <1>2, <1>5, <1>6, <2>1
  <2> QED
    BY <1>2, <2>2
<1>8. pos[L] = e
  <2>1. L \in 1 .. L /\ ~(L <= L - 1) /\ L - (L - 1) = 1
    BY <1>1
  <2> QED
    BY <1>2, <1>3, <1>5, <1>6, <2>1
<1>9. ASSUME NEW l \in 1 .. L - 1
      PROVE  /\ p[l] \in Nodes \ Leaves /\ pos[l] \in 0 .. Size(p[l])
             /\ p[l + 1] = node[p[l]].n[pos[l] + 1]
  <2> DEFINE y == p[l]
  <2>1. y \in Nodes \ Leaves /\ p[l + 1] = node[y].n[j[y]] /\ pos[l] = j[y] - 1
    BY <1>1, <1>7
  <2> HIDE DEF y
  <2>2. j[y] \in 1 .. Size(y) + 1 /\ Size(y) \in Nat
    BY <2>1 DEF Turns, TreeView
  <2>3. j[y] - 1 \in 0 .. Size(y) /\ j[y] - 1 + 1 = j[y]
    BY <2>2
  <2>4. y \in Nodes \ Leaves /\ pos[l] \in 0 .. Size(y) /\ p[l + 1] = node[y].n[pos[l] + 1]
    BY <2>1, <2>3
  <2> QED
    BY <2>4 DEF y
<1>10. p \in [1 .. L -> Nodes] /\ Last(p) = p[L]
  BY <1>1 DEF Last
<1>11. Way(L, p, pos)
  BY <1>1, <1>5, <1>6, <1>9, <1>10 DEF Way
<1> QED
  BY <1>5, <1>6, <1>7, <1>8, <1>10, <1>11 DEF Starts

\* Without a value the scan begins at the first entry.
LEMMA StartAtFirst ==
  ASSUME NEW R, NEW h, TreeState(R, h), NodeSizes, Size(root) # 0,
         NEW p, p = FirstPath[root], NEW pos, pos = ChildNumbers(p) \o << 0 >>
  PROVE  /\ Len(pos) # 0 /\ Cursor(Len(pos), p, pos) /\ Last(p) = p[Len(pos)]
         /\ \A w \in Entered : ~(w < KeyOf(Len(pos), p, pos))
<1>1. TreeView(R, h) /\ root \in Nodes
  BY TreeViewOf DEF TreeView
<1>2. PICK j : j = [x \in Nodes |-> 1]
  OBVIOUS
<1>3. PICK L : L = h[root] + 1
  OBVIOUS
<1>4. Turns(j) /\ IsPath(p, root, j, L)
  BY <1>1, <1>2, <1>3, FirstPathIs
<1>5. /\ Way(L, p, pos) /\ Len(pos) = L /\ Last(p) = p[L] /\ pos[L] = 0
      /\ \A i \in 1 .. L - 1 : pos[i] = j[p[i]] - 1
  <2>1. PICK e \in Int : e = 0
    OBVIOUS
  <2>2. pos = ChildNumbers(p) \o <<e>>
    BY <2>1
  <2>3. Starts(L, p, pos, j, e)
    <3>1. Turns(j) /\ IsPath(p, root, j, L)
      BY <1>4
    <3> QED
      BY <1>1, <2>2, <3>1, StartWay
  <2> QED
    BY <2>1, <2>3 DEF Starts
<1>6. L \in Nat \ {0} /\ p \in [1 .. L -> Nodes] /\ p[L] \in Nodes
  <2>1. L \in Nat \ {0} /\ p \in [1 .. L -> Nodes]
    BY <1>5 DEF Way
  <2> QED
    BY <2>1
<1>7. Cursor(L, p, pos)
  <2>1. Size(p[L]) \in Nat
    BY <1>1, <1>6 DEF TreeView
  <2>2. Size(p[L]) # 0
    <3>1. CASE p[L] = root
      BY <3>1
    <3>2. CASE p[L] # root
      <4>1. p[L] \in Nodes \ {root}
        BY <1>6, <3>2
      <4>2. Size(p[L]) >= 1
        BY <1>1, <4>1, LeafFilled
      <4> QED
        BY <2>1, <4>2
    <3> QED
      BY <3>1, <3>2
  <2>3. 0 \in 0 .. Size(p[L]) - 1
    BY <2>1, <2>2
  <2> QED
    BY <1>5, <2>3 DEF Cursor
<1>8. \A i \in 1 .. L : pos[i] = 0
  <2> SUFFICES ASSUME NEW i \in 1 .. L PROVE pos[i] = 0
    OBVIOUS
  <2>1. CASE i = L
    BY <1>5, <2>1
  <2>2. CASE i # L
    <3>1. i \in 1 .. L - 1
      BY <1>6, <2>2
    <3>2. p[i] \in Nodes
      BY <1>6
    <3>3. j[p[i]] = 1
      BY <1>2, <3>2
    <3> QED
      BY <1>5, <3>1, <3>3
  <2> QED
    BY <2>1, <2>2
<1>9. \A w \in Entered : ~Ahead(-1, KeyOf(L, p, pos), w)
  <2>1. \A i \in 1 .. L : (-1 = 1 => pos[i] = Limit(L, p, i)) /\ (-1 = -1 => pos[i] = 0)
    <3>1. -1 # 1
      OBVIOUS
    <3> QED
      BY <1>8, <3>1
  <2>2. -1 \in {1, -1}
    OBVIOUS
  <2> QED
    BY <1>7, <2>1, <2>2, NoKeyAhead
<1>10. \A w \in Entered : ~(w < KeyOf(L, p, pos))
  <2>1. -1 # 1
    OBVIOUS
  <2> QED
    BY <1>9, <2>1 DEF Ahead
<1> QED
  BY <1>5, <1>6, <1>7, <1>10

\* The last level but the leaf's at which the way is not at the start.
LEMMA LastTurn ==
  ASSUME NEW pos \in Seq(Int), NEW L \in Nat, Len(pos) = L, NEW m \in 1 .. L - 1, pos[m] >= 1
  PROVE  \E l \in 1 .. L - 1 : pos[l] >= 1 /\ \A n \in 1 .. L - 1 : n > l => ~(pos[n] >= 1)
<1> DEFINE T == {l \in 1 .. L - 1 : pos[l] >= 1}
<1>1. T \subseteq 1 .. L - 1 /\ T # {} /\ L - 1 \in Nat
  OBVIOUS
<1>2. PICK l : l = Max(T)
  OBVIOUS
<1>3. l \in T /\ \A y \in T : y <= l
  <2> HIDE DEF T
  <2> QED
    BY <1>1, <1>2, MaxOf
<1> QED
  BY <1>3

\* A way that turns at each node as a search for v does.
AtValue(L, p, pos, v) ==
  /\ Way(L, p, pos)
  /\ \A i \in 1 .. L - 1 : pos[i] = Rank(node[p[i]].k, v)
  /\ pos[L] = Rank(node[p[L]].k, v) - 1

\* What such a way is, level by level.
LEMMA AtValueFacts ==
  ASSUME NEW R, NEW h, TreeView(R, h), NEW v \in Int, NEW L, NEW p, NEW pos, AtValue(L, p, pos, v)
  PROVE  /\ L \in Nat \ {0} /\ L \in Nat /\ p \in [1 .. L -> Nodes] /\ p[L] \in Leaves
         /\ pos \in Seq(Int) /\ Len(pos) = L
         /\ \A i \in 1 .. L : p[i] \in Nodes /\ pos[i] \in Int
         /\ \A i \in 1 .. L : pos[i] = Slot(L, p, i, v)
         /\ v \in R[p[L]]
<1>1. Way(L, p, pos)
  BY DEF AtValue
<1>2. /\ L \in Nat \ {0} /\ L \in Nat /\ p \in [1 .. L -> Nodes] /\ p[L] \in Leaves
      /\ pos \in Seq(Int) /\ Len(pos) = L
  BY <1>1 DEF Way
<1>3. \A i \in 1 .. L : p[i] \in Nodes /\ pos[i] \in Int
  BY <1>2
<1>4. \A i \in 1 .. L : pos[i] = Slot(L, p, i, v)
  <2> SUFFICES ASSUME NEW i \in 1 .. L PROVE pos[i] = Slot(L, p, i, v)
    OBVIOUS
  <2>1. i = L \/ (i \in 1 .. L - 1 /\ i # L)
    BY <1>2
  <2> QED
    BY <2>1 DEF Slot, AtValue
<1>5. v \in R[p[L]]
  <2>1. PICK m \in 1 .. L : v \in R[p[m]] /\ (m < L => Rank(node[p[m]].k, v) # pos[m])
    BY <1>1, LevelOf
  <2>2. m < L => m \in 1 .. L - 1
    BY <1>2
  <2>3. m = L
    BY <1>2, <2>1, <2>2 DEF AtValue
  <2> QED
    BY <2>1, <2>3
<1> QED
  BY <1>2, <1>3, <1>4, <1>5

\* The rank of a value, and which keys of a node it counts.
LEMMA RankTyped ==
  ASSUME NEW R, NEW h, TreeView(R, h), NEW v \in Int, NEW x \in Nodes
  PROVE  /\ Size(x) \in Nat /\ Rank(node[x].k, v) \in 0 .. Size(x) /\ Rank(node[x].k, v) \in Int
         /\ \A i \in 1 .. Size(x) : /\ node[x].k[i] \in Int
                                    /\ node[x].k[i] <= v <=> i <= Rank(node[x].k, v)
<1>1. node[x].k \in Seq(Int) /\ Sorted(node[x].k) /\ Size(x) = Len(node[x].k) /\ Size(x) \in Nat
  BY DEF TreeView
<1>2. /\ Rank(node[x].k, v) \in 0 .. Len(node[x].k)
      /\ \A i \in 1 .. Len(node[x].k) : node[x].k[i] <= v <=> i <= Rank(node[x].k, v)
  BY <1>1, RankOfSorted
<1>3. \A i \in 1 .. Len(node[x].k) : node[x].k[i] \in Int
  BY <1>1
<1> QED
  BY <1>1, <1>2, <1>3

\* The separator on the left of the last turn: its entry is in the leaf.
LEMMA TurnKey ==
  ASSUME NEW R, NEW h, TreeState(R, h), KeysEntered, NEW v \in Int,
         NEW L, NEW p, NEW pos, AtValue(L, p, pos, v),
         NEW l \in 1 .. L - 1, pos[l] >= 1, \A n \in 1 .. L - 1 : n > l => ~(pos[n] >= 1)
  PROVE  \E s \in Entered : s <= v /\ s \in R[p[L]]
<1>1. TreeView(R, h) /\ Way(L, p, pos)
  BY TreeViewOf DEF AtValue
<1>2. /\ L \in Nat \ {0} /\ L \in Nat /\ \A i \in 1 .. L : p[i] \in Nodes /\ pos[i] \in Int
      /\ \A i \in 1 .. L - 1 : pos[i] = Rank(node[p[i]].k, v)
  BY <1>1, AtValueFacts DEF AtValue
<1>3. l \in 1 .. L /\ l < L
  BY <1>2
<1>4. PICK x : x = p[l]
  OBVIOUS
<1>5. x \in Nodes \ Leaves
  BY <1>1, <1>4 DEF Way
<1>6. PICK r : r = pos[l]
  OBVIOUS
<1>7. /\ Size(x) \in Nat /\ Rank(node[x].k, v) \in 0 .. Size(x)
      /\ \A i \in 1 .. Size(x) : /\ node[x].k[i] \in Int
                                 /\ node[x].k[i] <= v <=> i <= Rank(node[x].k, v)
  BY <1>1, <1>5, RankTyped
<1>8. r = Rank(node[x].k, v)
  BY <1>2, <1>4, <1>6
<1>9. r \in 1 .. Size(x) /\ r <= r
  BY <1>6, <1>7, <1>8
<1>10. PICK s : s = node[x].k[r]
  OBVIOUS
<1>11. Rank(node[x].k, s) = r /\ s \in R[x] /\ s \in Int
  BY <1>1, <1>5, <1>9, <1>10, RankOfKey
<1>12. s \in Entered
  BY <1>5, <1>9, <1>10 DEF KeysEntered
<1>13. s <= v
  BY <1>7, <1>8, <1>9, <1>10
<1>14. PICK n \in 1 .. L : s \in R[p[n]] /\ (n < L => Rank(node[p[n]].k, s) # pos[n])
  BY <1>1, <1>11, LevelOf
<1>15. CASE n < l
  <2>1. s \in R[p[l]]
    BY <1>4, <1>11
  <2>2. \A i \in 1 .. l : s \in R[p[i]] /\ (i < l => Rank(node[p[i]].k, s) = pos[i])
    BY <1>1, <1>3, <2>1, WayUp
  <2>3. n \in 1 .. l /\ n < L
    BY <1>2, <1>3, <1>15
  <2> QED
    BY <1>14, <1>15, <2>2, <2>3
<1>16. CASE n = l
  BY <1>3, <1>4, <1>6, <1>11, <1>14, <1>16
<1>17. CASE n > l /\ n < L
  <2>1. n \in 1 .. L - 1 /\ p[n] \in Nodes /\ Rank(node[p[n]].k, s) # pos[n]
    BY <1>2, <1>14, <1>17
  <2>2. pos[n] \in Int /\ ~(pos[n] >= 1) /\ pos[n] = Rank(node[p[n]].k, v)
    BY <1>2, <1>17, <2>1
  <2>3. /\ Rank(node[p[n]].k, s) \in 0 .. Size(p[n]) /\ Rank(node[p[n]].k, v) \in 0 .. Size(p[n])
        /\ Rank(node[p[n]].k, s) <= Rank(node[p[n]].k, v)
    BY <1>1, <1>11, <1>13, <2>1, RankOrder
  <2>4. Rank(node[p[n]].k, s) \in Nat /\ Rank(node[p[n]].k, v) \in Nat
    <3>1. Size(p[n]) \in Nat
      BY <1>1, <2>1 DEF TreeView
    <3> QED
      BY <2>3, <3>1
  <2> QED
    BY <2>1, <2>2, <2>3, <2>4
<1>18. CASE n = L
  BY <1>12, <1>13, <1>14, <1>18
<1>19. n < l \/ n = l \/ (n > l /\ n < L) \/ n = L
  BY <1>2, <1>3
<1> QED
  BY <1>15, <1>16, <1>17, <1>18, <1>19

\* If there is an entry that is not greater than v, there is one in the leaf.
LEMMA SomeBelow ==
  ASSUME NEW R, NEW h, TreeState(R, h), KeysEntered, NEW v \in Int,
         NEW L, NEW p, NEW pos, AtValue(L, p, pos, v),
         NEW k \in Entered, k <= v
  PROVE  Rank(node[p[L]].k, v) >= 1
<1>1. TreeView(R, h) /\ Way(L, p, pos) /\ k \in Int
  BY TreeViewOf, EnteredInts DEF AtValue
<1>2. /\ L \in Nat \ {0} /\ L \in Nat /\ pos \in Seq(Int) /\ Len(pos) = L
      /\ \A i \in 1 .. L : p[i] \in Nodes /\ pos[i] \in Int
      /\ \A i \in 1 .. L - 1 : pos[i] = Rank(node[p[i]].k, v)
  BY <1>1, AtValueFacts DEF AtValue
<1>3. p[L] \in Leaves
  BY <1>1 DEF Way
<1>4. \E s \in Entered : s <= v /\ s \in R[p[L]]
  <2>1. PICK m \in 1 .. L : k \in R[p[m]] /\ (m < L => Rank(node[p[m]].k, k) # pos[m])
    BY <1>1, LevelOf
  <2>2. CASE m = L
    BY <2>1, <2>2
  <2>3. CASE m # L
    <3>1. m \in 1 .. L - 1 /\ m < L /\ p[m] \in Nodes /\ pos[m] \in Int
      BY <1>2, <2>3
    <3>2. pos[m] = Rank(node[p[m]].k, v) /\ Rank(node[p[m]].k, k) # pos[m]
      BY <1>2, <2>1, <3>1
    <3>3. /\ Rank(node[p[m]].k, k) \in 0 .. Size(p[m])
          /\ Rank(node[p[m]].k, k) <= Rank(node[p[m]].k, v)
      BY <1>1, <3>1, RankOrder
    <3>4. Size(p[m]) \in Nat
      BY <1>1, <3>1 DEF TreeView
    <3>5. pos[m] >= 1
      BY <3>1, <3>2, <3>3, <3>4
    <3>6. PICK l \in 1 .. L - 1 : pos[l] >= 1 /\ \A n \in 1 .. L - 1 : n > l => ~(pos[n] >= 1)
      BY <1>2, <3>1, <3>5, LastTurn
    <3> QED
      BY <3>6, TurnKey
  <2> QED
    BY <2>2, <2>3
<1>5. PICK s \in Entered : s <= v /\ s \in R[p[L]]
  BY <1>4
<1>6. PICK i \in 1 .. Size(p[L]) : node[p[L]].k[i] = s
  BY <1>3, <1>5, EnteredInLeaf
<1>7. PICK x \in Nodes : x = p[L]
  BY <1>2
<1>8. /\ Size(x) \in Nat /\ Rank(node[x].k, v) \in 0 .. Size(x) /\ Rank(node[x].k, v) \in Int
      /\ \A n \in 1 .. Size(x) : /\ node[x].k[n] \in Int
                                 /\ node[x].k[n] <= v <=> n <= Rank(node[x].k, v)
  BY <1>1, RankTyped
<1>9. i <= Rank(node[x].k, v) /\ i \in 1 .. Size(x)
  <2>1. i \in 1 .. Size(x) /\ node[x].k[i] = s
    BY <1>6, <1>7
  <2>2. node[x].k[i] <= v
    BY <1>5, <2>1
  <2>3. node[x].k[i] <= v <=> i <= Rank(node[x].k, v)
    <3>1. \A n \in 1 .. Size(x) : node[x].k[n] <= v <=> n <= Rank(node[x].k, v)
      BY <1>8
    <3> QED
      BY <2>1, <3>1
  <2> QED
    BY <2>1, <2>2, <2>3
<1> QED
  BY <1>7, <1>8, <1>9

\* With a value it begins at the greatest key that is not greater, if there is one.
BestBelow(p, pos, v) ==
  /\ Cursor(Len(pos), p, pos) /\ Last(p) = p[Len(pos)]
  /\ KeyOf(Len(pos), p, pos) <= v
  /\ \A w \in Entered : w <= v => w <= KeyOf(Len(pos), p, pos)

\* The constructor puts the cursor there (toStart2).
LEMMA StartAtValue ==
  ASSUME NEW R, NEW h, TreeState(R, h), KeysEntered, NEW v \in Int,
         NEW k \in Entered, k <= v,
         NEW p, p = ValuePath(v),
         NEW pos, pos = ChildNumbers(p) \o <<Rank(node[Last(p)].k, v) - 1>>
  PROVE  BestBelow(p, pos, v)
<1>1. TreeView(R, h) /\ Entered \subseteq Int
  BY TreeViewOf, EnteredInts
<1>2. PICK j : j = [x \in Nodes |-> Rank(node[x].k, v) + 1]
  OBVIOUS
<1>3. PICK L : L = h[root] + 1
  OBVIOUS
<1>4. Turns(j) /\ IsPath(p, root, j, L)
  BY <1>1, <1>2, <1>3, ValuePathIs
<1>5. L \in Nat \ {0} /\ p \in [1 .. L -> Nodes] /\ Last(p) = p[L]
  BY <1>4 DEF IsPath, Last
<1>6. PICK z \in Nodes : z = p[L]
  BY <1>5
<1>7. /\ Size(z) \in Nat /\ Rank(node[z].k, v) \in 0 .. Size(z) /\ Rank(node[z].k, v) \in Int
      /\ \A i \in 1 .. Size(z) : /\ node[z].k[i] \in Int
                                 /\ node[z].k[i] <= v <=> i <= Rank(node[z].k, v)
  BY <1>1, RankTyped
<1>8. PICK e \in Int : e = Rank(node[z].k, v) - 1
  BY <1>7
<1>9. Starts(L, p, pos, j, e)
  <2>1. pos = ChildNumbers(p) \o <<e>>
    BY <1>5, <1>6, <1>8
  <2>2. Turns(j) /\ IsPath(p, root, j, L)
    BY <1>4
  <2> QED
    BY <1>1, <2>1, <2>2, StartWay
<1>10. AtValue(L, p, pos, v)
  <2>1. \A i \in 1 .. L - 1 : pos[i] = Rank(node[p[i]].k, v)
    <3> SUFFICES ASSUME NEW i \in 1 .. L - 1 PROVE pos[i] = Rank(node[p[i]].k, v)
      OBVIOUS
    <3>1. PICK x \in Nodes : x = p[i]
      <4>1. i \in 1 .. L
        BY <1>5
      <4> QED
        BY <1>5, <4>1
    <3>2. PICK r \in Int : r = Rank(node[x].k, v)
      BY <1>1, RankTyped
    <3>3. j[x] - 1 = r
      <4>1. j[x] = r + 1
        BY <1>2, <3>2
      <4>2. r + 1 - 1 = r
        OBVIOUS
      <4> QED
        BY <4>1, <4>2
    <3>4. pos[i] = j[x] - 1
      BY <1>9, <3>1 DEF Starts
    <3>5. pos[i] = r
      BY <3>3, <3>4
    <3> QED
      BY <3>1, <3>2, <3>5
  <2> QED
    BY <1>6, <1>8, <1>9, <2>1 DEF AtValue, Starts
<1>11. Rank(node[z].k, v) >= 1
  BY <1>6, <1>10, SomeBelow
<1>12. Cursor(L, p, pos)
  <2>1. pos[L] = e /\ Way(L, p, pos)
    BY <1>9 DEF Starts
  <2>2. e \in 0 .. Size(z) - 1
    BY <1>7, <1>8, <1>11
  <2> QED
    BY <1>6, <2>1, <2>2 DEF Cursor
<1>13. PICK u : u = KeyOf(L, p, pos)
  OBVIOUS
<1>14. u <= v /\ u \in Int
  <2>1. e + 1 = Rank(node[z].k, v) /\ pos[L] = e
    BY <1>7, <1>8, <1>9 DEF Starts
  <2>2. u = node[z].k[Rank(node[z].k, v)]
    BY <1>6, <1>13, <2>1 DEF KeyOf
  <2>3. Rank(node[z].k, v) \in 1 .. Size(z) /\ Rank(node[z].k, v) <= Rank(node[z].k, v)
    BY <1>7, <1>11
  <2> QED
    BY <1>7, <2>2, <2>3
<1>15. ASSUME NEW w \in Entered, w <= v PROVE w <= u
  <2> SUFFICES ASSUME ~(w <= u) PROVE FALSE
    OBVIOUS
  <2>1. w \in Int /\ w # u /\ ~(w < u)
    BY <1>1, <1>14
  <2>2. PICK m \in 1 .. L : /\ Slot(L, p, m, w) \in 0 .. Limit(L, p, m)
                            /\ Slot(L, p, m, w) # pos[m] /\ pos[m] \in Int
                            /\ w < u <=> Slot(L, p, m, w) < pos[m]
    BY <1>12, <1>13, <2>1, KeyPlace
  <2>3. PICK y \in Nodes : y = p[m]
    BY <1>5
  <2>4. pos[m] = Slot(L, p, m, v)
    BY <1>1, <1>10, AtValueFacts
  <2>5. /\ Rank(node[y].k, w) \in Int /\ Rank(node[y].k, v) \in Int
        /\ Rank(node[y].k, w) <= Rank(node[y].k, v)
    <3>1. Rank(node[y].k, w) \in Int
      BY <1>1, <2>1, RankTyped
    <3>2. Rank(node[y].k, v) \in Int
      BY <1>1, RankTyped
    <3>3. Rank(node[y].k, w) <= Rank(node[y].k, v)
      BY <1>1, <1>15, <2>1, RankOrder
    <3> QED
      BY <3>1, <3>2, <3>3
  <2>6. /\ Slot(L, p, m, w) \in Int /\ Slot(L, p, m, v) \in Int
        /\ Slot(L, p, m, w) <= Slot(L, p, m, v)
    BY <2>3, <2>5 DEF Slot
  <2>7. ~(Slot(L, p, m, w) < pos[m]) /\ Slot(L, p, m, w) # pos[m]
    BY <2>1, <2>2
  <2>8. PICK a \in Int, b \in Int : a = Slot(L, p, m, w) /\ b = Slot(L, p, m, v)
    BY <2>6
  <2>9. a <= b /\ ~(a < b) /\ a # b
    BY <2>4, <2>6, <2>7, <2>8
  <2> QED
    BY <2>8, <2>9
<1>16. Len(pos) = L /\ Last(p) = p[L]
  BY <1>9 DEF Starts
<1> QED
  BY <1>12, <1>13, <1>14, <1>15, <1>16 DEF BestBelow
-----------------------------------------------------------------------------
(* What the scan has answered, and where it is.                             *)

\* The entered keys can be counted.
LEMMA EnteredFinite == ASSUME IInv PROVE IsFiniteSet(Entered)
<1>1. PICK R, h : TreeState(R, h)
  BY DEF IInv
<1>2. TreeView(R, h) /\ Nodes = 1 .. allocated /\ allocated \in Nat \ {0}
  <2>1. TreeView(R, h)
    BY <1>1, TreeViewOf
  <2>2. Nodes = 1 .. allocated /\ allocated \in Nat \ {0}
    BY <1>1, TreeDomain DEF IInv, CallTypes
  <2> QED
    BY <2>1, <2>2
<1>3. ASSUME NEW x \in Leaves PROVE IsFiniteSet(ToSet(node[x].k))
  <2> DEFINE k == node[x].k
             f == [i \in 1 .. Len(k) |-> k[i]]
  <2>1. k \in Seq(Int)
    BY <1>2 DEF TreeView, Leaves
  <2> HIDE DEF k
  <2>2. f \in Surjection(1 .. Len(k), ToSet(k))
    BY <2>1 DEF Surjection, ToSet
  <2>3. IsFiniteSet(1 .. Len(k))
    BY <2>1, FS_Interval
  <2> HIDE DEF f
  <2>4. IsFiniteSet(ToSet(k))
    BY <2>2, <2>3, FS_Surjection
  <2> QED
    BY <2>4 DEF k
<1> DEFINE S == {ToSet(node[x].k) : x \in Leaves}
           g == [x \in Leaves |-> ToSet(node[x].k)]
<1>4. IsFiniteSet(Leaves)
  <2>1. IsFiniteSet(1 .. allocated) /\ Leaves \in SUBSET (1 .. allocated)
    BY <1>2, FS_Interval DEF Leaves
  <2> QED
    BY <2>1, FS_Subset
<1>5. g \in Surjection(Leaves, S)
  BY DEF Surjection
<1>6. \A T \in S : IsFiniteSet(T)
  BY <1>3
<1>7. Entered = UNION S
  BY DEF Entered
<1> HIDE DEF S, g
<1>8. IsFiniteSet(S)
  BY <1>4, <1>5, FS_Surjection
<1> QED
  BY <1>6, <1>7, <1>8, FS_UNION

\* Nothing is entered while the root is empty: it is then a leaf, and the only node.
LEMMA EmptyTree ==
  ASSUME NEW R, NEW h, TreeState(R, h), KeysEntered, Size(root) = 0
  PROVE  Entered = {}
<1>1. TreeView(R, h) /\ root \in Nodes
  BY TreeViewOf DEF TreeView
<1>2. root \in Leaves
  BY <1>1 DEF KeysEntered
<1>3. ASSUME NEW x \in Leaves PROVE x = root
  <2>1. x \in Nodes /\ h[x] = 0 /\ h[root] = 0
    BY <1>1, <1>2 DEF TreeView, Leaves
  <2>2. x # root => h[x] < h[root]
    BY <1>1, <2>1 DEF TreeView
  <2> QED
    BY <2>1, <2>2
<1>4. ToSet(node[root].k) = {}
  <2>1. node[root].k \in Seq(Int) /\ Len(node[root].k) = 0
    BY <1>1 DEF TreeView
  <2> QED
    BY <2>1 DEF ToSet
<1> QED
  BY <1>3, <1>4 DEF Entered

\* The keys a scan by c and v is for, those before k in its order, and the parts of
\* IndexScanExact for a scan at pos with answers ret.
Direction(c)      == IF c \in {"LT", "LE"} THEN -1 ELSE 1
WantedBy(c, v)    == {k \in Entered : Satisfies(k, c, v)}
BeforeBy(c, v, k) == {w \in WantedBy(c, v) : IF c \in {"LT", "LE"} THEN w > k ELSE w < k}
FallsBy(c, v)     == c \notin {"closed", "NO", "NE"} /\ \A k \in Entered : v < k

HereBy(cur, pos, u) ==
  \E q : /\ Cursor(Len(pos), q, pos) /\ cur = q[Len(pos)]
         /\ u = KeyOf(Len(pos), q, pos)

AnsweredBy(c, v, ret) ==
  \A i \in DOMAIN ret : \E k \in WantedBy(c, v) : /\ Cardinality(BeforeBy(c, v, k)) = i - 1
                                                  /\ ret[i] = RecordOf(k)

OrderGood(c, v, cur, pos, go, ret) ==
  /\ ret \in Seq(Int) /\ AnsweredBy(c, v, ret)
  /\ IF go /\ pos # <<>>
       THEN \E u : HereBy(cur, pos, u) /\ Len(ret) = Cardinality(BeforeBy(c, v, u))
       ELSE Len(ret) = Cardinality(WantedBy(c, v))

EqualGood(v, cur, pos, ret) ==
  v \in Entered \ {0} => HereBy(cur, pos, v) /\ ToSet(ret) \subseteq {RecordOf(v)}

ScanGood(c, v, cur, pos, go, ret) ==
  /\ c \notin {"closed", "EQ"} /\ ~FallsBy(c, v) => OrderGood(c, v, cur, pos, go, ret)
  /\ c = "EQ" => EqualGood(v, cur, pos, ret)

ScanInv == ScanGood(compOp, value, current, position, canDo, returned)

\* The invariant of the scan implies what it promises.
LEMMA InvScanExact == ScanInv => IndexScanExact
BY DEF ScanInv, ScanGood, OrderGood, EqualGood, IndexScanExact, AnsweredBy, FallsBy, FallsOff,
       WantedBy, Wanted, BeforeBy, WantedBefore, Exhausted

\* All this depends on the nodes only.
LEMMA ScanGoodKept ==
  ASSUME UNCHANGED fileVars
  PROVE  \A c, v, cur, pos, go, ret :
           ScanGood(c, v, cur, pos, go, ret)' <=> ScanGood(c, v, cur, pos, go, ret)
<1>1. node' = node /\ root' = root /\ allocated' = allocated
  BY DEF fileVars, vars, tree
<1>2. Nodes' = Nodes /\ Leaves' = Leaves /\ Entered' = Entered /\ \A x : Size(x)' = Size(x)
  BY <1>1 DEF Nodes, Leaves, Entered, Size
<1>3. \A k : RecordOf(k)' = RecordOf(k)
  <2> SUFFICES ASSUME NEW k PROVE RecordOf(k)' = RecordOf(k)
    OBVIOUS
  <2> QED
    BY <1>1 DEF RecordOf, Leaves, Nodes, Size
<1>4. \A L, q, pos : /\ Cursor(L, q, pos)' <=> Cursor(L, q, pos)
                     /\ KeyOf(L, q, pos)' = KeyOf(L, q, pos)
  <2> SUFFICES ASSUME NEW L, NEW q, NEW pos
               PROVE  /\ Cursor(L, q, pos)' <=> Cursor(L, q, pos)
                      /\ KeyOf(L, q, pos)' = KeyOf(L, q, pos)
    OBVIOUS
  <2>1. Way(L, q, pos)' <=> Way(L, q, pos)
    BY <1>1, <1>2, Zenon DEF Way
  <2>2. Cursor(L, q, pos)' <=> Cursor(L, q, pos)
    BY <1>2, <2>1 DEF Cursor
  <2>3. KeyOf(L, q, pos)' = KeyOf(L, q, pos)
    BY <1>1 DEF KeyOf
  <2> QED
    BY <2>2, <2>3
<1>5. \A cur, pos, u : HereBy(cur, pos, u)' <=> HereBy(cur, pos, u)
  BY <1>4 DEF HereBy
<1>6. \A c, v : WantedBy(c, v)' = WantedBy(c, v) /\ (FallsBy(c, v)' <=> FallsBy(c, v))
  BY <1>2 DEF WantedBy, FallsBy
<1>7. \A c, v, k : BeforeBy(c, v, k)' = BeforeBy(c, v, k)
  BY <1>6 DEF BeforeBy
<1>8. \A c, v, ret : AnsweredBy(c, v, ret)' <=> AnsweredBy(c, v, ret)
  BY <1>3, <1>6, <1>7 DEF AnsweredBy
<1> QED
  BY <1>2, <1>3, <1>5, <1>6, <1>7, <1>8 DEF ScanGood, OrderGood, EqualGood

\* What a scan reads at the cursor.
LEMMA ReadCursor ==
  ASSUME IInv, NEW cur, NEW pos, NEW u, HereBy(cur, pos, u)
  PROVE  /\ pos # <<>> /\ Last(pos) >= 0 /\ Last(pos) \in Int /\ u \in Entered
         /\ node[cur].k[Last(pos) + 1] = u
         /\ node[cur].n[Last(pos) + 1] = RecordOf(u) /\ RecordOf(u) \in Int
<1>1. PICK R, h : TreeState(R, h)
  BY DEF IInv
<1>2. PICK L, q : L = Len(pos) /\ Cursor(L, q, pos) /\ cur = q[L] /\ u = KeyOf(L, q, pos)
  BY DEF HereBy
<1>3. TreeView(R, h)
  BY <1>1, TreeViewOf
<1>4. u \in Entered /\ u \in Int
  BY <1>2, <1>3, CursorKey
<1>5. /\ L \in Nat \ {0} /\ pos \in Seq(Int) /\ cur \in Leaves /\ cur \in Nodes
      /\ pos[L] \in 0 .. Size(cur) - 1
  BY <1>2 DEF Cursor, Way, Leaves
<1>6. PICK e : e = pos[L] + 1
  OBVIOUS
<1>7. Size(cur) \in Nat /\ node[cur].k \in Seq(Int) /\ Len(node[cur].n) = Size(cur) /\ node[cur] \in Cell
  BY <1>3, <1>5 DEF TreeView
<1>8. e \in 1 .. Size(cur) /\ pos[L] \in Int /\ pos[L] >= 0
  BY <1>5, <1>6, <1>7
<1>9. pos # <<>> /\ Last(pos) = pos[L]
  BY <1>2, <1>5 DEF Last
<1>10. node[cur].k[e] = u
  BY <1>2, <1>6 DEF KeyOf
<1>11. HasEntry(u, node[cur].n[e])
  BY <1>5, <1>8, <1>10 DEF HasEntry, Pair, Size
<1>12. node[cur].n[e] = RecordOf(u)
  BY <1>11, RecordsAreFound DEF RecordsFound
<1>13. node[cur].n[e] \in Int
  <2>1. node[cur].n \in Seq(Nat)
    BY <1>7 DEF Cell
  <2> QED
    BY <1>7, <1>8, <2>1
<1> QED
  BY <1>4, <1>6, <1>8, <1>9, <1>10, <1>12, <1>13

\* What a move passes over: the key at the cursor, if the scan is for it.
LEMMA PassedOver ==
  ASSUME Entered \subseteq Int, NEW c, NEW v, NEW u \in Entered
  PROVE  /\ u \notin BeforeBy(c, v, u)
         /\ \A w \in Entered : NextKey(Direction(c), u, w) =>
              BeforeBy(c, v, w) = BeforeBy(c, v, u) \cup ({u} \cap WantedBy(c, v))
         /\ (\A w \in Entered : ~Ahead(Direction(c), u, w)) =>
              WantedBy(c, v) = BeforeBy(c, v, u) \cup ({u} \cap WantedBy(c, v))
<1> DEFINE W == WantedBy(c, v)
<1>1. W \subseteq Entered
  BY DEF WantedBy
<1>2. CASE c \in {"LT", "LE"}
  <2>1. Direction(c) = -1 /\ Direction(c) # 1
    BY <1>2 DEF Direction
  <2>2. \A w : BeforeBy(c, v, w) = {x \in W : x > w}
    BY <1>2 DEF BeforeBy
  <2>3. \A a, b : Ahead(Direction(c), a, b) <=> b < a
    BY <2>1 DEF Ahead
  <2>4. u \notin BeforeBy(c, v, u)
    BY <2>2
  <2>5. ASSUME NEW w \in Entered, NextKey(Direction(c), u, w)
        PROVE  BeforeBy(c, v, w) = BeforeBy(c, v, u) \cup ({u} \cap W)
    <3>1. w < u /\ \A x \in Entered : ~(x < u /\ w < x)
      BY <2>3, <2>5 DEF NextKey
    <3> HIDE DEF W
    <3>2. \A x \in W : x > w <=> x > u \/ x = u
      BY <1>1, <3>1
    <3> QED
      BY <2>2, <3>2
  <2>6. ASSUME \A w \in Entered : ~Ahead(Direction(c), u, w)
        PROVE  W = BeforeBy(c, v, u) \cup ({u} \cap W)
    <3>1. \A w \in Entered : ~(w < u)
      BY <2>3, <2>6
    <3> HIDE DEF W
    <3>2. \A x \in W : x > u \/ x = u
      BY <1>1, <3>1
    <3> QED
      BY <2>2, <3>2
  <2> QED
    BY <2>4, <2>5, <2>6
<1>3. CASE c \notin {"LT", "LE"}
  <2>1. Direction(c) = 1
    BY <1>3 DEF Direction
  <2>2. \A w : BeforeBy(c, v, w) = {x \in W : x < w}
    BY <1>3 DEF BeforeBy
  <2>3. \A a, b : Ahead(Direction(c), a, b) <=> a < b
    BY <2>1 DEF Ahead
  <2>4. u \notin BeforeBy(c, v, u)
    BY <2>2
  <2>5. ASSUME NEW w \in Entered, NextKey(Direction(c), u, w)
        PROVE  BeforeBy(c, v, w) = BeforeBy(c, v, u) \cup ({u} \cap W)
    <3>1. u < w /\ \A x \in Entered : ~(u < x /\ x < w)
      BY <2>3, <2>5 DEF NextKey
    <3> HIDE DEF W
    <3>2. \A x \in W : x < w <=> x < u \/ x = u
      BY <1>1, <3>1
    <3> QED
      BY <2>2, <3>2
  <2>6. ASSUME \A w \in Entered : ~Ahead(Direction(c), u, w)
        PROVE  W = BeforeBy(c, v, u) \cup ({u} \cap W)
    <3>1. \A w \in Entered : ~(u < w)
      BY <2>3, <2>6
    <3> HIDE DEF W
    <3>2. \A x \in W : x < u \/ x = u
      BY <1>1, <3>1
    <3> QED
      BY <2>2, <3>2
  <2> QED
    BY <2>4, <2>5, <2>6
<1> QED
  BY <1>2, <1>3
\* A move, after the key at the cursor was answered or passed over.
LEMMA MoveGood ==
  ASSUME IInv, NEW c, NEW v, NEW cur, NEW pos, NEW u, HereBy(cur, pos, u),
         NEW ret \in Seq(Int), AnsweredBy(c, v, ret), Len(ret) = Cardinality(BeforeBy(c, v, u)),
         NEW go, NEW cur2, NEW pos2, Moved(Direction(c), u, go, cur2, pos2),
         NEW ret2, ret2 = IF u \in WantedBy(c, v) THEN Append(ret, RecordOf(u)) ELSE ret
  PROVE  OrderGood(c, v, cur2, pos2, go, ret2)
<1>1. PICK R, h : TreeState(R, h)
  BY DEF IInv
<1>2. TreeView(R, h) /\ Entered \subseteq Int
  BY <1>1, TreeViewOf, EnteredInts
<1>3. u \in Entered /\ RecordOf(u) \in Int
  BY ReadCursor
<1>4. IsFiniteSet(WantedBy(c, v)) /\ IsFiniteSet(BeforeBy(c, v, u))
  <2>1. WantedBy(c, v) \in SUBSET Entered
    BY DEF WantedBy
  <2>2. IsFiniteSet(WantedBy(c, v))
    BY <2>1, EnteredFinite, FS_Subset
  <2>3. BeforeBy(c, v, u) \in SUBSET WantedBy(c, v)
    BY DEF BeforeBy
  <2> QED
    BY <2>2, <2>3, FS_Subset
<1>5. PICK B : B = BeforeBy(c, v, u) \cup ({u} \cap WantedBy(c, v))
  OBVIOUS
<1>6. /\ u \notin BeforeBy(c, v, u)
      /\ \A w \in Entered : NextKey(Direction(c), u, w) => BeforeBy(c, v, w) = B
      /\ (\A w \in Entered : ~Ahead(Direction(c), u, w)) => WantedBy(c, v) = B
  BY <1>2, <1>3, <1>5, PassedOver
<1>7. ret2 \in Seq(Int) /\ AnsweredBy(c, v, ret2) /\ Len(ret2) = Cardinality(B)
  <2>1. CASE u \in WantedBy(c, v)
    <3>1. B = BeforeBy(c, v, u) \cup {u}
      BY <1>5, <2>1
    <3>2. Cardinality(B) = Cardinality(BeforeBy(c, v, u)) + 1
      BY <1>4, <1>6, <3>1, FS_AddElement
    <3>3. ret2 = Append(ret, RecordOf(u))
      BY <2>1
    <3>4. PICK n \in Nat : n = Len(ret)
      OBVIOUS
    <3>5. /\ ret2 \in Seq(Int) /\ Len(ret2) = n + 1 /\ ret2[n + 1] = RecordOf(u)
          /\ \A i \in 1 .. n : ret2[i] = ret[i]
      BY <1>3, <3>3, <3>4
    <3>6. DOMAIN ret = 1 .. n /\ DOMAIN ret2 = 1 .. n + 1
      BY <3>4, <3>5
    <3>7. AnsweredBy(c, v, ret2)
      <4> SUFFICES ASSUME NEW i \in 1 .. n + 1
                   PROVE  \E k \in WantedBy(c, v) : /\ Cardinality(BeforeBy(c, v, k)) = i - 1
                                                    /\ ret2[i] = RecordOf(k)
        BY <3>6 DEF AnsweredBy
      <4>1. CASE i = n + 1
        <5>1. n + 1 - 1 = n
          OBVIOUS
        <5> QED
          BY <2>1, <3>4, <3>5, <4>1, <5>1
      <4>2. CASE i # n + 1
        <5>1. i \in 1 .. n
          BY <4>2
        <5> QED
          BY <3>5, <3>6, <5>1 DEF AnsweredBy
      <4> QED
        BY <4>1, <4>2
    <3> QED
      BY <3>2, <3>4, <3>5, <3>7
  <2>2. CASE u \notin WantedBy(c, v)
    <3>1. B = BeforeBy(c, v, u) /\ ret2 = ret
      BY <1>5, <2>2
    <3> QED
      BY <3>1
  <2> QED
    BY <2>1, <2>2
<1>8. CASE go
  <2>1. PICK q2 : /\ Cursor(Len(pos2), q2, pos2) /\ cur2 = q2[Len(pos2)]
                  /\ NextKey(Direction(c), u, KeyOf(Len(pos2), q2, pos2))
    BY <1>8 DEF Moved
  <2>2. PICK w : w = KeyOf(Len(pos2), q2, pos2)
    OBVIOUS
  <2>3. HereBy(cur2, pos2, w)
    BY <2>1, <2>2 DEF HereBy
  <2>4. pos2 # <<>> /\ w \in Entered
    BY <2>3, ReadCursor
  <2>5. BeforeBy(c, v, w) = B
    BY <1>6, <2>1, <2>2, <2>4
  <2> QED
    BY <1>7, <1>8, <2>3, <2>4, <2>5 DEF OrderGood
<1>9. CASE ~go
  <2>1. WantedBy(c, v) = B
    BY <1>6, <1>9 DEF Moved
  <2> QED
    BY <1>7, <1>9, <2>1 DEF OrderGood
<1> QED
  BY <1>8, <1>9

\* Move goes in the direction of the comparison.
LEMMA MoveIs ==
  ASSUME IInv, NEW u, HereBy(current, position, u), Move
  PROVE  Moved(Direction(compOp), u, canDo', current', position')
<1>1. PICK R, h : TreeState(R, h)
  BY DEF IInv
<1>2. NodeSizes
  BY DEF IInv
<1>3. PICK q : /\ Cursor(Len(position), q, position) /\ current = q[Len(position)]
               /\ u = KeyOf(Len(position), q, position)
  BY DEF HereBy
<1>4. CASE compOp \in {"LT", "LE"}
  <2>1. ToLeft /\ Direction(compOp) = -1
    BY <1>4 DEF Move, Direction
  <2>2. Moved(-1, KeyOf(Len(position), q, position), canDo', current', position')
    BY <1>1, <1>2, <1>3, <2>1, LeftStep
  <2> QED
    BY <1>3, <2>1, <2>2
<1>5. CASE compOp \notin {"LT", "LE"}
  <2>1. ToRight /\ Direction(compOp) = 1
    BY <1>5 DEF Move, Direction
  <2>2. Moved(1, KeyOf(Len(position), q, position), canDo', current', position')
    BY <1>1, <1>2, <1>3, <2>1, RightStep
  <2> QED
    BY <1>3, <2>1, <2>2
<1> QED
  BY <1>4, <1>5

\* LtSearch, GtSearch, ...: the entry at the cursor is the answer, or is passed over.
LEMMA IterateGood ==
  ASSUME IInv, ScanInv, Skip \/ Return
  PROVE  ScanInv'
<1>1. UNCHANGED <<fileVars, compOp, value>> /\ Move /\ Reading /\ compOp # "EQ"
  BY DEF Skip, Return
<1>2. PICK c, v : c = compOp /\ v = value
  OBVIOUS
<1>3. PICK cur2, pos2, go, ret2 : cur2 = current' /\ pos2 = position' /\ go = canDo' /\ ret2 = returned'
  OBVIOUS
<1>4. ScanGood(c, v, cur2, pos2, go, ret2)
  <2> SUFFICES ASSUME c \notin {"closed", "EQ"}, ~FallsBy(c, v)
               PROVE  OrderGood(c, v, cur2, pos2, go, ret2)
    BY <1>1, <1>2 DEF ScanGood
  <2>1. OrderGood(c, v, current, position, canDo, returned) /\ canDo /\ position # <<>>
    BY <1>1, <1>2 DEF ScanInv, ScanGood, Reading
  <2>2. PICK u : /\ HereBy(current, position, u)
                 /\ Len(returned) = Cardinality(BeforeBy(c, v, u))
    BY <2>1 DEF OrderGood
  <2>3. /\ Last(position) >= 0 /\ u \in Entered
        /\ node[current].k[Last(position) + 1] = u
        /\ node[current].n[Last(position) + 1] = RecordOf(u)
    BY <2>2, ReadCursor
  <2>4. OnEntry /\ KeyAt = u /\ RecordAt = RecordOf(u)
    BY <2>3 DEF OnEntry, KeyAt, RecordAt
  <2>5. Outcomes = {Satisfies(u, c, v)}
    BY <1>2, <2>4 DEF Outcomes
  <2>6. ret2 = IF u \in WantedBy(c, v) THEN Append(returned, RecordOf(u)) ELSE returned
    <3>1. CASE Skip
      <4>1. FALSE \in Outcomes /\ ret2 = returned
        BY <1>3, <3>1 DEF Skip
      <4>2. ~Satisfies(u, c, v)
        BY <2>5, <4>1
      <4> QED
        BY <4>1, <4>2 DEF WantedBy
    <3>2. CASE Return
      <4>1. TRUE \in Outcomes /\ ret2 = Append(returned, RecordOf(u))
        BY <1>3, <2>4, <3>2 DEF Return
      <4>2. Satisfies(u, c, v)
        BY <2>5, <4>1
      <4> QED
        BY <2>3, <4>1, <4>2 DEF WantedBy
    <3> QED
      BY <3>1, <3>2
  <2>7. Moved(Direction(c), u, go, cur2, pos2)
    BY <1>1, <1>2, <1>3, <2>2, MoveIs
  <2>8. returned \in Seq(Int) /\ AnsweredBy(c, v, returned)
    BY <2>1 DEF OrderGood
  <2> QED
    BY <2>2, <2>6, <2>7, <2>8, MoveGood
<1>5. compOp' = c /\ value' = v
  BY <1>1, <1>2
<1>6. ScanGood(c, v, cur2, pos2, go, ret2)'
  BY <1>1, <1>4, ScanGoodKept
<1> QED
  BY <1>3, <1>5, <1>6 DEF ScanInv
\* EqSearch: the cursor is on the value, if it was entered.
LEMMA ReturnEqualGood ==
  ASSUME IInv, ScanInv, ReturnEqual
  PROVE  ScanInv'
<1>1. UNCHANGED <<fileVars, compOp, value, current, position, canDo>> /\ compOp = "EQ"
  BY DEF ReturnEqual, cursor
<1>2. PICK v, cur, pos, go, ret2 : /\ v = value /\ cur = current /\ pos = position /\ go = canDo
                                   /\ ret2 = returned'
  OBVIOUS
<1>3. ScanGood("EQ", v, cur, pos, go, ret2)
  <2> SUFFICES ASSUME v \in Entered \ {0}
               PROVE  HereBy(cur, pos, v) /\ ToSet(ret2) \subseteq {RecordOf(v)}
    BY DEF ScanGood, EqualGood
  <2>1. HereBy(cur, pos, v)
    BY <1>1, <1>2 DEF ScanInv, ScanGood, EqualGood
  <2>2. /\ Last(pos) >= 0 /\ node[cur].k[Last(pos) + 1] = v
        /\ node[cur].n[Last(pos) + 1] = RecordOf(v)
    BY <2>1, ReadCursor
  <2>3. OnEntry /\ KeyAt = v /\ RecordAt = RecordOf(v)
    BY <1>2, <2>2 DEF OnEntry, KeyAt, RecordAt
  <2>4. ret2 = <<RecordOf(v)>>
    BY <1>2, <2>3 DEF ReturnEqual
  <2>5. ToSet(ret2) = {RecordOf(v)}
    BY <2>4 DEF ToSet
  <2> QED
    BY <2>1, <2>5
<1>4. ScanGood("EQ", v, cur, pos, go, ret2)'
  BY <1>1, <1>3, ScanGoodKept
<1> QED
  BY <1>1, <1>2, <1>4 DEF ScanInv

\* The constructor: nothing is answered, and no key before the cursor is wanted.
LEMMA OpenGood ==
  ASSUME IInv, KeysEntered, NEW c \in Ops, NEW v \in ScanValues, Open(c, v)
  PROVE  ScanInv'
<1>1. PICK R, h : TreeState(R, h)
  BY DEF IInv
<1>2. TreeView(R, h) /\ Entered \subseteq Int /\ v \in Int /\ NodeSizes
  BY <1>1, TreeViewOf, EnteredInts, IndexScanAssumption DEF IInv
<1>3. /\ UNCHANGED fileVars /\ compOp' = c /\ value' = v /\ canDo' = TRUE /\ returned' = <<>>
  BY DEF Open
<1>4. PICK cur, pos : cur = current' /\ pos = position'
  OBVIOUS
<1>5. PICK ret : ret = <<>>
  OBVIOUS
<1>6. ret \in Seq(Int) /\ Len(ret) = 0 /\ DOMAIN ret = {} /\ ToSet(ret) = {}
  BY <1>5 DEF ToSet
<1>7. AnsweredBy(c, v, ret)
  BY <1>6 DEF AnsweredBy
<1> SUFFICES ScanGood(c, v, cur, pos, TRUE, ret)
  <2>1. ScanGood(c, v, cur, pos, TRUE, ret) => ScanGood(c, v, cur, pos, TRUE, ret)'
    BY <1>3, ScanGoodKept
  <2> QED
    BY <1>3, <1>4, <1>5, <2>1 DEF ScanInv
<1>8. CASE Size(root) = 0
  <2>1. Entered = {} /\ pos = <<>>
    BY <1>1, <1>4, <1>8, EmptyTree DEF Open
  <2>2. WantedBy(c, v) = {}
    BY <2>1 DEF WantedBy
  <2>3. OrderGood(c, v, cur, pos, TRUE, ret)
    BY <1>6, <1>7, <2>1, <2>2, FS_EmptySet DEF OrderGood
  <2> QED
    BY <2>1, <2>3 DEF ScanGood, EqualGood
<1>9. ASSUME NEW u, HereBy(cur, pos, u), BeforeBy(c, v, u) = {}
      PROVE  OrderGood(c, v, cur, pos, TRUE, ret)
  <2>1. pos # <<>>
    BY <1>9, ReadCursor
  <2>2. Len(ret) = Cardinality(BeforeBy(c, v, u))
    BY <1>6, <1>9, FS_EmptySet
  <2> QED
    BY <1>6, <1>7, <1>9, <2>1, <2>2 DEF OrderGood
<1>10. CASE Size(root) # 0 /\ c \in {"NO", "NE"}
  <2>1. PICK p : p = FirstPath[root]
    OBVIOUS
  <2>2. cur = Last(p) /\ pos = ChildNumbers(p) \o <<0>>
    BY <1>4, <1>10, <2>1 DEF Open
  <2>3. PICK u : u = KeyOf(Len(pos), p, pos)
    OBVIOUS
  <2>4. /\ Cursor(Len(pos), p, pos) /\ cur = p[Len(pos)]
        /\ \A w \in Entered : ~(w < u)
    BY <1>1, <1>2, <1>10, <2>1, <2>2, <2>3, StartAtFirst
  <2>5. HereBy(cur, pos, u)
    BY <2>3, <2>4 DEF HereBy
  <2>6. BeforeBy(c, v, u) = {}
    BY <1>10, <2>4 DEF BeforeBy, WantedBy
  <2>7. OrderGood(c, v, cur, pos, TRUE, ret)
    BY <1>9, <2>5, <2>6
  <2> QED
    BY <1>10, <2>7 DEF ScanGood
<1>11. ASSUME Size(root) # 0, c \notin {"NO", "NE"}, NEW k \in Entered, k <= v
       PROVE  \E u : /\ HereBy(cur, pos, u) /\ u \in Int /\ u <= v
                     /\ \A w \in Entered : w <= v => w <= u
  <2>1. PICK p : p = ValuePath(v)
    OBVIOUS
  <2>2. cur = Last(p) /\ pos = ChildNumbers(p) \o <<Rank(node[Last(p)].k, v) - 1>>
    BY <1>4, <1>11, <2>1 DEF Open
  <2>3. PICK u : u = KeyOf(Len(pos), p, pos)
    OBVIOUS
  <2>4. /\ Cursor(Len(pos), p, pos) /\ cur = p[Len(pos)] /\ u <= v
        /\ \A w \in Entered : w <= v => w <= u
    <3>1. v \in Int /\ k <= v
      BY <1>2, <1>11
    <3>2. pos = ChildNumbers(p) \o <<Rank(node[Last(p)].k, v) - 1>>
      BY <2>2
    <3>3. BestBelow(p, pos, v)
      BY <1>1, <2>1, <3>1, <3>2, StartAtValue
    <3> QED
      BY <2>2, <2>3, <3>3 DEF BestBelow
  <2>5. HereBy(cur, pos, u)
    BY <2>3, <2>4 DEF HereBy
  <2>6. u \in Int
    BY <1>2, <2>5, ReadCursor
  <2> QED
    BY <2>4, <2>5, <2>6
<1>12. CASE Size(root) # 0 /\ c \notin {"NO", "NE"}
  <2>1. CASE c = "EQ"
    <3>1. ASSUME v \in Entered PROVE HereBy(cur, pos, v)
      <4>1. PICK u : /\ HereBy(cur, pos, u) /\ u \in Int /\ u <= v
                     /\ \A w \in Entered : w <= v => w <= u
        <5>1. v <= v
          BY <1>2
        <5> QED
          BY <1>11, <1>12, <3>1, <5>1
      <4>2. u = v
        BY <1>2, <3>1, <4>1
      <4> QED
        BY <4>1, <4>2
    <3>2. EqualGood(v, cur, pos, ret)
      BY <1>6, <3>1 DEF EqualGood
    <3> QED
      BY <2>1, <3>2 DEF ScanGood
  <2>2. CASE c # "EQ"
    <3> SUFFICES ASSUME ~FallsBy(c, v), c # "closed" PROVE OrderGood(c, v, cur, pos, TRUE, ret)
      BY <2>2 DEF ScanGood
    <3>1. PICK k \in Entered : k <= v
      BY <1>2, <1>12 DEF FallsBy
    <3>2. PICK u : /\ HereBy(cur, pos, u) /\ u \in Int /\ u <= v
                   /\ \A w \in Entered : w <= v => w <= u
      BY <1>11, <1>12, <3>1
    <3>3. BeforeBy(c, v, u) = {}
      <4> SUFFICES ASSUME NEW w \in BeforeBy(c, v, u) PROVE FALSE
        OBVIOUS
      <4>1. /\ w \in Entered /\ w \in Int /\ Satisfies(w, c, v)
            /\ IF c \in {"LT", "LE"} THEN w > u ELSE w < u
        BY <1>2 DEF BeforeBy, WantedBy
      <4>2. CASE c = "LT"
        <5>1. w < v /\ w > u
          BY <4>1, <4>2 DEF Satisfies
        <5> QED
          BY <1>2, <3>2, <4>1, <5>1
      <4>3. CASE c = "LE"
        <5>1. w <= v /\ w > u
          BY <4>1, <4>3 DEF Satisfies
        <5> QED
          BY <1>2, <3>2, <4>1, <5>1
      <4>4. CASE c = "GT"
        <5>1. w > v /\ w < u
          BY <4>1, <4>4 DEF Satisfies
        <5> QED
          BY <1>2, <3>2, <4>1, <5>1
      <4>5. CASE c = "GE"
        <5>1. w >= v /\ w < u
          BY <4>1, <4>5 DEF Satisfies
        <5> QED
          BY <1>2, <3>2, <4>1, <5>1
      <4> QED
        BY <1>12, <2>2, <4>2, <4>3, <4>4, <4>5 DEF Ops
    <3> QED
      BY <1>9, <3>2, <3>3
  <2> QED
    BY <2>1, <2>2
<1> QED
  BY <1>8, <1>10, <1>12

\* Without a scan there is nothing to show.
LEMMA ClosedScan == compOp = "closed" => ScanInv
BY DEF ScanInv, ScanGood

\* Every step keeps the invariant of the scan.
LEMMA ScanNext ==
  ASSUME IInv, KeysEntered, ScanInv, [AllNext]_allVars
  PROVE  ScanInv'
<1>1. CASE compOp' = "closed"
  BY <1>1 DEF ScanInv, ScanGood
<1>2. CASE \E c \in Ops, v \in ScanValues : Open(c, v)
  BY <1>2, OpenGood
<1>3. CASE Skip \/ Return
  BY <1>3, IterateGood
<1>4. CASE ReturnEqual
  BY <1>4, ReturnEqualGood
<1>5. CASE UNCHANGED allVars
  <2>1. /\ UNCHANGED fileVars /\ compOp' = compOp /\ value' = value /\ current' = current
        /\ position' = position /\ canDo' = canDo /\ returned' = returned
    BY <1>5 DEF allVars, scanVars, cursor
  <2>2. PICK c, v, cur, pos, go, ret :
          c = compOp /\ v = value /\ cur = current /\ pos = position /\ go = canDo /\ ret = returned
    OBVIOUS
  <2>3. ScanGood(c, v, cur, pos, go, ret)'
    BY <2>1, <2>2, ScanGoodKept DEF ScanInv
  <2> QED
    BY <2>1, <2>2, <2>3 DEF ScanInv
<1>6. CASE Close \/ Abandon
  BY <1>1, <1>6 DEF Close, Abandon, Closed
<1>7. CASE compOp = "closed" /\ UNCHANGED scanVars
  BY <1>1, <1>7 DEF scanVars
<1> QED
  BY <1>2, <1>3, <1>4, <1>5, <1>6, <1>7 DEF AllNext, ScanStep

-----------------------------------------------------------------------------
(* The theorems about the scan.                                             *)

\* The index begins without inner nodes.
LEMMA InitKeys == Init => KeysEntered
<1> SUFFICES ASSUME Init PROVE KeysEntered
  OBVIOUS
<1>1. Nodes = {1} /\ node[1].isLeaf
  BY DEF Init, Nodes, Leaf
<1>2. Nodes \ Leaves = {}
  BY <1>1 DEF Leaves
<1> QED
  BY <1>2 DEF KeysEntered

\* While all nodes are below the root, inner nodes have keys, and only keys of entries.
WholeKeys == BelowRoot = Nodes => KeysEntered

LEMMA KeysInvariant == FileSpec => [](FileInv /\ WholeInv /\ WholeKeys)
<1>1. FileInit => WholeKeys
  BY InitKeys DEF FileInit, WholeKeys
<1>2. IInv => EnteredAreEntries
  BY EntriesEntered
<1>3. (IInv => EnteredAreEntries)'
  BY EntriesEntered, PTL
<1>4. FileInv /\ WholeInv /\ WholeInv' /\ WholeKeys /\ [FileNext]_fileVars => WholeKeys'
  BY <1>2, <1>3, FileNextInv, InnerKeysInv DEF WholeInv, WholeKeys, StaysWhole
<1> QED
  BY <1>1, <1>4, WholeInvariant, PTL DEF FileSpec

\* A scan leaves the index as it is.
LEMMA AllIsFileStep == [AllNext]_allVars => [FileNext]_fileVars
BY DEF AllNext, ScanStep, Open, Skip, Return, ReturnEqual, Close, Abandon, Closed, allVars

LEMMA AllIsFile == AllSpec => FileSpec
<1>1. ScanInit => FileInit
  BY DEF ScanInit
<1> QED
  BY <1>1, AllIsFileStep, PTL DEF AllSpec, FileSpec

WholeScan == BelowRoot = Nodes => ScanInv

\* Over splits of every shape, and by every comparison, an index scan answers with the records
\* of the keys that match, each once and in order (IndexScan::next): climbing by the parent
\* links leads to the next leaf.  It is so in every index, however many nodes go to a page,
\* whose nodes are all below the root: one that was built in one opening of the file, or in
\* several, each of which found the last root.
THEOREM IndexScansExact == AllSpec => [](BelowRoot = Nodes => IndexScanExact)
<1>1. ScanInit => WholeScan
  BY ClosedScan DEF ScanInit, WholeScan
<1>2. FileInv /\ WholeInv /\ WholeKeys /\ WholeScan /\ [AllNext]_allVars => WholeScan'
  BY AllIsFileStep, FileNextInv, ScanNext DEF WholeInv, WholeKeys, WholeScan, StaysWhole
<1>3. WholeScan => (BelowRoot = Nodes => IndexScanExact)
  BY InvScanExact DEF WholeScan
<1> QED
  BY <1>1, <1>2, <1>3, AllIsFile, KeysInvariant, PTL DEF AllSpec

-----------------------------------------------------------------------------
(* The search in a node (NodeSearch), which BPlusTree takes as one step.    *)

\* The loop invariant: the keys below lo are too small, those from hi on too large.
LoopInv ==
  /\ SearchTypeOK
  /\ \A i \in 0 .. lo - 1 : keys[i] < sought
  /\ \A i \in hi .. size - 1 : sought < keys[i]
  /\ Increasing(keys)
  /\ PositionIsRank

\* The middle of the interval lies in it, so the code reads no key past the size.
LEMMA MiddleInside ==
  ASSUME NEW a \in Nat, NEW b \in Nat, a < b
  PROVE  /\ (a + b) \div 2 \in Nat
         /\ a <= (a + b) \div 2 /\ (a + b) \div 2 < b
BY SMT

\* The search starts with an empty range on either side.
LEMMA InitLoopInv == SearchInit => LoopInv
<1> SUFFICES ASSUME SearchInit PROVE LoopInv
  OBVIOUS
<1> USE NodeSearchAssumption DEF SearchInit
<1>1. SearchTypeOK
  BY DEF SearchTypeOK, NoAnswer
<1>2. Increasing(keys)
  OBVIOUS
<1> QED
  BY <1>1, <1>2 DEF LoopInv, PositionIsRank, NoAnswer

\* An iteration keeps the loop invariant.
LEMMA StepLoopInv == LoopInv /\ [SearchStep]_searchVars => LoopInv'
<1> SUFFICES ASSUME LoopInv, [SearchStep]_searchVars PROVE LoopInv'
  OBVIOUS
<1> USE NodeSearchAssumption DEF LoopInv, SearchTypeOK
<1>0. Running => mi \in 0 .. size - 1 /\ lo <= mi /\ mi < hi
  BY MiddleInside DEF Running, mi
<1>i. \A i \in 0 .. size - 1 : keys[i] \in Int
  BY DEF NodeSearchAssumption
<1>1. CASE Match
  <2>1. SearchTypeOK'
    BY <1>0, <1>1 DEF Match
  <2>2. PositionIsRank'
    BY <1>0, <1>1, <1>i DEF Match, PositionIsRank, Increasing, NoAnswer
  <2> QED
    BY <1>1, <2>1, <2>2 DEF Match, Increasing
<1>2. CASE GoRight
  <2>1. SearchTypeOK'
    BY <1>0, <1>2 DEF GoRight, Running
  <2>2. \A i \in 0 .. mi : keys[i] < sought
    BY <1>0, <1>2, <1>i DEF GoRight, Running, Increasing
  <2> QED
    BY <1>0, <1>2, <2>1, <2>2 DEF GoRight, Running, PositionIsRank, Increasing
<1>3. CASE GoLeft
  <2>1. SearchTypeOK'
    BY <1>0, <1>3 DEF GoLeft, Running
  <2>2. \A i \in mi .. size - 1 : sought < keys[i]
    BY <1>0, <1>3, <1>i DEF GoLeft, Running, Increasing
  <2> QED
    BY <1>0, <1>3, <2>1, <2>2 DEF GoLeft, Running, PositionIsRank, Increasing
<1>4. CASE Miss
  <2>1. SearchTypeOK'
    BY <1>4 DEF Miss, NoAnswer
  <2>2. result' = lo - 1 /\ hi = lo /\ lo \in Int /\ size \in Int
    BY <1>4 DEF Miss
  <2>3. \A i \in 0 .. lo - 1 : keys[i] <= sought
    BY <1>i
  <2>4. \A i \in (lo - 1) + 1 .. size - 1 : sought < keys[i]
    BY <2>2
  <2>5. PositionIsRank'
    BY <1>4, <2>2, <2>3, <2>4 DEF Miss, PositionIsRank
  <2> QED
    BY <1>4, <2>1, <2>5 DEF Miss, Increasing
<1>5. CASE UNCHANGED searchVars
  BY <1>5 DEF searchVars, PositionIsRank, Increasing
<1> QED
  BY <1>1, <1>2, <1>3, <1>4, <1>5 DEF SearchStep

\* getPosition returns the last position whose key is not greater than the value, for
\* every node size and every key.
THEOREM PositionIsRankAlways == SearchSpec => []PositionIsRank
<1>1. LoopInv => PositionIsRank
  BY DEF LoopInv
<1> QED
  BY InitLoopInv, StepLoopInv, <1>1, PTL DEF SearchSpec

\* The interval of the search never leaves the keys of the node.
THEOREM SearchTypeCorrect == SearchSpec => []SearchTypeOK
<1>1. LoopInv => SearchTypeOK
  BY DEF LoopInv
<1> QED
  BY InitLoopInv, StepLoopInv, <1>1, PTL DEF SearchSpec

\* The position that getPosition returns is one less than the Rank by which BPlusTree
\* descends and inserts: the binary search of NodeSearch implements that step.
THEOREM SearchFindsRank == SearchSpec => [](result # NoAnswer => Rank(keys, sought) = result + 1)
<1>1. ASSUME LoopInv, result # NoAnswer
      PROVE  Rank(keys, sought) = result + 1
  <2>1. size \in Nat /\ DOMAIN keys = 0 .. size - 1 /\ result \in -1 .. size - 1
    BY <1>1, NodeSearchAssumption DEF LoopInv, SearchTypeOK
  <2>2. \A i \in 0 .. size - 1 : keys[i] \in Int /\ sought \in Int
    BY <1>1, NodeSearchAssumption DEF LoopInv, SearchTypeOK
  <2>3. /\ \A i \in 0 .. result : keys[i] <= sought
        /\ \A i \in result + 1 .. size - 1 : sought < keys[i]
    BY <1>1 DEF LoopInv, PositionIsRank
  <2>4. ASSUME NEW i \in 0 .. size - 1
        PROVE  keys[i] <= sought <=> i \in 0 .. result
    <3>1. CASE i <= result
      BY <2>1, <2>3, <3>1
    <3>2. CASE i > result
      <4>1. sought < keys[i]
        BY <2>1, <2>3, <3>2
      <4> QED
        BY <2>1, <2>2, <3>2, <4>1
    <3> QED
      BY <2>1, <3>1, <3>2
  <2>5. {i \in DOMAIN keys : keys[i] <= sought} = 0 .. result
    <3>1. \A i \in 0 .. result : i \in 0 .. size - 1
      BY <2>1
    <3> QED
      BY <2>1, <2>4, <3>1
  <2>6. Cardinality(0 .. result) = result + 1
    <3>1. 0 \in Int /\ result \in Int
      BY <2>1
    <3>2. Cardinality(0 .. result) = IF 0 > result THEN 0 ELSE result - 0 + 1
      BY <3>1, FS_Interval
    <3> QED
      BY <2>1, <3>1, <3>2
  <2> QED
    BY <2>5, <2>6 DEF Rank
<1> QED
  BY InitLoopInv, StepLoopInv, <1>1, PTL DEF SearchSpec
=============================================================================
