----------------------------- MODULE NodeSearch -----------------------------
(***************************************************************************)
(* Node::getPosition (ix/index.cpp): the binary search for a key among     *)
(* the keys of a B+ tree node, which may stop early on an equal key.  One  *)
(* action is one iteration of its loop.  Keys are numbered from 0, as in   *)
(* the code.                                                               *)
(***************************************************************************)
EXTENDS Integers, FiniteSets

CONSTANTS MaxSize,  \* the keys a node has room for
          KeySet    \* keys, of nodes and searched for

ASSUME NodeSearchAssumption ==
  /\ MaxSize \in Nat
  /\ KeySet \subseteq Int

VARIABLES keys, size, sought,  \* the node's keys and the key searched for
          lo, hi,
          result           \* what getPosition returned, or NoAnswer

searchVars == <<keys, size, sought, lo, hi, result>>

NoAnswer == -2

Increasing(f) == \A i, j \in DOMAIN f : i < j => f[i] < f[j]

\* The keys of a node are in order and distinct: insertEntry adds no key twice.
SearchInit ==
  /\ size \in 0 .. MaxSize
  /\ keys \in {f \in [0 .. size - 1 -> KeySet] : Increasing(f)}
  /\ sought \in KeySet
  /\ lo = 0 /\ hi = size
  /\ result = NoAnswer

mi == (lo + hi) \div 2

Running == result = NoAnswer /\ lo < hi

\* Mutant of Match: the position before the equal key.
MatchBefore ==
  /\ Running
  /\ keys[mi] = sought
  /\ result' = mi - 1
  /\ UNCHANGED <<keys, size, sought, lo, hi>>

Match ==
  /\ Running
  /\ keys[mi] = sought
  /\ result' = mi
  /\ UNCHANGED <<keys, size, sought, lo, hi>>

\* Mutant of GoRight: the middle is kept.
GoRightStays ==
  /\ Running
  /\ keys[mi] < sought
  /\ lo' = mi
  /\ UNCHANGED <<keys, size, sought, hi, result>>

GoRight ==
  /\ Running
  /\ keys[mi] < sought
  /\ lo' = mi + 1
  /\ UNCHANGED <<keys, size, sought, hi, result>>

GoLeft ==
  /\ Running
  /\ keys[mi] > sought
  /\ hi' = mi
  /\ UNCHANGED <<keys, size, sought, lo, result>>

\* The loop ends without a match.
Miss ==
  /\ result = NoAnswer
  /\ lo >= hi
  /\ result' = lo - 1
  /\ UNCHANGED <<keys, size, sought, lo, hi>>

SearchStep == Match \/ GoRight \/ GoLeft \/ Miss

SearchSpec == SearchInit /\ [][SearchStep]_searchVars /\ WF_searchVars(SearchStep)

-----------------------------------------------------------------------------
\* Type correctness; the bounds of the interval searched stay within the keys.
SearchTypeOK ==
  /\ size \in 0 .. MaxSize
  /\ keys \in [0 .. size - 1 -> KeySet]
  /\ sought \in KeySet
  /\ lo \in 0 .. size /\ hi \in 0 .. size /\ lo <= hi
  /\ result \in {NoAnswer} \cup (-1 .. size - 1)

\* Searching descends to child position + 1 and inserts at position + 1 because the
\* position returned is that of the last key not greater than the value: -1 if there is
\* none, and whether or not the value is a key itself.
PositionIsRank ==
  result # NoAnswer =>
    /\ \A i \in 0 .. result : keys[i] <= sought
    /\ \A i \in result + 1 .. size - 1 : sought < keys[i]

\* The search answers, whatever the keys: no interval is searched twice.
Answers == <>(result # NoAnswer)
=============================================================================
