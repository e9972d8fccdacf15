------------------------------ MODULE PagePool ------------------------------
(***************************************************************************)
(* How PageFS drives the page table and the LRU list together: loadPage,   *)
(* with the eviction of commitOnePage, the walks of commitAll over the     *)
(* list while it deletes from it and shifts the table under it, and        *)
(* forcePage, which walks the table while it reorders the list.            *)
(*                                                                         *)
(* A resident page has one LRU node, which the page names.  Frames'        *)
(* contents, dirty and pinned are in BufferPool: here any node may be the  *)
(* first that is not pinned.                                               *)
(***************************************************************************)
EXTENDS LRUHash, LRUList

CONSTANT AllFiles   \* -1, with which ~PageFS calls commitAll

\* The page names its node.
ASSUME PagePoolAssumption == AllFiles \notin FileIds /\ Nodes = Keys

VARIABLE op   \* the call that is executed, with its locals

pool == <<vars, list, op>>

Idle == op = [call |-> "none"]

\* "p->item->data": the page in the slot that node p points at.
OfFile(p, f) == f = AllFiles \/ table[item[p]][1] = f

PoolInit == Init /\ ListInit /\ Idle

-----------------------------------------------------------------------------
MovedBack(p) == MoveBack(p) \/ (p = tail /\ UNCHANGED list)

\* loadPage and forcePage of a page that is there.
LoadHit(k) ==
  /\ Idle
  /\ pc = "idle"
  /\ Hit(k)
  /\ MovedBack(table[Get(k)])
  /\ UNCHANGED <<vars, op>>

\* loadPage of a page that is not, with a slot for it ...
LoadMiss(k) ==
  /\ Idle
  /\ Add(k)
  /\ PushBack(k)
  /\ UNCHANGED op

\* ... or without: commitOnePage releases p first.
LoadEvict(k, p) ==
  /\ Idle
  /\ pc = "idle"
  /\ ~Hit(k)
  /\ total = MAX_BUFFER_SIZE
  /\ Delete(p)
  /\ BeginPop(p)
  /\ op' = [call |-> "loadPage", page |-> k]

LoadEvicted ==
  /\ op.call = "loadPage"
  /\ Add(op.page)
  /\ PushBack(op.page)
  /\ op' = [call |-> "none"]

\* commitAll, for closeFile and ~PageFS.
CommitAll(f) ==
  /\ Idle
  /\ pc = "idle"
  /\ op' = [call |-> "commitAll", file |-> f, p |-> head]
  /\ UNCHANGED <<vars, list>>

Committing == op.call = "commitAll" /\ pc = "idle"

\* Mutant of CommitNode: the successor of p is read when p is deleted.
CommitNodeFirst ==
  /\ Committing /\ op.p # Null
  /\ OfFile(op.p, op.file)
  /\ Delete(op.p)
  /\ BeginPop(op.p)
  /\ op' = [op EXCEPT !.p = next'[op.p]]

\* The walk meets a page of the file: its node is deleted and its slot emptied.
CommitNode ==
  /\ Committing /\ op.p # Null
  /\ OfFile(op.p, op.file)
  /\ Delete(op.p)
  /\ BeginPop(op.p)
  /\ op' = [op EXCEPT !.p = next[op.p]]

PassNode ==
  /\ Committing /\ op.p # Null
  /\ ~OfFile(op.p, op.file)
  /\ op' = [op EXCEPT !.p = next[op.p]]
  /\ UNCHANGED <<vars, list>>

CommittedAll ==
  /\ Committing /\ op.p = Null
  /\ op' = [call |-> "none"]
  /\ UNCHANGED <<vars, list>>

\* forcePage with ALL_PAGES, slot by slot.
ForceAll(f) ==
  /\ Idle
  /\ pc = "idle"
  /\ op' = [call |-> "forcePage", file |-> f, i |-> 0]
  /\ UNCHANGED <<vars, list>>

ForceSlot ==
  /\ op.call = "forcePage"
  /\ IF table[op.i] # Free /\ table[op.i][1] = op.file THEN MovedBack(table[op.i]) ELSE UNCHANGED list
  /\ op' = IF op.i = MAX_BUFFER_SIZE - 1 THEN [call |-> "none"] ELSE [op EXCEPT !.i = @ + 1]
  /\ UNCHANGED vars

\* The rest of a call that is begun.
Execute ==
  \/ (Shift /\ UNCHANGED <<list, op>>)
  \/ LoadEvicted
  \/ CommitNode \/ PassNode \/ CommittedAll
  \/ ForceSlot

PoolNext ==
  \/ Execute
  \/ \E k \in Keys : LoadHit(k) \/ LoadMiss(k) \/ \E p \in live : LoadEvict(k, p)
  \/ \E f \in FileIds : ForceAll(f)
  \/ \E f \in FileIds \cup {AllFiles} : CommitAll(f)

\* One thread: a call that is begun is executed.
PoolSpec == PoolInit /\ [][PoolNext]_pool /\ WF_pool(Execute)

-----------------------------------------------------------------------------
\* Every call returns: the loop of popByKey, the walks of commitAll and forcePage.
CallsReturn == ~(Idle /\ pc = "idle") ~> (Idle /\ pc = "idle")

\* The order of the pages as it will be when the call that is executed returns.
Kept ==
  CASE op.call = "commitAll" -> Without(Forward, {p \in Keys : op.file \in {AllFiles, p[1]}})
    [] op.call = "loadPage"  -> Append(Forward, op.page)
    [] OTHER                 -> Forward

Order == INSTANCE LRUOrder WITH Files <- FileIds, Capacity <- MAX_BUFFER_SIZE, order <- Kept

\* commitAll drops the pages of the file, all and no other, although it deletes the nodes
\* it walks over while popByKey moves other pages to other slots and tells their nodes; a
\* load makes a page the most recently used, and drops one other at most.
ImplementsLRUOrder == Order!Spec
=============================================================================
