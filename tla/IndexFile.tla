----------------------------- MODULE IndexFile ------------------------------
(***************************************************************************)
(* The index across statements.  Each INSERT opens the index file, enters  *)
(* its keys and closes it.  The nodes are records of the file and are      *)
(* marked dirty as they are written (commitNode); the root is kept in page *)
(* 0, behind the FileInfo of the record file, and is not (commitIndexInfo).*)
(* It reaches the file only if FileInfo was committed, which marks page 0  *)
(* dirty, before insertEntry ends with forcePages: that is, if a node it   *)
(* allocated began or filled a page.                                       *)
(***************************************************************************)
EXTENDS BPlusTree

CONSTANT NodesPerPage  \* slotPerPage of the index file: 92 for a Node of 88 bytes

ASSUME IndexFileAssumption == NodesPerPage \in Nat \ {0}

VARIABLES savedRoot,  \* the root in page 0 of the file
          page0Dirty

fileVars == <<vars, savedRoot, page0Dirty>>

\* createIndex: the root is set after its allocation began page 1, so it is saved.
FileInit == Init /\ savedRoot = root /\ page0Dirty = FALSE

\* Allocating the node with number x (from 1) commits FileInfo.
CommitsInfo(x) == x % NodesPerPage \in {0, 1 % NodesPerPage}

InMemory == UNCHANGED <<savedRoot, page0Dirty>>

FileSplit ==
  /\ SplitLeaf \/ SplitInner
  /\ page0Dirty' = (page0Dirty \/ \E x \in allocated + 1 .. allocated' : CommitsInfo(x))
  /\ UNCHANGED savedRoot

\* insertEntry ends with forcePages.
FileSettle ==
  /\ Settle
  /\ savedRoot' = IF page0Dirty THEN root ELSE savedRoot
  /\ page0Dirty' = FALSE

\* The statement ends, ~FileHandle drops the frames of the file, and the next statement
\* opens it.
Reopen ==
  /\ op = "idle"
  /\ root' = savedRoot
  /\ key' = AnyKey /\ record' = None /\ hot_' = NoNode
  /\ UNCHANGED <<node, allocated, op, savedRoot, page0Dirty>>

\* A step of a call.
FileWork ==
  \/ (Descend \/ Answer \/ InsertInLeaf) /\ InMemory
  \/ FileSplit \/ FileSettle

FileNext ==
  \/ (\E row \in Rows : Begin(row[1], row[2])) /\ InMemory
  \/ (\E k \in Keys : Begin(k, None)) /\ InMemory
  \/ FileWork \/ Reopen

\* A call, once begun, is carried out.
FileSpec == FileInit /\ [][FileNext]_fileVars /\ WF_fileVars(FileWork)

-----------------------------------------------------------------------------
\* A key that was entered is found: searchEntry answers "not find" (index.cpp:169), which
\* INSERT takes as the absence of a "primary key conflict" (interpreter.cpp:117), only if
\* no leaf has it.
EnteredKeysFound == SearchExact
=============================================================================
