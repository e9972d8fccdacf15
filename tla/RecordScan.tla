----------------------------- MODULE RecordScan -----------------------------
(***************************************************************************)
(* A FileScan (rm/filescan.cpp) over a record file, as the interpreter's   *)
(* DELETE, UPDATE and SELECT and the catalogs use it: next() is called     *)
(* until it returns no record, and between two calls the record just       *)
(* returned may be deleted or updated, and nothing else changes.  One      *)
(* iteration of the loop of next() is one action.                          *)
(*                                                                         *)
(* wanted and returned record what the scan should and did return; no      *)
(* operation reads them.                                                   *)
(***************************************************************************)
EXTENDS RecordFile

CONSTANT Matching  \* the records that meet the scan's condition

ASSUME RecordScanAssumption == Matching \subseteq Values

VARIABLES scanning,           \* a scan is open
          pageNum_, slotNum_, \* the next slot to look at
          current,            \* the record returned last, or NoRID
          wanted,             \* the matching records when the scan was opened
          returned

file     == <<firstEmptyPage, totalPageNum, nextPage, emptySlot, used, rec>>
cursor   == <<scanning, pageNum_, slotNum_, current>>
scanVars == <<file, cursor, wanted, returned>>

NoRID == <<-1, -1>>

ScanInit ==
  /\ Init
  /\ scanning = FALSE
  /\ pageNum_ = 1 /\ slotNum_ = 0
  /\ current = NoRID
  /\ wanted = {} /\ returned = {}

-----------------------------------------------------------------------------
AtCursor == <<pageNum_, slotNum_>>

MatchesAt(r) == rec[r] \in Matching

\* FileScan's constructor.  It copies totalPageNum with the rest of FileInfo; no page is
\* allocated while a scan is open.
OpenScan ==
  /\ ~scanning
  /\ scanning' = TRUE
  /\ pageNum_' = 1 /\ slotNum_' = 0
  /\ current' = NoRID
  /\ wanted' = {r \in RIDs : MatchesAt(r)}
  /\ returned' = {}
  /\ UNCHANGED file

\* Mutants of Advance: the rest of the page is skipped; the page is not advanced.
AdvancePage ==
  /\ slotNum_' = 0
  /\ pageNum_' = pageNum_ + 1

AdvanceInPage ==
  /\ slotNum_' = (slotNum_ + 1) % slotPerPage
  /\ pageNum_' = pageNum_

\* To the next slot, or to the first one of the next page.
Advance ==
  IF slotNum_ + 1 = slotPerPage
    THEN slotNum_' = 0 /\ pageNum_' = pageNum_ + 1
    ELSE slotNum_' = slotNum_ + 1 /\ pageNum_' = pageNum_

InFile == scanning /\ pageNum_ # totalPageNum

\* An iteration that meets a slot without a live record, or with one that does not match.
SkipSlot ==
  /\ InFile
  /\ ~MatchesAt(AtCursor)
  /\ Advance
  /\ current' = NoRID
  /\ UNCHANGED <<file, scanning, wanted, returned>>

\* Mutant of ReturnRecord: the cursor stays at the record.
ReturnStays ==
  /\ InFile
  /\ MatchesAt(AtCursor)
  /\ current' = AtCursor
  /\ returned' = returned \cup {AtCursor}
  /\ UNCHANGED <<file, scanning, pageNum_, slotNum_, wanted>>

\* An iteration that meets a match: next() returns it, the cursor already past it.
ReturnRecord ==
  /\ InFile
  /\ MatchesAt(AtCursor)
  /\ Advance
  /\ current' = AtCursor
  /\ returned' = returned \cup {AtCursor}
  /\ UNCHANGED <<file, scanning, wanted>>

\* next() returns no record, and its caller stops.
EndScan ==
  /\ scanning
  /\ pageNum_ = totalPageNum
  /\ scanning' = FALSE
  /\ current' = NoRID
  /\ pageNum_' = 1 /\ slotNum_' = 0
  /\ wanted' = {} /\ returned' = {}
  /\ UNCHANGED file

\* A caller meets an error in a condition and returns in the middle of its loop.
AbandonScan ==
  /\ current # NoRID
  /\ scanning' = FALSE
  /\ current' = NoRID
  /\ pageNum_' = 1 /\ slotNum_' = 0
  /\ wanted' = {} /\ returned' = {}
  /\ UNCHANGED file

\* What the callers do with the record returned last.
DeleteCurrent ==
  /\ current # NoRID
  /\ DeleteRec(current)
  /\ current' = NoRID
  /\ UNCHANGED <<scanning, pageNum_, slotNum_, wanted, returned>>

UpdateCurrent(v) ==
  /\ current # NoRID
  /\ UpdateRec(current, v)
  /\ current' = NoRID
  /\ UNCHANGED <<scanning, pageNum_, slotNum_, wanted, returned>>

\* Any change of the file while no scan is open.
BetweenScans == ~scanning /\ Next /\ UNCHANGED <<cursor, wanted, returned>>

ScanStep == SkipSlot \/ ReturnRecord \/ EndScan

ScanNext ==
  \/ OpenScan \/ ScanStep \/ BetweenScans
  \/ AbandonScan \/ DeleteCurrent \/ \E v \in Values : UpdateCurrent(v)

\* The callers' loops run next() until it returns no record.
ScanSpec == ScanInit /\ [][ScanNext]_scanVars /\ WF_scanVars(ScanStep)

-----------------------------------------------------------------------------
\* Type correctness; the slot read is one of a page of the file.
ScanTypeOK ==
  /\ scanning \in BOOLEAN
  /\ pageNum_ \in 1 .. totalPageNum
  /\ slotNum_ \in Slots
  /\ current \in RIDs \cup {NoRID}
  /\ wanted \subseteq RIDs
  /\ returned \subseteq RIDs

\* A scan that has ended has returned the records that matched when it was opened, whatever
\* was done to those it returned.
ScanComplete ==
  scanning /\ pageNum_ = totalPageNum => returned = wanted

\* No record is returned twice, not even one whose update makes it match again.
ReturnedOnce ==
  [][ReturnRecord => AtCursor \notin returned]_scanVars

\* Every scan ends: next() comes to the end of the file, however many slots it skips.
ScanEnds == scanning ~> ~scanning
=============================================================================
