# SQLeast in TLA+

TLA+ modules, TLC configurations and TLAPS proofs about SQLeast, a small relational
database in C++ (`src/`). The program is one process with one thread: it reads SQL from a
terminal, executes a statement, and reads the next. What is hard about it is not
interleaving of threads but long sequences of calls on hand-made data structures that hold
each other up, pointers into a buffer pool whose pages may be evicted, and files that must
agree with each other after every statement.

To run things, in this directory: `tlc -config X.cfg M` for a run of the table below,
`tlapm M.tla` for a module of proofs.

## 1. The system

Layers, each using the one before it.

| part | state | operations | interacts by |
|---|---|---|---|
| **page table** `pagefs::LRUHash` | 64 slots of an open addressing table, `total` | `add`, `get`, `popByKey` (backward shift) | the slot number kept in each LRU node |
| **LRU list** `pagefs::LRUList` | doubly linked nodes | `push_back`, `move_back`, `remove` | nodes point at slots |
| **buffer pool** `pagefs::PageFS` | frames: data, dirty, pinned; the FILE streams | `loadPage`, `markDirty`, `unpinPage`, `forcePage`, `closeFile`, eviction (`commitOnePage`) | hands raw pointers to its clients |
| **file entries** `PageFS` | file name, stream, by number | `createFile`, `openFile`, `destroyFile` | relative names: depends on the working directory |
| **record file** `rm::FileHandle`, `RecordManager` | `FileInfo` in page 0 and in the handle; page headers, bitmaps, records | `insertRec`, `declareRec`, `updateRec`, `deleteRec`, `getRec` | loads, dirties and unpins pages |
| **file scan** `rm::FileScan` | cursor, copy of `FileInfo` | `next` | its caller deletes and updates between calls |
| **index** `ix::Index`, `Node` | a B+ tree of nodes in the records of a record file; the root in page 0 | `searchEntry`, `insertEntry`, `removeEntry` (never called) | one index per table, for the primary key |
| **index scan** `ix::IndexScan` | position at each level of the tree | `next` | climbs by the nodes' parent links; no code creates one |
| **catalogs** `sm::DBHandle` | rows of `rel.catalog`, `attr.catalog` | `createTable`, `dropTable`, `findTable`, `loadRelAttrInfo` | record files and scans |
| **databases** `sm::SystemManager` | working directory, `working_` | `createDB`, `useDB`, `destroyDB` | `chdir` under the open files |
| **interpreter** `ql/interpreter.cpp` | condition tables, per statement; joined records | INSERT, DELETE, UPDATE, SELECT, joins | everything above |
| **front end** `frontend/` | buffer and start condition of the scanner; node and string pools, reset per statement | read, parse, execute | calls the interpreter |

What makes each part correct:

- page table: a page that is resident is found from its hash, whatever was deleted before;
  the slot number in its LRU node is where it is.
- LRU list: the links in both directions describe the same sequence, the order of use.
- buffer pool: what a client wrote and marked is what any later load returns; a page whose
  pointer is in use stays.
- record file: bitmap, header count, free list and alive flag agree on every slot; the free
  list finds all free slots; a file grows only when it must.
- file scan: each matching record exactly once, under deletions and updates by the caller.
- index: a search tree with correct parent links at each call of `solveOverFlow`; a map
  from keys to records; the map survives closing the file.
- index scan: the entries that satisfy the comparison, in the order of the keys, and an end.
- joins: the rows of the product of the tables that satisfy the WHERE, whatever the order, as
  far as the indexes used are current.
- front end: what is executed is what was typed, also after a mistake; a node is what the
  interpreter, which does not look, takes it to be.
- catalogs, databases, statements: a table's rows, catalog rows and index agree; a
  statement takes effect as a whole or is refused, for a reason, and changes nothing; a name
  refers to the file of the current database.

`PROJECT.json` lists each component with what is modelled of it, and the hazards with the
line where each bites.

## 2. Modules

| module | models | uses, implements |
|---|---|---|
| `PageTable`, `LRUOrder` | what the pool promises: a bounded set of pages; an order of use | |
| `Lists` | a sequence without some of its elements: nodes that are unlinked, records a scan passes over | |
| `LRUHash` | the open addressing table, one action per iteration of the deletion loop | implements `PageTable` |
| `LRUList` | the pointers of the list | |
| `PagePool` | `loadPage`, `commitOnePage`, `commitAll`, `forcePage` on both | extends `LRUHash`, `LRUList`; implements `PageTable`, `LRUOrder` |
| `BufferPool` | `PageFS`: contents, dirty and pinned flags, the disk | over what `PagePool` implements |
| `HeapFile` | a store of records by RID, and how many each page holds | |
| `RecordFile` | bitmaps, counts, free list, records | implements `HeapFile` |
| `RecordScan` | a scan of a record file and its caller | extends `RecordFile` |
| `NodeSearch` | the binary search in a node | |
| `IndexMap` | a map of keys in which an entry stays | |
| `BPlusTree` | `searchEntry`, `insertEntry`, `solveOverFlow` | implements `IndexMap` |
| `IndexFile` | page 0 of the index and the closing of the file | extends `BPlusTree` |
| `IndexScan` | iteration over the tree | extends `IndexFile` |
| `AtomicTable` | a table on which statements are executed at once, or refused | |
| `Table` | INSERT, DELETE, UPDATE, SELECT on one table with a primary key, over what `HeapFile`, `RecordScan`, `IndexMap` promise | implements `AtomicTable` |
| `Joins` | the order of the conditions, and the recursion over them, on tables and the indexes that other statements left them | |
| `Databases` | databases of tables of rows | |
| `Session` | directories, catalogs, table files, streams | implements `Databases` |
| `ParseTree` | the grammar, and the nodes its actions make | |
| `Frontend` | the scanner, the parser, the node pool, the loop around them | extends `ParseTree` |
| `*Proofs` | theorems about the module named (`PagePoolProofs` about `LRUHash` and `LRUList` too, `RecordFileProofs` about `RecordScan`, `BPlusTreeProofs` about `NodeSearch`, `IndexFile` and `IndexScan`); `InterpreterProofs` about `Table` and `Joins`; `ListsProofs` has the lemmas about lists they share | |
| `MC*` | constants for TLC | |

### How they correspond to the code

**LRUHash.** `table` are the slots, `total` the counter. `popByKey` is `BeginPop` and one of
`ShiftStop`, `ShiftSkip`, `ShiftMove` for each iteration of its loop, with its local
variables `i` (the hole) and `j`. `item` maps a page to the slot its LRU node points at, which
pagefs.cpp:295 repairs. The hash is that of the code, a stride for the file plus the page
number.

**LRUList.** Each node's two links are functions; the operations are their assignments,
reading what the code reads at that moment.

**PagePool.** A page that is resident names its LRU node. `loadPage` is `LoadHit`, `LoadMiss`,
or `LoadEvict`, the iterations of `popByKey`, and `LoadEvicted`. `commitAll` goes over the
list node by node (`CommitNode`, `PassNode`) with the successor saved before the deletion,
and each deletion shifts the table; `forcePage` with `ALL_PAGES` goes over the slots
(`ForceSlot`) and moves nodes in the list. Which node is pinned is `BufferPool`'s matter: here
any may be the victim.

**BufferPool.** `resident`, `lru`, `data`, `dirty`, `pinned` are the pool, `disk` the
streams. `loadPage` is `LoadHit`, `LoadMiss` or `LoadEvict`; the last includes
`commitOnePage`, with the choice of the victim. `NoBufError` is `LoadEvict` disabled: nothing
has changed when it is thrown. `forcePage(f, ALL_PAGES)` goes through the table by slot,
which is no order of pages, so the order in which it moves frames back is arbitrary.
`held`, `unmarked` and `latest` are history variables about the clients.

**RecordFile.** A handle's operations, one step each. The bits past `slotPerPage` in the
last byte of a bitmap are set when a page is made and never cleared, so `Slots` stops at
`slotPerPage - 1`. `StopsAt` is the walk of `allocateRec` along `nextPage`. A page is pushed
on the free list when a deletion finds it full, unlinked when an insertion fills it and it
is the first.

**RecordScan.** One action per iteration of `next()`. The cursor belongs to the FileScan object
and is gone with it. `current` is the record the caller
holds; it may delete it, update it, or return in the middle of its loop
(interpreter.cpp:274). No statement inserts, or changes another record, while a scan of the
file is open, so other changes happen between scans.

**NodeSearch, BPlusTree.** The nodes' arrays are sequences; `n` has the records in a leaf,
the children in an inner node. `hot_` follows `searchEntry` node by node, then names the
node `solveOverFlow` is called for. A split is one action: the new node, the moved children's
parent links, the new root if there is one, the separator in the parent. The position in a
node is `Rank`, by what `NodeSearch` proves of `getPosition`. A node allocated by
`declareRec` is zeroed; its parent (0, 0) and the first root's (-1, -1) are both `NoNode`,
as no code tells them apart.

**IndexFile.** `FileSettle` is the `forcePages` at the end of `insertEntry`: page 0 is written
if it is dirty, which it is if a `declareRec` committed `FileInfo` since the last time.
`Reopen` is the end of the statement (`~FileHandle` drops the frames) and the next `Index`
constructor, which reads the root from page 0.

**IndexScan.** `position` is the code's vector: the number of the child taken at each level,
and of the entry in the leaf. The constructor's search, `toLeft`, `toRight`, and the loops of
`next()` are actions, a level or an iteration each. What a read before the first entry of a
node gives is `Garbage`. The client asks until there is no answer.

**Table.** `Begin` is the head of an `execute...` function: the conditions table and the
opening of files and scan. `Accept`, `RejectTuple`, `Conflict` are an iteration of INSERT's
first loop, `InsertTuple` one of the second; `SkipRow`, `FailRow`, `ActOnRow` are an iteration
of the loops of DELETE, UPDATE and SELECT. The condition with the first constant is the
scan's (`first`), the others follow in order (`rest`); a condition is the set of rows it holds of,
or one whose evaluation returns from the function. `insertRec` takes any free identifier, which
is more than `RecordFile` allows. The index is a map: its loss of a root (`IndexFile`) is not
repeated here. The model does what the code does where that is no promise to anyone: a NULL in
a NOT NULL column is reported and inserted all the same (the `return` after the message is
missing); a deleted key stays refused, as `removeEntry` is commented out in DELETE; two tuples
of one INSERT do not see each other, because the first loop asks the index and the second
changes it; UPDATE of the key column leaves the index as it is. For `AtomicTable`, which has no loops, a
statement happens in the step in which it ends: until then the rows are those the
statement found (`before`), and the keys that are known those of the entries less the ones
of the tuples inserted so far (`KnownKeys`).

**Joins.** `OrderFrom` is `decideJoinOrder`: the last condition that is not of a table with
itself is scanned with, and each further one shares a table with the one before it. A level of `recursiveJoin`
is a frame on a stack with the records its scan has still to return: it scans the table a
condition adds, through the index where the code does, or compares two tables that are
joined. A table is its slots, dead ones included, and its index. An equality on an indexed column
takes the slot `searchEntry` gives (`Entry`) and joins what `getRec` reads there, which asks
neither whether the record is alive nor whether it has the key (interpreter.cpp:1005-1011, 1039-1045;
filehandle.cpp:29). As DELETE and UPDATE of a key leave the index as it is, and an opening may have
lost its root, that may be a deleted or a changed record, another record in a reused slot, or
none although there is one. `Admitted` are the combinations with what the indexes give,
`Wanted` the answer in SQL; they are the same if the indexes are `Current` and the query
`Oriented`: where a condition is used from its right side its comparison is not mirrored
(interpreter.cpp:1035). A null pointer followed and
`conds[-1]` read are the state `"undefined"`,
where nothing more is said.

**Session.** `content` are the files in each directory, `stream` what `PageFS` has under a
relative name: once opened it is never released, and stands for the name in whatever
directory the process is. A file removed under its stream lives on in `Removed`. `Made` is
`createFile`: `fopen(.., "w")` in the working directory, then the header through the
stream, which need not be the same file. One action is one statement; pages of the pool are on
disk at its end because `~FileHandle` writes them.

**ParseTree, Frontend.** A production is predicted from the next token, and actions of the
grammar are run in the order in which the generated parser reduces; the tables of the LR
automaton are replaced by the productions they stand for. A token is a whole;
`Refill`, `Skip` and `Yylex` are the scanner in each start condition, `Predict`, `Shift`,
`MakeNode` and `PlainAction` the parser, `Interp` what executes the tree. After a
syntax error the rest of the read is dropped (a line of a terminal, 8 KB of a file)
but the start condition stays, so after a mistake at `!` the next line is run by the
shell (lexerhelp.cpp:75). A string that is not closed takes the rest of its line, and the
statement goes on. EXIT ends the loop even if its `;` is missing. A
statement that needs more nodes than `MAXNODE` ends the process. A node is a kind and its
fields, so that a field may hold anything at all: in the code it is a union. What the interpreter
reads where is `Follows`.

## 3. Runs

| run | module | shows | bounds | states |
|---|---|---|---|---|
| `page_pool` | `MCPagePool` | at every iteration of a deletion the table and the nodes agree and probing finds every page; `commitAll`, which deletes the nodes it walks over, drops all pages of the file and no other; links implement the order of use; calls return | 4 slots, 8 pages of two files whose hashes collide in pairs and wrap around; the table gets full, with nodes that are no ends of the list | 133 430 |
| `buffer_pool` | `BufferPool` | no marked update is lost; clean frames equal the file; pinned frames are not evicted | 2 frames, 2 files, 4 pages: every load of a third page evicts | 177 712 |
| `buffer_pool_held` | `BufferPool` | **violation**: a page loaded while resident is not pinned | the same | |
| `record_scan` | `RecordScan` | the four structures agree; the free list is exact; a scan returns each match once, and ends | 3 pages of 2 slots: a page full, partly full and empty in any order of the list; matching and other values | 267 688 |
| `node_search` | `NodeSearch` | the position returned | all nodes of 0 to 5 keys from 7 (5 is the most a node searched by the code has) | 2 898 |
| `index_file_pages` | `MCIndexScan` | shape, separators, sizes, map; scans by all seven comparisons are exact and end; were page 0 marked by every allocation, reopening would lose nothing | branching 2, 7 keys in every order: three levels, splits of inner nodes that are not the root; 2 nodes per page; scans with values before, between, on and behind the keys, on each tree | 117 618 |
| `index_file` | `MCIndexFile` | **violation**: the new root is not saved | the code's constants (branching 4, 92 nodes per page), 5 keys | |
| `table` | `MCTable` | a statement takes effect at once, or there is a reason to refuse it and it changes nothing; one that is not refused did what it says; keys are unique under careful statements, with stale entries and reused slots; statements end | 3 records, 3 keys and values, NULLs; one or two tuples; one to three conditions | 44 192 |
| `joins` | `MCJoins` | a query that starts from its only constant and names all its tables prints, once each, the combinations its plan admits, given what the indexes hold; those are the answer if the indexes are current and no `<` is used from its right side; every query ends | all queries of up to 3 conditions on 2 or 3 tables of up to 4 slots, one of them empty, one with an index: current; with a deleted key; with a reused slot and a key set by UPDATE; with a root lost | 147 509 |
| `session` | `Session` | a careful process: no null stream, all files of the working directory, the rows on disk are what the statements say | 2 databases, a table, 2 rows; any number of restarts, drops and re-creations | 40 687 |
| `session_target` | `Session` | **violation**: a second database, or one that is not there | the same, with 1 row | |
| `frontend` | `MCFrontend` | exactly what was typed is executed, with its lists in order; each node of the pool, those of a statement with a mistake too, can be read as the interpreter reads it; the loop ends with the input | 22 statements of all kinds and 16 pieces that change how the rest is read, in all pairs in one read or two, and in many triples; a pool of 13 nodes, which one statement exceeds | 162 375 |

Deadlock is checked in all runs but `node_search`, where a search that has answered stops, and
`frontend`, where the process ends.

Bounds in guards: `MAX_PAGES` (RecordFile) and `MAX_NODES` (BPlusTree) stop allocation, and
`MAX_RID` (Table) an INSERT whose tuples would not fit. In
the runs of the index `MAX_NODES` is more than the keys can need, so the guard never bites:
`CallEnds` and the deadlock check would fail if it did. Record files have no limit in the
code; three pages are enough for a page to be first, in the middle and last in the free list.
`MAXNODE` (Frontend) is the code's own limit, made small enough to be met.

Each property of a passing run has a mutant in `PROJECT.json`: a plausible mistake in one
action (the operator stands before the definition it replaces) under which TLC finds the
property violated.

### What the runs assume of the user

- `table`: no INSERT repeats a key and no UPDATE sets one.
- `session`: `Careful` is TRUE, that is, a process uses one database only (it may name others to
  drop them, and may be started again for another one), does not USE one that does not exist
  while it has one open, and declares no primary key that is no column of its table. Without the first two
  `session_target` finds the violation; without the last an INSERT opens an index that was
  never made.
- `joins`: `JoinExact` speaks of queries whose plan starts from their only constant and names all
  tables of the FROM (`Supported`). Others end too, in `"undefined"` or otherwise (`JoinEnds`).
  Nothing is assumed of the indexes or of the keys for what is printed; that it is the answer in SQL is
  said for `Current` indexes only, that is, if no statement before has deleted a row or set a
  key of the table, and no root was lost (five keys are enough for that, see `index_file`).

### Fairness

All modules assume weak fairness of the steps of what is begun: the iterations of
the deletion loop and of the walks of `commitAll` and `forcePage` (`PagePool`), of the search loop
(`NodeSearch`), of `next()` (`RecordScan`, `IndexScan`), the steps of a call (`BPlusTree`,
`IndexFile`), of a statement's loops (`Table`), of the recursion (`Joins`). All of
these are loops and calls of a single thread that nothing interrupts: once begun they
run. Nothing is assumed about which operation is called next, or that any is. In `Frontend`
weak fairness of `Next` also says that the reads return: the inputs there are finite, and a terminal that is
closed or a file that is read through answers with its end. `Session` and `BufferPool` assume nothing.

### What the violations say

- **`buffer_pool_held`.** `loadPage` pins a page that was not in the pool, and only moves to
  the back one that was. A comment at pagefs.cpp:124 calls loaded pages "automatically
  pinned". TLC's trace is: load, unpin, load again, two loads of other pages. The caller of
  the second load writes through a dangling pointer. `FileHandle::allocateRec`
  (filehandle.cpp:61-84) keeps a pointer over two other loads.
- **`index_file`.** Five keys in one INSERT split the first leaf. `setRoot` puts the new root
  in page 0's frame, which is not dirty, so closing the index drops it: the file still names
  the old root, now the left half. The next statement does not find the keys of the right
  half and accepts rows with the same primary key.
- **`session_target`.** `openFile` finds `rel.catalog` under its relative name and returns the
  stream of the first database the process used. CREATE DATABASE of a second one writes the
  header of its catalog through that stream, and empties the first one's. USE of a database
  that does not exist leaves the old handle open in the parent directory, where
  CREATE TABLE then makes its files.

## 4. Proofs

TLAPS proves, for every value of the constants that satisfies the modules' ASSUMEs:

| module | theorems |
|---|---|
| `PagePoolProofs` | of the table: `TypeCorrect`, `NoPageCutOffAlways`, `ItemsMatchTableAlways`, `LookupExactAlways`, `Refinement`; of the calls: `PoolItemsMatchTable`, `PoolNoPageCutOff`, `PoolLookupExact`, `PoolNodesAreResident`, `PoolRefinement`; of the list: `PoolWalkMeetsEveryNode`, `OrderRefinement` |
| `BufferPoolProofs` | `MarkedUpdatesSurviveAlways`, `CleanFramesMatchDiskAlways`, `PoolTypeCorrect`, `ListMatchesTableAlways`, `LoadSparesPinnedAlways` |
| `RecordFileProofs` | `TypeCorrect`, `FreeListExactAlways`, `BitmapMatchesAliveAlways`, `EmptySlotCountsAlways`, `GrowsOnlyWhenFullAlways`, `Refinement`; of the scan: `ScanCompleteAlways`, `ReturnedOnceAlways`, `ScanTypeCorrect` |
| `BPlusTreeProofs` | `TreeInvariant`, `SearchesExact`, `SeparatorsKept`, `ShapeKept`, `NodesFilled`, `IndexIsMap`; across statements: `FileSearchesExact`, `FileEntriesKept`, `FirstRootKept`, `WholeTreeKept`; of scans: `IndexScansExact`; of the search in a node: `PositionIsRankAlways`, `SearchTypeCorrect`, `SearchFindsRank` |
| `InterpreterProofs` | of one table: `TypeCorrect`, `StatementExactAlways`, `ErrorChangesNothingAlways`, `KeysUniqueAlways`, `StatementsAtomicAlways`; of joins: `JoinsExact` |
| `SessionProofs` | `NeverStuckAlways`, `OpenFilesAreCurrentAlways`, `Refinement` |
| `FrontendProofs` | `TreesAsReadAlways` |

**LRUHash.** The invariant `HashInv` says that a page and its node name each other, and that a
page with a free slot between its hash and its slot is cut off by the hole of the deletion in
progress alone and lies ahead of `j`. Each step of the argument is about one probe, so that after
the hash function is known to return a slot only comparisons of slots are left. That the size
is a power of two, which a comment in pagefs.h asks for, is not needed.

**PagePool.** The calls of `PageFS` pass nodes of the list to `remove` and `popByKey`, so the
nodes of the list must be those of the pages in the table (`PoolNodesAreResident`). With this
each step is a step of `LRUHash` or leaves the table alone, and `HashInv` carries over.

**LRUList.** The links are a list because some sequence of the live nodes exists that they spell
(`Spells`): each node once, `next` and `prev` those of its neighbours, `head` and `tail` its
ends. Each operation turns that sequence into another (`PushBackSpells`, `DeleteSpells`,
`MoveBackSpells`), and both walks read it off (`SpelledWalks`), so there is no induction
over a walk of its own. For the order of use, `Progress` says that
no node before the one `commitAll` is at is of the file any more. `PagePool` assumes that a node is named by the page
it is made for (`Nodes = Keys`); a node has no other identity in the code than its page.

**BufferPool.** A frame that is neither dirty nor unmarked equals the disk, and `latest` is
what a load would show. Each is needed for the other: eviction of a clean frame keeps what
a load shows only because the frame equals the disk. That the list has each resident page
once (`PoolList`) is an invariant of its own, and makes the victim a resident page.

**RecordFile.** `BitmapMatchesAlive`, `EmptySlotCounts` and `FreeListExact` are inductive
only together. As the list holds exactly the pages with room, `allocateRec` stops at its first
page; as it stops there, a page that becomes full is the first of the list, the only one the
code can unlink. The free list is an existentially quantified sequence of pages; pushing and
popping give the witness for the next state.

**RecordScan.** Behind the cursor, returned and wanted agree; from the cursor on nothing has
been returned and records are as they were. Changes of the record held happen behind the
cursor. The proof uses the invariant of `RecordFile` for the end of the file: no record lives
on a page that is not allocated.

**NodeSearch.** The loop invariant of binary search. `SearchFindsRank` ties it to the tree: what the
loop answers is one less than the `Rank` by which `BPlusTree` descends and inserts in one step.

**BPlusTree.** The properties TLC checks go down from nodes to what is below them, which is no
shape for induction over splits. The invariant (`IInv`) goes up: to each node belong a range,
the set of keys with which `searchEntry` comes to it (all integers for the root; for the `i`th child
those of its parent's range that have rank `i - 1` among the parent's keys), and a height. Nodes of one
height have ranges apart; a node has keys of its range, children one below it that
name it as their parent, and half its capacity at least. That such ranges and heights exist is inductive:
`SplitTree` and `GrowTree` give those of the next state, which cut the range of the
node that is split at the separator and leave all others. As `solveOverFlow` divides a node
before its parent has the separator, the invariant also says what holds between the calls of
one insertion: one node may be over full, and only `hot_` may. The properties follow by the least
counterexample on heights; the recursive functions in them (CHOOSE) are shown to exist by a
witness built from the ranges. `IInv` was model-checked before it was proved (branching 2, all
orders of 7 keys).

**IndexFile.** A statement that reopens the index starts from the root in page 0, which need not be the last
one. The theorems hold for any number of nodes to a page, the code's 92 included, and assume
nothing about the roots that are lost. The nodes below any node of a tree are a tree
(`TreeBelow`), whose ranges are what searches from it come to. So some of the nodes are always a
tree that has the saved root among them (`FileInv`); it is what is below the root
(`BelowRoot`). `FileSearchesExact`: a search comes to the only leaf below the root that may have the key.
`FileEntriesKept`: an insertion adds its entry to those below the root and loses none, splits move
them, an opening may lose entries but makes none, and no entry ever leaves the file. `FirstRootKept` is the
defect that `index_file` finds, for every page size: until the first page of nodes is full
every opening starts from the first leaf. `WholeTreeKept`: as long as no root was lost (`BelowRoot = Nodes`;
trees of many leaves within one statement, or saved by a later allocation of a page, are such) the properties that TLC checks hold
of the file. The run `index_file_pages` has two nodes per page, which is not the code's
92: it is there to reopen trees of three levels that kept their root. What happens with 92 is
`index_file`.

**IndexScan.** A cursor is a way down (`Way`, `Cursor`): the nodes from the root to a leaf and the number
of the child or entry taken at each; `At`, which climbs by the parent links, gives those nodes
back (`AtIs`). A key other than the cursor's leaves this way at some level, and there its number
compares with the cursor's as the keys do (`KeyPlace`). So when `toRight` or `toLeft` takes the
neighbour at the lowest level that has one, and the nearest path below it, no key lies between
the old cursor and the new (`NeighbourKeys`), and when no level has one no key is left (`NoKeyAhead`). That
`toStart2` finds the greatest key that is not greater than the value, if there is one
(`StartAtValue`), needs one thing the invariant of the tree does not say: the keys of inner nodes are keys of
entries (`KeysEntered`), or the leaf the search ends in could have none below the value while its
left neighbour has. The invariant of the scan (`ScanGood`) counts: there are as many answers as
keys that match before the cursor. `IndexScansExact` speaks of all states in which the nodes are those
below the root, by `WholeTreeKept`: a scan cannot return the entries of a root that was lost.

**Table.** In each loop `pos` is a boundary: tuples before it are in, records before it are
changed, the rest is as before. An error changes nothing because a condition that is bad for
one row lets no row pass. `KeysUniqueAlways` assumes that no INSERT repeats a key and no UPDATE
sets one. Its invariant is that the entry of each row's key
is that row, and that the tuples validated and not yet inserted have no entry.
`StatementsAtomicAlways` is the refinement of `AtomicTable`: every step of a loop is a stutter but the
one that ends the statement. Its invariant says what the loops have found out when they are at
`pos` (`FoundOut`): a statement that comes to its end well has met no tuple and no row that would have been
a reason to refuse it, and the one that stops it is such a reason. The rows it finds are those of
`before`, although the loop changes them as it goes, because the records it comes to are
untouched. For INSERT the mapping to `AtomicTable` needs the record each tuple went to: no record gets two,
and the keys that become known are those of the tuples.

**Session.** The theorems assume `Careful`. That no statement meets a null stream takes that all
streams of the process are of one directory, that this is the working directory while a database
is open, and that each table a catalog on disk names has its files. The statements on tables are
treated alike: each turns the directory of the database into another one that is complete
(`Writes`), and what they do to the rows is read off it. A database on disk is what a process that
starts now reads, so a restart is no step of `Databases` but the loss of the current database.

**Joins.** The recursion is a depth first walk over combinations of records, and the invariant
(`JoinInv`) describes it by its stack. Each frame scans the one table its condition adds, or none if
its tables are joined already; a table is joined in a call exactly if a frame scans it
(`Control`). The conditions taken admit every combination that agrees with the records joined, and
those the frames have left to come to; an admitted one was printed or is still to come, never
both (`Answers`). So at the bottom of the recursion exactly one combination agrees, all conditions
admit it, and no frame comes to it again. That a condition finds one of its tables joined comes from the plan
alone: `decideJoinOrder` takes no condition twice, and each shares a table with the one before
(`OrderIs`, about the recursive function `OrderFrom`, by the least counterexample). An index is
taken at its word in the invariant: what it gives for a key is what is left to come to
(`LeftIs`, `Reached`). That the answer is the one SQL asks for comes at the end, from
`Current` and `Oriented`. `JoinInv` was model-checked on the instance of `joins` before it was proved.

**Frontend.** The parser's stack holds values without types, and an action takes as many from
its top as it has arguments. The proof gives them types. Each symbol of the grammar takes values
of certain types from the top and leaves one there (`Effect`; `more_values`, say, a
VALUE, for which it leaves a list of values), and each production does in all what the symbol does that
it is taken for (`ProductionsMake`). So the symbols still to come always turn
the types of the values there are into those of a statement (`Derives`: the stacks in between exist), and
the values are of these types (`Holds`). Then the action at hand finds arguments of the types it
needs, and the node it makes can be read (`NodeMade`). Nodes refer only to earlier ones, so a new node
changes what no other is taken to be (`SortKept`). As nothing
is said about the input, the theorem is about every text with every mistake in it, and about any size of the
pool.

The type invariants (`TypeCorrect`, `SearchTypeCorrect`, `PoolTypeCorrect`, `ScanTypeCorrect`) are the base of the inductive invariants;
where a theorem states one, no run repeats it.

Two limits of the prover shaped the text. It has no rule of induction, so induction over numbers is by the
least counterexample (`LeastNumber`, from the fact that a nonempty set of numbers has a smallest element).
And it cannot look into `SelectSeq` or `Remove` of the library, which are recursive
operators; unlinking nodes and passing over records is `Without` of `Lists`, a recursive function, and `ListsProofs` has what it keeps.

Only model-checked: liveness (`CallsReturn`, `Answers`, `ScanEnds`, `CallEnds`, `IndexScanEnds`,
`StatementEnds`, `JoinEnds`, `SessionEnds`), which the prover does not do under fairness;
and `ExecutedAsTyped`. That compares the text of a tree, by recursion over the tree, with a reading of
the input by a list of its statements (`Statements`, a constant that the theorem would have to assume to be
the language of the grammar): an induction over derivations. What it needs of the trees, that each
can be read from its root and ends, is `TreesAsReadAlways`.

## 5. Not modelled

- Crashes: nothing in the code recovers from one; pages are written without order or log.
- Calls on a page without a frame (`markDirty`, `unpinPage` dereference null), file offsets beyond
  2 GB, the seventh condition of a WHERE, NULL as a primary key, an UPDATE that sets from a column that
  does not exist (interpreter.cpp:388 reads `dataAttrInfo[-1]`): memory errors with no outcome to
  state.
- `removeEntry`, `solveUnderFlow`, `destroyFile`, `push_head`, `pop_head`: nothing calls them.
- Several handles of one file at once. Each `FileScan` has a copy of its caller's `FileHandle`, and a
  join of a table with itself has several; the destructor of each forces and drops the frames of
  the file under the others. The operations of a handle load the pages they need themselves and
  a scan never writes its copy of `FileInfo`, so we expect nothing to be lost, but no model shows it. Nor
  are the pins counted that are left behind.
- How characters make tokens: numbers with a fraction, tokens of 500 characters and more (`lower`
  writes into an array of that size), a line that spans two reads; the pool of strings, the
  limit of the parser's stack.
- The printer and the messages.
- Code in no build target: `frontend/interp.c`, `ql/*.bak`, `ql/query.h`, `ql/parser.h`.

## 6. Plan

Done, in this order: `LRUHash` and `LRUList`; `BufferPool`; `RecordFile` with `HeapFile`; `RecordScan`;
`NodeSearch`, `BPlusTree` with `IndexMap`; `IndexFile`; `Table`; `PagePool`; `IndexScan`; `Session` with
`Databases`; `Joins`; `ParseTree` and `Frontend`; the proofs of section 4.

Left:

1. `Handles`: several `FileHandle`s of a file over `BufferPool`, each with its copy of `FileInfo`, as
   every scan and every join of a table with itself has them; pins left by `deleteRec` and
   `commitInfo`; destruction of one handle under another. Shows which of the client assumptions of
   `BufferPool` and `RecordFile` hold then.
2. `removeEntry`, if it is ever called.
