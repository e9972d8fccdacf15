------------------------------ MODULE Session -------------------------------
(***************************************************************************)
(* Databases as directories (SystemManager), catalogs and table files in   *)
(* them (DBHandle, RecordManager::createFile), and the streams through     *)
(* which the process reads and writes files (PageFS::openFile).  A         *)
(* database is entered with chdir and files are opened by relative names;  *)
(* the stream of a name, once opened, is never released, and is what the   *)
(* name means for the rest of the process, in whatever directory.          *)
(*                                                                         *)
(* A file that is removed while its name has a stream lives on in that     *)
(* stream: it is then the file of the name in the place Removed.           *)
(* rel.catalog and attr.catalog are made, opened and changed together and  *)
(* are one file here.  No two handles of a file are alive at once and each *)
(* writes its pages when it is closed, as does the end of the process, so  *)
(* a file and what the pool holds of it are not told apart.  One action is *)
(* one statement.                                                          *)
(***************************************************************************)
CONSTANTS Names,    \* of databases
          Tables,
          Rows,     \* keys: a row of a table with a primary key is its key
          Home,     \* the directory the program is started in
          Removed,
          Absent, Blank,
          Careful   \* Is the process used for one database only?  See Fits.

ASSUME SessionAssumption ==
  /\ Home \notin Names /\ Removed \notin Names \cup {Home}
  /\ Absent \notin Names \cup {Home, Removed}
  /\ Careful \in BOOLEAN

\* What CREATE TABLE says of a primary key; an invalid one is the name of no column.
Primaries == {"none", "valid", "invalid"}

\* Absent and Blank are not what a file with a header or a database holds.
ASSUME ContentAssumption ==
  /\ Absent # Blank
  /\ \A S \in (SUBSET Rows) \cup (SUBSET (Tables \X Primaries)) : S \notin {Absent, Blank}
  /\ \A rows \in [Tables -> {Absent} \cup (SUBSET Rows)] : rows # Absent

Catalog  == <<"catalog", Absent>>
Data(t)  == <<"db", t>>
Index(t) == <<"index", t>>
Files    == {Catalog} \cup {Data(t) : t \in Tables} \cup {Index(t) : t \in Tables}
Places   == Names \cup {Home, Removed}

VARIABLES existing,  \* the databases whose directory exists
          content,   \* place -> file -> Absent, Blank (0 bytes) or what its records say
          stream,    \* entries_, filePtr_: file -> the place of the file opened, or Absent
          cwd, working_,
          dbHandle,  \* not nullptr?
          stuck      \* a null stream was used, or a scan of a blank file was begun

process == <<stream, cwd, working_, dbHandle, stuck>>
vars == <<existing, content, process>>

Init ==
  /\ existing = {}
  /\ content = [p \in Places |-> [f \in Files |-> Absent]]
  /\ stream = [f \in Files |-> Absent]
  /\ cwd = Home /\ working_ = FALSE /\ dbHandle = FALSE /\ stuck = FALSE

-----------------------------------------------------------------------------
(* Files.  A world is the part of the state that opening and making a file  *)
(* changes.                                                                 *)

World == [content |-> content, stream |-> stream]

Becomes(w) == content' = w.content /\ stream' = w.stream

\* PageFS::openFile in directory dir: the stream of the name, or fopen, which may fail.
Opened(w, dir, f) ==
  IF w.stream[f] = Absent /\ w.content[dir][f] # Absent
    THEN [w EXCEPT !.stream[f] = dir]
    ELSE w

\* PageFS::createFile with override: fopen(.., "w") empties the file, or makes one.
Truncated(w, dir, f) == [w EXCEPT !.content[dir][f] = Blank]

\* Mutants of Made: an existing file keeps its records; the header is not written.
MadeOnce(w, dir, f) ==
  LET o == Opened(Truncated(w, dir, f), dir, f)
  IN  IF w.content[dir][f] # Absent THEN w ELSE [o EXCEPT !.content[o.stream[f]][f] = {}]

MadeBlank(w, dir, f) == Opened(Truncated(w, dir, f), dir, f)

\* RecordManager::createFile writes the header of an empty record file through the stream.
Made(w, dir, f) ==
  LET o == Opened(Truncated(w, dir, f), dir, f)
  IN  [o EXCEPT !.content[o.stream[f]][f] = {}]

\* The records of f, through its stream.
Read(w, f) == w.content[w.stream[f]][f]

\* A file that was opened can be read: fopen found it, and it has a header.
Readable(w, f) == w.stream[f] # Absent /\ Read(w, f) # Blank

-----------------------------------------------------------------------------
(* Databases.                                                               *)

\* closeDB
Closed == cwd' = Home /\ working_' = FALSE

\* What Careful asks: no stream has been opened on the catalog of another database.
Fits(d) == Careful => stream[Catalog] \in {Absent, d}

\* CREATE DATABASE closes the current database first.  The one named exists ...
CreateDBRefused(d) ==
  /\ d \in existing
  /\ Closed /\ dbHandle' = FALSE
  /\ UNCHANGED <<existing, content, stream, stuck>>

\* ... or createDB makes its directory and its catalogs, and leaves it.
CreateDB(d) ==
  /\ d \notin existing
  /\ Fits(d)
  /\ Closed /\ dbHandle' = FALSE
  /\ existing' = existing \cup {d}
  /\ Becomes(Made(World, d, Catalog))
  /\ UNCHANGED stuck

\* USE DATABASE of one that does not exist: the directory is left, the handle stays.
UseDBRefused(d) ==
  /\ d \notin existing
  /\ Careful => ~dbHandle
  /\ Closed
  /\ UNCHANGED <<existing, content, stream, dbHandle, stuck>>

\* USE DATABASE: a new handle on the catalogs of the new directory, by name.
UseDB(d) ==
  /\ d \in existing
  /\ Fits(d)
  /\ cwd' = d /\ working_' = TRUE /\ dbHandle' = TRUE
  /\ LET w == Opened(World, d, Catalog)
     IN Becomes(w) /\ stuck' = (w.stream[Catalog] = Absent)
  /\ UNCHANGED existing

\* Mutant of DropDB: the handle is kept.
DropDBOpen(d) ==
  /\ Closed /\ UNCHANGED dbHandle
  /\ existing' = existing \ {d}
  /\ stream' = [f \in Files |-> IF stream[f] = d THEN Removed ELSE stream[f]]
  /\ content' = [content EXCEPT
       ![d] = [f \in Files |-> Absent],
       ![Removed] = [f \in Files |-> IF stream[f] = d THEN content[d][f] ELSE @[f]]]
  /\ UNCHANGED stuck

\* DROP DATABASE, refused or carried out: streams keep what is removed.
DropDB(d) ==
  /\ Closed /\ dbHandle' = FALSE
  /\ existing' = existing \ {d}
  /\ stream' = [f \in Files |-> IF stream[f] = d THEN Removed ELSE stream[f]]
  /\ content' = [content EXCEPT
       ![d] = [f \in Files |-> Absent],
       ![Removed] = [f \in Files |-> IF stream[f] = d THEN content[d][f] ELSE @[f]]]
  /\ UNCHANGED stuck

\* The process ends, which writes all pages, and is started again.
Restart ==
  /\ stream' = [f \in Files |-> Absent]
  /\ content' = [content EXCEPT ![Removed] = [f \in Files |-> Absent]]
  /\ Closed /\ dbHandle' = FALSE
  /\ UNCHANGED <<existing, stuck>>

-----------------------------------------------------------------------------
(* Tables.                                                                  *)

\* The records of the catalog, <<table, primary>>.
Catalogued == Read(World, Catalog)

\* findTable has found t, which was created with primary.
Found(t, primary) == <<t, primary>> \in Catalogued

Statement == dbHandle /\ UNCHANGED <<existing, cwd, working_, dbHandle>>

\* findTable scans a catalog without a header, and never ends.
ScanBlank ==
  /\ Statement
  /\ stuck' = TRUE
  /\ UNCHANGED <<content, stream>>

\* createTable of a new name.  An invalid primary key is reported, and the table is made.
CreateTable(t, primary) ==
  /\ Statement
  /\ Careful => primary # "invalid"
  /\ \A p \in Primaries : ~Found(t, p)
  /\ LET w == [World EXCEPT !.content[stream[Catalog]][Catalog] = @ \cup {<<t, primary>>}]
         x == IF primary = "valid" THEN Made(w, cwd, Index(t)) ELSE w
     IN Becomes(Made(x, cwd, Data(t)))
  /\ UNCHANGED stuck

\* dropTable deletes the rows of the catalogs; the files stay.
DropTable(t) ==
  /\ Statement
  /\ content' = [content EXCEPT ![stream[Catalog]][Catalog] = {r \in @ : r[1] # t}]
  /\ UNCHANGED <<stream, stuck>>

\* A statement opens the files it needs; one that cannot be read is the end of the process.
Using(fs, w) ==
  /\ Becomes(w)
  /\ stuck' = \E f \in fs : ~Readable(w, f)

\* INSERT of one row: the index is opened for any table with a primary key, and searched
\* for one that has it as a column.
Insert(t, row) ==
  /\ Statement
  /\ \E primary \in Primaries :
       /\ Found(t, primary)
       /\ LET x == IF primary = "none" THEN World ELSE Opened(World, cwd, Index(t))
              w == Opened(x, cwd, Data(t))
              y == IF primary = "valid"
                     THEN [w EXCEPT !.content[w.stream[Index(t)]][Index(t)] = @ \cup {row}]
                     ELSE w
          IN IF primary # "none" /\ ~Readable(x, Index(t)) THEN Using({Index(t)}, x)
             ELSE IF primary = "valid" /\ row \in Read(x, Index(t)) THEN Using({}, x)
             ELSE IF ~Readable(w, Data(t)) THEN Using({Data(t)}, w)
             ELSE Using({}, [y EXCEPT !.content[w.stream[Data(t)]][Data(t)] = @ \cup {row}])

\* DELETE of all rows: their entries stay in the index.
Delete(t) ==
  /\ Statement
  /\ \E primary \in Primaries :
       /\ Found(t, primary)
       /\ LET x == Opened(World, cwd, Data(t))
              w == IF primary = "none" THEN x ELSE Opened(x, cwd, Index(t))
              needed == {Data(t)} \cup IF primary = "none" THEN {} ELSE {Index(t)}
          IN IF \A f \in needed : Readable(w, f)
               THEN Using({}, [w EXCEPT !.content[w.stream[Data(t)]][Data(t)] = {}])
               ELSE Using(needed, w)

\* SELECT: the file of the table is opened and scanned.
Select(t) ==
  /\ Statement
  /\ \E primary \in Primaries : Found(t, primary)
  /\ Using({Data(t)}, Opened(World, cwd, Data(t)))

Next ==
  /\ ~stuck
  /\ \/ \E d \in Names :
          CreateDB(d) \/ CreateDBRefused(d) \/ UseDB(d) \/ UseDBRefused(d) \/ DropDB(d)
     \/ IF dbHandle /\ ~Readable(World, Catalog)
          THEN ScanBlank
          ELSE \E t \in Tables :
                 \/ \E primary \in Primaries : CreateTable(t, primary)
                 \/ DropTable(t) \/ Delete(t) \/ Select(t)
                 \/ \E row \in Rows : Insert(t, row)
     \/ Restart

Spec == Init /\ [][Next]_vars

-----------------------------------------------------------------------------
\* No statement of a careful process meets a null stream or a file without a header, also
\* after restarts and after tables and databases were dropped and made again.
NeverStuck == ~stuck

\* While a database is open, the stream of its catalog and those of its tables are the
\* files of the working directory, the "[TARGET-DB]" that USE prints (systemmanager.cpp:41).
OpenFilesAreCurrent ==
  dbHandle =>
    \A f \in Files :
      f = Catalog \/ (stream[f] # Absent /\ \E r \in Catalogued : r[1] = f[2])
      => stream[f] = cwd

\* The rows of the tables in the directory of d, as a process that starts now reads them.
RowsIn(d) ==
  [t \in Tables |->
     IF content[d][Catalog] # Blank /\ \E r \in content[d][Catalog] : r[1] = t
       THEN content[d][Data(t)] ELSE Absent]

RowsOnDisk == [d \in Names |-> IF d \in existing THEN RowsIn(d) ELSE Absent]

Current == IF dbHandle THEN cwd ELSE Absent

Promise == INSTANCE Databases WITH rowsOf <- RowsOnDisk, current <- Current

\* A careful process does to the files what its statements say: each table made is empty,
\* whatever a dropped one of its name left behind, and its rows are there after a restart.
ImplementsDatabases == Promise!Spec
=============================================================================
