---------------------------- MODULE SessionProofs ----------------------------
(***************************************************************************)
(* Session, for any databases, tables and rows, when Careful is TRUE.      *)
(*                                                                         *)
(* That no statement meets a null stream is not inductive: it takes that   *)
(* all streams of the process are of one directory (OneDirectory), that    *)
(* this is the working directory while a database is open (OpenIsCurrent), *)
(* and that every table a catalog on the disk names has its files          *)
(* (FilesThere), which a statement must keep although it writes them       *)
(* through streams.                                                        *)
(***************************************************************************)
EXTENDS Session, TLAPS

Entries == SUBSET (Tables \X {"none", "valid"})
Contents == {Absent, Blank} \cup (SUBSET Rows) \cup (SUBSET (Tables \X Primaries))
Directory == [Files -> Contents]

TypeInv ==
  /\ existing \subseteq Names
  /\ content \in [Places -> Directory]
  /\ stream \in [Files -> Places \cup {Absent}]
  /\ cwd \in Places
  /\ dbHandle \in BOOLEAN

\* What a directory holds: the catalog, and the files of the tables it names.
FilesThere(g) ==
  /\ g[Catalog] \in Entries
  /\ \A r \in g[Catalog] :
       /\ g[Data(r[1])] \in SUBSET Rows
       /\ r[2] = "valid" => g[Index(r[1])] \in SUBSET Rows

OneDirectory ==
  /\ stream[Catalog] \in existing \cup {Absent, Removed}
  /\ \A f \in Files : stream[f] \in {Absent, stream[Catalog]}

OpenIsCurrent == dbHandle => cwd \in existing /\ stream[Catalog] = cwd

SessionInv ==
  /\ TypeInv
  /\ NeverStuck
  /\ OneDirectory
  /\ OpenIsCurrent
  /\ \A d \in existing : FilesThere(content[d])

-----------------------------------------------------------------------------
(* Files and the states of files.                                           *)

Worlds == [content : [Places -> Directory], stream : [Files -> Places \cup {Absent}]]

LEMMA FilesAre ==
  /\ Catalog \in Files
  /\ \A t \in Tables : Data(t) \in Files /\ Index(t) \in Files
  /\ \A t, u : Catalog # Data(t) /\ Catalog # Index(t) /\ Data(t) # Index(u)
  /\ \A t, u : (Data(t) = Data(u) => t = u) /\ (Index(t) = Index(u) => t = u)
BY DEF Files, Catalog, Data, Index

LEMMA SetsAreContents ==
  /\ \A S \in SUBSET Rows : S \in Contents /\ S # Absent /\ S # Blank
  /\ \A S \in Entries : S \in Contents /\ S # Absent /\ S # Blank
<1>1. Entries \subseteq SUBSET (Tables \X Primaries)
  BY DEF Entries, Primaries
<1> QED
  BY <1>1, ContentAssumption DEF Contents

\* createFile makes an empty file in dir, whether or not its name had a stream there.
LEMMA MadeIs ==
  ASSUME NEW w \in Worlds, NEW dir \in Places, NEW f \in Files, w.stream[f] \in {Absent, dir}
  PROVE  /\ Made(w, dir, f) \in Worlds
         /\ Made(w, dir, f).content = [w.content EXCEPT ![dir][f] = {}]
         /\ Made(w, dir, f).stream = [w.stream EXCEPT ![f] = dir]
<1> DEFINE v == Truncated(w, dir, f)
           o == Opened(v, dir, f)
<1>1. v = [content |-> [w.content EXCEPT ![dir][f] = Blank], stream |-> w.stream]
  BY DEF Truncated, Worlds
<1>2. v.content[dir][f] # Absent
  BY <1>1, ContentAssumption DEF Worlds, Directory
<1>3. o = [content |-> v.content, stream |-> [w.stream EXCEPT ![f] = dir]]
  BY <1>1, <1>2 DEF Opened, Worlds
<1>4. o.stream[f] = dir
  BY <1>3 DEF Worlds
<1>5. Made(w, dir, f) = [o EXCEPT !.content[dir][f] = {}]
  BY <1>4 DEF Made
<1> HIDE DEF o, v
<1>6. Made(w, dir, f) = [content |-> [v.content EXCEPT ![dir][f] = {}],
                         stream |-> [w.stream EXCEPT ![f] = dir]]
  BY <1>3, <1>5
<1>7. [v.content EXCEPT ![dir][f] = {}] = [w.content EXCEPT ![dir][f] = {}]
  BY <1>1 DEF Worlds, Directory
<1>8. [w.content EXCEPT ![dir][f] = {}] \in [Places -> Directory]
  BY SetsAreContents DEF Worlds, Directory
<1>9. [w.stream EXCEPT ![f] = dir] \in [Files -> Places \cup {Absent}]
  BY DEF Worlds
<1>10. Made(w, dir, f) = [content |-> [w.content EXCEPT ![dir][f] = {}],
                          stream |-> [w.stream EXCEPT ![f] = dir]]
  BY <1>6, <1>7, Zenon
<1> DEFINE c == [w.content EXCEPT ![dir][f] = {}]
           s == [w.stream EXCEPT ![f] = dir]
<1> HIDE DEF c, s
<1>11. Made(w, dir, f) = [content |-> c, stream |-> s]
  BY <1>10 DEF c, s
<1>12. c \in [Places -> Directory] /\ s \in [Files -> Places \cup {Absent}]
  BY <1>8, <1>9 DEF c, s
<1>13. Made(w, dir, f) \in Worlds /\ Made(w, dir, f).content = c /\ Made(w, dir, f).stream = s
  BY <1>11, <1>12 DEF Worlds
<1> QED
  BY <1>13 DEF c, s

\* openFile of a file that is in dir.
LEMMA OpenedIs ==
  ASSUME NEW w \in Worlds, NEW dir \in Places, NEW f \in Files, w.stream[f] \in {Absent, dir},
         w.content[dir][f] # Absent
  PROVE  /\ Opened(w, dir, f) \in Worlds
         /\ Opened(w, dir, f).content = w.content
         /\ Opened(w, dir, f).stream = [w.stream EXCEPT ![f] = dir]
<1>1. Opened(w, dir, f) = [content |-> w.content, stream |-> [w.stream EXCEPT ![f] = dir]]
  BY DEF Opened, Worlds
<1>2. [w.stream EXCEPT ![f] = dir] \in [Files -> Places \cup {Absent}]
  BY DEF Worlds
<1> QED
  BY <1>1, <1>2 DEF Worlds

-----------------------------------------------------------------------------
(* A statement on the tables of the open database: the directory of the     *)
(* database becomes g, through streams that are all of this directory.      *)

InDir(w, g) ==
  /\ w \in Worlds
  /\ g \in Directory
  /\ w.content = [content EXCEPT ![cwd] = g]
  /\ w.stream \in [Files -> {Absent, cwd}]
  /\ w.stream[Catalog] = cwd

LEMMA OpenState ==
  ASSUME SessionInv, dbHandle
  PROVE  /\ cwd \in Places /\ cwd \in existing /\ stream[Catalog] = cwd
         /\ InDir(World, content[cwd])
         /\ FilesThere(content[cwd])
         /\ Catalogued = content[cwd][Catalog]
         /\ Readable(World, Catalog)
<1>1. cwd \in Places /\ cwd \in existing /\ stream[Catalog] = cwd
  BY DEF SessionInv, TypeInv, OpenIsCurrent
<1>2. World \in Worlds /\ World.content = content /\ World.stream = stream
  BY DEF World, Worlds, SessionInv, TypeInv
<1>3. content[cwd] \in Directory /\ content = [content EXCEPT ![cwd] = content[cwd]]
  BY <1>1 DEF SessionInv, TypeInv
<1>4. stream \in [Files -> {Absent, cwd}]
  BY <1>1 DEF SessionInv, TypeInv, OneDirectory
<1>5. InDir(World, content[cwd])
  BY <1>1, <1>2, <1>3, <1>4 DEF InDir
<1>6. FilesThere(content[cwd])
  BY <1>1 DEF SessionInv
<1>7. Catalogued = content[cwd][Catalog]
  BY <1>1, <1>2 DEF Catalogued, Read
<1>8. Readable(World, Catalog)
  <2>1. World.stream[Catalog] # Absent
    BY <1>1, <1>2, SessionAssumption DEF Places
  <2>2. Read(World, Catalog) # Blank
    BY <1>6, <1>7, SetsAreContents DEF FilesThere, Catalogued
  <2> QED
    BY <2>1, <2>2 DEF Readable
<1> QED
  BY <1>1, <1>5, <1>6, <1>7, <1>8

LEMMA MadeInDir ==
  ASSUME SessionInv, cwd \in Places, NEW w, NEW g, InDir(w, g), NEW f \in Files
  PROVE  InDir(Made(w, cwd, f), [g EXCEPT ![f] = {}])
<1> DEFINE m == Made(w, cwd, f)
           h == [g EXCEPT ![f] = {}]
<1>1. w \in Worlds /\ w.stream[f] \in {Absent, cwd}
  BY DEF InDir
<1>2. m \in Worlds /\ m.content = [w.content EXCEPT ![cwd][f] = {}]
      /\ m.stream = [w.stream EXCEPT ![f] = cwd]
  BY <1>1, MadeIs
<1>3. h \in Directory
  BY SetsAreContents DEF InDir, Directory
<1> HIDE DEF m
<1>4. m.content = [content EXCEPT ![cwd] = h]
  BY <1>2 DEF InDir, SessionInv, TypeInv
<1>5. m.stream \in [Files -> {Absent, cwd}] /\ m.stream[Catalog] = cwd
  BY <1>2, FilesAre DEF InDir
<1>6. InDir(m, h)
  BY <1>2, <1>3, <1>4, <1>5 DEF InDir
<1> QED
  BY <1>6 DEF m

LEMMA OpenedInDir ==
  ASSUME SessionInv, cwd \in Places, NEW w, NEW g, InDir(w, g), NEW f \in Files, g[f] # Absent
  PROVE  /\ InDir(Opened(w, cwd, f), g)
         /\ Opened(w, cwd, f).stream = [w.stream EXCEPT ![f] = cwd]
<1> DEFINE o == Opened(w, cwd, f)
<1>1. w \in Worlds /\ w.stream[f] \in {Absent, cwd} /\ w.content[cwd][f] # Absent
  BY DEF InDir, SessionInv, TypeInv
<1>2. o \in Worlds /\ o.content = w.content /\ o.stream = [w.stream EXCEPT ![f] = cwd]
  BY <1>1, OpenedIs
<1> HIDE DEF o
<1>3. InDir(o, g)
  BY <1>2, FilesAre DEF InDir
<1> QED
  BY <1>2, <1>3 DEF o

\* Records written through the stream of f.
LEMMA WrittenInDir ==
  ASSUME SessionInv, cwd \in Places, NEW w, NEW g, InDir(w, g), NEW f \in Files,
         w.stream[f] = cwd, NEW x \in Contents
  PROVE  /\ InDir([w EXCEPT !.content[w.stream[f]][f] = x], [g EXCEPT ![f] = x])
         /\ [w EXCEPT !.content[w.stream[f]][f] = x].stream = w.stream
<1> DEFINE v == [w EXCEPT !.content[w.stream[f]][f] = x]
           h == [g EXCEPT ![f] = x]
           c == [content EXCEPT ![cwd] = h]
<1>1. h \in Directory
  BY DEF InDir, Directory
<1>2. [w.content EXCEPT ![cwd][f] = x] = c
  BY DEF InDir, SessionInv, TypeInv
<1>3. c \in [Places -> Directory]
  BY <1>1 DEF SessionInv, TypeInv
<1>4. v = [content |-> [w.content EXCEPT ![cwd][f] = x], stream |-> w.stream]
  BY DEF InDir, Worlds
<1>5. v = [content |-> c, stream |-> w.stream]
  BY <1>2, <1>4, Zenon
<1> HIDE DEF v, c
<1>6. v \in Worlds /\ v.content = c /\ v.stream = w.stream
  BY <1>3, <1>5 DEF Worlds, InDir
<1>7. InDir(v, h)
  BY <1>1, <1>6 DEF InDir, c
<1> QED
  BY <1>6, <1>7 DEF v

\* The whole of a statement that goes well.
Writes(g) ==
  /\ dbHandle /\ FilesThere(g)
  /\ \E w : InDir(w, g) /\ Becomes(w)
  /\ UNCHANGED <<existing, cwd, working_, dbHandle>>
  /\ stuck' = FALSE

LEMMA WritesInv == ASSUME SessionInv, NEW g, Writes(g) PROVE SessionInv'
<1>1. PICK w : InDir(w, g) /\ content' = w.content /\ stream' = w.stream
  BY DEF Writes, Becomes
<1>2. cwd \in Places /\ cwd \in existing /\ existing' = existing /\ cwd' = cwd /\ dbHandle' = dbHandle
  BY OpenState DEF Writes
<1>3. content' = [content EXCEPT ![cwd] = g] /\ content' \in [Places -> Directory]
  BY <1>1 DEF InDir, Worlds
<1>4. stream' \in [Files -> Places \cup {Absent}] /\ stream'[Catalog] = cwd
      /\ \A f \in Files : stream'[f] \in {Absent, cwd}
  BY <1>1 DEF InDir, Worlds
<1>5. TypeInv'
  BY <1>2, <1>3, <1>4 DEF SessionInv, TypeInv
<1>6. OneDirectory' /\ OpenIsCurrent'
  BY <1>2, <1>4 DEF OneDirectory, OpenIsCurrent
<1>7. \A d \in existing' : FilesThere(content'[d])
  BY <1>2, <1>3 DEF SessionInv, TypeInv, Writes, Places
<1>8. NeverStuck'
  BY DEF Writes, NeverStuck
<1> QED
  BY <1>5, <1>6, <1>7, <1>8 DEF SessionInv

-----------------------------------------------------------------------------
(* The statements.  Each writes a directory whose rows are those before it, *)
(* changed in the table it names.                                           *)

DirRows(g) == [t \in Tables |-> IF \E r \in g[Catalog] : r[1] = t THEN g[Data(t)] ELSE Absent]

Before == DirRows(content[cwd])

LEMMA CreateTableWrites ==
  ASSUME Careful, SessionInv, NEW t \in Tables, NEW primary \in Primaries,
         CreateTable(t, primary)
  PROVE  \E g : Writes(g) /\ DirRows(g) = [Before EXCEPT ![t] = {}] /\ Before[t] = Absent
<1> DEFINE k == content[cwd]
           e == k[Catalog] \cup {<<t, primary>>}
           w == [World EXCEPT !.content[stream[Catalog]][Catalog] = @ \cup {<<t, primary>>}]
           u == [World EXCEPT !.content[World.stream[Catalog]][Catalog] = e]
           x == IF primary = "valid" THEN Made(w, cwd, Index(t)) ELSE w
           y == Made(x, cwd, Data(t))
           gw == [k EXCEPT ![Catalog] = e]
           gx == IF primary = "valid" THEN [gw EXCEPT ![Index(t)] = {}] ELSE gw
           g == [gx EXCEPT ![Data(t)] = {}]
<1>1. /\ dbHandle /\ UNCHANGED <<existing, cwd, working_, dbHandle, stuck>>
      /\ primary \in {"none", "valid"}
      /\ \A p \in Primaries : <<t, p>> \notin Catalogued
      /\ Becomes(y)
  BY DEF CreateTable, Statement, Found, Primaries
<1>2. /\ cwd \in Places /\ cwd \in existing /\ stream[Catalog] = cwd
      /\ InDir(World, k) /\ FilesThere(k) /\ Catalogued = k[Catalog]
  BY <1>1, OpenState
<1>3. e \in Entries
  BY <1>1, <1>2 DEF FilesThere, Entries
<1>4. w = u
  BY <1>2 DEF World
<1>5. InDir(w, gw)
  <2>1. World.stream[Catalog] = cwd /\ e \in Contents
    BY <1>2, <1>3, SetsAreContents DEF InDir
  <2> HIDE DEF e, k
  <2> QED
    BY <1>2, <1>4, <2>1, FilesAre, WrittenInDir
<1>6. InDir(x, gx)
  BY <1>2, <1>5, FilesAre, MadeInDir
<1> HIDE DEF x, gx, w
<1>7. InDir(y, g)
  BY <1>2, <1>6, FilesAre, MadeInDir
<1>8. k \in Directory
  BY <1>2 DEF InDir
<1>9. /\ g[Catalog] = e
      /\ \A v \in Tables : g[Data(v)] = IF v = t THEN {} ELSE k[Data(v)]
      /\ primary = "valid" => g[Index(t)] = {}
      /\ \A v \in Tables : v # t => g[Index(v)] = k[Index(v)]
  BY <1>8, FilesAre DEF gx, Directory
<1> HIDE DEF g, y, e
<1>10. FilesThere(g)
  <2>1. \A r \in k[Catalog] : r[1] \in Tables /\ r[2] \in Primaries /\ r = <<r[1], r[2]>>
    BY <1>2 DEF FilesThere, Entries, Primaries
  <2>2. \A r \in k[Catalog] : r[1] # t
    BY <2>1, <1>1, <1>2
  <2>3. ASSUME NEW r \in e
        PROVE  g[Data(r[1])] \in SUBSET Rows /\ (r[2] = "valid" => g[Index(r[1])] \in SUBSET Rows)
    <3>1. CASE r = <<t, primary>>
      BY <3>1, <1>9
    <3>2. CASE r \in k[Catalog]
      BY <3>2, <2>1, <2>2, <1>2, <1>9 DEF FilesThere
    <3> QED
      BY <2>3, <3>1, <3>2 DEF e
  <2> QED
    BY <1>3, <1>9, <2>3 DEF FilesThere
<1>11. Writes(g)
  BY <1>1, <1>7, <1>10 DEF Writes, SessionInv, NeverStuck
<1>12. Before[t] = Absent
  <2>1. \A r \in k[Catalog] : r[2] \in Primaries /\ r = <<r[1], r[2]>>
    BY <1>2 DEF FilesThere, Entries, Primaries
  <2> QED
    BY <2>1, <1>1, <1>2 DEF Before, DirRows
<1>13. DirRows(g) = [Before EXCEPT ![t] = {}]
  <2>1. \A v \in Tables :
          (\E r \in g[Catalog] : r[1] = v) <=> (v = t \/ \E r \in k[Catalog] : r[1] = v)
    <3>1. g[Catalog] = k[Catalog] \cup {<<t, primary>>}
      BY <1>9 DEF e
    <3>2. <<t, primary>>[1] = t
      OBVIOUS
    <3> QED
      BY <3>1, <3>2
  <2> QED
    BY <2>1, <1>9 DEF DirRows, Before
<1> QED
  BY <1>11, <1>12, <1>13

LEMMA DropTableWrites ==
  ASSUME SessionInv, NEW t \in Tables, DropTable(t)
  PROVE  \E g : Writes(g) /\ DirRows(g) = [Before EXCEPT ![t] = Absent]
<1> DEFINE k == content[cwd]
           e == {r \in k[Catalog] : r[1] # t}
           w == [World EXCEPT !.content[World.stream[Catalog]][Catalog] = e]
           g == [k EXCEPT ![Catalog] = e]
<1>1. /\ dbHandle /\ UNCHANGED <<existing, cwd, working_, dbHandle, stream, stuck>>
      /\ content' = [content EXCEPT ![stream[Catalog]][Catalog] = {r \in @ : r[1] # t}]
  BY DEF DropTable, Statement
<1>2. /\ cwd \in Places /\ stream[Catalog] = cwd
      /\ InDir(World, k) /\ FilesThere(k) /\ k \in Directory
  BY <1>1, OpenState DEF InDir
<1>3. e \in Entries
  BY <1>2 DEF FilesThere, Entries
<1>4. InDir(w, g)
  <2>1. World.stream[Catalog] = cwd /\ e \in Contents
    BY <1>2, <1>3, SetsAreContents DEF InDir
  <2> HIDE DEF e, k
  <2> QED
    BY <1>2, <2>1, FilesAre, WrittenInDir
<1>5. Becomes(w)
  BY <1>1, <1>2 DEF Becomes, World
<1>6. /\ g[Catalog] = e
      /\ \A v \in Tables : g[Data(v)] = k[Data(v)] /\ g[Index(v)] = k[Index(v)]
  BY <1>2, FilesAre DEF Directory
<1> HIDE DEF g, w
<1>7. FilesThere(g)
  BY <1>2, <1>3, <1>6 DEF FilesThere, Entries
<1>8. Writes(g)
  BY <1>1, <1>4, <1>5, <1>7 DEF Writes, SessionInv, NeverStuck
<1>9. DirRows(g) = [Before EXCEPT ![t] = Absent]
  BY <1>6 DEF DirRows, Before
<1> QED
  BY <1>8, <1>9

\* A table that findTable finds has its files, and they are those of the directory.
LEMMA TableFiles ==
  ASSUME SessionInv, dbHandle, NEW t \in Tables, NEW primary, Found(t, primary)
  PROVE  /\ primary \in {"none", "valid"}
         /\ content[cwd][Data(t)] \in SUBSET Rows
         /\ primary = "valid" => content[cwd][Index(t)] \in SUBSET Rows
         /\ Before[t] = content[cwd][Data(t)]
<1> DEFINE k == content[cwd]
<1>1. FilesThere(k) /\ <<t, primary>> \in k[Catalog]
  BY OpenState DEF Found
<1>2. <<t, primary>> \in Tables \X {"none", "valid"}
  BY <1>1 DEF FilesThere, Entries
<1>3. <<t, primary>>[1] = t /\ <<t, primary>>[2] = primary
  OBVIOUS
<1>4. \E r \in k[Catalog] : r[1] = t
  BY <1>1, <1>3
<1>5. Before[t] = k[Data(t)]
  BY <1>4 DEF Before, DirRows
<1> QED
  BY <1>1, <1>2, <1>3, <1>5 DEF FilesThere

\* A file opened in the directory that has a header is read there.
LEMMA ReadInDir ==
  ASSUME SessionInv, cwd \in Places, NEW w, NEW g, InDir(w, g), NEW f \in Files,
         w.stream[f] = cwd
  PROVE  Read(w, f) = g[f] /\ (g[f] # Blank => Readable(w, f))
<1>1. Read(w, f) = g[f]
  BY DEF Read, InDir, SessionInv, TypeInv
<1> QED
  BY <1>1, SessionAssumption DEF Readable, Places

\* A statement that changes no rows, its files opened.
LEMMA OpenedWrites ==
  ASSUME SessionInv, Statement, NEW w, InDir(w, content[cwd]), Using({}, w)
  PROVE  Writes(content[cwd])
<1>1. dbHandle /\ UNCHANGED <<existing, cwd, working_, dbHandle>>
  BY DEF Statement
<1>2. Becomes(w) /\ stuck' = FALSE
  BY DEF Using
<1> QED
  BY <1>1, <1>2, OpenState DEF Writes

LEMMA InsertWrites ==
  ASSUME SessionInv, NEW t \in Tables, NEW row \in Rows, Insert(t, row)
  PROVE  \/ Writes(content[cwd])
         \/ /\ \E g : Writes(g) /\ DirRows(g) = [Before EXCEPT ![t] = Before[t] \cup {row}]
            /\ Before[t] \in SUBSET Rows
<1> DEFINE k == content[cwd]
           x(primary) == IF primary = "none" THEN World ELSE Opened(World, cwd, Index(t))
           w(primary) == Opened(x(primary), cwd, Data(t))
           y(primary) == IF primary = "valid"
                           THEN [w(primary) EXCEPT !.content[w(primary).stream[Index(t)]][Index(t)]
                                   = @ \cup {row}]
                           ELSE w(primary)
           z(primary) == [y(primary) EXCEPT !.content[w(primary).stream[Data(t)]][Data(t)]
                            = @ \cup {row}]
<1>1. Statement /\ dbHandle
  BY DEF Insert, Statement
<1>2. PICK primary \in Primaries :
        /\ Found(t, primary)
        /\ IF primary # "none" /\ ~Readable(x(primary), Index(t)) THEN Using({Index(t)}, x(primary))
           ELSE IF primary = "valid" /\ row \in Read(x(primary), Index(t))
             THEN Using({}, x(primary))
           ELSE IF ~Readable(w(primary), Data(t)) THEN Using({Data(t)}, w(primary))
           ELSE Using({}, z(primary))
  BY DEF Insert
<1> DEFINE X == x(primary)
           W == w(primary)
           Y == y(primary)
           Z == z(primary)
<1>3. /\ X = IF primary = "none" THEN World ELSE Opened(World, cwd, Index(t))
      /\ W = Opened(X, cwd, Data(t))
      /\ Y = IF primary = "valid"
               THEN [W EXCEPT !.content[W.stream[Index(t)]][Index(t)] = @ \cup {row}]
               ELSE W
      /\ Z = [Y EXCEPT !.content[W.stream[Data(t)]][Data(t)] = @ \cup {row}]
  OBVIOUS
<1>4. IF primary # "none" /\ ~Readable(X, Index(t)) THEN Using({Index(t)}, X)
       ELSE IF primary = "valid" /\ row \in Read(X, Index(t)) THEN Using({}, X)
       ELSE IF ~Readable(W, Data(t)) THEN Using({Data(t)}, W)
       ELSE Using({}, Z)
  BY <1>2
<1> HIDE DEF X, W, Y, Z
<1>5. /\ cwd \in Places
      /\ InDir(World, k) /\ FilesThere(k)
      /\ k \in Directory
  BY <1>1, OpenState DEF InDir
<1>6. /\ primary \in {"none", "valid"}
      /\ k[Data(t)] \in SUBSET Rows
      /\ primary = "valid" => k[Index(t)] \in SUBSET Rows
      /\ Before[t] = k[Data(t)]
  BY <1>1, <1>2, TableFiles
<1>7. Data(t) \in Files /\ Index(t) \in Files /\ Data(t) # Index(t)
  BY FilesAre
<1>8. /\ InDir(X, k)
      /\ primary = "valid" => X.stream[Index(t)] = cwd
  <2>1. CASE primary = "none"
    BY <2>1, <1>5, <1>3
  <2>2. CASE primary = "valid"
    <3>1. k[Index(t)] # Absent
      BY <2>2, <1>6, SetsAreContents
    <3>2. X = Opened(World, cwd, Index(t))
      BY <2>2, <1>3
    <3>3. InDir(X, k) /\ X.stream = [World.stream EXCEPT ![Index(t)] = cwd]
      BY <3>1, <3>2, <1>5, <1>7, OpenedInDir
    <3> QED
      BY <3>3, <1>5, <1>7 DEF InDir
  <2> QED
    BY <2>1, <2>2, <1>6
<1>9. /\ InDir(W, k)
      /\ W.stream[Data(t)] = cwd
      /\ primary = "valid" => W.stream[Index(t)] = cwd
  <2>1. k[Data(t)] # Absent
    BY <1>6, SetsAreContents
  <2>2. W = Opened(X, cwd, Data(t))
    BY <1>3
  <2>3. InDir(X, k) /\ Data(t) \in Files /\ cwd \in Places
    BY <1>5, <1>7, <1>8
  <2> HIDE DEF k
  <2>4. InDir(W, k) /\ W.stream = [X.stream EXCEPT ![Data(t)] = cwd]
    BY <2>1, <2>2, <2>3, OpenedInDir
  <2> QED
    BY <2>3, <2>4, <1>7, <1>8 DEF InDir
<1>10. primary = "valid" => Readable(X, Index(t)) /\ Read(X, Index(t)) = k[Index(t)]
  <2> SUFFICES ASSUME primary = "valid"
               PROVE  Readable(X, Index(t)) /\ Read(X, Index(t)) = k[Index(t)]
    OBVIOUS
  <2>1. k[Index(t)] # Blank
    BY <1>6, SetsAreContents
  <2>2. InDir(X, k) /\ X.stream[Index(t)] = cwd /\ Index(t) \in Files /\ cwd \in Places
    BY <1>5, <1>7, <1>8
  <2> HIDE DEF k
  <2> QED
    BY <2>1, <2>2, ReadInDir
<1>11. Readable(W, Data(t))
  BY <1>5, <1>6, <1>7, <1>9, ReadInDir, SetsAreContents
<1>12. Using({}, X) \/ Using({}, Z)
  BY <1>4, <1>6, <1>10, <1>11
<1>13. CASE Using({}, X)
  BY <1>13, <1>1, <1>8, OpenedWrites
<1>14. CASE Using({}, Z)
  <2> DEFINE gy == IF primary = "valid" THEN [k EXCEPT ![Index(t)] = k[Index(t)] \cup {row}] ELSE k
             d == k[Data(t)] \cup {row}
             g == [gy EXCEPT ![Data(t)] = d]
  <2>1. /\ InDir(Y, gy)
        /\ Y.stream = W.stream
        /\ gy \in Directory
        /\ gy[Data(t)] = k[Data(t)]
    <3>1. CASE primary = "none"
      BY <3>1, <1>5, <1>3, <1>9
    <3>2. CASE primary = "valid"
      <4> DEFINE n == k[Index(t)] \cup {row}
                 u == [W EXCEPT !.content[W.stream[Index(t)]][Index(t)] = n]
      <4>1. n \in Contents
        BY <3>2, <1>6, SetsAreContents
      <4>2. W.content[W.stream[Index(t)]][Index(t)] = k[Index(t)]
        BY <3>2, <1>5, <1>9 DEF InDir, SessionInv, TypeInv
      <4>3. Y = u
        BY <3>2, <4>2, <1>3
      <4> HIDE DEF n
      <4>4. InDir(u, [k EXCEPT ![Index(t)] = n]) /\ u.stream = W.stream
        BY <3>2, <4>1, <1>5, <1>7, <1>9, WrittenInDir
      <4>5. gy = [k EXCEPT ![Index(t)] = n]
        BY <3>2 DEF n
      <4> QED
        BY <4>3, <4>4, <4>5, <1>5, <1>7 DEF InDir, Directory
    <3> QED
      BY <3>1, <3>2, <1>6
  <2>2. Z = [Y EXCEPT !.content[Y.stream[Data(t)]][Data(t)] = d]
    <3>1. Y.stream[Data(t)] = cwd /\ W.stream[Data(t)] = cwd
      BY <2>1, <1>9
    <3>2. Y.content[cwd][Data(t)] = k[Data(t)]
      BY <2>1, <1>5 DEF InDir, SessionInv, TypeInv
    <3> QED
      BY <3>1, <3>2, <1>3
  <2>3. d \in Contents
    BY <1>6, SetsAreContents
  <2> HIDE DEF gy, d
  <2>4. InDir(Z, g)
    <3>1. Y.stream[Data(t)] = cwd
      BY <2>1, <1>9
    <3> QED
      BY <3>1, <2>1, <2>2, <2>3, <1>5, <1>7, WrittenInDir
  <2>5. /\ g[Catalog] = k[Catalog]
        /\ \A v \in Tables : g[Data(v)] = IF v = t THEN d ELSE k[Data(v)]
        /\ \A v \in Tables : g[Index(v)] = k[Index(v)] \/ g[Index(v)] \in SUBSET Rows
    BY <2>1, <1>5, <1>6, FilesAre DEF gy, Directory
  <2> HIDE DEF g
  <2>6. FilesThere(g)
    BY <2>5, <1>5, <1>6 DEF FilesThere, Entries, d
  <2>7. Writes(g)
    BY <2>4, <2>6, <1>1, <1>14 DEF Writes, Using, Statement
  <2>8. \E r \in k[Catalog] : r[1] = t
    <3>1. <<t, primary>> \in k[Catalog] /\ <<t, primary>>[1] = t
      BY <1>1, <1>2, OpenState DEF Found
    <3> QED
      BY <3>1
  <2>9. DirRows(g) = [Before EXCEPT ![t] = Before[t] \cup {row}]
    BY <2>5, <2>8, <1>6 DEF DirRows, Before, d
  <2> QED
    BY <2>7, <2>9, <1>6
<1> QED
  BY <1>12, <1>13, <1>14

LEMMA DeleteWrites ==
  ASSUME SessionInv, NEW t \in Tables, Delete(t)
  PROVE  /\ \E g : Writes(g) /\ DirRows(g) = [Before EXCEPT ![t] = {}]
         /\ Before[t] \in SUBSET Rows
<1> DEFINE k == content[cwd]
           g == [k EXCEPT ![Data(t)] = {}]
           X == Opened(World, cwd, Data(t))
           w(primary) == IF primary = "none" THEN X ELSE Opened(X, cwd, Index(t))
           needed(primary) == {Data(t)} \cup IF primary = "none" THEN {} ELSE {Index(t)}
           z(primary) == [w(primary) EXCEPT !.content[w(primary).stream[Data(t)]][Data(t)] = {}]
<1>1. Statement /\ dbHandle
  BY DEF Delete, Statement
<1>2. PICK primary \in Primaries :
        /\ Found(t, primary)
        /\ IF \A f \in needed(primary) : Readable(w(primary), f)
             THEN Using({}, z(primary)) ELSE Using(needed(primary), w(primary))
  BY DEF Delete
<1> DEFINE W == w(primary)
           Z == z(primary)
<1>3. /\ W = IF primary = "none" THEN X ELSE Opened(X, cwd, Index(t))
      /\ Z = [W EXCEPT !.content[W.stream[Data(t)]][Data(t)] = {}]
  OBVIOUS
<1>4. (\A f \in needed(primary) : Readable(W, f)) => Using({}, Z)
  BY <1>2
<1> HIDE DEF W, Z
<1>5. cwd \in Places /\ InDir(World, k) /\ FilesThere(k) /\ k \in Directory
  BY <1>1, OpenState DEF InDir
<1>6. /\ primary \in {"none", "valid"}
      /\ k[Data(t)] \in SUBSET Rows
      /\ primary = "valid" => k[Index(t)] \in SUBSET Rows
      /\ Before[t] = k[Data(t)]
  BY <1>1, <1>2, TableFiles
<1>7. Data(t) \in Files /\ Index(t) \in Files /\ Data(t) # Index(t)
  BY FilesAre
<1>8. InDir(X, k) /\ X.stream[Data(t)] = cwd
  <2>1. k[Data(t)] # Absent
    BY <1>6, SetsAreContents
  <2>2. InDir(X, k) /\ X.stream = [World.stream EXCEPT ![Data(t)] = cwd]
    BY <2>1, <1>5, <1>7, OpenedInDir
  <2> QED
    BY <2>2, <1>5, <1>7 DEF InDir
<1> HIDE DEF X
<1>9. /\ InDir(W, k)
      /\ W.stream[Data(t)] = cwd
      /\ primary = "valid" => W.stream[Index(t)] = cwd
  <2>1. CASE primary = "none"
    BY <2>1, <1>3, <1>8
  <2>2. CASE primary = "valid"
    <3>1. W = Opened(X, cwd, Index(t)) /\ k[Index(t)] # Absent
      BY <2>2, <1>3, <1>6, SetsAreContents
    <3>2. InDir(W, k) /\ W.stream = [X.stream EXCEPT ![Index(t)] = cwd]
      BY <3>1, <1>5, <1>7, <1>8, OpenedInDir
    <3> QED
      BY <3>2, <1>7, <1>8 DEF InDir
  <2> QED
    BY <2>1, <2>2, <1>6
<1>10. \A f \in needed(primary) : Readable(W, f)
  <2>1. Readable(W, Data(t))
    BY <1>5, <1>6, <1>7, <1>9, ReadInDir, SetsAreContents
  <2>2. primary = "valid" => Readable(W, Index(t))
    BY <1>5, <1>6, <1>7, <1>9, ReadInDir, SetsAreContents
  <2> QED
    BY <2>1, <2>2, <1>6
<1>11. Using({}, Z)
  BY <1>4, <1>10
<1>12. InDir(Z, g)
  <2>1. {} \in Contents
    BY SetsAreContents
  <2>2. Z = [W EXCEPT !.content[W.stream[Data(t)]][Data(t)] = {}]
    BY <1>3
  <2> HIDE DEF k
  <2> QED
    BY <2>1, <2>2, <1>5, <1>7, <1>9, WrittenInDir
<1>13. /\ g[Catalog] = k[Catalog]
       /\ \A v \in Tables : g[Data(v)] = IF v = t THEN {} ELSE k[Data(v)]
       /\ \A v \in Tables : g[Index(v)] = k[Index(v)]
  BY <1>5, FilesAre DEF Directory
<1> HIDE DEF g
<1>14. FilesThere(g)
  BY <1>5, <1>13 DEF FilesThere, Entries
<1>15. Writes(g)
  BY <1>1, <1>11, <1>12, <1>14 DEF Writes, Using, Statement
<1>16. \E r \in k[Catalog] : r[1] = t
  <2>1. <<t, primary>> \in k[Catalog] /\ <<t, primary>>[1] = t
    BY <1>1, <1>2, OpenState DEF Found
  <2> QED
    BY <2>1
<1>17. DirRows(g) = [Before EXCEPT ![t] = {}]
  BY <1>13, <1>16 DEF DirRows, Before
<1> QED
  BY <1>6, <1>15, <1>17

LEMMA SelectWrites == ASSUME SessionInv, NEW t \in Tables, Select(t) PROVE Writes(content[cwd])
<1> DEFINE k == content[cwd]
           X == Opened(World, cwd, Data(t))
<1>1. Statement /\ dbHandle /\ Using({Data(t)}, X)
  BY DEF Select, Statement
<1>2. PICK primary \in Primaries : Found(t, primary)
  BY DEF Select
<1>3. cwd \in Places /\ InDir(World, k) /\ Data(t) \in Files
  BY <1>1, OpenState, FilesAre
<1>4. k[Data(t)] # Absent /\ k[Data(t)] # Blank
  BY <1>1, <1>2, TableFiles, SetsAreContents
<1>5. InDir(X, k) /\ X.stream[Data(t)] = cwd
  <2>1. InDir(X, k) /\ X.stream = [World.stream EXCEPT ![Data(t)] = cwd]
    BY <1>3, <1>4, OpenedInDir
  <2> QED
    BY <2>1, <1>3 DEF InDir
<1> HIDE DEF X
<1>6. Readable(X, Data(t))
  BY <1>3, <1>4, <1>5, ReadInDir
<1>7. Using({}, X)
  BY <1>1, <1>6 DEF Using
<1> QED
  BY <1>1, <1>5, <1>7, OpenedWrites

-----------------------------------------------------------------------------
(* Databases.  The rows on the disk, and what each operation does to them.  *)

DiskRows == [d \in Names |-> IF d \in existing THEN DirRows(content[d]) ELSE Absent]

\* A database on the disk is no Absent one.
LEMMA DirRowsType == ASSUME NEW g, FilesThere(g) PROVE DirRows(g) # Absent
<1>1. \A r \in g[Catalog] : g[Data(r[1])] \in SUBSET Rows
  BY DEF FilesThere
<1>2. DirRows(g) \in [Tables -> {Absent} \cup (SUBSET Rows)]
  BY <1>1 DEF DirRows
<1> QED
  BY <1>2, ContentAssumption

LEMMA WritesRows ==
  ASSUME SessionInv, NEW g, Writes(g)
  PROVE  /\ DiskRows' = [DiskRows EXCEPT ![cwd] = DirRows(g)]
         /\ Current = cwd /\ Current' = cwd /\ cwd \in existing /\ cwd # Absent
         /\ DiskRows[cwd] = Before
<1>1. PICK w : InDir(w, g) /\ content' = w.content
  BY DEF Writes, Becomes
<1>2. cwd \in existing /\ cwd \in Names /\ existing' = existing /\ cwd' = cwd /\ dbHandle' = dbHandle
      /\ dbHandle
  BY OpenState DEF Writes, SessionInv, TypeInv
<1>3. content' = [content EXCEPT ![cwd] = g] /\ content \in [Places -> Directory]
  BY <1>1 DEF InDir, SessionInv, TypeInv
<1>4. \A d \in Names : content'[d] = IF d = cwd THEN g ELSE content[d]
  BY <1>3 DEF Places
<1>5. DiskRows' = [DiskRows EXCEPT ![cwd] = DirRows(g)]
  BY <1>2, <1>4 DEF DiskRows
<1>6. cwd # Absent
  BY <1>2, SessionAssumption
<1>7. DiskRows[cwd] = Before
  BY <1>2 DEF DiskRows, Before
<1> QED
  BY <1>2, <1>5, <1>6, <1>7 DEF Current

LEMMA CreateDBStep ==
  ASSUME Careful, SessionInv, NEW d \in Names, CreateDB(d)
  PROVE  /\ SessionInv'
         /\ DiskRows[d] = Absent
         /\ DiskRows' = [DiskRows EXCEPT ![d] = [t \in Tables |-> Absent]]
<1>1. /\ d \notin existing /\ existing' = existing \cup {d} /\ cwd' = Home /\ ~dbHandle'
      /\ dbHandle' \in BOOLEAN /\ stuck' = stuck
      /\ Becomes(Made(World, d, Catalog))
      /\ stream[Catalog] \in {Absent, d}
  BY DEF CreateDB, Closed, Fits
<1>2. d \in Places /\ d # Removed /\ d # Absent /\ Home \in Places
  BY SessionAssumption DEF Places
<1>3. stream[Catalog] = Absent /\ \A f \in Files : stream[f] = Absent
  BY <1>1, <1>2 DEF SessionInv, OneDirectory
<1>4. World \in Worlds /\ World.content = content /\ World.stream = stream
  BY DEF World, Worlds, SessionInv, TypeInv
<1>5. /\ content' = [content EXCEPT ![d][Catalog] = {}]
      /\ stream' = [stream EXCEPT ![Catalog] = d]
      /\ content' \in [Places -> Directory]
      /\ stream' \in [Files -> Places \cup {Absent}]
  <2> DEFINE m == Made(World, d, Catalog)
  <2>1. m \in Worlds /\ m.content = [content EXCEPT ![d][Catalog] = {}]
        /\ m.stream = [stream EXCEPT ![Catalog] = d]
    BY <1>2, <1>3, <1>4, FilesAre, MadeIs
  <2>2. content' = m.content /\ stream' = m.stream
    BY <1>1 DEF Becomes
  <2> HIDE DEF m
  <2> QED
    BY <2>1, <2>2 DEF Worlds
<1>6. TypeInv'
  BY <1>1, <1>2, <1>5 DEF SessionInv, TypeInv
<1>7. OneDirectory' /\ OpenIsCurrent' /\ NeverStuck'
  BY <1>1, <1>3, <1>5, FilesAre DEF OneDirectory, OpenIsCurrent, NeverStuck, SessionInv, TypeInv
<1>8. /\ content'[d][Catalog] = {}
      /\ \A c \in Places : c # d => content'[c] = content[c]
  BY <1>2, <1>5, FilesAre DEF SessionInv, TypeInv, Directory
<1>9. FilesThere(content'[d])
  BY <1>8 DEF FilesThere, Entries
<1>10. \A c \in existing' : FilesThere(content'[c])
  BY <1>1, <1>8, <1>9 DEF SessionInv, TypeInv, Places
<1>11. DirRows(content'[d]) = [t \in Tables |-> Absent]
  BY <1>8 DEF DirRows
<1>12. DiskRows' = [DiskRows EXCEPT ![d] = [t \in Tables |-> Absent]]
  BY <1>1, <1>8, <1>11 DEF DiskRows, Places
<1> QED
  BY <1>1, <1>6, <1>7, <1>10, <1>12 DEF SessionInv, DiskRows

LEMMA UseDBStep ==
  ASSUME Careful, SessionInv, NEW d \in Names, UseDB(d)
  PROVE  SessionInv' /\ DiskRows' = DiskRows /\ d \in existing /\ Current' = d
<1>1. /\ d \in existing /\ existing' = existing /\ cwd' = d /\ dbHandle' = TRUE
      /\ Becomes(Opened(World, d, Catalog))
      /\ stuck' = (Opened(World, d, Catalog).stream[Catalog] = Absent)
      /\ stream[Catalog] \in {Absent, d}
  BY DEF UseDB, Fits
<1>2. d \in Places /\ d # Absent
  BY SessionAssumption DEF Places
<1>3. World \in Worlds /\ World.content = content /\ World.stream = stream
  BY DEF World, Worlds, SessionInv, TypeInv
<1>4. content[d][Catalog] # Absent
  BY <1>1, SetsAreContents DEF SessionInv, FilesThere
<1>5. /\ content' = content /\ stream' = [stream EXCEPT ![Catalog] = d]
      /\ stream' \in [Files -> Places \cup {Absent}]
      /\ stuck' = FALSE
  <2> DEFINE o == Opened(World, d, Catalog)
  <2>1. o \in Worlds /\ o.content = content /\ o.stream = [stream EXCEPT ![Catalog] = d]
    BY <1>1, <1>2, <1>3, <1>4, FilesAre, OpenedIs
  <2>2. content' = o.content /\ stream' = o.stream /\ stuck' = (o.stream[Catalog] = Absent)
    BY <1>1 DEF Becomes
  <2> HIDE DEF o
  <2> QED
    BY <2>1, <2>2, <1>2, FilesAre DEF Worlds
<1>6. TypeInv'
  BY <1>1, <1>2, <1>5 DEF SessionInv, TypeInv
<1>7. OneDirectory' /\ OpenIsCurrent' /\ NeverStuck'
  BY <1>1, <1>5, FilesAre DEF OneDirectory, OpenIsCurrent, NeverStuck, SessionInv, TypeInv
<1> QED
  BY <1>1, <1>5, <1>6, <1>7 DEF SessionInv, DiskRows, Current

LEMMA DropDBStep ==
  ASSUME SessionInv, NEW d \in Names, DropDB(d)
  PROVE  SessionInv' /\ DiskRows' = [DiskRows EXCEPT ![d] = Absent] /\ ~dbHandle'
<1>1. /\ existing' = existing \ {d} /\ cwd' = Home /\ dbHandle' = FALSE /\ stuck' = stuck
      /\ stream' = [f \in Files |-> IF stream[f] = d THEN Removed ELSE stream[f]]
      /\ content' = [content EXCEPT
           ![d] = [f \in Files |-> Absent],
           ![Removed] = [f \in Files |-> IF stream[f] = d THEN content[d][f] ELSE @[f]]]
  BY DEF DropDB, Closed
<1>2. d \in Places /\ d # Removed /\ d # Absent /\ Home \in Places /\ Removed \in Places
      /\ Removed \notin Names
  BY SessionAssumption DEF Places
<1>3. /\ content' \in [Places -> Directory]
      /\ \A c \in Names : c # d => content'[c] = content[c]
  <2>1. content[d] \in Directory /\ content[Removed] \in Directory
    BY <1>2 DEF SessionInv, TypeInv
  <2>2. [f \in Files |-> Absent] \in Directory
    BY DEF Directory, Contents
  <2> DEFINE rem == [f \in Files |-> IF stream[f] = d THEN content[d][f] ELSE content[Removed][f]]
             abs == [f \in Files |-> Absent]
  <2>3. rem \in Directory
    BY <2>1 DEF Directory
  <2>4. content' = [content EXCEPT ![d] = abs, ![Removed] = rem]
    BY <1>1, <1>2 DEF SessionInv, TypeInv
  <2> HIDE DEF rem, abs
  <2>5. abs \in Directory
    BY <2>2 DEF abs
  <2> QED
    BY <2>3, <2>4, <2>5, <1>2 DEF SessionInv, TypeInv, Places
<1>4. TypeInv'
  <2>1. stream' \in [Files -> Places \cup {Absent}]
    BY <1>1, <1>2 DEF SessionInv, TypeInv
  <2> QED
    BY <2>1, <1>1, <1>2, <1>3 DEF SessionInv, TypeInv
<1>5. OneDirectory'
  BY <1>1, <1>2, FilesAre DEF OneDirectory, SessionInv
<1>6. OpenIsCurrent' /\ NeverStuck'
  BY <1>1 DEF OpenIsCurrent, NeverStuck, SessionInv
<1>7. \A c \in existing' : FilesThere(content'[c])
  BY <1>1, <1>3 DEF SessionInv, TypeInv
<1>8. DiskRows' = [DiskRows EXCEPT ![d] = Absent]
  <2>1. existing' = existing \ {d} /\ \A c \in Names : c # d => content'[c] = content[c]
    BY <1>1, <1>3
  <2>2. DiskRows' = [c \in Names |-> IF c = d THEN Absent ELSE DiskRows[c]]
    BY <2>1 DEF DiskRows
  <2> QED
    BY <2>2 DEF DiskRows
<1> QED
  BY <1>1, <1>4, <1>5, <1>6, <1>7, <1>8 DEF SessionInv

\* The statements on databases that are refused, and the end of the process.
LEMMA LeaveStep ==
  ASSUME SessionInv, NEW d,
         CreateDBRefused(d) \/ (UseDBRefused(d) /\ Careful) \/ Restart
  PROVE  SessionInv' /\ DiskRows' = DiskRows /\ ~dbHandle'
<1>1. /\ existing' = existing /\ cwd' = Home /\ stuck' = stuck
      /\ dbHandle' \in BOOLEAN /\ ~dbHandle'
  <2>1. CASE CreateDBRefused(d)
    BY <2>1 DEF CreateDBRefused, Closed
  <2>2. CASE UseDBRefused(d) /\ Careful
    <3>1. ~dbHandle /\ dbHandle' = dbHandle
      BY <2>2 DEF UseDBRefused
    <3>2. existing' = existing /\ cwd' = Home /\ stuck' = stuck
      BY <2>2 DEF UseDBRefused, Closed
    <3>3. dbHandle' = FALSE
      BY <3>1 DEF SessionInv, TypeInv
    <3> QED
      BY <3>2, <3>3
  <2>3. CASE Restart
    BY <2>3 DEF Restart, Closed
  <2> QED
    BY <2>1, <2>2, <2>3
<1>2. \/ UNCHANGED <<content, stream>>
      \/ /\ stream' = [f \in Files |-> Absent]
         /\ content' = [content EXCEPT ![Removed] = [f \in Files |-> Absent]]
  BY DEF CreateDBRefused, UseDBRefused, Restart
<1>3. Home \in Places /\ Removed \in Places /\ Removed \notin Names
  BY SessionAssumption DEF Places
<1>4. /\ content' \in [Places -> Directory]
      /\ \A c \in Names : content'[c] = content[c]
  <2>1. [f \in Files |-> Absent] \in Directory
    BY DEF Directory, Contents
  <2> DEFINE abs == [f \in Files |-> Absent]
  <2>2. content' = content \/ content' = [content EXCEPT ![Removed] = abs]
    BY <1>2
  <2>3. abs \in Directory
    BY <2>1
  <2> HIDE DEF abs
  <2> QED
    BY <2>2, <2>3, <1>3 DEF SessionInv, TypeInv, Places
<1>5. stream' \in [Files -> Places \cup {Absent}] /\ OneDirectory'
  <2>1. CASE UNCHANGED <<content, stream>>
    BY <2>1, <1>1 DEF OneDirectory, SessionInv, TypeInv
  <2>2. CASE stream' = [f \in Files |-> Absent]
    BY <2>2, FilesAre DEF OneDirectory
  <2> QED
    BY <1>2, <2>1, <2>2
<1>6. TypeInv'
  BY <1>1, <1>3, <1>4, <1>5 DEF SessionInv, TypeInv
<1>7. OpenIsCurrent' /\ NeverStuck' /\ \A c \in existing' : FilesThere(content'[c])
  BY <1>1, <1>4 DEF OpenIsCurrent, NeverStuck, SessionInv, TypeInv
<1>8. DiskRows' = DiskRows
  BY <1>1, <1>4 DEF DiskRows
<1> QED
  BY <1>1, <1>5, <1>6, <1>7, <1>8 DEF SessionInv

-----------------------------------------------------------------------------
LEMMA InitSessionInv == Init => SessionInv
<1> SUFFICES ASSUME Init PROVE SessionInv
  OBVIOUS
<1>1. Home \in Places
  BY DEF Places
<1>2. TypeInv
  BY <1>1 DEF Init, TypeInv, Directory, Contents
<1> QED
  BY <1>2, FilesAre DEF Init, SessionInv, NeverStuck, OneDirectory, OpenIsCurrent

\* The catalog of the open database can be read, so none of its scans is endless.
LEMMA StepInv == ASSUME Careful, SessionInv, [Next]_vars PROVE SessionInv'
<1>1. CASE Next
  <2>1. ASSUME NEW d \in Names,
               CreateDB(d) \/ CreateDBRefused(d) \/ UseDB(d) \/ UseDBRefused(d) \/ DropDB(d)
        PROVE  SessionInv'
    BY <2>1, CreateDBStep, LeaveStep, UseDBStep, DropDBStep
  <2>2. CASE Restart
    BY <2>2, LeaveStep
  <2>3. ~(dbHandle /\ ~Readable(World, Catalog))
    BY OpenState
  <2>4. ASSUME NEW t \in Tables,
               \/ \E primary \in Primaries : CreateTable(t, primary)
               \/ DropTable(t) \/ Delete(t) \/ Select(t)
               \/ \E row \in Rows : Insert(t, row)
        PROVE  SessionInv'
    <3>1. \E g : Writes(g)
      BY <2>4, CreateTableWrites, DropTableWrites, DeleteWrites, SelectWrites, InsertWrites
    <3> QED
      BY <3>1, WritesInv
  <2> QED
    BY <1>1, <2>1, <2>2, <2>3, <2>4 DEF Next
<1>2. CASE UNCHANGED vars
  BY <1>2 DEF vars, process, SessionInv, TypeInv, NeverStuck, OneDirectory, OpenIsCurrent
<1> QED
  BY <1>1, <1>2

LEMMA SessionInvariant == Careful => (Spec => []SessionInv)
<1> SUFFICES ASSUME Careful PROVE Spec => []SessionInv
  OBVIOUS
<1>1. SessionInv /\ [Next]_vars => SessionInv'
  BY StepInv
<1> QED
  BY <1>1, InitSessionInv, PTL DEF Spec

\* A process that keeps to one database and declares no primary key that is no column
\* meets no null stream and no file without a header, whatever it drops and makes again.
THEOREM NeverStuckAlways == Careful => (Spec => []NeverStuck)
<1> SUFFICES ASSUME Careful PROVE Spec => []NeverStuck
  OBVIOUS
<1>1. SessionInv => NeverStuck
  BY DEF SessionInv
<1> QED
  BY <1>1, SessionInvariant, PTL

\* The streams it uses are those of the directory that USE has entered.
THEOREM OpenFilesAreCurrentAlways == Careful => (Spec => []OpenFilesAreCurrent)
<1> SUFFICES ASSUME Careful PROVE Spec => []OpenFilesAreCurrent
  OBVIOUS
<1>1. SessionInv => OpenFilesAreCurrent
  <2> SUFFICES ASSUME SessionInv, dbHandle, NEW f \in Files,
                      f = Catalog \/ stream[f] # Absent
               PROVE  stream[f] = cwd
    BY DEF OpenFilesAreCurrent
  <2> QED
    BY DEF SessionInv, OpenIsCurrent, OneDirectory
<1> QED
  BY <1>1, SessionInvariant, PTL

-----------------------------------------------------------------------------
(* Refinement.  What a process that starts now reads is DiskRows, and each  *)
(* step does to it what a statement of Databases does, or nothing.          *)

LEMMA RowsOnDiskAre == SessionInv => RowsOnDisk = DiskRows
<1> SUFFICES ASSUME SessionInv PROVE RowsOnDisk = DiskRows
  OBVIOUS
<1>1. ASSUME NEW d \in existing PROVE RowsIn(d) = DirRows(content[d])
  <2>1. content[d][Catalog] # Blank
    BY SetsAreContents DEF SessionInv, FilesThere
  <2> QED
    BY <2>1 DEF RowsIn, DirRows
<1> QED
  BY <1>1 DEF RowsOnDisk, DiskRows

\* Statements on a table, as changes of the rows on the disk.
LEMMA ChangeSimulates ==
  ASSUME SessionInv, SessionInv', NEW t \in Tables, NEW g, Writes(g), NEW new,
         DirRows(g) = [Before EXCEPT ![t] = new],
         \/ Before[t] = Absent /\ new = {}
         \/ Before[t] # Absent /\ new \in {Absent, {}}
         \/ Before[t] # Absent /\ \E r \in Rows : new = Before[t] \cup {r}
  PROVE  Promise!Next
<1>0. (RowsOnDisk = DiskRows)'
  BY RowsOnDiskAre, PTL
<1>1. RowsOnDisk = DiskRows /\ RowsOnDisk' = DiskRows'
  BY <1>0, RowsOnDiskAre
<1>2. /\ DiskRows' = [DiskRows EXCEPT ![cwd] = DirRows(g)]
      /\ Current = cwd /\ Current' = cwd /\ cwd # Absent
      /\ DiskRows[cwd] = Before
  BY WritesRows
<1>3. RowsOnDisk' = [RowsOnDisk EXCEPT ![Current][t] = new]
  BY <1>1, <1>2
<1>4. Promise!Change(t, new)
  BY <1>2, <1>3 DEF Promise!Change
<1>5. RowsOnDisk[Current][t] = Before[t]
  BY <1>1, <1>2
<1> HIDE DEF Before
<1>6. \/ Promise!CreateTable(t) \/ Promise!DropTable(t) \/ Promise!Delete(t)
      \/ \E r \in Rows : Promise!Insert(t, r)
  BY <1>4, <1>5 DEF Promise!CreateTable, Promise!DropTable, Promise!Delete, Promise!Insert
<1> QED
  BY <1>2, <1>6 DEF Promise!Next

LEMMA SameSimulates ==
  ASSUME SessionInv, SessionInv', DiskRows' = DiskRows
  PROVE  /\ RowsOnDisk' = RowsOnDisk
         /\ ~dbHandle' => Promise!Leave
<1>0. (RowsOnDisk = DiskRows)'
  BY RowsOnDiskAre, PTL
<1>1. RowsOnDisk' = RowsOnDisk
  BY <1>0, RowsOnDiskAre
<1> QED
  BY <1>1 DEF Promise!Leave, Current

LEMMA DatabaseSimulates ==
  ASSUME Careful, SessionInv, SessionInv', NEW d \in Names,
         CreateDB(d) \/ CreateDBRefused(d) \/ UseDB(d) \/ UseDBRefused(d) \/ DropDB(d)
  PROVE  Promise!Next
<1>0. (RowsOnDisk = DiskRows)'
  BY RowsOnDiskAre, PTL
<1>1. RowsOnDisk = DiskRows /\ RowsOnDisk' = DiskRows'
  BY <1>0, RowsOnDiskAre
<1>2. \A c \in existing : DiskRows[c] # Absent
  BY DirRowsType DEF SessionInv, TypeInv, DiskRows
<1>3. CASE CreateDB(d)
  <2>1. ~dbHandle'
    BY <1>3 DEF CreateDB
  <2>2. Promise!CreateDatabase(d)
    BY <2>1, <1>1, <1>3, CreateDBStep DEF Promise!CreateDatabase, Promise!NoTables, Current
  <2> QED
    BY <2>2 DEF Promise!Next
<1>4. CASE CreateDBRefused(d) \/ UseDBRefused(d)
  BY <1>4, LeaveStep, SameSimulates DEF Promise!Next
<1>5. CASE UseDB(d)
  <2>1. Promise!UseDatabase(d)
    BY <1>1, <1>2, <1>5, UseDBStep DEF Promise!UseDatabase
  <2> QED
    BY <2>1 DEF Promise!Next
<1>6. CASE DropDB(d)
  <2>1. DiskRows' = [DiskRows EXCEPT ![d] = Absent] /\ ~dbHandle'
    BY <1>6, DropDBStep
  <2>2. CASE d \in existing
    <3>1. Promise!DropDatabase(d)
      BY <2>1, <2>2, <1>1, <1>2 DEF Promise!DropDatabase, Current
    <3> QED
      BY <3>1 DEF Promise!Next
  <2>3. CASE d \notin existing
    <3>1. DiskRows' = DiskRows
      BY <2>1, <2>3 DEF DiskRows
    <3> QED
      BY <3>1, <2>1, SameSimulates DEF Promise!Next
  <2> QED
    BY <2>2, <2>3
<1> QED
  BY <1>3, <1>4, <1>5, <1>6

LEMMA TableSimulates ==
  ASSUME Careful, SessionInv, SessionInv', NEW t \in Tables,
         \/ \E primary \in Primaries : CreateTable(t, primary)
         \/ DropTable(t) \/ Delete(t) \/ Select(t)
         \/ \E row \in Rows : Insert(t, row)
  PROVE  [Promise!Next]_<<RowsOnDisk, Current>>
<1>1. ASSUME NEW primary \in Primaries, CreateTable(t, primary) PROVE Promise!Next
  BY <1>1, CreateTableWrites, ChangeSimulates
<1>2. ASSUME Writes(content[cwd]) PROVE UNCHANGED <<RowsOnDisk, Current>>
  <2>1. DiskRows' = [DiskRows EXCEPT ![cwd] = Before] /\ DiskRows[cwd] = Before /\ Current' = Current
    BY <1>2, WritesRows DEF Before
  <2>2. DiskRows' = DiskRows
    BY <2>1 DEF DiskRows
  <2> QED
    BY <2>1, <2>2, SameSimulates
<1>3. CASE DropTable(t)
  <2>1. PICK g : Writes(g) /\ DirRows(g) = [Before EXCEPT ![t] = Absent]
    BY <1>3, DropTableWrites
  <2>2. CASE Before[t] # Absent
    BY <2>1, <2>2, ChangeSimulates
  <2>3. CASE Before[t] = Absent
    <3>1. DirRows(g) = Before
      BY <2>1, <2>3 DEF Before, DirRows
    <3>2. DiskRows' = [DiskRows EXCEPT ![cwd] = Before] /\ DiskRows[cwd] = Before
          /\ Current' = Current
      BY <2>1, <3>1, WritesRows
    <3>3. DiskRows' = DiskRows
      BY <3>2 DEF DiskRows
    <3> QED
      BY <3>2, <3>3, SameSimulates
  <2> QED
    BY <2>2, <2>3
<1>4. CASE Delete(t)
  BY <1>4, DeleteWrites, ChangeSimulates, SetsAreContents
<1>5. CASE Select(t)
  BY <1>5, <1>2, SelectWrites
<1>6. ASSUME NEW row \in Rows, Insert(t, row) PROVE [Promise!Next]_<<RowsOnDisk, Current>>
  BY <1>6, <1>2, InsertWrites, ChangeSimulates, SetsAreContents
<1> QED
  BY <1>1, <1>3, <1>4, <1>5, <1>6

\* A careful process does to the databases on the disk what Databases says of its
\* statements; restarts, and the files that dropped tables leave behind, do not show.
THEOREM Refinement == Careful => (Spec => ImplementsDatabases)
<1> SUFFICES ASSUME Careful PROVE Spec => ImplementsDatabases
  OBVIOUS
<1>1. Init => Promise!Init
  BY DEF Init, Promise!Init, RowsOnDisk, Current
<1>2. ASSUME SessionInv, SessionInv', [Next]_vars PROVE [Promise!Next]_<<RowsOnDisk, Current>>
  <2>1. CASE Restart
    BY <1>2, <2>1, LeaveStep, SameSimulates DEF Promise!Next
  <2>2. ~(dbHandle /\ ~Readable(World, Catalog))
    BY <1>2, OpenState
  <2>3. CASE UNCHANGED vars
    BY <2>3 DEF vars, process, RowsOnDisk, RowsIn, Current
  <2> QED
    BY <1>2, <2>1, <2>2, <2>3, DatabaseSimulates, TableSimulates DEF Next
<1> QED
  BY <1>1, <1>2, SessionInvariant, PTL DEF Spec, Promise!Spec, Promise!vars, ImplementsDatabases
=============================================================================
