SPECIFICATION Spec
CONSTANTS
  Names = {a, b}
  Tables = {t}
  Rows = {r1, r2}
  Removed = Removed
  Home = Home
  Absent = Absent
  Blank = Blank
  Careful = TRUE
INVARIANTS
  NeverStuck
  OpenFilesAreCurrent
PROPERTY
  ImplementsDatabases
