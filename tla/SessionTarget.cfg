SPECIFICATION Spec
CONSTANTS
  Names = {a, b}
  Tables = {t}
  Rows = {r1}
  Home = Home
  Removed = Removed
  Absent = Absent
  Blank = Blank
  Careful = FALSE
INVARIANT OpenFilesAreCurrent
