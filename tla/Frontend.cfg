SPECIFICATION Spec
CONSTANTS
  Names <- MCNames
  Numbers <- MCNumbers
  Quoted <- MCQuoted
  Statements <- MCStatements
  Inputs <- MCInputs
  MAXNODE = 13
INVARIANTS
  ExecutedAsTyped
  TreesAsRead
PROPERTY
  SessionEnds
CHECK_DEADLOCK FALSE
