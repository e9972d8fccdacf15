SPECIFICATION Spec
CONSTANTS
  MAX_RID = 3
  Ints = {1, 2, 3}
  Statements <- MCStatements
  NoRow = NoRow
  NoRID = NoRID
INVARIANTS
  StatementExact
  KeysUnique
PROPERTIES
  StatementEnds
  StatementsAtomic
