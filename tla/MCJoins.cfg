SPECIFICATION JoinsSpec
CONSTANTS
  a = a
  b = b
  k = k
  Relations = {a, b, k}
  Froms <- MCFroms
  Contents <- MCContents
  Indexed = {k}
  Values = {2}
  MAX_CONDS = 3
  Null = Null
INVARIANT
  JoinExact
PROPERTY
  JoinEnds
