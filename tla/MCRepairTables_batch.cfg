SPECIFICATION FairSpec
CONSTANTS
  x = x
  y = y
  a = a
  b = b
  Operator = {a, b}
  Path = {x, y}
  Tables <- MCTables
  NoTable = NoTable
  MaxWrites = 1
INVARIANTS
  RowsSurvive
  GapIsRecoverable
  DoneMeansRepaired
PROPERTIES
  UnsafeUntouched
  RunsEnd
