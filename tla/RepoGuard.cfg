SPECIFICATION Spec
CONSTANTS
  File <- MCFile
  Value <- MCValue
  Absent = "absent"
  Branch = {"main", "topic"}
  Ignored = {}
  Protected = {"main"}
  Volatile = {"lock", "temp"}
  StartTree <- MCTree
  StartWork <- MCWork
  MaxSteps = 3
INVARIANT TypeOK
INVARIANT ProtectedContentKept
INVARIANT OnlyVolatileDrift
INVARIANT UnchangedMatches
CHECK_DEADLOCK FALSE
