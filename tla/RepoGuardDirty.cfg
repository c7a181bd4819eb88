SPECIFICATION Spec
CONSTANTS
  File <- MCFile
  Value <- MCValue
  Absent = "absent"
  Branch = {"main", "topic"}
  Ignored = {}
  Protected = {"main"}
  Volatile = {"lock", "temp"}
  StartTree <- MCTree
  StartWork <- MCWork
  MaxSteps = 1
INVARIANT TrackedDisappearanceFails
CHECK_DEADLOCK FALSE
