SPECIFICATION Spec
CONSTANTS
  Name = {g, h}
  MaxGates = 3
  MaxRuns = 2
INVARIANT TypeOK
INVARIANT VerdictExact
CHECK_DEADLOCK FALSE
