SPECIFICATION Spec
CONSTANTS
  Name = {g}
  MaxGates = 1
  MaxRuns = 1
INVARIANT AcceptedGatesPassed
CHECK_DEADLOCK FALSE
