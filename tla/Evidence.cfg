SPECIFICATION BundleSpec
CONSTANTS
  Proc = {p1, p2}
  Name = {"a"}
  Value <- MCValue
  Size <- MCSize
  Absent = Absent
  Unreadable = Unreadable
  Malformed = Malformed
  MaxChanges = 1
  MaxRuns = 2
  MaxCrashes = 1
  MaxEvents = 4
  Raised = Raised
INVARIANT TypeOK
INVARIANT TamperDetected
INVARIANT NoFalseAlarm
INVARIANT ManifestFaithful
INVARIANT RaisesOnlyWhenDisturbed
INVARIANT StreamFaithful
PROPERTY RunsEnd
CHECK_DEADLOCK FALSE
