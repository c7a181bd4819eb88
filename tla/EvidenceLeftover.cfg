SPECIFICATION BundleSpec
CONSTANTS
  Proc = {p1}
  Name = {"a"}
  Value <- MCValue
  Size <- MCSize
  Absent = Absent
  Unreadable = Unreadable
  Malformed = Malformed
  MaxChanges = 1
  MaxRuns = 2
  MaxCrashes = 1
  MaxEvents = 0
  Raised = Raised
INVARIANT FreshManifestVerifies
CHECK_DEADLOCK FALSE
