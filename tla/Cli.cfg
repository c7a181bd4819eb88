SPECIFICATION CliSpec
CONSTANTS
  Name <- MCName
  Lower <- MCLower
  Drive <- MCDrive
  OutsideNames <- MCOutsideNames
  Specs <- MCSpecs
  Events <- MCEvents
  AllowLists <- MCAllowLists
  MaxEvents = 3
  Unchecked = Unchecked
  NoPolicy = NoPolicy
  Invocations <- MCInvocations
INVARIANTS
  VerdictExact
  ReportConsistent
  CliTypeOK
  PassIsEarned
  FailureHasCause
  ParsesWhatGitPrints
  AdapterAgrees
CHECK_DEADLOCK FALSE
