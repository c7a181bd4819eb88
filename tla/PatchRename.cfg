SPECIFICATION CliSpec
CONSTANTS
  Name <- MCName
  Lower <- MCLower
  Drive <- MCDrive
  OutsideNames <- MCOutsideNames
  Specs <- MCSpecs
  Events <- MCSeveralCalls
  AllowLists <- MCAllowLists
  MaxEvents = 2
  Unchecked = Unchecked
  NoPolicy = NoPolicy
  Invocations <- MCRenameInvocations
INVARIANTS
  ScopeEnforcedOnEveryChange
CHECK_DEADLOCK FALSE
