SPECIFICATION IntakeSpec
CONSTANTS
  Name <- MCName
  Lower <- MCLower
  Drive <- MCDrive
  Tasks <- MCTasks
  Requests <- MCRequests
  NoSpec = NoSpec
  NoDecision = NoDecision
  Length <- MCLength
  Matching <- MCMatching
  PathOf <- MCPathOf
  WordsOf <- MCWordsOf
  Values <- MCValues
  Schemas <- MCSchemas
  Policies <- MCPolicies
  Cases <- MCCases
INVARIANTS
  TypeOK
  GrantsAvoidProtected
  WriteImpliesRead
  CategoriesExclusive
  ContractExact
  AdmittedWithinBounds
  ContractGap
CHECK_DEADLOCK FALSE
