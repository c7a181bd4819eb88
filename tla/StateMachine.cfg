SPECIFICATION FairSpec
CONSTANTS
  MaxRework = 2
  MaxApprovals = 1
INVARIANTS
  TypeOK
  AcceptedWasValidated
  ExecutionsAccounted
  NeverStuck
PROPERTIES
  RunEnds
  EveryMoveCosts
  ImplementsLifecycle
