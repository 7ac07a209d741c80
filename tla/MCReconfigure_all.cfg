SPECIFICATION FairSpec
CONSTANTS
  Pids <- MCPids
  Cores <- MCCores
  Plans <- MCPlans
  Before <- MCBefore
  Stubs <- MCStubs
  Late <- MCLate
  Faults <- AllFaults
  MaxRuns = 2
INVARIANTS
  TypeOK
  GrantsKept
  Truthful
  SuccessIsReal
PROPERTIES
  SharesKept
  StaysIfPossible
  Ends
CHECK_DEADLOCK FALSE
