SPECIFICATION FairSpec
CONSTANTS
  Pids <- MCPids
  Cores <- MCCores
  Plans <- MCPlans
  Before <- MCBefore
  Stubs <- NoStubs
  Late <- NoPids
  Faults <- NoFaults
  MaxRuns = 1
PROPERTIES
  Reconfigured
CHECK_DEADLOCK FALSE
