CONSTANTS
  Cores <- MCCores
  Inputs <- AllInputs
SPECIFICATION Spec
INVARIANTS TypeOK SizesAsRequested ListsSeparate IsolatedKept FailsOnlyIfImpossible SpreadBalanced
CHECK_DEADLOCK FALSE
