CONSTANTS
  n1 = n1
  n2 = n2
  Nodes = {n1, n2}
  Hosts <- MCHosts
  NamesWith <- FirstNameInBoth
  CmdLists <- OnlyDefault
  NoTaint = FALSE
  NonIsolcpus = FALSE
  ApiFaults = {}
  Uninstalls = {n1}
  MaxRuns = 2
SPECIFICATION FairSpec
PROPERTIES DaemonsAfterPools
CHECK_DEADLOCK FALSE
