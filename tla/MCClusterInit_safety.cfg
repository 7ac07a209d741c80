CONSTANTS
  n1 = n1
  n2 = n2
  Nodes = {n1, n2}
  Hosts <- MCHosts
  NamesWith <- OwnName
  CmdLists <- MCCmdLists
  NoTaint = FALSE
  NonIsolcpus = TRUE
  ApiFaults <- SomeCalls
  Uninstalls = {n1}
  MaxRuns = 2
SPECIFICATION FairSpec
INVARIANTS ClusterInv ReadyWhenDone AdvertisedInOrder
PROPERTIES DaemonsAfterPools PoolsGivenOnce ClusterInitEnds
CHECK_DEADLOCK FALSE
