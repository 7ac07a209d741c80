CONSTANTS
  CLists <- MCCLists
  PoolOf <- MCPoolOf
  SocketOf <- MCSocketOf
  CoresOf <- MCCoresOf
  Requests <- MixedRequests
  w1 = w1
  w2 = w2
  Wrappers = {w1, w2}
  Reconcilers = {r1}
  Readers = {d1}
  p1 = p1
  p2 = p2
  p3 = p3
  Pids = {p1, p2, p3}
  NoPid = NoPid
  AlienPids = {p3}
  Free = Free
  Entrypoints = {w1, w2}
  Restartable = {r1}
  KillPoints <- Anywhere
  ApiFaults = {"fail", "lost"}
SYMMETRY Symmetry
SPECIFICATION Spec
INVARIANTS NodeInv LockExclusive GrantRecorded GrantsDisjoint CpusUsedOnce GrantMatchesRequest
PROPERTIES OnlyHolderWrites GrantsSpec
