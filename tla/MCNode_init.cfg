CONSTANTS
  CLists <- MCCLists
  PoolOf <- MCPoolOf
  SocketOf <- MCSocketOf
  CoresOf <- MCCoresOf
  Requests <- MCRequests
  Wrappers = {w1, w2}
  Reconcilers = {r1}
  Readers = {}
  w1 = w1
  w2 = w2
  p1 = p1
  p2 = p2
  p3 = p3
  Pids = {p1, p2, p3}
  NoPid = NoPid
  AlienPids = {}
  Free = Free
  Entrypoints = {w1, w2}
  Restartable = {}
  KillPoints = {}
  ApiFaults = {}
SPECIFICATION SpecInitAgain
INVARIANTS OneIsolateUpdates
