SPECIFICATION Spec
SYMMETRY Twins
VIEW WithoutCursor
CONSTANTS
  verify1 = verify1
  verify2 = verify2
  Task = {verify1, verify2, "fetch", "patch", "extract"}
  Volume <- MCVolume
  Volumes <- MCVolume
  Path <- MCPath
  Req <- BusyReq
  Dynamic = {"patch"}
  Again = {}
  Policy <- MCTwoKinds
  SlotLimit <- MCTwoBlocking
  ContinuationBurst = 1
  Lookahead = 1
  BatchCapacity = 2
  DiskSize <- MCDisk
  Unprobed = {"v2"}
  NoCache = NoCache
INVARIANTS
  Accounting
  WorkIsolated
  CacheExact
  NoOvercommit
