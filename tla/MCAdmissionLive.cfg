SPECIFICATION FairSpec
CONSTANTS
  verify1 = verify1
  verify2 = verify2
  Task = {"retry", "link", "probe"}
  Volume <- MCVolume
  Volumes <- MCVolume
  Path <- MCPath
  Req <- BurstReq
  Dynamic = {"retry", "link"}
  Again = {"retry"}
  Policy <- MCMixed
  SlotLimit <- MCOneSlot
  ContinuationBurst = 4
  Lookahead = 64
  BatchCapacity = 1
  DiskSize <- MCDisk
  Unprobed = {}
  NoCache = NoCache
PROPERTY EveryTaskRuns
