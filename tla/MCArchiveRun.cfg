SPECIFICATION FairSpec
CONSTANTS
  VolumeEnd <- MCVolumeEnd
  Start <- MCStart
  Packed <- MCPacked
  CentralStart = 5
  TailSearch = 2
  Controls = {4}
  Excluded = {1}
  TargetShards = 2
  ShardBytes = 3
  ShardEntries = 2
  MaxRetries = 1
  MaxFaults = 1
  MaxCrashes = 1
INVARIANTS
  PlanExact
  ReadersKeepRanges
  StagingWhileExtracting
  ControlsLast

  
