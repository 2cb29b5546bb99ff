SPECIFICATION FairSpec
CONSTANTS
  Source <- MCSource
  SrcVolume <- MCSrcVolume
  DestVolume = "d"
  Size = 2
  ArchiveUnits = 1
  Options <- MCOptions
  Starts <- MCStarts
  MaxRetries = 1
  QueueDepth = 2
  MaxFaults = 2
  MaxCrashes = 1
INVARIANTS
  OneWriter
  HashIsOfFile
PROPERTIES
  ImplementsEnsureFile
  Recovers
