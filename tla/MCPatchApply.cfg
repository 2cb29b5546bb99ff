SPECIFICATION FairSpec
CONSTANTS
  File <- MCFile
  Entry <- MCEntry
  LocalEntry = {"c"}
  Diffs <- MCDiffs
  Deleted = {"d", "e"}
  MayLack = {"d"}
  OldSize <- MCOldSize
  NewSize <- MCNewSize
  PayloadSize <- MCPayloadSize
  MaxCrashes = 1
  MaxFaults = 1
INVARIANTS
  NothingMissing
  DeferredLast
  PeakCoversWaves
PROPERTIES
  AssetsKept
  Recovers
