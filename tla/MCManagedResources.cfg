SPECIFICATION RootFairSpec
CONSTANTS
  Resource = {"a", "b", "c"}
  Group = {"initial", "main"}
  Releases = 2
  Doc <- MCDoc
  Unversioned <- MCUnversioned
  Kinds = {"persistent", "assets"}
  Selections <- MCSelections
  MaxChanges = 1
  MaxFaults = 1
  MaxCrashes = 1
CHECK_DEADLOCK FALSE
INVARIANTS
  RecordTrue
  NoOrphans
PROPERTIES
  Converges
