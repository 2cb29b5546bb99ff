SPECIFICATION Spec
CONSTANTS
  Path <- MCPath
  Content <- MCContent
  Size <- MCSize
  Releases = 3
  File <- MCFile
  Version <- MCVersion
  Foreign = {"mine"}
  Roots = 2
  MaxCrashes = 2
  MaxFaults = 3
  MaxEdits = 1
INVARIANTS
  LaunchWhole
PROPERTIES
  ProvenOnly
  OldRemoved
