SPECIFICATION Spec
CONSTANTS
  Path <- MCPath
  Content <- MCContent
  Size <- MCSize
  Currents <- MCCurrents
  Targets <- MCTargets
  Foreign = {"mine", "same"}
  MaxStops = 2
INVARIANTS
  TransitionsReady
  Complete
PROPERTIES
  OwnedOnly
