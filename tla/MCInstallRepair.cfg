CONSTANTS
  Core <- MCCore
  Resource <- MCResource
  Manifest <- MCManifest
  Index <- MCIndex
  Releases <- OneRelease
  Patches = {}
  Hdiff = {"vfs"}
  PatchConfig = FALSE
  Scopes = {"default", "core", "resources"}
  Policies = {TRUE, FALSE}
  MayDefer = TRUE
  MaxFaults = 3
  Bad = Bad
  NoChange = NoChange

SPECIFICATION Spec
INVARIANTS RepairKept
