CONSTANTS
  Core <- MCCore
  Resource <- MCResource
  Manifest <- MCManifest
  Index <- MCIndex
  Releases <- ThreeReleases
  Patches <- Consecutive
  Hdiff = {"vfs"}
  PatchConfig = FALSE
  Scopes = {"default"}
  Policies = {TRUE}
  MayDefer = TRUE
  MaxFaults = 2
  Bad = Bad
  NoChange = NoChange

SPECIFICATION FairSpec
INVARIANTS LaunchComplete
PROPERTIES ModifiedKept VerifyCloses
