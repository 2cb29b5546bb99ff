---------------------------- MODULE MCInstallChange ----------------------------
EXTENDS InstallChange

(* An executable every release changes, a bundle only the second one changes, a
   tool the third one drops, and two resource files of which the second index
   drops one. No file returns to the content of an earlier release. *)
MCCore == {"exe", "bundle", "tool"}
MCResource == {"vfs", "old"}

Listed(exe, bundle, tool, vfs, old) ==
  [exe |-> exe, bundle |-> bundle, tool |-> tool, vfs |-> vfs, old |-> old]

MCManifest == << Listed(1, 1, 1, 1, 1), Listed(2, 2, 1, 2, 0), Listed(3, 2, 0, 2, 0) >>

MCIndex    == << Listed(0, 0, 0, 1, 1), Listed(0, 0, 0, 2, 0) >>

Release(version, manifest, resources) ==
  [version |-> version, manifest |-> manifest, resources |-> resources]

(* The third release has no resource index. *)
OneRelease    == << Release(1, 1, 1) >>
ThreeReleases == << Release(1, 1, 1), Release(2, 2, 2), Release(3, 3, 0) >>

Consecutive == { <<1, 2>>, <<2, 3>> }
================================================================================
