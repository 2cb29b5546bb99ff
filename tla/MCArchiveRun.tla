---------------------------- MODULE MCArchiveRun ----------------------------
(* Two volumes of six units: an excluded entry, two direct entries of which *)
(* the first spans both volumes, a control file, and the central directory. *)
EXTENDS ArchiveRun

MCVolumeEnd == <<2, 6>>
MCStart == <<0, 1, 3, 4>>
MCPacked == <<1, 2, 1, 1>>
=============================================================================
