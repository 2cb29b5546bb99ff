--------------------------- MODULE MCFileTransfer ---------------------------
(* Three sources: two on volumes a hard link can use or not, one elsewhere. *)
EXTENDS FileTransfer

MCSource == {"near", "far", "other"}
MCSrcVolume == [near |-> "d", far |-> "x", other |-> "y"]
MCOption(check, prefer, force, fallback, url, archive) ==
  [check |-> check, prefer |-> prefer, copyOnly |-> force, copyFallback |-> fallback,
   url |-> url, archive |-> archive]
MCOptions ==
  {MCOption("hash", FALSE, FALSE, TRUE, TRUE, TRUE),
   MCOption("metadata", FALSE, FALSE, FALSE, TRUE, FALSE),
   MCOption("none", TRUE, FALSE, TRUE, FALSE, FALSE),
   MCOption("hash", TRUE, FALSE, FALSE, TRUE, TRUE),
   MCOption("none", FALSE, TRUE, TRUE, FALSE, FALSE)}
MCStart(d, len, ok) == [dest |-> d, part |-> [len |-> len, ok |-> ok]]
MCStarts ==
  {MCStart("absent", 0, TRUE), MCStart("wrong", 1, FALSE), MCStart("good", 2, TRUE),
   MCStart("short", 2, FALSE), MCStart("short", 3, FALSE), MCStart("absent", 1, TRUE)}
=============================================================================
