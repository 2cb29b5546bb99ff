------------------------------ MODULE EnsureFile ------------------------------
(***************************************************************************)
(* What the file tasks promise of one final file: until the run reports,   *)
(* the file changes only to its expected content, except when a reuse      *)
(* source was changed under the run; a success is reported only for a file *)
(* the chosen check accepts, and nothing touches the file afterwards.      *)
(***************************************************************************)
CONSTANT Content   \* what a path can hold: "good" is the expected content

VARIABLES
  dest,      \* what the final path holds
  accepts,   \* the contents the chosen check accepts
  tampered,  \* a reuse source was changed by somebody else during the run
  report     \* "none", "ok" or "failed"

vars == <<dest, accepts, tampered, report>>

Init ==
  /\ dest \in Content
  /\ accepts \in SUBSET Content /\ "good" \in accepts
  /\ tampered = FALSE
  /\ report = "none"

Replace ==
  /\ report = "none"
  /\ dest' \in IF tampered THEN Content ELSE {"good"}
  /\ UNCHANGED <<accepts, tampered, report>>
Tamper ==
  /\ report = "none"
  /\ tampered' = TRUE
  /\ UNCHANGED <<dest, accepts, report>>
Succeed ==
  /\ report = "none" /\ dest \in accepts
  /\ report' = "ok"
  /\ UNCHANGED <<dest, accepts, tampered>>
Fail ==
  /\ report = "none"
  /\ report' = "failed"
  /\ UNCHANGED <<dest, accepts, tampered>>
Restart ==
  /\ report = "failed"
  /\ report' = "none"
  /\ UNCHANGED <<dest, accepts, tampered>>

Next == Replace \/ Tamper \/ Succeed \/ Fail \/ Restart
Spec == Init /\ [][Next]_vars
=============================================================================
