--------------------------- MODULE SessionAbstract ---------------------------
(***************************************************************************)
(* What one provisioning session promises its caller, with the serial     *)
(* link, the waits and the device left out: it writes the payload at most *)
(* MaxAttempts times, each write possibly applied by the device, and ends  *)
(* with one outcome that never changes afterwards.  No write follows the   *)
(* outcome; "acked" is only reported once some write was applied, and      *)
(* "acked" or "failed" only after a write.                                 *)
(***************************************************************************)
EXTENDS Naturals

CONSTANT MaxAttempts

VARIABLES
    sent,      \* payload writes so far
    applied,   \* writes the device applied
    outcome    \* "none" while the session runs

vars == <<sent, applied, outcome>>

Init == sent = 0 /\ applied = 0 /\ outcome = "none"

(* A write, applied or lost; with --no-read it ends the session.          *)
Write ==
    /\ outcome = "none"
    /\ sent < MaxAttempts
    /\ sent' = sent + 1
    /\ applied' \in {applied, applied + 1}
    /\ outcome' \in {"none", "unconfirmed"}

(* The session ends: acknowledged, given up, or by an exception.          *)
Finish ==
    /\ outcome = "none"
    /\ \E o \in {"acked", "failed", "aborted"} :
         /\ o = "acked" => applied >= 1
         /\ o \in {"acked", "failed"} => sent >= 1
         /\ outcome' = o
    /\ UNCHANGED <<sent, applied>>

Next == Write \/ Finish

Spec == Init /\ [][Next]_vars
=============================================================================
