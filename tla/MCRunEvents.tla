---------------------------- MODULE MCRunEvents -----------------------------
(* The instance on which TLC checks RunEvents.  The questions are           *)
(* interchangeable, but StreamSpec has a liveness part: no symmetry.        *)
EXTENDS RunEvents
=============================================================================
