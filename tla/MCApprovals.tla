----------------------------- MODULE MCApprovals -----------------------------
(* The instances on which TLC checks Approvals: the bounds are in the       *)
(* configurations, nothing is redefined.                                    *)
EXTENDS Approvals
=============================================================================
