--------------------------- MODULE MCCodexSidecar ----------------------------
(* The instances on which TLC checks CodexSidecar. *)
EXTENDS CodexSidecar
=============================================================================
