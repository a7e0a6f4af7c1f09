-------------------------- MODULE MCModelSettings ---------------------------
(* The instance on which TLC checks ModelSettings: two states with models   *)
(* of their own, one without, one clear state without, an open state and an *)
(* owner choice.                                                            *)
EXTENDS ModelSettings

Declared == [s \in States |-> CASE s = "plan" -> "big" [] s = "code" -> "small"
                               [] OTHER -> "none"]
=============================================================================
