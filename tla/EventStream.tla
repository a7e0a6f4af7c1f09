----------------------------- MODULE EventStream -----------------------------
(****************************************************************************)
(* What the run promises to whoever follows it: a log that only grows at    *)
(* its end, and followers that see its events in order, none left out and   *)
(* none twice, wherever they start and however often they start again.      *)
(* While the run serves them they do not fall behind for ever.              *)
(****************************************************************************)
EXTENDS Naturals, Sequences, SequencesExt

CONSTANT Followers
VARIABLES
    log,      \* the events of the run
    seen,     \* what each follower has seen since it started
    serving   \* the run still answers
vars == <<log, seen, serving>>

Init ==
    /\ log = <<>> /\ serving = TRUE
    /\ seen = [f \in Followers |-> <<>>]

Publish == IsPrefix(log, log') /\ UNCHANGED <<seen, serving>>

Advance(f) ==
    \E n \in (Len(seen[f]) + 1)..Len(log) :
        seen' = [seen EXCEPT ![f] = SubSeq(log, 1, n)] /\ UNCHANGED <<log, serving>>

StartAgain(f) == seen' = [seen EXCEPT ![f] = <<>>] /\ UNCHANGED <<log, serving>>

Stop == serving' = FALSE /\ UNCHANGED <<log, seen>>

Next == Publish \/ Stop \/ \E f \in Followers : Advance(f) \/ StartAgain(f)

Spec == /\ Init /\ [][Next]_vars
        /\ \A f \in Followers : WF_vars(serving /\ Advance(f))
=============================================================================
