---------------------------- MODULE MCTurnControl ----------------------------
(* A small workflow on which TLC checks TurnControl: two plain states, one  *)
(* that starts on a fresh thread, an open chat, an owner choice, an end.    *)
EXTENDS TurnControl

CONSTANTS work, step, gate, fresh, chat, done

SubmitsCore == {<<work, step>>, <<step, gate>>, <<step, fresh>>, <<fresh, work>>,
                <<work, chat>>, <<chat, done>>}
SubmitsAll == {<<work, step>>, <<step, gate>>, <<step, fresh>>, <<work, chat>>}
OptionsCore == {<<gate, work>>, <<gate, fresh>>, <<gate, done>>}
Hooks == {<<work, fresh>>, <<chat, done>>}
Emits == {<<step, gate>>, <<step, fresh>>}
None == {}
=============================================================================
