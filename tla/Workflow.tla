------------------------------ MODULE Workflow ------------------------------
(***************************************************************************)
(* A workflow as createFsm lowers it, what `aharness verify` accepts of it  *)
(* and how the XState actor settles it.                                     *)
(*                                                                         *)
(* The states form a tree: the children of Root are the workflow's own, the *)
(* children of a host are the states of the workflow embedded there.  A     *)
(* target is written as a key and names a sibling.  A workflow w is a       *)
(* record of functions over the states:                                     *)
(*   key    the name a state has among its siblings                         *)
(*   kind   "stateful", "choice", "passive", "final" or "host"              *)
(*   to     a submit's route, a choice's options or the `always` of a        *)
(*          passive state, in order; a branch is [to, guarded]              *)
(*   event  where its custom event leads: a key, STAY, or NULL if it has none *)
(*   invoke where the onDone of its invoked actor leads, or NULL             *)
(*   wired  for a final of an embedded workflow, the `to` of its handler     *)
(* Predicates read the workflow's data, which is not modelled: all those a   *)
(* passive state consults in one macrostep have one value.                  *)
(***************************************************************************)
EXTENDS Naturals, FiniteSets, Sequences, Functions

CONSTANTS Nodes,     \* every state but the root
          Root,
          Parent,    \* [Nodes -> Nodes \cup {Root}]
          Initial,   \* the initial child of the root and of each host
          STAY, NULL

Rounds == 0 .. 2 * Cardinality(Nodes)

\* The hosts around each state: what every set has in it that holds a state's host
\* and the host of each of its own.
Around(n) == {S \in SUBSET Nodes : {Parent[m] : m \in S \cup {n}} \ {Root} \subseteq S}
Hosts == [n \in Nodes |-> {h \in Nodes : \A S \in Around(n) : h \in S}]

ASSUME TreeAssumption ==
  /\ IsFiniteSet(Nodes) /\ Root \notin Nodes
  /\ Parent \in [Nodes -> Nodes \cup {Root}]
  /\ \A n \in Nodes : n \notin Hosts[n]
  /\ Initial[Root] \in Nodes

Named(w, n, k) == {m \in Nodes : Parent[m] = Parent[n] /\ w.key[m] = k}
Resolve(w, n, k) == CHOOSE m \in Named(w, n, k) : TRUE
Embedded(n) == Parent[n] # Root
FinalsOf(w, h) == {f \in Nodes : Parent[f] = h /\ w.kind[f] = "final"}

-----------------------------------------------------------------------------
(* The verifier *)

\* The keys a node's own transitions name, its embedded finals' handlers apart.
Keys(w, n) == {w.to[n][i].to : i \in DOMAIN w.to[n]}
              \cup ({w.event[n], w.invoke[n]} \ {STAY, NULL})

outgoingTargets(w, n) ==
  IF w.kind[n] = "host" THEN UNION {Named(w, n, w.wired[f]) : f \in FinalsOf(w, n)}
                        ELSE UNION {Named(w, n, k) : k \in Keys(w, n)}

\* checkReachability: the initial children and the targets of what is reached.
checkReachability(w) ==
  LET Reached[i \in Rounds] ==
        IF i = 0 THEN {Root}
        ELSE LET R == Reached[i - 1] IN
             R \cup {Initial[n] : n \in R \cap DOMAIN Initial}
               \cup UNION {outgoingTargets(w, n) : n \in R \ {Root}}
  IN Nodes \subseteq Reached[Cardinality(Nodes)]

\* Some final is enough.
SomeFinal(w) == \E n \in Nodes : w.kind[n] = "final"
\* checkTerminalReachability: a state can reach a final if a target can or, for a
\* host, if a child can: a final of an embedded workflow counts as one.
checkTerminalReachability(w) ==
  LET Can[i \in Rounds] ==
        IF i = 0 THEN {n \in Nodes : w.kind[n] = "final"}
        ELSE LET C == Can[i - 1] IN
             C \cup {n \in Nodes : outgoingTargets(w, n) \cap C # {}}
               \cup {Parent[n] : n \in {c \in C : Embedded(c)}}
  IN /\ Can[0] # {}
     /\ Nodes \subseteq Can[Cardinality(Nodes)]

\* checkNoBlackHoleNonTerminals, with fsm.state's and fsm.choice's own refusals.
checkNoBlackHoleNonTerminals(w) ==
  \A n \in Nodes : w.kind[n] \in {"stateful", "choice", "passive"} =>
    w.to[n] # << >> \/ w.event[n] # NULL \/ w.invoke[n] # NULL

\* Every written target names a sibling.
checkExitTargetInStateSet(w) ==
  \A n \in Nodes : \A k \in Keys(w, n) : Named(w, n, k) # {}

\* The last branch of a submit's route is its catch-all.
checkWhenLastUnguarded(w) ==
  \A n \in Nodes : w.kind[n] = "stateful" /\ w.to[n] # << >> =>
    ~w.to[n][Len(w.to[n])].guarded

\* Each embedded workflow has a final, and the host handles every one.
checkEmbeddedFinals(w) ==
  \A h \in Nodes : w.kind[h] = "host" =>
    /\ FinalsOf(w, h) # {}
    /\ \A f \in FinalsOf(w, h) : Named(w, h, w.wired[f]) # {}

verify(w) == /\ checkReachability(w)
             /\ checkTerminalReachability(w)
             /\ checkNoBlackHoleNonTerminals(w)
             /\ checkExitTargetInStateSet(w)
             /\ checkWhenLastUnguarded(w)
             /\ checkEmbeddedFinals(w)

-----------------------------------------------------------------------------
(* The actor *)

\* The `always` branch a passive state takes when its predicates have value g:
\* the first one that is unguarded or holds.
AlwaysTaken(w, n, g) ==
  {i \in DOMAIN w.to[n] : /\ ~w.to[n][i].guarded \/ g
                          /\ \A j \in 1 .. i - 1 : w.to[n][j].guarded /\ ~g}

\* The macrostep that enters n: a host enters its initial child, a passive state
\* follows `always`, an embedded final raises its host's handler.  The leaf it ends
\* in and the embedded finals it went through.
Macrostep(w, n, g) ==
  LET Enter[i \in Rounds] ==
        [m \in Nodes |->
           IF i = 0 THEN [at |-> m, through |-> << >>]
           ELSE CASE w.kind[m] = "host" -> Enter[i - 1][Initial[m]]
                  [] w.kind[m] = "final" /\ Embedded(m) ->
                       LET rest == Enter[i - 1][Resolve(w, Parent[m], w.wired[m])]
                       IN  [rest EXCEPT !.through = <<m>> \o @]
                  [] w.kind[m] = "passive" /\ AlwaysTaken(w, m, g) # {} ->
                       LET taken == CHOOSE j \in AlwaysTaken(w, m, g) : TRUE
                       IN  Enter[i - 1][Resolve(w, m, w.to[m][taken].to)]
                  [] OTHER -> [at |-> m, through |-> << >>]]
  IN Enter[2 * Cardinality(Nodes)][n]

\* A passive state whose branches are all guarded rests when none holds.
Undecided(w, n) == /\ w.kind[n] = "passive" /\ w.invoke[n] = NULL
                   /\ \A i \in DOMAIN w.to[n] : w.to[n][i].guarded

=============================================================================
