------------------------------ MODULE Dispatch ------------------------------
(***************************************************************************)
(* How a submit, a custom event or an owner's choice moves the workflow:     *)
(* dispatchSubmit.ts, dispatchEvent.ts and dispatchChoice.ts over            *)
(* ActorHost and canonicalTransition.ts.                                    *)
(*                                                                         *)
(* A submit is a transaction.  The dispatcher selects the branch, projects   *)
(* where it leads (a dry run, on data that no reducer has touched), awaits    *)
(* the branch's effect, computes the data the commit will assign from the     *)
(* data it read at the start, prepares the handler of the embedded final the  *)
(* branch names, and only then sends the event.  A custom event is dispatched *)
(* the same way, without a projection.                                      *)
(*                                                                         *)
(* Submits and choices queue on the dispatch chain.  An event emitted from    *)
(* code that a segment has run does not: an effect's, or that of an onEntry    *)
(* or a promise nobody awaits, at any time later.  So an event may start at    *)
(* any time, beside a submit and beside another event.  Nothing can move the  *)
(* actor while an owner's choice is prepared: a choice handles no other event. *)
(*                                                                         *)
(* The context is abstracted to the marks of the reducers applied to it and   *)
(* to __aharness_visitCount.                                                *)
(***************************************************************************)
EXTENDS DispatchState

CONSTANTS MaxCommits

VARIABLES card,     \* the pending owner choice, or NULL
          cards,    \* every owner choice card published so far
          commits   \* events taken; bounded by MaxCommits

vars == <<wf, at, alive, ctx, open, emits, last, card, cards, commits, made, crossed>>

Mark == (1 .. MaxCommits) \X {"branch", "handler"}
Context == [marks : SUBSET Mark, visits : [Nodes -> 0 .. 2 * MaxCommits + 1]]

Counted(n) == wf.kind[n] \in {"stateful", "choice"}

\* entry action VISIT_ACTION
Visit(c, n) == IF Counted(n) THEN [c EXCEPT !.visits[n] = @ + 1] ELSE c

\* publishActiveOwnerChoicePending
CardOf(n, c, visit) ==
  IF wf.kind[n] = "choice" THEN [state |-> n, visitCount |-> c.visits[n], visit |-> visit]
                           ELSE NULL

\* The final of the outermost host.
OutermostNamed(n, k) ==
  {f \in Nodes : /\ wf.kind[f] = "final" /\ wf.key[f] = k /\ Parent[f] \in Hosts[n]
                 /\ \A f2 \in Nodes : /\ wf.kind[f2] = "final" /\ wf.key[f2] = k
                                      /\ Parent[f2] \in Hosts[n]
                                      => Hosts[f] \subseteq Hosts[f2]}
\* resolveCanonicalEmbeddedFinal: the innermost host around n with a final of that name.
FinalNamed(n, k) ==
  {f \in Nodes : /\ wf.kind[f] = "final" /\ wf.key[f] = k /\ Parent[f] \in Hosts[n]
                 /\ \A f2 \in Nodes : /\ wf.kind[f2] = "final" /\ wf.key[f2] = k
                                      /\ Parent[f2] \in Hosts[n]
                                      => Hosts[f2] \subseteq Hosts[f]}

-----------------------------------------------------------------------------
\* The actor takes a transition from n to the sibling keyed k (or none: STAY),
\* whose actions assign c; h is the data prepared for an embedded final's handler,
\* or NULL, and g the value of the passive predicates.  A handler entered without
\* prepared data throws.  A transition to its own source does not re-enter it.
\* did: the marks of what was assigned on the way.
Take(n, k, c, h, g) ==
  IF k = STAY \/ Named(wf, n, k) = {n}
  THEN [at |-> n, alive |-> TRUE, ctx |-> c, through |-> << >>, did |-> c.marks]
  ELSE LET m == Macrostep(wf, Resolve(wf, n, k), g)
           d == IF m.through = << >> THEN c ELSE h
       IN IF d = NULL
          THEN [at |-> n, alive |-> FALSE, ctx |-> ctx, through |-> m.through, did |-> {}]
          ELSE [at |-> m.at, alive |-> TRUE, ctx |-> Visit(d, m.at), through |-> m.through,
                did |-> c.marks \cup d.marks]

\* A dry run that stops at the declared target, not at the leaf it settles in.
ProjectTarget(n, k, g) == Resolve(wf, n, k)
\* The dry run's leaf: the same transition on the data before any reducer.
Project(n, k, g) == IF Named(wf, n, k) = {n} THEN n ELSE Macrostep(wf, Resolve(wf, n, k), g).at

\* A submit, or an event in one of the slots S, is being prepared.
Preparing(S) == \/ open # NULL /\ open.phase = "preparing"
                \/ \E i \in S : emits[i] # NULL

\* The actor is as r says; a new visit to a choice publishes its card.
Become(r) ==
  /\ at' = r.at /\ alive' = r.alive /\ ctx' = r.ctx
  /\ commits' = commits + 1
  /\ made' = made \cup r.did
  /\ card' = CardOf(r.at, r.ctx, commits + 1)
  /\ cards' = cards \cup ({card'} \ {NULL})

Reduce(c, part, reduces) ==
  IF reduces THEN [c EXCEPT !.marks = @ \cup {<<commits + 1, part>>}] ELSE c

\* A handler that works on the live data, without the branch's reduction.
HandleUnreduced(n, k, c, reduces) ==
  IF FinalNamed(n, k) = {} THEN NULL ELSE Reduce(ctx, "handler", reduces)
\* prepareEmbeddedFinalCommit: the data of the handler of the final k names.
Handle(n, k, c, reduces) ==
  IF FinalNamed(n, k) = {} THEN NULL ELSE Reduce(c, "handler", reduces)

\* The commit is made while another dispatch is preparing, if others says so.
Cross(others) == crossed' = IF others THEN crossed \cup {commits + 1} ELSE crossed

-----------------------------------------------------------------------------
Init ==
  /\ wf \in {w \in Workflows : verify(w)}
  /\ LET n == Initial[Root] IN
     /\ at = n
     /\ ctx = Visit([marks |-> {}, visits |-> [m \in Nodes |-> 0]], n)
     /\ card = CardOf(n, ctx, 0)
     /\ cards = {card} \ {NULL}
  /\ alive = TRUE
  /\ open = NULL /\ last = NULL
  /\ emits = [i \in Slots |-> NULL]
  /\ commits = 0
  /\ made = {} /\ crossed = {}

Idle == alive /\ open = NULL /\ commits < MaxCommits

\* The submit of the active state passes the guards; its branch is selected and
\* projected, and its effect starts.
BeginSubmit ==
  /\ Idle /\ wf.kind[at] = "stateful"
  /\ \E i \in DOMAIN wf.to[at], g \in BOOLEAN :
       /\ \A j \in 1 .. i - 1 : wf.to[at][j].guarded
       /\ open' = [phase |-> "preparing", from |-> at, key |-> wf.to[at][i].to,
                   base |-> ctx, guard |-> g, to |-> Project(at, wf.to[at][i].to, g),
                   began |-> commits]
  /\ last' = NULL
  /\ UNCHANGED <<wf, at, alive, ctx, emits, card, cards, commits, made, crossed>>

\* A custom event of the active state is emitted: its branch is selected, on the data
\* that it will be computed from, and its effect starts.
EmitEvent(i) ==
  /\ alive /\ commits < MaxCommits /\ emits[i] = NULL
  /\ wf.kind[at] = "stateful" /\ wf.event[at] # NULL
  /\ emits' = [emits EXCEPT ![i] = [key |-> wf.event[at], base |-> ctx, from |-> NULL]]
  /\ last' = NULL
  /\ UNCHANGED <<wf, at, alive, ctx, open, card, cards, commits, made, crossed>>

\* The effect is over: the final that the key names from where the actor is now is
\* prepared, and its handler's effect starts.
PrepareFinal(i) ==
  /\ emits[i] # NULL /\ emits[i].from = NULL
  /\ emits' = [emits EXCEPT ![i].from = at]
  /\ last' = NULL
  /\ UNCHANGED <<wf, at, alive, ctx, open, card, cards, commits, made, crossed>>

\* The event is sent, to whatever state the actor is in by now: one with an event of
\* the same name handles it, with the data computed.
SendEvent(i) ==
  /\ alive /\ emits[i] # NULL /\ emits[i].from # NULL /\ commits < MaxCommits
  /\ wf.kind[at] = "stateful" /\ wf.event[at] # NULL
  /\ \E reduces, handles, g \in BOOLEAN :
       LET c == Reduce(emits[i].base, "branch", reduces)
       IN  Become(Take(at, wf.event[at], c, Handle(emits[i].from, emits[i].key, c, handles), g))
  /\ Cross(Preparing(Slots \ {i}))
  /\ emits' = [emits EXCEPT ![i] = NULL]
  /\ last' = NULL
  /\ UNCHANGED <<wf, open>>

\* An effect, a reducer, the final's output or artifacts fail and nothing is sent, or
\* the state the actor is in by now does not handle the event.
LoseEvent(i) ==
  /\ emits[i] # NULL
  /\ emits' = [emits EXCEPT ![i] = NULL]
  /\ last' = NULL
  /\ UNCHANGED <<wf, at, alive, ctx, open, card, cards, commits, made, crossed>>

\* The effect, a reducer, the final's output or handler, the projected prompt or the
\* final's artifacts fail, or the projection rests in a passive state that cannot
\* settle: the reply says so and nothing is sent.
RefuseSubmit ==
  /\ open # NULL /\ open.phase = "preparing"
  /\ open' = NULL /\ last' = NULL
  /\ UNCHANGED <<wf, at, alive, ctx, emits, card, cards, commits, made, crossed>>

\* The dispatcher reports the projected leaf and acts on it, except that a submit
\* projected to rest in a passive state waits until the actor leaves it.
Reports(r) ==
  IF wf.kind[open.to] = "passive"
  THEN /\ open' = [open EXCEPT !.phase = "settling"]
       /\ last' = NULL
  ELSE /\ open' = NULL
       /\ last' = r

\* The event is sent to the actor, and taken.
CommitSubmit ==
  /\ alive /\ open # NULL /\ open.phase = "preparing" /\ commits < MaxCommits
  /\ at = open.from
  /\ \E reduces, handles, g \in BOOLEAN :
       LET c == Reduce(open.base, "branch", reduces)
           r == Take(at, open.key, c, Handle(at, open.key, c, handles), g)
       IN /\ g # open.guard => reduces \/ handles \/ commits # open.began
          /\ Become(r)
          /\ Reports([reported |-> open.to, at |-> r.at, alive |-> r.alive,
                      handled |-> FinalNamed(at, open.key), through |-> r.through,
                      overtaken |-> commits # open.began, swayed |-> g # open.guard])
  /\ Cross(\E i \in Slots : emits[i] # NULL)
  /\ UNCHANGED <<wf, emits>>

\* A custom event has moved the actor on: where it is now, the submit's event is not
\* handled, and the dispatcher reports it all the same.
MissSubmit ==
  /\ alive /\ open # NULL /\ open.phase = "preparing"
  /\ at # open.from
  /\ Reports([reported |-> open.to, at |-> at, alive |-> TRUE,
              handled |-> FinalNamed(open.from, open.key), through |-> << >>,
              overtaken |-> TRUE, swayed |-> FALSE])
  /\ UNCHANGED <<wf, at, alive, ctx, emits, card, cards, commits, made, crossed>>

\* waitForSnapshot: the actor has left the passive state.
FinishSubmit ==
  /\ alive /\ open # NULL /\ open.phase = "settling"
  /\ wf.kind[at] # "passive"
  /\ open' = NULL
  /\ last' = NULL
  /\ UNCHANGED <<wf, at, alive, ctx, emits, card, cards, commits, made, crossed>>

\* The actor a passive state invokes is done.
InvokeDone ==
  /\ alive /\ commits < MaxCommits
  /\ wf.kind[at] = "passive" /\ wf.invoke[at] # NULL
  /\ \E g \in BOOLEAN : Become(Take(at, wf.invoke[at], ctx, NULL, g))
  /\ Cross(Preparing(Slots))
  /\ last' = NULL
  /\ UNCHANGED <<wf, open, emits>>

\* validateOwnerChoiceReply
validateOwnerChoiceReply(c) ==
  /\ wf.kind[at] = "choice"
  /\ c.state = at
  /\ c.visitCount = ctx.visits[at]

\* commitOwnerChoice: the reply to a card that passes.  An option's handler works on
\* the data the dry run ended with, in which the target's visit is already counted;
\* an option back to the choice itself counts the visit on the transition.
AnswerChoice ==
  /\ Idle
  /\ \E c \in cards, i \in DOMAIN wf.to[at], handles, g, now \in BOOLEAN :
       LET k == wf.to[at][i].to
           dry == Visit(ctx, Project(at, k, g))
           loop == Named(wf, at, k) = {at}
           r == Take(at, k, IF loop THEN Visit(ctx, at) ELSE ctx, Handle(at, k, dry, handles), now)
       IN /\ validateOwnerChoiceReply(c)
          /\ now # g => handles
          /\ Become(r)
          /\ last' = [reported |-> r.at, at |-> r.at, alive |-> r.alive,
                      handled |-> FinalNamed(at, k), through |-> r.through,
                      overtaken |-> FALSE, swayed |-> FALSE]
  /\ Cross(Preparing(Slots))
  /\ UNCHANGED <<wf, open, emits>>

Next == \/ BeginSubmit \/ RefuseSubmit \/ CommitSubmit \/ MissSubmit \/ FinishSubmit
        \/ InvokeDone \/ AnswerChoice
        \/ \E i \in Slots : EmitEvent(i) \/ PrepareFinal(i) \/ SendEvent(i) \/ LoseEvent(i)

Spec == Init /\ [][Next]_vars

-----------------------------------------------------------------------------
(* Properties *)

TypeOK ==
  /\ at \in Nodes /\ Leaf(at) /\ alive \in BOOLEAN
  /\ ctx \in Context
  /\ open = NULL \/ open.phase \in {"preparing", "settling"}
  /\ \A i \in Slots : emits[i] = NULL \/ emits[i].base \in Context
  /\ card = NULL \/ card \in cards
  /\ commits \in 0 .. MaxCommits
  /\ made \subseteq Mark /\ crossed \subseteq 1 .. commits

\* Without the exceptions: TLC refutes it (stale_report.cfg).
ReportAgrees == last # NULL /\ last.alive => last.reported = last.at

\* Without the exceptions: TLC refutes it (skipped_handler.cfg).
HandlersRun == last # NULL /\ last.alive => last.handled = Range(last.through)

\* Without the exception: TLC refutes it (lost_update.cfg).
NoLostUpdate == made \subseteq ctx.marks

\* A branch of a passive state lies behind one that is always taken: a way out to the
\* verifier, and none to the actor.
DeadBranch == \E n \in Nodes : /\ wf.kind[n] = "passive"
                               /\ \E i, j \in DOMAIN wf.to[n] : i < j /\ ~wf.to[n][i].guarded

\* Wherever a verified workflow can get, it can still move and in the end enter a
\* final, its own or an embedded workflow's: the verifier's fixpoint over the declared
\* targets is right about the actor's macrosteps.  A passive state whose guarded
\* branches all fail is the exception, and a workflow with a dead branch.
EndInReach ==
  LET Steps == [n \in {m \in Nodes : Leaf(m)} |->
                  {Macrostep(wf, Resolve(wf, n, k), g) : k \in Keys(wf, n), g \in BOOLEAN}]
      Moves == [n \in DOMAIN Steps |-> {m.at : m \in Steps[n]}]
      Ends == {n \in DOMAIN Steps : \/ wf.kind[n] = "final"
                                    \/ \E m \in Steps[n] : m.through # << >>}
      From[i \in Rounds, n \in Nodes] ==
        IF i = 0 THEN {n} ELSE LET L == From[i - 1, n] IN L \cup UNION {Moves[m] : m \in L}
      Reach(n) == From[Cardinality(Nodes), n]
  IN commits = 0 /\ open = NULL /\ ~DeadBranch =>
       \A n \in {m \in Reach(at) : ~Undecided(wf, m)} : Reach(n) \cap Ends # {}
=============================================================================
