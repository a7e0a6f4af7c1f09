--------------------------- MODULE DispatchState ---------------------------
(***************************************************************************)
(* What a dispatch works on, and what it promises of it: the workflow, its  *)
(* actor, the data the reducers have updated and the dispatcher's last      *)
(* report.  Dispatch has the steps.                                         *)
(***************************************************************************)
EXTENDS Workflow

CONSTANTS Workflows,  \* candidates; those that verify are run
          Slots       \* bound: custom events dispatched at the same time

Contexts == [marks : SUBSET (Nat \X {"branch", "handler"}), visits : [Nodes -> Nat]]

\* In every candidate hosts hold the states below them and start in one, and the
\* name of a state is its own among its siblings.
ASSUME WorkflowsAssumption ==
  /\ \A w \in Workflows :
       /\ \A n \in Nodes : w.kind[n] = "host" => Initial[n] \in Nodes
       /\ \A n \in Nodes : Embedded(n) => w.kind[Parent[n]] = "host"
       /\ \A m, n \in Nodes : Parent[m] = Parent[n] /\ w.key[m] = w.key[n] => m = n
       /\ \A n \in Nodes : w.key[n] # STAY
  /\ NULL \notin Contexts

VARIABLES wf,       \* the workflow
          at,       \* currentStateId: the active leaf
          alive,    \* the actor has not thrown
          ctx,      \* currentContext: [marks, visits]
          open,     \* the submit being dispatched, or NULL
          emits,    \* the custom events being dispatched: one, or NULL, in each slot
          last,     \* what the dispatch that has just ended did and reported, or NULL
          made,     \* history: the marks of every update committed
          crossed   \* history: the commits made while another dispatch was preparing

Leaf(n) == wf.kind[n] # "host"

-----------------------------------------------------------------------------
(* Promises *)

\* What the dispatcher reports, and signals or schedules by (dispatchSubmit.ts:489,
\* 513-520), is where the actor is, unless a passive state decided on data the submit
\* changed or another commit came while the submit was prepared.
ReportExplained ==
  last # NULL /\ last.alive /\ last.reported # last.at => last.swayed \/ last.overtaken

\* A state other than the final has the name of an enclosing host's final.
Shadowed == \E n, f \in Nodes : /\ Leaf(n) /\ wf.kind[f] = "final" /\ Parent[f] \in Hosts[n]
                                /\ \E m \in outgoingTargets(wf, n) :
                                     wf.key[m] = wf.key[f] /\ wf.kind[m] # "final"
\* A passive state leads into a final of its embedded workflow, or one starts in a final.
Leaks == \/ \E n \in Nodes : /\ wf.kind[n] = "passive" /\ Embedded(n)
                             /\ \E k \in Keys(wf, n) :
                                  Named(wf, n, k) \cap FinalsOf(wf, Parent[n]) # {}
         \/ \E h \in Nodes : wf.kind[h] = "host" /\ wf.kind[Initial[h]] = "final"

\* The handler prepared for an embedded final is the one of the final the transition
\* goes through, and the actor never enters one unprepared, unless a final leads to
\* another, a state has an outer final's name, a passive state leads to a final, an
\* embedded workflow starts in one, or another commit came during a preparation.
FinalsHandled ==
  /\ ~alive => Leaks \/ crossed # {}
  /\ last # NULL /\ last.alive /\ ~Shadowed =>
       last.handled = Range(last.through) \/ Len(last.through) > 1 \/ last.overtaken

\* No committed update is lost, except those committed while another dispatch was
\* preparing: that one commits data computed from what it read before.
UpdatesKept == \A m \in made \ ctx.marks : m[1] \in crossed
=============================================================================
