--------------------------- MODULE ModelSettings ----------------------------
(****************************************************************************)
(* The model a state declares and the turns that must run under it, in one  *)
(* live run: createStateModelSettings (packages/core/src/runtime), which    *)
(* chains the thread/settings/update requests and lets turn producers wait  *)
(* for them, and the engine's code that registers the updates, sends them   *)
(* and starts turns.                                                        *)
(*                                                                          *)
(* A model stands for a model and an effort together.  A submit, a hook and *)
(* a policy hold the dispatch chain for one step here, taken when nothing   *)
(* else holds it; only what does hold it over several steps, an update sent *)
(* after a reply and a fresh clear, is a segment.  Modules TurnControl and  *)
(* Approvals have the details of both.                                      *)
(****************************************************************************)
EXTENDS Integers, Sequences

CONSTANTS
    States, Start,
    Choice, Open, Clear,   \* owner-choice states; stateful ones that are open, that declare clearOnEntry
    Model,                 \* the model each state declares
    Undeclared, Default,   \* no declaration; the user's configured model
    MaxThreads,            \* bound: threads of the run
    MaxMoves,              \* bound: transitions
    MaxRequests,           \* bound: approval requests left to the owner
    MaxPrompts             \* bound: prompts of the owner

ASSUME SettingsAssumption ==
    /\ Choice \subseteq States /\ Open \subseteq States \ Choice /\ Clear \subseteq States \ Choice
    /\ Start \in States \ (Choice \cup Clear)
    /\ \A s \in Choice : Model[s] = Undeclared
    /\ Undeclared # Default
    /\ MaxThreads \in Nat \ {0} /\ MaxMoves \in Nat /\ MaxRequests \in Nat /\ MaxPrompts \in Nat

Threads == 1..MaxThreads

VARIABLES
    at, moves,   \* host.currentStateId(); transitions so far, which tell visits apart
    bound,       \* activeThreadBinding.current()
    draining,    \* whether bound is in pendingFreshClearThreadIds
    inForce,     \* the model Codex has for each thread
    updates,     \* the chain of updates: [thread, model, phase]
    queue,       \* serializeDispatch: segments waiting
    held,        \* the segment that holds the dispatch chain
    clear,       \* the fresh clear: [pc, model, held]
    parked,      \* approvals the owner is to decide: [id, update, clears]
    requests,    \* approvals left to the owner so far
    producers,   \* tasks about to start a turn
    turn,        \* thread whose turn runs, 0 if none
    submitted,   \* submittedThisTurnFlag
    prompts,     \* prompts of the owner so far
    over,        \* an update or a composition failed: the run fails
    due,         \* history: the model the documentation promises the active state
    fate,        \* history: what became of that declaration (see Fates)
    crossed,     \* history: a segment was to be queued over an update not yet sent
    lost,        \* history: Codex withdrew a request that an update waits for
    started      \* history: the last turn start

moveVars == <<at, moves, due, fate, crossed>>
threadVars == <<bound, draining, inForce>>
chainVars == <<queue, held>>
askVars == <<parked, requests>>
vars == <<moveVars, threadVars, updates, chainVars, clear, askVars, producers, turn, submitted,
          prompts, over, lost, started>>

NoSegment == [kind |-> "none", update |-> 0, upto |-> 0]
NoClear == [pc |-> "no", model |-> Default, held |-> FALSE]
Stateful(s) == s \in States \ Choice
Or(m, other) == IF m = Undeclared THEN other ELSE m

(*************************** createStateModelSettings ***********************)
(* The promise waitForSettled reads when the n-th update is the latest.     *)
SettledUpTo(n) == \A i \in 1..n : updates[i].phase = "done"
Latest == Len(updates)

(* prepareApplyForActiveState: the update joins the chain at once, for the  *)
(* thread bound now; it is sent when apply is called ("applying").          *)
Update(s, phase) == [thread |-> bound, model |-> Model[s], phase |-> phase]
Declares(s) == Stateful(s) /\ s \notin Clear /\ Model[s] # Undeclared

Producer(kind, visit, own, upto) ==
    [kind |-> kind, visit |-> visit, thread |-> bound, own |-> own, upto |-> upto]

(* The kickoff applies the first state's model before its turn.             *)
Init ==
    /\ at = Start /\ moves = 0
    /\ bound = 1 /\ draining = FALSE /\ inForce = [th \in Threads |-> Default]
    /\ updates = IF Declares(Start) THEN <<[thread |-> 1, model |-> Model[Start], phase |-> "applying"]>>
                 ELSE <<>>
    /\ queue = <<>> /\ held = NoSegment /\ clear = NoClear
    /\ parked = {} /\ requests = 0
    /\ producers = {[kind |-> "kickoff", visit |-> 0, thread |-> 1, own |-> Len(updates), upto |-> 0]}
    /\ turn = 0 /\ submitted = FALSE /\ prompts = 0 /\ over = FALSE
    /\ due = Or(Model[Start], Default) /\ fate = "registered" /\ crossed = FALSE /\ lost = FALSE
    /\ started = [kind |-> "none", fresh |-> FALSE, settled |-> TRUE, fate |-> "registered",
                  got |-> Default, due |-> Default]

(* apply: await the updates before it, then send the request.               *)
SendsAtOnce(i) == updates[i].phase = "applying"   \* mutant
Sends(i) == updates[i].phase = "applying" /\ SettledUpTo(i - 1)
Send(i) ==
    /\ Sends(i)
    /\ updates' = [updates EXCEPT ![i].phase = "sent"]
    /\ UNCHANGED <<moveVars, threadVars, chainVars, clear, askVars, producers, turn, submitted,
                   prompts, over, lost, started>>

(* Codex acknowledges: the gate opens, and whoever called apply goes on to  *)
(* await whatever the chain has become meanwhile.                           *)
Acknowledge(i) ==
    /\ updates[i].phase = "sent"
    /\ updates' = [updates EXCEPT ![i].phase = "done"]
    /\ inForce' = [inForce EXCEPT ![updates[i].thread] = updates[i].model]
    /\ producers' = {IF p.own = i THEN [p EXCEPT !.own = 0, !.upto = Latest] ELSE p : p \in producers}
    /\ held' = IF held.update = i THEN [held EXCEPT !.upto = Latest] ELSE held
    /\ UNCHANGED <<moveVars, bound, draining, queue, clear, askVars, turn, submitted, prompts,
                   over, lost, started>>

(* markFailed, failRunForStateModelError.                                   *)
UpdateFails(i) ==
    /\ updates[i].phase = "sent"
    /\ over' = TRUE
    /\ UNCHANGED <<moveVars, threadVars, updates, chainVars, clear, askVars, producers, turn,
                   submitted, prompts, lost, started>>

(**************************** the dispatch chain ****************************)
BeginSegment ==
    /\ held = NoSegment /\ queue # <<>>
    /\ queue' = Tail(queue) /\ held' = Head(queue)
    /\ \/ /\ Head(queue).kind = "apply"
          /\ updates' = [updates EXCEPT ![Head(queue).update].phase = "applying"]
          /\ UNCHANGED clear
       \/ /\ Head(queue).kind = "clear"
          /\ clear' = [clear EXCEPT !.pc = "begin"]
          /\ UNCHANGED updates
    /\ UNCHANGED <<moveVars, threadVars, askVars, producers, turn, submitted, prompts, over, lost,
                   started>>

(* apply returns once the chain it awaits is settled.                       *)
ApplyReturns ==
    /\ held.kind = "apply" /\ updates[held.update].phase = "done" /\ SettledUpTo(held.upto)
    /\ held' = NoSegment
    /\ UNCHANGED <<moveVars, threadVars, updates, queue, clear, askVars, producers, turn,
                   submitted, prompts, over, lost, started>>

ApplySegment(i) == [kind |-> "apply", update |-> i, upto |-> 0]
ClearSegment == [kind |-> "clear", update |-> 0, upto |-> 0]

(* What a reply's afterReply callbacks put on the chain.                    *)
RunsClear(update, clears) == IF clears THEN <<ClearSegment>> ELSE <<>>   \* mutant
RunsAfterReply(update, clears) ==
    (IF update # 0 THEN <<ApplySegment(update)>> ELSE <<>>)
      \o (IF clears THEN <<ClearSegment>> ELSE <<>>)

(******************************** transitions *******************************)
(* The declaration in force was registered at the transition, or only later *)
(* by its dance; for a thread about to be replaced; not yet (its dance      *)
(* will); or never (its state was left before its dance came to it).        *)
Fates == {"registered", "danced", "displaced", "pending", "passed"}
Registered == IF draining THEN "displaced" ELSE "registered"
MeetsFate(s, byDance) ==
    fate' = CASE s \in Clear -> "registered"
              [] Declares(s) -> IF byDance THEN "pending" ELSE Registered
              [] OTHER -> IF fate = "pending" THEN "passed" ELSE fate

(* One commit.  The documentation: a declared model is in force from here   *)
(* on, a clear state without one has the user's default, any other state    *)
(* keeps what was in force.  Bound: no transition to a clear state while a  *)
(* fresh clear is under way.                                                *)
MovesTo(s) ==
    /\ s # at /\ moves < MaxMoves
    /\ s \in Clear => clear = NoClear /\ bound < MaxThreads
    /\ at' = s /\ moves' = moves + 1
    /\ due' = IF s \in Clear THEN Or(Model[s], Default) ELSE Or(Model[s], due)

(* scheduleFreshClearAfterTransition on entering a clear state.             *)
SchedulesClear(s, onChain) ==
    /\ draining' = TRUE
    /\ clear' = [pc |-> IF onChain THEN "queued" ELSE "begin", model |-> Or(Model[s], Default),
                 held |-> onChain]

(* A transition that will queue a segment comes while an update waits for   *)
(* its reply, or for the segment that is to send it.                        *)
MayCross(queues) ==
    crossed' = (crossed \/ (queues /\ \E i \in 1..Latest : updates[i].phase = "dormant"))

TurnOfBound == turn = bound /\ held = NoSegment

(* A submit replies and then queues its clear, or starts the dance; the     *)
(* dance registers the new state's update only when it has interrupted.     *)
SubmitRuns(s) ==
    /\ TurnOfBound /\ ~draining
    /\ MovesTo(s) /\ MeetsFate(s, TRUE) /\ MayCross(s \in Clear)
    /\ \/ /\ s \in Clear
          /\ SchedulesClear(s, TRUE) /\ queue' = Append(queue, ClearSegment)
          /\ UNCHANGED <<producers, submitted>>
       \/ /\ Stateful(s) /\ s \notin Clear
          /\ producers' = producers \cup {Producer("item", moves', 0, 0)}
          /\ submitted' = TRUE
          /\ UNCHANGED <<draining, clear, queue>>
       \/ /\ s \in Choice
          /\ UNCHANGED <<draining, clear, queue, producers, submitted>>
    /\ UNCHANGED <<bound, inForce, updates, held, askVars, turn, prompts, over, lost, started>>

(* A hook's transition: its update is sent, and its clear begins, beside    *)
(* the chain, because both inherit the segment's mark.                      *)
HookRuns(s) ==
    /\ TurnOfBound /\ clear.pc # "opening"
    /\ MovesTo(s) /\ MeetsFate(s, FALSE) /\ MayCross(FALSE)
    /\ updates' = IF Declares(s) THEN Append(updates, Update(s, "applying")) ELSE updates
    /\ IF s \in Clear THEN SchedulesClear(s, FALSE) ELSE UNCHANGED <<draining, clear>>
    /\ UNCHANGED <<bound, inForce, chainVars, askVars, producers, turn, submitted, prompts, over,
                   lost, started>>

(* A permission request's policy moves the workflow.  The update is         *)
(* registered at once and sent after the request's reply, which comes now   *)
(* or, if the policy leaves the request to the owner, when it is decided.   *)
PolicyRuns(s, toOwner) ==
    /\ TurnOfBound /\ ~draining
    /\ MovesTo(s) /\ MeetsFate(s, FALSE) /\ MayCross(s \in Clear \/ Declares(s))
    /\ updates' = IF Declares(s) THEN Append(updates, Update(s, "dormant")) ELSE updates
    /\ LET update == IF Declares(s) THEN Latest + 1 ELSE 0
       IN IF toOwner
          THEN /\ requests < MaxRequests /\ requests' = requests + 1
               /\ parked' = parked \cup {[id |-> requests', update |-> update, clears |-> s \in Clear]}
               /\ UNCHANGED queue
          ELSE /\ queue' = queue \o RunsAfterReply(update, s \in Clear)
               /\ UNCHANGED askVars
    /\ IF s \in Clear THEN SchedulesClear(s, TRUE) ELSE UNCHANGED <<draining, clear>>
    /\ UNCHANGED <<bound, inForce, held, producers, turn, submitted, prompts, over, lost, started>>

OwnerDecides(r) ==
    /\ r \in parked
    /\ parked' = parked \ {r}
    /\ queue' = queue \o RunsAfterReply(r.update, r.clears)
    /\ UNCHANGED <<moveVars, threadVars, updates, held, clear, requests, producers, turn,
                   submitted, prompts, over, lost, started>>

(* serverRequest/resolved: no reply is sent, and its callbacks are dropped. *)
CodexWithdraws(r) ==
    /\ r \in parked /\ (r.update # 0 \/ r.clears)
    /\ parked' = parked \ {r} /\ lost' = TRUE
    /\ UNCHANGED <<moveVars, threadVars, updates, chainVars, clear, requests, producers, turn,
                   submitted, prompts, over, started>>

(* An owner choice: as a hook's, then scheduleStatefulOrientationAfterReply *)
(* waits for what is registered and composes afterwards.                    *)
OwnerChooses(s) ==
    /\ at \in Choice /\ held = NoSegment
    /\ MovesTo(s) /\ MeetsFate(s, FALSE) /\ MayCross(FALSE)
    /\ updates' = IF Declares(s) THEN Append(updates, Update(s, "applying")) ELSE updates
    /\ IF s \in Clear THEN SchedulesClear(s, FALSE) ELSE UNCHANGED <<draining, clear>>
    /\ producers' = IF Stateful(s) /\ s \notin Open \cup Clear
                    THEN producers \cup {Producer("orient", 0, 0, Len(updates'))} ELSE producers
    /\ UNCHANGED <<bound, inForce, chainVars, askVars, turn, submitted, prompts, over, lost, started>>

(******************************* turn producers *****************************)
(* turn/completed: drive-forward composes the turn's input, then waits.     *)
TurnEnds ==
    /\ turn # 0 /\ parked = {}
    /\ turn' = 0
    /\ producers' = IF turn # bound \/ draining \/ submitted \/ at \in Open \cup Choice THEN producers
                    ELSE producers \cup {Producer("drive", moves, 0, Latest)}
    /\ UNCHANGED <<moveVars, threadVars, updates, chainVars, clear, askVars, submitted, prompts,
                   over, lost, started>>

(* sendUserPrompt reads the bound thread, then waits.                       *)
OwnerPrompts ==
    /\ at \in Open /\ prompts < MaxPrompts
    /\ prompts' = prompts + 1
    /\ producers' = producers \cup {Producer("prompt", moves, 0, Latest)}
    /\ UNCHANGED <<moveVars, threadVars, updates, chainVars, clear, askVars, turn, submitted,
                   over, lost, started>>

(* The dance: the call's item has come; interrupt the turn, then register   *)
(* and send the update of the state that is active by then.  If that state  *)
(* declares no model the dance waits for nothing.                           *)
DanceInterrupts(p) ==
    /\ p \in producers /\ p.kind = "item"
    /\ turn' = IF turn = bound THEN 0 ELSE turn
    /\ fate' = CASE Declares(at) /\ draining -> "displaced"
                 [] Declares(at) /\ ~draining /\ fate = "pending" -> "danced"
                 [] OTHER -> fate
    /\ updates' = IF Declares(at) THEN Append(updates, Update(at, "applying")) ELSE updates
    /\ producers' = (producers \ {p})
                      \cup {[p EXCEPT !.kind = "dance", !.own = IF Declares(at) THEN Latest + 1 ELSE 0]}
    /\ UNCHANGED <<at, moves, due, crossed, threadVars, chainVars, clear, askVars, submitted,
                   prompts, over, lost, started>>

(* turn/start, on the thread bound by now; a prompt's on the thread it read *)
(* before.  A turn that runs already takes the input in.                    *)
Starts(p) ==
    LET th == IF p.kind \in {"prompt", "clear"} THEN p.thread ELSE bound
        visit == IF p.kind = "orient" THEN moves ELSE p.visit
    IN /\ p \in producers /\ p.kind # "item" /\ p.own = 0 /\ SettledUpTo(p.upto)
       /\ p.kind = "orient" => Stateful(at)
       /\ producers' = producers \ {p}
       /\ turn' = IF th = bound THEN th ELSE turn
       /\ submitted' = IF th = bound /\ ~draining /\ turn = 0 THEN FALSE ELSE submitted
       /\ started' = [kind |-> p.kind, fresh |-> turn # th /\ th = bound /\ ~draining /\ visit = moves,
                      settled |-> SettledUpTo(Latest), fate |-> fate,
                      got |-> inForce[th], due |-> due]
       /\ IF p.kind = "clear"
          THEN clear' = NoClear /\ held' = IF clear.held THEN NoSegment ELSE held
          ELSE UNCHANGED <<clear, held>>
       /\ UNCHANGED <<moveVars, threadVars, updates, queue, askVars, prompts, over, lost>>

(* The orientation of an owner choice fails outside a stateful state.       *)
OrientationFails(p) ==
    /\ p \in producers /\ p.kind = "orient" /\ SettledUpTo(p.upto) /\ ~Stateful(at)
    /\ over' = TRUE
    /\ UNCHANGED <<moveVars, threadVars, updates, chainVars, clear, askVars, producers, turn,
                   submitted, prompts, lost, started>>

(******************************** fresh clear *******************************)
(* performFreshClear: abandon the bound thread and interrupt its turn.      *)
ClearBegins ==
    /\ clear.pc = "begin"
    /\ clear' = [clear EXCEPT !.pc = "opening"]
    /\ turn' = IF turn = bound THEN 0 ELSE turn
    /\ UNCHANGED <<moveVars, threadVars, updates, chainVars, askVars, producers, submitted,
                   prompts, over, lost, started>>

(* The replacement is opened with the model its state declared; binding it  *)
(* declines the requests parked for the old thread.  Its first turn is      *)
(* composed now and waits for every update registered so far.               *)
ReplyAll(S) ==
    LET Lists == {<<r.id, RunsAfterReply(r.update, r.clears)>> : r \in S}
        Ordered[n \in 0..MaxRequests] ==
          IF n = 0 THEN <<>>
          ELSE Ordered[n - 1] \o (IF \E l \in Lists : l[1] = n
                                  THEN (CHOOSE l \in Lists : l[1] = n)[2] ELSE <<>>)
    IN Ordered[MaxRequests]

ClearOpens ==
    /\ clear.pc = "opening"
    /\ bound' = bound + 1 /\ draining' = FALSE
    /\ inForce' = [inForce EXCEPT ![bound + 1] = clear.model]
    /\ parked' = {} /\ queue' = queue \o ReplyAll(parked)
    /\ \/ /\ Stateful(at)
          /\ clear' = [clear EXCEPT !.pc = "bound"]
          /\ producers' = producers \cup {[kind |-> "clear", visit |-> moves, thread |-> bound + 1,
                                           own |-> 0, upto |-> Latest]}
          /\ UNCHANGED over
       \/ /\ ~Stateful(at) /\ over' = TRUE
          /\ UNCHANGED <<clear, producers>>
    /\ UNCHANGED <<moveVars, updates, held, requests, turn, submitted, prompts, lost,
                   started>>

(****************************** the specification ***************************)
Applying == \E i \in 1..Latest : Send(i) \/ Acknowledge(i)
Clearing == ClearBegins \/ ClearOpens
TaskKinds == {"kickoff", "item", "dance", "orient", "drive", "prompt", "clear"}
Proceeds(p) == DanceInterrupts(p) \/ Starts(p) \/ OrientationFails(p)
Produce == \E p \in producers : Proceeds(p)
Next ==
    /\ ~over
    /\ \/ Applying \/ \E i \in 1..Latest : UpdateFails(i)
       \/ BeginSegment \/ ApplyReturns
       \/ \E s \in States : \/ SubmitRuns(s) \/ HookRuns(s) \/ OwnerChooses(s)
                            \/ \E toOwner \in BOOLEAN : PolicyRuns(s, toOwner)
       \/ \E r \in parked : OwnerDecides(r) \/ CodexWithdraws(r)
       \/ TurnEnds \/ OwnerPrompts \/ Produce \/ Clearing

Spec == Init /\ [][Next]_vars

(* Codex answers, segments and tasks run, and the owner decides what is on the page.  *)
Fairness ==
    /\ WF_vars(~over /\ Applying)
    /\ WF_vars(~over /\ (BeginSegment \/ ApplyReturns))
    /\ WF_vars(~over /\ \E r \in parked : OwnerDecides(r))
    /\ \A k \in TaskKinds : WF_vars(~over /\ \E p \in producers : p.kind = k /\ Proceeds(p))
    /\ WF_vars(~over /\ Clearing)
FairSpec == Spec /\ Fairness

(******************************** properties ********************************)
TypeOK ==
    /\ at \in States /\ moves \in 0..MaxMoves /\ bound \in Threads /\ draining \in BOOLEAN
    /\ inForce \in [Threads -> {Model[s] : s \in States} \cup {Default}] /\ fate \in Fates
    /\ \A i \in 1..Latest : /\ updates[i].thread \in 1..bound
                            /\ updates[i].phase \in {"dormant", "applying", "sent", "done"}
    /\ held.kind \in {"none", "apply", "clear"} /\ turn \in 0..bound
    /\ producers \subseteq [kind : TaskKinds, visit : 0..MaxMoves, thread : Threads, own : Nat, upto : Nat]

(* docs/authoring.md and docs/reference.md: a turn begun for the active     *)
(* state runs under the model the state declares, or else under the one     *)
(* that sticks to it.  TLC refutes it (unsettled_turn.cfg).                 *)
DeclaredModelUsed == started.fresh => started.got = started.due

(* What is true: it does, unless                                            *)
(* - the declaration was registered for a thread about to be replaced, or   *)
(*   its state was left before its dance came to register it;               *)
(* - updates were under way and the turn is one that does not wait for all  *)
(*   of them: the dance of a state without a model, an orientation composed *)
(*   for a later state, or any turn if only the dance registered the model. *)
SettingsInForce ==
    started.fresh /\ started.fate \in {"registered", "danced"}
      => \/ started.got = started.due
         \/ /\ ~started.settled
            /\ started.kind \in {"dance", "orient"} \/ started.fate = "danced"

(* Again and again every update has been answered, no segment holds the     *)
(* chain or waits for it, and no fresh clear is under way, so that no turn  *)
(* waits for ever: unless Codex withdrew the request an update waits for,   *)
(* or a segment was queued over an update not yet sent.  Without the last   *)
(* exception TLC refutes it (settings_deadlock.cfg): the segment that sends *)
(* an update holds the chain until every later update is answered, also one *)
(* whose own segment is queued behind it.                                   *)
AllServed ==
    SettledUpTo(Latest) /\ held = NoSegment /\ queue = <<>> /\ clear = NoClear
UpdatesServed == []<>(AllServed \/ over \/ lost \/ crossed)
NoCircularWait == []<>(AllServed \/ over \/ lost)
=============================================================================
