----------------------------- MODULE TurnControl -----------------------------
(****************************************************************************)
(* Who moves the workflow and who starts the model's next turn, in one live *)
(* run (packages/core/src/runtime): the serialized dispatch queue, submit,  *)
(* owner-choice and hook dispatch, the cross-state dance, drive-forward,    *)
(* fresh clear and the routing of Codex's notifications.                    *)
(*                                                                          *)
(* Codex is external: a set of threads, each with at most one turn, whose   *)
(* notifications, tool calls and responses reach aharness on one ordered    *)
(* connection ("wire").  A request aharness sends takes effect in Codex     *)
(* when it is sent; only the way back is delayed, which loses no            *)
(* interleaving because Codex's messages are buffered.                      *)
(*                                                                          *)
(* Each await of the source is a boundary between two actions here.         *)
(****************************************************************************)
EXTENDS Integers, Sequences

CONSTANTS
    States, Start,
    Stateful, Choice, Terminal,  \* the leaf kinds; passive leaves settle inside a commit
    Open, Clear,                 \* stateful leaves declaring open / clearOnEntry
    Submits,                     \* <<from, to>>: typed submit exits
    Options,                     \* <<gate, to>>: options of owner-choice states
    HookTargets,                 \* <<from, to>>: transitions of hook events and of policies
    EntryEmits,                  \* <<from, to>>: events an onEntry may ops.emit
    MaxThreads,                  \* bound: threads Codex may be asked to open
    MaxCalls,                    \* bound: submit calls Codex makes
    MaxHandoffs,                 \* bound: accepted cross-state submits of one turn
    MaxCommits,                  \* bound: choices, hooks and emits happen below it
    MaxTurns,                    \* bound: Codex completes turns below it
    MaxWire,                     \* bound: Codex emits only below it
    MaxQueue,                    \* bound: hook frames, policies and clicks waiting
    MaxAsks,                     \* bound: request_user_input calls
    MaxFaults                    \* bound: failed requests and aborted turns

ASSUME KindsAssumption ==
    /\ States = Stateful \cup Choice \cup Terminal
    /\ Stateful \cap Choice = {} /\ Stateful \cap Terminal = {}
    /\ Choice \cap Terminal = {}
    /\ Open \subseteq Stateful /\ Clear \subseteq Stateful
    /\ Start \in Stateful \ Clear

ASSUME EdgesAssumption ==
    /\ Submits \subseteq Stateful \X States
    /\ Options \subseteq Choice \X States
    /\ HookTargets \subseteq Stateful \X States
    /\ EntryEmits \subseteq Stateful \X States

(* Bound: the onEntry of a state an onEntry moved to emits nothing more.    *)
ASSUME EmitsAssumption == \A e, f \in EntryEmits : e[2] # f[1]

ASSUME BoundsAssumption ==
    /\ MaxThreads \in Nat \ {0}
    /\ MaxCalls \in Nat /\ MaxHandoffs \in Nat /\ MaxCommits \in Nat
    /\ MaxTurns \in Nat /\ MaxWire \in Nat
    /\ MaxQueue \in Nat /\ MaxAsks \in Nat /\ MaxFaults \in Nat

Threads == 1..MaxThreads

(* 0 stands for `undefined` wherever a turn id or a call id may be absent. *)
Nobody == 0

VARIABLES
    fsm,                \* host.currentStateId()
    commits,            \* transitions committed so far; identifies the visit
    current,            \* activeThreadBinding.current()
    abandoned,          \* abandonedParentThreadIds
    draining,           \* pendingFreshClearThreadIds
    lastThread,         \* threads Codex has opened
    codex,              \* per thread: its turn, whether it runs, its tool call
    turns,              \* turns Codex has started
    calls,              \* submit calls Codex has made; the last one's callId
    wire,               \* Codex's messages to aharness, in order
    parked,             \* the parked request_user_input, if any: pendingOwnerInput
    asks,               \* owner-input requests Codex has made
    submittedThisTurn,  \* submittedThisTurnFlag
    queue,              \* dispatchChain: segments waiting
    segment,            \* the segment that holds the chain
    dances,             \* background cross-state dances
    clears,             \* scheduled fresh clears
    entries,            \* hook continuations not awaited by their segment
    orientations,       \* pending owner-choice orientation turns
    ended,              \* how the run ended, "no" while it is live
    closed,             \* client closed: nothing happens any more
    faults,             \* faults so far
    swaps,              \* history: replacement threads opened in this visit
    lost                \* history: threads drained for a clear nobody will start

fsmVars    == <<fsm, commits, swaps>>
threadVars == <<current, abandoned, draining, lastThread, lost>>
codexVars  == <<codex, turns, calls, wire>>
ownerVars  == <<parked, asks>>
chainVars  == <<queue, segment>>
taskVars   == <<dances, clears, entries, orientations>>
endVars    == <<ended, closed, faults>>
vars == <<fsmVars, threadVars, codexVars, ownerVars, submittedThisTurn, chainVars, taskVars,
          endVars>>

(***************************** shapes of the state **************************)
Calls == {"none", "sent", "owner", "replied"}
Endpoint == [turn : Nat, active : BOOLEAN, call : Calls, id : Nat, handoffs : Nat]
Message == [k : {"started", "completed", "item", "interrupted", "ask", "call"},
            thread : Threads, turn : Nat, id : Nat, from : States, to : States]
Request == [pc : {"idle", "begin", "prepare", "entry"},
            kind : {"submit", "hook", "policy", "choice", "clear"}, thread : Threads, turn : Nat,
            from : States, to : States, id : Nat]
DanceTask == [id : Nat, turn : Nat, pc : {"item", "interrupt", "await", "start"}]
ClearTask == [id : Nat, turn : Nat, old : Threads \cup {0}, held : BOOLEAN,
              pc : {"reply", "queued", "begin", "opening", "boundary"}]
HookEntry == [visit : Nat, thread : Threads, turn : Nat, policy : BOOLEAN]

Req(kind, th, turn, from, to, id) ==
    [pc |-> "begin", kind |-> kind, thread |-> th, turn |-> turn, from |-> from, to |-> to,
     id |-> id]
Idle == [pc |-> "idle", kind |-> "submit", thread |-> 1, turn |-> 0, from |-> Start,
         to |-> Start, id |-> 0]
Msg(k, th, turn, id) ==
    [k |-> k, thread |-> th, turn |-> turn, id |-> id, from |-> Start, to |-> Start]

(* isPendingFreshClearDrainThread, isTrueAbandonedParentThread and          *)
(* isThreadUnavailableForRequests amount to this; a thread that is current, *)
(* neither draining nor abandoned, is live.                                 *)
LiveIgnoringDrain(th) == th = current /\ th \notin abandoned   \* mutant
LiveThread(th) == th = current /\ th \notin draining /\ th \notin abandoned

(* startNotificationRouter passes a parent notification on for the bound    *)
(* thread unless that thread is draining towards a fresh clear or abandoned.*)
RoutedWhileDraining(th) == th = current /\ th \notin abandoned   \* mutant
Routed(th) == th = current /\ th \notin draining /\ th \notin abandoned

(********************* Codex's side of aharness's requests ******************)
(* A thread's turn with no tool call open.                                  *)
TurnOf(turn, active) ==
    [turn |-> turn, active |-> active, call |-> "none", id |-> Nobody, handoffs |-> 0]

(* turn/start: Codex opens a turn, or takes the input into the running one. *)
StartTurn(th, w) ==
    /\ IF codex[th].active
       THEN wire' = w /\ UNCHANGED <<codex, turns>>
       ELSE /\ turns' = turns + 1
            /\ codex' = [codex EXCEPT ![th] = TurnOf(turns + 1, TRUE)]
            /\ wire' = Append(w, Msg("started", th, turns + 1, Nobody))
    /\ UNCHANGED calls

(* turn/interrupt: stops the turn it names; a stale or finished turn id is  *)
(* refused, which both callers swallow (isNonFatalInterruptError).          *)
Interrupts(th, turn) == codex[th].active /\ codex[th].turn = turn
Stopped(th) == [codex EXCEPT ![th] = TurnOf(codex[th].turn, FALSE)]

(* The reply to a tool call; a call its turn no longer waits for is lost.   *)
(* id names the watcher that waits for the call's item/completed.           *)
Replied(c, th, turn, id) ==
    IF c[th].active /\ c[th].call \in {"sent", "owner"} /\ c[th].turn = turn
    THEN [c EXCEPT ![th] = [turn |-> turn, active |-> TRUE, call |-> "replied", id |-> id,
                            handoffs |-> c[th].handoffs + (IF id = Nobody THEN 0 ELSE 1)]]
    ELSE c

(******************************** ending ************************************)
(* signalTerminalCompletion and failRunAndShutdown: the first one decides   *)
(* what is published.                                                       *)
End(how) == ended' = IF ended = "no" THEN how ELSE ended

Init ==
    /\ fsm = Start /\ commits = 0
    /\ current = 1 /\ abandoned = {} /\ draining = {} /\ lastThread = 1
    /\ codex = [th \in Threads |-> IF th = 1 THEN TurnOf(1, TRUE) ELSE TurnOf(0, FALSE)]
    /\ turns = 1 /\ calls = 0 /\ wire = <<Msg("started", 1, 1, Nobody)>>
    /\ parked = {} /\ asks = 0 /\ submittedThisTurn = FALSE
    /\ queue = <<>> /\ segment = Idle
    /\ dances = {} /\ clears = {} /\ entries = {} /\ orientations = 0
    /\ ended = "no" /\ closed = FALSE /\ faults = 0
    /\ swaps = 0 /\ lost = {}

(************************* environment: Codex's turns ***********************)
CodexSubmits(th) ==
    \E e \in Submits :
        /\ codex[th].active /\ codex[th].call = "none"
        /\ codex[th].handoffs < MaxHandoffs
        /\ Len(wire) < MaxWire /\ calls < MaxCalls
        /\ calls' = calls + 1
        /\ codex' = [codex EXCEPT ![th].call = "sent"]
        /\ wire' = Append(wire, [k |-> "call", thread |-> th, turn |-> codex[th].turn,
                                 id |-> calls + 1, from |-> e[1], to |-> e[2]])
        /\ UNCHANGED <<fsmVars, threadVars, turns, ownerVars,
                       submittedThisTurn, chainVars, taskVars, endVars>>

CodexAsksOwner(th) ==
    /\ codex[th].active /\ codex[th].call = "none"
    /\ Len(wire) < MaxWire /\ asks < MaxAsks
    /\ asks' = asks + 1
    /\ codex' = [codex EXCEPT ![th].call = "owner"]
    /\ wire' = Append(wire, Msg("ask", th, codex[th].turn, Nobody))
    /\ UNCHANGED <<fsmVars, threadVars, turns, calls, parked,
                   submittedThisTurn, chainVars, taskVars, endVars>>

(* Codex has recorded a tool call's output.                                 *)
CodexItem(th) ==
    /\ codex[th].call = "replied"
    /\ codex' = [codex EXCEPT ![th].call = "none", ![th].id = Nobody]
    /\ wire' = IF codex[th].id = Nobody THEN wire
               ELSE Append(wire, Msg("item", th, codex[th].turn, codex[th].id))
    /\ UNCHANGED <<fsmVars, threadVars, turns, calls, ownerVars,
                   submittedThisTurn, chainVars, taskVars, endVars>>

(* The turn ends by itself, or (a fault) is aborted with a call open.       *)
CodexCompletes(th) ==
    /\ codex[th].active /\ Len(wire) < MaxWire /\ turns < MaxTurns
    /\ \/ codex[th].call = "none" /\ UNCHANGED faults
       \/ codex[th].call # "none" /\ faults < MaxFaults /\ faults' = faults + 1
    /\ codex' = Stopped(th)
    /\ wire' = Append(wire, Msg("completed", th, codex[th].turn, Nobody))
    /\ UNCHANGED <<fsmVars, threadVars, turns, calls, ownerVars,
                   submittedThisTurn, chainVars, taskVars, ended, closed>>

(* A PreToolUse, PostToolUse or UserPromptSubmit frame on the hook socket,  *)
(* or a request for approval that goes to the permission policy: only those *)
(* of a live thread do (isPermissionHookThread).                            *)
HookFrame(th, kind) ==
    /\ codex[th].active /\ HookTargets # {}
    /\ kind = "policy" => LiveThread(th)
    /\ Len(queue) < MaxQueue /\ commits < MaxCommits
    /\ queue' = Append(queue, Req(kind, th, codex[th].turn, fsm, fsm, Nobody))
    /\ UNCHANGED <<fsmVars, threadVars, codexVars, ownerVars,
                   submittedThisTurn, segment, taskVars, endVars>>

(************************* environment: the owner ***************************)
(* POST /api/reply of kind owner-choice; the page sends the state and visit *)
(* it shows, which may be out of date when the segment runs.                *)
OwnerChooses ==
    \E o \in Options :
        /\ fsm = o[1] /\ Len(queue) < MaxQueue /\ commits < MaxCommits
        /\ queue' = Append(queue, Req("choice", current, Nobody, o[1], o[2], commits))
        /\ UNCHANGED <<fsmVars, threadVars, codexVars, ownerVars,
                       submittedThisTurn, segment, taskVars, endVars>>

(* handleUserPromptReply and sendUserPrompt; a refused turn/start is        *)
(* reported to the page and changes nothing.                                *)
OwnerPrompts ==
    /\ fsm \in Open /\ Len(wire) < MaxWire /\ turns < MaxTurns
    /\ StartTurn(current, wire)
    /\ UNCHANGED <<fsmVars, threadVars, ownerVars, submittedThisTurn,
                   chainVars, taskVars, endVars>>

(* handleOwnerInputReply: the parked request is answered.                   *)
OwnerAnswers ==
    \E p \in parked :
        /\ parked' = {}
        /\ codex' = Replied(codex, p.thread, p.turn, Nobody)
        /\ UNCHANGED <<fsmVars, threadVars, turns, calls, wire, asks,
                       submittedThisTurn, chainVars, taskVars, endVars>>

(******************** notifications, calls and responses ********************)
(* createDriveForward: the posture chain shared by onTurnCompleted and      *)
(* salvageAfterDanceFailure, reading the flag the caller passes.            *)
Yields(flag) == parked # {} \/ fsm \in Open \/ fsm \in Choice \/ flag

DriveForward(flag, w) ==
    \/ /\ Yields(flag)
       /\ wire' = w /\ UNCHANGED <<codex, turns, calls, ended>>
    \/ /\ ~Yields(flag) /\ fsm \in Terminal
       /\ End("terminal") /\ wire' = w /\ UNCHANGED <<codex, turns, calls>>
    \/ /\ ~Yields(flag) /\ fsm \in Stateful
       /\ StartTurn(current, w) /\ UNCHANGED ended

DriveForwardFails(flag) ==
    /\ ~Yields(flag) /\ fsm \in Stateful
    /\ faults < MaxFaults /\ faults' = faults + 1

ReceiveStartedKeepsFlag ==   \* mutant
    /\ wire # <<>> /\ Head(wire).k = "started"
    /\ wire' = Tail(wire)
    /\ UNCHANGED <<fsmVars, threadVars, codex, turns, calls, ownerVars, submittedThisTurn,
                   chainVars, taskVars, endVars>>

ReceiveStarted ==
    /\ wire # <<>> /\ Head(wire).k = "started"
    /\ wire' = Tail(wire)
    /\ submittedThisTurn' = IF Routed(Head(wire).thread) THEN FALSE ELSE submittedThisTurn
    /\ UNCHANGED <<fsmVars, threadVars, codex, turns, calls, ownerVars,
                   chainVars, taskVars, endVars>>

ReceiveCompleted ==
    /\ wire # <<>> /\ Head(wire).k = "completed"
    /\ \/ /\ ~Routed(Head(wire).thread)
          /\ wire' = Tail(wire) /\ UNCHANGED <<codex, turns, calls, ended, faults>>
       \/ /\ Routed(Head(wire).thread)
          /\ DriveForward(submittedThisTurn, Tail(wire)) /\ UNCHANGED faults
       \/ /\ Routed(Head(wire).thread)
          /\ DriveForwardFails(submittedThisTurn) /\ End("failed")
          /\ wire' = Tail(wire) /\ UNCHANGED <<codex, turns, calls>>
    /\ UNCHANGED <<fsmVars, threadVars, ownerVars, submittedThisTurn,
                   chainVars, taskVars, closed>>

(* item/completed resolves the watcher registered for its call.             *)
ReceiveItem ==
    /\ wire # <<>> /\ Head(wire).k = "item"
    /\ wire' = Tail(wire)
    /\ dances' = {IF Routed(Head(wire).thread) /\ d.id = Head(wire).id /\ d.pc = "item"
                  THEN [d EXCEPT !.pc = "interrupt"] ELSE d : d \in dances}
    /\ UNCHANGED <<fsmVars, threadVars, codex, turns, calls, ownerVars,
                   submittedThisTurn, chainVars, clears, entries, orientations, endVars>>

ReceiveInterrupted ==
    /\ wire # <<>> /\ Head(wire).k = "interrupted"
    /\ wire' = Tail(wire)
    /\ dances' = {IF d.id = Head(wire).id /\ d.pc = "await"
                  THEN [d EXCEPT !.pc = "start"] ELSE d : d \in dances}
    /\ UNCHANGED <<fsmVars, threadVars, codex, turns, calls, ownerVars,
                   submittedThisTurn, chainVars, clears, entries, orientations, endVars>>

(* item/tool/call: refused for a thread that is not live, else queued.      *)
ReceiveCall ==
    /\ wire # <<>> /\ Head(wire).k = "call"
    /\ LET m == Head(wire) IN
         IF LiveThread(m.thread)
         THEN /\ queue' = Append(queue, Req("submit", m.thread, m.turn, m.from, m.to, m.id))
              /\ UNCHANGED codex
         ELSE /\ codex' = Replied(codex, m.thread, m.turn, Nobody)
              /\ UNCHANGED queue
    /\ wire' = Tail(wire)
    /\ UNCHANGED <<fsmVars, threadVars, turns, calls, ownerVars,
                   submittedThisTurn, segment, taskVars, endVars>>

(* item/tool/requestUserInput: refused for a thread that is not live, else  *)
(* parked; the controller rejects a request parked before, which answers it.*)
ReceiveAsk ==
    /\ wire # <<>> /\ Head(wire).k = "ask"
    /\ LET m == Head(wire)
           Declined(p) == Replied(codex, p.thread, p.turn, Nobody)
       IN IF LiveThread(m.thread)
          THEN /\ parked' = {[thread |-> m.thread, turn |-> m.turn]}
               /\ codex' = IF parked = {} THEN codex
                           ELSE Declined(CHOOSE p \in parked : TRUE)
          ELSE /\ codex' = Replied(codex, m.thread, m.turn, Nobody)
               /\ UNCHANGED parked
    /\ wire' = Tail(wire)
    /\ UNCHANGED <<fsmVars, threadVars, turns, calls, asks,
                   submittedThisTurn, chainVars, taskVars, endVars>>

(************************* the serialized dispatch chain ********************)
CommitTo(to) == fsm' = to /\ commits' = commits + 1 /\ swaps' = 0

(* makeSerializeDispatch: the next segment starts when the one before it    *)
(* has settled, however it settled.                                         *)
BeginSegment ==
    /\ segment = Idle /\ queue # <<>>
    /\ segment' = Head(queue)
    /\ queue' = Tail(queue)
    /\ UNCHANGED <<fsmVars, threadVars, codexVars, ownerVars, submittedThisTurn, taskVars,
                   endVars>>

At(kind, pc) == segment.kind = kind /\ segment.pc = pc
Resume(pc) == segment' = [segment EXCEPT !.pc = pc]
Release == segment' = Idle

(* scheduleFreshClearAfterTransition.  A submit's clear is queued on the    *)
(* chain once its reply is out ("queued"); without afterReply it runs from  *)
(* setImmediate, which inherits the segment's AsyncLocalStorage mark and so *)
(* runs at once, beside the chain ("begin").                                *)
ScheduleClearLost(th, turn, id, held) ==   \* mutant
    /\ draining' = draining \cup {th}
    /\ clears' = clears \cup {[id |-> id, turn |-> turn, old |-> Nobody, held |-> held,
                               pc |-> IF held THEN "queued" ELSE "begin"]}
    /\ UNCHANGED queue
ScheduleClear(th, turn, id, held) ==
    /\ draining' = draining \cup {th}
    /\ clears' = clears \cup {[id |-> id, turn |-> turn, old |-> Nobody, held |-> held,
                               pc |-> IF held THEN "queued" ELSE "begin"]}
    /\ queue' = IF held THEN Append(queue, Req("clear", th, turn, fsm, fsm, id)) ELSE queue

(* The handler re-checks the thread inside its segment, then dispatch       *)
(* refuses an off-state submit.                                             *)
SubmitGuard ==
    /\ At("submit", "begin")
    /\ IF LiveThread(segment.thread) /\ fsm = segment.from
       THEN Resume("prepare") /\ UNCHANGED codex
       ELSE /\ codex' = Replied(codex, segment.thread, segment.turn, Nobody)
            /\ Release
    /\ UNCHANGED <<fsmVars, threadVars, turns, calls, wire, ownerVars, submittedThisTurn,
                   queue, taskVars, endVars>>

(* Schema validation, reducers, embedded finals or a terminal's artifacts   *)
(* fail: the actor has not moved.                                           *)
SubmitRejected ==
    /\ At("submit", "prepare")
    /\ codex' = Replied(codex, segment.thread, segment.turn, Nobody)
    /\ Release
    /\ UNCHANGED <<fsmVars, threadVars, turns, calls, wire, ownerVars, submittedThisTurn,
                   queue, taskVars, endVars>>

(* host.commitSubmit: the machine ignores the event if it has left the      *)
(* state the exit belongs to.                                               *)
SubmitCommit ==
    /\ At("submit", "prepare")
    /\ IF fsm = segment.from
       THEN CommitTo(segment.to) ELSE UNCHANGED fsmVars
    /\ Resume("entry")
    /\ UNCHANGED <<threadVars, codexVars, ownerVars, submittedThisTurn, queue, taskVars, endVars>>

(* After onEntry: signal a terminal, schedule the fresh clear or the dance, *)
(* and reply.  dry.nextStateId (segment.to) decides whether the submit was  *)
(* cross-state; the posture of the live state decides what follows.         *)
CrossState(s) == s.to # s.from /\ s.to \in Stateful

SubmitFinish ==
    /\ At("submit", "entry")
    /\ LET cross == CrossState(segment)
       IN \/ /\ cross /\ fsm \in Clear
             /\ ScheduleClear(segment.thread, segment.turn, segment.id, TRUE)
             /\ codex' = Replied(codex, segment.thread, segment.turn, Nobody)
             /\ UNCHANGED <<dances, submittedThisTurn, ended>>
          \/ /\ cross /\ fsm \notin Clear
             /\ dances' = dances \cup {[id |-> segment.id, turn |-> segment.turn, pc |-> "item"]}
             /\ submittedThisTurn' = TRUE
             /\ codex' = Replied(codex, segment.thread, segment.turn, segment.id)
             /\ UNCHANGED <<draining, clears, queue, ended>>
          \/ /\ ~cross
             /\ IF segment.to \in Terminal THEN End("terminal") ELSE UNCHANGED ended
             /\ codex' = Replied(codex, segment.thread, segment.turn, Nobody)
             /\ UNCHANGED <<draining, clears, queue, dances, submittedThisTurn>>
    /\ Release
    /\ UNCHANGED <<fsmVars, current, abandoned, lastThread, lost, turns, calls, wire, ownerVars,
                   entries, orientations, closed, faults>>

(* An owner choice is validated against the state and visit it was made     *)
(* for; a stale one is answered 409.                                        *)
ChoiceCommit ==
    /\ At("choice", "begin")
    /\ IF fsm = segment.from /\ commits = segment.id
       THEN CommitTo(segment.to) /\ Resume("entry")
       ELSE UNCHANGED fsmVars /\ Release
    /\ UNCHANGED <<threadVars, codexVars, ownerVars, submittedThisTurn, queue, taskVars, endVars>>

ChoiceFinish ==
    /\ At("choice", "entry")
    /\ \/ /\ fsm \in Clear
          /\ IF segment.from # segment.to THEN ScheduleClear(current, Nobody, segment.id + 1, FALSE)
             ELSE UNCHANGED <<draining, clears, queue>>
          /\ UNCHANGED <<orientations, ended>>
       \/ /\ fsm \in Terminal /\ End("terminal")
          /\ UNCHANGED <<draining, clears, queue, orientations>>
       \/ /\ fsm \in Stateful \ (Open \cup Clear)
          /\ orientations' = orientations + 1
          /\ UNCHANGED <<draining, clears, queue, ended>>
       \/ /\ fsm \in Choice \cup (Open \ Clear)
          /\ UNCHANGED <<draining, clears, queue, orientations, ended>>
    /\ Release
    /\ UNCHANGED <<fsmVars, current, abandoned, lastThread, lost, codexVars, ownerVars,
                   submittedThisTurn, dances, entries, closed, faults>>

(* createPerStateHookDispatcher: an abandoned thread's frame is dropped;    *)
(* otherwise the active state's handler may commit a transition.  A policy  *)
(* checked its thread when the request came, not when it runs.  Neither     *)
(* onCommittedTransition is awaited: the segment ends while                 *)
(* handleCommittedRuntimeTransition is still running the state's onEntry.   *)
HookRuns ==
    /\ At("hook", "begin") \/ At("policy", "begin")
    /\ \/ UNCHANGED <<fsmVars, entries, ended>>
       \/ \E e \in HookTargets :
            /\ segment.kind = "hook" => segment.thread \notin abandoned
            /\ fsm = e[1] /\ e[1] # e[2]
            /\ CommitTo(e[2])
            /\ entries' = entries \cup {[visit |-> commits + 1, thread |-> segment.thread,
                                         turn |-> segment.turn,
                                         policy |-> segment.kind = "policy"]}
            /\ IF e[2] \in Terminal THEN End("terminal") ELSE UNCHANGED ended
    /\ Release
    /\ UNCHANGED <<threadVars, codexVars, ownerVars, submittedThisTurn, queue, dances, clears,
                   orientations, closed, faults>>

HookEntryFinish(e) ==
    /\ e \in entries /\ ~e.policy
    /\ entries' = entries \ {e}
    /\ IF fsm \in Clear THEN ScheduleClear(e.thread, e.turn, e.visit, FALSE)
       ELSE UNCHANGED <<draining, clears, queue>>
    /\ UNCHANGED <<fsmVars, current, abandoned, lastThread, lost, codexVars, ownerVars,
                   submittedThisTurn, segment, dances, orientations, endVars>>

(* A policy names no thread, so the bound one drains, and its clear is      *)
(* registered on the request's reply.  When the onEntry returns after the   *)
(* reply, those callbacks have run already: nobody starts the clear.        *)
PolicyEntryFinish(e) ==
    /\ e \in entries /\ e.policy
    /\ entries' = entries \ {e}
    /\ IF fsm \in Clear
       THEN /\ draining' = draining \cup {current}
            /\ \/ /\ clears' = clears \cup {[id |-> e.visit, turn |-> e.turn, old |-> Nobody,
                                               held |-> TRUE, pc |-> "reply"]}
                  /\ UNCHANGED lost
               \/ lost' = lost \cup {current} /\ UNCHANGED clears
       ELSE UNCHANGED <<draining, clears, lost>>
    /\ UNCHANGED <<fsmVars, current, abandoned, lastThread, codexVars, ownerVars,
                   submittedThisTurn, chainVars, dances, orientations, endVars>>

(* The reply is out, at once or when the owner has decided: the clear       *)
(* queues like a submit's.                                                  *)
PolicyReplies(c) ==
    /\ c \in clears /\ c.pc = "reply"
    /\ clears' = (clears \ {c}) \cup {[c EXCEPT !.pc = "queued"]}
    /\ queue' = Append(queue, Req("clear", current, c.turn, fsm, fsm, c.id))
    /\ UNCHANGED <<fsmVars, threadVars, codexVars, ownerVars, submittedThisTurn, segment,
                   dances, entries, orientations, endVars>>

(* While an onEntry runs (inside a segment or after a hook's), its          *)
(* ops.emit dispatches inline, because the execution context already holds  *)
(* the chain's mark.  Its own transition runs the whole committed-          *)
(* transition handler before the outer one resumes.                         *)
EntryEmit ==
    /\ entries # {} \/ (segment.pc = "entry")
    /\ \E e \in EntryEmits :
         /\ fsm = e[1] /\ e[1] # e[2] /\ commits < MaxCommits
         /\ CommitTo(e[2])
         /\ IF e[2] \in Terminal THEN End("terminal") ELSE UNCHANGED ended
         /\ IF e[2] \in Clear
            THEN ScheduleClear(current, Nobody, commits + 1, FALSE)
            ELSE UNCHANGED <<draining, clears, queue>>
    /\ UNCHANGED <<current, abandoned, lastThread, lost, codexVars, ownerVars, submittedThisTurn,
                   segment, dances, entries, orientations, closed, faults>>

(****************************** turn producers ******************************)
(* scheduleStatefulOrientationAfterReply.                                   *)
OrientAfterChoice ==
    /\ orientations > 0
    /\ orientations' = orientations - 1
    /\ \/ /\ fsm \in Stateful /\ StartTurn(current, wire)
          /\ UNCHANGED <<ended, faults>>
       \/ /\ fsm \notin Stateful
          /\ End("failed") /\ UNCHANGED <<codexVars, faults>>
       \/ /\ faults < MaxFaults /\ faults' = faults + 1
          /\ End("failed") /\ UNCHANGED codexVars
    /\ UNCHANGED <<fsmVars, threadVars, ownerVars, submittedThisTurn, chainVars, dances,
                   clears, entries, closed>>

(* scheduleCrossStateDance: interrupt the submitting turn, await the        *)
(* answer, start the next turn on whatever thread is bound by then.         *)
DanceInterrupts(d) ==
    /\ d \in dances /\ d.pc = "interrupt"
    /\ dances' = (dances \ {d}) \cup {[d EXCEPT !.pc = "await"]}
    /\ IF Interrupts(current, d.turn)
       THEN /\ codex' = Stopped(current)
            /\ wire' = wire \o <<Msg("completed", current, d.turn, Nobody),
                                 Msg("interrupted", current, d.turn, d.id)>>
       ELSE wire' = Append(wire, Msg("interrupted", current, d.turn, d.id)) /\ UNCHANGED codex
    /\ UNCHANGED <<fsmVars, threadVars, turns, calls, ownerVars, submittedThisTurn,
                   chainVars, clears, entries, orientations, endVars>>

DanceStarts(d) ==
    /\ d \in dances /\ d.pc = "start"
    /\ dances' = dances \ {d}
    /\ StartTurn(current, wire)
    /\ UNCHANGED <<fsmVars, threadVars, ownerVars, submittedThisTurn, chainVars, clears,
                   entries, orientations, endVars>>

(* The watcher's timer fires (a fault while its item may still come), or a  *)
(* request is refused: clear the flag and let drive-forward take over.  The *)
(* engine swallows a failure of that salvage.                               *)
ItemComing(d) == \/ \E th \in Threads : codex[th].call = "replied" /\ codex[th].id = d.id
                 \/ \E i \in DOMAIN wire : wire[i].k = "item" /\ wire[i].id = d.id
TimesOutEarly(d) == d.pc = "item"   \* mutant
TimesOut(d) == d.pc = "item" /\ ~ItemComing(d)

DanceFails(d) ==
    /\ d \in dances
    /\ \/ TimesOut(d) /\ UNCHANGED faults
       \/ ~TimesOut(d) /\ d.pc # "await" /\ faults < MaxFaults /\ faults' = faults + 1
    /\ dances' = dances \ {d}
    /\ submittedThisTurn' = FALSE
    /\ DriveForward(FALSE, wire)
    /\ UNCHANGED <<fsmVars, threadVars, ownerVars, chainVars, clears, entries, orientations,
                   closed>>

DanceAndSalvageFail(d) ==
    /\ d \in dances /\ d.pc # "await"
    /\ faults' = faults + (IF TimesOut(d) THEN 1 ELSE 2) /\ faults' <= MaxFaults
    /\ dances' = dances \ {d}
    /\ submittedThisTurn' = FALSE
    /\ ~Yields(FALSE) /\ fsm \in Stateful
    /\ UNCHANGED <<fsmVars, threadVars, codexVars, ownerVars, chainVars, clears, entries,
                   orientations, ended, closed>>

(******************************* fresh clear ********************************)
Holds(c) == At("clear", "begin") /\ segment.id = c.id /\ c.held
Step(c, d) == clears' = (clears \ {c}) \cup d
ReleaseBy(c) == segment' = IF c.held THEN Idle ELSE segment

(* performFreshClear: stop accepting the bound thread, interrupt the turn   *)
(* the transition came from, unsubscribe.                                   *)
ClearAbandons(c) ==
    /\ c \in clears /\ (c.pc = "begin" \/ (c.pc = "queued" /\ Holds(c)))
    /\ abandoned' = abandoned \cup {current}
    /\ Step(c, {[c EXCEPT !.pc = "opening", !.old = current]})
    /\ IF c.turn # Nobody /\ Interrupts(current, c.turn)
       THEN codex' = Stopped(current) /\ wire' = Append(wire, Msg("completed", current, c.turn, Nobody))
       ELSE UNCHANGED <<codex, wire>>
    /\ UNCHANGED <<fsmVars, current, draining, lastThread, lost, turns, calls, ownerVars,
                   submittedThisTurn, chainVars, dances, entries, orientations, endVars>>

(* abandonInactiveOwnerInput, once ab are the abandoned threads.            *)
KeepsParked(ab) == parked   \* mutant
StillParked(ab) == {p \in parked : p.thread \notin (ab \cup draining)}

(* thread/start has answered: bind the replacement (binding.set also        *)
(* abandons the thread bound until now and answers its parked request) and  *)
(* start its first turn; composing the nudge fails outside a stateful leaf. *)
ClearOpens(c) ==
    /\ c \in clears /\ c.pc = "opening" /\ lastThread < MaxThreads
    /\ lastThread' = lastThread + 1 /\ current' = lastThread + 1
    /\ abandoned' = (abandoned \cup {current}) \ {lastThread + 1}
    /\ parked' = StillParked(abandoned')
    /\ swaps' = swaps + 1
    /\ \/ /\ fsm \in Stateful
          /\ StartTurn(lastThread + 1, wire)
          /\ Step(c, {[c EXCEPT !.pc = "boundary"]})
          /\ UNCHANGED <<ended, segment>>
       \/ /\ fsm \notin Stateful
          /\ End("failed") /\ Step(c, {}) /\ ReleaseBy(c)
          /\ UNCHANGED codexVars
    /\ UNCHANGED <<fsm, commits, draining, lost, asks, submittedThisTurn, queue, dances,
                   entries, orientations, closed, faults>>

(* turn/start has answered: publish FreshClearBoundary, stop draining.      *)
ClearBoundary(c) ==
    /\ c \in clears /\ c.pc = "boundary"
    /\ draining' = draining \ {c.old}
    /\ Step(c, {}) /\ ReleaseBy(c)
    /\ UNCHANGED <<fsmVars, current, abandoned, lastThread, lost, codexVars, ownerVars,
                   submittedThisTurn, queue, dances, entries, orientations, endVars>>

(* The preflight, thread/start or turn/start fails: the run fails.          *)
ClearRetries(c) ==   \* mutant
    /\ c \in clears /\ c.pc # "reply" /\ (c.pc = "queued" => Holds(c))
    /\ faults < MaxFaults /\ faults' = faults + 1
    /\ Step(c, {[c EXCEPT !.pc = "begin"]})
    /\ UNCHANGED <<fsmVars, threadVars, codexVars, ownerVars, submittedThisTurn, chainVars,
                   dances, entries, orientations, ended, closed>>
ClearFailsQuietly(c) ==   \* mutant
    /\ c \in clears /\ c.pc # "reply" /\ (c.pc = "queued" => Holds(c))
    /\ faults < MaxFaults /\ faults' = faults + 1
    /\ Step(c, {}) /\ ReleaseBy(c)
    /\ UNCHANGED <<fsmVars, threadVars, codexVars, ownerVars, submittedThisTurn, queue, dances,
                   entries, orientations, ended, closed>>
ClearFails(c) ==
    /\ c \in clears /\ c.pc # "reply" /\ (c.pc = "queued" => Holds(c))
    /\ faults < MaxFaults /\ faults' = faults + 1
    /\ End("failed") /\ Step(c, {}) /\ ReleaseBy(c)
    /\ UNCHANGED <<fsmVars, threadVars, codexVars, ownerVars, submittedThisTurn, queue, dances,
                   entries, orientations, closed>>

(* The grace for the browser is over and shutdown has closed the client.    *)
Close ==
    /\ ended # "no" /\ closed' = TRUE
    /\ UNCHANGED <<fsmVars, threadVars, codexVars, ownerVars, submittedThisTurn, chainVars,
                   taskVars, ended, faults>>

(**************************** the specification *****************************)
Receive == \/ ReceiveStarted \/ ReceiveCompleted \/ ReceiveItem \/ ReceiveInterrupted
           \/ ReceiveCall \/ ReceiveAsk
Dispatch == \/ BeginSegment \/ SubmitGuard \/ SubmitRejected \/ SubmitCommit \/ SubmitFinish
            \/ ChoiceCommit \/ ChoiceFinish \/ HookRuns \/ EntryEmit
            \/ \E e \in entries : HookEntryFinish(e) \/ PolicyEntryFinish(e)
            \/ \E c \in clears : PolicyReplies(c)
Produce == \/ OrientAfterChoice
           \/ \E d \in dances : DanceInterrupts(d) \/ DanceStarts(d) \/ DanceFails(d)
                              \/ DanceAndSalvageFail(d)
FreshClear == \E c \in clears : ClearAbandons(c) \/ ClearOpens(c) \/ ClearBoundary(c)
                                  \/ ClearFails(c)
External == \/ OwnerChooses \/ OwnerPrompts \/ OwnerAnswers
            \/ \E th \in Threads : \/ CodexSubmits(th) \/ CodexAsksOwner(th) \/ CodexItem(th)
                                   \/ CodexCompletes(th)
                                   \/ \E kind \in {"hook", "policy"} : HookFrame(th, kind)
Next == ~closed /\ (Receive \/ Dispatch \/ Produce \/ FreshClear \/ External \/ Close)

Spec == Init /\ [][Next]_vars

(* The event loop keeps running what is runnable: messages are delivered,   *)
(* segments and background tasks resume, the watcher's timer fires, Codex   *)
(* answers requests.  Nothing is assumed of the model's progress, the       *)
(* owner, or the author's hooks beyond that each onEntry returns.           *)
Fairness ==
    /\ WF_vars(~closed /\ Receive)
    /\ WF_vars(~closed /\ (BeginSegment \/ SubmitGuard \/ SubmitCommit \/ SubmitFinish
                             \/ ChoiceCommit \/ ChoiceFinish \/ HookRuns))
    /\ WF_vars(~closed /\ \E e \in entries : HookEntryFinish(e) \/ PolicyEntryFinish(e))
    /\ WF_vars(~closed /\ Produce)
    /\ WF_vars(~closed /\ FreshClear)
FairSpec == Spec /\ Fairness

(******************************* properties *********************************)
(* Every variable keeps its shape.                                          *)
TypeOK ==
    /\ fsm \in States /\ commits \in Nat /\ swaps \in Nat
    /\ current \in Threads /\ lastThread \in Threads
    /\ abandoned \subseteq Threads /\ draining \subseteq Threads /\ lost \subseteq Threads
    /\ codex \in [Threads -> Endpoint]
    /\ turns \in Nat /\ calls \in Nat /\ wire \in Seq(Message)
    /\ parked \subseteq [thread : Threads, turn : Nat] /\ asks \in Nat
    /\ submittedThisTurn \in BOOLEAN
    /\ queue \in Seq(Request) /\ segment \in Request
    /\ dances \subseteq DanceTask /\ clears \subseteq ClearTask
    /\ entries \subseteq HookEntry /\ orientations \in Nat
    /\ ended \in {"no", "terminal", "failed"} /\ closed \in BOOLEAN /\ faults \in Nat

(* The bound thread is unusable (abandoned or draining, so that every       *)
(* request of its model is refused) only while a fresh clear that will      *)
(* replace it is on its way, or the run has ended: unless it was drained    *)
(* for the transition of a policy whose onEntry returned after the reply.   *)
UnusableOnlyWhileClearing ==
    ended = "no" =>
      /\ current \in abandoned =>
           \E c \in clears : c.pc = "opening" /\ c.old = current
      /\ current \in draining =>
           \/ \E c \in clears : c.pc \in {"reply", "queued", "begin", "opening"}
           \/ current \in lost

(* Replacing the bound thread answers the owner-input request parked for it:*)
(* what the owner sees parked belongs to the thread that is bound now.      *)
ParkedForBoundThread == \A p \in parked : p.thread = current

(* activeThreadBinding.ts: an abandoned thread is "no longer allowed to     *)
(* mutate live runtime state".  At the moment a submit commits, its thread  *)
(* has not been abandoned since the handler checked it.                     *)
SubmitCommits == At("submit", "prepare") /\ segment'.pc = "entry" /\ commits' # commits
AbandonedNeverMutates == [][SubmitCommits => segment.thread \notin abandoned]_vars

(* A submit commits only for the bound thread, and not once the thread is   *)
(* about to be replaced: what an owner's choice or an earlier submit has    *)
(* doomed cannot move the workflow although its calls are queued already.   *)
OnlyLiveThreadCommits ==
    [][SubmitCommits => /\ segment.thread = current
                        /\ segment.thread \notin abandoned \cup draining]_vars

(* One visit of a clearOnEntry state opens one replacement thread.          *)
FreshClearOnce == swaps <= 1

(* aharness starts no turn while the run waits at an owner choice or has    *)
(* reached a terminal.  TLC refutes it with prompts or emits, which move on *)
(* between a submit's decision to start the next turn and its turn/start.   *)
NoTurnAtGate == [][turns' > turns => fsm \in Stateful]_vars

(* The first turn of a clearOnEntry state is on a thread that never saw the *)
(* states before it.                                                        *)
ClearStatesStartFresh ==
    [][(turns' > turns /\ fsm \in Clear /\ ended = "no") => swaps' > 0]_vars

(* When drive-forward starts the default turn for a completed one, no other *)
(* producer has started a turn already: "drive-forward must not double-fire"*)
DriveForwardAlone ==
    [][(/\ wire # <<>> /\ Head(wire).k = "completed" /\ wire' = Tail(wire)
        /\ Routed(Head(wire).thread) /\ ~Yields(submittedThisTurn)
        /\ fsm \in Stateful /\ ended' = ended)
         => ~codex[current].active]_vars

(* A live run never stands still: in a state the model drives, a turn       *)
(* begins, an owner request is waiting, or the run ends.                    *)
Driven == codex[current].active \/ parked # {} \/ fsm \notin Stateful \ Open \/ ended # "no"
NoWedge == []<>Driven

(* Every submit call is answered, and a thread marked for a fresh clear is  *)
(* replaced, unless the run ends first.                                     *)
HandoffsFinish ==
    /\ \A th \in Threads : (codex[th].call = "sent") ~> (codex[th].call # "sent" \/ closed)
    /\ (clears # {}) ~> (clears = {} \/ closed)
=============================================================================
