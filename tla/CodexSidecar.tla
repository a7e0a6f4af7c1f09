----------------------------- MODULE CodexSidecar -----------------------------
(****************************************************************************)
(* The Codex sidecar threads of a run: createCodexSidecarManager            *)
(* (runtime/codexSidecar.ts), the timeout clock that stands still while the *)
(* owner decides an approval, and the shutdown of the run as far as it      *)
(* concerns them (both in runtime/liveRunEngine.ts).                        *)
(*                                                                          *)
(* The workflow's code may use a sidecar from several callbacks at once.    *)
(* A call the manager refuses (closed, busy, waiting for input, bad input)  *)
(* changes nothing and is left out.  Codex answers over one ordered         *)
(* connection; ws may hand on several frames before a promise's             *)
(* continuation runs, so the response to turn/start and what sendSidecar    *)
(* does with it are two steps.                                              *)
(****************************************************************************)
EXTENDS Naturals, Sequences, FiniteSets

CONSTANTS
    NULL,
    Keys,       \* thread keys the workflow uses
    MaxThreads, \* bound: Codex threads that are started
    MaxOps,     \* bound: calls of send and answer that are accepted
    MaxCalls,   \* bound: both together
    MaxWire,    \* bound: messages of Codex on their way
    MaxAsks,    \* bound: request_user_input requests of Codex
    MaxFaults   \* bound: refused turns and broken connections

Kinds == {"send", "answer"}
Results == {"completed", "needsInput", "interrupted", "timeout", "thread_closed",
            "app_server_closed", "error"}

ASSUME SidecarAssumption ==
    /\ MaxThreads \in Nat /\ MaxOps \in Nat /\ MaxCalls \in Nat /\ MaxWire \in Nat
    /\ MaxAsks \in Nat /\ MaxFaults \in Nat
    /\ NULL \notin Keys \union Nat \union Kinds \union Results

(* Both are numbered in the order in which they are begun.                  *)
Threads == 1..MaxThreads
Ops == 1..MaxOps

VARIABLES
    key,      \* the key of each thread, NULL before it is created
    life,     \* "none", "starting" (thread/start is out), "live"
    byKey,    \* the manager's index of live keys
    closing,  \* closeSidecar: "no", then what it waits for, then "closed"
    op,       \* the operations
    active,   \* the operation each sidecar is busy with
    pending,  \* the turn whose input request waits for an answer
    ignored,  \* ignoredTurnIds; the turn of operation o is called o
    paused,   \* threads with an approval before the owner: their timers stand still
    turn,     \* Codex: "none", "running", "asking", "over"
    asks,
    requests, \* requests on their way to Codex
    wire,     \* messages on their way from Codex
    link,     \* the connection
    down,     \* runShutdown: "no", "closing", "closed"
    toClose,  \* sidecars shutdown has still to close
    shutting, \* the one it waits for
    faults

tableVars == <<key, life, byKey, closing>>
opVars    == <<op, active, pending, ignored>>
codexVars == <<turn, asks>>
linkVars  == <<requests, wire, link>>
downVars  == <<down, toClose, shutting>>
vars == <<tableVars, opVars, paused, codexVars, linkVars, downVars, faults>>

(* A send's turn is the one Codex starts for it; an answer goes on with the *)
(* turn that asked.                                                         *)
Turns == Ops
Unused == [thread |-> NULL, kind |-> NULL, turn |-> NULL, sent |-> "no", timer |-> "off",
           result |-> NULL]

Init ==
    /\ key = [t \in Threads |-> NULL] /\ life = [t \in Threads |-> "none"]
    /\ byKey = [k \in Keys |-> NULL] /\ closing = [t \in Threads |-> "no"]
    /\ op = [o \in Ops |-> Unused] /\ active = [t \in Threads |-> NULL]
    /\ pending = [t \in Threads |-> NULL] /\ ignored = {} /\ paused = {}
    /\ turn = [u \in Turns |-> "none"] /\ asks = 0
    /\ requests = {} /\ wire = <<>> /\ link = "up"
    /\ down = "no" /\ toClose = {} /\ shutting = NULL /\ faults = 0

Closed(t) == closing[t] # "no"
Routed(t) == life[t] = "live" /\ closing[t] # "closed"      \* byThreadId
Done(o) == op[o].result # NULL
Open(o) == op[o].thread # NULL /\ ~Done(o)
Calls == Cardinality({t \in Threads : life[t] # "none"}) + Cardinality({o \in Ops : op[o] # Unused})
Following(o) == Calls < MaxCalls /\ op[o] = Unused /\ \A p \in Ops : p < o => op[p] # Unused
ThreadOf(u) == op[u].thread

----------------------------------------------------------------------------
(* finishOperation: the first result counts, and the sidecar is free again. *)
Finished(o, result) ==
    IF Done(o) THEN op ELSE [op EXCEPT ![o].result = result]
Freed(o) == IF Done(o) \/ active[ThreadOf(o)] # o THEN active
            ELSE [active EXCEPT ![ThreadOf(o)] = NULL]
Finish(o, result) == op' = Finished(o, result) /\ active' = Freed(o)

Ask(kind, id, u) == [kind |-> kind, id |-> id, turn |-> u]
Sends(r) == requests' = IF link = "up" THEN requests \union {r} ELSE requests
Awaits(kind, id) == \E r \in requests : r.kind = kind /\ r.id = id

----------------------------------------------------------------------------
(* What the workflow's code calls.                                          *)

(* createThread: the key is looked up before thread/start and entered       *)
(* after it.                                                                *)
Create(t, k) ==
    /\ life[t] = "none" /\ \A v \in Threads : v < t => life[v] # "none"
    /\ byKey[k] = NULL /\ link = "up" /\ Calls < MaxCalls
    /\ key' = [key EXCEPT ![t] = k] /\ life' = [life EXCEPT ![t] = "starting"]
    /\ Sends(Ask("create", t, NULL))
    /\ UNCHANGED <<byKey, closing, opVars, paused, codexVars, wire, link, downVars, faults>>

Begin(o, t, kind, u, sent, timer) ==
    /\ op' = [op EXCEPT ![o] = [thread |-> t, kind |-> kind, turn |-> u, sent |-> sent,
                                timer |-> timer, result |-> NULL]]
    /\ active' = [active EXCEPT ![t] = o]

SendBody(o, t) ==
    /\ Begin(o, t, "send", NULL, "requested", "off")
    /\ Sends(Ask("start", o, o))
    /\ UNCHANGED <<tableVars, pending, ignored, paused, codexVars, wire, link, downVars, faults>>

(* Mutant: a waiting question is not looked at. *)
SendDespiteQuestion(o, t) ==
    /\ Following(o) /\ life[t] = "live" /\ ~Closed(t) /\ active[t] = NULL
    /\ SendBody(o, t)

Send(o, t) ==
    /\ Following(o) /\ life[t] = "live" /\ ~Closed(t)
    /\ active[t] = NULL /\ pending[t] = NULL
    /\ SendBody(o, t)

(* The answer to a waiting input request lets its turn go on.               *)
Resumed(u) == IF turn[u] = "asking" /\ link = "up" THEN [turn EXCEPT ![u] = "running"] ELSE turn

Answer(o, t) ==
    /\ Following(o) /\ life[t] = "live" /\ ~Closed(t)
    /\ active[t] = NULL /\ pending[t] # NULL
    /\ Begin(o, t, "answer", pending[t], "over", "on")
    /\ pending' = [pending EXCEPT ![t] = NULL]
    /\ turn' = Resumed(pending[t])
    /\ UNCHANGED <<tableVars, ignored, paused, asks, linkVars, downVars, faults>>

(* closeSidecar up to its first wait.  The key is freed whichever thread    *)
(* holds it.  A running turn is interrupted first, then one that waits for  *)
(* input, then the thread is unsubscribed.                                  *)
CloseGoesOn(t) ==
    IF pending[t] # NULL
    THEN /\ closing' = [closing EXCEPT ![t] = "asking"]
         /\ ignored' = ignored \union {pending[t]}
         /\ Sends(Ask("endInput", t, pending[t]))
    ELSE /\ closing' = [closing EXCEPT ![t] = "unsubscribing"]
         /\ Sends(Ask("unsubscribe", t, NULL)) /\ UNCHANGED ignored

(* Mutant: the turn of the operation is not remembered as ignored. *)
CloseListening(t) ==
    LET o == active[t] IN
    /\ byKey' = [byKey EXCEPT ![key[t]] = NULL]
    /\ IF o # NULL /\ op[o].turn # NULL
       THEN /\ closing' = [closing EXCEPT ![t] = "interrupting"]
            /\ Sends(Ask("endTurn", t, op[o].turn))
            /\ UNCHANGED <<op, active, ignored>>
       ELSE /\ CloseGoesOn(t)
            /\ IF o # NULL THEN Finish(o, "thread_closed") ELSE UNCHANGED <<op, active>>

CloseSidecar(t) ==
    LET o == active[t] IN
    /\ byKey' = [byKey EXCEPT ![key[t]] = NULL]
    /\ IF o # NULL /\ op[o].turn # NULL
       THEN /\ closing' = [closing EXCEPT ![t] = "interrupting"]
            /\ ignored' = ignored \union {op[o].turn}
            /\ Sends(Ask("endTurn", t, op[o].turn))
            /\ UNCHANGED <<op, active>>
       ELSE /\ CloseGoesOn(t)
            /\ IF o # NULL THEN Finish(o, "thread_closed") ELSE UNCHANGED <<op, active>>

Close(t) ==
    /\ life[t] = "live" /\ ~Closed(t)
    /\ CloseSidecar(t)
    /\ UNCHANGED <<key, life, pending, paused, codexVars, wire, link, downVars, faults>>

----------------------------------------------------------------------------
(* What the manager goes on with when a request has been answered, or       *)
(* rejected because the connection is gone.                                 *)

Created(t) ==
    /\ IF link = "up" THEN life' = [life EXCEPT ![t] = "live"] /\ byKey' = [byKey EXCEPT ![key[t]] = t]
                      ELSE life' = [life EXCEPT ![t] = "failed"] /\ UNCHANGED byKey
    /\ UNCHANGED <<key, closing, opVars, codexVars>>

(* Mutant: only the operation is looked at, not whether the sidecar is      *)
(* closed.                                                                  *)
TooLateByTime(o) == op[o].result = "timeout"

(* shouldIgnoreStartedTurn: the turn came too late for its operation.       *)
TooLate(o) ==
    Closed(ThreadOf(o)) \/ op[o].result \in {"timeout", "thread_closed", "app_server_closed", "error"}

(* Mutant: no timer is set for a turn whose start was noticed before the    *)
(* response.                                                                *)
ContinueUntimed(o) ==
    /\ op[o].sent = "accepted"
    /\ IF TooLate(o)
       THEN /\ op' = [op EXCEPT ![o].sent = "over"]
            /\ ignored' = ignored \union {o}
            /\ IF o \in ignored THEN UNCHANGED requests ELSE Sends(Ask("endLate", o, o))
       ELSE /\ op' = [op EXCEPT ![o].sent = "over", ![o].turn = o,
                                ![o].timer = IF Done(o) \/ op[o].turn = o THEN @ ELSE "on"]
            /\ UNCHANGED <<ignored, requests>>
    /\ UNCHANGED <<tableVars, active, pending, paused, codexVars, wire, link, downVars, faults>>

Continue(o) ==
    /\ op[o].sent = "accepted"
    /\ IF TooLate(o)
       THEN /\ op' = [op EXCEPT ![o].sent = "over"]
            /\ ignored' = ignored \union {o}
            /\ IF o \in ignored THEN UNCHANGED requests ELSE Sends(Ask("endLate", o, o))
       ELSE /\ op' = [op EXCEPT ![o].sent = "over", ![o].turn = o,
                                ![o].timer = IF Done(o) THEN @ ELSE "on"]
            /\ UNCHANGED <<ignored, requests>>
    /\ UNCHANGED <<tableVars, active, pending, paused, codexVars, wire, link, downVars, faults>>

Fails(o) ==
    /\ \/ op[o].sent = "refused"
       \/ op[o].sent = "requested" /\ link = "down"
    /\ op' = [Finished(o, IF op[o].sent = "refused" THEN "error" ELSE "app_server_closed")
                 EXCEPT ![o].sent = "over"]
    /\ active' = Freed(o)
    /\ UNCHANGED <<tableVars, pending, ignored, paused, codexVars, linkVars, downVars, faults>>

TurnEnded(t) ==      \* closeSidecar: the running turn is interrupted
    /\ IF active[t] # NULL THEN Finish(active[t], "thread_closed") ELSE UNCHANGED <<op, active>>
    /\ CloseGoesOn(t)
    /\ UNCHANGED <<key, life, byKey, pending, codexVars>>

InputEnded(t) ==
    /\ closing' = [closing EXCEPT ![t] = "unsubscribing"]
    /\ Sends(Ask("unsubscribe", t, NULL))
    /\ turn' = IF pending[t] = NULL THEN turn ELSE Resumed(pending[t])
    /\ pending' = [pending EXCEPT ![t] = NULL]
    /\ UNCHANGED <<key, life, byKey, op, active, ignored, asks>>

Unsubscribed(t) ==
    /\ closing' = [closing EXCEPT ![t] = "closed"]
    /\ UNCHANGED <<key, life, byKey, opVars, codexVars, requests>>

TimeIsUp(o) ==       \* timeoutOperation: the turn is interrupted
    /\ op' = [Finished(o, "timeout") EXCEPT ![o].timer = "over"] /\ active' = Freed(o)
    /\ UNCHANGED <<tableVars, pending, ignored, codexVars, requests>>

Acknowledged(kind, id) ==
    CASE kind = "create"      -> Created(id) /\ UNCHANGED requests
      [] kind = "endTurn"     -> TurnEnded(id)
      [] kind = "endInput"    -> InputEnded(id)
      [] kind = "unsubscribe" -> Unsubscribed(id)
      [] kind = "timeout"     -> TimeIsUp(id)
      [] kind = "endLate"     -> UNCHANGED <<tableVars, opVars, codexVars, requests>>

Waits(kind, id) ==
    CASE kind = "create"      -> life[id] = "starting"
      [] kind = "endTurn"     -> closing[id] = "interrupting"
      [] kind = "endInput"    -> closing[id] = "asking"
      [] kind = "unsubscribe" -> closing[id] = "unsubscribing"
      [] kind = "timeout"     -> op[id].timer = "interrupting"

(* The connection rejects everything that waits.                            *)
Rejected(kind, id) ==
    /\ link = "down" /\ Waits(kind, id)
    /\ Acknowledged(kind, id)
    /\ UNCHANGED <<paused, wire, link, downVars, faults>>

----------------------------------------------------------------------------
(* The operation's timer, set once the turn is known.                       *)
Expires(o) ==
    /\ op[o].timer = "on" /\ ~Done(o) /\ op[o].thread \notin paused
    /\ op' = [op EXCEPT ![o].timer = "interrupting"]
    /\ ignored' = ignored \union {op[o].turn}
    /\ Sends(Ask("timeout", o, op[o].turn))
    /\ UNCHANGED <<tableVars, active, pending, paused, codexVars, wire, link, downVars, faults>>

(* An approval of the sidecar is before the owner, and is decided or        *)
(* withdrawn.                                                               *)
Pause(u) ==
    /\ turn[u] = "running" /\ link = "up" /\ Routed(ThreadOf(u))
    /\ paused' = paused \union {ThreadOf(u)}
    /\ UNCHANGED <<tableVars, opVars, codexVars, linkVars, downVars, faults>>

Unpause(t) ==
    /\ t \in paused
    /\ paused' = paused \ {t}
    /\ UNCHANGED <<tableVars, opVars, codexVars, linkVars, downVars, faults>>

----------------------------------------------------------------------------
(* Notifications and requests of Codex.                                     *)
Heard(u) ==
    LET o == active[ThreadOf(u)] IN
    /\ down # "closed" /\ Routed(ThreadOf(u)) /\ u \notin ignored
    /\ o # NULL /\ op[o].turn \in {NULL, u}

Notify(u, status) ==
    LET t == ThreadOf(u)
        o == active[t] IN
    IF ~Heard(u) THEN UNCHANGED <<op, active>>
    ELSE IF status = "started" THEN op' = [op EXCEPT ![o].turn = u] /\ UNCHANGED active
    ELSE /\ op' = [op EXCEPT ![o].turn = u, ![o].result = status]
         /\ active' = [active EXCEPT ![t] = NULL]

(* handleRequestUserInput; what it does not take is answered with nothing.  *)
HandleRequestUserInput(u) ==
    LET t == ThreadOf(u)
        o == active[t] IN
    IF /\ Routed(t) /\ ~Closed(t) /\ pending[t] = NULL
       /\ o # NULL /\ op[o].turn \in {NULL, u}
    THEN /\ op' = [op EXCEPT ![o].turn = u, ![o].result = "needsInput"]
         /\ active' = [active EXCEPT ![t] = NULL]
         /\ pending' = [pending EXCEPT ![t] = u] /\ UNCHANGED turn
    ELSE turn' = Resumed(u) /\ UNCHANGED <<op, active, pending>>

Receive ==
    /\ wire # <<>> /\ link = "up"
    /\ wire' = Tail(wire)
    /\ LET m == Head(wire) IN
       CASE m.kind = "notice" ->
              Notify(m.id, m.status) /\ UNCHANGED <<tableVars, pending, ignored, codexVars, requests>>
         [] m.kind = "ask" ->
              HandleRequestUserInput(m.id) /\ UNCHANGED <<tableVars, ignored, asks, requests>>
         [] m.kind = "start" ->
              /\ op' = [op EXCEPT ![m.id].sent = m.status]
              /\ UNCHANGED <<tableVars, active, pending, ignored, codexVars, requests>>
         [] OTHER -> Acknowledged(m.kind, m.id)
    /\ UNCHANGED <<paused, link, downVars, faults>>

----------------------------------------------------------------------------
(* Codex.                                                                   *)
Message(kind, id, status) == [kind |-> kind, id |-> id, status |-> status]
Room(n) == link = "up" /\ Len(wire) + n <= MaxWire

(* It answers a request; the notification of a turn it starts comes after   *)
(* the response, the one of a turn it interrupts before it.                 *)
Serve(r) ==
    /\ r \in requests /\ Room(2)
    /\ requests' = requests \ {r}
    /\ CASE r.kind = "start" ->
              /\ turn' = [turn EXCEPT ![r.turn] = "running"]
              /\ wire' = wire \o <<Message("start", r.id, "accepted"), Message("notice", r.turn, "started")>>
         [] r.kind # "start" /\ r.turn # NULL /\ turn[r.turn] \in {"running", "asking"} ->
              /\ turn' = [turn EXCEPT ![r.turn] = "over"]
              /\ wire' = wire \o <<Message("notice", r.turn, "interrupted"), Message(r.kind, r.id, NULL)>>
         [] OTHER -> wire' = Append(wire, Message(r.kind, r.id, NULL)) /\ UNCHANGED turn
    /\ UNCHANGED <<tableVars, opVars, paused, asks, link, downVars, faults>>

Refuse(r) ==
    /\ r \in requests /\ r.kind = "start" /\ Room(1) /\ faults < MaxFaults
    /\ faults' = faults + 1
    /\ requests' = requests \ {r} /\ wire' = Append(wire, Message("start", r.id, "refused"))
    /\ UNCHANGED <<tableVars, opVars, paused, codexVars, link, downVars>>

EndTurn(u, status) ==
    /\ turn[u] = "running" /\ Room(1)
    /\ turn' = [turn EXCEPT ![u] = "over"] /\ wire' = Append(wire, Message("notice", u, status))
    /\ UNCHANGED <<tableVars, opVars, paused, asks, requests, link, downVars, faults>>

AskOwner(u) ==
    /\ turn[u] = "running" /\ Room(1) /\ asks < MaxAsks
    /\ asks' = asks + 1
    /\ turn' = [turn EXCEPT ![u] = "asking"] /\ wire' = Append(wire, Message("ask", u, NULL))
    /\ UNCHANGED <<tableVars, opVars, paused, requests, link, downVars, faults>>

Disconnects == link' = "down" /\ wire' = <<>> /\ requests' = {}

BreakConnection ==
    /\ link = "up" /\ faults < MaxFaults
    /\ faults' = faults + 1
    /\ Disconnects
    /\ UNCHANGED <<tableVars, opVars, paused, codexVars, downVars>>

----------------------------------------------------------------------------
(* runShutdown: shutdown closes the live sidecars one after another, then   *)
(* markAppServerClosed settles what is left and the connection is closed.   *)
BeginShutdown ==
    /\ down = "no"
    /\ down' = "closing" /\ toClose' = {byKey[k] : k \in Keys} \ {NULL}
    /\ UNCHANGED <<tableVars, opVars, paused, codexVars, linkVars, shutting, faults>>

ShutdownWaits == shutting # NULL /\ closing[shutting] # "closed"

(* A sidecar the workflow is already closing is passed over.                *)
ShutdownCloses(t) ==
    /\ down = "closing" /\ t \in toClose /\ ~ShutdownWaits
    /\ toClose' = toClose \ {t}
    /\ IF Closed(t) THEN UNCHANGED <<byKey, closing, op, active, ignored, requests, shutting>>
                    ELSE CloseSidecar(t) /\ shutting' = t
    /\ UNCHANGED <<key, life, pending, paused, codexVars, wire, link, down, faults>>

Left == {t \in Threads : \E k \in Keys : byKey[k] = t}

MarkAppServerClosed ==
    /\ down = "closing" /\ toClose = {} /\ ~ShutdownWaits
    /\ down' = "closed"
    /\ op' = [o \in Ops |-> IF \E t \in Left : active[t] = o
                            THEN [op[o] EXCEPT !.result = "app_server_closed"] ELSE op[o]]
    /\ active' = [t \in Threads |-> IF t \in Left THEN NULL ELSE active[t]]
    /\ pending' = [t \in Threads |-> IF t \in Left THEN NULL ELSE pending[t]]
    /\ Disconnects
    /\ UNCHANGED <<tableVars, ignored, paused, codexVars, toClose, shutting, faults>>

----------------------------------------------------------------------------
Author == \/ \E t \in Threads : Close(t) \/ (\E k \in Keys : Create(t, k))
          \/ \E t \in Threads, o \in Ops : Send(o, t) \/ Answer(o, t)
Rejections == \/ \E t \in Threads, kind \in {"create", "endTurn", "endInput", "unsubscribe"} :
                    Rejected(kind, t)
              \/ \E o \in Ops : Rejected("timeout", o)
Manager == Receive \/ Rejections \/ (\E o \in Ops : Continue(o) \/ Fails(o))
Timers == \E o \in Ops : Expires(o)
Codex == \/ \E r \in requests : Serve(r) \/ Refuse(r)
         \/ \E u \in Turns : AskOwner(u) \/ EndTurn(u, "completed") \/ EndTurn(u, "interrupted")
Owner == (\E u \in Turns : Pause(u)) \/ (\E t \in Threads : Unpause(t))
Shutdown == BeginShutdown \/ MarkAppServerClosed \/ (\E t \in Threads : ShutdownCloses(t))

Next == Author \/ Manager \/ Timers \/ Codex \/ Owner \/ Shutdown \/ BreakConnection

(* The manager's continuations run, timers that do not stand still fire,    *)
(* Codex answers requests, and shutdown goes on once it has begun.  Nothing *)
(* is assumed of the workflow, of the owner or of how long a turn takes.    *)
Fairness ==
    /\ WF_vars(Receive) /\ WF_vars(Rejections)
    /\ \A o \in Ops : WF_vars(Continue(o) \/ Fails(o)) /\ WF_vars(Expires(o))
    /\ WF_vars(\E r \in requests : Serve(r))
    /\ WF_vars(MarkAppServerClosed \/ (\E t \in Threads : ShutdownCloses(t)))

Spec == Init /\ [][Next]_vars /\ Fairness

----------------------------------------------------------------------------
(* Properties.                                                              *)

TypeOK ==
    /\ key \in [Threads -> Keys \union {NULL}]
    /\ life \in [Threads -> {"none", "starting", "live", "failed"}]
    /\ byKey \in [Keys -> Threads \union {NULL}]
    /\ closing \in [Threads -> {"no", "interrupting", "asking", "unsubscribing", "closed"}]
    /\ op \in [Ops -> [thread : Threads \union {NULL}, kind : Kinds \union {NULL},
                       turn : Turns \union {NULL},
                       sent : {"no", "requested", "accepted", "refused", "over"},
                       timer : {"off", "on", "interrupting", "over"},
                       result : Results \union {NULL}]]
    /\ active \in [Threads -> Ops \union {NULL}] /\ pending \in [Threads -> Turns \union {NULL}]
    /\ ignored \subseteq Turns /\ paused \subseteq Threads
    /\ turn \in [Turns -> {"none", "running", "asking", "over"}] /\ asks \in 0..MaxAsks
    /\ Len(wire) <= MaxWire /\ link \in {"up", "down"}
    /\ down \in {"no", "closing", "closed"} /\ toClose \subseteq Threads
    /\ shutting \in Threads \union {NULL} /\ faults \in 0..MaxFaults

AtWork(u) == turn[u] \in {"running", "asking"}

(* An operation without a result is the one its sidecar is busy with: none  *)
(* is overwritten by another and forgotten.  And Codex is never asked for a *)
(* turn on a sidecar whose last turn still runs.                            *)
OneAtATime ==
    /\ \A o \in Ops : Open(o) => active[op[o].thread] = o
    /\ link = "up" =>
           \A u, v \in Turns : AtWork(u) /\ AtWork(v) /\ ThreadOf(u) = ThreadOf(v) => u = v

(* No turn is left to run on its own: its start is still to be noticed, an  *)
(* operation follows it, its question waits for an answer, or it is being   *)
(* interrupted.                                                             *)
TurnsAttended ==
    link = "up" =>
        \A u \in Turns : AtWork(u) =>
            \/ op[u].sent \in {"requested", "accepted"}
            \/ active[ThreadOf(u)] # NULL /\ op[active[ThreadOf(u)]].turn = u
            \/ pending[ThreadOf(u)] = u
            \/ \E r \in requests : r.turn = u /\ r.kind # "start"

(* Once a sidecar is being closed, or an operation's time is up, its turn's *)
(* end no longer counts as the operation's.                                 *)
NoLateSuccess ==
    [][\A o \in Ops : Open(o) /\ op'[o].result \in {"completed", "interrupted"} =>
          ~Closed(op[o].thread) /\ op[o].timer # "interrupting"]_vars

(* Every accepted send and answer returns, unless an approval of its        *)
(* sidecar stays before the owner; closing a sidecar and shutting the run   *)
(* down come to an end; all this also when the connection breaks under an   *)
(* interrupt.                                                               *)
OperationsEnd ==
    /\ \A o \in Ops : Open(o) ~> (Done(o) \/ op[o].thread \in paused)
    /\ \A t \in Threads : Closed(t) ~> (closing[t] = "closed")
    /\ (down = "closing") ~> (down = "closed")

(* A key has one live sidecar.  TLC refutes it (twin_sidecars.cfg).        *)
OneLivePerKey ==
    \A t, v \in Threads :
        life[t] = "live" /\ ~Closed(t) /\ life[v] = "live" /\ ~Closed(v) /\ key[t] = key[v]
            => t = v
=============================================================================
