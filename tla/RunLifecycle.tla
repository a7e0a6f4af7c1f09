---------------------------- MODULE RunLifecycle -----------------------------
(****************************************************************************)
(* How a run starts, ends and is shut down: the boot sequence of            *)
(* runtime/liveRunEngine.ts with its cancellation checks, the five routes   *)
(* by which a running engine ends (terminalResolve), the two shutdown       *)
(* routines (shutdown and closeOpenedResources, each run once), and the     *)
(* handle of runtime/programmaticRun.ts with its cancellation, its replies  *)
(* and the result it reports.                                               *)
(*                                                                          *)
(* A step is the code between two awaits.  Which of two routes that wait    *)
(* for the same shutdown resolves first is left open.  `open' is what is    *)
(* really open, not what the engine's variables hold: the hook socket and   *)
(* the UI server leave their variables when a routine begins to close them, *)
(* and the connection gets its variable one check after it is made.         *)
(****************************************************************************)
EXTENDS Naturals, Sequences

CONSTANTS
    NULL,
    Replies,    \* replies given through the handle, tried in the order of their numbers
    MaxFaults   \* bound: stages, background work and connections that fail

Stages == <<"ui", "spawn", "connect", "skills", "thread", "hooks", "kickoff">>
Kickoff == Len(Stages)
Opens(s) == CASE Stages[s] = "ui" -> {"ui"} [] Stages[s] = "spawn" -> {"app"}
              [] Stages[s] = "connect" -> {"client"} [] Stages[s] = "hooks" -> {"hooks"}
              [] OTHER -> {}
ClosingOrder == <<"hooks", "ui", "client", "app">>
Resources == {"hooks", "ui", "client", "app"}
Servers == {"hooks", "ui"}   \* these are taken out of their variable first and closed then
Routes == {"terminal", "drive", "fatal", "clear", "cancel", "sigint"}
Downs == {"shutdown", "closeOpenedResources"}

ASSUME LifecycleAssumption ==
    /\ Replies \subseteq Nat /\ MaxFaults \in Nat
    /\ NULL \notin {"completed", "failed", "cancelled", "success", "failure"} \union Downs

VARIABLES
    mode,      \* whether the command line or the programmatic API started the run
    stage, pc, \* where the engine's main function is
    open,      \* resources that are open
    final,     \* the final run event, once published
    cancel,    \* cancellation was requested
    listening, \* the engine is subscribed to cancellation
    ready,     \* the promise of the run handle
    flow,      \* the workflow's terminal, who is to signal it, and what became of the signal
    routes,    \* how far each way of ending the run has come
    grace,     \* the closeout grace is over
    downs,     \* the next resource each shutdown routine closes
    taken,     \* the routine that took a server out of its variable
    signal,    \* what terminalPromise was resolved with
    result,    \* what the engine returned
    replies,   \* replies given through the handle
    faults
mainVars == <<stage, pc, open>>
endVars  == <<final, routes>>
downVars == <<grace, downs, taken, signal>>
apiVars  == <<cancel, listening, ready, result, replies>>
vars == <<mode, mainVars, endVars, downVars, apiVars, flow, faults>>

Signals == [exit : {0, 1, 130}, status : {NULL, "cancelled"},
            outcome : {NULL, "success", "failure", "cancelled"}]
Signalled(exit, status, outcome) == [exit |-> exit, status |-> status, outcome |-> outcome]

Init ==
    /\ mode \in {"cli", "api"}
    /\ stage = 1 /\ pc = "working" /\ open = {}
    /\ final = NULL /\ cancel = FALSE /\ listening = FALSE /\ ready = "pending"
    /\ flow = [terminal |-> NULL, via |-> NULL, signal |-> "none"]
    /\ routes = [r \in Routes |-> "none"]
    /\ grace = FALSE /\ downs = [d \in Downs |-> 0] /\ taken = [x \in Servers |-> NULL]
    /\ signal = NULL /\ result = NULL
    /\ replies = [r \in Replies |-> "none"] /\ faults = 0

----------------------------------------------------------------------------
(* The final event: publishRunTerminal, publishRunFailedOnce and            *)
(* publishRunCancelledOnce share one flag.                                  *)
Publish(kind) == final' = IF final = NULL THEN kind ELSE final

(* cancelRun: once; its waiters share the promise.                          *)
CancelRun ==
    /\ Publish("cancelled")
    /\ routes' = IF routes["cancel"] = "none" THEN [routes EXCEPT !["cancel"] = "grace"]
                                              ELSE routes

(* resolveCancellation: a run that has its final event is left to end by    *)
(* itself.                                                                  *)
ResolveCancellation ==
    IF final # NULL /\ routes["cancel"] = "none" THEN UNCHANGED endVars ELSE CancelRun

----------------------------------------------------------------------------
(* The boot sequence.  A stage that awaits an answer of Codex can only end  *)
(* well while the connection lasts; the kickoff need not ask for one.       *)
StageDone ==
    /\ pc = "working"
    /\ Stages[stage] \in {"skills", "thread"} => "client" \in open
    /\ pc' = "checking"
    /\ open' = open \union Opens(stage)
    /\ ready' = IF Stages[stage] = "ui" THEN "resolved" ELSE ready
    /\ UNCHANGED <<mode, stage, endVars, downVars, cancel, listening, result, replies, flow, faults>>

(* A stage has thrown.  Only the UI server's failure is not held against a  *)
(* cancellation.                                                            *)
Caught ==
    IF cancel /\ Stages[stage] # "ui"
    THEN pc' = "cancelling" /\ CancelRun
    ELSE pc' = "failing" /\ Publish("failed") /\ routes' = routes

(* The stage fails of itself.  A handshake that fails on an open connection *)
(* leaves it open.                                                          *)
StageFails ==
    /\ pc = "working" /\ faults < MaxFaults
    /\ faults' = faults + 1
    /\ Caught
    /\ \/ open' = open
       \/ Stages[stage] = "connect" /\ open' = open \union Opens(stage)
    /\ UNCHANGED <<mode, stage, downVars, apiVars, flow>>

(* handleClose and close reject the request a stage awaits, and a request   *)
(* after it.                                                                *)
RequestRejected ==
    /\ pc = "working" /\ "client" \notin open
    /\ Stages[stage] \in {"skills", "thread", "kickoff"}
    /\ Caught
    /\ UNCHANGED <<mode, stage, open, downVars, apiVars, flow, faults>>

(* maybeReturnCancelled.                                                    *)
CheckCancelled ==
    /\ pc = "checking"
    /\ IF cancel THEN pc' = "cancelling" /\ CancelRun
                 ELSE pc' = "checked" /\ UNCHANGED endVars
    /\ UNCHANGED <<mode, stage, open, downVars, apiVars, flow, faults>>

(* Mutant: a cancellation that came before the subscription is not looked   *)
(* for once more.                                                           *)
ProceedUnaware ==
    /\ pc = "checked"
    /\ CASE Stages[stage] = "ui" /\ cancel ->
              pc' = "cancelling" /\ CancelRun /\ UNCHANGED <<stage, listening>>
         [] stage = Kickoff ->
              pc' = "running" /\ listening' = TRUE /\ UNCHANGED <<stage, endVars>>
         [] OTHER ->
              /\ pc' = "working" /\ stage' = stage + 1
              /\ UNCHANGED <<endVars, listening>>
    /\ UNCHANGED <<mode, open, downVars, cancel, ready, result, replies, flow, faults>>

(* The check answers after an await.  A cancellation that came in between   *)
(* is looked for again before Codex is started and before the engine waits  *)
(* for the run's end; elsewhere the next check sees it.                     *)
Proceed ==
    /\ pc = "checked"
    /\ CASE Stages[stage] = "ui" /\ cancel ->
              pc' = "cancelling" /\ CancelRun /\ UNCHANGED <<stage, listening>>
         [] stage = Kickoff ->
              /\ pc' = "running" /\ listening' = TRUE /\ UNCHANGED stage
              /\ IF cancel THEN ResolveCancellation ELSE UNCHANGED endVars
         [] OTHER ->
              /\ pc' = "working" /\ stage' = stage + 1
              /\ UNCHANGED <<endVars, listening>>
    /\ UNCHANGED <<mode, open, downVars, cancel, ready, result, replies, flow, faults>>

----------------------------------------------------------------------------
(* The workflow's terminal.  Its transition is committed, onEntry and the   *)
(* artifacts follow, then signalTerminalCompletion.                         *)
AtWork == pc = "running" \/ (stage = Kickoff /\ pc \in {"working", "checking", "checked"})

CommitTerminal(via, outcome) ==
    /\ flow.terminal = NULL
    /\ CASE via = "submit" -> pc = "running" /\ "client" \in open
         [] via = "choice" -> pc = "running"
         [] via = "event"  -> AtWork
    /\ flow' = [terminal |-> outcome, via |-> via, signal |-> "coming"]
    /\ UNCHANGED <<mode, mainVars, endVars, downVars, apiVars, faults>>

(* A submit's terminal ends the run after its reply.                        *)
SignalTerminal ==
    /\ flow.signal = "coming"
    /\ Publish(IF flow.terminal = "failure" THEN "failed" ELSE "completed")
    /\ IF flow.via = "submit"
       THEN flow' = [flow EXCEPT !.signal = "replying"] /\ UNCHANGED routes
       ELSE /\ flow' = [flow EXCEPT !.signal = "sent", !.via = NULL]
            /\ routes' = [routes EXCEPT !["terminal"] = "grace"]
    /\ UNCHANGED <<mode, mainVars, downVars, apiVars, faults>>

SendReply ==
    /\ flow.signal = "replying" /\ "client" \in open
    /\ flow' = [flow EXCEPT !.signal = "sent", !.via = NULL]
    /\ routes' = [routes EXCEPT !["terminal"] = "grace"]
    /\ UNCHANGED <<mode, mainVars, final, downVars, apiVars, faults>>

(* The final artifacts of an owner choice are written after its commit; if  *)
(* that throws, the terminal is not signalled.                              *)
ArtifactsFail ==
    /\ faults < MaxFaults /\ flow.signal = "coming" /\ flow.via = "choice"
    /\ faults' = faults + 1
    /\ flow' = [flow EXCEPT !.signal = "lost"]
    /\ UNCHANGED <<mode, mainVars, endVars, downVars, apiVars>>

DropConnection ==
    /\ faults < MaxFaults /\ "client" \in open
    /\ faults' = faults + 1
    /\ open' = open \ {"client"}
    /\ UNCHANGED <<mode, stage, pc, endVars, downVars, apiVars, flow>>

----------------------------------------------------------------------------
(* The other routes to the end.                                             *)

(* Mutant: drive-forward ends the run wherever the turn left the workflow. *)
TurnCompletesAnywhere ==
    /\ pc = "running" /\ "client" \in open
    /\ routes["drive"] = "none" /\ routes["sigint"] = "none"
    /\ downs["closeOpenedResources"] = 0
    /\ routes' = [routes EXCEPT !["drive"] = "grace"]
    /\ UNCHANGED <<mode, mainVars, final, downVars, apiVars, flow, faults>>

(* Drive-forward finds the workflow at a terminal when a turn completes.    *)
TurnCompletes ==
    /\ pc = "running" /\ "client" \in open /\ flow.terminal # NULL
    /\ routes["drive"] = "none" /\ routes["sigint"] = "none"
    /\ downs["closeOpenedResources"] = 0
    /\ routes' = [routes EXCEPT !["drive"] = "grace"]
    /\ UNCHANGED <<mode, mainVars, final, downVars, apiVars, flow, faults>>

(* failRunAndShutdown, once, and a failed fresh clear, which does not share *)
(* its flag.                                                                *)
Fails(route) ==
    /\ AtWork /\ routes[route] = "none" /\ faults < MaxFaults
    /\ faults' = faults + 1
    /\ Publish("failed")
    /\ routes' = [routes EXCEPT ![route] = "grace"]
    /\ UNCHANGED <<mode, mainVars, downVars, apiVars, flow>>

(* The command line's signal handler shuts down without grace and without   *)
(* a final event, and exits.                                                *)
Sigint ==
    /\ mode = "cli" /\ pc = "running" /\ routes["sigint"] = "none"
    /\ routes' = [routes EXCEPT !["sigint"] = "closing"]
    /\ downs' = IF downs["shutdown"] = 0 THEN [downs EXCEPT !["shutdown"] = 1] ELSE downs
    /\ UNCHANGED <<mode, mainVars, final, grace, taken, signal, apiVars, flow, faults>>

(* The handle's cancel; the first request counts.                           *)
Cancel ==
    /\ mode = "api" /\ ready = "resolved" /\ ~cancel
    /\ cancel' = TRUE
    /\ IF listening THEN ResolveCancellation ELSE UNCHANGED endVars
    /\ UNCHANGED <<mode, mainVars, downVars, listening, ready, result, replies, flow, faults>>

----------------------------------------------------------------------------
(* Shutting down.  The grace is waited for once, by all.                    *)
DownOf(route) == IF route = "cancel" THEN "closeOpenedResources" ELSE "shutdown"
Begun(d) == IF downs[d] = 0 THEN [downs EXCEPT ![d] = 1] ELSE downs

GraceEnds ==
    /\ ~grace /\ (pc = "failing" \/ \E r \in Routes : routes[r] = "grace")
    /\ grace' = TRUE
    /\ UNCHANGED <<mode, mainVars, endVars, downs, taken, signal, apiVars, flow, faults>>

BeginClosing(r) ==
    /\ grace /\ routes[r] = "grace"
    /\ routes' = [routes EXCEPT ![r] = "closing"]
    /\ downs' = Begun(DownOf(r))
    /\ UNCHANGED <<mode, mainVars, final, grace, taken, signal, apiVars, flow, faults>>

(* closeHookSocket and closeUiServer clear the variable and then await the  *)
(* close, which waits for the server's connections.                         *)
Take(d) ==
    /\ downs[d] \in 1..Len(ClosingOrder)
    /\ LET x == ClosingOrder[downs[d]]
       IN  /\ x \in Servers \cap open /\ taken[x] = NULL
           /\ taken' = [taken EXCEPT ![x] = d]
    /\ UNCHANGED <<mode, mainVars, endVars, grace, downs, signal, apiVars, flow, faults>>

(* What is closed is passed, and so is what is not in its variable: a       *)
(* server the other routine has taken, closed or not, and a connection the  *)
(* check did not let through.  For the connection and the child process     *)
(* both routines wait.                                                      *)
Passes(d, x) ==
    \/ x \in Servers /\ taken[x] # d
    \/ x = "client" /\ Stages[stage] = "connect"

CloseNext(d) ==
    /\ downs[d] \in 1..Len(ClosingOrder)
    /\ LET x == ClosingOrder[downs[d]]
       IN  /\ x \in Servers \cap open => taken[x] # NULL
           /\ open' = IF Passes(d, x) THEN open ELSE open \ {x}
    /\ downs' = [downs EXCEPT ![d] = @ + 1]
    /\ UNCHANGED <<mode, stage, pc, endVars, grace, taken, signal, apiVars, flow, faults>>

Closed(d) == downs[d] > Len(ClosingOrder)

SignalOf(r) ==
    CASE r = "terminal" -> Signalled(0, NULL, flow.terminal)
      [] r = "drive"    -> Signalled(0, NULL, NULL)
      [] r = "cancel"   -> Signalled(130, "cancelled", "cancelled")
      [] OTHER          -> Signalled(1, NULL, NULL)

(* terminalResolve: the first counts.                                       *)
Resolve(r) ==
    /\ routes[r] = "closing" /\ Closed(DownOf(r))
    /\ routes' = [routes EXCEPT ![r] = "done"]
    /\ IF r = "sigint" THEN pc' = "exited" /\ UNCHANGED signal
       ELSE /\ signal' = IF signal = NULL THEN SignalOf(r) ELSE signal
            /\ UNCHANGED pc
    /\ UNCHANGED <<mode, stage, open, final, grace, downs, taken, apiVars, flow, faults>>

----------------------------------------------------------------------------
(* The engine returns, and closes the servers nobody has taken.             *)
Untaken == {x \in Servers : taken[x] = NULL}
ReturnEnded ==
    /\ pc = "running" /\ signal # NULL
    /\ pc' = "returned" /\ result' = signal
    /\ listening' = FALSE /\ open' = open \ Untaken
    /\ UNCHANGED <<mode, stage, endVars, downVars, cancel, ready, replies, flow, faults>>

ReturnCancelled ==
    /\ pc = "cancelling" /\ routes["cancel"] = "done"
    /\ pc' = "returned" /\ result' = SignalOf("cancel")
    /\ UNCHANGED <<mode, stage, open, endVars, downVars, cancel, listening, ready, replies, flow, faults>>

(* A failed stage closes what was open at that point, by itself before the  *)
(* connection is made and through shutdown after it.                        *)
CloseAfterFailure ==
    /\ pc = "failing" /\ stage > 3 /\ grace /\ downs["shutdown"] = 0
    /\ downs' = Begun("shutdown")
    /\ UNCHANGED <<mode, mainVars, endVars, grace, taken, signal, apiVars, flow, faults>>

(* Mutant: a refused connection leaves the app server running. *)
ReturnFailedOpen ==
    /\ pc = "failing"
    /\ \/ Stages[stage] = "ui"
       \/ grace /\ stage \in 2..3
       \/ Closed("shutdown")
    /\ pc' = "returned" /\ result' = Signalled(1, NULL, NULL)
    /\ open' = IF stage = 2 THEN open \ {"ui"} ELSE open
    /\ ready' = IF ready = "pending" THEN "rejected" ELSE ready
    /\ UNCHANGED <<mode, stage, endVars, downVars, cancel, listening, replies, flow, faults>>

ReturnFailed ==
    /\ pc = "failing"
    /\ \/ Stages[stage] = "ui"
       \/ grace /\ stage \in 2..3
       \/ Closed("shutdown")
    /\ pc' = "returned" /\ result' = Signalled(1, NULL, NULL)
    /\ open' = IF stage \in 2..3 THEN open \ {"ui", "app"} ELSE open
    /\ ready' = IF ready = "pending" THEN "rejected" ELSE ready
    /\ UNCHANGED <<mode, stage, endVars, downVars, cancel, listening, replies, flow, faults>>

----------------------------------------------------------------------------
(* Replies through the handle: one at a time, in order.  Once the run is    *)
(* cancelled they are answered at once, as closed.                          *)
GiveReply(r) ==
    /\ mode = "api" /\ ready = "resolved" /\ replies[r] = "none"
    /\ \A q \in Replies : q < r => replies[q] # "none"
    /\ replies' = [replies EXCEPT ![r] = IF cancel THEN "answered" ELSE "queued"]
    /\ UNCHANGED <<mode, mainVars, endVars, downVars, cancel, listening, ready, result, flow, faults>>

HandleReply(r) ==
    /\ replies[r] = "queued"
    /\ \A q \in Replies : q < r => replies[q] \notin {"queued", "acting"}
    /\ replies' = [replies EXCEPT ![r] = IF cancel THEN "answered" ELSE "acting"]
    /\ UNCHANGED <<mode, mainVars, endVars, downVars, cancel, listening, ready, result, flow, faults>>

AnswerReply(r) ==
    /\ replies[r] = "acting"
    /\ replies' = [replies EXCEPT ![r] = "answered"]
    /\ UNCHANGED <<mode, mainVars, endVars, downVars, cancel, listening, ready, result, flow, faults>>

----------------------------------------------------------------------------
Boot == StageDone \/ StageFails \/ RequestRejected \/ CheckCancelled \/ Proceed
Terminal == SignalTerminal \/ SendReply \/ ArtifactsFail
            \/ \E via \in {"submit", "choice", "event"}, o \in {"success", "failure"} :
                  CommitTerminal(via, o)
Ends == TurnCompletes \/ Fails("fatal") \/ Fails("clear") \/ Sigint \/ Cancel \/ DropConnection
Closing == GraceEnds \/ (\E r \in Routes : BeginClosing(r) \/ Resolve(r))
           \/ (\E d \in Downs : Take(d) \/ CloseNext(d)) \/ CloseAfterFailure
Returns == ReturnEnded \/ ReturnCancelled \/ ReturnFailed
Answers == \E r \in Replies : GiveReply(r) \/ HandleReply(r) \/ AnswerReply(r)

(* What still goes on in the background of an engine that has returned is   *)
(* left out, except for the replies and the closing of a server.            *)
Over == pc \in {"returned", "exited"}
CloseTaken == \E d \in Downs : (\E x \in Servers \cap open : taken[x] = d) /\ CloseNext(d)

Next == \/ ~Over /\ (Boot \/ Terminal \/ Ends \/ Closing \/ Returns \/ Answers)
        \/ pc = "returned" /\ (Cancel \/ Answers \/ CloseTaken)

(* Every stage of the boot comes to an end, as do handlers, timers and the  *)
(* closing of resources; nothing is assumed of the model, of the owner, of  *)
(* the caller or of failures.                                               *)
Fairness ==
    /\ WF_vars(~Over /\ (StageDone \/ RequestRejected \/ CheckCancelled \/ Proceed))
    /\ WF_vars(~Over /\ (SignalTerminal \/ SendReply))
    /\ WF_vars((~Over /\ (Closing \/ Returns)) \/ (pc = "returned" /\ CloseTaken))
    /\ WF_vars(pc # "exited" /\ \E r \in Replies : HandleReply(r) \/ AnswerReply(r))

Spec == Init /\ [][Next]_vars /\ Fairness

----------------------------------------------------------------------------
(* Properties.                                                              *)

TypeOK ==
    /\ mode \in {"cli", "api"} /\ stage \in 1..Kickoff
    /\ pc \in {"working", "checking", "checked", "failing", "cancelling", "running",
               "returned", "exited"}
    /\ open \subseteq Resources
    /\ final \in {NULL, "completed", "failed", "cancelled"}
    /\ cancel \in BOOLEAN /\ listening \in BOOLEAN
    /\ ready \in {"pending", "resolved", "rejected"}
    /\ flow \in [terminal : {NULL, "success", "failure"},
                 via : {NULL, "submit", "choice", "event"},
                 signal : {"none", "coming", "replying", "sent", "lost"}]
    /\ routes \in [Routes -> {"none", "grace", "closing", "done"}]
    /\ grace \in BOOLEAN /\ downs \in [Downs -> 0..(Len(ClosingOrder) + 1)]
    /\ taken \in [Servers -> Downs \union {NULL}]
    /\ signal \in Signals \union {NULL} /\ result \in Signals \union {NULL}
    /\ replies \in [Replies -> {"none", "queued", "acting", "answered"}]
    /\ faults \in 0..MaxFaults

(* mapEngineResult: the status the handle reports.                          *)
Status(res) ==
    IF res.status = "cancelled" \/ res.outcome = "cancelled" THEN "cancelled"
    ELSE IF res.exit = 0 /\ res.outcome # "failure" THEN "completed" ELSE "failed"

(* The end of the run has closed the connection under the kickoff's last    *)
(* request, whose failure is then what the engine returns.                  *)
Overtaken == stage = Kickoff /\ flow.signal = "sent" /\ result # signal

(* Whatever routes race, the reported status has a reason: a run reported   *)
(* completed has reached a terminal, a cancelled one was cancelled, and in  *)
(* a failed one something failed, or its terminal overtook the boot.        *)
ResultJustified ==
    result # NULL =>
        CASE Status(result) = "completed" -> flow.terminal # NULL
          [] Status(result) = "cancelled" -> cancel
          [] Status(result) = "failed"    -> faults > 0 \/ flow.terminal = "failure" \/ Overtaken

(* When the engine returns, by whatever route and at whatever stage, the    *)
(* app server has ended, and nothing is open that nobody closes, but for    *)
(* the connection of a run cancelled or failed as it connected: a server    *)
(* still open is in the hands of the shutdown routine that took it and that *)
(* the engine has not waited for.                                           *)
NothingLeftOpen ==
    pc = "returned" =>
        \A x \in open : \/ /\ x \in Servers /\ taken[x] # NULL
                           /\ ClosingOrder[downs[taken[x]]] = x
                        \/ x = "client" /\ Stages[stage] = "connect"

(* A published final event is the only one.                                 *)
OneFinalEvent == [][final # NULL => final' = final]_vars

(* A run that was cancelled or has its final event returns, whatever else   *)
(* was under way, every reply given through the handle is answered, and     *)
(* what a returned engine is still closing gets closed.                     *)
(* The one exception: the connection is lost while a submit that reached a  *)
(* terminal has not been answered, and nothing else ends the run.           *)
Stranded == flow.signal = "replying" /\ "client" \notin open
RunReturns ==
    (cancel \/ final # NULL \/ Over)
       ~> (Stranded \/ pc = "exited" \/ (pc = "returned" /\ open \subseteq {"client"}))
Unanswered == \E r \in Replies : replies[r] \in {"queued", "acting"}
RepliesAnswered == Unanswered ~> (~Unanswered \/ pc = "exited")
RunsEnd == RunReturns /\ RepliesAnswered

(* The status the handle reports is that of the final event.  TLC refutes   *)
(* it (lost_outcome.cfg).                                                   *)
ResultAgrees ==
    mode = "api" /\ pc = "returned" /\ final # NULL => Status(result) = final

=============================================================================
