------------------------------ MODULE Approvals ------------------------------
(****************************************************************************)
(* Codex's approval requests in a live run: createApprovalDispatcher and    *)
(* createFileChangeTracker (packages/core/src/transport), the workflow's    *)
(* permissionRequest policy that may decide them first, the reply and its   *)
(* afterReply callbacks (jsonrpc/client.ts), and what a fresh clear does to *)
(* the requests of the thread it replaces.                                  *)
(*                                                                          *)
(* The page is its set of cards.  A request is known by the order in which  *)
(* it arrived.  Whoever else moves the workflow (submits, choices) is one   *)
(* action here, TransitionElsewhere; module TurnControl has the details.    *)
(****************************************************************************)
EXTENDS Integers, Sequences, FiniteSets

CONSTANTS
    MaxRequests,  \* bound: approval requests Codex makes
    MaxThreads,   \* bound: parent threads of the run
    MaxDiffs,     \* bound: file-change updates of one thread
    Policies,     \* whether the workflow declares a permissionRequest event
    SlowEntries   \* whether an onEntry may still run when the policy has answered

ASSUME ApprovalsAssumption ==
    /\ MaxRequests \in Nat /\ MaxThreads \in Nat \ {0} /\ MaxDiffs \in Nat
    /\ Policies \in BOOLEAN /\ SlowEntries \in BOOLEAN

Requests == 1..MaxRequests
Sidecar == 0                       \* the one sidecar thread
Threads == 0..MaxThreads
Kinds == {"command", "file", "permission"}   \* an elicitation is handled as a permission request is
ClearSegment == 0                  \* the queued segment that is a fresh clear
Free == -1                         \* no segment holds the chain

VARIABLES
    arrived,      \* requests received so far
    kind, thread, \* what request it is, and which thread made it
    stage,        \* "new", "policy", "running", "parked" (pendingByRequestId), "settled"
    answer,       \* what Codex was told, "none" before
    withdrawn,    \* requests Codex reported as resolved by itself
    cards,        \* requests the page shows
    tracked,      \* the tracker's pendingByRequestId
    diffs,        \* changesByKey: the file change known for each thread's item
    latest,       \* history: the change Codex reported last
    shown,        \* the change each file card shows
    pauses,       \* pauseDepthByThreadId of the sidecar
    sidecarOpen,  \* sidecarManager.ownsThread
    current,      \* activeThreadBinding.current(); the threads before it are abandoned
    draining,     \* pendingFreshClearThreadIds
    queue, chain, \* serializeDispatch: waiting segments, the one that runs
    entries,      \* policies whose transition's onEntry still runs
    afterReply,   \* requests with a fresh clear registered on their reply
    clear,        \* "no", "queued", "beside" (set up beside the chain), "opening"
                  \* (thread/start is out), "bound"
    late,         \* history: an onEntry returned after its policy's request was answered
    closed

requestVars == <<arrived, kind, thread>>
settleVars  == <<stage, answer, cards, tracked, pauses>>
diffVars    == <<diffs, latest, shown>>
threadVars  == <<sidecarOpen, current, draining>>
taskVars    == <<queue, chain, entries, afterReply, clear>>
vars == <<requestVars, settleVars, withdrawn, diffVars, threadVars, taskVars, late, closed>>

(* isLiveThreadId and isRunRoutableThreadId.  A thread markAbandoned has    *)
(* named while it is still bound is draining already.                       *)
Live(th) == th = current /\ th \notin draining
Routable(th) == Live(th) \/ (th = Sidecar /\ sidecarOpen)

Parked == {r \in Requests : stage[r] = "parked"}
Answered(r) == answer[r] # "none"

Init ==
    /\ arrived = 0
    /\ kind = [r \in Requests |-> "command"] /\ thread = [r \in Requests |-> Sidecar]
    /\ stage = [r \in Requests |-> "new"] /\ answer = [r \in Requests |-> "none"]
    /\ withdrawn = {} /\ cards = {} /\ tracked = {} /\ pauses = 0
    /\ diffs = [th \in Threads |-> 0] /\ latest = [th \in Threads |-> 0]
    /\ shown = [r \in Requests |-> 0]
    /\ sidecarOpen = TRUE /\ current = 1 /\ draining = {}
    /\ queue = <<>> /\ chain = Free /\ entries = {} /\ afterReply = {} /\ clear = "no"
    /\ late = FALSE /\ closed = FALSE

(***************************** settling a request ***************************)
(* The reply of a request runs its afterReply callbacks, which queue the    *)
(* fresh clear; DO_NOT_REPLY drops them.                                    *)
RunsNothing(S, how) == UNCHANGED <<queue, clear>>   \* mutant
RunsAfterReply(S, how) ==
    IF how # "noReply" /\ S \cap afterReply # {}
    THEN queue' = Append(queue, ClearSegment) /\ clear' = "queued"
    ELSE UNCHANGED <<queue, clear>>

(* removePending: the entry, the tracker's note and the sidecar's pause.    *)
KeepsPause(S) == tracked' = tracked \ S /\ pauses' = pauses   \* mutant
Removes(S) ==
    /\ tracked' = tracked \ S
    /\ pauses' = pauses - Cardinality({r \in S \cap Parked : thread[r] = Sidecar})

(* The promise of each request of S resolves with how; publishResolved      *)
(* takes its card off the page.                                             *)
Settle(S, how) ==
    /\ stage' = [r \in Requests |-> IF r \in S THEN "settled" ELSE stage[r]]
    /\ answer' = [r \in Requests |-> IF r \in S THEN how ELSE answer[r]]
    /\ cards' = cards \ S
    /\ Removes(S)

(* park: by the time the card is published the tracker follows its item.    *)
TracksLate(r, k, th) == tracked' = tracked /\ shown' = [shown EXCEPT ![r] = diffs[th]]   \* mutant
Tracks(r, k, th) ==
    IF k = "file"
    THEN tracked' = tracked \cup {r} /\ shown' = [shown EXCEPT ![r] = diffs[th]]
    ELSE UNCHANGED <<tracked, shown>>

(* onBrowserRequestPending: the sidecar's timeout stands still meanwhile.    *)
Pauses(th) == pauses' = IF th = Sidecar THEN pauses + 1 ELSE pauses

Park(r, k, th) ==
    /\ stage' = [stage EXCEPT ![r] = "parked"]
    /\ cards' = cards \cup {r}
    /\ Tracks(r, k, th)
    /\ Pauses(th)
    /\ UNCHANGED answer

(***************************** requests of Codex ****************************)
(* handleCommandApproval, handleFileApproval, handlePermissionApproval and  *)
(* handleElicitation: a thread that is not the run's is declined; a command *)
(* or a file change of the parent goes to the policy; the rest to the page. *)
RequestArrives(k, th) ==
    LET r == arrived + 1 IN
    /\ arrived < MaxRequests
    /\ th <= current
    /\ arrived' = r
    /\ kind' = [kind EXCEPT ![r] = k] /\ thread' = [thread EXCEPT ![r] = th]
    /\ \/ /\ ~Routable(th)
          /\ stage' = [stage EXCEPT ![r] = "settled"]
          /\ answer' = [answer EXCEPT ![r] = "decline"]
          /\ UNCHANGED <<cards, tracked, shown, pauses, queue>>
       \/ /\ Live(th) /\ Policies /\ k \in {"command", "file"}
          /\ stage' = [stage EXCEPT ![r] = "policy"]
          /\ queue' = Append(queue, r)
          /\ UNCHANGED <<answer, cards, tracked, shown, pauses>>
       \/ /\ Routable(th) /\ ~(Live(th) /\ Policies /\ k \in {"command", "file"})
          /\ Park(r, k, th)
          /\ UNCHANGED queue
    /\ UNCHANGED <<withdrawn, late, diffs, latest, threadVars, chain, entries, afterReply, clear, closed>>

(* serverRequest/resolved: Codex no longer waits (its turn was interrupted, *)
(* or it decided by itself).  Dropped for a draining or replaced thread,    *)
(* and while no entry is parked for the request.                            *)
CodexWithdraws(r) ==
    /\ r <= arrived /\ ~Answered(r) /\ r \notin withdrawn
    /\ withdrawn' = withdrawn \cup {r}
    /\ IF r \in Parked /\ thread[r] \notin draining /\ Routable(thread[r])
       THEN Settle({r}, "noReply") ELSE UNCHANGED settleVars
    /\ UNCHANGED <<requestVars, diffVars, threadVars, taskVars, late, closed>>

(* A file change's item or patch update; two file requests of a thread are  *)
(* about the same item (bound: one item a thread).                          *)
DiffArrives(th) ==
    /\ th <= current /\ latest[th] < MaxDiffs
    /\ latest' = [latest EXCEPT ![th] = @ + 1]
    /\ IF Routable(th)
       THEN /\ diffs' = [diffs EXCEPT ![th] = latest[th] + 1]
            /\ shown' = [r \in Requests |-> IF r \in tracked /\ thread[r] = th
                                            THEN latest[th] + 1 ELSE shown[r]]
       ELSE UNCHANGED <<diffs, shown>>
    /\ UNCHANGED <<requestVars, settleVars, withdrawn, late, threadVars, taskVars, closed>>

(****************************** the owner's page ****************************)
(* handleBrowserReply: replies to anything but a parked request are refused.*)
OwnerDecides(r, how) ==
    /\ r \in Parked
    /\ Settle({r}, how)
    /\ RunsAfterReply({r}, how)
    /\ UNCHANGED <<requestVars, withdrawn, late, diffVars, threadVars, chain, entries, afterReply, closed>>

(************************** the permissionRequest policy ********************)
BeginSegment ==
    /\ chain = Free /\ queue # <<>>
    /\ chain' = Head(queue) /\ queue' = Tail(queue)
    /\ IF chain' = ClearSegment
       THEN clear' = "opening" /\ UNCHANGED stage   \* performFreshClear marks current abandoned
       ELSE stage' = [stage EXCEPT ![chain'] = "running"] /\ UNCHANGED clear
    /\ UNCHANGED <<requestVars, answer, cards, tracked, pauses, withdrawn, late, diffVars, threadVars,
                   entries, afterReply, closed>>

(* scheduleFreshClearAfterTransition for a transition committed by request  *)
(* r's policy: the clear is registered on r's reply.                        *)
Registers(r) == draining' = draining \cup {current} /\ afterReply' = afterReply \cup {r}

(* Bound: one fresh clear at a time; TurnControl lets them overlap.         *)
OneClear == entries = {} /\ clear = "no" /\ current \notin draining /\ current < MaxThreads

(* The policy's event moves the workflow to a clearOnEntry state.  The      *)
(* engine does not await handleCommittedRuntimeTransition, which schedules  *)
(* the clear only when the state's onEntry has returned.                    *)
PolicyTransitions(r) ==
    /\ chain = r /\ r \in Requests /\ OneClear
    /\ \/ Registers(r) /\ UNCHANGED entries
       \/ SlowEntries /\ entries' = entries \cup {r} /\ UNCHANGED <<draining, afterReply>>
    /\ UNCHANGED <<requestVars, settleVars, withdrawn, late, diffVars, sidecarOpen, current, queue,
                   chain, clear, closed>>

EntryFinishes(r) ==
    /\ r \in entries
    /\ entries' = entries \ {r}
    /\ Registers(r)
    /\ late' = (late \/ chain # r)
    /\ UNCHANGED <<requestVars, settleVars, withdrawn, diffVars, sidecarOpen, current, queue,
                   chain, clear, closed>>

(* applyPermissionPolicy after the await: the thread is checked again, then *)
(* the decision ("decline" also stands for a policy that threw) or the page.*)
AnyThread(th) == TRUE   \* mutant
StillRoutable(th) == Routable(th)
KeepsChain == chain' = chain   \* mutant
ReleaseChain == chain' = Free

PolicyResolves(r) ==
    /\ chain = r /\ r \in Requests
    /\ ReleaseChain
    /\ \/ /\ ~StillRoutable(thread[r])
          /\ Settle({r}, "decline") /\ RunsAfterReply({r}, "decline")
          /\ UNCHANGED shown
       \/ \E how \in {"accept", "decline"} :
            /\ StillRoutable(thread[r])
            /\ Settle({r}, how) /\ RunsAfterReply({r}, how)
            /\ UNCHANGED shown
       \/ /\ StillRoutable(thread[r])
          /\ Park(r, kind[r], thread[r])
          /\ UNCHANGED <<queue, clear>>
    /\ UNCHANGED <<requestVars, withdrawn, late, diffs, latest, threadVars, entries, afterReply, closed>>

(******************************** fresh clear *******************************)
(* The clear of a submit or a choice is queued; that of a hook is started   *)
(* by setImmediate, inherits its segment's mark and runs beside the chain.  *)
TransitionElsewhere ==
    /\ chain = Free /\ OneClear
    /\ draining' = draining \cup {current}
    /\ \/ queue' = Append(queue, ClearSegment) /\ clear' = "queued"
       \/ clear' = "beside" /\ UNCHANGED queue
    /\ UNCHANGED <<requestVars, settleVars, withdrawn, late, diffVars, sidecarOpen, current, chain,
                   entries, afterReply, closed>>

ClearOpensBeside ==
    /\ clear = "beside" /\ clear' = "opening"
    /\ UNCHANGED <<requestVars, settleVars, withdrawn, late, diffVars, threadVars, queue, chain,
                   entries, afterReply, closed>>

(* binding.set, whose listener is abandonInactiveRequests.                  *)
AbandonsNothing(now) == {}   \* mutant
Abandons(now) == {r \in Parked : ~(thread[r] = now \/ (thread[r] = Sidecar /\ sidecarOpen))}
ClearBinds ==
    /\ clear = "opening"
    /\ clear' = "bound" /\ current' = current + 1
    /\ Settle(Abandons(current + 1), "decline")
    /\ UNCHANGED <<requestVars, withdrawn, late, diffVars, sidecarOpen, draining, queue, chain,
                   entries, afterReply, closed>>

(* The replacement's first turn is started: the old thread has drained.     *)
Drains == draining' = draining \ {current - 1}
ClearFinishes ==
    /\ clear = "bound"
    /\ clear' = "no" /\ Drains
    /\ IF chain = ClearSegment THEN ReleaseChain ELSE UNCHANGED chain
    /\ UNCHANGED <<requestVars, settleVars, withdrawn, late, diffVars, sidecarOpen, current, queue,
                   entries, afterReply, closed>>

SidecarCloses ==
    /\ sidecarOpen /\ sidecarOpen' = FALSE
    /\ UNCHANGED <<requestVars, settleVars, withdrawn, late, diffVars, current, draining, taskVars, closed>>

(* closeReplySurfaces at the end of the run, whatever ends it (a failed     *)
(* fresh clear too): what is parked is answered safely.                     *)
Close ==
    /\ closed' = TRUE
    /\ Settle(Parked, "decline")
    /\ UNCHANGED <<requestVars, withdrawn, late, diffVars, threadVars, taskVars>>

(****************************** the specification ***************************)
Clearing == ClearOpensBeside \/ ClearBinds \/ ClearFinishes
Policy == \E r \in Requests : PolicyTransitions(r) \/ PolicyResolves(r)
Next ==
    /\ ~closed
    /\ \/ \E k \in Kinds, th \in Threads : RequestArrives(k, th)
       \/ \E r \in Requests : CodexWithdraws(r)
       \/ \E th \in Threads : DiffArrives(th)
       \/ \E r \in Requests, how \in {"accept", "decline"} : OwnerDecides(r, how)
       \/ BeginSegment \/ Policy \/ \E r \in Requests : EntryFinishes(r)
       \/ TransitionElsewhere \/ Clearing \/ SidecarCloses \/ Close

Spec == Init /\ [][Next]_vars

(* Queued segments run, a policy and an onEntry return, Codex answers       *)
(* thread/start.  Nothing is assumed of the owner or of Codex's requests.   *)
Fairness ==
    /\ WF_vars(~closed /\ BeginSegment)
    /\ WF_vars(~closed /\ \E r \in Requests : PolicyResolves(r))
    /\ WF_vars(~closed /\ \E r \in Requests : EntryFinishes(r))
    /\ WF_vars(~closed /\ Clearing)
FairSpec == Spec /\ Fairness

(******************************** properties ********************************)
(* Every variable keeps its shape.                                          *)
TypeOK ==
    /\ arrived \in 0..MaxRequests
    /\ kind \in [Requests -> Kinds] /\ thread \in [Requests -> Threads]
    /\ stage \in [Requests -> {"new", "policy", "running", "parked", "settled"}]
    /\ answer \in [Requests -> {"none", "accept", "decline", "noReply"}]
    /\ withdrawn \subseteq Requests /\ cards \subseteq Requests /\ tracked \subseteq Requests
    /\ diffs \in [Threads -> Nat] /\ latest \in [Threads -> Nat] /\ shown \in [Requests -> Nat]
    /\ pauses \in Nat /\ sidecarOpen \in BOOLEAN
    /\ current \in 1..MaxThreads /\ draining \subseteq 1..MaxThreads
    /\ queue \in Seq(Requests \cup {ClearSegment})
    /\ chain \in Requests \cup {ClearSegment, Free}
    /\ entries \subseteq Requests /\ afterReply \subseteq Requests
    /\ clear \in {"no", "queued", "beside", "opening", "bound"}
    /\ late \in BOOLEAN /\ closed \in BOOLEAN

(* However a request is settled (the page, Codex, a replaced thread, the    *)
(* end), its card, the tracker's note and the pause of a sidecar's timeout  *)
(* go with it, and only then.                                               *)
BooksAgree ==
    /\ cards = Parked
    /\ tracked = {r \in Parked : kind[r] = "file"}
    /\ pauses = Cardinality({r \in Parked : thread[r] = Sidecar})

(* The owner is never asked about a thread that has been replaced.          *)
CardsOfBoundThread == \A r \in cards : thread[r] \in {current, Sidecar}

(* A file card of a thread that still works shows the change Codex reported *)
(* last, also when the report came while the policy was deciding.           *)
CardShowsDiff ==
    \A r \in cards : kind[r] = "file" /\ Routable(thread[r]) => shown[r] = latest[thread[r]]

(* Nothing is granted to a thread that has been replaced, although the      *)
(* request was checked before its policy was awaited.                       *)
GrantsForBoundThread ==
    [][\A r \in Requests : answer[r] = "none" /\ answer'[r] = "accept"
                             => thread[r] \in {current, Sidecar}]_vars

(* A thread that waits to be cleared will be: the clear is under way, or a  *)
(* reply that will queue it is still to be sent, unless an onEntry returned *)
(* after its policy and found the reply gone or in the owner's hands.       *)
ClearIsComing ==
    current \in draining => \/ clear # "no"
                            \/ \E r \in afterReply : ~Answered(r)
DrainingHasClear == ~late => ClearIsComing

(* A card never outlives its request: once Codex has withdrawn a request,   *)
(* the page does not ask for it, unless its thread is being replaced.  TLC   *)
(* refutes it (stale_card.cfg), and ClearIsComing (lost_clear.cfg).          *)
NoStaleCard == \A r \in cards : r \in withdrawn => thread[r] \in draining

(* Again and again nothing is outstanding: every request that went to the   *)
(* policy is answered or on the page, and every thread marked for a fresh   *)
(* clear is replaced and forgotten (with the same exception), or the run    *)
(* has ended.                                                               *)
PoliciesSettle == \A r \in Requests : stage[r] \notin {"policy", "running"}
DrainingEnds == draining = {} \/ late
QueueServed == []<>((PoliciesSettle /\ DrainingEnds) \/ closed)
=============================================================================
