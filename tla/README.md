# Verification of aharness

TLA+ models, TLC checks and TLAPS proofs for `aharness`, the harness that runs a
Codex session through an authored state machine. Paths below are relative to the
repository root; `core/` stands for `packages/core/src/`.

1. The system · 2. The modules · 3. The runs · 4. The proofs · 5. Where the code
departs from its documentation · 6. What is not modelled · 7. Running

## 1. The system

A run has one Codex app-server (a child process reached over JSON-RPC), one parent
thread bound at a time, an XState actor that holds the workflow, and a local page
for the owner. Everything of interest happens between awaits of one Node process:
there are no threads, but there are many callbacks. Around a run there are files
that several processes share: the event log, the compiled-workflow cache, and the
store of installed packages.

| component | source | state it keeps | operations | correct when |
|---|---|---|---|---|
| turn control | `core/runtime/liveRunEngine.ts`, `dispatchSubmit.ts`, `dispatchChoice.ts`, `hookDispatchers.ts`, `serializeDispatch.ts`, `crossStateDance.ts`, `driveForward.ts`, `freshClear.ts`, `activeThreadBinding.ts`, `transport/notificationRouter.ts`, `transport/itemCompletedWatcher.ts`, `ui/reply.ts` | the actor's state, the dispatch chain, the bound / abandoned / draining threads, `submittedThisTurn`, the parked owner request, item watchers | submit calls, owner choices, prompts and answers, hook frames, turn notifications, the interrupt-then-start dance, the default next turn, the replacement of the thread | one producer starts each turn, none at an owner gate; only the live thread moves the workflow; a clearOnEntry state starts on a new thread; the run never stands still |
| approvals | `core/transport/approvalDispatch.ts`, `fileChangeTracker.ts`, `runtime/permissionRequest.ts` | requests parked for the page, known diffs, sidecar pauses | command, file, permission and elicitation requests, the workflow's policy, the page's decision, `serverRequest/resolved`, abandonment, close | each request is settled once and everywhere; no card or grant for a replaced thread; the diff shown is current |
| state-model settings | `core/runtime/stateModelSettings.ts` | the chain of settings updates and what waits for it | prepare, apply, wait | a turn starts under its state's model; whoever waits for an update is served |
| workflow language and verifier | `core/state/*`, `core/runtime/actorHost.ts`, `dispatchSubmit.ts`, `dispatchChoice.ts`, `core/verify/*` | the actor's configuration, data, embedded hosts | preflight, dry run, commit, effects, finals of embeds, passive states | what is reported is what was done; every handler runs; no update is lost; a verified workflow can end |
| run lifecycle and shutdown | `core/runtime/programmaticRun.ts`, `liveRunEngine.ts`, `cli/*` | the outcome, the closeout grace, the resources | start, cancel, terminal, fatal error, SIGINT | one final event; the result has a reason; resources closed |
| sidecars | `core/runtime/codexSidecar.ts` | per sidecar: operation, timer, ignored turns, pending input | open, send, answer, cancel, timeout, close | one operation at a time, finished once; late events of a finished turn are ignored; no turn runs unattended |
| run events and page | `core/runEvents/*`, `core/ui/*`, `web-ui/src/state/store.ts`, `web-ui/src/api/client.ts` | `events.jsonl`, the index, subscribers; the page's cards and cursor | append, publish, replay, follow; bootstrap, reconnect, reply | no event lost or shown twice by a reconnecting page; a torn last line is survived; no decided request is offered again |
| the page's transcript | `web-ui/src/state/store.ts`, `web-ui/src/components/ActivePanel.tsx`, `core/runEvents/indexer.ts`, `core/runEvents/queryService.ts` | the rows shown, the cursor and loading mark of each source of rows, requests under way | stream event, page of rows, failure, fresh clear, resync, reload, selection | what the stream told is kept and never taken back; paging leaves no hole and ends |
| install store | `core/installStore/*` | `installs.json`, `commands.json`, managed projects | install, uninstall, recover, resolve a command | a trusted index is the index of the records; only verified code runs |
| loader and its cache | `core/loader/*` | bundles and sidecars of compiled workflows on disk | load, look up, store | no load uses a bundle of older sources |
| JSON-RPC connection | `core/jsonrpc/*`, `transport/wsClient.ts` | pending requests, afterReply callbacks | request, reply, notify, close | modelled inside the components that use it |
| owner input from the command line, watchdog, HTTP routes, rendering, skills, process spawning, command line, test support | see `PROJECT.json` | little or none that changes with interleaving | | |

How they interact. Codex's server requests (tool calls, approvals) and notifications
enter through the connection; the router drops those of threads that are not bound.
Submits, owner choices, hook frames, permission policies and most fresh clears are
*segments* of one promise chain (`serializeDispatch`); a segment marks its async
context, and work started under that mark, `setImmediate` included, runs *beside* the
chain. A transition into a `clearOnEntry` state schedules a fresh clear: the old
thread is put in `pendingFreshClearThreadIds` (draining), later abandoned, a new
thread is opened and bound; listeners of the binding answer what is parked for the
old one. A reply's `afterReply` callbacks are what schedules clears, orientation
turns and settings updates, so that Codex gets its answer first. Everything the owner
may see is recorded in the event log and reaches the page through one stream.

What is hard: the order of a tool reply, its `item/completed`, the interrupt and the
next `turn/start`; notifications of the old thread arriving during a clear; state
read before an await and used after it; a click, a hook and a submit at once; a failed
request in the middle of a dance or a clear; callbacks registered after their moment
has passed; five ways of ending a run that race; processes that die between two writes.
Section "hazards" of `PROJECT.json` lists the ones that bite at their lines.

## 2. The modules

| module | what it is |
|---|---|
| `TurnControl`, `MCTurnControl` | turn control with Codex as its environment |
| `TurnControlProofs` | the type correctness and the safety theorems of `TurnControl`, and the theorems of `Dispatch` |
| `Approvals`, `MCApprovals`, `ApprovalsProofs` | approval requests, permission policies and the clears they cause |
| `ModelSettings`, `MCModelSettings`, `ModelSettingsProofs` | per-state models: updates, who waits for them, the turns started under them |
| `Workflow` | the workflow language's graphs and the verifier's checks on them |
| `DispatchState`, `Dispatch`, `MCDispatch` | how submits, events and choices move such a workflow: what a dispatch works on and promises, its steps, the candidates |
| `RunLog` | the event log as a data type: writer, replay, index |
| `EventStream` | abstract specification: a growing log and followers that see its prefixes |
| `RunEvents`, `MCRunEvents` | the engine's requests, the log, the stream and the page; refines `EventStream` |
| `RunEventsProofs` | its theorems, the refinement among them |
| `Rows`, `Transcript` | the rows a page shows, event stream and pages of rows together: the rows and what the page promises of them, the steps |
| `RunLifecycle`, `RunLifecycleProofs` | boot, ends, cancellation and shutdown of a run; the last module also has the theorems of `Transcript` |
| `CodexSidecar`, `MCCodexSidecar`, `CodexSidecarProofs` | the sidecar manager with Codex as its environment |
| `Lockfile` | what an npm lock file says and its fingerprint |
| `InstallStore`, `MCInstallStore`, `InstallStoreProofs` | mutators, readers and crashes over the store's files |
| `LoaderCache`, `MCLoaderCache`, `LoaderCacheProofs` | loads by several processes over the cache's files |

`Rows` and `DispatchState` hold the variables and the promises of a component whose steps are in
another module: `RunLifecycleProofs` and `TurnControlProofs`, which are about two components each,
extend them and name the steps by an `INSTANCE` (`T` and `D`).

In every module an await in the source is a boundary between two actions; everything
a handler does up to its next await is one action.

### TurnControl

The workflow is a set of states with kinds (stateful, choice, terminal; open, clear)
and edges (submits, options, transitions of hook events, events an onEntry emits), so a
theorem speaks of every workflow.

* Codex: `codex[th]` is a thread's turn and its open tool call; `wire` is the ordered
  connection back. A request takes effect when it is sent and only its answer is
  delayed. `CodexSubmits`, `CodexAsksOwner`, `CodexItem`, `CodexCompletes`, `HookFrame`
  are the environment.
* Chain: `queue`, `segment` (with a program counter per await). `BeginSegment`,
  `SubmitGuard`, `SubmitRejected`, `SubmitCommit`, `SubmitFinish`, `ChoiceCommit`,
  `ChoiceFinish`, `HookRuns`, `EntryEmit`; `HookEntryFinish` and `PolicyEntryFinish` are the
  continuations of a hook's and of a permission policy's transition, which no segment awaits.
  A policy's clear waits for the reply (`PolicyReplies`); when the onEntry returns after it,
  the thread drains and nobody starts the clear (`lost`).
* Producers of turns: dances (`DanceInterrupts`, `DanceStarts`, `DanceFails`,
  `DanceAndSalvageFail`, `TimesOut`), `OrientAfterChoice`, `OwnerPrompts`, `ClearOpens` and
  drive-forward inside `ReceiveCompleted`.
* Fresh clear: `ClearAbandons`, `ClearOpens`, `ClearBoundary`, `ClearFails`.
* Ends: `End` keeps the first outcome; `Close` follows the grace.

Abstractions. Per-state model settings (`waitForSettled`) are absent here: they delay a
turn start but choose nothing else; `ModelSettings` has them. Passive leaves settle
inside a commit (`Dispatch` has them). A run starts with its first turn under way
(`RunLifecycle` has the boot). The state an emitted event leads to has an onEntry that
returns at once (`EmitsAssumption` bounds the nesting). A policy's request and its card are
in `Approvals`; here a policy is its segment, its transition and its reply.

### Approvals

`stage[r]` says where request `r` is (before, waiting for its policy, running it, parked,
settled), `answer[r]` what Codex was told. The page is the set `cards`; the tracker's and
the sidecar clock's books are `tracked` and `pauses`. Every way of settling goes through
`Settle` (`removePending`, the entry's `resolve`, `publishResolved`); `Park` is the only
way onto the page. The policy is two steps around its await (`BeginSegment`,
`PolicyResolves`), with `PolicyTransitions` between when its event moves the workflow to a
clearOnEntry state and `EntryFinishes` when that state's onEntry returns, which is when
the clear is registered on the reply. An onEntry that returns after the reply is `late`:
its callbacks are never run. `TransitionElsewhere` is everything `TurnControl` has that
starts a clear: queued for a submit or a choice, beside the chain for a hook. An
elicitation is handled like a permission request and has no kind of its own; `accept`
also stands for `acceptForSession`, `decline` for `cancel`, for a policy that threw and
for the safe answers to an abandoned request. One item per thread; one clear at a time
(`OneClear`); a failed clear ends the run, which is `Close`.

### ModelSettings

A state declares a model or none; one value stands for model and effort together. A
transition *registers* an update on the reply or the continuation that will send it;
sending holds the dispatch chain as a segment of its own, and turn starts, clears and
other segments wait for the *latest* registered update when they read the chain. Submit,
hook and policy segments are one step, at the moment they run; what they register and
await is kept. `passed`, `displaced` and `lost` record the three ways in which the code
lets an update go, so that `SettingsInForce` says what holds of every other turn.

### Workflow and Dispatch

`Workflow` describes a tree of states with kinds, initial children, transitions with
guards and `always` routers, finals of embedded workflows and their handlers, and defines
the verifier's checks on that graph: targets exist, everything is reachable, a terminal is
reachable from everywhere it checks, no black holes, catch-alls last. `verify` is the
conjunction, with the verifier's own approximations. A state is inside its host, its host's
host, and so on (`Hosts`, the least set closed under going outwards), and `Macrostep` follows a
transition through hosts, `always` branches and wired finals to the leaf it settles in, in at
most as many rounds as a settling macrostep can have. `TreeAssumption` and
`WorkflowsAssumption` say what `embed` and XState guarantee of every machine that is built: the
states are finitely many and none is inside itself, a host has an initial state, states lie in
hosts, and siblings have names of their own. `Dispatch` runs any verified
workflow: a submit is preflighted and projected on the data as it was (the dry run), its
effects run (`BeginSubmit`), then the commit reduces the data it read at the start, moves the actor,
settles passive states and finals, runs handlers, and reports the projected leaf
(`CommitSubmit`; `RefuseSubmit` when one of those fails). A custom event reads its data and starts
its effect (`EmitEvent`), prepares the handler of a final from where the actor is after it
(`PrepareFinal`), and is sent to wherever the actor is by then (`SendEvent`), or lost
(`LoseEvent`). Submits and choices queue on the dispatch chain (`Idle`); an event emitted by code
that a segment runs or has left behind bypasses it (`liveRunEngine.ts:761`), so an event may start
at any time, beside a submit and beside another event: a superset of what any one workflow does,
and every interleaving of it belongs to some workflow whose callbacks emit there. Whether two states
name their events alike is left open: an event sent where the actor is not any more is handled by
that state's event or lost. An owner's choice is one step: its handler's effect is
awaited too, but a choice handles nothing else and nothing can move the actor meanwhile. The data
is reduced to what guards and updates tell apart; an effect is the time between two steps.
`EndInReach` is about the verifier: from wherever a verified workflow can get, a final can be
entered. It excepts a passive state whose guarded branches all fail (`Undecided`) and a passive
state with a branch behind one that is always taken (`DeadBranch`): the verifier follows it, the
actor never does, and a workflow whose only end lies there passes and goes round for ever.

### RunLog, EventStream and RunEvents

`RunLog` is pure: the log is a record (file, offset, next number, acknowledged lines,
index), and each operator is one synchronous call. `WriteLine` cuts off what an earlier
failure left, appends, and moves the offset only on success; its outcomes are that
nothing, a part, or all of the line reaches the file although an error is reported, or
that the cut itself fails. `AcceptAppend`/`CatchUpFromDisk` are the index.
`RunEvents` adds the engine (`Ask`, `AskAgain`, `Settle`, `Boundary`, `WriteArtifact`, `End`),
replies (`AcceptReply` to `Hear`), and the page
(`AnswerBootstrap`, `Hydrate`, `Connect`, `Receive`, `BreakConnection`, `Reload`). The page
is what it has seen and the cards it shows (`ApplyEvent` is the reducer). `Crash` kills
the process in the middle of an append. The reply to an owner choice is queued
(`QueueChoice`), committed (`CommitChoice`) and answered (`AnswerChoice`) in three steps: the
next state's `onEntry` and the next choice's card come between the commit and the recorded
answer, and a handler that throws there records the committed choice as refused
(`RefuseChoice`). A choice that waits may be published again (`AskAgain`); that event is
`request.updated` in the log, which index and page take as `request.created`, and the model
gives both one name. `EventStream` promises that every follower has
seen a prefix of the published log and catches up while the run serves it; `RunEvents`
implements it with `seen` as the page's history.

### Transcript

`RunEvents` shows that the stream delivers each event once and in order; here the stream is
`reduceRunEvent`, the next event of `journal`, the run's log. Beside it the page asks for pages of rows: `Send`,
`getRows` (the server computes the page from the log as it is then), `mergeRowPage` or
`rowLoadFailed` when the answer arrives. `transcript` is the page's entries by item, each with
the text it shows, whether it is still open, its latest event and the ids of all its events;
`mergeTranscriptItems` is the rule by which a row overwrites an entry or adds nothing. Within
one item the rows of a page count in the order of the log, so a page is the set of its rows. A
message arrives as a start without text, pieces and the whole text, a tool call as pending and
then as finished. `Resync` and `Reload` hydrate the page from the log; only `Reload` drops the
requests under way. `late` is a history of the calls whose start came on a page after their end:
a page that was computed before the end and arrives after the stream has delivered it, or one
that follows a page with the end, puts the call back to pending, and `CallsEndFinished` excepts
these calls; of all others it says that no order of arrival leaves one pending. Visits of the
selected state are sources of rows of their own; the request of an owner choice, which also names
its visit (`adapter.ts:529`), counts only among the rows of the run. What is
folded, grouped or hidden when the entries are drawn is left out.

### RunLifecycle

`stage`/`pc` is the engine's main function, `routes` how far each of the six ways of
ending has come, `downs` the two shutdown routines (each runs once, closing hooks, UI,
connection and app-server in order), `signal` what `terminalPromise` was resolved with,
and `result` what was returned. `open` is what is really open. The hook socket and the UI
server are closed in two steps: a routine takes the handle out of its variable (`Take`) and
awaits its close (`CloseNext`); the other routine finds the variable empty and passes
(`Passes`), so that the engine may return while the close still waits for a connection. For
the connection and the app server both routines wait. The connection is open from the end of
its stage on, but gets its variable only behind the check after it: a run cancelled there, or
whose handshake fails on the open connection, leaves it to end with the app server's process.
A stage that awaits an answer fails when the connection has gone (`RequestRejected`), at the
kickoff also because the run's own terminal has shut it down. `Proceed` and `CheckCancelled`
keep apart the check and the await after it; `Cancel`, `GiveReply`, `HandleReply` are the
programmatic handle.

### CodexSidecar

A thread, the operation it is busy with, the input request that waits, the turns to
ignore, and per operation the request's and the timer's states. `Send`, `Answer`,
`Create`, `Close` are calls; `Continue`, `Fails`, `Acknowledged` are what runs when a
promise settles; `Notify` and `HandleRequestUserInput` are Codex's messages. The response
to `turn/start` and the continuation that reads it are two steps because the socket may
deliver several frames in between. The run's shutdown closes the sidecars one by one.

### InstallStore and Lockfile

Mutators run `install` and `uninstall` with a step per file operation (project directory,
npm, `installs.json`, `commands.json`); readers resolve a command, recovering the index
when it does not match; crashes and power losses cut writes short. `Lockfile` says which
packages a fingerprint covers. `Needs` is one relation: what the code reads of an entry are its
`dependencies` and `optionalDependencies` (`lockfile.ts:155`), where an optional one without an
entry is reported like any other; `peerDependencies` are not read, so a package reached only as a
peer is outside the fingerprint and outside the model.

### LoaderCache

A file is its version, a bundle's text the versions it was built from. `Walked` are the files a
direct load hashes: `collectFiles` takes the .ts and .tsx below the workflow's directory, outside
`node_modules`, `dist`, `.aharness` and dot entries, while esbuild bundles JSON, JavaScript,
packages and modules from elsewhere too. An installed command hashes esbuild's own list of
inputs. A load hashes its files
one by one, looks the key up (an installed command first extracts the schemas and bundles, since
both are part of its key), extracts, bundles, opens the file and fills it, and imports what the
file then holds. Files change, processes die and writes fail between any two of these steps; an installed
command and the completion of its flags use the same cache. `during` collects what each file
held since the load began; it is there for the properties and no action reads it except to mark
a bundle that was built while its sources changed. `marred` are the bundles whose last writers
have all opened, of which one died or failed.

## 3. The runs

| run | shows |
|---|---|
| `handoff` | submits and owner questions, one cross-state submit per turn: `ClearStatesStartFresh`, `DriveForwardAlone`; every call is answered and every clear finishes (`HandoffsFinish`) |
| `recovery` | choices and prompts added, one fault anywhere: `FreshClearOnce`, `OnlyLiveThreadCommits`; the run is always driven again (`NoWedge`) |
| `everything` | submits, choices, hooks, policies, emits, questions and a fault together: `UnusableOnlyWhileClearing`, `ParkedForBoundThread` |
| `approvals` | two requests, two parent threads and a sidecar, slow onEntry actions: `BooksAgree`, `CardsOfBoundThread`, `CardShowsDiff`, `DrainingHasClear`, `GrantsForBoundThread`; the chain is always served (`QueueServed`) |
| `settings` | submits, hooks, policies, choices and a prompt over states with and without models: `SettingsInForce`, `UpdatesServed` |
| `dispatch` | 154 verified workflows, two events at a time beside the submits: `ReportExplained`, `FinalsHandled`, `UpdatesKept`, `EndInReach` |
| `events` | two questions and a choice, replies before and after a reload, failing appends, a death, broken streams: `NoStaleCard`, `MissingCardExplained`, `DecidedOnce`, `LogSound` (the file reads back and the index follows it), and the refinement `StreamSpec` with its liveness |
| `transcript` | a message, a tool call and a change of state in pages of one row, with a clear, a failed request, a resync or a reload: `NoHole`, `CallsEndFinished`, `Settles` |
| `lifecycle` | boot to return with one failure anywhere: `ResultJustified`, `NothingLeftOpen`, `RunsEnd` (runs return, replies are answered) |
| `sidecar` | two threads of a key, two operations, an input request, a fault: `OneAtATime`, `TurnsAttended`, `NoLateSuccess`, `OperationsEnd` |
| `install` | two mutators and a reader over two packages with a shared library, one crash: `IndexOfInstalls`, `OnlyVerifiedRuns` |
| `loader` | two processes, two edits, a death or a failed write: `NeverStale`, `TornExplained` |

Bounds. Two requests, calls, operations or processes are what the hazards need: one that
is in the way and one that suffers. In turn control three threads give a clear, the clear
of its replacement, and a message of each generation at once; the workflow has six states,
`work` (start), `step`, `gate` (an owner choice), `fresh` (clearOnEntry), `chat` (open in some
runs) and `done`. `MaxWire` bounds only what Codex emits of its own accord: replies and
notifications aharness causes are always delivered. `MaxCommits`, `MaxTurns`, `MaxQueue`,
`MaxCalls`, `MaxEvents` and `MaxMoves` stop the environment, never aharness. `MaxFaults = 1`:
any one request fails, any one process dies, any one turn is aborted. `MaxTrouble = 2` in
`events`: the second failing append, or the death, must meet what the first left, and two
replies are the two that race. The card of a second choice between the commit and the recorded
answer of the first takes one event more than `MaxEvents`; the theorems cover it. `dispatch` enumerates
combinations of a choice, a passive router and two levels of embeds over eleven nodes that
`verify` accepts, with custom events in a part of them; two events at a time (`Slots`) are one that
is being prepared and one that its effect emits, and three commits let a third dispatch find what two
have made of the data. `settings` has one fresh clear at a time and three moves: one to fill the
chain, one to wait, one to overtake. In `transcript` the log holds three events and a page one row,
so that there are several pages and an item begins on one and ends on the next; two requests
under way (`MaxFlight`) are the one that was overtaken and the one that follows it, or those of
the run and of a visit. The theorems of section 4 hold without any of these
bounds being small.

Symmetry is used for interchangeable questions, processes, packages, sources and slots, never
in a run with a liveness property. Deadlock is not checked: a run that has ended, waits for
the owner, or has used up its bounds rests.

Fairness. Weak fairness of message delivery, of segments, continuations and background
tasks, of timers, of Codex's answers to requests: the event loop runs what is runnable, and
each of these actions stays enabled until it happens or its cause goes away. An onEntry and
a policy are assumed to return; in `settings` so is the owner's decision of a request that
was put to him, since a policy's update waits for it. Nothing else is assumed of the owner,
nothing of the model's progress, of hooks being called, of Codex's requests or of faults.
In `lifecycle` the close of a server is assumed to end, as every routine assumes that awaits it without
a limit: the hook socket's own comment (`runtime/hookSocket.ts:89`) counts on a time limit of its
callers, who have none, so a hook script that never ends its connection keeps the run from ending.

What a property does not claim is part of it: `ResultJustified` allows a run to be reported
cancelled after its `run.completed` was published, and failed when its terminal closed the connection
under the kickoff's last request; `NothingLeftOpen` excepts a server that the other shutdown routine is
closing (`RunsEnd` says that it gets closed) and the connection of a run that ended as it connected; `RunsEnd` excepts a submit at a terminal
whose reply can no longer be sent; `MissingCardExplained` lists the reasons for which an open
request has no card (a fresh clear came later; a reply to it is recorded; another question's
card was answered, or the record of that reply was lost, which takes more than one fault); `OnlyVerifiedRuns` excepts overlapping mutators; `NeverStale`
speaks of the files that are hashed and of bundles that were not built while a source changed;
`TornExplained` says of a bundle that is cut short that a writer of that very bundle has died or
failed since it was last opened, or that two overlapped (that the next load cannot use it is section 5); `ReportExplained`
and `FinalsHandled` name the constellations in which the report or a handler is wrong;
`UpdatesKept` excepts exactly the updates that are committed while another dispatch, which has read
older data, is still preparing (`lost_update`).


## 4. The proofs

All are for every value of the constants, under the named assumptions of the modules (kinds
partition the states, edges connect them, bounds are naturals, ...): for any number of
requests, threads, processes, files and events, not for the instances above.

`TurnControl`
* `TypeCorrect`: typing, by itself inductive.
* `OnlyKnownThreads`: only opened threads occur in any message, segment, continuation or
  binding (`KnownThreads`, inductive). It is what makes a replacement thread unknown to every
  record that would refuse it.
* `UnusableIsTransient`, `ParkedIsCurrent`: with `KnownThreads`, the bound thread is refused
  only while a clear that will replace it is under way, and a parked question belongs to the
  bound thread, whatever hooks and emits do. The first excepts a thread drained for a policy
  whose onEntry returned after its reply (section 5, `lost_clear`).
* `OneThreadPerVisit`, `CommitsAreLive`: assuming `SerializedSources` (no transitions from
  hooks, none from emits), the invariant `Exclusive` says a clear that has started holds the
  chain, so no segment is between its check and its commit. `abandoned_commit` shows that the
  assumption is needed.

`Approvals`: `Invariance` proves `IInv`, the conjunction of `Shape`, `Progress` (stage, answer
and chain tell the same story), `Waiting` (the queue holds each request once, and only requests
whose policy has not begun), `BooksAgree`, `Clears` (one clear at a time, a thread left for it,
at most one reply that will queue it), `InStep` (the tracker's diff is the latest for every
thread that works or is still to come) and `Cards`.
* `TypeCorrect` needs `BooksAgree`, since the pause depth is a subtraction, and `Clears`, since
  the next thread must exist.
* `BooksCorrect`, `OnlyBoundCards`, `CardsCurrent` follow from `IInv`; `GrantsChecked` is an
  action property proved from it.
* `ClearComes` adds `Registered`: the policy that registers a clear still runs. Its property
  excepts the clears whose onEntry returned too late; `lost_clear` shows why.

`RunEvents`: `Safe` is the conjunction of `LogInv` (`Written`: file, offset and acknowledged
lines fit together, with at most one piece or unacknowledged line behind the offset; `Indexed`: the index is the
fold of the lines that were accepted), `PageInv` (the page has seen a prefix, its connection is
at most as far as the log) and `Waiting`.
* `LogSurvives`: whatever is left of a line by a failed append or a death, every reader finds
  the acknowledged events in order and at most one more. `IndexComplete`: the index refuses
  nothing and lacks only artifact lines written since the last event of the engine.
* `PageFollowsStream`: initial states map to those of `EventStream` and every step to a step of
  it or a stutter. This is the safety part of the refinement; TLC checks the liveness part too.
* `DecisionsUnique`: an event log never holds two decisions of a request; the invariant
  `Decided` says that nothing is decided of a request that waits, is still to come or is a choice
  that is committed and not answered, and `Committed` that a choice is committed once.
* `NoDecidedCardOffered`, `HiddenCardsExplained`: the cards of the page, by the invariant
  `CardInv` over `Safe` and `Decided`. `Told`: the log tells of every request that it was asked,
  and no rival was asked after one that still waits. `Answered`: an accepted reply decides its
  request, and a question's reply is recorded unless more than one fault happened. `Carded`: each
  card is of a pending request, each waiting request without a card is excused by an event the
  page has seen.
* `LogStaysSound` puts `LogSurvives` and `IndexComplete` together.

`Transcript` (in `RunLifecycleProofs`), for any messages, tool calls,
states, page size and length of the run: `RowsInv` is the conjunction of types, `RowLog` (the events
of an item begin with its start, a call has at most one end after it), `AllAsked` (a request for
a visit is for that one row) and, as long as the page was not cleared or built anew under a
request, `Paging`.
* `NoHoleHolds`: nothing up to the cursor is missing from the entries (`CursorHeld`), and an answer
  brings everything that is missing up to where it ends (`AnswersFill`); since the entries hold
  whatever they hold without gaps (`AheadHeld`), the next cursor keeps that. It needs that at most one
  request for rows of the run is under way (`OneRecent`). That a page holds the first rows behind
  the cursor is an argument on cardinalities (what is before a row of the page is fewer than
  `PageLimit`).
* `CallsEndFinishedHolds`: `CallsEnd` says that an entry that knows of a call's end is not open,
  unless the call is in `late`; it is kept by every row that is merged and, by `NoHoleHolds`, there
  is an entry that knows of the end once everything has arrived.

`Dispatch` (in `TurnControlProofs`), for every finite tree of states, every set of candidate
workflows on it, every number of dispatches. `DispatchInv` is the conjunction of
`DispatchTyped` (what a dispatch works on is a verified workflow, and the open submit is a projection
of a branch of the state it was made in), `UpdatesHeld`, `Told` and that an actor that
threw shows a leak or a crossed preparation. `EmitsSteady`: until a commit crosses a preparation, the
actor is where an event found it.
* A macrostep is a function over rounds. `MacrostepLevels` says it has the rounds' values
  (the function exists, by induction on the rounds), and `MacrostepEnds`, by induction again,
  that it ends in a state after finals of embedded workflows only, of which the first is the target unless
  the workflow leaks. How many rounds there are does not matter to it.
* `UpdatesKeptHolds`: `UpdatesHeld` says of the live data, and of the data an open submit or event
  has read, that whatever was committed and is missing there was committed while another dispatch
  was preparing (`crossed`). A commit adds its own updates to what it read (`Moved`), and is in
  `crossed` if anybody else still holds older data (`CommitKeeps`).
* `ReportExplainedHolds`: the dry run and the commit take the same macrostep (`ProjectAgrees`).
* `FinalsHandledHolds`: a transition into an embedded final prepares the handler of exactly that
  final (`FinalTarget`), because the innermost host around a state is its own (`SameHost`, from
  the tree having no cycles) and siblings' names differ; a target that is not a final but has an enclosing
  final's name is a shadow (`TakeHandles`), and an actor that enters a final unprepared was led there by
  a passive or initial state (`TakeLives`).

`RunLifecycle`
* `ResourcesClosed`: `Tidy` says of each stage of the boot which resources may be open, and of
  each shutdown routine that what it has passed is closed or excused (`Settled`, `Passed`, `Awaited`,
  `Emptied`): a server is excused while the routine that took it stands at it (`Holding`), the
  connection when the run ended as it connected. When the engine returns, a routine it has waited
  for has passed everything.
* `StatusJustified`: `Reasons` says every outcome that is carried by a signal, a route or a
  result has happened, and `Undisturbed` that the connection of a booting engine goes only by a
  failure or by the run's terminal.
* `FinalEventUnique`: an action property; what is published is never published again.

`LoaderCache`: `Caching` is the conjunction of `Loads` (what a load has read was in the files at
some moment of the load: versions are collected in `during`), `CacheInv` (a text in the cache
that was not raced agrees with the files its key names), `Present` and `Shape`.
* `NothingStale` combines the two: what agrees with the hash of a load is of its time.
* `TornHasAReason` is inductive with `Caching`: only `Open`, `Fill` and a writer's end touch an
  entry, and each only its own.

`CodexSidecar`
* `LateEndsDoNotCount`, an action property, needs `SInv`: `Books` (the turn of an operation
  whose sidecar is being closed, or whose time is up, is known and ignored) and `Flight` (every
  request and message on its way is addressed to something that still expects it, and at most
  one of them speaks of the start of a turn).
* `OneTurnPerSidecar`, `NoTurnAbandoned` need three more conjuncts, together `All`. `Roles`: a
  send's turn is its own, an answer's the one that asked, a started turn belongs to a send of
  its sidecar, and a sidecar whose question waits is not busy. `Order`: Codex says nothing of a
  turn after its end, and the answer to an interrupt lies behind that end on the wire; without
  it a time-out that is answered could free the sidecar while its turn still runs. `Minded`: a
  turn that runs or has been asked for is the one its sidecar attends to; once the sidecar is
  being closed it is ignored or will be as soon as its start is noticed; every ignored turn that
  runs has an interrupt on its way. Each action has a lemma per layer (`...Fine`, `...Attends`);
  those of Codex share `SpeaksAttends`, the manager's share `MildAttends` or `FinishAttends`.
  The constants need only that `NULL` is none of the values it stands beside.

`ModelSettings`: `ModelInForce` (`SettingsInForce`), while no update has failed, by `All`:
* `Leads(n)`: the first `n` updates leave the bound thread with the model that is due, and no
  later one changes it. `Leading` claims it of all updates together if the declaration in force
  was registered for the bound thread, and of those a turn waits for (`Waits`) if it was
  registered at the transition; so the turn that waits for fewer than all is right too.
* An acknowledgement keeps `Leads` because updates are answered in their order (`Order`). For
  that an update may be sent only once: what a reply will queue is queued once (`Once`, with
  `Declined` for the replies that a new binding sends together).
* `Draining`: a replacement thread opens under the model that is due, unless a hook moved on
  meanwhile, whose declaration is `displaced`. `Visits`: no task of an earlier visit passes for
  one of this visit.

`InstallStore`, for any number of packages and libraries (finitely many names, which no entry's
path or `NULL` is), processes and faults:
* `FingerprintDecides`: two lock files that give a package the same fingerprint load the same
  entries for it at the same versions. The walk behind a fingerprint is recursive, so the lemmas
  `Induction` (over the natural numbers, for a set in the place of a formula, from the
  well-foundedness of finite sets) and `Iterates` come first; `WalkCloses` counts that as many
  rounds as there are paths reach everything the package needs; a closed walk contains
  what Node loads (`CoreWithin`), and where two files agree on a walk names resolve alike.
* `IndexIsOfInstalls`, by `Generations`: over every copy of installs.json, on the disk, as a
  power loss would leave it, and in the hands of the processes, a generation belongs to one file, and
  every index with that generation was derived from it.
* `VerifiedRuns`, by `Verified`: every record in every copy, and every record a mutator is about
  to write, is vouched for: whatever tree has its fingerprint loads what the verifier approved.
  The step of the verifier is where `FingerprintDecides` enters, since a reader meets another tree
  than the verified one.

Only model-checked: every liveness property (the prover has no rule for fairness), `Settles`
and the liveness part of `StreamSpec` among them;
`ClearStatesStartFresh` and `DriveForwardAlone`, which hold under bounds of the
environment (`MaxHandoffs = 1`) and are refuted beyond them (section 5); and `EndInReach`, which is not true of every
workflow that verifies: besides the dead branch it excepts, a passive state that leads on only
when its predicates hold, into one that leads on only when they fail, is an end the verifier counts and
the model, whose predicates have one value in a macrostep, never takes.

## 5. Where the code departs from its documentation

Each of these is a property that a reader of the code, its comments, reference pages or tests
would expect (the line is quoted where one states it) and that TLC refutes. Most have a configuration of their own beside the modules
(`tlc -config <name>.cfg <module>`); for the first rows of `TurnControl` put the property in the
place of those of the run that is named.

| configuration (module) | property | what happens |
|---|---|---|
| `abandoned_commit` (`MCTurnControl`) | `AbandonedNeverMutates` | an abandoned thread is "no longer allowed to mutate live runtime state" (`core/runtime/activeThreadBinding.ts:8`), but a hook's fresh clear inherits the segment mark, runs beside the chain (`liveRunEngine.ts:760`) and abandons the thread of a submit that then commits |
| `recovery` (`MCTurnControl`) | `NoTurnAtGate` | no turn at an owner gate (`docs/reference.md:218`) or once the run is over, but a submit's dance, decided before (`dispatchSubmit.ts:541`), starts its turn wherever the workflow is by then: at a terminal which the turn of an owner's prompt has submitted while the dance waited, or, with `EntryEmits <- Emits`, at an owner choice to which an onEntry has moved on |
| `recovery` (`MCTurnControl`) | `DriveForwardAlone` | one producer per turn (`driveForward.ts:16`), but a choice is answered before the previous turn's completion arrives, and orientation and drive-forward both start a turn (`liveRunEngine.ts:987`) |
| `handoff` (`MCTurnControl`) | `NoWedge` | the run goes on after owner input (`driveForward.ts:34`), but the dance interrupts a turn whose owner question is parked, drive-forward yields to the question (`:124`), and after the answer nothing starts a turn |
| `lost_clear` (`MCApprovals`) | `ClearIsComing` | a transition into a clear state replaces the thread (`docs/reference.md:138`), but the policy's transition is handled without being awaited (`liveRunEngine.ts:875`): with a slow onEntry the clear is registered after the reply's callbacks have run, and the bound thread is refused for good |
| `stale_card` (`MCApprovals`) | `NoStaleCard` | `serverRequest/resolved` withdraws a request (`transport.approvalDispatch.test.ts:954`); during the policy's await it is ignored (`approvalDispatch.ts:906`), and a delegating policy then shows a card nobody waits for |
| `settings_deadlock` (`MCModelSettings`) | `NoCircularWait` | two policies in a row that each move to a state with a model: the first's update holds the chain and awaits the latest registered update (`stateModelSettings.ts:119`), which is queued behind it |
| `unsettled_turn` (`MCModelSettings`) | `DeclaredModelUsed` | the gate is "Awaited immediately before each aharness-owned `turn/start`" (`driveForward.ts:76`), but the dance to a state without a model waits for nothing |
| `stuck_call` (`Transcript`) | `EveryCallFinished` | row pages are deduplicated "against already-applied live events" (`packages/web-ui/src/state/store.test.ts:1892`), but the row of a call's start, on a page that was computed before the end and arrives after the stream has delivered it, overwrites the entry the stream has finished, and the row of its end is then skipped as known: the call stays pending |
| `cleared_page` (`Transcript`) | `NoHoleEver` | a fresh clear "resets global recent-row paging" (`store.test.ts:2384`), but a page under way at that moment arrives afterwards and, when it is the last, ends the paging that was to start over |
| `doubled_text` (`Transcript`) | `TextsEndWhole` | deltas and the completed message are coalesced (`store.test.ts:1952`), but a page of rows ahead of the stream brings the whole text, and the pieces that are then streamed are added to it (`store.ts:1794`); the completed event is skipped as known |
| `lost_outcome` (`RunLifecycle`) | `ResultAgrees` | the handle's status is the run's (`docs/advanced-runtime-surfaces.md:130`), but `run.completed` is published and the handle reports `failed`, when the shutdown that follows closes the connection under the kickoff's `turn/start`, or `cancelled`, when the run is cancelled at kickoff after its terminal |
| `twin_sidecars` (`MCCodexSidecar`) | `OneLivePerKey` | a live key is refused (`runtime.codexSidecar.test.ts:208`), but two overlapping `createThread` calls both succeed, and closing the first frees the second's key |
| `torn_bundle` (`MCLoaderCache`) | `CacheRecovers` | a corrupt entry is a miss (`loader/index.ts:125`, `cache.ts:468`), but a bundle cut short by a death or by a write that failed (`index.ts:239`, `compile.ts:80`) fails to import, again and again, until a source changes or the cache is deleted |
| `stale_report` (`MCDispatch`) | `ReportAgrees` | the report of a submit names the leaf of the dry run, made on data the submit has not reduced; a passive router whose guard reads that data goes elsewhere |
| `skipped_handler` (`MCDispatch`) | `HandlersRun` | a chain of embedded finals runs only the innermost handler |
| `lost_update` (`MCDispatch`) | `NoLostUpdate` | a submit or an event commits the context it read before its effects ran (`dispatchSubmit.ts:330`, `dispatchEvent.ts:94`), so an event that is emitted and dispatched meanwhile is overwritten |

Seen while modelling, without a configuration of their own:

* Turn control: `ClearStatesStartFresh` fails when an owner's choice enters a clear state whose
  onEntry is slow and the old turn completes meanwhile; `FreshClearOnce` fails with onEntry
  emits; two accepted submits in one turn (`MaxHandoffs = 2`) break `NoTurnAtGate` too, and
  `DriveForwardAlone`; with two faults `NoWedge` fails, because the salvage's own failed
  `turn/start` is swallowed (`liveRunEngine.ts:1490`). A policy whose `accept` enters a
  clearOnEntry state is overridden by a decline, since its own transition has made the thread
  unroutable by the second check (`approvalDispatch.ts:641`).
* Settings: an update registered on a request that Codex withdraws is never sent, and later
  turns wait for ever (`lost`); a state left before its dance interrupts never has its model
  sent (`passed`); a hook's move during a clear registers the update for the thread about to
  go (`displaced`); prompts start on the thread read before the wait.
* Workflows: a state whose key equals an enclosing host's final's makes that final's handler
  run; a passive state inside an embed that leads to a final throws and kills the actor; a
  self-loop submit loses the visit increment, and a choice into an embedded final counts the
  next visit twice; a passive state with every branch guarded passes the verifier and can
  rest for ever, and so does one whose way out lies behind an
  unguarded branch; terminal reachability counts embedded finals, so an embed that loops back
  may trap a run; a branch's effect has run when a later step refuses the submit; an event whose actor
  has been moved on while it was prepared is handled by whatever state has an event of that name,
  and enters that state's final unprepared, which kills the actor.
* Lifecycle: a running engine never observes that its connection closed; of two shutdown routines
  the second does not wait for a server the first has begun to close (`liveRunEngine.ts:1112`,
  `:1517`), and a connection made when the run is cancelled is not closed by either (`:1826`); a terminal whose final
  artifacts fail is committed and never signalled (`liveRunEngine.ts:965`); drive-forward's
  shutdown may resolve the outcome as null first; SIGINT publishes no final event.
* Sidecars: a lost connection gives `timeout` instead of `app_server_closed`; a send whose
  `turn/start` is never answered has no timer; a question that arrives while a timed-out
  turn is being interrupted is handed on although its answer can only time out.
* Events and page: `resolveOwnerInput` clears the question whichever it shows; a fresh clear
  drops the page's cards while the index keeps them, until the page is loaded again; a choice
  whose handler throws after the commit (a next state's `onEntry`) is recorded as refused, so its
  card stays although it was decided (`liveRunEngine.ts:984`, `ui/reply.ts:268`).
* Store: there is no lock among processes, so two mutators can take a dependency key for
  another's or lose a record; the fingerprint is checked before the load, not with it.
* Loader: an edit that is undone (A, B, A) while a bundle is built serves the bundle of B for
  A. A direct load's key leaves out the JSON, JavaScript and packages below the workflow's
  directory and everything outside it, though all of it is in the bundle: after editing such a file
  the old bundle is served.

## 6. What is not modelled, and why

* `docs` and data: the wording and layout of prompts, reports, cards and summaries; the
  page's rendering, the folding and grouping of its rows, and graph layout; the fold of events into node and usage summaries; the
  extraction of sidecars and assets from sources (`loader/sidecar.ts`) and the verifier's
  checks of single declarations (shapes, names, schemas). These are functions of one input,
  with long case lists and little order to get wrong.
* Process and I/O: spawning Codex, its home directory, npm, framing of the transports, HTTP
  routes, the command line and completion. What they can do to the rest (fail, die, deliver
  late) is in the environments of the modules.
* The liveness watchdog changes nothing. Skills and nudges compose text. Owner input from the
  command line answers the same requests as the page. Test support is a fake Codex.
* Within the modelled components: cards that a closed sidecar leaves on the page; parallel and
  history states, `after`, raw XState transitions and branches with raw `actions`; the model
  check before a fresh clear and the settings traffic in the grace period; calls the sidecar
  manager refuses; the loader's in-process module cache and `noCache`; truncation of
  `events.jsonl` by others; the snapshot file.

The map names about an eighth of the implementation's lines. Most of the rest is of the kinds
listed above, so the share is not going to reach a third with models that say something.

## 7. Running

In the directory of the modules: `tlc -config handoff.cfg MCTurnControl` (one configuration
per run, the module is the one named `MC…` for it, or `Transcript` or `RunLifecycle`), and `tlapm <module>.tla` for each module
whose name ends in `Proofs`.
