------------------------------ MODULE RunEvents ------------------------------
(****************************************************************************)
(* A live run and the browser page that follows it: the requests the engine *)
(* parks for the owner, the events it records about them (RunLog), the      *)
(* run-scoped event stream (ui/runScopedSse.ts), and the page               *)
(* (packages/web-ui/src/state/store.ts, api/client.ts) with its bootstrap,  *)
(* its EventSource and the replies it posts.                                *)
(*                                                                          *)
(* Of an event only its sequence number, its type and its request are kept; *)
(* the page's state is the lines it has seen and the cards it shows.        *)
(****************************************************************************)
EXTENDS RunLog, FiniteSets, SequencesExt

CONSTANTS
    Questions,  \* requests of the parent thread's request_user_input
    OwnerChoices, \* visits of choice states
    Approvals,  \* approval, permission and elicitation requests
    MaxEvents,  \* bound: no new request, boundary or artifact beyond these
    MaxBreaks,  \* bound: connections that break and pages that are loaded again
    MaxTrouble  \* bound: failing appends, deaths and the owner's replies

Requests == Questions \union OwnerChoices \union Approvals

ASSUME RunEventsAssumption ==
    /\ MaxEvents \in Nat /\ MaxBreaks \in Nat /\ MaxTrouble \in Nat
    /\ NULL \notin Requests
    /\ Questions \intersect OwnerChoices = {} /\ Questions \intersect Approvals = {}
    /\ OwnerChoices \intersect Approvals = {}

VARIABLES
    log,     \* the event log: file, writer and index
    faults,  \* appends that have failed
    asked,   \* requests recorded so far
    parked,  \* requests that wait for a decision
    ended,   \* the final event was published
    up,      \* the process lives and its UI server answers
    page,    \* the browser page
    breaks,  \* connections broken, pages loaded again
    posts,   \* the owner's replies under way
    posted   \* replies posted

logVars  == <<log, faults>>
runVars  == <<asked, parked, ended>>
postVars == <<posts, posted>>
vars == <<logVars, runVars, up, page, breaks, postVars>>

----------------------------------------------------------------------------
(* The page's cards: one owner question, one owner choice, any approvals.   *)
NoCards == [question |-> NULL, choice |-> NULL, approvals |-> {}]
Shown(cards) == ({cards.question, cards.choice} \ {NULL}) \union cards.approvals

WithCard(cards, r) ==
    CASE r \in Questions -> [cards EXCEPT !.question = r]
      [] r \in OwnerChoices   -> [cards EXCEPT !.choice = r]
      [] OTHER           -> [cards EXCEPT !.approvals = @ \union {r}]
WithoutAnyQuestion(cards, r) ==   \* mutant
    [question  |-> IF r \in Questions THEN NULL ELSE cards.question,
     choice    |-> IF cards.choice = r THEN NULL ELSE cards.choice,
     approvals |-> cards.approvals \ {r}]
WithoutCard(cards, r) ==
    [question  |-> IF cards.question = r THEN NULL ELSE cards.question,
     choice    |-> IF cards.choice = r THEN NULL ELSE cards.choice,
     approvals |-> cards.approvals \ {r}]

(* reduceRunEvent: what one event does to the cards.                        *)
KeepsAccepted(cards, line) ==   \* mutant
    CASE line.type = "request.created" -> WithCard(cards, line.req)
      [] line.type = "request.resolved" -> WithoutCard(cards, line.req)
      [] line.type = "fresh_clear.boundary" -> NoCards
      [] OTHER -> cards
ApplyEvent(cards, line) ==
    CASE line.type = "request.created" -> WithCard(cards, line.req)
      [] line.type \in {"request.resolved", "reply.accepted"} -> WithoutCard(cards, line.req)
      [] line.type = "fresh_clear.boundary" -> NoCards
      [] OTHER -> cards

(* observePending: a request is pending from its creation until it is       *)
(* resolved or a reply to it is accepted, and counts as submitted while the *)
(* reply to it is neither.                                                  *)
Mentions(line, r, types) == line.req = r /\ line.type \in types
LastCreated(events, r) ==
    {i \in 1..Len(events) :
        /\ Mentions(events[i], r, {"request.created"})
        /\ \A j \in (i + 1)..Len(events) :
              ~Mentions(events[j], r, {"request.created", "request.resolved", "reply.accepted"})}
Pending(events) == {r \in Requests : LastCreated(events, r) # {}}
Submitted(events) ==
    {r \in Pending(events) :
        \E i \in 1..Len(events) :
            /\ Mentions(events[i], r, {"reply.submitted"})
            /\ \A j \in (i + 1)..Len(events) :
                  ~Mentions(events[j], r, {"request.created", "reply.refused"})}

(* pendingFromSummaries over the index's pending requests: the card of a    *)
(* submitted request is left out unless it is a choice; of two questions    *)
(* the one that was created last is shown.                                  *)
Listed(events, S) == {r \in S \intersect Pending(events) :
                         r \in OwnerChoices \/ r \notin Submitted(events)}
Newest(events, S) ==
    IF Listed(events, S) = {} THEN NULL
    ELSE CHOOSE r \in Listed(events, S) :
            \A q \in Listed(events, S) :
                \E i \in LastCreated(events, r) : \A j \in LastCreated(events, q) : j <= i
BootstrapCards(events) ==
    [question  |-> Newest(events, Questions),
     choice    |-> Newest(events, OwnerChoices),
     approvals |-> Listed(events, Approvals)]

----------------------------------------------------------------------------
Init ==
    /\ log = EmptyLog /\ faults = 0
    /\ asked = {} /\ parked = {} /\ ended = FALSE
    /\ up = TRUE
    /\ page = [phase |-> "loading", boot |-> <<>>, seen |-> <<>>, cursor |-> 0,
               cards |-> NoCards, wire |-> <<>>, sent |-> 0]
    /\ breaks = 0 /\ posts = {} /\ posted = 0

(* eventsAfter: the indexed events beyond a cursor.  Every open stream      *)
(* writes them as soon as the query service has taken an event.             *)
EventsAfter(index, cursor) ==
    LET known == CHOOSE n \in 0..Len(index) :
                    \A i \in 1..Len(index) : index[i].seq > cursor <=> i > n
    IN  SubSeq(index, known + 1, Len(index))
Drained(p, index) ==
    IF p.phase = "open"
    THEN [p EXCEPT !.wire = @ \o EventsAfter(index, p.sent),
                   !.sent = LatestSeq(index)]
    ELSE p

Event(type, r) == [type |-> type, req |-> r]

(* One handler records up to three events, without a pause between them;    *)
(* each append may fail by itself.                                          *)
RecordAll(l, events, outcomes) ==
    LET one == Record(l, events[1], outcomes[1])
        two == IF Len(events) < 2 THEN one ELSE Record(one, events[2], outcomes[2])
    IN  IF Len(events) < 3 THEN two ELSE Record(two, events[3], outcomes[3])
Failures(outcomes) == Cardinality({i \in DOMAIN outcomes : outcomes[i] # "ok"})

Emit(events) ==
    \E outcomes \in [1..Len(events) -> Outcomes] :
        /\ faults + Failures(outcomes) + posted <= MaxTrouble
        /\ faults' = faults + Failures(outcomes)
        /\ log' = RecordAll(log, events, outcomes)
        /\ page' = Drained(page, log'.index)

----------------------------------------------------------------------------
(* The engine.                                                              *)

(* A request reaches the owner.  A second question takes the slot of the    *)
(* first, which is declined and recorded as resolved.                       *)
Ask(r) ==
    LET replaced == IF r \in Questions THEN parked \intersect Questions ELSE {}
        declined == CHOOSE q \in replaced : TRUE
    IN  /\ up /\ ~ended /\ r \notin asked /\ Len(log.acked) < MaxEvents
        /\ r \in OwnerChoices => parked \intersect OwnerChoices = {}
        /\ asked' = asked \union {r}
        /\ parked' = (parked \ replaced) \union {r}
        /\ IF replaced = {} THEN Emit(<<Event("request.created", r)>>)
           ELSE Emit(<<Event("request.created", r), Event("request.resolved", declined)>>)
        /\ UNCHANGED <<ended, up, breaks, postVars>>

(* The card of a choice that waits is published again, when a transition    *)
(* that led to it reports twice; a choice whose reply is under way counts   *)
(* as pending again.  (request.updated is taken as request.created is.)     *)
AskAgain(r) ==
    /\ up /\ ~ended /\ r \in parked \intersect OwnerChoices /\ Len(log.acked) < MaxEvents
    /\ Emit(<<Event("request.created", r)>>)
    /\ UNCHANGED <<runVars, up, breaks, postVars>>

(* A question or an approval ends without the owner: its thread was         *)
(* replaced or closed, or Codex withdrew it.                                *)
Settle(r) ==
    /\ up /\ r \in parked \ OwnerChoices
    /\ parked' = parked \ {r}
    /\ Emit(<<Event("request.resolved", r)>>)
    /\ UNCHANGED <<asked, ended, up, breaks, postVars>>

(* The boundary of a fresh clear is published when the new thread has its   *)
(* first turn.                                                              *)
Boundary ==
    /\ up /\ ~ended /\ Len(log.acked) < MaxEvents
    /\ Emit(<<Event("fresh_clear.boundary", NULL)>>)
    /\ UNCHANGED <<runVars, up, breaks, postVars>>

(* An artifact is written: its event goes to the file and not to the query  *)
(* service.                                                                 *)
WriteArtifact ==
    /\ up /\ ~ended /\ Len(log.acked) < MaxEvents
    /\ \E outcome \in Outcomes :
          /\ outcome # "ok" => faults + posted < MaxTrouble
          /\ faults' = IF outcome = "ok" THEN faults ELSE faults + 1
          /\ log' = RecordAside(log, Event("artifact.written", NULL), outcome)
    /\ UNCHANGED <<runVars, up, page, breaks, postVars>>

End ==
    /\ up /\ ~ended
    /\ ended' = TRUE
    /\ Emit(<<Event("run.ended", NULL)>>)
    /\ UNCHANGED <<asked, parked, up, breaks, postVars>>

----------------------------------------------------------------------------
(* Replies: handleReply of ui/reply.ts records that the reply came in and   *)
(* what became of it.  A choice waits for the dispatch queue in between.    *)
At(post, stage) == (posts \ {post}) \union {[post EXCEPT !.stage = stage]}

AcceptReply(post) ==
    /\ up /\ post.stage = "sent" /\ post.req \in parked \ OwnerChoices
    /\ parked' = parked \ {post.req}
    /\ posts' = At(post, "ok")
    /\ Emit(<<Event("reply.submitted", post.req), Event("request.resolved", post.req),
              Event("reply.accepted", post.req)>>)
    /\ UNCHANGED <<asked, ended, up, breaks, posted>>

RefuseReply(post) ==
    /\ up /\ post.stage = "sent" /\ post.req \notin parked \union OwnerChoices
    /\ posts' = posts \ {post}
    /\ Emit(<<Event("reply.submitted", post.req), Event("reply.refused", post.req)>>)
    /\ UNCHANGED <<runVars, up, breaks, posted>>

QueueChoice(post) ==
    /\ up /\ post.stage = "sent" /\ post.req \in OwnerChoices
    /\ posts' = At(post, "queued")
    /\ Emit(<<Event("reply.submitted", post.req)>>)
    /\ UNCHANGED <<runVars, up, breaks, posted>>

(* The choice is validated when its turn in the queue comes and committed;  *)
(* its reply is recorded once the handler is through with the next state,   *)
(* perhaps after the next choice is asked for.                              *)
CommitsUnchecked(post) ==   \* mutant
    /\ up /\ post.stage = "queued"
    /\ parked' = parked \ {post.req}
    /\ posts' = At(post, "committed")
    /\ UNCHANGED <<logVars, asked, ended, up, page, breaks, posted>>
CommitChoice(post) ==
    /\ up /\ post.stage = "queued" /\ post.req \in parked
    /\ parked' = parked \ {post.req}
    /\ posts' = At(post, "committed")
    /\ UNCHANGED <<logVars, asked, ended, up, page, breaks, posted>>

AnswerChoice(post) ==
    /\ up /\ post.stage = "committed"
    /\ posts' = At(post, "ok")
    /\ Emit(<<Event("reply.accepted", post.req)>>)
    /\ UNCHANGED <<runVars, up, breaks, posted>>

(* A choice that is over, or whose commit fails, is refused; so is one      *)
(* committed, when the handler throws after that.                           *)
RefuseChoice(post) ==
    /\ up /\ post.stage \in {"queued", "committed"}
    /\ posts' = posts \ {post}
    /\ Emit(<<Event("reply.refused", post.req)>>)
    /\ UNCHANGED <<runVars, up, breaks, posted>>

(* The page hears the answer and drops the card.  A question's card is      *)
(* dropped whichever question it shows; the others are looked up.           *)
Hear(post) ==
    /\ post.stage = "ok"
    /\ posts' = posts \ {post}
    /\ page' = IF ~post.mine THEN page
               ELSE IF post.req \in Questions THEN [page EXCEPT !.cards.question = NULL]
               ELSE [page EXCEPT !.cards = WithoutCard(@, post.req)]
    /\ UNCHANGED <<logVars, runVars, up, breaks, posted>>

Post(r) ==
    /\ faults + posted < MaxTrouble /\ r \in Shown(page.cards)
    /\ \A post \in posts : ~post.mine
    /\ posted' = posted + 1
    /\ posts' = posts \union {[id |-> posted', req |-> r, stage |-> "sent", mine |-> TRUE]}
    /\ UNCHANGED <<logVars, runVars, up, page, breaks>>

----------------------------------------------------------------------------
(* The page and its stream.                                                 *)
AnswerBootstrap ==
    /\ up /\ page.phase = "loading"
    /\ page' = [page EXCEPT !.phase = "answered", !.boot = log.index]
    /\ UNCHANGED <<logVars, runVars, up, breaks, postVars>>

Hydrate ==
    /\ page.phase = "answered"
    /\ page' = [page EXCEPT !.phase = "connecting", !.boot = <<>>,
                            !.seen = page.boot, !.cursor = LatestSeq(page.boot),
                            !.cards = BootstrapCards(page.boot)]
    /\ UNCHANGED <<logVars, runVars, up, breaks, postVars>>

(* streamRunScopedSseEvents: subscribed and drained in one go.              *)
Connect ==
    /\ up /\ page.phase = "connecting"
    /\ page' = Drained([page EXCEPT !.phase = "open", !.sent = page.cursor], log.index)
    /\ UNCHANGED <<logVars, runVars, up, breaks, postVars>>

Receive ==
    /\ page.phase = "open" /\ page.wire # <<>>
    /\ page' = [page EXCEPT !.wire = Tail(@), !.seen = Append(@, page.wire[1]),
                            !.cursor = page.wire[1].seq,
                            !.cards = ApplyEvent(@, page.wire[1])]
    /\ UNCHANGED <<logVars, runVars, up, breaks, postVars>>

(* The connection breaks; what is on the wire is lost.  EventSource tries   *)
(* again with the id of the last event it dispatched.                       *)
ResumesAtSent(p) ==   \* mutant
    [p EXCEPT !.phase = "connecting", !.wire = <<>>, !.sent = 0, !.cursor = p.sent]
Disconnected(p) == [p EXCEPT !.phase = "connecting", !.wire = <<>>, !.sent = 0]
BreakConnection ==
    /\ up /\ page.phase = "open" /\ breaks < MaxBreaks
    /\ breaks' = breaks + 1
    /\ page' = Disconnected(page)
    /\ UNCHANGED <<logVars, runVars, up, postVars>>

(* The owner loads the page again; answers to the old page go nowhere.      *)
Reload ==
    /\ up /\ breaks < MaxBreaks
    /\ breaks' = breaks + 1
    /\ page' = [Disconnected(page) EXCEPT !.phase = "loading", !.boot = <<>>, !.seen = <<>>,
                                          !.cursor = 0, !.cards = NoCards]
    /\ posts' = {[post EXCEPT !.mine = FALSE] : post \in posts}
    /\ UNCHANGED <<logVars, runVars, up, posted>>

(* The server closes after the run has ended, or the process dies, perhaps  *)
(* while it appends a line.  What is on the wire may still arrive; a reply  *)
(* that was not answered never is, and the page tries in vain to come back. *)
CloseServer ==
    /\ up /\ ended
    /\ up' = FALSE
    /\ UNCHANGED <<logVars, runVars, page, breaks, postVars>>

Crash ==
    /\ up /\ faults + posted < MaxTrouble
    /\ up' = FALSE
    /\ \E outcome \in {"unwritten", "torn", "full"} :
          log' = WriteLine(log, Event("artifact.written", NULL), outcome)
    /\ UNCHANGED <<faults, runVars, page, breaks, postVars>>

----------------------------------------------------------------------------
Replies(post) ==
    \/ AcceptReply(post) \/ RefuseReply(post) \/ QueueChoice(post)
    \/ CommitChoice(post) \/ AnswerChoice(post) \/ RefuseChoice(post) \/ Hear(post)

Next ==
    \/ \E r \in Requests : Ask(r) \/ AskAgain(r) \/ Settle(r) \/ Post(r)
    \/ \E post \in posts : Replies(post)
    \/ Boundary \/ WriteArtifact \/ End \/ CloseServer \/ Crash
    \/ AnswerBootstrap \/ Hydrate \/ Connect \/ Receive \/ BreakConnection \/ Reload

(* The server answers and the browser takes in what has arrived; nothing is *)
(* assumed of Codex, of the owner or of the network's failures, which are   *)
(* bounded.                                                                 *)
Fairness ==
    /\ WF_vars(AnswerBootstrap) /\ WF_vars(Hydrate)
    /\ WF_vars(Connect) /\ WF_vars(Receive)

Spec == Init /\ [][Next]_vars /\ Fairness

----------------------------------------------------------------------------
(* Properties.                                                              *)

Types == {"request.created", "request.resolved", "reply.submitted", "reply.accepted",
          "reply.refused", "fresh_clear.boundary", "artifact.written", "run.ended"}
LineType == [seq : Nat \ {0}, type : Types, req : Requests \union {NULL}]
CardsType == [question : Questions \union {NULL}, choice : OwnerChoices \union {NULL},
              approvals : SUBSET Approvals]
PostType == [id : 1..MaxTrouble, req : Requests, mine : BOOLEAN,
             stage : {"sent", "queued", "committed", "ok"}]
Phases == {"loading", "answered", "connecting", "open"}

(* Every variable keeps its shape.                                          *)
TypeOK ==
    /\ log \in [file : Seq(LineType \union {Torn}), offset : Nat, nextSeq : Nat \ {0},
               acked : Seq(LineType), index : Seq(LineType),
               available : BOOLEAN, refused : BOOLEAN]
    /\ faults \in 0..MaxTrouble /\ breaks \in 0..MaxBreaks /\ posted \in 0..MaxTrouble
    /\ asked \subseteq Requests /\ parked \subseteq asked
    /\ ended \in BOOLEAN /\ up \in BOOLEAN
    /\ page \in [phase : Phases, boot : Seq(LineType), seen : Seq(LineType), cursor : Nat,
                 cards : CardsType, wire : Seq(LineType), sent : Nat]
    /\ posts \subseteq PostType

(* Whatever appends fail and wherever the process dies, whoever reads       *)
(* events.jsonl back finds no corruption: every event whose append was      *)
(* reported to have worked, in order, and at most one more (aharness view   *)
(* on a run that failed or is still going).                                 *)
LogReadable ==
    /\ ~Corrupt(log.file)
    /\ IsPrefix(log.acked, Replay(log.file))
    /\ Len(Replay(log.file)) <= Len(log.acked) + 1

(* The live index never refuses an event, and holds the written events in   *)
(* order; what it lacks are artifacts written since the last event the      *)
(* engine published.                                                        *)
IndexFollowsLog ==
    /\ log.available /\ ~log.refused
    /\ IsPrefix(log.index, log.acked)
    /\ \A i \in (Len(log.index) + 1)..Len(log.acked) : log.acked[i].type = "artifact.written"

(* Whatever failing appends and deaths leave in the file, it reads as the   *)
(* acknowledged events, and the index of the live run is a prefix of them.  *)
LogSound == LogReadable /\ IndexFollowsLog

(* A card the page shows is of a request that, after the events the page    *)
(* has seen, is still pending: no answered request is offered again.        *)
NoStaleCard == Shown(page.cards) \subseteq Pending(page.seen)

SeenAt(type, r) == {i \in 1..Len(page.seen) : Mentions(page.seen[i], r, {type})}

(* A request that still waits for the owner and that the page has heard of  *)
(* has its card, unless a later fresh clear swept the cards, a reply to it  *)
(* was recorded, or the answer to a reply to another question reached the   *)
(* page after it (that reply was recorded, or both its records failed).     *)
After(r, type, q) == \E i \in SeenAt("request.created", r), j \in SeenAt(type, q) : i < j
Recorded(r, types) == \E i \in 1..Len(log.acked) : Mentions(log.acked[i], r, types)
MissingCardExplained ==
    \A r \in (parked \intersect Pending(page.seen)) \ Shown(page.cards) :
        \/ After(r, "fresh_clear.boundary", NULL)
        \/ Recorded(r, {"reply.submitted"})
        \/ r \in Questions /\ \E q \in Questions \ {r} :
               Recorded(q, {"reply.submitted", "reply.accepted"}) \/ faults > 1

(* No request is decided twice: of all replies to it, from this page and    *)
(* from one loaded before, at most one is accepted, and none after the      *)
(* request was settled without the owner.                                   *)
Times(type, r) ==
    Cardinality({i \in 1..Len(log.acked) : Mentions(log.acked[i], r, {type})})
DecidedOnce ==
    \A r \in Requests : Times("reply.accepted", r) <= 1 /\ Times("request.resolved", r) <= 1

(* The page refines the abstract stream: it sees the published events in    *)
(* order, each once, across lost connections and reloads, and while the run *)
(* serves it, it does not stay behind for ever.                             *)
Stream == INSTANCE EventStream WITH
              Followers <- {"page"}, log <- log.index,
              seen <- [f \in {"page"} |-> page.seen], serving <- up
StreamSpec == Stream!Spec
=============================================================================
