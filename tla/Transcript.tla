----------------------------- MODULE Transcript -----------------------------
(***************************************************************************)
(* The rows a page shows of a run (web-ui/src/state/store.ts,              *)
(* components/ActivePanel.tsx) and the server's pages of rows              *)
(* (core/src/runEvents/indexer.ts, queryService.ts).                       *)
(*                                                                         *)
(* The run appends events to its log.  A page gets them twice over: the    *)
(* event stream delivers each one once and in order (RunEvents shows it),  *)
(* and the page also fetches pages of rows, oldest first, each computed    *)
(* from the log when the server answers and applied when the answer        *)
(* arrives.  Both meet in the transcript: one entry per item, where a row  *)
(* whose event is already there adds nothing and any other row overwrites  *)
(* what the entry says.  A message arrives as a start without text, the    *)
(* pieces of its text and its whole text; a tool call as pending and then  *)
(* as finished.  Entries in a text are piece numbers.                      *)
(***************************************************************************)
EXTENDS Rows, FiniteSets, SequencesExt

CONSTANTS
    Paths,          \* the states of the run's workflow
    Pieces,         \* the pieces a message is streamed in
    PageLimit,      \* the rows of one page, and of the bootstrap
    MaxLog,         \* bound: events of the run
    MaxTrouble,     \* bound: fresh threads, failed requests, resyncs and reloads
    MaxFlight       \* bound: requests for rows under way at once

ASSUME TranscriptAssumption ==
    /\ Pieces \in Nat \ {0}
    /\ PageLimit \in Nat \ {0}
    /\ {MaxLog, MaxTrouble, MaxFlight} \subseteq Nat
    /\ Messages \intersect Tools = {}
    /\ RECENT \notin Nat /\ NONE \notin Items \union Paths \union Nat
    /\ Items \intersect (Paths \union Nat) = {}

VARIABLES
    scope,          \* the state whose visits the owner looks at, or NONE
    trouble         \* fresh threads, failures, resyncs and reloads so far

vars == <<journal, transcript, latest, scope, pager, flight, overtaken, late, trouble>>

Whole == [k \in 1 .. Pieces |-> k]
Event(kind, item, text) == [kind |-> kind, item |-> item, text |-> text]

Fresh == [cursor |-> NONE, loading |-> FALSE, loaded |-> FALSE]

-----------------------------------------------------------------------------
(* The log.                                                                *)

\* the events at or before n that cleared the page
ClearsTo(n) == {i \in 1 .. n : journal[i].kind = "clear"}

\* An event with a row says something of an item, of a visit or of the run;
\* the end of a turn has none.  A change of state names its visit (and so does
\* the request of an owner choice, which is left out here).
RowsOf(source, n) ==
    {i \in 1 .. n : IF source = RECENT THEN journal[i].kind # "turnDone" ELSE i = source}

Greatest(S) == CHOOSE i \in S : \A j \in S : j <= i

\* mutant: the next page starts after a row of its own
rowPageSkips(source, cursor, n) ==
    LET after == {i \in RowsOf(source, n) : cursor = NONE \/ i > cursor}
        rows  == {i \in after : Cardinality({j \in after : j < i}) < PageLimit}
        more  == {i \in after : Cardinality({j \in after : j < i}) <= PageLimit}
    IN  [rows |-> rows, next |-> IF rows = after THEN NONE ELSE Greatest(more)]

\* One page of them, as the set of its rows: the first ones after the cursor,
\* and the last one's id when more of them follow.
rowPage(source, cursor, n) ==
    LET after == {i \in RowsOf(source, n) : cursor = NONE \/ i > cursor}
        rows  == {i \in after : Cardinality({j \in after : j < i}) < PageLimit}
    IN  [rows |-> rows, next |-> IF rows = after THEN NONE ELSE Greatest(rows)]

-----------------------------------------------------------------------------
(* The page's entries.                                                     *)

\* mutant: a row whose event is already there overwrites the entry too
MergedAgain(existing, incoming) ==
    [k \in DOMAIN existing \union DOMAIN incoming |->
        IF k \notin DOMAIN incoming THEN existing[k]
        ELSE IF k \notin DOMAIN existing THEN incoming[k]
        ELSE [incoming[k] EXCEPT !.ids = @ \union existing[k].ids]]

\* A row whose event is already in the entry adds nothing to what it says; any
\* other row overwrites it.
mergeTranscriptItems(existing, incoming) ==
    [k \in DOMAIN existing \union DOMAIN incoming |->
        IF k \notin DOMAIN incoming THEN existing[k]
        ELSE IF k \notin DOMAIN existing THEN incoming[k]
        ELSE IF incoming[k].last \in existing[k].ids
             THEN [existing[k] EXCEPT !.ids = @ \union incoming[k].ids]
             ELSE [incoming[k] EXCEPT !.ids = @ \union existing[k].ids]]

\* the entries of a page's rows, merged in their order
transcriptFromCompactRows(rows) ==
    LET merged[i \in 0 .. Len(journal)] ==
            IF i = 0 THEN Empty
            ELSE IF i \in rows
                 THEN mergeTranscriptItems(merged[i - 1], transcriptItemFromCompactRow(i))
                 ELSE merged[i - 1]
    IN  merged[Len(journal)]

appendRunEventRow(i) ==
    mergeTranscriptItems(transcript, transcriptItemFromCompactRow(i))

-----------------------------------------------------------------------------
(* The run.                                                                *)

\* what goes wrong, within the bound
Troubles == trouble < MaxTrouble /\ trouble' = trouble + 1

\* An item that had begun when the thread was replaced is heard of no more.
InProgress(item) ==
    \E i \in Events("started", item) : ClearsTo(Len(journal)) \subseteq 1 .. i

recordRunEvent(event) ==
    /\ Len(journal) < MaxLog
    /\ journal' = Append(journal, event)
    /\ UNCHANGED <<transcript, latest, scope, pager, flight, overtaken, late>>

StartItem ==
    /\ \E k \in Items : Events("started", k) = {} /\ recordRunEvent(Event("started", k, <<>>))
    /\ UNCHANGED trouble

\* a piece of a message that is streaming
publishAgentMessageDelta ==
    /\ \E m \in Messages :
           LET n == Cardinality(Events("delta", m)) + 1
           IN  /\ InProgress(m) /\ Events("completed", m) = {} /\ n <= Pieces
               /\ recordRunEvent(Event("delta", m, <<n>>))
    /\ UNCHANGED trouble

CompleteItem ==
    /\ \E k \in Items :
           /\ InProgress(k) /\ Events("completed", k) = {}
           /\ recordRunEvent(Event("completed", k, IF k \in Messages THEN Whole ELSE <<>>))
    /\ UNCHANGED trouble

ChangeState ==
    /\ \E p \in Paths : recordRunEvent(Event("state", p, <<>>))
    /\ UNCHANGED trouble

CompleteTurn ==
    /\ recordRunEvent(Event("turnDone", NONE, <<>>))
    /\ UNCHANGED trouble

\* the thread is replaced by a fresh one
ClearThread ==
    /\ Troubles
    /\ recordRunEvent(Event("clear", NONE, <<>>))

-----------------------------------------------------------------------------
(* The event stream.                                                       *)

\* A piece of a streaming message is added to its entry, whatever the entry
\* already holds.
applyDelta(i) ==
    LET old == IF Key(i) \in DOMAIN transcript THEN transcript[Key(i)]
               ELSE [text |-> <<>>, ids |-> {}]
    IN  [k \in DOMAIN transcript \union {Key(i)} |->
            IF k # Key(i) THEN transcript[k]
            ELSE [text |-> old.text \o journal[i].text, open |-> TRUE,
                  last |-> i, ids |-> old.ids \union {i}]]

\* the entries once the page has been told of event i
reduced(i) ==
    CASE journal[i].kind = "delta"    -> applyDelta(i)
      [] journal[i].kind = "turnDone" ->
            [k \in DOMAIN transcript |->
                [transcript[k] EXCEPT !.open = @ /\ k \notin Messages]]
      [] journal[i].kind = "clear"    ->
            [k \in {k \in DOMAIN appendRunEventRow(i) : k \in ClearsTo(i)} |->
                appendRunEventRow(i)[k]]
      [] OTHER                    -> appendRunEventRow(i)

\* requests for the run's rows that are under way
RowsUnderWay == \E r \in DOMAIN flight : flight[r].source = RECENT

\* A fresh thread empties the run's transcript and has its rows fetched again; a
\* change of state brings the owner back to the run's transcript.
reduceRunEvent ==
    LET i == latest + 1
    IN  /\ i <= Len(journal)
        /\ latest' = i
        /\ transcript' = reduced(i)
        /\ pager' = IF journal[i].kind = "clear" THEN [pager EXCEPT ![RECENT] = Fresh] ELSE pager
        /\ scope' = IF journal[i].kind = "state" THEN NONE ELSE scope
        /\ overtaken' = (overtaken \/ (journal[i].kind = "clear" /\ RowsUnderWay))
        /\ late' = IF journal[i].kind = "clear" THEN {} ELSE late
        /\ UNCHANGED <<journal, flight, trouble>>

-----------------------------------------------------------------------------
(* The page starts over.                                                   *)

\* The bootstrap: the first rows of the log up to event n, where the stream
\* then takes up.
hydrateFromBootstrap(n) ==
    /\ transcript' = transcriptFromCompactRows(rowPage(RECENT, NONE, n).rows)
    /\ latest' = n
    /\ scope' = NONE
    /\ pager' = [s \in DOMAIN pager |-> Fresh]
    /\ late' = {}
    /\ UNCHANGED journal

\* the stream asks for it: requests that are under way stay under way
Resync ==
    /\ Troubles
    /\ \E n \in latest .. Len(journal) : hydrateFromBootstrap(n)
    /\ overtaken' = (overtaken \/ RowsUnderWay)
    /\ UNCHANGED flight

\* the owner loads the page again
Reload ==
    /\ Troubles
    /\ hydrateFromBootstrap(Len(journal))
    /\ flight' = <<>> /\ overtaken' = FALSE

-----------------------------------------------------------------------------
(* The pages of rows.                                                      *)

setScope ==
    /\ \E p \in Paths \union {NONE} : p # scope /\ scope' = p
    /\ UNCHANGED <<journal, transcript, latest, pager, flight, overtaken, late, trouble>>

\* A source has more to ask for: nothing is under way and it has not ended.
Asks(source) == ~pager[source].loading /\ (pager[source].loaded => pager[source].cursor # NONE)

Send(source) ==
    /\ Asks(source) /\ Len(flight) < MaxFlight
    /\ pager' = [pager EXCEPT ![source].loading = TRUE]
    /\ flight' = Append(flight, [source |-> source, cursor |-> pager[source].cursor,
                                 served |-> FALSE, rows |-> {}, next |-> NONE])
    /\ UNCHANGED <<journal, transcript, latest, scope, overtaken, late, trouble>>

\* the panel asks as long as it shows the run's transcript
requestRecentRows == scope = NONE /\ Send(RECENT)

\* the visits of the selected state the page knows of
requestRowsForStatePath ==
    \E v \in 1 .. latest : journal[v].kind = "state" /\ journal[v].item = scope /\ Send(v)

\* the server answers from the log as it is
getRows(r) ==
    LET page == rowPage(flight[r].source, flight[r].cursor, Len(journal))
    IN  /\ ~flight[r].served
        /\ flight' = [flight EXCEPT ![r].served = TRUE, ![r].rows = page.rows,
                                    ![r].next = page.next]
        /\ UNCHANGED <<journal, transcript, latest, scope, pager, overtaken, late, trouble>>

\* The rows tell of the start of a tool call and not of its end, which the page
\* was told of before.
StartAfterEnd(k, rows) ==
    /\ k \in DOMAIN transcript
    /\ \E i \in Events("started", k), j \in Events("completed", k) :
           /\ i \in rows /\ i \notin transcript[k].ids
           /\ j \notin rows /\ j \in transcript[k].ids

\* the answer arrives, whatever happened to the page in the meantime
mergeRowPage(r) ==
    /\ flight[r].served
    /\ transcript' = mergeTranscriptItems(transcript, transcriptFromCompactRows(flight[r].rows))
    /\ pager' = [pager EXCEPT ![flight[r].source] =
                     [cursor |-> flight[r].next, loading |-> FALSE, loaded |-> TRUE]]
    /\ flight' = RemoveAt(flight, r)
    /\ late' = late \union {k \in Tools : StartAfterEnd(k, flight[r].rows)}
    /\ UNCHANGED <<journal, latest, scope, overtaken, trouble>>

\* mutant: a failure leaves the source loading
rowLoadHangs(r) ==
    /\ Troubles
    /\ flight' = RemoveAt(flight, r)
    /\ UNCHANGED <<journal, transcript, latest, scope, pager, overtaken, late>>

\* or it does not: the panel will ask again at once
rowLoadFailed(r) ==
    /\ Troubles
    /\ pager' = [pager EXCEPT ![flight[r].source].loading = FALSE]
    /\ flight' = RemoveAt(flight, r)
    /\ UNCHANGED <<journal, transcript, latest, scope, overtaken, late>>

Serves == \E r \in DOMAIN flight : getRows(r)
Arrives == \E r \in DOMAIN flight : mergeRowPage(r)
Fails == \E r \in DOMAIN flight : rowLoadFailed(r)

-----------------------------------------------------------------------------
Init ==
    /\ journal = <<>> /\ transcript = Empty /\ latest = 0
    /\ scope = NONE
    /\ pager = [s \in {RECENT} \union 1 .. MaxLog |-> Fresh]
    /\ flight = <<>>
    /\ overtaken = FALSE /\ late = {} /\ trouble = 0

Runs ==
    StartItem \/ publishAgentMessageDelta \/ CompleteItem \/ ChangeState
    \/ CompleteTurn \/ ClearThread

Next ==
    \/ Runs \/ reduceRunEvent \/ Resync \/ Reload
    \/ setScope \/ requestRecentRows \/ requestRowsForStatePath
    \/ Serves \/ Arrives \/ Fails

\* The stream delivers, the panel asks whenever it may, and the server answers.
Spec ==
    Init /\ [][Next]_vars
    /\ WF_vars(reduceRunEvent) /\ WF_vars(requestRecentRows)
    /\ WF_vars(requestRowsForStatePath) /\ WF_vars(Serves) /\ WF_vars(Arrives)

-----------------------------------------------------------------------------
(* Properties.                                                             *)

\* Without the exception: TLC refutes it (cleared_page.cfg).
NoHoleEver ==
    Quiet => \A i \in DOMAIN journal :
        Shows(i) => Key(i) \in DOMAIN transcript /\ i \in transcript[Key(i)].ids

\* Without the exception: TLC refutes it (stuck_call.cfg).
EveryCallFinished ==
    Quiet /\ ~overtaken => \A k \in Tools : Events("completed", k) # {} => Finished(k)

\* If the owner stays on the run's transcript, its rows are fetched to their end
\* and the page falls silent, however often a request failed.
Settles == <>[](scope = NONE) => <>[](Ended(RECENT) /\ latest = Len(journal))

\* When everything has arrived, every completed message is shown with its text.
\* TLC refutes it (doubled_text.cfg).
TextsEndWhole ==
    Quiet => \A m \in Messages : Events("completed", m) # {} =>
                 m \in DOMAIN transcript /\ transcript[m].text = Whole
=============================================================================
