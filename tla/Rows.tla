-------------------------------- MODULE Rows --------------------------------
(***************************************************************************)
(* The rows of a run and the entries a page makes of them                  *)
(* (web-ui/src/state/store.ts, core/src/runEvents/indexer.ts): what the     *)
(* page holds, and what it promises to show once everything has arrived.    *)
(* Transcript has the steps.                                               *)
(***************************************************************************)
EXTENDS Naturals, Sequences

CONSTANTS
    Messages,       \* the messages of the run
    Tools,          \* its tool calls
    RECENT,         \* the source of rows that is the whole run
    NONE            \* no item, cursor or scope

VARIABLES
    journal,        \* the run's events, in order: its log
    transcript,     \* the page's entries, by item (or by event, for one row)
    latest,         \* the last event the stream has delivered to the page
    pager,          \* what the page knows of its loading, for each source
    flight,         \* its requests for rows, in the order they were sent
    overtaken,      \* the page was cleared or built anew under a request
    late            \* tool calls whose start the page was told of after their end

Items == Messages \union Tools

Empty == [k \in {} |-> {}]

Events(kind, item) == {i \in DOMAIN journal : journal[i].kind = kind /\ journal[i].item = item}

Key(i) == IF journal[i].item \in Items THEN journal[i].item ELSE i

\* The entry a row becomes; the start of a message has no text and becomes none.
transcriptItemFromCompactRow(i) ==
    IF journal[i].item \in Messages /\ journal[i].text = <<>> THEN Empty
    ELSE [k \in {Key(i)} |-> [text |-> journal[i].text,
                              open |-> journal[i].item \in Tools /\ journal[i].kind = "started",
                              last |-> i, ids |-> {i}]]

-----------------------------------------------------------------------------
(* Promises.                                                               *)

\* a row of the run with something to show
Shows(i) == journal[i].kind # "turnDone" /\ transcriptItemFromCompactRow(i) # Empty

\* the run's rows have been fetched to their end and everything has arrived
Ended(source) == pager[source].loaded /\ pager[source].cursor = NONE /\ ~pager[source].loading
Quiet == Ended(RECENT) /\ flight = <<>> /\ latest = Len(journal)

\* When everything has arrived, every row of the run is in an entry: paging
\* leaves no hole, unless the page was cleared or built anew while it waited for
\* rows of before (store.ts:1251 takes them for the new paging's).
NoHole ==
    Quiet /\ ~overtaken =>
        \A i \in DOMAIN journal :
            Shows(i) => Key(i) \in DOMAIN transcript /\ i \in transcript[Key(i)].ids

Finished(k) == k \in DOMAIN transcript /\ ~transcript[k].open

\* When everything has arrived, a finished tool call is shown as finished: pages
\* that were computed earlier and arrive later do not take it back to pending.  The
\* exception is a call whose start arrives on such a page when the page has already
\* been told of its end and not of its start.
CallsEndFinished ==
    Quiet /\ ~overtaken =>
        \A k \in Tools \ late : Events("completed", k) # {} => Finished(k)
=============================================================================
