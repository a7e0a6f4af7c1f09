------------------------------- MODULE RunLog --------------------------------
(****************************************************************************)
(* The canonical event log of a run (packages/core/src/runEvents): the      *)
(* writer of events.jsonl, the replay that reads it back, and the live      *)
(* index of the query service.  The log is a record; each operator is what  *)
(* one synchronous call does to it.                                         *)
(*                                                                          *)
(* The file is a sequence of chunks: complete lines, numbered from 1, and   *)
(* Torn for the bytes a failed append may leave behind.  Offsets count      *)
(* chunks.  That the file shrinks below the offset is left out: only        *)
(* somebody else's truncation does that.                                    *)
(****************************************************************************)
EXTENDS Integers, Sequences

CONSTANT NULL   \* no request

Torn == [seq |-> 0, type |-> "torn", req |-> NULL]

(* What the file system does to one append: nothing reaches the file, some  *)
(* of the line does, all of it does although an error is reported, or the   *)
(* bytes beyond the offset cannot be cut off.                               *)
Faults == {"unwritten", "torn", "full", "untruncated"}
Outcomes == Faults \union {"ok"}

EmptyLog == [file |-> <<>>, offset |-> 0, nextSeq |-> 1, acked |-> <<>>,
             index |-> <<>>, available |-> TRUE, refused |-> FALSE]

----------------------------------------------------------------------------
(* Replay: the lines up to the first that is malformed or does not increase *)
(* the sequence number.  A malformed line at the very end is a torn append  *)
(* and no corruption.                                                       *)
Readable(file, n) ==
    \A i \in 1..n : /\ file[i] # Torn
                    /\ i > 1 => file[i - 1].seq < file[i].seq
ReadableLines(file) ==
    CHOOSE n \in 0..Len(file) :
        Readable(file, n) /\ (n < Len(file) => ~Readable(file, n + 1))
Replay(file) == SubSeq(file, 1, ReadableLines(file))
Corrupt(file) ==
    LET n == ReadableLines(file)
    IN  n < Len(file) /\ ~(n + 1 = Len(file) /\ file[n + 1] = Torn)

----------------------------------------------------------------------------
(* The query service takes an appended line if it is the next one; a line   *)
(* further ahead means that others appended without telling it, and it      *)
(* reads the file again.                                                    *)
LatestSeq(index) == IF index = <<>> THEN 0 ELSE index[Len(index)].seq

CatchUpFromDisk(log, line) ==
    IF Corrupt(log.file)
    THEN [log EXCEPT !.available = FALSE, !.refused = TRUE]
    ELSE IF \E i \in 1..ReadableLines(log.file) : log.file[i] = line
         THEN [log EXCEPT !.index = Replay(log.file)]
         ELSE [log EXCEPT !.refused = TRUE]

AcceptAppend(log, line) ==
    IF ~log.available \/ line.seq <= LatestSeq(log.index)
    THEN [log EXCEPT !.refused = TRUE]
    ELSE IF line.seq = LatestSeq(log.index) + 1
         THEN [log EXCEPT !.index = Append(@, line)]
         ELSE CatchUpFromDisk(log, line)

----------------------------------------------------------------------------
(* The writer.  What an earlier failure left beyond the offset is cut off   *)
(* first; the sequence number and the offset move only if the append is     *)
(* reported to have worked.                                                 *)
Line(log, event) == [seq |-> log.nextSeq, type |-> event.type, req |-> event.req]
KeptAll(log) == log.file   \* mutant
Kept(log) == SubSeq(log.file, 1, log.offset)

WriteLine(log, event, outcome) ==
    LET line == Line(log, event)
    IN  CASE outcome = "ok" ->
               [log EXCEPT !.file = Append(Kept(log), line),
                           !.offset = @ + 1,
                           !.nextSeq = @ + 1,
                           !.acked = Append(@, line)]
          [] outcome = "unwritten"   -> [log EXCEPT !.file = Kept(log)]
          [] outcome = "torn"        -> [log EXCEPT !.file = Append(Kept(log), Torn)]
          [] outcome = "full"        -> [log EXCEPT !.file = Append(Kept(log), line)]
          [] outcome = "untruncated" -> log

(* An append of the engine is passed on to the query service; one of        *)
(* appendEventEntry (an artifact written) is not.                           *)
Record(log, event, outcome) ==
    IF outcome = "ok"
    THEN AcceptAppend(WriteLine(log, event, outcome), Line(log, event))
    ELSE WriteLine(log, event, outcome)
RecordAside(log, event, outcome) == WriteLine(log, event, outcome)
=============================================================================
