--------------------------- MODULE RunEventsProofs ---------------------------
(* The event log, its index and the page that follows them, for every set   *)
(* of requests and every number of events, failed appends, broken           *)
(* connections and replies.                                                 *)
EXTENDS RunEvents, FiniteSetTheorems, SequenceTheorems, WellFoundedInduction, TLAPS

(***************************** inductive invariants *************************)
LogType == [file : Seq(LineType \union {Torn}), offset : Nat, nextSeq : Nat \ {0},
            acked : Seq(LineType), index : Seq(LineType),
            available : BOOLEAN, refused : BOOLEAN]

(* s is an initial part of t.                                               *)
Begins(s, t) == Len(s) <= Len(t) /\ \A i \in 1..Len(s) : s[i] = t[i]

(* The acknowledged lines are numbered without gaps and begin the file,     *)
(* which has at most one chunk more.                                        *)
Written(l) ==
    /\ l.offset = Len(l.acked) /\ l.nextSeq = l.offset + 1
    /\ \A i \in 1..Len(l.acked) : l.acked[i].seq = i
    /\ Begins(l.acked, l.file) /\ Len(l.file) <= l.offset + 1
    /\ Len(l.file) = l.offset + 1 =>
          l.file[l.offset + 1] = Torn \/ l.file[l.offset + 1].seq = l.offset + 1
Indexed(l) ==
    /\ l.available /\ ~l.refused
    /\ Begins(l.index, l.acked)
    /\ \A i \in (Len(l.index) + 1)..Len(l.acked) : l.acked[i].type = "artifact.written"
LogInv(l) == l \in LogType /\ Written(l) /\ Indexed(l)

(* The page has seen an initial part of the index; what is on the wire      *)
(* continues it up to where its stream has got.                             *)
StreamAt(seen, wire, sent, index) ==
    /\ sent = Len(seen) + Len(wire) /\ sent <= Len(index)
    /\ \A i \in 1..Len(wire) : wire[i] = index[Len(seen) + i]
InStream(p, index) ==
    /\ Begins(p.seen, index)
    /\ p.phase \in {"loading", "answered"} => p.seen = <<>>
    /\ p.phase = "answered" => Begins(p.boot, index)
    /\ p.phase \in {"connecting", "open"} => p.cursor = Len(p.seen)
    /\ p.phase = "open" => StreamAt(p.seen, p.wire, p.sent, index)
    /\ p.phase # "open" => p.wire = <<>>
PageShape(p) ==
    /\ p = [phase |-> p.phase, boot |-> p.boot, seen |-> p.seen, cursor |-> p.cursor,
            cards |-> p.cards, wire |-> p.wire, sent |-> p.sent]
    /\ p.phase \in Phases /\ p.cursor \in Nat /\ p.sent \in Nat
    /\ p.boot \in Seq(LineType) /\ p.seen \in Seq(LineType) /\ p.wire \in Seq(LineType)
PageInv == PageShape(page) /\ InStream(page, log.index)

(* Who waits, and for what.                                                 *)
Waiting ==
    /\ parked \subseteq asked /\ asked \subseteq Requests /\ posted \in Nat
    /\ posts \subseteq [id : Nat, req : Requests, mine : BOOLEAN, stage : {"sent", "queued", "committed", "ok"}]

(****************************** the log's operations ************************)
LEMMA TornIsNoLine == Torn \notin LineType /\ Torn.seq = 0
BY DEF Torn, LineType

LEMMA SeqFacts ==
    ASSUME NEW T, NEW s \in Seq(T)
    PROVE  /\ Len(s) \in Nat
           /\ \A i \in 1..Len(s) : s[i] \in T
OBVIOUS

LEMMA AppendFacts ==
    ASSUME NEW T, NEW s \in Seq(T), NEW e \in T
    PROVE  /\ Append(s, e) \in Seq(T) /\ Len(Append(s, e)) = Len(s) + 1
           /\ \A i \in 1..Len(s) : Append(s, e)[i] = s[i]
           /\ Append(s, e)[Len(s) + 1] = e
BY AppendProperties

LEMMA PrefixFacts ==
    ASSUME NEW T, NEW s \in Seq(T), NEW n \in 0..Len(s)
    PROVE  /\ SubSeq(s, 1, n) \in Seq(T) /\ Len(SubSeq(s, 1, n)) = n
           /\ \A i \in 1..n : SubSeq(s, 1, n)[i] = s[i]
<1>1. \A i \in 1..n : s[i] \in T
  BY SeqFacts
<1> QED BY <1>1, SubSeqProperties

LEMMA BeginsIsPrefix ==
    ASSUME NEW T, NEW s \in Seq(T), NEW t \in Seq(T), Begins(s, t)
    PROVE  IsPrefix(s, t) /\ s = SubSeq(t, 1, Len(s))
<1>1. Len(s) \in 0..Len(t)
  BY DEF Begins
<1>2. /\ SubSeq(s, 1, Len(s)) \in Seq(T) /\ Len(SubSeq(s, 1, Len(s))) = Len(s)
      /\ \A i \in 1..Len(s) : SubSeq(s, 1, Len(s))[i] = s[i]
  BY PrefixFacts, Len(s) \in 0..Len(s)
<1>3. /\ SubSeq(t, 1, Len(s)) \in Seq(T) /\ Len(SubSeq(t, 1, Len(s))) = Len(s)
      /\ \A i \in 1..Len(s) : SubSeq(t, 1, Len(s))[i] = t[i]
  BY <1>1, PrefixFacts
<1>4. SubSeq(s, 1, Len(s)) = s
  BY <1>2, SeqEqual
<1>5. SubSeq(t, 1, Len(s)) = s
  BY <1>3, SeqEqual DEF Begins
<1> QED BY <1>4, <1>5 DEF IsPrefix, Begins

(* The readable part of the file is the only one that cannot be extended.   *)
LEMMA ReadableUnique ==
    ASSUME NEW file, Len(file) \in Nat, NEW n \in 0..Len(file),
           Readable(file, n), n < Len(file) => ~Readable(file, n + 1)
    PROVE  ReadableLines(file) = n
<1> DEFINE P(k) == Readable(file, k) /\ (k < Len(file) => ~Readable(file, k + 1))
<1>1. \E k \in 0..Len(file) : P(k)
  OBVIOUS
<1>2. ASSUME NEW k \in 0..Len(file), P(k)
      PROVE  k = n
  <2>1. CASE k < n
    <3>1. Readable(file, k + 1)
      BY <2>1 DEF Readable
    <3> QED BY <1>2, <2>1, <3>1
  <2>2. CASE n < k
    <3>1. Readable(file, n + 1)
      BY <1>2, <2>2 DEF Readable
    <3> QED BY <2>2, <3>1
  <2> QED BY <2>1, <2>2
<1>3. ReadableLines(file) = CHOOSE k \in 0..Len(file) : P(k)
  BY DEF ReadableLines
<1> HIDE DEF P
<1> QED BY <1>1, <1>2, <1>3

LEMMA LogReads ==
    ASSUME NEW l, LogInv(l)
    PROVE  /\ ReadableLines(l.file) \in {l.offset, l.offset + 1}
           /\ ReadableLines(l.file) <= Len(l.file)
           /\ ReadableLines(l.file) = l.offset =>
                 l.file[l.offset + 1] = Torn \/ Len(l.file) = l.offset
<1> USE TornIsNoLine
<1>1. /\ l.offset \in Nat /\ Len(l.file) \in Nat /\ l.file \in Seq(LineType \union {Torn})
      /\ l.acked \in Seq(LineType) /\ Len(l.acked) = l.offset
      /\ l.offset <= Len(l.file) /\ Len(l.file) <= l.offset + 1
  BY DEF LogInv, LogType, Written, Begins
<1>2. \A i \in 1..l.offset : l.file[i] \in LineType /\ l.file[i].seq = i
  BY <1>1, SeqFacts DEF LogInv, Written, Begins
<1>3. Readable(l.file, l.offset)
  BY <1>1, <1>2 DEF Readable
<1>4. CASE Len(l.file) = l.offset
  <2>1. ReadableLines(l.file) = l.offset
    BY <1>1, <1>3, <1>4, ReadableUnique
  <2> QED BY <1>1, <1>4, <2>1
<1>5. CASE Len(l.file) = l.offset + 1 /\ l.file[l.offset + 1] = Torn
  <2>1. ~Readable(l.file, l.offset + 1)
    BY <1>1, <1>5 DEF Readable
  <2>2. ReadableLines(l.file) = l.offset
    BY <1>1, <1>3, <1>5, <2>1, ReadableUnique
  <2> QED BY <1>1, <1>5, <2>2
<1>6. CASE Len(l.file) = l.offset + 1 /\ l.file[l.offset + 1] # Torn
  <2>1. l.file[l.offset + 1].seq = l.offset + 1
    BY <1>6 DEF LogInv, Written
  <2>2. Readable(l.file, l.offset + 1)
    BY <1>1, <1>2, <1>3, <1>6, <2>1 DEF Readable
  <2>3. ReadableLines(l.file) = l.offset + 1
    BY <1>1, <1>6, <2>2, ReadableUnique
  <2> QED BY <1>1, <1>6, <2>3
<1> QED BY <1>1, <1>4, <1>5, <1>6

(* What each outcome of an append leaves.                                   *)
EventType == [type : Types, req : Requests \union {NULL}]
LEMMA WriteKeeps ==
    ASSUME NEW l, LogInv(l), NEW e \in EventType, NEW outcome \in Faults
    PROVE  /\ LogInv(WriteLine(l, e, outcome))
           /\ WriteLine(l, e, outcome).acked = l.acked
           /\ WriteLine(l, e, outcome).index = l.index
<1> DEFINE T == LineType \union {Torn}
           kept == Kept(l)
           line == Line(l, e)
           w == WriteLine(l, e, outcome)
<1>1. /\ l.offset \in Nat /\ Len(l.file) \in Nat /\ l.file \in Seq(T)
      /\ l.acked \in Seq(LineType) /\ Len(l.acked) = l.offset
      /\ l.offset <= Len(l.file) /\ l.nextSeq = l.offset + 1
      /\ \A i \in 1..l.offset : l.file[i] = l.acked[i]
  BY SeqFacts DEF LogInv, LogType, Written, Begins
<1>2. line \in T /\ line.seq = l.offset + 1 /\ Torn \in T
  BY <1>1 DEF Line, EventType, LineType
<1>3. kept \in Seq(T) /\ Len(kept) = l.offset /\ \A i \in 1..l.offset : kept[i] = l.acked[i]
  BY <1>1, PrefixFacts DEF Kept
<1>4. w \in {l, [l EXCEPT !.file = kept], [l EXCEPT !.file = Append(kept, Torn)],
             [l EXCEPT !.file = Append(kept, line)]}
  BY DEF WriteLine, Faults
<1> HIDE DEF w, kept, line, T
<1>5. w = [l EXCEPT !.file = w.file]
  BY <1>4 DEF LogInv, LogType
<1>6. /\ w.file \in Seq(T) /\ Len(w.file) \in Nat
      /\ l.offset <= Len(w.file) /\ Len(w.file) <= l.offset + 1
      /\ \A i \in 1..l.offset : w.file[i] = l.acked[i]
      /\ Len(w.file) = l.offset + 1 =>
            w.file[l.offset + 1] = Torn \/ w.file[l.offset + 1].seq = l.offset + 1
  <2>1. CASE w = l
    BY <1>1, <2>1 DEF LogInv, Written
  <2>2. CASE w.file = kept
    BY <1>1, <1>3, <2>2
  <2>3. ASSUME NEW c \in {Torn, line}, w.file = Append(kept, c)
        PROVE  <1>6
    BY <1>1, <1>2, <1>3, <2>3, AppendFacts
  <2> QED BY <1>4, <2>1, <2>2, <2>3 DEF LogInv, LogType
<1>7. w \in LogType
  BY <1>5, <1>6 DEF LogInv, LogType, T
<1>8. /\ w.offset = l.offset /\ w.nextSeq = l.nextSeq /\ w.acked = l.acked /\ w.index = l.index
      /\ w.available = l.available /\ w.refused = l.refused
  BY <1>5 DEF LogInv, LogType
<1> QED BY <1>1, <1>6, <1>7, <1>8 DEF LogInv, Written, Indexed, Begins, w

LEMMA WriteAcks ==
    ASSUME NEW l, LogInv(l), NEW e \in EventType
    PROVE  LET w == WriteLine(l, e, "ok")
           IN  /\ w \in LogType /\ Written(w)
               /\ w.acked = Append(l.acked, Line(l, e)) /\ w.file = w.acked
               /\ w.index = l.index /\ w.available /\ ~w.refused
               /\ Line(l, e) \in LineType /\ Line(l, e).seq = Len(l.acked) + 1
               /\ Len(w.acked) = Len(l.acked) + 1
<1> DEFINE T == LineType \union {Torn}
           kept == Kept(l)
           line == Line(l, e)
           w == WriteLine(l, e, "ok")
<1>1. /\ l.offset \in Nat /\ Len(l.file) \in Nat /\ l.file \in Seq(T)
      /\ l.acked \in Seq(LineType) /\ Len(l.acked) = l.offset
      /\ l.offset <= Len(l.file) /\ l.nextSeq = l.offset + 1
      /\ \A i \in 1..l.offset : l.file[i] = l.acked[i] /\ l.acked[i].seq = i
  BY SeqFacts DEF LogInv, LogType, Written, Begins
<1>2. line \in LineType /\ line.seq = l.offset + 1
  BY <1>1 DEF Line, EventType, LineType
<1>3. kept \in Seq(T) /\ Len(kept) = l.offset /\ \A i \in 1..l.offset : kept[i] = l.acked[i]
  BY <1>1, PrefixFacts DEF Kept
<1>4. w = [l EXCEPT !.file = Append(kept, line), !.offset = @ + 1, !.nextSeq = @ + 1,
                    !.acked = Append(@, line)]
  BY DEF WriteLine
<1>5. kept = l.acked
  <2>1. l.acked \in Seq(T)
    BY <1>1, SeqMonotonic
  <2> QED BY <1>1, <1>3, <2>1, SeqEqual
<1> HIDE DEF w, kept, line
<1>6. /\ w.file = Append(l.acked, line) /\ w.acked = Append(l.acked, line)
      /\ w.offset = l.offset + 1 /\ w.nextSeq = l.offset + 2
      /\ w.index = l.index /\ w.available = l.available /\ w.refused = l.refused
  BY <1>1, <1>4, <1>5 DEF LogInv, LogType
<1>7. /\ w.acked \in Seq(LineType) /\ Len(w.acked) = l.offset + 1
      /\ \A i \in 1..l.offset : w.acked[i] = l.acked[i]
      /\ w.acked[l.offset + 1] = line
  BY <1>1, <1>2, <1>6, AppendFacts
<1>8. w.file \in Seq(T)
  BY <1>6, <1>7, SeqMonotonic
<1>9. w \in LogType
  <2>1. w = [file |-> w.file, offset |-> w.offset, nextSeq |-> w.nextSeq, acked |-> w.acked,
             index |-> w.index, available |-> w.available, refused |-> w.refused]
    BY <1>4 DEF LogInv, LogType
  <2>2. w.offset \in Nat /\ w.nextSeq \in Nat \ {0} /\ w.file \in Seq(LineType \union {Torn})
    BY <1>1, <1>6, <1>8 DEF T
  <2>3. w.index \in Seq(LineType) /\ w.available \in BOOLEAN /\ w.refused \in BOOLEAN
    BY <1>6 DEF LogInv, LogType
  <2> HIDE DEF LogInv
  <2> QED BY <2>1, <2>2, <2>3, <1>7 DEF LogType
<1>10. \A i \in 1..Len(w.acked) : w.acked[i].seq = i
  <2>1. ASSUME NEW i \in 1..Len(w.acked) PROVE w.acked[i].seq = i
    <3>1. CASE i = l.offset + 1
      BY <1>2, <1>7, <3>1
    <3>2. CASE i \in 1..l.offset
      BY <1>1, <1>7, <3>2
    <3> QED BY <1>1, <1>7, <3>1, <3>2
  <2> QED BY <2>1
<1>11. Written(w)
  BY <1>1, <1>6, <1>7, <1>10 DEF Written, Begins
<1> QED BY <1>1, <1>2, <1>6, <1>7, <1>9, <1>11 DEF LogInv, Indexed, w, line

(* A record of the engine: what it acknowledges the index holds at once.    *)
LEMMA RecordKeeps ==
    ASSUME NEW l, LogInv(l), NEW e \in EventType, NEW outcome \in Outcomes
    PROVE  LET r == Record(l, e, outcome)
           IN  /\ LogInv(r) /\ Begins(l.index, r.index)
               /\ r.acked = IF outcome = "ok" THEN Append(l.acked, Line(l, e)) ELSE l.acked
               /\ outcome = "ok" => Line(l, e) \in LineType
<1> DEFINE line == Line(l, e)
           w == WriteLine(l, e, outcome)
           r == Record(l, e, outcome)
<1>0. l.index \in Seq(LineType) /\ Begins(l.index, l.index)
  BY SeqFacts DEF LogInv, LogType, Begins
<1>1. CASE outcome # "ok"
  <2>1. outcome \in Faults /\ r = w
    BY <1>1 DEF Outcomes, Record
  <2> QED BY <1>0, <1>1, <2>1, WriteKeeps
<1>2. CASE outcome = "ok"
  <2>1. /\ w \in LogType /\ Written(w) /\ w.acked = Append(l.acked, line) /\ w.file = w.acked
        /\ w.index = l.index /\ w.available /\ ~w.refused
        /\ line \in LineType /\ line.seq = Len(l.acked) + 1
        /\ Len(w.acked) = Len(l.acked) + 1
    BY <1>2, WriteAcks
  <2>2. /\ Len(l.index) \in Nat /\ Len(l.acked) \in Nat /\ l.acked \in Seq(LineType)
        /\ Len(l.index) <= Len(l.acked)
        /\ \A i \in 1..Len(l.index) : l.index[i] = l.acked[i]
        /\ \A i \in 1..Len(l.acked) : l.acked[i].seq = i
    BY SeqFacts DEF LogInv, LogType, Indexed, Written, Begins
  <2>3. LatestSeq(w.index) = Len(l.index)
    <3>1. CASE l.index = <<>>
      BY <2>1, <3>1 DEF LatestSeq
    <3>2. CASE l.index # <<>>
      <4>1. Len(l.index) \in 1..Len(l.index)
        BY <1>0, <2>2, <3>2
      <4>2. l.index[Len(l.index)].seq = Len(l.index)
        BY <2>2, <4>1
      <4> QED BY <2>1, <3>2, <4>2 DEF LatestSeq
    <3> QED BY <3>1, <3>2
  <2>4. r = AcceptAppend(w, line)
    BY <1>2 DEF Record
  <2> HIDE DEF w, line, r
  <2>5. \A i \in 1..Len(l.acked) : w.acked[i] = l.acked[i]
    BY <2>1, <2>2, AppendFacts
  <2>6. w.acked[Len(l.acked) + 1] = line /\ w.acked \in Seq(LineType)
    BY <2>1, <2>2, AppendFacts
  <2>7. ASSUME r = [w EXCEPT !.index = w.acked]
        PROVE  LogInv(r) /\ Begins(l.index, r.index) /\ r.acked = w.acked
    <3>1. /\ r.file = w.file /\ r.offset = w.offset /\ r.nextSeq = w.nextSeq /\ r.acked = w.acked
          /\ r.index = w.acked /\ r.available = w.available /\ r.refused = w.refused
          /\ r \in LogType
      BY <2>1, <2>6, <2>7 DEF LogType
    <3>2. Written(r)
      BY <2>1, <3>1 DEF Written
    <3>3. Indexed(r)
      BY <2>1, <2>2, <3>1 DEF Indexed, Begins
    <3> QED BY <2>1, <2>2, <2>5, <3>1, <3>2, <3>3 DEF LogInv, Begins
  <2>8. r = [w EXCEPT !.index = w.acked]
    <3>1. CASE Len(l.index) = Len(l.acked)
      <4>1. l.index = l.acked
        BY <1>0, <2>2, <3>1, SeqEqual
      <4> QED BY <2>1, <2>2, <2>3, <2>4, <3>1, <4>1 DEF AcceptAppend
    <3>2. CASE Len(l.index) < Len(l.acked)
      <4>1. r = CatchUpFromDisk(w, line)
        BY <2>1, <2>2, <2>3, <2>4, <3>2 DEF AcceptAppend
      <4>2. /\ Len(w.file) \in Nat
            /\ \A i \in 1..Len(w.file) : w.file[i] \in LineType /\ w.file[i].seq = i
        BY <2>1, <2>2, <2>6, SeqFacts DEF Written
      <4>3. ReadableLines(w.file) = Len(w.file) /\ Len(w.file) \in Nat
        <5>1. Readable(w.file, Len(w.file))
          BY <4>2, TornIsNoLine DEF Readable
        <5>2. Len(w.file) \in 0..Len(w.file)
          BY <4>2
        <5> HIDE DEF Written
        <5> QED BY <4>2, <5>1, <5>2, ReadableUnique
      <4>4. ~Corrupt(w.file)
        BY <4>3 DEF Corrupt
      <4>5. \E i \in 1..ReadableLines(w.file) : w.file[i] = line
        BY <2>1, <2>2, <2>6, <4>3
      <4>6. Replay(w.file) = w.file
        BY <2>1, <2>6, <4>3, SubSeqFull DEF Replay
      <4> QED BY <2>1, <4>1, <4>4, <4>5, <4>6 DEF CatchUpFromDisk
    <3> QED BY <2>2, <3>1, <3>2
  <2> QED BY <1>2, <2>1, <2>7, <2>8 DEF r, line
<1> QED BY <1>1, <1>2

LEMMA BeginsTransitive ==
    ASSUME NEW s, NEW t, NEW u, Len(s) \in Nat, Len(t) \in Nat, Len(u) \in Nat,
           Begins(s, t), Begins(t, u)
    PROVE  Begins(s, u)
BY DEF Begins

LEMMA LogLengths ==
    ASSUME NEW l, LogInv(l)
    PROVE  /\ Len(l.index) \in Nat /\ Len(l.acked) \in Nat
           /\ l.index \in Seq(LineType) /\ l.acked \in Seq(LineType)
BY SeqFacts DEF LogInv, LogType

(* Up to three records in a row.                                            *)
LEMMA RecordAllKeeps ==
    ASSUME NEW l, LogInv(l), NEW events \in Seq(EventType), Len(events) \in 1..3,
           NEW outcomes \in [1..Len(events) -> Outcomes]
    PROVE  LET r == RecordAll(l, events, outcomes)
           IN  LogInv(r) /\ Begins(l.index, r.index)
<1> DEFINE one == Record(l, events[1], outcomes[1])
           two == Record(one, events[2], outcomes[2])
           three == Record(two, events[3], outcomes[3])
<1>1. LogInv(one) /\ Begins(l.index, one.index)
  BY RecordKeeps, SeqFacts
<1>2. Len(events) >= 2 => LogInv(two) /\ Begins(l.index, two.index)
  <2>1. HAVE Len(events) >= 2
  <2>2. events[2] \in EventType /\ outcomes[2] \in Outcomes
    BY <2>1, SeqFacts
  <2> HIDE DEF one
  <2>3. LogInv(two) /\ Begins(one.index, two.index)
    BY <1>1, <2>2, RecordKeeps
  <2> HIDE DEF two
  <2> QED BY <1>1, <2>3, BeginsTransitive, LogLengths
<1>3. Len(events) = 3 => LogInv(three) /\ Begins(l.index, three.index)
  <2>1. HAVE Len(events) = 3
  <2>2. events[3] \in EventType /\ outcomes[3] \in Outcomes
    BY <2>1, SeqFacts
  <2>3. LogInv(two) /\ Begins(l.index, two.index)
    BY <1>2, <2>1
  <2> HIDE DEF two
  <2>4. LogInv(three) /\ Begins(two.index, three.index)
    BY <2>2, <2>3, RecordKeeps
  <2> HIDE DEF three
  <2> QED BY <2>3, <2>4, BeginsTransitive, LogLengths
<1> HIDE DEF one
<1>4. RecordAll(l, events, outcomes) \in {one, two, three}
  BY DEF RecordAll, one
<1> QED BY <1>1, <1>2, <1>3 DEF RecordAll, one

(***************************** the page's stream ****************************)
LEMMA AfterCursor ==
    ASSUME NEW index \in Seq(LineType), NEW n \in 0..Len(index),
           \A i \in 1..Len(index) : index[i].seq = i
    PROVE  EventsAfter(index, n) = SubSeq(index, n + 1, Len(index))
<1> DEFINE P(k) == \A i \in 1..Len(index) : index[i].seq > n <=> i > k
<1>1. Len(index) \in Nat
  BY SeqFacts
<1>2. P(n)
  OBVIOUS
<1>3. ASSUME NEW k \in 0..Len(index), P(k) PROVE k = n
  <2>1. CASE k < n
    BY <1>1, <1>3, <2>1, n \in 1..Len(index)
  <2>2. CASE n < k
    BY <1>1, <1>3, <2>2, k \in 1..Len(index)
  <2> QED BY <1>1, <2>1, <2>2
<1> HIDE DEF P
<1>4. (CHOOSE k \in 0..Len(index) : P(k)) = n
  BY <1>2, <1>3
<1> QED BY <1>4 DEF EventsAfter, P

LEMMA IndexNumbered ==
    ASSUME NEW l, LogInv(l)
    PROVE  /\ \A i \in 1..Len(l.index) : l.index[i].seq = i
           /\ LatestSeq(l.index) = Len(l.index)
<1>1. \A i \in 1..Len(l.index) : l.index[i].seq = i
  BY SMTT(20), LogLengths DEF LogInv, Indexed, Written, Begins
<1>2. CASE l.index = <<>>
  BY <1>2 DEF LatestSeq
<1>3. CASE l.index # <<>>
  <2>1. Len(l.index) \in 1..Len(l.index)
    BY <1>3, LogLengths
  <2> QED BY <1>1, <1>3, <2>1 DEF LatestSeq
<1> QED BY <1>1, <1>2, <1>3

LEMMA StreamGrows ==
    ASSUME NEW seen \in Seq(LineType), NEW wire \in Seq(LineType), NEW sent \in Nat,
           NEW old \in Seq(LineType), NEW index \in Seq(LineType),
           StreamAt(seen, wire, sent, old), Begins(old, index)
    PROVE  StreamAt(seen, wire, sent, index)
<1>1. \A i \in 1..Len(wire) : Len(seen) + i \in 1..Len(old)
  BY SeqFacts DEF StreamAt
<1> QED BY <1>1, SeqFacts DEF StreamAt, Begins

LEMMA StreamDrains ==
    ASSUME NEW seen \in Seq(LineType), NEW wire \in Seq(LineType), NEW sent \in Nat,
           NEW index \in Seq(LineType), StreamAt(seen, wire, sent, index),
           \A i \in 1..Len(index) : index[i].seq = i
    PROVE  /\ wire \o EventsAfter(index, sent) \in Seq(LineType)
           /\ StreamAt(seen, wire \o EventsAfter(index, sent), Len(index), index)
<1>1. PICK more : more = EventsAfter(index, sent)
  OBVIOUS
<1>2. /\ Len(seen) \in Nat /\ Len(wire) \in Nat /\ Len(index) \in Nat
      /\ sent = Len(seen) + Len(wire) /\ sent \in 0..Len(index)
      /\ \A i \in 1..Len(wire) : wire[i] = index[Len(seen) + i]
  BY SeqFacts DEF StreamAt
<1>3. more = SubSeq(index, sent + 1, Len(index))
  BY <1>1, <1>2, AfterCursor
<1>4. /\ more \in Seq(LineType) /\ Len(more) = Len(index) - sent
      /\ \A i \in 1..Len(more) : more[i] = index[sent + i]
  BY <1>2, <1>3
<1>5. PICK w : w = wire \o more
  OBVIOUS
<1>6. /\ w \in Seq(LineType) /\ Len(w) = Len(wire) + Len(more)
      /\ \A i \in 1..(Len(wire) + Len(more)) :
            w[i] = IF i <= Len(wire) THEN wire[i] ELSE more[i - Len(wire)]
  BY <1>4, <1>5, ConcatProperties
<1>7. \A i \in 1..Len(w) : w[i] = index[Len(seen) + i]
  <2>1. ASSUME NEW i \in 1..Len(w) PROVE w[i] = index[Len(seen) + i]
    <3>1. CASE i <= Len(wire)
      BY <1>2, <1>4, <1>6, <3>1
    <3>2. CASE i > Len(wire)
      <4>1. i - Len(wire) \in 1..Len(more)
        BY <1>2, <1>4, <1>6, <3>2
      <4>2. more[i - Len(wire)] = index[sent + (i - Len(wire))]
        BY <1>4, <4>1
      <4>3. sent + (i - Len(wire)) = Len(seen) + i
        BY <1>2
      <4> QED BY <1>2, <1>4, <1>6, <3>2, <4>2, <4>3
    <3> QED BY <1>2, <3>1, <3>2
  <2> QED BY <2>1
<1>8. Len(index) = Len(seen) + Len(w)
  BY <1>2, <1>4, <1>6
<1>9. StreamAt(seen, w, Len(index), index)
  BY <1>2, <1>7, <1>8 DEF StreamAt
<1>10. w = wire \o EventsAfter(index, sent)
  BY <1>1, <1>5
<1> QED BY <1>6, <1>9, <1>10

LEMMA StreamDelivers ==
    ASSUME NEW seen \in Seq(LineType), NEW wire \in Seq(LineType), wire # <<>>, NEW sent \in Nat,
           NEW index \in Seq(LineType), StreamAt(seen, wire, sent, index), Begins(seen, index),
           \A i \in 1..Len(index) : index[i].seq = i
    PROVE  /\ Append(seen, wire[1]) \in Seq(LineType) /\ Tail(wire) \in Seq(LineType)
           /\ Len(Append(seen, wire[1])) = Len(seen) + 1 /\ wire[1].seq = Len(seen) + 1
           /\ Begins(Append(seen, wire[1]), index)
           /\ StreamAt(Append(seen, wire[1]), Tail(wire), sent, index)
<1>1. /\ Len(seen) \in Nat /\ Len(wire) \in Nat /\ Len(index) \in Nat /\ Len(wire) >= 1
      /\ sent = Len(seen) + Len(wire) /\ sent <= Len(index)
      /\ \A i \in 1..Len(wire) : wire[i] = index[Len(seen) + i]
  <2>1. Len(seen) \in Nat /\ Len(wire) \in Nat /\ Len(index) \in Nat
    OBVIOUS
  <2>2. Len(wire) >= 1
    BY <2>1, EmptySeq
  <2>3. /\ sent = Len(seen) + Len(wire) /\ sent <= Len(index)
        /\ \A i \in 1..Len(wire) : wire[i] = index[Len(seen) + i]
    BY DEF StreamAt
  <2> QED BY <2>1, <2>2, <2>3
<1>2. wire[1] = index[Len(seen) + 1] /\ wire[1] \in LineType /\ wire[1].seq = Len(seen) + 1
  BY <1>1
<1>3. PICK s, t : s = Append(seen, wire[1]) /\ t = Tail(wire)
  OBVIOUS
<1>4. /\ s \in Seq(LineType) /\ Len(s) = Len(seen) + 1 /\ s[Len(seen) + 1] = wire[1]
      /\ \A i \in 1..Len(seen) : s[i] = seen[i]
  BY <1>2, <1>3, AppendFacts
<1>5. /\ t \in Seq(LineType) /\ Len(t) = Len(wire) - 1
      /\ \A i \in 1..Len(t) : t[i] = wire[i + 1]
  BY <1>3, HeadTailProperties
<1>6. Begins(s, index)
  <2>1. ASSUME NEW i \in 1..Len(s) PROVE s[i] = index[i]
    <3>1. CASE i = Len(seen) + 1
      BY <1>2, <1>4, <3>1
    <3>2. CASE i \in 1..Len(seen)
      BY <1>4, <3>2 DEF Begins
    <3> QED BY <1>1, <1>4, <3>1, <3>2
  <2>2. Len(s) <= Len(index)
    BY <1>1, <1>4
  <2> QED BY <2>1, <2>2 DEF Begins
<1>7. StreamAt(s, t, sent, index)
  <2>1. ASSUME NEW i \in 1..Len(t) PROVE t[i] = index[Len(s) + i]
    <3>1. t[i] = wire[i + 1] /\ i + 1 \in 1..Len(wire)
      BY <1>1, <1>5
    <3>2. Len(seen) + (i + 1) = Len(s) + i
      BY <1>1, <1>4
    <3> QED BY <1>1, <3>1, <3>2
  <2>2. sent = Len(s) + Len(t)
    BY <1>1, <1>4, <1>5
  <2> QED BY <1>1, <2>1, <2>2 DEF StreamAt
<1> QED BY <1>2, <1>3, <1>4, <1>5, <1>6, <1>7

LEMMA InStreamGrows ==
    ASSUME NEW p, PageShape(p), NEW old \in Seq(LineType), NEW index \in Seq(LineType),
           InStream(p, old), Begins(old, index)
    PROVE  InStream(p, index)
<1>1. /\ p.seen \in Seq(LineType) /\ p.wire \in Seq(LineType) /\ p.boot \in Seq(LineType)
      /\ p.sent \in Nat
  BY DEF PageShape
<1>2. /\ Begins(p.seen, index)
      /\ p.phase = "answered" => Begins(p.boot, index)
  BY <1>1, SeqFacts, BeginsTransitive DEF InStream
<1>3. p.phase = "open" => StreamAt(p.seen, p.wire, p.sent, index)
  BY <1>1, StreamGrows DEF InStream
<1> QED BY <1>2, <1>3 DEF InStream

LEMMA DrainedKeeps ==
    ASSUME NEW p, PageShape(p), NEW index \in Seq(LineType), InStream(p, index),
           \A i \in 1..Len(index) : index[i].seq = i, LatestSeq(index) = Len(index)
    PROVE  /\ PageShape(Drained(p, index)) /\ InStream(Drained(p, index), index)
           /\ Drained(p, index).seen = p.seen
<1>1. CASE p.phase # "open"
  BY <1>1 DEF Drained
<1>2. CASE p.phase = "open"
  <2>1. PICK wire : wire = p.wire \o EventsAfter(index, p.sent)
    OBVIOUS
  <2>2. wire \in Seq(LineType) /\ StreamAt(p.seen, wire, Len(index), index) /\ Len(index) \in Nat
    BY <1>2, <2>1, StreamDrains, SeqFacts DEF PageShape, InStream
  <2>3. PICK q : q = Drained(p, index)
    OBVIOUS
  <2>4. q = [p EXCEPT !.wire = wire, !.sent = Len(index)]
    BY <1>2, <2>1, <2>3 DEF Drained
  <2>5. /\ q.phase = "open" /\ q.boot = p.boot /\ q.seen = p.seen /\ q.cursor = p.cursor
        /\ q.cards = p.cards /\ q.wire = wire /\ q.sent = Len(index)
        /\ q = [phase |-> q.phase, boot |-> q.boot, seen |-> q.seen, cursor |-> q.cursor,
                cards |-> q.cards, wire |-> q.wire, sent |-> q.sent]
    BY <1>2, <2>4 DEF PageShape
  <2>6. PageShape(q)
    BY <2>2, <2>5 DEF PageShape, Phases
  <2>7. InStream(q, index)
    BY <1>2, <2>2, <2>5 DEF InStream
  <2> QED BY <2>3, <2>5, <2>6, <2>7
<1> QED BY <1>1, <1>2

(****************************** the log and its page ************************)
Safe == LogInv(log) /\ PageInv /\ Waiting

LEMMA EventTyped ==
    /\ \A t \in Types, r \in Requests \union {NULL} : Event(t, r) \in EventType
BY DEF Event, EventType

LEMMA EmitKeeps ==
    ASSUME Safe, NEW events \in Seq(EventType), Len(events) \in 1..3, Emit(events)
    PROVE  /\ LogInv(log') /\ Begins(log.index, log'.index)
           /\ PageShape(page') /\ InStream(page', log'.index) /\ page'.seen = page.seen
<1>1. PICK outcomes \in [1..Len(events) -> Outcomes] :
          log' = RecordAll(log, events, outcomes) /\ page' = Drained(page, log'.index)
  BY DEF Emit
<1>2. LogInv(log') /\ Begins(log.index, log'.index)
  BY <1>1, RecordAllKeeps DEF Safe
<1>3. log.index \in Seq(LineType) /\ log'.index \in Seq(LineType)
  BY <1>2, LogLengths DEF Safe
<1>4. InStream(page, log'.index)
  BY <1>2, <1>3, InStreamGrows DEF Safe, PageInv
<1> QED BY <1>1, <1>2, <1>3, <1>4, DrainedKeeps, IndexNumbered DEF Safe, PageInv

LEMMA AsideKeeps ==
    ASSUME Safe, NEW outcome \in Outcomes, NEW e \in EventType,
           log' = WriteLine(log, e, outcome), e.type = "artifact.written"
    PROVE  LogInv(log') /\ log'.index = log.index
<1>1. CASE outcome \in Faults
  BY <1>1, WriteKeeps DEF Safe
<1>2. CASE outcome = "ok"
  <2>1. /\ log' \in LogType /\ Written(log') /\ log'.acked = Append(log.acked, Line(log, e))
        /\ log'.index = log.index /\ log'.available /\ ~log'.refused
        /\ Line(log, e) \in LineType
    BY <1>2, WriteAcks DEF Safe
  <2>2. Line(log, e).type = "artifact.written"
    BY DEF Line
  <2>3. /\ Len(log.acked) \in Nat /\ Len(log.index) \in Nat /\ Len(log'.acked) = Len(log.acked) + 1
        /\ \A i \in 1..Len(log.acked) : log'.acked[i] = log.acked[i]
        /\ log'.acked[Len(log.acked) + 1] = Line(log, e)
    BY <2>1, AppendFacts, LogLengths DEF Safe
  <2>4. Indexed(log')
    <3>1. Begins(log'.index, log'.acked)
      BY <2>1, <2>3 DEF Safe, LogInv, Indexed, Begins
    <3>2. ASSUME NEW i \in (Len(log.index) + 1)..Len(log'.acked)
          PROVE  log'.acked[i].type = "artifact.written"
      <4>1. CASE i = Len(log.acked) + 1
        BY <2>2, <2>3, <4>1
      <4>2. CASE i \in (Len(log.index) + 1)..Len(log.acked)
        <5>1. log.acked[i].type = "artifact.written" /\ i \in 1..Len(log.acked)
          BY <2>3, <4>2 DEF Safe, LogInv, Indexed
        <5> QED BY <2>3, <5>1
      <4> QED BY <2>3, <4>1, <4>2
    <3> QED BY <2>1, <3>1, <3>2 DEF Indexed
  <2> QED BY <2>1, <2>4 DEF LogInv
<1> QED BY <1>1, <1>2 DEF Outcomes

(* How a step looks to who follows the abstract stream.                     *)
LEMMA Published ==
    ASSUME Safe, NEW events \in Seq(EventType), Len(events) \in 1..3, Emit(events),
           up' = up, Waiting'
    PROVE  Safe' /\ [Stream!Next]_(Stream!vars)
<1>1. /\ LogInv(log') /\ Begins(log.index, log'.index)
      /\ PageShape(page') /\ InStream(page', log'.index) /\ page'.seen = page.seen
  BY EmitKeeps
<1>2. IsPrefix(log.index, log'.index)
  BY <1>1, LogLengths, BeginsIsPrefix DEF Safe
<1>3. Stream!Publish
  BY <1>1, <1>2 DEF Stream!Publish, Stream!IsPrefix, IsPrefix
<1> QED BY <1>1, <1>3 DEF Safe, PageInv, Stream!Next

LEMMA Unseen ==
    ASSUME Safe, UNCHANGED <<log, up>>, Waiting', PageShape(page'), InStream(page', log.index),
           page'.seen = page.seen
    PROVE  Safe' /\ [Stream!Next]_(Stream!vars)
<1>1. UNCHANGED Stream!vars
  BY DEF Stream!vars
<1> QED BY <1>1 DEF Safe, PageInv

LEMMA Started ==
    ASSUME Safe, UNCHANGED <<log, up>>, Waiting', PageShape(page'), InStream(page', log.index),
           page'.seen = <<>>
    PROVE  Safe' /\ [Stream!Next]_(Stream!vars)
<1>1. [f \in {"page"} |-> page'.seen] = [[f \in {"page"} |-> page.seen] EXCEPT !["page"] = <<>>]
  OBVIOUS
<1>2. Stream!StartAgain("page")
  BY <1>1 DEF Stream!StartAgain
<1> QED BY <1>2 DEF Safe, PageInv, Stream!Next

LEMMA Advanced ==
    ASSUME Safe, UNCHANGED <<log, up>>, Waiting', PageShape(page'), InStream(page', log.index),
           Len(page.seen) < Len(page'.seen)
    PROVE  Safe' /\ [Stream!Next]_(Stream!vars)
<1>1. PICK s, n : s = page'.seen /\ n = Len(s)
  OBVIOUS
<1>2. s \in Seq(LineType) /\ Begins(s, log.index) /\ log.index \in Seq(LineType)
  BY <1>1, LogLengths DEF PageShape, InStream, Safe
<1>3. s = SubSeq(log.index, 1, n)
  BY <1>1, <1>2, BeginsIsPrefix
<1>4. Len(page.seen) \in Nat /\ n \in Nat /\ Len(log.index) \in Nat
  BY <1>1, <1>2, SeqFacts DEF Safe, PageInv, PageShape
<1>5. PICK m : m = Len(page.seen)
  OBVIOUS
<1>6. n \in (m + 1)..Len(log.index)
  BY <1>1, <1>2, <1>4, <1>5 DEF Begins
<1>7. [f \in {"page"} |-> page'.seen]
        = [[f \in {"page"} |-> page.seen] EXCEPT !["page"] = SubSeq(log.index, 1, n)]
  BY <1>1, <1>3
<1>8. Stream!Advance("page")
  BY <1>5, <1>6, <1>7 DEF Stream!Advance
<1> QED BY <1>8 DEF Safe, PageInv, Stream!Next

LEMMA SafeInit == Init => Safe /\ Stream!Init
<1> SUFFICES ASSUME Init PROVE Safe /\ Stream!Init
  OBVIOUS
<1> USE RunEventsAssumption
<1>1. LogInv(log)
  BY DEF Init, EmptyLog, LogInv, LogType, Written, Indexed, Begins
<1>2. PageInv
  BY DEF Init, PageInv, PageShape, InStream, Phases, Begins, EmptyLog
<1>3. Waiting
  BY DEF Init, Waiting
<1>4. Stream!Init
  BY DEF Init, Stream!Init, EmptyLog
<1> QED BY <1>1, <1>2, <1>3, <1>4 DEF Safe

LEMMA EventLists ==
    ASSUME NEW a \in EventType, NEW b \in EventType, NEW c \in EventType
    PROVE  /\ <<a>> \in Seq(EventType) /\ Len(<<a>>) \in 1..3
           /\ <<a, b>> \in Seq(EventType) /\ Len(<<a, b>>) \in 1..3
           /\ <<a, b, c>> \in Seq(EventType) /\ Len(<<a, b, c>>) \in 1..3
OBVIOUS

LEMMA PostTyped ==
    ASSUME Safe, NEW post \in posts
    PROVE  /\ post.req \in Requests
           /\ \A stage \in {"sent", "queued", "committed", "ok"} :
                 At(post, stage) \subseteq [id : Nat, req : Requests, mine : BOOLEAN,
                                           stage : {"sent", "queued", "committed", "ok"}]
BY DEF Safe, Waiting, At

LEMMA RunStep ==
    ASSUME Safe, NEW r \in Requests, Ask(r) \/ AskAgain(r) \/ Settle(r) \/ Post(r)
    PROVE  Safe' /\ [Stream!Next]_(Stream!vars)
<1>1. CASE Ask(r)
  <2> DEFINE replaced == IF r \in Questions THEN parked \intersect Questions ELSE {}
             declined == CHOOSE q \in replaced : TRUE
  <2>1. Waiting' /\ up' = up
    BY <1>1 DEF Ask, Safe, Waiting, postVars
  <2>2. Event("request.created", r) \in EventType
    BY EventTyped DEF Types
  <2>3. CASE replaced = {}
    <3>1. Emit(<<Event("request.created", r)>>)
      BY <1>1, <2>3 DEF Ask
    <3> QED BY <2>1, <2>2, <3>1, EventLists, Published
  <2>4. CASE replaced # {}
    <3>1. declined \in replaced
      BY <2>4
    <3>2. declined \in Requests
      BY <3>1 DEF Safe, Waiting
    <3> HIDE DEF declined
    <3>3. Event("request.resolved", declined) \in EventType
      BY <3>2, EventTyped DEF Types
    <3>4. Emit(<<Event("request.created", r), Event("request.resolved", declined)>>)
      BY <1>1, <2>4 DEF Ask, declined
    <3> QED BY <2>1, <2>2, <3>3, <3>4, EventLists, Published
  <2> QED BY <2>3, <2>4
<1>2. CASE Settle(r)
  <2>1. Waiting' /\ up' = up
    BY <1>2 DEF Settle, Safe, Waiting, postVars
  <2>2. Event("request.resolved", r) \in EventType
    BY EventTyped DEF Types
  <2> QED BY <1>2, <2>1, <2>2, EventLists, Published DEF Settle
<1>3. CASE Post(r)
  <2>1. Waiting'
    <3>1. posted' \in Nat /\ UNCHANGED <<asked, parked>>
      BY <1>3 DEF Post, Safe, Waiting, runVars
    <3>2. PICK n : n = posted'
      OBVIOUS
    <3>3. posts' = posts \union {[id |-> n, req |-> r, stage |-> "sent", mine |-> TRUE]}
      BY <1>3, <3>2 DEF Post
    <3>4. [id |-> n, req |-> r, stage |-> "sent", mine |-> TRUE]
            \in [id : Nat, req : Requests, mine : BOOLEAN, stage : {"sent", "queued", "committed", "ok"}]
      BY <3>1, <3>2
    <3> QED BY <3>1, <3>3, <3>4 DEF Safe, Waiting
  <2> QED BY <1>3, <2>1, Unseen DEF Post, Safe, PageInv, logVars
<1>4. CASE AskAgain(r)
  <2>1. Waiting' /\ up' = up
    BY <1>4 DEF AskAgain, Safe, Waiting, runVars, postVars
  <2>2. Event("request.created", r) \in EventType
    BY EventTyped DEF Types
  <2> QED BY <1>4, <2>1, <2>2, EventLists, Published DEF AskAgain
<1> QED BY <1>1, <1>2, <1>3, <1>4

LEMMA MilestoneStep ==
    ASSUME Safe, Boundary \/ End
    PROVE  Safe' /\ [Stream!Next]_(Stream!vars)
<1>1. CASE Boundary
  <2>1. Waiting' /\ up' = up
    BY <1>1 DEF Boundary, Safe, Waiting, postVars, runVars
  <2>2. Event("fresh_clear.boundary", NULL) \in EventType
    BY EventTyped DEF Types
  <2> QED BY <1>1, <2>1, <2>2, EventLists, Published DEF Boundary
<1>2. CASE End
  <2>1. Waiting' /\ up' = up
    BY <1>2 DEF End, Safe, Waiting, postVars
  <2>2. Event("run.ended", NULL) \in EventType
    BY EventTyped DEF Types
  <2> QED BY <1>2, <2>1, <2>2, EventLists, Published DEF End
<1> QED BY <1>1, <1>2

LEMMA ReplyStep ==
    ASSUME Safe, NEW post \in posts, Replies(post)
    PROVE  Safe' /\ [Stream!Next]_(Stream!vars)
<1>0. /\ post.req \in Requests
      /\ \A t \in Types : Event(t, post.req) \in EventType
  BY PostTyped, EventTyped
<1>1. CASE AcceptReply(post)
  <2>1. Waiting' /\ up' = up
    BY <1>1, PostTyped DEF AcceptReply, Safe, Waiting
  <2>2. /\ Event("reply.submitted", post.req) \in EventType
        /\ Event("request.resolved", post.req) \in EventType
        /\ Event("reply.accepted", post.req) \in EventType
    BY <1>0 DEF Types
  <2>3. Emit(<<Event("reply.submitted", post.req), Event("request.resolved", post.req),
               Event("reply.accepted", post.req)>>)
    BY <1>1 DEF AcceptReply
  <2> QED BY <2>1, <2>2, <2>3, EventLists, Published
<1>2. CASE RefuseReply(post)
  <2>1. Waiting' /\ up' = up
    BY <1>2 DEF RefuseReply, Safe, Waiting, runVars
  <2>2. /\ Event("reply.submitted", post.req) \in EventType
        /\ Event("reply.refused", post.req) \in EventType
    BY <1>0 DEF Types
  <2>3. Emit(<<Event("reply.submitted", post.req), Event("reply.refused", post.req)>>)
    BY <1>2 DEF RefuseReply
  <2> QED BY <2>1, <2>2, <2>3, EventLists, Published
<1>3. CASE QueueChoice(post)
  <2>1. Waiting' /\ up' = up
    BY <1>3, PostTyped DEF QueueChoice, Safe, Waiting, runVars
  <2>2. Event("reply.submitted", post.req) \in EventType
    BY <1>0 DEF Types
  <2> QED BY <1>3, <2>1, <2>2, EventLists, Published DEF QueueChoice
<1>4. CASE CommitChoice(post)
  <2>1. Waiting' /\ UNCHANGED <<log, up, page>>
    BY <1>4, PostTyped DEF CommitChoice, Safe, Waiting, logVars
  <2> QED BY <2>1, Unseen DEF Safe, PageInv
<1>7. CASE AnswerChoice(post)
  <2>1. Waiting' /\ up' = up
    BY <1>7, PostTyped DEF AnswerChoice, Safe, Waiting, runVars
  <2>2. Event("reply.accepted", post.req) \in EventType
    BY <1>0 DEF Types
  <2> QED BY <1>7, <2>1, <2>2, EventLists, Published DEF AnswerChoice
<1>5. CASE RefuseChoice(post)
  <2>1. Waiting' /\ up' = up
    BY <1>5 DEF RefuseChoice, Safe, Waiting, runVars
  <2>2. Event("reply.refused", post.req) \in EventType
    BY <1>0 DEF Types
  <2> QED BY <1>5, <2>1, <2>2, EventLists, Published DEF RefuseChoice
<1>6. CASE Hear(post)
  <2>1. Waiting' /\ UNCHANGED <<log, up>>
    BY <1>6 DEF Hear, Safe, Waiting, logVars, runVars
  <2>2. \E cards : page' = [page EXCEPT !.cards = cards]
    <3>1. CASE ~post.mine
      <4>1. page' = page /\ page = [page EXCEPT !.cards = page.cards]
        BY <1>6, <3>1 DEF Hear, Safe, PageInv, PageShape
      <4> QED BY <4>1
    <3>2. CASE post.mine /\ post.req \in Questions
      BY <1>6, <3>2 DEF Hear
    <3>3. CASE post.mine /\ post.req \notin Questions
      BY <1>6, <3>3 DEF Hear
    <3> QED BY <3>1, <3>2, <3>3
  <2>3. /\ PageShape(page') /\ page'.seen = page.seen /\ page'.phase = page.phase
        /\ page'.wire = page.wire /\ page'.boot = page.boot /\ page'.sent = page.sent
        /\ page'.cursor = page.cursor
    BY <2>2 DEF Safe, PageInv, PageShape
  <2>4. InStream(page', log.index)
    BY <2>3 DEF Safe, PageInv, InStream
  <2> QED BY <2>1, <2>3, <2>4, Unseen
<1> QED BY <1>1, <1>2, <1>3, <1>4, <1>5, <1>6, <1>7 DEF Replies

LEMMA PageStep ==
    ASSUME Safe, AnswerBootstrap \/ Hydrate \/ Connect \/ Receive \/ BreakConnection \/ Reload
    PROVE  Safe' /\ [Stream!Next]_(Stream!vars)
<1>0. /\ log.index \in Seq(LineType) /\ Begins(log.index, log.index) /\ Begins(<<>>, log.index)
      /\ \A i \in 1..Len(log.index) : log.index[i].seq = i
      /\ LatestSeq(log.index) = Len(log.index) /\ Len(log.index) \in Nat
      /\ <<>> \in Seq(LineType) /\ Len(<<>>) = 0
  BY LogLengths, IndexNumbered DEF Safe, Begins
<1>1. CASE AnswerBootstrap
  <2>1. Waiting' /\ UNCHANGED <<log, up>>
    BY <1>1 DEF AnswerBootstrap, Safe, Waiting, logVars, runVars, postVars
  <2>2. /\ page.phase = "loading" /\ page'.phase = "answered" /\ page'.boot = log.index
        /\ page'.seen = page.seen /\ page'.wire = page.wire /\ PageShape(page')
    BY <1>0, <1>1 DEF AnswerBootstrap, Safe, PageInv, PageShape, Phases
  <2>3. InStream(page', log.index)
    BY <1>0, <2>2 DEF Safe, PageInv, InStream
  <2> QED BY <2>1, <2>2, <2>3, Unseen
<1>2. CASE Hydrate
  <2>1. Waiting' /\ UNCHANGED <<log, up>>
    BY <1>2 DEF Hydrate, Safe, Waiting, logVars, runVars, postVars
  <2>2. /\ page.phase = "answered" /\ page.seen = <<>> /\ page.wire = <<>>
        /\ Begins(page.boot, log.index) /\ page.boot \in Seq(LineType) /\ page.sent \in Nat
    BY <1>2 DEF Hydrate, Safe, PageInv, PageShape, InStream
  <2>3. PICK boot, cards : boot = page.boot /\ cards = BootstrapCards(boot)
    OBVIOUS
  <2>4. Len(boot) \in Nat /\ LatestSeq(boot) = Len(boot)
    <3>1. \A i \in 1..Len(boot) : boot[i].seq = i
      BY <1>0, <2>2, <2>3, SeqFacts DEF Begins
    <3> QED BY <2>2, <2>3, <3>1, EmptySeq DEF LatestSeq
  <2>5. page' = [page EXCEPT !.phase = "connecting", !.boot = <<>>, !.seen = boot,
                             !.cursor = Len(boot), !.cards = cards]
    BY <1>2, <2>3, <2>4 DEF Hydrate
  <2>6. /\ page'.phase = "connecting" /\ page'.boot = <<>> /\ page'.seen = boot
        /\ page'.cursor = Len(boot) /\ page'.wire = <<>> /\ page'.sent = page.sent
        /\ page'.cards = cards
        /\ page' = [phase |-> page'.phase, boot |-> page'.boot, seen |-> page'.seen,
                    cursor |-> page'.cursor, cards |-> page'.cards, wire |-> page'.wire,
                    sent |-> page'.sent]
    BY <2>2, <2>5 DEF Safe, PageInv, PageShape
  <2>7. PageShape(page') /\ InStream(page', log.index)
    BY <1>0, <2>2, <2>3, <2>4, <2>6 DEF PageShape, InStream, Phases
  <2>8. CASE boot = <<>>
    BY <2>1, <2>2, <2>6, <2>7, <2>8, Unseen
  <2>9. CASE boot # <<>>
    <3>1. Len(page.seen) < Len(page'.seen)
      BY <2>2, <2>3, <2>4, <2>6, <2>9, EmptySeq
    <3> QED BY <2>1, <2>7, <3>1, Advanced
  <2> QED BY <2>8, <2>9
<1>3. CASE Connect
  <2>1. Waiting' /\ UNCHANGED <<log, up>>
    BY <1>3 DEF Connect, Safe, Waiting, logVars, runVars, postVars
  <2>2. PICK p : p = [page EXCEPT !.phase = "open", !.sent = page.cursor]
    OBVIOUS
  <2>3. page.phase = "connecting" /\ page' = Drained(p, log.index)
    BY <1>3, <2>2 DEF Connect
  <2>4. /\ p.phase = "open" /\ p.sent = page.cursor /\ p.seen = page.seen /\ p.wire = page.wire
        /\ p.boot = page.boot /\ p.cursor = page.cursor /\ p.cards = page.cards
        /\ p = [phase |-> p.phase, boot |-> p.boot, seen |-> p.seen, cursor |-> p.cursor,
                cards |-> p.cards, wire |-> p.wire, sent |-> p.sent]
    BY <2>2 DEF Safe, PageInv, PageShape
  <2>5. PageShape(p)
    BY <2>4 DEF Safe, PageInv, PageShape, Phases
  <2>6. /\ Begins(p.seen, log.index) /\ p.wire = <<>> /\ p.cursor = Len(p.seen)
    BY <2>3, <2>4 DEF Safe, PageInv, InStream
  <2>7. PICK seen, wire : seen = p.seen /\ wire = p.wire
    OBVIOUS
  <2>8. StreamAt(seen, wire, Len(seen), log.index)
    <3>1. Len(seen) \in Nat
      BY <2>5, <2>7, SeqFacts DEF PageShape
    <3> QED BY <1>0, <2>6, <2>7, <3>1 DEF StreamAt, Begins
  <2>9. InStream(p, log.index)
    BY <2>4, <2>6, <2>7, <2>8 DEF InStream
  <2>10. PageShape(page') /\ InStream(page', log.index) /\ page'.seen = page.seen
    BY <1>0, <2>3, <2>4, <2>5, <2>9, DrainedKeeps
  <2> QED BY <2>1, <2>10, Unseen
<1>4. CASE Receive
  <2>1. Waiting' /\ UNCHANGED <<log, up>>
    BY <1>4 DEF Receive, Safe, Waiting, logVars, runVars, postVars
  <2>2. PICK seen, wire, sent, cards : /\ seen = page.seen /\ wire = page.wire /\ sent = page.sent
                                       /\ cards = ApplyEvent(page.cards, page.wire[1])
    OBVIOUS
  <2>3. /\ seen \in Seq(LineType) /\ wire \in Seq(LineType) /\ wire # <<>> /\ sent \in Nat
        /\ page.phase = "open" /\ Begins(seen, log.index) /\ StreamAt(seen, wire, sent, log.index)
    BY <1>4, <2>2 DEF Receive, Safe, PageInv, PageShape, InStream
  <2>4. PICK s, t : s = Append(seen, wire[1]) /\ t = Tail(wire)
    OBVIOUS
  <2>5. /\ s \in Seq(LineType) /\ t \in Seq(LineType) /\ Len(s) = Len(seen) + 1
        /\ wire[1].seq = Len(s) /\ Begins(s, log.index) /\ StreamAt(s, t, sent, log.index)
    <3>1. PICK index : index = log.index
      OBVIOUS
    <3>2. /\ index \in Seq(LineType) /\ Begins(seen, index) /\ StreamAt(seen, wire, sent, index)
          /\ \A i \in 1..Len(index) : index[i].seq = i
      BY <1>0, <2>3, <3>1
    <3>3. /\ Append(seen, wire[1]) \in Seq(LineType) /\ Tail(wire) \in Seq(LineType)
          /\ Len(Append(seen, wire[1])) = Len(seen) + 1 /\ wire[1].seq = Len(seen) + 1
          /\ Begins(Append(seen, wire[1]), index)
          /\ StreamAt(Append(seen, wire[1]), Tail(wire), sent, index)
      BY <2>3, <3>2, StreamDelivers
    <3> QED BY <2>4, <3>1, <3>3
  <2>6. page' = [page EXCEPT !.wire = t, !.seen = s, !.cursor = wire[1].seq, !.cards = cards]
    BY <1>4, <2>2, <2>4 DEF Receive
  <2>7. /\ page'.phase = "open" /\ page'.boot = page.boot /\ page'.seen = s
        /\ page'.cursor = wire[1].seq /\ page'.wire = t /\ page'.sent = sent
        /\ page' = [phase |-> page'.phase, boot |-> page'.boot, seen |-> page'.seen,
                    cursor |-> page'.cursor, cards |-> page'.cards, wire |-> page'.wire,
                    sent |-> page'.sent]
    BY <2>2, <2>3, <2>6 DEF Safe, PageInv, PageShape
  <2>8. page'.boot \in Seq(LineType) /\ Len(s) \in Nat
    BY <2>5, <2>7, SeqFacts DEF Safe, PageInv, PageShape
  <2>9. PageShape(page') /\ InStream(page', log.index)
    BY <2>3, <2>5, <2>7, <2>8 DEF PageShape, InStream, Phases
  <2>10. Len(page.seen) < Len(page'.seen)
    BY <2>2, <2>3, <2>5, <2>7, SeqFacts
  <2> QED BY <2>1, <2>9, <2>10, Advanced
<1>5. CASE BreakConnection
  <2>1. Waiting' /\ UNCHANGED <<log, up>>
    BY <1>5 DEF BreakConnection, Safe, Waiting, logVars, runVars, postVars
  <2>2. /\ page'.phase = "connecting" /\ page'.wire = <<>> /\ page'.seen = page.seen
        /\ page'.cursor = page.cursor /\ PageShape(page') /\ page.phase = "open"
    BY <1>0, <1>5 DEF BreakConnection, Disconnected, Safe, PageInv, PageShape, Phases
  <2>3. InStream(page', log.index)
    BY <2>2 DEF Safe, PageInv, InStream
  <2> QED BY <2>1, <2>2, <2>3, Unseen
<1>6. CASE Reload
  <2>1. UNCHANGED <<log, up>>
    BY <1>6 DEF Reload, logVars
  <2>2. Waiting'
    <3>1. \A post \in posts : [post EXCEPT !.mine = FALSE]
              \in [id : Nat, req : Requests, mine : BOOLEAN, stage : {"sent", "queued", "committed", "ok"}]
      BY DEF Safe, Waiting
    <3>2. posts' = {[post EXCEPT !.mine = FALSE] : post \in posts}
          /\ UNCHANGED <<asked, parked, posted>>
      BY <1>6 DEF Reload, runVars
    <3> QED BY <3>1, <3>2 DEF Safe, Waiting
  <2>3. /\ page'.phase = "loading" /\ page'.wire = <<>> /\ page'.seen = <<>> /\ PageShape(page')
    BY <1>0, <1>6 DEF Reload, Disconnected, Safe, PageInv, PageShape, Phases
  <2>4. InStream(page', log.index)
    BY <1>0, <2>3 DEF InStream
  <2> QED BY <2>1, <2>2, <2>3, <2>4, Started
<1> QED BY <1>1, <1>2, <1>3, <1>4, <1>5, <1>6

LEMMA LogStep ==
    ASSUME Safe, WriteArtifact \/ Crash \/ CloseServer
    PROVE  Safe' /\ [Stream!Next]_(Stream!vars)
<1>0. Event("artifact.written", NULL) \in EventType /\ Event("artifact.written", NULL).type = "artifact.written"
  BY EventTyped DEF Types, Event
<1>1. CASE WriteArtifact
  <2>1. Waiting' /\ UNCHANGED <<page, up>>
    BY <1>1 DEF WriteArtifact, Safe, Waiting, runVars, postVars
  <2>2. LogInv(log') /\ log'.index = log.index
    BY <1>0, <1>1, AsideKeeps DEF WriteArtifact, RecordAside
  <2>3. UNCHANGED Stream!vars
    BY <2>1, <2>2 DEF Stream!vars
  <2> QED BY <2>1, <2>2, <2>3 DEF Safe, PageInv
<1>2. CASE Crash
  <2>1. Waiting' /\ UNCHANGED page /\ up' = FALSE
    BY <1>2 DEF Crash, Safe, Waiting, runVars, postVars
  <2>2. PICK outcome \in {"unwritten", "torn", "full"} :
            log' = WriteLine(log, Event("artifact.written", NULL), outcome)
    BY <1>2 DEF Crash
  <2>3. LogInv(log') /\ log'.index = log.index
    BY <1>0, <2>2, AsideKeeps DEF Outcomes, Faults
  <2>4. Stream!Stop
    BY <2>1, <2>3 DEF Stream!Stop
  <2> QED BY <2>1, <2>3, <2>4 DEF Safe, PageInv, Stream!Next
<1>3. CASE CloseServer
  <2>1. Waiting' /\ UNCHANGED <<page, log>> /\ up' = FALSE
    BY <1>3 DEF CloseServer, Safe, Waiting, runVars, postVars, logVars
  <2>2. Stream!Stop
    BY <2>1 DEF Stream!Stop
  <2> QED BY <2>1, <2>2 DEF Safe, PageInv, Stream!Next
<1> QED BY <1>1, <1>2, <1>3

LEMMA SafeStep ==
    ASSUME Safe, [Next]_vars
    PROVE  Safe' /\ [Stream!Next]_(Stream!vars)
<1>1. CASE Next
  <2>1. CASE \E r \in Requests : Ask(r) \/ AskAgain(r) \/ Settle(r) \/ Post(r)
    <3>1. PICK r \in Requests : Ask(r) \/ AskAgain(r) \/ Settle(r) \/ Post(r)
      BY <2>1
    <3> QED BY <3>1, RunStep
  <2>2. CASE \E post \in posts : Replies(post)
    <3>1. PICK post \in posts : Replies(post)
      BY <2>2
    <3> QED BY <3>1, ReplyStep
  <2>3. CASE Boundary \/ End
    BY <2>3, MilestoneStep
  <2>4. CASE WriteArtifact \/ Crash \/ CloseServer
    BY <2>4, LogStep
  <2>5. CASE AnswerBootstrap \/ Hydrate \/ Connect \/ Receive \/ BreakConnection \/ Reload
    BY <2>5, PageStep
  <2> QED BY <1>1, <2>1, <2>2, <2>3, <2>4, <2>5 DEF Next
<1>2. CASE UNCHANGED vars
  <2>1. UNCHANGED <<log, page, up, asked, parked, posted, posts>>
    BY <1>2 DEF vars, logVars, runVars, postVars
  <2>2. UNCHANGED Stream!vars
    BY <2>1 DEF Stream!vars
  <2> QED BY <2>1, <2>2 DEF Safe, PageInv, Waiting
<1> QED BY <1>1, <1>2

(********************************* theorems *********************************)
LEMMA AlwaysSafe == Spec => []Safe
<1>1. Init => Safe
  BY SafeInit
<1>2. Safe /\ [Next]_vars => Safe'
  BY SafeStep
<1> QED BY <1>1, <1>2, PTL DEF Spec

(* Whatever appends fail and wherever the process dies, events.jsonl reads  *)
(* back every acknowledged event, and at most one more (runEvents/writer.ts *)
(* and replay.ts).                                                          *)
THEOREM LogSurvives == Spec => []LogReadable
<1>1. Safe => LogReadable
  <2> SUFFICES ASSUME Safe PROVE LogReadable
    OBVIOUS
  <2>1. PICK n : n = ReadableLines(log.file)
    OBVIOUS
  <2>2. /\ n \in {log.offset, log.offset + 1} /\ n <= Len(log.file)
        /\ n = log.offset => log.file[log.offset + 1] = Torn \/ Len(log.file) = log.offset
    BY <2>1, LogReads DEF Safe
  <2>3. /\ log.offset \in Nat /\ log.offset = Len(log.acked) /\ log.acked \in Seq(LineType)
        /\ log.file \in Seq(LineType \union {Torn}) /\ Len(log.file) \in Nat
        /\ Len(log.file) <= log.offset + 1 /\ log.offset <= Len(log.file)
        /\ \A i \in 1..log.offset : log.acked[i] = log.file[i]
    BY SeqFacts DEF Safe, LogInv, LogType, Written, Begins
  <2>4. n \in 0..Len(log.file)
    BY <2>2, <2>3
  <2>5. ~Corrupt(log.file)
    BY <2>1, <2>2, <2>3 DEF Corrupt
  <2>6. PICK read : read = Replay(log.file)
    OBVIOUS
  <2>7. /\ read \in Seq(LineType \union {Torn}) /\ Len(read) = n
        /\ \A i \in 1..n : read[i] = log.file[i]
    BY <2>1, <2>3, <2>4, <2>6, PrefixFacts DEF Replay
  <2>8. Begins(log.acked, read)
    BY <2>2, <2>3, <2>7 DEF Begins
  <2>9. log.acked \in Seq(LineType \union {Torn})
    BY <2>3, SeqMonotonic
  <2>10. IsPrefix(log.acked, read)
    BY <2>7, <2>8, <2>9, BeginsIsPrefix
  <2>11. Len(read) <= Len(log.acked) + 1
    BY <2>2, <2>3, <2>7
  <2> QED BY <2>5, <2>6, <2>10, <2>11 DEF LogReadable
<1> QED BY <1>1, AlwaysSafe, PTL

(* The query service refuses no event of the engine, and its index holds    *)
(* what was written, but for artifacts since the last such event            *)
(* (runEvents/queryService.ts).                                             *)
THEOREM IndexComplete == Spec => []IndexFollowsLog
<1>1. Safe => IndexFollowsLog
  <2> SUFFICES ASSUME Safe PROVE IndexFollowsLog
    OBVIOUS
  <2>1. IsPrefix(log.index, log.acked)
    BY LogLengths, BeginsIsPrefix DEF Safe, LogInv, Indexed
  <2> QED BY <2>1 DEF IndexFollowsLog, Safe, LogInv, Indexed
<1> QED BY <1>1, AlwaysSafe, PTL

(* Both: what failed appends and deaths leave in events.jsonl reads as the  *)
(* acknowledged events, and the live index follows them.                    *)
THEOREM LogStaysSound == Spec => []LogSound
BY LogSurvives, IndexComplete, PTL DEF LogSound

(* The safety part of StreamSpec: every step of the run and of its page is  *)
(* a step of the abstract stream, so that the page sees the published       *)
(* events in order, each once, whatever breaks (ui/runScopedSse.ts).        *)
THEOREM PageFollowsStream == Spec => Stream!Init /\ [][Stream!Next]_(Stream!vars)
<1>1. Init => Stream!Init
  BY SafeInit
<1>2. Safe /\ [Next]_vars => [Stream!Next]_(Stream!vars)
  BY SafeStep
<1> QED BY <1>1, <1>2, AlwaysSafe, PTL DEF Spec

(************************ no request is decided twice ***********************)
Deciding == {"request.resolved", "reply.accepted"}
Unsaid(lines, e) == \A i \in 1..Len(lines) : ~(lines[i].type = e.type /\ lines[i].req = e.req)
SaidOnce(lines) ==
    \A i, j \in 1..Len(lines) :
        /\ lines[i].type \in Deciding
        /\ lines[i].type = lines[j].type /\ lines[i].req = lines[j].req
        => i = j

(* A choice is committed once, while it waits.                              *)
Committing == {post \in posts : post.stage = "committed"}
Committed ==
    /\ \A post \in Committing : post.req \in asked \ parked
    /\ \A p, q \in Committing : p.req = q.req => p = q

(* Nothing is decided of a request that waits, is still to come or is a     *)
(* choice whose reply is still to be answered.                              *)
Open == parked \union (Requests \ asked) \union {post.req : post \in Committing}
Decided ==
    /\ SaidOnce(log.acked)
    /\ \A e \in EventType : e.type \in Deciding /\ e.req \in Open => Unsaid(log.acked, e)

LEMMA AppendSays ==
    ASSUME NEW lines \in Seq(LineType), NEW line \in LineType
    PROVE  /\ \A e \in EventType :
                 Unsaid(lines, e) /\ ~(line.type = e.type /\ line.req = e.req)
                     => Unsaid(Append(lines, line), e)
           /\ SaidOnce(lines) /\ (line.type \in Deciding => Unsaid(lines, line))
                 => SaidOnce(Append(lines, line))
<1>1. PICK n, more : n = Len(lines) /\ more = Append(lines, line)
  OBVIOUS
<1>2. /\ n \in Nat /\ Len(more) = n + 1 /\ more[n + 1] = line
      /\ \A i \in 1..n : more[i] = lines[i]
  BY <1>1, SeqFacts, AppendFacts
<1>3. \A i \in 1..(n + 1) : i = n + 1 \/ i \in 1..n
  BY <1>2
<1>4. ASSUME NEW e \in EventType, Unsaid(lines, e), ~(line.type = e.type /\ line.req = e.req)
      PROVE  Unsaid(more, e)
  BY <1>1, <1>2, <1>3, <1>4 DEF Unsaid
<1>5. ASSUME SaidOnce(lines), line.type \in Deciding => Unsaid(lines, line)
      PROVE  SaidOnce(more)
  <2>1. ASSUME NEW i \in 1..(n + 1), NEW j \in 1..(n + 1), more[i].type \in Deciding,
               more[i].type = more[j].type, more[i].req = more[j].req
        PROVE  i = j
    <3>1. CASE i \in 1..n /\ j \in 1..n
      BY <1>1, <1>2, <1>5, <2>1, <3>1 DEF SaidOnce
    <3>2. CASE i = n + 1 /\ j \in 1..n
      BY <1>1, <1>2, <1>5, <2>1, <3>2 DEF Unsaid
    <3>3. CASE i \in 1..n /\ j = n + 1
      BY <1>1, <1>2, <1>5, <2>1, <3>3 DEF Unsaid
    <3> QED BY <1>3, <3>1, <3>2, <3>3
  <2> QED BY <1>2, <2>1 DEF SaidOnce
<1> QED BY <1>1, <1>4, <1>5

LEMMA RecordSays ==
    ASSUME NEW l, LogInv(l), NEW e \in EventType, NEW outcome \in Outcomes
    PROVE  LET r == Record(l, e, outcome)
           IN  /\ LogInv(r)
               /\ \A d \in EventType : Unsaid(l.acked, d) /\ d # e => Unsaid(r.acked, d)
               /\ SaidOnce(l.acked) /\ (e.type \in Deciding => Unsaid(l.acked, e))
                     => SaidOnce(r.acked)
<1> DEFINE r == Record(l, e, outcome)
           line == Line(l, e)
<1>1. /\ LogInv(r) /\ r.acked = IF outcome = "ok" THEN Append(l.acked, line) ELSE l.acked
      /\ outcome = "ok" => line \in LineType
  BY RecordKeeps
<1>2. line.type = e.type /\ line.req = e.req
  BY DEF Line
<1>3. l.acked \in Seq(LineType)
  BY LogLengths
<1>4. \A d \in EventType : d # e => ~(line.type = d.type /\ line.req = d.req)
  BY <1>2 DEF EventType
<1>5. (e.type \in Deciding => Unsaid(l.acked, e)) => (line.type \in Deciding => Unsaid(l.acked, line))
  BY <1>2 DEF Unsaid
<1> HIDE DEF r, line
<1>6. /\ \A d \in EventType : Unsaid(l.acked, d) /\ d # e => Unsaid(r.acked, d)
      /\ SaidOnce(l.acked) /\ (e.type \in Deciding => Unsaid(l.acked, e)) => SaidOnce(r.acked)
  <2>1. CASE outcome = "ok"
    <3>1. line \in LineType /\ r.acked = Append(l.acked, line)
      BY <1>1, <2>1
    <3> QED BY <1>3, <1>4, <1>5, <3>1, AppendSays
  <2>2. CASE outcome # "ok"
    BY <1>1, <2>2
  <2> QED BY <2>1, <2>2
<1> QED BY <1>1, <1>6 DEF r

LEMMA RecordAllSays ==
    ASSUME NEW l, LogInv(l), SaidOnce(l.acked),
           NEW events \in Seq(EventType), Len(events) \in 1..3,
           \A i, j \in 1..Len(events) : events[i] = events[j] => i = j,
           \A i \in 1..Len(events) : events[i].type \in Deciding => Unsaid(l.acked, events[i]),
           NEW outcomes \in [1..Len(events) -> Outcomes]
    PROVE  LET r == RecordAll(l, events, outcomes)
           IN  /\ SaidOnce(r.acked)
               /\ \A d \in EventType :
                     Unsaid(l.acked, d) /\ (\A i \in 1..Len(events) : events[i] # d)
                         => Unsaid(r.acked, d)
<1> DEFINE one == Record(l, events[1], outcomes[1])
           two == Record(one, events[2], outcomes[2])
           three == Record(two, events[3], outcomes[3])
           Others(d, n) == Unsaid(l.acked, d) /\ (\A i \in 1..n : events[i] # d)
           Fine(s, n) == /\ LogInv(s) /\ SaidOnce(s.acked)
                         /\ \A d \in EventType : Others(d, n) => Unsaid(s.acked, d)
<1>1. Fine(one, 1)
  <2>1. events[1] \in EventType /\ outcomes[1] \in Outcomes
    BY SeqFacts
  <2>2. events[1].type \in Deciding => Unsaid(l.acked, events[1])
    OBVIOUS
  <2> QED BY <2>1, <2>2, RecordSays
<1>2. Len(events) >= 2 => Fine(two, 2)
  <2>1. HAVE Len(events) >= 2
  <2>2. events[2] \in EventType /\ outcomes[2] \in Outcomes
    BY <2>1, SeqFacts
  <2>3. events[2].type \in Deciding => Unsaid(l.acked, events[2])
    BY <2>1
  <2>4. events[1] # events[2]
    BY <2>1
  <2> HIDE DEF one
  <2>5. events[2].type \in Deciding => Unsaid(one.acked, events[2])
    BY <1>1, <2>2, <2>3, <2>4
  <2>6. /\ LogInv(two) /\ SaidOnce(two.acked)
        /\ \A d \in EventType : Unsaid(one.acked, d) /\ d # events[2] => Unsaid(two.acked, d)
    BY <1>1, <2>2, <2>5, RecordSays
  <2> HIDE DEF two
  <2> QED BY <1>1, <2>6
<1>3. Len(events) = 3 => Fine(three, 3)
  <2>1. HAVE Len(events) = 3
  <2>2. events[3] \in EventType /\ outcomes[3] \in Outcomes
    BY <2>1, SeqFacts
  <2>3. events[3].type \in Deciding => Unsaid(l.acked, events[3])
    BY <2>1
  <2>4. \A i \in 1..2 : events[i] # events[3]
    BY <2>1
  <2>5. Fine(two, 2)
    BY <1>2, <2>1
  <2> HIDE DEF two
  <2>6. events[3].type \in Deciding => Unsaid(two.acked, events[3])
    BY <2>2, <2>3, <2>4, <2>5
  <2>7. /\ LogInv(three) /\ SaidOnce(three.acked)
        /\ \A d \in EventType : Unsaid(two.acked, d) /\ d # events[3] => Unsaid(three.acked, d)
    BY <2>2, <2>5, <2>6, RecordSays
  <2> HIDE DEF three
  <2> QED BY <2>5, <2>7
<1>4. RecordAll(l, events, outcomes)
        = IF Len(events) = 1 THEN one ELSE IF Len(events) = 2 THEN two ELSE three
  BY DEF RecordAll
<1> HIDE DEF one, two, three
<1>5. CASE Len(events) = 1
  BY <1>1, <1>4, <1>5
<1>6. CASE Len(events) = 2
  BY <1>2, <1>4, <1>6
<1>7. CASE Len(events) = 3
  BY <1>3, <1>4, <1>7
<1> QED BY <1>5, <1>6, <1>7

(* A handler decides only what is open, and closes what it decides.         *)
LEMMA OpenStays ==
    ASSUME Committing' \subseteq Committing, asked \subseteq asked', parked' \intersect asked \subseteq parked,
           parked' \subseteq Requests
    PROVE  Open' \subseteq Open
BY DEF Open

LEMMA EmitDecides ==
    ASSUME Safe, Decided, NEW events \in Seq(EventType), Len(events) \in 1..3, Emit(events),
           \A i, j \in 1..Len(events) : events[i] = events[j] => i = j,
           \A i \in 1..Len(events) : events[i].type \in Deciding =>
               events[i].req \in Open /\ events[i].req \notin Open',
           Open' \subseteq Open
    PROVE  Decided'
<1>1. PICK outcomes \in [1..Len(events) -> Outcomes] : log' = RecordAll(log, events, outcomes)
  BY DEF Emit
<1>2. \A i \in 1..Len(events) : events[i].type \in Deciding => Unsaid(log.acked, events[i])
  BY SeqFacts DEF Decided
<1>3. /\ SaidOnce(log'.acked)
      /\ \A d \in EventType :
            Unsaid(log.acked, d) /\ (\A i \in 1..Len(events) : events[i] # d)
                => Unsaid(log'.acked, d)
  BY <1>1, <1>2, RecordAllSays DEF Safe, Decided
<1>4. ASSUME NEW d \in EventType, d.type \in Deciding, d.req \in Open'
      PROVE  Unsaid(log'.acked, d)
  BY <1>3, <1>4 DEF Decided
<1> QED BY <1>3, <1>4 DEF Decided

LEMMA SettledStays ==
    ASSUME Decided, Open' \subseteq Open, log'.acked = log.acked
    PROVE  Decided'
BY DEF Decided

Closes(e) == e.type \in Deciding => e.req \in Open /\ e.req \notin Open'
LEMMA EmitOne ==
    ASSUME Safe, Decided, NEW a \in EventType, Emit(<<a>>), Closes(a), Open' \subseteq Open
    PROVE  Decided'
<1> DEFINE events == <<a>>
<1>1. events \in Seq(EventType) /\ Len(events) = 1 /\ events[1] = a
  OBVIOUS
<1>2. Emit(events)
  OBVIOUS
<1> HIDE DEF events
<1> QED BY <1>1, <1>2, EmitDecides DEF Closes

LEMMA EmitTwo ==
    ASSUME Safe, Decided, NEW a \in EventType, NEW b \in EventType, Emit(<<a, b>>), a # b,
           Closes(a), Closes(b), Open' \subseteq Open
    PROVE  Decided'
<1> DEFINE events == <<a, b>>
<1>1. events \in Seq(EventType) /\ Len(events) = 2 /\ events[1] = a /\ events[2] = b
  OBVIOUS
<1>2. Emit(events)
  OBVIOUS
<1> HIDE DEF events
<1> QED BY <1>1, <1>2, EmitDecides DEF Closes

LEMMA EmitThree ==
    ASSUME Safe, Decided, NEW a \in EventType, NEW b \in EventType, NEW c \in EventType,
           Emit(<<a, b, c>>), a # b, a # c, b # c,
           Closes(a), Closes(b), Closes(c), Open' \subseteq Open
    PROVE  Decided'
<1> DEFINE events == <<a, b, c>>
<1>1. /\ events \in Seq(EventType) /\ Len(events) = 3
      /\ events[1] = a /\ events[2] = b /\ events[3] = c
  OBVIOUS
<1>2. Emit(events)
  OBVIOUS
<1> HIDE DEF events
<1> QED BY <1>1, <1>2, EmitDecides DEF Closes

LEMMA RunDecides ==
    ASSUME Safe, Decided, Committed, NEW r \in Requests, Ask(r) \/ AskAgain(r) \/ Settle(r) \/ Post(r)
    PROVE  Decided'
<1>1. CASE Ask(r)
  <2> DEFINE replaced == IF r \in Questions THEN parked \intersect Questions ELSE {}
             declined == CHOOSE q \in replaced : TRUE
             asks == Event("request.created", r)
             declines == Event("request.resolved", declined)
  <2>1. /\ r \notin asked /\ asked' = asked \union {r}
       /\ parked' = (parked \ replaced) \union {r}
       /\ posts' = posts
    BY <1>1 DEF Ask, postVars
  <2>2. Open' \subseteq Open
    BY <2>1, OpenStays DEF Committing, Safe, Waiting
  <2>3. asks \in EventType /\ asks.type \notin Deciding
    BY EventTyped DEF Types, Event, Deciding
  <2>4. CASE replaced = {}
    <3>1. Emit(<<asks>>)
      BY <1>1, <2>4 DEF Ask
    <3> HIDE DEF asks
    <3> QED BY <2>2, <2>3, <3>1, EmitOne DEF Closes
  <2>5. CASE replaced # {}
    <3>1. declined \in replaced
      BY <2>5
    <3>2. declined \in parked /\ declined \in Requests /\ declined \in asked
      BY <3>1 DEF Safe, Waiting
    <3>4. Emit(<<asks, declines>>)
      BY <1>1, <2>5 DEF Ask
    <3> HIDE DEF declined, replaced
    <3>3. declined \in Open /\ declined \notin Open'
      BY <2>1, <3>1, <3>2 DEF Open, Committed, Committing
    <3>5. declines \in EventType /\ declines.req = declined /\ declines # asks
      BY <3>2, EventTyped DEF Types, Event
    <3> HIDE DEF asks, declines
    <3> QED BY <2>2, <2>3, <3>3, <3>4, <3>5, EmitTwo DEF Closes
  <2> QED BY <2>4, <2>5
<1>2. CASE Settle(r)
  <2>1. r \in parked /\ parked' = parked \ {r} /\ asked' = asked /\ posts' = posts
    BY <1>2 DEF Settle, postVars
  <2>2. Open' \subseteq Open /\ r \in Open /\ r \notin Open'
    BY <2>1 DEF Open, Safe, Waiting, Committed, Committing
  <2>3. Event("request.resolved", r) \in EventType /\ Event("request.resolved", r).req = r
    BY EventTyped DEF Types, Event
  <2>4. Emit(<<Event("request.resolved", r)>>)
    BY <1>2 DEF Settle
  <2> QED BY <2>2, <2>3, <2>4, EmitOne DEF Closes
<1>3. CASE Post(r)
  <2>1. UNCHANGED <<log, asked, parked>>
    BY <1>3 DEF Post, logVars, runVars
  <2>2. Committing' \subseteq Committing
    BY <1>3 DEF Post, Committing
  <2> QED BY <2>1, <2>2, OpenStays, SettledStays DEF Safe, Waiting
<1>4. CASE AskAgain(r)
  <2>1. UNCHANGED <<asked, parked, posts>>
    BY <1>4 DEF AskAgain, runVars, postVars
  <2>2. Open' \subseteq Open
    BY <2>1 DEF Open, Committing
  <2>3. Event("request.created", r) \in EventType /\ Event("request.created", r).type \notin Deciding
    BY EventTyped DEF Types, Event, Deciding
  <2>4. Emit(<<Event("request.created", r)>>)
    BY <1>4 DEF AskAgain
  <2> QED BY <2>2, <2>3, <2>4, EmitOne DEF Closes
<1> QED BY <1>1, <1>2, <1>3, <1>4

LEMMA Restaged ==
    ASSUME Safe, NEW post \in posts, NEW stage, posts' = At(post, stage)
    PROVE  \A p \in posts' : p \in posts \ {post} \/ (p.req = post.req /\ p.stage = stage)
<1>1. PICK q : q = [post EXCEPT !.stage = stage]
  OBVIOUS
<1>2. q.req = post.req /\ q.stage = stage
  BY <1>1 DEF Safe, Waiting
<1> QED BY <1>1, <1>2 DEF At

LEMMA ReplyDecides ==
    ASSUME Safe, Decided, Committed, NEW post \in posts, Replies(post)
    PROVE  Decided'
<1> DEFINE r == post.req
           submits == Event("reply.submitted", r)
           resolves == Event("request.resolved", r)
           accepts == Event("reply.accepted", r)
           refuses == Event("reply.refused", r)
<1>0. r \in Requests
  BY PostTyped
<1>1. /\ submits \in EventType /\ submits.type \notin Deciding /\ submits.req = r
      /\ refuses \in EventType /\ refuses.type \notin Deciding /\ refuses.req = r
      /\ resolves \in EventType /\ resolves.req = r
      /\ accepts \in EventType /\ accepts.req = r
      /\ submits # resolves /\ submits # accepts /\ resolves # accepts /\ submits # refuses
  BY <1>0, EventTyped DEF Types, Event, Deciding
<1>2. /\ asked' = asked /\ parked' \subseteq parked
      /\ \A stage : posts' = At(post, stage) =>
             \A p \in posts' : p \in posts \ {post} \/ (p.req = r /\ p.stage = stage)
  <2>1. asked' = asked /\ parked' \subseteq parked
    BY DEF Replies, AcceptReply, RefuseReply, QueueChoice, CommitChoice, AnswerChoice, RefuseChoice,
           Hear, runVars
  <2> QED BY <2>1, Restaged
<1>3. Committing' \subseteq Committing => Open' \subseteq Open
  BY <1>2, OpenStays DEF Safe, Waiting
<1> HIDE DEF submits, resolves, accepts, refuses, r
<1>4. CASE AcceptReply(post)
  <2>1. /\ Emit(<<submits, resolves, accepts>>) /\ r \in parked /\ parked' = parked \ {r}
        /\ posts' = At(post, "ok")
    BY <1>4 DEF AcceptReply, submits, resolves, accepts, r
  <2>2. Committing' \subseteq Committing
    BY <1>2, <2>1 DEF Committing
  <2>3. r \in Open /\ r \notin Open'
    BY <1>2, <2>1, <2>2 DEF Open, Safe, Waiting, Committed
  <2> QED BY <1>1, <1>3, <2>1, <2>2, <2>3, EmitThree DEF Closes
<1>5. CASE RefuseReply(post)
  <2>1. Emit(<<submits, refuses>>) /\ posts' \subseteq posts
    BY <1>5 DEF RefuseReply, submits, refuses, r
  <2>2. Committing' \subseteq Committing
    BY <2>1 DEF Committing
  <2> QED BY <1>1, <1>3, <2>1, <2>2, EmitTwo DEF Closes
<1>6. CASE QueueChoice(post)
  <2>1. Emit(<<submits>>) /\ posts' = At(post, "queued")
    BY <1>6 DEF QueueChoice, submits, r
  <2>2. Committing' \subseteq Committing
    BY <1>2, <2>1 DEF Committing
  <2> QED BY <1>1, <1>3, <2>1, <2>2, EmitOne DEF Closes
<1>7. CASE CommitChoice(post)
  <2>1. /\ r \in parked /\ parked' = parked \ {r} /\ log' = log
        /\ posts' = At(post, "committed")
    BY <1>7 DEF CommitChoice, logVars, r
  <2>2. \A p \in Committing' : p \in Committing \/ p.req = r
    BY <1>2, <2>1 DEF Committing
  <2>3. Open' \subseteq Open
    BY <1>2, <2>1, <2>2 DEF Open
  <2> QED BY <2>1, <2>3, SettledStays
<1>8. CASE AnswerChoice(post)
  <2>1. /\ Emit(<<accepts>>) /\ posts' = At(post, "ok") /\ post \in Committing /\ parked' = parked
    BY <1>8 DEF AnswerChoice, accepts, r, Committing, runVars
  <2>2. Committing' \subseteq Committing \ {post}
    BY <1>2, <2>1 DEF Committing
  <2>3. r = post.req /\ r \in asked \ parked
    BY <2>1 DEF r, Committed
  <2>4. \A p \in Committing' : p.req # r
    BY <2>1, <2>2, <2>3 DEF Committed
  <2>5. r \in Open /\ r \notin Open'
    BY <1>2, <2>1, <2>3, <2>4 DEF Open
  <2> QED BY <1>1, <1>3, <2>1, <2>2, <2>5, EmitOne DEF Closes
<1>9. CASE RefuseChoice(post)
  <2>1. Emit(<<refuses>>) /\ posts' \subseteq posts
    BY <1>9 DEF RefuseChoice, refuses, r
  <2>2. Committing' \subseteq Committing
    BY <2>1 DEF Committing
  <2> QED BY <1>1, <1>3, <2>1, <2>2, EmitOne DEF Closes
<1>10. CASE Hear(post)
  <2>1. log' = log /\ posts' \subseteq posts
    BY <1>10 DEF Hear, logVars
  <2>2. Committing' \subseteq Committing
    BY <2>1 DEF Committing
  <2> QED BY <1>3, <2>1, <2>2, SettledStays
<1> QED BY <1>4, <1>5, <1>6, <1>7, <1>8, <1>9, <1>10 DEF Replies

(* A page that is loaded again hears no answer; who commits stays.          *)
Orphan(post) == [post EXCEPT !.mine = FALSE]
LEMMA Orphans ==
    ASSUME Safe, Reload
    PROVE  /\ \A q \in Committing' : \E p \in Committing : q = Orphan(p) /\ q.req = p.req
           /\ \A p \in Committing : \E q \in Committing' : q.req = p.req
<1>1. posts' = {Orphan(p) : p \in posts}
  BY DEF Reload, Orphan
<1>2. \A p \in posts : Orphan(p).req = p.req /\ Orphan(p).stage = p.stage
  BY DEF Safe, Waiting, Orphan
<1>3. ASSUME NEW q \in posts', q.stage = "committed"
      PROVE  \E p \in Committing : q = Orphan(p) /\ q.req = p.req
  <2>1. PICK p \in posts : q = Orphan(p)
    BY <1>1
  <2>2. p.stage = "committed" /\ q.req = p.req
    BY <1>2, <1>3, <2>1
  <2> QED BY <2>1, <2>2 DEF Committing
<1>4. ASSUME NEW p \in posts, p.stage = "committed"
      PROVE  \E q \in posts' : q.stage = "committed" /\ q.req = p.req
  BY <1>1, <1>2, <1>4
<1> QED BY <1>3, <1>4 DEF Committing

(* A choice is committed once.                                              *)
LEMMA CommitOnce ==
    ASSUME Safe, Committed, [Next]_vars
    PROVE  Committed'
<1>1. ASSUME Committing' \subseteq Committing, asked \subseteq asked', parked' \intersect asked \subseteq parked
      PROVE  Committed'
  BY <1>1 DEF Committed
<1>2. CASE \E r \in Requests : Ask(r) \/ AskAgain(r) \/ Settle(r) \/ Post(r)
  <2>1. PICK r \in Requests : Ask(r) \/ AskAgain(r) \/ Settle(r) \/ Post(r)
    BY <1>2
  <2>2. asked \subseteq asked' /\ parked' \intersect asked \subseteq parked
    BY <2>1 DEF Ask, AskAgain, Settle, Post, runVars
  <2>3. Committing' \subseteq Committing
    BY <2>1 DEF Ask, AskAgain, Settle, Post, postVars, Committing
  <2> QED BY <1>1, <2>2, <2>3
<1>3. CASE \E post \in posts : Replies(post)
  <2>1. PICK post \in posts : Replies(post)
    BY <1>3
  <2>2. asked' = asked /\ parked' \subseteq parked
    BY <2>1 DEF Replies, AcceptReply, RefuseReply, QueueChoice, CommitChoice, AnswerChoice,
                RefuseChoice, Hear, runVars
  <2>3. CASE ~CommitChoice(post)
    <3>1. posts' = At(post, "ok") \/ posts' = At(post, "queued") \/ posts' \subseteq posts
      BY <2>1, <2>3 DEF Replies, AcceptReply, RefuseReply, QueueChoice, AnswerChoice, RefuseChoice, Hear
    <3>2. Committing' \subseteq Committing
      BY <3>1, Restaged DEF Committing
    <3> QED BY <1>1, <2>2, <3>2
  <2>4. CASE CommitChoice(post)
    <3>1. posts' = At(post, "committed") /\ post.req \in parked /\ parked' = parked \ {post.req}
      BY <2>4 DEF CommitChoice
    <3>2. PICK new : new = [post EXCEPT !.stage = "committed"]
      OBVIOUS
    <3>3. new.req = post.req /\ \A p \in Committing' : p \in Committing \/ p = new
      BY <3>1, <3>2 DEF At, Committing, Safe, Waiting
    <3>4. post.req \in asked
      BY <3>1 DEF Safe, Waiting
    <3> QED BY <2>2, <3>1, <3>3, <3>4 DEF Committed
  <2> QED BY <2>3, <2>4
<1>4. CASE \/ Boundary \/ End \/ WriteArtifact \/ Crash \/ CloseServer
           \/ AnswerBootstrap \/ Hydrate \/ Connect \/ Receive \/ BreakConnection
           \/ UNCHANGED vars
  <2>1. UNCHANGED <<asked, parked, posts>>
    BY <1>4 DEF Boundary, End, WriteArtifact, Crash, CloseServer, AnswerBootstrap, Hydrate, Connect,
                Receive, BreakConnection, vars, runVars, postVars
  <2> QED BY <1>1, <2>1 DEF Committing
<1>5. CASE Reload
  <2>1. UNCHANGED <<asked, parked>>
    BY <1>5 DEF Reload, runVars
  <2>2. \A q \in Committing' : \E p \in Committing : q = Orphan(p) /\ q.req = p.req
    BY <1>5, Orphans
  <2> QED BY <2>1, <2>2 DEF Committed
<1> QED BY <1>2, <1>3, <1>4, <1>5 DEF Next

LEMMA RestDecides ==
    ASSUME Safe, Decided,
           \/ Boundary \/ End \/ WriteArtifact \/ Crash \/ CloseServer
           \/ AnswerBootstrap \/ Hydrate \/ Connect \/ Receive \/ BreakConnection \/ Reload
           \/ UNCHANGED vars
    PROVE  Decided'
<1> DEFINE marks == Event("fresh_clear.boundary", NULL)
           ends == Event("run.ended", NULL)
           writes == Event("artifact.written", NULL)
<1>1. /\ marks \in EventType /\ marks.type \notin Deciding
      /\ ends \in EventType /\ ends.type \notin Deciding
      /\ writes \in EventType /\ writes.type \notin Deciding
  BY EventTyped DEF Types, Event, Deciding
<1>2. UNCHANGED <<asked, parked>>
  BY DEF Boundary, End, WriteArtifact, Crash, CloseServer, AnswerBootstrap, Hydrate, Connect,
         Receive, BreakConnection, Reload, vars, runVars
<1>3. Open' = Open
  <2>1. CASE Reload
    <3>1. {p.req : p \in Committing'} = {p.req : p \in Committing}
      BY <2>1, Orphans
    <3> QED BY <1>2, <3>1 DEF Open
  <2>2. CASE ~Reload
    <3>1. posts' = posts
      BY <2>2 DEF Boundary, End, WriteArtifact, Crash, CloseServer, AnswerBootstrap, Hydrate,
                  Connect, Receive, BreakConnection, vars, postVars
    <3> QED BY <1>2, <3>1 DEF Open, Committing
  <2> QED BY <2>1, <2>2
<1> HIDE DEF marks, ends, writes
<1>4. CASE Boundary
  <2>1. Emit(<<marks>>)
    BY <1>4 DEF Boundary, marks
  <2> QED BY <1>1, <1>3, <2>1, EmitOne DEF Closes
<1>5. CASE End
  <2>1. Emit(<<ends>>)
    BY <1>5 DEF End, ends
  <2> QED BY <1>1, <1>3, <2>1, EmitOne DEF Closes
<1>6. CASE WriteArtifact \/ Crash
  <2>1. PICK outcome \in Outcomes : log' = WriteLine(log, writes, outcome)
    BY <1>6 DEF WriteArtifact, RecordAside, Crash, Outcomes, Faults, writes
  <2>2. CASE outcome = "ok"
    <3>1. /\ log'.acked = Append(log.acked, Line(log, writes))
          /\ Line(log, writes) \in LineType
      BY <1>1, <2>1, <2>2, WriteAcks DEF Safe
    <3>2. Line(log, writes).type \notin Deciding
      BY <1>1 DEF Line
    <3>3. log.acked \in Seq(LineType)
      BY LogLengths DEF Safe
    <3>4. SaidOnce(log'.acked)
      BY <3>1, <3>2, <3>3, AppendSays DEF Decided
    <3>5. ASSUME NEW d \in EventType, d.type \in Deciding, d.req \in Open
          PROVE  Unsaid(log'.acked, d)
      BY <3>1, <3>2, <3>3, <3>5, AppendSays DEF Decided
    <3> QED BY <1>3, <3>4, <3>5 DEF Decided
  <2>3. CASE outcome # "ok"
    <3>1. log'.acked = log.acked
      BY <1>1, <2>1, <2>3, WriteKeeps DEF Safe, Outcomes
    <3> QED BY <1>3, <3>1, SettledStays
  <2> QED BY <2>2, <2>3
<1>7. CASE CloseServer \/ AnswerBootstrap \/ Hydrate \/ Connect \/ Receive
              \/ BreakConnection \/ Reload \/ UNCHANGED vars
  <2>1. log' = log
    BY <1>7 DEF CloseServer, AnswerBootstrap, Hydrate, Connect, Receive, BreakConnection, Reload,
                vars, logVars
  <2> QED BY <1>3, <2>1, SettledStays
<1> QED BY <1>4, <1>5, <1>6, <1>7

LEMMA AlwaysDecided == Spec => [](Decided /\ Committed)
<1>1. Init => Decided /\ Committed
  <2>1. ASSUME Init PROVE log.acked = <<>> /\ posts = {}
    BY <2>1 DEF Init, EmptyLog
  <2> QED BY <2>1 DEF Decided, SaidOnce, Unsaid, Committed, Committing
<1>2. Safe /\ Decided /\ Committed /\ [Next]_vars => Decided' /\ Committed'
  <2> SUFFICES ASSUME Safe, Decided, Committed, [Next]_vars PROVE Decided' /\ Committed'
    OBVIOUS
  <2>1. CASE \E r \in Requests : Ask(r) \/ AskAgain(r) \/ Settle(r) \/ Post(r)
    <3>1. PICK r \in Requests : Ask(r) \/ AskAgain(r) \/ Settle(r) \/ Post(r)
      BY <2>1
    <3> QED BY <3>1, RunDecides, CommitOnce
  <2>2. CASE \E post \in posts : Replies(post)
    <3>1. PICK post \in posts : Replies(post)
      BY <2>2
    <3> QED BY <3>1, ReplyDecides, CommitOnce
  <2>3. CASE \/ Boundary \/ End \/ WriteArtifact \/ Crash \/ CloseServer
             \/ AnswerBootstrap \/ Hydrate \/ Connect \/ Receive \/ BreakConnection \/ Reload
             \/ UNCHANGED vars
    BY <2>3, RestDecides, CommitOnce
  <2> QED BY <2>1, <2>2, <2>3 DEF Next
<1> QED BY <1>1, <1>2, AlwaysSafe, PTL DEF Spec

(* Of all replies to a request, from this page and from others, at most one *)
(* is accepted, and it is settled at most once, whatever queues in between  *)
(* (ui/reply.ts, runtime/liveRunEngine.ts).                                 *)
THEOREM DecisionsUnique == Spec => []DecidedOnce
<1>1. Safe /\ Decided => DecidedOnce
  <2> SUFFICES ASSUME Safe, Decided, NEW r \in Requests, NEW t \in Deciding
               PROVE  Times(t, r) <= 1
    BY DEF DecidedOnce, Deciding
  <2> DEFINE at == {i \in 1..Len(log.acked) : Mentions(log.acked[i], r, {t})}
  <2>1. \A i, j \in at : i = j
    BY DEF Mentions, Decided, SaidOnce
  <2> HIDE DEF at
  <2>2. at = {} => Cardinality(at) = 0
    BY FS_EmptySet
  <2>3. ASSUME NEW i \in at PROVE Cardinality(at) = 1
    <3>1. at = {i}
      BY <2>1
    <3> QED BY <3>1, FS_Singleton
  <2>4. Cardinality(at) \in {0, 1}
    BY <2>2, <2>3
  <2>5. Times(t, r) \in {0, 1}
    BY <2>4 DEF Times, at
  <2> QED BY <2>5
<1> QED BY <1>1, AlwaysSafe, AlwaysDecided, PTL

(************************** the cards of the page ***************************)
LEMMA Greatest ==
    ASSUME NEW n \in Nat, NEW S, S \subseteq 1..n, S # {}
    PROVE  \E x \in S : \A y \in S : y <= x
<1> DEFINE lt == OpToRel(<, Nat)
           U == {k \in Nat : \A y \in S : y <= k}
<1>1. U \subseteq Nat /\ n \in U
  OBVIOUS
<1>2. PICK u \in U : \A k \in U : <<k, u>> \notin lt
  <2> HIDE DEF U, lt
  <2>1. IsWellFoundedOn(lt, Nat)
    BY NatLessThanWellFounded DEF lt
  <2> QED BY <1>1, <2>1, WFMin
<1>3. \A k \in U : ~(k < u)
  BY <1>1, <1>2 DEF OpToRel
<1>4. PICK s \in S : TRUE
  OBVIOUS
<1>5. u \in S
  <2>1. SUFFICES ASSUME u \notin S PROVE FALSE
    OBVIOUS
  <2>2. u - 1 \in U
    BY <1>4, <2>1
  <2> QED BY <1>3, <2>2
<1> QED BY <1>5

(* Two requests for one slot of the page.                                   *)
Rivals(r, q) == r # q /\ ({r, q} \subseteq Questions \/ {r, q} \subseteq OwnerChoices)
Creates(line, r) == Mentions(line, r, {"request.created"})
Replied(q) == Recorded(q, {"reply.submitted", "reply.accepted"}) \/ faults > 1

(* Who is asked for is known, and whoever still waits has had no rival      *)
(* since.                                                                   *)
Told ==
    /\ faults \in Nat
    /\ \A i \in 1..Len(log.acked) :
          /\ log.acked[i].type = "request.created" => log.acked[i].req \in asked
          /\ log.acked[i].type = "fresh_clear.boundary" => log.acked[i].req = NULL
    /\ \A r \in parked : \A i, j \in 1..Len(log.acked) :
          i < j /\ Creates(log.acked[i], r) /\ log.acked[j].type = "request.created"
              => ~Rivals(r, log.acked[j].req)
    /\ \A r, q \in parked : ~Rivals(r, q)

(* A reply that was taken has decided its request.                          *)
Answered ==
    \A post \in posts : post.stage = "ok" =>
        /\ post.req \in asked \ parked
        /\ post.req \in Questions => Replied(post.req)
QueuedChoice == \A post \in posts : post.stage \in {"queued", "committed"} => post.req \in OwnerChoices

(* Why a request that waits may have no card.                               *)
Excused(r) ==
    \/ After(r, "fresh_clear.boundary", NULL)
    \/ Recorded(r, {"reply.submitted"})
    \/ r \in Questions /\ \E q \in Questions \ {r} : Replied(q)
Heard(r) == \E i \in 1..Len(page.seen) : Creates(page.seen[i], r)
Carded ==
    /\ page.cards \in CardsType
    /\ NoStaleCard
    /\ \A r \in parked \ Shown(page.cards) : Heard(r) => Excused(r)

CardInv == Told /\ Answered /\ QueuedChoice /\ Carded
Sound == Safe /\ Decided /\ Committed

LEMMA Kinds ==
    /\ NULL \notin Requests
    /\ \A r \in Questions : r \notin OwnerChoices /\ r \notin Approvals
    /\ \A r \in OwnerChoices : r \notin Approvals
BY RunEventsAssumption

(* What the log gains.                                                      *)
Gains(old, new, S) ==
    /\ Begins(old, new)
    /\ \A i \in (Len(old) + 1)..Len(new) :
          \E e \in S : new[i].type = e.type /\ new[i].req = e.req

LEMMA GainsAll ==
    ASSUME NEW s \in Seq(LineType), NEW t \in Seq(LineType), NEW u \in Seq(LineType), NEW S,
           Gains(s, t, S), Gains(t, u, S)
    PROVE  Gains(s, u, S)
<1>1. Len(s) \in Nat /\ Len(t) \in Nat /\ Len(u) \in Nat
  BY SeqFacts
<1>2. Begins(s, u)
  BY <1>1, BeginsTransitive DEF Gains
<1>3. ASSUME NEW i \in (Len(s) + 1)..Len(u)
      PROVE  \E e \in S : u[i].type = e.type /\ u[i].req = e.req
  <2>1. CASE i \in (Len(s) + 1)..Len(t)
    BY <1>1, <2>1 DEF Gains, Begins
  <2>2. CASE i \in (Len(t) + 1)..Len(u)
    BY <2>2 DEF Gains
  <2> QED BY <1>1, <2>1, <2>2
<1> QED BY <1>2, <1>3 DEF Gains

LEMMA GainsOne ==
    ASSUME NEW s \in Seq(LineType), NEW line \in LineType, NEW S, NEW e \in S,
           line.type = e.type, line.req = e.req
    PROVE  Gains(s, Append(s, line), S) /\ Append(s, line) \in Seq(LineType)
<1>1. PICK n, t : n = Len(s) /\ t = Append(s, line)
  OBVIOUS
<1>2. /\ n \in Nat /\ t \in Seq(LineType) /\ Len(t) = n + 1 /\ t[n + 1] = line
      /\ \A i \in 1..n : t[i] = s[i]
  BY <1>1, SeqFacts, AppendFacts
<1> QED BY <1>1, <1>2 DEF Gains, Begins

LEMMA GainsNone == \A S : \A s \in Seq(LineType) : Gains(s, s, S)
BY SeqFacts DEF Gains, Begins

LEMMA RecordGains ==
    ASSUME NEW l, LogInv(l), NEW S, S \subseteq EventType, NEW e \in S, NEW outcome \in Outcomes
    PROVE  LET r == Record(l, e, outcome)
           IN  /\ LogInv(r) /\ Gains(l.acked, r.acked, S)
               /\ outcome = "ok" => ~Unsaid(r.acked, e)
<1> DEFINE r == Record(l, e, outcome)
           line == Line(l, e)
<1>1. /\ LogInv(r) /\ r.acked = IF outcome = "ok" THEN Append(l.acked, line) ELSE l.acked
      /\ outcome = "ok" => line \in LineType
  BY RecordKeeps
<1>2. line.type = e.type /\ line.req = e.req
  BY DEF Line
<1>3. l.acked \in Seq(LineType)
  BY LogLengths
<1> HIDE DEF r, line
<1>4. CASE outcome = "ok"
  <2>1. line \in LineType /\ r.acked = Append(l.acked, line)
    BY <1>1, <1>4
  <2>2. Gains(l.acked, r.acked, S)
    BY <1>2, <1>3, <2>1, GainsOne
  <2>3. ~Unsaid(r.acked, e)
    <3>1. PICK n : n = Len(l.acked) + 1
      OBVIOUS
    <3>2. n \in 1..Len(r.acked) /\ r.acked[n] = line
      BY <1>3, <2>1, <3>1, AppendFacts, SeqFacts
    <3> QED BY <1>2, <3>2 DEF Unsaid
  <2> QED BY <1>1, <2>2, <2>3 DEF r
<1>5. CASE outcome # "ok"
  BY <1>1, <1>3, <1>5, GainsNone DEF r
<1> QED BY <1>4, <1>5

LEMMA SaidStays ==
    ASSUME NEW s, NEW t, Len(s) \in Nat, Len(t) \in Nat, Begins(s, t), NEW e, ~Unsaid(s, e)
    PROVE  ~Unsaid(t, e)
BY DEF Begins, Unsaid

LEMMA RecordAllGains ==
    ASSUME NEW l, LogInv(l), NEW events \in Seq(EventType), Len(events) \in 1..3,
           NEW outcomes \in [1..Len(events) -> Outcomes]
    PROVE  LET r == RecordAll(l, events, outcomes)
           IN  /\ Gains(l.acked, r.acked, {events[i] : i \in 1..Len(events)})
               /\ \A k \in 1..Len(events) : outcomes[k] = "ok" => ~Unsaid(r.acked, events[k])
<1> DEFINE S == {events[i] : i \in 1..Len(events)}
           one == Record(l, events[1], outcomes[1])
           two == Record(one, events[2], outcomes[2])
           three == Record(two, events[3], outcomes[3])
           Fine(s, n) == /\ LogInv(s) /\ Gains(l.acked, s.acked, S)
                         /\ \A k \in 1..n : outcomes[k] = "ok" => ~Unsaid(s.acked, events[k])
<1>0. S \subseteq EventType /\ \A i \in 1..Len(events) : events[i] \in S /\ outcomes[i] \in Outcomes
  BY SeqFacts
<1> HIDE DEF S
<1>1. ASSUME NEW s, NEW n \in 0..2, n < Len(events), Fine(s, n)
      PROVE  Fine(Record(s, events[n + 1], outcomes[n + 1]), n + 1)
  <2>1. PICK k, t : k = n + 1 /\ t = Record(s, events[k], outcomes[k])
    OBVIOUS
  <2>2. k \in 1..Len(events)
    BY <1>1, <2>1
  <2>3. events[k] \in S /\ outcomes[k] \in Outcomes
    BY <1>0, <2>2
  <2>4. /\ LogInv(t) /\ Gains(s.acked, t.acked, S)
        /\ outcomes[k] = "ok" => ~Unsaid(t.acked, events[k])
    BY <1>0, <1>1, <2>1, <2>3, RecordGains
  <2>5. Gains(l.acked, t.acked, S)
    BY <1>1, <2>4, LogLengths, GainsAll
  <2>6. ASSUME NEW i \in 1..n, outcomes[i] = "ok"
        PROVE  ~Unsaid(t.acked, events[i])
    BY <1>1, <2>4, <2>6, LogLengths, SaidStays DEF Gains
  <2>7. \A i \in 1..k : i = k \/ i \in 1..n
    BY <2>1
  <2> QED BY <2>1, <2>4, <2>5, <2>6, <2>7
<1>2. Fine(l, 0)
  BY GainsNone, LogLengths
<1> HIDE DEF Fine
<1>3. Fine(one, 1)
  <2>1. Fine(Record(l, events[0 + 1], outcomes[0 + 1]), 0 + 1)
    BY <1>1, <1>2
  <2> QED BY <2>1
<1>4. Len(events) >= 2 => Fine(two, 2)
  <2>1. HAVE Len(events) >= 2
  <2> HIDE DEF one
  <2>2. Fine(Record(one, events[1 + 1], outcomes[1 + 1]), 1 + 1)
    BY <1>1, <1>3, <2>1
  <2> QED BY <2>2
<1>5. Len(events) = 3 => Fine(three, 3)
  <2>1. HAVE Len(events) = 3
  <2>2. Fine(two, 2)
    BY <1>4, <2>1
  <2> HIDE DEF two
  <2>3. Fine(Record(two, events[2 + 1], outcomes[2 + 1]), 2 + 1)
    BY <1>1, <2>1, <2>2
  <2> QED BY <2>3
<1>6. RecordAll(l, events, outcomes)
        = IF Len(events) = 1 THEN one ELSE IF Len(events) = 2 THEN two ELSE three
  BY DEF RecordAll
<1> HIDE DEF one, two, three
<1>7. Fine(RecordAll(l, events, outcomes), Len(events))
  <2>1. CASE Len(events) = 1
    BY <1>3, <1>6, <2>1
  <2>2. CASE Len(events) = 2
    BY <1>4, <1>6, <2>2
  <2>3. CASE Len(events) = 3
    BY <1>5, <1>6, <2>3
  <2> QED BY <2>1, <2>2, <2>3
<1> QED BY <1>7 DEF Fine, S

LEMMA EmitGains ==
    ASSUME Sound, CardInv, NEW events \in Seq(EventType), Len(events) \in 1..3, Emit(events)
    PROVE  /\ Gains(log.acked, log'.acked, {events[i] : i \in 1..Len(events)})
           /\ faults' \in Nat /\ faults <= faults'
           /\ page'.cards = page.cards /\ page'.seen = page.seen
<1>1. PICK outcomes \in [1..Len(events) -> Outcomes] :
          /\ faults' = faults + Failures(outcomes)
          /\ log' = RecordAll(log, events, outcomes) /\ page' = Drained(page, log'.index)
  BY DEF Emit
<1>2. Gains(log.acked, log'.acked, {events[i] : i \in 1..Len(events)})
  BY <1>1, RecordAllGains DEF Sound, Safe
<1>3. Failures(outcomes) \in Nat
  <2>1. IsFiniteSet(1..Len(events))
    BY FS_Interval
  <2>2. IsFiniteSet({i \in DOMAIN outcomes : outcomes[i] # "ok"})
    BY <2>1, FS_Subset
  <2> QED BY <2>2, FS_CardinalityType DEF Failures
<1>4. page'.cards = page.cards /\ page'.seen = page.seen
  BY <1>1 DEF Drained, Sound, Safe, PageInv, PageShape
<1> QED BY <1>1, <1>2, <1>3, <1>4 DEF CardInv, Told

(* Three records of a reply that was taken: two of them say so.             *)
LEMMA RepliesRecorded ==
    ASSUME Sound, CardInv, NEW a \in EventType, NEW b \in EventType, NEW c \in EventType,
           Emit(<<a, b, c>>)
    PROVE  ~Unsaid(log'.acked, a) \/ ~Unsaid(log'.acked, c) \/ faults' > 1
<1> DEFINE events == <<a, b, c>>
<1>1. events \in Seq(EventType) /\ Len(events) = 3 /\ events[1] = a /\ events[3] = c
  OBVIOUS
<1>2. Emit(events)
  OBVIOUS
<1> HIDE DEF events
<1>3. PICK outcomes \in [1..Len(events) -> Outcomes] :
          faults' = faults + Failures(outcomes) /\ log' = RecordAll(log, events, outcomes)
  BY <1>2 DEF Emit
<1>4. \A k \in 1..3 : outcomes[k] = "ok" => ~Unsaid(log'.acked, events[k])
  <2>1. Len(events) \in 1..3 /\ LogInv(log)
    BY <1>1 DEF Sound, Safe
  <2>2. \A k \in 1..Len(events) :
            outcomes[k] = "ok" => ~Unsaid(RecordAll(log, events, outcomes).acked, events[k])
    BY <1>1, <2>1, RecordAllGains
  <2> QED BY <1>1, <1>3, <2>2
<1>5. CASE outcomes[1] = "ok" \/ outcomes[3] = "ok"
  BY <1>1, <1>4, <1>5
<1>6. CASE outcomes[1] # "ok" /\ outcomes[3] # "ok"
  <2> DEFINE failed == {i \in DOMAIN outcomes : outcomes[i] # "ok"}
  <2>1. {1, 3} \subseteq failed /\ failed \subseteq 1..3
    BY <1>1, <1>6
  <2>2. IsFiniteSet(failed)
    BY <2>1, FS_Interval, FS_Subset
  <2>3. Cardinality({1} \union {3}) = 2
    <3>1. PICK one, both : one = {1} /\ both = one \union {3}
      OBVIOUS
    <3>2. IsFiniteSet(one) /\ Cardinality(one) = 1
      BY <3>1, FS_Singleton
    <3>3. 3 \notin one
      BY <3>1
    <3>5. Cardinality(one \union {3}) = Cardinality(one) + 1
      BY <3>2, <3>3, FS_AddElement
    <3>4. Cardinality(both) = Cardinality(one) + 1
      BY <3>1, <3>5
    <3>6. Cardinality(both) = 2
      BY <3>2, <3>4
    <3> QED BY <3>1, <3>6
  <2>4. {1, 3} = {1} \union {3}
    OBVIOUS
  <2> HIDE DEF failed
  <2>5. Cardinality(failed) \in Nat /\ 2 <= Cardinality(failed)
    BY <2>1, <2>2, <2>3, <2>4, FS_Subset, FS_CardinalityType
  <2>6. Failures(outcomes) = Cardinality(failed)
    BY DEF Failures, failed
  <2> QED BY <1>3, <2>5, <2>6 DEF CardInv, Told
<1> QED BY <1>5, <1>6

LEMMA GainsLines ==
    ASSUME NEW s, NEW t, Len(s) \in Nat, Len(t) \in Nat, NEW S, Gains(s, t, S)
    PROVE  /\ Len(s) <= Len(t)
           /\ \A i \in 1..Len(t) :
                 \/ i \in 1..Len(s) /\ t[i] = s[i]
                 \/ i > Len(s) /\ \E e \in S : t[i].type = e.type /\ t[i].req = e.req
BY DEF Gains, Begins

(* A record that asks for nobody but R.                                     *)
Asks(e, R) ==
    /\ e.type = "request.created" => e.req \in R
    /\ e.type = "fresh_clear.boundary" => e.req = NULL

LEMMA ToldStays ==
    ASSUME CardInv, Sound, Safe', NEW S, Gains(log.acked, log'.acked, S),
           \A e \in S : Asks(e, {}), asked' = asked, parked' \subseteq parked, faults' \in Nat
    PROVE  Told'
<1>1. PICK s, t : s = log.acked /\ t = log'.acked
  OBVIOUS
<1>2. Len(s) \in Nat /\ Len(t) \in Nat
  BY <1>1, LogLengths DEF Sound, Safe
<1>3. \A i \in 1..Len(t) :
          \/ i \in 1..Len(s) /\ t[i] = s[i]
          \/ /\ t[i].type # "request.created"
             /\ t[i].type = "fresh_clear.boundary" => t[i].req = NULL
  BY <1>1, <1>2, GainsLines DEF Asks
<1>4. \A i \in 1..Len(t) :
          /\ t[i].type = "request.created" => t[i].req \in asked
          /\ t[i].type = "fresh_clear.boundary" => t[i].req = NULL
  BY <1>1, <1>3 DEF CardInv, Told
<1>5. ASSUME NEW r \in parked', NEW i \in 1..Len(t), NEW j \in 1..Len(t),
             i < j, Creates(t[i], r), t[j].type = "request.created"
      PROVE  ~Rivals(r, t[j].req)
  BY <1>1, <1>3, <1>5 DEF CardInv, Told, Creates, Mentions
<1>6. \A r, q \in parked' : ~Rivals(r, q)
  BY DEF CardInv, Told
<1> QED BY <1>1, <1>4, <1>5, <1>6 DEF Told

LEMMA ToldAsk ==
    ASSUME CardInv, Sound, Safe', NEW r \in Requests, NEW S, Gains(log.acked, log'.acked, S),
           \A e \in S : Asks(e, {r}),
           r \in parked \/ r \notin asked, asked' = asked \union {r}, r \in parked',
           parked' \subseteq parked \union {r},
           \A q \in parked' : ~Rivals(q, r), faults' \in Nat
    PROVE  Told'
<1>1. PICK s, t : s = log.acked /\ t = log'.acked
  OBVIOUS
<1>2. Len(s) \in Nat /\ Len(t) \in Nat
  BY <1>1, LogLengths DEF Sound, Safe
<1>3. \A i \in 1..Len(t) : t[i].type = "request.created" =>
          \/ i \in 1..Len(s) /\ t[i] = s[i]
          \/ i > Len(s) /\ t[i].req = r
  BY <1>1, <1>2, GainsLines DEF Asks
<1>4. \A i \in 1..Len(t) :
          /\ t[i].type = "request.created" => t[i].req \in asked'
          /\ t[i].type = "fresh_clear.boundary" => t[i].req = NULL
  <2>1. \A i \in 1..Len(t) : t[i].type = "request.created" => t[i].req \in asked'
    BY <1>1, <1>3 DEF CardInv, Told
  <2>2. \A i \in 1..Len(t) : t[i].type = "fresh_clear.boundary" => t[i].req = NULL
    BY <1>1, <1>2, GainsLines DEF Asks, CardInv, Told
  <2> QED BY <2>1, <2>2
<1>5. ASSUME NEW q \in parked', NEW i \in 1..Len(t), NEW j \in 1..Len(t),
             i < j, Creates(t[i], q), t[j].type = "request.created"
      PROVE  ~Rivals(q, t[j].req)
  <2>1. CASE t[j].req = r
    BY <2>1
  <2>2. CASE t[j].req # r
    <3>1. j \in 1..Len(s) /\ t[j] = s[j] /\ i \in 1..Len(s)
      BY <1>2, <1>3, <1>5, <2>2
    <3>2. t[i] = s[i]
      BY <1>2, <1>3, <1>5, <3>1 DEF Creates, Mentions
    <3>3. CASE q \in parked
      BY <1>1, <1>5, <3>1, <3>2, <3>3 DEF CardInv, Told
    <3>4. CASE q = r /\ r \notin asked
      BY <1>1, <1>5, <3>1, <3>2, <3>4 DEF CardInv, Told, Creates, Mentions
    <3> QED BY <3>3, <3>4
  <2> QED BY <2>1, <2>2
<1>6. ASSUME NEW p \in parked', NEW q \in parked'
      PROVE  ~Rivals(p, q)
  <2>1. CASE p = r \/ q = r
    BY <2>1 DEF Rivals
  <2>2. CASE p \in parked /\ q \in parked
    BY <2>2 DEF CardInv, Told
  <2> QED BY <2>1, <2>2
<1> QED BY <1>1, <1>4, <1>5, <1>6 DEF Told

(* What excuses a missing card is not taken back.                           *)
LEMMA RecordedStays ==
    ASSUME Sound, Safe', NEW S, Gains(log.acked, log'.acked, S), NEW r, NEW types, Recorded(r, types)
    PROVE  Recorded(r, types)'
<1>1. PICK s, t : s = log.acked /\ t = log'.acked
  OBVIOUS
<1>2. Len(s) \in Nat /\ Len(t) \in Nat /\ Begins(s, t)
  BY <1>1, LogLengths DEF Sound, Safe, Gains
<1>3. PICK i \in 1..Len(s) : Mentions(s[i], r, types)
  BY <1>1 DEF Recorded
<1>4. i \in 1..Len(t) /\ t[i] = s[i]
  BY <1>2 DEF Begins
<1> QED BY <1>1, <1>3, <1>4 DEF Recorded

LEMMA RepliedStays ==
    ASSUME Sound, Safe', CardInv, NEW S, Gains(log.acked, log'.acked, S),
           faults' \in Nat, faults <= faults', NEW r, Replied(r)
    PROVE  Replied(r)'
<1>1. CASE Recorded(r, {"reply.submitted", "reply.accepted"})
  BY <1>1, RecordedStays DEF Replied
<1>2. CASE faults > 1
  BY <1>2 DEF Replied, CardInv, Told
<1> QED BY <1>1, <1>2 DEF Replied

LEMMA SeenInLog ==
    ASSUME Safe
    PROVE  /\ page.seen \in Seq(LineType) /\ Len(page.seen) \in Nat
           /\ Len(log.acked) \in Nat /\ Len(page.seen) <= Len(log.acked)
           /\ \A i \in 1..Len(page.seen) : page.seen[i] = log.acked[i]
<1>1. Begins(page.seen, log.index) /\ Begins(log.index, log.acked) /\ page.seen \in Seq(LineType)
  BY DEF Safe, PageInv, PageShape, InStream, LogInv, Indexed
<1>2. Len(page.seen) \in Nat /\ Len(log.index) \in Nat /\ Len(log.acked) \in Nat
  BY <1>1, LogLengths, SeqFacts DEF Safe
<1>3. Begins(page.seen, log.acked)
  BY <1>1, <1>2, BeginsTransitive
<1> QED BY <1>1, <1>2, <1>3 DEF Begins

(* The page does not change: whoever is newly parked is still to be heard   *)
(* of.                                                                      *)
LEMMA CardedStays ==
    ASSUME CardInv, Sound, Safe', NEW S, Gains(log.acked, log'.acked, S),
           faults' \in Nat, faults <= faults', parked' \intersect asked \subseteq parked,
           page'.cards = page.cards, page'.seen = page.seen
    PROVE  Carded'
<1>1. ASSUME NEW r \in parked' \ Shown(page.cards), Heard(r)
      PROVE  Excused(r)'
  <2>1. r \in asked
    BY <1>1, SeenInLog DEF Heard, Creates, Mentions, CardInv, Told, Sound
  <2>2. Excused(r)
    BY <1>1, <2>1 DEF CardInv, Carded
  <2>3. CASE After(r, "fresh_clear.boundary", NULL)
    BY <2>3 DEF Excused, After, SeenAt
  <2>4. CASE Recorded(r, {"reply.submitted"})
    BY <2>4, RecordedStays DEF Excused
  <2>5. CASE r \in Questions /\ \E q \in Questions \ {r} : Replied(q)
    BY <2>5, RepliedStays DEF Excused
  <2> QED BY <2>2, <2>3, <2>4, <2>5 DEF Excused
<1>2. \A r : Heard(r)' <=> Heard(r)
  BY DEF Heard
<1> QED BY <1>1, <1>2 DEF Carded, NoStaleCard, CardInv

LEMMA AnsweredStays ==
    ASSUME CardInv, Sound, Safe', NEW S, Gains(log.acked, log'.acked, S),
           faults' \in Nat, faults <= faults',
           asked \subseteq asked', parked' \intersect asked \subseteq parked,
           \A post \in posts' : post.stage = "ok" =>
               \/ \E q \in posts : q.stage = "ok" /\ q.req = post.req
               \/ /\ post.req \in asked' \ parked'
                  /\ post.req \in Questions => Replied(post.req)'
    PROVE  Answered'
<1>1. ASSUME NEW post \in posts', post.stage = "ok"
      PROVE  post.req \in asked' \ parked' /\ (post.req \in Questions => Replied(post.req)')
  <2>1. ASSUME NEW q \in posts, q.stage = "ok", q.req = post.req
        PROVE  post.req \in asked' \ parked' /\ (post.req \in Questions => Replied(post.req)')
    <3>1. q.req \in asked \ parked /\ (q.req \in Questions => Replied(q.req))
      BY <2>1 DEF CardInv, Answered
    <3>2. post.req \in Questions => Replied(post.req)'
      <4>1. HAVE post.req \in Questions
      <4>2. Replied(post.req)
        BY <2>1, <3>1, <4>1
      <4> QED BY <4>2, RepliedStays
    <3> QED BY <2>1, <3>1, <3>2
  <2> QED BY <1>1, <2>1
<1> QED BY <1>1 DEF Answered

(* A handler that asks for nothing.                                         *)
LEMMA EmitCards ==
    ASSUME CardInv, Sound, Safe', NEW events \in Seq(EventType), Len(events) \in 1..3, Emit(events),
           \A i \in 1..Len(events) : Asks(events[i], {}),
           asked' = asked, parked' \subseteq parked
    PROVE  Told' /\ Carded'
<1> DEFINE S == {events[i] : i \in 1..Len(events)}
<1>1. /\ Gains(log.acked, log'.acked, S) /\ faults' \in Nat /\ faults <= faults'
      /\ page'.cards = page.cards /\ page'.seen = page.seen
  BY EmitGains
<1>2. \A e \in S : Asks(e, {})
  OBVIOUS
<1> HIDE DEF S
<1> QED BY <1>1, <1>2, ToldStays, CardedStays

LEMMA EmitAnswers ==
    ASSUME CardInv, Sound, Safe', NEW events \in Seq(EventType), Len(events) \in 1..3, Emit(events),
           asked \subseteq asked', parked' \intersect asked \subseteq parked, posts' \subseteq posts
    PROVE  Answered' /\ QueuedChoice'
<1>1. /\ Gains(log.acked, log'.acked, {events[i] : i \in 1..Len(events)})
      /\ faults' \in Nat /\ faults <= faults'
  BY EmitGains
<1>2. Answered'
  BY <1>1, AnsweredStays
<1> QED BY <1>2 DEF CardInv, QueuedChoice

(* The page alone changes, or nothing.                                      *)
LEMMA SameLog ==
    ASSUME CardInv, Sound, Safe', UNCHANGED <<log, faults, asked, parked>>
    PROVE  /\ Told' /\ Gains(log.acked, log'.acked, {}) /\ faults' \in Nat /\ faults <= faults'
           /\ (\A post \in posts' : post.stage = "ok" =>
                 \E q \in posts : q.stage = "ok" /\ q.req = post.req) => Answered'
<1>1. Gains(log.acked, log'.acked, {}) /\ faults' \in Nat /\ faults <= faults'
  BY GainsNone, LogLengths DEF Sound, Safe, CardInv, Told
<1>2. Told'
  BY DEF CardInv, Told
<1>3. ASSUME \A post \in posts' : post.stage = "ok" =>
                 \E q \in posts : q.stage = "ok" /\ q.req = post.req
      PROVE  Answered'
  BY <1>1, <1>3, AnsweredStays
<1> QED BY <1>1, <1>2, <1>3

LEMMA RunCards ==
    ASSUME CardInv, Sound, Safe', NEW r \in Requests, Ask(r) \/ AskAgain(r) \/ Settle(r) \/ Post(r)
    PROVE  CardInv'
<1>1. CASE Ask(r)
  <2> DEFINE replaced == IF r \in Questions THEN parked \intersect Questions ELSE {}
             declined == CHOOSE q \in replaced : TRUE
             asks == Event("request.created", r)
             declines == Event("request.resolved", declined)
  <2>1. /\ r \notin asked /\ asked' = asked \union {r} /\ parked' = (parked \ replaced) \union {r}
        /\ r \in OwnerChoices => parked \intersect OwnerChoices = {}
        /\ posts' = posts
    BY <1>1 DEF Ask, postVars
  <2>2. asks \in EventType /\ Asks(asks, {r})
    BY EventTyped DEF Types, Event, Asks
  <2>3. \A q \in parked' : ~Rivals(q, r)
    BY <2>1, Kinds DEF Rivals
  <2>4. parked' \subseteq parked \union {r} /\ parked' \intersect asked \subseteq parked
    BY <2>1
  <2>5. PICK events \in Seq(EventType) :
            /\ Len(events) \in 1..3 /\ Emit(events)
            /\ \A i \in 1..Len(events) : Asks(events[i], {r})
    <3>1. CASE replaced = {}
      <4>1. Emit(<<asks>>)
        BY <1>1, <3>1 DEF Ask
      <4>2. PICK events : events = <<asks>>
        OBVIOUS
      <4>3. Emit(events)
        BY <4>1, <4>2
      <4> HIDE DEF asks
      <4>4. events \in Seq(EventType) /\ Len(events) = 1 /\ events[1] = asks
        BY <2>2, <4>2
      <4> QED BY <2>2, <4>3, <4>4
    <3>2. CASE replaced # {}
      <4>1. declined \in replaced
        BY <3>2
      <4>2. declined \in Requests
        BY <4>1 DEF Sound, Safe, Waiting
      <4>3. Emit(<<asks, declines>>)
        BY <1>1, <3>2 DEF Ask
      <4> HIDE DEF declined
      <4>4. declines \in EventType /\ Asks(declines, {r})
        BY <4>2, EventTyped DEF Types, Event, Asks
      <4>5. PICK events : events = <<asks, declines>>
        OBVIOUS
      <4>6. Emit(events)
        BY <4>3, <4>5
      <4> HIDE DEF asks, declines
      <4>7. /\ events \in Seq(EventType) /\ Len(events) = 2
            /\ events[1] = asks /\ events[2] = declines
        BY <2>2, <4>4, <4>5
      <4> QED BY <2>2, <4>4, <4>6, <4>7
    <3> QED BY <3>1, <3>2
  <2> HIDE DEF replaced, asks
  <2>6. PICK S : S = {events[i] : i \in 1..Len(events)}
    OBVIOUS
  <2>7. /\ Gains(log.acked, log'.acked, S) /\ faults' \in Nat /\ faults <= faults'
        /\ page'.cards = page.cards /\ page'.seen = page.seen
    BY <2>5, <2>6, EmitGains
  <2>8. \A e \in S : Asks(e, {r})
    BY <2>5, <2>6
  <2>9. Told'
    BY <2>1, <2>3, <2>4, <2>7, <2>8, ToldAsk
  <2>10. Carded'
    BY <2>4, <2>7, CardedStays
  <2>11. Answered' /\ QueuedChoice'
    BY <2>1, <2>4, <2>5, EmitAnswers
  <2> QED BY <2>9, <2>10, <2>11 DEF CardInv
<1>2. CASE Settle(r)
  <2>1. parked' \subseteq parked /\ asked' = asked /\ posts' = posts
    BY <1>2 DEF Settle, postVars
  <2>2. PICK e : e = Event("request.resolved", r)
    OBVIOUS
  <2>3. e \in EventType /\ Asks(e, {})
    BY <2>2, EventTyped DEF Types, Event, Asks
  <2>4. PICK events : events = <<e>>
    OBVIOUS
  <2>5. /\ events \in Seq(EventType) /\ Len(events) \in 1..3 /\ Emit(events)
        /\ \A i \in 1..Len(events) : Asks(events[i], {})
    BY <1>2, <2>2, <2>3, <2>4 DEF Settle
  <2> QED BY <2>1, <2>5, EmitCards, EmitAnswers DEF CardInv
<1>3. CASE Post(r)
  <2>1. UNCHANGED <<log, faults, asked, parked, page>>
    BY <1>3 DEF Post, logVars, runVars
  <2>2. PICK n : posts' = posts \union {[id |-> n, req |-> r, stage |-> "sent", mine |-> TRUE]}
    BY <1>3 DEF Post
  <2>3. \A post \in posts' : post \in posts \/ post.stage = "sent"
    BY <2>2
  <2>4. Told' /\ Answered' /\ Carded'
    BY <2>1, <2>3, SameLog, CardedStays
  <2> QED BY <2>3, <2>4 DEF CardInv, QueuedChoice
<1>4. CASE AskAgain(r)
  <2>1. r \in parked /\ UNCHANGED <<asked, parked, posts>>
    BY <1>4 DEF AskAgain, runVars, postVars
  <2>2. PICK e : e = Event("request.created", r)
    OBVIOUS
  <2>3. e \in EventType /\ Asks(e, {r})
    BY <2>2, EventTyped DEF Types, Event, Asks
  <2>4. PICK events : events = <<e>>
    OBVIOUS
  <2>5. /\ events \in Seq(EventType) /\ Len(events) \in 1..3 /\ Emit(events)
        /\ \A i \in 1..Len(events) : Asks(events[i], {r})
    BY <1>4, <2>2, <2>3, <2>4 DEF AskAgain
  <2>6. PICK S : S = {events[i] : i \in 1..Len(events)}
    OBVIOUS
  <2>7. /\ Gains(log.acked, log'.acked, S) /\ faults' \in Nat /\ faults <= faults'
        /\ page'.cards = page.cards /\ page'.seen = page.seen
    BY <2>5, <2>6, EmitGains
  <2>8. \A e1 \in S : Asks(e1, {r})
    BY <2>5, <2>6
  <2>9. r \in asked /\ \A q \in parked' : ~Rivals(q, r)
    BY <2>1 DEF CardInv, Told, Sound, Safe, Waiting
  <2>10. Told'
    BY <2>1, <2>7, <2>8, <2>9, ToldAsk
  <2>11. Carded'
    BY <2>1, <2>7, CardedStays
  <2>12. Answered' /\ QueuedChoice'
    BY <2>1, <2>5, EmitAnswers
  <2> QED BY <2>10, <2>11, <2>12 DEF CardInv
<1> QED BY <1>1, <1>2, <1>3, <1>4

LEMMA MarkCards ==
    ASSUME CardInv, Sound, Safe', Boundary \/ End
    PROVE  CardInv'
<1>1. PICK e \in EventType : Asks(e, {}) /\ Emit(<<e>>)
  <2>1. /\ Event("fresh_clear.boundary", NULL) \in EventType
        /\ Asks(Event("fresh_clear.boundary", NULL), {})
        /\ Event("run.ended", NULL) \in EventType
        /\ Asks(Event("run.ended", NULL), {})
    BY EventTyped DEF Types, Event, Asks
  <2> QED BY <2>1 DEF Boundary, End
<1>2. parked' = parked /\ asked' = asked /\ posts' = posts
  BY DEF Boundary, End, runVars, postVars
<1>3. PICK events : events = <<e>>
  OBVIOUS
<1>4. /\ events \in Seq(EventType) /\ Len(events) \in 1..3 /\ Emit(events)
      /\ \A i \in 1..Len(events) : Asks(events[i], {})
  BY <1>1, <1>3
<1> QED BY <1>2, <1>4, EmitCards, EmitAnswers DEF CardInv

LEMMA LogCards ==
    ASSUME CardInv, Sound, Safe', WriteArtifact \/ Crash \/ CloseServer
    PROVE  CardInv'
<1> DEFINE e == Event("artifact.written", NULL)
<1>1. e \in EventType /\ e.type = "artifact.written" /\ Asks(e, {})
  BY EventTyped DEF Types, Event, Asks
<1>2. /\ UNCHANGED <<asked, parked, posts, page>> /\ faults' \in Nat /\ faults <= faults'
  BY DEF WriteArtifact, Crash, CloseServer, logVars, runVars, postVars, CardInv, Told
<1>3. log' = log \/ \E outcome \in Outcomes : log' = WriteLine(log, e, outcome)
  BY DEF WriteArtifact, RecordAside, Crash, CloseServer, logVars, Outcomes, Faults
<1> HIDE DEF e
<1>4. Gains(log.acked, log'.acked, {e})
  <2>0. log.acked \in Seq(LineType) /\ LogInv(log)
    BY LogLengths DEF Sound, Safe
  <2>1. CASE log' = log
    BY <2>0, <2>1, GainsNone
  <2>2. ASSUME NEW outcome \in Faults, log' = WriteLine(log, e, outcome)
        PROVE  <1>4
    BY <1>1, <2>0, <2>2, WriteKeeps, GainsNone
  <2>3. CASE log' = WriteLine(log, e, "ok")
    <3>1. log'.acked = Append(log.acked, Line(log, e)) /\ Line(log, e) \in LineType
      BY <1>1, <2>0, <2>3, WriteAcks
    <3>2. Line(log, e).type = e.type /\ Line(log, e).req = e.req
      BY DEF Line
    <3> QED BY <2>0, <3>1, <3>2, GainsOne
  <2> QED BY <1>3, <2>1, <2>2, <2>3 DEF Outcomes
<1>5. Told' /\ Carded'
  BY <1>1, <1>2, <1>4, ToldStays, CardedStays
<1>6. Answered'
  BY <1>2, <1>4, AnsweredStays
<1> QED BY <1>2, <1>5, <1>6 DEF CardInv, QueuedChoice

(* The owner's replies.                                                     *)
LEMMA CommitCards ==
    ASSUME CardInv, Sound, Safe', NEW post \in posts, CommitChoice(post)
    PROVE  CardInv'
<1>1. /\ UNCHANGED <<log, faults, asked, page>> /\ parked' \subseteq parked
      /\ posts' = At(post, "committed") /\ post.stage = "queued"
  BY DEF CommitChoice, logVars
<1>2. Gains(log.acked, log'.acked, {}) /\ faults' \in Nat /\ faults <= faults'
  BY <1>1, GainsNone, LogLengths DEF Sound, Safe, CardInv, Told
<1>3. Told' /\ Carded'
  BY <1>1, <1>2, ToldStays, CardedStays
<1>4. \A p \in posts' : p \in posts \/ (p.req = post.req /\ p.stage = "committed")
  BY <1>1, Restaged DEF Sound
<1>5. Answered'
  BY <1>1, <1>2, <1>4, AnsweredStays
<1> QED BY <1>1, <1>3, <1>4, <1>5 DEF CardInv, QueuedChoice

LEMMA ReplyCards ==
    ASSUME CardInv, Sound, Safe', NEW post \in posts,
           \/ AcceptReply(post) \/ RefuseReply(post) \/ QueueChoice(post)
           \/ AnswerChoice(post) \/ RefuseChoice(post)
    PROVE  CardInv'
<1>1. PICK r, submits, resolves, accepts, refuses :
          /\ r = post.req
          /\ submits = Event("reply.submitted", r) /\ resolves = Event("request.resolved", r)
          /\ accepts = Event("reply.accepted", r) /\ refuses = Event("reply.refused", r)
  OBVIOUS
<1>2. r \in Requests
  BY <1>1, PostTyped DEF Sound
<1>3. /\ submits \in EventType /\ Asks(submits, {}) /\ resolves \in EventType /\ Asks(resolves, {})
      /\ accepts \in EventType /\ Asks(accepts, {}) /\ refuses \in EventType /\ Asks(refuses, {})
      /\ submits.type = "reply.submitted" /\ accepts.type = "reply.accepted"
      /\ submits.req = r /\ accepts.req = r
  BY <1>1, <1>2, EventTyped DEF Types, Event, Asks
<1>4. asked' = asked /\ parked' \subseteq parked
  BY DEF AcceptReply, RefuseReply, QueueChoice, AnswerChoice, RefuseChoice, runVars
<1>5. PICK events \in Seq(EventType) :
          /\ Len(events) \in 1..3 /\ Emit(events)
          /\ \A i \in 1..Len(events) : Asks(events[i], {})
  <2>1. \/ Emit(<<submits, resolves, accepts>>) \/ Emit(<<submits, refuses>>)
        \/ Emit(<<submits>>) \/ Emit(<<accepts>>) \/ Emit(<<refuses>>)
    BY <1>1 DEF AcceptReply, RefuseReply, QueueChoice, AnswerChoice, RefuseChoice
  <2>2. PICK events : /\ Emit(events)
                      /\ \/ events = <<submits, resolves, accepts>> \/ events = <<submits, refuses>>
                         \/ events = <<submits>> \/ events = <<accepts>> \/ events = <<refuses>>
    BY <2>1
  <2>3. ASSUME NEW a \in EventType, NEW b \in EventType, NEW c \in EventType,
               Asks(a, {}), Asks(b, {}), Asks(c, {}), NEW list \in {<<a>>, <<a, b>>, <<a, b, c>>}
        PROVE  /\ list \in Seq(EventType) /\ Len(list) \in 1..3
               /\ \A i \in 1..Len(list) : Asks(list[i], {})
    <3>1. CASE list = <<a>>
      <4>1. list \in Seq(EventType) /\ Len(list) = 1 /\ list[1] = a
        BY <3>1
      <4> QED BY <2>3, <4>1
    <3>2. CASE list = <<a, b>>
      <4>1. list \in Seq(EventType) /\ Len(list) = 2 /\ list[1] = a /\ list[2] = b
        BY <3>2
      <4> QED BY <2>3, <4>1
    <3>3. CASE list = <<a, b, c>>
      <4>1. /\ list \in Seq(EventType) /\ Len(list) = 3
            /\ list[1] = a /\ list[2] = b /\ list[3] = c
        BY <3>3
      <4> QED BY <2>3, <4>1
    <3> QED BY <2>3, <3>1, <3>2, <3>3
  <2>4. /\ events \in Seq(EventType) /\ Len(events) \in 1..3
        /\ \A i \in 1..Len(events) : Asks(events[i], {})
    BY <1>3, <2>2, <2>3
  <2> QED BY <2>2, <2>4
<1>6. Told' /\ Carded'
  BY <1>4, <1>5, EmitCards
<1>7. /\ Gains(log.acked, log'.acked, {events[i] : i \in 1..Len(events)})
      /\ faults' \in Nat /\ faults <= faults'
  BY <1>5, EmitGains
<1>8. CASE RefuseReply(post) \/ RefuseChoice(post)
  <2>1. posts' \subseteq posts
    BY <1>8 DEF RefuseReply, RefuseChoice
  <2> QED BY <1>4, <1>5, <1>6, <2>1, EmitAnswers DEF CardInv
<1>9. CASE QueueChoice(post)
  <2>1. r \in OwnerChoices /\ posts' = At(post, "queued")
    BY <1>1, <1>9 DEF QueueChoice
  <2>2. \A p \in posts' : p \in posts \/ (p.req = r /\ p.stage = "queued")
    BY <1>1, <2>1, Restaged DEF Sound
  <2>3. Answered'
    BY <1>4, <1>7, <2>2, AnsweredStays
  <2> QED BY <1>6, <2>1, <2>2, <2>3 DEF CardInv, QueuedChoice
<1>10. CASE AcceptReply(post) \/ AnswerChoice(post)
  <2>1. r \in asked' \ parked' /\ posts' = At(post, "ok")
    <3>1. CASE AcceptReply(post)
      BY <1>1, <1>4, <3>1 DEF AcceptReply, Sound, Safe, Waiting
    <3>2. CASE AnswerChoice(post)
      BY <1>1, <3>2 DEF AnswerChoice, Sound, Committed, Committing, runVars
    <3> QED BY <1>10, <3>1, <3>2
  <2>2. \A p \in posts' : p \in posts \/ (p.req = r /\ p.stage = "ok")
    BY <1>1, <2>1, Restaged DEF Sound
  <2>3. r \in Questions => Replied(r)'
    <3>1. CASE AcceptReply(post)
      <4>1. Emit(<<submits, resolves, accepts>>)
        BY <1>1, <3>1 DEF AcceptReply
      <4>2. ~Unsaid(log'.acked, submits) \/ ~Unsaid(log'.acked, accepts) \/ faults' > 1
        BY <1>3, <4>1, RepliesRecorded
      <4> QED BY <1>3, <4>2 DEF Unsaid, Replied, Recorded, Mentions
    <3>2. CASE AnswerChoice(post)
      BY <1>1, <3>2, Kinds DEF AnswerChoice, CardInv, QueuedChoice
    <3> QED BY <1>10, <3>1, <3>2
  <2>4. Answered'
    BY <1>4, <1>7, <2>1, <2>2, <2>3, AnsweredStays
  <2> QED BY <1>6, <2>2, <2>4 DEF CardInv, QueuedChoice
<1> QED BY <1>8, <1>9, <1>10

LEMMA HearCards ==
    ASSUME CardInv, Sound, Safe', NEW post \in posts, Hear(post)
    PROVE  CardInv'
<1>1. UNCHANGED <<log, faults, asked, parked>> /\ posts' \subseteq posts /\ post.stage = "ok"
  BY DEF Hear, logVars, runVars
<1>2. Told' /\ Answered' /\ QueuedChoice'
  BY <1>1, SameLog DEF CardInv, QueuedChoice
<1>3. /\ page'.seen = page.seen
      /\ page'.cards = IF ~post.mine THEN page.cards
                       ELSE IF post.req \in Questions THEN [page.cards EXCEPT !.question = NULL]
                       ELSE WithoutCard(page.cards, post.req)
  BY DEF Hear, Sound, Safe, PageInv, PageShape
<1>4. post.req \notin parked /\ (post.req \in Questions => Replied(post.req))
  BY <1>1 DEF CardInv, Answered
<1>5. PICK cards, new : cards = page.cards /\ new = page'.cards
  OBVIOUS
<1>6. cards \in CardsType
  BY <1>5 DEF CardInv, Carded
<1>7. /\ new \in CardsType /\ Shown(new) \subseteq Shown(cards)
      /\ \A r \in Shown(cards) \ Shown(new) :
            r = post.req \/ (r \in Questions /\ post.req \in Questions)
  <2>1. CASE ~post.mine
    BY <1>3, <1>5, <1>6, <2>1
  <2>2. CASE post.mine /\ post.req \in Questions
    <3>1. new = [cards EXCEPT !.question = NULL]
      BY <1>3, <1>5, <2>2
    <3> QED BY <1>6, <2>2, <3>1 DEF CardsType, Shown
  <2>3. CASE post.mine /\ post.req \notin Questions
    <3>1. new = WithoutCard(cards, post.req)
      BY <1>3, <1>5, <2>3
    <3> QED BY <1>6, <3>1 DEF CardsType, Shown, WithoutCard
  <2> QED BY <2>1, <2>2, <2>3
<1>8. NoStaleCard'
  BY <1>3, <1>5, <1>7 DEF CardInv, Carded, NoStaleCard
<1>9. ASSUME NEW r \in parked \ Shown(new), Heard(r)
      PROVE  Excused(r)
  <2>1. CASE r \notin Shown(cards)
    BY <1>5, <1>9, <2>1 DEF CardInv, Carded
  <2>2. CASE r \in Shown(cards)
    BY <1>4, <1>7, <1>9, <2>2 DEF Excused
  <2> QED BY <2>1, <2>2
<1>10. \A r : (Heard(r)' <=> Heard(r)) /\ (Excused(r)' <=> Excused(r))
  BY <1>1, <1>3 DEF Heard, Excused, After, SeenAt, Recorded, Replied
<1> QED BY <1>1, <1>2, <1>5, <1>7, <1>8, <1>9, <1>10 DEF CardInv, Carded

(* Which of the pending requests the bootstrap shows.                       *)
Closers == {"request.created", "request.resolved", "reply.accepted"}
LEMMA PendingAppend ==
    ASSUME NEW s \in Seq(LineType), NEW line \in LineType, NEW r \in Requests,
           \/ Creates(line, r)
           \/ r \in Pending(s) /\ ~Mentions(line, r, Closers)
    PROVE  r \in Pending(Append(s, line))
<1>1. PICK n, t : n = Len(s) /\ t = Append(s, line)
  OBVIOUS
<1>2. /\ n \in Nat /\ t \in Seq(LineType) /\ Len(t) = n + 1 /\ t[n + 1] = line
      /\ \A i \in 1..n : t[i] = s[i]
  BY <1>1, SeqFacts, AppendFacts
<1>3. CASE Creates(line, r)
  <2>1. n + 1 \in LastCreated(t, r)
    BY <1>2, <1>3 DEF LastCreated, Creates
  <2> QED BY <1>1, <2>1 DEF Pending
<1>4. CASE r \in Pending(s) /\ ~Mentions(line, r, Closers)
  <2>1. PICK i \in LastCreated(s, r) : TRUE
    BY <1>4 DEF Pending
  <2>2. i \in 1..n /\ Creates(s[i], r) /\ \A j \in (i + 1)..n : ~Mentions(s[j], r, Closers)
    BY <1>1, <2>1 DEF LastCreated, Creates, Closers
  <2>3. \A j \in (i + 1)..(n + 1) : ~Mentions(t[j], r, Closers)
    <3>1. ASSUME NEW j \in (i + 1)..(n + 1) PROVE ~Mentions(t[j], r, Closers)
      <4>1. CASE j = n + 1
        BY <1>2, <1>4, <4>1
      <4>2. CASE j \in (i + 1)..n
        BY <1>2, <2>2, <4>2
      <4> QED BY <1>2, <2>2, <4>1, <4>2
    <3> QED BY <3>1
  <2>4. i \in LastCreated(t, r)
    BY <1>2, <2>2, <2>3 DEF LastCreated, Creates, Closers
  <2> QED BY <1>1, <2>4 DEF Pending
<1> QED BY <1>3, <1>4

LEMMA OneLastCreated ==
    ASSUME NEW s \in Seq(LineType), NEW r, NEW i \in LastCreated(s, r), NEW j \in LastCreated(s, r)
    PROVE  i = j
<1>1. Len(s) \in Nat
  BY SeqFacts
<1> QED BY <1>1 DEF LastCreated, Mentions

LEMMA NewestListed ==
    ASSUME NEW s \in Seq(LineType), NEW S, S \subseteq Requests, Listed(s, S) # {}
    PROVE  /\ Newest(s, S) \in Listed(s, S)
           /\ \A q \in Listed(s, S) :
                 \E i \in LastCreated(s, Newest(s, S)) : \A j \in LastCreated(s, q) : j <= i
<1> DEFINE Late(r) == \A q \in Listed(s, S) :
                          \E i \in LastCreated(s, r) : \A j \in LastCreated(s, q) : j <= i
           at == {i \in 1..Len(s) : \E q \in Listed(s, S) : i \in LastCreated(s, q)}
<1>1. Len(s) \in Nat
  BY SeqFacts
<1>2. \A q \in Listed(s, S) : LastCreated(s, q) # {} /\ LastCreated(s, q) \subseteq at
  BY DEF Listed, Pending, LastCreated
<1>3. at # {} /\ at \subseteq 1..Len(s)
  BY <1>2
<1> HIDE DEF at
<1>4. PICK x \in at : \A y \in at : y <= x
  BY <1>1, <1>3, Greatest
<1>5. PICK r \in Listed(s, S) : x \in LastCreated(s, r)
  BY <1>4 DEF at
<1>6. Late(r)
  BY <1>2, <1>4, <1>5
<1>7. Newest(s, S) = CHOOSE q \in Listed(s, S) : Late(q)
  BY DEF Newest
<1> HIDE DEF Late
<1>8. Newest(s, S) \in Listed(s, S) /\ Late(Newest(s, S))
  BY <1>5, <1>6, <1>7
<1> QED BY <1>8 DEF Late

(* Who waits has been asked for, and nothing has closed the request since.  *)
LEMMA NotClosed ==
    ASSUME Sound, NEW r \in parked, NEW i \in 1..Len(log.acked)
    PROVE  ~Mentions(log.acked[i], r, {"request.resolved", "reply.accepted"})
<1>1. SUFFICES ASSUME NEW t \in {"request.resolved", "reply.accepted"},
                      log.acked[i].req = r, log.acked[i].type = t
               PROVE  FALSE
  BY DEF Mentions
<1>2. r \in Requests /\ r \in Open
  BY DEF Sound, Safe, Waiting, Open
<1>3. PICK e : e = Event(t, r)
  OBVIOUS
<1>4. e \in EventType /\ e.type = t /\ e.req = r
  BY <1>2, <1>3, EventTyped DEF Types, Event
<1>5. Unsaid(log.acked, e)
  BY <1>2, <1>4 DEF Sound, Decided, Deciding
<1> QED BY <1>1, <1>4, <1>5 DEF Unsaid

LEMMA ParkedPending ==
    ASSUME Sound, NEW s \in Seq(LineType), Begins(s, log.acked), NEW r \in parked,
           NEW k \in 1..Len(s), Creates(s[k], r)
    PROVE  r \in Pending(s)
<1> DEFINE at == {i \in 1..Len(s) : Creates(s[i], r)}
<1>1. Len(s) \in Nat /\ r \in Requests /\ Len(log.acked) \in Nat
  BY SeqFacts, LogLengths DEF Sound, Safe, Waiting
<1>2. PICK x \in at : \A y \in at : y <= x
  <2>1. at # {} /\ at \subseteq 1..Len(s)
    OBVIOUS
  <2> HIDE DEF at
  <2> QED BY <1>1, <2>1, Greatest
<1>3. ASSUME NEW j \in (x + 1)..Len(s)
      PROVE  ~Mentions(s[j], r, Closers)
  <2>1. j \in 1..Len(log.acked) /\ s[j] = log.acked[j] /\ j \notin at /\ j \in 1..Len(s)
    BY <1>1, <1>2 DEF Begins
  <2>2. ~Mentions(s[j], r, {"request.resolved", "reply.accepted"})
    BY <2>1, NotClosed
  <2> QED BY <2>1, <2>2 DEF Creates, Mentions, Closers
<1>4. x \in LastCreated(s, r)
  BY <1>2, <1>3 DEF LastCreated, Creates, Closers
<1> QED BY <1>1, <1>4 DEF Pending

(* Of two requests for one slot the one that waits came last.               *)
LEMMA ParkedNewest ==
    ASSUME Sound, CardInv, NEW s \in Seq(LineType), Begins(s, log.acked),
           NEW S \in {Questions, OwnerChoices}, NEW r \in parked \intersect Listed(s, S)
    PROVE  Newest(s, S) = r
<1>1. S \subseteq Requests
  BY DEF Requests
<1>2. PICK q : q = Newest(s, S)
  OBVIOUS
<1>3. /\ q \in Listed(s, S)
      /\ \E i \in LastCreated(s, q) : \A j \in LastCreated(s, r) : j <= i
  BY <1>1, <1>2, NewestListed
<1>4. PICK i \in LastCreated(s, q) : \A j \in LastCreated(s, r) : j <= i
  BY <1>3
<1>5. PICK j \in LastCreated(s, r) : j <= i
  BY <1>4 DEF Listed, Pending
<1>6. /\ i \in 1..Len(s) /\ j \in 1..Len(s) /\ Len(s) \in Nat /\ Len(log.acked) \in Nat
      /\ Creates(s[i], q) /\ Creates(s[j], r)
  BY <1>4, <1>5, SeqFacts, LogLengths DEF LastCreated, Creates, Sound, Safe
<1>7. /\ i \in 1..Len(log.acked) /\ j \in 1..Len(log.acked)
      /\ Creates(log.acked[i], q) /\ Creates(log.acked[j], r)
  BY <1>6 DEF Begins
<1>8. SUFFICES ASSUME q # r PROVE FALSE
  BY <1>2
<1>9. j < i
  BY <1>5, <1>6, <1>8 DEF Creates, Mentions
<1>10. ~Rivals(r, q)
  BY <1>7, <1>9 DEF CardInv, Told, Creates, Mentions
<1> QED BY <1>3, <1>8, <1>10 DEF Rivals, Listed

(* What the page knew excuses a missing card as long as it is not loaded    *)
(* again.                                                                   *)
LEMMA ExcusedStays ==
    ASSUME Safe, UNCHANGED <<log, faults>>, Len(page'.seen) \in Nat, Begins(page.seen, page'.seen),
           NEW r, Excused(r)
    PROVE  Excused(r)'
<1>1. Len(page.seen) \in Nat
  BY SeenInLog
<1>2. \A t, q, i : i \in SeenAt(t, q) => i \in SeenAt(t, q)'
  BY <1>1 DEF SeenAt, Begins
<1>3. After(r, "fresh_clear.boundary", NULL) => After(r, "fresh_clear.boundary", NULL)'
  BY <1>2 DEF After
<1> QED BY <1>3 DEF Excused, Recorded, Replied

LEMMA HydrateCards ==
    ASSUME CardInv, Sound, Safe', Hydrate
    PROVE  CardInv'
<1>1. UNCHANGED <<log, faults, asked, parked, posts>>
  BY DEF Hydrate, logVars, runVars, postVars
<1>2. Told' /\ Answered' /\ QueuedChoice'
  BY <1>1, SameLog DEF CardInv, QueuedChoice
<1>3. PICK boot, cards : boot = page.boot /\ cards = BootstrapCards(boot)
  OBVIOUS
<1>4. page'.seen = boot /\ page'.cards = cards
  BY <1>3 DEF Hydrate, Sound, Safe, PageInv, PageShape
<1>5. boot \in Seq(LineType) /\ Begins(boot, log.acked)
  <2>1. boot \in Seq(LineType) /\ Begins(boot, log.index) /\ Begins(log.index, log.acked)
    BY <1>3 DEF Hydrate, Sound, Safe, PageInv, PageShape, InStream, LogInv, Indexed
  <2> QED BY <2>1, SeqFacts, LogLengths, BeginsTransitive DEF Sound, Safe
<1>6. /\ cards.question = Newest(boot, Questions) /\ cards.choice = Newest(boot, OwnerChoices)
      /\ cards.approvals = Listed(boot, Approvals)
      /\ cards = [question |-> cards.question, choice |-> cards.choice,
                  approvals |-> cards.approvals]
  BY <1>3 DEF BootstrapCards
<1>7. ASSUME NEW S, S \subseteq Requests
      PROVE  Newest(boot, S) \in Listed(boot, S) \union {NULL}
  <2>1. CASE Listed(boot, S) = {}
    BY <2>1 DEF Newest
  <2>2. CASE Listed(boot, S) # {}
    BY <1>5, <1>7, <2>2, NewestListed
  <2> QED BY <2>1, <2>2
<1>8. \A S : Listed(boot, S) \subseteq S /\ Listed(boot, S) \subseteq Pending(boot)
  BY DEF Listed
<1>9. Questions \subseteq Requests /\ OwnerChoices \subseteq Requests
  BY DEF Requests
<1>10. cards \in CardsType
  <2>1. cards.question \in Questions \union {NULL} /\ cards.choice \in OwnerChoices \union {NULL}
    BY <1>6, <1>7, <1>8, <1>9
  <2>2. cards.approvals \in SUBSET Approvals
    BY <1>6, <1>8
  <2> QED BY <1>6, <2>1, <2>2 DEF CardsType
<1>11. NoStaleCard'
  <2>1. Shown(cards) \subseteq Pending(boot)
    BY <1>6, <1>7, <1>8, <1>9 DEF Shown
  <2> QED BY <1>4, <2>1 DEF NoStaleCard
<1>12. ASSUME NEW r \in parked \ Shown(cards), NEW k \in 1..Len(boot), Creates(boot[k], r)
       PROVE  Recorded(r, {"reply.submitted"})
  <2>1. r \in Pending(boot) /\ r \in Requests
    BY <1>5, <1>12, ParkedPending DEF Pending
  <2>2. ASSUME NEW S \in {Questions, OwnerChoices}, r \in Listed(boot, S)
        PROVE  FALSE
    <3>1. Newest(boot, S) = r
      BY <1>5, <2>2, ParkedNewest
    <3> QED BY <1>6, <1>12, <2>1, <2>2, <3>1, Kinds DEF Shown
  <2>3. r \notin Listed(boot, Approvals)
    BY <1>6, <1>12 DEF Shown
  <2>4. r \in Submitted(boot)
    BY <2>1, <2>2, <2>3 DEF Listed, Requests
  <2>5. PICK i \in 1..Len(boot) : Mentions(boot[i], r, {"reply.submitted"})
    BY <2>4 DEF Submitted
  <2>6. i \in 1..Len(log.acked) /\ boot[i] = log.acked[i]
    BY <1>5, <2>5, SeqFacts, LogLengths DEF Begins, Sound, Safe
  <2> QED BY <2>5, <2>6 DEF Recorded
<1>13. \A r \in parked' \ Shown(page'.cards) : Heard(r)' => Excused(r)'
  BY <1>1, <1>4, <1>12 DEF Heard, Excused, Recorded
<1> QED BY <1>2, <1>4, <1>10, <1>11, <1>13 DEF CardInv, Carded

LEMMA ReceiveCards ==
    ASSUME CardInv, Sound, Safe', Receive
    PROVE  CardInv'
<1>1. UNCHANGED <<log, faults, asked, parked, posts>>
  BY DEF Receive, logVars, runVars, postVars
<1>2. Told' /\ Answered' /\ QueuedChoice'
  BY <1>1, SameLog DEF CardInv, QueuedChoice
<1>3. PICK seen, line, cards, new :
          /\ seen = page.seen /\ line = page.wire[1]
          /\ cards = page.cards /\ new = ApplyEvent(cards, line)
  OBVIOUS
<1>4. page'.seen = Append(seen, line) /\ page'.cards = new
  BY <1>3 DEF Receive, Sound, Safe, PageInv, PageShape
<1>5. line \in LineType /\ seen \in Seq(LineType)
  BY <1>3, SeqFacts, EmptySeq DEF Receive, Sound, Safe, PageInv, PageShape
<1>6. PICK n, s : n = Len(seen) /\ s = page'.seen
  OBVIOUS
<1>7. /\ n \in Nat /\ s \in Seq(LineType) /\ Len(s) = n + 1 /\ s[n + 1] = line
      /\ \A i \in 1..n : s[i] = seen[i]
  BY <1>4, <1>5, <1>6, SeqFacts, AppendFacts
<1>8. /\ Len(log.acked) \in Nat /\ n + 1 <= Len(log.acked)
      /\ \A i \in 1..(n + 1) : s[i] = log.acked[i]
  <2>1. /\ Begins(s, log.index) /\ Begins(log.index, log.acked)
        /\ Len(log.index) \in Nat /\ Len(log.acked) \in Nat
    BY <1>1, <1>6, LogLengths DEF Safe, PageInv, InStream, LogInv, Indexed, Sound
  <2>2. Begins(s, log.acked)
    BY <1>7, <2>1, BeginsTransitive
  <2> QED BY <1>7, <2>1, <2>2 DEF Begins
<1>9. /\ line.type = "request.created" => line.req \in Requests
      /\ line.type = "fresh_clear.boundary" => line.req = NULL
  BY <1>7, <1>8 DEF CardInv, Told, Sound, Safe, Waiting
<1>10. cards \in CardsType /\ Shown(cards) \subseteq Pending(seen)
  BY <1>3 DEF CardInv, Carded, NoStaleCard
<1>12. /\ new \in CardsType
       /\ \A r \in Shown(new) : Creates(line, r) \/ (r \in Shown(cards) /\ ~Mentions(line, r, Closers))
       /\ \A r \in Shown(cards) \ Shown(new) :
             \/ line.type = "request.created" /\ Rivals(r, line.req)
             \/ Mentions(line, r, {"request.resolved", "reply.accepted"})
             \/ line.type = "fresh_clear.boundary"
       /\ \A r : Creates(line, r) => r \in Shown(new)
  <2>1. CASE line.type = "request.created"
    <3>1. PICK q : q = line.req
      OBVIOUS
    <3>2. new = WithCard(cards, q) /\ q \in Requests /\ q # NULL
      BY <1>3, <1>9, <2>1, <3>1, Kinds DEF ApplyEvent
    <3>3. /\ new \in CardsType
          /\ Shown(new) \subseteq Shown(cards) \union {q} /\ q \in Shown(new)
          /\ \A r \in Shown(cards) \ Shown(new) : Rivals(r, q)
      <4>1. CASE q \in Questions
        <5>1. new = [cards EXCEPT !.question = q]
          BY <3>2, <4>1, Kinds DEF WithCard
        <5> QED BY <1>10, <3>2, <4>1, <5>1 DEF CardsType, Shown, Rivals
      <4>2. CASE q \in OwnerChoices
        <5>1. new = [cards EXCEPT !.choice = q]
          BY <3>2, <4>2, Kinds DEF WithCard
        <5> QED BY <1>10, <3>2, <4>2, <5>1 DEF CardsType, Shown, Rivals
      <4>3. CASE q \in Approvals
        <5>1. new = [cards EXCEPT !.approvals = @ \union {q}]
          BY <3>2, <4>3, Kinds DEF WithCard
        <5> QED BY <1>10, <3>2, <4>3, <5>1 DEF CardsType, Shown, Rivals
      <4> QED BY <3>2, <4>1, <4>2, <4>3 DEF Requests
    <3>4. \A r \in Shown(new) : Creates(line, r) \/ (r \in Shown(cards) /\ ~Mentions(line, r, Closers))
      BY <2>1, <3>1, <3>3 DEF Creates, Mentions
    <3> QED BY <2>1, <3>1, <3>3, <3>4 DEF Creates, Mentions
  <2>2. CASE line.type \in {"request.resolved", "reply.accepted"}
    <3>1. PICK q : q = line.req
      OBVIOUS
    <3>2. new = WithoutCard(cards, q)
      BY <1>3, <2>2, <3>1 DEF ApplyEvent
    <3>3. /\ new \in CardsType /\ Shown(new) \subseteq Shown(cards) \ {q}
          /\ \A r \in Shown(cards) \ Shown(new) : r = q
      BY <1>10, <3>2 DEF CardsType, Shown, WithoutCard
    <3> QED BY <2>2, <3>1, <3>3 DEF Creates, Mentions
  <2>3. CASE line.type = "fresh_clear.boundary"
    <3>1. new = NoCards
      BY <1>3, <2>3 DEF ApplyEvent
    <3> QED BY <2>3, <3>1 DEF NoCards, CardsType, Shown, Creates, Mentions
  <2>4. CASE line.type \notin Closers \union {"fresh_clear.boundary"}
    <3>1. new = cards
      BY <1>3, <2>4 DEF ApplyEvent, Closers
    <3> QED BY <1>10, <2>4, <3>1 DEF Creates, Mentions, Closers
  <2> QED BY <2>1, <2>2, <2>3, <2>4 DEF Closers
<1>13. NoStaleCard'
  <2>1. ASSUME NEW r \in Shown(new) PROVE r \in Pending(s)
    <3>1. r \in Requests
      BY <1>9, <1>10, <1>12 DEF Pending, Creates, Mentions
    <3> QED BY <1>4, <1>5, <1>6, <1>10, <1>12, <3>1, PendingAppend
  <2> QED BY <1>4, <1>6, <2>1 DEF NoStaleCard
<1>14. ASSUME NEW r \in parked \ Shown(new), NEW k \in 1..(n + 1), Creates(s[k], r)
       PROVE  Excused(r)'
  <2>1. CASE r \notin Shown(cards)
    <3>1. k # n + 1
      BY <1>7, <1>12, <1>14
    <3>2. k \in 1..n /\ Creates(seen[k], r)
      BY <1>7, <1>14, <3>1
    <3>3. Excused(r)
      BY <1>3, <1>6, <1>14, <2>1, <3>2 DEF CardInv, Carded, Heard
    <3>4. Begins(page.seen, page'.seen) /\ Len(page'.seen) \in Nat
      BY <1>3, <1>6, <1>7 DEF Begins
    <3> QED BY <1>1, <3>3, <3>4, ExcusedStays DEF Sound
  <2>2. CASE r \in Shown(cards)
    <3>1. PICK i \in 1..n : Creates(s[i], r)
      <4>1. PICK i \in LastCreated(seen, r) : TRUE
        BY <1>10, <2>2 DEF Pending
      <4>2. i \in 1..n /\ Creates(seen[i], r)
        BY <1>6, <4>1 DEF LastCreated, Creates
      <4> QED BY <1>7, <4>2
    <3>2. ~(line.type = "request.created" /\ Rivals(r, line.req))
      <4>1. /\ i \in 1..Len(log.acked) /\ n + 1 \in 1..Len(log.acked) /\ i < n + 1
            /\ Creates(log.acked[i], r) /\ log.acked[n + 1] = line
        BY <1>7, <1>8, <3>1
      <4> QED BY <1>14, <4>1 DEF CardInv, Told
    <3>3. ~Mentions(line, r, {"request.resolved", "reply.accepted"})
      <4>1. n + 1 \in 1..Len(log.acked) /\ log.acked[n + 1] = line
        BY <1>7, <1>8
      <4> QED BY <1>14, <4>1, NotClosed
    <3>4. line.type = "fresh_clear.boundary" /\ line.req = NULL
      BY <1>9, <1>12, <1>14, <2>2, <3>2, <3>3
    <3>5. i \in SeenAt("request.created", r)' /\ n + 1 \in SeenAt("fresh_clear.boundary", NULL)'
      BY <1>6, <1>7, <3>1, <3>4 DEF SeenAt, Creates, Mentions
    <3>6. i < n + 1
      BY <1>7, <3>1
    <3> QED BY <3>5, <3>6 DEF Excused, After
  <2> QED BY <2>1, <2>2
<1>15. \A r \in parked' \ Shown(page'.cards) : Heard(r)' => Excused(r)'
  BY <1>1, <1>4, <1>6, <1>7, <1>14 DEF Heard
<1> QED BY <1>2, <1>4, <1>12, <1>13, <1>15 DEF CardInv, Carded

LEMMA PageCards ==
    ASSUME CardInv, Sound, Safe', AnswerBootstrap \/ Connect \/ BreakConnection \/ Reload
    PROVE  CardInv'
<1>1. UNCHANGED <<log, faults, asked, parked>>
  BY DEF AnswerBootstrap, Connect, BreakConnection, Reload, logVars, runVars, postVars
<1>2. CASE AnswerBootstrap \/ Connect \/ BreakConnection
  <2>1. posts' = posts
    BY <1>2 DEF AnswerBootstrap, Connect, BreakConnection, postVars
  <2>2. page'.cards = page.cards /\ page'.seen = page.seen
    BY <1>2 DEF AnswerBootstrap, Connect, BreakConnection, Disconnected, Drained,
                Sound, Safe, PageInv, PageShape
  <2>3. Told' /\ Answered' /\ Carded'
    BY <1>1, <2>1, <2>2, SameLog, CardedStays
  <2> QED BY <2>1, <2>3 DEF CardInv, QueuedChoice
<1>3. CASE Reload
  <2>1. \A post \in posts' : \E q \in posts : q.req = post.req /\ q.stage = post.stage
    <3>1. \A q \in posts : [q EXCEPT !.mine = FALSE].req = q.req /\ [q EXCEPT !.mine = FALSE].stage = q.stage
      BY DEF Sound, Safe, Waiting
    <3>2. posts' = {[q EXCEPT !.mine = FALSE] : q \in posts}
      BY <1>3 DEF Reload
    <3> QED BY <3>1, <3>2
  <2>2. page'.cards = NoCards /\ page'.seen = <<>>
    BY <1>3 DEF Reload, Disconnected, Sound, Safe, PageInv, PageShape
  <2>3. Told' /\ Answered'
    BY <1>1, <2>1, SameLog
  <2>4. QueuedChoice'
    BY <2>1 DEF CardInv, QueuedChoice
  <2>5. Carded'
    BY <2>2 DEF Carded, CardsType, NoCards, NoStaleCard, Shown, Heard
  <2> QED BY <2>3, <2>4, <2>5 DEF CardInv
<1> QED BY <1>2, <1>3

LEMMA CardsStay ==
    ASSUME CardInv, Sound, Safe', [Next]_vars
    PROVE  CardInv'
<1>1. CASE \E r \in Requests : Ask(r) \/ AskAgain(r) \/ Settle(r) \/ Post(r)
  <2>1. PICK r \in Requests : Ask(r) \/ AskAgain(r) \/ Settle(r) \/ Post(r)
    BY <1>1
  <2> QED BY <2>1, RunCards
<1>2. CASE \E post \in posts : Replies(post)
  <2>1. PICK post \in posts : Replies(post)
    BY <1>2
  <2> QED BY <2>1, ReplyCards, CommitCards, HearCards DEF Replies
<1>3. CASE Boundary \/ End
  BY <1>3, MarkCards
<1>4. CASE WriteArtifact \/ Crash \/ CloseServer
  BY <1>4, LogCards
<1>5. CASE Hydrate
  BY <1>5, HydrateCards
<1>6. CASE Receive
  BY <1>6, ReceiveCards
<1>7. CASE AnswerBootstrap \/ Connect \/ BreakConnection \/ Reload
  BY <1>7, PageCards
<1>8. CASE UNCHANGED vars
  <2>1. UNCHANGED <<log, faults, asked, parked, posts, page>>
    BY <1>8 DEF vars, logVars, runVars, postVars
  <2>2. Told' /\ Answered' /\ Carded'
    BY <2>1, SameLog, CardedStays
  <2> QED BY <2>1, <2>2 DEF CardInv, QueuedChoice
<1> QED BY <1>1, <1>2, <1>3, <1>4, <1>5, <1>6, <1>7, <1>8 DEF Next

LEMMA AlwaysCarded == Spec => []CardInv
<1>1. Init => CardInv
  <2> SUFFICES ASSUME Init PROVE CardInv
    OBVIOUS
  <2>1. log.acked = <<>> /\ faults = 0 /\ parked = {} /\ posts = {}
        /\ page.cards = NoCards /\ page.seen = <<>>
    BY DEF Init, EmptyLog
  <2>2. Told /\ Answered /\ QueuedChoice
    BY <2>1 DEF Told, Answered, QueuedChoice
  <2>3. Carded
    BY <2>1 DEF Carded, CardsType, NoCards, NoStaleCard, Shown
  <2> QED BY <2>2, <2>3 DEF CardInv
<1>2. CardInv /\ Sound /\ Safe' /\ [Next]_vars => CardInv'
  BY CardsStay
<1> QED BY <1>1, <1>2, AlwaysSafe, AlwaysDecided, PTL DEF Spec, Sound

(* No request that was answered is offered again: a card the page shows is  *)
(* of a request that is pending after the events the page has seen, however *)
(* they reached it (web-ui/src/state/store.ts, api/client.ts).              *)
THEOREM NoDecidedCardOffered == Spec => []NoStaleCard
<1>1. CardInv => NoStaleCard
  BY DEF CardInv, Carded
<1> QED BY <1>1, AlwaysCarded, PTL

(* A request that waits and that the page has heard of has its card, but    *)
(* for a later fresh clear, a recorded reply to it or, if it is a question, *)
(* a reply to another question (state/store.ts, ui/reply.ts).               *)
THEOREM HiddenCardsExplained == Spec => []MissingCardExplained
<1>1. CardInv => MissingCardExplained
  <2> SUFFICES ASSUME CardInv, NEW r \in (parked \intersect Pending(page.seen)) \ Shown(page.cards)
               PROVE  Excused(r)
    BY DEF MissingCardExplained, Excused, Replied
  <2>1. PICK i \in LastCreated(page.seen, r) : TRUE
    BY DEF Pending
  <2>2. Heard(r)
    BY <2>1 DEF LastCreated, Heard, Creates
  <2> QED BY <2>2 DEF CardInv, Carded
<1> QED BY <1>1, AlwaysCarded, PTL
=============================================================================
