-------------------------- MODULE CodexSidecarProofs ---------------------------
(* What the sidecar manager keeps whatever order calls, timers, messages    *)
(* and shutdown come in: late ends do not count, one turn per sidecar, no   *)
(* turn abandoned.  For every number of threads, operations, questions and  *)
(* faults.                                                                  *)
EXTENDS CodexSidecar, SequenceTheorems, TLAPS

(***************************** inductive invariants *************************)
OpType == [thread : Threads \union {NULL}, kind : {NULL, "send", "answer"},
           turn : Turns \union {NULL},
           sent : {"no", "requested", "accepted", "refused", "over"},
           timer : {"off", "on", "interrupting", "over"},
           result : Results \union {NULL}]
Closings == {"no", "interrupting", "asking", "unsubscribing", "closed"}
Shape ==
    /\ op \in [Ops -> OpType] /\ closing \in [Threads -> Closings]
    /\ active \in [Threads -> Ops \union {NULL}] /\ pending \in [Threads -> Turns \union {NULL}]
    /\ ignored \subseteq Turns
    /\ turn \in [Turns -> {"none", "running", "asking", "over"}]

(* A sidecar is busy with an operation of its own.  The turn of one that is *)
(* being closed, or whose time is up, is known and ignored.                 *)
Silenced(o) == op[o].turn # NULL /\ op[o].turn \in ignored
Books ==
    /\ \A t \in Threads : active[t] # NULL => op[active[t]].thread = t /\ ~Done(active[t])
    /\ \A t \in Threads : Closed(t) /\ active[t] # NULL => Silenced(active[t])
    /\ \A o \in Ops :
         /\ op[o].timer = "interrupting" => Silenced(o)
         /\ op[o].timer = "on" => op[o].turn # NULL
         /\ op[o].timer # "off" => op[o].sent = "over"

(* What is on its way between the manager and Codex.                        *)
ToThread == {"create", "endTurn", "endInput", "unsubscribe"}
ToOp == {"timeout", "endLate"}
Target(m, ops, closed) ==
    /\ m.kind \in ToThread => m.id \in Threads
    /\ m.kind \in ToOp => m.id \in Ops
    /\ m.kind \in {"endTurn", "endInput", "unsubscribe"} => closed[m.id] # "no"
    /\ m.kind = "timeout" => ops[m.id].sent = "over"
    /\ m.kind = "start" => m.id \in Ops /\ ops[m.id].sent = "requested" /\ ops[m.id].thread \in Threads
RequestInv ==
    \A r \in requests :
        /\ r.kind \in ToThread \union ToOp \union {"start"} /\ Target(r, op, closing)
        /\ r.turn \in Turns \union {NULL}
        /\ r.kind = "start" => r.turn = r.id
Messages == [kind : ToThread \union ToOp \union {"start", "notice", "ask"}, id : Nat,
             status : {"accepted", "refused", "started", "completed", "interrupted", NULL}]
Proper(m, ops, closed) ==
    /\ Target(m, ops, closed)
    /\ m.kind \in {"notice", "ask"} => m.id \in Turns /\ ops[m.id].thread \in Threads
    /\ m.kind = "notice" => m.status \in {"started", "completed", "interrupted"}
    /\ m.kind = "start" => m.status \in {"accepted", "refused"}
WireOK(w, ops, closed) == w \in Seq(Messages) /\ \A i \in 1..Len(w) : Proper(w[i], ops, closed)
WireInv == WireOK(wire, op, closing)
Once(reqs, w) ==
    /\ \A r, s \in reqs : r.kind = "start" /\ s.kind = "start" /\ r.id = s.id => r = s
    /\ \A r \in reqs, i \in 1..Len(w) : r.kind = "start" /\ w[i].kind = "start" => w[i].id # r.id
    /\ \A i, j \in 1..Len(w) :
         w[i].kind = "start" /\ w[j].kind = "start" /\ i # j => w[i].id # w[j].id
StartsOnce == Once(requests, wire)
Flight ==
    /\ RequestInv /\ WireInv /\ StartsOnce
    /\ \A u \in Turns : turn[u] # "none" => op[u].thread \in Threads
    /\ link = "down" => wire = <<>> /\ requests = {}
    /\ link \in {"up", "down"}
SInv == Shape /\ Books /\ Flight

(* Which turn belongs to which sidecar, and who attends to it.  A send's    *)
(* turn is its own, an answer's the one that asked.                         *)
Started(u) == turn[u] # "none"
IsTurn(u, t) == op[u].thread = t /\ op[u].kind = "send" /\ Started(u)
OpRoles(o) ==
    /\ Open(o) => active[op[o].thread] = o
    /\ op[o].thread = NULL <=> op[o].sent = "no"
    /\ op[o].thread # NULL => op[o].kind \in {"send", "answer"}
    /\ op[o].kind = "send" => op[o].thread # NULL /\ op[o].turn \in {NULL, o}
    /\ op[o].kind = "answer" => op[o].turn # NULL /\ op[o].sent = "over"
    /\ op[o].turn # NULL => IsTurn(op[o].turn, op[o].thread)
    /\ Open(o) /\ op[o].sent = "over" => op[o].turn # NULL
    /\ op[o].sent = "accepted" => Started(o)
    /\ op[o].sent = "refused" => ~Started(o)
ThreadRoles(t) ==
    pending[t] # NULL =>
        active[t] = NULL /\ IsTurn(pending[t], t) /\ (Closed(t) => pending[t] \in ignored)
Roles ==
    /\ \A o \in Ops : OpRoles(o) /\ (Started(o) => op[o].kind = "send")
    /\ \A t \in Threads : ThreadRoles(t)
    /\ \A u \in ignored : Started(u)

(* Codex ends a turn once and says nothing of it afterwards; the answer to  *)
(* an interrupt comes behind the end of its turn.                           *)
Final(m) == m.kind = "notice" /\ m.status # "started"
Of(m, u) == m.kind \in {"notice", "ask"} /\ m.id = u
Last(i, u) == turn[u] = "over" /\ \A j \in 1..Len(wire) : i < j => ~Of(wire[j], u)
RequestOrder(r) ==
    /\ r.kind = "start" => ~Started(r.id) /\ op[r.id].kind = "send"
    /\ r.kind = "timeout" => op[r.id].turn # NULL /\ r.turn = op[r.id].turn
WireOrder(i) ==
    LET m == wire[i] IN
    /\ m.kind = "start" => op[m.id].kind = "send" /\ (m.status = "accepted" <=> Started(m.id))
    /\ m.kind \in {"notice", "ask"} => IsTurn(m.id, ThreadOf(m.id))
    /\ Final(m) => Last(i, m.id)
    /\ m.kind = "timeout" => op[m.id].turn # NULL /\ Last(i, op[m.id].turn)
Order == (\A r \in requests : RequestOrder(r)) /\ (\A i \in 1..Len(wire) : WireOrder(i))

(* A turn that runs, or that Codex has been asked to start, is the one its  *)
(* sidecar attends to; after a close it is ignored, or will be as soon as   *)
(* its start is noticed.  Each ignored turn is being interrupted.           *)
Requested(u) == \E r \in requests : r.kind = "start" /\ r.id = u
Alive(u) == AtWork(u) \/ Requested(u)
Current(u) ==
    \/ active[ThreadOf(u)] # NULL /\ (active[ThreadOf(u)] = u \/ op[active[ThreadOf(u)]].turn = u)
    \/ pending[ThreadOf(u)] = u
Dropped(u) == u \in ignored \/ op[u].sent \in {"requested", "accepted"}
Told(u) == \E i \in 1..Len(wire) : Of(wire[i], u)
Interrupted(u) == \E r \in requests : r.turn = u /\ r.kind # "start"
Minded ==
    link = "up" =>
      /\ \A u \in Turns : Alive(u) \/ Told(u) => Closed(ThreadOf(u)) \/ Current(u)
      /\ \A u \in Turns : Alive(u) /\ Closed(ThreadOf(u)) => Dropped(u)
      /\ \A u, v \in Turns : Alive(u) /\ Alive(v) /\ ThreadOf(u) = ThreadOf(v) => u = v
      /\ \A u \in ignored : AtWork(u) => Interrupted(u)
All == SInv /\ Roles /\ Order /\ Minded

(* What most steps do: no operation is forgotten or confused with another,  *)
(* what is sent is well addressed, and no late end counts.                  *)
Keeps ==
    /\ \A o \in Ops :
         /\ op[o].thread \in Threads => op'[o].thread = op[o].thread
         /\ op[o].sent \in {"requested", "over"} => op'[o].sent = op[o].sent
    /\ \A t \in Threads : closing[t] # "no" => closing'[t] # "no"
Turned == \A u \in Turns : turn'[u] # "none" => turn[u] # "none"
Asks ==
    \/ requests' = requests
    \/ /\ link = "up"
       /\ \E r : /\ requests' = requests \union {r}
                 /\ r.kind \in ToThread \union ToOp
                 /\ r.turn \in Turns \union {NULL} /\ Target(r, op', closing')
Hushed(o) == op'[o].turn # NULL /\ op'[o].turn \in ignored'
Punctual ==
    \A o \in Ops : Open(o) /\ op'[o].result \in {"completed", "interrupted"} =>
        ~Closed(op[o].thread) /\ op[o].timer # "interrupting"

(********************************** basics **********************************)
LEMMA Numbers ==
    /\ Threads \subseteq Nat /\ Ops \subseteq Nat /\ Turns = Ops
    /\ NULL \notin Nat /\ NULL \notin Results /\ NULL \notin {"completed", "interrupted"}
BY SidecarAssumption DEF Threads, Ops, Turns, Results

LEMMA BooksSame ==
    ASSUME Shape, Books, op' = op, active' = active, ignored \subseteq ignored', ignored' \subseteq Turns,
           closing' \in [Threads -> Closings],
           \A t \in Threads : closing[t] # "no" => closing'[t] # "no",
           \A t \in Threads : closing'[t] # "no" /\ active[t] # NULL => closing[t] # "no",
           pending' \in [Threads -> Turns \union {NULL}],
           turn' \in [Turns -> {"none", "running", "asking", "over"}]
    PROVE  Shape' /\ Books' /\ Keeps /\ Punctual
BY Numbers DEF Shape, Books, Keeps, Punctual, Silenced, Closed, Done, Open

(* One operation goes on, without beginning.                                *)
LEMMA BooksAt ==
    ASSUME Shape, Books, NEW o \in Ops, op' \in [Ops -> OpType],
           \A p \in Ops : p # o => op'[p] = op[p], op'[o].thread = op[o].thread,
           ignored \subseteq ignored', ignored' \subseteq Turns,
           active' \in [Threads -> Ops \union {NULL}],
           \A t \in Threads : active'[t] \in {active[t], NULL},
           \A t \in Threads : Closed(t)' /\ active'[t] # NULL => Closed(t) \/ Hushed(active'[t]),
           op[o].turn # NULL => op'[o].turn = op[o].turn \/ closing'[op[o].thread] = "no",
           op'[o].result # NULL => \A t \in Threads : active'[t] # o,
           op'[o].timer = "interrupting" => op'[o].turn # NULL /\ op'[o].turn \in ignored',
           op'[o].timer = "on" => op'[o].turn # NULL,
           op'[o].timer # "off" => op'[o].sent = "over"
    PROVE  Books'
<1>1. ASSUME NEW t \in Threads, active'[t] # NULL
      PROVE  op'[active'[t]].thread = t /\ ~(op'[active'[t]].result # NULL)
  <2>1. active'[t] = active[t] /\ active[t] \in Ops
    BY <1>1 DEF Shape
  <2>2. op[active[t]].thread = t /\ op[active[t]].result = NULL
    BY <1>1, <2>1 DEF Books, Done
  <2> QED BY <2>1, <2>2
<1>2. ASSUME NEW t \in Threads, Closed(t)', active'[t] # NULL PROVE Hushed(active'[t])
  <2>1. active'[t] = active[t] /\ active[t] \in Ops
    BY <1>2 DEF Shape
  <2>2. op[active[t]].thread = t
    BY <1>2, <2>1 DEF Books
  <2>3. CASE Hushed(active'[t])
    BY <2>3
  <2>4. CASE Closed(t)
    <3>1. op[active[t]].turn # NULL /\ op[active[t]].turn \in ignored
      BY <1>2, <2>1, <2>4 DEF Books, Silenced
    <3>2. op'[active[t]].turn = op[active[t]].turn
      BY <1>2, <2>1, <2>2, <3>1 DEF Closed
    <3> QED BY <2>1, <3>1, <3>2 DEF Hushed
  <2> QED BY <1>2, <2>3, <2>4
<1>3. ASSUME NEW p \in Ops
      PROVE  /\ op'[p].timer = "interrupting" => op'[p].turn # NULL /\ op'[p].turn \in ignored'
             /\ op'[p].timer = "on" => op'[p].turn # NULL
             /\ op'[p].timer # "off" => op'[p].sent = "over"
  BY DEF Books, Silenced
<1> QED BY <1>1, <1>2, <1>3 DEF Books, Silenced, Hushed, Done

LEMMA TargetStays == ASSUME Keeps, NEW m, Target(m, op, closing) PROVE Target(m, op', closing')
BY DEF Keeps, Target, ToOp, ToThread

LEMMA WireFacts ==
    ASSUME WireInv
    PROVE  /\ Len(wire) \in Nat /\ \A i \in 1..Len(wire) : wire[i] \in Messages
           /\ wire # <<>> =>
                 /\ Len(wire) > 0 /\ Head(wire) = wire[1] /\ Tail(wire) \in Seq(Messages)
                 /\ Len(Tail(wire)) = Len(wire) - 1
                 /\ \A i \in 1..Len(Tail(wire)) : Tail(wire)[i] = wire[i + 1]
<1>1. wire \in Seq(Messages)
  BY DEF WireInv, WireOK
<1>2. Len(wire) \in Nat /\ \A i \in 1..Len(wire) : wire[i] \in Messages
  BY <1>1
<1>3. ASSUME wire # <<>>
      PROVE  /\ Len(wire) > 0 /\ Head(wire) = wire[1] /\ Tail(wire) \in Seq(Messages)
             /\ Len(Tail(wire)) = Len(wire) - 1
             /\ \A i \in 1..Len(Tail(wire)) : Tail(wire)[i] = wire[i + 1]
  BY <1>1, <1>3, HeadTailProperties, EmptySeq
<1> QED BY <1>2, <1>3

LEMMA Shifts ==
    ASSUME WireInv, wire' = wire \/ (wire # <<>> /\ wire' = Tail(wire))
    PROVE  \E d \in {0, 1} :
              /\ wire' \in Seq(Messages) /\ Len(wire') = Len(wire) - d
              /\ \A i \in 1..Len(wire') : i + d \in 1..Len(wire) /\ wire'[i] = wire[i + d]
<1>1. CASE wire' = wire
  <2>1. wire \in Seq(Messages)
    BY DEF WireInv, WireOK
  <2> QED BY <1>1, <2>1, WireFacts
<1>2. CASE wire # <<>> /\ wire' = Tail(wire)
  <2>1. PICK n \in Nat : n = Len(wire)
    BY WireFacts
  <2>2. /\ wire' \in Seq(Messages) /\ Len(wire') = n - 1 /\ n > 0
        /\ \A i \in 1..Len(wire') : wire'[i] = wire[i + 1]
    BY <1>2, <2>1, WireFacts
  <2>3. \A i \in 1..Len(wire') : i + 1 \in 1..n
    BY <2>2
  <2> QED BY <2>1, <2>2, <2>3
<1> QED BY <1>1, <1>2

(* Each message still on its way was on its way before.                     *)
LEMMA FlightMoves ==
    ASSUME Shape, Flight, Turned, Asks, link' = link,
           \A u \in Turns : op[u].thread \in Threads => op'[u].thread \in Threads,
           \A r \in requests : Target(r, op', closing'),
           \A i \in 1..Len(wire') : Target(wire'[i], op', closing'),
           wire' = wire \/ (wire # <<>> /\ wire' = Tail(wire))
    PROVE  Flight'
<1>0. WireInv /\ RequestInv /\ StartsOnce
  BY DEF Flight
<1>1. PICK d \in {0, 1} : /\ wire' \in Seq(Messages) /\ Len(wire') = Len(wire) - d
                         /\ \A i \in 1..Len(wire') : i + d \in 1..Len(wire) /\ wire'[i] = wire[i + d]
  BY <1>0, Shifts
<1>2. Len(wire) \in Nat
  BY <1>0, WireFacts
<1>3. WireInv'
  <2>1. ASSUME NEW i \in 1..Len(wire') PROVE Proper(wire'[i], op', closing')
    <3>1. PICK m : m = wire'[i]
      OBVIOUS
    <3>2. Proper(m, op, closing)
      BY <1>0, <1>1, <3>1 DEF WireInv, WireOK
    <3>3. Target(m, op', closing')
      BY <3>1
    <3> QED BY <3>1, <3>2, <3>3 DEF Proper
  <2> QED BY <1>1, <2>1 DEF WireInv, WireOK
<1>4. ASSUME NEW r \in requests', r \notin requests
      PROVE  /\ r.kind \in ToThread \union ToOp /\ r.turn \in Turns \union {NULL} /\ link = "up"
             /\ Target(r, op', closing')
  BY <1>4 DEF Asks
<1>5. \A r : r.kind \in ToThread \union ToOp => r.kind # "start"
  BY DEF ToThread, ToOp
<1>6. RequestInv'
  <2>1. ASSUME NEW r \in requests'
        PROVE  /\ r.kind \in ToThread \union ToOp \union {"start"} /\ Target(r, op', closing')
               /\ r.turn \in Turns \union {NULL} /\ (r.kind = "start" => r.turn = r.id)
    <3>1. CASE r \in requests
      BY <1>0, <3>1 DEF RequestInv
    <3>2. CASE r \notin requests
      BY <1>4, <1>5, <2>1, <3>2
    <3> QED BY <3>1, <3>2
  <2> QED BY <2>1 DEF RequestInv
<1>7. StartsOnce'
  <2>1. ASSUME NEW r \in requests', r.kind = "start" PROVE r \in requests
    BY <1>4, <1>5, <2>1
  <2>2. ASSUME NEW r \in requests', NEW i \in 1..Len(wire'), r.kind = "start", wire'[i].kind = "start"
        PROVE  wire'[i].id # r.id
    BY <1>0, <1>1, <2>1, <2>2 DEF StartsOnce, Once
  <2>3. ASSUME NEW i \in 1..Len(wire'), NEW j \in 1..Len(wire'), i # j,
               wire'[i].kind = "start", wire'[j].kind = "start"
        PROVE  wire'[i].id # wire'[j].id
    <3>1. i + d # j + d /\ i + d \in 1..Len(wire) /\ j + d \in 1..Len(wire)
      BY <1>1, <1>2, <2>3
    <3> QED BY <1>0, <1>1, <2>3, <3>1 DEF StartsOnce, Once
  <2>4. \A r, q \in requests' : r.kind = "start" /\ q.kind = "start" /\ r.id = q.id => r = q
    BY <1>0, <2>1 DEF StartsOnce, Once
  <2> QED BY <2>2, <2>3, <2>4 DEF StartsOnce, Once
<1>8. link' = "down" => wire' = <<>> /\ requests' = {}
  BY DEF Flight, Asks
<1>9. \A u \in Turns : turn'[u] # "none" => op'[u].thread \in Threads
  BY DEF Turned, Flight
<1> QED BY <1>3, <1>6, <1>7, <1>8, <1>9 DEF Flight

LEMMA FlightStays ==
    ASSUME Shape, Flight, Keeps, Turned, Asks, link' = link,
           wire' = wire \/ (wire # <<>> /\ wire' = Tail(wire))
    PROVE  Flight'
<1>1. WireInv /\ RequestInv
  BY DEF Flight
<1>2. \A u \in Turns : op[u].thread \in Threads => op'[u].thread \in Threads
  BY Numbers DEF Keeps
<1>3. \A r \in requests : Target(r, op', closing')
  BY <1>1, TargetStays DEF RequestInv
<1>4. \A i \in 1..Len(wire) : Target(wire[i], op', closing')
  BY <1>1, TargetStays DEF WireInv, WireOK, Proper
<1>5. \A i \in 1..Len(wire') : Target(wire'[i], op', closing')
  <2>1. CASE wire' = wire
    BY <1>4, <2>1
  <2>2. CASE wire # <<>> /\ wire' = Tail(wire)
    <3>1. PICK n \in Nat : n = Len(wire)
      BY <1>1, WireFacts
    <3>2. Len(wire') = n - 1 /\ n > 0 /\ \A i \in 1..Len(wire') : wire'[i] = wire[i + 1]
      BY <1>1, <2>2, <3>1, WireFacts
    <3>3. \A i \in 1..Len(wire') : i + 1 \in 1..n
      BY <3>2
    <3> QED BY <1>4, <3>1, <3>2, <3>3
  <2> QED BY <2>1, <2>2
<1> QED BY <1>2, <1>3, <1>5, FlightMoves

(********************** steps of the manager's operations *******************)
Losses == Results \ {"completed", "interrupted"}
LEMMA Finishes ==
    ASSUME Shape, Books, NEW o \in Ops, NEW result \in Losses,
           \/ op' = Finished(o, result)
           \/ op' = [Finished(o, result) EXCEPT ![o].sent = "over"]
           \/ op' = [Finished(o, result) EXCEPT ![o].timer = "over"] /\ op[o].sent = "over",
           active' = Freed(o), ignored \subseteq ignored', ignored' \subseteq Turns,
           \A t \in Threads : Closed(t)' /\ active'[t] # NULL => Closed(t)
    PROVE  /\ op' \in [Ops -> OpType] /\ active' \in [Threads -> Ops \union {NULL}] /\ Books'
           /\ \A p \in Ops : op'[p].thread = op[p].thread
           /\ \A p \in Ops : p # o => op'[p] = op[p]
           /\ op'[o].sent \in {op[o].sent, "over"}
           /\ Punctual
<1>1. op \in [Ops -> OpType] /\ active \in [Threads -> Ops \union {NULL}] /\ result \in Results /\ result # NULL
  BY Numbers DEF Shape, Losses
<1>2. /\ op' \in [Ops -> OpType]
      /\ \A p \in Ops : p # o => op'[p] = op[p]
      /\ op'[o].thread = op[o].thread /\ op'[o].turn = op[o].turn
      /\ op'[o].result = IF op[o].result = NULL THEN result ELSE op[o].result
  BY <1>1 DEF OpType, Finished, Done
<1>3. /\ op'[o].sent \in {op[o].sent, "over"}
      /\ op'[o].timer \in {op[o].timer, "over"}
      /\ op'[o].timer # op[o].timer => op'[o].sent = "over"
  BY <1>1 DEF OpType, Finished, Done
<1>4. /\ active' \in [Threads -> Ops \union {NULL}]
      /\ \A t \in Threads : active'[t] \in {active[t], NULL}
  BY <1>1 DEF Freed
<1>5. \A t \in Threads : active'[t] # o
  <2>1. ASSUME NEW t \in Threads, active[t] = o PROVE active'[t] # o
    <3>1. op[o].thread = t /\ ~Done(o) /\ o # NULL
      BY <2>1, Numbers DEF Books
    <3> QED BY <1>1, <2>1, <3>1 DEF Freed, ThreadOf
  <2> QED BY <1>4, <2>1, Numbers
<1>6. Books'
  <2>1. /\ op'[o].timer = "interrupting" => op'[o].turn # NULL /\ op'[o].turn \in ignored'
        /\ op'[o].timer = "on" => op'[o].turn # NULL
        /\ op'[o].timer # "off" => op'[o].sent = "over"
    BY <1>2, <1>3 DEF Books, Silenced
  <2> QED BY <1>2, <1>4, <1>5, <2>1, BooksAt
<1>7. Punctual
  <2>1. ASSUME NEW p \in Ops, Open(p), op'[p].result \in {"completed", "interrupted"} PROVE FALSE
    <3>1. op[p].result = NULL
      BY <2>1 DEF Open, Done
    <3>2. p = o
      BY <1>2, <2>1, <3>1, Numbers
    <3> QED BY <1>2, <2>1, <3>1, <3>2 DEF Losses
  <2> QED BY <2>1 DEF Punctual
<1> QED BY <1>2, <1>3, <1>4, <1>6, <1>7

Moves == Shape' /\ Books' /\ Keeps /\ Turned /\ Asks /\ Punctual

LEMMA Sending ==
    ASSUME NEW r, Sends(r), r.kind \in ToThread \union ToOp, r.turn \in Turns \union {NULL},
           Target(r, op', closing')
    PROVE  Asks
BY DEF Sends, Asks

(* closeSidecar's operation is finished, then its waiting turn is ended.    *)
LEMMA Ending ==
    ASSUME SInv, NEW t \in Threads, CloseGoesOn(t),
           IF active[t] # NULL THEN Finish(active[t], "thread_closed") ELSE UNCHANGED <<op, active>>,
           UNCHANGED <<pending, turn>>
    PROVE  Moves
<1>1. /\ Shape /\ Books /\ pending[t] \in Turns \union {NULL}
      /\ closing \in [Threads -> Closings] /\ active[t] \in Ops \union {NULL} /\ ignored \subseteq Turns
  BY DEF SInv, Shape
<1>2. PICK phase \in {"asking", "unsubscribing"} : closing' = [closing EXCEPT ![t] = phase]
  BY DEF CloseGoesOn
<1>3. /\ ignored \subseteq ignored' /\ ignored' \subseteq Turns
      /\ \E kind \in {"endInput", "unsubscribe"}, u \in Turns \union {NULL} : Sends(Ask(kind, t, u))
  BY <1>1 DEF CloseGoesOn
<1>4. /\ closing' \in [Threads -> Closings] /\ closing'[t] # "no"
      /\ \A v \in Threads : v # t => closing'[v] = closing[v]
  BY <1>1, <1>2 DEF Closings
<1>5. Asks
  <2>1. PICK kind \in {"endInput", "unsubscribe"}, u \in Turns \union {NULL} : Sends(Ask(kind, t, u))
    BY <1>3
  <2>2. Ask(kind, t, u).kind = kind /\ Ask(kind, t, u).id = t /\ Ask(kind, t, u).turn = u
    BY DEF Ask
  <2>3. Target(Ask(kind, t, u), op', closing')
    BY <1>4, <2>1, <2>2 DEF Target, ToThread, ToOp
  <2> QED BY <2>1, <2>2, <2>3, Sending DEF ToThread, ToOp
<1>6. CASE active[t] # NULL
  <2>1. PICK o \in Ops : o = active[t]
    BY <1>1, <1>6
  <2>2. op' = Finished(o, "thread_closed") /\ active' = Freed(o)
    BY <1>6, <2>1 DEF Finish
  <2>3. ThreadOf(o) = t /\ ~Done(o)
    BY <1>1, <1>6, <2>1 DEF Books, ThreadOf
  <2>4. active'[t] = NULL
    BY <1>1, <2>1, <2>2, <2>3 DEF Freed, Shape
  <2>5. \A v \in Threads : Closed(v)' /\ active'[v] # NULL => Closed(v)
    BY <1>4, <2>4 DEF Closed
  <2>6. /\ op' \in [Ops -> OpType] /\ active' \in [Threads -> Ops \union {NULL}] /\ Books'
        /\ \A p \in Ops : op'[p].thread = op[p].thread
        /\ \A p \in Ops : p # o => op'[p] = op[p]
        /\ op'[o].sent \in {op[o].sent, "over"} /\ Punctual
    BY <1>1, <1>3, <2>2, <2>5, Finishes DEF Losses, Results
  <2>7. op'[o].sent = op[o].sent
    BY <1>1, <2>2 DEF Finished, Shape, OpType
  <2>8. Keeps
    BY <1>4, <2>6, <2>7 DEF Keeps
  <2> QED BY <1>1, <1>3, <1>4, <1>5, <2>6, <2>8 DEF Moves, Shape, Turned
<1>7. CASE active[t] = NULL
  <2>1. op' = op /\ active' = active
    BY <1>7
  <2>2. \A v \in Threads : closing'[v] # "no" /\ active[v] # NULL => closing[v] # "no"
    BY <1>4, <1>7
  <2>3. \A v \in Threads : closing[v] # "no" => closing'[v] # "no"
    BY <1>4
  <2>4. Shape' /\ Books' /\ Keeps /\ Punctual
    BY <1>1, <1>3, <1>4, <2>1, <2>2, <2>3, BooksSame DEF Shape
  <2> QED BY <1>5, <2>4 DEF Moves, Turned
<1> QED BY <1>6, <1>7

LEMMA Closes ==
    ASSUME SInv, NEW t \in Threads, CloseSidecar(t), UNCHANGED <<pending, turn>>
    PROVE  Moves
<1> DEFINE o == active[t]
<1>1. /\ Shape /\ Books /\ closing \in [Threads -> Closings] /\ o \in Ops \union {NULL} /\ ignored \subseteq Turns
  BY DEF SInv, Shape
<1>2. CASE o # NULL /\ op[o].turn # NULL
  <2>1. /\ closing' = [closing EXCEPT ![t] = "interrupting"] /\ ignored' = ignored \union {op[o].turn}
        /\ Sends(Ask("endTurn", t, op[o].turn)) /\ op' = op /\ active' = active
    BY <1>2 DEF CloseSidecar
  <2>2. op[o].turn \in Turns /\ o \in Ops
    BY <1>1, <1>2 DEF Shape, OpType
  <2>3. /\ closing' \in [Threads -> Closings] /\ closing'[t] = "interrupting"
        /\ \A v \in Threads : v # t => closing'[v] = closing[v]
    BY <1>1, <2>1 DEF Closings
  <2>4. Shape'
    BY <1>1, <2>1, <2>2, <2>3 DEF Shape
  <2>5. Books'
    <3>1. \A v \in Threads : Closed(v)' /\ active[v] # NULL => Hushed(active[v])
      <4>1. ASSUME NEW v \in Threads, Closed(v)', active[v] # NULL, v # t PROVE Hushed(active[v])
        BY <1>1, <2>1, <2>3, <4>1 DEF Books, Closed, Silenced, Hushed
      <4>2. Hushed(active[t])
        BY <1>2, <2>1 DEF Hushed
      <4> QED BY <4>1, <4>2
    <3> QED BY <1>1, <2>1, <3>1 DEF Books, Hushed, Silenced, Done
  <2>6. Keeps /\ Punctual
    <3>1. Keeps
      BY <2>1, <2>3 DEF Keeps
    <3>2. Punctual
      BY <2>1, Numbers DEF Punctual, Open, Done
    <3> QED BY <3>1, <3>2
  <2>7. Asks
    <3>1. PICK r : r = Ask("endTurn", t, op[o].turn)
      OBVIOUS
    <3>2. r.kind = "endTurn" /\ r.id = t /\ r.turn = op[o].turn /\ Sends(r)
      BY <2>1, <3>1 DEF Ask
    <3>3. Target(r, op', closing')
      BY <2>3, <3>2 DEF Target, ToThread, ToOp
    <3> QED BY <2>2, <3>2, <3>3, Sending DEF ToThread, ToOp
  <2> QED BY <2>4, <2>5, <2>6, <2>7 DEF Moves, Turned
<1>3. CASE ~(o # NULL /\ op[o].turn # NULL)
  BY <1>3, Ending DEF CloseSidecar
<1> QED BY <1>2, <1>3

(* What needs no operation to change.                                       *)
LEMMA Aside ==
    ASSUME SInv, UNCHANGED <<op, active, closing>>, ignored \subseteq ignored', ignored' \subseteq Turns,
           pending' \in [Threads -> Turns \union {NULL}],
           turn' \in [Turns -> {"none", "running", "asking", "over"}], Turned, Asks
    PROVE  Moves
<1>1. Shape /\ Books /\ closing \in [Threads -> Closings]
  BY DEF SInv, Shape
<1>2. Shape' /\ Books' /\ Keeps /\ Punctual
  BY <1>1, BooksSame
<1> QED BY <1>2 DEF Moves

LEMMA Resumes ==
    ASSUME Shape, NEW u \in Turns, turn' = turn \/ turn' = Resumed(u)
    PROVE  turn' \in [Turns -> {"none", "running", "asking", "over"}] /\ Turned
BY DEF Shape, Resumed, Turned

LEMMA Acknowledges ==
    ASSUME SInv, NEW kind \in ToThread \union ToOp, NEW id, Acknowledged(kind, id),
           kind \in ToThread => id \in Threads, kind \in ToOp => id \in Ops,
           kind \in {"endTurn", "endInput", "unsubscribe"} => closing[id] # "no",
           kind = "timeout" => op[id].sent = "over"
    PROVE  Moves
<1>1. /\ Shape /\ Books /\ closing \in [Threads -> Closings] /\ ignored \subseteq Turns
      /\ pending \in [Threads -> Turns \union {NULL}]
      /\ turn \in [Turns -> {"none", "running", "asking", "over"}]
  BY DEF SInv, Shape
<1>2. CASE kind \in {"create", "endLate"}
  <2>1. UNCHANGED <<op, active, closing, ignored, pending, turn, requests>>
    BY <1>2 DEF Acknowledged, Created, opVars, codexVars, tableVars
  <2> QED BY <1>1, <2>1, Aside DEF Turned, Asks
<1>3. CASE kind = "endTurn"
  <2>1. id \in Threads /\ TurnEnded(id)
    BY <1>3 DEF Acknowledged, ToThread
  <2> QED BY <2>1, Ending DEF TurnEnded, codexVars
<1>4. CASE kind \in {"endInput", "unsubscribe"}
  <2>1. /\ id \in Threads /\ closing[id] # "no"
        /\ InputEnded(id) \/ (Unsubscribed(id) /\ requests' = requests)
        /\ UNCHANGED <<op, active, ignored>>
    BY <1>4 DEF Acknowledged, ToThread, InputEnded, Unsubscribed, opVars
  <2>2. PICK phase \in {"unsubscribing", "closed"} : closing' = [closing EXCEPT ![id] = phase]
    BY <2>1 DEF InputEnded, Unsubscribed
  <2>3. /\ closing' \in [Threads -> Closings] /\ closing'[id] # "no"
        /\ \A v \in Threads : v # id => closing'[v] = closing[v]
    BY <1>1, <2>1, <2>2 DEF Closings
  <2>4. /\ turn' \in [Turns -> {"none", "running", "asking", "over"}] /\ Turned
        /\ pending' \in [Threads -> Turns \union {NULL}]
    <3>1. CASE InputEnded(id)
      <4>1. pending' = [pending EXCEPT ![id] = NULL] /\ turn' = IF pending[id] = NULL THEN turn ELSE Resumed(pending[id])
        BY <3>1 DEF InputEnded
      <4>2. CASE pending[id] = NULL
        BY <1>1, <4>1, <4>2 DEF Turned
      <4>3. CASE pending[id] # NULL
        <5>1. pending[id] \in Turns /\ turn' = Resumed(pending[id])
          BY <1>1, <2>1, <4>1, <4>3
        <5> QED BY <1>1, <4>1, <5>1, Resumes
      <4> QED BY <4>2, <4>3
    <3>2. CASE Unsubscribed(id)
      <4>1. UNCHANGED <<turn, pending>>
        BY <3>2 DEF Unsubscribed, opVars, codexVars
      <4> QED BY <1>1, <4>1 DEF Turned
    <3> QED BY <2>1, <3>1, <3>2
  <2>5. Asks
    <3>1. CASE InputEnded(id)
      <4>1. PICK r : r = Ask("unsubscribe", id, NULL)
        OBVIOUS
      <4>2. r.kind = "unsubscribe" /\ r.id = id /\ r.turn = NULL /\ Sends(r)
        BY <3>1, <4>1 DEF Ask, InputEnded
      <4>3. Target(r, op', closing')
        BY <2>1, <2>3, <4>2 DEF Target, ToThread, ToOp
      <4> QED BY <4>2, <4>3, Sending DEF ToThread, ToOp
    <3>2. CASE requests' = requests
      BY <3>2 DEF Asks
    <3> QED BY <2>1, <3>1, <3>2
  <2>6. /\ \A v \in Threads : closing[v] # "no" => closing'[v] # "no"
        /\ \A v \in Threads : closing'[v] # "no" /\ active[v] # NULL => closing[v] # "no"
    BY <2>1, <2>3
  <2>7. op' = op /\ active' = active /\ ignored' = ignored
    BY <2>1
  <2>8. Shape' /\ Books' /\ Keeps /\ Punctual
    BY <1>1, <2>3, <2>4, <2>6, <2>7, BooksSame
  <2> QED BY <2>4, <2>5, <2>8 DEF Moves
<1>5. CASE kind = "timeout"
  <2>1. /\ id \in Ops /\ op[id].sent = "over" /\ op' = [Finished(id, "timeout") EXCEPT ![id].timer = "over"]
        /\ active' = Freed(id) /\ UNCHANGED <<closing, pending, ignored, turn, requests>>
    BY <1>5 DEF Acknowledged, ToOp, TimeIsUp, tableVars, codexVars
  <2>2. /\ op' \in [Ops -> OpType] /\ active' \in [Threads -> Ops \union {NULL}] /\ Books'
        /\ \A p \in Ops : op'[p].thread = op[p].thread
        /\ \A p \in Ops : p # id => op'[p] = op[p]
        /\ op'[id].sent \in {op[id].sent, "over"} /\ Punctual
    <3>1. \A t \in Threads : Closed(t)' /\ active'[t] # NULL => Closed(t)
      BY <2>1 DEF Closed
    <3>2. PICK result \in Losses : result = "timeout"
      BY DEF Losses, Results
    <3>3. /\ op' = [Finished(id, result) EXCEPT ![id].timer = "over"] /\ op[id].sent = "over"
          /\ active' = Freed(id) /\ id \in Ops /\ ignored \subseteq ignored' /\ ignored' \subseteq Turns
      BY <1>1, <2>1, <3>2
    <3> QED BY <1>1, <3>1, <3>3, Finishes
  <2>3. Shape'
    BY <1>1, <2>1, <2>2 DEF Shape
  <2>4. Keeps /\ Turned /\ Asks
    <3>1. \A o \in Ops : op'[o].sent = op[o].sent
      BY <2>1, <2>2
    <3> QED BY <2>1, <2>2, <3>1 DEF Keeps, Turned, Asks
  <2> QED BY <2>2, <2>3, <2>4 DEF Moves
<1> QED BY <1>2, <1>3, <1>4, <1>5 DEF ToThread, ToOp

LEMMA Continues ==
    ASSUME SInv, NEW o \in Ops, Continue(o)
    PROVE  Moves
<1>1. /\ Shape /\ Books /\ closing \in [Threads -> Closings] /\ ignored \subseteq Turns
      /\ op \in [Ops -> OpType] /\ active \in [Threads -> Ops \union {NULL}]
  BY DEF SInv, Shape
<1>2. /\ op[o].sent = "accepted" /\ op[o].timer = "off"
      /\ UNCHANGED <<closing, active, pending, turn>>
  BY <1>1 DEF Continue, Books, tableVars, codexVars
<1>3. CASE TooLate(o)
  <2>1. /\ op' = [op EXCEPT ![o].sent = "over"] /\ ignored' = ignored \union {o}
        /\ requests' = requests \/ Sends(Ask("endLate", o, o))
    BY <1>3 DEF Continue
  <2>2. /\ op' \in [Ops -> OpType] /\ \A p \in Ops : p # o => op'[p] = op[p]
        /\ op'[o].thread = op[o].thread /\ op'[o].turn = op[o].turn /\ op'[o].result = op[o].result
        /\ op'[o].timer = op[o].timer /\ op'[o].sent = "over"
    BY <1>1, <2>1 DEF OpType
  <2>3. ignored \subseteq ignored' /\ ignored' \subseteq Turns
    BY <1>1, <2>1, Numbers
  <2>4. op'[o].result # NULL => \A t \in Threads : active'[t] # o
    BY <1>1, <1>2, <2>2, Numbers DEF Books, Done
  <2>5. Books'
    BY <1>1, <1>2, <2>2, <2>3, <2>4, BooksAt DEF Closed
  <2>6. Shape'
    BY <1>1, <1>2, <2>2, <2>3 DEF Shape
  <2>7. Keeps /\ Turned /\ Punctual
    <3>1. Keeps /\ Turned
      BY <1>2, <2>2 DEF Keeps, Turned
    <3>2. Punctual
      BY <2>2, Numbers DEF Punctual, Open, Done
    <3> QED BY <3>1, <3>2
  <2>8. Asks
    <3>1. PICK r : r = Ask("endLate", o, o)
      OBVIOUS
    <3>2. r.kind = "endLate" /\ r.id = o /\ r.turn = o
      BY <3>1 DEF Ask
    <3>3. Target(r, op', closing')
      BY <3>2 DEF Target, ToThread, ToOp
    <3>4. CASE Sends(r)
      BY <3>2, <3>3, <3>4, Sending, Numbers DEF ToOp
    <3> QED BY <2>1, <3>1, <3>4 DEF Asks
  <2> QED BY <2>5, <2>6, <2>7, <2>8 DEF Moves
<1>4. CASE ~TooLate(o)
  <2>1. /\ op' = [op EXCEPT ![o].sent = "over", ![o].turn = o,
                           ![o].timer = IF Done(o) THEN @ ELSE "on"]
        /\ UNCHANGED <<ignored, requests>> /\ closing[op[o].thread] = "no"
    BY <1>4 DEF Continue, TooLate, Closed, ThreadOf
  <2>2. PICK timer \in {"off", "on"} : timer = IF Done(o) THEN op[o].timer ELSE "on"
    BY <1>2
  <2>3. PICK u \in Turns : u = o
    BY Numbers
  <2>4. op' = [op EXCEPT ![o].sent = "over", ![o].turn = u, ![o].timer = timer]
    BY <1>1, <2>1, <2>2, <2>3 DEF OpType
  <2>5. /\ op' \in [Ops -> OpType] /\ \A p \in Ops : p # o => op'[p] = op[p]
        /\ op'[o].thread = op[o].thread /\ op'[o].turn = u /\ op'[o].result = op[o].result
        /\ op'[o].timer = timer /\ op'[o].sent = "over"
    <3>1. op[o] \in OpType
      BY <1>1
    <3>2. PICK q : q = [op[o] EXCEPT !.sent = "over", !.turn = u, !.timer = timer]
      OBVIOUS
    <3>3. /\ q \in OpType /\ q.thread = op[o].thread /\ q.turn = u /\ q.result = op[o].result
          /\ q.timer = timer /\ q.sent = "over"
      BY <3>1, <3>2 DEF OpType
    <3>4. op' = [op EXCEPT ![o] = q]
      BY <2>4, <3>2
    <3> QED BY <1>1, <3>3, <3>4
  <2>6. op'[o].result # NULL => \A t \in Threads : active'[t] # o
    BY <1>1, <1>2, <2>5, Numbers DEF Books, Done
  <2>7. Books'
    BY <1>1, <1>2, <2>1, <2>2, <2>3, <2>5, <2>6, BooksAt, Numbers DEF Closed
  <2>8. Shape'
    BY <1>1, <1>2, <2>1, <2>5 DEF Shape
  <2>9. Keeps /\ Turned /\ Punctual /\ Asks
    <3>1. Keeps /\ Turned /\ Asks
      BY <1>2, <2>1, <2>5 DEF Keeps, Turned, Asks
    <3>2. Punctual
      BY <2>5, Numbers DEF Punctual, Open, Done
    <3> QED BY <3>1, <3>2
  <2> QED BY <2>7, <2>8, <2>9 DEF Moves
<1> QED BY <1>3, <1>4

Fine == SInv' /\ Punctual

LEMMA Moved ==
    ASSUME SInv, Moves, link' = link, wire' = wire \/ (wire # <<>> /\ wire' = Tail(wire))
    PROVE  Fine
BY FlightStays DEF SInv, Moves, Fine

LEMMA FailsFine ==
    ASSUME SInv, NEW o \in Ops, Fails(o)
    PROVE  Fine
<1>1. /\ Shape /\ Books /\ Flight /\ ignored \subseteq Turns
      /\ op \in [Ops -> OpType] /\ active \in [Threads -> Ops \union {NULL}]
  BY DEF SInv, Shape
<1>2. UNCHANGED <<closing, pending, ignored, turn, requests, wire, link>>
  BY DEF Fails, tableVars, codexVars, linkVars
<1>3. PICK result \in Losses : op' = [Finished(o, result) EXCEPT ![o].sent = "over"] /\ active' = Freed(o)
  BY DEF Fails, Losses, Results
<1>4. /\ op' \in [Ops -> OpType] /\ active' \in [Threads -> Ops \union {NULL}] /\ Books'
      /\ \A p \in Ops : op'[p].thread = op[p].thread
      /\ \A p \in Ops : p # o => op'[p] = op[p]
      /\ op'[o].sent \in {op[o].sent, "over"} /\ Punctual
  BY <1>1, <1>2, <1>3, Finishes DEF Closed
<1>5. Shape'
  BY <1>1, <1>2, <1>4 DEF Shape
<1>6. ASSUME NEW m, Target(m, op, closing), link # "down" PROVE Target(m, op', closing')
  <2>1. op[o].sent = "refused"
    BY <1>6 DEF Fails
  <2>2. ASSUME m.kind \in {"timeout", "start"} PROVE m.id \in Ops /\ op'[m.id] = op[m.id]
    BY <1>4, <1>6, <2>1, <2>2 DEF Target, ToOp
  <2> QED BY <1>2, <1>6, <2>2 DEF Target
<1>7. Flight'
  <2>1. CASE link = "down"
    <3>1. wire = <<>> /\ requests = {} /\ wire' = <<>> /\ requests' = {} /\ link' = "down"
      BY <1>1, <1>2, <2>1 DEF Flight
    <3>2. \A u \in Turns : turn'[u] # "none" => op'[u].thread \in Threads
      BY <1>1, <1>2, <1>4, Numbers DEF Flight
    <3> QED BY <3>1, <3>2 DEF Flight, RequestInv, WireInv, WireOK, StartsOnce, Once
  <2>2. CASE link # "down"
    <3>1. /\ \A r \in requests : Target(r, op', closing')
          /\ \A i \in 1..Len(wire') : Target(wire'[i], op', closing')
      BY <1>1, <1>2, <1>6, <2>2 DEF Flight, RequestInv, WireInv, WireOK, Proper
    <3>2. \A u \in Turns : op[u].thread \in Threads => op'[u].thread \in Threads
      BY <1>4, Numbers
    <3> QED BY <1>1, <1>2, <3>1, <3>2, FlightMoves DEF Turned, Asks
  <2> QED BY <2>1, <2>2
<1> QED BY <1>4, <1>5, <1>7 DEF SInv, Fine

LEMMA ExpiresFine ==
    ASSUME SInv, NEW o \in Ops, Expires(o)
    PROVE  Fine
<1>1. /\ Shape /\ Books /\ ignored \subseteq Turns
      /\ op \in [Ops -> OpType] /\ active \in [Threads -> Ops \union {NULL}] /\ op[o] \in OpType
  BY DEF SInv, Shape
<1>2. UNCHANGED <<closing, active, pending, turn, wire, link>>
  BY DEF Expires, tableVars, codexVars
<1>3. PICK u : u = op[o].turn
  OBVIOUS
<1>4. /\ op[o].timer = "on" /\ op[o].result = NULL /\ op[o].sent = "over" /\ u # NULL /\ u \in Turns
      /\ op' = [op EXCEPT ![o].timer = "interrupting"]
      /\ ignored' = ignored \union {u} /\ Sends(Ask("timeout", o, u))
  BY <1>1, <1>3 DEF Expires, Books, Done, OpType
<1>5. /\ op' \in [Ops -> OpType] /\ \A p \in Ops : p # o => op'[p] = op[p]
      /\ op'[o].thread = op[o].thread /\ op'[o].turn = u /\ op'[o].result = NULL
      /\ op'[o].timer = "interrupting" /\ op'[o].sent = "over"
  BY <1>1, <1>3, <1>4 DEF OpType
<1>6. ignored \subseteq ignored' /\ ignored' \subseteq Turns
  BY <1>1, <1>4
<1>7. Books'
  BY <1>1, <1>2, <1>3, <1>4, <1>5, <1>6, BooksAt DEF Closed
<1>8. Shape'
  BY <1>1, <1>2, <1>5, <1>6 DEF Shape
<1>9. Keeps /\ Turned /\ Punctual
  <2>1. Keeps /\ Turned
    BY <1>2, <1>4, <1>5 DEF Keeps, Turned
  <2>2. Punctual
    BY <1>5, Numbers DEF Punctual, Open, Done
  <2> QED BY <2>1, <2>2
<1>10. Asks
  <2>1. PICK r : r = Ask("timeout", o, u)
    OBVIOUS
  <2>2. r.kind = "timeout" /\ r.id = o /\ r.turn = u /\ Sends(r)
    BY <1>4, <2>1 DEF Ask
  <2>3. Target(r, op', closing')
    BY <1>5, <2>2 DEF Target, ToThread, ToOp
  <2> QED BY <1>4, <2>2, <2>3, Sending DEF ToThread, ToOp
<1> QED BY <1>2, <1>7, <1>8, <1>9, <1>10, Moved DEF Moves

LEMMA Begins ==
    ASSUME SInv, NEW o \in Ops, NEW t \in Threads, op[o] = Unused, ~Closed(t), active[t] = NULL,
           NEW kind \in {"send", "answer"}, NEW u \in Turns \union {NULL},
           NEW sent \in {"requested", "over"}, NEW timer \in {"off", "on"},
           timer = "on" => u # NULL /\ sent = "over",
           Begin(o, t, kind, u, sent, timer), UNCHANGED <<closing, ignored>>
    PROVE  /\ op' \in [Ops -> OpType] /\ active' \in [Threads -> Ops \union {NULL}]
           /\ \A p \in Ops : p # o => op'[p] = op[p]
           /\ op'[o] = [thread |-> t, kind |-> kind, turn |-> u, sent |-> sent, timer |-> timer,
                        result |-> NULL]
           /\ op[o].thread = NULL /\ op[o].sent = "no"
           /\ Books' /\ Keeps /\ Punctual
<1>1. /\ Shape /\ Books /\ op \in [Ops -> OpType] /\ active \in [Threads -> Ops \union {NULL}]
  BY DEF SInv, Shape
<1>2. PICK q : q = [thread |-> t, kind |-> kind, turn |-> u, sent |-> sent, timer |-> timer,
                    result |-> NULL]
  OBVIOUS
<1>3. q \in OpType
  BY <1>2 DEF OpType
<1>4. op' = [op EXCEPT ![o] = q] /\ active' = [active EXCEPT ![t] = o]
  BY <1>2 DEF Begin
<1>5. /\ op' \in [Ops -> OpType] /\ active' \in [Threads -> Ops \union {NULL}]
      /\ \A p \in Ops : p # o => op'[p] = op[p]
      /\ op'[o] = q /\ active'[t] = o /\ \A v \in Threads : v # t => active'[v] = active[v]
  BY <1>1, <1>3, <1>4
<1>6. op[o].thread = NULL /\ op[o].sent = "no" /\ op[o].result = NULL
  BY DEF Unused
<1>7. Books'
  <2>1. ASSUME NEW v \in Threads, active'[v] # NULL
        PROVE  /\ op'[active'[v]].thread = v /\ op'[active'[v]].result = NULL
               /\ closing[v] # "no" => op'[active'[v]].turn # NULL /\ op'[active'[v]].turn \in ignored
    <3>1. CASE v = t
      BY <1>2, <1>5, <3>1 DEF Closed
    <3>2. CASE v # t
      <4>1. /\ active'[v] = active[v] /\ active[v] \in Ops /\ op[active[v]].thread = v
            /\ op[active[v]].result = NULL
            /\ closing[v] # "no" => op[active[v]].turn # NULL /\ op[active[v]].turn \in ignored
        BY <1>1, <1>5, <2>1, <3>2 DEF Books, Done, Closed, Silenced
      <4>2. active[v] # o
        BY <1>6, <4>1, Numbers
      <4> QED BY <1>5, <4>1, <4>2
    <3> QED BY <3>1, <3>2
  <2>2. ASSUME NEW p \in Ops
        PROVE  /\ op'[p].timer = "interrupting" => op'[p].turn # NULL /\ op'[p].turn \in ignored
               /\ op'[p].timer = "on" => op'[p].turn # NULL
               /\ op'[p].timer # "off" => op'[p].sent = "over"
    <3>1. CASE p = o
      BY <1>2, <1>5, <3>1
    <3>2. CASE p # o
      BY <1>1, <1>5, <3>2 DEF Books, Silenced
    <3> QED BY <3>1, <3>2
  <2> QED BY <2>1, <2>2 DEF Books, Closed, Done, Silenced
<1>8. Keeps
  BY <1>5, <1>6, Numbers DEF Keeps
<1>9. Punctual
  <2>1. ASSUME NEW p \in Ops, op[p].result = NULL, op'[p].result \in {"completed", "interrupted"}
        PROVE  FALSE
    BY <1>2, <1>5, <2>1, Numbers
  <2> QED BY <2>1 DEF Punctual, Open, Done
<1> QED BY <1>2, <1>5, <1>6, <1>7, <1>8, <1>9

LEMMA SendFine ==
    ASSUME SInv, NEW o \in Ops, NEW t \in Threads, Send(o, t)
    PROVE  Fine
<1>1. /\ Flight /\ Shape /\ op \in [Ops -> OpType] /\ RequestInv /\ WireInv /\ StartsOnce
  BY DEF SInv, Shape, Flight
<1>2. /\ op[o] = Unused /\ ~Closed(t) /\ active[t] = NULL /\ Begin(o, t, "send", NULL, "requested", "off")
      /\ Sends(Ask("start", o, o))
      /\ UNCHANGED <<closing, pending, ignored, turn, wire, link>>
  BY DEF Send, SendBody, Following, tableVars, codexVars
<1>3. /\ op' \in [Ops -> OpType] /\ active' \in [Threads -> Ops \union {NULL}]
      /\ \A p \in Ops : p # o => op'[p] = op[p]
      /\ op'[o].thread = t /\ op'[o].sent = "requested"
      /\ op[o].sent = "no" /\ Books' /\ Keeps /\ Punctual
  <2>1. PICK kind \in {"send", "answer"}, u \in Turns \union {NULL}, sent \in {"requested", "over"}, timer \in {"off", "on"} :
          kind = "send" /\ u = NULL /\ sent = "requested" /\ timer = "off"
    OBVIOUS
  <2>2. /\ op[o] = Unused /\ ~Closed(t) /\ active[t] = NULL /\ UNCHANGED <<closing, ignored>>
        /\ Begin(o, t, kind, u, sent, timer) /\ (timer = "on" => u # NULL /\ sent = "over")
    BY <1>2, <2>1
  <2> HIDE <2>1
  <2>3. /\ op' \in [Ops -> OpType] /\ active' \in [Threads -> Ops \union {NULL}]
        /\ Books' /\ Keeps /\ Punctual
    BY <2>2, Begins
  <2>4. /\ \A p \in Ops : p # o => op'[p] = op[p]
        /\ op'[o].thread = t /\ op'[o].sent = "requested" /\ op[o].sent = "no"
    BY <1>1, <1>2 DEF Begin, Unused
  <2> QED BY <2>3, <2>4
<1>4. Shape'
  BY <1>1, <1>2, <1>3 DEF Shape
<1>5. PICK r : r = Ask("start", o, o)
  OBVIOUS
<1>6. r.kind = "start" /\ r.id = o /\ r.turn = o /\ (requests' = requests \/ requests' = requests \union {r})
  BY <1>2, <1>5 DEF Ask, Sends
<1>7. Target(r, op', closing')
  BY <1>3, <1>6 DEF Target, ToThread, ToOp
<1>8. \A q \in requests : q.kind = "start" => q.id # o
  BY <1>1, <1>3 DEF RequestInv, Target
<1>9. \A i \in 1..Len(wire) : wire[i].kind = "start" => wire[i].id # o
  BY <1>1, <1>3 DEF WireInv, WireOK, Proper, Target
<1>10. RequestInv'
  <2>1. ASSUME NEW q \in requests' PROVE q \in requests \/ q = r
    BY <1>6
  <2>2. \A q \in requests : Target(q, op', closing')
    BY <1>1, <1>3, TargetStays DEF RequestInv
  <2> QED BY <1>1, <1>6, <1>7, <2>1, <2>2, Numbers DEF RequestInv
<1>11. WireInv'
  <2>1. \A i \in 1..Len(wire) : Proper(wire[i], op', closing')
    <3>1. ASSUME NEW i \in 1..Len(wire) PROVE Proper(wire[i], op', closing')
      <4>1. Proper(wire[i], op, closing)
        BY <1>1 DEF WireInv, WireOK
      <4>2. Target(wire[i], op', closing')
        BY <1>3, <4>1, TargetStays DEF Proper
      <4> QED BY <1>3, <4>1, <4>2, Numbers DEF Proper, Keeps
    <3> QED BY <3>1
  <2> QED BY <1>1, <1>2, <2>1 DEF WireInv, WireOK
<1>12. StartsOnce'
  <2>1. ASSUME NEW q \in requests' PROVE q \in requests \/ q = r
    BY <1>6
  <2> QED BY <1>1, <1>2, <1>6, <1>8, <1>9, <2>1 DEF StartsOnce, Once
<1>13. /\ link' = "down" => wire' = <<>> /\ requests' = {}
       /\ \A u \in Turns : turn'[u] # "none" => op'[u].thread \in Threads
  BY <1>1, <1>2, <1>3, Numbers DEF Flight, Sends, Keeps
<1> QED BY <1>1, <1>2, <1>3, <1>4, <1>10, <1>11, <1>12, <1>13 DEF Fine, SInv, Flight

LEMMA AnswerFine ==
    ASSUME SInv, NEW o \in Ops, NEW t \in Threads, Answer(o, t)
    PROVE  Fine
<1>1. /\ Shape /\ op \in [Ops -> OpType] /\ pending \in [Threads -> Turns \union {NULL}]
  BY DEF SInv, Shape
<1>2. PICK u \in Turns : u = pending[t] /\ u # NULL
  BY <1>1 DEF Answer
<1>3. /\ op[o] = Unused /\ ~Closed(t) /\ active[t] = NULL /\ Begin(o, t, "answer", u, "over", "on")
      /\ pending' = [pending EXCEPT ![t] = NULL] /\ turn' = Resumed(u)
      /\ UNCHANGED <<closing, ignored, requests, wire, link>>
  BY <1>2 DEF Answer, Following, tableVars, linkVars
<1>4. /\ op' \in [Ops -> OpType] /\ active' \in [Threads -> Ops \union {NULL}]
      /\ Books' /\ Keeps /\ Punctual
  <2>1. PICK kind \in {"send", "answer"}, sent \in {"requested", "over"}, timer \in {"off", "on"} :
          kind = "answer" /\ sent = "over" /\ timer = "on"
    OBVIOUS
  <2>2. Begin(o, t, kind, u, sent, timer) /\ (timer = "on" => u # NULL /\ sent = "over")
    BY <1>2, <1>3, <2>1
  <2> HIDE <2>1
  <2> QED BY <1>3, <2>2, Begins
<1>5. turn' \in [Turns -> {"none", "running", "asking", "over"}] /\ Turned
  BY <1>1, <1>3, Resumes
<1>6. Shape'
  BY <1>1, <1>3, <1>4, <1>5 DEF Shape
<1> QED BY <1>3, <1>4, <1>5, <1>6, Moved DEF Moves, Asks

LEMMA CreateFine ==
    ASSUME SInv, NEW t \in Threads, NEW k \in Keys, Create(t, k)
    PROVE  Fine
<1>1. PICK r : r = Ask("create", t, NULL)
  OBVIOUS
<1>2. /\ r.kind = "create" /\ r.id = t /\ r.turn = NULL /\ Sends(r)
      /\ UNCHANGED <<op, active, closing, ignored, pending, turn, wire, link>>
  BY <1>1 DEF Create, Ask, opVars, codexVars
<1>3. Target(r, op', closing') /\ r.kind \in ToThread
  BY <1>2 DEF Target, ToThread, ToOp
<1>4. Asks
  BY <1>2, <1>3, Sending
<1>5. Turned /\ ignored' \subseteq Turns /\ pending' \in [Threads -> Turns \union {NULL}]
      /\ turn' \in [Turns -> {"none", "running", "asking", "over"}]
  BY <1>2 DEF Turned, SInv, Shape
<1> QED BY <1>2, <1>4, <1>5, Aside, Moved

LEMMA QuietFine ==
    ASSUME SInv, UNCHANGED <<op, active, closing, ignored, pending, turn, requests, wire, link>>
    PROVE  Fine
<1>1. /\ Turned /\ Asks /\ ignored' \subseteq Turns /\ pending' \in [Threads -> Turns \union {NULL}]
      /\ turn' \in [Turns -> {"none", "running", "asking", "over"}]
  BY DEF Turned, Asks, SInv, Shape
<1> QED BY <1>1, Aside, Moved

LEMMA CloseFine ==
    ASSUME SInv, NEW t \in Threads, Close(t) \/ ShutdownCloses(t)
    PROVE  Fine
<1>1. CASE CloseSidecar(t)
  <2>1. UNCHANGED <<pending, turn, wire, link>>
    BY DEF Close, ShutdownCloses, codexVars
  <2> QED BY <1>1, <2>1, Closes, Moved
<1>2. CASE ~CloseSidecar(t)
  <2>1. ShutdownCloses(t) /\ Closed(t)
    BY <1>2 DEF Close, ShutdownCloses
  <2>2. UNCHANGED <<op, active, closing, ignored, pending, turn, requests, wire, link>>
    BY <2>1 DEF ShutdownCloses, codexVars
  <2> QED BY <2>2, QuietFine
<1> QED BY <1>1, <1>2

LEMMA RejectedFine ==
    ASSUME SInv, NEW kind \in ToThread \union {"timeout"}, NEW id,
           IF kind = "timeout" THEN id \in Ops ELSE id \in Threads, Rejected(kind, id)
    PROVE  Fine
<1>1. Waits(kind, id) /\ Acknowledged(kind, id) /\ UNCHANGED <<wire, link>>
  BY DEF Rejected
<1>2. /\ kind \in ToThread => id \in Threads
      /\ kind \in ToOp => id \in Ops
      /\ kind \in {"endTurn", "endInput", "unsubscribe"} => closing[id] # "no"
      /\ kind = "timeout" => op[id].sent = "over"
  BY <1>1 DEF Waits, ToThread, ToOp, SInv, Books
<1>3. kind \in ToThread \union ToOp
  BY DEF ToOp
<1> QED BY <1>1, <1>2, <1>3, Acknowledges, Moved

(* Codex's messages reach the manager.                                      *)
LEMMA HeardFine ==
    ASSUME SInv, NEW u \in Turns, ThreadOf(u) \in Threads,
           NEW o \in Ops, o = active[ThreadOf(u)], op[o].turn \in {NULL, u},
           NEW result \in {NULL, "completed", "interrupted", "needsInput"},
           op' = IF result = NULL THEN [op EXCEPT ![o].turn = u]
                                  ELSE [op EXCEPT ![o].turn = u, ![o].result = result],
           active' = IF result = NULL THEN active ELSE [active EXCEPT ![ThreadOf(u)] = NULL],
           result \in {"completed", "interrupted"} => u \notin ignored,
           UNCHANGED <<closing, ignored, turn, requests, link>>,
           pending' \in [Threads -> Turns \union {NULL}],
           wire # <<>> /\ wire' = Tail(wire)
    PROVE  Fine
<1>1. /\ Shape /\ Books /\ op \in [Ops -> OpType] /\ active \in [Threads -> Ops \union {NULL}]
      /\ op[o] \in OpType
  BY DEF SInv, Shape
<1>2. PICK t \in Threads : t = ThreadOf(u)
  OBVIOUS
<1>3. o # NULL /\ op[o].thread = t /\ op[o].result = NULL
  BY <1>1, <1>2, Numbers DEF Books, Done
<1>4. PICK q : q = IF result = NULL THEN [op[o] EXCEPT !.turn = u]
                                    ELSE [op[o] EXCEPT !.turn = u, !.result = result]
  OBVIOUS
<1>5. /\ q \in OpType /\ q.thread = t /\ q.turn = u /\ q.sent = op[o].sent /\ q.timer = op[o].timer
      /\ q.result = result
  BY <1>1, <1>3, <1>4, Numbers DEF OpType, Results
<1>6. op' = [op EXCEPT ![o] = q]
  BY <1>4
<1>7. /\ op' \in [Ops -> OpType] /\ op'[o] = q /\ \A p \in Ops : p # o => op'[p] = op[p]
      /\ active' \in [Threads -> Ops \union {NULL}]
      /\ \A v \in Threads : active'[v] = IF result # NULL /\ v = t THEN NULL ELSE active[v]
  BY <1>1, <1>2, <1>5, <1>6
<1>8. Books'
  <2>1. op'[o].result # NULL => \A v \in Threads : active'[v] # o
    <3>1. ASSUME NEW v \in Threads, active'[v] = o PROVE v = t /\ result = NULL
      BY <1>1, <1>2, <1>3, <1>7, <3>1 DEF Books
    <3> QED BY <1>5, <1>7, <3>1
  <2>2. op[o].turn # NULL => op'[o].turn = op[o].turn
    BY <1>5, <1>7
  <2>3. /\ op'[o].timer = "interrupting" => op'[o].turn # NULL /\ op'[o].turn \in ignored'
        /\ op'[o].timer = "on" => op'[o].turn # NULL
        /\ op'[o].timer # "off" => op'[o].sent = "over"
    BY <1>1, <1>5, <1>7, <2>2 DEF Books, Silenced
  <2>4. \A v \in Threads : Closed(v)' /\ active'[v] # NULL => Closed(v)
    BY DEF Closed
  <2>5. ignored \subseteq ignored' /\ ignored' \subseteq Turns /\ op'[o].thread = op[o].thread
    BY <1>1, <1>3, <1>5, <1>7 DEF Shape
  <2>6. \A v \in Threads : active'[v] \in {active[v], NULL}
    BY <1>7
  <2> QED BY <1>1, <1>7, <2>1, <2>2, <2>3, <2>4, <2>5, <2>6, BooksAt
<1>9. Shape'
  BY <1>1, <1>7 DEF Shape
<1>10. Keeps /\ Turned /\ Asks
  BY <1>3, <1>5, <1>7 DEF Keeps, Turned, Asks
<1>11. Punctual
  <2>1. ASSUME NEW p \in Ops, op[p].result = NULL, op'[p].result \in {"completed", "interrupted"}
        PROVE  closing[op[p].thread] = "no" /\ op[p].timer # "interrupting"
    <3>1. p = o /\ u \notin ignored
      BY <1>5, <1>7, <2>1, Numbers
    <3>2. closing[t] = "no"
      BY <1>1, <1>2, <1>3, <3>1 DEF Books, Closed, Silenced
    <3>3. op[o].timer # "interrupting"
      BY <1>1, <3>1 DEF Books, Silenced
    <3> QED BY <1>3, <3>1, <3>2, <3>3
  <2> QED BY <2>1 DEF Punctual, Open, Done, Closed
<1> QED BY <1>8, <1>9, <1>10, <1>11, Moved DEF Moves

LEMMA StartedFine ==
    ASSUME SInv, wire # <<>>, wire' = Tail(wire), wire[1].kind = "start",
           op' = [op EXCEPT ![wire[1].id].sent = wire[1].status],
           UNCHANGED <<active, closing, pending, ignored, turn, requests, link>>
    PROVE  Fine
<1>1. /\ Shape /\ Books /\ Flight /\ op \in [Ops -> OpType]
      /\ active \in [Threads -> Ops \union {NULL}] /\ RequestInv /\ WireInv /\ StartsOnce
  BY DEF SInv, Shape, Flight
<1>2. PICK n \in Nat : n = Len(wire)
  BY <1>1, WireFacts
<1>3. /\ n > 0 /\ Len(wire') = n - 1 /\ \A i \in 1..Len(wire') : wire'[i] = wire[i + 1]
  BY <1>1, <1>2, WireFacts
<1>4. 1 \in 1..n /\ \A i \in 1..(n - 1) : i + 1 \in 1..n /\ i + 1 # 1
  BY <1>2, <1>3
<1>5. PICK o \in Ops, sent \in {"accepted", "refused"} : o = wire[1].id /\ sent = wire[1].status
  BY <1>1, <1>2, <1>4 DEF WireInv, WireOK, Proper, Target
<1>6. op[o].sent = "requested" /\ op[o].timer = "off"
  BY <1>1, <1>2, <1>4, <1>5 DEF WireInv, WireOK, Proper, Target, Books
<1>7. /\ op' \in [Ops -> OpType] /\ \A p \in Ops : p # o => op'[p] = op[p]
      /\ op'[o].thread = op[o].thread /\ op'[o].turn = op[o].turn /\ op'[o].result = op[o].result
      /\ op'[o].timer = "off"
  BY <1>1, <1>5, <1>6 DEF OpType
<1>8. op'[o].result # NULL => \A t \in Threads : active'[t] # o
  BY <1>1, <1>7, Numbers DEF Books, Done
<1>9. Books'
  <2>1. ignored \subseteq ignored' /\ ignored' \subseteq Turns
    BY <1>1 DEF Shape
  <2>2. active' \in [Threads -> Ops \union {NULL}] /\ \A t \in Threads : active'[t] \in {active[t], NULL}
    BY <1>1
  <2>3. \A t \in Threads : Closed(t)' /\ active'[t] # NULL => Closed(t)
    BY DEF Closed
  <2> QED BY <1>1, <1>7, <1>8, <2>1, <2>2, <2>3, BooksAt
<1>10. Shape'
  BY <1>1, <1>7 DEF Shape
<1>11. Punctual
  BY <1>7, Numbers DEF Punctual, Open, Done
<1>12. ASSUME NEW m, Target(m, op, closing), m.kind = "start" => m.id # o
       PROVE  Target(m, op', closing')
  <2>1. ASSUME m.kind \in {"timeout", "start"} PROVE m.id \in Ops /\ op'[m.id] = op[m.id]
    BY <1>6, <1>7, <1>12, <2>1 DEF Target, ToOp
  <2> QED BY <1>12, <2>1 DEF Target
<1>13. ASSUME NEW r \in requests PROVE Target(r, op', closing')
  <2>1. r.kind = "start" => r.id # o
    BY <1>1, <1>2, <1>4, <1>5 DEF StartsOnce, Once
  <2> QED BY <1>1, <1>12, <2>1 DEF RequestInv
<1>14. ASSUME NEW i \in 1..Len(wire') PROVE Target(wire'[i], op', closing')
  <2>1. wire'[i] = wire[i + 1] /\ i + 1 \in 1..n /\ i + 1 # 1
    BY <1>3, <1>4
  <2>2. wire[i + 1].kind = "start" => wire[i + 1].id # o
    BY <1>1, <1>2, <1>4, <1>5, <2>1 DEF StartsOnce, Once
  <2>3. Target(wire[i + 1], op, closing)
    BY <1>1, <1>2, <2>1 DEF WireInv, WireOK, Proper
  <2> QED BY <1>12, <2>1, <2>2, <2>3
<1>15. Flight'
  <2>1. \A u \in Turns : op[u].thread \in Threads => op'[u].thread \in Threads
    BY <1>7, Numbers
  <2> QED BY <1>1, <1>13, <1>14, <2>1, FlightMoves DEF Turned, Asks
<1> QED BY <1>9, <1>10, <1>11, <1>15 DEF SInv, Fine

LEMMA ReceiveFine ==
    ASSUME SInv, Receive
    PROVE  Fine
<1>1. /\ Shape /\ Books /\ Flight /\ WireInv /\ active \in [Threads -> Ops \union {NULL}]
      /\ pending \in [Threads -> Turns \union {NULL}] /\ ignored \subseteq Turns
      /\ turn \in [Turns -> {"none", "running", "asking", "over"}]
  BY DEF SInv, Shape, Flight
<1>2. wire # <<>> /\ wire' = Tail(wire) /\ UNCHANGED link /\ Head(wire) = wire[1] /\ 1 \in 1..Len(wire)
  BY <1>1, WireFacts DEF Receive
<1>3. PICK m : m = wire[1]
  OBVIOUS
<1>4. m \in Messages /\ Proper(m, op, closing) /\ m = Head(wire)
  BY <1>1, <1>2, <1>3, WireFacts DEF WireInv, WireOK
<1>5. CASE m.kind = "notice"
  <2>1. PICK u \in Turns, status \in {"started", "completed", "interrupted"} :
          u = m.id /\ status = m.status /\ op[u].thread \in Threads
    BY <1>4, <1>5 DEF Proper
  <2>2. Notify(u, status) /\ UNCHANGED <<closing, pending, ignored, turn, requests>>
    BY <1>4, <1>5, <2>1 DEF Receive, tableVars, codexVars
  <2>3. CASE ~Heard(u)
    <3>1. UNCHANGED <<op, active>>
      BY <2>2, <2>3 DEF Notify
    <3> QED BY <1>1, <1>2, <2>2, <3>1, Aside, Moved DEF Turned, Asks
  <2>4. CASE Heard(u)
    <3>1. PICK o \in Ops : o = active[ThreadOf(u)] /\ op[o].turn \in {NULL, u}
      BY <1>1, <2>1, <2>4 DEF Heard, ThreadOf
    <3>2. u \notin ignored
      BY <2>4 DEF Heard
    <3>3. PICK result \in {NULL, "completed", "interrupted"} :
            result = IF status = "started" THEN NULL ELSE status
      BY <2>1
    <3>4. /\ op' = IF result = NULL THEN [op EXCEPT ![o].turn = u]
                                    ELSE [op EXCEPT ![o].turn = u, ![o].result = result]
          /\ active' = IF result = NULL THEN active ELSE [active EXCEPT ![ThreadOf(u)] = NULL]
      <4>1. CASE status = "started"
        BY <2>2, <2>4, <3>1, <3>3, <4>1 DEF Notify
      <4>2. CASE status # "started"
        <5>1. result = status /\ result # NULL
          BY <3>3, <4>2, Numbers
        <5> QED BY <2>2, <2>4, <3>1, <4>2, <5>1 DEF Notify
      <4> QED BY <4>1, <4>2
    <3>5. /\ ThreadOf(u) \in Threads /\ o = active[ThreadOf(u)] /\ op[o].turn \in {NULL, u}
          /\ result \in {NULL, "completed", "interrupted", "needsInput"}
          /\ result \in {"completed", "interrupted"} => u \notin ignored
          /\ UNCHANGED <<closing, ignored, turn, requests, link>>
          /\ pending' \in [Threads -> Turns \union {NULL}]
          /\ wire # <<>> /\ wire' = Tail(wire)
      BY <1>1, <1>2, <2>1, <2>2, <3>1, <3>2 DEF ThreadOf
    <3> QED BY <3>4, <3>5, HeardFine
  <2> QED BY <2>3, <2>4
<1>6. CASE m.kind = "ask"
  <2>1. PICK u \in Turns : u = m.id /\ op[u].thread \in Threads
    BY <1>4, <1>6 DEF Proper
  <2>2. HandleRequestUserInput(u) /\ UNCHANGED <<closing, ignored, requests>>
    BY <1>4, <1>6, <2>1 DEF Receive, tableVars
  <2>3. CASE turn' = Resumed(u) /\ UNCHANGED <<op, active, pending>>
    <3>1. turn' \in [Turns -> {"none", "running", "asking", "over"}] /\ Turned
      BY <1>1, <2>3, Resumes
    <3> QED BY <1>1, <1>2, <2>2, <2>3, <3>1, Aside, Moved DEF Asks
  <2>4. CASE ~(turn' = Resumed(u) /\ UNCHANGED <<op, active, pending>>)
    <3>1. PICK o \in Ops : o = active[ThreadOf(u)] /\ op[o].turn \in {NULL, u}
      BY <1>1, <2>1, <2>2, <2>4 DEF HandleRequestUserInput, ThreadOf
    <3>2. PICK result \in {"needsInput"} : result = "needsInput"
      OBVIOUS
    <3>3. /\ op' = [op EXCEPT ![o].turn = u, ![o].result = result] /\ result # NULL
          /\ active' = [active EXCEPT ![ThreadOf(u)] = NULL]
          /\ pending' = [pending EXCEPT ![ThreadOf(u)] = u] /\ UNCHANGED turn
      BY <2>2, <2>4, <3>1, <3>2, Numbers DEF HandleRequestUserInput, Results
    <3>4. pending' \in [Threads -> Turns \union {NULL}]
      BY <1>1, <3>3
    <3>5. /\ ThreadOf(u) \in Threads /\ o = active[ThreadOf(u)] /\ op[o].turn \in {NULL, u}
          /\ result \in {NULL, "completed", "interrupted", "needsInput"}
          /\ result \in {"completed", "interrupted"} => u \notin ignored
          /\ UNCHANGED <<closing, ignored, turn, requests, link>>
          /\ wire # <<>> /\ wire' = Tail(wire)
          /\ op' = IF result = NULL THEN [op EXCEPT ![o].turn = u]
                                    ELSE [op EXCEPT ![o].turn = u, ![o].result = result]
          /\ active' = IF result = NULL THEN active ELSE [active EXCEPT ![ThreadOf(u)] = NULL]
      BY <1>1, <1>2, <2>1, <2>2, <3>1, <3>2, <3>3 DEF ThreadOf
    <3> QED BY <3>4, <3>5, HeardFine
  <2> QED BY <2>3, <2>4
<1>7. CASE m.kind = "start"
  <2>1. op' = [op EXCEPT ![wire[1].id].sent = wire[1].status]
    BY <1>3, <1>4, <1>7 DEF Receive
  <2>2. UNCHANGED <<active, closing, pending, ignored, turn, requests>>
    BY <1>3, <1>4, <1>7 DEF Receive, tableVars, codexVars
  <2> QED BY <1>2, <1>3, <1>7, <2>1, <2>2, StartedFine
<1>8. CASE m.kind \notin {"notice", "ask", "start"}
  <2>1. PICK kind \in ToThread \union ToOp : kind = m.kind
    BY <1>4, <1>8 DEF Messages
  <2>2. Acknowledged(kind, m.id)
    BY <1>4, <1>8, <2>1 DEF Receive
  <2>3. /\ kind \in ToThread => m.id \in Threads
        /\ kind \in ToOp => m.id \in Ops
        /\ kind \in {"endTurn", "endInput", "unsubscribe"} => closing[m.id] # "no"
        /\ kind = "timeout" => op[m.id].sent = "over"
    BY <1>4, <2>1 DEF Proper, Target
  <2> QED BY <1>2, <2>2, <2>3, Acknowledges, Moved
<1> QED BY <1>5, <1>6, <1>7, <1>8

(* Codex answers: what it says is put behind what it said before.           *)
LEMMA AddedFine ==
    ASSUME SInv, UNCHANGED <<op, active, closing, pending, ignored, link>>, link = "up",
           turn' \in [Turns -> {"none", "running", "asking", "over"}],
           \A u \in Turns : turn'[u] # "none" => op[u].thread \in Threads,
           requests' \subseteq requests,
           NEW w \in Seq(Messages), wire' = wire \o w,
           \A i \in 1..Len(w) : Proper(w[i], op, closing),
           \A i \in 1..Len(w) : w[i].kind = "start" =>
               \E r \in requests : r \notin requests' /\ r.kind = "start" /\ r.id = w[i].id,
           \A i, j \in 1..Len(w) : w[i].kind = "start" /\ w[j].kind = "start" => i = j
    PROVE  Fine
<1>1. /\ Shape /\ Books /\ Flight /\ RequestInv /\ WireInv /\ StartsOnce /\ wire \in Seq(Messages)
      /\ closing \in [Threads -> Closings] /\ ignored \subseteq Turns
      /\ pending \in [Threads -> Turns \union {NULL}]
  BY DEF SInv, Shape, Flight, WireInv, WireOK
<1>2. PICK n \in Nat, k \in Nat : n = Len(wire) /\ k = Len(w)
  BY <1>1
<1>3. /\ wire' \in Seq(Messages) /\ Len(wire') = n + k
      /\ \A i \in 1..(n + k) : wire'[i] = IF i <= n THEN wire[i] ELSE w[i - n]
  BY <1>1, <1>2
<1>4. \A i \in 1..(n + k) : IF i <= n THEN i \in 1..n ELSE i - n \in 1..k
  BY <1>2
<1>5. WireInv'
  <2>1. ASSUME NEW i \in 1..(n + k) PROVE Proper(wire'[i], op, closing)
    <3>1. CASE i <= n
      BY <1>1, <1>2, <1>3, <1>4, <3>1 DEF WireInv, WireOK
    <3>2. CASE ~(i <= n)
      BY <1>2, <1>3, <1>4, <3>2
    <3> QED BY <3>1, <3>2
  <2> QED BY <1>3, <2>1 DEF WireInv, WireOK
<1>6. RequestInv'
  BY <1>1 DEF RequestInv
<1>7. StartsOnce'
  <2>1. ASSUME NEW i \in 1..k, w[i].kind = "start"
        PROVE  /\ \A r \in requests' : r.kind = "start" => r.id # w[i].id
               /\ \A j \in 1..n : wire[j].kind = "start" => wire[j].id # w[i].id
    <3>1. PICK q \in requests : q \notin requests' /\ q.kind = "start" /\ q.id = w[i].id
      BY <1>2, <2>1
    <3> QED BY <1>1, <1>2, <3>1 DEF StartsOnce, Once
  <2>2. ASSUME NEW r \in requests', NEW i \in 1..(n + k), r.kind = "start", wire'[i].kind = "start"
        PROVE  wire'[i].id # r.id
    <3>1. CASE i <= n
      BY <1>1, <1>2, <1>3, <1>4, <2>2, <3>1 DEF StartsOnce, Once
    <3>2. CASE ~(i <= n)
      BY <1>3, <1>4, <2>1, <2>2, <3>2
    <3> QED BY <3>1, <3>2
  <2>3. ASSUME NEW i \in 1..(n + k), NEW j \in 1..(n + k), wire'[i].kind = "start",
               wire'[j].kind = "start", i # j
        PROVE  wire'[i].id # wire'[j].id
    <3>1. CASE i <= n /\ j <= n
      BY <1>1, <1>2, <1>3, <1>4, <2>3, <3>1 DEF StartsOnce, Once
    <3>2. CASE i <= n /\ ~(j <= n)
      <4>1. i \in 1..n /\ j - n \in 1..k /\ wire'[i] = wire[i] /\ wire'[j] = w[j - n]
        BY <1>3, <1>4, <3>2
      <4> QED BY <2>1, <2>3, <4>1
    <3>3. CASE ~(i <= n) /\ j <= n
      <4>1. j \in 1..n /\ i - n \in 1..k /\ wire'[j] = wire[j] /\ wire'[i] = w[i - n]
        BY <1>3, <1>4, <3>3
      <4> QED BY <2>1, <2>3, <4>1
    <3>4. CASE ~(i <= n) /\ ~(j <= n)
      <4>1. w[i - n].kind = "start" /\ w[j - n].kind = "start" /\ i - n \in 1..k /\ j - n \in 1..k
        BY <1>3, <1>4, <2>3, <3>4
      <4>2. i - n = j - n
        BY <1>2, <4>1
      <4> QED BY <1>2, <2>3, <4>2
    <3> QED BY <3>1, <3>2, <3>3, <3>4
  <2>4. \A r, q \in requests' : r.kind = "start" /\ q.kind = "start" /\ r.id = q.id => r = q
    BY <1>1 DEF StartsOnce, Once
  <2> QED BY <1>3, <2>2, <2>3, <2>4 DEF StartsOnce, Once
<1>8. /\ link' = "down" => wire' = <<>> /\ requests' = {}
      /\ link' \in {"up", "down"}
      /\ \A u \in Turns : turn'[u] # "none" => op'[u].thread \in Threads
  BY Numbers
<1>9. Shape' /\ Books' /\ Keeps /\ Punctual
  <2>1. \A t \in Threads : closing[t] # "no" => closing'[t] # "no"
    OBVIOUS
  <2>2. \A t \in Threads : closing'[t] # "no" /\ active[t] # NULL => closing[t] # "no"
    OBVIOUS
  <2> QED BY <1>1, <2>1, <2>2, BooksSame
<1> QED BY <1>5, <1>6, <1>7, <1>8, <1>9 DEF Flight, SInv, Fine

LEMMA OneMessage ==
    ASSUME NEW m \in Messages, Proper(m, op, closing)
    PROVE  /\ <<m>> \in Seq(Messages) /\ Len(<<m>>) = 1 /\ <<m>>[1] = m
           /\ \A i \in 1..Len(<<m>>) : i = 1 /\ <<m>>[i] = m
           /\ \A i \in 1..Len(<<m>>) : Proper(<<m>>[i], op, closing)
           /\ \A i, j \in 1..Len(<<m>>) : i = j
<1>1. <<m>> \in Seq(Messages) /\ Len(<<m>>) = 1 /\ <<m>>[1] = m
  OBVIOUS
<1>2. \A i \in 1..1 : i = 1
  OBVIOUS
<1> QED BY <1>1, <1>2

LEMMA TwoMessages ==
    ASSUME NEW m \in Messages, NEW x \in Messages, Proper(m, op, closing), Proper(x, op, closing),
           x.kind # "start"
    PROVE  /\ <<m, x>> \in Seq(Messages) /\ Len(<<m, x>>) = 2 /\ <<m, x>>[1] = m /\ <<m, x>>[2] = x
           /\ \A i \in 1..Len(<<m, x>>) : Proper(<<m, x>>[i], op, closing)
           /\ \A i \in 1..Len(<<m, x>>) : <<m, x>>[i].kind = "start" => i = 1
<1>1. <<m, x>> \in Seq(Messages) /\ Len(<<m, x>>) = 2 /\ <<m, x>>[1] = m /\ <<m, x>>[2] = x
  OBVIOUS
<1>2. \A i \in 1..2 : i = 1 \/ i = 2
  OBVIOUS
<1> QED BY <1>1, <1>2

LEMMA MessageFacts ==
    ASSUME NEW kind \in ToThread \union ToOp \union {"start", "notice", "ask"}, NEW id \in Nat,
           NEW status \in {"accepted", "refused", "started", "completed", "interrupted", NULL}
    PROVE  /\ Message(kind, id, status) \in Messages /\ Message(kind, id, status).kind = kind
           /\ Message(kind, id, status).id = id /\ Message(kind, id, status).status = status
BY DEF Message, Messages

LEMMA NoticeProper ==
    ASSUME NEW u \in Turns, op[u].thread \in Threads, NEW status \in {"started", "completed", "interrupted"}
    PROVE  /\ Message("notice", u, status) \in Messages /\ Message("notice", u, status).kind = "notice"
           /\ Proper(Message("notice", u, status), op, closing)
<1>1. PICK m : m = Message("notice", u, status)
  OBVIOUS
<1>2. m \in Messages /\ m.kind = "notice" /\ m.id = u /\ m.status = status
  BY <1>1, Numbers, MessageFacts
<1>3. Proper(m, op, closing)
  BY <1>2 DEF Proper, Target, ToThread, ToOp
<1> QED BY <1>1, <1>2, <1>3

LEMMA ReplyProper ==
    ASSUME SInv, NEW r \in requests, r.kind # "start"
    PROVE  /\ Message(r.kind, r.id, NULL) \in Messages /\ Message(r.kind, r.id, NULL).kind = r.kind
           /\ Proper(Message(r.kind, r.id, NULL), op, closing)
<1>1. r.kind \in ToThread \union ToOp /\ Target(r, op, closing)
  BY DEF SInv, Flight, RequestInv
<1>2. r.id \in Nat
  BY <1>1, Numbers DEF Target
<1>3. PICK m : m = Message(r.kind, r.id, NULL)
  OBVIOUS
<1>4. m \in Messages /\ m.kind = r.kind /\ m.id = r.id
  BY <1>1, <1>2, <1>3, MessageFacts
<1>5. Proper(m, op, closing)
  <2>1. Target(m, op, closing)
    BY <1>1, <1>4 DEF Target
  <2> QED BY <1>1, <1>4, <2>1 DEF Proper, ToThread, ToOp
<1> QED BY <1>3, <1>4, <1>5

LEMMA ServeFine ==
    ASSUME SInv, NEW r \in requests, Serve(r)
    PROVE  Fine
<1>1. /\ turn \in [Turns -> {"none", "running", "asking", "over"}]
      /\ r.kind \in ToThread \union ToOp \union {"start"} /\ Target(r, op, closing)
      /\ r.turn \in Turns \union {NULL} /\ (r.kind = "start" => r.turn = r.id)
      /\ \A u \in Turns : turn[u] # "none" => op[u].thread \in Threads
  BY DEF SInv, Shape, Flight, RequestInv
<1>2. /\ UNCHANGED <<op, active, closing, pending, ignored, link>> /\ link = "up"
      /\ requests' = requests \ {r}
  BY DEF Serve, Room, tableVars, opVars
<1>3. CASE r.kind = "start"
  <2>1. PICK u \in Turns : u = r.id /\ u = r.turn /\ op[u].thread \in Threads /\ op[u].sent = "requested"
    BY <1>1, <1>3, Numbers DEF Target
  <2>2. PICK m, x : m = Message("start", r.id, "accepted") /\ x = Message("notice", r.turn, "started")
    OBVIOUS
  <2>3. /\ turn' = [turn EXCEPT ![u] = "running"] /\ wire' = wire \o <<m, x>>
    BY <1>3, <2>1, <2>2 DEF Serve
  <2>4. m \in Messages /\ m.kind = "start" /\ m.id = u /\ m.status = "accepted"
    <3>1. u \in Nat /\ m = Message("start", u, "accepted")
      BY <2>1, <2>2, Numbers
    <3>2. PICK kind \in ToThread \union ToOp \union {"start", "notice", "ask"} : kind = "start"
      OBVIOUS
    <3> QED BY <3>1, <3>2, MessageFacts
  <2>5. Proper(m, op, closing)
    BY <2>1, <2>4, Numbers DEF Proper, Target, ToThread, ToOp
  <2>6. x \in Messages /\ x.kind = "notice" /\ Proper(x, op, closing)
    BY <2>1, <2>2, NoticeProper
  <2>7. PICK w : w = <<m, x>>
    OBVIOUS
  <2>8. /\ w \in Seq(Messages) /\ w[1] = m
        /\ \A i \in 1..Len(w) : Proper(w[i], op, closing)
        /\ \A i \in 1..Len(w) : w[i].kind = "start" => i = 1
    BY <2>4, <2>5, <2>6, <2>7, TwoMessages
  <2>9. \A i \in 1..Len(w) : w[i].kind = "start" =>
           \E q \in requests : q \notin requests' /\ q.kind = "start" /\ q.id = w[i].id
    BY <1>2, <1>3, <2>1, <2>4, <2>8
  <2>10. \A i, j \in 1..Len(w) : w[i].kind = "start" /\ w[j].kind = "start" => i = j
    BY <2>8
  <2>11. /\ turn' \in [Turns -> {"none", "running", "asking", "over"}]
         /\ \A v \in Turns : turn'[v] # "none" => op[v].thread \in Threads
    BY <1>1, <2>1, <2>3
  <2> QED BY <1>2, <2>3, <2>7, <2>8, <2>9, <2>10, <2>11, AddedFine
<1>4. CASE r.kind # "start"
  <2>1. PICK x : x = Message(r.kind, r.id, NULL)
    OBVIOUS
  <2>2. x \in Messages /\ x.kind # "start" /\ Proper(x, op, closing)
    BY <1>4, <2>1, ReplyProper
  <2>3. CASE r.turn # NULL /\ turn[r.turn] \in {"running", "asking"}
    <3>1. PICK u \in Turns : u = r.turn /\ op[u].thread \in Threads
      BY <1>1, <2>3
    <3>2. PICK m : m = Message("notice", r.turn, "interrupted")
      OBVIOUS
    <3>3. /\ turn' = [turn EXCEPT ![u] = "over"] /\ wire' = wire \o <<m, x>>
      BY <1>4, <2>1, <2>3, <3>1, <3>2 DEF Serve
    <3>4. m \in Messages /\ m.kind = "notice" /\ Proper(m, op, closing)
      BY <3>1, <3>2, NoticeProper
    <3>5. PICK w : w = <<m, x>>
      OBVIOUS
    <3>6. /\ w \in Seq(Messages) /\ w[1] = m
          /\ \A i \in 1..Len(w) : Proper(w[i], op, closing)
          /\ \A i \in 1..Len(w) : w[i].kind = "start" => i = 1
      BY <2>2, <3>4, <3>5, TwoMessages
    <3>7. \A i \in 1..Len(w) : w[i].kind # "start"
      BY <3>4, <3>6
    <3>8. /\ turn' \in [Turns -> {"none", "running", "asking", "over"}]
          /\ \A v \in Turns : turn'[v] # "none" => op[v].thread \in Threads
      BY <1>1, <3>1, <3>3
    <3>9. requests' \subseteq requests
      BY <1>2
    <3> QED BY <1>2, <3>3, <3>5, <3>6, <3>7, <3>8, <3>9, AddedFine
  <2>4. CASE ~(r.turn # NULL /\ turn[r.turn] \in {"running", "asking"})
    <3>1. turn' = turn /\ wire' = Append(wire, x)
      BY <1>4, <2>1, <2>4 DEF Serve
    <3>2. wire \in Seq(Messages)
      BY DEF SInv, Flight, WireInv, WireOK
    <3>3. wire' = wire \o <<x>>
      BY <2>2, <3>1, <3>2
    <3>4. PICK w : w = <<x>>
      OBVIOUS
    <3>5. /\ w \in Seq(Messages) /\ \A i \in 1..Len(w) : Proper(w[i], op, closing)
          /\ \A i \in 1..Len(w) : w[i] = x
      BY <2>2, <3>4, OneMessage
    <3>6. \A i \in 1..Len(w) : w[i].kind # "start"
      BY <2>2, <3>5
    <3>7. requests' \subseteq requests
      BY <1>2
    <3> QED BY <1>1, <1>2, <3>1, <3>3, <3>4, <3>5, <3>6, <3>7, AddedFine
  <2> QED BY <2>3, <2>4
<1> QED BY <1>3, <1>4

LEMMA RefuseFine ==
    ASSUME SInv, NEW r \in requests, Refuse(r)
    PROVE  Fine
<1>1. /\ Target(r, op, closing) /\ r.kind = "start" /\ turn \in [Turns -> {"none", "running", "asking", "over"}]
      /\ \A u \in Turns : turn[u] # "none" => op[u].thread \in Threads
      /\ wire \in Seq(Messages)
  BY DEF SInv, Shape, Flight, RequestInv, Refuse, WireInv, WireOK
<1>2. PICK x : x = Message("start", r.id, "refused")
  OBVIOUS
<1>3. r.id \in Nat /\ r.id \in Ops /\ op[r.id].sent = "requested" /\ op[r.id].thread \in Threads
  BY <1>1, Numbers DEF Target
<1>4. x \in Messages /\ x.kind = "start" /\ x.id = r.id /\ x.status = "refused"
  BY <1>2, <1>3, MessageFacts
<1>5. Proper(x, op, closing)
  BY <1>3, <1>4 DEF Proper, Target, ToThread, ToOp
<1>6. /\ UNCHANGED <<op, active, closing, pending, ignored, turn, link>> /\ link = "up"
      /\ requests' = requests \ {r} /\ wire' = wire \o <<x>>
  BY <1>1, <1>2, <1>4 DEF Refuse, Room, tableVars, opVars, codexVars
<1>7. PICK w : w = <<x>>
  OBVIOUS
<1>8. /\ w \in Seq(Messages) /\ \A i \in 1..Len(w) : Proper(w[i], op, closing)
      /\ \A i \in 1..Len(w) : w[i] = x
      /\ \A i, j \in 1..Len(w) : i = j
  BY <1>4, <1>5, <1>7, OneMessage
<1>9. \A i \in 1..Len(w) : w[i].kind = "start" =>
         \E q \in requests : q \notin requests' /\ q.kind = "start" /\ q.id = w[i].id
  BY <1>1, <1>4, <1>6, <1>8
<1>10. requests' \subseteq requests
  BY <1>6
<1> QED BY <1>1, <1>6, <1>7, <1>8, <1>9, <1>10, AddedFine

LEMMA CodexFine ==
    ASSUME SInv, NEW u \in Turns, AskOwner(u) \/ EndTurn(u, "completed") \/ EndTurn(u, "interrupted")
    PROVE  Fine
<1>1. /\ turn \in [Turns -> {"none", "running", "asking", "over"}] /\ wire \in Seq(Messages)
      /\ turn[u] = "running" /\ op[u].thread \in Threads
      /\ \A v \in Turns : turn[v] # "none" => op[v].thread \in Threads
  BY DEF SInv, Shape, Flight, AskOwner, EndTurn, WireInv, WireOK
<1>2. PICK x \in Messages : /\ x.kind # "start" /\ Proper(x, op, closing) /\ wire' = Append(wire, x)
                            /\ turn' \in {[turn EXCEPT ![u] = "over"], [turn EXCEPT ![u] = "asking"]}
  <2>1. CASE AskOwner(u)
    <3>1. PICK x : x = Message("ask", u, NULL)
      OBVIOUS
    <3>2. x \in Messages /\ x.kind = "ask" /\ x.id = u
      <4>1. PICK kind \in ToThread \union ToOp \union {"start", "notice", "ask"} : kind = "ask"
        OBVIOUS
      <4>2. u \in Nat
        BY Numbers
      <4> QED BY <3>1, <4>1, <4>2, MessageFacts
    <3>3. Proper(x, op, closing)
      BY <1>1, <3>2 DEF Proper, Target, ToThread, ToOp
    <3> QED BY <2>1, <3>1, <3>2, <3>3 DEF AskOwner
  <2>2. CASE ~AskOwner(u)
    <3>1. PICK status \in {"completed", "interrupted"} : EndTurn(u, status)
      BY <2>2
    <3> QED BY <1>1, <3>1, NoticeProper DEF EndTurn
  <2> QED BY <2>1, <2>2
<1>3. /\ UNCHANGED <<op, active, closing, pending, ignored, requests, link>> /\ link = "up"
  BY DEF AskOwner, EndTurn, Room, tableVars, opVars
<1>4. PICK w : w = <<x>>
  OBVIOUS
<1>5. /\ w \in Seq(Messages) /\ \A i \in 1..Len(w) : Proper(w[i], op, closing)
      /\ \A i \in 1..Len(w) : w[i] = x
  BY <1>2, <1>4, OneMessage
<1>6. \A i \in 1..Len(w) : w[i].kind # "start"
  BY <1>2, <1>5
<1>7. /\ turn' \in [Turns -> {"none", "running", "asking", "over"}]
      /\ \A v \in Turns : turn'[v] # "none" => op[v].thread \in Threads
  BY <1>1, <1>2
<1>8. wire' = wire \o w
  BY <1>1, <1>2, <1>4
<1> QED BY <1>3, <1>5, <1>6, <1>7, <1>8, AddedFine

LEMMA CutFine ==
    ASSUME SInv, Disconnects, Shape', Books', Punctual, UNCHANGED turn,
           \A o \in Ops : op'[o].thread = op[o].thread
    PROVE  Fine
<1>1. link' = "down" /\ wire' = <<>> /\ requests' = {}
  BY DEF Disconnects
<1>2. RequestInv' /\ WireInv' /\ StartsOnce'
  BY <1>1 DEF RequestInv, WireInv, WireOK, StartsOnce, Once
<1>3. \A u \in Turns : turn'[u] # "none" => op'[u].thread \in Threads
  BY Numbers DEF SInv, Flight
<1> QED BY <1>1, <1>2, <1>3 DEF Fine, SInv, Flight

LEMMA BreakFine ==
    ASSUME SInv, BreakConnection
    PROVE  Fine
<1>1. Shape /\ Books /\ Disconnects /\ UNCHANGED <<op, active, closing, pending, ignored, turn>>
  BY DEF BreakConnection, SInv, tableVars, opVars, codexVars
<1>2. Shape' /\ Books'
  BY <1>1 DEF Shape, Books, Silenced, Closed, Done
<1>3. Punctual
  BY <1>1, Numbers DEF Punctual, Open, Done
<1> QED BY <1>1, <1>2, <1>3, CutFine

LEMMA MarkFine ==
    ASSUME SInv, MarkAppServerClosed
    PROVE  Fine
<1>1. /\ Shape /\ Books /\ Disconnects /\ UNCHANGED <<closing, ignored, turn>>
      /\ op \in [Ops -> OpType] /\ active \in [Threads -> Ops \union {NULL}]
      /\ pending \in [Threads -> Turns \union {NULL}]
  BY DEF MarkAppServerClosed, SInv, Shape, tableVars, codexVars
<1>2. PICK set \in SUBSET Threads : set = Left
  BY DEF Left
<1>3. /\ op' = [o \in Ops |-> IF \E t \in set : active[t] = o
                             THEN [op[o] EXCEPT !.result = "app_server_closed"] ELSE op[o]]
      /\ active' = [t \in Threads |-> IF t \in set THEN NULL ELSE active[t]]
      /\ pending' = [t \in Threads |-> IF t \in set THEN NULL ELSE pending[t]]
  BY <1>2 DEF MarkAppServerClosed
<1>4. \A o \in Ops :
         /\ op'[o] \in OpType /\ op'[o].thread = op[o].thread /\ op'[o].turn = op[o].turn
         /\ op'[o].sent = op[o].sent /\ op'[o].timer = op[o].timer
         /\ op'[o].result \in {op[o].result, "app_server_closed"}
         /\ (\A t \in set : active[t] # o) => op'[o] = op[o]
  BY <1>1, <1>3 DEF OpType, Results
<1>5. op' \in [Ops -> OpType]
  <2>1. op' = [o \in Ops |-> op'[o]]
    BY <1>3
  <2> QED BY <1>4, <2>1
<1>6. Shape'
  BY <1>1, <1>3, <1>5 DEF Shape
<1>7. Books'
  <2>1. ASSUME NEW t \in Threads, active'[t] # NULL
        PROVE  /\ active'[t] = active[t] /\ active[t] \in Ops /\ active[t] # NULL
               /\ op'[active[t]] = op[active[t]]
    <3>1. t \notin set /\ active'[t] = active[t] /\ active[t] \in Ops /\ active[t] # NULL
      BY <1>1, <1>3, <2>1
    <3>2. ASSUME NEW v \in set, active[v] = active[t] PROVE FALSE
      BY <1>1, <3>1, <3>2 DEF Books
    <3> QED BY <1>4, <3>1, <3>2
  <2> QED BY <1>1, <1>4, <2>1 DEF Books, Silenced, Closed, Done
<1>8. Punctual
  <2>1. ASSUME NEW p \in Ops, op[p].result = NULL, op'[p].result \in {"completed", "interrupted"} PROVE FALSE
    BY <1>4, <2>1, Numbers
  <2> QED BY <2>1 DEF Punctual, Open, Done
<1> QED BY <1>1, <1>4, <1>6, <1>7, <1>8, CutFine

LEMMA InitSInv == ASSUME Init PROVE SInv
<1>1. Unused \in OpType /\ Unused.thread = NULL /\ Unused.timer = "off" /\ Unused.result = NULL
  BY DEF Unused, OpType
<1>2. op = [o \in Ops |-> Unused] /\ \A o \in Ops : op[o] = Unused
  BY DEF Init
<1>3. Shape
  BY <1>1, <1>2 DEF Init, Shape, Closings
<1>4. Books
  BY <1>1, <1>2 DEF Init, Books, Closed
<1>5. Flight
  BY DEF Init, Flight, RequestInv, WireInv, WireOK, StartsOnce, Once
<1> QED BY <1>3, <1>4, <1>5 DEF SInv

LEMMA StepFine == ASSUME SInv, [Next]_vars PROVE Fine
<1>1. CASE UNCHANGED vars
  BY <1>1, QuietFine DEF vars, tableVars, opVars, codexVars, linkVars
<1>2. CASE Author
  BY <1>2, CloseFine, CreateFine, SendFine, AnswerFine DEF Author
<1>3. CASE Receive
  BY <1>3, ReceiveFine
<1>4. CASE Rejections
  <2>1. ASSUME NEW t \in Threads, NEW kind \in {"create", "endTurn", "endInput", "unsubscribe"}, Rejected(kind, t)
        PROVE  Fine
    BY <2>1, RejectedFine DEF ToThread
  <2>2. ASSUME NEW o \in Ops, Rejected("timeout", o) PROVE Fine
    <3>1. PICK kind \in {"timeout"} : kind = "timeout"
      OBVIOUS
    <3> QED BY <2>2, <3>1, RejectedFine
  <2> QED BY <1>4, <2>1, <2>2 DEF Rejections
<1>5. CASE \E o \in Ops : Continue(o) \/ Fails(o)
  <2>1. ASSUME NEW o \in Ops, Continue(o) PROVE Fine
    <3>1. UNCHANGED <<wire, link>>
      BY <2>1 DEF Continue
    <3> QED BY <2>1, <3>1, Continues, Moved
  <2> QED BY <1>5, <2>1, FailsFine
<1>6. CASE Timers
  BY <1>6, ExpiresFine DEF Timers
<1>7. CASE Codex
  BY <1>7, ServeFine, RefuseFine, CodexFine DEF Codex
<1>8. CASE Owner \/ BeginShutdown
  <2>1. UNCHANGED <<op, active, closing, ignored, pending, turn, requests, wire, link>>
    BY <1>8 DEF Owner, Pause, Unpause, BeginShutdown, tableVars, opVars, codexVars, linkVars
  <2> QED BY <2>1, QuietFine
<1>9. CASE MarkAppServerClosed
  BY <1>9, MarkFine
<1>10. CASE \E t \in Threads : ShutdownCloses(t)
  BY <1>10, CloseFine
<1>11. CASE BreakConnection
  BY <1>11, BreakFine
<1> QED BY <1>1, <1>2, <1>3, <1>4, <1>5, <1>6, <1>7, <1>8, <1>9, <1>10, <1>11 DEF Next, Manager, Shutdown

LEMMA AlwaysSInv == Spec => []SInv
<1>1. SInv /\ [Next]_vars => SInv'
  BY StepFine DEF Fine
<1> QED BY <1>1, InitSInv, PTL DEF Spec

(* finishOperation's callers: once closeSidecar has begun on the sidecar of *)
(* an operation, or its timeout has fired, a turn/completed that comes late *)
(* does not make the operation a completed or interrupted one.              *)
THEOREM LateEndsDoNotCount == Spec => NoLateSuccess
<1>1. SInv /\ [Next]_vars =>
        [\A o \in Ops : Open(o) /\ op'[o].result \in {"completed", "interrupted"} =>
            ~Closed(op[o].thread) /\ op[o].timer # "interrupting"]_vars
  BY StepFine DEF Fine, Punctual
<1> QED BY <1>1, AlwaysSInv, PTL DEF Spec, NoLateSuccess

(************************** who attends to a turn ***************************)
(* An operation keeps its sidecar, its kind and its turn, and Codex starts  *)
(* and ends no turn.                                                        *)
Steady ==
    /\ \A o \in Ops : /\ op[o].thread # NULL => op'[o].thread = op[o].thread /\ op'[o].kind = op[o].kind
                      /\ op[o].turn # NULL => op'[o].turn = op[o].turn
    /\ \A u \in Turns : turn'[u] = turn[u] \/ (AtWork(u) /\ AtWork(u)')
SameRole(o) ==
    /\ op'[o].thread = op[o].thread /\ op'[o].kind = op[o].kind /\ op'[o].turn = op[o].turn
    /\ op'[o].sent = op[o].sent /\ op'[o].result = op[o].result
Attended == Roles' /\ Order' /\ Minded'

LEMMA Types == ASSUME SInv
               PROVE  /\ \A o \in Ops : /\ op[o].thread \in Threads \union {NULL} /\ op[o].turn \in Ops \union {NULL}
                                        /\ op[o] \in OpType
                      /\ \A t \in Threads : active[t] \in Ops \union {NULL} /\ pending[t] \in Ops \union {NULL}
                      /\ ignored \subseteq Ops /\ op \in [Ops -> OpType] /\ closing \in [Threads -> Closings]
                      /\ active \in [Threads -> Ops \union {NULL}]
                      /\ pending \in [Threads -> Ops \union {NULL}]
                      /\ NULL \notin Ops /\ NULL \notin Threads /\ Turns = Ops
                      /\ turn \in [Turns -> {"none", "running", "asking", "over"}]
<1>1. Turns = Ops /\ NULL \notin Ops /\ NULL \notin Threads
  BY Numbers
<1>2. /\ op \in [Ops -> OpType] /\ closing \in [Threads -> Closings]
      /\ active \in [Threads -> Ops \union {NULL}] /\ pending \in [Threads -> Ops \union {NULL}]
      /\ ignored \subseteq Ops /\ turn \in [Turns -> {"none", "running", "asking", "over"}]
  BY <1>1 DEF SInv, Shape
<1>3. ASSUME NEW o \in Ops
      PROVE  op[o].thread \in Threads \union {NULL} /\ op[o].turn \in Ops \union {NULL} /\ op[o] \in OpType
  BY <1>1, <1>2 DEF OpType
<1> QED BY <1>1, <1>2, <1>3

LEMMA SteadyTurns ==
    ASSUME Steady, NEW u \in Turns
    PROVE  /\ Started(u)' <=> Started(u)
           /\ AtWork(u)' <=> AtWork(u)
           /\ turn'[u] = "over" <=> turn[u] = "over"
           /\ \A t : t # NULL /\ IsTurn(u, t) => IsTurn(u, t)'
BY DEF Steady, Started, AtWork, IsTurn, Turns

(* What Codex runs, is asked for or speaks of is the turn of a send.        *)
LEMMA SendTurns ==
    ASSUME All, NEW u \in Turns, Alive(u) \/ Told(u)
    PROVE  op[u].kind = "send" /\ ThreadOf(u) \in Threads /\ (Told(u) => Started(u))
<1>1. ASSUME Told(u) PROVE IsTurn(u, ThreadOf(u))
  BY <1>1 DEF Told, All, Order, WireOrder, Of
<1>2. ASSUME AtWork(u) PROVE op[u].kind = "send"
  BY <1>2, Numbers DEF All, Roles, AtWork, Started
<1>3. ASSUME Requested(u) PROVE op[u].kind = "send"
  BY <1>3 DEF Requested, All, Order, RequestOrder
<1>4. op[u].kind = "send"
  BY <1>1, <1>2, <1>3 DEF Alive, IsTurn
<1>5. op[u].thread # NULL
  BY <1>4, Numbers DEF All, Roles, OpRoles
<1> QED BY <1>1, <1>4, <1>5, Types DEF All, ThreadOf, IsTurn

LEMMA RolesStay ==
    ASSUME All, SInv', Steady,
           \A p \in Ops : SameRole(p) \/ OpRoles(p)',
           \A t \in Threads : \/ active'[t] = active[t] \/ active[t] = NULL
                              \/ ~SameRole(active[t]),
           \A t \in Threads : ThreadRoles(t)', \A u \in ignored' : Started(u)
    PROVE  Roles'
<1>1. ASSUME NEW p \in Ops PROVE OpRoles(p)'
  <2>1. CASE SameRole(p)
    <3>1. OpRoles(p)
      BY DEF All, Roles
    <3>2. Open(p)' => active'[op[p].thread] = p
      BY <2>1, <3>1, Types DEF All, OpRoles, Open, Done, SameRole
    <3>3. op[p].turn # NULL => IsTurn(op[p].turn, op[p].thread)'
      <4>1. ASSUME op[p].turn # NULL PROVE IsTurn(op[p].turn, op[p].thread)'
        <5>1. PICK u \in Turns : u = op[p].turn
          BY <4>1, Types DEF All
        <5>2. IsTurn(u, op[p].thread) /\ op[u].kind = "send"
          BY <3>1, <4>1, <5>1 DEF OpRoles, IsTurn
        <5>3. op[p].thread # NULL
          BY <5>2, Types DEF All, Roles, OpRoles, IsTurn
        <5>4. IsTurn(u, op[p].thread)'
          <6>1. PICK t : t = op[p].thread
            OBVIOUS
          <6>2. IsTurn(u, t)'
            BY <5>2, <5>3, <6>1, SteadyTurns
          <6> QED BY <2>1, <6>1, <6>2 DEF SameRole, IsTurn, Started
        <5> QED BY <2>1, <5>1, <5>4 DEF SameRole, IsTurn, Started
      <4> QED BY <4>1
    <3>4. Started(p)' <=> Started(p)
      BY SteadyTurns, Numbers
    <3> QED BY <2>1, <3>1, <3>2, <3>3, <3>4 DEF OpRoles, Open, Done, SameRole
  <2> QED BY <2>1
<1>2. ASSUME NEW p \in Ops, Started(p)' PROVE op'[p].kind = "send"
  <2>1. Started(p) /\ op[p].kind = "send"
    BY <1>2, SteadyTurns, Numbers DEF All, Roles
  <2> QED BY <2>1 DEF All, Roles, OpRoles, Steady
<1>3. \A u \in ignored' : Started(u)'
  BY SteadyTurns, Types DEF SInv, Shape
<1> QED BY <1>1, <1>2, <1>3 DEF Roles

LEMMA ThreadStays ==
    ASSUME All, Steady, NEW t \in Threads, pending'[t] \in {pending[t], NULL},
           active'[t] \in {active[t], NULL} \/ pending'[t] = NULL, ignored \subseteq ignored',
           Closed(t)' => Closed(t) \/ pending'[t] = NULL \/ pending'[t] \in ignored'
    PROVE  ThreadRoles(t)'
<1> SUFFICES ASSUME pending'[t] # NULL
             PROVE  active'[t] = NULL /\ IsTurn(pending[t], t)' /\ (Closed(t)' => pending'[t] \in ignored')
  BY DEF ThreadRoles
<1>1. pending'[t] = pending[t] /\ active[t] = NULL /\ IsTurn(pending[t], t) /\ (Closed(t) => pending[t] \in ignored)
  BY DEF All, Roles, ThreadRoles
<1>2. PICK u \in Turns : u = pending[t]
  BY <1>1, Types DEF All
<1>3. IsTurn(u, t)'
  BY <1>1, <1>2, SteadyTurns, Types DEF All
<1>4. IsTurn(pending[t], t)'
  BY <1>1, <1>2, <1>3 DEF IsTurn, Started
<1> QED BY <1>1, <1>4

LEMMA OrderStays ==
    ASSUME All, SInv', Steady, \A r \in requests' : r \in requests \/ RequestOrder(r)',
           wire' = wire \/ (wire # <<>> /\ wire' = Tail(wire))
    PROVE  Order'
<1>1. WireInv /\ RequestInv /\ Order /\ Len(wire) \in Nat
  BY WireFacts DEF All, SInv, Flight
<1>2. PICK d \in {0, 1} : /\ wire' \in Seq(Messages) /\ Len(wire') = Len(wire) - d
                         /\ \A i \in 1..Len(wire') : i + d \in 1..Len(wire) /\ wire'[i] = wire[i + d]
  BY <1>1, Shifts
<1>3. ASSUME NEW r \in requests PROVE RequestOrder(r)'
  <2>1. RequestOrder(r) /\ Target(r, op, closing)
    BY <1>1 DEF Order, RequestInv
  <2>2. ASSUME r.kind = "start" PROVE ~Started(r.id)' /\ op'[r.id].kind = "send"
    <3>1. r.id \in Turns /\ op[r.id].thread # NULL
      BY <2>1, <2>2, Numbers DEF Target
    <3> QED BY <2>1, <2>2, <3>1, SteadyTurns DEF RequestOrder, Steady, Turns
  <2>3. ASSUME r.kind = "timeout" PROVE op'[r.id].turn # NULL /\ r.turn = op'[r.id].turn
    <3>1. r.id \in Ops
      BY <2>1, <2>3 DEF Target, ToOp
    <3> QED BY <2>1, <2>3, <3>1 DEF RequestOrder, Steady
  <2> QED BY <2>2, <2>3 DEF RequestOrder
<1>4. ASSUME NEW i \in 1..Len(wire') PROVE WireOrder(i)'
  <2>1. PICK m : m = wire'[i] /\ m = wire[i + d] /\ i + d \in 1..Len(wire)
    BY <1>2
  <2>2. WireOrder(i + d) /\ Proper(m, op, closing)
    BY <1>1, <2>1 DEF Order, WireInv, WireOK
  <2>3. ASSUME NEW u \in Turns, Last(i + d, u) PROVE Last(i, u)'
    <3>1. turn'[u] = "over"
      BY <2>3, SteadyTurns DEF Last
    <3>2. ASSUME NEW j \in 1..Len(wire'), i < j PROVE ~Of(wire'[j], u)
      <4>1. j + d \in 1..Len(wire) /\ i + d < j + d /\ wire'[j] = wire[j + d]
        BY <1>1, <1>2, <3>2
      <4> QED BY <2>3, <4>1 DEF Last
    <3> QED BY <3>1, <3>2 DEF Last, Of
  <2>4. ASSUME m.kind = "start"
        PROVE  op'[m.id].kind = "send" /\ (m.status = "accepted" <=> Started(m.id)')
    <3>1. m.id \in Turns /\ op[m.id].thread # NULL
      BY <2>2, <2>4, Numbers DEF Proper, Target
    <3> QED BY <2>1, <2>2, <2>4, <3>1, SteadyTurns DEF WireOrder, Steady, Turns
  <2>5. ASSUME m.kind \in {"notice", "ask"} PROVE IsTurn(m.id, ThreadOf(m.id))'
    <3>1. m.id \in Turns /\ op[m.id].thread # NULL /\ IsTurn(m.id, op[m.id].thread)
      BY <2>1, <2>2, <2>5, Numbers DEF Proper, WireOrder, ThreadOf
    <3>2. op'[m.id].thread = op[m.id].thread
      BY <3>1 DEF Steady, Turns
    <3>3. PICK t, u : t = op[m.id].thread /\ u = m.id /\ u \in Turns
      BY <3>1
    <3>4. IsTurn(u, t)'
      BY <3>1, <3>3, SteadyTurns
    <3> QED BY <3>2, <3>3, <3>4 DEF ThreadOf, IsTurn, Started
  <2>6. ASSUME Final(m) PROVE Last(i, m.id)'
    <3>1. PICK u \in Turns : u = m.id
      BY <2>2, <2>6 DEF Proper, Final
    <3>2. Last(i + d, u)
      BY <2>1, <2>2, <2>6, <3>1 DEF WireOrder
    <3> QED BY <2>3, <3>1, <3>2
  <2>7. ASSUME m.kind = "timeout" PROVE op'[m.id].turn # NULL /\ Last(i, op[m.id].turn)'
    <3>1. m.id \in Ops /\ op[m.id].turn # NULL /\ Last(i + d, op[m.id].turn)
      BY <2>1, <2>2, <2>7 DEF Proper, Target, ToOp, WireOrder
    <3>2. PICK u \in Turns : u = op[m.id].turn
      BY <3>1, Types DEF All
    <3>3. op'[m.id].turn = u
      BY <3>1, <3>2 DEF Steady
    <3>4. Last(i, u)'
      BY <2>3, <3>1, <3>2
    <3> QED BY <3>1, <3>2, <3>3, <3>4 DEF Last, Of
  <2>8. m = wire'[i]
    BY <2>1
  <2> QED BY <2>4, <2>5, <2>6, <2>7, <2>8 DEF WireOrder, Final
<1> QED BY <1>3, <1>4 DEF Order

(* Who attends to a turn goes on doing so unless nothing of it is left.     *)
LEMMA MindedStays ==
    ASSUME All, SInv', Steady, link' = link, requests \subseteq requests',
           \A u \in Turns : (Requested(u)' => Requested(u)) /\ (Told(u)' => Told(u)),
           \A t \in Threads : Closed(t) => Closed(t)',
           link = "up" => \A u \in Turns :
               (/\ op[u].kind = "send" /\ ThreadOf(u) \in Threads
                /\ ~Closed(ThreadOf(u)) /\ Current(u) /\ (Alive(u) \/ Told(u)'))
                  => Closed(ThreadOf(u))' \/ Current(u)',
           link = "up" => \A u \in Turns :
               (/\ op[u].kind = "send" /\ ThreadOf(u) \in Threads /\ Alive(u) /\ Closed(ThreadOf(u))'
                /\ IF Closed(ThreadOf(u)) THEN Dropped(u) ELSE Current(u))
                  => Dropped(u)',
           link = "up" => \A u \in ignored' : u \in ignored \/ Interrupted(u)'
    PROVE  Minded'
<1> SUFFICES ASSUME link = "up" PROVE Minded'
  BY DEF Minded
<1>1. Minded
  BY DEF All
<1>2. ASSUME NEW u \in Turns, Alive(u)' \/ Told(u)'
      PROVE  /\ Alive(u) \/ Told(u)
             /\ Alive(u)' => Alive(u)
             /\ op[u].kind = "send" /\ ThreadOf(u) \in Threads /\ ThreadOf(u)' = ThreadOf(u)
  <2>1. (Alive(u)' => Alive(u)) /\ (Alive(u) \/ Told(u))
    BY <1>2, SteadyTurns DEF Alive
  <2>2. op[u].kind = "send" /\ ThreadOf(u) \in Threads
    BY <2>1, SendTurns
  <2> QED BY <2>1, <2>2, Numbers DEF Steady, ThreadOf, Turns
<1>3. ASSUME NEW u \in Turns, Alive(u)' \/ Told(u)'
      PROVE  Closed(ThreadOf(u))' \/ Current(u)'
  <2>1. Closed(ThreadOf(u)) \/ Current(u)
    BY <1>1, <1>2, <1>3 DEF Minded
  <2>2. CASE Closed(ThreadOf(u))
    BY <1>2, <1>3, <2>2 DEF Closed
  <2>3. CASE ~Closed(ThreadOf(u)) /\ Current(u)
    BY <1>2, <1>3, <2>3
  <2> QED BY <2>1, <2>2, <2>3
<1>4. ASSUME NEW u \in Turns, Alive(u)', Closed(ThreadOf(u))' PROVE Dropped(u)'
  BY <1>1, <1>2, <1>4 DEF Minded
<1>5. ASSUME NEW u \in Turns, NEW v \in Turns, Alive(u)', Alive(v)', ThreadOf(u)' = ThreadOf(v)'
      PROVE  u = v
  BY <1>1, <1>2, <1>5 DEF Minded
<1>6. ASSUME NEW u \in ignored', AtWork(u)' PROVE Interrupted(u)'
  <2>1. u \in Turns /\ AtWork(u)
    BY <1>6, SteadyTurns DEF SInv, Shape, Turns
  <2>2. CASE u \in ignored
    <3>1. Interrupted(u)
      BY <1>1, <2>1, <2>2 DEF Minded
    <3> QED BY <3>1 DEF Interrupted
  <2> QED BY <2>2, <1>6
<1> QED BY <1>3, <1>4, <1>5, <1>6 DEF Minded

(* The manager's steps: at most one interrupt goes out, at most one message *)
(* comes in.                                                                *)
Onward ==
    /\ link' = link /\ requests \subseteq requests'
    /\ \A u \in Turns : (Requested(u)' => Requested(u)) /\ (Told(u)' => Told(u))
    /\ \A r \in requests' : r \in requests \/ RequestOrder(r)'
    /\ wire' = wire \/ (wire # <<>> /\ wire' = Tail(wire))
Overseen == \A u \in ignored' : u \in ignored \/ (Started(u) /\ (link = "up" => Interrupted(u)'))

LEMMA ToldTail ==
    ASSUME WireInv, wire' = wire \/ (wire # <<>> /\ wire' = Tail(wire)), NEW u
    PROVE  /\ Told(u)' => Told(u)
           /\ wire # <<>> /\ wire' = Tail(wire) /\ Last(1, u) => ~Told(u)'
<1>1. PICK d \in {0, 1} : /\ wire' \in Seq(Messages) /\ Len(wire') = Len(wire) - d
                         /\ \A i \in 1..Len(wire') : i + d \in 1..Len(wire) /\ wire'[i] = wire[i + d]
  BY Shifts
<1>2. Told(u)' => Told(u)
  BY <1>1 DEF Told, Of
<1>3. ASSUME wire # <<>>, wire' = Tail(wire), Last(1, u) PROVE ~Told(u)'
  <2>1. PICK n \in Nat : n = Len(wire)
    BY WireFacts
  <2>2. Len(wire') = n - 1 /\ n > 0 /\ \A i \in 1..Len(wire') : wire'[i] = wire[i + 1]
    BY <1>3, <2>1, WireFacts
  <2>3. \A i \in 1..Len(wire') : i + 1 \in 1..n /\ 1 < i + 1
    BY <2>2
  <2> QED BY <1>3, <2>1, <2>2, <2>3 DEF Told, Of, Last
<1> QED BY <1>2, <1>3

LEMMA Onwards ==
    ASSUME SInv, link' = link, wire' = wire \/ (wire # <<>> /\ wire' = Tail(wire)),
           NEW r, requests' = requests \/ Sends(r), r.kind # "start",
           r.kind = "timeout" => op'[r.id].turn # NULL /\ r.turn = op'[r.id].turn
    PROVE  /\ Onward
           /\ Sends(r) /\ link = "up" => \A u : u = r.turn => Interrupted(u)'
<1>1. requests' = requests \/ requests' = requests \union {r}
  BY DEF Sends
<1>2. RequestOrder(r)'
  BY DEF RequestOrder
<1>3. \A u \in Turns : (Requested(u)' => Requested(u)) /\ (Told(u)' => Told(u))
  BY <1>1, ToldTail DEF Requested, SInv, Flight
<1>4. Sends(r) /\ link = "up" => \A u : u = r.turn => Interrupted(u)'
  BY DEF Sends, Interrupted
<1> QED BY <1>1, <1>2, <1>3, <1>4 DEF Onward

LEMMA Silent ==
    ASSUME SInv, link' = link, wire' = wire \/ (wire # <<>> /\ wire' = Tail(wire)), requests' = requests
    PROVE  Onward
<1>1. \A u \in Turns : (Requested(u)' => Requested(u)) /\ (Told(u)' => Told(u))
  BY ToldTail DEF Requested, SInv, Flight
<1> QED BY <1>1 DEF Onward

(* Nothing changes in who is busy with what.                                *)
LEMMA MildAttends ==
    ASSUME All, SInv', Onward, Overseen, ignored \subseteq ignored', \A p \in Ops : SameRole(p), active' = active,
           \A u \in Turns : turn'[u] = turn[u] \/ (AtWork(u) /\ AtWork(u)'),
           \A t \in Threads : pending'[t] = pending[t] \/ (pending'[t] = NULL /\ Closed(t)),
           \A t \in Threads : Closed(t)' <=> Closed(t)
    PROVE  Attended
<1>1. Steady
  BY DEF Steady, SameRole
<1>2. Roles'
  <2>1. \A t \in Threads : ThreadRoles(t)'
    BY <1>1, ThreadStays
  <2> QED BY <1>1, <2>1, RolesStay DEF Overseen, All, Roles
<1>3. Order'
  BY <1>1, OrderStays DEF Onward
<1>4. ASSUME NEW u \in Turns, op[u].kind = "send", ThreadOf(u) \in Threads
      PROVE  /\ ThreadOf(u)' = ThreadOf(u)
             /\ Closed(ThreadOf(u))' <=> Closed(ThreadOf(u))
             /\ Current(u) => Closed(ThreadOf(u)) \/ Current(u)'
             /\ Dropped(u) => Dropped(u)'
  <2>1. PICK t \in Threads : t = op[u].thread /\ op'[u].thread = t
    BY <1>4, Numbers DEF SameRole, ThreadOf
  <2>2. ASSUME active[t] # NULL PROVE active[t] \in Ops /\ op'[active[t]].turn = op[active[t]].turn
    BY <2>2, Types DEF All, SameRole
  <2>3. op'[u].sent = op[u].sent
    BY Numbers DEF SameRole
  <2>4. Current(u) => Closed(t) \/ Current(u)'
    BY <2>1, <2>2, Types DEF Current, ThreadOf, All
  <2>5. ThreadOf(u)' = t /\ ThreadOf(u) = t
    BY <2>1 DEF ThreadOf
  <2>6. Closed(ThreadOf(u))' <=> Closed(ThreadOf(u))
    BY <2>5 DEF Closed
  <2> QED BY <2>3, <2>4, <2>5, <2>6 DEF Dropped
<1>5. Minded'
  <2>1. \A u \in Turns : (/\ op[u].kind = "send" /\ ThreadOf(u) \in Threads
                          /\ ~Closed(ThreadOf(u)) /\ Current(u) /\ (Alive(u) \/ Told(u)'))
                             => Closed(ThreadOf(u))' \/ Current(u)'
    BY <1>4
  <2>2. \A u \in Turns :
           (/\ op[u].kind = "send" /\ ThreadOf(u) \in Threads /\ Alive(u) /\ Closed(ThreadOf(u))'
            /\ IF Closed(ThreadOf(u)) THEN Dropped(u) ELSE Current(u))
              => Dropped(u)'
    BY <1>4
  <2>3. link = "up" => \A u \in ignored' : u \in ignored \/ Interrupted(u)'
    BY DEF Overseen
  <2>4. \A t \in Threads : Closed(t) => Closed(t)'
    OBVIOUS
  <2> QED BY <1>1, <2>1, <2>2, <2>3, <2>4, MindedStays DEF Onward
<1> QED BY <1>2, <1>3, <1>5 DEF Attended

(* An operation gets its result; what it attended to is over, or its        *)
(* sidecar is being closed.                                                 *)
LEMMA FreedIs ==
    ASSUME SInv, NEW o \in Ops, active' = Freed(o)
    PROVE  \A t \in Threads : active'[t] = IF active[t] = o THEN NULL ELSE active[t]
<1>1. Books /\ active \in [Threads -> Ops \union {NULL}] /\ o # NULL
  BY Types DEF SInv
<1>2. ASSUME NEW t \in Threads, active[t] = o PROVE t = ThreadOf(o) /\ ~Done(o)
  BY <1>1, <1>2 DEF Books, ThreadOf
<1>3. CASE Done(o) \/ active[ThreadOf(o)] # o
  BY <1>2, <1>3 DEF Freed
<1>4. CASE ~(Done(o) \/ active[ThreadOf(o)] # o)
  BY <1>1, <1>2, <1>4 DEF Freed
<1> QED BY <1>3, <1>4

LEMMA FinishAttends ==
    ASSUME All, SInv', Onward, Overseen, NEW o \in Ops, ignored \subseteq ignored',
           \A p \in Ops : p # o => SameRole(p), op[o].thread # NULL,
           op'[o].thread = op[o].thread, op'[o].kind = op[o].kind, op'[o].turn = op[o].turn,
           op'[o].result # NULL, op'[o].sent \in {op[o].sent, "over"}, active' = Freed(o),
           UNCHANGED <<turn, pending>>,
           \A t \in Threads : Closed(t) => Closed(t)',
           \A t \in Threads : Closed(t)' => Closed(t) \/ pending[t] = NULL \/ pending[t] \in ignored',
           link = "up" => \A u \in Turns : \A t \in Threads :
               (/\ op[u].kind = "send" /\ ThreadOf(u) = t /\ active[t] = o /\ (u = o \/ op[o].turn = u)
                /\ (Alive(u) \/ Told(u)')) => Closed(t)',
           link = "up" => \A u \in Turns : \A t \in Threads :
               (/\ op[u].kind = "send" /\ ThreadOf(u) = t /\ Alive(u) /\ Closed(t)' /\ ~Closed(t) /\ Current(u))
                  => Dropped(u)',
           link = "up" => op'[o].sent = op[o].sent \/ ~Alive(o)
    PROVE  Attended
<1>1. Steady
  BY DEF Steady, SameRole
<1>2. \A t \in Threads : active'[t] = IF active[t] = o THEN NULL ELSE active[t]
  BY FreedIs DEF All
<1>3. OpRoles(o)'
  <2>1. OpRoles(o)
    BY DEF All, Roles
  <2>2. op[o].turn # NULL => IsTurn(op[o].turn, op[o].thread)'
    <3>1. ASSUME op[o].turn # NULL PROVE IsTurn(op[o].turn, op[o].thread)'
      <4>1. PICK u, t : u = op[o].turn /\ t = op[o].thread /\ u \in Turns
        BY <3>1, Types DEF All
      <4>2. IsTurn(u, t)
        BY <2>1, <3>1, <4>1 DEF OpRoles
      <4>3. IsTurn(u, t)'
        BY <1>1, <4>1, <4>2, SteadyTurns
      <4> QED BY <4>1, <4>3 DEF IsTurn, Started
    <3> QED BY <3>1
  <2>3. Started(o)' <=> Started(o)
    BY <1>1, SteadyTurns, Numbers
  <2> QED BY <2>1, <2>2, <2>3 DEF OpRoles, Open, Done
<1>4. Roles'
  <2>1. \A t \in Threads : ThreadRoles(t)'
    BY <1>1, <1>2, ThreadStays
  <2>2. \A t \in Threads : active'[t] = active[t] \/ active[t] = NULL \/ ~SameRole(active[t])
    <3>1. ASSUME NEW t \in Threads, active[t] = o PROVE ~SameRole(o)
      BY <3>1, Types DEF All, SInv, Books, Done, SameRole
    <3> QED BY <1>2, <3>1
  <2>3. \A u \in ignored' : Started(u)
    BY DEF Overseen, All, Roles
  <2> QED BY <1>1, <1>3, <2>1, <2>2, <2>3, RolesStay
<1>5. Order'
  BY <1>1, OrderStays DEF Onward
<1>6. ASSUME NEW u \in Turns, op[u].kind = "send", ThreadOf(u) \in Threads, link = "up"
      PROVE  /\ ThreadOf(u)' = ThreadOf(u)
             /\ Current(u) /\ (Alive(u) \/ Told(u)') => Closed(ThreadOf(u))' \/ Current(u)'
             /\ Alive(u) /\ Dropped(u) => Dropped(u)'
  <2>1. PICK t \in Threads : t = op[u].thread /\ op'[u].thread = t
    BY <1>1, <1>6, Numbers DEF Steady, ThreadOf
  <2>2. ASSUME active[t] # NULL PROVE active[t] \in Ops /\ op'[active[t]].turn = op[active[t]].turn
    BY <2>2, Types DEF All, SameRole
  <2>3. ASSUME Current(u), Alive(u) \/ Told(u)', ~Closed(t)' PROVE Current(u)'
    <3>1. CASE active[t] = o
      <4>1. u = o \/ op[o].turn = u
        <5>1. pending[t] = NULL
          BY <3>1, Types DEF All, Roles, ThreadRoles
        <5> QED BY <2>1, <2>3, <3>1, <5>1, Types DEF Current, ThreadOf, All
      <4> QED BY <1>6, <2>1, <2>3, <3>1, <4>1 DEF ThreadOf
    <3>2. CASE active[t] # o
      BY <1>2, <2>1, <2>2, <2>3, <3>2 DEF Current, ThreadOf
    <3> QED BY <3>1, <3>2
  <2>4. ThreadOf(u)' = t /\ ThreadOf(u) = t
    BY <2>1 DEF ThreadOf
  <2>5. Alive(u) /\ Dropped(u) => Dropped(u)'
    <3>1. Alive(u) => op'[u].sent = op[u].sent
      BY <1>6, Numbers DEF SameRole
    <3> QED BY <3>1 DEF Dropped
  <2> QED BY <2>3, <2>4, <2>5 DEF Closed
<1>7. Minded'
  <2>1. link = "up" => \A u \in Turns :
           (/\ op[u].kind = "send" /\ ThreadOf(u) \in Threads
            /\ ~Closed(ThreadOf(u)) /\ Current(u) /\ (Alive(u) \/ Told(u)'))
               => Closed(ThreadOf(u))' \/ Current(u)'
    BY <1>6
  <2>2. link = "up" => \A u \in Turns :
           (/\ op[u].kind = "send" /\ ThreadOf(u) \in Threads /\ Alive(u) /\ Closed(ThreadOf(u))'
            /\ IF Closed(ThreadOf(u)) THEN Dropped(u) ELSE Current(u))
              => Dropped(u)'
    BY <1>6 DEF Closed
  <2>3. link = "up" => \A u \in ignored' : u \in ignored \/ Interrupted(u)'
    BY DEF Overseen
  <2> QED BY <1>1, <2>1, <2>2, <2>3, MindedStays DEF Onward
<1> QED BY <1>4, <1>5, <1>7 DEF Attended

LEMMA QuietAttends ==
    ASSUME All, SInv', UNCHANGED <<op, active, closing, pending, ignored, turn, requests, link>>,
           wire' = wire \/ (wire # <<>> /\ wire' = Tail(wire))
    PROVE  Attended
<1>1. Onward
  BY Silent DEF All
<1>2. Overseen /\ (\A p \in Ops : SameRole(p)) /\ (\A t \in Threads : Closed(t)' <=> Closed(t))
  BY DEF Overseen, SameRole, Closed
<1> QED BY <1>1, <1>2, MildAttends

(* A sidecar whose operation stays as it is begins to be closed.            *)
LEMMA ShutAttends ==
    ASSUME All, SInv', Onward, Overseen, ignored \subseteq ignored',
           UNCHANGED <<op, active, pending, turn>>,
           \A t \in Threads : Closed(t) => Closed(t)',
           \A t \in Threads : Closed(t)' /\ ~Closed(t) =>
               /\ pending[t] # NULL => pending[t] \in ignored'
               /\ \A u \in Turns : op[u].kind = "send" /\ ThreadOf(u) = t /\ Alive(u) /\ Current(u) => Dropped(u)'
    PROVE  Attended
<1>1. Steady /\ \A p \in Ops : SameRole(p)
  BY DEF Steady, SameRole
<1>2. Roles'
  <2>1. \A t \in Threads : ThreadRoles(t)'
    BY <1>1, ThreadStays
  <2> QED BY <1>1, <2>1, RolesStay DEF Overseen, All, Roles
<1>3. Order'
  BY <1>1, OrderStays DEF Onward
<1>4. Minded'
  <2>1. \A u \in Turns : ThreadOf(u)' = ThreadOf(u) /\ (Current(u) => Current(u)') /\ (Dropped(u) => Dropped(u)')
    BY DEF ThreadOf, Current, Dropped
  <2>2. \A u \in Turns :
           (/\ op[u].kind = "send" /\ ThreadOf(u) \in Threads
            /\ ~Closed(ThreadOf(u)) /\ Current(u) /\ (Alive(u) \/ Told(u)'))
               => Closed(ThreadOf(u))' \/ Current(u)'
    BY <2>1
  <2>3. ASSUME NEW u \in Turns, op[u].kind = "send", ThreadOf(u) \in Threads, Alive(u), Closed(ThreadOf(u))',
               IF Closed(ThreadOf(u)) THEN Dropped(u) ELSE Current(u)
        PROVE  Dropped(u)'
    <3>1. PICK t \in Threads : t = ThreadOf(u)
      BY <2>3
    <3>2. Closed(t)' <=> Closed(ThreadOf(u))'
      BY <2>1, <3>1 DEF Closed
    <3>3. CASE Closed(t)
      BY <2>1, <2>3, <3>1, <3>3
    <3>4. CASE ~Closed(t)
      BY <2>3, <3>1, <3>2, <3>4
    <3> QED BY <3>3, <3>4
  <2>4. \A u \in Turns :
           (/\ op[u].kind = "send" /\ ThreadOf(u) \in Threads /\ Alive(u) /\ Closed(ThreadOf(u))'
            /\ IF Closed(ThreadOf(u)) THEN Dropped(u) ELSE Current(u))
              => Dropped(u)'
    BY <2>3
  <2>5. link = "up" => \A u \in ignored' : u \in ignored \/ Interrupted(u)'
    BY DEF Overseen
  <2> QED BY <1>1, <2>2, <2>4, <2>5, MindedStays DEF Onward
<1> QED BY <1>2, <1>3, <1>4 DEF Attended

LEMMA GoesOn ==
    ASSUME All, NEW t \in Threads, CloseGoesOn(t), UNCHANGED <<pending, wire, link>>
           \/ (pending' = pending /\ link' = link /\ wire # <<>> /\ wire' = Tail(wire))
    PROVE  /\ Onward /\ Overseen /\ ignored \subseteq ignored'
           /\ \A v \in Threads : v # t => (Closed(v)' <=> Closed(v))
           /\ Closed(t)'
           /\ pending[t] # NULL => pending[t] \in ignored'
           /\ pending[t] = NULL => ignored' = ignored
<1>1. SInv /\ closing \in [Threads -> Closings]
  BY Types DEF All
<1>2. Closed(t)' /\ \A v \in Threads : v # t => (Closed(v)' <=> Closed(v))
  BY <1>1 DEF CloseGoesOn, Closed
<1>3. CASE pending[t] # NULL
  <2>1. PICK r : r = Ask("endInput", t, pending[t])
    OBVIOUS
  <2>2. r.kind = "endInput" /\ r.turn = pending[t] /\ Sends(r) /\ ignored' = ignored \union {pending[t]}
    BY <1>3, <2>1 DEF CloseGoesOn, Ask
  <2>3. Onward /\ (link = "up" => \A u : u = r.turn => Interrupted(u)')
    BY <1>1, <2>2, Onwards
  <2>4. Started(pending[t])
    BY <1>3 DEF All, Roles, ThreadRoles, IsTurn
  <2>5. Overseen
    BY <2>2, <2>3, <2>4 DEF Overseen
  <2> QED BY <1>2, <1>3, <2>2, <2>3, <2>5
<1>4. CASE pending[t] = NULL
  <2>1. PICK r : r = Ask("unsubscribe", t, NULL)
    OBVIOUS
  <2>2. r.kind = "unsubscribe" /\ Sends(r) /\ ignored' = ignored
    BY <1>4, <2>1 DEF CloseGoesOn, Ask
  <2>3. Onward
    BY <1>1, <2>2, Onwards
  <2> QED BY <1>2, <1>4, <2>2, <2>3 DEF Overseen
<1> QED BY <1>3, <1>4

LEMMA FinishedIs ==
    ASSUME SInv, NEW o \in Ops, NEW result \in Losses, op' = Finished(o, result), op[o].thread # NULL
    PROVE  /\ \A p \in Ops : p # o => SameRole(p)
           /\ op'[o].thread = op[o].thread /\ op'[o].kind = op[o].kind /\ op'[o].turn = op[o].turn
           /\ op'[o].result # NULL /\ op'[o].sent = op[o].sent
<1>1. op \in [Ops -> OpType] /\ result # NULL
  BY Types, Numbers DEF Losses
<1> QED BY <1>1 DEF Finished, SameRole, OpType, Done

LEMMA CloseAttends ==
    ASSUME All, SInv', NEW t \in Threads, CloseSidecar(t), ~Closed(t),
           UNCHANGED <<pending, turn, wire, link>>
    PROVE  Attended
<1> DEFINE o == active[t]
<1>1. SInv /\ closing \in [Threads -> Closings] /\ o \in Ops \union {NULL} /\ NULL \notin Ops
  BY Types DEF All
<1>2. o # NULL => op[o].thread = t /\ op[o].result = NULL /\ OpRoles(o) /\ pending[t] = NULL /\ t # NULL
  BY <1>1, Types DEF All, SInv, Books, Roles, ThreadRoles, Done
<1>3. CASE o # NULL /\ op[o].turn # NULL
  <2>1. PICK w \in Turns : w = op[o].turn
    BY <1>1, <1>3, Types DEF All
  <2>2. /\ closing' = [closing EXCEPT ![t] = "interrupting"] /\ ignored' = ignored \union {w}
        /\ Sends(Ask("endTurn", t, w)) /\ op' = op /\ active' = active
    BY <1>3, <2>1 DEF CloseSidecar
  <2>3. Closed(t)' /\ \A v \in Threads : v # t => (Closed(v)' <=> Closed(v))
    BY <1>1, <2>2 DEF Closed
  <2>4. PICK r : r = Ask("endTurn", t, w)
    OBVIOUS
  <2>5. r.kind = "endTurn" /\ r.turn = w /\ Sends(r)
    BY <2>2, <2>4 DEF Ask
  <2>6. Onward /\ (link = "up" => \A u : u = r.turn => Interrupted(u)')
    BY <1>1, <2>5, Onwards
  <2>7. Overseen
    <3>1. Started(w)
      BY <1>2, <1>3, <2>1 DEF OpRoles, IsTurn
    <3> QED BY <2>2, <2>5, <2>6, <3>1 DEF Overseen
  <2>8. ASSUME NEW u \in Turns, op[u].kind = "send", ThreadOf(u) = t, Alive(u), Current(u) PROVE Dropped(u)'
    <3>1. u = o \/ u = w
      BY <1>2, <1>3, <2>1, <2>8, Types DEF Current, All
    <3>2. u = o => w = o
      BY <1>2, <1>3, <2>1, <2>8 DEF OpRoles
    <3> QED BY <2>2, <3>1, <3>2 DEF Dropped
  <2>9. ASSUME NEW v \in Threads, Closed(v)', ~Closed(v) PROVE v = t
    BY <2>3, <2>9
  <2> QED BY <1>2, <1>3, <2>2, <2>3, <2>6, <2>7, <2>8, <2>9, ShutAttends
<1>4. CASE o # NULL /\ op[o].turn = NULL
  <2>1. CloseGoesOn(t) /\ op' = Finished(o, "thread_closed") /\ active' = Freed(o) /\ o \in Ops
    BY <1>1, <1>4 DEF CloseSidecar, Finish
  <2>2. /\ Onward /\ Overseen /\ ignored' = ignored /\ Closed(t)'
        /\ \A v \in Threads : v # t => (Closed(v)' <=> Closed(v))
    BY <1>2, <1>4, <2>1, GoesOn
  <2>3. /\ \A p \in Ops : p # o => SameRole(p)
        /\ op'[o].thread = op[o].thread /\ op'[o].kind = op[o].kind /\ op'[o].turn = op[o].turn
        /\ op'[o].result # NULL /\ op'[o].sent = op[o].sent /\ op[o].thread # NULL
    BY <1>1, <1>2, <1>4, <2>1, FinishedIs DEF Losses, Results
  <2>4. ASSUME NEW u \in Turns, NEW v \in Threads, op[u].kind = "send", ThreadOf(u) = v, active[v] = o
        PROVE  v = t
    BY <1>1, <1>2, <1>4, <2>4 DEF SInv, Books
  <2>5. ASSUME NEW u \in Turns, NEW v \in Threads, op[u].kind = "send", ThreadOf(u) = v, Alive(u), Closed(v)', ~Closed(v), Current(u)
        PROVE  Dropped(u)'
    <3>1. v = t
      BY <2>2, <2>5
    <3>2. u = o
      BY <1>2, <1>4, <2>5, <3>1, Types DEF Current, All
    <3>3. op[o].sent \in {"requested", "accepted"}
      <4>1. op[o].sent # "over" /\ op[o].sent # "no"
        BY <1>2, <1>4 DEF OpRoles, Open, Done
      <4>2. op[o].sent # "refused"
        <5>1. CASE AtWork(o)
          BY <1>2, <1>4, <5>1 DEF OpRoles, AtWork, Started
        <5>2. CASE Requested(o)
          BY <1>1, <5>2 DEF Requested, SInv, Flight, RequestInv, Target
        <5> QED BY <2>5, <3>2, <5>1, <5>2 DEF Alive
      <4>3. op[o] \in OpType
        BY <1>1, <1>4, Types
      <4> QED BY <4>1, <4>2, <4>3 DEF OpType
    <3> QED BY <2>3, <3>2, <3>3 DEF Dropped
  <2>6. \A v \in Threads : (Closed(v) => Closed(v)') /\ (Closed(v)' => Closed(v) \/ pending[v] = NULL)
    BY <1>2, <1>4, <2>2
  <2> QED BY <2>1, <2>2, <2>3, <2>4, <2>5, <2>6, FinishAttends
<1>5. CASE o = NULL
  <2>1. CloseGoesOn(t) /\ op' = op /\ active' = active
    BY <1>5 DEF CloseSidecar
  <2>2. /\ Onward /\ Overseen /\ ignored \subseteq ignored' /\ Closed(t)'
        /\ \A v \in Threads : v # t => (Closed(v)' <=> Closed(v))
        /\ pending[t] # NULL => pending[t] \in ignored'
    BY <2>1, GoesOn
  <2>3. ASSUME NEW u \in Turns, ThreadOf(u) = t, Current(u) PROVE Dropped(u)'
    <3>1. pending[t] = u /\ u # NULL
      BY <1>5, <2>3, Types DEF Current, All
    <3> QED BY <2>2, <3>1 DEF Dropped
  <2>4. \A v \in Threads : (Closed(v) => Closed(v)') /\ (Closed(v)' /\ ~Closed(v) => v = t)
    BY <2>2
  <2> QED BY <2>1, <2>2, <2>3, <2>4, ShutAttends
<1> QED BY <1>3, <1>4, <1>5

LEMMA AcknowledgeAttends ==
    ASSUME All, SInv', NEW kind \in ToThread \union ToOp, NEW id, Acknowledged(kind, id),
           kind \in ToThread => id \in Threads, kind \in ToOp => id \in Ops,
           kind \in {"endTurn", "endInput", "unsubscribe"} => closing[id] # "no",
           kind = "timeout" => op[id].sent = "over" /\ op[id].thread # NULL,
           link' = link, wire' = wire \/ (wire # <<>> /\ wire' = Tail(wire)),
           kind = "timeout" /\ link = "up" =>
               op[id].turn # NULL /\ turn[op[id].turn] = "over" /\ ~Told(op[id].turn)'
    PROVE  Attended
<1>1. SInv /\ closing \in [Threads -> Closings]
  BY Types DEF All
<1>2. CASE kind \in {"create", "endLate"}
  <2>1. UNCHANGED <<op, active, closing, pending, ignored, turn, requests>>
    BY <1>2 DEF Acknowledged, Created, opVars, codexVars, tableVars
  <2> QED BY <2>1, QuietAttends
<1>3. CASE kind = "endTurn"
  <2>1. id \in Threads /\ TurnEnded(id) /\ Closed(id)
    BY <1>3 DEF Acknowledged, ToThread, Closed
  <2>2. CloseGoesOn(id) /\ UNCHANGED <<pending, turn>>
    BY <2>1 DEF TurnEnded, codexVars
  <2>3. /\ Onward /\ Overseen /\ ignored \subseteq ignored' /\ Closed(id)'
        /\ \A v \in Threads : v # id => (Closed(v)' <=> Closed(v))
    BY <2>1, <2>2, GoesOn
  <2>4. CASE active[id] = NULL
    <3>1. op' = op /\ active' = active
      BY <2>1, <2>4 DEF TurnEnded
    <3>2. \A p \in Ops : SameRole(p)
      BY <3>1 DEF SameRole
    <3>3. \A v \in Threads : Closed(v)' <=> Closed(v)
      BY <2>1, <2>3
    <3> QED BY <2>2, <2>3, <3>1, <3>2, <3>3, MildAttends
  <2>5. CASE active[id] # NULL
    <3>1. PICK o \in Ops : o = active[id]
      BY <1>1, <2>1, <2>5, Types
    <3>2. op' = Finished(o, "thread_closed") /\ active' = Freed(o) /\ op[o].thread = id
      BY <1>1, <2>1, <2>5, <3>1 DEF TurnEnded, Finish, SInv, Books
    <3>3. op[o].thread # NULL
      BY <2>1, <3>2, Types DEF All
    <3>4. /\ \A p \in Ops : p # o => SameRole(p)
          /\ op'[o].thread = op[o].thread /\ op'[o].kind = op[o].kind /\ op'[o].turn = op[o].turn
          /\ op'[o].result # NULL /\ op'[o].sent = op[o].sent
      BY <1>1, <3>2, <3>3, FinishedIs DEF Losses, Results
    <3>5. \A v \in Threads : (Closed(v)' <=> Closed(v)) /\ (active[v] = o => v = id)
      BY <1>1, <2>1, <2>3, <3>2, Types DEF SInv, Books
    <3>6. \A u \in Turns : \A v \in Threads : active[v] = o => Closed(v)'
      BY <2>3, <3>5
    <3> QED BY <2>2, <2>3, <3>2, <3>3, <3>4, <3>5, <3>6, FinishAttends
  <2> QED BY <2>4, <2>5
<1>4. CASE kind \in {"endInput", "unsubscribe"}
  <2>1. /\ id \in Threads /\ Closed(id)
        /\ InputEnded(id) \/ (Unsubscribed(id) /\ requests' = requests)
        /\ UNCHANGED <<op, active, ignored>>
    BY <1>4 DEF Acknowledged, ToThread, InputEnded, Unsubscribed, opVars, Closed
  <2>2. Onward
    <3>1. PICK r : r = Ask("unsubscribe", id, NULL)
      OBVIOUS
    <3>2. r.kind = "unsubscribe" /\ (requests' = requests \/ Sends(r))
      BY <2>1, <3>1 DEF Ask, InputEnded
    <3> QED BY <1>1, <3>2, Onwards
  <2>3. \A v \in Threads : Closed(v)' <=> Closed(v)
    BY <1>1, <2>1 DEF InputEnded, Unsubscribed, Closed
  <2>4. \A v \in Threads : pending'[v] = pending[v] \/ (pending'[v] = NULL /\ Closed(v))
    BY <2>1, Types DEF InputEnded, Unsubscribed, opVars, All
  <2>5. \A u \in Turns : turn'[u] = turn[u] \/ (AtWork(u) /\ AtWork(u)')
    BY <2>1, Types DEF InputEnded, Unsubscribed, codexVars, Resumed, AtWork, All
  <2>6. Overseen /\ \A p \in Ops : SameRole(p)
    BY <2>1 DEF Overseen, SameRole
  <2> QED BY <2>1, <2>2, <2>3, <2>4, <2>5, <2>6, MildAttends
<1>5. CASE kind = "timeout"
  <2>1. /\ id \in Ops /\ op' = [Finished(id, "timeout") EXCEPT ![id].timer = "over"]
        /\ active' = Freed(id) /\ UNCHANGED <<closing, pending, ignored, turn, requests>>
    BY <1>5 DEF Acknowledged, ToOp, TimeIsUp, tableVars, codexVars
  <2>2. PICK result \in Losses : result = "timeout"
    BY DEF Losses, Results
  <2>3. /\ \A p \in Ops : p # id => SameRole(p)
        /\ op'[id].thread = op[id].thread /\ op'[id].kind = op[id].kind /\ op'[id].turn = op[id].turn
        /\ op'[id].result # NULL /\ op'[id].sent = op[id].sent
    <3>1. op \in [Ops -> OpType] /\ result # NULL
      BY <1>1, Types, Numbers DEF Losses
    <3> QED BY <2>1, <2>2, <3>1 DEF Finished, SameRole, OpType, Done
  <2>4. Onward /\ Overseen
    BY <1>1, <2>1, Silent DEF Overseen
  <2>5. \A v \in Threads : Closed(v)' <=> Closed(v)
    BY <2>1 DEF Closed
  <2>6. ASSUME link = "up", NEW u \in Turns, op[u].kind = "send", u = id \/ op[id].turn = u, Alive(u) \/ Told(u)'
        PROVE  FALSE
    <3>1. op[id].turn = u
      BY <1>5, <2>1, <2>6 DEF All, Roles, OpRoles
    <3>2. turn[u] = "over" /\ ~Told(u)'
      BY <1>5, <2>3, <2>6, <3>1 DEF Told, Of
    <3>3. ~Requested(u)
      BY <3>2 DEF Requested, All, Order, RequestOrder, Started
    <3> QED BY <2>6, <3>2, <3>3 DEF Alive, AtWork
  <2> QED BY <1>5, <2>1, <2>3, <2>4, <2>5, <2>6, FinishAttends
<1> QED BY <1>2, <1>3, <1>4, <1>5 DEF ToThread, ToOp

LEMMA RejectedAttends ==
    ASSUME All, SInv', NEW kind \in ToThread \union {"timeout"}, NEW id,
           IF kind = "timeout" THEN id \in Ops ELSE id \in Threads, Rejected(kind, id)
    PROVE  Attended
<1>1. Waits(kind, id) /\ Acknowledged(kind, id) /\ UNCHANGED <<wire, link>> /\ link = "down"
  BY DEF Rejected
<1>2. /\ kind \in ToThread => id \in Threads
      /\ kind \in ToOp => id \in Ops
      /\ kind \in {"endTurn", "endInput", "unsubscribe"} => closing[id] # "no"
  BY <1>1 DEF Waits, ToThread, ToOp
<1>3. kind = "timeout" => op[id].sent = "over" /\ op[id].thread # NULL
  BY <1>1 DEF Waits, All, SInv, Books, Roles, OpRoles
<1>4. kind \in ToThread \union ToOp
  BY DEF ToOp
<1> QED BY <1>1, <1>2, <1>3, <1>4, AcknowledgeAttends

LEMMA FailsAttends ==
    ASSUME All, SInv', NEW o \in Ops, Fails(o)
    PROVE  Attended
<1>1. SInv /\ op \in [Ops -> OpType] /\ OpRoles(o)
  BY Types DEF All, Roles
<1>2. UNCHANGED <<closing, pending, ignored, turn, requests, wire, link>>
  BY DEF Fails, tableVars, codexVars, linkVars
<1>3. PICK result \in Losses : op' = [Finished(o, result) EXCEPT ![o].sent = "over"] /\ active' = Freed(o)
  BY DEF Fails, Losses, Results
<1>4. /\ \A p \in Ops : p # o => SameRole(p)
      /\ op'[o].thread = op[o].thread /\ op'[o].kind = op[o].kind /\ op'[o].turn = op[o].turn
      /\ op'[o].result # NULL /\ op'[o].sent = "over"
  <2>1. result # NULL
    BY Numbers DEF Losses
  <2> QED BY <1>1, <1>3, <2>1 DEF Finished, SameRole, OpType, Done
<1>5. op[o].thread # NULL /\ op[o].kind = "send"
  BY <1>1 DEF Fails, OpRoles
<1>6. Onward /\ Overseen /\ \A v \in Threads : Closed(v)' <=> Closed(v)
  BY <1>1, <1>2, Silent DEF Overseen, Closed
<1>7. link = "up" => ~Alive(o) /\ ~Told(o)'
  <2>1. ASSUME link = "up" PROVE ~Alive(o) /\ ~Told(o)'
    <3>1. op[o].sent = "refused" /\ ~Started(o)
      BY <1>1, <2>1 DEF Fails, OpRoles
    <3>2. ~Requested(o)
      BY <1>1, <3>1 DEF Requested, SInv, Flight, RequestInv, Target
    <3>3. ~Told(o)'
      BY <1>6, <3>1, SendTurns, Numbers DEF Onward
    <3> QED BY <3>1, <3>2, <3>3 DEF Alive, AtWork, Started
  <2> QED BY <2>1
<1>8. \A u \in Turns : op[o].turn = u => u = o
  BY <1>1, <1>5, Types DEF OpRoles, All
<1> QED BY <1>2, <1>3, <1>4, <1>5, <1>6, <1>7, <1>8, FinishAttends

LEMMA ExpiresAttends ==
    ASSUME All, SInv', NEW o \in Ops, Expires(o)
    PROVE  Attended
<1>1. SInv /\ op \in [Ops -> OpType] /\ OpRoles(o)
  BY Types DEF All, Roles
<1>2. UNCHANGED <<closing, active, pending, turn, wire, link>>
  BY DEF Expires, tableVars, codexVars
<1>3. PICK u : u = op[o].turn
  OBVIOUS
<1>4. /\ op[o].timer = "on" /\ u # NULL /\ op' = [op EXCEPT ![o].timer = "interrupting"]
      /\ ignored' = ignored \union {u} /\ Sends(Ask("timeout", o, u))
  BY <1>1, <1>3 DEF Expires, SInv, Books
<1>5. (\A p \in Ops : SameRole(p)) /\ op'[o].turn = u
  BY <1>1, <1>3, <1>4 DEF SameRole, OpType
<1>6. PICK r : r = Ask("timeout", o, u)
  OBVIOUS
<1>7. r.kind = "timeout" /\ r.id = o /\ r.turn = u /\ Sends(r)
  BY <1>4, <1>6 DEF Ask
<1>8. Onward /\ (link = "up" => \A w : w = r.turn => Interrupted(w)')
  BY <1>1, <1>2, <1>4, <1>5, <1>7, Onwards
<1>9. Started(u)
  BY <1>1, <1>3, <1>4 DEF OpRoles, IsTurn
<1>10. Overseen /\ ignored \subseteq ignored' /\ \A v \in Threads : Closed(v)' <=> Closed(v)
  BY <1>2, <1>4, <1>7, <1>8, <1>9 DEF Overseen, Closed
<1> QED BY <1>2, <1>5, <1>8, <1>10, MildAttends

(* An operation gets on with its turn; its sidecar's state stays.           *)
LEMMA GoneOn ==
    ASSUME All, SInv', Onward, Overseen, NEW o \in Ops, \A p \in Ops : p # o => SameRole(p),
           op[o].thread # NULL, op'[o].thread = op[o].thread, op'[o].kind = op[o].kind,
           op[o].turn # NULL => op'[o].turn = op[o].turn, ~SameRole(o) => OpRoles(o)',
           UNCHANGED <<active, closing, pending, turn>>, ignored \subseteq ignored',
           link = "up" /\ Alive(o) /\ Closed(ThreadOf(o)) /\ Dropped(o) => Dropped(o)'
    PROVE  Attended
<1>1. Steady
  BY DEF Steady, SameRole
<1>2. Roles'
  <2>1. \A t \in Threads : ThreadRoles(t)'
    BY <1>1, ThreadStays DEF Closed
  <2> QED BY <1>1, <2>1, RolesStay DEF Overseen, All, Roles
<1>3. Order'
  BY <1>1, OrderStays DEF Onward
<1>4. ASSUME NEW u \in Turns, op[u].kind = "send", ThreadOf(u) \in Threads
      PROVE  /\ ThreadOf(u)' = ThreadOf(u)
             /\ Closed(ThreadOf(u))' <=> Closed(ThreadOf(u))
             /\ Current(u) => Current(u)'
             /\ u # o /\ Dropped(u) => Dropped(u)'
  <2>1. PICK t \in Threads : t = op[u].thread /\ op'[u].thread = t
    BY <1>1, <1>4, Numbers DEF Steady, ThreadOf
  <2>2. ThreadOf(u)' = t /\ ThreadOf(u) = t
    BY <2>1 DEF ThreadOf
  <2>3. ASSUME active[t] # NULL, op[active[t]].turn = u PROVE op'[active[t]].turn = u
    BY <1>1, <2>3, Types DEF All, Steady
  <2>4. Current(u) => Current(u)'
    BY <2>1, <2>3 DEF Current, ThreadOf
  <2>5. u # o /\ Dropped(u) => Dropped(u)'
    BY Numbers DEF Dropped, SameRole
  <2> QED BY <2>2, <2>4, <2>5 DEF Closed
<1>5. Minded'
  <2>1. \A u \in Turns :
           (/\ op[u].kind = "send" /\ ThreadOf(u) \in Threads
            /\ ~Closed(ThreadOf(u)) /\ Current(u) /\ (Alive(u) \/ Told(u)'))
               => Closed(ThreadOf(u))' \/ Current(u)'
    BY <1>4
  <2>2. link = "up" => \A u \in Turns :
           (/\ op[u].kind = "send" /\ ThreadOf(u) \in Threads /\ Alive(u) /\ Closed(ThreadOf(u))'
            /\ IF Closed(ThreadOf(u)) THEN Dropped(u) ELSE Current(u))
              => Dropped(u)'
    BY <1>4
  <2>3. link = "up" => \A u \in ignored' : u \in ignored \/ Interrupted(u)'
    BY DEF Overseen
  <2>4. \A t \in Threads : Closed(t) => Closed(t)'
    BY DEF Closed
  <2> QED BY <1>1, <2>1, <2>2, <2>3, <2>4, MindedStays DEF Onward
<1> QED BY <1>2, <1>3, <1>5 DEF Attended

LEMMA ContinueAttends ==
    ASSUME All, SInv', NEW o \in Ops, Continue(o)
    PROVE  Attended
<1>1. SInv /\ op \in [Ops -> OpType] /\ OpRoles(o) /\ op[o].sent = "accepted"
  BY Types DEF All, Roles, Continue
<1>2. /\ op[o].thread \in Threads /\ op[o].kind = "send" /\ Started(o) /\ op[o].turn \in {NULL, o}
      /\ op[o].timer = "off"
  BY <1>1, Types DEF OpRoles, SInv, Books
<1>3. UNCHANGED <<active, closing, pending, turn, wire, link>>
  BY DEF Continue, tableVars, codexVars
<1>4. IsTurn(o, op[o].thread)
  BY <1>2 DEF IsTurn
<1>5. CASE TooLate(o)
  <2>1. /\ op' = [op EXCEPT ![o].sent = "over"] /\ ignored' = ignored \union {o}
        /\ IF o \in ignored THEN UNCHANGED requests ELSE Sends(Ask("endLate", o, o))
    BY <1>5 DEF Continue
  <2>2. /\ \A p \in Ops : p # o => SameRole(p)
        /\ op'[o].thread = op[o].thread /\ op'[o].kind = "send" /\ op'[o].turn = op[o].turn
        /\ op'[o].result = op[o].result /\ op'[o].sent = "over"
    BY <1>1, <1>2, <2>1 DEF SameRole, OpType
  <2>3. PICK r : r = Ask("endLate", o, o)
    OBVIOUS
  <2>4. r.kind = "endLate" /\ r.turn = o
    BY <2>3 DEF Ask
  <2>5. /\ Onward /\ (Sends(r) /\ link = "up" => \A w : w = r.turn => Interrupted(w)')
    BY <1>1, <1>3, <2>1, <2>3, <2>4, Onwards
  <2>6. Overseen
    BY <1>2, <2>1, <2>3, <2>4, <2>5 DEF Overseen
  <2>7. Open(o) => op[o].turn # NULL
    <3>1. ASSUME Open(o) PROVE op[o].turn # NULL
      <4>1. op[o].result = NULL /\ active[op[o].thread] = o
        BY <1>1, <3>1 DEF Open, Done, OpRoles
      <4>2. Closed(op[o].thread)
        BY <1>5, <4>1, Numbers DEF TooLate, ThreadOf, Results
      <4> QED BY <1>1, <1>2, <4>1, <4>2, Types DEF SInv, Books, Silenced
    <3> QED BY <3>1
  <2>8. OpRoles(o)'
    <3>1. op[o].turn # NULL => IsTurn(op[o].turn, op[o].thread)'
      BY <1>2, <1>3, <2>2 DEF IsTurn, Started
    <3>2. Open(o)' => Open(o)
      BY <1>2, <2>2, Types DEF Open, Done, All
    <3> QED BY <1>1, <1>3, <2>2, <2>7, <3>1, <3>2 DEF OpRoles
  <2>9. Dropped(o)'
    BY <2>1 DEF Dropped
  <2>10. op[o].thread # NULL /\ ignored \subseteq ignored'
    BY <1>2, <2>1, Types DEF All
  <2> QED BY <1>2, <1>3, <2>2, <2>5, <2>6, <2>8, <2>9, <2>10, GoneOn
<1>6. CASE ~TooLate(o)
  <2>1. /\ op' = [op EXCEPT ![o].sent = "over", ![o].turn = o,
                           ![o].timer = IF Done(o) THEN @ ELSE "on"]
        /\ UNCHANGED <<ignored, requests>> /\ ~Closed(ThreadOf(o))
    BY <1>6 DEF Continue, TooLate
  <2>2. PICK timer : timer = IF Done(o) THEN op[o].timer ELSE "on"
    OBVIOUS
  <2>3. PICK q : q = [op[o] EXCEPT !.sent = "over", !.turn = o, !.timer = timer]
    OBVIOUS
  <2>4. /\ q.thread = op[o].thread /\ q.kind = "send" /\ q.turn = o /\ q.sent = "over"
        /\ q.result = op[o].result
    <3>1. op[o] \in OpType
      BY <1>1
    <3> QED BY <1>2, <2>3, <3>1 DEF OpType
  <2>5. op' = [op EXCEPT ![o] = q]
    BY <2>1, <2>2, <2>3
  <2>6. op'[o] = q /\ \A p \in Ops : p # o => SameRole(p)
    BY <1>1, <2>5 DEF SameRole
  <2>7. Onward /\ Overseen
    BY <1>1, <1>3, <2>1, Silent DEF Overseen
  <2>8. OpRoles(o)'
    <3>1. IsTurn(o, op[o].thread)'
      BY <1>2, <1>3, <2>4, <2>6 DEF IsTurn, Started
    <3>2. op'[o].turn = o /\ o # NULL
      BY <2>4, <2>6, Types DEF All
    <3>3. Open(o)' => active'[op'[o].thread] = o
      BY <1>1, <1>2, <1>3, <2>4, <2>6 DEF OpRoles, Open, Done
    <3>4. IsTurn(op[o].turn, op[o].thread)'
      BY <3>1, <3>2 DEF IsTurn, Started
    <3> QED BY <1>1, <1>2, <2>4, <2>6, <3>2, <3>3, <3>4 DEF OpRoles
  <2>9. op[o].thread # NULL
    BY <1>2, Types DEF All
  <2> QED BY <1>2, <1>3, <2>1, <2>4, <2>6, <2>7, <2>8, <2>9, GoneOn
<1> QED BY <1>5, <1>6

(* The response to turn/start.                                              *)
LEMMA StartedAttends ==
    ASSUME All, SInv', wire # <<>>, wire' = Tail(wire), wire[1].kind = "start",
           op' = [op EXCEPT ![wire[1].id].sent = wire[1].status],
           UNCHANGED <<active, closing, pending, ignored, turn, requests, link>>
    PROVE  Attended
<1>1. SInv /\ op \in [Ops -> OpType] /\ WireInv /\ 1 \in 1..Len(wire) /\ StartsOnce
  BY Types, WireFacts DEF All, SInv, Flight
<1>2. Proper(wire[1], op, closing) /\ WireOrder(1)
  BY <1>1 DEF WireInv, WireOK, All, Order
<1>3. PICK o \in Ops, sent \in {"accepted", "refused"} : o = wire[1].id /\ sent = wire[1].status
  BY <1>2 DEF Proper, Target
<1>4. /\ op[o].sent = "requested" /\ op[o].thread \in Threads /\ OpRoles(o)
      /\ (sent = "accepted" <=> Started(o))
  BY <1>2, <1>3 DEF Proper, Target, WireOrder, All, Roles
<1>5. /\ \A p \in Ops : p # o => SameRole(p)
      /\ op'[o].thread = op[o].thread /\ op'[o].kind = op[o].kind /\ op'[o].turn = op[o].turn
      /\ op'[o].result = op[o].result /\ op'[o].sent = sent
  BY <1>1, <1>3 DEF SameRole, OpType
<1>6. Onward /\ Overseen
  BY <1>1, Silent DEF Overseen
<1>7. OpRoles(o)'
  <2>1. op[o].turn # NULL => IsTurn(op[o].turn, op[o].thread)'
    <3>1. ASSUME op[o].turn # NULL PROVE IsTurn(op[o].turn, op[o].thread)'
      <4>1. PICK u \in Ops : u = op[o].turn /\ IsTurn(u, op[o].thread)
        BY <1>1, <1>4, <3>1, Types DEF OpRoles
      <4>2. op'[u].thread = op[u].thread /\ op'[u].kind = op[u].kind
        BY <1>5 DEF SameRole
      <4> QED BY <1>5, <4>1, <4>2 DEF IsTurn, Started
    <3> QED BY <3>1
  <2> QED BY <1>4, <1>5, <2>1 DEF OpRoles, Open, Done, Started
<1>8. sent = "refused" => ~Alive(o)
  <2>1. ASSUME sent = "refused" PROVE ~Alive(o)
    <3>1. ~Started(o)
      BY <1>4, <2>1
    <3>2. ~Requested(o)
      BY <1>1, <1>3 DEF Requested, StartsOnce, Once
    <3> QED BY <3>1, <3>2 DEF Alive, AtWork, Started
  <2> QED BY <2>1
<1>9. Alive(o) => Dropped(o)'
  BY <1>5, <1>8 DEF Dropped
<1>10. op[o].thread # NULL
  BY <1>4, Types DEF All
<1> QED BY <1>5, <1>6, <1>7, <1>9, <1>10, GoneOn

(* A notification or a question reaches the operation that follows its turn.*)
HeardBy(o, t, u, result) ==
    /\ op'[o].thread = op[o].thread /\ op'[o].kind = op[o].kind /\ op'[o].turn = u
    /\ op'[o].sent = op[o].sent /\ (op[o].result = NULL => op'[o].result = result)
    /\ \A p \in Ops : p # o => op'[p] = op[p]
    /\ \A v \in Threads : active'[v] = IF result # NULL /\ v = t THEN NULL ELSE active[v]
    /\ \A v \in Threads : pending'[v] = IF result = "needsInput" /\ v = t THEN u ELSE pending[v]

LEMMA HeardIs ==
    ASSUME SInv, NEW u \in Turns, NEW o \in Ops, NEW t \in Threads,
           NEW result \in {NULL, "completed", "interrupted", "needsInput"},
           op' = IF result = NULL THEN [op EXCEPT ![o].turn = u]
                                  ELSE [op EXCEPT ![o].turn = u, ![o].result = result],
           active' = IF result = NULL THEN active ELSE [active EXCEPT ![t] = NULL],
           pending' = IF result = "needsInput" THEN [pending EXCEPT ![t] = u] ELSE pending
    PROVE  HeardBy(o, t, u, result)
<1>1. /\ op \in [Ops -> OpType] /\ op[o] \in OpType /\ active \in [Threads -> Ops \union {NULL}]
      /\ pending \in [Threads -> Ops \union {NULL}]
  BY Types
<1>2. PICK q : q = IF result = NULL THEN [op[o] EXCEPT !.turn = u]
                                    ELSE [op[o] EXCEPT !.turn = u, !.result = result]
  OBVIOUS
<1>3. /\ q.thread = op[o].thread /\ q.kind = op[o].kind /\ q.turn = u /\ q.sent = op[o].sent
      /\ op[o].result = NULL => q.result = result
  BY <1>1, <1>2 DEF OpType
<1>4. op' = [op EXCEPT ![o] = q]
  BY <1>2
<1> QED BY <1>1, <1>3, <1>4 DEF HeardBy

LEMMA HeardAttends ==
    ASSUME All, SInv', link = "up", NEW u \in Turns, NEW o \in Ops, NEW t \in Threads,
           wire # <<>>, wire' = Tail(wire), Of(wire[1], u),
           t = ThreadOf(u), o = active[t], op[o].turn \in {NULL, u},
           NEW result \in {NULL, "completed", "interrupted", "needsInput"},
           result \in {"completed", "interrupted"} => Final(wire[1]),
           result = "needsInput" => ~Closed(t), HeardBy(o, t, u, result),
           UNCHANGED <<closing, ignored, turn, requests, link>>
    PROVE  Attended
<1>1. /\ SInv /\ op \in [Ops -> OpType] /\ WireInv /\ 1 \in 1..Len(wire) /\ OpRoles(o) /\ ThreadRoles(t)
      /\ active \in [Threads -> Ops \union {NULL}] /\ pending \in [Threads -> Ops \union {NULL}]
      /\ NULL \notin Ops /\ NULL \notin Threads /\ u \in Ops /\ Turns = Ops
  BY Types, WireFacts DEF All, SInv, Flight, Roles
<1>2. WireOrder(1) /\ Told(u) /\ IsTurn(u, t)
  BY <1>1 DEF All, Order, WireOrder, Told, Of
<1>3. op[o].thread = t /\ op[o].result = NULL /\ pending[t] = NULL /\ (Closed(t) => op[o].turn # NULL)
  BY <1>1, Types DEF SInv, Books, Done, Silenced, ThreadRoles
<1>4. op[o].kind = "send" => o = u
  <2>1. Closed(t) \/ Current(u)
    BY <1>2 DEF All, Minded
  <2>2. CASE op[o].turn = u
    BY <1>1, <2>2 DEF OpRoles
  <2>3. CASE op[o].turn = NULL
    BY <1>1, <1>3, <2>1, <2>3 DEF Current
  <2> QED BY <2>2, <2>3
<1>5. PICK q : q = op'[o]
  OBVIOUS
<1>6. /\ q.thread = t /\ q.kind = op[o].kind /\ q.turn = u /\ q.sent = op[o].sent /\ q.result = result
  BY <1>3, <1>5 DEF HeardBy
<1>8. /\ op'[o] = q /\ (\A p \in Ops : p # o => op'[p] = op[p])
      /\ \A v \in Threads : active'[v] = IF result # NULL /\ v = t THEN NULL ELSE active[v]
      /\ \A v \in Threads : pending'[v] = IF result = "needsInput" /\ v = t THEN u ELSE pending[v]
  BY <1>5 DEF HeardBy
<1>9. Steady /\ \A p \in Ops : p # o => SameRole(p)
  BY <1>3, <1>6, <1>8 DEF Steady, SameRole
<1>10. Onward
  BY <1>1, Silent
<1>11. IsTurn(u, t)'
  BY <1>2, <1>9, <1>1, SteadyTurns
<1>12. OpRoles(o)'
  <2>1. op'[o].kind = "send" => o = u
    BY <1>4, <1>6, <1>8
  <2>2. Open(o)' => active'[op'[o].thread] = o
    BY <1>6, <1>8 DEF Open, Done
  <2>3. IsTurn(op[o].turn, op[o].thread)'
    BY <1>6, <1>8, <1>11 DEF IsTurn, Started
  <2>4. Started(o)' <=> Started(o)
    BY DEF Started
  <2> QED BY <1>1, <1>3, <1>6, <1>8, <2>1, <2>2, <2>3, <2>4 DEF OpRoles, Open, Done
<1>13. Roles'
  <2>1. ASSUME NEW v \in Threads PROVE ThreadRoles(v)'
    <3>1. CASE result = "needsInput" /\ v = t
      <4>1. pending'[v] = u /\ active'[v] = NULL /\ ~Closed(v)'
        BY <1>8, <3>1, Numbers DEF Closed, Results
      <4>2. IsTurn(pending[v], v)'
        BY <1>11, <3>1, <4>1 DEF IsTurn, Started
      <4> QED BY <4>1, <4>2 DEF ThreadRoles
    <3>2. CASE ~(result = "needsInput" /\ v = t)
      <4>1. pending'[v] = pending[v] /\ active'[v] \in {active[v], NULL} /\ (Closed(v)' => Closed(v))
        BY <1>8, <3>2 DEF Closed
      <4> QED BY <1>9, <4>1, ThreadStays
    <3> QED BY <3>1, <3>2
  <2>2. \A v \in Threads : active'[v] = active[v] \/ active[v] = NULL \/ ~SameRole(active[v])
    <3>1. result # NULL => ~SameRole(o)
      BY <1>3, <1>6, <1>8 DEF SameRole
    <3> QED BY <1>8, <3>1
  <2> QED BY <1>9, <1>12, <2>1, <2>2, RolesStay DEF All, Roles
<1>14. Order'
  BY <1>9, <1>10, OrderStays DEF Onward
<1>15. ASSUME NEW w \in Turns, op[w].kind = "send", ThreadOf(w) \in Threads, Current(w), Alive(w) \/ Told(w)'
       PROVE  Current(w)'
  <2>1. PICK v \in Threads : v = op[w].thread /\ op'[w].thread = v
    BY <1>1, <1>9, <1>15 DEF Steady, ThreadOf
  <2>2. CASE v # t \/ result = NULL
    <3>1. active'[v] = active[v] /\ pending'[v] = pending[v]
      <4>1. NULL # "needsInput"
        BY Numbers DEF Results
      <4> QED BY <1>8, <2>2, <4>1
    <3>2. ASSUME active[v] # NULL, op[active[v]].turn = w PROVE op'[active[v]].turn = w
      <4>1. active[v] \in Ops /\ w # NULL
        BY <1>1, <3>2, Types DEF All
      <4> QED BY <1>6, <1>8, <3>2, <4>1
    <3> QED BY <1>15, <2>1, <3>1, <3>2 DEF Current, ThreadOf
  <2>3. CASE v = t /\ result # NULL
    <3>1. w = u
      <4>1. w = o \/ op[o].turn = w
        BY <1>1, <1>3, <1>15, <2>1, <2>3 DEF Current, ThreadOf
      <4> QED BY <1>1, <1>4, <1>15, <4>1
    <3>2. CASE result = "needsInput"
      BY <1>8, <2>1, <2>3, <3>1, <3>2 DEF Current, ThreadOf
    <3>3. CASE result \in {"completed", "interrupted"}
      <4>1. Last(1, u)
        BY <1>2, <3>3 DEF WireOrder, Of
      <4>2. ~Told(u)' /\ turn[u] = "over"
        BY <1>1, <4>1, ToldTail DEF Last
      <4>3. ~Requested(u)
        BY <1>2 DEF Requested, All, Order, RequestOrder, IsTurn
      <4> QED BY <1>15, <3>1, <4>2, <4>3 DEF Alive, AtWork
    <3> QED BY <2>3, <3>2, <3>3
  <2> QED BY <2>2, <2>3
<1>16. Minded'
  <2>1. ASSUME NEW w \in Turns
        PROVE  ThreadOf(w)' = ThreadOf(w) /\ (Dropped(w) => Dropped(w)')
    BY <1>1, <1>3, <1>6, <1>8, Numbers DEF ThreadOf, Dropped
  <2>2. \A w \in Turns : Closed(ThreadOf(w))' <=> Closed(ThreadOf(w))
    BY <2>1 DEF Closed
  <2>3. \A w \in Turns :
           (/\ op[w].kind = "send" /\ ThreadOf(w) \in Threads
            /\ ~Closed(ThreadOf(w)) /\ Current(w) /\ (Alive(w) \/ Told(w)'))
               => Closed(ThreadOf(w))' \/ Current(w)'
    BY <1>15
  <2>4. \A w \in Turns :
           (/\ op[w].kind = "send" /\ ThreadOf(w) \in Threads /\ Alive(w) /\ Closed(ThreadOf(w))'
            /\ IF Closed(ThreadOf(w)) THEN Dropped(w) ELSE Current(w))
              => Dropped(w)'
    BY <2>1, <2>2
  <2>5. (\A w \in ignored' : w \in ignored \/ Interrupted(w)') /\ \A v \in Threads : Closed(v) => Closed(v)'
    BY DEF Closed
  <2> QED BY <1>9, <1>10, <2>3, <2>4, <2>5, MindedStays DEF Onward
<1> QED BY <1>13, <1>14, <1>16 DEF Attended

LEMMA ReceiveAttends ==
    ASSUME All, SInv', Receive
    PROVE  Attended
<1>1. /\ SInv /\ WireInv /\ active \in [Threads -> Ops \union {NULL}]
      /\ op \in [Ops -> OpType] /\ link = "up"
  BY Types DEF All, SInv, Flight, Receive
<1>2. wire # <<>> /\ wire' = Tail(wire) /\ UNCHANGED link /\ Head(wire) = wire[1] /\ 1 \in 1..Len(wire)
  BY <1>1, WireFacts DEF Receive
<1>3. PICK m : m = wire[1]
  OBVIOUS
<1>4. m \in Messages /\ Proper(m, op, closing) /\ m = Head(wire) /\ WireOrder(1)
  BY <1>1, <1>2, <1>3, WireFacts DEF WireInv, WireOK, All, Order
<1>5. CASE m.kind = "notice"
  <2>1. PICK u \in Turns, status \in {"started", "completed", "interrupted"} :
          u = m.id /\ status = m.status /\ op[u].thread \in Threads
    BY <1>4, <1>5 DEF Proper
  <2>2. Notify(u, status) /\ UNCHANGED <<closing, pending, ignored, turn, requests>>
    BY <1>4, <1>5, <2>1 DEF Receive, tableVars, codexVars
  <2>3. CASE ~Heard(u)
    <3>1. UNCHANGED <<op, active>>
      BY <2>2, <2>3 DEF Notify
    <3> QED BY <1>2, <2>2, <3>1, QuietAttends
  <2>4. CASE Heard(u)
    <3>1. PICK t \in Threads, o \in Ops : t = ThreadOf(u) /\ o = active[t] /\ op[o].turn \in {NULL, u}
      BY <1>1, <2>1, <2>4 DEF Heard, ThreadOf
    <3>2. PICK result \in {NULL, "completed", "interrupted"} :
            result = IF status = "started" THEN NULL ELSE status
      BY <2>1
    <3>3. /\ op' = IF result = NULL THEN [op EXCEPT ![o].turn = u]
                                    ELSE [op EXCEPT ![o].turn = u, ![o].result = result]
          /\ active' = IF result = NULL THEN active ELSE [active EXCEPT ![t] = NULL]
      <4>1. CASE status = "started"
        BY <2>2, <2>4, <3>1, <3>2, <4>1 DEF Notify
      <4>2. CASE status # "started"
        <5>1. result = status /\ result # NULL
          BY <3>2, <4>2, Numbers
        <5> QED BY <2>2, <2>4, <3>1, <4>2, <5>1 DEF Notify
      <4> QED BY <4>1, <4>2
    <3>4. result # "needsInput" /\ NULL # "needsInput" /\ (result \in {"completed", "interrupted"} => Final(wire[1]))
      BY <1>3, <1>5, <2>1, <3>2, Numbers DEF Results, Final
    <3>5. Of(wire[1], u)
      BY <1>3, <1>5, <2>1 DEF Of
    <3>6. /\ pending' = IF result = "needsInput" THEN [pending EXCEPT ![t] = u] ELSE pending
          /\ UNCHANGED <<closing, ignored, turn, requests, link>>
          /\ result \in {NULL, "completed", "interrupted", "needsInput"}
          /\ result = "needsInput" => ~Closed(t)
      BY <1>2, <2>2, <3>4
    <3>7. HeardBy(o, t, u, result)
      BY <1>1, <3>3, <3>6, HeardIs
    <3> QED BY <1>1, <1>2, <3>1, <3>4, <3>5, <3>6, <3>7, HeardAttends
  <2> QED BY <2>3, <2>4
<1>6. CASE m.kind = "ask"
  <2>1. PICK u \in Turns : u = m.id /\ op[u].thread \in Threads
    BY <1>4, <1>6 DEF Proper
  <2>2. HandleRequestUserInput(u) /\ UNCHANGED <<closing, ignored, requests>>
    BY <1>4, <1>6, <2>1 DEF Receive, tableVars
  <2>3. CASE turn' = Resumed(u) /\ UNCHANGED <<op, active, pending>>
    <3>1. \A w \in Turns : turn'[w] = turn[w] \/ (AtWork(w) /\ AtWork(w)')
      BY <2>3, Types DEF Resumed, AtWork, All
    <3>2. Onward /\ Overseen
      BY <1>1, <1>2, <2>2, Silent DEF Overseen
    <3>3. (\A p \in Ops : SameRole(p)) /\ \A v \in Threads : Closed(v)' <=> Closed(v)
      BY <2>2, <2>3 DEF SameRole, Closed
    <3> QED BY <2>2, <2>3, <3>1, <3>2, <3>3, MildAttends
  <2>4. CASE ~(turn' = Resumed(u) /\ UNCHANGED <<op, active, pending>>)
    <3>1. PICK t \in Threads, o \in Ops : /\ t = ThreadOf(u) /\ o = active[t] /\ op[o].turn \in {NULL, u}
                                          /\ ~Closed(t)
      BY <1>1, <2>1, <2>2, <2>4 DEF HandleRequestUserInput, ThreadOf
    <3>2. PICK result \in {"needsInput"} : result = "needsInput"
      OBVIOUS
    <3>3. /\ op' = [op EXCEPT ![o].turn = u, ![o].result = result] /\ result # NULL
          /\ active' = [active EXCEPT ![t] = NULL]
          /\ pending' = [pending EXCEPT ![t] = u] /\ UNCHANGED turn
      BY <2>2, <2>4, <3>1, <3>2, Numbers DEF HandleRequestUserInput, Results
    <3>4. Of(wire[1], u)
      BY <1>3, <1>6, <2>1 DEF Of
    <3>5. /\ op' = IF result = NULL THEN [op EXCEPT ![o].turn = u]
                                    ELSE [op EXCEPT ![o].turn = u, ![o].result = result]
          /\ active' = IF result = NULL THEN active ELSE [active EXCEPT ![t] = NULL]
          /\ pending' = IF result = "needsInput" THEN [pending EXCEPT ![t] = u] ELSE pending
          /\ UNCHANGED <<closing, ignored, turn, requests, link>>
          /\ result \in {NULL, "completed", "interrupted", "needsInput"}
          /\ result = "needsInput" => ~Closed(t)
          /\ result \in {"completed", "interrupted"} => Final(wire[1])
      BY <1>2, <2>2, <3>1, <3>2, <3>3
    <3>6. HeardBy(o, t, u, result)
      BY <1>1, <3>5, HeardIs
    <3>7. UNCHANGED <<closing, ignored, turn, requests, link>>
      BY <3>5
    <3> QED BY <1>1, <1>2, <3>1, <3>4, <3>5, <3>6, <3>7, HeardAttends
  <2> QED BY <2>3, <2>4
<1>7. CASE m.kind = "start"
  <2>1. op' = [op EXCEPT ![wire[1].id].sent = wire[1].status]
    BY <1>3, <1>4, <1>7 DEF Receive
  <2>2. UNCHANGED <<active, closing, pending, ignored, turn, requests>>
    BY <1>3, <1>4, <1>7 DEF Receive, tableVars, codexVars
  <2> QED BY <1>2, <1>3, <1>7, <2>1, <2>2, StartedAttends
<1>8. CASE m.kind \notin {"notice", "ask", "start"}
  <2>1. PICK kind \in ToThread \union ToOp : kind = m.kind
    BY <1>4, <1>8 DEF Messages
  <2>2. PICK id : id = m.id
    OBVIOUS
  <2>3. Acknowledged(kind, id)
    BY <1>4, <1>8, <2>1, <2>2 DEF Receive
  <2>4. /\ kind \in ToThread => id \in Threads
        /\ kind \in ToOp => id \in Ops
        /\ kind \in {"endTurn", "endInput", "unsubscribe"} => closing[id] # "no"
        /\ kind = "timeout" => op[id].sent = "over"
    BY <1>4, <2>1, <2>2 DEF Proper, Target
  <2>5. kind = "timeout" => op[id].thread # NULL
    BY <2>4 DEF All, Roles, OpRoles, ToOp
  <2>6. ASSUME kind = "timeout"
        PROVE  op[id].turn # NULL /\ turn[op[id].turn] = "over" /\ ~Told(op[id].turn)'
    <3>1. id \in Ops /\ op[id].turn # NULL /\ Last(1, op[id].turn)
      BY <1>3, <1>4, <2>1, <2>2, <2>4, <2>6 DEF WireOrder, ToOp
    <3>2. PICK u : u = op[id].turn
      OBVIOUS
    <3>3. ~Told(u)' /\ turn[u] = "over"
      BY <1>1, <1>2, <3>1, <3>2, ToldTail DEF Last
    <3>4. op'[id].turn = u
      <4>1. op' = [Finished(id, "timeout") EXCEPT ![id].timer = "over"]
        BY <2>3, <2>6 DEF Acknowledged, TimeIsUp
      <4> QED BY <1>1, <3>1, <3>2, <4>1 DEF Finished, OpType
    <3> QED BY <3>1, <3>2, <3>3, <3>4 DEF Told, Of
  <2> QED BY <1>2, <2>3, <2>4, <2>5, <2>6, AcknowledgeAttends
<1> QED BY <1>5, <1>6, <1>7, <1>8

LEMMA AnswerAttends ==
    ASSUME All, SInv', NEW o \in Ops, NEW t \in Threads, Answer(o, t)
    PROVE  Attended
<1>1. /\ SInv /\ op \in [Ops -> OpType] /\ active \in [Threads -> Ops \union {NULL}]
      /\ pending \in [Threads -> Ops \union {NULL}] /\ NULL \notin Ops /\ NULL \notin Threads
      /\ Turns = Ops
  BY Types DEF All
<1>2. PICK u \in Turns : u = pending[t] /\ u # NULL
  BY <1>1 DEF Answer
<1>3. /\ op[o] = Unused /\ ~Closed(t) /\ active[t] = NULL /\ Begin(o, t, "answer", u, "over", "on")
      /\ pending' = [pending EXCEPT ![t] = NULL] /\ turn' = Resumed(u)
      /\ UNCHANGED <<closing, ignored, requests, wire, link>>
  BY <1>2 DEF Answer, Following, tableVars, linkVars
<1>4. PICK q : q = [thread |-> t, kind |-> "answer", turn |-> u, sent |-> "over", timer |-> "on", result |-> NULL]
  OBVIOUS
<1>5. /\ op' = [op EXCEPT ![o] = q] /\ active' = [active EXCEPT ![t] = o]
      /\ q.thread = t /\ q.kind = "answer" /\ q.turn = u /\ q.sent = "over" /\ q.result = NULL
  BY <1>3, <1>4 DEF Begin
<1>6. /\ op'[o] = q /\ (\A p \in Ops : p # o => op'[p] = op[p])
      /\ \A v \in Threads : /\ active'[v] = IF v = t THEN o ELSE active[v]
                            /\ pending'[v] = IF v = t THEN NULL ELSE pending[v]
      /\ op[o].thread = NULL /\ op[o].turn = NULL /\ op[o].kind = NULL
  BY <1>1, <1>3, <1>5 DEF Unused
<1>7. \A w \in Turns : turn'[w] = turn[w] \/ (AtWork(w) /\ AtWork(w)')
  BY <1>3, Types DEF Resumed, AtWork, All
<1>8. Steady
  BY <1>1, <1>6, <1>7 DEF Steady
<1>9. Onward /\ Overseen
  BY <1>1, <1>3, Silent DEF Overseen
<1>10. OpRoles(o)'
  <2>1. IsTurn(u, t)
    BY <1>2 DEF All, Roles, ThreadRoles
  <2>2. IsTurn(u, t)'
    BY <1>1, <1>8, <2>1, SteadyTurns
  <2>3. IsTurn(op[o].turn, op[o].thread)'
    BY <1>5, <1>6, <2>2 DEF IsTurn, Started
  <2> QED BY <1>1, <1>2, <1>5, <1>6, <2>3 DEF OpRoles, Open, Done
<1>11. Roles'
  <2>1. \A v \in Threads : ThreadRoles(v)'
    <3>1. ASSUME NEW v \in Threads PROVE ThreadRoles(v)'
      <4>1. /\ pending'[v] \in {pending[v], NULL}
            /\ active'[v] \in {active[v], NULL} \/ pending'[v] = NULL
            /\ Closed(v)' => Closed(v)
        BY <1>3, <1>6 DEF Closed
      <4> QED BY <1>3, <1>8, <4>1, ThreadStays
    <3> QED BY <3>1
  <2>2. \A p \in Ops : SameRole(p) \/ OpRoles(p)'
    BY <1>6, <1>10 DEF SameRole
  <2>3. \A v \in Threads : active'[v] = active[v] \/ active[v] = NULL
    BY <1>3, <1>6
  <2> QED BY <1>3, <1>8, <2>1, <2>2, <2>3, RolesStay DEF All, Roles
<1>12. Order'
  BY <1>8, <1>9, OrderStays DEF Onward
<1>13. ASSUME NEW w \in Turns, op[w].kind = "send", ThreadOf(w) \in Threads
       PROVE  /\ ThreadOf(w)' = ThreadOf(w) /\ (Closed(ThreadOf(w))' <=> Closed(ThreadOf(w)))
              /\ Current(w) => Current(w)'
              /\ Dropped(w) => Dropped(w)'
  <2>1. PICK v \in Threads : v = op[w].thread /\ op'[w].thread = v /\ w # o /\ op'[w] = op[w]
    BY <1>1, <1>6, <1>8, <1>13, Numbers DEF Steady, ThreadOf
  <2>2. ASSUME Current(w) PROVE Current(w)'
    <3>1. CASE v = t
      <4>1. pending[t] = w
        BY <1>3, <2>1, <2>2, <3>1 DEF Current, ThreadOf
      <4>2. active'[t] = o /\ op'[o].turn = w
        BY <1>2, <1>5, <1>6, <4>1
      <4> QED BY <1>1, <2>1, <3>1, <4>2 DEF Current, ThreadOf
    <3>2. CASE v # t
      <4>1. active'[v] = active[v] /\ pending'[v] = pending[v]
        BY <1>6, <3>2
      <4>2. active[v] # NULL => active[v] \in Ops /\ op[active[v]].thread = v
        BY <1>1 DEF SInv, Books
      <4>3. active[v] # NULL => op'[active[v]] = op[active[v]]
        BY <1>1, <1>6, <4>2
      <4> QED BY <2>1, <2>2, <4>1, <4>3 DEF Current, ThreadOf
    <3> QED BY <3>1, <3>2
  <2>3. ThreadOf(w)' = v /\ ThreadOf(w) = v
    BY <2>1 DEF ThreadOf
  <2> QED BY <1>3, <2>1, <2>2, <2>3 DEF Closed, Dropped
<1>14. Minded'
  <2>1. \A w \in Turns :
           (/\ op[w].kind = "send" /\ ThreadOf(w) \in Threads
            /\ ~Closed(ThreadOf(w)) /\ Current(w) /\ (Alive(w) \/ Told(w)'))
               => Closed(ThreadOf(w))' \/ Current(w)'
    BY <1>13
  <2>2. \A w \in Turns :
           (/\ op[w].kind = "send" /\ ThreadOf(w) \in Threads /\ Alive(w) /\ Closed(ThreadOf(w))'
            /\ IF Closed(ThreadOf(w)) THEN Dropped(w) ELSE Current(w))
              => Dropped(w)'
    BY <1>13
  <2>3. (\A w \in ignored' : w \in ignored \/ Interrupted(w)') /\ \A v \in Threads : Closed(v) => Closed(v)'
    BY <1>3 DEF Closed
  <2> QED BY <1>8, <1>9, <2>1, <2>2, <2>3, MindedStays DEF Onward
<1> QED BY <1>11, <1>12, <1>14 DEF Attended

LEMMA SendAttends ==
    ASSUME All, SInv', NEW o \in Ops, NEW t \in Threads, Send(o, t)
    PROVE  Attended
<1>1. /\ SInv /\ op \in [Ops -> OpType] /\ active \in [Threads -> Ops \union {NULL}]
      /\ pending \in [Threads -> Ops \union {NULL}] /\ NULL \notin Ops /\ NULL \notin Threads
      /\ Turns = Ops
  BY Types DEF All
<1>2. /\ op[o] = Unused /\ ~Closed(t) /\ active[t] = NULL /\ pending[t] = NULL
      /\ Begin(o, t, "send", NULL, "requested", "off") /\ Sends(Ask("start", o, o))
      /\ UNCHANGED <<closing, pending, ignored, turn, wire, link>>
  BY DEF Send, SendBody, Following, tableVars, codexVars
<1>3. PICK q : q = [thread |-> t, kind |-> "send", turn |-> NULL, sent |-> "requested", timer |-> "off", result |-> NULL]
  OBVIOUS
<1>4. /\ op' = [op EXCEPT ![o] = q] /\ active' = [active EXCEPT ![t] = o]
      /\ q.thread = t /\ q.kind = "send" /\ q.turn = NULL /\ q.sent = "requested" /\ q.result = NULL
  BY <1>2, <1>3 DEF Begin
<1>5. /\ op'[o] = q /\ (\A p \in Ops : p # o => op'[p] = op[p])
      /\ \A v \in Threads : active'[v] = IF v = t THEN o ELSE active[v]
      /\ op[o].thread = NULL /\ op[o].turn = NULL /\ op[o].kind = NULL
  BY <1>1, <1>2, <1>4 DEF Unused
<1>6. Steady
  BY <1>1, <1>2, <1>5 DEF Steady
<1>7. ~Started(o) /\ ~Started(o)'
  BY <1>1, <1>2, <1>5 DEF Started, SInv, Flight
<1>8. Roles'
  <2>1. \A v \in Threads : ThreadRoles(v)'
    <3>1. ASSUME NEW v \in Threads PROVE ThreadRoles(v)'
      <4>1. /\ pending'[v] \in {pending[v], NULL}
            /\ active'[v] \in {active[v], NULL} \/ pending'[v] = NULL
            /\ Closed(v)' => Closed(v)
        BY <1>2, <1>5 DEF Closed
      <4> QED BY <1>2, <1>6, <4>1, ThreadStays
    <3> QED BY <3>1
  <2>2. OpRoles(o)'
    BY <1>1, <1>4, <1>5, <1>7 DEF OpRoles, Open, Done
  <2>3. \A p \in Ops : SameRole(p) \/ OpRoles(p)'
    BY <1>5, <2>2 DEF SameRole
  <2>4. \A v \in Threads : active'[v] = active[v] \/ active[v] = NULL
    BY <1>2, <1>5
  <2> QED BY <1>2, <1>6, <2>1, <2>3, <2>4, RolesStay DEF All, Roles
<1>9. PICK r : r = Ask("start", o, o)
  OBVIOUS
<1>10. r.kind = "start" /\ r.id = o /\ requests' = IF link = "up" THEN requests \union {r} ELSE requests
  BY <1>2, <1>9 DEF Ask, Sends
<1>11. Order'
  <2>1. RequestOrder(r)'
    BY <1>4, <1>5, <1>7, <1>10 DEF RequestOrder
  <2>2. \A s \in requests' : s \in requests \/ RequestOrder(s)'
    BY <1>10, <2>1
  <2> QED BY <1>2, <1>6, <2>2, OrderStays
<1>12. ASSUME link = "up" PROVE Minded'
  <2>1. Minded /\ requests' = requests \union {r}
    BY <1>10, <1>12 DEF All
  <2>2. ASSUME NEW w \in Turns, Alive(w) \/ Told(w)
        PROVE  /\ w # o /\ op'[w] = op[w] /\ op[w].thread \in Threads /\ op[w].thread # t
               /\ ThreadOf(w)' = ThreadOf(w) /\ (Current(w) => Current(w)')
    <3>1. op[w].thread \in Threads /\ op[w].kind = "send"
      BY <2>2, SendTurns DEF ThreadOf
    <3>2. w # o /\ op'[w] = op[w]
      BY <1>1, <1>5, <3>1
    <3>3. op[w].thread # t
      <4>1. ASSUME op[w].thread = t PROVE FALSE
        <5>1. Current(w)
          BY <1>2, <1>12, <2>1, <2>2, <4>1 DEF Minded, ThreadOf
        <5> QED BY <1>1, <1>2, <4>1, <5>1 DEF Current, ThreadOf
      <4> QED BY <4>1
    <3>4. PICK v \in Threads : v = op[w].thread /\ v # t
      BY <3>1, <3>3
    <3>5. active'[v] = active[v] /\ pending'[v] = pending[v]
      BY <1>2, <1>5, <3>4
    <3>6. active[v] # NULL => active[v] \in Ops /\ op[active[v]].thread = v
      BY <1>1, <3>4 DEF SInv, Books
    <3>7. active[v] # NULL => op'[active[v]] = op[active[v]]
      BY <1>1, <1>5, <3>6
    <3>8. Current(w) => Current(w)'
      BY <3>2, <3>4, <3>5, <3>7 DEF Current, ThreadOf
    <3> QED BY <3>1, <3>2, <3>3, <3>8 DEF ThreadOf
  <2>3. ASSUME NEW w \in Turns PROVE (Alive(w)' => Alive(w) \/ w = o) /\ (Told(w)' => Told(w))
    BY <1>2, <1>10, <2>1 DEF Alive, AtWork, Requested, Told, Of
  <2>4. ThreadOf(o)' = t /\ Current(o)' /\ ~Closed(t)'
    BY <1>1, <1>2, <1>4, <1>5 DEF ThreadOf, Current, Closed
  <2>5. ASSUME NEW w \in Turns, Alive(w)' \/ Told(w)' PROVE Closed(ThreadOf(w))' \/ Current(w)'
    <3>1. CASE w = o
      BY <2>4, <3>1
    <3>2. CASE w # o
      <4>1. Alive(w) \/ Told(w)
        BY <2>3, <2>5, <3>2
      <4>2. Closed(ThreadOf(w)) \/ Current(w)
        BY <1>12, <2>1, <4>1 DEF Minded
      <4> QED BY <1>2, <2>2, <4>1, <4>2 DEF Closed
    <3> QED BY <3>1, <3>2
  <2>6. ASSUME NEW w \in Turns, Alive(w)', Closed(ThreadOf(w))' PROVE Dropped(w)'
    <3>1. w # o
      BY <2>4, <2>6 DEF Closed
    <3>2. Alive(w) /\ Closed(ThreadOf(w))
      BY <1>2, <2>2, <2>3, <2>6, <3>1 DEF Closed
    <3> QED BY <1>2, <1>12, <2>1, <2>2, <3>2 DEF Minded, Dropped
  <2>7. ASSUME NEW u \in Turns, NEW w \in Turns, Alive(u)', Alive(w)', ThreadOf(u)' = ThreadOf(w)' PROVE u = w
    <3>1. ASSUME NEW x \in Turns, Alive(x)', x # o PROVE Alive(x) /\ ThreadOf(x)' # t /\ ThreadOf(x)' = ThreadOf(x)
      BY <2>2, <2>3, <3>1 DEF ThreadOf
    <3> QED BY <1>12, <2>1, <2>4, <2>7, <3>1 DEF Minded
  <2>8. ASSUME NEW w \in ignored', AtWork(w)' PROVE Interrupted(w)'
    <3>1. Interrupted(w)
      BY <1>2, <1>12, <2>1, <2>8 DEF Minded, AtWork
    <3> QED BY <2>1, <3>1 DEF Interrupted
  <2> QED BY <2>5, <2>6, <2>7, <2>8 DEF Minded
<1>13. Minded'
  BY <1>2, <1>12 DEF Minded
<1> QED BY <1>8, <1>11, <1>13 DEF Attended

(* Codex starts, ends or goes on with a turn and says so.                   *)
SaidRightly(w) ==
    \A i \in 1..Len(w) :
       /\ \A u \in Turns : Of(w[i], u) => Alive(u) /\ Started(u)'
       /\ w[i].kind = "start" => op[w[i].id].kind = "send" /\ (w[i].status = "accepted" <=> Started(w[i].id)')
       /\ Final(w[i]) => turn'[w[i].id] = "over" /\ \A j \in 1..Len(w) : i < j => ~Of(w[j], w[i].id)
       /\ w[i].kind = "timeout" => /\ op[w[i].id].turn # NULL /\ turn'[op[w[i].id].turn] = "over"
                                   /\ \A j \in 1..Len(w) : i < j => ~Of(w[j], op[w[i].id].turn)

LEMMA SpeaksAttends ==
    ASSUME All, SInv', UNCHANGED <<op, active, closing, pending, ignored, link>>, link = "up",
           requests' \subseteq requests,
           \A u \in Turns : /\ Started(u) => Started(u)'
                            /\ turn[u] = "over" => turn'[u] = "over"
                            /\ Started(u)' => Started(u) \/ (Requested(u) /\ ~Requested(u)')
                            /\ AtWork(u)' => Alive(u),
           NEW w \in Seq(Messages), wire' = wire \o w, SaidRightly(w),
           \A u \in ignored : AtWork(u)' => Interrupted(u)'
    PROVE  Attended
<1>1. /\ SInv /\ WireInv /\ StartsOnce /\ RequestInv /\ wire \in Seq(Messages) /\ Roles /\ Order /\ Minded
      /\ Turns = Ops /\ NULL \notin Ops /\ NULL \notin Threads
  BY Types DEF All, SInv, Flight, WireInv, WireOK
<1>2. PICK n \in Nat, k \in Nat : n = Len(wire) /\ k = Len(w)
  BY <1>1
<1>3. /\ wire' \in Seq(Messages) /\ Len(wire') = n + k
      /\ \A i \in 1..(n + k) : wire'[i] = IF i <= n THEN wire[i] ELSE w[i - n]
  BY <1>1, <1>2
<1>4. \A i \in 1..(n + k) : IF i <= n THEN i \in 1..n ELSE i - n \in 1..k
  BY <1>2
<1>5. \A u \in Turns : Requested(u) => op[u].sent = "requested" /\ op[u].kind = "send" /\ ~Started(u)
  BY <1>1 DEF Requested, RequestInv, Target, Order, RequestOrder
<1>6. ASSUME NEW u, NEW t, u \in Turns, IsTurn(u, t) PROVE IsTurn(u, t)'
  BY <1>6 DEF IsTurn
<1>7. Roles'
  <2>1. ASSUME NEW o \in Ops PROVE OpRoles(o)' /\ (Started(o)' => op'[o].kind = "send")
    <3>1. OpRoles(o) /\ (Started(o) => op[o].kind = "send")
      BY <1>1 DEF Roles
    <3>2. Started(o)' => op[o].kind = "send" /\ op[o].sent # "refused"
      BY <1>1, <1>5, <3>1 DEF OpRoles
    <3>3. op[o].turn # NULL => IsTurn(op[o].turn, op[o].thread)'
      <4>1. ASSUME op[o].turn # NULL PROVE IsTurn(op[o].turn, op[o].thread)'
        <5>1. PICK u, t : u = op[o].turn /\ t = op[o].thread /\ u \in Turns /\ IsTurn(u, t)
          BY <1>1, <3>1, <4>1, Types DEF OpRoles
        <5>2. IsTurn(u, t)'
          BY <1>6, <5>1
        <5> QED BY <5>1, <5>2 DEF IsTurn, Started
      <4> QED BY <4>1
    <3>4. Started(o) => Started(o)'
      BY <1>1
    <3> QED BY <3>1, <3>2, <3>3, <3>4 DEF OpRoles, Open, Done
  <2>2. ASSUME NEW t \in Threads PROVE ThreadRoles(t)'
    <3>1. ThreadRoles(t)
      BY <1>1 DEF Roles
    <3>2. ASSUME pending[t] # NULL PROVE IsTurn(pending[t], t)'
      <4>1. PICK u \in Turns : u = pending[t] /\ IsTurn(u, t)
        BY <1>1, <3>1, <3>2, Types DEF ThreadRoles
      <4>2. IsTurn(u, t)'
        BY <1>6, <4>1
      <4> QED BY <4>1, <4>2 DEF IsTurn, Started
    <3> QED BY <3>1, <3>2 DEF ThreadRoles, Closed
  <2>3. \A u \in ignored' : Started(u)'
    BY <1>1, Types DEF Roles
  <2> QED BY <2>1, <2>2, <2>3 DEF Roles
<1>8. ASSUME NEW r \in requests' PROVE RequestOrder(r)'
  <2>1. r \in requests /\ RequestOrder(r) /\ Target(r, op, closing)
    BY <1>1 DEF Order, RequestInv
  <2>2. ASSUME r.kind = "start" PROVE ~Started(r.id)'
    <3>1. r.id \in Turns /\ ~Started(r.id) /\ Requested(r.id)'
      BY <1>1, <2>1, <2>2 DEF Target, RequestOrder, Requested
    <3> QED BY <3>1
  <2> QED BY <2>1, <2>2 DEF RequestOrder
<1>9. ASSUME NEW u, u \in Turns, turn[u] = "over"
      PROVE  ~Alive(u) /\ turn'[u] = "over" /\ \A j \in 1..k : ~Of(w[j], u)
  <2>1. ~Alive(u) /\ turn'[u] = "over"
    BY <1>5, <1>9 DEF Alive, AtWork, Started
  <2> QED BY <1>2, <1>9, <2>1 DEF SaidRightly
<1>10. ASSUME NEW i \in 1..n, NEW u, u \in Turns, Last(i, u) PROVE Last(i, u)'
  <2>1. turn'[u] = "over"
    BY <1>9, <1>10 DEF Last
  <2>2. ASSUME NEW j \in 1..(n + k), i < j PROVE ~Of(wire'[j], u)
    <3>1. CASE j <= n
      BY <1>2, <1>3, <1>4, <1>10, <2>2, <3>1 DEF Last
    <3>2. CASE ~(j <= n)
      BY <1>3, <1>4, <1>9, <1>10, <3>2 DEF Last
    <3> QED BY <3>1, <3>2
  <2>3. \A j \in 1..Len(wire') : i < j => ~Of(wire'[j], u)
    BY <1>3, <2>2
  <2> QED BY <2>1, <2>3 DEF Last, Of
<1>11. ASSUME NEW i \in 1..n PROVE WireOrder(i)'
  <2>1. PICK m : m = wire'[i] /\ m = wire[i]
    BY <1>2, <1>3
  <2>2. WireOrder(i) /\ Proper(m, op, closing)
    BY <1>1, <1>2, <2>1 DEF Order, WireInv, WireOK
  <2>3. ASSUME m.kind = "start"
        PROVE  op'[m.id].kind = "send" /\ (m.status = "accepted" <=> Started(m.id)')
    <3>1. m.id \in Turns /\ op[m.id].kind = "send" /\ (m.status = "accepted" <=> Started(m.id))
      BY <1>1, <2>1, <2>2, <2>3 DEF Proper, Target, WireOrder
    <3>2. ~Requested(m.id)
      BY <1>1, <1>2, <2>1, <2>3 DEF Requested, StartsOnce, Once
    <3> QED BY <3>1, <3>2
  <2>4. ASSUME m.kind \in {"notice", "ask"} PROVE IsTurn(m.id, ThreadOf(m.id))'
    <3>1. PICK u, t : u = m.id /\ t = ThreadOf(u) /\ u \in Turns /\ IsTurn(u, t)
      BY <2>1, <2>2, <2>4 DEF Proper, WireOrder
    <3>2. IsTurn(u, t)'
      BY <1>6, <3>1
    <3> QED BY <3>1, <3>2 DEF ThreadOf, IsTurn, Started
  <2>5. ASSUME Final(m) PROVE Last(i, m.id)'
    <3>1. PICK u \in Turns : u = m.id
      BY <2>2, <2>5 DEF Proper, Final
    <3>2. Last(i, u)
      BY <2>1, <2>2, <2>5, <3>1 DEF WireOrder
    <3>3. Last(i, u)'
      BY <1>10, <3>2
    <3> QED BY <3>1, <3>3
  <2>6. ASSUME m.kind = "timeout" PROVE op'[m.id].turn # NULL /\ Last(i, op[m.id].turn)'
    <3>1. m.id \in Ops /\ op[m.id].turn # NULL /\ Last(i, op[m.id].turn)
      BY <2>1, <2>2, <2>6 DEF Proper, Target, ToOp, WireOrder
    <3>2. PICK u : u = op[m.id].turn /\ u \in Turns
      BY <1>1, <3>1, Types
    <3>3. Last(i, u)'
      BY <1>10, <3>1, <3>2
    <3> QED BY <3>1, <3>2, <3>3 DEF Last, Of
  <2>7. m = wire'[i]
    BY <2>1
  <2> QED BY <2>3, <2>4, <2>5, <2>6, <2>7 DEF WireOrder, Final
<1>12. ASSUME NEW i \in (n + 1)..(n + k) PROVE WireOrder(i)'
  <2>1. PICK x \in 1..k : x = i - n
    BY <1>2
  <2>2. PICK m : m = wire'[i] /\ m = w[x] /\ i \in 1..(n + k)
    BY <1>2, <1>3, <2>1
  <2>3. Proper(m, op, closing)
    BY <1>3, <2>2 DEF SInv, Flight, WireInv, WireOK
  <2>4. ASSUME NEW u, \A j \in 1..k : x < j => ~Of(w[j], u), NEW j \in 1..(n + k), i < j
        PROVE ~Of(wire'[j], u)
    <3>1. ~(j <= n) /\ j - n \in 1..k /\ x < j - n
      BY <1>2, <1>4, <2>1, <2>4
    <3> QED BY <1>3, <2>4, <3>1
  <2>5. ASSUME m.kind \in {"notice", "ask"} PROVE IsTurn(m.id, ThreadOf(m.id))'
    <3>1. PICK u \in Turns : u = m.id
      BY <2>3, <2>5 DEF Proper
    <3>2. Alive(u) /\ Started(u)'
      BY <1>2, <2>2, <2>5, <3>1 DEF SaidRightly, Of
    <3>3. op[u].kind = "send"
      BY <3>2, SendTurns
    <3>4. IsTurn(u, ThreadOf(u))'
      BY <3>2, <3>3 DEF IsTurn, ThreadOf
    <3> QED BY <3>1, <3>4
  <2>6. ASSUME Final(m) PROVE Last(i, m.id)'
    <3>1. PICK u : u = m.id /\ turn'[u] = "over" /\ \A j \in 1..k : x < j => ~Of(w[j], u)
      BY <1>2, <2>2, <2>6 DEF SaidRightly
    <3>2. \A j \in 1..Len(wire') : i < j => ~Of(wire'[j], u)
      BY <1>3, <2>4, <3>1
    <3>3. Last(i, u)'
      BY <3>1, <3>2 DEF Last, Of
    <3> QED BY <3>1, <3>3
  <2>7. ASSUME m.kind = "timeout" PROVE op'[m.id].turn # NULL /\ Last(i, op[m.id].turn)'
    <3>1. PICK u : u = op[m.id].turn /\ u # NULL /\ turn'[u] = "over" /\ \A j \in 1..k : x < j => ~Of(w[j], u)
      BY <1>2, <2>2, <2>7 DEF SaidRightly
    <3>2. \A j \in 1..Len(wire') : i < j => ~Of(wire'[j], u)
      BY <1>3, <2>4, <3>1
    <3>3. Last(i, u)'
      BY <3>1, <3>2 DEF Last, Of
    <3> QED BY <3>1, <3>3 DEF Last, Of
  <2>8. ASSUME m.kind = "start"
        PROVE  op'[m.id].kind = "send" /\ (m.status = "accepted" <=> Started(m.id)')
    BY <1>2, <2>2, <2>8 DEF SaidRightly
  <2>9. m = wire'[i]
    BY <2>2
  <2> QED BY <2>5, <2>6, <2>7, <2>8, <2>9 DEF WireOrder, Final
<1>13. Order'
  <2>1. ASSUME NEW i \in 1..Len(wire') PROVE WireOrder(i)'
    <3>1. i \in 1..n \/ i \in (n + 1)..(n + k)
      BY <1>2, <1>3
    <3> QED BY <1>11, <1>12, <3>1
  <2> QED BY <1>8, <2>1 DEF Order
<1>14. ASSUME NEW u \in Turns
       PROVE  /\ Alive(u)' => Alive(u)
              /\ Told(u)' => Told(u) \/ Alive(u)
              /\ ThreadOf(u)' = ThreadOf(u) /\ (Current(u)' <=> Current(u)) /\ (Dropped(u)' <=> Dropped(u))
  <2>1. Alive(u)' => Alive(u)
    BY DEF Alive, Requested
  <2>2. ASSUME Told(u)' PROVE Told(u) \/ Alive(u)
    <3>1. PICK i \in 1..(n + k) : Of(wire'[i], u)
      BY <1>3, <2>2 DEF Told, Of
    <3>2. CASE i <= n
      BY <1>2, <1>3, <1>4, <3>1, <3>2 DEF Told
    <3>3. CASE ~(i <= n)
      BY <1>2, <1>3, <1>4, <3>1, <3>3 DEF SaidRightly
    <3> QED BY <3>2, <3>3
  <2> QED BY <2>1, <2>2 DEF ThreadOf, Current, Dropped
<1>15. Minded'
  <2>1. \A u \in Turns : Closed(ThreadOf(u))' <=> Closed(ThreadOf(u))
    BY <1>14 DEF Closed
  <2>2. \A u \in ignored' : AtWork(u)' => Interrupted(u)'
    OBVIOUS
  <2> QED BY <1>1, <1>14, <2>1, <2>2 DEF Minded
<1> QED BY <1>7, <1>13, <1>15 DEF Attended

LEMMA CreateAttends ==
    ASSUME All, SInv', NEW t \in Threads, NEW k \in Keys, Create(t, k)
    PROVE  Attended
<1>1. UNCHANGED <<op, active, closing, pending, ignored, turn, wire, link>> /\ Sends(Ask("create", t, NULL))
  BY DEF Create, tableVars, opVars, codexVars
<1>2. PICK r : r = Ask("create", t, NULL)
  OBVIOUS
<1>3. r.kind = "create" /\ Sends(r)
  BY <1>1, <1>2 DEF Ask
<1>4. Onward
  BY <1>1, <1>3, Onwards DEF All
<1>5. Overseen /\ (\A p \in Ops : SameRole(p)) /\ (\A v \in Threads : Closed(v)' <=> Closed(v))
  BY <1>1 DEF Overseen, SameRole, Closed
<1> QED BY <1>1, <1>4, <1>5, MildAttends

LEMMA Pair ==
    ASSUME NEW m \in Messages, NEW x \in Messages
    PROVE  /\ <<m, x>> \in Seq(Messages)
           /\ \A i \in 1..Len(<<m, x>>) : (i = 1 /\ <<m, x>>[i] = m) \/ (i = 2 /\ <<m, x>>[i] = x)
<1>1. <<m, x>> \in Seq(Messages) /\ Len(<<m, x>>) = 2 /\ <<m, x>>[1] = m /\ <<m, x>>[2] = x
  OBVIOUS
<1>2. \A i \in 1..2 : i = 1 \/ i = 2
  OBVIOUS
<1> QED BY <1>1, <1>2

LEMMA Single ==
    ASSUME NEW m \in Messages
    PROVE  /\ <<m>> \in Seq(Messages)
           /\ \A i \in 1..Len(<<m>>) : i = 1 /\ <<m>>[i] = m
<1>1. <<m>> \in Seq(Messages) /\ Len(<<m>>) = 1 /\ <<m>>[1] = m
  OBVIOUS
<1>2. \A i \in 1..1 : i = 1
  OBVIOUS
<1> QED BY <1>1, <1>2

(* EndTurn and AskOwner.                                                    *)
LEMMA CodexAttends ==
    ASSUME All, SInv', NEW u \in Turns, AskOwner(u) \/ EndTurn(u, "completed") \/ EndTurn(u, "interrupted")
    PROVE  Attended
<1>1. /\ wire \in Seq(Messages) /\ turn[u] = "running" /\ u \in Nat
      /\ turn \in [Turns -> {"none", "running", "asking", "over"}]
      /\ UNCHANGED <<op, active, closing, pending, ignored, requests, link>> /\ link = "up"
      /\ Minded /\ ignored \subseteq Turns
  BY Types, Numbers DEF All, SInv, Flight, WireInv, WireOK, AskOwner, EndTurn, Room, tableVars, opVars
<1>2. PICK x \in Messages :
         /\ wire' = Append(wire, x) /\ x.id = u
         /\ \/ x.kind = "ask" /\ turn' = [turn EXCEPT ![u] = "asking"]
            \/ x.kind = "notice" /\ turn' = [turn EXCEPT ![u] = "over"]
  <2>1. CASE AskOwner(u)
    <3>1. PICK kind \in ToThread \union ToOp \union {"start", "notice", "ask"} : kind = "ask"
      OBVIOUS
    <3>2. PICK x : x = Message("ask", u, NULL)
      OBVIOUS
    <3>3. x \in Messages /\ x.kind = "ask" /\ x.id = u
      BY <1>1, <3>1, <3>2, MessageFacts
    <3> QED BY <2>1, <3>2, <3>3 DEF AskOwner
  <2>2. CASE ~AskOwner(u)
    <3>1. PICK status \in {"completed", "interrupted"} : EndTurn(u, status)
      BY <2>2
    <3>2. PICK kind \in ToThread \union ToOp \union {"start", "notice", "ask"} : kind = "notice"
      OBVIOUS
    <3>3. PICK x : x = Message("notice", u, status)
      OBVIOUS
    <3>4. x \in Messages /\ x.kind = "notice" /\ x.id = u
      BY <1>1, <3>2, <3>3, MessageFacts
    <3> QED BY <3>1, <3>3, <3>4 DEF EndTurn
  <2> QED BY <2>1, <2>2
<1>3. PICK w : w = <<x>>
  OBVIOUS
<1>4. w \in Seq(Messages) /\ wire' = wire \o w /\ \A i \in 1..Len(w) : i = 1 /\ w[i] = x
  BY <1>1, <1>2, <1>3, Single
<1>5. \A v \in Turns : v # u => turn'[v] = turn[v]
  BY <1>1, <1>2
<1>6. turn'[u] \in {"asking", "over"} /\ (x.kind = "notice" => turn'[u] = "over")
  BY <1>1, <1>2
<1>7. \A v \in Turns : /\ Started(v) => Started(v)'
                       /\ turn[v] = "over" => turn'[v] = "over"
                       /\ Started(v)' => Started(v)
                       /\ AtWork(v)' => AtWork(v)
  BY <1>1, <1>5, <1>6 DEF Started, AtWork
<1>8. SaidRightly(w)
  <2>1. Alive(u) /\ Started(u)'
    BY <1>1, <1>6 DEF Alive, AtWork, Started
  <2>2. \A v : Of(x, v) => v = u
    BY <1>2 DEF Of
  <2> QED BY <1>2, <1>4, <1>6, <2>1, <2>2 DEF SaidRightly, Final
<1>9. \A v \in ignored : AtWork(v)' => Interrupted(v)'
  BY <1>1, <1>7 DEF Minded, Interrupted
<1>10. requests' \subseteq requests /\ \A v \in Turns : AtWork(v)' => Alive(v)
  BY <1>1, <1>7 DEF Alive
<1> QED BY <1>1, <1>4, <1>7, <1>8, <1>9, <1>10, SpeaksAttends

LEMMA RefuseAttends ==
    ASSUME All, SInv', NEW r \in requests, Refuse(r)
    PROVE  Attended
<1>1. /\ wire \in Seq(Messages) /\ Minded /\ Target(r, op, closing) /\ r.kind = "start" /\ RequestOrder(r)
      /\ UNCHANGED <<op, active, closing, pending, ignored, turn, link>> /\ link = "up"
      /\ requests' = requests \ {r} /\ wire' = Append(wire, Message("start", r.id, "refused"))
  BY DEF All, Order, SInv, Flight, RequestInv, WireInv, WireOK, Refuse, Room, tableVars, opVars, codexVars
<1>2. r.id \in Turns /\ r.id \in Nat /\ op[r.id].kind = "send" /\ ~Started(r.id)
  BY <1>1, Numbers DEF Target, RequestOrder, Turns
<1>3. PICK x : x = Message("start", r.id, "refused")
  OBVIOUS
<1>4. x \in Messages /\ x.kind = "start" /\ x.id = r.id /\ x.status = "refused"
  BY <1>2, <1>3, MessageFacts
<1>5. PICK w : w = <<x>>
  OBVIOUS
<1>6. w \in Seq(Messages) /\ wire' = wire \o w /\ \A i \in 1..Len(w) : i = 1 /\ w[i] = x
  BY <1>1, <1>3, <1>4, <1>5, Single
<1>7. SaidRightly(w)
  BY <1>1, <1>2, <1>4, <1>6 DEF SaidRightly, Final, Of, Started
<1>8. \A v \in ignored : AtWork(v)' => Interrupted(v)'
  BY <1>1 DEF Minded, Interrupted, AtWork
<1>9. \A v \in Turns : /\ Started(v) => Started(v)'
                       /\ turn[v] = "over" => turn'[v] = "over"
                       /\ Started(v)' => Started(v)
                       /\ AtWork(v)' => Alive(v)
  BY <1>1 DEF Started, AtWork, Alive
<1>10. requests' \subseteq requests
  BY <1>1
<1> QED BY <1>1, <1>6, <1>7, <1>8, <1>9, <1>10, SpeaksAttends

LEMMA ServeAttends ==
    ASSUME All, SInv', NEW r \in requests, Serve(r)
    PROVE  Attended
<1>1. /\ turn \in [Turns -> {"none", "running", "asking", "over"}] /\ wire \in Seq(Messages)
      /\ r.kind \in ToThread \union ToOp \union {"start"} /\ Target(r, op, closing) /\ RequestOrder(r)
      /\ r.turn \in Turns \union {NULL} /\ (r.kind = "start" => r.turn = r.id)
      /\ StartsOnce /\ Minded /\ ignored \subseteq Turns /\ Turns = Ops /\ NULL \notin Ops
      /\ \A v \in ignored : Started(v)
  BY Types DEF All, Roles, Order, SInv, Flight, RequestInv, WireInv, WireOK
<1>2. /\ UNCHANGED <<op, active, closing, pending, ignored, link>> /\ link = "up"
      /\ requests' = requests \ {r} /\ requests' \subseteq requests
  BY DEF Serve, Room, tableVars, opVars
<1>3. CASE r.kind = "start"
  <2>1. PICK u \in Turns : u = r.id /\ u = r.turn /\ op[u].kind = "send" /\ ~Started(u)
    BY <1>1, <1>3 DEF Target, RequestOrder
  <2>2. PICK m, x : m = Message("start", r.id, "accepted") /\ x = Message("notice", r.turn, "started")
    OBVIOUS
  <2>3. /\ turn' = [turn EXCEPT ![u] = "running"] /\ wire' = wire \o <<m, x>>
    BY <1>3, <2>1, <2>2 DEF Serve
  <2>4. /\ m \in Messages /\ m.kind = "start" /\ m.id = u /\ m.status = "accepted"
        /\ x \in Messages /\ x.kind = "notice" /\ x.id = u /\ x.status = "started"
    <3>1. u \in Nat /\ m = Message("start", u, "accepted") /\ x = Message("notice", u, "started")
      BY <2>1, <2>2, Numbers
    <3>2. PICK kind \in ToThread \union ToOp \union {"start", "notice", "ask"} : kind = "start"
      OBVIOUS
    <3>3. PICK call \in ToThread \union ToOp \union {"start", "notice", "ask"} : call = "notice"
      OBVIOUS
    <3> QED BY <3>1, <3>2, <3>3, MessageFacts
  <2>5. PICK w : w = <<m, x>>
    OBVIOUS
  <2>6. /\ w \in Seq(Messages) /\ wire' = wire \o w
        /\ \A i \in 1..Len(w) : (i = 1 /\ w[i] = m) \/ (i = 2 /\ w[i] = x)
    BY <2>3, <2>4, <2>5, Pair
  <2>7. turn'[u] = "running" /\ \A v \in Turns : v # u => turn'[v] = turn[v]
    BY <1>1, <2>3
  <2>8. Requested(u) /\ ~Requested(u)'
    BY <1>1, <1>2, <1>3, <2>1 DEF Requested, StartsOnce, Once
  <2>9. \A v \in Turns : /\ Started(v) => Started(v)'
                         /\ turn[v] = "over" => turn'[v] = "over"
                         /\ Started(v)' => Started(v) \/ (Requested(v) /\ ~Requested(v)')
                         /\ AtWork(v)' => Alive(v)
    BY <2>1, <2>7, <2>8 DEF Started, AtWork, Alive
  <2>10. SaidRightly(w)
    <3>1. Alive(u) /\ Started(u)'
      BY <2>7, <2>8 DEF Alive, Started
    <3>2. ~Final(m) /\ ~Final(x) /\ (\A v : ~Of(m, v)) /\ \A v : Of(x, v) => v = u
      BY <2>4 DEF Final, Of
    <3> QED BY <2>1, <2>4, <2>6, <3>1, <3>2 DEF SaidRightly
  <2>11. \A v \in ignored : AtWork(v)' => Interrupted(v)'
    <3>1. ASSUME NEW v \in ignored, AtWork(v)' PROVE Interrupted(v)'
      <4>1. v # u /\ AtWork(v)
        BY <1>1, <2>1, <2>7, <3>1 DEF AtWork
      <4>2. Interrupted(v)
        BY <1>1, <1>2, <4>1 DEF Minded
      <4> QED BY <1>2, <1>3, <4>2 DEF Interrupted
    <3> QED BY <3>1
  <2> QED BY <1>2, <2>6, <2>9, <2>10, <2>11, SpeaksAttends
<1>4. CASE r.kind # "start"
  <2>1. PICK x : x = Message(r.kind, r.id, NULL)
    OBVIOUS
  <2>2. x \in Messages /\ x.kind = r.kind /\ x.id = r.id
    <3>1. r.id \in Nat
      BY <1>1, <1>4, Numbers DEF Target
    <3> QED BY <1>1, <2>1, <3>1, MessageFacts
  <2>3. /\ x.kind \notin {"start", "notice", "ask"} /\ ~Final(x) /\ \A v : ~Of(x, v)
    BY <1>1, <1>4, <2>2 DEF Final, Of, ToThread, ToOp
  <2>4. x.kind = "timeout" => op[x.id].turn # NULL /\ op[x.id].turn = r.turn /\ Started(r.turn)
    <3>1. ASSUME r.kind = "timeout" PROVE op[r.id].turn # NULL /\ op[r.id].turn = r.turn /\ Started(r.turn)
      <4>1. r.id \in Ops /\ op[r.id].turn # NULL /\ op[r.id].turn = r.turn
        BY <1>1, <3>1 DEF Target, RequestOrder, ToOp
      <4> QED BY <4>1 DEF All, Roles, OpRoles, IsTurn
    <3> QED BY <2>2, <3>1
  <2>5. CASE r.turn # NULL /\ turn[r.turn] \in {"running", "asking"}
    <3>1. PICK u \in Turns : u = r.turn /\ AtWork(u)
      BY <1>1, <2>5 DEF AtWork
    <3>2. PICK m : m = Message("notice", r.turn, "interrupted")
      OBVIOUS
    <3>3. /\ turn' = [turn EXCEPT ![u] = "over"] /\ wire' = wire \o <<m, x>>
      BY <1>4, <2>1, <2>5, <3>1, <3>2 DEF Serve
    <3>4. m \in Messages /\ m.kind = "notice" /\ m.id = u
      <4>1. u \in Nat /\ m = Message("notice", u, "interrupted")
        BY <3>1, <3>2, Numbers
      <4>2. PICK kind \in ToThread \union ToOp \union {"start", "notice", "ask"} : kind = "notice"
        OBVIOUS
      <4> QED BY <4>1, <4>2, MessageFacts
    <3>5. PICK w : w = <<m, x>>
      OBVIOUS
    <3>6. /\ w \in Seq(Messages) /\ wire' = wire \o w
          /\ \A i \in 1..Len(w) : (i = 1 /\ w[i] = m) \/ (i = 2 /\ w[i] = x)
      BY <2>2, <3>3, <3>4, <3>5, Pair
    <3>7. turn'[u] = "over" /\ \A v \in Turns : v # u => turn'[v] = turn[v]
      BY <1>1, <3>3
    <3>8. \A v \in Turns : /\ Started(v) => Started(v)'
                           /\ turn[v] = "over" => turn'[v] = "over"
                           /\ Started(v)' => Started(v)
                           /\ AtWork(v)' => AtWork(v) /\ v # u
      BY <3>1, <3>7 DEF Started, AtWork
    <3>9. SaidRightly(w)
      <4>1. Alive(u) /\ Started(u)'
        BY <3>1, <3>7 DEF Alive, Started
      <4>2. (\A v : Of(m, v) => v = u) /\ (x.kind = "timeout" => op[x.id].turn = u /\ u # NULL)
        BY <1>1, <2>4, <3>1, <3>4 DEF Of
      <4>3. m.kind # "start" /\ m.kind # "timeout"
        BY <3>4
      <4>4. ASSUME NEW i \in 1..Len(w)
            PROVE  /\ \A v \in Turns : Of(w[i], v) => Alive(v) /\ Started(v)'
                   /\ w[i].kind # "start"
                   /\ Final(w[i]) => turn'[w[i].id] = "over" /\ \A j \in 1..Len(w) : i < j => ~Of(w[j], w[i].id)
                   /\ w[i].kind = "timeout" => /\ op[w[i].id].turn # NULL /\ turn'[op[w[i].id].turn] = "over"
                                               /\ \A j \in 1..Len(w) : i < j => ~Of(w[j], op[w[i].id].turn)
        <5>1. CASE i = 1 /\ w[i] = m
          <6>1. \A j \in 1..Len(w) : i < j => w[j] = x
            BY <3>6, <5>1
          <6> QED BY <2>3, <3>4, <3>7, <4>1, <4>2, <4>3, <5>1, <6>1
        <5>2. CASE i = 2 /\ w[i] = x
          <6>1. \A j \in 1..Len(w) : ~(i < j)
            BY <3>6, <5>2
          <6> QED BY <2>3, <3>7, <4>2, <5>2, <6>1
        <5> QED BY <3>6, <5>1, <5>2
      <4> QED BY <4>4 DEF SaidRightly
    <3>10. \A v \in ignored : AtWork(v)' => Interrupted(v)'
      <4>1. ASSUME NEW v \in ignored, AtWork(v)' PROVE Interrupted(v)'
        <5>1. v # r.turn /\ AtWork(v)
          BY <1>1, <3>1, <3>8, <4>1
        <5>2. Interrupted(v)
          BY <1>1, <1>2, <5>1 DEF Minded
        <5> QED BY <1>2, <5>1, <5>2 DEF Interrupted
      <4> QED BY <4>1
    <3>11. \A v \in Turns : AtWork(v)' => Alive(v)
      BY <3>8 DEF Alive
    <3> QED BY <1>2, <3>6, <3>8, <3>9, <3>10, <3>11, SpeaksAttends
  <2>6. CASE ~(r.turn # NULL /\ turn[r.turn] \in {"running", "asking"})
    <3>1. turn' = turn /\ wire' = Append(wire, x)
      BY <1>4, <2>1, <2>6 DEF Serve
    <3>2. PICK w : w = <<x>>
      OBVIOUS
    <3>3. w \in Seq(Messages) /\ wire' = wire \o w /\ \A i \in 1..Len(w) : i = 1 /\ w[i] = x
      BY <1>1, <2>2, <3>1, <3>2, Single
    <3>4. x.kind = "timeout" => turn'[op[x.id].turn] = "over"
      BY <1>1, <2>4, <2>6, <3>1 DEF Started
    <3>5. SaidRightly(w)
      BY <2>3, <2>4, <3>3, <3>4 DEF SaidRightly
    <3>6. \A v \in ignored : AtWork(v)' => Interrupted(v)'
      <4>1. ASSUME NEW v \in ignored, AtWork(v)' PROVE Interrupted(v)'
        <5>1. v # r.turn /\ AtWork(v)
          BY <1>1, <2>6, <3>1, <4>1 DEF AtWork
        <5>2. Interrupted(v)
          BY <1>1, <1>2, <5>1 DEF Minded
        <5> QED BY <1>2, <5>1, <5>2 DEF Interrupted
      <4> QED BY <4>1
    <3>7. \A v \in Turns : /\ Started(v) => Started(v)'
                           /\ turn[v] = "over" => turn'[v] = "over"
                           /\ Started(v)' => Started(v)
                           /\ AtWork(v)' => Alive(v)
      BY <3>1 DEF Started, AtWork, Alive
    <3> QED BY <1>2, <3>3, <3>5, <3>6, <3>7, SpeaksAttends
  <2> QED BY <2>5, <2>6
<1> QED BY <1>3, <1>4

(* Once the connection is gone only the manager's own books are left.       *)
LEMMA CutAttends ==
    ASSUME Disconnects, Roles'
    PROVE  Attended
<1>1. link' = "down" /\ wire' = <<>> /\ requests' = {}
  BY DEF Disconnects
<1>2. Order'
  BY <1>1 DEF Order
<1>3. Minded'
  BY <1>1 DEF Minded
<1> QED BY <1>2, <1>3 DEF Attended

LEMMA BreakAttends ==
    ASSUME All, BreakConnection
    PROVE  Attended
<1>1. Roles /\ Disconnects /\ UNCHANGED <<op, active, closing, pending, ignored, turn>>
  BY DEF BreakConnection, All, tableVars, opVars, codexVars
<1>2. Roles'
  BY <1>1 DEF Roles, OpRoles, ThreadRoles, Open, Done, IsTurn, Started, Closed
<1> QED BY <1>1, <1>2, CutAttends

LEMMA MarkAttends ==
    ASSUME All, SInv', MarkAppServerClosed
    PROVE  Attended
<1>1. /\ Roles /\ Disconnects /\ UNCHANGED <<closing, ignored, turn>>
      /\ op \in [Ops -> OpType] /\ active \in [Threads -> Ops \union {NULL}]
      /\ pending \in [Threads -> Ops \union {NULL}] /\ Books /\ NULL \notin Ops
  BY Types DEF MarkAppServerClosed, All, SInv, tableVars, codexVars
<1>2. PICK set \in SUBSET Threads : set = Left
  BY DEF Left
<1>3. /\ op' = [o \in Ops |-> IF \E t \in set : active[t] = o
                             THEN [op[o] EXCEPT !.result = "app_server_closed"] ELSE op[o]]
      /\ active' = [t \in Threads |-> IF t \in set THEN NULL ELSE active[t]]
      /\ pending' = [t \in Threads |-> IF t \in set THEN NULL ELSE pending[t]]
  BY <1>2 DEF MarkAppServerClosed
<1>4. "app_server_closed" # NULL
  BY Numbers DEF Results
<1>5. \A o \in Ops :
         /\ op'[o].thread = op[o].thread /\ op'[o].turn = op[o].turn
         /\ op'[o].sent = op[o].sent /\ op'[o].kind = op[o].kind
         /\ IF \E t \in set : active[t] = o THEN op'[o].result = "app_server_closed" ELSE op'[o] = op[o]
  BY <1>1, <1>3 DEF OpType
<1>6. Steady
  BY <1>1, <1>5 DEF Steady
<1>7. \A p \in Ops : SameRole(p) \/ OpRoles(p)'
  <2>1. ASSUME NEW p \in Ops, op'[p].result = "app_server_closed" PROVE OpRoles(p)'
    <3>1. OpRoles(p) /\ ~Open(p)'
      BY <1>1, <1>4, <2>1 DEF Roles, Open, Done
    <3>2. op[p].turn # NULL => IsTurn(op[p].turn, op[p].thread)'
      <4>1. ASSUME op[p].turn # NULL PROVE IsTurn(op[p].turn, op[p].thread)'
        <5>1. PICK u \in Ops : u = op[p].turn
          BY <4>1, Types DEF All
        <5>2. IsTurn(u, op[p].thread)
          BY <3>1, <4>1, <5>1 DEF OpRoles
        <5>3. op'[u].thread = op[p].thread /\ op'[u].kind = "send" /\ Started(u)' /\ op'[p].thread = op[p].thread
          BY <1>1, <1>5, <5>2 DEF IsTurn, Started
        <5>4. op'[p].turn = u
          BY <1>5, <5>1
        <5> QED BY <5>1, <5>3, <5>4 DEF IsTurn, Started
      <4> QED BY <4>1
    <3>3. /\ op'[p].thread = op[p].thread /\ op'[p].turn = op[p].turn
          /\ op'[p].sent = op[p].sent /\ op'[p].kind = op[p].kind /\ (Started(p)' <=> Started(p))
      BY <1>1, <1>5 DEF Started
    <3> QED BY <3>1, <3>2, <3>3 DEF OpRoles
  <2> QED BY <1>5, <2>1 DEF SameRole
<1>8. \A t \in Threads : active'[t] = active[t] \/ active[t] = NULL \/ ~SameRole(active[t])
  <2>1. ASSUME NEW t \in Threads, active'[t] # active[t], active[t] # NULL PROVE ~SameRole(active[t])
    <3>1. t \in set /\ active[t] \in Ops /\ op[active[t]].result = NULL
      BY <1>1, <1>3, <2>1 DEF Books, Done
    <3>2. op'[active[t]].result = "app_server_closed"
      BY <1>5, <3>1
    <3> QED BY <1>4, <3>1, <3>2 DEF SameRole
  <2> QED BY <2>1
<1>9. \A t \in Threads : ThreadRoles(t)'
  <2>1. ASSUME NEW t \in Threads PROVE ThreadRoles(t)'
    <3>1. /\ pending'[t] \in {pending[t], NULL} /\ active'[t] \in {active[t], NULL}
          /\ ignored \subseteq ignored' /\ (Closed(t)' => Closed(t))
      BY <1>1, <1>3 DEF Closed
    <3> QED BY <1>6, <3>1, ThreadStays
  <2> QED BY <2>1
<1>10. \A u \in ignored' : Started(u)
  BY <1>1 DEF Roles
<1>11. Roles'
  BY <1>6, <1>7, <1>8, <1>9, <1>10, RolesStay
<1> QED BY <1>1, <1>11, CutAttends

LEMMA ClosingAttends ==
    ASSUME All, SInv', NEW t \in Threads, Close(t) \/ ShutdownCloses(t)
    PROVE  Attended
<1>1. UNCHANGED <<pending, turn, wire, link>>
  BY DEF Close, ShutdownCloses, codexVars
<1>2. CASE Closed(t)
  <2>1. UNCHANGED <<op, active, closing, ignored, requests>>
    BY <1>2 DEF Close, ShutdownCloses
  <2> QED BY <1>1, <2>1, QuietAttends
<1>3. CASE ~Closed(t)
  <2>1. CloseSidecar(t)
    BY <1>3 DEF Close, ShutdownCloses
  <2> QED BY <1>1, <1>3, <2>1, CloseAttends
<1> QED BY <1>2, <1>3

LEMMA InitAll == ASSUME Init PROVE All
<1>1. /\ op = [o \in Ops |-> Unused] /\ \A o \in Ops : op[o] = Unused
      /\ turn = [u \in Turns |-> "none"] /\ \A u \in Turns : turn[u] = "none"
      /\ pending = [t \in Threads |-> NULL] /\ ignored = {} /\ wire = <<>> /\ requests = {}
  BY DEF Init
<1>2. Unused.thread = NULL /\ Unused.kind = NULL /\ Unused.turn = NULL /\ Unused.sent = "no"
  BY DEF Unused
<1>3. Roles
  <2>1. NULL # "send" /\ NULL # "answer" /\ Turns = Ops
    BY SidecarAssumption, Numbers DEF Kinds
  <2> QED BY <1>1, <1>2, <2>1 DEF Roles, OpRoles, ThreadRoles, Open, Started
<1>4. Order
  BY <1>1 DEF Order
<1>5. Minded
  BY <1>1 DEF Minded, Alive, AtWork, Requested, Told
<1> QED BY <1>3, <1>4, <1>5, InitSInv DEF All

LEMMA StepAttends == ASSUME All, [Next]_vars PROVE SInv' /\ Attended
<1> SUFFICES Attended
  BY StepFine DEF All, Fine
<1>1. SInv'
  BY StepFine DEF All, Fine
<1>2. CASE UNCHANGED vars
  BY <1>1, <1>2, QuietAttends DEF vars, opVars, codexVars, linkVars, tableVars
<1>3. CASE Author
  BY <1>1, <1>3, ClosingAttends, CreateAttends, SendAttends, AnswerAttends DEF Author
<1>4. CASE Receive
  BY <1>1, <1>4, ReceiveAttends
<1>5. CASE Rejections
  <2>1. ASSUME NEW t \in Threads, NEW kind \in {"create", "endTurn", "endInput", "unsubscribe"}, Rejected(kind, t)
        PROVE  Attended
    <3>1. kind \in ToThread \union {"timeout"} /\ kind # "timeout"
      BY DEF ToThread
    <3> QED BY <1>1, <2>1, <3>1, RejectedAttends
  <2>2. ASSUME NEW o \in Ops, Rejected("timeout", o) PROVE Attended
    <3>1. PICK kind \in ToThread \union {"timeout"} : kind = "timeout"
      OBVIOUS
    <3> QED BY <1>1, <2>2, <3>1, RejectedAttends
  <2> QED BY <1>5, <2>1, <2>2 DEF Rejections
<1>6. CASE \E o \in Ops : Continue(o) \/ Fails(o)
  BY <1>1, <1>6, ContinueAttends, FailsAttends
<1>7. CASE Timers
  BY <1>1, <1>7, ExpiresAttends DEF Timers
<1>8. CASE Codex
  BY <1>1, <1>8, ServeAttends, RefuseAttends, CodexAttends DEF Codex
<1>9. CASE Owner \/ BeginShutdown
  <2>1. UNCHANGED <<op, active, closing, ignored, pending, turn, requests, wire, link>>
    BY <1>9 DEF Owner, Pause, Unpause, BeginShutdown, tableVars, opVars, codexVars, linkVars
  <2> QED BY <1>1, <2>1, QuietAttends
<1>10. CASE MarkAppServerClosed
  BY <1>1, <1>10, MarkAttends
<1>11. CASE \E t \in Threads : ShutdownCloses(t)
  BY <1>1, <1>11, ClosingAttends
<1>12. CASE BreakConnection
  BY <1>12, BreakAttends
<1> QED BY <1>2, <1>3, <1>4, <1>5, <1>6, <1>7, <1>8, <1>9, <1>10, <1>11, <1>12 DEF Next, Manager, Shutdown

LEMMA AlwaysAll == Spec => []All
<1>1. All /\ [Next]_vars => All'
  BY StepAttends DEF All, Attended
<1> QED BY <1>1, InitAll, PTL DEF Spec

(* createCodexSidecarManager never sets a sidecar's operation while another *)
(* waits for its result, and never sends turn/start for a sidecar whose     *)
(* last turn Codex still runs, however closing, timeouts and answers cross. *)
THEOREM OneTurnPerSidecar == Spec => []OneAtATime
<1>1. ASSUME All PROVE OneAtATime
  <2>1. \A o \in Ops : Open(o) => active[op[o].thread] = o
    BY <1>1 DEF All, Roles, OpRoles
  <2>2. link = "up" =>
           \A u, v \in Turns : AtWork(u) /\ AtWork(v) /\ ThreadOf(u) = ThreadOf(v) => u = v
    BY <1>1 DEF All, Minded, Alive
  <2> QED BY <2>1, <2>2 DEF OneAtATime
<1> QED BY <1>1, AlwaysAll, PTL

(* A turn that Codex runs for a sidecar is waited for by an operation or an *)
(* input request of the manager, or is interrupted: closeSidecar,           *)
(* timeoutOperation and shouldIgnoreStartedTurn between them leave none.    *)
THEOREM NoTurnAbandoned == Spec => []TurnsAttended
<1>1. ASSUME All PROVE TurnsAttended
  <2> SUFFICES ASSUME link = "up", NEW u \in Turns, AtWork(u),
                      op[u].sent \notin {"requested", "accepted"}, pending[ThreadOf(u)] # u,
                      ~Interrupted(u)
               PROVE  active[ThreadOf(u)] # NULL /\ op[active[ThreadOf(u)]].turn = u
    BY DEF TurnsAttended, Interrupted
  <2>1. u \notin ignored /\ ~Dropped(u)
    BY <1>1 DEF All, Minded, Dropped
  <2>2. Current(u)
    BY <1>1, <2>1 DEF All, Minded, Alive
  <2>3. op[u].kind = "send" /\ Started(u) /\ OpRoles(u) /\ ThreadOf(u) \in Threads
    BY <1>1, SendTurns, Numbers DEF All, Roles, AtWork, Started, Alive
  <2>4. ASSUME active[ThreadOf(u)] = u PROVE op[u].turn = u
    <3>1. u # NULL /\ Open(u)
      BY <1>1, <2>3, <2>4, Types, Numbers DEF All, SInv, Books, Open, ThreadOf
    <3>2. op[u].sent = "over"
      BY <1>1, <2>3, <3>1, Types DEF OpRoles, Open, All, OpType
    <3> QED BY <2>3, <3>1, <3>2 DEF OpRoles
  <2> QED BY <2>2, <2>4 DEF Current
<1> QED BY <1>1, AlwaysAll, PTL
=============================================================================
