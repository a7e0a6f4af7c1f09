--------------------------- MODULE ApprovalsProofs ---------------------------
(* Approvals, for every number of requests, threads and file changes.       *)
EXTENDS Approvals, FiniteSetTheorems, TLAPS

(***************************** inductive invariants *************************)
(* TypeOK without the bounds that need the other parts.                     *)
Shape ==
    /\ arrived \in 0..MaxRequests
    /\ kind \in [Requests -> Kinds] /\ thread \in [Requests -> Threads]
    /\ stage \in [Requests -> {"new", "policy", "running", "parked", "settled"}]
    /\ answer \in [Requests -> {"none", "accept", "decline", "noReply"}]
    /\ withdrawn \subseteq Requests /\ cards \subseteq Requests /\ tracked \subseteq Requests
    /\ diffs \in [Threads -> Nat] /\ latest \in [Threads -> Nat] /\ shown \in [Requests -> Nat]
    /\ pauses \in Int /\ sidecarOpen \in BOOLEAN
    /\ current \in 1..MaxThreads /\ draining \subseteq 1..MaxThreads
    /\ queue \in Seq(Requests \cup {ClearSegment})
    /\ chain \in Requests \cup {ClearSegment, Free}
    /\ entries \subseteq Requests /\ afterReply \subseteq Requests
    /\ clear \in {"no", "queued", "beside", "opening", "bound"} /\ closed \in BOOLEAN

(* Where a request is, told by its answer, the chain and the queue.         *)
Progress ==
    /\ \A r \in Requests : r > arrived => stage[r] = "new"
    /\ \A r \in Requests : Answered(r) <=> stage[r] = "settled"
    /\ chain \in Requests => stage[chain] = "running"
Waiting ==
    /\ \A i \in DOMAIN queue : queue[i] # ClearSegment => stage[queue[i]] = "policy"
    /\ \A i, j \in DOMAIN queue : queue[i] = queue[j] => i = j

(* One fresh clear at a time, of the bound thread, with a thread left to    *)
(* replace it.                                                              *)
Pending == {r \in afterReply : ~Answered(r)}
Clears ==
    /\ draining \subseteq 1..current
    /\ clear = "bound" => current \notin draining
    /\ \A i \in DOMAIN queue : queue[i] = ClearSegment => clear = "queued"
    /\ (clear \in {"queued", "beside", "opening"} \/ current \in draining \/ entries # {})
          => current < MaxThreads
    /\ entries # {} => clear = "no" /\ current \notin draining
    /\ \A r, q \in entries : r = q
    /\ Pending # {} => clear = "no" /\ current \in draining
    /\ \A r, q \in Pending : r = q

(* A thread that still works, or is still to come, has its diffs in step.   *)
InStep ==
    /\ \A th \in Threads : Routable(th) \/ th > current => diffs[th] = latest[th]
    /\ \A th \in Threads : th > current => latest[th] = 0

(* Until an onEntry returns late, the policy that registers a clear still   *)
(* runs, and it decides for a parent thread.                                *)
Registered ==
    /\ \A r \in Pending : chain = r
    /\ \A r \in Requests : stage[r] \in {"policy", "running"} => thread[r] # Sidecar

(******************************* basic facts ********************************)
LEMMA FiniteRequests ==
    ASSUME NEW S \in SUBSET Requests
    PROVE  IsFiniteSet(S) /\ Cardinality(S) \in Nat
<1>1. MaxRequests \in Nat
  BY ApprovalsAssumption
<1>2. IsFiniteSet(Requests)
  BY <1>1, FS_Interval DEF Requests
<1> QED BY <1>2, FS_Subset, FS_CardinalityType

LEMMA AppendTyped ==
    ASSUME NEW T, NEW q \in Seq(T), NEW e \in T
    PROVE  /\ Append(q, e) \in Seq(T)
           /\ DOMAIN Append(q, e) = 1..Len(q) + 1
           /\ DOMAIN q = 1..Len(q)
           /\ \A i \in DOMAIN q : Append(q, e)[i] = q[i]
           /\ Append(q, e)[Len(q) + 1] = e
OBVIOUS

LEMMA TailTyped ==
    ASSUME NEW T, NEW q \in Seq(T), q # <<>>
    PROVE  /\ Head(q) \in T /\ Tail(q) \in Seq(T)
           /\ 1 \in DOMAIN q /\ Head(q) = q[1]
           /\ \A i \in DOMAIN Tail(q) : i + 1 \in DOMAIN q /\ i + 1 # 1 /\ Tail(q)[i] = q[i + 1]
           /\ DOMAIN Tail(q) \subseteq Nat
OBVIOUS

LEMMA SettleShape ==
    ASSUME Shape, NEW S \in SUBSET Requests, NEW how \in {"accept", "decline", "noReply"},
           Settle(S, how)
    PROVE  /\ stage' \in [Requests -> {"new", "policy", "running", "parked", "settled"}]
           /\ answer' \in [Requests -> {"none", "accept", "decline", "noReply"}]
           /\ cards' \subseteq Requests /\ tracked' \subseteq Requests /\ pauses' \in Int
<1>1. Cardinality({r \in S \cap Parked : thread[r] = Sidecar}) \in Nat
  BY FiniteRequests
<1> QED BY <1>1 DEF Settle, Removes, Shape

LEMMA AfterReplyShape ==
    ASSUME Shape, NEW S, NEW how, RunsAfterReply(S, how)
    PROVE  /\ queue' \in Seq(Requests \cup {ClearSegment})
           /\ clear' \in {"no", "queued", "beside", "opening", "bound"}
<1>1. CASE queue' = Append(queue, ClearSegment) /\ clear' = "queued"
  BY <1>1, AppendTyped DEF Shape
<1>2. CASE UNCHANGED <<queue, clear>>
  BY <1>2 DEF Shape
<1> QED BY <1>1, <1>2 DEF RunsAfterReply

LEMMA ParkShape ==
    ASSUME Shape, NEW r \in Requests, NEW k, NEW th \in Threads, Park(r, k, th)
    PROVE  /\ stage' \in [Requests -> {"new", "policy", "running", "parked", "settled"}]
           /\ answer' = answer
           /\ cards' \subseteq Requests /\ tracked' \subseteq Requests /\ pauses' \in Int
           /\ shown' \in [Requests -> Nat]
<1>1. pauses' \in Int
  BY DEF Park, Pauses, Shape
<1>2. shown' \in [Requests -> Nat] /\ tracked' \subseteq Requests
  BY DEF Park, Tracks, Shape
<1> QED BY <1>1, <1>2 DEF Park, Shape

(****************************** the shape ***********************************)
LEMMA ShapeInit == Init => Shape
<1> SUFFICES ASSUME Init PROVE Shape
  OBVIOUS
<1> USE ApprovalsAssumption
<1>1. queue = <<>>
  BY DEF Init
<1>2. current \in 1..MaxThreads /\ draining \subseteq 1..MaxThreads /\ arrived \in 0..MaxRequests
  BY DEF Init
<1>3. /\ kind \in [Requests -> Kinds] /\ thread \in [Requests -> Threads]
      /\ diffs \in [Threads -> Nat] /\ latest \in [Threads -> Nat] /\ shown \in [Requests -> Nat]
  BY DEF Init, Kinds, Threads, Sidecar
<1>4. /\ stage \in [Requests -> {"new", "policy", "running", "parked", "settled"}]
      /\ answer \in [Requests -> {"none", "accept", "decline", "noReply"}]
  BY DEF Init
<1>5. <<>> \in Seq(Requests \cup {ClearSegment})
  OBVIOUS
<1>0. 0 \in 0..MaxRequests
  OBVIOUS
<1>6. arrived \in 0..MaxRequests
  BY <1>0 DEF Init
<1>10. pauses \in Int
  BY DEF Init
<1>11. sidecarOpen \in BOOLEAN /\ closed \in BOOLEAN
  BY Zenon DEF Init
<1>7. withdrawn \subseteq Requests /\ cards \subseteq Requests /\ tracked \subseteq Requests
      /\ entries \subseteq Requests /\ afterReply \subseteq Requests
  BY DEF Init
<1>8. chain \in Requests \cup {ClearSegment, Free}
      /\ clear \in {"no", "queued", "beside", "opening", "bound"}
  BY DEF Init
<1>9. queue \in Seq(Requests \cup {ClearSegment})
  BY <1>1, <1>5
<1> QED BY <1>2, <1>3, <1>4, <1>6, <1>7, <1>8, <1>9, <1>10, <1>11 DEF Shape

LEMMA ShapeStep ==
    ASSUME Shape, Clears, [Next]_vars
    PROVE  Shape'
<1> USE ApprovalsAssumption
<1>0. CASE UNCHANGED vars
  BY <1>0 DEF Shape, vars, requestVars, settleVars, diffVars, threadVars, taskVars
<1>1. ASSUME NEW k \in Kinds, NEW th \in Threads, RequestArrives(k, th)
      PROVE  Shape'
  <2>1. arrived + 1 \in Requests /\ arrived' \in 0..MaxRequests
    BY <1>1 DEF RequestArrives, Shape, Requests
  <2>2. kind' \in [Requests -> Kinds] /\ thread' \in [Requests -> Threads]
    <3>1. kind' = [kind EXCEPT ![arrived + 1] = k] /\ thread' = [thread EXCEPT ![arrived + 1] = th]
      BY <1>1 DEF RequestArrives
    <3>2. kind \in [Requests -> Kinds] /\ thread \in [Requests -> Threads]
      BY DEF Shape
    <3> QED BY <3>1, <3>2
  <2>3. /\ stage' \in [Requests -> {"new", "policy", "running", "parked", "settled"}]
        /\ answer' \in [Requests -> {"none", "accept", "decline", "noReply"}]
        /\ cards' \subseteq Requests /\ tracked' \subseteq Requests /\ pauses' \in Int
        /\ shown' \in [Requests -> Nat]
        /\ queue' \in Seq(Requests \cup {ClearSegment})
    <3>1. CASE UNCHANGED <<cards, tracked, shown, pauses, queue>>
               /\ stage' = [stage EXCEPT ![arrived + 1] = "settled"]
               /\ answer' = [answer EXCEPT ![arrived + 1] = "decline"]
      BY <3>1, <2>1 DEF Shape
    <3>2. CASE UNCHANGED <<answer, cards, tracked, shown, pauses>>
               /\ stage' = [stage EXCEPT ![arrived + 1] = "policy"]
               /\ queue' = Append(queue, arrived + 1)
      BY <3>2, <2>1, AppendTyped DEF Shape
    <3>3. CASE Park(arrived + 1, k, th) /\ UNCHANGED queue
      BY <3>3, <2>1, ParkShape DEF Shape
    <3> QED BY <1>1, <3>1, <3>2, <3>3 DEF RequestArrives
  <2> QED BY <1>1, <2>1, <2>2, <2>3 DEF RequestArrives, Shape, threadVars
<1>2. ASSUME NEW r \in Requests, CodexWithdraws(r)
      PROVE  Shape'
  <2>1. /\ stage' \in [Requests -> {"new", "policy", "running", "parked", "settled"}]
        /\ answer' \in [Requests -> {"none", "accept", "decline", "noReply"}]
        /\ cards' \subseteq Requests /\ tracked' \subseteq Requests /\ pauses' \in Int
    BY <1>2, SettleShape DEF CodexWithdraws, Shape, settleVars
  <2> QED BY <1>2, <2>1 DEF CodexWithdraws, Shape, requestVars, diffVars, threadVars, taskVars
<1>3. ASSUME NEW th \in Threads, DiffArrives(th)
      PROVE  Shape'
  <2>1. latest[th] + 1 \in Nat
    BY DEF Shape
  <2>2. diffs' \in [Threads -> Nat] /\ latest' \in [Threads -> Nat] /\ shown' \in [Requests -> Nat]
    BY <1>3, <2>1 DEF DiffArrives, Shape
  <2> QED BY <1>3, <2>2 DEF DiffArrives, Shape, requestVars, settleVars, threadVars, taskVars
<1>4. ASSUME NEW r \in Requests, NEW how \in {"accept", "decline"}, OwnerDecides(r, how)
      PROVE  Shape'
  BY <1>4, SettleShape, AfterReplyShape
     DEF OwnerDecides, Shape, requestVars, diffVars, threadVars
<1>5. CASE BeginSegment
  <2>1. chain' \in Requests \cup {ClearSegment} /\ queue' \in Seq(Requests \cup {ClearSegment})
    BY <1>5, TailTyped DEF BeginSegment, Shape
  <2>2. /\ stage' \in [Requests -> {"new", "policy", "running", "parked", "settled"}]
        /\ clear' \in {"no", "queued", "beside", "opening", "bound"}
    BY <1>5, <2>1 DEF BeginSegment, Shape
  <2> QED BY <1>5, <2>1, <2>2 DEF BeginSegment, Shape, requestVars, diffVars, threadVars
<1>6. ASSUME NEW r \in Requests, PolicyTransitions(r)
      PROVE  Shape'
  BY <1>6 DEF PolicyTransitions, Registers, Shape, requestVars, settleVars, diffVars
<1>7. ASSUME NEW r \in Requests, PolicyResolves(r)
      PROVE  Shape'
  <2>1. thread[r] \in Threads
    BY DEF Shape
  <2>2. /\ stage' \in [Requests -> {"new", "policy", "running", "parked", "settled"}]
        /\ answer' \in [Requests -> {"none", "accept", "decline", "noReply"}]
        /\ cards' \subseteq Requests /\ tracked' \subseteq Requests /\ pauses' \in Int
        /\ shown' \in [Requests -> Nat]
        /\ queue' \in Seq(Requests \cup {ClearSegment})
        /\ clear' \in {"no", "queued", "beside", "opening", "bound"}
    BY <1>7, <2>1, SettleShape, AfterReplyShape, ParkShape DEF PolicyResolves, Shape
  <2> QED BY <1>7, <2>2 DEF PolicyResolves, ReleaseChain, Shape, requestVars, threadVars
<1>8. ASSUME NEW r \in Requests, EntryFinishes(r)
      PROVE  Shape'
  BY <1>8 DEF EntryFinishes, Registers, Shape, requestVars, settleVars, diffVars
<1>9. CASE TransitionElsewhere
  <2>1. queue' \in Seq(Requests \cup {ClearSegment})
    <3>1. queue' = queue \/ queue' = Append(queue, ClearSegment)
      BY <1>9 DEF TransitionElsewhere
    <3>2. Append(queue, ClearSegment) \in Seq(Requests \cup {ClearSegment})
      BY AppendTyped DEF Shape
    <3> QED BY <3>1, <3>2 DEF Shape
  <2> QED BY <1>9, <2>1 DEF TransitionElsewhere, Shape, requestVars, settleVars, diffVars
<1>10. CASE ClearOpensBeside
  BY <1>10 DEF ClearOpensBeside, Shape, requestVars, settleVars, diffVars, threadVars
<1>11. CASE ClearBinds
  <2>1. current' \in 1..MaxThreads
    BY <1>11 DEF ClearBinds, Clears, Shape
  <2>2. Abandons(current + 1) \in SUBSET Requests
    BY DEF Abandons, Parked
  <2> QED BY <1>11, <2>1, <2>2, SettleShape DEF ClearBinds, Shape, requestVars, diffVars
<1>12. CASE ClearFinishes
  BY <1>12 DEF ClearFinishes, Drains, ReleaseChain, Shape, requestVars, settleVars, diffVars
<1>13. CASE SidecarCloses
  BY <1>13 DEF SidecarCloses, Shape, requestVars, settleVars, diffVars, taskVars
<1>14. CASE Close
  BY <1>14, SettleShape DEF Close, Parked, Shape, requestVars, diffVars, threadVars, taskVars
<1> QED
  BY <1>0, <1>1, <1>2, <1>3, <1>4, <1>5, <1>6, <1>7, <1>8, <1>9, <1>10, <1>11, <1>12, <1>13, <1>14
     DEF Next, Policy, Clearing

(******************************* the books **********************************)
(* Every way of settling goes through Settle, which forgets a request       *)
(* everywhere at once; Park is the only way onto the page.                  *)
SidecarParked == {r \in Parked : thread[r] = Sidecar}

LEMMA SettleBooks ==
    ASSUME Shape, BooksAgree, NEW S \in SUBSET Requests, NEW how, Settle(S, how),
           kind' = kind, thread' = thread
    PROVE  BooksAgree' /\ Parked' = Parked \ S
<1>1. Parked' = Parked \ S
  BY DEF Settle, Parked, Shape
<1>2. cards' = Parked'
  BY <1>1 DEF Settle, BooksAgree
<1>3. tracked' = {r \in Parked' : kind'[r] = "file"}
  BY <1>1 DEF Settle, Removes, BooksAgree
<1> DEFINE T == {r \in S \cap Parked : thread[r] = Sidecar}
<1>4. SidecarParked' = SidecarParked \ T
  BY <1>1 DEF SidecarParked
<1>5. IsFiniteSet(SidecarParked) /\ SidecarParked \cap T = T
      /\ Cardinality(SidecarParked) \in Nat /\ Cardinality(T) \in Nat
  <2>1. SidecarParked \in SUBSET Requests /\ T \in SUBSET Requests
    BY DEF SidecarParked, Parked
  <2> QED BY <2>1, FiniteRequests DEF SidecarParked
<1>6. Cardinality(SidecarParked \ T) = Cardinality(SidecarParked) - Cardinality(T)
  BY <1>5, FS_Difference
<1>7. pauses' = Cardinality(SidecarParked')
  BY <1>4, <1>6 DEF Settle, Removes, BooksAgree, SidecarParked
<1> QED BY <1>1, <1>2, <1>3, <1>7 DEF BooksAgree, SidecarParked

LEMMA ParkBooks ==
    ASSUME Shape, BooksAgree, NEW r \in Requests, r \notin Parked, NEW k \in Kinds,
           NEW th \in Threads, Park(r, k, th),
           kind' = [kind EXCEPT ![r] = k], thread' = [thread EXCEPT ![r] = th]
    PROVE  BooksAgree'
<1>1. Parked' = Parked \cup {r}
  BY DEF Park, Parked, Shape
<1>2. cards' = Parked'
  BY <1>1 DEF Park, BooksAgree
<1>3. \A q \in Parked : kind'[q] = kind[q] /\ thread'[q] = thread[q]
  BY DEF Shape, Parked
<1>4. kind'[r] = k /\ thread'[r] = th
  BY DEF Shape
<1>5. tracked' = {q \in Parked' : kind'[q] = "file"}
  BY <1>1, <1>3, <1>4 DEF Park, Tracks, BooksAgree
<1>6. IsFiniteSet(SidecarParked) /\ Cardinality(SidecarParked) \in Nat /\ r \notin SidecarParked
  BY FiniteRequests DEF SidecarParked, Parked
<1>7. pauses = Cardinality(SidecarParked)
  BY DEF BooksAgree, SidecarParked
<1>8. pauses' = Cardinality(SidecarParked')
  <2>1. CASE th = Sidecar
    <3>1. SidecarParked' = SidecarParked \cup {r}
      BY <1>1, <1>3, <1>4, <2>1 DEF SidecarParked
    <3> QED BY <1>6, <1>7, <2>1, <3>1, FS_AddElement DEF Park, Pauses
  <2>2. CASE th # Sidecar
    <3>1. SidecarParked' = SidecarParked
      BY <1>1, <1>3, <1>4, <2>2 DEF SidecarParked
    <3> QED BY <1>7, <2>2, <3>1 DEF Park, Pauses
  <2> QED BY <2>1, <2>2
<1> QED BY <1>2, <1>5, <1>8 DEF BooksAgree, SidecarParked

(* What the books are made of.                                              *)
bookVars == <<stage, cards, tracked, pauses, kind, thread>>
LEMMA BooksSame == ASSUME BooksAgree, UNCHANGED bookVars PROVE BooksAgree'
BY DEF BooksAgree, Parked, bookVars
LEMMA BooksUnparked ==
    ASSUME BooksAgree, Parked' = Parked, cards' = cards, tracked' = tracked, pauses' = pauses,
           \A q \in Parked : kind'[q] = kind[q] /\ thread'[q] = thread[q]
    PROVE  BooksAgree'
BY DEF BooksAgree

LEMMA BooksStep ==
    ASSUME Shape, Progress, Waiting, BooksAgree, [Next]_vars
    PROVE  BooksAgree'
<1>1. ASSUME NEW k \in Kinds, NEW th \in Threads, RequestArrives(k, th)
      PROVE  BooksAgree'
  <2> DEFINE r == arrived + 1
  <2>1. r \in Requests /\ r \notin Parked
    BY <1>1, ApprovalsAssumption DEF RequestArrives, Shape, Requests, Progress, Parked
  <2>2. kind' = [kind EXCEPT ![r] = k] /\ thread' = [thread EXCEPT ![r] = th]
    BY <1>1 DEF RequestArrives
  <2>3. CASE Park(r, k, th)
    BY <2>1, <2>2, <2>3, ParkBooks
  <2>4. CASE /\ stage' = [stage EXCEPT ![r] = "settled"] \/ stage' = [stage EXCEPT ![r] = "policy"]
             /\ UNCHANGED <<cards, tracked, pauses>>
    <3>1. Parked' = Parked
      BY <2>1, <2>4 DEF Parked, Shape
    <3>2. \A q \in Parked : kind'[q] = kind[q] /\ thread'[q] = thread[q]
      BY <2>1, <2>2 DEF Parked, Shape
    <3> QED BY <2>4, <3>1, <3>2, BooksUnparked
  <2> QED BY <1>1, <2>3, <2>4 DEF RequestArrives
<1>2. ASSUME NEW r \in Requests, CodexWithdraws(r)
      PROVE  BooksAgree'
  BY <1>2, SettleBooks, BooksSame DEF CodexWithdraws, settleVars, requestVars, bookVars
<1>3. ASSUME NEW th \in Threads, DiffArrives(th)
      PROVE  BooksAgree'
  BY <1>3, BooksSame DEF DiffArrives, settleVars, requestVars, bookVars
<1>4. ASSUME NEW r \in Requests, NEW how \in {"accept", "decline"}, OwnerDecides(r, how)
      PROVE  BooksAgree'
  BY <1>4, SettleBooks DEF OwnerDecides, requestVars
<1>5. CASE BeginSegment
  <2>1. Parked' = Parked
    <3>1. CASE Head(queue) = ClearSegment
      BY <1>5, <3>1 DEF BeginSegment, Parked
    <3>2. CASE Head(queue) # ClearSegment
      <4>1. stage[Head(queue)] = "policy"
        BY <1>5, <3>2, TailTyped DEF BeginSegment, Waiting, Shape
      <4>2. stage' = [stage EXCEPT ![Head(queue)] = "running"]
        BY <1>5, <3>2 DEF BeginSegment
      <4> QED BY <4>1, <4>2 DEF Parked, Shape
    <3> QED BY <3>1, <3>2
  <2> QED BY <1>5, <2>1, BooksUnparked DEF BeginSegment, requestVars
<1>6. ASSUME NEW r \in Requests, PolicyTransitions(r)
      PROVE  BooksAgree'
  BY <1>6, BooksSame DEF PolicyTransitions, settleVars, requestVars, bookVars
<1>7. ASSUME NEW r \in Requests, PolicyResolves(r)
      PROVE  BooksAgree'
  <2>1. CASE \E how \in {"accept", "decline"} : Settle({r}, how)
    BY <1>7, <2>1, SettleBooks DEF PolicyResolves, requestVars
  <2>2. CASE Park(r, kind[r], thread[r])
    <3>1. r \notin Parked
      BY <1>7 DEF PolicyResolves, Progress, Parked
    <3>2. kind' = [kind EXCEPT ![r] = kind[r]] /\ thread' = [thread EXCEPT ![r] = thread[r]]
      BY <1>7 DEF PolicyResolves, requestVars, Shape
    <3>3. kind[r] \in Kinds /\ thread[r] \in Threads
      BY DEF Shape
    <3> QED BY <2>2, <3>1, <3>2, <3>3, ParkBooks
  <2> QED BY <1>7, <2>1, <2>2 DEF PolicyResolves
<1>8. ASSUME NEW r \in Requests, EntryFinishes(r)
      PROVE  BooksAgree'
  BY <1>8, BooksSame DEF EntryFinishes, settleVars, requestVars, bookVars
<1>9. CASE TransitionElsewhere \/ ClearOpensBeside \/ ClearFinishes \/ SidecarCloses
  BY <1>9, BooksSame
     DEF TransitionElsewhere, ClearOpensBeside, ClearFinishes, SidecarCloses,
         settleVars, requestVars, bookVars
<1>10. CASE ClearBinds
  <2>1. Abandons(current + 1) \in SUBSET Requests
    BY DEF Abandons, Parked
  <2> QED BY <1>10, <2>1, SettleBooks DEF ClearBinds, requestVars
<1>11. CASE Close
  BY <1>11, SettleBooks DEF Close, Parked, requestVars
<1>12. CASE UNCHANGED vars
  BY <1>12, BooksSame DEF vars, bookVars, requestVars, settleVars
<1> QED
  BY <1>1, <1>2, <1>3, <1>4, <1>5, <1>6, <1>7, <1>8, <1>9, <1>10, <1>11, <1>12
     DEF Next, Policy, Clearing
(******************* where a request is, the queue, the chain ***************)
LEMMA WaitingKept ==
    ASSUME Shape, Waiting, queue' = queue,
           \A r \in Requests : stage[r] = "policy" => stage'[r] = "policy"
    PROVE  Waiting'
<1>1. \A i \in DOMAIN queue : queue[i] \in Requests \cup {ClearSegment}
  BY DEF Shape
<1> QED BY <1>1 DEF Waiting

LEMMA WaitingAppend ==
    ASSUME Shape, Waiting, NEW e \in Requests \cup {ClearSegment}, queue' = Append(queue, e),
           \A i \in DOMAIN queue : queue[i] # e,
           e # ClearSegment => stage'[e] = "policy",
           \A r \in Requests : stage[r] = "policy" => stage'[r] = "policy"
    PROVE  Waiting'
<1>1. \A i \in DOMAIN queue : queue[i] \in Requests \cup {ClearSegment}
  BY DEF Shape
<1>2. /\ DOMAIN queue' = 1..Len(queue) + 1 /\ DOMAIN queue = 1..Len(queue)
      /\ Len(queue) \in Nat
      /\ \A i \in DOMAIN queue : queue'[i] = queue[i]
      /\ queue'[Len(queue) + 1] = e
  BY AppendTyped DEF Shape
<1>3. \A i \in DOMAIN queue' : i \in DOMAIN queue \/ i = Len(queue) + 1
  BY <1>2
<1> QED BY <1>1, <1>2, <1>3 DEF Waiting

LEMMA AfterReplyWaiting ==
    ASSUME Shape, Waiting, Clears, NEW S, NEW how, RunsAfterReply(S, how),
           \A r \in S : ~Answered(r),
           \A r \in Requests : stage[r] = "policy" => stage'[r] = "policy"
    PROVE  Waiting'
<1>1. CASE how # "noReply" /\ S \cap afterReply # {}
  <2>1. Pending # {}
    BY <1>1 DEF Pending
  <2>2. \A i \in DOMAIN queue : queue[i] # ClearSegment
    BY <2>1 DEF Clears
  <2> QED BY <1>1, <2>2, WaitingAppend DEF RunsAfterReply
<1>2. CASE ~(how # "noReply" /\ S \cap afterReply # {})
  BY <1>2, WaitingKept DEF RunsAfterReply
<1> QED BY <1>1, <1>2

(* What is parked is neither waiting for its policy nor answered.           *)
LEMMA SettleParked ==
    ASSUME Shape, Progress, NEW S \in SUBSET Parked, NEW how \in {"accept", "decline", "noReply"},
           Settle(S, how), arrived' = arrived, chain' = chain
    PROVE  /\ Progress'
           /\ \A r \in Requests : stage[r] = "policy" => stage'[r] = "policy"
           /\ \A r \in S : ~Answered(r)
BY DEF Settle, Progress, Parked, Answered, Shape

LEMMA ParkStage ==
    ASSUME Shape, NEW r \in Requests, NEW k, NEW th, Park(r, k, th)
    PROVE  stage' = [stage EXCEPT ![r] = "parked"] /\ answer' = answer
BY DEF Park

LEMMA ProgressStep ==
    ASSUME Shape, Progress, Waiting, Clears, [Next]_vars
    PROVE  Progress' /\ Waiting'
<1> USE ApprovalsAssumption
<1>1. ASSUME NEW k \in Kinds, NEW th \in Threads, RequestArrives(k, th)
      PROVE  Progress' /\ Waiting'
  <2> DEFINE r == arrived + 1
  <2>1. /\ r \in Requests /\ arrived' = r /\ stage[r] = "new" /\ arrived \in Nat
        /\ chain' = chain /\ ~Answered(r)
    BY <1>1 DEF RequestArrives, Shape, Requests, Progress
  <2>2. \A i \in DOMAIN queue : queue[i] # r
    BY <2>1 DEF Waiting, Requests, ClearSegment
  <2>3. chain # r
    BY <2>1 DEF Progress
  <2>4. CASE /\ stage' = [stage EXCEPT ![r] = "settled"]
             /\ answer' = [answer EXCEPT ![r] = "decline"] /\ queue' = queue
    <3>1. Progress'
      BY <2>1, <2>3, <2>4 DEF Progress, Answered, Shape, Requests
    <3>2. \A q \in Requests : stage[q] = "policy" => stage'[q] = "policy"
      BY <2>1, <2>4 DEF Shape
    <3> QED BY <2>4, <3>1, <3>2, WaitingKept
  <2>5. CASE /\ stage' = [stage EXCEPT ![r] = "policy"] /\ answer' = answer
             /\ queue' = Append(queue, r)
    <3>1. Progress'
      BY <2>1, <2>3, <2>5 DEF Progress, Answered, Shape, Requests
    <3>2. Waiting'
      BY <2>1, <2>2, <2>5, WaitingAppend DEF Shape
    <3> QED BY <3>1, <3>2
  <2>6. CASE stage' = [stage EXCEPT ![r] = "parked"] /\ answer' = answer /\ queue' = queue
    <3>1. Progress'
      BY <2>1, <2>3, <2>6 DEF Progress, Answered, Shape, Requests
    <3>2. \A q \in Requests : stage[q] = "policy" => stage'[q] = "policy"
      BY <2>1, <2>6 DEF Shape
    <3> QED BY <2>6, <3>1, <3>2, WaitingKept
  <2> QED BY <1>1, <2>4, <2>5, <2>6, <2>1, ParkStage DEF RequestArrives
<1>2. ASSUME NEW r \in Requests, CodexWithdraws(r)
      PROVE  Progress' /\ Waiting'
  <2>1. UNCHANGED <<arrived, chain, queue>>
    BY <1>2 DEF CodexWithdraws, requestVars, taskVars
  <2>2. CASE UNCHANGED settleVars
    BY <2>1, <2>2, WaitingKept DEF settleVars, Progress, Answered
  <2>3. CASE r \in Parked /\ Settle({r}, "noReply")
    BY <2>1, <2>3, SettleParked, WaitingKept
  <2> QED BY <1>2, <2>2, <2>3 DEF CodexWithdraws
<1>3. ASSUME NEW th \in Threads, DiffArrives(th)
      PROVE  Progress' /\ Waiting'
  BY <1>3, WaitingKept DEF DiffArrives, settleVars, requestVars, taskVars, Progress, Answered
<1>4. ASSUME NEW r \in Requests, NEW how \in {"accept", "decline"}, OwnerDecides(r, how)
      PROVE  Progress' /\ Waiting'
  <2>1. /\ Progress' /\ ~Answered(r)
        /\ \A q \in Requests : stage[q] = "policy" => stage'[q] = "policy"
    BY <1>4, SettleParked DEF OwnerDecides, requestVars
  <2> QED BY <1>4, <2>1, AfterReplyWaiting DEF OwnerDecides
<1>5. CASE BeginSegment
  <2>1. /\ Head(queue) = queue[1] /\ 1 \in DOMAIN queue /\ chain' = Head(queue)
        /\ queue' = Tail(queue) /\ Head(queue) \in Requests \cup {ClearSegment}
        /\ arrived' = arrived /\ answer' = answer
        /\ \A i \in DOMAIN queue' : i + 1 \in DOMAIN queue /\ i + 1 # 1 /\ queue'[i] = queue[i + 1]
        /\ DOMAIN queue' \subseteq Nat
    BY <1>5, TailTyped DEF BeginSegment, Shape, requestVars
  <2>2. \A i, j \in DOMAIN queue' : queue'[i] = queue'[j] => i = j
    <3> TAKE i, j \in DOMAIN queue'
    <3> HAVE queue'[i] = queue'[j]
    <3>1. i + 1 = j + 1
      BY <2>1 DEF Waiting
    <3> QED BY <2>1, <3>1
  <2>3. \A i \in DOMAIN queue' : queue'[i] # Head(queue)
    BY <2>1 DEF Waiting
  <2>4. CASE Head(queue) = ClearSegment
    <3>1. stage' = stage
      BY <1>5, <2>4 DEF BeginSegment
    <3>2. chain' \notin Requests
      BY <2>1, <2>4 DEF ClearSegment, Requests
    <3> QED BY <2>1, <2>2, <3>1, <3>2 DEF Progress, Waiting, Answered
  <2>5. CASE Head(queue) # ClearSegment
    <3> DEFINE h == Head(queue)
    <3>1. h \in Requests /\ stage[h] = "policy" /\ stage' = [stage EXCEPT ![h] = "running"]
      BY <1>5, <2>1, <2>5 DEF BeginSegment, Waiting
    <3>2. Progress'
      BY <2>1, <3>1 DEF Progress, Answered, Shape
    <3>3. \A i \in DOMAIN queue' : queue'[i] # ClearSegment => stage'[queue'[i]] = "policy"
      <4> TAKE i \in DOMAIN queue'
      <4> HAVE queue'[i] # ClearSegment
      <4>1. queue'[i] = queue[i + 1] /\ i + 1 \in DOMAIN queue /\ queue'[i] # h
        BY <2>1, <2>3
      <4>2. queue[i + 1] \in Requests
        BY <4>1 DEF Shape
      <4> QED BY <3>1, <4>1, <4>2 DEF Waiting, Shape
    <3> QED BY <2>2, <3>2, <3>3 DEF Waiting
  <2> QED BY <2>4, <2>5
<1>6. ASSUME NEW r \in Requests, PolicyTransitions(r)
      PROVE  Progress' /\ Waiting'
  BY <1>6, WaitingKept DEF PolicyTransitions, settleVars, requestVars, Progress, Answered
<1>7. ASSUME NEW r \in Requests, PolicyResolves(r)
      PROVE  Progress' /\ Waiting'
  <2>1. /\ stage[r] = "running" /\ ~Answered(r) /\ chain' = Free /\ arrived' = arrived
        /\ Free \notin Requests
    BY <1>7 DEF PolicyResolves, Progress, ReleaseChain, requestVars, Free, Requests
  <2>2. ASSUME NEW how \in {"accept", "decline"}, Settle({r}, how), RunsAfterReply({r}, how)
        PROVE  Progress' /\ Waiting'
    <3>1. /\ Progress'
          /\ \A q \in Requests : stage[q] = "policy" => stage'[q] = "policy"
      BY <2>1, <2>2 DEF Settle, Progress, Answered, Shape
    <3> QED BY <2>1, <2>2, <3>1, AfterReplyWaiting
  <2>3. CASE Park(r, kind[r], thread[r]) /\ queue' = queue
    <3>1. stage' = [stage EXCEPT ![r] = "parked"] /\ answer' = answer
      BY <2>3, ParkStage
    <3> QED BY <2>1, <2>3, <3>1, WaitingKept DEF Progress, Answered, Shape
  <2> QED BY <1>7, <2>2, <2>3 DEF PolicyResolves
<1>8. ASSUME NEW r \in Requests, EntryFinishes(r)
      PROVE  Progress' /\ Waiting'
  BY <1>8, WaitingKept DEF EntryFinishes, settleVars, requestVars, Progress, Answered
<1>9. CASE TransitionElsewhere
  <2>1. UNCHANGED <<arrived, chain, stage, answer>>
    BY <1>9 DEF TransitionElsewhere, settleVars, requestVars
  <2>2. CASE queue' = queue
    BY <2>1, <2>2, WaitingKept DEF Progress, Answered
  <2>3. CASE queue' = Append(queue, ClearSegment)
    <3>1. \A i \in DOMAIN queue : queue[i] # ClearSegment
      BY <1>9 DEF TransitionElsewhere, OneClear, Clears
    <3> QED BY <2>1, <2>3, <3>1, WaitingAppend DEF Progress, Answered
  <2> QED BY <1>9, <2>2, <2>3 DEF TransitionElsewhere
<1>10. CASE ClearOpensBeside
  BY <1>10, WaitingKept DEF ClearOpensBeside, settleVars, requestVars, Progress, Answered
<1>11. CASE ClearBinds
  <2>1. Abandons(current + 1) \in SUBSET Parked
    BY DEF Abandons
  <2> QED BY <1>11, <2>1, SettleParked, WaitingKept DEF ClearBinds, requestVars
<1>12. CASE ClearFinishes
  <2>1. chain' = chain \/ chain' = Free
    BY <1>12 DEF ClearFinishes, ReleaseChain
  <2>2. Free \notin Requests
    BY DEF Free, Requests
  <2> QED BY <1>12, <2>1, <2>2, WaitingKept
          DEF ClearFinishes, settleVars, requestVars, Progress, Answered
<1>13. CASE SidecarCloses
  BY <1>13, WaitingKept DEF SidecarCloses, settleVars, requestVars, taskVars, Progress, Answered
<1>14. CASE Close
  BY <1>14, SettleParked, WaitingKept DEF Close, requestVars, taskVars
<1>15. CASE UNCHANGED vars
  BY <1>15, WaitingKept DEF vars, settleVars, requestVars, taskVars, Progress, Answered
<1> QED
  BY <1>1, <1>2, <1>3, <1>4, <1>5, <1>6, <1>7, <1>8, <1>9, <1>10, <1>11, <1>12, <1>13, <1>14, <1>15
     DEF Next, Policy, Clearing
(***************************** one clear at a time **************************)
LEMMA PendingShrinks ==
    ASSUME afterReply' = afterReply, \A r \in afterReply : Answered(r) => Answered(r)'
    PROVE  Pending' \subseteq Pending
BY DEF Pending

LEMMA SettlePending ==
    ASSUME Shape, NEW S, NEW how \in {"accept", "decline", "noReply"}, Settle(S, how),
           afterReply' = afterReply
    PROVE  Pending' \subseteq Pending /\ \A r \in S : r \notin Pending'
BY DEF Settle, Pending, Answered, Shape

LEMMA ClearsKept ==
    ASSUME Clears, UNCHANGED <<draining, current, queue, clear, entries>>, Pending' \subseteq Pending
    PROVE  Clears'
BY DEF Clears

(* A reply that queues the clear was the only one it waited for.            *)
LEMMA AfterReplyClears ==
    ASSUME Shape, Clears, NEW r \in Requests, NEW how \in {"accept", "decline"}, ~Answered(r),
           Settle({r}, how), RunsAfterReply({r}, how),
           UNCHANGED <<draining, current, entries, afterReply>>
    PROVE  Clears'
<1>1. Pending' \subseteq Pending /\ r \notin Pending'
  BY SettlePending
<1>2. CASE r \in afterReply
  <2>1. r \in Pending
    BY <1>2 DEF Pending
  <2>2. Pending' = {}
    BY <1>1, <2>1 DEF Clears
  <2>3. clear' = "queued"
    BY <1>2 DEF RunsAfterReply
  <2>4. entries = {} /\ current < MaxThreads /\ clear = "no"
    BY <2>1 DEF Clears
  <2> QED BY <2>2, <2>3, <2>4 DEF Clears
<1>3. CASE r \notin afterReply
  BY <1>1, <1>3, ClearsKept DEF RunsAfterReply
<1> QED BY <1>2, <1>3

LEMMA ClearsStep ==
    ASSUME Shape, Progress, Waiting, Clears, [Next]_vars
    PROVE  Clears'
<1> USE ApprovalsAssumption
<1>1. ASSUME NEW k \in Kinds, NEW th \in Threads, RequestArrives(k, th)
      PROVE  Clears'
  <2> DEFINE r == arrived + 1
  <2>1. /\ r \in Requests /\ UNCHANGED <<draining, current, clear, entries, afterReply>>
        /\ clear' = clear /\ r # ClearSegment
    BY <1>1 DEF RequestArrives, Shape, Requests, threadVars, ClearSegment
  <2>2. answer' = answer \/ answer' = [answer EXCEPT ![r] = "decline"]
    BY <1>1, ParkStage, <2>1 DEF RequestArrives
  <2>3. Pending' \subseteq Pending
    BY <2>1, <2>2 DEF Pending, Answered, Shape
  <2>4. queue' = queue \/ queue' = Append(queue, r)
    BY <1>1 DEF RequestArrives
  <2>5. \A i \in DOMAIN queue' : queue'[i] = ClearSegment => \E j \in DOMAIN queue : queue[j] = ClearSegment
    <3>1. CASE queue' = queue
      BY <3>1
    <3>2. CASE queue' = Append(queue, r)
      <4> DEFINE T == Requests \cup {ClearSegment}
      <4>0. queue \in Seq(T) /\ r \in T
        BY <2>1 DEF Shape
      <4>1. DOMAIN queue' = 1..Len(queue) + 1 /\ DOMAIN queue = 1..Len(queue) /\ Len(queue) \in Nat
            /\ (\A i \in DOMAIN queue : queue'[i] = queue[i]) /\ queue'[Len(queue) + 1] = r
        <5> HIDE DEF T, r
        <5>1. Len(queue) \in Nat
          BY <4>0
        <5> QED BY <4>0, <5>1, <3>2, AppendTyped
      <4>2. \A i \in DOMAIN queue' : i \in DOMAIN queue \/ i = Len(queue) + 1
        BY <4>1
      <4> QED BY <2>1, <4>1, <4>2
    <3> QED BY <2>4, <3>1, <3>2
  <2> QED BY <2>1, <2>3, <2>5 DEF Clears
<1>2. ASSUME NEW r \in Requests, CodexWithdraws(r)
      PROVE  Clears'
  <2>1. Pending' \subseteq Pending
    BY <1>2, SettlePending DEF CodexWithdraws, settleVars, taskVars, Pending, Answered
  <2> QED BY <1>2, <2>1, ClearsKept DEF CodexWithdraws, threadVars, taskVars
<1>3. ASSUME NEW th \in Threads, DiffArrives(th)
      PROVE  Clears'
  BY <1>3, ClearsKept, PendingShrinks DEF DiffArrives, settleVars, threadVars, taskVars, Answered
<1>4. ASSUME NEW r \in Requests, NEW how \in {"accept", "decline"}, OwnerDecides(r, how)
      PROVE  Clears'
  <2>1. ~Answered(r)
    BY <1>4 DEF OwnerDecides, Progress, Parked
  <2> QED BY <1>4, <2>1, AfterReplyClears DEF OwnerDecides, threadVars
<1>5. CASE BeginSegment
  <2>1. /\ Head(queue) = queue[1] /\ 1 \in DOMAIN queue /\ queue' = Tail(queue)
        /\ UNCHANGED <<answer, draining, current, entries, afterReply>>
        /\ \A i \in DOMAIN queue' : i + 1 \in DOMAIN queue /\ i + 1 # 1 /\ queue'[i] = queue[i + 1]
    BY <1>5, TailTyped DEF BeginSegment, Shape, threadVars
  <2>2. Pending' = Pending
    BY <2>1 DEF Pending, Answered
  <2>3. CASE Head(queue) = ClearSegment
    <3>1. clear = "queued" /\ clear' = "opening"
      BY <1>5, <2>1, <2>3 DEF BeginSegment, Clears
    <3>2. \A i \in DOMAIN queue' : queue'[i] # ClearSegment
      BY <2>1, <2>3 DEF Waiting
    <3> QED BY <2>1, <2>2, <3>1, <3>2 DEF Clears
  <2>4. CASE Head(queue) # ClearSegment
    <3>1. clear' = clear
      BY <1>5, <2>4 DEF BeginSegment
    <3> QED BY <2>1, <2>2, <3>1 DEF Clears
  <2> QED BY <2>3, <2>4
<1>6. ASSUME NEW r \in Requests, PolicyTransitions(r)
      PROVE  Clears'
  <2>1. /\ entries = {} /\ clear = "no" /\ current \notin draining /\ current < MaxThreads
        /\ UNCHANGED <<answer, current, queue, clear>> /\ Pending = {} /\ current \in 1..MaxThreads
    BY <1>6 DEF PolicyTransitions, OneClear, Clears, settleVars, Shape
  <2>2. CASE Registers(r) /\ UNCHANGED entries
    <3>1. Pending' \subseteq {r}
      BY <2>1, <2>2 DEF Registers, Pending, Answered
    <3>2. draining' = draining \cup {current} /\ draining' \subseteq 1..current'
      BY <2>1, <2>2 DEF Registers, Clears
    <3> QED BY <2>1, <2>2, <3>1, <3>2 DEF Clears
  <2>3. CASE entries' = entries \cup {r} /\ UNCHANGED <<draining, afterReply>>
    <3>1. Pending' = {}
      BY <2>1, <2>3 DEF Pending, Answered
    <3> QED BY <2>1, <2>3, <3>1 DEF Clears
  <2> QED BY <1>6, <2>2, <2>3 DEF PolicyTransitions
<1>7. ASSUME NEW r \in Requests, PolicyResolves(r)
      PROVE  Clears'
  <2>1. ~Answered(r) /\ UNCHANGED <<draining, current, entries, afterReply>>
    BY <1>7 DEF PolicyResolves, Progress, threadVars
  <2>2. CASE \E how \in {"accept", "decline"} : Settle({r}, how) /\ RunsAfterReply({r}, how)
    BY <2>1, <2>2, AfterReplyClears
  <2>3. CASE Park(r, kind[r], thread[r]) /\ UNCHANGED <<queue, clear>>
    BY <2>1, <2>3, ParkStage, PendingShrinks, ClearsKept DEF Answered
  <2> QED BY <1>7, <2>2, <2>3 DEF PolicyResolves
<1>8. ASSUME NEW r \in Requests, EntryFinishes(r)
      PROVE  Clears'
  <2>1. /\ r \in entries /\ clear = "no" /\ current \notin draining /\ current < MaxThreads
        /\ UNCHANGED <<answer, current, queue, clear>> /\ Pending = {} /\ entries' = {}
        /\ current \in 1..MaxThreads
    BY <1>8 DEF EntryFinishes, Clears, settleVars, Shape
  <2>2. Pending' \subseteq {r}
    BY <1>8, <2>1 DEF EntryFinishes, Registers, Pending, Answered
  <2>3. draining' = draining \cup {current} /\ draining' \subseteq 1..current'
    BY <1>8, <2>1 DEF EntryFinishes, Registers, Clears
  <2> QED BY <2>1, <2>2, <2>3 DEF Clears
<1>9. CASE TransitionElsewhere
  <2>1. /\ entries = {} /\ clear = "no" /\ current \notin draining /\ current < MaxThreads
        /\ UNCHANGED <<answer, current, entries, afterReply>> /\ current \in 1..MaxThreads
        /\ draining' = draining \cup {current}
    BY <1>9 DEF TransitionElsewhere, OneClear, settleVars, Shape
  <2>2. Pending' = {} /\ draining' \subseteq 1..current'
    BY <2>1 DEF Clears, Pending, Answered
  <2>3. CASE clear' = "queued"
    BY <2>1, <2>2, <2>3 DEF Clears
  <2>4. CASE clear' = "beside" /\ UNCHANGED queue
    BY <2>1, <2>2, <2>4 DEF Clears
  <2> QED BY <1>9, <2>3, <2>4 DEF TransitionElsewhere
<1>10. CASE ClearOpensBeside
  BY <1>10, PendingShrinks DEF ClearOpensBeside, Clears, settleVars, threadVars, Answered
<1>11. CASE ClearBinds
  <2>1. /\ clear = "opening" /\ clear' = "bound" /\ current' = current + 1
        /\ UNCHANGED <<draining, queue, entries, afterReply>>
        /\ Pending = {} /\ entries = {}
    BY <1>11 DEF ClearBinds, Clears
  <2>2. Pending' = {}
    BY <1>11, <2>1, SettlePending DEF ClearBinds
  <2>3. draining' \subseteq 1..current' /\ current' \notin draining'
    BY <2>1 DEF Clears, Shape
  <2> QED BY <2>1, <2>2, <2>3 DEF Clears
<1>12. CASE ClearFinishes
  <2>1. /\ clear = "bound" /\ clear' = "no" /\ draining' = draining \ {current - 1}
        /\ UNCHANGED <<current, queue, entries, afterReply, answer>>
        /\ Pending = {} /\ entries = {} /\ current \notin draining
    BY <1>12 DEF ClearFinishes, Drains, Clears, settleVars
  <2>2. Pending' = {}
    BY <2>1 DEF Pending, Answered
  <2> QED BY <2>1, <2>2 DEF Clears
<1>13. CASE SidecarCloses
  BY <1>13, PendingShrinks, ClearsKept DEF SidecarCloses, settleVars, taskVars, Answered
<1>14. CASE Close
  BY <1>14, SettlePending, ClearsKept DEF Close, threadVars, taskVars
<1>15. CASE UNCHANGED vars
  BY <1>15, PendingShrinks, ClearsKept DEF vars, settleVars, threadVars, taskVars, Answered
<1> QED
  BY <1>1, <1>2, <1>3, <1>4, <1>5, <1>6, <1>7, <1>8, <1>9, <1>10, <1>11, <1>12, <1>13, <1>14, <1>15
     DEF Next, Policy, Clearing
(************************** the changes cards show **************************)
LEMMA InStepKept ==
    ASSUME Shape, InStep, UNCHANGED <<diffs, latest>>, current' \in Nat, current' >= current,
           \A th \in Threads : Routable(th)' => Routable(th) \/ th > current
    PROVE  InStep'
BY ApprovalsAssumption DEF InStep, Shape, Threads

LEMMA InStepStep ==
    ASSUME Shape, Clears, InStep, [Next]_vars
    PROVE  InStep'
<1> USE ApprovalsAssumption
<1>1. current \in Nat /\ MaxThreads \in Nat
  BY DEF Shape
<1>2. ASSUME UNCHANGED <<diffs, latest, threadVars>>
      PROVE  InStep'
  BY <1>1, <1>2, InStepKept DEF threadVars, Routable, Live
<1>3. ASSUME NEW th \in Threads, DiffArrives(th)
      PROVE  InStep'
  <2>1. UNCHANGED threadVars /\ latest' = [latest EXCEPT ![th] = latest[th] + 1] /\ ~(th > current)
    BY <1>1, <1>3 DEF DiffArrives, Threads
  <2>2. CASE Routable(th)
    <3>1. diffs' = [diffs EXCEPT ![th] = latest[th] + 1]
      BY <1>3, <2>2 DEF DiffArrives
    <3> QED BY <2>1, <2>2, <3>1 DEF InStep, Shape, threadVars, Routable, Live
  <2>3. CASE ~Routable(th)
    <3>1. diffs' = diffs
      BY <1>3, <2>3 DEF DiffArrives
    <3> QED BY <2>1, <2>3, <3>1 DEF InStep, Shape, threadVars, Routable, Live
  <2> QED BY <2>2, <2>3
<1>4. ASSUME NEW r \in Requests, Registers(r), UNCHANGED <<diffVars, sidecarOpen, current>>
      PROVE  InStep'
  BY <1>1, <1>4, InStepKept DEF Registers, diffVars, Routable, Live
<1>5. ASSUME NEW r \in Requests, PolicyTransitions(r)
      PROVE  InStep'
  BY <1>2, <1>4, <1>5 DEF PolicyTransitions, diffVars, threadVars
<1>6. ASSUME NEW r \in Requests, EntryFinishes(r)
      PROVE  InStep'
  BY <1>4, <1>6 DEF EntryFinishes
<1>7. CASE TransitionElsewhere
  BY <1>1, <1>7, InStepKept DEF TransitionElsewhere, diffVars, Routable, Live
<1>8. CASE ClearBinds
  <2>1. current' = current + 1 /\ UNCHANGED <<diffs, latest, sidecarOpen, draining>>
    BY <1>8 DEF ClearBinds, diffVars
  <2>2. \A th \in Threads : Routable(th)' => Routable(th) \/ th > current
    BY <1>1, <2>1 DEF Routable, Live
  <2> QED BY <1>1, <2>1, <2>2, InStepKept
<1>9. CASE ClearFinishes
  <2>1. UNCHANGED <<diffs, latest, sidecarOpen, current>> /\ draining' = draining \ {current - 1}
    BY <1>9 DEF ClearFinishes, Drains, diffVars
  <2>2. \A th \in Threads : Routable(th)' => Routable(th)
    BY <1>1, <2>1 DEF Routable, Live
  <2> QED BY <1>1, <2>1, <2>2, InStepKept
<1>10. CASE SidecarCloses
  BY <1>1, <1>10, InStepKept DEF SidecarCloses, diffVars, Routable, Live
<1>11. ASSUME NEW k \in Kinds, NEW th \in Threads, RequestArrives(k, th) PROVE InStep'
  BY <1>2, <1>11 DEF RequestArrives
<1>12. ASSUME NEW r \in Requests, CodexWithdraws(r) PROVE InStep'
  BY <1>2, <1>12 DEF CodexWithdraws, diffVars
<1>13. ASSUME NEW r \in Requests, NEW how \in {"accept", "decline"}, OwnerDecides(r, how)
       PROVE  InStep'
  BY <1>2, <1>13 DEF OwnerDecides, diffVars
<1>14. ASSUME NEW r \in Requests, PolicyResolves(r) PROVE InStep'
  BY <1>2, <1>14 DEF PolicyResolves
<1>15. CASE BeginSegment \/ ClearOpensBeside \/ Close \/ UNCHANGED vars
  BY <1>2, <1>15 DEF BeginSegment, ClearOpensBeside, Close, vars, diffVars
<1> QED
  BY <1>3, <1>5, <1>6, <1>7, <1>8, <1>9, <1>10, <1>11, <1>12, <1>13, <1>14, <1>15
     DEF Next, Policy, Clearing

Cards == CardsOfBoundThread /\ CardShowsDiff

LEMMA CardsKept ==
    ASSUME Cards, cards' \subseteq cards, UNCHANGED <<kind, thread, shown, latest, current>>,
           \A th : Routable(th)' => Routable(th)
    PROVE  Cards'
BY DEF Cards, CardsOfBoundThread, CardShowsDiff

(* A request is put on the page for a thread the run still routes, with the *)
(* change known by then.                                                    *)
LEMMA ParkCards ==
    ASSUME Shape, Cards, InStep, NEW r \in Requests, r \notin cards, NEW k \in Kinds,
           NEW th \in Threads, Routable(th), Park(r, k, th),
           kind' = [kind EXCEPT ![r] = k], thread' = [thread EXCEPT ![r] = th],
           UNCHANGED <<latest, threadVars>>
    PROVE  Cards'
<1>1. cards' = cards \cup {r} /\ kind'[r] = k /\ thread'[r] = th
      /\ \A q \in cards : q # r /\ kind'[q] = kind[q] /\ thread'[q] = thread[q] /\ q \in Requests
  BY DEF Park, Shape
<1>2. \A q \in cards : shown'[q] = shown[q]
  BY <1>1 DEF Park, Tracks, Shape
<1>3. k = "file" => shown'[r] = latest[th]
  BY DEF Park, Tracks, InStep, Shape
<1>4. \A t \in Threads : Routable(t)' <=> Routable(t)
  BY DEF Routable, Live, threadVars
<1>5. th \in {current, Sidecar}
  BY DEF Routable, Live
<1>6. CardsOfBoundThread'
  BY <1>1, <1>5 DEF Cards, CardsOfBoundThread, threadVars
<1>7. CardShowsDiff'
  <2> SUFFICES ASSUME NEW q \in cards', kind'[q] = "file", Routable(thread[q])'
               PROVE  shown'[q] = latest'[thread'[q]]
    BY DEF CardShowsDiff
  <2>1. CASE q = r
    BY <1>1, <1>3, <2>1
  <2>2. CASE q # r
    <3>1. q \in cards /\ kind[q] = "file" /\ thread'[q] = thread[q] /\ thread[q] \in Threads
      BY <1>1, <2>2 DEF Shape
    <3>2. Routable(thread[q])
      BY <3>1 DEF Routable, Live, threadVars
    <3> QED BY <1>2, <3>1, <3>2 DEF Cards, CardShowsDiff
  <2> QED BY <2>1, <2>2
<1> QED BY <1>6, <1>7 DEF Cards

LEMMA CardsStep ==
    ASSUME Shape, Progress, BooksAgree, Clears, InStep, Cards, [Next]_vars
    PROVE  Cards'
<1> USE ApprovalsAssumption
<1>1. ASSUME NEW k \in Kinds, NEW th \in Threads, RequestArrives(k, th)
      PROVE  Cards'
  <2> DEFINE r == arrived + 1
  <2>1. r \in Requests /\ r \notin cards
    BY <1>1 DEF RequestArrives, Shape, Requests, Progress, BooksAgree, Parked
  <2>2. /\ kind' = [kind EXCEPT ![r] = k] /\ thread' = [thread EXCEPT ![r] = th]
        /\ UNCHANGED <<latest, threadVars>>
    BY <1>1 DEF RequestArrives
  <2>3. CASE Routable(th) /\ Park(r, k, th)
    BY <2>1, <2>2, <2>3, ParkCards
  <2>4. CASE UNCHANGED <<cards, shown>>
    <3>1. \A q \in cards : kind'[q] = kind[q] /\ thread'[q] = thread[q]
      BY <2>1, <2>2 DEF Shape
    <3> QED BY <2>2, <2>4, <3>1
            DEF Cards, CardsOfBoundThread, CardShowsDiff, threadVars, Routable, Live
  <2> QED BY <1>1, <2>3, <2>4 DEF RequestArrives
<1>2. ASSUME NEW r \in Requests, CodexWithdraws(r)
      PROVE  Cards'
  BY <1>2, CardsKept
     DEF CodexWithdraws, Settle, settleVars, requestVars, diffVars, threadVars, Routable, Live
<1>3. ASSUME NEW th \in Threads, DiffArrives(th)
      PROVE  Cards'
  <2>1. /\ UNCHANGED <<cards, tracked, kind, thread, current, sidecarOpen, draining>>
        /\ latest' = [latest EXCEPT ![th] = latest[th] + 1]
    BY <1>3 DEF DiffArrives, requestVars, settleVars, threadVars
  <2>2. CardsOfBoundThread'
    BY <2>1 DEF Cards, CardsOfBoundThread
  <2>3. CardShowsDiff'
    <3> SUFFICES ASSUME NEW q \in cards, kind[q] = "file", Routable(thread[q])
                 PROVE  shown'[q] = latest'[thread[q]]
      BY <2>1 DEF CardShowsDiff, Routable, Live
    <3>1. /\ q \in Requests /\ q \in tracked /\ shown[q] = latest[thread[q]]
          /\ thread[q] \in Threads
      BY DEF Cards, CardShowsDiff, BooksAgree, Shape
    <3>2. CASE thread[q] = th
      BY <1>3, <2>1, <3>1, <3>2 DEF DiffArrives, Shape
    <3>3. CASE thread[q] # th
      BY <1>3, <2>1, <3>1, <3>3 DEF DiffArrives, Shape
    <3> QED BY <3>2, <3>3
  <2> QED BY <2>2, <2>3 DEF Cards
<1>4. ASSUME NEW r \in Requests, NEW how \in {"accept", "decline"}, OwnerDecides(r, how)
      PROVE  Cards'
  BY <1>4, CardsKept
     DEF OwnerDecides, Settle, requestVars, diffVars, threadVars, Routable, Live
<1>5. CASE BeginSegment
  BY <1>5, CardsKept DEF BeginSegment, requestVars, diffVars, threadVars, Routable, Live
<1>6. ASSUME NEW r \in Requests, PolicyTransitions(r)
      PROVE  Cards'
  BY <1>6, CardsKept
     DEF PolicyTransitions, Registers, requestVars, settleVars, diffVars, Routable, Live
<1>7. ASSUME NEW r \in Requests, PolicyResolves(r)
      PROVE  Cards'
  <2>1. CASE Park(r, kind[r], thread[r]) /\ Routable(thread[r])
    <3>1. r \notin cards /\ kind[r] \in Kinds /\ thread[r] \in Threads
      BY <1>7 DEF PolicyResolves, Progress, BooksAgree, Parked, Shape
    <3>2. kind' = [kind EXCEPT ![r] = kind[r]] /\ thread' = [thread EXCEPT ![r] = thread[r]]
          /\ UNCHANGED <<latest, threadVars>>
      BY <1>7 DEF PolicyResolves, requestVars, Shape
    <3> QED BY <2>1, <3>1, <3>2, ParkCards
  <2>2. CASE UNCHANGED shown /\ \E how \in {"accept", "decline"} : Settle({r}, how)
    BY <1>7, <2>2, CardsKept DEF PolicyResolves, Settle, requestVars, threadVars, Routable, Live
  <2> QED BY <1>7, <2>1, <2>2 DEF PolicyResolves, StillRoutable
<1>8. ASSUME NEW r \in Requests, EntryFinishes(r)
      PROVE  Cards'
  BY <1>8, CardsKept
     DEF EntryFinishes, Registers, requestVars, settleVars, diffVars, Routable, Live
<1>9. CASE TransitionElsewhere
  BY <1>9, CardsKept
     DEF TransitionElsewhere, requestVars, settleVars, diffVars, Routable, Live
<1>10. CASE ClearOpensBeside
  BY <1>10, CardsKept
     DEF ClearOpensBeside, requestVars, settleVars, diffVars, threadVars, Routable, Live
<1>11. CASE ClearBinds
  <2>1. /\ cards' = cards \ Abandons(current + 1) /\ current' = current + 1
        /\ UNCHANGED <<kind, thread, shown, latest, sidecarOpen, draining>>
    BY <1>11 DEF ClearBinds, Settle, requestVars, diffVars
  <2>2. \A q \in cards' : q \in cards /\ thread[q] = Sidecar /\ sidecarOpen
    <3> TAKE q \in cards'
    <3>0. q \in cards /\ q \notin Abandons(current + 1)
      BY <2>1
    <3>1. q \in Parked /\ thread[q] \in {current, Sidecar}
      BY <3>0 DEF BooksAgree, Cards, CardsOfBoundThread
    <3>2. thread[q] = current + 1 \/ (thread[q] = Sidecar /\ sidecarOpen)
      BY <3>0, <3>1 DEF Abandons
    <3>3. current + 1 # current /\ current + 1 # Sidecar
      BY DEF Shape, Sidecar
    <3> QED BY <3>0, <3>1, <3>2, <3>3
  <2> QED BY <2>1, <2>2 DEF Cards, CardsOfBoundThread, CardShowsDiff, Routable
<1>12. CASE ClearFinishes
  <2>1. /\ UNCHANGED <<cards, kind, thread, shown, latest, sidecarOpen, current>>
        /\ draining' = draining \ {current - 1}
    BY <1>12 DEF ClearFinishes, Drains, requestVars, settleVars, diffVars
  <2>2. \A th : Routable(th)' => Routable(th)
    BY <2>1 DEF Routable, Live, Shape
  <2> QED BY <2>1, <2>2, CardsKept
<1>13. CASE SidecarCloses
  BY <1>13, CardsKept
     DEF SidecarCloses, requestVars, settleVars, diffVars, Routable, Live
<1>14. CASE Close
  BY <1>14, CardsKept DEF Close, Settle, requestVars, diffVars, threadVars, Routable, Live
<1>15. CASE UNCHANGED vars
  BY <1>15, CardsKept DEF vars, requestVars, settleVars, diffVars, threadVars, Routable, Live
<1> QED
  BY <1>1, <1>2, <1>3, <1>4, <1>5, <1>6, <1>7, <1>8, <1>9, <1>10, <1>11, <1>12, <1>13, <1>14, <1>15
     DEF Next, Policy, Clearing
(******************************** the theorems ******************************)
IInv == Shape /\ Progress /\ Waiting /\ BooksAgree /\ Clears /\ InStep /\ Cards

LEMMA IInvInit == Init => IInv
<1> SUFFICES ASSUME Init PROVE IInv
  OBVIOUS
<1> USE ApprovalsAssumption
<1>1. Parked = {} /\ cards = {} /\ tracked = {} /\ pauses = 0
  BY DEF Init, Parked
<1>2. {r \in Parked : thread[r] = Sidecar} = {}
  BY <1>1
<1>3. BooksAgree
  BY <1>1, <1>2, FS_EmptySet DEF BooksAgree
<1>4. Progress /\ Waiting
  BY DEF Init, Progress, Waiting, Answered, Free, Requests
<1>5. Clears
  BY DEF Init, Clears, Pending
<1>6. InStep
  BY DEF Init, InStep
<1>7. Cards
  BY <1>1 DEF Cards, CardsOfBoundThread, CardShowsDiff
<1> QED BY <1>3, <1>4, <1>5, <1>6, <1>7, ShapeInit DEF IInv

THEOREM Invariance == Spec => []IInv
<1>1. Init => IInv
  BY IInvInit
<1>2. IInv /\ [Next]_vars => IInv'
  BY ShapeStep, ProgressStep, BooksStep, ClearsStep, InStepStep, CardsStep DEF IInv
<1> QED BY <1>1, <1>2, PTL DEF Spec

(* The history variable is set once, by an onEntry that returns late.       *)
LEMMA LateStep ==
    ASSUME late \in BOOLEAN, [Next]_vars
    PROVE  late' \in BOOLEAN /\ (late => late')
<1>1. ASSUME NEW r \in Requests, EntryFinishes(r)
      PROVE  late' \in BOOLEAN /\ (late => late')
  BY <1>1 DEF EntryFinishes
<1> QED
  BY <1>1 DEF Next, Policy, Clearing, RequestArrives, CodexWithdraws, DiffArrives, OwnerDecides,
              BeginSegment, PolicyTransitions, PolicyResolves, TransitionElsewhere,
              ClearOpensBeside, ClearBinds, ClearFinishes, SidecarCloses, Close, vars

LEMMA LateTyped == Spec => [](late \in BOOLEAN)
<1>1. Init => late \in BOOLEAN
  BY DEF Init
<1>2. late \in BOOLEAN /\ [Next]_vars => (late \in BOOLEAN)'
  BY LateStep
<1> QED BY <1>1, <1>2, PTL DEF Spec

(* Every variable keeps its shape: in particular the pauses of the sidecar  *)
(* never go below zero and the run never opens more threads than it has.    *)
THEOREM TypeCorrect == Spec => []TypeOK
<1>1. IInv /\ late \in BOOLEAN => TypeOK
  <2> SUFFICES ASSUME IInv, late \in BOOLEAN PROVE TypeOK
    OBVIOUS
  <2>1. pauses \in Nat
    <3>1. SidecarParked \in SUBSET Requests
      BY DEF SidecarParked, Parked
    <3> QED BY <3>1, FiniteRequests DEF IInv, BooksAgree, SidecarParked
  <2> QED BY <2>1 DEF IInv, Shape, TypeOK
<1> QED BY <1>1, Invariance, LateTyped, PTL

(* However a request is settled, its card, the tracker's note and the pause *)
(* of a sidecar's timeout go with it (removePending, publishResolved).      *)
THEOREM BooksCorrect == Spec => []BooksAgree
<1>1. IInv => BooksAgree
  BY DEF IInv
<1> QED BY <1>1, Invariance, PTL

(* The owner is never asked about a thread that has been replaced           *)
(* (abandonInactiveRequests, on every change of the binding).               *)
THEOREM OnlyBoundCards == Spec => []CardsOfBoundThread
<1>1. IInv => CardsOfBoundThread
  BY DEF IInv, Cards
<1> QED BY <1>1, Invariance, PTL

(* A file card of a thread that still works shows the last change           *)
(* (createFileChangeTracker, followed from the moment a card is published). *)
THEOREM CardsCurrent == Spec => []CardShowsDiff
<1>1. IInv => CardShowsDiff
  BY DEF IInv, Cards
<1> QED BY <1>1, Invariance, PTL

(* Nothing is granted to a replaced thread, although its request was let in *)
(* before the policy was awaited (the second check of applyPermissionPolicy).*)
THEOREM GrantsChecked == Spec => GrantsForBoundThread
<1> DEFINE Granted == \A r \in Requests : answer[r] = "none" /\ answer'[r] = "accept"
                                         => thread[r] \in {current, Sidecar}
<1>1. IInv /\ [Next]_vars => [Granted]_vars
  <2> SUFFICES ASSUME IInv, [Next]_vars, NEW r \in Requests,
                      answer[r] = "none", answer'[r] = "accept"
               PROVE  thread[r] \in {current, Sidecar}
    OBVIOUS
  <2>0. Shape
    BY DEF IInv
  <2>1. ASSUME NEW S \in SUBSET Requests, NEW how, Settle(S, how)
        PROVE  how = "accept" /\ r \in S
    BY <2>1 DEF Settle
  <2>2. ASSUME NEW q \in Requests, NEW how \in {"accept", "decline"}, OwnerDecides(q, how)
        PROVE  thread[r] \in {current, Sidecar}
    <3>1. r \in Parked
      BY <2>1, <2>2 DEF OwnerDecides
    <3> QED BY <3>1 DEF IInv, Cards, CardsOfBoundThread, BooksAgree
  <2>3. ASSUME NEW q \in Requests, PolicyResolves(q)
        PROVE  thread[r] \in {current, Sidecar}
    <3>1. Routable(thread[q]) /\ r = q
      BY <2>0, <2>1, <2>3, ParkStage DEF PolicyResolves, StillRoutable
    <3> QED BY <3>1 DEF Routable, Live
  <2>4. ASSUME NEW k \in Kinds, NEW th \in Threads, RequestArrives(k, th)
        PROVE  FALSE
    <3>1. arrived + 1 \in Requests
      BY <2>4, ApprovalsAssumption DEF RequestArrives, IInv, Shape, Requests
    <3>2. answer' = answer \/ answer' = [answer EXCEPT ![arrived + 1] = "decline"]
      BY <2>0, <2>4, <3>1, ParkStage DEF RequestArrives
    <3> QED BY <2>0, <3>1, <3>2 DEF Shape
  <2>5. ASSUME NEW q \in Requests, CodexWithdraws(q)
        PROVE  FALSE
    BY <2>1, <2>5 DEF CodexWithdraws, settleVars
  <2>6. CASE ClearBinds
    BY <2>1, <2>6 DEF ClearBinds, Abandons, Parked
  <2>7. CASE Close
    BY <2>1, <2>7 DEF Close, Parked
  <2>8. answer' # answer
    OBVIOUS
  <2> QED
    BY <2>2, <2>3, <2>4, <2>5, <2>6, <2>7, <2>8
       DEF Next, Policy, Clearing, DiffArrives, BeginSegment, PolicyTransitions, EntryFinishes,
           TransitionElsewhere, ClearOpensBeside, ClearFinishes, SidecarCloses, vars, settleVars
<1> QED BY <1>1, Invariance, PTL DEF Spec, GrantsForBoundThread
(************************** a draining thread is cleared ********************)
Draining == Registered /\ ClearIsComing

(* Steps that settle nothing a clear waits for and leave the clear alone.   *)
LEMMA DrainingKept ==
    ASSUME Draining, UNCHANGED <<thread, draining, current, clear>>, Pending' = Pending,
           chain' = chain \/ Pending = {},
           \A r \in Requests : stage'[r] \in {"policy", "running"}
                                 => stage[r] \in {"policy", "running"}
    PROVE  Draining'
<1>0. /\ (\E r \in afterReply : ~Answered(r)) <=> Pending # {}
      /\ ((\E r \in afterReply : ~Answered(r)) <=> Pending # {})'
  BY DEF Pending
<1>1. ClearIsComing <=> (current \in draining => clear # "no" \/ Pending # {})
  BY <1>0 DEF ClearIsComing
<1>2. ClearIsComing' <=> (current' \in draining' => clear' # "no" \/ Pending' # {})
  BY <1>0 DEF ClearIsComing
<1> QED BY <1>1, <1>2 DEF Draining, Registered

LEMMA PendingKept ==
    ASSUME Shape, Progress, Registered, NEW S \in SUBSET Parked,
           NEW how \in {"accept", "decline", "noReply"}, Settle(S, how), afterReply' = afterReply
    PROVE  /\ Pending' = Pending
           /\ \A r \in Requests : stage'[r] \in {"policy", "running"}
                                    => stage[r] \in {"policy", "running"}
<1>1. \A r \in Pending : r \in Requests /\ r \notin S
  BY DEF Registered, Progress, Parked, Pending, Shape
<1> QED BY <1>1 DEF Settle, Pending, Answered, Parked, Shape

LEMMA DrainingStep ==
    ASSUME IInv, Draining, ~late', [Next]_vars
    PROVE  Draining'
<1> USE ApprovalsAssumption
<1>21. Shape /\ Progress /\ Waiting /\ Clears /\ Registered
  BY DEF IInv, Draining, Registered
<1>22. Pending \subseteq Requests
  BY <1>21 DEF Pending, Shape
<1>23. Free \notin Requests /\ ClearSegment \notin Requests
  BY DEF Free, ClearSegment, Requests
<1>0. /\ Shape /\ Progress /\ Waiting /\ Clears /\ Registered
      /\ Free \notin Requests /\ ClearSegment \notin Requests /\ Pending \subseteq Requests
  BY <1>21, <1>22, <1>23
<1>1. ASSUME NEW k \in Kinds, NEW th \in Threads, RequestArrives(k, th)
      PROVE  Draining'
  <2> DEFINE r == arrived + 1
  <2>1. /\ r \in Requests /\ r \notin Pending
        /\ UNCHANGED <<draining, current, clear, entries, afterReply, chain>>
        /\ thread' = [thread EXCEPT ![r] = th]
    <3>1. r \in Requests /\ stage[r] = "new"
      BY <1>0, <1>1 DEF RequestArrives, Shape, Requests, Progress
    <3> QED BY <1>0, <1>1, <3>1 DEF RequestArrives, threadVars, Registered, Progress
  <2>2. answer' = answer \/ answer' = [answer EXCEPT ![r] = "decline"]
    BY <1>0, <1>1, <2>1, ParkStage DEF RequestArrives
  <2>3. Pending' = Pending
    BY <1>0, <2>1, <2>2 DEF Pending, Answered, Shape
  <2>4. \A q \in Requests : stage'[q] \in {"policy", "running"} => thread'[q] # Sidecar
    <3>1. \/ stage' = [stage EXCEPT ![r] = "settled"] \/ stage' = [stage EXCEPT ![r] = "parked"]
          \/ stage' = [stage EXCEPT ![r] = "policy"] /\ th = current
      BY <1>0, <1>1, <2>1, ParkStage DEF RequestArrives, Live
    <3>2. current # Sidecar
      BY <1>0 DEF Shape, Sidecar
    <3> QED BY <1>0, <2>1, <3>1, <3>2 DEF Registered, Shape
  <2>5. ClearIsComing'
    BY <2>1, <2>3 DEF Draining, ClearIsComing, Pending
  <2> QED BY <1>0, <2>1, <2>3, <2>4, <2>5 DEF Draining, Registered
<1>2. ASSUME NEW r \in Requests, CodexWithdraws(r)
      PROVE  Draining'
  <2>1. CASE r \in Parked /\ Settle({r}, "noReply")
    BY <1>0, <1>2, <2>1, PendingKept, DrainingKept
       DEF CodexWithdraws, requestVars, threadVars, taskVars
  <2>2. CASE UNCHANGED settleVars
    BY <1>2, <2>2, DrainingKept
       DEF CodexWithdraws, settleVars, requestVars, threadVars, taskVars, Pending, Answered
  <2> QED BY <1>2, <2>1, <2>2 DEF CodexWithdraws
<1>3. ASSUME NEW th \in Threads, DiffArrives(th)
      PROVE  Draining'
  BY <1>3, DrainingKept
     DEF DiffArrives, settleVars, requestVars, threadVars, taskVars, Pending, Answered
<1>4. ASSUME NEW r \in Requests, NEW how \in {"accept", "decline"}, OwnerDecides(r, how)
      PROVE  Draining'
  <2>1. r \notin afterReply
    BY <1>0, <1>4 DEF OwnerDecides, Parked, Registered, Pending, Progress
  <2> QED BY <1>0, <1>4, <2>1, PendingKept, DrainingKept
          DEF OwnerDecides, RunsAfterReply, requestVars, threadVars
<1>5. CASE BeginSegment
  <2>1. /\ Pending = {} /\ Pending' = {}
        /\ UNCHANGED <<entries, thread, draining, current>>
    BY <1>0, <1>5 DEF BeginSegment, Registered, Pending, Answered, threadVars, requestVars
  <2>2. chain' = Head(queue) /\ Head(queue) = queue[1] /\ 1 \in DOMAIN queue
        /\ Head(queue) \in Requests \cup {ClearSegment}
    BY <1>0, <1>5, TailTyped DEF BeginSegment, Shape
  <2>3. CASE Head(queue) = ClearSegment
    <3>1. clear' = "opening" /\ stage' = stage
      BY <1>5, <2>3 DEF BeginSegment
    <3> QED BY <1>0, <2>1, <3>1 DEF Draining, Registered, ClearIsComing
  <2>4. CASE Head(queue) # ClearSegment
    <3>1. /\ clear' = clear /\ stage' = [stage EXCEPT ![Head(queue)] = "running"]
          /\ stage[Head(queue)] = "policy" /\ Head(queue) \in Requests
      BY <1>0, <1>5, <2>2, <2>4 DEF BeginSegment, Waiting
    <3>2. \A r \in Requests : stage'[r] \in {"policy", "running"}
                                => stage[r] \in {"policy", "running"}
      BY <1>0, <3>1 DEF Shape
    <3> QED BY <2>1, <3>1, <3>2, DrainingKept
  <2> QED BY <2>3, <2>4
<1>6. ASSUME NEW r \in Requests, PolicyTransitions(r)
      PROVE  Draining'
  <2>1. /\ chain = r /\ ~Answered(r) /\ Pending = {}
        /\ UNCHANGED <<answer, stage, thread, chain, current, clear>>
    BY <1>0, <1>6 DEF PolicyTransitions, OneClear, Clears, Progress, settleVars, requestVars
  <2>2. CASE Registers(r)
    <3>1. Pending' = {r}
      BY <2>1, <2>2 DEF Registers, Pending, Answered
    <3> QED BY <1>0, <2>1, <3>1 DEF Draining, Registered, ClearIsComing, Pending
  <2>3. CASE UNCHANGED <<draining, afterReply>>
    <3>1. Pending' = Pending
      BY <2>1, <2>3 DEF Pending, Answered
    <3> QED BY <2>1, <2>3, <3>1, DrainingKept
  <2> QED BY <1>6, <2>2, <2>3 DEF PolicyTransitions
<1>7. ASSUME NEW r \in Requests, PolicyResolves(r)
      PROVE  Draining'
  <2>1. /\ stage[r] = "running" /\ ~Answered(r) /\ Pending \subseteq {r} /\ thread[r] # Sidecar
        /\ UNCHANGED <<entries, thread, draining, current, afterReply>>
    BY <1>0, <1>7 DEF PolicyResolves, Progress, Registered, threadVars, requestVars
  <2>2. ASSUME NEW how \in {"accept", "decline"}, Settle({r}, how), RunsAfterReply({r}, how)
        PROVE  Draining'
    <3>0. \A q \in Requests : stage'[q] \in {"policy", "running"}
                                => stage[q] \in {"policy", "running"}
      BY <1>0, <2>2 DEF Settle, Shape
    <3>1. Pending' = {}
      BY <1>0, <2>1, <2>2, SettlePending
    <3>2. CASE r \in afterReply
      BY <1>0, <2>1, <2>2, <3>0, <3>1, <3>2 DEF RunsAfterReply, Draining, Registered, ClearIsComing
    <3>3. CASE r \notin afterReply
      <4>1. clear' = clear /\ Pending = {}
        BY <2>1, <2>2, <3>3 DEF RunsAfterReply, Pending
      <4> QED BY <2>1, <3>0, <3>1, <4>1, DrainingKept
    <3> QED BY <3>2, <3>3
  <2>3. CASE StillRoutable(thread[r]) /\ Park(r, kind[r], thread[r]) /\ UNCHANGED <<queue, clear>>
    <3>1. current \notin draining
      BY <2>1, <2>3 DEF StillRoutable, Routable, Live
    <3>2. Pending = {}
      BY <1>0, <3>1 DEF Clears
    <3>3. stage' = [stage EXCEPT ![r] = "parked"] /\ answer' = answer
      BY <2>3 DEF Park
    <3>4. Pending' = {} /\ \A q \in Requests : stage'[q] \in {"policy", "running"}
                                               => stage[q] \in {"policy", "running"}
      BY <1>0, <2>1, <3>2, <3>3 DEF Pending, Answered, Shape
    <3> QED BY <2>1, <2>3, <3>2, <3>4, DrainingKept
  <2> QED BY <1>7, <2>2, <2>3 DEF PolicyResolves
<1>8. ASSUME NEW r \in Requests, EntryFinishes(r)
      PROVE  Draining'
  <2>1. /\ chain = r /\ ~Answered(r) /\ Pending = {} /\ Registers(r)
        /\ UNCHANGED <<answer, stage, thread, chain>>
    BY <1>0, <1>8 DEF EntryFinishes, Clears, Progress, settleVars, requestVars
  <2>2. Pending' = {r}
    BY <2>1 DEF Registers, Pending, Answered
  <2> QED BY <1>0, <2>1, <2>2 DEF Draining, Registered, ClearIsComing, Pending
<1>9. CASE TransitionElsewhere
  <2>1. Pending = {} /\ Pending' = {} /\ clear' # "no"
    BY <1>0, <1>9 DEF TransitionElsewhere, OneClear, Clears, settleVars, Pending, Answered
  <2> QED BY <1>0, <1>9, <2>1
          DEF TransitionElsewhere, settleVars, requestVars, Draining, Registered, ClearIsComing
<1>10. CASE ClearOpensBeside
  <2>1. Pending' = Pending /\ clear' # "no"
    BY <1>10 DEF ClearOpensBeside, settleVars, Pending, Answered
  <2> QED BY <1>0, <1>10, <2>1
          DEF ClearOpensBeside, settleVars, requestVars, Draining, Registered, ClearIsComing
<1>11. CASE ClearBinds
  <2>1. Abandons(current + 1) \in SUBSET Parked /\ clear' # "no"
    BY <1>11 DEF Abandons, ClearBinds
  <2>2. /\ Pending' = Pending
        /\ \A r \in Requests : stage'[r] \in {"policy", "running"}
                                 => stage[r] \in {"policy", "running"}
    BY <1>0, <1>11, <2>1, PendingKept DEF ClearBinds
  <2> QED BY <1>0, <1>11, <2>1, <2>2
          DEF ClearBinds, requestVars, Draining, Registered, ClearIsComing
<1>12. CASE ClearFinishes
  <2>1. Pending = {} /\ Pending' = {} /\ current' \notin draining'
    BY <1>0, <1>12 DEF ClearFinishes, Drains, Clears, settleVars, Pending, Answered
  <2> QED BY <1>0, <1>12, <2>1
          DEF ClearFinishes, settleVars, requestVars, Draining, Registered, ClearIsComing
<1>13. CASE SidecarCloses
  BY <1>13, DrainingKept
     DEF SidecarCloses, settleVars, requestVars, taskVars, Pending, Answered
<1>14. CASE Close
  BY <1>0, <1>14, PendingKept, DrainingKept DEF Close, requestVars, threadVars, taskVars
<1>15. CASE UNCHANGED vars
  BY <1>15, DrainingKept
     DEF vars, settleVars, requestVars, threadVars, taskVars, Pending, Answered
<1> QED
  BY <1>1, <1>2, <1>3, <1>4, <1>5, <1>6, <1>7, <1>8, <1>9, <1>10, <1>11, <1>12, <1>13, <1>14, <1>15
     DEF Next, Policy, Clearing

(* Until an onEntry returns after its policy's request was answered, a      *)
(* thread that waits to be cleared has its clear under way, or registered   *)
(* on a reply that is still to be sent (scheduleFreshClearAfterTransition). *)
THEOREM ClearComes == Spec => []DrainingHasClear
<1> DEFINE Held == late \in BOOLEAN /\ (late \/ Draining)
<1>1. Init => Held
  <2> SUFFICES ASSUME Init PROVE Draining /\ late \in BOOLEAN
    OBVIOUS
  <2>1. Registered
    BY DEF Init, Registered, Pending
  <2>2. ClearIsComing
    BY DEF Init, ClearIsComing
  <2> QED BY <2>1, <2>2 DEF Draining, Init
<1>2. IInv /\ Held /\ [Next]_vars => Held'
  BY DrainingStep, LateStep
<1>3. Held => DrainingHasClear
  BY DEF Draining, DrainingHasClear
<1> QED BY <1>1, <1>2, <1>3, Invariance, PTL DEF Spec
=============================================================================
