-------------------------- MODULE TurnControlProofs --------------------------
(* Type correctness and safety of TurnControl, for every workflow and every *)
(* bound; and of Dispatch, for every tree of states and every set of         *)
(* candidate workflows.                                                     *)
EXTENDS TurnControl, DispatchState, FiniteSets, FiniteSetTheorems, SequenceTheorems, WellFoundedInduction, TLAPS

(******************************* typing lemmas ******************************)
LEMMA StartTyped == Start \in States
BY KindsAssumption

LEMMA OneIsThread == 1 \in Threads
BY BoundsAssumption DEF Threads

LEMMA MsgTyped ==
    ASSUME NEW k \in {"started", "completed", "item", "interrupted", "ask", "call"},
           NEW th \in Threads, NEW turn \in Nat, NEW id \in Nat
    PROVE  Msg(k, th, turn, id) \in Message
BY StartTyped DEF Msg, Message

LEMMA ReqTyped ==
    ASSUME NEW kind \in {"submit", "hook", "policy", "choice", "clear"}, NEW th \in Threads,
           NEW turn \in Nat, NEW from \in States, NEW to \in States, NEW id \in Nat
    PROVE  Req(kind, th, turn, from, to, id) \in Request
BY DEF Req, Request

LEMMA IdleTyped == Idle \in Request
BY StartTyped, OneIsThread DEF Idle, Request

LEMMA RepliedTyped ==
    ASSUME NEW c \in [Threads -> Endpoint], NEW th \in Threads, NEW turn \in Nat, NEW id \in Nat
    PROVE  Replied(c, th, turn, id) \in [Threads -> Endpoint]
BY DEF Replied, Endpoint, Calls, Nobody

LEMMA TurnOfTyped ==
    ASSUME NEW turn \in Nat, NEW active \in BOOLEAN PROVE TurnOf(turn, active) \in Endpoint
BY DEF TurnOf, Endpoint, Calls, Nobody

LEMMA StoppedTyped ==
    ASSUME codex \in [Threads -> Endpoint], NEW th \in Threads
    PROVE  Stopped(th) \in [Threads -> Endpoint]
<1>1. codex[th].turn \in Nat
  BY DEF Endpoint
<1> QED BY <1>1, TurnOfTyped DEF Stopped

LEMMA EndTyped ==
    ASSUME ended \in {"no", "terminal", "failed"}, NEW how \in {"terminal", "failed"}, End(how)
    PROVE  ended' \in {"no", "terminal", "failed"}
BY DEF End

LEMMA AppendTyped ==
    ASSUME NEW S, NEW s \in Seq(S), NEW e \in S PROVE Append(s, e) \in Seq(S)
BY AppendProperties

LEMMA TailTyped ==
    ASSUME NEW S, NEW s \in Seq(S), s # <<>> PROVE Tail(s) \in Seq(S) /\ Head(s) \in S
BY HeadTailProperties

LEMMA StartTurnTyped ==
    ASSUME codex \in [Threads -> Endpoint], turns \in Nat, calls \in Nat,
           NEW th \in Threads, NEW w \in Seq(Message), StartTurn(th, w)
    PROVE  /\ codex' \in [Threads -> Endpoint] /\ turns' \in Nat /\ calls' \in Nat
           /\ wire' \in Seq(Message)
<1>1. CASE codex[th].active
  BY <1>1 DEF StartTurn
<1>2. CASE ~codex[th].active
  <2>1. Msg("started", th, turns + 1, Nobody) \in Message
    BY MsgTyped DEF Nobody
  <2>2. wire' \in Seq(Message)
    BY <1>2, <2>1, AppendTyped DEF StartTurn
  <2>3. codex' \in [Threads -> Endpoint] /\ turns' \in Nat /\ calls' \in Nat
    <3> DEFINE fresh == TurnOf(turns + 1, TRUE)
    <3>1. fresh \in Endpoint
      BY DEF TurnOf, Endpoint, Calls, Nobody
    <3>2. /\ codex' = [codex EXCEPT ![th] = fresh]
          /\ turns' = turns + 1 /\ calls' = calls
      BY <1>2 DEF StartTurn
    <3> HIDE DEF fresh
    <3> QED BY <3>1, <3>2
  <2> QED BY <2>2, <2>3
<1> QED BY <1>1, <1>2

LEMMA CommitTyped ==
    ASSUME commits \in Nat, NEW to \in States, CommitTo(to)
    PROVE  fsm' \in States /\ commits' \in Nat /\ swaps' \in Nat
BY DEF CommitTo

LEMMA ScheduleClearTyped ==
    ASSUME draining \subseteq Threads, clears \subseteq ClearTask, queue \in Seq(Request),
           fsm \in States, NEW th \in Threads, NEW turn \in Nat, NEW id \in Nat,
           NEW held \in BOOLEAN, ScheduleClear(th, turn, id, held)
    PROVE  draining' \subseteq Threads /\ clears' \subseteq ClearTask /\ queue' \in Seq(Request)
<1>1. Req("clear", th, turn, fsm, fsm, id) \in Request
  BY ReqTyped
<1>2. queue' \in Seq(Request)
  BY <1>1, AppendTyped DEF ScheduleClear
<1>3. draining' \subseteq Threads /\ clears' \subseteq ClearTask
  BY DEF ScheduleClear, ClearTask, Nobody
<1> QED BY <1>2, <1>3

LEMMA DriveForwardTyped ==
    ASSUME codex \in [Threads -> Endpoint], turns \in Nat, calls \in Nat, current \in Threads,
           ended \in {"no", "terminal", "failed"}, NEW flag, NEW w \in Seq(Message),
           DriveForward(flag, w)
    PROVE  /\ codex' \in [Threads -> Endpoint] /\ turns' \in Nat /\ calls' \in Nat
           /\ wire' \in Seq(Message) /\ ended' \in {"no", "terminal", "failed"}
BY StartTurnTyped, EndTyped DEF DriveForward

(***************************** type correctness *****************************)
LEMMA InitTyped == Init => TypeOK
<1> SUFFICES ASSUME Init PROVE TypeOK
  OBVIOUS
<1>1. codex \in [Threads -> Endpoint]
  BY TurnOfTyped DEF Init
<1>2. wire \in Seq(Message)
  <2>1. Msg("started", 1, 1, Nobody) \in Message
    BY MsgTyped, OneIsThread DEF Nobody
  <2> QED BY <2>1 DEF Init
<1>3. queue \in Seq(Request) /\ segment \in Request
  BY IdleTyped DEF Init
<1> QED BY <1>1, <1>2, <1>3, StartTyped, OneIsThread DEF Init, TypeOK

(* Codex's and the owner's actions.                                         *)
LEMMA CodexTyped ==
    ASSUME TypeOK, NEW th \in Threads,
           CodexSubmits(th) \/ CodexAsksOwner(th) \/ CodexItem(th) \/ CodexCompletes(th)
             \/ (\E kind \in {"hook", "policy"} : HookFrame(th, kind))
    PROVE  TypeOK'
<1> USE DEF fsmVars, threadVars, codexVars, ownerVars, chainVars, taskVars, endVars
<1>1. CASE CodexSubmits(th)
  <2>1. PICK e \in Submits :
          /\ codex' = [codex EXCEPT ![th].call = "sent"]
          /\ wire' = Append(wire, [k |-> "call", thread |-> th, turn |-> codex[th].turn,
                                   id |-> calls + 1, from |-> e[1], to |-> e[2]])
    BY <1>1 DEF CodexSubmits
  <2>2. e[1] \in States /\ e[2] \in States
    BY EdgesAssumption, KindsAssumption
  <2>3. codex[th].turn \in Nat
    BY DEF TypeOK, Endpoint
  <2>4. wire' \in Seq(Message)
    <3>1. [k |-> "call", thread |-> th, turn |-> codex[th].turn, id |-> calls + 1,
           from |-> e[1], to |-> e[2]] \in Message
      BY <2>2, <2>3 DEF TypeOK, Message
    <3> QED BY <2>1, <3>1, AppendTyped DEF TypeOK
  <2>5. codex' \in [Threads -> Endpoint]
    BY <2>1 DEF TypeOK, Endpoint, Calls
  <2>6. calls' \in Nat
    BY <1>1 DEF CodexSubmits, TypeOK
  <2> QED BY <1>1, <2>4, <2>5, <2>6 DEF CodexSubmits, TypeOK
<1>2. CASE CodexAsksOwner(th)
  <2>1. codex[th].turn \in Nat
    BY DEF TypeOK, Endpoint
  <2>2. Msg("ask", th, codex[th].turn, Nobody) \in Message
    BY <2>1, MsgTyped DEF Nobody
  <2>3. wire' \in Seq(Message)
    BY <1>2, <2>2, AppendTyped DEF CodexAsksOwner, TypeOK
  <2>4. codex' \in [Threads -> Endpoint]
    BY <1>2 DEF CodexAsksOwner, TypeOK, Endpoint, Calls
  <2>5. asks' \in Nat
    BY <1>2 DEF CodexAsksOwner, TypeOK
  <2> QED BY <1>2, <2>3, <2>4, <2>5 DEF CodexAsksOwner, TypeOK
<1>3. CASE CodexItem(th)
  <2>1. codex[th].turn \in Nat /\ codex[th].id \in Nat
    BY DEF TypeOK, Endpoint
  <2>2. Msg("item", th, codex[th].turn, codex[th].id) \in Message
    BY <2>1, MsgTyped
  <2>3. wire' \in Seq(Message)
    BY <1>3, <2>2, AppendTyped DEF CodexItem, TypeOK
  <2>4. codex' \in [Threads -> Endpoint]
    BY <1>3 DEF CodexItem, TypeOK, Endpoint, Calls, Nobody
  <2> QED BY <1>3, <2>3, <2>4 DEF CodexItem, TypeOK
<1>4. CASE CodexCompletes(th)
  <2>1. codex[th].turn \in Nat
    BY DEF TypeOK, Endpoint
  <2>2. Msg("completed", th, codex[th].turn, Nobody) \in Message
    BY <2>1, MsgTyped DEF Nobody
  <2>3. wire' \in Seq(Message)
    BY <1>4, <2>2, AppendTyped DEF CodexCompletes, TypeOK
  <2>4. codex' \in [Threads -> Endpoint] /\ faults' \in Nat
    BY <1>4, StoppedTyped DEF CodexCompletes, TypeOK
  <2> QED BY <1>4, <2>3, <2>4 DEF CodexCompletes, TypeOK
<1>5. ASSUME NEW kind \in {"hook", "policy"}, HookFrame(th, kind) PROVE TypeOK'
  <2>1. codex[th].turn \in Nat
    BY DEF TypeOK, Endpoint
  <2>2. Req(kind, th, codex[th].turn, fsm, fsm, Nobody) \in Request
    BY <2>1, ReqTyped DEF TypeOK, Nobody
  <2>3. queue' \in Seq(Request)
    BY <1>5, <2>2, AppendTyped DEF HookFrame, TypeOK
  <2> QED BY <1>5, <2>3 DEF HookFrame, TypeOK
<1> QED BY <1>1, <1>2, <1>3, <1>4, <1>5

LEMMA OwnerTyped ==
    ASSUME TypeOK, OwnerChooses \/ OwnerPrompts \/ OwnerAnswers
    PROVE  TypeOK'
<1> USE DEF fsmVars, threadVars, codexVars, ownerVars, chainVars, taskVars, endVars
<1>1. CASE OwnerChooses
  <2>1. PICK o \in Options :
          queue' = Append(queue, Req("choice", current, Nobody, o[1], o[2], commits))
    BY <1>1 DEF OwnerChooses
  <2>2. o[1] \in States /\ o[2] \in States
    BY EdgesAssumption, KindsAssumption
  <2>3. Req("choice", current, Nobody, o[1], o[2], commits) \in Request
    BY <2>2, ReqTyped DEF TypeOK, Nobody
  <2>4. queue' \in Seq(Request)
    BY <2>1, <2>3, AppendTyped DEF TypeOK
  <2> QED BY <1>1, <2>4 DEF OwnerChooses, TypeOK
<1>2. CASE OwnerPrompts
  <2>1. /\ codex' \in [Threads -> Endpoint] /\ turns' \in Nat /\ calls' \in Nat
        /\ wire' \in Seq(Message)
    BY <1>2, StartTurnTyped DEF OwnerPrompts, TypeOK
  <2> QED BY <1>2, <2>1 DEF OwnerPrompts, TypeOK
<1>3. CASE OwnerAnswers
  <2>1. PICK p \in parked : codex' = Replied(codex, p.thread, p.turn, Nobody)
    BY <1>3 DEF OwnerAnswers
  <2>2. p.thread \in Threads /\ p.turn \in Nat
    BY DEF TypeOK
  <2>3. codex' \in [Threads -> Endpoint]
    BY <2>1, <2>2, RepliedTyped DEF TypeOK, Nobody
  <2> QED BY <1>3, <2>3 DEF OwnerAnswers, TypeOK
<1> QED BY <1>1, <1>2, <1>3

(* The handlers of Codex's messages.                                        *)
LEMMA ReceiveTyped ==
    ASSUME TypeOK, Receive PROVE TypeOK'
<1> USE DEF fsmVars, threadVars, codexVars, ownerVars, chainVars, taskVars, endVars
<1>1. wire # <<>>
  BY DEF Receive, ReceiveStarted, ReceiveCompleted, ReceiveItem, ReceiveInterrupted, ReceiveCall,
         ReceiveAsk
<1>2. Tail(wire) \in Seq(Message) /\ Head(wire) \in Message
  BY <1>1, TailTyped DEF TypeOK
<1>3. CASE ReceiveStarted
  <2>1. wire' \in Seq(Message)
    BY <1>2, <1>3 DEF ReceiveStarted
  <2>2. submittedThisTurn' \in BOOLEAN
    BY <1>3 DEF ReceiveStarted, TypeOK
  <2> QED BY <1>3, <2>1, <2>2 DEF ReceiveStarted, TypeOK
<1>4. CASE ReceiveCompleted
  <2>1. /\ codex' \in [Threads -> Endpoint] /\ turns' \in Nat /\ calls' \in Nat
        /\ wire' \in Seq(Message) /\ ended' \in {"no", "terminal", "failed"}
    <3>1. CASE wire' = Tail(wire) /\ UNCHANGED <<codex, turns, calls, ended, faults>>
      BY <1>2, <3>1 DEF TypeOK
    <3>2. CASE DriveForward(submittedThisTurn, Tail(wire))
      BY <1>2, <3>2, DriveForwardTyped DEF TypeOK
    <3>3. CASE End("failed") /\ wire' = Tail(wire) /\ UNCHANGED <<codex, turns, calls>>
      BY <1>2, <3>3, EndTyped DEF TypeOK
    <3> QED BY <1>4, <3>1, <3>2, <3>3 DEF ReceiveCompleted
  <2>2. faults' \in Nat
    BY <1>4 DEF ReceiveCompleted, DriveForwardFails, TypeOK
  <2> QED BY <1>4, <2>1, <2>2 DEF ReceiveCompleted, TypeOK
<1>5. CASE ReceiveItem
  <2>1. wire' \in Seq(Message)
    BY <1>2, <1>5 DEF ReceiveItem
  <2>2. dances' \subseteq DanceTask
    BY <1>5 DEF ReceiveItem, TypeOK, DanceTask
  <2> QED BY <1>5, <2>1, <2>2 DEF ReceiveItem, TypeOK
<1>6. CASE ReceiveInterrupted
  <2>1. wire' \in Seq(Message)
    BY <1>2, <1>6 DEF ReceiveInterrupted
  <2>2. dances' \subseteq DanceTask
    BY <1>6 DEF ReceiveInterrupted, TypeOK, DanceTask
  <2> QED BY <1>6, <2>1, <2>2 DEF ReceiveInterrupted, TypeOK
<1>7. CASE ReceiveCall
  <2> DEFINE m == Head(wire)
  <2>1. /\ m.thread \in Threads /\ m.turn \in Nat /\ m.id \in Nat
        /\ m.from \in States /\ m.to \in States
    BY <1>2 DEF Message
  <2>2. Req("submit", m.thread, m.turn, m.from, m.to, m.id) \in Request
    BY <2>1, ReqTyped
  <2>3. Append(queue, Req("submit", m.thread, m.turn, m.from, m.to, m.id)) \in Seq(Request)
    BY <2>2, AppendTyped DEF TypeOK
  <2>4. Replied(codex, m.thread, m.turn, Nobody) \in [Threads -> Endpoint]
    BY <2>1, RepliedTyped DEF TypeOK, Nobody
  <2>5. queue' \in Seq(Request) /\ codex' \in [Threads -> Endpoint]
    BY <1>7, <2>3, <2>4 DEF ReceiveCall, TypeOK
  <2>6. wire' \in Seq(Message)
    BY <1>2, <1>7 DEF ReceiveCall
  <2> QED BY <1>7, <2>5, <2>6 DEF ReceiveCall, TypeOK
<1>8. CASE ReceiveAsk
  <2> DEFINE m == Head(wire)
  <2>1. m.thread \in Threads /\ m.turn \in Nat
    BY <1>2 DEF Message
  <2>2. Replied(codex, m.thread, m.turn, Nobody) \in [Threads -> Endpoint]
    BY <2>1, RepliedTyped DEF TypeOK, Nobody
  <2>3. \A p \in parked : Replied(codex, p.thread, p.turn, Nobody) \in [Threads -> Endpoint]
    <3> TAKE p \in parked
    <3>1. p.thread \in Threads /\ p.turn \in Nat
      BY DEF TypeOK
    <3> QED BY <3>1, RepliedTyped DEF TypeOK, Nobody
  <2>4. codex' \in [Threads -> Endpoint]
    <3>1. CASE ~LiveThread(m.thread)
      BY <1>8, <2>2, <3>1 DEF ReceiveAsk
    <3>2. CASE LiveThread(m.thread) /\ parked = {}
      BY <1>8, <3>2 DEF ReceiveAsk, TypeOK
    <3>3. CASE LiveThread(m.thread) /\ parked # {}
      <4> DEFINE q == CHOOSE p \in parked : TRUE
      <4>1. q \in parked
        BY <3>3
      <4>2. codex' = Replied(codex, q.thread, q.turn, Nobody)
        BY <1>8, <3>3 DEF ReceiveAsk
      <4> QED BY <2>3, <4>1, <4>2
    <3> QED BY <3>1, <3>2, <3>3
  <2>5. parked' \subseteq [thread : Threads, turn : Nat]
    BY <1>8, <2>1 DEF ReceiveAsk, TypeOK
  <2>6. wire' \in Seq(Message)
    BY <1>2, <1>8 DEF ReceiveAsk
  <2> QED BY <1>8, <2>4, <2>5, <2>6 DEF ReceiveAsk, TypeOK
<1> QED BY <1>3, <1>4, <1>5, <1>6, <1>7, <1>8 DEF Receive

LEMMA ResumeTyped ==
    ASSUME segment \in Request, NEW pc \in {"idle", "begin", "prepare", "entry"}, Resume(pc)
    PROVE  segment' \in Request
BY DEF Resume, Request

LEMMA SegmentTyped ==
    ASSUME segment \in Request
    PROVE  /\ segment.thread \in Threads /\ segment.turn \in Nat /\ segment.id \in Nat
           /\ segment.from \in States /\ segment.to \in States
BY DEF Request

(* The serialized segments.                                                 *)
LEMMA SubmitTyped ==
    ASSUME TypeOK, BeginSegment \/ SubmitGuard \/ SubmitRejected \/ SubmitCommit \/ SubmitFinish
    PROVE  TypeOK'
<1> USE DEF fsmVars, threadVars, codexVars, ownerVars, chainVars, taskVars, endVars
<1>1. /\ segment.thread \in Threads /\ segment.turn \in Nat /\ segment.id \in Nat
      /\ segment.from \in States /\ segment.to \in States
  BY SegmentTyped DEF TypeOK
<1>2. \A id \in Nat : Replied(codex, segment.thread, segment.turn, id) \in [Threads -> Endpoint]
  BY <1>1, RepliedTyped DEF TypeOK
<1>3. CASE BeginSegment
  <2>1. queue' \in Seq(Request) /\ segment' \in Request
    BY <1>3, TailTyped DEF BeginSegment, TypeOK
  <2> QED BY <1>3, <2>1 DEF BeginSegment, TypeOK
<1>4. CASE SubmitGuard
  <2>1. codex' \in [Threads -> Endpoint]
    BY <1>2, <1>4 DEF SubmitGuard, TypeOK, Nobody
  <2>2. segment' \in Request
    BY <1>4, ResumeTyped, IdleTyped DEF SubmitGuard, Release, TypeOK
  <2> QED BY <1>4, <2>1, <2>2 DEF SubmitGuard, TypeOK
<1>5. CASE SubmitRejected
  <2>1. codex' \in [Threads -> Endpoint] /\ segment' \in Request
    BY <1>2, <1>5, IdleTyped DEF SubmitRejected, Release, Nobody
  <2> QED BY <1>5, <2>1 DEF SubmitRejected, TypeOK
<1>6. CASE SubmitCommit
  <2>1. segment' \in Request
    BY <1>6, ResumeTyped DEF SubmitCommit, TypeOK
  <2>2. fsm' \in States /\ commits' \in Nat /\ swaps' \in Nat
    BY <1>1, <1>6, CommitTyped DEF SubmitCommit, TypeOK
  <2> QED BY <1>6, <2>1, <2>2 DEF SubmitCommit, TypeOK
<1>7. CASE SubmitFinish
  <2>1. segment' \in Request
    BY <1>7, IdleTyped DEF SubmitFinish, Release
  <2>2. codex' \in [Threads -> Endpoint]
    BY <1>1, <1>2, <1>7 DEF SubmitFinish, Nobody
  <2>3. draining' \subseteq Threads /\ clears' \subseteq ClearTask /\ queue' \in Seq(Request)
    <3>1. CASE ScheduleClear(segment.thread, segment.turn, segment.id, TRUE)
      BY <1>1, <3>1, ScheduleClearTyped DEF TypeOK
    <3>2. CASE UNCHANGED <<draining, clears, queue>>
      BY <3>2 DEF TypeOK
    <3> QED BY <1>7, <3>1, <3>2 DEF SubmitFinish
  <2>4. dances' \subseteq DanceTask
    <3> DEFINE new == [id |-> segment.id, turn |-> segment.turn, pc |-> "item"]
    <3>1. new \in DanceTask
      BY <1>1 DEF DanceTask
    <3>2. dances' = dances \cup {new} \/ dances' = dances
      BY <1>7 DEF SubmitFinish
    <3> HIDE DEF new
    <3> QED BY <3>1, <3>2 DEF TypeOK
  <2>5. submittedThisTurn' \in BOOLEAN
    BY <1>7 DEF SubmitFinish, TypeOK
  <2>6. ended' \in {"no", "terminal", "failed"}
    BY <1>7, EndTyped DEF SubmitFinish, TypeOK
  <2> QED BY <1>7, <2>1, <2>2, <2>3, <2>4, <2>5, <2>6 DEF SubmitFinish, TypeOK
<1> QED BY <1>3, <1>4, <1>5, <1>6, <1>7

LEMMA ChoiceTyped ==
    ASSUME TypeOK, ChoiceCommit \/ ChoiceFinish
    PROVE  TypeOK'
<1> USE DEF fsmVars, threadVars, codexVars, ownerVars, chainVars, taskVars, endVars
<1>1. /\ segment.thread \in Threads /\ segment.turn \in Nat /\ segment.id \in Nat
      /\ segment.from \in States /\ segment.to \in States
  BY SegmentTyped DEF TypeOK
<1>2. CASE ChoiceCommit
  <2>1. segment' \in Request
    BY <1>2, ResumeTyped, IdleTyped DEF ChoiceCommit, Release, TypeOK
  <2>2. fsm' \in States /\ commits' \in Nat /\ swaps' \in Nat
    BY <1>1, <1>2, CommitTyped DEF ChoiceCommit, TypeOK
  <2> QED BY <1>2, <2>1, <2>2 DEF ChoiceCommit, TypeOK
<1>3. CASE ChoiceFinish
  <2>1. segment' \in Request
    BY <1>3, IdleTyped DEF ChoiceFinish, Release
  <2>2. draining' \subseteq Threads /\ clears' \subseteq ClearTask /\ queue' \in Seq(Request)
    <3>1. CASE ScheduleClear(current, Nobody, segment.id + 1, FALSE)
      <4>1. segment.id + 1 \in Nat /\ Nobody \in Nat /\ FALSE \in BOOLEAN
        BY <1>1 DEF Nobody
      <4> QED BY <3>1, <4>1, ScheduleClearTyped DEF TypeOK
    <3>2. CASE UNCHANGED <<draining, clears, queue>>
      BY <3>2 DEF TypeOK
    <3> QED BY <1>3, <3>1, <3>2 DEF ChoiceFinish
  <2>3. orientations' \in Nat
    <3>1. orientations' = orientations \/ orientations' = orientations + 1
      BY <1>3 DEF ChoiceFinish
    <3> QED BY <3>1 DEF TypeOK
  <2>4. ended' \in {"no", "terminal", "failed"}
    BY <1>3, EndTyped DEF ChoiceFinish, TypeOK
  <2> QED BY <1>3, <2>1, <2>2, <2>3, <2>4 DEF ChoiceFinish, TypeOK
<1> QED BY <1>2, <1>3

LEMMA HookTyped ==
    ASSUME TypeOK,
           \/ HookRuns \/ EntryEmit
           \/ \E e \in entries : HookEntryFinish(e) \/ PolicyEntryFinish(e)
           \/ \E c \in clears : PolicyReplies(c)
    PROVE  TypeOK'
<1> USE DEF fsmVars, threadVars, codexVars, ownerVars, chainVars, taskVars, endVars
<1>1. CASE HookRuns
  <2>1. segment' \in Request
    BY <1>1, IdleTyped DEF HookRuns, Release
  <2>2. /\ fsm' \in States /\ commits' \in Nat /\ swaps' \in Nat
        /\ entries' \subseteq HookEntry /\ ended' \in {"no", "terminal", "failed"}
    <3>1. CASE UNCHANGED <<fsmVars, entries, ended>>
      BY <3>1 DEF TypeOK
    <3>2. CASE \E e \in HookTargets :
                 /\ CommitTo(e[2])
                 /\ entries' = entries \cup {[visit |-> commits + 1, thread |-> segment.thread,
                                              turn |-> segment.turn,
                                              policy |-> segment.kind = "policy"]}
                 /\ IF e[2] \in Terminal THEN End("terminal") ELSE UNCHANGED ended
      <4>1. PICK e \in HookTargets :
                 /\ CommitTo(e[2])
                 /\ entries' = entries \cup {[visit |-> commits + 1, thread |-> segment.thread,
                                              turn |-> segment.turn,
                                              policy |-> segment.kind = "policy"]}
                 /\ IF e[2] \in Terminal THEN End("terminal") ELSE UNCHANGED ended
        BY <3>2
      <4>2. e[2] \in States
        BY EdgesAssumption
      <4>3. fsm' \in States /\ commits' \in Nat /\ swaps' \in Nat
        BY <4>1, <4>2, CommitTyped DEF TypeOK
      <4>4. entries' \subseteq HookEntry
        <5>1. segment.thread \in Threads /\ segment.turn \in Nat /\ commits + 1 \in Nat
          BY SegmentTyped DEF TypeOK
        <5>2. [visit |-> commits + 1, thread |-> segment.thread, turn |-> segment.turn,
               policy |-> segment.kind = "policy"] \in HookEntry
          BY <5>1 DEF HookEntry
        <5> QED BY <4>1, <5>2 DEF TypeOK
      <4>5. ended' \in {"no", "terminal", "failed"}
        BY <4>1, EndTyped DEF TypeOK
      <4> QED BY <4>3, <4>4, <4>5
    <3> QED BY <1>1, <3>1, <3>2 DEF HookRuns
  <2> QED BY <1>1, <2>1, <2>2 DEF HookRuns, TypeOK
<1>2. CASE EntryEmit
  <2>1. PICK e \in EntryEmits :
          /\ CommitTo(e[2])
          /\ IF e[2] \in Terminal THEN End("terminal") ELSE UNCHANGED ended
          /\ IF e[2] \in Clear
             THEN ScheduleClear(current, Nobody, commits + 1, FALSE)
             ELSE UNCHANGED <<draining, clears, queue>>
    BY <1>2 DEF EntryEmit
  <2>2. e[2] \in States
    BY EdgesAssumption
  <2>3. fsm' \in States /\ commits' \in Nat /\ swaps' \in Nat
    BY <2>1, <2>2, CommitTyped DEF TypeOK
  <2>4. ended' \in {"no", "terminal", "failed"}
    BY <2>1, EndTyped DEF TypeOK
  <2>5. draining' \subseteq Threads /\ clears' \subseteq ClearTask /\ queue' \in Seq(Request)
    <3>1. CASE ScheduleClear(current, Nobody, commits + 1, FALSE)
      <4>1. commits + 1 \in Nat /\ Nobody \in Nat /\ FALSE \in BOOLEAN
        BY DEF TypeOK, Nobody
      <4> QED BY <3>1, <4>1, ScheduleClearTyped DEF TypeOK
    <3>2. CASE UNCHANGED <<draining, clears, queue>>
      BY <3>2 DEF TypeOK
    <3> QED BY <2>1, <3>1, <3>2
  <2> QED BY <1>2, <2>3, <2>4, <2>5 DEF EntryEmit, TypeOK
<1>3. CASE \E e \in entries : HookEntryFinish(e)
  <2>1. PICK e \in entries : HookEntryFinish(e)
    BY <1>3
  <2>2. e.thread \in Threads /\ e.turn \in Nat /\ e.visit \in Nat
    BY DEF TypeOK, HookEntry
  <2>3. draining' \subseteq Threads /\ clears' \subseteq ClearTask /\ queue' \in Seq(Request)
    <3>1. CASE ScheduleClear(e.thread, e.turn, e.visit, FALSE)
      BY <2>2, <3>1, ScheduleClearTyped DEF TypeOK
    <3>2. CASE UNCHANGED <<draining, clears, queue>>
      BY <3>2 DEF TypeOK
    <3> QED BY <2>1, <3>1, <3>2 DEF HookEntryFinish
  <2>4. entries' \subseteq HookEntry
    BY <2>1 DEF HookEntryFinish, TypeOK
  <2> QED BY <2>1, <2>3, <2>4 DEF HookEntryFinish, TypeOK
<1>4. ASSUME NEW e \in entries, PolicyEntryFinish(e) PROVE TypeOK'
  <2> DEFINE new == [id |-> e.visit, turn |-> e.turn, old |-> Nobody, held |-> TRUE,
                     pc |-> "reply"]
  <2>1. new \in ClearTask
    BY DEF TypeOK, HookEntry, ClearTask, Nobody
  <2>2. clears' = clears \cup {new} \/ clears' = clears
    BY <1>4 DEF PolicyEntryFinish
  <2> HIDE DEF new
  <2>3. clears' \subseteq ClearTask
    BY <2>1, <2>2 DEF TypeOK
  <2>4. draining' \subseteq Threads /\ lost' \subseteq Threads /\ entries' \subseteq HookEntry
    BY <1>4 DEF PolicyEntryFinish, TypeOK
  <2> QED BY <1>4, <2>3, <2>4 DEF PolicyEntryFinish, TypeOK
<1>5. ASSUME NEW c \in clears, PolicyReplies(c) PROVE TypeOK'
  <2> DEFINE new == [c EXCEPT !.pc = "queued"]
  <2>1. new \in ClearTask
    BY DEF TypeOK, ClearTask
  <2>2. clears' = (clears \ {c}) \cup {new}
    BY <1>5 DEF PolicyReplies
  <2> HIDE DEF new
  <2>3. clears' \subseteq ClearTask
    BY <2>1, <2>2 DEF TypeOK
  <2>4. Req("clear", current, c.turn, fsm, fsm, c.id) \in Request
    <3>1. c.turn \in Nat /\ c.id \in Nat
      BY DEF TypeOK, ClearTask
    <3> QED BY <3>1, ReqTyped DEF TypeOK
  <2>5. queue' \in Seq(Request)
    BY <1>5, <2>4, AppendTyped DEF PolicyReplies, TypeOK
  <2> QED BY <1>5, <2>3, <2>5 DEF PolicyReplies, TypeOK
<1> QED BY <1>1, <1>2, <1>3, <1>4, <1>5

(* The producers of turns.                                                  *)
LEMMA ProduceTyped ==
    ASSUME TypeOK, Produce PROVE TypeOK'
<1> USE DEF fsmVars, threadVars, codexVars, ownerVars, chainVars, taskVars, endVars
<1>1. CASE OrientAfterChoice
  <2>1. /\ codex' \in [Threads -> Endpoint] /\ turns' \in Nat /\ calls' \in Nat
        /\ wire' \in Seq(Message)
    <3>1. CASE StartTurn(current, wire)
      BY <3>1, StartTurnTyped DEF TypeOK
    <3>2. CASE UNCHANGED codexVars
      BY <3>2 DEF TypeOK
    <3> QED BY <1>1, <3>1, <3>2 DEF OrientAfterChoice
  <2>2. ended' \in {"no", "terminal", "failed"} /\ faults' \in Nat /\ orientations' \in Nat
    BY <1>1, EndTyped DEF OrientAfterChoice, TypeOK
  <2> QED BY <1>1, <2>1, <2>2 DEF OrientAfterChoice, TypeOK
<1>2. ASSUME NEW d \in dances, DanceInterrupts(d) PROVE TypeOK'
  <2>1. d.turn \in Nat /\ d.id \in Nat
    BY DEF TypeOK, DanceTask
  <2>2. /\ Msg("completed", current, d.turn, Nobody) \in Message
        /\ Msg("interrupted", current, d.turn, d.id) \in Message
    BY <2>1, MsgTyped DEF TypeOK, Nobody
  <2>3. codex' \in [Threads -> Endpoint]
    BY <1>2, StoppedTyped DEF DanceInterrupts, TypeOK
  <2>4. wire' \in Seq(Message)
    <3> DEFINE a == Msg("completed", current, d.turn, Nobody)
               b == Msg("interrupted", current, d.turn, d.id)
    <3>1. <<a, b>> \in Seq(Message)
      BY <2>2
    <3>2. wire \o <<a, b>> \in Seq(Message)
      BY <3>1, ConcatProperties DEF TypeOK
    <3>3. Append(wire, b) \in Seq(Message)
      BY <2>2, AppendTyped DEF TypeOK
    <3> QED BY <1>2, <3>2, <3>3 DEF DanceInterrupts
  <2>5. dances' \subseteq DanceTask
    BY <1>2 DEF DanceInterrupts, TypeOK, DanceTask
  <2> QED BY <1>2, <2>3, <2>4, <2>5 DEF DanceInterrupts, TypeOK
<1>3. ASSUME NEW d \in dances, DanceStarts(d) PROVE TypeOK'
  <2>1. /\ codex' \in [Threads -> Endpoint] /\ turns' \in Nat /\ calls' \in Nat
        /\ wire' \in Seq(Message)
    BY <1>3, StartTurnTyped DEF DanceStarts, TypeOK
  <2> QED BY <1>3, <2>1 DEF DanceStarts, TypeOK
<1>4. ASSUME NEW d \in dances, DanceFails(d) PROVE TypeOK'
  <2>1. /\ codex' \in [Threads -> Endpoint] /\ turns' \in Nat /\ calls' \in Nat
        /\ wire' \in Seq(Message) /\ ended' \in {"no", "terminal", "failed"}
    BY <1>4, DriveForwardTyped DEF DanceFails, TypeOK
  <2>2. faults' \in Nat
    BY <1>4 DEF DanceFails, TypeOK
  <2> QED BY <1>4, <2>1, <2>2 DEF DanceFails, TypeOK
<1>5. ASSUME NEW d \in dances, DanceAndSalvageFail(d) PROVE TypeOK'
  <2>1. faults' \in Nat
    BY <1>5 DEF DanceAndSalvageFail, TypeOK
  <2> QED BY <1>5, <2>1 DEF DanceAndSalvageFail, TypeOK
<1> QED BY <1>1, <1>2, <1>3, <1>4, <1>5 DEF Produce

(* The fresh clear.                                                         *)
LEMMA ClearTyped ==
    ASSUME TypeOK, FreshClear PROVE TypeOK'
<1> USE DEF fsmVars, threadVars, codexVars, ownerVars, chainVars, taskVars, endVars
<1>1. \A c : ReleaseBy(c) => (TypeOK => segment' \in Request)
  BY IdleTyped DEF ReleaseBy, TypeOK
<1>2. ASSUME NEW c \in clears, ClearAbandons(c) PROVE TypeOK'
  <2>1. c.turn \in Nat
    BY DEF TypeOK, ClearTask
  <2>2. Msg("completed", current, c.turn, Nobody) \in Message
    BY <2>1, MsgTyped DEF TypeOK, Nobody
  <2>3. codex' \in [Threads -> Endpoint] /\ wire' \in Seq(Message)
    <3>1. Append(wire, Msg("completed", current, c.turn, Nobody)) \in Seq(Message)
      BY <2>2, AppendTyped DEF TypeOK
    <3>2. Stopped(current) \in [Threads -> Endpoint]
      BY StoppedTyped DEF TypeOK
    <3> QED BY <1>2, <3>1, <3>2 DEF ClearAbandons, TypeOK
  <2>4. clears' \subseteq ClearTask /\ abandoned' \subseteq Threads
    BY <1>2 DEF ClearAbandons, Step, TypeOK, ClearTask
  <2> QED BY <1>2, <2>3, <2>4 DEF ClearAbandons, TypeOK
<1>3. ASSUME NEW c \in clears, ClearOpens(c) PROVE TypeOK'
  <2>1. lastThread + 1 \in Threads
    <3>1. lastThread \in Threads /\ lastThread < MaxThreads
      BY <1>3 DEF ClearOpens, TypeOK
    <3> QED BY <3>1, BoundsAssumption DEF Threads
  <2>2. /\ codex' \in [Threads -> Endpoint] /\ turns' \in Nat /\ calls' \in Nat
        /\ wire' \in Seq(Message)
    <3>1. CASE StartTurn(lastThread + 1, wire)
      BY <2>1, <3>1, StartTurnTyped DEF TypeOK
    <3>2. CASE UNCHANGED codexVars
      BY <3>2 DEF TypeOK
    <3> QED BY <1>3, <3>1, <3>2 DEF ClearOpens
  <2>3. clears' \subseteq ClearTask
    <3> DEFINE waiting == [c EXCEPT !.pc = "boundary"]
    <3>1. waiting \in ClearTask
      BY DEF TypeOK, ClearTask
    <3>2. \/ clears' = (clears \ {c}) \cup {waiting}
          \/ clears' = (clears \ {c}) \cup {}
      BY <1>3 DEF ClearOpens, Step
    <3> HIDE DEF waiting
    <3> QED BY <3>1, <3>2 DEF TypeOK
  <2>4. ended' \in {"no", "terminal", "failed"} /\ segment' \in Request
    BY <1>1, <1>3, EndTyped DEF ClearOpens, TypeOK
  <2>5. abandoned' \subseteq Threads /\ current' \in Threads /\ lastThread' \in Threads
    BY <1>3, <2>1 DEF ClearOpens, TypeOK
  <2>6. parked' \subseteq [thread : Threads, turn : Nat]
    BY <1>3 DEF ClearOpens, StillParked, TypeOK
  <2>7. swaps' \in Nat
    BY <1>3 DEF ClearOpens, TypeOK
  <2> QED BY <1>3, <2>2, <2>3, <2>4, <2>5, <2>6, <2>7 DEF ClearOpens, TypeOK
<1>4. ASSUME NEW c \in clears, ClearBoundary(c) PROVE TypeOK'
  <2>1. /\ draining' \subseteq Threads /\ clears' \subseteq ClearTask /\ segment' \in Request
    BY <1>1, <1>4 DEF ClearBoundary, Step, TypeOK
  <2> QED BY <1>4, <2>1 DEF ClearBoundary, TypeOK
<1>5. ASSUME NEW c \in clears, ClearFails(c) PROVE TypeOK'
  <2>1. /\ ended' \in {"no", "terminal", "failed"} /\ clears' \subseteq ClearTask
        /\ segment' \in Request /\ faults' \in Nat
    BY <1>1, <1>5, EndTyped DEF ClearFails, Step, TypeOK
  <2> QED BY <1>5, <2>1 DEF ClearFails, TypeOK
<1> QED BY <1>2, <1>3, <1>4, <1>5 DEF FreshClear

(* Every variable keeps its shape, for every workflow, every number of      *)
(* threads and every bound.                                                 *)
THEOREM TypeCorrect == Spec => []TypeOK
<1> USE DEF fsmVars, threadVars, codexVars, ownerVars, chainVars, taskVars, endVars
<1>1. ASSUME TypeOK, Next PROVE TypeOK'
  <2>1. CASE Receive
    BY <2>1, <1>1, ReceiveTyped
  <2>2. CASE Dispatch
    BY <2>2, <1>1, SubmitTyped, ChoiceTyped, HookTyped DEF Dispatch
  <2>3. CASE Produce
    BY <2>3, <1>1, ProduceTyped
  <2>4. CASE FreshClear
    BY <2>4, <1>1, ClearTyped
  <2>5. CASE External
    BY <2>5, <1>1, CodexTyped, OwnerTyped DEF External
  <2>6. CASE Close
    BY <2>6, <1>1 DEF Close, TypeOK
  <2> QED BY <1>1, <2>1, <2>2, <2>3, <2>4, <2>5, <2>6 DEF Next
<1>2. TypeOK /\ UNCHANGED vars => TypeOK'
  BY DEF TypeOK, vars
<1> QED BY InitTyped, <1>1, <1>2, PTL DEF Spec

(************************ only opened threads appear ************************)
(* Threads are opened one after another, so 1..lastThread are the ones that *)
(* exist.  A replacement thread is new to every record aharness keeps: this *)
(* is what makes a replacement usable and what it replaces unreachable.     *)
Known == 1..lastThread
Quiet(c, K) == \A th \in Threads \ K : c[th] = TurnOf(0, FALSE)
MessagesOf(K) == {m \in Message : m.thread \in K}
RequestsOf(K) == {r \in Request : r.thread \in K}

KnownThreads ==
    /\ current \in Known /\ draining \subseteq Known
    /\ Quiet(codex, Known)
    /\ wire \in Seq(MessagesOf(Known))
    /\ queue \in Seq(RequestsOf(Known)) /\ segment.thread \in Known
    /\ \A e \in entries : e.thread \in Known

LEMMA KnownMsg ==
    ASSUME NEW K, NEW k \in {"started", "completed", "item", "interrupted", "ask", "call"},
           NEW th \in Threads, th \in K, NEW turn \in Nat, NEW id \in Nat
    PROVE  Msg(k, th, turn, id) \in MessagesOf(K)
<1>1. Msg(k, th, turn, id) \in Message
  BY MsgTyped
<1> QED BY <1>1 DEF Msg, MessagesOf

LEMMA KnownReq ==
    ASSUME NEW K, NEW kind \in {"submit", "hook", "policy", "choice", "clear"},
           NEW th \in Threads, th \in K, NEW turn \in Nat, NEW from \in States, NEW to \in States, NEW id \in Nat
    PROVE  Req(kind, th, turn, from, to, id) \in RequestsOf(K)
<1>1. Req(kind, th, turn, from, to, id) \in Request
  BY ReqTyped
<1> QED BY <1>1 DEF Req, RequestsOf

LEMMA StartTurnKnown ==
    ASSUME codex \in [Threads -> Endpoint], turns \in Nat, NEW K, Quiet(codex, K),
           NEW th \in Threads, th \in K, NEW w \in Seq(MessagesOf(K)), StartTurn(th, w)
    PROVE  Quiet(codex', K) /\ wire' \in Seq(MessagesOf(K))
<1>1. CASE codex[th].active
  BY <1>1 DEF StartTurn
<1>2. CASE ~codex[th].active
  <2>1. Msg("started", th, turns + 1, Nobody) \in MessagesOf(K)
    BY KnownMsg DEF Nobody
  <2>2. wire' \in Seq(MessagesOf(K))
    BY <1>2, <2>1, AppendTyped DEF StartTurn
  <2>3. codex' = [codex EXCEPT ![th] = TurnOf(turns + 1, TRUE)]
    BY <1>2 DEF StartTurn
  <2>4. Quiet(codex', K)
    BY <2>3 DEF Quiet
  <2> QED BY <2>2, <2>4
<1> QED BY <1>1, <1>2

(* A reply reaches a thread only when it has a turn.                        *)
LEMMA RepliedKnown ==
    ASSUME NEW c \in [Threads -> Endpoint], NEW K, Quiet(c, K), NEW th, NEW turn, NEW id
    PROVE  Quiet(Replied(c, th, turn, id), K)
<1> SUFFICES ASSUME NEW t \in Threads \ K PROVE Replied(c, th, turn, id)[t] = c[t]
  BY DEF Quiet
<1>1. CASE t = th
  <2>1. ~c[t].active
    BY DEF Quiet, TurnOf
  <2> QED BY <1>1, <2>1 DEF Replied
<1>2. CASE t # th
  BY <1>2 DEF Replied
<1> QED BY <1>1, <1>2

LEMMA StoppedKnown ==
    ASSUME codex \in [Threads -> Endpoint], NEW K, Quiet(codex, K), NEW th \in K
    PROVE  Quiet(Stopped(th), K)
BY DEF Quiet, Stopped

LEMMA DriveForwardKnown ==
    ASSUME codex \in [Threads -> Endpoint], turns \in Nat, NEW K, Quiet(codex, K),
           current \in Threads, current \in K, NEW w \in Seq(MessagesOf(K)), NEW flag,
           DriveForward(flag, w)
    PROVE  Quiet(codex', K) /\ wire' \in Seq(MessagesOf(K))
BY StartTurnKnown DEF DriveForward

LEMMA ScheduleClearKnown ==
    ASSUME NEW K, draining \subseteq K, queue \in Seq(RequestsOf(K)), fsm \in States,
           NEW th \in Threads, th \in K, NEW turn \in Nat, NEW id \in Nat, NEW held,
           ScheduleClear(th, turn, id, held)
    PROVE  draining' \subseteq K /\ queue' \in Seq(RequestsOf(K))
<1>1. Req("clear", th, turn, fsm, fsm, id) \in RequestsOf(K)
  BY KnownReq
<1>2. Append(queue, Req("clear", th, turn, fsm, fsm, id)) \in Seq(RequestsOf(K))
  BY <1>1, AppendTyped
<1> QED BY <1>2 DEF ScheduleClear

LEMMA KnownInit == Init => KnownThreads
<1> SUFFICES ASSUME Init PROVE KnownThreads
  OBVIOUS
<1>1. TypeOK
  BY InitTyped
<1>2. Known = {1}
  BY DEF Init, Known
<1>3. wire \in Seq(MessagesOf(Known))
  <2>1. Msg("started", 1, 1, Nobody) \in MessagesOf(Known)
    BY <1>2, KnownMsg, OneIsThread DEF Nobody
  <2> QED BY <2>1 DEF Init
<1>4. Quiet(codex, Known)
  BY <1>2 DEF Init, Quiet
<1>5. queue \in Seq(RequestsOf(Known)) /\ segment.thread \in Known
  BY <1>2 DEF Init, Idle
<1> QED BY <1>2, <1>3, <1>4, <1>5 DEF Init, KnownThreads

LEMMA KnownExternal ==
    ASSUME TypeOK, KnownThreads, External PROVE KnownThreads'
<1> USE DEF fsmVars, threadVars, codexVars, ownerVars, chainVars, taskVars, endVars
<1>1. Known' = Known
  BY DEF External, OwnerChooses, OwnerPrompts, OwnerAnswers, CodexSubmits, CodexAsksOwner,
         CodexItem, CodexCompletes, HookFrame, Known
<1>2. \A th \in Threads : codex[th].active \/ codex[th].call # "none" => th \in Known
  BY DEF KnownThreads, Quiet, TurnOf
<1>3. \A th \in Threads : codex[th].turn \in Nat /\ codex[th].id \in Nat
  BY DEF TypeOK, Endpoint
<1>4. codex \in [Threads -> Endpoint] /\ Quiet(codex, Known) /\ wire \in Seq(MessagesOf(Known))
  BY DEF TypeOK, KnownThreads
<1>5. ASSUME NEW th \in Threads, CodexSubmits(th) PROVE KnownThreads'
  <2>1. th \in Known
    BY <1>2, <1>5 DEF CodexSubmits
  <2>2. PICK e \in Submits :
          wire' = Append(wire, [k |-> "call", thread |-> th, turn |-> codex[th].turn,
                                id |-> calls + 1, from |-> e[1], to |-> e[2]])
    BY <1>5 DEF CodexSubmits
  <2>3. e[1] \in States /\ e[2] \in States
    BY EdgesAssumption, KindsAssumption
  <2>4. [k |-> "call", thread |-> th, turn |-> codex[th].turn, id |-> calls + 1,
         from |-> e[1], to |-> e[2]] \in MessagesOf(Known)
    BY <1>3, <2>1, <2>3 DEF TypeOK, Message, MessagesOf
  <2>5. wire' \in Seq(MessagesOf(Known))
    BY <1>4, <2>2, <2>4, AppendTyped
  <2>6. Quiet(codex', Known)
    BY <1>4, <1>5, <2>1 DEF CodexSubmits, Quiet
  <2> QED BY <1>1, <1>5, <2>5, <2>6 DEF CodexSubmits, KnownThreads
<1>6. ASSUME NEW th \in Threads, CodexAsksOwner(th) PROVE KnownThreads'
  <2>1. th \in Known
    BY <1>2, <1>6 DEF CodexAsksOwner
  <2>2. Msg("ask", th, codex[th].turn, Nobody) \in MessagesOf(Known)
    BY <1>3, <2>1, KnownMsg DEF Nobody
  <2>3. wire' \in Seq(MessagesOf(Known))
    BY <1>4, <1>6, <2>2, AppendTyped DEF CodexAsksOwner
  <2>4. Quiet(codex', Known)
    BY <1>4, <1>6, <2>1 DEF CodexAsksOwner, Quiet
  <2> QED BY <1>1, <1>6, <2>3, <2>4 DEF CodexAsksOwner, KnownThreads
<1>7. ASSUME NEW th \in Threads, CodexItem(th) PROVE KnownThreads'
  <2>1. th \in Known
    BY <1>2, <1>7 DEF CodexItem
  <2>2. Msg("item", th, codex[th].turn, codex[th].id) \in MessagesOf(Known)
    BY <1>3, <2>1, KnownMsg
  <2>3. wire' \in Seq(MessagesOf(Known))
    BY <1>4, <1>7, <2>2, AppendTyped DEF CodexItem
  <2>4. Quiet(codex', Known)
    BY <1>4, <1>7, <2>1 DEF CodexItem, Quiet
  <2> QED BY <1>1, <1>7, <2>3, <2>4 DEF CodexItem, KnownThreads
<1>8. ASSUME NEW th \in Threads, CodexCompletes(th) PROVE KnownThreads'
  <2>1. th \in Known
    BY <1>2, <1>8 DEF CodexCompletes
  <2>2. Msg("completed", th, codex[th].turn, Nobody) \in MessagesOf(Known)
    BY <1>3, <2>1, KnownMsg DEF Nobody
  <2>3. wire' \in Seq(MessagesOf(Known))
    BY <1>4, <1>8, <2>2, AppendTyped DEF CodexCompletes
  <2>4. Quiet(codex', Known)
    BY <1>4, <1>8, <2>1, StoppedKnown DEF CodexCompletes
  <2> QED BY <1>1, <1>8, <2>3, <2>4 DEF CodexCompletes, KnownThreads
<1>9. ASSUME NEW th \in Threads, NEW kind \in {"hook", "policy"}, HookFrame(th, kind)
      PROVE  KnownThreads'
  <2>1. th \in Known
    BY <1>2, <1>9 DEF HookFrame
  <2>2. Req(kind, th, codex[th].turn, fsm, fsm, Nobody) \in RequestsOf(Known)
    BY <1>3, <2>1, KnownReq DEF TypeOK, Nobody
  <2>3. queue' \in Seq(RequestsOf(Known))
    BY <1>9, <2>2, AppendTyped DEF HookFrame, KnownThreads
  <2> QED BY <1>1, <1>9, <2>3 DEF HookFrame, KnownThreads
<1>10. CASE OwnerChooses
  <2>1. PICK o \in Options :
          queue' = Append(queue, Req("choice", current, Nobody, o[1], o[2], commits))
    BY <1>10 DEF OwnerChooses
  <2>2. o[1] \in States /\ o[2] \in States
    BY EdgesAssumption, KindsAssumption
  <2>3. Req("choice", current, Nobody, o[1], o[2], commits) \in RequestsOf(Known)
    BY <2>2, KnownReq DEF TypeOK, KnownThreads, Nobody
  <2>4. queue' \in Seq(RequestsOf(Known))
    BY <2>1, <2>3, AppendTyped DEF KnownThreads
  <2> QED BY <1>1, <1>10, <2>4 DEF OwnerChooses, KnownThreads
<1>11. CASE OwnerPrompts
  <2>1. Quiet(codex', Known) /\ wire' \in Seq(MessagesOf(Known))
    BY <1>4, <1>11, StartTurnKnown DEF OwnerPrompts, TypeOK, KnownThreads
  <2> QED BY <1>1, <1>11, <2>1 DEF OwnerPrompts, KnownThreads
<1>12. CASE OwnerAnswers
  <2>1. Quiet(codex', Known)
    BY <1>4, <1>12, RepliedKnown DEF OwnerAnswers
  <2> QED BY <1>1, <1>12, <2>1 DEF OwnerAnswers, KnownThreads
<1> QED BY <1>5, <1>6, <1>7, <1>8, <1>9, <1>10, <1>11, <1>12 DEF External

LEMMA KnownReceive ==
    ASSUME TypeOK, KnownThreads, Receive PROVE KnownThreads'
<1> USE DEF fsmVars, threadVars, codexVars, ownerVars, chainVars, taskVars, endVars
<1>1. Known' = Known
  BY DEF Receive, ReceiveStarted, ReceiveCompleted, ReceiveItem, ReceiveInterrupted,
         ReceiveCall, ReceiveAsk, Known
<1>2. wire # <<>>
  BY DEF Receive, ReceiveStarted, ReceiveCompleted, ReceiveItem, ReceiveInterrupted,
         ReceiveCall, ReceiveAsk
<1>3. Tail(wire) \in Seq(MessagesOf(Known)) /\ Head(wire) \in MessagesOf(Known)
  BY <1>2, TailTyped DEF KnownThreads
<1>4. codex \in [Threads -> Endpoint] /\ Quiet(codex, Known)
  BY DEF TypeOK, KnownThreads
<1>5. CASE ReceiveStarted
  BY <1>1, <1>3, <1>5 DEF ReceiveStarted, KnownThreads
<1>6. CASE ReceiveCompleted
  <2>1. Quiet(codex', Known) /\ wire' \in Seq(MessagesOf(Known))
    <3>1. CASE DriveForward(submittedThisTurn, Tail(wire))
      BY <1>3, <1>4, <3>1, DriveForwardKnown DEF TypeOK, KnownThreads
    <3>2. CASE wire' = Tail(wire) /\ UNCHANGED codex
      BY <1>3, <1>4, <3>2
    <3> QED BY <1>6, <3>1, <3>2 DEF ReceiveCompleted
  <2> QED BY <1>1, <1>6, <2>1 DEF ReceiveCompleted, KnownThreads
<1>7. CASE ReceiveItem
  BY <1>1, <1>3, <1>7 DEF ReceiveItem, KnownThreads
<1>8. CASE ReceiveInterrupted
  BY <1>1, <1>3, <1>8 DEF ReceiveInterrupted, KnownThreads
<1>9. CASE ReceiveCall
  <2> DEFINE m == Head(wire)
  <2>1. /\ m.thread \in Threads /\ m.thread \in Known /\ m.turn \in Nat /\ m.id \in Nat
        /\ m.from \in States /\ m.to \in States
    BY <1>3 DEF MessagesOf, Message
  <2>2. Append(queue, Req("submit", m.thread, m.turn, m.from, m.to, m.id))
          \in Seq(RequestsOf(Known))
    <3>1. Req("submit", m.thread, m.turn, m.from, m.to, m.id) \in RequestsOf(Known)
      BY <2>1, KnownReq
    <3> QED BY <3>1, AppendTyped DEF KnownThreads
  <2>3. Quiet(codex', Known) /\ queue' \in Seq(RequestsOf(Known))
    BY <1>4, <1>9, <2>2, RepliedKnown DEF ReceiveCall, KnownThreads
  <2>4. wire' \in Seq(MessagesOf(Known))
    BY <1>3, <1>9 DEF ReceiveCall
  <2> QED BY <1>1, <1>9, <2>3, <2>4 DEF ReceiveCall, KnownThreads
<1>10. CASE ReceiveAsk
  <2>1. Quiet(codex', Known)
    BY <1>4, <1>10, RepliedKnown DEF ReceiveAsk
  <2>2. wire' \in Seq(MessagesOf(Known))
    BY <1>3, <1>10 DEF ReceiveAsk
  <2> QED BY <1>1, <1>10, <2>1, <2>2 DEF ReceiveAsk, KnownThreads
<1> QED BY <1>5, <1>6, <1>7, <1>8, <1>9, <1>10 DEF Receive

LEMMA KnownDispatch ==
    ASSUME TypeOK, KnownThreads, Dispatch PROVE KnownThreads'
<1> USE DEF fsmVars, threadVars, codexVars, ownerVars, chainVars, taskVars, endVars
<1>1. Known' = Known
  BY DEF Dispatch, BeginSegment, SubmitGuard, SubmitRejected, SubmitCommit, SubmitFinish,
         ChoiceCommit, ChoiceFinish, HookRuns, EntryEmit, HookEntryFinish, PolicyEntryFinish,
         PolicyReplies, Known
<1>2. codex \in [Threads -> Endpoint] /\ Quiet(codex, Known)
  BY DEF TypeOK, KnownThreads
<1>3. 1 \in Known
  BY DEF Known, TypeOK, Threads
<1>4. /\ segment.thread \in Threads /\ segment.turn \in Nat /\ segment.id \in Nat
      /\ segment.thread \in Known /\ Nobody \in Nat
  BY SegmentTyped DEF TypeOK, KnownThreads, Nobody
<1>5. ASSUME NEW pc, Resume(pc) \/ Release PROVE segment'.thread \in Known
  <2>1. CASE Resume(pc)
    <3>1. segment'.thread = segment.thread
      BY <2>1 DEF Resume, TypeOK, Request
    <3> QED BY <1>4, <3>1
  <2>2. CASE Release
    BY <1>3, <2>2 DEF Release, Idle
  <2> QED BY <1>5, <2>1, <2>2
<1>6. CASE BeginSegment
  <2>1. queue' \in Seq(RequestsOf(Known)) /\ segment' \in RequestsOf(Known)
    BY <1>6, TailTyped DEF BeginSegment, KnownThreads
  <2>2. segment'.thread \in Known
    BY <2>1 DEF RequestsOf
  <2> QED BY <1>1, <1>6, <2>1, <2>2 DEF BeginSegment, KnownThreads
<1>7. CASE SubmitGuard
  <2>1. Quiet(codex', Known) /\ segment'.thread \in Known
    BY <1>2, <1>5, <1>7, RepliedKnown DEF SubmitGuard
  <2> QED BY <1>1, <1>7, <2>1 DEF SubmitGuard, KnownThreads
<1>8. CASE SubmitRejected
  <2>1. Quiet(codex', Known) /\ segment'.thread \in Known
    BY <1>2, <1>5, <1>8, RepliedKnown DEF SubmitRejected
  <2> QED BY <1>1, <1>8, <2>1 DEF SubmitRejected, KnownThreads
<1>9. CASE SubmitCommit
  <2>1. segment'.thread \in Known
    BY <1>5, <1>9 DEF SubmitCommit
  <2> QED BY <1>1, <1>9, <2>1 DEF SubmitCommit, KnownThreads
<1>10. CASE SubmitFinish
  <2>1. Quiet(codex', Known) /\ segment'.thread \in Known
    <3>1. \E id : codex' = Replied(codex, segment.thread, segment.turn, id)
      BY <1>10 DEF SubmitFinish
    <3>2. Release
      BY <1>10 DEF SubmitFinish
    <3> QED BY <1>2, <1>5, <3>1, <3>2, RepliedKnown
  <2>2. draining' \subseteq Known /\ queue' \in Seq(RequestsOf(Known))
    <3>1. CASE ScheduleClear(segment.thread, segment.turn, segment.id, TRUE)
      BY <1>4, <3>1, ScheduleClearKnown DEF TypeOK, KnownThreads
    <3>2. CASE UNCHANGED <<draining, queue>>
      BY <3>2 DEF KnownThreads
    <3> QED BY <1>10, <3>1, <3>2 DEF SubmitFinish
  <2> QED BY <1>1, <1>10, <2>1, <2>2 DEF SubmitFinish, KnownThreads
<1>11. CASE ChoiceCommit
  <2>1. segment'.thread \in Known
    BY <1>5, <1>11 DEF ChoiceCommit
  <2> QED BY <1>1, <1>11, <2>1 DEF ChoiceCommit, KnownThreads
<1>12. CASE ChoiceFinish
  <2>1. segment'.thread \in Known
    BY <1>5, <1>12 DEF ChoiceFinish
  <2>2. draining' \subseteq Known /\ queue' \in Seq(RequestsOf(Known))
    <3>1. CASE ScheduleClear(current, Nobody, segment.id + 1, FALSE)
      <4>1. segment.id + 1 \in Nat
        BY <1>4
      <4> QED BY <1>4, <3>1, <4>1, ScheduleClearKnown DEF TypeOK, KnownThreads
    <3>2. CASE UNCHANGED <<draining, queue>>
      BY <3>2 DEF KnownThreads
    <3> QED BY <1>12, <3>1, <3>2 DEF ChoiceFinish
  <2> QED BY <1>1, <1>12, <2>1, <2>2 DEF ChoiceFinish, KnownThreads
<1>13. CASE HookRuns
  <2>1. segment'.thread \in Known
    BY <1>5, <1>13 DEF HookRuns
  <2>2. \A e \in entries' : e.thread \in Known
    <3>1. CASE UNCHANGED entries
      BY <3>1 DEF KnownThreads
    <3>2. CASE entries' = entries \cup {[visit |-> commits + 1, thread |-> segment.thread,
                                         turn |-> segment.turn,
                                         policy |-> segment.kind = "policy"]}
      BY <1>4, <3>2 DEF KnownThreads
    <3> QED BY <1>13, <3>1, <3>2 DEF HookRuns
  <2> QED BY <1>1, <1>13, <2>1, <2>2 DEF HookRuns, KnownThreads
<1>14. CASE EntryEmit
  <2>1. draining' \subseteq Known /\ queue' \in Seq(RequestsOf(Known))
    <3>1. CASE ScheduleClear(current, Nobody, commits + 1, FALSE)
      <4>1. commits + 1 \in Nat
        BY DEF TypeOK
      <4> QED BY <1>4, <3>1, <4>1, ScheduleClearKnown DEF TypeOK, KnownThreads
    <3>2. CASE UNCHANGED <<draining, queue>>
      BY <3>2 DEF KnownThreads
    <3> QED BY <1>14, <3>1, <3>2 DEF EntryEmit
  <2> QED BY <1>1, <1>14, <2>1 DEF EntryEmit, KnownThreads
<1>15. ASSUME NEW e \in entries, HookEntryFinish(e) PROVE KnownThreads'
  <2>1. e.thread \in Threads /\ e.turn \in Nat /\ e.visit \in Nat /\ e.thread \in Known
    BY DEF TypeOK, HookEntry, KnownThreads
  <2>2. draining' \subseteq Known /\ queue' \in Seq(RequestsOf(Known))
    <3>1. CASE ScheduleClear(e.thread, e.turn, e.visit, FALSE)
      BY <2>1, <3>1, ScheduleClearKnown DEF TypeOK, KnownThreads
    <3>2. CASE UNCHANGED <<draining, queue>>
      BY <3>2 DEF KnownThreads
    <3> QED BY <1>15, <3>1, <3>2 DEF HookEntryFinish
  <2> QED BY <1>1, <1>15, <2>2 DEF HookEntryFinish, KnownThreads
<1>16. ASSUME NEW e \in entries, PolicyEntryFinish(e) PROVE KnownThreads'
  <2>1. draining' \subseteq Known /\ entries' \subseteq entries
    BY <1>16 DEF PolicyEntryFinish, KnownThreads
  <2> QED BY <1>1, <1>16, <2>1 DEF PolicyEntryFinish, KnownThreads
<1>17. ASSUME NEW c \in clears, PolicyReplies(c) PROVE KnownThreads'
  <2>1. c.turn \in Nat /\ c.id \in Nat
    BY DEF TypeOK, ClearTask
  <2>2. Req("clear", current, c.turn, fsm, fsm, c.id) \in RequestsOf(Known)
    BY <2>1, KnownReq DEF TypeOK, KnownThreads
  <2>3. queue' \in Seq(RequestsOf(Known))
    BY <1>17, <2>2, AppendTyped DEF PolicyReplies, KnownThreads
  <2> QED BY <1>1, <1>17, <2>3 DEF PolicyReplies, KnownThreads
<1> QED BY <1>6, <1>7, <1>8, <1>9, <1>10, <1>11, <1>12, <1>13, <1>14, <1>15, <1>16, <1>17
        DEF Dispatch

LEMMA KnownProduce ==
    ASSUME TypeOK, KnownThreads, Produce PROVE KnownThreads'
<1> USE DEF fsmVars, threadVars, codexVars, ownerVars, chainVars, taskVars, endVars
<1>1. Known' = Known
  BY DEF Produce, OrientAfterChoice, DanceInterrupts, DanceStarts, DanceFails,
         DanceAndSalvageFail, Known
<1>2. /\ codex \in [Threads -> Endpoint] /\ Quiet(codex, Known) /\ turns \in Nat
      /\ current \in Threads /\ current \in Known /\ wire \in Seq(MessagesOf(Known))
  BY DEF TypeOK, KnownThreads
<1>3. CASE OrientAfterChoice
  <2>1. Quiet(codex', Known) /\ wire' \in Seq(MessagesOf(Known))
    BY <1>2, <1>3, StartTurnKnown DEF OrientAfterChoice
  <2> QED BY <1>1, <1>3, <2>1 DEF OrientAfterChoice, KnownThreads
<1>4. ASSUME NEW d \in dances, DanceInterrupts(d) PROVE KnownThreads'
  <2> DEFINE a == Msg("completed", current, d.turn, Nobody)
             b == Msg("interrupted", current, d.turn, d.id)
  <2>1. d.turn \in Nat /\ d.id \in Nat /\ Nobody \in Nat
    BY DEF TypeOK, DanceTask, Nobody
  <2>2. a \in MessagesOf(Known) /\ b \in MessagesOf(Known)
    BY <1>2, <2>1, KnownMsg
  <2>3. wire \o <<a, b>> \in Seq(MessagesOf(Known)) /\ Append(wire, b) \in Seq(MessagesOf(Known))
    <3>1. <<a, b>> \in Seq(MessagesOf(Known))
      BY <2>2
    <3>2. wire \o <<a, b>> \in Seq(MessagesOf(Known))
      BY <1>2, <3>1, ConcatProperties
    <3> QED BY <1>2, <2>2, <3>2, AppendTyped
  <2>4. wire' \in Seq(MessagesOf(Known))
    BY <1>4, <2>3 DEF DanceInterrupts
  <2>5. Quiet(codex', Known)
    BY <1>2, <1>4, StoppedKnown DEF DanceInterrupts
  <2> QED BY <1>1, <1>4, <2>4, <2>5 DEF DanceInterrupts, KnownThreads
<1>5. ASSUME NEW d \in dances, DanceStarts(d) PROVE KnownThreads'
  <2>1. Quiet(codex', Known) /\ wire' \in Seq(MessagesOf(Known))
    BY <1>2, <1>5, StartTurnKnown DEF DanceStarts
  <2> QED BY <1>1, <1>5, <2>1 DEF DanceStarts, KnownThreads
<1>6. ASSUME NEW d \in dances, DanceFails(d) PROVE KnownThreads'
  <2>1. Quiet(codex', Known) /\ wire' \in Seq(MessagesOf(Known))
    BY <1>2, <1>6, DriveForwardKnown DEF DanceFails
  <2> QED BY <1>1, <1>6, <2>1 DEF DanceFails, KnownThreads
<1>7. ASSUME NEW d \in dances, DanceAndSalvageFail(d) PROVE KnownThreads'
  BY <1>1, <1>7 DEF DanceAndSalvageFail, KnownThreads
<1> QED BY <1>3, <1>4, <1>5, <1>6, <1>7 DEF Produce

LEMMA KnownClear ==
    ASSUME TypeOK, KnownThreads, FreshClear PROVE KnownThreads'
<1> USE DEF fsmVars, threadVars, codexVars, ownerVars, chainVars, taskVars, endVars
<1>1. /\ codex \in [Threads -> Endpoint] /\ Quiet(codex, Known) /\ turns \in Nat
      /\ current \in Threads /\ current \in Known /\ wire \in Seq(MessagesOf(Known))
  BY DEF TypeOK, KnownThreads
<1>2. ASSUME NEW c, ReleaseBy(c) PROVE segment'.thread \in Known
  <2>1. 1 \in Known
    BY DEF Known, TypeOK, Threads
  <2> QED BY <1>2, <2>1 DEF ReleaseBy, Idle, KnownThreads
<1>3. ASSUME NEW c \in clears, ClearAbandons(c) PROVE KnownThreads'
  <2>1. c.turn \in Nat /\ Nobody \in Nat
    BY DEF TypeOK, ClearTask, Nobody
  <2>2. Append(wire, Msg("completed", current, c.turn, Nobody)) \in Seq(MessagesOf(Known))
    <3>1. Msg("completed", current, c.turn, Nobody) \in MessagesOf(Known)
      BY <1>1, <2>1, KnownMsg
    <3> QED BY <1>1, <3>1, AppendTyped
  <2>3. Quiet(codex', Known) /\ wire' \in Seq(MessagesOf(Known))
    BY <1>1, <1>3, <2>2, StoppedKnown DEF ClearAbandons
  <2> QED BY <1>3, <2>3 DEF ClearAbandons, Known, KnownThreads
<1>4. ASSUME NEW c \in clears, ClearOpens(c) PROVE KnownThreads'
  <2>1. lastThread \in Threads /\ lastThread < MaxThreads /\ lastThread' = lastThread + 1
    BY <1>4 DEF ClearOpens, TypeOK
  <2>2. lastThread + 1 \in Known' /\ Known \subseteq Known' /\ lastThread + 1 \in Threads
    BY <2>1, BoundsAssumption DEF Known, Threads
  <2>3. Quiet(codex, Known')
    BY <1>1, <2>2 DEF Quiet
  <2>4. MessagesOf(Known) \subseteq MessagesOf(Known') /\ RequestsOf(Known) \subseteq RequestsOf(Known')
    BY <2>2 DEF MessagesOf, RequestsOf
  <2>5. wire \in Seq(MessagesOf(Known')) /\ queue \in Seq(RequestsOf(Known'))
    BY <2>4 DEF KnownThreads
  <2>6. Quiet(codex', Known') /\ wire' \in Seq(MessagesOf(Known'))
    BY <1>1, <1>4, <2>2, <2>3, <2>5, StartTurnKnown DEF ClearOpens
  <2>7. segment'.thread \in Known'
    BY <1>2, <1>4, <2>2 DEF ClearOpens, KnownThreads
  <2> QED BY <1>4, <2>2, <2>5, <2>6, <2>7 DEF ClearOpens, KnownThreads
<1>5. ASSUME NEW c \in clears, ClearBoundary(c) PROVE KnownThreads'
  <2>1. segment'.thread \in Known
    BY <1>2, <1>5 DEF ClearBoundary
  <2> QED BY <1>5, <2>1 DEF ClearBoundary, Known, KnownThreads
<1>6. ASSUME NEW c \in clears, ClearFails(c) PROVE KnownThreads'
  <2>1. segment'.thread \in Known
    BY <1>2, <1>6 DEF ClearFails
  <2> QED BY <1>6, <2>1 DEF ClearFails, Known, KnownThreads
<1> QED BY <1>3, <1>4, <1>5, <1>6 DEF FreshClear

LEMMA KnownNext == TypeOK /\ KnownThreads /\ [Next]_vars => KnownThreads'
<1> USE DEF fsmVars, threadVars, codexVars, ownerVars, chainVars, taskVars, endVars
<1>1. KnownThreads /\ Close => KnownThreads'
  BY DEF Close, KnownThreads, Known
<1>2. KnownThreads /\ UNCHANGED vars => KnownThreads'
  BY DEF vars, KnownThreads, Known
<1> QED BY <1>1, <1>2, KnownExternal, KnownReceive, KnownDispatch, KnownProduce, KnownClear DEF Next

(* No action of aharness names a thread that Codex has not opened.          *)
THEOREM OnlyKnownThreads == Spec => []KnownThreads
<1>1. Spec => []TypeOK
  BY TypeCorrect
<1> QED BY <1>1, KnownInit, KnownNext, PTL DEF Spec

(********************** what a fresh clear leaves behind ********************)
LEMMA EndIsFinal ==
    ASSUME NEW how \in {"terminal", "failed"}, End(how) PROVE ended' # "no"
BY DEF End

LEMMA ScheduleClearKeeps ==
    ASSUME NEW th, NEW turn, NEW id, NEW held, ScheduleClear(th, turn, id, held),
           UNCHANGED <<current, abandoned, lost>>, ended' = "no" => ended = "no",
           UnusableOnlyWhileClearing
    PROVE  UnusableOnlyWhileClearing'
<1> DEFINE new == [id |-> id, turn |-> turn, old |-> Nobody, held |-> held,
                   pc |-> IF held THEN "queued" ELSE "begin"]
<1>1. clears' = clears \cup {new} /\ draining' = draining \cup {th}
  BY DEF ScheduleClear
<1>2. new.pc \in {"reply", "queued", "begin", "opening"}
  OBVIOUS
<1> HIDE DEF new
<1> QED BY <1>1, <1>2 DEF UnusableOnlyWhileClearing

(* Outside the clear itself, an action at most schedules another one.       *)
LEMMA UnusableElsewhere ==
    ASSUME TypeOK, UnusableOnlyWhileClearing,
           Receive \/ Dispatch \/ Produce \/ External \/ Close
    PROVE  UnusableOnlyWhileClearing'
<1> USE DEF fsmVars, threadVars, codexVars, ownerVars, chainVars, taskVars, endVars
<1>1. ASSUME UNCHANGED <<current, abandoned, draining, clears, lost>>,
             ended' = "no" => ended = "no"
      PROVE  UnusableOnlyWhileClearing'
  BY <1>1 DEF UnusableOnlyWhileClearing
<1>2. CASE Receive
  <2>1. UNCHANGED <<current, abandoned, draining, clears, lost>>
    BY <1>2 DEF Receive, ReceiveStarted, ReceiveCompleted, ReceiveItem, ReceiveInterrupted,
                ReceiveCall, ReceiveAsk
  <2>2. ended' = "no" => ended = "no"
    BY <1>2, EndIsFinal
       DEF Receive, ReceiveStarted, ReceiveCompleted, ReceiveItem, ReceiveInterrupted,
           ReceiveCall, ReceiveAsk, DriveForward
  <2> QED BY <1>1, <2>1, <2>2
<1>3. CASE Produce
  <2>1. UNCHANGED <<current, abandoned, draining, clears, lost>>
    BY <1>3 DEF Produce, OrientAfterChoice, DanceInterrupts, DanceStarts, DanceFails,
                DanceAndSalvageFail
  <2>2. ended' = "no" => ended = "no"
    BY <1>3, EndIsFinal
       DEF Produce, OrientAfterChoice, DanceInterrupts, DanceStarts, DanceFails,
           DanceAndSalvageFail, DriveForward
  <2> QED BY <1>1, <2>1, <2>2
<1>4. CASE External
  <2>1. UNCHANGED <<current, abandoned, draining, clears, lost, ended>>
    BY <1>4 DEF External, OwnerChooses, OwnerPrompts, OwnerAnswers, CodexSubmits,
                CodexAsksOwner, CodexItem, CodexCompletes, HookFrame
  <2> QED BY <1>1, <2>1
<1>5. CASE Close
  BY <1>1, <1>5 DEF Close
<1>6. CASE BeginSegment \/ SubmitGuard \/ SubmitRejected \/ SubmitCommit \/ ChoiceCommit
  <2>1. UNCHANGED <<current, abandoned, draining, clears, lost, ended>>
    BY <1>6 DEF BeginSegment, SubmitGuard, SubmitRejected, SubmitCommit, ChoiceCommit
  <2> QED BY <1>1, <2>1
<1>7. CASE HookRuns
  <2>1. UNCHANGED <<current, abandoned, draining, clears, lost>>
    BY <1>7 DEF HookRuns
  <2>2. ended' = "no" => ended = "no"
    BY <1>7, EndIsFinal DEF HookRuns
  <2> QED BY <1>1, <2>1, <2>2
<1>8. CASE SubmitFinish
  <2>1. UNCHANGED <<current, abandoned, lost>>
    BY <1>8 DEF SubmitFinish
  <2>2. ended' = "no" => ended = "no"
    BY <1>8, EndIsFinal DEF SubmitFinish
  <2>3. CASE ScheduleClear(segment.thread, segment.turn, segment.id, TRUE)
    BY <2>1, <2>2, <2>3, ScheduleClearKeeps
  <2>4. CASE UNCHANGED <<draining, clears>>
    BY <1>1, <2>1, <2>2, <2>4
  <2> QED BY <1>8, <2>3, <2>4 DEF SubmitFinish
<1>9. CASE ChoiceFinish
  <2>1. UNCHANGED <<current, abandoned, lost>>
    BY <1>9 DEF ChoiceFinish
  <2>2. ended' = "no" => ended = "no"
    BY <1>9, EndIsFinal DEF ChoiceFinish
  <2>3. CASE ScheduleClear(current, Nobody, segment.id + 1, FALSE)
    BY <2>1, <2>2, <2>3, ScheduleClearKeeps
  <2>4. CASE UNCHANGED <<draining, clears>>
    BY <1>1, <2>1, <2>2, <2>4
  <2> QED BY <1>9, <2>3, <2>4 DEF ChoiceFinish
<1>10. CASE EntryEmit
  <2>1. UNCHANGED <<current, abandoned, lost>>
    BY <1>10 DEF EntryEmit
  <2>2. ended' = "no" => ended = "no"
    BY <1>10, EndIsFinal DEF EntryEmit
  <2>3. CASE ScheduleClear(current, Nobody, commits + 1, FALSE)
    BY <2>1, <2>2, <2>3, ScheduleClearKeeps
  <2>4. CASE UNCHANGED <<draining, clears>>
    BY <1>1, <2>1, <2>2, <2>4
  <2> QED BY <1>10, <2>3, <2>4 DEF EntryEmit
<1>11. ASSUME NEW e \in entries, HookEntryFinish(e) PROVE UnusableOnlyWhileClearing'
  <2>1. UNCHANGED <<current, abandoned, lost, ended>>
    BY <1>11 DEF HookEntryFinish
  <2>2. CASE ScheduleClear(e.thread, e.turn, e.visit, FALSE)
    BY <2>1, <2>2, ScheduleClearKeeps
  <2>3. CASE UNCHANGED <<draining, clears>>
    BY <1>1, <2>1, <2>3
  <2> QED BY <1>11, <2>2, <2>3 DEF HookEntryFinish
<1>12. ASSUME NEW e \in entries, PolicyEntryFinish(e) PROVE UnusableOnlyWhileClearing'
  <2> DEFINE new == [id |-> e.visit, turn |-> e.turn, old |-> Nobody, held |-> TRUE,
                     pc |-> "reply"]
  <2>1. UNCHANGED <<current, abandoned, ended>> /\ clears \subseteq clears' /\ lost \subseteq lost'
    BY <1>12 DEF PolicyEntryFinish
  <2>2. draining' = draining \/ new \in clears' \/ current \in lost'
    BY <1>12 DEF PolicyEntryFinish
  <2>3. new.pc = "reply"
    OBVIOUS
  <2> HIDE DEF new
  <2> QED BY <2>1, <2>2, <2>3 DEF UnusableOnlyWhileClearing
<1>13. ASSUME NEW c \in clears, PolicyReplies(c) PROVE UnusableOnlyWhileClearing'
  <2> DEFINE new == [c EXCEPT !.pc = "queued"]
  <2>1. new.pc = "queued"
    BY DEF TypeOK, ClearTask
  <2>2. /\ UNCHANGED <<current, abandoned, draining, lost, ended>>
        /\ clears' = (clears \ {c}) \cup {new} /\ c.pc = "reply"
    BY <1>13 DEF PolicyReplies
  <2> HIDE DEF new
  <2> QED BY <2>1, <2>2 DEF UnusableOnlyWhileClearing
<1> QED BY <1>2, <1>3, <1>4, <1>5, <1>6, <1>7, <1>8, <1>9, <1>10, <1>11, <1>12, <1>13
        DEF Dispatch

LEMMA UnusableInClear ==
    ASSUME TypeOK, KnownThreads, UnusableOnlyWhileClearing, FreshClear
    PROVE  UnusableOnlyWhileClearing'
<1> USE DEF fsmVars, threadVars, codexVars, ownerVars, chainVars, taskVars, endVars
<1>1. ASSUME NEW c \in clears, ClearAbandons(c) PROVE UnusableOnlyWhileClearing'
  <2> DEFINE new == [c EXCEPT !.pc = "opening", !.old = current]
  <2>1. new.pc = "opening" /\ new.old = current
    BY DEF TypeOK, ClearTask
  <2>2. new \in clears' /\ UNCHANGED current
    BY <1>1 DEF ClearAbandons, Step
  <2> HIDE DEF new
  <2> QED BY <2>1, <2>2 DEF UnusableOnlyWhileClearing
<1>2. ASSUME NEW c \in clears, ClearOpens(c) PROVE UnusableOnlyWhileClearing'
  <2>1. current' = lastThread + 1 /\ draining' = draining /\ current' \notin abandoned'
    BY <1>2 DEF ClearOpens
  <2>2. lastThread + 1 \notin Known
    BY DEF Known, TypeOK, Threads
  <2>3. current' \notin draining'
    BY <2>1, <2>2 DEF KnownThreads
  <2> QED BY <2>1, <2>3 DEF UnusableOnlyWhileClearing
<1>3. ASSUME NEW c \in clears, ClearBoundary(c) PROVE UnusableOnlyWhileClearing'
  <2>1. /\ UNCHANGED <<current, abandoned, lost, ended>> /\ draining' \subseteq draining
        /\ c.pc = "boundary" /\ clears' = clears \ {c}
    BY <1>3 DEF ClearBoundary, Step
  <2>2. \A d \in clears : d.pc # "boundary" => d \in clears'
    BY <2>1
  <2> QED BY <2>1, <2>2 DEF UnusableOnlyWhileClearing
<1>4. ASSUME NEW c \in clears, ClearFails(c) PROVE UnusableOnlyWhileClearing'
  <2>1. ended' # "no"
    BY <1>4, EndIsFinal DEF ClearFails
  <2> QED BY <2>1 DEF UnusableOnlyWhileClearing
<1> QED BY <1>1, <1>2, <1>3, <1>4 DEF FreshClear

(* A bound thread whose requests are refused is always about to be replaced *)
(* by a fresh clear that is under way, or the run is over: no submit,       *)
(* choice, hook or emit leaves a live state with a model that aharness      *)
(* ignores.  A permission policy may: nobody starts its clear when the      *)
(* onEntry of its transition returns after the policy's reply.              *)
THEOREM UnusableIsTransient == Spec => []UnusableOnlyWhileClearing
<1>1. Init => UnusableOnlyWhileClearing
  BY DEF Init, UnusableOnlyWhileClearing
<1>2. TypeOK /\ KnownThreads /\ UnusableOnlyWhileClearing /\ [Next]_vars
        => UnusableOnlyWhileClearing'
  <2>1. UnusableOnlyWhileClearing /\ UNCHANGED vars => UnusableOnlyWhileClearing'
    BY DEF vars, threadVars, taskVars, endVars, UnusableOnlyWhileClearing
  <2> QED BY <2>1, UnusableElsewhere, UnusableInClear DEF Next
<1> QED BY <1>1, <1>2, TypeCorrect, OnlyKnownThreads, PTL DEF Spec

(* The owner never sees a question of a thread that has been replaced: its  *)
(* answer would go nowhere, and drive-forward would wait for it.            *)
THEOREM ParkedIsCurrent == Spec => []ParkedForBoundThread
<1> USE DEF fsmVars, threadVars, codexVars, ownerVars, chainVars, taskVars, endVars
<1>1. Init => ParkedForBoundThread
  BY DEF Init, ParkedForBoundThread
<1>2. ASSUME TypeOK, KnownThreads, ParkedForBoundThread, [Next]_vars
      PROVE  ParkedForBoundThread'
  <2>1. CASE ReceiveAsk
    BY <1>2, <2>1 DEF ReceiveAsk, LiveThread, ParkedForBoundThread
  <2>2. CASE OwnerAnswers
    BY <2>2 DEF OwnerAnswers, ParkedForBoundThread
  <2>3. ASSUME NEW c \in clears, ClearOpens(c) PROVE ParkedForBoundThread'
    <3>1. current # lastThread + 1
      BY <1>2 DEF KnownThreads, Known, TypeOK, Threads
    <3>2. current \in abandoned'
      BY <2>3, <3>1 DEF ClearOpens
    <3>3. parked' = {}
      BY <1>2, <2>3, <3>2 DEF ClearOpens, StillParked, ParkedForBoundThread
    <3> QED BY <3>3 DEF ParkedForBoundThread
  <2>4. ASSUME UNCHANGED <<parked, current>> PROVE ParkedForBoundThread'
    BY <1>2, <2>4 DEF ParkedForBoundThread
  <2>5. CASE Receive
    BY <2>1, <2>4, <2>5 DEF Receive, ReceiveStarted, ReceiveCompleted, ReceiveItem,
                            ReceiveInterrupted, ReceiveCall
  <2>6. CASE Dispatch
    BY <2>4, <2>6 DEF Dispatch, BeginSegment, SubmitGuard, SubmitRejected, SubmitCommit,
                      SubmitFinish, ChoiceCommit, ChoiceFinish, HookRuns, EntryEmit,
                      HookEntryFinish, PolicyEntryFinish, PolicyReplies
  <2>7. CASE Produce
    BY <2>4, <2>7 DEF Produce, OrientAfterChoice, DanceInterrupts, DanceStarts, DanceFails,
                      DanceAndSalvageFail
  <2>8. CASE FreshClear
    BY <2>3, <2>4, <2>8 DEF FreshClear, ClearAbandons, ClearBoundary, ClearFails
  <2>9. CASE External
    BY <2>2, <2>4, <2>9 DEF External, OwnerChooses, OwnerPrompts, CodexSubmits,
                            CodexAsksOwner, CodexItem, CodexCompletes, HookFrame
  <2>10. CASE Close
    BY <2>4, <2>10 DEF Close
  <2>11. CASE UNCHANGED vars
    BY <2>4, <2>11 DEF vars
  <2> QED BY <1>2, <2>5, <2>6, <2>7, <2>8, <2>9, <2>10, <2>11 DEF Next
<1> QED BY <1>1, <1>2, TypeCorrect, OnlyKnownThreads, PTL DEF Spec

(****************** one clear at a time, one thread at a time ***************)
(* The workflows whose transitions all come from submits and owner choices: *)
(* those run as serialized segments, a hook's or an onEntry's tail does not.*)
SerializedSources == HookTargets = {} /\ EntryEmits = {}

Pending(c) == c.pc # "boundary"
SoundRequest(r) == r.pc = "begin" /\ (r.kind = "choice" => r.from \in Choice)

(* At most one clear has yet to replace the bound thread; while it is       *)
(* pending no submit or choice is past its guard and the run stays in the   *)
(* clearOnEntry state.                                                      *)
Exclusive ==
    /\ entries = {} /\ current = lastThread
    /\ \A c \in clears : c.pc # "reply"
    /\ queue \in Seq({r \in Request : SoundRequest(r)})
    /\ segment.kind = "choice" => segment.from \in Choice
    /\ \A c, d \in clears : Pending(c) /\ Pending(d) => c = d
    /\ \A c \in clears : /\ c.old <= lastThread
                         /\ Pending(c) => current \in draining /\ fsm \in Clear /\ swaps = 0
                         /\ ~Pending(c) => c.old # current
    /\ segment.pc \in {"prepare", "entry"} => \A c \in clears : ~Pending(c)
    /\ segment.kind = "submit" /\ segment.pc \in {"prepare", "entry"}
         => LiveThread(segment.thread)
    /\ At("submit", "prepare") => fsm = segment.from
    /\ segment.pc = "entry" => swaps = 0
    /\ swaps <= 1

LEMMA ExclusiveInit == Init => Exclusive
BY DEF Init, Exclusive, Idle, At

(* A step that leaves the workflow, the bound thread, the clears and the    *)
(* segment alone, and queues at most a request of the right shape.          *)
LEMMA ExclusiveElsewhere ==
    ASSUME TypeOK, Exclusive,
           UNCHANGED <<fsm, swaps, current, lastThread, abandoned, draining, clears, entries>>,
           segment' = segment \/ segment' = Idle,
           queue' \in Seq({r \in Request : SoundRequest(r)})
    PROVE  Exclusive'
<1>1. CASE segment' = segment
  BY <1>1 DEF Exclusive, At, LiveThread, Pending
<1>2. CASE segment' = Idle
  BY <1>2 DEF Exclusive, At, Idle, Pending
<1> QED BY <1>1, <1>2

(* A segment at its entry schedules the clear of the state it has reached.  *)
LEMMA ExclusiveSchedule ==
    ASSUME TypeOK, Exclusive, segment.pc = "entry", fsm \in Clear, segment' = Idle,
           NEW turn \in Nat, NEW id \in Nat, NEW held \in BOOLEAN,
           ScheduleClear(current, turn, id, held),
           UNCHANGED <<fsm, swaps, current, lastThread, abandoned, entries>>
    PROVE  Exclusive'
<1> DEFINE new == [id |-> id, turn |-> turn, old |-> Nobody, held |-> held,
                   pc |-> IF held THEN "queued" ELSE "begin"]
<1>1. clears' = clears \cup {new} /\ current \in draining'
  BY DEF ScheduleClear
<1>2. Pending(new) /\ new.old <= lastThread /\ new.pc # "reply"
  BY DEF Pending, Nobody, TypeOK, Threads
<1>3. \A c \in clears : ~Pending(c)
  BY DEF Exclusive
<1>4. queue' \in Seq({r \in Request : SoundRequest(r)})
  <2>1. Req("clear", current, turn, fsm, fsm, id) \in {r \in Request : SoundRequest(r)}
    <3>1. Req("clear", current, turn, fsm, fsm, id) \in Request
      BY ReqTyped DEF TypeOK
    <3> QED BY <3>1 DEF Req, SoundRequest
  <2>2. Append(queue, Req("clear", current, turn, fsm, fsm, id))
          \in Seq({r \in Request : SoundRequest(r)})
    BY <2>1, AppendTyped DEF Exclusive
  <2> QED BY <2>2 DEF ScheduleClear, Exclusive
<1> HIDE DEF new
<1>5. swaps = 0
  BY DEF Exclusive
<1>6. \A c, d \in clears' : Pending(c) /\ Pending(d) => c = d
  BY <1>1, <1>3
<1>7. \A c \in clears' : /\ c.old <= lastThread'
                         /\ Pending(c) => current' \in draining' /\ fsm' \in Clear /\ swaps' = 0
                         /\ ~Pending(c) => c.old # current'
  BY <1>1, <1>2, <1>5 DEF Exclusive
<1>8. segment'.pc = "idle" /\ segment'.kind = "submit"
  BY DEF Idle
<1>9. \A c \in clears' : c.pc # "reply"
  BY <1>1, <1>2 DEF Exclusive
<1> QED BY <1>4, <1>5, <1>6, <1>7, <1>8, <1>9 DEF Exclusive, At, Pending

LEMMA ExclusiveDispatch ==
    ASSUME SerializedSources, TypeOK, Exclusive, Dispatch PROVE Exclusive'
<1> USE DEF fsmVars, threadVars, codexVars, ownerVars, chainVars, taskVars, endVars
<1>1. CASE BeginSegment
  <2>1. segment' \in {r \in Request : SoundRequest(r)}
        /\ queue' \in Seq({r \in Request : SoundRequest(r)})
    BY <1>1, TailTyped DEF BeginSegment, Exclusive
  <2>2. segment'.pc = "begin" /\ (segment'.kind = "choice" => segment'.from \in Choice)
    BY <2>1 DEF SoundRequest
  <2> QED BY <1>1, <2>1, <2>2 DEF BeginSegment, Exclusive, At, Pending
<1>2. CASE SubmitGuard
  <2>1. CASE LiveThread(segment.thread) /\ fsm = segment.from
    <3>1. /\ segment'.pc = "prepare" /\ segment'.kind = segment.kind
          /\ segment'.thread = segment.thread /\ segment'.from = segment.from
          /\ segment.kind = "submit"
      BY <1>2, <2>1 DEF SubmitGuard, Resume, At, TypeOK, Request
    <3>2. \A c \in clears : ~Pending(c)
      BY <2>1 DEF Exclusive, LiveThread
    <3> QED BY <1>2, <2>1, <3>1, <3>2 DEF SubmitGuard, Exclusive, At, Pending, LiveThread
  <2>2. CASE ~(LiveThread(segment.thread) /\ fsm = segment.from)
    BY <1>2, <2>2, ExclusiveElsewhere DEF SubmitGuard, Release, Exclusive
  <2> QED BY <2>1, <2>2
<1>3. CASE SubmitRejected
  BY <1>3, ExclusiveElsewhere DEF SubmitRejected, Release, Exclusive
<1>4. CASE SubmitCommit
  <2>1. /\ segment'.pc = "entry" /\ segment'.kind = segment.kind
        /\ segment'.thread = segment.thread /\ segment'.from = segment.from
        /\ segment.kind = "submit" /\ segment.pc = "prepare"
    BY <1>4 DEF SubmitCommit, Resume, At, TypeOK, Request
  <2>2. swaps' = 0
    BY <1>4 DEF SubmitCommit, CommitTo, Exclusive
  <2>3. \A c \in clears : ~Pending(c)
    BY <2>1 DEF Exclusive
  <2> QED BY <1>4, <2>1, <2>2, <2>3 DEF SubmitCommit, Exclusive, At, Pending, LiveThread
<1>5. CASE SubmitFinish
  <2>1. segment.pc = "entry" /\ LiveThread(segment.thread) /\ segment' = Idle
    BY <1>5 DEF SubmitFinish, At, Exclusive, Release
  <2>2. CASE fsm \in Clear /\ ScheduleClear(segment.thread, segment.turn, segment.id, TRUE)
    <3>1. segment.turn \in Nat /\ segment.id \in Nat /\ segment.thread = current
      BY <2>1, SegmentTyped DEF TypeOK, LiveThread
    <3>2. ScheduleClear(current, segment.turn, segment.id, TRUE)
      BY <2>2, <3>1
    <3>3. UNCHANGED <<fsm, swaps, current, lastThread, abandoned, entries>>
      BY <1>5 DEF SubmitFinish
    <3> QED BY <2>1, <2>2, <3>1, <3>2, <3>3, ExclusiveSchedule
  <2>3. CASE UNCHANGED <<draining, clears, queue>>
    BY <1>5, <2>1, <2>3, ExclusiveElsewhere DEF SubmitFinish, Exclusive
  <2> QED BY <1>5, <2>2, <2>3 DEF SubmitFinish
<1>6. CASE ChoiceCommit
  <2>1. segment.kind = "choice" /\ segment.from \in Choice
    BY <1>6 DEF ChoiceCommit, At, Exclusive
  <2>2. CASE fsm = segment.from /\ commits = segment.id
    <3>1. fsm \notin Clear
      BY <2>1, <2>2, KindsAssumption
    <3>2. \A c \in clears : ~Pending(c)
      BY <3>1 DEF Exclusive
    <3>3. /\ segment'.pc = "entry" /\ segment'.kind = segment.kind
          /\ segment'.from = segment.from /\ swaps' = 0
      BY <1>6, <2>2 DEF ChoiceCommit, Resume, CommitTo, TypeOK, Request
    <3> QED BY <1>6, <2>1, <3>2, <3>3 DEF ChoiceCommit, Exclusive, At, Pending
  <2>3. CASE ~(fsm = segment.from /\ commits = segment.id)
    BY <1>6, <2>3, ExclusiveElsewhere DEF ChoiceCommit, Release, Exclusive
  <2> QED BY <2>2, <2>3
<1>7. CASE ChoiceFinish
  <2>1. segment.pc = "entry" /\ segment' = Idle
    BY <1>7 DEF ChoiceFinish, At, Release
  <2>2. CASE fsm \in Clear /\ ScheduleClear(current, Nobody, segment.id + 1, FALSE)
    <3>1. segment.id + 1 \in Nat /\ Nobody \in Nat
      BY SegmentTyped DEF TypeOK, Nobody
    <3>2. UNCHANGED <<fsm, swaps, current, lastThread, abandoned, entries>>
      BY <1>7 DEF ChoiceFinish
    <3> QED BY <2>1, <2>2, <3>1, <3>2, ExclusiveSchedule
  <2>3. CASE UNCHANGED <<draining, clears, queue>>
    BY <1>7, <2>1, <2>3, ExclusiveElsewhere DEF ChoiceFinish, Exclusive
  <2> QED BY <1>7, <2>2, <2>3 DEF ChoiceFinish
<1>8. CASE HookRuns
  <2>1. UNCHANGED <<fsmVars, entries>>
    BY <1>8 DEF HookRuns, SerializedSources
  <2> QED BY <1>8, <2>1, ExclusiveElsewhere DEF HookRuns, Release, Exclusive
<1>9. ~EntryEmit
  BY DEF EntryEmit, SerializedSources
<1>10. /\ ~\E e \in entries : HookEntryFinish(e) \/ PolicyEntryFinish(e)
       /\ ~\E c \in clears : PolicyReplies(c)
  BY DEF Exclusive, PolicyReplies
<1> QED BY <1>1, <1>2, <1>3, <1>4, <1>5, <1>6, <1>7, <1>8, <1>9, <1>10 DEF Dispatch

LEMMA ExclusiveClear ==
    ASSUME SerializedSources, TypeOK, Exclusive, FreshClear PROVE Exclusive'
<1> USE DEF fsmVars, threadVars, codexVars, ownerVars, chainVars, taskVars, endVars
<1>1. ASSUME NEW c \in clears, Pending(c)
      PROVE  /\ segment.pc \notin {"prepare", "entry"} /\ swaps = 0 /\ fsm \in Clear
             /\ current \in draining /\ \A d \in clears \ {c} : ~Pending(d)
  BY <1>1 DEF Exclusive
<1>2. ASSUME NEW c \in clears, ClearAbandons(c) PROVE Exclusive'
  <2> DEFINE new == [c EXCEPT !.pc = "opening", !.old = current]
  <2>1. new.pc = "opening" /\ new.old = current
    BY DEF TypeOK, ClearTask
  <2>2. clears' = (clears \ {c}) \cup {new} /\ Pending(c)
    BY <1>2 DEF ClearAbandons, Step, Pending
  <2> HIDE DEF new
  <2>3. \A d, f \in clears' : Pending(d) /\ Pending(f) => d = f
    BY <1>1, <2>2
  <2>4. current <= lastThread
    BY DEF Exclusive, TypeOK, Threads
  <2>5. \A d \in clears' : /\ d.old <= lastThread'
                           /\ Pending(d) => current' \in draining' /\ fsm' \in Clear /\ swaps' = 0
                           /\ ~Pending(d) => d.old # current'
    BY <1>1, <1>2, <2>1, <2>2, <2>4 DEF ClearAbandons, Exclusive, Pending
  <2>6. segment'.pc \notin {"prepare", "entry"}
    BY <1>1, <1>2, <2>2 DEF ClearAbandons
  <2>7. \A d \in clears' : d.pc # "reply"
    BY <2>1, <2>2 DEF Exclusive
  <2> QED BY <1>2, <2>3, <2>5, <2>6, <2>7 DEF ClearAbandons, Exclusive, At, Pending
<1>3. ASSUME NEW c \in clears, ClearOpens(c) PROVE Exclusive'
  <2> DEFINE new == [c EXCEPT !.pc = "boundary"]
  <2>1. new.pc = "boundary" /\ new.old = c.old
    BY DEF TypeOK, ClearTask
  <2>2. Pending(c) /\ clears' \subseteq (clears \ {c}) \cup {new}
    BY <1>3 DEF ClearOpens, Step, Pending
  <2> HIDE DEF new
  <2>3. \A d \in clears' : ~Pending(d) /\ d.old <= lastThread
    BY <1>1, <2>1, <2>2 DEF Pending, Exclusive
  <2>4. lastThread' = lastThread + 1 /\ current' = lastThread + 1
    BY <1>3 DEF ClearOpens
  <2>5. \A d \in clears' : d.old <= lastThread' /\ d.old # current'
    <3> TAKE d \in clears'
    <3>1. d.old \in Int /\ lastThread \in Int
      BY <2>2, <2>1 DEF TypeOK, ClearTask, Threads
    <3> QED BY <2>3, <2>4, <3>1
  <2>6. swaps' = 1
    BY <1>1, <1>3, <2>2 DEF ClearOpens
  <2>7. segment'.pc \notin {"prepare", "entry"}
    BY <1>1, <1>3, <2>2 DEF ClearOpens, ReleaseBy, Idle
  <2>8. segment'.kind = "choice" => segment'.from \in Choice
    BY <1>3 DEF ClearOpens, ReleaseBy, Idle, Exclusive
  <2>9. \A d \in clears' : d.pc # "reply"
    BY <2>1, <2>2 DEF Exclusive
  <2> QED BY <1>3, <2>3, <2>4, <2>5, <2>6, <2>7, <2>8, <2>9 DEF ClearOpens, Exclusive, At, Pending
<1>4. ASSUME NEW c \in clears, ClearBoundary(c) PROVE Exclusive'
  <2>1. ~Pending(c) /\ draining' = draining \ {c.old} /\ clears' = clears \ {c}
    BY <1>4 DEF ClearBoundary, Step, Pending
  <2>2. c.old # current
    BY <2>1 DEF Exclusive
  <2>3. segment' = segment \/ segment' = Idle
    BY <1>4 DEF ClearBoundary, ReleaseBy
  <2>4. Idle.pc = "idle" /\ Idle.kind = "submit"
    BY DEF Idle
  <2> QED BY <1>4, <2>1, <2>2, <2>3, <2>4
          DEF ClearBoundary, Exclusive, At, Pending, LiveThread
<1>5. ASSUME NEW c \in clears, ClearFails(c) PROVE Exclusive'
  <2>1. clears' = clears \ {c}
    BY <1>5 DEF ClearFails, Step
  <2>2. segment' = segment \/ segment' = Idle
    BY <1>5 DEF ClearFails, ReleaseBy
  <2>3. Idle.pc = "idle" /\ Idle.kind = "submit"
    BY DEF Idle
  <2> QED BY <1>5, <2>1, <2>2, <2>3 DEF ClearFails, Exclusive, At, Pending, LiveThread
<1> QED BY <1>2, <1>3, <1>4, <1>5 DEF FreshClear

LEMMA ExclusiveNext ==
    ASSUME SerializedSources, TypeOK, Exclusive, [Next]_vars PROVE Exclusive'
<1> USE DEF fsmVars, threadVars, codexVars, ownerVars, chainVars, taskVars, endVars
<1>1. CASE Receive
  <2>1. /\ UNCHANGED <<fsm, swaps, current, lastThread, abandoned, draining, clears, entries,
                       segment>>
    BY <1>1 DEF Receive, ReceiveStarted, ReceiveCompleted, ReceiveItem, ReceiveInterrupted,
                ReceiveCall, ReceiveAsk
  <2>2. queue' \in Seq({r \in Request : SoundRequest(r)})
    <3>1. CASE ReceiveCall
      <4> DEFINE m == Head(wire)
      <4>1. m \in Message
        BY <3>1, TailTyped DEF ReceiveCall, TypeOK
      <4>2. Req("submit", m.thread, m.turn, m.from, m.to, m.id)
              \in {r \in Request : SoundRequest(r)}
        <5>1. Req("submit", m.thread, m.turn, m.from, m.to, m.id) \in Request
          BY <4>1, ReqTyped DEF Message
        <5> QED BY <5>1 DEF Req, SoundRequest
      <4>3. Append(queue, Req("submit", m.thread, m.turn, m.from, m.to, m.id))
              \in Seq({r \in Request : SoundRequest(r)})
        BY <4>2, AppendTyped DEF Exclusive
      <4> QED BY <3>1, <4>3 DEF ReceiveCall, Exclusive
    <3>2. CASE ~ReceiveCall
      BY <1>1, <3>2 DEF Exclusive, Receive, ReceiveStarted, ReceiveCompleted, ReceiveItem,
                        ReceiveInterrupted, ReceiveAsk
    <3> QED BY <3>1, <3>2
  <2> QED BY <2>1, <2>2, ExclusiveElsewhere
<1>2. CASE Produce
  <2>1. /\ UNCHANGED <<fsm, swaps, current, lastThread, abandoned, draining, clears, entries,
                       segment, queue>>
    BY <1>2 DEF Produce, OrientAfterChoice, DanceInterrupts, DanceStarts, DanceFails,
                DanceAndSalvageFail
  <2> QED BY <2>1, ExclusiveElsewhere DEF Exclusive
<1>3. CASE External
  <2>1. /\ UNCHANGED <<fsm, swaps, current, lastThread, abandoned, draining, clears, entries,
                       segment>>
    BY <1>3 DEF External, OwnerChooses, OwnerPrompts, OwnerAnswers, CodexSubmits,
                CodexAsksOwner, CodexItem, CodexCompletes, HookFrame
  <2>2. queue' \in Seq({r \in Request : SoundRequest(r)})
    <3>1. CASE OwnerChooses
      <4>1. PICK o \in Options :
              queue' = Append(queue, Req("choice", current, Nobody, o[1], o[2], commits))
        BY <3>1 DEF OwnerChooses
      <4>2. o[1] \in States /\ o[1] \in Choice /\ o[2] \in States
        BY EdgesAssumption, KindsAssumption
      <4>3. Req("choice", current, Nobody, o[1], o[2], commits) \in {r \in Request : SoundRequest(r)}
        <5>1. Req("choice", current, Nobody, o[1], o[2], commits) \in Request
          BY <4>2, ReqTyped DEF TypeOK, Nobody
        <5> QED BY <4>2, <5>1 DEF Req, SoundRequest
      <4> QED BY <4>1, <4>3, AppendTyped DEF Exclusive
    <3>2. CASE ~OwnerChooses
      BY <1>3, <3>2 DEF Exclusive, External, OwnerPrompts, OwnerAnswers, CodexSubmits,
                        CodexAsksOwner, CodexItem, CodexCompletes, HookFrame, SerializedSources
    <3> QED BY <3>1, <3>2
  <2> QED BY <2>1, <2>2, ExclusiveElsewhere
<1>4. CASE Close
  BY <1>4, ExclusiveElsewhere DEF Close, Exclusive
<1>5. CASE UNCHANGED vars
  BY <1>5, ExclusiveElsewhere DEF vars, Exclusive
<1> QED BY <1>1, <1>2, <1>3, <1>4, <1>5, ExclusiveDispatch, ExclusiveClear DEF Next

(* Where every transition is a submit's or a choice's, a visit of a         *)
(* clearOnEntry state is given exactly one replacement thread.              *)
THEOREM OneThreadPerVisit ==
    ASSUME SerializedSources PROVE Spec => []FreshClearOnce
<1>1. TypeOK /\ Exclusive /\ [Next]_vars => Exclusive'
  BY ExclusiveNext
<1>2. Exclusive => FreshClearOnce
  BY DEF Exclusive, FreshClearOnce
<1> QED BY <1>1, <1>2, ExclusiveInit, TypeCorrect, PTL DEF Spec

(* Where every transition is a submit's or a choice's, the thread a submit  *)
(* commits for is the bound one and is not being replaced: the check made   *)
(* when its segment began still holds after every await of the dispatch.    *)
THEOREM CommitsAreLive ==
    ASSUME SerializedSources PROVE Spec => OnlyLiveThreadCommits
<1>1. TypeOK /\ Exclusive /\ [Next]_vars => Exclusive'
  BY ExclusiveNext
<1>2. Exclusive /\ [Next]_vars
        => [SubmitCommits => /\ segment.thread = current
                             /\ segment.thread \notin abandoned \cup draining]_vars
  BY DEF Exclusive, SubmitCommits, At, LiveThread
<1> QED BY <1>1, <1>2, ExclusiveInit, TypeCorrect, PTL DEF Spec, OnlyLiveThreadCommits

(************************ how a dispatch moves the workflow *******************)
(* Module Dispatch, on variables of its own but for commits and MaxCommits,   *)
(* which are those of TurnControl: any variable and any bound would do.       *)
VARIABLES card, cards

D == INSTANCE Dispatch

(* Induction over the natural numbers, for a set in the place of a formula. *)
LEMMA Induction ==
    ASSUME NEW S, 0 \in S, \A n \in Nat : n \in S => n + 1 \in S
    PROVE  Nat \subseteq S
<1> SUFFICES ASSUME NEW n \in Nat \ S PROVE FALSE
  OBVIOUS
<1> DEFINE lt == OpToRel(<, Nat)
<1>1. PICK m \in Nat \ S : \A k \in Nat \ S : <<k, m>> \notin lt
  <2> HIDE DEF lt
  <2>1. IsWellFoundedOn(lt, Nat)
    BY NatLessThanWellFounded DEF lt
  <2>2. Nat \ S \subseteq Nat
    OBVIOUS
  <2> QED BY <2>1, <2>2, WFMin
<1>2. m # 0 /\ m \in Nat
  OBVIOUS
<1>3. m - 1 \in Nat /\ m - 1 < m /\ (m - 1) + 1 = m
  BY <1>2
<1>4. m - 1 \in S
  BY <1>1, <1>3 DEF OpToRel
<1> QED BY <1>3, <1>4

(* A state's hosts: its own and the hosts of each of them.                  *)
LEMMA HostsLeast ==
    ASSUME NEW n \in Nodes, NEW S \in D!Around(n)
    PROVE  D!Hosts[n] \subseteq S
BY DEF D!Hosts

LEMMA HostsClosed ==
    ASSUME D!TreeAssumption, NEW n \in Nodes
    PROVE  /\ D!Hosts[n] \subseteq Nodes
           /\ \A m \in D!Hosts[n] \union {n} : Parent[m] # Root => Parent[m] \in D!Hosts[n]
<1>1. D!Hosts[n] = {h \in Nodes : \A S \in D!Around(n) : h \in S}
  BY DEF D!Hosts
<1>2. ASSUME NEW m \in D!Hosts[n] \union {n}, Parent[m] # Root PROVE Parent[m] \in D!Hosts[n]
  <2>1. m \in Nodes /\ Parent[m] \in Nodes
    BY <1>1, <1>2 DEF D!TreeAssumption
  <2>2. ASSUME NEW S \in D!Around(n) PROVE Parent[m] \in S
    <3>1. m \in S \union {n}
      BY <1>1
    <3>2. {Parent[x] : x \in S \union {n}} \ {Root} \subseteq S
      BY DEF D!Around
    <3> QED BY <1>2, <3>1, <3>2
  <2> QED BY <1>1, <2>1, <2>2
<1> QED BY <1>1, <1>2

LEMMA Within ==
    ASSUME NEW n \in Nodes, NEW S \in SUBSET Nodes,
           \A m \in S \union {n} : Parent[m] # Root => Parent[m] \in S
    PROVE  D!Hosts[n] \subseteq S
<1>1. S \in D!Around(n)
  BY DEF D!Around
<1> QED BY <1>1, HostsLeast

LEMMA InnerHosts ==
    ASSUME D!TreeAssumption, NEW n \in Nodes, NEW m \in Nodes,
           Parent[m] = Root \/ Parent[m] \in D!Hosts[n]
    PROVE  D!Hosts[m] \subseteq D!Hosts[n]
BY HostsClosed, Within

LEMMA HostsOfSiblings ==
    ASSUME D!TreeAssumption, NEW n \in Nodes, NEW m \in Nodes, Parent[m] = Parent[n]
    PROVE  D!Hosts[m] = D!Hosts[n]
<1>1. Parent[m] = Root \/ (Parent[m] \in D!Hosts[n] /\ Parent[n] \in D!Hosts[m])
  BY HostsClosed
<1> QED BY <1>1, InnerHosts

LEMMA OutermostHosts ==
    ASSUME D!TreeAssumption, NEW n \in Nodes, Parent[n] = Root
    PROVE  D!Hosts[n] = {}
<1>1. PICK S \in SUBSET Nodes : S = {}
  OBVIOUS
<1>2. D!Hosts[n] \subseteq S
  BY <1>1, Within
<1> QED BY <1>1, <1>2

LEMMA HostsOfHost ==
    ASSUME D!TreeAssumption, NEW n \in Nodes, Parent[n] # Root
    PROVE  D!Hosts[n] \subseteq D!Hosts[Parent[n]] \union {Parent[n]}
<1>1. Parent[n] \in Nodes
  BY DEF D!TreeAssumption
<1>2. PICK S \in SUBSET Nodes : S = D!Hosts[Parent[n]] \union {Parent[n]}
  BY <1>1, HostsClosed
<1>3. \A m \in S \union {n} : Parent[m] # Root => Parent[m] \in S
  BY <1>1, <1>2, HostsClosed
<1>4. D!Hosts[n] \subseteq S
  BY <1>3, Within
<1> QED BY <1>2, <1>4

(* The host around n that has all of n's hosts around it is n's own.        *)
LEMMA SameHost ==
    ASSUME D!TreeAssumption, NEW f \in Nodes, NEW n \in Nodes, Parent[n] # Root,
           Parent[f] \in D!Hosts[n], D!Hosts[n] \subseteq D!Hosts[f]
    PROVE  Parent[f] = Parent[n]
<1>1. PICK h, p : h = Parent[f] /\ p = Parent[n]
  OBVIOUS
<1>2. h \in Nodes /\ p \in Nodes /\ h # Root /\ p \in D!Hosts[f]
  BY <1>1, HostsClosed DEF D!TreeAssumption
<1>3. h \in D!Hosts[p] \/ h = p
  BY <1>1, HostsOfHost
<1>4. p \in D!Hosts[h] \/ p = h
  BY <1>1, <1>2, HostsOfHost
<1>5. h # p => h \in D!Hosts[h]
  <2>1. SUFFICES ASSUME h # p PROVE h \in D!Hosts[h]
    OBVIOUS
  <2>2. Parent[p] = Root \/ Parent[p] \in D!Hosts[h]
    BY <1>2, <1>4, <2>1, HostsClosed
  <2>3. D!Hosts[p] \subseteq D!Hosts[h]
    BY <1>2, <2>2, InnerHosts
  <2> QED BY <1>3, <2>1, <2>3
<1> QED BY <1>1, <1>2, <1>5 DEF D!TreeAssumption

(* What the verifier makes sure of.                                         *)
Verified == wf \in Workflows /\ D!verify(wf)

LEMMA Resolved ==
    ASSUME NEW w, NEW n, NEW k, D!Named(w, n, k) # {}
    PROVE  /\ D!Resolve(w, n, k) \in D!Named(w, n, k) /\ D!Resolve(w, n, k) \in Nodes
           /\ Parent[D!Resolve(w, n, k)] = Parent[n] /\ w.key[D!Resolve(w, n, k)] = k
<1>1. D!Resolve(w, n, k) \in D!Named(w, n, k)
  BY DEF D!Resolve
<1> QED BY <1>1 DEF D!Named

LEMMA KeysNameStates ==
    ASSUME D!WorkflowsAssumption, Verified, NEW n \in Nodes, NEW k \in D!Keys(wf, n)
    PROVE  D!Named(wf, n, k) # {} /\ k # STAY
<1>1. D!Named(wf, n, k) # {}
  BY DEF Verified, D!verify, D!checkExitTargetInStateSet
<1> QED BY <1>1 DEF D!Named, D!WorkflowsAssumption, Verified

(* One level of the recursion of a macrostep, on what the levels below give. *)
Rest(m) == [at |-> m, through |-> <<>>]
Enters(E, m, g) ==
    CASE wf.kind[m] = "host" -> E[Initial[m]]
      [] wf.kind[m] = "final" /\ D!Embedded(m) ->
           LET rest == E[D!Resolve(wf, Parent[m], wf.wired[m])]
           IN  [rest EXCEPT !.through = <<m>> \o @]
      [] wf.kind[m] = "passive" /\ D!AlwaysTaken(wf, m, g) # {} ->
           LET taken == CHOOSE j \in D!AlwaysTaken(wf, m, g) : TRUE
           IN  E[D!Resolve(wf, m, wf.to[m][taken].to)]
      [] OTHER -> Rest(m)
Levels(f, n, g) ==
    /\ f = [i \in 0..n |-> f[i]]
    /\ f[0] = [m \in Nodes |-> Rest(m)]
    /\ \A i \in 1..n : f[i] = [m \in Nodes |-> Enters(f[i - 1], m, g)]

LEMMA LevelsExist ==
    ASSUME NEW g, NEW n \in Nat
    PROVE  \E f : Levels(f, n, g)
<1> DEFINE S == {m \in Nat : \E f : Levels(f, m, g)}
<1>1. 0 \in S
  <2>1. PICK E : E = [m \in Nodes |-> Rest(m)]
    OBVIOUS
  <2>2. PICK f : f = [i \in 0..0 |-> E]
    OBVIOUS
  <2>3. Levels(f, 0, g)
    BY <2>1, <2>2 DEF Levels
  <2> QED BY <2>3
<1>2. ASSUME NEW m \in Nat, m \in S PROVE m + 1 \in S
  <2>1. PICK f : Levels(f, m, g)
    BY <1>2
  <2>2. PICK E : E = [x \in Nodes |-> Enters(f[m], x, g)]
    OBVIOUS
  <2>3. PICK h : h = [i \in 0..(m + 1) |-> IF i <= m THEN f[i] ELSE E]
    OBVIOUS
  <2>4. h[0] = [x \in Nodes |-> Rest(x)] /\ h = [i \in 0..(m + 1) |-> h[i]]
    BY <2>1, <2>3 DEF Levels
  <2>5. ASSUME NEW i \in 1..(m + 1) PROVE h[i] = [x \in Nodes |-> Enters(h[i - 1], x, g)]
    <3>1. i - 1 \in 0..m /\ i - 1 \in 0..(m + 1) /\ i \in 0..(m + 1)
      OBVIOUS
    <3>2. h[i - 1] = f[i - 1]
      BY <2>3, <3>1
    <3>3. CASE i <= m
      <4>1. i \in 1..m /\ h[i] = f[i]
        BY <2>3, <3>1, <3>3
      <4> QED BY <2>1, <3>2, <4>1 DEF Levels
    <3>4. CASE ~(i <= m)
      <4>1. i = m + 1 /\ i - 1 = m
        BY <3>4
      <4> QED BY <2>2, <2>3, <3>1, <3>2, <3>4, <4>1
    <3> QED BY <3>3, <3>4
  <2>6. Levels(h, m + 1, g)
    BY <2>4, <2>5 DEF Levels
  <2> QED BY <2>6
<1> HIDE DEF S
<1>3. Nat \subseteq S
  BY <1>1, <1>2, Induction
<1> QED BY <1>3 DEF S

LEMMA SameCardinality == \A S : D!Cardinality(S) = Cardinality(S)
BY DEF D!Cardinality, Cardinality

LEMMA MacrostepLevels ==
    ASSUME D!TreeAssumption, NEW g
    PROVE  \E f : \E n \in Nat : /\ Levels(f, n, g) /\ (Nodes # {} => n > 0)
                                       /\ \A m \in Nodes : D!Macrostep(wf, m, g) = f[n][m]
<1>1. PICK n \in Nat : n = 2 * D!Cardinality(Nodes) /\ (Nodes # {} => n > 0) /\ D!Rounds = 0..n
  <2>1. IsFiniteSet(Nodes)
    BY DEF D!TreeAssumption, D!IsFiniteSet, IsFiniteSet
  <2>2. Cardinality(Nodes) \in Nat /\ (Nodes # {} => Cardinality(Nodes) > 0)
    BY <2>1, FS_CardinalityType, FS_EmptySet
  <2> QED BY <2>2, SameCardinality DEF D!Rounds
<1> DEFINE Body(h) == [i \in 0..n |->
                [m \in Nodes |-> IF i = 0 THEN Rest(m) ELSE Enters(h[i - 1], m, g)]]
<1>2. PICK f : f = CHOOSE h : h = Body(h)
  <2> HIDE DEF Body
  <2> QED BY Zenon
<1>3. \A m \in Nodes : D!Macrostep(wf, m, g) = f[n][m]
  BY <1>1, <1>2 DEF D!Macrostep, Rest, Enters
<1>4. PICK h : Levels(h, n, g)
  BY LevelsExist
<1>5. h = Body(h)
  <2>1. ASSUME NEW i \in 0..n
        PROVE  h[i] = [m \in Nodes |-> IF i = 0 THEN Rest(m) ELSE Enters(h[i - 1], m, g)]
    <3>1. CASE i = 0
      BY <1>4, <3>1 DEF Levels
    <3>2. CASE i # 0
      <4>1. i \in 1..n
        BY <3>2
      <4> QED BY <1>4, <3>2, <4>1 DEF Levels
    <3> QED BY <3>1, <3>2
  <2>2. h = [i \in 0..n |-> h[i]]
    BY <1>4 DEF Levels
  <2> QED BY <2>1, <2>2
<1>6. f = Body(f)
  BY <1>2, <1>5
<1>7. Levels(f, n, g)
  <2>1. f = [i \in 0..n |-> f[i]]
    BY <1>6
  <2>2. f[0] = [m \in Nodes |-> Rest(m)]
    BY <1>6
  <2>3. ASSUME NEW i \in 1..n PROVE f[i] = [m \in Nodes |-> Enters(f[i - 1], m, g)]
    <3>1. i \in 0..n /\ i # 0
      OBVIOUS
    <3> QED BY <1>6, <3>1
  <2> QED BY <2>1, <2>2, <2>3 DEF Levels
<1> QED BY <1>1, <1>3, <1>7

(* What a macrostep from m ends in: a state, by way of finals of embedded   *)
(* workflows; the first of them is m itself unless one is entered unasked.  *)
Final(m) == wf.kind[m] = "final" /\ D!Embedded(m)
Arrivals == [at : Nodes, through : Seq(Nodes)]
Ends(r, m) ==
    /\ r \in Arrivals
    /\ ~Final(m) /\ r.through # <<>> => D!Leaks
EndsFrom(r, m) ==
    /\ Ends(r, m)
    /\ Final(m) => \E q \in Seq(Nodes) : r.through = <<m>> \o q

LEMMA EntersEnds ==
    ASSUME D!TreeAssumption, D!WorkflowsAssumption, Verified, NEW g, NEW E,
           \A x \in Nodes : Ends(E[x], x), NEW m \in Nodes
    PROVE  EndsFrom(Enters(E, m, g), m)
<1>1. PICK r : r = Enters(E, m, g)
  OBVIOUS
<1>2. CASE wf.kind[m] = "host"
  <2>1. r = E[Initial[m]] /\ Initial[m] \in Nodes
    BY <1>1, <1>2 DEF Enters, D!WorkflowsAssumption, Verified
  <2>2. Final(Initial[m]) => D!Leaks
    BY <1>2 DEF Final, D!Leaks
  <2> QED BY <1>1, <1>2, <2>1, <2>2 DEF Ends, EndsFrom, Final
<1>3. CASE Final(m)
  <2>1. PICK x, rest : x = D!Resolve(wf, Parent[m], wf.wired[m]) /\ rest = E[x]
    OBVIOUS
  <2>2. Parent[m] \in Nodes /\ wf.kind[Parent[m]] = "host"
    BY <1>3 DEF Final, D!Embedded, D!TreeAssumption, D!WorkflowsAssumption, Verified
  <2>3. m \in D!FinalsOf(wf, Parent[m])
    BY <1>3 DEF Final, D!FinalsOf
  <2>4. D!Named(wf, Parent[m], wf.wired[m]) # {}
    BY <2>2, <2>3 DEF Verified, D!verify, D!checkEmbeddedFinals
  <2>5. x \in Nodes
    BY <2>1, <2>4, Resolved
  <2>6. rest \in Arrivals
    BY <2>1, <2>5 DEF Ends
  <2>7. r = [rest EXCEPT !.through = <<m>> \o rest.through]
    BY <1>1, <1>3, <2>1 DEF Enters, Final
  <2>8. PICK q \in Seq(Nodes) : q = rest.through
    BY <2>6 DEF Arrivals
  <2>9. <<m>> \o q \in Seq(Nodes)
    BY ConcatProperties
  <2>10. PICK s \in Seq(Nodes) : s = <<m>> \o q
    BY <2>9
  <2>11. r = [rest EXCEPT !.through = s]
    BY <2>7, <2>8, <2>10
  <2>12. r \in Arrivals /\ r.through = s
    BY <2>6, <2>11 DEF Arrivals
  <2> QED BY <1>1, <1>3, <2>10, <2>12 DEF Ends, EndsFrom
<1>4. CASE wf.kind[m] = "passive" /\ D!AlwaysTaken(wf, m, g) # {}
  <2>1. PICK j \in D!AlwaysTaken(wf, m, g) : j = CHOOSE y \in D!AlwaysTaken(wf, m, g) : TRUE
    <3>1. (CHOOSE y \in D!AlwaysTaken(wf, m, g) : TRUE) \in D!AlwaysTaken(wf, m, g)
      BY <1>4
    <3> QED BY <3>1
  <2>2. PICK k, x : k = wf.to[m][j].to /\ x = D!Resolve(wf, m, k)
    BY Zenon
  <2>3. k \in D!Keys(wf, m)
    BY Zenon, <2>1, <2>2 DEF D!Keys, D!AlwaysTaken
  <2>4. D!Named(wf, m, k) # {}
    BY <2>3, KeysNameStates
  <2>5. x \in D!Named(wf, m, k) /\ x \in Nodes /\ Parent[x] = Parent[m]
    BY <2>2, <2>4, Resolved
  <2>6. r = E[x]
    BY <1>1, <1>4, <2>1, <2>2 DEF Enters
  <2>7. Final(x) => D!Leaks
    <3>1. SUFFICES ASSUME Final(x) PROVE D!Leaks
      OBVIOUS
    <3>2. x \in D!FinalsOf(wf, Parent[m]) /\ D!Embedded(m)
      BY <2>5, <3>1 DEF Final, D!FinalsOf, D!Embedded
    <3> QED BY <1>4, <2>3, <2>5, <3>2 DEF D!Leaks
  <2>8. ~Final(m)
    BY <1>4 DEF Final
  <2> QED BY <1>1, <2>5, <2>6, <2>7, <2>8 DEF Ends, EndsFrom
<1>5. CASE /\ wf.kind[m] # "host" /\ ~Final(m)
           /\ ~(wf.kind[m] = "passive" /\ D!AlwaysTaken(wf, m, g) # {})
  <2>1. r = Rest(m)
    BY <1>1, <1>5 DEF Enters, Final
  <2>2. <<>> \in Seq(Nodes)
    OBVIOUS
  <2>3. r \in Arrivals /\ r.through = <<>>
    BY <2>1, <2>2 DEF Rest, Arrivals
  <2> QED BY <1>1, <1>5, <2>3 DEF Ends, EndsFrom
<1> QED BY <1>2, <1>3, <1>4, <1>5

LEMMA MacrostepEnds ==
    ASSUME D!TreeAssumption, D!WorkflowsAssumption, Verified, NEW g, NEW m \in Nodes
    PROVE  EndsFrom(D!Macrostep(wf, m, g), m)
<1>1. PICK f : \E n \in Nat : /\ Levels(f, n, g) /\ (Nodes # {} => n > 0)
                              /\ \A x \in Nodes : D!Macrostep(wf, x, g) = f[n][x]
  BY MacrostepLevels
<1>2. PICK n \in Nat : /\ Levels(f, n, g) /\ n > 0
                       /\ \A x \in Nodes : D!Macrostep(wf, x, g) = f[n][x]
  BY <1>1
<1>3. \A i \in 1..n : \A x \in Nodes : f[i][x] = Enters(f[i - 1], x, g)
  <2>1. ASSUME NEW i \in 1..n, NEW x \in Nodes PROVE f[i][x] = Enters(f[i - 1], x, g)
    <3>1. PICK F : F = [y \in Nodes |-> Enters(f[i - 1], y, g)]
      OBVIOUS
    <3>2. f[i] = F
      BY <1>2, <3>1 DEF Levels
    <3> QED BY <3>1, <3>2
  <2> QED BY <2>1
<1> DEFINE S == {i \in Nat : i <= n => \A x \in Nodes : Ends(f[i][x], x)}
<1>4. 0 \in S
  <2>1. ASSUME NEW x \in Nodes PROVE Ends(f[0][x], x)
    <3>1. f[0][x] = Rest(x)
      BY <1>2 DEF Levels
    <3>2. <<>> \in Seq(Nodes)
      OBVIOUS
    <3> QED BY <3>1, <3>2 DEF Rest, Ends, Arrivals
  <2> QED BY <2>1
<1>5. ASSUME NEW i \in Nat, i \in S PROVE i + 1 \in S
  <2>1. SUFFICES ASSUME i + 1 <= n, NEW x \in Nodes PROVE Ends(f[i + 1][x], x)
    OBVIOUS
  <2>2. i + 1 \in 1..n /\ (i + 1) - 1 = i
    BY <2>1
  <2>3. f[i + 1][x] = Enters(f[i], x, g)
    BY <1>3, <2>2
  <2>4. \A y \in Nodes : Ends(f[i][y], y)
    BY <1>5, <2>1
  <2>5. EndsFrom(Enters(f[i], x, g), x)
    BY <2>4, EntersEnds
  <2> QED BY <2>3, <2>5 DEF EndsFrom
<1> HIDE DEF S
<1>6. Nat \subseteq S
  BY <1>4, <1>5, Induction
<1>7. \A x \in Nodes : Ends(f[n - 1][x], x)
  <2>1. n - 1 \in S /\ n - 1 <= n
    BY <1>2, <1>6
  <2> QED BY <2>1 DEF S
<1>8. EndsFrom(Enters(f[n - 1], m, g), m)
  BY <1>7, EntersEnds
<1>9. f[n][m] = Enters(f[n - 1], m, g)
  <2>1. n \in 1..n
    BY <1>2
  <2> QED BY <1>3, <2>1
<1> QED BY <1>2, <1>8, <1>9

(* What the actor's transition makes of the data.                           *)
Fresh == {commits + 1} \X {"branch", "handler"}
Prepared(h, c) ==
    h = NULL \/ (h \in D!Contexts /\ c.marks \subseteq h.marks /\ h.marks \subseteq c.marks \union Fresh)

LEMMA VisitMarks ==
    ASSUME NEW c \in D!Contexts, NEW n \in Nodes
    PROVE  D!Visit(c, n) \in D!Contexts /\ D!Visit(c, n).marks = c.marks
<1>1. c.visits \in [Nodes -> Nat]
  BY DEF D!Contexts
<1>2. PICK u \in Nat : u = c.visits[n] + 1
  BY <1>1
<1>3. [c.visits EXCEPT ![n] = u] \in [Nodes -> Nat]
  BY <1>1
<1>4. PICK v \in [Nodes -> Nat] : v = [c.visits EXCEPT ![n] = @ + 1]
  BY <1>2, <1>3
<1>5. D!Visit(c, n) = IF D!Counted(n) THEN [c EXCEPT !.visits = v] ELSE c
  BY <1>4 DEF D!Visit
<1> QED BY <1>5 DEF D!Contexts

LEMMA ReduceMarks ==
    ASSUME commits \in Nat, NEW c \in D!Contexts, NEW part \in {"branch", "handler"}, NEW b
    PROVE  /\ D!Reduce(c, part, b) \in D!Contexts /\ c.marks \subseteq D!Reduce(c, part, b).marks
           /\ D!Reduce(c, part, b).marks \subseteq c.marks \union Fresh
<1>1. c.marks \subseteq Nat \X {"branch", "handler"}
  BY DEF D!Contexts
<1>2. <<commits + 1, part>> \in Nat \X {"branch", "handler"}
  OBVIOUS
<1>3. PICK s \in SUBSET (Nat \X {"branch", "handler"}) : s = c.marks \union {<<commits + 1, part>>}
  BY <1>1, <1>2
<1>4. D!Reduce(c, part, b) = IF b THEN [c EXCEPT !.marks = s] ELSE c
  BY <1>3 DEF D!Reduce
<1>5. s \subseteq c.marks \union Fresh
  BY <1>3 DEF Fresh
<1> QED BY <1>3, <1>4, <1>5 DEF D!Contexts

LEMMA HandlePrepares ==
    ASSUME D!WorkflowsAssumption, commits \in Nat, NEW c \in D!Contexts, NEW d \in D!Contexts,
           c.marks = d.marks, NEW n, NEW k, NEW b
    PROVE  /\ Prepared(D!Handle(n, k, d, b), c)
           /\ D!Handle(n, k, d, b) = NULL <=> D!FinalNamed(n, k) = {}
BY ReduceMarks DEF D!Handle, Prepared, D!WorkflowsAssumption

Taken(r, c, h) ==
    /\ r.at \in Nodes /\ r.ctx \in D!Contexts /\ r.alive \in BOOLEAN
    /\ r.alive => /\ r.did = r.ctx.marks /\ c.marks \subseteq r.ctx.marks
                  /\ r.ctx.marks \subseteq c.marks \union Fresh
    /\ ~r.alive => r.ctx = ctx /\ r.did = {}

LEMMA TakeMarks ==
    ASSUME D!TreeAssumption, D!WorkflowsAssumption, Verified, ctx \in D!Contexts,
           NEW n \in Nodes, NEW k, k = STAY \/ D!Named(wf, n, k) # {},
           NEW c \in D!Contexts, NEW h, Prepared(h, c), NEW g
    PROVE  Taken(D!Take(n, k, c, h, g), c, h)
<1>1. PICK r : r = D!Take(n, k, c, h, g)
  OBVIOUS
<1>2. CASE k = STAY \/ D!Named(wf, n, k) = {n}
  <2>1. r = [at |-> n, alive |-> TRUE, ctx |-> c, through |-> <<>>, did |-> c.marks]
    BY <1>1, <1>2 DEF D!Take
  <2> QED BY <1>1, <2>1 DEF Taken
<1>3. CASE ~(k = STAY \/ D!Named(wf, n, k) = {n})
  <2>1. PICK t, m : t = D!Resolve(wf, n, k) /\ m = D!Macrostep(wf, t, g)
    OBVIOUS
  <2>2. t \in Nodes
    BY <1>3, <2>1, Resolved
  <2>3. m \in Arrivals
    BY <2>1, <2>2, MacrostepEnds DEF EndsFrom, Ends
  <2>4. PICK d : d = IF m.through = <<>> THEN c ELSE h
    OBVIOUS
  <2>5. r = IF d = NULL
            THEN [at |-> n, alive |-> FALSE, ctx |-> ctx, through |-> m.through, did |-> {}]
            ELSE [at |-> m.at, alive |-> TRUE, ctx |-> D!Visit(d, m.at), through |-> m.through,
                  did |-> c.marks \union d.marks]
    BY <1>1, <1>3, <2>1, <2>4 DEF D!Take
  <2>6. CASE d = NULL
    BY <1>1, <2>5, <2>6 DEF Taken
  <2>7. CASE d # NULL
    <3>1. d \in D!Contexts /\ c.marks \subseteq d.marks /\ d.marks \subseteq c.marks \union Fresh
      BY <2>4, <2>7 DEF Prepared
    <3>2. m.at \in Nodes
      BY <2>3 DEF Arrivals
    <3>3. D!Visit(d, m.at) \in D!Contexts /\ D!Visit(d, m.at).marks = d.marks
      BY <3>1, <3>2, VisitMarks
    <3> QED BY <1>1, <2>5, <2>7, <3>1, <3>2, <3>3 DEF Taken
  <2> QED BY <2>6, <2>7
<1> QED BY <1>2, <1>3

(* The types: what a dispatch reads is a state the verifier has looked at.  *)
Submit ==
    /\ DOMAIN open = {"phase", "from", "key", "base", "guard", "to", "began"}
    /\ open.phase \in {"preparing", "settling"} /\ open.base \in D!Contexts
    /\ open.from \in Nodes /\ wf.kind[open.from] = "stateful"
    /\ open.key \in D!Keys(wf, open.from)
    /\ open.to = D!Project(open.from, open.key, open.guard)
Emission(e) == DOMAIN e = {"key", "base", "from"} /\ e.base \in D!Contexts
DispatchTyped ==
    /\ Verified /\ at \in Nodes /\ ctx \in D!Contexts /\ commits \in Nat
    /\ open # NULL => Submit
    /\ emits = [i \in Slots |-> emits[i]]
    /\ \A i \in Slots : emits[i] # NULL => Emission(emits[i])
(* Unless a commit has crossed a preparation, the actor is where an event   *)
(* that is being dispatched found it.                                       *)
Steady(e) == crossed # {} \/ (e.key = wf.event[at] /\ e.from \in {NULL, at})
EmitsSteady == \A i \in Slots : emits[i] # NULL => Steady(emits[i])
(* An update is in the data, or was committed while another dispatch was    *)
(* preparing.                                                               *)
KeptIn(c, m, k) == c.marks \subseteq m /\ \A x \in m \ c.marks : x[1] \in k
Kept(c) == KeptIn(c, made, crossed)
UpdatesHeld ==
    /\ Kept(ctx)
    /\ open # NULL /\ open.phase = "preparing" => Kept(open.base)
    /\ \A i \in Slots : emits[i] # NULL => Kept(emits[i].base)
(* A transition into a final of an embedded workflow has that final's       *)
(* handler prepared, since no host further out has a final closer.          *)
LEMMA FinalTarget ==
    ASSUME D!TreeAssumption, D!WorkflowsAssumption, Verified,
           NEW n \in Nodes, NEW k, NEW t \in D!Named(wf, n, k), Final(t)
    PROVE  D!FinalNamed(n, k) = {t}
<1>1. t \in Nodes /\ Parent[t] = Parent[n] /\ wf.key[t] = k /\ Parent[n] # Root
  BY DEF D!Named, Final, D!Embedded
<1>2. D!Hosts[t] = D!Hosts[n] /\ Parent[n] \in D!Hosts[n]
  BY <1>1, HostsOfSiblings, HostsClosed
<1>3. \A f \in Nodes : Parent[f] \in D!Hosts[n] => D!Hosts[f] \subseteq D!Hosts[t]
  BY <1>2, InnerHosts
<1>4. t \in D!FinalNamed(n, k)
  BY <1>1, <1>2, <1>3 DEF D!FinalNamed, Final
<1>5. ASSUME NEW f \in D!FinalNamed(n, k) PROVE f = t
  <2>1. f \in Nodes /\ wf.key[f] = k /\ Parent[f] \in D!Hosts[n] /\ D!Hosts[t] \subseteq D!Hosts[f]
    BY <1>1, <1>2, <1>5 DEF D!FinalNamed, Final
  <2>2. Parent[f] = Parent[n]
    BY <1>1, <1>2, <2>1, SameHost
  <2> QED BY <1>1, <2>1, <2>2 DEF D!WorkflowsAssumption, Verified
<1> QED BY <1>4, <1>5

(* An actor that throws shows a leak.                                       *)
LEMMA TakeLives ==
    ASSUME D!TreeAssumption, D!WorkflowsAssumption, Verified, ctx \in D!Contexts,
           NEW n \in Nodes, NEW k, k = STAY \/ k \in D!Keys(wf, n),
           NEW c \in D!Contexts, NEW g,
           NEW h, h # NULL \/ D!FinalNamed(n, k) = {} \/ wf.kind[n] = "passive"
    PROVE  D!Take(n, k, c, h, g).alive \/ D!Leaks
<1>1. PICK r : r = D!Take(n, k, c, h, g)
  OBVIOUS
<1>2. CASE k = STAY \/ D!Named(wf, n, k) = {n}
  BY <1>1, <1>2 DEF D!Take
<1>3. CASE ~(k = STAY \/ D!Named(wf, n, k) = {n})
  <2>1. PICK t, m : t = D!Resolve(wf, n, k) /\ m = D!Macrostep(wf, t, g)
    OBVIOUS
  <2>2. t \in D!Named(wf, n, k) /\ t \in Nodes /\ Parent[t] = Parent[n]
    BY <1>3, <2>1, Resolved, KeysNameStates
  <2>3. Ends(m, t)
    BY <2>1, <2>2, MacrostepEnds DEF EndsFrom
  <2>4. r.alive \/ (m.through # <<>> /\ h = NULL)
    <3>1. PICK d : d = IF m.through = <<>> THEN c ELSE h
      OBVIOUS
    <3>2. r = IF d = NULL
              THEN [at |-> n, alive |-> FALSE, ctx |-> ctx, through |-> m.through, did |-> {}]
              ELSE [at |-> m.at, alive |-> TRUE, ctx |-> D!Visit(d, m.at), through |-> m.through,
                    did |-> c.marks \union d.marks]
      BY <1>1, <1>3, <2>1, <3>1 DEF D!Take
    <3>3. c # NULL
      BY DEF D!WorkflowsAssumption
    <3> QED BY <3>1, <3>2, <3>3
  <2>5. CASE m.through # <<>> /\ h = NULL
    <3>1. CASE ~Final(t)
      BY <2>3, <2>5, <3>1 DEF Ends
    <3>2. CASE Final(t)
      <4>1. D!FinalNamed(n, k) = {t}
        BY <2>2, <3>2, FinalTarget
      <4>2. wf.kind[n] = "passive" /\ D!Embedded(n) /\ t \in D!FinalsOf(wf, Parent[n])
        BY <2>2, <2>5, <3>2, <4>1 DEF Final, D!Embedded, D!FinalsOf
      <4>3. k \in D!Keys(wf, n) /\ D!Named(wf, n, k) \cap D!FinalsOf(wf, Parent[n]) # {}
        BY <1>3, <2>2, <4>2
      <4> QED BY <4>2, <4>3 DEF D!Leaks
    <3> QED BY <3>1, <3>2
  <2> QED BY <1>1, <2>4, <2>5
<1> QED BY <1>2, <1>3

(* The finals gone through are those a handler was prepared for.            *)
Handles(handled, through) == handled = D!Range(through) \/ Len(through) > 1

LEMMA TakeHandles ==
    ASSUME D!TreeAssumption, D!WorkflowsAssumption, Verified, ctx \in D!Contexts,
           NEW n \in Nodes, wf.kind[n] \in {"stateful", "choice"}, NEW k \in D!Keys(wf, n),
           NEW c \in D!Contexts, NEW h, h = NULL <=> D!FinalNamed(n, k) = {},
           NEW g, D!Take(n, k, c, h, g).alive, ~D!Shadowed
    PROVE  Handles(D!FinalNamed(n, k), D!Take(n, k, c, h, g).through)
<1>1. PICK r : r = D!Take(n, k, c, h, g)
  OBVIOUS
<1>2. D!Named(wf, n, k) # {} /\ k # STAY /\ D!Leaf(n)
  BY KeysNameStates DEF D!Leaf
<1>3. PICK none : none = <<>> /\ D!Range(none) = {}
  BY DEF D!Range
<1>4. ASSUME NEW f \in D!FinalNamed(n, k), NEW t \in D!Named(wf, n, k) PROVE Final(t)
  <2>1. f \in Nodes /\ wf.kind[f] = "final" /\ wf.key[f] = k /\ Parent[f] \in D!Hosts[n]
    BY DEF D!FinalNamed
  <2>2. t \in Nodes /\ wf.key[t] = k /\ Parent[t] = Parent[n]
    BY DEF D!Named
  <2>3. t \in D!outgoingTargets(wf, n)
    BY <1>2 DEF D!outgoingTargets, D!Leaf
  <2>4. wf.kind[t] = "final"
    BY <1>2, <2>1, <2>2, <2>3 DEF D!Shadowed
  <2>5. Parent[n] # Root
    BY <2>1, OutermostHosts
  <2> QED BY <2>2, <2>4, <2>5 DEF Final, D!Embedded
<1>5. CASE D!Named(wf, n, k) = {n}
  <2>1. r.through = <<>>
    BY <1>1, <1>5 DEF D!Take
  <2>2. D!FinalNamed(n, k) = {}
    <3>1. ~Final(n)
      BY DEF Final
    <3> QED BY <1>4, <1>5, <3>1
  <2> QED BY <1>1, <1>3, <2>1, <2>2 DEF Handles
<1>6. CASE D!Named(wf, n, k) # {n}
  <2>1. PICK t, m : t = D!Resolve(wf, n, k) /\ m = D!Macrostep(wf, t, g)
    OBVIOUS
  <2>2. t \in D!Named(wf, n, k) /\ t \in Nodes
    BY <1>2, <2>1, Resolved
  <2>3. EndsFrom(m, t)
    BY <2>1, <2>2, MacrostepEnds
  <2>4. r.through = m.through /\ (m.through # <<>> => h # NULL)
    <3>1. PICK d : d = IF m.through = <<>> THEN c ELSE h
      OBVIOUS
    <3>2. r = IF d = NULL
              THEN [at |-> n, alive |-> FALSE, ctx |-> ctx, through |-> m.through, did |-> {}]
              ELSE [at |-> m.at, alive |-> TRUE, ctx |-> D!Visit(d, m.at), through |-> m.through,
                    did |-> c.marks \union d.marks]
      BY <1>1, <1>2, <1>6, <2>1, <3>1 DEF D!Take
    <3> QED BY <1>1, <3>1, <3>2
  <2>5. CASE D!FinalNamed(n, k) = {}
    BY <1>1, <1>3, <2>4, <2>5 DEF Handles
  <2>6. CASE D!FinalNamed(n, k) # {}
    <3>1. Final(t)
      BY <1>4, <2>2, <2>6
    <3>2. D!FinalNamed(n, k) = {t}
      BY <2>2, <3>1, FinalTarget
    <3>3. PICK q \in Seq(Nodes) : m.through = <<t>> \o q
      BY <2>3, <3>1 DEF EndsFrom
    <3>4. CASE q = <<>>
      <4>1. PICK s : s = <<t>> /\ m.through = s
        <5>1. <<t>> \in Seq(Nodes)
          BY <2>2
        <5> QED BY <3>3, <3>4, <5>1, ConcatEmptySeq
      <4>2. D!Range(s) = {t}
        BY <4>1 DEF D!Range
      <4> QED BY <1>1, <2>4, <3>2, <4>1, <4>2 DEF Handles
    <3>5. CASE q # <<>>
      <4>1. Len(<<t>> \o q) = 1 + Len(q) /\ Len(q) > 0
        BY <3>5
      <4> QED BY <1>1, <2>4, <3>3, <4>1 DEF Handles
    <3> QED BY <3>4, <3>5
  <2> QED BY <2>5, <2>6
<1> QED BY <1>5, <1>6

(* A projection on the predicates' own values is where the actor goes.      *)
LEMMA ProjectAgrees ==
    ASSUME NEW n, NEW k, k # STAY, NEW c, NEW h, NEW g, D!Take(n, k, c, h, g).alive
    PROVE  D!Take(n, k, c, h, g).at = D!Project(n, k, g)
BY DEF D!Take, D!Project

(* A transition on data that keeps what b has, and adds to it.              *)
Moved(b) ==
    /\ at' \in Nodes /\ ctx' \in D!Contexts /\ commits' = commits + 1
    /\ \/ /\ alive' = TRUE /\ made' = made \union ctx'.marks
          /\ b.marks \subseteq ctx'.marks /\ ctx'.marks \subseteq b.marks \union Fresh
       \/ alive' = FALSE /\ ctx' = ctx /\ made' = made

LEMMA Becomes ==
    ASSUME NEW r, NEW c, NEW h, Taken(r, c, h), D!Become(r),
           NEW b, b.marks \subseteq c.marks, c.marks \subseteq b.marks \union Fresh
    PROVE  Moved(b)
<1>1. /\ at' = r.at /\ alive' = r.alive /\ ctx' = r.ctx
      /\ commits' = commits + 1 /\ made' = made \union r.did
  BY DEF D!Become
<1>2. CASE r.alive = TRUE
  BY <1>1, <1>2 DEF Taken, Moved
<1>3. CASE r.alive = FALSE
  BY <1>1, <1>3 DEF Taken, Moved
<1> QED BY <1>2, <1>3 DEF Taken

(* What a dispatch said is right, or excused.                               *)
Told(l) ==
    l # NULL /\ l.alive =>
      /\ l.reported = l.at \/ l.swayed \/ l.overtaken
      /\ ~D!Shadowed => Handles(l.handled, l.through) \/ l.overtaken

LEMMA SendEventMoves ==
    ASSUME D!TreeAssumption, D!WorkflowsAssumption, DispatchTyped,
           NEW i \in Slots, Steady(emits[i]), D!SendEvent(i)
    PROVE  Moved(emits[i].base) /\ (alive' = TRUE \/ D!Leaks \/ crossed # {})
<1> USE DEF DispatchTyped
<1>1. PICK k : k = wf.event[at] /\ (k = STAY \/ k \in D!Keys(wf, at))
                    /\ (k = STAY \/ D!Named(wf, at, k) # {})
  <2>1. wf.event[at] = STAY \/ wf.event[at] \in D!Keys(wf, at)
    BY DEF D!SendEvent, D!Keys
  <2> QED BY <2>1, KeysNameStates
<1>2. PICK b, f, key : /\ b = emits[i].base /\ f = emits[i].from /\ key = emits[i].key
                       /\ b \in D!Contexts /\ f # NULL
  BY DEF D!SendEvent, Emission
<1>3. PICK reduces \in BOOLEAN, handles \in BOOLEAN, g \in BOOLEAN :
        LET c == D!Reduce(b, "branch", reduces)
        IN  D!Become(D!Take(at, k, c, D!Handle(f, key, c, handles), g))
  <2>1. \E reduces, handles, g \in BOOLEAN :
          LET c == D!Reduce(emits[i].base, "branch", reduces)
          IN  D!Become(D!Take(at, wf.event[at], c,
                              D!Handle(emits[i].from, emits[i].key, c, handles), g))
    BY Zenon DEF D!SendEvent
  <2> QED BY <1>1, <1>2, <2>1
<1>4. PICK c \in D!Contexts : /\ c = D!Reduce(b, "branch", reduces)
                              /\ b.marks \subseteq c.marks /\ c.marks \subseteq b.marks \union Fresh
  BY <1>2, ReduceMarks
<1>5. PICK h : h = D!Handle(f, key, c, handles) /\ Prepared(h, c)
                  /\ (h = NULL <=> D!FinalNamed(f, key) = {})
  BY HandlePrepares
<1>6. PICK r : r = D!Take(at, k, c, h, g) /\ Taken(r, c, h)
  BY <1>1, <1>5, TakeMarks
<1>7. D!Become(r)
  BY <1>3, <1>4, <1>5, <1>6
<1>8. r.alive \/ D!Leaks \/ crossed # {}
  <2>1. SUFFICES ASSUME crossed = {} PROVE r.alive \/ D!Leaks
    OBVIOUS
  <2>2. f = at /\ key = k
    BY <1>1, <1>2, <2>1 DEF Steady
  <2> QED BY <1>1, <1>5, <1>6, <2>2, TakeLives
<1>9. alive' = r.alive /\ r.alive \in BOOLEAN
  BY <1>6, <1>7 DEF D!Become, Taken
<1>10. Moved(b)
  BY <1>4, <1>6, <1>7, Becomes
<1> QED BY <1>2, <1>8, <1>9, <1>10

LEMMA CommitSubmitMoves ==
    ASSUME D!TreeAssumption, D!WorkflowsAssumption, DispatchTyped, D!CommitSubmit
    PROVE  Moved(open.base) /\ (alive' = TRUE \/ D!Leaks) /\ Told(last')
<1> USE DEF DispatchTyped
<1>1. open # NULL /\ at = open.from /\ open.base \in D!Contexts
  BY DEF D!CommitSubmit, Submit
<1>2. PICK k, b : /\ k = open.key /\ b = open.base
                  /\ k \in D!Keys(wf, at) /\ wf.kind[at] = "stateful"
                  /\ k # STAY /\ D!Named(wf, at, k) # {}
  BY <1>1, KeysNameStates DEF Submit
<1>3. PICK reduces \in BOOLEAN, handles \in BOOLEAN, g \in BOOLEAN :
        LET c == D!Reduce(open.base, "branch", reduces)
            r == D!Take(at, open.key, c, D!Handle(at, open.key, c, handles), g)
        IN /\ g # open.guard => reduces \/ handles \/ commits # open.began
           /\ D!Become(r)
           /\ D!Reports([reported |-> open.to, at |-> r.at, alive |-> r.alive,
                         handled |-> D!FinalNamed(at, open.key), through |-> r.through,
                         overtaken |-> commits # open.began, swayed |-> g # open.guard])
  BY DEF D!CommitSubmit
<1>4. PICK c \in D!Contexts : /\ c = D!Reduce(b, "branch", reduces)
                              /\ b.marks \subseteq c.marks /\ c.marks \subseteq b.marks \union Fresh
  BY <1>1, <1>2, ReduceMarks
<1>5. PICK h : /\ h = D!Handle(at, k, c, handles) /\ Prepared(h, c)
               /\ h = NULL <=> D!FinalNamed(at, k) = {}
  BY HandlePrepares
<1>6. PICK r : r = D!Take(at, k, c, h, g) /\ Taken(r, c, h)
  BY <1>2, <1>5, TakeMarks
<1>7. PICK l : /\ D!Become(r) /\ D!Reports(l)
               /\ l = [reported |-> open.to, at |-> r.at, alive |-> r.alive,
                       handled |-> D!FinalNamed(at, k), through |-> r.through,
                       overtaken |-> commits # open.began, swayed |-> g # open.guard]
  BY <1>2, <1>3, <1>4, <1>5, <1>6
<1>8. r.alive \/ D!Leaks
  BY <1>2, <1>5, <1>6, TakeLives
<1>9. alive' = r.alive /\ r.alive \in BOOLEAN
  BY <1>6, <1>7 DEF D!Become, Taken
<1>10. Told(l)
  <2>1. SUFFICES ASSUME r.alive PROVE /\ l.reported = l.at \/ l.swayed
                                      /\ ~D!Shadowed => Handles(l.handled, l.through)
    BY <1>7 DEF Told
  <2>2. g = open.guard => r.at = open.to
    BY <1>1, <1>2, <1>6, <2>1, ProjectAgrees DEF Submit
  <2>3. ~D!Shadowed => Handles(D!FinalNamed(at, k), r.through)
    BY <1>2, <1>5, <1>6, <2>1, TakeHandles
  <2> QED BY <1>7, <2>2, <2>3
<1>11. Told(last')
  <2>1. last' = l \/ last' = NULL
    BY <1>7 DEF D!Reports
  <2> QED BY <1>10, <2>1 DEF Told
<1>12. Moved(b)
  BY <1>4, <1>6, <1>7, Becomes
<1> QED BY <1>2, <1>8, <1>9, <1>11, <1>12

LEMMA InvokeDoneMoves ==
    ASSUME D!TreeAssumption, D!WorkflowsAssumption, DispatchTyped, D!InvokeDone
    PROVE  Moved(ctx) /\ (alive' = TRUE \/ D!Leaks)
<1> USE DEF DispatchTyped
<1>1. PICK k : /\ k = wf.invoke[at] /\ (k = STAY \/ k \in D!Keys(wf, at))
               /\ k = STAY \/ D!Named(wf, at, k) # {}
  <2>1. wf.invoke[at] = STAY \/ wf.invoke[at] \in D!Keys(wf, at)
    BY DEF D!InvokeDone, D!Keys
  <2> QED BY <2>1, KeysNameStates
<1>2. PICK g \in BOOLEAN : D!Become(D!Take(at, wf.invoke[at], ctx, NULL, g))
  BY DEF D!InvokeDone
<1>3. Prepared(NULL, ctx)
  BY DEF Prepared
<1>4. PICK r : r = D!Take(at, k, ctx, NULL, g) /\ Taken(r, ctx, NULL)
  BY <1>1, <1>3, TakeMarks
<1>5. D!Become(r)
  BY <1>1, <1>2, <1>4
<1>6. wf.kind[at] = "passive"
  BY DEF D!InvokeDone
<1>7. r.alive \/ D!Leaks
  BY <1>1, <1>4, <1>6, TakeLives
<1>8. alive' = r.alive /\ r.alive \in BOOLEAN
  BY <1>4, <1>5 DEF D!Become, Taken
<1> QED BY <1>4, <1>5, <1>7, <1>8, Becomes

LEMMA AnswerChoiceMoves ==
    ASSUME D!TreeAssumption, D!WorkflowsAssumption, DispatchTyped, D!AnswerChoice
    PROVE  Moved(ctx) /\ (alive' = TRUE \/ D!Leaks) /\ Told(last')
<1> USE DEF DispatchTyped
<1>1. PICK ch \in cards, i \in DOMAIN wf.to[at],
           handles \in BOOLEAN, g \in BOOLEAN, now \in BOOLEAN :
        LET k == wf.to[at][i].to
            dry == D!Visit(ctx, D!Project(at, k, g))
            loop == D!Named(wf, at, k) = {at}
            r == D!Take(at, k, IF loop THEN D!Visit(ctx, at) ELSE ctx,
                        D!Handle(at, k, dry, handles), now)
        IN /\ D!validateOwnerChoiceReply(ch)
           /\ now # g => handles
           /\ D!Become(r)
           /\ last' = [reported |-> r.at, at |-> r.at, alive |-> r.alive,
                       handled |-> D!FinalNamed(at, k), through |-> r.through,
                       overtaken |-> FALSE, swayed |-> FALSE]
  BY Zenon DEF D!AnswerChoice
<1>2. PICK k : k = wf.to[at][i].to /\ k \in D!Keys(wf, at) /\ D!Named(wf, at, k) # {} /\ k # STAY
  <2>1. wf.to[at][i].to \in D!Keys(wf, at)
    BY DEF D!Keys
  <2> QED BY <2>1, KeysNameStates
<1>3. PICK p \in Nodes : p = D!Project(at, k, g)
  <2>1. D!Resolve(wf, at, k) \in Nodes
    BY <1>2, Resolved
  <2>2. D!Macrostep(wf, D!Resolve(wf, at, k), g) \in Arrivals
    BY <2>1, MacrostepEnds DEF EndsFrom, Ends
  <2> QED BY <2>2 DEF D!Project, Arrivals
<1>4. PICK dry \in D!Contexts : dry = D!Visit(ctx, p) /\ dry.marks = ctx.marks
  BY VisitMarks
<1>5. PICK c \in D!Contexts : /\ c = IF D!Named(wf, at, k) = {at} THEN D!Visit(ctx, at) ELSE ctx
                              /\ c.marks = ctx.marks
  BY VisitMarks
<1>6. PICK h : /\ h = D!Handle(at, k, dry, handles) /\ Prepared(h, c)
               /\ h = NULL <=> D!FinalNamed(at, k) = {}
  BY <1>4, <1>5, HandlePrepares
<1>7. PICK r : r = D!Take(at, k, c, h, now) /\ Taken(r, c, h)
  <2>1. Taken(D!Take(at, k, c, h, now), c, h)
    BY Zenon, <1>2, <1>6, TakeMarks
  <2> QED BY <2>1
<1>8. /\ D!Become(r)
      /\ last' = [reported |-> r.at, at |-> r.at, alive |-> r.alive,
                  handled |-> D!FinalNamed(at, k), through |-> r.through,
                  overtaken |-> FALSE, swayed |-> FALSE]
      /\ wf.kind[at] = "choice"
  <2>1. h = D!Handle(at, k, D!Visit(ctx, D!Project(at, k, g)), handles)
    BY <1>3, <1>4, <1>6
  <2>2. r = D!Take(at, k, IF D!Named(wf, at, k) = {at} THEN D!Visit(ctx, at) ELSE ctx,
                   D!Handle(at, k, D!Visit(ctx, D!Project(at, k, g)), handles), now)
    BY <1>5, <1>7, <2>1
  <2>3. D!validateOwnerChoiceReply(ch)
    BY Zenon, <1>1
  <2>4. wf.kind[at] = "choice"
    BY Zenon, <2>3 DEF D!validateOwnerChoiceReply
  <2>5. k = wf.to[at][i].to
    BY <1>2
  <2>6. D!Become(r)
    BY Zenon, <1>1, <2>2, <2>5
  <2>7. last' = [reported |-> r.at, at |-> r.at, alive |-> r.alive,
                 handled |-> D!FinalNamed(at, k), through |-> r.through,
                 overtaken |-> FALSE, swayed |-> FALSE]
    BY Zenon, <1>1, <2>2, <2>5
  <2> QED BY <2>4, <2>6, <2>7
<1>9. r.alive \/ D!Leaks
  BY <1>2, <1>6, <1>7, TakeLives
<1>10. alive' = r.alive /\ r.alive \in BOOLEAN
  BY <1>7, <1>8 DEF D!Become, Taken
<1>11. Told(last')
  <2>1. r.alive /\ ~D!Shadowed => Handles(D!FinalNamed(at, k), r.through)
    BY Zenon, <1>2, <1>6, <1>7, <1>8, TakeHandles
  <2> QED BY Zenon, <1>8, <2>1 DEF Told
<1>12. Moved(ctx)
  BY <1>5, <1>7, <1>8, Becomes
<1> QED BY <1>9, <1>10, <1>11, <1>12

DispatchInv ==
    /\ DispatchTyped /\ UpdatesHeld
    /\ EmitsSteady /\ Told(last) /\ (alive = TRUE \/ D!Leaks \/ crossed # {})

LEMMA DispatchStarts ==
    ASSUME D!TreeAssumption, D!WorkflowsAssumption, D!Init
    PROVE  DispatchInv
<1>1. Verified /\ at = Initial[Root] /\ at \in Nodes
  BY DEF D!Init, Verified, D!TreeAssumption
<1>2. PICK c : c = [marks |-> {}, visits |-> [m \in Nodes |-> 0]]
  OBVIOUS
<1>3. c \in D!Contexts /\ c.marks = {}
  BY <1>2 DEF D!Contexts
<1>4. ctx = D!Visit(c, at)
  BY <1>1, <1>2 DEF D!Init
<1>5. ctx \in D!Contexts /\ ctx.marks = {}
  <2>1. D!Visit(c, at) \in D!Contexts /\ D!Visit(c, at).marks = c.marks
    BY <1>1, <1>3, VisitMarks
  <2> QED BY <1>3, <1>4, <2>1
<1>6. /\ open = NULL /\ last = NULL /\ commits = 0 /\ made = {} /\ crossed = {} /\ alive = TRUE
      /\ emits = [i \in Slots |-> NULL]
  BY DEF D!Init
<1> QED BY <1>1, <1>5, <1>6 DEF DispatchInv, DispatchTyped, UpdatesHeld, Kept, KeptIn, EmitsSteady, Told

(* The steps that end a preparation, and those that commit nothing.         *)
Sends == \E i \in Slots : D!SendEvent(i)
Prepares == \/ D!BeginSubmit \/ D!RefuseSubmit \/ D!MissSubmit \/ D!FinishSubmit
            \/ \E i \in Slots : D!EmitEvent(i) \/ D!PrepareFinal(i) \/ D!LoseEvent(i)

LEMMA NextSplits ==
    ASSUME D!Next
    PROVE  Sends \/ D!CommitSubmit \/ D!InvokeDone \/ D!AnswerChoice \/ Prepares
BY Zenon DEF D!Next, Sends, Prepares

LEMMA PreparesMovesNothing ==
    ASSUME Prepares
    PROVE  /\ wf' = wf /\ at' = at /\ alive' = alive /\ ctx' = ctx /\ commits' = commits
           /\ made' = made /\ crossed' = crossed
BY DEF Prepares, D!BeginSubmit, D!RefuseSubmit, D!MissSubmit, D!FinishSubmit, D!EmitEvent,
       D!PrepareFinal, D!LoseEvent

LEMMA WorkflowStays ==
    ASSUME D!Next PROVE wf' = wf
<1>1. CASE Sends
  BY <1>1 DEF Sends, D!SendEvent
<1>2. CASE D!CommitSubmit
  BY <1>2 DEF D!CommitSubmit
<1>3. CASE D!InvokeDone
  BY Zenon, <1>3 DEF D!InvokeDone
<1>4. CASE D!AnswerChoice
  BY Zenon, <1>4 DEF D!AnswerChoice
<1>5. CASE Prepares
  BY <1>5, PreparesMovesNothing
<1> QED BY <1>1, <1>2, <1>3, <1>4, <1>5, NextSplits

(* A commit, on the data b it was computed from, beside dispatches that are *)
(* being prepared.                                                          *)
Crosses(others) == crossed' = IF others THEN crossed \union {commits + 1} ELSE crossed
Commits(b, others) ==
    /\ Moved(b) /\ Kept(b) /\ Crosses(others)
    /\ alive' = TRUE \/ D!Leaks \/ crossed # {}

LEMMA SendCommits ==
    ASSUME D!TreeAssumption, D!WorkflowsAssumption, DispatchInv, NEW i \in Slots, D!SendEvent(i)
    PROVE  Commits(emits[i].base, D!Preparing(Slots \ {i}))
<1>1. DispatchTyped /\ emits[i] # NULL /\ Steady(emits[i]) /\ Kept(emits[i].base)
  BY DEF DispatchInv, UpdatesHeld, EmitsSteady, D!SendEvent
<1>2. Moved(emits[i].base) /\ (alive' = TRUE \/ D!Leaks \/ crossed # {})
  BY <1>1, SendEventMoves
<1>3. Crosses(D!Preparing(Slots \ {i}))
  BY DEF D!SendEvent, D!Cross, Crosses
<1> QED BY <1>1, <1>2, <1>3 DEF Commits

LEMMA CommitSubmitCommits ==
    ASSUME D!TreeAssumption, D!WorkflowsAssumption, DispatchInv, D!CommitSubmit
    PROVE  Commits(open.base, \E i \in Slots : emits[i] # NULL)
<1>1. DispatchTyped /\ Kept(open.base)
  BY DEF DispatchInv, UpdatesHeld, D!CommitSubmit
<1>2. Moved(open.base) /\ (alive' = TRUE \/ D!Leaks)
  BY <1>1, CommitSubmitMoves
<1>3. Crosses(\E i \in Slots : emits[i] # NULL)
  BY DEF D!CommitSubmit, D!Cross, Crosses
<1> QED BY <1>1, <1>2, <1>3 DEF Commits

LEMMA OtherCommits ==
    ASSUME D!TreeAssumption, D!WorkflowsAssumption, DispatchInv, D!InvokeDone \/ D!AnswerChoice
    PROVE  Commits(ctx, D!Preparing(Slots)) /\ open' = open /\ emits' = emits
<1>1. DispatchTyped /\ Kept(ctx)
  BY DEF DispatchInv, UpdatesHeld
<1>2. Moved(ctx) /\ (alive' = TRUE \/ D!Leaks)
  BY <1>1, InvokeDoneMoves, AnswerChoiceMoves
<1>3. Crosses(D!Preparing(Slots)) /\ open' = open /\ emits' = emits
  <2>1. CASE D!InvokeDone
    BY Zenon, <2>1 DEF D!InvokeDone, D!Cross, Crosses
  <2>2. CASE D!AnswerChoice
    BY Zenon, <2>2 DEF D!AnswerChoice, D!Cross, Crosses
  <2> QED BY <2>1, <2>2
<1> QED BY <1>1, <1>2, <1>3 DEF Commits

(* After a commit the live data is kept, and what the dispatches that are   *)
(* being prepared have read.                                                *)
LEMMA CommitKeeps ==
    ASSUME commits \in Nat, Kept(ctx), NEW b, NEW others, Commits(b, others)
    PROVE  /\ KeptIn(ctx', made', crossed')
           /\ \A c : Kept(c) /\ others => KeptIn(c, made', crossed')
           /\ others => crossed' # {}
           /\ crossed \subseteq crossed'
<1>1. crossed \subseteq crossed' /\ (others => commits + 1 \in crossed')
  BY DEF Commits, Crosses
<1>2. \A x \in Fresh : x[1] = commits + 1
  BY DEF Fresh
<1>3. Kept(b) /\ Moved(b)
  BY DEF Commits
<1>4. CASE alive' = FALSE /\ ctx' = ctx /\ made' = made
  BY <1>1, <1>4 DEF Kept, KeptIn
<1>5. CASE /\ made' = made \union ctx'.marks
           /\ b.marks \subseteq ctx'.marks /\ ctx'.marks \subseteq b.marks \union Fresh
  <2>1. KeptIn(ctx', made', crossed')
    BY <1>1, <1>3, <1>5 DEF Kept, KeptIn
  <2>2. ASSUME NEW c, Kept(c), others PROVE KeptIn(c, made', crossed')
    <3>1. made' \subseteq made \union Fresh
      BY <1>3, <1>5 DEF Kept, KeptIn
    <3> QED BY <1>1, <1>2, <1>5, <2>2, <3>1 DEF Kept, KeptIn
  <2> QED BY <1>1, <2>1, <2>2
<1> QED BY <1>3, <1>4, <1>5 DEF Moved

(* The open submit.                                                         *)
LEMMA OpenTyped ==
    ASSUME D!TreeAssumption, D!WorkflowsAssumption, DispatchInv, D!Next
    PROVE  open' # NULL =>
             /\ Submit'
             /\ open'.phase = "preparing" =>
                  \/ open # NULL /\ open.phase = "preparing" /\ open' = open /\ ~D!CommitSubmit
                  \/ Prepares /\ open'.base = ctx
<1>1. wf' = wf
  BY WorkflowStays
<1> DEFINE P(o) == /\ DOMAIN o = {"phase", "from", "key", "base", "guard", "to", "began"}
                   /\ o.phase \in {"preparing", "settling"} /\ o.base \in D!Contexts
                   /\ o.from \in Nodes /\ wf.kind[o.from] = "stateful"
                   /\ o.key \in D!Keys(wf, o.from)
                   /\ o.to = D!Project(o.from, o.key, o.guard)
<1>2. P(open') => Submit'
  BY <1>1 DEF Submit, D!Project
<1>3. open # NULL => P(open)
  BY DEF DispatchInv, DispatchTyped, Submit
<1>4. CASE D!BeginSubmit
  <2>1. PICK i \in DOMAIN wf.to[at], g \in BOOLEAN :
          open' = [phase |-> "preparing", from |-> at, key |-> wf.to[at][i].to,
                   base |-> ctx, guard |-> g, to |-> D!Project(at, wf.to[at][i].to, g),
                   began |-> commits]
    BY <1>4 DEF D!BeginSubmit
  <2>2. PICK k \in D!Keys(wf, at) : k = wf.to[at][i].to
    BY DEF D!Keys
  <2>3. wf.kind[at] = "stateful" /\ at \in Nodes /\ ctx \in D!Contexts /\ Prepares
    BY <1>4 DEF D!BeginSubmit, Prepares, DispatchInv, DispatchTyped
  <2>4. P(open')
    BY <2>1, <2>2, <2>3
  <2>5. open'.base = ctx
    BY <2>1
  <2> HIDE DEF P
  <2> QED BY <1>2, <2>3, <2>4, <2>5
<1>5. CASE open' = NULL
  BY <1>5
<1>6. CASE open # NULL /\ open' = [open EXCEPT !.phase = "settling"]
  <2>1. P(open) /\ P(open') /\ open'.phase = "settling"
    BY <1>3, <1>6
  <2> HIDE DEF P
  <2> QED BY <1>2, <2>1
<1>7. CASE open' = open /\ ~D!CommitSubmit
  <2>1. ASSUME open' # NULL, open'.phase = "preparing" PROVE open # NULL /\ open.phase = "preparing"
    BY <1>7, <2>1
  <2>2. open' # NULL => P(open')
    BY <1>3, <1>7
  <2> HIDE DEF P
  <2> QED BY <1>2, <1>7, <2>1, <2>2
<1>8. \/ D!BeginSubmit
      \/ open' = NULL
      \/ open # NULL /\ open' = [open EXCEPT !.phase = "settling"]
      \/ open' = open /\ ~D!CommitSubmit
  <2>1. CASE D!CommitSubmit
    BY <2>1 DEF D!CommitSubmit, D!Reports
  <2>2. CASE ~D!CommitSubmit
    <3>1. CASE Sends
      BY <2>2, <3>1 DEF Sends, D!SendEvent
    <3>2. CASE D!InvokeDone \/ D!AnswerChoice
      BY <2>2, <3>2, OtherCommits
    <3>3. CASE Prepares
      BY <2>2, <3>3 DEF Prepares, D!RefuseSubmit, D!MissSubmit, D!FinishSubmit, D!EmitEvent,
                        D!PrepareFinal, D!LoseEvent, D!Reports
    <3> QED BY <2>2, <3>1, <3>2, <3>3, NextSplits
  <2> QED BY <2>1, <2>2
<1> QED BY <1>4, <1>5, <1>6, <1>7, <1>8

(* The events in the slots: what is in one has stayed there, and nothing    *)
(* was committed but by another dispatch; or it has just been emitted.      *)
Held(i, e) ==
    \/ /\ emits[i] # NULL /\ e.base = emits[i].base /\ e.key = emits[i].key
       /\ e.from \in {emits[i].from, at} /\ ~D!SendEvent(i)
       /\ e = emits[i] \/ Prepares
    \/ Prepares /\ e.base = ctx /\ e.key = wf.event[at] /\ e.from = NULL

LEMMA EmitsTyped ==
    ASSUME D!TreeAssumption, D!WorkflowsAssumption, DispatchInv, D!Next
    PROVE  /\ emits' = [i \in Slots |-> emits'[i]]
           /\ \A i \in Slots : emits'[i] # NULL => Emission(emits'[i]) /\ Held(i, emits'[i])
<1>1. /\ emits = [i \in Slots |-> emits[i]] /\ ctx \in D!Contexts
      /\ \A i \in Slots : emits[i] # NULL => Emission(emits[i])
  BY DEF DispatchInv, DispatchTyped
<1>2. ASSUME NEW i \in Slots, NEW e, emits' = [emits EXCEPT ![i] = e],
             e # NULL => Emission(e) /\ Held(i, e), \A j \in Slots \ {i} : ~D!SendEvent(j)
      PROVE  /\ emits' = [j \in Slots |-> emits'[j]]
             /\ \A j \in Slots : emits'[j] # NULL => Emission(emits'[j]) /\ Held(j, emits'[j])
  <2>1. emits' = [j \in Slots |-> IF j = i THEN e ELSE emits[j]]
    BY <1>1, <1>2
  <2>2. \A j \in Slots : emits'[j] = IF j = i THEN e ELSE emits[j]
    BY <2>1
  <2>3. emits' = [j \in Slots |-> emits'[j]]
    BY <2>1
  <2>4. ASSUME NEW j \in Slots, emits'[j] # NULL PROVE Emission(emits'[j]) /\ Held(j, emits'[j])
    <3>1. CASE j = i
      BY <1>2, <2>2, <2>4, <3>1
    <3>2. CASE j # i
      <4>1. emits'[j] = emits[j] /\ ~D!SendEvent(j)
        BY <1>2, <2>2, <3>2
      <4> QED BY <1>1, <2>4, <4>1 DEF Held
    <3> QED BY <3>1, <3>2
  <2> QED BY <2>3, <2>4
<1>3. CASE Sends
  <2>1. PICK i \in Slots : D!SendEvent(i)
    BY <1>3 DEF Sends
  <2>2. emits' = [emits EXCEPT ![i] = NULL] /\ emits[i] # NULL
    BY <2>1 DEF D!SendEvent
  <2>3. \A j \in Slots \ {i} : ~D!SendEvent(j)
    <3>1. ASSUME NEW j \in Slots \ {i}, D!SendEvent(j) PROVE FALSE
      <4>1. emits' = [emits EXCEPT ![j] = NULL]
        BY <3>1 DEF D!SendEvent
      <4> QED BY <1>1, <2>2, <4>1
    <3> QED BY <3>1
  <2> QED BY <1>2, <2>2, <2>3
<1>4. CASE \E i \in Slots : D!EmitEvent(i) \/ D!PrepareFinal(i) \/ D!LoseEvent(i)
  <2>1. PICK i \in Slots : D!EmitEvent(i) \/ D!PrepareFinal(i) \/ D!LoseEvent(i)
    BY <1>4
  <2>2. Prepares /\ commits' = commits /\ commits \in Nat
    BY <2>1, PreparesMovesNothing DEF Prepares, DispatchInv, DispatchTyped
  <2>3. \A j : ~D!SendEvent(j)
    BY <2>2 DEF D!SendEvent, D!Become
  <2>4. CASE D!EmitEvent(i)
    <3>1. PICK e : /\ e = [key |-> wf.event[at], base |-> ctx, from |-> NULL]
                   /\ emits' = [emits EXCEPT ![i] = e]
      BY <2>4 DEF D!EmitEvent
    <3>2. Emission(e) /\ Held(i, e)
      BY <1>1, <2>2, <3>1 DEF Emission, Held
    <3> QED BY <1>2, <2>3, <3>1, <3>2
  <2>5. CASE D!PrepareFinal(i)
    <3>1. PICK e : e = [emits[i] EXCEPT !.from = at] /\ emits' = [emits EXCEPT ![i] = e]
      BY <2>5 DEF D!PrepareFinal
    <3>2. emits[i] # NULL /\ Emission(emits[i])
      BY <1>1, <2>5 DEF D!PrepareFinal
    <3>3. Emission(e) /\ e.base = emits[i].base /\ e.key = emits[i].key /\ e.from = at
      BY <3>1, <3>2 DEF Emission
    <3>4. Held(i, e)
      BY <2>2, <2>3, <3>2, <3>3 DEF Held
    <3> QED BY <1>2, <2>3, <3>1, <3>3, <3>4
  <2>6. CASE D!LoseEvent(i)
    <3>1. emits' = [emits EXCEPT ![i] = NULL]
      BY <2>6 DEF D!LoseEvent
    <3> QED BY <1>2, <2>3, <3>1
  <2> QED BY <2>1, <2>4, <2>5, <2>6
<1>5. CASE emits' = emits
  <2>1. \A j \in Slots : emits[j] # NULL => ~D!SendEvent(j)
    <3>1. ASSUME NEW j \in Slots, emits[j] # NULL, D!SendEvent(j) PROVE FALSE
      <4>1. emits' = [emits EXCEPT ![j] = NULL]
        BY <3>1 DEF D!SendEvent
      <4> QED BY <1>1, <1>5, <3>1, <4>1
    <3> QED BY <3>1
  <2> QED BY <1>1, <1>5, <2>1 DEF Held
<1>6. \/ Sends \/ emits' = emits
      \/ \E i \in Slots : D!EmitEvent(i) \/ D!PrepareFinal(i) \/ D!LoseEvent(i)
  <2>1. CASE D!CommitSubmit
    BY <2>1 DEF D!CommitSubmit
  <2>2. CASE D!InvokeDone \/ D!AnswerChoice
    BY <2>2, OtherCommits
  <2>3. CASE Prepares
    BY <2>3 DEF Prepares, D!BeginSubmit, D!RefuseSubmit, D!MissSubmit, D!FinishSubmit
  <2> QED BY <2>1, <2>2, <2>3, NextSplits
<1> QED BY <1>3, <1>4, <1>5, <1>6

LEMMA WorkflowExcused ==
    ASSUME wf' = wf
    PROVE  Verified = Verified' /\ D!Leaks = D!Leaks'
BY DEF Verified, D!Leaks

(* A step commits, on data that is kept, and with it crosses the submit and *)
(* the events that are still being prepared afterwards; or moves nothing.   *)
LEMMA DispatchCommits ==
    ASSUME D!TreeAssumption, D!WorkflowsAssumption, DispatchInv, D!Next, ~Prepares
    PROVE  \E b, others :
             /\ Commits(b, others)
             /\ open' # NULL /\ open'.phase = "preparing" => others
             /\ \A i \in Slots : emits'[i] # NULL => others
<1>1. open' # NULL /\ open'.phase = "preparing" =>
        open # NULL /\ open.phase = "preparing" /\ ~D!CommitSubmit
  BY OpenTyped
<1>2. \A i \in Slots : emits'[i] # NULL => emits[i] # NULL /\ ~D!SendEvent(i)
  BY EmitsTyped DEF Held
<1>3. CASE Sends
  <2>1. PICK i \in Slots : D!SendEvent(i)
    BY <1>3 DEF Sends
  <2>2. Commits(emits[i].base, D!Preparing(Slots \ {i}))
    BY <2>1, SendCommits
  <2>3. /\ open' # NULL /\ open'.phase = "preparing" => D!Preparing(Slots \ {i})
        /\ \A j \in Slots : emits'[j] # NULL => D!Preparing(Slots \ {i})
    BY <1>1, <1>2, <2>1 DEF D!Preparing
  <2> QED BY <2>2, <2>3
<1>4. CASE D!CommitSubmit
  <2>1. Commits(open.base, \E i \in Slots : emits[i] # NULL)
    BY <1>4, CommitSubmitCommits
  <2> QED BY <1>1, <1>2, <1>4, <2>1
<1>5. CASE D!InvokeDone \/ D!AnswerChoice
  <2>1. Commits(ctx, D!Preparing(Slots))
    BY <1>5, OtherCommits
  <2>2. /\ open' # NULL /\ open'.phase = "preparing" => D!Preparing(Slots)
        /\ \A j \in Slots : emits'[j] # NULL => D!Preparing(Slots)
    BY <1>1, <1>2 DEF D!Preparing
  <2> QED BY <2>1, <2>2
<1> QED BY <1>3, <1>4, <1>5, NextSplits

LEMMA DispatchKeepsTypes ==
    ASSUME D!TreeAssumption, D!WorkflowsAssumption, DispatchInv, D!Next
    PROVE  DispatchTyped' /\ (alive' = TRUE \/ D!Leaks \/ crossed' # {})
<1>1. Verified'
  BY WorkflowStays, WorkflowExcused DEF DispatchInv, DispatchTyped
<1>2. open' # NULL => Submit'
  BY OpenTyped
<1>3. /\ emits' = [i \in Slots |-> emits'[i]]
      /\ \A i \in Slots : emits'[i] # NULL => Emission(emits'[i])
  BY EmitsTyped
<1>4. /\ at \in Nodes /\ ctx \in D!Contexts /\ commits \in Nat /\ Kept(ctx)
      /\ alive = TRUE \/ D!Leaks \/ crossed # {}
  BY DEF DispatchInv, DispatchTyped, UpdatesHeld
<1>5. /\ at' \in Nodes /\ ctx' \in D!Contexts /\ commits' \in Nat
      /\ alive' = TRUE \/ D!Leaks \/ crossed' # {}
  <2>1. CASE Prepares
    BY <1>4, <2>1, PreparesMovesNothing
  <2>2. CASE ~Prepares
    <3>1. PICK b, others : Commits(b, others)
      BY <2>2, DispatchCommits
    <3>2. crossed \subseteq crossed'
      BY <1>4, <3>1, CommitKeeps
    <3> QED BY <1>4, <3>1, <3>2 DEF Commits, Moved
  <2> QED BY <2>1, <2>2
<1> QED BY <1>1, <1>2, <1>3, <1>5 DEF DispatchTyped, Emission

(* What a dispatch has read is kept by the commits of the others.           *)
LEMMA DispatchKeepsUpdates ==
    ASSUME D!TreeAssumption, D!WorkflowsAssumption, DispatchInv, D!Next
    PROVE  UpdatesHeld' /\ EmitsSteady'
<1>1. /\ commits \in Nat /\ Kept(ctx)
      /\ open # NULL /\ open.phase = "preparing" => Kept(open.base)
      /\ \A i \in Slots : emits[i] # NULL => Kept(emits[i].base) /\ Steady(emits[i])
  BY DEF DispatchInv, DispatchTyped, UpdatesHeld, EmitsSteady
<1>2. open' # NULL /\ open'.phase = "preparing" =>
        \/ open # NULL /\ open.phase = "preparing" /\ open' = open
        \/ Prepares /\ open'.base = ctx
  BY OpenTyped
<1>3. \A i \in Slots : emits'[i] # NULL => Held(i, emits'[i])
  BY EmitsTyped
<1>4. wf' = wf
  BY WorkflowStays
<1>5. CASE Prepares
  <2>1. at' = at /\ ctx' = ctx /\ made' = made /\ crossed' = crossed
    BY <1>5, PreparesMovesNothing
  <2>2. open' # NULL /\ open'.phase = "preparing" => Kept(open'.base)
    BY <1>1, <1>2
  <2>3. ASSUME NEW i \in Slots, emits'[i] # NULL
        PROVE  Kept(emits'[i].base) /\ Steady(emits'[i])
    BY <1>1, <1>3, <2>3 DEF Held, Steady
  <2>4. UpdatesHeld'
    BY <1>1, <2>1, <2>2, <2>3 DEF UpdatesHeld, Kept
  <2>5. EmitsSteady'
    BY <1>4, <2>1, <2>3 DEF EmitsSteady, Steady
  <2> QED BY <2>4, <2>5
<1>6. CASE ~Prepares
  <2>1. PICK b, others :
          /\ Commits(b, others)
          /\ open' # NULL /\ open'.phase = "preparing" => others
          /\ \A i \in Slots : emits'[i] # NULL => others
    BY <1>6, DispatchCommits
  <2>2. /\ KeptIn(ctx', made', crossed')
        /\ \A c : Kept(c) /\ others => KeptIn(c, made', crossed')
        /\ others => crossed' # {}
    BY <1>1, <2>1, CommitKeeps
  <2>3. open' # NULL /\ open'.phase = "preparing" => KeptIn(open'.base, made', crossed')
    BY <1>1, <1>2, <1>6, <2>1, <2>2
  <2>4. ASSUME NEW i \in Slots, emits'[i] # NULL
        PROVE  KeptIn(emits'[i].base, made', crossed') /\ crossed' # {}
    <3>1. emits[i] # NULL /\ emits'[i].base = emits[i].base
      BY <1>3, <1>6, <2>4 DEF Held
    <3> QED BY <1>1, <2>1, <2>2, <2>4, <3>1
  <2> QED BY <2>2, <2>3, <2>4 DEF UpdatesHeld, Kept, EmitsSteady, Steady
<1> QED BY <1>5, <1>6

LEMMA DispatchKeepsTold ==
    ASSUME D!TreeAssumption, D!WorkflowsAssumption, DispatchInv, D!Next
    PROVE  Told(last')
<1>1. DispatchTyped
  BY DEF DispatchInv
<1>2. CASE D!CommitSubmit
  BY <1>1, <1>2, CommitSubmitMoves
<1>3. CASE D!AnswerChoice
  BY <1>1, <1>3, AnswerChoiceMoves
<1>4. CASE D!MissSubmit
  <2>1. PICK l : /\ D!Reports(l) /\ l.overtaken = TRUE
    BY <1>4 DEF D!MissSubmit
  <2>2. last' = l \/ last' = NULL
    BY <2>1 DEF D!Reports
  <2> QED BY <2>1, <2>2 DEF Told
<1>5. CASE last' = NULL
  BY <1>5 DEF Told
<1> QED BY <1>2, <1>3, <1>4, <1>5, NextSplits DEF Prepares, Sends, D!BeginSubmit, D!EmitEvent,
           D!PrepareFinal, D!SendEvent, D!LoseEvent, D!RefuseSubmit, D!FinishSubmit, D!InvokeDone

LEMMA DispatchStep ==
    ASSUME D!TreeAssumption, D!WorkflowsAssumption, DispatchInv, [D!Next]_D!vars
    PROVE  DispatchInv'
<1>1. CASE D!Next
  <2>1. /\ DispatchTyped' /\ UpdatesHeld' /\ Told(last') /\ wf' = wf
        /\ EmitsSteady'
        /\ alive' = TRUE \/ D!Leaks \/ crossed' # {}
    BY <1>1, DispatchKeepsTypes, DispatchKeepsUpdates, DispatchKeepsTold, WorkflowStays
  <2>2. D!Leaks => D!Leaks'
    BY <2>1, WorkflowExcused
  <2>3. Told(last)'
    BY <2>1 DEF Told, D!Shadowed, D!Leaf
  <2> QED BY <2>1, <2>2, <2>3 DEF DispatchInv
<1>2. CASE UNCHANGED D!vars
  <2>1. /\ wf' = wf /\ at' = at /\ alive' = alive /\ ctx' = ctx /\ open' = open /\ last' = last
        /\ commits' = commits /\ made' = made /\ crossed' = crossed /\ emits' = emits
    BY <1>2 DEF D!vars
  <2>2. D!Leaks => D!Leaks'
    BY <2>1, WorkflowExcused
  <2>3. Told(last)'
    BY <2>1 DEF DispatchInv, Told, D!Shadowed, D!Leaf
  <2>4. DispatchTyped'
    BY <2>1 DEF DispatchInv, DispatchTyped, Verified, Submit, D!Project, Emission
  <2>5. UpdatesHeld' /\ EmitsSteady'
    BY <2>1 DEF DispatchInv, UpdatesHeld, Kept, KeptIn, EmitsSteady, Steady
  <2> QED BY <2>1, <2>2, <2>3, <2>4, <2>5 DEF DispatchInv
<1> QED BY <1>1, <1>2

(* The definitions an instance of Dispatch has are those of DispatchState.  *)
LEMMA SameTree ==
    D!TreeAssumption
<1>1. D!Hosts = Hosts
  BY DEF D!Hosts, Hosts, D!Around, Around
<1>2. /\ IsFiniteSet(Nodes) /\ Root \notin Nodes
      /\ Parent \in [Nodes -> Nodes \union {Root}]
      /\ \A n \in Nodes : n \notin Hosts[n]
      /\ Initial[Root] \in Nodes
  BY TreeAssumption
<1>3. D!IsFiniteSet(Nodes)
  BY <1>2 DEF IsFiniteSet, D!IsFiniteSet
<1> QED BY <1>1, <1>2, <1>3 DEF D!TreeAssumption

LEMMA SameWorkflows ==
    D!WorkflowsAssumption
BY WorkflowsAssumption DEF D!WorkflowsAssumption, WorkflowsAssumption, D!Embedded, Embedded,
   D!Contexts, Contexts

LEMMA SameExceptions ==
    /\ D!Leaks => Leaks
    /\ D!Shadowed => Shadowed
<1>1. \A n, k : D!Named(wf, n, k) = Named(wf, n, k)
  BY DEF D!Named, Named
<1>2. \A n : D!Keys(wf, n) = Keys(wf, n)
  BY DEF D!Keys, Keys
<1>3. \A n : D!FinalsOf(wf, n) = FinalsOf(wf, n)
  BY DEF D!FinalsOf, FinalsOf
<1>4. D!Hosts = Hosts
  BY DEF D!Hosts, Hosts, D!Around, Around
<1>5. ASSUME NEW n PROVE D!outgoingTargets(wf, n) = outgoingTargets(wf, n)
  <2> DEFINE F == FinalsOf(wf, n)
             K == Keys(wf, n)
             M(k) == Named(wf, n, k)
             N(k) == D!Named(wf, n, k)
  <2>1. \A k : M(k) = N(k)
    BY <1>1
  <2>2. D!outgoingTargets(wf, n) = IF wf.kind[n] = "host" THEN UNION {N(wf.wired[f]) : f \in F}
                                                         ELSE UNION {N(k) : k \in K}
    BY <1>2, <1>3 DEF D!outgoingTargets
  <2>3. outgoingTargets(wf, n) = IF wf.kind[n] = "host" THEN UNION {M(wf.wired[f]) : f \in F}
                                                       ELSE UNION {M(k) : k \in K}
    BY DEF outgoingTargets
  <2> HIDE DEF M, N, F, K
  <2>4. {N(wf.wired[f]) : f \in F} = {M(wf.wired[f]) : f \in F}
    BY <2>1
  <2>5. {N(k) : k \in K} = {M(k) : k \in K}
    BY <2>1
  <2> QED BY <2>2, <2>3, <2>4, <2>5
<1>6. D!Leaks => Leaks
  BY <1>1, <1>2, <1>3 DEF D!Leaks, Leaks, D!Embedded, Embedded
<1>7. D!Shadowed => Shadowed
  BY <1>4, <1>5 DEF D!Shadowed, Shadowed, D!Leaf, Leaf
<1> QED BY <1>6, <1>7

LEMMA DispatchInvPromises ==
    ASSUME DispatchInv
    PROVE  UpdatesKept /\ ReportExplained /\ FinalsHandled
<1>1. UpdatesKept
  BY DEF DispatchInv, UpdatesHeld, Kept, KeptIn, UpdatesKept
<1>2. ReportExplained
  BY DEF DispatchInv, Told, ReportExplained
<1>3. FinalsHandled
  BY SameExceptions DEF DispatchInv, Told, Handles, FinalsHandled, D!Range, Range
<1> QED BY <1>1, <1>2, <1>3

(* Every update a dispatch commits stays in the data, except those          *)
(* committed while another dispatch was preparing: dispatchSubmit.ts and    *)
(* dispatchEvent.ts compute the data from what they read before the effects. *)
THEOREM UpdatesKeptHolds ==
    D!Spec => []UpdatesKept
<1>1. D!Init => DispatchInv
  BY DispatchStarts, SameTree, SameWorkflows
<1>2. DispatchInv /\ [D!Next]_D!vars => DispatchInv'
  BY DispatchStep, SameTree, SameWorkflows
<1>3. DispatchInv => UpdatesKept
  BY DispatchInvPromises
<1> QED BY <1>1, <1>2, <1>3, PTL DEF D!Spec

(* The state a dispatch reports, and acts on, is where the actor is, unless *)
(* a passive state decided on data the submit changed or another dispatch   *)
(* moved the actor first.                                                   *)
THEOREM ReportExplainedHolds ==
    D!Spec => []ReportExplained
<1>1. D!Init => DispatchInv
  BY DispatchStarts, SameTree, SameWorkflows
<1>2. DispatchInv /\ [D!Next]_D!vars => DispatchInv'
  BY DispatchStep, SameTree, SameWorkflows
<1>3. DispatchInv => ReportExplained
  BY DispatchInvPromises
<1> QED BY <1>1, <1>2, <1>3, PTL DEF D!Spec

(* The handler prepareEmbeddedFinalCommit prepares is that of the embedded  *)
(* final the transition goes through, and no actor of a verified workflow   *)
(* enters one unprepared, unless passive states or initial ones lead there, *)
(* a state has an outer final's name, one final leads to another, or        *)
(* another dispatch came during the preparation.                            *)
THEOREM FinalsHandledHolds ==
    D!Spec => []FinalsHandled
<1>1. D!Init => DispatchInv
  BY DispatchStarts, SameTree, SameWorkflows
<1>2. DispatchInv /\ [D!Next]_D!vars => DispatchInv'
  BY DispatchStep, SameTree, SameWorkflows
<1>3. DispatchInv => FinalsHandled
  BY DispatchInvPromises
<1> QED BY <1>1, <1>2, <1>3, PTL DEF D!Spec
=============================================================================
