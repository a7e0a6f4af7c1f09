-------------------------- MODULE RunLifecycleProofs --------------------------
(* How a run ends, for every number of failures and of replies; and what a  *)
(* page shows of it, for every run and every size of its pages of rows.     *)
EXTENDS RunLifecycle, Rows, FiniteSets, FiniteSetTheorems, SequenceTheorems, WellFoundedInduction, TLAPS

(***************************** inductive invariants *************************)
Ending == {"failing", "cancelling", "returned", "exited"}
Pcs == {"working", "checking", "checked", "running"} \union Ending
Flows == [terminal : {NULL, "success", "failure"},
          via : {NULL, "submit", "choice", "event"},
          signal : {"none", "coming", "replying", "sent", "lost"}]
Shape ==
    /\ stage \in 1..Kickoff /\ pc \in Pcs /\ open \subseteq Resources
    /\ cancel \in BOOLEAN /\ faults \in Nat /\ flow \in Flows
    /\ routes \in [Routes -> {"none", "grace", "closing", "done"}]
    /\ downs \in [Downs -> 0..5] /\ taken \in [Servers -> Downs \union {NULL}]

(* Nothing is opened any more once the workflow is at its terminal, a route *)
(* to the end is taken or a shutdown routine has begun.                     *)
Settled ==
    /\ (\E r \in Routes : routes[r] # "none") \/ (\E d \in Downs : downs[d] > 0)
            \/ flow.terminal # NULL
        => stage = Kickoff \/ pc \in Ending
    /\ flow.signal # "none" => flow.terminal # NULL
    /\ pc = "running" => stage = Kickoff
    /\ listening => stage = Kickoff \/ pc \in Ending

(* What a shutdown routine has passed is closed, or is a server in the      *)
(* hands of a routine that has come to it, or the connection of a run that  *)
(* ended as it connected; and whoever waited for a routine has seen its     *)
(* end.                                                                     *)
Place(x) == IF x = "hooks" THEN 1 ELSE 2
StillOpen(x) == x \in Servers /\ taken[x] # NULL /\ downs[taken[x]] = Place(x)
Excused(x) == StillOpen(x) \/ (x = "client" /\ stage = 3)
Holding == \A x \in Servers : taken[x] # NULL =>
               downs[taken[x]] > 0 /\ (x \in open => StillOpen(x))
Passed == \A d \in Downs : \A i \in 1..4 :
              i < downs[d] => ClosingOrder[i] \notin open \/ Excused(ClosingOrder[i])
Awaited ==
    /\ \A r \in Routes : routes[r] = "done" => Closed(DownOf(r))
    /\ signal # NULL => \E d \in Downs : Closed(d)
Emptied ==
    /\ stage = 1 /\ pc \in {"working", "failing"} => open = {}
    /\ "hooks" \in open => stage > 5
    /\ "client" \in open => stage > 2
    /\ pc = "returned" => \A x \in open : Excused(x)
Tidy == Shape /\ Settled /\ Holding /\ Passed /\ Awaited /\ Emptied

(* While the engine boots, its connection is lost by a failure or closed by *)
(* the run's terminal, for nothing else begins a shutdown then.             *)
Booting == pc \in {"working", "checking", "checked"}
Disturbed == faults > 0 \/ routes["terminal"] # "none"
Undisturbed ==
    /\ Booting => ~listening /\ \A r \in {"drive", "cancel", "sigint"} : routes[r] = "none"
    /\ Booting /\ (\E d \in Downs : downs[d] > 0) => Disturbed
    /\ routes["terminal"] # "none" => flow.signal = "sent"
    /\ Booting /\ (stage > 3 \/ (stage = 3 /\ pc # "working")) /\ "client" \notin open => Disturbed

(* Whoever ends the run has a reason to.                                    *)
Justified(res) ==
    CASE Status(res) = "completed" -> flow.terminal # NULL
      [] Status(res) = "cancelled" -> cancel
      [] Status(res) = "failed"    -> faults > 0 \/ flow.terminal = "failure"
FairSignals == {res \in Signals : Justified(res)}
Outrun == stage = Kickoff /\ flow.signal = "sent"
Causes ==
    /\ routes["terminal"] # "none" \/ routes["drive"] # "none" => flow.terminal # NULL
    /\ routes["cancel"] # "none" \/ pc = "cancelling" => cancel
    /\ routes["fatal"] # "none" \/ routes["clear"] # "none" => faults > 0
    /\ pc = "failing" => faults > 0 \/ Outrun
SignalFair == signal # NULL => signal \in FairSignals
ResultFair ==
    result # NULL => /\ pc = "returned"
                     /\ \/ result \in FairSignals
                        \/ Outrun /\ result = Signalled(1, NULL, NULL) /\ result # signal
Reasons == Causes /\ SignalFair /\ ResultFair

(********************************** constants *******************************)
LEMMA StageFacts ==
    /\ Kickoff = 7 /\ Len(ClosingOrder) = 4
    /\ Stages[1] = "ui" /\ Stages[2] = "spawn" /\ Stages[3] = "connect" /\ Stages[4] = "skills"
    /\ Stages[5] = "thread" /\ Stages[6] = "hooks" /\ Stages[7] = "kickoff"
    /\ ClosingOrder[1] = "hooks" /\ ClosingOrder[2] = "ui"
    /\ ClosingOrder[3] = "client" /\ ClosingOrder[4] = "app"
BY DEF Kickoff, Stages, ClosingOrder

LEMMA OpensFacts ==
    \A s \in 1..Kickoff : /\ Opens(s) \subseteq Resources
                          /\ s = Kickoff => Opens(s) = {}
                          /\ "hooks" \in Opens(s) => s = 6
                          /\ "client" \in Opens(s) => s = 3
BY StageFacts DEF Opens, Resources

(* A shutdown routine that has come to its end has left nothing open.       *)
LEMMA ClosedEmpty ==
    ASSUME Shape, Passed, NEW d \in Downs, Closed(d)
    PROVE  \A x \in open : Excused(x)
<1>1. \A i \in 1..4 : ClosingOrder[i] \notin open \/ Excused(ClosingOrder[i])
  BY StageFacts DEF Shape, Passed, Closed
<1>2. 1 \in 1..4 /\ 2 \in 1..4 /\ 3 \in 1..4 /\ 4 \in 1..4
  OBVIOUS
<1> QED BY <1>1, <1>2, StageFacts DEF Shape, Resources

Commits == \E via \in {"submit", "choice", "event"}, o \in {"success", "failure"} : CommitTerminal(via, o)

LEMMA FlowsKept ==
    ASSUME NEW f \in Flows
    PROVE  /\ [f EXCEPT !.signal = "replying"] \in Flows
           /\ [f EXCEPT !.signal = "sent", !.via = NULL] \in Flows
           /\ [f EXCEPT !.signal = "replying"].terminal = f.terminal
           /\ [f EXCEPT !.signal = "sent", !.via = NULL].terminal = f.terminal
BY DEF Flows

(********************************* no loose ends ****************************)
LEMMA TidyStep ==
    ASSUME Tidy, [Next]_vars
    PROVE  Tidy'
<1> USE StageFacts DEF Tidy, Shape, Settled, Holding, Passed, Awaited, Emptied, StillOpen, Excused, Place,
        Ending, Pcs, Closed, DownOf, Routes, Downs, Servers, mainVars, endVars, downVars, apiVars
<1>1. CASE StageDone \/ StageFails
  <2>1. /\ UNCHANGED <<stage, downs, taken, flow, signal>>
        /\ pc = "working" /\ pc' \in {"checking", "cancelling", "failing"}
        /\ open' = open \/ open' = open \union Opens(stage)
        /\ stage = 1 /\ pc' = "failing" => open' = open
    BY <1>1 DEF StageDone, StageFails, Caught, CancelRun, Publish
  <2>2. /\ cancel' \in BOOLEAN /\ faults' \in Nat
        /\ routes' = routes \/ (routes' = [routes EXCEPT !["cancel"] = "grace"] /\ pc' = "cancelling")
    BY <1>1 DEF StageDone, StageFails, Caught, CancelRun, Publish
  <2>3. open' \subseteq Resources /\ ("hooks" \in open' => stage > 5) /\ ("client" \in open' => stage > 2)
    BY <2>1, OpensFacts
  <2>4. open' = open \/ \A d \in Downs : downs[d] = 0
    BY <2>1, OpensFacts
  <2>5. Shape' /\ listening' = listening
    BY <1>1, <2>1, <2>2, <2>3 DEF StageDone, StageFails
  <2>6. Settled'
    BY <2>1, <2>2, <2>5
  <2>7. Holding' /\ Passed'
    <3>1. CASE open' = open
      BY <2>1, <3>1
    <3>2. CASE \A d \in Downs : downs[d] = 0
      <4>1. \A x \in Servers : taken[x] = NULL
        BY <3>2
      <4> QED BY <2>1, <3>2, <4>1
    <3> QED BY <2>4, <3>1, <3>2
  <2>8. Awaited'
    BY <2>1, <2>2
  <2>9. Emptied'
    BY <2>1, <2>3
  <2> QED BY <2>5, <2>6, <2>7, <2>8, <2>9
<1>22. CASE RequestRejected
  BY <1>22 DEF RequestRejected, Caught, CancelRun, Publish
<1>3. CASE CheckCancelled
  BY <1>3 DEF CheckCancelled, CancelRun, Publish
<1>4. CASE Proceed
  BY <1>4 DEF Proceed, CancelRun, ResolveCancellation, Publish, Resources
<1>5. CASE Commits
  <2>1. PICK via \in {"submit", "choice", "event"}, o \in {"success", "failure"} :
            CommitTerminal(via, o)
    BY <1>5 DEF Commits
  <2>2. stage = Kickoff
    BY <2>1 DEF CommitTerminal, AtWork
  <2>3. flow' \in Flows /\ flow'.terminal # NULL
    BY <2>1, LifecycleAssumption DEF CommitTerminal, Flows
  <2> QED BY <2>1, <2>2, <2>3 DEF CommitTerminal
<1>6. CASE SignalTerminal
  <2>1. flow' \in Flows /\ flow'.terminal = flow.terminal
    <3>1. flow' = [flow EXCEPT !.signal = "replying"] \/ flow' = [flow EXCEPT !.signal = "sent", !.via = NULL]
      BY <1>6 DEF SignalTerminal
    <3>2. flow \in Flows
      OBVIOUS
    <3> HIDE DEF Tidy
    <3> QED BY <3>1, <3>2, FlowsKept
  <2>2. routes' = routes \/ routes' = [routes EXCEPT !["terminal"] = "grace"]
    BY <1>6 DEF SignalTerminal
  <2>3. flow.terminal # NULL
    BY <1>6 DEF SignalTerminal
  <2> QED BY <1>6, <2>1, <2>2, <2>3 DEF SignalTerminal
<1>7. CASE SendReply
  <2>1. flow' \in Flows /\ flow'.terminal = flow.terminal
    BY <1>7 DEF SendReply, Flows
  <2>2. routes' = [routes EXCEPT !["terminal"] = "grace"] /\ flow.terminal # NULL
    BY <1>7 DEF SendReply
  <2> QED BY <1>7, <2>1, <2>2 DEF SendReply
<1>8. CASE ArtifactsFail
  BY <1>8 DEF ArtifactsFail, Flows
<1>9. CASE TurnCompletes
  BY <1>9 DEF TurnCompletes
<1>10. CASE Fails("fatal") \/ Fails("clear")
  BY <1>10 DEF Fails, AtWork, Publish
<1>11. CASE Sigint
  BY <1>11 DEF Sigint
<1>12. CASE Cancel
  BY <1>12 DEF Cancel, CancelRun, ResolveCancellation, Publish
<1>13. CASE DropConnection
  BY <1>13 DEF DropConnection
<1>14. CASE GraceEnds \/ CloseAfterFailure
  BY <1>14 DEF GraceEnds, CloseAfterFailure, Begun
<1>15. CASE \E r \in Routes : BeginClosing(r)
  BY <1>15 DEF BeginClosing, Begun
<1>16. CASE \E r \in Routes : Resolve(r)
  BY <1>16 DEF Resolve
<1>17. CASE \E d \in Downs : CloseNext(d)
  <2>1. PICK d \in Downs : CloseNext(d)
    BY <1>17
  <2>2. PICK n \in 1..4 : n = downs[d]
    BY <2>1 DEF CloseNext
  <2> DEFINE x == ClosingOrder[n]
  <2>3. /\ downs' = [downs EXCEPT ![d] = n + 1]
        /\ x \in Servers \cap open => taken[x] # NULL
        /\ open' = open \/ open' = open \ {x}
        /\ x \notin open' \/ (x \in Servers /\ taken[x] # d) \/ (x = "client" /\ stage = 3)
    BY <2>1, <2>2 DEF CloseNext, Passes
  <2>4. UNCHANGED <<stage, pc, cancel, listening, routes, taken, signal, flow, faults>>
    BY <2>1 DEF CloseNext
  <2>5. Shape'
    BY <2>2, <2>3, <2>4
  <2>6. ASSUME NEW y \in open', Excused(y) PROVE Excused(y)'
    <3>1. CASE y = "client" /\ stage = 3
      BY <2>4, <3>1
    <3>2. CASE StillOpen(y)
      <4>1. taken[y] # d
        BY <2>2, <2>3, <2>6, <3>2
      <4> QED BY <2>3, <2>4, <3>2, <4>1
    <3> QED BY <2>6, <3>1, <3>2
  <2>7. Holding'
    BY <2>2, <2>3, <2>4, <2>6
  <2>8. Passed'
    <3>1. ASSUME NEW e \in Downs, NEW i \in 1..4, i < downs'[e], ClosingOrder[i] \in open'
          PROVE  Excused(ClosingOrder[i])'
      <4>1. i < downs[e] \/ i = n
        BY <2>2, <2>3, <3>1
      <4>2. ClosingOrder[i] \in open
        BY <2>3, <3>1
      <4>3. CASE i < downs[e]
        BY <2>6, <3>1, <4>2, <4>3
      <4>4. CASE i = n
        <5>1. (x \in Servers /\ taken[x] # NULL) \/ (x = "client" /\ stage = 3)
          BY <2>3, <3>1, <4>2, <4>4
        <5>2. Excused(x)
          BY <4>2, <4>4, <5>1
        <5> QED BY <2>6, <3>1, <4>4, <5>2
      <4> QED BY <4>1, <4>3, <4>4
    <3> HIDE DEF Excused
    <3> QED BY <3>1
  <2>9. Settled' /\ Awaited'
    <3>1. \A e \in Downs : Closed(e) => Closed(e)'
      BY <2>2, <2>3
    <3>2. (\E e \in Downs : downs'[e] > 0) => (\E e \in Downs : downs[e] > 0)
      BY <2>2, <2>3
    <3>3. ClosingOrder' = ClosingOrder
      OBVIOUS
    <3> HIDE DEF Closed
    <3> QED BY <2>4, <3>1, <3>2
  <2>10. Emptied'
    <3>1. pc' = "returned" => \A y \in open' : Excused(y)'
      BY <2>3, <2>4, <2>6
    <3> HIDE DEF Excused
    <3> QED BY <2>3, <2>4, <3>1
  <2> QED BY <2>5, <2>7, <2>8, <2>9, <2>10
<1>23. CASE \E d \in Downs : Take(d)
  <2>1. PICK d \in Downs : Take(d)
    BY <1>23
  <2>2. PICK n \in 1..4 : n = downs[d]
    BY <2>1 DEF Take
  <2> DEFINE x == ClosingOrder[n]
  <2>3. /\ x \in Servers /\ taken[x] = NULL /\ taken' = [taken EXCEPT ![x] = d]
        /\ Place(x) = n
    <3>1. (n = 1 /\ x = "hooks") \/ (n = 2 /\ x = "ui") \/ x \in {"client", "app"}
      BY <2>2
    <3>2. x \in Servers /\ taken[x] = NULL /\ taken' = [taken EXCEPT ![x] = d]
      BY <2>1, <2>2 DEF Take
    <3> QED BY <3>1, <3>2
  <2>4. UNCHANGED <<stage, pc, open, cancel, listening, routes, downs, signal, flow, faults>>
    BY <2>1 DEF Take
  <2>5. \A y : Excused(y) => Excused(y)'
    BY <2>3, <2>4
  <2>6. StillOpen(x)'
    BY <2>2, <2>3, <2>4, LifecycleAssumption
  <2>7. Holding' /\ Shape'
    BY <2>3, <2>4, <2>6
  <2>8. Settled'
    BY <2>4
  <2>9. Passed' /\ Awaited' /\ Emptied'
    <3> HIDE DEF Excused
    <3> QED BY <2>4, <2>5
  <2> QED BY <2>7, <2>8, <2>9
<1>18. CASE ReturnEnded
  BY <1>18, ClosedEmpty DEF ReturnEnded
<1>19. CASE ReturnCancelled
  BY <1>19, ClosedEmpty DEF ReturnCancelled
<1>20. CASE ReturnFailed
  <2>1. /\ pc = "failing" /\ pc' = "returned" /\ open' \subseteq open
        /\ UNCHANGED <<stage, cancel, listening, routes, downs, taken, signal, flow, faults>>
    BY <1>20 DEF ReturnFailed
  <2>2. \A y \in open' : Excused(y)
    <3>1. CASE stage = 1
      BY <2>1, <3>1
    <3>2. CASE stage \in 2..3
      BY <1>20, <3>2 DEF ReturnFailed, Resources
    <3>3. CASE Closed("shutdown")
      BY <2>1, <3>3, ClosedEmpty
    <3> QED BY <1>20, <3>1, <3>2, <3>3 DEF ReturnFailed
  <2>3. \A y : Excused(y)' = Excused(y)
    BY <2>1
  <2>4. Shape' /\ Settled' /\ Holding' /\ Awaited'
    BY <2>1
  <2>5. Passed' /\ Emptied'
    <3> HIDE DEF Excused
    <3> QED BY <2>1, <2>2, <2>3
  <2> QED BY <2>4, <2>5
<1>21. CASE Answers \/ UNCHANGED vars
  BY <1>21 DEF Answers, GiveReply, HandleReply, AnswerReply, vars
<1> QED
  <2> USE DEF Boot, Terminal, Ends, Closing, Returns, CloseTaken, Next, Commits
  <2> HIDE DEF Tidy
  <2> QED BY <1>1, <1>22, <1>3, <1>4, <1>5, <1>6, <1>7, <1>8, <1>9, <1>10, <1>11, <1>12, <1>13,
             <1>14, <1>15, <1>16, <1>17, <1>18, <1>19, <1>20, <1>21, <1>23

(* No reason is taken back.                                                 *)
LEMMA ReasonsStay ==
    ASSUME Tidy, [Next]_vars
    PROVE  FairSignals \subseteq FairSignals'
<1> USE DEF mainVars, endVars, downVars, apiVars, Tidy, Shape
<1>1. cancel => cancel'
  <2>1. CASE Cancel
    BY <2>1 DEF Cancel
  <2>2. CASE Boot
    BY <2>2 DEF Boot, StageDone, StageFails, RequestRejected, Caught, CheckCancelled, Proceed
  <2>3. CASE Terminal
    BY <2>3 DEF Terminal, SignalTerminal, SendReply, ArtifactsFail, CommitTerminal
  <2>4. CASE Closing
    BY <2>4 DEF Closing, GraceEnds, BeginClosing, Resolve, Take, CloseNext, CloseTaken,
                CloseAfterFailure
  <2>5. CASE Returns \/ Answers \/ UNCHANGED vars
    BY <2>5 DEF Returns, ReturnEnded, ReturnCancelled, ReturnFailed,
                Answers, GiveReply, HandleReply, AnswerReply, vars
  <2>6. CASE Ends
    BY <2>1, <2>6 DEF Ends, TurnCompletes, Fails, Sigint, DropConnection
  <2>7. CloseTaken => Closing
    BY DEF CloseTaken, Closing
  <2> HIDE DEF Tidy, Shape, mainVars, endVars, downVars, apiVars
  <2> QED BY <2>1, <2>2, <2>3, <2>4, <2>5, <2>6, <2>7 DEF Next
<1>2. faults' \in {faults, faults + 1}
  <2>1. CASE Boot
    BY <2>1 DEF Boot, StageDone, StageFails, RequestRejected, Caught, CheckCancelled, Proceed
  <2>2. CASE Terminal
    BY <2>2 DEF Terminal, SignalTerminal, SendReply, ArtifactsFail, CommitTerminal
  <2>3. CASE Closing
    BY <2>3 DEF Closing, GraceEnds, BeginClosing, Resolve, Take, CloseNext, CloseTaken,
                CloseAfterFailure
  <2>4. CASE Returns \/ Answers \/ UNCHANGED vars
    BY <2>4 DEF Returns, ReturnEnded, ReturnCancelled, ReturnFailed,
                Answers, GiveReply, HandleReply, AnswerReply, vars
  <2>5. CASE Cancel
    BY <2>5 DEF Cancel
  <2>6. CASE Ends
    BY <2>5, <2>6 DEF Ends, TurnCompletes, Fails, Sigint, DropConnection
  <2>7. CloseTaken => Closing
    BY DEF CloseTaken, Closing
  <2> HIDE DEF Tidy, Shape, mainVars, endVars, downVars, apiVars
  <2> QED BY <2>1, <2>2, <2>3, <2>4, <2>5, <2>6, <2>7 DEF Next
<1>3. flow.terminal # NULL => flow'.terminal = flow.terminal
  <2>1. CASE Terminal
    BY <2>1 DEF Terminal, SignalTerminal, SendReply, ArtifactsFail, CommitTerminal, Flows
  <2>2. CASE Boot
    BY <2>2 DEF Boot, StageDone, StageFails, RequestRejected, Caught, CheckCancelled, Proceed
  <2>3. CASE Closing
    BY <2>3 DEF Closing, GraceEnds, BeginClosing, Resolve, Take, CloseNext, CloseTaken,
                CloseAfterFailure
  <2>4. CASE Returns \/ Answers \/ UNCHANGED vars
    BY <2>4 DEF Returns, ReturnEnded, ReturnCancelled, ReturnFailed,
                Answers, GiveReply, HandleReply, AnswerReply, vars
  <2>5. CASE Cancel
    BY <2>5 DEF Cancel
  <2>6. CASE Ends
    BY <2>5, <2>6 DEF Ends, TurnCompletes, Fails, Sigint, DropConnection
  <2>7. CloseTaken => Closing
    BY DEF CloseTaken, Closing
  <2> HIDE DEF Tidy, Shape, mainVars, endVars, downVars, apiVars
  <2> QED BY <2>1, <2>2, <2>3, <2>4, <2>5, <2>6, <2>7 DEF Next
<1>4. faults > 0 => faults' > 0
  BY <1>2
<1>5. ASSUME NEW res \in Signals, Justified(res) PROVE Justified(res)'
  <2>1. Status(res) \in {"completed", "cancelled", "failed"}
    BY DEF Status
  <2>2. Status(res)' = Status(res)
    BY DEF Status
  <2>3. PICK status \in {"completed", "cancelled", "failed"} : status = Status(res)
    BY <2>1
  <2>4. CASE status = "completed"
    BY <1>3, <1>5, <2>2, <2>3, <2>4, LifecycleAssumption DEF Justified
  <2>5. CASE status = "cancelled"
    BY <1>1, <1>5, <2>2, <2>3, <2>5 DEF Justified
  <2>6. CASE status = "failed"
    BY <1>3, <1>4, <1>5, <2>2, <2>3, <2>6, LifecycleAssumption DEF Justified
  <2> QED BY <2>3, <2>4, <2>5, <2>6
<1> QED BY <1>5 DEF FairSignals

(* What each end of the run is reported as.                                 *)
LEMMA SignalsFair ==
    /\ flow.terminal \in {"success", "failure"} => SignalOf("terminal") \in FairSignals
    /\ flow.terminal # NULL => SignalOf("drive") \in FairSignals
    /\ cancel => SignalOf("cancel") \in FairSignals
    /\ faults > 0 => /\ SignalOf("fatal") \in FairSignals /\ SignalOf("clear") \in FairSignals
                     /\ Signalled(1, NULL, NULL) \in FairSignals
<1>0. NULL \notin {"completed", "failed", "cancelled", "success", "failure"}
  BY LifecycleAssumption
<1>1. ASSUME NEW res \in Signals,
             \/ Status(res) = "completed" /\ flow.terminal # NULL
             \/ Status(res) = "cancelled" /\ cancel
             \/ Status(res) = "failed" /\ (faults > 0 \/ flow.terminal = "failure")
      PROVE  res \in FairSignals
  BY <1>1 DEF FairSignals, Justified
<1>2. ASSUME NEW exit \in {0, 1, 130}, NEW status \in {NULL, "cancelled"},
             NEW outcome \in {NULL, "success", "failure", "cancelled"}
      PROVE  /\ Signalled(exit, status, outcome) \in Signals
             /\ status = "cancelled" => Status(Signalled(exit, status, outcome)) = "cancelled"
             /\ status = NULL /\ outcome # "cancelled" =>
                   Status(Signalled(exit, status, outcome))
                      = IF exit = 0 /\ outcome # "failure" THEN "completed" ELSE "failed"
  BY <1>0 DEF Signalled, Signals, Status
<1>3. ASSUME flow.terminal \in {"success", "failure"} PROVE SignalOf("terminal") \in FairSignals
  <2>1. SignalOf("terminal") = Signalled(0, NULL, flow.terminal)
    BY DEF SignalOf
  <2>2. CASE flow.terminal = "success"
    BY <1>0, <1>1, <1>2, <2>1, <2>2
  <2>3. CASE flow.terminal = "failure"
    BY <1>0, <1>1, <1>2, <2>1, <2>3
  <2> QED BY <1>3, <2>2, <2>3
<1>4. ASSUME flow.terminal # NULL PROVE SignalOf("drive") \in FairSignals
  <2>1. SignalOf("drive") = Signalled(0, NULL, NULL)
    BY DEF SignalOf
  <2> QED BY <1>0, <1>1, <1>2, <1>4, <2>1
<1>5. ASSUME cancel PROVE SignalOf("cancel") \in FairSignals
  <2>1. SignalOf("cancel") = Signalled(130, "cancelled", "cancelled")
    BY DEF SignalOf
  <2> QED BY <1>1, <1>2, <1>5, <2>1
<1>6. ASSUME faults > 0 PROVE Signalled(1, NULL, NULL) \in FairSignals
  BY <1>0, <1>1, <1>2, <1>6
<1>7. SignalOf("fatal") = Signalled(1, NULL, NULL) /\ SignalOf("clear") = Signalled(1, NULL, NULL)
  BY DEF SignalOf
<1> QED BY <1>3, <1>4, <1>5, <1>6, <1>7

LEMMA UndisturbedStep ==
    ASSUME Tidy, Undisturbed, Reasons, [Next]_vars
    PROVE  Undisturbed'
<1> USE StageFacts DEF Tidy, Shape, Settled, Undisturbed, Booting, Disturbed, Ending, Pcs, Routes,
        Downs, mainVars, endVars, downVars, apiVars
<1>1. CASE StageDone
  BY <1>1 DEF StageDone, Opens
<1>2. CASE StageFails \/ RequestRejected
  BY <1>2 DEF StageFails, RequestRejected, Caught, CancelRun, Publish
<1>3. CASE CheckCancelled \/ Proceed
  BY <1>3 DEF CheckCancelled, Proceed, CancelRun, ResolveCancellation, Publish
<1>4. CASE Commits
  BY <1>4 DEF Commits, CommitTerminal
<1>5. CASE SignalTerminal
  <2>1. CASE flow.via = "submit"
    BY <1>5, <2>1 DEF SignalTerminal, Flows
  <2>2. CASE flow.via # "submit"
    <3>1. flow' = [flow EXCEPT !.signal = "sent", !.via = NULL] /\ flow \in Flows
      BY <1>5, <2>2 DEF SignalTerminal
    <3>2. flow'.signal = "sent"
      BY <3>1 DEF Flows
    <3>3. routes' = [routes EXCEPT !["terminal"] = "grace"]
      BY <1>5, <2>2 DEF SignalTerminal
    <3> QED BY <1>5, <3>2, <3>3 DEF SignalTerminal
  <2> QED BY <2>1, <2>2
<1>6. CASE SendReply
  BY <1>6 DEF SendReply, Flows
<1>7. CASE ArtifactsFail
  BY <1>7 DEF ArtifactsFail, Flows
<1>8. CASE TurnCompletes \/ Fails("fatal") \/ Fails("clear") \/ Sigint
  BY <1>8 DEF TurnCompletes, Fails, Publish, Sigint
<1>9. CASE Cancel
  BY <1>9 DEF Cancel, CancelRun, ResolveCancellation, Publish
<1>10. CASE DropConnection
  BY <1>10 DEF DropConnection
<1>11. CASE GraceEnds \/ CloseAfterFailure
  BY <1>11 DEF GraceEnds, CloseAfterFailure
<1>12. CASE \E r \in Routes : BeginClosing(r)
  <2>1. PICK r \in Routes : BeginClosing(r)
    BY <1>12
  <2>2. /\ UNCHANGED <<stage, pc, open, listening, flow, faults>>
        /\ routes' = [routes EXCEPT ![r] = "closing"] /\ routes[r] = "grace"
    BY <2>1 DEF BeginClosing
  <2>3. Booting => Disturbed
    BY <2>2 DEF Reasons, Causes
  <2>4. (Booting => Booting') /\ (Booting' => Booting) /\ (Disturbed => Disturbed')
    BY <2>2
  <2>5. \A q \in Routes : routes'[q] = "none" <=> routes[q] = "none"
    BY <2>2
  <2> QED BY <2>2, <2>3, <2>4, <2>5
<1>13. CASE \E r \in Routes : Resolve(r)
  BY <1>13 DEF Resolve
<1>14. CASE \E d \in Downs : CloseNext(d)
  <2>1. PICK d \in Downs : CloseNext(d)
    BY <1>14
  <2>2. /\ UNCHANGED <<stage, pc, listening, flow, faults, routes>>
        /\ downs[d] > 0
    BY <2>1 DEF CloseNext
  <2>3. Booting => Disturbed
    BY <2>2
  <2> QED BY <2>2, <2>3
<1>15. CASE \E d \in Downs : Take(d)
  BY <1>15 DEF Take
<1>16. CASE Returns
  BY <1>16 DEF Returns, ReturnEnded, ReturnCancelled, ReturnFailed
<1>17. CASE Answers \/ UNCHANGED vars
  BY <1>17 DEF Answers, GiveReply, HandleReply, AnswerReply, vars
<1> QED
  <2> HIDE DEF Tidy, Undisturbed
  <2> QED BY <1>1, <1>2, <1>3, <1>4, <1>5, <1>6, <1>7, <1>8, <1>9, <1>10, <1>11, <1>12, <1>13,
             <1>14, <1>15, <1>16, <1>17
          DEF Next, Boot, Terminal, Ends, Closing, CloseTaken, Commits

(* A run that its terminal has outrun stays so.                             *)
LEMMA OutrunStays ==
    ASSUME Tidy, Outrun, [Next]_vars
    PROVE  Outrun'
<1> USE StageFacts DEF Outrun, Tidy, Shape, Settled, mainVars, endVars, downVars, apiVars
<1>1. CASE Boot
  BY <1>1 DEF Boot, StageDone, StageFails, RequestRejected, CheckCancelled, Proceed
<1>2. CASE Terminal
  BY <1>2 DEF Terminal, SignalTerminal, SendReply, ArtifactsFail, CommitTerminal
<1>3. CASE Ends \/ Cancel
  BY <1>3 DEF Ends, TurnCompletes, Fails, Sigint, Cancel, DropConnection
<1>4. CASE Closing \/ CloseTaken
  BY <1>4 DEF Closing, CloseTaken, GraceEnds, BeginClosing, Resolve, Take, CloseNext, CloseAfterFailure
<1>5. CASE Returns \/ Answers \/ UNCHANGED vars
  BY <1>5 DEF Returns, ReturnEnded, ReturnCancelled, ReturnFailed, Answers, GiveReply, HandleReply,
     AnswerReply, vars
<1> QED BY <1>1, <1>2, <1>3, <1>4, <1>5 DEF Next

(* What has been signalled and returned keeps its reason.                   *)
LEMMA FairStays ==
    ASSUME Tidy, Reasons, [Next]_vars, UNCHANGED <<signal, result>>, pc = "returned" => pc' = "returned"
    PROVE  SignalFair' /\ ResultFair'
<1>1. FairSignals \subseteq FairSignals' /\ (Outrun => Outrun')
  BY ReasonsStay, OutrunStays
<1>2. Signalled(1, NULL, NULL)' = Signalled(1, NULL, NULL)
  BY DEF Signalled
<1> QED BY <1>1, <1>2 DEF Reasons, SignalFair, ResultFair

LEMMA ReasonsStep ==
    ASSUME Tidy, Undisturbed, Reasons, [Next]_vars
    PROVE  Reasons'
<1> USE StageFacts, FairStays DEF Causes, Shape, Routes, Downs, mainVars, endVars, downVars, apiVars
<1>0. Causes /\ SignalFair /\ ResultFair /\ Shape /\ Settled
  BY DEF Tidy, Reasons
<1> SUFFICES Causes' /\ SignalFair' /\ ResultFair'
  BY DEF Reasons
<1>1. CASE StageDone \/ StageFails
  BY <1>0, <1>1 DEF StageDone, StageFails, Caught, CancelRun, Publish
<1>2. CASE RequestRejected
  <2>1. faults > 0 \/ routes["terminal"] # "none"
    <3>1. /\ pc = "working" /\ "client" \notin open /\ stage \in 1..7
          /\ Stages[stage] \notin {Stages[1], Stages[2], Stages[3]}
      BY <1>0, <1>2 DEF RequestRejected
    <3>2. stage > 3
      BY <3>1
    <3> QED BY <3>1, <3>2 DEF Undisturbed, Booting, Disturbed
  <2>2. faults > 0 \/ Outrun
    BY <1>0, <1>2, <2>1 DEF RequestRejected, Undisturbed, Settled, Outrun, Ending
  <2> QED BY <1>0, <1>2, <2>2 DEF RequestRejected, Caught, CancelRun, Publish, Outrun
<1>3. CASE CheckCancelled \/ Proceed
  BY <1>0, <1>3 DEF CheckCancelled, Proceed, CancelRun, ResolveCancellation, Publish
<1>4. CASE Commits
  <2>1. PICK via \in {"submit", "choice", "event"}, o \in {"success", "failure"} :
            CommitTerminal(via, o)
    BY <1>4 DEF Commits
  <2>2. flow.terminal = NULL /\ flow'.terminal # NULL /\ ~Outrun
    BY <1>0, <2>1, LifecycleAssumption DEF CommitTerminal, Settled, Outrun
  <2> QED BY <1>0, <2>1, <2>2 DEF CommitTerminal
<1>5. CASE SignalTerminal \/ SendReply \/ ArtifactsFail
  <2>1. flow'.terminal = flow.terminal /\ flow.terminal # NULL
    BY <1>0, <1>5 DEF SignalTerminal, SendReply, ArtifactsFail, Flows, Settled
  <2>2. /\ routes' = routes \/ routes' = [routes EXCEPT !["terminal"] = "grace"]
        /\ UNCHANGED <<pc, stage, cancel, signal, result>> /\ (faults' = faults \/ faults' = faults + 1)
    BY <1>5 DEF SignalTerminal, SendReply, ArtifactsFail
  <2> QED BY <1>0, <2>1, <2>2, OutrunStays
<1>6. CASE TurnCompletes \/ Fails("fatal") \/ Fails("clear") \/ Sigint
  BY <1>0, <1>6 DEF TurnCompletes, Fails, Publish, Sigint, Outrun
<1>7. CASE Cancel
  BY <1>0, <1>7 DEF Cancel, CancelRun, ResolveCancellation, Publish, Outrun
<1>8. CASE DropConnection
  BY <1>0, <1>8 DEF DropConnection, Outrun
<1>9. CASE GraceEnds \/ CloseAfterFailure
  BY <1>0, <1>9 DEF GraceEnds, CloseAfterFailure, Outrun
<1>10. CASE \E r \in Routes : BeginClosing(r)
  BY <1>0, <1>10 DEF BeginClosing, Outrun
<1>11. CASE ~Over /\ \E r \in Routes : Resolve(r)
  <2>1. PICK r \in Routes : Resolve(r)
    BY <1>11
  <2>2. r = "sigint" \/ SignalOf(r) \in FairSignals
    BY <1>0, <2>1, SignalsFair, LifecycleAssumption DEF Resolve, Flows
  <2>3. FairSignals \subseteq FairSignals'
    BY ReasonsStay
  <2>4. SignalFair'
    BY <1>0, <2>1, <2>2, <2>3, LifecycleAssumption DEF Resolve, SignalFair
  <2>5. result = NULL
    BY <1>0, <1>11 DEF ResultFair, Over
  <2>6. Causes' /\ result' = result
    BY <1>0, <2>1 DEF Resolve, Outrun
  <2> QED BY <2>4, <2>5, <2>6 DEF ResultFair
<1>12. CASE \E d \in Downs : CloseNext(d) \/ Take(d)
  BY <1>0, <1>12 DEF CloseNext, Take, Outrun
<1>13. CASE ReturnEnded \/ ReturnCancelled \/ ReturnFailed
  <2>1. /\ pc' = "returned" /\ UNCHANGED <<stage, routes, flow, cancel, faults, signal>>
        /\ pc \in {"running", "cancelling", "failing"}
    BY <1>13 DEF ReturnEnded, ReturnCancelled, ReturnFailed
  <2>2. Causes'
    BY <1>0, <2>1
  <2>3. FairSignals \subseteq FairSignals' /\ (Outrun => Outrun')
    BY ReasonsStay, OutrunStays
  <2>4. SignalFair'
    BY <1>0, <2>1, <2>3 DEF SignalFair
  <2>5. result' \in FairSignals \/ (Outrun /\ result' = Signalled(1, NULL, NULL))
    <3>1. CASE ReturnEnded
      BY <1>0, <3>1 DEF ReturnEnded, SignalFair
    <3>2. CASE ReturnCancelled
      BY <1>0, <3>2, SignalsFair DEF ReturnCancelled
    <3>3. CASE ReturnFailed
      BY <1>0, <3>3, SignalsFair DEF ReturnFailed
    <3> QED BY <1>13, <3>1, <3>2, <3>3
  <2>6. Outrun /\ result' = Signalled(1, NULL, NULL) /\ result' = signal => signal = NULL \/ result' \in FairSignals
    BY <1>0 DEF SignalFair
  <2>7. Signalled(1, NULL, NULL)' = Signalled(1, NULL, NULL)
    BY DEF Signalled
  <2>8. result' # NULL /\ result' \notin FairSignals => result' # signal
    BY <1>0, <2>5, <2>6 DEF SignalFair
  <2> QED BY <2>1, <2>2, <2>3, <2>4, <2>5, <2>7, <2>8 DEF ResultFair
<1>14. CASE Answers \/ UNCHANGED vars
  BY <1>0, <1>14 DEF Answers, GiveReply, HandleReply, AnswerReply, vars, Outrun
<1> QED BY <1>1, <1>2, <1>3, <1>4, <1>5, <1>6, <1>7, <1>8, <1>9, <1>10, <1>11, <1>12, <1>13, <1>14
        DEF Next, Boot, Terminal, Ends, Closing, CloseTaken, Returns, Commits

LEMMA AtFirst == Init => Tidy /\ Undisturbed /\ Reasons
<1> SUFFICES ASSUME Init PROVE Tidy /\ Undisturbed /\ Reasons
  OBVIOUS
<1>1. Shape
  <2>1. flow \in Flows
    BY DEF Init, Flows
  <2>2. /\ routes \in [Routes -> {"none", "grace", "closing", "done"}] /\ downs \in [Downs -> 0..5]
        /\ taken \in [Servers -> Downs \union {NULL}]
    BY DEF Init
  <2>3. stage \in 1..Kickoff /\ open \subseteq Resources
    BY StageFacts DEF Init
  <2>4. pc \in Pcs /\ cancel \in BOOLEAN /\ faults \in Nat
    BY DEF Init, Pcs
  <2> QED BY <2>1, <2>2, <2>3, <2>4 DEF Shape
<1>2. Settled /\ Holding /\ Passed /\ Awaited /\ Emptied
  BY StageFacts DEF Init, Settled, Holding, Passed, Awaited, Emptied, Downs, Routes
<1>3. Reasons
  BY DEF Init, Reasons, Causes, SignalFair, ResultFair, Routes
<1>4. Undisturbed
  BY StageFacts DEF Init, Undisturbed, Booting, Disturbed, Downs, Routes
<1> QED BY <1>1, <1>2, <1>3, <1>4 DEF Tidy

(********************************* theorems *********************************)

(* However the run ended and at whatever stage, when the engine returns the *)
(* app server is down, and what is still open is a server in the hands of   *)
(* the other shutdown routine, which has come to it and is not past it, or  *)
(* the connection of a run that ended as it connected                       *)
(* (runtime/liveRunEngine.ts shutdown, closeOpenedResources).               *)
THEOREM ResourcesClosed == Spec => []NothingLeftOpen
<1>1. Tidy /\ [Next]_vars => Tidy'
  BY TidyStep
<1>2. ASSUME Tidy, pc = "returned", NEW x \in open
      PROVE  \/ x \in Servers /\ taken[x] # NULL /\ ClosingOrder[downs[taken[x]]] = x
             \/ x = "client" /\ Stages[stage] = "connect"
  <2>1. Excused(x)
    BY <1>2 DEF Tidy, Emptied
  <2>2. CASE StillOpen(x)
    <3>1. x = "hooks" \/ x = "ui"
      BY <2>2 DEF StillOpen, Servers
    <3> QED BY <2>2, <3>1, StageFacts DEF StillOpen, Place
  <2>3. CASE x = "client" /\ stage = 3
    BY <2>3, StageFacts
  <2> QED BY <2>1, <2>2, <2>3 DEF Excused
<1>3. Tidy => NothingLeftOpen
  BY <1>2 DEF NothingLeftOpen
<1> QED BY <1>1, <1>3, AtFirst, PTL DEF Spec

(* Whatever routes race to end the run, the status the handle reports has   *)
(* its reason (runtime/programmaticRun.ts mapEngineResult).                 *)
THEOREM StatusJustified == Spec => []ResultJustified
<1>1. Tidy /\ Undisturbed /\ Reasons /\ [Next]_vars => Tidy' /\ Undisturbed' /\ Reasons'
  BY TidyStep, UndisturbedStep, ReasonsStep
<1>2. ASSUME Reasons, result # NULL
      PROVE  CASE Status(result) = "completed" -> flow.terminal # NULL
               [] Status(result) = "cancelled" -> cancel
               [] Status(result) = "failed"    -> faults > 0 \/ flow.terminal = "failure" \/ Overtaken
  <2>1. CASE result \in FairSignals
    BY <2>1 DEF FairSignals, Justified, Status
  <2>2. CASE Outrun /\ result = Signalled(1, NULL, NULL) /\ result # signal
    <3>1. Status(result) = "failed"
      BY <2>2, LifecycleAssumption DEF Signalled, Status
    <3> QED BY <2>2, <3>1 DEF Outrun, Overtaken
  <2> QED BY <1>2, <2>1, <2>2 DEF Reasons, ResultFair
<1>3. Reasons => ResultJustified
  BY <1>2 DEF ResultJustified
<1> QED BY <1>1, <1>3, AtFirst, PTL DEF Spec

(* The final event of a run, once published, is the only one: the routes    *)
(* share one flag (runtime/liveRunEngine.ts publishRunTerminal,             *)
(* publishRunFailedOnce, publishRunCancelledOnce).                          *)
THEOREM FinalEventUnique == Spec => OneFinalEvent
<1> USE DEF mainVars, endVars, downVars, apiVars, Publish, CancelRun, ResolveCancellation
<1>1. ASSUME [Next]_vars, final # NULL PROVE final' = final
  <2>1. CASE Boot
    BY <1>1, <2>1 DEF Boot, StageDone, StageFails, RequestRejected, Caught, CheckCancelled, Proceed
  <2>2. CASE Terminal
    BY <1>1, <2>2 DEF Terminal, SignalTerminal, SendReply, ArtifactsFail, CommitTerminal
  <2>3. CASE Ends
    BY <1>1, <2>3 DEF Ends, TurnCompletes, Fails, Sigint, Cancel, DropConnection
  <2>4. CASE Closing
    BY <1>1, <2>4 DEF Closing, GraceEnds, BeginClosing, Resolve, Take, CloseNext, CloseTaken, CloseAfterFailure
  <2>5. CASE Returns
    BY <1>1, <2>5 DEF Returns, ReturnEnded, ReturnCancelled, ReturnFailed
  <2>6. CASE Answers \/ UNCHANGED vars
    BY <1>1, <2>6 DEF Answers, GiveReply, HandleReply, AnswerReply, vars
  <2>7. CASE Cancel
    BY <1>1, <2>7 DEF Cancel
  <2>8. CloseTaken => Closing
    BY DEF CloseTaken, Closing
  <2> HIDE DEF mainVars, endVars, downVars, apiVars, Publish, CancelRun, ResolveCancellation
  <2> QED BY <1>1, <2>1, <2>2, <2>3, <2>4, <2>5, <2>6, <2>7, <2>8 DEF Next
<1>2. [Next]_vars => [final # NULL => final' = final]_vars
  BY <1>1
<1> QED BY <1>2, PTL DEF Spec, OneFinalEvent

(********************* the transcript of the page: rows *********************)
CONSTANTS Paths, Pieces, PageLimit, MaxLog, MaxTrouble, MaxFlight
VARIABLES scope, trouble

LEMMA SeqFacts ==
    ASSUME NEW T, NEW s \in Seq(T)
    PROVE  /\ Len(s) \in Nat
           /\ \A i \in 1..Len(s) : s[i] \in T
OBVIOUS

LEMMA AppendFacts ==
    ASSUME NEW T, NEW s \in Seq(T), NEW e \in T
    PROVE  /\ Append(s, e) \in Seq(T) /\ Len(Append(s, e)) = Len(s) + 1
           /\ \A i \in 1..Len(s) : Append(s, e)[i] = s[i]
           /\ Append(s, e)[Len(s) + 1] = e
BY AppendProperties

LEMMA Greatest ==
    ASSUME NEW n \in Nat, NEW S, S \subseteq 1..n, S # {}
    PROVE  \E x \in S : \A y \in S : y <= x
<1> DEFINE lt == OpToRel(<, Nat)
           U == {k \in Nat : \A y \in S : y <= k}
<1>1. U \subseteq Nat /\ n \in U
  OBVIOUS
<1>2. PICK u \in U : \A k \in U : <<k, u>> \notin lt
  <2> HIDE DEF U, lt
  <2>1. IsWellFoundedOn(lt, Nat)
    BY NatLessThanWellFounded DEF lt
  <2> QED BY <1>1, <2>1, WFMin
<1>3. \A k \in U : ~(k < u)
  BY <1>1, <1>2 DEF OpToRel
<1>4. PICK s \in S : TRUE
  OBVIOUS
<1>5. u \in S
  <2>1. SUFFICES ASSUME u \notin S PROVE FALSE
    OBVIOUS
  <2>2. u - 1 \in U
    BY <1>4, <2>1
  <2> QED BY <1>3, <2>2
<1> QED BY <1>5

(* A run and a page of their own: journal is the run's log.                 *)
T == INSTANCE Transcript

RowEvents ==
    [kind : {"started", "delta", "completed", "state", "turnDone", "clear"},
     item : T!Items \union Paths \union {NONE}, text : Seq(Nat)]
RowEntries == [text : Seq(Nat), open : BOOLEAN, last : Nat, ids : SUBSET Nat]
Cursors == Nat \union {NONE}
Sources == {RECENT} \union 1..MaxLog
Loads == [cursor : Cursors, loading : BOOLEAN, loaded : BOOLEAN]
RowRequests == [source : Sources, cursor : Cursors, served : BOOLEAN, rows : SUBSET Nat, next : Cursors]

(* The events of an entry are events of its item.                           *)
Ids(t, k) == IF k \in DOMAIN t THEN t[k].ids ELSE {}
EntriesOf(t, n) ==
    /\ t \in [DOMAIN t -> RowEntries]
    /\ \A k \in DOMAIN t : \A d \in t[k].ids : d \in 1..n /\ T!Key(d) = k

Pending(i) == journal[i].item \in Tools /\ journal[i].kind = "started"

LEMMA RowEntry ==
    ASSUME journal \in Seq(RowEvents), NEW i \in 1..Len(journal), NEW u,
           u = T!transcriptItemFromCompactRow(i)
    PROVE  /\ EntriesOf(u, Len(journal))
           /\ u # T!Empty <=> DOMAIN u = {T!Key(i)}
           /\ u = T!Empty => DOMAIN u = {}
           /\ \A k \in DOMAIN u : k = T!Key(i) /\ u[k].ids = {i} /\ u[k].last = i /\ u[k].open = Pending(i)
<1>1. journal[i] \in RowEvents
  BY SeqFacts
<1>2. CASE journal[i].item \in Messages /\ journal[i].text = <<>>
  <2>1. u = T!Empty
    BY <1>2 DEF T!transcriptItemFromCompactRow
  <2>2. DOMAIN u = {}
    BY <2>1 DEF T!Empty
  <2> QED BY <2>1, <2>2 DEF EntriesOf, T!Empty
<1>3. CASE ~(journal[i].item \in Messages /\ journal[i].text = <<>>)
  <2>1. PICK e : e = [text |-> journal[i].text, open |-> Pending(i), last |-> i, ids |-> {i}]
    OBVIOUS
  <2>2. e \in RowEntries
    BY <1>1, <2>1 DEF RowEvents, RowEntries, Pending
  <2>3. u = [k \in {T!Key(i)} |-> e]
    BY <1>3, <2>1 DEF T!transcriptItemFromCompactRow, Pending
  <2>4. DOMAIN u = {T!Key(i)} /\ u[T!Key(i)] = e
    BY <2>3
  <2>5. u # T!Empty
    BY <2>4 DEF T!Empty
  <2>6. u \in [DOMAIN u -> RowEntries]
    BY <2>2, <2>3
  <2> QED BY <2>1, <2>4, <2>5, <2>6 DEF EntriesOf
<1> QED BY <1>2, <1>3

(* Merging u into t: no event is forgotten, and an entry of u overwrites one *)
(* that has not got its last event.                                         *)
MergeOf(m, t, u) ==
    /\ DOMAIN m = DOMAIN t \union DOMAIN u
    /\ \A k : Ids(m, k) = Ids(t, k) \union Ids(u, k)
    /\ \A k \in DOMAIN t : (k \in DOMAIN u => u[k].last \in t[k].ids) => m[k].open = t[k].open
    /\ \A k \in DOMAIN u : u[k].last \notin Ids(t, k) =>
           m[k].open = u[k].open /\ m[k].last = u[k].last

LEMMA MergeEntries ==
    ASSUME NEW n, NEW t, NEW u, EntriesOf(t, n), EntriesOf(u, n), NEW m,
           m = T!mergeTranscriptItems(t, u)
    PROVE  EntriesOf(m, n) /\ MergeOf(m, t, u)
<1>1. DOMAIN m = DOMAIN t \union DOMAIN u
  BY DEF T!mergeTranscriptItems
<1>2. ASSUME NEW k \in DOMAIN t, k \notin DOMAIN u PROVE m[k] = t[k]
  BY <1>2 DEF T!mergeTranscriptItems
<1>3. ASSUME NEW k \in DOMAIN u, k \notin DOMAIN t PROVE m[k] = u[k]
  BY <1>3 DEF T!mergeTranscriptItems
<1>4. ASSUME NEW k \in DOMAIN u, k \in DOMAIN t
      PROVE  m[k] = IF u[k].last \in t[k].ids
                    THEN [t[k] EXCEPT !.ids = t[k].ids \union u[k].ids]
                    ELSE [u[k] EXCEPT !.ids = u[k].ids \union t[k].ids]
  BY <1>4 DEF T!mergeTranscriptItems
<1>5. ASSUME NEW k \in DOMAIN m
      PROVE  /\ m[k] \in RowEntries /\ m[k].ids = Ids(t, k) \union Ids(u, k)
             /\ k \in DOMAIN t /\ (k \in DOMAIN u => u[k].last \in t[k].ids) => m[k].open = t[k].open
             /\ k \in DOMAIN u /\ u[k].last \notin Ids(t, k) =>
                  m[k].open = u[k].open /\ m[k].last = u[k].last
  <2>0. (k \in DOMAIN t => t[k] \in RowEntries) /\ (k \in DOMAIN u => u[k] \in RowEntries)
    BY DEF EntriesOf
  <2>1. CASE k \notin DOMAIN u
    BY <1>1, <1>2, <2>0, <2>1 DEF Ids
  <2>2. CASE k \notin DOMAIN t
    BY <1>1, <1>3, <2>0, <2>2 DEF Ids
  <2>3. CASE k \in DOMAIN t /\ k \in DOMAIN u
    <3>1. PICK a, b \in RowEntries : a = t[k] /\ b = u[k]
      BY <2>0, <2>3
    <3>2. Ids(t, k) = a.ids /\ Ids(u, k) = b.ids
      BY <2>3, <3>1 DEF Ids
    <3>3. m[k] = IF b.last \in a.ids THEN [a EXCEPT !.ids = a.ids \union b.ids]
                 ELSE [b EXCEPT !.ids = b.ids \union a.ids]
      BY <1>4, <2>3, <3>1
    <3>4. m[k] \in RowEntries /\ m[k].ids = a.ids \union b.ids
      BY <3>3 DEF RowEntries
    <3>5. m[k].open = (IF b.last \in a.ids THEN a ELSE b).open
      BY <3>3 DEF RowEntries
    <3>6. m[k].last = (IF b.last \in a.ids THEN a ELSE b).last
      BY <3>3 DEF RowEntries
    <3> QED BY <2>3, <3>1, <3>2, <3>4, <3>5, <3>6
  <2> QED BY <2>1, <2>2, <2>3
<1>6. m = [k \in DOMAIN m |-> m[k]]
  BY DEF T!mergeTranscriptItems
<1>7. m \in [DOMAIN m -> RowEntries]
  BY <1>5, <1>6
<1>8. ASSUME NEW k PROVE Ids(m, k) = Ids(t, k) \union Ids(u, k)
  BY <1>1, <1>5 DEF Ids
<1>9. ASSUME NEW k \in DOMAIN m, NEW d \in m[k].ids PROVE d \in 1..n /\ T!Key(d) = k
  BY <1>5 DEF Ids, EntriesOf
<1> QED BY <1>1, <1>5, <1>7, <1>8, <1>9 DEF EntriesOf, MergeOf

(* What the entries of a page of rows say: the last row of an item says what *)
(* its entry is, and the entry has the events of all of them.               *)
PageOf(P, rows) ==
    /\ EntriesOf(P, Len(journal))
    /\ \A k \in DOMAIN P :
          /\ P[k].last \in P[k].ids /\ P[k].open = Pending(P[k].last)
          /\ \A d \in P[k].ids : d \in rows /\ d <= P[k].last
    /\ \A i \in rows : T!transcriptItemFromCompactRow(i) # T!Empty => i \in Ids(P, T!Key(i))

LEMMA NoRows ==
    ASSUME journal \in Seq(RowEvents) PROVE PageOf(T!Empty, {}) /\ DOMAIN T!Empty = {}
<1>1. DOMAIN T!Empty = {} /\ T!Empty \in [DOMAIN T!Empty -> RowEntries]
  BY DEF T!Empty
<1> QED BY <1>1 DEF PageOf, EntriesOf

LEMMA PageGrows ==
    ASSUME journal \in Seq(RowEvents), NEW i \in 1..Len(journal), NEW R, R \subseteq 1..(i - 1),
           NEW P, PageOf(P, R), NEW m,
           m = T!mergeTranscriptItems(P, T!transcriptItemFromCompactRow(i))
    PROVE  PageOf(m, R \union {i})
<1>1. PICK u : u = T!transcriptItemFromCompactRow(i)
  OBVIOUS
<1>2. /\ EntriesOf(u, Len(journal))
      /\ u # T!Empty <=> DOMAIN u = {T!Key(i)}
      /\ u = T!Empty => DOMAIN u = {}
      /\ \A k \in DOMAIN u : k = T!Key(i) /\ u[k].ids = {i} /\ u[k].last = i /\ u[k].open = Pending(i)
  BY <1>1, RowEntry
<1>3. /\ EntriesOf(m, Len(journal)) /\ DOMAIN m = DOMAIN P \union DOMAIN u
      /\ \A k : Ids(m, k) = Ids(P, k) \union Ids(u, k)
      /\ \A k \in DOMAIN u : u[k].last \notin Ids(P, k) =>
             m[k].open = u[k].open /\ m[k].last = u[k].last
  <2>1. PICK n : n = Len(journal)
    OBVIOUS
  <2>2. EntriesOf(P, n) /\ EntriesOf(u, n) /\ m = T!mergeTranscriptItems(P, u)
    BY <1>1, <1>2, <2>1 DEF PageOf
  <2>3. EntriesOf(m, n) /\ MergeOf(m, P, u)
    BY <2>2, MergeEntries
  <2> QED BY <2>1, <2>3 DEF MergeOf
<1>4. \A k : i \notin Ids(P, k)
  BY DEF PageOf, Ids
<1>5. ASSUME NEW k \in DOMAIN m, k \notin DOMAIN u PROVE m[k] = P[k]
  BY <1>1, <1>3, <1>5 DEF T!mergeTranscriptItems
<1>6. ASSUME NEW k \in DOMAIN m
      PROVE  /\ m[k].last \in m[k].ids /\ m[k].open = Pending(m[k].last)
             /\ \A d \in m[k].ids : d \in R \union {i} /\ d <= m[k].last
  <2>1. CASE k \notin DOMAIN u
    BY <1>3, <1>5, <2>1 DEF PageOf
  <2>2. CASE k \in DOMAIN u
    <3>1. m[k].open = Pending(i) /\ m[k].last = i
      BY <1>2, <1>3, <1>4, <2>2
    <3>2. m[k].ids = Ids(P, k) \union {i}
      BY <1>2, <1>3, <2>2 DEF Ids
    <3>3. \A d \in Ids(P, k) : d \in R
      BY DEF PageOf, Ids
    <3>4. ASSUME NEW d \in Ids(P, k) PROVE d <= i
      <4>1. Len(journal) \in Nat
        BY SeqFacts
      <4>2. i \in Nat /\ d \in R
        BY <3>3, <4>1
      <4>3. d \in 1..(i - 1)
        BY <4>2
      <4> QED BY <4>2, <4>3
    <3> QED BY <3>1, <3>2, <3>3, <3>4
  <2> QED BY <2>1, <2>2
<1>7. ASSUME NEW j \in R \union {i}, T!transcriptItemFromCompactRow(j) # T!Empty
      PROVE  j \in Ids(m, T!Key(j))
  <2>1. CASE j = i
    <3>1. DOMAIN u = {T!Key(i)}
      BY <1>1, <1>2, <1>7, <2>1
    <3>2. Ids(u, T!Key(i)) = {i}
      BY <1>2, <3>1 DEF Ids
    <3> QED BY <1>3, <2>1, <3>2
  <2>2. CASE j \in R
    BY <1>3, <1>7, <2>2 DEF PageOf
  <2> QED BY <2>1, <2>2
<1> QED BY <1>3, <1>6, <1>7 DEF PageOf

(* Induction over the natural numbers, for a set in the place of a formula. *)
LEMMA Induction ==
    ASSUME NEW S, 0 \in S, \A n \in Nat : n \in S => n + 1 \in S
    PROVE  Nat \subseteq S
<1> SUFFICES ASSUME NEW n \in Nat \ S PROVE FALSE
  OBVIOUS
<1> DEFINE lt == OpToRel(<, Nat)
<1>1. PICK m \in Nat \ S : \A k \in Nat \ S : <<k, m>> \notin lt
  <2> HIDE DEF lt
  <2>1. IsWellFoundedOn(lt, Nat)
    BY NatLessThanWellFounded DEF lt
  <2>2. Nat \ S \subseteq Nat
    OBVIOUS
  <2> QED BY <2>1, <2>2, WFMin
<1>2. m # 0 /\ m \in Nat
  OBVIOUS
<1>3. m - 1 \in Nat /\ m - 1 < m /\ (m - 1) + 1 = m
  BY <1>2
<1>4. m - 1 \in S
  BY <1>1, <1>3 DEF OpToRel
<1> QED BY <1>3, <1>4

Follows(P, i, rows) ==
    IF i \in rows THEN T!mergeTranscriptItems(P, T!transcriptItemFromCompactRow(i)) ELSE P
Merges(f, n, rows) ==
    /\ f = [i \in 0..n |-> f[i]]
    /\ f[0] = T!Empty
    /\ \A i \in 1..n : f[i] = Follows(f[i - 1], i, rows)

LEMMA MergesExist ==
    ASSUME NEW rows, NEW n \in Nat
    PROVE  \E f : Merges(f, n, rows)
<1> DEFINE S == {m \in Nat : \E f : Merges(f, m, rows)}
<1>1. 0 \in S
  <2>1. PICK f : f = [i \in 0..0 |-> T!Empty]
    OBVIOUS
  <2>2. Merges(f, 0, rows)
    BY <2>1 DEF Merges
  <2> QED BY <2>2
<1>2. ASSUME NEW m \in Nat, m \in S PROVE m + 1 \in S
  <2>1. PICK f : Merges(f, m, rows)
    BY <1>2
  <2>2. PICK x : x = Follows(f[m], m + 1, rows)
    OBVIOUS
  <2>3. PICK g : g = [i \in 0..(m + 1) |-> IF i <= m THEN f[i] ELSE x]
    OBVIOUS
  <2>4. g[0] = T!Empty /\ g = [i \in 0..(m + 1) |-> g[i]]
    BY <2>1, <2>3 DEF Merges
  <2>5. ASSUME NEW i \in 1..(m + 1) PROVE g[i] = Follows(g[i - 1], i, rows)
    <3>1. i - 1 \in 0..m /\ i - 1 \in 0..(m + 1) /\ i \in 0..(m + 1)
      OBVIOUS
    <3>2. g[i - 1] = f[i - 1]
      BY <2>3, <3>1
    <3>3. CASE i <= m
      BY <2>1, <2>3, <3>1, <3>2, <3>3 DEF Merges
    <3>4. CASE ~(i <= m)
      <4>1. i = m + 1 /\ i - 1 = m
        BY <3>4
      <4> QED BY <2>2, <2>3, <3>1, <3>2, <3>4, <4>1
    <3> QED BY <3>3, <3>4
  <2>6. Merges(g, m + 1, rows)
    BY <2>4, <2>5 DEF Merges
  <2> QED BY <2>6
<1> HIDE DEF S
<1>3. Nat \subseteq S
  BY <1>1, <1>2, Induction
<1> QED BY <1>3 DEF S

LEMMA PageEntries ==
    ASSUME journal \in Seq(RowEvents), NEW rows, rows \subseteq 1..Len(journal), NEW P,
           P = T!transcriptFromCompactRows(rows)
    PROVE  PageOf(P, rows)
<1>1. PICK n \in Nat : n = Len(journal) /\ \A j \in rows : j \in 1..n
  <2>1. Len(journal) \in Nat
    BY SeqFacts
  <2> QED BY <2>1
<1>2. PICK g : /\ g = CHOOSE h : h = [i \in 0..n |->
                          IF i = 0 THEN T!Empty
                          ELSE IF i \in rows
                          THEN T!mergeTranscriptItems(h[i - 1], T!transcriptItemFromCompactRow(i))
                          ELSE h[i - 1]]
               /\ P = g[n]
  BY <1>1 DEF T!transcriptFromCompactRows
<1>3. PICK f : Merges(f, n, rows)
  BY MergesExist
<1>4. f = [i \in 0..n |->
              IF i = 0 THEN T!Empty
              ELSE IF i \in rows
              THEN T!mergeTranscriptItems(f[i - 1], T!transcriptItemFromCompactRow(i))
              ELSE f[i - 1]]
  <2>1. ASSUME NEW i \in 0..n
        PROVE  f[i] = IF i = 0 THEN T!Empty
                      ELSE IF i \in rows
                      THEN T!mergeTranscriptItems(f[i - 1], T!transcriptItemFromCompactRow(i))
                      ELSE f[i - 1]
    <3>1. CASE i = 0
      BY <1>3, <3>1 DEF Merges
    <3>2. CASE i # 0
      <4>1. i \in 1..n
        BY <3>2
      <4> QED BY <1>3, <3>2, <4>1 DEF Merges, Follows
    <3> QED BY <3>1, <3>2
  <2>2. f = [i \in 0..n |-> f[i]]
    BY <1>3 DEF Merges
  <2> QED BY <2>1, <2>2
<1>5. g = [i \in 0..n |->
              IF i = 0 THEN T!Empty
              ELSE IF i \in rows
              THEN T!mergeTranscriptItems(g[i - 1], T!transcriptItemFromCompactRow(i))
              ELSE g[i - 1]]
  BY <1>2, <1>4
<1> DEFINE S == {i \in Nat : i <= n => PageOf(g[i], {j \in rows : j <= i})}
<1>6. 0 \in S
  <2>1. {j \in rows : j <= 0} = {} /\ g[0] = T!Empty
    BY <1>1, <1>5
  <2> QED BY <2>1, NoRows
<1>7. ASSUME NEW i \in Nat, i \in S PROVE i + 1 \in S
  <2>1. SUFFICES ASSUME i + 1 <= n PROVE PageOf(g[i + 1], {j \in rows : j <= i + 1})
    OBVIOUS
  <2>2. i + 1 \in 1..n /\ i + 1 \in 1..Len(journal) /\ (i + 1) - 1 = i
    BY <1>1, <2>1
  <2>3. PICK R : R = {j \in rows : j <= i}
    OBVIOUS
  <2>4. PageOf(g[i], R)
    BY <1>7, <2>1, <2>3
  <2>0. \A j \in rows : j <= i + 1 <=> j <= i \/ j = i + 1
    BY <1>1
  <2>5. CASE i + 1 \in rows
    <3>0. R \subseteq 1..((i + 1) - 1)
      <4>1. SUFFICES ASSUME NEW j \in R PROVE j \in 1..((i + 1) - 1)
        OBVIOUS
      <4>2. j \in 1..n /\ j <= i
        BY <1>1, <2>3
      <4> QED BY <4>2
    <3>1. {j \in rows : j <= i + 1} = R \union {i + 1}
      BY <1>1, <2>0, <2>3, <2>5
    <3>2. g[i + 1] = T!mergeTranscriptItems(g[i], T!transcriptItemFromCompactRow(i + 1))
      BY <1>5, <2>2, <2>5
    <3> QED BY <2>2, <2>4, <3>0, <3>1, <3>2, PageGrows
  <2>6. CASE i + 1 \notin rows
    <3>1. {j \in rows : j <= i + 1} = R
      BY <1>1, <2>0, <2>3, <2>6
    <3>2. g[i + 1] = g[i]
      BY <1>5, <2>2, <2>6
    <3> QED BY <2>4, <3>1, <3>2
  <2> QED BY <2>5, <2>6
<1> HIDE DEF S
<1>8. Nat \subseteq S
  BY <1>6, <1>7, Induction
<1>9. PageOf(g[n], {j \in rows : j <= n})
  <2>1. n \in S /\ n <= n
    BY <1>8
  <2> QED BY <2>1 DEF S
<1>10. {j \in rows : j <= n} = rows
  <2>1. \A j \in rows : j <= n
    BY <1>1
  <2> QED BY <2>1
<1> QED BY <1>2, <1>9, <1>10

LEMMA SameCardinality == \A S : T!Cardinality(S) = Cardinality(S)
BY DEF T!Cardinality, Cardinality

(* The rows of a page are the first ones after the cursor, and its cursor is *)
(* the last of them unless they are all.                                     *)
FirstOf(answer, after, n) ==
    /\ answer.rows \subseteq after /\ after \subseteq 1..n
    /\ \A j \in answer.rows, i \in after : i < j => i \in answer.rows
    /\ answer.next = NONE => answer.rows = after
    /\ answer.next # NONE => answer.next \in answer.rows /\ \A i \in after : i <= answer.next => i \in answer.rows

LEMMA RowsOfPage ==
    ASSUME T!TranscriptAssumption, NEW n \in Nat, NEW source, NEW cursor \in Cursors,
           NEW answer, answer = T!rowPage(source, cursor, n), NEW after,
           after = {i \in T!RowsOf(source, n) : cursor = NONE \/ i > cursor}
    PROVE  FirstOf(answer, after, n)
<1>1. PICK B : B = [j \in after |-> {i \in after : i < j}]
  OBVIOUS
<1>2. PICK rows : rows = {j \in after : Cardinality(B[j]) < PageLimit}
  OBVIOUS
<1>3. after \subseteq 1..n
  BY DEF T!RowsOf
<1>4. answer = [rows |-> rows, next |-> IF rows = after THEN NONE ELSE T!Greatest(rows)]
  <2>1. {j \in after : T!Cardinality({i \in after : i < j}) < PageLimit} = rows
    BY <1>1, <1>2, SameCardinality
  <2> QED BY <2>1 DEF T!rowPage
<1>5. \A j \in after : IsFiniteSet(B[j]) /\ Cardinality(B[j]) \in Nat
  <2>1. ASSUME NEW j \in after PROVE IsFiniteSet(B[j])
    <3>1. B[j] \subseteq after
      BY <1>1
    <3>2. B[j] \subseteq 1..n
      BY <1>3, <3>1
    <3>3. IsFiniteSet(1..n)
      BY FS_Interval
    <3> QED BY <3>2, <3>3, FS_Subset
  <2> QED BY <2>1, FS_CardinalityType
<1>6. ASSUME NEW j \in rows, NEW i \in after, i < j PROVE i \in rows
  <2>1. B[i] \subseteq B[j] /\ j \in after
    <3>0. 1..n \subseteq Nat
      OBVIOUS
    <3>1. j \in after /\ i \in Nat /\ j \in Nat /\ \A x \in after : x \in Nat
      BY <1>2, <1>3, <3>0
    <3>2. \A x \in B[i] : x \in after /\ x < i
      BY <1>1
    <3>3. \A x \in after : x < i => x < j
      BY <1>6, <3>1
    <3>4. \A x \in after : x < j => x \in B[j]
      BY <1>1, <3>1
    <3> QED BY <3>1, <3>2, <3>3, <3>4
  <2>2. Cardinality(B[i]) <= Cardinality(B[j])
    BY <1>5, <2>1, FS_Subset
  <2>3. Cardinality(B[i]) \in Nat /\ Cardinality(B[j]) \in Nat /\ Cardinality(B[j]) < PageLimit /\ PageLimit \in Nat
    BY <1>2, <1>5, <2>1 DEF T!TranscriptAssumption
  <2> QED BY <1>2, <2>2, <2>3
<1>7. ASSUME rows # after PROVE rows # {}
  <2>1. PICK x \in after : x \notin rows
    BY <1>2, <1>7
  <2>2. PICK S : S = {n - y : y \in after}
    OBVIOUS
  <2>3. PICK U : U = {y + 1 : y \in S}
    OBVIOUS
  <2>4. U \subseteq 1..n /\ U # {}
    BY <1>3, <2>1, <2>2, <2>3
  <2>5. PICK u \in U : \A y \in U : y <= u
    BY <2>4, Greatest
  <2>6. PICK m \in after : u = (n - m) + 1
    BY <2>2, <2>3
  <2>7. ASSUME NEW i \in after PROVE ~(i < m)
    <3>1. (n - i) + 1 \in U
      BY <2>2, <2>3
    <3> QED BY <1>3, <2>5, <2>6, <3>1
  <2>8. B[m] = {}
    BY <1>1, <2>7
  <2>9. Cardinality(B[m]) = 0 /\ PageLimit \in Nat \ {0}
    BY <2>8, FS_EmptySet DEF T!TranscriptAssumption
  <2> QED BY <1>2, <2>9
<1>8. ASSUME rows # after
      PROVE  answer.next \in rows /\ \A i \in rows : i <= answer.next
  <2>1. rows \subseteq 1..n /\ rows # {}
    BY <1>2, <1>3, <1>7, <1>8
  <2>2. \E x \in rows : \A y \in rows : y <= x
    BY <2>1, Greatest
  <2>3. answer.next = T!Greatest(rows)
    BY <1>4, <1>8
  <2> QED BY <2>2, <2>3 DEF T!Greatest
<1>9. answer.next = NONE <=> rows = after
  <2>1. rows = after => answer.next = NONE
    BY <1>4
  <2>2. rows # after => answer.next \in Nat
    <3>1. \A x \in rows : x \in Nat
      BY <1>2, <1>3
    <3> QED BY <1>8, <3>1
  <2> QED BY <2>1, <2>2 DEF T!TranscriptAssumption
<1>10. ASSUME rows # after, NEW i \in after, i <= answer.next PROVE i \in rows
  <2>1. answer.next \in rows /\ answer.next \in Nat /\ i \in Nat
    BY <1>2, <1>3, <1>8, <1>10
  <2> QED BY <1>6, <1>10, <2>1
<1>11. answer.rows = rows /\ rows \subseteq after
  BY <1>2, <1>4
<1>12. answer.next # NONE => answer.next \in rows /\ \A i \in after : i <= answer.next => i \in rows
  BY <1>8, <1>9, <1>10
<1> QED BY <1>3, <1>6, <1>9, <1>11, <1>12 DEF FirstOf

LEMMA Removed ==
    ASSUME NEW S, NEW s \in Seq(S), NEW r \in 1..Len(s), NEW t, t = T!RemoveAt(s, r)
    PROVE  /\ t \in Seq(S) /\ Len(t) = Len(s) - 1
           /\ \A i \in 1..Len(t) : t[i] = s[IF i < r THEN i ELSE i + 1]
<1>1. Len(s) \in Nat /\ r \in Nat
  OBVIOUS
<1>2. PICK a : a = SubSeq(s, 1, r - 1)
  OBVIOUS
<1>3. PICK b : b = SubSeq(s, r + 1, Len(s))
  OBVIOUS
<1>4. t = a \o b
  BY <1>2, <1>3 DEF T!RemoveAt
<1>5. a \in Seq(S) /\ Len(a) = r - 1 /\ \A i \in 1..(r - 1) : a[i] = s[i]
  <2>1. \A i \in 1..(r - 1) : s[i] \in S
    OBVIOUS
  <2> QED BY <1>1, <1>2, <2>1, SubSeqProperties
<1>6. b \in Seq(S) /\ Len(b) = Len(s) - r /\ \A i \in 1..(Len(s) - r) : b[i] = s[r + i]
  <2>1. \A i \in (r + 1)..Len(s) : s[i] \in S
    OBVIOUS
  <2>2. b \in Seq(S) /\ Len(b) = (IF r + 1 <= Len(s) THEN Len(s) - (r + 1) + 1 ELSE 0)
    BY <1>1, <1>3, <2>1, SubSeqProperties
  <2>3. \A i \in 1..Len(b) : b[i] = s[(r + 1) + i - 1]
    BY <1>1, <1>3, <2>1, <2>2, SubSeqProperties
  <2>4. Len(b) = Len(s) - r
    BY <1>1, <2>2
  <2>5. ASSUME NEW i \in 1..(Len(s) - r) PROVE b[i] = s[r + i]
    <3>1. (r + 1) + i - 1 = r + i /\ i \in 1..Len(b)
      BY <1>1, <2>4
    <3> QED BY <2>3, <3>1
  <2> QED BY <2>2, <2>4, <2>5
<1>7. t \in Seq(S) /\ Len(t) = Len(a) + Len(b)
      /\ \A i \in 1..(Len(a) + Len(b)) : t[i] = IF i <= Len(a) THEN a[i] ELSE b[i - Len(a)]
  <2>1. /\ a \o b \in Seq(S) /\ Len(a \o b) = Len(a) + Len(b)
        /\ \A i \in 1..(Len(a) + Len(b)) : (a \o b)[i] = IF i <= Len(a) THEN a[i] ELSE b[i - Len(a)]
    BY <1>5, <1>6, ConcatProperties
  <2> QED BY <1>4, <2>1
<1>8. Len(t) = Len(s) - 1
  BY <1>1, <1>5, <1>6, <1>7
<1>9. ASSUME NEW i \in 1..Len(t) PROVE t[i] = s[IF i < r THEN i ELSE i + 1]
  <2>1. CASE i < r
    <3>1. i <= Len(a) /\ i \in 1..(r - 1) /\ i \in 1..(Len(a) + Len(b))
      BY <1>1, <1>5, <1>7, <2>1
    <3> QED BY <1>5, <1>7, <2>1, <3>1
  <2>2. CASE ~(i < r)
    <3>1. ~(i <= Len(a)) /\ i - Len(a) \in 1..(Len(s) - r) /\ i \in 1..(Len(a) + Len(b)) /\ r + (i - Len(a)) = i + 1
      BY <1>1, <1>5, <1>7, <1>8, <2>2
    <3> QED BY <1>6, <1>7, <2>2, <3>1
  <2> QED BY <2>1, <2>2
<1> QED BY <1>7, <1>8, <1>9

(******************** the transcript of the page: paging ********************)
HasRow(i) == i \in Ids(transcript, T!Key(i))
Missing(i) == T!Shows(i) /\ ~HasRow(i)
Held(n) == \A i \in 1..n : ~Missing(i)

RowsTyped ==
    /\ journal \in Seq(RowEvents) /\ Len(journal) <= MaxLog
    /\ EntriesOf(transcript, Len(journal))
    /\ latest \in 0..Len(journal)
    /\ pager \in [Sources -> Loads] /\ flight \in Seq(RowRequests)
    /\ late \subseteq Tools /\ overtaken \in BOOLEAN

(* The events of an item begin with its start, and a tool call has no other *)
(* than its start and its end.                                              *)
OfItem(i) ==
    /\ journal[i].kind \in {"started", "delta", "completed"} <=> journal[i].item \in T!Items
    /\ journal[i].item \in Tools => journal[i].kind # "delta"
    /\ journal[i].item \in T!Items => \E j \in 1..i : journal[j].kind = "started" /\ journal[j].item = journal[i].item
RowLog ==
    /\ \A i \in 1..Len(journal) : OfItem(i)
    /\ \A i, j \in 1..Len(journal) : i < j /\ journal[i].item = journal[j].item /\ journal[i].item \in Tools
           => journal[i].kind = "started" /\ journal[j].kind = "completed"

(* A request for the visit of a state is for one row, of a visit the page   *)
(* has been told of.                                                        *)
Asked(f) ==
    /\ f.rows \subseteq 1..Len(journal) /\ f.next \in {NONE} \union 1..Len(journal)
    /\ f.source # RECENT =>
           f.source \in 1..latest /\ journal[f.source].kind = "state" /\ f.rows \subseteq {f.source}
AllAsked == \A r \in 1..Len(flight) : Asked(flight[r])

(* Nothing up to the cursor is missing; an answer brings what is missing up *)
(* to where it ends, and never a row without those before it.               *)
CursorHeld(p) ==
    /\ ~p.loaded => p.cursor = NONE
    /\ p.cursor # NONE => p.cursor \in 1..Len(journal) /\ Held(p.cursor)
    /\ p.loaded /\ p.cursor = NONE => ~p.loading /\ Held(latest)
Fills(f) ==
    /\ \A i \in 1..Len(journal) :
           Missing(i) /\ (IF f.next = NONE THEN i <= latest ELSE i <= f.next) => i \in f.rows
    /\ \A j \in f.rows : \A i \in 1..j : Missing(i) => i \in f.rows
AnswersFill ==
    \A r \in 1..Len(flight) : flight[r].source = RECENT =>
        /\ pager[RECENT].loading /\ flight[r].cursor = pager[RECENT].cursor
        /\ flight[r].served => Fills(flight[r])
OneRecent ==
    \A r, s \in 1..Len(flight) : flight[r].source = RECENT /\ flight[s].source = RECENT => r = s

(* What an entry has of events the stream has yet to deliver came on pages  *)
(* that left nothing out before them.                                       *)
AheadHeld == \A k \in DOMAIN transcript : \A j \in transcript[k].ids : j > latest => Held(j)

(* A call that has its end is not open.                                     *)
CallsEnd ==
    \A k \in Tools \ late : k \in DOMAIN transcript =>
        \A j \in transcript[k].ids : journal[j].kind = "completed" => ~transcript[k].open

Paging == CursorHeld(pager[RECENT]) /\ AnswersFill /\ OneRecent /\ AheadHeld /\ CallsEnd
RowsInv == RowsTyped /\ RowLog /\ AllAsked /\ (~overtaken => Paging)

LEMMA SameEvent ==
    ASSUME NEW i, journal'[i] = journal[i]
    PROVE  T!Key(i)' = T!Key(i) /\ T!Shows(i)' = T!Shows(i) /\ Pending(i)' = Pending(i)
<1>1. T!Key(i)' = T!Key(i)
  BY DEF T!Key
<1>2. T!transcriptItemFromCompactRow(i)' = T!transcriptItemFromCompactRow(i)
  BY <1>1 DEF T!transcriptItemFromCompactRow
<1>3. T!Empty' = T!Empty
  BY DEF T!Empty
<1> QED BY <1>1, <1>2, <1>3 DEF T!Shows, Pending

LEMMA RowsInit ==
    ASSUME T!TranscriptAssumption, T!Init
    PROVE  RowsInv
<1>1. Len(journal) = 0 /\ journal \in Seq(RowEvents) /\ Len(flight) = 0 /\ flight \in Seq(RowRequests)
  BY DEF T!Init
<1>2. EntriesOf(transcript, Len(journal)) /\ DOMAIN transcript = {}
  BY <1>1, NoRows DEF T!Init, PageOf
<1>3. T!Fresh \in Loads /\ pager = [s \in Sources |-> T!Fresh]
  BY DEF T!Init, T!Fresh, Loads, Cursors, Sources
<1>4. RECENT \in Sources
  BY DEF Sources
<1>5. RowsTyped
  BY <1>1, <1>2, <1>3 DEF RowsTyped, T!Init, T!TranscriptAssumption
<1>6. CursorHeld(pager[RECENT])
  BY <1>3, <1>4 DEF CursorHeld, T!Fresh
<1> QED BY <1>1, <1>2, <1>5, <1>6
        DEF RowsInv, RowLog, AllAsked, Paging, AnswersFill, OneRecent, AheadHeld, CallsEnd

(* The log gains an event.                                                  *)
LEMMA LogGrows ==
    ASSUME T!TranscriptAssumption, RowsInv, NEW e \in RowEvents, T!recordRunEvent(e)
    PROVE  /\ RowsTyped' /\ AllAsked' /\ (~overtaken' => Paging')
           /\ Len(journal) \in Nat /\ Len(journal') = Len(journal) + 1 /\ journal'[Len(journal) + 1] = e
           /\ \A i \in 1..Len(journal) : journal'[i] = journal[i]
<1>1. /\ journal' \in Seq(RowEvents) /\ Len(journal) \in Nat /\ Len(journal') = Len(journal) + 1
      /\ journal'[Len(journal) + 1] = e /\ \A i \in 1..Len(journal) : journal'[i] = journal[i]
      /\ Len(journal) < MaxLog
  BY AppendFacts, SeqFacts DEF T!recordRunEvent, RowsInv, RowsTyped
<1>2. /\ transcript' = transcript /\ latest' = latest /\ scope' = scope /\ pager' = pager
      /\ flight' = flight /\ overtaken' = overtaken /\ late' = late
  BY DEF T!recordRunEvent
<1>3. \A i \in 1..Len(journal) : T!Key(i)' = T!Key(i) /\ T!Shows(i)' = T!Shows(i)
  BY <1>1, SameEvent
<1>4. \A i \in 1..Len(journal) : Missing(i)' <=> Missing(i)
  BY <1>2, <1>3 DEF Missing, HasRow, Ids
<1>5. \A n \in 0..Len(journal) : Held(n)' <=> Held(n)
  BY <1>1, <1>4 DEF Held
<1>6. EntriesOf(transcript, Len(journal))'
  <2>1. EntriesOf(transcript, Len(journal))
    BY DEF RowsInv, RowsTyped
  <2>2. ASSUME NEW k \in DOMAIN transcript, NEW d \in transcript[k].ids
        PROVE  d \in 1..Len(journal') /\ T!Key(d)' = k
    <3>1. d \in 1..Len(journal) /\ T!Key(d) = k
      BY <2>1, <2>2 DEF EntriesOf
    <3> QED BY <1>1, <1>3, <3>1
  <2> QED BY <1>2, <2>1, <2>2 DEF EntriesOf
<1>7. RowsTyped'
  BY <1>1, <1>2, <1>6 DEF RowsInv, RowsTyped
<1>8. AllAsked'
  <2>1. ASSUME NEW r \in 1..Len(flight) PROVE Asked(flight[r])'
    <3>1. Asked(flight[r]) /\ latest \in 0..Len(journal)
      BY DEF RowsInv, AllAsked, RowsTyped
    <3>2. PICK f : f = flight[r]
      OBVIOUS
    <3>3. f.source # RECENT => f.source \in 1..Len(journal)
      BY <1>1, <3>1, <3>2 DEF Asked
    <3>4. f.rows \subseteq 1..Len(journal') /\ f.next \in {NONE} \union 1..Len(journal')
      BY <1>1, <3>1, <3>2 DEF Asked
    <3> QED BY <1>1, <1>2, <3>1, <3>2, <3>3, <3>4 DEF Asked
  <2> QED BY <1>2, <2>1 DEF AllAsked
<1>9. ASSUME ~overtaken' PROVE Paging'
  <2>1. Paging /\ latest \in 0..Len(journal)
    BY <1>2, <1>9 DEF RowsInv, RowsTyped
  <2>2. CursorHeld(pager[RECENT])'
    BY <1>1, <1>2, <1>5, <2>1 DEF Paging, CursorHeld
  <2>3. ASSUME NEW r \in 1..Len(flight), flight[r].source = RECENT, flight[r].served, Fills(flight[r])
        PROVE  Fills(flight[r])'
    <3>1. PICK f : f = flight[r]
      OBVIOUS
    <3>2. f.next \in {NONE} \union 1..Len(journal) /\ f.rows \subseteq 1..Len(journal) /\ f' = f
      BY <3>1 DEF RowsInv, AllAsked, Asked
    <3>3. ASSUME NEW i \in 1..Len(journal'), Missing(i)', IF f.next = NONE THEN i <= latest ELSE i <= f.next
          PROVE  i \in f.rows
      <4>1. i \in 1..Len(journal)
        BY <1>1, <2>1, <3>2, <3>3
      <4> QED BY <1>4, <2>3, <3>1, <3>3, <4>1 DEF Fills
    <3>4. ASSUME NEW j \in f.rows, NEW i \in 1..j, Missing(i)' PROVE i \in f.rows
      <4>1. i \in 1..Len(journal)
        BY <1>1, <3>2
      <4> QED BY <1>4, <2>3, <3>1, <3>4, <4>1 DEF Fills
    <3> QED BY <1>2, <3>1, <3>3, <3>4 DEF Fills
  <2>4. AnswersFill'
    BY <1>2, <2>1, <2>3 DEF Paging, AnswersFill
  <2>5. OneRecent'
    BY <1>2, <2>1 DEF Paging, OneRecent
  <2>6. ASSUME NEW k \in DOMAIN transcript, NEW j \in transcript[k].ids
        PROVE  /\ j \in 1..Len(journal) /\ journal'[j] = journal[j]
               /\ j > latest => Held(j)'
    <3>1. j \in 1..Len(journal)
      BY DEF RowsInv, RowsTyped, EntriesOf
    <3> QED BY <1>1, <1>5, <2>1, <3>1 DEF Paging, AheadHeld
  <2>7. AheadHeld'
    BY <1>2, <2>6 DEF AheadHeld
  <2>8. CallsEnd'
    BY <1>2, <2>1, <2>6 DEF Paging, CallsEnd
  <2> QED BY <2>2, <2>4, <2>5, <2>7, <2>8 DEF Paging
<1> QED BY <1>1, <1>7, <1>8, <1>9

(* An event continues the log of a tool call as its start or as its end.    *)
Continues(e) ==
    /\ e.kind \in {"started", "delta", "completed"} <=> e.item \in T!Items
    /\ e.item \in Tools => e.kind # "delta"
    /\ e.item \in T!Items /\ e.kind # "started" =>
           \E j \in 1..Len(journal) : journal[j].kind = "started" /\ journal[j].item = e.item
    /\ e.item \in Tools => \A i \in 1..Len(journal) :
           journal[i].item = e.item => journal[i].kind = "started" /\ e.kind = "completed"

LEMMA LogContinues ==
    ASSUME T!TranscriptAssumption, RowsInv, NEW e \in RowEvents, T!recordRunEvent(e), Continues(e)
    PROVE  RowsInv'
<1>1. /\ RowsTyped' /\ AllAsked' /\ (~overtaken' => Paging')
      /\ Len(journal) \in Nat /\ Len(journal') = Len(journal) + 1 /\ journal'[Len(journal) + 1] = e
      /\ \A i \in 1..Len(journal) : journal'[i] = journal[i]
  BY LogGrows
<1>2. ASSUME NEW i \in 1..Len(journal') PROVE OfItem(i)'
  <2>1. CASE i \in 1..Len(journal)
    <3>1. OfItem(i)
      BY <2>1 DEF RowsInv, RowLog
    <3>2. \A j \in 1..i : j \in 1..Len(journal)
      BY <1>1, <2>1
    <3> QED BY <1>1, <2>1, <3>1, <3>2 DEF OfItem
  <2>2. CASE i = Len(journal) + 1
    <3>1. journal'[i] = e
      BY <1>1, <2>2
    <3>2. \A j \in 1..Len(journal) : j \in 1..i
      BY <1>1, <2>2
    <3>3. i \in 1..i
      BY <1>1, <2>2
    <3> QED BY <1>1, <3>1, <3>2, <3>3 DEF OfItem, Continues
  <2> QED BY <1>1, <2>1, <2>2
<1>3. ASSUME NEW i \in 1..Len(journal'), NEW j \in 1..Len(journal'), i < j,
             journal'[i].item = journal'[j].item, journal'[i].item \in Tools
      PROVE  journal'[i].kind = "started" /\ journal'[j].kind = "completed"
  <2>1. i \in 1..Len(journal)
    BY <1>1, <1>3
  <2>2. CASE j \in 1..Len(journal)
    BY <1>1, <1>3, <2>1, <2>2 DEF RowsInv, RowLog
  <2>3. CASE j = Len(journal) + 1
    BY <1>1, <1>3, <2>1, <2>3 DEF Continues
  <2> QED BY <1>1, <2>2, <2>3
<1>4. RowLog'
  BY <1>2, <1>3 DEF RowLog
<1> QED BY <1>1, <1>4 DEF RowsInv

LEMMA RunsKeep ==
    ASSUME T!TranscriptAssumption, RowsInv, T!Runs
    PROVE  RowsInv'
<1>0. \A i \in 1..Len(journal) : OfItem(i)
  BY DEF RowsInv, RowLog
<1>1. <<>> \in Seq(Nat) /\ T!Items = Messages \union Tools /\ DOMAIN journal = 1..Len(journal)
  <2>1. journal \in Seq(RowEvents)
    BY DEF RowsInv, RowsTyped
  <2> QED BY <2>1 DEF T!Items
<1>2. CASE T!StartItem
  <2>1. PICK k \in T!Items : T!Events("started", k) = {} /\ T!recordRunEvent(T!Event("started", k, <<>>))
    BY <1>2 DEF T!StartItem
  <2> DEFINE e == T!Event("started", k, <<>>)
  <2>2. e \in RowEvents /\ e.kind = "started" /\ e.item = k
    BY DEF T!Event, RowEvents
  <2> HIDE DEF e
  <2>3. \A i \in 1..Len(journal) : journal[i].item # k
    BY <1>0, <1>1, <2>1 DEF OfItem, T!Events
  <2>4. Continues(e)
    BY <2>2, <2>3 DEF Continues
  <2>5. T!recordRunEvent(e)
    BY <2>1 DEF e
  <2> QED BY <2>2, <2>4, <2>5, LogContinues
<1>3. CASE T!publishAgentMessageDelta
  <2>1. PICK m \in Messages : \E n : /\ T!InProgress(m) /\ n = T!Cardinality(T!Events("delta", m)) + 1
                                     /\ T!recordRunEvent(T!Event("delta", m, <<n>>))
    BY <1>3 DEF T!publishAgentMessageDelta
  <2>0. PICK n : /\ n = T!Cardinality(T!Events("delta", m)) + 1
                 /\ T!recordRunEvent(T!Event("delta", m, <<n>>))
    BY <2>1
  <2> DEFINE e == T!Event("delta", m, <<n>>)
  <2>2. n \in Nat
    <3>1. T!Events("delta", m) \subseteq 1..Len(journal) /\ Len(journal) \in Nat
      BY <1>1, SeqFacts DEF T!Events, RowsInv, RowsTyped
    <3>2. IsFiniteSet(T!Events("delta", m))
      <4>1. IsFiniteSet(1..Len(journal))
        BY <3>1, FS_Interval
      <4> QED BY <3>1, <4>1, FS_Subset
    <3>3. Cardinality(T!Events("delta", m)) \in Nat
      BY <3>2, FS_CardinalityType
    <3> QED BY <2>0, <3>3, SameCardinality
  <2>3. e \in RowEvents /\ e.kind = "delta" /\ e.item = m
    <3>1. <<n>> \in Seq(Nat)
      BY <2>2
    <3> QED BY <1>1, <3>1 DEF T!Event, RowEvents
  <2> HIDE DEF e
  <2>4. m \notin Tools /\ \E j \in 1..Len(journal) : journal[j].kind = "started" /\ journal[j].item = m
    BY <1>1, <2>1 DEF T!InProgress, T!Events, T!TranscriptAssumption
  <2>5. Continues(e)
    BY <1>1, <2>3, <2>4 DEF Continues
  <2>6. T!recordRunEvent(e)
    BY <2>0 DEF e
  <2> QED BY <2>3, <2>5, <2>6, LogContinues
<1>4. CASE T!CompleteItem
  <2>1. PICK k \in T!Items :
            /\ T!InProgress(k) /\ T!Events("completed", k) = {}
            /\ T!recordRunEvent(T!Event("completed", k, IF k \in Messages THEN T!Whole ELSE <<>>))
    BY <1>4 DEF T!CompleteItem
  <2>0. PICK text : /\ text = IF k \in Messages THEN T!Whole ELSE <<>>
                    /\ T!recordRunEvent(T!Event("completed", k, text))
    BY <2>1
  <2> DEFINE e == T!Event("completed", k, text)
  <2>2. e \in RowEvents /\ e.kind = "completed" /\ e.item = k
    <3>1. T!Whole \in Seq(Nat)
      <4>1. Pieces \in Nat
        BY DEF T!TranscriptAssumption
      <4> QED BY <4>1 DEF T!Whole
    <3>2. text \in Seq(Nat)
      BY <1>1, <2>0, <3>1
    <3> QED BY <3>2 DEF T!Event, RowEvents
  <2> HIDE DEF e
  <2>3. \E j \in 1..Len(journal) : journal[j].kind = "started" /\ journal[j].item = k
    BY <1>1, <2>1 DEF T!InProgress, T!Events
  <2>4. \A i \in 1..Len(journal) : journal[i].item = k => journal[i].kind # "completed"
    BY <1>1, <2>1 DEF T!Events
  <2>5. k \in Tools => \A i \in 1..Len(journal) : journal[i].item = k => journal[i].kind = "started"
    BY <1>0, <2>4 DEF OfItem
  <2>6. Continues(e)
    BY <2>2, <2>3, <2>5 DEF Continues
  <2>7. T!recordRunEvent(e)
    BY <2>0 DEF e
  <2> QED BY <2>2, <2>6, <2>7, LogContinues
<1>5. ASSUME NEW kind \in {"state", "turnDone", "clear"}, NEW item \in Paths \union {NONE},
             T!recordRunEvent(T!Event(kind, item, <<>>))
      PROVE  RowsInv'
  <2>1. PICK e : e = T!Event(kind, item, <<>>)
    OBVIOUS
  <2>2. e \in RowEvents /\ e.kind = kind /\ e.item = item
    BY <2>1 DEF T!Event, RowEvents
  <2>3. item \notin T!Items
    BY DEF T!TranscriptAssumption
  <2>4. Continues(e)
    BY <1>1, <2>2, <2>3 DEF Continues
  <2> QED BY <1>5, <2>1, <2>2, <2>4, LogContinues
<1>6. CASE T!ChangeState
  BY <1>5, <1>6 DEF T!ChangeState
<1>7. CASE T!CompleteTurn
  BY <1>5, <1>7 DEF T!CompleteTurn
<1>8. CASE T!ClearThread
  BY <1>5, <1>8 DEF T!ClearThread
<1> QED BY <1>2, <1>3, <1>4, <1>6, <1>7, <1>8 DEF T!Runs

LEMMA KeyFacts ==
    ASSUME T!TranscriptAssumption, RowsInv, NEW i \in 1..Len(journal)
    PROVE  /\ journal[i].item \in T!Items => T!Key(i) = journal[i].item
           /\ journal[i].item \notin T!Items => T!Key(i) = i
           /\ \A k \in Tools : T!Key(i) = k => journal[i].item = k
           /\ T!Key(i) \in Nat => T!Key(i) = i
           /\ journal[i].item \in Tools => T!Shows(i)
           /\ i \in Nat
<1>1. i \in Nat
  BY SeqFacts DEF RowsInv, RowsTyped
<1>2. i \notin T!Items /\ Tools \subseteq T!Items /\ T!Items \intersect Nat = {} /\ Messages \intersect Tools = {}
  BY <1>1 DEF T!TranscriptAssumption, T!Items
<1>3. ASSUME journal[i].item \in Tools PROVE T!Shows(i)
  <2>1. journal[i].kind # "turnDone"
    BY <1>2, <1>3 DEF RowsInv, RowLog, OfItem
  <2>2. T!transcriptItemFromCompactRow(i) =
           [k \in {T!Key(i)} |-> [text |-> journal[i].text,
                                  open |-> journal[i].item \in Tools /\ journal[i].kind = "started",
                                  last |-> i, ids |-> {i}]]
    BY <1>2, <1>3 DEF T!transcriptItemFromCompactRow
  <2>3. DOMAIN T!transcriptItemFromCompactRow(i) = {T!Key(i)} /\ DOMAIN T!Empty = {}
    BY <2>2 DEF T!Empty
  <2> QED BY <2>1, <2>3 DEF T!Shows
<1> QED BY <1>1, <1>2, <1>3 DEF T!Key

(* What the stream adds to the entries.                                     *)
Adds(i) ==
    /\ EntriesOf(transcript', Len(journal))
    /\ \A k : Ids(transcript, k) \subseteq Ids(transcript', k)
              /\ Ids(transcript', k) \subseteq Ids(transcript, k) \union {i}
    /\ T!Shows(i) => i \in Ids(transcript', T!Key(i))
    /\ \A k \in Tools : k \in DOMAIN transcript' =>
          \/ /\ k \in DOMAIN transcript /\ transcript'[k].open = transcript[k].open
             /\ Ids(transcript', k) = Ids(transcript, k)
          \/ journal[i].item = k /\ i \notin Ids(transcript, k) /\ transcript'[k].open = Pending(i)

LEMMA AppendAdds ==
    ASSUME T!TranscriptAssumption, RowsInv, NEW i \in 1..Len(journal), transcript' = T!appendRunEventRow(i)
    PROVE  Adds(i)
<1>1. PICK u : u = T!transcriptItemFromCompactRow(i)
  OBVIOUS
<1>2. /\ EntriesOf(u, Len(journal))
      /\ u # T!Empty <=> DOMAIN u = {T!Key(i)}
      /\ u = T!Empty => DOMAIN u = {}
      /\ \A k \in DOMAIN u : k = T!Key(i) /\ u[k].ids = {i} /\ u[k].last = i /\ u[k].open = Pending(i)
  BY <1>1, RowEntry DEF RowsInv, RowsTyped
<1>3. PICK n, m : n = Len(journal) /\ m = transcript'
  OBVIOUS
<1>4. EntriesOf(transcript, n) /\ EntriesOf(u, n) /\ m = T!mergeTranscriptItems(transcript, u)
  BY <1>1, <1>2, <1>3 DEF RowsInv, RowsTyped, T!appendRunEventRow
<1>5. EntriesOf(m, n) /\ MergeOf(m, transcript, u)
  BY <1>4, MergeEntries
<1>6. \A k : Ids(m, k) = Ids(transcript, k) \union Ids(u, k)
  BY <1>5 DEF MergeOf
<1>7. \A k : Ids(u, k) \subseteq {i}
  BY <1>2 DEF Ids
<1>8. T!Shows(i) => i \in Ids(m, T!Key(i))
  BY <1>1, <1>2, <1>6 DEF T!Shows, Ids
<1>9. ASSUME NEW k \in Tools, k \in DOMAIN m
      PROVE  \/ /\ k \in DOMAIN transcript /\ m[k].open = transcript[k].open
                /\ Ids(m, k) = Ids(transcript, k)
             \/ journal[i].item = k /\ i \notin Ids(transcript, k) /\ m[k].open = Pending(i)
  <2>1. CASE k \notin DOMAIN u
    <3>1. k \in DOMAIN transcript /\ Ids(u, k) = {}
      BY <1>5, <1>9, <2>1 DEF MergeOf, Ids
    <3> QED BY <1>5, <1>6, <2>1, <3>1 DEF MergeOf
  <2>2. CASE k \in DOMAIN u
    <3>1. journal[i].item = k /\ u[k].last = i /\ Ids(u, k) = {i} /\ u[k].open = Pending(i)
      BY <1>2, <2>2, KeyFacts DEF Ids
    <3>2. CASE i \in Ids(transcript, k)
      <4>1. k \in DOMAIN transcript /\ u[k].last \in transcript[k].ids
        BY <3>1, <3>2 DEF Ids
      <4>2. Ids(m, k) = Ids(transcript, k)
        <5>1. PICK A, B : A = Ids(transcript, k) /\ B = Ids(m, k)
          OBVIOUS
        <5>2. B = A \union {i} /\ i \in A
          BY <1>6, <3>1, <3>2, <5>1
        <5> QED BY <5>1, <5>2
      <4> QED BY <1>5, <4>1, <4>2 DEF MergeOf
    <3>3. CASE i \notin Ids(transcript, k)
      BY <1>5, <2>2, <3>1, <3>3 DEF MergeOf
    <3> QED BY <3>2, <3>3
  <2> QED BY <2>1, <2>2
<1> QED BY <1>3, <1>5, <1>6, <1>7, <1>8, <1>9 DEF Adds

LEMMA DeltaAdds ==
    ASSUME T!TranscriptAssumption, RowsInv, NEW i \in 1..Len(journal), journal[i].kind = "delta",
           transcript' = T!applyDelta(i)
    PROVE  Adds(i)
<1>1. PICK key : key = T!Key(i)
  OBVIOUS
<1>2. key = journal[i].item /\ key \notin Tools /\ journal[i].text \in Seq(Nat) /\ i \in Nat
  <2>1. journal[i].item \in T!Items /\ journal[i].item \notin Tools
    BY DEF RowsInv, RowLog, OfItem
  <2>2. journal[i] \in RowEvents
    BY SeqFacts DEF RowsInv, RowsTyped
  <2> QED BY <1>1, <2>1, <2>2, KeyFacts DEF RowEvents
<1>3. EntriesOf(transcript, Len(journal))
  BY DEF RowsInv, RowsTyped
<1>4. PICK e : e = [text |-> (IF key \in DOMAIN transcript THEN transcript[key]
                              ELSE [text |-> <<>>, ids |-> {}]).text \o journal[i].text,
                    open |-> TRUE, last |-> i,
                    ids |-> (IF key \in DOMAIN transcript THEN transcript[key]
                             ELSE [text |-> <<>>, ids |-> {}]).ids \union {i}]
  OBVIOUS
<1>5. transcript' = [k \in DOMAIN transcript \union {key} |-> IF k # key THEN transcript[k] ELSE e]
  BY <1>1, <1>4 DEF T!applyDelta
<1>6. e \in RowEntries /\ e.ids = Ids(transcript, key) \union {i}
  <2>1. PICK s : s = (IF key \in DOMAIN transcript THEN transcript[key] ELSE [text |-> <<>>, ids |-> {}]).text
    OBVIOUS
  <2>2. s \in Seq(Nat)
    BY <1>3, <2>1 DEF EntriesOf, RowEntries
  <2>3. s \o journal[i].text \in Seq(Nat)
    BY <1>2, <2>2, ConcatProperties
  <2>4. PICK ids : ids = Ids(transcript, key) \union {i}
    OBVIOUS
  <2>5. ids \subseteq Nat
    BY <1>2, <1>3, <2>4 DEF EntriesOf, RowEntries, Ids
  <2>6. PICK x : x = s \o journal[i].text
    OBVIOUS
  <2>7. e = [text |-> x, open |-> TRUE, last |-> i, ids |-> ids]
    BY <1>4, <2>1, <2>4, <2>6 DEF Ids
  <2> QED BY <1>2, <2>3, <2>4, <2>5, <2>6, <2>7 DEF RowEntries
<1>7. PICK t : t = transcript'
  OBVIOUS
<1>8. DOMAIN t = DOMAIN transcript \union {key} /\ t[key] = e
      /\ \A k \in DOMAIN transcript : k # key => t[k] = transcript[k]
  BY <1>5, <1>7
<1>9. t \in [DOMAIN t -> RowEntries]
  BY <1>3, <1>5, <1>6, <1>7 DEF EntriesOf
<1>10. \A k \in DOMAIN t : \A d \in t[k].ids : d \in 1..Len(journal) /\ T!Key(d) = k
  BY <1>1, <1>3, <1>6, <1>8 DEF EntriesOf, Ids
<1>11. \A k : k # key => Ids(t, k) = Ids(transcript, k)
  BY <1>8 DEF Ids
<1>12. Ids(t, key) = Ids(transcript, key) \union {i}
  BY <1>6, <1>8 DEF Ids
<1>13. \A k \in Tools : k \in DOMAIN t => k \in DOMAIN transcript /\ t[k].open = transcript[k].open
  BY <1>2, <1>8
<1> QED BY <1>1, <1>2, <1>7, <1>9, <1>10, <1>11, <1>12, <1>13 DEF Adds, EntriesOf

LEMMA TurnDoneAdds ==
    ASSUME T!TranscriptAssumption, RowsInv, NEW i \in 1..Len(journal), journal[i].kind = "turnDone",
           transcript' = [k \in DOMAIN transcript |->
                             [transcript[k] EXCEPT !.open = @ /\ k \notin Messages]]
    PROVE  Adds(i)
<1>1. EntriesOf(transcript, Len(journal))
  BY DEF RowsInv, RowsTyped
<1>2. PICK t : t = transcript'
  OBVIOUS
<1>3. DOMAIN t = DOMAIN transcript
  BY <1>2
<1>4. ASSUME NEW k \in DOMAIN transcript
      PROVE  /\ t[k] \in RowEntries /\ t[k].ids = transcript[k].ids
             /\ k \notin Messages => t[k].open = transcript[k].open
  <2>1. PICK e \in RowEntries : e = transcript[k]
    BY <1>1 DEF EntriesOf
  <2>2. PICK b \in BOOLEAN : b <=> (e.open /\ k \notin Messages)
    OBVIOUS
  <2>3. t[k] = [e EXCEPT !.open = b]
    <3>1. (e.open /\ k \notin Messages) \in BOOLEAN
      OBVIOUS
    <3>2. (e.open /\ k \notin Messages) = b
      BY <2>2
    <3> QED BY <1>2, <2>1, <3>2
  <2>4. t[k] \in RowEntries /\ t[k].ids = e.ids /\ t[k].open = b
    BY <2>3 DEF RowEntries
  <2>5. e.open \in BOOLEAN
    BY DEF RowEntries
  <2>6. k \notin Messages => b = e.open
    BY <2>2, <2>5
  <2> QED BY <2>1, <2>4, <2>6
<1>5. t \in [DOMAIN t -> RowEntries]
  <2>1. t = [k \in DOMAIN t |-> t[k]]
    BY <1>2
  <2> QED BY <1>3, <1>4, <2>1
<1>6. \A k : Ids(t, k) = Ids(transcript, k)
  BY <1>3, <1>4 DEF Ids
<1>7. EntriesOf(t, Len(journal))
  BY <1>1, <1>3, <1>4, <1>5 DEF EntriesOf
<1>8. ~T!Shows(i)
  BY DEF T!Shows
<1>9. \A k \in Tools : k \notin Messages
  BY DEF T!TranscriptAssumption
<1> QED BY <1>2, <1>3, <1>4, <1>6, <1>7, <1>8, <1>9 DEF Adds

LEMMA AddedKeeps ==
    ASSUME T!TranscriptAssumption, RowsInv, NEW i \in 1..Len(journal), i = latest + 1, latest' = i,
           Adds(i), journal[i].kind # "clear",
           journal' = journal /\ pager' = pager /\ flight' = flight /\ late' = late /\ overtaken' = overtaken
    PROVE  RowsInv'
<1>1. Len(journal) \in Nat /\ latest \in 0..Len(journal) /\ i \in Nat
  BY SeqFacts DEF RowsInv, RowsTyped
<1>2. \A j : T!Key(j)' = T!Key(j) /\ T!Shows(j)' = T!Shows(j) /\ Pending(j)' = Pending(j)
  BY SameEvent
<1>3. RowsTyped'
  <2>1. EntriesOf(transcript, Len(journal))'
    BY <1>2 DEF Adds, EntriesOf
  <2>2. /\ journal' \in Seq(RowEvents) /\ Len(journal') <= MaxLog
        /\ latest' \in 0..Len(journal')
    BY <1>1 DEF RowsInv, RowsTyped
  <2>3. /\ pager' \in [Sources -> Loads] /\ flight' \in Seq(RowRequests)
        /\ late' \subseteq Tools /\ overtaken' \in BOOLEAN
    BY DEF RowsInv, RowsTyped
  <2>4. RowEvents' = RowEvents /\ Sources' = Sources /\ Loads' = Loads /\ RowRequests' = RowRequests
    BY DEF RowEvents, Sources, Loads, RowRequests
  <2> QED BY <2>1, <2>2, <2>3, <2>4 DEF RowsTyped
<1>4. RowLog'
  BY DEF RowsInv, RowLog, OfItem
<1>5. AllAsked'
  <2>1. ASSUME NEW r \in 1..Len(flight) PROVE Asked(flight[r])'
    <3>1. PICK f : f = flight[r]
      OBVIOUS
    <3>2. Asked(f)
      BY <3>1 DEF RowsInv, AllAsked
    <3>3. f.source \in 1..latest => f.source \in 1..latest'
      BY <1>1
    <3> QED BY <3>1, <3>2, <3>3 DEF Asked
  <2> QED BY <2>1 DEF AllAsked
<1>6. ASSUME ~overtaken' PROVE Paging'
  <2>1. Paging
    BY <1>6 DEF RowsInv
  <2>2. ASSUME NEW j, Missing(j)' PROVE Missing(j) /\ j # i
    BY <1>2, <2>2 DEF Missing, HasRow, Adds, Ids
  <2>3. \A n : Held(n) => Held(n)'
    BY <2>2 DEF Held
  <2>4. Held(latest) => Held(latest)'
    <3>1. ASSUME Held(latest), NEW j \in 1..latest', Missing(j)' PROVE FALSE
      <4>1. Missing(j) /\ j \in 1..latest
        BY <1>1, <2>2, <3>1
      <4> QED BY <3>1, <4>1 DEF Held
    <3> QED BY <3>1 DEF Held
  <2>5. CursorHeld(pager[RECENT])'
    <3>1. PICK p : p = pager[RECENT]
      OBVIOUS
    <3>2. CursorHeld(p)
      BY <2>1, <3>1 DEF Paging
    <3>3. CursorHeld(p)'
      BY <2>3, <2>4, <3>2 DEF CursorHeld
    <3> QED BY <3>1, <3>3
  <2>6. ASSUME NEW r \in 1..Len(flight), Fills(flight[r]) PROVE Fills(flight[r])'
    <3>1. PICK f : f = flight[r]
      OBVIOUS
    <3>2. f.next \in {NONE} \union 1..Len(journal) /\ f.rows \subseteq 1..Len(journal)
      BY <3>1 DEF RowsInv, AllAsked, Asked
    <3>3. ASSUME NEW j \in 1..Len(journal), Missing(j)', IF f.next = NONE THEN j <= latest' ELSE j <= f.next
          PROVE  j \in f.rows
      <4>1. Missing(j) /\ (f.next = NONE => j <= latest)
        BY <1>1, <2>2, <3>3
      <4> QED BY <2>6, <3>1, <3>3, <4>1 DEF Fills
    <3>4. ASSUME NEW j \in f.rows, NEW x \in 1..j, Missing(x)' PROVE x \in f.rows
      BY <2>2, <2>6, <3>1, <3>4 DEF Fills
    <3> QED BY <3>1, <3>3, <3>4 DEF Fills
  <2>7. AnswersFill'
    BY <2>1, <2>6 DEF Paging, AnswersFill
  <2>8. OneRecent'
    BY <2>1 DEF Paging, OneRecent
  <2>9. AheadHeld'
    <3>1. SUFFICES ASSUME NEW k \in DOMAIN transcript', NEW j \in transcript'[k].ids, j > latest'
                   PROVE  Held(j)'
      BY DEF AheadHeld
    <3>2. j \in Ids(transcript, k) \union {i} /\ j \in 1..Len(journal)
      BY <3>1 DEF Adds, Ids, EntriesOf
    <3>3. j \in Ids(transcript, k) /\ j > latest
      BY <1>1, <3>1, <3>2
    <3> QED BY <2>1, <2>3, <3>3 DEF Paging, AheadHeld, Ids
  <2>10. CallsEnd'
    <3>1. SUFFICES ASSUME NEW k \in Tools \ late, k \in DOMAIN transcript',
                          NEW j \in transcript'[k].ids, journal[j].kind = "completed",
                          transcript'[k].open
                   PROVE  FALSE
      BY DEF CallsEnd
    <3>2. j \in 1..Len(journal) /\ T!Key(j) = k /\ j \in Ids(transcript', k)
      BY <3>1 DEF Adds, EntriesOf, Ids
    <3>3. CASE /\ k \in DOMAIN transcript /\ transcript'[k].open = transcript[k].open
               /\ Ids(transcript', k) = Ids(transcript, k)
      BY <2>1, <3>1, <3>2, <3>3 DEF Paging, CallsEnd, Ids
    <3>4. CASE journal[i].item = k /\ i \notin Ids(transcript, k) /\ transcript'[k].open = Pending(i)
      <4>1. journal[i].kind = "started" /\ journal[j].item = k
        BY <3>1, <3>2, <3>4, KeyFacts DEF Pending
      <4>2. j # i /\ j \in Nat
        BY <3>1, <3>2, <4>1
      <4>3. j \in Ids(transcript, k)
        BY <3>2, <4>2 DEF Adds
      <4>4. ~(j < i)
        BY <3>1, <3>2, <3>4, <4>1 DEF RowsInv, RowLog
      <4>5. Held(j)
        <5>1. j > latest /\ k \in DOMAIN transcript /\ j \in transcript[k].ids
          BY <1>1, <4>2, <4>3, <4>4 DEF Ids
        <5> QED BY <2>1, <5>1 DEF Paging, AheadHeld
      <4>6. i \in 1..j
        BY <1>1, <4>2, <4>4
      <4>7. T!Shows(i) /\ T!Key(i) = k
        <5>1. k \in T!Items
          BY DEF T!Items
        <5> QED BY <3>4, <5>1, KeyFacts
      <4> QED BY <3>4, <4>5, <4>6, <4>7 DEF Held, Missing, HasRow
    <3> QED BY <3>1, <3>3, <3>4 DEF Adds
  <2> QED BY <2>5, <2>7, <2>8, <2>9, <2>10 DEF Paging
<1> QED BY <1>3, <1>4, <1>5, <1>6 DEF RowsInv

(* When the page starts over: nothing in it is of later events, and none of *)
(* the run's rows are under way, unless the page was overtaken.             *)
LEMMA StartsOver ==
    ASSUME T!TranscriptAssumption, RowsInv,
           EntriesOf(transcript', Len(journal)), latest' \in latest..Len(journal), journal' = journal,
           pager' \in [Sources -> Loads], pager'[RECENT] = T!Fresh,
           flight' = flight \/ flight' = <<>>, late' = {}, overtaken' \in BOOLEAN,
           ~overtaken' => \A r \in 1..Len(flight') : flight'[r].source # RECENT,
           \A k \in DOMAIN transcript' : \A j \in transcript'[k].ids : j <= latest',
           \A k \in Tools : k \in DOMAIN transcript' =>
               \A j \in transcript'[k].ids : journal[j].kind = "completed" => ~transcript'[k].open
    PROVE  RowsInv'
<1>1. Len(journal) \in Nat /\ latest \in 0..Len(journal)
  BY SeqFacts DEF RowsInv, RowsTyped
<1>2. \A j : T!Key(j)' = T!Key(j) /\ T!Shows(j)' = T!Shows(j)
  BY SameEvent
<1>3. <<>> \in Seq(RowRequests) /\ Len(<<>>) = 0
  OBVIOUS
<1>4. flight' \in Seq(RowRequests) /\ latest' \in 0..Len(journal)
  <2>1. latest' \in 0..Len(journal)
    BY <1>1
  <2>2. flight \in Seq(RowRequests)
    BY DEF RowsInv, RowsTyped
  <2>3. flight' = <<>> => flight' \in Seq(RowRequests)
    BY <1>3
  <2> QED BY <2>1, <2>2, <2>3
<1>5. EntriesOf(transcript, Len(journal))'
  BY <1>2 DEF EntriesOf
<1>6. RowsTyped'
  BY <1>4, <1>5 DEF RowsInv, RowsTyped
<1>7. RowLog'
  BY DEF RowsInv, RowLog, OfItem
<1>8. AllAsked'
  <2>1. ASSUME NEW r \in 1..Len(flight'), flight' = flight PROVE Asked(flight[r])'
    <3>1. PICK f : f = flight[r]
      OBVIOUS
    <3>2. Asked(f)
      BY <2>1, <3>1 DEF RowsInv, AllAsked
    <3>3. f.source \in 1..latest => f.source \in 1..latest'
      BY <1>1
    <3> QED BY <2>1, <3>1, <3>2, <3>3 DEF Asked
  <2>2. CASE flight' = flight
    BY <2>1, <2>2 DEF AllAsked
  <2>3. CASE flight' = <<>>
    BY <1>3, <2>3 DEF AllAsked
  <2> QED BY <2>2, <2>3
<1>9. ASSUME ~overtaken' PROVE Paging'
  <2>1. CursorHeld(pager[RECENT])'
    BY DEF CursorHeld, T!Fresh
  <2>2. AnswersFill' /\ OneRecent'
    BY <1>9 DEF AnswersFill, OneRecent
  <2>3. AheadHeld'
    <3>1. ASSUME NEW k \in DOMAIN transcript', NEW j \in transcript'[k].ids PROVE ~(j > latest')
      <4>1. j \in 1..Len(journal) /\ j <= latest' /\ latest' \in Nat
        BY <1>1, <1>4 DEF EntriesOf
      <4> QED BY <1>1, <4>1
    <3> QED BY <3>1 DEF AheadHeld
  <2>4. CallsEnd'
    BY DEF CallsEnd
  <2> QED BY <2>1, <2>2, <2>3, <2>4 DEF Paging
<1> QED BY <1>6, <1>7, <1>8, <1>9 DEF RowsInv

LEMMA FreshPager ==
    ASSUME RowsInv
    PROVE  /\ [pager EXCEPT ![RECENT] = T!Fresh] \in [Sources -> Loads]
           /\ [pager EXCEPT ![RECENT] = T!Fresh][RECENT] = T!Fresh
           /\ [s \in DOMAIN pager |-> T!Fresh] \in [Sources -> Loads]
           /\ [s \in DOMAIN pager |-> T!Fresh][RECENT] = T!Fresh
<1>1. T!Fresh \in Loads
  BY DEF T!Fresh, Loads, Cursors
<1>2. RECENT \in Sources /\ pager \in [Sources -> Loads]
  BY DEF Sources, RowsInv, RowsTyped
<1> QED BY <1>1, <1>2

LEMMA StreamKeeps ==
    ASSUME T!TranscriptAssumption, RowsInv, T!reduceRunEvent
    PROVE  RowsInv'
<1>1. PICK i : i = latest + 1
  OBVIOUS
<1>2. /\ i \in 1..Len(journal) /\ latest' = i /\ transcript' = T!reduced(i)
      /\ journal' = journal /\ flight' = flight
      /\ journal[i].kind = "clear" => /\ pager' = [pager EXCEPT ![RECENT] = T!Fresh] /\ late' = {}
                                  /\ overtaken' = (overtaken \/ T!RowsUnderWay)
      /\ journal[i].kind # "clear" => pager' = pager /\ late' = late /\ overtaken' = overtaken
  <2>1. Len(journal) \in Nat /\ latest \in 0..Len(journal) /\ overtaken \in BOOLEAN
    BY SeqFacts DEF RowsInv, RowsTyped
  <2> QED BY <1>1, <2>1 DEF T!reduceRunEvent
<1>3. CASE journal[i].kind # "clear"
  <2>1. CASE journal[i].kind = "delta"
    <3>1. transcript' = T!applyDelta(i)
      BY <1>2, <2>1 DEF T!reduced
    <3> QED BY <1>1, <1>2, <1>3, <2>1, <3>1, DeltaAdds, AddedKeeps
  <2>2. CASE journal[i].kind = "turnDone"
    <3>1. transcript' = [k \in DOMAIN transcript |->
                             [transcript[k] EXCEPT !.open = @ /\ k \notin Messages]]
      BY <1>2, <2>2 DEF T!reduced
    <3> QED BY <1>1, <1>2, <1>3, <2>2, <3>1, TurnDoneAdds, AddedKeeps
  <2>3. CASE journal[i].kind # "delta" /\ journal[i].kind # "turnDone"
    <3>1. transcript' = T!appendRunEventRow(i)
      BY <1>2, <1>3, <2>3 DEF T!reduced
    <3> QED BY <1>1, <1>2, <1>3, <3>1, AppendAdds, AddedKeeps
  <2> QED BY <2>1, <2>2, <2>3
<1>4. CASE journal[i].kind = "clear"
  <2>1. PICK n, m, u : n = Len(journal) /\ m = T!appendRunEventRow(i) /\ u = T!transcriptItemFromCompactRow(i)
    OBVIOUS
  <2>2. EntriesOf(m, n)
    <3>1. EntriesOf(transcript, n) /\ EntriesOf(u, n)
      BY <1>2, <2>1, RowEntry DEF RowsInv, RowsTyped
    <3> QED BY <2>1, <3>1, MergeEntries DEF T!appendRunEventRow
  <2>3. transcript' = [k \in {k \in DOMAIN m : k \in T!ClearsTo(i)} |-> m[k]]
    BY <1>2, <1>4, <2>1 DEF T!reduced
  <2>4. PICK t : t = transcript'
    OBVIOUS
  <2>5. /\ DOMAIN t \subseteq T!ClearsTo(i) /\ DOMAIN t \subseteq DOMAIN m
        /\ \A k \in DOMAIN t : t[k] = m[k]
        /\ t = [k \in DOMAIN t |-> m[k]]
    BY <2>3, <2>4
  <2>6. T!ClearsTo(i) \subseteq 1..i /\ i \in Nat
    <3>1. i \in Nat
      BY <1>2, KeyFacts
    <3> QED BY <3>1 DEF T!ClearsTo
  <2>7. EntriesOf(t, n)
    BY <2>2, <2>5 DEF EntriesOf
  <2>8. ASSUME NEW k \in DOMAIN t, NEW j \in t[k].ids PROVE j <= i
    <3>1. j \in 1..Len(journal) /\ T!Key(j) = k /\ k \in 1..i /\ k \in Nat
      BY <2>1, <2>5, <2>6, <2>7 DEF EntriesOf
    <3>2. j = k
      BY <3>1, KeyFacts
    <3> QED BY <2>6, <3>1, <3>2
  <2>9. ASSUME NEW k \in Tools PROVE k \notin DOMAIN t
    <3>1. Tools \intersect Nat = {}
      BY DEF T!TranscriptAssumption, T!Items
    <3> QED BY <2>5, <2>6, <3>1
  <2>10. pager' \in [Sources -> Loads] /\ pager'[RECENT] = T!Fresh
    BY <1>2, <1>4, FreshPager
  <2>11. latest' \in latest..Len(journal) /\ overtaken' \in BOOLEAN
    <3>1. Len(journal) \in Nat /\ latest \in 0..Len(journal)
      BY SeqFacts DEF RowsInv, RowsTyped
    <3> QED BY <1>1, <1>2, <1>4, <3>1
  <2>12. ~overtaken' => \A r \in 1..Len(flight') : flight'[r].source # RECENT
    <3>1. DOMAIN flight = 1..Len(flight)
      BY DEF RowsInv, RowsTyped
    <3> QED BY <1>2, <1>4, <3>1 DEF T!RowsUnderWay
  <2>13. EntriesOf(transcript', Len(journal))
    BY <2>1, <2>4, <2>7
  <2>14. \A k \in DOMAIN transcript' : \A j \in transcript'[k].ids : j <= latest'
    BY <1>2, <2>4, <2>8
  <2>15. \A k \in Tools : k \in DOMAIN transcript' =>
               \A j \in transcript'[k].ids : journal[j].kind = "completed" => ~transcript'[k].open
    BY <2>4, <2>9
  <2>16. flight' = flight /\ journal' = journal /\ late' = {}
    BY <1>2, <1>4
  <2> QED BY <2>10, <2>11, <2>12, <2>13, <2>14, <2>15, <2>16, StartsOver
<1> QED BY <1>3, <1>4

(* A call that is open on a page has no end there.                          *)
LEMMA PageClosed ==
    ASSUME T!TranscriptAssumption, RowsInv, NEW rows, NEW P, PageOf(P, rows),
           NEW k \in Tools, k \in DOMAIN P, NEW j \in P[k].ids, journal[j].kind = "completed"
    PROVE  P[k].last = j /\ ~P[k].open
<1>1. PICK i : i = P[k].last
  OBVIOUS
<1>2. /\ i \in 1..Len(journal) /\ j \in 1..Len(journal) /\ T!Key(i) = k /\ T!Key(j) = k
      /\ j <= i /\ P[k].open = Pending(i)
  BY <1>1 DEF PageOf, EntriesOf
<1>3. journal[i].item = k /\ journal[j].item = k /\ i \in Nat /\ j \in Nat
  BY <1>2, KeyFacts
<1>4. ~(j < i)
  BY <1>2, <1>3 DEF RowsInv, RowLog
<1>5. i = j
  BY <1>2, <1>3, <1>4
<1> QED BY <1>1, <1>2, <1>5 DEF Pending

LEMMA HydrateKeeps ==
    ASSUME T!TranscriptAssumption, RowsInv, NEW n \in latest..Len(journal), T!hydrateFromBootstrap(n),
           flight' = flight \/ flight' = <<>>, overtaken' \in BOOLEAN,
           ~overtaken' => \A r \in 1..Len(flight') : flight'[r].source # RECENT
    PROVE  RowsInv'
<1>1. PICK answer, rows, P : /\ answer = T!rowPage(RECENT, NONE, n) /\ rows = answer.rows
                           /\ P = T!transcriptFromCompactRows(rows)
  OBVIOUS
<1>2. transcript' = P /\ latest' = n /\ late' = {} /\ journal' = journal /\ pager' = [s \in DOMAIN pager |-> T!Fresh]
  BY <1>1 DEF T!hydrateFromBootstrap
<1>3. n \in Nat /\ n <= Len(journal) /\ Len(journal) \in Nat /\ journal \in Seq(RowEvents)
  BY SeqFacts DEF RowsInv, RowsTyped
<1>4. rows \subseteq 1..n
  <2>1. PICK after : after = {i \in T!RowsOf(RECENT, n) : NONE = NONE \/ i > NONE}
    OBVIOUS
  <2>2. NONE \in Cursors
    BY DEF Cursors
  <2>3. FirstOf(answer, after, n)
    BY <1>1, <1>3, <2>1, <2>2, RowsOfPage
  <2> QED BY <1>1, <2>3 DEF FirstOf
<1>5. PageOf(P, rows)
  <2>1. rows \subseteq 1..Len(journal)
    BY <1>3, <1>4
  <2> QED BY <1>1, <1>3, <2>1, PageEntries
<1>6. ASSUME NEW k \in DOMAIN P, NEW j \in P[k].ids PROVE j <= n
  <2>1. j \in 1..n
    BY <1>4, <1>5 DEF PageOf
  <2> QED BY <1>3, <2>1
<1>7. \A k \in Tools : k \in DOMAIN P => \A j \in P[k].ids : journal[j].kind = "completed" => ~P[k].open
  BY <1>5, PageClosed
<1>8. pager' \in [Sources -> Loads] /\ pager'[RECENT] = T!Fresh
  BY <1>2, FreshPager
<1>9. EntriesOf(transcript', Len(journal)) /\ latest' \in latest..Len(journal)
  BY <1>2, <1>5 DEF PageOf
<1> QED BY <1>2, <1>6, <1>7, <1>8, <1>9, StartsOver

LEMMA StartOverKeeps ==
    ASSUME T!TranscriptAssumption, RowsInv, T!Resync \/ T!Reload
    PROVE  RowsInv'
<1>1. Len(journal) \in Nat /\ latest \in 0..Len(journal) /\ overtaken \in BOOLEAN /\ DOMAIN flight = 1..Len(flight)
  BY SeqFacts DEF RowsInv, RowsTyped
<1>2. CASE T!Resync
  <2>1. PICK n \in latest..Len(journal) : T!hydrateFromBootstrap(n)
    BY <1>2 DEF T!Resync
  <2>2. flight' = flight /\ overtaken' = (overtaken \/ T!RowsUnderWay)
    BY <1>2 DEF T!Resync
  <2>3. overtaken' \in BOOLEAN /\ (~overtaken' => \A r \in 1..Len(flight') : flight'[r].source # RECENT)
    BY <1>1, <2>2 DEF T!RowsUnderWay
  <2> QED BY <2>1, <2>2, <2>3, HydrateKeeps
<1>3. CASE T!Reload
  <2>1. T!hydrateFromBootstrap(Len(journal)) /\ flight' = <<>> /\ overtaken' = FALSE
    BY <1>3 DEF T!Reload
  <2>2. Len(flight') = 0 /\ overtaken' \in BOOLEAN
    BY <2>1
  <2>3. \A r \in 1..Len(flight') : flight'[r].source # RECENT
    BY <2>2
  <2>4. PICK n \in latest..Len(journal) : n = Len(journal)
    BY <1>1
  <2>5. T!hydrateFromBootstrap(n)
    BY <2>1, <2>4
  <2> QED BY <2>1, <2>2, <2>3, <2>5, HydrateKeeps
<1> QED BY <1>2, <1>3

(* What stays when the page's entries and the log do.                       *)
LEMMA EntriesStay ==
    ASSUME RowsInv, UNCHANGED <<journal, transcript, latest, overtaken, late>>
    PROVE  /\ \A i : T!Key(i)' = T!Key(i) /\ (Missing(i)' <=> Missing(i))
           /\ \A n : Held(n)' <=> Held(n)
           /\ \A f : Fills(f)' <=> Fills(f)
           /\ \A f : Asked(f)' <=> Asked(f)
           /\ EntriesOf(transcript, Len(journal))' /\ RowLog'
           /\ AheadHeld => AheadHeld'
           /\ CallsEnd => CallsEnd'
<1>1. \A i : T!Key(i)' = T!Key(i) /\ T!Shows(i)' = T!Shows(i)
  BY SameEvent
<1>2. \A i : Missing(i)' <=> Missing(i)
  BY <1>1 DEF Missing, HasRow, Ids
<1>3. \A n : Held(n)' <=> Held(n)
  BY <1>2 DEF Held
<1>4. \A f : Fills(f)' <=> Fills(f)
  BY <1>2 DEF Fills
<1>5. \A f : Asked(f)' <=> Asked(f)
  BY DEF Asked
<1>6. EntriesOf(transcript, Len(journal))' /\ RowLog'
  BY <1>1 DEF RowsInv, RowsTyped, EntriesOf, RowLog, OfItem
<1>7. AheadHeld => AheadHeld'
  BY <1>3 DEF AheadHeld
<1>8. CallsEnd => CallsEnd'
  BY DEF CallsEnd
<1> QED BY <1>1, <1>2, <1>3, <1>4, <1>5, <1>6, <1>7, <1>8

LEMMA StayKeeps ==
    ASSUME RowsInv, UNCHANGED <<journal, transcript, latest, pager, flight, overtaken, late>>
    PROVE  RowsInv'
<1>1. /\ \A n : Held(n)' <=> Held(n)
      /\ \A f : Fills(f)' <=> Fills(f)
      /\ EntriesOf(transcript, Len(journal))' /\ RowLog'
      /\ AheadHeld => AheadHeld'
      /\ CallsEnd => CallsEnd'
  BY EntriesStay
<1>2. RowsTyped' /\ AllAsked'
  BY <1>1 DEF RowsInv, RowsTyped, AllAsked, Asked
<1>3. ASSUME Paging PROVE Paging'
  BY <1>1, <1>3 DEF Paging, CursorHeld, AnswersFill, OneRecent, Held
<1> QED BY <1>1, <1>2, <1>3 DEF RowsInv

LEMMA ScopeKeeps ==
    ASSUME RowsInv, T!setScope
    PROVE  RowsInv'
<1>1. UNCHANGED <<journal, transcript, latest, pager, flight, overtaken, late>>
  BY DEF T!setScope
<1> QED BY <1>1, StayKeeps

LEMMA SendKeeps ==
    ASSUME T!TranscriptAssumption, RowsInv, NEW source \in Sources, T!Send(source),
           source # RECENT => source \in 1..latest /\ journal[source].kind = "state"
    PROVE  RowsInv'
<1>1. PICK old, new : /\ old = pager[source]
                      /\ new = [source |-> source, cursor |-> pager[source].cursor,
                                served |-> FALSE, rows |-> {}, next |-> NONE]
  OBVIOUS
<1>2. /\ flight' = Append(flight, new) /\ pager' = [pager EXCEPT ![source].loading = TRUE]
      /\ UNCHANGED <<journal, transcript, latest, overtaken, late>>
      /\ ~old.loading /\ (old.loaded => old.cursor # NONE)
  BY <1>1 DEF T!Send, T!Asks
<1>3. pager \in [Sources -> Loads] /\ flight \in Seq(RowRequests) /\ old \in Loads
  BY <1>1 DEF RowsInv, RowsTyped
<1>4. /\ \A n : Held(n)' <=> Held(n)
      /\ \A f : Fills(f)' <=> Fills(f)
      /\ \A f : Asked(f)' <=> Asked(f)
      /\ EntriesOf(transcript, Len(journal))' /\ RowLog'
      /\ AheadHeld => AheadHeld'
      /\ CallsEnd => CallsEnd'
  BY <1>2, EntriesStay
<1>5. new \in RowRequests
  BY <1>1, <1>3 DEF RowRequests, Loads, Cursors
<1>6. /\ flight' \in Seq(RowRequests) /\ Len(flight') = Len(flight) + 1 /\ Len(flight) \in Nat
      /\ flight'[Len(flight) + 1] = new /\ \A r \in 1..Len(flight) : flight'[r] = flight[r]
  BY <1>2, <1>3, <1>5, AppendFacts, SeqFacts
<1>7. PICK load : load = [old EXCEPT !.loading = TRUE]
  OBVIOUS
<1>8. load \in Loads /\ load.loading /\ load.cursor = old.cursor /\ load.loaded = old.loaded
  BY <1>3, <1>7 DEF Loads
<1>9. pager' = [pager EXCEPT ![source] = load]
  BY <1>1, <1>2, <1>3, <1>7
<1>10. pager' \in [Sources -> Loads] /\ pager'[source] = load
       /\ \A s \in Sources : s # source => pager'[s] = pager[s]
  BY <1>3, <1>8, <1>9
<1>11. RowsTyped'
  BY <1>2, <1>4, <1>6, <1>10 DEF RowsInv, RowsTyped
<1>12. AllAsked'
  <2>1. Asked(new)
    BY <1>1 DEF Asked
  <2>2. ASSUME NEW r \in 1..Len(flight') PROVE Asked(flight'[r])
    <3>1. CASE r \in 1..Len(flight)
      BY <1>6, <3>1 DEF RowsInv, AllAsked
    <3>2. CASE r = Len(flight) + 1
      BY <1>6, <2>1, <3>2
    <3> QED BY <1>6, <3>1, <3>2
  <2>3. ASSUME NEW r \in 1..Len(flight') PROVE Asked(flight[r])'
    <3>1. PICK f : f = flight'[r]
      OBVIOUS
    <3>2. Asked(f)'
      BY <1>4, <2>2, <3>1
    <3> QED BY <3>1, <3>2
  <2> QED BY <2>3 DEF AllAsked
<1>13. ASSUME ~overtaken' PROVE Paging'
  <2>1. Paging
    BY <1>2, <1>13 DEF RowsInv
  <2>2. RECENT \in Sources
    BY DEF Sources
  <2>3. ASSUME NEW r \in 1..Len(flight') PROVE r \in 1..Len(flight) \/ (r = Len(flight) + 1 /\ flight'[r] = new)
    BY <1>6
  <2>4. CASE source = RECENT
    <3>1. \A r \in 1..Len(flight) : flight[r].source # RECENT
      BY <1>1, <1>2, <2>1, <2>4 DEF Paging, AnswersFill
    <3>2. CursorHeld(load)'
      <4>1. CursorHeld(old)
        BY <1>1, <2>1, <2>4 DEF Paging
      <4> QED BY <1>2, <1>4, <1>8, <4>1 DEF CursorHeld
    <3>3. CursorHeld(pager[RECENT])'
      BY <1>10, <2>4, <3>2
    <3>4. AnswersFill'
      <4>1. ASSUME NEW r \in 1..Len(flight'), flight'[r].source = RECENT
            PROVE  load.loading /\ flight'[r].cursor = load.cursor /\ ~flight'[r].served
        <5>1. flight'[r] = new
          BY <1>6, <2>3, <3>1, <4>1
        <5> QED BY <1>1, <1>8, <2>4, <5>1
      <4> QED BY <1>10, <2>4, <4>1 DEF AnswersFill
    <3>5. OneRecent'
      <4>1. \A r \in 1..Len(flight') : flight'[r].source = RECENT => r = Len(flight) + 1
        BY <1>6, <2>3, <3>1
      <4> QED BY <4>1 DEF OneRecent
    <3> QED BY <1>4, <2>1, <3>3, <3>4, <3>5 DEF Paging
  <2>5. CASE source # RECENT
    <3>1. pager'[RECENT] = pager[RECENT] /\ new.source # RECENT
      BY <1>1, <1>10, <2>2, <2>5
    <3>2. \A r \in 1..Len(flight') : flight'[r].source = RECENT => r \in 1..Len(flight) /\ flight'[r] = flight[r]
      BY <1>6, <2>3, <3>1
    <3>3. CursorHeld(pager[RECENT])'
      <4>1. PICK p : p = pager[RECENT]
        OBVIOUS
      <4>2. CursorHeld(p)
        BY <2>1, <4>1 DEF Paging
      <4>3. CursorHeld(p)'
        BY <1>2, <1>4, <4>2 DEF CursorHeld
      <4> QED BY <3>1, <4>1, <4>3
    <3>4. AnswersFill'
      <4>1. ASSUME NEW r \in 1..Len(flight'), flight'[r].source = RECENT
            PROVE  /\ pager'[RECENT].loading /\ flight'[r].cursor = pager'[RECENT].cursor
                   /\ flight'[r].served => Fills(flight[r])'
        <5>1. PICK f : f = flight[r]
          OBVIOUS
        <5>2. flight'[r] = f /\ r \in 1..Len(flight)
          BY <3>2, <4>1, <5>1
        <5>3. /\ pager[RECENT].loading /\ f.cursor = pager[RECENT].cursor
              /\ f.served => Fills(f)
          BY <2>1, <4>1, <5>1, <5>2 DEF Paging, AnswersFill
        <5>4. f.served => Fills(f)'
          BY <1>4, <5>3
        <5> QED BY <3>1, <5>2, <5>3, <5>4
      <4> QED BY <4>1 DEF AnswersFill
    <3>5. OneRecent'
      BY <2>1, <3>2 DEF Paging, OneRecent
    <3> QED BY <1>4, <2>1, <3>3, <3>4, <3>5 DEF Paging
  <2> QED BY <2>4, <2>5
<1> QED BY <1>4, <1>11, <1>12, <1>13 DEF RowsInv

LEMMA AsksKeep ==
    ASSUME T!TranscriptAssumption, RowsInv, T!requestRecentRows \/ T!requestRowsForStatePath
    PROVE  RowsInv'
<1>1. CASE T!requestRecentRows
  BY <1>1, SendKeeps DEF T!requestRecentRows, Sources
<1>2. CASE T!requestRowsForStatePath
  <2>1. PICK v \in 1..latest : journal[v].kind = "state" /\ T!Send(v)
    BY <1>2 DEF T!requestRowsForStatePath
  <2>2. v \in Sources
    <3>1. Len(journal) \in Nat /\ Len(journal) <= MaxLog /\ latest \in 0..Len(journal) /\ MaxLog \in Nat
      BY SeqFacts DEF RowsInv, RowsTyped, T!TranscriptAssumption
    <3> QED BY <3>1 DEF Sources
  <2> QED BY <2>1, <2>2, SendKeeps
<1> QED BY <1>1, <1>2

LEMMA ServeKeeps ==
    ASSUME T!TranscriptAssumption, RowsInv, NEW r \in 1..Len(flight), T!getRows(r)
    PROVE  RowsInv'
<1>1. PICK old, answer : old = flight[r] /\ answer = T!rowPage(old.source, old.cursor, Len(journal))
  OBVIOUS
<1>2. PICK n \in Nat : n = Len(journal)
  BY SeqFacts DEF RowsInv, RowsTyped
<1>3. /\ flight' = [flight EXCEPT ![r].served = TRUE, ![r].rows = answer.rows, ![r].next = answer.next]
      /\ UNCHANGED <<journal, transcript, latest, pager, overtaken, late>>
  BY <1>1 DEF T!getRows
<1>4. old \in RowRequests /\ flight \in Seq(RowRequests) /\ latest \in 0..n
  BY <1>1, <1>2, SeqFacts DEF RowsInv, RowsTyped
<1>5. PICK after : after = {i \in T!RowsOf(old.source, n) : old.cursor = NONE \/ i > old.cursor}
  OBVIOUS
<1>6. FirstOf(answer, after, n)
  <2>1. old.cursor \in Cursors
    BY <1>4 DEF RowRequests
  <2>2. answer = T!rowPage(old.source, old.cursor, n)
    BY <1>1, <1>2
  <2> QED BY <1>2, <1>5, <2>1, <2>2, RowsOfPage
<1>7. answer.next \in {NONE} \union 1..n /\ answer.rows \subseteq 1..n
  BY <1>6 DEF FirstOf
<1>8. PICK new : /\ new \in RowRequests /\ flight' = [flight EXCEPT ![r] = new]
                 /\ new.source = old.source /\ new.cursor = old.cursor /\ new.served
                 /\ new.rows = answer.rows /\ new.next = answer.next
  <2>1. PICK rows \in SUBSET Nat, next \in Cursors : rows = answer.rows /\ next = answer.next
    <3>1. answer.rows \in SUBSET Nat /\ answer.next \in Cursors
      BY <1>2, <1>7 DEF Cursors
    <3> QED BY <3>1
  <2>2. PICK new : new = [old EXCEPT !.served = TRUE, !.rows = rows, !.next = next]
    OBVIOUS
  <2>3. /\ new \in RowRequests
        /\ new.source = old.source /\ new.cursor = old.cursor /\ new.served
        /\ new.rows = rows /\ new.next = next
    BY <1>4, <2>2 DEF RowRequests
  <2>4. flight' = [flight EXCEPT ![r] = new]
    BY <1>1, <1>3, <1>4, <2>1, <2>2
  <2> QED BY <2>1, <2>3, <2>4
<1>11. /\ flight' \in Seq(RowRequests) /\ Len(flight') = Len(flight) /\ flight'[r] = new
       /\ \A s \in 1..Len(flight) : s # r => flight'[s] = flight[s]
  BY <1>4, <1>8
<1>12. /\ \A i : Missing(i)' <=> Missing(i)
       /\ \A f : Held(f)' <=> Held(f)
       /\ \A f : Fills(f)' <=> Fills(f)
       /\ \A f : Asked(f)' <=> Asked(f)
       /\ EntriesOf(transcript, Len(journal))' /\ RowLog'
       /\ AheadHeld => AheadHeld'
       /\ CallsEnd => CallsEnd'
  BY <1>3, EntriesStay
<1>13. RowsTyped'
  BY <1>3, <1>11, <1>12 DEF RowsInv, RowsTyped
<1>14. AllAsked'
  <2>1. Asked(new)
    <3>1. Asked(old)
      BY <1>1 DEF RowsInv, AllAsked
    <3>2. old.source # RECENT => answer.rows \subseteq {old.source}
      BY <1>5, <1>6 DEF T!RowsOf, FirstOf
    <3> QED BY <1>2, <1>7, <1>8, <3>1, <3>2 DEF Asked
  <2>2. ASSUME NEW s \in 1..Len(flight') PROVE Asked(flight[s])'
    <3>1. PICK f : f = flight'[s]
      OBVIOUS
    <3>2. Asked(f)
      BY <1>11, <2>1, <2>2, <3>1 DEF RowsInv, AllAsked
    <3> QED BY <1>12, <3>1, <3>2
  <2> QED BY <2>2 DEF AllAsked
<1>15. ASSUME ~overtaken' PROVE Paging'
  <2>1. Paging
    BY <1>3, <1>15 DEF RowsInv
  <2>2. CursorHeld(pager[RECENT])'
    <3>1. PICK p : p = pager[RECENT]
      OBVIOUS
    <3>2. CursorHeld(p)
      BY <2>1, <3>1 DEF Paging
    <3>3. CursorHeld(p)'
      BY <1>3, <1>12, <3>2 DEF CursorHeld
    <3> QED BY <1>3, <3>1, <3>3
  <2>3. OneRecent'
    <3>1. new.source = flight[r].source
      BY <1>1, <1>8
    <3>2. \A s \in 1..Len(flight') : s \in 1..Len(flight) /\ flight'[s].source = flight[s].source
      BY <1>11, <3>1
    <3> QED BY <2>1, <3>2 DEF Paging, OneRecent
  <2>4. ASSUME old.source = RECENT PROVE Fills(new)
    <3>1. old.cursor = pager[RECENT].cursor /\ CursorHeld(pager[RECENT])
      BY <1>1, <2>1, <2>4 DEF Paging, AnswersFill
    <3>2. ASSUME NEW i \in 1..n, Missing(i) PROVE i \in after
      <4>1. i \in T!RowsOf(old.source, n)
        BY <2>4, <3>2 DEF T!RowsOf, Missing, T!Shows
      <4>2. old.cursor # NONE => old.cursor \in 1..n /\ Held(old.cursor)
        BY <1>2, <3>1 DEF CursorHeld
      <4>3. old.cursor # NONE => i > old.cursor
        <5>1. SUFFICES ASSUME old.cursor # NONE, ~(i > old.cursor) PROVE FALSE
          OBVIOUS
        <5>2. i \in 1..old.cursor
          BY <4>2, <5>1
        <5> QED BY <3>2, <4>2, <5>1, <5>2 DEF Held
      <4> QED BY <1>5, <4>1, <4>3
    <3>3. ASSUME NEW i \in 1..Len(journal), Missing(i), IF new.next = NONE THEN i <= latest ELSE i <= new.next
          PROVE  i \in new.rows
      <4>1. i \in after
        BY <1>2, <3>2, <3>3
      <4> QED BY <1>6, <1>8, <3>3, <4>1 DEF FirstOf
    <3>4. ASSUME NEW j \in new.rows, NEW i \in 1..j, Missing(i) PROVE i \in new.rows
      <4>1. j \in 1..n /\ i \in 1..n
        BY <1>7, <1>8, <3>4
      <4>2. i \in after
        BY <3>2, <3>4, <4>1
      <4>3. i < j \/ i = j
        BY <4>1
      <4> QED BY <1>6, <1>8, <3>4, <4>2, <4>3 DEF FirstOf
    <3> QED BY <3>3, <3>4 DEF Fills
  <2>5. AnswersFill'
    <3>1. ASSUME NEW s \in 1..Len(flight'), flight'[s].source = RECENT
          PROVE  /\ pager'[RECENT].loading /\ flight'[s].cursor = pager'[RECENT].cursor
                 /\ flight'[s].served => Fills(flight[s])'
      <4>1. PICK f : f = flight'[s]
        OBVIOUS
      <4>2. s \in 1..Len(flight)
        BY <1>11, <3>1
      <4>3. CASE s = r
        <5>1. f = new /\ old.source = RECENT
          BY <1>8, <1>11, <3>1, <4>1, <4>3
        <5>2. pager[RECENT].loading /\ old.cursor = pager[RECENT].cursor
          BY <1>1, <2>1, <5>1 DEF Paging, AnswersFill
        <5>3. Fills(f)'
          BY <1>12, <2>4, <5>1
        <5>4. f.cursor = old.cursor /\ f' = f
          BY <1>8, <5>1
        <5>5. pager' = pager
          BY <1>3
        <5> QED BY <4>1, <5>2, <5>3, <5>4, <5>5
      <4>4. CASE s # r
        <5>1. f = flight[s]
          BY <1>11, <4>1, <4>2, <4>4
        <5>2. /\ pager[RECENT].loading /\ f.cursor = pager[RECENT].cursor
              /\ f.served => Fills(f)
          BY <2>1, <3>1, <4>1, <4>2, <5>1 DEF Paging, AnswersFill
        <5>3. f.served => Fills(f)'
          BY <1>12, <5>2
        <5> QED BY <1>3, <4>1, <5>2, <5>3
      <4> QED BY <4>3, <4>4
    <3> QED BY <3>1 DEF AnswersFill
  <2> QED BY <1>12, <2>1, <2>2, <2>3, <2>5 DEF Paging
<1> QED BY <1>12, <1>13, <1>14, <1>15 DEF RowsInv

(* A request that is taken off.                                             *)
Less(r) ==
    /\ flight' \in Seq(RowRequests)
    /\ \A s \in 1..Len(flight') : \E x \in 1..Len(flight) : x # r /\ flight'[s] = flight[x]
    /\ OneRecent => OneRecent' /\ (flight[r].source = RECENT =>
                        \A s \in 1..Len(flight') : flight'[s].source # RECENT)

LEMMA TakenOff ==
    ASSUME RowsInv, NEW r \in 1..Len(flight), flight' = T!RemoveAt(flight, r)
    PROVE  Less(r)
<1>1. PICK t : t = flight'
  OBVIOUS
<1>2. /\ flight \in Seq(RowRequests) /\ Len(flight) \in Nat /\ r \in Nat
      /\ t \in Seq(RowRequests) /\ Len(t) = Len(flight) - 1
      /\ \A i \in 1..Len(t) : t[i] = flight[IF i < r THEN i ELSE i + 1]
  <2>1. flight \in Seq(RowRequests) /\ Len(flight) \in Nat
    BY SeqFacts DEF RowsInv, RowsTyped
  <2>2. r \in Nat
    BY <2>1
  <2> QED BY <1>1, <2>1, <2>2, Removed
<1>3. PICK g : g = [i \in 1..Len(t) |-> IF i < r THEN i ELSE i + 1]
  OBVIOUS
<1>4. \A i \in 1..Len(t) : g[i] \in 1..Len(flight) /\ g[i] # r /\ t[i] = flight[g[i]]
  BY <1>2, <1>3
<1>5. \A i, j \in 1..Len(t) : g[i] = g[j] => i = j
  BY <1>2, <1>3
<1>6. ASSUME OneRecent, NEW i \in 1..Len(t), NEW j \in 1..Len(t), t[i].source = RECENT, t[j].source = RECENT
      PROVE  i = j
  BY <1>4, <1>5, <1>6 DEF OneRecent
<1>7. ASSUME OneRecent, flight[r].source = RECENT, NEW i \in 1..Len(t) PROVE t[i].source # RECENT
  BY <1>4, <1>7 DEF OneRecent
<1>8. OneRecent => OneRecent'
  BY <1>1, <1>6 DEF OneRecent
<1> QED BY <1>1, <1>2, <1>4, <1>7, <1>8 DEF Less

LEMMA FailKeeps ==
    ASSUME T!TranscriptAssumption, RowsInv, NEW r \in 1..Len(flight), T!rowLoadFailed(r)
    PROVE  RowsInv'
<1>1. PICK f, old : f = flight[r] /\ old = pager[f.source]
  OBVIOUS
<1>2. /\ pager' = [pager EXCEPT ![f.source].loading = FALSE] /\ flight' = T!RemoveAt(flight, r)
      /\ UNCHANGED <<journal, transcript, latest, overtaken, late>>
  BY <1>1 DEF T!rowLoadFailed
<1>3. Less(r)
  BY <1>2, TakenOff
<1>4. pager \in [Sources -> Loads] /\ f \in RowRequests
  BY <1>1, SeqFacts DEF RowsInv, RowsTyped
<1>5. f.source \in Sources /\ old \in Loads /\ RECENT \in Sources
  BY <1>1, <1>4 DEF RowRequests, Sources
<1>6. /\ \A n : Held(n)' <=> Held(n)
      /\ \A g : Fills(g)' <=> Fills(g)
      /\ \A g : Asked(g)' <=> Asked(g)
      /\ EntriesOf(transcript, Len(journal))' /\ RowLog'
      /\ AheadHeld => AheadHeld'
      /\ CallsEnd => CallsEnd'
  BY <1>2, EntriesStay
<1>7. PICK load : load = [old EXCEPT !.loading = FALSE]
  OBVIOUS
<1>8. load \in Loads /\ ~load.loading /\ load.cursor = old.cursor /\ load.loaded = old.loaded
  BY <1>5, <1>7 DEF Loads
<1>9. pager' = [pager EXCEPT ![f.source] = load]
  BY <1>1, <1>2, <1>4, <1>7
<1>10. pager' \in [Sources -> Loads] /\ pager'[f.source] = load
       /\ \A s \in Sources : s # f.source => pager'[s] = pager[s]
  BY <1>4, <1>5, <1>8, <1>9
<1>11. RowsTyped'
  BY <1>2, <1>3, <1>6, <1>10 DEF RowsInv, RowsTyped, Less
<1>12. AllAsked'
  <2>1. ASSUME NEW s \in 1..Len(flight') PROVE Asked(flight[s])'
    <3>1. PICK g : g = flight'[s]
      OBVIOUS
    <3>2. Asked(g)
      BY <1>3, <2>1, <3>1 DEF RowsInv, AllAsked, Less
    <3> QED BY <1>6, <3>1, <3>2
  <2> QED BY <2>1 DEF AllAsked
<1>13. ASSUME ~overtaken' PROVE Paging'
  <2>1. Paging
    BY <1>2, <1>13 DEF RowsInv
  <2>2. OneRecent'
    BY <1>3, <2>1 DEF Less, Paging
  <2>3. PICK p, q : p = pager[RECENT] /\ q = pager'[RECENT]
    OBVIOUS
  <2>4. q = p \/ (f.source = RECENT /\ q.cursor = p.cursor /\ q.loaded = p.loaded /\ ~q.loading)
    BY <1>1, <1>5, <1>8, <1>10, <2>3
  <2>5. CursorHeld(q)'
    <3>1. CursorHeld(p)
      BY <2>1, <2>3 DEF Paging
    <3>2. CursorHeld(q)
      BY <2>4, <3>1 DEF CursorHeld
    <3> QED BY <1>2, <1>6, <3>2 DEF CursorHeld
  <2>6. AnswersFill'
    <3>1. ASSUME NEW s \in 1..Len(flight'), flight'[s].source = RECENT
          PROVE  /\ pager'[RECENT].loading /\ flight'[s].cursor = pager'[RECENT].cursor
                 /\ flight'[s].served => Fills(flight[s])'
      <4>1. PICK x \in 1..Len(flight) : x # r /\ flight'[s] = flight[x]
        BY <1>3, <3>1 DEF Less
      <4>2. PICK g : g = flight[x]
        OBVIOUS
      <4>3. f.source # RECENT
        BY <1>1, <1>3, <2>1, <3>1 DEF Less, Paging
      <4>4. q = p
        BY <2>4, <4>3
      <4>5. p.loading /\ g.cursor = p.cursor /\ (g.served => Fills(g))
        BY <2>1, <2>3, <3>1, <4>1, <4>2 DEF Paging, AnswersFill
      <4>6. g.served => Fills(g)'
        BY <1>6, <4>5
      <4> QED BY <2>3, <4>1, <4>2, <4>4, <4>5, <4>6
    <3> QED BY <3>1 DEF AnswersFill
  <2>7. CursorHeld(pager[RECENT])'
    BY <2>3, <2>5
  <2> QED BY <1>6, <2>1, <2>2, <2>6, <2>7 DEF Paging
<1> QED BY <1>6, <1>11, <1>12, <1>13 DEF RowsInv

LEMMA ArriveKeeps ==
    ASSUME T!TranscriptAssumption, RowsInv, NEW r \in 1..Len(flight), T!mergeRowPage(r)
    PROVE  RowsInv'
<1>1. PICK f, P, n : f = flight[r] /\ P = T!transcriptFromCompactRows(f.rows) /\ n = Len(journal)
  OBVIOUS
<1>2. PICK load : load = [cursor |-> f.next, loading |-> FALSE, loaded |-> TRUE]
  OBVIOUS
<1>3. /\ f.served /\ pager' = [pager EXCEPT ![f.source] = load] /\ flight' = T!RemoveAt(flight, r)
      /\ transcript' = T!mergeTranscriptItems(transcript, P)
      /\ late' = late \union {k \in Tools : T!StartAfterEnd(k, f.rows)}
      /\ UNCHANGED <<journal, latest, scope, overtaken>>
  BY <1>1, <1>2 DEF T!mergeRowPage
<1>4. Less(r)
  BY <1>3, TakenOff
<1>5. /\ pager \in [Sources -> Loads] /\ f \in RowRequests /\ journal \in Seq(RowEvents) /\ n \in Nat
      /\ EntriesOf(transcript, n) /\ latest \in 0..n
  BY <1>1, SeqFacts DEF RowsInv, RowsTyped
<1>6. f.source \in Sources /\ load \in Loads /\ RECENT \in Sources
  BY <1>2, <1>5 DEF RowRequests, Sources, Loads
<1>7. Asked(f) /\ f.rows \subseteq 1..n
  BY <1>1 DEF RowsInv, AllAsked, Asked
<1>8. PageOf(P, f.rows)
  BY <1>1, <1>5, <1>7, PageEntries
<1>9. PICK m : m = transcript'
  OBVIOUS
<1>10. EntriesOf(m, n) /\ MergeOf(m, transcript, P)
  <2>1. EntriesOf(P, n) /\ m = T!mergeTranscriptItems(transcript, P)
    BY <1>1, <1>3, <1>8, <1>9 DEF PageOf
  <2> QED BY <1>5, <2>1, MergeEntries
<1>11. \A k : Ids(m, k) = Ids(transcript, k) \union Ids(P, k)
  BY <1>10 DEF MergeOf
<1>12. \A i : T!Key(i)' = T!Key(i) /\ T!Shows(i)' = T!Shows(i)
  BY <1>3, SameEvent
<1>13. ASSUME NEW i, Missing(i)' PROVE Missing(i) /\ i \notin f.rows
  <2>1. T!Shows(i) /\ i \notin Ids(m, T!Key(i))
    BY <1>9, <1>12, <1>13 DEF Missing, HasRow
  <2>2. i \in f.rows => i \in Ids(P, T!Key(i))
    BY <1>8, <2>1 DEF PageOf, T!Shows
  <2> QED BY <1>11, <2>1, <2>2 DEF Missing, HasRow
<1>14. \A x : Held(x) => Held(x)'
  BY <1>13 DEF Held
<1>15. \A g : Fills(g) => Fills(g)'
  BY <1>3, <1>13 DEF Fills
<1>16. pager' \in [Sources -> Loads] /\ pager'[f.source] = load
       /\ \A s \in Sources : s # f.source => pager'[s] = pager[s]
  BY <1>3, <1>5, <1>6
<1>17. RowsTyped'
  <2>1. EntriesOf(transcript, Len(journal))'
    BY <1>1, <1>3, <1>9, <1>10, <1>12 DEF EntriesOf
  <2>2. late' \subseteq Tools
    BY <1>3 DEF RowsInv, RowsTyped
  <2> QED BY <1>3, <1>4, <1>16, <2>1, <2>2 DEF RowsInv, RowsTyped, Less
<1>18. RowLog'
  <2>1. journal' = journal
    BY <1>3
  <2> QED BY <2>1 DEF RowsInv, RowLog, OfItem
<1>19. AllAsked'
  <2>1. ASSUME NEW s \in 1..Len(flight') PROVE Asked(flight[s])'
    <3>1. PICK g : g = flight'[s]
      OBVIOUS
    <3>2. Asked(g)
      BY <1>4, <2>1, <3>1 DEF RowsInv, AllAsked, Less
    <3> QED BY <1>3, <3>1, <3>2 DEF Asked
  <2> QED BY <2>1 DEF AllAsked
<1>20. ASSUME ~overtaken' PROVE Paging'
  <2>1. Paging
    BY <1>3, <1>20 DEF RowsInv
  <2>2. OneRecent'
    BY <1>4, <2>1 DEF Less, Paging
  <2>3. f.source = RECENT => Fills(f)
    BY <1>1, <1>3, <2>1 DEF Paging, AnswersFill
  <2>4. CursorHeld(pager[RECENT])'
    <3>1. CASE f.source = RECENT
      <4>1. \A i \in 1..n : Missing(i)' => ~(IF f.next = NONE THEN i <= latest ELSE i <= f.next)
        BY <1>1, <1>13, <2>3, <3>1 DEF Fills
      <4>2. f.next # NONE => f.next \in 1..n /\ Held(f.next)'
        <5>1. SUFFICES ASSUME f.next # NONE PROVE f.next \in 1..n /\ Held(f.next)'
          OBVIOUS
        <5>2. f.next \in 1..n
          BY <1>1, <1>7, <5>1 DEF Asked
        <5>3. \A i \in 1..f.next : i \in 1..n /\ i <= f.next
          BY <1>5, <5>2
        <5>4. \A i \in 1..f.next : ~Missing(i)'
          BY <4>1, <5>1, <5>3
        <5>5. f' = f
          OBVIOUS
        <5> QED BY <5>2, <5>4 DEF Held
      <4>3. f.next = NONE => Held(latest)'
        <5>1. \A i \in 1..latest : i \in 1..n /\ i <= latest
          BY <1>5
        <5> QED BY <1>3, <4>1, <5>1 DEF Held
      <4>4. CursorHeld(load)'
        BY <1>1, <1>2, <1>3, <4>2, <4>3 DEF CursorHeld
      <4>5. pager'[RECENT] = load
        BY <1>16, <3>1
      <4> QED BY <4>4, <4>5
    <3>2. CASE f.source # RECENT
      <4>1. PICK p : p = pager[RECENT]
        OBVIOUS
      <4>2. CursorHeld(p)
        BY <2>1, <4>1 DEF Paging
      <4>3. CursorHeld(p)'
        BY <1>3, <1>14, <4>2 DEF CursorHeld
      <4>4. pager'[RECENT] = p
        BY <1>6, <1>16, <3>2, <4>1
      <4> QED BY <4>3, <4>4
    <3> QED BY <3>1, <3>2
  <2>5. AnswersFill'
    <3>1. ASSUME NEW s \in 1..Len(flight'), flight'[s].source = RECENT
          PROVE  /\ pager'[RECENT].loading /\ flight'[s].cursor = pager'[RECENT].cursor
                 /\ flight'[s].served => Fills(flight[s])'
      <4>1. PICK x \in 1..Len(flight) : x # r /\ flight'[s] = flight[x]
        BY <1>4, <3>1 DEF Less
      <4>2. PICK g : g = flight[x]
        OBVIOUS
      <4>3. f.source # RECENT
        BY <1>1, <1>4, <2>1, <3>1 DEF Less, Paging
      <4>4. pager'[RECENT] = pager[RECENT]
        BY <1>6, <1>16, <4>3
      <4>5. pager[RECENT].loading /\ g.cursor = pager[RECENT].cursor /\ (g.served => Fills(g))
        BY <2>1, <3>1, <4>1, <4>2 DEF Paging, AnswersFill
      <4>6. g.served => Fills(g)'
        BY <1>15, <4>5
      <4> QED BY <4>1, <4>2, <4>4, <4>5, <4>6
    <3> QED BY <3>1 DEF AnswersFill
  <2>6. AheadHeld'
    <3>1. SUFFICES ASSUME NEW k \in DOMAIN m, NEW j \in m[k].ids, j > latest
                   PROVE  Held(j)'
      BY <1>3, <1>9 DEF AheadHeld
    <3>2. j \in Ids(transcript, k) \/ j \in Ids(P, k)
      BY <1>11, <3>1 DEF Ids
    <3>3. CASE j \in Ids(transcript, k)
      BY <1>14, <2>1, <3>1, <3>3 DEF Paging, AheadHeld, Ids
    <3>4. CASE j \in Ids(P, k)
      <4>1. j \in f.rows
        BY <1>8, <3>4 DEF PageOf, Ids
      <4>2. f.source = RECENT
        <5>1. SUFFICES ASSUME f.source # RECENT PROVE FALSE
          OBVIOUS
        <5>2. j = f.source /\ j \in 1..latest
          BY <1>7, <4>1, <5>1 DEF Asked
        <5> QED BY <1>5, <3>1, <5>2
      <4>3. \A i \in 1..j : Missing(i) => i \in f.rows
        BY <2>3, <4>1, <4>2 DEF Fills
      <4> QED BY <1>13, <4>3 DEF Held
    <3> QED BY <3>2, <3>3, <3>4
  <2>7. CallsEnd'
    <3>1. SUFFICES ASSUME NEW k \in Tools, k \notin late', k \in DOMAIN m, NEW j \in m[k].ids,
                          journal[j].kind = "completed", m[k].open
                   PROVE  FALSE
      BY <1>3, <1>9 DEF CallsEnd
    <3>2. /\ j \in 1..n /\ T!Key(j) = k /\ journal[j].item = k /\ k \notin late
          /\ j \in Ids(transcript, k) \/ j \in Ids(P, k)
      <4>1. j \in 1..n /\ T!Key(j) = k
        BY <1>10, <3>1 DEF EntriesOf
      <4> QED BY <1>1, <1>3, <1>11, <3>1, <4>1, KeyFacts DEF Ids
    <3>3. j \in Ids(P, k) => P[k].last = j /\ ~P[k].open
      BY <1>8, <3>1, PageClosed DEF Ids
    <3>4. CASE k \in DOMAIN transcript /\ (k \in DOMAIN P => P[k].last \in transcript[k].ids)
      <4>1. transcript[k].open
        BY <1>10, <3>1, <3>4 DEF MergeOf
      <4>2. j \in transcript[k].ids
        BY <3>2, <3>3, <3>4 DEF Ids
      <4>3. k \in Tools \ late /\ k \in DOMAIN transcript /\ journal[j].kind = "completed"
        BY <3>1, <3>2, <3>4
      <4>4. CallsEnd
        BY <2>1 DEF Paging
      <4> QED BY <4>1, <4>2, <4>3, <4>4 DEF CallsEnd
    <3>5. CASE k \in DOMAIN P /\ P[k].last \notin Ids(transcript, k)
      <4>1. m[k].open = P[k].open
        BY <1>10, <3>5 DEF MergeOf
      <4>2. j \notin Ids(P, k) /\ j \in Ids(transcript, k)
        BY <3>1, <3>2, <3>3, <4>1
      <4>3. k \in DOMAIN transcript /\ j \in transcript[k].ids
        BY <4>2 DEF Ids
      <4>4. PICK i : i = P[k].last
        OBVIOUS
      <4>5. /\ i \in P[k].ids /\ Pending(i) /\ i \in f.rows /\ i \in 1..Len(journal)
            /\ i \notin transcript[k].ids /\ T!Key(i) = k
        BY <1>8, <3>1, <3>5, <4>1, <4>3, <4>4 DEF PageOf, EntriesOf, Ids
      <4>6. journal[i].item = k /\ journal[i].kind = "started"
        BY <3>1, <4>5, KeyFacts DEF Pending
      <4>7. j \notin f.rows
        <5>1. T!Shows(j)
          BY <1>1, <3>1, <3>2, KeyFacts
        <5> QED BY <1>8, <3>2, <4>2, <5>1 DEF PageOf, T!Shows
      <4>8. DOMAIN journal = 1..Len(journal)
        BY <1>5
      <4>9. i \in T!Events("started", k) /\ j \in T!Events("completed", k)
        BY <1>1, <3>1, <3>2, <4>5, <4>6, <4>8 DEF T!Events
      <4>10. T!StartAfterEnd(k, f.rows)
        BY <4>3, <4>5, <4>7, <4>9 DEF T!StartAfterEnd
      <4> QED BY <1>3, <3>1, <4>10
    <3>6. k \in DOMAIN transcript \/ k \in DOMAIN P
      BY <1>10, <3>1 DEF MergeOf
    <3> QED BY <3>4, <3>5, <3>6 DEF Ids
  <2> QED BY <2>2, <2>4, <2>5, <2>6, <2>7 DEF Paging
<1> QED BY <1>17, <1>18, <1>19, <1>20 DEF RowsInv

LEMMA RowsStep ==
    ASSUME T!TranscriptAssumption, RowsInv, [T!Next]_(T!vars)
    PROVE  RowsInv'
<1>1. DOMAIN flight = 1..Len(flight)
  BY DEF RowsInv, RowsTyped
<1>2. CASE T!Next
  BY <1>1, <1>2, RunsKeep, StreamKeeps, StartOverKeeps, ScopeKeeps, AsksKeep, ServeKeeps,
     ArriveKeeps, FailKeeps
     DEF T!Next, T!Serves, T!Arrives, T!Fails
<1>3. CASE UNCHANGED T!vars
  <2>1. UNCHANGED <<journal, transcript, latest, pager, flight, overtaken, late>>
    BY <1>3 DEF T!vars
  <2> QED BY <2>1, StayKeeps
<1> QED BY <1>2, <1>3

(* What the page shows when everything has arrived.                         *)
LEMMA QuietShows ==
    ASSUME T!TranscriptAssumption, RowsInv, T!Quiet, ~overtaken
    PROVE  /\ \A i \in DOMAIN journal : T!Shows(i) => i \in Ids(transcript, T!Key(i))
           /\ \A k \in Tools \ late : T!Events("completed", k) # {} => T!Finished(k)
<1>1. DOMAIN journal = 1..Len(journal) /\ Paging
  BY DEF RowsInv, RowsTyped
<1>2. Held(Len(journal))
  <2>1. PICK p : p = pager[RECENT]
    OBVIOUS
  <2>2. p.loaded /\ p.cursor = NONE /\ latest = Len(journal) /\ CursorHeld(p)
    BY <1>1, <2>1 DEF T!Quiet, T!Ended, Paging
  <2>3. Held(latest)
    BY <2>2 DEF CursorHeld
  <2> QED BY <2>2, <2>3
<1>3. \A i \in DOMAIN journal : T!Shows(i) => i \in Ids(transcript, T!Key(i))
  BY <1>1, <1>2 DEF Held, Missing, HasRow
<1>4. ASSUME NEW k \in Tools \ late, NEW j \in T!Events("completed", k) PROVE T!Finished(k)
  <2>1. j \in 1..Len(journal) /\ journal[j].item = k /\ journal[j].kind = "completed" /\ k \in T!Items
    BY <1>1, <1>4 DEF T!Events, T!Items
  <2>2. T!Shows(j) /\ T!Key(j) = k
    BY <2>1, KeyFacts
  <2>3. k \in DOMAIN transcript /\ j \in transcript[k].ids
    BY <1>1, <1>3, <2>1, <2>2 DEF Ids
  <2> QED BY <1>1, <2>1, <2>3 DEF Paging, CallsEnd, T!Finished
<1> QED BY <1>3, <1>4

(* The promises an instance of Transcript makes are those of Rows.          *)
LEMMA RowsInvPromises ==
    ASSUME T!TranscriptAssumption, RowsInv
    PROVE  NoHole /\ CallsEndFinished
<1>1. T!Quiet <=> Quiet
  BY DEF T!Quiet, Quiet, T!Ended, Ended
<1>2. \A i : T!Key(i) = Key(i)
  BY DEF T!Key, Key, T!Items, Items
<1>3. \A i : T!Shows(i) <=> Shows(i)
  BY <1>2 DEF T!Shows, Shows, T!transcriptItemFromCompactRow, transcriptItemFromCompactRow,
     T!Empty, Empty
<1>4. \A kind, k : T!Events(kind, k) = Events(kind, k)
  BY DEF T!Events, Events
<1>5. \A k : T!Finished(k) <=> Finished(k)
  BY DEF T!Finished, Finished
<1>6. NoHole
  BY <1>1, <1>2, <1>3, QuietShows DEF NoHole, Ids
<1>7. CallsEndFinished
  BY <1>1, <1>4, <1>5, QuietShows DEF CallsEndFinished
<1> QED BY <1>6, <1>7

(* When everything has arrived, every row of the run is in an entry of the  *)
(* page (store.ts, indexer.ts): the paging leaves no hole.                  *)
THEOREM NoHoleHolds ==
    ASSUME T!TranscriptAssumption
    PROVE  T!Spec => []NoHole
<1>1. T!Init => RowsInv
  BY RowsInit
<1>2. RowsInv /\ [T!Next]_(T!vars) => RowsInv'
  BY RowsStep
<1>3. RowsInv => NoHole
  BY RowsInvPromises
<1> QED BY <1>1, <1>2, <1>3, PTL DEF T!Spec

(* When everything has arrived, a finished tool call is shown as finished,  *)
(* unless the page was told of its start after its end.                     *)
THEOREM CallsEndFinishedHolds ==
    ASSUME T!TranscriptAssumption
    PROVE  T!Spec => []CallsEndFinished
<1>1. T!Init => RowsInv
  BY RowsInit
<1>2. RowsInv /\ [T!Next]_(T!vars) => RowsInv'
  BY RowsStep
<1>3. RowsInv => CallsEndFinished
  BY RowsInvPromises
<1> QED BY <1>1, <1>2, <1>3, PTL DEF T!Spec
=============================================================================
