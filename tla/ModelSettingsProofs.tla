------------------------- MODULE ModelSettingsProofs -------------------------
(* A turn runs under the model its state declares, for every workflow and   *)
(* every bound, with the exceptions SettingsInForce names.                  *)
EXTENDS ModelSettings, FiniteSetTheorems, TLAPS

(******************************* the invariant ******************************)
Values == {Model[s] : s \in States} \cup {Default}
Phases == {"dormant", "applying", "sent", "done"}
UpdateRecords == [thread : Nat, model : Values, phase : Phases]
Segments == [kind : {"none", "apply", "clear"}, update : Nat, upto : Nat]
ProducerRecords == [kind : TaskKinds, visit : Nat, thread : Nat, own : Nat, upto : Nat]
RequestRecords == [id : 1..MaxRequests, update : Nat, clears : BOOLEAN]
ClearRecords == [pc : {"no", "queued", "begin", "opening", "bound"}, model : Values, held : BOOLEAN]
Shape ==
    /\ at \in States /\ moves \in Nat /\ bound \in Threads /\ draining \in BOOLEAN
    /\ inForce \in [Threads -> Values] /\ due \in Values /\ fate \in Fates
    /\ updates \in Seq(UpdateRecords) /\ \A i \in 1..Latest : updates[i].thread <= bound
    /\ queue \in Seq(Segments) /\ held \in Segments /\ clear \in ClearRecords
    /\ parked \subseteq RequestRecords /\ requests \in 0..MaxRequests
    /\ producers \subseteq ProducerRecords /\ \A p \in producers : p.thread <= bound

(* Updates are answered in their order.                                     *)
Order == \A i \in 1..Latest : updates[i].phase \in {"sent", "done"} => SettledUpTo(i - 1)

(* What a reply will queue is queued once: the segment of an update that    *)
(* waits for it, or of a fresh clear that does.                             *)
Owes(r) == (IF r.update # 0 THEN {ApplySegment(r.update)} ELSE {})
             \cup (IF r.clears THEN {ClearSegment} ELSE {})
Entries(q) == {q[a] : a \in 1..Len(q)}
Distinct(q) == \A a, b \in 1..Len(q) : q[a] = q[b] => a = b
Wanted(x) ==
    \/ x = ClearSegment /\ clear.pc = "queued"
    \/ \E i \in 1..Latest : x = ApplySegment(i) /\ updates[i].phase = "dormant"
Once ==
    /\ Distinct(queue)
    /\ \A x \in Entries(queue) : Wanted(x)
    /\ \A r \in parked : r.id <= requests /\ \A x \in Owes(r) : Wanted(x) /\ x \notin Entries(queue)
    /\ \A r, q \in parked : r # q => r.id # q.id /\ Owes(r) \cap Owes(q) = {}

(* Until the replacement of a thread is bound it is to open under the model *)
(* that is due.                                                             *)
Draining ==
    /\ draining <=> clear.pc \in {"queued", "begin", "opening"}
    /\ draining => bound + 1 \in Threads /\ fate \in {"registered", "displaced"}
    /\ draining /\ fate = "registered" => clear.model = due
    /\ \A p \in producers : p.kind = "clear" => clear.pc = "bound"
    /\ \A p, q \in producers : p.kind = "clear" /\ q.kind = "clear" => p = q

Visits ==
    /\ \A p \in producers : p.visit <= moves /\ p.upto <= Latest
    /\ draining => \A p \in producers : p.kind \in {"kickoff", "drive"} => p.visit # moves
    /\ Declares(at) => due = Model[at]

(* The first n updates leave the bound thread with the model that is due,   *)
(* and no later one changes it.                                             *)
Pending(i) == updates[i].thread = bound /\ updates[i].phase # "done"
Leads(n) ==
    /\ (\A i \in 1..n : ~Pending(i)) => inForce[bound] = due
    /\ \A i \in 1..n : Pending(i) /\ (\A j \in i + 1..n : ~Pending(j)) => updates[i].model = due
    /\ \A i \in n + 1..Latest : Pending(i) => updates[i].model = due

(* All updates together do so; for a visit whose model was registered at    *)
(* the transition, so do those a turn of the visit waits for.               *)
Waits(p) ==
    /\ p.kind \in {"kickoff", "drive"} \/ (p.kind \in {"prompt", "clear"} /\ p.thread = bound)
    /\ p.visit = moves /\ p.own = 0
Leading ==
    ~draining =>
      /\ fate \in {"registered", "danced"} => Leads(Latest)
      /\ fate = "registered" => \A p \in producers : Waits(p) => Leads(p.upto)

All == Shape /\ Order /\ Once /\ Draining /\ Visits /\ Leading

(********************************* sequences ********************************)
LEMMA Phased ==
    ASSUME NEW u \in Seq(UpdateRecords), NEW i \in 1..Len(u), NEW ph \in Phases
    PROVE  /\ [u EXCEPT ![i].phase = ph] \in Seq(UpdateRecords)
           /\ Len([u EXCEPT ![i].phase = ph]) = Len(u)
           /\ \A j \in 1..Len(u) : /\ [u EXCEPT ![i].phase = ph][j].thread = u[j].thread
                                   /\ [u EXCEPT ![i].phase = ph][j].model = u[j].model
                                   /\ [u EXCEPT ![i].phase = ph][j].phase = IF j = i THEN ph ELSE u[j].phase
<1>1. PICK x : x = u[i] /\ x \in UpdateRecords
  OBVIOUS
<1>2. PICK y : y = [x EXCEPT !.phase = ph]
  OBVIOUS
<1>3. y \in UpdateRecords /\ y.thread = x.thread /\ y.model = x.model /\ y.phase = ph
  BY <1>1, <1>2 DEF UpdateRecords
<1>4. PICK v : v = [u EXCEPT ![i].phase = ph] /\ v = [u EXCEPT ![i] = y]
  BY <1>1, <1>2
<1>5. v \in Seq(UpdateRecords) /\ Len(v) = Len(u) /\ \A j \in 1..Len(u) : v[j] = IF j = i THEN y ELSE u[j]
  BY <1>3, <1>4
<1> QED BY <1>1, <1>3, <1>4, <1>5

LEMMA Appended ==
    ASSUME NEW S, NEW u \in Seq(S), NEW x \in S
    PROVE  /\ Append(u, x) \in Seq(S) /\ Len(Append(u, x)) = Len(u) + 1
           /\ \A j \in 1..Len(u) : Append(u, x)[j] = u[j]
           /\ Append(u, x)[Len(u) + 1] = x
OBVIOUS

LEMMA Joined ==
    ASSUME NEW S, NEW s \in Seq(S), NEW t \in Seq(S)
    PROVE  /\ s \o t \in Seq(S) /\ Entries(s \o t) = Entries(s) \cup Entries(t)
           /\ Distinct(s) /\ Distinct(t) /\ Entries(s) \cap Entries(t) = {} => Distinct(s \o t)
<1>1. PICK q : q = s \o t
  OBVIOUS
<1>2. /\ q \in Seq(S) /\ Len(q) = Len(s) + Len(t) /\ Len(s) \in Nat /\ Len(t) \in Nat
      /\ \A j \in 1..Len(q) : q[j] = IF j <= Len(s) THEN s[j] ELSE t[j - Len(s)]
  BY <1>1
<1>3. ASSUME NEW j \in 1..Len(q)
      PROVE  \/ j \in 1..Len(s) /\ q[j] = s[j] /\ q[j] \in Entries(s)
             \/ j - Len(s) \in 1..Len(t) /\ j > Len(s) /\ q[j] = t[j - Len(s)] /\ q[j] \in Entries(t)
  BY <1>2 DEF Entries
<1>4. Entries(q) \subseteq Entries(s) \cup Entries(t)
  BY <1>3 DEF Entries
<1>5. Entries(s) \subseteq Entries(q)
  BY <1>2 DEF Entries
<1>6. Entries(t) \subseteq Entries(q)
  <2>1. ASSUME NEW j \in 1..Len(t) PROVE t[j] \in Entries(q)
    <3>1. j + Len(s) \in 1..Len(q) /\ ~(j + Len(s) <= Len(s)) /\ (j + Len(s)) - Len(s) = j
      BY <1>2
    <3>2. q[j + Len(s)] = t[j]
      BY <1>2, <3>1
    <3> QED BY <3>1, <3>2 DEF Entries
  <2> QED BY <2>1 DEF Entries
<1>7. ASSUME Distinct(s), Distinct(t), Entries(s) \cap Entries(t) = {} PROVE Distinct(q)
  <2>1. ASSUME NEW a \in 1..Len(q), NEW b \in 1..Len(q), q[a] = q[b] PROVE a = b
    <3>1. CASE a \in 1..Len(s) /\ b \in 1..Len(s)
      BY <1>2, <1>7, <2>1, <3>1 DEF Distinct
    <3>2. CASE a > Len(s) /\ b > Len(s)
      <4>1. /\ a - Len(s) \in 1..Len(t) /\ b - Len(s) \in 1..Len(t)
            /\ t[a - Len(s)] = t[b - Len(s)]
        BY <1>2, <2>1, <3>2
      <4>2. a - Len(s) = b - Len(s)
        BY <1>7, <4>1 DEF Distinct
      <4> QED BY <1>2, <4>2
    <3> QED BY <1>2, <1>3, <1>7, <2>1, <3>1, <3>2
  <2> QED BY <2>1 DEF Distinct
<1> QED BY <1>1, <1>2, <1>4, <1>5, <1>6, <1>7

LEMMA TailLeft ==
    ASSUME NEW S, NEW q \in Seq(S), q # <<>>, Distinct(q)
    PROVE  /\ Tail(q) \in Seq(S) /\ Distinct(Tail(q)) /\ Head(q) \in S /\ Head(q) \in Entries(q)
           /\ Entries(Tail(q)) \subseteq Entries(q) \ {Head(q)}
<1>1. PICK t : t = Tail(q)
  OBVIOUS
<1>2. /\ t \in Seq(S) /\ Len(q) \in Nat /\ Len(q) >= 1 /\ Len(t) = Len(q) - 1 /\ Head(q) = q[1]
      /\ \A j \in 1..Len(t) : t[j] = q[j + 1]
  BY <1>1
<1>3. \A j \in 1..Len(t) : j + 1 \in 1..Len(q) /\ t[j] \in Entries(q) /\ t[j] # q[1]
  BY <1>2 DEF Distinct, Entries
<1>4. Distinct(t)
  <2>1. ASSUME NEW a \in 1..Len(t), NEW b \in 1..Len(t), t[a] = t[b] PROVE a = b
    <3>1. q[a + 1] = q[b + 1] /\ a + 1 \in 1..Len(q) /\ b + 1 \in 1..Len(q)
      BY <1>2, <1>3, <2>1
    <3>2. a + 1 = b + 1
      BY <3>1 DEF Distinct
    <3> QED BY <3>2
  <2> QED BY <2>1 DEF Distinct
<1>5. Head(q) \in S /\ Head(q) \in Entries(q)
  BY <1>2 DEF Entries
<1> QED BY <1>1, <1>2, <1>3, <1>4, <1>5 DEF Entries

LEMMA AfterReply ==
    ASSUME NEW r, r.update \in Nat
    PROVE  /\ RunsAfterReply(r.update, r.clears) \in Seq(Segments)
           /\ Entries(RunsAfterReply(r.update, r.clears)) = Owes(r)
           /\ Distinct(RunsAfterReply(r.update, r.clears))
<1> DEFINE s == IF r.update # 0 THEN <<ApplySegment(r.update)>> ELSE <<>>
           t == IF r.clears THEN <<ClearSegment>> ELSE <<>>
<1>2. ApplySegment(r.update) \in Segments /\ ClearSegment \in Segments /\ ApplySegment(r.update) # ClearSegment
  BY DEF ApplySegment, ClearSegment, Segments
<1>3. \A x \in Segments : <<x>> \in Seq(Segments) /\ Entries(<<x>>) = {x} /\ Distinct(<<x>>)
  BY DEF Entries, Distinct
<1>4. <<>> \in Seq(Segments) /\ Entries(<<>>) = {} /\ Distinct(<<>>)
  BY DEF Entries, Distinct
<1>5. /\ s \in Seq(Segments) /\ Distinct(s)
      /\ Entries(s) = IF r.update # 0 THEN {ApplySegment(r.update)} ELSE {}
  BY <1>2, <1>3, <1>4
<1>6. /\ t \in Seq(Segments) /\ Distinct(t)
      /\ Entries(t) = IF r.clears THEN {ClearSegment} ELSE {}
  BY <1>2, <1>3, <1>4
<1>7. RunsAfterReply(r.update, r.clears) = s \o t
  BY DEF RunsAfterReply
<1> HIDE DEF s, t
<1>8. Entries(s) \cap Entries(t) = {} /\ Owes(r) = Entries(s) \cup Entries(t)
  BY <1>2, <1>5, <1>6 DEF Owes
<1>9. PICK T, v, w : T = Segments /\ v = s /\ w = t
  OBVIOUS
<1>10. v \in Seq(T) /\ w \in Seq(T) /\ Distinct(v) /\ Distinct(w) /\ Entries(v) \cap Entries(w) = {}
  BY <1>5, <1>6, <1>8, <1>9
<1>11. v \o w \in Seq(T) /\ Entries(v \o w) = Entries(v) \cup Entries(w) /\ Distinct(v \o w)
  BY <1>10, Joined
<1> QED BY <1>7, <1>8, <1>9, <1>11

(********************************* induction ********************************)
LEMMA Least ==
    ASSUME NEW T \in SUBSET Nat, NEW n \in T
    PROVE  \E m \in T : \A k \in T : m <= k
<1> DEFINE D == {0..k : k \in T}
<1>1. D \subseteq FiniteSubsetsOf(Nat) /\ D # {}
  <2>1. ASSUME NEW k \in T PROVE IsFiniteSet(0..k) /\ 0..k \in SUBSET Nat
    BY FS_Interval
  <2> QED BY <2>1 DEF FiniteSubsetsOf
<1>2. PICK x \in D : \A y \in D : ~(<<y, x>> \in StrictSubsetOrdering(Nat))
  BY <1>1, FS_StrictSubsetOrderingWellFounded, WFMin
<1>3. PICK m \in T : x = 0..m
  OBVIOUS
<1>4. ASSUME NEW k \in T, k < m PROVE FALSE
  <2>1. 0..k \in D /\ 0..k \subseteq 0..m /\ 0..k # 0..m /\ 0..m \in SUBSET Nat /\ 0..k \in SUBSET Nat
    BY <1>4
  <2> QED BY <1>2, <1>3, <2>1 DEF StrictSubsetOrdering
<1> QED BY <1>4

(* Induction over the natural numbers, for a set in the place of the        *)
(* formula.                                                                 *)
LEMMA Induction ==
    ASSUME NEW S, 0 \in S, \A n \in Nat : n \in S => n + 1 \in S
    PROVE  Nat \subseteq S
<1> SUFFICES ASSUME NEW n \in Nat, n \notin S PROVE FALSE
  OBVIOUS
<1>1. PICK m \in Nat \ S : \A k \in Nat \ S : m <= k
  <2>1. Nat \ S \in SUBSET Nat /\ n \in Nat \ S
    OBVIOUS
  <2> QED BY <2>1, Least
<1>2. m - 1 \in Nat /\ m - 1 \in S
  BY <1>1
<1> QED BY <1>1, <1>2

(* Functions applied one after another.                                     *)
Applied(f, n, a, K) == f[0] = a /\ \A i \in 1..n : f[i] = K[i][f[i - 1]]

LEMMA Applications ==
    ASSUME NEW M \in Nat, NEW X, NEW a \in X, NEW K \in [1..M -> [X -> X]]
    PROVE  \E f \in [0..M -> X] : Applied(f, M, a, K)
<1> DEFINE S == {n \in Nat : n <= M => \E f \in [0..n -> X] : Applied(f, n, a, K)}
<1>1. 0 \in S
  <2>1. [i \in 0..0 |-> a] \in [0..0 -> X] /\ Applied([i \in 0..0 |-> a], 0, a, K)
    BY DEF Applied
  <2> QED BY <2>1
<1>2. \A n \in Nat : n \in S => n + 1 \in S
  <2>1. ASSUME NEW n \in Nat, n + 1 <= M, NEW f \in [0..n -> X], Applied(f, n, a, K)
        PROVE  \E g \in [0..(n + 1) -> X] : Applied(g, n + 1, a, K)
    <3>1. PICK x : x = K[n + 1][f[n]]
      OBVIOUS
    <3>2. x \in X
      BY <2>1, <3>1
    <3>3. PICK g : g = [i \in 0..(n + 1) |-> IF i <= n THEN f[i] ELSE x]
      OBVIOUS
    <3>4. g \in [0..(n + 1) -> X] /\ g[0] = a
      BY <2>1, <3>2, <3>3 DEF Applied
    <3>5. ASSUME NEW i \in 1..(n + 1) PROVE g[i] = K[i][g[i - 1]]
      <4>1. i - 1 \in 0..n /\ g[i - 1] = f[i - 1]
        BY <3>3
      <4>2. CASE i <= n
        BY <2>1, <3>3, <4>1, <4>2 DEF Applied
      <4>3. CASE ~(i <= n)
        <5>1. i = n + 1 /\ i - 1 = n
          BY <4>3
        <5> QED BY <3>1, <3>3, <4>1, <4>3, <5>1
      <4> QED BY <4>2, <4>3
    <3> QED BY <3>4, <3>5 DEF Applied
  <2>2. \A n \in Nat : n + 1 <= M => n <= M
    OBVIOUS
  <2> QED BY <2>1, <2>2
<1>3. Nat \subseteq S
  BY <1>1, <1>2, Induction
<1> QED BY <1>3

(* What declining every parked request queues.                              *)
LEMMA Declined ==
    ASSUME NEW R \in SUBSET RequestRecords,
           \A r, q \in R : r # q => r.id # q.id /\ Owes(r) \cap Owes(q) = {}
    PROVE  /\ ReplyAll(R) \in Seq(Segments) /\ Distinct(ReplyAll(R))
           /\ Entries(ReplyAll(R)) \subseteq UNION {Owes(r) : r \in R}
<1>1. PICK M \in Nat : M = MaxRequests
  BY SettingsAssumption
<1> DEFINE Lists == {<<r.id, RunsAfterReply(r.update, r.clears)>> : r \in R}
           Part(n) == IF \E l \in Lists : l[1] = n THEN (CHOOSE l \in Lists : l[1] = n)[2] ELSE <<>>
           Within(n) == UNION {Owes(r) : r \in {r \in R : r.id <= n}}
<1>2. ASSUME NEW n \in 1..M
      PROVE  \/ Part(n) = <<>>
             \/ \E r \in R : r.id = n /\ Part(n) = RunsAfterReply(r.update, r.clears)
  <2>1. CASE ~\E l \in Lists : l[1] = n
    BY <2>1
  <2>2. CASE \E l \in Lists : l[1] = n
    <3>1. PICK l : l = CHOOSE k \in Lists : k[1] = n
      OBVIOUS
    <3>2. l \in Lists /\ l[1] = n
      BY <2>2, <3>1
    <3>3. PICK r \in R : l = <<r.id, RunsAfterReply(r.update, r.clears)>>
      BY <3>2
    <3>4. r.id = n /\ Part(n) = RunsAfterReply(r.update, r.clears)
      BY <2>2, <3>1, <3>2, <3>3
    <3> QED BY <3>4
  <2> QED BY <2>1, <2>2
<1>3. PICK P : P = [n \in 1..M |-> Part(n)]
  OBVIOUS
<1>4. ReplyAll(R) = LET Ordered[n \in 0..M] == IF n = 0 THEN <<>> ELSE Ordered[n - 1] \o Part(n) IN Ordered[M]
  BY <1>1 DEF ReplyAll
<1> HIDE DEF Part
<1>5. ASSUME NEW n \in 1..M
      PROVE  /\ P[n] \in Seq(Segments) /\ Distinct(P[n])
             /\ Entries(P[n]) = {} \/ \E r \in R : r.id = n /\ Entries(P[n]) = Owes(r)
  <2>1. CASE Part(n) = <<>>
    BY <1>3, <2>1 DEF Entries, Distinct
  <2>2. ASSUME NEW r \in R, r.id = n, Part(n) = RunsAfterReply(r.update, r.clears)
        PROVE  /\ P[n] \in Seq(Segments) /\ Distinct(P[n])
               /\ Entries(P[n]) = {} \/ \E q \in R : q.id = n /\ Entries(P[n]) = Owes(q)
    <3>1. r.update \in Nat
      BY DEF RequestRecords
    <3> QED BY <1>3, <2>2, <3>1, AfterReply
  <2> QED BY <1>2, <2>1, <2>2
<1>6. PICK X, K : X = Seq(Segments) /\ K = [n \in 1..M |-> [s \in X |-> s \o P[n]]]
  OBVIOUS
<1>7. PICK f \in [0..M -> X] : f[0] = <<>> /\ \A i \in 1..M : f[i] = f[i - 1] \o P[i]
  <2>1. \A n \in 1..M : P[n] \in Seq(Segments)
    BY <1>5
  <2>2. K \in [1..M -> [X -> X]] /\ <<>> \in X
    BY <1>6, <2>1
  <2>3. PICK a \in X : a = <<>>
    BY <2>2
  <2>4. PICK f \in [0..M -> X] : Applied(f, M, a, K)
    BY <2>2, Applications
  <2>5. \A i \in 1..M : f[i] = f[i - 1] \o P[i]
    <3>1. ASSUME NEW i \in 1..M PROVE f[i] = f[i - 1] \o P[i]
      <4>1. i - 1 \in 0..M
        OBVIOUS
      <4>2. PICK s \in X : s = f[i - 1]
        BY <4>1
      <4>3. K[i][s] = s \o P[i]
        BY <1>6
      <4> QED BY <2>4, <4>2, <4>3 DEF Applied
    <3> QED BY <3>1
  <2> QED BY <2>3, <2>4, <2>5 DEF Applied
<1>8. PICK h : /\ h = CHOOSE g : g = [n \in 0..M |-> IF n = 0 THEN <<>> ELSE g[n - 1] \o Part(n)]
               /\ ReplyAll(R) = h[M]
  BY <1>4
<1>9. f = [n \in 0..M |-> IF n = 0 THEN <<>> ELSE f[n - 1] \o Part(n)]
  <2>1. ASSUME NEW n \in 0..M PROVE f[n] = IF n = 0 THEN <<>> ELSE f[n - 1] \o Part(n)
    <3>1. CASE n = 0
      BY <1>7, <3>1
    <3>2. CASE n # 0
      <4>1. n \in 1..M
        BY <3>2
      <4> QED BY <1>3, <1>7, <3>2, <4>1
    <3> QED BY <3>1, <3>2
  <2> QED BY <2>1
<1>10. h = [n \in 0..M |-> IF n = 0 THEN <<>> ELSE h[n - 1] \o Part(n)]
  BY <1>8, <1>9
<1> DEFINE Good(n) == h[n] \in Seq(Segments) /\ Distinct(h[n]) /\ Entries(h[n]) \subseteq Within(n)
           S == {n \in Nat : n <= M => Good(n)}
<1>11. Good(0)
  <2>1. h[0] = <<>>
    BY <1>10
  <2> QED BY <2>1 DEF Entries, Distinct
<1>12. \A n \in Nat : n + 1 <= M /\ Good(n) => Good(n + 1)
  <2>1. ASSUME NEW n \in Nat, n + 1 <= M, h[n] \in Seq(Segments), Distinct(h[n]), Entries(h[n]) \subseteq Within(n)
        PROVE  /\ h[n + 1] \in Seq(Segments) /\ Distinct(h[n + 1])
               /\ Entries(h[n + 1]) \subseteq Within(n + 1)
    <3>1. n + 1 \in 1..M /\ (n + 1) - 1 = n
      BY <2>1
    <3>2. PICK T, s, t : T = Segments /\ s = h[n] /\ t = P[n + 1]
      OBVIOUS
    <3>3. h[n + 1] = s \o t
      <4>1. n + 1 \in 0..M /\ n + 1 # 0
        BY <3>1
      <4>2. h[n + 1] = h[n] \o Part(n + 1)
        BY <1>10, <3>1, <4>1
      <4> QED BY <1>3, <3>1, <3>2, <4>2
    <3>4. /\ t \in Seq(T) /\ Distinct(t)
          /\ Entries(t) = {} \/ \E r \in R : r.id = n + 1 /\ Entries(t) = Owes(r)
      BY <1>5, <3>1, <3>2
    <3>5. s \in Seq(T) /\ Distinct(s) /\ Entries(s) \subseteq Within(n)
      BY <2>1, <3>2
    <3>6. Entries(s) \cap Entries(t) = {} /\ Entries(t) \subseteq Within(n + 1)
      <4>1. CASE Entries(t) = {}
        BY <4>1
      <4>2. ASSUME NEW r \in R, r.id = n + 1, Entries(t) = Owes(r)
            PROVE  Entries(s) \cap Entries(t) = {} /\ Entries(t) \subseteq Within(n + 1)
        <5>1. \A q \in R : q.id <= n => q # r
          BY <4>2
        <5>2. Within(n) \cap Owes(r) = {}
          BY <5>1
        <5> QED BY <3>5, <4>2, <5>2
      <4> QED BY <3>4, <4>1, <4>2
    <3>7. Within(n) \subseteq Within(n + 1)
      BY DEF RequestRecords
    <3>8. /\ s \o t \in Seq(T) /\ Distinct(s \o t) /\ Entries(s \o t) = Entries(s) \cup Entries(t)
      BY <3>4, <3>5, <3>6, Joined
    <3> QED BY <3>2, <3>3, <3>5, <3>6, <3>7, <3>8
  <2> QED BY <2>1
<1> HIDE DEF Good
<1>13. Nat \subseteq S
  <2>1. 0 \in S
    BY <1>11
  <2>2. \A n \in Nat : n \in S => n + 1 \in S
    <3>1. \A n \in Nat : n + 1 <= M => n <= M
      BY <1>1
    <3> QED BY <1>12, <3>1
  <2> QED BY <2>1, <2>2, Induction
<1>14. Good(M)
  BY <1>13
<1> QED BY <1>8, <1>14 DEF Good

(********************************* transitions ******************************)
LEMMA Declarations ==
    ASSUME NEW s \in States
    PROVE  /\ Model[s] \in Values /\ Default \in Values
           /\ \A m, other \in Values : Or(m, other) \in Values
           /\ Declares(s) => s \notin Clear /\ \A m : Or(Model[s], m) = Model[s]
           /\ ~Declares(s) /\ s \notin Clear => \A m : Or(Model[s], m) = m
BY SettingsAssumption DEF Values, Or, Declares, Stateful

LEMMA NewUpdate ==
    ASSUME Shape, NEW s \in States, NEW ph \in {"dormant", "applying"},
           updates' = Append(updates, Update(s, ph))
    PROVE  /\ updates' \in Seq(UpdateRecords) /\ Latest' = Latest + 1 /\ Latest \in Nat
           /\ \A i \in 1..Latest : updates'[i] = updates[i]
           /\ updates'[Latest + 1].thread = bound /\ updates'[Latest + 1].model = Model[s]
           /\ updates'[Latest + 1].phase = ph
<1>1. PICK x : x = Update(s, ph)
  OBVIOUS
<1>2. x.thread = bound /\ x.model = Model[s] /\ x.phase = ph
  BY <1>1 DEF Update
<1>3. x \in UpdateRecords
  BY <1>1, Declarations DEF Update, UpdateRecords, Shape, Threads, Phases
<1>4. updates \in Seq(UpdateRecords)
  BY DEF Shape
<1>5. PICK U : U = UpdateRecords
  OBVIOUS
<1>6. /\ Append(updates, x) \in Seq(U) /\ Len(Append(updates, x)) = Len(updates) + 1 /\ Len(updates) \in Nat
      /\ \A j \in 1..Len(updates) : Append(updates, x)[j] = updates[j]
      /\ Append(updates, x)[Len(updates) + 1] = x
  BY <1>3, <1>4, <1>5, Appended
<1> QED BY <1>1, <1>2, <1>5, <1>6 DEF Latest

LEMMA ThreadsBound ==
    ASSUME Shape, NEW s \in States, NEW ph \in {"dormant", "applying"},
           updates' = Append(updates, Update(s, ph))
    PROVE  \A i \in 1..Latest' : updates'[i].thread <= bound
<1>1. PICK u, n : u = updates' /\ n = Latest
  OBVIOUS
<1>2. /\ n \in Nat /\ Latest' = n + 1 /\ u[n + 1].thread = bound
      /\ \A i \in 1..n : u[i].thread = updates[i].thread
  BY <1>1, NewUpdate
<1>3. bound \in Nat /\ \A i \in 1..n : updates[i].thread <= bound
  BY <1>1, SettingsAssumption DEF Shape, Threads
<1>4. ASSUME NEW i \in 1..(n + 1) PROVE u[i].thread <= bound
  <2>1. CASE i = n + 1
    BY <1>2, <1>3, <2>1
  <2>2. CASE i # n + 1
    <3>1. i \in 1..n
      BY <1>2, <2>2
    <3> QED BY <1>2, <1>3, <3>1
  <2> QED BY <2>1, <2>2
<1> QED BY <1>1, <1>2, <1>4

LEMMA OrderGrows ==
    ASSUME Shape, Order, NEW s \in States, NEW ph \in {"dormant", "applying"},
           updates' = Append(updates, Update(s, ph))
    PROVE  Order'
<1>1. PICK k \in Nat : /\ k = Latest /\ Latest' = k + 1 /\ \A i \in 1..k : updates'[i] = updates[i]
                      /\ updates'[k + 1].phase = ph
  BY NewUpdate
<1>2. ASSUME NEW i \in 1..(k + 1), updates'[i].phase \in {"sent", "done"}, NEW j \in 1..(i - 1)
      PROVE  updates'[j].phase = "done"
  <2>1. i \in 1..k /\ j \in 1..k
    <3>1. updates'[k + 1].phase \notin {"sent", "done"}
      BY <1>1
    <3>2. i # k + 1
      BY <1>2, <3>1
    <3> QED BY <3>2
  <2>2. updates[i].phase \in {"sent", "done"}
    BY <1>1, <1>2, <2>1
  <2> QED BY <1>1, <2>1, <2>2 DEF Order, SettledUpTo
<1> QED BY <1>1, <1>2 DEF Order, SettledUpTo

(* An update of the model that is due, for the bound thread.                *)
LEMMA LeadsGrow ==
    ASSUME Shape, NEW s \in States, NEW ph \in {"dormant", "applying"},
           updates' = Append(updates, Update(s, ph)), UNCHANGED <<bound, inForce>>, due' = Model[s]
    PROVE  /\ Leads(Latest)'
           /\ \A n \in 0..Latest : due' = due /\ Leads(n) => Leads(n)'
<1>1. PICK k \in Nat : /\ k = Latest /\ Latest' = k + 1 /\ \A i \in 1..k : updates'[i] = updates[i]
                      /\ updates'[k + 1].phase = ph /\ updates'[k + 1].model = due'
                      /\ updates'[k + 1].thread = bound
  BY NewUpdate
<1>2. Pending(k + 1)' /\ \A i \in 1..k : Pending(i)' <=> Pending(i)
  BY <1>1 DEF Pending
<1>3. Leads(k + 1)'
  <2>1. ASSUME NEW i \in 1..(k + 1), Pending(i)', \A j \in i + 1..(k + 1) : ~Pending(j)'
        PROVE  updates'[i].model = due'
    <3>1. i = k + 1
      BY <1>2, <2>1
    <3> QED BY <1>1, <3>1
  <2>2. ~(\A i \in 1..(k + 1) : ~Pending(i)')
    BY <1>2
  <2>3. \A i \in (k + 1) + 1..Latest' : FALSE
    BY <1>1
  <2> QED BY <2>1, <2>2, <2>3 DEF Leads
<1>4. ASSUME NEW n \in 0..k, due' = due, Leads(n) PROVE Leads(n)'
  <2>1. \A i \in 1..n : i \in 1..k /\ \A j \in i + 1..n : j \in 1..k
    OBVIOUS
  <2>2. \A i \in n + 1..(k + 1) : i = k + 1 \/ (i \in 1..k /\ i \in n + 1..k)
    OBVIOUS
  <2>3. \A i \in n + 1..Latest' : Pending(i)' => updates'[i].model = due'
    BY <1>1, <1>2, <1>4, <2>2 DEF Leads
  <2>4. \A i \in 1..n : Pending(i)' /\ (\A j \in i + 1..n : ~Pending(j)') => updates'[i].model = due'
    BY <1>1, <1>2, <1>4, <2>1 DEF Leads
  <2>5. (\A i \in 1..n : ~Pending(i)') => inForce'[bound'] = due'
    BY <1>1, <1>2, <1>4, <2>1 DEF Leads
  <2> QED BY <2>3, <2>4, <2>5 DEF Leads
<1> QED BY <1>1, <1>3, <1>4

LEMMA LeadsKept ==
    ASSUME UNCHANGED <<updates, bound, inForce, due>>, NEW n, Leads(n)
    PROVE  Leads(n)'
BY DEF Leads, Pending, Latest

(* A transition that registers its model itself, or leaves that to its      *)
(* dance.                                                                   *)
LEMMA Moves ==
    ASSUME All, NEW s \in States, NEW byDance \in BOOLEAN, byDance => ~draining,
           MovesTo(s), MeetsFate(s, byDance), UNCHANGED <<bound, inForce>>,
           NEW ph \in {"dormant", "applying"},
           updates' = IF Declares(s) /\ ~byDance THEN Append(updates, Update(s, ph)) ELSE updates,
           NEW onChain \in BOOLEAN,
           IF s \in Clear THEN SchedulesClear(s, onChain) ELSE UNCHANGED <<draining, clear>>,
           NEW more \in SUBSET ProducerRecords, producers' = producers \cup more,
           \A p \in more : /\ p.kind \in {"orient", "item"} /\ p.visit <= moves' /\ p.upto <= Latest'
                           /\ p.thread <= bound
    PROVE  /\ at' \in States /\ moves' \in Nat /\ draining' \in BOOLEAN /\ due' \in Values /\ fate' \in Fates
           /\ updates' \in Seq(UpdateRecords) /\ \A i \in 1..Latest' : updates'[i].thread <= bound
           /\ clear' \in ClearRecords
           /\ producers' \subseteq ProducerRecords /\ \A p \in producers' : p.thread <= bound
           /\ Order' /\ Draining' /\ Visits' /\ Leading'
<1> USE DEF All
<1>1. /\ at' = s /\ moves' = moves + 1 /\ moves \in Nat /\ moves' \in Nat
      /\ due' = IF s \in Clear THEN Or(Model[s], Default) ELSE Or(Model[s], due)
      /\ s \in Clear => clear = NoClear /\ bound < MaxThreads
  BY DEF MovesTo, Shape
<1>2. due \in Values /\ due' \in Values /\ Model[s] \in Values /\ Or(Model[s], Default) \in Values
  BY <1>1, Declarations DEF Shape
<1>3. Declares(s) => /\ s \notin Clear /\ due' = Model[s]
                     /\ fate' = IF byDance THEN "pending" ELSE IF draining THEN "displaced" ELSE "registered"
  BY <1>1, Declarations DEF MeetsFate, Registered
<1>4. ~Declares(s) /\ s \notin Clear => due' = due /\ fate' = IF fate = "pending" THEN "passed" ELSE fate
  BY <1>1, Declarations DEF MeetsFate
<1>5. s \in Clear => /\ fate' = "registered" /\ ~draining /\ draining' = TRUE /\ clear'.model = due'
                     /\ clear'.pc \in {"queued", "begin"} /\ clear' \in ClearRecords /\ clear.pc = "no"
  <2>1. s \in Clear => clear.pc = "no" /\ ~draining
    BY <1>1 DEF NoClear, Draining
  <2>2. PICK pc \in {"queued", "begin"} : pc = IF onChain THEN "queued" ELSE "begin"
    OBVIOUS
  <2>3. s \in Clear => /\ draining' = TRUE
                       /\ clear' = [pc |-> pc, model |-> Or(Model[s], Default), held |-> onChain]
    BY <2>2 DEF SchedulesClear
  <2>4. s \in Clear => clear'.pc = pc /\ clear'.model = due' /\ clear' \in ClearRecords
    BY <1>1, <1>2, <2>3 DEF ClearRecords
  <2>5. s \in Clear => fate' = "registered"
    BY Declarations DEF MeetsFate
  <2> QED BY <2>1, <2>3, <2>4, <2>5
<1>6. fate' \in Fates
  BY <1>3, <1>4, <1>5 DEF Shape, Fates
<1>7. PICK k \in Nat : /\ k = Latest /\ Latest' \in {k, k + 1} /\ updates' \in Seq(UpdateRecords)
                      /\ \A i \in 1..Latest' : updates'[i].thread <= bound
  <2>1. CASE Declares(s) /\ ~byDance
    <3>1. /\ updates' \in Seq(UpdateRecords) /\ Latest' = Latest + 1 /\ Latest \in Nat
          /\ \A i \in 1..Latest' : updates'[i].thread <= bound
      BY <2>1, NewUpdate, ThreadsBound
    <3> QED BY <3>1
  <2>2. CASE ~Declares(s) \/ byDance
    BY <2>2 DEF Latest, Shape
  <2> QED BY <2>1, <2>2
<1>8. Order'
  <2>1. CASE Declares(s) /\ ~byDance
    BY <2>1, OrderGrows
  <2>2. CASE ~Declares(s) \/ byDance
    BY <2>2 DEF Order, SettledUpTo, Latest
  <2> QED BY <2>1, <2>2
<1>9. producers' \subseteq ProducerRecords /\ \A p \in producers' : p.thread <= bound
  BY DEF Shape
<1>10. Draining'
  <2>1. \A p, q \in producers' : p.kind = "clear" /\ q.kind = "clear" => p = q
    BY DEF Draining
  <2>2. CASE s \in Clear
    <3>1. \A p \in producers' : p.kind # "clear"
      BY <1>5, <2>2 DEF Draining
    <3>2. bound + 1 \in Threads
      BY <1>1, <2>2, SettingsAssumption DEF Shape, Threads
    <3> QED BY <1>5, <2>2, <3>1, <3>2 DEF Draining
  <2>3. CASE s \notin Clear
    <3>1. draining' = draining /\ clear' = clear
      BY <2>3
    <3>2. draining => fate' \in {"registered", "displaced"} /\ (fate' = "registered" => fate = "registered" /\ due' = due)
      BY <1>3, <1>4, <2>3 DEF Draining
    <3> QED BY <2>1, <3>1, <3>2 DEF Draining
  <2> QED BY <2>2, <2>3
<1>11. Visits'
  <2>1. \A p \in producers : p.visit \in Nat /\ p.upto \in Nat
    BY DEF Shape, ProducerRecords
  <2>2. \A p \in producers : p.visit <= moves' /\ p.visit # moves' /\ p.upto <= Latest'
    BY <1>1, <1>7, <2>1 DEF Visits
  <2>3. Declares(at)' => due' = Model[at']
    BY <1>1, <1>3 DEF Declares, Stateful
  <2> QED BY <1>1, <2>2, <2>3 DEF Visits
<1>12. Leading'
  <2>1. \A p \in producers' : ~Waits(p)'
    <3>1. \A p \in producers : p.visit # moves'
      <4>1. \A p \in producers : p.visit \in Nat /\ p.visit <= moves
        BY DEF Shape, ProducerRecords, Visits
      <4> QED BY <1>1, <4>1
    <3> QED BY <3>1 DEF Waits
  <2>2. ASSUME ~draining', fate' \in {"registered", "danced"} PROVE Leads(Latest)'
    <3>1. s \notin Clear /\ ~draining
      BY <1>5, <2>2
    <3>2. CASE Declares(s)
      BY <1>3, <2>2, <3>2, LeadsGrow
    <3>3. CASE ~Declares(s)
      <4>1. due' = due /\ fate \in {"registered", "danced"} /\ updates' = updates
        BY <1>4, <2>2, <3>1, <3>3
      <4>2. PICK n : n = Latest /\ Latest' = n
        BY <4>1 DEF Latest
      <4>3. Leads(n)
        BY <3>1, <4>1, <4>2 DEF Leading
      <4>4. Leads(n)'
        BY <4>1, <4>3, LeadsKept
      <4> QED BY <4>2, <4>4 DEF Leads
    <3> QED BY <3>2, <3>3
  <2> QED BY <2>1, <2>2 DEF Leading
<1>13. draining' \in BOOLEAN /\ clear' \in ClearRecords
  BY <1>5 DEF Shape
<1> QED BY <1>1, <1>2, <1>6, <1>7, <1>8, <1>9, <1>10, <1>11, <1>12, <1>13

(********************************* the steps ********************************)
(* What Leads says of n, when no update changes hands.                      *)
LEMMA LeadsSame ==
    ASSUME NEW n \in Nat, n <= Latest, Latest \in Nat, Latest' = Latest, Leads(n),
           \A i \in 1..Latest : Pending(i)' = Pending(i) /\ updates'[i].model = updates[i].model,
           due' = due, inForce'[bound'] = inForce[bound]
    PROVE  Leads(n)'
<1>1. \A i \in 1..n : i \in 1..Latest /\ \A j \in i + 1..n : j \in 1..Latest
  OBVIOUS
<1>2. \A i \in n + 1..Latest : i \in 1..Latest
  OBVIOUS
<1> QED BY <1>1, <1>2 DEF Leads

LEMMA OnceStays ==
    ASSUME Once, queue' = queue, requests' = requests, parked' \subseteq parked,
           \A x : Wanted(x) => Wanted(x)'
    PROVE  Once'
BY DEF Once

(* What a new request owes, or what a reply queues, was not wanted before.  *)
LEMMA OnceWith ==
    ASSUME Shape, Once, \A x : Wanted(x) => Wanted(x)', NEW r, r.update \in Nat,
           \A x \in Owes(r) : Wanted(x)' /\ ~Wanted(x),
           \/ queue' = queue \o RunsAfterReply(r.update, r.clears) /\ UNCHANGED <<parked, requests>>
           \/ queue' = queue /\ parked' = parked \cup {r} /\ requests' = requests + 1 /\ r.id = requests'
    PROVE  Once' /\ queue' \in Seq(Segments)
<1>1. \A x \in Owes(r) : x \notin Entries(queue) /\ \A q \in parked : x \notin Owes(q)
  BY DEF Once
<1>2. CASE queue' = queue \o RunsAfterReply(r.update, r.clears) /\ UNCHANGED <<parked, requests>>
  <2>1. PICK T, s, t : T = Segments /\ s = queue /\ t = RunsAfterReply(r.update, r.clears)
    OBVIOUS
  <2>2. s \in Seq(T) /\ Distinct(s) /\ t \in Seq(T) /\ Distinct(t) /\ Entries(t) = Owes(r)
    BY <2>1, AfterReply DEF Shape, Once
  <2>3. Entries(s) \cap Entries(t) = {}
    BY <1>1, <2>1, <2>2
  <2>4. /\ s \o t \in Seq(T) /\ Distinct(s \o t) /\ Entries(s \o t) = Entries(s) \cup Entries(t)
    BY <2>2, <2>3, Joined
  <2>5. queue' \in Seq(Segments) /\ Distinct(queue') /\ Entries(queue') = Entries(queue) \cup Owes(r)
    BY <1>2, <2>1, <2>2, <2>4
  <2> QED BY <1>1, <1>2, <2>5 DEF Once
<1>3. CASE queue' = queue /\ parked' = parked \cup {r} /\ requests' = requests + 1 /\ r.id = requests'
  <2>1. requests \in Nat /\ \A q \in parked : q.id \in Nat /\ q.id <= requests
    BY SettingsAssumption DEF Shape, Once, RequestRecords
  <2>2. \A q \in parked : q.id <= requests' /\ q.id # r.id /\ r.id <= requests'
    BY <1>3, <2>1
  <2>3. r.id <= requests'
    BY <1>3, <2>1
  <2>4. \A q \in parked : Owes(r) \cap Owes(q) = {} /\ Owes(q) \cap Owes(r) = {}
    BY <1>1
  <2>5. \A q \in parked' : q.id <= requests' /\ \A x \in Owes(q) : Wanted(x)' /\ x \notin Entries(queue')
    BY <1>1, <1>3, <2>2, <2>3 DEF Once
  <2>6. \A q, p \in parked' : q # p => q.id # p.id /\ Owes(q) \cap Owes(p) = {}
    BY <1>3, <2>2, <2>4 DEF Once
  <2>7. queue' \in Seq(Segments)
    BY <1>3 DEF Shape
  <2> QED BY <1>3, <2>5, <2>6, <2>7 DEF Once
<1> QED BY <1>2, <1>3

LEMMA PhaseSet ==
    ASSUME Shape, NEW i \in 1..Latest, NEW ph \in Phases, updates' = [updates EXCEPT ![i].phase = ph]
    PROVE  /\ updates' \in Seq(UpdateRecords) /\ Latest \in Nat /\ Latest' = Latest
           /\ \A j \in 1..Latest : /\ updates'[j].thread = updates[j].thread
                                   /\ updates'[j].model = updates[j].model
                                   /\ updates'[j].phase = IF j = i THEN ph ELSE updates[j].phase
<1>1. PICK u : u = updates
  OBVIOUS
<1>2. u \in Seq(UpdateRecords) /\ i \in 1..Len(u) /\ updates' = [u EXCEPT ![i].phase = ph]
  BY <1>1 DEF Shape, Latest
<1>3. PICK v : v = [u EXCEPT ![i].phase = ph]
  OBVIOUS
<1>4. /\ v \in Seq(UpdateRecords) /\ Len(v) = Len(u) /\ Len(u) \in Nat
      /\ \A j \in 1..Len(u) : /\ v[j].thread = u[j].thread /\ v[j].model = u[j].model
                              /\ v[j].phase = IF j = i THEN ph ELSE u[j].phase
  BY <1>2, <1>3, Phased
<1> QED BY <1>1, <1>2, <1>3, <1>4 DEF Latest

LEMMA SendStep ==
    ASSUME All, NEW i \in 1..Latest, Send(i)
    PROVE  All'
<1> USE DEF All
<1>1. PICK k \in Nat : k = Latest /\ updates[i].phase = "applying" /\ SettledUpTo(i - 1)
  BY DEF Shape, Send, Sends, Latest
<1>2. /\ updates' \in Seq(UpdateRecords) /\ Latest' = k
      /\ \A j \in 1..k : /\ updates'[j].thread = updates[j].thread
                         /\ updates'[j].model = updates[j].model
                         /\ updates'[j].phase = IF j = i THEN "sent" ELSE updates[j].phase
  BY <1>1, PhaseSet DEF Send, Phases
<1>3. /\ UNCHANGED <<moveVars, threadVars, chainVars, clear, askVars, producers>>
      /\ UNCHANGED <<at, moves, due, fate, bound, draining, inForce, queue, held, parked, requests>>
  BY DEF Send, moveVars, threadVars, chainVars, askVars
<1>4. Shape'
  BY <1>1, <1>2, <1>3 DEF Shape
<1>5. Order'
  <2>1. ASSUME NEW j \in 1..k, updates'[j].phase \in {"sent", "done"}, NEW l \in 1..(j - 1)
        PROVE  updates'[l].phase = "done"
    <3>1. l \in 1..k
      OBVIOUS
    <3>2. CASE j = i
      BY <1>1, <1>2, <3>1, <3>2 DEF SettledUpTo
    <3>3. CASE j # i
      BY <1>1, <1>2, <2>1, <3>1, <3>3 DEF Order, SettledUpTo
    <3> QED BY <3>2, <3>3
  <2> QED BY <1>1, <1>2, <2>1 DEF Order, SettledUpTo
<1>6. Once'
  <2>1. \A x : Wanted(x) => Wanted(x)'
    BY <1>1, <1>2, <1>3 DEF Wanted
  <2> QED BY <1>3, <2>1, OnceStays
<1>7. Draining' /\ Visits'
  BY <1>1, <1>2, <1>3 DEF Draining, Visits, Declares, Stateful
<1>8. Leading'
  <2>1. ASSUME NEW n \in Nat, n <= k, Leads(n) PROVE Leads(n)'
    <3>1. \A j \in 1..k : Pending(j)' = Pending(j)
      BY <1>1, <1>2, <1>3 DEF Pending
    <3> QED BY <1>1, <1>2, <1>3, <2>1, <3>1, LeadsSame
  <2>2. \A p \in producers : p.upto \in Nat /\ p.upto <= k /\ (Waits(p)' <=> Waits(p))
    BY <1>1, <1>3 DEF Shape, Visits, ProducerRecords, Waits
  <2>3. Leads(Latest)' <=> Leads(k)'
    BY <1>2 DEF Leads
  <2> QED BY <1>1, <1>3, <2>1, <2>2, <2>3 DEF Leading
<1> QED BY <1>4, <1>5, <1>6, <1>7, <1>8

LEMMA AcknowledgeStep ==
    ASSUME All, NEW i \in 1..Latest, Acknowledge(i)
    PROVE  All'
<1> USE DEF All
<1>1. PICK k \in Nat : k = Latest /\ updates[i].phase = "sent" /\ \A j \in 1..(i - 1) : updates[j].phase = "done"
  <2>1. Latest \in Nat
    BY DEF Shape, Latest
  <2>2. updates[i].phase = "sent"
    BY DEF Acknowledge
  <2>3. SettledUpTo(i - 1)
    BY <2>2 DEF Order
  <2> QED BY <2>1, <2>2, <2>3 DEF SettledUpTo
<1>2. /\ updates' \in Seq(UpdateRecords) /\ Latest' = k
      /\ \A j \in 1..k : /\ updates'[j].thread = updates[j].thread
                         /\ updates'[j].model = updates[j].model
                         /\ updates'[j].phase = IF j = i THEN "done" ELSE updates[j].phase
  BY <1>1, PhaseSet DEF Acknowledge, Phases
<1>3. /\ UNCHANGED <<moveVars, bound, draining, queue, clear, askVars>>
      /\ UNCHANGED <<at, moves, due, fate, bound, draining, queue, parked, requests>>
  BY DEF Acknowledge, moveVars, askVars
<1>4. inForce' = [inForce EXCEPT ![updates[i].thread] = updates[i].model] /\ updates[i].model \in Values
  <2>1. updates[i] \in UpdateRecords
    BY <1>1 DEF Shape, Latest
  <2> QED BY <2>1 DEF Acknowledge, UpdateRecords
<1>5. ASSUME NEW q \in producers'
      PROVE  \E p \in producers : \/ q = p
                                  \/ /\ q.kind = p.kind /\ q.visit = p.visit /\ q.thread = p.thread
                                     /\ q.upto = k /\ q \in ProducerRecords
  <2>1. PICK p \in producers : q = IF p.own = i THEN [p EXCEPT !.own = 0, !.upto = Latest] ELSE p
    BY DEF Acknowledge
  <2>2. p \in ProducerRecords
    BY DEF Shape
  <2>3. [p EXCEPT !.own = 0, !.upto = k] \in ProducerRecords
    BY <2>2 DEF ProducerRecords
  <2>4. LET r == [p EXCEPT !.own = 0, !.upto = k]
        IN  r.kind = p.kind /\ r.visit = p.visit /\ r.thread = p.thread /\ r.upto = k
    BY <2>2 DEF ProducerRecords
  <2> QED BY <1>1, <2>1, <2>3, <2>4
<1>6. producers' \subseteq ProducerRecords /\ \A q \in producers' : q.thread <= bound
  BY <1>5 DEF Shape
<1>7. held' \in Segments
  BY <1>1 DEF Acknowledge, Shape, Segments
<1>8. Shape'
  <2>1. inForce' \in [Threads -> Values]
    BY <1>4 DEF Shape
  <2> QED BY <1>1, <1>2, <1>3, <1>6, <1>7, <2>1 DEF Shape
<1>9. Order'
  <2>1. ASSUME NEW j \in 1..k, updates'[j].phase \in {"sent", "done"}, NEW l \in 1..(j - 1)
        PROVE  updates'[l].phase = "done"
    <3>1. l \in 1..k /\ updates[j].phase \in {"sent", "done"}
      BY <1>1, <1>2, <2>1
    <3> QED BY <1>1, <1>2, <2>1, <3>1 DEF Order, SettledUpTo
  <2> QED BY <1>1, <1>2, <2>1 DEF Order, SettledUpTo
<1>10. Once'
  <2>1. \A x : Wanted(x) => Wanted(x)'
    BY <1>1, <1>2, <1>3 DEF Wanted
  <2> QED BY <1>3, <2>1, OnceStays
<1>11. Draining'
  <2>1. \A p \in producers' : p.kind = "clear" => clear'.pc = "bound"
    BY <1>3, <1>5 DEF Draining
  <2>2. ASSUME NEW p \in producers', NEW q \in producers', p.kind = "clear", q.kind = "clear" PROVE p = q
    <3>1. PICK a \in producers : p = IF a.own = i THEN [a EXCEPT !.own = 0, !.upto = Latest] ELSE a
      BY DEF Acknowledge
    <3>2. PICK b \in producers : q = IF b.own = i THEN [b EXCEPT !.own = 0, !.upto = Latest] ELSE b
      BY DEF Acknowledge
    <3>3. a \in ProducerRecords /\ b \in ProducerRecords
      BY DEF Shape
    <3>4. [a EXCEPT !.own = 0, !.upto = Latest].kind = a.kind /\ [b EXCEPT !.own = 0, !.upto = Latest].kind = b.kind
      BY <3>3 DEF ProducerRecords
    <3>5. a.kind = "clear" /\ b.kind = "clear"
      BY <2>2, <3>1, <3>2, <3>4
    <3>6. a = b
      BY <3>5 DEF Draining
    <3> QED BY <3>1, <3>2, <3>6
  <2> QED BY <1>3, <2>1, <2>2 DEF Draining
<1>12. Visits'
  <2>1. \A p \in producers' : p.visit <= moves' /\ p.upto <= Latest'
    BY <1>1, <1>2, <1>3, <1>5 DEF Visits
  <2>2. draining => \A p \in producers' : p.kind \in {"kickoff", "drive"} => p.visit # moves
    BY <1>5 DEF Visits
  <2> QED BY <1>3, <2>1, <2>2 DEF Visits, Declares, Stateful
<1>13. ASSUME NEW n \in Nat, n <= k, Leads(n) PROVE Leads(n)'
  <2>1. \A j \in 1..k : j # i => Pending(j)' = Pending(j)
    BY <1>1, <1>2, <1>3 DEF Pending
  <2>2. ~Pending(i)'
    BY <1>1, <1>2 DEF Pending
  <2>3. CASE updates[i].thread # bound
    <3>1. inForce'[bound'] = inForce[bound]
      BY <1>3, <1>4, <2>3 DEF Shape
    <3>2. Pending(i)' = Pending(i)
      BY <2>2, <2>3 DEF Pending
    <3> QED BY <1>1, <1>2, <1>3, <1>13, <2>1, <3>1, <3>2, LeadsSame
  <2>4. CASE updates[i].thread = bound
    <3>1. Pending(i) /\ \A j \in 1..(i - 1) : ~Pending(j) /\ ~Pending(j)'
      BY <1>1, <1>2, <2>1, <2>4 DEF Pending
    <3>2. inForce'[bound'] = updates[i].model
      BY <1>3, <1>4, <2>4 DEF Shape
    <3>3. (\A j \in 1..n : ~Pending(j)') => updates[i].model = due
      <4>1. CASE n < i
        BY <1>1, <1>13, <3>1, <4>1 DEF Leads
      <4>2. CASE n >= i
        <5>1. i \in 1..n /\ \A j \in i + 1..n : j \in 1..k /\ j # i /\ j \in 1..n
          BY <1>1, <1>13, <4>2
        <5> QED BY <1>13, <2>1, <3>1, <5>1 DEF Leads
      <4> QED BY <1>1, <1>13, <4>1, <4>2
    <3>4. ASSUME NEW l \in 1..n, Pending(l)', \A j \in l + 1..n : ~Pending(j)'
          PROVE  updates'[l].model = due'
      <4>1. l \in 1..k /\ l > i
        BY <1>1, <1>13, <2>2, <3>1, <3>4
      <4>2. \A j \in l + 1..n : j \in 1..k /\ j # i
        BY <1>1, <1>13, <4>1
      <4> QED BY <1>2, <1>3, <1>13, <2>1, <3>4, <4>1, <4>2 DEF Leads
    <3>5. ASSUME NEW l \in n + 1..k, Pending(l)' PROVE updates'[l].model = due'
      <4>1. l \in 1..k /\ l # i
        BY <1>1, <1>13, <2>2, <3>5
      <4> QED BY <1>1, <1>2, <1>3, <1>13, <2>1, <3>5, <4>1 DEF Leads
    <3> QED BY <1>2, <1>3, <3>2, <3>3, <3>4, <3>5 DEF Leads
  <2> QED BY <2>3, <2>4
<1>14. Leading'
  <2>1. Leads(Latest)' <=> Leads(k)'
    BY <1>2 DEF Leads
  <2>2. ASSUME ~draining, fate \in {"registered", "danced"} PROVE Leads(k)'
    BY <1>1, <1>13, <2>2 DEF Leading
  <2>3. ASSUME ~draining, fate = "registered", NEW q \in producers', Waits(q)' PROVE Leads(q.upto)'
    <3>1. CASE q.upto = k
      BY <2>2, <2>3, <3>1
    <3>2. CASE q.upto # k
      <4>1. q \in producers
        BY <1>5, <3>2
      <4>2. q.upto \in Nat /\ q.upto <= k /\ Waits(q)
        BY <1>1, <1>3, <2>3, <4>1 DEF Shape, Visits, ProducerRecords, Waits
      <4>3. Leads(q.upto)
        BY <2>3, <4>1, <4>2 DEF Leading
      <4> QED BY <1>13, <4>2, <4>3
    <3> QED BY <3>1, <3>2
  <2> QED BY <1>3, <2>1, <2>2, <2>3 DEF Leading
<1> QED BY <1>8, <1>9, <1>10, <1>11, <1>12, <1>14

(* A step that only starts tasks, or lets them go.                          *)
LEMMA TasksStep ==
    ASSUME All, UNCHANGED <<at, moves, due, fate, bound, draining, inForce, updates, clear>>,
           NEW more \in SUBSET ProducerRecords, producers' \subseteq producers \cup more,
           \A p \in more : /\ p.thread <= bound /\ p.visit <= moves /\ p.upto <= Latest
                           /\ p.kind # "clear"
                           /\ p.kind \in {"kickoff", "drive"} => ~draining
                           /\ Waits(p) => p.upto = Latest
    PROVE  /\ producers' \subseteq ProducerRecords /\ \A p \in producers' : p.thread <= bound
           /\ Order' /\ Draining' /\ Visits' /\ Leading'
           /\ \A x : Wanted(x) => Wanted(x)'
<1> USE DEF All
<1>1. producers' \subseteq ProducerRecords /\ \A p \in producers' : p.thread <= bound
  BY DEF Shape
<1>2. Latest' = Latest
  BY DEF Latest
<1>3. Order' /\ \A x : Wanted(x) => Wanted(x)'
  BY <1>2 DEF Order, SettledUpTo, Wanted
<1>4. Draining'
  BY DEF Draining
<1>5. Visits'
  BY <1>2 DEF Visits, Declares, Stateful
<1>6. \A n : Leads(n) => Leads(n)'
  BY LeadsKept
<1>7. Leads(Latest)' <=> Leads(Latest)
  BY <1>2 DEF Leads, Pending
<1>8. \A p : Waits(p)' <=> Waits(p)
  BY DEF Waits
<1>9. ASSUME ~draining, fate = "registered", NEW p \in producers', Waits(p) PROVE Leads(p.upto)'
  <2>1. CASE p \in producers
    BY <1>6, <1>9, <2>1 DEF Leading
  <2>2. CASE p \in more
    <3>1. p.upto = Latest /\ Leads(Latest)
      BY <1>9, <2>2 DEF Leading
    <3>2. PICK n : n = p.upto /\ n = Latest
      BY <3>1
    <3>3. Leads(n)'
      BY <1>6, <3>1, <3>2
    <3> QED BY <3>2, <3>3
  <2> QED BY <2>1, <2>2
<1>10. Leading'
  BY <1>7, <1>8, <1>9 DEF Leading
<1> QED BY <1>1, <1>3, <1>4, <1>5, <1>10

LEMMA TurnEndsStep ==
    ASSUME All, TurnEnds
    PROVE  All'
<1> USE DEF All
<1>1. /\ UNCHANGED <<at, moves, due, fate, bound, draining, inForce, updates, clear>>
      /\ UNCHANGED <<queue, held, parked, requests>>
  BY DEF TurnEnds, moveVars, threadVars, chainVars, askVars
<1>2. PICK p : p = Producer("drive", moves, 0, Latest)
  OBVIOUS
<1>3. p \in ProducerRecords /\ p.thread = bound /\ p.visit = moves /\ p.upto = Latest /\ p.kind = "drive"
  BY <1>2, SettingsAssumption DEF Producer, ProducerRecords, TaskKinds, Shape, Threads, Latest
<1>4. PICK more \in SUBSET ProducerRecords : /\ producers' \subseteq producers \cup more
                                            /\ more = IF ~draining THEN {p} ELSE {}
  BY <1>2, <1>3 DEF TurnEnds
<1>5. bound <= bound /\ moves <= moves /\ Latest <= Latest
  BY SettingsAssumption DEF Shape, Threads, Latest
<1>6. /\ producers' \subseteq ProducerRecords /\ \A q \in producers' : q.thread <= bound
      /\ Order' /\ Draining' /\ Visits' /\ Leading'
      /\ \A x : Wanted(x) => Wanted(x)'
  BY <1>1, <1>3, <1>4, <1>5, TasksStep
<1>7. Shape' /\ Once'
  BY <1>1, <1>6, OnceStays DEF Shape, Latest
<1> QED BY <1>6, <1>7

LEMMA OwnerPromptsStep ==
    ASSUME All, OwnerPrompts
    PROVE  All'
<1> USE DEF All
<1>1. /\ UNCHANGED <<at, moves, due, fate, bound, draining, inForce, updates, clear>>
      /\ UNCHANGED <<queue, held, parked, requests>>
  BY DEF OwnerPrompts, moveVars, threadVars, chainVars, askVars
<1>2. PICK p : p = Producer("prompt", moves, 0, Latest)
  OBVIOUS
<1>3. p \in ProducerRecords /\ p.thread = bound /\ p.visit = moves /\ p.upto = Latest /\ p.kind = "prompt"
  BY <1>2, SettingsAssumption DEF Producer, ProducerRecords, TaskKinds, Shape, Threads, Latest
<1>4. PICK more \in SUBSET ProducerRecords : producers' = producers \cup more /\ more = {p}
  BY <1>2, <1>3 DEF OwnerPrompts
<1>5. bound <= bound /\ moves <= moves /\ Latest <= Latest
  BY SettingsAssumption DEF Shape, Threads, Latest
<1>6. /\ producers' \subseteq ProducerRecords /\ \A q \in producers' : q.thread <= bound
      /\ Order' /\ Draining' /\ Visits' /\ Leading'
      /\ \A x : Wanted(x) => Wanted(x)'
  BY <1>1, <1>3, <1>4, <1>5, TasksStep
<1>7. Shape' /\ Once'
  BY <1>1, <1>6, OnceStays DEF Shape, Latest
<1> QED BY <1>6, <1>7

LEMMA ApplyReturnsStep ==
    ASSUME All, ApplyReturns
    PROVE  All'
<1> USE DEF All
<1>1. /\ UNCHANGED <<at, moves, due, fate, bound, draining, inForce, updates, clear>>
      /\ UNCHANGED <<queue, parked, requests, producers>> /\ held' \in Segments
  BY DEF ApplyReturns, moveVars, threadVars, askVars, NoSegment, Segments
<1>2. PICK more \in SUBSET ProducerRecords : more = {}
  OBVIOUS
<1>3. /\ producers' \subseteq ProducerRecords /\ \A q \in producers' : q.thread <= bound
      /\ Order' /\ Draining' /\ Visits' /\ Leading'
      /\ \A x : Wanted(x) => Wanted(x)'
  BY <1>1, <1>2, TasksStep
<1>4. Shape' /\ Once'
  BY <1>1, <1>3, OnceStays DEF Shape, Latest
<1> QED BY <1>3, <1>4

LEMMA WithdrawsStep ==
    ASSUME All, NEW r \in parked, CodexWithdraws(r)
    PROVE  All'
<1> USE DEF All
<1>1. /\ UNCHANGED <<at, moves, due, fate, bound, draining, inForce, updates, clear>>
      /\ UNCHANGED <<queue, held, requests, producers>> /\ parked' \subseteq parked
  BY DEF CodexWithdraws, moveVars, threadVars, chainVars
<1>2. PICK more \in SUBSET ProducerRecords : more = {}
  OBVIOUS
<1>3. /\ producers' \subseteq ProducerRecords /\ \A q \in producers' : q.thread <= bound
      /\ Order' /\ Draining' /\ Visits' /\ Leading'
      /\ \A x : Wanted(x) => Wanted(x)'
  BY <1>1, <1>2, TasksStep
<1>4. Shape' /\ Once'
  BY <1>1, <1>3, OnceStays DEF Shape, Latest
<1> QED BY <1>3, <1>4

LEMMA DecidesStep ==
    ASSUME All, NEW r \in parked, OwnerDecides(r)
    PROVE  All'
<1> USE DEF All
<1>1. /\ UNCHANGED <<at, moves, due, fate, bound, draining, inForce, updates, clear>>
      /\ UNCHANGED <<held, requests, producers>>
      /\ parked' = parked \ {r} /\ queue' = queue \o RunsAfterReply(r.update, r.clears)
  BY DEF OwnerDecides, moveVars, threadVars
<1>2. PICK more \in SUBSET ProducerRecords : more = {}
  OBVIOUS
<1>3. /\ producers' \subseteq ProducerRecords /\ \A q \in producers' : q.thread <= bound
      /\ Order' /\ Draining' /\ Visits' /\ Leading'
      /\ \A x : Wanted(x) => Wanted(x)'
  BY <1>1, <1>2, TasksStep
<1>4. r.update \in Nat
  BY DEF Shape, RequestRecords
<1>5. PICK T, s, t : T = Segments /\ s = queue /\ t = RunsAfterReply(r.update, r.clears)
  OBVIOUS
<1>6. s \in Seq(T) /\ Distinct(s) /\ t \in Seq(T) /\ Distinct(t) /\ Entries(t) = Owes(r)
  BY <1>4, <1>5, AfterReply DEF Shape, Once
<1>7. Entries(s) \cap Entries(t) = {}
  BY <1>5, <1>6 DEF Once
<1>8. /\ s \o t \in Seq(T) /\ Distinct(s \o t) /\ Entries(s \o t) = Entries(s) \cup Entries(t)
  BY <1>6, <1>7, Joined
<1>9. queue' \in Seq(Segments) /\ Distinct(queue') /\ Entries(queue') = Entries(queue) \cup Owes(r)
  BY <1>1, <1>5, <1>6, <1>8
<1>10. Once'
  <2>1. \A q \in parked' : \A x \in Owes(q) : x \notin Entries(queue')
    BY <1>1, <1>9 DEF Once
  <2> QED BY <1>1, <1>3, <1>9, <2>1 DEF Once
<1>11. Shape'
  BY <1>1, <1>3, <1>9 DEF Shape, Latest
<1> QED BY <1>3, <1>10, <1>11

LEMMA BeginStep ==
    ASSUME All, BeginSegment
    PROVE  All'
<1> USE DEF All
<1>1. PICK h, t : h = Head(queue) /\ t = Tail(queue)
  OBVIOUS
<1>2. /\ queue' = t /\ held' = h
      /\ UNCHANGED <<at, moves, due, fate, bound, draining, inForce, parked, requests, producers>>
  BY <1>1 DEF BeginSegment, moveVars, threadVars, askVars
<1>3. /\ t \in Seq(Segments) /\ Distinct(t) /\ h \in Segments /\ h \in Entries(queue)
      /\ Entries(t) \subseteq Entries(queue) \ {h}
  <2>1. PICK T, q : T = Segments /\ q = queue
    OBVIOUS
  <2>2. q \in Seq(T) /\ q # <<>> /\ Distinct(q) /\ h = Head(q) /\ t = Tail(q)
    BY <1>1, <2>1 DEF BeginSegment, Shape, Once
  <2> QED BY <2>1, <2>2, TailLeft
<1>4. Wanted(h)
  BY <1>3 DEF Once
<1>5. ASSUME \A x : x # h /\ Wanted(x) => Wanted(x)' PROVE Once'
  BY <1>2, <1>3, <1>5 DEF Once
<1>6. CASE h.kind = "apply" /\ updates' = [updates EXCEPT ![h.update].phase = "applying"] /\ clear' = clear
  <2>1. PICK i \in 1..Latest : h = ApplySegment(i) /\ h.update = i /\ updates[i].phase = "dormant"
    BY <1>4, <1>6 DEF Wanted, ClearSegment, ApplySegment
  <2>2. updates' = [updates EXCEPT ![i].phase = "applying"]
    BY <1>6, <2>1
  <2>3. PICK k \in Nat :
           /\ updates' \in Seq(UpdateRecords) /\ k = Latest /\ Latest' = k
           /\ \A j \in 1..k : /\ updates'[j].thread = updates[j].thread
                              /\ updates'[j].model = updates[j].model
                              /\ updates'[j].phase = IF j = i THEN "applying" ELSE updates[j].phase
    BY <2>2, PhaseSet DEF Phases
  <2>4. Shape'
    BY <1>2, <1>3, <1>6, <2>3 DEF Shape
  <2>5. Order'
    <3>1. ASSUME NEW j \in 1..k, updates'[j].phase \in {"sent", "done"}, NEW l \in 1..(j - 1)
          PROVE  updates'[l].phase = "done"
      <4>1. l \in 1..k /\ updates[j].phase \in {"sent", "done"} /\ SettledUpTo(j - 1)
        BY <2>3, <3>1 DEF Order
      <4>2. updates[l].phase = "done"
        BY <3>1, <4>1 DEF SettledUpTo
      <4> QED BY <2>1, <2>3, <4>1, <4>2
    <3> QED BY <2>3, <3>1 DEF Order, SettledUpTo
  <2>6. Once'
    <3>1. \A x : x # h /\ Wanted(x) => Wanted(x)'
      BY <1>6, <2>1, <2>3 DEF Wanted
    <3> QED BY <1>5, <3>1
  <2>7. Draining' /\ Visits'
    BY <1>2, <1>6, <2>3 DEF Draining, Visits, Declares, Stateful
  <2>8. Leading'
    <3>1. ASSUME NEW n \in Nat, n <= k, Leads(n) PROVE Leads(n)'
      <4>1. \A j \in 1..k : Pending(j)' = Pending(j)
        BY <1>2, <2>1, <2>3 DEF Pending
      <4> QED BY <1>2, <2>3, <3>1, <4>1, LeadsSame
    <3>2. \A p \in producers : p.upto \in Nat /\ p.upto <= k /\ (Waits(p)' <=> Waits(p))
      BY <1>2, <2>3 DEF Shape, Visits, ProducerRecords, Waits
    <3>3. Leads(Latest)' <=> Leads(k)'
      BY <2>3 DEF Leads
    <3> QED BY <1>2, <2>3, <3>1, <3>2, <3>3 DEF Leading
  <2> QED BY <2>4, <2>5, <2>6, <2>7, <2>8
<1>7. CASE h.kind = "clear" /\ clear' = [clear EXCEPT !.pc = "begin"] /\ updates' = updates
  <2>1. h = ClearSegment /\ clear.pc = "queued"
    BY <1>4, <1>7 DEF Wanted, ApplySegment
  <2>2. clear' \in ClearRecords /\ clear'.pc = "begin" /\ clear'.model = clear.model
    BY <1>7 DEF Shape, ClearRecords
  <2>3. Latest' = Latest
    BY <1>7 DEF Latest
  <2>4. Shape' /\ Order'
    BY <1>2, <1>3, <1>7, <2>2, <2>3 DEF Shape, Order, SettledUpTo
  <2>5. Once'
    <3>1. \A x : x # h /\ Wanted(x) => Wanted(x)'
      BY <1>7, <2>1, <2>3 DEF Wanted
    <3> QED BY <1>5, <3>1
  <2>6. Draining' /\ Visits'
    BY <1>2, <2>1, <2>2, <2>3 DEF Draining, Visits, Declares, Stateful
  <2>7. \A n : Leads(n) => Leads(n)'
    BY <1>2, <1>7, LeadsKept
  <2>8. Leads(Latest)' <=> Leads(Latest)
    BY <1>2, <1>7, <2>3 DEF Leads, Pending
  <2>9. Leading'
    BY <1>2, <2>7, <2>8 DEF Leading, Waits
  <2> QED BY <2>4, <2>5, <2>6, <2>9
<1> QED BY <1>1, <1>6, <1>7 DEF BeginSegment

LEMMA ClearBeginsStep ==
    ASSUME All, ClearBegins
    PROVE  All'
<1> USE DEF All
<1>1. /\ UNCHANGED <<at, moves, due, fate, bound, draining, inForce, updates>>
      /\ UNCHANGED <<queue, held, parked, requests, producers>>
      /\ clear.pc = "begin" /\ clear' = [clear EXCEPT !.pc = "opening"]
  BY DEF ClearBegins, moveVars, threadVars, chainVars, askVars
<1>2. clear' \in ClearRecords /\ clear'.pc = "opening" /\ clear'.model = clear.model
  BY <1>1 DEF Shape, ClearRecords
<1>3. Latest' = Latest
  BY <1>1 DEF Latest
<1>4. Shape' /\ Order'
  BY <1>1, <1>2, <1>3 DEF Shape, Order, SettledUpTo
<1>5. Once'
  <2>1. \A x : Wanted(x) => Wanted(x)'
    BY <1>1, <1>3 DEF Wanted
  <2> QED BY <1>1, <2>1, OnceStays
<1>6. Draining' /\ Visits'
  BY <1>1, <1>2, <1>3 DEF Draining, Visits, Declares, Stateful
<1>7. \A n : Leads(n) => Leads(n)'
  BY <1>1, LeadsKept
<1>8. Leads(Latest)' <=> Leads(Latest)
  BY <1>1, <1>3 DEF Leads, Pending
<1>9. Leading'
  BY <1>1, <1>7, <1>8 DEF Leading, Waits
<1> QED BY <1>4, <1>5, <1>6, <1>9

LEMMA OlderThreads ==
    ASSUME Shape
    PROVE  \A i \in 1..Latest : updates[i].thread \in Nat /\ updates[i].thread <= bound
<1>1. \A i \in 1..Latest : updates[i] \in UpdateRecords
  BY DEF Shape, Latest
<1>2. \A x \in UpdateRecords : x.thread \in Nat
  BY DEF UpdateRecords
<1> QED BY <1>1, <1>2 DEF Shape

LEMMA ClearOpensStep ==
    ASSUME All, ClearOpens, ~over, ~over'
    PROVE  All'
<1> USE DEF All
<1>1. /\ UNCHANGED <<at, moves, due, fate, updates, held, requests>>
      /\ clear.pc = "opening" /\ bound' = bound + 1 /\ draining' = FALSE
      /\ inForce' = [inForce EXCEPT ![bound + 1] = clear.model]
      /\ parked' = {} /\ queue' = queue \o ReplyAll(parked)
      /\ Stateful(at) /\ clear' = [clear EXCEPT !.pc = "bound"]
      /\ producers' = producers \cup {[kind |-> "clear", visit |-> moves, thread |-> bound + 1,
                                       own |-> 0, upto |-> Latest]}
  BY DEF ClearOpens, moveVars
<1>2. PICK c : /\ c = [kind |-> "clear", visit |-> moves, thread |-> bound + 1, own |-> 0, upto |-> Latest]
              /\ producers' = producers \cup {c}
  BY <1>1
<1>3. draining /\ bound' \in Threads /\ bound \in Nat /\ Latest \in Nat /\ Latest' = Latest
  BY <1>1, SettingsAssumption DEF Draining, Shape, Threads, Latest
<1>4. c \in ProducerRecords /\ c.kind = "clear" /\ c.visit = moves /\ c.upto = Latest /\ c.thread = bound'
  BY <1>1, <1>2, <1>3 DEF ProducerRecords, TaskKinds, Shape
<1>5. clear' \in ClearRecords /\ clear'.pc = "bound" /\ clear.model \in Values
  BY <1>1 DEF Shape, ClearRecords
<1>6. queue' \in Seq(Segments) /\ Distinct(queue')
      /\ Entries(queue') \subseteq Entries(queue) \cup UNION {Owes(r) : r \in parked}
  <2>1. PICK T, s, t : T = Segments /\ s = queue /\ t = ReplyAll(parked)
    OBVIOUS
  <2>2. PICK O : O = UNION {Owes(r) : r \in parked}
    OBVIOUS
  <2>3. parked \in SUBSET RequestRecords /\ \A r, q \in parked : r # q => r.id # q.id /\ Owes(r) \cap Owes(q) = {}
    BY DEF Shape, Once
  <2>4. t \in Seq(T) /\ Distinct(t) /\ Entries(t) \subseteq O
    BY <2>1, <2>2, <2>3, Declined
  <2>5. s \in Seq(T) /\ Distinct(s)
    BY <2>1 DEF Shape, Once
  <2>6. Entries(s) \cap O = {}
    BY <2>1, <2>2 DEF Once
  <2>7. Entries(s) \cap Entries(t) = {}
    BY <2>4, <2>6
  <2>8. /\ s \o t \in Seq(T) /\ Distinct(s \o t) /\ Entries(s \o t) = Entries(s) \cup Entries(t)
    BY <2>4, <2>5, <2>7, Joined
  <2> QED BY <1>1, <2>1, <2>2, <2>4, <2>8
<1>7. Shape'
  <2>1. \A i \in 1..Latest' : updates'[i].thread <= bound'
    <3>1. \A i \in 1..Latest : updates[i].thread \in Nat /\ updates[i].thread <= bound
      BY OlderThreads
    <3> QED BY <1>1, <1>3, <3>1
  <2>2. \A p \in producers' : p.thread <= bound'
    <3>1. \A p \in producers : p.thread \in Nat /\ p.thread <= bound
      BY DEF Shape, ProducerRecords
    <3> QED BY <1>1, <1>2, <1>3, <1>4, <3>1
  <2>3. inForce' \in [Threads -> Values] /\ producers' \subseteq ProducerRecords
    BY <1>1, <1>2, <1>4, <1>5 DEF Shape
  <2> QED BY <1>1, <1>3, <1>5, <1>6, <2>1, <2>2, <2>3 DEF Shape
<1>8. Order'
  BY <1>1, <1>3 DEF Order, SettledUpTo
<1>9. Once'
  <2>1. \A x : Wanted(x) => Wanted(x)'
    BY <1>1, <1>3 DEF Wanted
  <2>2. \A x \in Entries(queue') : Wanted(x)
    BY <1>6 DEF Once
  <2> QED BY <1>1, <1>6, <2>1, <2>2 DEF Once
<1>10. Draining'
  <2>1. \A p \in producers : p.kind # "clear"
    BY <1>1 DEF Draining
  <2>2. \A p \in producers' : p.kind = "clear" => p = c
    BY <1>2, <2>1
  <2> QED BY <1>1, <1>5, <2>2 DEF Draining
<1>11. Visits'
  <2>1. moves <= moves /\ Latest <= Latest
    BY <1>3 DEF Shape
  <2>2. \A p \in producers' : p.visit <= moves' /\ p.upto <= Latest'
    BY <1>1, <1>2, <1>3, <1>4, <2>1 DEF Visits
  <2> QED BY <1>1, <2>2 DEF Visits, Declares, Stateful
<1>12. Leading'
  <2>1. ASSUME fate \in {"registered", "danced"} PROVE inForce'[bound'] = due'
    <3>1. clear.model = due
      BY <1>3, <2>1 DEF Draining
    <3> QED BY <1>1, <1>3, <3>1 DEF Shape
  <2>2. \A i \in 1..Latest : ~Pending(i)'
    <3>1. \A i \in 1..Latest : updates[i].thread \in Nat /\ updates[i].thread <= bound
      BY OlderThreads
    <3> QED BY <1>1, <1>3, <3>1 DEF Pending
  <2>3. ASSUME fate \in {"registered", "danced"}, NEW n \in Nat, n <= Latest PROVE Leads(n)'
    <3>1. /\ \A i \in 1..n : i \in 1..Latest
          /\ \A i \in n + 1..Latest : i \in 1..Latest
      BY <1>3, <2>3
    <3> QED BY <1>3, <2>1, <2>2, <2>3, <3>1 DEF Leads
  <2>4. PICK k \in Nat : k = Latest /\ k = Latest' /\ k <= Latest
    BY <1>3
  <2>5. fate \in {"registered", "danced"} => Leads(k)'
    BY <2>3, <2>4
  <2>6. \A p \in producers' : p.upto \in Nat /\ p.upto <= Latest
    BY <1>2, <1>3, <1>4 DEF Shape, ProducerRecords, Visits
  <2>7. Leads(Latest)' <=> Leads(k)'
    BY <2>4 DEF Leads
  <2> QED BY <1>1, <2>3, <2>5, <2>6, <2>7 DEF Leading
<1> QED BY <1>7, <1>8, <1>9, <1>10, <1>11, <1>12

LEMMA StartsStep ==
    ASSUME All, SettingsInForce, NEW p \in producers, Starts(p)
    PROVE  All' /\ SettingsInForce'
<1> USE DEF All
<1>1. /\ UNCHANGED <<at, moves, due, fate, bound, draining, inForce, updates>>
      /\ UNCHANGED <<queue, parked, requests>> /\ producers' = producers \ {p}
  BY DEF Starts, moveVars, threadVars, askVars
<1>2. Latest' = Latest /\ Latest \in Nat
  BY <1>1 DEF Latest, Shape
<1>3. /\ held' \in Segments /\ clear' \in ClearRecords
      /\ clear' # clear => /\ p.kind = "clear" /\ clear.pc = "bound" /\ clear'.pc = "no"
  <2>1. NoSegment \in Segments /\ NoClear \in ClearRecords /\ NoClear.pc = "no"
    BY DEF NoClear, NoSegment, Segments, ClearRecords, Values
  <2>2. CASE p.kind = "clear"
    <3>1. clear' = NoClear /\ held' \in {NoSegment, held} /\ clear.pc = "bound"
      BY <2>2 DEF Starts, Draining
    <3> QED BY <2>1, <2>2, <3>1 DEF Shape
  <2>3. CASE p.kind # "clear"
    BY <2>3 DEF Starts, Shape
  <2> QED BY <2>2, <2>3
<1>4. Shape' /\ Order'
  BY <1>1, <1>2, <1>3 DEF Shape, Order, SettledUpTo
<1>5. Once'
  <2>1. \A x : Wanted(x) => Wanted(x)'
    BY <1>1, <1>2, <1>3 DEF Wanted
  <2> QED BY <1>1, <2>1, OnceStays
<1>6. Draining'
  <2>1. CASE clear' = clear
    BY <1>1, <2>1 DEF Draining
  <2>2. CASE clear' # clear
    <3>1. \A q \in producers' : q.kind # "clear"
      BY <1>1, <1>3, <2>2 DEF Draining
    <3>2. ~draining
      BY <1>3, <2>2 DEF Draining
    <3> QED BY <1>1, <1>3, <2>2, <3>1, <3>2 DEF Draining
  <2> QED BY <2>1, <2>2
<1>7. Visits'
  BY <1>1, <1>2 DEF Visits, Declares, Stateful
<1>8. Leading'
  <2>1. \A n : Leads(n) => Leads(n)'
    BY <1>1, LeadsKept
  <2>2. Leads(Latest)' <=> Leads(Latest)
    BY <1>1, <1>2 DEF Leads, Pending
  <2> QED BY <1>1, <2>1, <2>2 DEF Leading, Waits
<1>9. SettingsInForce'
  <2>1. PICK th, visit :
           /\ th = IF p.kind \in {"prompt", "clear"} THEN p.thread ELSE bound
           /\ visit = IF p.kind = "orient" THEN moves ELSE p.visit
    OBVIOUS
  <2>2. /\ p.kind # "item" /\ p.own = 0 /\ SettledUpTo(p.upto)
        /\ started' = [kind |-> p.kind, fresh |-> turn # th /\ th = bound /\ ~draining /\ visit = moves,
                       settled |-> SettledUpTo(Latest), fate |-> fate, got |-> inForce[th], due |-> due]
    BY <2>1 DEF Starts
  <2>3. SUFFICES ASSUME th = bound, ~draining, visit = moves, fate \in {"registered", "danced"},
                        SettledUpTo(Latest) \/ (p.kind \notin {"dance", "orient"} /\ fate = "registered")
                 PROVE  inForce[bound] = due
    BY <2>2 DEF SettingsInForce
  <2>4. ASSUME NEW n, SettledUpTo(n), Leads(n) PROVE inForce[bound] = due
    BY <2>4 DEF Leads, Pending, SettledUpTo
  <2>5. CASE SettledUpTo(Latest)
    BY <2>3, <2>4, <2>5 DEF Leading
  <2>6. CASE p.kind \notin {"dance", "orient"} /\ fate = "registered"
    <3>1. Waits(p)
      BY <2>1, <2>2, <2>3, <2>6 DEF Waits, Shape, ProducerRecords, TaskKinds
    <3> QED BY <2>2, <2>3, <2>4, <2>6, <3>1 DEF Leading
  <2> QED BY <2>3, <2>5, <2>6
<1> QED BY <1>4, <1>5, <1>6, <1>7, <1>8, <1>9

LEMMA DanceStep ==
    ASSUME All, NEW p \in producers, DanceInterrupts(p)
    PROVE  All'
<1> USE DEF All
<1>1. /\ UNCHANGED <<at, moves, due, bound, draining, inForce, clear>>
      /\ UNCHANGED <<queue, held, parked, requests>> /\ p.kind = "item"
      /\ updates' = IF Declares(at) THEN Append(updates, Update(at, "applying")) ELSE updates
  BY DEF DanceInterrupts, threadVars, chainVars, askVars
<1>2. PICK q : /\ q = [p EXCEPT !.kind = "dance", !.own = IF Declares(at) THEN Latest + 1 ELSE 0]
              /\ producers' = (producers \ {p}) \cup {q}
  BY DEF DanceInterrupts
<1>3. Latest \in Nat /\ at \in States /\ p \in ProducerRecords /\ p.thread <= bound
  BY DEF Shape, Latest
<1>4. q \in ProducerRecords /\ q.kind = "dance" /\ q.visit = p.visit /\ q.upto = p.upto /\ q.thread = p.thread
  <2>1. PICK n \in Nat : n = IF Declares(at) THEN Latest + 1 ELSE 0
    BY <1>3
  <2>2. q = [p EXCEPT !.kind = "dance", !.own = n]
    BY <1>2, <2>1
  <2> QED BY <1>3, <2>2 DEF ProducerRecords, TaskKinds
<1>5. /\ updates' \in Seq(UpdateRecords) /\ Latest' \in {Latest, Latest + 1}
      /\ \A i \in 1..Latest : updates'[i] = updates[i]
      /\ \A i \in 1..Latest' : updates'[i].thread <= bound
      /\ Order'
  <2>1. CASE Declares(at)
    <3>1. updates' = Append(updates, Update(at, "applying"))
      BY <1>1, <2>1
    <3> QED BY <1>3, <3>1, NewUpdate, ThreadsBound, OrderGrows
  <2>2. CASE ~Declares(at)
    BY <1>1, <2>2 DEF Shape, Latest, Order, SettledUpTo
  <2> QED BY <2>1, <2>2
<1>6. /\ Declares(at) /\ draining => fate' = "displaced"
      /\ Declares(at) /\ ~draining => fate' = IF fate = "pending" THEN "danced" ELSE fate
      /\ ~Declares(at) => fate' = fate
  BY DEF DanceInterrupts
<1>7. Shape'
  <2>1. fate' \in Fates
    BY <1>6 DEF Shape, Fates
  <2>2. producers' \subseteq ProducerRecords /\ \A r \in producers' : r.thread <= bound
    BY <1>2, <1>3, <1>4 DEF Shape
  <2> QED BY <1>1, <1>5, <2>1, <2>2 DEF Shape
<1>8. Once'
  <2>1. \A x : Wanted(x) => Wanted(x)'
    <3>1. \A i \in 1..Latest : i \in 1..Latest'
      BY <1>3, <1>5
    <3> QED BY <1>1, <1>5, <3>1 DEF Wanted
  <2> QED BY <1>1, <2>1, OnceStays
<1>9. Draining'
  <2>1. \A r \in producers' : r.kind = "clear" => r \in producers
    BY <1>2, <1>4
  <2>2. draining => fate' \in {"registered", "displaced"} /\ (fate' = "registered" => fate = "registered")
    BY <1>6 DEF Draining
  <2> QED BY <1>1, <2>1, <2>2 DEF Draining
<1>10. Visits'
  <2>1. \A r \in producers : r.upto \in Nat
    BY DEF Shape, ProducerRecords
  <2>2. \A r \in producers' : r.visit <= moves' /\ r.upto <= Latest'
    <3>1. \A r \in producers : r.visit <= moves' /\ r.upto <= Latest'
      BY <1>1, <1>3, <1>5, <2>1 DEF Visits
    <3> QED BY <1>2, <1>4, <3>1
  <2>3. \A r \in producers' : r.kind \in {"kickoff", "drive"} => r \in producers
    BY <1>2, <1>4
  <2> QED BY <1>1, <2>2, <2>3 DEF Visits, Declares, Stateful
<1>11. Leading'
  <2>1. \A r \in producers' : Waits(r)' => r \in producers /\ Waits(r) /\ r.upto \in 0..Latest
    <3>1. \A r \in producers : r.upto \in Nat /\ r.upto <= Latest
      BY DEF Shape, ProducerRecords, Visits
    <3>2. \A r \in producers' : Waits(r)' => r \in producers
      BY <1>2, <1>4 DEF Waits
    <3>3. \A r : Waits(r)' <=> Waits(r)
      BY <1>1 DEF Waits
    <3> QED BY <1>3, <3>1, <3>2, <3>3
  <2>2. CASE Declares(at)
    <3>1. updates' = Append(updates, Update(at, "applying")) /\ due' = due /\ due = Model[at]
      BY <1>1, <2>2 DEF Visits
    <3>2. Leads(Latest)' /\ \A n \in 0..Latest : Leads(n) => Leads(n)'
      BY <1>1, <1>3, <3>1, LeadsGrow
    <3>3. ~draining /\ fate' = "registered" => fate = "registered"
      BY <1>6, <2>2
    <3> QED BY <1>1, <2>1, <3>2, <3>3 DEF Leading
  <2>3. CASE ~Declares(at)
    <3>1. updates' = updates /\ fate' = fate
      BY <1>1, <1>6, <2>3
    <3>2. \A n : Leads(n) => Leads(n)'
      BY <1>1, <3>1, LeadsKept
    <3>3. Leads(Latest)' <=> Leads(Latest)
      BY <1>1, <3>1 DEF Leads, Pending, Latest
    <3> QED BY <1>1, <2>1, <3>1, <3>2, <3>3 DEF Leading
  <2> QED BY <2>2, <2>3
<1> QED BY <1>5, <1>7, <1>8, <1>9, <1>10, <1>11

(* What is wanted stays so at a transition, and what it newly wants is new. *)
LEMMA MovesWant ==
    ASSUME All, NEW s \in States, NEW ph \in {"dormant", "applying"}, NEW b \in BOOLEAN,
           updates' = IF b THEN Append(updates, Update(s, ph)) ELSE updates,
           s \in Clear => clear = NoClear, s \notin Clear => clear' = clear,
           NEW x, x = ApplySegment(Latest + 1)
    PROVE  /\ \A y : Wanted(y) => Wanted(y)'
           /\ s \in Clear => ~Wanted(ClearSegment)
           /\ ~Wanted(x) /\ (b /\ ph = "dormant" => Wanted(x)')
           /\ Latest \in Nat
<1>1. Latest \in Nat
  BY DEF All, Shape, Latest
<1>2. /\ Latest' \in {Latest, Latest + 1} /\ \A i \in 1..Latest : updates'[i] = updates[i]
      /\ b => Latest' = Latest + 1 /\ updates'[Latest + 1].phase = ph
  <2>1. CASE b
    BY <2>1, NewUpdate DEF All
  <2>2. CASE ~b
    BY <2>2 DEF Latest
  <2> QED BY <2>1, <2>2
<1>3. s \in Clear => clear.pc = "no"
  BY DEF NoClear
<1>4. \A i \in Nat : ApplySegment(i) # ClearSegment /\ ApplySegment(i).update = i
  BY DEF ApplySegment, ClearSegment
<1>5. \A i \in 1..Latest : i \in 1..Latest' /\ i \in Nat /\ i # Latest + 1
  BY <1>1, <1>2
<1>6. \A y : Wanted(y) => Wanted(y)'
  BY <1>2, <1>3, <1>5 DEF Wanted
<1>7. s \in Clear => ~Wanted(ClearSegment)
  BY <1>3, <1>4, <1>5 DEF Wanted
<1>8. ~Wanted(x)
  BY <1>1, <1>4, <1>5 DEF Wanted
<1>9. b => updates'[Latest + 1].phase = ph
  <2>1. PICK u : u = updates'
    OBVIOUS
  <2>2. b => u[Latest + 1].phase = ph
    BY <2>1, NewUpdate DEF All
  <2> QED BY <2>1, <2>2
<1>10. ASSUME b, ph = "dormant" PROVE Wanted(x)'
  <2>1. PICK i : i = Latest + 1
    OBVIOUS
  <2>2. i \in 1..Latest'
    BY <1>1, <1>2, <1>10, <2>1
  <2>3. x = ApplySegment(i)
    BY <2>1
  <2>4. updates'[i].phase = "dormant"
    BY <1>10, <1>9, <2>1
  <2> QED BY <2>2, <2>3, <2>4 DEF Wanted, ApplySegment
<1> QED BY <1>1, <1>6, <1>7, <1>8, <1>10

LEMMA SubmitStep ==
    ASSUME All, NEW s \in States, SubmitRuns(s)
    PROVE  All'
<1> USE DEF All
<1>1. /\ ~draining /\ MovesTo(s) /\ MeetsFate(s, TRUE)
      /\ UNCHANGED <<bound, inForce, updates, held, parked, requests>>
  BY DEF SubmitRuns, askVars
<1>2. s \in Clear => clear = NoClear
  BY <1>1 DEF MovesTo
<1>3. IF s \in Clear THEN SchedulesClear(s, TRUE) /\ queue' = Append(queue, ClearSegment)
                     ELSE UNCHANGED <<draining, clear, queue>>
  BY SettingsAssumption DEF SubmitRuns, Stateful
<1>4. PICK p : p = [kind |-> "item", visit |-> moves', thread |-> bound, own |-> 0, upto |-> 0]
  OBVIOUS
<1>5. moves' \in Nat /\ bound \in Nat /\ Latest \in Nat /\ Latest' = Latest
  BY <1>1, SettingsAssumption DEF MovesTo, Shape, Threads, Latest
<1>6. /\ p \in ProducerRecords /\ p.kind = "item" /\ p.visit <= moves' /\ p.upto <= Latest'
      /\ p.thread <= bound
  BY <1>4, <1>5 DEF ProducerRecords, TaskKinds
<1>7. PICK more \in SUBSET ProducerRecords : producers' = producers \cup more /\ more \in {{}, {p}}
  BY <1>4, <1>6 DEF SubmitRuns, Producer
<1>8. /\ at' \in States /\ moves' \in Nat /\ draining' \in BOOLEAN /\ due' \in Values /\ fate' \in Fates
      /\ updates' \in Seq(UpdateRecords) /\ \A i \in 1..Latest' : updates'[i].thread <= bound
      /\ clear' \in ClearRecords
      /\ producers' \subseteq ProducerRecords /\ \A q \in producers' : q.thread <= bound
      /\ Order' /\ Draining' /\ Visits' /\ Leading'
  <2>1. PICK d, c \in BOOLEAN : d = TRUE /\ c = TRUE
    OBVIOUS
  <2>2. MeetsFate(s, d) /\ IF s \in Clear THEN SchedulesClear(s, c) ELSE UNCHANGED <<draining, clear>>
    BY <1>1, <1>3, <2>1
  <2>3. PICK ph \in {"dormant", "applying"} : ph = "applying"
    OBVIOUS
  <2>4. updates' = IF Declares(s) /\ ~d THEN Append(updates, Update(s, ph)) ELSE updates
    BY <1>1, <2>1
  <2>5. \A q \in more : /\ q.kind \in {"orient", "item"} /\ q.visit <= moves' /\ q.upto <= Latest'
                        /\ q.thread <= bound
    BY <1>6, <1>7
  <2> QED BY <1>1, <1>7, <2>1, <2>2, <2>4, <2>5, Moves
<1>9. /\ \A x : Wanted(x) => Wanted(x)'
      /\ s \in Clear => ~Wanted(ClearSegment)
  <2>1. PICK b \in BOOLEAN, ph \in {"dormant", "applying"} : b = FALSE /\ ph = "applying"
    OBVIOUS
  <2>2. updates' = IF b THEN Append(updates, Update(s, ph)) ELSE updates
    BY <1>1, <2>1
  <2>3. PICK x : x = ApplySegment(Latest + 1)
    OBVIOUS
  <2> QED BY <1>2, <1>3, <2>2, <2>3, MovesWant
<1>10. Once' /\ queue' \in Seq(Segments)
  <2>1. CASE s \notin Clear
    BY <1>1, <1>3, <1>9, <2>1, OnceStays DEF Shape
  <2>2. CASE s \in Clear
    <3>1. PICK r : r = [id |-> 0, update |-> 0, clears |-> TRUE]
      OBVIOUS
    <3>2. r.update = 0 /\ r.clears = TRUE /\ Owes(r) = {ClearSegment}
      BY <3>1 DEF Owes
    <3>3. queue' = queue \o RunsAfterReply(r.update, r.clears)
      <4>1. ClearSegment \in Segments /\ queue \in Seq(Segments)
        BY DEF ClearSegment, Segments, Shape
      <4>2. RunsAfterReply(0, TRUE) = <<ClearSegment>>
        BY DEF RunsAfterReply
      <4>3. ASSUME NEW T, NEW q \in Seq(T), NEW x \in T PROVE Append(q, x) = q \o <<x>>
        OBVIOUS
      <4>4. Append(queue, ClearSegment) = queue \o <<ClearSegment>>
        BY <4>1, <4>3
      <4> QED BY <1>3, <2>2, <3>2, <4>2, <4>4
    <3>4. Wanted(ClearSegment)'
      <4>1. clear'.pc = "queued"
        BY <1>3, <2>2 DEF SchedulesClear
      <4> QED BY <4>1 DEF Wanted, ClearSegment
    <3>5. \A x \in Owes(r) : Wanted(x)' /\ ~Wanted(x)
      BY <1>9, <2>2, <3>2, <3>4 DEF ClearSegment
    <3>6. r.update \in Nat /\ UNCHANGED <<parked, requests>> /\ Shape /\ Once
      BY <1>1, <3>2
    <3> QED BY <1>9, <3>3, <3>5, <3>6, OnceWith
  <2> QED BY <2>1, <2>2
<1>11. Shape'
  BY <1>1, <1>8, <1>10 DEF Shape
<1> QED BY <1>8, <1>10, <1>11

(* A transition whose segments, if any, run beside the chain.               *)
LEMMA BesideStep ==
    ASSUME All, NEW s \in States, MovesTo(s), MeetsFate(s, FALSE),
           UNCHANGED <<bound, inForce, queue, held, parked, requests>>,
           updates' = IF Declares(s) THEN Append(updates, Update(s, "applying")) ELSE updates,
           IF s \in Clear THEN SchedulesClear(s, FALSE) ELSE UNCHANGED <<draining, clear>>,
           NEW more \in SUBSET ProducerRecords, producers' = producers \cup more,
           \A p \in more : /\ p.kind = "orient" /\ p.visit <= moves' /\ p.upto <= Latest'
                           /\ p.thread <= bound
    PROVE  All'
<1> USE DEF All
<1>1. PICK d, c, b \in BOOLEAN, ph \in {"dormant", "applying"} :
         d = FALSE /\ c = FALSE /\ b = Declares(s) /\ ph = "applying"
  BY DEF Declares, Stateful
<1>2. /\ at' \in States /\ moves' \in Nat /\ draining' \in BOOLEAN /\ due' \in Values /\ fate' \in Fates
      /\ updates' \in Seq(UpdateRecords) /\ \A i \in 1..Latest' : updates'[i].thread <= bound
      /\ clear' \in ClearRecords
      /\ producers' \subseteq ProducerRecords /\ \A q \in producers' : q.thread <= bound
      /\ Order' /\ Draining' /\ Visits' /\ Leading'
  <2>1. MeetsFate(s, d) /\ IF s \in Clear THEN SchedulesClear(s, c) ELSE UNCHANGED <<draining, clear>>
    BY <1>1
  <2>2. updates' = IF Declares(s) /\ ~d THEN Append(updates, Update(s, ph)) ELSE updates
    BY <1>1
  <2>3. \A q \in more : /\ q.kind \in {"orient", "item"} /\ q.visit <= moves' /\ q.upto <= Latest'
                        /\ q.thread <= bound
    OBVIOUS
  <2> QED BY <1>1, <2>1, <2>2, <2>3, Moves
<1>3. \A x : Wanted(x) => Wanted(x)'
  <2>1. updates' = IF b THEN Append(updates, Update(s, ph)) ELSE updates
    BY <1>1
  <2>2. PICK x : x = ApplySegment(Latest + 1)
    OBVIOUS
  <2> QED BY <2>1, <2>2, MovesWant DEF MovesTo
<1>4. Once'
  BY <1>3, OnceStays
<1>5. Shape'
  BY <1>2 DEF Shape
<1> QED BY <1>2, <1>4, <1>5

LEMMA HookStep ==
    ASSUME All, NEW s \in States, HookRuns(s)
    PROVE  All'
<1>1. /\ MovesTo(s) /\ MeetsFate(s, FALSE)
      /\ UNCHANGED <<bound, inForce, queue, held, parked, requests, producers>>
      /\ updates' = IF Declares(s) THEN Append(updates, Update(s, "applying")) ELSE updates
      /\ IF s \in Clear THEN SchedulesClear(s, FALSE) ELSE UNCHANGED <<draining, clear>>
  BY DEF HookRuns, chainVars, askVars
<1>2. PICK more \in SUBSET ProducerRecords : more = {} /\ producers' = producers \cup more
  BY <1>1
<1> QED BY <1>1, <1>2, BesideStep

LEMMA ChoosesStep ==
    ASSUME All, NEW s \in States, OwnerChooses(s)
    PROVE  All'
<1>1. /\ MovesTo(s) /\ MeetsFate(s, FALSE)
      /\ UNCHANGED <<bound, inForce, queue, held, parked, requests>>
      /\ updates' = IF Declares(s) THEN Append(updates, Update(s, "applying")) ELSE updates
      /\ IF s \in Clear THEN SchedulesClear(s, FALSE) ELSE UNCHANGED <<draining, clear>>
  BY DEF OwnerChooses, chainVars, askVars
<1>2. PICK p : p = [kind |-> "orient", visit |-> 0, thread |-> bound, own |-> 0, upto |-> Latest']
  OBVIOUS
<1>3. moves' \in Nat /\ bound \in Nat /\ Latest' \in Nat
  <2>1. CASE Declares(s)
    BY <1>1, <2>1, NewUpdate, SettingsAssumption DEF MovesTo, All, Shape, Threads
  <2>2. CASE ~Declares(s)
    BY <1>1, <2>2, SettingsAssumption DEF MovesTo, All, Shape, Threads, Latest
  <2> QED BY <2>1, <2>2
<1>4. p \in ProducerRecords /\ p.kind = "orient" /\ p.visit <= moves' /\ p.upto <= Latest' /\ p.thread <= bound
  BY <1>2, <1>3 DEF ProducerRecords, TaskKinds
<1>5. PICK more \in SUBSET ProducerRecords : producers' = producers \cup more /\ more \in {{}, {p}}
  BY <1>2, <1>4 DEF OwnerChooses, Producer, Latest
<1> QED BY <1>1, <1>4, <1>5, BesideStep

LEMMA PolicyStep ==
    ASSUME All, NEW s \in States, NEW toOwner \in BOOLEAN, PolicyRuns(s, toOwner)
    PROVE  All'
<1> USE DEF All
<1>1. /\ ~draining /\ MovesTo(s) /\ MeetsFate(s, FALSE)
      /\ UNCHANGED <<bound, inForce, held, producers>>
      /\ updates' = IF Declares(s) THEN Append(updates, Update(s, "dormant")) ELSE updates
      /\ IF s \in Clear THEN SchedulesClear(s, TRUE) ELSE UNCHANGED <<draining, clear>>
  BY DEF PolicyRuns
<1>2. PICK d, c, b \in BOOLEAN, ph \in {"dormant", "applying"} :
         d = FALSE /\ c = TRUE /\ b = Declares(s) /\ ph = "dormant"
  BY DEF Declares, Stateful
<1>3. /\ at' \in States /\ moves' \in Nat /\ draining' \in BOOLEAN /\ due' \in Values /\ fate' \in Fates
      /\ updates' \in Seq(UpdateRecords) /\ \A i \in 1..Latest' : updates'[i].thread <= bound
      /\ clear' \in ClearRecords
      /\ producers' \subseteq ProducerRecords /\ \A q \in producers' : q.thread <= bound
      /\ Order' /\ Draining' /\ Visits' /\ Leading'
  <2>1. MeetsFate(s, d) /\ IF s \in Clear THEN SchedulesClear(s, c) ELSE UNCHANGED <<draining, clear>>
    BY <1>1, <1>2
  <2>2. updates' = IF Declares(s) /\ ~d THEN Append(updates, Update(s, ph)) ELSE updates
    BY <1>1, <1>2
  <2>3. PICK more \in SUBSET ProducerRecords : more = {} /\ producers' = producers \cup more
    BY <1>1
  <2>4. \A q \in more : /\ q.kind \in {"orient", "item"} /\ q.visit <= moves' /\ q.upto <= Latest'
                        /\ q.thread <= bound
    BY <2>3
  <2> QED BY <1>1, <1>2, <2>1, <2>2, <2>3, <2>4, Moves
<1>4. PICK x : x = ApplySegment(Latest + 1)
  OBVIOUS
<1>5. /\ \A y : Wanted(y) => Wanted(y)'
      /\ s \in Clear => ~Wanted(ClearSegment)
      /\ ~Wanted(x) /\ (b => Wanted(x)') /\ Latest \in Nat
  <2>1. updates' = IF b THEN Append(updates, Update(s, ph)) ELSE updates
    BY <1>1, <1>2
  <2>2. s \in Clear => clear = NoClear
    BY <1>1 DEF MovesTo
  <2> QED BY <1>1, <1>2, <1>4, <2>1, <2>2, MovesWant
<1>6. s \in Clear => Wanted(ClearSegment)'
  <2>1. s \in Clear => clear'.pc = "queued"
    BY <1>1 DEF SchedulesClear
  <2> QED BY <2>1 DEF Wanted, ClearSegment
<1>7. PICK update, id : /\ update = IF Declares(s) THEN Latest + 1 ELSE 0
                        /\ id = IF toOwner THEN requests' ELSE 0
  OBVIOUS
<1>8. PICK r : r = [id |-> id, update |-> update, clears |-> s \in Clear]
  OBVIOUS
<1>9. r.update = update /\ r.clears = (s \in Clear) /\ r.id = id /\ update \in Nat
  BY <1>5, <1>7, <1>8
<1>10. \A y \in Owes(r) : Wanted(y)' /\ ~Wanted(y)
  <2>1. \A y \in Owes(r) : (b /\ y = x) \/ (s \in Clear /\ y = ClearSegment)
    <3>1. update # 0 => b /\ ApplySegment(update) = x
      BY <1>2, <1>4, <1>7
    <3> QED BY <1>9, <3>1 DEF Owes
  <2> QED BY <1>5, <1>6, <2>1 DEF ClearSegment
<1>11. \/ /\ ~toOwner /\ queue' = queue \o RunsAfterReply(r.update, r.clears)
          /\ UNCHANGED <<parked, requests>>
       \/ /\ toOwner /\ queue' = queue /\ parked' = parked \cup {r} /\ r.id = requests'
          /\ requests < MaxRequests /\ requests' = requests + 1
  BY <1>7, <1>8, <1>9 DEF PolicyRuns, askVars
<1>12. Once' /\ queue' \in Seq(Segments)
  BY <1>5, <1>9, <1>10, <1>11, OnceWith
<1>13. parked' \subseteq RequestRecords /\ requests' \in 0..MaxRequests
  <2>1. CASE toOwner
    <3>1. requests' \in 1..MaxRequests
      BY <1>11, <2>1, SettingsAssumption DEF Shape
    <3>2. r \in RequestRecords
      BY <1>7, <1>8, <1>9, <2>1, <3>1 DEF RequestRecords
    <3> QED BY <1>11, <2>1, <3>1, <3>2 DEF Shape
  <2>2. CASE ~toOwner
    BY <1>11, <2>2 DEF Shape
  <2> QED BY <2>1, <2>2
<1>14. Shape'
  BY <1>1, <1>3, <1>12, <1>13 DEF Shape
<1> QED BY <1>3, <1>12, <1>14

LEMMA InitAll ==
    ASSUME Init
    PROVE  SettingsInForce /\ All
<1>1. Start \in States /\ Start \notin Clear /\ Stateful(Start) /\ 1 \in Threads
  BY SettingsAssumption DEF Stateful, Threads
<1>2. /\ Model[Start] \in Values /\ Default \in Values /\ due \in Values
      /\ Declares(Start) => due = Model[Start]
      /\ ~Declares(Start) => due = Default
  BY <1>1, Declarations DEF Init
<1>3. PICK x : x = [thread |-> 1, model |-> Model[Start], phase |-> "applying"]
  OBVIOUS
<1>4. x \in UpdateRecords /\ x.thread = 1 /\ x.model = Model[Start] /\ x.phase = "applying"
  BY <1>2, <1>3 DEF UpdateRecords, Phases
<1>5. /\ updates \in Seq(UpdateRecords)
      /\ Declares(Start) => Latest = 1 /\ updates[1] = x
      /\ ~Declares(Start) => Latest = 0
  BY <1>3, <1>4 DEF Init, Latest
<1>6. Latest \in {0, 1} /\ \A i \in 1..Latest : i = 1 /\ Declares(Start) /\ updates[i] = x
  BY <1>5
<1>7. PICK p : /\ producers = {p}
              /\ p = [kind |-> "kickoff", visit |-> 0, thread |-> 1, own |-> Latest, upto |-> 0]
  BY DEF Init, Latest
<1>8. /\ p \in ProducerRecords /\ p.kind = "kickoff" /\ p.visit = 0 /\ p.thread = 1
      /\ p.own = Latest /\ p.upto = 0
  BY <1>6, <1>7 DEF ProducerRecords, TaskKinds
<1>9. /\ at = Start /\ moves = 0 /\ bound = 1 /\ draining = FALSE /\ inForce[1] = Default
      /\ inForce \in [Threads -> Values] /\ queue = <<>> /\ held \in Segments /\ clear \in ClearRecords
      /\ clear.pc = "no" /\ parked = {} /\ requests = 0 /\ fate = "registered"
  BY <1>1, <1>2 DEF Init, NoSegment, NoClear, Segments, ClearRecords
<1>10. Shape
  <2>1. at \in States /\ moves \in Nat /\ bound \in Threads /\ draining \in BOOLEAN
    BY <1>1, <1>9
  <2>2. inForce \in [Threads -> Values] /\ due \in Values /\ fate \in Fates
    BY <1>2, <1>9 DEF Fates
  <2>3. updates \in Seq(UpdateRecords) /\ \A i \in 1..Latest : updates[i].thread <= bound
    BY <1>4, <1>5, <1>6, <1>9
  <2>4. queue \in Seq(Segments) /\ held \in Segments /\ clear \in ClearRecords
    BY <1>9
  <2>5. parked \subseteq RequestRecords /\ requests \in 0..MaxRequests
    BY <1>9, SettingsAssumption
  <2>6. producers \subseteq ProducerRecords /\ \A q \in producers : q.thread <= bound
    BY <1>7, <1>8, <1>9
  <2> QED BY <2>1, <2>2, <2>3, <2>4, <2>5, <2>6 DEF Shape
<1>11. Order /\ Once /\ Draining /\ Visits
  <2>1. Order
    BY <1>4, <1>6 DEF Order
  <2>2. Once
    BY <1>9 DEF Once, Distinct, Entries
  <2>3. Draining /\ Visits
    BY <1>2, <1>6, <1>7, <1>8, <1>9 DEF Draining, Visits
  <2> QED BY <2>1, <2>2, <2>3
<1>12. Leads(Latest) /\ (Latest = 0 => Leads(0))
  <2>1. CASE Declares(Start)
    <3>1. Latest = 1 /\ Pending(1) /\ updates[1].model = due
      BY <1>2, <1>4, <1>5, <1>9, <2>1 DEF Pending
    <3>2. Leads(1)
      <4>1. \A i \in 1..1 : i = 1
        OBVIOUS
      <4>2. \A i \in 1 + 1..Latest : FALSE
        BY <3>1
      <4>3. 1 \in 1..1
        OBVIOUS
      <4> QED BY <3>1, <4>1, <4>2, <4>3 DEF Leads
    <3> QED BY <3>1, <3>2
  <2>2. CASE ~Declares(Start)
    <3>1. Latest = 0 /\ inForce[bound] = due
      BY <1>2, <1>5, <1>9, <2>2
    <3>2. Leads(0)
      BY <3>1 DEF Leads
    <3> QED BY <3>1, <3>2
  <2> QED BY <2>1, <2>2
<1>13. Leading
  BY <1>7, <1>8, <1>12 DEF Leading, Waits
<1>14. SettingsInForce
  BY DEF Init, SettingsInForce
<1> QED BY <1>10, <1>11, <1>13, <1>14 DEF All

LEMMA NextAll ==
    ASSUME SettingsInForce, All, Next
    PROVE  SettingsInForce' /\ (over' \/ All')
<1>1. ~over
  BY DEF Next
<1>2. ASSUME NEW p \in producers, Starts(p) PROVE SettingsInForce' /\ All'
  BY <1>2, StartsStep
<1>3. ASSUME NEW p \in producers, DanceInterrupts(p) PROVE SettingsInForce' /\ All'
  <2>1. All'
    BY <1>3, DanceStep
  <2> QED BY <1>3, <2>1 DEF DanceInterrupts, SettingsInForce
<1>4. ASSUME NEW p \in producers, OrientationFails(p) PROVE SettingsInForce' /\ over'
  BY <1>4 DEF OrientationFails, SettingsInForce
<1>5. ASSUME NEW i \in 1..Latest, Send(i) \/ Acknowledge(i) PROVE SettingsInForce' /\ All'
  <2>1. All'
    BY <1>5, SendStep, AcknowledgeStep
  <2>2. started' = started
    BY <1>5 DEF Send, Acknowledge
  <2> QED BY <2>1, <2>2 DEF SettingsInForce
<1>6. ASSUME NEW i \in 1..Latest, UpdateFails(i) PROVE SettingsInForce' /\ over'
  BY <1>6 DEF UpdateFails, SettingsInForce
<1>7. ASSUME BeginSegment \/ ApplyReturns PROVE SettingsInForce' /\ All'
  <2>1. All'
    BY <1>7, BeginStep, ApplyReturnsStep
  <2> QED BY <1>7, <2>1 DEF BeginSegment, ApplyReturns, SettingsInForce
<1>8. ASSUME NEW s \in States, SubmitRuns(s) \/ HookRuns(s) \/ OwnerChooses(s) PROVE SettingsInForce' /\ All'
  <2>1. All'
    BY <1>8, SubmitStep, HookStep, ChoosesStep
  <2>2. started' = started
    BY <1>8 DEF SubmitRuns, HookRuns, OwnerChooses
  <2> QED BY <2>1, <2>2 DEF SettingsInForce
<1>9. ASSUME NEW s \in States, NEW toOwner \in BOOLEAN, PolicyRuns(s, toOwner) PROVE SettingsInForce' /\ All'
  <2>1. All'
    BY <1>9, PolicyStep
  <2> QED BY <1>9, <2>1 DEF PolicyRuns, SettingsInForce
<1>10. ASSUME NEW r \in parked, OwnerDecides(r) \/ CodexWithdraws(r) PROVE SettingsInForce' /\ All'
  <2>1. All'
    BY <1>10, DecidesStep, WithdrawsStep
  <2> QED BY <1>10, <2>1 DEF OwnerDecides, CodexWithdraws, SettingsInForce
<1>11. ASSUME TurnEnds \/ OwnerPrompts PROVE SettingsInForce' /\ All'
  <2>1. All'
    BY <1>11, TurnEndsStep, OwnerPromptsStep
  <2> QED BY <1>11, <2>1 DEF TurnEnds, OwnerPrompts, SettingsInForce
<1>12. ASSUME ClearBegins \/ ClearOpens PROVE SettingsInForce' /\ (over' \/ All')
  <2>1. over' \/ All'
    BY <1>1, <1>12, ClearBeginsStep, ClearOpensStep
  <2> QED BY <1>12, <2>1 DEF ClearBegins, ClearOpens, SettingsInForce
<1> QED
  BY <1>2, <1>3, <1>4, <1>5, <1>6, <1>7, <1>8, <1>9, <1>10, <1>11, <1>12
  DEF Next, Applying, Produce, Proceeds, Clearing

(* A turn begun for the active state runs under the model that state        *)
(* declares, or else the one that sticks to it, if the declaration was      *)
(* registered for its thread and the turn waits for the updates: for every  *)
(* workflow and every bound.                                                *)
THEOREM ModelInForce == Spec => []SettingsInForce
<1> DEFINE IInv == SettingsInForce /\ (over \/ All)
<1>1. Init => IInv
  BY InitAll
<1>2. IInv /\ [Next]_vars => IInv'
  <2> SUFFICES ASSUME IInv, [Next]_vars PROVE IInv'
    OBVIOUS
  <2>1. CASE Next
    <3>1. All
      BY <2>1 DEF Next
    <3> QED BY <2>1, <3>1, NextAll
  <2>2. CASE UNCHANGED vars
    <3>1. /\ UNCHANGED <<at, moves, due, fate, bound, draining, inForce, updates, clear, queue, held>>
          /\ UNCHANGED <<parked, requests, producers, started, over>>
      BY <2>2 DEF vars, moveVars, threadVars, chainVars, askVars
    <3>2. Latest' = Latest /\ \A i : Pending(i)' <=> Pending(i)
      BY <3>1 DEF Latest, Pending
    <3>3. ASSUME All PROVE All'
      <4>1. PICK more \in SUBSET ProducerRecords : more = {}
        OBVIOUS
      <4>2. /\ Order' /\ Draining' /\ Visits' /\ Leading'
            /\ \A x : Wanted(x) => Wanted(x)'
        BY <3>1, <3>3, <4>1, TasksStep
      <4>3. Shape' /\ Once'
        BY <3>1, <3>2, <3>3, <4>2, OnceStays DEF All, Shape
      <4> QED BY <4>2, <4>3 DEF All
    <3> QED BY <3>1, <3>3 DEF SettingsInForce
  <2> QED BY <2>1, <2>2
<1> QED BY <1>1, <1>2, PTL DEF Spec
=============================================================================
