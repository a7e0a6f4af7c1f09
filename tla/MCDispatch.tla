----------------------------- MODULE MCDispatch -----------------------------
(* a and b beside a host h and the final e; in h: s, t, the final f and a host g;   *)
(* in g: u, x and the final v.                                                    *)
EXTENDS Dispatch, TLC
CONSTANTS a, b, h, e, s, t, f, g, u, x, v, p, q

TwoSlots == {p, q}
Swaps == Permutations(TwoSlots)

AllNodes == {a, b, h, e, s, t, f, g, u, x, v}
Tree == [n \in AllNodes |-> IF n \in {a, b, h, e} THEN Root
                            ELSE IF n \in {s, t, f, g} THEN h ELSE g]
Starts == [n \in {Root, h, g} |-> IF n = Root THEN a ELSE IF n = h THEN s ELSE u]

\* A route: its last branch is the catch-all.
Route(keys) == [i \in DOMAIN keys |-> [to |-> keys[i], guarded |-> i < Len(keys)]]
One(key) == Route(<<key>>)
Guarded(key) == <<[to |-> key, guarded |-> TRUE]>>

Base == [key    |-> [n \in AllNodes |-> n],
         kind   |-> [n \in AllNodes |-> IF n \in {h, g} THEN "host"
                                        ELSE IF n \in {e, f, v} THEN "final" ELSE "stateful"],
         to     |-> [n \in AllNodes |-> IF n \in {h, g, e, f, v} THEN << >>
                                        ELSE CASE n = a -> Route(<<b, h>>) [] n = b -> One(e)
                                               [] n = s -> One(f) [] n = t -> One(s)
                                               [] n = u -> One(x) [] OTHER -> One(v)],
         event  |-> [n \in AllNodes |-> NULL],
         invoke |-> [n \in AllNodes |-> NULL],
         wired  |-> [n \in AllNodes |-> IF n = f THEN b ELSE IF n = v THEN t ELSE NULL]]

\* The outer workflow varies: kinds, routes, events and an invoking passive state.
Outer ==
  {[Base EXCEPT !.kind[a] = ka, !.kind[b] = kb, !.to[a] = ra, !.to[b] = rb,
                !.event[a] = IF h = ra[1].to THEN NULL ELSE ev,
                !.to[s] = Route(<<t, g, f>>)] :
     ka \in {"stateful", "choice"}, kb \in {"stateful", "choice", "passive"},
     ra \in {Route(<<b, h>>), Route(<<h, a, e>>)},
     rb \in {One(e), Route(<<h, e>>), One(a), One(b), Route(<<b, e>>), Guarded(e), << >>},
     ev \in {NULL, STAY, b}}
Choices(w) == [w EXCEPT !.to = [n \in AllNodes |->
                 IF w.kind[n] = "choice" THEN [i \in DOMAIN w.to[n] |-> [w.to[n][i] EXCEPT !.guarded = FALSE]]
                 ELSE w.to[n]],
               !.event = [n \in AllNodes |-> IF w.kind[n] = "stateful" THEN w.event[n] ELSE NULL]]
Invoking == {[Base EXCEPT !.kind[b] = "passive", !.to[b] = rb, !.invoke[b] = iv, !.wired[f] = e,
                          !.to[s] = Route(<<t, g, f>>), !.event[a] = b] :
               rb \in {<< >>, Guarded(h)}, iv \in {a, h}}

\* The embedded workflows vary: how their finals are reached and wired, and a state
\* x of the inner one that may be called f.
Inner ==
  {[Base EXCEPT !.to[a] = One(h), !.to[s] = rs, !.kind[t] = kt, !.to[t] = rt, !.to[u] = ru,
                !.key[x] = kx, !.wired[v] = wv, !.wired[f] = wf1,
                !.event[s] = IF rt = One(f) /\ wf1 = a THEN f ELSE NULL] :
     rs \in {Route(<<g, t, f>>), Route(<<t, g>>)}, kt \in {"stateful", "choice", "passive"},
     rt \in {One(f), One(s), Route(<<g, s>>)},
     ru \in {One(v), Route(<<x, v>>), Route(<<f, v>>)},
     kx \in {x, f}, wv \in {f, t, s}, wf1 \in {b, a}}

\* A passive state that leads to itself never settles: XState loops.
Settles(w) == \A n \in AllNodes : w.kind[n] = "passive" => \A i \in DOMAIN w.to[n] : w.to[n][i].to # n

\* The finals of the two embedded workflows have one name, and so have the events of
\* the inner one and the outer workflow.
Twins == {[Base EXCEPT !.to[a] = One(h), !.to[s] = Route(<<g, t, f>>), !.key[v] = f,
                       !.to[u] = Route(<<x, f>>), !.to[x] = One(f), !.event[u] = ev,
                       !.event[a] = IF ev = NULL THEN NULL ELSE STAY, !.wired[v] = wv] :
            ev \in {NULL, f}, wv \in {f, t}}

\* A passive state's only way to the final lies behind its catch-all.
Behind == {[Base EXCEPT !.kind[b] = "passive", !.to[a] = One(b), !.wired[f] = e,
                        !.to[b] = <<[to |-> a, guarded |-> gd], [to |-> h, guarded |-> FALSE]>>,
                        !.to[s] = Route(<<t, g, f>>)] : gd \in BOOLEAN}

Candidates == {Choices(w) : w \in {w1 \in Outer \cup Invoking \cup Inner \cup Twins \cup Behind :
                                     Settles(w1)}}
=============================================================================
