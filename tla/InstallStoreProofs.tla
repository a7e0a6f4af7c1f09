-------------------------- MODULE InstallStoreProofs ---------------------------
(* The store of installed packages, for every number of packages,           *)
(* libraries, processes, versions and faults: the index is that of the      *)
(* installs, and what a reader lets in has been verified.                   *)
EXTENDS InstallStore, FiniteSetTheorems, TLAPS

(******************************** induction *********************************)
LEMMA Least ==
    ASSUME NEW T \in SUBSET Nat, NEW n \in T
    PROVE  \E m \in T : \A k \in T : m <= k
<1> DEFINE D == {0..k : k \in T}
<1>1. D \subseteq FiniteSubsetsOf(Nat) /\ D # {}
  <2>1. ASSUME NEW k \in T PROVE IsFiniteSet(0..k) /\ 0..k \in SUBSET Nat
    BY FS_Interval
  <2> QED BY <2>1 DEF FiniteSubsetsOf
<1>2. IsWellFoundedOn(StrictSubsetOrdering(Nat), FiniteSubsetsOf(Nat))
  BY FS_StrictSubsetOrderingWellFounded
<1>3. PICK x \in D : \A y \in D : ~(<<y, x>> \in StrictSubsetOrdering(Nat))
  BY <1>1, <1>2, WFMin
<1>4. PICK m \in T : x = 0..m
  OBVIOUS
<1>5. ASSUME NEW k \in T, k < m PROVE FALSE
  <2>1. 0..k \in D /\ 0..k \subseteq 0..m /\ 0..k # 0..m /\ 0..m \in SUBSET Nat /\ 0..k \in SUBSET Nat
    BY <1>5
  <2> QED BY <1>3, <1>4, <2>1 DEF StrictSubsetOrdering
<1> QED BY <1>5

(* Induction over the natural numbers, for a set in the place of the        *)
(* formula.                                                                 *)
LEMMA Induction ==
    ASSUME NEW S, 0 \in S, \A n \in Nat : n \in S => n + 1 \in S
    PROVE  Nat \subseteq S
<1> SUFFICES ASSUME NEW n \in Nat, n \notin S PROVE FALSE
  OBVIOUS
<1>1. PICK m \in Nat \ S : \A k \in Nat \ S : m <= k
  <2>1. Nat \ S \in SUBSET Nat /\ n \in Nat \ S
    OBVIOUS
  <2> QED BY <2>1, Least
<1>2. m - 1 \in Nat /\ m - 1 \in S
  BY <1>1
<1> QED BY <1>1, <1>2


(* A sequence of iterates exists.                                           *)
Follows(g, n, a, N) == g[0] = a /\ \A i \in 1..n : g[i] = N[g[i - 1]]

LEMMA Unique ==
    ASSUME NEW X, NEW a \in X, NEW N \in [X -> X], NEW m \in Nat, NEW n \in Nat, m <= n,
           NEW g, NEW h, Follows(g, m, a, N), Follows(h, n, a, N)
    PROVE  \A i \in 0..m : g[i] = h[i]
<1> DEFINE S == {i \in Nat : i <= m => g[i] = h[i]}
<1>1. 0 \in S
  BY DEF Follows
<1>2. \A i \in Nat : i \in S => i + 1 \in S
  <2>1. ASSUME NEW i \in Nat, i \in S, i + 1 <= m PROVE g[i + 1] = h[i + 1]
    <3>1. g[i] = h[i] /\ i + 1 \in 1..m /\ i + 1 \in 1..n /\ (i + 1) - 1 = i
      BY <2>1
    <3> QED BY <3>1 DEF Follows
  <2> QED BY <2>1
<1>3. Nat \subseteq S
  BY <1>1, <1>2, Induction
<1> QED BY <1>3

LEMMA Prefixes ==
    ASSUME NEW X, NEW a \in X, NEW N \in [X -> X]
    PROVE  \A n \in Nat : \E g \in [0..n -> X] : Follows(g, n, a, N)
<1> DEFINE S == {n \in Nat : \E g \in [0..n -> X] : Follows(g, n, a, N)}
<1>1. 0 \in S
  <2>1. [i \in 0..0 |-> a] \in [0..0 -> X] /\ Follows([i \in 0..0 |-> a], 0, a, N)
    BY DEF Follows
  <2> QED BY <2>1
<1>2. \A n \in Nat : n \in S => n + 1 \in S
  <2>1. ASSUME NEW n \in Nat, NEW g \in [0..n -> X], Follows(g, n, a, N)
        PROVE  \E h \in [0..(n + 1) -> X] : Follows(h, n + 1, a, N)
    <3>1. PICK h : h = [i \in 0..(n + 1) |-> IF i <= n THEN g[i] ELSE N[g[n]]]
      OBVIOUS
    <3>2. h \in [0..(n + 1) -> X]
      BY <3>1
    <3>3. h[0] = a
      BY <2>1, <3>1 DEF Follows
    <3>4. ASSUME NEW i \in 1..(n + 1) PROVE h[i] = N[h[i - 1]]
      <4>1. i - 1 \in 0..n /\ h[i - 1] = g[i - 1]
        BY <3>1
      <4>2. CASE i <= n
        BY <2>1, <3>1, <4>1, <4>2 DEF Follows
      <4>3. CASE ~(i <= n)
        <5>1. i - 1 = n
          BY <4>3
        <5> QED BY <3>1, <4>1, <4>3, <5>1
      <4> QED BY <4>2, <4>3
    <3> QED BY <3>2, <3>3, <3>4 DEF Follows
  <2> QED BY <2>1
<1>3. Nat \subseteq S
  BY <1>1, <1>2, Induction
<1> QED BY <1>3

LEMMA Iterates ==
    ASSUME NEW X, NEW a \in X, NEW N \in [X -> X]
    PROVE  \E f \in [Nat -> X] : f[0] = a /\ \A i \in Nat : f[i + 1] = N[f[i]]
<1> DEFINE G(n) == CHOOSE g \in [0..n -> X] : Follows(g, n, a, N)
<1>1. \A n \in Nat : G(n) \in [0..n -> X] /\ Follows(G(n), n, a, N)
  BY Prefixes
<1> HIDE DEF G
<1>2. PICK f : f = [n \in Nat |-> G(n)[n]]
  OBVIOUS
<1>3. f \in [Nat -> X]
  BY <1>1, <1>2
<1>4. f[0] = a
  BY <1>1, <1>2 DEF Follows
<1>5. ASSUME NEW i \in Nat PROVE f[i + 1] = N[f[i]]
  <2>1. i + 1 \in Nat /\ i + 1 \in 1..(i + 1) /\ (i + 1) - 1 = i /\ i <= i + 1 /\ i \in 0..i
    OBVIOUS
  <2>2. G(i + 1)[i + 1] = N[G(i + 1)[i]]
    BY <1>1, <2>1 DEF Follows
  <2>3. G(i)[i] = G(i + 1)[i]
    BY <1>1, <2>1, Unique
  <2> QED BY <1>2, <2>1, <2>2, <2>3
<1> QED BY <1>3, <1>4, <1>5

(******************************** lock files ********************************)
Needed(file, path) == {Resolve(file, path, n) : n \in Needs[NameAt(path)]}
Places == Paths \union {NULL}
Reached(file, S) == S \union UNION {Needed(file, path) : path \in S \ {NULL}}
Beneath(path, i, n) == Append(SubSeq(path, 1, i), n)

LEMMA PathFacts ==
    /\ \A path \in Paths : /\ path \in Seq(Names) /\ Len(path) \in {1, 2}
                           /\ NameAt(path) \in Names /\ Needs[NameAt(path)] \subseteq Libraries
    /\ \A p \in Packages : <<p>> \in Paths /\ NameAt(<<p>>) = p
    /\ NULL \notin Paths
<1>1. ASSUME NEW path \in Paths PROVE path \in Seq(Names) /\ Len(path) \in {1, 2} /\ NameAt(path) \in Names
  <2>1. CASE path \in {<<n>> : n \in Names}
    BY <2>1 DEF NameAt
  <2>2. CASE path \in {<<p, l>> : p \in Packages, l \in Libraries}
    BY <2>2 DEF NameAt, Names
  <2> QED BY <2>1, <2>2 DEF Paths
<1>2. \A n \in Names : Needs[n] \subseteq Libraries
  BY LockfileAssumption
<1>3. \A p \in Packages : <<p>> \in Paths /\ NameAt(<<p>>) = p
  BY DEF Paths, Names, NameAt
<1> QED BY <1>1, <1>2, <1>3, LockfileAssumption

LEMMA BeneathName ==
    ASSUME NEW path \in Paths, NEW i \in 0..Len(path), NEW n
    PROVE  NameAt(Beneath(path, i, n)) = n
<1>1. path \in Seq(Names) /\ Len(path) \in Nat
  BY PathFacts
<1>2. PICK s : s = SubSeq(path, 1, i)
  OBVIOUS
<1>3. s \in Seq(Names)
  BY <1>1, <1>2
<1>4. Append(s, n)[Len(Append(s, n))] = n
  <2>1. s \in Seq(Names \union {n})
    BY <1>3
  <2> QED BY <2>1
<1> QED BY <1>2, <1>4 DEF NameAt, Beneath

(* The nearest entry of a name, or none.                                    *)
LEMMA ResolveIs ==
    ASSUME NEW file, NEW path \in Paths, NEW n
    PROVE  \/ Resolve(file, path, n) = NULL /\ \A i \in 0..Len(path) : ~Present(file, Beneath(path, i, n))
           \/ \E i \in 0..Len(path) :
                 /\ Resolve(file, path, n) = Beneath(path, i, n) /\ Present(file, Beneath(path, i, n))
                 /\ \A j \in 0..Len(path) : Present(file, Beneath(path, j, n)) => j <= i
<1>1. PICK found : found = {i \in 0..Len(path) : Present(file, Beneath(path, i, n))}
  OBVIOUS
<1>2. Resolve(file, path, n) = IF found = {} THEN NULL
                               ELSE Beneath(path, CHOOSE i \in found : \A j \in found : j <= i, n)
  BY <1>1 DEF Resolve, Beneath
<1>3. CASE found = {}
  BY <1>1, <1>2, <1>3
<1>4. CASE found # {}
  <2>1. \E i \in found : \A j \in found : j <= i
    <3>1. Len(path) \in {1, 2} /\ found \subseteq 0..Len(path)
      BY <1>1, PathFacts
    <3>2. \A i \in found : i = 0 \/ i = 1 \/ i = 2
      <4>1. PICK k : k = Len(path) /\ k \in {1, 2}
        BY <3>1
      <4>2. \A i \in 0..k : i = 0 \/ i = 1 \/ i = 2
        BY <4>1
      <4> QED BY <3>1, <4>1, <4>2
    <3>3. CASE 2 \in found
      BY <3>2, <3>3
    <3>4. CASE 2 \notin found /\ 1 \in found
      BY <3>2, <3>4
    <3>5. CASE 2 \notin found /\ 1 \notin found
      <4>1. found = {0}
        BY <1>4, <3>2, <3>5
      <4> QED BY <4>1
    <3> QED BY <3>3, <3>4, <3>5
  <2>2. PICK i : i = CHOOSE k \in found : \A j \in found : j <= k
    OBVIOUS
  <2>3. i \in found /\ \A j \in found : j <= i
    BY <2>1, <2>2
  <2> QED BY <1>1, <1>2, <1>4, <2>2, <2>3
<1> QED BY <1>3, <1>4

LEMMA ResolvePlace ==
    ASSUME NEW file, NEW path \in Paths, NEW n
    PROVE  /\ Resolve(file, path, n) \in Places
           /\ Resolve(file, path, n) # NULL => Present(file, Resolve(file, path, n))
BY ResolveIs, PathFacts DEF Present, Places

LEMMA NearestIs ==
    ASSUME NEW file, NEW path \in Paths, NEW n
    PROVE  Nearest(file, path, n) = {Resolve(file, path, n)} \ {NULL}
<1>1. Len(path) \in Nat /\ NULL \notin Paths
  BY PathFacts
<1>2. Nearest(file, path, n) =
        {q \in Paths : /\ Present(file, q) /\ NameAt(q) = n
                       /\ \E i \in 0..Len(path) :
                            /\ q = Beneath(path, i, n)
                            /\ \A j \in i + 1..Len(path) : ~Present(file, Beneath(path, j, n))}
  BY DEF Nearest, Beneath
<1>3. CASE Resolve(file, path, n) = NULL /\ \A i \in 0..Len(path) : ~Present(file, Beneath(path, i, n))
  BY <1>2, <1>3
<1>4. CASE \E i \in 0..Len(path) :
              /\ Resolve(file, path, n) = Beneath(path, i, n) /\ Present(file, Beneath(path, i, n))
              /\ \A j \in 0..Len(path) : Present(file, Beneath(path, j, n)) => j <= i
  <2>1. PICK i \in 0..Len(path) :
              /\ Resolve(file, path, n) = Beneath(path, i, n) /\ Present(file, Beneath(path, i, n))
              /\ \A j \in 0..Len(path) : Present(file, Beneath(path, j, n)) => j <= i
    BY <1>4
  <2>2. Beneath(path, i, n) \in Paths /\ Beneath(path, i, n) # NULL /\ NameAt(Beneath(path, i, n)) = n
    BY <1>1, <2>1, BeneathName DEF Present
  <2>3. \A j \in i + 1..Len(path) : ~Present(file, Beneath(path, j, n))
    <3>1. \A j \in i + 1..Len(path) : j \in 0..Len(path) /\ ~(j <= i)
      BY <1>1
    <3> QED BY <2>1, <3>1
  <2>4. Beneath(path, i, n) \in Nearest(file, path, n)
    BY <1>2, <2>1, <2>2, <2>3
  <2>5. ASSUME NEW q \in Nearest(file, path, n) PROVE q = Beneath(path, i, n)
    <3>1. PICK j \in 0..Len(path) : /\ q = Beneath(path, j, n) /\ Present(file, Beneath(path, j, n))
                                   /\ \A k \in j + 1..Len(path) : ~Present(file, Beneath(path, k, n))
      BY <1>2, <2>5
    <3>2. j <= i /\ ~(i \in j + 1..Len(path))
      BY <2>1, <3>1
    <3>3. i = j
      BY <1>1, <3>2
    <3> QED BY <3>1, <3>3
  <2> QED BY <2>1, <2>2, <2>4, <2>5
<1> QED BY <1>3, <1>4, ResolveIs

LEMMA ReachedPlaces ==
    ASSUME NEW file, NEW S \in SUBSET Places
    PROVE  Reached(file, S) \in SUBSET Places
<1>1. ASSUME NEW path \in S \ {NULL}, NEW x \in Needed(file, path) PROVE x \in Places
  BY <1>1, ResolvePlace DEF Needed, Places
<1> QED BY <1>1 DEF Reached

LEMMA Walked ==
    ASSUME NEW file, NEW p \in Packages
    PROVE  \E f \in [Nat -> SUBSET Places] :
             /\ f[0] = {<<p>>} /\ \A i \in Nat : f[i + 1] = Reached(file, f[i])
             /\ Walk(file, p) = f[Cardinality(Paths)]
<1>1. PICK f : /\ Walk(file, p) = f[Cardinality(Paths)]
               /\ f = CHOOSE g : g = [i \in Nat |->
                        IF i = 0 THEN {<<p>>}
                        ELSE g[i - 1] \union UNION {{Resolve(file, path, n) : n \in Needs[NameAt(path)]} :
                                                      path \in g[i - 1] \ {NULL}}]
  BY DEF Walk
<1>2. f = CHOOSE g : g = [i \in Nat |-> IF i = 0 THEN {<<p>>} ELSE Reached(file, g[i - 1])]
  BY <1>1 DEF Reached, Needed
<1>3. \E g : g = [i \in Nat |-> IF i = 0 THEN {<<p>>} ELSE Reached(file, g[i - 1])]
  <2>1. PICK N : N = [S \in SUBSET Places |-> Reached(file, S)]
    OBVIOUS
  <2>2. N \in [SUBSET Places -> SUBSET Places] /\ {<<p>>} \in SUBSET Places
    BY <2>1, ReachedPlaces, PathFacts DEF Places
  <2>3. PICK a \in SUBSET Places : a = {<<p>>}
    BY <2>2
  <2>4. PICK g \in [Nat -> SUBSET Places] : g[0] = a /\ \A i \in Nat : g[i + 1] = N[g[i]]
    <3>1. PICK X : X = SUBSET Places
      OBVIOUS
    <3>2. a \in X /\ N \in [X -> X]
      BY <2>2, <2>3, <3>1
    <3>3. \E g \in [Nat -> X] : g[0] = a /\ \A i \in Nat : g[i + 1] = N[g[i]]
      BY <3>2, Iterates
    <3> QED BY <3>1, <3>3
  <2>5. ASSUME NEW i \in Nat PROVE g[i] = IF i = 0 THEN {<<p>>} ELSE Reached(file, g[i - 1])
    <3>1. CASE i = 0
      BY <2>3, <2>4, <3>1
    <3>2. CASE i # 0
      <4>1. i - 1 \in Nat /\ (i - 1) + 1 = i
        BY <3>2
      <4> QED BY <2>1, <2>4, <3>2, <4>1
    <3> QED BY <3>1, <3>2
  <2>6. g = [i \in Nat |-> IF i = 0 THEN {<<p>>} ELSE Reached(file, g[i - 1])]
    BY <2>5
  <2> QED BY <2>6
<1>4. f = [i \in Nat |-> IF i = 0 THEN {<<p>>} ELSE Reached(file, f[i - 1])]
  BY <1>2, <1>3
<1>5. f[0] = {<<p>>}
  BY <1>4
<1>6. ASSUME NEW i \in Nat PROVE f[i + 1] = Reached(file, f[i])
  <2>1. i + 1 \in Nat /\ i + 1 # 0 /\ (i + 1) - 1 = i
    OBVIOUS
  <2> QED BY <1>4, <2>1
<1>7. f \in [Nat -> SUBSET Places]
  <2> DEFINE S == {i \in Nat : f[i] \in SUBSET Places}
  <2>1. 0 \in S
    BY <1>5, PathFacts DEF Places
  <2>2. \A i \in Nat : i \in S => i + 1 \in S
    BY <1>6, ReachedPlaces
  <2>3. Nat \subseteq S
    BY <2>1, <2>2, Induction
  <2> QED BY <1>4, <2>3
<1> QED BY <1>1, <1>5, <1>6, <1>7

LEMMA FinitePaths == IsFiniteSet(Paths)
<1>1. IsFiniteSet(Names) /\ IsFiniteSet(Names \X Names)
  BY LockfileAssumption, FS_Product
<1>2. IsFiniteSet({<<n>> : n \in Names})
  <2>1. PICK T : T = {<<n>> : n \in Names}
    OBVIOUS
  <2>2. PICK f : f = [n \in Names |-> <<n>>]
    OBVIOUS
  <2>3. f \in Surjection(Names, T)
    BY <2>1, <2>2 DEF Surjection
  <2> QED BY <1>1, <2>1, <2>3, FS_Surjection
<1>3. IsFiniteSet({<<p, l>> : p \in Packages, l \in Libraries})
  <2>1. {<<p, l>> : p \in Packages, l \in Libraries} \in SUBSET (Names \X Names)
    BY DEF Names
  <2> QED BY <1>1, <2>1, FS_Subset
<1> DEFINE A == {<<n>> : n \in Names}
           B == {<<p, l>> : p \in Packages, l \in Libraries}
<1>4. IsFiniteSet(A) /\ IsFiniteSet(B) /\ Paths = A \cup B
  BY <1>2, <1>3 DEF Paths
<1> HIDE DEF A, B
<1>5. IsFiniteSet(A \cup B)
  BY <1>4, FS_Union
<1> QED BY <1>4, <1>5

(* As many generations as there are paths are enough: what the walk has     *)
(* then reached needs nothing else.                                         *)
LEMMA WalkCloses ==
    ASSUME NEW file, NEW p \in Packages, NULL \notin Walk(file, p)
    PROVE  /\ Walk(file, p) \subseteq Paths /\ <<p>> \in Walk(file, p)
           /\ \A q \in Walk(file, p) : \A n \in Needs[NameAt(q)] : Resolve(file, q, n) \in Walk(file, p)
<1>1. PICK f \in [Nat -> SUBSET Places] :
             /\ f[0] = {<<p>>} /\ \A i \in Nat : f[i + 1] = Reached(file, f[i])
             /\ Walk(file, p) = f[Cardinality(Paths)]
  BY Walked
<1>2. PICK c \in Nat : c = Cardinality(Paths)
  BY FinitePaths, FS_CardinalityType
<1>3. \A i \in Nat : f[i] \subseteq f[i + 1]
  BY <1>1 DEF Reached
<1>4. \A i \in Nat : i <= c => f[i] \subseteq f[c]
  <2> DEFINE S == {d \in Nat : \A i \in Nat : f[i] \subseteq f[i + d]}
  <2>1. 0 \in S
    OBVIOUS
  <2>2. \A d \in Nat : d \in S => d + 1 \in S
    <3>1. ASSUME NEW d \in Nat, NEW i \in Nat, f[i] \subseteq f[i + d] PROVE f[i] \subseteq f[i + (d + 1)]
      <4>1. i + d \in Nat /\ (i + d) + 1 = i + (d + 1)
        OBVIOUS
      <4>2. f[i + d] \subseteq f[i + (d + 1)]
        BY <1>3, <4>1
      <4> QED BY <3>1, <4>2
    <3> QED BY <3>1
  <2>3. Nat \subseteq S
    BY <2>1, <2>2, Induction
  <2>4. ASSUME NEW i \in Nat, i <= c PROVE f[i] \subseteq f[c]
    <3>1. c - i \in Nat /\ i + (c - i) = c
      BY <2>4
    <3> QED BY <2>3, <3>1
  <2> QED BY <2>4
<1>5. \A i \in Nat : i <= c => f[i] \in SUBSET Paths
  BY <1>1, <1>2, <1>4 DEF Places
<1>6. \A i \in Nat : i <= c => f[i + 1] = f[i] \/ Cardinality(f[i]) >= i + 1
  <2> DEFINE S == {i \in Nat : i <= c => f[i + 1] = f[i] \/ Cardinality(f[i]) >= i + 1}
  <2>1. 0 \in S
    <3>1. Cardinality(f[0]) = 1
      BY <1>1, FS_Singleton
    <3> QED BY <3>1
  <2>2. \A i \in Nat : i \in S => i + 1 \in S
    <3>1. ASSUME NEW i \in Nat, i + 1 <= c, f[i + 1] = f[i] \/ Cardinality(f[i]) >= i + 1
          PROVE  f[(i + 1) + 1] = f[i + 1] \/ Cardinality(f[i + 1]) >= (i + 1) + 1
      <4>1. CASE f[i + 1] = f[i]
        BY <1>1, <4>1
      <4>2. CASE f[i + 1] # f[i] /\ Cardinality(f[i]) >= i + 1
        <5>1. PICK A, B : A = f[i] /\ B = f[i + 1]
          OBVIOUS
        <5>2. B \in SUBSET Paths /\ A \in SUBSET B /\ A # B
          BY <1>3, <1>5, <3>1, <4>2, <5>1
        <5>3. IsFiniteSet(B)
          BY <5>2, FinitePaths, FS_Subset
        <5>4. IsFiniteSet(A) /\ Cardinality(A) <= Cardinality(B) /\ Cardinality(A) # Cardinality(B)
          BY <5>2, <5>3, FS_Subset
        <5>5. Cardinality(A) \in Nat /\ Cardinality(B) \in Nat
          BY <5>3, <5>4, FS_CardinalityType
        <5>6. Cardinality(A) >= i + 1
          BY <4>2, <5>1
        <5>7. Cardinality(B) >= (i + 1) + 1
          BY <5>4, <5>5, <5>6
        <5> QED BY <5>1, <5>7
      <4> QED BY <3>1, <4>1, <4>2
    <3>2. \A i \in Nat : i + 1 <= c => i <= c
      OBVIOUS
    <3> QED BY <3>1, <3>2
  <2>3. Nat \subseteq S
    BY <2>1, <2>2, Induction
  <2> QED BY <2>3
<1>7. f[c + 1] = f[c]
  <2>1. f[c] \in SUBSET Paths
    BY <1>5
  <2>2. Cardinality(f[c]) <= c /\ Cardinality(f[c]) \in Nat
    BY <1>2, <2>1, FinitePaths, FS_Subset, FS_CardinalityType
  <2> QED BY <1>6, <2>2
<1>8. PICK W \in SUBSET Paths : W = Walk(file, p) /\ W = f[c]
  BY <1>1, <1>2, <1>5
<1>9. <<p>> \in W
  BY <1>1, <1>4, <1>8
<1>10. Reached(file, W) = W
  BY <1>1, <1>7, <1>8
<1>11. ASSUME NEW q \in W, NEW n \in Needs[NameAt(q)] PROVE Resolve(file, q, n) \in W
  <2>1. q \in W \ {NULL}
    BY PathFacts
  <2>2. Resolve(file, q, n) \in Needed(file, q)
    BY DEF Needed
  <2> QED BY <1>10, <2>1, <2>2 DEF Reached
<1> QED BY <1>8, <1>9, <1>11

(* Two lock files that agree on the entries of a walk resolve every name    *)
(* alike from there.                                                        *)
LEMMA Agree ==
    ASSUME NEW one, NEW two, NEW W \in SUBSET Paths,
           \A q \in W : one[q] = two[q],
           NEW q \in W, NEW n, Resolve(one, q, n) \in W, Resolve(two, q, n) \in W
    PROVE  Resolve(one, q, n) = Resolve(two, q, n)
<1>1. Len(q) \in Nat /\ NULL \notin W
  BY PathFacts
<1>2. PICK i \in 0..Len(q) :
         /\ Resolve(one, q, n) = Beneath(q, i, n) /\ Present(one, Beneath(q, i, n))
         /\ \A j \in 0..Len(q) : Present(one, Beneath(q, j, n)) => j <= i
  BY <1>1, ResolveIs
<1>3. PICK k \in 0..Len(q) :
         /\ Resolve(two, q, n) = Beneath(q, k, n) /\ Present(two, Beneath(q, k, n))
         /\ \A j \in 0..Len(q) : Present(two, Beneath(q, j, n)) => j <= k
  BY <1>1, ResolveIs
<1>4. Present(two, Beneath(q, i, n)) /\ Present(one, Beneath(q, k, n))
  BY <1>2, <1>3 DEF Present
<1>5. i <= k /\ k <= i
  BY <1>2, <1>3, <1>4
<1>6. i = k
  BY <1>1, <1>5
<1> QED BY <1>2, <1>3, <1>6

(* What Node loads lies within a walk that is closed.                       *)
Closes(file, p, W) ==
    /\ W \in SUBSET Paths /\ <<p>> \in W
    /\ \A q \in W : \A n \in Needs[NameAt(q)] : Resolve(file, q, n) \in W
Core(file, p) == {q \in Paths : \A S \in SUBSET Paths : <<p>> \in S /\ Complete(file, S) => q \in S}

LEMMA CoreWithin ==
    ASSUME NEW one, NEW two, NEW p \in Packages, NEW W, Closes(one, p, W), Closes(two, p, W),
           \A q \in W : one[q] = two[q]
    PROVE  Core(two, p) \subseteq Core(one, p) /\ Core(two, p) \subseteq W
<1>1. NULL \notin W /\ W \in SUBSET Paths /\ <<p>> \in W
  BY PathFacts DEF Closes
<1>2. ASSUME NEW q \in W, NEW n \in Needs[NameAt(q)]
      PROVE  Nearest(one, q, n) = Nearest(two, q, n) /\ Nearest(one, q, n) \subseteq W
  <2>1. Resolve(one, q, n) \in W /\ Resolve(two, q, n) \in W
    BY DEF Closes
  <2>2. Resolve(one, q, n) = Resolve(two, q, n)
    BY <1>1, <2>1, Agree
  <2> QED BY <1>1, <2>1, <2>2, NearestIs
<1>3. Complete(two, W)
  BY <1>1, <1>2 DEF Complete
<1>4. Core(two, p) \subseteq W
  BY <1>1, <1>3 DEF Core
<1>5. ASSUME NEW q \in Core(two, p), NEW S \in SUBSET Paths, <<p>> \in S, Complete(one, S) PROVE q \in S
  <2>1. Complete(two, S \intersect W)
    BY <1>2, <1>5 DEF Complete
  <2>2. S \intersect W \in SUBSET Paths /\ <<p>> \in S \intersect W
    BY <1>1, <1>5
  <2> QED BY <1>5, <2>1, <2>2 DEF Core
<1> QED BY <1>4, <1>5 DEF Core

(* computeLockFingerprint decides what is loaded: two lock files with the   *)
(* same fingerprint of a package load the same entries, at the same         *)
(* versions, whatever else they hold.                                       *)
THEOREM FingerprintDecides ==
    ASSUME NEW one, NEW two, NEW p \in Packages,
           Fingerprint(one, p) # NULL, Fingerprint(one, p) = Fingerprint(two, p)
    PROVE  Loaded(one, p) = Loaded(two, p)
<1>1. /\ NULL \notin Walk(one, p) /\ Fingerprint(one, p) = {<<q, one[q]>> : q \in Walk(one, p)}
      /\ NULL \notin Walk(two, p) /\ Fingerprint(two, p) = {<<q, two[q]>> : q \in Walk(two, p)}
  BY DEF Fingerprint
<1>2. PICK V, W : V = Walk(one, p) /\ W = Walk(two, p)
  OBVIOUS
<1>3. {<<q, one[q]>> : q \in V} = {<<q, two[q]>> : q \in W}
  BY <1>1, <1>2
<1>4. V = W /\ \A q \in W : one[q] = two[q]
  <2>1. ASSUME NEW q \in V PROVE q \in W /\ one[q] = two[q]
    <3>1. <<q, one[q]>> \in {<<x, two[x]>> : x \in W}
      BY <1>3
    <3>2. PICK x \in W : <<q, one[q]>> = <<x, two[x]>>
      BY <3>1
    <3> QED BY <3>2
  <2>2. ASSUME NEW q \in W PROVE q \in V
    <3>1. <<q, two[q]>> \in {<<x, one[x]>> : x \in V}
      BY <1>3
    <3>2. PICK x \in V : <<q, two[q]>> = <<x, one[x]>>
      BY <3>1
    <3> QED BY <3>2
  <2> QED BY <2>1, <2>2
<1>5. Closes(one, p, W) /\ Closes(two, p, W)
  BY <1>1, <1>2, <1>4, WalkCloses DEF Closes
<1>6. Core(one, p) \subseteq Core(two, p) /\ Core(two, p) \subseteq Core(one, p) /\ Core(two, p) \subseteq W
  BY <1>4, <1>5, CoreWithin
<1>7. PICK C : C = Core(one, p) /\ C = Core(two, p) /\ C \subseteq W
  BY <1>6
<1>8. Loaded(one, p) = {<<q, one[q]>> : q \in C} /\ Loaded(two, p) = {<<q, two[q]>> : q \in C}
  BY <1>7 DEF Loaded, Core
<1> QED BY <1>4, <1>7, <1>8

(******************************* generations ********************************)
(* The forms the functions and records keep.                                *)
Shapes ==
    /\ mutator = [m \in Mutators |-> mutator[m]] /\ reader = [r \in Readers |-> reader[r]]
    /\ \A m \in Mutators : "pc" \in DOMAIN mutator[m]
    /\ kept = [installs |-> kept.installs, index |-> kept.index]

(* Every copy of installs.json: on the disk, and in the hands of those who  *)
(* have written or read one.                                                *)
Holding == {"commands", "recover", "regenerate", "gate"}
Snapshots == {installs, kept.installs}
             \union {mutator[m].file : m \in {m \in Mutators : mutator[m].pc = "index"}}
             \union {reader[r].file : r \in {r \in Readers : reader[r].pc \in Holding}}
Indexes == {index, kept.index}
Malformed == [gen |-> NULL, entries |-> Nothing]

(* A generation is given once, and an index is that of every copy with its  *)
(* generation.                                                              *)
Given(files, indexes, last) ==
    /\ last \in Nat
    /\ \A f \in files : f.gen \in Nat /\ f.gen <= last
    /\ \A x \in indexes : x.gen = NULL \/ (x.gen \in Nat /\ x.gen <= last)
    /\ \A f, g \in files : f.gen = g.gen => f = g
    /\ \A x \in indexes : \A f \in files : x.gen = f.gen => x = Derived(f)
Generations == Shapes /\ Given(Snapshots, Indexes, generation)

NewFiles(records) ==
    \/ generation' = generation /\ Snapshots' \subseteq Snapshots
    \/ /\ generation' = generation + 1
       /\ \E r \in records : Snapshots' \subseteq Snapshots \union {[gen |-> generation + 1, records |-> r]}
Written == {mutator[m].records : m \in {m \in Mutators : mutator[m].pc = "installs"}}
NewIndexes == Indexes' \subseteq Indexes \union {Derived(f) : f \in Snapshots} \union {Malformed}

LEMMA StillGiven ==
    ASSUME Given(Snapshots, Indexes, generation), NewFiles(Written), NewIndexes
    PROVE  Given(Snapshots', Indexes', generation')
<1>1. NULL \notin Nat
  BY LockfileAssumption
<1>2. \A f : Derived(f).gen = f.gen
  BY DEF Derived
<1>3. Malformed.gen = NULL
  BY DEF Malformed
<1> DEFINE old == Snapshots
           was == Indexes
           now == Indexes'
           more == Snapshots'
<1>4. now \subseteq was \union {Derived(f) : f \in old} \union {Malformed}
  BY DEF NewIndexes
<1>5. Given(old, now, generation)
  BY <1>1, <1>2, <1>3, <1>4 DEF Given
<1>6. CASE generation' = generation /\ more \subseteq old
  BY <1>5, <1>6 DEF Given
<1>7. ASSUME generation' = generation + 1, NEW r, more \subseteq old \union {[gen |-> generation + 1, records |-> r]}
      PROVE  Given(more, now, generation')
  <2>1. PICK new : new = [gen |-> generation + 1, records |-> r]
    OBVIOUS
  <2>2. new.gen = generation + 1 /\ generation \in Nat
    BY <1>5, <2>1 DEF Given
  <2>3. \A f \in more : f \in old \/ f = new
    BY <1>7, <2>1
  <2>4. /\ \A f \in more : f.gen \in Nat /\ f.gen <= generation'
        /\ \A x \in now : x.gen = NULL \/ (x.gen \in Nat /\ x.gen <= generation')
    BY <1>5, <1>7, <2>2, <2>3 DEF Given
  <2>5. \A f \in old : f.gen # new.gen
    BY <1>5, <2>2 DEF Given
  <2>6. \A x \in now : x.gen # new.gen
    BY <1>1, <1>5, <2>2 DEF Given
  <2>7. \A f, g \in more : f.gen = g.gen => f = g
    BY <1>5, <2>3, <2>5 DEF Given
  <2>8. \A x \in now : \A f \in more : x.gen = f.gen => x = Derived(f)
    BY <1>5, <2>3, <2>6 DEF Given
  <2> QED BY <1>7, <2>2, <2>4, <2>7, <2>8 DEF Given
<1> QED BY <1>6, <1>7 DEF NewFiles

LEMMA WriteFileIs ==
    ASSUME Shapes, NEW name \in {"installs", "index"}, NEW old, NEW new, WriteFile(name, old, new)
    PROVE  /\ kept' = [installs |-> kept'.installs, index |-> kept'.index]
           /\ kept'[name] \in {old, new}
           /\ name = "installs" => kept'.index = kept.index
           /\ name = "index" => kept'.installs = kept.installs
<1>1. \/ kept' = [kept EXCEPT ![name] = new]
      \/ kept' = [kept EXCEPT ![name] = old]
  BY DEF WriteFile
<1>2. PICK k : k = kept
  OBVIOUS
<1>3. k = [installs |-> k.installs, index |-> k.index]
  BY <1>2 DEF Shapes
<1>4. ASSUME NEW v, kept' = [k EXCEPT ![name] = v]
      PROVE  /\ kept' = [installs |-> kept'.installs, index |-> kept'.index]
             /\ kept'[name] = v
             /\ name = "installs" => kept'.index = kept.index
             /\ name = "index" => kept'.installs = kept.installs
  <2>1. CASE name = "installs"
    <3>1. kept' = [installs |-> v, index |-> k.index]
      BY <1>3, <1>4, <2>1
    <3> QED BY <1>2, <2>1, <3>1
  <2>2. CASE name = "index"
    <3>1. kept' = [installs |-> k.installs, index |-> v]
      BY <1>3, <1>4, <2>2
    <3> QED BY <1>2, <2>2, <3>1
  <2> QED BY <2>1, <2>2
<1> QED BY <1>1, <1>2, <1>4

(* A mutator goes on; the files stay.                                       *)
LEMMA MutatorSteps ==
    ASSUME Shapes, UNCHANGED <<fileVars, reader>>, NEW m \in Mutators, NEW s,
           Becomes(m, s), "pc" \in DOMAIN s, s.pc # "index"
    PROVE  Shapes' /\ NewFiles(Written) /\ NewIndexes
<1>1. mutator' = [n \in Mutators |-> IF n = m THEN s ELSE mutator[n]]
  BY DEF Becomes, Shapes
<1>2. Shapes'
  BY <1>1 DEF Shapes, fileVars
<1>3. Snapshots' \subseteq Snapshots
  BY <1>1 DEF Snapshots, fileVars
<1> QED BY <1>2, <1>3 DEF NewFiles, NewIndexes, Indexes, fileVars

(* A reader goes on, with a copy there was.                                 *)
LEMMA ReaderSteps ==
    ASSUME Shapes, UNCHANGED <<installs, generation, mutator>>, NEW r \in Readers, NEW s,
           Turns(r, s), s.pc \in Holding => s.file \in Snapshots,
           kept'.installs = kept.installs, kept' = [installs |-> kept'.installs, index |-> kept'.index]
    PROVE  Shapes' /\ NewFiles(Written)
<1>1. reader' = [n \in Readers |-> IF n = r THEN s ELSE reader[n]]
  BY DEF Turns, Shapes
<1>2. Shapes'
  BY <1>1 DEF Shapes
<1>3. Snapshots' \subseteq Snapshots
  BY <1>1 DEF Snapshots
<1> QED BY <1>2, <1>3 DEF NewFiles

LEMMA FileSteps ==
    ASSUME Shapes, [Next]_vars
    PROVE  Shapes' /\ NewFiles(Written) /\ NewIndexes
<1> USE DEF fileVars, npmVars, history, bounds
<1>1. ASSUME NEW m \in Mutators, NEW p \in Packages, NEW source \in Sources, Install(m, p, source)
      PROVE  Shapes' /\ NewFiles(Written) /\ NewIndexes
  <2>1. PICK s : /\ s = [pc |-> "npm", kind |-> "install", package |-> p, source |-> source, before |-> saved]
                 /\ Becomes(m, s)
    BY <1>1 DEF Install, Begins
  <2>2. s.pc = "npm" /\ "pc" \in DOMAIN s
    BY <2>1
  <2> QED BY <1>1, <2>1, <2>2, MutatorSteps DEF Install, Begins
<1>2. ASSUME NEW m \in Mutators, NEW p \in Packages, Uninstall(m, p)
      PROVE  Shapes' /\ NewFiles(Written) /\ NewIndexes
  <2>1. PICK s : /\ s = [pc |-> "npm", kind |-> "uninstall", package |-> p,
                         records |-> [installs.records EXCEPT ![p] = NULL]]
                 /\ Becomes(m, s)
    BY <1>2 DEF Uninstall, Begins
  <2>2. s.pc = "npm" /\ "pc" \in DOMAIN s
    BY <2>1
  <2> QED BY <1>2, <2>1, <2>2, MutatorSteps DEF Uninstall, Begins
<1>3. "pc" \in DOMAIN Idle /\ Idle.pc = "idle"
  BY DEF Idle
<1>4. ASSUME NEW m \in Mutators, NpmInstalls(m) PROVE Shapes' /\ NewFiles(Written) /\ NewIndexes
  <2>1. CASE Fails(m)
    BY <1>3, <1>4, <2>1, MutatorSteps DEF NpmInstalls, Fails
  <2>2. CASE GoesOn(m, "identify")
    <3>1. PICK s : s = [mutator[m] EXCEPT !.pc = "identify"]
      OBVIOUS
    <3>2. Becomes(m, s) /\ s.pc = "identify" /\ "pc" \in DOMAIN s
      BY <2>2, <3>1 DEF GoesOn, Becomes, Shapes
    <3> QED BY <1>4, <3>2, MutatorSteps DEF NpmInstalls
  <2> QED BY <1>4, <2>1, <2>2 DEF NpmInstalls
<1>5. ASSUME NEW m \in Mutators, Identify(m) PROVE Shapes' /\ NewFiles(Written) /\ NewIndexes
  <2>1. CASE Fails(m)
    BY <1>3, <1>5, <2>1, MutatorSteps DEF Identify, Fails
  <2>2. ASSUME NEW key, Becomes(m, [pc |-> "records", kind |-> "install", key |-> key,
                                    intent |-> <<mutator[m].package, mutator[m].source>>])
        PROVE  Shapes' /\ NewFiles(Written) /\ NewIndexes
    <3>1. PICK s : /\ s = [pc |-> "records", kind |-> "install", key |-> key,
                           intent |-> <<mutator[m].package, mutator[m].source>>]
                   /\ Becomes(m, s)
      BY <2>2
    <3>2. s.pc = "records" /\ "pc" \in DOMAIN s
      BY <3>1
    <3> QED BY <1>5, <3>1, <3>2, MutatorSteps DEF Identify
  <2> QED BY <1>5, <2>1, <2>2 DEF Identify
<1>6. ASSUME NEW m \in Mutators, ReadRecords(m) PROVE Shapes' /\ NewFiles(Written) /\ NewIndexes
  <2>1. CASE Fails(m)
    BY <1>3, <1>6, <2>1, MutatorSteps DEF ReadRecords, Fails
  <2>2. CASE ~Fails(m)
    <3>1. PICK s : /\ s = [pc |-> "print", kind |-> "install", key |-> mutator[m].key,
                           intent |-> mutator[m].intent, records |-> installs.records]
                   /\ Becomes(m, s)
      BY <1>6, <2>2 DEF ReadRecords
    <3>2. s.pc = "print" /\ "pc" \in DOMAIN s
      BY <3>1
    <3> QED BY <1>6, <3>1, <3>2, MutatorSteps DEF ReadRecords
  <2> QED BY <2>1, <2>2
<1>7. ASSUME NEW m \in Mutators, TakeFingerprint(m) PROVE Shapes' /\ NewFiles(Written) /\ NewIndexes
  <2>1. CASE Fails(m)
    BY <1>3, <1>7, <2>1, MutatorSteps DEF TakeFingerprint, Fails
  <2>2. CASE ~Fails(m)
    <3>1. PICK s, records : /\ s = [pc |-> "verify", kind |-> "install", key |-> mutator[m].key,
                                    records |-> records]
                            /\ Becomes(m, s)
      BY <1>7, <2>2 DEF TakeFingerprint
    <3>2. s.pc = "verify" /\ "pc" \in DOMAIN s
      BY <3>1
    <3> QED BY <1>7, <3>1, <3>2, MutatorSteps DEF TakeFingerprint
  <2> QED BY <2>1, <2>2
<1>8. ASSUME NEW m \in Mutators, Verify(m) \/ NpmUninstalls(m) PROVE Shapes' /\ NewFiles(Written) /\ NewIndexes
  <2>1. CASE Fails(m)
    BY <1>3, <1>8, <2>1, MutatorSteps DEF Verify, NpmUninstalls, Fails
  <2>2. CASE ~Fails(m)
    <3>1. PICK s : s = [pc |-> "installs", records |-> mutator[m].records] /\ Becomes(m, s)
      BY <1>8, <2>2 DEF Verify, NpmUninstalls
    <3>2. s.pc = "installs" /\ "pc" \in DOMAIN s
      BY <3>1
    <3> QED BY <1>8, <3>1, <3>2, MutatorSteps DEF Verify, NpmUninstalls
  <2> QED BY <2>1, <2>2
<1>9. ASSUME NEW m \in Mutators, MutatorDies(m) PROVE Shapes' /\ NewFiles(Written) /\ NewIndexes
  BY <1>3, <1>9, MutatorSteps DEF MutatorDies, Fails
<1>10. ASSUME NEW m \in Mutators, WriteInstalls(m) PROVE Shapes' /\ NewFiles(Written) /\ NewIndexes
  <2>1. PICK file : file = [gen |-> generation + 1, records |-> mutator[m].records]
    OBVIOUS
  <2>2. /\ installs' = file /\ WriteFile("installs", installs, file)
        /\ Becomes(m, [pc |-> "index", file |-> file]) /\ mutator[m].pc = "installs"
        /\ generation' = generation + 1 /\ UNCHANGED <<index, reader>>
    BY <1>10, <2>1 DEF WriteInstalls, WriteInstallsFile
  <2>3. /\ kept' = [installs |-> kept'.installs, index |-> kept'.index]
        /\ kept'.installs \in {installs, file} /\ kept'.index = kept.index
    <3>1. PICK name \in {"installs", "index"} : name = "installs"
      OBVIOUS
    <3>2. WriteFile(name, installs, file)
      BY <2>2, <3>1
    <3> QED BY <3>1, <3>2, WriteFileIs
  <2>4. PICK s : s = [pc |-> "index", file |-> file]
    OBVIOUS
  <2>11. s.pc = "index" /\ s.file = file /\ "pc" \in DOMAIN s
    BY <2>4
  <2>5. mutator' = [n \in Mutators |-> IF n = m THEN s ELSE mutator[n]]
    BY <2>2, <2>4 DEF Becomes, Shapes
  <2>6. Shapes'
    BY <2>2, <2>3, <2>5, <2>11 DEF Shapes
  <2>7. Snapshots' \subseteq Snapshots \union {file}
    BY <2>2, <2>3, <2>5, <2>11 DEF Snapshots
  <2>8. mutator[m].records \in Written
    BY <2>2 DEF Written
  <2>9. NewFiles(Written)
    BY <2>1, <2>2, <2>7, <2>8 DEF NewFiles
  <2>10. NewIndexes
    BY <2>2, <2>3 DEF NewIndexes, Indexes
  <2> QED BY <2>6, <2>9, <2>10
<1>11. ASSUME NEW f \in Snapshots, WriteIndexFile(Derived(f))
       PROVE  /\ kept' = [installs |-> kept'.installs, index |-> kept'.index]
              /\ kept'.installs = kept.installs /\ NewIndexes
  <2>1. PICK new : new = Derived(f)
    OBVIOUS
  <2>2. index' = new /\ WriteFile("index", index, new)
    BY <1>11, <2>1 DEF WriteIndexFile
  <2>3. /\ kept' = [installs |-> kept'.installs, index |-> kept'.index]
        /\ kept'.installs = kept.installs /\ kept'.index \in {index, new}
    <3>1. PICK name \in {"installs", "index"} : name = "index"
      OBVIOUS
    <3>2. WriteFile(name, index, new)
      BY <2>2, <3>1
    <3> QED BY <3>1, <3>2, WriteFileIs
  <2>4. new \in {Derived(g) : g \in Snapshots}
    BY <2>1
  <2> QED BY <2>2, <2>3, <2>4 DEF NewIndexes, Indexes
<1>12. ASSUME NEW m \in Mutators, WriteIndex(m) PROVE Shapes' /\ NewFiles(Written) /\ NewIndexes
  <2>1. mutator[m].file \in Snapshots
    BY <1>12 DEF WriteIndex, Snapshots
  <2>2. /\ kept' = [installs |-> kept'.installs, index |-> kept'.index]
        /\ kept'.installs = kept.installs /\ NewIndexes
    BY <1>11, <1>12, <2>1 DEF WriteIndex
  <2>3. mutator' = [n \in Mutators |-> IF n = m THEN Idle ELSE mutator[n]]
    BY <1>12 DEF WriteIndex, Becomes, Shapes
  <2>4. Shapes'
    BY <1>3, <1>12, <2>2, <2>3 DEF WriteIndex, Shapes
  <2>5. Snapshots' \subseteq Snapshots
    BY <1>3, <1>12, <2>2, <2>3 DEF WriteIndex, Snapshots
  <2> QED BY <1>12, <2>2, <2>4, <2>5 DEF NewFiles, WriteIndex
<1>13. ASSUME NEW r \in Readers, NEW recovers \in BOOLEAN, ReadInstalls(r, recovers)
       PROVE  Shapes' /\ NewFiles(Written) /\ NewIndexes
  <2>1. PICK s : /\ s = [pc |-> "commands", recovers |-> recovers, file |-> installs, indexed |-> index.gen # 0]
                 /\ s.file = installs /\ Turns(r, s)
    BY <1>13 DEF ReadInstalls
  <2>2. s.file \in Snapshots
    BY <2>1 DEF Snapshots
  <2> QED BY <1>13, <2>1, <2>2, ReaderSteps DEF ReadInstalls, UnchangedByReader, Shapes, NewIndexes, Indexes
<1>14. ASSUME NEW r \in Readers, UNCHANGED <<fileVars, mutator>>, Turns(r, Idle)
       PROVE  Shapes' /\ NewFiles(Written) /\ NewIndexes
  <2>1. Idle.pc \notin Holding
    BY <1>3 DEF Holding
  <2> QED BY <1>14, <2>1, ReaderSteps DEF Shapes, NewIndexes, Indexes
<1>15. ASSUME NEW r \in Readers, ReadCommands(r) PROVE Shapes' /\ NewFiles(Written) /\ NewIndexes
  <2>1. PICK s : s.file = reader[r].file /\ Turns(r, s)
    BY <1>15 DEF ReadCommands
  <2>2. s.file \in Snapshots
    BY <1>15, <2>1 DEF ReadCommands, Snapshots, Holding
  <2> QED BY <1>15, <2>1, <2>2, ReaderSteps DEF ReadCommands, UnchangedByReader, Shapes, NewIndexes, Indexes
<1>16. ASSUME NEW r \in Readers, Recover(r) PROVE Shapes' /\ NewFiles(Written) /\ NewIndexes
  <2>1. CASE Turns(r, Idle)
    BY <1>14, <1>16, <2>1 DEF Recover, UnchangedByReader
  <2>2. CASE Turns(r, [pc |-> "regenerate", file |-> reader[r].file])
    <3>1. PICK s : s.file = reader[r].file /\ Turns(r, s)
      BY <2>2
    <3>2. s.file \in Snapshots
      BY <1>16, <3>1 DEF Recover, Snapshots, Holding
    <3> QED BY <1>16, <3>1, <3>2, ReaderSteps DEF Recover, UnchangedByReader, Shapes, NewIndexes, Indexes
  <2> QED BY <1>16, <2>1, <2>2 DEF Recover
<1>17. ASSUME NEW r \in Readers, Regenerate(r) PROVE Shapes' /\ NewFiles(Written) /\ NewIndexes
  <2>1. reader[r].file \in Snapshots
    BY <1>17 DEF Regenerate, Snapshots, Holding
  <2>2. /\ kept' = [installs |-> kept'.installs, index |-> kept'.index]
        /\ kept'.installs = kept.installs /\ NewIndexes
    BY <1>11, <1>17, <2>1 DEF Regenerate
  <2>3. PICK s : s.file = reader[r].file /\ Turns(r, s)
    BY <1>17 DEF Regenerate
  <2> QED BY <1>17, <2>1, <2>2, <2>3, ReaderSteps DEF Regenerate, UnchangedByReader
<1>18. ASSUME NEW r \in Readers, NEW p \in Packages, Gate(r, p) PROVE Shapes' /\ NewFiles(Written) /\ NewIndexes
  <2>1. CASE Turns(r, Idle)
    BY <1>14, <1>18, <2>1 DEF Gate, UnchangedByReader
  <2>2. CASE Turns(r, [pc |-> "let in", loads |-> Loaded(lock, p)])
    <3>1. PICK s : s.pc = "let in" /\ Turns(r, s)
      BY <2>2
    <3>2. s.pc \notin Holding
      BY <3>1 DEF Holding
    <3> QED BY <1>18, <3>1, <3>2, ReaderSteps DEF Gate, UnchangedByReader, Shapes, NewIndexes, Indexes
  <2> QED BY <1>18, <2>1, <2>2 DEF Gate
<1>19. ASSUME NEW r \in Readers, GiveUp(r) \/ Leave(r) \/ ReaderDies(r)
       PROVE  Shapes' /\ NewFiles(Written) /\ NewIndexes
  BY <1>14, <1>19 DEF GiveUp, Leave, ReaderDies, UnchangedByReader
<1>20. ASSUME PowerLoss PROVE Shapes' /\ NewFiles(Written) /\ NewIndexes
  <2>1. /\ installs' \in {installs, kept.installs} /\ index' \in {index, kept.index}
        /\ kept'.installs = installs' /\ kept'.index = index'
        /\ kept' = [installs |-> kept'.installs, index |-> kept'.index]
        /\ mutator' = [m \in Mutators |-> Idle] /\ reader' = [r \in Readers |-> Idle]
        /\ generation' = generation
    BY <1>20 DEF PowerLoss
  <2>2. Shapes'
    BY <1>3, <2>1 DEF Shapes
  <2>3. Snapshots' \subseteq Snapshots
    <3>1. \A m \in Mutators : mutator'[m].pc # "index"
      BY <1>3, <2>1
    <3>2. \A r \in Readers : reader'[r].pc \notin Holding
      BY <1>3, <2>1 DEF Holding
    <3> QED BY <2>1, <3>1, <3>2 DEF Snapshots
  <2> QED BY <2>1, <2>2, <2>3 DEF NewFiles, NewIndexes, Indexes
<1>21. ASSUME Damage PROVE Shapes' /\ NewFiles(Written) /\ NewIndexes
  <2>1. /\ index' = Malformed /\ kept' = [kept EXCEPT !.index = index']
        /\ UNCHANGED <<installs, generation, mutator, reader>>
    BY <1>21 DEF Damage, Malformed
  <2>2. kept' = [installs |-> kept.installs, index |-> Malformed]
    BY <2>1 DEF Shapes
  <2>3. Shapes'
    BY <2>1, <2>2 DEF Shapes
  <2>4. Snapshots' \subseteq Snapshots
    BY <2>1, <2>2 DEF Snapshots
  <2> QED BY <2>1, <2>2, <2>3, <2>4 DEF NewFiles, NewIndexes, Indexes
<1>22. CASE UNCHANGED vars
  BY <1>22 DEF vars, Shapes, NewFiles, Snapshots, NewIndexes, Indexes
<1> QED BY <1>1, <1>2, <1>4, <1>5, <1>6, <1>7, <1>8, <1>9, <1>10, <1>12, <1>13, <1>14, <1>15, <1>16,
           <1>17, <1>18, <1>19, <1>20, <1>21, <1>22 DEF Next

(* An index under the generation of installs.json is the index of it: no    *)
(* two files ever carry one generation, and an index is made from the file  *)
(* whose generation it takes.                                               *)
THEOREM IndexIsOfInstalls == Spec => []IndexOfInstalls
<1>1. ASSUME Init PROVE Generations
  <2>1. PICK none : none = Nothing /\ none = [p \in Packages |-> NULL]
    BY DEF Nothing
  <2>2. /\ installs = [gen |-> 0, records |-> none] /\ index = [gen |-> 0, entries |-> none]
        /\ kept = [installs |-> installs, index |-> index] /\ generation = 0
        /\ mutator = [m \in Mutators |-> Idle] /\ reader = [r \in Readers |-> Idle]
    BY <1>1, <2>1 DEF Init, Empty
  <2>3. "pc" \in DOMAIN Idle /\ Idle.pc = "idle"
    BY DEF Idle
  <2>4. Snapshots = {installs} /\ Indexes = {index}
    BY <2>2, <2>3 DEF Snapshots, Indexes, Holding
  <2>5. Derived(installs) = index
    BY <2>1, <2>2 DEF Derived
  <2>6. Given({installs}, {index}, 0)
    BY <2>2, <2>5 DEF Given
  <2>7. Shapes
    BY <2>2, <2>3 DEF Shapes
  <2> QED BY <2>2, <2>4, <2>6, <2>7 DEF Generations
<1>2. ASSUME Generations, [Next]_vars PROVE Generations'
  BY <1>2, FileSteps, StillGiven DEF Generations
<1>3. Generations => IndexOfInstalls
  BY DEF Generations, Given, Snapshots, Indexes, IndexOfInstalls
<1> QED BY <1>1, <1>2, <1>3, PTL DEF Spec

(********************************* approval *********************************)
(* A record is vouched for when whatever tree has its fingerprint loads     *)
(* what the verifier has approved.                                          *)
Locks == [Paths -> Sources \union Versions \union {NULL}]
Vouched(p, record) ==
    record = NULL \/ /\ record.print # NULL
                     /\ \A l \in Locks : Fingerprint(l, p) = record.print => Loaded(l, p) \in approved
VouchedAll(records) == records = [p \in Packages |-> records[p]] /\ \A p \in Packages : Vouched(p, records[p])

(* The records of every copy, and those a mutator will write as they are.   *)
Carries(s) == (s.pc = "npm" /\ s.kind = "uninstall") \/ s.pc \in {"print", "installs"}
Vows == {f.records : f \in Snapshots} \union {mutator[m].records : m \in {m \in Mutators : Carries(mutator[m])}}

(* At the verifier all records but the new one are vouched for, and the new *)
(* one has the fingerprint of the tree as it is.                            *)
Checked(s) ==
    /\ s.pc \in {"records", "print", "verify"} => s.key \in Packages
    /\ s.pc = "verify" =>
         /\ s.records = [p \in Packages |-> s.records[p]]
         /\ \A p \in Packages \ {s.key} : Vouched(p, s.records[p])
         /\ s.records[s.key].print = Fingerprint(lock, s.key) /\ Fingerprint(lock, s.key) # NULL

Alone == \A m, n \in Mutators : Busy(m) /\ Busy(n) => m = n
LetIn == \A r \in Readers : reader[r].pc = "let in" => reader[r].loads \in approved
Sound ==
    /\ Alone /\ LetIn
    /\ \A records \in Vows : VouchedAll(records)
    /\ \A m \in Mutators : Checked(mutator[m])
Verified == Shapes /\ lock \in Locks /\ (overlapped \/ Sound)

LEMMA StillVouched ==
    ASSUME approved \subseteq approved', NEW p, NEW record, Vouched(p, record)
    PROVE  Vouched(p, record)'
BY DEF Vouched

LEMMA StillVouchedAll ==
    ASSUME approved \subseteq approved', NEW records, VouchedAll(records)
    PROVE  VouchedAll(records)'
BY StillVouched DEF VouchedAll

(* The copies there are after a step hold records that were held before.    *)
LEMMA CopiesVouched ==
    ASSUME NewFiles(Written), \A records \in Vows : VouchedAll(records), approved \subseteq approved',
           NEW f \in Snapshots'
    PROVE  VouchedAll(f.records)'
<1>1. f.records \in Vows
  <2>1. CASE f \in Snapshots
    BY <2>1 DEF Vows
  <2>2. ASSUME NEW r \in Written, f = [gen |-> generation + 1, records |-> r] PROVE f.records \in Vows
    BY <2>2 DEF Written, Vows, Carries
  <2> QED BY <2>1, <2>2 DEF NewFiles
<1> QED BY <1>1, StillVouchedAll

(* A step of a mutator that works alone.                                    *)
LEMMA MutatorSound ==
    ASSUME Shapes, NewFiles(Written), Sound, approved \subseteq approved', UNCHANGED reader,
           NEW m \in Mutators, NEW s, Becomes(m, s),
           \/ Busy(m)
           \/ \A n \in Mutators : ~Busy(n)
           \/ s.pc = "idle",
           lock' = lock \/ Busy(m),
           (Carries(s) => VouchedAll(s.records))', Checked(s)'
    PROVE  Sound'
<1>1. mutator' = [n \in Mutators |-> IF n = m THEN s ELSE mutator[n]]
  BY DEF Becomes, Shapes
<1>2. Alone'
  BY <1>1 DEF Sound, Alone, Busy
<1>3. LetIn'
  BY DEF Sound, LetIn
<1>4. \A records \in Vows' : VouchedAll(records)'
  <2>1. ASSUME NEW n \in Mutators, Carries(mutator[n])' PROVE VouchedAll(mutator[n].records)'
    <3>1. CASE n = m
      <4>1. mutator'[n] = s
        BY <1>1, <3>1
      <4>2. VouchedAll(s.records)'
        BY <2>1, <4>1 DEF Carries
      <4> QED BY <4>1, <4>2 DEF VouchedAll, Vouched
    <3>2. CASE n # m
      <4>1. PICK records : records = mutator[n].records
        OBVIOUS
      <4>2. mutator'[n] = mutator[n]
        BY <1>1, <3>2
      <4>3. records \in Vows
        BY <2>1, <4>1, <4>2 DEF Vows, Carries
      <4>4. VouchedAll(records)'
        BY <4>3, StillVouchedAll DEF Sound
      <4> QED BY <4>1, <4>2, <4>4 DEF VouchedAll, Vouched
    <3> QED BY <3>1, <3>2
  <2>2. \A f \in Snapshots' : VouchedAll(f.records)'
    BY CopiesVouched DEF Sound
  <2> QED BY <2>1, <2>2 DEF Vows
<1>5. ASSUME NEW n \in Mutators PROVE Checked(mutator[n])'
  <2>1. CASE n = m
    BY <1>1, <2>1
  <2>2. CASE n # m
    <3>1. PICK t : t = mutator[n]
      OBVIOUS
    <3>2. mutator'[n] = t /\ Checked(t)
      BY <1>1, <2>2, <3>1 DEF Sound
    <3>3. t.pc = "verify" => lock' = lock
      BY <2>2, <3>1 DEF Sound, Alone, Busy
    <3>4. Checked(t)'
      <4>1. t.pc = "verify" => \A p \in Packages \ {t.key} : Vouched(p, t.records[p])'
        BY <3>2, StillVouched DEF Checked
      <4> QED BY <3>2, <3>3, <4>1 DEF Checked
    <3> QED BY <3>2, <3>4
  <2> QED BY <2>1, <2>2
<1> QED BY <1>2, <1>3, <1>4, <1>5 DEF Sound

(* A step of a reader.                                                      *)
LEMMA ReaderSound ==
    ASSUME Shapes, NewFiles(Written), Sound, UNCHANGED <<lock, approved, mutator>>,
           NEW r \in Readers, NEW s, Turns(r, s), s.pc = "let in" => s.loads \in approved
    PROVE  Sound'
<1>1. reader' = [n \in Readers |-> IF n = r THEN s ELSE reader[n]]
  BY DEF Turns, Shapes
<1>2. Alone' /\ LetIn'
  BY <1>1 DEF Sound, Alone, LetIn, Busy
<1>3. \A records \in Vows' : VouchedAll(records)'
  <2>1. ASSUME NEW m \in Mutators, Carries(mutator[m]) PROVE VouchedAll(mutator[m].records)'
    <3>1. mutator[m].records \in Vows
      BY <2>1 DEF Vows
    <3>2. PICK records : records = mutator[m].records /\ VouchedAll(records)
      BY <3>1 DEF Sound
    <3>3. VouchedAll(records)'
      BY <3>2, StillVouchedAll
    <3> QED BY <3>2, <3>3
  <2>2. \A f \in Snapshots' : VouchedAll(f.records)'
    BY CopiesVouched DEF Sound
  <2> QED BY <2>1, <2>2 DEF Vows
<1>4. ASSUME NEW n \in Mutators PROVE Checked(mutator[n])'
  <2>1. Checked(mutator[n])
    BY DEF Sound
  <2> QED BY <2>1 DEF Checked, Vouched
<1> QED BY <1>2, <1>3, <1>4 DEF Sound

LEMMA VerifiedStep ==
    ASSUME Verified, [Next]_vars
    PROVE  Verified'
<1> USE DEF fileVars, npmVars, history, bounds
<1>1. Shapes' /\ NewFiles(Written)
  BY FileSteps DEF Verified
<1>2. lock' \in Locks
  <2>1. CASE lock' = lock
    BY <2>1 DEF Verified
  <2>2. CASE \E direct : lock' \in Arrangements(direct)
    BY <2>2 DEF Arrangements, Locks
  <2> QED BY <2>1, <2>2 DEF Next, vars, Install, Uninstall, Begins, NpmInstalls, Identify, ReadRecords,
             TakeFingerprint, Verify, NpmUninstalls, WriteInstalls, WriteIndex, MutatorDies, ReadInstalls,
             ReadCommands, GiveUp, Recover, Regenerate, Leave, ReaderDies, Gate, PowerLoss, Damage,
             UnchangedByReader
<1> SUFFICES ASSUME ~overlapped' PROVE Sound'
  BY <1>1, <1>2 DEF Verified
<1>3. Shapes /\ Sound /\ lock \in Locks /\ ~overlapped
  <2>1. \/ overlapped' = overlapped
        \/ overlapped' = (overlapped \/ \E n \in Mutators : Busy(n))
    BY DEF Next, vars, Install, Uninstall, Begins, NpmInstalls, Identify, ReadRecords, TakeFingerprint,
           Verify, NpmUninstalls, WriteInstalls, WriteIndex, MutatorDies, ReadInstalls, ReadCommands,
           GiveUp, Recover, Regenerate, Leave, ReaderDies, Gate, PowerLoss, Damage, UnchangedByReader
  <2>2. ~overlapped
    BY <2>1, Zenon
  <2> QED BY <2>2 DEF Verified
<1>4. Idle.pc = "idle" /\ ~Carries(Idle) /\ Checked(Idle)'
  <2>1. Idle.pc = "idle"
    BY DEF Idle
  <2> QED BY <2>1 DEF Carries, Checked
<1>5. ASSUME NEW m \in Mutators, Fails(m), approved' = approved, reader' = reader, lock' = lock
      PROVE  Sound'
  BY <1>1, <1>3, <1>4, <1>5, MutatorSound DEF Fails, Carries
<1>6. ASSUME NEW m \in Mutators, NEW p \in Packages, NEW source \in Sources, Install(m, p, source) PROVE Sound'
  <2>1. PICK s : /\ s = [pc |-> "npm", kind |-> "install", package |-> p, source |-> source, before |-> saved]
                 /\ Becomes(m, s)
    BY <1>6 DEF Install, Begins
  <2>2. s.pc = "npm" /\ s.kind = "install"
    BY <2>1
  <2>3. ~Carries(s) /\ Checked(s)'
    BY <2>2 DEF Carries, Checked
  <2>4. \A n \in Mutators : ~Busy(n)
    BY <1>6 DEF Install, Begins
  <2> QED BY <1>1, <1>3, <1>6, <2>1, <2>3, <2>4, MutatorSound DEF Install, Begins, Carries
<1>7. ASSUME NEW m \in Mutators, NEW p \in Packages, Uninstall(m, p) PROVE Sound'
  <2>1. PICK records : records = installs.records /\ VouchedAll(records)
    BY <1>3 DEF Sound, Vows, Snapshots
  <2>2. PICK new : new = [records EXCEPT ![p] = NULL]
    OBVIOUS
  <2>3. new = [q \in Packages |-> new[q]] /\ \A q \in Packages : new[q] = NULL \/ new[q] = records[q]
    BY <2>1, <2>2 DEF VouchedAll
  <2>4. VouchedAll(new)
    BY <2>1, <2>3 DEF VouchedAll, Vouched
  <2>5. approved' = approved /\ reader' = reader /\ lock' = lock
    BY <1>7 DEF Uninstall, Begins
  <2>6. VouchedAll(new)'
    BY <2>4, <2>5, StillVouchedAll
  <2>7. PICK s : s = [pc |-> "npm", kind |-> "uninstall", package |-> p, records |-> new] /\ Becomes(m, s)
    BY <1>7, <2>1, <2>2 DEF Uninstall, Begins
  <2>8. s.pc = "npm" /\ s.records = new
    BY <2>7
  <2>9. Checked(s)' /\ VouchedAll(s.records)'
    <3>1. Checked(s)'
      BY <2>8 DEF Checked
    <3> QED BY <2>6, <2>8, <3>1 DEF VouchedAll, Vouched
  <2>10. \A n \in Mutators : ~Busy(n)
    BY <1>7 DEF Uninstall, Begins
  <2> QED BY <1>1, <1>3, <2>5, <2>7, <2>9, <2>10, MutatorSound
<1>8. ASSUME NEW m \in Mutators, NpmInstalls(m) PROVE Sound'
  <2>1. CASE Fails(m) /\ UNCHANGED npmVars
    BY <1>5, <1>8, <2>1 DEF NpmInstalls
  <2>2. CASE GoesOn(m, "identify")
    <3>1. PICK s : s = [mutator[m] EXCEPT !.pc = "identify"]
      OBVIOUS
    <3>2. Becomes(m, s) /\ s.pc = "identify"
      BY <1>3, <2>2, <3>1 DEF GoesOn, Becomes, Shapes
    <3>3. ~Carries(s) /\ Checked(s)' /\ Busy(m)
      BY <1>8, <3>2 DEF Carries, Checked, Busy, NpmInstalls, At
    <3> QED BY <1>1, <1>3, <1>8, <3>2, <3>3, MutatorSound DEF NpmInstalls, Carries
  <2> QED BY <1>8, <2>1, <2>2 DEF NpmInstalls
<1>9. ASSUME NEW m \in Mutators, Identify(m) PROVE Sound'
  <2>1. CASE Fails(m)
    BY <1>5, <1>9, <2>1 DEF Identify
  <2>2. ASSUME NEW key \in Identified(m), Becomes(m, [pc |-> "records", kind |-> "install", key |-> key,
                                                      intent |-> <<mutator[m].package, mutator[m].source>>])
        PROVE  Sound'
    <3>1. PICK s : /\ s = [pc |-> "records", kind |-> "install", key |-> key,
                           intent |-> <<mutator[m].package, mutator[m].source>>]
                   /\ Becomes(m, s)
      BY <2>2
    <3>2. s.pc = "records" /\ s.key = key
      BY <3>1
    <3>3. key \in Packages
      BY <2>2 DEF Identified, Direct
    <3>4. ~Carries(s) /\ Checked(s)' /\ Busy(m)
      BY <1>9, <3>2, <3>3 DEF Carries, Checked, Busy, Identify, At
    <3> QED BY <1>1, <1>3, <1>9, <3>1, <3>4, MutatorSound DEF Identify, Carries
  <2> QED BY <1>9, <2>1, <2>2 DEF Identify
<1>10. ASSUME NEW m \in Mutators, ReadRecords(m) PROVE Sound'
  <2>1. CASE Fails(m)
    BY <1>5, <1>10, <2>1 DEF ReadRecords
  <2>2. CASE ~Fails(m)
    <3>1. PICK records : records = installs.records /\ VouchedAll(records)
      BY <1>3 DEF Sound, Vows, Snapshots
    <3>2. PICK s : /\ s = [pc |-> "print", kind |-> "install", key |-> mutator[m].key,
                           intent |-> mutator[m].intent, records |-> records]
                   /\ Becomes(m, s)
      BY <1>10, <2>2, <3>1 DEF ReadRecords
    <3>3. s.pc = "print" /\ s.key = mutator[m].key /\ s.records = records
      BY <3>2
    <3>4. mutator[m].key \in Packages /\ Busy(m)
      BY <1>3, <1>10 DEF Sound, Checked, ReadRecords, At, Busy
    <3>5. Checked(s)'
      BY <3>3, <3>4 DEF Checked
    <3>6. VouchedAll(records)'
      BY <1>10, <3>1, StillVouchedAll DEF ReadRecords
    <3>7. VouchedAll(s.records)'
      BY <3>3, <3>6 DEF VouchedAll, Vouched
    <3> QED BY <1>1, <1>3, <1>10, <3>2, <3>4, <3>5, <3>7, MutatorSound DEF ReadRecords
  <2> QED BY <2>1, <2>2
<1>11. ASSUME NEW m \in Mutators, TakeFingerprint(m) PROVE Sound'
  <2>1. CASE Fails(m)
    BY <1>5, <1>11, <2>1 DEF TakeFingerprint
  <2>2. CASE ~Fails(m)
    <3>1. PICK key, print, records, record :
             /\ key = mutator[m].key /\ print = Fingerprint(lock, key) /\ records = mutator[m].records
             /\ record = [intent |-> mutator[m].intent, print |-> print]
      OBVIOUS
    <3>2. PICK new : new = [records EXCEPT ![key] = record]
      OBVIOUS
    <3>3. print # NULL /\ UNCHANGED <<lock, approved, reader>> /\ mutator[m].pc = "print"
      BY <1>11, <2>2, <3>1 DEF TakeFingerprint, At
    <3>4. PICK s : s = [pc |-> "verify", kind |-> "install", key |-> key, records |-> new] /\ Becomes(m, s)
      BY <1>11, <2>2, <3>1, <3>2 DEF TakeFingerprint
    <3>5. s.pc = "verify" /\ s.key = key /\ s.records = new
      BY <3>4
    <3>6. key \in Packages /\ VouchedAll(records) /\ Busy(m)
      BY <1>3, <3>1, <3>3 DEF Sound, Checked, Vows, Carries, Busy
    <3>7. /\ new = [p \in Packages |-> new[p]] /\ new[key] = record /\ record.print = print
          /\ \A p \in Packages \ {key} : new[p] = records[p]
      BY <3>1, <3>2, <3>6 DEF VouchedAll
    <3>8. \A p \in Packages \ {key} : Vouched(p, new[p])
      BY <3>6, <3>7 DEF VouchedAll
    <3>9. Checked(s)
      BY <3>1, <3>3, <3>5, <3>6, <3>7, <3>8 DEF Checked
    <3>10. Checked(s)' /\ ~Carries(s)
      BY <3>3, <3>5, <3>9 DEF Checked, Vouched, Carries
    <3> QED BY <1>1, <1>3, <3>3, <3>4, <3>6, <3>10, MutatorSound DEF Carries
  <2> QED BY <2>1, <2>2
<1>12. ASSUME NEW m \in Mutators, Verify(m) PROVE Sound'
  <2>1. CASE Fails(m) /\ UNCHANGED approved
    BY <1>5, <1>12, <2>1 DEF Verify
  <2>2. CASE /\ approved' = approved \union {Loaded(lock, mutator[m].key)}
             /\ Becomes(m, [pc |-> "installs", records |-> mutator[m].records])
    <3>1. PICK key, records : key = mutator[m].key /\ records = mutator[m].records
      OBVIOUS
    <3>2. mutator[m].pc = "verify" /\ UNCHANGED <<lock, reader>>
      BY <1>12 DEF Verify, At
    <3>3. /\ key \in Packages /\ records = [p \in Packages |-> records[p]]
          /\ \A p \in Packages \ {key} : Vouched(p, records[p])
          /\ records[key].print = Fingerprint(lock, key) /\ Fingerprint(lock, key) # NULL
      <4>1. Checked(mutator[m])
        BY <1>3 DEF Sound
      <4> QED BY <3>1, <3>2, <4>1 DEF Checked
    <3>4. Vouched(key, records[key])'
      <4>1. \A l \in Locks : Fingerprint(l, key) = Fingerprint(lock, key) => Loaded(l, key) = Loaded(lock, key)
        BY <3>3, FingerprintDecides
      <4> QED BY <2>2, <3>1, <3>3, <4>1 DEF Vouched
    <3>5. \A p \in Packages \ {key} : Vouched(p, records[p])'
      BY <2>2, <3>3, StillVouched
    <3>6. VouchedAll(records)'
      BY <3>3, <3>4, <3>5 DEF VouchedAll
    <3>7. PICK s : s = [pc |-> "installs", records |-> records] /\ Becomes(m, s)
      BY <2>2, <3>1
    <3>8. s.pc = "installs" /\ s.records = records
      BY <3>7
    <3>9. Checked(s)' /\ VouchedAll(s.records)' /\ Busy(m)
      <4>1. Checked(s)' /\ Busy(m)
        BY <3>2, <3>8 DEF Checked, Busy
      <4> QED BY <3>6, <3>8, <4>1 DEF VouchedAll, Vouched
    <3> QED BY <1>1, <1>3, <2>2, <3>2, <3>7, <3>9, MutatorSound
  <2> QED BY <1>12, <2>1, <2>2 DEF Verify
<1>13. ASSUME NEW m \in Mutators, NpmUninstalls(m) PROVE Sound'
  <2>1. CASE Fails(m) /\ UNCHANGED npmVars
    BY <1>5, <1>13, <2>1 DEF NpmUninstalls
  <2>2. CASE Becomes(m, [pc |-> "installs", records |-> mutator[m].records])
    <3>1. PICK records : records = mutator[m].records
      OBVIOUS
    <3>2. mutator[m].pc = "npm" /\ mutator[m].kind = "uninstall" /\ UNCHANGED <<approved, reader>>
      BY <1>13 DEF NpmUninstalls, At
    <3>3. VouchedAll(records)
      BY <1>3, <3>1, <3>2 DEF Sound, Vows, Carries
    <3>4. VouchedAll(records)'
      BY <3>2, <3>3, StillVouchedAll
    <3>5. PICK s : s = [pc |-> "installs", records |-> records] /\ Becomes(m, s)
      BY <2>2, <3>1
    <3>6. s.pc = "installs" /\ s.records = records
      BY <3>5
    <3>7. Checked(s)' /\ VouchedAll(s.records)' /\ Busy(m)
      <4>1. Checked(s)' /\ Busy(m)
        BY <3>2, <3>6 DEF Checked, Busy
      <4> QED BY <3>4, <3>6, <4>1 DEF VouchedAll, Vouched
    <3> QED BY <1>1, <1>3, <3>2, <3>5, <3>7, MutatorSound
  <2> QED BY <1>13, <2>1, <2>2 DEF NpmUninstalls
<1>14. ASSUME NEW m \in Mutators, WriteInstalls(m) PROVE Sound'
  <2>1. PICK s : /\ s = [pc |-> "index", file |-> [gen |-> generation + 1, records |-> mutator[m].records]]
                 /\ Becomes(m, s)
    BY <1>14 DEF WriteInstalls
  <2>2. s.pc = "index"
    BY <2>1
  <2>3. ~Carries(s) /\ Checked(s)' /\ Busy(m)
    BY <1>14, <2>2 DEF Carries, Checked, Busy, WriteInstalls
  <2> QED BY <1>1, <1>3, <1>14, <2>1, <2>3, MutatorSound DEF WriteInstalls, Carries
<1>15. ASSUME NEW m \in Mutators, WriteIndex(m) \/ MutatorDies(m) PROVE Sound'
  BY <1>5, <1>15 DEF WriteIndex, MutatorDies, Fails
<1>16. ASSUME NEW r \in Readers, UNCHANGED <<lock, approved, mutator>>, Turns(r, Idle) PROVE Sound'
  BY <1>1, <1>3, <1>4, <1>16, ReaderSound
<1>17. ASSUME NEW r \in Readers, NEW recovers \in BOOLEAN, ReadInstalls(r, recovers) PROVE Sound'
  <2>1. PICK s : s.pc = "commands" /\ Turns(r, s)
    BY <1>17 DEF ReadInstalls
  <2> QED BY <1>1, <1>3, <1>17, <2>1, ReaderSound DEF ReadInstalls, UnchangedByReader
<1>18. ASSUME NEW r \in Readers, ReadCommands(r) PROVE Sound'
  <2>1. PICK s : s.pc \in {"gate", "recover"} /\ Turns(r, s)
    BY <1>18 DEF ReadCommands
  <2> QED BY <1>1, <1>3, <1>18, <2>1, ReaderSound DEF ReadCommands, UnchangedByReader
<1>19. ASSUME NEW r \in Readers, Recover(r) PROVE Sound'
  <2>1. CASE Turns(r, Idle)
    BY <1>16, <1>19, <2>1 DEF Recover, UnchangedByReader
  <2>2. CASE Turns(r, [pc |-> "regenerate", file |-> reader[r].file])
    <3>1. PICK s : s.pc = "regenerate" /\ Turns(r, s)
      BY <2>2
    <3> QED BY <1>1, <1>3, <1>19, <3>1, ReaderSound DEF Recover, UnchangedByReader
  <2> QED BY <1>19, <2>1, <2>2 DEF Recover
<1>20. ASSUME NEW r \in Readers, Regenerate(r) PROVE Sound'
  <2>1. PICK s : s.pc = "gate" /\ Turns(r, s)
    BY <1>20 DEF Regenerate
  <2> QED BY <1>1, <1>3, <1>20, <2>1, ReaderSound DEF Regenerate, UnchangedByReader
<1>21. ASSUME NEW r \in Readers, NEW p \in Packages, Gate(r, p) PROVE Sound'
  <2>1. CASE Turns(r, Idle)
    BY <1>16, <1>21, <2>1 DEF Gate, UnchangedByReader
  <2>2. CASE ~Turns(r, Idle)
    <3>1. PICK record : record = reader[r].file.records[p]
      OBVIOUS
    <3>2. /\ reader[r].pc = "gate" /\ record # NULL /\ Fingerprint(lock, p) = record.print
          /\ Turns(r, [pc |-> "let in", loads |-> Loaded(lock, p)])
      BY <1>21, <2>2, <3>1 DEF Gate
    <3>3. VouchedAll(reader[r].file.records)
      BY <1>3, <3>2 DEF Sound, Vows, Snapshots, Holding
    <3>4. Loaded(lock, p) \in approved
      BY <1>3, <3>1, <3>2, <3>3 DEF VouchedAll, Vouched
    <3>5. PICK s : s = [pc |-> "let in", loads |-> Loaded(lock, p)] /\ Turns(r, s)
      BY <3>2
    <3>6. s.loads \in approved
      BY <3>4, <3>5
    <3> QED BY <1>1, <1>3, <1>21, <3>5, <3>6, ReaderSound DEF Gate, UnchangedByReader
  <2> QED BY <2>1, <2>2
<1>22. ASSUME NEW r \in Readers, GiveUp(r) \/ Leave(r) \/ ReaderDies(r) PROVE Sound'
  BY <1>16, <1>22 DEF GiveUp, Leave, ReaderDies, UnchangedByReader
<1>23. ASSUME UNCHANGED <<approved, lock>>,
              \/ mutator' = mutator /\ reader' = reader
              \/ mutator' = [m \in Mutators |-> Idle] /\ reader' = [r \in Readers |-> Idle]
       PROVE  Sound'
  <2>1. \A f \in Snapshots' : VouchedAll(f.records)'
    BY <1>1, <1>3, <1>23, CopiesVouched DEF Sound
  <2>2. CASE mutator' = mutator /\ reader' = reader
    <3>1. Alone' /\ LetIn'
      BY <1>3, <1>23, <2>2 DEF Sound, Alone, LetIn, Busy
    <3>2. \A m \in Mutators : Checked(mutator[m])'
      BY <1>3, <1>23, <2>2 DEF Sound, Checked, Vouched
    <3>3. ASSUME NEW m \in Mutators, Carries(mutator[m])' PROVE VouchedAll(mutator[m].records)'
      <4>1. mutator[m].records \in Vows
        BY <2>2, <3>3 DEF Vows, Carries
      <4>2. PICK records : records = mutator[m].records /\ VouchedAll(records)
        BY <1>3, <4>1 DEF Sound
      <4>3. VouchedAll(records)'
        BY <1>23, <4>2, StillVouchedAll
      <4> QED BY <2>2, <4>2, <4>3 DEF VouchedAll, Vouched
    <3>4. \A records \in Vows' : VouchedAll(records)'
      BY <2>1, <3>3 DEF Vows
    <3> QED BY <3>1, <3>2, <3>4 DEF Sound
  <2>3. CASE mutator' = [m \in Mutators |-> Idle] /\ reader' = [r \in Readers |-> Idle]
    <3>1. Alone' /\ LetIn'
      BY <1>4, <2>3 DEF Alone, LetIn, Busy
    <3>2. \A m \in Mutators : Checked(mutator[m])' /\ ~Carries(mutator[m])'
      BY <1>4, <2>3 DEF Checked, Carries
    <3>3. \A records \in Vows' : VouchedAll(records)'
      BY <2>1, <3>2 DEF Vows
    <3> QED BY <3>1, <3>2, <3>3 DEF Sound
  <2> QED BY <1>23, <2>2, <2>3
<1>24. ASSUME PowerLoss PROVE Sound'
  BY <1>23, <1>24 DEF PowerLoss
<1>25. ASSUME Damage \/ UNCHANGED vars PROVE Sound'
  BY <1>23, <1>25 DEF Damage, vars
<1> QED BY <1>6, <1>7, <1>8, <1>9, <1>10, <1>11, <1>12, <1>13, <1>14, <1>15, <1>17, <1>18, <1>19, <1>20,
           <1>21, <1>22, <1>24, <1>25 DEF Next

(* A command is let in only with code the verifier has approved, unless two *)
(* mutators were at work at once: every record of every copy of the         *)
(* installs is vouched for, and the gate compares fingerprints, which       *)
(* decide what is loaded.                                                   *)
THEOREM VerifiedRuns == Spec => []OnlyVerifiedRuns
<1>1. ASSUME Init PROVE Verified
  <2>1. PICK none : none = Nothing /\ none = [p \in Packages |-> NULL]
    BY DEF Nothing
  <2>2. /\ installs = [gen |-> 0, records |-> none] /\ kept.installs = installs
        /\ kept = [installs |-> kept.installs, index |-> kept.index]
        /\ mutator = [m \in Mutators |-> Idle] /\ reader = [r \in Readers |-> Idle]
        /\ lock = [q \in Paths |-> NULL]
    BY <1>1, <2>1 DEF Init, Empty
  <2>3. "pc" \in DOMAIN Idle /\ Idle.pc = "idle"
    BY DEF Idle
  <2>4. VouchedAll(none)
    BY <2>1 DEF VouchedAll, Vouched
  <2>5. \A records \in Vows : VouchedAll(records)
    BY <2>2, <2>3, <2>4 DEF Vows, Snapshots, Carries, Holding
  <2>6. Alone /\ LetIn /\ \A m \in Mutators : Checked(mutator[m])
    BY <2>2, <2>3 DEF Alone, LetIn, Checked, Busy
  <2>7. Shapes
    BY <2>2, <2>3 DEF Shapes
  <2>8. lock \in Locks
    BY <2>2 DEF Locks
  <2> QED BY <2>5, <2>6, <2>7, <2>8 DEF Verified, Sound
<1>2. ASSUME Verified, [Next]_vars PROVE Verified'
  BY <1>2, VerifiedStep
<1>3. Verified => OnlyVerifiedRuns
  BY DEF Verified, Sound, LetIn, OnlyVerifiedRuns
<1> QED BY <1>1, <1>2, <1>3, PTL DEF Spec
=============================================================================
