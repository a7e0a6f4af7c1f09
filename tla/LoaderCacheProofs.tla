-------------------------- MODULE LoaderCacheProofs ---------------------------
(* The loader's cache, for every set of files, every number of processes,   *)
(* loads, edits and deaths.                                                 *)
EXTENDS LoaderCache, FiniteSetTheorems, TLAPS

(***************************** inductive invariants *************************)
Fields(l) == [pc |-> l.pc, kind |-> l.kind, hash |-> l.hash, machine |-> l.machine,
              schema |-> l.schema, raced |-> l.raced, during |-> l.during]
Reading == {"importing", "scanning", "opening", "writing", "reading"}
AtWork == Reading \union {"hashing", "extracting", "bundling"}

(* What a load has read was in the files at some moment of the load.        *)
Fits(read, during) == \A f \in DOMAIN read \intersect Files : read[f] \in during[f]
Under(l, src) ==
    /\ \A f \in Files : src[f] \in l.during[f]
    /\ DOMAIN l.hash \subseteq Hashed(l.kind)
    /\ Fits(l.hash, l.during) /\ Fits(l.machine, l.during) /\ Fits(l.schema, l.during)
    /\ l.pc \in Reading \/ (l.kind # "installed" /\ l.pc \in {"extracting", "bundling"})
          => DOMAIN l.hash = Hashed(l.kind)
    /\ ~l.raced
Fresh(l) ==
    ~l.raced => /\ OfItsTime(l, l.machine, Hashed(l.kind))
                /\ OfItsTime(l, l.schema, Hashed(l.kind))
LoadInv(l, src) ==
    \/ l = Idle \/ l = Failed
    \/ /\ l = Fields(l) /\ l.pc \in AtWork \union {"done"} /\ l.kind \in Kinds
       /\ \A f \in Files : IsFiniteSet(l.during[f])
       /\ l.during = [f \in Files |-> l.during[f]]
       /\ IF l.pc = "done" THEN Fresh(l) ELSE Under(l, src)

(* A text in the cache that was not raced is one of the files its key names. *)
Agree(read, files) == \A f \in DOMAIN read \intersect DOMAIN files : read[f] = files[f]
Sound(text, files) == ~text.raced => Agree(text.machine, files) /\ Agree(text.schema, files)
Entry(e) == e = [whole |-> e.whole, text |-> e.text, texts |-> e.texts]
CacheInv(c) ==
    \A k \in DOMAIN c :
        Entry(c[k]) /\ \A text \in c[k].texts \union {c[k].text} : Sound(text, k.files)

Loads == \A p \in Loaders : LoadInv(load[p], source)
Shape == /\ source = [f \in Files |-> source[f]] /\ load = [p \in Loaders |-> load[p]]
         /\ faults \in Nat

(* A load that is at its bundle's file has an entry in the cache.           *)
InFile == {"importing", "scanning", "writing", "reading"}
Present == \A p \in Loaders : load[p].pc \in InFile => Key(load[p]) \in DOMAIN cache
Caching == Shape /\ Loads /\ CacheInv(cache) /\ Present

(********************************** basics **********************************)
LEMMA HashedFiles == \A kind : Hashed(kind) \subseteq Files
BY LoaderAssumption DEF Hashed

LEMMA OnlyOne ==
    ASSUME NEW S, IsFiniteSet(S), ~(Cardinality(S) > 1), NEW a \in S, NEW b \in S
    PROVE  a = b
<1> SUFFICES ASSUME a # b PROVE FALSE
  OBVIOUS
<1>1. IsFiniteSet({a, b}) /\ Cardinality({a, b}) = 2
  <2>1. Cardinality({a}) = 1 /\ IsFiniteSet({a})
    BY FS_Singleton
  <2>2. {a, b} = {a} \union {b} /\ b \notin {a}
    OBVIOUS
  <2>3. IsFiniteSet({a} \union {b}) /\ Cardinality({a} \union {b}) = Cardinality({a}) + 1
    BY <2>1, <2>2, FS_AddElement
  <2> QED BY <2>1, <2>2, <2>3
<1>2. Cardinality({a, b}) <= Cardinality(S)
  BY FS_Subset
<1>3. Cardinality(S) \in Nat
  BY FS_CardinalityType
<1> QED BY <1>1, <1>2, <1>3

(* The files of a load's key are those it hashed.                           *)
LEMMA KeyFiles == \A l : Key(l).files = l.hash
BY DEF Key

(* One load moves while the files stay.                                     *)
LEMMA OneMoves ==
    ASSUME Caching, NEW p \in Loaders, NEW l, LoadInv(l, source),
           load' = [load EXCEPT ![p] = l], UNCHANGED source
    PROVE  Loads' /\ load' = [q \in Loaders |-> load'[q]] /\ source' = [f \in Files |-> source'[f]]
<1>1. load' = [q \in Loaders |-> IF q = p THEN l ELSE load[q]]
  BY DEF Caching, Shape
<1>2. \A q \in Loaders : LoadInv(load'[q], source')
  BY <1>1 DEF Caching, Loads
<1> QED BY <1>1, <1>2 DEF Loads, Caching, Shape

LEMMA OnePresent ==
    ASSUME Caching, NEW p \in Loaders, NEW l, load' = [load EXCEPT ![p] = l],
           DOMAIN cache \subseteq DOMAIN cache', l.pc \in InFile => Key(l) \in DOMAIN cache'
    PROVE  Present'
<1>1. load' = [q \in Loaders |-> IF q = p THEN l ELSE load[q]]
  BY DEF Caching, Shape
<1>2. ASSUME NEW q \in Loaders, load'[q].pc \in InFile PROVE Key(load'[q]) \in DOMAIN cache'
  <2>1. CASE q = p
    BY <1>1, <1>2, <2>1
  <2>2. CASE q # p
    <3>1. load'[q] = load[q]
      BY <1>1, <2>2
    <3>2. Key(load[q]) \in DOMAIN cache
      BY <1>2, <3>1 DEF Caching, Present
    <3> QED BY <3>1, <3>2
  <2> QED BY <2>1, <2>2
<1>4. \A q \in Loaders : Key(load[q])' = Key(load'[q])
  BY DEF Key
<1> QED BY <1>2, <1>4 DEF Present

(* What a process at work has.                                              *)
LEMMA Working ==
    ASSUME Caching, NEW p \in Loaders, load[p].pc \in AtWork
    PROVE  LET l == load[p]
           IN  /\ l = Fields(l) /\ l.kind \in Kinds /\ Under(l, source)
               /\ \A f \in Files : IsFiniteSet(l.during[f])
               /\ l.during = [f \in Files |-> l.during[f]]
               /\ LoadInv(l, source)
<1>1. load[p] # Idle /\ load[p] # Failed /\ load[p].pc # "done"
  BY DEF AtWork, Reading, Idle, Failed
<1>2. LoadInv(load[p], source)
  BY DEF Caching, Loads
<1> QED BY <1>1, <1>2 DEF LoadInv

(* A load that was not overtaken wrote what it hashed.                      *)
LEMMA TextSound ==
    ASSUME NEW p \in Loaders, Caching, load[p].pc \in AtWork
    PROVE  Sound(Text(load[p]), Key(load[p]).files)
<1> DEFINE l == load[p]
<1>1. /\ Under(l, source) /\ \A f \in Files : IsFiniteSet(l.during[f])
  BY Working
<1>2. ASSUME ~Overtaken(l), NEW read, Fits(read, l.during) PROVE Agree(read, l.hash)
  <2>1. ASSUME NEW f \in DOMAIN read \intersect DOMAIN l.hash PROVE read[f] = l.hash[f]
    <3>1. f \in Files
      BY <1>1, HashedFiles DEF Under
    <3>2. read[f] \in l.during[f] /\ l.hash[f] \in l.during[f]
      BY <1>1, <1>2, <3>1 DEF Under, Fits
    <3>3. ~(Cardinality(l.during[f]) > 1)
      BY <1>2, <3>1 DEF Overtaken
    <3> QED BY <1>1, <3>1, <3>2, <3>3, OnlyOne
  <2> QED BY <2>1 DEF Agree
<1>3. /\ Text(l).machine = l.machine /\ Text(l).schema = l.schema /\ Text(l).raced = Overtaken(l)
  BY DEF Text
<1>4. Fits(l.machine, l.during) /\ Fits(l.schema, l.during)
  BY <1>1 DEF Under
<1> QED BY <1>2, <1>3, <1>4, KeyFiles DEF Sound

(* What agrees with the hash is of the load's time.                         *)
LEMMA HashedFits ==
    ASSUME NEW l, NEW src, Under(l, src), DOMAIN l.hash = Hashed(l.kind), NEW read,
           Agree(read, l.hash)
    PROVE  \A f \in DOMAIN read \intersect Hashed(l.kind) : read[f] \in l.during[f]
BY HashedFiles DEF Under, Agree, Fits

(***************************** steps of one load ****************************)
(* A load that goes on with what it had, at another place.                  *)
At(l, pc) == [pc |-> pc, kind |-> l.kind, hash |-> l.hash, machine |-> l.machine,
              schema |-> l.schema, raced |-> l.raced, during |-> l.during]
LEMMA GoesOn ==
    ASSUME Caching, NEW p \in Loaders, load[p].pc \in AtWork, NEW pc \in AtWork, Goes(p, pc),
           DOMAIN load[p].hash = Hashed(load[p].kind), UNCHANGED <<source, faults>>,
           DOMAIN cache \subseteq DOMAIN cache', pc \in InFile => Key(load[p]) \in DOMAIN cache'
    PROVE  Loads' /\ Shape' /\ Present'
<1> DEFINE l == load[p]
<1>1. /\ l = Fields(l) /\ l.kind \in Kinds /\ Under(l, source)
      /\ \A f \in Files : IsFiniteSet(l.during[f])
      /\ l.during = [f \in Files |-> l.during[f]]
  BY Working
<1>2. load' = [load EXCEPT ![p] = At(l, pc)]
  <2>1. load' = [load EXCEPT ![p] = [l EXCEPT !.pc = pc]]
    BY DEF Goes, Caching, Shape
  <2>2. [l EXCEPT !.pc = pc] = At(l, pc)
    BY <1>1 DEF Fields, At
  <2> QED BY <2>1, <2>2
<1>3. Under(At(l, pc), source)
  BY <1>1 DEF Under, At
<1>4. LoadInv(At(l, pc), source)
  <2>1. At(l, pc) = Fields(At(l, pc)) /\ At(l, pc).pc = pc /\ At(l, pc).kind = l.kind
        /\ At(l, pc).during = l.during
    BY DEF At, Fields
  <2>2. pc # "done"
    BY DEF AtWork, Reading
  <2> QED BY <1>1, <1>3, <2>1, <2>2 DEF LoadInv
<1>5. Key(At(l, pc)) = Key(l) /\ At(l, pc).pc = pc
  BY DEF Key, At
<1>6. Present'
  BY <1>2, <1>5, OnePresent
<1> QED BY <1>2, <1>4, <1>6, OneMoves DEF Caching, Shape

LEMMA ReadsOn ==
    ASSUME Caching, NEW p \in Loaders,
           \/ HashFile(p) \/ Extract(p) \/ Bundle(p) \/ Refuse(p)
           \/ Die(p) /\ load[p].pc # "writing"
           \/ \E kind \in Kinds : Begin(p, kind)
    PROVE  Caching'
<1> DEFINE l == load[p]
<1>0. UNCHANGED <<source, cache>> /\ faults' \in Nat
  BY DEF HashFile, Extract, Bundle, Refuse, Die, Begin, Environment, Cached, Caching, Shape
<1>1. SUFFICES \E new : /\ LoadInv(new, source) /\ new.pc \notin InFile
                        /\ load' = [load EXCEPT ![p] = new]
  <2>1. CacheInv(cache)'
    BY <1>0 DEF Caching
  <2> QED BY <1>0, <2>1, OneMoves, OnePresent DEF Shape, Caching
<1>2. ASSUME load[p].pc \in AtWork
      PROVE  /\ l = Fields(l) /\ l.kind \in Kinds /\ Under(l, source)
             /\ \A f \in Files : IsFiniteSet(l.during[f])
             /\ l.during = [f \in Files |-> l.during[f]]
  BY <1>2, Working
<1>3. CASE HashFile(p)
  <2> DEFINE left == Hashed(l.kind) \ DOMAIN l.hash
             f == CHOOSE g \in left : TRUE
             hash == [g \in DOMAIN l.hash \cup {f} |-> IF g = f THEN source[f] ELSE l.hash[g]]
             new == [pc |-> "hashing", kind |-> l.kind, hash |-> hash, machine |-> l.machine,
                     schema |-> l.schema, raced |-> l.raced, during |-> l.during]
  <2>1. l.pc = "hashing" /\ f \in left /\ load' = [load EXCEPT ![p].hash = hash]
    BY <1>3 DEF HashFile, Caching, Shape
  <2>2. /\ l = Fields(l) /\ l.kind \in Kinds /\ Under(l, source)
        /\ \A g \in Files : IsFiniteSet(l.during[g])
        /\ l.during = [g \in Files |-> l.during[g]]
    BY <1>2, <2>1 DEF AtWork
  <2>3. f \in Files /\ f \in Hashed(l.kind)
    BY <2>1, HashedFiles
  <2> HIDE DEF f
  <2>4. DOMAIN hash \subseteq Hashed(l.kind) /\ Fits(hash, l.during)
    BY <2>2, <2>3 DEF Under, Fits
  <2> HIDE DEF hash
  <2>5. load' = [load EXCEPT ![p] = new]
    <3>1. load' = [load EXCEPT ![p] = [l EXCEPT !.hash = hash]]
      BY <2>1 DEF Caching, Shape
    <3>2. [l EXCEPT !.hash = hash] = new
      BY <2>1, <2>2 DEF Fields
    <3> QED BY <3>1, <3>2
  <2>6. Under(new, source)
    BY <2>2, <2>4 DEF Under, Reading
  <2>7. LoadInv(new, source)
    <3>1. new = Fields(new)
      BY DEF Fields
    <3> QED BY <2>2, <2>6, <3>1 DEF LoadInv, AtWork
  <2> QED BY <2>5, <2>7 DEF InFile
<1>4. CASE Extract(p)
  <2>0. PICK no : no = FALSE
    OBVIOUS
  <2> DEFINE pc == IF l.kind = "completion" THEN "done" ELSE "bundling"
             schema == Schema(source)
             new == [pc |-> pc, kind |-> l.kind, hash |-> l.hash, machine |-> l.machine,
                     schema |-> schema, raced |-> no, during |-> l.during]
  <2>1. /\ l.pc = "extracting"
        /\ load' = [load EXCEPT ![p].schema = schema, ![p].raced = no, ![p].pc = pc]
    BY <1>4, <2>0 DEF Extract
  <2>2. /\ l = Fields(l) /\ l.kind \in Kinds /\ Under(l, source)
        /\ \A g \in Files : IsFiniteSet(l.during[g])
        /\ l.during = [g \in Files |-> l.during[g]]
    BY <1>2, <2>1 DEF AtWork
  <2>3. Fits(schema, l.during)
    BY <2>2, LoaderAssumption DEF Schema, Restrict, Fits, Under
  <2> HIDE DEF schema
  <2>4. load' = [load EXCEPT ![p] = new]
    <3> HIDE DEF pc
    <3>1. load' = [load EXCEPT ![p] = [l EXCEPT !.schema = schema, !.raced = no, !.pc = pc]]
      BY <2>1 DEF Caching, Shape
    <3> DEFINE n == [l EXCEPT !.schema = schema]
               o == [n EXCEPT !.raced = no]
    <3>2. [l EXCEPT !.schema = schema, !.raced = no, !.pc = pc] = [o EXCEPT !.pc = pc]
      OBVIOUS
    <3>3. n = [pc |-> l.pc, kind |-> l.kind, hash |-> l.hash, machine |-> l.machine,
               schema |-> schema, raced |-> l.raced, during |-> l.during]
      BY <2>2 DEF Fields
    <3> HIDE DEF n
    <3>4. o = [pc |-> l.pc, kind |-> l.kind, hash |-> l.hash, machine |-> l.machine,
               schema |-> schema, raced |-> no, during |-> l.during]
      BY <3>3
    <3> HIDE DEF o
    <3>5. [o EXCEPT !.pc = pc] = new
      BY <3>4
    <3> QED BY <3>1, <3>2, <3>5
  <2>5. Under(new, source)
    BY <2>0, <2>1, <2>2, <2>3 DEF Under, Reading
  <2>6. Fresh(new)
    BY <2>2, <2>3, HashedFiles DEF Fresh, OfItsTime, Under, Fits
  <2>7. LoadInv(new, source)
    <3>1. new = Fields(new)
      BY DEF Fields
    <3> QED BY <2>2, <2>5, <2>6, <3>1 DEF LoadInv, AtWork
  <2> QED BY <2>4, <2>7 DEF InFile
<1>5. CASE Bundle(p)
  <2> DEFINE pc == IF l.kind = "installed" THEN "hashing" ELSE "opening"
             new == [pc |-> pc, kind |-> l.kind, hash |-> l.hash, machine |-> source,
                     schema |-> l.schema, raced |-> l.raced, during |-> l.during]
  <2>1. l.pc = "bundling" /\ load' = [load EXCEPT ![p].machine = source, ![p].pc = pc]
    BY <1>5 DEF Bundle
  <2>2. /\ l = Fields(l) /\ l.kind \in Kinds /\ Under(l, source)
        /\ \A g \in Files : IsFiniteSet(l.during[g])
        /\ l.during = [g \in Files |-> l.during[g]]
    BY <1>2, <2>1 DEF AtWork
  <2>3. Fits(source, l.during)
    BY <2>2 DEF Fits, Under
  <2>4. load' = [load EXCEPT ![p] = new]
    <3> HIDE DEF pc
    <3>1. load' = [load EXCEPT ![p] = [l EXCEPT !.machine = source, !.pc = pc]]
      BY <2>1 DEF Caching, Shape
    <3> DEFINE m == [l EXCEPT !.machine = source]
    <3>2. [l EXCEPT !.machine = source, !.pc = pc] = [m EXCEPT !.pc = pc]
      OBVIOUS
    <3>3. m = [pc |-> l.pc, kind |-> l.kind, hash |-> l.hash, machine |-> source,
               schema |-> l.schema, raced |-> l.raced, during |-> l.during]
      BY <2>2 DEF Fields
    <3> HIDE DEF m
    <3>4. [m EXCEPT !.pc = pc] = new
      BY <3>3
    <3> QED BY <3>1, <3>2, <3>4
  <2>5. Under(new, source)
    BY <2>1, <2>2, <2>3 DEF Under, Reading
  <2>6. LoadInv(new, source)
    <3>1. new = Fields(new)
      BY DEF Fields
    <3> QED BY <2>2, <2>5, <3>1 DEF LoadInv, AtWork, Reading
  <2> QED BY <2>4, <2>6 DEF InFile
<1>6. CASE Refuse(p)
  BY <1>6 DEF Refuse, LoadInv, InFile, Failed
<1>7. CASE Die(p) /\ load[p].pc # "writing"
  BY <1>7 DEF Die, LoadInv, InFile, Idle
<1>8. CASE \E kind \in Kinds : Begin(p, kind)
  <2>1. PICK kind \in Kinds : Begin(p, kind)
    BY <1>8
  <2> DEFINE new == [pc |-> IF kind = "installed" THEN "extracting" ELSE "hashing", kind |-> kind,
                     hash |-> NoFiles, machine |-> NoFiles, schema |-> NoFiles, raced |-> FALSE,
                     during |-> [f \in Files |-> {source[f]}]]
  <2>2. load' = [load EXCEPT ![p] = new]
    BY <2>1 DEF Begin
  <2>3. \A f \in Files : IsFiniteSet({source[f]})
    BY FS_Singleton
  <2>4. Under(new, source)
    BY DEF Under, Fits, NoFiles, Reading
  <2>5. LoadInv(new, source)
    <3>1. new = Fields(new)
      BY DEF Fields
    <3> QED BY <2>3, <2>4, <3>1 DEF LoadInv, AtWork
  <2> QED BY <2>2, <2>5 DEF InFile
<1> QED BY <1>3, <1>4, <1>5, <1>6, <1>7, <1>8

(* The bundle's file is opened, or filled.                                  *)
LEMMA Finds ==
    ASSUME Caching, NEW p \in Loaders, FindsModule(p) \/ FindsNone(p)
    PROVE  Caching'
<1>1. CacheInv(cache)'
  BY DEF FindsModule, FindsNone, Caching, Cached
<1>2. PICK pc \in AtWork : Goes(p, pc) /\ (pc \in InFile => Key(load[p]) \in DOMAIN cache)
  BY DEF FindsModule, FindsNone, AtWork, Reading, InFile
<1>3. load[p].pc \in AtWork /\ DOMAIN load[p].hash = Hashed(load[p].kind)
      /\ UNCHANGED <<source, faults, cache>>
  BY DEF FindsModule, FindsNone, HashDone, AtWork, Environment, Cached
<1> QED BY <1>1, <1>2, <1>3, GoesOn DEF Caching

LEMMA Opens ==
    ASSUME Caching, NEW p \in Loaders, Open(p)
    PROVE  Caching'
<1> DEFINE k == Key(load[p])
           text == Text(load[p])
           others == IF Writing(k) = {} THEN {} ELSE cache[k].texts
           entry == [whole |-> FALSE, text |-> text, texts |-> others \cup {text}]
<1>1. /\ load[p].pc \in AtWork /\ load[p].pc = "opening"
      /\ Goes(p, "writing") /\ UNCHANGED <<source, faults>>
      /\ cache' = [j \in DOMAIN cache \cup {k} |-> IF j = k THEN entry ELSE cache[j]]
  BY DEF Open, AtWork, Reading, Environment
<1>2. DOMAIN load[p].hash = Hashed(load[p].kind)
  BY <1>1, Working DEF Under, Reading
<1>3. Loads' /\ Shape' /\ Present'
  BY <1>1, <1>2, GoesOn DEF AtWork, Reading
<1>4. Sound(text, k.files)
  BY <1>1, TextSound
<1>5. \A t \in others : Sound(t, k.files)
  <2>1. CASE Writing(k) = {}
    BY <2>1
  <2>2. CASE Writing(k) # {}
    <3>1. PICK q \in Loaders : load[q].pc = "writing" /\ Key(load[q]) = k
      BY <2>2 DEF Writing
    <3>2. k \in DOMAIN cache
      BY <3>1 DEF Caching, Present, InFile
    <3> QED BY <2>2, <3>2 DEF Caching, CacheInv
  <2> QED BY <2>1, <2>2
<1>6. CacheInv(cache)'
  <2> HIDE DEF k, text, others
  <2>1. Entry(entry) /\ \A t \in entry.texts \union {entry.text} : Sound(t, k.files)
    BY <1>4, <1>5 DEF Entry
  <2> HIDE DEF entry
  <2>2. \A j \in DOMAIN cache' : (cache'[j] = entry /\ j = k) \/ (j \in DOMAIN cache /\ cache'[j] = cache[j])
    BY <1>1
  <2> QED BY <2>1, <2>2 DEF CacheInv, Caching
<1> QED BY <1>3, <1>6 DEF Caching

(* A bundle two writers spoiled is of the texts it was of.                  *)
LEMMA Spoils ==
    ASSUME Caching, NEW k \in DOMAIN cache, cache' = [cache EXCEPT ![k].whole = FALSE]
    PROVE  CacheInv(cache') /\ DOMAIN cache' = DOMAIN cache
<1>1. PICK no : no = FALSE
  OBVIOUS
<1> DEFINE torn == [cache[k] EXCEPT !.whole = no]
<1>2. Entry(cache[k]) /\ \A t \in cache[k].texts \union {cache[k].text} : Sound(t, k.files)
  BY DEF Caching, CacheInv
<1>3. torn = [whole |-> no, text |-> cache[k].text, texts |-> cache[k].texts]
  BY <1>2 DEF Entry
<1>4. cache' = [cache EXCEPT ![k] = torn]
  BY <1>1
<1> HIDE DEF torn
<1>5. Entry(torn) /\ torn.texts = cache[k].texts /\ torn.text = cache[k].text
  BY <1>3 DEF Entry
<1>6. \A j \in DOMAIN cache : cache'[j] = IF j = k THEN torn ELSE cache[j]
  BY <1>4
<1> QED BY <1>2, <1>4, <1>5, <1>6 DEF CacheInv, Caching

(* A writer that dies or fails.                                             *)
LEMMA Broken ==
    ASSUME Caching, NEW p \in Loaders, load[p].pc = "writing", FillFails(p) \/ Die(p)
    PROVE  Caching'
<1> DEFINE k == Key(load[p])
<1>1. k \in DOMAIN cache
  BY DEF Caching, Present, InFile
<1>2. /\ cache' = cache \/ cache' = [cache EXCEPT ![k].whole = FALSE]
      /\ UNCHANGED source /\ faults' \in Nat
      /\ load' = [load EXCEPT ![p] = Failed] \/ load' = [load EXCEPT ![p] = Idle]
  BY DEF FillFails, Die, Breaks, Caching, Shape
<1>3. CacheInv(cache') /\ DOMAIN cache' = DOMAIN cache
  <2>1. CASE cache' = cache
    BY <2>1 DEF Caching
  <2>2. CASE cache' = [cache EXCEPT ![k].whole = FALSE]
    <3> HIDE DEF k
    <3> QED BY <1>1, <2>2, Spoils
  <2> QED BY <1>2, <2>1, <2>2
<1>4. \A l \in {Failed, Idle} : LoadInv(l, source) /\ l.pc \notin InFile
  BY DEF LoadInv, Failed, Idle, InFile
<1> QED BY <1>2, <1>3, <1>4, OneMoves, OnePresent DEF Caching, Shape

LEMMA Fills ==
    ASSUME Caching, NEW p \in Loaders, Fill(p)
    PROVE  Caching'
<1> DEFINE k == Key(load[p])
           text == Text(load[p])
           mine == [cache[k] EXCEPT !.whole = TRUE, !.text = text]
<1>1. /\ load[p].pc \in AtWork /\ load[p].pc = "writing"
      /\ Goes(p, "reading") /\ UNCHANGED <<source, faults>>
      /\ cache' = [cache EXCEPT ![k] = mine] \/ cache' = [cache EXCEPT ![k].whole = FALSE]
  BY DEF Fill, AtWork, Reading, Environment
<1>2. DOMAIN load[p].hash = Hashed(load[p].kind)
  BY <1>1, Working DEF Under, Reading
<1>3. k \in DOMAIN cache /\ DOMAIN cache' = DOMAIN cache
  BY <1>1 DEF Caching, Present, InFile
<1>4. Loads' /\ Shape' /\ Present'
  BY <1>1, <1>2, <1>3, GoesOn DEF AtWork, Reading
<1>5. Sound(text, k.files)
  BY <1>1, TextSound
<1>6. Entry(cache[k]) /\ \A t \in cache[k].texts \union {cache[k].text} : Sound(t, k.files)
  BY <1>3 DEF Caching, CacheInv
<1> HIDE DEF k, text
<1>7. ASSUME NEW e, cache' = [cache EXCEPT ![k] = e], Entry(e), e.texts = cache[k].texts,
             e.text \in {text, cache[k].text}
      PROVE  CacheInv(cache')
  <2>1. \A t \in e.texts \union {e.text} : Sound(t, k.files)
    BY <1>5, <1>6, <1>7
  <2>2. \A j \in DOMAIN cache : cache'[j] = IF j = k THEN e ELSE cache[j]
    BY <1>3, <1>7
  <2> QED BY <1>3, <1>7, <2>1, <2>2 DEF CacheInv, Caching
<1>8. CacheInv(cache')
  <2>1. CASE cache' = [cache EXCEPT ![k] = mine]
    <3>2. PICK yes : yes = TRUE
      OBVIOUS
    <3> DEFINE half == [cache[k] EXCEPT !.whole = yes]
    <3>1. mine = [half EXCEPT !.text = text]
      BY <3>2
    <3>3. half = [whole |-> yes, text |-> cache[k].text, texts |-> cache[k].texts]
      BY <1>6 DEF Entry
    <3> HIDE DEF half
    <3>4. mine = [whole |-> yes, text |-> text, texts |-> cache[k].texts]
      BY <3>1, <3>3
    <3> HIDE DEF mine
    <3>5. Entry(mine) /\ mine.texts = cache[k].texts /\ mine.text = text
      BY <3>4 DEF Entry
    <3> QED BY <1>7, <2>1, <3>5
  <2>2. CASE cache' = [cache EXCEPT ![k].whole = FALSE]
    BY <1>3, <2>2, Spoils
  <2> QED BY <1>1, <2>1, <2>2
<1> QED BY <1>4, <1>8 DEF Caching

(* A load that ends keeps its time, and has what its key stood for.         *)
LEMMA Ends ==
    ASSUME Caching, NEW p \in Loaders, ImportCached(p) \/ ScanCached(p) \/ ImportWritten(p)
    PROVE  Caching'
<1> DEFINE l == load[p]
           entry == cache[Key(l)]
<1>1. l.pc \in AtWork /\ l.pc \in Reading /\ l.pc \in InFile /\ UNCHANGED <<cache, source, faults>>
  BY DEF ImportCached, ScanCached, ImportWritten, AtWork, Reading, InFile, Environment, Cached
<1>2. /\ l = Fields(l) /\ l.kind \in Kinds /\ Under(l, source)
      /\ \A f \in Files : IsFiniteSet(l.during[f])
      /\ l.during = [f \in Files |-> l.during[f]]
  BY <1>1, Working
<1>3. DOMAIN l.hash = Hashed(l.kind)
  BY <1>1, <1>2 DEF Under
<1>4. Key(l) \in DOMAIN cache
  BY <1>1 DEF Caching, Present
<1>5. /\ \A text \in entry.texts \union {entry.text} : Sound(text, l.hash)
  BY <1>4, KeyFiles DEF Caching, CacheInv
<1>6. SUFFICES \/ \E pc \in AtWork : pc \notin InFile /\ Goes(p, pc)
               \/ \E new : /\ LoadInv(new, source) /\ new.pc \notin InFile
                          /\ load' = [load EXCEPT ![p] = new]
  <2>1. CacheInv(cache)'
    BY <1>1 DEF Caching
  <2>2. CASE \E pc \in AtWork : pc \notin InFile /\ Goes(p, pc)
    BY <1>1, <1>3, <2>1, <2>2, GoesOn DEF Caching
  <2>3. CASE \E new : /\ LoadInv(new, source) /\ new.pc \notin InFile
                      /\ load' = [load EXCEPT ![p] = new]
    BY <1>1, <2>1, <2>3, OneMoves, OnePresent DEF Shape, Caching
  <2> QED BY <1>6, <2>2, <2>3
<1>7. LoadInv(Failed, source) /\ Failed.pc \notin InFile
  BY DEF LoadInv, Failed, InFile
(* The end of a load with a machine, schemas and a mark of its bundle.      *)
<1>8. ASSUME NEW new, NEW hash, NEW machine, NEW schema, NEW raced,
             new = [pc |-> "done", kind |-> l.kind, hash |-> hash, machine |-> machine,
                    schema |-> schema, raced |-> raced, during |-> l.during],
             ~raced => /\ Agree(machine, l.hash) \/ Fits(machine, l.during)
                       /\ Agree(schema, l.hash) \/ Fits(schema, l.during)
      PROVE  LoadInv(new, source) /\ new.pc \notin InFile
  <2>1. /\ new = Fields(new) /\ new.pc = "done" /\ new.kind = l.kind /\ new.machine = machine
        /\ new.schema = schema /\ new.raced = raced /\ new.during = l.during
    BY <1>8 DEF Fields
  <2>2. ASSUME NEW read, Agree(read, l.hash) \/ Fits(read, l.during)
        PROVE  OfItsTime(new, read, Hashed(l.kind))
    BY <1>2, <1>3, <2>1, <2>2, HashedFits, HashedFiles DEF OfItsTime, Fits
  <2>3. Fresh(new)
    BY <1>8, <2>1, <2>2 DEF Fresh
  <2> QED BY <1>2, <2>1, <2>3 DEF LoadInv, InFile
<1>9. Fits(l.machine, l.during) /\ Fits(l.schema, l.during)
  BY <1>2 DEF Under
<1>10. CASE ImportCached(p)
  <2>1. CASE ~entry.whole
    BY <1>7, <1>10, <2>1 DEF ImportCached
  <2>2. CASE entry.whole
    <3> DEFINE machine == entry.text.machine
               schema == entry.text.schema
               raced == entry.text.raced
    <3>1. load' = [load EXCEPT ![p] = [l EXCEPT !.pc = "done", !.hash = NoFiles, !.machine = machine,
                                                !.schema = schema, !.raced = raced]]
      BY <1>10, <2>2 DEF ImportCached, Caching, Shape
    <3>2. ~raced => Agree(machine, l.hash) /\ Agree(schema, l.hash)
      BY <1>5 DEF Sound
    <3> HIDE DEF machine, schema, raced
    <3> DEFINE a == [l EXCEPT !.pc = "done"]
               b == [a EXCEPT !.hash = NoFiles]
               c == [b EXCEPT !.machine = machine]
               d == [c EXCEPT !.schema = schema]
               e == [d EXCEPT !.raced = raced]
    <3>3. [l EXCEPT !.pc = "done", !.hash = NoFiles, !.machine = machine, !.schema = schema,
                    !.raced = raced] = e
      OBVIOUS
    <3>4. a = [pc |-> "done", kind |-> l.kind, hash |-> l.hash, machine |-> l.machine,
              schema |-> l.schema, raced |-> l.raced, during |-> l.during]
      BY <1>2 DEF Fields
    <3> HIDE DEF a
    <3>5. b = [pc |-> "done", kind |-> l.kind, hash |-> NoFiles, machine |-> l.machine,
              schema |-> l.schema, raced |-> l.raced, during |-> l.during]
      BY <3>4
    <3> HIDE DEF b
    <3>6. c = [pc |-> "done", kind |-> l.kind, hash |-> NoFiles, machine |-> machine,
              schema |-> l.schema, raced |-> l.raced, during |-> l.during]
      BY <3>5
    <3> HIDE DEF c
    <3>7. d = [pc |-> "done", kind |-> l.kind, hash |-> NoFiles, machine |-> machine,
              schema |-> schema, raced |-> l.raced, during |-> l.during]
      BY <3>6
    <3> HIDE DEF d
    <3>8. e = [pc |-> "done", kind |-> l.kind, hash |-> NoFiles, machine |-> machine,
              schema |-> schema, raced |-> raced, during |-> l.during]
      BY <3>7
    <3> HIDE DEF e
    <3> QED BY <1>8, <3>1, <3>2, <3>3, <3>8
  <2> QED BY <2>1, <2>2
<1>11. CASE ScanCached(p)
  <2>1. CASE ~entry.whole /\ Goes(p, "extracting")
    BY <2>1 DEF AtWork, InFile
  <2>2. CASE \E text \in IF entry.whole THEN {entry.text} ELSE entry.texts :
            load' = [load EXCEPT ![p].pc = "done", ![p].schema = text.schema,
                                 ![p].raced = text.raced]
    <3>0. PICK text \in entry.texts \union {entry.text} :
            load' = [load EXCEPT ![p].pc = "done", ![p].schema = text.schema,
                                 ![p].raced = text.raced]
      BY <2>2
    <3> DEFINE schema == text.schema
               raced == text.raced
    <3>1. load' = [load EXCEPT ![p] = [l EXCEPT !.pc = "done", !.schema = schema, !.raced = raced]]
      BY <3>0 DEF Caching, Shape
    <3>2. ~raced => Agree(schema, l.hash)
      BY <1>5 DEF Sound
    <3> HIDE DEF schema, raced
    <3> DEFINE a == [l EXCEPT !.pc = "done"]
               b == [a EXCEPT !.schema = schema]
               c == [b EXCEPT !.raced = raced]
    <3>3. [l EXCEPT !.pc = "done", !.schema = schema, !.raced = raced] = c
      OBVIOUS
    <3>4. a = [pc |-> "done", kind |-> l.kind, hash |-> l.hash, machine |-> l.machine,
              schema |-> l.schema, raced |-> l.raced, during |-> l.during]
      BY <1>2 DEF Fields
    <3> HIDE DEF a
    <3>5. b = [pc |-> "done", kind |-> l.kind, hash |-> l.hash, machine |-> l.machine,
              schema |-> schema, raced |-> l.raced, during |-> l.during]
      BY <3>4
    <3> HIDE DEF b
    <3>6. c = [pc |-> "done", kind |-> l.kind, hash |-> l.hash, machine |-> l.machine,
              schema |-> schema, raced |-> raced, during |-> l.during]
      BY <3>5
    <3> HIDE DEF c
    <3> QED BY <1>8, <1>9, <3>1, <3>2, <3>3, <3>6
  <2> QED BY <1>11, <2>1, <2>2 DEF ScanCached
<1>12. CASE ImportWritten(p)
  <2>1. CASE ~entry.whole
    BY <1>7, <1>12, <2>1 DEF ImportWritten
  <2>2. CASE entry.whole
    <3> DEFINE machine == entry.text.machine
               raced == entry.text.raced
    <3>1. load' = [load EXCEPT ![p] = [l EXCEPT !.pc = "done", !.hash = NoFiles, !.machine = machine,
                                                !.raced = raced]]
      BY <1>12, <2>2 DEF ImportWritten, Caching, Shape
    <3>2. ~raced => Agree(machine, l.hash)
      BY <1>5 DEF Sound
    <3> HIDE DEF machine, raced
    <3> DEFINE a == [l EXCEPT !.pc = "done"]
               b == [a EXCEPT !.hash = NoFiles]
               c == [b EXCEPT !.machine = machine]
               d == [c EXCEPT !.raced = raced]
    <3>3. [l EXCEPT !.pc = "done", !.hash = NoFiles, !.machine = machine, !.raced = raced] = d
      OBVIOUS
    <3>4. a = [pc |-> "done", kind |-> l.kind, hash |-> l.hash, machine |-> l.machine,
              schema |-> l.schema, raced |-> l.raced, during |-> l.during]
      BY <1>2 DEF Fields
    <3> HIDE DEF a
    <3>5. b = [pc |-> "done", kind |-> l.kind, hash |-> NoFiles, machine |-> l.machine,
              schema |-> l.schema, raced |-> l.raced, during |-> l.during]
      BY <3>4
    <3> HIDE DEF b
    <3>6. c = [pc |-> "done", kind |-> l.kind, hash |-> NoFiles, machine |-> machine,
              schema |-> l.schema, raced |-> l.raced, during |-> l.during]
      BY <3>5
    <3> HIDE DEF c
    <3>7. d = [pc |-> "done", kind |-> l.kind, hash |-> NoFiles, machine |-> machine,
              schema |-> l.schema, raced |-> raced, during |-> l.during]
      BY <3>6
    <3> HIDE DEF d
    <3> QED BY <1>8, <1>9, <3>1, <3>2, <3>3, <3>7
  <2> QED BY <2>1, <2>2
<1> QED BY <1>10, <1>11, <1>12

(* An edit adds a version to the time of every load that runs.              *)
LEMMA Edits ==
    ASSUME Caching, NEW f \in Files, NEW version, Edit(f, version)
    PROVE  Caching'
<1> DEFINE Grown(l) == [g \in Files |-> IF g = f THEN l.during[f] \cup {version} ELSE l.during[g]]
           New(l) == [pc |-> l.pc, kind |-> l.kind, hash |-> l.hash, machine |-> l.machine,
                      schema |-> l.schema, raced |-> l.raced, during |-> Grown(l)]
<1>1. /\ UNCHANGED <<cache, marred, faults>> /\ source' = [source EXCEPT ![f] = version]
      /\ load' = [p \in Loaders |->
           IF Running(p) THEN [load[p] EXCEPT !.during[f] = @ \cup {version}] ELSE load[p]]
  BY DEF Edit, Cached
<1>2. source' = [g \in Files |-> source'[g]] /\ \A g \in Files : source'[g] = IF g = f THEN version ELSE source[g]
  BY <1>1 DEF Caching, Shape
<1>3. ASSUME NEW p \in Loaders, ~Running(p) PROVE load'[p] = load[p] /\ LoadInv(load[p], source')
  <2>1. load[p].pc \in {"idle", "done", "failed"}
    BY <1>3 DEF Running
  <2>2. LoadInv(load[p], source)
    BY DEF Caching, Loads
  <2>3. LoadInv(load[p], source')
    BY <2>1, <2>2 DEF LoadInv, AtWork, Reading
  <2> QED BY <1>1, <1>3, <2>3
<1>4. ASSUME NEW p \in Loaders, Running(p)
      PROVE  /\ LoadInv(load'[p], source') /\ load'[p].pc = load[p].pc
             /\ Key(load'[p]) = Key(load[p])
  <2> DEFINE l == load[p]
  <2>1. l.pc \in AtWork
    <3>1. l.pc \notin {"idle", "done", "failed"}
      BY <1>4 DEF Running
    <3>2. LoadInv(l, source) /\ l # Idle /\ l # Failed
      BY <3>1 DEF Caching, Loads, Idle, Failed
    <3> HIDE DEF l
    <3> QED BY <3>1, <3>2 DEF LoadInv
  <2>2. /\ l = Fields(l) /\ l.kind \in Kinds /\ Under(l, source)
        /\ \A g \in Files : IsFiniteSet(l.during[g])
        /\ l.during = [g \in Files |-> l.during[g]]
    BY <2>1, Working
  <2>3. load'[p] = New(l)
    <3>1. load'[p] = [l EXCEPT !.during[f] = @ \cup {version}]
      BY <1>1, <1>4
    <3>2. load'[p] = [l EXCEPT !.during = [l.during EXCEPT ![f] = @ \cup {version}]]
      BY <3>1
    <3>3. [l.during EXCEPT ![f] = @ \cup {version}] = Grown(l)
      BY <2>2
    <3> HIDE DEF Grown
    <3>4. [l EXCEPT !.during = Grown(l)] = New(l)
      BY <2>2 DEF Fields
    <3> QED BY <3>2, <3>3, <3>4
  <2>4. \A g \in Files : IsFiniteSet(Grown(l)[g]) /\ l.during[g] \subseteq Grown(l)[g]
                        /\ source'[g] \in Grown(l)[g]
    <3>1. IsFiniteSet(l.during[f] \cup {version})
      BY <2>2, FS_AddElement
    <3>2. \A g \in Files : source[g] \in l.during[g]
      BY <2>2 DEF Under
    <3> QED BY <1>2, <2>2, <3>1, <3>2
  <2>5. Grown(l) = [g \in Files |-> Grown(l)[g]]
    OBVIOUS
  <2> DEFINE during == Grown(l)
  <2> HIDE DEF during
  <2>6. \A read : Fits(read, l.during) => Fits(read, during)
    BY <2>4 DEF Fits, during
  <2>7. /\ New(l) = Fields(New(l)) /\ New(l).pc = l.pc /\ New(l).kind = l.kind
        /\ New(l).hash = l.hash /\ New(l).machine = l.machine /\ New(l).schema = l.schema
        /\ New(l).raced = l.raced /\ New(l).during = during
    BY DEF Fields, during
  <2> DEFINE new == New(l)
  <2> HIDE DEF new, New, Grown
  <2>8. Under(new, source')
    BY <2>2, <2>4, <2>6, <2>7 DEF Under, new, during
  <2>9. LoadInv(new, source')
    <3>1. l.pc # "done"
      BY <2>1 DEF AtWork, Reading
    <3> QED BY <2>1, <2>2, <2>4, <2>5, <2>7, <2>8, <3>1 DEF LoadInv, new, during
  <2>10. Key(new) = Key(l)
    BY <2>7 DEF Key, new
  <2> QED BY <2>3, <2>7, <2>9, <2>10 DEF new
<1>5. Loads'
  BY <1>3, <1>4 DEF Loads
<1>6. Present'
  <2>1. \A p \in Loaders : load'[p].pc = load[p].pc /\ Key(load'[p]) = Key(load[p])
    BY <1>3, <1>4
  <2>2. \A p \in Loaders : Key(load[p])' = Key(load'[p])
    BY DEF Key
  <2> QED BY <1>1, <2>1, <2>2 DEF Present, Caching
<1>7. Shape' /\ CacheInv(cache)'
  <2>1. load' = [p \in Loaders |-> load'[p]]
    BY <1>1
  <2> QED BY <1>1, <1>2, <2>1 DEF Shape, Caching
<1> QED BY <1>5, <1>6, <1>7 DEF Caching

(********************************* theorems *********************************)
(* Every step of a load, every edit and every death keeps the invariant.    *)
LEMMA CachingStep == Caching /\ [Next]_vars => Caching'
<1> SUFFICES ASSUME Caching, [Next]_vars PROVE Caching'
  OBVIOUS
<1>1. CASE UNCHANGED vars
  <2>1. UNCHANGED <<source, cache, load, faults>>
    BY <1>1 DEF vars
  <2>2. \A p \in Loaders : Key(load[p])' = Key(load[p])
    BY <2>1 DEF Key
  <2> QED BY <2>1, <2>2 DEF Caching, Shape, Loads, Present
<1>2. CASE Next
  <2>1. ASSUME NEW p \in Loaders,
               \/ \E kind \in Kinds : Begin(p, kind)
               \/ HashFile(p) \/ Extract(p) \/ Bundle(p) \/ Refuse(p)
        PROVE  Caching'
    BY <2>1, ReadsOn
  <2>2. ASSUME NEW p \in Loaders,
               \/ FindsModule(p) \/ FindsNone(p) \/ Open(p) \/ Fill(p)
               \/ ImportCached(p) \/ ScanCached(p) \/ ImportWritten(p)
        PROVE  Caching'
    BY <2>2, Finds, Opens, Fills, Ends
  <2>3. ASSUME NEW f \in Files, NEW version \in 0..MaxVersion, Edit(f, version) PROVE Caching'
    BY <2>3, Edits
  <2>4. ASSUME NEW p \in Loaders, FillFails(p) \/ Die(p)
        PROVE  Caching'
    BY <2>4, Broken, ReadsOn DEF FillFails
  <2> QED BY <1>2, <2>1, <2>2, <2>3, <2>4 DEF Next
<1> QED BY <1>1, <1>2

LEMMA CachingStart == Init => Caching
BY DEF Init, Caching, Shape, Loads, LoadInv, CacheInv, Present, InFile, Idle, NoFiles

(* The machine and the schemas a load ends with are those of the sources at *)
(* some moment of the load, however many processes, edits, deaths and       *)
(* failed writes: for all files of an installed command, for those the walk *)
(* of the directory finds (Walked) otherwise, and unless the bundle was     *)
(* built while they changed.                                                *)
THEOREM NothingStale == Spec => []NeverStale
<1>1. Caching => NeverStale
  <2> SUFFICES ASSUME Caching, NEW p \in Loaders, load[p].pc = "done", ~load[p].raced
               PROVE  /\ OfItsTime(load[p], load[p].machine, Hashed(load[p].kind))
                      /\ OfItsTime(load[p], load[p].schema, Hashed(load[p].kind))
    BY DEF NeverStale, Hashed
  <2>1. LoadInv(load[p], source) /\ load[p] # Idle /\ load[p] # Failed
    BY DEF Caching, Loads, Idle, Failed
  <2> QED BY <2>1 DEF LoadInv, Fresh
<1> QED BY CachingStart, CachingStep, <1>1, PTL DEF Spec

(* A bundle that is not whole has a writer, an unfinished one or two that    *)
(* differed.                                                                *)
LEMMA TornStep == Caching /\ TornExplained /\ [Next]_vars => TornExplained'
<1> SUFFICES ASSUME Caching, TornExplained, [Next]_vars PROVE TornExplained'
  OBVIOUS
<1> DEFINE Writer(p, k) == load[p].pc = "writing" /\ Key(load[p]) = k
<1>1. \A k : Writing(k) # {} <=> \E p \in Loaders : Writer(p, k)
  BY DEF Writing
<1>2. \A k : Writing(k)' # {} <=> \E p \in Loaders : Writer(p, k)'
  BY DEF Writing
<1>3. load = [p \in Loaders |-> load[p]]
  BY DEF Caching, Shape
<1>4. \A q \in Loaders : \A k : load'[q] = load[q] => (Writer(q, k)' <=> Writer(q, k))
  BY DEF Key
<1>5. ASSUME cache' = cache, marred \subseteq marred',
             \A k : \A p \in Loaders : Writer(p, k) => Writer(p, k)'
      PROVE  TornExplained'
  <2> SUFFICES ASSUME NEW k \in DOMAIN cache, ~cache[k].whole
               PROVE  Writing(k)' # {} \/ k \in marred' \/ Cardinality(cache[k].texts) > 1
    BY <1>5 DEF TornExplained, Writing
  <2>1. Writing(k) # {} \/ k \in marred \/ Cardinality(cache[k].texts) > 1
    BY DEF TornExplained
  <2> QED BY <1>1, <1>2, <1>5, <2>1
<1> HIDE DEF Writer
<1>6. CASE UNCHANGED vars
  <2>1. cache' = cache /\ marred' = marred /\ \A p \in Loaders : load'[p] = load[p]
    BY <1>6 DEF vars
  <2> QED BY <1>3, <1>4, <1>5, <2>1
<1>7. ASSUME NEW p \in Loaders,
             \/ \E kind \in Kinds : Begin(p, kind)
             \/ HashFile(p) \/ FindsModule(p) \/ FindsNone(p) \/ ImportCached(p) \/ ScanCached(p)
             \/ Extract(p) \/ Refuse(p) \/ Bundle(p) \/ ImportWritten(p)
             \/ Die(p) /\ load[p].pc # "writing"
      PROVE  TornExplained'
  <2>1. load[p].pc # "writing" /\ UNCHANGED <<cache, marred>>
    BY <1>7 DEF Begin, Running, HashFile, FindsModule, FindsNone, HashDone, ImportCached,
                ScanCached, Extract, Refuse, Bundle, ImportWritten, Die, Cached
  <2>2. \A q \in Loaders : q # p => load'[q] = load[q]
    BY <1>3, <1>7 DEF Begin, HashFile, FindsModule, FindsNone, ImportCached,
                ScanCached, Extract, Refuse, Bundle, ImportWritten, Die, Goes
  <2>3. \A k : ~Writer(p, k)
    BY <2>1 DEF Writer
  <2> QED BY <1>3, <1>4, <1>5, <2>1, <2>2, <2>3
<1>9. ASSUME NEW p \in Loaders,
             Open(p) \/ Fill(p) \/ FillFails(p) \/ (Die(p) /\ load[p].pc = "writing")
      PROVE  TornExplained'
  <2>0. PICK k : k = Key(load[p])
    OBVIOUS
  <2>1. /\ \A q \in Loaders : q # p => load'[q] = load[q]
        /\ marred \ {k} \subseteq marred' /\ k \in DOMAIN cache'
        /\ \A j \in DOMAIN cache' : j # k => j \in DOMAIN cache /\ cache'[j] = cache[j]
        /\ \A j : Writer(p, j) => j = k
    <3>1. CASE Open(p)
      <4>1. load[p].pc = "opening"
        BY <3>1 DEF Open
      <4>2. \A q \in Loaders : q # p => load'[q] = load[q]
        BY <1>3, <3>1 DEF Open, Goes
      <4> QED BY <2>0, <3>1, <4>1, <4>2 DEF Open, Environment, Writer
    <3>2. CASE Fill(p)
      <4>1. load[p].pc = "writing"
        BY <3>2 DEF Fill
      <4>2. k \in DOMAIN cache
        BY <2>0, <4>1 DEF Caching, Present, InFile
      <4>3. \A q \in Loaders : q # p => load'[q] = load[q]
        BY <1>3, <3>2 DEF Fill, Goes
      <4>4. DOMAIN cache' = DOMAIN cache /\ \A j \in DOMAIN cache : j # k => cache'[j] = cache[j]
        BY <2>0, <3>2, <4>2 DEF Fill
      <4> QED BY <2>0, <3>2, <4>1, <4>2, <4>3, <4>4 DEF Fill, Environment, Writer
    <3>3. CASE FillFails(p) \/ (Die(p) /\ load[p].pc = "writing")
      <4>1. load[p].pc = "writing"
        BY <3>3 DEF FillFails
      <4>2. k \in DOMAIN cache
        BY <2>0, <4>1 DEF Caching, Present, InFile
      <4>3. \A q \in Loaders : q # p => load'[q] = load[q]
        BY <1>3, <3>3 DEF FillFails, Die
      <4>4. Breaks(k)
        BY <2>0, <3>3 DEF FillFails, Die
      <4>5. DOMAIN cache' = DOMAIN cache /\ \A j \in DOMAIN cache : j # k => cache'[j] = cache[j]
        BY <4>2, <4>4 DEF Breaks
      <4>6. \A j : Writer(p, j) => j = k
        BY <2>0 DEF Writer
      <4> QED BY <4>2, <4>3, <4>4, <4>5, <4>6 DEF Breaks
    <3> QED BY <1>9, <3>1, <3>2, <3>3
  <2>2. cache'[k].whole \/ Writing(k)' # {} \/ k \in marred' \/ Cardinality(cache'[k].texts) > 1
    <3>1. CASE Open(p)
      <4>1. load[p].pc = "opening"
        BY <3>1 DEF Open
      <4>2. load[p] = Fields(load[p])
        BY <4>1, Working DEF AtWork, Reading
      <4>3. load'[p] = At(load[p], "writing")
        <5>1. load'[p] = [load[p] EXCEPT !.pc = "writing"]
          BY <1>3, <3>1 DEF Open, Goes
        <5> QED BY <4>2, <5>1 DEF Fields, At
      <4>4. Writer(p, k)'
        BY <2>0, <4>3 DEF Writer, At, Key
      <4> QED BY <1>2, <4>4
    <3>2. CASE Fill(p)
      <4>1. load[p].pc = "writing"
        BY <3>2 DEF Fill
      <4>2. k \in DOMAIN cache
        BY <2>0, <4>1 DEF Caching, Present, InFile
      <4>3. Entry(cache[k])
        BY <4>2 DEF Caching, CacheInv
      <4>4. CASE cache' = [cache EXCEPT ![k] = [cache[k] EXCEPT !.whole = TRUE, !.text = Text(load[p])]]
        <5>1. PICK yes : yes = TRUE
          OBVIOUS
        <5> DEFINE half == [cache[k] EXCEPT !.whole = yes]
                   mine == [half EXCEPT !.text = Text(load[p])]
        <5>2. half = [whole |-> yes, text |-> cache[k].text, texts |-> cache[k].texts]
          BY <4>3 DEF Entry
        <5>3. cache' = [cache EXCEPT ![k] = mine]
          BY <4>4, <5>1
        <5> HIDE DEF half
        <5>4. mine.whole = yes
          BY <5>2
        <5> HIDE DEF mine
        <5>5. cache'[k].whole = yes
          BY <4>2, <5>3, <5>4
        <5> QED BY <5>1, <5>5
      <4>5. CASE cache' = [cache EXCEPT ![k].whole = FALSE] /\ Cardinality(cache[k].texts) > 1
        <5>1. cache'[k].texts = cache[k].texts
          BY <4>2, <4>3, <4>5 DEF Entry
        <5> QED BY <4>5, <5>1
      <4> QED BY <2>0, <3>2, <4>4, <4>5 DEF Fill
    <3>3. CASE FillFails(p) \/ (Die(p) /\ load[p].pc = "writing")
      BY <2>0, <3>3 DEF FillFails, Die, Breaks
    <3> QED BY <1>9, <3>1, <3>2, <3>3
  <2>3. ASSUME NEW j \in DOMAIN cache', j # k, ~cache'[j].whole
        PROVE  Writing(j)' # {} \/ j \in marred' \/ Cardinality(cache'[j].texts) > 1
    <3>1. j \in DOMAIN cache /\ cache'[j] = cache[j]
      BY <2>1, <2>3
    <3>2. Writing(j) # {} \/ j \in marred \/ Cardinality(cache[j].texts) > 1
      BY <2>3, <3>1 DEF TornExplained
    <3>3. Writing(j) # {} => Writing(j)' # {}
      BY <1>1, <1>2, <1>4, <2>1, <2>3
    <3> QED BY <2>1, <2>3, <3>1, <3>2, <3>3
  <2>4. \A j \in DOMAIN cache' : ~cache'[j].whole =>
           Writing(j)' # {} \/ j \in marred' \/ Cardinality(cache'[j].texts) > 1
    BY <2>2, <2>3
  <2> QED BY <2>4 DEF TornExplained, Writing
<1>10. ASSUME NEW f \in Files, NEW version, Edit(f, version) PROVE TornExplained'
  <2>1. \A p \in Loaders : load'[p].pc = load[p].pc /\ Key(load[p])' = Key(load[p])
    <3> SUFFICES ASSUME NEW p \in Loaders PROVE load'[p].pc = load[p].pc /\ Key(load'[p]) = Key(load[p])
      BY DEF Key
    <3>1. CASE ~Running(p)
      BY <1>10, <3>1 DEF Edit
    <3>2. CASE Running(p)
      <4> DEFINE grown == [load[p].during EXCEPT ![f] = @ \cup {version}]
      <4>1. load[p].pc \notin {"idle", "done", "failed"}
        BY <3>2 DEF Running
      <4>2. LoadInv(load[p], source) /\ load[p] # Idle /\ load[p] # Failed
        BY <4>1 DEF Caching, Loads, Idle, Failed
      <4>3. load[p] = Fields(load[p])
        BY <4>2 DEF LoadInv
      <4>4. load'[p] = [load[p] EXCEPT !.during = grown]
        BY <1>10, <3>2 DEF Edit
      <4> HIDE DEF grown
      <4>5. load'[p] = [pc |-> load[p].pc, kind |-> load[p].kind, hash |-> load[p].hash,
                        machine |-> load[p].machine, schema |-> load[p].schema,
                        raced |-> load[p].raced, during |-> grown]
        BY <4>3, <4>4 DEF Fields
      <4> QED BY <4>5 DEF Key
    <3> QED BY <3>1, <3>2
  <2>2. UNCHANGED <<cache, marred>>
    BY <1>10 DEF Edit, Cached
  <2>3. \A p \in Loaders : \A k : Writer(p, k) => Writer(p, k)'
    BY <2>1 DEF Writer
  <2> QED BY <1>3, <1>5, <2>2, <2>3
<1> QED BY <1>6, <1>7, <1>9, <1>10 DEF Next, FillFails

(* A bundle is unusable only while it is written, after a writer of that    *)
(* very bundle died or its write failed, or after two of different texts    *)
(* met: whatever else fails or dies leaves every bundle usable.             *)
THEOREM TornHasAReason == Spec => []TornExplained
<1>1. Init => TornExplained
  BY DEF Init, TornExplained, NoFiles
<1> QED BY <1>1, CachingStart, CachingStep, TornStep, PTL DEF Spec
=============================================================================
