----------------------------- MODULE LoaderCache -----------------------------
(* The loader's cache of compiled workflows: loadFsm for a workflow file,   *)
(* loadInstalledFsm for an installed command and the completion of flags,   *)
(* each a process of its own, while an author or npm edits the sources.     *)
(* The text of a bundle is the versions of the files it was built from.     *)
EXTENDS Naturals, FiniteSets, Functions

CONSTANTS
    Files,        \* source files a bundle is built from
    Walked,       \* those hashSourceTree finds: .ts and .tsx below the workflow's directory
    Typed,        \* those a payload or input type is declared in
    Loaders,      \* processes that load
    MaxVersion,   \* bound: versions of a file
    MaxEdits,     \* bound: edits
    MaxLoads,     \* bound: loads begun
    MaxFaults     \* bound: processes that die, writes that fail

ASSUME LoaderAssumption ==
    /\ Walked \subseteq Files /\ Typed \subseteq Files
    /\ {MaxVersion, MaxEdits, MaxLoads, MaxFaults} \subseteq Nat

Kinds == {"direct", "installed", "completion"}
NoFiles == [f \in {} |-> 0]

VARIABLES
    source,   \* the files on disk: version of each
    cache,    \* cache directory: key to what its fsm.mjs holds
    marred,   \* keys a writer did not finish since the last one opened (a history variable)
    load,     \* a process's load
    edits, loads, faults

vars == <<source, cache, marred, load, edits, loads, faults>>

Idle == [pc |-> "idle"]
Failed == [pc |-> "failed"]
Init ==
    /\ source = [f \in Files |-> 0]
    /\ cache = NoFiles /\ marred = {}
    /\ load = [p \in Loaders |-> Idle]
    /\ edits = 0 /\ loads = 0 /\ faults = 0

(* extractSchemaSidecar reads the types, esbuild the whole of the sources.  *)
Schema(files) == Restrict(files, Typed)

(* The files a load hashes.  hashInstalledBundleInputs takes esbuild's list *)
(* of inputs.  hashSourceTree walks the directory of the workflow file for  *)
(* .ts and .tsx, outside node_modules, dist, .aharness and dot entries: what *)
(* esbuild bundles besides (JSON, JavaScript, packages, modules outside the *)
(* directory) is in no direct load's hash.                                  *)
HashWalkOnly(kind) == Walked   \* mutant
Hashed(kind) == IF kind = "installed" THEN Files ELSE Walked

(* The key of an installed bundle contains the serialized sidecar.          *)
Key(l) ==
    IF l.kind = "installed" THEN [of |-> "installed", files |-> l.hash, schema |-> l.schema]
                            ELSE [of |-> "direct", files |-> l.hash, schema |-> NoFiles]

(* Some file changed between the first and the last thing the load read.    *)
Overtaken(l) == \E f \in Files : Cardinality(l.during[f]) > 1
Text(l) == [machine |-> l.machine, schema |-> l.schema, raced |-> Overtaken(l)]

Goes(p, pc) == load' = [load EXCEPT ![p].pc = pc]
Running(p) == load[p].pc \notin {"idle", "done", "failed"}
Environment == <<source, edits, loads, faults>>
Cached == <<cache, marred>>

(******************************** one load **********************************)
Begin(p, kind) ==
    /\ ~Running(p) /\ loads < MaxLoads
    /\ loads' = loads + 1
    /\ load' = [load EXCEPT ![p] =
         [pc |-> IF kind = "installed" THEN "extracting" ELSE "hashing", kind |-> kind,
          hash |-> NoFiles, machine |-> NoFiles, schema |-> NoFiles, raced |-> FALSE,
          during |-> [f \in Files |-> {source[f]}]]]
    /\ UNCHANGED <<source, Cached, edits, faults>>

(* One readFile of the hash; the files are sorted first.                    *)
HashFile(p) ==
    LET left == Hashed(load[p].kind) \ DOMAIN load[p].hash
        f == CHOOSE g \in left : TRUE
    IN  /\ load[p].pc = "hashing" /\ left # {}
        /\ load' = [load EXCEPT ![p].hash =
             [g \in DOMAIN @ \cup {f} |-> IF g = f THEN source[f] ELSE @[g]]]
        /\ UNCHANGED <<Cached, Environment>>

HashDone(p) == load[p].pc = "hashing" /\ DOMAIN load[p].hash = Hashed(load[p].kind)

(* moduleExists finds the file, whatever it holds.                          *)
FindsModule(p) ==
    /\ HashDone(p) /\ Key(load[p]) \in DOMAIN cache
    /\ Goes(p, IF load[p].kind = "completion" THEN "scanning" ELSE "importing")
    /\ UNCHANGED <<Cached, Environment>>

FindsNone(p) ==
    /\ HashDone(p) /\ Key(load[p]) \notin DOMAIN cache
    /\ Goes(p, IF load[p].kind = "installed" THEN "opening" ELSE "extracting")
    /\ UNCHANGED <<Cached, Environment>>

(* Warm path: machine and schemas are those of the imported bundle.  A      *)
(* bundle that is cut short does not parse, or exports no machine: import   *)
(* or importFsmModule throws and the load fails.                            *)
ImportCached(p) ==
    /\ load[p].pc = "importing"
    /\ LET entry == cache[Key(load[p])] IN
       load' = [load EXCEPT ![p] =
         IF ~entry.whole THEN Failed
         ELSE [@ EXCEPT !.pc = "done", !.hash = NoFiles,
                        !.machine = entry.text.machine, !.schema = entry.text.schema,
                        !.raced = entry.text.raced]]
    /\ UNCHANGED <<Cached, Environment>>

(* Completion scans the text for the sidecar, which is at the top: it may   *)
(* find it in a bundle cut short, and extracts the schema when it does not. *)
ScanCached(p) ==
    /\ load[p].pc = "scanning"
    /\ LET entry == cache[Key(load[p])] IN
       \/ \E text \in IF entry.whole THEN {entry.text} ELSE entry.texts :
            load' = [load EXCEPT ![p].pc = "done", ![p].schema = text.schema,
                                 ![p].raced = text.raced]
       \/ ~entry.whole /\ Goes(p, "extracting")
    /\ UNCHANGED <<Cached, Environment>>

(* The extractor reads the sources.                                         *)
Extract(p) ==
    /\ load[p].pc = "extracting"
    /\ load' = [load EXCEPT ![p].schema = Schema(source), ![p].raced = FALSE,
         ![p].pc = IF load[p].kind = "completion" THEN "done" ELSE "bundling"]
    /\ UNCHANGED <<Cached, Environment>>

(* Retired authoring forms, a type error, no directory or file to write to: *)
(* nothing has been written.                                                *)
RefuseLate(p) ==   \* mutant
    /\ load[p].pc \in {"extracting", "bundling"} /\ load[p].kind = "direct"
    /\ load' = [load EXCEPT ![p] = Failed]
    /\ cache' = [k \in DOMAIN cache \cup {Key(load[p])} |->
         IF k = Key(load[p]) THEN [whole |-> FALSE, text |-> Text(load[p]), texts |-> {Text(load[p])}]
                             ELSE cache[k]]
    /\ UNCHANGED <<marred, Environment>>
Refuse(p) ==
    /\ load[p].pc \in {"extracting", "bundling", "opening"}
    /\ load' = [load EXCEPT ![p] = Failed]
    /\ UNCHANGED <<Cached, Environment>>

(* esbuild reads the sources: the direct bundle goes to its file when it is *)
(* complete, the installed one stays in memory until its inputs are hashed. *)
Bundle(p) ==
    /\ load[p].pc = "bundling"
    /\ load' = [load EXCEPT ![p].machine = source,
         ![p].pc = IF load[p].kind = "installed" THEN "hashing" ELSE "opening"]
    /\ UNCHANGED <<Cached, Environment>>

Writing(k) == {p \in Loaders : load[p].pc = "writing" /\ Key(load[p]) = k}

(* The write truncates the file first.                                      *)
Open(p) ==
    LET k == Key(load[p])
        others == IF Writing(k) = {} THEN {} ELSE cache[k].texts
        entry == [whole |-> FALSE, text |-> Text(load[p]), texts |-> others \cup {Text(load[p])}]
    IN  /\ load[p].pc = "opening"
        /\ cache' = [j \in DOMAIN cache \cup {k} |-> IF j = k THEN entry ELSE cache[j]]
        /\ marred' = marred \ {k}
        /\ Goes(p, "writing")
        /\ UNCHANGED Environment

(* Then it fills it.  Two writers of different texts at once may leave the  *)
(* end of the longer behind the shorter.                                    *)
Fill(p) ==
    LET k == Key(load[p])
        mine == [cache[k] EXCEPT !.whole = TRUE, !.text = Text(load[p])]
    IN  /\ load[p].pc = "writing"
        /\ \/ cache' = [cache EXCEPT ![k] = mine]
           \/ /\ Cardinality(cache[k].texts) > 1
              /\ cache' = [cache EXCEPT ![k].whole = FALSE]
        /\ Goes(p, "reading")
        /\ UNCHANGED <<marred, Environment>>

(* A writer that does not get to the end leaves what it has written, among  *)
(* what another wrote.                                                      *)
Breaks(k) ==
    /\ marred' = marred \cup {k}
    /\ \/ UNCHANGED cache
       \/ Cardinality(cache[k].texts) > 1 /\ cache' = [cache EXCEPT ![k].whole = FALSE]

(* The disk is full or broken: writeFile or esbuild rejects, the load fails.*)
FillFails(p) ==
    /\ load[p].pc = "writing" /\ faults < MaxFaults
    /\ faults' = faults + 1
    /\ Breaks(Key(load[p]))
    /\ load' = [load EXCEPT ![p] = Failed]
    /\ UNCHANGED <<source, edits, loads>>

(* Cold path: the machine is what the file now holds, the schemas are those *)
(* this load extracted.                                                     *)
ImportWritten(p) ==
    /\ load[p].pc = "reading"
    /\ LET entry == cache[Key(load[p])] IN
       load' = [load EXCEPT ![p] =
         IF ~entry.whole THEN Failed
         ELSE [@ EXCEPT !.pc = "done", !.hash = NoFiles,
                        !.machine = entry.text.machine, !.raced = entry.text.raced]]
    /\ UNCHANGED <<Cached, Environment>>

(****************************** environment *********************************)
(* An editor, a branch change or npm replaces a file, by an old one too.    *)
Edit(f, version) ==
    /\ edits < MaxEdits /\ version # source[f]
    /\ edits' = edits + 1
    /\ source' = [source EXCEPT ![f] = version]
    /\ load' = [p \in Loaders |->
         IF Running(p) THEN [load[p] EXCEPT !.during[f] = @ \cup {version}] ELSE load[p]]
    /\ UNCHANGED <<Cached, loads, faults>>

Die(p) ==
    /\ Running(p) /\ faults < MaxFaults
    /\ faults' = faults + 1
    /\ load' = [load EXCEPT ![p] = Idle]
    /\ IF load[p].pc = "writing" THEN Breaks(Key(load[p])) ELSE UNCHANGED Cached
    /\ UNCHANGED <<source, edits, loads>>

Next ==
    \/ \E p \in Loaders :
         \/ \E kind \in Kinds : Begin(p, kind)
         \/ HashFile(p) \/ FindsModule(p) \/ FindsNone(p) \/ ImportCached(p) \/ ScanCached(p)
         \/ Extract(p) \/ Refuse(p) \/ Bundle(p) \/ Open(p) \/ Fill(p) \/ FillFails(p)
         \/ ImportWritten(p) \/ Die(p)
    \/ \E f \in Files, version \in 0..MaxVersion : Edit(f, version)

Spec == Init /\ [][Next]_vars

(******************************** properties ********************************)
OfItsTime(l, read, files) == \A f \in DOMAIN read \cap files : read[f] \in l.during[f]

(* Machine and schemas come from the sources as they were at some moment of *)
(* the load, however old the bundle, in the files that are hashed: all an   *)
(* installed command is bundled from, only the .ts and .tsx the walk finds  *)
(* for a workflow file.  Excepted are bundles built while a source changed. *)
NeverStale ==
    \A p \in Loaders :
        load[p].pc = "done" /\ ~load[p].raced =>
            /\ OfItsTime(load[p], load[p].machine,
                         IF load[p].kind = "installed" THEN Files ELSE Walked)
            /\ OfItsTime(load[p], load[p].schema,
                         IF load[p].kind = "installed" THEN Files ELSE Walked)

(* A bundle is unusable only while it is written, after a writer of that    *)
(* very bundle died or failed and none has begun again, or after two of     *)
(* different texts met.  A load that fails for any other reason leaves none *)
(* behind, and a failure touches no bundle but the one it was writing.      *)
TornExplained ==
    \A k \in DOMAIN cache :
        ~cache[k].whole => Writing(k) # {} \/ k \in marred \/ Cardinality(cache[k].texts) > 1

(* A load does not fail for what an earlier one left in the cache.  TLC     *)
(* refutes it: a bundle cut short by a death or a full disk is imported,    *)
(* not rebuilt.                                                             *)
CacheRecovers ==
    \A p \in Loaders :
        load[p].pc = "importing" => cache[Key(load[p])].whole \/ Writing(Key(load[p])) # {}
=============================================================================
