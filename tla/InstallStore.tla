----------------------------- MODULE InstallStore -----------------------------
(****************************************************************************)
(* The store of installed workflow packages: installs.json, the index       *)
(* commands.json derived from it, and the npm project beside them           *)
(* (installStore/install.ts, uninstall.ts, recovery.ts, runtime.ts,         *)
(* completionSnapshot.ts, trustedJson.ts).                                  *)
(*                                                                          *)
(* Every aharness command is a process of its own and nothing locks the     *)
(* store: mutators install and uninstall, readers run, verify, show and     *)
(* complete commands.  A step reads or writes one file.  Processes die and  *)
(* writes fail anywhere; a power loss may undo a rename whose directory     *)
(* could not be synced.                                                     *)
(****************************************************************************)
EXTENDS Lockfile

CONSTANTS
    Mutators, Readers,  \* processes
    Sources,            \* where a package may be installed from
    MaxVersion,         \* bound: versions of a library
    MaxCommands,        \* bound: install and uninstall commands
    MaxReads,           \* bound: commands of the readers
    MaxFaults           \* bound: crashes, failed writes, power losses, a damaged index

ASSUME InstallStoreAssumption ==
    /\ MaxVersion \in Nat /\ MaxCommands \in Nat /\ MaxReads \in Nat /\ MaxFaults \in Nat

Versions == 1..MaxVersion

VARIABLES
    lock,       \* package-lock.json, and with it node_modules
    saved,      \* dependencies of the managed package.json
    installs,   \* installs.json; generation 0 when there is none
    index,      \* commands.json; generation 0 when there is none, NULL when malformed
    kept,       \* the two files as they are after a power loss
    generation, \* generations made so far
    mutator, reader,
    approved,   \* history: what the verifier has approved
    overlapped, \* history: two mutators have been at work at once
    commands, reads, faults

npmVars   == <<lock, saved>>
fileVars  == <<installs, index, kept, generation>>
history   == <<approved, overlapped>>
bounds    == <<commands, reads, faults>>
vars == <<npmVars, fileVars, mutator, reader, history, bounds>>

Nothing == [p \in Packages |-> NULL]
Empty == [gen |-> 0, records |-> Nothing]
Idle == [pc |-> "idle"]

Init ==
    /\ lock = [q \in Paths |-> NULL] /\ saved = Nothing
    /\ installs = Empty /\ index = [gen |-> 0, entries |-> Nothing]
    /\ kept = [installs |-> installs, index |-> index] /\ generation = 0
    /\ mutator = [m \in Mutators |-> Idle] /\ reader = [r \in Readers |-> Idle]
    /\ approved = {} /\ overlapped = FALSE
    /\ commands = 0 /\ reads = 0 /\ faults = 0

----------------------------------------------------------------------------
(* deriveCommandIndexFromInstalls.                                          *)
Derived(file) ==
    [gen |-> file.gen,
     entries |-> [p \in Packages |-> IF file.records[p] = NULL THEN NULL ELSE file.records[p].print]]

(* writeTrustedJson: a rename, whose directory is synced if the platform    *)
(* lets it.                                                                 *)
WriteFile(name, old, new) ==
    \/ kept' = [kept EXCEPT ![name] = new]
    \/ faults < MaxFaults /\ kept' = [kept EXCEPT ![name] = old]
WriteInstallsFile(file) == installs' = file /\ WriteFile("installs", installs, file)
WriteIndexFile(file) == index' = file /\ WriteFile("index", index, file)

(* npm puts a library at the top, and below a package only when the        *)
(* package needs another version of it.                                     *)
Arrangements(direct) ==
    {tree \in [Paths -> Sources \union Versions \union {NULL}] :
        /\ \A p \in Packages : tree[<<p>>] = direct[p]
        /\ \A q \in Paths : NameAt(q) \in Libraries => tree[q] \in Versions \union {NULL}
        /\ direct = Nothing => \A q \in Paths : tree[q] = NULL
        /\ \A q \in Paths : Len(q) = 2 /\ tree[q] # NULL =>
              direct[q[1]] # NULL /\ tree[<<q[2]>>] \notin {NULL, tree[q]}
        /\ \A p \in Packages : direct[p] # NULL => Fingerprint(tree, p) # NULL}

Direct(specs) == {p \in Packages : specs[p] # NULL}
Becomes(m, s) == mutator' = [mutator EXCEPT ![m] = s]
GoesOn(m, pc) == mutator' = [mutator EXCEPT ![m].pc = pc]
Fails(m) == Becomes(m, Idle)
At(m, kind, pc) == mutator[m].pc = pc /\ mutator[m].kind = kind
Busy(m) == mutator[m].pc # "idle"

Begins(m, s) ==
    /\ ~Busy(m) /\ commands < MaxCommands
    /\ commands' = commands + 1
    /\ overlapped' = (overlapped \/ \E n \in Mutators : Busy(n))
    /\ Becomes(m, s)
    /\ UNCHANGED <<npmVars, fileVars, reader, approved, reads, faults>>

----------------------------------------------------------------------------
(* installPackageFromSource.                                                *)
Install(m, p, source) ==
    Begins(m, [pc |-> "npm", kind |-> "install", package |-> p, source |-> source, before |-> saved])

(* npm install saves the dependency and rearranges the tree, or fails.      *)
NpmInstalls(m) ==
    /\ At(m, "install", "npm")
    /\ LET p == mutator[m].package IN
       \/ /\ saved' = [saved EXCEPT ![p] = mutator[m].source]
          /\ lock' \in Arrangements(saved')
          /\ GoesOn(m, "identify")
       \/ Fails(m) /\ UNCHANGED npmVars
    /\ UNCHANGED <<fileVars, reader, history, bounds>>

(* identifyDirectDependencyKey: the one dependency that changed, or, when   *)
(* none did, the one the source names.                                      *)
Identified(m) ==
    LET changed == {q \in Direct(saved) : saved[q] # mutator[m].before[q]} IN
    IF changed = {} THEN {mutator[m].package} \intersect Direct(saved)
    ELSE IF Cardinality(changed) = 1 THEN changed ELSE {}

Identify(m) ==
    /\ At(m, "install", "identify")
    /\ IF Identified(m) = {} THEN Fails(m)
       ELSE \E key \in Identified(m) :
              Becomes(m, [pc |-> "records", kind |-> "install", key |-> key,
                          intent |-> <<mutator[m].package, mutator[m].source>>])
    /\ UNCHANGED <<npmVars, fileVars, reader, history, bounds>>

(* The records are read; another source of a known package is refused.      *)
Collides(m) ==
    LET known == installs.records[mutator[m].key] IN known # NULL /\ known.intent # mutator[m].intent

ReadRecords(m) ==
    /\ At(m, "install", "records")
    /\ IF Collides(m) THEN Fails(m)
       ELSE Becomes(m, [pc |-> "print", kind |-> "install", key |-> mutator[m].key,
                        intent |-> mutator[m].intent, records |-> installs.records])
    /\ UNCHANGED <<npmVars, fileVars, reader, history, bounds>>

TakeFingerprint(m) ==
    /\ At(m, "install", "print")
    /\ LET key   == mutator[m].key
           print == Fingerprint(lock, key)
       IN IF print = NULL THEN Fails(m)
          ELSE Becomes(m, [pc |-> "verify", kind |-> "install", key |-> key,
                           records |-> [mutator[m].records EXCEPT
                                          ![key] = [intent |-> mutator[m].intent, print |-> print]]])
    /\ UNCHANGED <<npmVars, fileVars, reader, history, bounds>>

(* The commands are loaded and verified.                                    *)
Verify(m) ==
    /\ At(m, "install", "verify")
    /\ \/ /\ approved' = approved \union {Loaded(lock, mutator[m].key)}
          /\ Becomes(m, [pc |-> "installs", records |-> mutator[m].records])
       \/ Fails(m) /\ UNCHANGED approved
    /\ UNCHANGED <<npmVars, fileVars, reader, overlapped, bounds>>

(* uninstallPackage.                                                        *)
Uninstall(m, p) ==
    /\ installs.records[p] # NULL
    /\ Begins(m, [pc |-> "npm", kind |-> "uninstall", package |-> p,
                  records |-> [installs.records EXCEPT ![p] = NULL]])

NpmUninstalls(m) ==
    /\ At(m, "uninstall", "npm")
    /\ LET p == mutator[m].package IN
       \/ /\ saved' = [saved EXCEPT ![p] = NULL]
          /\ lock' \in Arrangements(saved')
          /\ Becomes(m, [pc |-> "installs", records |-> mutator[m].records])
       \/ Fails(m) /\ UNCHANGED npmVars
    /\ UNCHANGED <<fileVars, reader, history, bounds>>

(* Both end alike: installs.json under a new generation, then the index.    *)
(* Mutant: the generation is left as it was. *)
WriteInstallsQuietly(m) ==
    /\ mutator[m].pc = "installs"
    /\ LET file == [gen |-> IF installs.gen = 0 THEN 1 ELSE installs.gen, records |-> mutator[m].records] IN
       WriteInstallsFile(file) /\ Becomes(m, [pc |-> "index", file |-> file])
    /\ generation' = generation + 1
    /\ UNCHANGED <<npmVars, index, reader, history, bounds>>

WriteInstalls(m) ==
    /\ mutator[m].pc = "installs"
    /\ LET file == [gen |-> generation + 1, records |-> mutator[m].records] IN
       WriteInstallsFile(file) /\ Becomes(m, [pc |-> "index", file |-> file])
    /\ generation' = generation + 1
    /\ UNCHANGED <<npmVars, index, reader, history, bounds>>

WriteIndex(m) ==
    /\ mutator[m].pc = "index"
    /\ WriteIndexFile(Derived(mutator[m].file)) /\ Becomes(m, Idle)
    /\ UNCHANGED <<npmVars, installs, generation, reader, history, bounds>>

----------------------------------------------------------------------------
(* readInstalledRuntimeSnapshot, and readInstalledCompletionSnapshot, which *)
(* gives up where the other recovers.                                       *)
Turns(r, s) == reader' = [reader EXCEPT ![r] = s]
UnchangedByReader == UNCHANGED <<npmVars, mutator, history, commands>>

(* Without installs.json nothing is installed, or commands.json is refused. *)
ReadInstalls(r, recovers) ==
    /\ reader[r].pc = "idle" /\ reads < MaxReads
    /\ installs.gen # 0
    /\ reads' = reads + 1
    /\ Turns(r, [pc |-> "commands", recovers |-> recovers, file |-> installs, indexed |-> index.gen # 0])
    /\ UnchangedByReader /\ UNCHANGED <<fileVars, faults>>

Current(r) == reader[r].indexed /\ reader[r].file.gen = index.gen

ReadCommands(r) ==
    /\ reader[r].pc = "commands"
    /\ \/ Current(r) /\ Turns(r, [pc |-> "gate", file |-> reader[r].file, entries |-> index.entries])
       \/ ~Current(r) /\ reader[r].recovers /\ Turns(r, [pc |-> "recover", file |-> reader[r].file])
    /\ UnchangedByReader /\ UNCHANGED <<fileVars, reads, faults>>

GiveUp(r) ==
    /\ reader[r].pc = "commands" /\ ~Current(r) /\ ~reader[r].recovers
    /\ Turns(r, Idle)
    /\ UnchangedByReader /\ UNCHANGED <<fileVars, reads, faults>>

(* validateInstallFingerprints: of all packages, not only the one wanted.   *)
Matches(record, p) == record = NULL \/ Fingerprint(lock, p) = record.print

Recover(r) ==
    /\ reader[r].pc = "recover"
    /\ Turns(r, IF \A p \in Packages : Matches(reader[r].file.records[p], p)
                THEN [pc |-> "regenerate", file |-> reader[r].file] ELSE Idle)
    /\ UnchangedByReader /\ UNCHANGED <<fileVars, reads, faults>>

Regenerate(r) ==
    /\ reader[r].pc = "regenerate"
    /\ WriteIndexFile(Derived(reader[r].file))
    /\ Turns(r, [pc |-> "gate", file |-> reader[r].file, entries |-> Derived(reader[r].file).entries])
    /\ UnchangedByReader /\ UNCHANGED <<installs, generation, reads, faults>>

(* resolveInstalledCommand and checkInstalledLockFingerprint: the command   *)
(* is indexed and recorded, and the tree is the one recorded.               *)
Gate(r, p) ==
    /\ reader[r].pc = "gate"
    /\ LET record == reader[r].file.records[p] IN
       Turns(r, IF reader[r].entries[p] # NULL /\ record # NULL /\ Fingerprint(lock, p) = record.print
                THEN [pc |-> "let in", loads |-> Loaded(lock, p)] ELSE Idle)
    /\ UnchangedByReader /\ UNCHANGED <<fileVars, reads, faults>>

Leave(r) ==
    /\ reader[r].pc = "let in" /\ Turns(r, Idle)
    /\ UnchangedByReader /\ UNCHANGED <<fileVars, reads, faults>>

----------------------------------------------------------------------------
(* Faults.  A process that dies, or whose write fails, stops where it is.   *)
Fault == faults < MaxFaults /\ faults' = faults + 1

MutatorDies(m) ==
    /\ Busy(m) /\ Fault /\ Fails(m)
    /\ UNCHANGED <<npmVars, fileVars, reader, history, commands, reads>>

ReaderDies(r) ==
    /\ reader[r].pc \notin {"idle", "let in"} /\ Fault /\ Turns(r, Idle)
    /\ UnchangedByReader /\ UNCHANGED <<fileVars, reads>>

PowerLoss ==
    /\ Fault
    /\ installs' \in {installs, kept.installs} /\ index' \in {index, kept.index}
    /\ kept' = [installs |-> installs', index |-> index']
    /\ mutator' = [m \in Mutators |-> Idle] /\ reader' = [r \in Readers |-> Idle]
    /\ UNCHANGED <<npmVars, generation, history, commands, reads>>

(* commands.json is no longer what aharness wrote.                          *)
Damage ==
    /\ index.gen # 0 /\ Fault
    /\ index' = [gen |-> NULL, entries |-> Nothing] /\ kept' = [kept EXCEPT !.index = index']
    /\ UNCHANGED <<npmVars, installs, generation, mutator, reader, history, commands, reads>>

Next ==
    \/ \E m \in Mutators :
         \/ \E p \in Packages : (\E s \in Sources : Install(m, p, s)) \/ Uninstall(m, p)
         \/ NpmInstalls(m) \/ Identify(m) \/ ReadRecords(m) \/ TakeFingerprint(m) \/ Verify(m) \/ NpmUninstalls(m)
         \/ WriteInstalls(m) \/ WriteIndex(m) \/ MutatorDies(m)
    \/ \E r \in Readers :
         \/ \E recovers \in BOOLEAN : ReadInstalls(r, recovers)
         \/ ReadCommands(r) \/ GiveUp(r) \/ Recover(r) \/ Regenerate(r) \/ Leave(r) \/ ReaderDies(r)
         \/ \E p \in Packages : Gate(r, p)
    \/ PowerLoss \/ Damage

Spec == Init /\ [][Next]_vars

----------------------------------------------------------------------------
(* Properties.                                                              *)

(* An index under the generation of installs.json is the index of this      *)
(* installs.json, whoever wrote which of them last, and whatever a crash or *)
(* a power loss left.  Readers trust it unseen.                             *)
IndexOfInstalls == index.gen = installs.gen => index = Derived(installs)

(* A command is let in only with code the verifier has approved, entry by   *)
(* entry down to the last library, unless two mutators were at work at once *)
(* (nothing keeps them apart, and one may verify what the other unpacks).   *)
OnlyVerifiedRuns ==
    overlapped \/ \A r \in Readers : reader[r].pc = "let in" => reader[r].loads \in approved
=============================================================================
