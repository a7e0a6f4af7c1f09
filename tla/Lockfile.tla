------------------------------- MODULE Lockfile -------------------------------
(****************************************************************************)
(* package-lock.json of the managed npm project, as installStore/lockfile.ts *)
(* reads it: entries under paths like node_modules/a/node_modules/d, here   *)
(* sequences of names like <<a, d>>, each with a version.  No state.        *)
(* Needs stands for dependencies and optionalDependencies alike, as the     *)
(* code reads them; peer dependencies it does not read are left out.        *)
(****************************************************************************)
EXTENDS Naturals, Sequences, FiniteSets

CONSTANTS
    NULL,
    Packages,   \* npm packages the owner installs
    Libraries,  \* packages that come along as dependencies
    Needs       \* the libraries each package or library depends on

Names == Packages \union Libraries
Paths == {<<n>> : n \in Names} \union {<<p, l>> : p \in Packages, l \in Libraries}

ASSUME LockfileAssumption ==
    /\ Needs \in [Names -> SUBSET Libraries] /\ IsFiniteSet(Names)
    /\ Packages \intersect Libraries = {} /\ NULL \notin Names \union Nat \union Paths

Present(lock, path) == path \in Paths /\ lock[path] # NULL
NameAt(path) == path[Len(path)]

(* resolveDependencyEntryKey: below the entry, then below each package that *)
(* encloses it, then at the top.                                            *)
Resolve(lock, path, n) ==
    LET At(i)  == Append(SubSeq(path, 1, i), n)
        found  == {i \in 0..Len(path) : Present(lock, At(i))}
    IN  IF found = {} THEN NULL ELSE At(CHOOSE i \in found : \A j \in found : j <= i)

(* Mutant: only the package's own entry is looked at.                       *)
WalkNowhere(lock, p) == {<<p>>}

(* walkReachablePackageEntries: the queue, one generation at a time.  NULL  *)
(* stands for a dependency without an entry.                                *)
Walk(lock, p) ==
    LET Needed(path) == {Resolve(lock, path, n) : n \in Needs[NameAt(path)]}
        seen[i \in Nat] == IF i = 0 THEN {<<p>>}
                           ELSE seen[i - 1] \union UNION {Needed(path) : path \in seen[i - 1] \ {NULL}}
    IN  seen[Cardinality(Paths)]

(* computeLockFingerprint: NULL when it reports a diagnostic instead.       *)
Fingerprint(lock, p) ==
    LET reached == Walk(lock, p) IN
    IF ~Present(lock, <<p>>) \/ NULL \in reached THEN NULL
    ELSE {<<path, lock[path]>> : path \in reached}

----------------------------------------------------------------------------
(* What Node loads for a package: the least set of entries that has it and, *)
(* with each entry, the nearest entry of everything this one imports.       *)
Nearest(lock, path, n) ==
    {q \in Paths : /\ Present(lock, q) /\ NameAt(q) = n
                   /\ \E i \in 0..Len(path) :
                        /\ q = Append(SubSeq(path, 1, i), n)
                        /\ \A j \in i + 1..Len(path) : ~Present(lock, Append(SubSeq(path, 1, j), n))}

Complete(lock, S) == \A q \in S : \A n \in Needs[NameAt(q)] : Nearest(lock, q, n) \subseteq S

Loaded(lock, p) ==
    {<<q, lock[q]>> : q \in {q \in Paths :
        \A S \in SUBSET Paths : <<p>> \in S /\ Complete(lock, S) => q \in S}}
=============================================================================
