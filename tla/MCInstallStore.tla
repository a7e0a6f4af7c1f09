--------------------------- MODULE MCInstallStore ----------------------------
(* Two packages that share a library, on which TLC checks InstallStore.     *)
EXTENDS InstallStore, TLC

CONSTANTS a, b, lib, m1, m2, registry, folder
NeedsLib == [n \in {a, b, lib} |-> IF n = lib THEN {} ELSE {lib}]
Alike == Permutations({a, b}) \union Permutations({m1, m2}) \union Permutations({registry, folder})
=============================================================================
