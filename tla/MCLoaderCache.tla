---------------------------- MODULE MCLoaderCache ----------------------------
(* A workflow file and what it imports that the walk does not find: a JSON   *)
(* file or a package below its directory, or a module outside it.           *)
EXTENDS LoaderCache, TLC

CONSTANTS main, data, p1, p2

Processes == Permutations(Loaders)
=============================================================================
