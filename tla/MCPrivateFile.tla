---------------------------- MODULE MCPrivateFile ----------------------------
(* Concurrent calls on one path; calls and temporary names are symmetric. *)
EXTENDS PrivateFile, TLC

Symmetry == Permutations(Calls) \union Permutations(TempNames)
==============================================================================
