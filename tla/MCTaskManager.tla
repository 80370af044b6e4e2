--------------------------- MODULE MCTaskManager ---------------------------
(***************************************************************************)
(* Instances of TaskManager for TLC.  Names only identify tasks, so any    *)
(* permutation of them is a symmetry; the ids they get are not permuted.   *)
(***************************************************************************)
EXTENDS TaskManager, TLC

NameSymmetry == Permutations(Names)
=============================================================================
