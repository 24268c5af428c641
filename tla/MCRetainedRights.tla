-------------------------- MODULE MCRetainedRights --------------------------
(***************************************************************************)
(* RetainedRights where learners, grants and requests may be exchanged.    *)
(***************************************************************************)
EXTENDS RetainedRights, TLC

Symmetry == Permutations(Users) \cup Permutations(Grants) \cup Permutations(Tasks)
=============================================================================
