--------------------------- MODULE MCEngineTasks ---------------------------
(***************************************************************************)
(* EngineTasks with revisions of which a later one moves bands later.      *)
(***************************************************************************)
EXTENDS EngineTasks, TLC

MCRaise == [r \in Revisions |-> r]
MCLower == [r \in Revisions |-> 2]

\* Tasks of the unit and requests may be exchanged; every task is required.
Symmetry == Permutations(Goals) \cup Permutations(Tasks)
=============================================================================
