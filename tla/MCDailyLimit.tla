--------------------------- MODULE MCDailyLimit ---------------------------
(***************************************************************************)
(* DailyLimit with two lessons that share a room, and the answers of the   *)
(* shop that are told apart.                                               *)
(***************************************************************************)
EXTENDS DailyLimit, TLC

CONSTANTS a, b
MCLessons == <<a, b>>
Daily == [mode |-> "daily", premium |-> FALSE]
Legacy == [mode |-> "legacy", premium |-> FALSE]
MCPolicies == {Daily, Legacy}
\* Requests in progress may be exchanged.
Symmetry == Permutations(Tasks)
=============================================================================
