--------------------------- MODULE MCLeaderboards ---------------------------
(***************************************************************************)
(* Leaderboards of three learners, two of whom are equal at the start; the *)
(* third has fewer points or no row.                                       *)
(***************************************************************************)
EXTENDS Leaderboards

Equals == [l \in {1, 2} |-> [xp |-> 1, at |-> 0]]
MCFirstBoards == {Equals, Equals @@ (3 :> [xp |-> 0, at |-> 0])}
=============================================================================
