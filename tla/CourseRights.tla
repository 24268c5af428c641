---------------------------- MODULE CourseRights ----------------------------
(***************************************************************************)
(* What the continuation of course rights promises: closing an account     *)
(* turns what its learner could open into rights that nobody uses; a right *)
(* has one user at a time, who is not the closed account's; and it comes   *)
(* back, counted, when its user's account is closed in turn.               *)
(***************************************************************************)
EXTENDS Naturals

CONSTANTS Users, Courses, None

VARIABLES closed,     \* SUBSET Users
          kept,       \* SUBSET (Users \X Courses): the rights, by the learner and course they come from
          user,       \* [Users \X Courses -> Users or None]
          generation  \* [Users \X Courses -> Nat]: how often the right came back

rightsVars == <<closed, kept, user, generation>>

RightsInit == /\ closed = {}
              /\ kept = {}
              /\ user = [r \in Users \X Courses |-> None]
              /\ generation = [r \in Users \X Courses |-> 0]

UseRight(r, u) == /\ r \in kept
                  /\ r[1] \in closed
                  /\ u \notin closed
                  /\ user[r] = None
                  /\ user' = [user EXCEPT ![r] = u]
                  /\ UNCHANGED <<closed, kept, generation>>

\* A closed account may be closed again: late rows of it are found then.
CloseAccount(u) == /\ closed' = closed \cup {u}
                   /\ \E courses \in SUBSET Courses : kept' = kept \cup ({u} \X courses)
                   /\ user' = [r \in DOMAIN user |-> IF user[r] = u THEN None ELSE user[r]]
                   /\ generation' = [r \in DOMAIN user |->
                         IF user[r] = u THEN generation[r] + 1 ELSE generation[r]]

\* The account is found closed; closing it again gives its rights back.
FindClosed(u) == /\ closed' = closed \cup {u}
                 /\ UNCHANGED <<kept, user, generation>>

RightsNext == \E u \in Users : CloseAccount(u) \/ FindClosed(u) \/ \E r \in Users \X Courses : UseRight(r, u)

RightsSpec == RightsInit /\ [][RightsNext]_rightsVars
=============================================================================
