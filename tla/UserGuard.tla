----------------------------- MODULE UserGuard -----------------------------
(***************************************************************************)
(* The row of PurchaseUser that exists at most once per learner: a lock    *)
(* that every writer of learner data takes first (lock_user), and the      *)
(* tombstone that account erasure leaves in it (deleted).                  *)
(*                                                                         *)
(* A missing row and a row with deleted = FALSE behave alike: lock_user    *)
(* inserts the missing row, and a competing insert waits for the primary   *)
(* key as a competing SELECT ... FOR UPDATE waits for the row.  Both are   *)
(* tombstone[u] = FALSE here.  A transaction keeps the row until it        *)
(* commits or rolls back.                                                  *)
(***************************************************************************)
CONSTANTS Users,    \* learners
          Tasks,    \* requests and background jobs, one transaction each
          None      \* no task, no operation

ASSUME NoneIsNoTask == None \notin Tasks

VARIABLES tombstone,  \* [Users -> BOOLEAN], the committed value of PurchaseUser.deleted
          holder      \* [Users -> Tasks or None], the transaction that holds the row

guardVars == <<tombstone, holder>>

GuardTypeOK == /\ tombstone \in [Users -> BOOLEAN]
               /\ holder \in [Users -> Tasks \cup {None}]

GuardInit == /\ tombstone = [u \in Users |-> FALSE]
             /\ holder = [u \in Users |-> None]

\* The row is free for t, or t holds it already: locking twice in one transaction is no wait.
Lockable(t, u) == holder[u] \in {None, t}

\* lock_user: wait for the row, keep it to the end of the transaction, read it afresh.
LockUser(t, u) == /\ Lockable(t, u)
                  /\ holder' = [holder EXCEPT ![u] = t]

\* The end of t's transaction, by commit or by rollback.
GuardsAfter(t) == [u \in Users |-> IF holder[u] = t THEN None ELSE holder[u]]
=============================================================================
