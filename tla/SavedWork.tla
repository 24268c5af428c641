----------------------------- MODULE SavedWork -----------------------------
(***************************************************************************)
(* What saving a learning plan and saving a course project share: the      *)
(* learner's lock (lock_user, services/purchases.py) and the transaction   *)
(* around it.                                                              *)
(*                                                                         *)
(* A transaction begins with a plain read, and waits for the lock after    *)
(* it.  All that follows happens under the lock, so it is one step; but    *)
(* under REPEATABLE READ its plain reads still see what was committed when *)
(* the transaction began.                                                  *)
(***************************************************************************)
CONSTANTS Clients,    \* requests at the same time
          None

VARIABLES isolation,  \* of the database: "committed" (PostgreSQL) or "repeatable" (MariaDB)
          erased,     \* PurchaseUser.deleted
          open,       \* [Clients -> request and what its transaction saw first, or Idle]
          told        \* the last answer to a save, until the next one begins

workVars == <<isolation, erased, open, told>>

Idle == [is |-> "idle"]
\* A plain read of a transaction that began when `seen` was committed.
Reads(seen, now) == IF isolation = "repeatable" THEN seen ELSE now

WorkInit == /\ isolation \in {"committed", "repeatable"}
            /\ erased = FALSE
            /\ open = [c \in Clients |-> Idle]
            /\ told = None

\* A request arrives: its first read, before it waits for the lock.
Arrive(c, request, seen) == /\ open[c] = Idle
                            /\ open' = [open EXCEPT ![c] = [is |-> "open", request |-> request, seen |-> seen]]
                            /\ told' = None
                            /\ UNCHANGED <<isolation, erased>>

\* The end of a request: the answer, and for a conflict the document that it shows.
Answer(c, code, shows) == /\ open' = [open EXCEPT ![c] = Idle]
                          /\ told' = [request |-> open[c].request, code |-> code, shows |-> shows]
                          /\ UNCHANGED <<isolation, erased>>

\* The connection is lost before the commit, or the process ends.
Fail(c) == /\ open[c] # Idle
           /\ open' = [open EXCEPT ![c] = Idle]
           /\ UNCHANGED <<isolation, erased, told>>
=============================================================================
