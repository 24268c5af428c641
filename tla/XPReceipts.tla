----------------------------- MODULE XPReceipts -----------------------------
(***************************************************************************)
(* Experience points: keyed delivery (services/benefits.py), the booking   *)
(* of a passed engine task, which delivers through the same function and   *)
(* then takes the user guard (services/engine_verdicts.py), unkeyed        *)
(* progress (XP.add_xp), and account erasure (services/user_deletion.py).  *)
(*                                                                         *)
(* Every task is one database transaction.  It waits for row locks, keeps  *)
(* its writes to itself until Commit, and may roll back at any step: an    *)
(* exception, a crash, or the database picking it as a deadlock victim.    *)
(* Plain reads see committed rows (READ COMMITTED).  A counter is the bag  *)
(* of awards that went into it; its number is a sum over that bag.         *)
(***************************************************************************)
EXTENDS UserGuard, Naturals, FiniteSetsExt

CONSTANTS Ops,            \* ids of XPOperation, ordered
          EngineOps,      \* those that xp_operation_id derives for an engine task
          Requests,       \* request bodies: recipient, skill, amount, earning id
          Recipient,      \* [Requests -> Users]
          EngineRequest,  \* [EngineOps -> Requests]: the terms of the task fix its award
          Progress        \* the source of unkeyed points

ASSUME ConstantsOK == /\ Ops \subseteq Nat
                      /\ EngineOps \subseteq Ops
                      /\ None \notin Ops \cup Requests
                      /\ Progress \notin Ops
                      /\ Recipient \in [Requests -> Users]
                      /\ EngineRequest \in [EngineOps -> Requests]
                      /\ None \notin [Ops \cup {Progress} -> Nat]

VARIABLES auth,     \* [Users -> {"live", "gone"}]: the account at the auth service
          receipt,  \* [Ops -> Requests or None]: committed XPOperation rows, all with a result
          opLock,   \* [Ops -> Tasks or None]: who inserted, deleted or locked the row
          xp,       \* [Users -> [Sources -> Nat]]: committed XP rows
          booked,   \* SUBSET EngineOps: committed EngineTaskState.xp_applied
          cmd,      \* [Tasks -> Commands]: what each task was asked to do
          pc,       \* [Tasks -> Locations]
          found,    \* [Tasks -> SUBSET Ops]: receipts the first statement of an erasure found
          todo,     \* [Tasks -> SUBSET Ops]: the receipts it still has to lock, then to delete
          draft,    \* [Tasks -> counter or None]: the counter a task is about to write
          answer    \* [Tasks -> Answers]

vars == <<tombstone, holder, auth, receipt, opLock, xp, booked, cmd, pc, found, todo, draft, answer>>

Sources == Ops \cup {Progress}
Counter == [Sources -> Nat]
NoCounter == [s \in Sources |-> 0]

\* apply_xp from the internal endpoint; book; add_xp alone; delete_user_data.
Deliver(o, r) == [kind |-> "deliver", op |-> o, req |-> r, user |-> Recipient[r]]
Book(o) == [kind |-> "book", op |-> o, req |-> EngineRequest[o], user |-> Recipient[EngineRequest[o]]]
Commands == {Deliver(o, r) : o \in Ops \ EngineOps, r \in Requests}
            \cup {Book(o) : o \in EngineOps}
            \cup [kind : {"progress", "erase"}, op : {None}, req : {None}, user : Users]

Locations == {"idle", "claim", "receipt", "guard", "status", "bookguard",
              "lockreceipts", "eraseguard", "delete", "commit", "done"}
Answers == {"none", "applied", "replayed", "recipient_erased", "erased", "failed"}

\* The transaction of a task in one of these locations is open.
Open(t) == pc[t] \notin {"idle", "done"}
\* t has inserted the receipt of its operation and not committed it.
Claims(t) == cmd[t].op # None /\ opLock[cmd[t].op] = t /\ receipt[cmd[t].op] = None
\* The holder of the row has deleted it and not committed that.
Doomed(o) == LET t == opLock[o] IN t # None /\ pc[t] \in {"delete", "commit"} /\ cmd[t].kind = "erase" /\ o \notin todo[t]
\* The committed receipts of a learner.
ReceiptsOf(u) == {o \in Ops : receipt[o] # None /\ Recipient[receipt[o]] = u}

Goto(t, location) == pc' = [pc EXCEPT ![t] = location]
Answering(t, a) == answer' = [answer EXCEPT ![t] = a]
\* The end of t's transaction: every row it holds becomes free.
ReleaseAll(t) == /\ opLock' = [o \in Ops |-> IF opLock[o] = t THEN None ELSE opLock[o]]
                 /\ holder' = GuardsAfter(t)
                 /\ draft' = [draft EXCEPT ![t] = None]
                 /\ Goto(t, "done")

Init == /\ GuardInit
        /\ auth = [u \in Users |-> "live"]
        /\ receipt = [o \in Ops |-> None]
        /\ opLock = [o \in Ops |-> None]
        /\ xp = [u \in Users |-> NoCounter]
        /\ booked = {}
        /\ cmd \in [Tasks -> Commands]
        /\ pc \in [Tasks -> {"idle", "done"}]  \* who is done from the beginning makes no request
        /\ found = [t \in Tasks |-> {}]
        /\ todo = [t \in Tasks |-> {}]
        /\ draft = [t \in Tasks |-> None]
        /\ answer = [t \in Tasks |-> "none"]

-----------------------------------------------------------------------------
(* Faulty variants of the steps below: what TLC must reject. *)

\* The guard's tombstone is not looked at before points are added.
BeginProgressUnderTombstone(t) ==
    LET u == cmd[t].user IN
    /\ pc[t] = "idle"
    /\ cmd[t].kind = "progress"
    /\ LockUser(t, u)
    /\ draft' = [draft EXCEPT ![t] = [xp[u] EXCEPT ![Progress] = @ + 1]]
    /\ Answering(t, "applied")
    /\ Goto(t, "commit")
    /\ UNCHANGED <<tombstone, auth, receipt, opLock, xp, booked, cmd, found, todo>>

\* The receipt records who asked instead of what was asked.
CommitAwardForRecipient(t) ==
    LET o == cmd[t].op  u == cmd[t].user IN
    /\ pc[t] = "commit"
    /\ cmd[t].kind # "erase"
    /\ receipt' = IF Claims(t) THEN [receipt EXCEPT ![o] = u] ELSE receipt
    /\ xp' = IF draft[t] # None THEN [xp EXCEPT ![u] = draft[t]] ELSE xp
    /\ booked' = IF cmd[t].kind = "book" THEN booked \cup {o} ELSE booked
    /\ ReleaseAll(t)
    /\ UNCHANGED <<tombstone, auth, cmd, found, todo, answer>>

\* Erasure takes the guard without locking the receipts first.
BeginErasureGuardFirst(t) ==
    /\ pc[t] = "idle"
    /\ cmd[t].kind = "erase"
    /\ auth[cmd[t].user] = "gone"
    /\ found' = [found EXCEPT ![t] = ReceiptsOf(cmd[t].user)]
    /\ Goto(t, "lockreceipts")
    /\ UNCHANGED <<guardVars, auth, receipt, opLock, xp, booked, cmd, todo, draft, answer>>

\* Erasure keeps the receipts, or forgets the tombstone.
ErasureCommit(t, tombstoneAfter, receiptAfter) ==
    LET u == cmd[t].user IN
    /\ pc[t] = "commit"
    /\ cmd[t].kind = "erase"
    /\ tombstone' = tombstoneAfter
    /\ receipt' = receiptAfter
    /\ xp' = [xp EXCEPT ![u] = NoCounter]
    /\ booked' = {o \in booked : Recipient[EngineRequest[o]] # u}
    /\ Answering(t, "erased")
    /\ ReleaseAll(t)
    /\ UNCHANGED <<auth, cmd, found, todo>>
CommitErasureKeepsReceipts(t) == ErasureCommit(t, [tombstone EXCEPT ![cmd[t].user] = TRUE], receipt)
CommitErasureWithoutTombstone(t) ==
    ErasureCommit(t, tombstone,
                  [o \in Ops |-> IF o \in ReceiptsOf(cmd[t].user) THEN None ELSE receipt[o]])
-----------------------------------------------------------------------------
\* The account disappears at the auth service.
CloseAccount(u) == /\ auth[u] = "live"
                   /\ auth' = [auth EXCEPT ![u] = "gone"]
                   /\ UNCHANGED <<guardVars, receipt, opLock, xp, booked, cmd, pc, found, todo, draft, answer>>

\* A purchase in delivery finds the account gone and leaves the tombstone; it erases nothing.
PurchaseFindsNoAccount(u) == /\ auth[u] = "gone"
                             /\ holder[u] = None
                             /\ ~tombstone[u]
                             /\ tombstone' = [tombstone EXCEPT ![u] = TRUE]
                             /\ UNCHANGED <<holder, auth, receipt, opLock, xp, booked, cmd, pc, found, todo, draft, answer>>

BeginDelivery(t) == /\ pc[t] = "idle"
                    /\ cmd[t].kind \in {"deliver", "book"}
                    /\ Goto(t, "claim")
                    /\ UNCHANGED <<guardVars, auth, receipt, opLock, xp, booked, cmd, found, todo, draft, answer>>

\* The insert of the receipt in apply_xp.  It waits for a competing insert or delete of the
\* same id, fails on a committed row, and otherwise leaves the row locked and uncommitted.
Claim(t) == LET o == cmd[t].op IN
            /\ pc[t] = "claim"
            /\ \/ /\ receipt[o] = None
                  /\ opLock[o] = None
                  /\ opLock' = [opLock EXCEPT ![o] = t]
                  /\ Goto(t, "guard")
               \/ /\ receipt[o] # None
                  /\ ~Doomed(o)
                  /\ Goto(t, "receipt")
                  /\ UNCHANGED opLock
            /\ UNCHANGED <<guardVars, auth, receipt, xp, booked, cmd, found, todo, draft, answer>>

\* The locked read after an IntegrityError, when it finds the receipt of the same request:
\* a completed receipt is answered as it stands, before the guard is taken.
Replay(t) == LET o == cmd[t].op IN
             /\ pc[t] = "receipt"
             /\ receipt[o] = cmd[t].req
             /\ opLock[o] = None
             /\ opLock' = [opLock EXCEPT ![o] = t]
             /\ Answering(t, "replayed")
             /\ Goto(t, IF cmd[t].kind = "book" THEN "bookguard" ELSE "commit")
             /\ UNCHANGED <<guardVars, auth, receipt, xp, booked, cmd, found, todo, draft>>

\* The same read, when the row is gone (503) or holds another request (409).
Refuse(t) == LET o == cmd[t].op IN
             /\ pc[t] = "receipt"
             /\ \/ receipt[o] = None
                \/ receipt[o] # cmd[t].req /\ opLock[o] = None
             /\ Answering(t, "failed")
             /\ ReleaseAll(t)
             /\ UNCHANGED <<tombstone, auth, receipt, xp, booked, cmd, found, todo>>

\* The guard after a claim.  Under the tombstone the claim is dropped; a booking rolls back.
GuardDelivery(t) == LET u == cmd[t].user IN
                    /\ pc[t] = "guard"
                    /\ Claims(t)
                    /\ Lockable(t, u)
                    /\ IF tombstone[u]
                       THEN /\ Answering(t, "recipient_erased")
                            /\ ReleaseAll(t)
                       ELSE /\ LockUser(t, u)
                            /\ Goto(t, "status")
                            /\ UNCHANGED <<opLock, draft, answer>>
                    /\ UNCHANGED <<tombstone, auth, receipt, xp, booked, cmd, found, todo>>

\* get_user_status answers 200, the skill exists, and add_xp reads the counter under the guard.
Award(t) == LET u == cmd[t].user IN
            /\ pc[t] = "status"
            /\ auth[u] = "live"
            /\ draft' = [draft EXCEPT ![t] = [xp[u] EXCEPT ![cmd[t].op] = @ + 1]]
            /\ Answering(t, "applied")
            /\ Goto(t, "commit")
            /\ UNCHANGED <<guardVars, auth, receipt, opLock, xp, booked, cmd, found, todo>>

\* book locks the guard after apply_xp has replayed an earlier pass.
GuardBooking(t) == LET u == cmd[t].user IN
                   /\ pc[t] = "bookguard"
                   /\ Lockable(t, u)
                   /\ IF tombstone[u]
                      THEN /\ Answering(t, "failed")
                           /\ ReleaseAll(t)
                      ELSE /\ LockUser(t, u)
                           /\ Goto(t, "commit")
                           /\ UNCHANGED <<opLock, draft, answer>>
                   /\ UNCHANGED <<tombstone, auth, receipt, xp, booked, cmd, found, todo>>

\* add_xp without an operation: reported progress, a watched lecture, a solved review.
BeginProgress(t) == LET u == cmd[t].user IN
                    /\ pc[t] = "idle"
                    /\ cmd[t].kind = "progress"
                    /\ Lockable(t, u)
                    /\ IF tombstone[u]
                       THEN /\ Answering(t, "failed")
                            /\ Goto(t, "done")
                            /\ UNCHANGED <<holder, draft>>
                       ELSE /\ LockUser(t, u)
                            /\ draft' = [draft EXCEPT ![t] = [xp[u] EXCEPT ![Progress] = @ + 1]]
                            /\ Answering(t, "applied")
                            /\ Goto(t, "commit")
                    /\ UNCHANGED <<tombstone, auth, receipt, opLock, xp, booked, cmd, found, todo>>

\* The commit of a delivery, a booking or progress.  A replay commits nothing new.
CommitAward(t) == LET o == cmd[t].op  u == cmd[t].user IN
                  /\ pc[t] = "commit"
                  /\ cmd[t].kind # "erase"
                  /\ receipt' = IF Claims(t) THEN [receipt EXCEPT ![o] = cmd[t].req] ELSE receipt
                  /\ xp' = IF draft[t] # None THEN [xp EXCEPT ![u] = draft[t]] ELSE xp
                  /\ booked' = IF cmd[t].kind = "book" THEN booked \cup {o} ELSE booked
                  /\ ReleaseAll(t)
                  /\ UNCHANGED <<tombstone, auth, cmd, found, todo, answer>>
-----------------------------------------------------------------------------
\* delete_user_data, called for an account that is gone: the statement that locks the
\* receipts works on those it finds committed, in the order of their ids.
BeginErasure(t) == /\ pc[t] = "idle"
                   /\ cmd[t].kind = "erase"
                   /\ auth[cmd[t].user] = "gone"
                   /\ found' = [found EXCEPT ![t] = ReceiptsOf(cmd[t].user)]
                   /\ todo' = [todo EXCEPT ![t] = ReceiptsOf(cmd[t].user)]
                   /\ Goto(t, "lockreceipts")
                   /\ UNCHANGED <<guardVars, auth, receipt, opLock, xp, booked, cmd, draft, answer>>

LockNextReceipt(t) == LET o == Min(todo[t]) IN
                      /\ pc[t] = "lockreceipts"
                      /\ todo[t] # {}
                      /\ \/ /\ receipt[o] = None  \* another erasure removed it meanwhile
                            /\ UNCHANGED opLock
                         \/ /\ receipt[o] # None
                            /\ opLock[o] = None
                            /\ opLock' = [opLock EXCEPT ![o] = t]
                      /\ todo' = [todo EXCEPT ![t] = @ \ {o}]
                      /\ UNCHANGED <<guardVars, auth, receipt, xp, booked, cmd, found, pc, draft, answer>>

ReceiptsLocked(t) == /\ pc[t] = "lockreceipts"
                     /\ todo[t] = {}
                     /\ Goto(t, "eraseguard")
                     /\ UNCHANGED <<guardVars, auth, receipt, opLock, xp, booked, cmd, found, todo, draft, answer>>

\* The deletes reach XPOperation last.  They find every committed receipt, also those that were
\* committed after the first statement looked; under the guard no more are added.
GuardErasure(t) == /\ pc[t] = "eraseguard"
                   /\ LockUser(t, cmd[t].user)
                   /\ todo' = [todo EXCEPT ![t] = ReceiptsOf(cmd[t].user)]
                   /\ Goto(t, "delete")
                   /\ UNCHANGED <<tombstone, auth, receipt, opLock, xp, booked, cmd, found, draft, answer>>

\* The DELETE takes the rows one by one, in no order that it states.
DeleteRows(t) == /\ pc[t] = "delete"
                 /\ \/ \E o \in todo[t] : /\ opLock[o] \in {None, t}
                                         /\ opLock' = [opLock EXCEPT ![o] = t]
                                         /\ todo' = [todo EXCEPT ![t] = @ \ {o}]
                                         /\ UNCHANGED pc
                    \/ /\ todo[t] = {}
                       /\ Goto(t, "commit")
                       /\ UNCHANGED <<opLock, todo>>
                 /\ UNCHANGED <<guardVars, auth, receipt, xp, booked, cmd, found, draft, answer>>

CommitErasure(t) == LET u == cmd[t].user IN
                    /\ pc[t] = "commit"
                    /\ cmd[t].kind = "erase"
                    /\ tombstone' = [tombstone EXCEPT ![u] = TRUE]
                    /\ receipt' = [o \in Ops |-> IF o \in ReceiptsOf(u) THEN None ELSE receipt[o]]
                    /\ xp' = [xp EXCEPT ![u] = NoCounter]
                    /\ booked' = {o \in booked : Recipient[EngineRequest[o]] # u}
                    /\ Answering(t, "erased")
                    /\ ReleaseAll(t)
                    /\ UNCHANGED <<auth, cmd, found, todo>>
-----------------------------------------------------------------------------
\* An HTTP error of a lookup, any exception, a crash or the database's choice ends t
\* without effect: an uncommitted receipt disappears with its lock.
Rollback(t) == /\ Open(t)
               /\ Answering(t, "failed")
               /\ ReleaseAll(t)
               /\ UNCHANGED <<tombstone, auth, receipt, xp, booked, cmd, found, todo>>

\* The transactions whose locks keep t from its next step.
WaitsFor(t) == LET o == cmd[t].op  u == cmd[t].user IN
    ({ CASE pc[t] = "claim" /\ (receipt[o] = None \/ Doomed(o)) -> opLock[o]
         [] pc[t] = "receipt" /\ receipt[o] # None -> opLock[o]
         [] pc[t] \in {"guard", "bookguard", "eraseguard"} -> holder[u]
         [] pc[t] = "lockreceipts" /\ todo[t] # {} /\ receipt[Min(todo[t])] # None -> opLock[Min(todo[t])]
         [] OTHER -> None }
     \cup IF pc[t] = "delete" THEN {opLock[r] : r \in todo[t]} ELSE {}) \ {None, t}

Waiting == {t \in Tasks : WaitsFor(t) # {}}

\* A smallest set of transactions each of which waits for another of them.
Circular(S) == S # {} /\ \A t \in S : WaitsFor(t) \cap S # {}
Deadlocked(S) == Circular(S) /\ \A R \in SUBSET S : Circular(R) => R = S

\* The database detects the circle and rolls one of its transactions back.
DeadlockVictim(t) == /\ \E S \in SUBSET Waiting : t \in S /\ Deadlocked(S)
                     /\ Rollback(t)

Advance(t) == \/ BeginDelivery(t) \/ Claim(t) \/ Replay(t) \/ Refuse(t)
              \/ GuardDelivery(t) \/ Award(t) \/ GuardBooking(t)
              \/ BeginProgress(t) \/ CommitAward(t)
              \/ BeginErasure(t) \/ LockNextReceipt(t) \/ ReceiptsLocked(t)
              \/ GuardErasure(t) \/ DeleteRows(t) \/ CommitErasure(t)

Next == \/ \E t \in Tasks : Advance(t) \/ Rollback(t)
        \/ \E u \in Users : CloseAccount(u) \/ PurchaseFindsNoAccount(u)

Spec == Init /\ [][Next]_vars

\* A task with a free row takes it, a refused lookup raises, and a deadlock is broken.
Fairness == \A t \in Tasks : /\ WF_vars(Open(t) /\ Advance(t))
                             /\ WF_vars(pc[t] = "status" /\ auth[cmd[t].user] = "gone" /\ Rollback(t))
                             /\ WF_vars(DeadlockVictim(t))

FairSpec == Spec /\ Fairness

\* The administrators' update_xp reads a counter and commits another value for it (CommitAward), with
\* neither the guard nor a look at the tombstone.  Spec leaves it out, because nothing that is said below of
\* counters holds of SpecWithUpdates: see "Disagreements" in the README.
BeginUpdate(t) == LET u == cmd[t].user IN
                  /\ pc[t] = "idle"
                  /\ cmd[t].kind = "progress"
                  /\ draft' = [draft EXCEPT ![t] = [xp[u] EXCEPT ![Progress] = @ + 1]]
                  /\ Answering(t, "applied")
                  /\ Goto(t, "commit")
                  /\ UNCHANGED <<guardVars, auth, receipt, opLock, xp, booked, cmd, found, todo>>

SpecWithUpdates == Init /\ [][Next \/ \E t \in Tasks : BeginUpdate(t)]_vars
-----------------------------------------------------------------------------
TypeOK == /\ GuardTypeOK
          /\ auth \in [Users -> {"live", "gone"}]
          /\ receipt \in [Ops -> Requests \cup {None}]
          /\ opLock \in [Ops -> Tasks \cup {None}]
          /\ xp \in [Users -> Counter]
          /\ booked \subseteq EngineOps
          /\ cmd \in [Tasks -> Commands]
          /\ pc \in [Tasks -> Locations]
          /\ found \in [Tasks -> SUBSET Ops]
          /\ todo \in [Tasks -> SUBSET Ops]
          /\ draft \in [Tasks -> Counter \cup {None}]
          /\ answer \in [Tasks -> Answers]

\* Receipt and effect share one transaction: a counter holds the award of an operation once
\* when the operation has a receipt for that learner, and not at all otherwise, and an engine
\* task counts as awarded exactly when its operation has a receipt.
CreditedExactlyOnce ==
    /\ \A u \in Users, o \in Ops : xp[u][o] = IF o \in ReceiptsOf(u) THEN 1 ELSE 0
    /\ booked = {o \in EngineOps : receipt[o] # None}

\* An answer describes what is committed.  "Applied" and a replay mean that the receipt of
\* this very request is durable unless the account is erased; "recipient_erased" means the
\* tombstone is set; after an erasure has answered, nothing of the account is left or returns.
AnswersAreDurable ==
    \A t \in Tasks : LET u == cmd[t].user  o == cmd[t].op IN
        pc[t] = "done" =>
            /\ answer[t] \in {"applied", "replayed"} /\ o # None =>
                  receipt[o] = cmd[t].req \/ tombstone[u]
            /\ answer[t] = "recipient_erased" => tombstone[u]
            /\ answer[t] = "erased" =>
                  /\ tombstone[u]
                  /\ ReceiptsOf(u) = {}
                  /\ xp[u] = NoCounter

\* Locks are taken receipt first, guard second, and erasure locks the receipts it finds
\* before the guard.  One kind of circle is left: an erasure that deletes under the guard meets
\* another transaction with a receipt of the same learner that was committed after the erasure
\* looked for receipts.  That one is the replay of a booking, or a second erasure; it waits for
\* the guard, or for a receipt that the erasure has locked.  The comment in delete_user_data,
\* that locking the receipts first avoids the deadlock, leaves this out.
OnlyLateReceiptsDeadlock ==
    \A S \in SUBSET Waiting : Deadlocked(S) =>
        \E e, t \in S : /\ cmd[e].kind = "erase" /\ pc[e] = "delete" /\ holder[cmd[e].user] = e
                        /\ pc[t] \in {"bookguard", "lockreceipts", "eraseguard"} /\ cmd[t].user = cmd[e].user
                        /\ \E o \in ReceiptsOf(cmd[e].user) \ found[e] : opLock[o] = t

\* No transaction keeps its row locks for ever: each commits, fails, or is rolled back.
EveryTransactionEnds == \A t \in Tasks : Open(t) ~> pc[t] = "done"

\* What waits for a lock gets it, or is in the one circle that the database has to break.
TransactionsEnd == [][OnlyLateReceiptsDeadlock']_vars /\ EveryTransactionEnds

\* The transactions implement the ledger: once per operation, never under the tombstone.
Ledger == INSTANCE XPLedger WITH credits <- xp,
                                 used <- {o \in Ops : receipt[o] # None},
                                 frozen <- {u \in Users : tombstone[u]}
LedgerBehaviour == Ledger!LedgerSpec
=============================================================================
