-------------------------- MODULE XPReceiptsProofs --------------------------
(***************************************************************************)
(* Proofs about XPReceipts for any learners, tasks and operations: type    *)
(* correctness, an award is credited exactly once, what an answer says is  *)
(* durable, and the transactions implement the ledger.                     *)
(***************************************************************************)
EXTENDS XPReceipts, TLAPS

Keyed(t) == cmd[t].kind \in {"deliver", "book"}

\* Who holds the guard of a learner is past lock_user, and works for that learner.
GuardInv ==
    /\ \A u \in Users, t \in Tasks : holder[u] = t =>
          cmd[t].user = u /\ pc[t] \in {"status", "delete", "commit"}
    /\ \A t \in Tasks :
          /\ pc[t] \in {"status", "delete"} => holder[cmd[t].user] = t
          /\ pc[t] = "commit" /\ (cmd[t].kind = "erase" \/ draft[t] # None) => holder[cmd[t].user] = t

\* Each location belongs to one kind of task.
LocationInv ==
    \A t \in Tasks :
       /\ pc[t] \in {"claim", "receipt", "guard", "status", "bookguard"} => Keyed(t)
       /\ pc[t] = "bookguard" => cmd[t].kind = "book"
       /\ pc[t] \in {"lockreceipts", "eraseguard", "delete"} => cmd[t].kind = "erase"

\* A locked receipt belongs to an open transaction: the delivery of that operation, or an
\* erasure, which locks only rows that exist.
ReceiptLockInv ==
    \A o \in Ops, t \in Tasks : opLock[o] = t =>
       \/ Keyed(t) /\ cmd[t].op = o /\ pc[t] \in {"guard", "status", "bookguard", "commit"}
       \/ cmd[t].kind = "erase" /\ Open(t) /\ receipt[o] # None

\* A claim is uncommitted until its delivery commits; a replay keeps the receipt it found.
ClaimOK(t) ==
    LET o == cmd[t].op IN
    /\ pc[t] \in {"guard", "status"} => Claims(t)
    /\ pc[t] = "bookguard" => opLock[o] = t /\ receipt[o] = cmd[t].req
    /\ pc[t] = "commit" /\ Keyed(t) =>
          /\ opLock[o] = t
          /\ draft[t] # None => receipt[o] = None
          /\ draft[t] = None => receipt[o] = cmd[t].req
ClaimInv == \A t \in Tasks : ClaimOK(t)

\* A counter about to be written adds one award to the committed one, under the guard of an
\* account without a tombstone.
Source(t) == IF Keyed(t) THEN cmd[t].op ELSE Progress
DraftOK(t) ==
    LET u == cmd[t].user IN
    /\ pc[t] = "status" => ~tombstone[u]
    /\ draft[t] # None =>
          /\ pc[t] = "commit"
          /\ cmd[t].kind # "erase"
          /\ ~tombstone[u]
          /\ draft[t] = [xp[u] EXCEPT ![Source(t)] = @ + 1]
    /\ pc[t] = "commit" /\ cmd[t].kind = "progress" => draft[t] # None
DraftInv == \A t \in Tasks : DraftOK(t)

\* An erasure that deletes has locked every receipt of the account but those it has yet to come
\* to, and one about to commit has locked all of them.
ErasureOK(t) ==
    LET mine == ReceiptsOf(cmd[t].user) IN
    /\ pc[t] = "delete" => /\ todo[t] \subseteq mine
                           /\ \A o \in mine \ todo[t] : opLock[o] = t
    /\ pc[t] = "commit" /\ cmd[t].kind = "erase" => \A o \in mine : opLock[o] = t
ErasureInv == \A t \in Tasks : ErasureOK(t)

\* The receipt of an engine task is the one its terms fix.
EngineReceiptInv == \A o \in EngineOps : receipt[o] \in {None, EngineRequest[o]}

\* Only a finished transaction says that an account is erased.
AnswerInv == \A t \in Tasks : pc[t] # "done" => answer[t] \notin {"recipient_erased", "erased"}

IInv == /\ TypeOK
        /\ GuardInv
        /\ LocationInv
        /\ ReceiptLockInv
        /\ ClaimInv
        /\ DraftInv
        /\ ErasureInv
        /\ EngineReceiptInv
        /\ AnswerInv
        /\ CreditedExactlyOnce
        /\ AnswersAreDurable
-----------------------------------------------------------------------------
\* What a command says of itself: a keyed one has an operation and a request for its
\* learner, an engine task's request is the one its terms fix, the others have neither.
CommandShape ==
    \A t \in Tasks :
       /\ cmd[t].kind \in {"deliver", "book", "progress", "erase"}
       /\ cmd[t].user \in Users
       /\ Keyed(t) => /\ cmd[t].op \in Ops
                      /\ cmd[t].req \in Requests
                      /\ cmd[t].user = Recipient[cmd[t].req]
       /\ Keyed(t) /\ cmd[t].op \in EngineOps => cmd[t].req = EngineRequest[cmd[t].op]
       /\ cmd[t].kind = "book" => cmd[t].op \in EngineOps
       /\ ~Keyed(t) => cmd[t].op = None

\* Every command in hand has the shape of its kind.
LEMMA CommandsAreShaped == cmd \in [Tasks -> Commands] => CommandShape
<1> SUFFICES ASSUME cmd \in [Tasks -> Commands], NEW t \in Tasks
             PROVE  /\ cmd[t].kind \in {"deliver", "book", "progress", "erase"}
                    /\ cmd[t].user \in Users
                    /\ Keyed(t) => /\ cmd[t].op \in Ops
                                   /\ cmd[t].req \in Requests
                                   /\ cmd[t].user = Recipient[cmd[t].req]
                    /\ Keyed(t) /\ cmd[t].op \in EngineOps => cmd[t].req = EngineRequest[cmd[t].op]
                    /\ cmd[t].kind = "book" => cmd[t].op \in EngineOps
                    /\ ~Keyed(t) => cmd[t].op = None
    BY DEF CommandShape
<1> USE ConstantsOK DEF Keyed
<1>1. CASE \E o \in Ops \ EngineOps, r \in Requests : cmd[t] = Deliver(o, r)
    BY <1>1 DEF Deliver
<1>2. CASE \E o \in EngineOps : cmd[t] = Book(o)
    BY <1>2 DEF Book
<1>3. CASE cmd[t] \in [kind : {"progress", "erase"}, op : {None}, req : {None}, user : Users]
    BY <1>3
<1> QED
    BY <1>1, <1>2, <1>3 DEF Commands

\* The internal endpoint does not deliver an engine task's operation, and book nothing else.
LEMMA OnlyEngineOpsAreBooked ==
    ASSUME cmd \in [Tasks -> Commands], NEW t \in Tasks, Keyed(t)
    PROVE  cmd[t].op \in EngineOps <=> cmd[t].kind = "book"
BY ConstantsOK DEF Keyed, Commands, Deliver, Book

\* A task's claim survives a step of another task that leaves its locked receipt alone.
LEMMA ClaimFrame ==
    ASSUME NEW t \in Tasks, ClaimOK(t),
           cmd' = cmd, pc'[t] = pc[t], draft'[t] = draft[t],
           Keyed(t) /\ opLock[cmd[t].op] = t => /\ opLock'[cmd[t].op] = t
                                                /\ receipt'[cmd[t].op] = receipt[cmd[t].op],
           LocationInv
    PROVE  ClaimOK(t)'
BY DEF ClaimOK, LocationInv, Claims, Keyed

\* Adding one award to a counter gives a counter.
LEMMA OneMore == ASSUME NEW c \in Counter, NEW s
                 PROVE  [c EXCEPT ![s] = @ + 1] \in Counter
<1>1. ASSUME NEW x \in Sources
      PROVE  [c EXCEPT ![s] = @ + 1][x] \in Nat
    BY DEF Counter
<1> QED
    BY <1>1 DEF Counter

\* The counter a transaction is about to write.
LEMMA NextCount == ASSUME xp \in [Users -> Counter], CommandShape, NEW t \in Tasks, NEW s
                   PROVE  [xp[cmd[t].user] EXCEPT ![s] = @ + 1] \in Counter
<1>1. xp[cmd[t].user] \in Counter
    BY DEF CommandShape
<1> QED
    BY <1>1, OneMore

\* No counter to write is told apart from every counter.
LEMMA NoneIsNoCounter == ASSUME NEW c \in Counter
                         PROVE  c # None
BY ConstantsOK DEF Counter, Sources

\* A transaction that ends leaves well typed rows.
LEMMA ReleaseTypes == ASSUME TypeOK, NEW t \in Tasks, ReleaseAll(t)
                      PROVE  /\ opLock' \in [Ops -> Tasks \cup {None}]
                             /\ holder' \in [Users -> Tasks \cup {None}]
                             /\ draft' \in [Tasks -> Counter \cup {None}]
                             /\ pc' \in [Tasks -> Locations]
<1>1. opLock' \in [Ops -> Tasks \cup {None}]
    BY DEF TypeOK, ReleaseAll
<1>2. holder' \in [Users -> Tasks \cup {None}]
    BY DEF TypeOK, GuardTypeOK, ReleaseAll, GuardsAfter
<1>3. draft' \in [Tasks -> Counter \cup {None}] /\ pc' \in [Tasks -> Locations]
    BY DEF TypeOK, ReleaseAll, Goto, Locations
<1> QED
    BY <1>1, <1>2, <1>3

\* Every action keeps the types.
LEMMA TypeStep == TypeOK /\ [Next]_vars => TypeOK'
<1> USE ConstantsOK, NoneIsNoTask DEF TypeOK, GuardTypeOK, guardVars
<1> SUFFICES ASSUME TypeOK, [Next]_vars
             PROVE  TypeOK'
    OBVIOUS
<1>0. CommandShape
    BY CommandsAreShaped
<1> USE DEF Goto, Answering, Locations, Answers
<1>1. ASSUME NEW u \in Users, CloseAccount(u) \/ PurchaseFindsNoAccount(u)
      PROVE  TypeOK'
    BY <1>1 DEF CloseAccount, PurchaseFindsNoAccount
<1>2. ASSUME NEW t \in Tasks, BeginDelivery(t)
      PROVE  TypeOK'
    BY <1>2 DEF BeginDelivery
<1>15. ASSUME NEW t \in Tasks, Claim(t)
       PROVE  TypeOK'
    <2>1. pc' \in [Tasks -> Locations]
        BY <1>15 DEF Claim
    <2>2. opLock' \in [Ops -> Tasks \cup {None}]
        BY <1>15 DEF Claim
    <2> QED
        BY <1>15, <2>1, <2>2 DEF Claim
<1>14. ASSUME NEW t \in Tasks, Replay(t)
       PROVE  TypeOK'
    BY <1>14 DEF Replay
<1>3. ASSUME NEW t \in Tasks, Refuse(t) \/ Rollback(t)
      PROVE  TypeOK'
    <2>1. ReleaseAll(t)
        BY <1>3 DEF Refuse, Rollback
    <2>2. answer' \in [Tasks -> Answers]
        BY <1>3 DEF Refuse, Rollback
    <2> QED
        BY <1>3, <2>1, <2>2, ReleaseTypes DEF Refuse, Rollback
<1>4. ASSUME NEW t \in Tasks, GuardDelivery(t)
      PROVE  TypeOK'
    <2>1. CASE tombstone[cmd[t].user]
        <3>1. ReleaseAll(t)
            BY <1>4, <2>1 DEF GuardDelivery
        <3> QED
            BY <1>4, <2>1, <3>1, ReleaseTypes DEF GuardDelivery
    <2>2. CASE ~tombstone[cmd[t].user]
        BY <1>4, <2>2 DEF GuardDelivery, LockUser
    <2> QED
        BY <2>1, <2>2
<1>5. ASSUME NEW t \in Tasks, GuardBooking(t)
      PROVE  TypeOK'
    <2>1. CASE tombstone[cmd[t].user]
        <3>1. ReleaseAll(t)
            BY <1>5, <2>1 DEF GuardBooking
        <3> QED
            BY <1>5, <2>1, <3>1, ReleaseTypes DEF GuardBooking
    <2>2. CASE ~tombstone[cmd[t].user]
        BY <1>5, <2>2 DEF GuardBooking, LockUser
    <2> QED
        BY <2>1, <2>2
<1>6. ASSUME NEW t \in Tasks, Award(t)
      PROVE  TypeOK'
    <2>1. [xp[cmd[t].user] EXCEPT ![cmd[t].op] = @ + 1] \in Counter
        BY <1>0, NextCount
    <2> QED
        BY <1>6, <2>1 DEF Award
<1>7. ASSUME NEW t \in Tasks, BeginProgress(t)
      PROVE  TypeOK'
    <2>1. [xp[cmd[t].user] EXCEPT ![Progress] = @ + 1] \in Counter
        BY <1>0, NextCount
    <2>2. CASE tombstone[cmd[t].user]
        BY <1>7, <2>2 DEF BeginProgress
    <2>3. CASE ~tombstone[cmd[t].user]
        BY <1>7, <2>1, <2>3 DEF BeginProgress, LockUser
    <2> QED
        BY <2>2, <2>3
<1>8. ASSUME NEW t \in Tasks, CommitAward(t)
      PROVE  TypeOK'
    <2>1. Claims(t) => cmd[t].req \in Requests
        BY <1>0 DEF CommandShape, Claims, Keyed
    <2>2. cmd[t].kind = "book" => cmd[t].op \in EngineOps
        BY <1>0 DEF CommandShape
    <2> QED
        BY <1>8, <2>1, <2>2, ReleaseTypes DEF CommitAward
<1>9. ASSUME NEW t \in Tasks, ReceiptsLocked(t) \/ GuardErasure(t)
      PROVE  TypeOK'
    <2>1. CASE ReceiptsLocked(t)
        BY <2>1 DEF ReceiptsLocked
    <2>2. CASE GuardErasure(t)
        <3>1. ReceiptsOf(cmd[t].user) \in SUBSET Ops
            BY DEF ReceiptsOf
        <3> QED
            BY <2>2, <3>1 DEF GuardErasure, LockUser
    <2> QED
        BY <1>9, <2>1, <2>2
<1>16. ASSUME NEW t \in Tasks, BeginErasure(t)
       PROVE  TypeOK'
    <2>1. ReceiptsOf(cmd[t].user) \in SUBSET Ops
        BY DEF ReceiptsOf
    <2> QED
        BY <1>16, <2>1 DEF BeginErasure
<1>10. ASSUME NEW t \in Tasks, LockNextReceipt(t)
       PROVE  TypeOK'
    <2>1. CASE UNCHANGED opLock
        BY <1>10, <2>1 DEF LockNextReceipt
    <2>2. CASE opLock' = [opLock EXCEPT ![Min(todo[t])] = t]
        BY <1>10, <2>2 DEF LockNextReceipt
    <2> QED
        BY <1>10, <2>1, <2>2 DEF LockNextReceipt
<1>11. ASSUME NEW t \in Tasks, DeleteRows(t)
       PROVE  TypeOK'
    BY <1>11 DEF DeleteRows
<1>12. ASSUME NEW t \in Tasks, CommitErasure(t)
       PROVE  TypeOK'
    <2>1. NoCounter \in Counter
        BY DEF NoCounter, Counter
    <2>2. receipt' \in [Ops -> Requests \cup {None}] /\ booked' \subseteq EngineOps
        BY <1>12 DEF CommitErasure
    <2> QED
        BY <1>12, <2>1, <2>2, ReleaseTypes DEF CommitErasure
<1>13. CASE UNCHANGED vars
    BY <1>13 DEF vars
<1> QED
    BY <1>1, <1>2, <1>3, <1>4, <1>5, <1>6, <1>7, <1>8, <1>9, <1>10, <1>11, <1>12, <1>13, <1>14, <1>15, <1>16
    DEF Next, Advance

\* Every variable keeps its type, a counter its points.
THEOREM TypeCorrect == Spec => []TypeOK
<1>1. Init => TypeOK
    BY ConstantsOK DEF Init, GuardInit, TypeOK, GuardTypeOK, NoCounter, Counter, Locations, Answers
<1> QED
    BY <1>1, TypeStep, PTL DEF Spec

\* What computing an award leaves alone: the other transactions.
LEMMA AwardOthers == ASSUME TypeOK, NEW s \in Tasks, NEW t \in Tasks, t # s, Award(s)
                     PROVE  draft'[t] = draft[t] /\ pc'[t] = pc[t]
<1>1. pc'[t] = pc[t]
    BY DEF TypeOK, Award, Goto
<1>2. draft \in [Tasks -> Counter \cup {None}]
    BY DEF TypeOK
<1>3. draft' = [draft EXCEPT ![s] = draft'[s]]
    BY <1>2 DEF Award
<1> QED
    BY <1>1, <1>2, <1>3

\* The award of a transaction adds one to the counter it read.
LEMMA AwardDraft == ASSUME TypeOK, NEW s \in Tasks, Award(s)
                    PROVE  /\ draft'[s] = [xp[cmd[s].user] EXCEPT ![cmd[s].op] = @ + 1]
                            /\ pc'[s] = "commit"
BY DEF TypeOK, Award, Goto

\* Progress under the guard: where its transaction is, and what it leaves alone.
LEMMA ProgressEffect == ASSUME TypeOK, NEW s \in Tasks, BeginProgress(s), ~tombstone[cmd[s].user]
                        PROVE  /\ pc[s] = "idle" /\ pc' = [pc EXCEPT ![s] = "commit"]
                               /\ cmd[s].kind = "progress" /\ cmd' = cmd
                               /\ holder[cmd[s].user] \in {None, s}
                               /\ holder' = [holder EXCEPT ![cmd[s].user] = s]
                               /\ \A t \in Tasks \ {s} : draft'[t] = draft[t]
<1>1. draft \in [Tasks -> Counter \cup {None}]
    BY DEF TypeOK
<1>2. draft' = [draft EXCEPT ![s] = draft'[s]]
    BY <1>1 DEF BeginProgress
<1>3. \A t \in Tasks \ {s} : draft'[t] = draft[t]
    BY <1>1, <1>2
<1> QED
    BY <1>3 DEF BeginProgress, LockUser, Lockable, Goto

\* The guard is held by the task that is past lock_user, and by nobody else.
LEMMA GuardStep == IInv /\ [Next]_vars => GuardInv'
<1> SUFFICES ASSUME IInv, [Next]_vars
             PROVE  GuardInv'
    OBVIOUS
<1>typed. TypeOK
    BY DEF IInv
<1> USE ConstantsOK, NoneIsNoTask DEF IInv, TypeOK, GuardTypeOK, guardVars, Goto, Answering, GuardInv,
       LocationInv, DraftInv, DraftOK, Keyed
<1>0. CommandShape
    BY CommandsAreShaped
<1>1. ASSUME NEW v \in Users, CloseAccount(v) \/ PurchaseFindsNoAccount(v)
      PROVE  GuardInv'
    BY <1>1 DEF CloseAccount, PurchaseFindsNoAccount
<1>2. ASSUME NEW s \in Tasks, BeginDelivery(s)
      PROVE  GuardInv'
    BY <1>0, <1>2 DEF CommandShape, BeginDelivery
<1>3. ASSUME NEW s \in Tasks, Claim(s)
      PROVE  GuardInv'
    BY <1>0, <1>3 DEF CommandShape, Claim
<1>4. ASSUME NEW s \in Tasks, Replay(s)
      PROVE  GuardInv'
    BY <1>0, <1>4 DEF CommandShape, Replay
<1>5. ASSUME NEW s \in Tasks, Refuse(s)
      PROVE  GuardInv'
    BY <1>0, <1>5 DEF CommandShape, Refuse, ReleaseAll, GuardsAfter
<1>6. ASSUME NEW s \in Tasks, GuardDelivery(s)
      PROVE  GuardInv'
    BY <1>0, <1>6 DEF CommandShape, GuardDelivery, LockUser, Lockable, ReleaseAll, GuardsAfter
<1>7. ASSUME NEW s \in Tasks, Award(s)
      PROVE  GuardInv'
    BY <1>0, <1>7 DEF CommandShape, Award
<1>8. ASSUME NEW s \in Tasks, GuardBooking(s)
      PROVE  GuardInv'
    <2>1. CASE tombstone[cmd[s].user]
        BY <1>0, <1>8, <2>1 DEF CommandShape, GuardBooking, ReleaseAll, GuardsAfter
    <2>2. CASE ~tombstone[cmd[s].user]
        BY <1>0, <1>8, <2>2 DEF CommandShape, GuardBooking, LockUser, Lockable
    <2> QED
        BY <2>1, <2>2
<1>9. ASSUME NEW s \in Tasks, BeginProgress(s)
      PROVE  GuardInv'
    <2>1. CASE tombstone[cmd[s].user]
        BY <1>0, <1>9, <2>1 DEF CommandShape, BeginProgress
    <2>2. CASE ~tombstone[cmd[s].user]
        <3>1. /\ pc[s] = "idle" /\ pc' = [pc EXCEPT ![s] = "commit"]
              /\ cmd[s].kind = "progress" /\ cmd' = cmd
              /\ holder[cmd[s].user] \in {None, s}
              /\ holder' = [holder EXCEPT ![cmd[s].user] = s]
              /\ \A t \in Tasks \ {s} : draft'[t] = draft[t]
            BY <1>9, <2>2, ProgressEffect, <1>typed
        <3> HIDE <1>9
        <3>2. (\A u \in Users, t \in Tasks : holder[u] = t =>
                  cmd[t].user = u /\ pc[t] \in {"status", "delete", "commit"})'
            BY <3>1
        <3>3. ASSUME NEW t \in Tasks
              PROVE  (/\ pc[t] \in {"status", "delete"} => holder[cmd[t].user] = t
                      /\ pc[t] = "commit" /\ (cmd[t].kind = "erase" \/ draft[t] # None)
                            => holder[cmd[t].user] = t)'
            <4>1. CASE t = s
                BY <1>0, <3>1, <4>1 DEF CommandShape
            <4>2. CASE t # s
                BY <1>0, <3>1, <4>2 DEF CommandShape
            <4> QED
                BY <4>1, <4>2
        <3> QED
            BY <3>2, <3>3
    <2> QED
        BY <2>1, <2>2
<1>10. ASSUME NEW s \in Tasks, CommitAward(s)
      PROVE  GuardInv'
    BY <1>0, <1>10 DEF CommandShape, CommitAward, ReleaseAll, GuardsAfter
<1>11. ASSUME NEW s \in Tasks, BeginErasure(s)
      PROVE  GuardInv'
    BY <1>0, <1>11 DEF CommandShape, BeginErasure
<1>12. ASSUME NEW s \in Tasks, LockNextReceipt(s)
      PROVE  GuardInv'
    BY <1>0, <1>12 DEF CommandShape, LockNextReceipt
<1>13. ASSUME NEW s \in Tasks, ReceiptsLocked(s)
      PROVE  GuardInv'
    BY <1>0, <1>13 DEF CommandShape, ReceiptsLocked
<1>14. ASSUME NEW s \in Tasks, GuardErasure(s)
      PROVE  GuardInv'
    BY <1>0, <1>14 DEF CommandShape, GuardErasure, LockUser, Lockable
<1>15. ASSUME NEW s \in Tasks, DeleteRows(s)
      PROVE  GuardInv'
    BY <1>0, <1>15 DEF CommandShape, DeleteRows
<1>16. ASSUME NEW s \in Tasks, CommitErasure(s)
      PROVE  GuardInv'
    BY <1>0, <1>16 DEF CommandShape, CommitErasure, ReleaseAll, GuardsAfter
<1>17. ASSUME NEW s \in Tasks, Rollback(s)
      PROVE  GuardInv'
    BY <1>0, <1>17 DEF CommandShape, Rollback, ReleaseAll, GuardsAfter
<1>18. CASE UNCHANGED vars
    BY <1>18 DEF vars
<1> QED
    BY <1>1, <1>2, <1>3, <1>4, <1>5, <1>6, <1>7, <1>8, <1>9, <1>10, <1>11, <1>12, <1>13, <1>14, <1>15, <1>16,
       <1>17, <1>18
    DEF Next, Advance

\* A task stays on the path of its kind.
LEMMA LocationStep == IInv /\ [Next]_vars => LocationInv'
<1> SUFFICES ASSUME IInv, [Next]_vars
             PROVE  LocationInv'
    OBVIOUS
<1> USE ConstantsOK, NoneIsNoTask DEF IInv, TypeOK, GuardTypeOK, guardVars, Goto, Answering, LocationInv, Keyed
<1>0. CommandShape
    BY CommandsAreShaped
<1>1. ASSUME NEW v \in Users, CloseAccount(v) \/ PurchaseFindsNoAccount(v)
      PROVE  LocationInv'
    BY <1>1 DEF CloseAccount, PurchaseFindsNoAccount
<1>2. ASSUME NEW s \in Tasks, BeginDelivery(s)
      PROVE  LocationInv'
    BY <1>0, <1>2 DEF CommandShape, BeginDelivery
<1>3. ASSUME NEW s \in Tasks, Claim(s)
      PROVE  LocationInv'
    BY <1>0, <1>3 DEF CommandShape, Claim
<1>4. ASSUME NEW s \in Tasks, Replay(s)
      PROVE  LocationInv'
    BY <1>0, <1>4 DEF CommandShape, Replay
<1>5. ASSUME NEW s \in Tasks, Refuse(s)
      PROVE  LocationInv'
    BY <1>0, <1>5 DEF CommandShape, Refuse, ReleaseAll, GuardsAfter
<1>6. ASSUME NEW s \in Tasks, GuardDelivery(s)
      PROVE  LocationInv'
    BY <1>0, <1>6 DEF CommandShape, GuardDelivery, LockUser, Lockable, ReleaseAll, GuardsAfter
<1>7. ASSUME NEW s \in Tasks, Award(s)
      PROVE  LocationInv'
    BY <1>0, <1>7 DEF CommandShape, Award
<1>8. ASSUME NEW s \in Tasks, GuardBooking(s)
      PROVE  LocationInv'
    BY <1>0, <1>8 DEF CommandShape, GuardBooking, LockUser, Lockable, ReleaseAll, GuardsAfter
<1>9. ASSUME NEW s \in Tasks, BeginProgress(s)
      PROVE  LocationInv'
    BY <1>0, <1>9 DEF CommandShape, BeginProgress, LockUser, Lockable
<1>10. ASSUME NEW s \in Tasks, CommitAward(s)
      PROVE  LocationInv'
    BY <1>0, <1>10 DEF CommandShape, CommitAward, ReleaseAll, GuardsAfter
<1>11. ASSUME NEW s \in Tasks, BeginErasure(s)
      PROVE  LocationInv'
    BY <1>0, <1>11 DEF CommandShape, BeginErasure
<1>12. ASSUME NEW s \in Tasks, LockNextReceipt(s)
      PROVE  LocationInv'
    BY <1>0, <1>12 DEF CommandShape, LockNextReceipt
<1>13. ASSUME NEW s \in Tasks, ReceiptsLocked(s)
      PROVE  LocationInv'
    BY <1>0, <1>13 DEF CommandShape, ReceiptsLocked
<1>14. ASSUME NEW s \in Tasks, GuardErasure(s)
      PROVE  LocationInv'
    BY <1>0, <1>14 DEF CommandShape, GuardErasure, LockUser, Lockable
<1>15. ASSUME NEW s \in Tasks, DeleteRows(s)
      PROVE  LocationInv'
    BY <1>0, <1>15 DEF CommandShape, DeleteRows
<1>16. ASSUME NEW s \in Tasks, CommitErasure(s)
      PROVE  LocationInv'
    BY <1>0, <1>16 DEF CommandShape, CommitErasure, ReleaseAll, GuardsAfter
<1>17. ASSUME NEW s \in Tasks, Rollback(s)
      PROVE  LocationInv'
    BY <1>0, <1>17 DEF CommandShape, Rollback, ReleaseAll, GuardsAfter
<1>18. CASE UNCHANGED vars
    BY <1>18 DEF vars
<1> QED
    BY <1>1, <1>2, <1>3, <1>4, <1>5, <1>6, <1>7, <1>8, <1>9, <1>10, <1>11, <1>12, <1>13, <1>14, <1>15, <1>16,
       <1>17, <1>18
    DEF Next, Advance

\* A locked receipt belongs to its delivery or to an erasure.
LEMMA ReceiptLockStep == IInv /\ [Next]_vars => ReceiptLockInv'
<1> SUFFICES ASSUME IInv, [Next]_vars
             PROVE  ReceiptLockInv'
    OBVIOUS
<1> USE ConstantsOK, NoneIsNoTask DEF IInv, TypeOK, GuardTypeOK, guardVars, Goto, Answering, LocationInv,
       ReceiptLockInv, ClaimInv, ClaimOK, DraftInv, DraftOK, ErasureInv, ErasureOK, Keyed, Open, Claims,
       ReceiptsOf
<1>0. CommandShape
    BY CommandsAreShaped
<1>1. ASSUME NEW v \in Users, CloseAccount(v) \/ PurchaseFindsNoAccount(v)
      PROVE  ReceiptLockInv'
    BY <1>1 DEF CloseAccount, PurchaseFindsNoAccount
<1>2. ASSUME NEW s \in Tasks, BeginDelivery(s)
      PROVE  ReceiptLockInv'
    BY <1>0, <1>2 DEF CommandShape, BeginDelivery
<1>3. ASSUME NEW s \in Tasks, Claim(s)
      PROVE  ReceiptLockInv'
    BY <1>0, <1>3 DEF CommandShape, Claim
<1>4. ASSUME NEW s \in Tasks, Replay(s)
      PROVE  ReceiptLockInv'
    <2> SUFFICES ASSUME NEW o \in Ops, NEW t \in Tasks, opLock'[o] = t
                 PROVE  (\/ Keyed(t) /\ cmd[t].op = o /\ pc[t] \in {"guard", "status", "bookguard", "commit"}
                         \/ cmd[t].kind = "erase" /\ Open(t) /\ receipt[o] # None)'
        OBVIOUS
    <2>1. CASE o = cmd[s].op
        BY <1>0, <1>4, <2>1 DEF CommandShape, Replay
    <2>2. CASE o # cmd[s].op
        BY <1>0, <1>4, <2>2 DEF CommandShape, Replay
    <2> QED
        BY <2>1, <2>2
<1>5. ASSUME NEW s \in Tasks, Refuse(s)
      PROVE  ReceiptLockInv'
    BY <1>0, <1>5 DEF CommandShape, Refuse, ReleaseAll, GuardsAfter
<1>6. ASSUME NEW s \in Tasks, GuardDelivery(s)
      PROVE  ReceiptLockInv'
    BY <1>0, <1>6 DEF CommandShape, GuardDelivery, LockUser, Lockable, ReleaseAll, GuardsAfter
<1>7. ASSUME NEW s \in Tasks, Award(s)
      PROVE  ReceiptLockInv'
    BY <1>0, <1>7 DEF CommandShape, Award
<1>8. ASSUME NEW s \in Tasks, GuardBooking(s)
      PROVE  ReceiptLockInv'
    BY <1>0, <1>8 DEF CommandShape, GuardBooking, LockUser, Lockable, ReleaseAll, GuardsAfter
<1>9. ASSUME NEW s \in Tasks, BeginProgress(s)
      PROVE  ReceiptLockInv'
    BY <1>0, <1>9 DEF CommandShape, BeginProgress, LockUser, Lockable
<1>10. ASSUME NEW s \in Tasks, CommitAward(s)
      PROVE  ReceiptLockInv'
    BY <1>0, <1>10 DEF CommandShape, CommitAward, ReleaseAll, GuardsAfter
<1>11. ASSUME NEW s \in Tasks, BeginErasure(s)
      PROVE  ReceiptLockInv'
    BY <1>0, <1>11 DEF CommandShape, BeginErasure
<1>12. ASSUME NEW s \in Tasks, LockNextReceipt(s)
      PROVE  ReceiptLockInv'
    BY <1>0, <1>12 DEF CommandShape, LockNextReceipt
<1>13. ASSUME NEW s \in Tasks, ReceiptsLocked(s)
      PROVE  ReceiptLockInv'
    BY <1>0, <1>13 DEF CommandShape, ReceiptsLocked
<1>14. ASSUME NEW s \in Tasks, GuardErasure(s)
      PROVE  ReceiptLockInv'
    BY <1>0, <1>14 DEF CommandShape, GuardErasure, LockUser, Lockable
<1>15. ASSUME NEW s \in Tasks, DeleteRows(s)
      PROVE  ReceiptLockInv'
    <2> SUFFICES ASSUME NEW o \in Ops, NEW t \in Tasks, opLock'[o] = t
                 PROVE  (\/ Keyed(t) /\ cmd[t].op = o /\ pc[t] \in {"guard", "status", "bookguard", "commit"}
                         \/ cmd[t].kind = "erase" /\ Open(t) /\ receipt[o] # None)'
        OBVIOUS
    <2>1. CASE o \in ReceiptsOf(cmd[s].user)
        BY <1>0, <1>15, <2>1 DEF CommandShape, DeleteRows
    <2>2. CASE o \notin ReceiptsOf(cmd[s].user)
        BY <1>0, <1>15, <2>2 DEF CommandShape, DeleteRows
    <2> QED
        BY <2>1, <2>2
<1>16. ASSUME NEW s \in Tasks, CommitErasure(s)
      PROVE  ReceiptLockInv'
    BY <1>0, <1>16 DEF CommandShape, CommitErasure, ReleaseAll, GuardsAfter
<1>17. ASSUME NEW s \in Tasks, Rollback(s)
      PROVE  ReceiptLockInv'
    BY <1>0, <1>17 DEF CommandShape, Rollback, ReleaseAll, GuardsAfter
<1>18. CASE UNCHANGED vars
    BY <1>18 DEF vars
<1> QED
    BY <1>1, <1>2, <1>3, <1>4, <1>5, <1>6, <1>7, <1>8, <1>9, <1>10, <1>11, <1>12, <1>13, <1>14, <1>15, <1>16,
       <1>17, <1>18
    DEF Next, Advance

\* Nobody but its delivery decides what becomes of a claim.
LEMMA ClaimStep == IInv /\ [Next]_vars => ClaimInv'
<1> SUFFICES ASSUME IInv, [Next]_vars
             PROVE  ClaimInv'
    OBVIOUS
<1> USE ConstantsOK, NoneIsNoTask DEF IInv, TypeOK, GuardTypeOK, guardVars, Goto, Answering, LocationInv,
       ReceiptLockInv, ClaimInv, ClaimOK, DraftInv, DraftOK, ErasureInv, ErasureOK, Keyed, Open, Claims,
       ReceiptsOf
<1>0. CommandShape
    BY CommandsAreShaped
<1>1. ASSUME NEW v \in Users, CloseAccount(v) \/ PurchaseFindsNoAccount(v)
      PROVE  ClaimInv'
    BY <1>1 DEF CloseAccount, PurchaseFindsNoAccount
<1>2. ASSUME NEW s \in Tasks, BeginDelivery(s)
      PROVE  ClaimInv'
    BY <1>0, <1>2 DEF CommandShape, BeginDelivery
<1>3. ASSUME NEW s \in Tasks, Claim(s)
      PROVE  ClaimInv'
    <2> SUFFICES ASSUME NEW t \in Tasks
                 PROVE  ClaimOK(t)'
        OBVIOUS
    <2>1. CASE t = s
        BY <1>0, <1>3, <2>1 DEF CommandShape, Claim
    <2>2. CASE t # s
        <3>1. ASSUME Keyed(t), opLock[cmd[t].op] = t
              PROVE  opLock'[cmd[t].op] = t /\ receipt'[cmd[t].op] = receipt[cmd[t].op]
            BY <1>0, <1>3, <2>2, <3>1 DEF CommandShape, Claim
        <3>2. cmd' = cmd /\ pc'[t] = pc[t] /\ draft'[t] = draft[t]
            BY <1>3, <2>2 DEF Claim
        <3> QED
            BY <3>1, <3>2, ClaimFrame
    <2> QED
        BY <2>1, <2>2
<1>4. ASSUME NEW s \in Tasks, Replay(s)
      PROVE  ClaimInv'
    <2> SUFFICES ASSUME NEW t \in Tasks
                 PROVE  ClaimOK(t)'
        OBVIOUS
    <2>1. CASE t = s
        BY <1>0, <1>4, <2>1 DEF CommandShape, Replay
    <2>2. CASE t # s
        <3>1. ASSUME Keyed(t), opLock[cmd[t].op] = t
              PROVE  opLock'[cmd[t].op] = t /\ receipt'[cmd[t].op] = receipt[cmd[t].op]
            BY <1>0, <1>4, <2>2, <3>1 DEF CommandShape, Replay
        <3>2. cmd' = cmd /\ pc'[t] = pc[t] /\ draft'[t] = draft[t]
            BY <1>4, <2>2 DEF Replay
        <3> QED
            BY <3>1, <3>2, ClaimFrame
    <2> QED
        BY <2>1, <2>2
<1>5. ASSUME NEW s \in Tasks, Refuse(s)
      PROVE  ClaimInv'
    BY <1>0, <1>5 DEF CommandShape, Refuse, ReleaseAll, GuardsAfter
<1>6. ASSUME NEW s \in Tasks, GuardDelivery(s)
      PROVE  ClaimInv'
    <2> SUFFICES ASSUME NEW t \in Tasks
                 PROVE  ClaimOK(t)'
        OBVIOUS
    <2>1. CASE t = s
        BY <1>0, <1>6, <2>1 DEF CommandShape, GuardDelivery, LockUser, Lockable, ReleaseAll, GuardsAfter
    <2>2. CASE t # s
        <3>1. ASSUME Keyed(t), opLock[cmd[t].op] = t
              PROVE  opLock'[cmd[t].op] = t /\ receipt'[cmd[t].op] = receipt[cmd[t].op]
            <4>1. CASE tombstone[cmd[s].user]
                <5>1. opLock' = [o \in Ops |-> IF opLock[o] = s THEN None ELSE opLock[o]] /\ receipt' = receipt
                    BY <1>6, <4>1 DEF GuardDelivery, ReleaseAll
                <5>2. cmd[t].op \in Ops
                    BY <1>0, <3>1 DEF CommandShape
                <5> QED
                    BY <2>2, <3>1, <5>1, <5>2
            <4>2. CASE ~tombstone[cmd[s].user]
                BY <1>6, <3>1, <4>2 DEF GuardDelivery
            <4> QED
                BY <4>1, <4>2
        <3>2. cmd' = cmd /\ pc'[t] = pc[t] /\ draft'[t] = draft[t]
            BY <1>6, <2>2 DEF GuardDelivery, LockUser, Lockable, ReleaseAll, GuardsAfter
        <3> QED
            BY <3>1, <3>2, ClaimFrame
    <2> QED
        BY <2>1, <2>2
<1>7. ASSUME NEW s \in Tasks, Award(s)
      PROVE  ClaimInv'
    <2> SUFFICES ASSUME NEW t \in Tasks
                 PROVE  ClaimOK(t)'
        OBVIOUS
    <2>1. CASE t = s
        <3>1. [xp[cmd[s].user] EXCEPT ![cmd[s].op] = @ + 1] # None
            <4>1. [xp[cmd[s].user] EXCEPT ![cmd[s].op] = @ + 1] \in Counter
                BY <1>0, NextCount
            <4> QED
                BY <4>1, NoneIsNoCounter
        <3> QED
            BY <1>0, <1>7, <2>1, <3>1 DEF CommandShape, Award
    <2>2. CASE t # s
        <3>1. ASSUME Keyed(t), opLock[cmd[t].op] = t
              PROVE  opLock'[cmd[t].op] = t /\ receipt'[cmd[t].op] = receipt[cmd[t].op]
            BY <1>0, <1>7, <2>2, <3>1 DEF CommandShape, Award
        <3>2. cmd' = cmd /\ pc'[t] = pc[t] /\ draft'[t] = draft[t]
            BY <1>7, <2>2 DEF Award
        <3> QED
            BY <3>1, <3>2, ClaimFrame
    <2> QED
        BY <2>1, <2>2
<1>8. ASSUME NEW s \in Tasks, GuardBooking(s)
      PROVE  ClaimInv'
    <2> SUFFICES ASSUME NEW t \in Tasks
                 PROVE  ClaimOK(t)'
        OBVIOUS
    <2>1. CASE t = s
        BY <1>0, <1>8, <2>1 DEF CommandShape, GuardBooking, LockUser, Lockable, ReleaseAll, GuardsAfter
    <2>2. CASE t # s
        <3>1. ASSUME Keyed(t), opLock[cmd[t].op] = t
              PROVE  opLock'[cmd[t].op] = t /\ receipt'[cmd[t].op] = receipt[cmd[t].op]
            <4>1. CASE tombstone[cmd[s].user]
                <5>1. opLock' = [o \in Ops |-> IF opLock[o] = s THEN None ELSE opLock[o]] /\ receipt' = receipt
                    BY <1>8, <4>1 DEF GuardBooking, ReleaseAll
                <5>2. cmd[t].op \in Ops
                    BY <1>0, <3>1 DEF CommandShape
                <5> QED
                    BY <2>2, <3>1, <5>1, <5>2
            <4>2. CASE ~tombstone[cmd[s].user]
                BY <1>8, <3>1, <4>2 DEF GuardBooking
            <4> QED
                BY <4>1, <4>2
        <3>2. cmd' = cmd /\ pc'[t] = pc[t] /\ draft'[t] = draft[t]
            BY <1>8, <2>2 DEF GuardBooking, LockUser, Lockable, ReleaseAll, GuardsAfter
        <3> QED
            BY <3>1, <3>2, ClaimFrame
    <2> QED
        BY <2>1, <2>2
<1>9. ASSUME NEW s \in Tasks, BeginProgress(s)
      PROVE  ClaimInv'
    BY <1>0, <1>9 DEF CommandShape, BeginProgress, LockUser, Lockable
<1>10. ASSUME NEW s \in Tasks, CommitAward(s)
      PROVE  ClaimInv'
    <2> SUFFICES ASSUME NEW t \in Tasks
                 PROVE  ClaimOK(t)'
        OBVIOUS
    <2>1. CASE t = s
        BY <1>0, <1>10, <2>1 DEF CommandShape, CommitAward, ReleaseAll, GuardsAfter
    <2>2. CASE t # s
        <3>1. ASSUME Keyed(t), opLock[cmd[t].op] = t
              PROVE  opLock'[cmd[t].op] = t /\ receipt'[cmd[t].op] = receipt[cmd[t].op]
            BY <1>0, <1>10, <2>2, <3>1 DEF CommandShape, CommitAward, ReleaseAll, GuardsAfter
        <3>2. cmd' = cmd /\ pc'[t] = pc[t] /\ draft'[t] = draft[t]
            BY <1>10, <2>2 DEF CommitAward, ReleaseAll, GuardsAfter
        <3> QED
            BY <3>1, <3>2, ClaimFrame
    <2> QED
        BY <2>1, <2>2
<1>11. ASSUME NEW s \in Tasks, BeginErasure(s)
      PROVE  ClaimInv'
    BY <1>0, <1>11 DEF CommandShape, BeginErasure
<1>12. ASSUME NEW s \in Tasks, LockNextReceipt(s)
      PROVE  ClaimInv'
    <2> SUFFICES ASSUME NEW t \in Tasks
                 PROVE  ClaimOK(t)'
        OBVIOUS
    <2>1. CASE t = s
        BY <1>0, <1>12, <2>1 DEF CommandShape, LockNextReceipt
    <2>2. CASE t # s
        <3>1. ASSUME Keyed(t), opLock[cmd[t].op] = t
              PROVE  opLock'[cmd[t].op] = t /\ receipt'[cmd[t].op] = receipt[cmd[t].op]
            BY <1>0, <1>12, <2>2, <3>1 DEF CommandShape, LockNextReceipt
        <3>2. cmd' = cmd /\ pc'[t] = pc[t] /\ draft'[t] = draft[t]
            BY <1>12, <2>2 DEF LockNextReceipt
        <3> QED
            BY <3>1, <3>2, ClaimFrame
    <2> QED
        BY <2>1, <2>2
<1>13. ASSUME NEW s \in Tasks, ReceiptsLocked(s)
      PROVE  ClaimInv'
    BY <1>0, <1>13 DEF CommandShape, ReceiptsLocked
<1>14. ASSUME NEW s \in Tasks, GuardErasure(s)
      PROVE  ClaimInv'
    BY <1>0, <1>14 DEF CommandShape, GuardErasure, LockUser, Lockable
<1>15. ASSUME NEW s \in Tasks, DeleteRows(s)
      PROVE  ClaimInv'
    <2> SUFFICES ASSUME NEW t \in Tasks
                 PROVE  ClaimOK(t)'
        OBVIOUS
    <2>1. CASE t = s
        BY <1>0, <1>15, <2>1 DEF CommandShape, DeleteRows
    <2>2. CASE t # s
        <3>1. ASSUME Keyed(t), opLock[cmd[t].op] = t
              PROVE  opLock'[cmd[t].op] = t /\ receipt'[cmd[t].op] = receipt[cmd[t].op]
            <4>1. opLock' = opLock \/ \E o \in Ops : opLock[o] \in {None, s} /\ opLock' = [opLock EXCEPT ![o] = s]
                BY <1>15 DEF DeleteRows
            <4>2. cmd[t].op \in Ops /\ t # None
                BY <1>0, <3>1 DEF CommandShape
            <4>3. opLock'[cmd[t].op] = t
                BY <2>2, <3>1, <4>1, <4>2
            <4> QED
                BY <1>15, <4>3 DEF DeleteRows
        <3>2. cmd' = cmd /\ pc'[t] = pc[t] /\ draft'[t] = draft[t]
            BY <1>15, <2>2 DEF DeleteRows
        <3> QED
            BY <3>1, <3>2, ClaimFrame
    <2> QED
        BY <2>1, <2>2
<1>16. ASSUME NEW s \in Tasks, CommitErasure(s)
      PROVE  ClaimInv'
    <2> SUFFICES ASSUME NEW t \in Tasks
                 PROVE  ClaimOK(t)'
        OBVIOUS
    <2>1. CASE t = s
        BY <1>0, <1>16, <2>1 DEF CommandShape, CommitErasure, ReleaseAll, GuardsAfter
    <2>2. CASE t # s
        <3>1. ASSUME Keyed(t), opLock[cmd[t].op] = t
              PROVE  opLock'[cmd[t].op] = t /\ receipt'[cmd[t].op] = receipt[cmd[t].op]
            <4>1. cmd[t].op \notin ReceiptsOf(cmd[s].user)
                BY <1>0, <1>16, <2>2, <3>1 DEF CommandShape, CommitErasure
            <4> QED
                BY <1>0, <1>16, <2>2, <3>1, <4>1 DEF CommandShape, CommitErasure, ReleaseAll
        <3>2. cmd' = cmd /\ pc'[t] = pc[t] /\ draft'[t] = draft[t]
            BY <1>16, <2>2 DEF CommitErasure, ReleaseAll, GuardsAfter
        <3> QED
            BY <3>1, <3>2, ClaimFrame
    <2> QED
        BY <2>1, <2>2
<1>17. ASSUME NEW s \in Tasks, Rollback(s)
      PROVE  ClaimInv'
    BY <1>0, <1>17 DEF CommandShape, Rollback, ReleaseAll, GuardsAfter
<1>18. CASE UNCHANGED vars
    BY <1>18 DEF vars
<1> QED
    BY <1>1, <1>2, <1>3, <1>4, <1>5, <1>6, <1>7, <1>8, <1>9, <1>10, <1>11, <1>12, <1>13, <1>14, <1>15, <1>16,
       <1>17, <1>18
    DEF Next, Advance

\* Nobody else writes a counter between its read and its write.
LEMMA DraftStep == IInv /\ [Next]_vars => DraftInv'
<1> SUFFICES ASSUME IInv, [Next]_vars
             PROVE  DraftInv'
    OBVIOUS
<1>typed. TypeOK
    BY DEF IInv
<1> USE ConstantsOK, NoneIsNoTask DEF IInv, TypeOK, GuardTypeOK, guardVars, Goto, Answering, GuardInv,
       LocationInv, ClaimInv, ClaimOK, DraftInv, DraftOK, Source, Keyed
<1>0. CommandShape
    BY CommandsAreShaped
<1>1. ASSUME NEW v \in Users, CloseAccount(v) \/ PurchaseFindsNoAccount(v)
      PROVE  DraftInv'
    <2>1. CASE CloseAccount(v)
        BY <2>1 DEF CloseAccount
    <2>2. CASE PurchaseFindsNoAccount(v)
        <3> SUFFICES ASSUME NEW t \in Tasks
                     PROVE  DraftOK(t)'
            OBVIOUS
        <3>1. pc[t] = "status" \/ draft[t] # None => cmd[t].user # v
            BY <1>0, <2>2 DEF PurchaseFindsNoAccount, CommandShape
        <3> QED
            BY <1>0, <2>2, <3>1 DEF PurchaseFindsNoAccount, CommandShape
    <2> QED
        BY <1>1, <2>1, <2>2
<1>2. ASSUME NEW s \in Tasks, BeginDelivery(s)
      PROVE  DraftInv'
    BY <1>0, <1>2 DEF CommandShape, BeginDelivery
<1>3. ASSUME NEW s \in Tasks, Claim(s)
      PROVE  DraftInv'
    BY <1>0, <1>3 DEF CommandShape, Claim
<1>4. ASSUME NEW s \in Tasks, Replay(s)
      PROVE  DraftInv'
    BY <1>0, <1>4 DEF CommandShape, Replay
<1>5. ASSUME NEW s \in Tasks, Refuse(s)
      PROVE  DraftInv'
    BY <1>0, <1>5 DEF CommandShape, Refuse, ReleaseAll, GuardsAfter
<1>6. ASSUME NEW s \in Tasks, GuardDelivery(s)
      PROVE  DraftInv'
    BY <1>0, <1>6 DEF CommandShape, GuardDelivery, LockUser, Lockable, ReleaseAll, GuardsAfter
<1>7. ASSUME NEW s \in Tasks, Award(s)
      PROVE  DraftInv'
    <2> SUFFICES ASSUME NEW t \in Tasks
                 PROVE  DraftOK(t)'
        OBVIOUS
    <2>1. CASE t = s
        <3>1. draft'[s] = [xp[cmd[s].user] EXCEPT ![cmd[s].op] = @ + 1] /\ pc'[s] = "commit"
            BY <1>7, <1>typed, AwardDraft
        <3>2. pc[s] = "status" /\ UNCHANGED <<cmd, tombstone, xp>>
            BY <1>7 DEF Award
        <3>3. cmd[s].kind # "erase" /\ cmd[s].kind # "progress" /\ Source(s) = cmd[s].op /\ ~tombstone[cmd[s].user]
            BY <1>0, <3>2 DEF CommandShape
        <3> HIDE <1>7
        <3> QED
            BY <2>1, <3>1, <3>2, <3>3
    <2>2. CASE t # s
        <3>1. draft'[t] = draft[t] /\ pc'[t] = pc[t]
            BY <1>7, <2>2, AwardOthers
        <3>2. UNCHANGED <<cmd, tombstone, xp>>
            BY <1>7 DEF Award
        <3> QED
            BY <3>1, <3>2 DEF Source, Claims
    <2> QED
        BY <2>1, <2>2
<1>8. ASSUME NEW s \in Tasks, GuardBooking(s)
      PROVE  DraftInv'
    BY <1>0, <1>8 DEF CommandShape, GuardBooking, LockUser, Lockable, ReleaseAll, GuardsAfter
<1>9. ASSUME NEW s \in Tasks, BeginProgress(s)
      PROVE  DraftInv'
    <2> SUFFICES ASSUME NEW t \in Tasks
                 PROVE  DraftOK(t)'
        OBVIOUS
    <2>1. CASE t = s
        <3>1. [xp[cmd[s].user] EXCEPT ![Progress] = @ + 1] # None
            <4>1. [xp[cmd[s].user] EXCEPT ![Progress] = @ + 1] \in Counter
                BY <1>0, NextCount
            <4> QED
                BY <4>1, NoneIsNoCounter
        <3>2. CASE tombstone[cmd[s].user]
            BY <1>0, <1>9, <2>1, <3>2 DEF CommandShape, BeginProgress, LockUser, Lockable
        <3>3. CASE ~tombstone[cmd[s].user]
            BY <1>0, <1>9, <2>1, <3>1, <3>3 DEF CommandShape, BeginProgress, LockUser, Lockable
        <3> QED
            BY <3>2, <3>3
    <2>2. CASE t # s
        BY <1>0, <1>9, <2>2 DEF CommandShape, BeginProgress, LockUser, Lockable
    <2> QED
        BY <2>1, <2>2
<1>10. ASSUME NEW s \in Tasks, CommitAward(s)
      PROVE  DraftInv'
    BY <1>0, <1>10 DEF CommandShape, CommitAward, ReleaseAll, GuardsAfter
<1>11. ASSUME NEW s \in Tasks, BeginErasure(s)
      PROVE  DraftInv'
    BY <1>0, <1>11 DEF CommandShape, BeginErasure
<1>12. ASSUME NEW s \in Tasks, LockNextReceipt(s)
      PROVE  DraftInv'
    BY <1>0, <1>12 DEF CommandShape, LockNextReceipt
<1>13. ASSUME NEW s \in Tasks, ReceiptsLocked(s)
      PROVE  DraftInv'
    BY <1>0, <1>13 DEF CommandShape, ReceiptsLocked
<1>14. ASSUME NEW s \in Tasks, GuardErasure(s)
      PROVE  DraftInv'
    BY <1>0, <1>14 DEF CommandShape, GuardErasure, LockUser, Lockable
<1>15. ASSUME NEW s \in Tasks, DeleteRows(s)
      PROVE  DraftInv'
    BY <1>0, <1>15 DEF CommandShape, DeleteRows
<1>16. ASSUME NEW s \in Tasks, CommitErasure(s)
      PROVE  DraftInv'
    BY <1>0, <1>16 DEF CommandShape, CommitErasure, ReleaseAll, GuardsAfter
<1>17. ASSUME NEW s \in Tasks, Rollback(s)
      PROVE  DraftInv'
    BY <1>0, <1>17 DEF CommandShape, Rollback, ReleaseAll, GuardsAfter
<1>18. CASE UNCHANGED vars
    BY <1>18 DEF vars
<1> QED
    BY <1>1, <1>2, <1>3, <1>4, <1>5, <1>6, <1>7, <1>8, <1>9, <1>10, <1>11, <1>12, <1>13, <1>14, <1>15, <1>16,
       <1>17, <1>18
    DEF Next, Advance

\* No receipt of the account appears between the deletes and the commit.
LEMMA ErasureStep == IInv /\ [Next]_vars => ErasureInv'
<1> SUFFICES ASSUME IInv, [Next]_vars
             PROVE  ErasureInv'
    OBVIOUS
<1> USE ConstantsOK, NoneIsNoTask DEF IInv, TypeOK, GuardTypeOK, guardVars, Goto, Answering, GuardInv,
       LocationInv, ReceiptLockInv, ClaimInv, ClaimOK, DraftInv, DraftOK, ErasureInv, ErasureOK, Keyed,
       Claims, ReceiptsOf
<1>0. CommandShape
    BY CommandsAreShaped
<1>1. ASSUME NEW v \in Users, CloseAccount(v) \/ PurchaseFindsNoAccount(v)
      PROVE  ErasureInv'
    BY <1>1 DEF CloseAccount, PurchaseFindsNoAccount
<1>2. ASSUME NEW s \in Tasks, BeginDelivery(s)
      PROVE  ErasureInv'
    <2> SUFFICES ASSUME NEW t \in Tasks
                 PROVE  ErasureOK(t)'
        OBVIOUS
    <2>1. CASE t = s
        BY <1>0, <1>2, <2>1 DEF CommandShape, BeginDelivery
    <2>2. CASE t # s
        BY <1>0, <1>2, <2>2 DEF CommandShape, BeginDelivery
    <2> QED
        BY <2>1, <2>2
<1>3. ASSUME NEW s \in Tasks, Claim(s)
      PROVE  ErasureInv'
    BY <1>0, <1>3 DEF CommandShape, Claim
<1>4. ASSUME NEW s \in Tasks, Replay(s)
      PROVE  ErasureInv'
    <2> SUFFICES ASSUME NEW t \in Tasks
                 PROVE  ErasureOK(t)'
        OBVIOUS
    <2>1. CASE t = s
        BY <1>0, <1>4, <2>1 DEF CommandShape, Replay
    <2>2. CASE t # s
        BY <1>0, <1>4, <2>2 DEF CommandShape, Replay
    <2> QED
        BY <2>1, <2>2
<1>5. ASSUME NEW s \in Tasks, Refuse(s)
      PROVE  ErasureInv'
    BY <1>0, <1>5 DEF CommandShape, Refuse, ReleaseAll, GuardsAfter
<1>6. ASSUME NEW s \in Tasks, GuardDelivery(s)
      PROVE  ErasureInv'
    BY <1>0, <1>6 DEF CommandShape, GuardDelivery, LockUser, Lockable, ReleaseAll, GuardsAfter
<1>7. ASSUME NEW s \in Tasks, Award(s)
      PROVE  ErasureInv'
    <2> SUFFICES ASSUME NEW t \in Tasks
                 PROVE  ErasureOK(t)'
        OBVIOUS
    <2>1. CASE t = s
        BY <1>0, <1>7, <2>1 DEF CommandShape, Award
    <2>2. CASE t # s
        <3>1. pc'[t] = pc[t] /\ UNCHANGED <<receipt, opLock, todo, cmd>>
            BY <1>7, <2>2 DEF Award
        <3> QED
            BY <3>1
    <2> QED
        BY <2>1, <2>2
<1>8. ASSUME NEW s \in Tasks, GuardBooking(s)
      PROVE  ErasureInv'
    BY <1>0, <1>8 DEF CommandShape, GuardBooking, LockUser, Lockable, ReleaseAll, GuardsAfter
<1>9. ASSUME NEW s \in Tasks, BeginProgress(s)
      PROVE  ErasureInv'
    <2> SUFFICES ASSUME NEW t \in Tasks
                 PROVE  ErasureOK(t)'
        OBVIOUS
    <2>1. CASE t = s
        BY <1>0, <1>9, <2>1 DEF CommandShape, BeginProgress, LockUser, Lockable
    <2>2. CASE t # s
        BY <1>0, <1>9, <2>2 DEF CommandShape, BeginProgress, LockUser, Lockable
    <2> QED
        BY <2>1, <2>2
<1>10. ASSUME NEW s \in Tasks, CommitAward(s)
      PROVE  ErasureInv'
    BY <1>0, <1>10 DEF CommandShape, CommitAward, ReleaseAll, GuardsAfter
<1>11. ASSUME NEW s \in Tasks, BeginErasure(s)
      PROVE  ErasureInv'
    BY <1>0, <1>11 DEF CommandShape, BeginErasure
<1>12. ASSUME NEW s \in Tasks, LockNextReceipt(s)
      PROVE  ErasureInv'
    BY <1>0, <1>12 DEF CommandShape, LockNextReceipt
<1>13. ASSUME NEW s \in Tasks, ReceiptsLocked(s)
      PROVE  ErasureInv'
    BY <1>0, <1>13 DEF CommandShape, ReceiptsLocked
<1>14. ASSUME NEW s \in Tasks, GuardErasure(s)
      PROVE  ErasureInv'
    BY <1>0, <1>14 DEF CommandShape, GuardErasure, LockUser, Lockable
<1>15. ASSUME NEW s \in Tasks, DeleteRows(s)
      PROVE  ErasureInv'
    BY <1>0, <1>15 DEF CommandShape, DeleteRows
<1>16. ASSUME NEW s \in Tasks, CommitErasure(s)
      PROVE  ErasureInv'
    BY <1>0, <1>16 DEF CommandShape, CommitErasure, ReleaseAll, GuardsAfter
<1>17. ASSUME NEW s \in Tasks, Rollback(s)
      PROVE  ErasureInv'
    BY <1>0, <1>17 DEF CommandShape, Rollback, ReleaseAll, GuardsAfter
<1>18. CASE UNCHANGED vars
    BY <1>18 DEF vars
<1> QED
    BY <1>1, <1>2, <1>3, <1>4, <1>5, <1>6, <1>7, <1>8, <1>9, <1>10, <1>11, <1>12, <1>13, <1>14, <1>15, <1>16,
       <1>17, <1>18
    DEF Next, Advance

\* A receipt of an engine task records its terms.
LEMMA EngineReceiptStep == IInv /\ [Next]_vars => EngineReceiptInv'
<1> SUFFICES ASSUME IInv, [Next]_vars
             PROVE  EngineReceiptInv'
    OBVIOUS
<1> USE ConstantsOK, NoneIsNoTask DEF IInv, TypeOK, GuardTypeOK, guardVars, Goto, Answering,
       EngineReceiptInv, Claims, Keyed
<1>0. CommandShape
    BY CommandsAreShaped
<1>1. ASSUME NEW v \in Users, CloseAccount(v) \/ PurchaseFindsNoAccount(v)
      PROVE  EngineReceiptInv'
    BY <1>1 DEF CloseAccount, PurchaseFindsNoAccount
<1>2. ASSUME NEW s \in Tasks, BeginDelivery(s)
      PROVE  EngineReceiptInv'
    BY <1>0, <1>2 DEF CommandShape, BeginDelivery
<1>3. ASSUME NEW s \in Tasks, Claim(s)
      PROVE  EngineReceiptInv'
    BY <1>0, <1>3 DEF CommandShape, Claim
<1>4. ASSUME NEW s \in Tasks, Replay(s)
      PROVE  EngineReceiptInv'
    BY <1>0, <1>4 DEF CommandShape, Replay
<1>5. ASSUME NEW s \in Tasks, Refuse(s)
      PROVE  EngineReceiptInv'
    BY <1>0, <1>5 DEF CommandShape, Refuse, ReleaseAll, GuardsAfter
<1>6. ASSUME NEW s \in Tasks, GuardDelivery(s)
      PROVE  EngineReceiptInv'
    BY <1>0, <1>6 DEF CommandShape, GuardDelivery, LockUser, Lockable, ReleaseAll, GuardsAfter
<1>7. ASSUME NEW s \in Tasks, Award(s)
      PROVE  EngineReceiptInv'
    BY <1>0, <1>7 DEF CommandShape, Award
<1>8. ASSUME NEW s \in Tasks, GuardBooking(s)
      PROVE  EngineReceiptInv'
    BY <1>0, <1>8 DEF CommandShape, GuardBooking, LockUser, Lockable, ReleaseAll, GuardsAfter
<1>9. ASSUME NEW s \in Tasks, BeginProgress(s)
      PROVE  EngineReceiptInv'
    BY <1>0, <1>9 DEF CommandShape, BeginProgress, LockUser, Lockable
<1>10. ASSUME NEW s \in Tasks, CommitAward(s)
      PROVE  EngineReceiptInv'
    BY <1>0, <1>10 DEF CommandShape, CommitAward, ReleaseAll, GuardsAfter
<1>11. ASSUME NEW s \in Tasks, BeginErasure(s)
      PROVE  EngineReceiptInv'
    BY <1>0, <1>11 DEF CommandShape, BeginErasure
<1>12. ASSUME NEW s \in Tasks, LockNextReceipt(s)
      PROVE  EngineReceiptInv'
    BY <1>0, <1>12 DEF CommandShape, LockNextReceipt
<1>13. ASSUME NEW s \in Tasks, ReceiptsLocked(s)
      PROVE  EngineReceiptInv'
    BY <1>0, <1>13 DEF CommandShape, ReceiptsLocked
<1>14. ASSUME NEW s \in Tasks, GuardErasure(s)
      PROVE  EngineReceiptInv'
    BY <1>0, <1>14 DEF CommandShape, GuardErasure, LockUser, Lockable
<1>15. ASSUME NEW s \in Tasks, DeleteRows(s)
      PROVE  EngineReceiptInv'
    BY <1>0, <1>15 DEF CommandShape, DeleteRows
<1>16. ASSUME NEW s \in Tasks, CommitErasure(s)
      PROVE  EngineReceiptInv'
    BY <1>0, <1>16 DEF CommandShape, CommitErasure, ReleaseAll, GuardsAfter
<1>17. ASSUME NEW s \in Tasks, Rollback(s)
      PROVE  EngineReceiptInv'
    BY <1>0, <1>17 DEF CommandShape, Rollback, ReleaseAll, GuardsAfter
<1>18. CASE UNCHANGED vars
    BY <1>18 DEF vars
<1> QED
    BY <1>1, <1>2, <1>3, <1>4, <1>5, <1>6, <1>7, <1>8, <1>9, <1>10, <1>11, <1>12, <1>13, <1>14, <1>15, <1>16,
       <1>17, <1>18
    DEF Next, Advance

\* An answer about an erased account comes with the end of the transaction.
LEMMA AnswerStep == IInv /\ [Next]_vars => AnswerInv'
<1> SUFFICES ASSUME IInv, [Next]_vars
             PROVE  AnswerInv'
    OBVIOUS
<1> USE DEF IInv, TypeOK, AnswerInv, Goto, Answering, ReleaseAll
<1>1. ASSUME NEW v \in Users, CloseAccount(v) \/ PurchaseFindsNoAccount(v)
      PROVE  AnswerInv'
    BY <1>1 DEF CloseAccount, PurchaseFindsNoAccount
<1>2. ASSUME NEW s \in Tasks, BeginDelivery(s) \/ Claim(s) \/ Replay(s) \/ Refuse(s)
      PROVE  AnswerInv'
    BY <1>2 DEF BeginDelivery, Claim, Replay, Refuse
<1>3. ASSUME NEW s \in Tasks, GuardDelivery(s)
      PROVE  AnswerInv'
    BY <1>3 DEF GuardDelivery
<1>4. ASSUME NEW s \in Tasks, GuardBooking(s)
      PROVE  AnswerInv'
    BY <1>4 DEF GuardBooking
<1>5. ASSUME NEW s \in Tasks, Award(s) \/ BeginProgress(s) \/ CommitAward(s)
      PROVE  AnswerInv'
    BY <1>5 DEF Award, BeginProgress, CommitAward
<1>6. ASSUME NEW s \in Tasks, BeginErasure(s) \/ LockNextReceipt(s) \/ ReceiptsLocked(s)
      PROVE  AnswerInv'
    BY <1>6 DEF BeginErasure, LockNextReceipt, ReceiptsLocked
<1>7. ASSUME NEW s \in Tasks, GuardErasure(s) \/ DeleteRows(s) \/ CommitErasure(s) \/ Rollback(s)
      PROVE  AnswerInv'
    BY <1>7 DEF GuardErasure, DeleteRows, CommitErasure, Rollback
<1>8. CASE UNCHANGED vars
    BY <1>8 DEF vars
<1> QED
    BY <1>1, <1>2, <1>3, <1>4, <1>5, <1>6, <1>7, <1>8 DEF Next, Advance
-----------------------------------------------------------------------------
(* What the two commits do, in the words of the ledger. *)

\* The first delivery of an operation, a replay, and progress.
NewAward(s) ==
    LET o == cmd[s].op  u == cmd[s].user IN
    /\ Keyed(s) /\ receipt[o] = None /\ ~tombstone[u]
    /\ receipt' = [receipt EXCEPT ![o] = cmd[s].req]
    /\ xp' = [xp EXCEPT ![u] = [xp[u] EXCEPT ![o] = @ + 1]]
    /\ booked' = IF o \in EngineOps THEN booked \cup {o} ELSE booked
OldAward(s) ==
    LET o == cmd[s].op IN
    /\ Keyed(s) /\ receipt[o] = cmd[s].req
    /\ UNCHANGED <<receipt, xp, booked>>
ProgressAward(s) ==
    LET u == cmd[s].user IN
    /\ cmd[s].kind = "progress" /\ ~tombstone[u]
    /\ xp' = [xp EXCEPT ![u] = [xp[u] EXCEPT ![Progress] = @ + 1]]
    /\ UNCHANGED <<receipt, booked>>

\* The commit of an award is one of the three.
LEMMA AwardEffect ==
    ASSUME IInv, NEW s \in Tasks, CommitAward(s)
    PROVE  NewAward(s) \/ OldAward(s) \/ ProgressAward(s)
<1>0. CommandShape
    BY CommandsAreShaped DEF IInv, TypeOK
<1>1. /\ DraftOK(s)
      /\ ClaimOK(s)
    BY DEF IInv, DraftInv, ClaimInv
<1>2. CASE Keyed(s) /\ draft[s] # None
    <2>1. cmd[s].op # None /\ pc[s] = "commit"
        BY <1>0, <1>2, ConstantsOK DEF CommandShape, CommitAward
    <2>2. Claims(s) /\ ~tombstone[cmd[s].user]
        BY <1>1, <1>2, <2>1 DEF DraftOK, ClaimOK, Claims
    <2>3. draft[s] = [xp[cmd[s].user] EXCEPT ![cmd[s].op] = @ + 1]
        BY <1>1, <1>2 DEF DraftOK, Source
    <2>4. booked' = IF cmd[s].op \in EngineOps THEN booked \cup {cmd[s].op} ELSE booked
        BY <1>2, OnlyEngineOpsAreBooked DEF CommitAward, IInv, TypeOK
    <2> QED
        BY <1>2, <2>2, <2>3, <2>4 DEF CommitAward, NewAward, Claims
<1>3. CASE Keyed(s) /\ draft[s] = None
    <2>1. receipt[cmd[s].op] = cmd[s].req /\ cmd[s].req # None
        BY <1>0, <1>1, <1>3, ConstantsOK DEF CommandShape, CommitAward, ClaimOK, Keyed
    <2>2. receipt' = receipt /\ xp' = xp
        BY <1>3, <2>1 DEF CommitAward, Claims
    <2>3. booked' = booked
        BY <1>0, <1>3, <2>1 DEF CommandShape, CommitAward, IInv, CreditedExactlyOnce, Keyed
    <2> QED
        BY <1>3, <2>1, <2>2, <2>3 DEF OldAward
<1>4. CASE ~Keyed(s)
    BY <1>0, <1>1, <1>4 DEF CommandShape, CommitAward, ProgressAward, DraftOK, Claims, Source, Keyed
<1> QED
    BY <1>2, <1>3, <1>4

\* Receipt and effect share one transaction.
LEMMA CreditedStep == IInv /\ [Next]_vars => CreditedExactlyOnce'
<1> SUFFICES ASSUME IInv, [Next]_vars
             PROVE  CreditedExactlyOnce'
    OBVIOUS
<1>0. CommandShape
    BY CommandsAreShaped DEF IInv, TypeOK
<1>t. TypeOK /\ CreditedExactlyOnce /\ EngineReceiptInv
    BY DEF IInv
<1>1. CASE UNCHANGED <<receipt, xp, booked>>
    BY <1>t, <1>1 DEF CreditedExactlyOnce, ReceiptsOf
<1>2. ASSUME NEW s \in Tasks, CommitAward(s)
      PROVE  CreditedExactlyOnce'
    <2>1. CASE NewAward(s)
        <3>1. ASSUME NEW v \in Users, NEW o \in Ops
              PROVE  (xp[v][o] = IF o \in ReceiptsOf(v) THEN 1 ELSE 0)'
            <4>1. xp[cmd[s].user] \in Counter /\ o \in Sources
                BY <1>0, <1>t DEF CommandShape, TypeOK, Sources
            <4>2. CASE v = cmd[s].user /\ o = cmd[s].op
                BY <1>0, <1>t, <2>1, <4>1, <4>2, ConstantsOK
                DEF CommandShape, NewAward, TypeOK, CreditedExactlyOnce, ReceiptsOf, Counter
            <4>3. CASE ~(v = cmd[s].user /\ o = cmd[s].op)
                <5>1. xp'[v][o] = xp[v][o]
                    BY <1>0, <1>t, <2>1, <4>1, <4>3 DEF CommandShape, NewAward, TypeOK, Counter
                <5>2. (o \in ReceiptsOf(v))' <=> o \in ReceiptsOf(v)
                    BY <1>0, <1>t, <2>1, <4>3, ConstantsOK DEF CommandShape, NewAward, TypeOK, ReceiptsOf
                <5> QED
                    BY <1>t, <5>1, <5>2 DEF CreditedExactlyOnce
            <4> QED
                BY <4>2, <4>3
        <3>2. (booked = {o \in EngineOps : receipt[o] # None})'
            BY <1>0, <1>t, <2>1, ConstantsOK DEF CommandShape, NewAward, TypeOK, CreditedExactlyOnce
        <3> QED
            BY <3>1, <3>2 DEF CreditedExactlyOnce
    <2>2. CASE OldAward(s)
        BY <1>1, <2>2 DEF OldAward
    <2>3. CASE ProgressAward(s)
        <3>1. ASSUME NEW v \in Users, NEW o \in Ops
              PROVE  xp'[v][o] = xp[v][o]
            <4>1. xp[cmd[s].user] \in Counter /\ o \in Sources /\ o # Progress
                BY <1>0, <1>t, ConstantsOK DEF CommandShape, TypeOK, Sources
            <4> QED
                BY <1>0, <1>t, <2>3, <4>1 DEF CommandShape, ProgressAward, TypeOK, Counter
        <3> QED
            BY <1>t, <2>3, <3>1 DEF ProgressAward, CreditedExactlyOnce, ReceiptsOf
    <2> QED
        BY <1>2, <2>1, <2>2, <2>3, AwardEffect
<1>3. ASSUME NEW s \in Tasks, CommitErasure(s)
      PROVE  CreditedExactlyOnce'
    <2>1. cmd[s].user \in Users
        BY <1>0 DEF CommandShape
    <2>2. ASSUME NEW v \in Users, NEW o \in Ops
          PROVE  (xp[v][o] = IF o \in ReceiptsOf(v) THEN 1 ELSE 0)'
        <3>1. CASE v = cmd[s].user
            <4>1. xp'[v][o] = 0
                BY <1>3, <1>t, <3>1, <2>1 DEF CommitErasure, TypeOK, NoCounter, Sources
            <4>2. (o \notin ReceiptsOf(v))'
                BY <1>3, <3>1 DEF CommitErasure, ReceiptsOf
            <4> QED
                BY <4>1, <4>2
        <3>2. CASE v # cmd[s].user
            <4>1. xp'[v][o] = xp[v][o]
                BY <1>3, <1>t, <3>2 DEF CommitErasure, TypeOK
            <4>2. (o \in ReceiptsOf(v))' <=> o \in ReceiptsOf(v)
                BY <1>3, <3>2 DEF CommitErasure, ReceiptsOf
            <4> QED
                BY <1>t, <4>1, <4>2 DEF CreditedExactlyOnce
        <3> QED
            BY <3>1, <3>2
    <2>3. (booked = {o \in EngineOps : receipt[o] # None})'
        <3> SUFFICES ASSUME NEW o \in EngineOps
                     PROVE  o \in booked' <=> receipt'[o] # None
            BY <1>3, <1>t DEF CommitErasure, TypeOK
        <3>1. o \in booked <=> receipt[o] # None
            BY <1>t DEF CreditedExactlyOnce
        <3>2. o \in Ops /\ receipt[o] \in {None, EngineRequest[o]}
            BY <1>t, ConstantsOK DEF EngineReceiptInv
        <3> QED
            BY <1>3, <3>1, <3>2, ConstantsOK DEF CommitErasure, ReceiptsOf
    <2> QED
        BY <2>2, <2>3 DEF CreditedExactlyOnce
<1>4. ASSUME NEW v \in Users, CloseAccount(v) \/ PurchaseFindsNoAccount(v)
      PROVE  UNCHANGED <<receipt, xp, booked>>
    BY <1>4 DEF CloseAccount, PurchaseFindsNoAccount
<1>5. ASSUME NEW s \in Tasks, Advance(s) \/ Rollback(s), ~CommitAward(s), ~CommitErasure(s)
      PROVE  UNCHANGED <<receipt, xp, booked>>
    BY <1>5 DEF Advance, BeginDelivery, Claim, Replay, Refuse, GuardDelivery, Award, GuardBooking,
                BeginProgress, BeginErasure, LockNextReceipt, ReceiptsLocked, GuardErasure, DeleteRows,
                Rollback
<1>6. CASE UNCHANGED vars
    BY <1>1, <1>6 DEF vars
<1> QED
    BY <1>1, <1>2, <1>3, <1>4, <1>5, <1>6 DEF Next

\* What one finished task may say.
AnswerOK(t) ==
    LET u == cmd[t].user  o == cmd[t].op IN
    pc[t] = "done" =>
        /\ answer[t] \in {"applied", "replayed"} /\ o # None =>
              receipt[o] = cmd[t].req \/ tombstone[u]
        /\ answer[t] = "recipient_erased" => tombstone[u]
        /\ answer[t] = "erased" =>
              /\ tombstone[u]
              /\ ReceiptsOf(u) = {}
              /\ xp[u] = NoCounter

\* A step that leaves receipts and counters alone and sets no tombstone back keeps the
\* answer of every task it does not finish.
LEMMA AnswerFrame ==
    ASSUME TypeOK, NEW t \in Tasks, AnswerOK(t), UNCHANGED <<receipt, xp, cmd>>,
           \A u \in Users : tombstone[u] => tombstone'[u],
           pc'[t] = pc[t] /\ answer'[t] = answer[t],
           cmd[t].user \in Users
    PROVE  AnswerOK(t)'
BY DEF AnswerOK, ReceiptsOf

\* What is durable stays so: no award follows a tombstone, no receipt leaves without one.
LEMMA AnswersStep == IInv /\ [Next]_vars => AnswersAreDurable'
<1> SUFFICES ASSUME IInv, [Next]_vars
             PROVE  AnswersAreDurable'
    OBVIOUS
<1> SUFFICES ASSUME NEW t \in Tasks
             PROVE  AnswerOK(t)'
    BY DEF AnswersAreDurable, AnswerOK
<1>0. CommandShape
    BY CommandsAreShaped DEF IInv, TypeOK
<1>t. TypeOK /\ AnswerOK(t) /\ cmd[t].user \in Users
    BY <1>0 DEF IInv, AnswersAreDurable, AnswerOK, CommandShape
<1>1. ASSUME NEW u \in Users, CloseAccount(u) \/ PurchaseFindsNoAccount(u)
      PROVE  AnswerOK(t)'
    <2>1. \A v \in Users : tombstone[v] => tombstone'[v]
        BY <1>1, <1>t DEF CloseAccount, PurchaseFindsNoAccount, TypeOK, GuardTypeOK, guardVars
    <2> QED
        BY <1>1, <1>t, <2>1, AnswerFrame DEF CloseAccount, PurchaseFindsNoAccount
<1>2. ASSUME NEW s \in Tasks, CommitAward(s)
      PROVE  AnswerOK(t)'
    <2> DEFINE u == cmd[t].user
    <2>1. UNCHANGED <<tombstone, cmd, answer>>
        BY <1>2 DEF CommitAward
    <2>2. t # s => pc'[t] = pc[t]
        BY <1>2 DEF CommitAward, ReleaseAll, Goto
    <2>3. CASE NewAward(s)
        <3>1. u # cmd[s].user \/ ~tombstone[u]
            BY <2>3 DEF NewAward
        <3>2. u # cmd[s].user => (ReceiptsOf(u))' = ReceiptsOf(u) /\ xp'[u] = xp[u]
            <4> SUFFICES ASSUME u # cmd[s].user
                         PROVE  (ReceiptsOf(u))' = ReceiptsOf(u) /\ xp'[u] = xp[u]
                OBVIOUS
            <4>1. xp'[u] = xp[u]
                BY <1>t, <2>3 DEF NewAward, TypeOK
            <4>2. Recipient[cmd[s].req] = cmd[s].user
                BY <1>0, <2>3 DEF CommandShape, NewAward
            <4>3. (ReceiptsOf(u))' = ReceiptsOf(u)
                BY <1>t, <2>1, <2>3, <4>2 DEF NewAward, TypeOK, ReceiptsOf
            <4> QED
                BY <4>1, <4>3
        <3>3. CASE t = s
            BY <1>0, <1>2, <1>t, <2>1, <2>3, <3>3
            DEF CommandShape, NewAward, AnswerOK, IInv, AnswerInv, CommitAward, TypeOK
        <3>4. CASE t # s /\ pc[t] = "done"
            <4>1. cmd[t].op # None /\ receipt[cmd[t].op] = cmd[t].req => receipt'[cmd[t].op] = cmd[t].req
                <5>1. cmd[t].op # None => cmd[t].op \in Ops /\ cmd[t].req # None
                    BY <1>0, ConstantsOK DEF CommandShape
                <5> QED
                    BY <1>t, <2>3, <5>1 DEF NewAward, TypeOK
            <4> QED
                BY <1>t, <2>1, <2>2, <3>1, <3>2, <3>4, <4>1 DEF AnswerOK
        <3>5. CASE t # s /\ pc[t] # "done"
            BY <2>2, <3>5 DEF AnswerOK
        <3> QED
            BY <3>3, <3>4, <3>5
    <2>4. CASE OldAward(s)
        <3>1. CASE t = s
            BY <1>2, <2>1, <2>4, <3>1 DEF OldAward, AnswerOK, IInv, AnswerInv, CommitAward
        <3>2. CASE t # s
            BY <1>t, <2>1, <2>2, <2>4, <3>2, AnswerFrame DEF OldAward
        <3> QED
            BY <3>1, <3>2
    <2>5. CASE ProgressAward(s)
        <3>1. CASE t = s
            BY <1>0, <1>2, <2>1, <2>5, <3>1
            DEF CommandShape, ProgressAward, AnswerOK, IInv, AnswerInv, CommitAward, Keyed
        <3>2. CASE t # s
            <4>1. tombstone[u] => xp'[u] = xp[u]
                BY <1>t, <2>5 DEF ProgressAward, TypeOK
            <4> QED
                BY <1>t, <2>1, <2>2, <2>5, <3>2, <4>1 DEF ProgressAward, AnswerOK, ReceiptsOf
        <3> QED
            BY <3>1, <3>2
    <2> QED
        BY <1>2, <2>3, <2>4, <2>5, AwardEffect
<1>3. ASSUME NEW s \in Tasks, CommitErasure(s)
      PROVE  AnswerOK(t)'
    <2> DEFINE u == cmd[s].user
    <2>1. u \in Users /\ cmd[s].op = None
        BY <1>0, <1>3 DEF CommandShape, CommitErasure, Keyed
    <2>2. tombstone'[u] /\ xp'[u] = NoCounter /\ (ReceiptsOf(u))' = {}
        BY <1>3, <1>t, <2>1 DEF CommitErasure, TypeOK, GuardTypeOK, ReceiptsOf
    <2>3. /\ UNCHANGED cmd
          /\ t # s => pc'[t] = pc[t] /\ answer'[t] = answer[t]
          /\ t = s => answer'[t] = "erased"
        BY <1>3, <1>t DEF CommitErasure, ReleaseAll, Goto, Answering, TypeOK
    <2>4. CASE t = s
        BY <2>1, <2>2, <2>3, <2>4 DEF AnswerOK
    <2>5. CASE t # s /\ cmd[t].user = u
        BY <1>t, <2>2, <2>3, <2>5 DEF AnswerOK
    <2>6. CASE t # s /\ cmd[t].user # u
        <3>1. /\ tombstone'[cmd[t].user] = tombstone[cmd[t].user]
              /\ xp'[cmd[t].user] = xp[cmd[t].user]
              /\ (ReceiptsOf(cmd[t].user))' = ReceiptsOf(cmd[t].user)
            BY <1>3, <1>t, <2>6 DEF CommitErasure, TypeOK, GuardTypeOK, ReceiptsOf
        <3>2. cmd[t].op # None /\ receipt[cmd[t].op] = cmd[t].req => receipt'[cmd[t].op] = cmd[t].req
            BY <1>0, <1>3, <2>6 DEF CommandShape, CommitErasure, ReceiptsOf
        <3> QED
            BY <1>t, <2>3, <2>6, <3>1, <3>2 DEF AnswerOK
    <2> QED
        BY <2>4, <2>5, <2>6
<1>4. ASSUME NEW s \in Tasks, Advance(s) \/ Rollback(s), ~CommitAward(s), ~CommitErasure(s)
      PROVE  AnswerOK(t)'
    <2>1. UNCHANGED <<tombstone, receipt, xp, cmd>>
        BY <1>4 DEF Advance, BeginDelivery, Claim, Replay, Refuse, GuardDelivery, Award, GuardBooking,
                    BeginProgress, BeginErasure, LockNextReceipt, ReceiptsLocked, GuardErasure,
                    DeleteRows, Rollback, guardVars
    <2>2. CASE t # s
        <3>1. CASE Rollback(s) \/ BeginDelivery(s) \/ Claim(s) \/ Replay(s) \/ Refuse(s) \/ Award(s)
            <4>1. pc'[t] = pc[t] /\ answer'[t] = answer[t]
                BY <1>t, <2>2, <3>1
                DEF Rollback, BeginDelivery, Claim, Replay, Refuse, Award, Goto, Answering, ReleaseAll, TypeOK
            <4> QED
                BY <1>t, <2>1, <4>1, AnswerFrame
        <3>2. CASE GuardDelivery(s) \/ GuardBooking(s) \/ BeginProgress(s)
            <4>1. pc'[t] = pc[t] /\ answer'[t] = answer[t]
                BY <1>t, <2>2, <3>2
                DEF GuardDelivery, GuardBooking, BeginProgress, Goto, Answering, ReleaseAll, TypeOK
            <4> QED
                BY <1>t, <2>1, <4>1, AnswerFrame
        <3>3. CASE BeginErasure(s) \/ LockNextReceipt(s) \/ ReceiptsLocked(s) \/ GuardErasure(s) \/
                     DeleteRows(s)
            <4>1. pc'[t] = pc[t] /\ answer'[t] = answer[t]
                BY <1>t, <2>2, <3>3
                DEF BeginErasure, LockNextReceipt, ReceiptsLocked, GuardErasure, DeleteRows, Goto, TypeOK
            <4> QED
                BY <1>t, <2>1, <4>1, AnswerFrame
        <3> QED
            BY <1>4, <3>1, <3>2, <3>3 DEF Advance
    <2>3. CASE t = s /\ pc'[s] # "done"
        BY <2>3 DEF AnswerOK
    <2>4. CASE t = s /\ pc'[s] = "done"
        <3>1. answer'[s] = "failed" \/ (answer'[s] = "recipient_erased" /\ tombstone[cmd[s].user])
            BY <1>4, <1>t, <2>4 DEF Advance, BeginDelivery, Claim, Replay, Refuse, GuardDelivery, Award,
                GuardBooking, BeginProgress, BeginErasure, LockNextReceipt, ReceiptsLocked,
                GuardErasure, DeleteRows, Rollback, Goto, Answering, ReleaseAll, TypeOK
        <3> QED
            BY <2>1, <2>4, <3>1 DEF AnswerOK
    <2> QED
        BY <2>2, <2>3, <2>4
<1>5. CASE UNCHANGED vars
    BY <1>t, <1>5, AnswerFrame DEF vars
<1> QED
    BY <1>1, <1>2, <1>3, <1>4, <1>5 DEF Next
-----------------------------------------------------------------------------
\* The inductive invariant holds before any request.
LEMMA InitInv == Init => IInv
<1> SUFFICES ASSUME Init
             PROVE  IInv
    OBVIOUS
<1> USE ConstantsOK, NoneIsNoTask DEF Init, GuardInit
<1>1. TypeOK
    BY DEF TypeOK, GuardTypeOK, NoCounter, Counter, Locations, Answers
<1>2. GuardInv /\ LocationInv /\ ReceiptLockInv
    BY DEF GuardInv, LocationInv, ReceiptLockInv
<1>3. ClaimInv /\ DraftInv /\ ErasureInv
    BY DEF ClaimInv, ClaimOK, DraftInv, DraftOK, ErasureInv, ErasureOK
<1>4. EngineReceiptInv /\ AnswerInv /\ AnswersAreDurable
    BY DEF EngineReceiptInv, AnswerInv, AnswersAreDurable
<1>5. CreditedExactlyOnce
    BY DEF CreditedExactlyOnce, ReceiptsOf, NoCounter, Sources
<1> QED
    BY <1>1, <1>2, <1>3, <1>4, <1>5 DEF IInv

\* Every step keeps it, conjunct by conjunct.
LEMMA NextInv == IInv /\ [Next]_vars => IInv'
BY TypeStep, GuardStep, LocationStep, ReceiptLockStep, ClaimStep, DraftStep, ErasureStep,
   EngineReceiptStep, AnswerStep, CreditedStep, AnswersStep DEF IInv

\* Locks, claims, drafts and receipts agree at every moment.
THEOREM InvariantHolds == Spec => []IInv
BY InitInv, NextInv, PTL DEF Spec

\* The award of an operation is in its learner's counter once if there is a receipt, and not
\* at all otherwise, whatever deliveries, bookings and erasures interleave.
THEOREM CreditedOnce == Spec => []CreditedExactlyOnce
<1>1. IInv => CreditedExactlyOnce
    BY DEF IInv
<1> QED
    BY <1>1, InvariantHolds, PTL

\* What a delivery or an erasure has answered stays true.
THEOREM AnswersDurable == Spec => []AnswersAreDurable
<1>1. IInv => AnswersAreDurable
    BY DEF IInv
<1> QED
    BY <1>1, InvariantHolds, PTL

\* The transactions implement the ledger: each commit is one of its steps, all else stutters.
THEOREM ImplementsLedger == Spec => LedgerBehaviour
<1>1. Init => Ledger!LedgerInit
    BY DEF Init, GuardInit, Ledger!LedgerInit, NoCounter, Ledger!NoCredits, Sources, Ledger!Sources
<1>2. IInv /\ [Next]_vars => [Ledger!LedgerNext]_(Ledger!ledgerVars)
    <2> SUFFICES ASSUME IInv, [Next]_vars
                 PROVE  Ledger!LedgerNext \/ UNCHANGED Ledger!ledgerVars
        OBVIOUS
    <2>0. CommandShape
        BY CommandsAreShaped DEF IInv, TypeOK
    <2>t. TypeOK /\ CreditedExactlyOnce
        BY DEF IInv
    <2>1. ASSUME NEW u \in Users, PurchaseFindsNoAccount(u)
          PROVE  Ledger!Freeze(u)
        BY <2>1, <2>t DEF PurchaseFindsNoAccount, Ledger!Freeze, TypeOK, GuardTypeOK
    <2>2. ASSUME NEW s \in Tasks, NewAward(s), UNCHANGED tombstone,
                 NEW u \in Users, NEW o \in Ops, u = cmd[s].user, o = cmd[s].op
          PROVE  Ledger!Credit(u, o)
        BY <2>0, <2>2, <2>t, ConstantsOK DEF CommandShape, NewAward, Ledger!Credit, TypeOK
    <2>3. ASSUME NEW s \in Tasks, ProgressAward(s), UNCHANGED tombstone
          PROVE  Ledger!CreditProgress(cmd[s].user)
        BY <2>3 DEF ProgressAward, Ledger!CreditProgress
    <2>4. ASSUME NEW s \in Tasks, CommitErasure(s), NEW u \in Users, u = cmd[s].user
          PROVE  Ledger!Erase(u)
        <3>2. \A o \in Ops : o \in ReceiptsOf(u) <=> xp[u][o] > 0
            BY <2>t DEF CreditedExactlyOnce
        <3>3. {o \in Ops : receipt'[o] # None} = {o \in Ops : receipt[o] # None} \ {o \in Ops : xp[u][o] > 0}
            BY <2>4, <3>2 DEF CommitErasure, ReceiptsOf
        <3>4. {v \in Users : tombstone'[v]} = {v \in Users : tombstone[v]} \cup {u}
            BY <2>4, <2>t DEF CommitErasure, TypeOK, GuardTypeOK
        <3>5. xp' = [xp EXCEPT ![u] = Ledger!NoCredits]
            BY <2>4 DEF CommitErasure, NoCounter, Sources, Ledger!NoCredits, Ledger!Sources
        <3> QED
            BY <3>3, <3>4, <3>5 DEF Ledger!Erase
    <2>5. ASSUME NEW s \in Tasks, CommitAward(s)
          PROVE  Ledger!LedgerNext \/ UNCHANGED Ledger!ledgerVars
        <3>1. UNCHANGED tombstone /\ cmd[s].user \in Users /\ (Keyed(s) => cmd[s].op \in Ops)
            BY <2>0, <2>5 DEF CommandShape, CommitAward
        <3>2. CASE NewAward(s)
            <4>1. PICK u \in Users, o \in Ops : u = cmd[s].user /\ o = cmd[s].op
                BY <3>1, <3>2 DEF NewAward
            <4>2. Ledger!Credit(u, o)
                BY <2>2, <3>1, <3>2, <4>1
            <4> QED
                BY <4>2 DEF Ledger!LedgerNext
        <3>3. CASE OldAward(s)
            BY <3>1, <3>3 DEF OldAward, Ledger!ledgerVars
        <3>4. CASE ProgressAward(s)
            BY <2>3, <3>1, <3>4 DEF Ledger!LedgerNext
        <3> QED
            BY <2>5, <3>2, <3>3, <3>4, AwardEffect
    <2>6. ASSUME NEW u \in Users, CloseAccount(u)
          PROVE  UNCHANGED Ledger!ledgerVars
        BY <2>6 DEF CloseAccount, Ledger!ledgerVars, guardVars
    <2>7. ASSUME NEW s \in Tasks, Advance(s) \/ Rollback(s), ~CommitAward(s), ~CommitErasure(s)
          PROVE  UNCHANGED Ledger!ledgerVars
        <3>1. UNCHANGED <<tombstone, receipt, xp>>
            BY <2>7 DEF Advance, BeginDelivery, Claim, Replay, Refuse, GuardDelivery, Award, GuardBooking,
                        BeginProgress, BeginErasure, LockNextReceipt, ReceiptsLocked, GuardErasure,
                        DeleteRows, Rollback, guardVars
        <3> QED
            BY <3>1 DEF Ledger!ledgerVars
    <2>8. CASE UNCHANGED vars
        BY <2>8 DEF vars, Ledger!ledgerVars
    <2>9. ASSUME NEW s \in Tasks, CommitErasure(s)
          PROVE  Ledger!LedgerNext
        <3>1. PICK u \in Users : u = cmd[s].user
            BY <2>0 DEF CommandShape
        <3>2. Ledger!Erase(u)
            BY <2>4, <2>9, <3>1
        <3> QED
            BY <3>2 DEF Ledger!LedgerNext
    <2> QED
        BY <2>1, <2>5, <2>6, <2>7, <2>8, <2>9 DEF Next, Ledger!LedgerNext
<1> QED
    BY <1>1, <1>2, InvariantHolds, PTL DEF Spec, LedgerBehaviour, Ledger!LedgerSpec
=============================================================================
