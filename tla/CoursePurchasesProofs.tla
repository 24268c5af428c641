----------------------- MODULE CoursePurchasesProofs -----------------------
(***************************************************************************)
(* Proofs about CoursePurchases for any learners, courses, orders, tasks   *)
(* and either isolation level: type correctness, no debit is forgotten,    *)
(* access is paid for, and the orders implement the contract.  Under READ  *)
(* COMMITTED a fulfilled order stays fulfilled.                            *)
(***************************************************************************)
EXTENDS CoursePurchases, TLAPS

\* Where a task is fits its command, and a delivery has an order.
LocationInv ==
    \A t \in Tasks : /\ pc[t] \in {"offer", "offering"} => cmd[t].kind = "offer"
                     /\ pc[t] = "accept" => cmd[t].kind = "buy"
                     /\ pc[t] \in {"deliver", "status", "post", "report"} => cur[t] \in Orders

\* While a delivery asks the auth service and the shop it holds the guard of its learner, and so
\* does the request that waits for an offer: what it has seen is still so.  The report may follow
\* a commit that releases the guard; what it reports stays provided.
Delivering(t) == pc[t] \in {"status", "post"}
TaskOK(t) == /\ Delivering(t) => /\ holder[Learner(cur[t])] = t
                                 /\ ~tombstone[Learner(cur[t])]
                                 /\ order[cur[t]].state \in {"prepared", "paid"}
             /\ pc[t] = "offering" => holder[Owner[cmd[t].item]] = t
             /\ pc[t] = "post" => cur[t] \in sent
             /\ pc[t] = "report" => order[cur[t]].provided
TaskInv == \A t \in Tasks : TaskOK(t)

\* An order is the active one of its course exactly from its acceptance to its failure; what is
\* fulfilled was provided, what was provided was charged, and the shop has decided only what
\* was sent to it.  A sent order keeps its place unless the shop refuses it.
RowOK(o) ==
    /\ order[o].key <=> order[o].state \in {"prepared", "paid", "fulfilled", "review"}
    /\ order[o].key => order[o].accepted
    /\ order[o].state = "fulfilled" => order[o].provided
    /\ order[o].provided => Debited(o)
    /\ shop[o] # "undecided" => o \in sent
    /\ o \in sent /\ shop[o] # "refused" => order[o].key
RowInv == \A o \in Orders : RowOK(o)

\* A course has one active order.
KeyInv == \A o, p \in Orders :
             order[o].key /\ order[p].key /\ order[o].item = order[p].item => o = p

IInv == /\ TypeOK
        /\ LocationInv
        /\ TaskInv
        /\ RowInv
        /\ KeyInv
        /\ AccessIsPaidFor
-----------------------------------------------------------------------------
\* The inductive invariant holds before any request.
LEMMA InitInv == Init => IInv
<1> SUFFICES ASSUME Init
             PROVE  IInv
    OBVIOUS
<1> USE PurchaseConstantsOK, NoneIsNoTask DEF Init, GuardInit
<1>1. TypeOK
    BY DEF TypeOK, GuardTypeOK, OrderRows, States, ShopStates, Locations
<1>2. LocationInv /\ TaskInv
    BY DEF LocationInv, TaskInv, TaskOK, Delivering
<1>3. RowInv /\ KeyInv /\ AccessIsPaidFor
    BY DEF RowInv, RowOK, KeyInv, AccessIsPaidFor, Debited
<1> QED
    BY <1>1, <1>2, <1>3 DEF IInv

\* What the end of a delivery or of a request does to the tasks and the guards: nothing to another
\* task, and nothing to a guard that another task holds.
Ended(t) == /\ pc' \in [Tasks -> Locations] /\ pc'[t] \in {"loop", "done"}
            /\ cur' \in [Tasks -> Orders \cup {None}]
            /\ todo' = todo
            /\ holder' \in [Users -> Tasks \cup {None}]
            /\ \A s \in Tasks \ {t} : pc'[s] = pc[s] /\ cur'[s] = cur[s]
            /\ \A u \in Users : holder[u] # t => holder'[u] = holder[u]

\* Rolling a purchase back leaves every other request as it was.
LEMMA EndsQuietly ==
    ASSUME TypeOK, NEW t \in Tasks, Finish(t, TRUE) \/ Finish(t, FALSE)
    PROVE  Ended(t)
BY NoneIsNoTask DEF Ended, Finish, Goto, Commit, GuardsAfter, TypeOK, GuardTypeOK, Locations

\* An accepted order is a row for the same course, prepared and with the key.
LEMMA AcceptedRow ==
    ASSUME TypeOK, LocationInv, NEW t \in Tasks, Accept(t), NEW o \in Orders, o = cmd[t].order, ~KeyTaken(o)
    PROVE  /\ order' \in [Orders -> OrderRows]
           /\ \A p \in Orders \ {o} : order'[p] = order[p]
           /\ order'[o].item = order[o].item /\ order'[o].provided = order[o].provided
           /\ order'[o].accepted /\ order'[o].key /\ order'[o].state = "prepared"
<1> DEFINE r == order[o]
           prepared == [r EXCEPT !.accepted = TRUE, !.state = "prepared", !.key = TRUE]
<1>0. order \in [Orders -> OrderRows] /\ r \in OrderRows
    BY DEF TypeOK
<1>1. order' = [order EXCEPT ![o].accepted = TRUE, ![o].state = "prepared", ![o].key = TRUE]
    BY DEF Accept
<1>2. /\ prepared \in OrderRows
      /\ prepared.item = r.item /\ prepared.provided = r.provided
      /\ prepared.accepted /\ prepared.key /\ prepared.state = "prepared"
    BY <1>0 DEF OrderRows, States
<1>3. order' = [order EXCEPT ![o] = prepared]
    BY <1>0, <1>1
<1> QED
    BY <1>0, <1>2, <1>3

\* Every step leaves rows of orders, and no order changes the course it is for.
LEMMA OrderStep ==
    TypeOK /\ LocationInv /\ [Next]_purchaseVars =>
        order' \in [Orders -> OrderRows] /\ \A o \in Orders : order'[o].item = order[o].item
<1> DEFINE StillRows == order' \in [Orders -> OrderRows] /\ \A o \in Orders : order'[o].item = order[o].item
<1> SUFFICES ASSUME TypeOK, LocationInv, [Next]_purchaseVars
             PROVE  StillRows
    OBVIOUS
<1>0. order \in [Orders -> OrderRows]
    BY DEF TypeOK
<1>k. UNCHANGED order => StillRows
    BY <1>0
<1>1. ASSUME NEW t \in Tasks, RecordOffer(t)
      PROVE  StillRows
    BY <1>1, <1>0 DEF RecordOffer, OrderRows, States
<1>2. ASSUME NEW t \in Tasks, Accept(t)
      PROVE  StillRows
    <2>1. cmd[t].order \in Orders
        BY <1>2, PurchaseConstantsOK DEF Accept, LocationInv, TypeOK, Commands
    <2>2. CASE KeyTaken(cmd[t].order)
        BY <1>2, <1>k, <2>2 DEF Accept
    <2>3. CASE ~KeyTaken(cmd[t].order)
        BY <1>2, <2>1, <2>3, AcceptedRow
    <2> QED
        BY <2>2, <2>3
<1>3. ASSUME NEW t \in Tasks, ReviewErased(t)
      PROVE  StillRows
    <2>1. cur[t] \in Orders
        BY <1>3 DEF ReviewErased, LocationInv
    <2> QED
        BY <1>3, <1>0, <2>1 DEF ReviewErased, OrderRows, States
<1>4. ASSUME NEW t \in Tasks, FindNoAccount(t)
      PROVE  StillRows
    <2>1. cur[t] \in Orders
        BY <1>4 DEF FindNoAccount, LocationInv
    <2> QED
        BY <1>4, <1>0, <2>1 DEF FindNoAccount, OrderRows, States
<1>5. ASSUME NEW t \in Tasks, ShopRefuses(t)
      PROVE  StillRows
    <2>1. cur[t] \in Orders
        BY <1>5 DEF ShopRefuses, LocationInv
    <2> QED
        BY <1>5, <1>0, <2>1 DEF ShopRefuses, OrderRows, States
<1>6. ASSUME NEW t \in Tasks, NotProvided(t)
      PROVE  StillRows
    <2>1. cur[t] \in Orders
        BY <1>6 DEF NotProvided, LocationInv
    <2> QED
        BY <1>6, <1>0, <2>1 DEF NotProvided, OrderRows, States
<1>7. ASSUME NEW t \in Tasks, Provide(t)
      PROVE  StillRows
    <2>1. cur[t] \in Orders
        BY <1>7 DEF Provide, LocationInv
    <2> QED
        BY <1>7, <1>0, <2>1 DEF Provide, OrderRows, States
<1>8. ASSUME NEW t \in Tasks, Report(t)
      PROVE  StillRows
    <2>1. cur[t] \in Orders
        BY <1>8 DEF Report, LocationInv
    <2> QED
        BY <1>8, <1>0, <2>1 DEF Report, OrderRows, States
<1>9. ASSUME NEW u \in Users, EraseAccount(u)
      PROVE  StillRows
    BY <1>9, <1>0 DEF EraseAccount, OrderRows, States
<1>10. ASSUME NEW t \in Tasks, BeginOffer(t) \/ AskForOffer(t) \/ BeginBuy(t) \/ RefuseToBuy(t) \/
              AcceptAgain(t) \/ BeginRecovery(t) \/ RecoverNext(t) \/ EndRecovery(t)
      PROVE  StillRows
    BY <1>10, <1>k DEF BeginOffer, AskForOffer, BeginBuy, RefuseToBuy, AcceptAgain, BeginRecovery,
       RecoverNext, EndRecovery
<1>11. ASSUME NEW t \in Tasks, LockOrder(t) \/ LeaveSettled(t) \/ Post(t) \/ StatusUnknown(t) \/
              ShopUnavailable(t) \/ ReportUnanswered(t) \/ Rollback(t)
      PROVE  StillRows
    BY <1>11, <1>k DEF LockOrder, LeaveSettled, Post, StatusUnknown, ShopUnavailable, ReportUnanswered, Rollback
<1>12. ASSUME NEW u \in Users, CloseAccount(u)
      PROVE  StillRows
    BY <1>12, <1>k DEF CloseAccount
<1>13. ASSUME NEW o \in Orders, Decide(o) \/ Confirm(o) \/ ReviewAtShop(o) \/ Expire(o)
      PROVE  StillRows
    BY <1>13, <1>k DEF Decide, Confirm, ReviewAtShop, Expire
<1>14. CASE UNCHANGED purchaseVars
    BY <1>14, <1>k DEF purchaseVars
<1> HIDE DEF StillRows
<1> QED
    BY <1>1, <1>2, <1>3, <1>4, <1>5, <1>6, <1>7, <1>8, <1>9, <1>10, <1>11, <1>12, <1>13, <1>14
    DEF Next, Request, Recovery, Delivery, Trouble, Environment

\* Every step keeps the other types and fits the place of a task to its command.
LEMMA TypeStep == TypeOK /\ LocationInv /\ [Next]_purchaseVars => TypeOK' /\ LocationInv'
<1> DEFINE Typed == /\ GuardTypeOK' /\ auth' \in [Users -> {"live", "gone"}]
                    /\ access' \subseteq Items /\ shop' \in [Orders -> ShopStates]
                    /\ late' \subseteq Orders /\ sent' \subseteq Orders /\ told' \subseteq Orders
                    /\ cmd' \in [Tasks -> Commands] /\ pc' \in [Tasks -> Locations]
                    /\ cur' \in [Tasks -> Orders \cup {None}] /\ todo' \in [Tasks -> SUBSET Orders]
                    /\ LocationInv'
<1> SUFFICES ASSUME TypeOK, LocationInv, [Next]_purchaseVars
             PROVE  Typed
    BY OrderStep DEF TypeOK
<1> USE PurchaseConstantsOK, NoneIsNoTask
    DEF TypeOK, LocationInv, GuardTypeOK, Learner, guardVars, shopVars, taskVars
<1>1. ASSUME NEW t \in Tasks, BeginOffer(t)
      PROVE  Typed
    BY <1>1 DEF BeginOffer, Goto, FirstRead, Locations
<1>2. ASSUME NEW t \in Tasks, AskForOffer(t)
      PROVE  Typed
    <2>1. CASE Finish(t, TRUE)
        <3>1. Ended(t)
            BY <2>1, EndsQuietly
        <3> QED
            BY <1>2, <3>1 DEF AskForOffer, Ended
    <2>2. CASE LockUser(t, Owner[cmd[t].item]) /\ Goto(t, "offering") /\ UNCHANGED <<cur, todo, seen>>
        BY <1>2, <2>2 DEF AskForOffer, LockUser, Goto, Locations, Commands
    <2> QED
        BY <1>2, <2>1, <2>2 DEF AskForOffer
<1>3. ASSUME NEW t \in Tasks, RecordOffer(t)
      PROVE  Typed
    <2>1. Ended(t)
        BY <1>3, EndsQuietly DEF RecordOffer
    <2> QED
        BY <1>3, <2>1 DEF RecordOffer, Ended
<1>4. ASSUME NEW t \in Tasks, BeginBuy(t)
      PROVE  Typed
    BY <1>4 DEF BeginBuy, Goto, FirstRead, Locations
<1>5. ASSUME NEW t \in Tasks, RefuseToBuy(t)
      PROVE  Typed
    <2>1. Ended(t)
        BY <1>5, EndsQuietly DEF RefuseToBuy
    <2> QED
        BY <1>5, <2>1 DEF RefuseToBuy, Ended
<1>6. ASSUME NEW t \in Tasks, Accept(t)
      PROVE  Typed
    <2>1. CASE KeyTaken(cmd[t].order)
        <3>1. Ended(t)
            BY <1>6, <2>1, EndsQuietly DEF Accept
        <3> QED
            BY <1>6, <3>1 DEF Accept, Ended
    <2>2. CASE ~KeyTaken(cmd[t].order)
        <3>1. cmd[t].order \in Orders
            BY <1>6 DEF Accept, Commands
        <3> QED
            BY <1>6, <2>2, <3>1 DEF Accept, Goto, Commit, GuardsAfter, Locations
    <2> QED
        BY <2>1, <2>2
<1>7. ASSUME NEW t \in Tasks, AcceptAgain(t)
      PROVE  Typed
    BY <1>7 DEF AcceptAgain, Goto, Commit, GuardsAfter, Locations, Commands
<1>8. ASSUME NEW t \in Tasks, BeginRecovery(t)
      PROVE  Typed
    BY <1>8 DEF BeginRecovery, Goto, Locations
<1>9. ASSUME NEW t \in Tasks, RecoverNext(t)
      PROVE  Typed
    BY <1>9 DEF RecoverNext, Goto, Locations
<1>10. ASSUME NEW t \in Tasks, EndRecovery(t)
      PROVE  Typed
    BY <1>10 DEF EndRecovery, Goto, Commit, GuardsAfter, Locations
<1>11. ASSUME NEW t \in Tasks, LockOrder(t)
      PROVE  Typed
    BY <1>11 DEF LockOrder, LockUser, Goto, Locations, OrderRows
<1>12. ASSUME NEW t \in Tasks, LeaveSettled(t)
      PROVE  Typed
    BY <1>12 DEF LeaveSettled, Goto, GuardsAfter, Locations, OrderRows
<1>13. ASSUME NEW t \in Tasks, ReviewErased(t)
      PROVE  Typed
    <2>1. Ended(t)
        BY <1>13, EndsQuietly DEF ReviewErased
    <2> QED
        BY <1>13, <2>1 DEF ReviewErased, Ended
<1>14. ASSUME NEW t \in Tasks, FindNoAccount(t)
      PROVE  Typed
    <2>1. Ended(t)
        BY <1>14, EndsQuietly DEF FindNoAccount
    <2>2. tombstone' \in [Users -> BOOLEAN]
        BY <1>14 DEF FindNoAccount
    <2> QED
        BY <1>14, <2>1, <2>2 DEF FindNoAccount, Ended
<1>15. ASSUME NEW t \in Tasks, Post(t)
      PROVE  Typed
    BY <1>15 DEF Post, Goto, Locations
<1>16. ASSUME NEW t \in Tasks, ShopRefuses(t)
      PROVE  Typed
    <2>1. Ended(t)
        BY <1>16, EndsQuietly DEF ShopRefuses
    <2> QED
        BY <1>16, <2>1 DEF ShopRefuses, Ended
<1>17. ASSUME NEW t \in Tasks, NotProvided(t)
      PROVE  Typed
    <2>1. Ended(t)
        BY <1>17, EndsQuietly DEF NotProvided
    <2> QED
        BY <1>17, <2>1 DEF NotProvided, Ended
<1>18. ASSUME NEW t \in Tasks, Provide(t)
      PROVE  Typed
    <2>1. access' \subseteq Items
        BY <1>18 DEF Provide, OrderRows
    <2>2. CASE order[cur[t]].reported
        <3>1. Ended(t)
            BY <1>18, <2>2, EndsQuietly DEF Provide
        <3> QED
            BY <1>18, <2>1, <3>1 DEF Provide, Ended
    <2>3. CASE ~order[cur[t]].reported
        BY <1>18, <2>1, <2>3 DEF Provide, Goto, Commit, GuardsAfter, Locations
    <2> QED
        BY <2>2, <2>3
<1>19. ASSUME NEW t \in Tasks, Report(t)
      PROVE  Typed
    <2>1. Ended(t)
        BY <1>19, EndsQuietly DEF Report
    <2> QED
        BY <1>19, <2>1 DEF Report, Ended
<1>20. ASSUME NEW t \in Tasks, StatusUnknown(t)
      PROVE  Typed
    <2>1. Ended(t)
        BY <1>20, EndsQuietly DEF StatusUnknown
    <2> QED
        BY <1>20, <2>1 DEF StatusUnknown, Ended
<1>21. ASSUME NEW t \in Tasks, ShopUnavailable(t)
      PROVE  Typed
    <2>1. Ended(t)
        BY <1>21, EndsQuietly DEF ShopUnavailable
    <2> QED
        BY <1>21, <2>1 DEF ShopUnavailable, Ended
<1>22. ASSUME NEW t \in Tasks, ReportUnanswered(t)
      PROVE  Typed
    <2>1. Ended(t)
        BY <1>22, EndsQuietly DEF ReportUnanswered
    <2> QED
        BY <1>22, <2>1 DEF ReportUnanswered, Ended
<1>23. ASSUME NEW t \in Tasks, Rollback(t)
      PROVE  Typed
    <2>1. Ended(t)
        BY <1>23, EndsQuietly DEF Rollback
    <2> QED
        BY <1>23, <2>1 DEF Rollback, Ended
<1>24. ASSUME NEW u \in Users, CloseAccount(u)
      PROVE  Typed
    BY <1>24 DEF CloseAccount
<1>25. ASSUME NEW u \in Users, EraseAccount(u)
      PROVE  Typed
    BY <1>25 DEF EraseAccount
<1>26. ASSUME NEW o \in Orders, Decide(o)
      PROVE  Typed
    BY <1>26 DEF Decide, ShopStates
<1>27. ASSUME NEW o \in Orders, Confirm(o)
      PROVE  Typed
    BY <1>27 DEF Confirm, ShopStates
<1>28. ASSUME NEW o \in Orders, ReviewAtShop(o)
      PROVE  Typed
    BY <1>28 DEF ReviewAtShop, ShopStates
<1>29. ASSUME NEW o \in Orders, Expire(o)
      PROVE  Typed
    BY <1>29 DEF Expire
<1>30. CASE UNCHANGED purchaseVars
    BY <1>30 DEF purchaseVars
<1> HIDE DEF Typed
<1> QED
    BY <1>1, <1>2, <1>3, <1>4, <1>5, <1>6, <1>7, <1>8, <1>9, <1>10, <1>11, <1>12, <1>13, <1>14, <1>15, <1>16,
       <1>17, <1>18, <1>19, <1>20, <1>21, <1>22, <1>23, <1>24, <1>25, <1>26, <1>27, <1>28, <1>29, <1>30
    DEF Next, Request, Recovery, Delivery, Trouble, Environment

\* What a task relies on while others step: its place and command, the guards it holds with their
\* tombstones and the states of their orders, and that nothing provided or sent is taken back.
Undisturbed(s) == /\ pc'[s] = pc[s] /\ cur'[s] = cur[s] /\ cmd'[s] = cmd[s]
                  /\ \A u \in Users : holder[u] = s => holder'[u] = s /\ tombstone'[u] = tombstone[u]
                  /\ \A o \in Orders : /\ holder[Learner(o)] = s => order'[o].state = order[o].state
                                       /\ order[o].provided => order'[o].provided
                  /\ sent \subseteq sent'

\* What is said of a request stays true under the steps of others.
LEMMA UndisturbedIsOK ==
    ASSUME IInv, [Next]_purchaseVars, NEW s \in Tasks, Undisturbed(s)
    PROVE  TaskOK(s)'
<1>1. \A o \in Orders : order'[o].item = order[o].item /\ Learner(o) \in Users /\ Learner(o)' = Learner(o)
    BY OrderStep, PurchaseConstantsOK DEF IInv, TypeOK, OrderRows, Learner
<1>2. pc[s] \in {"status", "post", "report"} => cur[s] \in Orders
    BY DEF IInv, LocationInv
<1>3. pc[s] = "offering" => Owner[cmd[s].item] \in Users
    BY PurchaseConstantsOK DEF IInv, LocationInv, TypeOK, Commands
<1> QED
    BY <1>1, <1>2, <1>3 DEF IInv, TaskInv, TaskOK, Delivering, Undisturbed

\* A task does not disturb another one.
LEMMA TasksApart ==
    ASSUME IInv, NEW t \in Tasks, Request(t) \/ Recovery(t) \/ Delivery(t) \/ Trouble(t), NEW s \in Tasks \ {t}
    PROVE  Undisturbed(s)
<1> USE PurchaseConstantsOK, NoneIsNoTask DEF Undisturbed, guardVars, shopVars, taskVars
<1>0. /\ pc \in [Tasks -> Locations] /\ cur \in [Tasks -> Orders \cup {None}]
      /\ holder \in [Users -> Tasks \cup {None}] /\ tombstone \in [Users -> BOOLEAN]
      /\ order \in [Orders -> OrderRows]
      /\ \A o \in Orders : Learner(o) \in Users
      /\ pc[t] \in {"deliver", "status", "post", "report"} => cur[t] \in Orders
      /\ pc[t] \in {"status", "post"} => holder[Learner(cur[t])] = t
      /\ pc[t] = "offering" => cmd[t].item \in Items /\ holder[Owner[cmd[t].item]] = t
      /\ pc[t] = "offer" => cmd[t].item \in Items
      /\ pc[t] = "accept" => cmd[t].order \in Orders
    BY DEF IInv, TypeOK, GuardTypeOK, LocationInv, TaskInv, TaskOK, Delivering, OrderRows, Learner, Commands
<1>1. CASE BeginOffer(t)
    BY <1>0, <1>1 DEF BeginOffer, Goto, FirstRead
<1>2. CASE AskForOffer(t)
    <2>1. CASE Finish(t, TRUE)
        <3>1. Ended(t)
            BY <2>1, EndsQuietly DEF IInv
        <3> QED
            BY <1>0, <1>2, <3>1 DEF AskForOffer, Ended
    <2>2. CASE LockUser(t, Owner[cmd[t].item]) /\ Goto(t, "offering") /\ UNCHANGED <<cur, todo, seen>>
        BY <1>0, <1>2, <2>2 DEF AskForOffer, LockUser, Lockable, Goto
    <2> QED
        BY <1>2, <2>1, <2>2 DEF AskForOffer
<1>3. CASE RecordOffer(t)
    <2>1. Ended(t)
        BY <1>3, EndsQuietly DEF RecordOffer, IInv
    <2> QED
        BY <1>0, <1>3, <2>1 DEF RecordOffer, Ended, OrderRows, Learner
<1>4. CASE BeginBuy(t)
    BY <1>0, <1>4 DEF BeginBuy, Goto, FirstRead
<1>5. CASE RefuseToBuy(t)
    <2>1. Ended(t)
        BY <1>5, EndsQuietly DEF RefuseToBuy, IInv
    <2> QED
        BY <1>0, <1>5, <2>1 DEF RefuseToBuy, Ended
<1>6. CASE Accept(t)
    <2>1. CASE KeyTaken(cmd[t].order)
        <3>1. Ended(t)
            BY <1>6, <2>1, EndsQuietly DEF Accept, IInv
        <3> QED
            BY <1>0, <1>6, <2>1, <3>1 DEF Accept, Ended
    <2>2. CASE ~KeyTaken(cmd[t].order)
        BY <1>0, <1>6, <2>2 DEF Accept, Lockable, Goto, Commit, GuardsAfter, OrderRows
    <2> QED
        BY <2>1, <2>2
<1>7. CASE AcceptAgain(t)
    BY <1>0, <1>7 DEF AcceptAgain, Goto, Commit, GuardsAfter
<1>8. CASE BeginRecovery(t)
    BY <1>0, <1>8 DEF BeginRecovery, Goto
<1>9. CASE RecoverNext(t)
    BY <1>0, <1>9 DEF RecoverNext, Goto
<1>10. CASE EndRecovery(t)
    BY <1>0, <1>10 DEF EndRecovery, Goto, Commit, GuardsAfter
<1>11. CASE LockOrder(t)
    BY <1>0, <1>11 DEF LockOrder, LockUser, Goto, Lockable
<1>12. CASE LeaveSettled(t)
    BY <1>0, <1>12 DEF LeaveSettled, Goto, GuardsAfter, Lockable
<1>13. CASE ReviewErased(t)
    <2>1. Ended(t)
        BY <1>13, EndsQuietly DEF ReviewErased, IInv
    <2> QED
        BY <1>0, <1>13, <2>1 DEF ReviewErased, Ended, OrderRows, Lockable
<1>14. CASE FindNoAccount(t)
    <2>1. Ended(t)
        BY <1>14, EndsQuietly DEF FindNoAccount, IInv
    <2> QED
        BY <1>0, <1>14, <2>1 DEF FindNoAccount, Ended, OrderRows
<1>15. CASE Post(t)
    BY <1>0, <1>15 DEF Post, Goto
<1>16. CASE ShopRefuses(t)
    <2>1. Ended(t)
        BY <1>16, EndsQuietly DEF ShopRefuses, IInv
    <2> QED
        BY <1>0, <1>16, <2>1 DEF ShopRefuses, Ended, OrderRows
<1>17. CASE NotProvided(t)
    <2>1. Ended(t)
        BY <1>17, EndsQuietly DEF NotProvided, IInv
    <2> QED
        BY <1>0, <1>17, <2>1 DEF NotProvided, Ended, OrderRows
<1>18. CASE Provide(t)
    <2>1. CASE order[cur[t]].reported
        <3>1. Ended(t)
            BY <1>18, <2>1, EndsQuietly DEF Provide, IInv
        <3> QED
            BY <1>0, <1>18, <3>1 DEF Provide, Ended, OrderRows
    <2>2. CASE ~order[cur[t]].reported
        BY <1>0, <1>18, <2>2 DEF Provide, Goto, Commit, GuardsAfter, OrderRows
    <2> QED
        BY <2>1, <2>2
<1>19. CASE Report(t)
    <2>1. Ended(t)
        BY <1>19, EndsQuietly DEF Report, IInv
    <2> QED
        BY <1>0, <1>19, <2>1 DEF Report, Ended, OrderRows
<1>20. CASE StatusUnknown(t)
    <2>1. Ended(t)
        BY <1>20, EndsQuietly DEF StatusUnknown, IInv
    <2> QED
        BY <1>0, <1>20, <2>1 DEF StatusUnknown, Ended
<1>21. CASE ShopUnavailable(t)
    <2>1. Ended(t)
        BY <1>21, EndsQuietly DEF ShopUnavailable, IInv
    <2> QED
        BY <1>0, <1>21, <2>1 DEF ShopUnavailable, Ended
<1>22. CASE ReportUnanswered(t)
    <2>1. Ended(t)
        BY <1>22, EndsQuietly DEF ReportUnanswered, IInv
    <2> QED
        BY <1>0, <1>22, <2>1 DEF ReportUnanswered, Ended
<1>23. CASE Rollback(t)
    <2>1. Ended(t)
        BY <1>23, EndsQuietly DEF Rollback, IInv
    <2> QED
        BY <1>0, <1>23, <2>1 DEF Rollback, Ended
<1> QED
    BY <1>1, <1>2, <1>3, <1>4, <1>5, <1>6, <1>7, <1>8, <1>9, <1>10, <1>11, <1>12, <1>13, <1>14, <1>15, <1>16,
       <1>17, <1>18, <1>19, <1>20, <1>21, <1>22, <1>23
    DEF Request, Recovery, Delivery, Trouble

\* Nor do erasure, the auth service and the shop disturb a task.
LEMMA EnvironmentApart ==
    ASSUME IInv, Environment, NEW s \in Tasks
    PROVE  Undisturbed(s)
<1> USE NoneIsNoTask DEF Undisturbed, guardVars, shopVars, taskVars
<1>1. ASSUME NEW u \in Users, EraseAccount(u)
      PROVE  Undisturbed(s)
    BY <1>1 DEF EraseAccount, IInv, TypeOK, GuardTypeOK, OrderRows, Learner
<1>2. ASSUME NEW u \in Users, CloseAccount(u)
      PROVE  Undisturbed(s)
    BY <1>2 DEF CloseAccount
<1>3. ASSUME NEW o \in Orders, Decide(o) \/ Confirm(o) \/ ReviewAtShop(o) \/ Expire(o)
      PROVE  Undisturbed(s)
    BY <1>3 DEF Decide, Confirm, ReviewAtShop, Expire
<1> QED
    BY <1>1, <1>2, <1>3 DEF Environment

\* What a task has in hand after a step of its own.
LEMMA OwnStep ==
    ASSUME IInv, NEW t \in Tasks, Request(t) \/ Recovery(t) \/ Delivery(t) \/ Trouble(t)
    PROVE  TaskOK(t)'
<1> USE NoneIsNoTask DEF TaskOK, Delivering, guardVars, shopVars, taskVars
<1>0. /\ pc \in [Tasks -> Locations] /\ cur \in [Tasks -> Orders \cup {None}]
      /\ holder \in [Users -> Tasks \cup {None}]
      /\ order \in [Orders -> OrderRows]
      /\ \A o \in Orders : Learner(o) \in Users
      /\ pc[t] \in {"deliver", "status", "post", "report"} => cur[t] \in Orders
      /\ pc[t] = "offer" => Owner[cmd[t].item] \in Users
      /\ TaskOK(t)
    BY PurchaseConstantsOK DEF IInv, TypeOK, GuardTypeOK, LocationInv, TaskInv, OrderRows, Learner, Commands
<1>1. CASE Ended(t)
    BY <1>0, <1>1 DEF Ended
<1>2. CASE BeginOffer(t)
    BY <1>0, <1>2 DEF BeginOffer, Goto
<1>3. CASE AskForOffer(t)
    <2>1. CASE Finish(t, TRUE)
        BY <1>1, <2>1, EndsQuietly DEF IInv
    <2>2. CASE LockUser(t, Owner[cmd[t].item]) /\ Goto(t, "offering") /\ UNCHANGED <<cur, todo, seen>>
        BY <1>0, <1>3, <2>2 DEF AskForOffer, LockUser, Goto
    <2> QED
        BY <1>3, <2>1, <2>2 DEF AskForOffer
<1>4. CASE BeginBuy(t)
    BY <1>0, <1>4 DEF BeginBuy, Goto
<1>5. CASE Accept(t)
    <2>1. CASE KeyTaken(cmd[t].order)
        BY <1>1, <1>5, <2>1, EndsQuietly DEF Accept, IInv
    <2>2. CASE ~KeyTaken(cmd[t].order)
        BY <1>0, <1>5, <2>2 DEF Accept, Goto
    <2> QED
        BY <2>1, <2>2
<1>6. CASE AcceptAgain(t)
    BY <1>0, <1>6 DEF AcceptAgain, Goto
<1>7. CASE BeginRecovery(t)
    BY <1>0, <1>7 DEF BeginRecovery, Goto
<1>8. CASE RecoverNext(t)
    BY <1>0, <1>8 DEF RecoverNext, Goto
<1>9. CASE EndRecovery(t)
    BY <1>0, <1>9 DEF EndRecovery, Goto
<1>10. CASE LockOrder(t)
    <2>1. Learner(cur[t])' = Learner(cur[t]) /\ holder'[Learner(cur[t])] = t /\ UNCHANGED <<order, tombstone, cur, cmd>>
        BY <1>0, <1>10 DEF LockOrder, LockUser, Learner
    <2>2. \/ pc'[t] = "report" /\ order[cur[t]].provided
          \/ pc'[t] = "status" /\ order[cur[t]].state \in {"prepared", "paid"} /\ ~tombstone[Learner(cur[t])]
        BY <1>0, <1>10 DEF LockOrder, Goto
    <2> QED
        BY <2>1, <2>2
<1>11. CASE LeaveSettled(t)
    BY <1>0, <1>11 DEF LeaveSettled, Goto
<1>12. CASE Post(t)
    <2>1. pc'[t] = "post" /\ cur[t] \in sent' /\ UNCHANGED <<order, tombstone, holder, cur, cmd>>
        BY <1>0, <1>12 DEF Post, Goto
    <2> QED
        BY <1>0, <1>12, <2>1 DEF Post, Learner
<1>13. CASE Provide(t)
    <2>1. CASE order[cur[t]].reported
        BY <1>1, <1>13, <2>1, EndsQuietly DEF Provide, IInv
    <2>2. CASE ~order[cur[t]].reported
        BY <1>0, <1>13, <2>2 DEF Provide, Goto, OrderRows
    <2> QED
        BY <2>1, <2>2
<1>14. ASSUME RecordOffer(t) \/ RefuseToBuy(t) \/ ReviewErased(t) \/ FindNoAccount(t) \/ ShopRefuses(t) \/
              NotProvided(t) \/ Report(t) \/ StatusUnknown(t) \/ ShopUnavailable(t) \/
              ReportUnanswered(t) \/ Rollback(t)
      PROVE  Ended(t)
    BY <1>14, EndsQuietly DEF IInv, RecordOffer, RefuseToBuy, ReviewErased, FindNoAccount, ShopRefuses,
       NotProvided, Report, StatusUnknown, ShopUnavailable, ReportUnanswered, Rollback
<1> QED
    BY <1>1, <1>2, <1>3, <1>4, <1>5, <1>6, <1>7, <1>8, <1>9, <1>10, <1>11, <1>12, <1>13, <1>14
    DEF Request, Recovery, Delivery, Trouble

\* What a task has seen under the guard is still so after every step.
LEMMA TaskStep == IInv /\ [Next]_purchaseVars => TaskInv'
<1> SUFFICES ASSUME IInv, [Next]_purchaseVars, NEW s \in Tasks
             PROVE  TaskOK(s)'
    BY DEF TaskInv
<1>1. CASE Environment
    BY <1>1, EnvironmentApart, UndisturbedIsOK
<1>2. ASSUME NEW t \in Tasks, Request(t) \/ Recovery(t) \/ Delivery(t) \/ Trouble(t)
      PROVE  TaskOK(s)'
    BY <1>2, OwnStep, TasksApart, UndisturbedIsOK
<1>3. CASE UNCHANGED purchaseVars
    BY <1>3, UndisturbedIsOK DEF Undisturbed, purchaseVars, guardVars, shopVars, taskVars, Learner
<1> QED
    BY <1>1, <1>2, <1>3 DEF Next

\* Orders, their keys, access and reports stay in step with what the shop has decided.
SoundRows == RowInv /\ KeyInv /\ AccessIsPaidFor

\* Access stays paid for while it shrinks and orders keep what was provided.
LEMMA PaidForKept ==
    ASSUME AccessIsPaidFor, access \subseteq Items, told \subseteq Orders, access' \subseteq access,
           UNCHANGED <<shop, told>>,
           \A o \in Orders : order'[o].item = order[o].item /\ (order[o].provided => order'[o].provided)
    PROVE  AccessIsPaidFor'
<1>1. ASSUME NEW i \in access'
      PROVE  \E o \in Orders : order'[o].item = i /\ order'[o].provided /\ Debited(o)'
    <2>1. PICK o \in Orders : order[o].item = i /\ order[o].provided /\ Debited(o)
        BY <1>1 DEF AccessIsPaidFor
    <2> QED
        BY <2>1 DEF Debited
<1>2. \A o \in told' : order'[o].provided
    BY DEF AccessIsPaidFor
<1> QED
    BY <1>1, <1>2 DEF AccessIsPaidFor

\* No step of any task, of erasure or of the shop takes them out of step.
LEMMA RowStep == IInv /\ [Next]_purchaseVars => SoundRows'
<1> SUFFICES ASSUME IInv, [Next]_purchaseVars
             PROVE  SoundRows'
    OBVIOUS
<1> USE DEF SoundRows, RowInv, RowOK, KeyInv, AccessIsPaidFor, Debited, guardVars, shopVars, taskVars
<1>0. /\ order \in [Orders -> OrderRows] /\ shop \in [Orders -> ShopStates] /\ access \subseteq Items
      /\ told \subseteq Orders /\ SoundRows
      /\ \A t \in Tasks : /\ pc[t] \in {"deliver", "status", "post", "report"} => cur[t] \in Orders
                          /\ pc[t] \in {"status", "post"} => order[cur[t]].state \in {"prepared", "paid"}
                          /\ pc[t] = "report" => order[cur[t]].provided
                          /\ pc[t] = "post" => cur[t] \in sent
                          /\ pc[t] = "accept" => cmd[t].order \in Orders
    BY PurchaseConstantsOK DEF IInv, TypeOK, LocationInv, TaskInv, TaskOK, Delivering, Commands
<1>k. UNCHANGED <<order, shop, sent, access, told>> => SoundRows'
    BY <1>0
<1>1. ASSUME NEW t \in Tasks, RecordOffer(t)
      PROVE  SoundRows'
    BY <1>0, <1>1 DEF RecordOffer, OrderRows
<1>2. ASSUME NEW t \in Tasks, Accept(t)
      PROVE  SoundRows'
    <2>1. CASE KeyTaken(cmd[t].order)
        BY <1>k, <1>2, <2>1 DEF Accept
    <2>2. CASE ~KeyTaken(cmd[t].order)
        <3> DEFINE o == cmd[t].order
        <3>1. o \in Orders /\ UNCHANGED <<shop, sent, access, told>>
            BY <1>0, <1>2 DEF Accept
        <3>2. \A p \in Orders \ {o} : order[p].item = order[o].item => ~order[p].key
            BY <2>2 DEF KeyTaken
        <3>4. /\ \A p \in Orders \ {o} : order'[p] = order[p]
              /\ order'[o].item = order[o].item /\ order'[o].provided = order[o].provided
              /\ order'[o].accepted /\ order'[o].key /\ order'[o].state = "prepared"
            BY <1>2, <2>2, <3>1, AcceptedRow DEF IInv
        <3> HIDE DEF o
        <3>5. RowInv'
            BY <1>0, <3>1, <3>4
        <3>6. KeyInv'
            BY <1>0, <3>1, <3>2, <3>4
        <3>7. AccessIsPaidFor'
            BY <1>0, <3>1, <3>4, PaidForKept
        <3> QED
            BY <3>5, <3>6, <3>7
    <2> QED
        BY <2>1, <2>2
<1>3. ASSUME NEW t \in Tasks, ReviewErased(t)
      PROVE  SoundRows'
    BY <1>0, <1>3 DEF ReviewErased, OrderRows
<1>4. ASSUME NEW t \in Tasks, FindNoAccount(t)
      PROVE  SoundRows'
    BY <1>0, <1>4 DEF FindNoAccount, OrderRows
<1>5. ASSUME NEW t \in Tasks, Post(t)
      PROVE  SoundRows'
    BY <1>0, <1>5 DEF Post, OrderRows
<1>6. ASSUME NEW t \in Tasks, ShopRefuses(t)
      PROVE  SoundRows'
    BY <1>0, <1>6 DEF ShopRefuses, OrderRows
<1>7. ASSUME NEW t \in Tasks, NotProvided(t)
      PROVE  SoundRows'
    <2> DEFINE o == cur[t]
    <2>1. o \in Orders /\ order[o].state \in {"prepared", "paid"} /\ Debited(o) /\ UNCHANGED <<shop, sent, told>>
        BY <1>0, <1>7 DEF NotProvided
    <2>2. PICK s \in {"paid", "review"} : order' = [order EXCEPT ![o].state = s] /\ UNCHANGED access
        BY <1>7 DEF NotProvided
    <2>3. /\ \A p \in Orders \ {o} : order'[p] = order[p]
          /\ order'[o].item = order[o].item /\ order'[o].key = order[o].key
          /\ order'[o].accepted = order[o].accepted /\ order'[o].provided = order[o].provided
          /\ order'[o].state = s
        BY <1>0, <2>1, <2>2 DEF OrderRows
    <2> HIDE DEF o
    <2>4. RowInv'
        BY <1>0, <2>1, <2>3
    <2>5. KeyInv'
        BY <1>0, <2>1, <2>3
    <2>6. AccessIsPaidFor'
        BY <1>0, <2>1, <2>2, <2>3
    <2> QED
        BY <2>4, <2>5, <2>6
<1>8. ASSUME NEW t \in Tasks, Provide(t)
      PROVE  SoundRows'
    <2> DEFINE o == cur[t]
    <2>1. o \in Orders /\ order[o].state \in {"prepared", "paid"} /\ Debited(o) /\ UNCHANGED <<shop, sent, told>>
        BY <1>0, <1>8 DEF Provide
    <2>2. order' = [order EXCEPT ![o].state = "fulfilled", ![o].provided = TRUE]
          /\ access' = access \cup {order[o].item}
        BY <1>8 DEF Provide
    <2>3. /\ \A p \in Orders \ {o} : order'[p] = order[p]
          /\ order'[o].item = order[o].item /\ order'[o].key = order[o].key
          /\ order'[o].accepted = order[o].accepted /\ order'[o].provided
          /\ order'[o].state = "fulfilled"
        BY <1>0, <2>1, <2>2 DEF OrderRows
    <2> HIDE DEF o
    <2>4. RowInv'
        BY <1>0, <2>1, <2>3
    <2>5. KeyInv'
        BY <1>0, <2>1, <2>3
    <2>6. AccessIsPaidFor'
        <3>1. ASSUME NEW i \in access'
              PROVE  \E p \in Orders : order'[p].item = i /\ order'[p].provided /\ Debited(p)'
            <4>1. CASE i = order[o].item
                BY <2>1, <2>3, <4>1
            <4>2. CASE i # order[o].item
                <5>1. PICK p \in Orders : order[p].item = i /\ order[p].provided /\ Debited(p)
                    BY <1>0, <2>2, <3>1, <4>2
                <5>2. p # o
                    BY <4>2, <5>1
                <5> QED
                    BY <2>1, <2>3, <5>1, <5>2
            <4> QED
                BY <4>1, <4>2
        <3>2. \A p \in told' : order'[p].provided
            BY <1>0, <2>1, <2>3
        <3> QED
            BY <3>1, <3>2
    <2> QED
        BY <2>4, <2>5, <2>6
<1>9. ASSUME NEW t \in Tasks, Report(t)
      PROVE  SoundRows'
    BY <1>0, <1>9 DEF Report, OrderRows
<1>10. ASSUME NEW t \in Tasks, ReportUnanswered(t)
      PROVE  SoundRows'
    BY <1>0, <1>10 DEF ReportUnanswered, OrderRows
<1>11. ASSUME NEW t \in Tasks, Rollback(t)
      PROVE  SoundRows'
    BY <1>0, <1>11 DEF Rollback, OrderRows
<1>12. ASSUME NEW u \in Users, EraseAccount(u)
      PROVE  SoundRows'
    <2>1. UNCHANGED <<shop, sent, told>> /\ access' \subseteq access
        BY <1>12 DEF EraseAccount
    <2>2. \A o \in Orders :
             /\ order'[o].item = order[o].item /\ order'[o].key = order[o].key
             /\ order'[o].accepted = order[o].accepted /\ order'[o].provided = order[o].provided
             /\ \/ order'[o].state = order[o].state
                \/ order[o].state \in {"prepared", "paid"} /\ order'[o].state = "review"
        BY <1>0, <1>12 DEF EraseAccount, OrderRows
    <2>3. RowInv' /\ KeyInv'
        BY <1>0, <2>1, <2>2
    <2>4. AccessIsPaidFor'
        BY <1>0, <2>1, <2>2, PaidForKept
    <2> QED
        BY <2>3, <2>4
<1>13. ASSUME NEW o \in Orders, Decide(o)
      PROVE  SoundRows'
    BY <1>0, <1>13 DEF Decide, ShopStates
<1>14. ASSUME NEW o \in Orders, Confirm(o)
      PROVE  SoundRows'
    BY <1>0, <1>14 DEF Confirm, ShopStates
<1>15. ASSUME NEW o \in Orders, ReviewAtShop(o)
      PROVE  SoundRows'
    BY <1>0, <1>15 DEF ReviewAtShop, ShopStates
<1>16. ASSUME NEW t \in Tasks, BeginOffer(t) \/ AskForOffer(t) \/ BeginBuy(t) \/ RefuseToBuy(t) \/
              AcceptAgain(t) \/ BeginRecovery(t) \/ RecoverNext(t) \/ EndRecovery(t)
      PROVE  SoundRows'
    BY <1>k, <1>16 DEF BeginOffer, AskForOffer, BeginBuy, RefuseToBuy, AcceptAgain, BeginRecovery,
       RecoverNext, EndRecovery
<1>17. ASSUME NEW t \in Tasks, LockOrder(t) \/ LeaveSettled(t) \/ StatusUnknown(t) \/ ShopUnavailable(t)
      PROVE  SoundRows'
    BY <1>k, <1>17 DEF LockOrder, LeaveSettled, StatusUnknown, ShopUnavailable
<1>18. ASSUME NEW u \in Users, CloseAccount(u)
      PROVE  SoundRows'
    BY <1>k, <1>18 DEF CloseAccount
<1>19. ASSUME NEW o \in Orders, Expire(o)
      PROVE  SoundRows'
    BY <1>k, <1>19 DEF Expire
<1>20. CASE UNCHANGED purchaseVars
    BY <1>k, <1>20 DEF purchaseVars
<1> HIDE DEF SoundRows
<1> QED
    BY <1>1, <1>2, <1>3, <1>4, <1>5, <1>6, <1>7, <1>8, <1>9, <1>10, <1>11, <1>12, <1>13, <1>14, <1>15, <1>16,
       <1>17, <1>18, <1>19, <1>20
    DEF Next, Request, Recovery, Delivery, Trouble, Environment

\* The invariant is inductive.
LEMMA InductiveStep == IInv /\ [Next]_purchaseVars => IInv'
BY TypeStep, TaskStep, RowStep DEF IInv, SoundRows

\* So it holds in every reachable state.
LEMMA Invariance == Spec => []IInv
<1>1. Init => IInv
    BY InitInv
<1>2. IInv /\ [Next]_purchaseVars => IInv'
    BY InductiveStep
<1> QED
    BY <1>1, <1>2, PTL DEF Spec

\* Orders and access agree with what the shop has decided: every charged order is remembered and
\* keeps its place, and what is open to a learner, or reported, was charged and provided.
THEOREM OrdersSound == Spec => []OrdersAreSound
<1>1. IInv => OrdersAreSound
    BY DEF IInv, OrdersAreSound, DebitIsRemembered, RowInv, RowOK, Debited
<1> QED
    BY <1>1, Invariance, PTL

-----------------------------------------------------------------------------
\* Orders, debits and access in the words of the contract.
ItemOf == [o \in Orders |-> order[o].item]
Charged == {o \in Orders : Debited(o)}
Closed == {u \in Users : tombstone[u]}

\* A step that changes neither debits nor access nor tombstones is no step of the contract.
LEMMA Stutters ==
    ASSUME IInv, [Next]_purchaseVars, Charged' = Charged, access' = access, tombstone' = tombstone
    PROVE  UNCHANGED <<ItemOf, Charged, access, Closed>>
<1>1. ItemOf' = ItemOf
    BY OrderStep DEF IInv, ItemOf
<1>2. Closed' = Closed
    BY DEF Closed
<1> QED
    BY <1>1, <1>2

\* Every step is a step of the contract, or none: the shop's first decision for a debit charges the
\* order, Provide provides the course, FindNoAccount and EraseAccount close the account.
LEMMA ContractStep == IInv /\ [Next]_purchaseVars => [Contract!ContractNext]_<<ItemOf, Charged, access, Closed>>
<1> SUFFICES ASSUME IInv, [Next]_purchaseVars
             PROVE  Contract!ContractNext \/ UNCHANGED <<ItemOf, Charged, access, Closed>>
    OBVIOUS
<1> USE DEF guardVars, shopVars, taskVars
<1>0. /\ order \in [Orders -> OrderRows] /\ tombstone \in [Users -> BOOLEAN] /\ shop \in [Orders -> ShopStates]
      /\ access \subseteq Items
    BY DEF IInv, TypeOK, GuardTypeOK
<1>i. ItemOf' = ItemOf
    BY OrderStep DEF IInv, ItemOf
<1>s. shop' = shop => Charged' = Charged
    BY DEF Charged, Debited
<1>1. ASSUME NEW o \in Orders, Decide(o)
      PROVE  Contract!ContractNext \/ UNCHANGED <<ItemOf, Charged, access, Closed>>
    <2>1. UNCHANGED <<access, tombstone, order>> /\ o \in sent /\ shop[o] = "undecided"
        BY <1>1 DEF Decide
    <2>2. PICK s \in {"refused", "paid"} : shop' = [shop EXCEPT ![o] = s]
        BY <1>1 DEF Decide
    <2>3. CASE s = "refused"
        <3>1. Charged' = Charged
            BY <1>0, <2>1, <2>2, <2>3 DEF Charged, Debited
        <3> QED
            BY <2>1, <3>1, Stutters
    <2>4. CASE s = "paid"
        <3>1. Charged' = Charged \cup {o}
            BY <1>0, <2>1, <2>2, <2>4 DEF Charged, Debited
        <3>2. ASSUME NEW p \in Charged
              PROVE  order[p].item # order[o].item
            <4>1. p \in Orders /\ shop[p] \notin {"undecided", "refused"} /\ p # o
                BY <2>1, <3>2 DEF Charged, Debited
            <4>2. order[p].key /\ order[o].key
                BY <2>1, <4>1 DEF IInv, RowInv, RowOK
            <4> QED
                BY <4>1, <4>2 DEF IInv, KeyInv
        <3>3. Closed' = Closed
            BY <2>1 DEF Closed
        <3>4. Contract!Charge(o)
            BY <1>i, <2>1, <3>1, <3>2, <3>3 DEF Contract!Charge, ItemOf, Charged, Closed
        <3> QED
            BY <3>4 DEF Contract!ContractNext
    <2> QED
        BY <2>3, <2>4
<1>2. ASSUME NEW o \in Orders, Confirm(o) \/ ReviewAtShop(o)
      PROVE  UNCHANGED <<ItemOf, Charged, access, Closed>>
    <2>1. Charged' = Charged /\ UNCHANGED <<access, tombstone>>
        BY <1>0, <1>2 DEF Confirm, ReviewAtShop, Charged, Debited
    <2> QED
        BY <2>1, Stutters
<1>3. ASSUME NEW u \in Users, EraseAccount(u)
      PROVE  Contract!ContractNext
    <2>1. Charged' = Charged /\ access' = {i \in access : Owner[i] # u}
        BY <1>3, <1>s DEF EraseAccount
    <2>2. Closed' = Closed \cup {u}
        BY <1>0, <1>3 DEF EraseAccount, Closed
    <2>3. Contract!Close(u)
        BY <1>i, <2>1, <2>2 DEF Contract!Close, ItemOf, Charged, Closed
    <2> QED
        BY <2>3 DEF Contract!ContractNext
<1>4. ASSUME NEW t \in Tasks, FindNoAccount(t)
      PROVE  Contract!ContractNext
    <2>1. PICK u \in Users : cur[t] \in Orders /\ u = Learner(cur[t])
        BY <1>0, <1>4, PurchaseConstantsOK DEF FindNoAccount, IInv, LocationInv, OrderRows, Learner
    <2>2. Charged' = Charged /\ access' = access
        BY <1>4, <1>s DEF FindNoAccount
    <2>3. Closed' = Closed \cup {u}
        BY <1>0, <1>4, <2>1 DEF FindNoAccount, Closed
    <2>4. Contract!Close(u)
        BY <1>i, <2>2, <2>3 DEF Contract!Close, ItemOf, Charged, Closed
    <2> QED
        BY <2>1, <2>4 DEF Contract!ContractNext
<1>5. ASSUME NEW t \in Tasks, Provide(t)
      PROVE  Contract!ContractNext
    <2>1. /\ cur[t] \in Orders /\ Learner(cur[t]) \in Users
          /\ ~tombstone[Learner(cur[t])] /\ shop[cur[t]] = "confirmed"
        BY <1>0, <1>5, PurchaseConstantsOK
           DEF Provide, IInv, LocationInv, TaskInv, TaskOK, Delivering, OrderRows, Learner
    <2>2. Charged' = Charged /\ access' = access \cup {order[cur[t]].item}
        BY <1>5, <1>s DEF Provide
    <2>3. Closed' = Closed
        BY <1>5 DEF Provide, Closed
    <2>4. Contract!ProvideCourse(cur[t])
        BY <1>i, <2>1, <2>2, <2>3 DEF Contract!ProvideCourse, ItemOf, Charged, Debited, Closed, Learner
    <2> QED
        BY <2>1, <2>4 DEF Contract!ContractNext
<1>6. ASSUME NEW t \in Tasks, BeginOffer(t) \/ AskForOffer(t) \/ RecordOffer(t) \/ BeginBuy(t) \/
             RefuseToBuy(t) \/ Accept(t) \/ AcceptAgain(t) \/ BeginRecovery(t) \/ RecoverNext(t) \/
             EndRecovery(t)
      PROVE  UNCHANGED <<ItemOf, Charged, access, Closed>>
    BY <1>s, <1>6, Stutters DEF BeginOffer, AskForOffer, RecordOffer, BeginBuy, RefuseToBuy, Accept,
       AcceptAgain, BeginRecovery, RecoverNext, EndRecovery
<1>7. ASSUME NEW t \in Tasks, LockOrder(t) \/ LeaveSettled(t) \/ ReviewErased(t) \/ Post(t) \/
             ShopRefuses(t) \/ NotProvided(t) \/ Report(t) \/ StatusUnknown(t) \/ ShopUnavailable(t) \/
             ReportUnanswered(t) \/ Rollback(t)
      PROVE  UNCHANGED <<ItemOf, Charged, access, Closed>>
    BY <1>s, <1>7, Stutters DEF LockOrder, LeaveSettled, ReviewErased, Post, ShopRefuses, NotProvided, Report,
       StatusUnknown, ShopUnavailable, ReportUnanswered, Rollback
<1>8. ASSUME NEW u \in Users, CloseAccount(u)
      PROVE  UNCHANGED <<ItemOf, Charged, access, Closed>>
    BY <1>s, <1>8, Stutters DEF CloseAccount
<1>9. ASSUME NEW o \in Orders, Expire(o)
      PROVE  UNCHANGED <<ItemOf, Charged, access, Closed>>
    BY <1>s, <1>9, Stutters DEF Expire
<1>10. CASE UNCHANGED purchaseVars
    BY <1>s, <1>10, Stutters DEF purchaseVars
<1> QED
    BY <1>1, <1>2, <1>3, <1>4, <1>5, <1>6, <1>7, <1>8, <1>9, <1>10
    DEF Next, Request, Recovery, Delivery, Trouble, Environment

\* The orders implement the contract: at most one debit per course, access only after it, and none
\* given once the account is closed.
THEOREM OrdersImplementContract == Spec => ContractBehaviour
<1>1. Init => Contract!ContractInit
    <2> SUFFICES ASSUME Init
                 PROVE  Contract!ContractInit
        OBVIOUS
    <2>1. ItemOf \in [Orders -> Items]
        BY DEF Init, ItemOf
    <2>2. Charged = {} /\ access = {} /\ Closed = {}
        BY DEF Init, GuardInit, Charged, Debited, Closed
    <2> QED
        BY <2>1, <2>2 DEF Contract!ContractInit, ItemOf, Charged, Closed
<1>2. IInv /\ [Next]_purchaseVars => [Contract!ContractNext]_<<ItemOf, Charged, access, Closed>>
    BY ContractStep
<1>3. [Contract!ContractNext]_<<ItemOf, Charged, access, Closed>> => [Contract!ContractNext]_(Contract!contractVars)
    BY DEF Contract!contractVars, ItemOf, Charged, Closed
<1> QED
    BY <1>1, <1>2, <1>3, Invariance, PTL DEF Spec, ContractBehaviour, Contract!ContractSpec
-----------------------------------------------------------------------------
\* Under READ COMMITTED a request that waited for the guard decides on current rows: an order that
\* is fulfilled is not accepted anew, and no delivery, erasure or offer touches it.
LEMMA FulfilledStays ==
    ASSUME RepeatableRead = FALSE, IInv, [Next]_purchaseVars, NEW o \in Orders, order[o].state = "fulfilled"
    PROVE  order'[o].state = "fulfilled"
<1> USE DEF guardVars, shopVars, taskVars
<1>0. /\ order \in [Orders -> OrderRows]
      /\ order[o].accepted
      /\ \A t \in Tasks : /\ pc[t] \in {"deliver", "status", "post", "report"} => cur[t] \in Orders
                          /\ pc[t] \in {"status", "post"} => order[cur[t]].state \in {"prepared", "paid"}
    BY DEF IInv, TypeOK, LocationInv, TaskInv, TaskOK, Delivering, RowInv, RowOK
<1>k. order'[o] = order[o] => order'[o].state = "fulfilled"
    OBVIOUS
<1>1. ASSUME NEW t \in Tasks, Accept(t)
      PROVE  order'[o].state = "fulfilled"
    <2>1. cmd[t].order # o
        BY <1>0, <1>1 DEF Accept, View, Rows
    <2>2. CASE KeyTaken(cmd[t].order)
        BY <1>1, <1>k, <2>2 DEF Accept
    <2>3. CASE ~KeyTaken(cmd[t].order)
        BY <1>0, <1>1, <1>k, <2>1, <2>3 DEF Accept
    <2> QED
        BY <2>2, <2>3
<1>2. ASSUME NEW t \in Tasks, RecordOffer(t)
      PROVE  order'[o].state = "fulfilled"
    BY <1>0, <1>2 DEF RecordOffer, OrderRows
<1>3. ASSUME NEW t \in Tasks, ReviewErased(t)
      PROVE  order'[o].state = "fulfilled"
    BY <1>0, <1>3 DEF ReviewErased, OrderRows
<1>4. ASSUME NEW t \in Tasks, FindNoAccount(t)
      PROVE  order'[o].state = "fulfilled"
    BY <1>0, <1>4 DEF FindNoAccount, OrderRows
<1>5. ASSUME NEW t \in Tasks, ShopRefuses(t)
      PROVE  order'[o].state = "fulfilled"
    BY <1>0, <1>5 DEF ShopRefuses, OrderRows
<1>6. ASSUME NEW t \in Tasks, NotProvided(t)
      PROVE  order'[o].state = "fulfilled"
    BY <1>0, <1>6 DEF NotProvided, OrderRows
<1>7. ASSUME NEW t \in Tasks, Provide(t)
      PROVE  order'[o].state = "fulfilled"
    BY <1>0, <1>7 DEF Provide, OrderRows
<1>8. ASSUME NEW t \in Tasks, Report(t)
      PROVE  order'[o].state = "fulfilled"
    BY <1>0, <1>8 DEF Report, OrderRows
<1>9. ASSUME NEW u \in Users, EraseAccount(u)
      PROVE  order'[o].state = "fulfilled"
    BY <1>0, <1>9 DEF EraseAccount
<1>10. ASSUME NEW t \in Tasks, BeginOffer(t) \/ AskForOffer(t) \/ BeginBuy(t) \/ RefuseToBuy(t) \/
              AcceptAgain(t) \/ BeginRecovery(t) \/ RecoverNext(t) \/ EndRecovery(t)
      PROVE  order'[o].state = "fulfilled"
    BY <1>k, <1>10 DEF BeginOffer, AskForOffer, BeginBuy, RefuseToBuy, AcceptAgain, BeginRecovery,
       RecoverNext, EndRecovery
<1>11. ASSUME NEW t \in Tasks, LockOrder(t) \/ LeaveSettled(t) \/ Post(t) \/ StatusUnknown(t) \/
              ShopUnavailable(t) \/ ReportUnanswered(t) \/ Rollback(t)
      PROVE  order'[o].state = "fulfilled"
    BY <1>k, <1>11 DEF LockOrder, LeaveSettled, Post, StatusUnknown, ShopUnavailable, ReportUnanswered, Rollback
<1>12. ASSUME NEW u \in Users, CloseAccount(u)
      PROVE  order'[o].state = "fulfilled"
    BY <1>k, <1>12 DEF CloseAccount
<1>13. ASSUME NEW p \in Orders, Decide(p) \/ Confirm(p) \/ ReviewAtShop(p) \/ Expire(p)
      PROVE  order'[o].state = "fulfilled"
    BY <1>k, <1>13 DEF Decide, Confirm, ReviewAtShop, Expire
<1>14. CASE UNCHANGED purchaseVars
    BY <1>k, <1>14 DEF purchaseVars
<1> QED
    BY <1>1, <1>2, <1>3, <1>4, <1>5, <1>6, <1>7, <1>8, <1>9, <1>10, <1>11, <1>12, <1>13, <1>14
    DEF Next, Request, Recovery, Delivery, Trouble, Environment

\* Under READ COMMITTED neither erasure, nor a late delivery, nor another acceptance takes back a
\* fulfilled order.
THEOREM FulfilledIsKept == RepeatableRead = FALSE => (Spec => FulfilledIsFinal)
<1> SUFFICES ASSUME RepeatableRead = FALSE
             PROVE  Spec => FulfilledIsFinal
    OBVIOUS
<1>1. IInv /\ [Next]_purchaseVars =>
          [\A o \in Orders : order[o].state = "fulfilled" => order'[o].state = "fulfilled"]_purchaseVars
    BY FulfilledStays
<1> QED
    BY <1>1, Invariance, PTL DEF Spec, FulfilledIsFinal
=============================================================================
