-------------------------- MODULE CoursePurchases --------------------------
(***************************************************************************)
(* Course orders (services/purchases.py): offer, buy, the delivery that    *)
(* buy and the recovery loop share, the report to the shop, and what       *)
(* account erasure does to orders.                                         *)
(*                                                                         *)
(* A task is a request or the recovery loop.  Its transaction holds the    *)
(* guards it has locked until it commits or rolls back, also across calls  *)
(* to other services.  Writes are visible at the commit, which is part of  *)
(* the action that reaches it.  An item is one learner's course.           *)
(*                                                                         *)
(* Plain reads see committed rows.  Under RepeatableRead (InnoDB, the      *)
(* default DATABASE_URL) they see the rows as they were at the first read  *)
(* of the transaction, before it waited for the guard; locked reads and    *)
(* writes always meet the current rows.                                    *)
(***************************************************************************)
EXTENDS UserGuard, Naturals

CONSTANTS Items,          \* courses of learners
          Owner,          \* [Items -> Users]
          Orders,         \* ids of CoursePurchase in the order of created_at
          RepeatableRead  \* BOOLEAN

ASSUME PurchaseConstantsOK == /\ Orders \subseteq Nat
                              /\ None \notin Orders \cup Items
                              /\ Owner \in [Items -> Users]
                              /\ RepeatableRead \in BOOLEAN

VARIABLES auth,    \* [Users -> {"live", "gone"}]: the account at the auth service
          order,   \* [Orders -> OrderRows]: committed CoursePurchase rows
          access,  \* SUBSET Items: committed CourseAccess rows
          shop,    \* [Orders -> ShopStates]: what the shop has decided about an order
          late,    \* SUBSET Orders: the deadline for providing the course has passed
          sent,    \* SUBSET Orders: the purchase command is on its way or has arrived
          told,    \* SUBSET Orders: the shop knows that the course was provided
          cmd,     \* [Tasks -> Commands]
          pc,      \* [Tasks -> Locations]
          cur,     \* [Tasks -> Orders or None]: the order in delivery
          todo,    \* [Tasks -> SUBSET Orders]: what the recovery loop has still to deliver
          seen     \* [Tasks -> rows]: what the task's plain reads see under RepeatableRead

shopVars == <<shop, late, sent, told>>
taskVars == <<pc, cur, todo, seen>>
purchaseVars == <<guardVars, auth, order, access, shopVars, cmd, taskVars>>

States == {"none", "offered", "prepared", "paid", "fulfilled", "failed", "review"}
OrderRows == [item : Items, state : States, accepted : BOOLEAN, key : BOOLEAN,
              provided : BOOLEAN, reported : BOOLEAN]
\* The shop decides an order once.  "refused" is a rejection or a failed order: no debit.
ShopStates == {"undecided", "refused", "paid", "confirmed", "review"}
Commands == [kind : {"buy"}, item : {None}, order : Orders]
            \cup [kind : {"offer"}, item : Items, order : {None}]
            \cup [kind : {"recover"}, item : {None}, order : {None}]
Locations == {"idle", "offer", "offering", "accept", "deliver", "status", "post", "report", "loop", "done"}

Debited(o) == shop[o] \in {"paid", "confirmed", "review"}
Learner(o) == Owner[order[o].item]
Rows == [order |-> order, access |-> access]
View(t) == IF RepeatableRead THEN seen[t] ELSE Rows
\* An order of the item, other than o, in one of these states.
Other(rows, o, i, states) == \E p \in Orders \ {o} : rows.order[p].item = i /\ rows.order[p].state \in states
KeyTaken(o) == \E p \in Orders \ {o} : order[p].item = order[o].item /\ order[p].key

Goto(t, location) == pc' = [pc EXCEPT ![t] = location]
Commit(t) == holder' = GuardsAfter(t)
FirstRead(t) == seen' = [seen EXCEPT ![t] = IF RepeatableRead THEN Rows ELSE None]
\* The end of one delivery: a request ends with it, the recovery loop goes on to the next
\* order, in the same transaction unless the delivery has committed.
Finish(t, committed) ==
    /\ Goto(t, IF cmd[t].kind = "recover" THEN "loop" ELSE "done")
    /\ cur' = [cur EXCEPT ![t] = None]
    /\ seen' = [seen EXCEPT ![t] = None]
    /\ IF committed \/ cmd[t].kind # "recover" THEN Commit(t) ELSE UNCHANGED holder
    /\ UNCHANGED todo

Init == /\ GuardInit
        /\ auth = [u \in Users |-> "live"]
        /\ \E item \in [Orders -> Items] :
              order = [o \in Orders |-> [item |-> item[o], state |-> "none", accepted |-> FALSE,
                                         key |-> FALSE, provided |-> FALSE, reported |-> FALSE]]
        /\ access = {}
        /\ shop = [o \in Orders |-> "undecided"]
        /\ late = {} /\ sent = {} /\ told = {}
        /\ cmd \in [Tasks -> Commands]
        /\ pc = [t \in Tasks |-> "idle"]
        /\ cur = [t \in Tasks |-> None]
        /\ todo = [t \in Tasks |-> {}]
        /\ seen = [t \in Tasks |-> None]
\* The learner may still buy this order, as far as the task's reads tell.
Buyable(t, o) == LET rows == View(t)  i == order[o].item IN
    /\ rows.order[o].state = "offered"
    /\ i \notin rows.access
    /\ ~Other(rows, o, i, {"prepared", "paid", "review", "fulfilled"})
-----------------------------------------------------------------------------
(* Faulty variants of the steps below: what TLC must reject. *)

\* Without the unique key a second acceptance only has what its reads tell.
AcceptWithoutKey(t) == LET o == cmd[t].order IN
    /\ pc[t] = "accept"
    /\ Lockable(t, Learner(o))
    /\ ~tombstone[Learner(o)]
    /\ ~View(t).order[o].accepted
    /\ Buyable(t, o)
    /\ order' = [order EXCEPT ![o].accepted = TRUE, ![o].state = "prepared", ![o].key = TRUE]
    /\ Commit(t)
    /\ Goto(t, "deliver")
    /\ cur' = [cur EXCEPT ![t] = o]
    /\ UNCHANGED <<tombstone, auth, access, shopVars, cmd, todo, seen>>

\* Recovery forgets orders that wait for their confirmation.
BeginRecoveryOfPrepared(t) ==
    /\ pc[t] = "idle"
    /\ cmd[t].kind = "recover"
    /\ todo' = [todo EXCEPT ![t] = {o \in Orders : \/ order[o].state = "prepared"
                                                   \/ order[o].state = "fulfilled" /\ ~order[o].reported}]
    /\ Goto(t, "loop")
    /\ UNCHANGED <<guardVars, auth, order, access, shopVars, cmd, cur, seen>>

\* A lost answer is taken for a rejection.
ShopUnavailableFails(t) == /\ pc[t] = "post"
                           /\ order' = [order EXCEPT ![cur[t]].state = "failed", ![cur[t]].key = FALSE]
                           /\ Finish(t, TRUE)
                           /\ UNCHANGED <<tombstone, auth, access, shopVars, cmd>>

-----------------------------------------------------------------------------
\* offer: the guard, then the checks; a pending order is shown again.
BeginOffer(t) == /\ pc[t] = "idle"
                 /\ cmd[t].kind = "offer"
                 /\ FirstRead(t)
                 /\ Goto(t, "offer")
                 /\ UNCHANGED <<guardVars, auth, order, access, shopVars, cmd, cur, todo>>

AskForOffer(t) == LET i == cmd[t].item IN
                  /\ pc[t] = "offer"
                  /\ Lockable(t, Owner[i])
                  /\ IF \/ tombstone[Owner[i]]
                        \/ i \in View(t).access
                        \/ Other(View(t), None, i, {"prepared", "paid", "review"})
                     THEN Finish(t, TRUE)
                     ELSE /\ LockUser(t, Owner[i])
                          /\ Goto(t, "offering")
                          /\ UNCHANGED <<cur, todo, seen>>
                  /\ UNCHANGED <<tombstone, auth, order, access, shopVars, cmd>>

\* The shop's offer becomes a row when the request commits.
RecordOffer(t) == /\ pc[t] = "offering"
                  /\ \E o \in Orders :
                        /\ order[o].state = "none"
                        /\ order[o].item = cmd[t].item
                        /\ order' = [order EXCEPT ![o].state = "offered"]
                  /\ Finish(t, TRUE)
                  /\ UNCHANGED <<tombstone, auth, access, shopVars, cmd>>
-----------------------------------------------------------------------------
\* buy: reads, locks the guard, and prepares the command, with a commit of its own.
BeginBuy(t) == /\ pc[t] = "idle"
               /\ cmd[t].kind = "buy"
               /\ order[cmd[t].order].state # "none"
               /\ FirstRead(t)
               /\ Goto(t, "accept")
               /\ UNCHANGED <<guardVars, auth, order, access, shopVars, cmd, cur, todo>>

RefuseToBuy(t) == LET o == cmd[t].order IN
                  /\ pc[t] = "accept"
                  /\ Lockable(t, Learner(o))
                  /\ \/ tombstone[Learner(o)]
                     \/ ~View(t).order[o].accepted /\ ~Buyable(t, o)
                  /\ Finish(t, TRUE)
                  /\ UNCHANGED <<tombstone, auth, order, access, shopVars, cmd>>

\* The unique active_key has the last word: with a second active order of the course the
\* commit fails, and the answer is the existing order.
Accept(t) == LET o == cmd[t].order IN
             /\ pc[t] = "accept"
             /\ Lockable(t, Learner(o))
             /\ ~tombstone[Learner(o)]
             /\ ~View(t).order[o].accepted
             /\ Buyable(t, o)
             /\ IF KeyTaken(o)
                THEN Finish(t, TRUE) /\ UNCHANGED order
                ELSE /\ order' = [order EXCEPT ![o].accepted = TRUE, ![o].state = "prepared", ![o].key = TRUE]
                     /\ Commit(t)
                     /\ Goto(t, "deliver")
                     /\ cur' = [cur EXCEPT ![t] = o]
                     /\ UNCHANGED <<todo, seen>>
             /\ UNCHANGED <<tombstone, auth, access, shopVars, cmd>>

\* The same acceptance again: the order is delivered, or delivered once more.
AcceptAgain(t) == LET o == cmd[t].order IN
                  /\ pc[t] = "accept"
                  /\ Lockable(t, Learner(o))
                  /\ ~tombstone[Learner(o)]
                  /\ View(t).order[o].accepted
                  /\ Commit(t)
                  /\ Goto(t, "deliver")
                  /\ cur' = [cur EXCEPT ![t] = o]
                  /\ UNCHANGED <<tombstone, auth, order, access, shopVars, cmd, todo, seen>>
-----------------------------------------------------------------------------
\* recover: one look at the orders that are not settled, then one delivery after another.
BeginRecovery(t) == /\ pc[t] = "idle"
                    /\ cmd[t].kind = "recover"
                    /\ todo' = [todo EXCEPT ![t] =
                          {o \in Orders : \/ order[o].state \in {"prepared", "paid"}
                                          \/ order[o].state = "fulfilled" /\ ~order[o].reported}]
                    /\ Goto(t, "loop")
                    /\ UNCHANGED <<guardVars, auth, order, access, shopVars, cmd, cur, seen>>

RecoverNext(t) == \E o \in todo[t] :
                  /\ pc[t] = "loop"
                  /\ \A p \in todo[t] : o <= p
                  /\ cur' = [cur EXCEPT ![t] = o]
                  /\ todo' = [todo EXCEPT ![t] = @ \ {o}]
                  /\ Goto(t, "deliver")
                  /\ UNCHANGED <<guardVars, auth, order, access, shopVars, cmd, seen>>

EndRecovery(t) == /\ pc[t] = "loop"
                  /\ todo[t] = {}
                  /\ Goto(t, "idle")
                  /\ Commit(t)
                  /\ UNCHANGED <<tombstone, auth, order, access, shopVars, cmd, cur, todo, seen>>
-----------------------------------------------------------------------------
\* deliver: the guard and the order's row, read afresh.  A return without a commit keeps the guard.
LockOrder(t) == LET o == cur[t] IN
    /\ pc[t] = "deliver"
    /\ LockUser(t, Learner(o))
    /\ \/ /\ order[o].state = "fulfilled" /\ order[o].provided /\ ~order[o].reported
          /\ Goto(t, "report")
       \/ /\ order[o].state \in {"prepared", "paid"} /\ ~tombstone[Learner(o)]
          /\ Goto(t, "status")
    /\ UNCHANGED <<tombstone, auth, order, access, shopVars, cmd, cur, todo, seen>>

LeaveSettled(t) == LET o == cur[t] IN
    /\ pc[t] = "deliver"
    /\ Lockable(t, Learner(o))
    /\ order[o].state \notin {"prepared", "paid"}
    /\ order[o].state = "fulfilled" => order[o].reported \/ ~order[o].provided
    /\ Goto(t, IF cmd[t].kind = "recover" THEN "loop" ELSE "done")
    /\ cur' = [cur EXCEPT ![t] = None]
    /\ seen' = [seen EXCEPT ![t] = None]
    /\ holder' = IF cmd[t].kind = "recover" THEN [holder EXCEPT ![Learner(o)] = t] ELSE GuardsAfter(t)
    /\ UNCHANGED <<tombstone, auth, order, access, shopVars, cmd, todo>>

ReviewErased(t) == LET o == cur[t] IN
    /\ pc[t] = "deliver"
    /\ Lockable(t, Learner(o))
    /\ order[o].state \in {"prepared", "paid"}
    /\ tombstone[Learner(o)]
    /\ order' = [order EXCEPT ![o].state = "review"]
    /\ Finish(t, TRUE)
    /\ UNCHANGED <<tombstone, auth, access, shopVars, cmd>>

\* get_user_status answers 404: the account is gone before its erasure has arrived.
FindNoAccount(t) == LET o == cur[t] IN
    /\ pc[t] = "status"
    /\ auth[Learner(o)] = "gone"
    /\ tombstone' = [tombstone EXCEPT ![Learner(o)] = TRUE]
    /\ order' = [order EXCEPT ![o].state = "review"]
    /\ Finish(t, TRUE)
    /\ UNCHANGED <<auth, access, shopVars, cmd>>

\* It answers 200, and the purchase command goes to the shop.
Post(t) == /\ pc[t] = "status"
           /\ auth[Learner(cur[t])] = "live"
           /\ sent' = sent \cup {cur[t]}
           /\ Goto(t, "post")
           /\ UNCHANGED <<guardVars, auth, order, access, shop, late, told, cmd, cur, todo, seen>>

\* The auth service answers neither 200 nor 404.
StatusUnknown(t) == /\ pc[t] = "status"
                    /\ Finish(t, FALSE)
                    /\ UNCHANGED <<tombstone, auth, order, access, shopVars, cmd>>

\* The shop answers with another status than 200, 409 and 412: the command is retained.
ShopUnavailable(t) == /\ pc[t] = "post"
                      /\ Finish(t, TRUE)
                      /\ UNCHANGED <<tombstone, auth, order, access, shopVars, cmd>>

ShopRefuses(t) == /\ pc[t] = "post"
                  /\ shop[cur[t]] = "refused"
                  /\ order' = [order EXCEPT ![cur[t]].state = "failed", ![cur[t]].key = FALSE]
                  /\ Finish(t, TRUE)
                  /\ UNCHANGED <<tombstone, auth, access, shopVars, cmd>>

\* Paid but not confirmed, in review at the shop, or confirmed after the deadline.
NotProvided(t) == LET o == cur[t] IN
    /\ pc[t] = "post"
    /\ \/ shop[o] = "paid" /\ order' = [order EXCEPT ![o].state = "paid"]
       \/ shop[o] = "review" /\ order' = [order EXCEPT ![o].state = "review"]
       \/ shop[o] = "confirmed" /\ o \in late /\ order' = [order EXCEPT ![o].state = "review"]
    /\ Finish(t, TRUE)
    /\ UNCHANGED <<tombstone, auth, access, shopVars, cmd>>

\* Confirmed in time: access and fulfilment commit together, then the report follows.
Provide(t) == LET o == cur[t] IN
    /\ pc[t] = "post"
    /\ shop[o] = "confirmed"
    /\ o \notin late
    /\ access' = access \cup {order[o].item}
    /\ order' = [order EXCEPT ![o].state = "fulfilled", ![o].provided = TRUE]
    /\ Commit(t)
    /\ IF order[o].reported THEN Finish(t, TRUE)
       ELSE /\ Goto(t, "report")
            /\ UNCHANGED <<cur, todo, seen>>
    /\ UNCHANGED <<tombstone, auth, shopVars, cmd>>

\* report: the answer 200 is recorded; any other status changes nothing and commits nothing.
Report(t) == /\ pc[t] = "report"
             /\ told' = told \cup {cur[t]}
             /\ order' = [order EXCEPT ![cur[t]].reported = TRUE]
             /\ Finish(t, TRUE)
             /\ UNCHANGED <<tombstone, auth, access, shop, late, sent, cmd>>

ReportUnanswered(t) == /\ pc[t] = "report"
                       /\ told' \in {told, told \cup {cur[t]}}
                       /\ Finish(t, FALSE)
                       /\ UNCHANGED <<tombstone, auth, order, access, shop, late, sent, cmd>>

\* An exception, a lost answer or a crash: the request fails, the loop rolls back and goes on.
Rollback(t) == /\ pc[t] \notin {"idle", "done"}
               /\ told' \in IF pc[t] = "report" THEN {told, told \cup {cur[t]}} ELSE {told}
               /\ Finish(t, TRUE)
               /\ UNCHANGED <<tombstone, auth, order, access, shop, late, sent, cmd>>
-----------------------------------------------------------------------------
CloseAccount(u) == /\ auth[u] = "live"
                   /\ auth' = [auth EXCEPT ![u] = "gone"]
                   /\ UNCHANGED <<guardVars, order, access, shopVars, cmd, taskVars>>

\* delete_user_data under the guard: the tombstone, open orders to review, no access left.
EraseAccount(u) == /\ auth[u] = "gone"
                   /\ holder[u] = None
                   /\ tombstone' = [tombstone EXCEPT ![u] = TRUE]
                   /\ order' = [o \in Orders |->
                         IF Learner(o) = u /\ order[o].state \in {"prepared", "paid"}
                         THEN [order[o] EXCEPT !.state = "review"] ELSE order[o]]
                   /\ access' = {i \in access : Owner[i] # u}
                   /\ UNCHANGED <<holder, auth, shopVars, cmd, taskVars>>

\* The shop: it decides a command that has reached it, once; it sends the confirmation; the
\* deadline passes; it takes an order into review.
Decide(o) == /\ o \in sent
             /\ shop[o] = "undecided"
             /\ \E s \in {"refused", "paid"} : shop' = [shop EXCEPT ![o] = s]
             /\ UNCHANGED <<guardVars, auth, order, access, late, sent, told, cmd, taskVars>>
Confirm(o) == /\ shop[o] = "paid"
              /\ shop' = [shop EXCEPT ![o] = "confirmed"]
              /\ UNCHANGED <<guardVars, auth, order, access, late, sent, told, cmd, taskVars>>
ReviewAtShop(o) == /\ shop[o] \in {"paid", "confirmed"}
                   /\ shop' = [shop EXCEPT ![o] = "review"]
                   /\ UNCHANGED <<guardVars, auth, order, access, late, sent, told, cmd, taskVars>>
Expire(o) == /\ o \notin late
             /\ Debited(o)
             /\ late' = late \cup {o}
             /\ UNCHANGED <<guardVars, auth, order, access, shop, sent, told, cmd, taskVars>>

Request(t) == \/ BeginOffer(t) \/ AskForOffer(t) \/ RecordOffer(t)
              \/ BeginBuy(t) \/ RefuseToBuy(t) \/ Accept(t) \/ AcceptAgain(t)
Recovery(t) == BeginRecovery(t) \/ RecoverNext(t) \/ EndRecovery(t)
Delivery(t) == \/ LockOrder(t) \/ LeaveSettled(t) \/ ReviewErased(t) \/ FindNoAccount(t) \/ Post(t)
               \/ ShopRefuses(t) \/ NotProvided(t) \/ Provide(t) \/ Report(t)
Trouble(t) == StatusUnknown(t) \/ ShopUnavailable(t) \/ ReportUnanswered(t) \/ Rollback(t)
Environment == \/ \E u \in Users : CloseAccount(u) \/ EraseAccount(u)
               \/ \E o \in Orders : Decide(o) \/ Confirm(o) \/ ReviewAtShop(o) \/ Expire(o)

Next == Environment \/ \E t \in Tasks : Request(t) \/ Recovery(t) \/ Delivery(t) \/ Trouble(t)

Spec == Init /\ [][Next]_purchaseVars

\* The loop runs again and again, whoever waits for a guard that becomes free again and
\* again gets it, and neither the database nor a service fails for ever: of infinitely many
\* attempts some succeed.
Fairness ==
    /\ \A t \in Tasks : /\ WF_purchaseVars(pc[t] # "idle" /\ (Request(t) \/ Recovery(t) \/ Delivery(t)))
                         /\ WF_purchaseVars(BeginRecovery(t))
                         /\ SF_purchaseVars(LockOrder(t) \/ LeaveSettled(t) \/ ReviewErased(t))
                         /\ SF_purchaseVars(FindNoAccount(t) \/ Post(t))
                         /\ SF_purchaseVars(ShopRefuses(t) \/ NotProvided(t) \/ Provide(t))
                         /\ SF_purchaseVars(Report(t))
    /\ \A o \in Orders : WF_purchaseVars(Decide(o)) /\ WF_purchaseVars(Confirm(o))

FairSpec == Spec /\ Fairness
-----------------------------------------------------------------------------
TypeOK == /\ GuardTypeOK
          /\ auth \in [Users -> {"live", "gone"}]
          /\ order \in [Orders -> OrderRows]
          /\ access \subseteq Items
          /\ shop \in [Orders -> ShopStates]
          /\ late \subseteq Orders /\ sent \subseteq Orders /\ told \subseteq Orders
          /\ cmd \in [Tasks -> Commands]
          /\ pc \in [Tasks -> Locations]
          /\ cur \in [Tasks -> Orders \cup {None}]
          /\ todo \in [Tasks -> SUBSET Orders]

\* Money is never forgotten: an order the shop has charged keeps its acceptance and its place
\* as the course's active order, so it is neither lost nor bought a second time.
DebitIsRemembered ==
    \A o \in Orders : Debited(o) =>
        order[o].accepted /\ order[o].key /\ order[o].state \in {"prepared", "paid", "fulfilled", "review"}

\* A course is open to a learner only through an order of this course that was charged and
\* provided, and what the shop is told was provided.
AccessIsPaidFor ==
    /\ \A i \in access : \E o \in Orders : order[o].item = i /\ order[o].provided /\ Debited(o)
    /\ \A o \in told : order[o].provided

\* Neither erasure, nor a late delivery, nor another order takes back a fulfilled order.
FulfilledIsFinal ==
    [][\A o \in Orders : order[o].state = "fulfilled" => order'[o].state = "fulfilled"]_purchaseVars

\* A charged order does not stay in between: the recovery loop fulfils it or someone reviews it.
DebitsSettle == \A o \in Orders : Debited(o) ~> order[o].state \in {"fulfilled", "review"}

\* The shop hears of every provided course, however often the report is lost.
ReportsArrive == \A o \in Orders : order[o].provided ~> order[o].reported

\* Orders and access agree with what the shop has decided.
OrdersAreSound == TypeOK /\ DebitIsRemembered /\ AccessIsPaidFor

\* Every order the shop has charged comes to an end that both services know, and stays there.
OrdersSettle == FulfilledIsFinal /\ DebitsSettle /\ ReportsArrive

\* One debit per course, access only after it, and none once the account is closed.
Contract == INSTANCE CourseContract WITH item <- [o \in Orders |-> order[o].item],
                                         charged <- {o \in Orders : Debited(o)},
                                         provided <- access,
                                         closed <- {u \in Users : tombstone[u]}
ContractBehaviour == Contract!ContractSpec
=============================================================================
