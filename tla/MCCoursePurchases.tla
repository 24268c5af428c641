-------------------------- MODULE MCCoursePurchases --------------------------
(***************************************************************************)
(* CoursePurchases with the recovery loop (task 0) and one or two requests *)
(* that offer a course or buy one of two orders.  One order has been       *)
(* offered at the start, the other may have been.                          *)
(***************************************************************************)
EXTENDS CoursePurchases, TLC

CONSTANTS u1, u2, i1, i2

OneRequest == 0 .. 1
TwoRequests == 0 .. 2
MCOwner == [i \in Items |-> IF i = i1 THEN u1 ELSE u2]
OneLearner == [i \in Items |-> u1]

Loop == [kind |-> "recover", item |-> None, order |-> None]
Requests == <<[kind |-> "offer", item |-> i1, order |-> None],
              [kind |-> "buy", item |-> None, order |-> 1],
              [kind |-> "buy", item |-> None, order |-> 2]>>

MCInit == /\ GuardInit
          /\ auth = [u \in Users |-> "live"]
          /\ \E second \in {"none", "offered"}, item \in [Orders -> Items] :
                /\ item[1] = i1
                /\ order = [o \in Orders |->
                      [item |-> item[o], state |-> IF o = 1 THEN "offered" ELSE second, accepted |-> FALSE,
                       key |-> FALSE, provided |-> FALSE, reported |-> FALSE]]
          /\ access = {}
          /\ shop = [o \in Orders |-> "undecided"]
          /\ late = {} /\ sent = {} /\ told = {}
          \* Requests differ in nothing but their commands: one order of these is enough.
          /\ \E r \in [Tasks \ {0} -> DOMAIN Requests] :
                /\ \A s, t \in DOMAIN r : s < t => r[s] <= r[t]
                /\ cmd = [t \in Tasks |-> IF t = 0 THEN Loop ELSE Requests[r[t]]]
          /\ pc = [t \in Tasks |-> "idle"]
          /\ cur = [t \in Tasks |-> None]
          /\ todo = [t \in Tasks |-> {}]
          /\ seen = [t \in Tasks |-> None]
MCSpec == MCInit /\ [][Next]_purchaseVars
MCFairSpec == MCSpec /\ Fairness
=============================================================================
