---------------------------- MODULE MCXPReceipts ----------------------------
(***************************************************************************)
(* XPReceipts on two learners, an operation of the internal endpoint (1)   *)
(* that arrives with three different requests, one of them for the other   *)
(* learner, and an operation of the lesson engine (2).  Tasks are          *)
(* interchangeable, so one order of each workload stands for all.          *)
(***************************************************************************)
EXTENDS XPReceipts

CONSTANTS u1, u2, ra, rb, rc

MCTasks == 1 .. 4
MCRecipient == [r \in Requests |-> IF r = rc THEN u2 ELSE u1]
MCEngineRequest == [o \in EngineOps |-> ra]

Unkeyed(kind, u) == [kind |-> kind, op |-> None, req |-> None, user |-> u]

\* Any three of eight transactions, ...
Workload == <<Deliver(1, ra), Deliver(1, rb), Deliver(1, rc), Book(2),
              Unkeyed("progress", u1), Unkeyed("progress", u2), Unkeyed("erase", u1), Unkeyed("erase", u2)>>
AnyThree == \E i, j, k \in DOMAIN Workload :
               /\ i <= j /\ j <= k
               /\ cmd = <<Workload[i], Workload[j], Workload[k], Workload[1]>>
               /\ pc = [t \in Tasks |-> IF t = 4 THEN "done" ELSE "idle"]
\* ... or two erasures beside two deliveries to the same learner.
TwoErasures == /\ cmd = <<Deliver(1, ra), Book(2), Unkeyed("erase", u1), Unkeyed("erase", u1)>>
               /\ pc = [t \in Tasks |-> "idle"]

MCInit == (AnyThree \/ TwoErasures) /\ Init
MCSpec == MCInit /\ [][Next]_vars /\ Fairness
=============================================================================
