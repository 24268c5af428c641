--------------------------- MODULE CourseContract ---------------------------
(***************************************************************************)
(* What buying a course promises, without transactions, retries or lost    *)
(* answers: a learner pays at most once for a course, gets it only if an   *)
(* order for it is paid, and gets nothing any more once the account is     *)
(* closed.                                                                 *)
(***************************************************************************)
CONSTANTS Users, Items, Owner, Orders

VARIABLES item,      \* [Orders -> Items]: what each order is for
          charged,   \* SUBSET Orders: orders the shop has taken coins for
          provided,  \* SUBSET Items: courses the learners can open
          closed     \* SUBSET Users

contractVars == <<item, charged, provided, closed>>

ContractInit == /\ item \in [Orders -> Items]
                /\ charged = {}
                /\ provided = {}
                /\ closed = {}

\* An order may be charged late, even for a closed account: its command was on the way.
Charge(o) == /\ \A p \in charged : item[p] # item[o]
             /\ charged' = charged \cup {o}
             /\ UNCHANGED <<item, provided, closed>>

ProvideCourse(o) == /\ o \in charged
                    /\ Owner[item[o]] \notin closed
                    /\ provided' = provided \cup {item[o]}
                    /\ UNCHANGED <<item, charged, closed>>

\* Closing an account may take its courses now or leave them to a later erasure.
Close(u) == /\ closed' = closed \cup {u}
            /\ provided' \in {provided, {i \in provided : Owner[i] # u}}
            /\ UNCHANGED <<item, charged>>

ContractNext == \/ \E o \in Orders : Charge(o) \/ ProvideCourse(o)
                \/ \E u \in Users : Close(u)

ContractSpec == ContractInit /\ [][ContractNext]_contractVars
=============================================================================
