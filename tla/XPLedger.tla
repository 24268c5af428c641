------------------------------ MODULE XPLedger ------------------------------
(***************************************************************************)
(* What the delivery of experience points promises, without transactions,  *)
(* locks or messages: an operation is credited to its learner at most      *)
(* once, a frozen account receives nothing more, and the erasure of an     *)
(* account removes its points and the memory of its operations together.   *)
(***************************************************************************)
EXTENDS Naturals

CONSTANTS Users, Ops, Progress

Sources == Ops \cup {Progress}

VARIABLES credits,  \* [Users -> [Sources -> Nat]]: how often a source went into the account's counter
          used,     \* SUBSET Ops: operations with a receipt
          frozen    \* SUBSET Users

ledgerVars == <<credits, used, frozen>>

NoCredits == [s \in Sources |-> 0]

LedgerInit == /\ credits = [u \in Users |-> NoCredits]
              /\ used = {}
              /\ frozen = {}

\* An operation is credited once, to an account that is not frozen.
Credit(u, o) == /\ u \notin frozen
                /\ o \notin used
                /\ used' = used \cup {o}
                /\ credits' = [credits EXCEPT ![u][o] = @ + 1]
                /\ UNCHANGED frozen

\* Points without an operation: they may be repeated, but never on a frozen account.
CreditProgress(u) == /\ u \notin frozen
                     /\ credits' = [credits EXCEPT ![u][Progress] = @ + 1]
                     /\ UNCHANGED <<used, frozen>>

Freeze(u) == /\ frozen' = frozen \cup {u}
             /\ UNCHANGED <<credits, used>>

\* Counter and receipts go in one step; nobody else's counter or receipt goes with them.
Erase(u) == /\ frozen' = frozen \cup {u}
            /\ used' = used \ {o \in Ops : credits[u][o] > 0}
            /\ credits' = [credits EXCEPT ![u] = NoCredits]

LedgerNext == \E u \in Users : \/ \E o \in Ops : Credit(u, o)
                               \/ CreditProgress(u)
                               \/ Freeze(u)
                               \/ Erase(u)

LedgerSpec == LedgerInit /\ [][LedgerNext]_ledgerVars
=============================================================================
