--------------------------- MODULE RetainedRights ---------------------------
(***************************************************************************)
(* Rights to courses that outlive the account they come from               *)
(* (services/retained_rights.py): account erasure preserves what the       *)
(* learner could open, and the backend delivers a right to the successor   *)
(* whom the shop names.                                                    *)
(*                                                                         *)
(* A task is a request: a delivery, an erasure, or a learner's watching of *)
(* a course, which takes no guard.  Plain reads see committed rows.  Rows  *)
(* that a transaction writes under the guard it holds are written by its   *)
(* commit.  Requests that are refused, fail or crash give up: they change  *)
(* nothing, and which of them say why is left out, as is the answer to a   *)
(* delivery that was made before, which only reads its row.                *)
(***************************************************************************)
EXTENDS UserGuard, Naturals, FiniteSets

CONSTANTS Courses,
          Open,      \* courses one may watch without access: free, or open for premium or today
          Grants     \* ids the shop gives to the continuations it elects

ASSUME RightConstantsOK == /\ Open \subseteq Courses
                           /\ IsFiniteSet(Grants)
                           /\ None \notin Users \cup Grants

VARIABLES access,    \* CourseAccess: pairs of a learner and a course
          watched,   \* LastWatch: the same
          right,     \* [Origins -> RightRows]: RetainedCourseRight, unique by source and course
          grant,     \* [Grants -> GrantRows]: CourseRightGrant
          election,  \* [Grants -> Elections or None]: what the shop answers now
          pc, job,   \* where a task is, and what it has in hand
          bought     \* pairs with a fulfilled CoursePurchase; erasure keeps it

learnerRows == <<access, watched, bought>>
rightRows == <<right, grant>>
taskVars == <<pc, job>>
vars == <<guardVars, learnerRows, rightRows, election, taskVars>>

Origins == Users \X Courses
Elections == [right : Origins, successor : Users]
RightRows == [kept : BOOLEAN, subject : Users \cup {None}, generation : 0 .. Cardinality(Grants)]
GrantRows == [state : {"none", "granted", "withdrawn"}, right : Origins \cup {None}, subject : Users \cup {None}]
Idle == [user |-> None, grant |-> None, right |-> None, started |-> {}]
Jobs == [user : Users \cup {None}, grant : Grants \cup {None}, right : Origins \cup {None},
         started : SUBSET Courses]

CoursesOf(u, pairs) == {c \in Courses : <<u, c>> \in pairs}
Continued(u) == {o \in Origins : right[o].subject = u}
\* An erasure that has reached a right keeps its row locked.
BeingReleased(o) == \E t \in Tasks : pc[t] = "erasing" /\ job[t].user = right[o].subject

Start(t, location, values) == /\ pc[t] = "idle"
                              /\ pc' = [pc EXCEPT ![t] = location]
                              /\ job' = [job EXCEPT ![t] = values]
Goto(t, location) == pc' = [pc EXCEPT ![t] = location] /\ UNCHANGED job
\* The end of a request's transaction, by commit or rollback.
End(t) == /\ pc' = [pc EXCEPT ![t] = "idle"]
          /\ job' = [job EXCEPT ![t] = Idle]
          /\ holder' = GuardsAfter(t)

Init == /\ GuardInit
        /\ access = {} /\ watched = {} /\ bought = {}
        /\ right = [o \in Origins |-> [kept |-> FALSE, subject |-> None, generation |-> 0]]
        /\ grant = [g \in Grants |-> [state |-> "none", right |-> None, subject |-> None]]
        /\ election = [g \in Grants |-> None]
        /\ pc = [t \in Tasks |-> "idle"]
        /\ job = [t \in Tasks |-> Idle]
-----------------------------------------------------------------------------
(* Faulty variants of the steps below: what TLC must reject. *)

\* The tombstone of the successor is not looked at.
GuardErasedSuccessor(t) == /\ pc[t] = "elected"
                           /\ LockUser(t, job[t].user)
                           /\ grant[job[t].grant].state = "none"
                           /\ Goto(t, "guarded")
                           /\ UNCHANGED <<tombstone, learnerRows, rightRows, election>>

\* Only the courses that were watched are preserved, not those that were bought.
PreservedStarted(t) == job[t].started \ {o[2] : o \in Continued(job[t].user)}
GrantsUnchanged(u) == grant
RowsUnchanged(u, rows) == rows
-----------------------------------------------------------------------------
\* The shop elects, withdraws and replaces continuations of the rights it was told of, until
\* they are delivered.
Elect(g, o, u) == /\ grant[g].state = "none"
                  /\ right[o].kept
                  /\ u # o[1]
                  /\ election' = [election EXCEPT ![g] = [right |-> o, successor |-> u]]
                  /\ UNCHANGED <<guardVars, learnerRows, rightRows, taskVars>>
Revoke(g) == /\ grant[g].state = "none"
             /\ election' = [election EXCEPT ![g] = None]
             /\ UNCHANGED <<guardVars, learnerRows, rightRows, taskVars>>

\* deliver: an id without a grant is asked for at the shop, before any lock.
Look(t, g) == /\ grant[g].state = "none"
              /\ election[g] # None
              /\ Start(t, "elected", [user |-> election[g].successor, grant |-> g,
                                      right |-> election[g].right, started |-> {}])
              /\ UNCHANGED <<guardVars, learnerRows, rightRows, election>>

\* The successor's guard; the grant and the tombstone are read again behind it.
GuardSuccessor(t) == /\ pc[t] = "elected"
                     /\ LockUser(t, job[t].user)
                     /\ grant[job[t].grant].state = "none"
                     /\ ~tombstone[job[t].user]
                     /\ Goto(t, "guarded")
                     /\ UNCHANGED <<tombstone, learnerRows, rightRows, election>>

\* The shop is asked again: the election may have changed while the request waited.
Confirm(t) == /\ pc[t] = "guarded"
              /\ election[job[t].grant] = [right |-> job[t].right, successor |-> job[t].user]
              /\ Goto(t, "confirmed")
              /\ UNCHANGED <<guardVars, learnerRows, rightRows, election>>

\* The right's row is locked, and its user looked at; then access, right and grant commit.
Continue(t) == LET o == job[t].right  u == job[t].user IN
    /\ pc[t] = "confirmed"
    /\ grant[job[t].grant].state = "none"
    /\ ~BeingReleased(o)
    /\ right[o].kept /\ tombstone[o[1]]
    /\ right[o].subject \in {None, u}
    /\ right' = [right EXCEPT ![o].subject = u]
    /\ access' = access \cup {<<u, o[2]>>}
    /\ grant' = [grant EXCEPT ![job[t].grant] = [state |-> "granted", right |-> o, subject |-> u]]
    /\ End(t)
    /\ UNCHANGED <<tombstone, watched, bought, election>>
-----------------------------------------------------------------------------
\* delete_user_data under the guard: preserve_before_erasure reads what the learner can open ...
BeginErasure(t, u) == /\ Start(t, "erasing", [user |-> u, grant |-> None, right |-> None,
                                              started |-> CoursesOf(u, watched)])
                      /\ LockUser(t, u)
                      /\ UNCHANGED <<tombstone, learnerRows, rightRows, election>>

\* ... and keeps it, except for courses that the learner continued; those rights come back and
\* their grants are withdrawn.  Rows of the learner go, those of a late watching as well.
Preserved(t) == LET u == job[t].user IN
    (CoursesOf(u, access) \cup job[t].started) \ {o[2] : o \in Continued(u)}
RightsReturned(u, courses) == [o \in Origins |->
    [kept |-> right[o].kept \/ o \in {u} \X courses,
     subject |-> IF right[o].subject = u THEN None ELSE right[o].subject,
     generation |-> right[o].generation + (IF right[o].subject = u THEN 1 ELSE 0)]]
GrantsWithdrawn(u) == [g \in Grants |->
    IF grant[g].state = "granted" /\ grant[g].subject = u
    THEN [grant[g] EXCEPT !.state = "withdrawn"] ELSE grant[g]]
WithoutRows(u, rows) == {o \in rows : o[1] # u}

Erase(t) == LET u == job[t].user IN
    /\ pc[t] = "erasing"
    /\ tombstone' = [tombstone EXCEPT ![u] = TRUE]
    /\ right' = RightsReturned(u, Preserved(t))
    /\ grant' = GrantsWithdrawn(u)
    /\ access' = WithoutRows(u, access)
    /\ watched' = WithoutRows(u, watched)
    /\ End(t)
    /\ UNCHANGED <<bought, election>>

\* has_course_access reads committed rows.
Watch(t, o) == /\ o[2] \in Open \/ o \in access \cup watched
               /\ Start(t, "watching", [user |-> o[1], grant |-> None, right |-> o, started |-> {}])
               /\ UNCHANGED <<guardVars, learnerRows, rightRows, election>>

\* LastWatch.update: neither the guard nor the tombstone is looked at.
CommitWatch(t) == /\ pc[t] = "watching"
                  /\ watched' = watched \cup {job[t].right}
                  /\ End(t)
                  /\ UNCHANGED <<tombstone, access, bought, rightRows, election>>

\* The delivery of a bought course, which holds the guard up to its commit (CoursePurchases).
Buy(o) == /\ holder[o[1]] = None
          /\ ~tombstone[o[1]]
          /\ access' = access \cup {o}
          /\ bought' = bought \cup {o}
          /\ UNCHANGED <<guardVars, watched, rightRows, election, taskVars>>

\* A purchase that finds no account leaves the tombstone to a later erasure (CoursePurchases).
FindNoAccount(u) == /\ holder[u] = None
                    /\ tombstone' = [tombstone EXCEPT ![u] = TRUE]
                    /\ UNCHANGED <<holder, learnerRows, rightRows, election, taskVars>>

GiveUp(t) == /\ pc[t] # "idle"
             /\ End(t)
             /\ UNCHANGED <<tombstone, learnerRows, rightRows, election>>

Shop == \E g \in Grants : Revoke(g) \/ \E o \in Origins, u \in Users : Elect(g, o, u)
Delivery(t) == (\E g \in Grants : Look(t, g)) \/ GuardSuccessor(t) \/ Confirm(t) \/ Continue(t)
Erasure(t) == (\E u \in Users : BeginErasure(t, u)) \/ Erase(t)
Watching(t) == (\E o \in Origins : Watch(t, o)) \/ CommitWatch(t)

Next == \/ Shop
        \/ \E o \in Origins : Buy(o)
        \/ \E u \in Users : FindNoAccount(u)
        \/ \E t \in Tasks : Delivery(t) \/ Erasure(t) \/ Watching(t) \/ GiveUp(t)

Spec == Init /\ [][Next]_vars
-----------------------------------------------------------------------------
\* Rows and requests keep their shape, and a right comes back at most once for each grant.
TypeOK == /\ GuardTypeOK
          /\ access \subseteq Origins /\ watched \subseteq Origins
          /\ bought \subseteq Origins
          /\ right \in [Origins -> RightRows]
          /\ grant \in [Grants -> GrantRows]
          /\ election \in [Grants -> Elections \cup {None}]
          /\ pc \in [Tasks -> {"idle", "elected", "guarded", "confirmed", "erasing", "watching"}]
          /\ job \in [Tasks -> Jobs]

\* Access comes from a purchase of the learner or from a right that the learner continues; it
\* does not outlive the continuation.
AccessIsBacked ==
    \A o \in access : o \in bought \/ \E r \in Continued(o[1]) : r[2] = o[2]

\* A granted continuation can be used: the right is its subject's, with access to the course.
\* And nobody has a right without a grant.
GrantedIsUsable ==
    /\ \A g \in Grants : grant[g].state = "granted" =>
          LET o == grant[g].right IN
          /\ right[o].kept
          /\ right[o].subject = grant[g].subject
          /\ <<grant[g].subject, o[2]>> \in access
    /\ \A o \in Origins : right[o].subject # None =>
          \E g \in Grants : /\ grant[g].state = "granted"
                            /\ grant[g].right = o /\ grant[g].subject = right[o].subject

\* What was paid for is not lost in an erasure: the learner has access, or a right was kept, of
\* the learner or of the course that the learner continued then.
PaidIsPreserved ==
    \A o \in bought : \/ o \in access
                      \/ right[o].kept
                      \/ \E g \in Grants : /\ grant[g].state = "withdrawn" /\ grant[g].subject = o[1]
                                           /\ grant[g].right[2] = o[2] /\ right[grant[g].right].kept

\* Rows keep their shape, and access its reason.
RightsAreSound == TypeOK /\ AccessIsBacked

\* A continuation is no source of a further right: whoever a right comes from has bought the
\* course, or could watch it without.  The code does not keep this: see "Disagreements" in the README.
ContinuationsYieldNoRight == \A o \in Origins : right[o].kept => o \in bought \/ o[2] \in Open

Rights == INSTANCE CourseRights WITH closed <- {u \in Users : tombstone[u]},
                                     kept <- {o \in Origins : right[o].kept},
                                     user <- [o \in Origins |-> right[o].subject],
                                     generation <- [o \in Origins |-> right[o].generation]
\* One user at a time, from erasure to erasure: the deliveries implement CourseRights.
RightsBehaviour == Rights!RightsSpec
=============================================================================
