------------------------ MODULE RetainedRightsProofs ------------------------
(***************************************************************************)
(* Proofs about RetainedRights for any learners, courses, continuations    *)
(* and requests: a granted continuation can be used, what was paid for is  *)
(* preserved, and the requests implement CourseRights.                     *)
(***************************************************************************)
EXTENDS RetainedRights, FiniteSetTheorems, TLAPS

\* TypeOK without its bound on generations, which counts grants.
Rows == [kept : BOOLEAN, subject : Users \cup {None}, generation : Nat]
ShapeInv == /\ GuardTypeOK
            /\ access \subseteq Origins /\ watched \subseteq Origins /\ bought \subseteq Origins
            /\ right \in [Origins -> Rows]
            /\ grant \in [Grants -> GrantRows]
            /\ election \in [Grants -> Elections \cup {None}]
            /\ pc \in [Tasks -> {"idle", "elected", "guarded", "confirmed", "erasing", "watching"}]
            /\ job \in [Tasks -> Jobs]

\* What a request has in hand, and that it keeps the guard from lock_user to its end.
JobOK(t) == /\ pc[t] \in {"elected", "guarded", "confirmed"} =>
                  job[t].user \in Users /\ job[t].grant \in Grants /\ job[t].right \in Origins
            /\ pc[t] \in {"guarded", "confirmed"} => holder[job[t].user] = t /\ ~tombstone[job[t].user]
            /\ pc[t] = "erasing" => job[t].user \in Users /\ holder[job[t].user] = t
            /\ pc[t] = "watching" => job[t].right \in Origins
JobInv == \A t \in Tasks : JobOK(t)

GrantInv == \A g \in Grants : grant[g].state # "none" => grant[g].right \in Origins /\ grant[g].subject \in Users

\* Each time a right came back, a grant of it was withdrawn for good.
Withdrawn(o) == {g \in Grants : grant[g].state = "withdrawn" /\ grant[g].right = o}
ReturnInv == \A o \in Origins : right[o].generation <= Cardinality(Withdrawn(o))

IInv == ShapeInv /\ JobInv /\ GrantInv /\ GrantedIsUsable /\ PaidIsPreserved /\ AccessIsBacked /\ ReturnInv

\* The inductive invariant holds before any request.
LEMMA InitInv == Init => IInv
<1> SUFFICES ASSUME Init
             PROVE  IInv
    OBVIOUS
<1> USE RightConstantsOK, NoneIsNoTask DEF Init, GuardInit
<1>1. ShapeInv
    BY DEF ShapeInv, GuardTypeOK, Rows, GrantRows, Jobs, Idle
<1>2. JobInv /\ GrantInv
    BY DEF JobInv, JobOK, GrantInv
<1>3. GrantedIsUsable /\ PaidIsPreserved /\ AccessIsBacked
    BY DEF GrantedIsUsable, PaidIsPreserved, AccessIsBacked
<1>4. ASSUME NEW o \in Origins
      PROVE  right[o].generation <= Cardinality(Withdrawn(o))
    <2>1. right[o].generation = 0
        OBVIOUS
    <2>2. Withdrawn(o) = {}
        BY DEF Withdrawn
    <2>3. Cardinality(Withdrawn(o)) = 0
        BY <2>2, FS_EmptySet
    <2> QED
        BY <2>1, <2>3
<1> QED
    BY <1>1, <1>2, <1>3, <1>4 DEF IInv, ReturnInv

\* The parts of a pair.
LEMMA Pairs == ASSUME NEW o \in Origins
               PROVE  o[1] \in Users /\ o[2] \in Courses /\ o = <<o[1], o[2]>>
BY DEF Origins

\* Every step keeps the shape of rows and requests.
LEMMA ShapeStep == IInv /\ [Next]_vars => ShapeInv'
<1> SUFFICES ASSUME IInv, [Next]_vars
             PROVE  ShapeInv'
    OBVIOUS
<1> USE RightConstantsOK, NoneIsNoTask DEF IInv, JobInv, JobOK, ShapeInv, GuardTypeOK, Rows, GrantRows,
       Elections, Jobs, Idle, guardVars, learnerRows, rightRows, taskVars
<1>1. ASSUME NEW g \in Grants, Revoke(g)
      PROVE  ShapeInv'
    BY <1>1 DEF Revoke
<1>2. ASSUME NEW g \in Grants, NEW o \in Origins, NEW u \in Users, Elect(g, o, u)
      PROVE  ShapeInv'
    BY <1>2 DEF Elect
<1>3. ASSUME NEW o \in Origins, Buy(o)
      PROVE  ShapeInv'
    BY <1>3 DEF Buy
<1>4. ASSUME NEW u \in Users, FindNoAccount(u)
      PROVE  ShapeInv'
    BY <1>4 DEF FindNoAccount
<1>5. ASSUME NEW s \in Tasks, NEW g \in Grants, Look(s, g)
      PROVE  ShapeInv'
    BY <1>5 DEF Look, Start
<1>6. ASSUME NEW s \in Tasks, GuardSuccessor(s)
      PROVE  ShapeInv'
    BY <1>6 DEF GuardSuccessor, LockUser, Goto
<1>7. ASSUME NEW s \in Tasks, Confirm(s)
      PROVE  ShapeInv'
    BY <1>7 DEF Confirm, Goto
<1>8. ASSUME NEW s \in Tasks, Continue(s)
      PROVE  ShapeInv'
    <2>1. job[s].user \in Users /\ job[s].grant \in Grants /\ job[s].right \in Origins
        BY <1>8 DEF Continue
    <2>2. access' \subseteq Origins
        BY <1>8, <2>1, Pairs DEF Continue, Origins
    <2>3. right' \in [Origins -> Rows]
        BY <1>8, <2>1 DEF Continue
    <2>4. grant' \in [Grants -> GrantRows]
        BY <1>8, <2>1 DEF Continue
    <2>5. job' \in [Tasks -> Jobs]
        BY <1>8 DEF Continue, End
    <2> QED
        BY <1>8, <2>2, <2>3, <2>4, <2>5 DEF Continue, End, GuardsAfter
<1>9. ASSUME NEW s \in Tasks, NEW u \in Users, BeginErasure(s, u)
      PROVE  ShapeInv'
    BY <1>9 DEF BeginErasure, Start, LockUser, Lockable, CoursesOf
<1>10. ASSUME NEW s \in Tasks, Erase(s)
      PROVE  ShapeInv'
    <2>1. right' \in [Origins -> Rows]
        BY <1>10 DEF Erase, RightsReturned
    <2>2. grant' \in [Grants -> GrantRows]
        <3>1. ASSUME NEW g \in Grants
              PROVE  [grant[g] EXCEPT !.state = "withdrawn"] \in GrantRows
            <4>1. PICK row \in GrantRows : row = grant[g]
                OBVIOUS
            <4>2. [row EXCEPT !.state = "withdrawn"] \in GrantRows
                OBVIOUS
            <4> QED
                BY <4>1, <4>2
        <3>2. PICK u : grant' = GrantsWithdrawn(u)
            BY <1>10 DEF Erase
        <3> QED
            BY <3>1, <3>2 DEF GrantsWithdrawn
    <2>3. job' \in [Tasks -> Jobs]
        BY <1>10 DEF Erase, End
    <2>4. access' \subseteq Origins /\ watched' \subseteq Origins
        BY <1>10 DEF Erase, WithoutRows
    <2>5. tombstone' \in [Users -> BOOLEAN] /\ holder' \in [Users -> Tasks \cup {None}]
        BY <1>10 DEF Erase, End, GuardsAfter
    <2> QED
        BY <1>10, <2>1, <2>2, <2>3, <2>4, <2>5 DEF Erase, End
<1>11. ASSUME NEW s \in Tasks, NEW o \in Origins, Watch(s, o)
      PROVE  ShapeInv'
    BY <1>11, Pairs DEF Watch, Start
<1>12. ASSUME NEW s \in Tasks, CommitWatch(s)
      PROVE  ShapeInv'
    BY <1>12 DEF CommitWatch, End, GuardsAfter
<1>13. ASSUME NEW s \in Tasks, GiveUp(s)
      PROVE  ShapeInv'
    BY <1>13 DEF GiveUp, End, GuardsAfter
<1>14. CASE UNCHANGED vars
    BY <1>14 DEF vars
<1> QED
    BY <1>1, <1>2, <1>3, <1>4, <1>5, <1>6, <1>7,
       <1>8, <1>9, <1>10, <1>11, <1>12, <1>13, <1>14 DEF Next, Shop, Delivery, Erasure, Watching

\* No other transaction takes the guard of a request, or sets its tombstone.
LEMMA JobStep == IInv /\ [Next]_vars => JobInv'
<1> SUFFICES ASSUME IInv, [Next]_vars
             PROVE  JobInv'
    OBVIOUS
<1> USE RightConstantsOK, NoneIsNoTask DEF IInv, JobInv, JobOK, ShapeInv, GuardTypeOK, Elections, Jobs,
       Idle, guardVars, learnerRows, rightRows, taskVars
<1>1. ASSUME NEW g \in Grants, Revoke(g)
      PROVE  JobInv'
    BY <1>1 DEF Revoke
<1>2. ASSUME NEW g \in Grants, NEW o \in Origins, NEW u \in Users, Elect(g, o, u)
      PROVE  JobInv'
    BY <1>2 DEF Elect
<1>3. ASSUME NEW o \in Origins, Buy(o)
      PROVE  JobInv'
    BY <1>3 DEF Buy
<1>4. ASSUME NEW u \in Users, FindNoAccount(u)
      PROVE  JobInv'
    BY <1>4 DEF FindNoAccount
<1>5. ASSUME NEW s \in Tasks, NEW g \in Grants, Look(s, g)
      PROVE  JobInv'
    BY <1>5 DEF Look, Start
<1>6. ASSUME NEW s \in Tasks, GuardSuccessor(s)
      PROVE  JobInv'
    <2> SUFFICES ASSUME NEW t \in Tasks
                 PROVE  JobOK(t)'
        OBVIOUS
    <2>1. CASE t = s
        BY <1>6, <2>1 DEF GuardSuccessor, LockUser, Goto
    <2>2. CASE t # s
        BY <1>6, <2>2 DEF GuardSuccessor, LockUser, Lockable, Goto
    <2> QED
        BY <2>1, <2>2
<1>7. ASSUME NEW s \in Tasks, Confirm(s)
      PROVE  JobInv'
    BY <1>7 DEF Confirm, Goto
<1>8. ASSUME NEW s \in Tasks, Continue(s)
      PROVE  JobInv'
    BY <1>8 DEF Continue, End, GuardsAfter
<1>9. ASSUME NEW s \in Tasks, NEW u \in Users, BeginErasure(s, u)
      PROVE  JobInv'
    BY <1>9 DEF BeginErasure, Start, LockUser, Lockable, CoursesOf
<1>10. ASSUME NEW s \in Tasks, Erase(s)
      PROVE  JobInv'
    BY <1>10 DEF Erase, End, GuardsAfter, RightsReturned, GrantsWithdrawn, WithoutRows
<1>11. ASSUME NEW s \in Tasks, NEW o \in Origins, Watch(s, o)
      PROVE  JobInv'
    BY <1>11 DEF Watch, Start
<1>12. ASSUME NEW s \in Tasks, CommitWatch(s)
      PROVE  JobInv'
    BY <1>12 DEF CommitWatch, End, GuardsAfter
<1>13. ASSUME NEW s \in Tasks, GiveUp(s)
      PROVE  JobInv'
    BY <1>13 DEF GiveUp, End, GuardsAfter
<1>14. CASE UNCHANGED vars
    BY <1>14 DEF vars
<1> QED
    BY <1>1, <1>2, <1>3, <1>4, <1>5, <1>6, <1>7,
       <1>8, <1>9, <1>10, <1>11, <1>12, <1>13, <1>14 DEF Next, Shop, Delivery, Erasure, Watching

\* A grant names its right and its subject.
LEMMA GrantStep == IInv /\ [Next]_vars => GrantInv'
<1> SUFFICES ASSUME IInv, [Next]_vars
             PROVE  GrantInv'
    OBVIOUS
<1> USE RightConstantsOK, NoneIsNoTask DEF IInv, JobInv, JobOK, ShapeInv, GrantInv, GrantRows, guardVars,
       learnerRows, rightRows, taskVars
<1>1. ASSUME NEW g \in Grants, Revoke(g)
      PROVE  GrantInv'
    BY <1>1 DEF Revoke
<1>2. ASSUME NEW g \in Grants, NEW o \in Origins, NEW u \in Users, Elect(g, o, u)
      PROVE  GrantInv'
    BY <1>2 DEF Elect
<1>3. ASSUME NEW o \in Origins, Buy(o)
      PROVE  GrantInv'
    BY <1>3 DEF Buy
<1>4. ASSUME NEW u \in Users, FindNoAccount(u)
      PROVE  GrantInv'
    BY <1>4 DEF FindNoAccount
<1>5. ASSUME NEW s \in Tasks, NEW g \in Grants, Look(s, g)
      PROVE  GrantInv'
    BY <1>5 DEF Look, Start
<1>6. ASSUME NEW s \in Tasks, GuardSuccessor(s)
      PROVE  GrantInv'
    BY <1>6 DEF GuardSuccessor, LockUser, Goto
<1>7. ASSUME NEW s \in Tasks, Confirm(s)
      PROVE  GrantInv'
    BY <1>7 DEF Confirm, Goto
<1>8. ASSUME NEW s \in Tasks, Continue(s)
      PROVE  GrantInv'
    BY <1>8 DEF Continue, End, GuardsAfter
<1>9. ASSUME NEW s \in Tasks, NEW u \in Users, BeginErasure(s, u)
      PROVE  GrantInv'
    BY <1>9 DEF BeginErasure, Start, LockUser, Lockable, CoursesOf
<1>10. ASSUME NEW s \in Tasks, Erase(s)
      PROVE  GrantInv'
    BY <1>10 DEF Erase, GrantsWithdrawn
<1>11. ASSUME NEW s \in Tasks, NEW o \in Origins, Watch(s, o)
      PROVE  GrantInv'
    BY <1>11 DEF Watch, Start
<1>12. ASSUME NEW s \in Tasks, CommitWatch(s)
      PROVE  GrantInv'
    BY <1>12 DEF CommitWatch, End, GuardsAfter
<1>13. ASSUME NEW s \in Tasks, GiveUp(s)
      PROVE  GrantInv'
    BY <1>13 DEF GiveUp, End, GuardsAfter
<1>14. CASE UNCHANGED vars
    BY <1>14 DEF vars
<1> QED
    BY <1>1, <1>2, <1>3, <1>4, <1>5, <1>6, <1>7,
       <1>8, <1>9, <1>10, <1>11, <1>12, <1>13, <1>14 DEF Next, Shop, Delivery, Erasure, Watching

\* Deliveries and erasures change a right, its grants and the access together.
LEMMA UsableStep == IInv /\ [Next]_vars => GrantedIsUsable'
<1> SUFFICES ASSUME IInv, [Next]_vars
             PROVE  GrantedIsUsable'
    OBVIOUS
<1> USE RightConstantsOK, NoneIsNoTask DEF IInv, JobInv, JobOK, ShapeInv, GrantInv, GrantRows, Rows,
       GrantedIsUsable, guardVars, learnerRows, rightRows, taskVars
<1>1. ASSUME NEW g \in Grants, Revoke(g)
      PROVE  GrantedIsUsable'
    BY <1>1 DEF Revoke
<1>2. ASSUME NEW g \in Grants, NEW o \in Origins, NEW u \in Users, Elect(g, o, u)
      PROVE  GrantedIsUsable'
    BY <1>2 DEF Elect
<1>3. ASSUME NEW o \in Origins, Buy(o)
      PROVE  GrantedIsUsable'
    BY <1>3 DEF Buy
<1>4. ASSUME NEW u \in Users, FindNoAccount(u)
      PROVE  GrantedIsUsable'
    BY <1>4 DEF FindNoAccount
<1>5. ASSUME NEW s \in Tasks, NEW g \in Grants, Look(s, g)
      PROVE  GrantedIsUsable'
    BY <1>5 DEF Look, Start
<1>6. ASSUME NEW s \in Tasks, GuardSuccessor(s)
      PROVE  GrantedIsUsable'
    BY <1>6 DEF GuardSuccessor, LockUser, Goto
<1>7. ASSUME NEW s \in Tasks, Confirm(s)
      PROVE  GrantedIsUsable'
    BY <1>7 DEF Confirm, Goto
<1>8. ASSUME NEW s \in Tasks, Continue(s)
      PROVE  GrantedIsUsable'
    <2> DEFINE o == job[s].right
               u == job[s].user
               g == job[s].grant
    <2>1. /\ u \in Users /\ g \in Grants /\ o \in Origins
          /\ right' = [right EXCEPT ![o].subject = u]
          /\ access' = access \cup {<<u, o[2]>>}
          /\ grant' = [grant EXCEPT ![g] = [state |-> "granted", right |-> o, subject |-> u]]
          /\ right[o].kept /\ right[o].subject \in {None, u}
          /\ grant[g].state = "none"
        BY <1>8 DEF Continue
    <2> HIDE DEF o, u, g
    <2>2. ASSUME NEW h \in Grants, grant'[h].state = "granted"
          PROVE  /\ right'[grant'[h].right].kept
                 /\ right'[grant'[h].right].subject = grant'[h].subject
                 /\ <<grant'[h].subject, grant'[h].right[2]>> \in access'
        <3>1. CASE h = g
            BY <2>1, <3>1
        <3>2. CASE h # g
            <4>1. grant'[h] = grant[h] /\ grant[h].right \in Origins /\ grant[h].subject \in Users
                BY <2>1, <2>2, <3>2
            <4> QED
                BY <2>1, <2>2, <4>1
        <3> QED
            BY <3>1, <3>2
    <2>3. ASSUME NEW p \in Origins, right'[p].subject # None
          PROVE  \E h \in Grants : /\ grant'[h].state = "granted"
                                   /\ grant'[h].right = p /\ grant'[h].subject = right'[p].subject
        <3>1. CASE p = o
            <4>1. grant'[g] = [state |-> "granted", right |-> o, subject |-> u] /\ right'[p].subject = u
                BY <2>1, <3>1
            <4> QED
                BY <2>1, <3>1, <4>1
        <3>2. CASE p # o
            <4>1. right'[p] = right[p]
                BY <2>1, <3>2
            <4>2. PICK h \in Grants : /\ grant[h].state = "granted"
                                      /\ grant[h].right = p /\ grant[h].subject = right[p].subject
                BY <2>3, <4>1
            <4>3. grant'[h] = grant[h]
                BY <2>1, <4>2
            <4> QED
                BY <4>1, <4>2, <4>3
        <3> QED
            BY <3>1, <3>2
    <2> QED
        BY <2>2, <2>3
<1>9. ASSUME NEW s \in Tasks, NEW u \in Users, BeginErasure(s, u)
      PROVE  GrantedIsUsable'
    BY <1>9 DEF BeginErasure, Start, LockUser, Lockable, CoursesOf
<1>10. ASSUME NEW s \in Tasks, Erase(s)
      PROVE  GrantedIsUsable'
    BY <1>10 DEF Erase, End, GuardsAfter, RightsReturned, GrantsWithdrawn, WithoutRows
<1>11. ASSUME NEW s \in Tasks, NEW o \in Origins, Watch(s, o)
      PROVE  GrantedIsUsable'
    BY <1>11 DEF Watch, Start
<1>12. ASSUME NEW s \in Tasks, CommitWatch(s)
      PROVE  GrantedIsUsable'
    BY <1>12 DEF CommitWatch, End, GuardsAfter
<1>13. ASSUME NEW s \in Tasks, GiveUp(s)
      PROVE  GrantedIsUsable'
    BY <1>13 DEF GiveUp, End, GuardsAfter
<1>14. CASE UNCHANGED vars
    BY <1>14 DEF vars
<1> QED
    BY <1>1, <1>2, <1>3, <1>4, <1>5, <1>6, <1>7,
       <1>8, <1>9, <1>10, <1>11, <1>12, <1>13, <1>14 DEF Next, Shop, Delivery, Erasure, Watching

\* An erasure preserves a bought course, or gives back the right to it that the learner continued.
LEMMA PaidStep == IInv /\ [Next]_vars => PaidIsPreserved'
<1> SUFFICES ASSUME IInv, [Next]_vars
             PROVE  PaidIsPreserved'
    OBVIOUS
<1> USE RightConstantsOK, NoneIsNoTask DEF IInv, JobInv, JobOK, ShapeInv, GrantInv, GrantRows, Rows,
       PaidIsPreserved, guardVars, learnerRows, rightRows, taskVars
<1>1. ASSUME NEW g \in Grants, Revoke(g)
      PROVE  PaidIsPreserved'
    BY <1>1 DEF Revoke
<1>2. ASSUME NEW g \in Grants, NEW o \in Origins, NEW u \in Users, Elect(g, o, u)
      PROVE  PaidIsPreserved'
    BY <1>2 DEF Elect
<1>3. ASSUME NEW o \in Origins, Buy(o)
      PROVE  PaidIsPreserved'
    BY <1>3 DEF Buy
<1>4. ASSUME NEW u \in Users, FindNoAccount(u)
      PROVE  PaidIsPreserved'
    BY <1>4 DEF FindNoAccount
<1>5. ASSUME NEW s \in Tasks, NEW g \in Grants, Look(s, g)
      PROVE  PaidIsPreserved'
    BY <1>5 DEF Look, Start
<1>6. ASSUME NEW s \in Tasks, GuardSuccessor(s)
      PROVE  PaidIsPreserved'
    BY <1>6 DEF GuardSuccessor, LockUser, Goto
<1>7. ASSUME NEW s \in Tasks, Confirm(s)
      PROVE  PaidIsPreserved'
    BY <1>7 DEF Confirm, Goto
<1>8. ASSUME NEW s \in Tasks, Continue(s)
      PROVE  PaidIsPreserved'
    <2>1. bought' = bought /\ access \subseteq access'
        BY <1>8 DEF Continue
    <2>2. \A o \in Origins : right'[o].kept = right[o].kept
        BY <1>8 DEF Continue
    <2>3. \A g \in Grants : grant[g].state = "withdrawn" => grant'[g] = grant[g]
        BY <1>8 DEF Continue
    <2>4. bought \subseteq Origins /\ \A g \in Grants : grant[g].state = "withdrawn" => grant[g].right \in Origins
        OBVIOUS
    <2> QED
        BY <2>1, <2>2, <2>3, <2>4
<1>9. ASSUME NEW s \in Tasks, NEW u \in Users, BeginErasure(s, u)
      PROVE  PaidIsPreserved'
    BY <1>9 DEF BeginErasure, Start, LockUser, Lockable, CoursesOf
<1>10. ASSUME NEW s \in Tasks, Erase(s)
      PROVE  PaidIsPreserved'
    <2> DEFINE u == job[s].user
    <2>1. /\ u \in Users
          /\ right' = RightsReturned(u, Preserved(s))
          /\ grant' = GrantsWithdrawn(u)
          /\ access' = WithoutRows(u, access)
          /\ bought' = bought
        BY <1>10 DEF Erase
    <2> HIDE DEF u
    <2>2. \A p \in Origins : right[p].kept => right'[p].kept
        BY <2>1 DEF RightsReturned
    <2>3. \A h \in Grants : /\ grant'[h].right = grant[h].right /\ grant'[h].subject = grant[h].subject
                            /\ grant[h].state = "withdrawn" => grant'[h].state = "withdrawn"
                            /\ grant[h].state = "granted" /\ grant[h].subject = u
                                  => grant'[h].state = "withdrawn"
        BY <2>1 DEF GrantsWithdrawn
    <2> SUFFICES ASSUME NEW o \in bought
                 PROVE  \/ o \in access'
                        \/ right'[o].kept
                        \/ \E h \in Grants : /\ grant'[h].state = "withdrawn" /\ grant'[h].subject = o[1]
                                             /\ grant'[h].right[2] = o[2] /\ right'[grant'[h].right].kept
        BY <2>1
    <2>4. o \in Origins /\ o[1] \in Users /\ o[2] \in Courses /\ o = <<o[1], o[2]>>
        BY Pairs
    <2>5. CASE o \in access /\ o[1] = u
        <3>1. CASE \E r \in Continued(u) : r[2] = o[2]
            <4>1. PICK r \in Origins : right[r].subject = u /\ r[2] = o[2]
                BY <3>1 DEF Continued
            <4>2. PICK h \in Grants : /\ grant[h].state = "granted"
                                      /\ grant[h].right = r /\ grant[h].subject = u
                BY <2>1, <4>1, RightConstantsOK DEF GrantedIsUsable
            <4>3. right[r].kept
                BY <4>2 DEF GrantedIsUsable
            <4>4. grant'[h].state = "withdrawn" /\ grant'[h].subject = o[1] /\ grant'[h].right = r
                BY <2>3, <2>5, <4>2
            <4> QED
                BY <2>2, <4>1, <4>3, <4>4
        <3>2. CASE ~\E r \in Continued(u) : r[2] = o[2]
            <4>1. o[2] \in CoursesOf(u, access)
                BY <2>4, <2>5 DEF CoursesOf
            <4>2. o[2] \in Preserved(s)
                BY <3>2, <4>1 DEF Preserved, u
            <4>3. o \in {u} \X Preserved(s)
                BY <2>4, <2>5, <4>2
            <4> QED
                BY <2>1, <2>4, <4>3 DEF RightsReturned
        <3> QED
            BY <3>1, <3>2
    <2>6. CASE o \in access /\ o[1] # u
        BY <2>1, <2>6 DEF WithoutRows
    <2>7. CASE right[o].kept
        BY <2>2, <2>4, <2>7
    <2>8. CASE \E h \in Grants : /\ grant[h].state = "withdrawn" /\ grant[h].subject = o[1]
                                 /\ grant[h].right[2] = o[2] /\ right[grant[h].right].kept
        <3>1. PICK h \in Grants : /\ grant[h].state = "withdrawn" /\ grant[h].subject = o[1]
                                  /\ grant[h].right[2] = o[2] /\ right[grant[h].right].kept
            BY <2>8
        <3>2. grant[h].right \in Origins
            BY <3>1
        <3> QED
            BY <2>2, <2>3, <3>1, <3>2
    <2> QED
        BY <2>5, <2>6, <2>7, <2>8
<1>11. ASSUME NEW s \in Tasks, NEW o \in Origins, Watch(s, o)
      PROVE  PaidIsPreserved'
    BY <1>11 DEF Watch, Start
<1>12. ASSUME NEW s \in Tasks, CommitWatch(s)
      PROVE  PaidIsPreserved'
    BY <1>12 DEF CommitWatch, End, GuardsAfter
<1>13. ASSUME NEW s \in Tasks, GiveUp(s)
      PROVE  PaidIsPreserved'
    BY <1>13 DEF GiveUp, End, GuardsAfter
<1>14. CASE UNCHANGED vars
    BY <1>14 DEF vars
<1> QED
    BY <1>1, <1>2, <1>3, <1>4, <1>5, <1>6, <1>7,
       <1>8, <1>9, <1>10, <1>11, <1>12, <1>13, <1>14 DEF Next, Shop, Delivery, Erasure, Watching

\* Only purchases, deliveries and erasures write access, rights and grants.
LEMMA QuietSteps ==
    ASSUME [Next]_vars, \A o \in Origins : ~Buy(o), \A t \in Tasks : ~Continue(t) /\ ~Erase(t)
    PROVE  UNCHANGED <<access, bought, right, grant>>
<1> USE DEF learnerRows, rightRows
<1>1. CASE UNCHANGED vars
    BY <1>1 DEF vars
<1>2. CASE Shop
    BY <1>2 DEF Shop, Elect, Revoke
<1>3. CASE \E u \in Users : FindNoAccount(u)
    BY <1>3 DEF FindNoAccount
<1>4. CASE \E t \in Tasks : Delivery(t)
    BY <1>4 DEF Delivery, Look, GuardSuccessor, Confirm
<1>5. CASE \E t \in Tasks : Erasure(t)
    BY <1>5 DEF Erasure, BeginErasure
<1>6. CASE \E t \in Tasks : Watching(t) \/ GiveUp(t)
    BY <1>6 DEF Watching, Watch, CommitWatch, GiveUp
<1> QED
    BY <1>1, <1>2, <1>3, <1>4, <1>5, <1>6 DEF Next

\* An erasure takes the learner's access with the rights that the learner continued; a delivery
\* gives both.
LEMMA BackedStep == IInv /\ [Next]_vars => AccessIsBacked'
<1> SUFFICES ASSUME IInv, [Next]_vars
             PROVE  AccessIsBacked'
    OBVIOUS
<1> USE RightConstantsOK DEF IInv, ShapeInv, Rows
<1>1. ASSUME NEW o \in access
      PROVE  o \in Origins /\ o[1] \in Users
                /\ (o \in bought \/ \E r \in Origins : right[r].subject = o[1] /\ r[2] = o[2])
    BY Pairs DEF AccessIsBacked, Continued
<1> SUFFICES ASSUME NEW o \in access', o \notin bought'
             PROVE  \E r \in Origins : right'[r].subject = o[1] /\ r[2] = o[2]
    BY DEF AccessIsBacked, Continued
<1>2. ASSUME NEW p \in Origins, Buy(p)
      PROVE  \E r \in Origins : right'[r].subject = o[1] /\ r[2] = o[2]
    BY <1>1, <1>2 DEF Buy, rightRows
<1>3. ASSUME NEW s \in Tasks, Continue(s)
      PROVE  \E r \in Origins : right'[r].subject = o[1] /\ r[2] = o[2]
    <2>1. PICK p \in Origins, u \in Users : p = job[s].right /\ u = job[s].user
        BY <1>3 DEF Continue, JobInv, JobOK
    <2>2. /\ right[p].subject \in {None, u}
          /\ right' = [right EXCEPT ![p].subject = u]
          /\ access' = access \cup {<<u, p[2]>>} /\ bought' = bought
        BY <1>3, <2>1 DEF Continue
    <2>3. CASE o = <<u, p[2]>>
        BY <2>2, <2>3
    <2>4. CASE o \in access
        <3>1. o[1] \in Users
            BY <1>1, <2>4
        <3>2. PICK r \in Origins : right[r].subject = o[1] /\ r[2] = o[2]
            BY <1>1, <2>2, <2>4
        <3>3. right'[r].subject = right[r].subject
            <4>1. CASE r = p
                BY <2>2, <3>1, <3>2, <4>1
            <4>2. CASE r # p
                BY <2>2, <4>2
            <4> QED
                BY <4>1, <4>2
        <3> QED
            BY <3>2, <3>3
    <2> QED
        BY <2>2, <2>3, <2>4
<1>4. ASSUME NEW s \in Tasks, Erase(s)
      PROVE  \E r \in Origins : right'[r].subject = o[1] /\ r[2] = o[2]
    <2>1. o \in access /\ o[1] # job[s].user /\ bought' = bought
        BY <1>4 DEF Erase, WithoutRows
    <2>2. PICK r \in Origins : right[r].subject = o[1] /\ r[2] = o[2]
        BY <1>1, <2>1
    <2>3. right'[r].subject = right[r].subject
        BY <1>4, <2>1, <2>2 DEF Erase, RightsReturned
    <2> QED
        BY <2>2, <2>3
<1>5. CASE UNCHANGED <<access, bought, right, grant>>
    BY <1>1, <1>5
<1> QED
    BY <1>2, <1>3, <1>4, <1>5, QuietSteps

\* A withdrawn grant stays so, and a right comes back only with the grant that its subject had.
LEMMA ReturnStep == IInv /\ [Next]_vars => ReturnInv'
<1> SUFFICES ASSUME IInv, [Next]_vars
             PROVE  ReturnInv'
    OBVIOUS
<1> USE RightConstantsOK DEF IInv, ShapeInv, Rows
<1>1. ASSUME NEW o \in Origins
      PROVE  /\ right[o].generation \in Nat
             /\ IsFiniteSet(Withdrawn(o)) /\ IsFiniteSet(Withdrawn(o)')
             /\ Cardinality(Withdrawn(o)) \in Nat /\ Cardinality(Withdrawn(o)') \in Nat
             /\ Withdrawn(o) \subseteq Withdrawn(o)' => Cardinality(Withdrawn(o)) <= Cardinality(Withdrawn(o)')
             /\ right[o].generation <= Cardinality(Withdrawn(o))
    <2>1. Withdrawn(o) \subseteq Grants /\ Withdrawn(o)' \subseteq Grants
        BY DEF Withdrawn
    <2>2. IsFiniteSet(Withdrawn(o)) /\ IsFiniteSet(Withdrawn(o)')
        BY <2>1, FS_Subset
    <2>3. Cardinality(Withdrawn(o)) \in Nat /\ Cardinality(Withdrawn(o)') \in Nat
        BY <2>2, FS_CardinalityType
    <2>4. Withdrawn(o) \subseteq Withdrawn(o)' => Cardinality(Withdrawn(o)) <= Cardinality(Withdrawn(o)')
        BY <2>2, FS_Subset
    <2> QED
        BY <2>2, <2>3, <2>4 DEF ReturnInv
<1> SUFFICES ASSUME NEW o \in Origins
             PROVE  right'[o].generation <= Cardinality(Withdrawn(o)')
    BY DEF ReturnInv, Withdrawn
<1>2. ASSUME right'[o].generation = right[o].generation, Withdrawn(o) \subseteq Withdrawn(o)'
      PROVE  right'[o].generation <= Cardinality(Withdrawn(o)')
    BY <1>1, <1>2
<1>3. ASSUME NEW p \in Origins, Buy(p)
      PROVE  right'[o].generation <= Cardinality(Withdrawn(o)')
    BY <1>2, <1>3 DEF Buy, rightRows, Withdrawn
<1>4. ASSUME NEW s \in Tasks, Continue(s)
      PROVE  right'[o].generation <= Cardinality(Withdrawn(o)')
    <2>1. PICK p \in Origins, u \in Users, g \in Grants : p = job[s].right /\ u = job[s].user /\ g = job[s].grant
        BY <1>4 DEF Continue, JobInv, JobOK
    <2>2. /\ right' = [right EXCEPT ![p].subject = u]
          /\ grant[g].state = "none"
          /\ grant' = [grant EXCEPT ![g] = [state |-> "granted", right |-> p, subject |-> u]]
        BY <1>4, <2>1 DEF Continue
    <2>3. right'[o].generation = right[o].generation
        BY <2>2
    <2>4. Withdrawn(o) \subseteq Withdrawn(o)'
        BY <2>2 DEF Withdrawn
    <2> QED
        BY <1>2, <2>3, <2>4
<1>5. ASSUME NEW s \in Tasks, Erase(s)
      PROVE  right'[o].generation <= Cardinality(Withdrawn(o)')
    <2>1. PICK u \in Users : u = job[s].user
        BY <1>5 DEF Erase, JobInv, JobOK
    <2>2. grant' = GrantsWithdrawn(u) /\ right' = RightsReturned(u, Preserved(s))
        BY <1>5, <2>1 DEF Erase
    <2>3. \A g \in Grants :
              /\ grant'[g].right = grant[g].right
              /\ grant[g].state = "withdrawn" => grant'[g].state = "withdrawn"
              /\ grant[g].state = "granted" /\ grant[g].subject = u => grant'[g].state = "withdrawn"
        BY <2>2 DEF GrantsWithdrawn, GrantRows
    <2>4. Withdrawn(o) \subseteq Withdrawn(o)'
        BY <2>3 DEF Withdrawn
    <2>5. CASE right[o].subject = u
        <3>1. right'[o].generation = right[o].generation + 1
            BY <2>2, <2>5 DEF RightsReturned
        <3>2. PICK g \in Grants : grant[g].state = "granted" /\ grant[g].right = o /\ grant[g].subject = u
            BY <2>5 DEF GrantedIsUsable
        <3>3. g \notin Withdrawn(o) /\ Withdrawn(o) \cup {g} \subseteq Withdrawn(o)'
            BY <2>3, <2>4, <3>2 DEF Withdrawn
        <3>4. Cardinality(Withdrawn(o) \cup {g}) = Cardinality(Withdrawn(o)) + 1
            BY <1>1, <3>3, FS_AddElement
        <3>5. Cardinality(Withdrawn(o) \cup {g}) <= Cardinality(Withdrawn(o)')
            BY <1>1, <3>3, FS_Subset
        <3> QED
            BY <1>1, <3>1, <3>4, <3>5
    <2>6. CASE right[o].subject # u
        <3>1. right'[o].generation = right[o].generation
            BY <1>1, <2>2, <2>6 DEF RightsReturned
        <3> QED
            BY <1>2, <2>4, <3>1
    <2> QED
        BY <2>5, <2>6
<1>6. CASE UNCHANGED <<access, bought, right, grant>>
    BY <1>2, <1>6 DEF Withdrawn
<1> QED
    BY <1>3, <1>4, <1>5, <1>6, QuietSteps

\* Every step keeps the inductive invariant.
LEMMA NextInv == IInv /\ [Next]_vars => IInv'
BY ShapeStep, JobStep, GrantStep, UsableStep, PaidStep, BackedStep, ReturnStep DEF IInv

\* Rows, requests and guards agree at every moment.
THEOREM InvariantHolds == Spec => []IInv
BY InitInv, NextInv, PTL DEF Spec

\* A right comes back at most once for each continuation that the shop elects, and access is
\* bought or continued.
THEOREM RightsSound == Spec => []RightsAreSound
<1>1. IInv => RightsAreSound
    <2> SUFFICES ASSUME IInv
                 PROVE  RightsAreSound
        OBVIOUS
    <2>1. Cardinality(Grants) \in Nat
        BY RightConstantsOK, FS_CardinalityType
    <2>2. ASSUME NEW o \in Origins
          PROVE  right[o] \in RightRows
        <3>1. right[o] \in Rows /\ right[o].generation <= Cardinality(Withdrawn(o))
            BY DEF IInv, ShapeInv, ReturnInv
        <3>2. Withdrawn(o) \subseteq Grants
            BY DEF Withdrawn
        <3>3. /\ Cardinality(Withdrawn(o)) \in Nat
              /\ Cardinality(Withdrawn(o)) <= Cardinality(Grants)
            BY <3>2, RightConstantsOK, FS_Subset, FS_CardinalityType
        <3>4. right[o].generation \in 0 .. Cardinality(Grants)
            BY <2>1, <3>1, <3>3 DEF Rows
        <3> QED
            BY <3>1, <3>4 DEF Rows, RightRows
    <2>3. right \in [Origins -> RightRows]
        BY <2>2 DEF IInv, ShapeInv
    <2> QED
        BY <2>3 DEF IInv, ShapeInv, TypeOK, RightsAreSound
<1> QED
    BY <1>1, InvariantHolds, PTL

\* A granted continuation is its subject's, with access, whoever is erased in between.
THEOREM GrantsUsable == Spec => []GrantedIsUsable
<1>1. IInv => GrantedIsUsable
    BY DEF IInv
<1> QED
    BY <1>1, InvariantHolds, PTL

\* A course that was paid for is open to its learner, or preserved.
THEOREM PaidPreserved == Spec => []PaidIsPreserved
<1>1. IInv => PaidIsPreserved
    BY DEF IInv
<1> QED
    BY <1>1, InvariantHolds, PTL

\* Each delivery of a right and each erasure is a step of CourseRights; all else stutters.
THEOREM ImplementsRights == Spec => RightsBehaviour
<1>1. Init => Rights!RightsInit
    BY DEF Init, GuardInit, Rights!RightsInit, Origins
<1>2. IInv /\ [Next]_vars => [Rights!RightsNext]_(Rights!rightsVars)
    <2> SUFFICES ASSUME IInv, [Next]_vars
                 PROVE  Rights!RightsNext \/ UNCHANGED Rights!rightsVars
        OBVIOUS
    <2> USE RightConstantsOK, NoneIsNoTask DEF IInv, JobInv, JobOK, ShapeInv, GuardTypeOK, Rows
    <2>1. ASSUME NEW u \in Users, FindNoAccount(u)
          PROVE  Rights!FindClosed(u)
        BY <2>1 DEF FindNoAccount, Rights!FindClosed, learnerRows, rightRows
    <2>2. ASSUME NEW s \in Tasks, Continue(s)
          PROVE  Rights!RightsNext \/ UNCHANGED Rights!rightsVars
        <3>1. PICK o \in Origins, u \in Users : o = job[s].right /\ u = job[s].user
            BY <2>2 DEF Continue
        <3>2. /\ tombstone' = tombstone /\ ~tombstone[u]
              /\ right[o].kept /\ tombstone[o[1]] /\ right[o].subject \in {None, u}
              /\ right' = [right EXCEPT ![o].subject = u]
            BY <2>2, <3>1 DEF Continue
        <3>3. UNCHANGED <<{v \in Users : tombstone[v]}, {p \in Origins : right[p].kept},
                          [p \in Origins |-> right[p].generation]>>
            BY <3>2
        <3>4. CASE right[o].subject = None
            <4>1. [p \in Origins |-> right[p].subject]' = [[p \in Origins |-> right[p].subject] EXCEPT ![o] = u]
                BY <3>2
            <4>2. o[1] \in Users
                BY Pairs
            <4>3. Rights!UseRight(o, u)
                BY <3>2, <3>3, <3>4, <4>1, <4>2 DEF Rights!UseRight
            <4> QED
                BY <4>3 DEF Rights!RightsNext, Origins
        <3>5. CASE right[o].subject = u
            <4>1. UNCHANGED [p \in Origins |-> right[p].subject]
                BY <3>2, <3>5
            <4> QED
                BY <3>3, <4>1 DEF Rights!rightsVars
        <3> QED
            BY <3>2, <3>4, <3>5
    <2>3. ASSUME NEW s \in Tasks, Erase(s)
          PROVE  Rights!RightsNext
        <3>1. PICK u \in Users : u = job[s].user
            BY <2>3 DEF Erase
        <3> DEFINE courses == Preserved(s)
        <3>2. courses \in SUBSET Courses
            BY DEF Preserved, CoursesOf, Jobs
        <3> HIDE DEF courses
        <3>3. tombstone' = [tombstone EXCEPT ![u] = TRUE] /\ right' = RightsReturned(u, courses)
            BY <2>3, <3>1 DEF Erase, courses
        <3>4. {v \in Users : tombstone[v]}' = {v \in Users : tombstone[v]} \cup {u}
            BY <3>3
        <3>5. {p \in Origins : right[p].kept}' = {p \in Origins : right[p].kept} \cup ({u} \X courses)
            BY <3>2, <3>3 DEF RightsReturned, Origins
        <3>6. [p \in Origins |-> right[p].subject]'
                  = [p \in Origins |-> IF right[p].subject = u THEN None ELSE right[p].subject]
            BY <3>3 DEF RightsReturned
        <3>7. [p \in Origins |-> right[p].generation]'
                  = [p \in Origins |-> IF right[p].subject = u THEN right[p].generation + 1
                                                              ELSE right[p].generation]
            BY <3>3 DEF RightsReturned
        <3>8. Rights!CloseAccount(u)
            <4>1. \E cs \in SUBSET Courses :
                      {p \in Origins : right[p].kept}' = {p \in Origins : right[p].kept} \cup ({u} \X cs)
                BY <3>2, <3>5
            <4>2. [p \in Origins |-> right[p].subject]'
                      = [r \in DOMAIN [p \in Origins |-> right[p].subject] |->
                            IF [p \in Origins |-> right[p].subject][r] = u THEN None
                            ELSE [p \in Origins |-> right[p].subject][r]]
                BY <3>6
            <4>3. [p \in Origins |-> right[p].generation]'
                      = [r \in DOMAIN [p \in Origins |-> right[p].subject] |->
                            IF [p \in Origins |-> right[p].subject][r] = u
                            THEN [p \in Origins |-> right[p].generation][r] + 1
                            ELSE [p \in Origins |-> right[p].generation][r]]
                BY <3>7
            <4> QED
                BY <3>4, <4>1, <4>2, <4>3 DEF Rights!CloseAccount
        <3> QED
            BY <3>8 DEF Rights!RightsNext
    <2>4. ASSUME UNCHANGED <<tombstone, right>>
          PROVE  UNCHANGED Rights!rightsVars
        BY <2>4 DEF Rights!rightsVars
    <2>5. CASE Shop \/ \E o \in Origins : Buy(o)
        BY <2>4, <2>5 DEF Shop, Elect, Revoke, Buy, guardVars, rightRows
    <2>6. ASSUME NEW s \in Tasks, Delivery(s) \/ Erasure(s) \/ Watching(s) \/ GiveUp(s), ~Continue(s), ~Erase(s)
          PROVE  UNCHANGED Rights!rightsVars
        BY <2>4, <2>6 DEF Delivery, Erasure, Watching, Look, GuardSuccessor, Confirm, BeginErasure, Watch,
                          CommitWatch, GiveUp, guardVars, rightRows
    <2>7. CASE UNCHANGED vars
        BY <2>4, <2>7 DEF vars, guardVars, rightRows
    <2> QED
        BY <2>1, <2>2, <2>3, <2>5, <2>6, <2>7 DEF Next, Rights!RightsNext
<1> QED
    BY <1>1, <1>2, InvariantHolds, PTL DEF Spec, RightsBehaviour, Rights!RightsSpec
=============================================================================
