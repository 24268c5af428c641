------------------------- MODULE LearnerWorkProofs -------------------------
(***************************************************************************)
(* Proofs about LearnerWork for any requests, releases, works and number   *)
(* of kept receipts, under either isolation level: saves follow each       *)
(* other, repeats are answered with what is true, recent saves keep their  *)
(* receipts, what is shown of a plan can be saved, the pages agree about   *)
(* every course, and no unit that is withdrawn takes "done" away.          *)
(***************************************************************************)
EXTENDS LearnerWork, FiniteSetTheorems, WellFoundedInduction, TLAPS

PlanRows == {Written(r) : r \in PlanRequests}
ProjectRows == [revision : Nat, state : {None} \cup {r.state : r \in ProjectRequests}]
Requests(k) == IF k = "plan" THEN PlanRequests ELSE ProjectRequests

\* A client sends requests of the behaviour's kind.
OpenInv == /\ kind \in {"plan", "project"}
           /\ open = [c \in Clients |-> open[c]]
           /\ \A c \in Clients : open[c] # Idle => open[c].request \in Requests(kind)

\* The rows are those of requests.
RowInv == /\ plan \in PlanRows \cup {None}
          /\ project \in [ProjectCourses -> ProjectRows]
          /\ made \in [ProjectCourses -> Seq(ProjectRequests)]

\* A receipt is of the request that made its revision: there is one for each revision at most.
Receipt(k, n, r) == [id |-> r.id, course |-> k, revision |-> n, print |-> ProjectPrint(r)]
ReceiptInv == \A x \in receipts : \E k \in ProjectCourses : \E n \in 1 .. Len(made[k]) : x = Receipt(k, n, made[k][n])

IInv == OpenInv /\ RowInv /\ ReceiptInv /\ TypeOK /\ PlanAnswersAreTrue /\ RecentSavesHaveReceipts

\* The inductive invariant holds before any request.
LEMMA InitInv == Init => IInv
<1> SUFFICES ASSUME Init
             PROVE  IInv
    OBVIOUS
<1> USE PlanConstantsOK DEF Init, WorkInit, PlanInit, ProjectInit
<1>1. OpenInv
    BY DEF OpenInv
<1>2. RowInv /\ ReceiptInv
    BY DEF RowInv, ReceiptInv, ProjectRows, NoProject
<1>3. TypeOK
    BY DEF TypeOK, NoProject
<1>4. PlanAnswersAreTrue /\ RecentSavesHaveReceipts
    BY DEF PlanAnswersAreTrue, RecentSavesHaveReceipts
<1> QED
    BY <1>1, <1>2, <1>3, <1>4 DEF IInv

\* What save_plan writes, and what it answers.
WritesPlan(r) == /\ ~erased /\ Len(r.steps) <= StepLimit
                 /\ CheckSteps(deployed, r.steps)
                 /\ Revision(plan) = r.expected
                 /\ plan' = Written(r)
\* A plan is replaced only if it was the expected one.
LEMMA PlanSaved ==
    ASSUME NEW c \in Clients, SavePlan(c)
    PROVE  WritesPlan(open[c].request) \/ UNCHANGED plan
BY DEF SavePlan, WritesPlan, Swaps, Revision

\* What save_project writes.
WritesProject(r) ==
    /\ ~erased
    /\ r.for \in ProjectCourses
    /\ project[r.for].revision = r.expected
    /\ project' = [project EXCEPT ![r.for] = [revision |-> r.expected + 1, state |-> r.state]]
    /\ receipts' = Newest(receipts \cup {Receipt(r.for, r.expected + 1, r)}, r.for)
    /\ made' = [made EXCEPT ![r.for] = Append(@, r)]
\* A project and its receipt are written together.
LEMMA ProjectSaved ==
    ASSUME NEW c \in Clients, SaveProject(c)
    PROVE  WritesProject(open[c].request) \/ UNCHANGED projectVars
BY DEF SaveProject, ProjectSwaps, WritesProject, Receipt

\* Plans are written by save_plan and erasure, projects by save_project and erasure.
LEMMA Writers ==
    ASSUME [Next]_vars
    PROVE  /\ \/ UNCHANGED plan
              \/ plan' = None /\ erased'
              \/ kind = "plan" /\ \E c \in Clients : SavePlan(c) /\ WritesPlan(open[c].request)
           /\ \/ UNCHANGED projectVars
              \/ Erase
              \/ kind = "project" /\ \E c \in Clients : SaveProject(c) /\ WritesProject(open[c].request)
<1>1. CASE UNCHANGED vars
    BY <1>1 DEF vars, planVars, projectVars
<1>2. ASSUME NEW c \in Clients, PlanStep(c)
      PROVE  UNCHANGED projectVars /\ (UNCHANGED plan \/ (kind = "plan" /\ SavePlan(c) /\ WritesPlan(open[c].request)))
    <2>1. kind = "plan" /\ (ArrivePlan(c) \/ SavePlan(c)) /\ UNCHANGED projectVars
        BY <1>2 DEF PlanStep
    <2>2. ArrivePlan(c) => UNCHANGED plan
        BY DEF ArrivePlan, planVars
    <2>3. SavePlan(c) => WritesPlan(open[c].request) \/ UNCHANGED plan
        BY PlanSaved
    <2> QED
        BY <2>1, <2>2, <2>3
<1>3. ASSUME NEW c \in Clients, ProjectStep(c)
      PROVE  UNCHANGED plan /\ (UNCHANGED projectVars \/ (kind = "project" /\ SaveProject(c) /\ WritesProject(open[c].request)))
    <2>1. kind = "project" /\ (ArriveProject(c) \/ SaveProject(c)) /\ UNCHANGED plan
        BY <1>3 DEF ProjectStep, planVars
    <2>2. ArriveProject(c) => UNCHANGED projectVars
        BY DEF ArriveProject
    <2>3. SaveProject(c) => WritesProject(open[c].request) \/ UNCHANGED projectVars
        BY ProjectSaved
    <2> QED
        BY <2>1, <2>2, <2>3
<1>4. CASE \E c \in Clients : Lost(c)
    BY <1>4 DEF Lost, planVars
<1>5. CASE Release
    BY <1>5 DEF Release, Deploy, Publish, projectVars
<1>6. CASE Erase
    BY <1>6 DEF Erase
<1> QED
    BY <1>1, <1>2, <1>3, <1>4, <1>5, <1>6 DEF Next

\* Requests keep their kind.
LEMMA OpenStep == IInv /\ [Next]_vars => OpenInv'
<1> SUFFICES ASSUME OpenInv, [Next]_vars
             PROVE  OpenInv'
    BY DEF IInv
<1> USE DEF OpenInv, Requests
<1>1. CASE UNCHANGED vars
    BY <1>1 DEF vars, workVars
<1>2. ASSUME NEW c \in Clients, NEW r, NEW seen, r \in Requests(kind), Arrive(c, r, seen), kind' = kind
      PROVE  OpenInv'
    BY <1>2 DEF Arrive
<1>3. ASSUME NEW c \in Clients, open' = [open EXCEPT ![c] = Idle], kind' = kind
      PROVE  OpenInv'
    BY <1>3
<1>4. CASE \E c \in Clients : PlanStep(c) /\ ArrivePlan(c)
    BY <1>2, <1>4 DEF PlanStep, ArrivePlan
<1>5. CASE \E c \in Clients : ProjectStep(c) /\ ArriveProject(c)
    BY <1>2, <1>5 DEF ProjectStep, ArriveProject
<1>6. CASE \E c \in Clients : PlanStep(c) /\ SavePlan(c)
    BY <1>3, <1>6 DEF PlanStep, SavePlan, Answer
<1>7. CASE \E c \in Clients : ProjectStep(c) /\ SaveProject(c)
    BY <1>3, <1>7 DEF ProjectStep, SaveProject, Answer
<1>8. CASE \E c \in Clients : Lost(c)
    BY <1>3, <1>8 DEF Lost, Fail
<1>9. CASE Release
    BY <1>9 DEF Release, Deploy, Publish, workVars
<1>10. CASE Erase
    BY <1>10 DEF Erase
<1> QED
    BY <1>1, <1>4, <1>5, <1>6, <1>7, <1>8, <1>9, <1>10 DEF Next, PlanStep, ProjectStep

\* Rows stay those of requests, and a receipt names the request that made its revision.
LEMMA RowStep == IInv /\ [Next]_vars => RowInv' /\ ReceiptInv'
<1> SUFFICES ASSUME IInv, [Next]_vars
             PROVE  RowInv' /\ ReceiptInv'
    OBVIOUS
<1> USE DEF IInv, RowInv
<1>1. plan' \in PlanRows \cup {None}
    <2>1. ASSUME NEW c \in Clients, kind = "plan", SavePlan(c), WritesPlan(open[c].request)
          PROVE  plan' \in PlanRows
        BY <2>1 DEF WritesPlan, SavePlan, PlanRows, OpenInv, Requests
    <2> QED
        BY <2>1, Writers
<1>2. CASE UNCHANGED projectVars
    BY <1>1, <1>2 DEF projectVars, ReceiptInv
<1>3. CASE Erase
    <2>1. project' \in [ProjectCourses -> ProjectRows]
        BY <1>3 DEF Erase, NoProject, ProjectRows
    <2>2. made' \in [ProjectCourses -> Seq(ProjectRequests)]
        BY <1>3 DEF Erase
    <2> QED
        BY <1>1, <1>3, <2>1, <2>2 DEF Erase, ReceiptInv
<1>4. ASSUME NEW c \in Clients, kind = "project", SaveProject(c), WritesProject(open[c].request)
      PROVE  RowInv' /\ ReceiptInv'
    <2>1. PICK r \in ProjectRequests : r = open[c].request
        BY <1>4 DEF SaveProject, OpenInv, Requests
    <2>2. PICK k \in ProjectCourses : k = r.for
        BY <1>4, <2>1 DEF WritesProject
    <2>3. PICK n \in Nat \ {0} : n = r.expected + 1 /\ n = Len(made[k]) + 1
        BY <1>4, <2>1, <2>2 DEF WritesProject, TypeOK, ProjectRows
    <2>4. /\ project' = [project EXCEPT ![k] = [revision |-> n, state |-> r.state]]
          /\ receipts' = Newest(receipts \cup {Receipt(k, n, r)}, k)
          /\ made' = [made EXCEPT ![k] = Append(made[k], r)]
        BY <1>4, <2>1, <2>2, <2>3 DEF WritesProject
    <2>5. [revision |-> n, state |-> r.state] \in ProjectRows
        BY DEF ProjectRows
    <2>6. project' \in [ProjectCourses -> ProjectRows]
        BY <2>4, <2>5
    <2>7. made' \in [ProjectCourses -> Seq(ProjectRequests)]
        BY <2>4
    <2>8. /\ made'[k] = Append(made[k], r) /\ \A j \in ProjectCourses \ {k} : made'[j] = made[j]
          /\ Len(made'[k]) = n /\ made'[k][n] = r
          /\ \A i \in 1 .. Len(made[k]) : made'[k][i] = made[k][i]
        BY <2>3, <2>4
    <2>9. ASSUME NEW x \in receipts'
          PROVE  \E j \in ProjectCourses : \E i \in 1 .. Len(made'[j]) : x = Receipt(j, i, made'[j][i])
        <3>1. x \in receipts \/ x = Receipt(k, n, r)
            BY <2>4 DEF Newest
        <3>2. CASE x = Receipt(k, n, r)
            <4>1. n \in 1 .. Len(made'[k]) /\ x = Receipt(k, n, made'[k][n])
                BY <2>8, <3>2
            <4> QED
                BY <4>1
        <3>3. CASE x \in receipts
            <4>1. PICK j \in ProjectCourses : \E i \in 1 .. Len(made[j]) : x = Receipt(j, i, made[j][i])
                BY <3>3 DEF ReceiptInv
            <4>2. PICK i \in 1 .. Len(made[j]) : x = Receipt(j, i, made[j][i])
                BY <4>1
            <4>3. i \in 1 .. Len(made'[j]) /\ made'[j][i] = made[j][i]
                <5>1. CASE j = k
                    BY <2>3, <2>8, <5>1
                <5>2. CASE j # k
                    BY <2>8, <5>2
                <5> QED
                    BY <5>1, <5>2
            <4> QED
                BY <4>2, <4>3
        <3> QED
            BY <3>1, <3>2, <3>3
    <2> QED
        BY <1>1, <2>6, <2>7, <2>9 DEF ReceiptInv
<1> QED
    BY <1>2, <1>3, <1>4, Writers

\* Only erasure sets the tombstone.
LEMMA Erasures == [Next]_vars => isolation' = isolation /\ (erased' = erased \/ Erase)
<1> SUFFICES ASSUME [Next]_vars
             PROVE  isolation' = isolation /\ (erased' = erased \/ Erase)
    OBVIOUS
<1>1. CASE UNCHANGED vars
    BY <1>1 DEF vars, workVars
<1>2. CASE \E c \in Clients : PlanStep(c)
    BY <1>2 DEF PlanStep, ArrivePlan, SavePlan, Arrive, Answer
<1>3. CASE \E c \in Clients : ProjectStep(c)
    BY <1>3 DEF ProjectStep, ArriveProject, SaveProject, Arrive, Answer
<1>4. CASE \E c \in Clients : Lost(c)
    BY <1>4 DEF Lost, Fail
<1>5. CASE Release
    BY <1>5 DEF Release, Deploy, Publish, workVars
<1>6. CASE Erase
    BY <1>6 DEF Erase
<1> QED
    BY <1>1, <1>2, <1>3, <1>4, <1>5, <1>6 DEF Next

\* The rest of the state keeps its types, and after erasure nothing is written.
LEMMA TypeStep == IInv /\ [Next]_vars => TypeOK'
<1> SUFFICES ASSUME IInv, [Next]_vars
             PROVE  TypeOK'
    OBVIOUS
<1> USE DEF IInv
<1>1. isolation' = isolation /\ (erased => erased') /\ erased' \in BOOLEAN
    BY Erasures DEF Erase, TypeOK
<1>2. deployed' \in Deployments /\ on' \subseteq EngineUnits
    <2> USE DEF workVars, planVars, TypeOK
    <2>1. \/ UNCHANGED <<deployed, on>>
          \/ Deploy
          \/ Publish
        BY DEF Next, PlanStep, ProjectStep, Lost, Release, Erase, ArrivePlan, SavePlan, vars
    <2> QED
        BY <2>1 DEF Deploy, Publish
<1>3. /\ plan' # None => plan'.revision \in Nat \ {0} /\ Len(plan'.steps) <= StepLimit
      /\ erased' => plan' = None
    <2>1. ASSUME NEW c \in Clients, kind = "plan", SavePlan(c), WritesPlan(open[c].request)
          PROVE  plan'.revision \in Nat \ {0} /\ Len(plan'.steps) <= StepLimit /\ ~erased'
        <3>1. PICK r \in PlanRequests : r = open[c].request
            BY <2>1 DEF SavePlan, OpenInv, Requests
        <3>2. plan' = Written(r) /\ Len(r.steps) <= StepLimit /\ ~erased
            BY <2>1, <3>1 DEF WritesPlan
        <3>3. erased' = erased
            BY <2>1 DEF SavePlan, Answer
        <3> QED
            BY <3>2, <3>3, PlanConstantsOK DEF Written
    <2>2. CASE plan' = plan
        <3>1. erased' => erased \/ plan' = None
            BY Erasures DEF Erase
        <3> QED
            BY <2>2, <3>1 DEF TypeOK
    <2> QED
        BY <2>1, <2>2, Writers
<1>4. /\ \A k \in ProjectCourses : project'[k].revision = Len(made'[k])
      /\ erased' => receipts' = {} /\ \A k \in ProjectCourses : project'[k] = NoProject
    <2>1. CASE Erase
        BY <2>1 DEF Erase, NoProject
    <2>2. CASE UNCHANGED projectVars
        <3>1. erased' => erased \/ Erase
            BY Erasures
        <3> QED
            BY <2>1, <2>2, <3>1 DEF TypeOK, projectVars
    <2>3. ASSUME NEW c \in Clients, kind = "project", SaveProject(c), WritesProject(open[c].request)
          PROVE  ~erased' /\ \A k \in ProjectCourses : project'[k].revision = Len(made'[k])
        <3>1. PICK r \in ProjectRequests : r = open[c].request
            BY <2>3 DEF SaveProject, OpenInv, Requests
        <3>2. erased' = erased
            BY <2>3 DEF SaveProject, Answer
        <3>3. /\ ~erased /\ r.for \in ProjectCourses
              /\ project[r.for].revision = r.expected
              /\ project' = [project EXCEPT ![r.for] = [revision |-> r.expected + 1, state |-> r.state]]
              /\ made' = [made EXCEPT ![r.for] = Append(@, r)]
            BY <2>3, <3>1 DEF WritesProject
        <3>4. ASSUME NEW k \in ProjectCourses
              PROVE  project'[k].revision = Len(made'[k])
            BY <3>3 DEF TypeOK, RowInv
        <3> QED
            BY <3>2, <3>3, <3>4
    <2> QED
        BY <2>1, <2>2, <2>3, Writers
<1> QED
    BY <1>1, <1>2, <1>3, <1>4 DEF TypeOK

\* Under READ COMMITTED the answer is made from the plan as it is, which changes with the next answer.
LEMMA AnswersStep == IInv /\ [Next]_vars => PlanAnswersAreTrue'
<1> SUFFICES ASSUME IInv, [Next]_vars
             PROVE  PlanAnswersAreTrue'
    OBVIOUS
<1> USE DEF IInv
<1>1. CASE told' = None
    BY <1>1 DEF PlanAnswersAreTrue
<1>2. CASE UNCHANGED <<kind, isolation, told, plan, erased>>
    BY <1>2 DEF PlanAnswersAreTrue
<1>3. CASE Erase
    BY <1>3 DEF Erase, PlanAnswersAreTrue
<1>4. CASE kind' # "plan"
    BY <1>4 DEF PlanAnswersAreTrue
<1>5. ASSUME NEW c \in Clients, SavePlan(c), kind = "plan"
      PROVE  PlanAnswersAreTrue'
    <2> SUFFICES ASSUME isolation' = "committed", ~erased'
                 PROVE  /\ told'.code = "saved" <=> /\ plan' # None /\ plan'.request = told'.request.id
                                                    /\ plan'.print = Fingerprint(told'.request)
                        /\ told'.code \in {"saved", "conflict", "reused"} => told'.shows = plan'
        BY DEF PlanAnswersAreTrue
    <2>1. PICK r \in PlanRequests : r = open[c].request
        BY <1>5 DEF SavePlan, OpenInv, Requests
    <2>2. isolation = "committed" /\ ~erased
        BY <1>5 DEF SavePlan, Answer
    <2>3. ASSUME NEW code, NEW shows, Answer(c, code, shows)
          PROVE  told'.request = r /\ told'.code = code /\ told'.shows = shows
        BY <2>1, <2>3 DEF Answer
    <2>4. plan # None => Len(plan.steps) <= StepLimit /\ plan.print[2] = plan.steps
        BY DEF TypeOK, RowInv, PlanRows, Written, Fingerprint
    <2>5. Written(r) # None /\ Written(r).request = r.id /\ Written(r).print = Fingerprint(r)
        BY NoneIsNoPlan DEF Written
    <2>6. \/ Len(r.steps) > StepLimit /\ plan' = plan /\ Answer(c, "too_large", None)
          \/ Repeats(plan, r) /\ plan.print = Fingerprint(r) /\ plan' = plan /\ Answer(c, "saved", plan)
          \/ Repeats(plan, r) /\ plan.print # Fingerprint(r) /\ plan' = plan /\ Answer(c, "reused", plan)
          \/ ~Repeats(plan, r) /\ plan' = plan /\ Answer(c, "refused", None)
          \/ ~Repeats(plan, r) /\ plan' = plan /\ Answer(c, "conflict", plan)
          \/ plan' = Written(r) /\ Answer(c, "saved", plan')
        BY <1>5, <2>1, <2>2 DEF SavePlan, Reads
    <2> USE DEF Repeats
    <2>7. CASE Len(r.steps) > StepLimit /\ plan' = plan /\ Answer(c, "too_large", None)
        <3>1. plan.print = Fingerprint(r) => plan.print[2] = r.steps
            BY DEF Fingerprint
        <3>2. ~(Len(r.steps) <= StepLimit)
            BY <2>7, PlanConstantsOK
        <3>3. plan # None => plan.print # Fingerprint(r)
            BY <2>4, <3>1, <3>2
        <3> QED
            BY <2>3, <2>7, <3>3
    <2>8. CASE Repeats(plan, r) /\ plan.print = Fingerprint(r) /\ plan' = plan /\ Answer(c, "saved", plan)
        BY <2>3, <2>8
    <2>9. CASE Repeats(plan, r) /\ plan.print # Fingerprint(r) /\ plan' = plan /\ Answer(c, "reused", plan)
        BY <2>3, <2>9
    <2>10. CASE ~Repeats(plan, r) /\ plan' = plan /\ Answer(c, "refused", None)
        BY <2>3, <2>10
    <2>11. CASE ~Repeats(plan, r) /\ plan' = plan /\ Answer(c, "conflict", plan)
        BY <2>3, <2>11
    <2>12. CASE plan' = Written(r) /\ Answer(c, "saved", plan')
        BY <2>3, <2>5, <2>12
    <2> QED
        BY <2>6, <2>7, <2>8, <2>9, <2>10, <2>11, <2>12
<1>6. \/ told' = None
      \/ UNCHANGED <<kind, isolation, told, plan, erased>>
      \/ Erase
      \/ kind' # "plan"
      \/ \E c \in Clients : SavePlan(c) /\ kind = "plan"
    BY DEF Next, PlanStep, ProjectStep, Lost, Release, ArrivePlan, ArriveProject, Arrive, Fail, Deploy, Publish,
           vars, workVars, planVars
<1> QED
    BY <1>1, <1>2, <1>3, <1>4, <1>5, <1>6

\* Few receipts of a project are newer than that of a recent save.
Newer(all, k, n) == {y \in all : y.course = k /\ y.revision > n}
\* There are at most as many of them as revisions after it.
LEMMA NewerReceipts ==
    ASSUME NEW k, NEW all, NEW s \in Seq(ProjectRequests), NEW n \in Nat, n <= Len(s),
           \A y \in all : y.course = k => \E i \in 1 .. Len(s) : y = Receipt(k, i, s[i])
    PROVE  Cardinality(Newer(all, k, n)) \in Nat /\ Cardinality(Newer(all, k, n)) <= Len(s) - n
<1> USE DEF Newer
<1> DEFINE newer == Newer(all, k, n)
           f == [y \in newer |-> y.revision]
<1>1. ASSUME NEW y \in newer
      PROVE  y.revision \in (n + 1) .. Len(s) /\ y = Receipt(k, y.revision, s[y.revision])
    <2>1. PICK i \in 1 .. Len(s) : y = Receipt(k, i, s[i])
        OBVIOUS
    <2>2. y.revision = i
        BY <2>1 DEF Receipt
    <2> QED
        BY <2>1, <2>2
<1>2. f \in Injection(newer, (n + 1) .. Len(s))
    <2>1. f \in [newer -> (n + 1) .. Len(s)]
        BY <1>1
    <2>2. \A x, y \in newer : f[x] = f[y] => x = y
        BY <1>1
    <2> HIDE DEF f, newer
    <2> QED
        BY <2>1, <2>2 DEF Injection, IsInjective
<1> HIDE DEF newer, f
<1>3. Len(s) \in Nat
    OBVIOUS
<1>4. /\ IsFiniteSet((n + 1) .. Len(s))
      /\ Cardinality((n + 1) .. Len(s)) = Len(s) - n
    <2>1. CASE n < Len(s)
        BY <1>3, <2>1, FS_Interval
    <2>2. CASE n = Len(s)
        BY <1>3, <2>2, FS_Interval
    <2> QED
        BY <1>3, <2>1, <2>2
<1>5. IsFiniteSet(newer) /\ Cardinality(newer) <= Cardinality((n + 1) .. Len(s))
    BY <1>2, <1>4, FS_Injection
<1>6. Cardinality(newer) \in Nat
    BY <1>5, FS_CardinalityType
<1> QED
    BY <1>4, <1>5, <1>6 DEF newer

\* A save makes room for its receipt by dropping those of older saves of its project.
LEMMA RecentStep == IInv /\ [Next]_vars => RecentSavesHaveReceipts'
<1> SUFFICES ASSUME IInv, [Next]_vars
             PROVE  RecentSavesHaveReceipts'
    OBVIOUS
<1> USE DEF IInv
<1>1. CASE UNCHANGED projectVars
    BY <1>1 DEF projectVars, RecentSavesHaveReceipts
<1>2. CASE Erase
    BY <1>2 DEF Erase, RecentSavesHaveReceipts
<1>3. ASSUME NEW c \in Clients, kind = "project", SaveProject(c), WritesProject(open[c].request)
      PROVE  RecentSavesHaveReceipts'
    <2>1. PICK r \in ProjectRequests : r = open[c].request
        BY <1>3 DEF SaveProject, OpenInv, Requests
    <2>2. PICK k \in ProjectCourses : k = r.for
        BY <1>3, <2>1 DEF WritesProject
    <2>3. PICK n \in Nat \ {0} : n = r.expected + 1 /\ n = Len(made[k]) + 1
        BY <1>3, <2>1, <2>2 DEF WritesProject, TypeOK, RowInv, ProjectRows
    <2> DEFINE all == receipts \cup {Receipt(k, n, r)}
    <2>4. receipts' = Newest(all, k) /\ made' = [made EXCEPT ![k] = Append(made[k], r)]
        BY <1>3, <2>1, <2>2, <2>3 DEF WritesProject
    <2>5. PICK s \in Seq(ProjectRequests) : s = made'[k] /\ Len(s) = n /\ s[n] = r
                                            /\ \A i \in 1 .. Len(made[k]) : s[i] = made[k][i]
        <3>1. made[k] \in Seq(ProjectRequests) /\ made'[k] = Append(made[k], r)
            BY <2>4 DEF RowInv
        <3>2. /\ Append(made[k], r) \in Seq(ProjectRequests)
              /\ Len(Append(made[k], r)) = n /\ Append(made[k], r)[n] = r
              /\ \A i \in 1 .. Len(made[k]) : Append(made[k], r)[i] = made[k][i]
            BY <2>3, <3>1
        <3> QED
            BY <3>1, <3>2
    <2>6. ASSUME NEW y \in all, y.course = k
          PROVE  \E i \in 1 .. Len(s) : y = Receipt(k, i, s[i])
        <3>1. CASE y \in receipts
            <4>1. PICK j \in ProjectCourses : \E i \in 1 .. Len(made[j]) : y = Receipt(j, i, made[j][i])
                BY <3>1 DEF ReceiptInv
            <4>2. j = k
                BY <2>6, <4>1 DEF Receipt
            <4>3. PICK i \in 1 .. Len(made[k]) : y = Receipt(k, i, made[k][i])
                BY <4>1, <4>2
            <4>4. i \in 1 .. Len(s) /\ y = Receipt(k, i, s[i])
                BY <2>3, <2>5, <4>3
            <4> QED
                BY <4>4
        <3>2. CASE y = Receipt(k, n, r)
            <4>1. n \in 1 .. Len(s) /\ y = Receipt(k, n, s[n])
                BY <2>5, <3>2
            <4> QED
                BY <4>1
        <3> QED
            BY <3>1, <3>2
    <2>7. ASSUME NEW j \in ProjectCourses, j # k, NEW i \in DOMAIN made'[j], i > Len(made'[j]) - KEPT_RECEIPTS
          PROVE  Receipt(j, i, made'[j][i]) \in receipts'
        <3>1. made'[j] = made[j]
            BY <2>4, <2>7 DEF RowInv
        <3>2. Receipt(j, i, made'[j][i]) \in receipts
            BY <2>7, <3>1 DEF RecentSavesHaveReceipts, Receipt
        <3>3. Receipt(j, i, made'[j][i]).course # k
            BY <2>7 DEF Receipt
        <3> QED
            BY <2>4, <3>2, <3>3 DEF Newest
    <2>8. ASSUME NEW i \in 1 .. Len(s), i > Len(s) - KEPT_RECEIPTS
          PROVE  Receipt(k, i, s[i]) \in receipts'
        <3>1. Receipt(k, i, s[i]) \in all
            <4>1. CASE i = n
                BY <2>5, <4>1
            <4>2. CASE i # n
                <5>1. i \in DOMAIN made[k] /\ i > Len(made[k]) - KEPT_RECEIPTS
                    BY <2>3, <2>5, <2>8, <4>2, ReceiptsAreKept DEF RowInv
                <5>2. Receipt(k, i, made[k][i]) \in receipts
                    BY <5>1 DEF RecentSavesHaveReceipts, Receipt
                <5>3. s[i] = made[k][i]
                    BY <2>5, <5>1 DEF RowInv
                <5> QED
                    BY <5>2, <5>3
            <4> QED
                BY <4>1, <4>2
        <3> HIDE DEF all
        <3>2. Cardinality(Newer(all, k, i)) \in Nat
                 /\ Cardinality(Newer(all, k, i)) <= Len(s) - i
            BY <2>6, NewerReceipts
        <3>3. Cardinality(Newer(all, k, i)) < KEPT_RECEIPTS
            BY <2>8, <3>2, ReceiptsAreKept
        <3>4. Receipt(k, i, s[i]).revision = i
            BY DEF Receipt
        <3> QED
            BY <2>4, <3>1, <3>3, <3>4 DEF Newest, Newer
    <2>9. ASSUME NEW j \in ProjectCourses, NEW i \in DOMAIN made'[j], i > Len(made'[j]) - KEPT_RECEIPTS
          PROVE  Receipt(j, i, made'[j][i]) \in receipts'
        <3>1. CASE j = k
            <4>1. i \in 1 .. Len(s) /\ i > Len(s) - KEPT_RECEIPTS /\ made'[j][i] = s[i]
                BY <2>5, <2>9, <3>1
            <4> QED
                BY <2>8, <3>1, <4>1
        <3>2. CASE j # k
            BY <2>7, <2>9, <3>2
        <3> QED
            BY <3>1, <3>2
    <2> QED
        BY <2>9 DEF RecentSavesHaveReceipts, Receipt
<1> QED
    BY <1>1, <1>2, <1>3, Writers

\* Every step keeps the inductive invariant.
LEMMA NextInv == IInv /\ [Next]_vars => IInv'
BY OpenStep, RowStep, TypeStep, AnswersStep, RecentStep DEF IInv

\* Rows, receipts and answers agree at every moment.
THEOREM Invariance == Spec => []IInv
BY InitInv, NextInv, PTL DEF Spec

\* A repeated save gets a true answer, and recent saves can be repeated, whatever was done in between.
THEOREM AnswersTrue == Spec => []AnswersAreTrue
<1>1. IInv => AnswersAreTrue
    BY DEF IInv, AnswersAreTrue
<1> QED
    BY <1>1, Invariance, PTL

\* No save is lost under another, made twice, or comes after erasure, whatever its transaction saw.
THEOREM SavesFollow == Spec => SavesFollowEachOther
<1>1. ASSUME IInv, [Next]_vars
      PROVE  plan' # plan => \/ plan' = None /\ erased'
                             \/ /\ ~erased
                                /\ plan'.revision = Revision(plan) + 1 /\ plan'.print[1] = Revision(plan)
                                /\ CheckSteps(deployed, plan'.steps)
    BY <1>1, Writers DEF WritesPlan, Written, Fingerprint
<1>2. ASSUME IInv, [Next]_vars
      PROVE  project' # project => \/ erased' /\ ~erased
                                   \/ \E k \in ProjectCourses :
                                         /\ project' = [project EXCEPT ![k] = project'[k]]
                                         /\ project'[k].revision = project[k].revision + 1
                                         /\ made'[k][project'[k].revision].expected = project[k].revision
    <2>1. CASE UNCHANGED projectVars
        BY <2>1 DEF projectVars
    <2>2. CASE Erase
        BY <2>2 DEF Erase
    <2>3. ASSUME NEW c \in Clients, kind = "project", SaveProject(c), WritesProject(open[c].request)
          PROVE  \E k \in ProjectCourses : /\ project' = [project EXCEPT ![k] = project'[k]]
                                           /\ project'[k].revision = project[k].revision + 1
                                           /\ made'[k][project'[k].revision].expected = project[k].revision
        <3>1. PICK r \in ProjectRequests : r = open[c].request
            BY <1>2, <2>3 DEF IInv, SaveProject, OpenInv, Requests
        <3>2. PICK k \in ProjectCourses : k = r.for
            BY <2>3, <3>1 DEF WritesProject
        <3>3. /\ project[k].revision = r.expected
              /\ project' = [project EXCEPT ![k] = [revision |-> r.expected + 1, state |-> r.state]]
              /\ made' = [made EXCEPT ![k] = Append(made[k], r)]
            BY <2>3, <3>1, <3>2 DEF WritesProject
        <3>4. project'[k] = [revision |-> r.expected + 1, state |-> r.state]
            BY <1>2, <3>3 DEF IInv, RowInv
        <3>5. r.expected = Len(made[k])
            BY <1>2, <3>3 DEF IInv, TypeOK
        <3>6. made'[k][r.expected + 1] = r
            BY <1>2, <3>3, <3>5 DEF IInv, RowInv
        <3>7. project' = [project EXCEPT ![k] = project'[k]]
            BY <3>3, <3>4
        <3>8. project'[k].revision = r.expected + 1
            BY <3>4
        <3> QED
            BY <3>3, <3>6, <3>7, <3>8
    <2> QED
        BY <1>2, <2>1, <2>2, <2>3, Writers
<1> QED
    BY <1>1, <1>2, Invariance, PTL DEF Spec, SavesFollowEachOther, PlanSavesFollowEachOther,
                                       ProjectSavesFollowEachOther
-----------------------------------------------------------------------------
(* What the pages are composed with: a sequence of sequences, one after the other. *)

\* one has no smaller one inside.
LEMMA LeastNumber ==
    ASSUME NEW S \in SUBSET Nat, S # {}
    PROVE  \E m \in S : \A i \in S : m <= i
<1> DEFINE T == {1 .. i : i \in S}
<1>1. T \subseteq FiniteSubsetsOf(Nat)
    <2>1. ASSUME NEW i \in S
          PROVE  1 .. i \in FiniteSubsetsOf(Nat)
        <3>1. 1 \in Int /\ i \in Int
            OBVIOUS
        <3>2. IsFiniteSet(1 .. i)
            BY <3>1, FS_Interval
        <3> QED
            BY <3>2 DEF FiniteSubsetsOf
    <2> QED
        BY <2>1
<1>2. T # {}
    OBVIOUS
<1>3. PICK x \in T : \A y \in T : ~(<<y, x>> \in StrictSubsetOrdering(Nat))
    <2> HIDE DEF T
    <2> QED
        BY <1>1, <1>2, FS_StrictSubsetOrderingWellFounded, WFMin
<1>4. PICK m \in S : x = 1 .. m
    OBVIOUS
<1>5. ASSUME NEW i \in S
      PROVE  m <= i
    <2> SUFFICES ASSUME i < m
                 PROVE  FALSE
        OBVIOUS
    <2>1. 1 .. i \in T /\ 1 .. i \subseteq x /\ m \in x /\ m \notin 1 .. i /\ x \subseteq Nat
        BY <1>4
    <2> QED
        BY <1>3, <2>1 DEF StrictSubsetOrdering
<1> QED
    BY <1>5

\* Every set of numbers that has the first one, and with each the next one, up to n has n.
LEMMA UpTo ==
    ASSUME NEW n \in Nat, NEW S, 0 \in S, \A s \in 1 .. n : s - 1 \in S => s \in S
    PROVE  \A s \in 0 .. n : s \in S
<1> SUFFICES ASSUME NEW s \in 0 .. n, s \notin S
             PROVE  FALSE
    OBVIOUS
<1> DEFINE T == {r \in 0 .. n : r \notin S}
<1>1. PICK m \in T : \A r \in T : m <= r
    <2>1. T \in SUBSET Nat /\ T # {}
        OBVIOUS
    <2> HIDE DEF T
    <2> QED
        BY <2>1, LeastNumber
<1>2. m \in 1 .. n /\ m - 1 \in 0 .. n /\ m - 1 < m
    BY <1>1
<1>3. m - 1 \in S
    BY <1>1, <1>2
<1> QED
    BY <1>1, <1>2, <1>3
FlatTo(parts, f, n) == f = [i \in 1 .. n |-> IF i = 1 THEN parts[i] ELSE f[i - 1] \o parts[i]]

\* There is such a concatenation up to every part.
LEMMA FlatExists ==
    ASSUME NEW parts, NEW n \in Nat
    PROVE  \E f : FlatTo(parts, f, n)
<1> DEFINE S == {m \in Nat : \E f : FlatTo(parts, f, m)}
<1>1. 0 \in S
    <2> DEFINE f == [i \in 1 .. 0 |-> parts[i]]
    <2>1. FlatTo(parts, f, 0)
        BY DEF FlatTo
    <2> QED
        BY <2>1
<1>2. ASSUME NEW m \in 1 .. n, m - 1 \in S
      PROVE  m \in S
    <2>1. PICK f : FlatTo(parts, f, m - 1)
        BY <1>2
    <2> DEFINE h == [i \in 1 .. m |-> IF i = 1 THEN parts[i] ELSE f[i - 1] \o parts[i]]
    <2>2. ASSUME NEW i \in 1 .. m - 1
          PROVE  h[i] = f[i]
        <3>1. i \in 1 .. m
            OBVIOUS
        <3>2. h[i] = IF i = 1 THEN parts[i] ELSE f[i - 1] \o parts[i]
            BY <3>1
        <3>3. f[i] = IF i = 1 THEN parts[i] ELSE f[i - 1] \o parts[i]
            BY <2>1, <2>2 DEF FlatTo
        <3> QED
            BY <3>2, <3>3
    <2>3. ASSUME NEW i \in 1 .. m, i # 1
          PROVE  i - 1 \in 1 .. m - 1
        BY <2>3
    <2>4. h = [i \in 1 .. m |-> IF i = 1 THEN parts[i] ELSE h[i - 1] \o parts[i]]
        BY <2>2, <2>3
    <2> HIDE DEF h
    <2>5. FlatTo(parts, h, m)
        BY <2>4 DEF FlatTo
    <2> QED
        BY <2>5
<1>3. n \in 0 .. n /\ \A m \in 0 .. n : m \in S
    <2> HIDE DEF S
    <2> QED
        BY <1>1, <1>2, UpTo
<1> QED
    BY <1>3

\* FlattenSeq, part by part.
LEMMA FlatStep ==
    ASSUME NEW T, NEW parts \in Seq(Seq(T))
    PROVE  /\ Len(parts) = 0 => FlattenSeq(parts) = << >>
           /\ Len(parts) # 0 => \E f : FlatTo(parts, f, Len(parts)) /\ FlattenSeq(parts) = f[Len(parts)]
<1>1. CASE Len(parts) = 0
    BY <1>1 DEF FlattenSeq
<1>2. CASE Len(parts) # 0
    <2> DEFINE g == CHOOSE f : FlatTo(parts, f, Len(parts))
    <2>1. FlatTo(parts, g, Len(parts))
        <3>1. PICK n \in Nat : n = Len(parts)
            OBVIOUS
        <3>2. \E f : FlatTo(parts, f, n)
            BY FlatExists
        <3> QED
            BY <3>1, <3>2
    <2>2. FlattenSeq(parts) = g[Len(parts)]
        BY <1>2 DEF FlattenSeq, FlatTo
    <2> QED
        BY <1>2, <2>1, <2>2
<1> QED
    BY <1>1, <1>2

\* A concatenation, place by place.
LEMMA ConcatPlaces ==
    ASSUME NEW T, NEW s \in Seq(T), NEW t \in Seq(T)
    PROVE  /\ s \o t \in Seq(T) /\ Len(s \o t) = Len(s) + Len(t)
           /\ \A i \in 1 .. Len(s) : (s \o t)[i] = s[i]
           /\ \A i \in 1 .. Len(t) : (s \o t)[Len(s) + i] = t[i]
OBVIOUS

\* A sequence with a part of one member behind it.
LEMMA Longer ==
    ASSUME NEW T, NEW s \in Seq(T), NEW t \in Seq(T)
    PROVE  Len(t) = 1 => /\ s \o t \in Seq(T) /\ Len(s \o t) = Len(s) + 1 /\ (s \o t)[Len(s) + 1] = t[1]
                         /\ \A i \in 1 .. Len(s) : (s \o t)[i] = s[i]
<1>1. /\ s \o t \in Seq(T) /\ Len(s \o t) = Len(s) + Len(t)
      /\ \A i \in 1 .. Len(s) : (s \o t)[i] = s[i]
      /\ \A i \in 1 .. Len(t) : (s \o t)[Len(s) + i] = t[i]
    BY ConcatPlaces
<1>2. Len(t) = 1 => 1 \in 1 .. Len(t)
    OBVIOUS
<1> QED
    BY <1>1, <1>2

\* A concatenation has the members of both.
LEMMA ConcatMembers ==
    ASSUME NEW T, NEW s \in Seq(T), NEW t \in Seq(T)
    PROVE  s \o t \in Seq(T) /\ ToSet(s \o t) = ToSet(s) \cup ToSet(t)
<1>1. /\ s \o t \in Seq(T) /\ Len(s \o t) = Len(s) + Len(t)
      /\ \A i \in 1 .. Len(s) : (s \o t)[i] = s[i]
      /\ \A i \in 1 .. Len(t) : (s \o t)[Len(s) + i] = t[i]
    BY ConcatPlaces
<1>2. ASSUME NEW i \in 1 .. Len(s) + Len(t)
      PROVE  (s \o t)[i] \in ToSet(s) \cup ToSet(t)
    BY <1>1 DEF ToSet
<1>3. ASSUME NEW i \in 1 .. Len(s)
      PROVE  i \in 1 .. Len(s \o t)
    BY <1>1, <1>3
<1>4. ASSUME NEW i \in 1 .. Len(t)
      PROVE  Len(s) + i \in 1 .. Len(s \o t)
    BY <1>1, <1>4
<1>5. /\ ToSet(s \o t) = {(s \o t)[i] : i \in 1 .. Len(s) + Len(t)}
      /\ ToSet(s) = {s[i] : i \in 1 .. Len(s)} /\ ToSet(t) = {t[i] : i \in 1 .. Len(t)}
    <2>1. DOMAIN s = 1 .. Len(s) /\ DOMAIN t = 1 .. Len(t)
        OBVIOUS
    <2>2. DOMAIN (s \o t) = 1 .. Len(s \o t)
        BY <1>1
    <2>3. DOMAIN (s \o t) = 1 .. Len(s) + Len(t)
        BY <1>1, <2>2
    <2> QED
        BY <2>1, <2>3 DEF ToSet
<1>6. ToSet(s \o t) \subseteq ToSet(s) \cup ToSet(t)
    BY <1>2, <1>5
<1>7. ToSet(s) \subseteq ToSet(s \o t) /\ ToSet(t) \subseteq ToSet(s \o t)
    BY <1>1, <1>3, <1>4, <1>5
<1> QED
    BY <1>1, <1>6, <1>7

\* What s takes from the first n parts: each of its members from a part of its own.
OneEach(parts, s, n) == \E at \in [1 .. Len(s) -> 1 .. n] :
                            /\ \A a, b \in 1 .. Len(s) : at[a] = at[b] => a = b
                            /\ \A a \in 1 .. Len(s) : parts[at[a]] = <<s[a]>>
Members(parts, n) == UNION {ToSet(parts[i]) : i \in 1 .. n}

\* The result has the members of all parts.
LEMMA Flat ==
    ASSUME NEW T, NEW parts \in Seq(Seq(T))
    PROVE  /\ FlattenSeq(parts) \in Seq(T)
           /\ ToSet(FlattenSeq(parts)) = Members(parts, Len(parts))
<1>1. CASE Len(parts) = 0
    <2>1. FlattenSeq(parts) = << >>
        BY <1>1, FlatStep
    <2>2. ToSet(<< >>) = {} /\ Members(parts, 0) = {}
        BY DEF ToSet, Members
    <2>3. << >> \in Seq(T)
        OBVIOUS
    <2> QED
        BY <1>1, <2>1, <2>2, <2>3
<1>2. CASE Len(parts) # 0
    <2>1. PICK n \in Nat \ {0} : n = Len(parts)
        BY <1>2
    <2>2. PICK f : FlatTo(parts, f, n) /\ FlattenSeq(parts) = f[n]
        BY <1>2, <2>1, FlatStep
    <2>3. \A i \in 1 .. n : parts[i] \in Seq(T)
        BY <2>1
    <2>4. f = [i \in 1 .. n |-> IF i = 1 THEN parts[i] ELSE f[i - 1] \o parts[i]]
        BY <2>2 DEF FlatTo
    <2>5. ASSUME NEW i \in 1 .. n
          PROVE  f[i] = IF i = 1 THEN parts[i] ELSE f[i - 1] \o parts[i]
        BY <2>4
    <2> DEFINE S == {0} \cup {m \in 1 .. n : f[m] \in Seq(T) /\ ToSet(f[m]) = Members(parts, m)}
    <2>6. ASSUME NEW m \in 1 .. n, m - 1 \in S
          PROVE  m \in S
        <3>1. CASE m = 1
            BY <2>3, <2>5, <3>1 DEF Members
        <3>2. CASE m # 1
            <4>1. f[m - 1] \in Seq(T) /\ ToSet(f[m - 1]) = Members(parts, m - 1)
                BY <2>6, <3>2
            <4>2. parts[m] \in Seq(T) /\ f[m] = f[m - 1] \o parts[m]
                BY <2>3, <2>5, <3>2
            <4>3. f[m] \in Seq(T)
                BY <4>1, <4>2
            <4>4. ToSet(f[m]) = ToSet(f[m - 1]) \cup ToSet(parts[m])
                BY <4>1, <4>2, ConcatMembers
            <4>5. Members(parts, m) = Members(parts, m - 1) \cup ToSet(parts[m])
                BY <2>6, <3>2 DEF Members
            <4> QED
                BY <4>1, <4>3, <4>4, <4>5
        <3> QED
            BY <3>1, <3>2
    <2>7. n \in S
        <3> HIDE DEF S
        <3>1. 0 \in S
            BY DEF S
        <3>2. \A m \in 0 .. n : m \in S
            BY <2>6, <3>1, UpTo
        <3> QED
            BY <3>2
    <2> QED
        BY <2>1, <2>2, <2>7
<1> QED
    BY <1>1, <1>2

\* Of parts of one member at most, each has its own place in the result.
LEMMA FlatPlaces ==
    ASSUME NEW T, NEW parts \in Seq(Seq(T)), \A i \in 1 .. Len(parts) : Len(parts[i]) <= 1
    PROVE  /\ Len(FlattenSeq(parts)) <= Len(parts)
           /\ OneEach(parts, FlattenSeq(parts), Len(parts))
<1>1. CASE Len(parts) = 0
    <2>1. FlattenSeq(parts) = << >>
        BY <1>1, FlatStep
    <2>2. Len(<< >>) = 0 /\ 1 .. 0 = {}
        OBVIOUS
    <2>3. OneEach(parts, << >>, 0)
        <3> DEFINE at == [a \in 1 .. 0 |-> a]
        <3>1. at \in [1 .. Len(<< >>) -> 1 .. 0]
            BY <2>2
        <3> QED
            BY <2>2, <3>1 DEF OneEach
    <2> QED
        BY <1>1, <2>1, <2>2, <2>3
<1>2. CASE Len(parts) # 0
    <2>1. PICK n \in Nat \ {0} : n = Len(parts)
        BY <1>2
    <2>2. PICK f : FlatTo(parts, f, n) /\ FlattenSeq(parts) = f[n]
        BY <1>2, <2>1, FlatStep
    <2>3. f = [i \in 1 .. n |-> IF i = 1 THEN parts[i] ELSE f[i - 1] \o parts[i]]
        BY <2>2 DEF FlatTo
    <2>4. ASSUME NEW i \in 1 .. n
          PROVE  /\ f[i] = IF i = 1 THEN parts[i] ELSE f[i - 1] \o parts[i]
                 /\ parts[i] \in Seq(T) /\ (parts[i] = << >> \/ Len(parts[i]) = 1)
        <3>1. f[i] = IF i = 1 THEN parts[i] ELSE f[i - 1] \o parts[i]
            BY <2>3
        <3>2. parts[i] \in Seq(T) /\ Len(parts[i]) <= 1
            BY <2>1
        <3>3. Len(parts[i]) = 0 => parts[i] = << >>
            BY <3>2
        <3>4. \A l \in Nat : l <= 1 => l = 0 \/ l = 1
            OBVIOUS
        <3>5. Len(parts[i]) = 0 \/ Len(parts[i]) = 1
            <4>1. Len(parts[i]) \in Nat
                BY <3>2
            <4> QED
                BY <3>2, <3>4, <4>1
        <3> QED
            BY <3>1, <3>2, <3>3, <3>5
    <2> DEFINE S == {0} \cup {m \in 1 .. n : f[m] \in Seq(T) /\ Len(f[m]) <= m /\ OneEach(parts, f[m], m)}
    <2>5. ASSUME NEW m \in 1 .. n, m - 1 \in S
          PROVE  m \in S
        <3>1. PICK s \in Seq(T) : /\ Len(s) <= m - 1 /\ OneEach(parts, s, m - 1)
                                  /\ f[m] = s \o parts[m]
            <4>1. CASE m = 1
                <5>0. << >> \in Seq(T)
                    OBVIOUS
                <5>1. PICK e \in Seq(T) : e = << >>
                    BY <5>0
                <5>2. f[m] = e \o parts[m] /\ Len(e) <= m - 1 /\ m - 1 = 0
                    BY <2>4, <4>1, <5>1
                <5>3. OneEach(parts, << >>, 0)
                    <6> DEFINE at == [a \in 1 .. 0 |-> a]
                    <6>1. at \in [1 .. Len(<< >>) -> 1 .. 0] /\ 1 .. Len(<< >>) = {}
                        OBVIOUS
                    <6> QED
                        BY <6>1 DEF OneEach
                <5>4. OneEach(parts, e, m - 1)
                    BY <5>1, <5>2, <5>3
                <5> QED
                    BY <5>2, <5>4
            <4>2. CASE m # 1
                <5>1. f[m - 1] \in Seq(T) /\ Len(f[m - 1]) <= m - 1 /\ OneEach(parts, f[m - 1], m - 1)
                    BY <2>5, <4>2
                <5>2. f[m] = f[m - 1] \o parts[m]
                    BY <2>4, <4>2
                <5> QED
                    BY <5>1, <5>2
            <4> QED
                BY <4>1, <4>2
        <3>2. PICK at \in [1 .. Len(s) -> 1 .. m - 1] :
                        /\ \A a, b \in 1 .. Len(s) : at[a] = at[b] => a = b
                        /\ \A a \in 1 .. Len(s) : parts[at[a]] = <<s[a]>>
            BY <3>1 DEF OneEach
        <3>3. CASE parts[m] = << >>
            <4>1. f[m] = s
                BY <3>1, <3>3
            <4>2. at \in [1 .. Len(s) -> 1 .. m]
                OBVIOUS
            <4>3. OneEach(parts, s, m)
                BY <3>2, <4>2 DEF OneEach
            <4> QED
                BY <3>1, <4>1, <4>3
        <3>4. CASE Len(parts[m]) = 1
            <4>1. PICK k \in Nat : k = Len(s)
                OBVIOUS
            <4>2. /\ f[m] \in Seq(T) /\ Len(f[m]) = k + 1 /\ f[m][k + 1] = parts[m][1]
                  /\ \A a \in 1 .. k : f[m][a] = s[a]
                BY <2>4, <3>1, <3>4, <4>1, Longer
            <4> DEFINE too == [a \in 1 .. k + 1 |-> IF a = k + 1 THEN m ELSE at[a]]
            <4>3. too \in [1 .. k + 1 -> 1 .. m]
                BY <4>1
            <4>4. too[k + 1] = m /\ \A a \in 1 .. k : too[a] = at[a] /\ at[a] \in 1 .. m - 1
                BY <4>1
            <4> HIDE DEF too
            <4>5. \A a, b \in 1 .. k + 1 : too[a] = too[b] => a = b
                <5>1. ASSUME NEW a \in 1 .. k + 1, NEW b \in 1 .. k + 1, too[a] = too[b]
                      PROVE  a = b
                    <6>1. a \in 1 .. k \/ a = k + 1
                        OBVIOUS
                    <6>2. b \in 1 .. k \/ b = k + 1
                        OBVIOUS
                    <6>3. m \notin 1 .. m - 1
                        OBVIOUS
                    <6> QED
                        BY <3>2, <4>1, <4>4, <5>1, <6>1, <6>2, <6>3
                <5> QED
                    BY <5>1
            <4>6. ASSUME NEW a \in 1 .. k + 1
                  PROVE  parts[too[a]] = <<f[m][a]>>
                <5>1. CASE a = k + 1
                    <6>1. parts[m] = <<parts[m][1]>>
                        BY <2>4, <3>4
                    <6> QED
                        BY <4>2, <4>4, <5>1, <6>1
                <5>2. CASE a # k + 1
                    <6>1. a \in 1 .. k
                        BY <5>2
                    <6> QED
                        BY <3>2, <4>1, <4>2, <4>4, <6>1
                <5> QED
                    BY <5>1, <5>2
            <4>7. OneEach(parts, f[m], m)
                <5>1. Len(f[m]) = k + 1
                    BY <4>2
                <5> QED
                    BY <4>3, <4>5, <4>6, <5>1 DEF OneEach
            <4>8. Len(f[m]) <= m
                BY <3>1, <4>1, <4>2
            <4> QED
                BY <4>2, <4>7, <4>8
        <3> QED
            BY <2>4, <3>3, <3>4
    <2>6. n \in S
        <3> HIDE DEF S
        <3>1. 0 \in S
            BY DEF S
        <3>2. \A m \in 0 .. n : m \in S
            BY <2>5, <3>1, UpTo
        <3> QED
            BY <3>2
    <2> QED
        BY <2>1, <2>2, <2>6
<1> QED
    BY <1>1, <1>2

\* Parts that are the members of a sequence give the sequence.
LEMMA FlatSame ==
    ASSUME NEW T, NEW s \in Seq(T), NEW parts \in Seq(Seq(T)), Len(parts) = Len(s),
           \A i \in 1 .. Len(s) : parts[i] = <<s[i]>>
    PROVE  FlattenSeq(parts) = s
<1>1. CASE Len(s) = 0
    <2>1. FlattenSeq(parts) = << >>
        BY <1>1, FlatStep
    <2>2. s = << >>
        BY <1>1
    <2> QED
        BY <2>1, <2>2
<1>2. CASE Len(s) # 0
    <2>1. PICK n \in Nat \ {0} : n = Len(s)
        BY <1>2
    <2>2. PICK f : FlatTo(parts, f, n) /\ FlattenSeq(parts) = f[n]
        BY <1>2, <2>1, FlatStep
    <2>3. f = [i \in 1 .. n |-> IF i = 1 THEN parts[i] ELSE f[i - 1] \o parts[i]]
        BY <2>2 DEF FlatTo
    <2>4. ASSUME NEW i \in 1 .. n
          PROVE  f[i] = IF i = 1 THEN <<s[i]>> ELSE f[i - 1] \o <<s[i]>>
        BY <2>1, <2>3
    <2> DEFINE S == {0} \cup {m \in 1 .. n : f[m] \in Seq(T) /\ Len(f[m]) = m /\ \A i \in 1 .. m : f[m][i] = s[i]}
    <2>5. ASSUME NEW m \in 1 .. n, m - 1 \in S
          PROVE  m \in S
        <3>0. s[m] \in T
            BY <2>1
        <3>1. CASE m = 1
            <4>1. f[m] = <<s[m]>>
                BY <2>4, <3>1
            <4>2. f[m] \in Seq(T) /\ Len(f[m]) = 1 /\ f[m][1] = s[m]
                BY <3>0, <4>1
            <4>3. \A i \in 1 .. m : i = m
                BY <3>1
            <4> QED
                BY <3>1, <4>2, <4>3
        <3>2. CASE m # 1
            <4>1. f[m - 1] \in Seq(T) /\ Len(f[m - 1]) = m - 1 /\ \A i \in 1 .. m - 1 : f[m - 1][i] = s[i]
                BY <2>5, <3>2
            <4>2. f[m] = f[m - 1] \o <<s[m]>>
                BY <2>4, <3>2
            <4>3. f[m] \in Seq(T) /\ Len(f[m]) = m /\ f[m][m] = s[m] /\ \A i \in 1 .. m - 1 : f[m][i] = s[i]
                BY <3>0, <4>1, <4>2
            <4> QED
                BY <4>3
        <3> QED
            BY <3>1, <3>2
    <2>6. n \in S
        <3> HIDE DEF S
        <3>1. 0 \in S
            BY DEF S
        <3>2. \A m \in 0 .. n : m \in S
            BY <2>5, <3>1, UpTo
        <3> QED
            BY <3>2
    <2>7. f[n] \in Seq(T) /\ Len(f[n]) = Len(s) /\ \A i \in 1 .. Len(s) : f[n][i] = s[i]
        BY <2>1, <2>6
    <2> HIDE DEF S
    <2>8. PICK g \in Seq(T) : g = f[n] /\ Len(g) = Len(s) /\ \A i \in 1 .. Len(s) : g[i] = s[i]
        BY <2>7
    <2>9. g = s
        <3>1. g = [i \in 1 .. Len(g) |-> g[i]] /\ s = [i \in 1 .. Len(s) |-> s[i]]
            OBVIOUS
        <3>2. PICK m \in Nat : m = Len(s)
            OBVIOUS
        <3>3. g = [i \in 1 .. m |-> g[i]] /\ s = [i \in 1 .. m |-> s[i]] /\ \A i \in 1 .. m : g[i] = s[i]
            BY <2>8, <3>1, <3>2
        <3> QED
            BY <3>3
    <2> QED
        BY <2>1, <2>2, <2>8, <2>9
<1> QED
    BY <1>1, <1>2

-----------------------------------------------------------------------------
(* What the learner is shown of a plan. *)

Parts(d, steps) == [i \in DOMAIN steps |-> IF Exists(d, steps[i]) THEN <<Relink(d, steps[i])>> ELSE << >>]
Linked(d, T) == {Relink(d, step) : step \in T}

\* A step that loses its track stays the same step, and loses nothing the next time.
LEMMA RelinkKeeps ==
    ASSUME NEW d, NEW step, StepOK(step)
    PROVE  /\ StepOK(Relink(d, step)) /\ Key(Relink(d, step)) = Key(step)
           /\ Relink(d, step).type = step.type /\ Relink(d, step).item = step.item /\ Relink(d, step).done = step.done
           /\ Exists(d, step) => Exists(d, Relink(d, step))
           /\ Relink(d, Relink(d, step)) = Relink(d, step)
           /\ step.type = "external" \/ InStage(d, step) => Relink(d, step) = step
           /\ ~(step.type = "external" \/ InStage(d, step)) => Relink(d, step).track = None /\ Relink(d, step).stage = None
<1>1. CASE step.type = "external" \/ InStage(d, step)
    <2>1. Relink(d, step) = step
        BY <1>1 DEF Relink
    <2> QED
        BY <1>1, <2>1
<1>2. CASE ~(step.type = "external" \/ InStage(d, step))
    <2>1. step.type = "course"
        BY <1>2 DEF StepOK
    <2> DEFINE bare == [type |-> step.type, item |-> step.item, track |-> None, stage |-> None, done |-> step.done]
    <2>2. Relink(d, step) = [step EXCEPT !.track = None, !.stage = None]
        BY <1>2 DEF Relink
    <2>3. PICK ty, it, tr, st, do : step = [type |-> ty, item |-> it, track |-> tr, stage |-> st, done |-> do]
        BY DEF StepOK
    <2>4. Relink(d, step) = bare
        BY <2>2, <2>3
    <2>5. bare.type = "course" /\ bare.item = step.item /\ bare.done = step.done /\ bare.track = None /\ bare.stage = None
        BY <2>1
    <2>6. [bare EXCEPT !.track = None, !.stage = None] = bare
        <3> DEFINE R == [type : {step.type}, item : {step.item}, track : {None}, stage : {None}, done : {step.done}]
        <3>1. bare \in R
            OBVIOUS
        <3> HIDE DEF bare
        <3>2. [bare EXCEPT !.track = None, !.stage = None] \in R
            BY <3>1
        <3>3. \A x, y \in R : x = y
            OBVIOUS
        <3> QED
            BY <3>1, <3>2, <3>3
    <2> HIDE DEF bare
    <2>7. Relink(d, bare) = bare
        BY <2>6 DEF Relink
    <2>8. StepOK(bare)
        BY <2>1, <2>5 DEF StepOK, bare
    <2>9. Key(bare) = Key(step) /\ (Exists(d, step) => Exists(d, bare))
        BY <2>1, <2>5 DEF Key, Exists
    <2> QED
        BY <1>2, <2>1, <2>4, <2>5, <2>7, <2>8, <2>9
<1> QED
    BY <1>1, <1>2

StepsThere(d, steps) == {Relink(d, steps[i]) : i \in {j \in DOMAIN steps : Exists(d, steps[j])}}
FromPlaces(d, steps, shown) ==
    \E at \in [1 .. Len(shown) -> 1 .. Len(steps)] :
       /\ \A a, b \in 1 .. Len(shown) : at[a] = at[b] => a = b
       /\ \A a \in 1 .. Len(shown) : Exists(d, steps[at[a]]) /\ shown[a] = Relink(d, steps[at[a]])
\* What is shown are the steps that exist, each from a place of its own.
LEMMA ShownPlaces ==
    ASSUME NEW d, NEW T, NEW steps \in Seq(T)
    PROVE  /\ Render(d, steps) \in Seq(Linked(d, T)) /\ Len(Render(d, steps)) <= Len(steps)
           /\ ToSet(Render(d, steps)) = StepsThere(d, steps)
           /\ FromPlaces(d, steps, Render(d, steps))
<1> DEFINE parts == Parts(d, steps)
           shown == FlattenSeq(parts)
<1>1. PICK n \in Nat : n = Len(steps) /\ DOMAIN steps = 1 .. n
    OBVIOUS
<1>2. ASSUME NEW i \in 1 .. n
      PROVE  /\ parts[i] = IF Exists(d, steps[i]) THEN <<Relink(d, steps[i])>> ELSE << >>
             /\ Relink(d, steps[i]) \in Linked(d, T)
    BY <1>1 DEF Parts, Linked
<1>3. ASSUME NEW i \in 1 .. n
      PROVE  parts[i] \in Seq(Linked(d, T)) /\ Len(parts[i]) <= 1
    <2>1. ASSUME NEW x \in Linked(d, T)
          PROVE  <<x>> \in Seq(Linked(d, T)) /\ Len(<<x>>) <= 1
        OBVIOUS
    <2>2. << >> \in Seq(Linked(d, T)) /\ Len(<< >>) <= 1
        OBVIOUS
    <2> HIDE DEF parts
    <2> QED
        BY <1>2, <2>1, <2>2
<1>4. parts = [i \in 1 .. n |-> parts[i]]
    BY <1>1 DEF Parts
<1> HIDE DEF parts
<1>5. parts \in Seq(Seq(Linked(d, T))) /\ Len(parts) = n
    BY <1>3, <1>4
<1>6. shown \in Seq(Linked(d, T)) /\ ToSet(shown) = Members(parts, n)
    BY <1>5, Flat
<1>7. Len(shown) <= n /\ OneEach(parts, shown, n)
    BY <1>3, <1>5, FlatPlaces
<1>8. Members(parts, n) = StepsThere(d, steps)
    <2>1. \A x : ToSet(<<x>>) = {x}
        BY DEF ToSet
    <2>2. ToSet(<< >>) = {}
        BY DEF ToSet
    <2>3. \A i \in 1 .. n : ToSet(parts[i]) = IF Exists(d, steps[i]) THEN {Relink(d, steps[i])} ELSE {}
        BY <1>2, <2>1, <2>2
    <2> QED
        BY <1>1, <2>3 DEF Members, StepsThere
<1> HIDE DEF shown
<1>9. PICK at \in [1 .. Len(shown) -> 1 .. n] :
         /\ \A a, b \in 1 .. Len(shown) : at[a] = at[b] => a = b
         /\ \A a \in 1 .. Len(shown) : parts[at[a]] = <<shown[a]>>
    BY <1>7 DEF OneEach
<1>10. ASSUME NEW a \in 1 .. Len(shown)
       PROVE  Exists(d, steps[at[a]]) /\ shown[a] = Relink(d, steps[at[a]])
    <2>1. at[a] \in 1 .. n /\ parts[at[a]] = <<shown[a]>>
        BY <1>9
    <2>2. \A x : <<x>> # << >>
        OBVIOUS
    <2>3. \A x, y : <<x>> = <<y>> => x = y
        OBVIOUS
    <2> QED
        BY <1>2, <2>1, <2>2, <2>3
<1>11. Render(d, steps) = shown
    BY DEF Render, shown, parts, Parts
<1>12. FromPlaces(d, steps, shown)
    BY <1>1, <1>9, <1>10 DEF FromPlaces
<1> QED
    BY <1>1, <1>6, <1>7, <1>8, <1>11, <1>12

\* What is shown of a valid plan is a valid plan, and is shown as it is.
LEMMA ShownIsValid ==
    ASSUME NEW d, NEW T, NEW steps \in Seq(T), \A step \in T : StepOK(step),
           \A i, j \in DOMAIN steps : Key(steps[i]) = Key(steps[j]) => i = j
    PROVE  CheckSteps(d, Render(d, steps)) /\ Render(d, Render(d, steps)) = Render(d, steps)
<1> DEFINE shown == Render(d, steps)
<1>1. PICK at \in [1 .. Len(shown) -> 1 .. Len(steps)] :
         /\ \A a, b \in 1 .. Len(shown) : at[a] = at[b] => a = b
         /\ \A a \in 1 .. Len(shown) : Exists(d, steps[at[a]]) /\ shown[a] = Relink(d, steps[at[a]])
    <2>1. FromPlaces(d, steps, shown)
        BY ShownPlaces
    <2> HIDE DEF shown
    <2> QED
        BY <2>1 DEF FromPlaces
<1>2. shown \in Seq(Linked(d, T))
    BY ShownPlaces
<1> HIDE DEF shown
<1>3. PICK n \in Nat : n = Len(shown) /\ DOMAIN shown = 1 .. n
    BY <1>2
<1>4. ASSUME NEW a \in 1 .. n
      PROVE  /\ at[a] \in DOMAIN steps /\ StepOK(steps[at[a]])
             /\ Exists(d, steps[at[a]]) /\ shown[a] = Relink(d, steps[at[a]])
    BY <1>1, <1>3
<1>5. ASSUME NEW a \in 1 .. n
      PROVE  /\ Exists(d, shown[a]) /\ Relink(d, shown[a]) = shown[a]
             /\ StepOK(shown[a]) /\ Key(shown[a]) = Key(steps[at[a]])
             /\ shown[a].type = "external" \/ InStage(d, shown[a]) \/ {shown[a].track, shown[a].stage} = {None}
    <2>1. /\ shown[a] = Relink(d, steps[at[a]]) /\ Exists(d, shown[a]) /\ Relink(d, shown[a]) = shown[a]
          /\ StepOK(shown[a]) /\ Key(shown[a]) = Key(steps[at[a]]) /\ shown[a].type = steps[at[a]].type
        BY <1>4, RelinkKeeps
    <2>2. CASE steps[at[a]].type = "external" \/ InStage(d, steps[at[a]])
        <3>1. shown[a] = steps[at[a]]
            BY <1>4, <2>2, RelinkKeeps
        <3> QED
            BY <2>1, <2>2, <3>1
    <2>3. CASE ~(steps[at[a]].type = "external" \/ InStage(d, steps[at[a]]))
        <3>1. shown[a].track = None /\ shown[a].stage = None
            BY <1>4, <2>3, RelinkKeeps
        <3>2. {shown[a].track, shown[a].stage} = {None}
            BY <3>1
        <3> QED
            BY <2>1, <3>2
    <2> QED
        BY <2>2, <2>3
<1>6. ASSUME NEW a \in 1 .. n, NEW b \in 1 .. n, Key(shown[a]) = Key(shown[b])
      PROVE  a = b
    BY <1>1, <1>3, <1>4, <1>5, <1>6
<1>7. ASSUME NEW a \in 1 .. n
      PROVE  /\ shown[a].type = "course" => shown[a].item \in DOMAIN d.courses
             /\ shown[a].type = "external" \/ {shown[a].track, shown[a].stage} # {None} => InStage(d, shown[a])
    BY <1>5 DEF Exists, StepOK
<1>8. CheckSteps(d, shown)
    BY <1>3, <1>6, <1>7 DEF CheckSteps
<1>9. Render(d, shown) = shown
    <2> DEFINE parts == Parts(d, shown)
    <2>1. ASSUME NEW a \in 1 .. n
          PROVE  parts[a] = <<shown[a]>> /\ parts[a] \in Seq(Linked(d, T))
        BY <1>2, <1>3, <1>5 DEF Parts
    <2>2. parts = [a \in 1 .. n |-> parts[a]]
        BY <1>3 DEF Parts
    <2>3. Render(d, shown) = FlattenSeq(parts)
        BY DEF Render, Parts
    <2> HIDE DEF parts
    <2>4. parts \in Seq(Seq(Linked(d, T))) /\ Len(parts) = Len(shown)
        BY <1>3, <2>1, <2>2
    <2> QED
        BY <1>2, <1>3, <2>1, <2>3, <2>4, FlatSame
<1> QED
    BY <1>8, <1>9 DEF shown

\* No step is twice in the plan.
PlanInv == plan # None => \A i, j \in DOMAIN plan.steps : Key(plan.steps[i]) = Key(plan.steps[j]) => i = j
\* Only save_plan writes steps, and checks them.
LEMMA PlanStepsStep == PlanInv /\ [Next]_vars => PlanInv'
BY Writers DEF PlanInv, WritesPlan, Written, CheckSteps

\* The steps of the plan are those of a request.
LEMMA PlanSteps ==
    ASSUME IInv
    PROVE  \E T : Steps(plan) \in Seq(T) /\ \A step \in T : StepOK(step)
<1>1. CASE plan = None
    <2>1. Steps(plan) = << >> /\ << >> \in Seq({})
        BY <1>1 DEF Steps
    <2> QED
        BY <2>1
<1>2. CASE plan # None
    <2>1. PICK r \in PlanRequests : plan = Written(r)
        BY <1>2 DEF IInv, RowInv, PlanRows
    <2>2. Steps(plan) = r.steps
        BY <1>2, <2>1 DEF Steps, Written
    <2> QED
        BY <2>2, PlanConstantsOK
<1> QED
    BY <1>1, <1>2

\* Whatever releases removed from under a plan, what is shown of it can be saved, and is then shown the same.
THEOREM PlanShown == Spec => []ShownCanBeSaved
<1>1. Init => PlanInv
    BY DEF Init, PlanInit, PlanInv
<1>2. ASSUME IInv, PlanInv
      PROVE  ShownCanBeSaved
    <2>1. PICK T : Steps(plan) \in Seq(T) /\ \A step \in T : StepOK(step)
        BY <1>2, PlanSteps
    <2>2. \A i, j \in DOMAIN Steps(plan) : Key(Steps(plan)[i]) = Key(Steps(plan)[j]) => i = j
        BY <1>2 DEF PlanInv, Steps
    <2>3. /\ CheckSteps(deployed, Render(deployed, Steps(plan)))
          /\ Render(deployed, Render(deployed, Steps(plan))) = Render(deployed, Steps(plan))
        BY <2>1, <2>2, ShownIsValid
    <2>4. Len(Steps(plan)) \in Nat /\ Len(Steps(plan)) <= StepLimit
        BY <1>2, <2>1, PlanConstantsOK DEF IInv, TypeOK, Steps
    <2>5. Len(Render(deployed, Steps(plan))) <= StepLimit
        <3>1. Render(deployed, Steps(plan)) \in Seq(Linked(deployed, T)) /\ Len(Render(deployed, Steps(plan))) <= Len(Steps(plan))
            BY <2>1, ShownPlaces
        <3>2. Len(Render(deployed, Steps(plan))) \in Nat
            BY <3>1
        <3> QED
            BY <2>4, <3>1, <3>2, PlanConstantsOK
    <2> QED
        BY <2>3, <2>5 DEF ShownCanBeSaved
<1> QED
    BY <1>1, <1>2, PlanStepsStep, Invariance, PTL DEF Spec
-----------------------------------------------------------------------------
(* The lessons of a course. *)

\* A sequence has finitely many members.
LEMMA MembersFinite ==
    ASSUME NEW T, NEW s \in Seq(T)
    PROVE  IsFiniteSet(ToSet(s)) /\ IsFiniteSet(DOMAIN s) /\ Cardinality(DOMAIN s) = Len(s)
<1>1. PICK n \in Nat : n = Len(s) /\ DOMAIN s = 1 .. n
    OBVIOUS
<1>2. IsFiniteSet(1 .. n) /\ Cardinality(1 .. n) = n
    <2>1. 1 \in Int /\ n \in Int
        OBVIOUS
    <2> QED
        BY <2>1, FS_Interval
<1> DEFINE f == [i \in 1 .. n |-> s[i]]
<1>3. f \in Surjection(1 .. n, ToSet(s))
    <2>1. f \in [1 .. n -> ToSet(s)]
        BY <1>1 DEF ToSet
    <2>2. \A x \in ToSet(s) : \E i \in 1 .. n : f[i] = x
        BY <1>1 DEF ToSet
    <2> HIDE DEF f
    <2> QED
        BY <2>1, <2>2 DEF Surjection
<1> HIDE DEF f
<1>4. IsFiniteSet(ToSet(s))
    BY <1>2, <1>3, FS_Surjection
<1> QED
    BY <1>1, <1>2, <1>4

\* A finite set is written out, each of its members once.
LEMMA WrittenOut ==
    ASSUME NEW S, IsFiniteSet(S)
    PROVE  SetToSeq(S) \in Seq(S) /\ ToSet(SetToSeq(S)) = S
<1>1. PICK n \in Nat : n = Cardinality(S)
    BY FS_CardinalityType
<1>2. \E f \in [1 .. n -> S] : IsInjective(f)
    BY <1>1, FS_CardinalityType DEF ExistsBijection, Bijection, Injection
<1> DEFINE f == SetToSeq(S)
<1>3. f \in [1 .. n -> S] /\ IsInjective(f)
    BY <1>1, <1>2 DEF SetToSeq
<1> HIDE DEF f
<1>4. f \in Injection(1 .. n, S)
    BY <1>3 DEF Injection
<1>5. IsFiniteSet(1 .. n) /\ Cardinality(1 .. n) = n
    <2>1. 1 \in Int /\ n \in Int
        OBVIOUS
    <2> QED
        BY <2>1, FS_Interval
<1>6. f \in Surjection(1 .. n, S)
    BY <1>1, <1>4, <1>5, FS_Injection
<1>7. f \in Seq(S) /\ DOMAIN f = 1 .. n
    BY <1>3
<1>8. ToSet(f) = S
    BY <1>3, <1>6, <1>7 DEF ToSet, Surjection
<1> QED
    BY <1>7, <1>8 DEF f

Singles(S) == {{x} : x \in S}
\* A path has a lesson for each of its rooms in units.
LEMMA RoomsOfPath ==
    ASSUME NEW T, NEW path \in Seq(T), NEW units
    PROVE  RoomLessons(path, units) \in Seq(SUBSET T) /\ ToSet(RoomLessons(path, units)) = Singles(ToSet(path) \cap units)
<1> DEFINE parts == [i \in DOMAIN path |-> IF path[i] \in units THEN <<{path[i]}>> ELSE << >>]
<1>1. PICK n \in Nat : n = Len(path) /\ DOMAIN path = 1 .. n
    OBVIOUS
<1>2. ASSUME NEW i \in 1 .. n
      PROVE  /\ parts[i] = IF path[i] \in units THEN <<{path[i]}>> ELSE << >>
             /\ {path[i]} \in SUBSET T
    BY <1>1
<1>3. parts = [i \in 1 .. n |-> parts[i]]
    BY <1>1
<1>4. RoomLessons(path, units) = FlattenSeq(parts)
    BY DEF RoomLessons
<1> HIDE DEF parts
<1>5. ASSUME NEW i \in 1 .. n
      PROVE  parts[i] \in Seq(SUBSET T)
    <2>1. \A x \in SUBSET T : <<x>> \in Seq(SUBSET T)
        OBVIOUS
    <2>2. << >> \in Seq(SUBSET T)
        OBVIOUS
    <2> QED
        BY <1>2, <2>1, <2>2
<1>6. parts \in Seq(Seq(SUBSET T)) /\ Len(parts) = n
    BY <1>3, <1>5
<1>7. FlattenSeq(parts) \in Seq(SUBSET T) /\ ToSet(FlattenSeq(parts)) = Members(parts, n)
    BY <1>6, Flat
<1>8. \A i \in 1 .. n : ToSet(parts[i]) = IF path[i] \in units THEN {{path[i]}} ELSE {}
    <2>1. \A x : ToSet(<<x>>) = {x}
        BY DEF ToSet
    <2>2. ToSet(<< >>) = {}
        BY DEF ToSet
    <2> QED
        BY <1>2, <2>1, <2>2
<1>9. Members(parts, n) = {{path[i]} : i \in {j \in 1 .. n : path[j] \in units}}
    BY <1>8 DEF Members
<1>10. {{path[i]} : i \in {j \in 1 .. n : path[j] \in units}} = Singles(ToSet(path) \cap units)
    BY <1>1 DEF Singles, ToSet
<1> QED
    BY <1>4, <1>7, <1>9, <1>10

\* Sections have a lesson for each of their lectures.
LEMMA VideosOfSections ==
    ASSUME NEW T, NEW sections \in Seq(T), \A section \in T : IsFiniteSet(section)
    PROVE  /\ VideoLessons(sections) \in Seq(SUBSET UNION T)
           /\ ToSet(VideoLessons(sections)) = Singles(UNION ToSet(sections))
<1> DEFINE parts == [i \in DOMAIN sections |-> SetToSeq({{l} : l \in sections[i]})]
<1>1. PICK n \in Nat : n = Len(sections) /\ DOMAIN sections = 1 .. n
    OBVIOUS
<1>2. ASSUME NEW i \in 1 .. n
      PROVE  parts[i] = SetToSeq(Singles(sections[i])) /\ sections[i] \in T
    BY <1>1 DEF Singles
<1>3. parts = [i \in 1 .. n |-> parts[i]]
    BY <1>1
<1>4. VideoLessons(sections) = FlattenSeq(parts)
    BY DEF VideoLessons
<1> HIDE DEF parts
<1>5. ASSUME NEW S, IsFiniteSet(S)
      PROVE  IsFiniteSet(Singles(S))
    <2> DEFINE f == [x \in S |-> {x}]
    <2>1. f \in Surjection(S, Singles(S))
        <3>1. f \in [S -> Singles(S)]
            BY DEF Singles
        <3>2. \A y \in Singles(S) : \E x \in S : f[x] = y
            BY DEF Singles
        <3> HIDE DEF f
        <3> QED
            BY <3>1, <3>2 DEF Surjection
    <2> HIDE DEF f
    <2> QED
        BY <1>5, <2>1, FS_Surjection
<1>6. ASSUME NEW i \in 1 .. n
      PROVE  parts[i] \in Seq(SUBSET UNION T) /\ ToSet(parts[i]) = Singles(sections[i])
    <2>1. IsFiniteSet(Singles(sections[i]))
        BY <1>2, <1>5
    <2>2. parts[i] \in Seq(Singles(sections[i])) /\ ToSet(parts[i]) = Singles(sections[i])
        BY <1>2, <2>1, WrittenOut
    <2>3. Singles(sections[i]) \subseteq SUBSET UNION T
        BY <1>2 DEF Singles
    <2> QED
        BY <2>2, <2>3
<1>7. parts \in Seq(Seq(SUBSET UNION T)) /\ Len(parts) = n
    BY <1>3, <1>6
<1>8. FlattenSeq(parts) \in Seq(SUBSET UNION T) /\ ToSet(FlattenSeq(parts)) = Members(parts, n)
    BY <1>7, Flat
<1>9. Members(parts, n) = UNION {Singles(sections[i]) : i \in 1 .. n}
    BY <1>6 DEF Members
<1>10. UNION {Singles(sections[i]) : i \in 1 .. n} = Singles(UNION ToSet(sections))
    BY <1>1 DEF Singles, ToSet
<1> QED
    BY <1>4, <1>8, <1>9, <1>10

\* A curriculum without the units that are hidden, and without lessons that have no other.
LEMMA WithoutHidden ==
    ASSUME NEW T, NEW lessons \in Seq(T), NEW hidden
    PROVE  /\ WithoutUnavailable(lessons, hidden) \in Seq({x \ hidden : x \in T})
           /\ ToSet(WithoutUnavailable(lessons, hidden)) = {x \ hidden : x \in {y \in ToSet(lessons) : ~(y \subseteq hidden)}}
<1> DEFINE rest == {x \ hidden : x \in T}
           parts == [i \in DOMAIN lessons |-> IF lessons[i] \subseteq hidden THEN << >> ELSE <<lessons[i] \ hidden>>]
<1>1. PICK n \in Nat : n = Len(lessons) /\ DOMAIN lessons = 1 .. n
    OBVIOUS
<1>2. ASSUME NEW i \in 1 .. n
      PROVE  /\ parts[i] = IF lessons[i] \subseteq hidden THEN << >> ELSE <<lessons[i] \ hidden>>
             /\ lessons[i] \ hidden \in rest
    BY <1>1
<1>3. parts = [i \in 1 .. n |-> parts[i]]
    BY <1>1
<1>4. WithoutUnavailable(lessons, hidden) = FlattenSeq(parts)
    BY DEF WithoutUnavailable
<1> HIDE DEF parts, rest
<1>5. ASSUME NEW i \in 1 .. n
      PROVE  parts[i] \in Seq(rest)
    <2>1. \A x \in rest : <<x>> \in Seq(rest)
        OBVIOUS
    <2>2. << >> \in Seq(rest)
        OBVIOUS
    <2> QED
        BY <1>2, <2>1, <2>2
<1>6. parts \in Seq(Seq(rest)) /\ Len(parts) = n
    BY <1>3, <1>5
<1>7. FlattenSeq(parts) \in Seq(rest) /\ ToSet(FlattenSeq(parts)) = Members(parts, n)
    BY <1>6, Flat
<1>8. \A i \in 1 .. n : ToSet(parts[i]) = IF ~(lessons[i] \subseteq hidden) THEN {lessons[i] \ hidden} ELSE {}
    <2>1. \A x : ToSet(<<x>>) = {x}
        BY DEF ToSet
    <2>2. ToSet(<< >>) = {}
        BY DEF ToSet
    <2> QED
        BY <1>2, <2>1, <2>2
<1>9. Members(parts, n) = {lessons[i] \ hidden : i \in {j \in 1 .. n : ~(lessons[j] \subseteq hidden)}}
    <2> DEFINE left(i) == lessons[i] \ hidden
               stays(i) == ~(lessons[i] \subseteq hidden)
    <2>1. \A i \in 1 .. n : ToSet(parts[i]) = IF stays(i) THEN {left(i)} ELSE {}
        BY <1>8
    <2> HIDE DEF left, stays
    <2>2. Members(parts, n) = {left(i) : i \in {j \in 1 .. n : stays(j)}}
        BY <2>1 DEF Members
    <2> QED
        BY <2>2 DEF left, stays
<1>10. {lessons[i] \ hidden : i \in {j \in 1 .. n : ~(lessons[j] \subseteq hidden)}}
          = {x \ hidden : x \in {y \in ToSet(lessons) : ~(y \subseteq hidden)}}
    BY <1>1 DEF ToSet
<1> QED
    BY <1>4, <1>7, <1>9, <1>10 DEF rest

\* The parts of Definition: the units and activities there are, the hidden ones, the lessons, and when there are none.
UnitsHere(d, engine, course) == IF course.path \in DOMAIN d.paths THEN ActiveUnits(d, engine, course.path) ELSE {}
Hidden(d, engine, course) == IF course.path = Nothing THEN {} ELSE Withdrawn(d, engine) \cap EngineUnits
Known(d, engine, course) == UnitsHere(d, engine, course) \cup UNION ToSet(course.sections)
Composed(d, engine, course) ==
    IF course.curriculum # Nothing THEN WithoutUnavailable(course.curriculum, Hidden(d, engine, course))
    ELSE (IF course.path = Nothing THEN << >> ELSE RoomLessons(d.paths[course.path], UnitsHere(d, engine, course)))
         \o VideoLessons(course.sections)
NoCatalogue(d, course) ==
    course.path # Nothing /\ (d.content = "on" => course.curriculum = Nothing /\ course.path \notin DOMAIN d.paths)
NoneKnown(d, engine, course) ==
    \E i \in DOMAIN Composed(d, engine, course) : ~(Composed(d, engine, course)[i] \subseteq Known(d, engine, course))
LEMMA DefinitionParts ==
    ASSUME NEW d, NEW engine, NEW course
    PROVE  Definition(d, engine, course) =
              IF NoCatalogue(d, course) \/ NoneKnown(d, engine, course) THEN Unavailable ELSE Composed(d, engine, course)
BY DEF Definition, UnitsHere, Hidden, Known, Composed, NoCatalogue, NoneKnown

\* A deployed course has its sections, curriculum and path as they are validated.
LEMMA CourseIs ==
    ASSUME NEW d \in Deployments, NEW k \in DOMAIN d.courses
    PROVE  LET course == d.courses[k] IN
           /\ course.sections \in Seq(ToSet(course.sections))
           /\ \A section \in ToSet(course.sections) : section \subseteq Lectures /\ IsFiniteSet(section)
           /\ course.curriculum # Nothing => course.curriculum \in Seq(ToSet(course.curriculum))
           /\ course.path \in DOMAIN d.paths => /\ d.paths[course.path] \in Seq(ToSet(d.paths[course.path]))
                                                /\ ToSet(d.paths[course.path]) \subseteq Units
                                                /\ course.path # Nothing
BY DeploymentsOK DEF CourseOK

\* The lessons of a course with a curriculum, and of one without.
LessonsLeft(d, engine, course) ==
    IF course.curriculum # Nothing
    THEN {x \ Hidden(d, engine, course) : x \in {y \in ToSet(course.curriculum) : ~(y \subseteq Hidden(d, engine, course))}}
    ELSE Singles(UnitsHere(d, engine, course)) \cup Singles(UNION ToSet(course.sections))
LEMMA ComposedIs ==
    ASSUME NEW d \in Deployments, NEW engine, NEW k \in DOMAIN d.courses, ~NoCatalogue(d, d.courses[k])
    PROVE  /\ \E T : Composed(d, engine, d.courses[k]) \in Seq(T)
           /\ ToSet(Composed(d, engine, d.courses[k])) = LessonsLeft(d, engine, d.courses[k])
<1>1. PICK course : course = d.courses[k]
    OBVIOUS
<1>2. CASE course.curriculum # Nothing
    <2>1. course.curriculum \in Seq(ToSet(course.curriculum))
        BY <1>1, <1>2, CourseIs
    <2>2. Composed(d, engine, course) = WithoutUnavailable(course.curriculum, Hidden(d, engine, course))
        BY <1>2 DEF Composed
    <2>3. PICK hidden, lessons : hidden = Hidden(d, engine, course) /\ lessons = course.curriculum
        OBVIOUS
    <2>4. /\ WithoutUnavailable(lessons, hidden) \in Seq({x \ hidden : x \in ToSet(lessons)})
          /\ ToSet(WithoutUnavailable(lessons, hidden)) = {x \ hidden : x \in {y \in ToSet(lessons) : ~(y \subseteq hidden)}}
        BY <2>1, <2>3, WithoutHidden
    <2>5. LessonsLeft(d, engine, course) = {x \ hidden : x \in {y \in ToSet(lessons) : ~(y \subseteq hidden)}}
        BY <1>2, <2>3 DEF LessonsLeft
    <2> QED
        BY <1>1, <2>2, <2>3, <2>4, <2>5
<1>3. CASE course.curriculum = Nothing
    <2> DEFINE rooms == IF course.path = Nothing THEN << >> ELSE RoomLessons(d.paths[course.path], UnitsHere(d, engine, course))
               Videos == UNION ToSet(course.sections)
    <2>1. VideoLessons(course.sections) \in Seq(SUBSET Videos) /\ ToSet(VideoLessons(course.sections)) = Singles(Videos)
        BY <1>1, CourseIs, VideosOfSections
    <2>2. \E S : rooms \in Seq(SUBSET S) /\ ToSet(rooms) = Singles(UnitsHere(d, engine, course))
        <3>1. CASE course.path = Nothing
            <4>1. UnitsHere(d, engine, course) = {}
                BY <1>1, <3>1, CourseIs DEF UnitsHere
            <4>2. rooms = << >> /\ << >> \in Seq(SUBSET {}) /\ ToSet(<< >>) = {} /\ Singles({}) = {}
                BY <3>1 DEF ToSet, Singles
            <4> QED
                BY <4>1, <4>2
        <3>2. CASE course.path # Nothing
            <4>1. course.path \in DOMAIN d.paths
                BY <1>1, <1>3, <3>2 DEF NoCatalogue
            <4>2. PICK path : path = d.paths[course.path] /\ path \in Seq(ToSet(path))
                BY <1>1, <4>1, CourseIs
            <4>3. ToSet(path) \cap UnitsHere(d, engine, course) = UnitsHere(d, engine, course)
                BY <4>1, <4>2 DEF UnitsHere, ActiveUnits, UnitsOf
            <4>4. rooms = RoomLessons(path, UnitsHere(d, engine, course))
                BY <3>2, <4>2
            <4> HIDE DEF rooms
            <4>5. rooms \in Seq(SUBSET ToSet(path)) /\ ToSet(rooms) = Singles(UnitsHere(d, engine, course))
                <5>1. PICK P, units : P = ToSet(path) /\ units = UnitsHere(d, engine, course)
                    OBVIOUS
                <5>2. /\ RoomLessons(path, units) \in Seq(SUBSET P)
                      /\ ToSet(RoomLessons(path, units)) = Singles(ToSet(path) \cap units)
                    BY <4>2, <5>1, RoomsOfPath
                <5> QED
                    BY <4>3, <4>4, <5>1, <5>2
            <4> QED
                BY <4>5
        <3> QED
            BY <3>1, <3>2
    <2>3. Composed(d, engine, course) = rooms \o VideoLessons(course.sections)
        BY <1>3 DEF Composed
    <2> HIDE DEF rooms, Videos
    <2>4. PICK S : rooms \in Seq(SUBSET S) /\ ToSet(rooms) = Singles(UnitsHere(d, engine, course))
        BY <2>2
    <2>5. PICK V : V = VideoLessons(course.sections)
        OBVIOUS
    <2>6. PICK A, B : A = SUBSET S /\ B = SUBSET Videos
        OBVIOUS
    <2>7. rooms \in Seq(A) /\ V \in Seq(B)
        BY <2>1, <2>4, <2>5, <2>6
    <2>8. rooms \in Seq(A \cup B) /\ V \in Seq(A \cup B)
        BY <2>7
    <2>9. rooms \o V \in Seq(A \cup B) /\ ToSet(rooms \o V) = ToSet(rooms) \cup ToSet(V)
        BY <2>8, ConcatMembers
    <2>10. LessonsLeft(d, engine, course) = ToSet(rooms) \cup ToSet(V)
        BY <1>3, <2>1, <2>4, <2>5 DEF LessonsLeft, Videos
    <2> QED
        BY <1>1, <2>3, <2>5, <2>9, <2>10
<1> QED
    BY <1>1, <1>2, <1>3

\* The lessons of a course, where there are any.
LEMMA DefinitionIs ==
    ASSUME NEW d \in Deployments, NEW engine, NEW k \in DOMAIN d.courses,
           Definition(d, engine, d.courses[k]) # Unavailable
    PROVE  /\ ~NoCatalogue(d, d.courses[k])
           /\ \E T : Definition(d, engine, d.courses[k]) \in Seq(T)
           /\ ToSet(Definition(d, engine, d.courses[k])) = LessonsLeft(d, engine, d.courses[k])
           /\ \A x \in LessonsLeft(d, engine, d.courses[k]) : x \subseteq Known(d, engine, d.courses[k])
<1>1. PICK course : course = d.courses[k]
    OBVIOUS
<1>2. /\ ~NoCatalogue(d, course) /\ ~NoneKnown(d, engine, course)
      /\ Definition(d, engine, course) = Composed(d, engine, course)
    BY <1>1, DefinitionParts
<1>3. /\ \E T : Composed(d, engine, course) \in Seq(T)
      /\ ToSet(Composed(d, engine, course)) = LessonsLeft(d, engine, course)
    BY <1>1, <1>2, ComposedIs
<1>4. \A x \in ToSet(Composed(d, engine, course)) : x \subseteq Known(d, engine, course)
    BY <1>2 DEF NoneKnown, ToSet
<1> QED
    BY <1>1, <1>2, <1>3, <1>4

\* A course has lessons exactly if its catalogue is there and has all of them.
LEMMA DefinitionThere ==
    ASSUME NEW d \in Deployments, NEW engine, NEW k \in DOMAIN d.courses, ~NoCatalogue(d, d.courses[k]),
           \A x \in LessonsLeft(d, engine, d.courses[k]) : x \subseteq Known(d, engine, d.courses[k])
    PROVE  Definition(d, engine, d.courses[k]) # Unavailable
<1>1. PICK course : course = d.courses[k]
    OBVIOUS
<1>2. /\ \E T : Composed(d, engine, course) \in Seq(T)
      /\ ToSet(Composed(d, engine, course)) = LessonsLeft(d, engine, course)
    BY <1>1, ComposedIs
<1>3. ~NoneKnown(d, engine, course)
    BY <1>1, <1>2 DEF NoneKnown, ToSet
<1>4. Definition(d, engine, course) = Composed(d, engine, course)
    BY <1>1, <1>3, DefinitionParts
<1>5. "unavailable" \notin Known(d, engine, course)
    <2>1. UnitsHere(d, engine, course) \subseteq Units
        BY <1>1, CourseIs DEF UnitsHere, ActiveUnits, UnitsOf
    <2>2. UNION ToSet(course.sections) \subseteq Lectures
        BY <1>1, CourseIs
    <2> QED
        BY <2>1, <2>2, EngineUnitsAreUnits DEF Known
<1>6. {"unavailable"} \notin ToSet(Composed(d, engine, course))
    BY <1>1, <1>2, <1>5
<1>7. {"unavailable"} \in ToSet(Unavailable)
    BY DEF ToSet, Unavailable
<1> QED
    BY <1>1, <1>4, <1>6, <1>7

-----------------------------------------------------------------------------
(* What the pages say of a course. *)

\* A result says that all is done exactly if it is, and counts nothing if there is nothing to count.
LEMMA ResultIs ==
    ASSUME NEW complete \in BOOLEAN, NEW started, NEW done, NEW total
    PROVE  /\ Result(complete, started, done, total).status = "done" <=> complete
           /\ Result(complete, started, done, total).done = IF total = 0 THEN Nothing ELSE done
           /\ Result(complete, started, done, total).total = IF total = 0 THEN Nothing ELSE total
BY DEF Result, Progress
LEMMA UnknownIs == Unknown.status = "open" /\ Unknown.total = Nothing
BY DEF Unknown, Progress

AllOf(X, w) == \A x \in X : \A a \in x : Finished(a, w)
LEMMA AllFinishedIs ==
    ASSUME NEW lessons, NEW w
    PROVE  AllFinished(lessons, w) <=> AllOf(ToSet(lessons), w)
BY DEF AllFinished, AllOf, ToSet

\* What each kind of course counts.
LessonsDone(lessons, w) == {i \in DOMAIN lessons : \A a \in lessons[i] : Finished(a, w)}
LessonsBegun(lessons, w) == \E a \in UNION ToSet(lessons) : Finished(a, w) \/ (a \in Units /\ w.rooms[a] # "none")
LEMMA ExplicitCounts ==
    ASSUME NEW d, NEW engine, NEW course, NEW w, NEW lessons, lessons = Definition(d, engine, course), lessons # Unavailable
    PROVE  ExplicitProgress(d, engine, course, w) = Result(AllFinished(lessons, w), LessonsBegun(lessons, w),
                                                           Cardinality(LessonsDone(lessons, w)), Len(lessons))
BY DEF ExplicitProgress, LessonsBegun, LessonsDone
RoomsBegun(active, w) == \E u \in active : w.rooms[u] \notin {"none", "new"}
RoomsDone(active, w) == {u \in active : Finished(u, w)}
LEMMA PathCounts ==
    ASSUME NEW d, NEW engine, NEW course, NEW w, NEW active, active = UnitsHere(d, engine, course), d.content = "on"
    PROVE  PathProgress(d, engine, course, w) =
              Result(active # {} /\ PathCompleted(d, engine, course.path, w), RoomsBegun(active, w),
                     Cardinality(RoomsDone(active, w)), Cardinality(active))
BY DEF PathProgress, RoomsBegun, RoomsDone, UnitsHere

\* When a course is done, by its kind.
DoneByCurriculum(d, engine, course, w) ==
    Definition(d, engine, course) # Unavailable /\ AllOf(ToSet(Definition(d, engine, course)), w)
DoneByPath(d, engine, course, w) ==
    d.content = "on" /\ course.path \in DOMAIN d.paths /\ PathCompleted(d, engine, course.path, w)
DoneByVideos(course, w) == course.sections # << >> /\ UNION ToSet(course.sections) \subseteq w.lectures
DoneIs(d, engine, course, w) ==
    /\ course.curriculum # Nothing => DoneByCurriculum(d, engine, course, w)
    /\ course.curriculum = Nothing /\ course.path # Nothing => DoneByPath(d, engine, course, w)
    /\ course.curriculum = Nothing /\ course.path = Nothing => DoneByVideos(course, w)
LEMMA StatusIsDone ==
    ASSUME NEW d, NEW engine, NEW course, NEW w
    PROVE  CourseProgress(d, engine, course, w).status = "done" <=> DoneIs(d, engine, course, w)
<1>1. CASE course.curriculum # Nothing
    <2>1. CourseProgress(d, engine, course, w) = ExplicitProgress(d, engine, course, w)
        BY <1>1 DEF CourseProgress
    <2>2. PICK lessons : lessons = Definition(d, engine, course)
        OBVIOUS
    <2>3. CASE lessons = Unavailable
        BY <1>1, <2>1, <2>2, <2>3, UnknownIs DEF ExplicitProgress, DoneIs, DoneByCurriculum
    <2>4. CASE lessons # Unavailable
        <3>1. AllFinished(lessons, w) \in BOOLEAN
            BY DEF AllFinished
        <3>2. ExplicitProgress(d, engine, course, w).status = "done" <=> AllFinished(lessons, w)
            BY <2>2, <2>4, <3>1, ResultIs, ExplicitCounts
        <3> QED
            BY <1>1, <2>1, <2>2, <2>4, <3>2, AllFinishedIs DEF DoneIs, DoneByCurriculum
    <2> QED
        BY <2>3, <2>4
<1>2. CASE course.curriculum = Nothing /\ course.path # Nothing
    <2>1. CourseProgress(d, engine, course, w) = PathProgress(d, engine, course, w)
        BY <1>2 DEF CourseProgress
    <2>2. CASE d.content # "on"
        BY <1>2, <2>1, <2>2, UnknownIs DEF PathProgress, DoneIs, DoneByPath
    <2>3. CASE d.content = "on"
        <3> DEFINE complete == UnitsHere(d, engine, course) # {} /\ PathCompleted(d, engine, course.path, w)
        <3>1. complete \in BOOLEAN
            OBVIOUS
        <3> HIDE DEF complete
        <3>2. PathProgress(d, engine, course, w).status = "done" <=> complete
            <4>1. PICK active : active = UnitsHere(d, engine, course)
                OBVIOUS
            <4>2. PICK started, done, total : /\ started = RoomsBegun(active, w)
                                              /\ done = Cardinality(RoomsDone(active, w)) /\ total = Cardinality(active)
                OBVIOUS
            <4>3. complete = (active # {} /\ PathCompleted(d, engine, course.path, w))
                BY <4>1 DEF complete
            <4>4. PathProgress(d, engine, course, w) = Result(complete, started, done, total)
                BY <2>3, <4>1, <4>2, <4>3, PathCounts
            <4> QED
                BY <3>1, <4>4, ResultIs
        <3>3. complete <=> DoneByPath(d, engine, course, w)
            BY <2>3 DEF complete, UnitsHere, DoneByPath, PathCompleted
        <3> QED
            BY <1>2, <2>1, <3>2, <3>3 DEF DoneIs
    <2> QED
        BY <2>2, <2>3
<1>3. CASE course.curriculum = Nothing /\ course.path = Nothing
    <2> DEFINE lectures == UNION ToSet(course.sections)
               complete == course.sections # << >> /\ lectures \cap w.lectures = lectures
    <2>1. CourseProgress(d, engine, course, w) = VideoProgress(course, w)
        BY <1>3 DEF CourseProgress
    <2>2. complete \in BOOLEAN
        OBVIOUS
    <2> HIDE DEF complete
    <2>3. VideoProgress(course, w).status = "done" <=> complete
        <3>1. complete = (course.sections # << >> /\ lectures \cap w.lectures = lectures)
            BY DEF complete
        <3>2. PICK started, done, total : /\ started = FALSE
                                          /\ done = Cardinality(lectures \cap w.lectures) /\ total = Cardinality(lectures)
            OBVIOUS
        <3>3. VideoProgress(course, w) = Result(complete, started, done, total)
            <4>1. VideoProgress(course, w) = Result(complete, FALSE, Cardinality(lectures \cap w.lectures), Cardinality(lectures))
                BY <3>1 DEF VideoProgress
            <4> QED
                BY <3>2, <4>1
        <3>4. Result(complete, started, done, total).status = "done" <=> complete
            BY <2>2, ResultIs
        <3> QED
            BY <3>3, <3>4
    <2>4. complete <=> DoneByVideos(course, w)
        BY DEF complete, DoneByVideos
    <2> QED
        BY <1>3, <2>1, <2>3, <2>4 DEF DoneIs
<1> QED
    BY <1>1, <1>2, <1>3

\* The summary of a course says the same.
LEMMA SummaryIsDone ==
    ASSUME NEW d, NEW engine, NEW course, NEW w
    PROVE  SummaryCompleted(d, engine, course, w) = TRUE <=> DoneIs(d, engine, course, w)
<1>0. Nothing # TRUE
    BY EngineUnitsAreUnits
<1>1. CASE course.curriculum # Nothing
    <2>1. PICK lessons : lessons = Definition(d, engine, course)
        OBVIOUS
    <2>2. SummaryCompleted(d, engine, course, w) = IF lessons = Unavailable THEN Nothing ELSE AllFinished(lessons, w)
        BY <1>1, <2>1 DEF SummaryCompleted, CompletionOverride
    <2>3. (AllFinished(lessons, w) = TRUE) <=> AllOf(ToSet(lessons), w)
        BY AllFinishedIs DEF AllFinished
    <2> QED
        BY <1>0, <1>1, <2>1, <2>2, <2>3 DEF DoneIs, DoneByCurriculum
<1>2. CASE course.curriculum = Nothing /\ course.path # Nothing
    <2>1. SummaryCompleted(d, engine, course, w) =
             IF d.content = "on" /\ course.path \in DOMAIN d.paths THEN PathCompleted(d, engine, course.path, w) ELSE Nothing
        BY <1>2 DEF SummaryCompleted, CourseCompletion
    <2>2. PathCompleted(d, engine, course.path, w) \in BOOLEAN
        BY DEF PathCompleted
    <2> QED
        BY <1>0, <1>2, <2>1, <2>2 DEF DoneIs, DoneByPath
<1>3. CASE course.curriculum = Nothing /\ course.path = Nothing
    <2> DEFINE all == course.sections # << >> /\ \A i \in DOMAIN course.sections : course.sections[i] \subseteq w.lectures
    <2>1. SummaryCompleted(d, engine, course, w) = all
        BY <1>3 DEF SummaryCompleted
    <2>2. all <=> DoneByVideos(course, w)
        BY DEF DoneByVideos, ToSet
    <2>3. all \in BOOLEAN
        OBVIOUS
    <2> HIDE DEF all
    <2> QED
        BY <1>3, <2>1, <2>2, <2>3 DEF DoneIs
<1> QED
    BY <1>1, <1>2, <1>3

\* In the curriculum of a course that is done, every lesson of rooms only is completed.
LEMMA DoneCompletesRooms ==
    ASSUME NEW d \in Deployments, NEW engine, NEW k \in DOMAIN d.courses, NEW w,
           DoneIs(d, engine, d.courses[k], w),
           NEW x \in CurriculumLessons(d, engine, d.courses[k], w), x.activities \subseteq Units
    PROVE  x.completed
<1>1. PICK course : course = d.courses[k]
    OBVIOUS
<1>2. PICK lessons : lessons = Definition(d, engine, course)
    OBVIOUS
<1>3. lessons # Unavailable
    BY <1>1, <1>2 DEF CurriculumLessons
<1>4. PICK l \in ToSet(lessons) : x.activities = l /\ x.completed = \A a \in l : Finished(a, w)
    <2>1. PICK l \in ToSet(lessons) : x = [activities |-> l, completed |-> \A a \in l : Finished(a, w)]
        BY <1>1, <1>2, <1>3 DEF CurriculumLessons
    <2>2. x.activities = l /\ x.completed = \A a \in l : Finished(a, w)
        BY <2>1
    <2> QED
        BY <2>2
<1>5. ToSet(lessons) = LessonsLeft(d, engine, course)
    BY <1>1, <1>2, <1>3, DefinitionIs
<1>6. \A a \in l : Finished(a, w)
    <2>1. CASE course.curriculum # Nothing
        BY <1>1, <1>2, <1>4, <2>1 DEF DoneIs, DoneByCurriculum, AllOf
    <2>2. CASE course.curriculum = Nothing
        <3>1. l \in Singles(UnitsHere(d, engine, course)) \cup Singles(UNION ToSet(course.sections))
            BY <1>4, <1>5, <2>2 DEF LessonsLeft
        <3>2. CASE l \in Singles(UNION ToSet(course.sections))
            <4>1. PICK a \in UNION ToSet(course.sections) : l = {a}
                BY <3>2 DEF Singles
            <4>2. a \in Lectures
                BY <1>1, <4>1, CourseIs
            <4>3. a \in Units
                BY <1>4, <4>1
            <4> QED
                BY <4>2, <4>3, EngineUnitsAreUnits
        <3>3. CASE l \in Singles(UnitsHere(d, engine, course))
            <4>1. PICK a \in UnitsHere(d, engine, course) : l = {a}
                BY <3>3 DEF Singles
            <4>2. course.path \in DOMAIN d.paths /\ a \in ActiveUnits(d, engine, course.path)
                BY <4>1 DEF UnitsHere
            <4>3. course.path # Nothing
                BY <1>1, <4>2, CourseIs
            <4>4. DoneByPath(d, engine, course, w)
                BY <1>1, <2>2, <4>3 DEF DoneIs
            <4> QED
                BY <4>1, <4>2, <4>4 DEF DoneByPath, PathCompleted
        <3> QED
            BY <3>1, <3>2, <3>3
    <2> QED
        BY <2>1, <2>2
<1> QED
    BY <1>4, <1>6

\* A room opens a lesson that the curriculum lists.
LEMMA RoomOpensLesson ==
    ASSUME NEW d \in Deployments, NEW engine, NEW k \in DOMAIN d.courses, NEW w, NEW u \in Units,
           NEW y \in CurriculumLessons(d, engine, d.courses[k], w), u \in y.activities
    PROVE  LET page == LessonPage(d, engine, d.courses[k], u, w) IN
           /\ [activities |-> DOMAIN page.activities, completed |-> page.completed]
                 \in CurriculumLessons(d, engine, d.courses[k], w)
           /\ page.activities[u] => w.rooms[u] \in {"completed", "skipped"}
<1>1. PICK course : course = d.courses[k]
    OBVIOUS
<1>2. PICK lessons : lessons = Definition(d, engine, course)
    OBVIOUS
<1>3. lessons # Unavailable
    BY <1>1, <1>2 DEF CurriculumLessons
<1>4. PICK T : lessons \in Seq(T)
    BY <1>1, <1>2, <1>3, DefinitionIs
<1> DEFINE places == {i \in DOMAIN lessons : u \in lessons[i]}
<1>5. places \in SUBSET Nat /\ places # {}
    <2>1. PICK l \in ToSet(lessons) : y.activities = l
        BY <1>1, <1>2, <1>3 DEF CurriculumLessons
    <2>2. PICK i \in DOMAIN lessons : lessons[i] = l
        BY <2>1 DEF ToSet
    <2>3. DOMAIN lessons \subseteq Nat
        BY <1>4
    <2> QED
        BY <2>1, <2>2, <2>3
<1>6. Min(places) \in places
    <2> HIDE DEF places
    <2>1. \E m \in places : \A i \in places : m <= i
        BY <1>5, LeastNumber
    <2> QED
        BY <2>1 DEF Min
<1>7. PICK lesson \in ToSet(lessons) : lesson = LessonWith(lessons, u) /\ u \in lesson
    BY <1>6 DEF LessonWith, ToSet
<1>8. LessonPage(d, engine, course, u, w) = [activities |-> [a \in lesson |-> Finished(a, w)],
                                             completed |-> \A a \in lesson : Finished(a, w)]
    BY <1>2, <1>7 DEF LessonPage
<1>9. [activities |-> lesson, completed |-> \A a \in lesson : Finished(a, w)] \in CurriculumLessons(d, engine, course, w)
    BY <1>2, <1>3, <1>7 DEF CurriculumLessons
<1>10. LessonPage(d, engine, course, u, w).activities[u] = Finished(u, w)
    BY <1>7, <1>8
<1>11. Finished(u, w) = (w.rooms[u] \in {"completed", "skipped"})
    BY DEF Finished
<1>12. /\ DOMAIN LessonPage(d, engine, course, u, w).activities = lesson
       /\ LessonPage(d, engine, course, u, w).completed = \A a \in lesson : Finished(a, w)
    BY <1>8
<1>13. [activities |-> DOMAIN LessonPage(d, engine, course, u, w).activities,
        completed |-> LessonPage(d, engine, course, u, w).completed]
          \in CurriculumLessons(d, engine, course, w)
    BY <1>9, <1>12
<1>14. LessonPage(d, engine, course, u, w).activities[u] => w.rooms[u] \in {"completed", "skipped"}
    BY <1>10, <1>11
<1> QED
    BY <1>1, <1>13, <1>14

\* A result that counts all of something says that all is done exactly if it counted all of it.
SaysAll(r) == r.status = "done" <=> r.total # Nothing /\ r.done = r.total
LEMMA AllCounted ==
    ASSUME NEW S, IsFiniteSet(S), S # {}, NEW D \in SUBSET S, NEW complete \in BOOLEAN, complete <=> D = S, NEW started
    PROVE  SaysAll(Result(complete, started, Cardinality(D), Cardinality(S)))
<1>1. PICK done, total : done = Cardinality(D) /\ total = Cardinality(S)
    OBVIOUS
<1>2. total \in Nat /\ total # 0 /\ (done = total <=> D = S)
    BY <1>1, FS_CardinalityType, FS_EmptySet, FS_Subset
<1>3. PICK r : r = Result(complete, started, done, total)
    OBVIOUS
<1>4. (r.status = "done" <=> complete) /\ r.done = done /\ r.total = total
    BY <1>2, <1>3, ResultIs
<1>5. total # Nothing
    BY <1>2, EngineUnitsAreUnits
<1> QED
    BY <1>1, <1>2, <1>3, <1>4, <1>5 DEF SaysAll
\* With nothing to count, and nothing done, a result says neither.
LEMMA NothingCounted ==
    ASSUME NEW complete \in BOOLEAN, ~complete, NEW started, NEW done
    PROVE  SaysAll(Result(complete, started, done, 0))
<1>1. PICK total : total = 0
    OBVIOUS
<1>2. PICK r : r = Result(complete, started, done, total)
    OBVIOUS
<1>3. (r.status = "done" <=> complete) /\ r.total = Nothing
    BY <1>1, <1>2, ResultIs
<1> QED
    BY <1>1, <1>2, <1>3 DEF SaysAll

\* Left, of a course and a deployment.
LeftOf(d, engine, course) ==
    (IF course.curriculum # Nothing THEN UNION ToSet(course.curriculum)
     ELSE IF course.path # Nothing THEN UnitsOf(d, course.path)
     ELSE UNION ToSet(course.sections)) \ Withdrawn(d, engine)

\* A course with something left is done exactly if all that it counts is.
LEMMA DoneIsCounted ==
    ASSUME NEW d \in Deployments, NEW engine, NEW k \in DOMAIN d.courses, NEW w, LeftOf(d, engine, d.courses[k]) # {}
    PROVE  SaysAll(CourseProgress(d, engine, d.courses[k], w))
<1>1. PICK course : course = d.courses[k]
    OBVIOUS
<1>2. CASE course.curriculum # Nothing
    <2>1. CourseProgress(d, engine, course, w) = ExplicitProgress(d, engine, course, w)
        BY <1>2 DEF CourseProgress
    <2>2. PICK lessons : lessons = Definition(d, engine, course)
        OBVIOUS
    <2>3. CASE lessons = Unavailable
        BY <1>1, <2>1, <2>2, <2>3, UnknownIs DEF ExplicitProgress, SaysAll
    <2>4. CASE lessons # Unavailable
        <3>1. PICK complete \in BOOLEAN : complete = AllFinished(lessons, w)
            BY DEF AllFinished
        <3>2. PICK T : lessons \in Seq(T)
            BY <1>1, <2>2, <2>4, DefinitionIs
        <3>3. PICK S, D : S = DOMAIN lessons /\ D = LessonsDone(lessons, w)
            OBVIOUS
        <3>4. IsFiniteSet(S) /\ Cardinality(S) = Len(lessons) /\ D \in SUBSET S
            BY <3>2, <3>3, MembersFinite DEF LessonsDone
        <3>5. complete <=> D = S
            BY <3>1, <3>3 DEF LessonsDone, AllFinished
        <3>6. S # {}
            <4>1. PICK a \in UNION ToSet(course.curriculum) : a \notin Withdrawn(d, engine)
                BY <1>1, <1>2 DEF LeftOf
            <4>2. PICK x \in ToSet(course.curriculum) : a \in x
                BY <4>1
            <4>3. a \notin Hidden(d, engine, course)
                BY <4>1 DEF Hidden
            <4>4. x \ Hidden(d, engine, course) \in LessonsLeft(d, engine, course)
                BY <1>2, <4>2, <4>3 DEF LessonsLeft
            <4>5. ToSet(lessons) # {}
                BY <1>1, <2>2, <2>4, <4>4, DefinitionIs
            <4> QED
                BY <3>3, <4>5 DEF ToSet
        <3>7. PICK started : started = LessonsBegun(lessons, w)
            OBVIOUS
        <3>8. ExplicitProgress(d, engine, course, w) = Result(complete, started, Cardinality(D), Cardinality(S))
            BY <2>2, <2>4, <3>1, <3>3, <3>4, <3>7, ExplicitCounts
        <3> QED
            BY <1>1, <2>1, <3>4, <3>5, <3>6, <3>8, AllCounted
    <2> QED
        BY <2>3, <2>4
<1>3. CASE course.curriculum = Nothing /\ course.path # Nothing
    <2>1. CourseProgress(d, engine, course, w) = PathProgress(d, engine, course, w)
        BY <1>3 DEF CourseProgress
    <2>2. CASE d.content # "on"
        BY <1>1, <2>1, <2>2, UnknownIs DEF PathProgress, SaysAll
    <2>3. CASE d.content = "on"
        <3>1. PICK S, D, started : S = UnitsHere(d, engine, course) /\ D = RoomsDone(S, w) /\ started = RoomsBegun(S, w)
            OBVIOUS
        <3>2. PICK complete \in BOOLEAN : complete = (S # {} /\ PathCompleted(d, engine, course.path, w))
            OBVIOUS
        <3>3. PathProgress(d, engine, course, w) = Result(complete, started, Cardinality(D), Cardinality(S))
            BY <2>3, <3>1, <3>2, PathCounts
        <3>4. CASE S = {}
            <4>1. Cardinality(S) = 0 /\ ~complete
                BY <3>2, <3>4, FS_EmptySet
            <4>2. PICK done : done = Cardinality(D)
                OBVIOUS
            <4> QED
                BY <1>1, <2>1, <3>3, <4>1, <4>2, NothingCounted
        <3>5. CASE S # {}
            <4>1. course.path \in DOMAIN d.paths /\ S = ActiveUnits(d, engine, course.path)
                BY <3>1, <3>5 DEF UnitsHere
            <4>2. PICK path : path = d.paths[course.path] /\ path \in Seq(ToSet(path))
                BY <1>1, <4>1, CourseIs
            <4>3. IsFiniteSet(ToSet(path)) /\ S \in SUBSET ToSet(path)
                BY <4>1, <4>2, MembersFinite DEF ActiveUnits, UnitsOf
            <4>4. IsFiniteSet(S)
                BY <4>3, FS_Subset
            <4>5. D \in SUBSET S /\ (complete <=> D = S)
                BY <3>1, <3>2, <3>5, <4>1 DEF RoomsDone, PathCompleted
            <4> QED
                BY <1>1, <2>1, <3>3, <3>5, <4>4, <4>5, AllCounted
        <3> QED
            BY <3>4, <3>5
    <2> QED
        BY <2>2, <2>3
<1>4. CASE course.curriculum = Nothing /\ course.path = Nothing
    <2>1. PICK S, D, started : S = UNION ToSet(course.sections) /\ D = S \cap w.lectures /\ started = FALSE
        OBVIOUS
    <2>2. PICK complete \in BOOLEAN : complete = (course.sections # << >> /\ D = S)
        OBVIOUS
    <2>3. CourseProgress(d, engine, course, w) = Result(complete, started, Cardinality(D), Cardinality(S))
        <3>1. CourseProgress(d, engine, course, w) = VideoProgress(course, w)
            BY <1>4 DEF CourseProgress
        <3>2. complete = (course.sections # << >> /\ S \cap w.lectures = S)
            BY <2>1, <2>2
        <3>3. VideoProgress(course, w) = Result(course.sections # << >> /\ S \cap w.lectures = S, FALSE,
                                                Cardinality(S \cap w.lectures), Cardinality(S))
            BY <2>1 DEF VideoProgress
        <3>4. VideoProgress(course, w) = Result(complete, FALSE, Cardinality(S \cap w.lectures), Cardinality(S))
            BY <3>2, <3>3
        <3> QED
            BY <2>1, <3>1, <3>4
    <2>4. S # {}
        BY <1>1, <1>4, <2>1 DEF LeftOf
    <2>5. IsFiniteSet(ToSet(course.sections))
        BY <1>1, CourseIs, MembersFinite
    <2>6. IsFiniteSet(S)
        BY <1>1, <2>1, <2>5, CourseIs, FS_UNION
    <2>7. course.sections # << >>
        BY <2>1, <2>4 DEF ToSet
    <2>8. D \in SUBSET S /\ (complete <=> D = S)
        BY <2>1, <2>2, <2>7
    <2> QED
        BY <1>1, <2>3, <2>4, <2>6, <2>8, AllCounted
<1> QED
    BY <1>2, <1>3, <1>4

\* When a course is done, everything left of it is finished.
LEMMA DoneLeavesNothing ==
    ASSUME NEW d \in Deployments, NEW engine, NEW k \in DOMAIN d.courses, NEW w, DoneIs(d, engine, d.courses[k], w)
    PROVE  /\ LeftOf(d, engine, d.courses[k]) \subseteq {u \in Units : w.rooms[u] \in {"completed", "skipped"}} \cup w.lectures
           /\ \/ LeftOf(d, engine, d.courses[k]) # {} \/ d.courses[k].curriculum # Nothing
              \/ d.courses[k].path = Nothing /\ d.courses[k].sections # << >>
<1>1. PICK course : course = d.courses[k]
    OBVIOUS
<1>2. PICK finished : finished = {u \in Units : w.rooms[u] \in {"completed", "skipped"}} \cup w.lectures
    OBVIOUS
<1>3. \A a : Finished(a, w) => a \in finished
    BY <1>2 DEF Finished
<1>4. CASE course.curriculum # Nothing
    <2>1. DoneByCurriculum(d, engine, course, w)
        BY <1>1, <1>4 DEF DoneIs
    <2>2. ToSet(Definition(d, engine, course)) = LessonsLeft(d, engine, course)
        BY <1>1, <2>1, DefinitionIs DEF DoneByCurriculum
    <2>3. AllOf(LessonsLeft(d, engine, course), w)
        BY <2>1, <2>2 DEF DoneByCurriculum
    <2>4. ASSUME NEW a \in LeftOf(d, engine, course)
          PROVE  a \in finished
        <3>1. a \in UNION ToSet(course.curriculum) /\ a \notin Withdrawn(d, engine)
            BY <1>4 DEF LeftOf
        <3>2. PICK x \in ToSet(course.curriculum) : a \in x
            BY <3>1
        <3>3. a \notin Hidden(d, engine, course)
            BY <3>1 DEF Hidden
        <3>4. x \ Hidden(d, engine, course) \in LessonsLeft(d, engine, course)
            BY <1>4, <3>2, <3>3 DEF LessonsLeft
        <3>5. Finished(a, w)
            BY <2>3, <3>2, <3>3, <3>4 DEF AllOf
        <3> QED
            BY <1>3, <3>5
    <2> QED
        BY <1>1, <1>2, <1>4, <2>4
<1>5. CASE course.curriculum = Nothing /\ course.path # Nothing
    <2>1. DoneByPath(d, engine, course, w)
        BY <1>1, <1>5 DEF DoneIs
    <2>2. LeftOf(d, engine, course) = ActiveUnits(d, engine, course.path)
        BY <1>5 DEF LeftOf, ActiveUnits
    <2> QED
        BY <1>1, <1>2, <1>3, <2>1, <2>2 DEF DoneByPath, PathCompleted
<1>6. CASE course.curriculum = Nothing /\ course.path = Nothing
    <2>1. DoneByVideos(course, w)
        BY <1>1, <1>6 DEF DoneIs
    <2>2. LeftOf(d, engine, course) \subseteq UNION ToSet(course.sections)
        BY <1>6 DEF LeftOf
    <2> QED
        BY <1>1, <1>2, <1>6, <2>1, <2>2 DEF DoneByVideos
<1> QED
    BY <1>4, <1>5, <1>6

\* Withdrawing units keeps "done", with something left.
LEMMA WithdrawalKeeps ==
    ASSUME NEW d \in Deployments, NEW engine, NEW less \in SUBSET engine, NEW k \in DOMAIN d.courses, NEW w,
           DoneIs(d, engine, d.courses[k], w), LeftOf(d, less, d.courses[k]) # {}
    PROVE  DoneIs(d, less, d.courses[k], w)
<1>1. PICK course : course = d.courses[k]
    OBVIOUS
<1>2. Withdrawn(d, engine) \subseteq Withdrawn(d, less)
    BY DEF Withdrawn, Available
<1>3. Withdrawn(d, less) \ Withdrawn(d, engine) \subseteq EngineUnits
    BY DEF Withdrawn, Available
<1>4. CASE course.curriculum # Nothing
    <2>1. PICK before, after : before = Hidden(d, engine, course) /\ after = Hidden(d, less, course) /\ before \subseteq after
        BY <1>2 DEF Hidden
    <2>2. DoneByCurriculum(d, engine, course, w)
        BY <1>1, <1>4 DEF DoneIs
    <2>3. /\ ~NoCatalogue(d, course) /\ AllOf(LessonsLeft(d, engine, course), w)
          /\ \A x \in LessonsLeft(d, engine, course) : x \subseteq Known(d, engine, course)
        BY <1>1, <2>2, DefinitionIs DEF DoneByCurriculum
    <2>4. ASSUME NEW y \in LessonsLeft(d, less, course)
          PROVE  \E x \in LessonsLeft(d, engine, course) : y = x \ after
        <3>1. PICK c \in ToSet(course.curriculum) : ~(c \subseteq after) /\ y = c \ after
            BY <1>4, <2>1 DEF LessonsLeft
        <3>2. c \ before \in LessonsLeft(d, engine, course)
            BY <1>4, <2>1, <3>1 DEF LessonsLeft
        <3>3. y = (c \ before) \ after
            BY <2>1, <3>1
        <3> QED
            BY <3>2, <3>3
    <2>5. AllOf(LessonsLeft(d, less, course), w)
        BY <2>3, <2>4 DEF AllOf
    <2>6. Known(d, engine, course) \ after \subseteq Known(d, less, course)
        <3>1. ASSUME NEW u \in UnitsHere(d, engine, course), u \notin after
              PROVE  u \in UnitsHere(d, less, course)
            <4>1. course.path \in DOMAIN d.paths /\ u \in UnitsOf(d, course.path) /\ u \notin Withdrawn(d, engine)
                BY <3>1 DEF UnitsHere, ActiveUnits
            <4>2. course.path # Nothing
                BY <1>1, <4>1, CourseIs
            <4>3. u \notin Withdrawn(d, less)
                BY <1>3, <2>1, <3>1, <4>1, <4>2 DEF Hidden
            <4> QED
                BY <4>1, <4>3 DEF UnitsHere, ActiveUnits
        <3> QED
            BY <3>1 DEF Known
    <2>7. \A x \in LessonsLeft(d, less, course) : x \subseteq Known(d, less, course)
        BY <2>3, <2>4, <2>6
    <2>8. Definition(d, less, course) # Unavailable
        BY <1>1, <2>3, <2>7, DefinitionThere
    <2>9. ToSet(Definition(d, less, course)) = LessonsLeft(d, less, course)
        BY <1>1, <2>8, DefinitionIs
    <2> QED
        BY <1>1, <1>4, <2>5, <2>8, <2>9 DEF DoneIs, DoneByCurriculum
<1>5. CASE course.curriculum = Nothing /\ course.path # Nothing
    <2>1. DoneByPath(d, engine, course, w)
        BY <1>1, <1>5 DEF DoneIs
    <2>2. ActiveUnits(d, less, course.path) # {}
        BY <1>1, <1>5 DEF LeftOf, ActiveUnits
    <2>3. ActiveUnits(d, less, course.path) \subseteq ActiveUnits(d, engine, course.path)
        BY <1>2 DEF ActiveUnits
    <2>4. DoneByPath(d, less, course, w)
        BY <2>1, <2>2, <2>3 DEF DoneByPath, PathCompleted
    <2> QED
        BY <1>1, <1>5, <2>4 DEF DoneIs
<1>6. CASE course.curriculum = Nothing /\ course.path = Nothing
    BY <1>1, <1>6 DEF DoneIs
<1> QED
    BY <1>4, <1>5, <1>6

-----------------------------------------------------------------------------
(* The plan and its tracks. *)

Taken(shown, t, s, i) == {n \in DOMAIN shown : /\ <<shown[n].type, shown[n].item>> = i
                                               /\ <<shown[n].track, shown[n].stage>> = <<t, s>>}
\* A step that the plan shows as of a track has the status of the track's page, and a done external step is shown.
LEMMA TracksAgree ==
    ASSUME NEW d \in Deployments, NEW engine, NEW T, NEW steps \in Seq(T), \A step \in T : StepOK(step),
           \A i, j \in DOMAIN steps : Key(steps[i]) = Key(steps[j]) => i = j,
           NEW t \in DOMAIN d.tracks, NEW s \in DOMAIN d.tracks[t], NEW i \in TrackItems(d, t, s), NEW w
    PROVE  LET shown == Render(d, steps)
               status == TrackStatus(d, engine, t, s, i, steps, w)
           IN /\ \A n \in Taken(shown, t, s, i) : StepStatus(d, engine, shown[n], w) = status
              /\ status = "done" /\ i[1] = "external" => Taken(shown, t, s, i) # {}
<1>1. PICK shown : shown = Render(d, steps)
    OBVIOUS
<1>2. PICK status : status = TrackStatus(d, engine, t, s, i, steps, w)
    OBVIOUS
<1>3. /\ FromPlaces(d, steps, shown) /\ shown \in Seq(Linked(d, T))
      /\ ToSet(shown) = StepsThere(d, steps)
    <2>1. FromPlaces(d, steps, Render(d, steps)) /\ Render(d, steps) \in Seq(Linked(d, T))
        BY ShownPlaces
    <2>2. ToSet(Render(d, steps)) = StepsThere(d, steps)
        BY ShownPlaces
    <2> QED
        BY <1>1, <2>1, <2>2
<1>4. i = <<i[1], i[2]>> /\ i \in TrackStage(d, t, s)
    <2>1. StageOK(d.tracks[t][s])
        BY DeploymentsOK
    <2>2. i \in d.tracks[t][s] /\ i \in TrackStage(d, t, s)
        BY DEF TrackItems, TrackStage
    <2> QED
        BY <2>1, <2>2 DEF StageOK
<1>5. ASSUME NEW m \in DOMAIN steps
      PROVE  StepOK(steps[m])
    OBVIOUS
<1>6. ASSUME NEW n \in Taken(shown, t, s, i)
      PROVE  StepStatus(d, engine, shown[n], w) = status
    <2>1. PICK x : /\ x = shown[n] /\ n \in DOMAIN shown /\ <<x.type, x.item>> = i
                   /\ <<x.track, x.stage>> = <<t, s>>
        BY <1>6 DEF Taken
    <2>2. x.type = i[1] /\ x.item = i[2] /\ x.track = t /\ x.stage = s
        BY <2>1
    <2>3. PICK m \in DOMAIN steps : x = Relink(d, steps[m])
        <3>1. x \in ToSet(shown)
            BY <2>1 DEF ToSet
        <3> QED
            BY <1>3, <3>1 DEF StepsThere
    <2>4. StepOK(steps[m]) /\ x.type = steps[m].type /\ x.item = steps[m].item /\ x.done = steps[m].done
        BY <1>5, <2>3, RelinkKeeps
    <2>5. CASE x.type = "course"
        BY <1>2, <2>1, <2>2, <2>5 DEF StepStatus, TrackStatus
    <2>6. CASE x.type = "external"
        <3>1. x = steps[m]
            BY <2>3, <2>4, <2>6, RelinkKeeps
        <3> DEFINE done == \E n_1 \in DOMAIN steps : /\ steps[n_1].type = "external" /\ steps[n_1].done
                                                     /\ <<steps[n_1].track, steps[n_1].stage, steps[n_1].item>> = <<t, s, i[2]>>
        <3>2. done <=> x.done
            <4>1. ASSUME x.done
                  PROVE  done
                <5>1. steps[m].type = "external" /\ steps[m].done
                    BY <2>6, <3>1, <4>1
                <5>2. <<steps[m].track, steps[m].stage, steps[m].item>> = <<t, s, i[2]>>
                    BY <2>2, <3>1
                <5> QED
                    BY <5>1, <5>2
            <4>2. ASSUME NEW j \in DOMAIN steps, steps[j].type = "external", steps[j].done,
                         <<steps[j].track, steps[j].stage, steps[j].item>> = <<t, s, i[2]>>
                  PROVE  x.done
                <5>1. steps[j].track = t /\ steps[j].stage = s /\ steps[j].item = i[2]
                    BY <4>2
                <5>2. Key(steps[j]) = <<i[2], t, s>>
                    BY <4>2, <5>1 DEF Key
                <5>3. Key(steps[m]) = <<i[2], t, s>>
                    BY <2>2, <2>6, <3>1 DEF Key
                <5>4. j = m
                    BY <5>2, <5>3
                <5> QED
                    BY <3>1, <4>2, <5>4
            <4> QED
                BY <4>1, <4>2
        <3>3. status = IF done THEN "done" ELSE "open"
            BY <1>2, <2>2, <2>6 DEF TrackStatus
        <3> HIDE DEF done
        <3>4. StepStatus(d, engine, x, w) = IF x.done THEN "done" ELSE "open"
            BY <2>6 DEF StepStatus
        <3> QED
            BY <2>1, <3>2, <3>3, <3>4
    <2> QED
        BY <2>4, <2>5, <2>6 DEF StepOK
<1>7. ASSUME status = "done", i[1] = "external"
      PROVE  Taken(shown, t, s, i) # {}
    <2>1. PICK m \in DOMAIN steps : /\ steps[m].type = "external"
                                    /\ <<steps[m].track, steps[m].stage, steps[m].item>> = <<t, s, i[2]>>
        BY <1>2, <1>7 DEF TrackStatus
    <2>2. steps[m].track = t /\ steps[m].stage = s /\ steps[m].item = i[2]
        BY <2>1
    <2>3. <<steps[m].type, steps[m].item>> = i
        BY <1>4, <1>7, <2>1, <2>2
    <2>4. Exists(d, steps[m])
        BY <1>4, <2>1, <2>2, <2>3 DEF Exists, InStage
    <2>5. Relink(d, steps[m]) = steps[m]
        BY <1>5, <2>1, RelinkKeeps
    <2>6. steps[m] \in ToSet(shown)
        BY <1>3, <2>4, <2>5 DEF StepsThere
    <2>7. PICK n \in DOMAIN shown : shown[n] = steps[m]
        BY <2>6 DEF ToSet
    <2>8. <<shown[n].track, shown[n].stage>> = <<t, s>>
        BY <2>2, <2>7
    <2> QED
        BY <2>3, <2>7, <2>8 DEF Taken
<1> QED
    BY <1>1, <1>2, <1>6, <1>7

\* The pages of the plan, the tracks, the courses and the rooms say the same, and what they say is true.
THEOREM PagesTrue == Spec => []PagesAreTrue
<1>1. Init => PlanInv
    BY DEF Init, PlanInit, PlanInv
<1>2. ASSUME IInv, PlanInv
      PROVE  PagesAreTrue
    <2>1. PICK T : Steps(plan) \in Seq(T) /\ \A step \in T : StepOK(step)
        BY <1>2, PlanSteps
    <2>2. \A i, j \in DOMAIN Steps(plan) : Key(Steps(plan)[i]) = Key(Steps(plan)[j]) => i = j
        BY <1>2 DEF PlanInv, Steps
    <2>3. deployed \in Deployments
        BY <1>2 DEF IInv, TypeOK
    <2>4. ASSUME NEW w \in Works, NEW k \in DOMAIN deployed.courses
          PROVE  /\ Now(k, w).status = "done" <=> DoneIs(deployed, on, deployed.courses[k], w)
                 /\ Left(k, on) = LeftOf(deployed, on, deployed.courses[k])
        BY StatusIsDone DEF Now, Left, LeftOf
    <2>5. ASSUME NEW w \in Works, NEW k \in DOMAIN deployed.courses
          PROVE  /\ Now(k, w).status = "done" <=> SummaryCompleted(deployed, on, deployed.courses[k], w) = TRUE
                 /\ Now(k, w).status = "done" => \A x \in CurriculumLessons(deployed, on, deployed.courses[k], w) :
                                                    x.activities \subseteq Units => x.completed
                 /\ Left(k, on) # {} =>
                       (Now(k, w).status = "done" <=> Now(k, w).total # Nothing /\ Now(k, w).done = Now(k, w).total)
        <3>1. Now(k, w).status = "done" <=> SummaryCompleted(deployed, on, deployed.courses[k], w) = TRUE
            BY <2>4, SummaryIsDone
        <3>2. Now(k, w).status = "done" => \A x \in CurriculumLessons(deployed, on, deployed.courses[k], w) :
                                              x.activities \subseteq Units => x.completed
            BY <2>3, <2>4, DoneCompletesRooms
        <3>3. Left(k, on) # {} => SaysAll(Now(k, w))
            BY <2>3, <2>4, DoneIsCounted DEF Now
        <3> QED
            BY <3>1, <3>2, <3>3 DEF SaysAll
    <2>6. ASSUME NEW w \in Works, NEW k \in DOMAIN deployed.courses,
                 NEW u \in Units \cap UNION {x.activities : x \in CurriculumLessons(deployed, on, deployed.courses[k], w)}
          PROVE  LET page == LessonPage(deployed, on, deployed.courses[k], u, w) IN
                 /\ [activities |-> DOMAIN page.activities, completed |-> page.completed]
                       \in CurriculumLessons(deployed, on, deployed.courses[k], w)
                 /\ page.activities[u] => w.rooms[u] \in {"completed", "skipped"}
        <3>1. PICK y \in CurriculumLessons(deployed, on, deployed.courses[k], w) : u \in y.activities
            BY <2>6
        <3> QED
            BY <2>3, <3>1, RoomOpensLesson
    <2>7. ASSUME NEW w \in Works, NEW t \in DOMAIN deployed.tracks, NEW s \in DOMAIN deployed.tracks[t],
                 NEW i \in TrackItems(deployed, t, s)
          PROVE  LET shown == Render(deployed, Steps(plan))
                     status == TrackStatus(deployed, on, t, s, i, Steps(plan), w)
                     taken == {n \in DOMAIN shown : /\ <<shown[n].type, shown[n].item>> = i
                                                    /\ <<shown[n].track, shown[n].stage>> = <<t, s>>}
                 IN /\ \A n \in taken : StepStatus(deployed, on, shown[n], w) = status
                    /\ status = "done" /\ i[1] = "external" => taken # {}
        <3>1. PICK steps \in Seq(T) : steps = Steps(plan)
            BY <2>1
        <3>2. \A step \in T : StepOK(step)
            BY <2>1
        <3>3. \A n, m \in DOMAIN steps : Key(steps[n]) = Key(steps[m]) => n = m
            BY <2>2, <3>1
        <3>4. /\ \A n \in Taken(Render(deployed, steps), t, s, i) :
                    StepStatus(deployed, on, Render(deployed, steps)[n], w) = TrackStatus(deployed, on, t, s, i, steps, w)
              /\ TrackStatus(deployed, on, t, s, i, steps, w) = "done" /\ i[1] = "external"
                    => Taken(Render(deployed, steps), t, s, i) # {}
            BY <2>3, <3>2, <3>3, TracksAgree
        <3> QED
            BY <3>1, <3>4 DEF Taken
    <2>8. PagesAgree
        BY <2>5, <2>6, <2>7 DEF PagesAgree
    <2>9. DoneMeansFinished
        <3>1. ASSUME NEW w \in Works, NEW k \in DOMAIN deployed.courses, Now(k, w).status = "done"
              PROVE  /\ Left(k, on) \subseteq {u \in Units : w.rooms[u] \in {"completed", "skipped"}} \cup w.lectures
                     /\ \/ Left(k, on) # {} \/ deployed.courses[k].curriculum # Nothing
                        \/ deployed.courses[k].path = Nothing /\ deployed.courses[k].sections # << >>
            <4>1. DoneIs(deployed, on, deployed.courses[k], w) /\ Left(k, on) = LeftOf(deployed, on, deployed.courses[k])
                BY <2>4, <3>1
            <4>2. /\ LeftOf(deployed, on, deployed.courses[k])
                        \subseteq {u \in Units : w.rooms[u] \in {"completed", "skipped"}} \cup w.lectures
                  /\ \/ LeftOf(deployed, on, deployed.courses[k]) # {} \/ deployed.courses[k].curriculum # Nothing
                     \/ deployed.courses[k].path = Nothing /\ deployed.courses[k].sections # << >>
                BY <2>3, <4>1, DoneLeavesNothing
            <4> QED
                BY <4>1, <4>2
        <3> QED
            BY <3>1 DEF DoneMeansFinished
    <2> QED
        BY <2>8, <2>9 DEF PagesAreTrue
<1> QED
    BY <1>1, <1>2, PlanStepsStep, Invariance, PTL DEF Spec

\* A unit that is withdrawn takes "done" away from no course that has something left.
THEOREM DoneStays == Spec => WithdrawalKeepsDone
<1>1. ASSUME IInv, [Next]_vars
      PROVE  deployed' = deployed /\ on' \subseteq on /\ on' # on =>
                \A w \in Works : \A k \in DOMAIN deployed.courses :
                   Now(k, w).status = "done" /\ Left(k, on') # {}
                      => CourseProgress(deployed, on', deployed.courses[k], w).status = "done"
    <2>1. PICK d \in Deployments : d = deployed
        BY <1>1 DEF IInv, TypeOK
    <2>2. ASSUME on' \subseteq on, NEW w \in Works, NEW k \in DOMAIN d.courses, Now(k, w).status = "done", Left(k, on') # {}
          PROVE  CourseProgress(d, on', d.courses[k], w).status = "done"
        <3>1. PICK less \in SUBSET on : less = on'
            BY <2>2
        <3>2. DoneIs(d, on, d.courses[k], w)
            BY <2>1, <2>2, StatusIsDone DEF Now
        <3>3. LeftOf(d, less, d.courses[k]) # {}
            BY <2>1, <2>2, <3>1 DEF Left, LeftOf
        <3>4. DoneIs(d, less, d.courses[k], w)
            BY <3>2, <3>3, WithdrawalKeeps
        <3> QED
            BY <3>1, <3>4, StatusIsDone
    <2> QED
        BY <2>1, <2>2
<1> QED
    BY <1>1, Invariance, PTL DEF Spec, WithdrawalKeepsDone
=============================================================================
