---------------------------- MODULE LearnerWork ----------------------------
(***************************************************************************)
(* A learner's plan and course projects, with account erasure and new      *)
(* releases.  The two share the learner's lock and nothing else, so the    *)
(* requests of a behaviour are all of one kind.                            *)
(***************************************************************************)
EXTENDS LearningPlan, CourseProjects

CONSTANTS Works    \* bound: rooms and lectures that a learner has finished or begun

VARIABLES kind

vars == <<kind, workVars, planVars, projectVars>>

Init == /\ WorkInit /\ PlanInit /\ ProjectInit
        /\ kind \in {"plan", "project"}

\* delete_user_data: the rows go with the account, under the lock.
Erase == /\ ~erased
         /\ erased' = TRUE
         /\ plan' = None
         /\ project' = [k \in ProjectCourses |-> NoProject]
         /\ receipts' = {}
         /\ made' = [k \in ProjectCourses |-> << >>]
         /\ UNCHANGED <<kind, isolation, open, told, deployed, on>>

PlanStep(c) == kind = "plan" /\ (ArrivePlan(c) \/ SavePlan(c)) /\ UNCHANGED <<kind, projectVars>>
ProjectStep(c) == kind = "project" /\ (ArriveProject(c) \/ SaveProject(c)) /\ UNCHANGED <<kind, planVars>>
Lost(c) == Fail(c) /\ UNCHANGED <<kind, planVars, projectVars>>
Release == kind = "plan" /\ (Deploy \/ Publish) /\ UNCHANGED <<kind, projectVars>>

Next == \/ \E c \in Clients : PlanStep(c) \/ ProjectStep(c) \/ Lost(c)
        \/ Erase \/ Release

Spec == Init /\ [][Next]_vars
-----------------------------------------------------------------------------
\* Values are in their types, and after erasure no row is left.
TypeOK == /\ isolation \in {"committed", "repeatable"} /\ erased \in BOOLEAN
          /\ deployed \in Deployments /\ on \subseteq EngineUnits
          /\ plan # None => plan.revision \in Nat \ {0} /\ Len(plan.steps) <= StepLimit
          /\ \A k \in ProjectCourses : project[k].revision = Len(made[k])
          /\ erased => plan = None /\ receipts = {} /\ \A k \in ProjectCourses : project[k] = NoProject

\* However saves interleave and whatever their transactions still see, each one follows the
\* plan it was made from, is checked against the courses and tracks of its time, and comes
\* before the erasure.
PlanSavesFollowEachOther ==
    [][plan' # plan => \/ plan' = None /\ erased'
                       \/ /\ ~erased
                          /\ plan'.revision = Revision(plan) + 1 /\ plan'.print[1] = Revision(plan)
                          /\ CheckSteps(deployed, plan'.steps)]_vars

\* Each save of a project follows the state it was made from; only erasure takes it back.
ProjectSavesFollowEachOther ==
    [][project' # project => \/ erased' /\ ~erased
                             \/ \E k \in ProjectCourses :
                                   /\ project' = [project EXCEPT ![k] = project'[k]]
                                   /\ project'[k].revision = project[k].revision + 1
                                   /\ made'[k][project'[k].revision].expected = project[k].revision]_vars

\* Under READ COMMITTED, a save is confirmed exactly if the plan is the one it asked for, also when
\* it is repeated after a release that would refuse its steps now, and a conflict shows the plan.
PlanAnswersAreTrue ==
    kind = "plan" /\ isolation = "committed" /\ ~erased /\ told # None =>
        /\ told.code = "saved" <=> /\ plan # None /\ plan.request = told.request.id
                                   /\ plan.print = Fingerprint(told.request)
        /\ told.code \in {"saved", "conflict", "reused"} => told.shows = plan

\* The last saves of every project keep their receipts: each can be repeated.
RecentSavesHaveReceipts ==
    \A k \in ProjectCourses : \A n \in DOMAIN made[k] :
        n > Len(made[k]) - KEPT_RECEIPTS =>
            [id |-> made[k][n].id, course |-> k, revision |-> n, print |-> ProjectPrint(made[k][n])] \in receipts

\* Repeats are answered with what is true: a plan's from the plan, a project's from its receipt.
AnswersAreTrue == TypeOK /\ PlanAnswersAreTrue /\ RecentSavesHaveReceipts

\* No save of the learner's documents is lost under another one, or made twice.
SavesFollowEachOther == PlanSavesFollowEachOther /\ ProjectSavesFollowEachOther

\* Whatever a release removed from under a plan, what the learner is shown of it can be saved again.
ShownCanBeSaved ==
    LET shown == Render(deployed, Steps(plan)) IN
    CheckSteps(deployed, shown) /\ Len(shown) <= StepLimit /\ Render(deployed, shown) = shown

Quiet == told = None /\ \A c \in Clients : open[c] = Idle
Now(k, w) == CourseProgress(deployed, on, deployed.courses[k], w)
\* What of a course can be done while `engine` are the units with a revision.
Left(k, engine) ==
    LET course == deployed.courses[k] IN
    (IF course.curriculum # Nothing THEN UNION ToSet(course.curriculum)
     ELSE IF course.path # Nothing THEN UnitsOf(deployed, course.path)
     ELSE UNION ToSet(course.sections)) \ Withdrawn(deployed, engine)

\* The pages agree: a course is done exactly if its summary says so, and exactly if its finished
\* units are all of them; then its rooms are completed in its curriculum; a room opens a lesson that the
\* curriculum lists, with the same completion; a step has the same status in the plan and in its track.
PagesAgree ==
    Quiet => LET shown == Render(deployed, Steps(plan)) IN
    \A w \in Works :
        /\ \A k \in DOMAIN deployed.courses :
              LET progress == Now(k, w) IN
              /\ progress.status = "done" <=> SummaryCompleted(deployed, on, deployed.courses[k], w) = TRUE
              /\ progress.status = "done" => \A x \in CurriculumLessons(deployed, on, deployed.courses[k], w) :
                                               x.activities \subseteq Units => x.completed
              /\ \A u \in Units \cap UNION {x.activities : x \in CurriculumLessons(deployed, on, deployed.courses[k], w)} :
                    LET page == LessonPage(deployed, on, deployed.courses[k], u, w) IN
                    /\ [activities |-> DOMAIN page.activities, completed |-> page.completed]
                          \in CurriculumLessons(deployed, on, deployed.courses[k], w)
                    /\ page.activities[u] => w.rooms[u] \in {"completed", "skipped"}
              /\ Left(k, on) # {} => (progress.status = "done" <=> progress.total # Nothing /\ progress.done = progress.total)
        /\ \A t \in DOMAIN deployed.tracks : \A s \in DOMAIN deployed.tracks[t] : \A i \in TrackItems(deployed, t, s) :
              LET status == TrackStatus(deployed, on, t, s, i, Steps(plan), w)
                  taken == {n \in DOMAIN shown : /\ <<shown[n].type, shown[n].item>> = i
                                                 /\ <<shown[n].track, shown[n].stage>> = <<t, s>>}
              IN /\ \A n \in taken : StepStatus(deployed, on, shown[n], w) = status
                 /\ status = "done" /\ i[1] = "external" => taken # {}

\* A course that is done has nothing left that could be done.  (With nothing left at all, a course
\* with a curriculum or with empty sections counts as done for everyone, one on a path for nobody.)
DoneMeansFinished ==
    Quiet => \A w \in Works : \A k \in DOMAIN deployed.courses :
        Now(k, w).status = "done" =>
            /\ Left(k, on) \subseteq {u \in Units : w.rooms[u] \in {"completed", "skipped"}} \cup w.lectures
            /\ \/ Left(k, on) # {} \/ deployed.courses[k].curriculum # Nothing
               \/ deployed.courses[k].path = Nothing /\ deployed.courses[k].sections # << >>

\* What the pages say is the same, and true.
PagesAreTrue == PagesAgree /\ DoneMeansFinished

\* Withdrawing a unit of the engine never takes "done" away from a course that has something left.
WithdrawalKeepsDone ==
    [][deployed' = deployed /\ on' \subseteq on /\ on' # on =>
          \A w \in Works : \A k \in DOMAIN deployed.courses :
             Now(k, w).status = "done" /\ Left(k, on') # {}
                => CourseProgress(deployed, on', deployed.courses[k], w).status = "done"]_vars
=============================================================================
