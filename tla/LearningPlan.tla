---------------------------- MODULE LearningPlan ----------------------------
(***************************************************************************)
(* The learner's own plan (services/learning_plan.py): one row, saved with *)
(* a compare and swap, in which the latest request remembers its answer;   *)
(* what is shown of it after courses and tracks have changed; and tracks   *)
(* as the learner sees them (services/tracks.py).                          *)
(*                                                                         *)
(* A step is [type, item, track, stage, done]: a course, with or without   *)
(* the track it was taken from, or an external step.  The rest of the plan *)
(* (character and preference) is saved along and not told apart.  A request*)
(* is [for, id, expected, steps]; its fingerprint is expected and steps.   *)
(***************************************************************************)
EXTENDS SavedWork, CourseProgress

CONSTANTS Deployments,   \* bound: what is deployed, one after another: courses, tracks, rooms
          FirstDeployment,
          PlanRequests,  \* bound: requests that are sent, each any number of times
          StepLimit      \* PLAN_STATE_LIMIT, in steps

\* CourseStepState, ExternalStepState
StepOK(step) == /\ step = [type |-> step.type, item |-> step.item, track |-> step.track, stage |-> step.stage,
                           done |-> step.done]
                /\ step.type \in {"course", "external"} /\ step.done \in BOOLEAN
\* Requests have passed their validation (schemas/rooms.py: Mutation).
ASSUME PlanConstantsOK == /\ FirstDeployment \in Deployments /\ StepLimit \in Nat
                          /\ \A r \in PlanRequests :
                                /\ r.for = "plan" /\ r.expected \in Nat
                                /\ r.steps \in Seq(ToSet(r.steps)) /\ \A step \in ToSet(r.steps) : StepOK(step)

\* A course, and the items of a stage, as their files are validated.
CourseOK(course) == /\ course.sections \in Seq(ToSet(course.sections))
                    /\ \A section \in ToSet(course.sections) : section \subseteq Lectures /\ IsFiniteSet(section)
                    /\ course.curriculum # Nothing => course.curriculum \in Seq(ToSet(course.curriculum))
StageOK(items) == \A i \in items : i = <<i[1], i[2]>> /\ i[1] \in {"course", "external"}
ASSUME DeploymentsOK ==
    \A d \in Deployments :
        /\ \A p \in DOMAIN d.paths : d.paths[p] \in Seq(ToSet(d.paths[p])) /\ ToSet(d.paths[p]) \subseteq Units
        /\ Nothing \notin DOMAIN d.paths
        /\ \A k \in DOMAIN d.courses : CourseOK(d.courses[k])
        /\ \A t \in DOMAIN d.tracks : \A s \in DOMAIN d.tracks[t] : StageOK(d.tracks[t][s])

VARIABLES deployed,      \* the deployment that runs
          on,            \* the engine units with an active revision
          plan           \* the row of LearningPlan or None

planVars == <<deployed, on, plan>>

Revision(row) == IF row = None THEN 0 ELSE row.revision
Steps(row) == IF row = None THEN << >> ELSE row.steps

TrackStage(d, t, s) == IF t \in DOMAIN d.tracks /\ s \in DOMAIN d.tracks[t] THEN d.tracks[t][s] ELSE {}
\* stage_course, stage_external
InStage(d, step) == <<step.type, step.item>> \in TrackStage(d, step.track, step.stage)

\* check_steps: known courses, steps that their stage has, none of them twice.
Key(step) == IF step.type = "course" THEN <<"course", step.item>> ELSE <<step.item, step.track, step.stage>>
CheckSteps(d, steps) ==
    /\ \A i \in DOMAIN steps :
          /\ steps[i].type = "course" => steps[i].item \in DOMAIN d.courses
          /\ steps[i].type = "external" \/ {steps[i].track, steps[i].stage} # {None} => InStage(d, steps[i])
    /\ \A i, j \in DOMAIN steps : Key(steps[i]) = Key(steps[j]) => i = j

\* render: the steps that still exist, a course without the track that no longer holds it.
Exists(d, step) == IF step.type = "course" THEN step.item \in DOMAIN d.courses ELSE InStage(d, step)
KeepLink(d, step) == step    \* faulty variant: the track stays
Relink(d, step) == IF step.type = "external" \/ InStage(d, step) THEN step
                   ELSE [step EXCEPT !.track = None, !.stage = None]
StepStatus(d, engine, step, w) ==
    IF step.type = "course" THEN CourseProgress(d, engine, d.courses[step.item], w).status
    ELSE IF step.done THEN "done" ELSE "open"
Render(d, steps) ==
    FlattenSeq([i \in DOMAIN steps |-> IF Exists(d, steps[i]) THEN <<Relink(d, steps[i])>> ELSE << >>])

\* track_for_user: the items of a track with their status; unknown courses are left out.
TrackItems(d, t, s) == {i \in TrackStage(d, t, s) : i[1] = "course" => i[2] \in DOMAIN d.courses}
TrackStatus(d, engine, t, s, i, steps, w) ==
    IF i[1] = "course" THEN CourseProgress(d, engine, d.courses[i[2]], w).status
    ELSE IF \E n \in DOMAIN steps : /\ steps[n].type = "external" /\ steps[n].done
                                    /\ <<steps[n].track, steps[n].stage, steps[n].item>> = <<t, s, i[2]>>
    THEN "done" ELSE "open"

PlanInit == /\ deployed = FirstDeployment
            /\ on = EngineUnits
            /\ plan = None
-----------------------------------------------------------------------------
ArrivePlan(c) == /\ \E r \in PlanRequests : Arrive(c, r, plan)
                 /\ UNCHANGED planVars

\* Faulty variant: the steps are checked before a repeated request is recognised.
RepeatsIfAccepted(row, r) == row # None /\ row.request = r.id /\ CheckSteps(deployed, r.steps)
Repeats(row, r) == row # None /\ row.request = r.id

Fingerprint(r) == <<r.expected, r.steps>>
Written(r) == [revision |-> r.expected + 1, steps |-> r.steps, request |-> r.id, print |-> Fingerprint(r)]
ASSUME NoneIsNoPlan == None \notin {Written(r) : r \in PlanRequests}
Blind(seen, r) == TRUE    \* faulty variant: no compare and swap
\* The INSERT meets no row, the UPDATE one of the expected revision.
Swaps(seen, r) == IF seen = None THEN plan = None ELSE plan # None /\ plan.revision = r.expected

\* save_plan
SavePlan(c) ==
    LET r == open[c].request
        seen == Reads(open[c].seen, plan)
        again == Repeats(seen, r)
        same == seen.print = Fingerprint(r)
        stands == UNCHANGED plan
    IN
    /\ open[c] # Idle
    /\ r.for = "plan"
    /\ \/ erased /\ stands /\ Answer(c, "gone", None)
       \/ ~erased /\ Len(r.steps) > StepLimit /\ stands /\ Answer(c, "too_large", None)
       \/ /\ ~erased /\ Len(r.steps) <= StepLimit
          /\ \/ again /\ same /\ stands /\ Answer(c, "saved", seen)
             \/ again /\ ~same /\ stands /\ Answer(c, "reused", seen)
             \/ ~again /\ ~CheckSteps(deployed, r.steps) /\ stands /\ Answer(c, "refused", None)
             \/ /\ ~again /\ CheckSteps(deployed, r.steps)
                /\ \/ Revision(seen) # r.expected /\ stands /\ Answer(c, "conflict", seen)
                   \/ Revision(seen) = r.expected /\ Swaps(seen, r) /\ plan' = Written(r) /\ Answer(c, "saved", plan')
                   \* The rowcount is 0, or the primary key refuses the row and a new transaction reads again.
                   \/ /\ Revision(seen) = r.expected /\ ~Swaps(seen, r) /\ stands
                      /\ Answer(c, "conflict", IF seen = None THEN plan ELSE seen)
    /\ UNCHANGED <<deployed, on>>

\* A new release: the process ends, and with it every open request.
Deploy == /\ deployed' \in Deployments \ {deployed}
          /\ open' = [c \in Clients |-> Idle]
          /\ UNCHANGED <<isolation, erased, told, on, plan>>
\* A revision of an engine unit is activated or withdrawn (bound: while no request is open).
Publish == /\ \A c \in Clients : open[c] = Idle
           /\ \E u \in EngineUnits : on' = IF u \in on THEN on \ {u} ELSE on \cup {u}
           /\ UNCHANGED <<workVars, deployed, plan>>
=============================================================================
