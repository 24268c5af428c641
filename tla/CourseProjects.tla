--------------------------- MODULE CourseProjects ---------------------------
(***************************************************************************)
(* The private project that all lessons of a course extend                 *)
(* (services/course_project.py): a row per course, saved with a compare    *)
(* and swap, and receipts of the last saves, so that repeating one of them *)
(* gets the same answer.  A request is [for, id, expected, state]; its     *)
(* fingerprint is the course, expected and the state.                      *)
(***************************************************************************)
EXTENDS SavedWork, Naturals, Sequences, FiniteSets

CONSTANTS ProjectCourses, \* courses with a project
          ProjectRequests,\* bound: requests that are sent, each any number of times
          Oversized,      \* a state above PROJECT_STATE_LIMIT
          KEPT_RECEIPTS

ASSUME ReceiptsAreKept == KEPT_RECEIPTS \in Nat \ {0}

VARIABLES project,        \* [ProjectCourses -> [revision, state]]; revision 0: no row
          receipts,       \* CourseProjectRequest: records [id, course, revision, print]
          made            \* history: the requests that made each revision of each project

projectVars == <<project, receipts, made>>

NoProject == [revision |-> 0, state |-> None]
ProjectInit == /\ project = [k \in ProjectCourses |-> NoProject]
               /\ receipts = {}
               /\ made = [k \in ProjectCourses |-> << >>]

ProjectPrint(r) == <<r.for, r.expected, r.state>>
ReceiptsOf(all, id) == {x \in all : x.id = id}

ArriveProject(c) == /\ \E r \in ProjectRequests : Arrive(c, r, [project |-> project, receipts |-> receipts])
                    /\ UNCHANGED projectVars

\* The receipts that stay: the last of this course, and all of other courses.
Newest(all, course) ==
    {x \in all : \/ x.course # course
                 \/ Cardinality({y \in all : y.course = course /\ y.revision > x.revision}) < KEPT_RECEIPTS}

\* The INSERT of the project meets no row, or the UPDATE one of the expected revision; the receipt is new.
ProjectSwaps(seen, r) == /\ project[r.for].revision = r.expected
                         /\ ReceiptsOf(receipts, r.id) = {}

\* save_project
SaveProject(c) ==
    LET r == open[c].request
        seen == Reads(open[c].seen, [project |-> project, receipts |-> receipts])
        known == ReceiptsOf(seen.receipts, r.id)
        same == \E x \in known : x.print = ProjectPrint(r)
        stands == UNCHANGED projectVars
        next == r.expected + 1
    IN
    /\ open[c] # Idle
    /\ r.for \in ProjectCourses
    /\ \/ erased /\ stands /\ Answer(c, "gone", None)
       \* require_course_lessons refuses.
       \/ ~erased /\ stands /\ Answer(c, "no_access", None)
       \/ ~erased /\ r.state = Oversized /\ stands /\ Answer(c, "too_large", None)
       \/ /\ ~erased /\ r.state # Oversized
          /\ \/ known # {} /\ same /\ stands /\ Answer(c, "saved", (CHOOSE x \in known : TRUE).revision)
             \/ known # {} /\ ~same /\ stands /\ Answer(c, "reused", None)
             \/ /\ known = {}
                /\ \/ seen.project[r.for].revision # r.expected /\ stands /\ Answer(c, "conflict", None)
                   \/ /\ seen.project[r.for].revision = r.expected
                      /\ \/ /\ ProjectSwaps(seen, r)
                            /\ project' = [project EXCEPT ![r.for] = [revision |-> next, state |-> r.state]]
                            /\ receipts' = Newest(receipts \cup {[id |-> r.id, course |-> r.for, revision |-> next,
                                                                  print |-> ProjectPrint(r)]}, r.for)
                            /\ made' = [made EXCEPT ![r.for] = Append(@, r)]
                            /\ Answer(c, "saved", next)
                         \/ ~ProjectSwaps(seen, r) /\ stands /\ Answer(c, "conflict", None)
=============================================================================
