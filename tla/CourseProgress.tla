--------------------------- MODULE CourseProgress ---------------------------
(***************************************************************************)
(* How far a learner is in a course (services/course_progress.py), and     *)
(* what the other pages say of it: the course summary and the curriculum   *)
(* (services/curriculum.py, services/rooms.py).  Pure operators.           *)
(*                                                                         *)
(* A deployment d is [content, paths, retired, engine, courses, tracks]:   *)
(* content is "on", "off" (no rooms) or "broken" (an unreadable catalogue),*)
(* paths a sequence of units per learning path.  A course is [path,        *)
(* curriculum, sections]: a curriculum is a sequence of lessons, sections  *)
(* are one of video sections, and a lesson or section is the set of its    *)
(* activities.  `on` are the engine units with an active revision.  Work w *)
(* is [rooms, lectures]: a status per unit, and the lectures watched.      *)
(***************************************************************************)
EXTENDS Naturals, SequencesExt

CONSTANTS Units, EngineUnits, Lectures, Nothing

ASSUME EngineUnitsAreUnits == /\ EngineUnits \subseteq Units /\ Units \cap Lectures = {}
                              /\ "unavailable" \notin Units \cup Lectures
                              /\ Nothing \notin Nat \cup BOOLEAN

Statuses == {"none", "new", "active", "completed", "skipped"}    \* none: no row in RoomState

UnitsOf(d, p) == ToSet(d.paths[p])
CatalogueUnits(d) == UNION {UnitsOf(d, p) : p \in DOMAIN d.paths}
\* load_active_units: an active revision, and the engine switched on.
Available(d, on, u) == d.engine /\ u \in on
\* catalogue: any other unit of the engine is like a retired one.
Withdrawn(d, on) == {u \in CatalogueUnits(d) : u \in d.retired \/ (u \in EngineUnits /\ ~Available(d, on, u))}
ActiveUnits(d, on, p) == UnitsOf(d, p) \ Withdrawn(d, on)

BegunOrFinished(a, w) == IF a \in Units THEN w.rooms[a] \notin {"none", "new"} ELSE a \in w.lectures    \* faulty variant
Finished(a, w) == IF a \in Units THEN w.rooms[a] \in {"completed", "skipped"} ELSE a \in w.lectures
AllFinished(lessons, w) == \A i \in DOMAIN lessons : \A a \in lessons[i] : Finished(a, w)

\* without_unavailable_engine_units
AsComposed(lessons, hidden) == lessons    \* faulty variant: nothing is left out
WithoutUnavailable(lessons, hidden) ==
    FlattenSeq([i \in DOMAIN lessons |-> IF lessons[i] \subseteq hidden THEN << >> ELSE <<lessons[i] \ hidden>>])

\* A lesson of its own for each room of a path and for each video.
RoomLessons(path, units) == FlattenSeq([i \in DOMAIN path |-> IF path[i] \in units THEN <<{path[i]}>> ELSE << >>])
VideoLessons(sections) == FlattenSeq([i \in DOMAIN sections |-> SetToSeq({{l} : l \in sections[i]})])
Unavailable == <<{"unavailable"}>>
\* definitions: the lessons of a course, with those of its path and its videos if it has no curriculum.
Definition(d, on, course) ==
    LET units == IF course.path \in DOMAIN d.paths THEN ActiveUnits(d, on, course.path) ELSE {}
        hidden == IF course.path = Nothing THEN {} ELSE Withdrawn(d, on) \cap EngineUnits
        rooms == IF course.path = Nothing THEN << >> ELSE RoomLessons(d.paths[course.path], units)
        lessons == IF course.curriculum # Nothing THEN WithoutUnavailable(course.curriculum, hidden)
                   ELSE rooms \o VideoLessons(course.sections)
        known == units \cup UNION ToSet(course.sections)
    IN IF \/ course.path # Nothing /\ (d.content = "on" => course.curriculum = Nothing /\ course.path \notin DOMAIN d.paths)
          \/ \E i \in DOMAIN lessons : ~(lessons[i] \subseteq known)
       THEN Unavailable ELSE lessons

\* get_curriculum: the lessons of a course, and whether each is completed.
CurriculumLessons(d, on, course, w) ==
    LET lessons == Definition(d, on, course) IN
    IF lessons = Unavailable THEN {}
    ELSE {[activities |-> x, completed |-> \A a \in x : Finished(a, w)] : x \in ToSet(lessons)}

\* lesson_definition: a room opens the first lesson that has it.
LessonWith(lessons, u) == lessons[Min({i \in DOMAIN lessons : u \in lessons[i]})]
\* get_lesson: the page of the lesson that a room opens, where no service it asks refuses.
LessonPage(d, on, course, u, w) ==
    LET lesson == LessonWith(Definition(d, on, course), u) IN
    [activities |-> [a \in lesson |-> Finished(a, w)], completed |-> \A a \in lesson : Finished(a, w)]

Progress(status, done, total) == [status |-> status, done |-> IF total = 0 THEN Nothing ELSE done,
                                  total |-> IF total = 0 THEN Nothing ELSE total]
\* _result
Result(complete, started, done, total) ==
    Progress(IF complete THEN "done" ELSE IF started \/ done > 0 THEN "in_progress" ELSE "open", done, total)
Unknown == Progress("open", 0, 0)

\* _explicit
ExplicitProgress(d, on, course, w) ==
    LET lessons == Definition(d, on, course)
        activities == UNION ToSet(lessons)
        done == {i \in DOMAIN lessons : \A a \in lessons[i] : Finished(a, w)}
    IN IF lessons = Unavailable THEN Unknown
       ELSE Result(AllFinished(lessons, w),
                   \E a \in activities : Finished(a, w) \/ (a \in Units /\ w.rooms[a] # "none"),
                   Cardinality(done), Len(lessons))

\* rooms.path_completed
PathCompleted(d, on, p, w) == ActiveUnits(d, on, p) # {} /\ \A u \in ActiveUnits(d, on, p) : Finished(u, w)
PathProgress(d, on, course, w) ==
    IF d.content # "on" THEN Unknown
    ELSE LET active == IF course.path \in DOMAIN d.paths THEN ActiveUnits(d, on, course.path) ELSE {} IN
         Result(active # {} /\ PathCompleted(d, on, course.path, w), \E u \in active : w.rooms[u] \notin {"none", "new"},
                Cardinality({u \in active : Finished(u, w)}), Cardinality(active))

\* _video
VideoProgress(course, w) ==
    LET lectures == UNION ToSet(course.sections)
        watched == lectures \cap w.lectures
    IN Result(course.sections # << >> /\ watched = lectures, FALSE, Cardinality(watched), Cardinality(lectures))

\* course_progress of one course
CourseProgress(d, on, course, w) ==
    IF course.curriculum # Nothing THEN ExplicitProgress(d, on, course, w)
    ELSE IF course.path # Nothing THEN PathProgress(d, on, course, w)
    ELSE VideoProgress(course, w)

\* completion_overrides, course_completions: Nothing is "not known".
CompletionOverride(d, on, course, w) ==
    LET lessons == Definition(d, on, course) IN IF lessons = Unavailable THEN Nothing ELSE AllFinished(lessons, w)
CourseCompletion(d, on, p, w) ==
    IF d.content = "on" /\ p \in DOMAIN d.paths THEN PathCompleted(d, on, p, w) ELSE Nothing
\* Course.summary
SummaryCompleted(d, on, course, w) ==
    IF course.curriculum # Nothing THEN CompletionOverride(d, on, course, w)
    ELSE IF course.path # Nothing THEN CourseCompletion(d, on, course.path, w)
    ELSE course.sections # << >> /\ \A i \in DOMAIN course.sections : course.sections[i] \subseteq w.lectures
=============================================================================
