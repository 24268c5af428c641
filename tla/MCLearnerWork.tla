---------------------------- MODULE MCLearnerWork ----------------------------
(***************************************************************************)
(* Two requests at a time, three releases, a course of each kind, a track  *)
(* that changes, and every state of four units and two lectures.          *)
(***************************************************************************)
EXTENDS LearnerWork

MCUnits == {"intro", "task", "lab", "quiz"}
MCLectures == {"first", "second"}
Explicit == [path |-> "p", curriculum |-> <<{"intro", "lab"}, {"lab"}, {"first"}>>, sections |-> <<{"first"}>>]
QuizOnly == [path |-> "q", curriculum |-> <<{"quiz"}>>, sections |-> << >>]
OnQuiz == [path |-> "q", curriculum |-> Nothing, sections |-> << >>]
OnPath == [path |-> "p", curriculum |-> Nothing, sections |-> << >>]
Video == [path |-> Nothing, curriculum |-> Nothing, sections |-> <<{"first"}, {"second"}>>]
Draft == [path |-> Nothing, curriculum |-> Nothing, sections |-> << >>]
Empty == [path |-> Nothing, curriculum |-> Nothing, sections |-> <<{}>>]

First == [content |-> "on", paths |-> [p |-> <<"intro", "task", "lab">>, q |-> <<"quiz">>], retired |-> {}, engine |-> TRUE,
          courses |-> [bash |-> Explicit, cloud |-> OnPath, quick |-> QuizOnly, video |-> Video],
          tracks |-> [dev |-> [start |-> {<<"course", "bash">>, <<"external", "exam">>}]]]
Second == [First EXCEPT !.retired = {"task"}, !.courses = [cloud |-> OnPath, quick |-> OnQuiz, video |-> Draft],
                        !.tracks = [dev |-> [start |-> {<<"course", "bash">>}, more |-> {<<"external", "exam">>}]]]
Third == [First EXCEPT !.content = "off", !.engine = FALSE, !.courses.video = Empty,
                       !.tracks = [dev |-> [start |-> {<<"external", "exam">>}]]]
MCDeployments == {First, Second, Third}

Step(type, item, stage, done) == [type |-> type, item |-> item, stage |-> stage, done |-> done,
                                  track |-> IF stage = None THEN None ELSE "dev"]
Taken == Step("course", "bash", "start", FALSE)
Exam == Step("external", "exam", "start", TRUE)
Alone == Step("course", "bash", None, FALSE)
MCPlanRequests ==
    {[for |-> "plan", id |-> 1, expected |-> 0, steps |-> <<Taken, Exam>>],
     [for |-> "plan", id |-> 2, expected |-> 1, steps |-> <<Exam, Alone>>],
     [for |-> "plan", id |-> 2, expected |-> 0, steps |-> <<Alone>>],
     [for |-> "plan", id |-> 3, expected |-> 1, steps |-> <<>>],
     [for |-> "plan", id |-> 4, expected |-> 2, steps |-> <<Alone, Taken>>],
     [for |-> "plan", id |-> 4, expected |-> 0, steps |-> <<Alone, Exam, Taken>>]}
MCProjectRequests ==
    {[for |-> "bash", id |-> 1, expected |-> 0, state |-> "a"],
     [for |-> "bash", id |-> 2, expected |-> 0, state |-> "b"],
     [for |-> "bash", id |-> 3, expected |-> 1, state |-> "a"],
     [for |-> "cloud", id |-> 3, expected |-> 0, state |-> "a"],
     [for |-> "cloud", id |-> 4, expected |-> 0, state |-> "b"],
     [for |-> "bash", id |-> 5, expected |-> 2, state |-> "b"],
     [for |-> "bash", id |-> 6, expected |-> 0, state |-> "huge"]}
MCWorks == [rooms : [MCUnits -> {"none", "active", "completed"}], lectures : SUBSET MCLectures] \cup
           [rooms : [MCUnits -> {"new", "skipped"}], lectures : {{}}]
=============================================================================
