----------------------------- MODULE RoomStream -----------------------------
(***************************************************************************)
(* Which learning room comes next (next_room in services/rooms.py): along  *)
(* one path, inside a course, or as a stream through all paths of a        *)
(* direction, with prerequisites, access, the daily limit and rooms that   *)
(* the catalogue retires.                                                  *)
(*                                                                         *)
(* A request for the next room only reads.  The learner plays on any       *)
(* device; a change of a room is one step here (LearningRooms has its      *)
(* locks and receipts, DailyLimit how lessons begin).  The operator        *)
(* enforces the daily limit.  Every path has one course, and every room is *)
(* a lesson of its own; no room is of the engine, which completes rooms by *)
(* itself.  challenges-ms answers, has every exercise enabled, and calls   *)
(* one solved whenever the learner completes it.                           *)
(***************************************************************************)
EXTENDS SequencesExt

CONSTANTS Paths,       \* Seq(paths): one direction, in the order of the catalogue
          UnitsOf,     \* [paths -> Seq(units)]
          Intros,      \* units that may be skipped, and complete as introduced
          Requires,    \* [units -> SUBSET concepts]
          Teaches,     \* [units -> SUBSET concepts]
          Practices,   \* [units -> SUBSET concepts]
          FreePaths,   \* paths of free courses
          Policies,    \* bound: what the shop says of the learner; "unknown" while it cannot be asked
          Withholdable, \* bound: rooms that are retired at times, as the units of a switched-off engine are
          Nothing

Units == UNION {ToSet(UnitsOf[p]) : p \in ToSet(Paths)}
PathOf(u) == CHOOSE p \in ToSet(Paths) : u \in ToSet(UnitsOf[p])

Size == Cardinality(Units)
\* The place of a room in the direction, and that of the beginning of a path.
At(s, x) == CHOOSE i \in DOMAIN s : s[i] = x
Earlier(v, p) == At(Paths, PathOf(v)) < At(Paths, p)
Place == [u \in Units |->
             LET p == PathOf(u) IN
             Cardinality({v \in Units : \/ Earlier(v, p)
                                        \/ PathOf(v) = p /\ At(UnitsOf[p], v) <= At(UnitsOf[p], u)})]
Beginning == [p \in ToSet(Paths) |-> Cardinality({v \in Units : Earlier(v, p)}) + 1]

\* Catalogue.references_are_consistent: every room is on exactly one path.
ReferencesAreConsistent ==
    /\ Paths \in Seq(ToSet(Paths)) /\ IsInjective(Paths)
    /\ \A p \in ToSet(Paths) : UnitsOf[p] \in Seq(ToSet(UnitsOf[p])) /\ IsInjective(UnitsOf[p])
    /\ \A p, q \in ToSet(Paths) : p # q => ToSet(UnitsOf[p]) \cap ToSet(UnitsOf[q]) = {}

ASSUME StreamConstantsOK == /\ ReferencesAreConsistent
                            /\ FreePaths \subseteq ToSet(Paths)
                            /\ Intros \cup Withholdable \subseteq Units
                            /\ Policies \subseteq {"daily", "daily_premium", "legacy", "legacy_premium", "unknown"}
                            /\ Nothing \notin Units \cup ToSet(Paths)

VARIABLES rooms,     \* [Units -> Rooms]: RoomState
          recent,    \* the rooms in work, the one changed last first
          begun,     \* rooms whose lesson has its LessonStart
          shown,     \* the room on the learner's screen
          policy,    \* one of Policies
          owned,     \* paths whose course the learner bought
          spent,     \* whether today's new lessons are used up
          withheld   \* rooms that are retired

learnerVars == <<rooms, recent, begun, spent>>
accessVars == <<policy, owned, withheld>>
streamVars == <<learnerVars, shown, accessVars>>

\* `reviewing`: review_status is "in_progress"; that of a finished round changes nothing.
Rooms == [status : {"new", "in_progress", "completed", "skipped"}, reviewing : BOOLEAN]
Answers == [unit : Units \cup {Nothing}, repeat : BOOLEAN,
            reason : {"room", "completed", "limit_reached", "prerequisites", "unavailable", "outage"}]

Finished(u) == rooms[u].status \in {"completed", "skipped"}
Reviewing(u) == rooms[u].reviewing
ReviewAvailable(u) == Finished(u) /\ ~Reviewing(u)
InWork(u) == rooms[u].status = "in_progress" \/ Reviewing(u)

\* introduced_concepts: a skipped or completed introduction teaches; a solved or passed room
\* was practised as well.  A practice round leaves status and result alone.
ConceptsOf(u) == IF ~Finished(u) THEN {}
                 ELSE IF u \in Intros THEN Teaches[u] ELSE Teaches[u] \cup Practices[u]
Introduced == UNION {ConceptsOf(u) : u \in Units}
Prepared(u) == \A c \in Requires[u] : \E v \in Units : c \in ConceptsOf(v)

\* A lesson is begun by its start, or by work in its room.
Begun(u) == u \in begun \/ rooms[u].status \in {"in_progress", "completed"} \/ Reviewing(u)

\* accessible_paths: with the daily policy every path may be browsed; without an answer of the
\* shop, begun courses stay open.
Accessible(p) == \/ p \in FreePaths \cup owned
                 \/ policy \in {"daily", "daily_premium", "legacy_premium"}
                 \/ policy = "unknown" /\ \E u \in ToSet(UnitsOf[p]) : Begun(u)
\* require_path_access for one room: without the shop, only a begun lesson.
Admitted(u) == /\ Accessible(PathOf(u))
               /\ policy = "unknown" => PathOf(u) \in FreePaths \cup owned \/ Begun(u)

\* for_unit: what can begin today.  A free course is no exemption from the limit.
CanStart(u) == \/ policy \in {"legacy", "legacy_premium", "daily_premium"}
               \/ policy = "daily" /\ (~spent \/ PathOf(u) \in owned)
               \/ policy = "unknown" /\ PathOf(u) \in FreePaths \cup owned
               \/ Begun(u)
\* status of the learner, in a course or not, that turns a request into the endless stream.
AtLimit(course) == policy = "daily" /\ spent /\ course \notin owned

InProgress(u) == rooms[u].status = "in_progress"

Completed(p) == LET active == ToSet(UnitsOf[p]) \ withheld IN
                active # {} /\ \A u \in active : Finished(u)

\* The orders of the rooms, by a rank: `From` counts on from a place and round the direction.
Earliest(S, rank(_)) == IF S = {} THEN Nothing
                        ELSE LET first == Min({rank(u) : u \in S}) IN CHOOSE u \in S : rank(u) = first
From(start, place) == (place + Size - start) % Size

Shows(u) == [unit |-> u, repeat |-> ReviewAvailable(u), reason |-> "room"]
Shut(reason) == [unit |-> Nothing, repeat |-> FALSE, reason |-> reason]
\* A room cannot begin today, or the shop had to be asked.
Limited == Shut(IF policy = "unknown" THEN "outage" ELSE "limit_reached")
-----------------------------------------------------------------------------
\* next_room along a path: the first room that is not finished.
PathRoom(p, after) ==
    LET open == {u \in ToSet(UnitsOf[p]) \ withheld : ~Finished(u) /\ (after # Nothing => Place[u] > Place[after])}
        rank(u) == Place[u] + IF after = Nothing /\ InProgress(u) THEN 0 ELSE Size
        next == Earliest({u \in open : Prepared(u)}, rank)
    IN IF next # Nothing THEN Shows(next)
       ELSE IF Completed(p) THEN Shut("completed")
       ELSE IF open # {} THEN Shut("prerequisites") ELSE Shut("unavailable")

\* next_course_room: the course chooses the order, not the prerequisites.  Without a cursor,
\* the latest work comes first and what is finished last.
DeclaredRank(u, after) == From(IF after = Nothing THEN 1 ELSE Place[after] + 1, Place[u])
CourseRank(u, after) == IF after # Nothing THEN From(Place[after] + 1, Place[u])
                        ELSE IF InWork(u) THEN At(recent, u)
                        ELSE Place[u] + IF Finished(u) THEN 2 * Size ELSE Size
CourseRoom(p, after, continuous) ==
    LET tried == {u \in ToSet(UnitsOf[p]) \ withheld :
                     /\ continuous \/ ~ReviewAvailable(u)
                     /\ continuous \/ after = Nothing \/ Place[u] > Place[after]}
        rank(u) == CourseRank(u, after)
        next == Earliest({u \in tried : CanStart(u)}, rank)
    IN IF next # Nothing THEN Shows(next)
       ELSE IF tried # {} THEN Limited
       ELSE IF Completed(p) THEN Shut("completed") ELSE Shut("unavailable")

\* continuous_room: work anywhere in the direction first, then what is new (on this path first),
\* then practice; the room the learner leaves comes last.  Its pass that resumes practice finds
\* nothing: practice in progress is work, which came first.
ServedAnywhere(p) == Units \ withheld
ServedHere(p) == ToSet(UnitsOf[p]) \ withheld
Served(p) == {u \in Units \ withheld : PathOf(u) = p \/ Accessible(PathOf(u))}
Stage(u, after) == IF u # after /\ InWork(u) THEN 0
                   ELSE IF u # after /\ ~Finished(u) THEN 1
                   ELSE IF ReviewAvailable(u) THEN 2 ELSE 3
ContinuousRoom(p, after) ==
    LET stage(u) == Stage(u, after)
        round(u) == From(IF after = Nothing THEN Beginning[p] ELSE Place[after] + 1, Place[u])
        order(u) == CASE stage(u) = 0 -> From(Beginning[p], Place[u])
                      [] stage(u) = 1 /\ after # Nothing -> round(u) + IF PathOf(u) = p THEN 0 ELSE Size
                      [] stage(u) = 1 /\ after = Nothing ->
                            Size * From(Beginning[p], Beginning[PathOf(u)]) + Place[u]
                      [] OTHER -> round(u)
        rank(u) == (Size * Size + 1) * stage(u) + order(u)
        next == Earliest({u \in Served(p) : Prepared(u) /\ CanStart(u)}, rank)
    IN IF next # Nothing THEN Shows(next)
       ELSE IF \E u \in Served(p) : Prepared(u) THEN Limited
       ELSE IF Served(p) # {} THEN Shut("prerequisites") ELSE Shut("unavailable")

\* next_room: a learner at the limit gets the stream, whatever the client asked for.
AsAsked(p, after, continuous, course) ==
    IF course THEN CourseRoom(p, after, continuous)
    ELSE IF continuous THEN ContinuousRoom(p, after) ELSE PathRoom(p, after)
NextRoom(p, after, continuous, course) ==
    LET on == continuous \/ AtLimit(IF course THEN p ELSE Nothing) IN
    IF course THEN CourseRoom(p, after, on)
    ELSE IF on THEN ContinuousRoom(p, after) ELSE PathRoom(p, after)
-----------------------------------------------------------------------------
StreamInit == /\ rooms = [u \in Units |-> [status |-> "new", reviewing |-> FALSE]]
              /\ recent = <<>> /\ begun = {} /\ shown = Nothing
              /\ policy \in Policies
              /\ owned = {} /\ spent = FALSE /\ withheld = {}

\* GET /rooms as the client sends it that lets the stream run on from the room it shows.  A
\* request only reads: the properties are of every other request a client could send as well.
Follow == /\ UNCHANGED <<learnerVars, accessVars>>
          /\ \E p \in {q \in ToSet(Paths) : Accessible(q)} :
                \E after \in {Nothing} \cup ToSet(UnitsOf[p]) :
                   /\ after = IF shown \in ToSet(UnitsOf[p]) THEN shown ELSE Nothing
                   /\ after = Nothing /\ shown # Nothing => ~Accessible(PathOf(shown))
                   /\ shown' = NextRoom(p, after, TRUE, FALSE).unit
Opened(course) == {u \in Units \ withheld : Admitted(u) /\ (course \/ Prepared(u))}
\* GET /rooms?unit=, /rooms/{unit_id}: a room the learner chose.
Choose(u, course) == /\ u \in Opened(course)
                     /\ shown' = u
                     /\ UNCHANGED <<learnerVars, accessVars>>

\* mutate_room: what a learner may do in a room.  Only a skip begins nothing.
Permitted(course) == {u \in Opened(course) : CanStart(u)}
Begin(u) == /\ begun' = begun \cup {u}
            /\ IF Begun(u) \/ policy \notin {"daily", "legacy"} \/ PathOf(u) \in owned
               THEN UNCHANGED spent ELSE spent' \in {spent, TRUE}
Change(u, to) == /\ rooms' = [rooms EXCEPT ![u] = to]
                 /\ LET others == IF InWork(u) THEN RemoveAt(recent, At(recent, u)) ELSE recent
                    IN recent' = IF to.reviewing \/ to.status = "in_progress" THEN <<u>> \o others ELSE others
                 /\ UNCHANGED <<shown, accessVars>>
\* The result of a practice round leaves the achievement alone.
Finish(u, how) == IF Reviewing(u) THEN [rooms[u] EXCEPT !.reviewing = FALSE] ELSE [rooms[u] EXCEPT !.status = how]

Save(u, course) == /\ u \in Permitted(course)
                   /\ Begin(u)
                   /\ Change(u, [rooms[u] EXCEPT !.status = IF @ = "new" THEN "in_progress" ELSE @])
Complete(u, course) == /\ u \in Permitted(course)
                       /\ ~ReviewAvailable(u)
                       /\ Begin(u)
                       /\ Change(u, Finish(u, "completed"))
Skip(u, course) == /\ u \in Intros \cap Opened(course)
                   /\ ~ReviewAvailable(u)
                   /\ Change(u, Finish(u, "skipped"))
                   /\ UNCHANGED <<begun, spent>>
Review(u) == [rooms[u] EXCEPT !.reviewing = TRUE]
StartReview(u, course) == /\ u \in Permitted(course)
                          /\ ReviewAvailable(u)
                          /\ Begin(u)
                          /\ Change(u, Review(u))

Work(u, course) == Save(u, course) \/ Complete(u, course) \/ Skip(u, course) \/ StartReview(u, course)

ShopChanges == /\ policy' \in Policies
               /\ UNCHANGED <<learnerVars, shown, owned, withheld>>
Buy(p) == /\ p \notin FreePaths /\ policy # "unknown"
          /\ owned' = owned \cup {p}
          /\ UNCHANGED <<learnerVars, shown, policy, withheld>>
NextDay == spent' = FALSE /\ UNCHANGED <<rooms, recent, begun, shown, accessVars>>
\* A room is retired, or served again.
Withhold(u) == /\ withheld' = SymDiff(withheld, {u})
               /\ UNCHANGED <<learnerVars, shown, policy, owned>>

LearnerMoves == \/ Follow
                \/ \E u \in Units, course \in BOOLEAN : Choose(u, course) \/ Work(u, course)
StreamNext == \/ LearnerMoves
              \/ ShopChanges \/ NextDay
              \/ \E p \in ToSet(Paths) : Buy(p)
              \/ \E u \in Withholdable : Withhold(u)

\* A learner who goes on: follows the stream, and completes the room on the screen.
CompleteShown == shown # Nothing /\ Complete(shown, FALSE)
StreamFairness == SF_streamVars(Follow) /\ SF_streamVars(CompleteShown)
StreamSpec == StreamInit /\ [][StreamNext]_streamVars /\ StreamFairness
-----------------------------------------------------------------------------
\* Values are in their types, and the rooms in work are those of `recent`, each once.
StreamTypeOK == /\ rooms \in [Units -> Rooms]
                /\ recent \in Seq(Units) /\ IsInjective(recent) /\ ToSet(recent) = {u \in Units : InWork(u)}
                /\ begun \subseteq Units /\ shown \in Units \cup {Nothing}
                /\ policy \in Policies /\ owned \subseteq ToSet(Paths)
                /\ spent \in BOOLEAN /\ withheld \subseteq Units

\* What every request a client can send now is answered.
Requested == [path : ToSet(Paths), after : Units \cup {Nothing}, continuous : BOOLEAN, course : BOOLEAN]
EveryAnswer(Holds(_, _)) ==
    \A request \in Requested :
        Accessible(request.path) /\ request.after \in {Nothing} \cup ToSet(UnitsOf[request.path]) =>
            Holds(request, NextRoom(request.path, request.after, request.continuous, request.course))
Endless(request) == request.continuous \/ AtLimit(IF request.course THEN request.path ELSE Nothing)
\* The rooms of the path or of the whole stream that the learner could work in.
Workable(request) == {u \in Units : /\ request.course \/ ~Endless(request) => PathOf(u) = request.path
                                    /\ u \in Permitted(request.course)}

\* Selecting a room and changing one decide apart from each other whether it is open: a room that
\* next_room offers passes every check of mutate_room.  Only the finite path, which does not look
\* at the lessons' starts, may offer a room that cannot begin while the shop is out of reach.
OfferedCanBeOpened ==
    EveryAnswer(LAMBDA request, answer :
        answer.unit # Nothing => \/ answer.unit \in Permitted(request.course)
                                 \/ policy = "unknown" /\ ~request.course /\ ~Endless(request))

\* The stream never ends while a room of it can be worked in, across paths, at the limit, and with
\* the cursor on the last room; and the reason it gives for an end is the true one.
EndsAreTrue ==
    EveryAnswer(LAMBDA request, answer :
        /\ Endless(request) /\ answer.unit = Nothing => Workable(request) = {}
        /\ answer.reason = "completed" =>
              \A u \in ToSet(UnitsOf[request.path]) \ withheld : Finished(u) /\ PathOf(u) = request.path
        /\ answer.reason = "limit_reached" =>
              /\ policy = "daily" /\ spent
              /\ \E u \in Units \ withheld : ~Begun(u) /\ (request.course \/ Prepared(u))
        /\ answer.reason = "prerequisites" =>
              ~request.course /\ \A u \in Workable(request) : Finished(u) \/ request.after # Nothing)

\* Practice is offered only when there is nothing new to learn (but the room the learner leaves),
\* and a room in work anywhere in the stream comes before it.  The click for the next lesson of a
\* course is different: it follows the declared order.
NewBeforeRepeat ==
    EveryAnswer(LAMBDA request, answer :
        answer.repeat /\ (request.course => request.after = Nothing) =>
            Workable(request) \ {request.after} \subseteq {u \in Units : ReviewAvailable(u)})

\* Practice rounds, skips and saves never take an achievement back: what a learner introduced and
\* finished stays so, and no room closes again for want of a concept.
AchievementsLast == [][/\ Introduced \subseteq Introduced'
                       /\ \A u \in Units : Finished(u) => Finished(u)']_streamVars

\* A learner who follows the stream gets to every new room that stays open, whatever else is asked
\* and changed in between, unless they practise again and again: work comes before new rooms.
Open(u) == u \notin withheld /\ Admitted(u) /\ Prepared(u) /\ CanStart(u)
NewIsReached == \A u \in Units :
    <>[](Open(u) /\ \A v \in Units : ~Reviewing(v)) => <>Finished(u)

\* What is offered is open, in every state that has its shape.
OffersAreSound == StreamTypeOK /\ OfferedCanBeOpened

\* Who follows the stream gets on and never falls back.
LearnersGetOn == AchievementsLast /\ NewIsReached
=============================================================================
