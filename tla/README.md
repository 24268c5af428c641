# TLA+ models of skills-ms

skills-ms keeps what a learner of the academy has: experience points, bought courses, learning
rooms, tasks of the lesson engine, started lessons. It is a FastAPI service on one SQL database
(PostgreSQL in production, MariaDB by the default `DATABASE_URL`) and Redis, and it talks to the
auth service, the shop, challenges-ms, llm-ms and the plan sandbox. Almost everything it does is a
short request; what is hard about it is that requests of one learner, retries of other services,
two recovery loops and account erasure meet in the same rows. These modules model that.

## 1. Inventory

### How the service runs

* A request is one database transaction (`db_context`); a refused request rolls back
  (`rollback_on_exception`). Some paths commit in the middle and go on (`deliver`, `settle`).
* `lock_user` (services/purchases.py) inserts and locks one row per learner, the *guard*. Every
  writer of learner data is meant to take it first and keep it to its commit; its column `deleted` is
  the tombstone of an erased account. The first statement of `lock_user` is a plain read, so under
  REPEATABLE READ the reads of a transaction may be older than its lock.
* Two loops (app.py) repeat every 30 seconds what got lost: orders and lesson milestones.

### Components

| Component | State | Operations | Interacts with | What makes it correct |
|---|---|---|---|---|
| User guard | `PurchaseUser` | `lock_user` | everything below | one writer per learner; the tombstone is final |
| XP delivery | `XP`, `XPOperation` | `apply_xp`, `add_skill_progress`, `update_xp` | backend and challenges-ms call it; auth is asked | each operation counts once; answers stay true; no deadlock |
| Account erasure | all tables of a learner | `delete_user_data`, `sweep_deleted_users` | every writer | nothing comes back |
| Course purchases | `CoursePurchase`, `CourseAccess` | `offer`, `buy`, `deliver`, `report`, `recover` | shop, auth, loop | no debit forgotten, none twice, access only if paid |
| Lesson engine | `EngineRevision`, `EngineTaskState`, `EngineSubmission` | `publish`, `start`, `submit`, `status`, `settle`, `book` | sandbox, XP, rooms, daily limit | a verdict counts and pays once; the unit completes with the last pass |
| Learning rooms | `RoomState`, `RoomRequest`, `LlmVerdict` | `mutate_room` | milestones, daily limit, llm-ms, challenges-ms | no lost update, repeatable requests, achievements stay |
| Lesson milestones | `LessonMilestoneDelivery` | `enqueue`, `deliver`, `recover` | challenges-ms, loop | the outcome is true, final, and arrives |
| Daily limit | `LessonStart`, `LessonStartRequest`, `DailyLimitSettings` | `start`, `choose`, `backfill_user`, `configure` | shop, challenges-ms, purchases, rooms | the allowance holds; begun and bought work costs nothing |
| Retained rights | `RetainedCourseRight`, `CourseRightGrant`, `LastWatch` | preservation and withdrawal by erasure, `deliver`, watching a course | backend, shop, erasure | a right has one user; what was paid for is not lost |
| Room stream | none of its own; reads rooms, starts, purchases | `next_room`, `get_room`, course outline | rooms, daily limit, shop | never offers what cannot be opened, never ends early, new before repeated |
| Course projects | `CourseProject`, `CourseProjectRequest` | `save_project` | guard | no lost update, the last saves repeatable |
| Learning plans | `LearningPlan` | `save_plan`, `render`, `suggestions` | guard, courses, tracks, releases | no lost update; what is shown can be saved |
| Progress, curriculum, tracks | none | `course_progress`, `get_curriculum`, `get_lesson`, `public_track` | rooms, lectures, engine units | all pages say the same, and it is true |
| Skill tree | root and sub skills, dependencies | administrators' edits, cached reads | XP, recommendations | no cycle; old answers end |
| Recommendations | none | `suggest` | skill tree, plan | a learner never gets stuck |
| Leaderboards, publications | XP; epochs at the auth service | pages, ranks, totals | auth, backend | right ranks; only who takes part |
| Redis cache | function results | `redis_cached`, `clear_cache` | skill tree, XP, progress | no old value for good |
| Database pools | connections | sessions, admission reads | every request | nobody waits for everybody |
| Bookmarks, last watched, areas, export | single rows, or none | read, toggle | — | — |
| Lesson modules, videos, auth, llm tokens, settings, telemetry | files, tokens | I/O and configuration | — | — |

Hard behaviours, with their lines, are listed under `hazards` in PROJECT.json: lock order and
deadlock between deliveries and erasure, reads before the guard, calls to other services inside
transactions, lost answers, leases that run out, recovery after a crash, receipts that are pruned,
choices made before a lock, pages read statement by statement while consent changes, and
releases that remove what a saved row refers to.

## 2. Modules

| Module | What it is |
|---|---|
| `UserGuard` | the guard and the tombstone, extended by modules with open transactions |
| `XPLedger` | abstract: what the delivery of points promises |
| `XPReceipts` | deliveries, bookings, progress and erasure, lock by lock |
| `XPReceiptsProofs` | theorems about `XPReceipts` |
| `CourseContract` | abstract: what buying a course promises |
| `CoursePurchases` | orders, the shared delivery, the loop, the shop, erasure |
| `CoursePurchasesProofs` | theorems about `CoursePurchases` |
| `EngineTasks` | starts, submissions, leases, sandbox, booking, revisions |
| `EngineTasksProofs` | theorems about `EngineTasks` |
| `LessonMilestones` | the outbox row and its senders |
| `LearningRooms` | one room and its receipts, composed with `LessonMilestones` |
| `LearningRoomsProofs` | theorems about `LearningRooms` and its milestone, and about `RoomStream` |
| `DailyLimit` | starts of lessons under the daily allowance |
| `DailyLimitProofs` | theorems about `DailyLimit` |
| `CourseRights` | abstract: what the continuation of rights promises |
| `RetainedRights` | deliveries of rights to successors, erasure, watching |
| `RetainedRightsProofs` | theorems about `RetainedRights` |
| `RoomStream` | which room comes next: paths, courses, the endless stream |
| `SkillTree` | edits of skills and dependencies, and the cached answers |
| `Recommendations` | depths, scores and order of suggested courses, as operators (recursive: only TLC) |
| `SkillAdvice` | `SkillTree` with `Recommendations` on every tree it reaches |
| `SavedWork` | the lock and the transaction that plan and project share |
| `LearningPlan`, `CourseProjects` | saves, repeats, conflicts; what releases do to a plan |
| `CourseProgress` | how far a learner is in a course, on each page, as operators |
| `LearnerWork` | plan, projects, progress, releases and erasure together |
| `LearnerWorkProofs` | theorems about `LearnerWork`: saves, repeats, and what the pages show |
| `Leaderboards` | pages and ranks amid changes of points and of the publication |
| `LeaderboardsProofs` | theorems about `Leaderboards`, and about `SkillTree` |
| `MC...` | constants for TLC |

Operators commented as faulty variants (`RankOfTied`, `BookEveryEvaluation` and the like) are not part of a
specification. PROJECT.json pairs each with a property that must fail when it replaces the definition after it.

A property that a run checks is often a conjunction of named parts, each stated with its own comment above it:
`TreeIsSound` is `TreeTypeOK` and `CyclesNeedTwoEdits`, `OrdersSettle` is `FulfilledIsFinal`, `DebitsSettle` and `ReportsArrive`.

### XPReceipts

One learner's counters, one task per transaction. `pc` says where a transaction waits: a delivery
claims its receipt (`Claim`: the INSERT of `XPOperation`) or finds it and locks it (`Replay`,
`Refuse`), locks the guard (`GuardDelivery`), asks auth, computes the new counter (`Award`,
`draft`), and commits (`CommitAward`). `Book` is the engine's call of `apply_xp`, which holds the
guard already. Erasure looks for receipts (`BeginErasure`), locks those it found one after the
other, then the guard, then deletes, receipt by receipt again (`DeleteRows`). `WaitsFor` and `Deadlocked` are the
database's wait graph, and `DeadlockVictim` its rollback. The value of an award is abstracted: a counter is a bag of
operations. `Spec` has every writer of a counter but `update_xp`, which takes no guard; `SpecWithUpdates` adds it, to
show what it breaks (§5).

### CoursePurchases

Every step of `offer`, `buy`, `deliver`, `report` and `recover` between two calls to another service
is an action. `holder` is kept where the code returns without a commit, so the recovery loop keeps a
guard into the next order. `shop` is what the shop has decided, `sent` and `late` the command on its way
and the deadline. Under `RepeatableRead`, `seen` is what a plain read of a transaction sees.

### EngineTasks

`task`, `sub` and `lease` are the rows of the lesson engine for one learner and unit, `Start`,
`Submit`, `Read` the requests, `Run` the call to the sandbox behind the gate of one process, `Book`
the booking. `Save` is the room's own save, which writes the whole row: under `RepeatableRead` its completion may be
that of an older read. A start is a number; `Publish` activates another revision. A tick is time for leases only.

### LearningRooms and LessonMilestones

`Mutate` is `mutate_room` from its lock to its commit; the n-th change carries request number n, and
`log` keeps the changes for the properties. A new request may be made on any earlier version and may
come again. Requests that are refused change nothing and are no steps; what else may refuse them
(access, prerequisites, daily limit) is left out, which only removes steps. A change that passes a check or
completes a lesson queues the milestone in the same step. `LessonMilestones` has claims, calls that outlive their client
(`stray`), answers, lost answers, and senders that end anywhere.

### DailyLimit

`Begin` is `_challenge_scope_admission` up to the guard: it chooses a lesson from the rows it reads;
`Start` is `start` under the guard. Requests whose lesson is given, or chosen under the guard, are one
step (`StartLesson`, `CompleteLecture`, `Work`). A context carries what the session caches: the answer
of the shop, or its absence, and that of challenges-ms (`history`). `attempted` are the lessons with an attempt there: one at
the exercise of the shared room counts for every lesson that has the room, one at an exercise of a lecture for the
lesson of the lecture. Midnight may pass inside a start.

### RetainedRights

`right` and `grant` are the two tables, `access` and `watched` the rows of `CourseAccess` and `LastWatch` from
which erasure takes what it preserves, `bought` the fulfilled purchases, which it keeps. A delivery is `Look` (the
shop is asked), `GuardSuccessor`, `Confirm` (the shop is asked again) and `Continue`; an erasure is `BeginErasure`,
which reads `LastWatch`, and `Erase`, its commit. `Watch` and `CommitWatch` are `watch_course`, which takes no guard:
its admission and its write may lie on two sides of an erasure. The shop (`Elect`, `Revoke`) is an environment that
changes its mind until a grant is delivered. Every request may give up at every point.

### RoomStream

`NextRoom` is `next_room` as an operator of the learner's state: `PathRoom` for one path, `CourseRoom` inside a course,
`ContinuousRoom` for the stream through all paths. The sorted lists of the code are ranks, of which the earliest room is
taken (`Earliest`): `CourseRank` is the declared order from the cursor on, or, without one, what is in work, then what is new,
then what is finished. The actions are the learner (`Follow`, `Choose`, `Save`, `Complete`, `Skip`, `StartReview`), the shop, midnight,
and rooms that the catalogue retires (`Withhold`). The properties ask every request that a client could send in every
state, not only the one it does send (`EveryAnswer`). A change of a room is one step: `LearningRooms` has its details.

### SkillTree, Recommendations, SkillAdvice

An edit (`open`) is what the request read and will write; `Commit` writes the difference to the rows as they are
then, and only the keys of the database may refuse it (`Committable`). The cache is cleared when the edit begins, which
is before its commit; a read stores what it saw whenever it ends. `editsMet` and `readsMet` record that two requests
overlapped. `Recommendations` is services/recommendations.py without its texts; `SkillAdvice` gives it the tree
that the edits left behind, read at once.

### SavedWork, LearningPlan, CourseProjects, CourseProgress, LearnerWork

A save is `Arrive` (the first plain read, before the guard) and one step under the guard; `isolation` is the
database's: with `"repeatable"`, `Reads` sees the rows of the arrival. A deployment is what a release fixes: courses,
tracks, paths, switches. `Deploy` replaces it and ends the process; `Publish` activates or withdraws a unit of the
engine. `CourseProgress` has the status of a course four times, as the code does: `CourseProgress` itself, the summary
(`SummaryCompleted`), the curriculum and its lessons (`CurriculumLessons`, `LessonPage`), and tracks
(`TrackStatus` in `LearningPlan`). `Works` are all states of a learner's rooms and lectures for which the pages are compared.

### Leaderboards

`board` is the rows of XP, summed by learner; `auth` the publication, which the auth service owns: every change of it
has another epoch or revision. A request is one statement per action (`GetLeaderboard`, `RankFirst`, `Count`, or `ReadXP`,
`Exists`, `OwnRank`), and the second look at the epoch is `Reread`. Each process has its own feature flag. `boards` in
`read` are the states its statements have seen, so that the properties can tell whether anything changed in between.

## 3. Runs

| Run | Bounds | Shows |
|---|---|---|
| `xp_receipts` | 2 learners, any 3 transactions of 8, or a delivery and a booking with 2 erasures, 2 operations, fair | points once, answers durable, transactions end, implements `XPLedger`; the only deadlock is the one of §5 |
| `purchases` | 1 learner, 2 courses, 2 orders, 2 requests and the loop, REPEATABLE READ | debits remembered, access paid for, implements `CourseContract` |
| `purchase_recovery` | 2 learners with a course each, 2 orders, 1 request and the loop, fair | debits settle, reports arrive, fulfilled is final |
| `engine_tasks` | 2 tasks, 2 revisions, 3 starts, 2 requests | verdicts count once, passes pay once, completion, erasure |
| `engine_liveness` | 1 task, 2 starts, 2 requests, fair | every accepted submission is judged |
| `learning_rooms` | 3 kinds of room, 4 changes, 2 receipts kept, 2 senders, fair, REPEATABLE READ | no lost update, repeatable, single use, achievements, milestones arrive |
| `room_stream` | 3 rooms on 2 paths (one sold), 3 policies, a room that is retired at times, fair | offers can be opened, ends are true, new before repeated, new rooms are reached |
| `daily_limit` | 2 lessons with a shared room, one with a lecture, 2 days, limit 1, 2 exercise requests | the limit holds, begun work is free, starts last, one start per request |
| `retained_rights` | 3 learners, 1 course, 2 continuations, 2 requests | access is backed, grants are usable, paid courses are kept, implements `CourseRights` |
| `skill_tree` | 3 root and 3 sub skills, 5 possible dependencies, 2 requests at a time, 3 courses, 48 learners, fair | cycles only by edits that met, old answers end, depths are chains, learners move on |
| `learner_work` | 2 requests at a time of 6 plan and 7 project requests, 3 releases, 7 courses of every kind, 340 progresses, both isolation levels | saves follow each other, answers are true, shown plans can be saved, pages agree |
| `leaderboards` | 3 learners, pages of 2, 1 change of points, 2 of the publication, 1 request at a time | ranks and pages are right, only who takes part is shown, the fence against a rollback holds |

Why the bounds are enough. Every property relates at most two learners, two orders, two tasks or two
lessons; every lock is per learner; so two actors in conflict and one more that interferes reach the
interesting orders. The one circle of waiting transactions has two more shapes when a second erasure of the learner
takes part, for which `MCXPReceipts` has four transactions. Three starts let a band move, a counter reset and a third submission follow; four
changes are a save, a completion, a practice round and its end, with receipts pruned at two kept; a
limit of one makes the second lesson the one too many, and a second day the reset. In `MCXPReceipts`
tasks are interchangeable, so one order of each workload stands for all. In `MCRetainedRights` learners, grants
and requests are; its three learners are a source, a successor, and a successor of the successor. Its course is one
that nobody may watch without access (`Open = {}`); an open course adds ways to watch, not ways to continue.
`MCRoomStream` has an introduction, an exercise that needs it on its path and another one across a path that is sold: every
pass of the stream has a room to find and one to leave out. `MCSkillTree` can close a cycle of two and of three
roots and lose a root with its sub skill under an open edit. The courses of `MCLearnerWork` are one with a
curriculum of rooms of both kinds and a lecture, one that a withdrawn unit empties, one on a path, one of videos and a draft and one of an empty section; its
releases retire a room, move a step to another stage, and switch rooms and engine off. A request of
`Leaderboards` only reads, so one at a time meets every order of changes; the first boards have
two equal learners and a third with fewer points or no row, one change makes or breaks every tie, and a page of two has
a next page.

`RepeatableRead` is a constant where a plain read before the guard matters: the production database
reads committed rows, the default one a snapshot. `DailyLimit` is READ COMMITTED only: behind the guard it
reads all but the configuration and the choice with `FOR UPDATE`. `LearnerWork` has both in one run.

Deadlock is not checked where a model has an end: all requests made, or all changes used up.

### Fairness

* XP: a transaction with a free row takes it, and the database breaks deadlocks. No fairness for new
  requests.
* Purchases: the loop runs again (app.py, every 30 s), a waiting transaction that can get the guard again
  and again gets it, and of infinitely many calls to a service one is answered. The shop decides what has
  reached it.
* Engine: the learner reads a pending submission again; nothing else in the service evaluates it.
  The sandbox and the database do not fail for ever.
* Milestones: due rows are claimed by the loop; of infinitely many calls one is answered and recorded.
* Room stream: a learner who can follow the stream again and again does, and completes the room on the screen when
  that stays possible again and again. This is an assumption about the learner; the code's part is that following it is enough.
* Skill tree: an entry of Redis expires (`cache_ttl`), and a request ends, by its commit or otherwise.

## 4. What is proved

TLC checks each of these properties on the instance of §3; TLAPS proves it for every value of the constants. Each
`...Proofs` module states an inductive invariant `IInv`, proves that it holds at first and that every action keeps it,
part by part, and takes the theorems from it. `[A]` below means that property A is an action property or a refinement.
`Spec` is `StreamSpec` in `RoomStream` and `TreeSpec` in `SkillTree`: each shares a proof module with a component it has no
variable in common with, the rooms whose order it decides and the other component whose proofs count finite sets.

| Theorem | Says that `Spec` implies | If |
|---|---|---|
| `XPReceiptsProofs!TypeCorrect`, `InvariantHolds` | `TypeOK`, `IInv` | |
| `XPReceiptsProofs!CreditedOnce` | `CreditedExactlyOnce` | |
| `XPReceiptsProofs!AnswersDurable` | `AnswersAreDurable` | |
| `XPReceiptsProofs!ImplementsLedger` | [`LedgerBehaviour`] | |
| `RetainedRightsProofs!InvariantHolds` | `IInv` | |
| `RetainedRightsProofs!RightsSound` | `RightsAreSound` | |
| `RetainedRightsProofs!GrantsUsable`, `PaidPreserved` | `GrantedIsUsable`, `PaidIsPreserved` | |
| `RetainedRightsProofs!ImplementsRights` | [`RightsBehaviour`] | |
| `CoursePurchasesProofs!OrdersSound` | `OrdersAreSound` | |
| `CoursePurchasesProofs!OrdersImplementContract` | [`ContractBehaviour`] | |
| `CoursePurchasesProofs!FulfilledIsKept` | [`FulfilledIsFinal`] | READ COMMITTED |
| `EngineTasksProofs!PaidOnceAndErased` | `TypeOK`, `PassIsPaidOnce`, `ErasureIsFinal` | |
| `EngineTasksProofs!VerdictsCounted` | `VerdictsCountOnce` | |
| `EngineTasksProofs!SubmissionsSound` | `SubmissionsAreSound` | READ COMMITTED |
| `EngineTasksProofs!LastPassCompletesUnit` | `LastPassCompletes` | READ COMMITTED |
| `LearningRoomsProofs!RoomHistory` | `HistoryIsSound` | |
| `LearningRoomsProofs!RoomReceipts` | `LatestChangesRepeatable` | |
| `LearningRoomsProofs!RoomMilestone` | `MilestoneIsEarned` | |
| `LearningRoomsProofs!RoomFinal` | [`FinalIsKept`] | |
| `DailyLimitProofs!StartsAndReceipts` | `StartsAgree` | |
| `DailyLimitProofs!SlotsAreLimited` | [`SlotsHold`] | |
| `DailyLimitProofs!OwnLessonsAreFree` | [`BegunIsFree`] | |
| `LeaderboardsProofs!RanksAreConsented` | `TypeOK`, `PublishedTakePart` | |
| `LeaderboardsProofs!NoWayBack` | `RollbackIsFenced` | |
| `LeaderboardsProofs!BoardsSound` | `BoardsAreSound` | |
| `LeaderboardsProofs!TreeSound` | `TreeIsSound` | |
| `LeaderboardsProofs!OldAnswersHaveMet` | `OldNeedsAMeeting` | |
| `LearningRoomsProofs!OffersSound` | `OffersAreSound` | |
| `LearningRoomsProofs!EndsTrue` | `EndsAreTrue` | |
| `LearningRoomsProofs!NewComesFirst` | `NewBeforeRepeat` | |
| `LearningRoomsProofs!AchievementsStay` | [`AchievementsLast`] | |
| `LearnerWorkProofs!AnswersTrue` | `AnswersAreTrue` (its part on plans speaks of READ COMMITTED) | |
| `LearnerWorkProofs!SavesFollow` | [`SavesFollowEachOther`] | |
| `LearnerWorkProofs!PlanShown` | `ShownCanBeSaved` | |
| `LearnerWorkProofs!PagesTrue` | `PagesAreTrue` | |
| `LearnerWorkProofs!DoneStays` | [`WithdrawalKeepsDone`] | |

READ COMMITTED is the hypothesis `RepeatableRead = FALSE`, the production database. Where it is missing, the theorem
is about both isolation levels. Where it is there, the argument rests on rows that are read again under the guard: see §5.

### Assumptions

They are the `ASSUME`s of the modules, which TLC evaluates on every run: the absent value is no row, task or learner
(`NoneIsNoTask`, `NoneIsNoRow`, `NoneIsNoPlan`); sets that the code enumerates are finite where something is counted
(continuations, learners on a board); and what validation guarantees, at the definitions it restricts: a unit has a task
that it requires (schemas/engine.py:101), the lessons of a course have an order and none is listed twice, an expected
revision is a natural number (schemas/rooms.py:325), a board starts with rows of learners and with values within the bounds;
a catalogue has finitely many paths, and each room on exactly one of them (`StreamConstantsOK`, from schemas/rooms.py:231); the
parent of a sub skill is a root skill, and the skills there are at first have their parents (`SkillConstantsOK`);
a step of a plan is of a course or external, a course has finitely many lectures, a path units, and a stage courses and
external steps (`DeploymentsOK`, from schemas/learning_plan.py:21, schemas/course.py:133 and schemas/tracks.py:44). Nothing is
assumed of the works for which pages are compared.

### The inductive invariants

**XPReceipts.** `CreditedExactlyOnce` says nothing about open transactions, so it is not inductive. `IInv` adds: a
transaction past `lock_user` holds the guard and nobody else does; the lock on a receipt belongs to the
task that claims or replays it; a claim is of an operation without a committed receipt, and a replay of
one with it; a computed counter (`draft`) is that of the committed one plus this award, as long as the
guard is held; an erasure that deletes holds the guard and every receipt of the learner but those it has yet to come to;
engine receipts and `booked` agree. The refinement maps a commit of an award to `Credit`, of progress to
`CreditProgress`, of an erasure to `Erase`, and everything else to a stutter.

**RetainedRights.** `JobInv`: from `lock_user` on a request holds its user's guard, and a delivery's successor is not erased.
That makes `GrantedIsUsable` inductive: an erasure of the successor cannot come between the guard and the commit of a
delivery. `PaidIsPreserved` needs `GrantedIsUsable`, because an erasure does not preserve a course its learner
continues: the right that comes back stands for it. `ReturnInv` bounds the generation of a right by the number of its
withdrawn grants: an erasure that returns a right withdraws, by `GrantedIsUsable`, a grant of it that was granted until then.

**CoursePurchases.** `TaskInv`: a delivery that has asked auth and the shop holds the guard, so that its learner is not erased and
the order still `prepared` or `paid`; what is reported was provided. `RowInv`: an order is the active one of its course from
its acceptance to its failure, what is fulfilled was provided, what was provided was charged, and the shop decides only
what was sent to it; a sent order stays active unless the shop refuses it. `KeyInv`, one active order per course,
is what the refinement needs for "one debit per course". None of this depends on the isolation level, because a
delivery decides again on the row that it locks; a recovery that goes on to the next order under a guard it kept is
the exception, and `FulfilledIsKept` says that READ COMMITTED takes it away.

**EngineTasks.** `SeenInv`: what a start or submission has read was published, and a room it has seen is there unless the account was
erased. `ReceiptInv`: an award has a receipt exactly if a passed submission of its task is booked; `PassIsPaidOnce`
follows. `OrderInv`: the starts of a task are drawn in increasing order, and the one that waits for its verdict is the latest submitted,
so that a booking counts after every one before it. The counters are a function that is recursive over starts; `CountsStep`,
`CountsAgree` and `CountsRest` say what it does, each by the least start at which it would not (`UpTo`), and the booking that
changes one verdict changes the count from there on only: `VerdictsCountOnce`, at either isolation level. `CurrentInv` is
what needs READ COMMITTED: under a snapshot, `PendingKeepsItsStart` and `LastPassCompletes` both rest on rows that another request has replaced.

**LearningRooms.** `LogInv` says of every change what its row may look like after the ones before it (`RowOK`, `ChangeOK`), from which
`AchievementKept` follows; `ReceiptInv` says which receipts there are; `UsedInv` that a verdict of the history is used, so that no
second change finds it unused; `SenderInv` that whatever is on its way to challenges-ms was queued. An old snapshot of a
room cannot disturb this, because its revision and receipts are read again under the guard.

**DailyLimit.** `RowsArePast` (no lesson was begun on a day to come) makes a slot that is taken now count on a day on which only
earlier ones do. `HeardIsTrue`: a request that heard of the attempts at challenges-ms heard of all that there were when it began. The lemmas
`FirstOK`, `AdmitEffect` and `AdmittedStep` say what `unit_lessons`, `start` and its callers do; `SlotsHold`, `BegunIsFree` and
`StartsAreDurable` are proved of every step at once (`StepOK`).

**Leaderboards.** `ReadOK` says what a request has in hand at each of its statements: a snapshot that is the present publication
if the revision is the same, and rows of those who take part. Revisions only grow, so the second look at the epoch
finds the same revision only if nothing changed in between. `PlacesInv` follows a request whose statements have all seen one
board: `Lists` says what a sorted list of the rows of a board is (one row for each learner, better rows first), and every
part of such a list gives its rows the rank of `Place`, one more than the number of better rows: an injection in each direction.

**SkillTree.** A tree has no cycle if every set of its skills has one that needs no other of the set (`Ordered`); this says nothing
of the length of a chain and is what an edit keeps. The check of an update found a set of skills, closed under "depends on",
that holds the edited skill and none of those it will add (`StillChecked`); an edit that commits alone keeps `Ordered`, because
what lies outside of the closed set does not point into it, and inside of it the edit adds nothing. `CacheInv`: an edit and a stored answer, or a
read in progress, have met.

**RoomStream.** `StreamTypeOK` is inductive: the rooms in work are those of `recent`, each once. The properties are of every answer
in such a state. The lemmas say that a rank orders rooms as the code's sort key does (`Place` counts the rooms up to one;
stages of the stream are further apart than any two places), and that the room offered has the least rank of those tried, so that
a room of an earlier stage would have come first.

**LearnerWork.** The compare and swap of a plan is on the present row whatever the transaction saw, so
`SavesFollowEachOther` needs little more than types. `ReceiptInv`: a receipt is that of the request that made its revision, hence
there is one for each at most; `NewerReceipts` counts those after a recent save (an injection into an interval), and pruning
therefore keeps it. `PlanInv`: no step is twice in a plan. What is shown and what is listed is composed by `FlattenSeq`, of which `Flat`,
`FlatPlaces` and `FlatSame` say what is in it and from where: so the steps shown are steps of the plan without their stale tracks, each
from a place of its own (`ShownPlaces`), and `ComposedIs` says which lessons a course has. `DoneIs` is when a course of each kind is done;
`StatusIsDone`, `SummaryIsDone`, `DoneIsCounted` and `DoneCompletesRooms` show that every page says just that. A withdrawn unit
is hidden from a curriculum, so the lessons that remain are parts of those that were finished (`WithdrawalKeeps`).

### Only model-checked

* Liveness and what rests on fairness (`OrdersSettle` but for `FulfilledIsFinal`, `SubmissionsAreJudged`, `MilestonesArrive`, the stream
  that reaches new rooms, answers of the tree that grow old), and absence of deadlock (`OnlyLateReceiptsDeadlock`): TLAPS has no rules for
  fairness under quantifiers, nor for ENABLED and paths of waiting transactions.
* `SkillAdvice` and `Recommendations`, which are recursive.

## 5. Disagreements

Where the code does something else than a comment, a document or a test says. For each of the four, a
definition or a constant is named with which TLC finds it.

1. models/xp.py:38 says that every writer of XP shares the guard, and README.md:85 of the service that the rows of an
   erased account are deleted. `update_xp` (endpoints/xp.py:124) takes neither the guard nor a lock: it can write over an
   award, and leave points on an erased account. Under `SpecWithUpdates` of `XPReceipts`, which adds it to the writers of
   `Spec`, `CreditedExactlyOnce`, `AnswersAreDurable` and `LedgerBehaviour` fail.
2. services/engine_verdicts.py:126, under REPEATABLE READ: the bookings of the last two tasks each read a snapshot without the
   other's pass, and the unit stays incomplete although all tasks are passed. With `RepeatableRead = TRUE` in
   MCEngineTasks.cfg, `LastPassCompletes` fails, and so does `SubmissionsAreSound`. `LastPassCompletes` fails in a second way
   there: a save of the room (services/rooms.py:907) writes the whole row, and a booking leaves the revision it compares
   alone, so a save that read the room before the last pass takes the completion back. Under READ COMMITTED both
   properties hold.
3. docs/daily-learning-access.md:66 says that shared work prefers a begun or purchased lesson. An exercise request
   (services/daily_limit.py:768) chooses before it has the guard and does not choose again: `SharedWorkPrefersBegun` of
   `DailyLimit` does not hold.
4. A test (tests/services/test_user_deletion.py:225) says that erasing a learner who continues a right makes no second right.
   A course watched across the erasure (endpoints/course.py:190, models/last_watch.py:23) leaves a row that the next erasure takes
   for a right of the learner: `ContinuationsYieldNoRight` of `RetainedRights` does not hold.

Observations, of which the properties say exactly how far they go:

* The comment at services/user_deletion.py:50 promises that locking receipts first lets a delivery finish instead of
  deadlocking. An erasure locks the receipts it finds; one that is committed later is not among them. The replay of a
  booking, or a second erasure of the learner, can hold that receipt and wait for the guard, or for a receipt
  that the erasure has, while the erasure comes to it with its deletes. The database breaks the circle. `OnlyLateReceiptsDeadlock`
  says that no other exists.
* Under REPEATABLE READ with two requests at a time, a recovery may go on deciding on the row it read before its guard:
  `OrdersSettle` is claimed for READ COMMITTED, the production database. `purchases` checks the safety of both.
* The lease of a submission covers the sandbox's call but not the wait at the gate before it, so it may end
  while its holder waits. A booking takes accepted submissions only, so nothing counts twice (`VerdictsCountOnce`).
* Whoever bought a course and also continues another's right to it leaves one right behind, not two
  (`Preserved`); `PaidIsPreserved` says so.
* Two edits of the skill tree that are open together can each pass the check for cycles and close one together; so
  can deleting and creating a skill again under an open edit. `CyclesNeedTwoEdits` says that nothing else does,
  and `DepthsAreChains` that recommendations still end and measure a real chain.
* `clear_cache` comes before the commit (endpoints/skill.py, user_deletion.py:74), so a read in between stores the old
  answer until its time is up; `OldAnswersPass` says when.
* A course that teaches a skill together with one that it needs is never ready: `Ready` asks for all of a course's
  skills. `PlansNeverStall` therefore assumes a course of its own for every sub skill.
* An explicit course whose units are all withdrawn is done for everybody (`all` of nothing), and so is a video course that has
  sections but no lecture in them (the proof of `PagesTrue` found that one); a course on a path with nothing left is done for
  nobody. `DoneMeansFinished` and `WithdrawalKeepsDone` except exactly that. A course on a path
  that also has videos lists them in its curriculum, but "done" does not ask for them.
* The course outline calls a room available only with its prerequisites (services/rooms.py:548), although the same answer may
  offer it as the next one: inside a course `next_course_room` does not ask for them.
* Under REPEATABLE READ the plan is read before the guard: a repeat that races its original gets a conflict, and a conflict may show an
  older plan than the current one that endpoints/learning_plan.py:29 promises. `PlanAnswersAreTrue` is for READ COMMITTED;
  `SavesFollowEachOther` holds for both.
* The click for the next lesson of a course (`after` in services/rooms.py:457) follows the declared order: it may offer a practice
  round although an earlier lesson of the course is new. `NewBeforeRepeat` is of every other request.
* While the shop is out of reach, the finite path may offer a room that `mutate_room` then refuses (`OfferedCanBeOpened`).
* A page of a leaderboard is several statements: a change between them can make its ranks and total those of different
  moments. `PlacesAreRight` speaks of answers without a change in between, `PublishedTakePart` and `RollbackIsFenced` of all.
  Boards of before the publication have no order among equals, so their pages need not fit; `PagesFit` is about the published ones. A request
  that began before the policy became active may still answer in the old form.

## 6. Not modelled

* Bookmarks and last-watched times as such: single rows that only their own learner's requests touch (the watch that
  crosses an erasure is in `RetainedRights`).
* Connection pools: a matter of SQLAlchemy's settings; the transactions are in every module.
* Character areas and the account export: they read and do not decide.
* The layout of the skill tree, and prefixes of the cache other than `skills`: nothing else depends on them.
* Tokens, signatures and grants of the language models: checks of their input; a verdict's single use is in `LearningRooms`.
* Files, settings, logging, telemetry, start-up: I/O. The save limit of the engine in Redis is a refusal.
* In `SkillAdvice`, an edit between two of the five statements that read the tree (services/learning_plan.py:268): such
  suggestions may rest on parts of two trees, are stored nowhere, and end with the next request.
* In `DailyLimit`, `policy_mode` and the hearts that read it, and the exemption of administrators, which is that of a
  purchase; in `EngineTasks` the feedback and the cases. Numbers of points of an award, texts and hashes are model values.

## 7. Plan

Done: all components with state that requests share, as above. Proved: the safety of XP, rights, purchases, the engine, rooms,
milestones, the daily limit and saved work, the leaderboards and the consent behind them, the skill tree, the order of rooms, and
the pages about plans and courses. What is left is liveness and the recursive recommendations.
