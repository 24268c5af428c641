----------------------------- MODULE DailyLimit -----------------------------
(***************************************************************************)
(* The daily allowance of one learner (services/daily_limit.py): lessons   *)
(* are begun once and stay begun, and a learner without an exemption       *)
(* begins at most `limit` new ones a day.  Some lessons share one room     *)
(* with an exercise; work there is charged to the lesson that `choose`     *)
(* picks.  Each lesson is in a course of its own.                          *)
(*                                                                         *)
(* A request for work on the exercise (challenge_admission) chooses the    *)
(* lesson before it waits for the learner's guard: Begin.  What a request  *)
(* does under the guard is one step and reads committed rows (READ         *)
(* COMMITTED; starts, purchases and progress are read FOR UPDATE there).   *)
(* The contract at the shop and the attempts at challenges-ms are asked    *)
(* for once a request, and either may be out of reach.  Administrators,    *)
(* who are exempt, are left out.                                           *)
(***************************************************************************)
EXTENDS Integers, FiniteSetsExt, SequencesExt

CONSTANTS Lessons,     \* a sequence: lessons in the order of their courses
          Sharing,     \* the lessons with the shared room
          Free,        \* lessons of free courses
          Sold,        \* lessons of courses on sale
          Lectured,    \* lessons with a lecture
          Watched,     \* lessons of courses the learner watched before courses were sold
          Policies,    \* answers of the shop to /learning-policy
          Requests,    \* request ids
          Tasks,       \* requests in progress
          MaxLimit,    \* bound: the limit an operator sets
          MaxDay,      \* bound: last day
          None

Names == Range(Lessons)

ASSUME DailyConstantsOK ==
    /\ Lessons \in Seq(Names) /\ IsInjective(Lessons)
    /\ \A set \in {Sharing, Free, Sold, Lectured, Watched} : set \subseteq Names
    /\ Sharing # {}
    /\ Policies \subseteq [mode : {"legacy", "shadow", "daily"}, premium : BOOLEAN]
    /\ MaxLimit \in Nat \ {0} /\ MaxDay \in Nat \ {0}
    /\ None \notin Names \cup Policies \cup Requests

\* The exercises at challenges-ms, each by the lessons it is evidence for: the one of the shared
\* room, and those of lectures.
Exercises == {Sharing} \cup {{l} : l \in Lectured}
Remote == UNION Exercises

VARIABLES erased,      \* the learner's tombstone
          config,      \* DailyLimitSettings
          day,         \* the day in Berlin
          starts,      \* [Names -> Rows or None]: LessonStart
          receipt,     \* [Requests -> Names or None]: LessonStartRequest
          purchases,   \* SUBSET Sold: CourseAccess
          room,        \* the shared room counts as begun: RoomState
          lectures,    \* SUBSET Lectured: LectureProgress
          attempted,   \* lessons with an attempt at challenges-ms, SUBSET Remote
          pc           \* [Tasks -> Contexts or None]: what a request carries into the guard

learner == <<starts, receipt, purchases, room, lectures>>
world == <<config, day, attempted>>
dailyVars == <<erased, learner, world, pc>>

\* A row: `enforced` says that its reason is "daily"; `by` is the request that began the lesson,
\* for the properties.  policy_mode and the other reasons, which only the hearts read, are left out.
Rows == [day : Nat, charged : BOOLEAN, enforced : BOOLEAN, by : Requests \cup {None}]
Configurations == [mode : {"off", "shadow", "enforce"}, limit : 1 .. MaxLimit]
\* What a request has heard of the attempts at challenges-ms: the answer is cached, its absence too.
Histories == [state : {"unread", "known", "lost"}, lessons : SUBSET Names]
Unread == [state |-> "unread", lessons |-> {}]
\* `since` are the lessons that had an attempt when the request began.
Contexts == [lesson : Names, request : Requests \cup {None}, policy : Policies \cup {None},
             history : Histories, since : SUBSET Names]
\* What status says of a lesson: whether it takes no slot, whether the limit is in force, whether
\* it may be begun.
Answers == [unlimited : BOOLEAN, enforced : BOOLEAN, open : BOOLEAN]

ASSUME NoneIsNoRow == None \notin Rows \cup Contexts \cup Answers

Init == /\ erased = FALSE
        /\ config \in Configurations
        /\ day = 1
        /\ starts = [l \in Names |-> None]
        /\ receipt = [r \in Requests |-> None]
        /\ purchases = {}
        /\ room \in BOOLEAN /\ lectures \in SUBSET Lectured
        /\ attempted \in {UNION done : done \in SUBSET Exercises}
        /\ pc = [t \in Tasks |-> None]
-----------------------------------------------------------------------------
\* What the service's own tables prove, and what challenges-ms may answer.
Local(l) == l \in lectures \/ (l \in Sharing /\ room)
Begun(l) == starts[l] # None \/ Local(l)
Evidence == {[state |-> "lost", lessons |-> {}], [state |-> "known", lessons |-> attempted]}
Owned == purchases \cup Watched

\* choose: an own or begun lesson first, then one attempted at challenges-ms, then the first.
Known(candidates) == {l \in candidates : Begun(l) \/ l \in purchases}
First(set) == Lessons[Min({i \in DOMAIN Lessons : Lessons[i] \in set})]
Choose(candidates, history) ==
    IF Known(candidates) # {} THEN First(Known(candidates))
    ELSE IF candidates \cap history.lessons # {} THEN First(candidates \cap history.lessons)
    ELSE First(candidates)

\* has_course_access, admitted, require_path_access.  Without a policy the request may fail as a whole.
Admits(l, policy, history) ==
    \/ l \in Free \cup Owned
    \/ policy # None /\ (policy.mode = "daily" \/ policy.premium)
    \/ policy = None /\ (Begun(l) \/ l \in history.lessons)

\* status: what the service knows of a lesson, None while the shop or needed evidence is missing.
Unlimited(l, policy) == policy.premium \/ l \in purchases
Used(rows, d) == Cardinality({l \in Names : rows[l] # None /\ rows[l].charged /\ rows[l].day = d})
CertainAnyway(l, ctx) == FALSE    \* faulty variant: missing evidence is no evidence
Uncertain(l, ctx) == l \in Remote /\ ~Begun(l) /\ ctx.history.state = "lost"
Old(l, ctx) == Local(l) \/ l \in ctx.history.lessons
\* Faulty variant: the day's last slot is given twice.
StatusOffByOne(l, ctx) ==
    IF ctx.policy = None \/ (~Unlimited(l, ctx.policy) /\ Uncertain(l, ctx)) THEN None
    ELSE LET enforced == ctx.policy.mode = "daily" /\ config.mode = "enforce"
         IN [unlimited |-> Unlimited(l, ctx.policy), enforced |-> enforced,
             open |-> ~enforced \/ Unlimited(l, ctx.policy) \/ starts[l] # None \/ Old(l, ctx)
                       \/ Used(starts, day) <= config.limit]
Status(l, ctx) ==
    IF ctx.policy = None \/ (~Unlimited(l, ctx.policy) /\ Uncertain(l, ctx)) THEN None
    ELSE LET enforced == ctx.policy.mode = "daily" /\ config.mode = "enforce"
         IN [unlimited |-> Unlimited(l, ctx.policy), enforced |-> enforced,
             open |-> ~enforced \/ Unlimited(l, ctx.policy) \/ starts[l] # None \/ Old(l, ctx)
                       \/ Used(starts, day) < config.limit]

\* start, up to its refusals: 503 without proven access or evidence, 429 at the limit.
MayStart(l, ctx) ==
    LET daily == Status(l, ctx)
        proven == l \in Free \cup Owned \/ starts[l] # None \/ Old(l, ctx)
        enforcing == config.mode = "enforce" /\ ctx.policy # None /\ ctx.policy.mode = "daily"
    IN /\ daily = None => proven
       /\ daily # None => daily.open
       /\ ~(starts[l] = None /\ daily = None /\ Uncertain(l, ctx) /\ enforcing)

\* The row of a lesson that is begun for the first time, on day d.
NewRow(l, ctx, d) ==
    LET daily == Status(l, ctx)
        old == IF daily # None /\ daily.unlimited THEN Local(l) ELSE Old(l, ctx)
        charge == daily # None /\ ~old /\ ~daily.unlimited /\ config.mode # "off"
    IN [day |-> d, charged |-> charge, enforced |-> charge /\ daily.enforced, by |-> ctx.request]
HistoricalRow == [day |-> day, charged |-> FALSE, enforced |-> FALSE, by |-> None]

\* start under the guard.  Midnight may pass between the allowance and the row.
Starts(l, ctx) ==
    /\ IF starts[l] = None
       THEN \E d \in day .. MaxDay : /\ d <= day + 1
                                      /\ day' = d
                                      /\ starts' = [starts EXCEPT ![l] = NewRow(l, ctx, d)]
       ELSE UNCHANGED <<starts, day>>
    /\ receipt' = IF ctx.request = None THEN receipt ELSE [receipt EXCEPT ![ctx.request] = l]
\* Faulty variant: a receipt is not looked for.
AdmitAgain(l, ctx) == MayStart(l, ctx) /\ Starts(l, ctx)
Admit(l, ctx) ==
    LET repeated == ctx.request # None /\ receipt[ctx.request] # None
        legacy == Status(l, ctx) # None /\ ctx.policy.mode = "legacy" /\ config.mode = "off"
    IN \/ /\ repeated /\ receipt[ctx.request] = l
          /\ UNCHANGED <<starts, receipt, day>>
       \/ /\ ~repeated /\ MayStart(l, ctx) /\ legacy
          /\ UNCHANGED <<starts, receipt, day>>
       \/ /\ ~repeated /\ MayStart(l, ctx) /\ ~legacy
          /\ Starts(l, ctx)
-----------------------------------------------------------------------------
\* challenge_admission up to its wait for the guard: the choice among the admitted lessons that
\* share the exercise.  It fails when a lesson's access is uncertain; what it has read of the
\* shop and of challenges-ms stays for the request.
Begin(t, request) ==
    \E policy \in Policies \cup {None} :
        LET uncertain == {l \in Sharing : policy = None /\ l \notin Free \cup Owned}
            ask == \/ \E l \in uncertain : ~Begun(l)
                   \/ Known({l \in Sharing : Admits(l, policy, Unread)}) = {}
        IN /\ pc[t] = None
           /\ \E heard \in IF ask THEN Evidence ELSE {Unread} :
                  LET admitted == {l \in Sharing : Admits(l, policy, heard)}
                  IN /\ admitted # {}
                     /\ uncertain \subseteq admitted
                     /\ pc' = [pc EXCEPT ![t] = [lesson |-> Choose(admitted, heard), request |-> request,
                                                 policy |-> policy, history |-> heard, since |-> attempted]]
           /\ UNCHANGED <<erased, learner, world>>

\* challenge_admission under the guard.
Start(t) ==
    /\ pc[t] # None
    /\ ~erased
    /\ \E heard \in IF pc[t].history.state = "unread" /\ ~Begun(pc[t].lesson) THEN Evidence ELSE {pc[t].history} :
           Admit(pc[t].lesson, [pc[t] EXCEPT !.history = heard])
    /\ pc' = [pc EXCEPT ![t] = None]
    /\ UNCHANGED <<erased, purchases, room, lectures, config, attempted>>

\* Every refusal rolls the request back.
Refuse(t) == /\ pc[t] # None
             /\ pc' = [pc EXCEPT ![t] = None]
             /\ UNCHANGED <<erased, learner, world>>

\* A request for one lesson, or for a choice that is made under the guard, is one step: of what
\* it reads before the guard only evidence of a right matters later, and that does not go away.
AtOnce(candidates, request) ==
    \E policy \in Policies \cup {None},
       heard \in IF \A l \in candidates \cap Remote : Begun(l) THEN {Unread} ELSE Evidence :
        /\ \E l \in candidates : Admits(l, policy, heard)
        /\ LET lesson == Choose(candidates, heard)
           IN Admit(lesson, [lesson |-> lesson, request |-> request, policy |-> policy,
                             history |-> heard, since |-> attempted])

\* POST .../lessons/{lesson_id}/start
StartLesson(l, request) == /\ ~erased
                           /\ AtOnce({l}, request)
                           /\ UNCHANGED <<erased, purchases, room, lectures, config, attempted, pc>>

\* complecte_lecture
CompleteLecture(l) == /\ ~erased /\ l \notin lectures
                      /\ AtOnce({l}, None)
                      /\ lectures' = lectures \cup {l}
                      /\ UNCHANGED <<erased, purchases, room, config, attempted, pc>>

RoomScopes == {Sharing} \cup {{l} : l \in Sharing}
\* mutate_room, in one course or in any; skips start nothing.
Work == /\ ~erased
        /\ \E scope \in RoomScopes : AtOnce(scope, None)
        /\ room' = TRUE
        /\ UNCHANGED <<erased, purchases, lectures, config, attempted, pc>>

\* challenges-ms records an attempt; it asked for the start of a lesson before.
Attempt == /\ \E exercise \in Exercises : /\ ~(exercise \subseteq attempted)
                                         /\ \E l \in exercise : starts[l] # None
                                         /\ attempted' = attempted \cup exercise
           /\ UNCHANGED <<erased, learner, config, day, pc>>

\* backfill_user: needs the evidence of challenges-ms for lessons without any of their own.
Backfill == /\ ~erased
            /\ \E heard \in Evidence :
                  LET missing == {l \in Names : starts[l] = None}
                      old == {l \in missing : Local(l) \/ l \in heard.lessons}
                  IN /\ heard.state = "lost" => missing \cap Remote \subseteq {l \in Names : Local(l)}
                     /\ old # {}
                     /\ starts' = [l \in Names |->
                            IF l \in old THEN HistoricalRow ELSE starts[l]]
            /\ UNCHANGED <<erased, receipt, purchases, room, lectures, world, pc>>

Configure == /\ config' \in Configurations
             /\ UNCHANGED <<erased, learner, day, attempted, pc>>

\* A purchase of the course of l is fulfilled (CoursePurchases).
Buy(l) == /\ ~erased /\ l \notin purchases
          /\ purchases' = purchases \cup {l}
          /\ UNCHANGED <<erased, starts, receipt, room, lectures, world, pc>>

Midnight == /\ day < MaxDay
            /\ day' = day + 1
            /\ UNCHANGED <<erased, learner, config, attempted, pc>>

\* delete_user_data (XPReceipts has its steps).
Erase == /\ ~erased
         /\ erased' = TRUE
         /\ starts' = [l \in Names |-> None]
         /\ receipt' = [r \in Requests |-> None]
         /\ purchases' = {} /\ room' = FALSE /\ lectures' = {}
         /\ UNCHANGED <<world, pc>>

Next == \/ \E t \in Tasks : \/ \E request \in Requests : Begin(t, request)
                            \/ Start(t)
                            \/ Refuse(t)
        \/ \E l \in Names, request \in Requests : StartLesson(l, request)
        \/ \E l \in Lectured : CompleteLecture(l)
        \/ Work
        \/ Attempt
        \/ Backfill
        \/ Configure
        \/ \E l \in Sold : Buy(l)
        \/ Midnight
        \/ Erase

Spec == Init /\ [][Next]_dailyVars
-----------------------------------------------------------------------------
TypeOK == /\ erased \in BOOLEAN
          /\ config \in Configurations
          /\ day \in 1 .. MaxDay
          /\ starts \in [Names -> Rows \cup {None}]
          /\ receipt \in [Requests -> Names \cup {None}]
          /\ purchases \subseteq Sold /\ room \in BOOLEAN /\ lectures \subseteq Lectured
          /\ attempted \subseteq Remote
          /\ pc \in [Tasks -> Contexts \cup {None}]

\* The lesson that a step begins, if any.
NewStart(l) == starts[l] = None /\ starts'[l] # None

\* A lesson that takes a slot of an enforced allowance leaves its day within the limit in force,
\* though requests compete for the last slot, repeat, and pass midnight on their way (start).
LimitHolds == [][\A l \in Names : NewStart(l) /\ starts'[l].enforced
                     => Used(starts', starts'[l].day) <= config.limit]_dailyVars

\* No slot is taken for a lesson the learner has bought or has worked in, here or at challenges-ms
\* when the request began, whichever service fails meanwhile (status, start).
BegunIsFree == [][\A l \in Names : NewStart(l) /\ starts'[l].charged =>
                     /\ l \notin purchases /\ ~Local(l)
                     /\ l \in attempted =>
                            \E t \in Tasks : pc[t] # None /\ pc'[t] = None /\ l \notin pc[t].since]_dailyVars

\* What a day has been charged with, and the lessons begun, change only by erasure.
StartsAreDurable == [][\A l \in Names : starts[l] # None /\ ~erased' =>
                          starts'[l] = starts[l]]_dailyVars

\* However often and wherever a request is repeated, it begins one lesson: that of its receipt.
OneStartPerRequest == \A l \in Names : starts[l] # None /\ starts[l].by # None
                                           => receipt[starts[l].by] = l

\* An erased learner has no starts and no receipts again.
ErasedHasNoStarts == erased => \A l \in Names : starts[l] = None /\ \A r \in Requests : receipt[r] = None

\* Starts and receipts agree, in every state and also once the learner is erased.
StartsAgree == TypeOK /\ OneStartPerRequest /\ ErasedHasNoStarts

\* The limit holds when a slot is taken, and a slot once taken is neither freed nor moved.
SlotsHold == LimitHolds /\ StartsAreDurable

\* docs/daily-learning-access.md: "Shared work prefers an already begun or purchased lesson."  The
\* code does not keep this: see "Disagreements" in the README.
SharedWorkPrefersBegun ==
    [][\A t \in Tasks, l \in Sharing \ purchases :
          pc[t] # None /\ pc'[t] = None /\ NewStart(l)
              => \A k \in Sharing : starts[k] = None /\ k \notin purchases]_dailyVars
=============================================================================
