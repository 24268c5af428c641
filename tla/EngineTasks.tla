----------------------------- MODULE EngineTasks -----------------------------
(***************************************************************************)
(* Tasks of a lesson-engine unit for one learner: starts and submissions   *)
(* (services/engine_tasks.py), the lease, the evaluation in the sandbox    *)
(* and the booking of its verdict (services/engine_verdicts.py, sandbox.py)*)
(* and the active revision (services/engine.py).                           *)
(*                                                                         *)
(* Requests that write a task wait for the learner's guard (lock_user);    *)
(* what they do from there to their commit is one step.  The first read of *)
(* a transaction is a step of its own: under RepeatableRead its plain      *)
(* reads see the rows of that moment, otherwise the rows they meet.  Time  *)
(* passes in ticks, which only the leases and the sandbox's gate see.      *)
(***************************************************************************)
EXTENDS Naturals, FiniteSetsExt

CONSTANTS Goals,           \* the unit's tasks
          Required,        \* SUBSET Goals
          Revisions,       \* publishable revisions: all keep the tasks and their terms
          Bands,           \* number of bands; a task starts in InitialBand
          InitialBand,
          RaiseAfter,      \* [Revisions -> Nat]: bandRule.raiseAfter
          LowerAfter,      \* [Revisions -> Nat]: bandRule.lowerAfter
          Plans,           \* plans a learner may save
          GoodPlans,       \* SUBSET Plans: the runner passes them
          MaxStarts,       \* bound: starts drawn
          Tasks,           \* requests in progress
          LeaseTicks,      \* LEASE_SECONDS in ticks
          RunTicks,        \* ticks a call to the sandbox may take
          RepeatableRead,
          None

ASSUME EngineConstantsOK ==
    /\ Required \subseteq Goals /\ Required # {}
    /\ GoodPlans \subseteq Plans
    /\ Bands \in Nat \ {0} /\ InitialBand \in 1 .. Bands
    /\ RaiseAfter \in [Revisions -> Nat \ {0}]
    /\ LowerAfter \in [Revisions -> Nat \ {0}]
    /\ MaxStarts \in Nat /\ LeaseTicks \in Nat \ {0} /\ RunTicks \in Nat
    /\ RepeatableRead \in BOOLEAN
    /\ None \notin Revisions \cup (1 .. MaxStarts) \cup Goals \cup Plans

VARIABLES erased,   \* BOOLEAN: the tombstone of the learner
          active,   \* the active revision of the unit, or None
          task,     \* [Goals -> TaskStates or None]: EngineTaskState
          sub,      \* [Starts -> Submissions or None]: EngineSubmission; a start carries one
          lease,    \* [Starts -> Nat]: ticks until evaluating_until, 0 when free
          room,     \* RoomState of the unit, or None
          receipts, \* SUBSET Goals: xp_operation_id has a receipt
          xp,       \* [Goals -> Nat]: how often the award of a task is in the counter
          drawn,    \* number of starts drawn
          pc, at,   \* [Tasks -> Locations], [Tasks -> goal, start or None]: what a request works on
          seen,     \* [Tasks -> rows]: what its plain reads see under RepeatableRead
          age       \* ticks the running call to the sandbox has taken

learnerVars == <<task, sub, lease, room, receipts, xp>>
requestVars == <<pc, at, seen, age>>
engineVars == <<erased, active, learnerVars, drawn, requestVars>>

Starts == 1 .. MaxStarts
TaskStates == [rev : Revisions, band : 1 .. Bands, fails : Nat, passes : Nat,
               start : Starts \cup {None}, passed : BOOLEAN, xpApplied : BOOLEAN]
Submissions == [goal : Goals, rev : Revisions, plan : Plans, state : {"accepted", "booked"}]
Rooms == [plans : [Goals -> Plans \cup {None}], completed : BOOLEAN]
Locations == {"idle", "start", "submit", "queued", "running", "book"}

ASSUME NoneIsNoRow == None \notin TaskStates \cup Submissions \cup Rooms

\* Evaluation is deterministic: a plan passes or it does not.
Passes(s) == sub[s].plan \in GoodPlans
Accepted(rows, s) == rows.sub[s] # None /\ rows.sub[s].state = "accepted"
Pending(rows, g) == \E s \in Starts : Accepted(rows, s) /\ rows.sub[s].goal = g
PassedGoals(rows) == {g \in Goals : rows.task[g] # None /\ rows.task[g].passed}

Rows == [active |-> active, task |-> task, sub |-> sub, room |-> room]
View(t) == IF RepeatableRead THEN seen[t] ELSE Rows
Running == {t \in Tasks : pc[t] = "running"}

\* counted: a verdict moves the counters of its kind, at the threshold the band too.
Counted(state, rev, passed) ==
    LET fails == IF passed THEN 0 ELSE state.fails + 1
        passes == IF passed THEN state.passes + 1 ELSE 0
    IN CASE passed /\ passes >= RaiseAfter[rev] ->
              [state EXCEPT !.band = Min({Bands, @ + 1}), !.fails = 0, !.passes = 0]
         [] ~passed /\ fails >= LowerAfter[rev] ->
              [state EXCEPT !.band = Max({1, @ - 1}), !.fails = 0, !.passes = 0]
         [] OTHER -> [state EXCEPT !.fails = fails, !.passes = passes]

Init == /\ erased = FALSE
        /\ active = None
        /\ task = [g \in Goals |-> None]
        /\ sub = [s \in Starts |-> None]
        /\ lease = [s \in Starts |-> 0]
        /\ room = None
        /\ receipts = {}
        /\ xp = [g \in Goals |-> 0]
        /\ drawn = 0
        /\ pc = [t \in Tasks |-> "idle"]
        /\ at = [t \in Tasks |-> None]
        /\ seen = [t \in Tasks |-> None]
        /\ age = 0

\* The first read of a request that works on x.
Begin(t, location, x) == /\ pc' = [pc EXCEPT ![t] = location]
                         /\ at' = [at EXCEPT ![t] = x]
                         /\ seen' = [seen EXCEPT ![t] = IF RepeatableRead THEN Rows ELSE None]
Done(t) == /\ pc' = [pc EXCEPT ![t] = "idle"]
           /\ at' = [at EXCEPT ![t] = None]
           /\ seen' = [seen EXCEPT ![t] = None]
-----------------------------------------------------------------------------
NewTask(rev) == [rev |-> rev, band |-> InitialBand, fails |-> 0, passes |-> 0,
                 start |-> None, passed |-> FALSE, xpApplied |-> FALSE]

\* A booking of s: whether its verdict counts, pays and completes the room.
Booking(t, counts, pays, completes) ==
    LET s == at[t]
        g == sub[s].goal
        judged == [Counted(task[g], sub[s].rev, Passes(s)) EXCEPT !.start = IF @ = s THEN None ELSE @,
                                                                  !.passed = @ \/ Passes(s),
                                                                  !.xpApplied = @ \/ Passes(s)]
    IN /\ pc[t] = "book"
       /\ ~erased
       /\ sub[s] # None
       /\ receipts' = IF Passes(s) THEN receipts \cup {g} ELSE receipts
       /\ xp' = IF pays THEN [xp EXCEPT ![g] = @ + 1] ELSE xp
       /\ IF counts
          THEN /\ task' = [task EXCEPT ![g] = judged]
               /\ sub' = [sub EXCEPT ![s].state = "booked"]
               /\ lease' = [lease EXCEPT ![s] = 0]
               /\ room' = IF completes /\ room # None THEN [room EXCEPT !.completed = TRUE] ELSE room
          ELSE UNCHANGED <<task, sub, lease, room>>
       /\ Done(t)
       /\ UNCHANGED <<erased, active, drawn, age>>

(* Faulty variants of the steps below: what TLC must reject. *)

\* A newer revision draws a start although a submission is pending.
StartWhilePending(t) ==
    LET g == at[t]
        rev == View(t).active
        state == IF task[g] = None THEN NewTask(rev) ELSE [task[g] EXCEPT !.rev = rev]
    IN /\ pc[t] = "start"
       /\ ~erased
       /\ IF task[g] = None \/ task[g].start = None \/ task[g].rev # rev
          THEN /\ drawn < MaxStarts
               /\ drawn' = drawn + 1
               /\ task' = [task EXCEPT ![g] = [state EXCEPT !.start = drawn + 1]]
          ELSE UNCHANGED <<task, drawn>>
       /\ Done(t)
       /\ UNCHANGED <<erased, active, sub, lease, room, receipts, xp, age>>

\* A second evaluation of the same submission counts again.
BookEveryEvaluation(t) == Booking(t, TRUE, Passes(at[t]) /\ sub[at[t]].goal \notin receipts, FALSE)
\* Any pass completes the unit.
BookCompletesAtOnce(t) == Booking(t, Accepted(Rows, at[t]), Passes(at[t]) /\ sub[at[t]].goal \notin receipts,
                                 Passes(at[t]))
\* A lease once taken is never due again.
TickKeepsLeases == /\ Running # {} /\ age < RunTicks
                   /\ age' = age + 1
                   /\ UNCHANGED <<erased, active, learnerVars, drawn, pc, at, seen>>
-----------------------------------------------------------------------------
\* publish: any revision, also an earlier one again, becomes the active one.
Publish(r) == /\ active # r
              /\ active' = r
              /\ UNCHANGED <<erased, learnerVars, drawn, requestVars>>

\* mutate_room saves the room's plan of a task; a room can be saved after its completion too.  It
\* writes the whole row as it has read it.  A booking leaves the revision alone, so under
\* RepeatableRead a save that began before the booking takes the completion back.
Save(g, plan) == /\ active # None
                 /\ ~erased
                 /\ \/ /\ room = None
                       /\ room' = [plans |-> [h \in Goals |-> IF h = g THEN plan ELSE None], completed |-> FALSE]
                    \/ /\ room # None
                       /\ \E completed \in {room.completed} \cup (IF RepeatableRead THEN {FALSE} ELSE {}) :
                             room' = [room EXCEPT !.plans[g] = plan, !.completed = completed]
                 /\ UNCHANGED <<erased, active, task, sub, lease, receipts, xp, drawn, requestVars>>
-----------------------------------------------------------------------------
BeginStart(t, g) == /\ pc[t] = "idle"
                    /\ active # None
                    /\ ~erased
                    /\ Begin(t, "start", g)
                    /\ UNCHANGED <<erased, active, learnerVars, drawn, age>>

\* start draws a start for a task without one, or on a newer revision, unless a submission is
\* pending.  It answers the start it has otherwise; replay is a request it has seen before.
Start(t) ==
    LET g == at[t]
        rev == View(t).active
        pending == Pending(View(t), g)
        newer(state, replay) == ~replay /\ ~pending /\ state.rev # rev
        draw(state) == /\ drawn < MaxStarts
                       /\ drawn' = drawn + 1
                       /\ task' = [task EXCEPT ![g] = [state EXCEPT !.start = drawn + 1]]
    IN /\ pc[t] = "start"
       /\ ~erased
       /\ \/ task[g] = None /\ draw(NewTask(rev))
          \/ /\ task[g] # None
             /\ \E replay \in BOOLEAN :
                   /\ replay => task[g].start # None
                   /\ \/ newer(task[g], replay) /\ draw([task[g] EXCEPT !.rev = rev])
                      \/ /\ ~newer(task[g], replay)
                         /\ task[g].start = None
                         /\ ~(pending /\ task[g].rev # rev)
                         /\ draw(task[g])
                      \/ /\ ~newer(task[g], replay)
                         /\ task[g].start # None \/ (pending /\ task[g].rev # rev)
                         /\ UNCHANGED <<task, drawn>>
       /\ Done(t)
       /\ UNCHANGED <<erased, active, sub, lease, room, receipts, xp, age>>
-----------------------------------------------------------------------------
BeginSubmit(t, g) == /\ pc[t] = "idle"
                     /\ active # None
                     /\ ~erased
                     /\ Begin(t, "submit", g)
                     /\ UNCHANGED <<erased, active, learnerVars, drawn, age>>

\* A new submission: the saved plan for the current start, which carries none yet.
Submittable(t, g) == /\ ~erased
                     /\ task[g] # None
                     /\ task[g].start # None
                     /\ View(t).sub[task[g].start] = None
                     /\ View(t).room # None
                     /\ View(t).room.plans[g] # None
\* The unique keys of EngineSubmission: one plan for a start, one open submission of a task.
Unique(g, s) == sub[s] = None /\ ~Pending(Rows, g)

\* The acceptance and the lease of its evaluation commit together.
Submit(t) == LET g == at[t]  s == task[g].start IN
             /\ pc[t] = "submit"
             /\ Submittable(t, g)
             /\ Unique(g, s)
             /\ sub' = [sub EXCEPT ![s] = [goal |-> g, rev |-> task[g].rev, plan |-> View(t).room.plans[g],
                                           state |-> "accepted"]]
             /\ lease' = [lease EXCEPT ![s] = LeaseTicks]
             /\ pc' = [pc EXCEPT ![t] = "queued"]
             /\ at' = [at EXCEPT ![t] = s]
             /\ seen' = [seen EXCEPT ![t] = None]
             /\ UNCHANGED <<erased, active, task, room, receipts, xp, drawn, age>>

\* The same submission again, a used start, another plan, or a lost race for a unique key.
RefuseToSubmit(t) == /\ pc[t] = "submit"
                     /\ Submittable(t, at[t]) => ~Unique(at[t], task[at[t]].start)
                     /\ Done(t)
                     /\ UNCHANGED <<erased, active, learnerVars, drawn, age>>

\* status: reading a submission that is due takes its lease.
Read(t, s) == /\ pc[t] = "idle"
              /\ Accepted(Rows, s)
              /\ lease[s] = 0
              /\ lease' = [lease EXCEPT ![s] = LeaseTicks]
              /\ pc' = [pc EXCEPT ![t] = "queued"]
              /\ at' = [at EXCEPT ![t] = s]
              /\ UNCHANGED <<erased, active, task, sub, room, receipts, xp, drawn, seen, age>>
-----------------------------------------------------------------------------
\* evaluate: one call at a time passes the gate.
Run(t) == /\ pc[t] = "queued"
          /\ Running = {}
          /\ pc' = [pc EXCEPT ![t] = "running"]
          /\ age' = 0
          /\ UNCHANGED <<erased, active, learnerVars, drawn, at, seen>>

\* The sandbox has a result; book reads the submission.
BeginBooking(t) == /\ pc[t] = "running"
                   /\ IF Accepted(Rows, at[t]) THEN Begin(t, "book", at[t]) ELSE Done(t)
                   /\ age' = 0
                   /\ UNCHANGED <<erased, active, learnerVars, drawn>>

\* book: XP under their operation, the verdict under the guard, and the room with the last
\* required pass.  A submission booked meanwhile is only read.
Book(t) == LET s == at[t]  g == sub[s].goal IN
           Booking(t, Accepted(Rows, s),
                   Passes(s) /\ g \notin receipts,
                   Passes(s) /\ Required \subseteq PassedGoals(View(t)) \cup {g})

\* The account was erased: the request fails with 401 and books nothing.
FindErased(t) == /\ pc[t] \in {"start", "book"}
                 /\ erased
                 /\ Done(t)
                 /\ UNCHANGED <<erased, active, learnerVars, drawn, age>>

\* No result, an error of the database, a cancelled request or a crash: the submission stays
\* accepted and its lease runs out.
Fail(t) == /\ pc[t] # "idle"
           /\ Done(t)
           /\ age' = IF pc[t] = "running" THEN 0 ELSE age
           /\ UNCHANGED <<erased, active, learnerVars, drawn>>
-----------------------------------------------------------------------------
Tick == /\ Running # {} => age < RunTicks
        /\ Running # {} \/ \E s \in Starts : lease[s] > 0
        /\ age' = IF Running # {} THEN age + 1 ELSE age
        /\ lease' = [s \in Starts |-> IF lease[s] > 0 THEN lease[s] - 1 ELSE 0]
        /\ UNCHANGED <<erased, active, task, sub, room, receipts, xp, drawn, pc, at, seen>>

\* delete_user_data: submissions, task states, the room, XP and receipts go in one commit.
Erase == /\ ~erased
         /\ erased' = TRUE
         /\ task' = [g \in Goals |-> None]
         /\ sub' = [s \in Starts |-> None]
         /\ lease' = [s \in Starts |-> 0]
         /\ room' = None
         /\ receipts' = {}
         /\ xp' = [g \in Goals |-> 0]
         /\ UNCHANGED <<active, drawn, requestVars>>

Request(t) == \/ \E g \in Goals : BeginStart(t, g) \/ BeginSubmit(t, g)
              \/ Start(t) \/ Submit(t) \/ RefuseToSubmit(t) \/ FindErased(t)
              \/ \E s \in Starts : Read(t, s)
Evaluation(t) == Run(t) \/ BeginBooking(t) \/ Book(t)

Next == \/ \E r \in Revisions : Publish(r)
        \/ \E g \in Goals, plan \in Plans : Save(g, plan)
        \/ \E t \in Tasks : Request(t) \/ Evaluation(t) \/ Fail(t)
        \/ Tick
        \/ Erase

Spec == Init /\ [][Next]_engineVars

\* The learner reads pending submissions again, and the sandbox and the database do not fail
\* for ever.  No loop in the service evaluates what nobody reads.
Fairness == /\ WF_engineVars(Tick)
            /\ \A s \in Starts :
                  /\ SF_engineVars(\E t \in Tasks : Read(t, s))
                  /\ SF_engineVars(\E t \in Tasks : at[t] = s /\ Run(t))
                  /\ SF_engineVars(\E t \in Tasks : at[t] = s /\ BeginBooking(t))
                  /\ SF_engineVars(\E t \in Tasks : at[t] = s /\ Book(t))
            /\ \A t \in Tasks : WF_engineVars(Start(t) \/ Submit(t) \/ RefuseToSubmit(t) \/ FindErased(t))

FairSpec == Spec /\ Fairness
-----------------------------------------------------------------------------
TypeOK == /\ erased \in BOOLEAN
          /\ active \in Revisions \cup {None}
          /\ task \in [Goals -> TaskStates \cup {None}]
          /\ sub \in [Starts -> Submissions \cup {None}]
          /\ lease \in [Starts -> 0 .. LeaseTicks]
          /\ room \in Rooms \cup {None}
          /\ receipts \subseteq Goals
          /\ xp \in [Goals -> Nat]
          /\ drawn \in 0 .. MaxStarts
          /\ pc \in [Tasks -> Locations]
          /\ at \in [Tasks -> Goals \cup Starts \cup {None}]
          /\ age \in 0 .. RunTicks

\* A pending submission keeps its start: neither a start on a newer revision nor a lost request
\* draws another one before the verdict, so a task has at most one open submission.
PendingKeepsItsStart ==
    \A s \in Starts : Accepted(Rows, s) => task[sub[s].goal] # None /\ task[sub[s].goal].start = s

\* Band and counters of a task are those of its booked verdicts, each counted once, in the
\* order of their starts, however often a submission was evaluated.
Booked(rows, g, s) == rows[s] # None /\ rows[s].goal = g /\ rows[s].state = "booked"
Counts(rows, g) ==
    LET upTo[s \in 0 .. MaxStarts] ==
            IF s = 0 THEN [band |-> InitialBand, fails |-> 0, passes |-> 0]
            ELSE IF Booked(rows, g, s) THEN Counted(upTo[s - 1], rows[s].rev, rows[s].plan \in GoodPlans)
            ELSE upTo[s - 1]
    IN upTo
VerdictsCountOnce ==
    \A g \in Goals : task[g] # None =>
        Counts(sub, g)[MaxStarts] = [band |-> task[g].band, fails |-> task[g].fails, passes |-> task[g].passes]

\* A task's award is booked exactly once, with its first passed submission.
PassIsPaidOnce ==
    \A g \in Goals :
        LET passed == \E s \in Starts : sub[s] # None /\ sub[s].goal = g /\ sub[s].state = "booked" /\ Passes(s)
        IN /\ xp[g] = IF passed THEN 1 ELSE 0
           /\ task[g] # None => task[g].passed = passed /\ task[g].xpApplied = passed

\* The unit is completed once every required task has a booked pass, and not before.
LastPassCompletes == room # None => (room.completed <=> Required \subseteq PassedGoals(Rows))

\* Nothing that was on its way when the account was erased brings a row back.
ErasureIsFinal == erased => /\ room = None /\ receipts = {}
                            /\ \A g \in Goals : task[g] = None /\ xp[g] = 0
                            /\ \A s \in Starts : sub[s] = None

\* Whatever fails, repeats or is erased meanwhile: rows keep their shape, a submission keeps its
\* start until its verdict, a pass is paid once, however many evaluations bring it, and an erased
\* account stays empty.
SubmissionsAreSound == TypeOK /\ PendingKeepsItsStart /\ PassIsPaidOnce /\ ErasureIsFinal

\* Whatever fails on the way, an accepted submission gets its verdict or goes with the account.
SubmissionsAreJudged == \A s \in Starts : Accepted(Rows, s) ~> ~Accepted(Rows, s)
=============================================================================
