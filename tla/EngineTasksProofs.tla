------------------------- MODULE EngineTasksProofs -------------------------
(***************************************************************************)
(* Proofs about EngineTasks for any units, revisions, plans and requests.  *)
(* Under either isolation level: type correctness, a pass is paid once, a  *)
(* verdict counts once, and an erased account stays empty.  Under READ     *)
(* COMMITTED also: a pending submission keeps its start, and the unit is   *)
(* completed with its last required pass.                                  *)
(***************************************************************************)
EXTENDS EngineTasks, FiniteSetTheorems, WellFoundedInduction, TLAPS

\* A request works on a task until it submits, then on the submission of a start.
AtInv == /\ DOMAIN seen = Tasks
         /\ \A t \in Tasks : /\ pc[t] \in {"start", "submit"} => at[t] \in Goals
                             /\ pc[t] \in {"queued", "running", "book"} => at[t] \in Starts

\* What a start or a submission has read are rows of a published unit.  A room that it has seen
\* is still there unless the account was erased.
RowsSeen == [active : Revisions, task : [Goals -> TaskStates \cup {None}],
             sub : [Starts -> Submissions \cup {None}], room : Rooms \cup {None}]
SeenInv == \A t \in Tasks : pc[t] \in {"start", "submit"} =>
              View(t) \in RowsSeen /\ (View(t).room # None /\ ~erased => room # None)

\* The submission of a start has a task and a room.
SubInv == \A s \in Starts : sub[s] # None => task[sub[s].goal] # None /\ room # None

\* The award of a task has a receipt once a passed submission of it is booked.
PassBooked(g) == \E s \in Starts : sub[s] # None /\ sub[s].goal = g /\ sub[s].state = "booked" /\ Passes(s)
ReceiptInv == \A g \in Goals : g \in receipts <=> PassBooked(g)

\* PassIsPaidOnce in these words.
PaidInv == \A g \in Goals : /\ xp[g] = (IF PassBooked(g) THEN 1 ELSE 0)
                            /\ task[g] # None => /\ task[g].passed <=> PassBooked(g)
                                                 /\ task[g].xpApplied <=> PassBooked(g)

IInv == TypeOK /\ AtInv /\ SeenInv /\ SubInv /\ ReceiptInv /\ PaidInv /\ ErasureIsFinal

\* What READ COMMITTED adds.
CurrentInv == PendingKeepsItsStart /\ LastPassCompletes
-----------------------------------------------------------------------------
\* The inductive invariants hold before any request.
LEMMA InitInv == Init => IInv /\ CurrentInv
<1> SUFFICES ASSUME Init
             PROVE  IInv /\ CurrentInv
    OBVIOUS
<1> USE EngineConstantsOK DEF Init
<1>1. TypeOK
    <2>1. lease \in [Starts -> 0 .. LeaseTicks] /\ drawn \in 0 .. MaxStarts /\ age \in 0 .. RunTicks
        BY SMT
    <2> QED
        BY <2>1 DEF TypeOK, Locations
<1>2. AtInv /\ SeenInv /\ SubInv /\ ErasureIsFinal
    BY DEF AtInv, SeenInv, SubInv, ErasureIsFinal
<1>3. ReceiptInv /\ PaidInv
    BY DEF ReceiptInv, PassBooked, PaidInv
<1>4. CurrentInv
    BY DEF CurrentInv, PendingKeepsItsStart, Accepted, Rows, LastPassCompletes
<1> QED
    BY <1>1, <1>2, <1>3, <1>4 DEF IInv

\* The smaller and the larger of two numbers.
LEMMA TwoNumbers ==
    ASSUME NEW a \in Int, NEW b \in Int
    PROVE  Min({a, b}) = (IF a <= b THEN a ELSE b) /\ Max({a, b}) = (IF a >= b THEN a ELSE b)
BY DEF Min, Max

\* A verdict moves band and counters of a task within their bounds and nothing else of it.
LEMMA CountedTyped ==
    ASSUME NEW state \in TaskStates, NEW rev \in Revisions, NEW passed \in BOOLEAN
    PROVE  LET c == Counted(state, rev, passed)
           IN  /\ c \in TaskStates
               /\ c.start = state.start /\ c.passed = state.passed /\ c.xpApplied = state.xpApplied
<1>1. /\ Min({Bands, state.band + 1}) \in 1 .. Bands
      /\ Max({1, state.band - 1}) \in 1 .. Bands
    <2> DEFINE up == state.band + 1  down == state.band - 1
    <2>1. Bands \in Nat \ {0} /\ up \in Int /\ down \in Int /\ up >= 1 /\ down <= Bands
        BY EngineConstantsOK DEF TaskStates
    <2> HIDE DEF up, down
    <2>2. Min({Bands, up}) = (IF Bands <= up THEN Bands ELSE up) /\ Max({1, down}) = (IF 1 >= down THEN 1 ELSE down)
        <3>1. Bands \in Int /\ 1 \in Int /\ up \in Int /\ down \in Int
            BY <2>1
        <3>2. Min({Bands, up}) = (IF Bands <= up THEN Bands ELSE up)
            BY <3>1, TwoNumbers, Zenon
        <3>3. Max({1, down}) = (IF 1 >= down THEN 1 ELSE down)
            BY <3>1, TwoNumbers, Zenon
        <3> QED
            BY <3>2, <3>3
    <2>3. Min({Bands, up}) \in 1 .. Bands /\ Max({1, down}) \in 1 .. Bands
        BY <2>1, <2>2
    <2> QED
        BY <2>3 DEF up, down
<1> DEFINE fails == IF passed THEN 0 ELSE state.fails + 1
           passes == IF passed THEN state.passes + 1 ELSE 0
<1>2. fails \in Nat /\ passes \in Nat
    BY DEF TaskStates
<1> HIDE DEF fails, passes
<1>3. \A band \in 1 .. Bands :
         LET c == [state EXCEPT !.band = band, !.fails = 0, !.passes = 0]
         IN  /\ c \in TaskStates
             /\ c.start = state.start /\ c.passed = state.passed /\ c.xpApplied = state.xpApplied
    BY DEF TaskStates
<1>4. LET c == [state EXCEPT !.fails = fails, !.passes = passes]
      IN  /\ c \in TaskStates
          /\ c.start = state.start /\ c.passed = state.passed /\ c.xpApplied = state.xpApplied
    BY <1>2 DEF TaskStates
<1>5. \/ Counted(state, rev, passed) = [state EXCEPT !.band = Min({Bands, state.band + 1}), !.fails = 0, !.passes = 0]
      \/ Counted(state, rev, passed) = [state EXCEPT !.band = Max({1, state.band - 1}), !.fails = 0, !.passes = 0]
      \/ Counted(state, rev, passed) = [state EXCEPT !.fails = fails, !.passes = passes]
    BY DEF Counted, fails, passes
<1> QED
    BY <1>1, <1>3, <1>4, <1>5

\* A start leaves the tasks alone or draws a new start for its own task: for a new task, for one
\* without a start, or for one without a pending submission.
LEMMA StartEffect ==
    ASSUME IInv, NEW t \in Tasks, Start(t)
    PROVE  /\ at[t] \in Goals /\ ~erased
           /\ UNCHANGED <<erased, active, sub, lease, room, receipts, xp, age>>
           /\ \/ UNCHANGED <<task, drawn>>
              \/ \E new \in TaskStates :
                    /\ task' = [task EXCEPT ![at[t]] = new]
                    /\ drawn < MaxStarts /\ drawn' = drawn + 1
                    /\ task[at[t]] = None => ~new.passed /\ ~new.xpApplied
                    /\ task[at[t]] # None => /\ new.passed = task[at[t]].passed
                                             /\ new.xpApplied = task[at[t]].xpApplied
                                             /\ ~Pending(View(t), at[t]) \/ task[at[t]].start = None
<1> DEFINE g == at[t]
           rev == View(t).active
<1>1. /\ g \in Goals /\ rev \in Revisions /\ drawn \in 0 .. MaxStarts
      /\ task[g] # None => task[g] \in TaskStates
    BY DEF IInv, TypeOK, AtInv, SeenInv, RowsSeen, Start
<1>2. ~erased /\ UNCHANGED <<erased, active, sub, lease, room, receipts, xp, age>>
    BY DEF Start
<1>3. ASSUME NEW state \in TaskStates, drawn < MaxStarts
      PROVE  LET new == [state EXCEPT !.start = drawn + 1]
             IN  new \in TaskStates /\ new.passed = state.passed /\ new.xpApplied = state.xpApplied
    <2>1. drawn + 1 \in Starts
        BY <1>1, <1>3, EngineConstantsOK DEF Starts
    <2> QED
        BY <1>3, <2>1 DEF TaskStates
<1>4. NewTask(rev) \in TaskStates /\ ~NewTask(rev).passed /\ ~NewTask(rev).xpApplied
    BY <1>1, EngineConstantsOK DEF NewTask, TaskStates
<1>5. ASSUME task[g] # None
      PROVE  LET new == [task[g] EXCEPT !.rev = rev]
             IN  new \in TaskStates /\ new.passed = task[g].passed /\ new.xpApplied = task[g].xpApplied
    BY <1>1, <1>5 DEF TaskStates
<1>6. \/ UNCHANGED <<task, drawn>>
      \/ /\ task[g] = None /\ drawn < MaxStarts /\ drawn' = drawn + 1
         /\ task' = [task EXCEPT ![g] = [NewTask(rev) EXCEPT !.start = drawn + 1]]
      \/ /\ task[g] # None /\ drawn < MaxStarts /\ drawn' = drawn + 1
         /\ ~Pending(View(t), g)
         /\ task' = [task EXCEPT ![g] = [[task[g] EXCEPT !.rev = rev] EXCEPT !.start = drawn + 1]]
      \/ /\ task[g] # None /\ drawn < MaxStarts /\ drawn' = drawn + 1
         /\ task[g].start = None
         /\ task' = [task EXCEPT ![g] = [task[g] EXCEPT !.start = drawn + 1]]
    BY DEF Start
<1> HIDE DEF g, rev
<1>7. CASE UNCHANGED <<task, drawn>>
    BY <1>1, <1>2, <1>7 DEF g
<1>8. CASE /\ task[g] = None /\ drawn < MaxStarts /\ drawn' = drawn + 1
           /\ task' = [task EXCEPT ![g] = [NewTask(rev) EXCEPT !.start = drawn + 1]]
    BY <1>1, <1>2, <1>3, <1>4, <1>8 DEF g
<1>9. CASE /\ task[g] # None /\ drawn < MaxStarts /\ drawn' = drawn + 1
           /\ ~Pending(View(t), g)
           /\ task' = [task EXCEPT ![g] = [[task[g] EXCEPT !.rev = rev] EXCEPT !.start = drawn + 1]]
    <2> DEFINE state == [task[g] EXCEPT !.rev = rev]
    <2>1. state \in TaskStates /\ state.passed = task[g].passed /\ state.xpApplied = task[g].xpApplied
        BY <1>5, <1>9
    <2>2. task' = [task EXCEPT ![g] = [state EXCEPT !.start = drawn + 1]]
        BY <1>9
    <2> HIDE DEF state
    <2> DEFINE new == [state EXCEPT !.start = drawn + 1]
    <2>3. new \in TaskStates /\ new.passed = task[g].passed /\ new.xpApplied = task[g].xpApplied
        BY <1>3, <1>9, <2>1
    <2>4. task' = [task EXCEPT ![g] = new]
        BY <2>2
    <2> HIDE DEF new
    <2> QED
        BY <1>1, <1>2, <1>9, <2>3, <2>4 DEF g
<1>10. CASE /\ task[g] # None /\ drawn < MaxStarts /\ drawn' = drawn + 1
            /\ task[g].start = None
            /\ task' = [task EXCEPT ![g] = [task[g] EXCEPT !.start = drawn + 1]]
    BY <1>1, <1>2, <1>3, <1>10 DEF g
<1> QED
    BY <1>6, <1>7, <1>8, <1>9, <1>10

\* What a booking does: the receipt and the XP of a first pass, and the verdict if the submission
\* still waits for one.
Judgement(t, s, g, new) ==
    /\ task' = [task EXCEPT ![g] = new]
    /\ new.start = (IF task[g].start = s THEN None ELSE task[g].start)
    /\ new.passed = (task[g].passed \/ Passes(s))
    /\ new.xpApplied = (task[g].xpApplied \/ Passes(s))
    /\ sub' = [sub EXCEPT ![s].state = "booked"]
    /\ lease' = [lease EXCEPT ![s] = 0]
    /\ room' = IF Passes(s) /\ Required \subseteq PassedGoals(View(t)) \cup {g}
               THEN [room EXCEPT !.completed = TRUE] ELSE room

\* What the booking of a verdict does, taken apart.
LEMMA BookEffect ==
    ASSUME IInv, NEW t \in Tasks, Book(t), NEW s, s = at[t], NEW g, g = sub[s].goal
    PROVE  /\ s \in Starts /\ sub[s] \in Submissions /\ g \in Goals /\ ~erased
           /\ task[g] \in TaskStates /\ room \in Rooms
           /\ UNCHANGED <<erased, active, drawn, age>>
           /\ receipts' = IF Passes(s) THEN receipts \cup {g} ELSE receipts
           /\ xp' = IF Passes(s) /\ g \notin receipts THEN [xp EXCEPT ![g] = @ + 1] ELSE xp
           /\ \/ ~Accepted(Rows, s) /\ UNCHANGED <<task, sub, lease, room>>
              \/ Accepted(Rows, s) /\ \E new \in TaskStates : Judgement(t, s, g, new)
<1>1. s \in Starts /\ sub[s] # None /\ sub[s] \in Submissions
    BY DEF IInv, TypeOK, AtInv, Book, Booking
<1>2. g \in Goals /\ sub[s].rev \in Revisions
    BY <1>1 DEF Submissions
<1>3. task[g] \in TaskStates /\ room \in Rooms /\ room # None
    BY <1>1, <1>2 DEF IInv, TypeOK, SubInv
<1> DEFINE c == Counted(task[g], sub[s].rev, Passes(s))
           new == [c EXCEPT !.start = IF @ = s THEN None ELSE @,
                            !.passed = @ \/ Passes(s),
                            !.xpApplied = @ \/ Passes(s)]
<1>4. Passes(s) \in BOOLEAN
    BY DEF Passes
<1>5. /\ c \in TaskStates
      /\ c.start = task[g].start /\ c.passed = task[g].passed /\ c.xpApplied = task[g].xpApplied
    BY <1>2, <1>3, <1>4, CountedTyped
<1>6. /\ ~erased /\ UNCHANGED <<erased, active, drawn, age>>
      /\ receipts' = IF Passes(s) THEN receipts \cup {g} ELSE receipts
      /\ xp' = IF Passes(s) /\ g \notin receipts THEN [xp EXCEPT ![g] = @ + 1] ELSE xp
    BY DEF Book, Booking
<1>7. ASSUME ~Accepted(Rows, s)
      PROVE  UNCHANGED <<task, sub, lease, room>>
    BY <1>7 DEF Book, Booking
<1>8. ASSUME Accepted(Rows, s)
      PROVE  /\ task' = [task EXCEPT ![g] = new]
             /\ sub' = [sub EXCEPT ![s].state = "booked"]
             /\ lease' = [lease EXCEPT ![s] = 0]
             /\ room' = IF Passes(s) /\ Required \subseteq PassedGoals(View(t)) \cup {g}
                        THEN [room EXCEPT !.completed = TRUE] ELSE room
    BY <1>3, <1>8 DEF Book, Booking
<1> HIDE DEF c
<1>9. /\ new \in TaskStates
      /\ new.start = (IF task[g].start = s THEN None ELSE task[g].start)
      /\ new.passed = (task[g].passed \/ Passes(s))
      /\ new.xpApplied = (task[g].xpApplied \/ Passes(s))
    BY <1>4, <1>5 DEF TaskStates
<1> HIDE DEF new
<1>10. Accepted(Rows, s) => Judgement(t, s, g, new)
    BY <1>8, <1>9 DEF Judgement
<1> QED
    BY <1>1, <1>2, <1>3, <1>6, <1>7, <1>9, <1>10

\* What a save writes is a room, with or without the completion of the one it replaces.
LEMMA SaveOK ==
    ASSUME TypeOK,
           NEW g \in Goals, NEW plan \in Plans, Save(g, plan)
    PROVE  room' \in Rooms
<1>1. CASE room = None
    <2> DEFINE plans == [h \in Goals |-> IF h = g THEN plan ELSE None]
    <2>1. room' = [plans |-> plans, completed |-> FALSE]
        BY <1>1 DEF Save
    <2>2. plans \in [Goals -> Plans \cup {None}]
        OBVIOUS
    <2> QED
        BY <2>1, <2>2 DEF Rooms
<1>2. CASE room # None
    <2>1. room \in Rooms
        BY <1>2 DEF TypeOK
    <2>2. PICK completed \in {room.completed} \cup (IF RepeatableRead THEN {FALSE} ELSE {}) :
             room' = [room EXCEPT !.plans[g] = plan, !.completed = completed]
        BY <1>2 DEF Save
    <2>3. completed \in BOOLEAN
        BY <2>1, <2>2 DEF Rooms
    <2>4. [room.plans EXCEPT ![g] = plan] \in [Goals -> Plans \cup {None}]
        BY <2>1 DEF Rooms
    <2> QED
        BY <2>1, <2>2, <2>3, <2>4 DEF Rooms
<1> QED
    BY <1>1, <1>2

\* Every step keeps the types, and where requests are.
LEMMA TypeStep == IInv /\ [Next]_engineVars => TypeOK' /\ AtInv'
<1> SUFFICES ASSUME IInv, [Next]_engineVars
             PROVE  TypeOK' /\ AtInv'
    OBVIOUS
<1>0. TypeOK /\ AtInv
    BY DEF IInv
<1>a. LeaseTicks \in Nat \ {0} /\ RunTicks \in Nat /\ MaxStarts \in Nat
    BY EngineConstantsOK
<1>b. LeaseTicks \in 0 .. LeaseTicks /\ 0 \in 0 .. LeaseTicks /\ 0 \in 0 .. RunTicks
    BY <1>a
<1> USE <1>0 DEF TypeOK, AtInv, learnerVars, requestVars
<1>1. ASSUME NEW r \in Revisions, Publish(r)
      PROVE  TypeOK' /\ AtInv'
    BY <1>1 DEF Publish
<1>2. ASSUME NEW g \in Goals, NEW plan \in Plans, Save(g, plan)
      PROVE  TypeOK' /\ AtInv'
    <2>1. room' \in Rooms
        BY <1>2, SaveOK
    <2> QED
        BY <1>2, <2>1 DEF Save
<1>3. ASSUME NEW t \in Tasks, NEW g \in Goals, BeginStart(t, g) \/ BeginSubmit(t, g)
      PROVE  TypeOK' /\ AtInv'
    BY <1>3 DEF BeginStart, BeginSubmit, Begin, Locations
<1>4. ASSUME NEW t \in Tasks, Done(t)
      PROVE  /\ pc' \in [Tasks -> Locations] /\ at' \in [Tasks -> Goals \cup Starts \cup {None}]
             /\ AtInv'
    BY <1>4 DEF Done, Locations
<1>5. ASSUME NEW t \in Tasks, Start(t)
      PROVE  TypeOK' /\ AtInv'
    <2>1. Done(t)
        BY <1>5 DEF Start
    <2>2. CASE UNCHANGED <<task, drawn>>
        BY <1>4, <1>5, <2>1, <2>2, StartEffect
    <2>3. CASE ~UNCHANGED <<task, drawn>>
        <3>1. PICK new \in TaskStates : /\ task' = [task EXCEPT ![at[t]] = new]
                                        /\ drawn < MaxStarts /\ drawn' = drawn + 1
            BY <1>5, <2>3, StartEffect
        <3>2. task' \in [Goals -> TaskStates \cup {None}]
            BY <3>1
        <3>3. drawn' \in 0 .. MaxStarts
            BY <1>a, <3>1
        <3> QED
            BY <1>4, <1>5, <2>1, <3>2, <3>3, StartEffect
    <2> QED
        BY <2>2, <2>3
<1>6. ASSUME NEW t \in Tasks, Submit(t)
      PROVE  TypeOK' /\ AtInv'
    <2> DEFINE g == at[t]
               s == task[g].start
               new == [goal |-> g, rev |-> task[g].rev, plan |-> View(t).room.plans[g], state |-> "accepted"]
    <2>1. /\ g \in Goals /\ task[g] \in TaskStates /\ s \in Starts
          /\ View(t).room \in Rooms /\ View(t).room.plans[g] \in Plans
        BY <1>6 DEF Submit, Submittable, IInv, SeenInv, RowsSeen, TaskStates, Rooms
    <2>2. new \in Submissions
        BY <2>1 DEF Submissions, TaskStates
    <2>3. sub' = [sub EXCEPT ![s] = new] /\ lease' = [lease EXCEPT ![s] = LeaseTicks]
        BY <1>6 DEF Submit
    <2>4. pc' = [pc EXCEPT ![t] = "queued"] /\ at' = [at EXCEPT ![t] = s] /\ DOMAIN seen' = Tasks
        BY <1>6 DEF Submit
    <2>5. UNCHANGED <<erased, active, task, room, receipts, xp, drawn, age>>
        BY <1>6 DEF Submit
    <2> HIDE DEF new, s, g
    <2>6. sub' \in [Starts -> Submissions \cup {None}] /\ lease' \in [Starts -> 0 .. LeaseTicks]
        BY <1>b, <2>1, <2>2, <2>3
    <2>7. /\ pc' \in [Tasks -> Locations] /\ at' \in [Tasks -> Goals \cup Starts \cup {None}]
          /\ AtInv'
        BY <2>1, <2>4 DEF Locations
    <2> QED
        BY <2>5, <2>6, <2>7
<1>7. ASSUME NEW t \in Tasks, RefuseToSubmit(t) \/ FindErased(t) \/ Fail(t)
      PROVE  TypeOK' /\ AtInv'
    <2>1. Done(t) /\ UNCHANGED <<erased, active, learnerVars, drawn>> /\ age' \in {age, 0}
        BY <1>7 DEF RefuseToSubmit, FindErased, Fail
    <2> QED
        BY <1>b, <1>4, <2>1
<1>8. ASSUME NEW t \in Tasks, NEW s \in Starts, Read(t, s)
      PROVE  TypeOK' /\ AtInv'
    BY <1>b, <1>8 DEF Read, Locations
<1>9. ASSUME NEW t \in Tasks, Run(t)
      PROVE  TypeOK' /\ AtInv'
    BY <1>b, <1>9 DEF Run, Locations
<1>10. ASSUME NEW t \in Tasks, BeginBooking(t)
      PROVE  TypeOK' /\ AtInv'
    <2>1. CASE Begin(t, "book", at[t])
        BY <1>b, <1>10, <2>1 DEF BeginBooking, Begin, Locations
    <2>2. CASE Done(t)
        BY <1>b, <1>4, <1>10, <2>2 DEF BeginBooking
    <2> QED
        BY <1>10, <2>1, <2>2 DEF BeginBooking
<1>11. ASSUME NEW t \in Tasks, Book(t)
      PROVE  TypeOK' /\ AtInv'
    <2> DEFINE s == at[t]
               g == sub[s].goal
    <2>1. Done(t)
        BY <1>11 DEF Book, Booking
    <2>2. /\ s \in Starts /\ sub[s] \in Submissions /\ g \in Goals
          /\ task[g] \in TaskStates /\ room \in Rooms
          /\ UNCHANGED <<erased, active, drawn, age>>
          /\ receipts' = IF Passes(s) THEN receipts \cup {g} ELSE receipts
          /\ xp' = IF Passes(s) /\ g \notin receipts THEN [xp EXCEPT ![g] = @ + 1] ELSE xp
          /\ \/ UNCHANGED <<task, sub, lease, room>>
             \/ \E new \in TaskStates : Judgement(t, s, g, new)
        BY <1>11, BookEffect
    <2> HIDE DEF s, g
    <2>3. receipts' \subseteq Goals /\ xp' \in [Goals -> Nat]
        BY <2>2
    <2>4. CASE UNCHANGED <<task, sub, lease, room>>
        BY <1>4, <2>1, <2>2, <2>3, <2>4
    <2>5. ASSUME NEW new \in TaskStates, Judgement(t, s, g, new)
          PROVE  TypeOK' /\ AtInv'
        <3>1. task' \in [Goals -> TaskStates \cup {None}] /\ lease' \in [Starts -> 0 .. LeaseTicks]
            BY <1>b, <2>2, <2>5 DEF Judgement
        <3>2. sub' \in [Starts -> Submissions \cup {None}]
            BY <2>2, <2>5 DEF Judgement, Submissions
        <3>3. room' \in Rooms
            BY <2>2, <2>5 DEF Judgement, Rooms
        <3> QED
            BY <1>4, <2>1, <2>2, <2>3, <3>1, <3>2, <3>3
    <2> QED
        BY <2>2, <2>4, <2>5
<1>12. CASE Tick
    <2>1. age' \in 0 .. RunTicks
        BY <1>a, <1>12 DEF Tick
    <2>2. lease' \in [Starts -> 0 .. LeaseTicks]
        BY <1>a, <1>12 DEF Tick
    <2> QED
        BY <1>12, <2>1, <2>2 DEF Tick
<1>13. CASE Erase
    BY <1>b, <1>13 DEF Erase
<1>14. CASE UNCHANGED engineVars
    BY <1>14 DEF engineVars
<1> QED
    BY <1>1, <1>2, <1>3, <1>5, <1>6, <1>7, <1>8, <1>9, <1>10, <1>11, <1>12, <1>13, <1>14
    DEF Next, Request, Evaluation

\* A step that is no first read: what starts and submissions have seen stays true.
SeenKept == /\ \A s \in Tasks : pc'[s] \in {"start", "submit"} => pc[s] = pc'[s] /\ seen'[s] = seen[s]
            /\ active # None => active' # None
            /\ ~erased' => ~erased /\ (room # None => room' # None)

\* What a transaction has seen stays true under such a step, at either isolation level.
LEMMA SeenKeptOK == ASSUME IInv, TypeOK', SeenKept
                    PROVE  SeenInv'
<1> SUFFICES ASSUME NEW s \in Tasks, pc'[s] \in {"start", "submit"}
             PROVE  View(s)' \in RowsSeen /\ (View(s)'.room # None /\ ~erased' => room' # None)
    BY DEF SeenInv
<1>1. View(s) \in RowsSeen /\ (View(s).room # None /\ ~erased => room # None)
    BY DEF SeenKept, IInv, SeenInv
<1>2. CASE RepeatableRead
    <2>1. View(s)' = View(s)
        BY <1>2 DEF View, SeenKept
    <2> QED
        BY <1>1, <2>1 DEF SeenKept
<1>3. CASE ~RepeatableRead
    <2>1. View(s) = Rows /\ View(s)' = Rows'
        BY <1>3 DEF View
    <2>2. active # None
        BY <1>1, <2>1, EngineConstantsOK DEF RowsSeen, Rows
    <2>3. active' \in Revisions
        BY <2>2 DEF SeenKept, TypeOK
    <2> QED
        BY <2>1, <2>3 DEF Rows, RowsSeen, TypeOK
<1> QED
    BY <1>2, <1>3

\* What requests have seen of a published unit and of a room stays so.
LEMMA SeenStep == IInv /\ [Next]_engineVars => SeenInv'
<1> SUFFICES ASSUME IInv, [Next]_engineVars
             PROVE  SeenInv'
    OBVIOUS
<1>0. TypeOK /\ TypeOK' /\ AtInv
    BY TypeStep DEF IInv
<1> USE DEF learnerVars, requestVars
<1>1. ASSUME NEW r \in Revisions, Publish(r)
      PROVE  SeenKept
    BY <1>1, EngineConstantsOK DEF Publish, SeenKept
<1>2. ASSUME NEW g \in Goals, NEW plan \in Plans, Save(g, plan)
      PROVE  SeenKept
    <2>1. room' \in Rooms
        BY <1>0, <1>2, SaveOK
    <2> QED
        BY <1>2, <2>1, NoneIsNoRow DEF Save, SeenKept
<1>3. ASSUME NEW t \in Tasks, NEW g \in Goals, BeginStart(t, g) \/ BeginSubmit(t, g)
      PROVE  SeenInv'
    <2>1. Rows \in RowsSeen
        BY <1>0, <1>3 DEF BeginStart, BeginSubmit, Rows, RowsSeen, TypeOK
    <2>2. Rows' = Rows /\ UNCHANGED <<active, room, erased>>
        BY <1>3 DEF BeginStart, BeginSubmit, Rows
    <2>3. ASSUME NEW s \in Tasks, pc'[s] \in {"start", "submit"}
          PROVE  View(s)' \in RowsSeen /\ (View(s)'.room # None /\ ~erased' => room' # None)
        <3>1. CASE ~RepeatableRead
            BY <2>1, <2>2, <3>1 DEF View, Rows
        <3>2. CASE RepeatableRead /\ s = t
            <4>1. View(s)' = Rows
                BY <1>0, <1>3, <3>2 DEF BeginStart, BeginSubmit, Begin, View, AtInv
            <4> QED
                BY <2>1, <2>2, <4>1 DEF Rows
        <3>3. CASE RepeatableRead /\ s # t
            <4>1. pc'[s] = pc[s] /\ View(s)' = View(s)
                BY <1>0, <1>3, <2>3, <3>3 DEF BeginStart, BeginSubmit, Begin, View, AtInv, TypeOK
            <4> QED
                BY <2>2, <2>3, <4>1 DEF IInv, SeenInv
        <3> QED
            BY <3>1, <3>2, <3>3 DEF BeginStart, BeginSubmit, Begin
    <2> QED
        BY <2>3 DEF SeenInv
<1>4. ASSUME NEW t \in Tasks, Done(t), UNCHANGED <<erased, active>>, room # None => room' # None
      PROVE  SeenKept
    BY <1>0, <1>4 DEF Done, SeenKept, AtInv, TypeOK
<1>5. ASSUME NEW t \in Tasks, Start(t)
      PROVE  SeenKept
    BY <1>4, <1>5, StartEffect DEF Start
<1>6. ASSUME NEW t \in Tasks, Submit(t)
      PROVE  SeenKept
    BY <1>0, <1>6 DEF Submit, SeenKept, AtInv, TypeOK
<1>7. ASSUME NEW t \in Tasks, RefuseToSubmit(t) \/ FindErased(t) \/ Fail(t)
      PROVE  SeenKept
    BY <1>4, <1>7 DEF RefuseToSubmit, FindErased, Fail
<1>8. ASSUME NEW t \in Tasks, NEW s \in Starts, Read(t, s)
      PROVE  SeenKept
    BY <1>0, <1>8 DEF Read, SeenKept, TypeOK
<1>9. ASSUME NEW t \in Tasks, Run(t)
      PROVE  SeenKept
    BY <1>0, <1>9 DEF Run, SeenKept, TypeOK
<1>10. ASSUME NEW t \in Tasks, BeginBooking(t)
      PROVE  SeenKept
    <2>1. UNCHANGED <<erased, active, room>>
        BY <1>10 DEF BeginBooking
    <2>2. CASE Begin(t, "book", at[t])
        BY <1>0, <2>1, <2>2 DEF Begin, SeenKept, AtInv, TypeOK
    <2>3. CASE Done(t)
        BY <1>4, <2>1, <2>3
    <2> QED
        BY <1>10, <2>2, <2>3 DEF BeginBooking
<1>11. ASSUME NEW t \in Tasks, Book(t)
      PROVE  SeenKept
    <2>1. Done(t) /\ UNCHANGED <<erased, active>>
        BY <1>11 DEF Book, Booking
    <2>2. PICK s \in Starts, g \in Goals :
             /\ room \in Rooms
             /\ UNCHANGED room \/ \E new \in TaskStates : Judgement(t, s, g, new)
        BY <1>11, BookEffect
    <2>3. room' \in Rooms
        BY <2>2 DEF Judgement, Rooms
    <2> QED
        BY <1>4, <2>1, <2>3, NoneIsNoRow
<1>12. ASSUME Tick \/ Erase \/ UNCHANGED engineVars
       PROVE  SeenKept
    BY <1>0, <1>12 DEF Tick, Erase, engineVars, SeenKept, TypeOK
<1> QED
    BY <1>0, <1>1, <1>2, <1>3, <1>5, <1>6, <1>7, <1>8, <1>9, <1>10, <1>11, <1>12, SeenKeptOK
    DEF Next, Request, Evaluation

\* What is said about the learner's rows stays true while they stay.
RowsInv == SubInv /\ ReceiptInv /\ PaidInv /\ ErasureIsFinal
RowsKept == UNCHANGED <<erased, task, sub, room, receipts, xp>>

\* A step that writes none of these rows says nothing new of them.
LEMMA RowsKeptOK == RowsInv /\ RowsKept => RowsInv'
<1> SUFFICES ASSUME RowsInv, RowsKept
             PROVE  RowsInv'
    OBVIOUS
<1>1. \A g \in Goals : PassBooked(g)' = PassBooked(g)
    BY DEF RowsKept, PassBooked, Passes
<1> QED
    BY <1>1 DEF RowsInv, RowsKept, SubInv, ReceiptInv, PaidInv, ErasureIsFinal

\* Most steps do.
Quiet == \/ \E r \in Revisions : Publish(r)
         \/ \E t \in Tasks, g \in Goals : BeginStart(t, g) \/ BeginSubmit(t, g)
         \/ \E t \in Tasks : \/ RefuseToSubmit(t) \/ FindErased(t) \/ Fail(t) \/ Run(t) \/ BeginBooking(t)
                             \/ \E s \in Starts : Read(t, s)
         \/ Tick
         \/ UNCHANGED engineVars

\* Revisions, first reads, refusals, verdicts and the clock write no row of the learner.
LEMMA QuietKeepsRows == Quiet => RowsKept
BY DEF Quiet, RowsKept, Publish, BeginStart, BeginSubmit, RefuseToSubmit, FindErased, Fail, Run, BeginBooking,
       Read, Tick, engineVars, learnerVars

\* Every other step begins a task, submits, books or erases.
LEMMA NextCases ==
    ASSUME [Next]_engineVars
    PROVE  \/ Quiet
           \/ \E g \in Goals, plan \in Plans : Save(g, plan)
           \/ \E t \in Tasks : Start(t) \/ Submit(t) \/ Book(t)
           \/ Erase
BY DEF Next, Request, Evaluation, Quiet

\* A submission has a task and a room, a pass has one receipt and one award, and nothing comes back
\* after the erasure.
LEMMA RowsStep == IInv /\ [Next]_engineVars => RowsInv'
<1> SUFFICES ASSUME IInv, [Next]_engineVars
             PROVE  RowsInv'
    OBVIOUS
<1>0. TypeOK /\ RowsInv
    BY DEF IInv, RowsInv
<1> USE DEF RowsInv, SubInv, ReceiptInv, PaidInv, ErasureIsFinal
<1>1. CASE Quiet
    BY <1>0, <1>1, QuietKeepsRows, RowsKeptOK
<1>2. ASSUME NEW g \in Goals, NEW plan \in Plans, Save(g, plan)
      PROVE  RowsInv'
    <2>1. room' \in Rooms
        BY <1>0, <1>2, SaveOK
    <2>2. room' # None
        BY <2>1, NoneIsNoRow
    <2>3. ~erased /\ UNCHANGED <<erased, task, sub, receipts, xp>>
        BY <1>2 DEF Save
    <2>4. \A h \in Goals : PassBooked(h)' = PassBooked(h)
        BY <2>3 DEF PassBooked, Passes
    <2> QED
        BY <1>0, <2>2, <2>3, <2>4
<1>3. ASSUME NEW t \in Tasks, Start(t)
      PROVE  RowsInv'
    <2> DEFINE g == at[t]
    <2>1. g \in Goals /\ ~erased /\ UNCHANGED <<erased, sub, room, receipts, xp>>
        BY <1>3, StartEffect
    <2>2. CASE UNCHANGED task
        BY <1>0, <2>1, <2>2, RowsKeptOK DEF RowsKept
    <2>3. CASE ~UNCHANGED task
        <3>1. PICK new \in TaskStates :
                 /\ task' = [task EXCEPT ![g] = new]
                 /\ task[g] = None => ~new.passed /\ ~new.xpApplied
                 /\ task[g] # None => new.passed = task[g].passed /\ new.xpApplied = task[g].xpApplied
            BY <1>3, <2>3, StartEffect
        <3> HIDE DEF g
        <3>2. task'[g] = new /\ new # None /\ \A h \in Goals \ {g} : task'[h] = task[h]
            BY <1>0, <2>1, <3>1, NoneIsNoRow DEF TypeOK
        <3>3. new.passed \in BOOLEAN /\ new.xpApplied \in BOOLEAN
            BY <3>1 DEF TaskStates
        <3>4. task[g] = None => ~PassBooked(g)
            BY <1>0 DEF PassBooked
        <3>5. SubInv'
            BY <1>0, <2>1, <3>2 DEF TypeOK, Submissions
        <3>6. \A h \in Goals : PassBooked(h)' = PassBooked(h)
            BY <2>1 DEF PassBooked, Passes
        <3>7. PaidInv'
            BY <1>0, <2>1, <3>1, <3>2, <3>3, <3>4, <3>6
        <3> QED
            BY <1>0, <2>1, <3>5, <3>6, <3>7
    <2> QED
        BY <2>2, <2>3
<1>4. ASSUME NEW t \in Tasks, Submit(t)
      PROVE  RowsInv'
    <2> DEFINE g == at[t]
               s == task[g].start
               new == [goal |-> g, rev |-> task[g].rev, plan |-> View(t).room.plans[g], state |-> "accepted"]
    <2>1. /\ g \in Goals /\ task[g] # None /\ s \in Starts /\ sub[s] = None /\ room # None /\ ~erased
        BY <1>4 DEF Submit, Submittable, Unique, IInv, TypeOK, AtInv, SeenInv, TaskStates
    <2>2. sub' = [sub EXCEPT ![s] = new] /\ UNCHANGED <<erased, task, room, receipts, xp>>
        BY <1>4 DEF Submit
    <2>3. new.goal = g /\ new.state = "accepted"
        OBVIOUS
    <2> HIDE DEF new, s, g
    <2>4. sub'[s] = new /\ \A r \in Starts \ {s} : sub'[r] = sub[r]
        BY <1>0, <2>1, <2>2 DEF TypeOK
    <2>5. \A h \in Goals : PassBooked(h)' = PassBooked(h)
        BY <2>1, <2>3, <2>4 DEF PassBooked, Passes
    <2>6. SubInv'
        BY <1>0, <2>1, <2>2, <2>3, <2>4
    <2> QED
        BY <1>0, <2>1, <2>2, <2>5, <2>6
<1>5. ASSUME NEW t \in Tasks, Book(t)
      PROVE  RowsInv'
    <2>1. PICK s \in Starts, g \in Goals :
             /\ sub[s] \in Submissions /\ g = sub[s].goal /\ ~erased
             /\ task[g] \in TaskStates /\ room \in Rooms
             /\ UNCHANGED <<erased, active, drawn, age>>
             /\ receipts' = IF Passes(s) THEN receipts \cup {g} ELSE receipts
             /\ xp' = IF Passes(s) /\ g \notin receipts THEN [xp EXCEPT ![g] = @ + 1] ELSE xp
             /\ \/ ~Accepted(Rows, s) /\ UNCHANGED <<task, sub, lease, room>>
                \/ Accepted(Rows, s) /\ \E new \in TaskStates : Judgement(t, s, g, new)
        BY <1>5, BookEffect
    <2>2. g = sub[s].goal /\ sub[s] # None
        BY <2>1, NoneIsNoRow
    <2>3. CASE ~Accepted(Rows, s) /\ UNCHANGED <<task, sub, lease, room>>
        <3>1. sub[s].state = "booked"
            BY <2>1, <2>2, <2>3 DEF Accepted, Rows, Submissions
        <3>2. Passes(s) => g \in receipts
            BY <1>0, <2>1, <2>2, <3>1 DEF PassBooked
        <3>3. receipts' = receipts /\ xp' = xp
            BY <2>1, <3>2
        <3> QED
            BY <1>0, <2>1, <2>3, <3>3, RowsKeptOK DEF RowsKept
    <2>4. ASSUME NEW new \in TaskStates, Judgement(t, s, g, new), Accepted(Rows, s)
          PROVE  RowsInv'
        <3>1. /\ task'[g] = new /\ new # None /\ \A h \in Goals \ {g} : task'[h] = task[h]
              /\ new.passed = (task[g].passed \/ Passes(s))
              /\ new.xpApplied = (task[g].xpApplied \/ Passes(s))
            BY <1>0, <2>1, <2>4, NoneIsNoRow DEF Judgement, TypeOK
        <3>2. /\ sub'[s] # None /\ sub'[s].goal = g /\ sub'[s].plan = sub[s].plan /\ sub'[s].state = "booked"
              /\ \A r \in Starts \ {s} : sub'[r] = sub[r]
            <4>1. sub'[s] \in Submissions
                BY <1>0, <2>1, <2>4 DEF Judgement, TypeOK, Submissions
            <4> QED
                BY <1>0, <2>1, <2>2, <2>4, <4>1, NoneIsNoRow DEF Judgement, TypeOK, Submissions
        <3>3. room' # None
            <4>1. room' \in Rooms
                BY <2>1, <2>4 DEF Judgement, Rooms
            <4> QED
                BY <4>1, NoneIsNoRow
        <3>4. sub[s].state # "booked"
            BY <2>4 DEF Accepted, Rows
        <3>5. \A h \in Goals \ {g} : PassBooked(h)' <=> PassBooked(h)
            BY <2>1, <2>2, <3>2 DEF PassBooked, Passes
        <3>6. PassBooked(g)' <=> PassBooked(g) \/ Passes(s)
            <4>1. Passes(s)' <=> Passes(s)
                BY <3>2 DEF Passes
            <4>2. \A r \in Starts \ {s} : Passes(r)' <=> Passes(r)
                BY <3>2 DEF Passes
            <4>3. ASSUME PassBooked(g)'
                  PROVE  PassBooked(g) \/ Passes(s)
                <5>1. PICK r \in Starts : sub'[r] # None /\ sub'[r].goal = g /\ sub'[r].state = "booked" /\ Passes(r)'
                    BY <4>3 DEF PassBooked
                <5>2. CASE r = s
                    BY <4>1, <5>1, <5>2
                <5>3. CASE r # s
                    BY <3>2, <4>2, <5>1, <5>3 DEF PassBooked
                <5> QED
                    BY <5>2, <5>3
            <4>4. ASSUME PassBooked(g)
                  PROVE  PassBooked(g)'
                <5>1. PICK r \in Starts : sub[r] # None /\ sub[r].goal = g /\ sub[r].state = "booked" /\ Passes(r)
                    BY <4>4 DEF PassBooked
                <5>2. r # s
                    BY <3>4, <5>1
                <5> QED
                    BY <3>2, <4>2, <5>1, <5>2 DEF PassBooked
            <4>5. Passes(s) => PassBooked(g)'
                BY <2>1, <3>2, <4>1 DEF PassBooked
            <4> QED
                BY <4>3, <4>4, <4>5
        <3>7. SubInv'
            <4>1. \A h \in Goals : task[h] # None => task'[h] # None
                BY <3>1
            <4>2. \A r \in Starts : sub'[r] # None => sub[r] # None /\ sub'[r].goal = sub[r].goal
                BY <2>2, <3>2
            <4>3. \A r \in Starts : sub[r] # None => sub[r].goal \in Goals
                BY <1>0 DEF TypeOK, Submissions
            <4> QED
                BY <1>0, <3>3, <4>1, <4>2, <4>3
        <3>8. ReceiptInv'
            <4>1. /\ g \in receipts' <=> g \in receipts \/ Passes(s)
                  /\ \A h \in Goals \ {g} : h \in receipts' <=> h \in receipts
                BY <2>1
            <4> QED
                BY <1>0, <2>1, <3>5, <3>6, <4>1
        <3>9. PaidInv'
            <4>1. xp'[g] = (IF PassBooked(g)' THEN 1 ELSE 0) /\ \A h \in Goals \ {g} : xp'[h] = xp[h]
                <5>1. CASE Passes(s) /\ g \notin receipts
                    BY <1>0, <2>1, <3>6, <5>1 DEF TypeOK
                <5>2. CASE ~Passes(s) \/ g \in receipts
                    BY <1>0, <2>1, <3>6, <5>2 DEF TypeOK
                <5> QED
                    BY <5>1, <5>2
            <4>2. (task'[g].passed <=> PassBooked(g)') /\ (task'[g].xpApplied <=> PassBooked(g)')
                BY <1>0, <2>1, <3>1, <3>6, NoneIsNoRow
            <4>3. \A h \in Goals \ {g} :
                     /\ xp'[h] = (IF PassBooked(h)' THEN 1 ELSE 0)
                     /\ task'[h] # None => /\ task'[h].passed <=> PassBooked(h)'
                                           /\ task'[h].xpApplied <=> PassBooked(h)'
                BY <1>0, <3>1, <3>5, <4>1
            <4> QED
                BY <4>1, <4>2, <4>3
        <3> QED
            BY <1>0, <2>1, <3>7, <3>8, <3>9
    <2> QED
        BY <2>1, <2>3, <2>4
<1>6. CASE Erase
    <2>1. \A h \in Goals : ~PassBooked(h)'
        BY <1>6 DEF Erase, PassBooked
    <2> QED
        BY <1>6, <2>1 DEF Erase
<1> QED
    BY <1>1, <1>2, <1>3, <1>4, <1>5, <1>6, NextCases

\* The invariant for either isolation level is inductive.
LEMMA InductiveStep == IInv /\ [Next]_engineVars => IInv'
BY TypeStep, SeenStep, RowsStep DEF IInv, RowsInv

\* The inductive invariant holds at every moment.
LEMMA Invariance == Spec => []IInv
<1>1. Init => IInv
    BY InitInv
<1>2. IInv /\ [Next]_engineVars => IInv'
    BY InductiveStep
<1> QED
    BY <1>1, <1>2, PTL DEF Spec

\* The award of a task is what its booked passes are worth.
LEMMA PaidOnce == TypeOK /\ PaidInv => PassIsPaidOnce
<1> SUFFICES ASSUME TypeOK, PaidInv, NEW g \in Goals
             PROVE  /\ xp[g] = IF PassBooked(g) THEN 1 ELSE 0
                    /\ task[g] # None => task[g].passed = PassBooked(g) /\ task[g].xpApplied = PassBooked(g)
    BY DEF PassIsPaidOnce, PassBooked
<1>1. task[g] # None => task[g].passed \in BOOLEAN /\ task[g].xpApplied \in BOOLEAN
    BY DEF TypeOK, TaskStates
<1>2. PassBooked(g) \in BOOLEAN
    BY DEF PassBooked
<1> QED
    BY <1>1, <1>2 DEF PaidInv

\* Under either isolation level, whatever fails, repeats or is erased meanwhile: rows keep their
\* shape, the award of a task is booked exactly once, and an erased account stays empty.
THEOREM PaidOnceAndErased == Spec => [](TypeOK /\ PassIsPaidOnce /\ ErasureIsFinal)
<1>1. IInv => TypeOK /\ PassIsPaidOnce /\ ErasureIsFinal
    BY PaidOnce DEF IInv
<1> QED
    BY <1>1, Invariance, PTL
-----------------------------------------------------------------------------
\* Under READ COMMITTED a start and a booking see the rows they meet.
LEMMA CurrentStep == RepeatableRead = FALSE /\ IInv /\ CurrentInv /\ [Next]_engineVars => CurrentInv'
<1> SUFFICES ASSUME RepeatableRead = FALSE, IInv, CurrentInv, [Next]_engineVars
             PROVE  CurrentInv'
    OBVIOUS
<1>0. TypeOK /\ PendingKeepsItsStart /\ LastPassCompletes
    BY DEF IInv, CurrentInv
<1>t. TypeOK'
    BY TypeStep
<1>v. \A t \in Tasks : View(t) = Rows
    BY DEF View
<1>p. ASSUME UNCHANGED <<task, sub>>
      PROVE  PendingKeepsItsStart'
    BY <1>0, <1>p DEF PendingKeepsItsStart, Accepted, Rows
<1>l. ASSUME PassedGoals(Rows)' = PassedGoals(Rows), UNCHANGED room
      PROVE  LastPassCompletes'
    BY <1>0, <1>l DEF LastPassCompletes
<1>1. CASE Quiet
    <2>1. UNCHANGED <<task, sub, room>>
        BY <1>1, QuietKeepsRows DEF RowsKept
    <2>2. PassedGoals(Rows)' = PassedGoals(Rows)
        BY <2>1 DEF PassedGoals, Rows
    <2> QED
        BY <1>p, <1>l, <2>1, <2>2 DEF CurrentInv
<1>2. ASSUME NEW g \in Goals, NEW plan \in Plans, Save(g, plan)
      PROVE  CurrentInv'
    <2>1. UNCHANGED <<task, sub>>
        BY <1>2 DEF Save
    <2>2. PassedGoals(Rows)' = PassedGoals(Rows)
        BY <2>1 DEF PassedGoals, Rows
    <2>3. CASE room = None
        <3>1. ~room'.completed
            BY <1>2, <2>3 DEF Save
        <3>2. PassedGoals(Rows) = {}
            BY <2>3 DEF PassedGoals, Rows, IInv, SubInv, PaidInv, PassBooked
        <3> QED
            BY <1>p, <2>1, <2>2, <3>1, <3>2, EngineConstantsOK DEF CurrentInv, LastPassCompletes
    <2>4. CASE room # None
        <3>1. room'.completed = room.completed
            BY <1>0, <1>2, <2>4 DEF Save, TypeOK, Rooms
        <3> QED
            BY <1>0, <1>p, <2>1, <2>2, <2>4, <3>1 DEF CurrentInv, LastPassCompletes
    <2> QED
        BY <2>3, <2>4
<1>3. ASSUME NEW t \in Tasks, Start(t)
      PROVE  CurrentInv'
    <2> DEFINE g == at[t]
    <2>1. g \in Goals /\ UNCHANGED <<sub, room>>
        BY <1>3, StartEffect
    <2>2. CASE UNCHANGED task
        <3>1. PassedGoals(Rows)' = PassedGoals(Rows)
            BY <2>1, <2>2 DEF PassedGoals, Rows
        <3> QED
            BY <1>p, <1>l, <2>1, <2>2, <3>1 DEF CurrentInv
    <2>3. CASE ~UNCHANGED task
        <3>1. PICK new \in TaskStates :
                 /\ task' = [task EXCEPT ![g] = new]
                 /\ task[g] = None => ~new.passed
                 /\ task[g] # None => /\ new.passed = task[g].passed
                                      /\ ~Pending(View(t), g) \/ task[g].start = None
            BY <1>3, <2>3, StartEffect
        <3> HIDE DEF g
        <3>2. task'[g] = new /\ new # None /\ \A h \in Goals \ {g} : task'[h] = task[h]
            BY <1>0, <2>1, <3>1, NoneIsNoRow DEF TypeOK
        <3>3. PassedGoals(Rows)' = PassedGoals(Rows)
            BY <2>1, <3>1, <3>2 DEF PassedGoals, Rows
        <3>4. ASSUME NEW s \in Starts, Accepted(Rows, s)'
              PROVE  task'[sub'[s].goal] # None /\ task'[sub'[s].goal].start = s
            <4>1. Accepted(Rows, s) /\ sub[s].goal \in Goals
                BY <1>0, <2>1, <3>4 DEF Accepted, Rows, TypeOK, Submissions
            <4>2. task[sub[s].goal] # None /\ task[sub[s].goal].start = s
                BY <1>0, <4>1 DEF PendingKeepsItsStart
            <4>3. s # None
                BY EngineConstantsOK DEF Starts
            <4>4. sub[s].goal # g
                BY <1>v, <3>1, <4>1, <4>2, <4>3 DEF Pending, Rows
            <4> QED
                BY <2>1, <3>2, <4>1, <4>2, <4>4
        <3> QED
            BY <1>l, <2>1, <3>3, <3>4 DEF CurrentInv, PendingKeepsItsStart
    <2> QED
        BY <2>2, <2>3
<1>4. ASSUME NEW t \in Tasks, Submit(t)
      PROVE  CurrentInv'
    <2> DEFINE g == at[t]
               s == task[g].start
               new == [goal |-> g, rev |-> task[g].rev, plan |-> View(t).room.plans[g], state |-> "accepted"]
    <2>1. g \in Goals /\ task[g] # None /\ s \in Starts /\ s = task[g].start
        BY <1>4 DEF Submit, Submittable, IInv, TypeOK, AtInv, TaskStates
    <2>2. sub' = [sub EXCEPT ![s] = new] /\ UNCHANGED <<task, room>>
        BY <1>4 DEF Submit
    <2>3. new.goal = g
        OBVIOUS
    <2> HIDE DEF new, s, g
    <2>4. sub'[s].goal = g /\ \A r \in Starts \ {s} : sub'[r] = sub[r]
        BY <1>0, <2>1, <2>2, <2>3 DEF TypeOK
    <2>5. PendingKeepsItsStart'
        BY <1>0, <2>1, <2>2, <2>4 DEF PendingKeepsItsStart, Accepted, Rows
    <2>6. PassedGoals(Rows)' = PassedGoals(Rows)
        BY <2>2 DEF PassedGoals, Rows
    <2> QED
        BY <1>l, <2>2, <2>5, <2>6 DEF CurrentInv
<1>5. ASSUME NEW t \in Tasks, Book(t)
      PROVE  CurrentInv'
    <2> DEFINE s == at[t]
               g == sub[s].goal
    <2>1. /\ s \in Starts /\ sub[s] \in Submissions /\ g \in Goals
          /\ task[g] \in TaskStates /\ room \in Rooms
          /\ \/ UNCHANGED <<task, sub, room>>
             \/ Accepted(Rows, s) /\ \E new \in TaskStates : Judgement(t, s, g, new)
        BY <1>5, BookEffect
    <2>2. g = sub[s].goal /\ sub[s] # None
        BY <2>1, NoneIsNoRow
    <2> HIDE DEF s, g
    <2>3. CASE UNCHANGED <<task, sub, room>>
        <3>1. PassedGoals(Rows)' = PassedGoals(Rows)
            BY <2>3 DEF PassedGoals, Rows
        <3> QED
            BY <1>p, <1>l, <2>3, <3>1 DEF CurrentInv
    <2>4. ASSUME NEW new \in TaskStates, Judgement(t, s, g, new), Accepted(Rows, s)
          PROVE  CurrentInv'
        <3>1. /\ task'[g] = new /\ new # None /\ \A h \in Goals \ {g} : task'[h] = task[h]
              /\ task[g] # None /\ new.passed = (task[g].passed \/ Passes(s))
              /\ new.start = (IF task[g].start = s THEN None ELSE task[g].start)
            BY <1>0, <2>1, <2>4, NoneIsNoRow DEF Judgement, TypeOK
        <3>2. sub'[s].state = "booked" /\ \A r \in Starts \ {s} : sub'[r] = sub[r]
            BY <1>0, <2>1, <2>4 DEF Judgement, TypeOK, Submissions
        <3>3. task[g].start = s
            BY <1>0, <2>1, <2>2, <2>4 DEF PendingKeepsItsStart
        <3>4. ASSUME NEW r \in Starts, Accepted(Rows, r)'
              PROVE  task'[sub'[r].goal] # None /\ task'[sub'[r].goal].start = r
            <4>1. r # s /\ sub'[r] = sub[r]
                BY <3>2, <3>4 DEF Accepted, Rows
            <4>2. Accepted(Rows, r) /\ sub[r].goal \in Goals
                BY <1>0, <3>4, <4>1 DEF Accepted, Rows, TypeOK, Submissions
            <4>3. task[sub[r].goal] # None /\ task[sub[r].goal].start = r
                BY <1>0, <4>2 DEF PendingKeepsItsStart
            <4>4. sub[r].goal # g
                BY <3>3, <4>1, <4>3
            <4> QED
                BY <3>1, <4>1, <4>2, <4>3, <4>4
        <3>5. PassedGoals(Rows)' = IF Passes(s) THEN PassedGoals(Rows) \cup {g} ELSE PassedGoals(Rows)
            <4>1. task[g].passed \in BOOLEAN /\ new.passed \in BOOLEAN /\ Passes(s) \in BOOLEAN
                BY <2>1, <2>4 DEF TaskStates, Passes
            <4> QED
                BY <2>1, <3>1, <4>1 DEF PassedGoals, Rows
        <3>6. room # None /\ room' # None
            <4>1. room' \in Rooms
                BY <2>1, <2>4 DEF Judgement, Rooms
            <4> QED
                BY <2>1, <4>1, NoneIsNoRow
        <3>7. room'.completed <=> room.completed \/ (Passes(s) /\ Required \subseteq PassedGoals(Rows) \cup {g})
            BY <1>v, <2>1, <2>4 DEF Judgement, Rooms
        <3>8. LastPassCompletes'
            BY <1>0, <3>5, <3>6, <3>7 DEF LastPassCompletes
        <3> QED
            BY <3>4, <3>8 DEF CurrentInv, PendingKeepsItsStart
    <2> QED
        BY <2>1, <2>3, <2>4
<1>6. CASE Erase
    BY <1>6 DEF Erase, CurrentInv, PendingKeepsItsStart, LastPassCompletes, Accepted, Rows
<1> QED
    BY <1>1, <1>2, <1>3, <1>4, <1>5, <1>6, NextCases

\* What needs READ COMMITTED holds at every moment.
LEMMA CurrentInvariance == RepeatableRead = FALSE => (Spec => []CurrentInv)
<1> SUFFICES ASSUME RepeatableRead = FALSE
             PROVE  Spec => []CurrentInv
    OBVIOUS
<1>1. Init => CurrentInv
    BY InitInv
<1>2. IInv /\ CurrentInv /\ [Next]_engineVars => CurrentInv'
    BY CurrentStep
<1> QED
    BY <1>1, <1>2, Invariance, PTL DEF Spec

\* Under READ COMMITTED a submission also keeps its start until its verdict.
THEOREM SubmissionsSound == RepeatableRead = FALSE => (Spec => []SubmissionsAreSound)
<1> SUFFICES ASSUME RepeatableRead = FALSE
             PROVE  Spec => []SubmissionsAreSound
    OBVIOUS
<1>1. IInv /\ CurrentInv => SubmissionsAreSound
    BY PaidOnce DEF IInv, CurrentInv, SubmissionsAreSound
<1>2. Spec => []CurrentInv
    BY CurrentInvariance
<1> QED
    BY <1>1, <1>2, Invariance, PTL

\* Under READ COMMITTED the unit is completed once every required task has a booked pass, and not
\* before, in whatever order requests save the room, submit and book.
THEOREM LastPassCompletesUnit == RepeatableRead = FALSE => (Spec => []LastPassCompletes)
<1> SUFFICES ASSUME RepeatableRead = FALSE
             PROVE  Spec => []LastPassCompletes
    OBVIOUS
<1>1. CurrentInv => LastPassCompletes
    BY DEF CurrentInv
<1>2. Spec => []CurrentInv
    BY CurrentInvariance
<1> QED
    BY <1>1, <1>2, PTL
-----------------------------------------------------------------------------
(* The counters of a task are those of its booked verdicts, under either isolation level. *)

\* one has no smaller one inside.
LEMMA LeastNumber ==
    ASSUME NEW S \in SUBSET Nat, S # {}
    PROVE  \E m \in S : \A i \in S : m <= i
<1> DEFINE T == {1 .. i : i \in S}
<1>1. T \subseteq FiniteSubsetsOf(Nat)
    <2>1. ASSUME NEW i \in S
          PROVE  1 .. i \in FiniteSubsetsOf(Nat)
        <3>1. 1 \in Int /\ i \in Int
            OBVIOUS
        <3>2. IsFiniteSet(1 .. i)
            BY <3>1, FS_Interval
        <3> QED
            BY <3>2 DEF FiniteSubsetsOf
    <2> QED
        BY <2>1
<1>2. T # {}
    OBVIOUS
<1>3. PICK x \in T : \A y \in T : ~(<<y, x>> \in StrictSubsetOrdering(Nat))
    <2> HIDE DEF T
    <2> QED
        BY <1>1, <1>2, FS_StrictSubsetOrderingWellFounded, WFMin
<1>4. PICK m \in S : x = 1 .. m
    OBVIOUS
<1>5. ASSUME NEW i \in S
      PROVE  m <= i
    <2> SUFFICES ASSUME i < m
                 PROVE  FALSE
        OBVIOUS
    <2>1. 1 .. i \in T /\ 1 .. i \subseteq x /\ m \in x /\ m \notin 1 .. i /\ x \subseteq Nat
        BY <1>4
    <2> QED
        BY <1>3, <2>1 DEF StrictSubsetOrdering
<1> QED
    BY <1>5

\* Every set of numbers that has the first one, and with each the next one, up to n has n.
LEMMA UpTo ==
    ASSUME NEW n \in Nat, NEW S, 0 \in S, \A s \in 1 .. n : s - 1 \in S => s \in S
    PROVE  \A s \in 0 .. n : s \in S
<1> SUFFICES ASSUME NEW s \in 0 .. n, s \notin S
             PROVE  FALSE
    OBVIOUS
<1> DEFINE T == {r \in 0 .. n : r \notin S}
<1>1. PICK m \in T : \A r \in T : m <= r
    <2>1. T \in SUBSET Nat /\ T # {}
        OBVIOUS
    <2> HIDE DEF T
    <2> QED
        BY <2>1, LeastNumber
<1>2. m \in 1 .. n /\ m - 1 \in 0 .. n /\ m - 1 < m
    BY <1>1
<1>3. m - 1 \in S
    BY <1>1, <1>2
<1> QED
    BY <1>1, <1>2, <1>3

FirstCounts == [band |-> InitialBand, fails |-> 0, passes |-> 0]
\* What a start does to the counters.
AfterStart(rows, g, before, s) ==
    IF Booked(rows, g, s) THEN Counted(before, rows[s].rev, rows[s].plan \in GoodPlans) ELSE before
CountsTo(rows, g, f, n) ==
    f = [s \in 0 .. n |-> IF s = 0 THEN FirstCounts ELSE AfterStart(rows, g, f[s - 1], s)]

\* There are such counters for every number of starts.
LEMMA CountsAre ==
    ASSUME NEW rows, NEW g
    PROVE  CountsTo(rows, g, Counts(rows, g), MaxStarts)
<1> DEFINE S == {n \in Nat : \E f : CountsTo(rows, g, f, n)}
<1>0. MaxStarts \in Nat
    BY EngineConstantsOK
<1>1. 0 \in S
    <2> DEFINE f == [s \in 0 .. 0 |-> FirstCounts]
    <2>1. CountsTo(rows, g, f, 0)
        BY DEF CountsTo
    <2> QED
        BY <2>1
<1>2. ASSUME NEW n \in 1 .. MaxStarts, n - 1 \in S
      PROVE  n \in S
    <2>1. PICK f : CountsTo(rows, g, f, n - 1)
        BY <1>2
    <2> DEFINE h == [s \in 0 .. n |-> IF s = n THEN AfterStart(rows, g, f[n - 1], n) ELSE f[s]]
    <2>2. \A s \in 0 .. n - 1 : h[s] = f[s]
        BY <1>0
    <2>3. h[n] = AfterStart(rows, g, f[n - 1], n)
        BY <1>0
    <2>4. DOMAIN h = 0 .. n /\ h = [s \in 0 .. n |-> h[s]]
        OBVIOUS
    <2> HIDE DEF h
    <2>5. ASSUME NEW s \in 0 .. n
          PROVE  h[s] = IF s = 0 THEN FirstCounts ELSE AfterStart(rows, g, h[s - 1], s)
        <3>1. CASE s = n
            <4>1. s # 0 /\ s - 1 \in 0 .. n - 1
                BY <1>0, <3>1
            <4> QED
                BY <2>2, <2>3, <3>1, <4>1
        <3>2. CASE s # n
            <4>1. s \in 0 .. n - 1
                BY <1>0, <3>2
            <4>2. f[s] = IF s = 0 THEN FirstCounts ELSE AfterStart(rows, g, f[s - 1], s)
                BY <2>1, <4>1 DEF CountsTo
            <4>3. s # 0 => s - 1 \in 0 .. n - 1
                BY <1>0, <4>1
            <4> QED
                BY <2>2, <4>1, <4>2, <4>3
        <3> QED
            BY <3>1, <3>2
    <2>6. CountsTo(rows, g, h, n)
        BY <2>4, <2>5 DEF CountsTo
    <2> QED
        BY <1>0, <2>6
<1>3. MaxStarts \in S
    <2> HIDE DEF S
    <2> QED
        BY <1>0, <1>1, <1>2, UpTo
<1>4. Counts(rows, g) = CHOOSE f : CountsTo(rows, g, f, MaxStarts)
    BY DEF Counts, CountsTo, AfterStart, FirstCounts
<1> QED
    BY <1>3, <1>4

\* The same, start by start.
LEMMA CountsStep ==
    ASSUME NEW rows, NEW g
    PROVE  /\ Counts(rows, g)[0] = FirstCounts
           /\ \A s \in Starts : Counts(rows, g)[s] = AfterStart(rows, g, Counts(rows, g)[s - 1], s)
<1> DEFINE f == Counts(rows, g)
<1>1. f = [s \in 0 .. MaxStarts |-> IF s = 0 THEN FirstCounts ELSE AfterStart(rows, g, f[s - 1], s)]
    BY CountsAre DEF CountsTo
<1> HIDE DEF f
<1>2. MaxStarts \in Nat
    BY EngineConstantsOK
<1>3. f[0] = FirstCounts
    BY <1>1, <1>2
<1>4. ASSUME NEW s \in Starts
      PROVE  f[s] = AfterStart(rows, g, f[s - 1], s)
    <2>1. s \in 0 .. MaxStarts /\ s # 0
        BY <1>2 DEF Starts
    <2> QED
        BY <1>1, <2>1
<1> QED
    BY <1>3, <1>4 DEF f

\* A start has the same verdict for a task in both tables.
SameVerdict(rows, other, g, s) ==
    /\ Booked(rows, g, s) <=> Booked(other, g, s)
    /\ Booked(rows, g, s) => rows[s].rev = other[s].rev /\ rows[s].plan = other[s].plan

\* Counters depend on the booked verdicts only.
LEMMA CountsAgree ==
    ASSUME NEW rows, NEW other, NEW g, NEW n \in 0 .. MaxStarts,
           \A s \in 1 .. n : SameVerdict(rows, other, g, s)
    PROVE  Counts(rows, g)[n] = Counts(other, g)[n]
<1> DEFINE S == {s \in 0 .. n : Counts(rows, g)[s] = Counts(other, g)[s]}
<1>0. MaxStarts \in Nat /\ n \in Nat
    BY EngineConstantsOK
<1>1. 0 \in S
    BY <1>0, CountsStep
<1>2. ASSUME NEW s \in 1 .. n, s - 1 \in S
      PROVE  s \in S
    <2>1. s \in Starts /\ s \in 0 .. n
        BY <1>0 DEF Starts
    <2>2. SameVerdict(rows, other, g, s) /\ Counts(rows, g)[s - 1] = Counts(other, g)[s - 1]
        BY <1>2
    <2>3. AfterStart(rows, g, Counts(rows, g)[s - 1], s) = AfterStart(other, g, Counts(other, g)[s - 1], s)
        BY <2>2 DEF AfterStart, SameVerdict
    <2> QED
        BY <2>1, <2>3, CountsStep
<1>3. \A s \in 0 .. n : s \in S
    <2> HIDE DEF S
    <2> QED
        BY <1>0, <1>1, <1>2, UpTo
<1>4. n \in 0 .. n
    BY <1>0
<1> QED
    BY <1>3, <1>4

\* Starts without a verdict change nothing.
LEMMA CountsRest ==
    ASSUME NEW rows, NEW g, NEW n \in 0 .. MaxStarts, \A s \in n + 1 .. MaxStarts : ~Booked(rows, g, s)
    PROVE  Counts(rows, g)[MaxStarts] = Counts(rows, g)[n]
<1> DEFINE S == {s \in 0 .. MaxStarts : s >= n => Counts(rows, g)[s] = Counts(rows, g)[n]}
<1>0. MaxStarts \in Nat /\ n \in Nat
    BY EngineConstantsOK
<1>1. 0 \in S
    BY <1>0
<1>2. ASSUME NEW s \in 1 .. MaxStarts, s - 1 \in S
      PROVE  s \in S
    <2>1. s \in Starts /\ s \in 0 .. MaxStarts
        BY <1>0 DEF Starts
    <2>2. CASE s <= n
        <3>1. s >= n => s = n
            BY <1>0, <2>2
        <3> QED
            BY <2>1, <3>1
    <2>3. CASE s > n
        <3>1. s - 1 >= n /\ s \in n + 1 .. MaxStarts
            BY <1>0, <2>3
        <3>2. Counts(rows, g)[s] = Counts(rows, g)[s - 1]
            BY <2>1, <3>1, CountsStep DEF AfterStart
        <3> QED
            BY <1>2, <2>1, <3>1, <3>2
    <2> QED
        BY <1>0, <2>2, <2>3
<1>3. \A s \in 0 .. MaxStarts : s \in S
    <2> HIDE DEF S
    <2> QED
        BY <1>0, <1>1, <1>2, UpTo
<1>4. MaxStarts \in 0 .. MaxStarts /\ MaxStarts >= n
    BY <1>0
<1> QED
    BY <1>3, <1>4

\* One verdict more, of the latest start.
LEMMA CountsMore ==
    ASSUME NEW rows, NEW other, NEW g, NEW last \in Starts,
           ~Booked(rows, g, last), Booked(other, g, last),
           \A s \in Starts \ {last} : SameVerdict(rows, other, g, s),
           \A s \in Starts : Booked(rows, g, s) => s <= last
    PROVE  Counts(other, g)[MaxStarts]
              = Counted(Counts(rows, g)[MaxStarts], other[last].rev, other[last].plan \in GoodPlans)
<1>0. MaxStarts \in Nat /\ last \in 0 .. MaxStarts /\ last - 1 \in 0 .. MaxStarts /\ last \in Nat
    BY EngineConstantsOK DEF Starts
<1>1. Counts(other, g)[MaxStarts] = Counts(other, g)[last]
    <2>1. \A s \in last + 1 .. MaxStarts : s \in Starts \ {last} /\ ~(s <= last)
        BY <1>0 DEF Starts
    <2>2. \A s \in last + 1 .. MaxStarts : ~Booked(other, g, s)
        BY <2>1 DEF SameVerdict
    <2> QED
        BY <1>0, <2>2, CountsRest
<1>2. Counts(rows, g)[MaxStarts] = Counts(rows, g)[last - 1]
    <2>1. \A s \in (last - 1) + 1 .. MaxStarts : s \in Starts /\ (s = last \/ ~(s <= last))
        BY <1>0 DEF Starts
    <2>2. \A s \in (last - 1) + 1 .. MaxStarts : ~Booked(rows, g, s)
        BY <2>1
    <2> QED
        BY <1>0, <2>2, CountsRest
<1>3. Counts(rows, g)[last - 1] = Counts(other, g)[last - 1]
    <2>1. \A s \in 1 .. last - 1 : s \in Starts \ {last}
        BY <1>0 DEF Starts
    <2>2. \A s \in 1 .. last - 1 : SameVerdict(rows, other, g, s)
        BY <2>1
    <2> QED
        BY <1>0, <2>2, CountsAgree
<1> QED
    BY <1>1, <1>2, <1>3, CountsStep DEF AfterStart

\* No verdict at all.
LEMMA CountsNone ==
    ASSUME NEW rows, NEW g, \A s \in Starts : ~Booked(rows, g, s)
    PROVE  Counts(rows, g)[MaxStarts] = FirstCounts
<1>1. MaxStarts \in Nat /\ 0 \in 0 .. MaxStarts /\ 0 + 1 .. MaxStarts = Starts
    BY EngineConstantsOK DEF Starts
<1>2. Counts(rows, g)[MaxStarts] = Counts(rows, g)[0]
    BY <1>1, CountsRest
<1> QED
    BY <1>2, CountsStep

-----------------------------------------------------------------------------
\* Starts of a task are drawn one after the other, and the one that waits for its verdict is the
\* latest that was submitted.
OrderInv ==
    /\ \A s \in Starts : sub[s] # None =>
          /\ s <= drawn
          /\ task[sub[s].goal].start # None => s <= task[sub[s].goal].start
    /\ \A g \in Goals : task[g] # None /\ task[g].start # None => task[g].start <= drawn
    /\ \A s, r \in Starts : Accepted(Rows, s) /\ sub[r] # None /\ sub[r].goal = sub[s].goal => r <= s

Counters == [band : Nat, fails : Nat, passes : Nat]
Now(state) == [band |-> state.band, fails |-> state.fails, passes |-> state.passes]
CountInv == OrderInv /\ VerdictsCountOnce

\* Counting a verdict looks at the counters only.
LEMMA CountedNow ==
    ASSUME NEW state \in TaskStates, NEW rev \in Revisions, NEW passed \in BOOLEAN
    PROVE  Now(Counted(state, rev, passed)) = Counted(Now(state), rev, passed)
<1> DEFINE fails == IF passed THEN 0 ELSE state.fails + 1
           passes == IF passed THEN state.passes + 1 ELSE 0
           up == Min({Bands, state.band + 1})
           down == Max({1, state.band - 1})
           with(s, b, f, p) == [s EXCEPT !.band = b, !.fails = f, !.passes = p]
           kept(s, f, p) == [s EXCEPT !.fails = f, !.passes = p]
<1>1. Now(state).band = state.band /\ Now(state).fails = state.fails /\ Now(state).passes = state.passes
    BY DEF Now
<1>a. /\ state.band \in Nat /\ fails \in Nat /\ passes \in Nat /\ up \in Nat /\ down \in Nat
      /\ Now(state) \in Counters
    <2>1. Bands \in Nat \ {0} /\ state.band \in 1 .. Bands /\ state.fails \in Nat /\ state.passes \in Nat
        BY EngineConstantsOK DEF TaskStates
    <2> DEFINE next == state.band + 1  last == state.band - 1
    <2>2. next \in Nat /\ last \in Int
        BY <2>1
    <2> HIDE DEF next, last
    <2>3. /\ Min({Bands, next}) = (IF Bands <= next THEN Bands ELSE next)
          /\ Max({1, last}) = (IF 1 >= last THEN 1 ELSE last)
        <3>1. Bands \in Int /\ next \in Int /\ 1 \in Int /\ last \in Int
            BY <2>1, <2>2
        <3>2. Min({Bands, next}) = (IF Bands <= next THEN Bands ELSE next)
            BY <3>1, TwoNumbers, Zenon
        <3>3. Max({1, last}) = (IF 1 >= last THEN 1 ELSE last)
            BY <3>1, TwoNumbers, Zenon
        <3> QED
            BY <3>2, <3>3
    <2>4. up = Min({Bands, next}) /\ down = Max({1, last})
        BY DEF next, last
    <2> QED
        BY <2>1, <2>2, <2>3, <2>4 DEF Now, Counters
<1>b. \A x \in Counters : x = Now(x)
    BY DEF Counters, Now
<1>2. ASSUME NEW b \in Nat, NEW f \in Nat, NEW p \in Nat
      PROVE  Now(with(state, b, f, p)) = with(Now(state), b, f, p)
    <2>1. with(state, b, f, p).band = b /\ with(state, b, f, p).fails = f /\ with(state, b, f, p).passes = p
        BY DEF TaskStates
    <2>2. /\ with(Now(state), b, f, p) \in Counters /\ with(Now(state), b, f, p).band = b
          /\ with(Now(state), b, f, p).fails = f /\ with(Now(state), b, f, p).passes = p
        BY <1>a DEF Counters
    <2> HIDE DEF with
    <2>3. with(Now(state), b, f, p) = Now(with(Now(state), b, f, p))
        BY <1>b, <2>2
    <2> QED
        BY <2>1, <2>2, <2>3 DEF Now
<1>3. ASSUME NEW f \in Nat, NEW p \in Nat
      PROVE  Now(kept(state, f, p)) = kept(Now(state), f, p)
    <2>1. /\ kept(state, f, p).band = state.band
          /\ kept(state, f, p).fails = f /\ kept(state, f, p).passes = p
        BY DEF TaskStates
    <2>2. /\ kept(Now(state), f, p) \in Counters /\ kept(Now(state), f, p).band = Now(state).band
          /\ kept(Now(state), f, p).fails = f /\ kept(Now(state), f, p).passes = p
        BY <1>a DEF Counters
    <2> HIDE DEF kept
    <2>3. kept(Now(state), f, p) = Now(kept(Now(state), f, p))
        BY <1>b, <2>2
    <2> QED
        BY <1>1, <2>1, <2>2, <2>3 DEF Now
<1>4. Counted(state, rev, passed) =
         CASE passed /\ passes >= RaiseAfter[rev] -> with(state, up, 0, 0)
           [] ~passed /\ fails >= LowerAfter[rev] -> with(state, down, 0, 0)
           [] OTHER -> kept(state, fails, passes)
    BY DEF Counted
<1>5. Counted(Now(state), rev, passed) =
         CASE passed /\ passes >= RaiseAfter[rev] -> with(Now(state), up, 0, 0)
           [] ~passed /\ fails >= LowerAfter[rev] -> with(Now(state), down, 0, 0)
           [] OTHER -> kept(Now(state), fails, passes)
    BY <1>1 DEF Counted
<1> HIDE DEF fails, passes, up, down, with, kept
<1>6. CASE passed /\ passes >= RaiseAfter[rev]
    BY <1>a, <1>2, <1>4, <1>5, <1>6
<1>7. CASE ~passed /\ fails >= LowerAfter[rev]
    BY <1>a, <1>2, <1>4, <1>5, <1>7
<1>8. CASE ~(passed /\ passes >= RaiseAfter[rev]) /\ ~(~passed /\ fails >= LowerAfter[rev])
    BY <1>a, <1>3, <1>4, <1>5, <1>8
<1> QED
    BY <1>6, <1>7, <1>8

\* A start keeps the counters of its task, and a new task begins with those of the first verdict.
LEMMA StartCounts ==
    ASSUME IInv, NEW t \in Tasks, Start(t), ~UNCHANGED <<task, drawn>>
    PROVE  \E new \in TaskStates :
              /\ task' = [task EXCEPT ![at[t]] = new] /\ drawn' = drawn + 1 /\ new.start = drawn + 1
              /\ Now(new) = IF task[at[t]] = None THEN FirstCounts ELSE Now(task[at[t]])
<1> DEFINE g == at[t]
           rev == View(t).active
           drew(state) == [state EXCEPT !.start = drawn + 1]
<1>1. /\ g \in Goals /\ rev \in Revisions /\ drawn \in 0 .. MaxStarts
      /\ task[g] # None => task[g] \in TaskStates
    BY DEF IInv, TypeOK, AtInv, SeenInv, RowsSeen, Start
<1>2. \/ /\ task[g] = None /\ drawn < MaxStarts /\ drawn' = drawn + 1
         /\ task' = [task EXCEPT ![g] = drew(NewTask(rev))]
      \/ /\ task[g] # None /\ drawn < MaxStarts /\ drawn' = drawn + 1
         /\ task' = [task EXCEPT ![g] = drew([task[g] EXCEPT !.rev = rev])]
      \/ /\ task[g] # None /\ drawn < MaxStarts /\ drawn' = drawn + 1
         /\ task' = [task EXCEPT ![g] = drew(task[g])]
    BY DEF Start
<1> HIDE DEF g, rev, drew
<1>3. ASSUME NEW state \in TaskStates, drawn < MaxStarts
      PROVE  drew(state) \in TaskStates /\ drew(state).start = drawn + 1 /\ Now(drew(state)) = Now(state)
    <2>1. drawn + 1 \in Starts
        BY <1>1, <1>3, EngineConstantsOK DEF Starts
    <2> QED
        BY <1>3, <2>1 DEF TaskStates, Now, drew
<1>4. NewTask(rev) \in TaskStates /\ Now(NewTask(rev)) = FirstCounts
    BY <1>1, EngineConstantsOK DEF NewTask, TaskStates, Now, FirstCounts
<1>5. ASSUME task[g] # None
      PROVE  [task[g] EXCEPT !.rev = rev] \in TaskStates /\ Now([task[g] EXCEPT !.rev = rev]) = Now(task[g])
    BY <1>1, <1>5 DEF TaskStates, Now
<1>6. CASE /\ task[g] = None /\ drawn < MaxStarts /\ drawn' = drawn + 1
           /\ task' = [task EXCEPT ![g] = drew(NewTask(rev))]
    BY <1>3, <1>4, <1>6 DEF g
<1>7. CASE /\ task[g] # None /\ drawn < MaxStarts /\ drawn' = drawn + 1
           /\ task' = [task EXCEPT ![g] = drew([task[g] EXCEPT !.rev = rev])]
    BY <1>3, <1>5, <1>7 DEF g
<1>8. CASE /\ task[g] # None /\ drawn < MaxStarts /\ drawn' = drawn + 1
           /\ task' = [task EXCEPT ![g] = drew(task[g])]
    BY <1>1, <1>3, <1>8 DEF g
<1> QED
    BY <1>2, <1>6, <1>7, <1>8

\* A booking counts its verdict.
LEMMA BookCounts ==
    ASSUME IInv, NEW t \in Tasks, Book(t), NEW s, s = at[t], NEW g, g = sub[s].goal, Accepted(Rows, s)
    PROVE  Now(task'[g]) = Counted(Now(task[g]), sub[s].rev, Passes(s))
<1>1. /\ s \in Starts /\ sub[s] \in Submissions /\ g \in Goals /\ task[g] \in TaskStates
    BY BookEffect
<1>2. sub[s].rev \in Revisions /\ Passes(s) \in BOOLEAN
    BY <1>1 DEF Submissions, Passes
<1> DEFINE c == Counted(task[g], sub[s].rev, Passes(s))
<1>3. c \in TaskStates /\ Now(c) = Counted(Now(task[g]), sub[s].rev, Passes(s))
    BY <1>1, <1>2, CountedTyped, CountedNow
<1>4. task' = [task EXCEPT ![g] = [c EXCEPT !.start = IF @ = s THEN None ELSE @,
                                            !.passed = @ \/ Passes(s),
                                            !.xpApplied = @ \/ Passes(s)]]
    BY DEF Book, Booking
<1> HIDE DEF c
<1>5. task'[g] = [c EXCEPT !.start = IF @ = s THEN None ELSE @,
                           !.passed = @ \/ Passes(s),
                           !.xpApplied = @ \/ Passes(s)]
    BY <1>1, <1>4 DEF IInv, TypeOK
<1>6. Now(task'[g]) = Now(c)
    BY <1>3, <1>5 DEF Now, TaskStates
<1> QED
    BY <1>3, <1>6

\* Every step keeps the order of the starts, and counts a verdict at most once.
LEMMA CountStep == IInv /\ CountInv /\ [Next]_engineVars => CountInv'
<1> SUFFICES ASSUME IInv, CountInv, [Next]_engineVars
             PROVE  CountInv'
    OBVIOUS
<1>0. TypeOK /\ SubInv /\ OrderInv /\ VerdictsCountOnce /\ drawn \in Nat
    BY EngineConstantsOK DEF IInv, CountInv, TypeOK
<1>s. \A r \in Starts : sub[r] # None => sub[r] \in Submissions /\ sub[r].goal \in Goals /\ r \in Nat
    BY <1>0, EngineConstantsOK DEF TypeOK, Submissions, Starts
<1>c. ASSUME NEW g \in Goals, task[g] # None
      PROVE  task[g] \in TaskStates /\ Counts(sub, g)[MaxStarts] = Now(task[g])
    BY <1>0, <1>c DEF TypeOK, VerdictsCountOnce, Now
<1>1. ASSUME UNCHANGED <<task, sub, drawn>>
      PROVE  CountInv'
    BY <1>0, <1>1 DEF CountInv, OrderInv, VerdictsCountOnce, Accepted, Rows
<1>2. CASE Quiet
    <2>1. UNCHANGED <<task, sub, drawn>>
        BY <1>2 DEF Quiet, Publish, BeginStart, BeginSubmit, RefuseToSubmit, FindErased, Fail, Run, BeginBooking,
                    Read, Tick, engineVars, learnerVars
    <2> QED
        BY <1>1, <2>1
<1>3. ASSUME NEW g \in Goals, NEW plan \in Plans, Save(g, plan)
      PROVE  CountInv'
    BY <1>1, <1>3 DEF Save
<1>4. ASSUME NEW t \in Tasks, Start(t), ~UNCHANGED <<task, drawn>>
      PROVE  CountInv'
    <2> DEFINE g == at[t]
    <2>1. g \in Goals /\ UNCHANGED sub
        BY <1>4, StartEffect
    <2>2. PICK new \in TaskStates :
             /\ task' = [task EXCEPT ![g] = new] /\ drawn' = drawn + 1 /\ new.start = drawn + 1
             /\ Now(new) = IF task[g] = None THEN FirstCounts ELSE Now(task[g])
        BY <1>4, StartCounts
    <2> HIDE DEF g
    <2>3. task'[g] = new /\ \A h \in Goals \ {g} : task'[h] = task[h]
        BY <1>0, <2>1, <2>2 DEF TypeOK
    <2>4. OrderInv'
        <3>1. ASSUME NEW r \in Starts, sub'[r] # None
              PROVE  /\ r <= drawn'
                     /\ task'[sub'[r].goal].start # None => r <= task'[sub'[r].goal].start
            <4>1. r <= drawn /\ r \in Nat /\ sub[r].goal \in Goals
                BY <1>0, <1>s, <2>1, <3>1 DEF OrderInv
            <4>2. CASE sub[r].goal = g
                BY <1>0, <2>1, <2>2, <2>3, <4>1, <4>2
            <4>3. CASE sub[r].goal # g
                BY <1>0, <2>1, <2>2, <2>3, <3>1, <4>1, <4>3 DEF OrderInv
            <4> QED
                BY <4>2, <4>3
        <3>2. ASSUME NEW h \in Goals, task'[h] # None, task'[h].start # None
              PROVE  task'[h].start <= drawn'
            <4>1. CASE h = g
                BY <1>0, <2>2, <2>3, <4>1
            <4>2. CASE h # g
                <5>a. task[h] # None /\ task[h].start # None
                    BY <2>3, <3>2, <4>2
                <5>b. task[h].start \in Starts
                    BY <1>c, <5>a DEF TaskStates
                <5>1. task[h].start <= drawn /\ task[h].start \in Nat
                    BY <1>0, <5>a, <5>b, EngineConstantsOK DEF OrderInv, Starts
                <5> QED
                    BY <1>0, <2>2, <2>3, <4>2, <5>1
            <4> QED
                BY <4>1, <4>2
        <3>3. \A s, r \in Starts : Accepted(Rows, s)' /\ sub'[r] # None /\ sub'[r].goal = sub'[s].goal => r <= s
            BY <1>0, <2>1 DEF OrderInv, Accepted, Rows
        <3> QED
            BY <3>1, <3>2, <3>3 DEF OrderInv
    <2>5. VerdictsCountOnce'
        <3> SUFFICES ASSUME NEW h \in Goals, task'[h] # None
                     PROVE  Counts(sub, h)[MaxStarts] = Now(task'[h])
            BY <2>1 DEF VerdictsCountOnce, Now
        <3>1. CASE h = g /\ task[g] = None
            <4>1. \A s \in Starts : ~Booked(sub, g, s)
                BY <1>0, <3>1 DEF SubInv, Booked
            <4> QED
                BY <2>2, <2>3, <3>1, <4>1, CountsNone
        <3>2. CASE h = g /\ task[g] # None
            BY <1>c, <2>1, <2>2, <2>3, <3>2
        <3>3. CASE h # g
            BY <1>c, <2>3, <3>3
        <3> QED
            BY <3>1, <3>2, <3>3
    <2> QED
        BY <2>4, <2>5 DEF CountInv
<1>5. ASSUME NEW t \in Tasks, Submit(t)
      PROVE  CountInv'
    <2> DEFINE g == at[t]
               s == task[g].start
               new == [goal |-> g, rev |-> task[g].rev, plan |-> View(t).room.plans[g], state |-> "accepted"]
    <2>1. /\ g \in Goals /\ task[g] # None /\ s # None /\ s \in Starts /\ sub[s] = None
          /\ ~Pending(Rows, g)
        BY <1>5 DEF Submit, Submittable, Unique, IInv, TypeOK, AtInv, TaskStates
    <2>2. sub' = [sub EXCEPT ![s] = new] /\ UNCHANGED <<task, drawn>>
        BY <1>5 DEF Submit
    <2>3. new.goal = g /\ new.state = "accepted"
        OBVIOUS
    <2>4. s <= drawn
        BY <1>0, <2>1 DEF OrderInv
    <2>5. \A r \in Starts : sub[r] # None /\ sub[r].goal = g => r <= s
        BY <1>0, <2>1 DEF OrderInv
    <2>a. task[g].start = s
        OBVIOUS
    <2> HIDE DEF new, s, g
    <2>6. sub'[s] = new /\ \A r \in Starts \ {s} : sub'[r] = sub[r]
        BY <1>0, <2>1, <2>2 DEF TypeOK
    <2>7. s \in Nat
        BY <2>1 DEF Starts
    <2>8. OrderInv'
        <3>1. ASSUME NEW r \in Starts, sub'[r] # None
              PROVE  /\ r <= drawn'
                     /\ task'[sub'[r].goal].start # None => r <= task'[sub'[r].goal].start
            <4>1. CASE r = s
                BY <2>2, <2>3, <2>4, <2>6, <2>7, <2>a, <4>1
            <4>2. CASE r # s
                BY <1>0, <2>2, <2>6, <3>1, <4>2 DEF OrderInv
            <4> QED
                BY <4>1, <4>2
        <3>2. \A h \in Goals : task'[h] # None /\ task'[h].start # None => task'[h].start <= drawn'
            BY <1>0, <2>2 DEF OrderInv
        <3>3. ASSUME NEW q \in Starts, NEW r \in Starts, Accepted(Rows, q)', sub'[r] # None, sub'[r].goal = sub'[q].goal
              PROVE  r <= q
            <4>1. sub'[q] # None /\ sub'[q].state = "accepted"
                BY <3>3 DEF Accepted, Rows
            <4>2. CASE q = s
                <5>1. r = s \/ (sub[r] # None /\ sub[r].goal = g)
                    BY <2>3, <2>6, <3>3, <4>2
                <5> QED
                    BY <2>5, <2>7, <4>2, <5>1
            <4>3. CASE q # s
                <5>1. sub[q] # None /\ sub[q].state = "accepted" /\ Accepted(Rows, q)
                    BY <2>6, <4>1, <4>3 DEF Accepted, Rows
                <5>2. sub[q].goal # g
                    BY <2>1, <5>1 DEF Pending, Rows
                <5>3. r # s
                    BY <2>3, <2>6, <3>3, <4>3, <5>2
                <5> QED
                    BY <1>0, <2>6, <3>3, <4>3, <5>1, <5>3 DEF OrderInv
            <4> QED
                BY <4>2, <4>3
        <3> QED
            BY <3>1, <3>2, <3>3 DEF OrderInv
    <2>9. VerdictsCountOnce'
        <3> SUFFICES ASSUME NEW h \in Goals, task'[h] # None
                     PROVE  Counts(sub', h)[MaxStarts] = Now(task'[h])
            BY DEF VerdictsCountOnce, Now
        <3>1. \A r \in Starts : SameVerdict(sub', sub, h, r)
            BY <2>1, <2>3, <2>6 DEF SameVerdict, Booked
        <3>2. MaxStarts \in 0 .. MaxStarts /\ Starts = 1 .. MaxStarts
            BY EngineConstantsOK DEF Starts
        <3>3. Counts(sub', h)[MaxStarts] = Counts(sub, h)[MaxStarts]
            <4> PICK rows : rows = sub'
                OBVIOUS
            <4>1. \A r \in 1 .. MaxStarts : SameVerdict(rows, sub, h, r)
                BY <3>1, <3>2
            <4>2. Counts(rows, h)[MaxStarts] = Counts(sub, h)[MaxStarts]
                BY <3>2, <4>1, CountsAgree
            <4> QED
                BY <4>2
        <3> QED
            BY <1>c, <2>2, <3>3
    <2> QED
        BY <2>8, <2>9 DEF CountInv
<1>6. ASSUME NEW t \in Tasks, Book(t)
      PROVE  CountInv'
    <2>1. PICK s \in Starts : s = at[t] /\ sub[s] \in Submissions
        BY <1>6, BookEffect
    <2>2. PICK g \in Goals : g = sub[s].goal /\ task[g] \in TaskStates /\ UNCHANGED drawn
        BY <1>6, <2>1, BookEffect
    <2>3. CASE ~Accepted(Rows, s)
        <3>1. UNCHANGED <<task, sub, drawn>>
            BY <1>6, <2>1, <2>2, <2>3, BookEffect
        <3> QED
            BY <1>1, <3>1
    <2>4. CASE Accepted(Rows, s)
        <3>1. PICK new \in TaskStates : Judgement(t, s, g, new)
            BY <1>6, <2>1, <2>2, <2>4, BookEffect
        <3>2. /\ task'[g] = new /\ task[g] # None /\ \A h \in Goals \ {g} : task'[h] = task[h]
              /\ new.start = (IF task[g].start = s THEN None ELSE task[g].start)
            BY <1>0, <2>2, <3>1, NoneIsNoRow DEF Judgement, TypeOK
        <3>3. /\ sub[s] # None /\ sub[s].state = "accepted"
              /\ sub'[s] \in Submissions /\ sub'[s].goal = g /\ sub'[s].state = "booked"
              /\ sub'[s].plan = sub[s].plan /\ sub'[s].rev = sub[s].rev
              /\ \A r \in Starts \ {s} : sub'[r] = sub[r]
            BY <1>0, <2>1, <2>2, <2>4, <3>1 DEF Judgement, TypeOK, Submissions, Accepted, Rows
        <3>4. sub'[s] # None
            BY <3>3, NoneIsNoRow
        <3>5. OrderInv'
            <4>1. ASSUME NEW r \in Starts, sub'[r] # None
                  PROVE  /\ r <= drawn'
                         /\ task'[sub'[r].goal].start # None => r <= task'[sub'[r].goal].start
                <5>1. sub[r] # None /\ sub'[r].goal = sub[r].goal /\ sub[r].goal \in Goals
                    BY <1>s, <2>2, <3>3, <4>1
                <5>2. /\ r <= drawn
                      /\ task[sub[r].goal].start # None => r <= task[sub[r].goal].start
                    BY <1>0, <5>1 DEF OrderInv
                <5>3. CASE sub[r].goal = g
                    BY <2>2, <3>2, <5>1, <5>2, <5>3
                <5>4. CASE sub[r].goal # g
                    BY <2>2, <3>2, <5>1, <5>2, <5>4
                <5> QED
                    BY <5>3, <5>4
            <4>2. ASSUME NEW h \in Goals, task'[h] # None, task'[h].start # None
                  PROVE  task'[h].start <= drawn'
                <5>1. task[h] # None /\ task[h].start # None /\ task'[h].start = task[h].start
                    BY <3>2, <4>2
                <5> QED
                    BY <1>0, <2>2, <5>1 DEF OrderInv
            <4>3. ASSUME NEW q \in Starts, NEW r \in Starts, Accepted(Rows, q)', sub'[r] # None, sub'[r].goal = sub'[q].goal
                  PROVE  r <= q
                <5>1. sub'[q] # None /\ sub'[q].state = "accepted"
                    BY <4>3 DEF Accepted, Rows
                <5>2. q # s /\ sub'[q] = sub[q]
                    BY <3>3, <5>1
                <5>3. Accepted(Rows, q) /\ sub[r] # None /\ sub[r].goal = sub[q].goal
                    BY <2>2, <3>3, <4>3, <5>1, <5>2 DEF Accepted, Rows
                <5> QED
                    BY <1>0, <5>3 DEF OrderInv
            <4> QED
                BY <4>1, <4>2, <4>3 DEF OrderInv
        <3>6. VerdictsCountOnce'
            <4> SUFFICES ASSUME NEW h \in Goals, task'[h] # None
                         PROVE  Counts(sub', h)[MaxStarts] = Now(task'[h])
                BY DEF VerdictsCountOnce, Now
            <4>1. \A r \in Starts \ {s} : SameVerdict(sub, sub', h, r)
                BY <3>3 DEF SameVerdict, Booked
            <4>2. CASE h = g
                <5>1. ~Booked(sub, g, s) /\ Booked(sub', g, s)
                    BY <3>3, <3>4 DEF Booked
                <5>2. \A r \in Starts : Booked(sub, g, r) => r <= s
                    BY <1>0, <2>2, <2>4 DEF OrderInv, Booked
                <5>3. Counts(sub', g)[MaxStarts]
                         = Counted(Counts(sub, g)[MaxStarts], sub'[s].rev, sub'[s].plan \in GoodPlans)
                    BY <4>1, <4>2, <5>1, <5>2, CountsMore
                <5>4. Now(task'[g]) = Counted(Now(task[g]), sub[s].rev, Passes(s))
                    BY <1>6, <2>1, <2>2, <2>4, BookCounts
                <5> QED
                    BY <1>c, <3>2, <3>3, <4>2, <5>3, <5>4 DEF Passes
            <4>3. CASE h # g
                <5>1. SameVerdict(sub, sub', h, s)
                    BY <2>2, <3>3, <4>3 DEF SameVerdict, Booked
                <5>2. MaxStarts \in 0 .. MaxStarts /\ Starts = 1 .. MaxStarts
                    BY EngineConstantsOK DEF Starts
                <5>3. Counts(sub, h)[MaxStarts] = Counts(sub', h)[MaxStarts]
                    BY <4>1, <5>1, <5>2, CountsAgree
                <5> QED
                    BY <1>c, <3>2, <4>3, <5>3
            <4> QED
                BY <4>2, <4>3
        <3> QED
            BY <3>5, <3>6 DEF CountInv
    <2> QED
        BY <2>3, <2>4
<1>7. CASE Erase
    BY <1>7 DEF Erase, CountInv, OrderInv, VerdictsCountOnce, Accepted, Rows
<1>8. ASSUME NEW t \in Tasks, Start(t)
      PROVE  CountInv'
    <2>1. UNCHANGED sub
        BY <1>8, StartEffect
    <2> QED
        BY <1>1, <1>4, <1>8, <2>1
<1> QED
    BY <1>2, <1>3, <1>5, <1>6, <1>7, <1>8, NextCases

\* However often a submission is evaluated, retried or read again, under either isolation level:
\* band and counters of a task are those of its booked verdicts, each counted once, in the order
\* of their starts (book and counted of services/engine_verdicts.py).
THEOREM VerdictsCounted == Spec => []VerdictsCountOnce
<1>1. Init => CountInv
    BY DEF Init, CountInv, OrderInv, VerdictsCountOnce, Accepted, Rows
<1>2. IInv /\ CountInv /\ [Next]_engineVars => CountInv'
    BY CountStep
<1>3. CountInv => VerdictsCountOnce
    BY DEF CountInv
<1> QED
    BY <1>1, <1>2, <1>3, Invariance, PTL DEF Spec
=============================================================================
