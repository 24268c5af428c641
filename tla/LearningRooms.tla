---------------------------- MODULE LearningRooms ----------------------------
(***************************************************************************)
(* One learning room of one learner (mutate_room in services/rooms.py):    *)
(* saves, completions, skips and practice rounds, compared and swapped on  *)
(* the room's revision, with receipts that answer repeated requests, the   *)
(* single use of a grading verdict, and the lesson milestone, which the    *)
(* completing transaction queues.                                          *)
(*                                                                         *)
(* A request takes the learner's guard and keeps it to its commit, so it is *)
(* one step; but its first plain read precedes the wait for the guard, and *)
(* under RepeatableRead its plain reads see the room as it was then, after *)
(* any number of changes.  The checks of access, prerequisites and the     *)
(* daily limit may refuse any request; a refused request changes nothing.  *)
(* Engine units are in EngineTasks.                                        *)
(***************************************************************************)
EXTENDS LessonMilestones, Naturals, FiniteSetsExt, SequencesExt

CONSTANTS Kinds,          \* SUBSET {"intro", "graded", "exercise"}
          MaxChanges,     \* bound: changes of the room
          Evidence,       \* answers given, verdicts signed, or attempts made
          Passing,        \* SUBSET Evidence: right, passed, solved
          Keep,           \* receipts kept for a room
          RepeatableRead,
          None

ASSUME RoomConstantsOK == /\ Kinds \subseteq {"intro", "graded", "exercise"}
                          /\ MaxChanges \in Nat
                          /\ Passing \subseteq Evidence
                          /\ Keep \in Nat \ {0}
                          /\ RepeatableRead \in BOOLEAN
                          /\ None \notin (1 .. MaxChanges) \cup Evidence

VARIABLES kind,      \* how the unit is completed
          erased,    \* the learner's tombstone
          room,      \* RoomState, or None
          receipt,   \* [Requests -> Receipts or None]: RoomRequest
          used,      \* SUBSET Evidence: LlmVerdict
          log        \* history: the changes of the room; the n-th was made by request n

roomVars == <<kind, erased, room, receipt, used, log>>
vars == <<roomVars, milestoneVars>>

Requests == 1 .. MaxChanges
Done == {"completed", "skipped"}
Statuses == {"new", "in_progress"} \cup Done
Results == {None, "introduced", "solved"}
Content == Requests \cup {None}    \* a state is named after the request that saved it
Progresses == [revision : Nat, state : Content, status : Statuses, result : Results, review : Content]
RoomStates == [revision : Nat, state : Content, status : Statuses, result : Results,
               review : Content, reviewStatus : Statuses \cup {None}, round : Nat]
Operations == {"save", "skip", "complete", "fallback", "review"}
Proofs == [id : Evidence, round : Nat]    \* evidence and the last round that it counts for
Bodies == [op : Operations, expected : Nat, review : Content, proof : Proofs \cup {None}]
Receipts == [body : Bodies, progress : Progresses]
Changes == [body : Bodies, progress : Progresses, row : RoomStates]

ASSUME NoneIsNoRow == None \notin RoomStates \cup Receipts \cup Proofs

\* progress: what a learner is shown of a row.
Progress(row) ==
    IF row = None
    THEN [revision |-> 0, state |-> None, status |-> "new", result |-> None, review |-> None]
    ELSE LET status == IF row.review = None THEN row.status ELSE row.reviewStatus
             result == IF row.review # None /\ status = "completed" /\ row.status = "skipped"
                       THEN "introduced" ELSE row.result
         IN [revision |-> row.revision, state |-> row.state, status |-> status,
             result |-> IF status = "completed" THEN result ELSE None, review |-> row.review]
Round(row) == IF row = None THEN 0 ELSE row.round
\* Faulty variant: the oldest receipts are kept.
OldestReceipts(receipts) ==
    LET older(r) == {q \in Requests : receipts[q] # None
                                       /\ receipts[q].progress.revision < receipts[r].progress.revision}
    IN [r \in Requests |-> IF receipts[r] # None /\ Cardinality(older(r)) < Keep THEN receipts[r] ELSE None]
\* The newest receipts by revision; older ones are deleted.
NewestReceipts(receipts) ==
    LET newer(r) == {q \in Requests : receipts[q] # None
                                       /\ receipts[q].progress.revision > receipts[r].progress.revision}
    IN [r \in Requests |-> IF receipts[r] # None /\ Cardinality(newer(r)) < Keep THEN receipts[r] ELSE None]

\* The verdicts a change consumes.
Consumed(b) == IF kind = "graded" /\ b.op = "complete" THEN {b.proof.id} ELSE {}

\* The rows after the first n changes, as a plain read may see them.
RoomAt(n) == IF n = 0 THEN None ELSE log[n].row
UsedAt(n) == UNION {Consumed(log[i].body) : i \in 1 .. n}
ReceiptsAt(n) == {i \in 1 .. n : i + Keep > n}
Snapshots == IF RepeatableRead THEN 0 .. Len(log) ELSE {Len(log)}

Init == /\ MilestoneInit
        /\ kind \in Kinds
        /\ erased = FALSE
        /\ room = None
        /\ receipt = [r \in Requests |-> None]
        /\ used = {}
        /\ log = << >>
-----------------------------------------------------------------------------
\* A new request is made on what its session has seen of the room, however long ago.  What it
\* carries was answered, signed or judged in a round up to the present one.  A verdict is dated
\* in whole seconds: one of the second in which the next round starts counts for that one too.
Known(proof) == \A i \in DOMAIN log : log[i].body.proof # None /\ log[i].body.proof.id = proof.id
                                        => log[i].body.proof = proof
Given == {proof \in [id : Evidence, round : 0 .. Round(room) + (IF kind = "graded" THEN 1 ELSE 0)] : Known(proof)}
NewBodies ==
    LET on(op, n, proof) == [op |-> op, expected |-> n, review |-> Progress(RoomAt(n)).review, proof |-> proof]
    IN {on(op, n, None) : op \in Operations, n \in 0 .. Len(log)}
       \cup {on("complete", n, proof) : n \in 0 .. Len(log), proof \in Given}

\* graded_verdict: a passing verdict that no room has used; in a practice round, one of that round.
Graded(row, proof, consumed) == /\ proof.id \in Passing \ consumed
                                /\ Progress(row).review # None => proof.round >= row.round
\* challenge_status: whether challenges-ms calls the exercise solved, at any time.  Any other
\* answer, or none, refuses the request.
ChallengeStatus(proof) == proof.id \in Passing
\* review_attempt_solved: the attempt is solved and was made in this practice round.
ReviewAttemptSolved(row, proof) == proof.id \in Passing /\ proof.round >= row.round
\* What completes a room, by its kind; the exact answer of an introduction counts in every round.
Checked(row, proof, consumed) ==
    /\ proof # None
    /\ kind = "intro" => proof.id \in Passing
    /\ kind = "graded" => Graded(row, proof, consumed)
    /\ kind = "exercise" => IF Progress(row).review = None THEN ChallengeStatus(proof)
                            ELSE ReviewAttemptSolved(row, proof)

\* What mutate_room asks of a request before it writes.
Acceptable(b, row, consumed) ==
    /\ b.expected = Progress(row).revision
    /\ b.op # "review" => b.review = Progress(row).review
    /\ CASE b.op = "save" -> TRUE
         [] b.op = "review" -> row # None /\ row.status \in Done /\ row.reviewStatus # "in_progress"
         [] OTHER -> /\ Progress(row).status \notin Done
                     /\ b.op = "skip" => kind # "exercise"
                     /\ b.op = "fallback" => kind = "graded"
                     /\ b.op = "complete" => Checked(row, b.proof, consumed)

\* The progress a request leads to.
Advanced(r, b, row) ==
    LET now == Progress(row)  next == [now EXCEPT !.revision = @ + 1] IN
    CASE b.op = "save" -> [next EXCEPT !.state = r, !.status = IF @ = "new" THEN "in_progress" ELSE @]
      [] b.op = "review" -> [next EXCEPT !.state = None, !.status = "in_progress", !.result = None, !.review = r]
      [] b.op = "skip" -> [next EXCEPT !.status = "skipped", !.result = None]
      [] OTHER -> [next EXCEPT !.status = "completed",
                               !.result = IF kind = "exercise" THEN "solved" ELSE "introduced"]

\* Faulty variant: a practice round starts the achievement again.
WrittenOver(r, b, row, p) ==
    [revision |-> p.revision, state |-> p.state, status |-> p.status, result |-> p.result,
     review |-> p.review, reviewStatus |-> IF p.review = None THEN None ELSE p.status,
     round |-> IF b.op = "review" THEN row.round + 1 ELSE Round(row)]

\* The row that records it: a practice round never rewrites the original achievement.
Written(r, b, row, p) ==
    IF p.review = None
    THEN [revision |-> p.revision, state |-> p.state, status |-> p.status, result |-> p.result,
          review |-> None, reviewStatus |-> None, round |-> 0]
    ELSE [row EXCEPT !.revision = p.revision, !.state = p.state, !.review = p.review,
                     !.reviewStatus = p.status, !.round = IF b.op = "review" THEN @ + 1 ELSE @]

\* Faulty variant: an answer earns the milestone in every round.
EarnsMilestoneInRepeats(b, row) == b.op = "complete" /\ kind # "exercise"
\* An exact answer counts in the first round only, a verified pass in every round.
EarnsMilestone(b, row) == /\ b.op = "complete"
                          /\ \/ kind = "graded"
                             \/ kind = "intro" /\ Progress(row).review = None

\* Faulty variant: the update looks for the room whatever its revision is.
SwapsAnyRevision(b, row, r) == (row = None) <=> (room = None)
\* The swap and the unique keys: what the database refuses although the request was acceptable.
Swaps(b, row, r) == /\ IF row = None THEN room = None ELSE room # None /\ room.revision = b.expected
                    /\ receipt[r] = None
                    /\ used \cap Consumed(b) = {}
-----------------------------------------------------------------------------
\* mutate_room on plain reads as old as the n-th change: the change, its receipt, the verdict
\* and the milestone it earns are one commit.  Any other request is answered from its receipt
\* or refused.
Mutate(r, b, n) ==
    LET row == RoomAt(n)  p == Advanced(r, b, row) IN
    /\ ~erased
    /\ r \notin ReceiptsAt(n)
    /\ Acceptable(b, row, UsedAt(n))
    /\ Swaps(b, row, r)
    /\ room' = Written(r, b, row, p)
    /\ used' = used \cup Consumed(b)
    /\ receipt' = NewestReceipts([receipt EXCEPT ![r] = [body |-> b, progress |-> p]])
    /\ log' = Append(log, [body |-> b, progress |-> p, row |-> room'])
    /\ Enqueue(EarnsMilestone(b, row))
    /\ UNCHANGED <<kind, erased, sender, stray, booked, gone>>

\* A new request, or an earlier one once more: its answer was lost, or it was sent twice.
Arriving(r) == IF r \in DOMAIN log THEN {log[r].body} ELSE NewBodies

\* delete_user_data takes the room, its receipts and verdicts and the outbox row.
Erase == /\ ~erased
         /\ erased' = TRUE
         /\ room' = None
         /\ receipt' = [r \in Requests |-> None]
         /\ used' = {}
         /\ outbox' = "none"
         /\ due' = FALSE
         /\ UNCHANGED <<kind, log, sender, stray, booked, gone>>

Next == \/ \E r \in Requests, n \in Snapshots :
              r <= Len(log) + 1 /\ \E b \in Arriving(r) : Mutate(r, b, n)
        \/ Erase
        \/ MilestoneNext /\ UNCHANGED roomVars

Spec == Init /\ [][Next]_vars
FairSpec == Spec /\ MilestoneFairness
-----------------------------------------------------------------------------
TypeOK == /\ MilestoneTypeOK
          /\ kind \in Kinds
          /\ erased \in BOOLEAN
          /\ room \in RoomStates \cup {None}
          /\ receipt \in [Requests -> Receipts \cup {None}]
          /\ used \subseteq Evidence
          /\ log \in Seq(Changes)

\* Every change of a room was made on the version before it, whatever sessions write and however
\* late or often a request arrives, so none is lost and none is applied twice; and nothing is
\* left or comes back once the account is erased.
ChangesFollowEachOther ==
    IF erased
    THEN room = None /\ used = {} /\ \A r \in Requests : receipt[r] = None
    ELSE /\ room = RoomAt(Len(log))
         /\ \A n \in DOMAIN log : log[n].body.expected = n - 1 /\ log[n].row.revision = n

\* The latest changes can be repeated: their receipts have the progress a learner saw then.
LatestChangesRepeatable ==
    ~erased => \A n \in DOMAIN log :
        receipt[n] = IF n \in ReceiptsAt(Len(log))
                     THEN [body |-> log[n].body, progress |-> Progress(log[n].row)] ELSE None

\* What a learner has achieved in a room stays as it is, whatever a practice round does later.
AchievementKept == [][room # None /\ room.status \in Done =>
                        room' = None \/ (room'.status = room.status /\ room'.result = room.result)]_room

\* A verdict completes one round of a room, never two.
VerdictUsedOnce ==
    kind = "graded" => \A i, j \in DOMAIN log :
        log[i].body.proof # None /\ log[j].body.proof # None /\ log[i].body.proof.id = log[j].body.proof.id => i = j

\* The milestone is queued by the completions that were checked, and by no skip, no fallback and
\* no answer given in a practice round; what challenges-ms has booked was queued.
Checks(i) == /\ log[i].body.op = "complete"
             /\ \/ kind = "graded"
                \/ kind = "intro" /\ \A j \in 1 .. i - 1 : log[j].body.op # "review"
Earned == \E i \in DOMAIN log : Checks(i)
MilestoneIsEarned == /\ outbox # "none" <=> ~erased /\ Earned
                     /\ booked => Earned
                     /\ OutboxIsTrue

\* The history of a room is one line of changes, none of which uses a verdict of another.
HistoryIsSound == TypeOK /\ ChangesFollowEachOther /\ VerdictUsedOnce

\* What is final stays: the achievement in a room, and what the outbox recorded of its milestone.
FinalIsKept == AchievementKept /\ OutcomeIsFinal
=============================================================================
