------------------------ MODULE LearningRoomsProofs ------------------------
(***************************************************************************)
(* Proofs about LearningRooms for any number of changes, evidence, kept    *)
(* receipts and senders, and either isolation level: a room's history is   *)
(* one line of changes, the latest of them can be repeated, the milestone  *)
(* is queued by checked completions only, and what is final stays.  And    *)
(* about RoomStream for any catalogue, learner and request: what next_room *)
(* answers can be opened, the stream never ends too early, what is new     *)
(* comes before practice, and achievements stay.  The two have no variable *)
(* in common.                                                              *)
(***************************************************************************)
EXTENDS LearningRooms, RoomStream, FiniteSetTheorems, SequenceTheorems, WellFoundedInduction, TLAPS

\* What a room records: a practice round has a status of its own and follows an achievement, which
\* has the result of its kind; an exercise is never skipped.
ResultOf(k) == IF k = "exercise" THEN "solved" ELSE "introduced"
Achievement == ResultOf(kind)
RowOK(row, k) == /\ row.reviewStatus \in IF row.review = None THEN {None} ELSE Statuses
                 /\ row.review # None => row.status \in Done
                 /\ row.status = "completed" => row.result = ResultOf(k)
                 /\ row.status = "skipped" => k # "exercise" /\ row.result = None

\* The n-th change: the first practice round gives the room a review, only a completion carries
\* evidence, and what the learner was shown is what the row shows.
ChangeOK(n) == /\ log[n].body.expected = n - 1
               /\ log[n].row.revision = n
               /\ RowOK(log[n].row, kind)
               /\ log[n].row.review = None <=> \A j \in 1 .. n : log[j].body.op # "review"
               /\ log[n].body.proof # None <=> log[n].body.op = "complete"
               /\ log[n].progress = Progress(log[n].row)
LogInv == \A n \in DOMAIN log : ChangeOK(n)

\* A verdict of the history is used, in the history once.
UsedInv == kind = "graded" =>
              /\ ~erased => \A n \in DOMAIN log : log[n].body.op = "complete" => log[n].body.proof.id \in used
              /\ VerdictUsedOnce

\* Only the changes have receipts, and the latest of them have theirs.
Receipt(n) == [body |-> log[n].body, progress |-> log[n].progress]
ReceiptInv == ~erased =>
    /\ \A n \in DOMAIN log : receipt[n] = IF n + Keep > Len(log) THEN Receipt(n) ELSE None
    /\ \A r \in Requests \ DOMAIN log : receipt[r] = None

\* Whatever is on its way to challenges-ms was queued, so the milestone is earned.
SenderInv == /\ \A s \in Senders : /\ sender[s] # "idle" => Earned
                                   /\ sender[s] = "delivered" => booked \/ gone
                                   /\ sender[s] = "erased" => gone
             /\ stray => Earned

IInv == /\ TypeOK
        /\ ChangesFollowEachOther
        /\ LogInv
        /\ UsedInv
        /\ ReceiptInv
        /\ SenderInv
        /\ MilestoneIsEarned
-----------------------------------------------------------------------------
\* The inductive invariant holds before any request.
LEMMA InitInv == Init => IInv
<1> SUFFICES ASSUME Init
             PROVE  IInv
    OBVIOUS
<1>0. log = << >> /\ Len(log) = 0 /\ DOMAIN log = {} /\ log \in Seq(Changes)
    BY DEF Init
<1> USE DEF Init, MilestoneInit
<1>1. TypeOK
    BY <1>0 DEF TypeOK, MilestoneTypeOK, SenderStates
<1>2. ChangesFollowEachOther
    BY <1>0 DEF ChangesFollowEachOther, RoomAt
<1>3. LogInv /\ UsedInv /\ ReceiptInv
    BY <1>0 DEF LogInv, UsedInv, VerdictUsedOnce, ReceiptInv
<1>4. SenderInv /\ MilestoneIsEarned
    BY <1>0 DEF SenderInv, MilestoneIsEarned, Earned, OutboxIsTrue
<1> QED
    BY <1>1, <1>2, <1>3, <1>4 DEF IInv

\* What a learner is shown of a row: a completed round has the result of its kind.
LEMMA ShownOf ==
    ASSUME NEW row \in RoomStates, RowOK(row, kind)
    PROVE  LET status == IF row.review = None THEN row.status ELSE row.reviewStatus
           IN  /\ status \in Statuses
               /\ Progress(row) = [revision |-> row.revision, state |-> row.state, status |-> status,
                                   result |-> IF status = "completed" THEN Achievement ELSE None,
                                   review |-> row.review]
<1> DEFINE status == IF row.review = None THEN row.status ELSE row.reviewStatus
<1>1. row # None
    BY NoneIsNoRow
<1>2. status \in Statuses
    BY DEF RowOK, RoomStates
<1>3. ASSUME status = "completed"
      PROVE  (IF row.review # None /\ row.status = "skipped" THEN "introduced" ELSE row.result) = Achievement
    BY <1>3 DEF RowOK, Achievement, ResultOf, Done
<1> QED
    BY <1>1, <1>2, <1>3 DEF Progress

\* What is shown is a progress, also of a room that does not exist yet.
ShownOK(now) == /\ now \in Progresses
                /\ now.result = IF now.status = "completed" THEN Achievement ELSE None

\* The progress of a sound row can be shown.
LEMMA ProgressOK ==
    ASSUME NEW row \in RoomStates \cup {None}, row # None => RowOK(row, kind)
    PROVE  ShownOK(Progress(row))
<1>1. CASE row = None
    BY <1>1 DEF Progress, ShownOK, Progresses, Content, Statuses, Results
<1>2. CASE row # None
    <2>1. Achievement \in Results
        BY DEF Achievement, ResultOf, Results
    <2>2. None \in Results
        BY DEF Results
    <2> QED
        BY <1>2, <2>1, <2>2, ShownOf DEF ShownOK, Progresses, RoomStates
<1> QED
    BY <1>1, <1>2

\* The progress a request leads to: a new revision, and the result of the kind if it completes.
LEMMA AdvancedOK ==
    ASSUME NEW row, ShownOK(Progress(row)), NEW r \in Requests, NEW b \in Bodies
    PROVE  LET now == Progress(row)  p == Advanced(r, b, row)
           IN  /\ ShownOK(p)
               /\ p.revision = now.revision + 1
               /\ p.review = IF b.op = "review" THEN r ELSE now.review
               /\ p.status = CASE b.op = "save" -> IF now.status = "new" THEN "in_progress" ELSE now.status
                               [] b.op = "review" -> "in_progress"
                               [] b.op = "skip" -> "skipped"
                               [] OTHER -> "completed"
<1> PICK now \in Progresses : now = Progress(row)
    BY DEF ShownOK
<1>1. now.result = IF now.status = "completed" THEN Achievement ELSE None
    BY DEF ShownOK
<1>2. /\ r \in Content /\ None \in Content
      /\ Achievement \in Results /\ None \in Results
      /\ {"in_progress", "skipped", "completed"} \subseteq Statuses
    BY DEF Content, Results, Statuses, Done, Achievement, ResultOf
<1> PICK next \in Progresses : /\ next = [now EXCEPT !.revision = @ + 1]
                               /\ next.revision = now.revision + 1 /\ next.review = now.review
                               /\ next.status = now.status /\ next.result = now.result
    <2> DEFINE e == [now EXCEPT !.revision = @ + 1]
    <2>1. /\ e \in Progresses
          /\ e.revision = now.revision + 1 /\ e.review = now.review
          /\ e.status = now.status /\ e.result = now.result
        BY DEF Progresses
    <2> HIDE DEF e
    <2> QED
        BY <2>1 DEF e
<1>3. CASE b.op = "save"
    <2> DEFINE p == [next EXCEPT !.state = r, !.status = IF @ = "new" THEN "in_progress" ELSE @]
    <2>1. Advanced(r, b, row) = p
        BY <1>3 DEF Advanced
    <2>2. /\ p \in Progresses
          /\ p.revision = now.revision + 1 /\ p.review = now.review /\ p.result = now.result
          /\ p.status = IF now.status = "new" THEN "in_progress" ELSE now.status
        BY <1>2 DEF Progresses
    <2> QED
        BY <1>1, <1>3, <2>1, <2>2 DEF ShownOK
<1>4. CASE b.op = "review"
    <2> DEFINE p == [next EXCEPT !.state = None, !.status = "in_progress", !.result = None, !.review = r]
    <2>1. Advanced(r, b, row) = p
        BY <1>4 DEF Advanced
    <2>2. /\ p \in Progresses
          /\ p.revision = now.revision + 1 /\ p.review = r /\ p.result = None /\ p.status = "in_progress"
        BY <1>2 DEF Progresses
    <2> QED
        BY <1>4, <2>1, <2>2 DEF ShownOK
<1>5. CASE b.op = "skip"
    <2> DEFINE p == [next EXCEPT !.status = "skipped", !.result = None]
    <2>1. Advanced(r, b, row) = p
        BY <1>5 DEF Advanced
    <2>2. /\ p \in Progresses
          /\ p.revision = now.revision + 1 /\ p.review = now.review /\ p.result = None /\ p.status = "skipped"
        BY <1>2 DEF Progresses
    <2> QED
        BY <1>5, <2>1, <2>2 DEF ShownOK
<1>6. CASE b.op \notin {"save", "review", "skip"}
    <2> DEFINE p == [next EXCEPT !.status = "completed",
                                 !.result = IF kind = "exercise" THEN "solved" ELSE "introduced"]
    <2>1. Advanced(r, b, row) = p
        BY <1>6 DEF Advanced
    <2>2. /\ p \in Progresses
          /\ p.revision = now.revision + 1 /\ p.review = now.review /\ p.result = Achievement
          /\ p.status = "completed"
        BY <1>2 DEF Progresses, Achievement, ResultOf
    <2> QED
        BY <1>6, <2>1, <2>2 DEF ShownOK
<1> QED
    BY <1>3, <1>4, <1>5, <1>6

\* The row that a request writes records what it leads to, and keeps the achievement.
LEMMA WrittenOK ==
    ASSUME NEW row \in RoomStates \cup {None}, row # None => RowOK(row, kind),
           NEW r \in Requests, NEW b \in Bodies, NEW taken, Acceptable(b, row, taken)
    PROVE  LET now == Progress(row)  p == Advanced(r, b, row)  w == Written(r, b, row, p)
           IN  /\ p \in Progresses /\ p.revision = b.expected + 1
               /\ p.review = IF b.op = "review" THEN r ELSE now.review
               /\ w \in RoomStates /\ RowOK(w, kind) /\ Progress(w) = p
               /\ w.revision = p.revision /\ w.review = p.review
               /\ row # None /\ row.status \in Done => w.status = row.status /\ w.result = row.result
<1>1. ShownOK(Progress(row))
    BY ProgressOK
<1> PICK now \in Progresses : now = Progress(row)
    BY <1>1 DEF ShownOK
<1> PICK p \in Progresses : p = Advanced(r, b, row)
    BY <1>1, AdvancedOK DEF ShownOK
<1>2. /\ p.revision = now.revision + 1 /\ now.revision = b.expected
      /\ p.review = IF b.op = "review" THEN r ELSE now.review
      /\ p.status = CASE b.op = "save" -> IF now.status = "new" THEN "in_progress" ELSE now.status
                      [] b.op = "review" -> "in_progress"
                      [] b.op = "skip" -> "skipped"
                      [] OTHER -> "completed"
      /\ p.result = IF p.status = "completed" THEN Achievement ELSE None
    BY <1>1, AdvancedOK DEF ShownOK, Acceptable
<1>3. row # None => /\ now.revision = row.revision /\ now.review = row.review
                    /\ now.status = IF row.review = None THEN row.status ELSE row.reviewStatus
    BY ShownOf
<1>4. row = None => now.review = None /\ now.status = "new"
    BY DEF Progress
<1>5. r # None
    BY RoomConstantsOK DEF Requests
<1>6. /\ b.op = "review" => row # None /\ row.status \in Done
      /\ b.op \notin {"save", "review"} => now.status \notin Done
      /\ b.op = "skip" => kind # "exercise"
    BY DEF Acceptable
<1> DEFINE w == Written(r, b, row, p)
<1>7. CASE p.review = None
    <2>1. w = [revision |-> p.revision, state |-> p.state, status |-> p.status, result |-> p.result,
               review |-> None, reviewStatus |-> None, round |-> 0]
        BY <1>7 DEF Written
    <2>2. w \in RoomStates
        BY <1>7, <2>1 DEF Progresses, RoomStates
    <2>3. now.review = None /\ b.op # "review"
        BY <1>2, <1>5, <1>7
    <2>4. p.status = "skipped" => kind # "exercise"
        <3>1. CASE b.op = "skip"
            BY <3>1, <1>6
        <3>2. CASE b.op # "skip"
            <4> SUFFICES ASSUME p.status = "skipped"
                         PROVE  kind # "exercise"
                OBVIOUS
            <4>1. now.status = "skipped"
                BY <3>2, <2>3, <1>2
            <4> QED
                BY <4>1, <2>3, <1>3, <1>4 DEF RowOK
        <3> QED
            BY <3>1, <3>2
    <2>5. RowOK(w, kind)
        BY <2>1, <2>4, <1>2 DEF RowOK, Achievement
    <2>6. Progress(w) = p
        <3>1. p = [revision |-> p.revision, state |-> p.state, status |-> p.status,
                   result |-> p.result, review |-> p.review]
            BY DEF Progresses
        <3> HIDE DEF w
        <3> QED
            BY <3>1, <2>1, <2>2, <2>5, <1>2, <1>7, ShownOf
    <2>7. ASSUME row # None, row.status \in Done
          PROVE  w.status = row.status /\ w.result = row.result
        <3>1. now.status = row.status
            BY <2>7, <2>3, <1>3
        <3>2. b.op = "save" /\ p.status = row.status
            BY <3>1, <2>7, <2>3, <1>2, <1>6 DEF Done
        <3> QED
            BY <3>2, <2>1, <2>7, <1>2 DEF RowOK, Done, Achievement
    <2> HIDE DEF w
    <2> QED
        BY <1>2, <1>7, <2>1, <2>2, <2>5, <2>6, <2>7 DEF w
<1>8. CASE p.review # None
    <2>1. row \in RoomStates /\ row.status \in Done
        BY <1>2, <1>3, <1>4, <1>6, <1>8 DEF RowOK
    <2>2. /\ w \in RoomStates
          /\ w.revision = p.revision /\ w.state = p.state /\ w.review = p.review
          /\ w.reviewStatus = p.status /\ w.status = row.status /\ w.result = row.result
        <3> PICK k \in Nat : k = IF b.op = "review" THEN row.round + 1 ELSE row.round
            BY <2>1 DEF RoomStates
        <3>1. w = [row EXCEPT !.revision = p.revision, !.state = p.state, !.review = p.review,
                              !.reviewStatus = p.status, !.round = k]
            BY <1>8, <2>1 DEF Written, RoomStates
        <3> HIDE DEF w
        <3>2. p.revision \in Nat /\ p.state \in Content /\ p.review \in Content /\ p.status \in Statuses
            BY DEF Progresses
        <3> QED
            BY <2>1, <3>1, <3>2 DEF RoomStates
    <2> HIDE DEF w
    <2>3. RowOK(w, kind)
        BY <2>1, <2>2, <1>8, NoneIsNoRow DEF RowOK, Progresses
    <2>4. Progress(w) = p
        <3>1. p = [revision |-> p.revision, state |-> p.state, status |-> p.status,
                   result |-> p.result, review |-> p.review]
            BY DEF Progresses
        <3> QED
            BY <3>1, <2>2, <2>3, <1>2, <1>8, ShownOf
    <2> QED
        BY <1>2, <2>2, <2>3, <2>4 DEF w
<1> QED
    BY <1>7, <1>8
-----------------------------------------------------------------------------
\* The room after the n-th change has revision n and records what a room may.
LEMMA RoomAtOK ==
    ASSUME TypeOK, LogInv, NEW n \in 0 .. Len(log)
    PROVE  /\ RoomAt(n) \in RoomStates \cup {None}
           /\ RoomAt(n) = None <=> n = 0
           /\ RoomAt(n) # None => RowOK(RoomAt(n), kind) /\ RoomAt(n).revision = n
           /\ Progress(RoomAt(n)).revision = n
<1>1. CASE n = 0
    BY <1>1 DEF RoomAt, Progress
<1>2. CASE n # 0
    <2>1. n \in DOMAIN log /\ log[n] \in Changes
        BY <1>2 DEF TypeOK
    <2>2. RoomAt(n) = log[n].row /\ log[n].row \in RoomStates
        BY <1>2, <2>1 DEF RoomAt, Changes
    <2>3. RowOK(log[n].row, kind) /\ log[n].row.revision = n
        BY <2>1 DEF LogInv, ChangeOK
    <2> QED
        BY <1>2, <2>2, <2>3, ShownOf, NoneIsNoRow
<1> QED
    BY <1>1, <1>2

\* What a request asks for is typed, and only a completion carries evidence.
LEMMA NewBodiesOK ==
    ASSUME TypeOK, LogInv, NEW b \in NewBodies
    PROVE  b \in Bodies /\ (b.proof # None => b.op = "complete")
<1>1. Len(log) \in Nat
    BY DEF TypeOK
<1>2. \A n \in 0 .. Len(log) : Progress(RoomAt(n)).review \in Content
    <2> TAKE n \in 0 .. Len(log)
    <2>1. ShownOK(Progress(RoomAt(n)))
        BY RoomAtOK, ProgressOK
    <2> QED
        BY <2>1 DEF ShownOK, Progresses
<1>3. Given \subseteq Proofs
    <2>1. Round(room) \in Nat
        BY DEF Round, TypeOK, RoomStates
    <2> QED
        BY <2>1 DEF Given, Proofs
<1>4. "complete" \in Operations
    BY DEF Operations
<1> DEFINE on(op, n, proof) == [op |-> op, expected |-> n, review |-> Progress(RoomAt(n)).review, proof |-> proof]
<1>5. CASE \E op \in Operations, n \in 0 .. Len(log) : b = on(op, n, None)
    BY <1>1, <1>2, <1>5 DEF Bodies
<1>6. CASE \E n \in 0 .. Len(log), proof \in Given : b = on("complete", n, proof)
    BY <1>1, <1>2, <1>3, <1>4, <1>6 DEF Bodies
<1> QED
    BY <1>5, <1>6 DEF NewBodies

\* A request changes the room only as the next change: whatever its session has seen and however
\* often it arrives, it was made on the room as it is, and it was not made before.
LEMMA MutateIsNext ==
    ASSUME IInv, NEW r \in Requests, NEW n \in Snapshots, r <= Len(log) + 1,
           NEW b \in Arriving(r), Mutate(r, b, n)
    PROVE  /\ r = Len(log) + 1
           /\ RoomAt(n) = room
           /\ b \in Bodies /\ b.expected = Len(log)
           /\ b.proof # None <=> b.op = "complete"
<1> USE DEF IInv
<1>1. Len(log) \in Nat /\ n \in 0 .. Len(log)
    BY DEF TypeOK, Snapshots
<1>2. room = RoomAt(Len(log))
    BY DEF ChangesFollowEachOther, Mutate
<1>3. b.expected = n
    BY <1>1, RoomAtOK DEF Mutate, Acceptable
<1>4. n = Len(log)
    <2>1. RoomAt(n) = None <=> n = 0
        BY <1>1, RoomAtOK
    <2>2. Len(log) \in 0 .. Len(log)
        BY <1>1
    <2>3. /\ room = None <=> Len(log) = 0
          /\ room # None => room.revision = Len(log)
        BY <1>2, <2>2, RoomAtOK
    <2>4. IF RoomAt(n) = None THEN room = None ELSE room # None /\ room.revision = b.expected
        BY DEF Mutate, Swaps
    <2> QED
        BY <1>3, <2>1, <2>3, <2>4
<1>5. r \notin DOMAIN log
    <2> SUFFICES ASSUME r \in DOMAIN log
                 PROVE  FALSE
        OBVIOUS
    <2>1. b.expected = r - 1
        BY DEF Arriving, LogInv, ChangeOK
    <2> QED
        BY <1>1, <1>3, <1>4, <2>1 DEF TypeOK
<1>6. r = Len(log) + 1
    BY <1>1, <1>5 DEF TypeOK, Requests
<1>7. b \in Bodies /\ (b.proof # None => b.op = "complete")
    BY <1>5, NewBodiesOK DEF Arriving
<1>8. b.op = "complete" => b.proof # None
    BY DEF Mutate, Acceptable, Checked
<1> QED
    BY <1>2, <1>3, <1>4, <1>6, <1>7, <1>8

\* What the next change does: it writes a row of the next revision that keeps the achievement.
LEMMA MutateEffect ==
    ASSUME IInv, NEW r \in Requests, NEW n \in Snapshots, r <= Len(log) + 1,
           NEW b \in Arriving(r), Mutate(r, b, n)
    PROVE  LET change == [body |-> b, progress |-> Progress(room'), row |-> room']
           IN  /\ room' \in RoomStates /\ RowOK(room', kind) /\ room'.revision = r
               /\ room'.review = None <=> b.op # "review" /\ (room # None => room.review = None)
               /\ room # None /\ room.status \in Done =>
                     room'.status = room.status /\ room'.result = room.result
               /\ change \in Changes
               /\ log' \in Seq(Changes) /\ Len(log') = r /\ log'[r] = change
               /\ \A i \in 1 .. Len(log) : log'[i] = log[i]
               /\ receipt' = NewestReceipts([receipt EXCEPT ![r] = [body |-> b, progress |-> Progress(room')]])
<1> USE DEF IInv
<1>1. /\ r = Len(log) + 1 /\ RoomAt(n) = room
      /\ b \in Bodies /\ b.expected = Len(log)
    BY MutateIsNext
<1>2. Len(log) \in Nat /\ n \in 0 .. Len(log)
    BY DEF TypeOK, Snapshots
<1>3. room \in RoomStates \cup {None} /\ (room # None => RowOK(room, kind))
    BY <1>1, <1>2, RoomAtOK
<1> DEFINE p == Advanced(r, b, room)
<1>4. /\ Acceptable(b, room, UsedAt(n))
      /\ room' = Written(r, b, room, p)
      /\ receipt' = NewestReceipts([receipt EXCEPT ![r] = [body |-> b, progress |-> p]])
      /\ log' = Append(log, [body |-> b, progress |-> p, row |-> room'])
    BY <1>1 DEF Mutate
<1>5. /\ p \in Progresses /\ p.revision = b.expected + 1
      /\ p.review = IF b.op = "review" THEN r ELSE Progress(room).review
      /\ room' \in RoomStates /\ RowOK(room', kind) /\ Progress(room') = p
      /\ room'.revision = p.revision /\ room'.review = p.review
      /\ room # None /\ room.status \in Done => room'.status = room.status /\ room'.result = room.result
    BY <1>1, <1>3, <1>4, WrittenOK
<1> HIDE DEF p
<1>6. Progress(room).review = IF room = None THEN None ELSE room.review
    BY <1>3, ShownOf DEF Progress
<1>7. r # None
    BY RoomConstantsOK DEF Requests
<1> DEFINE change == [body |-> b, progress |-> p, row |-> room']
<1>8. change \in Changes
    BY <1>1, <1>5 DEF Changes
<1> HIDE DEF change
<1>9. log' = Append(log, change) /\ log \in Seq(Changes)
    BY <1>4 DEF change, TypeOK
<1>10. /\ log' \in Seq(Changes) /\ Len(log') = r /\ log'[r] = change
       /\ \A i \in 1 .. Len(log) : log'[i] = log[i]
    BY <1>1, <1>8, <1>9, AppendProperties
<1> QED
    BY <1>1, <1>4, <1>5, <1>6, <1>7, <1>8, <1>10 DEF change
-----------------------------------------------------------------------------
\* The receipts that are kept are those of the latest changes, with what the learner was shown.
LEMMA ReceiptsKept ==
    ASSUME TypeOK, LogInv, ReceiptInv, ~erased, NEW m \in Nat, m = Len(log) + 1, m \in Requests,
           NEW new \in Receipts, new.progress.revision = m
    PROVE  NewestReceipts([receipt EXCEPT ![m] = new]) =
              [r \in Requests |-> IF r <= m /\ r + Keep > m
                                  THEN IF r = m THEN new ELSE Receipt(r) ELSE None]
<1> DEFINE rc == [receipt EXCEPT ![m] = new]
           newer(r) == {q \in Requests : rc[q] # None /\ rc[q].progress.revision > rc[r].progress.revision}
<1>0. /\ Len(log) \in Nat /\ Keep \in Nat \ {0} /\ Requests \subseteq Nat
      /\ DOMAIN log = 1 .. Len(log) /\ receipt \in [Requests -> Receipts \cup {None}]
      /\ \A x \in 1 .. m : x \in Requests
    BY RoomConstantsOK DEF TypeOK, Requests
<1>1. \A r \in Requests : r <= Len(log) =>
          /\ rc[r] = IF r + Keep > Len(log) THEN Receipt(r) ELSE None
          /\ Receipt(r).progress.revision = r /\ Receipt(r) # None
    <2> TAKE r \in Requests
    <2> SUFFICES ASSUME r <= Len(log)
                 PROVE  /\ rc[r] = IF r + Keep > Len(log) THEN Receipt(r) ELSE None
                        /\ Receipt(r).progress.revision = r /\ Receipt(r) # None
        OBVIOUS
    <2>1. r \in DOMAIN log /\ r # m
        BY <1>0 DEF Requests
    <2>2. log[r] \in Changes
        BY <2>1 DEF TypeOK
    <2>3. Receipt(r) \in Receipts
        BY <2>2 DEF Receipt, Receipts, Changes
    <2>4. Receipt(r).progress.revision = r
        <3>1. log[r].progress = Progress(log[r].row) /\ RowOK(log[r].row, kind) /\ log[r].row.revision = r
            BY <2>1 DEF LogInv, ChangeOK
        <3>2. log[r].row \in RoomStates
            BY <2>2 DEF Changes
        <3> QED
            BY <3>1, <3>2, ShownOf DEF Receipt
    <2>5. receipt[r] = IF r + Keep > Len(log) THEN Receipt(r) ELSE None
        BY <2>1 DEF ReceiptInv
    <2> QED
        BY <1>0, <2>1, <2>3, <2>4, <2>5, NoneIsNoRow
<1>2. rc[m] = new /\ new # None
    BY <1>0, NoneIsNoRow
<1>3. \A r \in Requests : r > m => rc[r] = None
    BY <1>0 DEF ReceiptInv
<1> HIDE DEF rc
<1>4. \A r \in Requests : r <= m /\ r + Keep > Len(log) =>
          /\ rc[r] = (IF r = m THEN new ELSE Receipt(r)) /\ rc[r] # None
          /\ rc[r].progress.revision = r
    BY <1>0, <1>1, <1>2
<1>5. \A r \in Requests : rc[r] # None <=> r <= m /\ r + Keep > Len(log)
    BY <1>0, <1>1, <1>2, <1>3
<1>6. ASSUME NEW r \in Requests, r <= m, r + Keep > Len(log)
      PROVE  Cardinality(newer(r)) < Keep <=> r + Keep > m
    <2>0. r \in Nat /\ rc[r].progress.revision = r
        BY <1>0, <1>4, <1>6
    <2>1. \A q \in Requests : q \in newer(r) <=> q > r /\ q <= m
        <3> TAKE q \in Requests
        <3>1. q \in Nat /\ (q > r => q + Keep > Len(log))
            BY <1>0, <1>6, <2>0
        <3>2. CASE rc[q] # None
            BY <2>0, <3>1, <3>2, <1>4, <1>5
        <3>3. CASE rc[q] = None
            BY <3>1, <3>3, <1>5
        <3> QED
            BY <3>2, <3>3
    <2> DEFINE next == r + 1
    <2>2. next \in Int /\ m \in Int
        BY <2>0
    <2>3. newer(r) = next .. m
        <3> HIDE DEF newer
        <3>1. newer(r) \subseteq Requests
            BY DEF newer
        <3>2. \A q : q \in next .. m <=> q \in Requests /\ q > r /\ q <= m
            BY <1>0, <2>0 DEF Requests
        <3> QED
            BY <2>1, <3>1, <3>2
    <2> HIDE DEF next, newer
    <2>4. Cardinality(next .. m) = IF next > m THEN 0 ELSE m - next + 1
        BY <2>2, FS_Interval
    <2> QED
        BY <1>0, <1>6, <2>0, <2>3, <2>4 DEF next
<1>7. NewestReceipts(rc) = [r \in Requests |-> IF rc[r] # None /\ Cardinality(newer(r)) < Keep
                                               THEN rc[r] ELSE None]
    BY DEF NewestReceipts
<1> HIDE DEF newer
<1>8. \A r \in Requests : (IF rc[r] # None /\ Cardinality(newer(r)) < Keep THEN rc[r] ELSE None)
                          = IF r <= m /\ r + Keep > m THEN IF r = m THEN new ELSE Receipt(r) ELSE None
    <2> TAKE r \in Requests
    <2>1. r \in Nat /\ (r + Keep > m => r + Keep > Len(log))
        BY <1>0
    <2>2. CASE r <= m /\ r + Keep > Len(log)
        BY <2>2, <1>4, <1>6
    <2>3. CASE ~(r <= m /\ r + Keep > Len(log))
        BY <2>1, <2>3, <1>5
    <2> QED
        BY <2>2, <2>3
<1> QED
    BY <1>7, <1>8 DEF rc
-----------------------------------------------------------------------------
\* A room is in its first round until a practice round is begun.
LEMMA FirstRound ==
    ASSUME IInv, ~erased
    PROVE  (room # None => room.review = None) <=> \A j \in 1 .. Len(log) : log[j].body.op # "review"
<1> USE DEF IInv
<1>1. room = RoomAt(Len(log)) /\ Len(log) \in Nat /\ DOMAIN log = 1 .. Len(log)
    BY DEF ChangesFollowEachOther, TypeOK
<1>2. CASE Len(log) = 0
    BY <1>1, <1>2 DEF RoomAt
<1>3. CASE Len(log) # 0
    <2>1. Len(log) \in DOMAIN log /\ Len(log) \in 0 .. Len(log)
        BY <1>1, <1>3
    <2>2. room = log[Len(log)].row /\ room # None
        BY <1>1, <1>3, <2>1, RoomAtOK DEF RoomAt
    <2> QED
        BY <2>1, <2>2 DEF LogInv, ChangeOK
<1> QED
    BY <1>2, <1>3

\* A change that is next keeps the history one line.
LEMMA MutateKeepsLine ==
    ASSUME IInv, NEW r \in Requests, NEW n \in Snapshots, r <= Len(log) + 1,
           NEW b \in Arriving(r), Mutate(r, b, n)
    PROVE  ChangesFollowEachOther' /\ LogInv'
<1> USE DEF IInv
<1>1. /\ r = Len(log) + 1 /\ b \in Bodies /\ b.expected = Len(log)
      /\ b.proof # None <=> b.op = "complete"
    BY MutateIsNext
<1>2. /\ log' \in Seq(Changes) /\ Len(log') = r
      /\ log'[r] = [body |-> b, progress |-> Progress(room'), row |-> room']
      /\ \A i \in 1 .. Len(log) : log'[i] = log[i]
      /\ RowOK(room', kind) /\ room'.revision = r
      /\ room'.review = None <=> b.op # "review" /\ (room # None => room.review = None)
    BY MutateEffect
<1>3. ~erased' /\ ~erased /\ kind' = kind
    BY DEF Mutate
<1>4. /\ Len(log) \in Nat /\ DOMAIN log = 1 .. Len(log) /\ DOMAIN log' = 1 .. r
      /\ r \in Nat \ {0}
    BY <1>1, <1>2 DEF TypeOK
<1>6. \A i \in DOMAIN log : ChangeOK(i)'
    <2> TAKE i \in DOMAIN log
    <2>1. \A j \in 1 .. i : log'[j] = log[j]
        BY <1>2, <1>4
    <2>2. i \in 1 .. i /\ ChangeOK(i)
        BY <1>4 DEF LogInv
    <2> QED
        BY <2>1, <2>2, <1>3 DEF ChangeOK, Progress
<1>7. ChangeOK(r)'
    <2>2. (room # None => room.review = None) <=> \A j \in 1 .. Len(log) : log[j].body.op # "review"
        BY <1>3, FirstRound
    <2>3. (room'.review = None) <=> \A j \in 1 .. r : log'[j].body.op # "review"
        <3>1. \A j \in 1 .. r : j \in 1 .. Len(log) \/ j = r
            BY <1>1, <1>4
        <3>2. 1 .. Len(log) \subseteq 1 .. r /\ r \in 1 .. r
            BY <1>1, <1>4
        <3>3. log'[r].body.op = b.op
            BY <1>2
        <3> QED
            BY <2>2, <3>1, <3>2, <3>3, <1>2
    <2>4. /\ log'[r].body = b /\ log'[r].row = room' /\ log'[r].progress = Progress(room')
          /\ b.expected = r - 1
        BY <1>1, <1>2, <1>4
    <2> QED
        BY <1>1, <1>2, <1>3, <2>3, <2>4 DEF ChangeOK
<1>8. LogInv'
    BY <1>1, <1>4, <1>6, <1>7 DEF LogInv
<1>9. ChangesFollowEachOther'
    <2>1. room' = RoomAt(Len(log))'
        BY <1>2, <1>4 DEF RoomAt
    <2> QED
        BY <1>3, <1>8, <2>1 DEF ChangesFollowEachOther, LogInv, ChangeOK
<1> QED
    BY <1>8, <1>9

\* It has its receipt, and it uses a verdict that no change has used.
LEMMA MutateKeepsReceipts ==
    ASSUME IInv, NEW r \in Requests, NEW n \in Snapshots, r <= Len(log) + 1,
           NEW b \in Arriving(r), Mutate(r, b, n)
    PROVE  /\ receipt' \in [Requests -> Receipts \cup {None}] /\ used' \subseteq Evidence
           /\ ReceiptInv' /\ UsedInv'
<1> USE DEF IInv
<1>1. /\ r = Len(log) + 1 /\ b \in Bodies
      /\ b.proof # None <=> b.op = "complete"
    BY MutateIsNext
<1> DEFINE new == [body |-> b, progress |-> Progress(room')]
<1>2. /\ log' \in Seq(Changes) /\ Len(log') = r
      /\ [body |-> b, progress |-> Progress(room'), row |-> room'] \in Changes
      /\ log'[r] = [body |-> b, progress |-> Progress(room'), row |-> room']
      /\ \A i \in 1 .. Len(log) : log'[i] = log[i]
      /\ receipt' = NewestReceipts([receipt EXCEPT ![r] = new])
      /\ room' \in RoomStates /\ RowOK(room', kind) /\ room'.revision = r
    BY MutateEffect
<1>3. /\ ~erased' /\ ~erased /\ kind' = kind /\ used' = used \cup Consumed(b)
      /\ used \cap Consumed(b) = {}
    BY DEF Mutate, Swaps
<1>4. /\ Len(log) \in Nat /\ DOMAIN log = 1 .. Len(log) /\ DOMAIN log' = 1 .. r
      /\ r \in Nat \ {0} /\ Requests \subseteq Nat /\ Keep \in Nat \ {0}
    BY <1>1, <1>2, RoomConstantsOK DEF TypeOK, Requests
<1>5. new \in Receipts
    <2>1. Progress(room') \in Progresses
        BY <1>2 DEF Changes
    <2> QED
        BY <1>1, <2>1 DEF Receipts
<1>6. new.progress.revision = r
    BY <1>2, ShownOf
<1> HIDE DEF new
<1>7. receipt' = [q \in Requests |-> IF q <= r /\ q + Keep > r
                                     THEN IF q = r THEN new ELSE Receipt(q) ELSE None]
    BY <1>1, <1>2, <1>3, <1>4, <1>5, <1>6, ReceiptsKept
<1>8. \A q \in 1 .. Len(log) : Receipt(q)' = Receipt(q) /\ Receipt(q) \in Receipts
    <2> TAKE q \in 1 .. Len(log)
    <2>1. log[q] \in Changes /\ log'[q] = log[q]
        BY <1>2, <1>4 DEF TypeOK
    <2> QED
        BY <2>1 DEF Receipt, Receipts, Changes
<1>9. Receipt(r)' = new
    BY <1>2 DEF Receipt, new
<1>a. \A q \in 1 .. r : q \in Requests /\ (q = r \/ q \in 1 .. Len(log))
    BY <1>1, <1>4, RoomConstantsOK DEF Requests
<1>b. \A q \in Requests : q \in 1 .. r <=> q <= r
    BY <1>4 DEF Requests
<1>10. receipt' \in [Requests -> Receipts \cup {None}]
    <2>1. \A q \in Requests : (IF q <= r /\ q + Keep > r THEN IF q = r THEN new ELSE Receipt(q) ELSE None)
                               \in Receipts \cup {None}
        BY <1>a, <1>b, <1>5, <1>8
    <2> QED
        BY <1>7, <2>1
<1>11. ReceiptInv'
    <2>1. ASSUME NEW q \in DOMAIN log'
          PROVE  receipt'[q] = IF q + Keep > Len(log') THEN Receipt(q)' ELSE None
        <3>1. q \in Requests /\ q <= r /\ (q = r \/ q \in 1 .. Len(log)) /\ Len(log') = r
            BY <1>2, <1>4, <1>a, <1>b
        <3>2. receipt'[q] = IF q + Keep > r THEN IF q = r THEN new ELSE Receipt(q) ELSE None
            BY <3>1, <1>7
        <3> QED
            BY <3>1, <3>2, <1>8, <1>9
    <2>2. ASSUME NEW q \in Requests \ DOMAIN log'
          PROVE  receipt'[q] = None
        BY <1>4, <1>7, <2>2 DEF Requests
    <2> QED
        BY <2>1, <2>2 DEF ReceiptInv
<1>12. Consumed(b) \subseteq Evidence
    <2>1. b.op = "complete" => b.proof \in Proofs
        BY <1>1 DEF Bodies
    <2> QED
        BY <2>1 DEF Consumed, Proofs
<1>13. UsedInv'
    <2> SUFFICES ASSUME kind = "graded"
                 PROVE  /\ \A i \in DOMAIN log' : log'[i].body.op = "complete" => log'[i].body.proof.id \in used'
                        /\ VerdictUsedOnce'
        BY <1>3 DEF UsedInv
    <2>1. b.op = "complete" => Consumed(b) = {b.proof.id} /\ b.proof.id \notin used
        BY <1>3 DEF Consumed
    <2>2. \A i \in DOMAIN log : log[i].body.op = "complete" => log[i].body.proof.id \in used
        BY <1>3 DEF UsedInv
    <2>3. \A i \in DOMAIN log' : i \in DOMAIN log \/ i = r
        BY <1>1, <1>4
    <2>4. \A i \in DOMAIN log : log[i].body.proof # None <=> log[i].body.op = "complete"
        BY DEF LogInv, ChangeOK
    <2>5. log'[r].body = b
        BY <1>2
    <2>6. \A i \in DOMAIN log : log'[i] = log[i]
        BY <1>2, <1>4
    <2>7. \A i \in DOMAIN log' : log'[i].body.op = "complete" => log'[i].body.proof.id \in used'
        BY <2>1, <2>2, <2>3, <2>5, <2>6, <1>3
    <2>8. VerdictUsedOnce'
        <3>1. VerdictUsedOnce
            BY DEF UsedInv
        <3>2. ASSUME NEW i \in DOMAIN log', NEW j \in DOMAIN log', i # j,
                     log'[i].body.proof # None, log'[j].body.proof # None
              PROVE  log'[i].body.proof.id # log'[j].body.proof.id
            BY <3>1, <3>2, <1>1, <2>1, <2>2, <2>3, <2>4, <2>5, <2>6 DEF VerdictUsedOnce
        <3> QED
            BY <3>2 DEF VerdictUsedOnce
    <2> QED
        BY <2>7, <2>8
<1> QED
    BY <1>3, <1>10, <1>11, <1>12, <1>13 DEF TypeOK

\* It earns the milestone only by a checked completion.
LEMMA EarnedBy ==
    ASSUME IInv, NEW r \in Requests, NEW n \in Snapshots, r <= Len(log) + 1,
           NEW b \in Arriving(r), Mutate(r, b, n)
    PROVE  Earned' <=> Earned \/ EarnsMilestone(b, room)
<1> USE DEF IInv
<1>1. r = Len(log) + 1
    BY MutateIsNext
<1>2. /\ log' \in Seq(Changes) /\ Len(log') = r /\ log'[r].body = b
      /\ \A i \in 1 .. Len(log) : log'[i] = log[i]
    <2>1. log'[r] = [body |-> b, progress |-> Progress(room'), row |-> room']
        BY MutateEffect
    <2>2. log'[r].body = b
        BY <2>1
    <2>3. log' \in Seq(Changes) /\ Len(log') = r /\ \A i \in 1 .. Len(log) : log'[i] = log[i]
        BY MutateEffect
    <2> QED
        BY <2>2, <2>3
<1>3. ~erased /\ kind' = kind
    BY DEF Mutate
<1>4. /\ Len(log) \in Nat /\ DOMAIN log = 1 .. Len(log) /\ DOMAIN log' = 1 .. r
      /\ r \in Nat \ {0}
    BY <1>1, <1>2 DEF TypeOK
<1>5. \A i \in DOMAIN log : Checks(i)' <=> Checks(i)
    <2> TAKE i \in DOMAIN log
    <2>1. log'[i] = log[i] /\ \A j \in 1 .. i - 1 : log'[j] = log[j]
        BY <1>2, <1>4
    <2> QED
        BY <2>1, <1>3 DEF Checks
<1>6. Checks(r)' <=> EarnsMilestone(b, room)
    <2>1. (\A j \in 1 .. r - 1 : log'[j].body.op # "review") <=>
          (\A j \in 1 .. Len(log) : log[j].body.op # "review")
        <3>1. r - 1 = Len(log)
            BY <1>1, <1>4
        <3> QED
            BY <3>1, <1>2
    <2>2. Progress(room).review = None <=> (room # None => room.review = None)
        BY DEF Progress
    <2> QED
        BY <2>1, <2>2, <1>2, <1>3, FirstRound DEF Checks, EarnsMilestone
<1>7. \A i \in DOMAIN log' : i \in DOMAIN log \/ i = r
    BY <1>1, <1>4
<1>8. DOMAIN log \subseteq DOMAIN log' /\ r \in DOMAIN log'
    BY <1>1, <1>4
<1> QED
    BY <1>5, <1>6, <1>7, <1>8 DEF Earned

\* A change keeps the invariant.
LEMMA MutateInvariant ==
    ASSUME IInv, NEW r \in Requests, NEW n \in Snapshots, r <= Len(log) + 1,
           NEW b \in Arriving(r), Mutate(r, b, n)
    PROVE  IInv'
<1>1. ChangesFollowEachOther' /\ LogInv'
    BY MutateKeepsLine
<1>2. ReceiptInv' /\ UsedInv' /\ receipt' \in [Requests -> Receipts \cup {None}] /\ used' \subseteq Evidence
    BY MutateKeepsReceipts
<1>3. room' \in RoomStates /\ log' \in Seq(Changes)
    BY MutateEffect
<1>4. /\ Enqueue(EarnsMilestone(b, room))
      /\ UNCHANGED <<kind, erased, sender, stray, booked, gone>> /\ ~erased
    BY MutateIsNext DEF Mutate
<1>5. outbox' \in {"none", "pending"} \cup Final /\ due' \in BOOLEAN
    BY <1>4 DEF Enqueue, IInv, TypeOK, MilestoneTypeOK
<1>6. TypeOK'
    BY <1>2, <1>3, <1>4, <1>5 DEF IInv, TypeOK, MilestoneTypeOK
<1>7. Earned' <=> Earned \/ EarnsMilestone(b, room)
    BY EarnedBy
<1>8. SenderInv'
    BY <1>4, <1>7 DEF IInv, SenderInv
<1>9. MilestoneIsEarned'
    BY <1>4, <1>7 DEF IInv, MilestoneIsEarned, OutboxIsTrue, Enqueue
<1> QED
    BY <1>1, <1>2, <1>6, <1>8, <1>9 DEF IInv

\* So does the erasure: the history stays, and nothing else does.
LEMMA EraseInvariant ==
    ASSUME IInv, Erase
    PROVE  IInv'
<1> USE DEF Erase, IInv
<1>1. TypeOK'
    BY DEF TypeOK, MilestoneTypeOK
<1>2. ChangesFollowEachOther' /\ ReceiptInv'
    BY DEF ChangesFollowEachOther, ReceiptInv
<1>3. LogInv'
    BY DEF LogInv, ChangeOK, Progress
<1>4. UsedInv'
    BY DEF UsedInv, VerdictUsedOnce
<1>5. Earned' <=> Earned
    BY DEF Earned, Checks
<1>6. SenderInv' /\ MilestoneIsEarned'
    BY <1>5 DEF SenderInv, MilestoneIsEarned, OutboxIsTrue
<1> QED
    BY <1>1, <1>2, <1>3, <1>4, <1>6

\* The delivery of the milestone leaves the room alone.
LEMMA RoomUntouched ==
    ASSUME IInv, UNCHANGED roomVars
    PROVE  /\ ChangesFollowEachOther' /\ LogInv' /\ UsedInv' /\ ReceiptInv'
           /\ (MilestoneTypeOK' => TypeOK')
           /\ erased' = erased /\ (Earned' <=> Earned)
<1> USE DEF IInv, roomVars
<1>1. MilestoneTypeOK' => TypeOK'
    BY DEF TypeOK
<1>2. ChangesFollowEachOther'
    BY DEF ChangesFollowEachOther, RoomAt
<1>3. LogInv'
    BY DEF LogInv, ChangeOK, Progress
<1>4. UsedInv' /\ ReceiptInv'
    BY DEF UsedInv, VerdictUsedOnce, ReceiptInv, Receipt
<1>5. Earned' <=> Earned
    BY DEF Earned, Checks
<1> QED
    BY <1>1, <1>2, <1>3, <1>4, <1>5

\* Every step of the delivery keeps the invariant.
LEMMA DeliveryInvariant ==
    ASSUME IInv, MilestoneNext, UNCHANGED roomVars
    PROVE  IInv'
<1>0. /\ ChangesFollowEachOther' /\ LogInv' /\ UsedInv' /\ ReceiptInv'
      /\ (MilestoneTypeOK' => TypeOK')
      /\ erased' = erased /\ (Earned' <=> Earned)
    BY RoomUntouched
<1> DEFINE Inv == /\ MilestoneTypeOK
                  /\ SenderInv
                  /\ MilestoneIsEarned
<1> SUFFICES Inv'
    BY <1>0 DEF IInv
<1>1. Inv
    BY DEF IInv, TypeOK
<1> USE <1>0, <1>1 DEF MilestoneTypeOK, SenderInv, MilestoneIsEarned, OutboxIsTrue, To, Final, Outcomes,
       SenderStates
<1>2. CASE FallDue
    BY <1>2 DEF FallDue
<1>3. ASSUME NEW s \in Senders, Claim(s) \/ Answer(s) \/ AnswerLost(s) \/ Record(s) \/ Die(s)
      PROVE  Inv'
    <2>1. CASE Claim(s)
        BY <2>1 DEF Claim
    <2>2. CASE AnswerBooked(s)
        BY <2>2 DEF AnswerBooked
    <2>3. CASE AnswerErased(s)
        BY <2>3 DEF AnswerErased
    <2>4. CASE AnswerRejected(s)
        BY <2>4 DEF AnswerRejected
    <2>5. CASE AnswerLost(s)
        BY <2>5 DEF AnswerLost
    <2>6. CASE Record(s)
        BY <2>6 DEF Record
    <2>7. CASE Die(s)
        BY <2>7 DEF Die
    <2> QED
        BY <1>3, <2>1, <2>2, <2>3, <2>4, <2>5, <2>6, <2>7 DEF Answer
<1>4. CASE StrayCall
    BY <1>4 DEF StrayCall
<1>5. CASE ForgetLearner
    BY <1>5 DEF ForgetLearner
<1> QED
    BY <1>2, <1>3, <1>4, <1>5 DEF MilestoneNext

\* The steps of the specification: a change, the erasure, a step of the delivery or none.
LEMMA Invariance == IInv /\ [Next]_vars => IInv'
<1> SUFFICES ASSUME IInv, [Next]_vars
             PROVE  IInv'
    OBVIOUS
<1>1. ASSUME NEW r \in Requests, NEW n \in Snapshots, r <= Len(log) + 1,
             NEW b \in Arriving(r), Mutate(r, b, n)
      PROVE  IInv'
    BY <1>1, MutateInvariant
<1>2. CASE Erase
    BY <1>2, EraseInvariant
<1>3. CASE MilestoneNext /\ UNCHANGED roomVars
    BY <1>3, DeliveryInvariant
<1>4. CASE UNCHANGED vars
    <2>1. UNCHANGED roomVars /\ UNCHANGED milestoneVars
        BY <1>4 DEF vars
    <2>2. MilestoneTypeOK'
        BY <2>1 DEF milestoneVars, MilestoneTypeOK, IInv, TypeOK
    <2>3. SenderInv' /\ MilestoneIsEarned'
        BY <2>1, RoomUntouched DEF milestoneVars, IInv, SenderInv, MilestoneIsEarned, OutboxIsTrue
    <2> QED
        BY <2>1, <2>2, <2>3, RoomUntouched DEF IInv
<1> QED
    BY <1>1, <1>2, <1>3, <1>4 DEF Next
-----------------------------------------------------------------------------
\* The inductive invariant holds in every state of the specification.
LEMMA Reachable == Spec => []IInv
    BY InitInv, Invariance, PTL DEF Spec

\* Every change of a room was made on the version before it, none is lost or applied twice, none
\* uses a verdict of another, and nothing is left or comes back after the erasure (mutate_room of
\* services/rooms.py), under either isolation level and for any number of changes.
THEOREM RoomHistory == Spec => []HistoryIsSound
<1>1. IInv => HistoryIsSound
    BY DEF IInv, HistoryIsSound, UsedInv, VerdictUsedOnce
<1> QED
    BY <1>1, Reachable, PTL

\* The latest Keep changes can be repeated with the answer that the learner got then, and no other
\* can (RoomRequest, the receipts of mutate_room).
THEOREM RoomReceipts == Spec => []LatestChangesRepeatable
<1>1. IInv => LatestChangesRepeatable
    <2> SUFFICES ASSUME IInv, ~erased, NEW n \in DOMAIN log
                 PROVE  receipt[n] = IF n \in ReceiptsAt(Len(log))
                                     THEN [body |-> log[n].body, progress |-> Progress(log[n].row)] ELSE None
        BY DEF LatestChangesRepeatable
    <2>1. n \in ReceiptsAt(Len(log)) <=> n + Keep > Len(log)
        BY DEF ReceiptsAt, IInv, TypeOK
    <2>2. log[n].progress = Progress(log[n].row)
        BY DEF IInv, LogInv, ChangeOK
    <2> QED
        BY <2>1, <2>2 DEF IInv, ReceiptInv, Receipt
<1> QED
    BY <1>1, Reachable, PTL

\* The milestone is queued by checked completions only, and what challenges-ms has booked was
\* queued (EarnsMilestone of mutate_room, services/lesson_milestones.py).
THEOREM RoomMilestone == Spec => []MilestoneIsEarned
<1>1. IInv => MilestoneIsEarned
    BY DEF IInv
<1> QED
    BY <1>1, Reachable, PTL

\* What is final stays, whatever a practice round, a repeated request or a late answer of
\* challenges-ms brings: the achievement in the room, and the recorded outcome of its milestone.
THEOREM RoomFinal == Spec => FinalIsKept
<1>1. IInv /\ [Next]_vars => [room # None /\ room.status \in Done =>
             room' = None \/ (room'.status = room.status /\ room'.result = room.result)]_room
    <2> SUFFICES ASSUME IInv, [Next]_vars, room' # room, room # None, room.status \in Done
                 PROVE  room' = None \/ (room'.status = room.status /\ room'.result = room.result)
        OBVIOUS
    <2>1. ASSUME NEW r \in Requests, NEW n \in Snapshots, r <= Len(log) + 1,
                 NEW b \in Arriving(r), Mutate(r, b, n)
          PROVE  room'.status = room.status /\ room'.result = room.result
        BY <2>1, MutateEffect
    <2>2. CASE Erase
        BY <2>2 DEF Erase
    <2> QED
        BY <2>1, <2>2 DEF Next, vars, roomVars
<1>2. IInv /\ [Next]_vars => [(outbox \in Final) => outbox' \in {outbox, "none"}]_outbox
    <2> SUFFICES ASSUME [Next]_vars, outbox' # outbox, outbox \in Final
                 PROVE  outbox' = "none"
        OBVIOUS
    <2> USE DEF Final
    <2>1. ASSUME NEW r \in Requests, NEW n \in Snapshots, NEW b \in Arriving(r), Mutate(r, b, n)
          PROVE  FALSE
        BY <2>1 DEF Mutate, Enqueue
    <2>2. CASE Erase
        BY <2>2 DEF Erase
    <2>3. ASSUME MilestoneNext
          PROVE  FALSE
        BY <2>3 DEF MilestoneNext, FallDue, Claim, Answer, AnswerBooked, AnswerErased, AnswerRejected,
                    AnswerLost, Record, Die, StrayCall, ForgetLearner
    <2> QED
        BY <2>1, <2>2, <2>3 DEF Next, vars, milestoneVars
<1>3. Spec => AchievementKept
    BY <1>1, Reachable, PTL DEF Spec, AchievementKept
<1>4. Spec => OutcomeIsFinal
    BY <1>2, Reachable, PTL DEF Spec, OutcomeIsFinal
<1> QED
    BY <1>3, <1>4, PTL DEF FinalIsKept
-----------------------------------------------------------------------------
(* Which room comes next, for any catalogue, learner, policy and request. *)

\* A set of numbers that is not empty has a least element: among the intervals up to its elements,
\* one has no smaller one inside.
LEMMA LeastNumber ==
    ASSUME NEW S \in SUBSET Nat, S # {}
    PROVE  \E m \in S : \A i \in S : m <= i
<1> DEFINE T == {1 .. i : i \in S}
<1>1. T \subseteq FiniteSubsetsOf(Nat)
    <2>1. ASSUME NEW i \in S
          PROVE  1 .. i \in FiniteSubsetsOf(Nat)
        <3>1. 1 \in Int /\ i \in Int
            OBVIOUS
        <3>2. IsFiniteSet(1 .. i)
            BY <3>1, FS_Interval
        <3> QED
            BY <3>2 DEF FiniteSubsetsOf
    <2> QED
        BY <2>1
<1>2. T # {}
    OBVIOUS
<1>3. PICK x \in T : \A y \in T : ~(<<y, x>> \in StrictSubsetOrdering(Nat))
    <2> HIDE DEF T
    <2> QED
        BY <1>1, <1>2, FS_StrictSubsetOrderingWellFounded, WFMin
<1>4. PICK m \in S : x = 1 .. m
    OBVIOUS
<1>5. ASSUME NEW i \in S
      PROVE  m <= i
    <2> SUFFICES ASSUME i < m
                 PROVE  FALSE
        OBVIOUS
    <2>1. 1 .. i \in T /\ 1 .. i \subseteq x /\ m \in x /\ m \notin 1 .. i /\ x \subseteq Nat
        BY <1>4
    <2> QED
        BY <1>3, <2>1 DEF StrictSubsetOrdering
<1> QED
    BY <1>5

LEMMA LeastOfAll ==
    ASSUME NEW S \in SUBSET Nat, S # {}
    PROVE  Min(S) \in S /\ \A i \in S : Min(S) <= i
BY LeastNumber DEF Min

\* The elements of a sequence, and the place of one of them.
LEMMA Elements ==
    ASSUME NEW S, NEW s \in Seq(S)
    PROVE  /\ IsFiniteSet(ToSet(s))
           /\ \A x \in ToSet(s) : At(s, x) \in 1 .. Len(s) /\ s[At(s, x)] = x
<1>1. Len(s) \in Nat /\ DOMAIN s = 1 .. Len(s) /\ s \in [1 .. Len(s) -> S]
    BY LenProperties
<1>2. IsFiniteSet(1 .. Len(s))
    <2>1. 1 \in Int /\ Len(s) \in Int
        BY <1>1
    <2> QED
        BY <2>1, FS_Interval
<1>3. s \in Surjection(1 .. Len(s), ToSet(s))
    BY <1>1 DEF Surjection, ToSet
<1>4. ASSUME NEW x \in ToSet(s)
      PROVE  At(s, x) \in 1 .. Len(s) /\ s[At(s, x)] = x
    <2>1. \E i \in DOMAIN s : s[i] = x
        BY DEF ToSet
    <2> QED
        BY <1>1, <2>1 DEF At
<1> QED
    BY <1>2, <1>3, <1>4, FS_Surjection

\* Every room lies on one path, and there are finitely many.
LEMMA RoomsOnPaths ==
    /\ IsFiniteSet(Units) /\ Size \in Nat
    /\ \A u \in Units : PathOf(u) \in ToSet(Paths) /\ u \in ToSet(UnitsOf[PathOf(u)])
    /\ \A p \in ToSet(Paths) : ToSet(UnitsOf[p]) \subseteq Units
    /\ \A p \in ToSet(Paths) : \A u \in ToSet(UnitsOf[p]) : PathOf(u) = p
<1>1. /\ Paths \in Seq(ToSet(Paths))
      /\ \A p \in ToSet(Paths) : UnitsOf[p] \in Seq(ToSet(UnitsOf[p]))
      /\ \A p, q \in ToSet(Paths) : p # q => ToSet(UnitsOf[p]) \cap ToSet(UnitsOf[q]) = {}
    BY StreamConstantsOK DEF ReferencesAreConsistent
<1> DEFINE sets == {ToSet(UnitsOf[p]) : p \in ToSet(Paths)}
<1>2. IsFiniteSet(sets)
    <2> DEFINE f == [p \in ToSet(Paths) |-> ToSet(UnitsOf[p])]
    <2>1. f \in [ToSet(Paths) -> sets] /\ \A t \in sets : \E p \in ToSet(Paths) : f[p] = t
        OBVIOUS
    <2>2. IsFiniteSet(ToSet(Paths))
        BY <1>1, Elements
    <2> HIDE DEF f, sets
    <2>3. f \in Surjection(ToSet(Paths), sets)
        BY <2>1 DEF Surjection
    <2> QED
        BY <2>2, <2>3, FS_Surjection
<1>3. \A t \in sets : IsFiniteSet(t)
    BY <1>1, Elements
<1>4. Units = UNION sets
    BY DEF Units
<1>5. IsFiniteSet(Units)
    <2> HIDE DEF sets
    <2> QED
        BY <1>2, <1>3, <1>4, FS_UNION
<1>6. \A u \in Units : \E p \in ToSet(Paths) : u \in ToSet(UnitsOf[p])
    BY DEF Units
<1>7. \A p \in ToSet(Paths) : ToSet(UnitsOf[p]) \subseteq Units
    BY DEF Units
<1>8. \A u \in Units : PathOf(u) \in ToSet(Paths) /\ u \in ToSet(UnitsOf[PathOf(u)])
    BY <1>6 DEF PathOf
<1>9. \A p \in ToSet(Paths) : \A u \in ToSet(UnitsOf[p]) : PathOf(u) = p
    BY <1>1, <1>7, <1>8
<1> QED
    BY <1>5, <1>7, <1>8, <1>9, FS_CardinalityType DEF Size

\* The places of the rooms are counted from the first one.
LEMMA PlacesCount ==
    /\ \A u \in Units : Place[u] \in 1 .. Size
    /\ \A p \in ToSet(Paths) : Beginning[p] \in 1 .. Size + 1
<1>1. Size \in Nat /\ IsFiniteSet(Units) /\ Size = Cardinality(Units)
    BY RoomsOnPaths DEF Size
<1>2. ASSUME NEW u \in Units
      PROVE  Place[u] \in 1 .. Size
    <2> DEFINE p == PathOf(u)
               S == {v \in Units : \/ Earlier(v, p)
                                          \/ /\ PathOf(v) = p
                                             /\ At(UnitsOf[p], v) <= At(UnitsOf[p], u)}
    <2>1. Place[u] = Cardinality(S)
        BY DEF Place
    <2>2. S \in SUBSET Units
        OBVIOUS
    <2>3. u \in S
        <3>1. p \in ToSet(Paths) /\ u \in ToSet(UnitsOf[p]) /\ UnitsOf[p] \in Seq(ToSet(UnitsOf[p]))
            BY RoomsOnPaths, StreamConstantsOK DEF ReferencesAreConsistent
        <3>2. At(UnitsOf[p], u) \in 1 .. Len(UnitsOf[p]) /\ Len(UnitsOf[p]) \in Nat
            BY <3>1, Elements, LenProperties
        <3>3. At(UnitsOf[p], u) <= At(UnitsOf[p], u)
            BY <3>2
        <3> QED
            BY <3>3
    <2> HIDE DEF S
    <2>4. IsFiniteSet(S) /\ Cardinality(S) <= Size
        BY <1>1, <2>2, FS_Subset
    <2>5. Cardinality(S) \in Nat /\ Cardinality(S) # 0
        BY <2>3, <2>4, FS_CardinalityType, FS_EmptySet
    <2> QED
        BY <1>1, <2>1, <2>4, <2>5
<1>3. ASSUME NEW p \in ToSet(Paths)
      PROVE  Beginning[p] \in 1 .. Size + 1
    <2> DEFINE S == {v \in Units : Earlier(v, p)}
    <2>1. Beginning[p] = Cardinality(S) + 1
        BY DEF Beginning
    <2>2. S \in SUBSET Units
        OBVIOUS
    <2> HIDE DEF S
    <2>3. IsFiniteSet(S) /\ Cardinality(S) <= Size
        BY <1>1, <2>2, FS_Subset
    <2>4. Cardinality(S) \in Nat
        BY <2>3, FS_CardinalityType
    <2> QED
        BY <1>1, <2>1, <2>3, <2>4
<1> QED
    BY <1>2, <1>3

\* Counting round the direction stays inside it.
LEMMA RoundTheDirection ==
    ASSUME Size # 0, NEW start \in 1 .. Size + 1, NEW place \in 1 .. Size + 1
    PROVE  From(start, place) \in 0 .. Size - 1
<1>1. PICK n \in Nat : n = Size /\ n # 0
    BY RoomsOnPaths
<1>2. place + n - start \in Int
    BY <1>1
<1>3. (place + n - start) % n \in 0 .. n - 1
    BY <1>1, <1>2
<1> QED
    BY <1>1, <1>3 DEF From
-----------------------------------------------------------------------------
(* What each kind of request answers. *)

\* The rooms that a path, a course and the stream try.
PathOpen(p, after) ==
    {u \in ToSet(UnitsOf[p]) \ withheld :
        ~Finished(u) /\ (after # Nothing => Place[u] > Place[after])}
CourseTried(p, after, continuous) ==
    {u \in ToSet(UnitsOf[p]) \ withheld :
        /\ continuous \/ ~ReviewAvailable(u)
        /\ continuous \/ after = Nothing \/ Place[u] > Place[after]}
StreamTried(p) == {u \in Served(p) : Prepared(u) /\ CanStart(u)}

\* Among rooms with a rank, one has the least.
First(f, S) == Min({f[u] : u \in S})
LEMMA LeastRank ==
    ASSUME NEW S, S # {}, NEW f \in [S -> Nat]
    PROVE  (\E u \in S : f[u] = First(f, S)) /\ \A u \in S : First(f, S) <= f[u]
<1> DEFINE ranks == {f[u] : u \in S}
<1>1. ranks \in SUBSET Nat /\ ranks # {}
    OBVIOUS
<1> HIDE DEF ranks
<1>2. Min(ranks) \in ranks /\ \A i \in ranks : Min(ranks) <= i
    BY <1>1, LeastOfAll
<1> QED
    BY <1>2 DEF ranks, First

\* A path answers with a room that is not finished, and whose concepts the learner has.
LEMMA PathAnswers ==
    ASSUME NEW p \in ToSet(Paths), NEW after
    PROVE  \/ \E u \in PathOpen(p, after) : Prepared(u) /\ PathRoom(p, after) = Shows(u)
           \/ /\ \A u \in PathOpen(p, after) : ~Prepared(u)
              /\ PathRoom(p, after) = IF Completed(p) THEN Shut("completed")
                                             ELSE IF PathOpen(p, after) # {} THEN Shut("prerequisites")
                                             ELSE Shut("unavailable")
<1> DEFINE open == PathOpen(p, after)
           S == {u \in open : Prepared(u)}
           rank(u) == Place[u] + IF after = Nothing /\ InProgress(u) THEN 0 ELSE Size
           first == Min({rank(u) : u \in S})
           next == IF S = {} THEN Nothing ELSE CHOOSE u \in S : rank(u) = first
<1>1. PathRoom(p, after) = IF next # Nothing THEN Shows(next)
                                  ELSE IF Completed(p) THEN Shut("completed")
                                  ELSE IF open # {} THEN Shut("prerequisites") ELSE Shut("unavailable")
    BY DEF PathRoom, Earliest, PathOpen
<1>2. open \subseteq Units /\ Nothing \notin Units
    BY RoomsOnPaths, StreamConstantsOK DEF PathOpen
<1>3. CASE S = {}
    BY <1>1, <1>3
<1>4. CASE S # {}
    <2> DEFINE f == [u \in S |-> rank(u)]
    <2>1. f \in [S -> Nat]
        BY <1>2, PlacesCount, RoomsOnPaths
    <2>2. \A u \in S : f[u] = rank(u)
        OBVIOUS
    <2>3. {f[u] : u \in S} = {rank(u) : u \in S}
        OBVIOUS
    <2>4. First(f, S) = first
        BY <2>3 DEF First
    <2> HIDE DEF f, S, rank, first
    <2>5. \E u \in S : rank(u) = first
        BY <1>4, <2>1, <2>2, <2>4, LeastRank
    <2>6. next \in S
        BY <1>4, <2>5
    <2> HIDE DEF next
    <2> QED
        BY <1>1, <1>2, <2>6 DEF S
<1> QED
    BY <1>3, <1>4

\* The rooms in work have their place in `recent`, of which there are no more than rooms.
LEMMA InWorkFirst ==
    ASSUME StreamTypeOK, NEW u \in Units, InWork(u)
    PROVE  At(recent, u) \in 1 .. Len(recent) /\ recent[At(recent, u)] = u /\ Len(recent) <= Size
<1>1. recent \in Seq(Units) /\ IsInjective(recent) /\ u \in ToSet(recent)
    BY DEF StreamTypeOK
<1>2. At(recent, u) \in 1 .. Len(recent) /\ recent[At(recent, u)] = u
    BY <1>1, Elements
<1>3. Len(recent) \in Nat /\ DOMAIN recent = 1 .. Len(recent) /\ recent \in [1 .. Len(recent) -> Units]
    BY <1>1, LenProperties
<1>4. recent \in Injection(1 .. Len(recent), Units)
    BY <1>1, <1>3 DEF IsInjective, Injection, IsInjective
<1>5. Cardinality(1 .. Len(recent)) = Len(recent)
    <2>1. 1 \in Int /\ Len(recent) \in Int
        BY <1>3
    <2>2. Cardinality(1 .. Len(recent)) = IF 1 > Len(recent) THEN 0 ELSE Len(recent) - 1 + 1
        BY <2>1, FS_Interval
    <2> QED
        BY <1>3, <2>2
<1>6. Cardinality(1 .. Len(recent)) <= Cardinality(Units)
    BY <1>4, RoomsOnPaths, FS_Injection
<1> QED
    BY <1>2, <1>5, <1>6 DEF Size

\* In a course every room has a rank; without a cursor, work comes before new lessons, and new
\* lessons before those that are finished.
LEMMA CourseRanks ==
    ASSUME StreamTypeOK, NEW after \in {Nothing} \cup Units,
           NEW u \in Units
    PROVE  /\ CourseRank(u, after) \in Nat
           /\ after = Nothing => (CourseRank(u, after) > 2 * Size <=> ReviewAvailable(u))
<1>1. /\ Size \in Nat /\ Place[u] \in 1 .. Size
      /\ Nothing \notin Units
    BY RoomsOnPaths, PlacesCount, StreamConstantsOK
<1>2. CASE after # Nothing
    <2>1. Place[after] + 1 \in 1 .. Size + 1 /\ Place[u] \in 1 .. Size + 1
        BY <1>1, <1>2, PlacesCount
    <2>2. Size # 0
        BY <1>1
    <2>3. From(Place[after] + 1, Place[u]) \in 0 .. Size - 1
        BY <2>1, <2>2, RoundTheDirection
    <2> QED
        BY <1>1, <1>2, <2>3 DEF CourseRank
<1>3. CASE after = Nothing /\ InWork(u)
    <2>1. At(recent, u) \in 1 .. Len(recent) /\ Len(recent) <= Size /\ Len(recent) \in Nat
        <3>1. recent \in Seq(Units)
            BY DEF StreamTypeOK
        <3> QED
            BY <1>3, <3>1, InWorkFirst, LenProperties
    <2>2. ~ReviewAvailable(u)
        BY <1>3 DEF InWork, ReviewAvailable, Finished
    <2>3. CourseRank(u, after) = At(recent, u)
        BY <1>3 DEF CourseRank
    <2> QED
        BY <1>1, <2>1, <2>2, <2>3
<1>4. CASE after = Nothing /\ ~InWork(u)
    <2>1. CourseRank(u, after) =
              Place[u] + IF Finished(u) THEN 2 * Size ELSE Size
        BY <1>4 DEF CourseRank
    <2>2. ReviewAvailable(u) <=> Finished(u)
        BY <1>4 DEF InWork, ReviewAvailable
    <2> QED
        BY <1>1, <2>1, <2>2
<1> QED
    BY <1>2, <1>3, <1>4

\* A course answers with a lesson that can begin today; without a cursor with the one that comes
\* first by its state.
LEMMA CourseAnswers ==
    ASSUME StreamTypeOK, NEW p \in ToSet(Paths),
           NEW after \in {Nothing} \cup ToSet(UnitsOf[p]), NEW continuous \in BOOLEAN
    PROVE  \/ \E u \in CourseTried(p, after, continuous) :
                 /\ CanStart(u) /\ CourseRoom(p, after, continuous) = Shows(u)
                 /\ \A v \in CourseTried(p, after, continuous) :
                       CanStart(v) => CourseRank(u, after) <= CourseRank(v, after)
           \/ /\ \A u \in CourseTried(p, after, continuous) : ~CanStart(u)
              /\ CourseRoom(p, after, continuous) =
                    IF CourseTried(p, after, continuous) # {} THEN Limited
                    ELSE IF Completed(p) THEN Shut("completed") ELSE Shut("unavailable")
<1> DEFINE tried == CourseTried(p, after, continuous)
           S == {u \in tried : CanStart(u)}
           rank(u) == CourseRank(u, after)
           first == Min({rank(u) : u \in S})
           next == IF S = {} THEN Nothing ELSE CHOOSE u \in S : rank(u) = first
<1>1. CourseRoom(p, after, continuous) =
          IF next # Nothing THEN Shows(next)
          ELSE IF tried # {} THEN Limited
          ELSE IF Completed(p) THEN Shut("completed") ELSE Shut("unavailable")
    BY DEF CourseRoom, Earliest, CourseTried
<1>2. tried \subseteq Units /\ Nothing \notin Units
    BY RoomsOnPaths, StreamConstantsOK DEF CourseTried
<1>3. CASE S = {}
    BY <1>1, <1>3
<1>4. CASE S # {}
    <2> DEFINE f == [u \in S |-> rank(u)]
    <2>1. ASSUME NEW u \in S
          PROVE  rank(u) \in Nat
        <3>1. after \in {Nothing} \cup Units /\ u \in Units
            BY <1>2, RoomsOnPaths
        <3> QED
            BY <3>1, CourseRanks
    <2>2. f \in [S -> Nat]
        BY <2>1
    <2>3. \A u \in S : f[u] = rank(u)
        OBVIOUS
    <2>4. {f[u] : u \in S} = {rank(u) : u \in S}
        OBVIOUS
    <2>5. First(f, S) = first
        BY <2>4 DEF First
    <2> HIDE DEF f, S, rank, first
    <2>6. (\E u \in S : rank(u) = first) /\ \A u \in S : first <= rank(u)
        BY <1>4, <2>2, <2>3, <2>5, LeastRank
    <2>7. next \in S /\ rank(next) = first
        BY <1>4, <2>6
    <2> HIDE DEF next
    <2>8. CourseRoom(p, after, continuous) = Shows(next)
        BY <1>1, <1>2, <2>7 DEF S
    <2>9. \A v \in S : rank(next) <= rank(v)
        BY <2>6, <2>7
    <2> QED
        BY <2>7, <2>8, <2>9 DEF S, rank
<1> QED
    BY <1>3, <1>4

\* The stages are apart from each other, whatever the order inside of them.
LEMMA StagesApart ==
    ASSUME NEW n \in Nat, NEW a \in 0 .. 3, NEW b \in 0 .. 3, NEW x \in 0 .. n, NEW y \in 0 .. n,
           (n + 1) * a + x <= (n + 1) * b + y
    PROVE  a <= b
<1> SUFFICES ASSUME b < a
             PROVE  FALSE
    OBVIOUS
<1>1. (n + 1) * a = (n + 1) * b + (n + 1) * (a - b)
    OBVIOUS
<1>2. (n + 1) * (a - b) >= n + 1
    <2>1. a - b \in {1, 2, 3}
        OBVIOUS
    <2> QED
        BY <2>1
<1> QED
    BY <1>1, <1>2

\* An order round the direction, and one by paths, are no longer than the square of its rooms.
LEMMA Square ==
    ASSUME NEW n \in Nat, n # 0
    PROVE  /\ n * n \in Nat /\ 2 * n - 1 <= n * n /\ n - 1 <= n * n
           /\ \A a \in 0 .. n - 1 : \A b \in 1 .. n : n * a + b \in 0 .. n * n
<1>1. n * n \in Nat /\ (n - 1) * (n - 1) >= 0 /\ n * n = (n - 1) * (n - 1) + 2 * n - 1
    OBVIOUS
<1>2. ASSUME NEW a \in 0 .. n - 1, NEW b \in 1 .. n
      PROVE  n * a + b \in 0 .. n * n
    <2>1. n * a >= 0 /\ n * (n - 1 - a) >= 0 /\ n * (n - 1 - a) = n * n - n - n * a /\ n * a \in Int
        OBVIOUS
    <2> QED
        BY <1>1, <2>1
<1> QED
    BY <1>1, <1>2

\* The stream answers with a room that can begin today, and with none of an earlier stage left.
LEMMA StreamAnswers ==
    ASSUME NEW p \in ToSet(Paths),
           NEW after \in {Nothing} \cup ToSet(UnitsOf[p])
    PROVE  \/ \E u \in StreamTried(p) :
                 /\ ContinuousRoom(p, after) = Shows(u)
                 /\ \A v \in StreamTried(p) : Stage(u, after) <= Stage(v, after)
           \/ /\ StreamTried(p) = {}
              /\ ContinuousRoom(p, after) =
                    IF \E u \in Served(p) : Prepared(u) THEN Limited
                    ELSE IF Served(p) # {} THEN Shut("prerequisites") ELSE Shut("unavailable")
<1> DEFINE n == Size
           S == StreamTried(p)
           stage(u) == Stage(u, after)
           round(u) == From(IF after = Nothing THEN Beginning[p] ELSE Place[after] + 1, Place[u])
           order(u) == CASE stage(u) = 0 -> From(Beginning[p], Place[u])
                         [] stage(u) = 1 /\ after # Nothing -> round(u) + IF PathOf(u) = p THEN 0 ELSE n
                         [] stage(u) = 1 /\ after = Nothing ->
                               n * From(Beginning[p], Beginning[PathOf(u)]) + Place[u]
                         [] OTHER -> round(u)
           rank(u) == (n * n + 1) * stage(u) + order(u)
           first == Min({rank(u) : u \in S})
           next == IF S = {} THEN Nothing ELSE CHOOSE u \in S : rank(u) = first
<1>1. ContinuousRoom(p, after) =
          IF next # Nothing THEN Shows(next)
          ELSE IF \E u \in Served(p) : Prepared(u) THEN Limited
          ELSE IF Served(p) # {} THEN Shut("prerequisites") ELSE Shut("unavailable")
    BY DEF ContinuousRoom, Earliest, StreamTried
<1>2. S \subseteq Units /\ Nothing \notin Units
    BY StreamConstantsOK DEF StreamTried, Served
<1>3. CASE S = {}
    BY <1>1, <1>3
<1>4. CASE S # {}
    <2>1. n \in Nat /\ n # 0 /\ n * n \in Nat
        BY <1>2, <1>4, RoomsOnPaths, PlacesCount, Square
    <2>2. ASSUME NEW u \in S
          PROVE  stage(u) \in 0 .. 3 /\ order(u) \in 0 .. n * n
        <3>1. /\ Place[u] \in 1 .. n /\ Place[u] \in 1 .. n + 1
              /\ Beginning[p] \in 1 .. n + 1 /\ Beginning[PathOf(u)] \in 1 .. n + 1
            BY <1>2, <2>1, RoomsOnPaths, PlacesCount
        <3>2. after # Nothing => Place[after] + 1 \in 1 .. n + 1
            BY <2>1, RoomsOnPaths, PlacesCount
        <3>3. /\ round(u) \in 0 .. n - 1
              /\ From(Beginning[p], Place[u]) \in 0 .. n - 1
              /\ From(Beginning[p], Beginning[PathOf(u)]) \in 0 .. n - 1
            BY <2>1, <3>1, <3>2, RoundTheDirection
        <3>4. stage(u) \in 0 .. 3
            BY DEF Stage
        <3>5. n * From(Beginning[p], Beginning[PathOf(u)]) + Place[u] \in 0 .. n * n
            BY <2>1, <3>1, <3>3, Square
        <3>6. 2 * n - 1 <= n * n /\ n - 1 <= n * n
            BY <2>1, Square
        <3> HIDE DEF stage, round, n
        <3> QED
            BY <2>1, <3>3, <3>4, <3>5, <3>6
    <2> HIDE DEF order, stage, n
    <2>3. ASSUME NEW u \in S
          PROVE  rank(u) \in Nat
        BY <2>1, <2>2
    <2> DEFINE f == [u \in S |-> rank(u)]
    <2>4. f \in [S -> Nat]
        BY <2>3
    <2>5. \A u \in S : f[u] = rank(u)
        OBVIOUS
    <2>6. {f[u] : u \in S} = {rank(u) : u \in S}
        OBVIOUS
    <2>7. First(f, S) = first
        BY <2>6 DEF First
    <2> HIDE DEF f, S, rank, first
    <2>8. (\E u \in S : rank(u) = first) /\ \A u \in S : first <= rank(u)
        BY <1>4, <2>4, <2>5, <2>7, LeastRank
    <2>9. next \in S /\ rank(next) = first
        BY <1>4, <2>8
    <2> HIDE DEF next
    <2>10. ContinuousRoom(p, after) = Shows(next)
        BY <1>1, <1>2, <2>9
    <2>11. ASSUME NEW v \in S
           PROVE  stage(next) <= stage(v)
        <3> DEFINE m == n * n
        <3>1. (m + 1) * stage(next) + order(next) <= (m + 1) * stage(v) + order(v)
            BY <2>8, <2>9, <2>11 DEF rank
        <3>2. m \in Nat /\ stage(next) \in 0 .. 3 /\ stage(v) \in 0 .. 3 /\ order(next) \in 0 .. m /\ order(v) \in 0 .. m
            BY <2>1, <2>2, <2>9
        <3> HIDE DEF m
        <3> QED
            BY <3>1, <3>2, StagesApart
    <2> QED
        BY <2>9, <2>10, <2>11 DEF S, stage
<1> QED
    BY <1>3, <1>4
-----------------------------------------------------------------------------
(* What every request is answered. *)

\* A request that a client can send.
Sent(r) == /\ r \in Requested /\ Accessible(r.path)
           /\ r.after \in {Nothing} \cup ToSet(UnitsOf[r.path])
Answered(r) == NextRoom(r.path, r.after, r.continuous, r.course)

\* Which of the three answers it.
LEMMA Routed ==
    ASSUME NEW r, Sent(r)
    PROVE  /\ r.path \in ToSet(Paths) /\ r.continuous \in BOOLEAN /\ r.course \in BOOLEAN
           /\ Endless(r) \in BOOLEAN
           /\ r.course => Answered(r) = CourseRoom(r.path, r.after, Endless(r))
           /\ ~r.course /\ Endless(r) => Answered(r) = ContinuousRoom(r.path, r.after)
           /\ ~r.course /\ ~Endless(r) => Answered(r) = PathRoom(r.path, r.after)
<1>1. r.path \in ToSet(Paths) /\ r.continuous \in BOOLEAN /\ r.course \in BOOLEAN
    BY DEF Sent, Requested
<1>2. Endless(r) \in BOOLEAN
    BY <1>1 DEF Endless, AtLimit
<1> QED
    BY <1>1, <1>2 DEF Answered, NextRoom, Endless

\* An answer shows a room.
LEMMA Shapes ==
    ASSUME NEW u \in Units
    PROVE  /\ Shows(u).unit = u /\ u # Nothing /\ Shows(u).reason = "room"
           /\ Shows(u).repeat = ReviewAvailable(u)
    BY StreamConstantsOK DEF Shows

\* Where it says why, it shows none.
LEMMA EndsNowhere ==
    /\ \A reason : Shut(reason).unit = Nothing /\ ~Shut(reason).repeat
    /\ Limited.unit = Nothing /\ ~Limited.repeat
    BY DEF Shut, Limited

\* A room of an open path that can begin is admitted as well.
LEMMA CanStartAdmits ==
    ASSUME NEW u, Accessible(PathOf(u)), CanStart(u)
    PROVE  Admitted(u)
    BY DEF Admitted, CanStart

\* What is offered passes the checks of mutate_room.
LEMMA OffersOpen == StreamTypeOK => OfferedCanBeOpened
<1> SUFFICES ASSUME StreamTypeOK, NEW r, Sent(r), Answered(r).unit # Nothing
             PROVE  \/ Answered(r).unit \in Permitted(r.course)
                    \/ policy = "unknown" /\ ~r.course /\ ~Endless(r)
    BY DEF OfferedCanBeOpened, EveryAnswer, Sent, Answered
<1>1. r.after \in {Nothing} \cup ToSet(UnitsOf[r.path]) /\ Accessible(r.path)
    BY DEF Sent
<1>2. CASE r.course
    <2>1. PICK u \in CourseTried(r.path, r.after, Endless(r)) :
              CanStart(u) /\ Answered(r) = Shows(u)
        BY <1>1, <1>2, Routed, CourseAnswers, EndsNowhere
    <2>2. u \in Units \ withheld /\ PathOf(u) = r.path
        BY Routed, RoomsOnPaths DEF CourseTried
    <2>3. Admitted(u)
        BY <1>1, <2>1, <2>2, CanStartAdmits
    <2> QED
        BY <1>2, <2>1, <2>2, <2>3, Shapes DEF Permitted, Opened
<1>3. CASE ~r.course /\ Endless(r)
    <2>1. PICK u \in StreamTried(r.path) : Answered(r) = Shows(u)
        BY <1>1, <1>3, Routed, StreamAnswers, EndsNowhere
    <2>2. /\ u \in Units \ withheld /\ Prepared(u) /\ CanStart(u)
          /\ Accessible(PathOf(u))
        BY <1>1 DEF StreamTried, Served
    <2>3. Admitted(u)
        BY <2>2, CanStartAdmits
    <2> QED
        BY <1>3, <2>1, <2>2, <2>3, Shapes DEF Permitted, Opened
<1>4. CASE ~r.course /\ ~Endless(r)
    <2> SUFFICES ASSUME policy # "unknown"
                 PROVE  Answered(r).unit \in Permitted(r.course)
        BY <1>4
    <2>1. PICK u \in PathOpen(r.path, r.after) : Prepared(u) /\ Answered(r) = Shows(u)
        BY <1>1, <1>4, Routed, PathAnswers, EndsNowhere
    <2>2. u \in Units \ withheld /\ PathOf(u) = r.path
        BY Routed, RoomsOnPaths DEF PathOpen
    <2>3. CanStart(u)
        BY <1>4, StreamConstantsOK DEF Endless, AtLimit, CanStart, StreamTypeOK
    <2>4. Admitted(u)
        BY <1>1, <2>2, <2>3, CanStartAdmits
    <2> QED
        BY <1>4, <2>1, <2>2, <2>3, <2>4, Shapes DEF Permitted, Opened
<1> QED
    BY <1>2, <1>3, <1>4, Routed

\* An end is given only where it is true.
LEMMA Reasons ==
    /\ \A u : Shows(u).reason = "room"
    /\ \A reason : Shut(reason).reason = reason
    /\ Limited.reason = IF policy = "unknown" THEN "outage" ELSE "limit_reached"
    BY DEF Shows, Shut, Limited

\* What cannot begin although the shop answers waits for the daily limit.
LEMMA WaitsForTomorrow ==
    ASSUME StreamTypeOK, policy # "unknown", NEW u, ~CanStart(u)
    PROVE  policy = "daily" /\ spent /\ ~Begun(u)
    BY StreamConstantsOK DEF CanStart, StreamTypeOK

\* A room that the learner could work in is one of those that its kind of request tries.
LEMMA WorkableIsTried ==
    ASSUME NEW r, Sent(r), NEW u \in Workable(r)
    PROVE  /\ u \in Units \ withheld /\ CanStart(u)
           /\ r.course \/ ~Endless(r) => u \in ToSet(UnitsOf[r.path])
           /\ ~r.course => u \in StreamTried(r.path)
<1>1. /\ u \in Units \ withheld /\ Admitted(u) /\ CanStart(u)
      /\ r.course \/ ~Endless(r) => PathOf(u) = r.path
      /\ ~r.course => Prepared(u)
    BY Routed DEF Workable, Permitted, Opened
<1>2. Accessible(PathOf(u)) /\ u \in ToSet(UnitsOf[PathOf(u)])
    BY <1>1, RoomsOnPaths DEF Admitted
<1> QED
    BY <1>1, <1>2 DEF StreamTried, Served

\* The stream ends with the last room that can be worked in, and for the reason it gives.
LEMMA EndsHold == StreamTypeOK => EndsAreTrue
<1> SUFFICES ASSUME StreamTypeOK, NEW r, Sent(r)
             PROVE  /\ Endless(r) /\ Answered(r).unit = Nothing => Workable(r) = {}
                    /\ Answered(r).reason = "completed" =>
                          \A u \in ToSet(UnitsOf[r.path]) \ withheld :
                              Finished(u) /\ PathOf(u) = r.path
                    /\ Answered(r).reason = "limit_reached" =>
                          /\ policy = "daily" /\ spent
                          /\ \E u \in Units \ withheld : ~Begun(u) /\ (r.course \/ Prepared(u))
                    /\ Answered(r).reason = "prerequisites" =>
                          ~r.course /\ \A u \in Workable(r) : Finished(u) \/ r.after # Nothing
    BY DEF EndsAreTrue, EveryAnswer, Sent, Answered
<1>1. r.after \in {Nothing} \cup ToSet(UnitsOf[r.path])
    BY DEF Sent
<1>2. Completed(r.path) => \A u \in ToSet(UnitsOf[r.path]) \ withheld :
                                      Finished(u) /\ PathOf(u) = r.path
    BY Routed, RoomsOnPaths DEF Completed
<1>3. CASE r.course
    <2> DEFINE tried == CourseTried(r.path, r.after, Endless(r))
    <2>1. \/ \E u \in tried : Answered(r) = Shows(u)
          \/ /\ \A u \in tried : ~CanStart(u)
             /\ Answered(r) = IF tried # {} THEN Limited
                              ELSE IF Completed(r.path) THEN Shut("completed")
                              ELSE Shut("unavailable")
        BY <1>1, <1>3, Routed, CourseAnswers
    <2>2. tried \subseteq Units \ withheld
        BY Routed, RoomsOnPaths DEF CourseTried
    <2>3. CASE \E u \in tried : Answered(r) = Shows(u)
        BY <2>2, <2>3, Shapes, Reasons
    <2>4. ASSUME \A u \in tried : ~CanStart(u), tried # {}, Answered(r) = Limited
          PROVE  /\ Endless(r) => Workable(r) = {}
                 /\ Answered(r).reason = "limit_reached" =>
                       /\ policy = "daily" /\ spent
                       /\ \E u \in Units \ withheld : ~Begun(u)
        <3>1. Endless(r) => Workable(r) = {}
            BY <1>3, <2>4, WorkableIsTried DEF CourseTried
        <3>2. ASSUME Answered(r).reason = "limit_reached"
              PROVE  policy = "daily" /\ spent /\ \E u \in Units \ withheld : ~Begun(u)
            <4>1. policy # "unknown"
                BY <2>4, <3>2, Reasons
            <4>2. PICK u \in tried : ~CanStart(u)
                BY <2>4
            <4> QED
                BY <2>2, <4>1, <4>2, WaitsForTomorrow
        <3> QED
            BY <3>1, <3>2
    <2>5. ASSUME tried = {}
          PROVE  Endless(r) => Workable(r) = {}
        BY <1>3, <2>5, WorkableIsTried DEF CourseTried
    <2> HIDE DEF tried
    <2>6. CASE (\A u \in tried : ~CanStart(u)) /\ tried # {} /\ Answered(r) = Limited
        BY <1>3, <2>4, <2>6, Reasons
    <2>7. CASE tried = {} /\ Answered(r) = IF Completed(r.path) THEN Shut("completed")
                                           ELSE Shut("unavailable")
        BY <1>2, <1>3, <2>5, <2>7, Reasons
    <2> QED
        BY <2>1, <2>3, <2>6, <2>7
<1>4. CASE ~r.course /\ Endless(r)
    <2> DEFINE prepared == {u \in Served(r.path) : Prepared(u)}
    <2>1. \/ \E u \in StreamTried(r.path) : Answered(r) = Shows(u)
          \/ /\ StreamTried(r.path) = {}
             /\ Answered(r) = IF prepared # {} THEN Limited
                              ELSE IF Served(r.path) # {} THEN Shut("prerequisites")
                              ELSE Shut("unavailable")
        BY <1>1, <1>4, Routed, StreamAnswers
    <2>2. StreamTried(r.path) \subseteq Units \ withheld /\ prepared \subseteq Units \ withheld
        BY DEF StreamTried, Served
    <2>3. CASE \E u \in StreamTried(r.path) : Answered(r) = Shows(u)
        BY <2>2, <2>3, Shapes, Reasons
    <2>4. ASSUME StreamTried(r.path) = {}
          PROVE  Workable(r) = {}
        BY <1>4, <2>4, WorkableIsTried
    <2>5. ASSUME StreamTried(r.path) = {}, prepared # {}, policy # "unknown"
          PROVE  policy = "daily" /\ spent /\ \E u \in Units \ withheld : ~Begun(u) /\ Prepared(u)
        <3>1. PICK u \in prepared : ~CanStart(u)
            BY <2>5 DEF StreamTried
        <3> QED
            BY <2>2, <2>5, <3>1, WaitsForTomorrow
    <2> HIDE DEF prepared
    <2>6. CASE StreamTried(r.path) = {} /\ prepared # {} /\ Answered(r) = Limited
        BY <1>4, <2>4, <2>5, <2>6, Reasons
    <2>7. CASE /\ StreamTried(r.path) = {}
               /\ Answered(r) \in {Shut("prerequisites"), Shut("unavailable")}
        BY <1>4, <2>4, <2>7, Reasons
    <2> QED
        BY <2>1, <2>3, <2>6, <2>7
<1>5. CASE ~r.course /\ ~Endless(r)
    <2> DEFINE open == PathOpen(r.path, r.after)
    <2>1. \/ \E u \in open : Answered(r) = Shows(u)
          \/ /\ \A u \in open : ~Prepared(u)
             /\ Answered(r) = IF Completed(r.path) THEN Shut("completed")
                              ELSE IF open # {} THEN Shut("prerequisites") ELSE Shut("unavailable")
        BY <1>1, <1>5, Routed, PathAnswers
    <2>2. CASE \E u \in open : Answered(r) = Shows(u)
        BY <1>5, <2>2, Reasons
    <2>3. ASSUME \A u \in open : ~Prepared(u), r.after = Nothing, NEW u \in Workable(r)
          PROVE  Finished(u)
        BY <1>5, <2>3, WorkableIsTried DEF PathOpen, StreamTried
    <2> HIDE DEF open
    <2> QED
        BY <1>2, <1>5, <2>1, <2>2, <2>3, Reasons
<1> QED
    BY <1>3, <1>4, <1>5, Routed

\* Practice is offered only where nothing new is left.
LEMMA RepeatsHold == StreamTypeOK => NewBeforeRepeat
<1> SUFFICES ASSUME StreamTypeOK, NEW r, Sent(r), Answered(r).repeat,
                    r.course => r.after = Nothing, NEW v \in Workable(r), v # r.after
             PROVE  v \in Units /\ ReviewAvailable(v)
    BY DEF NewBeforeRepeat, EveryAnswer, Sent, Answered
<1>1. r.after \in {Nothing} \cup ToSet(UnitsOf[r.path]) /\ v \in Units
    BY WorkableIsTried DEF Sent
<1>2. CASE r.course
    <2>1. PICK u \in CourseTried(r.path, r.after, Endless(r)) :
              /\ Answered(r) = Shows(u)
              /\ \A w \in CourseTried(r.path, r.after, Endless(r)) :
                    CanStart(w) => CourseRank(u, r.after) <= CourseRank(w, r.after)
        BY <1>1, <1>2, Routed, CourseAnswers, EndsNowhere
    <2>2. u \in Units /\ ReviewAvailable(u)
        BY <2>1, Routed, RoomsOnPaths, Shapes DEF CourseTried
    <2>3. Endless(r)
        BY <2>1, <2>2, Routed DEF CourseTried
    <2>4. v \in CourseTried(r.path, r.after, Endless(r)) /\ CanStart(v)
        BY <1>2, <2>3, WorkableIsTried DEF CourseTried
    <2>5. CourseRank(u, r.after) <= CourseRank(v, r.after)
        BY <2>1, <2>4
    <2>6. /\ CourseRank(u, r.after) \in Nat /\ CourseRank(v, r.after) \in Nat /\ Size \in Nat
          /\ CourseRank(u, r.after) > 2 * Size
          /\ CourseRank(v, r.after) > 2 * Size => ReviewAvailable(v)
        BY <1>1, <1>2, <2>2, CourseRanks, RoomsOnPaths
    <2> QED
        BY <1>1, <2>5, <2>6
<1>3. CASE ~r.course /\ Endless(r)
    <2>1. PICK u \in StreamTried(r.path) :
              /\ Answered(r) = Shows(u)
              /\ \A w \in StreamTried(r.path) : Stage(u, r.after) <= Stage(w, r.after)
        BY <1>1, <1>3, Routed, StreamAnswers, EndsNowhere
    <2>2. ReviewAvailable(u)
        BY <2>1, Shapes DEF StreamTried, Served
    <2>3. Stage(u, r.after) = 2
        BY <2>2 DEF Stage, ReviewAvailable, InWork, Finished
    <2>4. Stage(u, r.after) <= Stage(v, r.after)
        BY <1>3, <2>1, WorkableIsTried
    <2>5. ~InWork(v) /\ Finished(v)
        BY <2>3, <2>4 DEF Stage
    <2> QED
        BY <1>1, <2>5 DEF InWork, ReviewAvailable
<1>4. CASE ~r.course /\ ~Endless(r)
    <2>1. PICK u \in PathOpen(r.path, r.after) : Answered(r) = Shows(u)
        BY <1>4, Routed, PathAnswers, EndsNowhere
    <2>2. u \in Units /\ ~Finished(u)
        BY Routed, RoomsOnPaths DEF PathOpen
    <2> QED
        BY <2>1, <2>2, Shapes DEF ReviewAvailable
<1> QED
    BY <1>2, <1>3, <1>4, Routed

\* A sequence without one of its elements, all of them different.
LEMMA WithoutOne ==
    ASSUME NEW S, NEW s \in Seq(S), IsInjective(s), NEW x \in ToSet(s),
           NEW rest, rest = RemoveAt(s, At(s, x))
    PROVE  rest \in Seq(S) /\ IsInjective(rest) /\ ToSet(rest) = ToSet(s) \ {x}
<1>1. PICK i \in 1 .. Len(s) : i = At(s, x) /\ s[i] = x
    BY Elements
<1>2. Len(s) \in Nat /\ DOMAIN s = 1 .. Len(s)
    BY LenProperties
<1>3. PICK n \in Nat : Len(s) = n + 1
    <2>1. Len(s) - 1 \in Nat /\ Len(s) = (Len(s) - 1) + 1
        BY <1>1, <1>2
    <2> QED
        BY <2>1
<1>4. rest = SubSeq(s, 1, i - 1) \o SubSeq(s, i + 1, Len(s))
    BY <1>1 DEF RemoveAt
<1>5. rest \in Seq(S) /\ Len(rest) = n /\ \A j \in 1 .. n : rest[j] = IF j < i THEN s[j] ELSE s[j + 1]
    <2> DEFINE front == SubSeq(s, 1, i - 1)
               back == SubSeq(s, i + 1, n + 1)
    <2>1. \A j \in 1 .. n + 1 : s[j] \in S
        BY <1>2, <1>3, ElementOfSeq
    <2>2. /\ front \in Seq(S) /\ Len(front) = i - 1
          /\ \A j \in 1 .. i - 1 : front[j] = s[j]
        <3>1. 1 \in Int /\ i - 1 \in Int /\ \A j \in 1 .. i - 1 : s[j] \in S
            BY <1>1, <1>3, <2>1
        <3>2. /\ front \in Seq(S) /\ Len(front) = IF 1 <= i - 1 THEN (i - 1) - 1 + 1 ELSE 0
              /\ \A j \in 1 .. (i - 1) - 1 + 1 : front[j] = s[1 + j - 1]
            BY <3>1, SubSeqProperties
        <3> QED
            BY <1>1, <1>3, <3>2
    <2>3. /\ back \in Seq(S) /\ Len(back) = n + 1 - i
          /\ \A j \in 1 .. n + 1 - i : back[j] = s[i + j]
        <3>1. i + 1 \in Int /\ n + 1 \in Int /\ \A j \in i + 1 .. n + 1 : s[j] \in S
            BY <1>1, <1>3, <2>1
        <3>2. /\ back \in Seq(S) /\ Len(back) = IF i + 1 <= n + 1 THEN (n + 1) - (i + 1) + 1 ELSE 0
              /\ \A j \in 1 .. (n + 1) - (i + 1) + 1 : back[j] = s[(i + 1) + j - 1]
            BY <3>1, SubSeqProperties
        <3> QED
            BY <1>1, <1>3, <3>2
    <2>4. rest = front \o back
        BY <1>3, <1>4
    <2> HIDE DEF front, back
    <2>5. /\ rest \in Seq(S) /\ Len(rest) = Len(front) + Len(back)
          /\ \A j \in 1 .. Len(front) + Len(back) :
                rest[j] = IF j <= Len(front) THEN front[j] ELSE back[j - Len(front)]
        <3>1. /\ front \o back \in Seq(S) /\ Len(front \o back) = Len(front) + Len(back)
              /\ \A j \in 1 .. Len(front) + Len(back) :
                    (front \o back)[j] = IF j <= Len(front) THEN front[j] ELSE back[j - Len(front)]
            BY <2>2, <2>3, ConcatProperties
        <3> QED
            BY <2>4, <3>1
    <2>6. Len(front) + Len(back) = n
        BY <1>1, <1>3, <2>2, <2>3
    <2>7. ASSUME NEW j \in 1 .. n
          PROVE  rest[j] = IF j < i THEN s[j] ELSE s[j + 1]
        <3>1. CASE j < i
            BY <1>1, <2>2, <2>5, <2>6, <3>1
        <3>2. CASE ~(j < i)
            <4>1. j - (i - 1) \in 1 .. n + 1 - i /\ ~(j <= i - 1) /\ i + (j - (i - 1)) = j + 1
                BY <1>1, <1>3, <3>2
            <4>2. rest[j] = back[j - (i - 1)]
                BY <2>2, <2>5, <2>6, <4>1
            <4> QED
                BY <2>3, <3>2, <4>1, <4>2
        <3> QED
            BY <3>1, <3>2
    <2> QED
        BY <2>5, <2>6, <2>7
<1>6. DOMAIN rest = 1 .. n
    BY <1>5, LenProperties
<1>7. \A a, b \in 1 .. n + 1 : s[a] = s[b] => a = b
    BY <1>2, <1>3 DEF IsInjective
<1>8. \A j \in 1 .. n : j \in 1 .. n + 1 /\ j + 1 \in 1 .. n + 1
    OBVIOUS
<1>9. IsInjective(rest)
    <2> SUFFICES ASSUME NEW a \in 1 .. n, NEW b \in 1 .. n, rest[a] = rest[b]
                 PROVE  a = b
        BY <1>6 DEF IsInjective
    <2> DEFINE j(c) == IF c < i THEN c ELSE c + 1
    <2>1. j(a) \in 1 .. n + 1 /\ j(b) \in 1 .. n + 1 /\ rest[a] = s[j(a)] /\ rest[b] = s[j(b)]
        BY <1>5, <1>8
    <2>2. j(a) = j(b)
        <3> HIDE DEF j
        <3> QED
            BY <1>7, <2>1
    <2> QED
        BY <1>1, <2>2
<1>10. \A j \in 1 .. n : rest[j] \in ToSet(s) \ {x}
    <2> TAKE j \in 1 .. n
    <2>1. PICK k \in 1 .. n + 1 : rest[j] = s[k] /\ k # i
        <3>1. CASE j < i
            <4>1. j \in 1 .. n + 1 /\ j # i /\ rest[j] = s[j]
                BY <1>1, <1>5, <1>8, <3>1
            <4> QED
                BY <4>1
        <3>2. CASE ~(j < i)
            <4>1. j + 1 \in 1 .. n + 1 /\ j + 1 # i /\ rest[j] = s[j + 1]
                BY <1>1, <1>5, <1>8, <3>2
            <4> QED
                BY <4>1
        <3> QED
            BY <3>1, <3>2
    <2> QED
        BY <1>1, <1>2, <1>3, <1>7, <2>1 DEF ToSet
<1>11. ASSUME NEW y \in ToSet(s), y # x
       PROVE  \E j \in 1 .. n : rest[j] = y
    <2>1. PICK k \in 1 .. n + 1 : s[k] = y
        BY <1>2, <1>3 DEF ToSet
    <2>2. CASE k < i
        <3>1. k \in 1 .. n /\ rest[k] = y
            BY <1>1, <1>3, <1>5, <2>1, <2>2
        <3> QED
            BY <3>1
    <2>3. CASE k > i
        <3>1. k - 1 \in 1 .. n /\ ~(k - 1 < i) /\ (k - 1) + 1 = k
            BY <1>1, <2>1, <2>3
        <3>2. rest[k - 1] = s[(k - 1) + 1]
            BY <1>5, <3>1
        <3> QED
            BY <2>1, <3>1, <3>2
    <2> QED
        BY <1>1, <1>11, <2>1, <2>2, <2>3
<1>12. ToSet(rest) = {rest[j] : j \in 1 .. n}
    BY <1>6 DEF ToSet
<1>13. ToSet(rest) = ToSet(s) \ {x}
    BY <1>10, <1>11, <1>12
<1> QED
    BY <1>5, <1>9, <1>13

\* A new element at the front.
InFrontOf(x, s) == <<x>> \o s
LEMMA InFront ==
    ASSUME NEW S, NEW s \in Seq(S), IsInjective(s), NEW x \in S, x \notin ToSet(s),
           NEW longer, longer = InFrontOf(x, s)
    PROVE  longer \in Seq(S) /\ IsInjective(longer) /\ ToSet(longer) = ToSet(s) \cup {x}
<1>1. PICK n \in Nat : Len(s) = n /\ DOMAIN s = 1 .. n
    BY LenProperties
<1>2. /\ longer \in Seq(S) /\ Len(longer) = n + 1 /\ longer[1] = x
      /\ \A j \in 1 .. n : longer[j + 1] = s[j]
    BY <1>1 DEF InFrontOf
<1>3. DOMAIN longer = 1 .. n + 1
    BY <1>2, LenProperties
<1>4. \A k \in 1 .. n + 1 : k = 1 \/ \E j \in 1 .. n : k = j + 1
    <2> TAKE k \in 1 .. n + 1
    <2>1. k # 1 => k - 1 \in 1 .. n /\ k = (k - 1) + 1
        OBVIOUS
    <2> QED
        BY <2>1
<1>5. \A j \in 1 .. n : s[j] # x
    BY <1>1 DEF ToSet
<1>6. IsInjective(longer)
    <2> SUFFICES ASSUME NEW a \in 1 .. n + 1, NEW b \in 1 .. n + 1, longer[a] = longer[b]
                 PROVE  a = b
        BY <1>3 DEF IsInjective
    <2>1. \A i, j \in 1 .. n : s[i] = s[j] => i = j
        BY <1>1 DEF IsInjective
    <2>2. CASE a = 1
        BY <1>2, <1>4, <1>5, <2>2
    <2>3. CASE b = 1
        BY <1>2, <1>4, <1>5, <2>3
    <2>4. CASE a # 1 /\ b # 1
        <3>1. PICK i \in 1 .. n, j \in 1 .. n : a = i + 1 /\ b = j + 1
            BY <1>4, <2>4
        <3>2. longer[a] = s[i] /\ longer[b] = s[j]
            BY <1>2, <3>1
        <3> QED
            BY <2>1, <3>1, <3>2
    <2> QED
        BY <2>2, <2>3, <2>4
<1>7. \A k \in 1 .. n + 1 : longer[k] \in ToSet(s) \cup {x}
    <2> TAKE k \in 1 .. n + 1
    <2>1. CASE k = 1
        BY <1>2, <2>1
    <2>2. CASE k # 1
        <3>1. PICK j \in 1 .. n : k = j + 1
            BY <1>4, <2>2
        <3>2. longer[k] = s[j]
            BY <1>2, <3>1
        <3> QED
            BY <1>1, <3>2 DEF ToSet
    <2> QED
        BY <2>1, <2>2
<1>8. \A y \in ToSet(s) \cup {x} : \E k \in 1 .. n + 1 : longer[k] = y
    <2> TAKE y \in ToSet(s) \cup {x}
    <2>1. CASE y = x
        <3>1. 1 \in 1 .. n + 1
            OBVIOUS
        <3> QED
            BY <1>2, <2>1, <3>1
    <2>2. CASE y \in ToSet(s)
        <3>1. PICK j \in 1 .. n : s[j] = y
            BY <1>1, <2>2 DEF ToSet
        <3>2. j + 1 \in 1 .. n + 1
            OBVIOUS
        <3>3. longer[j + 1] = y
            BY <1>2, <3>1
        <3> QED
            BY <3>2, <3>3
    <2> QED
        BY <2>1, <2>2
<1>9. ToSet(longer) = {longer[k] : k \in 1 .. n + 1}
    BY <1>3 DEF ToSet
<1>10. ToSet(longer) = ToSet(s) \cup {x}
    BY <1>7, <1>8, <1>9
<1> QED
    BY <1>2, <1>6, <1>10

\* A change of a room keeps the order of work: the room goes to its front, or leaves it.
LEMMA ChangeKeepsOrder ==
    ASSUME StreamTypeOK, NEW u \in Units, NEW to \in Rooms,
           Change(u, to)
    PROVE  /\ rooms' \in [Units -> Rooms] /\ rooms' = [rooms EXCEPT ![u] = to]
           /\ recent' \in Seq(Units) /\ IsInjective(recent)'
           /\ ToSet(recent)' = {v \in Units : InWork(v)'}
<1> DEFINE others == IF InWork(u) THEN RemoveAt(recent, At(recent, u)) ELSE recent
           works == to.reviewing \/ to.status = "in_progress"
<1>1. /\ rooms' = [rooms EXCEPT ![u] = to]
      /\ recent' = IF works THEN <<u>> \o others ELSE others
    BY DEF Change
<1>2. /\ rooms \in [Units -> Rooms] /\ recent \in Seq(Units) /\ IsInjective(recent)
      /\ ToSet(recent) = {v \in Units : InWork(v)}
    BY DEF StreamTypeOK
<1>3. others \in Seq(Units) /\ IsInjective(others)
      /\ ToSet(others) = {v \in Units : InWork(v) /\ v # u}
    <2>1. CASE InWork(u)
        <3>1. u \in ToSet(recent) /\ others = RemoveAt(recent, At(recent, u))
            BY <1>2, <2>1
        <3> HIDE DEF others
        <3>2. others \in Seq(Units) /\ IsInjective(others) /\ ToSet(others) = ToSet(recent) \ {u}
            BY <1>2, <3>1, WithoutOne
        <3> QED
            BY <1>2, <3>2
    <2>2. CASE ~InWork(u)
        BY <1>2, <2>2
    <2> QED
        BY <2>1, <2>2
<1>4. rooms' \in [Units -> Rooms]
    BY <1>1, <1>2
<1>5. \A v \in Units : InWork(v)' <=> IF v = u THEN works ELSE InWork(v)
    BY <1>1, <1>2 DEF InWork, Reviewing
<1> HIDE DEF others
<1>6. CASE works
    <2>1. recent' = <<u>> \o others /\ u \notin ToSet(others)
        BY <1>1, <1>3, <1>6
    <2>2. /\ recent' \in Seq(Units) /\ IsInjective(recent')
          /\ ToSet(recent') = ToSet(others) \cup {u}
        <3>1. PICK longer, rest : longer = recent' /\ rest = others
            OBVIOUS
        <3>2. longer = InFrontOf(u, rest)
            BY <2>1, <3>1 DEF InFrontOf
        <3>3. rest \in Seq(Units) /\ IsInjective(rest) /\ u \notin ToSet(rest)
            BY <1>3, <2>1, <3>1
        <3>4. /\ longer \in Seq(Units) /\ IsInjective(longer)
              /\ ToSet(longer) = ToSet(rest) \cup {u}
            BY <3>2, <3>3, InFront
        <3> QED
            BY <3>1, <3>4
    <2>3. ToSet(others) \cup {u} = {v \in Units : InWork(v)'}
        BY <1>3, <1>5, <1>6
    <2>4. IsInjective(recent)' /\ ToSet(recent)' = ToSet(recent')
        BY <2>2 DEF IsInjective, ToSet
    <2> QED
        BY <1>1, <1>4, <2>2, <2>3, <2>4
<1>7. CASE ~works
    <2>1. recent' = others
        BY <1>1, <1>7
    <2>2. ToSet(others) = {v \in Units : InWork(v)'}
        BY <1>3, <1>5, <1>7
    <2>3. IsInjective(recent)' /\ ToSet(recent)' = ToSet(others)
        BY <1>3, <2>1 DEF IsInjective, ToSet
    <2> QED
        BY <1>1, <1>3, <1>4, <2>1, <2>2, <2>3
<1> QED
    BY <1>6, <1>7

\* A request for the next room is answered with a room of the catalogue, or with none.
LEMMA AnswersAreRooms ==
    ASSUME NEW p \in ToSet(Paths),
           NEW after \in {Nothing} \cup ToSet(UnitsOf[p])
    PROVE  NextRoom(p, after, TRUE, FALSE).unit \in Units \cup {Nothing}
<1>1. NextRoom(p, after, TRUE, FALSE) = ContinuousRoom(p, after)
    BY DEF NextRoom
<1>2. \A u \in StreamTried(p) : u \in Units
    BY DEF StreamTried, Served
<1>3. CASE \E u \in StreamTried(p) : ContinuousRoom(p, after) = Shows(u)
    <2>1. PICK u \in StreamTried(p) : ContinuousRoom(p, after) = Shows(u)
        BY <1>3
    <2>2. u \in Units /\ Shows(u).unit = u
        BY <1>2, <2>1, Shapes
    <2> QED
        BY <1>1, <2>1, <2>2
<1>4. CASE ~\E u \in StreamTried(p) : ContinuousRoom(p, after) = Shows(u)
    <2>1. \/ ContinuousRoom(p, after) = Limited
          \/ ContinuousRoom(p, after) = Shut("prerequisites")
          \/ ContinuousRoom(p, after) = Shut("unavailable")
        BY <1>4, StreamAnswers
    <2> QED
        <3>1. /\ Limited.unit = Nothing /\ Shut("prerequisites").unit = Nothing
              /\ Shut("unavailable").unit = Nothing
            BY EndsNowhere
        <3> QED
            BY <1>1, <2>1, <3>1
<1> QED
    BY <1>3, <1>4

\* The parts of the type that only a request changes stay when it does not.
LEMMA TypeAfterWork ==
    ASSUME StreamTypeOK, NEW u \in Units, NEW course \in BOOLEAN,
           Work(u, course)
    PROVE  StreamTypeOK'
<1>1. rooms[u] \in Rooms /\ rooms[u].status \in {"new", "in_progress", "completed", "skipped"}
      /\ rooms[u].reviewing \in BOOLEAN
    BY DEF StreamTypeOK, Rooms
<1>2. \A how \in {"completed", "skipped"} : Finish(u, how) \in Rooms
    BY <1>1 DEF Finish, Rooms
<1>3. Review(u) \in Rooms
    BY <1>1 DEF Review, Rooms
<1>4. \E to \in Rooms : Change(u, to)
    <2>1. CASE Save(u, course)
        <3>1. [rooms[u] EXCEPT !.status = IF @ = "new" THEN "in_progress" ELSE @] \in Rooms
            BY <1>1 DEF Rooms
        <3> QED
            BY <2>1, <3>1 DEF Save
    <2>2. CASE Complete(u, course)
        BY <1>2, <2>2 DEF Complete
    <2>3. CASE Skip(u, course)
        BY <1>2, <2>3 DEF Skip
    <2>4. CASE StartReview(u, course)
        BY <1>3, <2>4 DEF StartReview
    <2> QED
        BY <2>1, <2>2, <2>3, <2>4 DEF Work
<1>5. PICK to \in Rooms : Change(u, to)
    BY <1>4
<1>6. /\ rooms' \in [Units -> Rooms]
      /\ recent' \in Seq(Units) /\ IsInjective(recent)'
      /\ ToSet(recent)' = {v \in Units : InWork(v)'}
    BY <1>5, ChangeKeepsOrder
<1>7. begun' \subseteq Units /\ spent' \in BOOLEAN
    <2>1. begun' \in {begun, begun \cup {u}} /\ spent' \in {spent, TRUE}
        BY DEF Work, Save, Complete, Skip, StartReview, Begin
    <2> QED
        BY <2>1 DEF StreamTypeOK
<1>8. UNCHANGED <<shown, policy, owned, withheld>>
    BY <1>5 DEF Change, accessVars
<1> QED
    BY <1>6, <1>7, <1>8 DEF StreamTypeOK

\* What leaves the rooms alone leaves the order of work alone.
LEMMA OrderUntouched ==
    ASSUME StreamTypeOK, UNCHANGED <<rooms, recent>>
    PROVE  /\ rooms' \in [Units -> Rooms]
           /\ recent' \in Seq(Units) /\ IsInjective(recent)'
           /\ ToSet(recent)' = {v \in Units : InWork(v)'}
    BY DEF StreamTypeOK, IsInjective, ToSet, InWork, Reviewing

\* The rooms in work are those of their order, in every step.
LEMMA TypeInvariant == StreamSpec => []StreamTypeOK
<1>1. StreamInit => StreamTypeOK
    <2> SUFFICES ASSUME StreamInit
                 PROVE  StreamTypeOK
        OBVIOUS
    <2>1. rooms \in [Units -> Rooms] /\ \A v \in Units : ~InWork(v)
        BY DEF StreamInit, Rooms, InWork, Reviewing
    <2>2. recent \in Seq(Units) /\ IsInjective(recent) /\ ToSet(recent) = {}
        <3>1. recent = <<>>
            BY DEF StreamInit
        <3> QED
            BY <3>1 DEF IsInjective, ToSet
    <2> QED
        BY <2>1, <2>2 DEF StreamInit, StreamTypeOK
<1>2. StreamTypeOK /\ [StreamNext]_streamVars => StreamTypeOK'
    <2> SUFFICES ASSUME StreamTypeOK, [StreamNext]_streamVars
                 PROVE  StreamTypeOK'
        OBVIOUS
    <2>1. CASE Follow
        <3>1. PICK p \in ToSet(Paths) :
                    \E after \in {Nothing} \cup ToSet(UnitsOf[p]) :
                        shown' = NextRoom(p, after, TRUE, FALSE).unit
            BY <2>1 DEF Follow
        <3>2. PICK after \in {Nothing} \cup ToSet(UnitsOf[p]) :
                    shown' = NextRoom(p, after, TRUE, FALSE).unit
            BY <3>1
        <3>3. shown' \in Units \cup {Nothing}
            BY <3>2, AnswersAreRooms
        <3>4. UNCHANGED <<rooms, recent, begun, spent, policy, owned, withheld>>
            BY <2>1 DEF Follow, learnerVars, accessVars
        <3> QED
            BY <3>3, <3>4, OrderUntouched DEF StreamTypeOK
    <2>2. ASSUME NEW u \in Units, NEW course \in BOOLEAN, Choose(u, course)
          PROVE  StreamTypeOK'
        <3>1. UNCHANGED <<rooms, recent, begun, spent, policy, owned, withheld>> /\ shown' = u
            BY <2>2 DEF Choose, learnerVars, accessVars
        <3> QED
            BY <3>1, OrderUntouched DEF StreamTypeOK
    <2>3. ASSUME NEW u \in Units, NEW course \in BOOLEAN, Work(u, course)
          PROVE  StreamTypeOK'
        BY <2>3, TypeAfterWork
    <2>4. CASE ShopChanges
        <3>1. UNCHANGED <<rooms, recent, begun, spent, shown, owned, withheld>> /\ policy' \in Policies
            BY <2>4 DEF ShopChanges, learnerVars
        <3> QED
            BY <3>1, OrderUntouched DEF StreamTypeOK
    <2>5. CASE NextDay
        <3>1. UNCHANGED <<rooms, recent, begun, shown, policy, owned, withheld>> /\ spent' = FALSE
            BY <2>5 DEF NextDay, accessVars
        <3> QED
            BY <3>1, OrderUntouched DEF StreamTypeOK
    <2>6. ASSUME NEW p \in ToSet(Paths), Buy(p)
          PROVE  StreamTypeOK'
        <3>1. UNCHANGED <<rooms, recent, begun, spent, shown, policy, withheld>> /\ owned' = owned \cup {p}
            BY <2>6 DEF Buy, learnerVars
        <3> QED
            BY <3>1, OrderUntouched DEF StreamTypeOK
    <2>7. ASSUME NEW u \in Withholdable, Withhold(u)
          PROVE  StreamTypeOK'
        <3>1. UNCHANGED <<rooms, recent, begun, spent, shown, policy, owned>>
            BY <2>7 DEF Withhold, learnerVars
        <3>2. withheld' \subseteq withheld \cup {u}
            BY <2>7 DEF Withhold, SymDiff
        <3> QED
            BY <3>1, <3>2, OrderUntouched, StreamConstantsOK DEF StreamTypeOK
    <2>8. CASE UNCHANGED streamVars
        <3>1. UNCHANGED <<rooms, recent, begun, spent, shown, policy, owned, withheld>>
            BY <2>8 DEF streamVars, learnerVars, accessVars
        <3> QED
            BY <3>1, OrderUntouched DEF StreamTypeOK
    <2> QED
        BY <2>1, <2>2, <2>3, <2>4, <2>5, <2>6, <2>7, <2>8 DEF StreamNext, LearnerMoves
<1> QED
    BY <1>1, <1>2, PTL DEF StreamSpec

\* A room that next_room offers can be opened and worked in, and the rooms in work are those of
\* their order: in every state that a learner, the shop and the operator can reach.
THEOREM OffersSound == StreamSpec => []OffersAreSound
<1>1. StreamTypeOK => OffersAreSound
    BY OffersOpen DEF OffersAreSound
<1>2. StreamSpec => []StreamTypeOK
    BY TypeInvariant
<1> QED
    BY <1>1, <1>2, PTL

\* No stream ends while it has work for the learner, and the reason of an end is the true one.
THEOREM EndsTrue == StreamSpec => []EndsAreTrue
<1>1. StreamTypeOK => EndsAreTrue
    BY EndsHold
<1>2. StreamSpec => []StreamTypeOK
    BY TypeInvariant
<1> QED
    BY <1>1, <1>2, PTL

\* Practice comes after everything new that the learner could do, except on the way through a
\* course in its declared order.
THEOREM NewComesFirst == StreamSpec => []NewBeforeRepeat
<1>1. StreamTypeOK => NewBeforeRepeat
    BY RepeatsHold
<1>2. StreamSpec => []StreamTypeOK
    BY TypeInvariant
<1> QED
    BY <1>1, <1>2, PTL

\* A room that changes keeps the end of an achievement.
LEMMA FinishedStays ==
    ASSUME StreamTypeOK, NEW u \in Units, NEW course \in BOOLEAN, Work(u, course),
           NEW v \in Units, Finished(v)
    PROVE  Finished(v)'
<1>1. \E to : rooms' = [rooms EXCEPT ![u] = to] /\ (Finished(u) => to.status \in {"completed", "skipped"})
    <2>1. CASE Save(u, course)
        <3>1. PICK to : /\ to = [rooms[u] EXCEPT !.status = IF @ = "new" THEN "in_progress" ELSE @]
                        /\ Change(u, to)
            BY <2>1 DEF Save
        <3>2. rooms[u] \in Rooms
            BY DEF StreamTypeOK
        <3>3. Finished(u) => to.status \in {"completed", "skipped"}
            BY <3>1, <3>2 DEF Rooms, Finished
        <3> QED
            BY <3>1, <3>3 DEF Change
    <2>2. ASSUME NEW how \in {"completed", "skipped"}, Change(u, Finish(u, how))
          PROVE  \E to : /\ rooms' = [rooms EXCEPT ![u] = to]
                         /\ Finished(u) => to.status \in {"completed", "skipped"}
        <3>1. rooms[u] \in Rooms
            BY DEF StreamTypeOK
        <3>2. Finished(u) => Finish(u, how).status \in {"completed", "skipped"}
            BY <3>1 DEF Finish, Rooms, Finished
        <3> QED
            BY <2>2, <3>2 DEF Change
    <2>3. CASE StartReview(u, course)
        <3>1. rooms[u] \in Rooms /\ Change(u, Review(u))
            BY <2>3 DEF StreamTypeOK, StartReview
        <3>2. Finished(u) => Review(u).status \in {"completed", "skipped"}
            BY <3>1 DEF Review, Rooms, Finished
        <3> QED
            BY <3>1, <3>2 DEF Change
    <2> QED
        BY <2>1, <2>2, <2>3 DEF Work, Complete, Skip
<1>2. rooms \in [Units -> Rooms]
    BY DEF StreamTypeOK
<1> QED
    BY <1>1, <1>2 DEF Finished

\* What a learner finished and learned stays so, whatever is saved, skipped or practised.
THEOREM AchievementsStay == StreamSpec => AchievementsLast
<1>1. StreamSpec => []StreamTypeOK
    BY TypeInvariant
<1>2. StreamTypeOK /\ [StreamNext]_streamVars =>
          [/\ Introduced \subseteq Introduced'
           /\ \A u \in Units : Finished(u) => Finished(u)']_streamVars
    <2> SUFFICES ASSUME StreamTypeOK, [StreamNext]_streamVars
                 PROVE  /\ Introduced \subseteq Introduced'
                        /\ \A u \in Units : Finished(u) => Finished(u)'
        OBVIOUS
    <2>1. \A v \in Units : Finished(v) => Finished(v)'
        <3>1. CASE \E u \in Units, course \in BOOLEAN : Work(u, course)
            BY <3>1, FinishedStays
        <3>2. CASE ~\E u \in Units, course \in BOOLEAN : Work(u, course)
            <4>1. rooms' = rooms
                BY <3>2 DEF StreamNext, LearnerMoves, Follow, Choose,
                    ShopChanges, NextDay, Buy, Withhold, streamVars, learnerVars
            <4> QED
                BY <4>1 DEF Finished
        <3> QED
            BY <3>1, <3>2
    <2>2. \A v \in Units : ConceptsOf(v) \subseteq ConceptsOf(v)'
        BY <2>1 DEF ConceptsOf
    <2>3. Introduced \subseteq Introduced'
        BY <2>2 DEF Introduced
    <2> QED
        BY <2>1, <2>3
<1> QED
    BY <1>1, <1>2, PTL DEF AchievementsLast, StreamSpec
=============================================================================
