-------------------------- MODULE LessonMilestones --------------------------
(***************************************************************************)
(* The outbox of one lesson milestone (services/lesson_milestones.py): a   *)
(* row that the completing transaction writes, senders that claim it when  *)
(* it is due, call challenges-ms outside any transaction and record the    *)
(* outcome, and the service that books the milestone.                      *)
(*                                                                         *)
(* A sender is a delivery started after a completion (deliver_soon) or the *)
(* recovery loop of a process.  It may die at any moment.  The next attempt *)
(* of a claimed row falls due while its call is still open: backoff starts *)
(* at 30 s and the 8 s of the client are for each read, not for the call.  *)
(***************************************************************************)
CONSTANT Senders

VARIABLES outbox,   \* LessonMilestoneDelivery.state, or "none" without a row
          due,      \* next_attempt_at has passed
          sender,   \* [Senders -> SenderStates]
          stray,    \* a call that nobody waits for any more is still on its way
          booked,   \* challenges-ms has booked the milestone
          gone      \* challenges-ms has erased the learner

milestoneVars == <<outbox, due, sender, stray, booked, gone>>

Final == {"delivered", "erased", "rejected"}
Outcomes == Final \cup {"retry"}
SenderStates == {"idle", "calling"} \cup Outcomes

MilestoneTypeOK == /\ outbox \in {"none", "pending"} \cup Final
                   /\ due \in BOOLEAN
                   /\ sender \in [Senders -> SenderStates]
                   /\ stray \in BOOLEAN
                   /\ booked \in BOOLEAN
                   /\ gone \in BOOLEAN

MilestoneInit == /\ outbox = "none"
                 /\ due = FALSE
                 /\ sender = [s \in Senders |-> "idle"]
                 /\ stray = FALSE
                 /\ booked = FALSE
                 /\ gone = FALSE

To(s, state) == sender' = [sender EXCEPT ![s] = state]

-----------------------------------------------------------------------------
(* Faulty variants of the steps below: what TLC must reject. *)

\* A claimed row never falls due again.
FallDueNoMore == FALSE
-----------------------------------------------------------------------------
\* enqueue, in the transaction of the completion: nothing is added to an existing row.
Enqueue(wanted) == IF wanted /\ outbox = "none"
                   THEN outbox' = "pending" /\ due' = TRUE
                   ELSE UNCHANGED <<outbox, due>>

FallDue == /\ outbox = "pending"
           /\ ~due
           /\ due' = TRUE
           /\ UNCHANGED <<outbox, sender, stray, booked, gone>>

\* deliver: the claim commits before the call.
Claim(s) == /\ sender[s] = "idle"
            /\ outbox = "pending"
            /\ due
            /\ due' = FALSE
            /\ To(s, "calling")
            /\ UNCHANGED <<outbox, stray, booked, gone>>

\* challenges-ms books once and answers 200 for a booking of earlier calls too.
AnswerBooked(s) == /\ sender[s] = "calling"
                   /\ ~gone
                   /\ booked' = TRUE
                   /\ To(s, "delivered")
                   /\ UNCHANGED <<outbox, due, stray, gone>>

\* 410 for an erased learner; an unknown skill or an invalid body is final as well.
AnswerErased(s) == /\ sender[s] = "calling"
                   /\ gone
                   /\ To(s, "erased")
                   /\ UNCHANGED <<outbox, due, stray, booked, gone>>
AnswerRejected(s) == /\ sender[s] = "calling"
                     /\ ~gone
                     /\ ~booked
                     /\ To(s, "rejected")
                     /\ UNCHANGED <<outbox, due, stray, booked, gone>>

\* No usable answer; the call may have been booked, or may still be.
AnswerLost(s) == /\ sender[s] = "calling"
                 /\ To(s, "retry")
                 /\ stray' \in {stray, TRUE}
                 /\ UNCHANGED <<outbox, due, booked, gone>>
StrayCall == /\ stray
             /\ stray' = FALSE
             /\ booked' = (booked \/ ~gone)
             /\ UNCHANGED <<outbox, due, sender, gone>>

\* The row is read again under its lock: erased or finished meanwhile, it is left alone.
Record(s) == /\ sender[s] \in Outcomes
             /\ outbox' = IF outbox = "pending" /\ sender[s] # "retry" THEN sender[s] ELSE outbox
             /\ To(s, "idle")
             /\ UNCHANGED <<due, stray, booked, gone>>

\* The process dies, or the database fails, during the call or before its outcome is written.
Die(s) == /\ sender[s] # "idle"
          /\ To(s, "idle")
          /\ stray' = (stray \/ sender[s] = "calling")
          /\ UNCHANGED <<outbox, due, booked, gone>>

\* The account is erased at challenges-ms, with the milestone.
ForgetLearner == /\ ~gone
                 /\ gone' = TRUE
                 /\ booked' = FALSE
                 /\ UNCHANGED <<outbox, due, sender, stray>>

Answer(s) == AnswerBooked(s) \/ AnswerErased(s) \/ AnswerRejected(s)
MilestoneNext == \/ FallDue
                 \/ \E s \in Senders : Claim(s) \/ Answer(s) \/ AnswerLost(s) \/ Record(s) \/ Die(s)
                 \/ StrayCall
                 \/ ForgetLearner

\* The recovery loop runs every 30 s; a process does not die for ever at the same place, and an
\* answer is received and recorded at last.
MilestoneFairness == /\ WF_milestoneVars(FallDue)
                     /\ SF_milestoneVars(\E s \in Senders : Claim(s))
                     /\ \A s \in Senders : /\ SF_milestoneVars(Answer(s))
                                           /\ SF_milestoneVars(sender[s] \in Final /\ Record(s))
                                           /\ WF_milestoneVars(Record(s))
-----------------------------------------------------------------------------
\* What the outbox says was done is done: a delivered milestone is booked, unless challenges-ms
\* has erased the learner since, and only an erased learner has an outbox that says so.  A
\* rejected one may be booked by a call that was refused first.
OutboxIsTrue == /\ outbox = "delivered" => booked \/ gone
                /\ outbox = "erased" => gone

\* A late answer never changes what another sender has recorded.
OutcomeIsFinal == [][(outbox \in Final) => outbox' \in {outbox, "none"}]_outbox

\* Whatever fails on the way, a queued milestone is booked, refused for good or erased.
MilestonesArrive == outbox = "pending" ~> outbox # "pending"
=============================================================================
