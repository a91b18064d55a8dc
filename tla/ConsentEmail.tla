---------------------------- MODULE ConsentEmail ----------------------------
(***************************************************************************)
(* The e-mail that answers ONE consent export request: the administrator's *)
(* decision (src/src/app/api/admin/consent-requests/[id]/route.ts), the    *)
(* delivery row it queues, and the worker that sends it and mirrors the    *)
(* outcome into the request's emailStatus (src/src/lib/consent-email.ts,   *)
(* src/src/worker.ts).  A signature's confirmation copy is the same with   *)
(* one decision that is always APPROVED.                                   *)
(*                                                                         *)
(* Row and mirror are written one after the other: every await is a step.  *)
(* The clock and the queue are coarser than in EmailDelivery: a job that   *)
(* is delayed or invisible may come back at any time, which the claim (it  *)
(* ignores nextAttemptAt) has to bear anyway.                              *)
(***************************************************************************)
EXTENDS Integers, FiniteSets

CONSTANTS
  Rows,         \* ConsentEmailDelivery rows, one for every approval
  Reviews,      \* decision requests of the administrator
  Workers,      \* worker processes, each with one consumer and one sweeper
  NoRow,        \* "no row"
  MaxAttempts,  \* CONSENT_EMAIL_MAX_ATTEMPTS
  MaxJobs,      \* bound: jobs of one row in one stage of the queue
  MaxFaults     \* bound: crashes, errors and lost SMTP answers

ASSUME RowsAssumption == NoRow \notin Rows
ASSUME AttemptsAssumption == MaxAttempts \in Nat \ {0}
ASSUME BoundsAssumption == MaxJobs \in Nat \ {0} /\ MaxFaults \in Nat

VARIABLES
  decision,  \* ConsentExportRequest.status, or GONE with its class
  mirror,    \* ConsentExportRequest.emailStatus
  review,    \* what each decision request is doing
  status,    \* ConsentEmailDelivery.status
  attempts,  \* ConsentEmailDelivery.attempts
  claim,     \* ConsentEmailDelivery.claimedAt against the lease
  overdue,   \* nextAttemptAt is past the sweeper's grace
  ready,     \* jobs of the row a consumer may take now
  away,      \* jobs delayed by a retry or invisible after a crash
  task,      \* what each worker's consumer is doing
  sweep,     \* what each worker's sweeper is doing
  accepted,  \* how often the SMTP server accepted the row's e-mail
  faults     \* crashes, errors and lost SMTP answers so far

request == <<decision, mirror>>
rowVars == <<status, attempts, claim, overdue>>
queue == <<ready, away>>
vars == <<decision, mirror, review, status, attempts, claim, overdue, ready,
          away, task, sweep, accepted, faults>>

RowStatus == {"ABSENT", "PENDING", "SENT", "FAILED"}
MirrorStatus == {"NONE", "PENDING", "SENT", "FAILED"}
ReviewPC == {"read", "decide", "create", "enqueue", "mark", "done"}
Review == [pc : ReviewPC, row : Rows \cup {NoRow}]
TaskPC == {"idle", "render", "send", "sent", "refused", "putOff", "gone",
           "mirror"}
Task == [pc : TaskPC, row : Rows \cup {NoRow}, tries : Nat,
         outcome : MirrorStatus]
Sweep == [pc : {"stranded", "stuck", "close", "mirror"}, rows : SUBSET Rows]
Idle == [pc |-> "idle", row |-> NoRow, tries |-> 0, outcome |-> "NONE"]
Resting == [pc |-> "stranded", rows |-> {}]

Init ==
  /\ decision = "PENDING" /\ mirror = "NONE"
  /\ review = [h \in Reviews |-> [pc |-> "read", row |-> NoRow]]
  /\ status = [d \in Rows |-> "ABSENT"]
  /\ attempts = [d \in Rows |-> 0]
  /\ claim = [d \in Rows |-> "none"]
  /\ overdue = [d \in Rows |-> FALSE]
  /\ ready = [d \in Rows |-> 0]
  /\ away = [d \in Rows |-> 0]
  /\ task = [w \in Workers |-> Idle]
  /\ sweep = [w \in Workers |-> Resting]
  /\ accepted = [d \in Rows |-> 0]
  /\ faults = 0

-----------------------------------------------------------------------------
(* The decision.                                                           *)

ReviewAt(h, pc) == review[h].pc = pc
ReviewTo(h, pc) == review' = [review EXCEPT ![h].pc = pc]

\* Refused with 409 unless the request is still PENDING.
ReadRequest(h) ==
  /\ ReviewAt(h, "read")
  /\ ReviewTo(h, IF decision = "PENDING" THEN "decide" ELSE "done")
  /\ UNCHANGED <<request, rowVars, queue, task, sweep, accepted, faults>>

\* The update selects by id alone; on a deleted request it throws.
Reject(h) ==
  /\ ReviewAt(h, "decide")
  /\ decision' = IF decision = "GONE" THEN "GONE" ELSE "REJECTED"
  /\ ReviewTo(h, "done")
  /\ UNCHANGED <<mirror, rowVars, queue, task, sweep, accepted, faults>>

Approve(h) ==
  /\ ReviewAt(h, "decide")
  /\ decision' = IF decision = "GONE" THEN "GONE" ELSE "APPROVED"
  /\ ReviewTo(h, IF decision = "GONE" THEN "done" ELSE "create")
  /\ UNCHANGED <<mirror, rowVars, queue, task, sweep, accepted, faults>>

\* enqueueConsentExportReadyEmail: row and mirror in one transaction, which
\* fails when the request has gone.
CreateRow(h, d) ==
  /\ ReviewAt(h, "create") /\ status[d] = "ABSENT" /\ decision # "GONE"
  /\ status' = [status EXCEPT ![d] = "PENDING"]
  /\ mirror' = "PENDING"
  /\ review' = [review EXCEPT ![h] = [pc |-> "enqueue", row |-> d]]
  /\ UNCHANGED <<decision, attempts, claim, overdue, queue, task, sweep,
                 accepted, faults>>

CreateThrows(h) ==
  /\ ReviewAt(h, "create")
  /\ \/ decision = "GONE" /\ UNCHANGED faults
     \/ faults < MaxFaults /\ faults' = faults + 1
  /\ ReviewTo(h, "mark")
  /\ UNCHANGED <<request, rowVars, queue, task, sweep, accepted>>

\* One more job; at the bound the extra duplicate is not counted.
Add(q, d) == [q EXCEPT ![d] = IF @ < MaxJobs THEN @ + 1 ELSE @]
EnqueueAll(S) == [d \in Rows |-> IF d \in S /\ ready[d] < MaxJobs
                                 THEN ready[d] + 1 ELSE ready[d]]

EnqueueRow(h) ==
  /\ ReviewAt(h, "enqueue")
  /\ ready' = Add(ready, review[h].row)
  /\ ReviewTo(h, "done")
  /\ UNCHANGED <<request, rowVars, away, task, sweep, accepted, faults>>

EnqueueThrows(h) ==
  /\ ReviewAt(h, "enqueue") /\ faults < MaxFaults
  /\ faults' = faults + 1
  /\ ReviewTo(h, "mark")
  /\ UNCHANGED <<request, rowVars, queue, task, sweep, accepted>>

\* The catch: the mirror says FAILED, though the row may be PENDING.
MarkNotQueued(h) ==
  /\ ReviewAt(h, "mark")
  /\ mirror' = IF decision = "GONE" THEN mirror ELSE "FAILED"
  /\ ReviewTo(h, "done")
  /\ UNCHANGED <<decision, rowVars, queue, task, sweep, accepted, faults>>

ReviewDies(h) ==
  /\ review[h].pc \notin {"read", "done"} /\ faults < MaxFaults
  /\ faults' = faults + 1
  /\ ReviewTo(h, "done")
  /\ UNCHANGED <<request, rowVars, queue, task, sweep, accepted>>

\* The class is deleted, and the request with it; the rows stay.
DeleteRequest ==
  /\ decision # "GONE"
  /\ decision' = "GONE"
  /\ UNCHANGED <<mirror, review, rowVars, queue, task, sweep, accepted, faults>>

-----------------------------------------------------------------------------
(* The queue and the clock.                                                *)

Return(d) ==
  /\ away[d] > 0 /\ ready[d] < MaxJobs
  /\ away' = [away EXCEPT ![d] = @ - 1]
  /\ ready' = [ready EXCEPT ![d] = @ + 1]
  /\ UNCHANGED <<request, review, rowVars, task, sweep, accepted, faults>>

\* The visibility timeout passes while the consumer is still at work.
VisibilityExpires(w) ==
  /\ task[w].pc # "idle" /\ ready[task[w].row] < MaxJobs
  /\ ready' = Add(ready, task[w].row)
  /\ UNCHANGED <<request, review, rowVars, away, task, sweep, accepted, faults>>

\* Honker drops a job it has handed back too often.
LoseJob(d) ==
  /\ away[d] > 0 /\ faults < MaxFaults
  /\ away' = [away EXCEPT ![d] = @ - 1]
  /\ faults' = faults + 1
  /\ UNCHANGED <<request, review, rowVars, ready, task, sweep, accepted>>

\* w's attempt on d: from the claim to the write that gives the row back.
Holds(w, d) == task[w].row = d /\ task[w].pc \notin {"idle", "mirror"}

\* No attempt outlives its lease.
LeaseLapses(d) ==
  /\ claim[d] = "live" /\ \A w \in Workers : ~Holds(w, d)
  /\ claim' = [claim EXCEPT ![d] = "lapsed"]
  /\ UNCHANGED <<request, review, status, attempts, overdue, queue, task,
                 sweep, accepted, faults>>

TimePasses(d) ==
  /\ status[d] = "PENDING" /\ ~overdue[d]
  /\ overdue' = [overdue EXCEPT ![d] = TRUE]
  /\ UNCHANGED <<request, review, status, attempts, claim, queue, task, sweep,
                 accepted, faults>>

-----------------------------------------------------------------------------
(* deliverConsentEmail.                                                    *)

\* updateReferencedEmailAudit: an updateMany, which skips a deleted request.
Audit(s) == mirror' = IF decision = "GONE" THEN mirror ELSE s

\* Slip: the claim without its status test.
ClaimAnyStatus(d) == status[d] # "ABSENT" /\ claim[d] \in {"none", "lapsed"}
\* The claim's WHERE clause.
Claimable(d) == status[d] = "PENDING" /\ claim[d] \in {"none", "lapsed"}

TakeJob(w, d) ==
  /\ task[w].pc = "idle" /\ ready[d] > 0 /\ Claimable(d)
  /\ ready' = [ready EXCEPT ![d] = @ - 1]
  /\ claim' = [claim EXCEPT ![d] = "live"]
  /\ attempts' = [attempts EXCEPT ![d] = @ + 1]
  /\ task' = [task EXCEPT ![w] = [Idle EXCEPT !.pc = "render", !.row = d,
                                              !.tries = attempts[d] + 1]]
  /\ UNCHANGED <<request, review, status, overdue, away, sweep, accepted,
                 faults>>

SkipJob(w, d) ==
  /\ task[w].pc = "idle" /\ ready[d] > 0 /\ ~Claimable(d)
  /\ ready' = [ready EXCEPT ![d] = @ - 1]
  /\ UNCHANGED <<request, review, rowVars, away, task, sweep, accepted, faults>>

\* The CSV is built from the request as it is now.
Render(w) ==
  /\ task[w].pc = "render"
  /\ task' = [task EXCEPT ![w].pc = IF decision = "GONE" THEN "gone"
                                                         ELSE "send"]
  /\ UNCHANGED <<request, review, rowVars, queue, sweep, accepted, faults>>

\* It throws: put off, whatever the number of attempts.
RenderThrows(w) ==
  /\ task[w].pc = "render" /\ faults < MaxFaults
  /\ faults' = faults + 1
  /\ task' = [task EXCEPT ![w].pc = "putOff"]
  /\ UNCHANGED <<request, review, rowVars, queue, sweep, accepted>>

\* The SMTP server accepts the e-mail and its answer is read.
SendAccepted(w) ==
  /\ task[w].pc = "send"
  /\ accepted' = [accepted EXCEPT ![task[w].row] = @ + 1]
  /\ task' = [task EXCEPT ![w].pc = "sent"]
  /\ UNCHANGED <<request, review, rowVars, queue, sweep, faults>>

GivesUp(tries, permanent) == permanent \/ tries >= MaxAttempts

\* The server does not get or does not accept it.
SendRefused(w, permanent) ==
  /\ task[w].pc = "send"
  /\ task' = [task EXCEPT ![w].pc = IF GivesUp(task[w].tries, permanent)
                                    THEN "refused" ELSE "putOff"]
  /\ UNCHANGED <<request, review, rowVars, queue, sweep, accepted, faults>>

\* The server accepts it and the answer is lost to a timeout or a reset: an
\* error without a response code, which is never permanent.
AnswerLost(w) ==
  /\ task[w].pc = "send" /\ faults < MaxFaults
  /\ faults' = faults + 1
  /\ accepted' = [accepted EXCEPT ![task[w].row] = @ + 1]
  /\ task' = [task EXCEPT ![w].pc = IF GivesUp(task[w].tries, FALSE)
                                    THEN "refused" ELSE "putOff"]
  /\ UNCHANGED <<request, review, rowVars, queue, sweep>>

\* Slips: the worker's RETRY for a status; every attempt not sent audited
\* FAILED.
StatusAsOutcome(pc) == CASE pc = "sent" -> "SENT" [] pc = "putOff" -> "RETRY"
                         [] OTHER -> "FAILED"
StatusUnlessSent(pc) == IF pc = "sent" THEN "SENT" ELSE "FAILED"
\* What the row says after an attempt, and what the mirror is to say.
StatusAfter(pc) == CASE pc = "sent" -> "SENT" [] pc = "putOff" -> "PENDING"
                     [] OTHER -> "FAILED"

\* The update of the row, by id; a row whose request has gone has no mirror.
RecordOutcome(w) ==
  LET d == task[w].row
      pc == task[w].pc IN
  /\ pc \in {"sent", "refused", "putOff", "gone"}
  /\ status' = [status EXCEPT
       ![d] = IF pc = "putOff" THEN @ ELSE StatusAfter(pc)]
  /\ claim' = [claim EXCEPT ![d] = "none"]
  /\ overdue' = [overdue EXCEPT ![d] = IF pc = "putOff" THEN FALSE ELSE @]
  /\ task' = [task EXCEPT ![w] =
                IF pc = "gone" THEN Idle
                ELSE [@ EXCEPT !.pc = "mirror", !.outcome = StatusAfter(pc)]]
  /\ UNCHANGED <<request, review, attempts, queue, sweep, accepted, faults>>

\* The mirror, then the job: acked, or retried with the backoff.
WriteMirror(w) ==
  /\ task[w].pc = "mirror"
  /\ Audit(task[w].outcome)
  /\ away' = IF task[w].outcome = "PENDING" THEN Add(away, task[w].row)
                                           ELSE away
  /\ task' = [task EXCEPT ![w] = Idle]
  /\ UNCHANGED <<decision, review, rowVars, ready, sweep, accepted, faults>>

\* A database call throws and the consumer retries the job, or the process
\* dies and the job reappears.
TaskFails(w) ==
  /\ task[w].pc # "idle" /\ faults < MaxFaults
  /\ faults' = faults + 1
  /\ away' = Add(away, task[w].row)
  /\ task' = [task EXCEPT ![w] = Idle]
  /\ UNCHANGED <<request, review, rowVars, ready, sweep, accepted>>

-----------------------------------------------------------------------------
(* runConsentEmailSweeper.                                                 *)

\* Slip: abandoned claims overlooked.
StrandedUnclaimed ==
  {d \in Rows : /\ status[d] = "PENDING" /\ claim[d] = "none"
                /\ attempts[d] < MaxAttempts /\ overdue[d]}
Stranded ==
  {d \in Rows : Claimable(d) /\ attempts[d] < MaxAttempts /\ overdue[d]}
Stuck == {d \in Rows : Claimable(d) /\ attempts[d] >= MaxAttempts}

SweepStranded(w) ==
  /\ sweep[w].pc = "stranded"
  /\ ready' = EnqueueAll(Stranded)
  /\ sweep' = [sweep EXCEPT ![w].pc = "stuck"]
  /\ UNCHANGED <<request, review, rowVars, away, task, accepted, faults>>

SweepStuck(w) ==
  /\ sweep[w].pc = "stuck"
  /\ sweep' = [sweep EXCEPT ![w] = IF Stuck = {} THEN Resting
                                   ELSE [pc |-> "close", rows |-> Stuck]]
  /\ UNCHANGED <<request, review, rowVars, queue, task, accepted, faults>>

\* By the ids read before, whatever the rows are by now.
CloseStuck(w) ==
  /\ sweep[w].pc = "close"
  /\ status' = [d \in Rows |-> IF d \in sweep[w].rows THEN "FAILED"
                                                      ELSE status[d]]
  /\ claim' = [d \in Rows |-> IF d \in sweep[w].rows THEN "none" ELSE claim[d]]
  /\ sweep' = [sweep EXCEPT ![w].pc = "mirror"]
  /\ UNCHANGED <<request, review, attempts, overdue, queue, task, accepted,
                 faults>>

MirrorClosed(w) ==
  /\ sweep[w].pc = "mirror"
  /\ Audit("FAILED")
  /\ sweep' = [sweep EXCEPT ![w] = Resting]
  /\ UNCHANGED <<decision, review, rowVars, queue, task, accepted, faults>>

\* A query throws and the round ends, or the process dies with its sweeper.
SweepFails(w) ==
  /\ sweep[w].pc # "stranded" /\ faults < MaxFaults
  /\ faults' = faults + 1
  /\ sweep' = [sweep EXCEPT ![w] = Resting]
  /\ UNCHANGED <<request, review, rowVars, queue, task, accepted>>

-----------------------------------------------------------------------------
Decide(h) == \/ ReadRequest(h) \/ Reject(h) \/ Approve(h)
             \/ (\E d \in Rows : CreateRow(h, d))
             \/ EnqueueRow(h) \/ MarkNotQueued(h)
Consume(w) ==
  \/ Render(w) \/ SendAccepted(w)
  \/ \E permanent \in BOOLEAN : SendRefused(w, permanent)
  \/ RecordOutcome(w) \/ WriteMirror(w)
SweepStep(w) == SweepStranded(w) \/ SweepStuck(w) \/ CloseStuck(w)
                \/ MirrorClosed(w)
Environment ==
  \/ DeleteRequest
  \/ \E h \in Reviews : CreateThrows(h) \/ EnqueueThrows(h) \/ ReviewDies(h)
  \/ \E d \in Rows : LoseJob(d)
  \/ \E w \in Workers : \/ VisibilityExpires(w) \/ RenderThrows(w)
                        \/ AnswerLost(w) \/ TaskFails(w) \/ SweepFails(w)

Next ==
  \/ \E h \in Reviews : Decide(h)
  \/ \E w \in Workers : Consume(w) \/ SweepStep(w)
  \/ \E w \in Workers, d \in Rows : TakeJob(w, d) \/ SkipJob(w, d)
  \/ \E d \in Rows : Return(d) \/ LeaseLapses(d) \/ TimePasses(d)
  \/ Environment

Spec == Init /\ [][Next]_vars

(* The event loop runs every consumer and sweeper that can move, time goes *)
(* on, and a job that is ready again and again is taken in the end.        *)
Fairness ==
  /\ \A w \in Workers : WF_vars(Consume(w)) /\ WF_vars(SweepStep(w))
  /\ \A d \in Rows :
       /\ SF_vars(\E w \in Workers : TakeJob(w, d) \/ SkipJob(w, d))
       /\ WF_vars(LeaseLapses(d)) /\ WF_vars(TimePasses(d))
FairSpec == Spec /\ Fairness

-----------------------------------------------------------------------------
(* Properties.                                                             *)

\* Every variable keeps its type, and a consumer at work has a row.
TypeOK ==
  /\ decision \in {"PENDING", "APPROVED", "REJECTED", "GONE"}
  /\ mirror \in MirrorStatus
  /\ review \in [Reviews -> Review]
  /\ \A h \in Reviews : review[h].pc = "enqueue" => review[h].row \in Rows
  /\ status \in [Rows -> RowStatus]
  /\ attempts \in [Rows -> Nat]
  /\ claim \in [Rows -> {"none", "live", "lapsed"}]
  /\ overdue \in [Rows -> BOOLEAN]
  /\ ready \in [Rows -> 0..MaxJobs] /\ away \in [Rows -> 0..MaxJobs]
  /\ task \in [Workers -> Task]
  /\ \A w \in Workers : task[w].pc # "idle" => task[w].row \in Rows
  /\ sweep \in [Workers -> Sweep]
  /\ accepted \in [Rows -> Nat]
  /\ faults \in 0..MaxFaults

\* Each row is mailed once, plus at most once for every crash, error or broken
\* connection that lost the record of an earlier acceptance.
MailedOncePerFault == \A d \in Rows : accepted[d] <= 1 + faults

\* The administrator's view never claims a delivery that did not happen, and
\* without faults never tells of a state no row is in, once nobody is between
\* the write of a row and the write of its mirror.
MirrorHonest ==
  /\ mirror = "SENT" => \E d \in Rows : accepted[d] > 0
  /\ \/ faults > 0 \/ mirror = "NONE" \/ decision = "GONE"
     \/ \E w \in Workers : task[w].pc = "mirror" \/ sweep[w].pc = "mirror"
     \/ \E d \in Rows : status[d] = mirror

\* A row that is PENDING leaves that state, whatever jobs are lost and
\* whichever worker dies: the sweeper re-enqueues or closes it.
RowsSettle == \A d \in Rows : status[d] = "PENDING" ~> status[d] # "PENDING"
=============================================================================
