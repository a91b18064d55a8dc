--------------------------- MODULE EmailDelivery ---------------------------
(***************************************************************************)
(* Queued delivery of the notification e-mails of ONE teacher message:     *)
(* the compose request, the delivery rows, the Honker queue, the consumer  *)
(* and the sweeper of each worker process, and the roll-up of the rows     *)
(* into the message's status (src/src/lib/message-email.ts,                *)
(* src/src/worker.ts, src/src/app/api/classes/[id]/messages/route.ts).     *)
(*                                                                         *)
(* Clock readings are abstracted to what the guards compare: a claim is    *)
(* "live" or "lapsed" (older than the lease), a row's nextAttemptAt is     *)
(* still "waiting", "due", or "overdue" (past the sweeper's grace).  Every *)
(* await is a step boundary; a run of awaits that touches only private     *)
(* state is one step.                                                      *)
(***************************************************************************)
EXTENDS Integers, FiniteSets

CONSTANTS
  Rows,         \* the recipients of the message, one delivery row each
  Workers,      \* worker processes, each with one consumer and one sweeper
  NoRow,        \* "no row": the task of an idle consumer
  MaxAttempts,  \* MESSAGE_EMAIL_MAX_ATTEMPTS
  SlowSends,    \* may an attempt outlive its lease?
  MaxJobs,      \* bound: jobs of one row in one stage of the queue
  MaxFaults     \* bound: crashes, database errors, lost jobs and answers

ASSUME RowsAssumption == NoRow \notin Rows
ASSUME AttemptsAssumption == MaxAttempts \in Nat \ {0}
ASSUME BoundsAssumption == MaxJobs \in Nat \ {0} /\ MaxFaults \in Nat
ASSUME SlowAssumption == SlowSends \in BOOLEAN

VARIABLES
  request,   \* where the compose request is
  message,   \* Message.status
  status,    \* MessageEmailDelivery.status
  attempts,  \* MessageEmailDelivery.attempts
  claim,     \* MessageEmailDelivery.claimedAt against the lease
  due,       \* MessageEmailDelivery.nextAttemptAt against the clock
  ready,     \* jobs of the row a consumer may take now
  delayed,   \* jobs handed back with the row's backoff
  hidden,    \* jobs invisible for a fixed time: orphaned, or after a throw
  task,      \* what each worker's consumer is doing
  sweep,     \* what each worker's sweeper is doing
  accepted,  \* how often the SMTP server accepted this row's e-mail
  faults     \* crashes, database errors, lost jobs and answers so far

queue == <<ready, delayed, hidden>>
rowVars == <<status, attempts, claim, due>>
vars == <<request, message, status, attempts, claim, due, ready, delayed,
          hidden, task, sweep, accepted, faults>>

RowStatus == {"ABSENT", "PENDING", "SENT", "FAILED", "GONE"}
MessageStatus == {"NONE", "QUEUED", "SENT", "PARTIAL", "FAILED", "GONE"}
TaskPC == {"idle", "read", "send", "sent", "refused", "putOff", "requeue",
           "count", "write"}
SweepPC == {"stranded", "stuck", "close", "count", "write"}
Task == [pc : TaskPC, row : Rows \cup {NoRow}, tries : Nat, job : BOOLEAN,
         seen : MessageStatus]
Sweep == [pc : SweepPC, rows : SUBSET Rows, seen : MessageStatus]
Idle == [pc |-> "idle", row |-> NoRow, tries |-> 0, job |-> FALSE,
         seen |-> "NONE"]
Resting == [pc |-> "stranded", rows |-> {}, seen |-> "NONE"]

Init ==
  /\ request = "start" /\ message = "NONE"
  /\ status = [d \in Rows |-> "ABSENT"]
  /\ attempts = [d \in Rows |-> 0]
  /\ claim = [d \in Rows |-> "none"]
  /\ due = [d \in Rows |-> "due"]
  /\ ready = [d \in Rows |-> 0]
  /\ delayed = [d \in Rows |-> 0]
  /\ hidden = [d \in Rows |-> 0]
  /\ task = [w \in Workers |-> Idle]
  /\ sweep = [w \in Workers |-> Resting]
  /\ accepted = [d \in Rows |-> 0]
  /\ faults = 0

-----------------------------------------------------------------------------
(* The queue.                                                              *)

\* One more job; at the bound the extra duplicate is not counted.
Add(q, d) == [q EXCEPT ![d] = IF @ < MaxJobs THEN @ + 1 ELSE @]
\* enqueueMessageEmails: one job for every row of S.
EnqueueAll(q, S) == [d \in Rows |-> IF d \in S /\ q[d] < MaxJobs
                                    THEN q[d] + 1 ELSE q[d]]
Jobs(d) == ready[d] + delayed[d] + hidden[d]

\* The task's job goes back to stage q, unless its visibility timeout has
\* already handed it to somebody else.
HandBack(w, q) == IF task[w].job THEN Add(q, task[w].row) ELSE q

\* The backoff of a retried job ends.  It was computed with the row's
\* nextAttemptAt, so the row's only job returns when the row is due.
BackoffEnds(d) ==
  /\ delayed[d] > 0 /\ ready[d] < MaxJobs
  /\ due[d] # "waiting" \/ Jobs(d) > 1
  /\ delayed' = [delayed EXCEPT ![d] = @ - 1]
  /\ ready' = [ready EXCEPT ![d] = @ + 1]
  /\ UNCHANGED <<request, message, rowVars, hidden, task, sweep, accepted,
                 faults>>

\* An invisible job becomes visible again.
Reappear(d) ==
  /\ hidden[d] > 0 /\ ready[d] < MaxJobs
  /\ hidden' = [hidden EXCEPT ![d] = @ - 1]
  /\ ready' = [ready EXCEPT ![d] = @ + 1]
  /\ UNCHANGED <<request, message, rowVars, delayed, task, sweep, accepted,
                 faults>>

\* Honker drops a job it has handed back too often.
LoseJob(d) ==
  /\ delayed[d] > 0 /\ faults < MaxFaults
  /\ delayed' = [delayed EXCEPT ![d] = @ - 1]
  /\ faults' = faults + 1
  /\ UNCHANGED <<request, message, rowVars, ready, hidden, task, sweep,
                 accepted>>

\* The visibility timeout passes while the consumer is still at work: the job
\* is offered again, and this consumer's ack or retry will find nothing.
VisibilityExpires(w) ==
  /\ task[w].pc # "idle" /\ task[w].job /\ ready[task[w].row] < MaxJobs
  /\ ready' = [ready EXCEPT ![task[w].row] = @ + 1]
  /\ task' = [task EXCEPT ![w].job = FALSE]
  /\ UNCHANGED <<request, message, rowVars, delayed, hidden, sweep, accepted,
                 faults>>

-----------------------------------------------------------------------------
(* The compose request.                                                    *)

\* The message row, QUEUED because it has e-mail recipients.
CreateMessage ==
  /\ request = "start"
  /\ request' = "message" /\ message' = "QUEUED"
  /\ UNCHANGED <<rowVars, queue, task, sweep, accepted, faults>>

\* One PENDING delivery row per recipient, due at once.
CreateRows ==
  /\ request = "message" /\ message # "GONE"
  /\ request' = "rows"
  /\ status' = [d \in Rows |-> "PENDING"]
  /\ UNCHANGED <<message, attempts, claim, due, queue, task, sweep, accepted,
                 faults>>

\* One job per row; the loop may throw part-way, which is only logged.
EnqueueRows(S) ==
  /\ request = "rows"
  /\ request' = "done"
  /\ ready' = EnqueueAll(ready, S)
  /\ UNCHANGED <<message, rowVars, delayed, hidden, task, sweep, accepted,
                 faults>>

\* The web process dies, or a write of the request throws.
RequestDies ==
  /\ request \in {"message", "rows"} /\ faults < MaxFaults
  /\ request' = "done" /\ faults' = faults + 1
  /\ UNCHANGED <<message, rowVars, queue, task, sweep, accepted>>

\* The sender's account is deleted: message and rows go with it.
DeleteSender ==
  /\ message # "NONE" /\ message # "GONE"
  /\ message' = "GONE"
  /\ status' = [d \in Rows |-> IF status[d] = "ABSENT" THEN "ABSENT"
                                                        ELSE "GONE"]
  /\ UNCHANGED <<request, attempts, claim, due, queue, task, sweep, accepted,
                 faults>>

-----------------------------------------------------------------------------
(* The clock.                                                              *)

\* w's attempt on d: from the claim to the write that gives the row back.
Holds(w, d) ==
  /\ task[w].row = d
  /\ task[w].pc \in {"read", "send", "sent", "refused", "putOff"}

LeaseLapses(d) ==
  /\ claim[d] = "live"
  /\ SlowSends \/ \A w \in Workers : ~Holds(w, d)
  /\ claim' = [claim EXCEPT ![d] = "lapsed"]
  /\ UNCHANGED <<request, message, status, attempts, due, queue, task, sweep,
                 accepted, faults>>

TimePasses(d) ==
  /\ status[d] = "PENDING" /\ due[d] # "overdue"
  /\ due' = [due EXCEPT ![d] = IF @ = "waiting" THEN "due" ELSE "overdue"]
  /\ UNCHANGED <<request, message, status, attempts, claim, queue, task,
                 sweep, accepted, faults>>

-----------------------------------------------------------------------------
(* recomputeMessageEmailStatus: read the rows, then write the message.     *)

\* Slip: a row status for a message status.
LeakRowStatus ==
  IF \E d \in Rows : status[d] = "SENT" THEN "SENT" ELSE "PENDING"
\* summarizeDeliveries.
Summary ==
  LET is(s) == \E d \in Rows : status[d] = s IN
  IF is("PENDING") THEN "QUEUED"
  ELSE IF ~is("FAILED") THEN "SENT"
  ELSE IF ~is("SENT") THEN "FAILED" ELSE "PARTIAL"

-----------------------------------------------------------------------------
(* deliverMessageEmail, run by the consumer of worker w.                   *)

\* Slips: the claim without its lease test, or without its status test.
ClaimNoLease(d) == status[d] = "PENDING"
ClaimAnyStatus(d) == claim[d] \in {"none", "lapsed"}
\* The claim's WHERE clause.
Claimable(d) == status[d] = "PENDING" /\ claim[d] \in {"none", "lapsed"}

\* Take a job and claim its row: attempt counted, lease taken.
TakeJob(w, d) ==
  /\ task[w].pc = "idle" /\ ready[d] > 0 /\ Claimable(d)
  /\ ready' = [ready EXCEPT ![d] = @ - 1]
  /\ claim' = [claim EXCEPT ![d] = "live"]
  /\ attempts' = [attempts EXCEPT ![d] = @ + 1]
  /\ task' = [task EXCEPT ![w] = [Idle EXCEPT !.pc = "read", !.row = d,
                                              !.job = TRUE]]
  /\ UNCHANGED <<request, message, status, due, delayed, hidden, sweep,
                 accepted, faults>>

\* The claim matched nothing: SKIPPED, and the job is acked.
SkipJob(w, d) ==
  /\ task[w].pc = "idle" /\ ready[d] > 0 /\ ~Claimable(d)
  /\ ready' = [ready EXCEPT ![d] = @ - 1]
  /\ UNCHANGED <<request, message, rowVars, delayed, hidden, task, sweep,
                 accepted, faults>>

\* Read the claimed row back, or skip it when it has been deleted.
ReadRow(w) ==
  LET d == task[w].row IN
  /\ task[w].pc = "read"
  /\ task' = [task EXCEPT ![w] = IF status[d] = "GONE" THEN Idle
                                 ELSE [@ EXCEPT !.pc = "send",
                                                !.tries = attempts[d]]]
  /\ UNCHANGED <<request, message, rowVars, queue, sweep, accepted, faults>>

\* The SMTP server accepts the e-mail and its answer is read.
SendAccepted(w) ==
  /\ task[w].pc = "send"
  /\ accepted' = [accepted EXCEPT ![task[w].row] = @ + 1]
  /\ task' = [task EXCEPT ![w].pc = "sent"]
  /\ UNCHANGED <<request, message, rowVars, queue, sweep, faults>>

\* Slip: one attempt too many.
GivesUpLate(tries, permanent) == permanent \/ tries > MaxAttempts
\* A permanent refusal or the last attempt gives up.
GivesUp(tries, permanent) == permanent \/ tries >= MaxAttempts

\* The server does not get or does not accept it.
SendRefused(w, permanent) ==
  /\ task[w].pc = "send"
  /\ task' = [task EXCEPT ![w].pc = IF GivesUp(task[w].tries, permanent)
                                    THEN "refused" ELSE "putOff"]
  /\ UNCHANGED <<request, message, rowVars, queue, sweep, accepted, faults>>

\* The server accepts it and the answer is lost to a timeout or a reset: an
\* error without a response code, which is never permanent.
AnswerLost(w) ==
  /\ task[w].pc = "send" /\ faults < MaxFaults
  /\ faults' = faults + 1
  /\ accepted' = [accepted EXCEPT ![task[w].row] = @ + 1]
  /\ task' = [task EXCEPT ![w].pc = IF GivesUp(task[w].tries, FALSE)
                                    THEN "refused" ELSE "putOff"]
  /\ UNCHANGED <<request, message, rowVars, queue, sweep>>

\* An update of a deleted row throws; the consumer hands the job back.
Throw(w) ==
  /\ hidden' = HandBack(w, hidden)
  /\ task' = [task EXCEPT ![w] = Idle]

\* Write SENT or FAILED over whatever the row says now.
RecordOutcome(w) ==
  LET d == task[w].row IN
  /\ task[w].pc \in {"sent", "refused"}
  /\ IF status[d] = "GONE"
     THEN Throw(w) /\ UNCHANGED <<status, claim>>
     ELSE /\ status' = [status EXCEPT ![d] = IF task[w].pc = "sent"
                                             THEN "SENT" ELSE "FAILED"]
          /\ claim' = [claim EXCEPT ![d] = "none"]
          /\ task' = [task EXCEPT ![w].pc = "count"]
          /\ UNCHANGED hidden
  /\ UNCHANGED <<request, message, attempts, due, ready, delayed, sweep,
                 accepted, faults>>

\* RETRY: give the claim back and put the next attempt off.
RecordRetry(w) ==
  LET d == task[w].row IN
  /\ task[w].pc = "putOff"
  /\ IF status[d] = "GONE"
     THEN Throw(w) /\ UNCHANGED <<claim, due>>
     ELSE /\ claim' = [claim EXCEPT ![d] = "none"]
          /\ due' = [due EXCEPT ![d] = "waiting"]
          /\ task' = [task EXCEPT ![w].pc = "requeue"]
          /\ UNCHANGED hidden
  /\ UNCHANGED <<request, message, status, attempts, ready, delayed, sweep,
                 accepted, faults>>

\* job.retry(delaySeconds).
RetryJob(w) ==
  /\ task[w].pc = "requeue"
  /\ delayed' = HandBack(w, delayed)
  /\ task' = [task EXCEPT ![w] = Idle]
  /\ UNCHANGED <<request, message, rowVars, ready, hidden, sweep, accepted,
                 faults>>

CountRows(w) ==
  /\ task[w].pc = "count"
  /\ task' = [task EXCEPT ![w].pc = "write", ![w].seen = Summary]
  /\ UNCHANGED <<request, message, rowVars, queue, sweep, accepted, faults>>

\* Write the roll-up and ack the job.
WriteMessage(w) ==
  /\ task[w].pc = "write"
  /\ IF message = "GONE"
     THEN Throw(w) /\ UNCHANGED message
     ELSE /\ message' = task[w].seen
          /\ task' = [task EXCEPT ![w] = Idle]
          /\ UNCHANGED hidden
  /\ UNCHANGED <<request, rowVars, ready, delayed, sweep, accepted, faults>>

\* A database call throws: the consumer catches it and retries the job in 60s.
DatabaseFails(w) ==
  /\ task[w].pc \in {"read", "sent", "refused", "putOff", "count", "write"}
  /\ faults < MaxFaults
  /\ faults' = faults + 1
  /\ Throw(w)
  /\ UNCHANGED <<request, message, rowVars, ready, delayed, sweep, accepted>>

-----------------------------------------------------------------------------
(* runMessageEmailSweeper of worker w.                                     *)

\* Slips: abandoned claims overlooked; live claims closed.
StrandedUnclaimed ==
  {d \in Rows : /\ status[d] = "PENDING" /\ claim[d] = "none"
                /\ attempts[d] < MaxAttempts /\ due[d] = "overdue"}
StuckNoLease ==
  {d \in Rows : status[d] = "PENDING" /\ attempts[d] >= MaxAttempts}
\* findStrandedMessageEmails.
Stranded == {d \in Rows : /\ Claimable(d)
                          /\ attempts[d] < MaxAttempts
                          /\ due[d] = "overdue"}
\* The findMany of failExhaustedMessageEmails.
Stuck == {d \in Rows : Claimable(d) /\ attempts[d] >= MaxAttempts}

SweepStranded(w) ==
  /\ sweep[w].pc = "stranded"
  /\ ready' = EnqueueAll(ready, Stranded)
  /\ sweep' = [sweep EXCEPT ![w].pc = "stuck"]
  /\ UNCHANGED <<request, message, rowVars, delayed, hidden, task, accepted,
                 faults>>

SweepStuck(w) ==
  /\ sweep[w].pc = "stuck"
  /\ sweep' = [sweep EXCEPT ![w] = IF Stuck = {} THEN Resting
                                   ELSE [@ EXCEPT !.pc = "close",
                                                  !.rows = Stuck]]
  /\ UNCHANGED <<request, message, rowVars, queue, task, accepted, faults>>

\* The updateMany selects by id alone: the rows are whatever they are by now.
CloseStuck(w) ==
  LET closed == {d \in sweep[w].rows : status[d] # "GONE"} IN
  /\ sweep[w].pc = "close"
  /\ status' = [d \in Rows |-> IF d \in closed THEN "FAILED" ELSE status[d]]
  /\ claim' = [d \in Rows |-> IF d \in closed THEN "none" ELSE claim[d]]
  /\ sweep' = [sweep EXCEPT ![w].pc = "count", ![w].rows = {}]
  /\ UNCHANGED <<request, message, attempts, due, queue, task, accepted,
                 faults>>

SweepCount(w) ==
  /\ sweep[w].pc = "count"
  /\ sweep' = [sweep EXCEPT ![w].pc = "write", ![w].seen = Summary]
  /\ UNCHANGED <<request, message, rowVars, queue, task, accepted, faults>>

\* On a deleted message the update throws and this round of the sweep ends.
SweepWrite(w) ==
  /\ sweep[w].pc = "write"
  /\ message' = IF message = "GONE" THEN "GONE" ELSE sweep[w].seen
  /\ sweep' = [sweep EXCEPT ![w] = Resting]
  /\ UNCHANGED <<request, rowVars, queue, task, accepted, faults>>

\* A query or an enqueue throws: the round ends and the next one starts over.
SweepFails(w) ==
  /\ sweep[w].pc # "stranded" /\ faults < MaxFaults
  /\ faults' = faults + 1
  /\ sweep' = [sweep EXCEPT ![w] = Resting]
  /\ UNCHANGED <<request, message, rowVars, queue, task, accepted>>

\* The worker process dies and its container restarts it; the job it held
\* reappears after the visibility timeout.
Crash(w) ==
  /\ task[w] # Idle \/ sweep[w] # Resting
  /\ faults < MaxFaults
  /\ faults' = faults + 1
  /\ hidden' = HandBack(w, hidden)
  /\ task' = [task EXCEPT ![w] = Idle]
  /\ sweep' = [sweep EXCEPT ![w] = Resting]
  /\ UNCHANGED <<request, message, rowVars, ready, delayed, accepted>>

-----------------------------------------------------------------------------
Request == CreateMessage \/ CreateRows \/ \E S \in SUBSET Rows : EnqueueRows(S)
Consume(w) ==
  \/ ReadRow(w) \/ SendAccepted(w)
  \/ \E permanent \in BOOLEAN : SendRefused(w, permanent)
  \/ RecordOutcome(w) \/ RecordRetry(w) \/ RetryJob(w)
  \/ CountRows(w) \/ WriteMessage(w)
SweepStep(w) == SweepStranded(w) \/ SweepStuck(w) \/ CloseStuck(w)
                \/ SweepCount(w) \/ SweepWrite(w)
Clock(d) == BackoffEnds(d) \/ Reappear(d) \/ LeaseLapses(d) \/ TimePasses(d)
Environment == \/ RequestDies \/ DeleteSender
               \/ \E d \in Rows : LoseJob(d)
               \/ \E w \in Workers : \/ VisibilityExpires(w) \/ AnswerLost(w)
                                     \/ DatabaseFails(w) \/ SweepFails(w)
                                     \/ Crash(w)

Next ==
  \/ Request
  \/ \E w \in Workers : Consume(w) \/ SweepStep(w)
  \/ \E w \in Workers, d \in Rows : TakeJob(w, d) \/ SkipJob(w, d)
  \/ \E d \in Rows : Clock(d)
  \/ Environment

Spec == Init /\ [][Next]_vars

(* The event loop runs every consumer and sweeper that can move; time goes *)
(* on; Honker hands jobs out in order, so a job of a row that is ready     *)
(* again and again is taken in the end.                                    *)
Fairness ==
  /\ WF_vars(Request)
  /\ \A w \in Workers : WF_vars(Consume(w)) /\ WF_vars(SweepStep(w))
  /\ \A d \in Rows :
       /\ SF_vars(\E w \in Workers : TakeJob(w, d) \/ SkipJob(w, d))
       /\ WF_vars(BackoffEnds(d)) /\ WF_vars(Reappear(d))
       /\ WF_vars(LeaseLapses(d)) /\ WF_vars(TimePasses(d))
FairSpec == Spec /\ Fairness

-----------------------------------------------------------------------------
(* Properties.                                                             *)

\* Every variable keeps its type: the columns of Message and
\* MessageEmailDelivery, the queue counts and the control states; a consumer
\* at work has a row.
TypeOK ==
  /\ request \in {"start", "message", "rows", "done"}
  /\ message \in MessageStatus
  /\ status \in [Rows -> RowStatus]
  /\ attempts \in [Rows -> Nat]
  /\ claim \in [Rows -> {"none", "live", "lapsed"}]
  /\ due \in [Rows -> {"waiting", "due", "overdue"}]
  /\ ready \in [Rows -> 0..MaxJobs]
  /\ delayed \in [Rows -> 0..MaxJobs]
  /\ hidden \in [Rows -> 0..MaxJobs]
  /\ task \in [Workers -> Task]
  /\ \A w \in Workers : task[w].pc # "idle" => task[w].row \in Rows
  /\ sweep \in [Workers -> Sweep]
  /\ accepted \in [Rows -> Nat]
  /\ faults \in 0..MaxFaults

\* The claim in deliverMessageEmail is a mutual exclusion: however many jobs,
\* workers and sweeps name a row, at most one attempt is at work on it
\* (as long as no attempt outlives its lease).
SoleSender ==
  \A d \in Rows : \A v, w \in Workers : Holds(v, d) /\ Holds(w, d) => v = w

\* A recipient is mailed once, plus at most once for every crash, database error
\* or broken connection that lost the record of an earlier acceptance.
AtMostOncePerFault == \A d \in Rows : accepted[d] <= 1 + faults

\* The attempt cap of deliverMessageEmail, which tests it only after a failed
\* send: the counter passes it by no more than the attempts that were cut off.
AttemptsBounded == \A d \in Rows : attempts[d] <= MaxAttempts + faults

\* Once nothing is pending and nobody is on the way to write the roll-up, the
\* message's status is the summary of its rows (recomputeMessageEmailStatus).
\* This takes one worker and no fault: two roll-ups may cross, and nobody makes
\* up for one that was cut off.
RollUpCurrent ==
  \/ message \in {"NONE", "GONE"}
  \/ \E d \in Rows : status[d] \in {"ABSENT", "PENDING"}
  \/ \E w \in Workers : \/ task[w].pc \in {"count", "write"}
                         \/ sweep[w].pc \in {"count", "write"}
  \/ message = Summary

\* Durable: a row that is PENDING leaves that state, whatever jobs are lost and
\* whichever worker dies, because the sweeper re-enqueues or closes it.
RowsSettle ==
  \A d \in Rows : status[d] = "PENDING" ~> status[d] # "PENDING"

\* The promise of queued delivery: outcome is the row's status, mails the number
\* of accepted sends, trouble what went wrong.
Promise == INSTANCE DeliveryPromise
             WITH outcome <- status, mails <- accepted, trouble <- faults

\* Every behaviour of the engine is one of the promise.  Without crashes, errors
\* and lost answers: at most one accepted e-mail per recipient, and an outcome
\* that tells what happened and stays.  With them: one more e-mail for each at
\* most, SENT only for an accepted e-mail, and no e-mail after SENT.
KeepsPromise == Promise!Spec
=============================================================================
