-------------------------- MODULE ResearchCampaign --------------------------
(***************************************************************************)
(* One scheduled research e-mail campaign: the scheduler loop that expands *)
(* it into delivery rows and sweeps them, the consumers that deliver the   *)
(* rows, and the administrator who may cancel it                           *)
(* (src/src/lib/research-email-server.ts, runResearchScheduler and         *)
(* consumeResearchEmails of src/src/worker.ts, the campaigns routes).      *)
(*                                                                         *)
(* The queue's timing is left open here (any job may be handed out at any  *)
(* time, any unclaimed row may count as overdue): EmailDelivery models it. *)
(***************************************************************************)
EXTENDS Integers, FiniteSets

CONSTANTS
  Rows,         \* the people the campaign could reach, one row each
  Workers,      \* worker processes, each with a scheduler and a consumer
  NoRow,        \* the row of an idle consumer
  MaxAttempts,  \* RESEARCH_EMAIL_MAX_ATTEMPTS
  MaxJobs,      \* bound: queued jobs of one row
  MaxFaults     \* bound: crashes, database errors and lost SMTP answers

ASSUME RowsAssumption == NoRow \notin Rows
ASSUME AttemptsAssumption == MaxAttempts \in Nat \ {0}
ASSUME BoundsAssumption == MaxJobs \in Nat \ {0} /\ MaxFaults \in Nat

VARIABLES
  campaign,   \* ResearchEmailCampaign.status
  cancelled,  \* has the administrator been told the campaign is cancelled?
  expanded,   \* how often the campaign was expanded into rows
  status,     \* ResearchEmailDelivery.status
  attempts,   \* ResearchEmailDelivery.attempts
  claim,      \* ResearchEmailDelivery.claimedAt against the lease
  jobs,       \* queued jobs of the row
  sched,      \* what each worker's scheduler is doing, and for which rows
  task,       \* what each worker's consumer is doing
  accepted,   \* how often the SMTP server accepted this row's e-mail
  faults      \* crashes, database errors and lost SMTP answers so far

rowVars == <<status, attempts, claim>>
vars == <<campaign, cancelled, expanded, status, attempts, claim, jobs,
          sched, task, accepted, faults>>

CampaignStatus == {"SCHEDULED", "SENDING", "SENT", "FAILED", "CANCELLED"}
SchedPC == {"tick", "found", "plan", "commit", "finish", "fail", "enqueue",
            "stranded", "exhausted", "list", "count", "mark"}
TaskPC == {"idle", "read", "send", "sent", "refused", "putOff", "count",
           "mark"}
Sched == [pc : SchedPC, rows : SUBSET Rows]
\* early: the attempt read the campaign before it was cancelled.
Task == [pc : TaskPC, row : Rows \cup {NoRow}, early : BOOLEAN]
Idle == [pc |-> "idle", row |-> NoRow, early |-> TRUE]
Tick == [pc |-> "tick", rows |-> {}]

Init ==
  /\ campaign = "SCHEDULED" /\ cancelled = FALSE /\ expanded = 0
  /\ status = [d \in Rows |-> "ABSENT"]
  /\ attempts = [d \in Rows |-> 0]
  /\ claim = [d \in Rows |-> "none"]
  /\ jobs = [d \in Rows |-> 0]
  /\ sched = [w \in Workers |-> Tick]
  /\ task = [w \in Workers |-> Idle]
  /\ accepted = [d \in Rows |-> 0]
  /\ faults = 0

EnqueueAll(S) == [d \in Rows |-> IF d \in S /\ jobs[d] < MaxJobs
                                 THEN jobs[d] + 1 ELSE jobs[d]]
\* Slip: the claim without its status test.
ClaimAnyStatus(d) == claim[d] \in {"none", "lapsed"}
Claimable(d) == status[d] = "PENDING" /\ claim[d] \in {"none", "lapsed"}
NonePending == \A d \in Rows : status[d] # "PENDING"
Goes(w, pc) == sched' = [sched EXCEPT ![w].pc = pc]

-----------------------------------------------------------------------------
(* The administrator.                                                      *)

Cancel ==
  /\ campaign \in {"SCHEDULED", "SENDING"}
  /\ campaign' = "CANCELLED" /\ cancelled' = TRUE
  /\ UNCHANGED <<expanded, rowVars, jobs, sched, task, accepted, faults>>

-----------------------------------------------------------------------------
(* runResearchScheduler of worker w: expand, enqueue, sweep.               *)

\* The findMany of materializeDueCampaigns: is the campaign due by now?
FindDue(w) ==
  /\ sched[w].pc = "tick"
  /\ \/ campaign = "SCHEDULED" /\ Goes(w, "found")
     \/ Goes(w, "enqueue")
  /\ UNCHANGED <<campaign, cancelled, expanded, rowVars, jobs, task, accepted,
                 faults>>

\* Slip: the claim without its compare: the status read by FindDue is trusted.
ClaimNoCompare(w) ==
  /\ sched[w].pc = "found"
  /\ campaign' = "SENDING" /\ Goes(w, "plan")
  /\ UNCHANGED <<cancelled, expanded, rowVars, jobs, task, accepted, faults>>
\* Claim the campaign with a compare-and-set.
ClaimCampaign(w) ==
  /\ sched[w].pc = "found"
  /\ campaign' = IF campaign = "SCHEDULED" THEN "SENDING" ELSE campaign
  /\ Goes(w, IF campaign = "SCHEDULED" THEN "plan" ELSE "enqueue")
  /\ UNCHANGED <<cancelled, expanded, rowVars, jobs, task, accepted, faults>>

\* planRecipients: whoever qualifies now.
Plan(w, recipients) ==
  /\ sched[w].pc = "plan"
  /\ sched' = [sched EXCEPT ![w] = [pc |-> "commit", rows |-> recipients]]
  /\ UNCHANGED <<campaign, cancelled, expanded, rowVars, jobs, task, accepted,
                 faults>>

\* One transaction writes every delivery row (and survey invite).
CommitRows(w) ==
  /\ sched[w].pc = "commit"
  /\ status' = [d \in Rows |-> IF d \in sched[w].rows THEN "PENDING"
                                                       ELSE status[d]]
  /\ expanded' = expanded + 1
  /\ Goes(w, "finish")
  /\ UNCHANGED <<campaign, cancelled, attempts, claim, jobs, task, accepted,
                 faults>>

\* A campaign that reaches nobody is complete, whatever its status was.
FinishExpansion(w) ==
  /\ sched[w].pc = "finish"
  /\ campaign' = IF sched[w].rows = {} THEN "SENT" ELSE campaign
  /\ Goes(w, "enqueue")
  /\ UNCHANGED <<cancelled, expanded, rowVars, jobs, task, accepted, faults>>

\* A query of the expansion throws; the ids it had are lost with it.
ExpansionThrows(w) ==
  /\ sched[w].pc \in {"plan", "commit", "finish"} /\ faults < MaxFaults
  /\ faults' = faults + 1
  /\ sched' = [sched EXCEPT ![w] = [pc |-> "fail", rows |-> {}]]
  /\ UNCHANGED <<campaign, cancelled, expanded, rowVars, jobs, task, accepted>>

\* Slip: put back, for the next tick to expand.
FailRetried(w) ==
  /\ sched[w].pc = "fail"
  /\ campaign' = "SCHEDULED"
  /\ Goes(w, "enqueue")
  /\ UNCHANGED <<cancelled, expanded, rowVars, jobs, task, accepted, faults>>
\* The catch of materializeDueCampaigns.
FailCampaign(w) ==
  /\ sched[w].pc = "fail"
  /\ campaign' = "FAILED"
  /\ Goes(w, "enqueue")
  /\ UNCHANGED <<cancelled, expanded, rowVars, jobs, task, accepted, faults>>

\* Enqueue what was expanded; every five minutes the sweep follows.
EnqueueExpanded(w) ==
  /\ sched[w].pc = "enqueue"
  /\ jobs' = EnqueueAll(sched[w].rows)
  /\ \E pc \in {"tick", "stranded"} :
       sched' = [sched EXCEPT ![w] = [pc |-> pc, rows |-> {}]]
  /\ UNCHANGED <<campaign, cancelled, expanded, rowVars, task, accepted,
                 faults>>

\* findStrandedResearchEmails; being past the grace is left open.
SweepStranded(w) ==
  /\ sched[w].pc = "stranded"
  /\ jobs' = EnqueueAll({d \in Rows : /\ Claimable(d)
                                      /\ attempts[d] < MaxAttempts})
  /\ Goes(w, "exhausted")
  /\ UNCHANGED <<campaign, cancelled, expanded, rowVars, task, accepted,
                 faults>>

\* failExhaustedResearchEmails: one conditional updateMany.
Exhausted(d) == Claimable(d) /\ attempts[d] >= MaxAttempts
FailExhausted(w) ==
  /\ sched[w].pc = "exhausted"
  /\ status' = [d \in Rows |-> IF Exhausted(d) THEN "FAILED" ELSE status[d]]
  /\ claim' = [d \in Rows |-> IF Exhausted(d) THEN "none" ELSE claim[d]]
  /\ Goes(w, "list")
  /\ UNCHANGED <<campaign, cancelled, expanded, attempts, jobs, task,
                 accepted, faults>>

\* Slip: the sweep leaves completion to the consumers.
ListNothing(w) ==
  /\ sched[w].pc = "list" /\ Goes(w, "tick")
  /\ UNCHANGED <<campaign, cancelled, expanded, rowVars, jobs, task, accepted,
                 faults>>
ListSending(w) ==
  /\ sched[w].pc = "list"
  /\ Goes(w, IF campaign = "SENDING" THEN "count" ELSE "tick")
  /\ UNCHANGED <<campaign, cancelled, expanded, rowVars, jobs, task, accepted,
                 faults>>

\* Slip: a status the schema does not have.
CompletedAs == IF campaign = "SENDING" THEN "COMPLETED" ELSE campaign
\* completeCampaignIfDone: count the pending rows, then compare-and-set.
CompletedStatus == IF campaign = "SENDING" THEN "SENT" ELSE campaign
SweepCount(w) ==
  /\ sched[w].pc = "count"
  /\ Goes(w, IF NonePending THEN "mark" ELSE "tick")
  /\ UNCHANGED <<campaign, cancelled, expanded, rowVars, jobs, task, accepted,
                 faults>>
SweepMark(w) ==
  /\ sched[w].pc = "mark"
  /\ campaign' = CompletedStatus
  /\ Goes(w, "tick")
  /\ UNCHANGED <<cancelled, expanded, rowVars, jobs, task, accepted, faults>>

\* Anything else that throws ends the tick; the next one starts over.
TickFails(w) ==
  /\ sched[w].pc \notin {"tick", "plan", "commit", "finish"}
  /\ faults < MaxFaults
  /\ faults' = faults + 1
  /\ sched' = [sched EXCEPT ![w] = Tick]
  /\ UNCHANGED <<campaign, cancelled, expanded, rowVars, jobs, task, accepted>>

-----------------------------------------------------------------------------
(* deliverResearchEmail, run by the consumer of worker w.                  *)

TakeJob(w, d) ==
  /\ task[w].pc = "idle" /\ jobs[d] > 0 /\ Claimable(d)
  /\ jobs' = [jobs EXCEPT ![d] = @ - 1]
  /\ claim' = [claim EXCEPT ![d] = "live"]
  /\ attempts' = [attempts EXCEPT ![d] = @ + 1]
  /\ task' = [task EXCEPT ![w] = [Idle EXCEPT !.pc = "read", !.row = d]]
  /\ UNCHANGED <<campaign, cancelled, expanded, status, sched, accepted,
                 faults>>

SkipJob(w, d) ==
  /\ task[w].pc = "idle" /\ jobs[d] > 0 /\ ~Claimable(d)
  /\ jobs' = [jobs EXCEPT ![d] = @ - 1]
  /\ UNCHANGED <<campaign, cancelled, expanded, rowVars, sched, task,
                 accepted, faults>>

\* Slip: the campaign's status is not looked at.
ReadNoCheck(w) ==
  /\ task[w].pc = "read"
  /\ task' = [task EXCEPT ![w].pc = "send", ![w].early = ~cancelled]
  /\ UNCHANGED <<campaign, cancelled, expanded, rowVars, jobs, sched,
                 accepted, faults>>
\* The row is read with its campaign; a cancelled one ends here.
ReadRow(w) ==
  LET d == task[w].row IN
  /\ task[w].pc = "read"
  /\ IF campaign = "CANCELLED"
     THEN /\ status' = [status EXCEPT ![d] = "FAILED"]
          /\ claim' = [claim EXCEPT ![d] = "none"]
          /\ task' = [task EXCEPT ![w] = Idle]
     ELSE /\ task' = [task EXCEPT ![w].pc = "send", ![w].early = ~cancelled]
          /\ UNCHANGED <<status, claim>>
  /\ UNCHANGED <<campaign, cancelled, expanded, attempts, jobs, sched,
                 accepted, faults>>

\* The SMTP server accepts the e-mail and its answer is read.
SendAccepted(w) ==
  /\ task[w].pc = "send"
  /\ accepted' = [accepted EXCEPT ![task[w].row] = @ + 1]
  /\ task' = [task EXCEPT ![w].pc = "sent"]
  /\ UNCHANGED <<campaign, cancelled, expanded, rowVars, jobs, sched, faults>>

\* What follows an error of the send: the last attempt and a permanent error
\* give up.
AfterError(w, permanent) ==
  task' = [task EXCEPT ![w].pc =
             IF permanent \/ attempts[task[w].row] >= MaxAttempts
             THEN "refused" ELSE "putOff"]

\* The server does not get or does not accept it.
SendRefused(w, permanent) ==
  /\ task[w].pc = "send"
  /\ AfterError(w, permanent)
  /\ UNCHANGED <<campaign, cancelled, expanded, rowVars, jobs, sched,
                 accepted, faults>>

\* The server accepts it and the answer is lost to a timeout or a reset: an
\* error without a response code, which is never permanent.
AnswerLost(w) ==
  /\ task[w].pc = "send" /\ faults < MaxFaults
  /\ faults' = faults + 1
  /\ accepted' = [accepted EXCEPT ![task[w].row] = @ + 1]
  /\ AfterError(w, FALSE)
  /\ UNCHANGED <<campaign, cancelled, expanded, rowVars, jobs, sched>>

RecordOutcome(w) ==
  LET d == task[w].row IN
  /\ task[w].pc \in {"sent", "refused"}
  /\ status' = [status EXCEPT ![d] = IF task[w].pc = "sent" THEN "SENT"
                                                            ELSE "FAILED"]
  /\ claim' = [claim EXCEPT ![d] = "none"]
  /\ task' = [task EXCEPT ![w].pc = "count"]
  /\ UNCHANGED <<campaign, cancelled, expanded, attempts, jobs, sched,
                 accepted, faults>>

RecordRetry(w) ==
  LET d == task[w].row IN
  /\ task[w].pc = "putOff"
  /\ claim' = [claim EXCEPT ![d] = "none"]
  /\ jobs' = EnqueueAll({d})
  /\ task' = [task EXCEPT ![w] = Idle]
  /\ UNCHANGED <<campaign, cancelled, expanded, status, attempts, sched,
                 accepted, faults>>

TaskCount(w) ==
  /\ task[w].pc = "count"
  /\ task' = [task EXCEPT ![w] = IF NonePending THEN [@ EXCEPT !.pc = "mark"]
                                                ELSE Idle]
  /\ UNCHANGED <<campaign, cancelled, expanded, rowVars, jobs, sched,
                 accepted, faults>>
TaskMark(w) ==
  /\ task[w].pc = "mark"
  /\ campaign' = CompletedStatus
  /\ task' = [task EXCEPT ![w] = Idle]
  /\ UNCHANGED <<cancelled, expanded, rowVars, jobs, sched, accepted, faults>>

\* A database call throws: job.retry(60); the lease stays until it lapses.
TaskFails(w) ==
  /\ task[w].pc \notin {"idle", "send"} /\ faults < MaxFaults
  /\ faults' = faults + 1
  /\ jobs' = EnqueueAll({task[w].row})
  /\ task' = [task EXCEPT ![w] = Idle]
  /\ UNCHANGED <<campaign, cancelled, expanded, rowVars, sched, accepted>>

\* The lease is longer than any send, so it lapses only on an abandoned row.
Holds(w, d) ==
  /\ task[w].row = d
  /\ task[w].pc \in {"read", "send", "sent", "refused", "putOff"}
LeaseLapses(d) ==
  /\ claim[d] = "live" /\ \A w \in Workers : ~Holds(w, d)
  /\ claim' = [claim EXCEPT ![d] = "lapsed"]
  /\ UNCHANGED <<campaign, cancelled, expanded, status, attempts, jobs, sched,
                 task, accepted, faults>>

\* The process dies and restarts; the job it held is handed out again.
Crash(w) ==
  /\ task[w] # Idle \/ sched[w] # Tick
  /\ faults < MaxFaults
  /\ faults' = faults + 1
  /\ jobs' = EnqueueAll({task[w].row} \ {NoRow})
  /\ task' = [task EXCEPT ![w] = Idle]
  /\ sched' = [sched EXCEPT ![w] = Tick]
  /\ UNCHANGED <<campaign, cancelled, expanded, rowVars, accepted>>

-----------------------------------------------------------------------------
Schedule(w) ==
  \/ FindDue(w) \/ ClaimCampaign(w)
  \/ \E recipients \in SUBSET Rows : Plan(w, recipients)
  \/ CommitRows(w) \/ FinishExpansion(w) \/ FailCampaign(w)
  \/ EnqueueExpanded(w) \/ SweepStranded(w) \/ FailExhausted(w)
  \/ ListSending(w) \/ SweepCount(w) \/ SweepMark(w)
Consume(w) ==
  \/ ReadRow(w) \/ SendAccepted(w)
  \/ \E permanent \in BOOLEAN : SendRefused(w, permanent)
  \/ RecordOutcome(w) \/ RecordRetry(w) \/ TaskCount(w) \/ TaskMark(w)

Next ==
  \/ Cancel
  \/ \E w \in Workers : \/ Schedule(w) \/ Consume(w)
                        \/ ExpansionThrows(w) \/ TickFails(w)
                        \/ AnswerLost(w) \/ TaskFails(w) \/ Crash(w)
  \/ \E w \in Workers, d \in Rows : TakeJob(w, d) \/ SkipJob(w, d)
  \/ \E d \in Rows : LeaseLapses(d)

Spec == Init /\ [][Next]_vars

(* Every loop keeps running; a due campaign is found by some tick, the     *)
(* five-minute sweep comes round, and a ready job is taken in the end.     *)
Fairness ==
  /\ \A w \in Workers :
       /\ WF_vars(Schedule(w)) /\ WF_vars(Consume(w))
       /\ SF_vars(FindDue(w) /\ Goes(w, "found"))
       /\ SF_vars(EnqueueExpanded(w) /\ sched'[w].pc = "stranded")
  /\ \A d \in Rows :
       /\ SF_vars(\E w \in Workers : TakeJob(w, d) \/ SkipJob(w, d))
       /\ WF_vars(LeaseLapses(d))
FairSpec == Spec /\ Fairness

-----------------------------------------------------------------------------
(* Properties.                                                             *)

\* Every variable keeps its type: the columns of the campaign and its
\* deliveries and the control states of the loops.
TypeOK ==
  /\ campaign \in CampaignStatus
  /\ cancelled \in BOOLEAN /\ expanded \in Nat
  /\ status \in [Rows -> {"ABSENT", "PENDING", "SENT", "FAILED"}]
  /\ attempts \in [Rows -> Nat]
  /\ claim \in [Rows -> {"none", "live", "lapsed"}]
  /\ jobs \in [Rows -> 0..MaxJobs]
  /\ sched \in [Workers -> Sched]
  /\ task \in [Workers -> Task]
  /\ accepted \in [Rows -> Nat]
  /\ faults \in 0..MaxFaults

\* However many schedulers find the campaign due, it is expanded into rows and
\* survey invites at most once (the compare-and-set of materializeDueCampaigns).
ExpandedOnce == expanded <= 1

\* With one worker, a campaign shown as SENT has no recipient still pending:
\* completeCampaignIfDone never runs ahead of the rows it counts.
SentLeavesNonePending == campaign = "SENT" => NonePending

\* A recipient is mailed once, plus at most once per crash, database error or
\* broken connection that lost the record of an earlier acceptance.
AtMostOncePerFault == \A d \in Rows : accepted[d] <= 1 + faults

\* Cancelling stops the campaign: an attempt that sends read the campaign
\* before the cancellation ("deliveries not yet sent are skipped").  An
\* expansion that throws breaks it: FailCampaign overwrites CANCELLED.
CancelStops ==
  faults = 0 => \A w \in Workers : task[w].pc = "send" => task[w].early

\* A campaign shown as SENT was expanded into its recipients.
SentMeansExpanded == campaign = "SENT" => expanded > 0

\* A campaign that is due is worked through: it does not stay SCHEDULED or
\* SENDING for ever, and none of its recipients stays PENDING for ever, whether
\* it was completed or cancelled.
CampaignSettles ==
  campaign \in {"SCHEDULED", "SENDING"}
    ~> /\ campaign \notin {"SCHEDULED", "SENDING"}
       /\ \A d \in Rows : status[d] # "PENDING"
=============================================================================
