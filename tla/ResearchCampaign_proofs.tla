---------------------- MODULE ResearchCampaign_proofs ----------------------
(***************************************************************************)
(* Theorems about ResearchCampaign for every set of recipients and workers *)
(* and every value of the bounds: its types, that a campaign is expanded   *)
(* into deliveries at most once, that a recipient is mailed once beyond    *)
(* the faults, that a cancellation stops the attempts that follow it; and, *)
(* with one worker, that a campaign shown as SENT has nobody pending and,  *)
(* without faults, was expanded.                                           *)
(***************************************************************************)
EXTENDS ResearchCampaign, TLAPS

Counts == [Rows -> 0..MaxJobs]

\* Enqueueing keeps the queue within its bound.
LEMMA EnqueueAllType ==
  ASSUME jobs \in Counts, NEW S PROVE EnqueueAll(S) \in Counts
BY BoundsAssumption DEF Counts, EnqueueAll

\* Taking a job off a queue that has one.
LEMMA TakeType ==
  ASSUME jobs \in Counts, NEW d \in Rows, jobs[d] > 0
  PROVE  [jobs EXCEPT ![d] = @ - 1] \in Counts
<1>1. jobs[d] - 1 \in 0..MaxJobs
  BY BoundsAssumption DEF Counts
<1> QED
  BY <1>1 DEF Counts

\* Counting one more, for whatever row.
LEMMA CountType ==
  ASSUME NEW f \in [Rows -> Nat], NEW d
  PROVE  [f EXCEPT ![d] = @ + 1] \in [Rows -> Nat]
<1>1. \A e \in Rows : f[e] + 1 \in Nat
  OBVIOUS
<1>2. CASE d \in Rows
  BY <1>1, <1>2
<1>3. CASE d \notin Rows
  BY <1>3
<1> QED
  BY <1>2, <1>3

\* The resting states of a scheduler and of a consumer.
LEMMA RestTypes == Tick \in Sched /\ Idle \in Task
BY DEF Tick, Idle, Sched, SchedPC, Task, TaskPC

\* A scheduler that moves on keeps its rows.
LEMMA GoesType ==
  ASSUME sched \in [Workers -> Sched], NEW w \in Workers,
         NEW pc \in SchedPC, Goes(w, pc)
  PROVE  sched' \in [Workers -> Sched]
<1>1. [sched[w] EXCEPT !.pc = pc] \in Sched
  BY DEF Sched
<1> QED
  BY <1>1 DEF Goes

\* A consumer that moves on keeps its row.
LEMMA TaskGoesType ==
  ASSUME task \in [Workers -> Task], NEW w \in Workers, NEW pc \in TaskPC
  PROVE  [task EXCEPT ![w].pc = pc] \in [Workers -> Task]
<1>1. [task[w] EXCEPT !.pc = pc] \in Task
  BY DEF Task
<1> QED
  BY <1>1

-----------------------------------------------------------------------------
(* Types.  The steps of a scheduler, of a consumer, and the others.        *)

\* A step of a scheduler keeps every type.
LEMMA ScheduleType ==
  ASSUME TypeOK, NEW w \in Workers, Schedule(w) PROVE TypeOK'
<1> USE DEF TypeOK, rowVars, CampaignStatus
<1>1. CASE FindDue(w)
  BY <1>1, GoesType DEF FindDue, SchedPC
<1>2. CASE ClaimCampaign(w)
  BY <1>2, GoesType DEF ClaimCampaign, SchedPC
<1>3. ASSUME NEW recipients \in SUBSET Rows, Plan(w, recipients)
      PROVE  TypeOK'
  <2>1. [pc |-> "commit", rows |-> recipients] \in Sched
    BY DEF Sched, SchedPC
  <2> QED
    BY <1>3, <2>1 DEF Plan
<1>4. CASE CommitRows(w)
  BY <1>4, GoesType DEF CommitRows, SchedPC
<1>5. CASE FinishExpansion(w)
  BY <1>5, GoesType DEF FinishExpansion, SchedPC
<1>6. CASE FailCampaign(w)
  BY <1>6, GoesType DEF FailCampaign, SchedPC
<1>7. CASE EnqueueExpanded(w)
  <2>1. jobs' \in Counts
    BY <1>7, EnqueueAllType DEF EnqueueExpanded, Counts
  <2>2. \A pc \in {"tick", "stranded"} : [pc |-> pc, rows |-> {}] \in Sched
    BY DEF Sched, SchedPC
  <2>3. sched' \in [Workers -> Sched]
    BY <1>7, <2>2 DEF EnqueueExpanded
  <2> QED
    BY <1>7, <2>1, <2>3 DEF EnqueueExpanded, Counts
<1>8. CASE SweepStranded(w)
  <2>1. jobs' \in Counts
    BY <1>8, EnqueueAllType DEF SweepStranded, Counts
  <2> QED
    BY <1>8, <2>1, GoesType DEF SweepStranded, Counts, SchedPC
<1>9. CASE FailExhausted(w)
  BY <1>9, GoesType DEF FailExhausted, SchedPC
<1>10. CASE ListSending(w)
  BY <1>10, GoesType DEF ListSending, SchedPC
<1>11. CASE SweepCount(w)
  BY <1>11, GoesType DEF SweepCount, SchedPC
<1>12. CASE SweepMark(w)
  BY <1>12, GoesType DEF SweepMark, CompletedStatus, SchedPC
<1> QED
  BY <1>1, <1>2, <1>3, <1>4, <1>5, <1>6, <1>7, <1>8, <1>9, <1>10, <1>11,
     <1>12 DEF Schedule

\* A step of a consumer that has its job keeps every type.
LEMMA ConsumeType ==
  ASSUME TypeOK, NEW w \in Workers, Consume(w) PROVE TypeOK'
<1> USE DEF TypeOK, rowVars, CampaignStatus
<1>1. CASE ReadRow(w)
  <2>0. [task[w] EXCEPT !.pc = "send"] \in Task
    BY DEF Task, TaskPC
  <2>1. [[task[w] EXCEPT !.pc = "send"] EXCEPT !.early = ~cancelled] \in Task
    BY <2>0 DEF Task
  <2>2. task' \in [Workers -> Task]
    BY <1>1, <2>1, RestTypes DEF ReadRow
  <2>3. status' \in [Rows -> {"ABSENT", "PENDING", "SENT", "FAILED"}]
    BY <1>1 DEF ReadRow
  <2>4. claim' \in [Rows -> {"none", "live", "lapsed"}]
    BY <1>1 DEF ReadRow
  <2>5. UNCHANGED <<campaign, cancelled, expanded, attempts, jobs, sched,
                    accepted, faults>>
    BY <1>1 DEF ReadRow
  <2> QED
    BY <2>2, <2>3, <2>4, <2>5
<1>2. CASE SendAccepted(w)
  <2>1. accepted' \in [Rows -> Nat]
    BY <1>2, CountType DEF SendAccepted
  <2> QED
    BY <1>2, <2>1, TaskGoesType DEF SendAccepted, TaskPC
<1>3. ASSUME NEW permanent \in BOOLEAN, SendRefused(w, permanent)
      PROVE  TypeOK'
  BY <1>3, TaskGoesType DEF SendRefused, AfterError, TaskPC
<1>4. CASE RecordOutcome(w)
  BY <1>4, TaskGoesType DEF RecordOutcome, TaskPC
<1>5. CASE RecordRetry(w)
  <2>1. jobs' \in Counts
    BY <1>5, EnqueueAllType DEF RecordRetry, Counts
  <2> QED
    BY <1>5, <2>1, RestTypes DEF RecordRetry, Counts
<1>6. CASE TaskCount(w)
  <2>1. [task[w] EXCEPT !.pc = "mark"] \in Task
    BY DEF Task, TaskPC
  <2> QED
    BY <1>6, <2>1, RestTypes DEF TaskCount
<1>7. CASE TaskMark(w)
  BY <1>7, RestTypes DEF TaskMark, CompletedStatus
<1> QED
  BY <1>1, <1>2, <1>3, <1>4, <1>5, <1>6, <1>7 DEF Consume

\* So do the faults.
LEMMA FaultType ==
  ASSUME TypeOK, NEW w \in Workers,
         \/ ExpansionThrows(w) \/ TickFails(w) \/ AnswerLost(w)
         \/ TaskFails(w) \/ Crash(w)
  PROVE  TypeOK'
<1> USE DEF TypeOK, rowVars
<1>1. faults < MaxFaults /\ faults' = faults + 1
  BY DEF ExpansionThrows, TickFails, AnswerLost, TaskFails, Crash
<1>2. faults' \in 0..MaxFaults
  BY <1>1, BoundsAssumption
<1>3. CASE ExpansionThrows(w)
  <2>1. [pc |-> "fail", rows |-> {}] \in Sched
    BY DEF Sched, SchedPC
  <2> QED
    BY <1>2, <1>3, <2>1 DEF ExpansionThrows
<1>4. CASE TickFails(w)
  BY <1>2, <1>4, RestTypes DEF TickFails
<1>5. CASE TaskFails(w)
  <2>1. jobs' \in Counts
    BY <1>5, EnqueueAllType DEF TaskFails, Counts
  <2> QED
    BY <1>2, <1>5, <2>1, RestTypes DEF TaskFails, Counts
<1>6. CASE Crash(w)
  <2>1. jobs' \in Counts
    BY <1>6, EnqueueAllType DEF Crash, Counts
  <2> QED
    BY <1>2, <1>6, <2>1, RestTypes DEF Crash, Counts
<1>7. CASE AnswerLost(w)
  <2>1. accepted' \in [Rows -> Nat]
    BY <1>7, CountType DEF AnswerLost
  <2>2. task' \in [Workers -> Task]
    BY <1>7, TaskGoesType DEF AnswerLost, AfterError, TaskPC
  <2> QED
    BY <1>2, <1>7, <2>1, <2>2 DEF AnswerLost
<1> QED
  BY <1>3, <1>4, <1>5, <1>6, <1>7

\* And a consumer that takes a job off the queue.
LEMMA TakeJobType ==
  ASSUME TypeOK, NEW w \in Workers, NEW d \in Rows,
         TakeJob(w, d) \/ SkipJob(w, d)
  PROVE  TypeOK'
<1> USE DEF TypeOK, rowVars
<1>1. jobs' \in Counts
  BY TakeType DEF TakeJob, SkipJob, Counts
<1>2. CASE TakeJob(w, d)
  <2>1. [[Idle EXCEPT !.pc = "read"] EXCEPT !.row = d] \in Task
    BY DEF Idle, Task, TaskPC
  <2>2. attempts' \in [Rows -> Nat]
    BY <1>2 DEF TakeJob
  <2> QED
    BY <1>1, <1>2, <2>1, <2>2 DEF TakeJob, Counts
<1>3. CASE SkipJob(w, d)
  BY <1>1, <1>3 DEF SkipJob, Counts
<1> QED
  BY <1>2, <1>3

\* The initial state.
LEMMA InitType == ASSUME Init PROVE TypeOK
<1>1. 0 \in 0..MaxJobs /\ 0 \in 0..MaxFaults
  BY BoundsAssumption
<1>2. jobs \in Counts /\ faults \in 0..MaxFaults
  BY <1>1 DEF Init, Counts
<1>3. sched \in [Workers -> Sched] /\ task \in [Workers -> Task]
  BY RestTypes DEF Init
<1>4. campaign \in CampaignStatus /\ cancelled \in BOOLEAN
  BY DEF Init, CampaignStatus
<1>5. /\ expanded \in Nat
      /\ attempts \in [Rows -> Nat] /\ accepted \in [Rows -> Nat]
  BY DEF Init
<1>6. /\ status \in [Rows -> {"ABSENT", "PENDING", "SENT", "FAILED"}]
      /\ claim \in [Rows -> {"none", "live", "lapsed"}]
  BY DEF Init
<1> QED
  BY <1>2, <1>3, <1>4, <1>5, <1>6 DEF TypeOK, Counts

\* Every variable keeps its type, whatever the campaign's recipients, the
\* number of workers and the faults (the columns of the campaign and of its
\* deliveries, the control states of runResearchScheduler and
\* consumeResearchEmails).
THEOREM TypeCorrect == Spec => []TypeOK
<1>1. Init => TypeOK
  BY InitType
<1>2. TypeOK /\ [Next]_vars => TypeOK'
  <2> SUFFICES ASSUME TypeOK, [Next]_vars PROVE TypeOK'
    OBVIOUS
  <2>1. CASE Cancel
    BY <2>1 DEF Cancel, TypeOK, rowVars, CampaignStatus
  <2>2. CASE \E d \in Rows : LeaseLapses(d)
    BY <2>2 DEF LeaseLapses, TypeOK
  <2>3. CASE UNCHANGED vars
    BY <2>3 DEF vars, rowVars, TypeOK
  <2> QED
    BY <2>1, <2>2, <2>3, ScheduleType, ConsumeType, FaultType, TakeJobType
    DEF Next
<1> QED
  BY <1>1, <1>2, PTL DEF Spec

-----------------------------------------------------------------------------
(* One expansion.                                                          *)

\* Worker w has claimed the campaign and has not written its rows yet.
Expanding(w) == sched[w].pc \in {"plan", "commit"}

\* ExpandedOnce alone is not inductive: a worker about to write the rows must
\* be the only one, and the campaign must not have been expanded before.
ExpansionInv ==
  /\ TypeOK
  /\ ExpandedOnce
  /\ campaign = "SCHEDULED" => expanded = 0 /\ \A w \in Workers : ~Expanding(w)
  /\ \A w \in Workers : Expanding(w) => expanded = 0
  /\ \A v, w \in Workers : Expanding(v) /\ Expanding(w) => v = w

\* A step that neither expands, nor starts to, nor makes the campaign due
\* again keeps the invariant.
LEMMA NoExpansion ==
  ASSUME ExpansionInv, TypeOK',
         expanded' = expanded,
         \A w \in Workers : Expanding(w)' => Expanding(w),
         campaign' = "SCHEDULED" => campaign = "SCHEDULED"
  PROVE  ExpansionInv'
BY DEF ExpansionInv, ExpandedOnce

\* No step makes a campaign due again.
LEMMA NeverDueAgain ==
  ASSUME Next, campaign' = "SCHEDULED" PROVE campaign = "SCHEDULED"
<1>1. CASE Cancel
  BY <1>1 DEF Cancel
<1>2. ASSUME NEW w \in Workers, Schedule(w) PROVE campaign = "SCHEDULED"
  BY <1>2 DEF Schedule, FindDue, ClaimCampaign, Plan, CommitRows,
     FinishExpansion, FailCampaign, EnqueueExpanded, SweepStranded,
     FailExhausted, ListSending, SweepCount, SweepMark, CompletedStatus
<1>3. ASSUME NEW w \in Workers, Consume(w) PROVE campaign = "SCHEDULED"
  BY <1>3 DEF Consume, ReadRow, SendAccepted, SendRefused, RecordOutcome,
     RecordRetry, TaskCount, TaskMark, CompletedStatus
<1>4. ASSUME NEW w \in Workers,
             \/ ExpansionThrows(w) \/ TickFails(w) \/ AnswerLost(w)
             \/ TaskFails(w) \/ Crash(w)
      PROVE  campaign = "SCHEDULED"
  BY <1>4 DEF ExpansionThrows, TickFails, AnswerLost, TaskFails, Crash
<1>5. ASSUME NEW w \in Workers, NEW d \in Rows,
             TakeJob(w, d) \/ SkipJob(w, d)
      PROVE  campaign = "SCHEDULED"
  BY <1>5 DEF TakeJob, SkipJob
<1>6. ASSUME NEW d \in Rows, LeaseLapses(d) PROVE campaign = "SCHEDULED"
  BY <1>6 DEF LeaseLapses
<1> QED
  BY <1>1, <1>2, <1>3, <1>4, <1>5, <1>6 DEF Next

\* Only ClaimCampaign makes a worker expand.
LEMMA OnlyClaimExpands ==
  ASSUME TypeOK, NEW v \in Workers, Schedule(v), ~ClaimCampaign(v)
  PROVE  \A w \in Workers : Expanding(w)' => Expanding(w)
<1> SUFFICES ASSUME NEW w \in Workers, Expanding(w)' PROVE Expanding(w)
  OBVIOUS
<1>1. sched'[w] = sched[w] \/ w = v
  BY DEF TypeOK, Schedule, Goes, FindDue, Plan, CommitRows, FinishExpansion,
         FailCampaign, EnqueueExpanded, SweepStranded, FailExhausted,
         ListSending, SweepCount, SweepMark
<1>2. CASE sched'[w] = sched[w]
  BY <1>2 DEF Expanding
<1>3. CASE w = v /\ \E recipients \in SUBSET Rows : Plan(v, recipients)
  BY <1>3 DEF Plan, Expanding
<1>4. CASE w = v /\ ~\E recipients \in SUBSET Rows : Plan(v, recipients)
  <2>1. sched'[v].pc \notin {"plan", "commit"}
    BY <1>4 DEF TypeOK, Sched, Schedule, Goes, FindDue, CommitRows,
         FinishExpansion, FailCampaign, EnqueueExpanded, SweepStranded,
         FailExhausted, ListSending, SweepCount, SweepMark
  <2> QED
    BY <1>4, <2>1 DEF Expanding
<1> QED
  BY <1>1, <1>2, <1>3, <1>4

\* The two steps that matter: the compare-and-set of materializeDueCampaigns
\* lets one worker in ...
LEMMA ClaimStep ==
  ASSUME ExpansionInv, TypeOK', NEW v \in Workers, ClaimCampaign(v)
  PROVE  ExpansionInv'
<1>1. \A w \in Workers \ {v} : sched'[w] = sched[w]
  BY DEF ClaimCampaign, Goes, ExpansionInv, TypeOK
<1>2. ~Expanding(v) /\ expanded' = expanded
  BY DEF ClaimCampaign, Expanding
<1>3. CASE campaign = "SCHEDULED"
  <2>1. campaign' # "SCHEDULED"
    BY <1>3 DEF ClaimCampaign
  <2>2. \A w \in Workers \ {v} : ~Expanding(w)'
    BY <1>1, <1>3 DEF ExpansionInv, Expanding
  <2> QED
    BY <1>2, <1>3, <2>1, <2>2 DEF ExpansionInv, ExpandedOnce
<1>4. CASE campaign # "SCHEDULED"
  <2>1. sched'[v].pc = "enqueue" /\ campaign' # "SCHEDULED"
    BY <1>4 DEF ClaimCampaign, Goes, ExpansionInv, TypeOK, Sched
  <2>2. \A w \in Workers : Expanding(w)' => Expanding(w)
    BY <1>1, <2>1 DEF Expanding
  <2> QED
    BY <1>2, <2>1, <2>2, NoExpansion
<1> QED
  BY <1>3, <1>4

\* ... and that one, about to write the rows, is the first and the last.
LEMMA CommitStep ==
  ASSUME ExpansionInv, TypeOK', NEW v \in Workers, CommitRows(v)
  PROVE  ExpansionInv'
<1>1. Expanding(v)
  BY DEF CommitRows, Expanding
<1>2. expanded = 0 /\ campaign # "SCHEDULED" /\ expanded' = 1
  BY <1>1 DEF ExpansionInv, CommitRows
<1>3. \A w \in Workers : ~Expanding(w)'
  <2> SUFFICES ASSUME NEW w \in Workers PROVE ~Expanding(w)'
    OBVIOUS
  <2>1. CASE w = v
    BY <2>1 DEF CommitRows, Goes, ExpansionInv, TypeOK, Sched, Expanding
  <2>2. CASE w # v
    <3>1. sched'[w] = sched[w]
      BY <2>2 DEF CommitRows, Goes, ExpansionInv, TypeOK
    <3>2. ~Expanding(w)
      BY <1>1, <2>2 DEF ExpansionInv
    <3> QED
      BY <3>1, <3>2 DEF Expanding
  <2> QED
    BY <2>1, <2>2
<1> QED
  BY <1>2, <1>3 DEF ExpansionInv, ExpandedOnce, CommitRows

\* Whatever the administrator, the consumers and the faults do.
LEMMA OtherSteps ==
  ASSUME ExpansionInv, TypeOK',
         \/ Cancel
         \/ \E w \in Workers : \/ Consume(w) \/ ExpansionThrows(w)
                               \/ TickFails(w) \/ AnswerLost(w)
                               \/ TaskFails(w) \/ Crash(w)
         \/ \E w \in Workers, d \in Rows : TakeJob(w, d) \/ SkipJob(w, d)
         \/ \E d \in Rows : LeaseLapses(d)
  PROVE  ExpansionInv'
<1>1. campaign' = "SCHEDULED" => campaign = "SCHEDULED"
  BY NeverDueAgain DEF Next
<1>2. ASSUME NEW w \in Workers, Consume(w)
      PROVE  expanded' = expanded /\ sched' = sched
  BY <1>2 DEF Consume, ReadRow, SendAccepted, SendRefused, RecordOutcome,
     RecordRetry, TaskCount, TaskMark
<1>3. ASSUME NEW v \in Workers,
             ExpansionThrows(v) \/ TickFails(v) \/ Crash(v)
      PROVE  /\ expanded' = expanded
             /\ \A w \in Workers : \/ sched'[w] = sched[w]
                                   \/ sched'[w].pc \in {"tick", "fail"}
  BY <1>3 DEF ExpansionThrows, TickFails, Crash, Tick, ExpansionInv, TypeOK
<1>4. /\ expanded' = expanded
      /\ \A w \in Workers : \/ sched'[w] = sched[w]
                            \/ sched'[w].pc \in {"tick", "fail"}
  <2>1. CASE \E w \in Workers : Consume(w)
    BY <2>1, <1>2
  <2>2. CASE \E v \in Workers : ExpansionThrows(v) \/ TickFails(v) \/ Crash(v)
    BY <2>2, <1>3
  <2>3. CASE \/ Cancel \/ \E w \in Workers : AnswerLost(w) \/ TaskFails(w)
             \/ \E w \in Workers, d \in Rows : TakeJob(w, d) \/ SkipJob(w, d)
             \/ \E d \in Rows : LeaseLapses(d)
    <3>1. expanded' = expanded /\ sched' = sched
      BY <2>3 DEF Cancel, AnswerLost, TaskFails, TakeJob, SkipJob, LeaseLapses
    <3> QED
      BY <3>1
  <2> QED
    BY <2>1, <2>2, <2>3
<1>5. \A w \in Workers : Expanding(w)' => Expanding(w)
  BY <1>4 DEF Expanding
<1> QED
  BY <1>1, <1>4, <1>5, NoExpansion

LEMMA ExpansionHolds == Spec => []ExpansionInv
<1>1. Init => ExpansionInv
  <2> SUFFICES ASSUME Init PROVE ExpansionInv
    OBVIOUS
  <2>1. TypeOK
    BY InitType
  <2>2. \A w \in Workers : ~Expanding(w)
    BY DEF Init, Tick, Expanding
  <2> QED
    BY <2>1, <2>2 DEF Init, ExpansionInv, ExpandedOnce
<1>2. ExpansionInv /\ TypeOK' /\ [Next]_vars => ExpansionInv'
  <2> SUFFICES ASSUME ExpansionInv, TypeOK', [Next]_vars PROVE ExpansionInv'
    OBVIOUS
  <2>1. ASSUME NEW v \in Workers, Schedule(v) PROVE ExpansionInv'
    <3>1. CASE ClaimCampaign(v)
      BY <3>1, ClaimStep
    <3>2. CASE CommitRows(v)
      BY <3>2, CommitStep
    <3>3. CASE ~ClaimCampaign(v) /\ ~CommitRows(v)
      <4>1. expanded' = expanded
        BY <2>1, <3>3, SMTT(30) DEF Schedule, FindDue, Plan, FinishExpansion,
           FailCampaign, EnqueueExpanded, SweepStranded, FailExhausted,
           ListSending, SweepCount, SweepMark
      <4>2. \A w \in Workers : Expanding(w)' => Expanding(w)
        BY <2>1, <3>3, OnlyClaimExpands DEF ExpansionInv
      <4>3. campaign' = "SCHEDULED" => campaign = "SCHEDULED"
        BY <2>1, NeverDueAgain DEF Next
      <4> QED
        BY <4>1, <4>2, <4>3, NoExpansion
    <3> QED
      BY <3>1, <3>2, <3>3
  <2>2. CASE UNCHANGED vars
    BY <2>2, NoExpansion DEF vars, Expanding
  <2> QED
    BY <2>1, <2>2, OtherSteps DEF Next
<1> QED
  BY <1>1, <1>2, TypeCorrect, PTL DEF Spec

\* However many schedulers find a campaign due, and whatever crashes or throws
\* in between, materializeDueCampaigns turns it into delivery rows and survey
\* invites at most once.
THEOREM OneExpansion == Spec => []ExpandedOnce
<1>1. ExpansionInv => ExpandedOnce
  BY DEF ExpansionInv
<1> QED
  BY <1>1, ExpansionHolds, PTL

-----------------------------------------------------------------------------
(* One e-mail.  The claim gives a row one holder at a time, and keeps the  *)
(* row PENDING while it is held.  While a row may still be mailed -- it is *)
(* ABSENT or PENDING, and no acceptance of it waits to be recorded -- each *)
(* of its acceptances has been paid for by a fault.  That the one          *)
(* expansion finds every row ABSENT is what keeps it from sending a        *)
(* settled row out again.                                                  *)

\* Worker w's attempt on d has been accepted but not yet recorded.
Unrecorded(w, d) == Holds(w, d) /\ task[w].pc = "sent"
HeldOnce(d) ==
  /\ \A v, w \in Workers : Holds(v, d) /\ Holds(w, d) => v = w
  /\ \A w \in Workers :
       Holds(w, d) => status[d] = "PENDING" /\ claim[d] = "live"
MayBeMailed(d) ==
  /\ status[d] \in {"ABSENT", "PENDING"}
  /\ \A w \in Workers : ~Unrecorded(w, d)
PaidFor(d) ==
  /\ accepted[d] <= 1 + faults
  /\ MayBeMailed(d) => accepted[d] <= faults
  /\ expanded = 0 => status[d] = "ABSENT"
MailInv == \A d \in Rows : HeldOnce(d) /\ PaidFor(d)

LEMMA Numbers ==
  ASSUME TypeOK
  PROVE  /\ faults \in Int /\ expanded \in Nat
         /\ \A d \in Rows : accepted[d] \in Int
BY BoundsAssumption DEF TypeOK

\* A step that gives no worker a row and mails nothing: a row it changes is
\* one that nobody holds, and does not come back from SENT or FAILED.
LEMMA Bystander ==
  ASSUME TypeOK, TypeOK', MailInv, UNCHANGED <<task, accepted>>,
         faults' = faults \/ faults' = faults + 1,
         \/ expanded' = expanded
         \/ expanded' = expanded + 1,
         \A d \in Rows :
           \/ status'[d] = status[d] /\ claim'[d] = claim[d]
           \/ status[d] = "ABSENT" /\ status'[d] = "PENDING" /\ expanded' > 0
           \/ /\ \A w \in Workers : ~Holds(w, d)
              /\ status'[d] = status[d]
           \/ /\ \A w \in Workers : ~Holds(w, d)
              /\ status[d] = "PENDING" /\ status'[d] = "FAILED"
  PROVE  MailInv'
<1> SUFFICES ASSUME NEW d \in Rows PROVE HeldOnce(d)' /\ PaidFor(d)'
  BY DEF MailInv
<1>1. HeldOnce(d) /\ PaidFor(d)
  BY DEF MailInv
<1>2. /\ \A w \in Workers : Holds(w, d)' <=> Holds(w, d)
      /\ \A w \in Workers : Unrecorded(w, d)' <=> Unrecorded(w, d)
  BY DEF Holds, Unrecorded
<1>3. HeldOnce(d)'
  BY <1>1, <1>2 DEF HeldOnce
<1>4. MayBeMailed(d)' => MayBeMailed(d)
  BY <1>2 DEF MayBeMailed
<1>5. expanded' = 0 => status'[d] = "ABSENT"
  BY <1>1, Numbers DEF PaidFor
<1>6. PaidFor(d)'
  BY <1>1, <1>4, <1>5, Numbers DEF PaidFor
<1> QED
  BY <1>3, <1>6

\* A worker that goes on, unless the e-mail is accepted.
LEMMA GoesOn ==
  ASSUME TypeOK, TypeOK', MailInv,
         UNCHANGED <<status, claim, accepted, expanded, faults>>,
         NEW w \in Workers,
         \A v \in Workers : v # w => task'[v] = task[v],
         task'[w].row = task[w].row,
         \/ /\ task[w].pc \in {"read", "send"}
            /\ task'[w].pc \in {"send", "putOff", "refused"}
         \/ task[w].pc = "count" /\ task'[w].pc = "mark"
  PROVE  MailInv'
<1> SUFFICES ASSUME NEW d \in Rows PROVE HeldOnce(d)' /\ PaidFor(d)'
  BY DEF MailInv
<1>1. HeldOnce(d) /\ PaidFor(d)
  BY DEF MailInv
<1>2. /\ \A v \in Workers : Holds(v, d)' <=> Holds(v, d)
      /\ \A v \in Workers : Unrecorded(v, d)' <=> Unrecorded(v, d)
  BY DEF Holds, Unrecorded
<1>3. HeldOnce(d)'
  BY <1>1, <1>2 DEF HeldOnce
<1>4. MayBeMailed(d)' => MayBeMailed(d)
  BY <1>2 DEF MayBeMailed
<1> QED
  BY <1>1, <1>3, <1>4 DEF PaidFor

\* Only a row that is PENDING and that nobody holds is taken.
LEMMA TakeKeeps ==
  ASSUME TypeOK, TypeOK', MailInv, NEW w \in Workers, NEW e \in Rows,
         TakeJob(w, e)
  PROVE  MailInv'
<1> SUFFICES ASSUME NEW d \in Rows PROVE HeldOnce(d)' /\ PaidFor(d)'
  BY DEF MailInv
<1>1. HeldOnce(d) /\ PaidFor(d) /\ HeldOnce(e)
  BY DEF MailInv
<1>2. /\ task[w].pc = "idle" /\ task'[w].pc = "read" /\ task'[w].row = e
      /\ \A v \in Workers : v # w => task'[v] = task[v]
      /\ claim' = [claim EXCEPT ![e] = "live"] /\ Claimable(e)
      /\ UNCHANGED <<status, accepted, expanded, faults>>
  BY DEF TakeJob, TypeOK, Idle
<1>3. \A v \in Workers : ~Holds(v, e)
  BY <1>1, <1>2 DEF HeldOnce, Claimable
<1>4. /\ \A v \in Workers : Unrecorded(v, d)' <=> Unrecorded(v, d)
      /\ \A v \in Workers : Holds(v, d)' <=> Holds(v, d) \/ (v = w /\ d = e)
  BY <1>2 DEF Holds, Unrecorded
<1>5. HeldOnce(d)'
  <2>1. CASE d = e
    <3>1. claim'[d] = "live" /\ status'[d] = "PENDING"
      BY <1>2, <2>1 DEF TypeOK, Claimable
    <3> QED
      BY <1>3, <1>4, <2>1, <3>1 DEF HeldOnce
  <2>2. CASE d # e
    BY <1>1, <1>2, <1>4, <2>2 DEF HeldOnce, TypeOK
  <2> QED
    BY <2>1, <2>2
<1>6. MayBeMailed(d)' => MayBeMailed(d)
  BY <1>2, <1>4 DEF MayBeMailed
<1> QED
  BY <1>1, <1>2, <1>5, <1>6 DEF PaidFor

LEMMA AcceptKeeps ==
  ASSUME TypeOK, TypeOK', MailInv, NEW w \in Workers, SendAccepted(w)
  PROVE  MailInv'
<1> SUFFICES ASSUME NEW d \in Rows PROVE HeldOnce(d)' /\ PaidFor(d)'
  BY DEF MailInv
<1>1. HeldOnce(d) /\ PaidFor(d)
  BY DEF MailInv
<1>2. /\ task[w].pc = "send" /\ task'[w].pc = "sent"
      /\ task'[w].row = task[w].row
      /\ \A v \in Workers : v # w => task'[v] = task[v]
      /\ accepted' = [accepted EXCEPT ![task[w].row] = @ + 1]
      /\ UNCHANGED <<status, claim, expanded, faults>>
  BY DEF SendAccepted, TypeOK, Task, rowVars
<1>3. \A v \in Workers : Holds(v, d)' <=> Holds(v, d)
  BY <1>2 DEF Holds
<1>4. HeldOnce(d)'
  BY <1>1, <1>2, <1>3 DEF HeldOnce
<1>5. CASE d = task[w].row
  <2>1. Holds(w, d) /\ Unrecorded(w, d)'
    BY <1>2, <1>5 DEF Holds, Unrecorded
  <2>2. MayBeMailed(d)
    BY <1>1, <1>2, <2>1 DEF MayBeMailed, HeldOnce, Unrecorded
  <2>3. accepted'[d] = accepted[d] + 1
    BY <1>2, <1>5 DEF TypeOK
  <2> QED
    BY <1>1, <1>2, <1>4, <2>1, <2>2, <2>3, Numbers DEF PaidFor, MayBeMailed
<1>6. CASE d # task[w].row
  <2>1. accepted'[d] = accepted[d]
    BY <1>2, <1>6 DEF TypeOK
  <2>2. \A v \in Workers : Unrecorded(v, d)' <=> Unrecorded(v, d)
    BY <1>2, <1>6 DEF Holds, Unrecorded
  <2>3. MayBeMailed(d)' => MayBeMailed(d)
    BY <1>2, <2>2 DEF MayBeMailed
  <2> QED
    BY <1>1, <1>2, <1>4, <2>1, <2>3 DEF PaidFor
<1> QED
  BY <1>5, <1>6

\* An acceptance nobody hears of is paid for by the fault that hid it.
LEMMA LostKeeps ==
  ASSUME TypeOK, TypeOK', MailInv, NEW w \in Workers, AnswerLost(w)
  PROVE  MailInv'
<1> SUFFICES ASSUME NEW d \in Rows PROVE HeldOnce(d)' /\ PaidFor(d)'
  BY DEF MailInv
<1>1. HeldOnce(d) /\ PaidFor(d)
  BY DEF MailInv
<1>2. /\ task[w].pc = "send" /\ task'[w].pc \in {"putOff", "refused"}
      /\ task'[w].row = task[w].row
      /\ \A v \in Workers : v # w => task'[v] = task[v]
      /\ accepted' = [accepted EXCEPT ![task[w].row] = @ + 1]
      /\ UNCHANGED <<status, claim, expanded>> /\ faults' = faults + 1
  BY DEF AnswerLost, AfterError, TypeOK, Task, rowVars
<1>3. /\ \A v \in Workers : Holds(v, d)' <=> Holds(v, d)
      /\ \A v \in Workers : Unrecorded(v, d)' <=> Unrecorded(v, d)
  BY <1>2 DEF Holds, Unrecorded
<1>4. HeldOnce(d)'
  BY <1>1, <1>2, <1>3 DEF HeldOnce
<1>5. MayBeMailed(d)' => MayBeMailed(d)
  BY <1>2, <1>3 DEF MayBeMailed
<1>6. CASE d = task[w].row
  <2>1. status[d] = "PENDING"
    BY <1>1, <1>2, <1>6 DEF HeldOnce, Holds
  <2>2. accepted'[d] = accepted[d] + 1
    BY <1>2, <1>6 DEF TypeOK
  <2> QED
    BY <1>1, <1>2, <1>4, <1>5, <2>1, <2>2, Numbers DEF PaidFor
<1>7. CASE d # task[w].row
  <2>1. accepted'[d] = accepted[d]
    BY <1>2, <1>7 DEF TypeOK
  <2> QED
    BY <1>1, <1>2, <1>4, <1>5, <2>1, Numbers DEF PaidFor
<1> QED
  BY <1>6, <1>7

\* The worker writes its row and lets go of it: it settles the row, or puts
\* off an e-mail that was not accepted.
LEMMA Records ==
  ASSUME TypeOK, TypeOK', MailInv, NEW w \in Workers, NEW e, NEW s,
         task[w].row = e, task[w].pc \in {"read", "sent", "refused", "putOff"},
         task'[w].pc \in {"idle", "count"},
         \A v \in Workers : v # w => task'[v] = task[v],
         status' = [status EXCEPT ![e] = s],
         claim' = [claim EXCEPT ![e] = "none"],
         \/ s \in {"SENT", "FAILED"}
         \/ s = status[e] /\ task[w].pc # "sent",
         UNCHANGED <<accepted, expanded, faults>>
  PROVE  MailInv'
<1> SUFFICES ASSUME NEW d \in Rows PROVE HeldOnce(d)' /\ PaidFor(d)'
  BY DEF MailInv
<1>1. HeldOnce(d) /\ PaidFor(d)
  BY DEF MailInv
<1>2. \A v \in Workers : Holds(v, d)' <=> Holds(v, d) /\ v # w
  BY DEF Holds
<1>3. CASE d = e
  <2>1. Holds(w, d) /\ status[d] = "PENDING" /\ status'[d] = s
    BY <1>1, <1>3 DEF Holds, HeldOnce, TypeOK
  <2>2. \A v \in Workers : ~Holds(v, d)'
    BY <1>1, <1>2, <2>1 DEF HeldOnce
  <2>3. HeldOnce(d)'
    BY <2>2 DEF HeldOnce
  <2>4. expanded # 0
    BY <1>1, <2>1 DEF PaidFor
  <2>5. CASE s \in {"SENT", "FAILED"}
    <3>1. ~MayBeMailed(d)'
      BY <2>1, <2>5 DEF MayBeMailed
    <3> QED
      BY <1>1, <2>3, <2>4, <3>1 DEF PaidFor
  <2>6. CASE s = status[e] /\ task[w].pc # "sent"
    <3>1. MayBeMailed(d)
      BY <1>1, <2>1, <2>6 DEF MayBeMailed, HeldOnce, Unrecorded
    <3> QED
      BY <1>1, <2>3, <2>4, <3>1 DEF PaidFor
  <2> QED
    BY <2>5, <2>6
<1>4. CASE d # e
  <2>1. status'[d] = status[d] /\ claim'[d] = claim[d]
    BY <1>4 DEF TypeOK
  <2>2. /\ \A v \in Workers : Holds(v, d)' <=> Holds(v, d)
        /\ \A v \in Workers : Unrecorded(v, d)' <=> Unrecorded(v, d)
    BY <1>2, <1>4 DEF Holds, Unrecorded
  <2>3. HeldOnce(d)'
    BY <1>1, <2>1, <2>2 DEF HeldOnce
  <2>4. MayBeMailed(d)' => MayBeMailed(d)
    BY <2>1, <2>2 DEF MayBeMailed
  <2> QED
    BY <1>1, <2>1, <2>3, <2>4 DEF PaidFor
<1> QED
  BY <1>3, <1>4

\* The worker drops what it did: it was done, or a fault pays for it.
LEMMA Drops ==
  ASSUME TypeOK, TypeOK', MailInv, NEW w \in Workers,
         task'[w].pc = "idle", \A v \in Workers : v # w => task'[v] = task[v],
         UNCHANGED <<status, claim, accepted, expanded>>,
         \/ faults' = faults + 1
         \/ faults' = faults /\ task[w].pc \in {"count", "mark"}
  PROVE  MailInv'
<1> SUFFICES ASSUME NEW d \in Rows PROVE HeldOnce(d)' /\ PaidFor(d)'
  BY DEF MailInv
<1>1. HeldOnce(d) /\ PaidFor(d)
  BY DEF MailInv
<1>2. \A v \in Workers : Holds(v, d)' => Holds(v, d)
  BY DEF Holds
<1>3. HeldOnce(d)'
  BY <1>1, <1>2 DEF HeldOnce
<1>4. CASE faults' = faults + 1
  BY <1>1, <1>3, <1>4, Numbers DEF PaidFor
<1>5. CASE faults' = faults /\ task[w].pc \in {"count", "mark"}
  <2>1. \A v \in Workers : Unrecorded(v, d)' <=> Unrecorded(v, d)
    BY <1>5 DEF Holds, Unrecorded
  <2>2. MayBeMailed(d)' => MayBeMailed(d)
    BY <2>1 DEF MayBeMailed
  <2> QED
    BY <1>1, <1>3, <1>5, <2>2 DEF PaidFor
<1> QED
  BY <1>4, <1>5

LEMMA ConsumeKeeps ==
  ASSUME TypeOK, TypeOK', MailInv, NEW w \in Workers,
         Consume(w) \/ AnswerLost(w) \/ TaskFails(w) \/ Crash(w)
  PROVE  MailInv'
<1> USE DEF rowVars
<1>1. CASE ReadRow(w)
  <2>1. \A v \in Workers : v # w => task'[v] = task[v]
    BY <1>1 DEF ReadRow, TypeOK
  <2>2. CASE campaign = "CANCELLED"
    <3>1. task'[w].pc = "idle" /\ task[w].pc = "read"
      BY <1>1, <2>2 DEF ReadRow, TypeOK, Idle
    <3> QED
      BY <1>1, <2>1, <2>2, <3>1, Records DEF ReadRow
  <2>3. CASE campaign # "CANCELLED"
    <3>1. /\ task'[w].pc = "send" /\ task[w].pc = "read"
          /\ task'[w].row = task[w].row
      BY <1>1, <2>3 DEF ReadRow, TypeOK, Task
    <3>2. UNCHANGED <<status, claim, accepted, expanded, faults>>
      BY <1>1, <2>3 DEF ReadRow
    <3> QED
      BY <2>1, <3>1, <3>2, GoesOn
  <2> QED
    BY <2>2, <2>3
<1>2. ASSUME NEW permanent \in BOOLEAN, SendRefused(w, permanent)
      PROVE  MailInv'
  <2>1. /\ \A v \in Workers : v # w => task'[v] = task[v]
        /\ task[w].pc = "send" /\ task'[w].pc \in {"putOff", "refused"}
        /\ task'[w].row = task[w].row
        /\ UNCHANGED <<status, claim, accepted, expanded, faults>>
    BY <1>2 DEF SendRefused, AfterError, TypeOK, Task
  <2> QED
    BY <2>1, GoesOn
<1>3. CASE RecordOutcome(w)
  <2>1. /\ \A v \in Workers : v # w => task'[v] = task[v]
        /\ task[w].pc \in {"sent", "refused"} /\ task'[w].pc = "count"
    BY <1>3 DEF RecordOutcome, TypeOK, Task
  <2> DEFINE s == IF task[w].pc = "sent" THEN "SENT" ELSE "FAILED"
  <2>2. /\ status' = [status EXCEPT ![task[w].row] = s]
        /\ claim' = [claim EXCEPT ![task[w].row] = "none"]
        /\ UNCHANGED <<accepted, expanded, faults>>
    BY <1>3 DEF RecordOutcome
  <2>3. s \in {"SENT", "FAILED"}
    OBVIOUS
  <2> HIDE DEF s
  <2> QED
    BY <2>1, <2>2, <2>3, Records
<1>4. CASE RecordRetry(w)
  <2>1. /\ \A v \in Workers : v # w => task'[v] = task[v]
        /\ task[w].pc = "putOff" /\ task'[w].pc = "idle"
    BY <1>4 DEF RecordRetry, TypeOK, Idle
  <2>2. /\ status' = [status EXCEPT ![task[w].row] = status[task[w].row]]
        /\ claim' = [claim EXCEPT ![task[w].row] = "none"]
        /\ UNCHANGED <<accepted, expanded, faults>>
    BY <1>4 DEF RecordRetry, TypeOK
  <2> QED
    BY <2>1, <2>2, Records
<1>5. CASE TaskCount(w) /\ NonePending
  <2>1. /\ \A v \in Workers : v # w => task'[v] = task[v]
        /\ task[w].pc = "count" /\ task'[w].pc = "mark"
        /\ task'[w].row = task[w].row
        /\ UNCHANGED <<status, claim, accepted, expanded, faults>>
    BY <1>5 DEF TaskCount, TypeOK, Task
  <2> QED
    BY <2>1, GoesOn
<1>6. CASE (TaskCount(w) /\ ~NonePending) \/ TaskMark(w)
  <2>1. /\ \A v \in Workers : v # w => task'[v] = task[v]
        /\ task[w].pc \in {"count", "mark"} /\ task'[w].pc = "idle"
        /\ UNCHANGED <<status, claim, accepted, expanded, faults>>
    BY <1>6 DEF TaskCount, TaskMark, TypeOK, Idle
  <2> QED
    BY <2>1, Drops
<1>7. CASE TaskFails(w) \/ Crash(w)
  <2>1. /\ \A v \in Workers : v # w => task'[v] = task[v]
        /\ task'[w].pc = "idle" /\ faults' = faults + 1
        /\ UNCHANGED <<status, claim, accepted, expanded>>
    BY <1>7 DEF AnswerLost, TaskFails, Crash, TypeOK, Idle
  <2> QED
    BY <2>1, Drops
<1> QED
  BY <1>1, <1>2, <1>3, <1>4, <1>5, <1>6, <1>7, AcceptKeeps, LostKeeps
     DEF Consume

\* The schedulers and the sweep.
LEMMA ScheduleKeeps ==
  ASSUME ExpansionInv, TypeOK', MailInv, NEW w \in Workers,
         Schedule(w) \/ ExpansionThrows(w) \/ TickFails(w)
  PROVE  MailInv'
<1> USE DEF rowVars
<1>0. TypeOK
  BY DEF ExpansionInv
<1>1. CASE CommitRows(w)
  <2>1. expanded = 0 /\ expanded' = 1
    BY <1>1 DEF CommitRows, ExpansionInv, Expanding
  <2>2. \A d \in Rows : /\ status[d] = "ABSENT" /\ claim'[d] = claim[d]
                        /\ status'[d] \in {"PENDING", status[d]}
    BY <1>1, <2>1 DEF CommitRows, MailInv, PaidFor
  <2>3. UNCHANGED <<task, accepted, faults>>
    BY <1>1 DEF CommitRows
  <2> QED
    BY <1>0, <2>1, <2>2, <2>3, Bystander
<1>2. CASE FailExhausted(w)
  <2>1. ASSUME NEW d \in Rows, Exhausted(d)
        PROVE  /\ \A v \in Workers : ~Holds(v, d)
               /\ status[d] = "PENDING" /\ status'[d] = "FAILED"
    BY <1>2, <2>1
       DEF FailExhausted, Exhausted, Claimable, MailInv, HeldOnce
  <2>2. ASSUME NEW d \in Rows, ~Exhausted(d)
        PROVE  status'[d] = status[d] /\ claim'[d] = claim[d]
    BY <1>2, <2>2 DEF FailExhausted
  <2>3. UNCHANGED <<task, accepted, faults, expanded>>
    BY <1>2 DEF FailExhausted
  <2> QED
    BY <1>0, <2>1, <2>2, <2>3, Bystander
<1>3. CASE ~CommitRows(w) /\ ~FailExhausted(w)
  <2>1. /\ UNCHANGED <<task, accepted, expanded, status, claim>>
        /\ faults' = faults \/ faults' = faults + 1
    <3>1. CASE Schedule(w)
      BY <1>3, <3>1 DEF Schedule, FindDue, ClaimCampaign, Plan,
         FinishExpansion, FailCampaign, EnqueueExpanded, SweepStranded,
         ListSending, SweepCount, SweepMark
    <3>2. CASE ExpansionThrows(w) \/ TickFails(w)
      BY <3>2 DEF ExpansionThrows, TickFails
    <3> QED
      BY <3>1, <3>2
  <2> QED
    BY <1>0, <2>1, Bystander
<1> QED
  BY <1>1, <1>2, <1>3

LEMMA MailHolds == Spec => []MailInv
<1>1. Init => MailInv
  <2> SUFFICES ASSUME Init, NEW d \in Rows PROVE HeldOnce(d) /\ PaidFor(d)
    BY DEF MailInv
  <2>1. \A w \in Workers : ~Holds(w, d)
    BY DEF Init, Holds, Idle
  <2>2. accepted[d] = 0 /\ faults = 0 /\ status[d] = "ABSENT"
    BY DEF Init
  <2> QED
    BY <2>1, <2>2 DEF HeldOnce, PaidFor
<1>2. ExpansionInv /\ TypeOK' /\ MailInv /\ [Next]_vars => MailInv'
  <2> SUFFICES ASSUME ExpansionInv, TypeOK', MailInv, [Next]_vars
               PROVE  MailInv'
    OBVIOUS
  <2>0. TypeOK
    BY DEF ExpansionInv
  <2>1. CASE UNCHANGED vars \/ Cancel
    <3>1. UNCHANGED <<task, accepted, faults, expanded, status, claim>>
      BY <2>1 DEF vars, Cancel, rowVars
    <3> QED
      BY <2>0, <3>1, Bystander
  <2>2. ASSUME NEW w \in Workers, NEW d \in Rows, SkipJob(w, d)
        PROVE  MailInv'
    BY <2>0, <2>2, Bystander DEF SkipJob, rowVars
  <2>3. ASSUME NEW d \in Rows, LeaseLapses(d) PROVE MailInv'
    <3>1. \A e \in Rows : /\ status'[e] = status[e]
                          /\ \/ claim'[e] = claim[e]
                             \/ \A w \in Workers : ~Holds(w, e)
      BY <2>0, <2>3 DEF LeaseLapses, TypeOK
    <3>2. UNCHANGED <<task, accepted, faults, expanded>>
      BY <2>3 DEF LeaseLapses
    <3> QED
      BY <2>0, <3>1, <3>2, Bystander
  <2> QED
    BY <2>0, <2>1, <2>2, <2>3, TakeKeeps, ConsumeKeeps, ScheduleKeeps DEF Next
<1> QED
  BY ExpansionHolds, TypeCorrect, <1>1, <1>2, PTL DEF Spec

\* However jobs are repeated, whatever the sweep re-enqueues, wherever a worker
\* dies and whenever the campaign is cancelled: a recipient is mailed at most
\* once more than the faults that could lose the record of an acceptance.
THEOREM MailedOnce == Spec => []AtMostOncePerFault
<1>1. MailInv => AtMostOncePerFault
  BY DEF MailInv, PaidFor, AtMostOncePerFault
<1> QED
  BY MailHolds, <1>1, PTL

-----------------------------------------------------------------------------
(* Cancelling.  Once the administrator has been told, the campaign reads   *)
(* CANCELLED to every attempt that is still to look -- unless an expansion *)
(* threw, or it reached nobody: then SENT has overwritten CANCELLED, and   *)
(* there is no row to attempt.                                             *)

HeldPC == {"read", "send", "sent", "refused", "putOff"}
AtWorkOnRow == \A w \in Workers : task[w].pc \in HeldPC => task[w].row \in Rows
FailPaidFor == \A w \in Workers : sched[w].pc = "fail" => faults > 0
FinishKnowsRows ==
  \A w \in Workers : sched[w].pc = "finish" =>
    /\ expanded > 0
    /\ \A d \in Rows : status[d] # "ABSENT" => d \in sched[w].rows
CancelSeen ==
  faults = 0 /\ cancelled =>
    \/ campaign = "CANCELLED"
    \/ expanded > 0 /\ \A d \in Rows : status[d] = "ABSENT"
CancelInv == /\ AtWorkOnRow /\ FailPaidFor /\ FinishKnowsRows
             /\ CancelSeen /\ CancelStops

LEMMA FaultsGrow ==
  ASSUME [Next]_vars PROVE faults' = faults \/ faults' = faults + 1
BY DEF Next, vars, Cancel, Schedule, FindDue, ClaimCampaign, Plan, CommitRows,
       FinishExpansion, FailCampaign, EnqueueExpanded, SweepStranded,
       FailExhausted, ListSending, SweepCount, SweepMark, Consume, ReadRow,
       SendAccepted, SendRefused, RecordOutcome, RecordRetry, TaskCount,
       TaskMark, ExpansionThrows, TickFails, AnswerLost, TaskFails, Crash,
       TakeJob, SkipJob, LeaseLapses

\* How a scheduler comes to fail, or to finish an expansion.
LEMMA SchedShape ==
  ASSUME TypeOK, [Next]_vars, NEW w \in Workers
  PROVE  \/ sched'[w] = sched[w]
         \/ sched'[w].pc \notin {"fail", "finish"}
         \/ ExpansionThrows(w)
         \/ CommitRows(w)
<1>1. ASSUME NEW v \in Workers, Schedule(v), v # w
      PROVE  sched'[w] = sched[w]
  BY <1>1 DEF Schedule, FindDue, ClaimCampaign, Plan, CommitRows,
     FinishExpansion, FailCampaign, EnqueueExpanded, SweepStranded,
     FailExhausted, ListSending, SweepCount, SweepMark, Goes, TypeOK
<1>2. CASE Schedule(w)
  BY <1>2 DEF Schedule, FindDue, ClaimCampaign, Plan,
     FinishExpansion, FailCampaign, EnqueueExpanded, SweepStranded,
     FailExhausted, ListSending, SweepCount, SweepMark, Goes, TypeOK, Sched
<1>3. ASSUME NEW v \in Workers, ExpansionThrows(v), v # w
      PROVE  sched'[w] = sched[w]
  BY <1>3 DEF ExpansionThrows, TypeOK
<1>4. ASSUME NEW v \in Workers, TickFails(v) \/ Crash(v)
      PROVE  sched'[w] = sched[w] \/ sched'[w].pc = "tick"
  BY <1>4 DEF TickFails, Crash, Tick, TypeOK
<1>5. ASSUME NEW v \in Workers, Consume(v) PROVE sched' = sched
  BY <1>5 DEF Consume, ReadRow, SendAccepted, SendRefused, RecordOutcome,
     RecordRetry, TaskCount, TaskMark
<1>6. CASE \/ Cancel \/ UNCHANGED vars
           \/ \E v \in Workers : AnswerLost(v) \/ TaskFails(v)
           \/ \E v \in Workers, d \in Rows : TakeJob(v, d) \/ SkipJob(v, d)
           \/ \E d \in Rows : LeaseLapses(d)
  BY <1>6 DEF Cancel, vars, AnswerLost, TaskFails, TakeJob, SkipJob, LeaseLapses
<1> QED
  BY <1>1, <1>2, <1>3, <1>4, <1>5, <1>6 DEF Next

\* How a consumer comes to hold a row, and to send.
LEMMA TaskShape ==
  ASSUME TypeOK, [Next]_vars, NEW w \in Workers
  PROVE  \/ task'[w] = task[w]
         \/ task'[w].pc = "read" /\ task'[w].row \in Rows
         \/ /\ task[w].pc = "read" /\ campaign # "CANCELLED"
            /\ task'[w].pc = "send" /\ task'[w].early = ~cancelled
            /\ task'[w].row = task[w].row
         \/ /\ task'[w].pc \notin {"read", "send"}
            /\ task'[w].pc \in HeldPC =>
                 task[w].pc \in HeldPC /\ task'[w].row = task[w].row
<1>1. ASSUME NEW v \in Workers, Consume(v), v # w
      PROVE  task'[w] = task[w]
  BY <1>1 DEF Consume, ReadRow, SendAccepted, SendRefused, AfterError,
     RecordOutcome, RecordRetry, TaskCount, TaskMark, TypeOK
<1>2. CASE ReadRow(w)
  BY <1>2 DEF ReadRow, TypeOK, Task, Idle, HeldPC
<1>3. CASE \/ SendAccepted(w) \/ AnswerLost(w)
           \/ \E permanent \in BOOLEAN : SendRefused(w, permanent)
  BY <1>3 DEF SendAccepted, AnswerLost, SendRefused, AfterError, TypeOK, Task,
     HeldPC
<1>4. CASE \/ RecordOutcome(w) \/ RecordRetry(w) \/ TaskCount(w)
           \/ TaskMark(w)
  BY <1>4 DEF RecordOutcome, RecordRetry, TaskCount, TaskMark, TypeOK, Task,
     Idle, HeldPC
<1>5. ASSUME NEW v \in Workers, TaskFails(v) \/ Crash(v)
      PROVE  task'[w] = task[w] \/ task'[w].pc = "idle"
  BY <1>5 DEF AnswerLost, TaskFails, Crash, TypeOK, Idle
<1>6. ASSUME NEW v \in Workers, NEW d \in Rows, TakeJob(v, d)
      PROVE  \/ task'[w] = task[w]
             \/ task'[w].pc = "read" /\ task'[w].row \in Rows
  BY <1>6 DEF TakeJob, TypeOK, Idle
<1>7. ASSUME NEW v \in Workers, AnswerLost(v), v # w
      PROVE  task'[w] = task[w]
  BY <1>7 DEF AnswerLost, AfterError, TypeOK
<1>8. CASE \/ Cancel \/ UNCHANGED vars
           \/ \E v \in Workers : \/ Schedule(v) \/ ExpansionThrows(v)
                                 \/ TickFails(v)
           \/ \E v \in Workers, d \in Rows : SkipJob(v, d)
           \/ \E d \in Rows : LeaseLapses(d)
  <2>1. task' = task
    BY <1>8 DEF Cancel, vars, Schedule, FindDue, ClaimCampaign, Plan,
       CommitRows, FinishExpansion, FailCampaign, EnqueueExpanded,
       SweepStranded, FailExhausted, ListSending, SweepCount, SweepMark,
       ExpansionThrows, TickFails, SkipJob, LeaseLapses
  <2> QED
    BY <2>1
<1> QED
  BY <1>1, <1>2, <1>3, <1>4, <1>5, <1>6, <1>7, <1>8 DEF Next, Consume, HeldPC

\* Only the expansion adds rows.
LEMMA RowShape ==
  ASSUME TypeOK, MailInv, AtWorkOnRow, [Next]_vars
  PROVE  \/ \E w \in Workers : CommitRows(w)
         \/ /\ expanded' = expanded
            /\ \A d \in Rows : status[d] = "ABSENT" => status'[d] = "ABSENT"
<1>1. ASSUME NEW w \in Workers, ReadRow(w) \/ RecordOutcome(w)
      PROVE  \A d \in Rows : status[d] = "ABSENT" => status'[d] = "ABSENT"
  <2>1. Holds(w, task[w].row) /\ task[w].row \in Rows
    BY <1>1 DEF ReadRow, RecordOutcome, Holds, AtWorkOnRow, HeldPC
  <2>2. status[task[w].row] = "PENDING"
    BY <2>1 DEF MailInv, HeldOnce
  <2> QED
    BY <1>1, <2>2 DEF ReadRow, RecordOutcome, TypeOK
<1>2. ASSUME NEW w \in Workers, FailExhausted(w)
      PROVE  \A d \in Rows : status[d] = "ABSENT" => status'[d] = "ABSENT"
  BY <1>2 DEF FailExhausted, Exhausted, Claimable
<1>3. expanded' = expanded \/ \E w \in Workers : CommitRows(w)
  BY DEF Next, vars, Cancel, Schedule, FindDue, ClaimCampaign, Plan,
     FinishExpansion, FailCampaign, EnqueueExpanded, SweepStranded,
     FailExhausted, ListSending, SweepCount, SweepMark, Consume, ReadRow,
     SendAccepted, SendRefused, RecordOutcome, RecordRetry, TaskCount,
     TaskMark, ExpansionThrows, TickFails, AnswerLost, TaskFails, Crash,
     TakeJob, SkipJob, LeaseLapses
<1>4. \/ status' = status
      \/ \E w \in Workers : \/ CommitRows(w) \/ FailExhausted(w)
                            \/ ReadRow(w) \/ RecordOutcome(w)
  BY DEF Next, vars, rowVars, Cancel, Schedule, FindDue, ClaimCampaign, Plan,
     FinishExpansion, FailCampaign, EnqueueExpanded, SweepStranded,
     ListSending, SweepCount, SweepMark, Consume, SendAccepted, SendRefused,
     RecordRetry, TaskCount, TaskMark, ExpansionThrows, TickFails,
     AnswerLost, TaskFails, Crash, TakeJob, SkipJob, LeaseLapses
<1> QED
  BY <1>1, <1>2, <1>3, <1>4

\* What may make a cancelled campaign read anything else.
LEMMA CampaignShape ==
  ASSUME [Next]_vars, cancelled', campaign' # "CANCELLED"
  PROVE  /\ cancelled
         /\ \/ campaign # "CANCELLED"
            \/ \E w \in Workers : FailCampaign(w)
            \/ \E w \in Workers : FinishExpansion(w) /\ sched[w].rows = {}
<1>1. ASSUME NEW w \in Workers, Schedule(w)
      PROVE  \/ campaign' = campaign \/ campaign # "CANCELLED"
             \/ FailCampaign(w)
             \/ FinishExpansion(w) /\ sched[w].rows = {}
  BY <1>1 DEF Schedule, FindDue, ClaimCampaign, Plan, CommitRows,
     FinishExpansion, EnqueueExpanded, SweepStranded, FailExhausted,
     ListSending, SweepCount, SweepMark, CompletedStatus
<1>2. ASSUME NEW w \in Workers, Consume(w)
      PROVE  campaign' = campaign \/ campaign # "CANCELLED"
  BY <1>2 DEF Consume, ReadRow, SendAccepted, SendRefused, RecordOutcome,
     RecordRetry, TaskCount, TaskMark, CompletedStatus
<1>3. ~Cancel /\ cancelled' = cancelled
  BY DEF Next, vars, Cancel, Schedule, FindDue, ClaimCampaign, Plan,
     CommitRows, FinishExpansion, FailCampaign, EnqueueExpanded,
     SweepStranded, FailExhausted, ListSending, SweepCount, SweepMark,
     Consume, ReadRow, SendAccepted, SendRefused, RecordOutcome, RecordRetry,
     TaskCount, TaskMark, ExpansionThrows, TickFails, AnswerLost, TaskFails,
     Crash, TakeJob, SkipJob, LeaseLapses
<1>4. \/ campaign' = campaign
      \/ \E w \in Workers : Schedule(w) \/ Consume(w)
  BY <1>3 DEF Next, vars, ExpansionThrows, TickFails, AnswerLost, TaskFails,
     Crash, TakeJob, SkipJob, LeaseLapses
<1> QED
  BY <1>1, <1>2, <1>3, <1>4

\* An expanded campaign is not expanded again.
LEMMA NoMoreRows ==
  ASSUME ExpansionInv, expanded > 0 PROVE \A v \in Workers : ~CommitRows(v)
<1> SUFFICES ASSUME NEW v \in Workers, CommitRows(v) PROVE FALSE
  OBVIOUS
<1>1. Expanding(v)
  BY DEF CommitRows, Expanding
<1>2. expanded = 0
  BY <1>1 DEF ExpansionInv
<1> QED
  BY <1>2

LEMMA CancelStep ==
  ASSUME ExpansionInv, TypeOK', MailInv, CancelInv, [Next]_vars
  PROVE  CancelInv'
<1> USE DEF CancelInv
<1>1. TypeOK /\ (faults' = 0 => faults = 0) /\ (faults > 0 => faults' > 0)
  BY FaultsGrow, Numbers DEF ExpansionInv, TypeOK
<1>2. AtWorkOnRow'
  BY <1>1, TaskShape DEF AtWorkOnRow, HeldPC
<1>3. FailPaidFor'
  <2> SUFFICES ASSUME NEW w \in Workers, sched'[w].pc = "fail"
               PROVE  faults' > 0
    BY DEF FailPaidFor
  <2>1. CASE sched'[w] = sched[w]
    BY <1>1, <2>1 DEF FailPaidFor
  <2>2. CASE ExpansionThrows(w)
    BY <1>1, <2>2, Numbers, BoundsAssumption DEF ExpansionThrows, TypeOK
  <2>3. CASE CommitRows(w)
    BY <1>1, <2>3 DEF CommitRows, Goes, TypeOK, Sched
  <2> QED
    BY <1>1, <2>1, <2>2, <2>3, SchedShape
<1>4. FinishKnowsRows'
  <2> SUFFICES ASSUME NEW w \in Workers, sched'[w].pc = "finish"
               PROVE  /\ expanded' > 0
                      /\ \A d \in Rows : status'[d] # "ABSENT"
                                           => d \in sched'[w].rows
    BY DEF FinishKnowsRows
  <2>1. CASE CommitRows(w)
    <3>1. expanded = 0 /\ expanded' = 1 /\ sched'[w].rows = sched[w].rows
      BY <2>1 DEF CommitRows, Goes, ExpansionInv, Expanding, TypeOK, Sched
    <3>2. \A d \in Rows : status[d] = "ABSENT"
      BY <3>1 DEF MailInv, PaidFor
    <3> QED
      BY <2>1, <3>1, <3>2 DEF CommitRows
  <2>2. CASE sched'[w] = sched[w] /\ ~CommitRows(w)
    <3>1. expanded > 0 /\ \A d \in Rows : status[d] # "ABSENT"
                                            => d \in sched[w].rows
      BY <2>2 DEF FinishKnowsRows
    <3>2. \A v \in Workers : ~CommitRows(v)
      BY <3>1, NoMoreRows
    <3> QED
      BY <1>1, <2>2, <3>1, <3>2, RowShape
  <2>3. CASE ExpansionThrows(w)
    BY <1>1, <2>3 DEF ExpansionThrows, TypeOK
  <2> QED
    BY <1>1, <2>1, <2>2, <2>3, SchedShape
<1>5. CancelSeen'
  <2> SUFFICES ASSUME faults' = 0, cancelled', campaign' # "CANCELLED"
               PROVE  /\ expanded' > 0
                      /\ \A d \in Rows : status'[d] = "ABSENT"
    BY DEF CancelSeen
  <2>1. faults = 0 /\ cancelled
    BY <1>1, CampaignShape
  <2>2. ~\E w \in Workers : FailCampaign(w)
    BY <2>1 DEF FailCampaign, FailPaidFor
  <2>3. expanded > 0 /\ \A d \in Rows : status[d] = "ABSENT"
    <3>1. CASE campaign # "CANCELLED"
      BY <2>1, <3>1 DEF CancelSeen
    <3>2. ASSUME NEW w \in Workers, FinishExpansion(w), sched[w].rows = {}
          PROVE  expanded > 0 /\ \A d \in Rows : status[d] = "ABSENT"
      BY <3>2 DEF FinishExpansion, FinishKnowsRows
    <3> QED
      BY <2>2, <3>1, <3>2, CampaignShape
  <2>4. \A v \in Workers : ~CommitRows(v)
    BY <2>3, NoMoreRows
  <2> QED
    BY <1>1, <2>3, <2>4, RowShape
<1>6. CancelStops'
  <2> SUFFICES ASSUME faults' = 0, NEW w \in Workers, task'[w].pc = "send"
               PROVE  task'[w].early
    BY DEF CancelStops
  <2>1. CASE task'[w] = task[w]
    BY <1>1, <2>1 DEF CancelStops
  <2>2. CASE /\ task[w].pc = "read" /\ campaign # "CANCELLED"
             /\ task'[w].early = ~cancelled
    <3>1. Holds(w, task[w].row) /\ task[w].row \in Rows
      BY <2>2 DEF Holds, AtWorkOnRow, HeldPC
    <3>2. status[task[w].row] = "PENDING"
      BY <3>1 DEF MailInv, HeldOnce
    <3>3. ~cancelled
      BY <1>1, <2>2, <3>1, <3>2 DEF CancelSeen
    <3> QED
      BY <2>2, <3>3
  <2> QED
    BY <1>1, <2>1, <2>2, TaskShape
<1> QED
  BY <1>2, <1>3, <1>4, <1>5, <1>6

LEMMA CancelHolds == Spec => []CancelInv
<1>1. Init => CancelInv
  BY DEF Init, CancelInv, AtWorkOnRow, FailPaidFor, FinishKnowsRows,
     CancelSeen, CancelStops, Idle, Tick, HeldPC
<1>2. ExpansionInv /\ TypeOK' /\ MailInv /\ CancelInv /\ [Next]_vars
        => CancelInv'
  BY CancelStep
<1> QED
  BY ExpansionHolds, MailHolds, TypeCorrect, <1>1, <1>2, PTL DEF Spec

\* Whenever the administrator cancels, and whatever the loops are doing then:
\* without faults, no attempt that reads its campaign afterwards sends.
THEOREM CancelledStops == Spec => []CancelStops
<1>1. CancelInv => CancelStops
  BY DEF CancelInv
<1> QED
  BY CancelHolds, <1>1, PTL

-----------------------------------------------------------------------------
(* Completion.  completeCampaignIfDone counts the pending rows and writes  *)
(* SENT in two steps, and counts the same nothing before the expansion as  *)
(* after the last delivery.  A consumer that counts has had a row, so the  *)
(* expansion is over.  A sweep counts between two expansions of its own    *)
(* worker; that no other worker is in the middle of one is the hypothesis. *)

CompleteInv ==
  /\ campaign = "SENT" => NonePending /\ \A w \in Workers : ~Expanding(w)
  /\ \A w \in Workers : /\ task[w].pc # "idle" => expanded > 0
                        /\ task[w].pc = "mark" => NonePending
                        /\ sched[w].pc = "mark" => NonePending

\* Only the expansion makes a row PENDING.
LEMMA PendingShape ==
  ASSUME TypeOK, [Next]_vars
  PROVE  \/ \E w \in Workers : CommitRows(w)
         \/ \A d \in Rows : status'[d] = "PENDING" => status[d] = "PENDING"
<1>1. ASSUME NEW w \in Workers, ReadRow(w) \/ RecordOutcome(w)
      PROVE  \A d \in Rows : status'[d] = "PENDING" => status[d] = "PENDING"
  BY <1>1 DEF ReadRow, RecordOutcome, TypeOK
<1>2. ASSUME NEW w \in Workers, FailExhausted(w)
      PROVE  \A d \in Rows : status'[d] = "PENDING" => status[d] = "PENDING"
  BY <1>2 DEF FailExhausted
<1>3. \/ status' = status
      \/ \E w \in Workers : \/ CommitRows(w) \/ FailExhausted(w)
                            \/ ReadRow(w) \/ RecordOutcome(w)
  BY DEF Next, vars, rowVars, Cancel, Schedule, FindDue, ClaimCampaign, Plan,
     FinishExpansion, FailCampaign, EnqueueExpanded, SweepStranded,
     ListSending, SweepCount, SweepMark, Consume, SendAccepted, SendRefused,
     RecordRetry, TaskCount, TaskMark, ExpansionThrows, TickFails,
     AnswerLost, TaskFails, Crash, TakeJob, SkipJob, LeaseLapses
<1> QED
  BY <1>1, <1>2, <1>3

\* How a scheduler comes to mark a campaign, or to expand it.
LEMMA MarkShape ==
  ASSUME TypeOK, [Next]_vars, NEW w \in Workers,
         sched'[w].pc \in {"mark", "plan", "commit"}
  PROVE  \/ sched'[w] = sched[w]
         \/ sched[w].pc = "count" /\ sched'[w].pc = "mark" /\ NonePending
         \/ sched'[w].pc = "plan" /\ campaign' = "SENDING"
         \/ sched[w].pc = "plan" /\ sched'[w].pc = "commit"
<1>1. ASSUME NEW v \in Workers, Schedule(v), v # w
      PROVE  sched'[w] = sched[w]
  BY <1>1 DEF Schedule, FindDue, ClaimCampaign, Plan, CommitRows,
     FinishExpansion, FailCampaign, EnqueueExpanded, SweepStranded,
     FailExhausted, ListSending, SweepCount, SweepMark, Goes, TypeOK
<1>2. CASE SweepCount(w)
  BY <1>2 DEF SweepCount, Goes, TypeOK, Sched
<1>3. CASE ClaimCampaign(w)
  BY <1>3 DEF ClaimCampaign, Goes, TypeOK, Sched
<1>4. ASSUME NEW recipients \in SUBSET Rows, Plan(w, recipients)
      PROVE  sched[w].pc = "plan" /\ sched'[w].pc = "commit"
  BY <1>4 DEF Plan, TypeOK
<1>5. ~FindDue(w) /\ ~CommitRows(w) /\ ~FinishExpansion(w) /\ ~FailCampaign(w)
      /\ ~EnqueueExpanded(w)
  BY DEF FindDue, CommitRows, FinishExpansion, FailCampaign, EnqueueExpanded,
     Goes, TypeOK, Sched
<1>6. ~SweepStranded(w) /\ ~FailExhausted(w) /\ ~ListSending(w) /\ ~SweepMark(w)
  BY DEF SweepStranded, FailExhausted, ListSending, SweepMark, Goes, TypeOK,
     Sched
<1>7. ASSUME NEW v \in Workers, ExpansionThrows(v) \/ TickFails(v) \/ Crash(v)
      PROVE  sched'[w] = sched[w]
  BY <1>7 DEF ExpansionThrows, TickFails, Crash, Tick, TypeOK
<1>8. ASSUME NEW v \in Workers, Consume(v) PROVE sched' = sched
  BY <1>8 DEF Consume, ReadRow, SendAccepted, SendRefused, RecordOutcome,
     RecordRetry, TaskCount, TaskMark
<1>9. CASE \/ Cancel \/ UNCHANGED vars
           \/ \E v \in Workers : AnswerLost(v) \/ TaskFails(v)
           \/ \E v \in Workers, d \in Rows : TakeJob(v, d) \/ SkipJob(v, d)
           \/ \E d \in Rows : LeaseLapses(d)
  BY <1>9 DEF Cancel, vars, AnswerLost, TaskFails, TakeJob, SkipJob, LeaseLapses
<1>10. ASSUME NEW v \in Workers, Schedule(v)
       PROVE  \/ sched'[w] = sched[w]
              \/ sched[w].pc = "count" /\ sched'[w].pc = "mark" /\ NonePending
              \/ sched'[w].pc = "plan" /\ campaign' = "SENDING"
              \/ sched[w].pc = "plan" /\ sched'[w].pc = "commit"
  BY <1>1, <1>2, <1>3, <1>4, <1>5, <1>6, <1>10 DEF Schedule
<1> QED
  BY <1>7, <1>8, <1>9, <1>10 DEF Next

\* How a consumer comes to be busy, and to mark the campaign.
LEMMA BusyShape ==
  ASSUME TypeOK, MailInv, [Next]_vars, NEW w \in Workers
  PROVE  /\ task'[w].pc # "idle"
              => task[w].pc # "idle" \/ \E d \in Rows : status[d] = "PENDING"
         /\ task'[w].pc = "mark" =>
              task[w].pc = "mark" \/ (task[w].pc # "idle" /\ NonePending)
<1>1. CASE task'[w] = task[w]
  BY <1>1
<1>2. CASE ReadRow(w) \/ SendAccepted(w) \/ AnswerLost(w)
           \/ \E permanent \in BOOLEAN : SendRefused(w, permanent)
  BY <1>2 DEF ReadRow, SendAccepted, AnswerLost, SendRefused, AfterError,
     TypeOK, Task, Idle
<1>3. CASE RecordOutcome(w) \/ RecordRetry(w) \/ TaskCount(w) \/ TaskMark(w)
  BY <1>3 DEF RecordOutcome, RecordRetry, TaskCount, TaskMark, TypeOK, Task,
     Idle
<1>4. CASE TaskFails(w) \/ Crash(w)
  BY <1>4 DEF AnswerLost, TaskFails, Crash, TypeOK, Idle
<1>5. ASSUME NEW d \in Rows, TakeJob(w, d)
      PROVE  task'[w].pc = "read" /\ status[d] = "PENDING"
  BY <1>5 DEF TakeJob, Claimable, TypeOK, Idle
<1>6. ASSUME NEW v \in Workers, v # w,
             \/ Consume(v) \/ AnswerLost(v) \/ TaskFails(v) \/ Crash(v)
             \/ \E d \in Rows : TakeJob(v, d)
      PROVE  task'[w] = task[w]
  BY <1>6 DEF Consume, ReadRow, SendAccepted, SendRefused, AfterError,
     RecordOutcome, RecordRetry, TaskCount, TaskMark, AnswerLost, TaskFails,
     Crash, TakeJob, TypeOK
<1>7. CASE \/ Cancel \/ UNCHANGED vars
           \/ \E v \in Workers : \/ Schedule(v) \/ ExpansionThrows(v)
                                 \/ TickFails(v)
           \/ \E v \in Workers, d \in Rows : SkipJob(v, d)
           \/ \E d \in Rows : LeaseLapses(d)
  <2>1. task' = task
    BY <1>7 DEF Cancel, vars, Schedule, FindDue, ClaimCampaign, Plan,
       CommitRows, FinishExpansion, FailCampaign, EnqueueExpanded,
       SweepStranded, FailExhausted, ListSending, SweepCount, SweepMark,
       ExpansionThrows, TickFails, SkipJob, LeaseLapses
  <2> QED
    BY <2>1, <1>1
<1>8. CASE \E d \in Rows : TakeJob(w, d)
  BY <1>5, <1>8
<1>9. CASE Consume(w)
  BY <1>2, <1>3, <1>9 DEF Consume
<1>10. ASSUME NEW v \in Workers,
              \/ Consume(v) \/ AnswerLost(v) \/ TaskFails(v) \/ Crash(v)
              \/ \E d \in Rows : TakeJob(v, d)
       PROVE  v = w \/ task'[w] = task[w]
  BY <1>6, <1>10
<1>11. CASE AnswerLost(w)
  BY <1>2, <1>11
<1> QED
  BY <1>1, <1>4, <1>7, <1>8, <1>9, <1>10, <1>11 DEF Next

\* What makes a campaign read SENT.
LEMMA SentShape ==
  ASSUME [Next]_vars, campaign' = "SENT", campaign # "SENT"
  PROVE  \E w \in Workers : \/ SweepMark(w) \/ TaskMark(w)
                            \/ FinishExpansion(w) /\ sched[w].rows = {}
<1>1. ASSUME NEW w \in Workers, Schedule(w)
      PROVE  SweepMark(w) \/ (FinishExpansion(w) /\ sched[w].rows = {})
  BY <1>1 DEF Schedule, FindDue, ClaimCampaign, Plan, CommitRows,
     FinishExpansion, FailCampaign, EnqueueExpanded, SweepStranded,
     FailExhausted, ListSending, SweepCount
<1>2. ASSUME NEW w \in Workers, Consume(w) PROVE TaskMark(w)
  BY <1>2 DEF Consume, ReadRow, SendAccepted, SendRefused, RecordOutcome,
     RecordRetry, TaskCount
<1>3. \E w \in Workers : Schedule(w) \/ Consume(w)
  BY DEF Next, vars, Cancel, ExpansionThrows, TickFails, AnswerLost,
     TaskFails, Crash, TakeJob, SkipJob, LeaseLapses
<1> QED
  BY <1>1, <1>2, <1>3

\* One step, of the only worker or of its environment.
LEMMA CompleteStep ==
  ASSUME \A v, w \in Workers : v = w,
         ExpansionInv, TypeOK', MailInv, CancelInv, CompleteInv, [Next]_vars
  PROVE  CompleteInv'
<1>1. /\ TypeOK /\ expanded \in Nat /\ AtWorkOnRow /\ FinishKnowsRows
      /\ expanded > 0 => \A v \in Workers : ~Expanding(v) /\ ~CommitRows(v)
  BY NoMoreRows DEF ExpansionInv, TypeOK, CancelInv
<1>2. ASSUME NonePending, \A v \in Workers : ~CommitRows(v)
      PROVE  NonePending'
  BY <1>1, <1>2, PendingShape DEF NonePending
<1>3. ASSUME campaign' = "SENT"
      PROVE  NonePending' /\ \A w \in Workers : ~Expanding(w)'
  <2>1. CASE campaign = "SENT"
    <3>1. \A w \in Workers : ~Expanding(w) /\ ~CommitRows(w)
      BY <2>1 DEF CompleteInv, CommitRows, Expanding
    <3>2. \A w \in Workers : ~Expanding(w)'
      BY <1>1, <1>3, <3>1, MarkShape DEF Expanding
    <3> QED
      BY <1>2, <2>1, <3>1, <3>2 DEF CompleteInv
  <2>2. ASSUME NEW w \in Workers, SweepMark(w)
        PROVE  NonePending' /\ ~Expanding(w)'
    BY <1>1, <2>2 DEF SweepMark, Goes, rowVars, NonePending, CompleteInv,
       Expanding, TypeOK, Sched
  <2>3. ASSUME NEW w \in Workers, TaskMark(w)
        PROVE  NonePending' /\ ~Expanding(w)'
    BY <1>1, <2>3 DEF TaskMark, rowVars, NonePending, CompleteInv, Expanding
  <2>4. ASSUME NEW w \in Workers, FinishExpansion(w), sched[w].rows = {}
        PROVE  NonePending' /\ ~Expanding(w)'
    BY <1>1, <2>4 DEF FinishExpansion, Goes, rowVars, NonePending, Expanding,
       FinishKnowsRows, TypeOK, Sched
  <2> QED
    BY <1>3, <2>1, <2>2, <2>3, <2>4, SentShape
<1>4. ASSUME NEW w \in Workers, task'[w].pc # "idle" PROVE expanded' > 0
  <2>1. expanded > 0
    BY <1>1, <1>4, BusyShape DEF CompleteInv, MailInv, PaidFor
  <2> QED
    BY <1>1, <2>1, RowShape
<1>5. ASSUME NEW w \in Workers, task'[w].pc = "mark" PROVE NonePending'
  BY <1>1, <1>2, <1>5, BusyShape DEF CompleteInv
<1>6. ASSUME NEW w \in Workers, sched'[w].pc = "mark" PROVE NonePending'
  <2>1. NonePending /\ sched[w].pc \in {"count", "mark"}
    BY <1>1, <1>6, MarkShape DEF CompleteInv
  <2>2. \A v \in Workers : ~CommitRows(v)
    BY <2>1 DEF CommitRows
  <2> QED
    BY <1>2, <2>1, <2>2
<1> QED
  BY <1>3, <1>4, <1>5, <1>6 DEF CompleteInv

LEMMA CompleteHolds ==
  ASSUME \A v, w \in Workers : v = w
  PROVE  Spec => []CompleteInv
<1>1. Init => CompleteInv
  BY DEF Init, CompleteInv, Idle, Tick
<1>2. ExpansionInv /\ TypeOK' /\ MailInv /\ CancelInv /\ CompleteInv
        /\ [Next]_vars => CompleteInv'
  BY CompleteStep
<1> QED
  BY ExpansionHolds, MailHolds, CancelHolds, TypeCorrect, <1>1, <1>2,
     PTL DEF Spec

\* With one worker, a campaign shown as SENT has no recipient still pending,
\* however the consumer, the sweep, the administrator and the crashes follow
\* one another: the count of completeCampaignIfDone is still true when SENT is
\* written, and no row turns PENDING afterwards.
THEOREM SentIsComplete ==
  ASSUME \A v, w \in Workers : v = w
  PROVE  Spec => []SentLeavesNonePending
<1>1. CompleteInv => SentLeavesNonePending
  BY DEF CompleteInv, SentLeavesNonePending
<1> QED
  BY CompleteHolds, <1>1, PTL

-----------------------------------------------------------------------------
(* What the sweep mistakes for completion: a campaign that is SENDING and  *)
(* has no rows is being expanded.  With one worker that runs through, the  *)
(* sweep never meets one; a second worker, or a crash of the only one in   *)
(* the middle of its expansion, is what SentMeansExpanded fails for.       *)

WorkedInv ==
  /\ SentMeansExpanded
  /\ campaign = "SENDING" => expanded > 0 \/ \E w \in Workers : Expanding(w)

\* A worker that expands goes on to the commit.
LEMMA ExpansionGoesOn ==
  ASSUME MaxFaults = 0, ExpansionInv, [Next]_vars, NEW w \in Workers,
         Expanding(w)
  PROVE  Expanding(w)' \/ expanded' > 0
<1>1. TypeOK /\ faults = 0 /\ expanded \in Nat
  BY DEF ExpansionInv, TypeOK
<1>2. CASE CommitRows(w)
  BY <1>1, <1>2 DEF CommitRows
<1>3. ASSUME NEW recipients \in SUBSET Rows, Plan(w, recipients)
      PROVE  Expanding(w)'
  BY <1>1, <1>3 DEF Plan, Expanding, TypeOK
<1>4. ASSUME NEW v \in Workers, Schedule(v), v # w
      PROVE  sched'[w] = sched[w]
  BY <1>1, <1>4 DEF Schedule, FindDue, ClaimCampaign, Plan, CommitRows,
     FinishExpansion, FailCampaign, EnqueueExpanded, SweepStranded,
     FailExhausted, ListSending, SweepCount, SweepMark, Goes, TypeOK
<1>5. Schedule(w) => \/ CommitRows(w)
                     \/ \E recipients \in SUBSET Rows : Plan(w, recipients)
  BY DEF Expanding, Schedule, FindDue, ClaimCampaign, FinishExpansion,
     FailCampaign, EnqueueExpanded, SweepStranded, FailExhausted, ListSending,
     SweepCount, SweepMark
<1>6. ASSUME NEW v \in Workers
      PROVE  /\ ~ExpansionThrows(v) /\ ~TickFails(v) /\ ~TaskFails(v)
             /\ ~AnswerLost(v) /\ ~Crash(v)
  BY <1>1 DEF ExpansionThrows, TickFails, AnswerLost, TaskFails, Crash
<1>7. ASSUME NEW v \in Workers, Consume(v) PROVE sched' = sched
  BY <1>7 DEF Consume, ReadRow, SendAccepted, SendRefused, RecordOutcome,
     RecordRetry, TaskCount, TaskMark
<1>8. CASE \/ Cancel \/ UNCHANGED vars
           \/ \E v \in Workers, d \in Rows : TakeJob(v, d) \/ SkipJob(v, d)
           \/ \E d \in Rows : LeaseLapses(d)
  BY <1>8 DEF Cancel, vars, TakeJob, SkipJob, LeaseLapses, Expanding
<1>9. CASE sched'[w] = sched[w]
  BY <1>9 DEF Expanding
<1>10. CASE \E v \in Workers : Schedule(v)
  BY <1>2, <1>3, <1>4, <1>5, <1>9, <1>10
<1>11. CASE \E v \in Workers : Consume(v)
  BY <1>7, <1>9, <1>11
<1> QED
  BY <1>6, <1>8, <1>10, <1>11 DEF Next

\* Only the claim makes a campaign SENDING.
LEMMA SendingShape ==
  ASSUME TypeOK, [Next]_vars, campaign' = "SENDING", campaign # "SENDING"
  PROVE  \E w \in Workers : Expanding(w)'
<1>1. ASSUME NEW w \in Workers, Schedule(w) PROVE ClaimCampaign(w)
  BY <1>1 DEF Schedule, FindDue, Plan, CommitRows, FinishExpansion,
     FailCampaign, EnqueueExpanded, SweepStranded, FailExhausted, ListSending,
     SweepCount, SweepMark, CompletedStatus
<1>2. ASSUME NEW w \in Workers, Consume(w) PROVE FALSE
  BY <1>2 DEF Consume, ReadRow, SendAccepted, SendRefused, RecordOutcome,
     RecordRetry, TaskCount, TaskMark, CompletedStatus
<1>3. \E w \in Workers : Schedule(w) \/ Consume(w)
  BY DEF Next, vars, Cancel, ExpansionThrows, TickFails, AnswerLost,
     TaskFails, Crash, TakeJob, SkipJob, LeaseLapses
<1>4. ASSUME NEW w \in Workers, ClaimCampaign(w) PROVE Expanding(w)'
  BY <1>4 DEF ClaimCampaign, Goes, TypeOK, Sched, Expanding
<1> QED
  BY <1>1, <1>2, <1>3, <1>4

LEMMA WorkedStep ==
  ASSUME \A v, w \in Workers : v = w, MaxFaults = 0,
         ExpansionInv, MailInv, CancelInv, CompleteInv, WorkedInv, [Next]_vars
  PROVE  WorkedInv'
<1>1. /\ TypeOK /\ expanded \in Nat /\ AtWorkOnRow /\ FinishKnowsRows
  BY DEF ExpansionInv, TypeOK, CancelInv
<1>2. expanded > 0 => expanded' > 0
  <2>1. ASSUME NEW w \in Workers, CommitRows(w) PROVE expanded' = expanded + 1
    BY <2>1 DEF CommitRows
  <2> QED
    BY <1>1, <2>1, RowShape
<1>3. ASSUME campaign' = "SENT" PROVE expanded' > 0
  <2>1. CASE campaign = "SENT"
    BY <1>2, <2>1 DEF WorkedInv, SentMeansExpanded
  <2>2. ASSUME NEW w \in Workers, SweepMark(w), campaign # "SENT"
        PROVE  expanded > 0
    <3>1. campaign = "SENDING"
      BY <1>3, <2>2 DEF SweepMark, CompletedStatus
    <3>2. ~Expanding(w)
      BY <2>2 DEF SweepMark, Expanding
    <3> QED
      BY <3>1, <3>2 DEF WorkedInv
  <2>3. ASSUME NEW w \in Workers, TaskMark(w) PROVE expanded > 0
    BY <2>3 DEF TaskMark, CompleteInv
  <2>4. ASSUME NEW w \in Workers, FinishExpansion(w) PROVE expanded > 0
    BY <1>1, <2>4 DEF FinishExpansion, FinishKnowsRows
  <2> QED
    BY <1>2, <1>3, <2>1, <2>2, <2>3, <2>4, SentShape
<1>4. ASSUME campaign' = "SENDING"
      PROVE  expanded' > 0 \/ \E w \in Workers : Expanding(w)'
  <2>1. CASE campaign = "SENDING"
    BY <1>2, <2>1, ExpansionGoesOn DEF WorkedInv
  <2> QED
    BY <1>1, <1>4, <2>1, SendingShape
<1> QED
  BY <1>3, <1>4 DEF WorkedInv, SentMeansExpanded

\* One worker that neither crashes nor meets an error shows no campaign as
\* SENT that it has not expanded: completeCampaignIfDone is right about the
\* campaigns that its own worker has expanded.
THEOREM SentIsExpanded ==
  ASSUME \A v, w \in Workers : v = w, MaxFaults = 0
  PROVE  Spec => []SentMeansExpanded
<1>1. Init => WorkedInv
  BY DEF Init, WorkedInv, SentMeansExpanded
<1>2. ExpansionInv /\ MailInv /\ CancelInv /\ CompleteInv /\ WorkedInv
        /\ [Next]_vars => WorkedInv'
  BY WorkedStep
<1>3. WorkedInv => SentMeansExpanded
  BY DEF WorkedInv
<1> QED
  BY ExpansionHolds, MailHolds, CancelHolds, CompleteHolds, <1>1, <1>2, <1>3,
     PTL DEF Spec
=============================================================================
