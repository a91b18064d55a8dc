------------------------ MODULE ConsentEmail_proofs ------------------------
(***************************************************************************)
(* Theorems about ConsentEmail for any rows, reviews, workers and bounds:  *)
(* its types, that a row is mailed once beyond the faults, and that the    *)
(* mirror in the audit record tells of the deliveries as they are.         *)
(***************************************************************************)
EXTENDS ConsentEmail, TLAPS

Counts == [Rows -> 0..MaxJobs]

-----------------------------------------------------------------------------
(* Types.                                                                  *)

\* One job more or less, and the jobs of a sweep, stay within the bound.
LEMMA QueueTypes ==
  ASSUME NEW q \in Counts, NEW d \in Rows
  PROVE  /\ Add(q, d) \in Counts
         /\ q[d] > 0 => [q EXCEPT ![d] = @ - 1] \in Counts
         /\ q[d] < MaxJobs => [q EXCEPT ![d] = @ + 1] \in Counts
BY BoundsAssumption DEF Add, Counts

LEMMA EnqueueAllType ==
  ASSUME ready \in Counts, NEW S PROVE EnqueueAll(S) \in Counts
BY BoundsAssumption DEF Counts, EnqueueAll

LEMMA FaultType ==
  ASSUME faults \in 0..MaxFaults, faults < MaxFaults, faults' = faults + 1
  PROVE  faults' \in 0..MaxFaults
BY BoundsAssumption

LEMMA RestingTypes == Idle \in Task /\ Idle.pc = "idle" /\ Resting \in Sweep
BY DEF Idle, Resting, Task, TaskPC, MirrorStatus, Sweep

\* A review that moves keeps its row.
LEMMA ReviewMoves ==
  ASSUME TypeOK, NEW h \in Reviews, NEW pc \in ReviewPC \ {"enqueue"},
         ReviewTo(h, pc)
  PROVE  /\ review' \in [Reviews -> Review]
         /\ \A g \in Reviews :
              review'[g].pc = "enqueue" => review'[g].row \in Rows
BY DEF TypeOK, ReviewTo, Review

LEMMA ReviewType ==
  ASSUME TypeOK, NEW h \in Reviews,
         \/ Decide(h) \/ CreateThrows(h) \/ EnqueueThrows(h) \/ ReviewDies(h)
  PROVE  TypeOK'
<1> USE DEF request, rowVars, queue
<1>1. /\ review' \in [Reviews -> Review]
      /\ \A g \in Reviews : review'[g].pc = "enqueue" => review'[g].row \in Rows
  <2>1. CASE ReadRequest(h)
    BY <2>1, ReviewMoves DEF ReadRequest, ReviewPC
  <2>2. CASE Reject(h) \/ EnqueueRow(h) \/ MarkNotQueued(h) \/ ReviewDies(h)
    BY <2>2, ReviewMoves
       DEF Reject, EnqueueRow, MarkNotQueued, ReviewDies, ReviewPC
  <2>3. CASE Approve(h)
    BY <2>3, ReviewMoves DEF Approve, ReviewPC
  <2>4. CASE CreateThrows(h) \/ EnqueueThrows(h)
    BY <2>4, ReviewMoves DEF CreateThrows, EnqueueThrows, ReviewPC
  <2>5. ASSUME NEW d \in Rows, CreateRow(h, d)
        PROVE  /\ review' \in [Reviews -> Review]
               /\ \A g \in Reviews : review'[g].pc = "enqueue"
                                       => review'[g].row \in Rows
    <3>1. review' = [review EXCEPT ![h] = [pc |-> "enqueue", row |-> d]]
      BY <2>5 DEF CreateRow
    <3>2. [pc |-> "enqueue", row |-> d] \in Review
      BY DEF Review, ReviewPC
    <3> QED
      BY <3>1, <3>2 DEF TypeOK
  <2> QED
    BY <2>1, <2>2, <2>3, <2>4, <2>5 DEF Decide
<1>2. decision' \in {"PENDING", "APPROVED", "REJECTED", "GONE"}
      /\ mirror' \in MirrorStatus
  BY DEF TypeOK, Decide, ReadRequest, Reject, Approve, CreateRow, EnqueueRow,
         MarkNotQueued, CreateThrows, EnqueueThrows, ReviewDies, MirrorStatus
<1>3. ready' \in Counts
  <2>1. CASE EnqueueRow(h)
    BY <2>1, QueueTypes DEF EnqueueRow, ReviewAt, TypeOK, Counts
  <2>2. CASE ~EnqueueRow(h)
    BY <2>2 DEF TypeOK, Counts, Decide, ReadRequest, Reject, Approve,
       CreateRow, MarkNotQueued, CreateThrows, EnqueueThrows, ReviewDies
  <2> QED
    BY <2>1, <2>2
<1>4. faults' \in 0..MaxFaults
  BY FaultType DEF TypeOK, Decide, ReadRequest, Reject, Approve, CreateRow,
     EnqueueRow, MarkNotQueued, CreateThrows, EnqueueThrows, ReviewDies
<1>5. status' \in [Rows -> RowStatus]
  BY DEF TypeOK, RowStatus, Decide, ReadRequest, Reject, Approve, CreateRow,
         EnqueueRow, MarkNotQueued, CreateThrows, EnqueueThrows, ReviewDies
<1>6. UNCHANGED <<attempts, claim, overdue, away, task, sweep, accepted>>
  BY DEF Decide, ReadRequest, Reject, Approve, CreateRow,
         EnqueueRow, MarkNotQueued, CreateThrows, EnqueueThrows, ReviewDies
<1> QED
  BY <1>1, <1>2, <1>3, <1>4, <1>5, <1>6 DEF TypeOK, Counts

LEMMA QueueType ==
  ASSUME TypeOK,
         \/ DeleteRequest
         \/ \E d \in Rows : \/ Return(d) \/ LoseJob(d) \/ LeaseLapses(d)
                            \/ TimePasses(d)
         \/ \E w \in Workers : VisibilityExpires(w)
  PROVE  TypeOK'
<1> USE DEF request, rowVars, queue
<1>1. CASE DeleteRequest
  BY <1>1 DEF DeleteRequest, TypeOK
<1>2. ASSUME NEW d \in Rows, Return(d) PROVE TypeOK'
  BY <1>2, QueueTypes DEF Return, TypeOK, Counts
<1>3. ASSUME NEW d \in Rows, LoseJob(d) PROVE TypeOK'
  BY <1>3, QueueTypes, FaultType DEF LoseJob, TypeOK, Counts
<1>4. ASSUME NEW d \in Rows, LeaseLapses(d) PROVE TypeOK'
  BY <1>4 DEF LeaseLapses, TypeOK
<1>5. ASSUME NEW d \in Rows, TimePasses(d) PROVE TypeOK'
  BY <1>5 DEF TimePasses, TypeOK
<1>6. ASSUME NEW w \in Workers, VisibilityExpires(w) PROVE TypeOK'
  <2>1. task[w].row \in Rows
    BY <1>6 DEF VisibilityExpires, TypeOK
  <2> QED
    BY <1>6, <2>1, QueueTypes DEF VisibilityExpires, TypeOK, Counts
<1> QED
  BY <1>1, <1>2, <1>3, <1>4, <1>5, <1>6

\* A consumer that goes to another place of its attempt keeps its row.
LEMMA TaskMoves ==
  ASSUME TypeOK, NEW w \in Workers, NEW t \in Task,
         task' = [task EXCEPT ![w] = t], t.pc # "idle" => t.row \in Rows
  PROVE  /\ task' \in [Workers -> Task]
         /\ \A v \in Workers : task'[v].pc # "idle" => task'[v].row \in Rows
BY DEF TypeOK

LEMMA ConsumeType ==
  ASSUME TypeOK, NEW w \in Workers,
         \/ Consume(w) \/ RenderThrows(w) \/ AnswerLost(w) \/ TaskFails(w)
         \/ \E d \in Rows : TakeJob(w, d) \/ SkipJob(w, d)
  PROVE  TypeOK'
<1> USE RestingTypes DEF request, rowVars, queue
<1>1. /\ task \in [Workers -> Task] /\ task[w] \in Task
      /\ task[w].pc # "idle" => task[w].row \in Rows
  BY DEF TypeOK
<1>2. ASSUME NEW pc \in TaskPC, task[w].pc # "idle"
      PROVE  /\ [task[w] EXCEPT !.pc = pc] \in Task
             /\ [task[w] EXCEPT !.pc = pc].row \in Rows
  BY <1>1, <1>2 DEF Task
<1>3. ASSUME NEW d \in Rows, TakeJob(w, d) PROVE TypeOK'
  <2> DEFINE t == [Idle EXCEPT !.pc = "render", !.row = d,
                               !.tries = attempts[d] + 1]
  <2>1. attempts \in [Rows -> Nat] /\ attempts[d] + 1 \in Nat
    BY DEF TypeOK
  <2>2. t \in Task /\ t.row \in Rows
    BY <2>1 DEF Task, TaskPC
  <2>3. task' = [task EXCEPT ![w] = t]
    BY <1>3 DEF TakeJob
  <2>4. attempts' = [attempts EXCEPT ![d] = @ + 1]
    BY <1>3 DEF TakeJob
  <2>5. attempts' \in [Rows -> Nat]
    BY <2>1, <2>4
  <2>6. claim' \in [Rows -> {"none", "live", "lapsed"}]
    <3>1. claim' = [claim EXCEPT ![d] = "live"]
      BY <1>3 DEF TakeJob
    <3> QED
      BY <3>1 DEF TypeOK
  <2>7. ready' \in Counts
    <3>1. ready' = [ready EXCEPT ![d] = @ - 1] /\ ready[d] > 0
      BY <1>3 DEF TakeJob
    <3> QED
      BY <3>1, QueueTypes DEF TypeOK, Counts
  <2>8. UNCHANGED <<decision, mirror, review, status, overdue, away, sweep,
                    accepted, faults>>
    BY <1>3 DEF TakeJob
  <2>9. /\ task' \in [Workers -> Task]
        /\ \A v \in Workers : task'[v].pc # "idle" => task'[v].row \in Rows
    BY <2>2, <2>3, TaskMoves
  <2> QED
    BY <2>5, <2>6, <2>7, <2>8, <2>9 DEF TypeOK, Counts
<1>4. ASSUME NEW d \in Rows, SkipJob(w, d) PROVE TypeOK'
  BY <1>4, QueueTypes DEF SkipJob, TypeOK, Counts
<1>5. CASE Render(w) \/ RenderThrows(w)
  <2>1. PICK pc \in TaskPC : task' = [task EXCEPT ![w] = [@ EXCEPT !.pc = pc]]
    BY <1>5 DEF Render, RenderThrows, TaskPC
  <2>2. /\ task' \in [Workers -> Task]
        /\ \A v \in Workers : task'[v].pc # "idle" => task'[v].row \in Rows
    BY <1>2, <1>5, <2>1, TaskMoves DEF Render, RenderThrows
  <2> QED
    BY <1>5, <2>2, FaultType DEF Render, RenderThrows, TypeOK
<1>6. CASE SendAccepted(w)
  <2>1. task' = [task EXCEPT ![w] = [@ EXCEPT !.pc = "sent"]]
    BY <1>6 DEF SendAccepted
  <2>2. /\ task' \in [Workers -> Task]
        /\ \A v \in Workers : task'[v].pc # "idle" => task'[v].row \in Rows
    BY <1>2, <1>6, <2>1, TaskMoves DEF SendAccepted, TaskPC
  <2> QED
    BY <1>6, <2>2 DEF SendAccepted, TypeOK
<1>7. ASSUME NEW permanent \in BOOLEAN, SendRefused(w, permanent)
      PROVE  TypeOK'
  <2>1. PICK pc \in TaskPC : task' = [task EXCEPT ![w] = [@ EXCEPT !.pc = pc]]
    BY <1>7 DEF SendRefused, TaskPC
  <2>2. /\ task' \in [Workers -> Task]
        /\ \A v \in Workers : task'[v].pc # "idle" => task'[v].row \in Rows
    BY <1>2, <1>7, <2>1, TaskMoves DEF SendRefused
  <2> QED
    BY <1>7, <2>2 DEF SendRefused, TypeOK
<1>11. CASE AnswerLost(w)
  <2>1. PICK pc \in TaskPC : task' = [task EXCEPT ![w] = [@ EXCEPT !.pc = pc]]
    BY <1>11 DEF AnswerLost, TaskPC
  <2>2. /\ task' \in [Workers -> Task]
        /\ \A v \in Workers : task'[v].pc # "idle" => task'[v].row \in Rows
    BY <1>2, <1>11, <2>1, TaskMoves DEF AnswerLost
  <2>3. accepted' \in [Rows -> Nat]
    BY <1>11 DEF AnswerLost, TypeOK
  <2> QED
    BY <1>11, <2>2, <2>3, FaultType DEF AnswerLost, TypeOK
<1>8. CASE RecordOutcome(w)
  <2> DEFINE pc == task[w].pc
             s == StatusAfter(pc)
             t == IF pc = "gone" THEN Idle
                  ELSE [task[w] EXCEPT !.pc = "mirror", !.outcome = s]
  <2>1. s \in MirrorStatus /\ (pc # "putOff" => s \in RowStatus)
    BY DEF StatusAfter, MirrorStatus, RowStatus
  <2>2. t \in Task /\ (t.pc # "idle" => t.row \in Rows)
    BY <1>1, <1>8, <2>1 DEF RecordOutcome, Task, TaskPC
  <2>3. task' = [task EXCEPT ![w] = t]
    BY <1>8 DEF RecordOutcome
  <2>4. /\ status' \in [Rows -> RowStatus] /\ overdue' \in [Rows -> BOOLEAN]
        /\ claim' \in [Rows -> {"none", "live", "lapsed"}]
    BY <1>8, <2>1 DEF RecordOutcome, TypeOK
  <2>5. UNCHANGED <<request, review, attempts, queue, sweep, accepted, faults>>
    BY <1>8 DEF RecordOutcome
  <2> HIDE DEF t
  <2>6. /\ task' \in [Workers -> Task]
        /\ \A v \in Workers : task'[v].pc # "idle" => task'[v].row \in Rows
    BY <2>2, <2>3, TaskMoves
  <2> QED
    BY <2>4, <2>5, <2>6 DEF TypeOK
<1>9. CASE WriteMirror(w)
  <2>1. away' \in Counts /\ mirror' \in MirrorStatus
    BY <1>1, <1>9, QueueTypes DEF WriteMirror, Audit, TypeOK, Task, Counts
  <2> QED
    BY <1>9, <2>1, TaskMoves DEF WriteMirror, TypeOK, Counts
<1>10. CASE TaskFails(w)
  <2>1. away' \in Counts
    BY <1>1, <1>10, QueueTypes DEF TaskFails, TypeOK, Counts
  <2> QED
    BY <1>10, <2>1, TaskMoves, FaultType DEF TaskFails, TypeOK, Counts
<1> QED
  BY <1>3, <1>4, <1>5, <1>6, <1>7, <1>8, <1>9, <1>10, <1>11 DEF Consume

LEMMA SweepType ==
  ASSUME TypeOK, NEW w \in Workers, SweepStep(w) \/ SweepFails(w)
  PROVE  TypeOK'
<1> USE RestingTypes DEF request, rowVars, queue
<1>1. /\ sweep \in [Workers -> Sweep] /\ sweep[w].rows \in SUBSET Rows
      /\ [sweep[w] EXCEPT !.pc = "stuck"] \in Sweep
      /\ [sweep[w] EXCEPT !.pc = "mirror"] \in Sweep
      /\ [pc |-> "close", rows |-> Stuck] \in Sweep
  BY DEF TypeOK, Sweep, Stuck
<1>2. CASE SweepStranded(w)
  BY <1>1, <1>2, EnqueueAllType DEF SweepStranded, TypeOK, Counts
<1>3. CASE SweepStuck(w)
  BY <1>1, <1>3 DEF SweepStuck, TypeOK
<1>4. CASE CloseStuck(w)
  BY <1>1, <1>4 DEF CloseStuck, TypeOK, RowStatus
<1>5. CASE MirrorClosed(w)
  BY <1>1, <1>5 DEF MirrorClosed, Audit, TypeOK, MirrorStatus
<1>6. CASE SweepFails(w)
  BY <1>1, <1>6, FaultType DEF SweepFails, TypeOK
<1> QED
  BY <1>2, <1>3, <1>4, <1>5, <1>6 DEF SweepStep

LEMMA InitType == Init => TypeOK
<1> SUFFICES ASSUME Init PROVE TypeOK
  OBVIOUS
<1> USE RestingTypes, BoundsAssumption DEF Init
<1>1. /\ review \in [Reviews -> Review]
      /\ \A h \in Reviews : review[h].pc = "enqueue" => review[h].row \in Rows
  BY DEF Review, ReviewPC
<1>2. /\ status \in [Rows -> RowStatus] /\ attempts \in [Rows -> Nat]
      /\ claim \in [Rows -> {"none", "live", "lapsed"}]
      /\ overdue \in [Rows -> BOOLEAN]
  BY DEF RowStatus
<1>3. ready \in [Rows -> 0..MaxJobs] /\ away \in [Rows -> 0..MaxJobs]
  OBVIOUS
<1>4. /\ task \in [Workers -> Task] /\ sweep \in [Workers -> Sweep]
      /\ \A w \in Workers : task[w].pc # "idle" => task[w].row \in Rows
  OBVIOUS
<1> QED
  BY <1>1, <1>2, <1>3, <1>4 DEF TypeOK, MirrorStatus

LEMMA StepType == TypeOK /\ [Next]_vars => TypeOK'
<1>1. TypeOK /\ UNCHANGED vars => TypeOK'
  BY DEF vars, TypeOK
<1> QED
  BY <1>1, ReviewType, QueueType, ConsumeType, SweepType DEF Next, Environment

\* Every variable of the request, its delivery row, the consumers and the
\* sweepers keeps its type, and a consumer at work has a row.
THEOREM TypeCorrect == Spec => []TypeOK
BY InitType, StepType, PTL DEF Spec

-----------------------------------------------------------------------------
(* A row is mailed once beyond the faults.  The claim gives a row one      *)
(* holder at a time.  While a row may still be mailed -- it is not settled, *)
(* or an attempt on it has not yet been accepted -- every acceptance has   *)
(* been paid for by a fault; the one that is not paid for settles it.      *)

\* Worker w's attempt on d has been accepted but not yet recorded.
Unrecorded(w, d) == Holds(w, d) /\ task[w].pc = "sent"
HeldOnce(d) ==
  /\ \A v, w \in Workers : Holds(v, d) /\ Holds(w, d) => v = w
  /\ \A w \in Workers : Holds(w, d) =>
       /\ status[d] \in {"PENDING", "FAILED"}
       /\ status[d] = "PENDING" => claim[d] = "live"
MayBeMailed(d) ==
  /\ status[d] \in {"ABSENT", "PENDING"} \/ \E w \in Workers : Holds(w, d)
  /\ \A w \in Workers : ~Unrecorded(w, d)
PaidFor(d) ==
  /\ accepted[d] <= 1 + faults
  /\ MayBeMailed(d) => accepted[d] <= faults
MailInv == \A d \in Rows : HeldOnce(d) /\ PaidFor(d)

LEMMA Numbers ==
  ASSUME TypeOK
  PROVE  faults \in Int /\ \A d \in Rows : accepted[d] \in Int
BY BoundsAssumption DEF TypeOK

\* A step that takes nothing from the workers and mails nothing; the rows it
\* changes go from ABSENT to PENDING, or to FAILED, or lose an idle claim.
LEMMA Bystander ==
  ASSUME TypeOK, TypeOK', MailInv, UNCHANGED <<task, accepted>>,
         faults' = faults \/ faults' = faults + 1,
         \A d \in Rows :
           \/ status'[d] = status[d] /\ claim'[d] = claim[d]
           \/ status[d] = "ABSENT" /\ status'[d] = "PENDING"
           \/ status'[d] = "FAILED"
           \/ /\ status'[d] = status[d]
              /\ \A w \in Workers : ~Holds(w, d)
  PROVE  MailInv'
<1> SUFFICES ASSUME NEW d \in Rows PROVE HeldOnce(d)' /\ PaidFor(d)'
  BY DEF MailInv
<1>1. HeldOnce(d) /\ PaidFor(d)
  BY DEF MailInv
<1>2. /\ \A w \in Workers : Holds(w, d)' <=> Holds(w, d)
      /\ \A w \in Workers : Unrecorded(w, d)' <=> Unrecorded(w, d)
  BY DEF Holds, Unrecorded
<1>3. HeldOnce(d)'
  BY <1>1, <1>2 DEF HeldOnce
<1>4. MayBeMailed(d)' => MayBeMailed(d)
  BY <1>2 DEF MayBeMailed
<1>5. PaidFor(d)'
  BY <1>1, <1>4, Numbers DEF PaidFor
<1> QED
  BY <1>3, <1>5

\* A worker that goes on with its attempt, unless the e-mail is accepted.
LEMMA GoesOn ==
  ASSUME TypeOK, TypeOK', MailInv, UNCHANGED <<status, claim, accepted>>,
         faults' = faults \/ faults' = faults + 1,
         NEW w \in Workers, NEW pc \in {"send", "putOff", "refused", "gone"},
         task[w].pc \in {"render", "send"},
         task' = [task EXCEPT ![w].pc = pc]
  PROVE  MailInv'
<1> SUFFICES ASSUME NEW d \in Rows PROVE HeldOnce(d)' /\ PaidFor(d)'
  BY DEF MailInv
<1>1. HeldOnce(d) /\ PaidFor(d)
  BY DEF MailInv
<1>2. /\ task'[w].pc = pc /\ task'[w].row = task[w].row
      /\ \A v \in Workers : v # w => task'[v] = task[v]
  BY DEF TypeOK, Task
<1>3. /\ \A v \in Workers : Holds(v, d)' <=> Holds(v, d)
      /\ \A v \in Workers : Unrecorded(v, d)' <=> Unrecorded(v, d)
  BY <1>2 DEF Holds, Unrecorded
<1>4. HeldOnce(d)'
  BY <1>1, <1>3 DEF HeldOnce
<1>5. MayBeMailed(d)' => MayBeMailed(d)
  BY <1>3 DEF MayBeMailed
<1>6. PaidFor(d)'
  BY <1>1, <1>5, Numbers DEF PaidFor
<1> QED
  BY <1>4, <1>6

\* Only the worker on an unclaimed row that is PENDING holds it next.
LEMMA TakeKeeps ==
  ASSUME TypeOK, TypeOK', MailInv, NEW w \in Workers, NEW e \in Rows,
         TakeJob(w, e)
  PROVE  MailInv'
<1> SUFFICES ASSUME NEW d \in Rows PROVE HeldOnce(d)' /\ PaidFor(d)'
  BY DEF MailInv
<1>1. HeldOnce(d) /\ PaidFor(d) /\ HeldOnce(e)
  BY DEF MailInv
<1>2. /\ task[w].pc = "idle" /\ task'[w].pc = "render" /\ task'[w].row = e
      /\ \A v \in Workers : v # w => task'[v] = task[v]
      /\ claim' = [claim EXCEPT ![e] = "live"] /\ Claimable(e)
      /\ UNCHANGED <<status, accepted, faults>>
  BY DEF TakeJob, TypeOK, Idle
<1>3. \A v \in Workers : ~Holds(v, e)
  BY <1>1, <1>2 DEF HeldOnce, Claimable
<1>4. /\ \A v \in Workers : Unrecorded(v, d)' <=> Unrecorded(v, d)
      /\ \A v \in Workers : Holds(v, d)' <=> Holds(v, d) \/ (v = w /\ d = e)
  BY <1>2 DEF Holds, Unrecorded
<1>5. HeldOnce(d)'
  <2>1. CASE d = e
    <3>1. claim'[d] = "live" /\ status'[d] = "PENDING"
      BY <1>2, <2>1 DEF TypeOK, Claimable
    <3> QED
      BY <1>3, <1>4, <2>1, <3>1 DEF HeldOnce
  <2>2. CASE d # e
    BY <1>1, <1>2, <1>4, <2>2 DEF HeldOnce, TypeOK
  <2> QED
    BY <2>1, <2>2
<1>6. MayBeMailed(d)' => MayBeMailed(d)
  BY <1>2, <1>4 DEF MayBeMailed, Claimable
<1>7. PaidFor(d)'
  BY <1>1, <1>2, <1>6 DEF PaidFor
<1> QED
  BY <1>5, <1>7

LEMMA AcceptKeeps ==
  ASSUME TypeOK, TypeOK', MailInv, NEW w \in Workers, SendAccepted(w)
  PROVE  MailInv'
<1> SUFFICES ASSUME NEW d \in Rows PROVE HeldOnce(d)' /\ PaidFor(d)'
  BY DEF MailInv
<1>1. HeldOnce(d) /\ PaidFor(d)
  BY DEF MailInv
<1>2. /\ task[w].pc = "send" /\ task'[w].pc = "sent"
      /\ task'[w].row = task[w].row /\ task[w].row \in Rows
      /\ \A v \in Workers : v # w => task'[v] = task[v]
      /\ accepted' = [accepted EXCEPT ![task[w].row] = @ + 1]
      /\ UNCHANGED <<status, claim, faults>>
  BY DEF SendAccepted, TypeOK, Task, rowVars
<1>3. \A v \in Workers : Holds(v, d)' <=> Holds(v, d)
  BY <1>2 DEF Holds
<1>4. HeldOnce(d)'
  BY <1>1, <1>2, <1>3 DEF HeldOnce
<1>5. CASE d = task[w].row
  <2>1. Holds(w, d) /\ Unrecorded(w, d)'
    BY <1>2, <1>5 DEF Holds, Unrecorded
  <2>2. MayBeMailed(d)
    BY <1>1, <1>2, <2>1 DEF MayBeMailed, HeldOnce, Unrecorded
  <2>3. accepted'[d] = accepted[d] + 1
    BY <1>2, <1>5 DEF TypeOK
  <2> QED
    BY <1>1, <1>2, <1>4, <2>1, <2>2, <2>3, Numbers DEF PaidFor, MayBeMailed
<1>6. CASE d # task[w].row
  <2>1. accepted'[d] = accepted[d]
    BY <1>2, <1>6 DEF TypeOK
  <2>2. \A v \in Workers : Unrecorded(v, d)' <=> Unrecorded(v, d)
    BY <1>2, <1>6 DEF Holds, Unrecorded
  <2>3. MayBeMailed(d)' => MayBeMailed(d)
    BY <1>2, <1>3, <2>2 DEF MayBeMailed
  <2> QED
    BY <1>1, <1>2, <1>4, <2>1, <2>3 DEF PaidFor
<1> QED
  BY <1>5, <1>6

\* The acceptance whose answer is lost is paid for by the fault it is.
LEMMA LostKeeps ==
  ASSUME TypeOK, TypeOK', MailInv, NEW w \in Workers, AnswerLost(w)
  PROVE  MailInv'
<1> SUFFICES ASSUME NEW d \in Rows PROVE HeldOnce(d)' /\ PaidFor(d)'
  BY DEF MailInv
<1>1. HeldOnce(d) /\ PaidFor(d)
  BY DEF MailInv
<1>2. /\ task[w].pc = "send" /\ task'[w].pc \in {"refused", "putOff"}
      /\ task'[w].row = task[w].row /\ task[w].row \in Rows
      /\ \A v \in Workers : v # w => task'[v] = task[v]
      /\ accepted' = [accepted EXCEPT ![task[w].row] = @ + 1]
      /\ faults' = faults + 1 /\ UNCHANGED <<status, claim>>
  BY DEF AnswerLost, TypeOK, Task, rowVars
<1>3. /\ \A v \in Workers : Holds(v, d)' <=> Holds(v, d)
      /\ \A v \in Workers : Unrecorded(v, d)' <=> Unrecorded(v, d)
  BY <1>2 DEF Holds, Unrecorded
<1>4. HeldOnce(d)'
  BY <1>1, <1>2, <1>3 DEF HeldOnce
<1>5. MayBeMailed(d)' => MayBeMailed(d)
  BY <1>2, <1>3 DEF MayBeMailed
<1>6. CASE d = task[w].row
  <2>1. Holds(w, d)
    BY <1>2, <1>6 DEF Holds
  <2>2. MayBeMailed(d)
    BY <1>1, <1>2, <2>1 DEF MayBeMailed, HeldOnce, Unrecorded
  <2>3. accepted'[d] = accepted[d] + 1
    BY <1>2, <1>6 DEF TypeOK
  <2> QED
    BY <1>1, <1>2, <1>4, <2>2, <2>3, Numbers DEF PaidFor
<1>7. CASE d # task[w].row
  <2>1. accepted'[d] = accepted[d]
    BY <1>2, <1>7 DEF TypeOK
  <2> QED
    BY <1>1, <1>2, <1>4, <1>5, <2>1, Numbers DEF PaidFor
<1> QED
  BY <1>6, <1>7

\* The worker lets go of its row: recorded, or lost to a fault.
LEMMA RecordKeeps ==
  ASSUME TypeOK, TypeOK', MailInv, NEW w \in Workers, RecordOutcome(w)
  PROVE  MailInv'
<1> SUFFICES ASSUME NEW d \in Rows PROVE HeldOnce(d)' /\ PaidFor(d)'
  BY DEF MailInv
<1> DEFINE e == task[w].row
<1>1. HeldOnce(d) /\ PaidFor(d) /\ Holds(w, e) /\ e \in Rows
  BY DEF MailInv, RecordOutcome, Holds, TypeOK
<1>2. /\ task[w].pc \in {"sent", "refused", "putOff", "gone"}
      /\ task'[w].pc \in {"idle", "mirror"}
      /\ \A v \in Workers : v # w => task'[v] = task[v]
      /\ UNCHANGED <<accepted, faults>>
  BY DEF RecordOutcome, TypeOK, Idle, Task
<1>3. /\ d # e => status'[d] = status[d] /\ claim'[d] = claim[d]
      /\ status'[e] = IF task[w].pc = "putOff" THEN status[e]
                                               ELSE StatusAfter(task[w].pc)
  BY <1>1 DEF RecordOutcome, TypeOK
<1>4. \A v \in Workers : Holds(v, d)' <=> Holds(v, d) /\ v # w
  BY <1>2 DEF Holds
<1>5. CASE d = e
  <2>1. \A v \in Workers : ~Holds(v, d)'
    BY <1>1, <1>4, <1>5 DEF HeldOnce
  <2>2. HeldOnce(d)'
    BY <2>1 DEF HeldOnce
  <2>3. CASE task[w].pc = "putOff"
    <3>1. MayBeMailed(d)
      BY <1>1, <1>5, <2>3 DEF MayBeMailed, HeldOnce, Unrecorded
    <3> QED
      BY <1>1, <1>2, <2>2, <3>1 DEF PaidFor
  <2>4. CASE task[w].pc # "putOff"
    <3>1. status'[d] \in {"SENT", "FAILED"}
      BY <1>2, <1>3, <1>5, <2>4 DEF StatusAfter
    <3>2. ~MayBeMailed(d)'
      BY <2>1, <3>1 DEF MayBeMailed
    <3> QED
      BY <1>1, <1>2, <2>2, <3>2 DEF PaidFor
  <2> QED
    BY <2>3, <2>4
<1>6. CASE d # e
  <2>1. /\ \A v \in Workers : Holds(v, d)' <=> Holds(v, d)
        /\ \A v \in Workers : Unrecorded(v, d)' <=> Unrecorded(v, d)
    BY <1>2, <1>4, <1>6 DEF Holds, Unrecorded
  <2>2. HeldOnce(d)'
    BY <1>1, <1>3, <1>6, <2>1 DEF HeldOnce
  <2>3. MayBeMailed(d)' => MayBeMailed(d)
    BY <1>3, <1>6, <2>1 DEF MayBeMailed
  <2> QED
    BY <1>1, <1>2, <2>2, <2>3 DEF PaidFor
<1> QED
  BY <1>5, <1>6

LEMMA LetsGo ==
  ASSUME TypeOK, TypeOK', MailInv, NEW w \in Workers,
         WriteMirror(w) \/ TaskFails(w)
  PROVE  MailInv'
<1> SUFFICES ASSUME NEW d \in Rows PROVE HeldOnce(d)' /\ PaidFor(d)'
  BY DEF MailInv
<1>1. HeldOnce(d) /\ PaidFor(d)
  BY DEF MailInv
<1>2. /\ task'[w].pc = "idle" /\ \A v \in Workers : v # w => task'[v] = task[v]
      /\ UNCHANGED <<status, claim, accepted>>
      /\ \/ task[w].pc = "mirror" /\ faults' = faults
         \/ faults' = faults + 1
  BY DEF WriteMirror, TaskFails, TypeOK, Idle, rowVars
<1>3. \A v \in Workers : Holds(v, d)' => Holds(v, d)
  BY <1>2 DEF Holds
<1>4. HeldOnce(d)'
  BY <1>1, <1>2, <1>3 DEF HeldOnce
<1>5. CASE faults' = faults + 1
  BY <1>1, <1>2, <1>4, <1>5, Numbers DEF PaidFor
<1>6. CASE task[w].pc = "mirror" /\ faults' = faults
  <2>1. \A v \in Workers : Unrecorded(v, d)' <=> Unrecorded(v, d)
    BY <1>2, <1>6 DEF Holds, Unrecorded
  <2>2. MayBeMailed(d)' => MayBeMailed(d)
    BY <1>2, <1>3, <2>1 DEF MayBeMailed
  <2> QED
    BY <1>1, <1>2, <1>4, <1>6, <2>2 DEF PaidFor
<1> QED
  BY <1>2, <1>5, <1>6

LEMMA MailStep ==
  ASSUME TypeOK, TypeOK', MailInv, [Next]_vars
  PROVE  MailInv'
<1> USE DEF request, rowVars, queue
<1>1. CASE UNCHANGED vars
  BY <1>1, Bystander DEF vars
<1>2. ASSUME NEW h \in Reviews,
             Decide(h) \/ CreateThrows(h) \/ EnqueueThrows(h) \/ ReviewDies(h)
      PROVE  MailInv'
  <2>1. ASSUME NEW d \in Rows, CreateRow(h, d) PROVE MailInv'
    <3>1. \A e \in Rows :
            \/ status'[e] = status[e] /\ claim'[e] = claim[e]
            \/ status[e] = "ABSENT" /\ status'[e] = "PENDING"
      BY <2>1 DEF CreateRow, TypeOK
    <3> QED
      BY <2>1, <3>1, Bystander DEF CreateRow
  <2>2. CASE ~\E d \in Rows : CreateRow(h, d)
    <3>1. /\ UNCHANGED <<task, accepted, status, claim>>
          /\ faults' = faults \/ faults' = faults + 1
      BY <1>2, <2>2 DEF Decide, ReadRequest, Reject, Approve, EnqueueRow,
         MarkNotQueued, CreateThrows, EnqueueThrows, ReviewDies
    <3> QED
      BY <3>1, Bystander
  <2> QED
    BY <2>1, <2>2
<1>3. CASE \/ DeleteRequest
           \/ \E d \in Rows : Return(d) \/ LoseJob(d) \/ TimePasses(d)
           \/ \E w \in Workers : VisibilityExpires(w) \/ SweepFails(w)
  <2>1. /\ UNCHANGED <<task, accepted, status, claim>>
        /\ faults' = faults \/ faults' = faults + 1
    BY <1>3 DEF DeleteRequest, Return, LoseJob, TimePasses,
       VisibilityExpires, SweepFails
  <2> QED
    BY <2>1, Bystander
<1>4. ASSUME NEW d \in Rows, LeaseLapses(d) PROVE MailInv'
  <2>1. \A e \in Rows : /\ status'[e] = status[e]
                        /\ \/ claim'[e] = claim[e]
                           \/ \A w \in Workers : ~Holds(w, e)
    BY <1>4 DEF LeaseLapses, TypeOK
  <2> QED
    BY <1>4, <2>1, Bystander DEF LeaseLapses
<1>5. ASSUME NEW w \in Workers, SweepStep(w) PROVE MailInv'
  <2>1. CASE CloseStuck(w)
    <3>1. \A d \in Rows : \/ status'[d] = "FAILED"
                          \/ status'[d] = status[d] /\ claim'[d] = claim[d]
      BY <2>1 DEF CloseStuck
    <3> QED
      BY <2>1, <3>1, Bystander DEF CloseStuck
  <2>2. CASE SweepStranded(w) \/ SweepStuck(w) \/ MirrorClosed(w)
    <3>1. UNCHANGED <<task, accepted, status, claim, faults>>
      BY <2>2 DEF SweepStranded, SweepStuck, MirrorClosed
    <3> QED
      BY <3>1, Bystander
  <2> QED
    BY <1>5, <2>1, <2>2 DEF SweepStep
<1>6. ASSUME NEW w \in Workers, Render(w) \/ RenderThrows(w) PROVE MailInv'
  <2>1. /\ task[w].pc = "render" /\ UNCHANGED <<status, claim, accepted>>
        /\ faults' = faults \/ faults' = faults + 1
    BY <1>6 DEF Render, RenderThrows
  <2>2. PICK pc \in {"send", "putOff", "gone"} :
          task' = [task EXCEPT ![w].pc = pc]
    BY <1>6 DEF Render, RenderThrows
  <2> QED
    BY <2>1, <2>2, GoesOn
<1>7. ASSUME NEW w \in Workers, NEW permanent \in BOOLEAN,
             SendRefused(w, permanent)
      PROVE  MailInv'
  <2>1. /\ task[w].pc = "send" /\ UNCHANGED <<status, claim, accepted, faults>>
    BY <1>7 DEF SendRefused
  <2>2. PICK pc \in {"putOff", "refused"} : task' = [task EXCEPT ![w].pc = pc]
    BY <1>7 DEF SendRefused
  <2> QED
    BY <2>1, <2>2, GoesOn
<1>8. ASSUME NEW w \in Workers, NEW d \in Rows, SkipJob(w, d) PROVE MailInv'
  BY <1>8, Bystander DEF SkipJob
<1> QED
  BY <1>1, <1>2, <1>3, <1>4, <1>5, <1>6, <1>7, <1>8, TakeKeeps, AcceptKeeps,
     LostKeeps, RecordKeeps, LetsGo DEF Next, Environment, Consume

LEMMA MailHolds == Spec => []MailInv
<1>1. Init => MailInv
  <2> SUFFICES ASSUME Init, NEW d \in Rows PROVE HeldOnce(d) /\ PaidFor(d)
    BY DEF MailInv
  <2>1. \A w \in Workers : ~Holds(w, d)
    BY RestingTypes DEF Init, Holds
  <2>2. accepted[d] = 0 /\ faults = 0
    BY DEF Init
  <2> QED
    BY <2>1, <2>2 DEF HeldOnce, PaidFor
<1>2. TypeOK /\ TypeOK' /\ MailInv /\ [Next]_vars => MailInv'
  BY MailStep
<1> QED
  BY TypeCorrect, <1>1, <1>2, PTL DEF Spec

\* However often a job is delivered, whatever the sweeper re-enqueues and
\* wherever a worker dies or a connection breaks, a row is mailed at most once
\* more than the faults that could lose the record of an acceptance.
THEOREM MailedOnce == Spec => []MailedOncePerFault
<1>1. MailInv => MailedOncePerFault
  BY DEF MailInv, PaidFor, MailedOncePerFault
<1> QED
  BY MailHolds, <1>1, PTL

-----------------------------------------------------------------------------
(* The administrator's view.  A worker that is about to write SENT into    *)
(* the row or the mirror has seen an acceptance.  With one worker and no   *)
(* faults the sweeper finds no row to close, so the row that the worker    *)
(* has settled still says what the worker is about to mirror.              *)

Witnessed(w) ==
  task[w].pc = "sent" \/ (task[w].pc = "mirror" /\ task[w].outcome = "SENT")
    => accepted[task[w].row] > 0
SentInv == /\ mirror = "SENT" => \E d \in Rows : accepted[d] > 0
           /\ \A w \in Workers : Witnessed(w)

\* A consumer step: nobody else's task, and no acceptance is taken back.
LEMMA ConsumerMoves ==
  ASSUME TypeOK, TypeOK', NEW w \in Workers,
         \/ Consume(w) \/ RenderThrows(w) \/ AnswerLost(w) \/ TaskFails(w)
         \/ \E d \in Rows : TakeJob(w, d)
  PROVE  /\ \A v \in Workers : v # w => task'[v] = task[v]
         /\ \A d \in Rows : accepted'[d] >= accepted[d]
         /\ UNCHANGED <<decision, review, sweep>>
<1> USE DEF request, rowVars, queue
<1>1. UNCHANGED <<decision, review, sweep>>
      /\ \A v \in Workers : v # w => task'[v] = task[v]
  <2>1. CASE Consume(w)
    BY <2>1 DEF Consume, Render, SendAccepted, SendRefused, RecordOutcome,
       WriteMirror, Audit, TypeOK
  <2>2. CASE ~Consume(w)
    BY <2>2 DEF RenderThrows, AnswerLost, TaskFails, TakeJob, TypeOK
  <2> QED
    BY <2>1, <2>2
<1>2. \A d \in Rows : accepted[d] \in Nat /\ accepted'[d] \in Nat
  BY DEF TypeOK
<1>3. CASE SendAccepted(w) \/ AnswerLost(w)
  <2>1. accepted' = [accepted EXCEPT ![task[w].row] = @ + 1]
    BY <1>3 DEF SendAccepted, AnswerLost
  <2>2. \A d \in Rows : accepted'[d] >= accepted[d]
    BY <1>2, <2>1 DEF TypeOK
  <2> QED
    BY <1>1, <2>2
<1>4. CASE ~SendAccepted(w) /\ ~AnswerLost(w)
  <2>1. Consume(w) => accepted' = accepted
    BY <1>4 DEF Consume, Render, SendRefused, RecordOutcome, WriteMirror
  <2>2. ~Consume(w) => accepted' = accepted
    BY <1>4 DEF RenderThrows, TaskFails, TakeJob
  <2>3. accepted' = accepted
    BY <2>1, <2>2
  <2> QED
    BY <1>1, <1>2, <2>3
<1> QED
  BY <1>1, <1>3, <1>4

LEMMA SentConsume ==
  ASSUME TypeOK, TypeOK', SentInv, NEW w \in Workers,
         \/ Consume(w) \/ RenderThrows(w) \/ AnswerLost(w) \/ TaskFails(w)
         \/ \E d \in Rows : TakeJob(w, d)
  PROVE  SentInv'
<1> USE DEF request, rowVars, queue
<1>1. /\ \A v \in Workers : v # w => task'[v] = task[v]
      /\ \A d \in Rows : /\ accepted'[d] >= accepted[d]
                         /\ accepted[d] \in Nat /\ accepted'[d] \in Nat
      /\ task \in [Workers -> Task] /\ task[w] \in Task
      /\ \A v \in Workers : task[v].pc # "idle" => task[v].row \in Rows
  BY ConsumerMoves DEF TypeOK
<1>2. ASSUME NEW v \in Workers, v # w PROVE Witnessed(v)'
  BY <1>1, <1>2 DEF SentInv, Witnessed
<1>3. Witnessed(w)'
  <2>1. CASE SendAccepted(w)
    <3>1. /\ task'[w].pc = "sent" /\ task'[w].row = task[w].row
          /\ task[w].row \in Rows
      BY <1>1, <2>1 DEF SendAccepted, Task
    <3>2. accepted'[task[w].row] = accepted[task[w].row] + 1
      BY <2>1, <3>1 DEF SendAccepted, TypeOK
    <3> QED
      BY <1>1, <3>1, <3>2 DEF Witnessed
  <2>2. CASE RecordOutcome(w)
    <3>1. CASE task[w].pc = "sent"
      <4>1. task'[w].row = task[w].row /\ accepted' = accepted
        BY <1>1, <2>2, <3>1 DEF RecordOutcome, Task
      <4>2. accepted[task[w].row] > 0
        BY <3>1 DEF SentInv, Witnessed
      <4> QED
        BY <4>1, <4>2 DEF Witnessed
    <3>2. CASE task[w].pc # "sent"
      <4>1. \/ task'[w].pc = "idle"
            \/ /\ task'[w].pc = "mirror"
               /\ task'[w].outcome = StatusAfter(task[w].pc)
        BY <1>1, <2>2, RestingTypes DEF RecordOutcome, Task
      <4>2. StatusAfter(task[w].pc) # "SENT"
        BY <2>2, <3>2 DEF RecordOutcome, StatusAfter
      <4> QED
        BY <4>1, <4>2 DEF Witnessed
    <3> QED
      BY <3>1, <3>2
  <2>3. CASE Render(w) \/ RenderThrows(w) \/ AnswerLost(w)
             \/ \E permanent \in BOOLEAN : SendRefused(w, permanent)
    <3>1. task'[w].pc \in {"gone", "send", "putOff", "refused"}
      BY <1>1, <2>3 DEF Render, RenderThrows, AnswerLost, SendRefused, Task
    <3> QED
      BY <3>1 DEF Witnessed
  <2>4. CASE WriteMirror(w) \/ TaskFails(w) \/ \E d \in Rows : TakeJob(w, d)
    <3>1. task'[w].pc \in {"idle", "render"}
      BY <1>1, <2>4, RestingTypes DEF WriteMirror, TaskFails, TakeJob, Idle
    <3> QED
      BY <3>1 DEF Witnessed
  <2> QED
    BY <2>1, <2>2, <2>3, <2>4 DEF Consume
<1>4. mirror' = "SENT" => \E d \in Rows : accepted'[d] > 0
  <2>1. CASE mirror' = mirror
    BY <1>1, <2>1 DEF SentInv
  <2>2. CASE mirror' # mirror
    <3>1. WriteMirror(w)
      BY <2>2 DEF Consume, Render, SendAccepted, SendRefused, RecordOutcome,
         RenderThrows, AnswerLost, TaskFails, TakeJob
    <3>2. mirror' = task[w].outcome /\ task[w].row \in Rows
      BY <1>1, <2>2, <3>1 DEF WriteMirror, Audit
    <3> QED
      BY <1>1, <3>1, <3>2 DEF SentInv, Witnessed, WriteMirror
  <2> QED
    BY <2>1, <2>2
<1> QED
  BY <1>2, <1>3, <1>4 DEF SentInv

LEMMA SentStep ==
  ASSUME TypeOK, TypeOK', SentInv, [Next]_vars PROVE SentInv'
<1> USE DEF request, rowVars, queue
<1>1. ASSUME UNCHANGED <<task, accepted>>, mirror' # "SENT" \/ mirror' = mirror
      PROVE  SentInv'
  <2>1. \A w \in Workers : Witnessed(w)'
    BY <1>1 DEF SentInv, Witnessed
  <2> QED
    BY <1>1, <2>1 DEF SentInv
<1>2. ASSUME NEW h \in Reviews,
             Decide(h) \/ CreateThrows(h) \/ EnqueueThrows(h) \/ ReviewDies(h)
      PROVE  SentInv'
  BY <1>1, <1>2 DEF Decide, ReadRequest, Reject, Approve, CreateRow, EnqueueRow,
     MarkNotQueued, CreateThrows, EnqueueThrows, ReviewDies
<1>3. ASSUME NEW w \in Workers,
             \/ SweepStep(w) \/ SweepFails(w) \/ VisibilityExpires(w)
             \/ \E d \in Rows : SkipJob(w, d)
      PROVE  SentInv'
  BY <1>1, <1>3 DEF SweepStep, SweepStranded, SweepStuck, CloseStuck,
     MirrorClosed, Audit, SweepFails, VisibilityExpires, SkipJob
<1>4. CASE \/ DeleteRequest \/ UNCHANGED vars
           \/ \E d \in Rows : \/ Return(d) \/ LoseJob(d) \/ TimePasses(d)
                              \/ LeaseLapses(d)
  BY <1>1, <1>4 DEF DeleteRequest, Return, LoseJob, TimePasses, LeaseLapses,
                    vars
<1> QED
  BY <1>2, <1>3, <1>4, SentConsume DEF Next, Environment

LEMMA SentHolds == Spec => []SentInv
<1>1. Init => SentInv
  BY RestingTypes DEF Init, SentInv, Witnessed
<1>2. TypeOK /\ TypeOK' /\ SentInv /\ [Next]_vars => SentInv'
  BY SentStep
<1> QED
  BY TypeCorrect, <1>1, <1>2, PTL DEF Spec

Unheld(d) == \A w \in Workers : ~Holds(w, d)
\* What the worker knows of the row it is at work on.
Knows(w) ==
  task[w].pc # "idle" =>
    /\ status[task[w].row] = IF task[w].pc = "mirror" THEN task[w].outcome
                                                      ELSE "PENDING"
    /\ task[w].tries = attempts[task[w].row]
    /\ task[w].pc = "putOff" => task[w].tries < MaxAttempts
    /\ task[w].pc = "gone" => decision = "GONE"
\* A row that waits has an attempt left.
Spare(d) == /\ status[d] = "PENDING" /\ Unheld(d) => attempts[d] < MaxAttempts
            /\ status[d] = "ABSENT" => attempts[d] = 0
Mirrored == \/ mirror = "NONE" \/ decision = "GONE"
            \/ \E w \in Workers : task[w].pc = "mirror"
            \/ \E d \in Rows : status[d] = mirror
Undisturbed ==
  /\ \A h \in Reviews : review[h].pc = "mark" => decision = "GONE"
  /\ \A w \in Workers : sweep[w].pc \in {"stranded", "stuck"} /\ Knows(w)
  /\ \A d \in Rows : Spare(d)
  /\ Mirrored
CalmInv == faults = 0 => Undisturbed

\* A step that changes at most queue, clock and reviews, or deletes the request.
LEMMA CalmFrame ==
  ASSUME TypeOK, Undisturbed, UNCHANGED <<status, attempts, task, mirror>>,
         \A w \in Workers : sweep'[w].pc \in {"stranded", "stuck"},
         decision = "GONE" => decision' = "GONE",
         \A h \in Reviews : review'[h].pc = "mark"
                              => review[h].pc = "mark" \/ decision' = "GONE"
  PROVE  Undisturbed'
<1>1. \A w \in Workers : Knows(w)'
  BY DEF Undisturbed, Knows
<1>2. \A d \in Rows : Spare(d)'
  BY DEF Undisturbed, Spare, Unheld, Holds
<1>3. Mirrored'
  BY DEF Undisturbed, Mirrored
<1> QED
  BY <1>1, <1>2, <1>3 DEF Undisturbed

LEMMA CalmReview ==
  ASSUME TypeOK, TypeOK', Undisturbed, NEW h \in Reviews, faults' = faults,
         Decide(h) \/ CreateThrows(h) \/ EnqueueThrows(h) \/ ReviewDies(h)
  PROVE  Undisturbed'
<1> USE DEF request, rowVars, queue, ReviewAt, ReviewTo
<1>1. ~EnqueueThrows(h) /\ ~ReviewDies(h)
  BY DEF EnqueueThrows, ReviewDies, TypeOK
<1>2. ASSUME NEW d \in Rows, CreateRow(h, d) PROVE Undisturbed'
  <2>1. /\ UNCHANGED <<decision, attempts, task, sweep>>
        /\ status[d] = "ABSENT" /\ status'[d] = "PENDING"
        /\ \A e \in Rows : e # d => status'[e] = status[e]
        /\ mirror' = "PENDING"
    BY <1>2 DEF CreateRow, TypeOK
  <2>2. \A g \in Reviews : review'[g].pc = "mark" => review[g].pc = "mark"
    BY <1>2 DEF CreateRow, TypeOK
  <2>3. ASSUME NEW w \in Workers PROVE Knows(w)'
    <3>1. task[w].pc # "idle" => task[w].row \in Rows /\ task[w].row # d
      BY <2>1 DEF Undisturbed, Knows, TypeOK, Task, MirrorStatus
    <3> QED
      BY <2>1, <3>1 DEF Undisturbed, Knows
  <2>4. ASSUME NEW e \in Rows PROVE Spare(e)'
    <3>1. CASE e = d
      BY <2>1, <3>1, AttemptsAssumption DEF Undisturbed, Spare
    <3>2. CASE e # d
      BY <2>1, <3>2 DEF Undisturbed, Spare, Unheld, Holds
    <3> QED
      BY <3>1, <3>2
  <2>5. Mirrored'
    BY <2>1 DEF Mirrored
  <2> QED
    BY <2>1, <2>2, <2>3, <2>4, <2>5 DEF Undisturbed
<1>3. CASE \/ ReadRequest(h) \/ Reject(h) \/ Approve(h) \/ EnqueueRow(h)
           \/ CreateThrows(h) \/ MarkNotQueued(h)
  <2>1. UNCHANGED <<status, attempts, task, sweep>>
    BY <1>3 DEF ReadRequest, Reject, Approve, EnqueueRow, CreateThrows,
       MarkNotQueued
  <2>2. mirror' = mirror
    BY <1>3 DEF ReadRequest, Reject, Approve, EnqueueRow, CreateThrows,
       MarkNotQueued, Undisturbed
  <2>3. decision = "GONE" => decision' = "GONE"
    BY <1>3 DEF ReadRequest, Reject, Approve, EnqueueRow, CreateThrows,
       MarkNotQueued
  <2>4. ASSUME NEW g \in Reviews, review'[g].pc = "mark"
        PROVE  review[g].pc = "mark" \/ decision' = "GONE"
    <3>1. CASE CreateThrows(h)
      BY <2>4, <3>1 DEF CreateThrows, TypeOK
    <3>2. CASE ~CreateThrows(h)
      <4>1. /\ g # h => review'[g] = review[g]
            /\ review'[h].pc \in {"decide", "create", "done"}
        BY <1>3, <3>2 DEF ReadRequest, Reject, Approve, EnqueueRow,
           MarkNotQueued, TypeOK, Review
      <4> QED
        BY <2>4, <4>1
    <3> QED
      BY <3>1, <3>2
  <2> QED
    BY <2>1, <2>2, <2>3, <2>4, CalmFrame DEF Undisturbed
<1> QED
  BY <1>1, <1>2, <1>3 DEF Decide

\* The sweeper finds no row to close.
LEMMA CalmSweep ==
  ASSUME TypeOK, MailInv, Undisturbed, NEW w \in Workers, SweepStep(w)
  PROVE  Undisturbed'
<1> USE DEF request, rowVars, queue
<1>1. Stuck = {}
  <2> SUFFICES ASSUME NEW d \in Rows, Claimable(d), attempts[d] >= MaxAttempts
               PROVE  FALSE
    BY DEF Stuck
  <2>1. Unheld(d) /\ status[d] = "PENDING" /\ Spare(d)
    BY DEF MailInv, HeldOnce, Claimable, Unheld, Undisturbed
  <2>2. attempts[d] \in Nat /\ MaxAttempts \in Nat
    BY AttemptsAssumption DEF TypeOK
  <2> QED
    BY <2>1, <2>2 DEF Spare
<1>2. sweep[w].pc \in {"stranded", "stuck"} /\ sweep \in [Workers -> Sweep]
  BY DEF Undisturbed, TypeOK
<1>3. CASE SweepStranded(w)
  <2>1. \A v \in Workers : sweep'[v].pc \in {"stranded", "stuck"}
    BY <1>2, <1>3 DEF SweepStranded, Undisturbed, Sweep
  <2> QED
    BY <1>3, <2>1, CalmFrame DEF SweepStranded
<1>4. CASE SweepStuck(w)
  <2>1. sweep' = [sweep EXCEPT ![w] = Resting]
    BY <1>1, <1>4 DEF SweepStuck
  <2>2. \A v \in Workers : sweep'[v].pc \in {"stranded", "stuck"}
    BY <1>2, <2>1 DEF Resting, Undisturbed
  <2>3. UNCHANGED <<status, attempts, task, mirror, decision, review>>
    BY <1>4 DEF SweepStuck
  <2> QED
    BY <2>2, <2>3, CalmFrame
<1> QED
  BY <1>2, <1>3, <1>4 DEF SweepStep, CloseStuck, MirrorClosed

\* Nobody else changes the row of the only worker.
LEMMA CalmConsume ==
  ASSUME TypeOK, TypeOK', Undisturbed, NEW w \in Workers,
         \A v \in Workers : v = w, faults' = faults,
         \/ Consume(w) \/ RenderThrows(w) \/ AnswerLost(w) \/ TaskFails(w)
         \/ \E d \in Rows : TakeJob(w, d)
  PROVE  Undisturbed'
<1> DEFINE e == task[w].row
<1> USE DEF request, rowVars, queue
<1>1. /\ UNCHANGED <<decision, review, sweep>>
      /\ task \in [Workers -> Task] /\ task[w] \in Task
      /\ task[w].pc # "idle" => e \in Rows
      /\ Knows(w) /\ \A d \in Rows : Spare(d)
  BY ConsumerMoves DEF TypeOK, Undisturbed
<1>2. SUFFICES Knows(w)' /\ (\A d \in Rows : Spare(d)') /\ Mirrored'
  BY <1>1, <1>2 DEF Undisturbed
<1>3. ~RenderThrows(w) /\ ~AnswerLost(w) /\ ~TaskFails(w)
  <2>1. faults' # faults + 1
    BY BoundsAssumption DEF TypeOK
  <2> QED
    BY <2>1 DEF RenderThrows, AnswerLost, TaskFails
<1>4. ASSUME NEW d \in Rows, TakeJob(w, d)
      PROVE  Knows(w)' /\ (\A c \in Rows : Spare(c)') /\ Mirrored'
  <2> DEFINE job == [Idle EXCEPT !.pc = "render", !.row = d,
                                 !.tries = attempts[d] + 1]
  <2>a. /\ task' = [task EXCEPT ![w] = job]
        /\ attempts' = [attempts EXCEPT ![d] = @ + 1]
        /\ UNCHANGED <<status, mirror>> /\ status[d] = "PENDING"
        /\ task[w].pc = "idle"
    BY <1>4 DEF TakeJob, Claimable
  <2>b. job.pc = "render" /\ job.row = d /\ job.tries = attempts[d] + 1
    BY DEF Idle
  <2>c. attempts \in [Rows -> Nat]
    BY DEF TypeOK
  <2>1. /\ UNCHANGED <<status, mirror>> /\ status[d] = "PENDING"
        /\ task[w].pc = "idle" /\ task'[w].pc = "render" /\ task'[w].row = d
        /\ task'[w].tries = attempts[d] + 1 /\ attempts'[d] = attempts[d] + 1
        /\ \A c \in Rows : c # d => attempts'[c] = attempts[c]
    <3> HIDE DEF job
    <3> QED
      BY <1>1, <2>a, <2>b, <2>c
  <2>2. Knows(w)'
    BY <2>1 DEF Knows
  <2>3. ASSUME NEW c \in Rows PROVE Spare(c)'
    <3>1. CASE c = d
      BY <2>1, <3>1 DEF Spare, Unheld, Holds
    <3>2. CASE c # d
      BY <1>1, <2>1, <3>2 DEF Spare, Unheld, Holds
    <3> QED
      BY <3>1, <3>2
  <2>4. Mirrored'
    BY <1>1, <2>1 DEF Undisturbed, Mirrored
  <2> QED
    BY <2>2, <2>3, <2>4
<1>5. CASE \/ Render(w) \/ SendAccepted(w)
           \/ \E permanent \in BOOLEAN : SendRefused(w, permanent)
  <2>1. /\ UNCHANGED <<status, mirror, attempts>>
        /\ task[w].pc \in {"render", "send"}
        /\ task'[w].pc \in {"gone", "send", "sent", "refused", "putOff"}
        /\ task'[w].row = e /\ task'[w].tries = task[w].tries
    BY <1>1, <1>5 DEF Render, SendAccepted, SendRefused, Task
  <2>2. /\ task'[w].pc = "gone" => decision = "GONE"
        /\ task'[w].pc = "putOff" => task[w].tries < MaxAttempts
    BY <1>1, <1>5, AttemptsAssumption
       DEF Render, SendAccepted, SendRefused, GivesUp, Task
  <2>3. Knows(w)'
    BY <1>1, <2>1, <2>2 DEF Knows
  <2>4. \A d \in Rows : Spare(d)'
    BY <1>1, <2>1 DEF Spare, Unheld, Holds
  <2>5. Mirrored'
    BY <1>1, <2>1 DEF Undisturbed, Mirrored
  <2> QED
    BY <2>3, <2>4, <2>5
<1>6. CASE RecordOutcome(w)
  <2> DEFINE s == StatusAfter(task[w].pc)
  <2>1. /\ UNCHANGED <<mirror, attempts>>
        /\ task[w].pc \in {"sent", "refused", "putOff", "gone"} /\ e \in Rows
        /\ \A d \in Rows : d # e => status'[d] = status[d]
    BY <1>1, <1>6 DEF RecordOutcome, TypeOK
  <2>2. status'[e] = s
    BY <1>1, <1>6, <2>1 DEF RecordOutcome, StatusAfter, Knows, TypeOK
  <2>3. /\ task[w].pc = "gone" => task'[w].pc = "idle" /\ decision = "GONE"
        /\ task[w].pc # "gone" => /\ task'[w].pc = "mirror" /\ task'[w].row = e
                                  /\ task'[w].outcome = s
                                  /\ task'[w].tries = task[w].tries
    BY <1>1, <1>6, <2>1, RestingTypes DEF RecordOutcome, Knows, Task
  <2>4. Knows(w)'
    BY <1>1, <2>1, <2>2, <2>3 DEF Knows
  <2>5. ASSUME NEW d \in Rows PROVE Spare(d)'
    <3>1. CASE d = e
      <4>1. s = "PENDING" => task[w].pc = "putOff"
        BY <2>1 DEF StatusAfter
      <4>2. s # "ABSENT"
        BY <2>1 DEF StatusAfter
      <4> QED
        BY <1>1, <2>1, <2>2, <3>1, <4>1, <4>2 DEF Spare, Knows
    <3>2. CASE d # e
      BY <1>1, <2>1, <2>3, <3>2 DEF Spare, Unheld, Holds
    <3> QED
      BY <3>1, <3>2
  <2>6. Mirrored'
    BY <1>1, <2>3 DEF Mirrored
  <2> QED
    BY <2>4, <2>5, <2>6
<1>7. CASE WriteMirror(w)
  <2>1. /\ UNCHANGED <<status, attempts>> /\ task[w].pc = "mirror"
        /\ task'[w].pc = "idle" /\ e \in Rows
        /\ decision = "GONE" \/ mirror' = status[e]
    BY <1>1, <1>7, RestingTypes DEF WriteMirror, Audit, Knows
  <2>2. Knows(w)'
    BY <2>1 DEF Knows
  <2>3. \A d \in Rows : Spare(d)'
    BY <1>1, <2>1 DEF Spare, Unheld, Holds
  <2>4. Mirrored'
    BY <1>1, <2>1 DEF Mirrored
  <2> QED
    BY <2>2, <2>3, <2>4
<1> QED
  BY <1>3, <1>4, <1>5, <1>6, <1>7 DEF Consume

LEMMA CalmStep ==
  ASSUME \A v, w \in Workers : v = w,
         TypeOK, TypeOK', MailInv, CalmInv, [Next]_vars
  PROVE  CalmInv'
<1> SUFFICES ASSUME faults' = 0 PROVE Undisturbed'
  BY DEF CalmInv
<1> USE DEF request, rowVars, queue
<1>1. faults' = faults \/ faults' = faults + 1
  BY DEF Next, Environment, Decide, ReadRequest, Reject, Approve, CreateRow,
     EnqueueRow, MarkNotQueued, CreateThrows, EnqueueThrows, ReviewDies,
     Consume, Render, SendAccepted, SendRefused, RecordOutcome, WriteMirror,
     RenderThrows, AnswerLost, TaskFails, TakeJob, SkipJob, SweepStep,
     SweepStranded, SweepStuck, CloseStuck, MirrorClosed, SweepFails,
     VisibilityExpires, DeleteRequest, Return, LoseJob, TimePasses,
     LeaseLapses, vars
<1>2. faults = 0 /\ faults' = faults /\ Undisturbed
  BY <1>1 DEF CalmInv, TypeOK
<1>3. CASE \/ DeleteRequest \/ UNCHANGED vars
           \/ \E d \in Rows : \/ Return(d) \/ LoseJob(d) \/ TimePasses(d)
                              \/ LeaseLapses(d)
           \/ \E w \in Workers : \/ VisibilityExpires(w)
                                 \/ \E d \in Rows : SkipJob(w, d)
  <2>1. /\ UNCHANGED <<status, attempts, task, mirror, sweep, review>>
        /\ decision' \in {decision, "GONE"}
    BY <1>3 DEF DeleteRequest, Return, LoseJob, TimePasses, LeaseLapses,
       VisibilityExpires, SkipJob, vars
  <2> QED
    BY <1>2, <2>1, CalmFrame DEF Undisturbed
<1>4. ASSUME NEW w \in Workers, SweepFails(w) PROVE FALSE
  BY <1>2, <1>4 DEF SweepFails
<1> QED
  BY <1>2, <1>3, <1>4, CalmReview, CalmSweep, CalmConsume DEF Next, Environment

\* SENT is mirrored only after an acceptance; and with one worker process, as
\* long as no fault has happened and nobody is between the write of a row and
\* of its mirror, the mirror tells of a row as it is.
THEOREM MirrorTrue ==
  ASSUME \A v, w \in Workers : v = w PROVE Spec => []MirrorHonest
<1>1. Init => CalmInv
  <2> SUFFICES ASSUME Init PROVE Undisturbed
    BY DEF CalmInv
  <2>1. /\ \A w \in Workers : sweep[w].pc = "stranded" /\ Knows(w)
        /\ \A h \in Reviews : review[h].pc = "read"
        /\ \A d \in Rows : Spare(d)
    BY RestingTypes DEF Init, Knows, Spare, Resting
  <2> QED
    BY <2>1 DEF Init, Undisturbed, Mirrored
<1>2. TypeOK /\ TypeOK' /\ MailInv /\ CalmInv /\ [Next]_vars => CalmInv'
  BY CalmStep
<1>3. TypeOK /\ SentInv /\ CalmInv => MirrorHonest
  BY BoundsAssumption DEF TypeOK, SentInv, CalmInv, Undisturbed, Mirrored,
     MirrorHonest
<1> QED
  BY TypeCorrect, MailHolds, SentHolds, <1>1, <1>2, <1>3, PTL DEF Spec
=============================================================================
