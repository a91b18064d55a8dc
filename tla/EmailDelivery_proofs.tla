------------------------ MODULE EmailDelivery_proofs ------------------------
(***************************************************************************)
(* Theorems about EmailDelivery for every set of recipients and workers    *)
(* and every value of the bounds: its types; as long as no attempt         *)
(* outlives its lease, mutual exclusion on a row, at most one accepted     *)
(* e-mail beyond the crashes, and the bound on attempts; and without       *)
(* faults, that it implements DeliveryPromise and that, with one worker,   *)
(* the message tells how its rows ended.                                   *)
(***************************************************************************)
EXTENDS EmailDelivery, TLAPS

Counts == [Rows -> 0..MaxJobs]

\* Adding a job keeps a stage of the queue within its bound.
LEMMA AddType ==
  ASSUME NEW q \in Counts, NEW d \in Rows \cup {NoRow}
  PROVE  Add(q, d) \in Counts
<1>1. CASE d \in Rows
  <2>1. q[d] \in 0..MaxJobs
    BY <1>1 DEF Counts
  <2>2. (IF q[d] < MaxJobs THEN q[d] + 1 ELSE q[d]) \in 0..MaxJobs
    BY <2>1, BoundsAssumption
  <2> QED
    BY <1>1, <2>2 DEF Counts, Add
<1>2. CASE d = NoRow
  BY <1>2, RowsAssumption DEF Counts, Add
<1> QED
  BY <1>1, <1>2

\* So does handing out one job for every row of a set.
LEMMA EnqueueAllType ==
  ASSUME NEW q \in Counts, NEW S PROVE EnqueueAll(q, S) \in Counts
BY BoundsAssumption DEF Counts, EnqueueAll

\* The two resting states are states of a consumer and of a sweeper.
LEMMA RestTypes == Idle \in Task /\ Resting \in Sweep
BY DEF Idle, Resting, Task, Sweep, TaskPC, SweepPC, MessageStatus

\* And handing a task's job back.
LEMMA HandBackType ==
  ASSUME NEW q \in Counts, NEW w \in Workers, task \in [Workers -> Task]
  PROVE  HandBack(w, q) \in Counts
BY AddType DEF HandBack, Task

\* The control states of the consumers, as TypeOK has them.
TasksOK == /\ task \in [Workers -> Task]
           /\ \A w \in Workers : task[w].pc # "idle" => task[w].row \in Rows

\* What a task's record update leaves alone.
LEMMA TaskPc ==
  ASSUME NEW t \in Task, NEW p \in TaskPC
  PROVE  [t EXCEPT !.pc = p] \in Task /\ [t EXCEPT !.pc = p].row = t.row
BY DEF Task

LEMMA TaskTries ==
  ASSUME NEW t \in Task, NEW n \in Nat
  PROVE  [t EXCEPT !.tries = n] \in Task /\ [t EXCEPT !.tries = n].row = t.row
BY DEF Task

LEMMA TaskSeen ==
  ASSUME NEW t \in Task, NEW m \in MessageStatus
  PROVE  [t EXCEPT !.seen = m] \in Task /\ [t EXCEPT !.seen = m].row = t.row
BY DEF Task

\* A consumer at work that moves on, noting what it read, stays one.
LEMMA TaskSteps ==
  ASSUME TasksOK, NEW w \in Workers, task[w].pc # "idle",
         NEW p \in TaskPC, NEW n \in Nat, NEW m \in MessageStatus,
         \/ task' = [task EXCEPT ![w].pc = p]
         \/ task' = [task EXCEPT ![w] = [@ EXCEPT !.pc = p, !.tries = n]]
         \/ task' = [task EXCEPT ![w].pc = p, ![w].seen = m]
         \/ task' = [task EXCEPT ![w] = Idle]
  PROVE  TasksOK'
<1>1. \A v \in Workers : v # w => task'[v] = task[v]
  BY DEF TasksOK
<1>2. task'[w] \in Task /\ (task'[w].pc # "idle" => task'[w].row \in Rows)
  <2>1. CASE task' = [task EXCEPT ![w].pc = p]
    <3>1. task'[w] = [task[w] EXCEPT !.pc = p]
      BY <2>1 DEF TasksOK
    <3> QED
      BY <3>1 DEF TasksOK, Task
  <2>2. CASE task' = [task EXCEPT ![w] = [@ EXCEPT !.pc = p, !.tries = n]]
    <3> DEFINE t == [task[w] EXCEPT !.pc = p]
    <3>1. t \in Task /\ t.row = task[w].row
      BY TaskPc DEF TasksOK
    <3>2. task'[w] = [t EXCEPT !.tries = n]
      BY <2>2 DEF TasksOK
    <3> HIDE DEF t
    <3>3. /\ [t EXCEPT !.tries = n] \in Task
          /\ [t EXCEPT !.tries = n].row = t.row
      BY <3>1, TaskTries
    <3>4. task'[w] \in Task /\ task'[w].row = t.row
      BY <3>2, <3>3
    <3> QED
      BY <3>1, <3>4 DEF TasksOK
  <2>3. CASE task' = [task EXCEPT ![w].pc = p, ![w].seen = m]
    <3> DEFINE t == [task[w] EXCEPT !.pc = p]
    <3>1. t \in Task /\ t.row = task[w].row
      BY TaskPc DEF TasksOK
    <3>2. task'[w] = [t EXCEPT !.seen = m]
      BY <2>3 DEF TasksOK
    <3> HIDE DEF t
    <3>3. /\ [t EXCEPT !.seen = m] \in Task
          /\ [t EXCEPT !.seen = m].row = t.row
      BY <3>1, TaskSeen
    <3>4. task'[w] \in Task /\ task'[w].row = t.row
      BY <3>2, <3>3
    <3> QED
      BY <3>1, <3>4 DEF TasksOK
  <2>4. CASE task' = [task EXCEPT ![w] = Idle]
    BY <2>4, RestTypes DEF TasksOK, Idle
  <2> QED
    BY <2>1, <2>2, <2>3, <2>4
<1>3. DOMAIN task' = Workers /\ task' = [v \in Workers |-> task'[v]]
  BY DEF TasksOK
<1> QED
  BY <1>1, <1>2, <1>3 DEF TasksOK

\* A step that throws puts the job back and its consumer to rest.
LEMMA ThrowTypes ==
  ASSUME TypeOK, NEW w \in Workers, task[w].pc # "idle", Throw(w)
  PROVE  TasksOK' /\ hidden' \in Counts
<1>1. TasksOK /\ hidden \in Counts
  BY DEF TypeOK, TasksOK, Counts
<1>2. hidden' \in Counts
  BY <1>1, HandBackType, Zenon DEF Throw, TasksOK
<1>3. TasksOK'
  BY <1>1, TaskSteps, Zenon DEF Throw, TaskPC, MessageStatus
<1> QED
  BY <1>2, <1>3

\* The roll-up is a message status.
LEMMA SummaryType == Summary \in MessageStatus
BY DEF Summary, MessageStatus

\* Every step keeps the types.
LEMMA TypeStep == TypeOK /\ [Next]_vars => TypeOK'
<1> SUFFICES ASSUME TypeOK, [Next]_vars PROVE TypeOK'
  OBVIOUS
<1> USE BoundsAssumption, RestTypes, SummaryType
<1> USE DEF TypeOK, queue, rowVars
<1>1. CASE CreateMessage
  BY <1>1 DEF CreateMessage, MessageStatus
<1>2. CASE CreateRows
  BY <1>2 DEF CreateRows, RowStatus
<1>3. ASSUME NEW S \in SUBSET Rows, EnqueueRows(S) PROVE TypeOK'
  BY <1>3, EnqueueAllType DEF EnqueueRows, Counts
<1>4. CASE RequestDies
  BY <1>4 DEF RequestDies
<1>5. CASE DeleteSender
  BY <1>5 DEF DeleteSender, MessageStatus, RowStatus
<1>6. ASSUME NEW w \in Workers, Consume(w) PROVE TypeOK'
  <2> USE DEF TaskPC
  <2>0. TasksOK /\ Summary \in MessageStatus /\ "NONE" \in MessageStatus
    BY DEF TasksOK, MessageStatus
  <2>1. CASE ReadRow(w)
    <3>1. attempts[task[w].row] \in Nat
      BY <2>1 DEF ReadRow
    <3>2. TasksOK'
      BY <2>0, <2>1, <3>1, TaskSteps DEF ReadRow
    <3> QED
      BY <2>1, <3>2 DEF ReadRow, TasksOK
  <2>2. CASE SendAccepted(w)
    <3>1. TasksOK'
      BY <2>0, <2>2, TaskSteps DEF SendAccepted
    <3> QED
      BY <2>2, <3>1 DEF SendAccepted, TasksOK
  <2>3. ASSUME NEW p \in BOOLEAN, SendRefused(w, p) PROVE TypeOK'
    <3>1. TasksOK'
      BY <2>0, <2>3, TaskSteps DEF SendRefused
    <3> QED
      BY <2>3, <3>1 DEF SendRefused, TasksOK
  <2>4. CASE RecordOutcome(w)
    <3>1. task[w].pc # "idle" /\ task[w].row \in Rows
      BY <2>4 DEF RecordOutcome
    <3>2. CASE status[task[w].row] = "GONE"
      BY <2>4, <3>1, <3>2, ThrowTypes DEF RecordOutcome, TasksOK, Counts
    <3>3. CASE status[task[w].row] # "GONE"
      <4>1. TasksOK'
        BY <2>0, <2>4, <3>1, <3>3, TaskSteps, Zenon DEF RecordOutcome
      <4>2. /\ status' = [status EXCEPT ![task[w].row] =
                             IF task[w].pc = "sent" THEN "SENT" ELSE "FAILED"]
            /\ claim' = [claim EXCEPT ![task[w].row] = "none"]
            /\ hidden' = hidden
            /\ UNCHANGED <<request, message, attempts, due, ready, delayed,
                           sweep, accepted, faults>>
        BY <2>4, <3>3, Zenon DEF RecordOutcome
      <4> QED
        BY <3>1, <4>1, <4>2 DEF TasksOK, RowStatus
    <3> QED
      BY <3>2, <3>3
  <2>5. CASE RecordRetry(w)
    <3>1. task[w].pc # "idle" /\ task[w].row \in Rows
      BY <2>5 DEF RecordRetry
    <3>2. CASE status[task[w].row] = "GONE"
      BY <2>5, <3>1, <3>2, ThrowTypes DEF RecordRetry, TasksOK, Counts
    <3>3. CASE status[task[w].row] # "GONE"
      <4>1. TasksOK'
        BY <2>0, <2>5, <3>1, <3>3, TaskSteps, Zenon DEF RecordRetry
      <4>2. /\ claim' = [claim EXCEPT ![task[w].row] = "none"]
            /\ due' = [due EXCEPT ![task[w].row] = "waiting"]
            /\ hidden' = hidden
            /\ UNCHANGED <<request, message, status, attempts, ready, delayed,
                           sweep, accepted, faults>>
        BY <2>5, <3>3, Zenon DEF RecordRetry
      <4> QED
        BY <3>1, <4>1, <4>2 DEF TasksOK
    <3> QED
      BY <3>2, <3>3
  <2>6. CASE RetryJob(w)
    <3>1. TasksOK'
      BY <2>0, <2>6, TaskSteps DEF RetryJob
    <3>2. delayed' \in Counts
      BY <2>0, <2>6, HandBackType DEF RetryJob, TasksOK, Counts
    <3> QED
      BY <2>6, <3>1, <3>2 DEF RetryJob, TasksOK, Counts
  <2>7. CASE CountRows(w)
    <3>1. TasksOK'
      BY <2>0, <2>7, TaskSteps DEF CountRows
    <3> QED
      BY <2>7, <3>1 DEF CountRows, TasksOK
  <2>8. CASE WriteMessage(w)
    <3>1. task[w].pc # "idle" /\ task[w].seen \in MessageStatus
      BY <2>8 DEF WriteMessage, Task
    <3>2. CASE message = "GONE"
      BY <2>8, <3>1, <3>2, ThrowTypes DEF WriteMessage, TasksOK, Counts
    <3>3. CASE message # "GONE"
      <4>1. TasksOK'
        BY <2>0, <2>8, <3>1, <3>3, TaskSteps, Zenon DEF WriteMessage
      <4>2. /\ message' = task[w].seen /\ hidden' = hidden
            /\ UNCHANGED <<request, rowVars, ready, delayed, sweep, accepted,
                           faults>>
        BY <2>8, <3>3, Zenon DEF WriteMessage
      <4> QED
        BY <3>1, <4>1, <4>2 DEF TasksOK
    <3> QED
      BY <3>2, <3>3
  <2> QED
    BY <1>6, <2>1, <2>2, <2>3, <2>4, <2>5, <2>6, <2>7, <2>8 DEF Consume
<1>7. ASSUME NEW w \in Workers, SweepStep(w) PROVE TypeOK'
  <2>0. sweep[w] \in Sweep
    OBVIOUS
  <2>1. CASE SweepStranded(w)
    <3>1. [sweep[w] EXCEPT !.pc = "stuck"] \in Sweep
      BY <2>0 DEF Sweep, SweepPC
    <3>2. ready' \in Counts
      BY <2>1, EnqueueAllType DEF SweepStranded, Counts
    <3> QED
      BY <2>1, <3>1, <3>2 DEF SweepStranded, Counts
  <2>2. CASE SweepStuck(w)
    <3>1. [[sweep[w] EXCEPT !.pc = "close"] EXCEPT !.rows = Stuck] \in Sweep
      BY <2>0 DEF Sweep, SweepPC, Stuck
    <3> QED
      BY <2>2, <3>1 DEF SweepStuck
  <2>3. CASE CloseStuck(w)
    <3>1. [[sweep[w] EXCEPT !.pc = "count"] EXCEPT !.rows = {}] \in Sweep
      BY <2>0 DEF Sweep, SweepPC
    <3> QED
      BY <2>3, <3>1 DEF CloseStuck, RowStatus
  <2>4. CASE SweepCount(w)
    <3>1. [[sweep[w] EXCEPT !.pc = "write"] EXCEPT !.seen = Summary] \in Sweep
      BY <2>0 DEF Sweep, SweepPC
    <3> QED
      BY <2>4, <3>1 DEF SweepCount
  <2>5. CASE SweepWrite(w)
    BY <2>0, <2>5 DEF SweepWrite, Sweep, MessageStatus
  <2> QED
    BY <1>7, <2>1, <2>2, <2>3, <2>4, <2>5 DEF SweepStep
<1>8. ASSUME NEW w \in Workers, NEW d \in Rows, TakeJob(w, d) PROVE TypeOK'
  <2>1. task'[w] = [pc |-> "read", row |-> d, tries |-> 0, job |-> TRUE,
                    seen |-> "NONE"]
    BY <1>8 DEF TakeJob, Idle
  <2>2. task'[w] \in Task
    BY <2>1 DEF Task, TaskPC, MessageStatus
  <2>3. TasksOK'
    BY <1>8, <2>1, <2>2 DEF TakeJob, TasksOK
  <2>4. ready' \in Counts
    BY <1>8 DEF TakeJob, Counts
  <2> QED
    BY <1>8, <2>3, <2>4 DEF TakeJob, TasksOK, Counts
<1>9. ASSUME NEW w \in Workers, NEW d \in Rows, SkipJob(w, d) PROVE TypeOK'
  BY <1>9 DEF SkipJob
<1>10. ASSUME NEW d \in Rows, Clock(d) PROVE TypeOK'
  BY <1>10 DEF Clock, BackoffEnds, Reappear, LeaseLapses, TimePasses
<1>11. ASSUME NEW d \in Rows, LoseJob(d) PROVE TypeOK'
  BY <1>11 DEF LoseJob
<1>12. ASSUME NEW w \in Workers, VisibilityExpires(w) PROVE TypeOK'
  <2>1. ready' \in Counts
    BY <1>12 DEF VisibilityExpires, Counts
  <2>2. task'[w] = [task[w] EXCEPT !.job = FALSE]
    BY <1>12 DEF VisibilityExpires
  <2>3. task'[w] \in Task /\ task'[w].row = task[w].row
        /\ task'[w].pc = task[w].pc
    BY <2>2 DEF Task
  <2>4. TasksOK'
    BY <1>12, <2>3 DEF VisibilityExpires, TasksOK
  <2> QED
    BY <1>12, <2>1, <2>4 DEF VisibilityExpires, TasksOK, Counts
<1>13. ASSUME NEW w \in Workers, DatabaseFails(w) PROVE TypeOK'
  BY <1>13, ThrowTypes DEF DatabaseFails, TasksOK, Counts
<1>14. ASSUME NEW w \in Workers, SweepFails(w) PROVE TypeOK'
  BY <1>14 DEF SweepFails
<1>15. ASSUME NEW w \in Workers, Crash(w) PROVE TypeOK'
  <2>1. hidden' \in Counts
    BY <1>15, HandBackType DEF Crash, Counts
  <2> QED
    BY <1>15, <2>1 DEF Crash, Counts, Idle
<1>16. ASSUME NEW w \in Workers, AnswerLost(w) PROVE TypeOK'
  <2>1. TasksOK'
    BY <1>16, TaskSteps DEF AnswerLost, TasksOK, TaskPC, MessageStatus
  <2> QED
    BY <1>16, <2>1 DEF AnswerLost, TasksOK
<1>17. CASE UNCHANGED vars
  BY <1>17 DEF vars
<1> QED
  BY <1>1, <1>2, <1>3, <1>4, <1>5, <1>6, <1>7, <1>8, <1>9, <1>10, <1>11,
     <1>12, <1>13, <1>14, <1>15, <1>16, <1>17 DEF Next, Request, Environment

\* Every variable of the delivery engine keeps its type.
THEOREM TypeCorrect == Spec => []TypeOK
<1>1. Init => TypeOK
  <2>1. Idle.pc = "idle"
    BY DEF Idle
  <2> QED
    BY <2>1, BoundsAssumption, RestTypes
       DEF Init, TypeOK, RowStatus, MessageStatus
<1> QED
  BY <1>1, TypeStep, PTL DEF Spec

-----------------------------------------------------------------------------
(* The lease.  TypeOK says nothing of who may hold a row, so none of the    *)
(* safety invariants is inductive alone: SoleSender needs that a held row   *)
(* that is still PENDING shows a live claim, AtMostOncePerFault that an     *)
(* attempt that has not been accepted yet started from a row without an     *)
(* unrecorded acceptance, AttemptsBounded that a retry is decided on the    *)
(* counter the row still has.                                               *)

Unheld(d) == \A w \in Workers : ~Holds(w, d)

\* What w knows of the row d it is at work on.
Attempt(w, d) ==
  /\ status[d] = "PENDING" => claim[d] = "live"
  /\ task[w].pc # "sent" => accepted[d] <= faults
  /\ task[w].pc # "read" => task[w].tries = attempts[d]
  /\ task[w].pc = "putOff" => task[w].tries < MaxAttempts

RowInv(d) ==
  /\ status[d] = "ABSENT" => accepted[d] = 0 /\ attempts[d] = 0 /\ Unheld(d)
  /\ status[d] = "PENDING" /\ Unheld(d)
       => accepted[d] <= faults /\ attempts[d] < MaxAttempts + faults
  /\ accepted[d] <= faults + 1 /\ attempts[d] <= MaxAttempts + faults
  /\ \A v, w \in Workers : Holds(v, d) /\ Holds(w, d) => v = w
  /\ \A w \in Workers : Holds(w, d) => Attempt(w, d)

\* The rows do not exist before the request creates them, and the sweeper
\* closes only rows that did.
Created ==
  /\ request \in {"start", "message"} => \A d \in Rows : status[d] = "ABSENT"
  /\ \A w \in Workers : \A d \in sweep[w].rows : status[d] # "ABSENT"

LeaseInv == TypeOK /\ Created /\ \A d \in Rows : RowInv(d)

\* A step that leaves the row and the attempts on it alone keeps RowInv; the
\* claim of a row nobody holds may change.
LEMMA RowFrame ==
  ASSUME NEW d \in Rows, TypeOK, RowInv(d), faults' \in Nat, faults' >= faults,
         status'[d] = status[d], attempts'[d] = attempts[d],
         accepted'[d] = accepted[d],
         Unheld(d) \/ claim'[d] = claim[d],
         \A w \in Workers : Holds(w, d) \/ Holds(w, d)'
                             => /\ task'[w].pc = task[w].pc
                                /\ task'[w].row = task[w].row
                                /\ task'[w].tries = task[w].tries
  PROVE  RowInv(d)'
<1>1. \A w \in Workers : Holds(w, d)' <=> Holds(w, d)
  BY DEF Holds
<1>2. Unheld(d)' <=> Unheld(d)
  BY <1>1 DEF Unheld
<1>3. accepted[d] \in Nat /\ attempts[d] \in Nat /\ faults \in Nat
  BY DEF TypeOK
<1>4. \A w \in Workers : Holds(w, d)' => Attempt(w, d)'
  BY <1>1, <1>3 DEF RowInv, Attempt, Unheld
<1> QED
  BY <1>1, <1>2, <1>3, <1>4, AttemptsAssumption DEF RowInv

\* An attempt that moves on, w's on row d, is still the only one on the row.
LEMMA AttemptMoves ==
  ASSUME NEW d \in Rows, NEW w \in Workers, TypeOK, RowInv(d), Holds(w, d),
         status[d] # "ABSENT", status'[d] = status[d], claim'[d] = claim[d],
         attempts'[d] = attempts[d], accepted'[d] \in Nat,
         faults' \in Nat, faults' >= faults, accepted'[d] <= faults' + 1,
         \A v \in Workers : v # w => task'[v] = task[v],
         Holds(w, d)', Attempt(w, d)'
  PROVE  RowInv(d)'
<1>1. \A v \in Workers : Holds(v, d)' => v = w
  BY DEF RowInv, Holds
<1>2. ~Unheld(d)'
  BY DEF Unheld
<1>3. attempts[d] \in Nat /\ faults \in Nat
  BY DEF TypeOK
<1> QED
  BY <1>1, <1>2, <1>3, AttemptsAssumption DEF RowInv

\* An attempt that ends leaves the row unheld.
LEMMA AttemptEnds ==
  ASSUME NEW d \in Rows, NEW w \in Workers, TypeOK, RowInv(d), Holds(w, d),
         status[d] # "ABSENT", status'[d] # "ABSENT",
         attempts'[d] = attempts[d], accepted'[d] = accepted[d],
         faults' \in Nat, faults' >= faults,
         \A v \in Workers : v # w => task'[v] = task[v],
         ~Holds(w, d)',
         status'[d] = "PENDING" => /\ accepted[d] <= faults'
                                   /\ attempts[d] < MaxAttempts + faults'
  PROVE  RowInv(d)'
<1>1. Unheld(d)'
  BY DEF RowInv, Unheld, Holds
<1>2. accepted[d] \in Nat /\ attempts[d] \in Nat /\ faults \in Nat
  BY DEF TypeOK
<1> QED
  BY <1>1, <1>2, AttemptsAssumption DEF RowInv, Unheld

\* The step of one consumer keeps RowInv of every row.
LEMMA ConsumeRow ==
  ASSUME TypeOK, TypeOK', NEW d \in Rows, RowInv(d), NEW w \in Workers,
         Consume(w)
  PROVE  RowInv(d)'
<1> USE DEF queue, rowVars
<1>0. faults \in Nat /\ accepted[d] \in Nat /\ attempts[d] \in Nat
      /\ task[w] \in Task /\ task'[w] \in Task
  BY DEF TypeOK
<1>1. CASE ReadRow(w)
  <2>1. CASE task[w].row # d
    BY <1>0, <1>1, <2>1, RowFrame DEF ReadRow, Holds, Idle, TypeOK
  <2>2. CASE task[w].row = d /\ status[d] = "GONE"
    <3>1. Holds(w, d) /\ ~Holds(w, d)'
      BY <1>1, <2>2 DEF ReadRow, Holds, Idle, TypeOK
    <3> QED
      BY <1>0, <1>1, <2>2, <3>1, AttemptEnds DEF ReadRow, TypeOK
  <2>3. CASE task[w].row = d /\ status[d] # "GONE"
    <3>1. Holds(w, d)
      BY <1>1, <2>3 DEF ReadRow, Holds
    <3>2. task'[w].pc = "send" /\ task'[w].row = d
          /\ task'[w].tries = attempts[d]
      BY <1>1, <2>3 DEF ReadRow, TypeOK, Task
    <3>3. Holds(w, d)' /\ Attempt(w, d)'
      BY <1>1, <3>1, <3>2 DEF ReadRow, Holds, Attempt, RowInv
    <3>4. status[d] # "ABSENT"
      BY <3>1 DEF RowInv, Unheld
    <3> QED
      BY <1>0, <1>1, <3>1, <3>3, <3>4, AttemptMoves
         DEF ReadRow, RowInv, TypeOK
  <2> QED
    BY <2>1, <2>2, <2>3
<1>2. CASE SendAccepted(w)
  <2>1. CASE task[w].row # d
    BY <1>0, <1>2, <2>1, RowFrame DEF SendAccepted, Holds, TypeOK
  <2>2. CASE task[w].row = d
    <3>1. Holds(w, d)
      BY <1>2, <2>2 DEF SendAccepted, Holds
    <3>2. task'[w].pc = "sent" /\ task'[w].row = d
          /\ task'[w].tries = task[w].tries
      BY <1>2, <2>2 DEF SendAccepted, TypeOK, Task
    <3>3. accepted'[d] = accepted[d] + 1 /\ accepted[d] <= faults
      BY <1>2, <2>2, <3>1 DEF SendAccepted, TypeOK, RowInv, Attempt
    <3>4. Holds(w, d)' /\ Attempt(w, d)'
      BY <1>2, <3>1, <3>2 DEF SendAccepted, Holds, Attempt, RowInv
    <3>5. status[d] # "ABSENT"
      BY <3>1 DEF RowInv, Unheld
    <3> QED
      BY <1>0, <1>2, <3>1, <3>3, <3>4, <3>5, AttemptMoves
         DEF SendAccepted, TypeOK
  <2> QED
    BY <2>1, <2>2
<1>3. ASSUME NEW p \in BOOLEAN, SendRefused(w, p) PROVE RowInv(d)'
  <2>1. CASE task[w].row # d
    BY <1>0, <1>3, <2>1, RowFrame DEF SendRefused, Holds, TypeOK
  <2>2. CASE task[w].row = d
    <3>1. Holds(w, d)
      BY <1>3, <2>2 DEF SendRefused, Holds
    <3>2. /\ task'[w].pc \in {"refused", "putOff"}
          /\ task'[w].pc = "putOff" => task[w].tries < MaxAttempts
          /\ task'[w].row = d /\ task'[w].tries = task[w].tries
      BY <1>0, <1>3, <2>2, AttemptsAssumption
         DEF SendRefused, GivesUp, TypeOK, Task
    <3>3. Holds(w, d)' /\ Attempt(w, d)'
      BY <1>3, <3>1, <3>2 DEF SendRefused, Holds, Attempt, RowInv
    <3>4. status[d] # "ABSENT"
      BY <3>1 DEF RowInv, Unheld
    <3> QED
      BY <1>0, <1>3, <3>1, <3>3, <3>4, AttemptMoves
         DEF SendRefused, RowInv, TypeOK
  <2> QED
    BY <2>1, <2>2
<1>4. CASE RecordOutcome(w)
  <2>1. CASE task[w].row # d
    <3>1. ~Holds(w, d) /\ ~Holds(w, d)'
      BY <1>4, <2>1 DEF RecordOutcome, Throw, Holds, Idle, TypeOK, Task
    <3>2. status'[d] = status[d] /\ claim'[d] = claim[d]
      BY <1>4, <2>1 DEF RecordOutcome, TypeOK
    <3>3. \A v \in Workers : v # w => task'[v] = task[v]
      BY <1>4 DEF RecordOutcome, Throw, TypeOK
    <3> QED
      BY <1>0, <1>4, <3>1, <3>2, <3>3, RowFrame DEF RecordOutcome, Holds
  <2>2. CASE task[w].row = d
    <3>1. Holds(w, d) /\ ~Holds(w, d)'
      BY <1>4, <2>2 DEF RecordOutcome, Throw, Holds, Idle, TypeOK, Task
    <3>2. status'[d] \in {"SENT", "FAILED", "GONE"}
      BY <1>4, <2>2 DEF RecordOutcome, TypeOK
    <3>3. status[d] # "ABSENT"
      BY <3>1 DEF RowInv, Unheld
    <3>4. \A v \in Workers : v # w => task'[v] = task[v]
      BY <1>4 DEF RecordOutcome, Throw, TypeOK
    <3> QED
      BY <1>0, <1>4, <3>1, <3>2, <3>3, <3>4, AttemptEnds DEF RecordOutcome
  <2> QED
    BY <2>1, <2>2
<1>5. CASE RecordRetry(w)
  <2>1. CASE task[w].row # d
    <3>1. ~Holds(w, d) /\ ~Holds(w, d)'
      BY <1>5, <2>1 DEF RecordRetry, Throw, Holds, Idle, TypeOK, Task
    <3>2. claim'[d] = claim[d]
      BY <1>5, <2>1 DEF RecordRetry, TypeOK
    <3>3. \A v \in Workers : v # w => task'[v] = task[v]
      BY <1>5 DEF RecordRetry, Throw, TypeOK
    <3> QED
      BY <1>0, <1>5, <3>1, <3>2, <3>3, RowFrame DEF RecordRetry, Holds
  <2>2. CASE task[w].row = d
    <3>1. Holds(w, d) /\ ~Holds(w, d)'
      BY <1>5, <2>2 DEF RecordRetry, Throw, Holds, Idle, TypeOK, Task
    <3>2. accepted[d] <= faults /\ attempts[d] < MaxAttempts
      BY <1>5, <3>1 DEF RecordRetry, RowInv, Attempt
    <3>3. status[d] # "ABSENT"
      BY <3>1 DEF RowInv, Unheld
    <3>4. \A v \in Workers : v # w => task'[v] = task[v]
      BY <1>5 DEF RecordRetry, Throw, TypeOK
    <3> QED
      BY <1>0, <1>5, <3>1, <3>2, <3>3, <3>4, AttemptEnds, AttemptsAssumption
         DEF RecordRetry
  <2> QED
    BY <2>1, <2>2
<1>6. CASE RetryJob(w) \/ CountRows(w) \/ WriteMessage(w)
  <2> USE DEF RetryJob, CountRows, WriteMessage
  <2>1. ~Holds(w, d) /\ ~Holds(w, d)'
    <3>1. task[w].pc \in {"requeue", "count", "write"}
          /\ task'[w].pc \in {"idle", "write"}
      BY <1>6 DEF Throw, Idle, TypeOK, Task
    <3> QED
      BY <3>1 DEF Holds
  <2>2. \A v \in Workers : v # w => task'[v] = task[v]
    BY <1>6 DEF Throw, TypeOK
  <2>3. UNCHANGED <<status, claim, attempts, accepted, faults>>
    BY <1>6
  <2> QED
    BY <1>0, <2>1, <2>2, <2>3, RowFrame DEF Holds
<1> QED
  BY <1>1, <1>2, <1>3, <1>4, <1>5, <1>6 DEF Consume

\* A worker that gives up its attempt because of a fault leaves every row with
\* one fault more to account for it.
LEMMA FaultRow ==
  ASSUME TypeOK, TypeOK', NEW d \in Rows, RowInv(d), NEW w \in Workers,
         task' = [task EXCEPT ![w] = Idle], faults' = faults + 1,
         UNCHANGED <<status, attempts, claim, accepted>>
  PROVE  RowInv(d)'
<1>0. faults \in Nat /\ accepted[d] \in Nat /\ attempts[d] \in Nat
  BY DEF TypeOK
<1>1. ~Holds(w, d)' /\ \A v \in Workers : v # w => task'[v] = task[v]
  BY DEF Holds, Idle, TypeOK
<1>2. CASE Holds(w, d)
  <2>1. status[d] # "ABSENT"
    BY <1>2 DEF RowInv, Unheld
  <2>2. accepted[d] <= faults + 1 /\ attempts[d] <= MaxAttempts + faults
    BY DEF RowInv
  <2> QED
    BY <1>0, <1>1, <1>2, <2>1, <2>2, AttemptEnds, AttemptsAssumption
<1>3. CASE ~Holds(w, d)
  BY <1>0, <1>1, <1>3, RowFrame DEF Holds
<1> QED
  BY <1>2, <1>3

\* An answer that is lost: one acceptance more, and the fault that accounts
\* for it.
LEMMA AnswerRow ==
  ASSUME TypeOK, TypeOK', NEW d \in Rows, RowInv(d), NEW w \in Workers,
         AnswerLost(w)
  PROVE  RowInv(d)'
<1> USE DEF queue, rowVars
<1>0. /\ faults \in Nat /\ faults' \in Nat /\ faults' = faults + 1
      /\ accepted[d] \in Nat /\ accepted'[d] \in Nat
      /\ attempts[d] \in Nat /\ task[w] \in Task /\ task'[w] \in Task
  BY DEF TypeOK, AnswerLost
<1>1. /\ UNCHANGED <<status, attempts, claim>>
      /\ \A v \in Workers : v # w => task'[v] = task[v]
      /\ task[w].pc = "send" /\ task'[w].row = task[w].row
      /\ task'[w].tries = task[w].tries
  BY <1>0 DEF AnswerLost, TypeOK, Task
<1>2. /\ task'[w].pc \in {"refused", "putOff"}
      /\ task'[w].pc = "putOff" => task[w].tries < MaxAttempts
  BY <1>0, AttemptsAssumption DEF AnswerLost, GivesUp, TypeOK, Task
<1>3. faults' >= faults
  BY <1>0
<1>4. CASE task[w].row # d
  <2>1. accepted'[d] = accepted[d]
    BY <1>4 DEF AnswerLost, TypeOK
  <2>2. \A v \in Workers : Holds(v, d) \/ Holds(v, d)' => task'[v] = task[v]
    BY <1>1, <1>4 DEF Holds
  <2> QED
    BY <1>0, <1>1, <1>3, <2>1, <2>2, RowFrame
<1>5. CASE task[w].row = d
  <2>1. Holds(w, d) /\ Holds(w, d)'
    BY <1>1, <1>2, <1>5 DEF Holds
  <2>2. Attempt(w, d) /\ status[d] # "ABSENT"
    BY <2>1 DEF RowInv, Unheld
  <2>3. accepted'[d] = accepted[d] + 1
    BY <1>5 DEF AnswerLost, TypeOK
  <2>4. accepted[d] <= faults
    BY <1>1, <2>2 DEF Attempt
  <2>5. accepted'[d] <= faults' /\ accepted'[d] <= faults' + 1
    BY <1>0, <2>3, <2>4
  <2>6. Attempt(w, d)'
    BY <1>1, <1>2, <2>2, <2>5 DEF Attempt
  <2> QED
    BY <1>0, <1>1, <1>3, <2>1, <2>2, <2>5, <2>6, AttemptMoves
<1> QED
  BY <1>4, <1>5

\* Taking a job: the claim is granted only on a row nobody holds.
LEMMA TakeRow ==
  ASSUME TypeOK, TypeOK', NEW d \in Rows, RowInv(d), NEW w \in Workers,
         NEW e \in Rows, TakeJob(w, e)
  PROVE  RowInv(d)'
<1>0. /\ faults \in Nat /\ accepted[d] \in Nat /\ attempts[d] \in Nat
      /\ task'[w] = [Idle EXCEPT !.pc = "read", !.row = e, !.job = TRUE]
      /\ \A v \in Workers : v # w => task'[v] = task[v]
      /\ UNCHANGED <<status, accepted, faults>>
  BY DEF TakeJob, TypeOK
<1>1. task'[w].pc = "read" /\ task'[w].row = e
  BY <1>0 DEF Idle
<1>2. CASE d # e
  <2>1. claim'[d] = claim[d] /\ attempts'[d] = attempts[d]
    BY <1>2 DEF TakeJob, TypeOK
  <2>2. ~Holds(w, d) /\ ~Holds(w, d)'
    BY <1>1, <1>2 DEF TakeJob, Holds
  <2>3. \A v \in Workers : Holds(v, d) \/ Holds(v, d)' => task'[v] = task[v]
    BY <1>0, <2>2
  <2>4. status'[d] = status[d] /\ accepted'[d] = accepted[d]
        /\ faults' = faults
    BY <1>0
  <2> QED
    BY <1>0, <2>1, <2>3, <2>4, RowFrame
<1>3. CASE d = e
  <2>1. Unheld(d) /\ status[d] = "PENDING"
    BY <1>3 DEF TakeJob, Claimable, Unheld, RowInv, Attempt
  <2>2. accepted[d] <= faults /\ attempts[d] < MaxAttempts + faults
    BY <2>1 DEF RowInv
  <2>3. claim'[d] = "live" /\ attempts'[d] = attempts[d] + 1
    BY <1>3 DEF TakeJob, TypeOK
  <2>4. Holds(w, d)' /\ ~Unheld(d)'
    BY <1>1, <1>3 DEF Holds, Unheld
  <2>5. Attempt(w, d)'
    BY <1>0, <1>1, <2>2, <2>3 DEF Attempt
  <2>6. \A v \in Workers : Holds(v, d)' => v = w
    BY <1>0, <2>1 DEF Holds, Unheld
  <2> QED
    BY <1>0, <2>1, <2>2, <2>3, <2>4, <2>5, <2>6, AttemptsAssumption DEF RowInv
<1> QED
  BY <1>2, <1>3

\* Steps of the request, the queue, the clock and the sweepers.
LEMMA OtherRow ==
  ASSUME ~SlowSends, TypeOK, TypeOK', Created, NEW d \in Rows, RowInv(d),
         \/ Request \/ RequestDies \/ DeleteSender
         \/ \E e \in Rows : Clock(e) \/ LoseJob(e)
         \/ \E w \in Workers : \/ SweepStep(w) \/ SweepFails(w)
                               \/ VisibilityExpires(w)
                               \/ \E e \in Rows : SkipJob(w, e)
         \/ UNCHANGED vars
  PROVE  RowInv(d)'
<1> USE DEF queue, rowVars
<1>0. faults \in Nat /\ faults' \in Nat /\ accepted[d] \in Nat
      /\ attempts[d] \in Nat
  BY DEF TypeOK
<1>1. ASSUME UNCHANGED <<status, attempts, claim, accepted, task>>,
             faults' >= faults
      PROVE  RowInv(d)'
  BY <1>0, <1>1, RowFrame
<1>2. CASE CreateRows
  <2>1. status[d] = "ABSENT" /\ status'[d] = "PENDING"
    BY <1>2 DEF CreateRows, Created
  <2>2. Unheld(d) /\ Unheld(d)' /\ accepted'[d] = 0 /\ attempts'[d] = 0
        /\ faults' = faults
    BY <1>2, <2>1 DEF CreateRows, RowInv, Unheld, Holds
  <2> QED
    BY <1>0, <2>1, <2>2, AttemptsAssumption DEF RowInv, Unheld
<1>3. CASE DeleteSender
  <2>1. CASE status[d] = "ABSENT"
    <3>1. status'[d] = status[d]
      BY <1>3, <2>1 DEF DeleteSender
    <3> QED
      BY <1>0, <1>3, <3>1, RowFrame DEF DeleteSender
  <2>2. CASE status[d] # "ABSENT"
    <3>1. status'[d] = "GONE"
      BY <1>3, <2>2 DEF DeleteSender
    <3> QED
      BY <1>0, <1>3, <3>1 DEF DeleteSender, RowInv, Attempt, Unheld, Holds
  <2> QED
    BY <2>1, <2>2
<1>4. ASSUME NEW e \in Rows, LeaseLapses(e) PROVE RowInv(d)'
  <2>1. Unheld(d) \/ claim'[d] = claim[d]
    BY <1>4 DEF LeaseLapses, Unheld, TypeOK
  <2> QED
    BY <1>0, <1>4, <2>1, RowFrame DEF LeaseLapses
<1>5. ASSUME NEW w \in Workers, CloseStuck(w) PROVE RowInv(d)'
  <2>1. CASE d \in sweep[w].rows /\ status[d] # "GONE"
    <3>1. status[d] # "ABSENT" /\ status'[d] = "FAILED"
      BY <1>5, <2>1 DEF CloseStuck, Created
    <3> QED
      BY <1>0, <1>5, <3>1 DEF CloseStuck, RowInv, Attempt, Unheld, Holds
  <2>2. CASE ~(d \in sweep[w].rows /\ status[d] # "GONE")
    <3>1. status'[d] = status[d] /\ claim'[d] = claim[d]
      BY <1>5, <2>2 DEF CloseStuck
    <3> QED
      BY <1>0, <1>5, <3>1, RowFrame DEF CloseStuck
  <2> QED
    BY <2>1, <2>2
<1>6. ASSUME NEW w \in Workers, VisibilityExpires(w) PROVE RowInv(d)'
  <2>1. \A v \in Workers : /\ task'[v].pc = task[v].pc
                           /\ task'[v].row = task[v].row
                           /\ task'[v].tries = task[v].tries
    BY <1>6 DEF VisibilityExpires, TypeOK, Task
  <2> QED
    BY <1>0, <1>6, <2>1, RowFrame DEF VisibilityExpires
<1>7. CASE \/ CreateMessage \/ RequestDies
           \/ \E S \in SUBSET Rows : EnqueueRows(S)
  BY <1>0, <1>1, <1>7 DEF CreateMessage, RequestDies, EnqueueRows
<1>8. ASSUME NEW e \in Rows,
             BackoffEnds(e) \/ Reappear(e) \/ TimePasses(e) \/ LoseJob(e)
      PROVE  RowInv(d)'
  BY <1>0, <1>1, <1>8 DEF BackoffEnds, Reappear, TimePasses, LoseJob
<1>9. ASSUME NEW w \in Workers,
             \/ SweepStranded(w) \/ SweepStuck(w) \/ SweepCount(w)
             \/ SweepWrite(w) \/ SweepFails(w)
             \/ \E e \in Rows : SkipJob(w, e)
      PROVE  RowInv(d)'
  BY <1>0, <1>1, <1>9
     DEF SweepStranded, SweepStuck, SweepCount, SweepWrite, SweepFails, SkipJob
<1>10. CASE UNCHANGED vars
  BY <1>0, <1>1, <1>10 DEF vars
<1> QED
  BY <1>2, <1>3, <1>4, <1>5, <1>6, <1>7, <1>8, <1>9, <1>10
     DEF Request, Clock, SweepStep

\* Rows come into being together and never stop to have existed.
LEMMA CreatedStep == LeaseInv /\ [Next]_vars => Created'
<1> SUFFICES ASSUME TypeOK, Created, \A d \in Rows : RowInv(d), [Next]_vars
             PROVE  Created'
  BY DEF LeaseInv
<1> USE DEF queue, rowVars
<1>1. CASE Request
  <2>1. CASE CreateRows
    BY <2>1 DEF CreateRows, Created, TypeOK, Sweep
  <2>2. CASE CreateMessage \/ \E S \in SUBSET Rows : EnqueueRows(S)
    BY <2>2 DEF CreateMessage, EnqueueRows, Created
  <2> QED
    BY <1>1, <2>1, <2>2 DEF Request
<1>2. CASE RequestDies \/ DeleteSender
  <2>1. CASE RequestDies
    BY <2>1 DEF RequestDies, Created
  <2>2. CASE DeleteSender
    BY <2>2 DEF DeleteSender, Created, TypeOK, Sweep
  <2> QED
    BY <1>2, <2>1, <2>2
<1>3. ASSUME NEW w \in Workers, Consume(w) PROVE Created'
  <2>1. UNCHANGED <<request, sweep>>
    BY <1>3 DEF Consume, ReadRow, SendAccepted, SendRefused, RecordOutcome,
                RecordRetry, RetryJob, CountRows, WriteMessage
  <2>2. status' = status \/ RecordOutcome(w)
    BY <1>3 DEF Consume, ReadRow, SendAccepted, SendRefused, RecordRetry,
                RetryJob, CountRows, WriteMessage
  <2>3. CASE status' = status
    BY <2>1, <2>3 DEF Created
  <2>4. CASE RecordOutcome(w)
    <3> DEFINE r == task[w].row
    <3>1. r \in Rows /\ Holds(w, r)
      BY <2>4 DEF RecordOutcome, Holds, TypeOK
    <3>2. status[r] # "ABSENT" /\ ~(request \in {"start", "message"})
      BY <3>1 DEF RowInv, Unheld, Created
    <3>3. \A d \in Rows : status[d] # "ABSENT" => status'[d] # "ABSENT"
      BY <2>4 DEF RecordOutcome, TypeOK
    <3> QED
      BY <2>1, <3>2, <3>3 DEF Created, TypeOK, Sweep
  <2> QED
    BY <2>2, <2>3, <2>4
<1>4. ASSUME NEW w \in Workers, SweepStuck(w) PROVE Created'
  BY <1>4 DEF SweepStuck, Created, Resting, Stuck, Claimable, TypeOK
<1>5. ASSUME NEW w \in Workers, CloseStuck(w) PROVE Created'
  BY <1>5 DEF CloseStuck, Created, TypeOK, Sweep
<1>6. ASSUME NEW w \in Workers,
             \/ SweepStranded(w) \/ SweepCount(w) \/ SweepWrite(w)
             \/ SweepFails(w) \/ Crash(w)
      PROVE  Created'
  <2>1. UNCHANGED <<request, status>>
    BY <1>6 DEF SweepStranded, SweepCount, SweepWrite, SweepFails, Crash
  <2>2. ASSUME NEW v \in Workers PROVE sweep'[v].rows \in {{}, sweep[v].rows}
    <3>1. sweep[v] \in Sweep
      BY DEF TypeOK
    <3>2. CASE SweepStranded(w) \/ SweepCount(w)
      BY <3>1, <3>2 DEF SweepStranded, SweepCount, TypeOK, Sweep
    <3>3. CASE SweepWrite(w) \/ SweepFails(w) \/ Crash(w)
      BY <3>3 DEF SweepWrite, SweepFails, Crash, Resting, TypeOK
    <3> QED
      BY <1>6, <3>2, <3>3
  <2> QED
    BY <2>1, <2>2 DEF Created
<1>7. ASSUME NEW w \in Workers, NEW d \in Rows, TakeJob(w, d) \/ SkipJob(w, d)
      PROVE  Created'
  BY <1>7 DEF TakeJob, SkipJob, Created
<1>8. ASSUME NEW d \in Rows, Clock(d) \/ LoseJob(d) PROVE Created'
  <2>1. UNCHANGED <<request, status, sweep>>
    BY <1>8 DEF Clock, BackoffEnds, Reappear, LeaseLapses, TimePasses, LoseJob
  <2> QED
    BY <2>1 DEF Created
<1>9. ASSUME NEW w \in Workers,
             VisibilityExpires(w) \/ AnswerLost(w) \/ DatabaseFails(w)
      PROVE  Created'
  BY <1>9 DEF VisibilityExpires, AnswerLost, DatabaseFails, Created
<1>10. CASE UNCHANGED vars
  BY <1>10 DEF vars, Created
<1> QED
  BY <1>1, <1>2, <1>3, <1>4, <1>5, <1>6, <1>7, <1>8, <1>9, <1>10
     DEF Next, SweepStep, Environment

LEMMA LeaseStep ==
  ASSUME ~SlowSends PROVE LeaseInv /\ [Next]_vars => LeaseInv'
<1> SUFFICES ASSUME LeaseInv, [Next]_vars PROVE LeaseInv'
  OBVIOUS
<1>1. TypeOK /\ Created /\ TypeOK' /\ Created'
  BY TypeStep, CreatedStep DEF LeaseInv
<1>2. ASSUME NEW d \in Rows PROVE RowInv(d)'
  <2>0. RowInv(d)
    BY DEF LeaseInv
  <2>1. ASSUME NEW w \in Workers, Consume(w) PROVE RowInv(d)'
    BY <1>1, <2>0, <2>1, ConsumeRow
  <2>2. ASSUME NEW w \in Workers, NEW e \in Rows, TakeJob(w, e)
        PROVE  RowInv(d)'
    BY <1>1, <2>0, <2>2, TakeRow
  <2>3. ASSUME NEW w \in Workers, DatabaseFails(w) \/ Crash(w)
        PROVE  RowInv(d)'
    <3>1. /\ task' = [task EXCEPT ![w] = Idle] /\ faults' = faults + 1
          /\ UNCHANGED <<status, attempts, claim, accepted>>
      BY <2>3 DEF DatabaseFails, Crash, Throw, rowVars
    <3> QED
      BY <1>1, <2>0, <3>1, FaultRow
  <2>4. ASSUME NEW w \in Workers, AnswerLost(w) PROVE RowInv(d)'
    BY <1>1, <2>0, <2>4, AnswerRow
  <2> QED
    BY <1>1, <2>0, <2>1, <2>2, <2>3, <2>4, OtherRow DEF Next, Environment
<1> QED
  BY <1>1, <1>2 DEF LeaseInv

LEMMA LeaseCorrect == ASSUME ~SlowSends PROVE Spec => []LeaseInv
<1>1. Init => LeaseInv
  <2> SUFFICES ASSUME Init PROVE LeaseInv
    OBVIOUS
  <2>1. TypeOK
    BY TypeCorrect, BoundsAssumption, RestTypes
       DEF Init, TypeOK, RowStatus, MessageStatus, Idle
  <2>2. \A w \in Workers, d \in Rows : ~Holds(w, d)
    BY DEF Init, Holds, Idle
  <2> QED
    BY <2>1, <2>2, AttemptsAssumption
       DEF Init, LeaseInv, Created, RowInv, Unheld, Resting
<1> QED
  BY <1>1, LeaseStep, PTL DEF Spec

\* As long as no attempt outlives its lease, the claim of deliverMessageEmail
\* is a mutual exclusion of the attempts on a row.
THEOREM MutualExclusion == ASSUME ~SlowSends PROVE Spec => []SoleSender
<1>1. LeaseInv => SoleSender
  BY DEF LeaseInv, RowInv, SoleSender
<1> QED
  BY <1>1, LeaseCorrect, PTL

\* And a recipient gets no more e-mails than one plus the faults: every
\* duplicate is paid for by a crash, a failed write or a lost answer after an
\* acceptance.
THEOREM DuplicatesPaidFor ==
  ASSUME ~SlowSends PROVE Spec => []AtMostOncePerFault
<1>1. LeaseInv => AtMostOncePerFault
  BY DEF LeaseInv, TypeOK, RowInv, AtMostOncePerFault
<1> QED
  BY <1>1, LeaseCorrect, PTL

\* And the attempt counter passes MESSAGE_EMAIL_MAX_ATTEMPTS by no more than
\* the attempts that were cut off before they could record their failure.
THEOREM AttemptsHold == ASSUME ~SlowSends PROVE Spec => []AttemptsBounded
<1>1. LeaseInv => AttemptsBounded
  BY DEF LeaseInv, RowInv, AttemptsBounded
<1> QED
  BY <1>1, LeaseCorrect, PTL

-----------------------------------------------------------------------------
(* Without faults.  An attempt ends with its outcome recorded, so no row    *)
(* that is PENDING and unclaimed has used up its attempts: the sweepers     *)
(* find nothing to close, the consumers alone settle rows and write the     *)
(* roll-up, and every step is one of the promise or none of its business.   *)

\* A consumer at work has a row; until it has written the outcome, the row is
\* PENDING or was deleted, and after the acceptance its e-mail is counted.
Sound(w) ==
  task[w].pc # "idle" =>
    /\ status[task[w].row] # "ABSENT"
    /\ Holds(w, task[w].row) => status[task[w].row] \in {"PENDING", "GONE"}
    /\ task[w].pc = "sent" => accepted[task[w].row] = 1

\* Sweepers have nothing to close, and rows open together.
Undisturbed ==
  /\ \A w \in Workers : sweep[w].pc \in {"stranded", "stuck"} /\ Sound(w)
  /\ \/ \A d \in Rows : status[d] = "ABSENT"
     \/ \A d \in Rows : status[d] # "ABSENT"

Calm == LeaseInv /\ faults = 0 /\ Undisturbed

\* Nothing dies and nothing is lost.
NoFault == /\ ~RequestDies /\ \A d \in Rows : ~LoseJob(d)
           /\ \A w \in Workers : /\ ~AnswerLost(w) /\ ~DatabaseFails(w)
                                 /\ ~SweepFails(w) /\ ~Crash(w)

LEMMA FaultFree == ASSUME TypeOK, faults' = faults PROVE NoFault
<1>1. faults' # faults + 1
  BY BoundsAssumption DEF TypeOK
<1>2. ~RequestDies /\ \A d \in Rows : ~LoseJob(d)
  BY <1>1 DEF RequestDies, LoseJob
<1>3. \A w \in Workers : ~AnswerLost(w) /\ ~DatabaseFails(w)
  BY <1>1 DEF AnswerLost, DatabaseFails
<1>4. \A w \in Workers : ~SweepFails(w) /\ ~Crash(w)
  BY <1>1 DEF SweepFails, Crash
<1> QED
  BY <1>2, <1>3, <1>4 DEF NoFault

\* A row that may be claimed has an attempt left.
LEMMA NoneStuck == ASSUME LeaseInv, faults = 0 PROVE Stuck = {}
<1> SUFFICES ASSUME NEW d \in Rows, Claimable(d) PROVE attempts[d] < MaxAttempts
  BY AttemptsAssumption DEF Stuck, LeaseInv, TypeOK
<1>1. RowInv(d) /\ status[d] = "PENDING" /\ claim[d] # "live"
  BY DEF LeaseInv, Claimable
<1>2. Unheld(d)
  BY <1>1 DEF RowInv, Attempt, Unheld
<1> QED
  BY <1>1, <1>2, AttemptsAssumption DEF RowInv

\* So the sweepers never close a row nor write a roll-up.
LEMMA SweepersRest ==
  ASSUME Calm, NEW w \in Workers, SweepStep(w)
  PROVE  /\ UNCHANGED <<request, message, rowVars, delayed, hidden, task,
                        accepted, faults>>
         /\ sweep'[w].pc \in {"stranded", "stuck"}
         /\ \A v \in Workers : v # w => sweep'[v] = sweep[v]
<1>1. sweep[w].pc \in {"stranded", "stuck"} /\ sweep \in [Workers -> Sweep]
  BY DEF Calm, Undisturbed, LeaseInv, TypeOK
<1>2. CASE SweepStranded(w)
  BY <1>1, <1>2 DEF SweepStranded, Sweep, queue
<1>3. CASE SweepStuck(w)
  <2>1. sweep' = [sweep EXCEPT ![w] = Resting]
    BY <1>3, NoneStuck DEF SweepStuck, Calm
  <2>2. UNCHANGED <<request, message, rowVars, delayed, hidden, task, accepted,
                    faults>>
    BY <1>3 DEF SweepStuck, queue
  <2>3. /\ sweep'[w].pc = "stranded"
        /\ \A v \in Workers : v # w => sweep'[v] = sweep[v]
    BY <1>1, <2>1 DEF Resting
  <2> QED
    BY <2>2, <2>3
<1> QED
  BY <1>1, <1>2, <1>3 DEF SweepStep, CloseStuck, SweepCount, SweepWrite

\* A consumer that does not move loses nothing when another moves.
LEMMA SoundBystander ==
  ASSUME TypeOK, NEW w \in Workers, Sound(w), task'[w] = task[w],
         task[w].pc # "idle" =>
           /\ status'[task[w].row] # "ABSENT"
           /\ Holds(w, task[w].row)
                => /\ status'[task[w].row] \in {status[task[w].row], "GONE"}
                   /\ accepted'[task[w].row] = accepted[task[w].row]
  PROVE  Sound(w)'
BY DEF Sound, Holds, TypeOK

LEMMA CalmConsume ==
  ASSUME Calm, LeaseInv', NEW w \in Workers, Consume(w)
  PROVE  Undisturbed'
<1> DEFINE d == task[w].row
<1> USE DEF queue, rowVars
<1>0. /\ TypeOK /\ TypeOK' /\ Sound(w) /\ RowInv(d) /\ d \in Rows
      /\ task[w] \in Task /\ task[w].pc # "idle" /\ faults = 0
  BY DEF Calm, LeaseInv, Undisturbed, TypeOK, Consume, ReadRow, SendAccepted,
     SendRefused, RecordOutcome, RecordRetry, RetryJob, CountRows, WriteMessage
<1>1. UNCHANGED sweep /\ \A v \in Workers : v # w => task'[v] = task[v]
  BY <1>0 DEF Consume, ReadRow, SendAccepted, SendRefused, RecordOutcome,
     RecordRetry, RetryJob, CountRows, WriteMessage, Throw, TypeOK
<1>2. /\ \A e \in Rows : e # d => status'[e] = status[e]
                                  /\ accepted'[e] = accepted[e]
      /\ status[d] # "ABSENT" /\ status'[d] # "ABSENT"
  BY <1>0 DEF Consume, ReadRow, SendAccepted, SendRefused, RecordOutcome,
     RecordRetry, RetryJob, CountRows, WriteMessage, Sound, TypeOK
<1>3. ASSUME NEW v \in Workers, v # w PROVE Sound(v)'
  <2>1. ASSUME Holds(v, d)
        PROVE  status'[d] = status[d] /\ accepted'[d] = accepted[d]
    <3>1. ~Holds(w, d)
      BY <1>0, <1>3, <2>1 DEF RowInv
    <3> QED
      BY <1>0, <3>1 DEF Holds, Consume, ReadRow, SendAccepted, SendRefused,
         RecordOutcome, RecordRetry, RetryJob, CountRows, WriteMessage
  <2>2. Sound(v) /\ task'[v] = task[v]
    BY <1>1, <1>3 DEF Calm, Undisturbed
  <2>3. task[v].pc # "idle" => task[v].row \in Rows
    BY <1>0 DEF TypeOK
  <2> QED
    BY <1>0, <1>2, <2>1, <2>2, <2>3, SoundBystander DEF Sound
<1>4. Sound(w)'
  <2>1. CASE ReadRow(w)
    <3>1. CASE status[d] = "GONE"
      BY <1>0, <2>1, <3>1 DEF ReadRow, Idle, Sound, TypeOK
    <3>2. CASE status[d] # "GONE"
      <4>1. task'[w].pc = "send" /\ task'[w].row = d /\ status' = status
        BY <1>0, <2>1, <3>2 DEF ReadRow, TypeOK, Task
      <4> QED
        BY <1>0, <2>1, <4>1 DEF ReadRow, Sound, Holds
    <3> QED
      BY <3>1, <3>2
  <2>2. CASE SendAccepted(w)
    <3>1. /\ task'[w].pc = "sent" /\ task'[w].row = d /\ status' = status
          /\ accepted'[d] = accepted[d] + 1 /\ accepted[d] \in Nat
      BY <1>0, <2>2 DEF SendAccepted, TypeOK, Task
    <3>2. accepted[d] = 0
      BY <1>0, <2>2, <3>1 DEF SendAccepted, Holds, RowInv, Attempt
    <3> QED
      BY <1>0, <2>2, <3>1, <3>2 DEF SendAccepted, Sound, Holds
  <2>3. ASSUME NEW p \in BOOLEAN, SendRefused(w, p) PROVE Sound(w)'
    <3>1. /\ task'[w].pc \in {"refused", "putOff"} /\ task'[w].row = d
          /\ UNCHANGED <<status, accepted>>
      BY <1>0, <2>3 DEF SendRefused, TypeOK, Task
    <3> QED
      BY <1>0, <2>3, <3>1 DEF SendRefused, Sound, Holds
  <2>4. CASE \/ RecordOutcome(w) \/ RecordRetry(w) \/ RetryJob(w)
             \/ CountRows(w) \/ WriteMessage(w)
    <3>1. \/ task'[w].pc = "idle"
          \/ task'[w].pc \in {"count", "requeue", "write"} /\ task'[w].row = d
      BY <1>0, <2>4 DEF RecordOutcome, RecordRetry, RetryJob, CountRows,
         WriteMessage, Throw, Idle, TypeOK, Task
    <3> QED
      BY <1>2, <3>1 DEF Sound, Holds
  <2> QED
    BY <2>1, <2>2, <2>3, <2>4 DEF Consume
<1>5. \A e \in Rows : status'[e] # "ABSENT"
  BY <1>0, <1>2 DEF Calm, Undisturbed
<1> QED
  BY <1>1, <1>3, <1>4, <1>5 DEF Calm, Undisturbed

LEMMA CalmStep ==
  ASSUME ~SlowSends, Calm, faults' = 0, [Next]_vars PROVE Undisturbed'
<1> USE DEF queue, rowVars
<1>0. LeaseInv'
  BY LeaseStep, Zenon DEF Calm
<1>1. LeaseInv' /\ TypeOK /\ NoFault
  BY <1>0, FaultFree DEF Calm, LeaseInv
<1>2. ASSUME NEW w \in Workers, Consume(w) PROVE Undisturbed'
  BY <1>1, <1>2, CalmConsume
<1>3. ASSUME NEW w \in Workers, SweepStep(w) PROVE Undisturbed'
  <2>1. /\ UNCHANGED <<status, task, accepted>>
        /\ \A v \in Workers : sweep'[v].pc \in {"stranded", "stuck"}
    BY <1>3, SweepersRest DEF Calm, Undisturbed
  <2> QED
    BY <2>1 DEF Calm, Undisturbed, Sound, Holds
<1>4. ASSUME NEW w \in Workers, NEW e \in Rows, TakeJob(w, e)
      PROVE  Undisturbed'
  <2>1. /\ UNCHANGED <<status, accepted, sweep>> /\ status[e] = "PENDING"
        /\ task'[w].pc = "read" /\ task'[w].row = e
        /\ \A v \in Workers : v # w => task'[v] = task[v]
    BY <1>1, <1>4 DEF TakeJob, Claimable, TypeOK, Idle
  <2>2. \A v \in Workers : Sound(v)'
    BY <2>1 DEF Calm, Undisturbed, Sound, Holds
  <2> QED
    BY <2>1, <2>2 DEF Calm, Undisturbed
<1>5. ASSUME NEW w \in Workers, VisibilityExpires(w) PROVE Undisturbed'
  <2>1. /\ UNCHANGED <<status, accepted, sweep>>
        /\ \A v \in Workers : /\ task'[v].pc = task[v].pc
                              /\ task'[v].row = task[v].row
    BY <1>1, <1>5 DEF VisibilityExpires, TypeOK, Task
  <2> QED
    BY <2>1 DEF Calm, Undisturbed, Sound, Holds
<1>6. CASE CreateRows
  <2>1. \A d \in Rows : status[d] = "ABSENT" /\ status'[d] = "PENDING"
    BY <1>6 DEF CreateRows, Calm, LeaseInv, Created
  <2>2. \A w \in Workers : task[w].pc = "idle" /\ task' = task
    BY <1>1, <1>6, <2>1 DEF CreateRows, Calm, Undisturbed, Sound, TypeOK
  <2>3. \A w \in Workers : Sound(w)'
    BY <2>2 DEF Sound
  <2>4. sweep' = sweep
    BY <1>6 DEF CreateRows
  <2> QED
    BY <2>1, <2>3, <2>4 DEF Calm, Undisturbed
<1>7. CASE DeleteSender
  <2>1. /\ UNCHANGED <<task, accepted, sweep>>
        /\ \A d \in Rows : IF status[d] = "ABSENT" THEN status'[d] = "ABSENT"
                                                   ELSE status'[d] = "GONE"
    BY <1>7 DEF DeleteSender
  <2>2. ASSUME NEW w \in Workers PROVE Sound(w)'
    BY <1>1, <2>1 DEF Calm, Undisturbed, Sound, Holds, TypeOK
  <2>3. CASE \A d \in Rows : status[d] = "ABSENT"
    BY <2>1, <2>2, <2>3 DEF Calm, Undisturbed
  <2>4. CASE \A d \in Rows : status[d] # "ABSENT"
    BY <2>1, <2>2, <2>4 DEF Calm, Undisturbed
  <2> QED
    BY <2>3, <2>4 DEF Calm, Undisturbed
<1>8. ASSUME UNCHANGED <<status, task, accepted, sweep>> PROVE Undisturbed'
  <2>1. \A w \in Workers : Sound(w)'
    BY <1>8 DEF Calm, Undisturbed, Sound, Holds
  <2> QED
    BY <1>8, <2>1 DEF Calm, Undisturbed
<1>9. CASE \/ CreateMessage \/ \E S \in SUBSET Rows : EnqueueRows(S)
           \/ \E w \in Workers, e \in Rows : SkipJob(w, e)
           \/ \E e \in Rows : Clock(e)
           \/ UNCHANGED vars
  <2>1. UNCHANGED <<status, task, accepted, sweep>>
    BY <1>9 DEF CreateMessage, EnqueueRows, SkipJob, Clock, BackoffEnds,
       Reappear, LeaseLapses, TimePasses, vars
  <2> QED
    BY <1>8, <2>1
<1> QED
  BY <1>1, <1>2, <1>3, <1>4, <1>5, <1>6, <1>7, <1>9
     DEF Next, Request, Environment, NoFault

-----------------------------------------------------------------------------
(* With faults.  Rows may be closed while an attempt is at work on them,    *)
(* but nobody works on a row that says SENT, and what is recorded as sent   *)
(* was accepted; and until the first fault everything is as above.          *)

Honest(w) ==
  task[w].pc # "idle" =>
    /\ status[task[w].row] # "ABSENT"
    /\ Holds(w, task[w].row) => status[task[w].row] # "SENT"
    /\ task[w].pc = "sent" => accepted[task[w].row] > 0

AllHonest ==
  /\ \A w \in Workers : Honest(w)
  /\ \/ \A d \in Rows : status[d] = "ABSENT"
     \/ \A d \in Rows : status[d] # "ABSENT"

Trusted == LeaseInv /\ AllHonest /\ (faults = 0 => Undisturbed)

\* A consumer that does not move stays honest as long as nobody calls the row
\* it holds SENT.
LEMMA HonestBystander ==
  ASSUME TypeOK, TypeOK', NEW w \in Workers, Honest(w), task'[w] = task[w],
         task[w].pc # "idle" =>
           /\ status'[task[w].row] # "ABSENT"
           /\ Holds(w, task[w].row) => status'[task[w].row] # "SENT"
           /\ accepted'[task[w].row] >= accepted[task[w].row]
  PROVE  Honest(w)'
<1>1. task[w].pc # "idle" => /\ accepted[task[w].row] \in Nat
                             /\ accepted'[task[w].row] \in Nat
  BY DEF TypeOK
<1> QED
  BY <1>1 DEF Honest, Holds

\* What the step of a consumer, or the loss of the answer it waits for, may do
\* to the rows.
LEMMA ConsumeRows ==
  ASSUME TypeOK, TypeOK', NEW w \in Workers, Consume(w) \/ AnswerLost(w)
  PROVE  /\ task[w].pc # "idle"
         /\ \A v \in Workers : v # w => task'[v] = task[v]
         /\ \A e \in Rows : accepted'[e] >= accepted[e]
         /\ \/ status' = status
            \/ /\ Holds(w, task[w].row)
               /\ \E s \in {"SENT", "FAILED"} :
                    status' = [status EXCEPT ![task[w].row] = s]
<1> USE DEF queue, rowVars
<1>0. \A e \in Rows : accepted[e] \in Nat
  BY DEF TypeOK
<1>1. CASE ReadRow(w)
  BY <1>0, <1>1 DEF ReadRow, TypeOK
<1>2. CASE SendAccepted(w)
  BY <1>0, <1>2 DEF SendAccepted, TypeOK
<1>3. CASE \E p \in BOOLEAN : SendRefused(w, p)
  BY <1>0, <1>3 DEF SendRefused, TypeOK
<1>4. CASE AnswerLost(w)
  BY <1>0, <1>4 DEF AnswerLost, TypeOK
<1>5. CASE RecordOutcome(w)
  <2>1. /\ Holds(w, task[w].row) /\ task[w].pc # "idle"
        /\ accepted' = accepted
    BY <1>5 DEF RecordOutcome, Holds
  <2>2. \A v \in Workers : v # w => task'[v] = task[v]
    BY <1>5 DEF RecordOutcome, Throw, TypeOK
  <2>3. \/ status' = status
        \/ \E s \in {"SENT", "FAILED"} :
             status' = [status EXCEPT ![task[w].row] = s]
    BY <1>5 DEF RecordOutcome
  <2> QED
    BY <1>0, <2>1, <2>2, <2>3
<1>6. CASE RecordRetry(w)
  BY <1>0, <1>6 DEF RecordRetry, Throw, TypeOK
<1>7. CASE RetryJob(w) \/ CountRows(w)
  BY <1>0, <1>7 DEF RetryJob, CountRows, TypeOK
<1>8. CASE WriteMessage(w)
  BY <1>0, <1>8 DEF WriteMessage, Throw, TypeOK
<1> QED
  BY <1>1, <1>2, <1>3, <1>4, <1>5, <1>6, <1>7, <1>8 DEF Consume

LEMMA HonestConsume ==
  ASSUME LeaseInv, LeaseInv', AllHonest, NEW w \in Workers,
         Consume(w) \/ AnswerLost(w)
  PROVE  AllHonest'
<1> DEFINE d == task[w].row
<1> USE DEF queue, rowVars
<1>a. TypeOK /\ TypeOK'
  BY DEF LeaseInv
<1>b. /\ task[w].pc # "idle"
      /\ \A v \in Workers : v # w => task'[v] = task[v]
      /\ \A e \in Rows : accepted'[e] >= accepted[e]
      /\ \/ status' = status
         \/ /\ Holds(w, d)
            /\ \E s \in {"SENT", "FAILED"} : status' = [status EXCEPT ![d] = s]
  BY <1>a, ConsumeRows
<1>0. /\ TypeOK /\ TypeOK' /\ Honest(w) /\ RowInv(d) /\ d \in Rows
      /\ task[w] \in Task /\ task[w].pc # "idle"
  BY <1>a, <1>b DEF LeaseInv, AllHonest, TypeOK
<1>1. /\ \A v \in Workers : v # w => task'[v] = task[v]
      /\ \A e \in Rows : e # d => status'[e] = status[e]
      /\ \A e \in Rows : accepted'[e] >= accepted[e]
  BY <1>a, <1>b DEF TypeOK
<1>2. status[d] # "ABSENT" /\ status'[d] # "ABSENT"
  BY <1>0, <1>b DEF Honest, TypeOK
<1>3. ASSUME NEW v \in Workers, v # w PROVE Honest(v)'
  <2>1. ASSUME Holds(v, d) PROVE status'[d] = status[d]
    <3>1. ~Holds(w, d)
      BY <1>0, <1>3, <2>1 DEF RowInv
    <3> QED
      BY <1>b, <3>1
  <2>2. Honest(v) /\ task'[v] = task[v]
    BY <1>1, <1>3 DEF AllHonest
  <2>3. task[v].pc # "idle" => task[v].row \in Rows
    BY <1>0 DEF TypeOK
  <2>4. task[v].pc # "idle" =>
          /\ status'[task[v].row] # "ABSENT"
          /\ Holds(v, task[v].row) => status'[task[v].row] # "SENT"
          /\ accepted'[task[v].row] >= accepted[task[v].row]
    BY <1>1, <1>2, <2>1, <2>2, <2>3 DEF Honest
  <2> QED
    BY <1>0, <2>2, <2>4, HonestBystander
<1>4. Honest(w)'
  <2>1. CASE ReadRow(w)
    <3>1. CASE status[d] = "GONE"
      BY <1>0, <2>1, <3>1 DEF ReadRow, Idle, Honest, TypeOK
    <3>2. CASE status[d] # "GONE"
      <4>1. task'[w].pc = "send" /\ task'[w].row = d /\ status' = status
        BY <1>0, <2>1, <3>2 DEF ReadRow, TypeOK, Task
      <4> QED
        BY <1>0, <2>1, <4>1 DEF ReadRow, Honest, Holds
    <3> QED
      BY <3>1, <3>2
  <2>2. CASE SendAccepted(w)
    <3>1. /\ task'[w].pc = "sent" /\ task'[w].row = d /\ status' = status
          /\ accepted'[d] = accepted[d] + 1 /\ accepted[d] \in Nat
      BY <1>0, <2>2 DEF SendAccepted, TypeOK, Task
    <3> QED
      BY <1>0, <2>2, <3>1 DEF SendAccepted, Honest, Holds
  <2>3. CASE AnswerLost(w) \/ \E p \in BOOLEAN : SendRefused(w, p)
    <3>1. /\ \E pc \in {"refused", "putOff"} :
               task' = [task EXCEPT ![w].pc = pc]
          /\ status' = status /\ task[w].pc = "send"
      <4>1. CASE AnswerLost(w)
        BY <4>1 DEF AnswerLost
      <4>2. ASSUME NEW p \in BOOLEAN, SendRefused(w, p)
            PROVE  /\ \E pc \in {"refused", "putOff"} :
                        task' = [task EXCEPT ![w].pc = pc]
                   /\ status' = status /\ task[w].pc = "send"
        BY <4>2 DEF SendRefused
      <4> QED
        BY <2>3, <4>1, <4>2
    <3>2. /\ task'[w].pc \in {"refused", "putOff"} /\ task'[w].row = d
          /\ status' = status /\ task[w].pc = "send"
      BY <1>0, <3>1 DEF TypeOK, Task
    <3> QED
      BY <1>0, <3>2 DEF Honest, Holds
  <2>4. CASE \/ RecordOutcome(w) \/ RecordRetry(w) \/ RetryJob(w)
             \/ CountRows(w) \/ WriteMessage(w)
    <3>1. \/ task'[w].pc = "idle"
          \/ task'[w].pc \in {"count", "requeue", "write"} /\ task'[w].row = d
      BY <1>0, <2>4 DEF RecordOutcome, RecordRetry, RetryJob, CountRows,
         WriteMessage, Throw, Idle, TypeOK, Task
    <3> QED
      BY <1>2, <3>1 DEF Honest, Holds
  <2> QED
    BY <2>1, <2>2, <2>3, <2>4 DEF Consume
<1>5. \A e \in Rows : status'[e] # "ABSENT"
  BY <1>0, <1>1, <1>2 DEF AllHonest
<1> QED
  BY <1>3, <1>4, <1>5 DEF AllHonest

\* Whatever leaves the consumers alone, or puts them to rest, and calls no row
\* SENT.
LEMMA HonestFrame ==
  ASSUME TypeOK, TypeOK', AllHonest,
         \A w \in Workers : \/ task'[w].pc = "idle"
                            \/ /\ task'[w].pc = task[w].pc
                               /\ task'[w].row = task[w].row,
         accepted' = accepted,
         \A d \in Rows : /\ status[d] = "ABSENT" <=> status'[d] = "ABSENT"
                         /\ status'[d] = "SENT" => status[d] = "SENT"
  PROVE  AllHonest'
<1>1. ASSUME NEW w \in Workers PROVE Honest(w)'
  <2>1. CASE task'[w].pc = "idle"
    BY <2>1 DEF Honest
  <2>2. CASE task[w].pc # "idle" /\ task'[w].pc = task[w].pc
             /\ task'[w].row = task[w].row
    <3>1. task[w].row \in Rows /\ Honest(w)
      BY <2>2 DEF TypeOK, AllHonest
    <3> QED
      BY <2>2, <3>1 DEF Honest, Holds
  <2> QED
    BY <2>1, <2>2
<1> QED
  BY <1>1 DEF AllHonest

LEMMA HonestStep ==
  ASSUME LeaseInv, LeaseInv', AllHonest, [Next]_vars PROVE AllHonest'
<1> USE DEF queue, rowVars
<1>0. TypeOK /\ TypeOK'
  BY DEF LeaseInv
<1>1. ASSUME UNCHANGED <<status, task, accepted>> PROVE AllHonest'
  BY <1>0, <1>1, HonestFrame
<1>2. ASSUME NEW w \in Workers, Consume(w) \/ AnswerLost(w) PROVE AllHonest'
  BY <1>2, HonestConsume
<1>3. ASSUME NEW w \in Workers, CloseStuck(w) PROVE AllHonest'
  <2>1. \A d \in Rows :
          /\ \/ status'[d] = status[d]
             \/ status[d] # "ABSENT" /\ status'[d] = "FAILED"
    BY <1>3 DEF CloseStuck, LeaseInv, Created
  <2>2. UNCHANGED <<task, accepted>>
    BY <1>3 DEF CloseStuck
  <2> QED
    BY <1>0, <2>1, <2>2, HonestFrame
<1>4. CASE CreateRows
  <2>1. \A d \in Rows : status[d] = "ABSENT" /\ status'[d] = "PENDING"
    BY <1>4 DEF CreateRows, LeaseInv, Created
  <2>2. \A w \in Workers : task[w].pc = "idle" /\ task' = task
    BY <1>0, <1>4, <2>1 DEF CreateRows, AllHonest, Honest, TypeOK
  <2>3. \A w \in Workers : Honest(w)'
    BY <2>2 DEF Honest
  <2> QED
    BY <2>1, <2>3 DEF AllHonest
<1>5. CASE DeleteSender
  <2>1. \A d \in Rows : IF status[d] = "ABSENT" THEN status'[d] = "ABSENT"
                                                ELSE status'[d] = "GONE"
    BY <1>5 DEF DeleteSender
  <2>2. UNCHANGED <<task, accepted>>
    BY <1>5 DEF DeleteSender
  <2> QED
    BY <1>0, <2>1, <2>2, HonestFrame
<1>6. ASSUME NEW w \in Workers, NEW e \in Rows, TakeJob(w, e)
      PROVE  AllHonest'
  <2>1. /\ UNCHANGED <<status, accepted>> /\ status[e] = "PENDING"
        /\ task'[w].pc = "read" /\ task'[w].row = e
        /\ \A v \in Workers : v # w => task'[v] = task[v]
    BY <1>0, <1>6 DEF TakeJob, Claimable, TypeOK, Idle
  <2>2. \A v \in Workers : Honest(v)'
    BY <2>1 DEF AllHonest, Honest, Holds
  <2> QED
    BY <2>1, <2>2 DEF AllHonest
<1>7. ASSUME NEW w \in Workers, VisibilityExpires(w) PROVE AllHonest'
  <2>1. /\ UNCHANGED <<status, accepted>>
        /\ \A v \in Workers : /\ task'[v].pc = task[v].pc
                              /\ task'[v].row = task[v].row
    BY <1>0, <1>7 DEF VisibilityExpires, TypeOK, Task
  <2> QED
    BY <1>0, <2>1, HonestFrame
<1>8. ASSUME NEW w \in Workers, DatabaseFails(w) \/ Crash(w)
      PROVE  AllHonest'
  <2>1. /\ UNCHANGED <<status, accepted>> /\ task' = [task EXCEPT ![w] = Idle]
    BY <1>8 DEF DatabaseFails, Crash, Throw
  <2>2. \A v \in Workers : task'[v].pc = "idle" \/ task'[v] = task[v]
    BY <1>0, <2>1 DEF TypeOK, Idle
  <2> QED
    BY <1>0, <2>1, <2>2, HonestFrame
<1>9. ASSUME NEW w \in Workers,
             \/ SweepStranded(w) \/ SweepStuck(w) \/ SweepCount(w)
             \/ SweepWrite(w) \/ SweepFails(w)
      PROVE  AllHonest'
  <2>1. UNCHANGED <<status, task, accepted>>
    BY <1>9 DEF SweepStranded, SweepStuck, SweepCount, SweepWrite, SweepFails
  <2> QED
    BY <1>1, <2>1
<1>10. CASE \/ CreateMessage \/ RequestDies
            \/ \E S \in SUBSET Rows : EnqueueRows(S)
            \/ \E w \in Workers, e \in Rows : SkipJob(w, e)
            \/ \E e \in Rows : Clock(e) \/ LoseJob(e)
            \/ UNCHANGED vars
  <2>1. UNCHANGED <<status, task, accepted>>
    BY <1>10 DEF CreateMessage, RequestDies, EnqueueRows, SkipJob, Clock,
       BackoffEnds, Reappear, LeaseLapses, TimePasses, LoseJob, vars
  <2> QED
    BY <1>1, <2>1
<1> QED
  BY <1>2, <1>3, <1>4, <1>5, <1>6, <1>7, <1>8, <1>9, <1>10
     DEF Next, Request, SweepStep, Environment

LEMMA FaultsGrow ==
  ASSUME TypeOK, [Next]_vars PROVE faults' = faults \/ faults' = faults + 1
BY DEF Next, vars, Request, CreateMessage, CreateRows, EnqueueRows, Consume,
       ReadRow, SendAccepted, SendRefused, RecordOutcome, RecordRetry,
       RetryJob, CountRows, WriteMessage, SweepStep, SweepStranded, SweepStuck,
       CloseStuck, SweepCount, SweepWrite, TakeJob, SkipJob, Clock,
       BackoffEnds, Reappear, LeaseLapses, TimePasses, Environment,
       RequestDies, DeleteSender, LoseJob, VisibilityExpires, AnswerLost,
       DatabaseFails, SweepFails, Crash

LEMMA TrustedHolds == ASSUME ~SlowSends PROVE Spec => []Trusted
<1>1. Init /\ LeaseInv => Trusted
  BY DEF Init, Trusted, AllHonest, Honest, Undisturbed, Sound, Idle, Resting
<1>2. Trusted /\ LeaseInv' /\ [Next]_vars => Trusted'
  <2> SUFFICES ASSUME Trusted, LeaseInv', [Next]_vars PROVE Trusted'
    OBVIOUS
  <2>1. AllHonest'
    BY HonestStep DEF Trusted
  <2>2. faults' = 0 => faults = 0
    BY FaultsGrow DEF Trusted, LeaseInv, TypeOK
  <2>3. faults' = 0 => Undisturbed'
    BY <2>2, CalmStep DEF Trusted, Calm
  <2> QED
    BY <2>1, <2>3 DEF Trusted
<1> QED
  BY <1>1, <1>2, LeaseCorrect, PTL DEF Spec

\* What an attempt at work may assume of its row: it is still to be told, in
\* the terms of the promise, or it was deleted.
LEMMA HeldUnsettled ==
  ASSUME Trusted, NEW w \in Workers, NEW d \in Rows, Holds(w, d)
  PROVE  Promise!Unsettled(d) \/ status[d] = "GONE"
<1>1. task[w].pc # "idle" /\ task[w].row = d /\ status[d] \in RowStatus
      /\ faults \in Nat
  BY DEF Holds, Trusted, LeaseInv, TypeOK
<1>2. status[d] # "ABSENT" /\ status[d] # "SENT"
  BY <1>1 DEF Trusted, AllHonest, Honest
<1>3. CASE faults = 0
  BY <1>1, <1>3 DEF Trusted, Undisturbed, Sound, Promise!Unsettled
<1>4. CASE faults # 0
  BY <1>1, <1>2, <1>4 DEF RowStatus, Promise!Unsettled
<1> QED
  BY <1>3, <1>4

\* A fault is trouble; only the loss of an answer also mails.
LEMMA TroubleStep ==
  ASSUME ~SlowSends, Trusted,
         \/ RequestDies \/ \E d \in Rows : LoseJob(d)
         \/ \E w \in Workers : \/ AnswerLost(w) \/ DatabaseFails(w)
                               \/ SweepFails(w) \/ Crash(w)
  PROVE  Promise!Trouble
<1> USE DEF queue, rowVars
<1>1. ASSUME NEW w \in Workers, AnswerLost(w) PROVE Promise!Trouble
  <2> DEFINE d == task[w].row
  <2>1. d \in Rows /\ Holds(w, d) /\ task[w].pc # "sent"
    BY <1>1 DEF AnswerLost, Holds, Trusted, LeaseInv, TypeOK
  <2>2. accepted[d] <= faults
    BY <2>1 DEF Trusted, LeaseInv, RowInv, Attempt
  <2>3. /\ faults' = faults + 1 /\ status' = status
        /\ accepted' = [accepted EXCEPT ![d] = @ + 1]
    BY <1>1 DEF AnswerLost
  <2> QED
    BY <2>1, <2>2, <2>3, HeldUnsettled DEF Promise!Trouble
<1>2. ASSUME NEW w \in Workers, DatabaseFails(w) \/ SweepFails(w) \/ Crash(w)
      PROVE  Promise!Trouble
  BY <1>2 DEF DatabaseFails, SweepFails, Crash, Promise!Trouble
<1>3. CASE RequestDies \/ \E d \in Rows : LoseJob(d)
  BY <1>3 DEF RequestDies, LoseJob, Promise!Trouble
<1> QED
  BY <1>1, <1>2, <1>3

\* Every step of the engine is a step of the promise, or leaves what the
\* recipient sees alone.
LEMMA PromiseStep ==
  ASSUME ~SlowSends, Trusted, [Next]_vars PROVE [Promise!Next]_Promise!vars
<1> USE DEF queue, rowVars
<1>1. TypeOK /\ faults \in Nat
  BY DEF Trusted, LeaseInv, TypeOK
<1>2. ASSUME UNCHANGED <<status, accepted, faults>>
      PROVE  [Promise!Next]_Promise!vars
  BY <1>2 DEF Promise!vars
<1>3. CASE CreateRows
  <2>1. Promise!Open
    BY <1>3 DEF CreateRows, Trusted, LeaseInv, Created, Promise!Open
  <2> QED
    BY <2>1 DEF Promise!Next
<1>4. CASE DeleteSender
  <2>1. CASE \A d \in Rows : status[d] = "ABSENT"
    <3>1. status' = [d \in Rows |-> "ABSENT"] /\ UNCHANGED <<accepted, faults>>
      BY <1>4, <2>1 DEF DeleteSender
    <3>2. status' = status
      BY <1>1, <2>1, <3>1 DEF TypeOK
    <3> QED
      BY <1>2, <3>1, <3>2
  <2>2. CASE \A d \in Rows : status[d] # "ABSENT"
    <3>1. Promise!Delete
      BY <1>4, <2>2 DEF DeleteSender, Promise!Delete
    <3> QED
      BY <3>1 DEF Promise!Next
  <2> QED
    BY <2>1, <2>2 DEF Trusted, AllHonest
<1>5. ASSUME NEW w \in Workers, SendAccepted(w)
      PROVE  [Promise!Next]_Promise!vars
  <2> DEFINE d == task[w].row
  <2>1. d \in Rows /\ Holds(w, d) /\ task[w].pc # "sent"
    BY <1>1, <1>5 DEF SendAccepted, Holds, TypeOK
  <2>2. accepted[d] <= faults
    BY <2>1 DEF Trusted, LeaseInv, RowInv, Attempt
  <2>3. /\ accepted' = [accepted EXCEPT ![d] = @ + 1]
        /\ UNCHANGED <<status, faults>>
    BY <1>5 DEF SendAccepted
  <2>4. Promise!Mail(d)
    BY <2>1, <2>2, <2>3, HeldUnsettled DEF Promise!Mail
  <2> QED
    BY <2>1, <2>4 DEF Promise!Next
<1>6. ASSUME NEW w \in Workers, RecordOutcome(w)
      PROVE  [Promise!Next]_Promise!vars
  <2> DEFINE d == task[w].row
  <2>1. d \in Rows /\ Holds(w, d) /\ task[w].pc # "idle"
    BY <1>1, <1>6 DEF RecordOutcome, Holds, TypeOK
  <2>2. UNCHANGED <<accepted, faults>> /\ accepted[d] \in Nat
    BY <1>1, <1>6, <2>1 DEF RecordOutcome, TypeOK
  <2>3. CASE status[d] = "GONE"
    BY <1>2, <1>6, <2>2, <2>3 DEF RecordOutcome
  <2>4. CASE status[d] # "GONE"
    <3>1. Promise!Unsettled(d)
      BY <2>1, <2>4, HeldUnsettled
    <3>2. CASE task[w].pc = "sent"
      <4>1. accepted[d] > 0
        BY <2>1, <3>2 DEF Trusted, AllHonest, Honest
      <4>2. status' = [status EXCEPT ![d] = "SENT"]
        BY <1>6, <2>4, <3>2 DEF RecordOutcome
      <4>3. Promise!Settle(d)
        BY <2>2, <3>1, <4>1, <4>2 DEF Promise!Settle
      <4> QED
        BY <2>1, <4>3 DEF Promise!Next
    <3>3. CASE task[w].pc # "sent"
      <4>1. accepted[d] <= faults
        BY <2>1, <3>3 DEF Trusted, LeaseInv, RowInv, Attempt
      <4>2. status' = [status EXCEPT ![d] = "FAILED"]
        BY <1>6, <2>4, <3>3 DEF RecordOutcome
      <4>3. Promise!Settle(d)
        BY <1>1, <2>2, <3>1, <4>1, <4>2 DEF Promise!Settle
      <4> QED
        BY <2>1, <4>3 DEF Promise!Next
    <3> QED
      BY <3>2, <3>3
  <2> QED
    BY <2>3, <2>4
<1>7. ASSUME NEW w \in Workers, CloseStuck(w)
      PROVE  [Promise!Next]_Promise!vars
  <2> DEFINE closed == {d \in sweep[w].rows : status[d] # "GONE"}
  <2>1. faults # 0
    BY <1>7 DEF CloseStuck, Trusted, Undisturbed
  <2>2. closed \in SUBSET Rows
    BY <1>1 DEF TypeOK, Sweep
  <2>3. \A d \in closed : status[d] \in {"PENDING", "SENT", "FAILED"}
    BY <1>1, <2>2 DEF Trusted, LeaseInv, Created, TypeOK, RowStatus
  <2>4. /\ status' = [d \in Rows |-> IF d \in closed THEN "FAILED"
                                                    ELSE status[d]]
        /\ UNCHANGED <<accepted, faults>>
    BY <1>7 DEF CloseStuck
  <2>5. Promise!GiveUp(closed)
    BY <1>1, <2>1, <2>3, <2>4 DEF Promise!GiveUp
  <2> QED
    BY <2>2, <2>5 DEF Promise!Next
<1>8. ASSUME NEW w \in Workers,
             \/ ReadRow(w) \/ RecordRetry(w) \/ RetryJob(w) \/ CountRows(w)
             \/ WriteMessage(w) \/ \E p \in BOOLEAN : SendRefused(w, p)
             \/ SweepStranded(w) \/ SweepStuck(w) \/ SweepCount(w)
             \/ SweepWrite(w) \/ VisibilityExpires(w)
             \/ \E e \in Rows : TakeJob(w, e) \/ SkipJob(w, e)
      PROVE  [Promise!Next]_Promise!vars
  BY <1>2, <1>8 DEF ReadRow, RecordRetry, RetryJob, CountRows, WriteMessage,
     SendRefused, SweepStranded, SweepStuck, SweepCount, SweepWrite,
     VisibilityExpires, TakeJob, SkipJob
<1>9. CASE \/ CreateMessage \/ \E S \in SUBSET Rows : EnqueueRows(S)
           \/ \E e \in Rows : Clock(e)
           \/ UNCHANGED vars
  BY <1>2, <1>9 DEF CreateMessage, EnqueueRows, Clock, BackoffEnds, Reappear,
     LeaseLapses, TimePasses, vars
<1>10. CASE Promise!Trouble
  BY <1>10 DEF Promise!Next
<1> QED
  BY <1>3, <1>4, <1>5, <1>6, <1>7, <1>8, <1>9, <1>10, TroubleStep
     DEF Next, Request, Consume, SweepStep, Environment

\* As long as no attempt outlives its lease, the engine implements
\* DeliveryPromise for any recipients, workers and faults: until something goes
\* wrong one e-mail at most per recipient, SENT only after it, FAILED only
\* without it, and outcomes that stay; for every crash, error, lost job or lost
\* answer one e-mail more at most, and never one to a recipient shown as SENT.
THEOREM PromiseKept == ASSUME ~SlowSends PROVE Spec => KeepsPromise
<1>1. Init => Promise!Init
  BY DEF Init, Promise!Init
<1>2. Trusted /\ [Next]_vars => [Promise!Next]_Promise!vars
  BY PromiseStep
<1> QED
  BY TrustedHolds, <1>1, <1>2, PTL DEF Spec, KeepsPromise, Promise!Spec

-----------------------------------------------------------------------------
(* The roll-up, with one worker and until the first fault.                  *)

\* What the one consumer has read of the rows is what it writes: nobody else
\* changes a row in between.
Reported ==
  \A w \in Workers : task[w].pc = "write"
                       => message = "GONE" \/ task[w].seen = Summary

\* The roll-up depends on the rows' statuses alone.
LEMMA SummaryFrame == ASSUME status' = status PROVE Summary' = Summary
BY DEF Summary

LEMMA RollUpStep ==
  ASSUME ~SlowSends, Rows # {},
         \A v, w \in Workers : v = w,
         Calm, Calm', Reported, RollUpCurrent, [Next]_vars
  PROVE  Reported' /\ RollUpCurrent'
<1> USE DEF queue, rowVars
<1>1. TypeOK /\ NoFault
  BY FaultFree DEF Calm, LeaseInv
<1>2. ASSUME UNCHANGED <<status, message>>,
             \A w \in Workers : /\ task'[w].pc = task[w].pc
                                /\ task'[w].seen = task[w].seen
                                /\ sweep'[w].pc \notin {"count", "write"}
      PROVE  Reported' /\ RollUpCurrent'
  <2>1. \A w \in Workers : sweep[w].pc \notin {"count", "write"}
    BY DEF Calm, Undisturbed
  <2> QED
    BY <1>2, <2>1, SummaryFrame DEF Reported, RollUpCurrent
<1>3. CASE CreateMessage \/ CreateRows
  <2>1. \A d \in Rows :
          status[d] = "ABSENT" /\ status'[d] \in {"ABSENT", "PENDING"}
    BY <1>3 DEF CreateMessage, CreateRows, Calm, LeaseInv, Created
  <2>2. \A w \in Workers : task[w].pc = "idle" /\ task' = task
    BY <1>1, <1>3, <2>1
       DEF CreateMessage, CreateRows, Calm, Undisturbed, Sound, TypeOK
  <2> QED
    BY <2>1, <2>2 DEF Reported, RollUpCurrent
<1>4. CASE DeleteSender
  BY <1>4 DEF DeleteSender, Reported, RollUpCurrent
<1>5. ASSUME NEW w \in Workers, Consume(w) PROVE Reported' /\ RollUpCurrent'
  <2>0. task[w] \in Task /\ \A v \in Workers : v = w
    BY <1>1 DEF TypeOK
  <2>1. CASE CountRows(w)
    <3>1. /\ UNCHANGED <<status, message>>
          /\ task'[w].pc = "write" /\ task'[w].seen = Summary
      BY <1>1, <2>0, <2>1 DEF CountRows, TypeOK, Task
    <3> QED
      BY <2>0, <3>1, SummaryFrame DEF Reported, RollUpCurrent
  <2>2. CASE WriteMessage(w)
    <3>1. /\ task'[w].pc = "idle" /\ status' = status
          /\ message' = IF message = "GONE" THEN "GONE" ELSE task[w].seen
      BY <1>1, <2>2 DEF WriteMessage, Throw, Idle, TypeOK
    <3>2. message = "GONE" \/ task[w].seen = Summary
      BY <2>2 DEF WriteMessage, Reported
    <3> QED
      BY <2>0, <3>1, <3>2, SummaryFrame DEF Reported, RollUpCurrent
  <2>3. CASE RecordOutcome(w) /\ status[task[w].row] # "GONE"
    <3>1. task'[w].pc = "count"
      BY <1>1, <2>3 DEF RecordOutcome, TypeOK, Task
    <3> QED
      BY <2>0, <3>1 DEF Reported, RollUpCurrent
  <2>4. CASE \/ RecordOutcome(w) /\ status[task[w].row] = "GONE"
             \/ ReadRow(w) \/ SendAccepted(w) \/ RecordRetry(w) \/ RetryJob(w)
             \/ \E p \in BOOLEAN : SendRefused(w, p)
    <3>1. UNCHANGED <<status, message>> /\ task[w].pc \notin {"count", "write"}
      BY <2>4 DEF RecordOutcome, ReadRow, SendAccepted, RecordRetry, RetryJob,
         SendRefused
    <3>2. task'[w].pc \notin {"count", "write"}
      <4>0. task \in [Workers -> Task]
        BY <1>1 DEF TypeOK
      <4>1. CASE SendAccepted(w) \/ \E p \in BOOLEAN : SendRefused(w, p)
        BY <2>0, <4>0, <4>1 DEF SendAccepted, SendRefused, Task
      <4>2. CASE \/ RecordRetry(w) \/ RetryJob(w)
                 \/ RecordOutcome(w) /\ status[task[w].row] = "GONE"
        BY <2>0, <4>0, <4>2 DEF RecordOutcome, RecordRetry, RetryJob, Throw,
           Idle, Task
      <4>3. CASE ReadRow(w) /\ status[task[w].row] = "GONE"
        BY <4>0, <4>3 DEF ReadRow, Idle
      <4>4. CASE ReadRow(w) /\ status[task[w].row] # "GONE"
        <5> DEFINE s == [task[w] EXCEPT !.pc = "send",
                                        !.tries = attempts[task[w].row]]
        <5>1. task' = [task EXCEPT ![w] = s]
          BY <4>4 DEF ReadRow
        <5>2. s.pc = "send"
          BY <2>0 DEF Task
        <5> HIDE DEF s
        <5> QED
          BY <4>0, <5>1, <5>2
      <4> QED
        BY <2>4, <4>1, <4>2, <4>3, <4>4
    <3>3. sweep[w].pc \notin {"count", "write"}
      BY DEF Calm, Undisturbed
    <3> QED
      BY <2>0, <3>1, <3>2, <3>3, SummaryFrame DEF Reported, RollUpCurrent
  <2> QED
    BY <1>5, <2>1, <2>2, <2>3, <2>4 DEF Consume
<1>6. ASSUME NEW w \in Workers, SweepStep(w)
      PROVE  Reported' /\ RollUpCurrent'
  <2>1. \A v \in Workers : sweep'[v].pc \notin {"count", "write"}
    BY <1>6, SweepersRest DEF Calm, Undisturbed
  <2> QED
    BY <1>2, <1>6, <2>1, SweepersRest
<1>7. ASSUME NEW w \in Workers, NEW e \in Rows, TakeJob(w, e)
      PROVE  Reported' /\ RollUpCurrent'
  <2>1. /\ UNCHANGED <<status, message>> /\ status[e] = "PENDING"
        /\ task'[w].pc = "read" /\ \A v \in Workers : v = w
    BY <1>1, <1>7 DEF TakeJob, Claimable, TypeOK, Idle
  <2> QED
    BY <2>1 DEF Reported, RollUpCurrent
<1>8. ASSUME NEW w \in Workers, VisibilityExpires(w)
      PROVE  Reported' /\ RollUpCurrent'
  <2>1. /\ UNCHANGED <<status, message, sweep>>
        /\ \A v \in Workers : /\ task'[v].pc = task[v].pc
                              /\ task'[v].seen = task[v].seen
    BY <1>1, <1>8 DEF VisibilityExpires, TypeOK, Task
  <2> QED
    BY <1>2, <2>1 DEF Calm, Undisturbed
<1>9. CASE \/ \E S \in SUBSET Rows : EnqueueRows(S)
           \/ \E w \in Workers, e \in Rows : SkipJob(w, e)
           \/ \E e \in Rows : Clock(e)
           \/ UNCHANGED vars
  <2>1. UNCHANGED <<status, message, task, sweep>>
    BY <1>9 DEF EnqueueRows, SkipJob, Clock, BackoffEnds, Reappear, LeaseLapses,
       TimePasses, vars
  <2> QED
    BY <1>2, <2>1 DEF Calm, Undisturbed
<1> QED
  BY <1>1, <1>3, <1>4, <1>5, <1>6, <1>7, <1>8, <1>9
     DEF Next, Request, Environment, NoFault

\* What holds of the roll-up until the first fault.
RollUpInv == faults = 0 => Reported /\ RollUpCurrent

\* With one worker process and at least one recipient (a message without one is
\* not queued), until something goes wrong: the message's status is the summary
\* of its rows once they are settled and the roll-up is written.
THEOREM RollUpHolds ==
  ASSUME ~SlowSends, Rows # {}, \A v, w \in Workers : v = w
  PROVE  Spec => [](faults = 0 => RollUpCurrent)
<1>1. Init => RollUpInv
  BY DEF Init, Reported, RollUpCurrent, Idle, RollUpInv
<1>2. Trusted /\ Trusted' /\ RollUpInv /\ [Next]_vars => RollUpInv'
  <2> SUFFICES ASSUME Trusted, Trusted', RollUpInv, [Next]_vars, faults' = 0
               PROVE  Reported' /\ RollUpCurrent'
    BY DEF RollUpInv
  <2>1. faults = 0
    BY FaultsGrow DEF Trusted, LeaseInv, TypeOK
  <2>2. Calm /\ Calm' /\ Reported /\ RollUpCurrent
    BY <2>1 DEF Trusted, Calm, RollUpInv
  <2> QED
    BY <2>2, RollUpStep
<1>3. RollUpInv => (faults = 0 => RollUpCurrent)
  BY DEF RollUpInv
<1> QED
  BY TrustedHolds, <1>1, <1>2, <1>3, PTL DEF Spec
=============================================================================
