---------------------- MODULE SimulationVersions_proofs ----------------------
(***************************************************************************)
(* Theorems about SimulationVersions for any requests, versions, rounds    *)
(* and upsets: its types, that REVISING is a lock, and that what students  *)
(* were once shown stays in the history.                                   *)
(***************************************************************************)
EXTENDS SimulationVersions, FiniteSetTheorems, TLAPS

-----------------------------------------------------------------------------
(* Types.                                                                  *)

LEMMA Bounds ==
  /\ MaxVersion \in Nat \ {0} /\ MaxRounds \in Nat /\ MaxJobs \in Nat \ {0}
  /\ MaxUpsets \in Nat /\ 0 \in Job /\ 0 \in Version
  /\ Numbers \subseteq Version /\ Rounds \subseteq Job
BY BoundsAssumption DEF Job, Version, Numbers, Rounds

LEMMA RequestTypes ==
  /\ Idle \in Request
  /\ \A j \in Job : Asks(j) \in Request
  /\ \A n \in Numbers : Writes(n) \in Request
BY Bounds DEF Idle, Asks, Writes, Request

LEMMA RunTypes ==
  /\ Resting \in Run
  /\ \A pc \in {"round", "put"}, j \in Job, seen \in Version,
        n \in 0..MaxVersion + 1 :
       Runs(pc, j, seen, n) \in Run
BY Bounds DEF Resting, Runs, Run

\* A document is put under a number that is in bounds, and published so.
Chosen ==
  /\ \A h \in Requests :
       request[h].pc \in {"put", "publish"} => request[h].number \in Numbers
  /\ run.pc = "publish" => run.number \in Numbers

TypeInv == TypeOK /\ Chosen

\* A request that moves to a record of the right type.
LEMMA RequestMoves ==
  ASSUME request \in [Requests -> Request], Chosen, NEW h \in Requests,
         NEW q \in Request, request' = [request EXCEPT ![h] = q],
         q.pc \in {"put", "publish"} => q.number \in Numbers
  PROVE  /\ request' \in [Requests -> Request]
         /\ \A g \in Requests : request'[g].pc \in {"put", "publish"}
                                  => request'[g].number \in Numbers
BY DEF Chosen

LEMMA SnapshotType ==
  ASSUME NEW seen \in Version, versions \in SUBSET Numbers
  PROVE  Snapshot(seen) \in SUBSET Numbers
BY Bounds DEF Snapshot, Version, Numbers

LEMMA EnqueuedType ==
  ASSUME jobs \in [Job -> 0..MaxJobs], NEW j \in Job
  PROVE  Enqueued(j) \in [Job -> 0..MaxJobs]
BY Bounds DEF Enqueued

LEMMA RoundTypes ==
  ASSUME round \in [Rounds -> Round], NEW r \in Rounds, NEW n \in Version
  PROVE  /\ Failed(r) \in [Rounds -> Round]
         /\ [round EXCEPT ![r] = [status |-> "PENDING", previous |-> 0]]
              \in [Rounds -> Round]
         /\ [round EXCEPT ![r] = [status |-> "APPLIED", previous |-> n]]
              \in [Rounds -> Round]
BY Bounds DEF Failed, Round

\* What a request does to its row, and its own place.
LEMMA AskType ==
  ASSUME TypeInv, NEW h \in Requests, Ask(h) \/ Queueing(h)
                                        \/ PatchEnds(h) \/ NeverQueued(h)
  PROVE  TypeInv'
<1> USE Bounds, RequestTypes
<1>1. CASE Trigger(h)
  BY <1>1, RequestMoves
     DEF Trigger, Begin, TypeInv, TypeOK, Chosen, Status, Asks
<1>2. CASE Restart(h)
  BY <1>2, RequestMoves
     DEF Restart, Begin, Upset, TypeInv, TypeOK, Chosen, Status, Asks
<1>3. ASSUME NEW r \in Rounds, BeginRound(h, r),
             versions' \in SUBSET Numbers
      PROVE  TypeInv'
  BY <1>3, RequestMoves, RoundTypes
     DEF BeginRound, TypeInv, TypeOK, Chosen, Status, Asks, history
<1>4. ASSUME NEW r \in Rounds, Feedback(h, r)
      PROVE  TypeInv'
  BY <1>3, <1>4 DEF Feedback, TypeInv, TypeOK
<1>5. ASSUME NEW r \in Rounds, Apply(h, r)
      PROVE  TypeInv'
  BY <1>3, <1>5, SnapshotType DEF Apply, Edits, TypeInv, TypeOK
<1>6. ASSUME NEW base \in Numbers, BeginPatch(h, base)
      PROVE  TypeInv'
  <2>1. Patches(base) \in Request
    BY DEF Patches, Request, TypeInv, TypeOK
  <2> QED
    BY <1>6, <2>1, RequestMoves, SnapshotType
       DEF BeginPatch, Edits, TypeInv, TypeOK, Chosen, Patches
<1>7. CASE ChoosePatch(h)
  BY <1>7, RequestMoves
     DEF ChoosePatch, TypeInv, TypeOK, Chosen, Writes, artifacts, history
<1>8. ASSUME NEW pc \in {"publish"}, To(h, pc), request[h].pc = "put"
      PROVE  /\ request' \in [Requests -> Request]
             /\ \A g \in Requests : request'[g].pc \in {"put", "publish"}
                                      => request'[g].number \in Numbers
  BY <1>8 DEF To, TypeInv, TypeOK, Chosen, Request
<1>9. CASE PutPatch(h)
  BY <1>8, <1>9 DEF PutPatch, At, TypeInv, TypeOK, Chosen, history
<1>10. CASE PublishPatch(h)
  <2>1. request[h].number \in Numbers
    BY <1>10 DEF PublishPatch, At, TypeInv, Chosen
  <2>2. /\ request' \in [Requests -> Request]
        /\ \A g \in Requests : request'[g].pc \in {"put", "publish"}
                                 => request'[g].number \in Numbers
    BY <1>10, RequestMoves DEF PublishPatch, Done, Idle, TypeInv, TypeOK
  <2> QED
    BY <1>10, <2>1, <2>2
       DEF PublishPatch, Serve, TypeInv, TypeOK, Chosen, history
<1>11. ASSUME Done(h)
       PROVE  /\ request' \in [Requests -> Request]
              /\ \A g \in Requests : request'[g].pc \in {"put", "publish"}
                                       => request'[g].number \in Numbers
  BY <1>11, RequestMoves DEF Done, Idle, TypeInv, TypeOK
<1>12. request[h].job \in Job
  BY DEF TypeInv, TypeOK, Request
<1>13. CASE Enqueue(h)
  BY <1>11, <1>12, <1>13, EnqueuedType
     DEF Enqueue, TypeInv, TypeOK, Chosen, artifacts, history
<1>14. CASE EnqueueThrows(h)
  <2>1. round' \in [Rounds -> Round] /\ status' \in Status
    <3> DEFINE j == request[h].job
    <3>1. round \in [Rounds -> Round] /\ status \in Status
      BY DEF TypeInv, TypeOK
    <3>2. j # 0 => j \in Rounds
      BY <1>12 DEF Job, Rounds
    <3>3. round' = IF j = 0 THEN round ELSE Failed(j)
      BY <1>14 DEF EnqueueThrows
    <3>4. status' \in Status
      BY <1>14 DEF EnqueueThrows, Status
    <3> QED
      BY <3>1, <3>2, <3>3, <3>4, RoundTypes
  <2> QED
    BY <1>11, <1>14, <2>1
       DEF EnqueueThrows, TypeInv, TypeOK, Chosen, artifacts, history
<1>15. CASE PatchEnds(h)
  BY <1>11, <1>15
     DEF PatchEnds, TypeInv, TypeOK, Chosen, artifacts, history
<1>16. CASE NeverQueued(h)
  BY <1>11, <1>16
     DEF NeverQueued, Upset, TypeInv, TypeOK, Chosen, artifacts
<1> QED
  BY <1>1, <1>2, <1>4, <1>5, <1>6, <1>7, <1>9, <1>10, <1>13, <1>14, <1>15,
     <1>16 DEF Ask, Queueing

LEMMA WorkType ==
  ASSUME TypeInv, Work \/ FailureLost \/ Crash \/ HandedOutAgain
  PROVE  TypeInv'
<1> USE Bounds, RunTypes
<1>1. /\ run.job \in Job /\ run.seen \in Version
      /\ run.number \in 0..MaxVersion + 1
      /\ run.job # 0 => run.job \in Rounds
  BY DEF TypeInv, TypeOK, Run, Job, Rounds
<1>2. ASSUME NEW j \in Job, TakeJob(j)
      PROVE  TypeInv'
  <2>1. run' \in Run /\ run'.pc # "publish"
    <3>1. live \in Version /\ live + 1 \in 0..MaxVersion + 1
      BY DEF TypeInv, TypeOK, Version
    <3>2. \/ run' = Resting \/ run' = Runs("put", 0, live, live + 1)
          \/ run' = Runs("round", j, live, 0)
      BY <1>2 DEF TakeJob
    <3> QED
      BY <3>1, <3>2 DEF Resting, Runs
  <2>2. jobs' \in [Job -> 0..MaxJobs]
    BY <1>2 DEF TakeJob, TypeInv, TypeOK
  <2> QED
    BY <1>2, <2>1, <2>2
       DEF TakeJob, TypeInv, TypeOK, Chosen, artifacts
<1>3. Rest => run' \in Run /\ run'.pc # "publish"
  BY DEF Rest, Resting
<1>4. CASE Decline
  BY <1>3, <1>4
     DEF Decline, TypeInv, TypeOK, Chosen, Status, artifacts, history
<1>5. CASE ReadRound
  <2>1. run' \in Run /\ run'.pc # "publish" /\ status' \in Status
        /\ versions' \in SUBSET Numbers
    BY <1>1, <1>3, <1>5, SnapshotType
       DEF ReadRound, TypeInv, TypeOK, Run, Status
  <2> QED
    BY <1>5, <2>1 DEF ReadRound, TypeInv, TypeOK, Chosen, history
<1>6. CASE ChooseRevision
  <2>1. run' \in Run /\ run'.pc # "publish"
    BY <1>1, <1>6 DEF ChooseRevision, Runs, Numbers
  <2> QED
    BY <1>6, <2>1
       DEF ChooseRevision, TypeInv, TypeOK, Chosen, artifacts, history
<1>7. CASE PutResult
  <2>1. run' \in Run /\ run'.number = run.number
    BY <1>7 DEF PutResult, TypeInv, TypeOK, Run
  <2> QED
    BY <1>7, <2>1 DEF PutResult, TypeInv, TypeOK, Chosen, history
<1>8. run.pc = "publish" => run.number \in Numbers
  BY DEF TypeInv, Chosen
<1>9. CASE PublishGeneration
  BY <1>3, <1>8, <1>9
     DEF PublishGeneration, Serve, TypeInv, TypeOK, Chosen, Status, history
<1>10. CASE PublishRevision
  <2>1. round' \in [Rounds -> Round]
    BY <1>1, <1>10, RoundTypes DEF PublishRevision, TypeInv, TypeOK
  <2> QED
    BY <1>3, <1>8, <1>10, <2>1
       DEF PublishRevision, Serve, TypeInv, TypeOK, Chosen, Status, history
<1>11. CASE GenerationFails
  BY <1>3, <1>11
     DEF GenerationFails, TypeInv, TypeOK, Chosen, Status, artifacts, history
<1>12. CASE RoundFails
  <2>1. round' \in [Rounds -> Round]
    BY <1>1, <1>12, RoundTypes DEF RoundFails, TypeInv, TypeOK
  <2>2. run' \in Run /\ run'.pc # "publish"
    BY <1>12 DEF RoundFails, TypeInv, TypeOK, Run
  <2> QED
    BY <1>12, <2>1, <2>2
       DEF RoundFails, TypeInv, TypeOK, Chosen, artifacts, history
<1>13. CASE GiveBack
  BY <1>3, <1>13
     DEF GiveBack, TypeInv, TypeOK, Chosen, Status, artifacts, history
<1>14. CASE FailureLost
  BY <1>3, <1>14
     DEF FailureLost, Upset, TypeInv, TypeOK, Chosen, artifacts
<1>15. CASE Crash
  BY <1>1, <1>3, <1>15, EnqueuedType
     DEF Crash, Upset, TypeInv, TypeOK, Chosen, artifacts, history
<1>16. CASE HandedOutAgain
  BY <1>1, <1>16, EnqueuedType
     DEF HandedOutAgain, Upset, TypeInv, TypeOK, Chosen, artifacts, history
<1> QED
  BY <1>2, <1>4, <1>5, <1>6, <1>7, <1>9, <1>10, <1>11, <1>12, <1>13, <1>14,
     <1>15, <1>16 DEF Work

LEMMA OtherType ==
  ASSUME TypeInv,
         \/ \E base \in Numbers : Restore(base)
         \/ \E gone \in SUBSET Numbers : Collect(gone)
         \/ UNCHANGED vars
  PROVE  TypeInv'
<1>1. ASSUME NEW base \in Numbers, Restore(base)
      PROVE  TypeInv'
  BY <1>1, Bounds, SnapshotType
     DEF Restore, Edits, TypeInv, TypeOK, Chosen, history
<1>2. ASSUME NEW gone \in SUBSET Numbers, Collect(gone)
      PROVE  TypeInv'
  BY <1>2 DEF Collect, TypeInv, TypeOK, Chosen, history
<1>3. CASE UNCHANGED vars
  BY <1>3 DEF vars, artifacts, history, TypeInv, TypeOK, Chosen
<1> QED
  BY <1>1, <1>2, <1>3

LEMMA InitTypes == Init => TypeInv
<1> SUFFICES ASSUME Init PROVE TypeInv
  OBVIOUS
<1> USE Bounds, RequestTypes, RunTypes DEF Init
<1>1. round \in [Rounds -> Round]
  BY DEF Round, NoRound
<1>2. request \in [Requests -> Request] /\ run \in Run
  OBVIOUS
<1>3. jobs \in [Job -> 0..MaxJobs]
  OBVIOUS
<1>4. Chosen
  BY DEF Chosen, Idle, Resting
<1>5. restarted \in BOOLEAN /\ overlapped \in BOOLEAN /\ abandoned \in BOOLEAN
  BY Zenon
<1>6. status \in Status
  BY DEF Status
<1>7. upsets \in 0..MaxUpsets /\ live \in Version
  OBVIOUS
<1>8. versions \in SUBSET Numbers /\ stored \in SUBSET Numbers
      /\ served \in SUBSET Numbers
  OBVIOUS
<1> QED
  BY ONLY <1>1, <1>2, <1>3, <1>4, <1>5, <1>6, <1>7, <1>8, Zenon
     DEF TypeInv, TypeOK

LEMMA StepTypes == TypeInv /\ [Next]_vars => TypeInv'
BY AskType, WorkType, OtherType DEF Next

LEMMA TypesHold == Spec => []TypeInv
BY InitTypes, StepTypes, PTL DEF Spec

\* Every variable of the row, its history, its rounds, the requests and the
\* worker keeps its type; no number is out of bounds when it is written.
THEOREM TypeCorrect == Spec => []TypeOK
<1>1. TypeInv => TypeOK
  BY DEF TypeInv
<1> QED
  BY <1>1, TypesHold, PTL

-----------------------------------------------------------------------------
(* The lock.  Until something is upset the row's status says who has it: one *)
(* request that is about to enqueue, or one queued job, or one job at work.  *)

Asking == {h \in Requests : At(h, "enqueue")}
NoJobs == \A j \in Job : jobs[j] = 0
OnlyAsks(j) == run.pc = "idle" /\ NoJobs
               /\ \E h \in Requests : Asking = {h} /\ request[h].job = j
OnlyQueued(j) == run.pc = "idle" /\ Asking = {}
                 /\ \A i \in Job : jobs[i] = IF i = j THEN 1 ELSE 0
OnlyRuns(j) == run.pc # "idle" /\ run.job = j /\ NoJobs /\ Asking = {}
Held(j) == OnlyAsks(j) \/ OnlyQueued(j) \/ OnlyRuns(j)
PendingRounds == {r \in Rounds : round[r].status = "PENDING"}

Unlocked == /\ status \notin {"PENDING", "REVISING"} /\ PendingRounds = {}
            /\ run.pc = "idle" /\ NoJobs /\ Asking = {}
Generating == /\ status = "PENDING" /\ PendingRounds = {}
              /\ Held(0) /\ run.pc \in {"idle", "put", "publish"}
Revising(r) == /\ status = "REVISING" /\ PendingRounds = {r}
               /\ Held(r) /\ run.pc # "failed"
Failing(r) == /\ status = "REVISING" /\ PendingRounds = {}
              /\ OnlyRuns(r) /\ run.pc = "failed"
Lock == Unlocked \/ Generating \/ \E r \in Rounds : Revising(r) \/ Failing(r)
LockInv == upsets = 0 => Lock

\* What neither holds nor waits for the lock leaves it alone.
LEMMA LockFrame ==
  ASSUME Lock, UNCHANGED <<status, round, jobs, run>>, Asking' = Asking,
         \A h \in Asking : request'[h].job = request[h].job
  PROVE  Lock'
<1>1. PendingRounds' = PendingRounds
  BY DEF PendingRounds
<1>2. ASSUME NEW j \in Job, Held(j) PROVE Held(j)'
  BY <1>2 DEF Held, OnlyAsks, OnlyQueued, OnlyRuns, NoJobs
<1>3. 0 \in Job /\ Rounds \subseteq Job
  BY Bounds
<1>4. CASE Unlocked
  BY <1>1, <1>4 DEF Unlocked, NoJobs, Lock
<1>5. CASE Generating
  BY <1>1, <1>2, <1>3, <1>5 DEF Generating, Lock
<1>6. ASSUME NEW r \in Rounds, Revising(r) PROVE Lock'
  BY <1>1, <1>2, <1>3, <1>6 DEF Revising, Lock
<1>7. ASSUME NEW r \in Rounds, Failing(r) PROVE Lock'
  BY <1>1, <1>7 DEF Failing, OnlyRuns, NoJobs, Lock
<1> QED
  BY <1>4, <1>5, <1>6, <1>7 DEF Lock

\* The requests that are about to enqueue, as one of them moves.
LEMMA AskingMoves ==
  ASSUME request \in [Requests -> Request], NEW h \in Requests, NEW q,
         request' = [request EXCEPT ![h] = q]
  PROVE  /\ q.pc = "enqueue" => Asking' = Asking \cup {h}
         /\ q.pc # "enqueue" => Asking' = Asking \ {h}
         /\ request'[h] = q
BY DEF Asking, At

LEMMA PatchLock ==
  ASSUME TypeInv, Lock, NEW h \in Requests,
         \/ \E base \in Numbers : BeginPatch(h, base)
         \/ ChoosePatch(h) \/ PutPatch(h) \/ PublishPatch(h) \/ PatchEnds(h)
  PROVE  Lock'
<1>1. request \in [Requests -> Request]
  BY DEF TypeInv, TypeOK
<1>2. UNCHANGED <<status, round, jobs, run>>
  BY DEF BeginPatch, ChoosePatch, PutPatch, PublishPatch, PatchEnds, artifacts
<1>3. request[h].pc # "enqueue"
  BY DEF BeginPatch, ChoosePatch, PutPatch, PublishPatch, PatchEnds, At,
         Patching
<1>4. ASSUME NEW q, request' = [request EXCEPT ![h] = q], q.pc # "enqueue"
      PROVE  Lock'
  <2>1. Asking' = Asking /\ \A g \in Asking : request'[g] = request[g]
    BY <1>1, <1>3, <1>4, AskingMoves DEF Asking, At
  <2> QED
    BY <1>2, <2>1, LockFrame
<1>5. CASE PutPatch(h)
  <2>1. request' = [request EXCEPT ![h] = [request[h] EXCEPT !.pc = "publish"]]
    BY <1>5 DEF PutPatch, To
  <2>2. [request[h] EXCEPT !.pc = "publish"].pc # "enqueue"
    BY <1>1 DEF Request
  <2> QED
    BY <1>4, <2>1, <2>2
<1>6. ASSUME NEW base \in Numbers, BeginPatch(h, base) PROVE Lock'
  <2>1. request' = [request EXCEPT ![h] = Patches(base)]
    BY <1>6 DEF BeginPatch
  <2>2. Patches(base).pc # "enqueue"
    BY DEF Patches
  <2> QED
    BY <1>4, <2>1, <2>2
<1>7. CASE ChoosePatch(h)
  <2> DEFINE n == NextNumber(request[h].seen)
  <2>1. request' = [request EXCEPT ![h] = Writes(n)]
    BY <1>7 DEF ChoosePatch
  <2>2. Writes(n).pc # "enqueue"
    BY DEF Writes
  <2> HIDE DEF n
  <2> QED
    BY <1>4, <2>1, <2>2
<1>8. CASE PublishPatch(h) \/ PatchEnds(h)
  <2>1. request' = [request EXCEPT ![h] = Idle]
    BY <1>8 DEF PublishPatch, PatchEnds, Done
  <2>2. Idle.pc # "enqueue"
    BY DEF Idle
  <2> QED
    BY <1>4, <2>1, <2>2
<1> QED
  BY <1>5, <1>6, <1>7, <1>8

\* A request claims the row: nobody has it, and this request has it then.
LEMMA ClaimLock ==
  ASSUME TypeInv, Lock, NEW h \in Requests,
         \/ Trigger(h) \/ \E r \in Rounds : Feedback(h, r) \/ Apply(h, r)
  PROVE  Lock'
<1>1. request \in [Requests -> Request] /\ round \in [Rounds -> Round]
  BY DEF TypeInv, TypeOK
<1>2. Unlocked
  BY DEF Lock, Generating, Revising, Failing, Trigger, Feedback, Apply,
         BeginRound, Opens
<1>3. UNCHANGED <<jobs, run>>
  BY DEF Trigger, Begin, Feedback, Apply, BeginRound
<1>4. ASSUME NEW j \in Job, request' = [request EXCEPT ![h] = Asks(j)]
      PROVE  Held(j)'
  <2>1. Asks(j).pc = "enqueue" /\ Asks(j).job = j
    BY DEF Asks
  <2>2. Asking' = {h} /\ request'[h].job = j
    BY <1>1, <1>2, <1>4, <2>1, AskingMoves DEF Unlocked
  <2>3. run'.pc = "idle" /\ NoJobs'
    BY <1>2, <1>3 DEF Unlocked, NoJobs
  <2> QED
    BY <2>2, <2>3 DEF Held, OnlyAsks
<1>5. run'.pc = "idle"
  BY <1>2, <1>3 DEF Unlocked
<1>6. CASE Trigger(h)
  <2>1. PendingRounds' = {} /\ status' = "PENDING"
    BY <1>2, <1>6 DEF Trigger, Begin, Unlocked, PendingRounds
  <2>2. Held(0)'
    BY <1>4, <1>6, Bounds DEF Trigger, Begin
  <2> QED
    BY <1>5, <2>1, <2>2 DEF Generating, Lock
<1>7. ASSUME NEW r \in Rounds, BeginRound(h, r)
      PROVE  Lock'
  <2>1. PendingRounds' = {r} /\ status' = "REVISING"
    BY <1>1, <1>2, <1>7 DEF BeginRound, Unlocked, PendingRounds
  <2>2. Held(r)'
    BY <1>4, <1>7, Bounds DEF BeginRound
  <2> QED
    BY <1>5, <2>1, <2>2 DEF Revising, Lock
<1> QED
  BY <1>6, <1>7 DEF Feedback, Apply

LEMMA QueueingLock ==
  ASSUME TypeInv, Lock, NEW h \in Requests, Queueing(h)
  PROVE  Lock'
<1>1. /\ request \in [Requests -> Request] /\ round \in [Rounds -> Round]
      /\ jobs \in [Job -> 0..MaxJobs] /\ request[h].job \in Job
  BY DEF TypeInv, TypeOK, Request
<1>2. h \in Asking
  BY DEF Queueing, Enqueue, EnqueueThrows, Asking
<1> DEFINE j == request[h].job
<1>3. OnlyAsks(j) /\ Asking = {h} /\ run.pc = "idle" /\ NoJobs
      /\ (\/ j = 0 /\ Generating
          \/ j \in Rounds /\ Revising(j))
  BY <1>2 DEF Lock, Unlocked, Generating, Revising, Failing, Held, OnlyAsks,
              OnlyQueued, OnlyRuns
<1>4. Asking' = {}
  BY <1>1, <1>3, AskingMoves DEF Queueing, Enqueue, EnqueueThrows, Done, Idle
<1>5. CASE Enqueue(h)
  <2>1. \A i \in Job : jobs'[i] = IF i = j THEN 1 ELSE 0
    BY <1>1, <1>3, <1>5, Bounds DEF Enqueue, Enqueued, NoJobs
  <2>2. UNCHANGED <<status, round, run>>
    BY <1>5 DEF Enqueue
  <2>3. PendingRounds' = PendingRounds
    BY <2>2 DEF PendingRounds
  <2>4. ASSUME NEW i \in Job, i = j PROVE Held(i)'
    BY <1>3, <1>4, <2>1, <2>2, <2>4 DEF Held, OnlyQueued
  <2>5. ASSUME j = 0, Generating PROVE Lock'
    BY <1>3, <2>2, <2>3, <2>4, <2>5, Bounds DEF Generating, Lock
  <2>6. ASSUME NEW r \in Rounds, r = j, Revising(r) PROVE Lock'
    BY <1>3, <2>2, <2>3, <2>4, <2>6, Bounds DEF Revising, Lock
  <2> QED
    BY <1>3, <2>5, <2>6
<1>6. CASE EnqueueThrows(h)
  <2>1. UNCHANGED <<jobs, run>> /\ status' \in {"FAILED", "READY"}
    BY <1>6 DEF EnqueueThrows
  <2>2. round' = IF j = 0 THEN round ELSE Failed(j)
    BY <1>6 DEF EnqueueThrows
  <2>3. PendingRounds' = {}
    BY <1>1, <1>3, <2>2, Bounds
       DEF Failed, PendingRounds, Generating, Revising, Rounds
  <2> QED
    BY <1>3, <1>4, <2>1, <2>3 DEF Unlocked, NoJobs, Lock
<1> QED
  BY <1>5, <1>6 DEF Queueing

LEMMA TakeLock ==
  ASSUME TypeInv, Lock, NEW j \in Job, TakeJob(j)
  PROVE  Lock'
<1>1. jobs \in [Job -> 0..MaxJobs] /\ run.pc = "idle" /\ jobs[j] > 0
  BY DEF TypeInv, TypeOK, TakeJob
<1>2. OnlyQueued(j) /\ ((j = 0 /\ Generating) \/ (j \in Rounds /\ Revising(j)))
  <2>1. ~NoJobs
    BY <1>1 DEF NoJobs
  <2>2. ASSUME NEW i \in Job, Held(i) PROVE i = j /\ OnlyQueued(j)
    <3>1. OnlyQueued(i)
      BY <1>1, <2>1, <2>2 DEF Held, OnlyAsks, OnlyRuns
    <3>2. jobs[j] = IF j = i THEN 1 ELSE 0
      BY <3>1 DEF OnlyQueued
    <3>3. i = j
      BY <1>1, <3>2
    <3> QED
      BY <3>1, <3>3
  <2>3. ~Unlocked /\ \A r \in Rounds : ~Failing(r)
    BY <1>1, <2>1 DEF Unlocked, Failing
  <2>4. CASE Generating
    <3>1. 0 \in Job /\ Held(0)
      BY <2>4, Bounds DEF Generating
    <3> QED
      BY <2>2, <2>4, <3>1
  <2>5. ASSUME NEW r \in Rounds, Revising(r)
        PROVE  OnlyQueued(j) /\ j \in Rounds /\ Revising(j)
    <3>1. r \in Job /\ Held(r)
      BY <2>5, Bounds DEF Revising
    <3> QED
      BY <2>2, <2>5, <3>1
  <2> QED
    BY <2>3, <2>4, <2>5 DEF Lock
<1>3. status = Awaits(j)
  BY <1>2, Bounds DEF Generating, Revising, Awaits, Rounds
<1>4. run' = IF j = 0 THEN Runs("put", 0, live, live + 1)
             ELSE Runs("round", j, live, 0)
  BY <1>3 DEF TakeJob
<1>5. UNCHANGED <<status, round, request>> /\ jobs' = [jobs EXCEPT ![j] = @ - 1]
  BY DEF TakeJob
<1>6. OnlyRuns(j)' /\ run'.pc \in {"put", "round"}
      /\ (j = 0 => run'.pc = "put")
  BY <1>1, <1>2, <1>4, <1>5
     DEF OnlyQueued, OnlyRuns, NoJobs, Runs, Asking, At
<1>7. PendingRounds' = PendingRounds
  BY <1>5 DEF PendingRounds
<1> QED
  BY <1>2, <1>5, <1>6, <1>7 DEF Generating, Revising, Held, Lock

LEMMA WorkLock ==
  ASSUME TypeInv, Lock,
         \/ Decline \/ ReadRound \/ ChooseRevision \/ PutResult
         \/ PublishGeneration \/ PublishRevision
         \/ GenerationFails \/ RoundFails \/ GiveBack
  PROVE  Lock'
<1>1. run \in Run /\ round \in [Rounds -> Round] /\ run.pc # "idle"
  BY DEF TypeInv, TypeOK, Decline, ReadRound, ChooseRevision, PutResult,
         PublishGeneration, PublishRevision, GenerationFails, RoundFails,
         GiveBack
<1> DEFINE j == run.job
<1>2. /\ NoJobs /\ Asking = {}
      /\ \/ j = 0 /\ Generating
         \/ j \in Rounds /\ (Revising(j) \/ Failing(j))
  BY <1>1 DEF Lock, Unlocked, Generating, Revising, Failing, Held,
              OnlyAsks, OnlyQueued, OnlyRuns
<1>3. UNCHANGED <<jobs, request>>
  BY DEF Decline, ReadRound, ChooseRevision, PutResult, PublishGeneration,
         PublishRevision, GenerationFails, RoundFails, GiveBack
<1>4. NoJobs' /\ Asking' = {}
  BY <1>2, <1>3 DEF NoJobs, Asking, At
<1>5. ASSUME run' = Resting, status' \notin {"PENDING", "REVISING"},
             PendingRounds' = {}
      PROVE  Lock'
  BY <1>4, <1>5 DEF Resting, Unlocked, Lock
<1>6. CASE Decline \/ PublishGeneration \/ GenerationFails
  <2>1. run' = Resting /\ status' \notin {"PENDING", "REVISING"}
        /\ round' = round /\ j = 0
    BY <1>6 DEF Decline, PublishGeneration, GenerationFails, Rest
  <2> QED
    BY <1>2, <1>5, <2>1 DEF Generating, Rounds, PendingRounds
<1>7. ASSUME run'.pc \notin {"idle", "failed"}, run'.job = j,
             UNCHANGED <<status, round>>, Generating \/ Revising(j),
             j = 0 => run'.pc \in {"put", "publish"}
      PROVE  Lock'
  <2>1. OnlyRuns(j)' /\ PendingRounds' = PendingRounds
    BY <1>4, <1>7 DEF OnlyRuns, PendingRounds
  <2> QED
    BY <1>2, <1>7, <2>1 DEF Generating, Revising, Failing, Held, Lock
<1>8. CASE ReadRound
  <2>1. Revising(j) /\ j \in Rounds
    BY <1>2, <1>8 DEF ReadRound, Generating, Failing
  <2>2. round[j].status = "PENDING"
    BY <2>1 DEF Revising, PendingRounds
  <2>3. run' = [run EXCEPT !.pc = "revise"] /\ UNCHANGED <<status, round>>
    BY <1>8, <2>2 DEF ReadRound
  <2> QED
    BY <1>1, <1>7, <2>1, <2>3, Bounds DEF Run, Rounds
<1>9. CASE ChooseRevision
  <2>1. Revising(j) /\ j \in Rounds
    BY <1>2, <1>9 DEF ChooseRevision, Generating, Failing
  <2> QED
    BY <1>7, <1>9, <2>1 DEF ChooseRevision, Runs
<1>10. CASE PutResult
  <2>1. Generating \/ Revising(j)
    BY <1>2, <1>10 DEF PutResult, Failing
  <2> QED
    BY <1>1, <1>7, <1>10, <2>1 DEF PutResult, Run
<1>11. CASE PublishRevision
  <2>1. Revising(j) /\ j \in Rounds
    BY <1>2, <1>11 DEF PublishRevision, Failing
  <2>2. PendingRounds' = {}
    BY <1>1, <1>11, <2>1 DEF PublishRevision, Revising, PendingRounds
  <2> QED
    BY <1>5, <1>11, <2>2 DEF PublishRevision, Rest
<1>12. CASE RoundFails
  <2>1. Revising(j) /\ j \in Rounds
    BY <1>2, <1>12 DEF RoundFails, Failing
  <2>2. PendingRounds' = {}
    BY <1>1, <1>12, <2>1 DEF RoundFails, Failed, Revising, PendingRounds
  <2>3. run'.pc = "failed" /\ run'.job = j /\ status' = "REVISING"
    BY <1>1, <1>12, <2>1 DEF RoundFails, Run, Revising
  <2> QED
    BY <1>4, <2>1, <2>2, <2>3 DEF Failing, OnlyRuns, Lock
<1>13. CASE GiveBack
  <2>1. PendingRounds' = {}
    BY <1>2, <1>13 DEF GiveBack, Generating, Revising, Failing, PendingRounds
  <2> QED
    BY <1>5, <1>13, <2>1 DEF GiveBack, Rest
<1> QED
  BY <1>6, <1>8, <1>9, <1>10, <1>11, <1>12, <1>13

LEMMA StepLock == TypeInv /\ LockInv /\ [Next]_vars => LockInv'
<1> SUFFICES ASSUME TypeInv, LockInv, [Next]_vars, upsets' = 0
             PROVE  Lock'
  BY DEF LockInv
<1>1. upsets \in Nat
  BY Bounds DEF TypeInv, TypeOK
<1>2. ~Upset
  BY <1>1 DEF Upset
<1>3. CASE upsets = 0
  <2>1. Lock
    BY <1>3 DEF LockInv
  <2>2. ASSUME NEW h \in Requests,
               Ask(h) \/ Queueing(h) \/ PatchEnds(h) \/ NeverQueued(h)
        PROVE  Lock'
    <3>1. ~Restart(h) /\ ~NeverQueued(h)
      BY <1>2 DEF Restart, NeverQueued
    <3> QED
      BY <2>1, <2>2, <3>1, PatchLock, ClaimLock, QueueingLock DEF Ask
  <2>3. CASE Work
    BY <2>1, <2>3, TakeLock, WorkLock DEF Work
  <2>4. CASE \/ \E base \in Numbers : Restore(base)
             \/ \E gone \in SUBSET Numbers : Collect(gone)
             \/ UNCHANGED vars
    <3>1. UNCHANGED <<status, round, jobs, run, request>>
      BY <2>4 DEF Restore, Collect, vars
    <3>2. Asking' = Asking
      BY <3>1 DEF Asking, At
    <3> QED
      BY <2>1, <3>1, <3>2, LockFrame
  <2>5. ~FailureLost /\ ~Crash /\ ~HandedOutAgain
    BY <1>2 DEF FailureLost, Crash, HandedOutAgain
  <2> QED
    BY <2>2, <2>3, <2>4, <2>5 DEF Next
<1>4. CASE upsets # 0
  <2>1. upsets' = upsets
    BY <1>2 DEF Next, Ask, Queueing, Work, Trigger, Restart, Feedback, Apply,
       BeginRound, BeginPatch, ChoosePatch, PutPatch, PublishPatch, PatchEnds,
       NeverQueued, Enqueue, EnqueueThrows, Restore, Collect, TakeJob,
       Decline, ReadRound, ChooseRevision, PutResult, PublishGeneration,
       PublishRevision, GenerationFails, RoundFails, GiveBack, FailureLost,
       Crash, HandedOutAgain, vars
  <2> QED
    BY <1>4, <2>1
<1> QED
  BY <1>3, <1>4

LEMMA InitLock == Init => LockInv
BY Bounds DEF Init, LockInv, Lock, Unlocked, PendingRounds, NoJobs, Asking, At,
              NoRound, Idle, Resting

\* As long as nothing is upset, at most one round is pending, only while the
\* row is REVISING, and a REVISING row has one but for the moment between the
\* two writes of a failed round.
THEOREM RoundLocked == Spec => []RoundIsLocked
<1>1. LockInv => RoundIsLocked
  <2> SUFFICES ASSUME Lock PROVE
        /\ Cardinality(PendingRounds) <= 1
        /\ PendingRounds # {} => status = "REVISING"
        /\ status = "REVISING" => PendingRounds # {} \/ run.pc = "failed"
    BY DEF LockInv, RoundIsLocked, PendingRounds
  <2>1. PendingRounds = {} \/ \E r \in Rounds : PendingRounds = {r}
    BY DEF Lock, Unlocked, Generating, Revising, Failing
  <2>2. Cardinality(PendingRounds) <= 1
    <3>1. Cardinality({}) = 0 /\ \A r \in Rounds : Cardinality({r}) = 1
      BY FS_EmptySet, FS_Singleton, Zenon
    <3>2. Cardinality(PendingRounds) = 0 \/ Cardinality(PendingRounds) = 1
      BY <2>1, <3>1, Zenon
    <3> QED
      BY <3>2
  <2> QED
    BY <2>2 DEF Lock, Unlocked, Generating, Revising, Failing
<1> QED
  BY <1>1, InitTypes, InitLock, StepTypes, StepLock, PTL DEF Spec

-----------------------------------------------------------------------------
(* The number of a new version.                                            *)

\* A finite set of numbers has a greatest one: what lies above an element
\* shrinks from one element to a greater one.
LEMMA MaxExists ==
  ASSUME NEW S \in SUBSET Nat, IsFiniteSet(S), S # {}
  PROVE  \E m \in S : \A n \in S : m >= n
<1> DEFINE Above(x) == {y \in S : y > x}
           T == {Above(x) : x \in S}
<1>1. IsWellFoundedOn(StrictSubsetOrdering(S), SUBSET S)
  BY FS_StrictSubsetOrderingWellFounded, FS_FiniteSubsetsOfFinite, Zenon
<1>2. T \subseteq SUBSET S /\ T # {}
  OBVIOUS
<1>3. \E U \in T : \A V \in T : <<V, U>> \notin StrictSubsetOrdering(S)
  <2> HIDE DEF T
  <2> QED
    BY <1>1, <1>2, WFMin, Zenon
<1>4. PICK m \in S : \A V \in T : <<V, Above(m)>> \notin StrictSubsetOrdering(S)
  BY <1>3
<1>5. ASSUME NEW n \in S, n > m PROVE FALSE
  <2>1. Above(n) \subseteq Above(m)
    <3> SUFFICES ASSUME NEW y \in S, y > n PROVE y > m
      OBVIOUS
    <3>1. m \in Nat /\ n \in Nat /\ y \in Nat
      OBVIOUS
    <3> QED
      BY <1>5, <3>1
  <2>2. n \in Above(m) /\ n \notin Above(n)
    BY <1>5
  <2>3. Above(n) \in T /\ Above(n) \in SUBSET S /\ Above(m) \in SUBSET S
    OBVIOUS
  <2>4. <<Above(n), Above(m)>> \in StrictSubsetOrdering(S)
    <3> HIDE DEF Above
    <3> QED
      BY <2>1, <2>2, <2>3 DEF StrictSubsetOrdering
  <2> QED
    BY <1>4, <2>3, <2>4, Zenon
<1> QED
  BY <1>5

\* The number that is chosen is nobody's: greater than every version's.
LEMMA NextIsNew ==
  ASSUME TypeInv, NEW seen \in Version
  PROVE  NextNumber(seen) \in Nat \ versions
<1> DEFINE S == {seen} \cup versions
<1>1. /\ S \in SUBSET Nat /\ S # {} /\ versions \in SUBSET Numbers
      /\ versions \subseteq S
  BY Bounds DEF TypeInv, TypeOK, Version, Numbers
<1>2. IsFiniteSet(S)
  <2>1. S \subseteq 0..MaxVersion /\ IsFiniteSet(0..MaxVersion)
    BY <1>1, Bounds, FS_Interval DEF Version, Numbers
  <2> QED
    BY <2>1, FS_Subset, Zenon
<1>3. Max(S) \in S /\ \A n \in S : Max(S) >= n
  <2>1. \E m \in S : \A n \in S : m >= n
    BY <1>1, <1>2, MaxExists, Zenon
  <2> QED
    BY <2>1, Zenon DEF Max
<1>4. NextNumber(seen) = Max(S) + 1
  BY DEF NextNumber
<1> HIDE DEF S
<1>5. NextNumber(seen) \in Nat /\ NextNumber(seen) \notin S
  <2> DEFINE m == Max(S)
  <2>1. m \in Nat /\ \A n \in S : n \in Nat /\ m >= n
    BY <1>1, <1>3
  <2> HIDE DEF m
  <2>2. m + 1 \in Nat /\ m + 1 \notin S
    BY <2>1
  <2> QED
    BY <1>4, <2>2 DEF m
<1> QED
  BY <1>1, <1>5, Zenon

-----------------------------------------------------------------------------
(* The history.  A generation begins on a row without an artifact; until   *)
(* it publishes, no other writer can.  From the first edit or round on the *)
(* history has the live version, so that whoever replaces it loses         *)
(* nothing.  A number is new when it is chosen, and stays so as long as no *)
(* other writer is at work.                                                *)

Generates == run.pc \in {"put", "publish"} /\ run.job = 0
Revises == run.pc = "revise" \/ (run.pc \in {"put", "publish"} /\ run.job # 0)

Begun ==
  /\ live = 0 => /\ versions = {} /\ served = {}
                 /\ status # "REVISING" /\ run.pc # "round"
  /\ status = "PENDING" \/ Generates => live = 0
  /\ run.pc \in {"round", "revise"} => run.job # 0
Recorded ==
  /\ served \subseteq {live} \cup versions
  /\ versions # {} => live \in versions
  /\ Patching # {} \/ Revises => versions # {}
  /\ run.pc = "round" /\ versions = {} => run.seen = live
Alone ==
  ~overlapped => /\ \A g, h \in Patching : g = h
                 /\ Patching = {} \/ run.pc = "idle"
Unserved ==
  ~overlapped =>
    /\ \A h \in Requests : At(h, "put") => request[h].number \notin served
    /\ run.pc = "put" => run.number \notin served
Kept == Begun /\ Recorded /\ Unserved
KeptInv == ~restarted => Alone /\ Kept

\* A request that moves, and who is patching then.
LEMMA PatchingMoves ==
  ASSUME request \in [Requests -> Request], NEW h \in Requests, NEW q,
         request' = [request EXCEPT ![h] = q]
  PROVE  /\ Patching' \subseteq Patching \cup {h}
         /\ h \in Patching \/ q.pc \notin {"patch", "put", "publish"}
              => Patching' \subseteq Patching
         /\ \A g \in Requests : g # h => request'[g] = request[g]
         /\ request'[h] = q
BY DEF Patching

\* A step that chooses no number, publishes nothing and records nothing.
Quiet ==
  /\ UNCHANGED <<live, versions, served, overlapped>>
  /\ Patching' \subseteq Patching
  /\ \A h \in Requests : At(h, "put")' =>
       At(h, "put") /\ request'[h].number = request[h].number
  /\ \/ run' = run
     \/ run'.pc = "idle"
     \/ run.pc # "idle" /\ run'.pc = "failed"
     \/ run.pc = "put" /\ run'.pc = "publish" /\ run'.job = run.job
  /\ status' = "REVISING" => status = "REVISING" \/ live # 0
  /\ status' = "PENDING" => status = "PENDING" \/ live = 0

LEMMA QuietKeeps ==
  ASSUME Alone, Quiet
  PROVE  Alone' /\ (Kept => Kept')
<1>1. Alone'
  BY DEF Alone, Quiet
<1>2. ASSUME Kept PROVE Begun'
  BY <1>2 DEF Kept, Begun, Generates, Quiet
<1>3. ASSUME Kept PROVE Recorded'
  BY <1>3 DEF Kept, Recorded, Revises, Quiet
<1>4. ASSUME Kept PROVE Unserved'
  BY <1>4 DEF Kept, Unserved, Quiet
<1> QED
  BY <1>1, <1>2, <1>3, <1>4 DEF Kept

\* A request that claims the row, or ends.
LEMMA QuietRequest ==
  ASSUME TypeInv, ~restarted', NEW h \in Requests,
         \/ Trigger(h) \/ Restart(h) \/ PutPatch(h)
         \/ \E r \in Rounds : Feedback(h, r)
         \/ Queueing(h) \/ PatchEnds(h) \/ NeverQueued(h)
  PROVE  Quiet
<1>1. request \in [Requests -> Request]
  BY DEF TypeInv, TypeOK
<1>2. UNCHANGED <<live, versions, served, overlapped, run>>
  <2>1. CASE Trigger(h) \/ Restart(h)
    BY <2>1 DEF Trigger, Restart, Begin
  <2>2. CASE ~(Trigger(h) \/ Restart(h))
    BY <2>2 DEF PutPatch, Feedback, BeginRound, Queueing, Enqueue,
       EnqueueThrows, PatchEnds, NeverQueued, artifacts, history
  <2> QED
    BY <2>1, <2>2
<1>3. /\ status' = "REVISING" => status = "REVISING" \/ live # 0
      /\ status' = "PENDING" => status = "PENDING" \/ live = 0
  <2>1. CASE Trigger(h) \/ Restart(h)
    BY <2>1 DEF Trigger, Restart, Begin
  <2>2. CASE ~(Trigger(h) \/ Restart(h))
    BY <2>2 DEF PutPatch, Feedback, BeginRound, Opens, Queueing, Enqueue,
       EnqueueThrows, PatchEnds, NeverQueued
  <2> QED
    BY <2>1, <2>2
<1>4. CASE PutPatch(h)
  <2> DEFINE q == [request[h] EXCEPT !.pc = "publish"]
  <2>1. request' = [request EXCEPT ![h] = q] /\ h \in Patching
    BY <1>4 DEF PutPatch, To, At, Patching
  <2>2. q.pc = "publish"
    BY <1>1 DEF Request
  <2> HIDE DEF q
  <2> QED
    BY <1>1, <1>2, <1>3, <2>1, <2>2, PatchingMoves DEF Quiet, At
<1>5. CASE ~PutPatch(h)
  <2>1. PICK q : /\ request' = [request EXCEPT ![h] = q]
                 /\ q.pc \in {"idle", "enqueue"}
    <3>1. Idle.pc = "idle" /\ \A j : Asks(j).pc = "enqueue"
      BY DEF Idle, Asks
    <3>2. \/ request' = [request EXCEPT ![h] = Idle]
          \/ \E j : request' = [request EXCEPT ![h] = Asks(j)]
      BY <1>5 DEF Trigger, Restart, Begin, Feedback, BeginRound, Queueing,
         Enqueue, EnqueueThrows, PatchEnds, NeverQueued, Done
    <3> QED
      BY <3>1, <3>2
  <2> QED
    BY <1>1, <1>2, <1>3, <2>1, PatchingMoves DEF Quiet, At
<1> QED
  BY <1>4, <1>5

\* The worker settles its job or puts its document, the collector collects.
LEMMA QuietWork ==
  ASSUME TypeInv,
         \/ Decline \/ PutResult \/ GenerationFails \/ RoundFails \/ GiveBack
         \/ FailureLost \/ Crash \/ HandedOutAgain
         \/ \E old \in SUBSET Numbers : Collect(old)
         \/ UNCHANGED vars
  PROVE  Quiet
<1>1. run \in Run
  BY DEF TypeInv, TypeOK
<1>2. UNCHANGED <<live, versions, served, overlapped, request>>
  BY DEF Decline, PutResult, GenerationFails, RoundFails, GiveBack,
     FailureLost, Crash, HandedOutAgain, Collect, vars, artifacts, history
<1>3. status' \in {status, "READY", "FAILED", "DECLINED"}
  BY DEF Decline, PutResult, GenerationFails, RoundFails, GiveBack,
     FailureLost, Crash, HandedOutAgain, Collect, vars
<1>4. \/ run' = run \/ run'.pc = "idle"
      \/ run.pc # "idle" /\ run'.pc = "failed"
      \/ run.pc = "put" /\ run'.pc = "publish" /\ run'.job = run.job
  BY <1>1 DEF Run, Decline, PutResult, GenerationFails, RoundFails, GiveBack,
     FailureLost, Crash, HandedOutAgain, Collect, vars, Rest, Resting
<1>5. Patching' = Patching
  BY <1>2 DEF Patching
<1> QED
  BY <1>2, <1>3, <1>4, <1>5 DEF Quiet, At

\* An edit finds an artifact, and has the live version in the history.
LEMMA EditsRecord ==
  ASSUME Begun, Recorded, NEW base, Edits(base)
  PROVE  /\ live # 0 /\ live \in versions' /\ base \in versions'
         /\ versions \subseteq versions'
BY DEF Begun, Recorded, Edits, Snapshot

\* Apply and restore.
LEMMA EditKept ==
  ASSUME TypeInv, Alone, ~restarted, Kept, NEW base \in Numbers,
         \/ Restore(base)
         \/ Edits(base) /\ \E h \in Requests, r \in Rounds : BeginRound(h, r)
  PROVE  Alone' /\ Kept'
<1>1. /\ live # 0 /\ live \in versions' /\ base \in versions'
      /\ versions \subseteq versions'
  BY EditsRecord DEF Restore, Kept
<1>2. /\ UNCHANGED <<served, run, overlapped>> /\ live' \in {live, base}
      /\ status' = "PENDING" => status = "PENDING"
  BY DEF Restore, BeginRound, history
<1>3. /\ request \in [Requests -> Request]
      /\ live' # 0
  BY <1>1, <1>2, Bounds DEF TypeInv, TypeOK, Numbers
<1>4. /\ Patching' \subseteq Patching
      /\ \A g \in Requests : At(g, "put")' =>
           At(g, "put") /\ request'[g].number = request[g].number
  <2>1. CASE Restore(base)
    BY <2>1 DEF Restore, Patching, At
  <2>2. ASSUME NEW h \in Requests, NEW r \in Rounds, BeginRound(h, r)
        PROVE  /\ Patching' \subseteq Patching
               /\ \A g \in Requests : At(g, "put")' =>
                    At(g, "put") /\ request'[g].number = request[g].number
    <3>1. request' = [request EXCEPT ![h] = Asks(r)] /\ Asks(r).pc = "enqueue"
      BY <2>2 DEF BeginRound, Asks
    <3> QED
      BY <1>3, <3>1, PatchingMoves DEF At
  <2>3. Restore(base) \/ \E h \in Requests, r \in Rounds : BeginRound(h, r)
    OBVIOUS
  <2> QED
    BY <2>1, <2>2, <2>3, Zenon
<1>5. Alone'
  BY <1>2, <1>4 DEF Alone
<1>6. Begun'
  BY <1>1, <1>2, <1>3 DEF Kept, Begun, Generates
<1>7. Recorded'
  BY <1>1, <1>2, <1>3 DEF Kept, Recorded, Revises
<1>8. Unserved'
  BY <1>2, <1>4 DEF Kept, Unserved
<1> QED
  BY <1>5, <1>6, <1>7, <1>8 DEF Kept

LEMMA BeginPatchKept ==
  ASSUME TypeInv, Alone, NEW h \in Requests, NEW base \in Numbers,
         BeginPatch(h, base)
  PROVE  Alone' /\ (Kept => Kept')
<1>1. /\ UNCHANGED <<live, served, run, status>>
      /\ overlapped' = (overlapped \/ Patching # {} \/ run.pc # "idle")
      /\ request' = [request EXCEPT ![h] = Patches(base)]
      /\ request \in [Requests -> Request]
  BY DEF BeginPatch, TypeInv, TypeOK
<1>2. /\ Patching' \subseteq Patching \cup {h}
      /\ \A g \in Requests : At(g, "put")' =>
           At(g, "put") /\ request'[g].number = request[g].number
  BY <1>1, PatchingMoves DEF Patches, At
<1>3. Alone'
  BY <1>1, <1>2 DEF Alone
<1>4. ASSUME Kept PROVE Kept'
  <2>1. live # 0 /\ live \in versions' /\ versions \subseteq versions'
    BY <1>4, EditsRecord DEF BeginPatch, Kept
  <2>2. Begun'
    BY <1>1, <1>4, <2>1 DEF Kept, Begun, Generates
  <2>3. Recorded'
    BY <1>1, <1>4, <2>1 DEF Kept, Recorded, Revises
  <2>4. Unserved'
    BY <1>1, <1>2, <1>4 DEF Kept, Unserved
  <2> QED
    BY <2>2, <2>3, <2>4 DEF Kept
<1> QED
  BY <1>3, <1>4

LEMMA ChoosePatchKept ==
  ASSUME TypeInv, Alone, NEW h \in Requests, ChoosePatch(h)
  PROVE  Alone' /\ (Kept => Kept')
<1> DEFINE n == NextNumber(request[h].seen)
<1>1. /\ UNCHANGED <<live, versions, served, run, status, overlapped>>
      /\ request' = [request EXCEPT ![h] = Writes(n)]
      /\ request \in [Requests -> Request] /\ h \in Patching
  BY DEF ChoosePatch, TypeInv, TypeOK, artifacts, history, Patching, At
<1>2. n \notin versions
  BY <1>1, NextIsNew DEF Request
<1> HIDE DEF n
<1>3. Writes(n).number = n
  BY DEF Writes
<1>4. /\ Patching' \subseteq Patching
      /\ \A g \in Requests : g # h => request'[g] = request[g]
      /\ request'[h] = Writes(n)
  BY <1>1, PatchingMoves
<1>5. Alone'
  BY <1>1, <1>4 DEF Alone
<1>6. ASSUME Kept PROVE Kept'
  <2>1. n \notin served
    BY <1>1, <1>2, <1>6 DEF Kept, Recorded
  <2>2. Begun' /\ Recorded'
    BY <1>1, <1>4, <1>6 DEF Kept, Begun, Recorded, Generates, Revises
  <2>3. Unserved'
    BY <1>1, <1>3, <1>4, <1>6, <2>1 DEF Kept, Unserved, At
  <2> QED
    BY <2>2, <2>3 DEF Kept
<1> QED
  BY <1>5, <1>6

\* A patch that publishes while no other is at work serves a number that
\* nobody else has chosen.
LEMMA PublishPatchKept ==
  ASSUME TypeInv, Alone, ~restarted, Kept, NEW h \in Requests,
         PublishPatch(h)
  PROVE  Alone' /\ Kept'
<1>1. /\ UNCHANGED <<run, status, overlapped>> /\ request[h].pc = "publish"
      /\ request' = [request EXCEPT ![h] = Idle]
      /\ request \in [Requests -> Request] /\ h \in Patching
      /\ request[h].number # 0
  BY Bounds DEF PublishPatch, Done, TypeInv, TypeOK, Chosen, history,
                Patching, At, Numbers
<1>2. /\ Patching' \subseteq Patching
      /\ \A g \in Requests : At(g, "put")' =>
           /\ At(g, "put") /\ request'[g].number = request[g].number
           /\ g # h
  BY <1>1, PatchingMoves DEF At, Idle
<1>3. Alone'
  BY <1>1, <1>2 DEF Alone
<1>4. versions # {} /\ live \in versions /\ live # 0
  BY <1>1 DEF Kept, Begun, Recorded
<1>5. CASE UNCHANGED <<versions, live, served>>
  BY <1>1, <1>2, <1>3, <1>5
     DEF Kept, Begun, Recorded, Unserved, Generates, Revises
<1>6. CASE ~UNCHANGED <<versions, live, served>>
  <2> DEFINE n == request[h].number
  <2>1. /\ versions' = versions \cup {n} /\ live' = n
        /\ served' = served \cup {n} /\ status = "READY"
    BY <1>6 DEF PublishPatch, Serve
  <2>2. Begun'
    BY <1>1, <1>4, <2>1 DEF Kept, Begun, Generates
  <2>3. Recorded'
    BY <1>1, <1>2, <1>4, <2>1 DEF Kept, Recorded, Revises
  <2>4. ASSUME ~overlapped
        PROVE  run.pc = "idle" /\ \A g \in Requests : ~At(g, "put")'
    BY <1>1, <1>2, <2>4 DEF Alone, Patching, At
  <2>5. Unserved'
    BY <1>1, <2>4 DEF Unserved
  <2> QED
    BY <1>3, <2>2, <2>3, <2>5 DEF Kept
<1> QED
  BY <1>5, <1>6

\* A generation goes on while the row has nothing, a round while nobody else
\* writes.
LEMMA TakeKept ==
  ASSUME TypeInv, Alone, NEW j \in Job, TakeJob(j)
  PROVE  Alone' /\ (Kept => Kept')
<1>1. /\ UNCHANGED <<live, versions, served, status, request>>
      /\ run.pc = "idle" /\ live \in Version
      /\ overlapped' = (overlapped \/ (status = Awaits(j) /\ Patching # {}))
      /\ Patching' = Patching
  BY DEF TakeJob, artifacts, TypeInv, TypeOK, Patching
<1>2. \A g \in Requests : At(g, "put")' <=> At(g, "put")
  BY <1>1 DEF At
<1>3. CASE status # Awaits(j)
  <2>1. run'.pc = "idle"
    BY <1>3 DEF TakeJob, Resting
  <2> QED
    BY <1>1, <1>2, <1>3, <2>1
       DEF Alone, Kept, Begun, Recorded, Unserved, Generates, Revises
<1>4. CASE status = Awaits(j)
  <2>1. Alone'
    BY <1>1, <1>4 DEF Alone
  <2>2. run' = IF j = 0 THEN Runs("put", 0, live, live + 1)
               ELSE Runs("round", j, live, 0)
    BY <1>4 DEF TakeJob
  <2>3. CASE j = 0
    <3>1. /\ run'.pc = "put" /\ run'.job = 0 /\ run'.number = live + 1
          /\ status = "PENDING"
      BY <1>4, <2>2, <2>3 DEF Runs, Awaits
    <3>2. ASSUME Kept PROVE Kept'
      <4>1. live = 0 /\ served = {} /\ versions = {}
        BY <3>1, <3>2 DEF Kept, Begun
      <4> QED
        BY <1>1, <1>2, <3>1, <3>2, <4>1
           DEF Kept, Begun, Recorded, Unserved, Generates, Revises
    <3> QED
      BY <2>1, <3>2
  <2>4. CASE j # 0
    <3>1. /\ run'.pc = "round" /\ run'.seen = live /\ run'.job = j
          /\ status = "REVISING"
      BY <1>4, <2>2, <2>4 DEF Runs, Awaits
    <3>2. ASSUME Kept PROVE Kept'
      <4>1. live # 0
        BY <3>1, <3>2 DEF Kept, Begun
      <4> QED
        BY <1>1, <1>2, <2>4, <3>1, <3>2, <4>1
           DEF Kept, Begun, Recorded, Unserved, Generates, Revises
    <3> QED
      BY <2>1, <3>2
  <2> QED
    BY <2>3, <2>4
<1> QED
  BY <1>3, <1>4

\* A round records the live version, and chooses a number above it.
LEMMA RoundKept ==
  ASSUME TypeInv, Alone, ReadRound \/ ChooseRevision
  PROVE  Alone' /\ (Kept => Kept')
<1>1. /\ UNCHANGED <<live, served, request, overlapped>>
      /\ run.pc # "idle" /\ run \in Run
      /\ status' \in {status, "READY"}
      /\ Patching' = Patching
  BY DEF ReadRound, ChooseRevision, artifacts, history, TypeInv, TypeOK,
         Patching
<1>2. \A g \in Requests : At(g, "put")' <=> At(g, "put")
  BY <1>1 DEF At
<1>3. Alone'
  BY <1>1 DEF Alone
<1>4. ASSUME Kept, ReadRound PROVE Kept'
  <2>1. /\ versions' \in {versions, Snapshot(run.seen)}
        /\ \/ run'.pc = "idle"
           \/ /\ run'.pc = "revise" /\ run'.job = run.job
              /\ versions' = Snapshot(run.seen)
        /\ run.pc = "round"
    BY <1>1, <1>4 DEF ReadRound, Rest, Resting, Run
  <2>2. /\ live # 0 /\ versions \subseteq versions'
        /\ versions' # {} => live \in versions'
        /\ run'.pc = "revise" => versions' # {}
    BY <1>4, <2>1 DEF Kept, Begun, Recorded, Snapshot
  <2> QED
    BY <1>1, <1>2, <1>4, <2>1, <2>2
       DEF Kept, Begun, Recorded, Unserved, Generates, Revises
<1>5. ASSUME Kept, ChooseRevision PROVE Kept'
  <2> DEFINE n == NextNumber(run.seen)
  <2>1. /\ run' = Runs("put", run.job, run.seen, n) /\ versions' = versions
        /\ run.pc = "revise" /\ status' = status
    BY <1>5 DEF ChooseRevision, artifacts
  <2>2. n \notin versions
    BY <1>1, NextIsNew DEF Run
  <2> HIDE DEF n
  <2>3. run'.pc = "put" /\ run'.job = run.job /\ run'.number = n
    BY <2>1 DEF Runs
  <2>4. versions # {} /\ live # 0 /\ n \notin served
    BY <1>5, <2>1, <2>2 DEF Kept, Begun, Recorded, Revises
  <2>5. Begun' /\ Recorded'
    BY <1>1, <1>5, <2>1, <2>3, <2>4
       DEF Kept, Begun, Recorded, Generates, Revises
  <2>6. Unserved'
    <3>1. UNCHANGED <<request, served, overlapped>>
      BY <1>1
    <3>2. run'.number \notin served'
      BY <2>3, <2>4, <3>1
    <3> QED
      BY <1>2, <1>5, <3>1, <3>2, Zenon DEF Kept, Unserved
  <2> QED
    BY <2>5, <2>6 DEF Kept
<1> QED
  BY <1>3, <1>4, <1>5

\* The worker publishes.
LEMMA PublishKept ==
  ASSUME TypeInv, Alone, ~restarted, Kept,
         PublishGeneration \/ PublishRevision
  PROVE  Alone' /\ Kept'
<1> DEFINE n == run.number
<1>1. /\ UNCHANGED <<request, overlapped>> /\ run.pc = "publish"
      /\ run'.pc = "idle" /\ live' = n /\ served' = served \cup {n}
      /\ status' = "READY" /\ Patching' = Patching
      /\ n # 0
  BY Bounds DEF PublishGeneration, PublishRevision, Serve, Rest, Resting,
     history, Patching, TypeInv, Chosen, Numbers
<1>2. Alone'
  BY <1>1 DEF Alone
<1>3. Begun'
  BY <1>1 DEF Begun, Generates
<1>4. Recorded'
  <2>1. CASE PublishGeneration
    <3>1. versions' = versions /\ run.job = 0
      BY <2>1 DEF PublishGeneration
    <3>2. live = 0 /\ served = {} /\ versions = {}
      BY <1>1, <3>1 DEF Kept, Begun, Generates
    <3> QED
      BY <1>1, <3>1, <3>2 DEF Kept, Recorded, Revises
  <2>2. CASE PublishRevision
    <3>1. versions' = versions \cup {n} /\ run.job # 0
      BY <2>2 DEF PublishRevision
    <3>2. live \in versions
      BY <1>1, <3>1 DEF Kept, Recorded, Revises
    <3> QED
      BY <1>1, <3>1, <3>2 DEF Kept, Recorded, Revises
  <2> QED
    BY <2>1, <2>2
<1>5. Unserved'
  <2>1. ~overlapped => \A g \in Requests : ~At(g, "put")'
    BY <1>1 DEF Alone, Patching, At
  <2> HIDE DEF n
  <2>2. overlapped' = overlapped /\ run'.pc # "put"
    BY <1>1
  <2> QED
    BY <2>1, <2>2, Zenon DEF Unserved
<1> QED
  BY <1>2, <1>3, <1>4, <1>5 DEF Kept

\* A generation once begun over an artifact stays on record.
LEMMA RestartedStays == [Next]_vars /\ restarted => restarted'
BY DEF Next, Ask, Queueing, Work, Trigger, Restart, Begin, Feedback, Apply,
       BeginRound, BeginPatch, ChoosePatch, PutPatch, PublishPatch, PatchEnds,
       NeverQueued, Enqueue, EnqueueThrows, Restore, Collect, TakeJob,
       Decline, ReadRound, ChooseRevision, PutResult, PublishGeneration,
       PublishRevision, GenerationFails, RoundFails, GiveBack, FailureLost,
       Crash, HandedOutAgain, history, vars

LEMMA StepKept == TypeInv /\ KeptInv /\ [Next]_vars => KeptInv'
<1> SUFFICES ASSUME TypeInv, KeptInv, [Next]_vars, ~restarted'
             PROVE  Alone' /\ Kept'
  BY DEF KeptInv
<1>1. ~restarted /\ Alone /\ Kept
  BY RestartedStays DEF KeptInv
<1>2. CASE Quiet
  BY <1>1, <1>2, QuietKeeps
<1>3. ASSUME NEW h \in Requests, Ask(h) PROVE Alone' /\ Kept'
  <2>1. CASE \/ Trigger(h) \/ Restart(h) \/ PutPatch(h)
             \/ \E r \in Rounds : Feedback(h, r)
    BY <1>2, <2>1, QuietRequest
  <2>2. ASSUME NEW r \in Rounds, Apply(h, r) PROVE Alone' /\ Kept'
    BY <1>1, <2>2, EditKept DEF Apply
  <2>3. ASSUME NEW base \in Numbers, BeginPatch(h, base)
        PROVE  Alone' /\ Kept'
    BY <1>1, <2>3, BeginPatchKept
  <2>4. CASE ChoosePatch(h) \/ PublishPatch(h)
    BY <1>1, <2>4, ChoosePatchKept, PublishPatchKept
  <2> QED
    BY <1>3, <2>1, <2>2, <2>3, <2>4 DEF Ask
<1>4. ASSUME NEW h \in Requests,
             Queueing(h) \/ PatchEnds(h) \/ NeverQueued(h)
      PROVE  Alone' /\ Kept'
  BY <1>2, <1>4, QuietRequest
<1>5. ASSUME NEW base \in Numbers, Restore(base) PROVE Alone' /\ Kept'
  BY <1>1, <1>5, EditKept
<1>6. CASE Work
  <2>1. CASE Decline \/ PutResult \/ GenerationFails \/ RoundFails \/ GiveBack
    BY <1>2, <2>1, QuietWork
  <2>2. CASE \E j \in Job : TakeJob(j)
    BY <1>1, <2>2, TakeKept
  <2>3. CASE ReadRound \/ ChooseRevision
    BY <1>1, <2>3, RoundKept
  <2>4. CASE PublishGeneration \/ PublishRevision
    BY <1>1, <2>4, PublishKept
  <2> QED
    BY <1>6, <2>1, <2>2, <2>3, <2>4 DEF Work
<1>7. CASE \/ FailureLost \/ Crash \/ HandedOutAgain
           \/ \E old \in SUBSET Numbers : Collect(old)
           \/ UNCHANGED vars
  BY <1>2, <1>7, QuietWork
<1> QED
  BY <1>3, <1>4, <1>5, <1>6, <1>7 DEF Next

\* As long as no generation is begun over an artifact, whatever students were
\* once shown is live or in the history that the editor restores from, however
\* patches, restores, rounds and repeated jobs meet; and as long as no patch
\* meets another writer, nobody is about to write over such an artifact.
THEOREM HistoryIsKept == Spec => []HistoryKept
<1>1. Init => KeptInv
  BY DEF Init, KeptInv, Alone, Kept, Begun, Recorded, Unserved, Generates,
         Revises, Patching, At, Idle, Resting
<1>2. KeptInv => HistoryKept
  BY DEF KeptInv, Kept, Recorded, Unserved, HistoryKept
<1> QED
  BY <1>1, <1>2, InitTypes, StepTypes, StepKept, PTL DEF Spec
=============================================================================
