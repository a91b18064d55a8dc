------------------------- MODULE SimulationVersions -------------------------
(***************************************************************************)
(* The simulation of ONE question: generation and regeneration             *)
(* (src/src/lib/simulation-trigger.ts), review rounds and the editor's     *)
(* restore, patch and apply (src/src/app/api/simulations/[id]/), the       *)
(* worker's job (src/src/lib/simulation-engine.ts), the version history    *)
(* (src/src/lib/simulation-versions.ts) and the collector's pass over the  *)
(* artifacts (src/src/lib/s3-gc.ts).                                       *)
(*                                                                         *)
(* The artifact of version n has the key .../v<n>.html: versions, keys and *)
(* numbers are one.  Job 0 generates; job r > 0 is review round r.  The    *)
(* question has no sibling whose artifact it could share, and the row is   *)
(* not deleted.                                                            *)
(***************************************************************************)
EXTENDS Integers, FiniteSets, FiniteSetsExt

CONSTANTS
  Requests,    \* requests of teachers and administrators in flight at once
  MaxVersion,  \* bound: version numbers
  MaxRounds,   \* bound: review rounds
  MaxJobs,     \* bound: queued jobs of each kind
  MaxUpsets    \* bound: crashes, expired timeouts, lost failure marks and
               \* restarts by force

ASSUME BoundsAssumption ==
  /\ MaxVersion \in Nat \ {0} /\ MaxRounds \in Nat
  /\ MaxJobs \in Nat \ {0} /\ MaxUpsets \in Nat

VARIABLES
  status,      \* QuestionSimulation.status, NONE before the row exists
  live,        \* QuestionSimulation.version and storageKey, 0 for null
  versions,    \* the numbers of the SimulationVersion rows
  round,       \* SimulationFeedback: status and previousStorageKey
  stored,      \* the keys that have an object in S3
  request,     \* what each request is doing
  jobs,        \* queued jobs of a generation and of each round
  run,         \* what the worker's consumer is doing
  served,      \* history: the numbers that were once live
  restarted,   \* history: a generation was begun over an artifact
  overlapped,  \* history: a patch met another patch or a job at work
  abandoned,   \* history: a request or a failure mark was lost half-way
  upsets       \* crashes, expired timeouts, lost marks and restarts so far

artifacts == <<live, versions, stored, served>>
history == <<restarted, overlapped, abandoned>>
vars == <<status, artifacts, round, request, jobs, run, history,
          upsets>>

Status == {"NONE", "PENDING", "REVISING", "READY", "FAILED", "DECLINED"}
Numbers == 1..MaxVersion
Rounds == 1..MaxRounds
Job == 0..MaxRounds
Version == 0..MaxVersion
Round == [status : {"none", "PENDING", "APPLIED", "FAILED"},
          previous : Version]
NoRound == [status |-> "none", previous |-> 0]
\* A writer carries the live version it has read, or the number it has chosen.
Request == [pc : {"idle", "patch", "put", "publish", "enqueue"},
            base : Version, seen : Version, number : Version, job : Job]
Idle == [pc |-> "idle", base |-> 0, seen |-> 0, number |-> 0, job |-> 0]
Asks(j) == [pc |-> "enqueue", base |-> 0, seen |-> 0, number |-> 0, job |-> j]
Patches(b) ==
  [pc |-> "patch", base |-> b, seen |-> live, number |-> 0, job |-> 0]
Writes(n) == [pc |-> "put", base |-> 0, seen |-> 0, number |-> n, job |-> 0]
Run == [pc : {"idle", "round", "revise", "put", "publish", "failed"},
        job : Job, seen : Version, number : 0..MaxVersion + 1]
Resting == [pc |-> "idle", job |-> 0, seen |-> 0, number |-> 0]
Runs(pc, j, seen, n) == [pc |-> pc, job |-> j, seen |-> seen, number |-> n]

Init ==
  /\ status = "NONE" /\ live = 0 /\ versions = {}
  /\ round = [r \in Rounds |-> NoRound]
  /\ stored = {}
  /\ request = [h \in Requests |-> Idle]
  /\ jobs = [j \in Job |-> 0] /\ run = Resting
  /\ served = {}
  /\ restarted = FALSE /\ overlapped = FALSE /\ abandoned = FALSE
  /\ upsets = 0

At(h, pc) == request[h].pc = pc
To(h, pc) == request' = [request EXCEPT ![h].pc = pc]
Done(h) == request' = [request EXCEPT ![h] = Idle]
Enqueued(j) == [jobs EXCEPT ![j] = IF @ < MaxJobs THEN @ + 1 ELSE @]
Patching == {h \in Requests : request[h].pc \in {"patch", "put", "publish"}}
Upset == upsets < MaxUpsets /\ upsets' = upsets + 1

\* snapshotSimulationVersions: an empty history is begun with the version
\* that the caller read as the live one.
Snapshot(seen) == IF versions = {} /\ seen # 0 THEN {seen} ELSE versions
\* Slip: the round gets the status of the row.
FailedAsRow(r) == [round EXCEPT ![r].status = "READY"]
\* What a round replaced is kept, whatever becomes of the round.
Failed(r) == [round EXCEPT ![r].status = "FAILED"]
\* Every edit reads the row, records the history and finds its base there: one
\* step, because a version once recorded is neither changed nor removed.
Edits(base) == versions' = Snapshot(live) /\ base \in versions'
\* Version n is what students see from now on.
Serve(n) == /\ live' = n
            /\ served' = IF restarted THEN {} ELSE served \cup {n}

-----------------------------------------------------------------------------
(* triggerSimulations: create the row, retry it, or restart it by force.   *)
(* The update compares updatedAt, so reading and writing are one step.     *)

Begin(h) ==
  /\ At(h, "idle")
  /\ status' = "PENDING"
  /\ request' = [request EXCEPT ![h] = Asks(0)]
  /\ restarted' = (restarted \/ live # 0)
  /\ served' = IF restarted' THEN {} ELSE served
  /\ UNCHANGED <<live, versions, stored, round, jobs, run, overlapped,
                 abandoned>>

Trigger(h) ==
  /\ status \in {"NONE", "FAILED"}
  /\ Begin(h)
  /\ UNCHANGED upsets

\* An artifact is replaced, or a job that looks stuck is given up.
Restart(h) ==
  /\ status \notin {"NONE", "FAILED"} /\ Upset
  /\ Begin(h)

-----------------------------------------------------------------------------
(* Review rounds: POST .../feedback, and apply in POST .../edit.           *)

\* Slip: the round is begun on the status that the request read first.
OpensAnyTime(r) == live # 0 /\ status \in {"READY", "REVISING"}
                   /\ round[r].status = "none"
\* Inside the transaction: the conditional update to REVISING finds a row.
Opens(r) == live # 0 /\ status = "READY" /\ round[r].status = "none"

BeginRound(h, r) ==
  /\ At(h, "idle")
  /\ Opens(r)
  /\ \A q \in Rounds : q < r => round[q].status # "none"
  /\ status' = "REVISING"
  /\ round' = [round EXCEPT ![r] = [status |-> "PENDING", previous |-> 0]]
  /\ request' = [request EXCEPT ![h] = Asks(r)]
  /\ UNCHANGED <<live, stored, served, jobs, run, history, upsets>>

Feedback(h, r) == BeginRound(h, r) /\ UNCHANGED versions
\* The plan that a teacher has discussed with the assistant on a base version.
Apply(h, r) == BeginRound(h, r) /\ \E base \in Numbers : Edits(base)

Enqueue(h) ==
  /\ At(h, "enqueue")
  /\ jobs' = Enqueued(request[h].job) /\ Done(h)
  /\ UNCHANGED <<status, artifacts, round, run, history, upsets>>

\* The enqueue throws, and the request takes back what it claimed.  (A throw
\* changes nothing: it may be taken to happen at the moment of the update.)
EnqueueThrows(h) ==
  /\ At(h, "enqueue")
  /\ LET j == request[h].job IN
       /\ status' = IF j = 0 THEN "FAILED" ELSE "READY"
       /\ round' = IF j = 0 THEN round ELSE Failed(j)
  /\ Done(h)
  /\ UNCHANGED <<artifacts, jobs, run, history, upsets>>

-----------------------------------------------------------------------------
(* POST .../edit.                                                          *)

\* A patch goes on if the status it has read is READY.
BeginPatch(h, base) ==
  /\ At(h, "idle")
  /\ status = "READY"
  /\ Edits(base)
  /\ request' = [request EXCEPT ![h] = Patches(base)]
  /\ overlapped' = (overlapped \/ Patching # {} \/ run.pc # "idle")
  /\ UNCHANGED <<status, live, round, stored, served, jobs, run, restarted,
                 abandoned, upsets>>

\* Without a READY row only the history is recorded, as by any other action.
Restore(base) ==
  /\ status # "NONE"
  /\ Edits(base)
  /\ live' = IF status = "READY" THEN base ELSE live
  /\ UNCHANGED <<status, round, stored, served, request, jobs, run, history,
                 upsets>>

\* Slip: as the first generation numbers, from the version that was read.
AfterSeen(seen) == seen + 1
\* The number after the live version that was read and every version there is.
NextNumber(seen) == Max({seen} \cup versions) + 1

\* The base's document is read, edited and validated; a number is chosen.
ChoosePatch(h) ==
  /\ At(h, "patch")
  /\ request[h].base \in stored
  /\ NextNumber(request[h].seen) \in Numbers
  /\ request' = [request EXCEPT ![h] = Writes(NextNumber(request[h].seen))]
  /\ UNCHANGED <<status, artifacts, round, jobs, run, history, upsets>>

PutPatch(h) ==
  /\ At(h, "put")
  /\ stored' = stored \cup {request[h].number} /\ To(h, "publish")
  /\ UNCHANGED <<status, live, versions, served, round, jobs, run,
                 history, upsets>>

\* One transaction: a version row of a number nobody has, and a READY row.
PublishPatch(h) ==
  LET n == request[h].number IN
  /\ At(h, "publish")
  /\ IF n \notin versions /\ status = "READY"
     THEN versions' = versions \cup {n} /\ Serve(n)
     ELSE UNCHANGED <<versions, live, served>>
  /\ Done(h)
  /\ UNCHANGED <<status, stored, round, jobs, run, history,
                 upsets>>

\* The patch ends early: refused, thrown out, or its process dies.
PatchEnds(h) ==
  /\ h \in Patching
  /\ Done(h)
  /\ UNCHANGED <<status, artifacts, round, jobs, run, history, upsets>>

\* The web process dies before it has enqueued the job, or the enqueue throws
\* and what it claimed cannot be taken back either.
NeverQueued(h) ==
  /\ At(h, "enqueue") /\ Upset
  /\ abandoned' = TRUE /\ Done(h)
  /\ UNCHANGED <<status, artifacts, round, jobs, run, restarted, overlapped>>

-----------------------------------------------------------------------------
(* The worker's job.                                                       *)

Rest == run' = Resting
\* The status that a job acts on; another one is left alone.
Awaits(j) == IF j = 0 THEN "PENDING" ELSE "REVISING"

\* A generation goes on with the number after the version it has read.
TakeJob(j) ==
  /\ run.pc = "idle" /\ jobs[j] > 0
  /\ status # "NONE"
  /\ jobs' = [jobs EXCEPT ![j] = @ - 1]
  /\ run' = IF status # Awaits(j) THEN Resting
            ELSE IF j = 0 THEN Runs("put", 0, live, live + 1)
            ELSE Runs("round", j, live, 0)
  /\ overlapped' = (overlapped \/ (status = Awaits(j) /\ Patching # {}))
  /\ UNCHANGED <<status, artifacts, round, request, restarted,
                 abandoned, upsets>>

\* The triage finds that a simulation would not help.
Decline ==
  /\ run.pc = "put" /\ run.job = 0
  /\ status' = "DECLINED" /\ Rest
  /\ UNCHANGED <<artifacts, round, request, jobs, history, upsets>>

\* The round is read.  One that is settled gives the row back; else the
\* history is recorded and the base's document read.
ReadRound ==
  /\ run.pc = "round"
  /\ IF round[run.job].status # "PENDING"
     THEN status' = "READY" /\ Rest /\ UNCHANGED versions
     ELSE /\ versions' = Snapshot(run.seen)
          /\ run' = [run EXCEPT !.pc = "revise"]
          /\ UNCHANGED status
  /\ UNCHANGED <<live, stored, served, round, request, jobs,
                 history, upsets>>

\* The model has written a document; a number is chosen.  (Which version the
\* round revises is in the document alone.  That its object may be gone is one
\* more way for the round to fail.)
ChooseRevision ==
  /\ run.pc = "revise"
  /\ NextNumber(run.seen) \in Numbers
  /\ run' = Runs("put", run.job, run.seen, NextNumber(run.seen))
  /\ UNCHANGED <<status, artifacts, round, request, jobs, history,
                 upsets>>

PutResult ==
  /\ run.pc = "put" /\ run.number \in Numbers
  /\ stored' = stored \cup {run.number}
  /\ run' = [run EXCEPT !.pc = "publish"]
  /\ UNCHANGED <<status, live, versions, served, round, request, jobs,
                 history, upsets>>

\* A generation is written by id, whatever the status says by then.
PublishGeneration ==
  /\ run.pc = "publish" /\ run.job = 0
  /\ status' = "READY" /\ Serve(run.number) /\ Rest
  /\ UNCHANGED <<versions, stored, round, request, jobs,
                 history, upsets>>

\* One transaction: the version row, the live row, the round.
PublishRevision ==
  /\ run.pc = "publish" /\ run.job # 0
  /\ run.number \notin versions
  /\ versions' = versions \cup {run.number}
  /\ status' = "READY" /\ Serve(run.number) /\ Rest
  /\ round' = [round EXCEPT ![run.job] = [status |-> "APPLIED",
                                        previous |-> run.seen]]
  /\ UNCHANGED <<stored, request, jobs, history, upsets>>

\* Anything may throw.  A generation is FAILED ...
GenerationFails ==
  /\ run.pc \in {"put", "publish"} /\ run.job = 0
  /\ status' = "FAILED" /\ Rest
  /\ UNCHANGED <<artifacts, round, request, jobs, history, upsets>>
\* ... a round is FAILED first, and then the row goes on serving.
RoundFails ==
  /\ run.pc \in {"round", "revise", "put", "publish"} /\ run.job # 0
  /\ round' = Failed(run.job)
  /\ run' = [run EXCEPT !.pc = "failed"]
  /\ UNCHANGED <<status, artifacts, request, jobs, history, upsets>>
\* Slip: the row is left to the next round.
KeepRevising ==
  /\ run.pc = "failed"
  /\ Rest
  /\ UNCHANGED <<status, artifacts, round, request, jobs, history,
                 upsets>>
GiveBack ==
  /\ run.pc = "failed"
  /\ status' = "READY" /\ Rest
  /\ UNCHANGED <<artifacts, round, request, jobs, history, upsets>>

\* The failure could not be recorded either; the job is acked all the same.
FailureLost ==
  /\ run.pc # "idle" /\ Upset
  /\ abandoned' = TRUE /\ Rest
  /\ UNCHANGED <<status, artifacts, round, request, jobs, restarted,
                 overlapped>>

\* The worker dies before its ack: the job is handed out again.
Crash ==
  /\ run.pc # "idle" /\ Upset
  /\ jobs' = Enqueued(run.job) /\ Rest
  /\ UNCHANGED <<status, artifacts, round, request, history>>

\* The job outlasts its visibility timeout, or dies between its last write
\* and its ack: it is offered once more, and found after this one.
HandedOutAgain ==
  /\ run.pc # "idle" /\ Upset
  /\ jobs' = Enqueued(run.job)
  /\ UNCHANGED <<status, artifacts, round, request, run, history>>

-----------------------------------------------------------------------------
(* The collector's pass over simulations/.                                 *)

\* loadGcRefs: the live artifacts, and what an applied round replaced.
Referenced == {live} \cup {round[r].previous : r \in Rounds}
\* An object is a day old before it is collected: not in its writer's hands.
InHand == {request[h].number : h \in Requests} \cup {run.number}

\* What nothing refers to is deleted, as far as S3 obliges.  (That the
\* references are loaded before the bucket is listed is in QuizExtraction.)
Collect(old) ==
  /\ old # {} /\ old \subseteq stored \ (Referenced \cup InHand)
  /\ stored' = stored \ old
  /\ UNCHANGED <<status, live, versions, served, round, request, jobs, run,
                 history, upsets>>

-----------------------------------------------------------------------------
Queueing(h) == Enqueue(h) \/ EnqueueThrows(h)
Ask(h) ==
  \/ Trigger(h) \/ Restart(h)
  \/ \E r \in Rounds :
       Feedback(h, r) \/ Apply(h, r)
  \/ \E base \in Numbers : BeginPatch(h, base)
  \/ ChoosePatch(h) \/ PutPatch(h) \/ PublishPatch(h)
Work ==
  \/ \E j \in Job : TakeJob(j)
  \/ Decline \/ ReadRound \/ ChooseRevision \/ PutResult
  \/ PublishGeneration \/ PublishRevision
  \/ GenerationFails \/ RoundFails \/ GiveBack

Next ==
  \/ \E h \in Requests : Ask(h) \/ Queueing(h) \/ PatchEnds(h) \/ NeverQueued(h)
  \/ \E base \in Numbers : Restore(base)
  \/ Work \/ FailureLost \/ Crash \/ HandedOutAgain
  \/ \E old \in SUBSET Numbers : Collect(old)

Spec == Init /\ [][Next]_vars

(* The worker's loop goes on, and a request that has claimed the row comes *)
(* to the end of its enqueue.                                              *)
FairSpec == /\ Spec /\ WF_vars(Work)
            /\ \A h \in Requests : WF_vars(Queueing(h))

-----------------------------------------------------------------------------
(* Properties.                                                             *)

\* Every variable keeps its type.
TypeOK ==
  /\ status \in Status /\ live \in Version
  /\ versions \in SUBSET Numbers
  /\ round \in [Rounds -> Round]
  /\ stored \in SUBSET Numbers
  /\ request \in [Requests -> Request]
  /\ jobs \in [Job -> 0..MaxJobs] /\ run \in Run
  /\ served \in SUBSET Numbers
  /\ restarted \in BOOLEAN /\ overlapped \in BOOLEAN /\ abandoned \in BOOLEAN
  /\ upsets \in 0..MaxUpsets

\* "Keeps all old artifacts" (snapshotSimulationVersions), as far as the
\* writers go: what was once live is still live or in the history, and nobody
\* is about to write over its object.  A generation begun over an artifact is
\* the exception of both, a patch that meets another writer of the second.
HistoryKept ==
  ~restarted =>
    /\ served \subseteq {live} \cup versions
    /\ overlapped \/
         /\ \A h \in Requests : At(h, "put") => request[h].number \notin served
         /\ run.pc = "put" => run.number \notin served

\* REVISING is a lock: one round is pending while it is held, and only then,
\* but for the moment between the two writes of a failed round.  An upset may
\* break it: a job handed out again, or a restart by force.
RoundIsLocked ==
  LET pending == {r \in Rounds : round[r].status = "PENDING"} IN
  upsets = 0 =>
    /\ Cardinality(pending) <= 1
    /\ pending # {} => status = "REVISING"
    /\ status = "REVISING" => pending # {} \/ run.pc = "failed"

\* A generation or revision does not go on for ever, whatever throws and
\* whichever worker dies, unless nobody is left to know of it.
InFlightSettles ==
  status \in {"PENDING", "REVISING"}
    ~> abandoned \/ status \notin {"PENDING", "REVISING"}

\* "Keeps all old artifacts": a version of the history has its document, so
\* that it can be previewed and restored.
VersionsStored == versions \subseteq stored
=============================================================================
