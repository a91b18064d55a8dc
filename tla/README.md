# TALENT in TLA+

TALENT is a Next.js class platform with one background worker. The web
process answers HTTP requests, keeps its rows in SQLite through Prisma and puts
jobs into a second SQLite file (the queue, Honker); the worker
(`src/src/worker.ts`) opens the same database, takes the jobs, calls SMTP
servers, S3 and model services, and runs periodic sweeps that repair what a
crash or a lost job left behind. The specifications here are about those
hand-overs: which row is moved by whom, what a request may still believe of a
row it has read, what survives a crash between two writes, and what must happen
in the end.

Contents: [inventory](#inventory), [modules](#modules),
[runs](#runs), [bounds](#bounds), [fairness](#fairness),
[proofs](#proofs), [findings](#findings), [not modelled](#not-modelled),
[plan](#plan).

## Inventory

State is a Prisma model unless another store is named. "Worker" means a
consumer or a periodic loop of `worker.ts`.

| Component | State | Operations | What is hard | What makes it correct |
|---|---|---|---|---|
| Message composition (`POST classes/[id]/messages`) | `Message`, `Notification`, `MessageEmailDelivery` | choose recipients, check the quota, write the message, write its rows, enqueue | a failure between any two of the writes; a quota read before the message that uses it up | a message shown as QUEUED has rows that will settle it |
| Message e-mail delivery (`lib/message-email.ts`) | `Message.status`, `MessageEmailDelivery`; queue `message-emails` | claim, send, settle or back off, sweep, roll up | crash between SMTP and database, an SMTP answer that is lost, lease expiry, duplicate jobs, roll-ups racing | one sender per row, duplicates bounded by faults, attempts bounded, every row settles, the message tells what its rows say |
| Job queue (`lib/queue.ts`, Honker external) | SQLite file | enqueue, claim with visibility timeout, ack, retry with delay | at-least-once hand-out, redelivery, loss of the file | consumers are idempotent; sweeps rebuild lost jobs |
| Worker (`worker.ts`) | none of its own | one serial consumer per queue, concurrent sweepers, shutdown | loops interleave at awaits | no loop dies of one failing job |
| Research e-mails (`lib/research-email-server.ts`) | `ResearchEmailCampaign`, `ResearchEmailDelivery`, survey invites; queue `research-emails` | schedule, cancel, expand, deliver, sweep, complete | two schedulers, cancel during expansion, crash after the claim, completion counted from rows | expanded once, cancel sticks, SENT means nobody pending, everything settles |
| Quiz PDF extraction (`lib/quiz-extraction-engine.ts`, `pdf-extractions/` routes) | `QuizPdfExtraction`, pages, figures, `Question`, `QuestionImport`, S3 objects; queue `quiz-extractions` | upload, complete, retry, crop, commit, discard, extract | check-then-act over guardrail and S3 calls, partial S3 deletes | one paid run, one commit, committed figures stay, staged questions are kept |
| S3 collector (`lib/s3-gc.ts`) | S3 bucket against all referencing tables | discard stale rows, delete unreferenced objects | a snapshot of references used later | never deletes a referenced object |
| Consent e-mails (`lib/consent-email.ts`, `admin/consent-requests/[id]`) | `ConsentEmailDelivery` and its mirror in the export request; queue `consent-emails` | decide, queue, claim, render, send, mirror, sweep | row and mirror written one after the other; the request deleted meanwhile | the mirror never tells of a delivery that did not happen; the row settles |
| Consent claims, exports (`lib/consent*.ts`) | consent records, claim tokens, export jobs | claim, withdraw, export | tokens used twice, withdrawal during an export | a token is used once; an export holds no withdrawn record |
| Quiz attempts, scoring (`app/api/quiz`, `quiz/practice`, `lib/student-answer-key.ts`, `lib/quiz-scoring.ts`) | `QuizAttempt`, `QuizProgress`, `ExamResult`; an in-memory decision of the assistant | start, resume, submit, practise; publish, remove; show the answer key | several starts and submissions together, the cap, a key decided from three reads | the cap holds, an attempt is graded once, the progress agrees with the attempts, no graded attempt follows the key, a result once written stays |
| Quiz variants (`lib/quiz-variants-engine.ts`) | variant requests and questions | request, generate, accept | duplicate requests, job redelivery | one set per request |
| Simulations (`lib/simulation-*.ts`, `simulations/[id]/` routes) | `QuestionSimulation`, `SimulationVersion`, `SimulationFeedback`, S3 objects; queue `simulations` | generate, regenerate, review, apply, patch, restore | a lock made of a status, numbers chosen before a long write, two writes of a failure | one round at a time; what students saw is kept; a job in flight ends |
| Syllabus (`lib/syllabus-engine.ts`, `classes/[id]/syllabus/` routes) | `ClassSyllabus` with revision, pending key and source; queue `syllabus-extractions` | upload, complete, retry, edit, remove, extract, sweep | overlapping uploads, a job of a superseded revision, a row that is deleted and created again | the result shown is that of the file named; edits are not overwritten |
| Surveys (`lib/survey-*.ts`) | forms, invites, responses | invite, respond, extract | double response | one response per invite |
| Backups (`lib/backup.ts`) | backup runs, WebDAV | schedule, claim, run, prune | manual and scheduled together | one run at a time |
| Exam results (`lib/exam-results-engine.ts`) | `ExamResult` feedback | analyse | best effort | a result is analysed at most once |
| Materials (`lib/vlm-engine.ts`, `lib/material-pool.ts`) | materials, S3 | upload, process, copy from the pool | processing while deleted | text belongs to the file |
| Class access (`lib/class-access*.ts`) | enrolments, pauses | check, pause | rules of several tables | a paused student is refused everywhere |
| Accounts (`lib/auth*.ts`, `lib/password-reset.ts`, registration codes) | users, tokens, codes | register, reset | single use | a token is used once |
| Limits (`lib/rate-limit.ts`, `lib/email-limits.ts`) | counters, sent messages | check, count | read before write | quota holds up to the overlap |
| Assistant, session recording, telemetry, guardrails | conversations, chunks, spool | append, expire | retention | nothing kept past its time |
| Feedback, catalogue, CSV, user interface, deployment | - | - | - | data, not control |

Components meet through rows and jobs. A request writes rows and enqueues the
ids; a consumer re-reads the row by id and claims it with a conditional
`updateMany`; a sweeper looks for rows whose claim is older than a lease and
enqueues them again. All requests share one database connection
(`lib/prisma.ts:34`) on which interactive transactions exclude each other:
`src/test/quiz-variants.route.test.ts:225-233` has two practice starts at once,
whose transactions open with a read, and one run comes of them. One that opens
with a write is a step. One that opens with a read, the start of a quiz attempt,
is two, and plain statements of other requests may fall in between
(`quiz/route.ts:352-354`). No transaction spans the database, the queue file,
SMTP and S3, so each component has its own answer to a failure between two of
them. The list of places where that can go wrong is `hazards` in `PROJECT.json`.

## Modules

Common conventions. Each module is about one row of its kind and all that may
happen to it at once. Every awaited statement is a step, because other requests
and loops run in between; where a statement only reads what nobody else changes
it is merged into the next. Clocks are abstracted to what the guards compare (a
claim is none, live or lapsed; a row is fresh or stale). Queues hand a job out
at least once. A definition marked "Slip" is a plausible mistake next to the
definition it would replace; no specification uses it. `MC<Module>` extends a
module for TLC.

### EmailDelivery and DeliveryPromise

One message and its delivery rows, with the queue and the clock around them.

| Specification | Code |
|---|---|
| `request`, `message` | progress of the POST handler, `Message.status` (`NONE` before it exists, `GONE` after a cascading delete) |
| `status`, `attempts` | the columns of `MessageEmailDelivery` |
| `claim` | `claimedAt` against `MESSAGE_EMAIL_LEASE_MS` |
| `due` | `nextAttemptAt`: waiting, due, overdue by the sweep's grace |
| `ready`, `delayed`, `hidden` | the row's jobs in the queue: to be handed out, in backoff, handed out and not acked |
| `task[w]` | where worker `w` is in `consumeMessageEmails` and `deliverMessageEmail` |
| `sweep[w]` | where it is in `runMessageEmailSweeper` |
| `accepted` | history: how often the SMTP server accepted the row's e-mail |
| `faults` | counter of crashes, database errors, lost jobs and lost SMTP answers |

`TakeJob` is the queue claim and the row's conditional update; a consumer that
loses the update does `SkipJob`. `DeleteSender` is the cascading delete of the
teacher or the message. `SweepStuck` reads the ids of rows at the cap,
`CloseStuck` writes them by id alone, as the code does. `SlowSends` says whether
an attempt may outlive its lease: nothing in the code bounds a send, but the
run, and the theorems about the lease, are for sends that do not.

`sendMail` (`lib/email.ts:176`) tells the engine that the server accepted an
e-mail (`SendAccepted`), or throws. It throws when the server did not get or did
not take the e-mail (`SendRefused`), but also when the server took it and the
connection broke before its answer was read (`AnswerLost`). The engine cannot
tell the two apart: the error has no response code, so it counts as transient,
and the row is retried or, at the cap, FAILED. A lost answer is counted among
the faults. `ResearchCampaign` and `ConsentEmail` have the same three actions.

`DeliveryPromise` is what the engine promises: a recipient is mailed at most
once and ends with an outcome that tells what happened, or is deleted; and what
`trouble` costs. Every trouble may cost one more e-mail, and after it a row may
be FAILED too early, or although its e-mail went out; but SENT is said of
accepted e-mails only, and nobody is mailed while the history says SENT.
`KeepsPromise` instantiates it with `outcome <- status`, `mails <- accepted` and
`trouble <- faults`.

### ResearchCampaign

One campaign, with `sched[w]` the scheduler loop (`materializeDueCampaigns`,
then the enqueue, then every five minutes `findStrandedResearchEmails` and
`failExhaustedResearchEmails`), `task[w]` the consumer
(`deliverResearchEmail`), and `Cancel` the DELETE route. `Plan` picks any
subset of people: the recipient rules are data. `cancelled` and `expanded`
are history variables, as is `task.early`, which says that an attempt read its
campaign before the cancellation. The queue is a bag of jobs without timing, and
any unclaimed row may count as overdue: both allow more than the code does.

### ConsentEmail

One export request whose decision sends the "export ready" e-mail. `review[h]`
is an administrator at work on the request (the decision is written by id after
an earlier read), `status` to `overdue` the delivery row, `mirror` the copy of
its state in the request that the administrator sees, `task[w]` and `sweep[w]`
the consumer and the sweeper. The row and its mirror are created in one
transaction and afterwards written one after the other: `RecordOutcome` then
`WriteMirror`, `CloseStuck` then `MirrorClosed`. `DeleteRequest` is the cascade
of a deleted class, after which the row has no mirror.

### QuizExtraction

One extraction. `handler[h]` is a request at work, with the status it read when
it started (`Asks`), its payload and the crops it listed; every await after the
first read is a step, and `Abandon` ends a request after any step (a refusal, a
guardrail rejection, a dying process). `worker` is the extraction consumer,
`gc` the two passes of the collector. S3 deletes are partial: `kept` is what
survives an error. The source PDF and page images are one object, a question
has one crop. `CommitQuestions` does not look at the status, `FinishRun`
writes by id, `DiscardRow` deletes by id: as in the code. `overlapped` records
whether one of the check-then-act requests, or the collector's discard of a
stale extraction, has met another one at work: some properties hold only
without, and say so.

### QuizAttempt

One student and one quiz of one class. `kind`, `done`, `score` are the columns
of `QuizAttempt` (a graded attempt or a practice run), `filed` its `ExamResult`,
`progress` and `best` the `QuizProgress` row, `offer` and `window` the teacher's
side, `request[r]` the POST and PATCH handlers of `/api/quiz` and
`/api/quiz/practice`, `key` the assistant's `retakeStillPossible`, which awaits
three reads at once (`KeyRead`) and then decides (`DecideKey`). The pre-checks
of a handler and its transaction are different steps. The transactions that
open with a write are one step each. The transaction of a start opens with a
read (`OpenStart`) and decides in a second step (`Resume`, `Allocate`,
`RefuseStart`, `StartThrows`). No other transaction begins in between
(`Idling`), but plain statements on the shared connection do run: the teacher's
`Publish`, the second half of a removal (`DeleteQuiz`), a submission's
`FileResult`. When the start throws they are rolled back with it, which
`RollBack` does from `before`, the state when the transaction began. That they
are is what the comment at the claim of PATCH says (`quiz/route.ts:352-354`).
A database written before POST resumed pending attempts may hold several of
them: `Init` allows any number. `late` is history: attempts allocated after the
quiz was no longer open to start, or while the key was being decided, by a
request that had passed its check before.

### SyllabusRevision

One class's syllabus. `tab[t]` is a browser tab of the teacher: an upload is
`BeginUpload`, `WriteKey`, `AskPages`, `ReadComplete`, `ClaimUpload`, `Enqueue`,
each a request or an await of one, and `TabCloses` ends it anywhere. The row
may be removed and created again, with revisions that start again from one:
`id` tells the rows apart, as their cuid does. `content` remembers who wrote it
and from what. `run` is the consumer; every write of it is guarded by row,
status and revision (`Current`). `Stale` and `FailStale` are the sweep.

### SimulationVersions

One question's simulation. `status`, `live` are `QuestionSimulation`,
`versions` the `SimulationVersion` rows, `round` the `SimulationFeedback` rows,
`stored` the objects. The artifact of version n has the key `.../v<n>.html`, so
versions, keys and numbers are one. `request[h]` is a request at work: a claim
of the row and the enqueue after it (`Trigger`, `Restart`, `Feedback`, `Apply`,
then `Enqueue` or `EnqueueThrows`), or a direct edit (`BeginPatch`,
`ChoosePatch`, `PutPatch`, `PublishPatch`). `run` is the consumer: a generation
numbers its document from the live version that it read, a revision from the
largest number there is (`NextNumber`). `Collect` is the collector's pass, which
knows the keys in `Referenced`. `restarted`, `overlapped` and `abandoned` are
history: a generation begun over an artifact, a direct edit that met another
writer, and a request or failure mark lost half-way; `served` is what students
were shown.

## Runs

| Run | Shows |
|---|---|
| `email_delivery` | two workers, duplicate jobs, one fault on a row: the lease excludes (`SoleSender`), duplicates and surplus attempts are paid for by faults (`AtMostOncePerFault`, `AttemptsBounded`), a pending row settles after a crash, a database error, a lost job or a lost SMTP answer, and the engine refines `DeliveryPromise` |
| `research_campaign` | two workers, so that two ticks find the campaign due and two attempts race for a row, and two faults: one expansion, bounded duplicates, a cancellation that sticks until a query fails, and campaign and row settle |
| `research_sentmeansexpanded` | violation: a crash after the claim makes a campaign SENT that nobody got |
| `extraction_requests` | two requests, worker, collector, one fault: one paid run, staged questions kept, EXTRACTING left in every interleaving; committed questions and their figures safe unless two check-then-act requests have met |
| `extraction_figureskept` | violation: overlapping requests leave a committed question without its figure |
| `quiz_attempts` | two requests of one student, three attempts, a cap of two: the cap, single grading, progress and best score, one unfinished attempt, and the key decision |
| `quiz_resultdurable` | violation: a result written while the transaction of a refused start is open is rolled back with it |
| `quiz_finalafterremoval` | violation: the key is shown for a removed quiz with an attempt in progress, which is then graded |
| `consent_email` | one approval, one worker, two faults: duplicates are paid for by faults, the mirror is honest, the row settles |
| `syllabus_revisions` | two overlapping tabs, a row created twice with two revisions each, one fault: no superseded revision, file or result passes for the current one, an edit outlives earlier extractions, an extraction settles |
| `simulation_rounds` | two requests, three versions, two rounds, one upset: nobody is about to overwrite a version students were shown, one round is pending at a time, a job in flight ends |
| `simulation_versionsstored` | violation: the collector deletes a version the history still offers |

`CHECK_DEADLOCK FALSE` appears where the system really stops: an extraction
that is discarded or committed with nothing left to collect; a student with all
attempts used on a quiz that has left the class; a syllabus or simulation that
has used up the rows, revisions or versions of the bound and rests. The e-mail
runs check for deadlock.

Every property of a passing run is also run against a mutant: one definition
replaced by its slip (a claim without its status or lease test, an update by id
instead of a compare-and-set, an off-by-one at the cap, a retry before any
upload, a number counted from the live version, ...).

## Bounds

- `MaxJobs` (1 or 2) caps the jobs of a row in each queue stage. One job at
  work and another that meets it is what duplicates can do. An enqueue at the
  cap adds nothing: a lost duplicate, and loss is allowed anyhow.
- `MaxFaults` (1 or 2) counts crashes, database errors, lost jobs and lost SMTP
  answers. One fault puts a row into every state an abandoned attempt can leave;
  the second follows on the recovery of the first. In `SimulationVersions`
  `MaxUpsets` is one budget for crashes, expired visibility timeouts, requests
  and failure marks that are lost, and restarts by force.
- `MaxAttempts = 2` has a first attempt, a retry, and the cap; the code's
  value is 5 in all three e-mail engines.
- One row of e-mail in the passing runs: rows meet only in the roll-up and the
  completion count, whose properties are false of two workers and proved of one,
  for any rows.
- One worker is the deployment (`docker/docker-compose.yml:74-80`).
  `email_delivery` and `research_campaign` have two and show what the claims are
  worth if it is scaled: with one, two ticks or two attempts never meet. The
  theorems hold for any number unless they name one worker. `consent_email` has
  one: `MirrorHonest` is false of two.
- Two crops, one text: a crop that is committed and one that is not. Crop keys
  are minted once, so `Crops` bounds the uploads.
- Cap 2 with three attempts: the third is the one too many, and two can be
  pending together. `quiz_resultdurable` needs a cap of one: one request refused
  while another files its result. Attempts and requests are symmetric there, no
  temporal property of liveness is checked in that run.
- Two rows of the syllabus with two revisions each: a revision superseded, and
  a number that comes again in the next row.
- Three versions, two rounds: a version replaced, a restore to an older one,
  and a number chosen above it; a round behind another.

## Fairness

Liveness is claimed under `FairSpec` only.

- Weak fairness of a consumer's and a sweeper's steps: a started async function
  goes on when its awaited call settles; the event loop runs every ready
  continuation. Calls settle because SMTP, Prisma and S3 clients have timeouts
  of their own.
- Strong fairness of taking a job of a row (the e-mail engines): the queue hands
  out ready jobs in order, so a job that keeps being ready is taken in the end
  although consumers are busy in between.
- Lease, backoff and visibility timeouts expire (weak): clocks advance.
- Sweeps come round: `runMessageEmailSweeper`, its consent sibling and
  `runResearchScheduler` are loops around a sleep; the syllabus sweep
  (`WF(GrowsOld)`, `WF(FailStale)`) runs every five minutes; the collector is a
  loop of six hours, and `SF(StaleS3({}))` says that S3 does not fail for ever.
- Simulations have no sweep. `InFlightSettles` rests on the consumer alone
  (`WF(Work)`) and on requests that reach the end of their enqueue
  (`WF(Queueing(h))`); a request or failure mark that is lost leaves the row in
  flight for good, and the property excepts it (`abandoned`).

No fairness is assumed of users, of faults, or of the answers of SMTP and
model services.

## Proofs

Each `*_proofs` module proves its theorems for any values of the constants that
satisfy the named `ASSUME`s of the module it extends; TLC evaluates those in
every run.

**`EmailDelivery_proofs`**: `TypeCorrect` (`Spec => []TypeOK`); and under
`~SlowSends`, no attempt outlives its lease, `MutualExclusion` (`SoleSender`),
`DuplicatesPaidFor` (`AtMostOncePerFault`) and `AttemptsHold`
(`AttemptsBounded`). With slow sends the first two are false.

None of the three is inductive. That two workers are not at work on one row
follows from the claim, but only if a live claim exists exactly while somebody
holds the row; that an accepted e-mail is not repeated needs the number of
accepted e-mails to be tied to where the attempt is (not sent, accepted and
unrecorded, recorded) and to the faults that cut earlier attempts off; the same
for attempts. `LeaseInv` says this per row:

    LeaseInv == TypeOK /\ Created /\ \A d \in Rows : RowInv(d)

`RowInv(d)` splits on whether somebody is at work on `d` (`Attempt`) or nobody
is (`Unheld`), and `Created` says that rows appear before jobs of theirs. Most
actions move one row, so the work is in a few lemmas: `TakeRow` (a claim starts
an attempt), `AttemptMoves` and `AttemptEnds` (a consumer step within, and at
the end of, an attempt), `FaultRow` (a fault ends an attempt and raises the
bound), `RowFrame` and `OtherRow` (rows not concerned).

`PromiseKept` (`KeepsPromise`) is the refinement, step by step (`PromiseStep`),
for any faults. It rests on `Trusted`, which has three parts. `LeaseInv` counts
the e-mails. `AllHonest` says of every consumer at work that its row is not
shown as SENT, and that it writes SENT only of an accepted e-mail. `Undisturbed`
holds until the first fault: every attempt ends with its outcome recorded, so a
row which may be claimed has an attempt left (`NoneStuck`), the sweepers find
nothing to close and change no row (`SweepersRest`), and only a consumer that
holds the row writes its outcome. A step that counts a fault is the promise's
`Trouble` (`TroubleStep`), with one e-mail if it is a lost answer.

`RollUpHolds` says that `RollUpCurrent` holds until the first fault, when there
is one worker and a recipient: what the worker has counted is still true when it
writes it (`Reported`), since it is the only one to settle rows. A message
without recipients is not queued; the hypothesis says so, as `Summary` of no
rows is not QUEUED.

**`ResearchCampaign_proofs`**, with no further assumption: `TypeCorrect`;
`OneExpansion` (`ExpandedOnce`), by `ExpansionInv`: while the campaign is due
nobody expands it; whoever expands it is alone and finds it not yet expanded.
`ClaimStep` is where the compare-and-set is used, `CommitStep` where the rows
are written; `NoExpansion` is the frame of all other steps, which rest on
`NeverDueAgain`: no step writes SCHEDULED. `MailedOnce` (`AtMostOncePerFault`),
by `MailInv`: the claim gives a row one holder at a time; rows are ABSENT until
the one expansion, which is why `OneExpansion` comes first; and while a row may
still be mailed every acceptance of it is paid for by a fault: one that ended
its attempt, or that lost its answer (`LostKeeps`). `CancelledStops`
(`CancelStops`), by `CancelInv`: once the administrator has been told, every
attempt that is still to read the campaign reads CANCELLED (`CancelSeen`),
unless the expansion reached nobody, and then there is no attempt
(`FinishKnowsRows`, `NoMoreRows`); without faults no expansion throws
(`FailPaidFor`).

`SentIsComplete` (`SentLeavesNonePending`), for one worker, by `CompleteInv`: no
row is pending while the worker is about to mark SENT, nor while the campaign
is SENT, and nobody expands it then. Only the expansion makes a row PENDING
(`PendingShape`), and the worker that has counted is not in an expansion.
`SentIsExpanded` (`SentMeansExpanded`), for one worker and no faults, is the
other side of the finding `research_sentmeansexpanded`, which needs a crash
between the claim and the rows (or a second worker, that counts in between): a
campaign that is SENDING has been expanded or is just being (`WorkedInv`).

**`ConsentEmail_proofs`**: `TypeCorrect`; `MailedOnce` (`MailedOncePerFault`),
by its own `MailInv`. The argument is the one above, but that the sweep marks a
row FAILED by id, also while a consumer holds it: a row may then be mailed as
long as somebody holds it, whatever its status. Both arguments rest on a claim
that does not lapse under an attempt at work (`LeaseLapses`).

`MirrorTrue` (`MirrorHonest`), for one worker: that SENT is mirrored only after
an acceptance is `SentInv`, whatever faults there are and for any workers; that
the mirror tells of a row as it is, is `CalmInv`. Until a fault happens, a row
that waits has an attempt left (`Spare`), so the sweeps close nothing, and the
worker knows the row it is at work on (`Knows`): it writes the mirror from what
it has just written to the row. Two workers would break it, as TLC shows: the
mirror of a refused first attempt may be written after that of the second.

**`QuizExtraction_proofs`**: `TypeCorrect`; `OneRun` (`SingleRun`), by
`LoadInv`, which compares the `Load` (runs queued, at work, or claimed and not
yet queued) with a `Limit`. The compare-and-set to EXTRACTING adds one, from a
status at which every older run is paid for by a fault; a run that ends takes
one off. Two steps leave EXTRACTING with the run still there: a discard, after
which nothing claims, and a commit that a late FAILED and a retry have
overtaken, which has seen one run end. Requests are counted, so this takes
`Handlers` finite (`HandlersAssumption`).

`ReviewKept` (`ReviewNotLost`) follows from the same load: at AWAITING_REVIEW
without faults it is zero, so no job, run or FAILED mark is left to come late.
`CommittedOnce` (`CommitOnce`), `FiguresStay` (`FiguresKeptAlone`) and
`CommitStays` (`CommittedKept`) follow from `AloneInv`: until two are at work
together, of the requests and the collector's stale pass, each is where the
status says (`AtWork`, `Aside`), a commit that is about to write meets
AWAITING_REVIEW with its crops stored, and whatever is about to delete crops
spares those of the questions. The collector's pass over the bucket and the
worker may be at work at the same time as a request, and are covered.

**`SyllabusRevision_proofs`**: `TypeCorrect`, with `Numbers` (a row that exists
has a revision, its source is one of them, nobody names one that was not
begun); `CurrentResult` (`ReadyIsCurrent`), inductive over the types because
every write of a run is guarded by row, status and revision; `OneUpload`
(`FileIsSource`), by `Keys`: once an upload of the current revision has passed
its key write the pending key is its own or none, and if it is about to claim,
the key it holds is of its revision; `NewestOnly`, an action property of the
claim's WHERE clause; `EditKept` (`EditOutlives`), from `AskedFor`: a row that
is EXTRACTING has been asked for since the last edit.

**`QuizAttempt_proofs`**: `TypeCorrect`; `OneGrading` (`GradedOnce`), an action
property, from `Fresh` (an attempt not yet allocated is not done) and the
conditional write of `Grade`; `CapKept` (`CapHolds`), by `CapInv`: as long as
the class offers the quiz every claim that is under way has read a cap, and the
recount inside the transaction leaves out only the attempt it is about to add.

`OneUnfinished` (`NoStockpile`), an action property: a start decides by what
its transaction read one step earlier, so this rests on `OpenInv`, which says of
the open transaction that there is one at most, and that what it found is
`StillSo`. Each step that could make it untrue is excluded: only a start adds an
attempt (`DecidesCloses`, `BesideOpen`), and what falls into the transaction
leaves the attempts alone (`ServeOpen`). Without the exclusion of transactions
(`OpenStartAnyTime`) TLC finds two unfinished attempts. `UsedMoves` says that an
attempt used stays used with its score. `ProgressTrue` (`ProgressAgrees`), by
`ProgInv`: a start marks the progress only if an attempt is unfinished, a grade
takes the better score, and the progress that a refused start puts back agrees
with the attempts as well (`Agrees`, of `before`).

`KeyKept` (`KeyHeld`), by `KeyInv`: each of the three reads behind the decision
may be stale when it is made, but what it says in favour of showing the key
stays true (`ReadsTrue`): a removed quiz is not offered again, used-up attempts
stay used up (`ExhaustedStays`), and what starts after the read of the attempts
in progress is late.

**`SimulationVersions_proofs`**: `TypeCorrect`, with `Chosen` (a number is in
bounds before it is written); `RoundLocked` (`RoundIsLocked`). The status is a
lock without an owner, so the invariant names one: until something is upset,
a row that is PENDING or REVISING is held by exactly one of a request that is
about to enqueue, one queued job, or one job at work, and by the round that is
pending (`Lock`: `Unlocked`, `Generating`, `Revising(r)` or `Failing(r)`).
`ClaimLock`, `QueueingLock`, `TakeLock` and `WorkLock` follow the lock from
hand to hand; `PatchLock` and `LockFrame` show that direct edits, restores and
the collector leave it alone.

`HistoryIsKept` (`HistoryKept`), by `KeptInv`, until a generation is begun over
an artifact: a generation begins on a row that has none, and until it publishes
no other writer can start (`Begun`); from the first edit or round on, history
has the live version, so whoever replaces it loses nothing (`Recorded`); and a
chosen number stays unused as long as no other writer is at work (`Alone`,
`Unserved`). That it is new when chosen (`NextIsNew`) needs that a finite set of
numbers has a greatest (`MaxExists`). The library's induction theorems cannot be
instantiated here, so that lemma takes a minimal element of the well-founded
strict inclusion of finite sets instead.

The invariants were model-checked before they were proved. Every invariant and
every action property of the passing runs now has a theorem. Only model-checked
is liveness (`RowsSettle`, `CampaignSettles`, `ExtractingSettles`,
`ExtractionSettles`, `InFlightSettles`): the prover has neither `ENABLED` nor
fairness. Where a theorem has a hypothesis on the constants (`~SlowSends`,
`MaxFaults = 0`, `Rows # {}`, one worker), TLC finds the property violated
without it; `RollUpCurrent` and `SentLeavesNonePending` are for that reason in
no run, which has two workers, and are theorems only; the paragraphs above, the
findings and the hazards say how. One worker is the deployment
(`docker/docker-compose.yml:74-80`).

## Findings

The violation runs are the findings listed in `PROJECT.json`. While modelling,
these came up as well; they have no run of their own.

E-mails:

- A recipient is mailed twice after a crash between the SMTP acceptance and the
  SENT write, after an SMTP answer that was lost (`email.ts:176`; at the cap the
  row is FAILED although the e-mail went out), or (with `SlowSends`) when a send
  outlasts the five-minute lease.
- A crash or a database error between a row's terminal write and the roll-up
  leaves the message behind its rows for good (`message-email.ts:383`): the job
  is retried and skipped, and no sweep looks at a settled row. A comment says
  the roll-up follows "every terminal transition" (240-242).
- Two workers break the roll-up without any fault: each counts the rows and
  then writes the message (269-282), and the older count may be written last.
- `MaxAttempts` is tested after a failed send only (`message-email.ts:356`), the
  claim does not look at it: a cut-off last attempt may be followed by one more.
  `AttemptsBounded` states by how much.
- The claim does not look at `nextAttemptAt` either (300-307): a duplicate job
  makes the next attempt before the backoff is over.
- The sweeper's `updateMany` (437-440) selects by id alone, so after a fault it
  may mark a row FAILED that has just been claimed again, whose SENT then
  overwrites it. `KeepsPromise` excludes it before the first fault.
- A request that dies between the message and its rows (messages `route.ts`
  287-294) leaves the message QUEUED for good.
- An expansion of a campaign that throws after `Cancel` overwrites CANCELLED
  with FAILED, unconditionally (`research-email-server.ts:536`), and the rows
  are then sent; hence `faults = 0` in `CancelStops`. An expansion that reaches
  nobody makes a campaign SENT that was cancelled meanwhile.

Extractions:

- When requests overlap, `CommitOnce` and `CommittedKept` fail as `FiguresKept`
  does: the commit and the discard check the status once, at their start. Hence
  `overlapped`.
- After a worker fault a late `MarkNotQueued` can meet the result of the old
  job; hence `faults = 0` in `ReviewNotLost`.

Simulations:

- A regeneration by force counts from `QuestionSimulation.version`. After a
  restore to an older version that number is taken: the PUT overwrites the
  object of a version in the history (which deep copies share), where
  `schema.prisma:1512` promises a new key; and the new live version has the old
  one's history row. `HistoryKept` excepts it (`restarted`).
- Two direct edits at once choose the same number. The second one's transaction
  fails on the unique version, but its PUT has overwritten the document of the
  first, while `edit/route.ts:312-313` says that nothing was published
  (`overlapped`).
- A job of a settled round that is handed out again sets READY while the next
  round is pending (`simulation-engine.ts:446`; 185 calls a redelivery safe);
  the next job finds no REVISING row and is acked, and its round stays PENDING.
- A restart by force does not stop the job at work, whose result is published
  all the same; `simulation-trigger.ts:58-60` and `simulations-client.tsx:200`
  say it is discarded. A round pending then stays PENDING.
- There is no sweep: a request that dies before its enqueue leaves the row
  PENDING or REVISING until somebody restarts it by force.

## Not modelled

The components with status `not_modelled` in `PROJECT.json`, each with its
reason. Within the modelled ones:

- Messages: validation and recipient selection of the compose request, its
  quota check, in-app notifications. Campaigns: recipient rules and contents.
- Consent e-mails: an attempt that outlives its lease; the e-mail that tells
  administrators of a new request, which has no mirror.
- Extractions: the model passes (one nondeterministic result), multipart
  details of uploads, page rows.
- Quizzes: a graded attempt whose result is never filed (`FilingFails`; the code
  calls it best effort); transactions that open with a write in more than one
  step, which the comment in PATCH gives as the reason for the write; the cap is
  a constant and the window moves forward only; a removed quiz is not assigned
  to the class again; practice rows of an older schema; scoring, which is data.
- Syllabus: the page images of one upload are one key, the collector's part.
- Simulations: deletion, siblings of a question that share an artifact, deep
  copies, edit conversations, names of versions, histories from before version
  rows existed.
- Several messages, campaigns or extractions at once: they share nothing but
  the order of the queue, which the fairness abstracts.

Most of the repository is rendering, forms, prompts and data conversion, which
the modules abstract to their inputs; the share of lines that `map` names is
small for that reason.

## Plan

1. `QuizVariants`, `Surveys`, `Backup`: request, job, sweep; one set per
   request, one response per invite, one run at a time.
2. `ConsentClaims`: tokens and exports; account tokens.
3. The quota of the compose request against concurrent requests.
4. Composition: one queue with several consumers over `EmailDelivery` and
   `ResearchCampaign`; the collector over all families of keys.

Theorems next: the part of `RollUpCurrent` that survives two workers or a fault,
and the theorems of the modules above, each with its module.
