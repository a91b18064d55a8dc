--------------------------- MODULE QuizExtraction ---------------------------
(***************************************************************************)
(* One quiz PDF extraction from upload to committed questions: the HTTP    *)
(* handlers under src/src/app/api/quizzes/[id]/pdf-extractions/, the       *)
(* worker's extraction job (src/src/lib/quiz-extraction-engine.ts) and the *)
(* S3 garbage collector (src/src/lib/s3-gc.ts).                            *)
(*                                                                         *)
(* A handler is the list of its awaits.  It may end after any of them: a   *)
(* 4xx answer, a guardrail refusal and a dying web process look the same   *)
(* to the rows and objects it leaves behind.                               *)
(***************************************************************************)
EXTENDS Integers, FiniteSets, Functions

CONSTANTS
  Handlers,   \* HTTP requests at work at the same time
  Texts,      \* question texts a teacher may commit
  Crops,      \* figure crops: every presigned upload has a fresh key
  NoCrop,     \* the figure of a question that does not exist
  MaxJobs,    \* bound: queued extraction jobs
  MaxFaults   \* bound: worker crashes, lost writes, expired visibility timeouts

ASSUME HandlersAssumption == IsFiniteSet(Handlers)
ASSUME CropAssumption == NoCrop \notin Crops
ASSUME BoundsAssumption == MaxJobs \in Nat \ {0} /\ MaxFaults \in Nat

VARIABLES
  status,     \* QuizPdfExtraction.status, DELETED when the row is gone
  source,     \* are the PDF and page images in S3?
  issued,     \* QuizPdfExtractionFigure: crop keys handed out
  minted,     \* every crop key ever handed out
  stored,     \* crops in S3
  question,   \* Question rows with a figure: text to figure key
  imports,    \* QuestionImport rows written by commits
  handler,    \* what each request is doing
  jobs,       \* queued extraction jobs
  worker,     \* what the extraction consumer is doing
  gc,         \* what the collector is doing
  overlapped, \* has a request or a stale-pass discard met another at work?
  faults      \* worker crashes, lost writes and expired timeouts so far

vars == <<status, source, issued, minted, stored, question, imports, handler,
          jobs, worker, gc, overlapped, faults>>
objects == <<source, stored>>
quiz == <<question, imports>>

Status == {"PENDING_UPLOAD", "EXTRACTING", "AWAITING_REVIEW", "FAILED",
           "COMMITTED", "DELETED"}
HandlerPC == {"idle", "claimUpload", "claimRetry", "enqueue", "notQueued",
              "issue", "verify", "head", "commit", "tidyS3", "tidyRows",
              "discardS3", "discardRow"}
\* A commit's payload: the texts with a figure, if any, and the crop of each.
Payload == UNION {[S -> Crops] : S \in SUBSET Texts}
NoPayload == [t \in {} |-> NoCrop]
Handler == [pc : HandlerPC, payload : Payload, issued : SUBSET Crops]
Idle == [pc |-> "idle", payload |-> NoPayload, issued |-> {}]
CollectorPC == {"idle", "staleS3", "staleRow", "doomed"}

Init ==
  /\ status = "PENDING_UPLOAD" /\ source = FALSE
  /\ issued = {} /\ minted = {} /\ stored = {}
  /\ question = [t \in Texts |-> NoCrop] /\ imports = 0
  /\ handler = [h \in Handlers |-> Idle]
  /\ jobs = 0 /\ worker = "idle"
  /\ gc = [pc |-> "idle", keys |-> {}] /\ overlapped = FALSE /\ faults = 0

Quiet == /\ \A h \in Handlers : handler[h].pc = "idle"
         /\ gc.pc \notin {"staleS3", "staleRow"}
\* The history variable of the two steps that begin such work.
Meet == overlapped' = (overlapped \/ ~Quiet)
Enqueued == IF jobs < MaxJobs THEN jobs + 1 ELSE jobs
\* Slip: a status the schema does not have.
UpdateAs(s) == IF s = "FAILED" THEN "ERROR" ELSE s
\* An update by id of a row that may be gone.
Update(s) == IF status = "DELETED" THEN "DELETED" ELSE s
Becomes(h, pc) == handler' = [handler EXCEPT ![h].pc = pc]
Done(h) == handler' = [handler EXCEPT ![h] = Idle]

-----------------------------------------------------------------------------
(* Requests.  Each one reads the row and checks its status first; the      *)
(* steps that follow act on that reading.                                  *)

UploadSource ==
  /\ status = "PENDING_UPLOAD" /\ ~source
  /\ source' = TRUE
  /\ UNCHANGED <<status, issued, minted, stored, quiz, handler, jobs, worker,
                  gc, faults, overlapped>>

\* Slips: a commit, or a discard, that a committed extraction does not refuse.
AsksCommitAgain ==
  [claimUpload |-> {"PENDING_UPLOAD"}, claimRetry |-> {"FAILED"},
   issue |-> {"AWAITING_REVIEW"}, verify |-> {"AWAITING_REVIEW", "COMMITTED"},
   discardS3 |-> Status \ {"COMMITTED", "DELETED"}]
AsksDiscardAny ==
  [claimUpload |-> {"PENDING_UPLOAD"}, claimRetry |-> {"FAILED"},
   issue |-> {"AWAITING_REVIEW"}, verify |-> {"AWAITING_REVIEW"},
   discardS3 |-> Status \ {"DELETED"}]

\* The status each request asks for, and where it goes on from there.
Asks == [claimUpload |-> {"PENDING_UPLOAD"}, claimRetry |-> {"FAILED"},
         issue |-> {"AWAITING_REVIEW"}, verify |-> {"AWAITING_REVIEW"},
         discardS3 |-> Status \ {"COMMITTED", "DELETED"}]

Start(h, kind, payload) ==
  /\ handler[h].pc = "idle"
  /\ status \in Asks[kind]
  /\ kind = "claimUpload" => source
  /\ kind # "verify" => payload = NoPayload
  /\ handler' = [handler EXCEPT ![h] = [Idle EXCEPT !.pc = kind,
                                                    !.payload = payload]]
  /\ Meet
  /\ UNCHANGED <<status, objects, issued, minted, quiz, jobs, worker, gc,
                 faults>>

\* Slip: an update by id instead of the compare-and-set.
ClaimNoTest(h, kind, expected) ==
  /\ handler[h].pc = kind
  /\ status' = "EXTRACTING" /\ Becomes(h, "enqueue")
  /\ UNCHANGED <<objects, issued, minted, quiz, jobs, worker, gc, faults,
                  overlapped>>
\* complete and retry: compare-and-set to EXTRACTING, 409 when it is lost.
ClaimFor(h, kind, expected) ==
  /\ handler[h].pc = kind
  /\ status' = IF status = expected THEN "EXTRACTING" ELSE status
  /\ IF status = expected THEN Becomes(h, "enqueue") ELSE Done(h)
  /\ UNCHANGED <<objects, issued, minted, quiz, jobs, worker, gc, faults,
                  overlapped>>
ClaimUpload(h) == ClaimFor(h, "claimUpload", "PENDING_UPLOAD")
ClaimRetry(h) == ClaimFor(h, "claimRetry", "FAILED")

Enqueue(h) ==
  /\ handler[h].pc = "enqueue"
  /\ jobs' = Enqueued /\ Done(h)
  /\ UNCHANGED <<status, objects, issued, minted, quiz, worker, gc, faults,
                  overlapped>>

\* The enqueue throws: the row is marked FAILED, whatever it says by then.
EnqueueThrows(h) ==
  /\ handler[h].pc = "enqueue"
  /\ Becomes(h, "notQueued")
  /\ UNCHANGED <<status, objects, issued, minted, quiz, jobs, worker, gc,
                  faults, overlapped>>
MarkNotQueued(h) ==
  /\ handler[h].pc = "notQueued"
  /\ status' = Update("FAILED") /\ Done(h)
  /\ UNCHANGED <<objects, issued, minted, quiz, jobs, worker, gc, faults,
                  overlapped>>

\* figures: record fresh keys, then hand out their upload URLs.
IssueCrops(h, keys) ==
  /\ handler[h].pc = "issue" /\ status # "DELETED"
  /\ keys # {} /\ keys \cap minted = {}
  /\ issued' = issued \cup keys /\ minted' = minted \cup keys
  /\ Done(h)
  /\ UNCHANGED <<status, objects, quiz, jobs, worker, gc, faults, overlapped>>

\* The browser uploads a crop; the URL is write-once.
UploadCrop(c) ==
  /\ c \in issued \ stored
  /\ stored' = stored \cup {c}
  /\ UNCHANGED <<status, source, issued, minted, quiz, handler, jobs, worker,
                  gc, faults, overlapped>>

\* commit: every crop of the payload was issued ...
VerifyCrops(h) ==
  /\ handler[h].pc = "verify"
  /\ IF Range(handler[h].payload) \subseteq issued
     THEN handler' = [handler EXCEPT ![h].pc = "head", ![h].issued = issued]
     ELSE Done(h)
  /\ UNCHANGED <<status, objects, issued, minted, quiz, jobs, worker, gc,
                  faults, overlapped>>

\* ... and is in S3.
HeadCrops(h) ==
  /\ handler[h].pc = "head"
  /\ IF Range(handler[h].payload) \subseteq stored THEN Becomes(h, "commit")
                                                   ELSE Done(h)
  /\ UNCHANGED <<status, objects, issued, minted, quiz, jobs, worker, gc,
                  faults, overlapped>>

\* One transaction: the import, the questions whose text is new, COMMITTED.
\* It does not look at the status again; a deleted row rolls it back.
CommitQuestions(h) ==
  LET p == handler[h].payload IN
  /\ handler[h].pc = "commit"
  /\ IF status = "DELETED"
     THEN Done(h) /\ UNCHANGED <<status, question, imports>>
     ELSE /\ question' = [t \in Texts |->
                            IF t \in DOMAIN p /\ question[t] = NoCrop
                            THEN p[t] ELSE question[t]]
          /\ imports' = imports + 1
          /\ status' = "COMMITTED"
          /\ Becomes(h, "tidyS3")
  /\ UNCHANGED <<objects, issued, minted, jobs, worker, gc, faults,
                  overlapped>>

\* Slip: the crops just committed are tidied up too.
EveryCrop(h) == handler[h].issued
\* Best effort: delete the source and the issued crops it did not commit.
\* kept is what an S3 failure leaves behind; the source goes only without one.
Orphans(h) == handler[h].issued \ Range(handler[h].payload)
TidyS3(h, kept) ==
  /\ handler[h].pc = "tidyS3"
  /\ stored' = stored \ (Orphans(h) \ kept)
  /\ source' = (source /\ kept # {})
  /\ IF kept = {} THEN Becomes(h, "tidyRows") ELSE Done(h)
  /\ UNCHANGED <<status, issued, minted, quiz, jobs, worker, gc, faults,
                  overlapped>>
TidyRows(h) ==
  /\ handler[h].pc = "tidyRows"
  /\ issued' = issued \ Orphans(h) /\ Done(h)
  /\ UNCHANGED <<status, objects, minted, quiz, jobs, worker, gc, faults,
                  overlapped>>

\* discard: S3 first, as far as it goes, then the row.
DiscardS3(h, kept) ==
  /\ handler[h].pc = "discardS3"
  /\ stored' = stored \cap kept
  /\ source' = (source /\ kept # {})
  /\ Becomes(h, "discardRow")
  /\ UNCHANGED <<status, issued, minted, quiz, jobs, worker, gc, faults,
                  overlapped>>
DiscardRow(h) ==
  /\ handler[h].pc = "discardRow"
  /\ status' = "DELETED" /\ issued' = {} /\ Done(h)
  /\ UNCHANGED <<objects, minted, quiz, jobs, worker, gc, faults, overlapped>>

\* The request ends early: refused, thrown out, or its process dies.
Abandon(h) ==
  /\ handler[h].pc # "idle"
  /\ Done(h)
  /\ UNCHANGED <<status, objects, issued, minted, quiz, jobs, worker, gc,
                  faults, overlapped>>

-----------------------------------------------------------------------------
(* The extraction consumer.                                                *)

\* runQuizExtraction acts on an EXTRACTING row only; other jobs are acked.
TakeJob ==
  /\ worker = "idle" /\ jobs > 0
  /\ jobs' = jobs - 1
  /\ worker' = IF status = "EXTRACTING" THEN "run" ELSE "idle"
  /\ UNCHANGED <<status, objects, issued, minted, quiz, handler, gc, faults,
                  overlapped>>

\* The model passes end; the result is written by id, whatever the status.
FinishRun(result) ==
  /\ worker = "run"
  /\ status' = Update(result)
  /\ worker' = "ack"
  /\ UNCHANGED <<objects, issued, minted, quiz, handler, jobs, gc, faults,
                  overlapped>>

AckJob ==
  /\ worker = "ack" /\ worker' = "idle"
  /\ UNCHANGED <<status, objects, issued, minted, quiz, handler, jobs, gc,
                  faults, overlapped>>

\* The result and the FAILED mark both fail to be written; acked all the same.
WriteLost ==
  /\ worker = "run" /\ faults < MaxFaults
  /\ faults' = faults + 1 /\ worker' = "ack"
  /\ UNCHANGED <<status, objects, issued, minted, quiz, handler, jobs, gc,
                  overlapped>>

\* The worker dies before its ack: the job is handed out again.
Crash ==
  /\ worker # "idle" /\ faults < MaxFaults
  /\ faults' = faults + 1 /\ worker' = "idle" /\ jobs' = Enqueued
  /\ UNCHANGED <<status, objects, issued, minted, quiz, handler, gc,
                  overlapped>>

\* The model passes outlast the queue's visibility timeout: the job is offered
\* once more, and the consumer finds it after this one.
VisibilityExpires ==
  /\ worker = "run" /\ faults < MaxFaults
  /\ faults' = faults + 1 /\ jobs' = Enqueued
  /\ UNCHANGED <<status, objects, issued, minted, quiz, handler, worker, gc,
                  overlapped>>

-----------------------------------------------------------------------------
(* The garbage collector.                                                  *)

\* Slip: only uploads that never started count as stale.
FindNotStarted ==
  /\ gc.pc = "idle"
  /\ status = "PENDING_UPLOAD"
  /\ gc' = [gc EXCEPT !.pc = "staleS3"] /\ Meet
  /\ UNCHANGED <<status, objects, issued, minted, quiz, handler, jobs, worker,
                 faults>>
\* discardStaleExtractions: an unfinished row untouched for a day or longer.
FindStale ==
  /\ gc.pc = "idle"
  /\ status \notin {"COMMITTED", "DELETED"}
  /\ gc' = [gc EXCEPT !.pc = "staleS3"] /\ Meet
  /\ UNCHANGED <<status, objects, issued, minted, quiz, handler, jobs, worker,
                 faults>>
\* A failure leaves the row for the next run.
StaleS3(kept) ==
  /\ gc.pc = "staleS3"
  /\ stored' = stored \cap kept
  /\ source' = (source /\ kept # {})
  /\ gc' = [gc EXCEPT !.pc = IF kept = {} THEN "staleRow" ELSE "idle"]
  /\ UNCHANGED <<status, issued, minted, quiz, handler, jobs, worker, faults,
                  overlapped>>
StaleRow ==
  /\ gc.pc = "staleRow"
  /\ status' = "DELETED" /\ issued' = {}
  /\ gc' = [gc EXCEPT !.pc = "idle"]
  /\ UNCHANGED <<objects, minted, quiz, handler, jobs, worker, faults,
                  overlapped>>

\* classifyForGc on one crop, against one snapshot of the database.
Unreferenced(c) == /\ status \in {"COMMITTED", "DELETED"}
                   /\ c \notin Range(question)
\* reconcileBucket: objects older than a day that nothing references ...
Reconcile(old) ==
  /\ gc.pc = "idle"
  /\ old # {} /\ \A c \in old : c \in stored /\ Unreferenced(c)
  /\ gc' = [pc |-> "doomed", keys |-> old]
  /\ UNCHANGED <<status, objects, issued, minted, quiz, handler, jobs, worker,
                  faults, overlapped>>
\* ... are deleted.
DeleteDoomed ==
  /\ gc.pc = "doomed"
  /\ stored' = stored \ gc.keys
  /\ gc' = [pc |-> "idle", keys |-> {}]
  /\ UNCHANGED <<status, source, issued, minted, quiz, handler, jobs, worker,
                  faults, overlapped>>

-----------------------------------------------------------------------------
Step(h) ==
  \/ ClaimUpload(h) \/ ClaimRetry(h)
  \/ Enqueue(h) \/ EnqueueThrows(h) \/ MarkNotQueued(h)
  \/ \E keys \in SUBSET Crops : IssueCrops(h, keys)
  \/ VerifyCrops(h) \/ HeadCrops(h) \/ CommitQuestions(h)
  \/ \E kept \in SUBSET Crops : TidyS3(h, kept) \/ DiscardS3(h, kept)
  \/ TidyRows(h) \/ DiscardRow(h) \/ Abandon(h)
Extract == TakeJob \/ AckJob \/ FinishRun("AWAITING_REVIEW")
           \/ FinishRun("FAILED")
Collect == \/ FindStale \/ StaleRow \/ DeleteDoomed
           \/ \E kept \in SUBSET Crops : StaleS3(kept) \/ Reconcile(kept)

Next ==
  \/ UploadSource
  \/ \E h \in Handlers, kind \in DOMAIN Asks, payload \in Payload :
       Start(h, kind, payload)
  \/ \E h \in Handlers : Step(h)
  \/ \E c \in Crops : UploadCrop(c)
  \/ Extract \/ WriteLost \/ Crash \/ VisibilityExpires
  \/ Collect

Spec == Init /\ [][Next]_vars

(* The consumer keeps running; the collector's rounds come back for a row  *)
(* that stays unfinished, and S3 does not fail for ever.                   *)
Fairness == /\ WF_vars(Extract)
            /\ SF_vars(FindStale) /\ SF_vars(StaleS3({})) /\ WF_vars(StaleRow)
            /\ WF_vars(DeleteDoomed)
FairSpec == Spec /\ Fairness

-----------------------------------------------------------------------------
(* Properties.                                                             *)

\* Every variable keeps its type: the extraction's columns, the S3 objects,
\* the quiz's questions and the control states.
TypeOK ==
  /\ status \in Status /\ source \in BOOLEAN
  /\ issued \in SUBSET Crops /\ minted \in SUBSET Crops
  /\ stored \in SUBSET Crops
  /\ question \in [Texts -> Crops \cup {NoCrop}] /\ imports \in Nat
  /\ handler \in [Handlers -> Handler]
  /\ jobs \in 0..MaxJobs /\ worker \in {"idle", "run", "ack"}
  /\ gc \in [pc : CollectorPC, keys : SUBSET Crops]
  /\ overlapped \in BOOLEAN /\ faults \in 0..MaxFaults

\* "Committed figures/ objects stay" (commit): a crop that a Question row
\* refers to is in S3.
FiguresKept == Range(question) \subseteq stored \cup {NoCrop}

\* As long as no two requests, or a request and a stale-pass discard, have
\* been at work together, no clean-up, discard or collector run deletes a crop
\* that a Question row refers to, whatever part of its deletes S3 refuses.
FiguresKeptAlone == overlapped \/ FiguresKept

\* An extraction is committed at most once ("to block a double commit"), on
\* the same condition.
CommitOnce == overlapped \/ imports <= 1

\* "Refuses once COMMITTED": a committed extraction is never discarded, on the
\* same condition.
CommittedKept ==
  [][status = "COMMITTED" /\ ~overlapped' => status' = "COMMITTED"]_vars

\* However uploads and retries race, an extraction never has two paid runs
\* queued or at work: the compare-and-set lets one request enqueue.
\* (A crash or an expired visibility timeout leaves the old job behind.)
SingleRun == jobs + (IF worker = "run" THEN 1 ELSE 0)
               + Cardinality({h \in Handlers : handler[h].pc = "enqueue"})
             <= 1 + faults

\* Staged questions waiting for review are only ever committed or discarded:
\* no late write throws them back to EXTRACTING or FAILED.  (After a crash or
\* an expired timeout the old job's result can meet a retry's FAILED mark.)
ReviewNotLost ==
  [][status = "AWAITING_REVIEW" /\ faults = 0
     => status' \in {"AWAITING_REVIEW", "COMMITTED", "DELETED"}]_vars

\* An extraction does not stay EXTRACTING for ever, whatever dies on the way.
ExtractingSettles == status = "EXTRACTING" ~> status # "EXTRACTING"
=============================================================================
