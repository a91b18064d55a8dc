-------------------------- MODULE SyllabusRevision --------------------------
(***************************************************************************)
(* The syllabus of ONE class: uploads in numbered revisions, the retry,    *)
(* the teacher's edits, removal and re-creation (src/src/app/api/classes/  *)
(* [id]/syllabus/), and the worker that extracts a finalized revision and  *)
(* the sweep that fails a dead one (src/src/lib/syllabus-engine.ts).       *)
(*                                                                         *)
(* A job names a row and a revision.  A key in storage is known by the     *)
(* revision in its path, the content by who wrote it and from what.  The   *)
(* checks of names, sizes and page lists are left out.                     *)
(***************************************************************************)
EXTENDS Integers

CONSTANTS
  Tabs,         \* requests of the teacher in flight at once
  MaxRows,      \* bound: how often the row is created
  MaxRevision,  \* bound: revisions of one row
  MaxJobs,      \* bound: jobs of one row and revision in the queue
  MaxFaults     \* bound: crashes, errors and lost jobs

ASSUME BoundsAssumption ==
  /\ MaxRows \in Nat /\ MaxRevision \in Nat \ {0}
  /\ MaxJobs \in Nat /\ MaxFaults \in Nat

VARIABLES
  exists,    \* the class has a ClassSyllabus row
  id,        \* which row it is, or was: rows are numbered as created
  status,    \* ClassSyllabus.status
  revision,  \* ClassSyllabus.revision
  pending,   \* the revision of pendingStorageKey, 0 for null
  source,    \* ClassSyllabus.sourceRevision, 0 for null
  file,      \* the revision of storageKey, 0 for null
  content,   \* ClassSyllabus.content
  old,       \* updatedAt is past the stale limit
  tab,       \* what each request of the teacher is doing
  jobs,      \* queued jobs of a row and revision
  run,       \* what the worker's consumer is doing
  asked,     \* an extraction was asked for since the teacher's last edit
  strayed,   \* history: an upload begun on a deleted row went on with this one
  faults     \* crashes, errors and lost jobs so far

upload == <<exists, id, revision, pending, source, file>>
vars == <<exists, id, status, revision, pending, source, file, content, old,
          tab, jobs, run, asked, strayed, faults>>

Status == {"PENDING_UPLOAD", "EXTRACTING", "READY", "FAILED"}
Ids == 0..MaxRows
Revisions == 0..MaxRevision
Content == [by : {"nobody", "teacher", "run"}, id : Ids, rev : Revisions]
Nothing == [by |-> "nobody", id |-> 0, rev |-> 0]
Tab == [pc : {"idle", "key", "pages", "upload", "claim", "retry", "enqueue",
              "mark"},
        id : Ids, rev : Revisions, key : Revisions]
Closed == [pc |-> "idle", id |-> 0, rev |-> 0, key |-> 0]
Run == [pc : {"idle", "model", "failed"}, id : Ids, rev : Revisions]
Resting == [pc |-> "idle", id |-> 0, rev |-> 0]

Init ==
  /\ exists = FALSE /\ id = 0 /\ status = "PENDING_UPLOAD"
  /\ revision = 0 /\ pending = 0 /\ source = 0 /\ file = 0
  /\ content = Nothing /\ old = FALSE
  /\ tab = [t \in Tabs |-> Closed]
  /\ jobs = [i \in Ids |-> [r \in Revisions |-> 0]]
  /\ run = Resting
  /\ asked = FALSE /\ strayed = FALSE /\ faults = 0

At(t, pc) == tab[t].pc = pc
Close(t) == tab' = [tab EXCEPT ![t] = Closed]
To(t, pc) == tab' = [tab EXCEPT ![t].pc = pc]
\* The row a request read is still the class's row.
Same(i) == exists /\ id = i
Enqueued(i, r) == [jobs EXCEPT ![i][r] = IF @ < MaxJobs THEN @ + 1 ELSE @]
\* A write moves updatedAt.
Write(s) == status' = s /\ old' = FALSE

-----------------------------------------------------------------------------
(* POST .../syllabus: begin an upload.                                     *)

\* The upsert: the first revision of a new row, or the next of this one.
\* Content, source and the older pending key are left alone.
BeginUpload(t) ==
  /\ At(t, "idle")
  /\ IF exists
     THEN /\ revision < MaxRevision
          /\ revision' = revision + 1
          /\ UNCHANGED <<exists, id, pending, source, file, content>>
     ELSE /\ id < MaxRows
          /\ exists' = TRUE /\ id' = id + 1 /\ revision' = 1
          /\ UNCHANGED <<pending, source, file, content>>
  /\ Write("PENDING_UPLOAD")
  /\ tab' = [tab EXCEPT ![t] = [pc |-> "key", id |-> id', rev |-> revision',
                                key |-> 0]]
  /\ UNCHANGED <<jobs, run, asked, faults, strayed>>

\* Slip: the key written without looking at the revision.
KeyStillWanted(t) == Same(tab[t].id)
\* The WHERE clause of the key's updateMany.
KeyWanted(t) == Same(tab[t].id) /\ revision = tab[t].rev

WriteKey(t) ==
  /\ At(t, "key")
  /\ pending' = IF KeyWanted(t) THEN tab[t].rev ELSE pending
  /\ old' = IF KeyWanted(t) THEN FALSE ELSE old
  /\ To(t, "pages")
  /\ UNCHANGED <<exists, id, status, revision, source, file, content, jobs,
                 run, asked, faults, strayed>>

-----------------------------------------------------------------------------
(* POST .../syllabus/pages and .../complete: finalize an upload.           *)

\* The class's row waits for an upload of the number that the request names.
Awaited(t) == exists /\ status = "PENDING_UPLOAD" /\ revision = tab[t].rev

\* The keys of the page images name the row of this moment: after a removal
\* the same number may belong to another row.
AskPages(t) ==
  /\ At(t, "pages")
  /\ IF Awaited(t)
     THEN /\ tab' = [tab EXCEPT ![t].pc = "upload", ![t].id = id]
          /\ strayed' = (strayed \/ tab[t].id # id)
     ELSE Close(t) /\ UNCHANGED strayed
  /\ UNCHANGED <<upload, status, content, old, jobs, run, asked, faults>>

\* The fast path; page keys of another row are refused.  Then the objects are
\* looked up in S3.
ReadComplete(t) ==
  /\ At(t, "upload")
  /\ IF Awaited(t) /\ pending # 0 /\ tab[t].id = id
     THEN tab' = [tab EXCEPT ![t].pc = "claim", ![t].key = pending]
     ELSE Close(t)
  /\ UNCHANGED <<upload, status, content, old, jobs, run, asked, faults,
                 strayed>>

\* The WHERE clause of the claim.
Finalizable(t) ==
  /\ Same(tab[t].id) /\ status = "PENDING_UPLOAD"
  /\ revision = tab[t].rev

ClaimUpload(t) ==
  /\ At(t, "claim")
  /\ IF Finalizable(t)
     THEN /\ Write("EXTRACTING")
          /\ source' = tab[t].rev /\ file' = tab[t].key /\ pending' = 0
          /\ asked' = TRUE
          /\ To(t, "enqueue")
     ELSE /\ Close(t)
          /\ UNCHANGED <<status, old, source, file, pending, asked>>
  /\ UNCHANGED <<exists, id, revision, content, jobs, run, faults, strayed>>

-----------------------------------------------------------------------------
(* POST .../syllabus/retry: extract the finalized revision again.          *)

\* Slip: a retry before any upload was finalized.
RetriableAny == exists
Retriable == exists /\ source # 0

ReadRetry(t) ==
  /\ At(t, "idle") /\ Retriable
  /\ tab' = [tab EXCEPT ![t] = [pc |-> "retry", id |-> id, rev |-> source,
                                key |-> 0]]
  /\ UNCHANGED <<upload, status, content, old, jobs, run, asked, faults,
                 strayed>>

\* A pending upload is abandoned by it.
ClaimRetry(t) ==
  /\ At(t, "retry")
  /\ IF Same(tab[t].id) /\ source = tab[t].rev /\ status # "EXTRACTING"
     THEN Write("EXTRACTING") /\ asked' = TRUE /\ To(t, "enqueue")
     ELSE Close(t) /\ UNCHANGED <<status, old, asked>>
  /\ UNCHANGED <<upload, content, jobs, run, faults, strayed>>

Enqueue(t) ==
  /\ At(t, "enqueue")
  /\ jobs' = Enqueued(tab[t].id, tab[t].rev)
  /\ Close(t)
  /\ UNCHANGED <<upload, status, content, old, run, asked, faults, strayed>>

EnqueueThrows(t) ==
  /\ At(t, "enqueue") /\ faults < MaxFaults
  /\ faults' = faults + 1
  /\ To(t, "mark")
  /\ UNCHANGED <<upload, status, content, old, jobs, run, asked, strayed>>

\* FAILED by row and source revision, whatever the status is by now.
MarkNotQueued(t) ==
  /\ At(t, "mark")
  /\ IF Same(tab[t].id) /\ source = tab[t].rev
     THEN Write("FAILED") ELSE UNCHANGED <<status, old>>
  /\ Close(t)
  /\ UNCHANGED <<upload, content, jobs, run, asked, faults, strayed>>

\* The teacher gives up half-way, an object is not in the bucket or too large,
\* or the web process dies.
TabCloses(t) ==
  /\ tab[t].pc # "idle"
  /\ \/ tab[t].pc \in {"pages", "upload", "claim"} /\ UNCHANGED faults
     \/ faults < MaxFaults /\ faults' = faults + 1
  /\ Close(t)
  /\ UNCHANGED <<upload, status, content, old, jobs, run, asked, strayed>>

-----------------------------------------------------------------------------
(* PUT and DELETE .../syllabus.                                            *)

\* Slip: an edit in the middle of an extraction.
EditableAlways == exists
Editable == exists /\ status # "EXTRACTING"

Edit ==
  /\ Editable
  /\ content' = [by |-> "teacher", id |-> id, rev |-> 0]
  /\ old' = FALSE /\ asked' = FALSE
  /\ UNCHANGED <<upload, status, tab, jobs, run, faults, strayed>>

\* Where no row is, its fields have the values of a new one.
Delete ==
  /\ exists
  /\ exists' = FALSE /\ Write("PENDING_UPLOAD") /\ content' = Nothing
  /\ revision' = 0 /\ pending' = 0 /\ source' = 0 /\ file' = 0
  /\ asked' = FALSE /\ strayed' = FALSE
  /\ UNCHANGED <<id, tab, jobs, run, faults>>

-----------------------------------------------------------------------------
(* runSyllabusExtraction, by the only consumer of the queue.               *)

\* Slip: a guard without the revision.
CurrentAnyRevision(i, r) == Same(i) /\ status = "EXTRACTING"
\* The guard of every write of the run.
Current(i, r) == Same(i) /\ status = "EXTRACTING" /\ source = r

\* A job whose row, status or revision has moved on is acked without a run.
TakeJob(i, r) ==
  /\ run.pc = "idle" /\ jobs[i][r] > 0
  /\ jobs' = [jobs EXCEPT ![i][r] = @ - 1]
  /\ run' = IF Current(i, r) THEN [pc |-> "model", id |-> i, rev |-> r]
                             ELSE Resting
  /\ UNCHANGED <<upload, status, content, old, tab, asked, faults, strayed>>

\* The model's answer is written and the job acked.  (A redelivery after the
\* write is that of a visibility timeout before it.)
WriteResult ==
  /\ run.pc = "model"
  /\ IF Current(run.id, run.rev)
     THEN /\ Write("READY")
          /\ content' = [by |-> "run", id |-> run.id, rev |-> run.rev]
     ELSE UNCHANGED <<status, old, content>>
  /\ run' = Resting
  /\ UNCHANGED <<upload, tab, jobs, asked, faults, strayed>>

\* No provider, no pages, no usable answer, or the write of it throws.
ExtractionThrows ==
  /\ run.pc = "model"
  /\ run' = [run EXCEPT !.pc = "failed"]
  /\ UNCHANGED <<upload, status, content, old, tab, jobs, asked, faults,
                 strayed>>

WriteFailure ==
  /\ run.pc = "failed"
  /\ IF Current(run.id, run.rev) THEN Write("FAILED")
                                 ELSE UNCHANGED <<status, old>>
  /\ run' = Resting
  /\ UNCHANGED <<upload, content, tab, jobs, asked, faults, strayed>>

\* A failure that cannot be written is only logged.
FailureLost ==
  /\ run.pc = "failed" /\ faults < MaxFaults
  /\ faults' = faults + 1
  /\ run' = Resting
  /\ UNCHANGED <<upload, status, content, old, tab, jobs, asked, strayed>>

\* The worker dies; its job is handed out again later.
Crash ==
  /\ run.pc # "idle" /\ faults < MaxFaults
  /\ faults' = faults + 1
  /\ jobs' = Enqueued(run.id, run.rev)
  /\ run' = Resting
  /\ UNCHANGED <<upload, status, content, old, tab, asked, strayed>>

\* The visibility timeout passes while the run is still at work.
VisibilityExpires ==
  /\ run.pc # "idle" /\ jobs[run.id][run.rev] < MaxJobs
  /\ jobs' = Enqueued(run.id, run.rev)
  /\ UNCHANGED <<upload, status, content, old, tab, run, asked, faults,
                 strayed>>

LoseJob(i, r) ==
  /\ jobs[i][r] > 0 /\ faults < MaxFaults
  /\ faults' = faults + 1
  /\ jobs' = [jobs EXCEPT ![i][r] = @ - 1]
  /\ UNCHANGED <<upload, status, content, old, tab, run, asked, strayed>>

-----------------------------------------------------------------------------
(* The clock and sweepSyllabusExtractions.                                 *)

GrowsOld ==
  /\ exists /\ status = "EXTRACTING" /\ ~old
  /\ old' = TRUE
  /\ UNCHANGED <<upload, status, content, tab, jobs, run, asked, faults,
                 strayed>>

\* Slip: abandoned uploads swept, dead extractions left.
StalePending == exists /\ status = "PENDING_UPLOAD" /\ old
Stale == exists /\ status = "EXTRACTING" /\ old

FailStale ==
  /\ Stale
  /\ Write("FAILED")
  /\ UNCHANGED <<upload, content, tab, jobs, run, asked, faults, strayed>>

-----------------------------------------------------------------------------
Teach(t) ==
  \/ BeginUpload(t) \/ WriteKey(t) \/ AskPages(t) \/ ReadComplete(t)
  \/ ClaimUpload(t)
  \/ ReadRetry(t) \/ ClaimRetry(t)
  \/ Enqueue(t) \/ EnqueueThrows(t) \/ MarkNotQueued(t) \/ TabCloses(t)
Work ==
  \/ \E i \in Ids, r \in Revisions : TakeJob(i, r) \/ LoseJob(i, r)
  \/ WriteResult \/ ExtractionThrows \/ WriteFailure \/ FailureLost
  \/ Crash \/ VisibilityExpires

Next == \/ \E t \in Tabs : Teach(t)
        \/ Edit \/ Delete \/ Work \/ GrowsOld \/ FailStale

Spec == Init /\ [][Next]_vars

(* Time passes, and the sweep runs every five minutes.                     *)
FairSpec == Spec /\ WF_vars(GrowsOld) /\ WF_vars(FailStale)

-----------------------------------------------------------------------------
(* Properties.                                                             *)

\* Every variable keeps its type, a run at work names a row that was made, and
\* only a finalized upload is being extracted.
TypeOK ==
  /\ exists \in BOOLEAN /\ id \in Ids /\ status \in Status
  /\ revision \in Revisions /\ pending \in Revisions
  /\ source \in Revisions /\ file \in Revisions
  /\ content \in Content /\ old \in BOOLEAN
  /\ tab \in [Tabs -> Tab]
  /\ jobs \in [Ids -> [Revisions -> 0..MaxJobs]]
  /\ run \in Run /\ run.id <= id
  /\ status = "EXTRACTING" => source # 0
  /\ asked \in BOOLEAN /\ strayed \in BOOLEAN /\ faults \in 0..MaxFaults

\* A syllabus shown as READY is what was extracted from the upload finalized
\* last, or what the teacher made of it: the result of a superseded revision,
\* or of a row deleted since, is dropped.
ReadyIsCurrent ==
  exists /\ status = "READY" =>
    \/ content.by = "teacher" /\ content.id = id
    \/ content = [by |-> "run", id |-> id, rev |-> source]

\* The PDF offered for download and the pages extracted come from one upload,
\* however two uploads begun at once interleave their key writes.  Revision
\* numbers start again with a new row: an upload that outlived its row and got
\* page keys of the next one is the exception.
FileIsSource == exists /\ ~strayed => file = source

\* An upload is finalized only while it is the newest one.
NewestUpload == [][source' # source /\ source' # 0 => source' = revision']_vars

\* "Not while an extraction runs: its result would silently replace the edit":
\* an edit is replaced only by an extraction asked for after it was saved.
EditOutlives ==
  [][content.by = "teacher" /\ content' # content
       => content'.by = "teacher" \/ ~exists' \/ asked]_vars

\* An extraction does not spin for ever, whatever dies on the way.
ExtractionSettles ==
  (exists /\ status = "EXTRACTING") ~> ~(exists /\ status = "EXTRACTING")
=============================================================================
