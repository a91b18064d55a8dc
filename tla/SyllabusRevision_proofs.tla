---------------------- MODULE SyllabusRevision_proofs ----------------------
(***************************************************************************)
(* Theorems about SyllabusRevision for any number of overlapping requests, *)
(* rows, revisions, jobs and faults: its types, and that no superseded     *)
(* revision, file or result ever passes for the current one.               *)
(***************************************************************************)
EXTENDS SyllabusRevision, TLAPS

Counts == [Ids -> [Revisions -> 0..MaxJobs]]

\* The numbers of requests, revisions and rows run behind those of the row: a
\* row that exists has a revision, its source is one of its revisions, and a
\* request of this row names a revision that was begun.
Numbers ==
  /\ IF exists THEN revision > 0 ELSE revision = 0
  /\ source <= revision
  /\ \A t \in Tabs :
       /\ tab[t].id <= id
       /\ exists /\ tab[t].id = id => tab[t].rev <= revision
       /\ tab[t].pc = "retry" => tab[t].rev # 0

TypeInv == TypeOK /\ Numbers

-----------------------------------------------------------------------------
(* Types.                                                                  *)

\* A job more, for a row and a revision.
LEMMA EnqueuedType ==
  ASSUME jobs \in Counts, NEW i \in Ids, NEW r \in Revisions
  PROVE  Enqueued(i, r) \in Counts
BY BoundsAssumption DEF Counts, Enqueued

\* A job less, where there is one.
LEMMA TakenType ==
  ASSUME jobs \in Counts, NEW i \in Ids, NEW r \in Revisions, jobs[i][r] > 0
  PROVE  [jobs EXCEPT ![i][r] = @ - 1] \in Counts
<1>1. jobs[i][r] - 1 \in 0..MaxJobs
  BY BoundsAssumption DEF Counts
<1> QED
  BY <1>1 DEF Counts

\* The numbers at rest.
LEMMA ZeroType == 0 \in Ids /\ 0 \in Revisions
BY BoundsAssumption DEF Ids, Revisions

\* A closed request and a consumer at rest are states of their types.
LEMMA RestTypes == Closed \in Tab /\ Resting \in Run
BY ZeroType DEF Closed, Tab, Resting, Run

\* A request that moves on, or closes, keeps its type.
LEMMA TabType ==
  ASSUME tab \in [Tabs -> Tab], NEW t \in Tabs
  PROVE  /\ Close(t) => tab' \in [Tabs -> Tab]
         /\ \A pc \in {"idle", "key", "pages", "upload", "claim", "retry",
                       "enqueue", "mark"} :
              To(t, pc) => tab' \in [Tabs -> Tab]
<1>1. Close(t) => tab' \in [Tabs -> Tab]
  BY RestTypes DEF Close
<1>2. ASSUME NEW pc \in {"idle", "key", "pages", "upload", "claim", "retry",
                         "enqueue", "mark"}, To(t, pc)
      PROVE  tab' \in [Tabs -> Tab]
  <2>1. [tab[t] EXCEPT !.pc = pc] \in Tab
    BY DEF Tab
  <2> QED
    BY <1>2, <2>1 DEF To
<1> QED
  BY <1>1, <1>2

\* A step of a request keeps every type.
LEMMA TeachType ==
  ASSUME TypeInv, NEW t \in Tabs, Teach(t) PROVE TypeOK'
<1> USE DEF TypeInv, TypeOK, upload, Status
<1>1. CASE BeginUpload(t)
  <2>1. /\ id' \in Ids /\ revision' \in Revisions /\ exists' \in BOOLEAN
        /\ id <= id'
    <3>1. CASE exists
      <4>1. /\ exists' = exists /\ id' = id
            /\ revision < MaxRevision /\ revision' = revision + 1
        BY <1>1, <3>1 DEF BeginUpload
      <4> QED
        BY <4>1, BoundsAssumption DEF Ids, Revisions
    <3>2. CASE ~exists
      <4>1. exists' = TRUE /\ id < MaxRows /\ id' = id + 1 /\ revision' = 1
        BY <1>1, <3>2 DEF BeginUpload
      <4> QED
        BY <4>1, BoundsAssumption DEF Ids, Revisions
    <3> QED
      BY <3>1, <3>2
  <2>2. [pc |-> "key", id |-> id', rev |-> revision', key |-> 0] \in Tab
    BY <2>1, ZeroType DEF Tab
  <2>3. tab' \in [Tabs -> Tab]
    BY <1>1, <2>2 DEF BeginUpload
  <2>4. run'.id <= id'
    BY <1>1, <2>1 DEF BeginUpload, Run, Ids
  <2>5. /\ pending' = pending /\ source' = source /\ file' = file
        /\ content' = content
    BY <1>1 DEF BeginUpload
  <2> QED
    BY <1>1, <2>1, <2>3, <2>4, <2>5 DEF BeginUpload, Write
<1>2. CASE WriteKey(t)
  <2>1. tab[t].rev \in Revisions
    BY DEF Tab
  <2> QED
    BY <1>2, <2>1, TabType DEF WriteKey
<1>3. CASE AskPages(t)
  <2>1. CASE Awaited(t)
    <3>1. [tab[t] EXCEPT !.pc = "upload"] \in Tab
      BY DEF Tab
    <3>2. [[tab[t] EXCEPT !.pc = "upload"] EXCEPT !.id = id] \in Tab
      BY <3>1 DEF Tab
    <3>3. tab' = [tab EXCEPT ![t] = [[tab[t] EXCEPT !.pc = "upload"]
                                     EXCEPT !.id = id]]
      BY <1>3, <2>1 DEF AskPages
    <3>4. tab' \in [Tabs -> Tab]
      BY <3>2, <3>3
    <3> QED
      BY <1>3, <2>1, <3>4 DEF AskPages
  <2>2. CASE ~Awaited(t)
    BY <1>3, <2>2, TabType DEF AskPages
  <2> QED
    BY <2>1, <2>2
<1>4. CASE ReadComplete(t)
  <2>1. [tab[t] EXCEPT !.pc = "claim"] \in Tab
    BY DEF Tab
  <2>2. [[tab[t] EXCEPT !.pc = "claim"] EXCEPT !.key = pending] \in Tab
    BY <2>1 DEF Tab
  <2>3. \/ Close(t)
        \/ tab' = [tab EXCEPT ![t] = [[tab[t] EXCEPT !.pc = "claim"]
                                      EXCEPT !.key = pending]]
    BY <1>4 DEF ReadComplete
  <2>4. tab' \in [Tabs -> Tab]
    BY <2>2, <2>3, TabType
  <2> QED
    BY <1>4, <2>4 DEF ReadComplete
<1>5. CASE ClaimUpload(t)
  <2>1. /\ tab[t].rev \in Revisions /\ tab[t].key \in Revisions
        /\ 0 \in Revisions
    BY ZeroType DEF Tab
  <2>2. Finalizable(t) => tab[t].rev # 0
    BY DEF Finalizable, Same, Numbers
  <2> QED
    BY <1>5, <2>1, <2>2, TabType DEF ClaimUpload, Write
<1>6. CASE ReadRetry(t)
  <2>1. [pc |-> "retry", id |-> id, rev |-> source, key |-> 0] \in Tab
    BY ZeroType DEF Tab
  <2> QED
    BY <1>6, <2>1 DEF ReadRetry
<1>7. CASE ClaimRetry(t)
  <2>1. At(t, "retry") => tab[t].rev # 0
    BY DEF At, Numbers
  <2> QED
    BY <1>7, <2>1, TabType DEF ClaimRetry, Write
<1>8. CASE Enqueue(t)
  <2>1. tab[t].id \in Ids /\ tab[t].rev \in Revisions
    BY DEF Tab
  <2>2. jobs' \in Counts
    BY <1>8, <2>1, EnqueuedType DEF Enqueue, Counts
  <2> QED
    BY <1>8, <2>2, TabType DEF Enqueue, Counts
<1>9. CASE EnqueueThrows(t)
  BY <1>9, TabType, BoundsAssumption DEF EnqueueThrows
<1>10. CASE MarkNotQueued(t)
  BY <1>10, TabType DEF MarkNotQueued, Write
<1>11. CASE TabCloses(t)
  BY <1>11, TabType, BoundsAssumption DEF TabCloses
<1> QED
  BY <1>1, <1>2, <1>3, <1>4, <1>5, <1>6, <1>7, <1>8, <1>9, <1>10, <1>11
     DEF Teach

\* A step of the consumer and its queue keeps every type.
LEMMA WorkType ==
  ASSUME TypeInv, Work PROVE TypeOK'
<1> USE DEF TypeInv, TypeOK, upload, Status
<1>0. run.id \in Ids /\ run.rev \in Revisions /\ id \in Nat /\ 0 <= id
  BY DEF Run, Ids
<1>1. ASSUME NEW i \in Ids, NEW r \in Revisions, TakeJob(i, r)
      PROVE  TypeOK'
  <2>1. jobs' \in Counts
    BY <1>1, TakenType DEF TakeJob, Counts
  <2>2. [pc |-> "model", id |-> i, rev |-> r] \in Run
    BY DEF Run
  <2>3. Current(i, r) => i = id
    BY DEF Current, Same
  <2>4. run' \in Run /\ run'.id <= id
    BY <1>0, <1>1, <2>2, <2>3, RestTypes DEF TakeJob, Resting, Ids
  <2> QED
    BY <1>1, <2>1, <2>4 DEF TakeJob, Counts
<1>2. ASSUME NEW i \in Ids, NEW r \in Revisions, LoseJob(i, r)
      PROVE  TypeOK'
  <2>1. jobs' \in Counts
    BY <1>2, TakenType DEF LoseJob, Counts
  <2> QED
    BY <1>2, <2>1, BoundsAssumption DEF LoseJob, Counts
<1>3. CASE WriteResult
  <2>1. [by |-> "run", id |-> run.id, rev |-> run.rev] \in Content
    BY <1>0 DEF Content
  <2>2. Resting \in Run /\ Resting.id <= id
    BY <1>0, RestTypes DEF Resting
  <2> QED
    BY <1>3, <2>1, <2>2 DEF WriteResult, Write
<1>4. CASE ExtractionThrows
  <2>1. run' \in Run /\ run'.id = run.id
    BY <1>4 DEF ExtractionThrows, Run
  <2> QED
    BY <1>4, <2>1 DEF ExtractionThrows
<1>5. CASE WriteFailure
  <2>2. Resting \in Run /\ Resting.id <= id
    BY <1>0, RestTypes DEF Resting
  <2> QED
    BY <1>5, <2>2 DEF WriteFailure, Write
<1>6. CASE FailureLost
  <2>2. Resting \in Run /\ Resting.id <= id
    BY <1>0, RestTypes DEF Resting
  <2> QED
    BY <1>6, <2>2, BoundsAssumption DEF FailureLost
<1>7. CASE Crash
  <2>1. jobs' \in Counts
    BY <1>0, <1>7, EnqueuedType DEF Crash, Counts
  <2>2. Resting \in Run /\ Resting.id <= id
    BY <1>0, RestTypes DEF Resting
  <2> QED
    BY <1>7, <2>1, <2>2, BoundsAssumption DEF Crash, Counts
<1>8. CASE VisibilityExpires
  <2>1. jobs' \in Counts
    BY <1>0, <1>8, EnqueuedType DEF VisibilityExpires, Counts
  <2> QED
    BY <1>8, <2>1 DEF VisibilityExpires, Counts
<1> QED
  BY <1>1, <1>2, <1>3, <1>4, <1>5, <1>6, <1>7, <1>8 DEF Work

\* So does any other step.
LEMMA OtherType ==
  ASSUME TypeInv, Edit \/ Delete \/ GrowsOld \/ FailStale PROVE TypeOK'
<1> USE DEF TypeInv, TypeOK, upload, Status
<1>1. CASE Edit
  <2>1. [by |-> "teacher", id |-> id, rev |-> 0] \in Content
    BY ZeroType DEF Content
  <2> QED
    BY <1>1, <2>1 DEF Edit
<1>2. CASE Delete
  <2>1. Nothing \in Content /\ 0 \in Revisions
    BY ZeroType DEF Content, Nothing
  <2> QED
    BY <1>2, <2>1 DEF Delete, Write
<1>3. CASE GrowsOld
  BY <1>3 DEF GrowsOld
<1>4. CASE FailStale
  BY <1>4 DEF FailStale, Write
<1> QED
  BY <1>1, <1>2, <1>3, <1>4

-----------------------------------------------------------------------------
(* The numbers.                                                            *)

\* What the numbers need of one request.
Numbered(t) ==
  /\ tab[t].id <= id
  /\ exists /\ tab[t].id = id => tab[t].rev <= revision
  /\ tab[t].pc = "retry" => tab[t].rev # 0

\* A step of a request leaves the others' states alone, and moves its own.
LEMMA OthersKeep ==
  ASSUME NEW t \in Tabs, Teach(t), tab \in [Tabs -> Tab]
  PROVE  \A u \in Tabs \ {t} : tab'[u] = tab[u]
BY DEF Teach, BeginUpload, WriteKey, AskPages, ReadComplete, ClaimUpload,
       ReadRetry, ClaimRetry, Enqueue, EnqueueThrows, MarkNotQueued, TabCloses,
       Close, To

\* The row and its revision only grow under a request, and its source is set
\* to its revision.
LEMMA RowGrows ==
  ASSUME TypeInv, NEW t \in Tabs, Teach(t)
  PROVE  \/ /\ UNCHANGED <<exists, id, revision>>
            /\ source' = source \/ source' = revision
         \/ BeginUpload(t) /\ exists /\ exists' /\ id' = id
              /\ revision' = revision + 1 /\ source' = source
         \/ BeginUpload(t) /\ ~exists /\ exists' /\ id' = id + 1
              /\ revision' = 1 /\ source' = source
<1>1. CASE BeginUpload(t)
  BY <1>1 DEF BeginUpload, TypeInv, TypeOK
<1>2. CASE ClaimUpload(t)
  BY <1>2 DEF ClaimUpload, Finalizable
<1>3. CASE ~BeginUpload(t) /\ ~ClaimUpload(t)
  BY <1>3 DEF Teach, WriteKey, AskPages, ReadComplete, ReadRetry, ClaimRetry,
              Enqueue, EnqueueThrows, MarkNotQueued, TabCloses, upload
<1> QED
  BY <1>1, <1>2, <1>3

\* What a request that did not begin an upload is left with.
LEMMA OwnMove ==
  ASSUME TypeInv, NEW t \in Tabs, Teach(t), ~BeginUpload(t)
  PROVE  \/ tab'[t] = Closed
         \/ /\ tab'[t].id \in {tab[t].id, id} /\ tab'[t].rev = tab[t].rev
            /\ tab'[t].pc # "retry"
            /\ tab'[t].id = tab[t].id \/ revision = tab[t].rev
         \/ /\ tab'[t].id = id /\ tab'[t].rev = source /\ source # 0
<1> USE DEF TypeInv, TypeOK, Tab, At, Close, To
<1>1. CASE WriteKey(t)
  BY <1>1 DEF WriteKey
<1>2. CASE AskPages(t)
  BY <1>2 DEF AskPages, Awaited
<1>3. CASE ReadComplete(t)
  BY <1>3 DEF ReadComplete, Awaited
<1>4. CASE ClaimUpload(t)
  BY <1>4 DEF ClaimUpload
<1>5. CASE ReadRetry(t)
  BY <1>5 DEF ReadRetry, Retriable
<1>6. CASE ClaimRetry(t)
  BY <1>6 DEF ClaimRetry
<1>7. CASE Enqueue(t) \/ EnqueueThrows(t) \/ MarkNotQueued(t) \/ TabCloses(t)
  BY <1>7 DEF Enqueue, EnqueueThrows, MarkNotQueued, TabCloses
<1> QED
  BY <1>1, <1>2, <1>3, <1>4, <1>5, <1>6, <1>7 DEF Teach

\* Rows and revisions are natural numbers.
LEMMA Naturally ==
  ASSUME TypeInv
  PROVE  /\ id \in Nat /\ revision \in Nat /\ source \in Nat /\ pending \in Nat
         /\ tab \in [Tabs -> Tab]
         /\ \A u \in Tabs : tab[u].id \in Nat /\ tab[u].rev \in Nat
<1>1. /\ id \in Nat /\ revision \in Nat /\ source \in Nat /\ pending \in Nat
      /\ tab \in [Tabs -> Tab]
  BY DEF TypeInv, TypeOK, Ids, Revisions
<1>2. ASSUME NEW u \in Tabs PROVE tab[u].id \in Nat /\ tab[u].rev \in Nat
  BY <1>1 DEF Tab, Ids, Revisions
<1> QED
  BY <1>1, <1>2

\* A step of a request keeps the numbers in order.
LEMMA TeachNumbers ==
  ASSUME TypeInv, NEW t \in Tabs, Teach(t) PROVE Numbers'
<1>0. /\ id \in Nat /\ revision \in Nat /\ source \in Nat
      /\ tab \in [Tabs -> Tab]
      /\ \A u \in Tabs : tab[u].id \in Nat /\ tab[u].rev \in Nat
  BY Naturally
<1>1. /\ IF exists THEN revision > 0 ELSE revision = 0
      /\ source <= revision
      /\ \A u \in Tabs : Numbered(u)
  BY DEF TypeInv, Numbers, Numbered
<1>2. /\ IF exists' THEN revision' > 0 ELSE revision' = 0
      /\ source' <= revision'
  BY <1>0, <1>1, RowGrows
<1>3. ASSUME NEW u \in Tabs \ {t} PROVE Numbered(u)'
  <2>1. tab'[u] = tab[u]
    BY <1>0, OthersKeep
  <2>2. Numbered(u)
    BY <1>1
  <2> QED
    BY <1>0, <2>1, <2>2, RowGrows DEF Numbered
<1>4. Numbered(t)'
  <2>1. CASE BeginUpload(t)
    <3>1. tab'[t] = [pc |-> "key", id |-> id', rev |-> revision', key |-> 0]
      BY <1>0, <2>1 DEF BeginUpload
    <3>2. id' \in Nat /\ revision' \in Nat
      BY <1>0, RowGrows
    <3> QED
      BY <3>1, <3>2 DEF Numbered
  <2>2. CASE ~BeginUpload(t)
    <3>1. UNCHANGED <<exists, id, revision>>
      BY <2>2, RowGrows
    <3> QED
      BY <1>0, <1>1, <2>2, <3>1, OwnMove DEF Numbered, Closed
  <2> QED
    BY <2>1, <2>2
<1> QED
  BY <1>2, <1>3, <1>4 DEF Numbers, Numbered

\* So does any other step.
LEMMA OtherNumbers ==
  ASSUME TypeInv, Work \/ Edit \/ Delete \/ GrowsOld \/ FailStale
  PROVE  Numbers'
<1>1. CASE Delete
  BY <1>1 DEF Delete, TypeInv, Numbers
<1>2. CASE ~Delete
  <2>1. UNCHANGED <<exists, id, revision, source, tab>>
    BY <1>2 DEF Work, TakeJob, LoseJob, WriteResult, ExtractionThrows,
                WriteFailure, FailureLost, Crash, VisibilityExpires, Edit,
                GrowsOld, FailStale, upload
  <2> QED
    BY <2>1 DEF TypeInv, Numbers
<1> QED
  BY <1>1, <1>2

LEMMA InitTypes == Init => TypeInv
<1> SUFFICES ASSUME Init PROVE TypeInv
  OBVIOUS
<1>1. jobs \in Counts
  BY BoundsAssumption DEF Init, Counts
<1>2. Nothing \in Content
  BY ZeroType DEF Nothing, Content
<1>3. TypeOK
  <2>1. /\ exists \in BOOLEAN /\ id \in Ids /\ status \in Status
        /\ revision \in Revisions /\ pending \in Revisions
        /\ source \in Revisions /\ file \in Revisions
        /\ content \in Content /\ old \in BOOLEAN
    BY <1>2, ZeroType DEF Init, Status
  <2>2. tab \in [Tabs -> Tab]
    BY RestTypes DEF Init
  <2>3. run \in Run /\ run.id <= id
    <3>1. run = Resting /\ run.id = 0 /\ id = 0
      BY DEF Init, Resting
    <3>2. run \in Run
      BY <3>1, RestTypes
    <3> QED
      BY <3>1, <3>2
  <2>4. asked \in BOOLEAN /\ strayed \in BOOLEAN /\ faults \in 0..MaxFaults
    <3>1. 0 \in 0..MaxFaults
      BY BoundsAssumption
    <3> QED
      BY <3>1 DEF Init
  <2>5. status = "EXTRACTING" => source # 0
    BY DEF Init
  <2> QED
    BY <1>1, <2>1, <2>2, <2>3, <2>4, <2>5 DEF TypeOK, Counts
<1>4. Numbers
  BY DEF Init, Numbers, Closed
<1> QED
  BY <1>3, <1>4 DEF TypeInv

LEMMA StepTypes == TypeInv /\ [Next]_vars => TypeInv'
<1> SUFFICES ASSUME TypeInv, [Next]_vars PROVE TypeInv'
  OBVIOUS
<1>1. ASSUME NEW t \in Tabs, Teach(t) PROVE TypeInv'
  BY <1>1, TeachType, TeachNumbers DEF TypeInv
<1>2. CASE Work \/ Edit \/ Delete \/ GrowsOld \/ FailStale
  BY <1>2, WorkType, OtherType, OtherNumbers DEF TypeInv
<1>3. CASE UNCHANGED vars
  BY <1>3 DEF TypeInv, TypeOK, Numbers, vars
<1> QED
  BY <1>1, <1>2, <1>3 DEF Next

LEMMA TypesHold == Spec => []TypeInv
BY InitTypes, StepTypes, PTL DEF Spec

\* Every variable keeps its type, and only a finalized upload of a row that was
\* made is ever extracted, for any requests and bounds.
THEOREM TypeCorrect == Spec => []TypeOK
<1>1. TypeInv => TypeOK
  BY DEF TypeInv
<1> QED
  BY <1>1, TypesHold, PTL

-----------------------------------------------------------------------------
(* The current result.                                                     *)

\* A run writes READY only for the row and the source that it was asked for;
\* whatever moves the source away from a result takes READY away as well.
LEMMA StepCurrent ==
  ASSUME TypeInv, ReadyIsCurrent, [Next]_vars PROVE ReadyIsCurrent'
<1> USE DEF ReadyIsCurrent, upload
<1>1. ASSUME NEW t \in Tabs, Teach(t) PROVE ReadyIsCurrent'
  <2>1. CASE BeginUpload(t)
    BY <2>1 DEF BeginUpload, Write
  <2>2. CASE ClaimUpload(t)
    BY <2>2 DEF ClaimUpload, Write
  <2>3. CASE ClaimRetry(t)
    BY <2>3 DEF ClaimRetry, Write
  <2>4. CASE MarkNotQueued(t)
    BY <2>4 DEF MarkNotQueued, Write
  <2>5. CASE \/ WriteKey(t) \/ AskPages(t) \/ ReadComplete(t) \/ ReadRetry(t)
             \/ Enqueue(t) \/ EnqueueThrows(t) \/ TabCloses(t)
    BY <2>5 DEF WriteKey, AskPages, ReadComplete, ReadRetry, Enqueue,
                EnqueueThrows, TabCloses
  <2> QED
    BY <1>1, <2>1, <2>2, <2>3, <2>4, <2>5 DEF Teach
<1>2. CASE Work
  <2>1. CASE WriteResult
    BY <2>1 DEF WriteResult, Write, Current, Same
  <2>2. CASE WriteFailure
    BY <2>2 DEF WriteFailure, Write
  <2>3. CASE ~WriteResult /\ ~WriteFailure
    BY <1>2, <2>3 DEF Work, TakeJob, LoseJob, ExtractionThrows, FailureLost,
                      Crash, VisibilityExpires
  <2> QED
    BY <2>1, <2>2, <2>3
<1>3. CASE Edit
  BY <1>3 DEF Edit
<1>4. CASE Delete
  BY <1>4 DEF Delete
<1>5. CASE GrowsOld \/ FailStale
  BY <1>5 DEF GrowsOld, FailStale, Write
<1>6. CASE UNCHANGED vars
  BY <1>6 DEF vars
<1> QED
  BY <1>1, <1>2, <1>3, <1>4, <1>5, <1>6 DEF Next

\* A syllabus shown as READY is the result for its current source, or the
\* teacher's own, however many uploads, retries and redelivered jobs overlap.
THEOREM CurrentResult == Spec => []ReadyIsCurrent
<1>1. Init => ReadyIsCurrent
  BY DEF Init, ReadyIsCurrent
<1>2. TypeInv /\ ReadyIsCurrent /\ [Next]_vars => ReadyIsCurrent'
  BY StepCurrent
<1> QED
  BY <1>1, <1>2, TypesHold, PTL DEF Spec

-----------------------------------------------------------------------------
(* The file and its pages.                                                 *)

\* The pending key and the key that a claim carries are those of the newest
\* upload, once the request that began it has written them.
Keys ==
  exists /\ ~strayed =>
    \A t \in Tabs :
      tab[t].id = id /\ tab[t].rev = revision =>
        /\ tab[t].pc \in {"pages", "upload"} => pending \in {0, revision}
        /\ tab[t].pc = "claim" => tab[t].key = revision

LEMMA TeachKeys ==
  ASSUME TypeInv, TypeInv', Keys, NEW t \in Tabs, Teach(t) PROVE Keys'
<1>0. /\ id \in Nat /\ revision \in Nat /\ tab \in [Tabs -> Tab]
      /\ \A u \in Tabs : /\ tab[u].id \in Nat /\ tab[u].rev \in Nat
                         /\ tab[u].id <= id
                         /\ exists /\ tab[u].id = id => tab[u].rev <= revision
  BY Naturally DEF TypeInv, Numbers
<1> SUFFICES ASSUME exists', ~strayed', NEW u \in Tabs,
                    tab'[u].id = id', tab'[u].rev = revision'
             PROVE  /\ tab'[u].pc \in {"pages", "upload"}
                         => pending' \in {0, revision'}
                    /\ tab'[u].pc = "claim" => tab'[u].key = revision'
  BY DEF Keys
<1>1. CASE BeginUpload(t)
  <2>1. ASSUME u # t PROVE FALSE
    <3>1. tab'[u] = tab[u]
      BY <1>0, <2>1, OthersKeep
    <3>2. \/ exists /\ id' = id /\ revision' = revision + 1
          \/ id' = id + 1
      BY <1>1 DEF BeginUpload
    <3> QED
      BY <1>0, <3>1, <3>2
  <2> QED
    BY <1>0, <1>1, <2>1 DEF BeginUpload
<1>2. CASE WriteKey(t)
  <2>1. UNCHANGED <<exists, id, revision, strayed>>
    BY <1>2 DEF WriteKey
  <2>2. tab'[t].id = tab[t].id /\ tab'[t].rev = tab[t].rev
        /\ tab'[t].pc = "pages"
    BY <1>0, <1>2 DEF WriteKey, To, Tab
  <2>3. CASE u = t
    BY <1>2, <2>1, <2>2, <2>3 DEF WriteKey, KeyWanted, Same
  <2>4. CASE u # t
    BY <1>0, <1>2, <2>1, <2>4, OthersKeep DEF WriteKey, KeyWanted, Keys
  <2> QED
    BY <2>3, <2>4
<1>3. CASE AskPages(t)
  <2>1. UNCHANGED <<exists, id, revision, pending>>
    BY <1>3 DEF AskPages, upload
  <2>2. CASE u = t
    <3>1. CASE Awaited(t)
      <4>1. tab[t].id = id /\ ~strayed
        BY <1>3, <3>1 DEF AskPages
      <4>2. tab'[t].pc = "upload"
        BY <1>0, <1>3, <3>1 DEF AskPages, Tab
      <4> QED
        BY <1>3, <2>1, <2>2, <3>1, <4>1, <4>2 DEF Keys, Awaited, AskPages, At
    <3>2. CASE ~Awaited(t)
      BY <1>0, <1>3, <2>2, <3>2 DEF AskPages, Close, Closed
    <3> QED
      BY <3>1, <3>2
  <2>3. CASE u # t
    <3>1. ~strayed
      BY <1>3 DEF AskPages
    <3> QED
      BY <1>0, <2>1, <2>3, <3>1, OthersKeep DEF Keys
  <2> QED
    BY <2>2, <2>3
<1>4. CASE ReadComplete(t)
  <2>1. UNCHANGED <<exists, id, revision, pending, strayed>>
    BY <1>4 DEF ReadComplete, upload
  <2>2. CASE u = t
    <3>1. CASE Awaited(t) /\ pending # 0 /\ tab[t].id = id
      <4>1. tab'[t].pc = "claim" /\ tab'[t].key = pending
        BY <1>0, <1>4, <3>1 DEF ReadComplete, Tab
      <4>2. tab[t].pc = "upload" /\ tab[t].rev = revision
        BY <1>4, <3>1 DEF ReadComplete, At, Awaited
      <4> QED
        BY <2>1, <2>2, <3>1, <4>1, <4>2 DEF Keys
    <3>2. CASE ~(Awaited(t) /\ pending # 0 /\ tab[t].id = id)
      BY <1>0, <1>4, <2>2, <3>2 DEF ReadComplete, Close, Closed
    <3> QED
      BY <3>1, <3>2
  <2>3. CASE u # t
    BY <1>0, <2>1, <2>3, OthersKeep DEF Keys
  <2> QED
    BY <2>2, <2>3
<1>5. CASE ClaimUpload(t)
  <2>1. UNCHANGED <<exists, id, revision, strayed>> /\ pending' \in {0, pending}
    BY <1>5 DEF ClaimUpload
  <2>2. CASE u = t
    BY <1>0, <1>5, <2>2 DEF ClaimUpload, Close, Closed, To, Tab
  <2>3. CASE u # t
    BY <1>0, <2>1, <2>3, OthersKeep DEF Keys
  <2> QED
    BY <2>2, <2>3
<1>6. CASE \/ ReadRetry(t) \/ ClaimRetry(t) \/ Enqueue(t) \/ EnqueueThrows(t)
           \/ MarkNotQueued(t) \/ TabCloses(t)
  <2>1. UNCHANGED <<exists, id, revision, pending, strayed>>
    BY <1>6 DEF ReadRetry, ClaimRetry, Enqueue, EnqueueThrows, MarkNotQueued,
                TabCloses, upload
  <2>2. tab'[t].pc \in {"idle", "retry", "enqueue", "mark"}
    BY <1>0, <1>6 DEF ReadRetry, ClaimRetry, Enqueue, EnqueueThrows,
                      MarkNotQueued, TabCloses, Close, Closed, To, Tab
  <2>3. CASE u # t
    BY <1>0, <2>1, <2>3, OthersKeep DEF Keys
  <2> QED
    BY <2>2, <2>3
<1> QED
  BY <1>1, <1>2, <1>3, <1>4, <1>5, <1>6 DEF Teach

LEMMA StepKeys == TypeInv /\ Keys /\ [Next]_vars => Keys'
<1> SUFFICES ASSUME TypeInv, Keys, [Next]_vars PROVE Keys'
  OBVIOUS
<1>1. ASSUME NEW t \in Tabs, Teach(t) PROVE Keys'
  BY <1>1, TeachKeys, StepTypes DEF Next
<1>2. CASE Delete
  BY <1>2 DEF Delete, Keys
<1>3. CASE Work \/ Edit \/ GrowsOld \/ FailStale
  BY <1>3 DEF Work, TakeJob, LoseJob, WriteResult, ExtractionThrows,
              WriteFailure, FailureLost, Crash, VisibilityExpires, Edit,
              GrowsOld, FailStale, upload, Keys
<1>4. CASE UNCHANGED vars
  BY <1>4 DEF vars, Keys
<1> QED
  BY <1>1, <1>2, <1>3, <1>4 DEF Next

\* Where no row is, there is no source and no file either.
FileInv == FileIsSource /\ (~exists => source = 0 /\ file = 0)

LEMMA StepFile == TypeInv /\ Keys /\ FileInv /\ [Next]_vars => FileInv'
<1> SUFFICES ASSUME TypeInv, Keys, FileInv, [Next]_vars PROVE FileInv'
  OBVIOUS
<1>1. ASSUME NEW t \in Tabs, ClaimUpload(t) PROVE FileInv'
  <2>1. CASE Finalizable(t)
    <3>1. /\ source' = tab[t].rev /\ file' = tab[t].key
          /\ UNCHANGED <<exists, strayed>>
      BY <1>1, <2>1 DEF ClaimUpload
    <3>2. /\ exists /\ tab[t].id = id /\ tab[t].rev = revision
          /\ tab[t].pc = "claim"
      BY <1>1, <2>1 DEF ClaimUpload, Finalizable, Same, At
    <3> QED
      BY <3>1, <3>2 DEF Keys, FileInv, FileIsSource
  <2>2. CASE ~Finalizable(t)
    <3>1. UNCHANGED <<exists, source, file, strayed>>
      BY <1>1, <2>2 DEF ClaimUpload
    <3> QED
      BY <3>1 DEF FileInv, FileIsSource
  <2> QED
    BY <2>1, <2>2
<1>2. ASSUME NEW t \in Tabs, Teach(t), ~ClaimUpload(t) PROVE FileInv'
  <2>1. UNCHANGED <<source, file>>
    <3>1. CASE BeginUpload(t)
      BY <3>1 DEF BeginUpload
    <3>2. CASE ~BeginUpload(t)
      BY <1>2, <3>2 DEF Teach, WriteKey, AskPages, ReadComplete, ReadRetry,
                        ClaimRetry, Enqueue, EnqueueThrows, MarkNotQueued,
                        TabCloses, upload
    <3> QED
      BY <3>1, <3>2
  <2>2. ~strayed' => ~strayed
    BY <1>2 DEF Teach, BeginUpload, WriteKey, AskPages, ReadComplete, ReadRetry,
                ClaimRetry, Enqueue, EnqueueThrows, MarkNotQueued, TabCloses
  <2> QED
    BY <1>2, <2>1, <2>2, RowGrows DEF FileInv, FileIsSource
<1>3. CASE Delete
  BY <1>3 DEF Delete, FileInv, FileIsSource
<1>4. CASE Work \/ Edit \/ GrowsOld \/ FailStale
  BY <1>4 DEF Work, TakeJob, LoseJob, WriteResult, ExtractionThrows,
              WriteFailure, FailureLost, Crash, VisibilityExpires, Edit,
              GrowsOld, FailStale, upload, FileInv, FileIsSource
<1>5. CASE UNCHANGED vars
  BY <1>5 DEF vars, FileInv, FileIsSource
<1> QED
  BY <1>1, <1>2, <1>3, <1>4, <1>5 DEF Next

\* The PDF offered for download is the one whose pages were extracted, except
\* after an upload that outlived its row, however key writes interleave.
THEOREM OneUpload == Spec => []FileIsSource
<1>1. Init => Keys /\ FileInv
  BY DEF Init, Keys, FileInv, FileIsSource
<1>2. TypeInv /\ Keys /\ FileInv /\ [Next]_vars => Keys' /\ FileInv'
  BY StepKeys, StepFile
<1>3. FileInv => FileIsSource
  BY DEF FileInv
<1> QED
  BY <1>1, <1>2, <1>3, TypesHold, PTL DEF Spec

-----------------------------------------------------------------------------
(* What a step may never do.                                               *)

\* Only the newest upload of the row becomes its source.
THEOREM NewestOnly == Spec => NewestUpload
<1>1. TypeInv /\ [Next]_vars =>
        [source' # source /\ source' # 0 => source' = revision']_vars
  <2> SUFFICES ASSUME TypeInv, [Next]_vars, source' # source, source' # 0
               PROVE  source' = revision'
    OBVIOUS
  <2>1. ASSUME NEW t \in Tabs, Teach(t) PROVE source' = revision'
    BY <2>1, RowGrows
  <2>2. CASE Delete
    BY <2>2 DEF Delete
  <2>3. CASE Work \/ Edit \/ GrowsOld \/ FailStale
    BY <2>3 DEF Work, TakeJob, LoseJob, WriteResult, ExtractionThrows,
                WriteFailure, FailureLost, Crash, VisibilityExpires, Edit,
                GrowsOld, FailStale, upload
  <2> QED
    BY <2>1, <2>2, <2>3 DEF Next, vars
<1> QED
  BY <1>1, TypesHold, PTL DEF Spec, NewestUpload

\* An extraction in progress was asked for after the teacher's last edit.
AskedFor == exists /\ status = "EXTRACTING" => asked

LEMMA StepAsked == AskedFor /\ [Next]_vars => AskedFor'
<1> SUFFICES ASSUME AskedFor, [Next]_vars PROVE AskedFor'
  OBVIOUS
<1>1. ASSUME NEW t \in Tabs, Teach(t) PROVE AskedFor'
  <2>1. CASE BeginUpload(t)
    BY <2>1 DEF BeginUpload, Write, AskedFor
  <2>2. CASE ClaimUpload(t)
    BY <2>2 DEF ClaimUpload, Write, AskedFor
  <2>3. CASE ClaimRetry(t)
    BY <2>3 DEF ClaimRetry, Write, AskedFor, upload
  <2>4. CASE MarkNotQueued(t)
    BY <2>4 DEF MarkNotQueued, Write, AskedFor, upload
  <2>5. CASE \/ WriteKey(t) \/ AskPages(t) \/ ReadComplete(t) \/ ReadRetry(t)
             \/ Enqueue(t) \/ EnqueueThrows(t) \/ TabCloses(t)
    BY <2>5 DEF WriteKey, AskPages, ReadComplete, ReadRetry, Enqueue,
                EnqueueThrows, TabCloses, AskedFor, upload
  <2> QED
    BY <1>1, <2>1, <2>2, <2>3, <2>4, <2>5 DEF Teach
<1>2. CASE Work \/ GrowsOld \/ FailStale
  BY <1>2 DEF Work, TakeJob, LoseJob, WriteResult, ExtractionThrows,
              WriteFailure, FailureLost, Crash, VisibilityExpires, Write,
              GrowsOld, FailStale, upload, AskedFor
<1>3. CASE Edit
  BY <1>3 DEF Edit, Editable, AskedFor, upload
<1>4. CASE Delete
  BY <1>4 DEF Delete, AskedFor
<1>5. CASE UNCHANGED vars
  BY <1>5 DEF vars, AskedFor
<1> QED
  BY <1>1, <1>2, <1>3, <1>4, <1>5 DEF Next

\* A saved edit is replaced only by an extraction asked for after it, by another
\* edit, or with the whole row.
THEOREM EditKept == Spec => EditOutlives
<1>1. AskedFor /\ [Next]_vars =>
        [content.by = "teacher" /\ content' # content
           => content'.by = "teacher" \/ ~exists' \/ asked]_vars
  <2> SUFFICES ASSUME AskedFor, [Next]_vars, content' # content
               PROVE  content'.by = "teacher" \/ ~exists' \/ asked
    OBVIOUS
  <2>1. CASE WriteResult
    BY <2>1 DEF WriteResult, Current, Same, AskedFor
  <2>2. CASE Edit
    BY <2>2 DEF Edit
  <2>3. CASE Delete
    BY <2>3 DEF Delete
  <2>4. ASSUME NEW t \in Tabs, Teach(t) PROVE FALSE
    BY <2>4 DEF Teach, BeginUpload, WriteKey, AskPages, ReadComplete,
                ClaimUpload, ReadRetry, ClaimRetry, Enqueue, EnqueueThrows,
                MarkNotQueued, TabCloses
  <2>5. CASE (Work /\ ~WriteResult) \/ GrowsOld \/ FailStale
    BY <2>5 DEF Work, TakeJob, LoseJob, ExtractionThrows, WriteFailure,
                FailureLost, Crash, VisibilityExpires, GrowsOld, FailStale
  <2> QED
    BY <2>1, <2>2, <2>3, <2>4, <2>5 DEF Next, vars
<1>2. Init => AskedFor
  BY DEF Init, AskedFor
<1> QED
  BY <1>1, <1>2, StepAsked, PTL DEF Spec, EditOutlives
=============================================================================
