----------------------- MODULE QuizExtraction_proofs -----------------------
(***************************************************************************)
(* Theorems about QuizExtraction for any handlers, texts, crops and        *)
(* bounds: its types; that there is one paid run beyond the faults and,    *)
(* without faults, staged questions are not thrown back; and, until two    *)
(* are at work together, that a commit happens once, stays and keeps its   *)
(* figures.                                                                *)
(***************************************************************************)
EXTENDS QuizExtraction, FiniteSetTheorems, TLAPS

-----------------------------------------------------------------------------
(* Types.                                                                  *)

LEMMA IdleType == Idle \in Handler /\ Idle.pc = "idle"
<1>1. NoPayload \in [{} -> Crops]
  BY DEF NoPayload
<1>2. NoPayload \in Payload
  BY <1>1 DEF Payload
<1> QED
  BY <1>2 DEF Idle, Handler, HandlerPC

LEMMA MoveType ==
  ASSUME TypeOK, NEW h \in Handlers, NEW pc \in HandlerPC, Becomes(h, pc)
  PROVE  handler' \in [Handlers -> Handler]
BY DEF TypeOK, Becomes, Handler

LEMMA DoneType ==
  ASSUME TypeOK, NEW h \in Handlers, Done(h)
  PROVE  handler' \in [Handlers -> Handler]
BY IdleType DEF TypeOK, Done

LEMMA EnqueuedType ==
  ASSUME TypeOK PROVE Enqueued \in 0..MaxJobs
BY BoundsAssumption DEF TypeOK, Enqueued

\* Every update by id writes a status.
LEMMA UpdateType ==
  ASSUME NEW s \in Status PROVE Update(s) \in Status
BY DEF Update, Status

\* What a payload commits is a crop.
LEMMA PayloadType ==
  ASSUME NEW p \in Payload, NEW t \in DOMAIN p PROVE p[t] \in Crops
<1>1. PICK S \in SUBSET Texts : p \in [S -> Crops]
  BY DEF Payload
<1> QED
  BY <1>1

LEMMA StartType ==
  ASSUME TypeOK, NEW h \in Handlers, NEW kind \in DOMAIN Asks,
         NEW payload \in Payload, Start(h, kind, payload)
  PROVE  TypeOK'
<1>1. kind \in HandlerPC
  BY DEF Asks, HandlerPC
<1>2. [Idle EXCEPT !.pc = kind, !.payload = payload] \in Handler
  BY <1>1, IdleType DEF Handler
<1>3. handler' \in [Handlers -> Handler]
  BY <1>2 DEF Start, TypeOK
<1>4. overlapped' \in BOOLEAN
  BY DEF Start, Meet, TypeOK
<1>5. UNCHANGED <<status, objects, issued, minted, quiz, jobs, worker, gc,
                  faults>>
  BY DEF Start
<1> QED
  BY <1>3, <1>4, <1>5 DEF TypeOK, objects, quiz

LEMMA StepType ==
  ASSUME TypeOK, NEW h \in Handlers, Step(h)
  PROVE  TypeOK'
<1> USE DEF objects, quiz
<1>1. ASSUME NEW kind, NEW expected, ClaimFor(h, kind, expected)
      PROVE  TypeOK'
  <2>1. handler' \in [Handlers -> Handler]
    BY <1>1, MoveType, DoneType DEF ClaimFor, HandlerPC
  <2>2. status' \in Status
    BY <1>1 DEF ClaimFor, TypeOK, Status
  <2> QED
    BY <1>1, <2>1, <2>2 DEF ClaimFor, TypeOK
<1>2. CASE Enqueue(h)
  BY <1>2, DoneType, EnqueuedType DEF Enqueue, TypeOK
<1>3. CASE EnqueueThrows(h)
  BY <1>3, MoveType DEF EnqueueThrows, TypeOK, HandlerPC
<1>4. CASE MarkNotQueued(h)
  <2>1. status' \in Status
    BY <1>4, UpdateType DEF MarkNotQueued, Status
  <2> QED
    BY <1>4, <2>1, DoneType DEF MarkNotQueued, TypeOK
<1>5. ASSUME NEW keys \in SUBSET Crops, IssueCrops(h, keys) PROVE TypeOK'
  BY <1>5, DoneType DEF IssueCrops, TypeOK
<1>6. CASE VerifyCrops(h)
  <2>1. [handler[h] EXCEPT !.pc = "head", !.issued = issued] \in Handler
    <3>1. handler[h] \in Handler /\ issued \in SUBSET Crops
      BY DEF TypeOK
    <3> QED
      BY <3>1 DEF Handler, HandlerPC
  <2>2. CASE Done(h)
    BY <1>6, <2>2, DoneType DEF VerifyCrops, TypeOK
  <2>3. CASE handler' = [handler EXCEPT ![h] =
               [handler[h] EXCEPT !.pc = "head", !.issued = issued]]
    <3>1. handler' \in [Handlers -> Handler]
      BY <2>1, <2>3 DEF TypeOK
    <3> QED
      BY <1>6, <3>1 DEF VerifyCrops, TypeOK
  <2> QED
    BY <1>6, <2>2, <2>3 DEF VerifyCrops
<1>7. CASE HeadCrops(h)
  <2>1. handler' \in [Handlers -> Handler]
    BY <1>7, MoveType, DoneType DEF HeadCrops, HandlerPC
  <2> QED
    BY <1>7, <2>1 DEF HeadCrops, TypeOK
<1>8. CASE CommitQuestions(h)
  <2>1. handler' \in [Handlers -> Handler]
    BY <1>8, MoveType, DoneType DEF CommitQuestions, HandlerPC
  <2>2. question' \in [Texts -> Crops \cup {NoCrop}]
    <3>1. handler[h].payload \in Payload
      BY DEF TypeOK, Handler
    <3>2. \A t \in DOMAIN handler[h].payload : handler[h].payload[t] \in Crops
      BY <3>1, PayloadType
    <3> QED
      BY <1>8, <3>2 DEF CommitQuestions, TypeOK
  <2>3. imports' \in Nat /\ status' \in Status
    BY <1>8 DEF CommitQuestions, TypeOK, Status
  <2>4. UNCHANGED <<objects, issued, minted, jobs, worker, gc, faults,
                    overlapped>>
    BY <1>8 DEF CommitQuestions
  <2> QED
    BY <2>1, <2>2, <2>3, <2>4 DEF TypeOK
<1>9. ASSUME NEW kept \in SUBSET Crops, TidyS3(h, kept) PROVE TypeOK'
  <2>1. handler' \in [Handlers -> Handler]
    BY <1>9, MoveType, DoneType DEF TidyS3, HandlerPC
  <2>2. stored' \in SUBSET Crops /\ source' \in BOOLEAN
    BY <1>9 DEF TidyS3, TypeOK
  <2> QED
    BY <1>9, <2>1, <2>2 DEF TidyS3, TypeOK
<1>10. ASSUME NEW kept \in SUBSET Crops, DiscardS3(h, kept) PROVE TypeOK'
  <2>1. handler' \in [Handlers -> Handler]
    BY <1>10, MoveType DEF DiscardS3, HandlerPC
  <2>2. stored' \in SUBSET Crops /\ source' \in BOOLEAN
    BY <1>10 DEF DiscardS3, TypeOK
  <2> QED
    BY <1>10, <2>1, <2>2 DEF DiscardS3, TypeOK
<1>11. CASE TidyRows(h)
  BY <1>11, DoneType DEF TidyRows, TypeOK
<1>12. CASE DiscardRow(h)
  BY <1>12, DoneType DEF DiscardRow, TypeOK, Status
<1>13. CASE Abandon(h)
  BY <1>13, DoneType DEF Abandon, TypeOK
<1> QED
  BY <1>1, <1>2, <1>3, <1>4, <1>5, <1>6, <1>7, <1>8, <1>9, <1>10, <1>11,
     <1>12, <1>13 DEF Step, ClaimUpload, ClaimRetry

LEMMA WorkerType ==
  ASSUME TypeOK, Extract \/ WriteLost \/ Crash \/ VisibilityExpires
  PROVE  TypeOK'
<1> USE BoundsAssumption DEF objects, quiz
<1>1. /\ jobs' \in 0..MaxJobs /\ worker' \in {"idle", "run", "ack"}
      /\ faults' \in 0..MaxFaults
  BY EnqueuedType DEF Extract, TakeJob, AckJob, FinishRun, WriteLost, Crash,
     VisibilityExpires, TypeOK
<1>2. status' \in Status
  <2>1. CASE FinishRun("AWAITING_REVIEW") \/ FinishRun("FAILED")
    BY <2>1, UpdateType DEF FinishRun, Status
  <2> QED
    BY <2>1 DEF Extract, TakeJob, AckJob, WriteLost, Crash,
       VisibilityExpires, TypeOK
<1>3. UNCHANGED <<objects, issued, minted, quiz, handler, gc, overlapped>>
  BY DEF Extract, TakeJob, AckJob, FinishRun, WriteLost, Crash,
     VisibilityExpires
<1> QED
  BY <1>1, <1>2, <1>3 DEF TypeOK

LEMMA CollectType ==
  ASSUME TypeOK, Collect PROVE TypeOK'
<1> USE DEF objects, quiz
<1>1. gc' \in [pc : CollectorPC, keys : SUBSET Crops]
  BY DEF Collect, FindStale, StaleRow, DeleteDoomed, StaleS3, Reconcile,
         TypeOK, CollectorPC
<1>2. /\ stored' \in SUBSET Crops /\ source' \in BOOLEAN
      /\ issued' \in SUBSET Crops /\ overlapped' \in BOOLEAN
      /\ status' \in Status
  BY DEF Collect, FindStale, StaleRow, DeleteDoomed, StaleS3, Reconcile,
         TypeOK, Meet, Status
<1>3. UNCHANGED <<minted, quiz, handler, jobs, worker, faults>>
  BY DEF Collect, FindStale, StaleRow, DeleteDoomed, StaleS3, Reconcile
<1> QED
  BY <1>1, <1>2, <1>3 DEF TypeOK

LEMMA NextType == TypeOK /\ [Next]_vars => TypeOK'
<1> USE DEF objects, quiz
<1>1. TypeOK /\ UNCHANGED vars => TypeOK'
  BY DEF vars, TypeOK
<1>2. TypeOK /\ UploadSource => TypeOK'
  BY DEF UploadSource, TypeOK
<1>3. ASSUME TypeOK, NEW c \in Crops, UploadCrop(c) PROVE TypeOK'
  BY <1>3 DEF UploadCrop, TypeOK
<1> QED
  BY <1>1, <1>2, <1>3, StartType, StepType, WorkerType, CollectType DEF Next

\* Every variable of an extraction, of its requests, of the worker and of the
\* collector keeps its type.
THEOREM TypeCorrect == Spec => []TypeOK
<1>1. Init => TypeOK
  <2> SUFFICES ASSUME Init PROVE TypeOK
    OBVIOUS
  <2>1. handler \in [Handlers -> Handler]
    BY IdleType DEF Init
  <2>2. /\ question \in [Texts -> Crops \cup {NoCrop}] /\ imports \in Nat
        /\ status \in Status /\ source \in BOOLEAN /\ overlapped \in BOOLEAN
    BY DEF Init, Status
  <2>3. /\ issued \in SUBSET Crops /\ minted \in SUBSET Crops
        /\ stored \in SUBSET Crops
    BY DEF Init
  <2>4. /\ jobs \in 0..MaxJobs /\ faults \in 0..MaxFaults
        /\ worker \in {"idle", "run", "ack"}
    BY BoundsAssumption DEF Init
  <2>5. gc \in [pc : CollectorPC, keys : SUBSET Crops]
    BY DEF Init, CollectorPC
  <2> QED
    BY <2>1, <2>2, <2>3, <2>4, <2>5 DEF TypeOK
<1> QED
  BY <1>1, NextType, PTL DEF Spec

-----------------------------------------------------------------------------
(* One run.  The load is all that runs, will run or was meant to run.  The *)
(* compare-and-set to EXTRACTING adds one to it, from a status at which    *)
(* every older run is paid for by a fault; a run that ends, or a claim     *)
(* whose enqueue failed, leaves EXTRACTING and takes one off.  Two steps   *)
(* leave EXTRACTING without taking one off: a discard, after which nothing *)
(* claims, and a commit of staged questions which a late FAILED and a      *)
(* retry have overtaken.  Such a commit has seen one run end since the     *)
(* last claim it knows of, so the load is one lower while it is under way. *)

Claimers == {h \in Handlers : handler[h].pc \in {"enqueue", "notQueued"}}
Load == jobs + (IF worker = "run" THEN 1 ELSE 0) + Cardinality(Claimers)
CommitPC == {"verify", "head", "commit"}
Committing == \E h \in Handlers : handler[h].pc \in CommitPC
Limit == faults + (IF status \in {"EXTRACTING", "DELETED"} THEN 1 ELSE 0)
                - (IF status \in {"EXTRACTING", "FAILED"} /\ Committing
                   THEN 1 ELSE 0)
LoadInv == /\ Load <= Limit
           /\ status = "PENDING_UPLOAD" => ~Committing

LEMMA Numbers ==
  ASSUME TypeOK
  PROVE  /\ jobs \in Nat /\ faults \in Nat /\ MaxJobs \in Nat
         /\ IsFiniteSet(Claimers) /\ Cardinality(Claimers) \in Nat
<1>1. IsFiniteSet(Claimers)
  BY HandlersAssumption, FS_Subset DEF Claimers
<1> QED
  BY <1>1, FS_CardinalityType, BoundsAssumption DEF TypeOK

\* The handler h goes to pc: what that does to the claimers and commits.
LEMMA Moves ==
  ASSUME TypeOK, TypeOK', NEW h \in Handlers,
         \A g \in Handlers \ {h} : handler'[g] = handler[g]
  PROVE  /\ Cardinality(Claimers') = Cardinality(Claimers)
              + (IF h \in Claimers' THEN 1 ELSE 0)
              - (IF h \in Claimers THEN 1 ELSE 0)
         /\ (handler'[h].pc \in CommitPC => handler[h].pc \in CommitPC)
              => (Committing' => Committing)
<1>1. CASE h \in Claimers <=> h \in Claimers'
  <2>1. Claimers' = Claimers
    BY <1>1 DEF Claimers
  <2> QED
    BY <1>1, <2>1, Numbers DEF Committing
<1>2. CASE h \notin Claimers /\ h \in Claimers'
  <2>1. Claimers' = Claimers \cup {h}
    BY <1>2 DEF Claimers
  <2>2. Cardinality(Claimers') = Cardinality(Claimers) + 1
    BY <1>2, <2>1, Numbers, FS_AddElement
  <2> QED
    BY <1>2, <2>2, Numbers DEF Committing
<1>3. CASE h \in Claimers /\ h \notin Claimers'
  <2>1. Claimers' = Claimers \ {h}
    BY <1>3 DEF Claimers
  <2>2. Cardinality(Claimers') = Cardinality(Claimers) - 1
    BY <1>3, <2>1, Numbers, FS_RemoveElement
  <2> QED
    BY <1>3, <2>2, Numbers DEF Committing
<1> QED
  BY <1>1, <1>2, <1>3

\* A request that moves outside the claims changes nothing here, but that a
\* commit begins while the questions await their review.
LEMMA OtherMoves ==
  ASSUME TypeOK, TypeOK', LoadInv, NEW h \in Handlers,
         \A g \in Handlers \ {h} : handler'[g] = handler[g],
         UNCHANGED <<status, jobs, worker, faults>>,
         h \in Claimers' => h \in Claimers,
         \/ handler'[h].pc \in CommitPC => handler[h].pc \in CommitPC
         \/ status = "AWAITING_REVIEW"
  PROVE  LoadInv'
<1>1. Load' <= Load /\ Load \in Int /\ Load' \in Int
  BY Moves, Numbers DEF Load
<1>2. CASE status = "AWAITING_REVIEW"
  BY <1>1, <1>2, Numbers DEF LoadInv, Limit
<1>3. CASE handler'[h].pc \in CommitPC => handler[h].pc \in CommitPC
  <2>1. Committing' => Committing
    BY <1>3, Moves
  <2> QED
    BY <1>1, <2>1, Numbers DEF LoadInv, Limit
<1> QED
  BY <1>2, <1>3

\* A step that is no request's: the requests stay as they are.
LEMMA NoMove ==
  ASSUME TypeOK, TypeOK', UNCHANGED handler
  PROVE  Claimers' = Claimers /\ (Committing' <=> Committing)
BY DEF Claimers, Committing

LEMMA StartLoad ==
  ASSUME TypeOK, TypeOK', LoadInv, NEW h \in Handlers,
         NEW kind \in DOMAIN Asks, NEW payload \in Payload,
         Start(h, kind, payload)
  PROVE  LoadInv'
<1>1. /\ \A g \in Handlers \ {h} : handler'[g] = handler[g]
      /\ UNCHANGED <<status, jobs, worker, faults>>
      /\ handler'[h].pc = kind /\ status \in Asks[kind]
  BY IdleType DEF Start, TypeOK, Handler
<1>2. h \notin Claimers'
  BY <1>1 DEF Claimers, Asks
<1>3. kind \in CommitPC => status = "AWAITING_REVIEW"
  BY <1>1 DEF Asks, CommitPC
<1> QED
  BY <1>1, <1>2, <1>3, OtherMoves

LEMMA ClaimLoad ==
  ASSUME TypeOK, TypeOK', LoadInv, NEW h \in Handlers,
         ClaimUpload(h) \/ ClaimRetry(h)
  PROVE  LoadInv'
<1>1. PICK kind \in {"claimUpload", "claimRetry"},
           expected \in {"PENDING_UPLOAD", "FAILED"} :
             ClaimFor(h, kind, expected)
  BY DEF ClaimUpload, ClaimRetry
<1>2. /\ \A g \in Handlers \ {h} : handler'[g] = handler[g]
      /\ handler[h].pc = kind
      /\ handler'[h].pc = IF status = expected THEN "enqueue" ELSE "idle"
      /\ UNCHANGED <<jobs, worker, faults>>
      /\ status' = IF status = expected THEN "EXTRACTING" ELSE status
  BY <1>1, IdleType DEF ClaimFor, Becomes, Done, TypeOK, Handler
<1>3. h \notin Claimers /\ handler'[h].pc \notin CommitPC
  BY <1>2 DEF Claimers, CommitPC
<1>4. CASE status = expected
  <2>1. Load' = Load + 1 /\ (Committing' => Committing)
    BY <1>2, <1>3, <1>4, Moves, Numbers DEF Load, Claimers
  <2> QED
    BY <1>2, <1>4, <2>1, Numbers DEF LoadInv, Limit, Load
<1>5. CASE status # expected
  BY <1>2, <1>3, <1>5, OtherMoves DEF Claimers
<1> QED
  BY <1>4, <1>5

\* A claim is settled: by its job, or by the FAILED mark.
LEMMA QueueingLoad ==
  ASSUME TypeOK, TypeOK', LoadInv, NEW h \in Handlers,
         Enqueue(h) \/ EnqueueThrows(h) \/ MarkNotQueued(h)
  PROVE  LoadInv'
<1>1. /\ \A g \in Handlers \ {h} : handler'[g] = handler[g]
      /\ handler[h].pc \in {"enqueue", "notQueued"}
      /\ handler'[h].pc \in {"idle", "notQueued"}
      /\ UNCHANGED <<worker, faults>>
  BY IdleType DEF Enqueue, EnqueueThrows, MarkNotQueued, Becomes, Done,
     TypeOK, Handler
<1>2. h \in Claimers /\ (Committing' => Committing)
  BY <1>1, Moves DEF Claimers, CommitPC
<1>3. CASE EnqueueThrows(h)
  BY <1>1, <1>2, <1>3, OtherMoves DEF EnqueueThrows, CommitPC
<1>4. CASE Enqueue(h)
  <2>1. /\ jobs' \in Nat /\ jobs' <= jobs + 1
        /\ status' = status /\ h \notin Claimers'
    BY <1>4, IdleType, Numbers
       DEF Enqueue, Enqueued, Done, TypeOK, Claimers
  <2>2. Cardinality(Claimers') = Cardinality(Claimers) - 1
    BY <1>1, <1>2, <2>1, Moves, Numbers
  <2>3. Load' <= Load /\ Load \in Int /\ Load' \in Int
    BY <1>1, <2>1, <2>2, Numbers DEF Load
  <2> QED
    BY <1>1, <1>2, <2>1, <2>3, Numbers DEF LoadInv, Limit
<1>5. CASE MarkNotQueued(h)
  <2>1. /\ jobs' = jobs /\ h \notin Claimers'
        /\ status' = IF status = "DELETED" THEN "DELETED" ELSE "FAILED"
    BY <1>5, IdleType DEF MarkNotQueued, Done, TypeOK, Claimers, Update
  <2>2. Cardinality(Claimers') = Cardinality(Claimers) - 1
    BY <1>1, <1>2, <2>1, Moves, Numbers
  <2>3. Load' = Load - 1 /\ Load \in Int
    BY <1>1, <2>1, <2>2, Numbers DEF Load
  <2> QED
    BY <1>1, <1>2, <2>1, <2>3, Numbers DEF LoadInv, Limit
<1> QED
  BY <1>3, <1>4, <1>5

\* A request that leaves neither a claim nor, unless it goes on to commit,
\* enters one: it issues, checks, tidies or ends.
LEMMA QuietLoad ==
  ASSUME TypeOK, TypeOK', LoadInv, NEW h \in Handlers,
         \/ \E keys \in SUBSET Crops : IssueCrops(h, keys)
         \/ VerifyCrops(h) \/ HeadCrops(h)
         \/ \E kept \in SUBSET Crops : TidyS3(h, kept) \/ DiscardS3(h, kept)
         \/ TidyRows(h) \/ Abandon(h)
  PROVE  LoadInv'
<1>1. /\ \A g \in Handlers \ {h} : handler'[g] = handler[g]
      /\ UNCHANGED <<status, jobs, worker, faults>>
  BY DEF IssueCrops, VerifyCrops, HeadCrops, TidyS3, DiscardS3, TidyRows,
     Abandon, Becomes, Done, TypeOK
<1>2. /\ handler'[h].pc \notin {"enqueue", "notQueued"}
      /\ handler'[h].pc \in CommitPC => handler[h].pc \in CommitPC
  BY IdleType DEF IssueCrops, VerifyCrops, HeadCrops, TidyS3, DiscardS3,
     TidyRows, Abandon, Becomes, Done, TypeOK, Handler, CommitPC
<1> QED
  BY <1>1, <1>2, OtherMoves DEF Claimers

\* A commit takes nothing off the load: it was one lower all along.
LEMMA CommitLoad ==
  ASSUME TypeOK, TypeOK', LoadInv, NEW h \in Handlers, CommitQuestions(h)
  PROVE  LoadInv'
<1>1. /\ \A g \in Handlers \ {h} : handler'[g] = handler[g]
      /\ UNCHANGED <<jobs, worker, faults>>
      /\ handler[h].pc = "commit" /\ handler'[h].pc \in {"idle", "tidyS3"}
      /\ status' = IF status = "DELETED" THEN "DELETED" ELSE "COMMITTED"
  BY IdleType DEF CommitQuestions, Becomes, Done, TypeOK, Handler
<1>2. /\ Committing /\ h \notin Claimers /\ h \notin Claimers'
      /\ Committing' => Committing
  BY <1>1, Moves DEF Committing, Claimers, CommitPC
<1>3. Load' = Load /\ Load \in Int
  BY <1>1, <1>2, Moves, Numbers DEF Load
<1> QED
  BY <1>1, <1>2, <1>3, Numbers DEF LoadInv, Limit, TypeOK, Status

LEMMA DiscardLoad ==
  ASSUME TypeOK, TypeOK', LoadInv, NEW h \in Handlers, DiscardRow(h)
  PROVE  LoadInv'
<1>1. /\ \A g \in Handlers \ {h} : handler'[g] = handler[g]
      /\ UNCHANGED <<jobs, worker, faults>>
      /\ handler[h].pc = "discardRow" /\ handler'[h].pc = "idle"
      /\ status' = "DELETED"
  BY IdleType DEF DiscardRow, Done, TypeOK
<1>2. Load' = Load /\ Load \in Int
  BY <1>1, Moves, Numbers DEF Load, Claimers
<1> QED
  BY <1>1, <1>2, Numbers DEF LoadInv, Limit

\* The worker takes from the load, or a fault pays for what it adds.
LEMMA WorkerLoad ==
  ASSUME TypeOK, TypeOK', LoadInv,
         Extract \/ WriteLost \/ Crash \/ VisibilityExpires
  PROVE  LoadInv'
<1>1. /\ UNCHANGED handler /\ Claimers' = Claimers
      /\ Committing' <=> Committing
  BY NoMove DEF Extract, TakeJob, AckJob, FinishRun, WriteLost, Crash,
     VisibilityExpires
<1>2. jobs' \in Nat /\ Enqueued \in Nat /\ Enqueued <= jobs + 1
  BY Numbers, EnqueuedType DEF TypeOK, Enqueued
<1>3. Load \in Int /\ Load' \in Int
  BY <1>1, <1>2, Numbers DEF Load
<1>4. CASE TakeJob
  <2>1. Load' <= Load /\ UNCHANGED <<status, faults>>
    BY <1>1, <1>4, Numbers DEF TakeJob, Load
  <2> QED
    BY <1>1, <1>3, <2>1, Numbers DEF LoadInv, Limit
<1>5. CASE AckJob
  <2>1. Load' = Load /\ UNCHANGED <<status, faults>>
    BY <1>1, <1>5, Numbers DEF AckJob, Load
  <2> QED
    BY <1>1, <1>3, <2>1, Numbers DEF LoadInv, Limit
<1>6. CASE FinishRun("AWAITING_REVIEW") \/ FinishRun("FAILED")
  <2>1. Load' = Load - 1 /\ faults' = faults
    BY <1>1, <1>6, Numbers DEF FinishRun, Load
  <2>2. \/ status = "DELETED" /\ status' = "DELETED"
        \/ status # "DELETED" /\ status' \in {"AWAITING_REVIEW", "FAILED"}
    BY <1>6 DEF FinishRun, Update
  <2> QED
    BY <1>1, <1>3, <2>1, <2>2, Numbers DEF LoadInv, Limit
<1>7. CASE WriteLost \/ Crash \/ VisibilityExpires
  <2>1. /\ faults' = faults + 1 /\ status' = status
        /\ jobs' + (IF worker' = "run" THEN 1 ELSE 0)
             <= jobs + (IF worker = "run" THEN 1 ELSE 0) + 1
    <3>1. CASE WriteLost
      BY <3>1, Numbers DEF WriteLost
    <3>2. CASE Crash
      BY <1>2, <3>2, Numbers DEF Crash
    <3>3. CASE VisibilityExpires
      BY <1>2, <3>3, Numbers DEF VisibilityExpires
    <3> QED
      BY <1>7, <3>1, <3>2, <3>3
  <2>2. Load' <= Load + 1
    BY <1>1, <1>2, <2>1, Numbers DEF Load
  <2> QED
    BY <1>1, <1>3, <2>1, <2>2, Numbers DEF LoadInv, Limit
<1> QED
  BY <1>4, <1>5, <1>6, <1>7 DEF Extract

\* The others touch no job; the stale pass deletes the row.
LEMMA AsideLoad ==
  ASSUME TypeOK, TypeOK', LoadInv,
         \/ UNCHANGED vars \/ UploadSource \/ Collect
         \/ \E c \in Crops : UploadCrop(c)
  PROVE  LoadInv'
<1>1. /\ UNCHANGED <<handler, jobs, worker, faults>>
      /\ status' = status \/ status' = "DELETED"
  BY DEF vars, UploadSource, UploadCrop, Collect, FindStale, StaleRow,
     DeleteDoomed, StaleS3, Reconcile
<1>2. Claimers' = Claimers /\ (Committing' <=> Committing)
  BY <1>1, NoMove
<1>3. Load' = Load /\ Load \in Int
  BY <1>1, <1>2, Numbers DEF Load
<1> QED
  BY <1>1, <1>2, <1>3, Numbers DEF LoadInv, Limit

LEMMA LoadHolds == Spec => []LoadInv
<1>1. Init => LoadInv
  <2> SUFFICES ASSUME Init PROVE LoadInv
    OBVIOUS
  <2>1. Claimers = {} /\ ~Committing
    BY IdleType DEF Init, Claimers, Committing, CommitPC
  <2>2. Cardinality(Claimers) = 0
    BY <2>1, FS_EmptySet
  <2> QED
    BY <2>1, <2>2 DEF Init, LoadInv, Load, Limit
<1>2. TypeOK /\ TypeOK' /\ LoadInv /\ [Next]_vars => LoadInv'
  BY StartLoad, ClaimLoad, QueueingLoad, QuietLoad, CommitLoad, DiscardLoad,
     WorkerLoad, AsideLoad DEF Next, Step
<1> QED
  BY TypeCorrect, <1>1, <1>2, PTL DEF Spec

\* However uploads and retries race, whatever marks come late and whenever the
\* row is discarded, no more runs are paid for than one and the faults.
THEOREM OneRun == Spec => []SingleRun
<1>1. TypeOK /\ LoadInv => SingleRun
  <2> SUFFICES ASSUME TypeOK, LoadInv PROVE SingleRun
    OBVIOUS
  <2> DEFINE E == {h \in Handlers : handler[h].pc = "enqueue"}
  <2>1. E \subseteq Claimers
    BY DEF Claimers
  <2>2. Cardinality(E) <= Cardinality(Claimers) /\ Cardinality(E) \in Nat
    BY <2>1, Numbers, FS_Subset, FS_CardinalityType
  <2> HIDE DEF E
  <2>3. jobs + (IF worker = "run" THEN 1 ELSE 0) + Cardinality(E) <= 1 + faults
    BY <2>2, Numbers DEF LoadInv, Load, Limit
  <2> QED
    BY <2>3 DEF SingleRun, E
<1> QED
  BY TypeCorrect, LoadHolds, <1>1, PTL

\* Staged questions that await their review leave no room in the load: without
\* faults no job is queued, no run under way and no claim to be marked FAILED.
THEOREM ReviewKept == Spec => ReviewNotLost
<1>1. TypeOK /\ LoadInv /\ [Next]_vars
        => [status = "AWAITING_REVIEW" /\ faults = 0
              => status' \in {"AWAITING_REVIEW", "COMMITTED", "DELETED"}]_vars
  <2> SUFFICES ASSUME TypeOK, LoadInv, [Next]_vars,
                      status = "AWAITING_REVIEW", faults = 0
               PROVE  status' \in {"AWAITING_REVIEW", "COMMITTED", "DELETED"}
    OBVIOUS
  <2>1. Load <= 0
    BY Numbers DEF LoadInv, Limit
  <2>2. worker # "run" /\ Cardinality(Claimers) = 0
    BY <2>1, Numbers DEF Load
  <2>3. Claimers = {}
    BY <2>2, Numbers, FS_EmptySet
  <2>4. ASSUME NEW h \in Handlers, Step(h)
        PROVE  status' \in {"AWAITING_REVIEW", "COMMITTED", "DELETED"}
    <3>1. ~MarkNotQueued(h)
      BY <2>3 DEF MarkNotQueued, Claimers
    <3> QED
      BY <2>4, <3>1 DEF Step, ClaimUpload, ClaimRetry, ClaimFor, Enqueue,
         EnqueueThrows, IssueCrops, VerifyCrops, HeadCrops, CommitQuestions,
         TidyS3, DiscardS3, TidyRows, DiscardRow, Abandon
  <2>5. CASE Extract \/ WriteLost \/ Crash \/ VisibilityExpires
    BY <2>2, <2>5 DEF Extract, TakeJob, AckJob, FinishRun, WriteLost, Crash,
       VisibilityExpires
  <2>6. CASE \/ UNCHANGED vars \/ UploadSource \/ Collect
             \/ \E c \in Crops : UploadCrop(c)
             \/ \E h \in Handlers, kind \in DOMAIN Asks, payload \in Payload :
                  Start(h, kind, payload)
    BY <2>6 DEF vars, UploadSource, UploadCrop, Start, Collect, FindStale,
       StaleRow, DeleteDoomed, StaleS3, Reconcile
  <2> QED
    BY <2>4, <2>5, <2>6 DEF Next
<1> QED
  BY LoadHolds, <1>1, TypeCorrect, PTL DEF Spec, ReviewNotLost

-----------------------------------------------------------------------------
(* One at a time.  Until a request, or a discard of the stale pass, meets  *)
(* another at work, the status that a request read at its start still      *)
(* holds when it acts on it, up to what the worker makes of EXTRACTING.    *)
(* So the one commit meets an extraction that is AWAITING_REVIEW and whose *)
(* crops are stored, and whatever deletes crops afterwards spares those of *)
(* the questions.                                                          *)

TidyPC == {"tidyS3", "tidyRows"}
Stale == gc.pc \in {"staleS3", "staleRow"}
OneAtWork ==
  /\ \A g, h \in Handlers :
       handler[g].pc # "idle" /\ handler[h].pc # "idle" => g = h
  /\ Stale => \A h \in Handlers : handler[h].pc = "idle"
\* Where a request stands against the status, and the crops it depends on.
AtWork(h) ==
  /\ handler[h].pc \in CommitPC => status = "AWAITING_REVIEW"
  /\ handler[h].pc \in TidyPC => status = "COMMITTED"
  /\ handler[h].pc \notin TidyPC \cup {"idle"} => status # "COMMITTED"
  /\ handler[h].pc = "commit" => Range(handler[h].payload) \subseteq stored
  /\ handler[h].pc = "tidyS3" => \A t \in Texts : question[t] \notin Orphans(h)
\* The same for the worker and the collector.
Aside ==
  /\ worker = "run" => status \in {"EXTRACTING", "FAILED", "DELETED"}
  /\ Stale => status # "COMMITTED"
  /\ gc.pc = "doomed" => /\ status \in {"COMMITTED", "DELETED"}
                         /\ \A t \in Texts : question[t] \notin gc.keys
\* Only a committed extraction has an import, one, and questions.
Recorded ==
  IF status = "COMMITTED"
  THEN imports = 1 /\ \A t \in Texts : question[t] \in stored \cup {NoCrop}
  ELSE imports = 0 /\ \A t \in Texts : question[t] = NoCrop
Orderly == /\ OneAtWork /\ (\A h \in Handlers : AtWork(h))
           /\ Aside /\ Recorded
AloneInv == ~overlapped => Orderly

\* A request that starts, or moves, is the only one.
LEMMA SoleAtWork ==
  ASSUME TypeOK, OneAtWork, NEW h \in Handlers, handler[h].pc # "idle"
  PROVE  ~Stale /\ \A g \in Handlers \ {h} : handler[g].pc = "idle"
BY DEF OneAtWork

LEMMA OthersIdle ==
  ASSUME NEW h \in Handlers, ~Stale', AtWork(h)',
         \A g \in Handlers \ {h} : handler'[g].pc = "idle"
  PROVE  OneAtWork' /\ \A g \in Handlers : AtWork(g)'
<1>1. OneAtWork'
  BY DEF OneAtWork
<1>2. ASSUME NEW g \in Handlers \ {h} PROVE AtWork(g)'
  BY <1>2 DEF AtWork, CommitPC, TidyPC
<1> QED
  BY <1>1, <1>2

LEMMA StartAlone ==
  ASSUME TypeOK, AloneInv, NEW h \in Handlers, NEW kind \in DOMAIN Asks,
         NEW payload \in Payload, Start(h, kind, payload)
  PROVE  AloneInv'
<1> SUFFICES ASSUME ~overlapped' PROVE Orderly'
  BY DEF AloneInv
<1>1. /\ Orderly /\ Quiet
      /\ UNCHANGED <<status, stored, question, imports, worker, gc>>
      /\ handler'[h].pc = kind /\ status \in Asks[kind]
      /\ \A g \in Handlers \ {h} : handler'[g] = handler[g]
  BY IdleType DEF Start, Meet, AloneInv, TypeOK, Handler, objects, quiz
<1>2. /\ ~Stale' /\ \A g \in Handlers \ {h} : handler'[g].pc = "idle"
  BY <1>1 DEF Quiet, Stale
<1>3. AtWork(h)'
  BY <1>1 DEF AtWork, Asks, CommitPC, TidyPC
<1>4. Aside' /\ Recorded'
  BY <1>1 DEF Orderly, Aside, Recorded, Stale
<1> QED
  BY <1>2, <1>3, <1>4, OthersIdle DEF Orderly

\* What a step of a request leaves alone.
LEMMA StepFrame ==
  ASSUME TypeOK, NEW h \in Handlers, Step(h)
  PROVE  /\ UNCHANGED <<worker, gc, overlapped>> /\ handler[h].pc # "idle"
         /\ \A g \in Handlers \ {h} : handler'[g] = handler[g]
BY DEF Step, ClaimUpload, ClaimRetry, ClaimFor, Enqueue, EnqueueThrows,
       MarkNotQueued, IssueCrops, VerifyCrops, HeadCrops, CommitQuestions,
       TidyS3, DiscardS3, TidyRows, DiscardRow, Abandon, Becomes, Done, TypeOK

\* A request that settles a claim or the row: a committed one it never meets.
LEMMA SettlesAlone ==
  ASSUME TypeOK, Orderly, NEW h \in Handlers,
         ClaimUpload(h) \/ ClaimRetry(h) \/ MarkNotQueued(h) \/ DiscardRow(h)
  PROVE  AtWork(h)' /\ Aside' /\ Recorded'
<1>0. AtWork(h) /\ Aside /\ Recorded
  BY DEF Orderly
<1>1. /\ UNCHANGED <<stored, question, imports, worker, gc>>
      /\ handler'[h].pc \in {"idle", "enqueue"} /\ handler[h].pc # "idle"
      /\ handler[h].pc \notin TidyPC
  BY IdleType DEF ClaimUpload, ClaimRetry, ClaimFor, MarkNotQueued, DiscardRow,
     Becomes, Done, TypeOK, Handler, objects, quiz, TidyPC
<1>2. \/ status' = status
      \/ status' = "EXTRACTING" /\ status \in {"PENDING_UPLOAD", "FAILED"}
      \/ status' \in {"FAILED", "DELETED"}
         /\ (status = "DELETED" => status' = "DELETED")
  BY DEF ClaimUpload, ClaimRetry, ClaimFor, MarkNotQueued, DiscardRow, Update
<1>3. status # "COMMITTED" /\ status' # "COMMITTED"
  BY <1>0, <1>1, <1>2 DEF AtWork
<1>4. AtWork(h)'
  BY <1>1, <1>3 DEF AtWork, CommitPC, TidyPC
<1>5. Aside' /\ Recorded'
  BY <1>0, <1>1, <1>2, <1>3 DEF Aside, Recorded, Stale
<1> QED
  BY <1>4, <1>5

\* A request that changes neither the status nor what is stored.
LEMMA LooksAlone ==
  ASSUME TypeOK, Orderly, NEW h \in Handlers,
         \/ Enqueue(h) \/ EnqueueThrows(h) \/ VerifyCrops(h) \/ HeadCrops(h)
         \/ \E keys \in SUBSET Crops : IssueCrops(h, keys)
         \/ TidyRows(h) \/ Abandon(h)
  PROVE  AtWork(h)' /\ Aside' /\ Recorded'
<1>0. AtWork(h) /\ Aside /\ Recorded
  BY DEF Orderly
<1>1. UNCHANGED <<status, stored, question, imports, worker, gc>>
  BY DEF Enqueue, EnqueueThrows, VerifyCrops, HeadCrops, IssueCrops, TidyRows,
         Abandon, objects, quiz
<1>2. Aside' /\ Recorded'
  BY <1>0, <1>1 DEF Aside, Recorded, Stale
<1>3. CASE handler'[h].pc = "idle"
  BY <1>2, <1>3 DEF AtWork, CommitPC, TidyPC
<1>4. CASE EnqueueThrows(h)
  <2>1. handler[h].pc = "enqueue" /\ handler'[h].pc = "notQueued"
    BY <1>4 DEF EnqueueThrows, Becomes, TypeOK, Handler
  <2> QED
    BY <1>0, <1>1, <1>2, <2>1 DEF AtWork, CommitPC, TidyPC
<1>5. CASE VerifyCrops(h) /\ handler'[h].pc # "idle"
  <2>1. handler[h].pc = "verify" /\ handler'[h].pc = "head"
    BY <1>5, IdleType DEF VerifyCrops, Done, TypeOK, Handler
  <2> QED
    BY <1>0, <1>1, <1>2, <2>1 DEF AtWork, CommitPC, TidyPC
<1>6. CASE HeadCrops(h) /\ handler'[h].pc # "idle"
  <2>1. /\ handler[h].pc = "head" /\ handler'[h].pc = "commit"
        /\ handler'[h].payload = handler[h].payload
        /\ Range(handler[h].payload) \subseteq stored
    BY <1>6, IdleType DEF HeadCrops, Becomes, Done, TypeOK, Handler
  <2> QED
    BY <1>0, <1>1, <1>2, <2>1 DEF AtWork, CommitPC, TidyPC
<1>7. CASE Enqueue(h) \/ TidyRows(h) \/ Abandon(h)
           \/ \E keys \in SUBSET Crops : IssueCrops(h, keys)
  BY <1>3, <1>7, IdleType DEF Enqueue, TidyRows, Abandon, IssueCrops, Done,
     TypeOK
<1> QED
  BY <1>2, <1>3, <1>4, <1>5, <1>6, <1>7

\* A request that deletes crops: after its commit those it did not commit, or
\* before any.
LEMMA DeletesAlone ==
  ASSUME TypeOK, Orderly, NEW h \in Handlers, NEW kept \in SUBSET Crops,
         TidyS3(h, kept) \/ DiscardS3(h, kept)
  PROVE  AtWork(h)' /\ Aside' /\ Recorded'
<1>0. AtWork(h) /\ Aside /\ Recorded
  BY DEF Orderly
<1>1. UNCHANGED <<status, question, imports, worker, gc>>
  BY DEF TidyS3, DiscardS3, quiz
<1>2. Aside'
  BY <1>0, <1>1 DEF Aside, Stale
<1>3. CASE TidyS3(h, kept)
  <2>1. /\ handler[h].pc = "tidyS3" /\ handler'[h].pc \in {"tidyRows", "idle"}
        /\ stored' = stored \ (Orphans(h) \ kept)
    BY <1>3, IdleType DEF TidyS3, Becomes, Done, TypeOK, Handler
  <2>2. status = "COMMITTED" /\ \A t \in Texts : question[t] \notin Orphans(h)
    BY <1>0, <2>1 DEF AtWork, TidyPC
  <2>3. Recorded'
    BY <1>0, <1>1, <2>1, <2>2 DEF Recorded
  <2>4. AtWork(h)'
    BY <1>1, <2>1, <2>2 DEF AtWork, CommitPC, TidyPC
  <2> QED
    BY <1>2, <2>3, <2>4
<1>4. CASE DiscardS3(h, kept)
  <2>1. handler[h].pc = "discardS3" /\ handler'[h].pc = "discardRow"
    BY <1>4 DEF DiscardS3, Becomes, TypeOK
  <2>2. status # "COMMITTED"
    BY <1>0, <2>1 DEF AtWork, TidyPC
  <2>3. Recorded'
    BY <1>0, <1>1, <2>2 DEF Recorded
  <2>4. AtWork(h)'
    BY <1>1, <2>1, <2>2 DEF AtWork, CommitPC, TidyPC
  <2> QED
    BY <1>2, <2>3, <2>4
<1> QED
  BY <1>3, <1>4

LEMMA CommitAlone ==
  ASSUME TypeOK, Orderly, NEW h \in Handlers, CommitQuestions(h)
  PROVE  AtWork(h)' /\ Aside' /\ Recorded'
<1> DEFINE p == handler[h].payload
<1>0. AtWork(h) /\ Aside /\ Recorded
  BY DEF Orderly
<1>1. handler[h].pc = "commit"
  BY DEF CommitQuestions
<1>2. status = "AWAITING_REVIEW" /\ Range(p) \subseteq stored
  BY <1>0, <1>1 DEF AtWork, CommitPC
<1>3. /\ UNCHANGED <<stored, worker, gc>>
      /\ question' = [t \in Texts |-> IF t \in DOMAIN p /\ question[t] = NoCrop
                                      THEN p[t] ELSE question[t]]
      /\ imports' = imports + 1 /\ status' = "COMMITTED"
      /\ handler' = [handler EXCEPT ![h].pc = "tidyS3"]
  BY <1>2 DEF CommitQuestions, Becomes, objects
<1>4. /\ handler'[h].pc = "tidyS3" /\ handler'[h].payload = p
      /\ handler'[h].issued = handler[h].issued
      /\ handler[h].issued \subseteq Crops
  BY <1>3 DEF TypeOK, Handler
<1>5. imports = 0 /\ \A t \in Texts : question[t] = NoCrop
  BY <1>0, <1>2 DEF Recorded
<1>6. \A t \in Texts : question'[t] \in Range(p) \cup {NoCrop}
  BY <1>3, <1>5 DEF Range
<1>7. Recorded'
  BY <1>2, <1>3, <1>5, <1>6 DEF Recorded
<1>8. AtWork(h)'
  BY <1>3, <1>4, <1>6, CropAssumption DEF AtWork, CommitPC, TidyPC, Orphans
<1>9. Aside'
  BY <1>0, <1>2, <1>3, <1>1, SoleAtWork DEF Aside, Orderly, Stale
<1> QED
  BY <1>7, <1>8, <1>9

LEMMA StepAlone ==
  ASSUME TypeOK, AloneInv, NEW h \in Handlers, Step(h) PROVE AloneInv'
<1> SUFFICES ASSUME ~overlapped' PROVE Orderly'
  BY DEF AloneInv
<1>1. /\ Orderly /\ UNCHANGED gc
      /\ \A g \in Handlers \ {h} : handler'[g] = handler[g]
  BY StepFrame DEF AloneInv
<1>2. ~Stale' /\ \A g \in Handlers \ {h} : handler'[g].pc = "idle"
  BY <1>1, StepFrame, SoleAtWork DEF Orderly, Stale
<1>3. AtWork(h)' /\ Aside' /\ Recorded'
  BY <1>1, SettlesAlone, LooksAlone, DeletesAlone, CommitAlone DEF Step
<1> QED
  BY <1>2, <1>3, OthersIdle DEF Orderly

\* The worker: it runs on a row that is EXTRACTING, or no longer its own.
LEMMA WorkerAlone ==
  ASSUME TypeOK, AloneInv, Extract \/ WriteLost \/ Crash \/ VisibilityExpires
  PROVE  AloneInv'
<1> SUFFICES ASSUME ~overlapped' PROVE Orderly'
  BY DEF AloneInv
<1>1. /\ Orderly
      /\ UNCHANGED <<handler, stored, question, imports, gc>>
  BY DEF AloneInv, Extract, TakeJob, AckJob, FinishRun, WriteLost, Crash,
     VisibilityExpires, objects, quiz
<1>2. CASE status' = status
  <2>1. worker' = "run" => worker = "run" \/ status = "EXTRACTING"
    BY DEF Extract, TakeJob, AckJob, FinishRun, WriteLost, Crash,
       VisibilityExpires
  <2> QED
    BY <1>1, <1>2, <2>1
       DEF Orderly, OneAtWork, AtWork, Aside, Recorded, Stale, Orphans
<1>3. CASE status' # status
  <2>1. /\ worker = "run" /\ worker' = "ack" /\ status # "DELETED"
        /\ status' \in {"AWAITING_REVIEW", "FAILED"}
    BY <1>3 DEF Extract, TakeJob, AckJob, FinishRun, WriteLost, Crash,
       VisibilityExpires, Update
  <2>2. status \in {"EXTRACTING", "FAILED"}
    BY <1>1, <2>1 DEF Orderly, Aside
  <2>3. \A h \in Handlers : AtWork(h)'
    BY <1>1, <2>1, <2>2 DEF Orderly, AtWork, CommitPC, TidyPC
  <2>4. OneAtWork' /\ Aside' /\ Recorded'
    BY <1>1, <2>1, <2>2 DEF Orderly, OneAtWork, Aside, Recorded, Stale
  <2> QED
    BY <2>3, <2>4 DEF Orderly
<1> QED
  BY <1>2, <1>3

\* The collector, and the uploads of source and crops.
LEMMA AsideAlone ==
  ASSUME TypeOK, AloneInv,
         \/ UNCHANGED vars \/ UploadSource \/ Collect
         \/ \E c \in Crops : UploadCrop(c)
  PROVE  AloneInv'
<1> SUFFICES ASSUME ~overlapped' PROVE Orderly'
  BY DEF AloneInv
<1> USE DEF objects, quiz
<1>1. /\ Orderly /\ UNCHANGED <<handler, question, imports, worker>>
  BY DEF AloneInv, vars, UploadSource, UploadCrop, Collect, FindStale,
     StaleRow, DeleteDoomed, StaleS3, Reconcile, Meet
<1>2. CASE \/ UNCHANGED vars \/ UploadSource
           \/ \E c \in Crops : UploadCrop(c)
  <2>1. UNCHANGED <<status, gc>> /\ stored \subseteq stored'
    BY <1>2 DEF vars, UploadSource, UploadCrop
  <2> QED
    BY <1>1, <2>1
       DEF Orderly, OneAtWork, AtWork, Aside, Recorded, Stale, Orphans
<1>3. CASE FindStale
  <2>1. /\ Quiet /\ status # "COMMITTED" /\ UNCHANGED <<status, stored>>
        /\ gc'.pc = "staleS3"
    BY <1>3 DEF FindStale, Meet, TypeOK
  <2> QED
    BY <1>1, <2>1
       DEF Orderly, OneAtWork, AtWork, Aside, Recorded, Stale, Orphans, Quiet
<1>4. CASE StaleRow \/ \E kept \in SUBSET Crops : StaleS3(kept)
  <2>1. /\ Stale /\ status' \in {status, "DELETED"}
        /\ gc'.pc \in {"staleRow", "idle"}
    BY <1>4 DEF StaleRow, StaleS3, Stale, TypeOK
  <2>2. /\ \A h \in Handlers : handler[h].pc = "idle"
        /\ status # "COMMITTED"
    BY <1>1, <2>1 DEF Orderly, OneAtWork, Aside
  <2>3. \A h \in Handlers : AtWork(h)'
    BY <1>1, <2>2 DEF AtWork, CommitPC, TidyPC
  <2> QED
    BY <1>1, <2>1, <2>2, <2>3 DEF Orderly, OneAtWork, Aside, Recorded
<1>5. CASE DeleteDoomed
  <2>1. /\ gc.pc = "doomed" /\ gc'.pc = "idle" /\ status' = status
        /\ stored' = stored \ gc.keys
    BY <1>5 DEF DeleteDoomed
  <2>2. /\ status \in {"COMMITTED", "DELETED"}
        /\ \A t \in Texts : question[t] \notin gc.keys
    BY <1>1, <2>1 DEF Orderly, Aside
  <2>3. \A h \in Handlers : AtWork(h)'
    BY <1>1, <2>1, <2>2 DEF Orderly, AtWork, CommitPC, TidyPC, Orphans
  <2> QED
    BY <1>1, <2>1, <2>2, <2>3 DEF Orderly, OneAtWork, Aside, Recorded, Stale
<1>6. ASSUME NEW old \in SUBSET Crops, Reconcile(old) PROVE Orderly'
  <2>1. /\ UNCHANGED <<status, stored>> /\ gc' = [pc |-> "doomed", keys |-> old]
        /\ old # {} /\ \A c \in old : Unreferenced(c)
    BY <1>6 DEF Reconcile
  <2>2. /\ status \in {"COMMITTED", "DELETED"}
        /\ \A c \in old : c \notin Range(question)
    BY <2>1 DEF Unreferenced
  <2>3. \A t \in Texts : question[t] \notin old
    BY <2>2 DEF Range, TypeOK
  <2> QED
    BY <1>1, <2>1, <2>2, <2>3
       DEF Orderly, OneAtWork, AtWork, Aside, Recorded, Stale, Orphans
<1> QED
  BY <1>2, <1>3, <1>4, <1>5, <1>6 DEF Collect

LEMMA AloneHolds == Spec => []AloneInv
<1>1. Init => AloneInv
  BY IdleType DEF Init, AloneInv, Orderly, OneAtWork, AtWork, Aside, Recorded,
     Stale, CommitPC, TidyPC
<1>2. TypeOK /\ AloneInv /\ [Next]_vars => AloneInv'
  BY StartAlone, StepAlone, WorkerAlone, AsideAlone DEF Next
<1> QED
  BY TypeCorrect, <1>1, <1>2, PTL DEF Spec

\* Until two are at work together, an extraction is committed at most once.
THEOREM CommittedOnce == Spec => []CommitOnce
<1>1. AloneInv => CommitOnce
  BY DEF AloneInv, Orderly, Recorded, CommitOnce
<1> QED
  BY AloneHolds, <1>1, PTL

\* Until two are at work together, every crop that a question refers to is in
\* S3, whatever the deletes of tidying, discarding and collecting leave behind.
THEOREM FiguresStay == Spec => []FiguresKeptAlone
<1>1. TypeOK /\ AloneInv => FiguresKeptAlone
  <2> SUFFICES ASSUME TypeOK, ~overlapped, Recorded PROVE FiguresKept
    BY DEF AloneInv, Orderly, FiguresKeptAlone, TypeOK
  <2>1. \A t \in Texts : question[t] \in stored \cup {NoCrop}
    BY DEF Recorded
  <2> QED
    BY <2>1 DEF FiguresKept, Range, TypeOK
<1> QED
  BY TypeCorrect, AloneHolds, <1>1, PTL

\* Nobody forgets that two have been at work together, nor takes back an import.
LEMMA StepMoves ==
  ASSUME [Next]_vars
  PROVE  /\ ~overlapped' => ~overlapped
         /\ imports' \in {imports, imports + 1}
<1>1. CASE \E h \in Handlers : Step(h)
  <2> SUFFICES ASSUME NEW h \in Handlers, Step(h)
               PROVE  overlapped' = overlapped
                      /\ imports' \in {imports, imports + 1}
    BY <1>1
  <2> QED
    BY DEF Step, ClaimUpload, ClaimRetry, ClaimFor, Enqueue, EnqueueThrows,
       MarkNotQueued, IssueCrops, VerifyCrops, HeadCrops, CommitQuestions,
       TidyS3, DiscardS3, TidyRows, DiscardRow, Abandon, quiz
<1>2. CASE \E h \in Handlers, kind \in DOMAIN Asks, payload \in Payload :
             Start(h, kind, payload)
  BY <1>2 DEF Start, Meet, quiz
<1>3. CASE Extract \/ WriteLost \/ Crash \/ VisibilityExpires
  BY <1>3 DEF Extract, TakeJob, AckJob, FinishRun, WriteLost, Crash,
     VisibilityExpires, quiz
<1>4. CASE UNCHANGED vars \/ UploadSource \/ \E c \in Crops : UploadCrop(c)
  BY <1>4 DEF vars, UploadSource, UploadCrop, quiz
<1>5. CASE Collect
  <2>1. UNCHANGED quiz /\ (overlapped' = overlapped \/ Meet)
    BY <1>5 DEF Collect, FindStale, StaleRow, DeleteDoomed, StaleS3, Reconcile
  <2>2. ~overlapped' => ~overlapped
    BY <2>1, Zenon DEF Meet
  <2>3. imports' = imports
    BY <2>1 DEF quiz
  <2> QED
    BY <2>2, <2>3
<1> QED
  BY <1>1, <1>2, <1>3, <1>4, <1>5 DEF Next

\* Until two are at work together, nothing undoes a commit: no discard, no stale
\* pass, and no result or FAILED mark that comes late.
THEOREM CommitStays == Spec => CommittedKept
<1>1. TypeOK /\ AloneInv /\ AloneInv' /\ [Next]_vars
        => [status = "COMMITTED" /\ ~overlapped' => status' = "COMMITTED"]_vars
  <2> SUFFICES ASSUME TypeOK, AloneInv, AloneInv', [Next]_vars,
                      status = "COMMITTED", ~overlapped'
               PROVE  status' = "COMMITTED"
    OBVIOUS
  <2>1. ~overlapped /\ imports' \in {imports, imports + 1}
    BY StepMoves DEF Next
  <2>2. imports = 1
    BY <2>1 DEF AloneInv, Orderly, Recorded
  <2>3. imports' # 0
    BY <2>1, <2>2
  <2> QED
    BY <2>3 DEF AloneInv, Orderly, Recorded
<1> QED
  BY TypeCorrect, AloneHolds, <1>1, PTL DEF Spec, CommittedKept
=============================================================================
