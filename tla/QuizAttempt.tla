---------------------------- MODULE QuizAttempt ----------------------------
(***************************************************************************)
(* One student's attempts at one quiz of one class: starting and           *)
(* submitting a graded attempt (src/src/app/api/quiz/route.ts), practising *)
(* on an alternative version (.../quiz/practice/route.ts), the teacher     *)
(* publishing, hiding and removing the quiz, and the assistant deciding    *)
(* whether it may show the answer key (src/src/lib/student-answer-key.ts). *)
(*                                                                         *)
(* Every await is a step boundary.  All requests share one database        *)
(* connection (src/src/lib/prisma.ts).  Interactive transactions exclude   *)
(* each other on it: one that opens with a write is one step.  The start   *)
(* opens with a read and may throw afterwards, so it is two steps, and the *)
(* plain statements that other requests issue in between are rolled back   *)
(* with it (the comment at the claim of PATCH).                            *)
(*                                                                         *)
(* A score is a number; the questions behind it are left out.  The cap is  *)
(* a constant and the window only moves forward: a teacher who reopens a   *)
(* quiz after its key was shown is outside the model.                      *)
(***************************************************************************)
EXTENDS Integers, FiniteSets

CONSTANTS
  Attempts,   \* QuizAttempt rows, those already there and those to come
  Requests,   \* HTTP requests of the student in flight at once
  NoAttempt,  \* "no attempt yet"
  Cap,        \* ClassQuiz.maxAttempts; 0 is "unlimited"
  MaxScore    \* bound: scores are 0..MaxScore

ASSUME AttemptsAssumption == NoAttempt \notin Attempts /\ IsFiniteSet(Attempts)
ASSUME CapAssumption == Cap \in Nat
ASSUME BoundsAssumption == MaxScore \in Nat

VARIABLES
  offer,     \* the ClassQuiz row: hidden, published, removed; or quiz deleted
  window,    \* the clock against availableFrom and availableUntil
  kind,      \* of a QuizAttempt row: none, graded, practice
  done,      \* QuizAttempt.completedAt is set
  score,     \* QuizAttempt.score
  filed,     \* the attempt's ExamResult exists
  progress,  \* QuizProgress.status
  best,      \* QuizProgress.bestScore, null as 0
  request,   \* what each request of the student is doing
  before,    \* what plain statements may write, as it was when the open
             \* transaction of a start began
  key,       \* the assistant's decision about the answer key
  keyShown,  \* the answer key has been shown to the student
  late       \* attempts allocated when the quiz was no longer open to start,
             \* or while the key was being decided

teaching == <<offer, window>>
rows == <<kind, done, score, filed>>
standing == <<progress, best>>
keyVars == <<key, keyShown>>
vars == <<offer, window, kind, done, score, filed, progress, best, request,
          before, key, keyShown, late>>

Offers == {"hidden", "published", "removed", "deleted"}
RequestPC == {"idle", "start", "opened", "read", "claim", "result",
              "limit", "practiceStart", "practiceClaim"}
Request == [pc : RequestPC, att : Attempts \cup {NoAttempt}, capped : BOOLEAN]
Idle == [pc |-> "idle", att |-> NoAttempt, capped |-> FALSE]
Progress == {"NONE", "IN_PROGRESS", "COMPLETED"}
Plain == [offer : Offers, filed : [Attempts -> BOOLEAN], progress : Progress,
          best : 0..MaxScore]
NoneOpen == [offer |-> "hidden", filed |-> [a \in Attempts |-> FALSE],
             progress |-> "NONE", best |-> 0]
Reads == {"gate", "used", "pending"}
Key == [left : SUBSET Reads, asked : BOOLEAN, gate : Offers \cup {"unread"},
        exhausted : BOOLEAN, pending : BOOLEAN]
Unasked == [left |-> {}, asked |-> FALSE, gate |-> "unread",
            exhausted |-> FALSE, pending |-> FALSE]

\* GRADED_ATTEMPTS: attempts on the quiz itself.
Graded == {a \in Attempts : kind[a] = "graded"}
Pending == {a \in Graded : ~done[a]}
Used == {a \in Graded : done[a]}
Practising == {a \in Attempts : kind[a] = "practice" /\ ~done[a]}
Exhausted(S) == Cap > 0 /\ Cardinality(S) >= Cap
Open == offer = "published" /\ window = "open"

\* A database written before POST reused the pending attempt may hold several.
Init ==
  /\ offer \in {"hidden", "published"}
  /\ window \in {"early", "open"}
  /\ kind \in [Attempts -> {"none", "graded"}]
  /\ done = [a \in Attempts |-> FALSE]
  /\ score = [a \in Attempts |-> 0]
  /\ filed = [a \in Attempts |-> FALSE]
  /\ progress = IF Graded = {} THEN "NONE" ELSE "IN_PROGRESS"
  /\ best = 0
  /\ request = [r \in Requests |-> Idle]
  /\ before = NoneOpen
  /\ key = Unasked
  /\ keyShown = FALSE
  /\ late = {}

-----------------------------------------------------------------------------
(* The teacher and the clock.                                              *)

At(r, pc) == request[r].pc = pc
\* No start's transaction is open: another transaction may begin.
Idling == \A r \in Requests : ~At(r, "opened")

\* PATCH { published }.
Publish ==
  /\ offer \in {"hidden", "published"}
  /\ offer' = IF offer = "hidden" THEN "published" ELSE "hidden"
  /\ UNCHANGED <<window, rows, standing, request, keyVars, late, before>>

\* DELETE removes the quiz from the class, in a transaction.
Remove ==
  /\ offer \in {"hidden", "published"} /\ Idling
  /\ offer' = "removed"
  /\ UNCHANGED <<window, rows, standing, request, keyVars, late, before>>

\* It was in no other class: the quiz itself goes, and its progress with it;
\* the attempts stay with a null quizId.
DeleteQuiz ==
  /\ offer = "removed"
  /\ offer' = "deleted" /\ progress' = "NONE" /\ best' = 0
  /\ UNCHANGED <<window, rows, request, keyVars, late, before>>

WindowMoves ==
  /\ window # "closed"
  /\ window' = IF window = "early" THEN "open" ELSE "closed"
  /\ UNCHANGED <<offer, rows, standing, request, keyVars, late, before>>

-----------------------------------------------------------------------------
(* POST /api/quiz: start or resume.                                        *)

Answer(r) == request' = [request EXCEPT ![r] = Idle]
\* The state of a request that takes up an attempt.
Takes(pc, a) == [pc |-> pc, att |-> a, capped |-> FALSE]

StartCheck(r) ==
  /\ At(r, "idle") /\ Open
  /\ request' = [request EXCEPT ![r].pc = "start"]
  /\ UNCHANGED <<teaching, rows, standing, keyVars, late, before>>

\* Slip: a start whose transaction does not wait for the one that is open.
OpenStartAnyTime(r) ==
  /\ At(r, "start")
  /\ \E a \in IF Pending = {} THEN {NoAttempt} ELSE Pending :
       request' = [request EXCEPT ![r] = Takes("opened", a)]
  /\ before' = [offer |-> offer, filed |-> filed, progress |-> progress,
                best |-> best]
  /\ UNCHANGED <<teaching, rows, standing, keyVars, late>>
\* The transaction begins, and reads the pending graded attempt; the attempts
\* at a deleted quiz no longer name it.
OpenStart(r) ==
  LET found == IF offer = "deleted" THEN {} ELSE Pending IN
  /\ At(r, "start") /\ Idling
  /\ \E a \in IF found = {} THEN {NoAttempt} ELSE found :
       request' = [request EXCEPT ![r] = Takes("opened", a)]
  /\ before' = [offer |-> offer, filed |-> filed, progress |-> progress,
                best |-> best]
  /\ UNCHANGED <<teaching, rows, standing, keyVars, late>>

Found(r) == request[r].att # NoAttempt

\* The attempt found is resumed, whatever the cap says.
Resume(r) ==
  /\ At(r, "opened") /\ offer # "deleted" /\ Found(r)
  /\ progress' = "IN_PROGRESS" /\ before' = NoneOpen
  /\ Answer(r)
  /\ UNCHANGED <<teaching, rows, best, keyVars, late>>

\* Otherwise a new one is allocated, if the cap allows.
Allocate(r) ==
  /\ At(r, "opened") /\ offer # "deleted" /\ ~Found(r) /\ ~Exhausted(Used)
  /\ \E a \in Attempts :
       /\ kind[a] = "none" /\ kind' = [kind EXCEPT ![a] = "graded"]
       /\ late' = IF ~Open \/ key.asked THEN late \cup {a} ELSE late
  /\ progress' = "IN_PROGRESS" /\ before' = NoneOpen
  /\ Answer(r)
  /\ UNCHANGED <<teaching, done, score, filed, best, keyVars>>

\* The start throws: its transaction is undone, and with it the plain
\* statements that fell into it.
RollBack ==
  /\ offer' = before.offer /\ filed' = before.filed
  /\ progress' = before.progress /\ best' = before.best
  /\ before' = NoneOpen
  /\ UNCHANGED <<window, kind, done, score, keyVars, late>>

\* AttemptLimitError.
RefuseStart(r) ==
  /\ At(r, "opened") /\ offer # "deleted" /\ ~Found(r) /\ Exhausted(Used)
  /\ request' = [request EXCEPT ![r] = [Idle EXCEPT !.pc = "limit"]]
  /\ RollBack

\* The quiz is gone: an insert that names it violates the key.
StartThrows(r) ==
  /\ At(r, "opened") /\ offer = "deleted"
  /\ Answer(r)
  /\ RollBack

\* "You've used all your attempts" reaches the student.
TellLimit(r) ==
  /\ At(r, "limit")
  /\ Answer(r)
  /\ UNCHANGED <<teaching, rows, standing, keyVars, late, before>>

-----------------------------------------------------------------------------
(* PATCH /api/quiz: submit.                                                *)

\* Slip: an alternative-version attempt graded against the quiz's questions.
SubmittableAny == Pending \cup Practising
Submittable == Pending

\* The fast path: the attempt exists, is graded, not done, its quiz is there.
SubmitRead(r, a) ==
  /\ At(r, "idle") /\ a \in Submittable /\ offer # "deleted"
  /\ request' = [request EXCEPT ![r] = Takes("read", a)]
  /\ UNCHANGED <<teaching, rows, standing, keyVars, late, before>>

\* The cap, read outside the transaction: none without a ClassQuiz row.
ReadCap(r) ==
  /\ At(r, "read")
  /\ request' = [request EXCEPT
       ![r] = [pc |-> "claim", att |-> request[r].att,
               capped |-> offer \in {"hidden", "published"}]]
  /\ UNCHANGED <<teaching, rows, standing, keyVars, late, before>>

\* The recount inside the transaction.
Others(a) == Used \ {a}

\* Slip: the cap tested at the start of an attempt alone.
NeverRefused(r) == FALSE
Refused(r) == request[r].capped /\ Exhausted(Others(request[r].att))

\* Slip: the claim without its completedAt test.
ClaimsAnyTime(a) == TRUE
\* The WHERE clause of the claim.
Claims(a) == ~done[a]

\* Slip: the latest score kept.
Latest(s) == s
Best(s) == IF s > best THEN s ELSE best

\* The conditional write, the recount, the progress: one transaction.
Grade(r, s) ==
  LET a == request[r].att IN
  /\ At(r, "claim") /\ Idling /\ offer # "deleted" /\ Claims(a) /\ ~Refused(r)
  /\ done' = [done EXCEPT ![a] = TRUE]
  /\ score' = [score EXCEPT ![a] = s]
  /\ progress' = "COMPLETED"
  /\ best' = Best(s)
  /\ request' = [request EXCEPT ![r].pc = "result"]
  /\ UNCHANGED <<teaching, kind, filed, keyVars, late, before>>

\* AttemptLimitError rolls the claim back.
RefuseSubmit(r) ==
  /\ At(r, "claim") /\ Idling
  /\ offer # "deleted" /\ Claims(request[r].att) /\ Refused(r)
  /\ request' = [request EXCEPT ![r].pc = "limit"]
  /\ UNCHANGED <<teaching, rows, standing, keyVars, late, before>>

\* Already submitted, or the progress row has no quiz to refer to: rolled back.
SubmitThrows(r) ==
  /\ At(r, "claim") /\ Idling
  /\ ~Claims(request[r].att) \/ offer = "deleted"
  /\ Answer(r)
  /\ UNCHANGED <<teaching, rows, standing, keyVars, late, before>>

\* The ExamResult snapshot, best effort; its generation job is another module's.
FileResult(r) ==
  /\ At(r, "result")
  /\ filed' = [filed EXCEPT ![request[r].att] = TRUE]
  /\ Answer(r)
  /\ UNCHANGED <<teaching, kind, done, score, standing, keyVars, late,
                 before>>

\* The snapshot throws, which is only logged, or the process dies before it.
FilingFails(r) ==
  /\ At(r, "result")
  /\ Answer(r)
  /\ UNCHANGED <<teaching, rows, standing, keyVars, late, before>>

-----------------------------------------------------------------------------
(* /api/quiz/practice: alternative versions, outside the graded record.    *)

PracticeCheck(r) ==
  /\ At(r, "idle") /\ Open
  /\ request' = [request EXCEPT ![r].pc = "practiceStart"]
  /\ UNCHANGED <<teaching, rows, standing, keyVars, late, before>>

\* The unique activeKey: an unfinished run is resumed.  With the quiz its
\* versions go, and nothing is started.
PracticeStart(r) ==
  /\ At(r, "practiceStart") /\ Idling
  /\ IF Practising # {} \/ offer = "deleted"
     THEN UNCHANGED kind
     ELSE \E a \in Attempts :
            kind[a] = "none" /\ kind' = [kind EXCEPT ![a] = "practice"]
  /\ Answer(r)
  /\ UNCHANGED <<teaching, done, score, filed, standing, keyVars, late,
                 before>>

PracticeRead(r, a) ==
  /\ At(r, "idle") /\ a \in Practising
  /\ request' = [request EXCEPT ![r] = Takes("practiceClaim", a)]
  /\ UNCHANGED <<teaching, rows, standing, keyVars, late, before>>

\* The claim, the score and the result: one transaction, once.
PracticeSubmit(r, s) ==
  LET a == request[r].att IN
  /\ At(r, "practiceClaim") /\ Idling
  /\ IF done[a] THEN UNCHANGED <<done, score, filed>>
     ELSE /\ done' = [done EXCEPT ![a] = TRUE]
          /\ score' = [score EXCEPT ![a] = s]
          /\ filed' = [filed EXCEPT ![a] = TRUE]
  /\ Answer(r)
  /\ UNCHANGED <<teaching, kind, standing, keyVars, late, before>>

-----------------------------------------------------------------------------
(* retakeStillPossible: three concurrent reads, then the decision.         *)

\* The student asks about a graded result of his.
AskKey ==
  /\ ~key.asked /\ ~keyShown
  /\ \E a \in Used : filed[a]
  /\ key' = [Unasked EXCEPT !.asked = TRUE, !.left = Reads]
  /\ UNCHANGED <<teaching, rows, standing, request, keyShown, late, before>>

KeyRead(what) ==
  /\ what \in key.left
  /\ key' =
       [left |-> key.left \ {what}, asked |-> TRUE,
        gate |-> IF what = "gate" THEN offer ELSE key.gate,
        exhausted |-> IF what = "used" THEN Exhausted(Used) ELSE key.exhausted,
        pending |-> IF what = "pending" THEN Pending # {} ELSE key.pending]
  /\ UNCHANGED <<teaching, rows, standing, request, keyShown, late, before>>

\* Slip: an attempt in progress forgotten.
FinalIfShut ==
  \/ key.gate \in {"removed", "deleted"}
  \/ /\ key.gate = "published" /\ window # "early"
     /\ window = "closed" \/ key.exhausted
\* ~retakeStillPossible.
Final ==
  \/ key.gate \in {"removed", "deleted"}
  \/ /\ key.gate = "published" /\ ~key.pending /\ window # "early"
     /\ window = "closed" \/ key.exhausted

DecideKey ==
  /\ key.asked /\ key.left = {}
  /\ keyShown' = Final
  /\ key' = Unasked
  /\ UNCHANGED <<teaching, rows, standing, request, late, before>>

-----------------------------------------------------------------------------
Teach == Publish \/ Remove \/ DeleteQuiz \/ WindowMoves
Serve(r) ==
  \/ StartCheck(r) \/ OpenStart(r) \/ Resume(r) \/ Allocate(r)
  \/ RefuseStart(r) \/ StartThrows(r) \/ TellLimit(r)
  \/ \E a \in Attempts : SubmitRead(r, a) \/ PracticeRead(r, a)
  \/ ReadCap(r) \/ RefuseSubmit(r) \/ SubmitThrows(r)
  \/ \E s \in 0..MaxScore : Grade(r, s) \/ PracticeSubmit(r, s)
  \/ FileResult(r) \/ FilingFails(r)
  \/ PracticeCheck(r) \/ PracticeStart(r)
Assist == AskKey \/ DecideKey \/ \E what \in Reads : KeyRead(what)

Next == Teach \/ Assist \/ \E r \in Requests : Serve(r)

Spec == Init /\ [][Next]_vars

-----------------------------------------------------------------------------
(* Properties.                                                             *)

\* Every variable keeps its type, and a request that submits names the
\* unfinished or finished attempt of the right kind.
TypeOK ==
  /\ offer \in Offers
  /\ window \in {"early", "open", "closed"}
  /\ kind \in [Attempts -> {"none", "graded", "practice"}]
  /\ done \in [Attempts -> BOOLEAN]
  /\ score \in [Attempts -> 0..MaxScore]
  /\ filed \in [Attempts -> BOOLEAN]
  /\ progress \in Progress
  /\ best \in 0..MaxScore
  /\ request \in [Requests -> Request]
  /\ before \in Plain
  /\ key \in Key
  /\ keyShown \in BOOLEAN
  /\ late \in SUBSET Attempts
  /\ \A r \in Requests :
       /\ request[r].pc \in {"read", "claim", "result"}
            => request[r].att \in Graded
       /\ request[r].pc = "practiceClaim"
            => request[r].att \in Attempts /\ kind[request[r].att] = "practice"
       /\ request[r].pc = "opened" /\ Found(r) => request[r].att \in Graded

\* While the class offers the quiz, no more attempts are graded than the cap
\* allows: not by parallel submissions, and not by the unfinished attempts an
\* older version of POST left behind (the recount in PATCH).
CapHolds == offer \in {"hidden", "published"} /\ Cap > 0
              => Cardinality(Used) <= Cap

\* An attempt is graded once: what two submissions of it race for, the second
\* neither grades again nor changes.
GradedOnce ==
  [][\A a \in Attempts : done[a] => done'[a] /\ score'[a] = score[a]]_vars

\* The progress a student sees agrees with the attempts: IN_PROGRESS only with
\* one to resume, COMPLETED only with one graded, NONE only with neither; and
\* the best score is the best of the graded attempts, and of them alone, in
\* whatever order they are submitted.
ProgressAgrees ==
  offer # "deleted" =>
    /\ CASE progress = "IN_PROGRESS" -> Pending # {}
         [] progress = "COMPLETED" -> Used # {}
         [] progress = "NONE" -> Graded = {}
    /\ \A a \in Used : score[a] <= best
    /\ best = 0 \/ \E a \in Used : score[a] = best

\* Starts that race never add a second unfinished attempt, so that no pile of
\* them can be submitted one by one against the feedback of the others: what a
\* start found when its transaction began still holds when it decides.
NoStockpile == [][Pending' \subseteq Pending \/ Pending = {}]_vars

\* Once the key has been shown of a quiz the class still offers, nothing can
\* be submitted any more, except an attempt whose start overlapped the close
\* of the window or the decision itself.
KeyHeld ==
  keyShown /\ offer \in {"hidden", "published"} => Pending \subseteq late

\* "Build a durable, self-contained ExamResult snapshot" (PATCH): the result of
\* an attempt, once written, stays.
ResultDurable == [][\A a \in Attempts : filed[a] => filed'[a]]_vars

\* "No ClassQuiz row: ... nothing further can be submitted and the attempt is
\* final" (retakeStillPossible): after the key of a removed quiz has been
\* shown, no attempt at it is graded.
FinalAfterRemoval == [][keyShown /\ offer = "removed" => Used' = Used]_vars
=============================================================================
