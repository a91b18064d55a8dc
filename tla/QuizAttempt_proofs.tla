------------------------- MODULE QuizAttempt_proofs -------------------------
(***************************************************************************)
(* Theorems about QuizAttempt for any attempts, requests, cap and scores:  *)
(* its types, the cap, that an attempt is graded once, that no stock of    *)
(* unfinished attempts builds up, that the progress tells of the graded    *)
(* attempts, and that a key once shown gives nothing away.                 *)
(***************************************************************************)
EXTENDS QuizAttempt, FiniteSetTheorems, TLAPS

-----------------------------------------------------------------------------
(* Types.                                                                  *)

LEMMA IdleType == Idle \in Request /\ Idle.pc = "idle"
BY DEF Idle, Request, RequestPC

\* An answered request is idle; one that moves on keeps its attempt.
LEMMA AnswerType ==
  ASSUME request \in [Requests -> Request], NEW r \in Requests, Answer(r)
  PROVE  /\ request' \in [Requests -> Request]
         /\ request'[r].pc = "idle"
         /\ \A q \in Requests \ {r} : request'[q] = request[q]
BY IdleType DEF Answer

LEMMA GoesType ==
  ASSUME request \in [Requests -> Request], NEW r \in Requests,
         NEW pc \in RequestPC, request' = [request EXCEPT ![r].pc = pc]
  PROVE  /\ request' \in [Requests -> Request]
         /\ request'[r].pc = pc /\ request'[r].att = request[r].att
         /\ request'[r].capped = request[r].capped
         /\ \A q \in Requests \ {r} : request'[q] = request[q]
<1>1. [request[r] EXCEPT !.pc = pc] \in Request
  BY DEF Request
<1>2. request[r] \in Request
  OBVIOUS
<1> QED
  BY <1>1, <1>2 DEF Request

\* A request that takes up an attempt.
LEMMA TakesType ==
  ASSUME request \in [Requests -> Request], NEW r \in Requests,
         NEW pc \in RequestPC, NEW a \in Attempts,
         request' = [request EXCEPT ![r] = Takes(pc, a)]
  PROVE  /\ request' \in [Requests -> Request]
         /\ request'[r].pc = pc /\ request'[r].att = a
         /\ \A q \in Requests \ {r} : request'[q] = request[q]
<1>1. Takes(pc, a) \in Request
  BY DEF Takes, Request
<1> QED
  BY <1>1 DEF Takes

\* What reading the cap leaves of the request.
LEMMA ReadCapMove ==
  ASSUME request \in [Requests -> Request], NEW r \in Requests, ReadCap(r)
  PROVE  /\ request' \in [Requests -> Request]
         /\ request'[r].pc = "claim" /\ request'[r].att = request[r].att
         /\ request'[r].capped = (offer \in {"hidden", "published"})
         /\ \A q \in Requests \ {r} : request'[q] = request[q]
<1> DEFINE c == offer \in {"hidden", "published"}
           new == [pc |-> "claim", att |-> request[r].att, capped |-> c]
<1>1. request' = [request EXCEPT ![r] = new]
  BY DEF ReadCap
<1>2. request[r].att \in Attempts \cup {NoAttempt}
  BY DEF Request
<1>3. c \in BOOLEAN
  OBVIOUS
<1>4. new \in Request
  BY <1>2, <1>3 DEF Request, RequestPC
<1>5. new.pc = "claim" /\ new.att = request[r].att /\ new.capped = c
  OBVIOUS
<1> HIDE DEF new
<1> QED
  BY <1>1, <1>4, <1>5

\* The attempt that a request is about is of its kind.
AboutRight(r) ==
  /\ request[r].pc \in {"read", "claim", "result"} => request[r].att \in Graded
  /\ request[r].pc = "practiceClaim"
       => request[r].att \in Attempts /\ kind[request[r].att] = "practice"
  /\ request[r].pc = "opened" /\ Found(r) => request[r].att \in Graded

\* Attempts keep their kind once they have one.
LEMMA KindKept ==
  ASSUME TypeOK, NEW r \in Requests, Serve(r)
  PROVE  /\ kind' \in [Attempts -> {"none", "graded", "practice"}]
         /\ \A a \in Attempts : kind[a] # "none" => kind'[a] = kind[a]
<1> USE DEF TypeOK, rows
<1>1. CASE Allocate(r)
  BY <1>1 DEF Allocate
<1>2. CASE PracticeStart(r)
  BY <1>2 DEF PracticeStart
<1>3. CASE ~Allocate(r) /\ ~PracticeStart(r)
  BY <1>3 DEF Serve, StartCheck, OpenStart, Resume, RefuseStart, StartThrows,
              RollBack, TellLimit, SubmitRead, PracticeRead, ReadCap,
              RefuseSubmit, SubmitThrows, Grade, PracticeSubmit, FileResult,
              FilingFails, PracticeCheck
<1> QED
  BY <1>1, <1>2, <1>3

\* A step of a request moves that request, to a state about the right attempt.
LEMMA RequestMoves ==
  ASSUME TypeOK, NEW r \in Requests, Serve(r)
  PROVE  /\ request' \in [Requests -> Request]
         /\ \A q \in Requests \ {r} : request'[q] = request[q]
         /\ \/ request'[r].pc \notin {"opened", "read", "claim", "result",
                                     "practiceClaim"}
            \/ /\ request'[r].pc = "opened" /\ request[r].pc = "start"
               /\ request'[r].att # NoAttempt => request'[r].att \in Pending
            \/ /\ request'[r].pc = "read" /\ request'[r].att \in Pending
            \/ /\ request'[r].pc = "practiceClaim"
               /\ request'[r].att \in Practising
            \/ /\ request'[r].att = request[r].att
               /\ \/ request[r].pc = "read" /\ request'[r].pc = "claim"
                  \/ request[r].pc = "claim" /\ request'[r].pc = "result"
<1> USE DEF At
<1>a. request \in [Requests -> Request]
  BY DEF TypeOK
<1>b. {"idle", "start", "opened", "read", "claim", "result", "limit",
       "practiceStart", "practiceClaim"} \subseteq RequestPC
  BY DEF RequestPC
<1>1. CASE \/ Resume(r) \/ Allocate(r) \/ StartThrows(r) \/ TellLimit(r)
           \/ SubmitThrows(r) \/ FileResult(r) \/ FilingFails(r)
           \/ PracticeStart(r) \/ \E s \in 0..MaxScore : PracticeSubmit(r, s)
  <2>1. Answer(r)
    BY <1>1 DEF Resume, Allocate, StartThrows, TellLimit, SubmitThrows,
                FileResult, FilingFails, PracticeStart, PracticeSubmit
  <2> QED
    BY <1>a, <2>1, AnswerType
<1>2. CASE StartCheck(r)
  BY <1>a, <1>b, <1>2, GoesType DEF StartCheck
<1>3. CASE RefuseStart(r)
  <2> DEFINE new == [Idle EXCEPT !.pc = "limit"]
  <2>1. new \in Request /\ new.pc = "limit"
    BY <1>b DEF Idle, Request
  <2>2. request' = [request EXCEPT ![r] = new]
    BY <1>3 DEF RefuseStart
  <2> HIDE DEF new
  <2> QED
    BY <1>a, <2>1, <2>2
<1>10. CASE OpenStart(r)
  <2>1. PICK a \in Pending \cup {NoAttempt} :
          request' = [request EXCEPT ![r] = Takes("opened", a)]
    BY <1>10 DEF OpenStart
  <2>2. a \in Attempts \cup {NoAttempt} /\ request[r].pc = "start"
    BY <1>10 DEF Pending, Graded, OpenStart
  <2>3. Takes("opened", a) \in Request
    BY <1>b, <2>2 DEF Takes, Request
  <2>4. Takes("opened", a).pc = "opened" /\ Takes("opened", a).att = a
    BY DEF Takes
  <2> QED
    BY <1>a, <2>1, <2>2, <2>3, <2>4
<1>4. CASE PracticeCheck(r)
  BY <1>a, <1>b, <1>4, GoesType DEF PracticeCheck
<1>5. CASE RefuseSubmit(r)
  BY <1>a, <1>b, <1>5, GoesType DEF RefuseSubmit
<1>6. ASSUME NEW a \in Attempts, SubmitRead(r, a)
      PROVE  /\ request' \in [Requests -> Request]
             /\ \A q \in Requests \ {r} : request'[q] = request[q]
             /\ request'[r].pc = "read" /\ request'[r].att \in Pending
  <2>1. /\ a \in Pending
        /\ request' = [request EXCEPT ![r] = Takes("read", a)]
    BY <1>6 DEF SubmitRead, Submittable
  <2> QED
    BY <1>a, <1>b, <2>1, TakesType
<1>7. ASSUME NEW a \in Attempts, PracticeRead(r, a)
      PROVE  /\ request' \in [Requests -> Request]
             /\ \A q \in Requests \ {r} : request'[q] = request[q]
             /\ request'[r].pc = "practiceClaim"
             /\ request'[r].att \in Practising
  <2>1. /\ a \in Practising
        /\ request' = [request EXCEPT ![r] = Takes("practiceClaim", a)]
    BY <1>7 DEF PracticeRead
  <2> QED
    BY <1>a, <1>b, <2>1, TakesType
<1>8. CASE ReadCap(r)
  BY <1>a, <1>8, ReadCapMove DEF ReadCap
<1>9. ASSUME NEW s \in 0..MaxScore, Grade(r, s)
      PROVE  /\ request' \in [Requests -> Request]
             /\ \A q \in Requests \ {r} : request'[q] = request[q]
             /\ request'[r].att = request[r].att
             /\ request[r].pc = "claim" /\ request'[r].pc = "result"
  BY <1>a, <1>b, <1>9, GoesType DEF Grade
<1> QED
  BY <1>1, <1>2, <1>3, <1>4, <1>5, <1>6, <1>7, <1>8, <1>9, <1>10 DEF Serve

\* What a step of a request does to the rows: it settles an attempt that was
\* unfinished, or leaves completion and score alone.
LEMMA RowsMove ==
  ASSUME TypeOK, NEW r \in Requests, Serve(r)
  PROVE  \/ UNCHANGED <<done, score>>
         \/ \E s \in 0..MaxScore : Grade(r, s) /\ UNCHANGED kind
         \/ /\ UNCHANGED kind
            /\ request[r].pc = "practiceClaim"
            /\ \E s \in 0..MaxScore :
                 LET a == request[r].att IN
                 /\ done' = [done EXCEPT ![a] = TRUE]
                 /\ score' = [score EXCEPT ![a] = s]
                 /\ ~done[a]
<1> USE DEF rows
<1>1. ASSUME NEW s \in 0..MaxScore, Grade(r, s)
      PROVE  Grade(r, s) /\ UNCHANGED kind
  BY <1>1 DEF Grade
<1>2. ASSUME NEW s \in 0..MaxScore, PracticeSubmit(r, s)
      PROVE  \/ UNCHANGED <<done, score>>
             \/ /\ UNCHANGED kind
                /\ request[r].pc = "practiceClaim"
                /\ LET a == request[r].att IN
                   /\ done' = [done EXCEPT ![a] = TRUE]
                   /\ score' = [score EXCEPT ![a] = s]
                   /\ ~done[a]
  BY <1>2 DEF PracticeSubmit, At
<1>3. ASSUME ~\E s \in 0..MaxScore : Grade(r, s) \/ PracticeSubmit(r, s)
      PROVE  UNCHANGED <<done, score>>
  BY <1>3 DEF Serve, StartCheck, OpenStart, Resume, Allocate, RefuseStart,
              StartThrows, RollBack, TellLimit, SubmitRead, PracticeRead,
              ReadCap, RefuseSubmit, SubmitThrows, FileResult, FilingFails,
              PracticeCheck, PracticeStart
<1> QED
  BY <1>1, <1>2, <1>3

\* What a step of a request does to offer, progress and results: it marks the
\* progress, undoes what fell into its transaction, or writes a result.
LEMMA PlainMove ==
  ASSUME TypeOK, NEW r \in Requests, Serve(r)
  PROVE  /\ UNCHANGED <<window, key, keyShown>>
         /\ \/ UNCHANGED <<offer, filed, progress, best>>
            \/ RollBack /\ At(r, "opened")
            \/ Resume(r) \/ Allocate(r) \/ FileResult(r)
            \/ \E s \in 0..MaxScore : Grade(r, s) \/ PracticeSubmit(r, s)
<1> USE DEF teaching, rows, standing, keyVars
<1>1. CASE RefuseStart(r) \/ StartThrows(r)
  BY <1>1 DEF RefuseStart, StartThrows, RollBack
<1>2. CASE \/ Resume(r) \/ Allocate(r) \/ FileResult(r)
           \/ \E s \in 0..MaxScore : Grade(r, s) \/ PracticeSubmit(r, s)
  BY <1>2 DEF Resume, Allocate, FileResult, Grade, PracticeSubmit
<1>3. CASE \/ StartCheck(r) \/ OpenStart(r) \/ TellLimit(r) \/ ReadCap(r)
           \/ \E a \in Attempts : SubmitRead(r, a) \/ PracticeRead(r, a)
           \/ RefuseSubmit(r) \/ SubmitThrows(r) \/ FilingFails(r)
           \/ PracticeCheck(r) \/ PracticeStart(r)
  BY <1>3 DEF StartCheck, OpenStart, TellLimit, SubmitRead, PracticeRead,
              ReadCap, RefuseSubmit, SubmitThrows, FilingFails, PracticeCheck,
              PracticeStart
<1> QED
  BY <1>1, <1>2, <1>3 DEF Serve

\* A step of a request keeps every type.
LEMMA ServeType ==
  ASSUME TypeOK, NEW r \in Requests, Serve(r) PROVE TypeOK'
<1>0. /\ offer \in Offers /\ window \in {"early", "open", "closed"}
      /\ done \in [Attempts -> BOOLEAN] /\ score \in [Attempts -> 0..MaxScore]
      /\ filed \in [Attempts -> BOOLEAN] /\ progress \in Progress
      /\ best \in 0..MaxScore /\ before \in Plain /\ late \in SUBSET Attempts
      /\ key \in Key /\ keyShown \in BOOLEAN
  BY DEF TypeOK
<1>1. /\ done' \in [Attempts -> BOOLEAN] /\ score' \in [Attempts -> 0..MaxScore]
  <2>1. CASE \E s \in 0..MaxScore : Grade(r, s)
    BY <1>0, <2>1 DEF Grade
  <2> QED
    BY <1>0, <2>1, RowsMove
<1>2. /\ kind' \in [Attempts -> {"none", "graded", "practice"}]
      /\ \A a \in Attempts : kind[a] # "none" => kind'[a] = kind[a]
  BY KindKept
<1>3. /\ window' \in {"early", "open", "closed"}
      /\ key' \in Key /\ keyShown' \in BOOLEAN
  BY <1>0, PlainMove
<1>6. /\ offer' \in Offers /\ filed' \in [Attempts -> BOOLEAN]
      /\ progress' \in Progress /\ best' \in 0..MaxScore
  <2> USE DEF teaching, rows, standing
  <2>1. CASE RollBack
    BY <1>0, <2>1 DEF RollBack, Plain
  <2>2. CASE Resume(r) \/ Allocate(r) \/ FileResult(r)
    BY <1>0, <2>2 DEF Resume, Allocate, FileResult, Progress
  <2>3. ASSUME NEW s \in 0..MaxScore, Grade(r, s)
        PROVE  /\ offer' \in Offers /\ filed' \in [Attempts -> BOOLEAN]
               /\ progress' \in Progress /\ best' \in 0..MaxScore
    BY <1>0, <2>3 DEF Grade, Best, Progress
  <2>4. ASSUME NEW s \in 0..MaxScore, PracticeSubmit(r, s)
        PROVE  /\ offer' \in Offers /\ filed' \in [Attempts -> BOOLEAN]
               /\ progress' \in Progress /\ best' \in 0..MaxScore
    BY <1>0, <2>4 DEF PracticeSubmit
  <2> QED
    BY <1>0, <2>1, <2>2, <2>3, <2>4, PlainMove
<1>7. before' \in Plain /\ late' \in SUBSET Attempts
  <2>0. NoneOpen \in Plain
    BY BoundsAssumption DEF NoneOpen, Plain, Offers, Progress
  <2>1. CASE OpenStart(r)
    BY <1>0, <2>1 DEF OpenStart, Plain
  <2>2. CASE Resume(r) \/ Allocate(r) \/ RefuseStart(r) \/ StartThrows(r)
    BY <1>0, <2>0, <2>2 DEF Resume, Allocate, RefuseStart, StartThrows, RollBack
  <2>3. CASE ~OpenStart(r) /\ ~Resume(r) /\ ~Allocate(r) /\ ~RefuseStart(r)
             /\ ~StartThrows(r)
    BY <1>0, <2>3 DEF Serve, StartCheck, TellLimit, SubmitRead, PracticeRead,
       ReadCap, RefuseSubmit, SubmitThrows, Grade, PracticeSubmit, FileResult,
       FilingFails, PracticeCheck, PracticeStart
  <2> QED
    BY <2>1, <2>2, <2>3
<1>4. request' \in [Requests -> Request]
  BY RequestMoves
<1>5. \A q \in Requests : AboutRight(q)'
  <2>1. \A q \in Requests : AboutRight(q)
    BY DEF TypeOK, AboutRight
  <2>2. ASSUME NEW q \in Requests, request'[q] = request[q] PROVE AboutRight(q)'
    BY <1>2, <2>1, <2>2 DEF AboutRight, Graded, Found
  <2>3. AboutRight(r)'
    BY <1>2, <2>1, RequestMoves DEF AboutRight, Graded, Pending, Practising,
       Found
  <2> QED
    BY <2>2, <2>3, RequestMoves
<1> QED
  BY <1>1, <1>2, <1>3, <1>4, <1>5, <1>6, <1>7 DEF TypeOK, AboutRight

\* So do the teacher, the clock and the assistant.
LEMMA OtherType ==
  ASSUME TypeOK, Teach \/ Assist PROVE TypeOK'
<1> USE DEF rows, standing, keyVars, teaching, Offers
<1>1. CASE Teach
  <2>1. /\ offer' \in Offers /\ window' \in {"early", "open", "closed"}
        /\ progress' \in Progress /\ best' \in 0..MaxScore
    BY <1>1, BoundsAssumption
       DEF Teach, Publish, Remove, DeleteQuiz, WindowMoves, TypeOK, Progress
  <2>2. UNCHANGED <<kind, done, score, filed, request, before, key, keyShown,
                    late>>
    BY <1>1 DEF Teach, Publish, Remove, DeleteQuiz, WindowMoves
  <2> QED
    BY <2>1, <2>2 DEF TypeOK, Graded, Found
<1>2. CASE Assist
  <2>1. UNCHANGED <<offer, window, kind, done, score, filed, progress, best,
                    request, before, late>>
    BY <1>2 DEF Assist, AskKey, KeyRead, DecideKey
  <2>2. key' \in Key
    <3>1. Unasked \in Key
      BY DEF Unasked, Key
    <3>2. CASE AskKey
      <4>1. [Unasked EXCEPT !.asked = TRUE] \in Key
        BY <3>1 DEF Key
      <4> QED
        BY <3>2, <4>1 DEF AskKey, Key, Unasked
    <3>3. ASSUME NEW what \in Reads, KeyRead(what) PROVE key' \in Key
      <4>1. /\ key.left \in SUBSET Reads /\ key.gate \in Offers \cup {"unread"}
            /\ key.exhausted \in BOOLEAN /\ key.pending \in BOOLEAN
        BY DEF TypeOK, Key
      <4>2. Exhausted(Used) \in BOOLEAN /\ offer \in Offers
        BY DEF Exhausted, TypeOK
      <4> QED
        BY <3>3, <4>1, <4>2 DEF KeyRead, Key
    <3>4. CASE DecideKey
      BY <3>1, <3>4 DEF DecideKey
    <3> QED
      BY <1>2, <3>2, <3>3, <3>4 DEF Assist
  <2>3. keyShown' \in BOOLEAN
    BY <1>2 DEF Assist, AskKey, KeyRead, DecideKey, Final, TypeOK
  <2> QED
    BY <2>1, <2>2, <2>3 DEF TypeOK, Graded, Found
<1> QED
  BY <1>1, <1>2

-----------------------------------------------------------------------------
(* The invariant behind the rest: rows not opened yet are not done.        *)

Fresh == \A a \in Attempts : kind[a] = "none" => ~done[a]
TypeInv == TypeOK /\ Fresh

LEMMA ServeFresh ==
  ASSUME TypeInv, NEW r \in Requests, Serve(r) PROVE Fresh'
<1>1. ASSUME NEW a \in Attempts, kind'[a] = "none" PROVE ~done'[a]
  <2>1. kind[a] = "none" /\ ~done[a]
    BY <1>1, KindKept DEF TypeInv, Fresh
  <2>2. AboutRight(r) /\ done \in [Attempts -> BOOLEAN]
    BY DEF TypeInv, TypeOK, AboutRight
  <2>3. ASSUME NEW s \in 0..MaxScore, Grade(r, s) PROVE ~done'[a]
    <3>1. /\ request[r].att \in Graded
          /\ done' = [done EXCEPT ![request[r].att] = TRUE]
      BY <2>2, <2>3 DEF Grade, At, AboutRight
    <3> QED
      BY <2>1, <2>2, <3>1 DEF Graded
  <2>4. CASE UNCHANGED <<done, score>>
    BY <2>1, <2>4
  <2>5. ASSUME request[r].pc = "practiceClaim",
               done' = [done EXCEPT ![request[r].att] = TRUE]
        PROVE  ~done'[a]
    BY <2>1, <2>2, <2>5 DEF AboutRight
  <2> QED
    BY <2>1, <2>3, <2>4, <2>5, RowsMove DEF TypeInv
<1> QED
  BY <1>1 DEF Fresh

LEMMA InitTypes == Init => TypeInv
<1> SUFFICES ASSUME Init PROVE TypeInv
  OBVIOUS
<1>1. 0 \in 0..MaxScore
  BY BoundsAssumption
<1>2. /\ offer \in Offers /\ window \in {"early", "open", "closed"}
      /\ kind \in [Attempts -> {"none", "graded", "practice"}]
      /\ done \in [Attempts -> BOOLEAN] /\ score \in [Attempts -> 0..MaxScore]
      /\ filed \in [Attempts -> BOOLEAN]
  BY <1>1 DEF Init, Offers
<1>3. /\ progress \in Progress /\ best \in 0..MaxScore
      /\ keyShown \in BOOLEAN /\ late \in SUBSET Attempts
      /\ before \in Plain
  BY <1>1 DEF Init, Progress, NoneOpen, Plain, Offers
<1>4. request \in [Requests -> Request]
  BY IdleType DEF Init
<1>5. key \in Key
  BY DEF Init, Unasked, Key
<1>6. \A r \in Requests : request[r].pc = "idle"
  BY IdleType DEF Init
<1>7. Fresh
  BY DEF Init, Fresh
<1> QED
  BY <1>2, <1>3, <1>4, <1>5, <1>6, <1>7 DEF TypeInv, TypeOK

\* Nobody but the student's requests touches attempts or requests.
LEMMA OthersLook ==
  ASSUME Teach \/ Assist \/ UNCHANGED vars
  PROVE  UNCHANGED <<kind, done, score, filed, request, before, late>>
BY DEF Teach, Publish, Remove, DeleteQuiz, WindowMoves, Assist, AskKey,
       KeyRead, DecideKey, vars, rows

LEMMA StepTypes == TypeInv /\ [Next]_vars => TypeInv'
<1> SUFFICES ASSUME TypeInv, [Next]_vars PROVE TypeInv'
  OBVIOUS
<1>1. ASSUME NEW r \in Requests, Serve(r) PROVE TypeInv'
  BY <1>1, ServeType, ServeFresh DEF TypeInv
<1>2. CASE Teach \/ Assist
  BY <1>2, OtherType, OthersLook DEF TypeInv, Fresh
<1>3. CASE UNCHANGED vars
  BY <1>3 DEF TypeInv, TypeOK, Fresh, Graded, Found, vars
<1> QED
  BY <1>1, <1>2, <1>3 DEF Next

LEMMA TypesHold == Spec => []TypeInv
BY InitTypes, StepTypes, PTL DEF Spec

\* Every variable keeps its type, and a request that submits is about a graded
\* or practice attempt as its route requires, for any attempts and requests.
THEOREM TypeCorrect == Spec => []TypeOK
<1>1. TypeInv => TypeOK
  BY DEF TypeInv
<1> QED
  BY <1>1, TypesHold, PTL

-----------------------------------------------------------------------------
(* The open transaction.                                                   *)

Offered == offer \in {"hidden", "published"}
BeforeOffered == before.offer \in {"hidden", "published"}

\* What a start found when its transaction began is still so, and the plain
\* statements that fell into it have not taken the quiz from the class.
StillSo(r) ==
  /\ Offered <=> BeforeOffered
  /\ before.offer = "deleted" => offer = "deleted"
  /\ before.offer # "deleted"
       => IF Found(r) THEN request[r].att \in Pending ELSE Pending = {}

\* Only one transaction is open.
OpenInv ==
  \A r \in Requests : At(r, "opened") =>
    /\ StillSo(r)
    /\ \A q \in Requests : At(q, "opened") => q = r

\* The steps that end the transaction of a start.
Decides(r) == Resume(r) \/ Allocate(r) \/ RefuseStart(r) \/ StartThrows(r)

LEMMA DecidesCloses ==
  ASSUME TypeInv, OpenInv, NEW r \in Requests, Serve(r), At(r, "opened")
  PROVE  Decides(r) /\ Idling'
<1>1. Decides(r)
  BY DEF Serve, StartCheck, OpenStart, TellLimit, SubmitRead, PracticeRead,
         ReadCap, RefuseSubmit, SubmitThrows, Grade, PracticeSubmit,
         FileResult, FilingFails, PracticeCheck, PracticeStart, At, Decides
<1>2. \A q \in Requests \ {r} : request[q].pc # "opened"
  BY DEF OpenInv, At
<1>3. /\ \A q \in Requests \ {r} : request'[q] = request[q]
      /\ request'[r].pc # "opened"
  BY RequestMoves DEF TypeInv, At
<1> QED
  BY <1>1, <1>2, <1>3 DEF Idling, At

\* Whoever neither begins nor ends a transaction leaves what a start found.
LEMMA BesideOpen ==
  ASSUME TypeInv, NEW r \in Requests, Serve(r), ~OpenStart(r), ~At(r, "opened")
  PROVE  /\ UNCHANGED <<offer, before>> /\ request'[r].pc # "opened"
         /\ ~Idling => UNCHANGED <<kind, done, score>>
<1>1. /\ UNCHANGED <<offer, before>>
      /\ ~Idling => UNCHANGED <<kind, done, score>>
  BY DEF Serve, StartCheck, Resume, Allocate, RefuseStart, StartThrows,
         TellLimit, SubmitRead, PracticeRead, ReadCap, RefuseSubmit,
         SubmitThrows, Grade, PracticeSubmit, FileResult, FilingFails,
         PracticeCheck, PracticeStart, teaching, rows
<1>2. request[r].pc # "start" \/ StartCheck(r)
  BY DEF Serve, Resume, Allocate, RefuseStart, StartThrows, TellLimit,
         SubmitRead, PracticeRead, ReadCap, RefuseSubmit, SubmitThrows, Grade,
         PracticeSubmit, FileResult, FilingFails, PracticeCheck,
         PracticeStart, At
<1>3. StartCheck(r) => request[r].pc = "idle"
  BY DEF StartCheck, At
<1>4. request'[r].pc # "opened"
  BY <1>2, <1>3, RequestMoves DEF TypeInv
<1> QED
  BY <1>1, <1>4

LEMMA ServeOpen ==
  ASSUME TypeInv, OpenInv, NEW r \in Requests, Serve(r) PROVE OpenInv'
<1>0. \A q \in Requests \ {r} : request'[q] = request[q]
  BY RequestMoves DEF TypeInv
<1>1. CASE OpenStart(r)
  <2>1. /\ UNCHANGED <<offer, kind, done>> /\ before'.offer = offer
        /\ \A q \in Requests : request[q].pc # "opened"
    BY <1>1 DEF OpenStart, teaching, rows, Idling, At
  <2>2. Pending' = Pending
    BY <2>1 DEF Pending, Graded
  <2> DEFINE found == IF offer = "deleted" THEN {} ELSE Pending
  <2>3. PICK a \in IF found = {} THEN {NoAttempt} ELSE found :
          request' = [request EXCEPT ![r] = Takes("opened", a)]
    BY <1>1 DEF OpenStart
  <2>4. request'[r].att = a
    BY <2>3 DEF Takes, TypeInv, TypeOK
  <2>5. StillSo(r)'
    <3>1. \A b \in Pending : b # NoAttempt
      BY AttemptsAssumption DEF Pending, Graded
    <3> QED
      BY <2>1, <2>2, <2>3, <2>4, <3>1 DEF StillSo, Offered, BeforeOffered,
                                          Found
  <2> QED
    BY <1>0, <2>1, <2>5 DEF OpenInv, At
<1>2. CASE At(r, "opened")
  BY <1>2, DecidesCloses DEF OpenInv, Idling
<1>3. CASE ~OpenStart(r) /\ ~At(r, "opened")
  <2>1. ASSUME NEW q \in Requests, At(q, "opened")'
        PROVE  /\ StillSo(q)'
               /\ \A p \in Requests : At(p, "opened")' => p = q
    <3>1. q # r /\ At(q, "opened") /\ request'[q] = request[q]
      BY <1>0, <1>3, <2>1, BesideOpen DEF At
    <3>2. UNCHANGED <<offer, before, kind, done>>
      BY <1>3, <3>1, BesideOpen DEF Idling
    <3>3. Pending' = Pending
      BY <3>2 DEF Pending, Graded
    <3>4. StillSo(q)'
      BY <3>1, <3>2, <3>3 DEF OpenInv, StillSo, Offered, BeforeOffered, Found
    <3>5. \A p \in Requests : At(p, "opened")' => p # r
      BY <1>3, BesideOpen DEF At
    <3> QED
      BY <1>0, <3>1, <3>4, <3>5 DEF OpenInv, At
  <2> QED
    BY <2>1 DEF OpenInv
<1> QED
  BY <1>1, <1>2, <1>3

LEMMA StepOpen == TypeInv /\ OpenInv /\ [Next]_vars => OpenInv'
<1> SUFFICES ASSUME TypeInv, OpenInv, [Next]_vars PROVE OpenInv'
  OBVIOUS
<1>1. ASSUME NEW r \in Requests, Serve(r) PROVE OpenInv'
  BY <1>1, ServeOpen
<1>2. CASE Teach \/ Assist \/ UNCHANGED vars
  <2>1. /\ offer = "deleted" => offer' = "deleted"
        /\ ~Idling => (Offered' <=> Offered)
    BY <1>2 DEF Teach, Publish, Remove, DeleteQuiz, WindowMoves, Assist,
                AskKey, KeyRead, DecideKey, teaching, vars, Offered
  <2>2. UNCHANGED <<request, before>> /\ Pending' = Pending
    BY <1>2, OthersLook DEF Pending, Graded
  <2>3. \A r \in Requests : At(r, "opened") => ~Idling
    BY DEF Idling
  <2> QED
    BY <2>1, <2>2, <2>3 DEF OpenInv, StillSo, BeforeOffered, Offered, Found, At
<1> QED
  BY <1>1, <1>2 DEF Next

LEMMA OpenHolds == Spec => []OpenInv
<1>1. Init => OpenInv
  BY IdleType DEF Init, OpenInv, At
<1> QED
  BY <1>1, StepOpen, TypesHold, PTL DEF Spec

\* A roll-back neither offers the quiz again nor takes it from the class.
LEMMA RollBackOffers ==
  ASSUME OpenInv, NEW r \in Requests, At(r, "opened"), RollBack
  PROVE  Offered' <=> Offered
BY DEF OpenInv, StillSo, RollBack, Offered, BeforeOffered

-----------------------------------------------------------------------------
(* The graded attempts.                                                    *)

\* They grow by one attempt at a time: the one a submission claimed.
LEMMA UsedMoves ==
  ASSUME TypeInv, NEW r \in Requests, Serve(r)
  PROVE  \/ Used' = Used /\ \A a \in Used : score'[a] = score[a]
         \/ \E s \in 0..MaxScore :
              /\ Grade(r, s)
              /\ request[r].att \in Attempts \ Used
              /\ Used' = Used \cup {request[r].att}
              /\ score'[request[r].att] = s
              /\ \A a \in Used : score'[a] = score[a]
<1>0. /\ kind \in [Attempts -> {"none", "graded", "practice"}]
      /\ done \in [Attempts -> BOOLEAN] /\ score \in [Attempts -> 0..MaxScore]
      /\ AboutRight(r)
      /\ \A a \in Attempts : kind[a] # "none" => kind'[a] = kind[a]
  BY KindKept DEF TypeInv, TypeOK, AboutRight
<1>1. CASE UNCHANGED <<done, score>>
  BY <1>0, <1>1 DEF TypeInv, Fresh, Used, Graded
<1>2. ASSUME NEW s \in 0..MaxScore, Grade(r, s), UNCHANGED kind
      PROVE  /\ request[r].att \in Attempts \ Used
             /\ Used' = Used \cup {request[r].att}
             /\ score'[request[r].att] = s
             /\ \A a \in Used : score'[a] = score[a]
  <2>1. /\ request[r].att \in Graded /\ ~done[request[r].att]
        /\ done' = [done EXCEPT ![request[r].att] = TRUE]
        /\ score' = [score EXCEPT ![request[r].att] = s]
    BY <1>0, <1>2 DEF Grade, At, Claims, AboutRight
  <2> QED
    BY <1>0, <1>2, <2>1 DEF Used, Graded
<1>3. ASSUME request[r].pc = "practiceClaim", UNCHANGED kind,
             NEW s \in 0..MaxScore,
             done' = [done EXCEPT ![request[r].att] = TRUE],
             score' = [score EXCEPT ![request[r].att] = s]
      PROVE  Used' = Used /\ \A a \in Used : score'[a] = score[a]
  <2>1. request[r].att \in Attempts /\ kind[request[r].att] = "practice"
    BY <1>0, <1>3 DEF AboutRight
  <2> QED
    BY <1>0, <1>3, <2>1 DEF Used, Graded
<1> QED
  BY <1>1, <1>2, <1>3, RowsMove DEF TypeInv

LEMMA UsedKept ==
  ASSUME Teach \/ Assist \/ UNCHANGED vars
  PROVE  Used' = Used /\ Pending' = Pending /\ Graded' = Graded
BY OthersLook DEF Used, Pending, Graded

LEMMA UsedFinite == IsFiniteSet(Used) /\ Cardinality(Used) \in Nat
<1>1. Used \subseteq Attempts
  BY DEF Used, Graded
<1> QED
  BY <1>1, AttemptsAssumption, FS_Subset, FS_CardinalityType

\* An attempt is graded once and its score stays: the second of two submissions
\* changes nothing.
THEOREM OneGrading == Spec => GradedOnce
<1>1. TypeInv /\ [Next]_vars =>
        [\A a \in Attempts : done[a] => done'[a] /\ score'[a] = score[a]]_vars
  <2> SUFFICES ASSUME TypeInv, [Next]_vars, NEW a \in Attempts, done[a]
               PROVE  done'[a] /\ score'[a] = score[a]
    OBVIOUS
  <2>0. done \in [Attempts -> BOOLEAN] /\ score \in [Attempts -> 0..MaxScore]
    BY DEF TypeInv, TypeOK
  <2>1. ASSUME NEW r \in Requests, Serve(r)
        PROVE  done'[a] /\ score'[a] = score[a]
    <3>1. ASSUME NEW s \in 0..MaxScore, Grade(r, s)
          PROVE  done'[a] /\ score'[a] = score[a]
      <4>1. /\ ~done[request[r].att]
            /\ done' = [done EXCEPT ![request[r].att] = TRUE]
            /\ score' = [score EXCEPT ![request[r].att] = s]
        BY <3>1 DEF Grade, Claims
      <4> QED
        BY <2>0, <4>1
    <3> QED
      BY <2>0, <2>1, <3>1, RowsMove DEF TypeInv
  <2>2. CASE Teach \/ Assist \/ UNCHANGED vars
    BY <2>2, OthersLook
  <2> QED
    BY <2>1, <2>2 DEF Next
<1> QED
  BY <1>1, TypesHold, PTL DEF Spec, GradedOnce

-----------------------------------------------------------------------------
(* The cap.                                                                *)

\* Whoever is about to grade while the class offers the quiz has read the cap.
CapInv ==
  Offered =>
    /\ \A r \in Requests : request[r].pc = "claim" => request[r].capped
    /\ Cap > 0 => Cardinality(Used) <= Cap

\* A request takes no quiz from its class and offers none again.
LEMMA ServeOffers ==
  ASSUME TypeInv, OpenInv, NEW r \in Requests, Serve(r)
  PROVE  Offered' <=> Offered
<1>1. CASE RollBack /\ At(r, "opened")
  BY <1>1, RollBackOffers
<1>2. CASE UNCHANGED offer
  BY <1>2 DEF Offered
<1>3. CASE \/ Resume(r) \/ Allocate(r) \/ FileResult(r)
           \/ \E s \in 0..MaxScore : Grade(r, s) \/ PracticeSubmit(r, s)
  BY <1>2, <1>3 DEF Resume, Allocate, FileResult, Grade, PracticeSubmit,
                    teaching
<1> QED
  BY <1>1, <1>2, <1>3, PlainMove DEF TypeInv

LEMMA ServeCap ==
  ASSUME TypeInv, OpenInv, CapInv, NEW r \in Requests, Serve(r) PROVE CapInv'
<1>0. (Offered' <=> Offered) /\ request \in [Requests -> Request]
  BY ServeOffers DEF TypeInv, TypeOK
<1> SUFFICES ASSUME Offered
             PROVE  /\ \A q \in Requests : request'[q].pc = "claim"
                                              => request'[q].capped
                    /\ Cap > 0 => Cardinality(Used') <= Cap
  BY <1>0 DEF CapInv
<1>1. \A q \in Requests : request'[q].pc = "claim" => request'[q].capped
  <2>1. \A q \in Requests \ {r} : request'[q] = request[q]
    BY RequestMoves DEF TypeInv
  <2>2. request'[r].pc = "claim" => request'[r].capped
    <3>1. CASE ReadCap(r)
      BY <1>0, <3>1, ReadCapMove DEF Offered
    <3>2. CASE ~ReadCap(r)
      <4>1. request'[r].pc = "claim" => request[r].pc = "read"
        BY RequestMoves DEF TypeInv
      <4>2. request[r].pc # "read"
        BY <3>2 DEF Serve, StartCheck, OpenStart, Resume, Allocate,
           RefuseStart, StartThrows, TellLimit, SubmitRead, PracticeRead,
           RefuseSubmit, SubmitThrows, Grade, PracticeSubmit, FileResult,
           FilingFails, PracticeCheck, PracticeStart, At
      <4> QED
        BY <4>1, <4>2
    <3> QED
      BY <3>1, <3>2
  <2> QED
    BY <2>1, <2>2 DEF CapInv
<1>2. ASSUME Cap > 0 PROVE Cardinality(Used') <= Cap
  <2>1. CASE Used' = Used
    BY <1>2, <2>1 DEF CapInv
  <2>2. ASSUME NEW s \in 0..MaxScore, Grade(r, s),
               request[r].att \in Attempts \ Used,
               Used' = Used \cup {request[r].att}
        PROVE  Cardinality(Used') <= Cap
    <3>1. ~Exhausted(Others(request[r].att))
      BY <2>2 DEF Grade, At, Refused, CapInv
    <3>2. Others(request[r].att) = Used
      BY <2>2 DEF Others
    <3>3. ~(Cardinality(Used) >= Cap)
      BY <1>2, <3>1, <3>2 DEF Exhausted
    <3>4. Cardinality(Used') = Cardinality(Used) + 1
      BY <2>2, UsedFinite, FS_AddElement
    <3> QED
      BY <3>3, <3>4, UsedFinite, CapAssumption
  <2> QED
    BY <2>1, <2>2, UsedMoves
<1> QED
  BY <1>1, <1>2

LEMMA StepCap == TypeInv /\ OpenInv /\ CapInv /\ [Next]_vars => CapInv'
<1> SUFFICES ASSUME TypeInv, OpenInv, CapInv, [Next]_vars PROVE CapInv'
  OBVIOUS
<1>1. ASSUME NEW r \in Requests, Serve(r) PROVE CapInv'
  BY <1>1, ServeCap
<1>2. CASE Teach \/ Assist \/ UNCHANGED vars
  <2>1. Offered' => Offered
    BY <1>2 DEF Teach, Publish, Remove, DeleteQuiz, WindowMoves, Assist, AskKey,
                KeyRead, DecideKey, teaching, vars, Offered
  <2> QED
    BY <1>2, <2>1, UsedKept, OthersLook DEF CapInv
<1> QED
  BY <1>1, <1>2 DEF Next

\* While the class offers the quiz, no more attempts are graded than the cap
\* allows, however many requests submit at once and however many unfinished
\* attempts an older version left.
THEOREM CapKept == Spec => []CapHolds
<1>1. Init => CapInv
  <2> SUFFICES ASSUME Init PROVE CapInv
    OBVIOUS
  <2>1. Used = {}
    BY DEF Init, Used, Graded
  <2>2. \A r \in Requests : request[r].pc = "idle"
    BY IdleType DEF Init
  <2>3. Cardinality(Used) = 0
    BY <2>1, FS_EmptySet
  <2> QED
    BY <2>2, <2>3, CapAssumption DEF CapInv
<1>2. CapInv => CapHolds
  BY DEF CapInv, CapHolds, Offered
<1> QED
  BY <1>1, <1>2, StepCap, TypesHold, OpenHolds, PTL DEF Spec

-----------------------------------------------------------------------------
(* The unfinished attempts.                                                *)

\* A start without one to resume opens one; a submission closes its own; no
\* other step of a request moves an attempt in or out of the graded record.
LEMMA AllocateMoves ==
  ASSUME TypeInv, OpenInv, NEW r \in Requests, Allocate(r)
  PROVE  /\ Pending = {} /\ ~Exhausted(Used) /\ progress' = "IN_PROGRESS"
         /\ UNCHANGED <<offer, window, best, key, keyShown>>
         /\ \E a \in Attempts \ Graded :
              /\ Graded' = Graded \cup {a} /\ Pending' = {a}
              /\ late \subseteq late'
              /\ ~Open \/ key.asked => a \in late'
<1>1. PICK a \in Attempts : /\ kind[a] = "none"
                            /\ kind' = [kind EXCEPT ![a] = "graded"]
                            /\ late' = IF ~Open \/ key.asked THEN late \cup {a}
                                                             ELSE late
  BY DEF Allocate
<1>2. /\ ~done[a] /\ done' = done
      /\ kind \in [Attempts -> {"none", "graded", "practice"}]
  BY <1>1 DEF Allocate, TypeInv, TypeOK, Fresh
<1>3. Pending = {} /\ ~Exhausted(Used)
  BY DEF Allocate, OpenInv, StillSo
<1>4. a \notin Graded /\ Graded' = Graded \cup {a} /\ Pending' = {a}
  BY <1>1, <1>2, <1>3 DEF Graded, Pending
<1> QED
  BY <1>1, <1>3, <1>4 DEF Allocate, teaching, keyVars

LEMMA GradeMoves ==
  ASSUME TypeInv, NEW r \in Requests, NEW s \in 0..MaxScore, Grade(r, s)
  PROVE  /\ UNCHANGED <<offer, window, key, keyShown, late>>
         /\ progress' = "COMPLETED" /\ best' = Best(s)
         /\ Graded' = Graded /\ Pending' \subseteq Pending
<1>1. /\ done' = [done EXCEPT ![request[r].att] = TRUE] /\ kind' = kind
      /\ done \in [Attempts -> BOOLEAN]
  BY DEF Grade, TypeInv, TypeOK
<1> QED
  BY <1>1 DEF Grade, Graded, Pending, teaching, keyVars

LEMMA QuietMoves ==
  ASSUME TypeInv, OpenInv, NEW r \in Requests, Serve(r), ~Allocate(r),
         ~\E s \in 0..MaxScore : Grade(r, s)
  PROVE  /\ UNCHANGED <<window, key, keyShown, late>>
         /\ \/ UNCHANGED <<offer, progress, best>>
            \/ /\ UNCHANGED <<offer, best>>
               /\ progress' = "IN_PROGRESS" /\ Pending # {}
            \/ RollBack /\ At(r, "opened")
         /\ Graded' = Graded /\ Pending' = Pending /\ Used' = Used
         /\ \A a \in Used : score'[a] = score[a]
<1>1. /\ UNCHANGED <<window, key, keyShown, late>>
      /\ \/ UNCHANGED <<offer, progress, best>>
         \/ /\ UNCHANGED <<offer, best>>
            /\ progress' = "IN_PROGRESS" /\ Pending # {}
         \/ RollBack /\ At(r, "opened")
  <2>1. UNCHANGED <<window, key, keyShown>>
    BY PlainMove DEF TypeInv
  <2>2. late' = late
    BY DEF Serve, StartCheck, OpenStart, Resume, RefuseStart, StartThrows,
           RollBack, TellLimit, SubmitRead, PracticeRead, ReadCap,
           RefuseSubmit, SubmitThrows, PracticeSubmit, FileResult, FilingFails,
           PracticeCheck, PracticeStart
  <2>3. CASE Resume(r)
    BY <2>1, <2>2, <2>3 DEF Resume, OpenInv, StillSo, teaching
  <2>4. CASE FileResult(r) \/ \E s \in 0..MaxScore : PracticeSubmit(r, s)
    BY <2>1, <2>2, <2>4 DEF FileResult, PracticeSubmit, teaching, standing
  <2> QED
    BY <2>1, <2>2, <2>3, <2>4, PlainMove DEF TypeInv
<1>2. Graded' = Graded
  <2>0. kind \in [Attempts -> {"none", "graded", "practice"}]
    BY DEF TypeInv, TypeOK
  <2>1. CASE PracticeStart(r)
    BY <2>0, <2>1 DEF PracticeStart, Graded
  <2>2. CASE ~PracticeStart(r)
    <3>1. kind' = kind
      BY <2>2 DEF Serve, StartCheck, OpenStart, Resume, RefuseStart,
         StartThrows, RollBack, TellLimit, SubmitRead, PracticeRead, ReadCap,
         RefuseSubmit, SubmitThrows, PracticeSubmit, FileResult, FilingFails,
         PracticeCheck, rows
    <3> QED
      BY <3>1 DEF Graded
  <2> QED
    BY <2>1, <2>2
<1>3. Used' = Used /\ \A a \in Used : score'[a] = score[a]
  BY UsedMoves
<1>4. Pending = Graded \ Used /\ Pending' = Graded' \ Used'
  BY DEF Pending, Used
<1> QED
  BY <1>1, <1>2, <1>3, <1>4

\* However starts race, an unfinished attempt is only added when there is none:
\* what a start found when its transaction began still holds when it decides,
\* because no transaction begins or writes while another is open.
THEOREM OneUnfinished == Spec => NoStockpile
<1>1. TypeInv /\ OpenInv /\ [Next]_vars
        => [Pending' \subseteq Pending \/ Pending = {}]_vars
  <2> SUFFICES ASSUME TypeInv, OpenInv, [Next]_vars
               PROVE  Pending' \subseteq Pending \/ Pending = {}
    OBVIOUS
  <2>1. ASSUME NEW r \in Requests, Serve(r)
        PROVE  Pending' \subseteq Pending \/ Pending = {}
    BY <2>1, AllocateMoves, GradeMoves, QuietMoves
  <2>2. CASE Teach \/ Assist \/ UNCHANGED vars
    BY <2>2, UsedKept
  <2> QED
    BY <2>1, <2>2 DEF Next
<1> QED
  BY <1>1, TypesHold, OpenHolds, PTL DEF Spec, NoStockpile

-----------------------------------------------------------------------------
(* What the student sees of them.                                          *)

Agrees(o, p, b) ==
  o # "deleted" =>
    /\ CASE p = "IN_PROGRESS" -> Pending # {}
         [] p = "COMPLETED" -> Used # {}
         [] p = "NONE" -> Graded = {}
    /\ \A a \in Used : score[a] <= b
    /\ b = 0 \/ \E a \in Used : score[a] = b

\* What a roll-back would restore agrees with the attempts as well.
ProgInv ==
  /\ Agrees(offer, progress, best)
  /\ ~Idling => Agrees(before.offer, before.progress, before.best)

LEMMA SameAttempts ==
  ASSUME Graded' = Graded, Pending' = Pending, Used' = Used,
         \A a \in Used : score'[a] = score[a]
  PROVE  \A o, p, b : Agrees(o, p, b) <=> Agrees(o, p, b)'
BY DEF Agrees

LEMMA GradeProgress ==
  ASSUME TypeInv, Agrees(offer, progress, best), NEW r \in Requests,
         NEW s \in 0..MaxScore, Grade(r, s)
  PROVE  Agrees(offer, progress, best)'
<1>1. /\ progress' = "COMPLETED" /\ best' = Best(s) /\ offer' = offer
      /\ s \in Int /\ s >= 0 /\ best \in Int
      /\ \A a \in Used : score[a] \in Int
  BY GradeMoves, BoundsAssumption DEF TypeInv, TypeOK, Used, Graded
<1>2. /\ request[r].att \in Attempts \ Used
      /\ Used' = Used \cup {request[r].att}
      /\ score'[request[r].att] = s
      /\ \A a \in Used : score'[a] = score[a]
  <2>1. /\ done[request[r].att] = FALSE /\ request[r].att \in Graded
        /\ done' = [done EXCEPT ![request[r].att] = TRUE]
        /\ score' = [score EXCEPT ![request[r].att] = s]
        /\ kind' = kind
    BY DEF Grade, At, Claims, TypeInv, TypeOK, Graded
  <2> QED
    BY <2>1 DEF Used, Graded, TypeInv, TypeOK
<1>3. \A a \in Used' : score'[a] <= best'
  BY <1>1, <1>2 DEF Agrees, Best, Grade
<1>4. best' = 0 \/ \E a \in Used' : score'[a] = best'
  BY <1>1, <1>2 DEF Agrees, Best, Grade
<1> QED
  BY <1>1, <1>2, <1>3, <1>4 DEF Agrees

LEMMA ServeProgress ==
  ASSUME TypeInv, OpenInv, ProgInv, NEW r \in Requests, Serve(r)
  PROVE  ProgInv'
<1>0. ~Allocate(r) /\ (~\E s \in 0..MaxScore : Grade(r, s))
        => \A o, p, b : Agrees(o, p, b) <=> Agrees(o, p, b)'
  BY QuietMoves, SameAttempts
<1>1. Agrees(offer, progress, best)'
  <2>1. CASE Allocate(r)
    <3>1. Used' = Used /\ \A a \in Used : score'[a] = score[a]
      <4>1. At(r, "opened")
        BY <2>1 DEF Allocate
      <4> QED
        BY <4>1, UsedMoves DEF Grade, At
    <3> QED
      BY <2>1, <3>1, AllocateMoves DEF ProgInv, Agrees
  <2>2. ASSUME NEW s \in 0..MaxScore, Grade(r, s)
        PROVE  Agrees(offer, progress, best)'
    BY <2>2, GradeProgress DEF ProgInv
  <2>3. CASE ~Allocate(r) /\ ~\E s \in 0..MaxScore : Grade(r, s)
    <3>1. CASE UNCHANGED <<offer, progress, best>>
      BY <1>0, <2>3, <3>1 DEF ProgInv
    <3>2. CASE /\ UNCHANGED <<offer, best>>
               /\ progress' = "IN_PROGRESS" /\ Pending # {}
      BY <2>3, <3>2, QuietMoves DEF ProgInv, Agrees
    <3>3. CASE RollBack /\ At(r, "opened")
      BY <1>0, <2>3, <3>3 DEF ProgInv, RollBack, Idling
    <3> QED
      BY <2>3, <3>1, <3>2, <3>3, QuietMoves
  <2> QED
    BY <2>1, <2>2, <2>3
<1>2. ASSUME ~Idling'
      PROVE  Agrees(before.offer, before.progress, before.best)'
  <2>1. ~At(r, "opened")
    BY <1>2, DecidesCloses
  <2>2. ~Allocate(r)
    BY <2>1 DEF Allocate
  <2>3. CASE OpenStart(r)
    <3>1. /\ before'.offer = offer /\ before'.progress = progress
          /\ before'.best = best
          /\ ~\E s \in 0..MaxScore : Grade(r, s)
      BY <2>3 DEF OpenStart, Grade, At
    <3> QED
      BY <1>0, <2>2, <3>1 DEF ProgInv
  <2>4. CASE ~OpenStart(r)
    <3>1. before' = before /\ request'[r].pc # "opened"
      BY <2>1, <2>4, BesideOpen
    <3>2. ~Idling
      BY <1>2, <3>1, RequestMoves DEF TypeInv, Idling, At
    <3>3. ~\E s \in 0..MaxScore : Grade(r, s)
      BY <3>2 DEF Grade
    <3> QED
      BY <1>0, <2>2, <3>1, <3>2, <3>3 DEF ProgInv
  <2> QED
    BY <2>3, <2>4
<1> QED
  BY <1>1, <1>2 DEF ProgInv

\* In whatever order attempts are started, submitted and practised, and
\* whatever a refused start rolls back, the progress and the best score are
\* those of the graded attempts.
THEOREM ProgressTrue == Spec => []ProgressAgrees
<1>1. Init => ProgInv
  BY BoundsAssumption, IdleType DEF Init, ProgInv, Agrees, Pending, Used,
                                    Graded, Idling, At
<1>2. TypeInv /\ OpenInv /\ ProgInv /\ [Next]_vars => ProgInv'
  <2> SUFFICES ASSUME TypeInv, OpenInv, ProgInv, [Next]_vars
               PROVE  ProgInv'
    OBVIOUS
  <2>1. ASSUME NEW r \in Requests, Serve(r) PROVE ProgInv'
    BY <2>1, ServeProgress
  <2>2. CASE Teach \/ Assist \/ UNCHANGED vars
    <3>1. offer' # "deleted"
            => UNCHANGED <<progress, best>> /\ offer # "deleted"
      BY <2>2 DEF Teach, Publish, Remove, DeleteQuiz, WindowMoves, Assist,
         AskKey, KeyRead, DecideKey, teaching, standing, vars
    <3>2. /\ UNCHANGED <<request, before>>
          /\ \A o, p, b : Agrees(o, p, b) <=> Agrees(o, p, b)'
      BY <2>2, UsedKept, OthersLook, SameAttempts
    <3>3. Idling' <=> Idling
      BY <3>2 DEF Idling, At
    <3>4. Agrees(offer, progress, best)'
      BY <2>2, <3>1, UsedKept, OthersLook DEF ProgInv, Agrees
    <3> QED
      BY <3>2, <3>3, <3>4 DEF ProgInv
  <2> QED
    BY <2>1, <2>2 DEF Next
<1>3. ProgInv => ProgressAgrees
  BY DEF ProgInv, Agrees, ProgressAgrees
<1> QED
  BY <1>1, <1>2, <1>3, TypesHold, OpenHolds, PTL DEF Spec

-----------------------------------------------------------------------------
(* The answer key.  Each of the three reads of the decision may be stale   *)
(* when the decision is made, but what each says in favour of showing the  *)
(* key stays true, up to the attempts that started late: a removed quiz is *)
(* not offered again, used-up attempts stay used up, and an attempt that   *)
(* starts after the read of those in progress is late.                     *)

\* What the reads say so far.
ReadsTrue ==
  /\ key.gate \in {"removed", "deleted"} => ~Offered
  /\ key.exhausted => Exhausted(Used)
  /\ key.left # {} => key.asked
  /\ key.asked /\ "pending" \notin key.left /\ ~key.pending
       => Pending \subseteq late
\* Nothing starts any more that is not late.
Over == window = "closed" \/ Exhausted(Used)
ShownTrue == keyShown /\ Offered => Over /\ Pending \subseteq late
KeyInv == ReadsTrue /\ ShownTrue

LEMMA ExhaustedStays ==
  ASSUME IsFiniteSet(Used'), Used \subseteq Used'
  PROVE  Exhausted(Used) => Exhausted(Used')
<1>1. Cardinality(Used) <= Cardinality(Used') /\ Cardinality(Used') \in Nat
  BY FS_Subset, FS_CardinalityType
<1> QED
  BY <1>1, UsedFinite, CapAssumption DEF Exhausted

LEMMA UsedGrows == ASSUME TypeInv, [Next]_vars
                   PROVE  Exhausted(Used) => Exhausted(Used')
<1>1. Used \subseteq Used'
  BY UsedMoves, UsedKept DEF Next
<1>2. IsFiniteSet(Used')
  <2>1. Used' \subseteq Attempts
    BY DEF Used, Graded
  <2> QED
    BY <2>1, AttemptsAssumption, FS_Subset
<1> QED
  BY <1>1, <1>2, ExhaustedStays

LEMMA ServeKey ==
  ASSUME TypeInv, OpenInv, KeyInv, NEW r \in Requests, Serve(r)
  PROVE  KeyInv'
<1>1. UNCHANGED <<window, key, keyShown>> /\ (Offered' <=> Offered)
  BY ServeOffers, PlainMove DEF TypeInv
<1>2. Exhausted(Used) => Exhausted(Used')
  BY UsedGrows DEF Next
<1>3. CASE Pending' \subseteq Pending /\ late' = late
  BY <1>1, <1>2, <1>3 DEF KeyInv, ReadsTrue, ShownTrue, Over
<1>4. CASE Allocate(r)
  <2>1. /\ ~Exhausted(Used) /\ Pending = {}
        /\ ~Open \/ key.asked => Pending' \subseteq late'
    BY <1>4, AllocateMoves
  <2>2. ReadsTrue'
    BY <1>1, <1>2, <2>1 DEF KeyInv, ReadsTrue
  <2>3. ShownTrue'
    BY <1>1, <1>2, <2>1 DEF KeyInv, ShownTrue, Over, Offered, Open
  <2> QED
    BY <2>2, <2>3 DEF KeyInv
<1> QED
  BY <1>3, <1>4, GradeMoves, QuietMoves

LEMMA TeachKey ==
  ASSUME TypeInv, KeyInv, Teach PROVE KeyInv'
<1>1. /\ Offered' => Offered
      /\ window = "closed" => window' = "closed"
      /\ UNCHANGED <<key, keyShown>>
  BY DEF Teach, Publish, Remove, DeleteQuiz, WindowMoves, Offered, teaching,
         keyVars
<1>2. Used' = Used /\ Pending' = Pending /\ late' = late
  BY UsedKept, OthersLook
<1>3. Exhausted(Used') = Exhausted(Used)
  BY <1>2
<1> QED
  BY <1>1, <1>2, <1>3 DEF KeyInv, ReadsTrue, ShownTrue, Over

LEMMA AssistKey ==
  ASSUME TypeInv, KeyInv, Assist PROVE KeyInv'
<1>1. /\ Used' = Used /\ Pending' = Pending /\ late' = late
      /\ UNCHANGED <<offer, window>>
  BY UsedKept, OthersLook DEF Assist, AskKey, KeyRead, DecideKey, teaching
<1>2. Exhausted(Used') = Exhausted(Used) /\ Offered' = Offered
  BY <1>1 DEF Offered
<1>3. CASE AskKey
  <2>1. /\ keyShown' = keyShown
        /\ key' = [left |-> Reads, asked |-> TRUE, gate |-> "unread",
                   exhausted |-> FALSE, pending |-> FALSE]
    BY <1>3 DEF AskKey, Unasked
  <2>2. ReadsTrue'
    BY <2>1 DEF ReadsTrue, Reads
  <2> QED
    BY <1>1, <1>2, <2>1, <2>2 DEF KeyInv, ShownTrue, Over
<1>4. ASSUME NEW what \in Reads, KeyRead(what) PROVE KeyInv'
  <2>0. /\ key.asked /\ keyShown' = keyShown
        /\ key'.asked /\ key'.left = key.left \ {what}
    BY <1>4 DEF KeyRead, KeyInv, ReadsTrue
  <2>1. key'.gate = IF what = "gate" THEN offer ELSE key.gate
    BY <1>4 DEF KeyRead
  <2>2. key'.exhausted
          = IF what = "used" THEN Exhausted(Used) ELSE key.exhausted
    BY <1>4 DEF KeyRead
  <2>3. key'.pending = IF what = "pending" THEN Pending # {} ELSE key.pending
    BY <1>4 DEF KeyRead
  <2>4. ReadsTrue'
    BY <1>1, <1>2, <2>0, <2>1, <2>2, <2>3 DEF KeyInv, ReadsTrue, Offered
  <2> QED
    BY <1>1, <1>2, <2>0, <2>4 DEF KeyInv, ShownTrue, Over
<1>5. CASE DecideKey
  <2>1. key' = Unasked /\ keyShown' = Final /\ key.asked /\ key.left = {}
    BY <1>5 DEF DecideKey
  <2>2. ReadsTrue'
    BY <2>1 DEF ReadsTrue, Unasked
  <2>3. ASSUME Final, Offered PROVE Over /\ Pending \subseteq late
    BY <2>1, <2>3 DEF KeyInv, ReadsTrue, Final, Over
  <2> QED
    BY <1>1, <1>2, <2>1, <2>2, <2>3 DEF KeyInv, ShownTrue, Over
<1> QED
  BY <1>3, <1>4, <1>5 DEF Assist

\* Once the key of a quiz the class still offers has been shown, nothing can be
\* submitted but an attempt that was late, however the reads behind the
\* decision, the student's requests and the teacher interleave.
THEOREM KeyKept == Spec => []KeyHeld
<1>1. Init => KeyInv
  BY DEF Init, KeyInv, ReadsTrue, ShownTrue, Unasked
<1>2. TypeInv /\ OpenInv /\ KeyInv /\ [Next]_vars => KeyInv'
  <2> SUFFICES ASSUME TypeInv, OpenInv, KeyInv, [Next]_vars PROVE KeyInv'
    OBVIOUS
  <2>1. CASE UNCHANGED vars
    BY <2>1, UsedKept DEF KeyInv, ReadsTrue, ShownTrue, Over, Offered, vars
  <2> QED
    BY <2>1, ServeKey, TeachKey, AssistKey DEF Next
<1>3. KeyInv => KeyHeld
  BY DEF KeyInv, ShownTrue, Offered, KeyHeld
<1> QED
  BY <1>1, <1>2, <1>3, TypesHold, OpenHolds, PTL DEF Spec
=============================================================================
