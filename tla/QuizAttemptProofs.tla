------------------------- MODULE QuizAttemptProofs -------------------------
(***************************************************************************)
(* Theorems about QuizAttempt, for any number of requests, attempts,       *)
(* questions and cards.  One request at a time, and as long as no          *)
(* duplicate lookup fails, it implements AttemptLedger, whatever authors   *)
(* and card owners edit.  And what scores add up to: with any              *)
(* interleaving, the points listed for the questions an attempt counts;    *)
(* with one request at a time, the points of the answers stored.           *)
(***************************************************************************)
EXTENDS QuizAttemptLedger, DataLemmas

\* What Commit adds to correct_count: nothing or one question.
LEMMA HitType ==
  ASSUME NEW r \in Requests
  PROVE  /\ IsFiniteSet(Hit(r)) /\ Cardinality(Hit(r)) \in 0..1
         /\ ~req[r].right => Hit(r) = {} /\ Cardinality(Hit(r)) = 0
         /\ req[r].right  => Hit(r) = {req[r].question}
                             /\ Cardinality(Hit(r)) = 1
<1>1. CASE req[r].right
  <2>1. Hit(r) = {req[r].question}
    BY <1>1 DEF Hit
  <2>2. IsFiniteSet({req[r].question}) /\ Cardinality({req[r].question}) = 1
    BY FS_Singleton, Zenon
  <2> QED
    BY <1>1, <2>1, <2>2
<1>2. CASE ~req[r].right
  <2>1. Hit(r) = {}
    BY <1>2 DEF Hit
  <2>2. IsFiniteSet({}) /\ Cardinality({}) = 0
    BY FS_EmptySet, Zenon
  <2> QED
    BY <1>2, <2>1, <2>2
<1> QED
  BY <1>1, <1>2

\* No question listed is well typed, and lists nothing.
LEMMA NothingType == /\ Nothing \in [Questions -> 0..MaxPoints]
                     /\ NewRequest \in Request /\ FreeAttempt \in Attempt
<1>1. Nothing \in [Questions -> 0..MaxPoints]
  BY ConstantsOK DEF Nothing
<1>2. NewRequest \in Request
  BY <1>1, ConstantsOK DEF NewRequest, Request
<1>3. FreeAttempt \in Attempt
  BY <1>1 DEF FreeAttempt, Attempt, Life
<1> QED
  BY <1>1, <1>2, <1>3

\* Ending a request and publishing an answer keep the requests well typed.
LEMMA EndType ==
  ASSUME NEW r \in Requests, NEW how \in Ended, TypeOK, End(r, how)
  PROVE  req' \in [Requests -> Request]
<1>1. [NewRequest EXCEPT !.pc = how] \in Request
  BY NothingType DEF Request
<1> QED
  BY <1>1 DEF TypeOK, End

\* A request that has answered keeps a well-typed record.
LEMMA AnsweredType ==
  ASSUME NEW r \in Requests, TypeOK, Answered(r)
  PROVE  req' \in [Requests -> Request]
<1>1. req[r] \in Request
  BY DEF TypeOK
<1>2. [req[r] EXCEPT !.pc = "ok", !.score = 0, !.correct = 0, !.counted = {}]
        \in Request
  BY <1>1 DEF Request, Ended
<1> QED
  BY <1>2 DEF TypeOK, Answered

\* What StartAttempt lists is well typed.
LEMMA ListedType ==
  ASSUME TypeOK, NEW z \in Quizzes
  PROVE  PointsListed(z) \in [Questions -> 0..MaxPoints]
  BY ConstantsOK DEF TypeOK, PointsListed, Points, Question

\* The initial states are well typed.
LEMMA InitType == Init => TypeOK
<1> SUFFICES ASSUME Init PROVE TypeOK
  OBVIOUS
<1>1. \A z \in Quizzes : PointsListed(z) \in [Questions -> 0..MaxPoints]
  BY ConstantsOK DEF Init, PointsListed, Points
<1>2. \A z \in Quizzes : OpenAttempt(OwnerOf[z], z, PointsListed(z)) \in Attempt
  BY <1>1, ConstantsOK DEF OpenAttempt, Attempt, Life
<1>3. attempts \in [Attempts -> Attempt]
  BY <1>2, NothingType DEF Init
<1>4. req \in [Requests -> Request]
  BY NothingType DEF Init
<1>5. quizzes \in [Quizzes -> Quiz] /\ cards \in [Cards -> Card]
  BY DEF Init, Quiz, Card
<1>6. questions \in [Questions -> Question]
  BY DEF Init, Question, Life
<1> QED
  BY <1>3, <1>4, <1>5, <1>6, ConstantsOK DEF Init, TypeOK

\* Statements that only read, and a failure, change nothing but the request.
LEMMA ReadType ==
  ASSUME TypeOK, req' \in [Requests -> Request], UNCHANGED <<db, history, edits>>,
         lookupErrors' \in 0..MaxLookupErrors
  PROVE  TypeOK'
  BY DEF TypeOK, db, history

(***************************************************************************)
(* Statements that only read, and failures, change one request.  What it   *)
(* becomes must be right by itself; every other part of IInv is kept.      *)
(***************************************************************************)
LEMMA ReadStep ==
  ASSUME IInv, NEW r \in Requests, NEW new \in Request,
         req' = [req EXCEPT ![r] = new], req[r].pc # "ok", new.pc # "ok",
         UNCHANGED <<db, history, edits>>,
         lookupErrors' \in 0..MaxLookupErrors,
         lookupErrors' = 0 => lookupErrors = 0,
         (RequestOK(r) /\ RequestCounts(r) /\ RequestLists(r))'
  PROVE  IInv'
<1>1. /\ req \in [Requests -> Request] /\ req' \in [Requests -> Request]
      /\ req'[r] = new
      /\ \A s \in Requests \ {r} : req'[s] = req[s]
  BY DEF IInv, TypeOK
<1>2. /\ quizzes' = quizzes /\ questions' = questions /\ cards' = cards
      /\ attempts' = attempts /\ answers' = answers /\ logs' = logs
      /\ counted' = counted /\ edited' = edited /\ edits' = edits
  BY DEF db, history
<1>3. TypeOK'
  BY <1>1, ReadType DEF IInv
<1>4. r \notin answers /\ r \notin logs /\ answers \subseteq Requests
      /\ logs \subseteq Requests
  BY DEF IInv, TypeOK, RequestOK
<1>5. \A a \in Attempts, Q \in SUBSET Questions : MayCount(a, Q) => MayCount(a, Q)'
  BY <1>1, <1>2, <1>4 DEF MayCount, LiveQuestion, AnswerTo
<1>6. \A z, listed : ListsAll(z, listed) => ListsAll(z, listed)'
  BY <1>2 DEF ListsAll, LiveQuestion
<1>7. \A s \in Requests \ {r} : (RequestOK(s) /\ RequestCounts(s) /\ RequestLists(s))'
  <2> SUFFICES ASSUME NEW s \in Requests \ {r}
               PROVE  (RequestOK(s) /\ RequestCounts(s) /\ RequestLists(s))'
    OBVIOUS
  <2>1. req'[s] = req[s] /\ req[s] \in Request
    BY <1>1
  <2>2. RequestOK(s)'
    BY <1>2, <2>1 DEF IInv, RequestOK, Handling, Answering, LiveAttempt, LiveQuestion
  <2>3. Handling(s)' <=> Handling(s)
    BY <2>1 DEF Handling, Answering
  <2>4. RequestCounts(s)'
    BY <1>2, <1>5, <2>1, <2>3
       DEF IInv, RequestCounts, Answering, LiveAttempt, LiveQuestion, Request
  <2>5. RequestLists(s)'
    BY <1>6, <2>1 DEF IInv, RequestLists
  <2> QED
    BY <2>2, <2>4, <2>5
<1>8. \A a \in Attempts : AttemptOK(a)'
  <2> SUFFICES ASSUME NEW a \in Attempts PROVE AttemptOK(a)'
    OBVIOUS
  <2>1. counted[a] \in SUBSET Questions
    BY DEF IInv, TypeOK
  <2> QED
    BY <1>2, <1>5, <1>6, <2>1 DEF IInv, AttemptOK
<1>9. NoOrphans'
  BY <1>1, <1>2, <1>4 DEF IInv, NoOrphans
<1>10. CardsLogged'
  BY <1>1, <1>2, <1>4 DEF IInv, CardsLogged
<1>11. AnswersAcknowledged'
  BY <1>1, <1>2, <1>4 DEF IInv, AnswersAcknowledged, Kept
<1> QED
  BY <1>3, <1>7, <1>8, <1>9, <1>10, <1>11 DEF IInv

\* A request that ends without an effect: refused, failed or rolled back.
LEMMA EndStep ==
  ASSUME IInv, NEW r \in Requests, NEW how \in Ended \ {"ok"}, End(r, how),
         req[r].pc # "ok", UNCHANGED <<db, history, edits, lookupErrors>>
  PROVE  IInv'
<1> DEFINE new == [NewRequest EXCEPT !.pc = how]
<1>1. new \in Request /\ new.pc = how
  BY NothingType DEF Request
<1>2. req' = [req EXCEPT ![r] = new] /\ req'[r] = new
  BY <1>1 DEF End, IInv, TypeOK
<1>3. lookupErrors' \in 0..MaxLookupErrors /\ lookupErrors' = lookupErrors
      /\ UNCHANGED <<db, history, edits>>
  BY DEF IInv, TypeOK
<1>4. r \notin answers /\ r \notin logs
  BY DEF IInv, RequestOK
<1>5. (RequestOK(r) /\ RequestCounts(r) /\ RequestLists(r))'
  BY <1>1, <1>2, <1>4
     DEF RequestOK, RequestCounts, RequestLists, Handling, Answering, InTx, Ended, db
<1>6. new.pc # "ok"
  BY <1>1
<1> HIDE DEF new
<1> QED
  BY <1>1, <1>2, <1>3, <1>5, <1>6, ReadStep

\* Reading the quiz to start only moves the request.
LEMMA StartLoadQuizStep ==
  ASSUME IInv, NEW r \in Requests, NEW u \in Users, NEW z \in Quizzes,
         StartLoadQuiz(r, u, z)
  PROVE  IInv'
<1>1. /\ req[r].pc = "new" /\ UNCHANGED <<db, history, edits, lookupErrors>>
      /\ req[r] \in Request /\ lookupErrors \in 0..MaxLookupErrors
      /\ r \notin answers /\ r \notin logs
  BY DEF StartLoadQuiz, NoCount, IInv, TypeOK, RequestOK
<1>2. CASE End(r, "refused")
  BY <1>1, <1>2, EndStep DEF Ended
<1>3. CASE req' = [req EXCEPT ![r] = [@ EXCEPT !.pc = "list", !.kind = "start",
                                               !.user = u, !.quiz = z]]
  <2> DEFINE new == [req[r] EXCEPT !.pc = "list", !.kind = "start",
                                   !.user = u, !.quiz = z]
  <2>1. new \in Request /\ new.pc = "list" /\ new.quiz = z
    BY <1>1 DEF Request, Reading
  <2>2. req' = [req EXCEPT ![r] = new] /\ req'[r] = new
    BY <1>3 DEF IInv, TypeOK
  <2> HIDE DEF new
  <2>3. (RequestOK(r) /\ RequestCounts(r) /\ RequestLists(r))'
    BY <1>1, <2>1, <2>2
       DEF RequestOK, RequestCounts, RequestLists, Handling, Answering, InTx, db
  <2> QED
    BY <1>1, <2>1, <2>2, <2>3, ReadStep
<1> QED
  BY <1>2, <1>3 DEF StartLoadQuiz

\* What is listed covers the quiz until somebody edits it.
LEMMA StartListQuestionsStep ==
  ASSUME IInv, NEW r \in Requests, StartListQuestions(r)
  PROVE  IInv'
<1> DEFINE new == [req[r] EXCEPT !.pc = "create", !.listed = PointsListed(req[r].quiz)]
<1>1. /\ req[r].pc = "list" /\ UNCHANGED <<db, history, edits, lookupErrors>>
      /\ req[r] \in Request /\ lookupErrors \in 0..MaxLookupErrors
      /\ r \notin answers /\ r \notin logs /\ req[r].quiz \in Quizzes
  BY DEF StartListQuestions, NoCount, IInv, TypeOK, RequestOK
<1>2. PointsListed(req[r].quiz) \in [Questions -> 0..MaxPoints]
  BY <1>1, ListedType DEF IInv
<1>3. /\ new \in Request /\ new.pc = "create" /\ new.quiz = req[r].quiz
      /\ new.listed = PointsListed(req[r].quiz)
  BY <1>1, <1>2 DEF Request, Reading
<1>4. req' = [req EXCEPT ![r] = new] /\ req'[r] = new
  BY DEF StartListQuestions, IInv, TypeOK
<1> HIDE DEF new
<1>5. RequestLists(r)'
  <2>1. \A q \in Questions : LiveQuestion(q) => questions[q].points \in Points
    BY DEF IInv, TypeOK, Question
  <2> QED
    BY <1>1, <1>3, <1>4, <2>1, ConstantsOK
       DEF RequestLists, ListsAll, PointsListed, LiveQuestion, Points, db
<1>6. (RequestOK(r) /\ RequestCounts(r) /\ RequestLists(r))'
  BY <1>1, <1>3, <1>4, <1>5
     DEF RequestOK, RequestCounts, Handling, Answering, InTx, db
<1> QED
  BY <1>1, <1>3, <1>4, <1>6, ReadStep

\* The copy of the row that LoadAttempt takes counts what the row counts.
LEMMA LoadAttemptStep ==
  ASSUME IInv, NEW r \in Requests, NEW u \in Users, NEW a \in Attempts,
         NEW kind, NEW next,
         \/ kind = "submit" /\ next = "question"
         \/ kind = "complete" /\ next = "complete",
         LoadAttempt(r, u, a, kind, next)
  PROVE  IInv'
<1>1. /\ req[r].pc = "new" /\ UNCHANGED <<db, history, edits, lookupErrors>>
      /\ req[r] \in Request /\ lookupErrors \in 0..MaxLookupErrors
      /\ r \notin answers /\ r \notin logs
      /\ attempts[a] \in Attempt /\ counted[a] \in SUBSET Questions
  BY DEF LoadAttempt, NoCount, IInv, TypeOK, RequestOK
<1>2. CASE End(r, "refused")
  BY <1>1, <1>2, EndStep DEF Ended
<1>3. CASE /\ Usable(a, u)
           /\ req' = [req EXCEPT ![r] =
                 [@ EXCEPT !.pc = next, !.kind = kind, !.attempt = a,
                           !.score = attempts[a].score,
                           !.correct = attempts[a].correct,
                           !.counted = counted[a]]]
  <2> DEFINE new == [req[r] EXCEPT !.pc = next, !.kind = kind, !.attempt = a,
                                   !.score = attempts[a].score,
                                   !.correct = attempts[a].correct,
                                   !.counted = counted[a]]
  <2>1. attempts[a].score \in Nat /\ attempts[a].correct \in Nat
    BY <1>1 DEF Attempt
  <2>2. /\ new \in Request /\ new.pc = next /\ new.kind = kind /\ new.attempt = a
        /\ new.correct = attempts[a].correct /\ new.counted = counted[a]
    BY <1>1, <2>1 DEF Request, Reading
  <2>3. req' = [req EXCEPT ![r] = new] /\ req'[r] = new
    BY <1>3 DEF IInv, TypeOK
  <2> HIDE DEF new
  <2>4. /\ attempts[a].life = "live"
        /\ lookupErrors = 0 => attempts[a].correct = Cardinality(counted[a])
        /\ MayCount(a, counted[a])
    BY <1>3 DEF IInv, AttemptOK, Usable
  <2>5. MayCount(a, counted[a])'
    <3>1. \A s \in answers : req'[s] = req[s]
      BY <1>1, <2>3 DEF IInv, TypeOK
    <3> QED
      BY <1>1, <2>4, <3>1 DEF MayCount, LiveQuestion, AnswerTo, db, history
  <2>6. RequestOK(r)' /\ RequestLists(r)'
    BY <1>1, <2>2, <2>3, <2>4
       DEF RequestOK, RequestLists, Handling, Answering, InTx, db
  <2>7. RequestCounts(r)'
    BY <1>1, <2>2, <2>3, <2>4, <2>5
       DEF RequestCounts, Handling, Answering, InTx, db, history
  <2> QED
    BY <1>1, <2>2, <2>3, <2>6, <2>7, ReadStep
<1> QED
  BY <1>2, <1>3 DEF LoadAttempt

(***************************************************************************)
(* The reading steps of SubmitAnswer keep what they read of the attempt;   *)
(* what each must still show is what it learns about its question.         *)
(***************************************************************************)
LEMMA AnsweringStep ==
  ASSUME IInv, NEW r \in Requests, NEW new \in Request, Handling(r),
         req' = [req EXCEPT ![r] = new],
         new.attempt = req[r].attempt, new.counted = req[r].counted,
         new.correct = req[r].correct, new.kind = req[r].kind,
         new.pc \in {"lookup", "write"} \cup InTx, req[r].pc # "complete",
         new.question \in Questions,
         QuizOf[new.question] = attempts[new.attempt].quiz,
         new.pc \in InTx
           => LiveAttempt(new.attempt) /\ LiveQuestion(new.question),
         new.pc \in InTx \ {"commit"} => CardOf[new.question] \in Cards,
         new.pc = "commitFSRS" => cards[CardOf[new.question]].life = "live",
         (/\ new.pc # "lookup" /\ lookupErrors' = 0
          /\ LiveAttempt(new.attempt) /\ LiveQuestion(new.question))
           => new.question \notin new.counted,
         UNCHANGED <<db, history, edits>>,
         lookupErrors' \in 0..MaxLookupErrors,
         lookupErrors' = 0 => lookupErrors = 0
  PROVE  IInv'
<1>1. /\ req[r].pc # "ok" /\ new.pc # "ok" /\ new.pc # "create"
      /\ new.pc # "complete" /\ new.pc # "list"
  BY DEF Handling, Answering, InTx
<1>2. /\ req'[r] = new /\ r \notin answers /\ r \notin logs
      /\ attempts' = attempts /\ questions' = questions /\ cards' = cards
      /\ answers' = answers /\ logs' = logs /\ edited' = edited
      /\ req[r].counted \in SUBSET Questions
  BY <1>1 DEF IInv, TypeOK, RequestOK, Request, db, history
<1>3. /\ req[r].attempt \in Attempts /\ attempts[req[r].attempt].life # "free"
      /\ req[r].kind = "submit"
  BY DEF IInv, RequestOK
<1>4. RequestOK(r)'
  BY <1>1, <1>2, <1>3
     DEF RequestOK, Handling, Answering, LiveAttempt, LiveQuestion
<1>5. \A s \in answers : req'[s] = req[s]
  BY <1>2 DEF IInv, TypeOK
<1>6. LiveAttempt(req[r].attempt) => MayCount(req[r].attempt, req[r].counted)
  BY DEF IInv, RequestCounts
<1>7. RequestCounts(r)'
  <2>1. Handling(r)' => (lookupErrors' = 0 => new.correct = Cardinality(new.counted))
    BY DEF IInv, RequestCounts
  <2>2. ASSUME LiveAttempt(req[r].attempt), NEW q \in req[r].counted
        PROVE  /\ QuizOf[q] = attempts'[req[r].attempt].quiz
               /\ questions'[q].life # "free"
               /\ attempts'[req[r].attempt].quiz \notin edited'
                    => attempts'[req[r].attempt].listed[q] > 0
               /\ LiveQuestion(q)'
                    => \E s \in answers' : req'[s].attempt = req[r].attempt
                                            /\ req'[s].question = q
    BY <1>2, <1>5, <1>6, <2>2 DEF MayCount, LiveQuestion, AnswerTo
  <2> QED
    BY <1>1, <1>2, <2>1, <2>2
       DEF RequestCounts, MayCount, Answering, LiveAttempt, LiveQuestion, AnswerTo
<1>8. RequestLists(r)'
  BY <1>1, <1>2 DEF RequestLists
<1> QED
  BY <1>1, <1>4, <1>7, <1>8, ReadStep

\* A question read belongs to the quiz of the attempt.
LEMMA SubmitLoadQuestionStep ==
  ASSUME IInv, NEW r \in Requests, NEW q \in Questions, SubmitLoadQuestion(r, q)
  PROVE  IInv'
<1>1. /\ req[r].pc = "question" /\ UNCHANGED <<db, history, edits, lookupErrors>>
      /\ req[r] \in Request /\ lookupErrors \in 0..MaxLookupErrors
      /\ questions[q].points \in Points
  BY DEF SubmitLoadQuestion, NoCount, IInv, TypeOK, Question
<1>2. CASE End(r, "refused")
  BY <1>1, <1>2, EndStep DEF Ended
<1>3. CASE /\ attempts[req[r].attempt].quiz = QuizOf[q]
           /\ req' = [req EXCEPT ![r] = [@ EXCEPT !.pc = "lookup", !.question = q,
                                                  !.points = questions[q].points]]
  <2> DEFINE new == [req[r] EXCEPT !.pc = "lookup", !.question = q,
                                   !.points = questions[q].points]
  <2>1. /\ new \in Request /\ new.pc = "lookup" /\ new.question = q
        /\ new.attempt = req[r].attempt /\ new.counted = req[r].counted
        /\ new.correct = req[r].correct /\ new.kind = req[r].kind
    <3>1. questions[q].points \in 0..MaxPoints
      BY <1>1, ConstantsOK DEF Points
    <3> QED
      BY <1>1, <3>1 DEF Request, Reading
  <2>2. req' = [req EXCEPT ![r] = new]
    BY <1>3 DEF IInv, TypeOK
  <2> HIDE DEF new
  <2>3. Handling(r) /\ new.pc \notin InTx
    BY <1>1, <2>1 DEF Handling, InTx
  <2>4. UNCHANGED <<db, history, edits>> /\ lookupErrors' = lookupErrors
    BY <1>1
  <2> QED
    BY <1>1, <1>3, <2>1, <2>2, <2>3, <2>4, AnsweringStep
<1> QED
  BY <1>2, <1>3 DEF SubmitLoadQuestion

\* Whatever the answer is graded, only the program point and the grade change.
LEMMA GradeStep ==
  ASSUME IInv, NEW r \in Requests, req[r].pc = "lookup", Grade(r),
         UNCHANGED <<db, history, edits>>,
         lookupErrors' \in 0..MaxLookupErrors, lookupErrors' = 0 => lookupErrors = 0,
         (/\ lookupErrors' = 0
          /\ LiveAttempt(req[r].attempt) /\ LiveQuestion(req[r].question))
           => req[r].question \notin req[r].counted
  PROVE  IInv'
<1>1. PICK right \in BOOLEAN :
        req' = [req EXCEPT ![r] = [@ EXCEPT !.pc = "write", !.right = right]]
  BY Zenon DEF Grade
<1> DEFINE new == [req[r] EXCEPT !.pc = "write", !.right = right]
<1>2. req[r] \in Request /\ Handling(r) /\ Answering(r)
  BY DEF IInv, TypeOK, Handling, Answering
<1>3. /\ new \in Request /\ new.pc = "write" /\ new.question = req[r].question
      /\ new.attempt = req[r].attempt /\ new.counted = req[r].counted
      /\ new.correct = req[r].correct /\ new.kind = req[r].kind
  BY <1>2 DEF Request, Reading
<1>4. req' = [req EXCEPT ![r] = new]
  BY <1>1 DEF IInv, TypeOK
<1> HIDE DEF new
<1>5. /\ req[r].question \in Questions
      /\ QuizOf[req[r].question] = attempts[req[r].attempt].quiz
  BY <1>2 DEF IInv, RequestOK
<1> QED
  BY <1>2, <1>3, <1>4, <1>5, AnsweringStep DEF InTx

\* No stored answer to the question: none of it is counted in what was read.
LEMMA SubmitLookupStep ==
  ASSUME IInv, NEW r \in Requests, SubmitLookup(r)
  PROVE  IInv'
<1>1. /\ req[r].pc = "lookup" /\ UNCHANGED <<db, history, edits, lookupErrors>>
      /\ lookupErrors \in 0..MaxLookupErrors
  BY DEF SubmitLookup, NoCount, IInv, TypeOK
<1>2. CASE End(r, "refused")
  BY <1>1, <1>2, EndStep DEF Ended
<1>3. CASE /\ ~ \E s \in answers : AnswerTo(s, req[r].attempt, req[r].question)
           /\ Grade(r)
  <2>1. LiveAttempt(req[r].attempt) => MayCount(req[r].attempt, req[r].counted)
    BY <1>1 DEF IInv, RequestCounts, Handling, Answering
  <2>2. LiveAttempt(req[r].attempt) /\ LiveQuestion(req[r].question)
          => req[r].question \notin req[r].counted
    BY <1>3, <2>1 DEF MayCount
  <2>3. UNCHANGED <<db, history, edits>> /\ lookupErrors' = lookupErrors
    BY <1>1
  <2> QED
    BY <1>1, <1>3, <2>2, <2>3, GradeStep
<1> QED
  BY <1>2, <1>3 DEF SubmitLookup

\* A lookup that failed gives up the promise about counts, and nothing else.
LEMMA SubmitLookupErrorStep ==
  ASSUME IInv, NEW r \in Requests, SubmitLookupError(r)
  PROVE  IInv'
<1>1. /\ lookupErrors' \in 0..MaxLookupErrors /\ lookupErrors' # 0
  BY ConstantsOK DEF SubmitLookupError, IInv, TypeOK
<1>2. req[r].pc = "lookup" /\ Grade(r) /\ UNCHANGED <<db, history, edits>>
  BY DEF SubmitLookupError
<1> QED
  BY <1>1, <1>2, GradeStep

(***************************************************************************)
(* The steps inside the transaction move the program point only.           *)
(***************************************************************************)
LEMMA InTxStep ==
  ASSUME IInv, NEW r \in Requests, NEW next \in InTx,
         req[r].pc \in {"write"} \cup InTx, req' = [req EXCEPT ![r].pc = next],
         LiveAttempt(req[r].attempt), LiveQuestion(req[r].question),
         next # "commit" => CardOf[req[r].question] \in Cards,
         next = "commitFSRS" => cards[CardOf[req[r].question]].life = "live",
         UNCHANGED <<db, history, edits, lookupErrors>>
  PROVE  IInv'
<1> DEFINE new == [req[r] EXCEPT !.pc = next]
<1>1. req[r] \in Request /\ Handling(r) /\ Answering(r) /\ req[r].pc # "complete"
  BY DEF IInv, TypeOK, Handling, Answering, InTx
<1>2. /\ new \in Request /\ new.pc = next /\ new.question = req[r].question
      /\ new.attempt = req[r].attempt /\ new.counted = req[r].counted
      /\ new.correct = req[r].correct /\ new.kind = req[r].kind
  BY <1>1 DEF Request
<1>3. req' = [req EXCEPT ![r] = new]
  BY DEF IInv, TypeOK
<1> HIDE DEF new
<1>4. /\ req[r].question \in Questions
      /\ QuizOf[req[r].question] = attempts[req[r].attempt].quiz
  BY <1>1 DEF IInv, RequestOK
<1>5. /\ UNCHANGED <<db, history, edits>> /\ lookupErrors' = lookupErrors
      /\ lookupErrors' \in 0..MaxLookupErrors
  BY DEF IInv, TypeOK
<1>6. lookupErrors = 0 => req[r].question \notin req[r].counted
  BY <1>1 DEF IInv, RequestCounts, InTx
<1> QED
  BY <1>1, <1>2, <1>3, <1>4, <1>5, <1>6, AnsweringStep

\* The insert and the update found the question and the attempt still there.
LEMMA SubmitWriteStep ==
  ASSUME IInv, NEW r \in Requests, SubmitWrite(r)
  PROVE  IInv'
<1>1. /\ req[r].pc = "write" /\ UNCHANGED <<db, history, edits, lookupErrors>>
      /\ req[r].attempt \in Attempts /\ req[r].question \in Questions
  BY DEF SubmitWrite, NoCount, IInv, RequestOK, Handling, Answering
<1>2. CASE End(r, "failed")
  BY <1>1, <1>2, EndStep DEF Ended
<1>3. CASE /\ attempts[req[r].attempt].life = "live"
           /\ questions[req[r].question].life = "live"
           /\ \E next \in {"commit"} \cup (IF CardOf[req[r].question] = None
                                             THEN {} ELSE {"card"}) :
                req' = [req EXCEPT ![r].pc = next]
  <2>1. PICK next \in {"commit"} \cup (IF CardOf[req[r].question] = None
                                         THEN {} ELSE {"card"}) :
               req' = [req EXCEPT ![r].pc = next]
    BY <1>3
  <2>2. LiveAttempt(req[r].attempt) /\ LiveQuestion(req[r].question)
    BY <1>1, <1>3 DEF LiveAttempt, LiveQuestion
  <2>3. next \in InTx /\ next # "commitFSRS"
    BY <2>1 DEF InTx
  <2>4. next # "commit" => CardOf[req[r].question] \in Cards
    BY <1>1, <2>1, ConstantsOK
  <2> QED
    BY <1>1, <2>1, <2>2, <2>3, <2>4, InTxStep
<1> QED
  BY <1>2, <1>3 DEF SubmitWrite

\* Reading and updating the card stay inside the transaction.
LEMMA FSRSStep ==
  ASSUME IInv, NEW r \in Requests, FSRSLoadCard(r) \/ FSRSApply(r)
  PROVE  IInv'
<1>1. /\ req[r].pc \in {"card", "fsrs"}
      /\ UNCHANGED <<db, history, edits, lookupErrors>>
  BY DEF FSRSLoadCard, FSRSApply, NoCount
<1>2. /\ LiveAttempt(req[r].attempt) /\ LiveQuestion(req[r].question)
      /\ CardOf[req[r].question] \in Cards
  BY <1>1 DEF IInv, RequestOK, InTx
<1>3. CASE FSRSLoadCard(r)
  <2>1. PICK next \in {"fsrs", "commit"} : req' = [req EXCEPT ![r].pc = next]
    BY <1>3 DEF FSRSLoadCard
  <2> QED
    BY <1>1, <1>2, <2>1, InTxStep DEF InTx
<1>4. CASE FSRSApply(r)
  <2>1. PICK next \in {"commitFSRS", "doomed"} :
          /\ req' = [req EXCEPT ![r].pc = next]
          /\ next = "commitFSRS" => cards[CardOf[req[r].question]].life = "live"
    BY <1>4 DEF FSRSApply
  <2> QED
    BY <1>1, <1>2, <2>1, InTxStep DEF InTx
<1> QED
  BY <1>3, <1>4

\* A request that ends without an effect leaves the invariant.
LEMMA EndWithoutEffectStep ==
  ASSUME IInv, NEW r \in Requests, SubmitCommitAborted(r) \/ Fail(r)
  PROVE  IInv'
<1>1. req[r].pc # "ok" /\ UNCHANGED <<db, history, edits, lookupErrors>>
  BY DEF SubmitCommitAborted, Fail, UnderWay, Reading, InTx, NoCount
<1>2. PICK how \in {"lost", "failed"} : End(r, how)
  BY DEF SubmitCommitAborted, Fail
<1> QED
  BY <1>1, <1>2, EndStep DEF Ended

(***************************************************************************)
(* A new attempt takes a row id that no request, answer or log refers to.  *)
(***************************************************************************)
LEMMA StartCreateStep ==
  ASSUME IInv, NEW r \in Requests, NEW a \in Attempts, StartCreate(r, a)
  PROVE  IInv'
<1>1. /\ req[r].pc = "create" /\ attempts[a].life = "free"
      /\ UNCHANGED <<quizzes, questions, cards, answers, logs>>
      /\ UNCHANGED <<counted, edited, edits, lookupErrors>>
      /\ req[r] \in Request /\ req[r].quiz \in Quizzes
      /\ r \notin answers /\ r \notin logs
  BY DEF StartCreate, NoCount, history, IInv, TypeOK, RequestOK
<1>2. CASE UNCHANGED attempts /\ End(r, "failed")
  BY <1>1, <1>2, EndStep DEF Ended, db, history
<1>3. CASE /\ quizzes[req[r].quiz] # "deleted"
           /\ attempts' = [attempts EXCEPT ![a] =
                             OpenAttempt(req[r].user, req[r].quiz, req[r].listed)]
           /\ End(r, "ok")
  <2> DEFINE opened == OpenAttempt(req[r].user, req[r].quiz, req[r].listed)
             ended  == [NewRequest EXCEPT !.pc = "ok"]
  <2>1. /\ opened \in Attempt /\ opened.life = "live" /\ opened.quiz = req[r].quiz
        /\ opened.correct = 0 /\ opened.listed = req[r].listed
    BY <1>1 DEF OpenAttempt, Attempt, Request, Life
  <2>2. ended \in Request /\ ended.pc = "ok" /\ ended.kind = "none"
    BY NothingType DEF Request, NewRequest, Ended
  <2>3. /\ attempts' = [attempts EXCEPT ![a] = opened] /\ attempts'[a] = opened
        /\ \A b \in Attempts \ {a} : attempts'[b] = attempts[b]
        /\ req' = [req EXCEPT ![r] = ended] /\ req'[r] = ended
        /\ \A s \in Requests \ {r} : req'[s] = req[s]
    BY <1>3 DEF End, IInv, TypeOK
  <2> HIDE DEF opened, ended
  <2>4. TypeOK'
    BY <1>1, <2>1, <2>2, <2>3 DEF IInv, TypeOK
  <2>5. /\ answers \subseteq Requests \ {r} /\ logs \subseteq Requests \ {r}
        /\ answers' = answers /\ logs' = logs
        /\ \A s \in answers : req[s].attempt \in Attempts \ {a}
    BY <1>1 DEF IInv, TypeOK, RequestOK, NoOrphans
  <2>6. \A b \in Attempts \ {a}, Q \in SUBSET Questions :
          MayCount(b, Q) => MayCount(b, Q)'
    BY <1>1, <2>3, <2>5 DEF MayCount, LiveQuestion, AnswerTo
  <2>7. \A z, listed : ListsAll(z, listed) => ListsAll(z, listed)'
    BY <1>1 DEF ListsAll, LiveQuestion
  <2>8. \A s \in Requests : (RequestOK(s) /\ RequestCounts(s) /\ RequestLists(s))'
    <3>1. (RequestOK(r) /\ RequestCounts(r) /\ RequestLists(r))'
      BY <1>1, <2>2, <2>3, <2>5
         DEF RequestOK, RequestCounts, RequestLists, Handling, Answering, InTx
    <3>2. ASSUME NEW s \in Requests \ {r}
          PROVE  (RequestOK(s) /\ RequestCounts(s) /\ RequestLists(s))'
      <4>1. /\ req'[s] = req[s] /\ req[s] \in Request /\ RequestOK(s)
            /\ RequestCounts(s) /\ RequestLists(s)
        BY <2>3 DEF IInv, TypeOK
      <4>2. Handling(s) \/ (req[s].pc = "ok" /\ req[s].kind = "submit")
              => req[s].attempt \in Attempts \ {a}
        BY <1>1, <4>1 DEF RequestOK
      <4>3. /\ Handling(s)' <=> Handling(s)
            /\ Answering(s)' <=> Answering(s)
            /\ Answering(s) => Handling(s)
        BY <4>1 DEF Handling, Answering
      <4>4. req[s].pc \in InTx => Handling(s)
        BY DEF Handling, Answering
      <4>5. RequestOK(s)'
        BY <1>1, <2>3, <4>1, <4>2, <4>3, <4>4
           DEF RequestOK, LiveAttempt, LiveQuestion
      <4>6. RequestCounts(s)'
        BY <1>1, <2>3, <2>6, <4>1, <4>2, <4>3
           DEF RequestCounts, LiveAttempt, LiveQuestion, Request
      <4>7. RequestLists(s)'
        BY <2>7, <4>1 DEF RequestLists
      <4> QED
        BY <4>5, <4>6, <4>7
    <3> QED
      BY <3>1, <3>2
  <2>9. \A b \in Attempts : AttemptOK(b)'
    <3>1. AttemptOK(a)'
      <4>1. counted[a] = {} /\ Cardinality({}) = 0
        BY <1>1, FS_EmptySet DEF IInv, AttemptOK
      <4>2. ListsAll(req[r].quiz, req[r].listed)
        BY <1>1 DEF IInv, RequestLists
      <4> QED
        BY <1>1, <2>1, <2>3, <2>7, <4>1, <4>2 DEF AttemptOK, MayCount
    <3>2. ASSUME NEW b \in Attempts \ {a} PROVE AttemptOK(b)'
      <4>1. attempts'[b] = attempts[b] /\ counted[b] \in SUBSET Questions
        BY <2>3 DEF IInv, TypeOK
      <4> QED
        BY <1>1, <2>6, <2>7, <4>1 DEF IInv, AttemptOK
    <3> QED
      BY <3>1, <3>2
  <2>10. NoOrphans'
    BY <1>1, <1>3, <2>1, <2>3, <2>5 DEF IInv, NoOrphans
  <2>11. CardsLogged'
    BY <1>1, <2>3, <2>5 DEF IInv, CardsLogged
  <2>12. AnswersAcknowledged'
    BY <1>1, <2>2, <2>3, <2>5 DEF IInv, AnswersAcknowledged, Kept, RequestOK
  <2> QED
    BY <2>4, <2>8, <2>9, <2>10, <2>11, <2>12 DEF IInv
<1> QED
  BY <1>1, <1>2, <1>3 DEF StartCreate

(***************************************************************************)
(* What COMMIT publishes: the answer, the attempt's columns and, if there  *)
(* is one, the card's FSRS state with its log.  The row of the attempt now *)
(* counts the question just answered, for which an answer is stored; it    *)
(* was not in the count the request had read (RequestCounts).              *)
(***************************************************************************)
LEMMA CommitStep ==
  ASSUME IInv, NEW r \in Requests, req[r].pc \in {"commit", "commitFSRS"},
         Commit(r), UNCHANGED <<quizzes, questions, edited, edits, lookupErrors>>,
         cards' \in [Cards -> Card],
         \A c \in Cards : cards'[c].life = cards[c].life,
         logs' = logs \/ (logs' = logs \cup {r} /\ req[r].pc = "commitFSRS")
  PROVE  /\ TypeOK' /\ NoOrphans' /\ AnswersAcknowledged'
         /\ \A s \in Requests : (RequestOK(s) /\ RequestCounts(s) /\ RequestLists(s))'
         /\ \A a \in Attempts : AttemptOK(a)'
<1> SUFFICES ASSUME NEW a, a = req[r].attempt, NEW q, q = req[r].question,
                    NEW C, C = req[r].counted, NEW Q, Q = C \cup Hit(r)
             PROVE  /\ TypeOK' /\ NoOrphans' /\ AnswersAcknowledged'
                    /\ \A s \in Requests :
                         (RequestOK(s) /\ RequestCounts(s) /\ RequestLists(s))'
                    /\ \A b \in Attempts : AttemptOK(b)'
  OBVIOUS
<1> DEFINE row == [attempts[a] EXCEPT !.completed = FALSE,
                                      !.score = req[r].score + Gain(r),
                                      !.correct = req[r].correct
                                                    + Cardinality(Hit(r))]
           ended == [req[r] EXCEPT !.pc = "ok", !.score = 0, !.correct = 0,
                                   !.counted = {}]
<1>1. /\ LiveAttempt(a) /\ LiveQuestion(q) /\ QuizOf[q] = attempts[a].quiz
      /\ req[r] \in Request /\ req[r].kind = "submit" /\ Handling(r) /\ Answering(r)
      /\ attempts[a] \in Attempt /\ r \notin answers /\ r \notin logs
      /\ req[r].pc = "commitFSRS" => /\ CardOf[q] \in Cards
                                     /\ cards[CardOf[q]].life = "live"
  BY DEF IInv, TypeOK, RequestOK, Handling, Answering, InTx, LiveAttempt
<1>2. a \in Attempts /\ attempts[a].life = "live"
      /\ q \in Questions /\ questions[q].life = "live"
  BY <1>1 DEF LiveAttempt, LiveQuestion
<1>3. Hit(r) \subseteq {q} /\ Cardinality(Hit(r)) \in Nat /\ Gain(r) \in Nat
  BY <1>1, HitType, ConstantsOK DEF Gain, Request
<1>4. Q \in SUBSET Questions
  BY <1>1, <1>2, <1>3 DEF Request
<1>5. /\ row \in Attempt /\ row.life = "live" /\ row.quiz = attempts[a].quiz
      /\ row.listed = attempts[a].listed
      /\ row.correct = req[r].correct + Cardinality(Hit(r))
  <2>1. /\ req[r].score + Gain(r) \in Nat
        /\ req[r].correct + Cardinality(Hit(r)) \in Nat
    BY <1>1, <1>3 DEF Request
  <2> QED
    BY <1>1, <1>2, <2>1 DEF Attempt
<1>6. /\ ended \in Request /\ ended.pc = "ok" /\ ended.kind = "submit"
      /\ ended.attempt = a /\ ended.question = q
  BY <1>1 DEF Request, Ended
<1>7. /\ attempts' = [attempts EXCEPT ![a] = row] /\ attempts'[a] = row
      /\ \A b \in Attempts \ {a} : attempts'[b] = attempts[b]
      /\ counted' = [counted EXCEPT ![a] = Q] /\ counted'[a] = Q
      /\ \A b \in Attempts \ {a} : counted'[b] = counted[b]
      /\ answers' = answers \cup {r}
      /\ req' = [req EXCEPT ![r] = ended] /\ req'[r] = ended
      /\ \A s \in Requests \ {r} : req'[s] = req[s]
  BY <1>2 DEF Commit, Answered, IInv, TypeOK
<1>8. /\ quizzes' = quizzes /\ questions' = questions /\ edited' = edited
      /\ lookupErrors' = lookupErrors /\ answers \subseteq Requests
      /\ logs \subseteq Requests /\ logs' \subseteq Requests
      /\ \A b \in Attempts : /\ attempts'[b].life = attempts[b].life
                             /\ attempts'[b].quiz = attempts[b].quiz
                             /\ attempts'[b].listed = attempts[b].listed
      /\ \A s \in Requests : /\ req'[s].attempt = req[s].attempt
                             /\ req'[s].question = req[s].question
  BY <1>1, <1>2, <1>5, <1>6, <1>7 DEF IInv, TypeOK
<1> HIDE DEF row, ended
<1>9. TypeOK'
  BY <1>4, <1>5, <1>6, <1>7, <1>8 DEF IInv, TypeOK
<1>10. \A b \in Attempts, P \in SUBSET Questions : MayCount(b, P) => MayCount(b, P)'
  <2> SUFFICES ASSUME NEW b \in Attempts, NEW P \in SUBSET Questions,
                      MayCount(b, P), NEW p \in P
               PROVE  (/\ QuizOf[p] = attempts[b].quiz
                       /\ questions[p].life # "free"
                       /\ attempts[b].quiz \notin edited => attempts[b].listed[p] > 0
                       /\ LiveQuestion(p) => \E s \in answers : AnswerTo(s, b, p))'
    BY DEF MayCount
  <2>1. LiveQuestion(p)' => \E s \in answers : AnswerTo(s, b, p)
    BY <1>8 DEF MayCount, LiveQuestion
  <2>2. LiveQuestion(p)' => (\E s \in answers : AnswerTo(s, b, p))'
    BY <1>7, <1>8, <2>1 DEF AnswerTo
  <2> QED
    BY <1>8, <2>2 DEF MayCount
<1>11. \A z, listed : ListsAll(z, listed) => ListsAll(z, listed)'
  BY <1>8 DEF ListsAll, LiveQuestion
<1>12. ASSUME NEW s \in Requests
       PROVE  (RequestOK(s) /\ RequestCounts(s) /\ RequestLists(s))'
  <2>1. CASE s = r
    BY <1>1, <1>2, <1>5, <1>6, <1>7, <1>8, <2>1
       DEF RequestOK, RequestCounts, RequestLists, Handling, Answering, InTx
  <2>2. CASE s # r
    <3>1. /\ req'[s] = req[s] /\ req[s] \in Request /\ RequestOK(s)
          /\ RequestCounts(s) /\ RequestLists(s)
          /\ s \in answers' <=> s \in answers
          /\ s \in logs' <=> s \in logs
      BY <1>7, <2>2 DEF IInv, TypeOK
    <3>2. Handling(s)' <=> Handling(s)
      BY <3>1 DEF Handling, Answering
    <3>3. RequestOK(s)'
      BY <1>8, <3>1, <3>2
         DEF RequestOK, Handling, Answering, InTx, LiveAttempt, LiveQuestion
    <3>4. RequestCounts(s)'
      BY <1>8, <1>10, <3>1, <3>2
         DEF RequestCounts, Answering, LiveAttempt, LiveQuestion, Request
    <3>5. RequestLists(s)'
      BY <1>11, <3>1 DEF RequestLists
    <3> QED
      BY <3>3, <3>4, <3>5
  <2> QED
    BY <2>1, <2>2
<1>13. ASSUME NEW b \in Attempts PROVE AttemptOK(b)'
  <2>1. CASE b # a
    <3>1. attempts'[b] = attempts[b] /\ counted'[b] = counted[b]
          /\ counted[b] \in SUBSET Questions
      BY <1>7, <2>1 DEF IInv, TypeOK
    <3> QED
      BY <1>8, <1>10, <1>11, <3>1 DEF IInv, AttemptOK
  <2>2. CASE b = a
    <3>1. lookupErrors = 0 => row.correct = Cardinality(Q)
      <4> SUFFICES ASSUME lookupErrors = 0 PROVE row.correct = Cardinality(Q)
        OBVIOUS
      <4>1. /\ req[r].correct = Cardinality(req[r].counted)
            /\ q \notin req[r].counted /\ req[r].counted \in SUBSET Questions
        BY <1>1 DEF IInv, RequestCounts, Request
      <4>2. IsFiniteSet(req[r].counted)
        BY <4>1, ConstantsOK, FS_Subset
      <4>3. CASE req[r].right
        <5>1. Hit(r) = {q} /\ Cardinality(Hit(r)) = 1
          BY <4>3, HitType
        <5>2. Cardinality(req[r].counted \cup {q}) = Cardinality(req[r].counted) + 1
          BY <4>1, <4>2, FS_AddElement
        <5> QED
          BY <1>5, <4>1, <5>1, <5>2
      <4>4. CASE ~req[r].right
        <5>1. Hit(r) = {} /\ Cardinality(Hit(r)) = 0
          BY <4>4, HitType
        <5>2. Q = req[r].counted /\ req[r].correct \in Nat
          BY <1>1, <5>1 DEF Request
        <5> QED
          BY <1>5, <4>1, <5>1, <5>2
      <4> QED
        BY <4>3, <4>4
    <3>2. ListsAll(attempts[a].quiz, attempts[a].listed)
      BY <1>2 DEF IInv, AttemptOK
    <3>3. MayCount(a, Q)'
      <4>1. MayCount(a, C) /\ C \in SUBSET Questions
        BY <1>1 DEF IInv, RequestCounts, Request
      <4>2. MayCount(a, C)'
        BY <1>2, <1>10, <4>1
      <4>3. attempts[a].quiz \notin edited => attempts[a].listed[q] > 0
        BY <1>1, <1>2, <3>2 DEF ListsAll
      <4>4. MayCount(a, {q})'
        BY <1>1, <1>2, <1>6, <1>7, <1>8, <4>3 DEF MayCount, AnswerTo
      <4> QED
        BY <1>3, <4>2, <4>4 DEF MayCount
    <3> QED
      <4>1. /\ attempts'[b].life = "live" /\ attempts'[b].quiz = attempts[a].quiz
            /\ attempts'[b].listed = attempts[a].listed
            /\ attempts'[b].correct = row.correct /\ counted'[b] = Q
            /\ attempts[a].quiz \in Quizzes
        BY <1>2, <1>5, <1>7, <2>2 DEF IInv, AttemptOK
      <4>2. ListsAll(attempts[b].quiz, attempts[b].listed)'
        BY <1>8, <3>2, <4>1 DEF ListsAll, LiveQuestion
      <4> QED
        BY <1>8, <2>2, <3>1, <3>3, <4>1, <4>2 DEF AttemptOK
  <2> QED
    BY <2>1, <2>2
<1>14. NoOrphans'
  <2>1. /\ attempts'[a].life = "live" /\ questions'[q].life = "live"
        /\ r \in logs' => cards'[CardOf[q]].life = "live"
    BY <1>1, <1>2, <1>5, <1>7, <1>8
  <2>2. \A s \in logs : CardOf[req[s].question] \in Cards
    BY DEF IInv, TypeOK, RequestOK
  <2> QED
    BY <1>6, <1>7, <1>8, <2>1, <2>2 DEF IInv, NoOrphans
<1>15. AnswersAcknowledged'
  BY <1>6, <1>7, <1>8 DEF IInv, AnswersAcknowledged, Kept, RequestOK
<1> QED
  BY <1>9, <1>12, <1>13, <1>14, <1>15

\* The commit of an answer without its card.
LEMMA SubmitCommitStep ==
  ASSUME IInv, NEW r \in Requests, SubmitCommit(r)
  PROVE  IInv'
<1>1. /\ req[r].pc = "commit" /\ Commit(r) /\ cards' = cards /\ logs' = logs
      /\ UNCHANGED <<quizzes, questions, edited, edits, lookupErrors>>
      /\ cards \in [Cards -> Card] /\ logs \subseteq Requests
  BY DEF SubmitCommit, IInv, TypeOK
<1>2. \A s \in logs : req'[s] = req[s]
  BY <1>1 DEF Commit, Answered, IInv, TypeOK, RequestOK
<1>3. CardsLogged'
  BY <1>1, <1>2 DEF IInv, CardsLogged
<1> QED
  BY <1>1, <1>3, CommitStep DEF IInv

\* The commit of an answer with its card and the card's log.
LEMMA SubmitCommitFSRSStep ==
  ASSUME IInv, NEW r \in Requests, SubmitCommitFSRS(r)
  PROVE  IInv'
<1> DEFINE card == CardOf[req[r].question]
<1>1. /\ req[r].pc = "commitFSRS" /\ Commit(r)
      /\ cards' = [cards EXCEPT ![card].fsrs = r] /\ logs' = logs \cup {r}
      /\ UNCHANGED <<quizzes, questions, edited, edits, lookupErrors>>
      /\ cards \in [Cards -> Card] /\ logs \subseteq Requests
  BY DEF SubmitCommitFSRS, IInv, TypeOK
<1>2. card \in Cards /\ req[r].question \in Questions
  BY <1>1 DEF IInv, RequestOK, Answering, InTx
<1>3. \A s \in logs : req'[s] = req[s]
  BY <1>1 DEF Commit, Answered, IInv, TypeOK, RequestOK
<1>4. req'[r].pc = "ok" /\ req'[r].question = req[r].question
  BY <1>1 DEF Commit, Answered, IInv, TypeOK, Request
<1>5. /\ cards' \in [Cards -> Card] /\ cards'[card].fsrs = r
      /\ \A c \in Cards : cards'[c].life = cards[c].life
      /\ \A c \in Cards \ {card} : cards'[c] = cards[c]
  BY <1>1, <1>2 DEF Card
<1>6. CardsLogged'
  BY <1>1, <1>2, <1>3, <1>4, <1>5 DEF IInv, CardsLogged
<1> QED
  BY <1>1, <1>5, <1>6, CommitStep DEF IInv

(***************************************************************************)
(* CompleteAttempt writes back the count it read, with what it counts.     *)
(***************************************************************************)
LEMMA CompleteWriteStep ==
  ASSUME IInv, NEW r \in Requests, CompleteWrite(r)
  PROVE  IInv'
<1> SUFFICES ASSUME NEW a, a = req[r].attempt, NEW C, C = req[r].counted
             PROVE  IInv'
  OBVIOUS
<1> DEFINE row == IF attempts[a].life = "live"
                    THEN [attempts[a] EXCEPT !.completed = TRUE,
                                             !.score = req[r].score,
                                             !.correct = req[r].correct]
                    ELSE attempts[a]
           ended == [req[r] EXCEPT !.pc = "ok", !.score = 0, !.correct = 0,
                                   !.counted = {}]
<1>1. /\ req[r].pc = "complete" /\ Answered(r) /\ Handling(r)
      /\ UNCHANGED <<quizzes, questions, cards, answers, logs>>
      /\ UNCHANGED <<edited, edits, lookupErrors>>
      /\ req[r] \in Request /\ req[r].kind = "complete" /\ a \in Attempts
      /\ attempts[a] \in Attempt /\ attempts[a].life # "free"
      /\ r \notin answers /\ r \notin logs /\ C \in SUBSET Questions
      /\ answers \subseteq Requests /\ logs \subseteq Requests
  BY DEF CompleteWrite, IInv, TypeOK, RequestOK, Handling, Request
<1>2. req[r].score \in Nat /\ req[r].correct \in Nat
  BY <1>1 DEF Request
<1>3. /\ row \in Attempt /\ row.life = attempts[a].life
      /\ row.quiz = attempts[a].quiz /\ row.listed = attempts[a].listed
      /\ attempts[a].life = "live" => row.correct = req[r].correct
  BY <1>1, <1>2 DEF Attempt
<1>4. /\ ended \in Request /\ ended.pc = "ok" /\ ended.kind = "complete"
      /\ ended.attempt = a /\ ended.question = req[r].question
  BY <1>1 DEF Request, Ended
<1>5. /\ attempts' = [attempts EXCEPT ![a] = row] /\ attempts'[a] = row
      /\ \A b \in Attempts \ {a} : attempts'[b] = attempts[b]
      /\ counted' = [counted EXCEPT ![a] = C] /\ counted'[a] = C
      /\ \A b \in Attempts \ {a} : counted'[b] = counted[b]
      /\ req' = [req EXCEPT ![r] = ended] /\ req'[r] = ended
      /\ \A s \in Requests \ {r} : req'[s] = req[s]
  BY <1>1 DEF CompleteWrite, Answered, IInv, TypeOK
<1> HIDE DEF row, ended
<1>6. \A b \in Attempts : /\ attempts'[b].life = attempts[b].life
                          /\ attempts'[b].quiz = attempts[b].quiz
                          /\ attempts'[b].listed = attempts[b].listed
  BY <1>3, <1>5
<1>7. TypeOK'
  BY <1>1, <1>3, <1>4, <1>5 DEF IInv, TypeOK
<1>8. \A b \in Attempts, P \in SUBSET Questions : MayCount(b, P) => MayCount(b, P)'
  BY <1>1, <1>5, <1>6 DEF MayCount, LiveQuestion, AnswerTo
<1>9. \A z, listed : ListsAll(z, listed) => ListsAll(z, listed)'
  BY <1>1 DEF ListsAll, LiveQuestion
<1>10. ASSUME NEW s \in Requests
       PROVE  (RequestOK(s) /\ RequestCounts(s) /\ RequestLists(s))'
  <2>1. CASE s = r
    BY <1>1, <1>4, <1>5, <2>1
       DEF RequestOK, RequestCounts, RequestLists, Handling, Answering, InTx
  <2>2. CASE s # r
    <3>1. /\ req'[s] = req[s] /\ req[s] \in Request /\ RequestOK(s)
          /\ RequestCounts(s) /\ RequestLists(s)
      BY <1>5, <2>2 DEF IInv, TypeOK
    <3>2. Handling(s)' <=> Handling(s)
      BY <3>1 DEF Handling, Answering
    <3>3. RequestOK(s)'
      BY <1>1, <1>6, <3>1, <3>2
         DEF RequestOK, Handling, Answering, InTx, LiveAttempt, LiveQuestion
    <3>4. RequestCounts(s)'
      BY <1>1, <1>6, <1>8, <3>1, <3>2
         DEF RequestCounts, Answering, LiveAttempt, LiveQuestion, Request
    <3>5. RequestLists(s)'
      BY <1>9, <3>1 DEF RequestLists
    <3> QED
      BY <3>3, <3>4, <3>5
  <2> QED
    BY <2>1, <2>2
<1>11. ASSUME NEW b \in Attempts PROVE AttemptOK(b)'
  <2>1. AttemptOK(b) /\ counted[b] \in SUBSET Questions
    BY DEF IInv, TypeOK
  <2>2. attempts[b].life = "live" => ListsAll(attempts[b].quiz, attempts[b].listed)'
    BY <1>1, <1>6, <2>1 DEF AttemptOK, ListsAll, LiveQuestion
  <2>3. CASE b # a
    BY <1>1, <1>5, <1>8, <2>1, <2>2, <2>3 DEF AttemptOK
  <2>4. CASE b = a
    <3>1. attempts[a].life = "live" =>
            /\ lookupErrors = 0 => req[r].correct = Cardinality(C)
            /\ MayCount(a, C)
      BY <1>1 DEF IInv, RequestCounts, LiveAttempt
    <3>2. attempts[a].life = "live" => MayCount(a, C)'
      BY <1>1, <1>8, <3>1
    <3> QED
      BY <1>1, <1>3, <1>5, <1>6, <2>1, <2>2, <2>4, <3>1, <3>2 DEF AttemptOK
  <2> QED
    BY <2>3, <2>4
<1>12. NoOrphans'
  BY <1>1, <1>5, <1>6 DEF IInv, NoOrphans, TypeOK, RequestOK
<1>13. CardsLogged'
  BY <1>1, <1>5 DEF IInv, CardsLogged
<1>14. AnswersAcknowledged'
  BY <1>1, <1>4, <1>5, <1>6 DEF IInv, AnswersAcknowledged, Kept, RequestOK
<1> QED
  BY <1>7, <1>10, <1>11, <1>12, <1>13, <1>14 DEF IInv

(***************************************************************************)
(* Edits.  They touch neither the requests nor what is counted; a card and *)
(* its logs concern no count, and publishing deletes nothing.              *)
(***************************************************************************)
LEMMA CountsKept ==
  ASSUME IInv, UNCHANGED <<questions, attempts, answers, edited>>,
         UNCHANGED <<req, counted, lookupErrors>>
  PROVE  /\ \A s \in Requests : RequestCounts(s)' /\ RequestLists(s)'
         /\ \A a \in Attempts : AttemptOK(a)'
<1>1. \A a \in Attempts, P \in SUBSET Questions : MayCount(a, P) => MayCount(a, P)'
  BY DEF MayCount, LiveQuestion, AnswerTo
<1>2. \A z, listed : ListsAll(z, listed) => ListsAll(z, listed)'
  BY DEF ListsAll, LiveQuestion
<1>3. ASSUME NEW s \in Requests PROVE RequestCounts(s)' /\ RequestLists(s)'
  <2>1. RequestCounts(s) /\ RequestLists(s) /\ req[s] \in Request /\ RequestOK(s)
    BY DEF IInv, TypeOK
  <2> QED
    BY <1>1, <1>2, <2>1
       DEF RequestCounts, RequestLists, RequestOK, Handling, Answering,
           LiveAttempt, LiveQuestion, Request
<1>4. ASSUME NEW a \in Attempts PROVE AttemptOK(a)'
  <2>1. AttemptOK(a) /\ counted[a] \in SUBSET Questions
    BY DEF IInv, TypeOK
  <2> QED
    BY <1>1, <1>2, <2>1 DEF AttemptOK
<1> QED
  BY <1>3, <1>4

\* Publishing touches nothing that requests rely on.
LEMMA SetPublishedStep ==
  ASSUME IInv, NEW z \in Quizzes, SetPublished(z)
  PROVE  IInv'
<1>1. /\ quizzes' \in [Quizzes -> Quiz]
      /\ \A y \in Quizzes : quizzes[y] # "deleted" => quizzes'[y] # "deleted"
  BY DEF SetPublished, IInv, TypeOK, Quiz
<1>2. /\ UNCHANGED <<questions, cards, attempts, answers, logs, edited>>
      /\ UNCHANGED <<req, counted, lookupErrors>> /\ edits' \in 0..MaxEdits
  BY ConstantsOK DEF SetPublished, Edit, IInv, TypeOK
<1>3. TypeOK'
  BY <1>1, <1>2 DEF IInv, TypeOK
<1>4. \A s \in Requests : RequestOK(s)'
  BY <1>2 DEF IInv, RequestOK, Handling, Answering, LiveAttempt, LiveQuestion
<1>5. NoOrphans'
  BY <1>1, <1>2, ConstantsOK DEF IInv, NoOrphans, AttemptOK
<1>6. CardsLogged' /\ AnswersAcknowledged'
  BY <1>2 DEF IInv, CardsLogged, AnswersAcknowledged, Kept
<1> QED
  BY <1>2, <1>3, <1>4, <1>5, <1>6, CountsKept DEF IInv

\* Suspending, resetting or deleting a card parts no state from its log.
LEMMA CardEditStep ==
  ASSUME IInv, NEW c \in Cards, SetSuspended(c) \/ ResetFSRS(c) \/ DeleteCard(c)
  PROVE  IInv'
<1>1. /\ UNCHANGED <<quizzes, questions, attempts, answers, edited>>
      /\ UNCHANGED <<req, counted, lookupErrors>> /\ edits' \in 0..MaxEdits
      /\ cards[c].life = "live" /\ ~CardLocked(c)
  BY ConstantsOK DEF SetSuspended, ResetFSRS, DeleteCard, Edit, IInv, TypeOK
<1>2. /\ cards' \in [Cards -> Card]
      /\ \A d \in Cards \ {c} : cards'[d] = cards[d]
      /\ cards'[c].fsrs \in {cards[c].fsrs, None}
  <2>0. cards \in [Cards -> Card]
    BY DEF IInv, TypeOK
  <2>1. CASE SetSuspended(c)
    <3>1. cards' = [cards EXCEPT ![c].suspended = ~@]
      BY <2>1 DEF SetSuspended
    <3> QED
      BY <2>0, <3>1 DEF Card
  <2>2. CASE ResetFSRS(c)
    <3>1. cards' = [cards EXCEPT ![c].fsrs = None]
      BY <2>2 DEF ResetFSRS
    <3> QED
      BY <2>0, <3>1 DEF Card
  <2>3. CASE DeleteCard(c)
    <3>1. cards' = [cards EXCEPT ![c].life = "deleted"]
      BY <2>3 DEF DeleteCard
    <3> QED
      BY <2>0, <3>1 DEF Card, Life
  <2> QED
    BY <2>1, <2>2, <2>3
<1>3. \/ cards'[c].life = "live" /\ logs' = logs
      \/ /\ cards'[c].life = "deleted"
         /\ logs' = {r \in logs : CardOf[req[r].question] # c}
  BY <1>1 DEF SetSuspended, ResetFSRS, DeleteCard, IInv, TypeOK, Card
<1>4. TypeOK'
  BY <1>1, <1>2, <1>3 DEF IInv, TypeOK
<1>5. ASSUME NEW s \in Requests PROVE RequestOK(s)'
  <2>1. RequestOK(s) /\ (s \in logs' => s \in logs)
    BY <1>3 DEF IInv
  <2>2. req[s].pc = "commitFSRS" => /\ CardOf[req[s].question] # c
                                    /\ CardOf[req[s].question] \in Cards
    BY <1>1, <2>1 DEF CardLocked, RequestOK, InTx
  <2> QED
    BY <1>1, <1>2, <2>1, <2>2
       DEF RequestOK, Handling, Answering, LiveAttempt, LiveQuestion
<1>6. NoOrphans'
  BY <1>1, <1>2, <1>3 DEF IInv, NoOrphans, TypeOK, RequestOK
<1>7. CardsLogged'
  BY <1>1, <1>2, <1>3 DEF IInv, CardsLogged
<1>8. AnswersAcknowledged'
  BY <1>1 DEF IInv, AnswersAcknowledged, Kept
<1> QED
  BY <1>1, <1>4, <1>5, <1>6, <1>7, <1>8, CountsKept DEF IInv

(***************************************************************************)
(* A question added or changed marks its quiz as edited: nothing is said   *)
(* any more about what the attempts at that quiz listed.                   *)
(***************************************************************************)
LEMMA WriteQuestionStep ==
  ASSUME IInv, NEW q \in Questions, NEW p \in Points,
         CreateQuestion(q, p) \/ UpdateQuestion(q, p)
  PROVE  IInv'
<1>1. /\ UNCHANGED <<quizzes, cards, attempts, answers, logs>>
      /\ UNCHANGED <<req, counted, lookupErrors>> /\ edits' \in 0..MaxEdits
      /\ edited' = edited \cup {QuizOf[q]} /\ edited \subseteq edited'
      /\ edited' \subseteq Quizzes /\ answers \subseteq Requests
  BY ConstantsOK DEF CreateQuestion, UpdateQuestion, Edit, IInv, TypeOK
<1>2. /\ questions' \in [Questions -> Question] /\ questions'[q].life = "live"
      /\ \A p2 \in Questions \ {q} : questions'[p2] = questions[p2]
      /\ questions[q].life = "live" \/ (questions[q].life = "free"
                                         /\ quizzes[QuizOf[q]] # "deleted")
  BY DEF CreateQuestion, UpdateQuestion, IInv, TypeOK, Question, Life
<1>3. quizzes[QuizOf[q]] # "deleted"
  BY <1>2 DEF IInv, NoOrphans
<1>4. \A p2 \in Questions : questions[p2].life # "free" => questions'[p2].life = questions[p2].life
  BY <1>2
<1>5. TypeOK'
  BY <1>1, <1>2 DEF IInv, TypeOK
<1>6. \A a \in Attempts, P \in SUBSET Questions : MayCount(a, P) => MayCount(a, P)'
  BY <1>1, <1>4 DEF MayCount, LiveQuestion, AnswerTo
<1>7. \A z, listed : ListsAll(z, listed) => ListsAll(z, listed)'
  BY <1>1, <1>2 DEF ListsAll, LiveQuestion
<1>8. ASSUME NEW s \in Requests
      PROVE  (RequestOK(s) /\ RequestCounts(s) /\ RequestLists(s))'
  <2>1. /\ RequestOK(s) /\ RequestCounts(s) /\ RequestLists(s)
        /\ req[s] \in Request
    BY DEF IInv, TypeOK
  <2>2. RequestOK(s)'
    BY <1>1, <1>4, <2>1
       DEF RequestOK, Handling, Answering, LiveAttempt, LiveQuestion
  <2>3. ASSUME Answering(s), req[s].pc # "lookup", LiveQuestion(req[s].question)',
               lookupErrors = 0, LiveAttempt(req[s].attempt)
        PROVE  req[s].question \notin req[s].counted
    <3>1. MayCount(req[s].attempt, req[s].counted)
      BY <2>1, <2>3 DEF RequestCounts, Handling
    <3>2. req[s].question \in req[s].counted => LiveQuestion(req[s].question)
      BY <1>1, <1>2, <2>3, <3>1 DEF MayCount, LiveQuestion
    <3>3. LiveQuestion(req[s].question) => req[s].question \notin req[s].counted
      BY <2>1, <2>3 DEF RequestCounts
    <3> QED
      BY <3>2, <3>3
  <2>4. RequestCounts(s)'
    BY <1>1, <1>6, <2>1, <2>3
       DEF RequestCounts, RequestOK, Handling, Answering, LiveAttempt, Request
  <2>5. RequestLists(s)'
    BY <1>1, <1>7, <2>1 DEF RequestLists
  <2> QED
    BY <2>2, <2>4, <2>5
<1>9. ASSUME NEW a \in Attempts PROVE AttemptOK(a)'
  <2>1. AttemptOK(a) /\ counted[a] \in SUBSET Questions
    BY DEF IInv, TypeOK
  <2> QED
    BY <1>1, <1>6, <1>7, <2>1 DEF AttemptOK
<1>10. NoOrphans'
  BY <1>1, <1>2, <1>3, <1>4 DEF IInv, NoOrphans, RequestOK
<1>11. CardsLogged' /\ AnswersAcknowledged'
  BY <1>1, <1>2, <1>4 DEF IInv, CardsLogged, AnswersAcknowledged, Kept, RequestOK
<1> QED
  BY <1>5, <1>8, <1>9, <1>10, <1>11 DEF IInv

(***************************************************************************)
(* A deleted question takes its answers with it; no request that has       *)
(* already inserted an answer to it is still in its transaction.           *)
(***************************************************************************)
LEMMA DeleteQuestionStep ==
  ASSUME IInv, NEW q \in Questions, DeleteQuestion(q)
  PROVE  IInv'
<1>1. /\ UNCHANGED <<quizzes, cards, attempts, logs, edited>>
      /\ UNCHANGED <<req, counted, lookupErrors>> /\ edits' \in 0..MaxEdits
      /\ answers' = {r \in answers : req[r].question # q}
      /\ answers \subseteq Requests
      /\ questions[q].life = "live" /\ ~QuestionReferenced(q)
  BY ConstantsOK DEF DeleteQuestion, Edit, IInv, TypeOK
<1>2. /\ questions' \in [Questions -> Question] /\ questions'[q].life = "deleted"
      /\ \A p \in Questions \ {q} : questions'[p] = questions[p]
  BY DEF DeleteQuestion, IInv, TypeOK, Question, Life
<1>3. TypeOK'
  BY <1>1, <1>2 DEF IInv, TypeOK
<1>4. \A a \in Attempts, P \in SUBSET Questions : MayCount(a, P) => MayCount(a, P)'
  BY <1>1, <1>2 DEF MayCount, LiveQuestion, AnswerTo
<1>5. \A z, listed : ListsAll(z, listed) => ListsAll(z, listed)'
  BY <1>1, <1>2 DEF ListsAll, LiveQuestion
<1>6. ASSUME NEW s \in Requests
      PROVE  (RequestOK(s) /\ RequestCounts(s) /\ RequestLists(s))'
  <2>1. /\ RequestOK(s) /\ RequestCounts(s) /\ RequestLists(s)
        /\ req[s] \in Request /\ (s \in answers' => s \in answers)
    BY <1>1 DEF IInv, TypeOK
  <2>2. req[s].pc \in InTx => req[s].question # q
    BY <1>1 DEF QuestionReferenced
  <2>3. RequestOK(s)'
    BY <1>1, <1>2, <2>1, <2>2
       DEF RequestOK, Handling, Answering, LiveAttempt, LiveQuestion
  <2>4. RequestCounts(s)'
    BY <1>1, <1>2, <1>4, <2>1
       DEF RequestCounts, RequestOK, Handling, Answering, LiveAttempt,
           LiveQuestion, Request
  <2>5. RequestLists(s)'
    BY <1>1, <1>5, <2>1 DEF RequestLists
  <2> QED
    BY <2>3, <2>4, <2>5
<1>7. ASSUME NEW a \in Attempts PROVE AttemptOK(a)'
  <2>1. AttemptOK(a) /\ counted[a] \in SUBSET Questions
    BY DEF IInv, TypeOK
  <2> QED
    BY <1>1, <1>4, <1>5, <2>1 DEF AttemptOK
<1>8. NoOrphans'
  BY <1>1, <1>2 DEF IInv, NoOrphans, RequestOK
<1>9. CardsLogged' /\ AnswersAcknowledged'
  BY <1>1, <1>2 DEF IInv, CardsLogged, AnswersAcknowledged, Kept, RequestOK
<1> QED
  BY <1>3, <1>6, <1>7, <1>8, <1>9 DEF IInv

(***************************************************************************)
(* A deleted quiz takes its questions, its attempts and their answers; no  *)
(* request in its transaction is about one of those attempts.              *)
(***************************************************************************)
LEMMA DeleteQuizStep ==
  ASSUME IInv, NEW z \in Quizzes, DeleteQuiz(z)
  PROVE  IInv'
<1>1. /\ UNCHANGED <<cards, logs, edited, req, counted, lookupErrors>>
      /\ edits' \in 0..MaxEdits
      /\ answers' = {r \in answers : attempts[req[r].attempt].quiz # z}
      /\ answers \subseteq Requests
      /\ \A a \in Attempts : attempts[a].quiz = z => ~AttemptLocked(a)
  BY ConstantsOK DEF DeleteQuiz, Edit, IInv, TypeOK
<1>2. /\ quizzes' \in [Quizzes -> Quiz] /\ quizzes'[z] = "deleted"
      /\ \A y \in Quizzes \ {z} : quizzes'[y] = quizzes[y]
  BY DEF DeleteQuiz, IInv, TypeOK, Quiz
<1>3. /\ questions' \in [Questions -> Question]
      /\ \A q \in Questions :
           /\ questions'[q].life # "free" <=> questions[q].life # "free"
           /\ questions'[q].life = "live"
                => questions[q].life = "live" /\ QuizOf[q] # z
           /\ questions[q].life = "deleted" => questions'[q].life = "deleted"
           /\ QuizOf[q] # z => questions'[q].life = questions[q].life
           /\ QuizOf[q] = z /\ questions[q].life = "live" => questions'[q].life = "deleted"
  BY DEF DeleteQuiz, IInv, TypeOK, Question, Life
<1>4. /\ attempts' \in [Attempts -> Attempt]
      /\ \A a \in Attempts :
           /\ attempts'[a].quiz = attempts[a].quiz
           /\ attempts'[a].listed = attempts[a].listed
           /\ attempts'[a].correct = attempts[a].correct
           /\ attempts'[a].life = IF attempts[a].quiz = z THEN "deleted"
                                                          ELSE attempts[a].life
           /\ attempts[a].life = "free" => attempts[a].quiz # z
  <2>1. \A a \in Attempts : attempts[a].life = "free" => attempts[a].quiz # z
    BY ConstantsOK DEF IInv, AttemptOK
  <2>2. attempts' = [a \in Attempts |->
                       IF attempts[a].quiz = z
                         THEN [attempts[a] EXCEPT !.life = "deleted"]
                         ELSE attempts[a]]
    BY DEF DeleteQuiz
  <2>3. \A a \in Attempts : /\ attempts[a] \in Attempt
                             /\ [attempts[a] EXCEPT !.life = "deleted"] \in Attempt
    BY ZenonT(60) DEF IInv, TypeOK, Attempt, Life
  <2>4. attempts' \in [Attempts -> Attempt]
    BY <2>2, <2>3
  <2>5. \A a \in Attempts : attempts[a] \in Attempt
    BY <2>3
  <2> QED
    BY <2>1, <2>2, <2>4, <2>5 DEF Attempt
<1>5. TypeOK'
  BY <1>1, <1>2, <1>3, <1>4 DEF IInv, TypeOK
<1>6. \A a \in Attempts, P \in SUBSET Questions :
        attempts[a].quiz # z /\ MayCount(a, P) => MayCount(a, P)'
  <2> SUFFICES ASSUME NEW a \in Attempts, NEW P \in SUBSET Questions,
                      attempts[a].quiz # z, MayCount(a, P), NEW p \in P
               PROVE  (/\ QuizOf[p] = attempts[a].quiz
                       /\ questions[p].life # "free"
                       /\ attempts[a].quiz \notin edited => attempts[a].listed[p] > 0
                       /\ LiveQuestion(p) => \E s \in answers : AnswerTo(s, a, p))'
    BY DEF MayCount
  <2>1. LiveQuestion(p)' => (\E s \in answers : AnswerTo(s, a, p))'
    BY <1>1, <1>3 DEF MayCount, LiveQuestion, AnswerTo
  <2> QED
    BY <1>1, <1>3, <1>4, <2>1 DEF MayCount
<1>7. \A y, listed : ListsAll(y, listed) => ListsAll(y, listed)'
  BY <1>1, <1>3 DEF ListsAll, LiveQuestion
<1>8. ASSUME NEW s \in Requests
      PROVE  (RequestOK(s) /\ RequestCounts(s) /\ RequestLists(s))'
  <2>1. /\ RequestOK(s) /\ RequestCounts(s) /\ RequestLists(s)
        /\ req[s] \in Request /\ (s \in answers' => s \in answers)
    BY <1>1 DEF IInv, TypeOK
  <2>2. req[s].pc \in InTx => attempts[req[s].attempt].quiz # z
    BY <1>1, <2>1 DEF AttemptLocked, RequestOK, Handling, Answering
  <2>3. RequestOK(s)'
    BY <1>1, <1>3, <1>4, <2>1, <2>2
       DEF RequestOK, Handling, Answering, LiveAttempt, LiveQuestion
  <2>4. Handling(s) /\ LiveAttempt(req[s].attempt)'
          => MayCount(req[s].attempt, req[s].counted)'
    BY <1>1, <1>4, <1>6, <2>1 DEF RequestCounts, LiveAttempt, Request
  <2>5. RequestCounts(s)'
    BY <1>1, <1>3, <1>4, <2>1, <2>4
       DEF RequestCounts, Handling, Answering, LiveAttempt, LiveQuestion
  <2>6. RequestLists(s)'
    BY <1>1, <1>7, <2>1 DEF RequestLists
  <2> QED
    BY <2>3, <2>5, <2>6
<1>9. ASSUME NEW a \in Attempts PROVE AttemptOK(a)'
  <2>1. AttemptOK(a) /\ counted[a] \in SUBSET Questions
    BY DEF IInv, TypeOK
  <2>2. attempts'[a].life = "live" =>
          MayCount(a, counted[a])' /\ ListsAll(attempts[a].quiz, attempts[a].listed)'
    BY <1>1, <1>4, <1>6, <1>7, <2>1 DEF AttemptOK
  <2> QED
    BY <1>1, <1>4, <2>1, <2>2 DEF AttemptOK
<1>10. NoOrphans'
  BY <1>1, <1>2, <1>3, <1>4, ConstantsOK DEF IInv, NoOrphans, AttemptOK, RequestOK
<1>11. CardsLogged'
  BY <1>1 DEF IInv, CardsLogged
<1>12. AnswersAcknowledged'
  BY <1>1, <1>3, <1>4 DEF IInv, AnswersAcknowledged, Kept, RequestOK
<1> QED
  BY <1>5, <1>8, <1>9, <1>10, <1>11, <1>12 DEF IInv

\* The initial states satisfy the invariant.
LEMMA InitIInv == Init => IInv
<1> SUFFICES ASSUME Init PROVE IInv
  OBVIOUS
<1>1. TypeOK
  BY InitType
<1>2. \A r \in Requests : req[r].pc = "new" /\ req[r].kind = "none"
  BY DEF Init, NewRequest
<1>3. answers = {} /\ logs = {} /\ \A a \in Attempts : counted[a] = {}
  BY DEF Init
<1>4. \A r \in Requests : RequestOK(r) /\ RequestCounts(r) /\ RequestLists(r)
  BY <1>2, <1>3
     DEF RequestOK, RequestCounts, RequestLists, Handling, Answering, InTx
<1>5. ASSUME NEW a \in Attempts PROVE AttemptOK(a)
  <2>1. CASE attempts[a] = FreeAttempt
    BY <1>3, <2>1 DEF AttemptOK, FreeAttempt
  <2>2. CASE attempts[a] # FreeAttempt
    <3>1. PICK z \in Quizzes :
            attempts[a] = OpenAttempt(OwnerOf[z], z, PointsListed(z))
      BY <2>2 DEF Init
    <3>2. /\ attempts[a].life = "live" /\ attempts[a].quiz = z
          /\ attempts[a].correct = 0 /\ attempts[a].listed = PointsListed(z)
      BY <3>1 DEF OpenAttempt
    <3>3. Cardinality(counted[a]) = 0
      BY <1>3, FS_EmptySet
    <3>4. ListsAll(z, PointsListed(z))
      BY <1>1, ConstantsOK
         DEF ListsAll, PointsListed, LiveQuestion, TypeOK, Question, Points
    <3> QED
      BY <1>3, <3>2, <3>3, <3>4 DEF AttemptOK, MayCount
  <2> QED
    BY <2>1, <2>2
<1>6. NoOrphans
  BY <1>3, <1>5, ConstantsOK DEF Init, NoOrphans, AttemptOK
<1>7. CardsLogged
  BY DEF Init, CardsLogged
<1>8. AnswersAcknowledged
  BY <1>2, <1>3 DEF AnswersAcknowledged, Kept
<1> QED
  BY <1>1, <1>4, <1>5, <1>6, <1>7, <1>8 DEF IInv

\* Every step keeps the invariant: one case per action.
LEMMA StepIInv == IInv /\ [Next]_vars => IInv'
<1> SUFFICES ASSUME IInv, [Next]_vars PROVE IInv'
  OBVIOUS
<1>1. ASSUME NEW r \in Requests, Arrive(r) PROVE IInv'
  <2>1. PICK u \in Users :
          \/ \E z \in Quizzes : StartLoadQuiz(r, u, z)
          \/ \E a \in Attempts : SubmitLoadAttempt(r, u, a) \/ CompleteLoadAttempt(r, u, a)
    BY <1>1 DEF Arrive
  <2>2. CASE \E z \in Quizzes : StartLoadQuiz(r, u, z)
    BY <2>2, StartLoadQuizStep
  <2>3. ASSUME NEW a \in Attempts, SubmitLoadAttempt(r, u, a) PROVE IInv'
    BY <2>3, LoadAttemptStep DEF SubmitLoadAttempt
  <2>4. ASSUME NEW a \in Attempts, CompleteLoadAttempt(r, u, a) PROVE IInv'
    BY <2>4, LoadAttemptStep DEF CompleteLoadAttempt
  <2> QED
    BY <2>1, <2>2, <2>3, <2>4
<1>2. ASSUME NEW r \in Requests, Step(r) PROVE IInv'
  <2>1. CASE StartListQuestions(r)
    BY <2>1, StartListQuestionsStep
  <2>2. CASE \E a \in Attempts : StartCreate(r, a)
    BY <2>2, StartCreateStep
  <2>3. CASE \E q \in Questions : SubmitLoadQuestion(r, q)
    BY <2>3, SubmitLoadQuestionStep
  <2>4. CASE SubmitLookup(r) \/ SubmitLookupError(r)
    BY <2>4, SubmitLookupStep, SubmitLookupErrorStep
  <2>5. CASE SubmitWrite(r)
    BY <2>5, SubmitWriteStep
  <2>6. CASE FSRSLoadCard(r) \/ FSRSApply(r)
    BY <2>6, FSRSStep
  <2>7. CASE SubmitCommit(r) \/ SubmitCommitFSRS(r)
    BY <2>7, SubmitCommitStep, SubmitCommitFSRSStep
  <2>8. CASE SubmitCommitAborted(r)
    BY <2>8, EndWithoutEffectStep
  <2>9. CASE CompleteWrite(r)
    BY <2>9, CompleteWriteStep
  <2> QED
    BY <1>2, <2>1, <2>2, <2>3, <2>4, <2>5, <2>6, <2>7, <2>8, <2>9 DEF Step
<1>3. ASSUME NEW r \in Requests, Fail(r) PROVE IInv'
  BY <1>3, EndWithoutEffectStep
<1>4. CASE AuthorEdit
  BY <1>4, SetPublishedStep, DeleteQuizStep, WriteQuestionStep, DeleteQuestionStep
     DEF AuthorEdit
<1>5. CASE CardEdit
  BY <1>5, CardEditStep DEF CardEdit
<1>6. CASE UNCHANGED vars
  <2>1. /\ UNCHANGED <<quizzes, questions, cards, attempts, answers, logs>>
        /\ UNCHANGED <<req, counted, edited, edits, lookupErrors>>
    BY <1>6 DEF vars, db, history
  <2>2. TypeOK' /\ NoOrphans' /\ CardsLogged' /\ AnswersAcknowledged'
    BY <2>1 DEF IInv, TypeOK, NoOrphans, CardsLogged, AnswersAcknowledged, Kept
  <2>3. \A r \in Requests : RequestOK(r)'
    BY <2>1 DEF IInv, RequestOK, Handling, Answering, LiveAttempt, LiveQuestion
  <2> QED
    BY <2>1, <2>2, <2>3, CountsKept DEF IInv
<1> QED
  BY <1>1, <1>2, <1>3, <1>4, <1>5, <1>6 DEF Next

(***************************************************************************)
(* The invariant the theorems below rest on: it holds initially and every  *)
(* step of a request, an author or a card owner keeps it.                  *)
(***************************************************************************)
THEOREM Inductive == Spec => []IInv
  BY InitIInv, StepIInv, PTL DEF Spec

\* Every row and every request's copy of one stays within its type.
THEOREM TypeCorrect == Spec => []TypeOK
<1>1. IInv => TypeOK
  BY DEF IInv
<1> QED
  BY <1>1, Inductive, PTL

\* The questions counted are among those listed, so no more than listed.
LEMMA CountedIsListed == IInv => CorrectWithinTotal
<1> SUFFICES ASSUME IInv, NEW a \in Attempts, attempts[a].life = "live",
                    Undisturbed(a)
             PROVE  attempts[a].correct <= TotalQuestions(a)
  BY DEF CorrectWithinTotal
<1> DEFINE listed == {q \in Questions : attempts[a].listed[q] > 0}
<1>1. AttemptOK(a) /\ counted[a] \in SUBSET Questions
  BY DEF IInv, TypeOK
<1>2. attempts[a].correct = Cardinality(counted[a])
  BY <1>1 DEF AttemptOK, Undisturbed
<1>3. counted[a] \subseteq listed
  BY <1>1 DEF AttemptOK, MayCount, Undisturbed
<1>4. IsFiniteSet(listed)
  BY ConstantsOK, FS_Subset
<1>5. Cardinality(counted[a]) <= Cardinality(listed)
  BY <1>3, <1>4, FS_Subset
<1> QED
  BY <1>2, <1>5 DEF TotalQuestions

(***************************************************************************)
(* Whatever the number of racing requests, correct_count stays within      *)
(* total_questions: each right answer counted is a different listed        *)
(* question (SubmitAnswer of internal/service/quiz.go).                    *)
(***************************************************************************)
THEOREM CorrectNeverExceedsTotal == Spec => []CorrectWithinTotal
  BY CountedIsListed, Inductive, PTL

(***************************************************************************)
(* What applyFSRSFromQuiz writes to a card comes with its review log and   *)
(* its answer, whatever is deleted or edited meanwhile.                    *)
(***************************************************************************)
THEOREM CardStateAlwaysLogged == Spec => []CardStateHasItsLog
<1>1. IInv => CardStateHasItsLog
  BY DEF IInv, TypeOK, CardsLogged, CardStateHasItsLog, AnswersAcknowledged,
         RequestOK
<1> QED
  BY <1>1, Inductive, PTL

\* SubmitAnswer acknowledges exactly the answers that are stored.
THEOREM AnswersStored == Spec => []AnswersAcknowledged
<1>1. IInv => AnswersAcknowledged
  BY DEF IInv
<1> QED
  BY <1>1, Inductive, PTL

\* Cascades and row locks leave no row that refers to a deleted one.
THEOREM NothingOrphaned == Spec => []NoOrphans
<1>1. IInv => NoOrphans
  BY DEF IInv
<1> QED
  BY <1>1, Inductive, PTL

\* Both together: what the tables hold is what their declarations allow.
THEOREM SchemaIsKept == Spec => []SchemaKept
<1>1. IInv => SchemaKept
  BY DEF IInv, SchemaKept
<1> QED
  BY <1>1, Inductive, PTL

(***************************************************************************)
(* is_suspended changes only when the owner changes it: the card that an   *)
(* answer writes back keeps what Suspend wrote since it was read.          *)
(***************************************************************************)
THEOREM SuspensionIsTheOwners == Spec => SuspensionKept
<1> DEFINE ByOwner == \A c \in Cards : cards'[c].suspended # cards[c].suspended => req' = req
<1>1. TypeOK /\ [Next]_vars => [ByOwner]_vars
  <2> SUFFICES ASSUME TypeOK, Next, cards' # cards, req' # req PROVE ByOwner
    BY DEF TypeOK
  <2>1. PICK r \in Requests : SubmitCommitFSRS(r)
    <3>1. ~AuthorEdit /\ ~CardEdit
      BY DEF AuthorEdit, CardEdit, Edit, SetPublished, DeleteQuiz, CreateQuestion,
             UpdateQuestion, DeleteQuestion, SetSuspended, ResetFSRS, DeleteCard
    <3>2. ASSUME NEW r \in Requests PROVE ~Arrive(r) /\ ~Fail(r)
      BY DEF Arrive, StartLoadQuiz, SubmitLoadAttempt, CompleteLoadAttempt, LoadAttempt, Fail, db
    <3>3. ASSUME NEW r \in Requests, Step(r) PROVE SubmitCommitFSRS(r)
      BY <3>3 DEF Step, StartListQuestions, StartCreate, SubmitLoadQuestion,
             SubmitLookup, SubmitLookupError, SubmitWrite, FSRSLoadCard, FSRSApply,
             SubmitCommit, SubmitCommitAborted, CompleteWrite, db
    <3> QED
      BY <3>1, <3>2, <3>3 DEF Next
  <2>2. cards' = [cards EXCEPT ![CardOf[req[r].question]].fsrs = r]
    BY <2>1 DEF SubmitCommitFSRS
  <2> QED
    BY <2>2 DEF TypeOK, Card
<1> QED
  BY <1>1, TypeCorrect, PTL DEF Spec, SuspensionKept

------------------------------------------------------------------------------
(***************************************************************************)
(* One request at a time, QuizAttempt implements AttemptLedger.            *)
(***************************************************************************)
Promise == Ledger!Next \/ LedgerOf' = LedgerOf

\* What the facts below need of a request that is about an attempt.
LEMMA HandlingFacts ==
  ASSUME IInv, NEW r \in Requests, Handling(r)
  PROVE  /\ req[r] \in Request /\ UnderWay(r) /\ r \notin answers
         /\ req[r].attempt \in Attempts /\ req[r].attempt # None
         /\ attempts[req[r].attempt] \in Attempt
         /\ attempts[req[r].attempt].life # "free"
<1>1. UnderWay(r) /\ req[r].pc # "ok"
  BY DEF Handling, Answering, UnderWay, Reading, InTx
<1> QED
  BY <1>1, ConstantsOK DEF IInv, TypeOK, RequestOK

\* Only one request is about an attempt.
LEMMA Alone ==
  ASSUME IInv, SerialIInv, NEW r \in Requests, NEW s \in Requests \ {r},
         Handling(r), Handling(s)
  PROVE  req[r].attempt # req[s].attempt
BY HandlingFacts DEF SerialIInv, OneAtATime

\* An attempt nobody wrote and nobody answered looks the same in the ledger.
LEMMA EntryKept ==
  ASSUME NEW a \in Attempts, attempts'[a] = attempts[a],
         AnswersOf(a)' = AnswersOf(a),
         \A r \in AnswersOf(a) : req'[r].question = req[r].question
  PROVE  EntryOf(a)' = EntryOf(a)
<1>1. AnsweredIn(a)' = AnsweredIn(a)
  BY DEF AnsweredIn
<1>2. LedgerState(a)' = LedgerState(a)
  BY DEF LedgerState
<1> QED
  BY <1>1, <1>2 DEF EntryOf

\* So does the ledger when no attempt and no answer changes.
LEMMA LedgerKept ==
  ASSUME UNCHANGED <<attempts, answers>>, \A r \in answers : req'[r] = req[r]
  PROVE  LedgerOf' = LedgerOf
<1>1. ASSUME NEW a \in Attempts PROVE EntryOf(a)' = EntryOf(a)
  <2>1. AnswersOf(a)' = AnswersOf(a)
    BY DEF AnswersOf
  <2>2. \A r \in AnswersOf(a) : req'[r].question = req[r].question
    BY DEF AnswersOf
  <2> QED
    BY <2>1, <2>2, EntryKept
<1> QED
  BY <1>1 DEF LedgerOf

\* When attempt a alone is written or answered, so is its entry.
LEMMA LedgerWritten ==
  ASSUME NEW a \in Attempts, \A b \in Attempts \ {a} : EntryOf(b)' = EntryOf(b)
  PROVE  LedgerOf' = [LedgerOf EXCEPT ![a] = EntryOf(a)']
BY DEF LedgerOf

\* A request that did not move keeps what it relies on.
LEMMA OthersKept ==
  ASSUME NEW s \in Requests, SerialOK(s), req'[s] = req[s],
         Handling(s) /\ LiveAttempt(req[s].attempt)'
           => attempts'[req[s].attempt] = attempts[req[s].attempt],
         Handling(s) =>
           \A t \in answers' : \/ t \in answers /\ req'[t] = req[t]
                               \/ req'[t].attempt # req[s].attempt
  PROVE  SerialOK(s)'
<1>1. (Handling(s)' <=> Handling(s)) /\ (Writing(s)' <=> Writing(s))
      /\ (Answering(s)' <=> Answering(s)) /\ (Writing(s) => Handling(s))
  BY DEF Handling, Answering, Writing
<1>2. Handling(s) /\ LiveAttempt(req[s].attempt)' => LiveAttempt(req[s].attempt)
  BY DEF LiveAttempt
<1>3. Handling(s)' /\ LiveAttempt(req[s].attempt)'
       => (/\ ~attempts[req[s].attempt].completed
           /\ req[s].score = attempts[req[s].attempt].score
           /\ req[s].correct = attempts[req[s].attempt].correct)'
  BY <1>1, <1>2 DEF SerialOK
<1>4. Writing(s)' /\ LiveAttempt(req[s].attempt)'
        => (~ \E t \in answers : AnswerTo(t, req[s].attempt, req[s].question))'
  BY <1>1, <1>2 DEF SerialOK, AnswerTo
<1>5. Answering(s)' => (req[s].points \in Points)'
  BY <1>1 DEF SerialOK
<1> QED
  BY <1>3, <1>4, <1>5 DEF SerialOK

(***************************************************************************)
(* A step of one request that writes nothing: the others and the ledger do *)
(* not notice, so only what the request becomes has to be right.           *)
(***************************************************************************)
LEMMA ReadSerial ==
  ASSUME IInv, SerialIInv, NEW r \in Requests, NEW new,
         req' = [req EXCEPT ![r] = new], r \notin answers,
         UNCHANGED <<attempts, answers>>, SerialOK(r)'
  PROVE  (\A s \in Requests : SerialOK(s)') /\ LedgerOf' = LedgerOf
<1>1. \A s \in Requests \ {r} : req'[s] = req[s]
  BY DEF IInv, TypeOK
<1>2. \A s \in answers : req'[s] = req[s]
  BY <1>1 DEF IInv, TypeOK
<1>3. ASSUME NEW s \in Requests \ {r} PROVE SerialOK(s)'
  BY <1>1, <1>2, <1>3, OthersKept DEF SerialIInv
<1> QED
  BY <1>2, <1>3, LedgerKept

\* A request that ends, or has not read an attempt, relies on nothing.
LEMMA IdleSerial ==
  ASSUME NEW r \in Requests, req'[r].pc \in {"list", "create"} \cup Ended
  PROVE  SerialOK(r)'
BY DEF SerialOK, Handling, Answering, Writing, InTx, Ended

\* A request that is refused, fails or is rolled back.
LEMMA EndSerial ==
  ASSUME IInv, SerialIInv, NEW r \in Requests, NEW how \in Ended, End(r, how),
         req[r].pc # "ok", UNCHANGED <<attempts, answers>>
  PROVE  (\A s \in Requests : SerialOK(s)') /\ LedgerOf' = LedgerOf
<1> DEFINE new == [NewRequest EXCEPT !.pc = how]
<1>1. req' = [req EXCEPT ![r] = new] /\ new.pc = how
  BY DEF End, NewRequest
<1>2. req'[r].pc = how /\ r \notin answers
  BY <1>1 DEF IInv, TypeOK, RequestOK
<1> HIDE DEF new
<1> QED
  BY <1>1, <1>2, IdleSerial, ReadSerial

\* Starting an attempt only reads until the attempt is created.
LEMMA StartReads ==
  ASSUME IInv, SerialIInv, NEW r \in Requests,
         (\E u \in Users, z \in Quizzes : StartLoadQuiz(r, u, z))
           \/ StartListQuestions(r)
  PROVE  (\A s \in Requests : SerialOK(s)') /\ LedgerOf' = LedgerOf
<1>1. UNCHANGED <<attempts, answers>> /\ req[r].pc \in {"new", "list"}
      /\ req[r] \in Request /\ r \notin answers
  BY DEF StartLoadQuiz, StartListQuestions, db, IInv, TypeOK, RequestOK
<1>2. CASE End(r, "refused")
  BY <1>1, <1>2, EndSerial DEF Ended
<1>3. ASSUME NEW new, req' = [req EXCEPT ![r] = new], new.pc \in {"list", "create"}
      PROVE  (\A s \in Requests : SerialOK(s)') /\ LedgerOf' = LedgerOf
  <2>1. req'[r].pc \in {"list", "create"}
    BY <1>3 DEF IInv, TypeOK
  <2> QED
    BY <1>1, <1>3, <2>1, IdleSerial, ReadSerial
<1>4. ASSUME NEW u \in Users, NEW z \in Quizzes, StartLoadQuiz(r, u, z), ~End(r, "refused")
      PROVE  (\A s \in Requests : SerialOK(s)') /\ LedgerOf' = LedgerOf
  <2> DEFINE new == [req[r] EXCEPT !.pc = "list", !.kind = "start",
                                   !.user = u, !.quiz = z]
  <2>1. req' = [req EXCEPT ![r] = new] /\ new.pc = "list"
    BY <1>1, <1>4 DEF StartLoadQuiz, Request
  <2> HIDE DEF new
  <2> QED
    BY <1>3, <2>1
<1>5. CASE StartListQuestions(r)
  <2> DEFINE new == [req[r] EXCEPT !.pc = "create",
                                   !.listed = PointsListed(req[r].quiz)]
  <2>1. req' = [req EXCEPT ![r] = new] /\ new.pc = "create"
    BY <1>1, <1>5 DEF StartListQuestions, Request
  <2> HIDE DEF new
  <2> QED
    BY <1>3, <2>1
<1> QED
  BY <1>2, <1>4, <1>5

\* What is read of an attempt is what it holds.
LEMMA LoadSerial ==
  ASSUME IInv, SerialIInv, NEW r \in Requests, NEW u \in Users, NEW a \in Attempts,
         NEW kind, NEW next \in {"question", "complete"},
         LoadAttempt(r, u, a, kind, next)
  PROVE  (\A s \in Requests : SerialOK(s)') /\ LedgerOf' = LedgerOf
<1>1. UNCHANGED <<attempts, answers>> /\ req[r].pc = "new" /\ req[r] \in Request
      /\ r \notin answers
  BY DEF LoadAttempt, db, IInv, TypeOK, RequestOK
<1>2. CASE End(r, "refused")
  BY <1>1, <1>2, EndSerial DEF Ended
<1>3. CASE ~End(r, "refused")
  <2> DEFINE new == [req[r] EXCEPT !.pc = next, !.kind = kind, !.attempt = a,
                                   !.score = attempts[a].score,
                                   !.correct = attempts[a].correct,
                                   !.counted = counted[a]]
  <2>1. /\ req' = [req EXCEPT ![r] = new] /\ ~attempts[a].completed
        /\ new.pc = next /\ new.attempt = a
        /\ new.score = attempts[a].score /\ new.correct = attempts[a].correct
    BY <1>1, <1>3 DEF LoadAttempt, Usable, Request
  <2>2. req'[r] = new
    BY <2>1 DEF IInv, TypeOK
  <2> HIDE DEF new
  <2>3. SerialOK(r)'
    BY <1>1, <2>1, <2>2 DEF SerialOK, Answering, Writing, InTx
  <2> QED
    BY <1>1, <2>1, <2>3, ReadSerial
<1> QED
  BY <1>2, <1>3

(***************************************************************************)
(* The reading steps of SubmitAnswer keep what was read of the attempt,    *)
(* and whether its question has an answer is known before it is graded.    *)
(***************************************************************************)
LEMMA AnsweringSerial ==
  ASSUME IInv, SerialIInv, NEW r \in Requests, NEW new, Handling(r),
         req' = [req EXCEPT ![r] = new], UNCHANGED <<attempts, answers>>,
         new.pc \in {"lookup", "write"} \cup InTx,
         new.attempt = req[r].attempt, new.score = req[r].score,
         new.correct = req[r].correct, new.points \in Points,
         new.pc # "lookup"
           => /\ new.question = req[r].question
              /\ \/ Writing(r)
                 \/ ~ \E s \in answers : AnswerTo(s, req[r].attempt, req[r].question)
  PROVE  (\A s \in Requests : SerialOK(s)') /\ LedgerOf' = LedgerOf
<1>1. /\ SerialOK(r) /\ r \notin answers /\ req'[r] = new
      /\ \A s \in answers : req'[s] = req[s]
  BY HandlingFacts DEF SerialIInv, IInv, TypeOK
<1>2. LiveAttempt(req[r].attempt)' <=> LiveAttempt(req[r].attempt)
  BY DEF LiveAttempt
<1>3. LiveAttempt(req[r].attempt)
        => (/\ ~attempts[req[r].attempt].completed
            /\ req[r].score = attempts[req[r].attempt].score
            /\ req[r].correct = attempts[req[r].attempt].correct)'
  BY <1>1 DEF SerialOK
<1>4. Writing(r)' /\ LiveAttempt(req[r].attempt)
        => (~ \E s \in answers : AnswerTo(s, req[r].attempt, req[r].question))'
  BY <1>1 DEF SerialOK, AnswerTo, Writing, InTx
<1>5. (req[r].points \in Points)'
  BY <1>1
<1>6. LiveAttempt(req[r].attempt)' <=> LiveAttempt(req'[r].attempt)
  BY <1>1, <1>2
<1>7. SerialOK(r)'
  BY <1>1, <1>2, <1>3, <1>4, <1>5 DEF SerialOK, LiveAttempt
<1> QED
  BY <1>1, <1>7, ReadSerial

\* A question read has points.
LEMMA LoadQuestionSerial ==
  ASSUME IInv, SerialIInv, NEW r \in Requests, NEW q \in Questions,
         SubmitLoadQuestion(r, q)
  PROVE  (\A s \in Requests : SerialOK(s)') /\ LedgerOf' = LedgerOf
<1>1. UNCHANGED <<attempts, answers>> /\ req[r].pc = "question"
      /\ req[r] \in Request /\ Handling(r) /\ questions[q].points \in Points
  BY DEF SubmitLoadQuestion, db, IInv, TypeOK, Handling, Question
<1>2. CASE End(r, "refused")
  BY <1>1, <1>2, EndSerial DEF Ended
<1>3. CASE ~End(r, "refused")
  <2> DEFINE new == [req[r] EXCEPT !.pc = "lookup", !.question = q,
                                   !.points = questions[q].points]
  <2>1. /\ req' = [req EXCEPT ![r] = new] /\ new.pc = "lookup"
        /\ new.attempt = req[r].attempt /\ new.score = req[r].score
        /\ new.correct = req[r].correct /\ new.points = questions[q].points
    BY <1>1, <1>3 DEF SubmitLoadQuestion, Request
  <2> HIDE DEF new
  <2> QED
    BY <1>1, <2>1, AnsweringSerial
<1> QED
  BY <1>2, <1>3

\* No stored answer was found, so there is none.
LEMMA LookupSerial ==
  ASSUME IInv, SerialIInv, NEW r \in Requests, SubmitLookup(r)
  PROVE  (\A s \in Requests : SerialOK(s)') /\ LedgerOf' = LedgerOf
<1>1. UNCHANGED <<attempts, answers>> /\ req[r].pc = "lookup"
      /\ req[r] \in Request /\ Handling(r) /\ Answering(r) /\ SerialOK(r)
  BY DEF SubmitLookup, db, IInv, TypeOK, Handling, Answering, SerialIInv
<1>2. CASE End(r, "refused")
  BY <1>1, <1>2, EndSerial DEF Ended
<1>3. CASE ~End(r, "refused")
  <2>1. /\ ~ \E s \in answers : AnswerTo(s, req[r].attempt, req[r].question)
        /\ Grade(r)
    BY <1>3 DEF SubmitLookup
  <2>2. PICK right \in BOOLEAN :
          req' = [req EXCEPT ![r] = [@ EXCEPT !.pc = "write", !.right = right]]
    BY <2>1, Zenon DEF Grade
  <2> DEFINE new == [req[r] EXCEPT !.pc = "write", !.right = right]
  <2>3. /\ req' = [req EXCEPT ![r] = new] /\ new.pc = "write"
        /\ new.attempt = req[r].attempt /\ new.score = req[r].score
        /\ new.correct = req[r].correct /\ new.points = req[r].points
        /\ new.question = req[r].question
    BY <1>1, <2>2 DEF Request
  <2> HIDE DEF new
  <2> QED
    BY <1>1, <2>1, <2>3, AnsweringSerial DEF SerialOK
<1> QED
  BY <1>2, <1>3

\* Inside the transaction nothing is published, so nothing changes yet.
LEMMA InTxSerial ==
  ASSUME IInv, SerialIInv, NEW r \in Requests,
         SubmitWrite(r) \/ FSRSLoadCard(r) \/ FSRSApply(r)
  PROVE  (\A s \in Requests : SerialOK(s)') /\ LedgerOf' = LedgerOf
<1>1. /\ UNCHANGED <<attempts, answers>> /\ Writing(r) /\ Answering(r)
      /\ req[r].pc # "ok"
      /\ req[r] \in Request /\ Handling(r) /\ SerialOK(r)
  BY DEF SubmitWrite, FSRSLoadCard, FSRSApply, db, IInv, TypeOK, Handling,
         Answering, Writing, InTx, SerialIInv
<1>2. CASE End(r, "failed")
  BY <1>1, <1>2, EndSerial DEF Ended
<1>3. ASSUME NEW pc \in InTx, req' = [req EXCEPT ![r].pc = pc]
      PROVE  (\A s \in Requests : SerialOK(s)') /\ LedgerOf' = LedgerOf
  <2> DEFINE new == [req[r] EXCEPT !.pc = pc]
  <2>1. /\ req' = [req EXCEPT ![r] = new] /\ new.pc = pc
        /\ new.attempt = req[r].attempt /\ new.score = req[r].score
        /\ new.correct = req[r].correct /\ new.points = req[r].points
        /\ new.question = req[r].question
    BY <1>1, <1>3 DEF Request
  <2> HIDE DEF new
  <2> QED
    BY <1>1, <2>1, AnsweringSerial DEF SerialOK, InTx
<1> QED
  BY <1>2, <1>3 DEF SubmitWrite, FSRSLoadCard, FSRSApply, InTx

\* StartAttempt opens an entry, of a row that was blank.
LEMMA CreateSerial ==
  ASSUME IInv, SerialIInv, NEW r \in Requests, NEW a \in Attempts, StartCreate(r, a)
  PROVE  (\A s \in Requests : SerialOK(s)') /\ Promise
<1>1. /\ req[r].pc = "create" /\ attempts[a].life = "free" /\ answers' = answers
      /\ attempts[a] = FreeAttempt /\ r \notin answers
      /\ attempts \in [Attempts -> Attempt]
  BY DEF StartCreate, SerialIInv, IInv, TypeOK, RequestOK
<1>2. CASE UNCHANGED attempts /\ End(r, "failed")
  BY <1>1, <1>2, EndSerial DEF Ended, Promise
<1>3. CASE /\ attempts' = [attempts EXCEPT ![a] =
                             OpenAttempt(req[r].user, req[r].quiz, req[r].listed)]
           /\ End(r, "ok")
  <2>1. /\ attempts'[a].life = "live" /\ ~attempts'[a].completed
        /\ attempts'[a].score = 0 /\ attempts'[a].correct = 0
        /\ \A b \in Attempts \ {a} : attempts'[b] = attempts[b]
    BY <1>1, <1>3 DEF OpenAttempt
  <2>2. /\ req'[r].pc = "ok" /\ \A s \in Requests \ {r} : req'[s] = req[s]
        /\ \A s \in answers : req'[s] = req[s] /\ req'[s].question = req[s].question
    BY <1>1, <1>3 DEF End, NewRequest, IInv, TypeOK
  <2>3. SerialOK(r)'
    BY <2>2, IdleSerial DEF Ended
  <2>4. ASSUME NEW s \in Requests \ {r} PROVE SerialOK(s)'
    <3>1. Handling(s) => attempts'[req[s].attempt] = attempts[req[s].attempt]
      BY <1>1, <2>1, HandlingFacts
    <3> QED
      BY <1>1, <2>2, <3>1, OthersKept DEF SerialIInv
  <2>5. \A b \in Attempts : AnswersOf(b)' = AnswersOf(b) /\ AnswersOf(b) \subseteq answers
    BY <1>1, <2>2 DEF AnswersOf
  <2>6. \A b \in Attempts \ {a} : EntryOf(b)' = EntryOf(b)
    BY <2>1, <2>2, <2>5, EntryKept
  <2>7. LedgerOf' = [LedgerOf EXCEPT ![a] = EntryOf(a)']
    BY <2>6, LedgerWritten
  <2>8. AnsweredIn(a)' = AnsweredIn(a)
    BY <2>2, <2>5 DEF AnsweredIn
  <2>9. /\ EntryOf(a).state = "none" /\ LedgerOf[a] = EntryOf(a)
        /\ EntryOf(a)' = [EntryOf(a) EXCEPT !.state = "open"]
    BY <1>1, <2>1, <2>5, <2>8 DEF EntryOf, LedgerState, LedgerOf, FreeAttempt
  <2>10. [LedgerOf EXCEPT ![a].state = "open"]
           = [LedgerOf EXCEPT ![a] = [EntryOf(a) EXCEPT !.state = "open"]]
    BY <2>9, Zenon
  <2>11. Ledger!Open(a)
    BY <2>7, <2>9, <2>10 DEF Ledger!Open
  <2> QED
    BY <2>3, <2>4, <2>11 DEF Promise, Ledger!Next
<1> QED
  BY <1>2, <1>3 DEF StartCreate

\* A commit is one Answer: the first to its question, in an entry still open.
LEMMA CommitSerial ==
  ASSUME IInv, SerialIInv, NEW r \in Requests,
         SubmitCommit(r) \/ SubmitCommitFSRS(r)
  PROVE  (\A s \in Requests : SerialOK(s)') /\ Promise
<1>0. /\ req[r].pc \in InTx /\ Commit(r) /\ Handling(r) /\ Answering(r) /\ Writing(r)
      /\ req[r].pc # "ok"
  BY DEF SubmitCommit, SubmitCommitFSRS, InTx, Handling, Answering, Writing
<1> SUFFICES ASSUME NEW a \in Attempts, a = req[r].attempt,
                    NEW q \in Questions, q = req[r].question
             PROVE  (\A s \in Requests : SerialOK(s)') /\ Promise
  BY <1>0, HandlingFacts DEF IInv, RequestOK
<1> DEFINE hit == IF Gain(r) = 0 THEN 0 ELSE 1
<1>1. /\ req[r] \in Request /\ r \notin answers /\ SerialOK(r)
      /\ attempts \in [Attempts -> Attempt] /\ req \in [Requests -> Request]
      /\ LiveAttempt(a) /\ attempts[a].life = "live"
  BY <1>0, HandlingFacts DEF IInv, TypeOK, SerialIInv, RequestOK, LiveAttempt
<1>2. /\ ~attempts[a].completed /\ req[r].score = attempts[a].score
      /\ req[r].correct = attempts[a].correct
      /\ \A s \in answers : ~AnswerTo(s, a, q)
      /\ req[r].points \in Points
  BY <1>0, <1>1 DEF SerialOK
<1>3. Gain(r) \in 0..MaxPoints /\ Cardinality(Hit(r)) = hit
  BY <1>2, ConstantsOK, HitType DEF Gain, Points
<1> HIDE DEF hit
<1>4. /\ attempts'[a].life = "live" /\ ~attempts'[a].completed
      /\ attempts'[a].score = attempts[a].score + Gain(r)
      /\ attempts'[a].correct = attempts[a].correct + hit
      /\ \A b \in Attempts \ {a} : attempts'[b] = attempts[b]
  BY <1>0, <1>1, <1>2, <1>3 DEF Commit, Attempt
<1>5. /\ req'[r].pc = "ok" /\ req'[r].attempt = a /\ req'[r].question = q
      /\ \A s \in Requests \ {r} : req'[s] = req[s]
      /\ answers' = answers \cup {r}
      /\ \A s \in answers : s \in Requests \ {r} /\ req'[s] = req[s]
  BY <1>0, <1>1 DEF Commit, Answered, Request, IInv, TypeOK
<1>6. SerialOK(r)'
  BY <1>5, IdleSerial DEF Ended
<1>7. ASSUME NEW s \in Requests \ {r} PROVE SerialOK(s)'
  <2>1. Handling(s) => req[s].attempt # a /\ req[s].attempt \in Attempts
    BY <1>0, Alone, HandlingFacts
  <2> QED
    BY <1>4, <1>5, <2>1, OthersKept DEF SerialIInv
<1>8. ASSUME NEW b \in Attempts \ {a} PROVE EntryOf(b)' = EntryOf(b)
  <2>1. AnswersOf(b)' = AnswersOf(b) /\ AnswersOf(b) \subseteq answers
    BY <1>5 DEF AnswersOf
  <2>2. \A s \in AnswersOf(b) : req'[s].question = req[s].question
    BY <1>5, <2>1
  <2> QED
    BY <1>4, <2>1, <2>2, EntryKept
<1>9. LedgerOf' = [LedgerOf EXCEPT ![a] = EntryOf(a)']
  BY <1>8, LedgerWritten
<1>10. q \notin AnsweredIn(a)
  BY <1>2 DEF AnsweredIn, AnswersOf, AnswerTo
<1>11. AnsweredIn(a)' = AnsweredIn(a) \cup {q}
  <2>1. AnswersOf(a)' = AnswersOf(a) \cup {r} /\ AnswersOf(a) \subseteq answers
    BY <1>5 DEF AnswersOf
  <2>2. \A s \in AnswersOf(a) : req'[s].question = req[s].question
    BY <1>5, <2>1
  <2> QED
    BY <1>5, <2>1, <2>2 DEF AnsweredIn
<1>12. LedgerOf[a] = [state |-> "open", answered |-> AnsweredIn(a),
                      score |-> attempts[a].score, correct |-> attempts[a].correct]
  BY <1>1, <1>2 DEF LedgerOf, EntryOf, LedgerState
<1>13. EntryOf(a)' = [state |-> "open", answered |-> AnsweredIn(a) \cup {q},
                      score |-> attempts[a].score + Gain(r),
                      correct |-> attempts[a].correct + hit]
  BY <1>4, <1>11 DEF EntryOf, LedgerState
<1>14. LedgerOf[a].state = "open" /\ q \notin LedgerOf[a].answered
  BY <1>10, <1>12
<1>15. EntryOf(a)' = [state |-> "open", answered |-> LedgerOf[a].answered \cup {q},
                      score |-> LedgerOf[a].score + Gain(r),
                      correct |-> LedgerOf[a].correct + hit]
  BY <1>12, <1>13
<1>16. Ledger!Answer(a, q, Gain(r))
  BY <1>9, <1>14, <1>15, Zenon DEF Ledger!Answer, hit
<1> QED
  BY <1>3, <1>6, <1>7, <1>16 DEF Promise, Ledger!Next

\* CompleteAttempt closes an entry with the result it shows.
LEMMA CompleteSerial ==
  ASSUME IInv, SerialIInv, NEW r \in Requests, CompleteWrite(r)
  PROVE  (\A s \in Requests : SerialOK(s)') /\ Promise
<1>0. req[r].pc = "complete" /\ Handling(r)
  BY DEF CompleteWrite, Handling
<1> SUFFICES ASSUME NEW a \in Attempts, a = req[r].attempt
             PROVE  (\A s \in Requests : SerialOK(s)') /\ Promise
  BY <1>0, HandlingFacts
<1>1. /\ req[r] \in Request /\ r \notin answers /\ SerialOK(r)
      /\ attempts \in [Attempts -> Attempt] /\ req \in [Requests -> Request]
      /\ answers' = answers
  BY <1>0, HandlingFacts DEF IInv, TypeOK, SerialIInv, CompleteWrite
<1>2. attempts[a].life = "live" => /\ ~attempts[a].completed
                                   /\ req[r].score = attempts[a].score
                                   /\ req[r].correct = attempts[a].correct
  BY <1>0, <1>1 DEF SerialOK, LiveAttempt
<1>3. /\ \A b \in Attempts \ {a} : attempts'[b] = attempts[b]
      /\ attempts'[a].life = attempts[a].life
      /\ attempts'[a].score = attempts[a].score
      /\ attempts'[a].correct = attempts[a].correct
      /\ IF attempts[a].life = "live" THEN attempts'[a].completed
                                      ELSE attempts'[a] = attempts[a]
  BY <1>1, <1>2 DEF CompleteWrite, Attempt
<1>4. /\ req'[r].pc = "ok" /\ \A s \in Requests \ {r} : req'[s] = req[s]
      /\ \A s \in answers : req'[s] = req[s] /\ req'[s].question = req[s].question
  BY <1>1 DEF CompleteWrite, Answered, IInv, TypeOK
<1>5. SerialOK(r)'
  BY <1>4, IdleSerial DEF Ended
<1>6. ASSUME NEW s \in Requests \ {r} PROVE SerialOK(s)'
  <2>1. Handling(s) => req[s].attempt # a /\ req[s].attempt \in Attempts
    BY <1>0, Alone, HandlingFacts
  <2> QED
    BY <1>1, <1>3, <1>4, <2>1, OthersKept DEF SerialIInv
<1>7. \A b \in Attempts : AnswersOf(b)' = AnswersOf(b) /\ AnswersOf(b) \subseteq answers
  BY <1>1, <1>4 DEF AnswersOf
<1>8. \A b \in Attempts \ {a} : EntryOf(b)' = EntryOf(b)
  BY <1>3, <1>4, <1>7, EntryKept
<1>9. LedgerOf' = [LedgerOf EXCEPT ![a] = EntryOf(a)']
  BY <1>8, LedgerWritten
<1>10. CASE attempts[a].life = "live"
  <2>1. AnsweredIn(a)' = AnsweredIn(a)
    BY <1>4, <1>7 DEF AnsweredIn
  <2>2. /\ EntryOf(a).state = "open" /\ LedgerOf[a] = EntryOf(a)
        /\ EntryOf(a)' = [EntryOf(a) EXCEPT !.state = "closed"]
    BY <1>2, <1>3, <1>7, <1>10, <2>1 DEF EntryOf, LedgerState, LedgerOf
  <2>3. [LedgerOf EXCEPT ![a].state = "closed"]
          = [LedgerOf EXCEPT ![a] = [EntryOf(a) EXCEPT !.state = "closed"]]
    BY <2>2, Zenon
  <2>4. Ledger!Close(a)
    BY <1>9, <2>2, <2>3 DEF Ledger!Close
  <2> QED
    BY <1>5, <1>6, <2>4 DEF Promise, Ledger!Next
<1>11. CASE attempts[a].life # "live"
  <2>1. EntryOf(a)' = EntryOf(a)
    BY <1>3, <1>4, <1>7, <1>11, EntryKept
  <2> QED
    BY <1>5, <1>6, <1>8, <2>1 DEF Promise, LedgerOf
<1> QED
  BY <1>10, <1>11

\* A question withdrawn takes its answers, not what they scored.
LEMMA WithdrawSerial ==
  ASSUME IInv, SerialIInv, NEW q \in Questions, DeleteQuestion(q)
  PROVE  (\A s \in Requests : SerialOK(s)') /\ Promise
<1>1. /\ req' = req /\ attempts' = attempts
      /\ answers' = {r \in answers : req[r].question # q}
  BY DEF DeleteQuestion, Edit
<1>2. \A s \in Requests : SerialOK(s)'
  BY <1>1, OthersKept DEF SerialIInv
<1>3. ASSUME NEW a \in Attempts
      PROVE  EntryOf(a)' = [LedgerOf[a] EXCEPT !.answered = LedgerOf[a].answered \ {q}]
  <2>1. AnsweredIn(a)' = AnsweredIn(a) \ {q}
    BY <1>1 DEF AnsweredIn, AnswersOf
  <2>2. LedgerState(a)' = LedgerState(a)
    BY <1>1 DEF LedgerState
  <2> QED
    BY <1>1, <2>1, <2>2 DEF EntryOf, LedgerOf
<1>4. Ledger!Withdraw(q)
  BY <1>3 DEF LedgerOf, Ledger!Withdraw
<1> QED
  BY <1>2, <1>4 DEF Promise, Ledger!Next

\* A quiz removed takes the attempts made at it and their answers.
LEMMA RemoveSerial ==
  ASSUME IInv, SerialIInv, NEW z \in Quizzes, DeleteQuiz(z)
  PROVE  (\A s \in Requests : SerialOK(s)') /\ Promise
<1> DEFINE gone == {a \in Attempts : attempts[a].quiz = z}
<1>1. /\ req' = req
      /\ answers' = {r \in answers : attempts[req[r].attempt].quiz # z}
      /\ attempts' = [a \in Attempts |->
                        IF attempts[a].quiz = z
                          THEN [attempts[a] EXCEPT !.life = "deleted"]
                          ELSE attempts[a]]
      /\ attempts \in [Attempts -> Attempt]
  BY DEF DeleteQuiz, Edit, IInv, TypeOK
<1>2. ASSUME NEW a \in Attempts
      PROVE  IF attempts[a].quiz = z
               THEN /\ attempts'[a].life = "deleted"
                    /\ attempts'[a].score = attempts[a].score
                    /\ attempts'[a].correct = attempts[a].correct
                    /\ attempts[a].life # "free"
               ELSE attempts'[a] = attempts[a]
  <2>1. attempts[a].life = "free" => attempts[a].quiz # z
    BY ConstantsOK DEF IInv, AttemptOK
  <2> QED
    BY <1>1, <2>1 DEF Attempt
<1>3. \A s \in Requests : SerialOK(s)'
  <2> SUFFICES ASSUME NEW s \in Requests PROVE SerialOK(s)'
    OBVIOUS
  <2>1. Handling(s) /\ LiveAttempt(req[s].attempt)'
          => attempts'[req[s].attempt] = attempts[req[s].attempt]
    <3>1. LiveAttempt(req[s].attempt)'
            => /\ req[s].attempt \in Attempts
               /\ attempts'[req[s].attempt].life = "live"
      BY <1>1 DEF LiveAttempt
    <3> QED
      BY <1>2, <3>1
  <2> QED
    BY <1>1, <2>1, OthersKept DEF SerialIInv
<1>4. ASSUME NEW a \in Attempts \ gone PROVE EntryOf(a)' = EntryOf(a)
  <2>1. AnswersOf(a)' = AnswersOf(a)
    BY <1>1 DEF AnswersOf
  <2> QED
    BY <1>1, <1>2, <2>1, EntryKept
<1>5. ASSUME NEW a \in gone
      PROVE  /\ LedgerOf[a].state # "none"
             /\ EntryOf(a)' = [state |-> "removed", answered |-> {},
                               score |-> LedgerOf[a].score,
                               correct |-> LedgerOf[a].correct]
  <2>0. a \in Attempts /\ attempts[a].quiz = z
    OBVIOUS
  <2>1. AnsweredIn(a)' = {}
    BY <1>1, <2>0 DEF AnsweredIn, AnswersOf
  <2>2. LedgerState(a)' = "removed" /\ LedgerState(a) # "none"
    BY <1>2, <2>0 DEF LedgerState
  <2>3. /\ LedgerOf[a] = [state |-> LedgerState(a), answered |-> AnsweredIn(a),
                          score |-> attempts[a].score,
                          correct |-> attempts[a].correct]
        /\ EntryOf(a)' = [state |-> "removed", answered |-> {},
                          score |-> attempts[a].score,
                          correct |-> attempts[a].correct]
    BY <1>2, <2>0, <2>1, <2>2 DEF EntryOf, LedgerOf
  <2>4. LedgerOf[a].state # "none"
    BY <2>2, <2>3
  <2> QED
    BY <2>3, <2>4
<1>6. gone \in SUBSET Attempts
  OBVIOUS
<1>7. Ledger!Remove(gone)
  <2> HIDE DEF gone
  <2> QED
    BY <1>4, <1>5, <1>6 DEF LedgerOf, Ledger!Remove
<1> QED
  BY <1>3, <1>6, <1>7 DEF Promise, Ledger!Next

\* Other edits concern neither attempts nor answers.
LEMMA EditSerial ==
  ASSUME IInv, SerialIInv, UNCHANGED <<req, attempts, answers>>
  PROVE  (\A s \in Requests : SerialOK(s)') /\ Promise
<1>1. \A s \in Requests : SerialOK(s)'
  BY OthersKept DEF SerialIInv
<1> QED
  BY <1>1, LedgerKept DEF Promise

\* A row id not yet used stays blank until StartAttempt uses it.
LEMMA FreeStaysBlank ==
  ASSUME IInv, SerialIInv, Next, NEW a \in Attempts, attempts'[a].life = "free"
  PROVE  attempts'[a] = FreeAttempt
<1>1. /\ attempts \in [Attempts -> Attempt]
      /\ attempts[a].life = "free" => attempts[a] = FreeAttempt
  BY DEF IInv, TypeOK, SerialIInv
<1>2. ASSUME NEW r \in Requests, NEW b \in Attempts, StartCreate(r, b)
      PROVE  attempts'[a] = attempts[a]
  <2>1. CASE UNCHANGED attempts
    BY <2>1
  <2>2. CASE attempts' = [attempts EXCEPT ![b] =
                            OpenAttempt(req[r].user, req[r].quiz, req[r].listed)]
    <3>1. attempts'[b].life = "live"
      BY <1>1, <2>2 DEF OpenAttempt
    <3> QED
      BY <1>1, <2>2, <3>1
  <2> QED
    BY <1>2, <2>1, <2>2 DEF StartCreate
<1>3. ASSUME NEW r \in Requests, SubmitCommit(r) \/ SubmitCommitFSRS(r)
      PROVE  attempts'[a] = attempts[a]
  <2>1. LiveAttempt(req[r].attempt) /\ Commit(r)
    BY <1>3 DEF SubmitCommit, SubmitCommitFSRS, IInv, RequestOK, InTx
  <2> QED
    BY <1>1, <2>1 DEF Commit, LiveAttempt, Attempt
<1>4. ASSUME NEW r \in Requests, CompleteWrite(r)
      PROVE  attempts'[a] = attempts[a]
  BY <1>1, <1>4 DEF CompleteWrite, Attempt
<1>5. ASSUME NEW z \in Quizzes, DeleteQuiz(z)
      PROVE  attempts'[a] = attempts[a]
  BY <1>1, <1>5 DEF DeleteQuiz, Attempt
<1>6. ASSUME NEW r \in Requests, Arrive(r) \/ Fail(r)
      PROVE  attempts'[a] = attempts[a]
  BY <1>6 DEF Arrive, StartLoadQuiz, SubmitLoadAttempt, CompleteLoadAttempt,
              LoadAttempt, Fail, db
<1>7. ASSUME NEW r \in Requests, Step(r)
      PROVE  attempts'[a] = attempts[a]
  BY <1>2, <1>3, <1>4, <1>7 DEF Step, StartListQuestions, SubmitLoadQuestion,
       SubmitLookup, SubmitLookupError, SubmitWrite, FSRSLoadCard, FSRSApply,
       SubmitCommitAborted, db
<1>8. ASSUME AuthorEdit \/ CardEdit
      PROVE  attempts'[a] = attempts[a]
  BY <1>5, <1>8 DEF AuthorEdit, CardEdit, SetPublished, CreateQuestion,
       UpdateQuestion, DeleteQuestion, SetSuspended, ResetFSRS, DeleteCard
<1>9. attempts'[a] = attempts[a]
  BY <1>6, <1>7, <1>8 DEF Next
<1> QED
  BY <1>1, <1>9

(***************************************************************************)
(* Every step that keeps one request per attempt keeps the invariant and   *)
(* is a step of the ledger, or none.                                       *)
(***************************************************************************)
LEMMA StepSerial ==
  ASSUME IInv, SerialIInv, Next, NoLookupError'
  PROVE  (\A s \in Requests : SerialOK(s)') /\ Promise
<1>1. ASSUME NEW r \in Requests, Arrive(r)
      PROVE  (\A s \in Requests : SerialOK(s)') /\ Promise
  <2>1. PICK u \in Users :
          \/ \E z \in Quizzes : StartLoadQuiz(r, u, z)
          \/ \E a \in Attempts : SubmitLoadAttempt(r, u, a) \/ CompleteLoadAttempt(r, u, a)
    BY <1>1 DEF Arrive
  <2>2. CASE \E z \in Quizzes : StartLoadQuiz(r, u, z)
    BY <2>2, StartReads DEF Promise
  <2>3. ASSUME NEW a \in Attempts, SubmitLoadAttempt(r, u, a) \/ CompleteLoadAttempt(r, u, a)
        PROVE  (\A s \in Requests : SerialOK(s)') /\ Promise
    BY <2>3, LoadSerial DEF SubmitLoadAttempt, CompleteLoadAttempt, Promise
  <2> QED
    BY <2>1, <2>2, <2>3
<1>2. ASSUME NEW r \in Requests, Step(r)
      PROVE  (\A s \in Requests : SerialOK(s)') /\ Promise
  <2>1. CASE StartListQuestions(r)
    BY <2>1, StartReads DEF Promise
  <2>2. CASE \E a \in Attempts : StartCreate(r, a)
    BY <2>2, CreateSerial
  <2>3. CASE \E q \in Questions : SubmitLoadQuestion(r, q)
    BY <2>3, LoadQuestionSerial DEF Promise
  <2>4. CASE SubmitLookup(r)
    BY <2>4, LookupSerial DEF Promise
  <2>5. ~SubmitLookupError(r)
    BY DEF SubmitLookupError, NoLookupError, IInv, TypeOK
  <2>6. CASE SubmitWrite(r) \/ FSRSLoadCard(r) \/ FSRSApply(r)
    BY <2>6, InTxSerial DEF Promise
  <2>7. CASE SubmitCommit(r) \/ SubmitCommitFSRS(r)
    BY <2>7, CommitSerial
  <2>8. CASE SubmitCommitAborted(r)
    BY <2>8, EndSerial DEF SubmitCommitAborted, Ended, db, Promise
  <2>9. CASE CompleteWrite(r)
    BY <2>9, CompleteSerial
  <2> QED
    BY <1>2, <2>1, <2>2, <2>3, <2>4, <2>5, <2>6, <2>7, <2>8, <2>9 DEF Step
<1>3. ASSUME NEW r \in Requests, Fail(r)
      PROVE  (\A s \in Requests : SerialOK(s)') /\ Promise
  BY <1>3, EndSerial DEF Fail, UnderWay, Reading, InTx, Ended, db, Promise
<1>4. CASE AuthorEdit
  <2>1. ASSUME NEW z \in Quizzes, SetPublished(z)
        PROVE  (\A s \in Requests : SerialOK(s)') /\ Promise
    BY <2>1, EditSerial DEF SetPublished, Edit
  <2>2. ASSUME NEW q \in Questions, NEW p \in Points,
               CreateQuestion(q, p) \/ UpdateQuestion(q, p)
        PROVE  (\A s \in Requests : SerialOK(s)') /\ Promise
    BY <2>2, EditSerial DEF CreateQuestion, UpdateQuestion, Edit
  <2> QED
    BY <1>4, <2>1, <2>2, RemoveSerial, WithdrawSerial DEF AuthorEdit
<1>5. CASE CardEdit
  BY <1>5, EditSerial DEF CardEdit, SetSuspended, ResetFSRS, DeleteCard, Edit
<1> QED
  BY <1>1, <1>2, <1>3, <1>4, <1>5 DEF Next

\* A stuttering step keeps both.
LEMMA StutterSerial ==
  ASSUME IInv, SerialIInv, UNCHANGED vars
  PROVE  SerialIInv' /\ LedgerOf' = LedgerOf
<1>1. UNCHANGED <<req, attempts, answers>>
  BY DEF vars, db
<1>2. (\A s \in Requests : SerialOK(s)') /\ LedgerOf' = LedgerOf
  BY <1>1, OthersKept, LedgerKept DEF SerialIInv
<1>3. OneAtATime'
  BY <1>1 DEF SerialIInv, OneAtATime, UnderWay
<1> QED
  BY <1>1, <1>2, <1>3 DEF SerialIInv

\* In the initial states no request is under way and the ledger is blank or open.
LEMMA InitSerial == Init => SerialIInv /\ Ledger!Init
<1> SUFFICES ASSUME Init PROVE SerialIInv /\ Ledger!Init
  OBVIOUS
<1>1. \A r \in Requests : req[r].pc = "new"
  BY DEF Init, NewRequest
<1>2. \A r \in Requests : SerialOK(r) /\ ~UnderWay(r)
  BY <1>1 DEF SerialOK, UnderWay, Handling, Answering, Writing, Reading, InTx
<1>3. ASSUME NEW a \in Attempts
      PROVE  /\ attempts[a].life = "free" => attempts[a] = FreeAttempt
             /\ EntryOf(a) \in {Ledger!Blank, [Ledger!Blank EXCEPT !.state = "open"]}
  <2>1. AnsweredIn(a) = {}
    BY DEF Init, AnsweredIn, AnswersOf
  <2>2. CASE attempts[a] = FreeAttempt
    BY <2>1, <2>2 DEF FreeAttempt, EntryOf, LedgerState, Ledger!Blank
  <2>3. CASE attempts[a] # FreeAttempt
    <3>1. PICK z \in Quizzes :
            attempts[a] = OpenAttempt(OwnerOf[z], z, PointsListed(z))
      BY <2>3 DEF Init
    <3> QED
      BY <2>1, <3>1 DEF OpenAttempt, EntryOf, LedgerState, Ledger!Blank
  <2> QED
    BY <2>2, <2>3
<1> QED
  BY <1>2, <1>3 DEF SerialIInv, OneAtATime, LedgerOf, Ledger!Init

(***************************************************************************)
(* One request at a time, what SubmitAnswer and CompleteAttempt have read  *)
(* of the attempt is still so when they write it back, and an answer found *)
(* to be the first to its question still is when it is stored.             *)
(***************************************************************************)
THEOREM SerialInductive ==
  SerialSpec /\ []NoLookupError => [](IInv /\ SerialIInv)
<1>1. Init => IInv /\ SerialIInv
  BY InitIInv, InitSerial
<1>2. IInv /\ SerialIInv /\ NoLookupError' /\ [Next /\ OneAtATime']_vars
        => (IInv /\ SerialIInv)'
  <2> SUFFICES ASSUME IInv, SerialIInv, NoLookupError', [Next /\ OneAtATime']_vars
               PROVE  IInv' /\ SerialIInv'
    OBVIOUS
  <2>1. IInv'
    BY StepIInv
  <2>2. ASSUME Next, OneAtATime' PROVE SerialIInv'
    BY <2>2, StepSerial, FreeStaysBlank DEF SerialIInv
  <2> QED
    BY <2>1, <2>2, StutterSerial
<1> QED
  BY <1>1, <1>2, PTL DEF SerialSpec

(***************************************************************************)
(* One request at a time and with lookups that work, taking a quiz keeps   *)
(* the promise of AttemptLedger: every commit of SubmitAnswer is the first *)
(* Answer to its question in an attempt still open, StartAttempt opens and *)
(* CompleteAttempt closes, authors withdraw and remove, and nothing else   *)
(* touches what the attempt shows.                                         *)
(***************************************************************************)
THEOREM QuizImplementsLedger == SerialSpec /\ []NoLookupError => RefinesLedger
<1>1. Init => Ledger!Init
  BY InitSerial
<1>2. IInv /\ SerialIInv /\ NoLookupError' /\ [Next /\ OneAtATime']_vars
        => [Ledger!Next]_LedgerOf
  BY StepSerial, StutterSerial DEF Promise
<1> QED
  BY <1>1, <1>2, SerialInductive, PTL
     DEF RefinesLedger, Ledger!Spec, SerialSpec
------------------------------------------------------------------------------
(***************************************************************************)
(* However requests interleave: a score is the sum of the points listed    *)
(* for the questions it counts.                                            *)
(***************************************************************************)
\* Steps only add to what makes the invariant say less.
Ages == /\ edited \subseteq edited'
        /\ lookupErrors' = 0 => lookupErrors = 0
        /\ \A q \in Questions :
             QuizOf[q] \notin edited' /\ LiveQuestion(q)'
               => LiveQuestion(q) /\ questions'[q].points = questions[q].points

RowKept(a) == LiveAttempt(a)' => /\ LiveAttempt(a)
                                 /\ attempts'[a].quiz = attempts[a].quiz
                                 /\ attempts'[a].listed = attempts[a].listed

\* What was listed stays right until the quiz is edited.
LEMMA ListsKept ==
  ASSUME Ages
  PROVE  \A z, listed : ListsPoints(z, listed) => ListsPoints(z, listed)'
BY DEF Ages, ListsPoints

\* A request that did not move.
LEMMA RequestScoresKept ==
  ASSUME Ages, NEW s \in Requests, RequestScores(s), req'[s] = req[s],
         Handling(s) => RowKept(req[s].attempt)
  PROVE  RequestScores(s)'
<1>1. (Handling(s)' <=> Handling(s)) /\ (Answering(s)' <=> Answering(s))
  BY DEF Handling, Answering
<1>2. req'[s].pc = "create" => ListsPoints(req[s].quiz, req[s].listed)'
  BY ListsKept DEF RequestScores
<1>3. ASSUME Handling(s), LiveAttempt(req[s].attempt)'
      PROVE  /\ Undisturbed(req[s].attempt)'
                  => (req[s].score = ScoreOf(req[s].attempt, req[s].counted))'
             /\ Answering(s)' /\ attempts'[req[s].attempt].quiz \notin edited'
                  => req'[s].points = attempts'[req[s].attempt].listed[req[s].question]
  <2>1. /\ LiveAttempt(req[s].attempt)
        /\ attempts'[req[s].attempt].quiz = attempts[req[s].attempt].quiz
        /\ attempts'[req[s].attempt].listed = attempts[req[s].attempt].listed
    BY <1>3 DEF RowKept
  <2>2. Undisturbed(req[s].attempt)' => Undisturbed(req[s].attempt)
    BY <2>1 DEF Undisturbed, Ages
  <2>3. ScoreOf(req[s].attempt, req[s].counted)' = ScoreOf(req[s].attempt, req[s].counted)
    BY <2>1 DEF ScoreOf
  <2> QED
    BY <1>1, <1>3, <2>1, <2>2, <2>3 DEF RequestScores, Ages
<1> QED
  BY <1>1, <1>2, <1>3 DEF RequestScores

\* An attempt nobody wrote.
LEMMA AttemptScoresKept ==
  ASSUME Ages, NEW a \in Attempts, AttemptScores(a), RowKept(a),
         LiveAttempt(a)' => /\ attempts'[a].score = attempts[a].score
                            /\ counted'[a] = counted[a]
  PROVE  AttemptScores(a)'
<1> SUFFICES ASSUME attempts'[a].life = "live" PROVE AttemptScores(a)'
  BY DEF AttemptScores
<1>1. /\ attempts[a].life = "live" /\ attempts'[a].quiz = attempts[a].quiz
      /\ attempts'[a].listed = attempts[a].listed
      /\ attempts'[a].score = attempts[a].score /\ counted'[a] = counted[a]
  BY DEF RowKept, LiveAttempt
<1>2. ListsPoints(attempts[a].quiz, attempts[a].listed)'
  BY <1>1, ListsKept DEF AttemptScores
<1>3. Undisturbed(a)' => Undisturbed(a)
  BY <1>1 DEF Undisturbed, Ages
<1>4. ScoreOf(a, counted[a])' = ScoreOf(a, counted[a])
  BY <1>1 DEF ScoreOf
<1> QED
  BY <1>1, <1>2, <1>3, <1>4 DEF AttemptScores

\* A statement that only reads: what the request becomes has to be right.
LEMMA ReadScores ==
  ASSUME IInv, ScoreIInv, NEW r \in Requests, NEW new,
         req' = [req EXCEPT ![r] = new], UNCHANGED <<db, history>>,
         lookupErrors' = 0 => lookupErrors = 0, RequestScores(r)'
  PROVE  ScoreIInv'
<1>1. Ages /\ \A a : RowKept(a)
  BY DEF Ages, RowKept, LiveQuestion, LiveAttempt, db, history
<1>2. attempts' = attempts /\ counted' = counted
  BY DEF db, history
<1>3. ASSUME NEW s \in Requests \ {r} PROVE RequestScores(s)'
  <2>1. req'[s] = req[s] /\ RequestScores(s)
    BY DEF IInv, TypeOK, ScoreIInv
  <2> QED
    BY <1>1, <2>1, RequestScoresKept
<1>4. ASSUME NEW a \in Attempts PROVE AttemptScores(a)'
  BY <1>1, <1>2, AttemptScoresKept DEF ScoreIInv
<1> QED
  BY <1>3, <1>4 DEF ScoreIInv

\* A request that ends, or has only read a quiz, has copied no score.
LEMMA IdleScores ==
  ASSUME NEW r \in Requests, req'[r].pc \in {"list"} \cup Ended
  PROVE  RequestScores(r)'
BY DEF RequestScores, Handling, Answering, InTx, Ended

\* A request that is refused, fails or is rolled back.
LEMMA EndScores ==
  ASSUME IInv, ScoreIInv, NEW r \in Requests, NEW how \in Ended, End(r, how),
         UNCHANGED <<db, history, lookupErrors>>
  PROVE  ScoreIInv'
<1> DEFINE new == [NewRequest EXCEPT !.pc = how]
<1>1. new.pc = how
  BY DEF NewRequest
<1>2. req' = [req EXCEPT ![r] = new] /\ req'[r] = new
  BY DEF End, IInv, TypeOK
<1> HIDE DEF new
<1>3. RequestScores(r)'
  BY <1>1, <1>2, IdleScores
<1>4. UNCHANGED <<db, history>> /\ lookupErrors' = lookupErrors
  OBVIOUS
<1> QED
  BY <1>2, <1>3, <1>4, ReadScores

\* A handler that goes on with the copies it has.
LEMMA MovedScores ==
  ASSUME IInv, ScoreIInv, NEW r \in Requests, NEW new,
         req' = [req EXCEPT ![r] = new], UNCHANGED <<db, history>>,
         lookupErrors' = 0 => lookupErrors = 0,
         Handling(r), new.pc # "create", new.attempt = req[r].attempt,
         new.score = req[r].score, new.counted = req[r].counted,
         Answering(r)' /\ LiveAttempt(req[r].attempt)
                       /\ attempts[req[r].attempt].quiz \notin edited
           => new.points = attempts[req[r].attempt].listed[new.question]
  PROVE  ScoreIInv'
<1>1. req'[r] = new
  BY DEF IInv, TypeOK
<1>2. attempts' = attempts /\ edited' = edited
  BY DEF db, history
<1>3. RequestScores(r)
  BY DEF ScoreIInv
<1>4. RequestScores(r)'
  BY <1>1, <1>2, <1>3 DEF RequestScores, LiveAttempt, Undisturbed, ScoreOf
<1> QED
  BY <1>4, ReadScores

\* Starting an attempt reads no score; what it lists are the points of now.
LEMMA StartScores ==
  ASSUME IInv, ScoreIInv, NEW r \in Requests,
         \/ \E u \in Users, z \in Quizzes : StartLoadQuiz(r, u, z)
         \/ StartListQuestions(r)
  PROVE  ScoreIInv'
<1>1. ASSUME NEW u \in Users, NEW z \in Quizzes, StartLoadQuiz(r, u, z)
      PROVE  ScoreIInv'
  <2>1. UNCHANGED <<db, history, lookupErrors>>
    BY <1>1 DEF StartLoadQuiz, NoCount
  <2>2. CASE End(r, "refused")
    BY <2>1, <2>2, EndScores DEF Ended
  <2>3. CASE req' = [req EXCEPT ![r] = [@ EXCEPT !.pc = "list", !.kind = "start",
                                                 !.user = u, !.quiz = z]]
    <3>1. PICK new : new = [req[r] EXCEPT !.pc = "list", !.kind = "start",
                                          !.user = u, !.quiz = z]
      OBVIOUS
    <3>2. new.pc = "list"
      BY <3>1 DEF IInv, TypeOK, Request
    <3>3. req' = [req EXCEPT ![r] = new] /\ req'[r] = new
      BY <2>3, <3>1 DEF IInv, TypeOK
    <3>4. RequestScores(r)'
      BY <3>2, <3>3, IdleScores
    <3> QED
      BY <2>1, <3>3, <3>4, ReadScores
  <2> QED
    BY <1>1, <2>2, <2>3 DEF StartLoadQuiz
<1>2. ASSUME StartListQuestions(r) PROVE ScoreIInv'
  <2>1. /\ req[r].pc = "list" /\ UNCHANGED <<db, history, lookupErrors>>
        /\ req[r] \in Request
    BY <1>2 DEF StartListQuestions, NoCount, IInv, TypeOK
  <2>2. PICK new : new = [req[r] EXCEPT !.pc = "create",
                                        !.listed = PointsListed(req[r].quiz)]
    OBVIOUS
  <2>3. /\ new.pc = "create" /\ new.quiz = req[r].quiz
        /\ new.listed = PointsListed(req[r].quiz)
    BY <2>1, <2>2 DEF Request
  <2>4. req' = [req EXCEPT ![r] = new] /\ req'[r] = new
    BY <1>2, <2>2 DEF StartListQuestions, IInv, TypeOK
  <2>5. ListsPoints(new.quiz, new.listed)
    BY <2>3 DEF ListsPoints, PointsListed, LiveQuestion
  <2>6. ListsPoints(new.quiz, new.listed)'
    BY <2>1, <2>5 DEF ListsPoints, LiveQuestion, db, history
  <2>7. RequestScores(r)'
    BY <2>3, <2>4, <2>6 DEF RequestScores, Handling, Answering, InTx
  <2> QED
    BY <2>1, <2>4, <2>7, ReadScores
<1> QED
  BY <1>1, <1>2

\* The copy of the row that LoadAttempt takes is a sum as the row is.
LEMMA LoadScores ==
  ASSUME IInv, ScoreIInv, NEW r \in Requests, NEW u \in Users, NEW a \in Attempts,
         NEW kind, NEW next \in {"question", "complete"},
         LoadAttempt(r, u, a, kind, next)
  PROVE  ScoreIInv'
<1>1. UNCHANGED <<db, history, lookupErrors>> /\ req[r] \in Request
  BY DEF LoadAttempt, NoCount, IInv, TypeOK
<1>2. CASE End(r, "refused")
  BY <1>1, <1>2, EndScores DEF Ended
<1>3. CASE /\ Usable(a, u)
           /\ req' = [req EXCEPT ![r] =
                 [@ EXCEPT !.pc = next, !.kind = kind, !.attempt = a,
                           !.score = attempts[a].score,
                           !.correct = attempts[a].correct,
                           !.counted = counted[a]]]
  <2>1. PICK new : new = [req[r] EXCEPT !.pc = next, !.kind = kind, !.attempt = a,
                                        !.score = attempts[a].score,
                                        !.correct = attempts[a].correct,
                                        !.counted = counted[a]]
    OBVIOUS
  <2>2. /\ new.pc = next /\ new.attempt = a /\ new.score = attempts[a].score
        /\ new.counted = counted[a]
    BY <1>1, <2>1 DEF Request
  <2>3. req' = [req EXCEPT ![r] = new] /\ req'[r] = new
    BY <1>3, <2>1 DEF IInv, TypeOK
  <2>4. Undisturbed(a) => attempts[a].score = ScoreOf(a, counted[a])
    BY <1>3 DEF ScoreIInv, AttemptScores, Usable
  <2>5. ~Answering(r)' /\ req'[r].pc # "create"
    BY <2>2, <2>3 DEF Answering, InTx
  <2>6. attempts' = attempts /\ edited' = edited /\ lookupErrors' = lookupErrors
    BY <1>1 DEF db, history
  <2>7. Undisturbed(a)' => (attempts[a].score = ScoreOf(a, counted[a]))'
    BY <1>1, <2>4, <2>6 DEF Undisturbed, ScoreOf, history
  <2>8. RequestScores(r)'
    BY <1>1, <2>2, <2>3, <2>5, <2>6, <2>7 DEF RequestScores, ScoreOf, history
  <2> QED
    BY <1>1, <2>3, <2>8, ReadScores
<1> QED
  BY <1>2, <1>3 DEF LoadAttempt

\* Until the quiz is edited, the points a question has are those listed.
LEMMA LoadQuestionScores ==
  ASSUME IInv, ScoreIInv, NEW r \in Requests, NEW q \in Questions,
         SubmitLoadQuestion(r, q)
  PROVE  ScoreIInv'
<1>1. /\ req[r].pc = "question" /\ UNCHANGED <<db, history, lookupErrors>>
      /\ req[r] \in Request /\ Handling(r)
  BY DEF SubmitLoadQuestion, NoCount, Handling, IInv, TypeOK
<1>2. CASE End(r, "refused")
  BY <1>1, <1>2, EndScores DEF Ended
<1>3. CASE /\ questions[q].life = "live"
           /\ attempts[req[r].attempt].quiz = QuizOf[q]
           /\ req' = [req EXCEPT ![r] = [@ EXCEPT !.pc = "lookup", !.question = q,
                                                  !.points = questions[q].points]]
  <2>1. PICK new : new = [req[r] EXCEPT !.pc = "lookup", !.question = q,
                                        !.points = questions[q].points]
    OBVIOUS
  <2>2. /\ new.pc = "lookup" /\ new.question = q /\ new.points = questions[q].points
        /\ new.attempt = req[r].attempt /\ new.score = req[r].score
        /\ new.counted = req[r].counted
    BY <1>1, <2>1 DEF Request
  <2>3. req' = [req EXCEPT ![r] = new]
    BY <1>3, <2>1
  <2>4. LiveAttempt(req[r].attempt) /\ attempts[req[r].attempt].quiz \notin edited
          => questions[q].points = attempts[req[r].attempt].listed[q]
    BY <1>3 DEF ScoreIInv, AttemptScores, ListsPoints, LiveAttempt, LiveQuestion
  <2> QED
    BY <1>1, <2>2, <2>3, <2>4, MovedScores
<1> QED
  BY <1>2, <1>3 DEF SubmitLoadQuestion

\* Looking for an earlier answer, and the statements of the transaction.
LEMMA AnsweringScores ==
  ASSUME IInv, ScoreIInv, NEW r \in Requests,
         \/ SubmitLookup(r) \/ SubmitLookupError(r) \/ SubmitWrite(r)
         \/ FSRSLoadCard(r) \/ FSRSApply(r)
  PROVE  ScoreIInv'
<1>1. /\ Handling(r) /\ Answering(r) /\ UNCHANGED <<db, history>>
      /\ lookupErrors' = 0 => lookupErrors = 0
      /\ req[r] \in Request
  BY DEF SubmitLookup, SubmitLookupError, SubmitWrite, FSRSLoadCard, FSRSApply,
         NoCount, Handling, Answering, InTx, IInv, TypeOK, history, db
<1>2. CASE \E how \in {"refused", "failed"} :
             End(r, how) /\ lookupErrors' = lookupErrors
  BY <1>1, <1>2, EndScores DEF Ended
<1>3. CASE \E right \in BOOLEAN :
             req' = [req EXCEPT ![r] = [@ EXCEPT !.pc = "write", !.right = right]]
  <2>1. PICK right \in BOOLEAN :
          req' = [req EXCEPT ![r] = [@ EXCEPT !.pc = "write", !.right = right]]
    BY <1>3
  <2>2. PICK new : new = [req[r] EXCEPT !.pc = "write", !.right = right]
    OBVIOUS
  <2>3. /\ new.pc = "write" /\ new.question = req[r].question
        /\ new.points = req[r].points
        /\ new.attempt = req[r].attempt /\ new.score = req[r].score
        /\ new.counted = req[r].counted
    BY <1>1, <2>2 DEF Request
  <2>4. req' = [req EXCEPT ![r] = new]
    BY <2>1, <2>2
  <2> QED
    BY <1>1, <2>3, <2>4, MovedScores DEF ScoreIInv, RequestScores
<1>4. CASE \E next \in InTx : req' = [req EXCEPT ![r].pc = next]
  <2>1. PICK next \in InTx : req' = [req EXCEPT ![r].pc = next]
    BY <1>4
  <2>2. PICK new : new = [req[r] EXCEPT !.pc = next]
    OBVIOUS
  <2>3. /\ new.pc = next /\ new.question = req[r].question
        /\ new.points = req[r].points
        /\ new.attempt = req[r].attempt /\ new.score = req[r].score
        /\ new.counted = req[r].counted
    BY <1>1, <2>2 DEF Request
  <2>4. req' = [req EXCEPT ![r] = new] /\ new.pc # "create"
    BY <2>1, <2>2, <2>3 DEF InTx
  <2> QED
    BY <1>1, <2>3, <2>4, MovedScores DEF ScoreIInv, RequestScores
<1>5. SubmitLookup(r) \/ SubmitLookupError(r)
        => \/ End(r, "refused") /\ lookupErrors' = lookupErrors
           \/ Grade(r)
  BY DEF SubmitLookup, SubmitLookupError, NoCount
<1>6. SubmitWrite(r) => \/ End(r, "failed") /\ lookupErrors' = lookupErrors
                        \/ \E next \in InTx : req' = [req EXCEPT ![r].pc = next]
  BY DEF SubmitWrite, NoCount, InTx
<1>7. FSRSLoadCard(r) \/ FSRSApply(r)
        => \E next \in InTx : req' = [req EXCEPT ![r].pc = next]
  BY DEF FSRSLoadCard, FSRSApply, InTx
<1> QED
  BY <1>2, <1>3, <1>4, <1>5, <1>6, <1>7 DEF Grade

\* A new attempt counts nothing.
LEMMA CreateScores ==
  ASSUME IInv, ScoreIInv, NEW r \in Requests, NEW a \in Attempts, StartCreate(r, a)
  PROVE  ScoreIInv'
<1>1. /\ req[r].pc = "create" /\ attempts[a].life = "free"
      /\ UNCHANGED <<quizzes, questions, cards, answers, logs>>
      /\ UNCHANGED <<history, lookupErrors>> /\ counted[a] = {}
  BY DEF StartCreate, NoCount, IInv, AttemptOK
<1>2. CASE UNCHANGED attempts /\ End(r, "failed")
  BY <1>1, <1>2, EndScores DEF Ended, db
<1>3. CASE /\ attempts' = [attempts EXCEPT ![a] =
                             OpenAttempt(req[r].user, req[r].quiz, req[r].listed)]
           /\ End(r, "ok")
  <2>1. PICK row : row = OpenAttempt(req[r].user, req[r].quiz, req[r].listed)
    OBVIOUS
  <2>2. row.quiz = req[r].quiz /\ row.listed = req[r].listed /\ row.score = 0
    BY <2>1 DEF OpenAttempt
  <2>3. /\ attempts'[a] = row
        /\ \A b \in Attempts \ {a} : attempts'[b] = attempts[b]
    BY <1>3, <2>1 DEF IInv, TypeOK
  <2>4. Ages /\ counted' = counted
    BY <1>1 DEF Ages, LiveQuestion, history
  <2>5. \A b \in Attempts \ {a} : RowKept(b)
    BY <2>3 DEF RowKept, LiveAttempt
  <2>6. ASSUME NEW s \in Requests PROVE RequestScores(s)'
    <3>1. CASE s = r
      <4>1. req'[r].pc = "ok"
        BY <1>3 DEF End, NewRequest, IInv, TypeOK
      <4> QED
        BY <3>1, <4>1, IdleScores DEF Ended
    <3>2. CASE s # r
      <4>1. req'[s] = req[s] /\ RequestScores(s)
        BY <1>3, <3>2 DEF End, IInv, TypeOK, ScoreIInv
      <4>2. Handling(s) => req[s].attempt \in Attempts \ {a}
        BY <1>1 DEF IInv, RequestOK
      <4> QED
        BY <2>4, <2>5, <4>1, <4>2, RequestScoresKept
    <3> QED
      BY <3>1, <3>2
  <2>7. ASSUME NEW b \in Attempts \ {a} PROVE AttemptScores(b)'
    BY <2>3, <2>4, <2>5, AttemptScoresKept DEF ScoreIInv
  <2>8. AttemptScores(a)'
    <3>1. ListsPoints(req[r].quiz, req[r].listed)
      BY <1>1 DEF ScoreIInv, RequestScores
    <3>2. ListsPoints(attempts[a].quiz, attempts[a].listed)'
      BY <2>2, <2>3, <2>4, <3>1, ListsKept DEF ListsPoints
    <3>3. SumFunctionOnSet(row.listed, {}) = 0
      BY SumStep, FS_EmptySet
    <3> QED
      BY <1>1, <2>2, <2>3, <2>4, <3>2, <3>3 DEF AttemptScores, ScoreOf
  <2> QED
    BY <2>6, <2>7, <2>8 DEF ScoreIInv
<1> QED
  BY <1>1, <1>2, <1>3 DEF StartCreate

(***************************************************************************)
(* The commit of an answer adds what is listed for the question, which was *)
(* not yet counted, to the sum the request had read.                       *)
(***************************************************************************)
LEMMA CommitScores ==
  ASSUME IInv, ScoreIInv, NEW r \in Requests,
         SubmitCommit(r) \/ SubmitCommitFSRS(r)
  PROVE  ScoreIInv'
<1> SUFFICES ASSUME NEW a, a = req[r].attempt, NEW q, q = req[r].question,
                    NEW C, C = req[r].counted
             PROVE  ScoreIInv'
  OBVIOUS
<1>1. /\ Commit(r) /\ UNCHANGED <<questions, edited, lookupErrors>>
      /\ req[r].pc \in {"commit", "commitFSRS"} /\ Handling(r) /\ Answering(r)
      /\ req[r].pc # "lookup"
  BY DEF SubmitCommit, SubmitCommitFSRS, Handling, Answering, InTx
<1>2. /\ a \in Attempts /\ attempts[a].life = "live" /\ LiveAttempt(a)
      /\ LiveQuestion(q) /\ QuizOf[q] = attempts[a].quiz
      /\ req[r] \in Request /\ attempts[a] \in Attempt
  BY <1>1 DEF IInv, TypeOK, RequestOK, InTx, LiveAttempt
<1>3. PICK row : row = [attempts[a] EXCEPT !.completed = FALSE,
                          !.score = req[r].score + Gain(r),
                          !.correct = req[r].correct + Cardinality(Hit(r))]
  OBVIOUS
<1>4. /\ row.quiz = attempts[a].quiz /\ row.listed = attempts[a].listed
      /\ row.score = req[r].score + Gain(r)
  BY <1>2, <1>3 DEF Attempt
<1>5. /\ attempts'[a] = row
      /\ \A b \in Attempts \ {a} : attempts'[b] = attempts[b] /\ counted'[b] = counted[b]
      /\ counted'[a] = C \cup Hit(r)
      /\ \A s \in Requests \ {r} : req'[s] = req[s]
      /\ req'[r].pc = "ok"
  <2>1. attempts' = [attempts EXCEPT ![a] = row]
    BY <1>1, <1>3 DEF Commit
  <2>2. PICK ended : ended = [req[r] EXCEPT !.pc = "ok", !.score = 0, !.correct = 0,
                                            !.counted = {}]
    OBVIOUS
  <2>3. ended.pc = "ok" /\ req' = [req EXCEPT ![r] = ended]
    BY <1>1, <1>2, <2>2 DEF Commit, Answered, Request
  <2>4. counted' = [counted EXCEPT ![a] = C \cup Hit(r)]
    BY <1>1 DEF Commit
  <2> QED
    BY <1>2, <2>1, <2>3, <2>4 DEF IInv, TypeOK
<1>6. Ages
  BY <1>1 DEF Ages, LiveQuestion
<1>7. \A b \in Attempts : RowKept(b)
  BY <1>2, <1>4, <1>5 DEF RowKept, LiveAttempt
<1>8. ASSUME NEW s \in Requests PROVE RequestScores(s)'
  <2>1. CASE s = r
    BY <1>5, <2>1, IdleScores DEF Ended
  <2>2. CASE s # r
    BY <1>5, <1>6, <1>7, <2>2, RequestScoresKept DEF ScoreIInv, IInv, RequestOK
  <2> QED
    BY <2>1, <2>2
<1>9. ASSUME NEW b \in Attempts \ {a} PROVE AttemptScores(b)'
  BY <1>5, <1>6, <1>7, AttemptScoresKept DEF ScoreIInv
<1>10. AttemptScores(a)'
  <2>1. ListsPoints(attempts[a].quiz, attempts[a].listed)'
    <3>1. ListsPoints(row.quiz, row.listed)
      BY <1>2, <1>4 DEF ScoreIInv, AttemptScores
    <3> QED
      BY <1>5, <1>6, <3>1, ListsKept DEF ListsPoints
  <2>2. ASSUME Undisturbed(a)' PROVE row.score = SumFunctionOnSet(row.listed, C \cup Hit(r))
    <3>1. Undisturbed(a) /\ lookupErrors = 0 /\ attempts[a].quiz \notin edited
      BY <1>1, <1>4, <1>5, <2>2 DEF Undisturbed
    <3>2. /\ req[r].score = SumFunctionOnSet(row.listed, C)
          /\ req[r].points = row.listed[q]
      BY <1>1, <1>2, <1>4, <3>1 DEF ScoreIInv, RequestScores, ScoreOf
    <3>3. q \notin C /\ C \in SUBSET Questions /\ q \in Questions
      BY <1>1, <1>2, <3>1 DEF IInv, RequestCounts, Request, LiveQuestion
    <3>4. IsFiniteSet(C)
      BY <3>3, ConstantsOK, FS_Subset
    <3>5. \A p \in Questions : row.listed[p] \in Nat
      BY <1>2, <1>4, ConstantsOK DEF Attempt
    <3>6. /\ SumFunctionOnSet(row.listed, C \cup {q})
               = SumFunctionOnSet(row.listed, C) + row.listed[q]
          /\ SumFunctionOnSet(row.listed, C) \in Nat
      BY <3>3, <3>4, <3>5, SumMore
    <3>7. CASE req[r].right
      <4>1. Hit(r) = {q} /\ Gain(r) = row.listed[q]
        BY <3>2, <3>7 DEF Hit, Gain
      <4> QED
        BY <1>4, <3>2, <3>6, <4>1
    <3>8. CASE ~req[r].right
      <4>1. C \cup Hit(r) = C /\ Gain(r) = 0
        BY <3>8 DEF Hit, Gain
      <4> QED
        BY <1>4, <3>2, <3>6, <4>1
    <3> QED
      BY <3>7, <3>8
  <2>3. Undisturbed(a)' => (attempts[a].score = ScoreOf(a, counted[a]))'
    BY <1>5, <2>2 DEF ScoreOf
  <2> QED
    BY <2>1, <2>3 DEF AttemptScores
<1> QED
  BY <1>8, <1>9, <1>10 DEF ScoreIInv

\* CompleteAttempt writes back the sum it read with what it counts.
LEMMA CompleteScores ==
  ASSUME IInv, ScoreIInv, NEW r \in Requests, CompleteWrite(r)
  PROVE  ScoreIInv'
<1> SUFFICES ASSUME NEW a, a = req[r].attempt PROVE ScoreIInv'
  OBVIOUS
<1>1. /\ req[r].pc = "complete" /\ Answered(r) /\ Handling(r)
      /\ UNCHANGED <<questions, edited, lookupErrors>>
      /\ req[r] \in Request /\ a \in Attempts /\ attempts[a] \in Attempt
  BY DEF CompleteWrite, IInv, TypeOK, RequestOK, Handling
<1>2. PICK row : row = IF attempts[a].life = "live"
                         THEN [attempts[a] EXCEPT !.completed = TRUE,
                                                  !.score = req[r].score,
                                                  !.correct = req[r].correct]
                         ELSE attempts[a]
  OBVIOUS
<1>3. /\ row.quiz = attempts[a].quiz /\ row.listed = attempts[a].listed
      /\ row.life = attempts[a].life
      /\ row.life = "live" => row.score = req[r].score
  BY <1>1, <1>2 DEF Attempt
<1>4. /\ attempts'[a] = row
      /\ \A b \in Attempts \ {a} : attempts'[b] = attempts[b] /\ counted'[b] = counted[b]
      /\ counted'[a] = req[r].counted
      /\ \A s \in Requests \ {r} : req'[s] = req[s]
      /\ req'[r].pc = "ok"
  <2>1. attempts' = [attempts EXCEPT ![a] = row]
    BY <1>2 DEF CompleteWrite
  <2>2. PICK ended : ended = [req[r] EXCEPT !.pc = "ok", !.score = 0, !.correct = 0,
                                            !.counted = {}]
    OBVIOUS
  <2>3. ended.pc = "ok" /\ req' = [req EXCEPT ![r] = ended]
    BY <1>1, <2>2 DEF Answered, Request
  <2>4. counted' = [counted EXCEPT ![a] = req[r].counted]
    BY DEF CompleteWrite
  <2> QED
    BY <1>1, <2>1, <2>3, <2>4 DEF IInv, TypeOK
<1>5. Ages
  BY <1>1 DEF Ages, LiveQuestion
<1>6. \A b \in Attempts : RowKept(b)
  BY <1>3, <1>4 DEF RowKept, LiveAttempt
<1>7. ASSUME NEW s \in Requests PROVE RequestScores(s)'
  <2>1. CASE s = r
    BY <1>4, <2>1, IdleScores DEF Ended
  <2>2. CASE s # r
    BY <1>4, <1>5, <1>6, <2>2, RequestScoresKept DEF ScoreIInv, IInv, RequestOK
  <2> QED
    BY <2>1, <2>2
<1>8. ASSUME NEW b \in Attempts \ {a} PROVE AttemptScores(b)'
  BY <1>4, <1>5, <1>6, AttemptScoresKept DEF ScoreIInv
<1>9. AttemptScores(a)'
  <2> SUFFICES ASSUME attempts'[a].life = "live" PROVE AttemptScores(a)'
    BY DEF AttemptScores
  <2>1. attempts[a].life = "live" /\ LiveAttempt(a) /\ row.score = req[r].score
    BY <1>1, <1>3, <1>4 DEF LiveAttempt
  <2>2. ListsPoints(attempts[a].quiz, attempts[a].listed)'
    <3>1. ListsPoints(row.quiz, row.listed)
      BY <1>1, <1>3, <2>1 DEF ScoreIInv, AttemptScores
    <3> QED
      BY <1>4, <1>5, <3>1, ListsKept DEF ListsPoints
  <2>3. Undisturbed(a)' => Undisturbed(a)
    BY <1>1, <1>3, <1>4 DEF Undisturbed
  <2>4. Undisturbed(a) => req[r].score = SumFunctionOnSet(row.listed, req[r].counted)
    BY <1>1, <1>3, <2>1 DEF ScoreIInv, RequestScores, ScoreOf
  <2> QED
    BY <1>4, <2>1, <2>2, <2>3, <2>4 DEF AttemptScores, ScoreOf
<1> QED
  BY <1>7, <1>8, <1>9 DEF ScoreIInv

\* Edits write no attempt; a change to the questions of a quiz marks it.
LEMMA EditScores ==
  ASSUME IInv, ScoreIInv, Ages, UNCHANGED <<req, counted>>,
         \A a \in Attempts : /\ LiveAttempt(a)' => LiveAttempt(a)
                             /\ attempts'[a].quiz = attempts[a].quiz
                             /\ attempts'[a].listed = attempts[a].listed
                             /\ attempts'[a].score = attempts[a].score
  PROVE  ScoreIInv'
<1>1. \A a \in Attempts : RowKept(a)
  BY DEF RowKept
<1>2. ASSUME NEW s \in Requests PROVE RequestScores(s)'
  BY <1>1, RequestScoresKept DEF ScoreIInv, IInv, RequestOK
<1>3. ASSUME NEW a \in Attempts PROVE AttemptScores(a)'
  BY <1>1, AttemptScoresKept DEF ScoreIInv
<1> QED
  BY <1>2, <1>3 DEF ScoreIInv

\* Authors: changed or added questions mark the quiz as edited.
LEMMA AuthorScores ==
  ASSUME IInv, ScoreIInv, AuthorEdit
  PROVE  ScoreIInv'
<1>1. UNCHANGED <<req, counted, lookupErrors>>
  BY DEF AuthorEdit, SetPublished, DeleteQuiz, CreateQuestion, UpdateQuestion,
         DeleteQuestion, Edit
<1>2. ASSUME NEW z \in Quizzes, SetPublished(z) PROVE ScoreIInv'
  BY <1>1, <1>2, EditScores DEF SetPublished, Ages, LiveQuestion, LiveAttempt
<1>3. ASSUME NEW z \in Quizzes, DeleteQuiz(z) PROVE ScoreIInv'
  <2>1. Ages
    BY <1>1, <1>3 DEF Ages, DeleteQuiz, LiveQuestion, IInv, TypeOK, Question
  <2>2. ASSUME NEW a \in Attempts
        PROVE  /\ LiveAttempt(a)' => LiveAttempt(a)
               /\ attempts'[a].quiz = attempts[a].quiz
               /\ attempts'[a].listed = attempts[a].listed
               /\ attempts'[a].score = attempts[a].score
    BY <1>3 DEF DeleteQuiz, LiveAttempt, IInv, TypeOK, Attempt
  <2> QED
    BY <1>1, <2>1, <2>2, EditScores
<1>4. ASSUME NEW q \in Questions, NEW p \in Points,
             CreateQuestion(q, p) \/ UpdateQuestion(q, p)
      PROVE  ScoreIInv'
  <2>1. \A x \in Questions \ {q} : questions'[x] = questions[x]
    BY <1>4 DEF CreateQuestion, UpdateQuestion, IInv, TypeOK
  <2>2. edited' = edited \cup {QuizOf[q]} /\ attempts' = attempts
    BY <1>4 DEF CreateQuestion, UpdateQuestion
  <2>3. Ages
    BY <1>1, <2>1, <2>2 DEF Ages, LiveQuestion
  <2> QED
    BY <1>1, <2>2, <2>3, EditScores DEF LiveAttempt
<1>5. ASSUME NEW q \in Questions, DeleteQuestion(q) PROVE ScoreIInv'
  <2>1. /\ \A x \in Questions \ {q} : questions'[x] = questions[x]
        /\ questions'[q].life = "deleted"
    BY <1>5 DEF DeleteQuestion, IInv, TypeOK, Question
  <2>2. edited' = edited /\ attempts' = attempts
    BY <1>5 DEF DeleteQuestion
  <2>3. Ages
    BY <1>1, <2>1, <2>2 DEF Ages, LiveQuestion
  <2> QED
    BY <1>1, <2>2, <2>3, EditScores DEF LiveAttempt
<1> QED
  BY <1>2, <1>3, <1>4, <1>5 DEF AuthorEdit

\* Edits of cards concern no score.
LEMMA CardEditScores ==
  ASSUME IInv, ScoreIInv, CardEdit
  PROVE  ScoreIInv'
<1>1. UNCHANGED <<req, counted, lookupErrors, questions, attempts, edited>>
  BY DEF CardEdit, SetSuspended, ResetFSRS, DeleteCard, Edit
<1>2. Ages
  BY <1>1 DEF Ages, LiveQuestion
<1> QED
  BY <1>1, <1>2, EditScores DEF LiveAttempt

\* Every step keeps the sums.
LEMMA StepScores == IInv /\ ScoreIInv /\ [Next]_vars => ScoreIInv'
<1> SUFFICES ASSUME IInv, ScoreIInv, [Next]_vars PROVE ScoreIInv'
  OBVIOUS
<1>1. CASE UNCHANGED vars
  <2>1. Ages
    BY <1>1 DEF Ages, LiveQuestion, vars, db, history
  <2> QED
    BY <1>1, <2>1, EditScores DEF LiveAttempt, vars, db, history
<1>2. ASSUME NEW r \in Requests, Arrive(r) PROVE ScoreIInv'
  <2>1. PICK u \in Users :
          \/ \E z \in Quizzes : StartLoadQuiz(r, u, z)
          \/ \E a \in Attempts : SubmitLoadAttempt(r, u, a) \/ CompleteLoadAttempt(r, u, a)
    BY <1>2 DEF Arrive
  <2>2. ASSUME NEW a \in Attempts,
               SubmitLoadAttempt(r, u, a) \/ CompleteLoadAttempt(r, u, a)
        PROVE  ScoreIInv'
    BY <2>2, LoadScores DEF SubmitLoadAttempt, CompleteLoadAttempt
  <2> QED
    BY <2>1, <2>2, StartScores
<1>3. ASSUME NEW r \in Requests, Step(r) PROVE ScoreIInv'
  <2>1. CASE SubmitCommitAborted(r)
    BY <2>1, EndScores DEF SubmitCommitAborted, Ended, NoCount
  <2> QED
    BY <1>3, <2>1, StartScores, CreateScores, LoadQuestionScores, AnsweringScores,
       CommitScores, CompleteScores DEF Step
<1>4. ASSUME NEW r \in Requests, Fail(r) PROVE ScoreIInv'
  BY <1>4, EndScores DEF Fail, Ended, NoCount
<1> QED
  BY <1>1, <1>2, <1>3, <1>4, AuthorScores, CardEditScores DEF Next

\* A new attempt has scored nothing.
LEMMA InitScores == Init => ScoreIInv
<1> SUFFICES ASSUME Init PROVE ScoreIInv
  OBVIOUS
<1>1. ASSUME NEW r \in Requests PROVE RequestScores(r)
  BY DEF Init, NewRequest, RequestScores, Handling, Answering, InTx
<1>2. ASSUME NEW a \in Attempts PROVE AttemptScores(a)
  <2>1. CASE attempts[a] = FreeAttempt
    BY <2>1 DEF FreeAttempt, AttemptScores
  <2>2. CASE attempts[a] # FreeAttempt
    <3>1. PICK z \in Quizzes :
            attempts[a] = OpenAttempt(OwnerOf[z], z, PointsListed(z))
      BY <2>2 DEF Init
    <3>2. /\ attempts[a].quiz = z /\ attempts[a].listed = PointsListed(z)
          /\ attempts[a].score = 0 /\ counted[a] = {}
      BY <3>1 DEF OpenAttempt, Init
    <3>3. ListsPoints(z, PointsListed(z))
      BY DEF ListsPoints, PointsListed, LiveQuestion
    <3>4. SumFunctionOnSet(attempts[a].listed, {}) = 0
      BY SumStep, FS_EmptySet
    <3> QED
      BY <3>2, <3>3, <3>4 DEF AttemptScores, ScoreOf
  <2> QED
    BY <2>1, <2>2
<1> QED
  BY <1>1, <1>2 DEF ScoreIInv

(***************************************************************************)
(* The score of a live attempt is the sum of the points listed for the     *)
(* questions it counts, and so are the scores requests have read of it and *)
(* will write back.                                                        *)
(***************************************************************************)
THEOREM ScoresAreCounted == Spec => [](IInv /\ ScoreIInv)
<1>1. Init => IInv /\ ScoreIInv
  BY InitIInv, InitScores
<1>2. IInv /\ ScoreIInv /\ [Next]_vars => (IInv /\ ScoreIInv)'
  BY StepIInv, StepScores
<1> QED
  BY <1>1, <1>2, PTL DEF Spec

(***************************************************************************)
(* However SubmitAnswer and CompleteAttempt interleave, no attempt at a    *)
(* quiz left alone scores more than total_points.                          *)
(***************************************************************************)
THEOREM ScoreNeverExceedsTotal == Spec => []ScoreWithinTotal
<1>1. IInv /\ ScoreIInv => ScoreWithinTotal
  <2> SUFFICES ASSUME IInv, ScoreIInv, NEW a \in Attempts,
                      attempts[a].life = "live", Undisturbed(a)
               PROVE  attempts[a].score <= TotalPoints(a)
    BY DEF ScoreWithinTotal
  <2>1. attempts[a].score = SumFunctionOnSet(attempts[a].listed, counted[a])
    BY DEF ScoreIInv, AttemptScores, ScoreOf
  <2>2. /\ attempts[a].listed \in [Questions -> 0..MaxPoints]
        /\ counted[a] \subseteq Questions
    BY DEF IInv, TypeOK, Attempt
  <2>3. /\ DOMAIN attempts[a].listed = Questions /\ IsFiniteSet(Questions)
        /\ \A q \in Questions : attempts[a].listed[q] \in Nat
    BY <2>2, ConstantsOK
  <2>4. TotalPoints(a) = SumFunctionOnSet(attempts[a].listed, Questions)
    BY <2>3 DEF TotalPoints, SumFunction
  <2>5. SumFunctionOnSet(attempts[a].listed, counted[a])
          <= SumFunctionOnSet(attempts[a].listed, Questions)
    BY <2>2, <2>3, SumGrows
  <2> QED
    BY <2>1, <2>4, <2>5
<1> QED
  BY <1>1, ScoresAreCounted, PTL

(***************************************************************************)
(* One request at a time: the score is the sum over the answers stored.    *)
(***************************************************************************)
AddsUp(a) == attempts[a].life = "live" /\ NoneWithdrawn(a)
               => attempts[a].score = SumFunctionOnSet(Gains, AnswersOf(a))

\* The invariant, one attempt at a time.
LEMMA SumsAre == SumsOK <=> /\ IsFiniteSet(answers)
                            /\ \A a \in Attempts : AddsUp(a)
                            /\ \A r \in Requests : ScoreIsCurrent(r)
BY DEF SumsOK, ScoreIsSumOfAnswers, AddsUp

\* What an answer scores is a natural.
LEMMA GainsType ==
  ASSUME TypeOK
  PROVE  \A r \in Requests : Gains[r] \in Nat /\ Gains[r] = Gain(r)
BY ConstantsOK DEF TypeOK, Request, Gains, Gain

\* No other request is about the attempt of a request under way.
LEMMA OnlyOne ==
  ASSUME IInv, OneAtATime, NEW r \in Requests, NEW s \in Requests \ {r},
         Handling(r), Handling(s)
  PROVE  req[s].attempt # req[r].attempt
BY HandlingFacts DEF OneAtATime

\* An attempt whose score and answers are the same still adds up.
LEMMA AddsUpKept ==
  ASSUME IInv, SumsOK, NEW a \in Attempts,
         attempts'[a].life = "live" =>
           /\ attempts[a].life = "live" /\ attempts'[a].score = attempts[a].score
           /\ NoneWithdrawn(a)' =>
                /\ NoneWithdrawn(a)
                /\ AnswersOf(a)' = AnswersOf(a)
                /\ \A r \in AnswersOf(a) : req'[r] = req[r]
  PROVE  AddsUp(a)'
<1> SUFFICES ASSUME attempts'[a].life = "live", NoneWithdrawn(a)'
             PROVE  attempts'[a].score = SumFunctionOnSet(Gains', AnswersOf(a))
  BY DEF AddsUp
<1>1. attempts'[a].score = SumFunctionOnSet(Gains, AnswersOf(a))
  BY SumsAre DEF AddsUp
<1>2. IsFiniteSet(AnswersOf(a)) /\ AnswersOf(a) \subseteq Requests
  BY SumsAre, FS_Subset DEF AnswersOf, IInv, TypeOK
<1>3. \A r \in AnswersOf(a) : Gains[r] = Gains'[r]
  BY <1>2 DEF Gains, Gain
<1>4. SumFunctionOnSet(Gains, AnswersOf(a)) = SumFunctionOnSet(Gains', AnswersOf(a))
  <2>1. PICK g, h, S : g = Gains /\ h = Gains' /\ S = AnswersOf(a)
    OBVIOUS
  <2>2. SumFunctionOnSet(g, S) = SumFunctionOnSet(h, S)
    BY <1>2, <1>3, <2>1, SumSame
  <2> QED
    BY <2>1, <2>2
<1> QED
  BY <1>1, <1>4

\* A statement that only reads, or writes no attempt.
LEMMA ReadSums ==
  ASSUME IInv, SumsOK, NEW r \in Requests, NEW new,
         req' = [req EXCEPT ![r] = new], req[r].pc # "ok",
         UNCHANGED <<attempts, answers, questions>>, ScoreIsCurrent(r)'
  PROVE  SumsOK'
<1>1. r \notin answers
  BY DEF IInv, RequestOK
<1>2. \A s \in Requests \ {r} : req'[s] = req[s]
  BY DEF IInv, TypeOK
<1>3. ASSUME NEW a \in Attempts PROVE AddsUp(a)'
  <2>1. \A s \in answers : s \in Requests /\ req'[s] = req[s]
    BY <1>1, <1>2 DEF IInv, TypeOK
  <2>2. AnswersOf(a)' = AnswersOf(a) /\ \A s \in AnswersOf(a) : req'[s] = req[s]
    BY <2>1 DEF AnswersOf
  <2>3. NoneWithdrawn(a)' => NoneWithdrawn(a)
    BY DEF NoneWithdrawn
  <2> QED
    BY <2>2, <2>3, AddsUpKept
<1>4. ASSUME NEW s \in Requests \ {r} PROVE ScoreIsCurrent(s)'
  BY <1>2, SumsAre DEF ScoreIsCurrent, Handling, Answering, LiveAttempt
<1>5. IsFiniteSet(answers')
  BY SumsAre
<1> QED
  BY <1>3, <1>4, <1>5 DEF SumsOK, ScoreIsSumOfAnswers, AddsUp

\* A request that is refused, fails or is rolled back.
LEMMA EndSums ==
  ASSUME IInv, SumsOK, NEW r \in Requests, NEW how \in Ended, End(r, how),
         req[r].pc # "ok", UNCHANGED <<attempts, answers, questions>>
  PROVE  SumsOK'
<1>1. PICK new : new = [NewRequest EXCEPT !.pc = how]
  OBVIOUS
<1>2. new.pc = how /\ req' = [req EXCEPT ![r] = new] /\ req'[r] = new
  BY <1>1 DEF End, NewRequest, IInv, TypeOK
<1>3. ScoreIsCurrent(r)'
  BY <1>2 DEF ScoreIsCurrent, Handling, Answering, InTx, Ended
<1> QED
  BY <1>2, <1>3, ReadSums

\* The statements of a handler before it writes.
LEMMA MovedSums ==
  ASSUME IInv, SumsOK, NEW r \in Requests, NEW new,
         req' = [req EXCEPT ![r] = new], req[r].pc # "ok",
         UNCHANGED <<attempts, answers, questions>>,
         \/ new.pc \in {"list", "create"}
         \/ Handling(r) /\ new.attempt = req[r].attempt /\ new.score = req[r].score
         \/ new.attempt \in Attempts /\ new.score = attempts[new.attempt].score
  PROVE  SumsOK'
<1>1. req'[r] = new
  BY DEF IInv, TypeOK
<1>2. ScoreIsCurrent(r)
  BY SumsAre
<1>3. ScoreIsCurrent(r)'
  BY <1>1, <1>2 DEF ScoreIsCurrent, Handling, Answering, InTx, LiveAttempt
<1> QED
  BY <1>3, ReadSums

\* Every statement of the handlers that writes no attempt.
LEMMA ReadingSums ==
  ASSUME IInv, SumsOK, NEW r \in Requests,
         \/ \E u \in Users, z \in Quizzes : StartLoadQuiz(r, u, z)
         \/ StartListQuestions(r)
         \/ \E u \in Users, a \in Attempts :
              SubmitLoadAttempt(r, u, a) \/ CompleteLoadAttempt(r, u, a)
         \/ \E q \in Questions : SubmitLoadQuestion(r, q)
         \/ SubmitLookup(r) \/ SubmitLookupError(r) \/ SubmitWrite(r)
         \/ FSRSLoadCard(r) \/ FSRSApply(r) \/ SubmitCommitAborted(r) \/ Fail(r)
  PROVE  SumsOK'
<1>1. req[r] \in Request
  BY DEF IInv, TypeOK
<1>2. CASE \E u \in Users, z \in Quizzes : StartLoadQuiz(r, u, z)
  <2>1. PICK u \in Users, z \in Quizzes : StartLoadQuiz(r, u, z)
    BY <1>2
  <2>2. req[r].pc = "new" /\ UNCHANGED <<attempts, answers, questions>>
    BY <2>1 DEF StartLoadQuiz, db
  <2>3. CASE End(r, "refused")
    BY <2>2, <2>3, EndSums DEF Ended
  <2>4. CASE req' = [req EXCEPT ![r] = [@ EXCEPT !.pc = "list", !.kind = "start",
                                                 !.user = u, !.quiz = z]]
    <3>1. PICK new : new = [req[r] EXCEPT !.pc = "list", !.kind = "start",
                                          !.user = u, !.quiz = z]
      OBVIOUS
    <3>2. new.pc = "list" /\ req' = [req EXCEPT ![r] = new]
      BY <1>1, <2>4, <3>1 DEF Request
    <3> QED
      BY <2>2, <3>2, MovedSums
  <2> QED
    BY <2>1, <2>3, <2>4 DEF StartLoadQuiz
<1>3. CASE StartListQuestions(r)
  <2>1. req[r].pc = "list" /\ UNCHANGED <<attempts, answers, questions>>
    BY <1>3 DEF StartListQuestions, db
  <2>2. PICK new : new = [req[r] EXCEPT !.pc = "create",
                                        !.listed = PointsListed(req[r].quiz)]
    OBVIOUS
  <2>3. new.pc = "create" /\ req' = [req EXCEPT ![r] = new]
    BY <1>1, <1>3, <2>2 DEF Request, StartListQuestions
  <2> QED
    BY <2>1, <2>3, MovedSums
<1>4. ASSUME NEW u \in Users, NEW a \in Attempts, NEW kind, NEW next,
             LoadAttempt(r, u, a, kind, next)
      PROVE  SumsOK'
  <2>1. req[r].pc = "new" /\ UNCHANGED <<attempts, answers, questions>>
    BY <1>4 DEF LoadAttempt, db
  <2>2. CASE End(r, "refused")
    BY <2>1, <2>2, EndSums DEF Ended
  <2>3. CASE req' = [req EXCEPT ![r] =
                 [@ EXCEPT !.pc = next, !.kind = kind, !.attempt = a,
                           !.score = attempts[a].score,
                           !.correct = attempts[a].correct,
                           !.counted = counted[a]]]
    <3>1. PICK new : new = [req[r] EXCEPT !.pc = next, !.kind = kind, !.attempt = a,
                                          !.score = attempts[a].score,
                                          !.correct = attempts[a].correct,
                                          !.counted = counted[a]]
      OBVIOUS
    <3>2. /\ new.attempt = a /\ new.score = attempts[a].score
          /\ req' = [req EXCEPT ![r] = new]
      BY <1>1, <2>3, <3>1 DEF Request
    <3> QED
      BY <2>1, <3>2, MovedSums
  <2> QED
    BY <1>4, <2>2, <2>3 DEF LoadAttempt
<1>5. CASE \E q \in Questions : SubmitLoadQuestion(r, q)
  <2>1. PICK q \in Questions : SubmitLoadQuestion(r, q)
    BY <1>5
  <2>2. /\ req[r].pc = "question" /\ UNCHANGED <<attempts, answers, questions>>
        /\ Handling(r)
    BY <2>1 DEF SubmitLoadQuestion, Handling, db
  <2>3. CASE End(r, "refused")
    BY <2>2, <2>3, EndSums DEF Ended
  <2>4. CASE req' = [req EXCEPT ![r] = [@ EXCEPT !.pc = "lookup", !.question = q,
                                                 !.points = questions[q].points]]
    <3>1. PICK new : new = [req[r] EXCEPT !.pc = "lookup", !.question = q,
                                          !.points = questions[q].points]
      OBVIOUS
    <3>2. /\ new.attempt = req[r].attempt /\ new.score = req[r].score
          /\ req' = [req EXCEPT ![r] = new]
      BY <1>1, <2>4, <3>1 DEF Request
    <3> QED
      BY <2>2, <3>2, MovedSums
  <2> QED
    BY <2>1, <2>3, <2>4 DEF SubmitLoadQuestion
<1>6. CASE SubmitLookup(r) \/ SubmitLookupError(r)
  <2>1. /\ req[r].pc = "lookup" /\ UNCHANGED <<attempts, answers, questions>>
        /\ Handling(r)
    BY <1>6 DEF SubmitLookup, SubmitLookupError, Handling, Answering, db
  <2>2. CASE End(r, "refused")
    BY <2>1, <2>2, EndSums DEF Ended
  <2>3. CASE Grade(r)
    <3>1. PICK right \in BOOLEAN :
            req' = [req EXCEPT ![r] = [@ EXCEPT !.pc = "write", !.right = right]]
      BY <2>3 DEF Grade
    <3>2. PICK new : new = [req[r] EXCEPT !.pc = "write", !.right = right]
      OBVIOUS
    <3>3. /\ new.attempt = req[r].attempt /\ new.score = req[r].score
          /\ req' = [req EXCEPT ![r] = new]
      BY <1>1, <3>1, <3>2 DEF Request
    <3> QED
      BY <2>1, <3>3, MovedSums
  <2> QED
    BY <1>6, <2>2, <2>3 DEF SubmitLookup, SubmitLookupError
<1>7. CASE SubmitWrite(r) \/ FSRSLoadCard(r) \/ FSRSApply(r)
  <2>1. /\ req[r].pc \in {"write", "card", "fsrs"} /\ Handling(r)
        /\ UNCHANGED <<attempts, answers, questions>>
    BY <1>7 DEF SubmitWrite, FSRSLoadCard, FSRSApply, Handling, Answering, InTx, db
  <2>2. CASE End(r, "failed")
    BY <2>1, <2>2, EndSums DEF Ended
  <2>3. CASE \E next \in InTx : req' = [req EXCEPT ![r].pc = next]
    <3>1. PICK next \in InTx : req' = [req EXCEPT ![r].pc = next]
      BY <2>3
    <3>2. PICK new : new = [req[r] EXCEPT !.pc = next]
      OBVIOUS
    <3>3. /\ new.attempt = req[r].attempt /\ new.score = req[r].score
          /\ req' = [req EXCEPT ![r] = new]
      BY <1>1, <3>1, <3>2 DEF Request
    <3> QED
      BY <2>1, <3>3, MovedSums
  <2>4. SubmitWrite(r) => \/ End(r, "failed")
                          \/ \E next \in InTx : req' = [req EXCEPT ![r].pc = next]
    BY DEF SubmitWrite, InTx
  <2>5. FSRSLoadCard(r) \/ FSRSApply(r)
          => \E next \in InTx : req' = [req EXCEPT ![r].pc = next]
    BY DEF FSRSLoadCard, FSRSApply, InTx
  <2> QED
    BY <1>7, <2>2, <2>3, <2>4, <2>5
<1>8. CASE SubmitCommitAborted(r) \/ Fail(r)
  BY <1>8, EndSums DEF SubmitCommitAborted, Fail, UnderWay, Reading, InTx, Ended, db
<1> QED
  BY <1>2, <1>3, <1>4, <1>5, <1>6, <1>7, <1>8
     DEF SubmitLoadAttempt, CompleteLoadAttempt

\* A new attempt has no answers.
LEMMA CreateSums ==
  ASSUME IInv, SumsOK, NEW r \in Requests, NEW a \in Attempts, StartCreate(r, a)
  PROVE  SumsOK'
<1>1. /\ req[r].pc = "create" /\ attempts[a].life = "free"
      /\ UNCHANGED <<questions, answers>> /\ r \notin answers
      /\ \A s \in answers : s \in Requests /\ req[s].attempt # a
  BY DEF StartCreate, IInv, TypeOK, RequestOK
<1>2. CASE UNCHANGED attempts /\ End(r, "failed")
  BY <1>1, <1>2, EndSums DEF Ended
<1>3. CASE /\ attempts' = [attempts EXCEPT ![a] =
                             OpenAttempt(req[r].user, req[r].quiz, req[r].listed)]
           /\ End(r, "ok")
  <2>1. PICK row : row = OpenAttempt(req[r].user, req[r].quiz, req[r].listed)
    OBVIOUS
  <2>2. /\ attempts'[a].score = 0
        /\ \A b \in Attempts \ {a} : attempts'[b] = attempts[b]
    BY <1>3, <2>1 DEF OpenAttempt, IInv, TypeOK
  <2>3. req'[r].pc = "ok" /\ \A s \in Requests \ {r} : req'[s] = req[s]
    BY <1>3 DEF End, NewRequest, IInv, TypeOK
  <2>4. AddsUp(a)'
    <3>1. AnswersOf(a)' = {}
      BY <1>1, <2>3 DEF AnswersOf
    <3>2. SumFunctionOnSet(Gains', {}) = 0
      BY SumStep, FS_EmptySet
    <3> QED
      BY <2>2, <3>1, <3>2 DEF AddsUp
  <2>5. ASSUME NEW b \in Attempts \ {a} PROVE AddsUp(b)'
    <3>1. AnswersOf(b)' = AnswersOf(b) /\ \A s \in AnswersOf(b) : req'[s] = req[s]
      BY <1>1, <2>3 DEF AnswersOf
    <3>2. NoneWithdrawn(b)' => NoneWithdrawn(b)
      BY <1>1, <2>2 DEF NoneWithdrawn
    <3> QED
      BY <2>2, <3>1, <3>2, AddsUpKept
  <2>6. ASSUME NEW s \in Requests PROVE ScoreIsCurrent(s)'
    <3>1. CASE s = r
      BY <2>3, <3>1 DEF ScoreIsCurrent, Handling, Answering, InTx
    <3>2. CASE s # r
      <4>1. req'[s] = req[s] /\ ScoreIsCurrent(s)
        BY <2>3, <3>2, SumsAre
      <4>2. Handling(s) => req[s].attempt \in Attempts \ {a}
        BY <1>1 DEF IInv, RequestOK
      <4> QED
        BY <2>2, <4>1, <4>2 DEF ScoreIsCurrent, Handling, Answering, LiveAttempt
    <3> QED
      BY <3>1, <3>2
  <2>7. IsFiniteSet(answers')
    BY <1>1, SumsAre
  <2> QED
    BY <2>4, <2>5, <2>6, <2>7 DEF SumsOK, ScoreIsSumOfAnswers, AddsUp
<1> QED
  BY <1>2, <1>3 DEF StartCreate

(***************************************************************************)
(* What is written back to attempt a by the one request about it: the      *)
(* others do not notice.                                                   *)
(***************************************************************************)
LEMMA WrittenSums ==
  ASSUME IInv, SumsOK, OneAtATime, NEW r \in Requests, Handling(r),
         \A b \in Attempts \ {req[r].attempt} : attempts'[b] = attempts[b],
         \A s \in Requests \ {r} : req'[s] = req[s],
         req'[r].pc = "ok", req'[r].attempt = req[r].attempt,
         questions' = questions, IsFiniteSet(answers'),
         answers \subseteq answers', answers' \subseteq answers \cup {r},
         AddsUp(req[r].attempt)'
  PROVE  SumsOK'
<1>1. /\ r \notin answers /\ \A s \in answers : s \in Requests /\ req'[s] = req[s]
  BY HandlingFacts DEF IInv, TypeOK
<1>2. ASSUME NEW b \in Attempts \ {req[r].attempt} PROVE AddsUp(b)'
  <2>1. AnswersOf(b)' = AnswersOf(b) /\ \A s \in AnswersOf(b) : req'[s] = req[s]
    BY <1>1 DEF AnswersOf
  <2>2. NoneWithdrawn(b)' => NoneWithdrawn(b)
    BY DEF NoneWithdrawn
  <2> QED
    BY <2>1, <2>2, AddsUpKept
<1>3. ASSUME NEW s \in Requests PROVE ScoreIsCurrent(s)'
  <2>1. CASE s = r
    BY <2>1 DEF ScoreIsCurrent, Handling, Answering, InTx
  <2>2. CASE s # r
    <3>1. req'[s] = req[s] /\ ScoreIsCurrent(s)
      BY <2>2, SumsAre
    <3>2. Handling(s) => req[s].attempt \in Attempts \ {req[r].attempt}
      BY <2>2, OnlyOne, HandlingFacts
    <3> QED
      BY <3>1, <3>2 DEF ScoreIsCurrent, Handling, Answering, LiveAttempt
  <2> QED
    BY <2>1, <2>2
<1> QED
  BY <1>2, <1>3 DEF SumsOK, ScoreIsSumOfAnswers, AddsUp

\* The commit stores one answer more and adds what it scores.
LEMMA CommitSums ==
  ASSUME IInv, SumsOK, OneAtATime, NEW r \in Requests,
         SubmitCommit(r) \/ SubmitCommitFSRS(r)
  PROVE  SumsOK'
<1> SUFFICES ASSUME NEW a, a = req[r].attempt PROVE SumsOK'
  OBVIOUS
<1>1. /\ Commit(r) /\ questions' = questions /\ Handling(r)
      /\ req[r].pc \in {"commit", "commitFSRS"}
  BY DEF SubmitCommit, SubmitCommitFSRS, Handling, Answering, InTx
<1>2. /\ a \in Attempts /\ LiveAttempt(a) /\ req[r] \in Request
      /\ attempts[a] \in Attempt /\ r \notin answers
  BY <1>1, HandlingFacts DEF IInv, TypeOK, RequestOK, InTx, LiveAttempt
<1>3. PICK row : row = [attempts[a] EXCEPT !.completed = FALSE,
                          !.score = req[r].score + Gain(r),
                          !.correct = req[r].correct + Cardinality(Hit(r))]
  OBVIOUS
<1>4. PICK ended : ended = [req[r] EXCEPT !.pc = "ok", !.score = 0, !.correct = 0,
                                          !.counted = {}]
  OBVIOUS
<1>5. /\ attempts' = [attempts EXCEPT ![a] = row] /\ req' = [req EXCEPT ![r] = ended]
      /\ answers' = answers \cup {r}
  BY <1>1, <1>3, <1>4 DEF Commit, Answered
<1>6. /\ row.score = req[r].score + Gain(r) /\ row.quiz = attempts[a].quiz
      /\ ended.pc = "ok" /\ ended.attempt = a
      /\ ended.right = req[r].right /\ ended.points = req[r].points
  BY <1>2, <1>3, <1>4 DEF Attempt, Request
<1>7. /\ attempts'[a] = row /\ req'[r] = ended
      /\ \A b \in Attempts \ {a} : attempts'[b] = attempts[b]
      /\ \A s \in Requests \ {r} : req'[s] = req[s]
  BY <1>2, <1>5 DEF IInv, TypeOK
<1>8. IsFiniteSet(answers')
  BY <1>5, SumsAre, FS_AddElement
<1>9. AddsUp(a)'
  <2> SUFFICES ASSUME NoneWithdrawn(a)'
               PROVE  row.score = SumFunctionOnSet(Gains', AnswersOf(a)')
    BY <1>7 DEF AddsUp
  <2>1. PICK S : S = AnswersOf(a)
    OBVIOUS
  <2>2. IsFiniteSet(S) /\ S \subseteq Requests /\ r \notin S
    BY <1>2, <2>1, SumsAre, FS_Subset DEF AnswersOf, IInv, TypeOK
  <2>3. AnswersOf(a)' = S \cup {r}
    <3>1. \A s \in answers : s \in Requests \ {r}
      BY <1>2 DEF IInv, TypeOK
    <3> QED
      BY <1>5, <1>6, <1>7, <2>1, <3>1 DEF AnswersOf
  <2>4. PICK g, h : g = Gains /\ h = Gains'
    OBVIOUS
  <2>5. /\ \A s \in Requests : g[s] \in Nat
        /\ \A s \in Requests \ {r} : h[s] = g[s]
        /\ h[r] = Gain(r) /\ g[r] = Gain(r)
    <3>1. \A s \in Requests : g[s] \in Nat /\ g[s] = Gain(s)
      BY <2>4, GainsType DEF IInv
    <3>2. \A s \in Requests : h[s] = IF req'[s].right THEN req'[s].points ELSE 0
      BY <2>4 DEF Gains, Gain
    <3> QED
      BY <1>6, <1>7, <3>1, <3>2 DEF Gain
  <2>6. attempts[a].score = SumFunctionOnSet(g, S)
    <3>1. NoneWithdrawn(a)
      BY <1>1, <1>6, <1>7 DEF NoneWithdrawn
    <3> QED
      BY <1>2, <2>1, <2>4, <3>1, SumsAre DEF AddsUp, LiveAttempt
  <2>7. req[r].score = attempts[a].score
    BY <1>1, <1>2, SumsAre DEF ScoreIsCurrent
  <2>8. SumFunctionOnSet(g, S \cup {r}) = SumFunctionOnSet(g, S) + g[r]
    BY <2>2, <2>5, SumMore
  <2>9. SumFunctionOnSet(h, S \cup {r}) = SumFunctionOnSet(g, S \cup {r})
    <3>1. IsFiniteSet(S \cup {r}) /\ \A s \in S \cup {r} : h[s] = g[s]
      BY <2>2, <2>5, FS_AddElement
    <3> QED
      BY <3>1, SumSame
  <2> QED
    BY <1>6, <2>3, <2>4, <2>5, <2>6, <2>7, <2>8, <2>9
<1> QED
  BY <1>1, <1>5, <1>6, <1>7, <1>8, <1>9, WrittenSums

\* CompleteAttempt writes back the score that the row still has.
LEMMA CompleteSums ==
  ASSUME IInv, SumsOK, OneAtATime, NEW r \in Requests, CompleteWrite(r)
  PROVE  SumsOK'
<1> SUFFICES ASSUME NEW a, a = req[r].attempt PROVE SumsOK'
  OBVIOUS
<1>1. /\ questions' = questions /\ answers' = answers /\ Handling(r) /\ Answered(r)
  BY DEF CompleteWrite, Handling
<1>2. /\ a \in Attempts /\ req[r] \in Request
      /\ attempts[a] \in Attempt /\ r \notin answers
  BY <1>1, HandlingFacts
<1>3. PICK row : row = IF attempts[a].life = "live"
                         THEN [attempts[a] EXCEPT !.completed = TRUE,
                                                  !.score = req[r].score,
                                                  !.correct = req[r].correct]
                         ELSE attempts[a]
  OBVIOUS
<1>4. PICK ended : ended = [req[r] EXCEPT !.pc = "ok", !.score = 0, !.correct = 0,
                                          !.counted = {}]
  OBVIOUS
<1>5. attempts' = [attempts EXCEPT ![a] = row] /\ req' = [req EXCEPT ![r] = ended]
  BY <1>1, <1>3, <1>4 DEF CompleteWrite, Answered
<1>6. /\ row.quiz = attempts[a].quiz /\ row.life = attempts[a].life
      /\ row.life = "live" => row.score = req[r].score
      /\ ended.pc = "ok" /\ ended.attempt = a
  BY <1>2, <1>3, <1>4 DEF Attempt, Request
<1>7. /\ attempts'[a] = row /\ req'[r] = ended
      /\ \A b \in Attempts \ {a} : attempts'[b] = attempts[b]
      /\ \A s \in Requests \ {r} : req'[s] = req[s]
  BY <1>2, <1>5 DEF IInv, TypeOK
<1>8. AddsUp(a)'
  <2>1. \A s \in answers : s \in Requests /\ req'[s] = req[s]
    BY <1>2, <1>7 DEF IInv, TypeOK
  <2>2. AnswersOf(a)' = AnswersOf(a) /\ \A s \in AnswersOf(a) : req'[s] = req[s]
    BY <1>1, <2>1 DEF AnswersOf
  <2>3. NoneWithdrawn(a)' => NoneWithdrawn(a)
    BY <1>1, <1>6, <1>7 DEF NoneWithdrawn
  <2>4. attempts[a].life = "live" => req[r].score = attempts[a].score
    BY <1>1, <1>2, SumsAre DEF ScoreIsCurrent, LiveAttempt
  <2> QED
    BY <1>2, <1>6, <1>7, <2>2, <2>3, <2>4, AddsUpKept
<1>9. IsFiniteSet(answers')
  BY <1>1, SumsAre
<1> QED
  BY <1>1, <1>6, <1>7, <1>8, <1>9, WrittenSums

(***************************************************************************)
(* Edits: answers go only with a question of the quiz, which is then       *)
(* withdrawn, or with the quiz and the attempt itself.                     *)
(***************************************************************************)
LEMMA EditSums ==
  ASSUME IInv, SumsOK, req' = req, answers' \subseteq answers,
         \A a \in Attempts : attempts'[a].life = "live" =>
           /\ attempts[a].life = "live" /\ attempts'[a].score = attempts[a].score
           /\ NoneWithdrawn(a)' =>
                NoneWithdrawn(a) /\ \A r \in AnswersOf(a) : r \in answers'
  PROVE  SumsOK'
<1>1. IsFiniteSet(answers')
  BY SumsAre, FS_Subset
<1>2. ASSUME NEW a \in Attempts PROVE AddsUp(a)'
  <2>1. attempts'[a].life = "live" /\ NoneWithdrawn(a)' => AnswersOf(a)' = AnswersOf(a)
    BY DEF AnswersOf
  <2> QED
    BY <2>1, AddsUpKept
<1>3. ASSUME NEW s \in Requests PROVE ScoreIsCurrent(s)'
  BY SumsAre DEF ScoreIsCurrent, Handling, Answering, LiveAttempt
<1> QED
  BY <1>1, <1>2, <1>3 DEF SumsOK, ScoreIsSumOfAnswers, AddsUp

\* The edits of authors.
LEMMA AuthorSums ==
  ASSUME IInv, SumsOK, AuthorEdit
  PROVE  SumsOK'
<1>1. req' = req
  BY DEF AuthorEdit, SetPublished, DeleteQuiz, CreateQuestion, UpdateQuestion,
         DeleteQuestion, Edit
<1>2. \A r \in answers : /\ r \in Requests /\ req[r].question \in Questions
                         /\ req[r].attempt \in Attempts
                         /\ QuizOf[req[r].question] = attempts[req[r].attempt].quiz
  BY DEF IInv, TypeOK, RequestOK
<1>3. ASSUME NEW z \in Quizzes, SetPublished(z) PROVE SumsOK'
  BY <1>1, <1>3, EditSums DEF SetPublished, NoneWithdrawn, AnswersOf
<1>4. ASSUME NEW z \in Quizzes, DeleteQuiz(z) PROVE SumsOK'
  <2>1. ASSUME NEW a \in Attempts, attempts'[a].life = "live"
        PROVE  attempts'[a] = attempts[a] /\ attempts[a].quiz # z
    BY <1>4, <2>1 DEF DeleteQuiz, IInv, TypeOK, Attempt
  <2>2. ASSUME NEW a \in Attempts, attempts'[a].life = "live", NoneWithdrawn(a)'
        PROVE  NoneWithdrawn(a) /\ \A r \in AnswersOf(a) : r \in answers'
    <3>1. NoneWithdrawn(a)
      BY <1>4, <2>1, <2>2 DEF DeleteQuiz, NoneWithdrawn
    <3>2. \A r \in AnswersOf(a) : r \in answers'
      BY <1>4, <2>1, <2>2 DEF DeleteQuiz, AnswersOf
    <3> QED
      BY <3>1, <3>2
  <2>3. answers' \subseteq answers
    BY <1>4 DEF DeleteQuiz
  <2> QED
    BY <1>1, <2>1, <2>2, <2>3, EditSums
<1>5. ASSUME NEW q \in Questions, NEW p \in Points,
             CreateQuestion(q, p) \/ UpdateQuestion(q, p)
      PROVE  SumsOK'
  <2>1. /\ \A x \in Questions \ {q} : questions'[x] = questions[x]
        /\ questions[q].life # "deleted"
        /\ attempts' = attempts /\ answers' = answers
    BY <1>5 DEF CreateQuestion, UpdateQuestion, IInv, TypeOK
  <2> QED
    BY <1>1, <2>1, EditSums DEF NoneWithdrawn, AnswersOf
<1>6. ASSUME NEW q \in Questions, DeleteQuestion(q) PROVE SumsOK'
  <2>1. /\ \A x \in Questions \ {q} : questions'[x] = questions[x]
        /\ questions'[q].life = "deleted" /\ questions[q].life = "live"
        /\ attempts' = attempts
        /\ answers' = {r \in answers : req[r].question # q}
    BY <1>6 DEF DeleteQuestion, IInv, TypeOK, Question
  <2>2. ASSUME NEW a \in Attempts, NoneWithdrawn(a)'
        PROVE  NoneWithdrawn(a) /\ \A r \in AnswersOf(a) : r \in answers'
    <3>1. QuizOf[q] # attempts[a].quiz
      BY <2>1, <2>2 DEF NoneWithdrawn
    <3>2. NoneWithdrawn(a)
      BY <2>1, <2>2 DEF NoneWithdrawn
    <3> QED
      BY <1>2, <2>1, <3>1, <3>2 DEF AnswersOf
  <2> QED
    BY <1>1, <2>1, <2>2, EditSums
<1> QED
  BY <1>3, <1>4, <1>5, <1>6 DEF AuthorEdit

\* Steps that concern none of this.
LEMMA StillSums ==
  ASSUME IInv, SumsOK, UNCHANGED <<req, attempts, answers, questions>>
  PROVE  SumsOK'
BY EditSums DEF NoneWithdrawn, AnswersOf

\* Every step keeps the sums, as long as it begins with one request per attempt.
LEMMA StepSums == IInv /\ SumIInv /\ [Next]_vars => SumsOK'
<1> SUFFICES ASSUME IInv, SumsOK, OneAtATime, [Next]_vars PROVE SumsOK'
  BY DEF SumIInv
<1>1. CASE UNCHANGED vars
  BY <1>1, StillSums DEF vars, db
<1>2. ASSUME NEW r \in Requests, Arrive(r) PROVE SumsOK'
  BY <1>2, ReadingSums DEF Arrive
<1>3. ASSUME NEW r \in Requests, Step(r) PROVE SumsOK'
  BY <1>3, ReadingSums, CreateSums, CommitSums, CompleteSums DEF Step
<1>4. CASE CardEdit
  BY <1>4, StillSums DEF CardEdit, SetSuspended, ResetFSRS, DeleteCard, Edit
<1> QED
  BY <1>1, <1>2, <1>3, <1>4, ReadingSums, AuthorSums DEF Next

\* Nothing is answered yet.
LEMMA InitSums == Init => SumIInv
<1> SUFFICES ASSUME Init PROVE SumIInv
  OBVIOUS
<1>1. \A r \in Requests : ScoreIsCurrent(r) /\ ~UnderWay(r)
  BY DEF Init, NewRequest, ScoreIsCurrent, UnderWay, Handling, Answering,
         Reading, InTx
<1>2. IsFiniteSet(answers)
  BY FS_EmptySet DEF Init
<1>3. ASSUME NEW a \in Attempts PROVE AddsUp(a)
  <2>1. AnswersOf(a) = {} /\ SumFunctionOnSet(Gains, {}) = 0
    BY SumStep, FS_EmptySet DEF AnswersOf, Init
  <2>2. attempts[a].score = 0
    BY DEF Init, FreeAttempt, OpenAttempt
  <2> QED
    BY <2>1, <2>2 DEF AddsUp
<1> QED
  BY <1>1, <1>2, <1>3, SumsAre DEF SumIInv, OneAtATime

(***************************************************************************)
(* For a client that waits for each reply, nothing is lost of what its     *)
(* answers scored: the score SubmitAnswer writes back is the one it read   *)
(* plus its points, and nobody wrote in between.  A duplicate lookup that  *)
(* fails does not matter here: the second answer is stored and scored.     *)
(***************************************************************************)
THEOREM NoScoreIsLost == SerialSpec => []ScoreIsSumOfAnswers
<1>1. Init => IInv /\ SumIInv
  BY InitIInv, InitSums
<1>2. IInv /\ SumIInv /\ [Next /\ OneAtATime']_vars => (IInv /\ SumIInv)'
  <2> SUFFICES ASSUME IInv, SumIInv, [Next /\ OneAtATime']_vars
               PROVE  IInv' /\ SumIInv'
    OBVIOUS
  <2>1. IInv' /\ SumsOK'
    BY StepIInv, StepSums
  <2>2. OneAtATime'
    <3>1. CASE UNCHANGED vars
      BY <3>1 DEF SumIInv, OneAtATime, UnderWay, vars
    <3> QED
      BY <3>1
  <2> QED
    BY <2>1, <2>2 DEF SumIInv
<1>3. IInv /\ SumIInv => ScoreIsSumOfAnswers
  BY DEF SumIInv, SumsOK
<1> QED
  BY <1>1, <1>2, <1>3, PTL DEF SerialSpec
==============================================================================
