---------------------------- MODULE QuizAttempt ----------------------------
(***************************************************************************)
(* Taking a quiz: StartAttempt, SubmitAnswer and CompleteAttempt of        *)
(* internal/service/quiz.go, run by concurrent HTTP requests against one   *)
(* PostgreSQL database (READ COMMITTED), while authors edit the quizzes    *)
(* and owners edit the flashcards the questions are linked to.             *)
(*                                                                         *)
(* One request is one value of Requests and is served at most once.  A     *)
(* request holds copies of the rows it has read (req[r]); every statement  *)
(* it sends is one action.  A transaction's writes are published by the    *)
(* commit: until then they are the program point of the request, and the   *)
(* row locks it holds are read off that program point.                     *)
(***************************************************************************)
EXTENDS Naturals, FiniteSets

CONSTANTS Users, Quizzes, Questions, Cards, Attempts, Requests,
          OwnerOf,          \* quizzes.user_id: immutable
          QuizOf,           \* quiz_questions.quiz_id: immutable
          CardOf,           \* quiz_questions.card_id, or None
          None,             \* SQL NULL
          MaxPoints,        \* largest points of a question (the API's is 100)
          MaxEdits,         \* bound on the authors' and owners' edits
          MaxLookupErrors   \* bound on failing duplicate lookups

ASSUME ConstantsOK ==
  /\ IsFiniteSet(Questions)
  /\ OwnerOf \in [Quizzes -> Users]
  /\ QuizOf \in [Questions -> Quizzes]
  /\ CardOf \in [Questions -> Cards \cup {None}]
  /\ MaxPoints \in Nat \ {0} /\ MaxEdits \in Nat /\ MaxLookupErrors \in Nat
  /\ None \notin Users \cup Quizzes \cup Questions \cup Cards \cup Attempts
                 \cup Requests

VARIABLES
  quizzes,       \* quizzes: is_published, or deleted
  questions,     \* quiz_questions: life of the row and its points
  cards,         \* cards: life, is_suspended, and whose FSRS state it holds
  attempts,      \* quiz_attempts
  answers,       \* quiz_answers, each named by the request that inserted it
  logs,          \* review_logs of source "quiz", named in the same way
  req,           \* the requests and what each has read so far
  counted,       \* history: the questions the stored correct_count counts
  edited,        \* history: quizzes whose questions were added to or changed
  edits,         \* how many edits the authors and owners have made
  lookupErrors   \* how many duplicate lookups have failed

db   == <<quizzes, questions, cards, attempts, answers, logs>>
history == <<counted, edited>>
vars == <<db, req, history, edits, lookupErrors>>

Points == 1..MaxPoints
Life   == {"free", "live", "deleted"}   \* row ids are never used again

Quiz     == {"private", "published", "deleted"}
Question == [life: Life, points: Points]
Card     == [life: {"live", "deleted"}, suspended: BOOLEAN,
             fsrs: Requests \cup {None}]
\* total_points and total_questions are kept as the points listed per question.
Attempt  == [life: Life, user: Users \cup {None}, quiz: Quizzes \cup {None},
             completed: BOOLEAN, score: Nat, correct: Nat,
             listed: [Questions -> 0..MaxPoints]]

Reading == {"list", "create", "question", "lookup", "write", "complete"}
InTx    == {"card", "fsrs", "commit", "commitFSRS", "doomed"}
\* "ok": its effect is committed, whether or not the reply reaches the client.
Ended   == {"ok", "refused", "failed", "lost"}

Request == [pc: {"new"} \cup Reading \cup InTx \cup Ended,
            kind: {"none", "start", "submit", "complete"},
            user: Users \cup {None}, quiz: Quizzes \cup {None},
            attempt: Attempts \cup {None}, question: Questions \cup {None},
            listed: [Questions -> 0..MaxPoints],
            score: Nat, correct: Nat, counted: SUBSET Questions,
            points: 0..MaxPoints, right: BOOLEAN]

Nothing == [q \in Questions |-> 0]
NewRequest ==
  [pc |-> "new", kind |-> "none", user |-> None, quiz |-> None,
   attempt |-> None, question |-> None, listed |-> Nothing,
   score |-> 0, correct |-> 0, counted |-> {}, points |-> 0, right |-> FALSE]
FreeAttempt ==
  [life |-> "free", user |-> None, quiz |-> None, completed |-> FALSE,
   score |-> 0, correct |-> 0, listed |-> Nothing]

\* SUM(points) of StartAttempt ranges over the rows listed here.
PointsListed(z) ==
  [q \in Questions |-> IF QuizOf[q] = z /\ questions[q].life = "live"
                         THEN questions[q].points ELSE 0]
OpenAttempt(u, z, listed) ==
  [life |-> "live", user |-> u, quiz |-> z, completed |-> FALSE,
   score |-> 0, correct |-> 0, listed |-> listed]

(***************************************************************************)
(* Authored quizzes and fresh cards; any attempt may already be under way. *)
(***************************************************************************)
Init ==
  /\ quizzes \in [Quizzes -> {"private", "published"}]
  /\ questions \in [Questions -> [life: {"free", "live"}, points: Points]]
  /\ \A q \in Questions : questions[q].life = "free" => questions[q].points = 1
  /\ cards \in [Cards -> [life: {"live"}, suspended: BOOLEAN, fsrs: {None}]]
  /\ attempts \in [Attempts -> {FreeAttempt} \cup
                     {OpenAttempt(OwnerOf[z], z, PointsListed(z)) : z \in Quizzes}]
  /\ answers = {} /\ logs = {}
  /\ req = [r \in Requests |-> NewRequest]
  /\ counted = [a \in Attempts |-> {}] /\ edited = {}
  /\ edits = 0 /\ lookupErrors = 0
----------------------------------------------------------------------------
\* What a request ends with: an error keeps nothing of what it read.
End(r, how) == req' = [req EXCEPT ![r] = [NewRequest EXCEPT !.pc = how]]
NoCount == UNCHANGED <<history, edits, lookupErrors>>

UnderWay(r) == req[r].pc \in Reading \cup InTx

\* Bound: every StartAttempt under way has a row id left to create.
RowIdsLeft == Cardinality({a \in Attempts : attempts[a].life = "free"})
                > Cardinality({r \in Requests : req[r].pc \in {"list", "create"}})

\* The row lock an UPDATE of a transaction holds until it commits.
AttemptLocked(a) == \E r \in Requests : req[r].pc \in InTx /\ req[r].attempt = a
CardLocked(c) == \E r \in Requests :
                   req[r].pc = "commitFSRS" /\ CardOf[req[r].question] = c
\* The key-share lock of the answer just inserted (foreign key to the question).
QuestionReferenced(q) == \E r \in Requests :
                           req[r].pc \in InTx /\ req[r].question = q

(***************************************************************************)
(* StartAttempt.  Operators named Mut... are broken variants of the        *)
(* definition after them; nothing uses them unless it replaces its         *)
(* definition to show that a property notices.                             *)
(***************************************************************************)
StartLoadQuiz(r, u, z) ==
  /\ req[r].pc = "new" /\ RowIdsLeft
  /\ \/ /\ quizzes[z] # "deleted"
        /\ OwnerOf[z] = u \/ quizzes[z] = "published"
        /\ req' = [req EXCEPT ![r] = [@ EXCEPT !.pc = "list", !.kind = "start",
                                               !.user = u, !.quiz = z]]
     \/ /\ quizzes[z] = "deleted" \/ (OwnerOf[z] # u /\ quizzes[z] = "private")
        /\ End(r, "refused")
  /\ UNCHANGED db /\ NoCount

StartListQuestions(r) ==
  /\ req[r].pc = "list"
  /\ req' = [req EXCEPT ![r] = [@ EXCEPT !.pc = "create",
                                         !.listed = PointsListed(req[r].quiz)]]
  /\ UNCHANGED db /\ NoCount

MutStartCreate(r, a) ==   \* no foreign key to the quiz
  /\ req[r].pc = "create" /\ attempts[a].life = "free"
  /\ attempts' = [attempts EXCEPT ![a] =
                    OpenAttempt(req[r].user, req[r].quiz, req[r].listed)]
  /\ End(r, "ok")
  /\ UNCHANGED <<quizzes, questions, cards, answers, logs>> /\ NoCount

StartCreate(r, a) ==
  /\ req[r].pc = "create" /\ attempts[a].life = "free"
  /\ \/ /\ quizzes[req[r].quiz] # "deleted"
        /\ attempts' = [attempts EXCEPT ![a] =
                          OpenAttempt(req[r].user, req[r].quiz, req[r].listed)]
        /\ End(r, "ok")
     \/ /\ quizzes[req[r].quiz] = "deleted"      \* foreign key violation
        /\ UNCHANGED attempts
        /\ End(r, "failed")
  /\ UNCHANGED <<quizzes, questions, cards, answers, logs>> /\ NoCount
----------------------------------------------------------------------------
(***************************************************************************)
(* SubmitAnswer and CompleteAttempt begin alike: the attempt must exist,   *)
(* belong to the caller and not be completed.  What was read of its row is *)
(* kept, and written back later.                                           *)
(***************************************************************************)
Usable(a, u) == /\ attempts[a].life = "live"
                /\ attempts[a].user = u
                /\ ~attempts[a].completed

LoadAttempt(r, u, a, kind, next) ==
  /\ req[r].pc = "new"
  /\ \/ /\ Usable(a, u)
        /\ req' = [req EXCEPT ![r] =
                     [@ EXCEPT !.pc = next, !.kind = kind, !.attempt = a,
                               !.score = attempts[a].score,
                               !.correct = attempts[a].correct,
                               !.counted = counted[a]]]
     \/ /\ ~Usable(a, u)
        /\ End(r, "refused")
  /\ UNCHANGED db /\ NoCount

SubmitLoadAttempt(r, u, a) == LoadAttempt(r, u, a, "submit", "question")
CompleteLoadAttempt(r, u, a) == LoadAttempt(r, u, a, "complete", "complete")

SubmitLoadQuestion(r, q) ==
  /\ req[r].pc = "question"
  /\ \/ /\ questions[q].life = "live"
        /\ attempts[req[r].attempt].quiz = QuizOf[q]
        /\ req' = [req EXCEPT ![r] = [@ EXCEPT !.pc = "lookup", !.question = q,
                                               !.points = questions[q].points]]
     \/ /\ \/ questions[q].life # "live"
           \/ attempts[req[r].attempt].quiz # QuizOf[q]
        /\ End(r, "refused")
  /\ UNCHANGED db /\ NoCount

\* The answer of request s is an answer of attempt a to question q.
AnswerTo(s, a, q) == req[s].attempt = a /\ req[s].question = q

\* Grading depends on the answer given, which is right or not.
Grade(r) ==
  \E right \in BOOLEAN :
    req' = [req EXCEPT ![r] = [@ EXCEPT !.pc = "write", !.right = right]]

MutSubmitLookup(r) ==   \* no duplicate check
  /\ req[r].pc = "lookup"
  /\ Grade(r)
  /\ UNCHANGED db /\ NoCount

SubmitLookup(r) ==
  /\ req[r].pc = "lookup"
  /\ \/ /\ \E s \in answers : AnswerTo(s, req[r].attempt, req[r].question)
        /\ End(r, "refused")
     \/ /\ ~ \E s \in answers : AnswerTo(s, req[r].attempt, req[r].question)
        /\ Grade(r)
  /\ UNCHANGED db /\ NoCount

\* "err == nil && existing != nil": a lookup that fails counts as no answer.
SubmitLookupError(r) ==
  /\ req[r].pc = "lookup" /\ lookupErrors < MaxLookupErrors
  /\ lookupErrors' = lookupErrors + 1
  /\ Grade(r)
  /\ UNCHANGED <<db, history, edits>>

(***************************************************************************)
(* The transaction: insert the answer, overwrite the attempt's columns,    *)
(* and if the question is linked to a card and the client sent a new FSRS  *)
(* state, applyFSRSFromQuiz.                                               *)
(***************************************************************************)
SubmitWrite(r) ==
  LET a == req[r].attempt
      q == req[r].question
  IN  /\ req[r].pc = "write"
      /\ ~AttemptLocked(a)
      /\ \/ /\ attempts[a].life = "live" /\ questions[q].life = "live"
            /\ \E next \in {"commit"} \cup (IF CardOf[q] = None THEN {}
                                            ELSE {"card"}) :
                 req' = [req EXCEPT ![r].pc = next]
         \/ /\ attempts[a].life # "live" \/ questions[q].life # "live"
            /\ End(r, "failed")                  \* foreign key violation
      /\ UNCHANGED db /\ NoCount

FSRSLoadCard(r) ==
  LET c == CardOf[req[r].question]
  IN  /\ req[r].pc = "card"
      /\ \/ /\ cards[c].life = "live" /\ ~cards[c].suspended
            /\ req' = [req EXCEPT ![r].pc = "fsrs"]
         \/ req' = [req EXCEPT ![r].pc = "commit"]  \* or the sent state is invalid
      /\ UNCHANGED db /\ NoCount

\* UpdateFSRS and the review log.  On a card deleted since it was read, the
\* UPDATE touches no row and the INSERT violates the foreign key: PostgreSQL
\* aborts the transaction, applyFSRSFromQuiz only returns.
FSRSApply(r) ==
  LET c == CardOf[req[r].question]
  IN  /\ req[r].pc = "fsrs"
      /\ ~CardLocked(c)
      /\ req' = [req EXCEPT ![r].pc = IF cards[c].life = "live"
                                        THEN "commitFSRS" ELSE "doomed"]
      /\ UNCHANGED db /\ NoCount

\* What the answer of request r adds to the score and to correct_count.
Gain(r) == IF req[r].right THEN req[r].points ELSE 0
Hit(r)  == IF req[r].right THEN {req[r].question} ELSE {}

Answered(r) ==
  req' = [req EXCEPT ![r] = [@ EXCEPT !.pc = "ok", !.score = 0, !.correct = 0,
                                      !.counted = {}]]

MutCommitAdding(r) ==   \* SET score = score + $2, ... on the current row
  LET a == req[r].attempt
  IN  /\ attempts' = [attempts EXCEPT ![a] =
                        [@ EXCEPT !.score = @ + Gain(r),
                                  !.correct = @ + Cardinality(Hit(r))]]
      /\ answers' = answers \cup {r}
      /\ counted' = [counted EXCEPT ![a] = @ \cup Hit(r)]
      /\ Answered(r)

MutCommitForgetting(r) ==   \* the score of the last answer only
  LET a == req[r].attempt
  IN  /\ attempts' = [attempts EXCEPT ![a] =
                        [@ EXCEPT !.score = Gain(r),
                                  !.correct = req[r].correct
                                                + Cardinality(Hit(r))]]
      /\ answers' = answers \cup {r}
      /\ counted' = [counted EXCEPT ![a] = req[r].counted \cup Hit(r)]
      /\ Answered(r)

Commit(r) ==
  LET a == req[r].attempt
  IN  /\ attempts' = [attempts EXCEPT ![a] =
                        [@ EXCEPT !.completed = FALSE,   \* as it was read
                                  !.score = req[r].score + Gain(r),
                                  !.correct = req[r].correct
                                                + Cardinality(Hit(r))]]
      /\ answers' = answers \cup {r}
      /\ counted' = [counted EXCEPT ![a] = req[r].counted \cup Hit(r)]
      /\ Answered(r)

SubmitCommit(r) ==
  /\ req[r].pc = "commit"
  /\ Commit(r)
  /\ UNCHANGED <<quizzes, questions, cards, logs, edited, edits, lookupErrors>>

MutSubmitCommitFSRSNoLog(r) ==   \* the review log fails on its own
  /\ req[r].pc = "commitFSRS"
  /\ Commit(r)
  /\ cards' = [cards EXCEPT ![CardOf[req[r].question]].fsrs = r]
  /\ UNCHANGED <<quizzes, questions, logs, edited, edits, lookupErrors>>

SubmitCommitFSRS(r) ==
  /\ req[r].pc = "commitFSRS"
  /\ Commit(r)
  /\ cards' = [cards EXCEPT ![CardOf[req[r].question]].fsrs = r]
  /\ logs' = logs \cup {r}
  /\ UNCHANGED <<quizzes, questions, edited, edits, lookupErrors>>

MutSubmitCommitAbortedOk(r) ==   \* the error of Commit is ignored
  /\ req[r].pc = "doomed"
  /\ Answered(r)
  /\ UNCHANGED db /\ NoCount

MutSubmitCommitAbortedOpen(r) ==   \* the transaction is left open
  /\ req[r].pc = "doomed"
  /\ UNCHANGED vars

\* The function returned nil, but COMMIT of an aborted transaction rolls back.
SubmitCommitAborted(r) ==
  /\ req[r].pc = "doomed"
  /\ End(r, "lost")
  /\ UNCHANGED db /\ NoCount

CompleteWrite(r) ==
  LET a == req[r].attempt
  IN  /\ req[r].pc = "complete"
      /\ ~AttemptLocked(a)
      /\ attempts' = [attempts EXCEPT ![a] =
                        IF @.life = "live"
                          THEN [@ EXCEPT !.completed = TRUE,
                                         !.score = req[r].score,
                                         !.correct = req[r].correct]
                          ELSE @]                \* an UPDATE of no row succeeds
      /\ counted' = [counted EXCEPT ![a] = req[r].counted]
      /\ Answered(r)
      /\ UNCHANGED <<quizzes, questions, cards, answers, logs>>
      /\ UNCHANGED <<edited, edits, lookupErrors>>

\* Any statement may fail, the client may go away, the server may stop: the
\* handler returns early and an open transaction is rolled back.
Fail(r) ==
  /\ UnderWay(r)
  /\ End(r, "failed")
  /\ UNCHANGED db /\ NoCount
----------------------------------------------------------------------------
(***************************************************************************)
(* The statements of authors and card owners, as the requests above see    *)
(* them; deletions cascade along the foreign keys and wait for the locks   *)
(* of open transactions.                                                   *)
(***************************************************************************)
Edit == /\ edits < MaxEdits
        /\ edits' = edits + 1
        /\ UNCHANGED <<req, counted, lookupErrors>>

SetPublished(z) ==
  /\ Edit
  /\ quizzes[z] # "deleted"
  /\ quizzes' = [quizzes EXCEPT ![z] = IF @ = "private" THEN "published"
                                                        ELSE "private"]
  /\ UNCHANGED <<questions, cards, attempts, answers, logs, edited>>

DeleteQuiz(z) ==
  /\ Edit
  /\ quizzes[z] # "deleted"
  /\ \A a \in Attempts : attempts[a].quiz = z => ~AttemptLocked(a)
  /\ quizzes' = [quizzes EXCEPT ![z] = "deleted"]
  /\ questions' = [q \in Questions |->
                     IF QuizOf[q] = z /\ questions[q].life = "live"
                       THEN [questions[q] EXCEPT !.life = "deleted"]
                       ELSE questions[q]]
  /\ attempts' = [a \in Attempts |->
                    IF attempts[a].quiz = z
                      THEN [attempts[a] EXCEPT !.life = "deleted"]
                      ELSE attempts[a]]
  /\ answers' = {r \in answers : attempts[req[r].attempt].quiz # z}
  /\ UNCHANGED <<cards, logs, edited>>

CreateQuestion(q, p) ==
  /\ Edit
  /\ questions[q].life = "free" /\ quizzes[QuizOf[q]] # "deleted"
  /\ CardOf[q] # None => cards[CardOf[q]].life = "live"
  /\ questions' = [questions EXCEPT ![q] = [life |-> "live", points |-> p]]
  /\ edited' = edited \cup {QuizOf[q]}
  /\ UNCHANGED <<quizzes, cards, attempts, answers, logs>>

UpdateQuestion(q, p) ==
  /\ Edit
  /\ questions[q].life = "live" /\ questions[q].points # p
  /\ questions' = [questions EXCEPT ![q].points = p]
  /\ edited' = edited \cup {QuizOf[q]}
  /\ UNCHANGED <<quizzes, cards, attempts, answers, logs>>

DeleteQuestion(q) ==
  /\ Edit
  /\ questions[q].life = "live" /\ ~QuestionReferenced(q)
  /\ questions' = [questions EXCEPT ![q].life = "deleted"]
  /\ answers' = {r \in answers : req[r].question # q}
  /\ UNCHANGED <<quizzes, cards, attempts, logs, edited>>

SetSuspended(c) ==
  /\ Edit
  /\ cards[c].life = "live" /\ ~CardLocked(c)
  /\ cards' = [cards EXCEPT ![c].suspended = ~@]
  /\ UNCHANGED <<quizzes, questions, attempts, answers, logs, edited>>

ResetFSRS(c) ==
  /\ Edit
  /\ cards[c].life = "live" /\ ~CardLocked(c)
  /\ cards' = [cards EXCEPT ![c].fsrs = None]
  /\ UNCHANGED <<quizzes, questions, attempts, answers, logs, edited>>

DeleteCard(c) ==
  /\ Edit
  /\ cards[c].life = "live" /\ ~CardLocked(c)
  /\ cards' = [cards EXCEPT ![c].life = "deleted"]
  /\ logs' = {r \in logs : CardOf[req[r].question] # c}
  /\ UNCHANGED <<quizzes, questions, attempts, answers, edited>>
----------------------------------------------------------------------------
\* What the handler of request r does next, once it is under way.
Step(r) ==
  \/ StartListQuestions(r)
  \/ \E a \in Attempts : StartCreate(r, a)
  \/ \E q \in Questions : SubmitLoadQuestion(r, q)
  \/ SubmitLookup(r) \/ SubmitLookupError(r)
  \/ SubmitWrite(r)
  \/ FSRSLoadCard(r) \/ FSRSApply(r)
  \/ SubmitCommit(r) \/ SubmitCommitFSRS(r) \/ SubmitCommitAborted(r)
  \/ CompleteWrite(r)

Arrive(r) ==
  \E u \in Users :
    \/ \E z \in Quizzes : StartLoadQuiz(r, u, z)
    \/ \E a \in Attempts : SubmitLoadAttempt(r, u, a) \/ CompleteLoadAttempt(r, u, a)

AuthorEdit ==
  \/ \E z \in Quizzes : SetPublished(z) \/ DeleteQuiz(z)
  \/ \E q \in Questions :
       \/ \E p \in Points : CreateQuestion(q, p) \/ UpdateQuestion(q, p)
       \/ DeleteQuestion(q)

CardEdit == \E c \in Cards : SetSuspended(c) \/ ResetFSRS(c) \/ DeleteCard(c)

Next == \/ \E r \in Requests : Arrive(r) \/ Step(r) \/ Fail(r)
        \/ AuthorEdit
        \/ CardEdit

Spec == Init /\ [][Next]_vars

\* Goroutines are scheduled and PostgreSQL wakes the waiters of a row lock.
FairSpec == Spec /\ \A r \in Requests : WF_vars(Step(r))

(***************************************************************************)
(* A client that waits for each reply before it sends the next request     *)
(* about an attempt.                                                       *)
(***************************************************************************)
OneAtATime ==
  \A r, s \in Requests :
    /\ UnderWay(r) /\ UnderWay(s) /\ req[r].attempt = req[s].attempt
    => r = s \/ req[r].attempt = None

SerialSpec == Init /\ [][Next /\ OneAtATime']_vars
----------------------------------------------------------------------------
TypeOK ==
  /\ quizzes \in [Quizzes -> Quiz]
  /\ questions \in [Questions -> Question]
  /\ cards \in [Cards -> Card]
  /\ attempts \in [Attempts -> Attempt]
  /\ answers \subseteq Requests /\ logs \subseteq Requests
  /\ req \in [Requests -> Request]
  /\ counted \in [Attempts -> SUBSET Questions] /\ edited \subseteq Quizzes
  /\ edits \in 0..MaxEdits /\ lookupErrors \in 0..MaxLookupErrors

\* total_questions, the number of questions listed when the attempt started.
TotalQuestions(a) == Cardinality({q \in Questions : attempts[a].listed[q] > 0})

\* Nothing was added to the quiz of attempt a, no points were changed and no
\* duplicate lookup failed.
Undisturbed(a) == attempts[a].quiz \notin edited /\ lookupErrors = 0

(***************************************************************************)
(* However requests interleave, an attempt never shows more right answers  *)
(* than it has questions: SubmitAnswer reads the attempt before it looks   *)
(* for an earlier answer, so what it adds to was counted without it.       *)
(***************************************************************************)
CorrectWithinTotal ==
  \A a \in Attempts : attempts[a].life = "live" /\ Undisturbed(a)
                        => attempts[a].correct <= TotalQuestions(a)

\* The answer of request r is stored, or went with its question or attempt.
Kept(r) == \/ r \in answers
           \/ questions[req[r].question].life = "deleted"
           \/ attempts[req[r].attempt].life = "deleted"

(***************************************************************************)
(* The FSRS state a card shows came from a quiz answer only together with  *)
(* its review log and its answer: what applyFSRSFromQuiz writes and what   *)
(* the transaction around it writes stand or fall together.                *)
(***************************************************************************)
CardStateHasItsLog ==
  \A c \in Cards :
    cards[c].life = "live" /\ cards[c].fsrs # None
      => LET r == cards[c].fsrs
         IN r \in logs /\ CardOf[req[r].question] = c /\ Kept(r)

\* An answer SubmitAnswer reports as submitted is stored, and stays so until
\* its question or its attempt is deleted.
AnswersAcknowledged ==
  \A r \in Requests : req[r].pc = "ok" /\ req[r].kind = "submit" => Kept(r)

\* Deletions leave nothing behind that refers to what they deleted, even when
\* they interleave with a start or an answer that has already read it.
NoOrphans ==
  /\ \A q \in Questions : questions[q].life = "live" => quizzes[QuizOf[q]] # "deleted"
  /\ \A a \in Attempts : attempts[a].life = "live"
                            => quizzes[attempts[a].quiz] # "deleted"
  /\ \A r \in answers : /\ attempts[req[r].attempt].life = "live"
                         /\ questions[req[r].question].life = "live"
  /\ \A r \in logs : cards[CardOf[req[r].question]].life = "live"

\* The rows are those the schema allows, and none refers to a deleted one,
\* whatever starts, answers, completions and edits interleave.
SchemaKept == TypeOK /\ NoOrphans

\* Answering a quiz never suspends or revives a card, though it writes back a
\* card it read earlier: only the FSRS columns are written.
SuspensionKept ==
  [][\A c \in Cards : cards'[c].suspended # cards[c].suspended => req' = req]_vars

(***************************************************************************)
(* A handler that has begun ends: no two of them wait for each other's     *)
(* row locks forever.                                                      *)
(***************************************************************************)
EveryRequestEnds ==
  \A r \in Requests : UnderWay(r) ~> req[r].pc \in Ended
----------------------------------------------------------------------------
(***************************************************************************)
(* What the source says of these handlers and interleavings refute.        *)
(***************************************************************************)

\* ErrAttemptCompleted: an attempt whose completion was acknowledged is
\* completed.  (A SubmitAnswer that read it before writes back NULL.)
CompletedStaysCompleted ==
  \A r \in Requests :
    req[r].pc = "ok" /\ req[r].kind = "complete"
      => attempts[req[r].attempt].completed
         \/ attempts[req[r].attempt].life = "deleted"

\* ErrAlreadyAnswered: an attempt holds one answer to a question.
AnsweredOnce ==
  \A r, s \in answers :
    AnswerTo(s, req[r].attempt, req[r].question) => r = s
----------------------------------------------------------------------------
(***************************************************************************)
(* The inductive invariant of QuizAttemptProofs.                           *)
(***************************************************************************)
Answering(r) == req[r].pc \in {"lookup", "write"} \cup InTx
Handling(r)  == req[r].pc \in {"question", "complete"} \/ Answering(r)
LiveAttempt(a)  == a \in Attempts /\ attempts[a].life = "live"
LiveQuestion(q) == q \in Questions /\ questions[q].life = "live"

RequestOK(r) ==
  /\ req[r].pc \in {"list", "create"} => req[r].quiz \in Quizzes
  /\ Handling(r) \/ (req[r].pc = "ok" /\ req[r].kind = "submit")
       => req[r].attempt \in Attempts /\ attempts[req[r].attempt].life # "free"
  /\ Answering(r) \/ (req[r].pc = "ok" /\ req[r].kind = "submit")
       => /\ req[r].question \in Questions
          /\ QuizOf[req[r].question] = attempts[req[r].attempt].quiz
  /\ Handling(r) => req[r].kind = IF req[r].pc = "complete" THEN "complete"
                                                           ELSE "submit"
  /\ req[r].pc \in InTx
       => LiveAttempt(req[r].attempt) /\ LiveQuestion(req[r].question)
  /\ req[r].pc \in InTx \ {"commit"} => CardOf[req[r].question] \in Cards
  /\ req[r].pc = "commitFSRS" => cards[CardOf[req[r].question]].life = "live"
  /\ r \in answers \cup logs => req[r].pc = "ok" /\ req[r].kind = "submit"
  /\ r \in logs => CardOf[req[r].question] \in Cards

\* The questions Q may be what attempt a counts: each is of its quiz, was
\* listed unless the quiz was edited, and if still there has an answer stored.
MayCount(a, Q) ==
  \A q \in Q : /\ QuizOf[q] = attempts[a].quiz
               /\ questions[q].life # "free"
               /\ attempts[a].quiz \notin edited => attempts[a].listed[q] > 0
               /\ LiveQuestion(q) => \E s \in answers : AnswerTo(s, a, q)

\* What a request is about to add is not in the count it has read.
RequestCounts(r) ==
  /\ Handling(r) /\ lookupErrors = 0
       => req[r].correct = Cardinality(req[r].counted)
  /\ Handling(r) /\ LiveAttempt(req[r].attempt)
       => MayCount(req[r].attempt, req[r].counted)
  /\ /\ Answering(r) /\ req[r].pc # "lookup" /\ lookupErrors = 0
     /\ LiveAttempt(req[r].attempt) /\ LiveQuestion(req[r].question)
     => req[r].question \notin req[r].counted

\* Every question of a quiz nobody edited is among those listed.
ListsAll(z, listed) ==
  z \notin edited => \A q \in Questions : LiveQuestion(q) /\ QuizOf[q] = z
                                            => listed[q] > 0

RequestLists(r) == req[r].pc = "create" => ListsAll(req[r].quiz, req[r].listed)

AttemptOK(a) ==
  /\ IF attempts[a].life = "free" THEN attempts[a].quiz = None /\ counted[a] = {}
                                  ELSE attempts[a].quiz \in Quizzes
  /\ attempts[a].life = "live"
       => /\ lookupErrors = 0 => attempts[a].correct = Cardinality(counted[a])
          /\ MayCount(a, counted[a])
          /\ ListsAll(attempts[a].quiz, attempts[a].listed)

CardsLogged ==
  \A c \in Cards : cards[c].life = "live" /\ cards[c].fsrs # None
                      => /\ cards[c].fsrs \in logs
                         /\ CardOf[req[cards[c].fsrs].question] = c

IInv ==
  /\ TypeOK
  /\ \A r \in Requests : RequestOK(r) /\ RequestCounts(r) /\ RequestLists(r)
  /\ \A a \in Attempts : AttemptOK(a)
  /\ NoOrphans /\ CardsLogged /\ AnswersAcknowledged
============================================================================
