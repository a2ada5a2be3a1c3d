------------------------- MODULE QuizAttemptLedger -------------------------
(***************************************************************************)
(* QuizAttempt refines AttemptLedger for a client that sends one request   *)
(* about an attempt at a time, and what scores add up to.                  *)
(***************************************************************************)
EXTENDS QuizAttempt, FiniteSetsExt

AnswersOf(a) == {r \in answers : req[r].attempt = a}
AnsweredIn(a) == {req[r].question : r \in AnswersOf(a)}

LedgerState(a) ==
  IF attempts[a].life = "free" THEN "none"
  ELSE IF attempts[a].life = "deleted" THEN "removed"
  ELSE IF attempts[a].completed THEN "closed" ELSE "open"

EntryOf(a) == [state    |-> LedgerState(a),
               answered |-> AnsweredIn(a),
               score    |-> attempts[a].score,
               correct  |-> attempts[a].correct]

LedgerOf == [a \in Attempts |-> EntryOf(a)]

Ledger == INSTANCE AttemptLedger WITH ledger <- LedgerOf

(***************************************************************************)
(* One request at a time, the handlers keep the ledger's promise: each     *)
(* committed SubmitAnswer is one Answer of a question not yet answered, in *)
(* an attempt still open, and only CompleteAttempt closes it.              *)
(***************************************************************************)
RefinesLedger == Ledger!Spec

Gains == [r \in Requests |-> Gain(r)]

\* No question of the quiz of attempt a was deleted, nor its answers with it.
NoneWithdrawn(a) == \A q \in Questions : QuizOf[q] = attempts[a].quiz
                                           => questions[q].life # "deleted"

\* One request at a time, the score is the sum of the points of the answers
\* stored: no SubmitAnswer overwrites what another one added.
ScoreIsSumOfAnswers ==
  \A a \in Attempts : attempts[a].life = "live" /\ NoneWithdrawn(a)
                        => attempts[a].score = SumFunctionOnSet(Gains, AnswersOf(a))

\* total_points, the points of the questions listed when the attempt started.
TotalPoints(a) == SumFunction(attempts[a].listed)

(***************************************************************************)
(* However requests interleave, the score stays within total_points, for   *)
(* the reason that CorrectWithinTotal gives.                               *)
(***************************************************************************)
ScoreWithinTotal ==
  \A a \in Attempts : attempts[a].life = "live" /\ Undisturbed(a)
                        => attempts[a].score <= TotalPoints(a)
----------------------------------------------------------------------------
(***************************************************************************)
(* The inductive invariant of QuizAttemptLedgerProofs, beside IInv: what a *)
(* request has read of its attempt is still so, and the answer it is about *)
(* to store is the first to its question.  A duplicate lookup that fails   *)
(* lets a second one through.                                              *)
(***************************************************************************)
NoLookupError == lookupErrors = 0

Writing(r) == req[r].pc \in {"write"} \cup InTx

SerialOK(r) ==
  /\ Handling(r) /\ LiveAttempt(req[r].attempt)
       => /\ ~attempts[req[r].attempt].completed
          /\ req[r].score = attempts[req[r].attempt].score
          /\ req[r].correct = attempts[req[r].attempt].correct
  /\ Writing(r) /\ LiveAttempt(req[r].attempt)
       => ~ \E s \in answers : AnswerTo(s, req[r].attempt, req[r].question)
  /\ Answering(r) => req[r].points \in Points

SerialIInv == /\ OneAtATime
              /\ \A r \in Requests : SerialOK(r)
              /\ \A a \in Attempts : attempts[a].life = "free"
                                       => attempts[a] = FreeAttempt
----------------------------------------------------------------------------
(***************************************************************************)
(* The inductive invariant behind ScoreWithinTotal, beside IInv: a score   *)
(* is the sum of what was listed for the questions it counts, and the      *)
(* points a request has read are those listed.                             *)
(***************************************************************************)
ListsPoints(z, listed) ==
  z \notin edited => \A q \in Questions : LiveQuestion(q) /\ QuizOf[q] = z
                                            => listed[q] = questions[q].points

ScoreOf(a, Q) == SumFunctionOnSet(attempts[a].listed, Q)

RequestScores(r) ==
  /\ req[r].pc = "create" => ListsPoints(req[r].quiz, req[r].listed)
  /\ Handling(r) /\ LiveAttempt(req[r].attempt)
       => /\ Undisturbed(req[r].attempt)
               => req[r].score = ScoreOf(req[r].attempt, req[r].counted)
          /\ Answering(r) /\ attempts[req[r].attempt].quiz \notin edited
               => req[r].points = attempts[req[r].attempt].listed[req[r].question]

AttemptScores(a) ==
  attempts[a].life = "live"
    => /\ ListsPoints(attempts[a].quiz, attempts[a].listed)
       /\ Undisturbed(a) => attempts[a].score = ScoreOf(a, counted[a])

ScoreIInv == /\ \A r \in Requests : RequestScores(r)
             /\ \A a \in Attempts : AttemptScores(a)

(***************************************************************************)
(* The inductive invariant behind ScoreIsSumOfAnswers, beside IInv.        *)
(***************************************************************************)
ScoreIsCurrent(r) ==
  Handling(r) /\ LiveAttempt(req[r].attempt)
    => req[r].score = attempts[req[r].attempt].score

SumsOK == /\ IsFiniteSet(answers) /\ ScoreIsSumOfAnswers
          /\ \A r \in Requests : ScoreIsCurrent(r)

SumIInv == OneAtATime /\ SumsOK
============================================================================
