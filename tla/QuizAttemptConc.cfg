\* Two requests race on one attempt at a quiz of which one question is made from a
\* card, of its owner and of another user, while authors edit; scheduling is fair.
CONSTANTS
  u1 = u1  z1 = z1  q1 = q1  q2 = q2  c1 = c1
  Users = {u1, u2}
  Quizzes = {z1}
  Questions = {q1, q2}
  Cards = {c1}
  Attempts = {a1}
  Requests = {r1, r2}
  OwnerOf <- OneQuizOwner
  QuizOf <- OneQuizOf
  CardOf <- FirstLinked
  None = None
  MaxPoints = 2
  MaxEdits = 1
  MaxLookupErrors = 1
SPECIFICATION FairSpec
INVARIANTS SchemaKept CorrectWithinTotal ScoreWithinTotal CardStateHasItsLog AnswersAcknowledged
PROPERTY EveryRequestEnds
CHECK_DEADLOCK FALSE
