\* A submission overtaken by the completion of its attempt.
CONSTANTS
  u1 = u1  z1 = z1  q1 = q1  q2 = q2  c1 = c1
  Users = {u1}
  Quizzes = {z1}
  Questions = {q1, q2}
  Cards = {c1}
  Attempts = {a1}
  Requests = {r1, r2}
  OwnerOf <- OneQuizOwner
  QuizOf <- OneQuizOf
  CardOf <- FirstLinked
  None = None
  MaxPoints = 2
  MaxEdits = 0
  MaxLookupErrors = 0
SYMMETRY RequestSymmetry
SPECIFICATION Spec
INVARIANT CompletedStaysCompleted
CHECK_DEADLOCK FALSE
