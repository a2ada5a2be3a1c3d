\* Two requests, batches among them, race on one session and its cards, of one
\* user or of two; scheduling is fair.
CONSTANTS
  Users = {u1, u2}
  Sessions = {s1}
  Cards = {c1, c2}
  Requests = {r1, r2}
  None = None
  SentStates = {"learning"}
  MaxItems = 2
  MaxEdits = 1
SPECIFICATION FairSpec
INVARIANTS CountsWithinReviews CardStateHasItsLog ReviewsAcknowledged
PROPERTIES EndedStaysEnded EveryRequestEnds
CHECK_DEADLOCK FALSE
