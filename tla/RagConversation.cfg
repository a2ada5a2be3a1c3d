\* Two requests, of one user or of two, and a limit of one question a day.
CONSTANTS
  Users = {u1, u2}
  Conversations = {c1}
  Requests = {r1, r2}
  None = None
  Limit = 1
  HistoryRows = 2
SPECIFICATION FairSpec
INVARIANTS LimitExceededByRacesOnly CountIsMessages RepliesStored AnswersFollowQuestions QuestionNotInItsHistory
PROPERTY EveryRequestEnds
CHECK_DEADLOCK FALSE
