\* A batch in which the statement of one item fails.
CONSTANTS
  Users = {u1}
  Sessions = {s1}
  Cards = {c1, c2}
  Requests = {r1, r2}
  None = None
  SentStates = {"learning"}
  MaxItems = 2
  MaxEdits = 1
SPECIFICATION Spec
INVARIANT BatchSurvivesItems
CHECK_DEADLOCK FALSE
