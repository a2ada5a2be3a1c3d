\* One request at a time about a session, while owners edit the cards.
CONSTANTS
  Users = {u1}
  Sessions = {s1}
  Cards = {c1, c2}
  Requests = {r1, r2, r3}
  None = None
  SentStates = {"learning", "relearning"}
  MaxItems = 2
  MaxEdits = 1
SYMMETRY Symmetry
SPECIFICATION SerialSpec
INVARIANT CountsAreExact
PROPERTY RefinesLedger
CHECK_DEADLOCK FALSE
