\* Two requests, of one user or of two, around one deck and one quiz.
CONSTANTS
  Users = {u1, u2}
  Decks = {d1, d2, d3}
  Names = {n1, n2}
  Cards = {c1, c2, c3, c4}
  Quizzes = {z1, z2}
  Questions = {q1, q2, q3, q4}
  Media = {m1, m2}
  Requests = {r1, r2}
  Old = Old
  None = None
  BatchItems = 2
  MaxFaults = 1
SYMMETRY Symmetry
SPECIFICATION Spec
INVARIANTS SchemaKept MediaInStep KeysDistinct
PROPERTIES InsertedWhole EditsTouchTheirOwn
CHECK_DEADLOCK FALSE
