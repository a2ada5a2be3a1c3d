\* Requests of a few accounts, before, between and beside each other.
CONSTANTS
  Users = {u1, u2}
  Emails = {e1, e2}
  Identities = {i1}
  Requests = {r1, r2, r3}
  Old = Old
  None = None
  OTPMaxAttempts = 1
  LoginLockoutMaxFails = 1
  RequireEmailVerified = TRUE
  MaxFaults = 1
SYMMETRY Symmetry
SPECIFICATION Spec
INVARIANTS SchemaKept ReplacedIsRevoked OnlyLastWorks SessionsKnowPassword GuessesBounded
PROPERTY ClosedStaysClosed
CHECK_DEADLOCK FALSE
