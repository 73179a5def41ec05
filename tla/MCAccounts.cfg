SPECIFICATION MCSpec
CONSTANTS
  Clients = {c1, c2}
  Emails = {e1}
  MaxUsers = 2
  MaxSessions = 2
  MaxFailures = 2
  LockTime = 1
  SessionTime = 2
  MaxTime = 1
  NoEmail = NoEmail
  Never = Never
  Callers = {a1, a2}
  Keys = {k1, k2, Unknown}
  Unknown = Unknown
  MaxDeaths = 2
INVARIANTS TypesOK GuessesAreBounded AccountsAreDistinct RevocationHolds
CHECK_DEADLOCK FALSE
