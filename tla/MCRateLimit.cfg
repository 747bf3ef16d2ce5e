CONSTANTS
  login = login
  questions = questions
  a = a
  Rules = {login, questions}
  Clients = {a}
  Limit <- MCLimit
  Window <- MCWindow
  Second = 2
  SweepAt = 0
  MaxTime = 7
SPECIFICATION Spec
INVARIANT WindowLimit
PROPERTY RetryAfterHonoured
PROPERTY RefusedOnlyAtLimit
PROPERTY MemoryFollowsActiveClients
