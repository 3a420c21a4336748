SPECIFICATION Spec
CONSTANTS
  t1 = t1
  t2 = t2
  c1 = c1
  c2 = c2
  Turns = {t1, t2}
  Askers = {t1}
  Replies = {c1, c2}
  RateLimit = 1
  MaxToolRounds = 1
  MaxMessages = 4
  TurnDeadline = 0
  CallTimeout = 1
  LockTTL = 2
  ConsentTTL = 2
  Slack = 0
SYMMETRY Symmetric
INVARIANTS TypeOK ConsentSpentOnce
CHECK_DEADLOCK FALSE
