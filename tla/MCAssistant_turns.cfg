SPECIFICATION FairSpec
CONSTANTS
  t1 = t1
  t2 = t2
  c1 = c1
  c2 = c2
  Turns = {t1, t2}
  Askers = {t1}
  Replies = {}
  RateLimit = 1
  MaxToolRounds = 2
  MaxMessages = 6
  TurnDeadline = 1
  CallTimeout = 1
  LockTTL = 6
  ConsentTTL = 1
  Slack = 1
INVARIANTS TurnsExclusive ShownIsKept
PROPERTY LockComesFree
CHECK_DEADLOCK FALSE
