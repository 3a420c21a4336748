SPECIFICATION FairSpec
CONSTANTS
  a = a
  c1 = c1
  c2 = c2
  c3 = c3
  d1 = d1
  d2 = d2
  d3 = d3
  d4 = d4
  NoDeal = NoDeal
  Deals = {d1, d2}
  Accounts = {a}
  Applicant <- SameReader
  MaxBooks = 2
  Calls = {c1, c2}
  Ops = {"request", "accept", "cancel", "meet", "return", "save"}
CHECK_DEADLOCK FALSE
INVARIANT TypeOK
PROPERTIES AcceptsTakeTheBook ReturnsCloseOnce EveryCallEnds
