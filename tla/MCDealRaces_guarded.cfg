SPECIFICATION Spec
CONSTANTS
  a = a
  c1 = c1
  c2 = c2
  c3 = c3
  d1 = d1
  d2 = d2
  d3 = d3
  d4 = d4
  NoDeal = NoDeal
  Deals = {d1, d2, d3, d4}
  Accounts = {a}
  Applicant <- SameReader
  MaxBooks = 1
  Calls = {c1, c2, c3}
  Ops = {"request", "accept", "meet"}
CHECK_DEADLOCK FALSE
SYMMETRY Interchangeable
INVARIANTS HandoverExact OverrunBounded
