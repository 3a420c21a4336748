SPECIFICATION FairSpec
CONSTANTS
  o = o
  r1 = r1
  r2 = r2
  c1 = c1
  c2 = c2
  Users = {o, r1, r2}
  Owner = o
  Deals = {1}
  Applicant <- ApplicantOf
  Extensions = {1, 2}
  Requests = {c1, c2}
  AskedDays = {6, 7, 30}
  MinExtraDays = 7
  MaxExtraDays = 30
  LoanDays = 30
INVARIANTS TypeOK PendingCheckHolds DueIsMeetingPlusApproved
PROPERTIES DecidedOnce EveryCallEnds
CHECK_DEADLOCK FALSE
