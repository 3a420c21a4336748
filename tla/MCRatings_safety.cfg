SPECIFICATION FairSpec
CONSTANTS
  x = x
  y = y
  r1 = r1
  r2 = r2
  Users = {x, y}
  Deals = {1, 2}
  Applicant <- ApplicantOf
  Responder <- ResponderOf
  Requests = {r1, r2}
  Job = Job
  MaxCrashes = 2
INVARIANTS TypeOK FlagsHaveRatings
PROPERTIES DoneStaysRated OldDealsGetRated
CHECK_DEADLOCK FALSE
