SPECIFICATION Spec
CONSTANTS
  r1 = r1
  Top = 2
  MinScore <- SeededScores
  Scores = {0, 50}
  Grace <- OneWeek
  MaxWeeks = 1
  Requests = {r1}
  Job = Job
  Editors = {r1}
  MaxCrashes = 1
INVARIANT ReadingsAgree
CHECK_DEADLOCK FALSE
