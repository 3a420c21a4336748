SPECIFICATION FairSpec
CONSTANTS
  r1 = r1
  Top = 2
  MinScore <- SeededScores
  Scores = {0, 100, 400}
  Grace <- OneWeek
  MaxWeeks = 1
  Requests = {r1}
  Job = Job
  Editors = {r1}
  MaxCrashes = 1
INVARIANTS TypeOK KeepsALevel OneLevel
PROPERTIES GraceKept LevelSettles
CHECK_DEADLOCK FALSE
