----------------------------- MODULE MCStanding -----------------------------
(* Small instances of Standing for TLC. *)
EXTENDS Standing

CONSTANTS r1

OneWeek == [l \in Levels |-> 1]

\* What migration 0012 puts into TrustLevelConfig.
SeededScores == [l \in Levels |-> IF l = 0 THEN 0 ELSE IF l = 1 THEN 100 ELSE 400]
=============================================================================
