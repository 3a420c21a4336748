------------------------------ MODULE MCRatings ------------------------------
(* Small instances of Ratings for TLC. *)
EXTENDS Ratings

CONSTANTS x, y, r1, r2

\* Deal 1 is between two people; the others are y's with himself, as when an
\* owner who has the book regresses it.
ApplicantOf == [d \in Deals |-> IF d = 1 THEN x ELSE y]
ResponderOf == [d \in Deals |-> y]
=============================================================================
