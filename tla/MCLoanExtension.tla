--------------------------- MODULE MCLoanExtension ---------------------------
(* Small instance of LoanExtension for TLC. *)
EXTENDS LoanExtension

CONSTANTS o, r1, r2, c1, c2

\* The owner lends to one reader after the other.
ApplicantOf == [d \in Deals |-> IF d = 1 THEN r1 ELSE r2]
=============================================================================
