--------------------------- MODULE DealProperties ---------------------------
(***************************************************************************)
(* What the exchange of DealLifecycle promises and the code keeps,         *)
(* whatever the order of the calls.  Requests that overlap inside a call   *)
(* are the subject of DealRaces.                                           *)
(***************************************************************************)
EXTENDS DealLifecycle

DealsOn(b) == {d \in Deals : deal[d].status # "-" /\ deal[d].book = b}
AcceptedOn(b) == {d \in DealsOn(b) : deal[d].status = "P"}

-----------------------------------------------------------------------------
\* A book is reserved exactly when one accepted deal waits for its meeting,
\* and then no request for it is still pending: accept_deal, the sibling
\* cancellation of BR-15, the listing calls, the due-date job and the status
\* a cancelled request writes back never leave an accepted deal without its
\* book, two accepted deals on one book, or a reserved book without a deal.
ReservationExact ==
  \A b \in Books :
    /\ book[b].status = "V" <=> AcceptedOn(b) # {}
    /\ \A d, e \in AcceptedOn(b) : d = e
    /\ book[b].status = "V" => \A d \in DealsOn(b) : deal[d].status # "Q"

\* Whoever holds a book that is not his own met for it: the keeper is the
\* owner or the borrower of a loan or transfer of this book that reached its
\* meeting.  Regress deals copy the keeper of the day they were requested
\* and write it back at a later meeting, so this ties two moments together.
KeeperAccounted ==
  \A b \in Books :
    \/ book[b].keeper = Owner[b]
    \/ \E d \in DealsOn(b) : /\ deal[d].type \in Borrowing
                             /\ deal[d].status \in {"M", "D"}
                             /\ deal[d].applicant = book[b].keeper

\* A finished deal that is not an exception was met for and rated by both
\* sides (Deal.complete's condition survives forced returns, which write the
\* missing ratings), and no deal is rated while it is still Q, P or X.
FinishedDealsAreRated ==
  \A d \in Deals :
    /\ deal[d].status = "D" /\ deal[d].type # "EX" =>
          deal[d].applicantRated /\ deal[d].responderRated
    /\ deal[d].applicantRated \/ deal[d].responderRated =>
          deal[d].status \in {"M", "D"}

\* An account never has more borrowing deals open than some trust level
\* allows: create_deal counts before it inserts, and no other step opens one.
LoanLimit ==
  \A u \in Users : \E l \in Levels :
    Cardinality({d \in OpenDealsOf(u) : deal[d].type \in Borrowing}) <= MaxBooks[l]

\* BR-17: a loan is marked done only in a step that brings a lent book back
\* to its owner's hands and onto the shelf.
LoanEndsInReturn ==
  [][\A d \in Deals :
       deal[d].type = "LN" /\ deal[d].status # "D" /\ deal'[d].status = "D"
         => LET b == deal[d].book
            IN  /\ book[b].status = "O" /\ book'[b].status = "T"
                /\ book'[b].keeper = Owner[b]]_vars

\* A lent book whose deal has come due does not stay lent: the daily job, or
\* a return before it, takes it out of "O".  (The job swallows an error in one
\* deal, overdue_service.py:158; that its own step succeeds is assumed.)
DueBookIsProcessed ==
  \A d \in Deals :
    (/\ deal[d].status = "M" /\ deal[d].type \in Borrowing /\ deal[d].due <= today
     /\ book[deal[d].book].status = "O")
      ~> (book[deal[d].book].status # "O")
=============================================================================
