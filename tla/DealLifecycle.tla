---------------------------- MODULE DealLifecycle ----------------------------
(***************************************************************************)
(* The life of the exchange: shared books, the deals made about them, the  *)
(* ratings that follow, the daily due-date job and the way back.           *)
(*                                                                         *)
(* Sources: deals/services/deal_service.py, rating_service.py and          *)
(* overdue_service.py, deals/models/deal.py, books/services/               *)
(* book_service.py.  Every action is one call of a service function, taken *)
(* as one atomic step; what happens when two calls overlap is the subject  *)
(* of DealRaces.  Calls that raise change nothing and are no action: their *)
(* early returns and raises are the guards.                                *)
(*                                                                         *)
(* Definitions introduced by "Slip:" are no part of the specification:     *)
(* each is a plausible mistake in the definition that follows it, kept to  *)
(* see that the properties notice.                                         *)
(***************************************************************************)
EXTENDS Integers, FiniteSets, BookFSM

CONSTANTS
  Users,        \* accounts
  Books,        \* shared books
  Deals,        \* rows of the deal table still to be used: bounds a behaviour
  Owner,        \* Owner[b]: the contributor of a book, never changes
  SetOf,        \* SetOf[b]: the books of b's book set, {} when b is in no set
  Restricted,   \* accounts in the group "restricted" or "banned"
  Levels,       \* trust levels in use, a part of 0..3
  MaxBooks,     \* MaxBooks[l]: open deals a borrower of level l may have
  LoanDays,     \* loan durations an owner may choose
  MaxDay,       \* bound on the calendar
  NoDate        \* due_date IS NULL

ASSUME SizeAssumption ==
  /\ IsFiniteSet(Deals) /\ Books # {}
  /\ Owner \in [Books -> Users]
  /\ SetOf \in [Books -> SUBSET Books]
  /\ Restricted \subseteq Users
ASSUME NumberAssumption ==
  /\ Levels # {} /\ Levels \subseteq Nat
  /\ MaxBooks \in [Levels -> Nat]
  /\ LoanDays # {} /\ LoanDays \subseteq Nat
  /\ MaxDay \in Nat /\ NoDate \notin Nat

VARIABLES
  book,      \* the shared-book table
  deal,      \* the deal table; status "-" marks a row not yet inserted
  level,     \* trust level of each account (its trust_lv group)
  overdue,   \* UserProfile.overdue_count
  today      \* the calendar day

vars == <<book, deal, level, overdue, today>>
-----------------------------------------------------------------------------
DealType == {"LN", "RS", "TF", "RG", "EX"}
DealStatus == {"-", "Q", "P", "M", "D", "X"}
Borrowing == {"LN", "TF"}
Open == {"Q", "P", "M"}
Transferability == {"RETURN", "TRANSFER"}

BookRow == [status : BookStatus, keeper : Users, transferability : Transferability,
            minTrust : Levels, loanDays : LoanDays]

DealRow == [type : DealType, status : DealStatus, book : Books,
            applicant : Users, responder : Users, prev : BookStatus,
            due : Nat \cup {NoDate}, applicantRated : BOOLEAN, responderRated : BOOLEAN]

Unused ==
  LET b == CHOOSE b \in Books : TRUE
  IN  [type |-> "LN", status |-> "-", book |-> b, applicant |-> Owner[b],
       responder |-> Owner[b], prev |-> "S", due |-> NoDate,
       applicantRated |-> FALSE, responderRated |-> FALSE]

TypeOK ==
  /\ book \in [Books -> BookRow]
  /\ deal \in [Deals -> DealRow]
  /\ level \in [Users -> Levels]
  /\ overdue \in [Users -> Nat]
  /\ today \in Nat

Init ==
  /\ book \in [Books -> {r \in BookRow : r.status = "S"}]
  /\ \A b \in Books : book[b].keeper = Owner[b]
  /\ deal = [d \in Deals |-> Unused]
  /\ level \in [Users -> Levels]
  /\ overdue = [u \in Users |-> 0]
  /\ today = 0
-----------------------------------------------------------------------------
(* Helpers *)

OpenDealsOf(u) == {d \in Deals : deal[d].applicant = u /\ deal[d].status \in Open}

\* Slip: one rating is taken for both.
EitherRated(d) == deal[d].applicantRated \/ deal[d].responderRated
BothRated(d) == deal[d].applicantRated /\ deal[d].responderRated

\* update_trust_score recomputes a member's stars and trust group from data
\* this module does not keep: for the members of S any level may result.
TrustRefresh(S) ==
  level' \in {f \in [Users -> Levels] : \A u \in Users \ S : f[u] = level[u]}

\* DEAL_TYPE_TRANSFERABILITY; an exception deal fits every book.
FitsTransferability(ty, transferability) ==
  CASE ty \in {"LN", "RS"} -> transferability = "RETURN"
    [] ty \in {"TF", "RG"} -> transferability = "TRANSFER"
    [] ty = "EX" -> TRUE

\* DEAL_TYPE_REQUIRED_STATUS, and the statuses an exception is accepted in.
RequiredStatus(ty) ==
  CASE ty \in {"LN", "TF", "RG"} -> {"T"}
    [] ty = "RS" -> {"R"}
    [] ty = "EX" -> {"T", "O", "R"}

\* validate_deal_applicant: who may open a deal of each type.
RightApplicant(u, b, ty) ==
  CASE ty = "RG" -> u = Owner[b]
    [] ty \in {"RS", "EX"} -> u = book[b].keeper
    [] ty \in Borrowing -> u \notin {Owner[b], book[b].keeper}

\* _get_responder.
Responder(b, ty) == IF ty \in {"LN", "RS", "EX"} THEN Owner[b] ELSE book[b].keeper

\* Slip: the limit compared with <=.
MayBorrowOneMore(u, b) ==
  /\ u \notin Restricted
  /\ level[u] >= book[b].minTrust
  /\ Cardinality(OpenDealsOf(u)) <= MaxBooks[level[u]]

\* The trust gate of create_deal, for borrowing only.
MayBorrow(u, b) ==
  /\ u \notin Restricted
  /\ level[u] >= book[b].minTrust
  /\ Cardinality(OpenDealsOf(u)) < MaxBooks[level[u]]

\* validate_book_set_completeness (vacuous outside a set).
SetComplete(b) == \A c \in SetOf[b] : book[c].status = "T"

\* Everything create_deal checks before it inserts the row.
MayCreate(u, b, ty) ==
  /\ ty \in Borrowing => MayBorrow(u, b) /\ SetComplete(b)
  /\ RightApplicant(u, b, ty)
  /\ FitsTransferability(ty, book[b].transferability)
  /\ book[b].status \in RequiredStatus(ty)

\* Slip: the deal's own status stored as the previous book status.
NewDealMixedUp(u, b, ty) ==
  [type |-> ty, status |-> "Q", book |-> b, applicant |-> u,
   responder |-> Responder(b, ty), prev |-> "Q", due |-> NoDate,
   applicantRated |-> FALSE, responderRated |-> FALSE]

\* The row create_deal inserts.
NewDeal(u, b, ty) ==
  [type |-> ty, status |-> "Q", book |-> b, applicant |-> u,
   responder |-> Responder(b, ty), prev |-> book[b].status,
   due |-> IF ty \in Borrowing THEN today + book[b].loanDays ELSE NoDate,
   applicantRated |-> FALSE, responderRated |-> FALSE]
-----------------------------------------------------------------------------
(* Opening and closing a request *)

CreateDeal(u, b, ty, d) ==
  /\ deal[d].status = "-"
  /\ MayCreate(u, b, ty)
  /\ deal' = [deal EXCEPT ![d] = NewDeal(u, b, ty)]
  /\ UNCHANGED <<book, level, overdue, today>>

CreateException(u, b, d) ==
  /\ deal[d].status = "-"
  /\ MayCreate(u, b, "EX")
  /\ deal' = [deal EXCEPT ![d] = NewDeal(u, b, "EX")]
  /\ book' = [book EXCEPT ![b].status = "E"]
  /\ UNCHANGED <<level, overdue, today>>

\* Slip: only the same applicant's other requests are superseded.
SiblingsOfApplicant(d) ==
  {s \in Deals \ {d} : /\ deal[s].status = "Q" /\ deal[s].book = deal[d].book
                       /\ deal[s].applicant = deal[d].applicant}

\* The other requests about d's book, which accepting d cancels.
Siblings(d) == {s \in Deals \ {d} : deal[s].status = "Q" /\ deal[s].book = deal[d].book}

CanAccept(d) ==
  /\ deal[d].status = "Q"
  /\ book[deal[d].book].status \in DealTransitions.reserve.from

\* Slip: the keeper changes on acceptance, before the meeting.
AcceptAndHandOver(d) ==
  /\ CanAccept(d)
  /\ deal' = [deal EXCEPT ![d].status = "P"]
  /\ book' = [book EXCEPT ![deal[d].book].status = "V",
                          ![deal[d].book].keeper = deal[d].applicant]
  /\ UNCHANGED <<level, overdue, today>>

AcceptDeal(d) ==
  /\ CanAccept(d)
  /\ deal' = [s \in Deals |-> CASE s = d -> [deal[s] EXCEPT !.status = "P"]
                                [] s \in Siblings(d) -> [deal[s] EXCEPT !.status = "X"]
                                [] OTHER -> deal[s]]
  /\ book' = [book EXCEPT ![deal[d].book].status = "V"]
  /\ UNCHANGED <<level, overdue, today>>

DeclineDeal(d) ==
  /\ deal[d].status = "Q"
  /\ deal' = [deal EXCEPT ![d].status = "X"]
  /\ UNCHANGED <<book, level, overdue, today>>

\* Slip: a deal may still be cancelled after it was accepted.
CancelAccepted(d) ==
  /\ deal[d].status \in {"Q", "P"}
  /\ deal' = [deal EXCEPT ![d].status = "X"]
  /\ book' = [book EXCEPT ![deal[d].book].status = deal[d].prev]
  /\ UNCHANGED <<level, overdue, today>>

\* cancel_request writes the remembered status over whatever the book is in.
CancelDeal(d) ==
  /\ deal[d].status = "Q"
  /\ deal' = [deal EXCEPT ![d].status = "X"]
  /\ book' = [book EXCEPT ![deal[d].book].status = deal[d].prev]
  /\ UNCHANGED <<level, overdue, today>>
-----------------------------------------------------------------------------
(* Handing the book over *)

\* The book transition complete_meeting calls (MEET_STATUS_MAP).
MeetTransition(ty) ==
  CASE ty \in Borrowing -> DealTransitions.mark_as_borrowed
    [] ty \in {"RS", "RG"} -> DealTransitions.mark_as_suspended
    [] ty = "EX" -> ListingTransitions.declare_exception

CanMeet(d) ==
  /\ deal[d].status = "P"
  /\ book[deal[d].book].status \in MeetTransition(deal[d].type).from

KeeperAfterMeeting(d) ==
  CASE deal[d].type \in Borrowing -> deal[d].applicant
    [] deal[d].type \in {"RS", "RG"} -> deal[d].responder
    [] deal[d].type = "EX" -> book[deal[d].book].keeper

CompleteMeeting(d) ==
  LET b == deal[d].book
  IN  /\ CanMeet(d)
      /\ book' = [book EXCEPT ![b].status = MeetTransition(deal[d].type).to,
                              ![b].keeper = KeeperAfterMeeting(d)]
      /\ deal' = [deal EXCEPT ![d].status = "M",
                              ![d].due = IF deal[d].type \in Borrowing
                                         THEN today + book[b].loanDays
                                         ELSE @]
      /\ UNCHANGED <<level, overdue, today>>

\* create_rating: the applicant's branch is tried first, so in a deal of one
\* person with himself the responder's flag is out of reach.
RatesAsApplicant(d, u) == u = deal[d].applicant /\ ~deal[d].applicantRated
RatesAsResponder(d, u) ==
  u # deal[d].applicant /\ u = deal[d].responder /\ ~deal[d].responderRated

\* Slip: the second rating closes the deal, as BR-9 reads.
RateAndComplete(d, u) ==
  /\ deal[d].status = "M"
  /\ \/ /\ RatesAsApplicant(d, u)
        /\ deal' = [deal EXCEPT ![d].applicantRated = TRUE,
                                ![d].status = IF deal[d].responderRated THEN "D" ELSE @]
     \/ /\ RatesAsResponder(d, u)
        /\ deal' = [deal EXCEPT ![d].responderRated = TRUE,
                                ![d].status = IF deal[d].applicantRated THEN "D" ELSE @]
  /\ UNCHANGED <<book, level, overdue, today>>

CreateRating(d, u) ==
  /\ deal[d].status \in {"M", "D"}
  /\ \/ /\ RatesAsApplicant(d, u)
        /\ deal' = [deal EXCEPT ![d].applicantRated = TRUE]
        /\ TrustRefresh({deal[d].responder})
     \/ /\ RatesAsResponder(d, u)
        /\ deal' = [deal EXCEPT ![d].responderRated = TRUE]
        /\ TrustRefresh({deal[d].applicant})
  /\ UNCHANGED <<book, overdue, today>>
-----------------------------------------------------------------------------
(* The daily due-date job *)

\* Slip: strictly past the due date.
OverdueDeals ==
  {d \in Deals : /\ deal[d].status = "M" /\ deal[d].due # NoDate
                 /\ deal[d].due < today
                 /\ book[deal[d].book].status = "O"}

\* The join batch_process_due_books reads once, before it touches any row.
DueDeals ==
  {d \in Deals : /\ deal[d].status = "M" /\ deal[d].due # NoDate
                 /\ deal[d].due <= today
                 /\ book[deal[d].book].status = "O"}
DueBooks == {deal[d].book : d \in DueDeals}
LateKeepers ==
  {book[b].keeper : b \in {c \in DueBooks : book[c].transferability = "RETURN"}}

\* One count per deal of the batch, charged to the book's present keeper.
LateDealsOf(u) ==
  {d \in DueDeals : /\ book[deal[d].book].transferability = "RETURN"
                    /\ book[deal[d].book].keeper = u}

ProcessDueBooks ==
  /\ DueDeals # {}
  /\ book' = [b \in Books |->
                IF b \notin DueBooks THEN book[b]
                ELSE [book[b] EXCEPT !.status =
                        IF book[b].transferability = "RETURN" THEN "R" ELSE "T"]]
  /\ overdue' = [u \in Users |-> overdue[u] + Cardinality(LateDealsOf(u))]
  /\ TrustRefresh(LateKeepers)
  /\ UNCHANGED <<deal, today>>
-----------------------------------------------------------------------------
(* The way back *)

\* get_force_return_receiver.
ForceReceiver(d) ==
  IF deal[d].type = "TF" THEN deal[d].applicant ELSE Owner[deal[d].book]

\* can_confirm_return.
MayConfirm(d, u, force) == u = IF force THEN ForceReceiver(d) ELSE deal[d].responder

ForceAllowed(d) ==
  /\ deal[d].type # "TF"
  /\ deal[d].type \in {"LN", "RS", "RG"} => deal[d].due # NoDate /\ today > deal[d].due
  \* the missing ratings are written by create_rating, which refuses the
  \* second rating of a deal of one person with himself
  /\ deal[d].responderRated \/ deal[d].applicant # deal[d].responder

ConfirmReturn(d, u, force) ==
  LET b == deal[d].book
  IN  /\ deal[d].status = "M"
      /\ MayConfirm(d, u, force)
      /\ IF force THEN ForceAllowed(d) ELSE BothRated(d)
      /\ book[b].transferability = "RETURN" \/ deal[d].type \in {"TF", "RG"}
      /\ book[b].status \in DealTransitions.mark_as_returned.from
      /\ book' = [book EXCEPT ![b].status = "T", ![b].keeper = Owner[b]]
      /\ deal' = [deal EXCEPT ![d].status = "D",
                              ![d].applicantRated = @ \/ force,
                              ![d].responderRated = @ \/ force]
      /\ TrustRefresh({deal[d].applicant, deal[d].responder})
      /\ UNCHANGED <<overdue, today>>

\* resolve_exception_deal; the owner reports what became of the book.
ResolveException(d, resolution) ==
  LET b == deal[d].book
  IN  /\ deal[d].type = "EX" /\ deal[d].status \in Open
      /\ book[b].status = "E"
      /\ book' = [book EXCEPT ![b].status = ListingTransitions[resolution].to,
                              ![b].keeper = IF resolution = "mark_as_found"
                                            THEN Owner[b] ELSE @]
      /\ deal' = [deal EXCEPT ![d].status = "D"]
      /\ UNCHANGED <<level, overdue, today>>
-----------------------------------------------------------------------------
(* The owner's own calls, the trust job, the calendar *)

ToggleListing(b) ==
  /\ \/ book[b].status = "S" /\ book' = [book EXCEPT ![b].status = "T"]
     \/ book[b].status = "T" /\ book' = [book EXCEPT ![b].status = "S"]
  /\ UNCHANGED <<deal, level, overdue, today>>

\* update_book: no condition on the book's status or on its open deals.
UpdateBook(b, transferability, minTrust, loanDays) ==
  /\ book' = [book EXCEPT ![b].transferability = transferability,
                          ![b].minTrust = minTrust, ![b].loanDays = loanDays]
  /\ UNCHANGED <<deal, level, overdue, today>>

RecalculateTrust ==
  /\ TrustRefresh(Users)
  /\ UNCHANGED <<book, deal, overdue, today>>

NextDay ==
  /\ today < MaxDay
  /\ today' = today + 1
  /\ UNCHANGED <<book, deal, level, overdue>>

Next ==
  \/ \E u \in Users, b \in Books, ty \in DealType, d \in Deals : CreateDeal(u, b, ty, d)
  \/ \E u \in Users, b \in Books, d \in Deals : CreateException(u, b, d)
  \/ \E d \in Deals : AcceptDeal(d)
  \/ \E d \in Deals : DeclineDeal(d)
  \/ \E d \in Deals : CancelDeal(d)
  \/ \E d \in Deals : CompleteMeeting(d)
  \/ \E d \in Deals, u \in Users : CreateRating(d, u)
  \/ ProcessDueBooks
  \/ \E d \in Deals, u \in Users, force \in BOOLEAN : ConfirmReturn(d, u, force)
  \/ \E d \in Deals, r \in {"mark_as_lost", "mark_as_destroyed", "mark_as_found"} :
        ResolveException(d, r)
  \/ \E b \in Books : ToggleListing(b)
  \/ \E b \in Books, tr \in Transferability, mt \in Levels, ld \in LoanDays :
        UpdateBook(b, tr, mt, ld)
  \/ RecalculateTrust
  \/ NextDay

Spec == Init /\ [][Next]_vars

\* Celery beat runs the due-date job every day.
FairSpec == Spec /\ WF_vars(ProcessDueBooks)
=============================================================================
