------------------------ MODULE DealLifecycle_proofs ------------------------
(***************************************************************************)
(* Proofs about DealLifecycle for any number of accounts, books, deals,    *)
(* sets and trust levels, and an unbounded calendar.                       *)
(***************************************************************************)
EXTENDS DealProperties, FiniteSetTheorems, TLAPS

-----------------------------------------------------------------------------
(* Typing *)

LEMMA UnusedTyped == Unused \in DealRow
<1>1. PICK b \in Books : b = CHOOSE c \in Books : TRUE
  BY SizeAssumption
<1>2. Owner[b] \in Users
  BY SizeAssumption
<1> QED
  BY <1>1, <1>2 DEF Unused, DealRow, DealType, DealStatus, BookStatus

LEMMA DueDateTyped ==
  ASSUME TypeOK, NEW b \in Books
  PROVE  today + book[b].loanDays \in Nat
<1>1. book[b].loanDays \in LoanDays /\ LoanDays \subseteq Nat
  BY NumberAssumption DEF TypeOK, BookRow
<1>2. book[b].loanDays \in Nat /\ today \in Nat
  BY <1>1 DEF TypeOK
<1> QED
  BY <1>2

LEMMA NewDealTyped ==
  ASSUME TypeOK, NEW u \in Users, NEW b \in Books, NEW ty \in DealType
  PROVE  NewDeal(u, b, ty) \in DealRow
<1>1. /\ book[b] \in BookRow /\ Owner[b] \in Users
  BY SizeAssumption DEF TypeOK
<1>2. Responder(b, ty) \in Users
  BY <1>1 DEF Responder, BookRow
<1>3. today + book[b].loanDays \in Nat
  BY DueDateTyped
<1>4. (IF ty \in Borrowing THEN today + book[b].loanDays ELSE NoDate) \in Nat \cup {NoDate}
  BY <1>3
<1> QED
  BY <1>1, <1>2, <1>4 DEF NewDeal, DealRow, BookRow, DealStatus

LEMMA LateDealsCount ==
  ASSUME NEW u \in Users
  PROVE  Cardinality(LateDealsOf(u)) \in Nat
<1>1. LateDealsOf(u) \subseteq Deals
  BY DEF LateDealsOf, DueDeals
<1> QED
  BY <1>1, SizeAssumption, FS_Subset, FS_CardinalityType

\* Writing a status or a rating flag keeps a row of the deal table a row.
LEMMA RowWrites ==
  ASSUME NEW r \in DealRow
  PROVE  /\ [r EXCEPT !.applicantRated = TRUE] \in DealRow
         /\ [r EXCEPT !.responderRated = TRUE] \in DealRow
         /\ \A force \in BOOLEAN :
              [r EXCEPT !.status = "D", !.applicantRated = @ \/ force,
                        !.responderRated = @ \/ force] \in DealRow
BY Zenon DEF DealRow, DealStatus

LEMMA InitTyped == Init => TypeOK
<1> SUFFICES ASSUME Init PROVE TypeOK
  OBVIOUS
<1>1. book \in [Books -> BookRow]
  BY DEF Init
<1>2. deal \in [Deals -> DealRow]
  BY UnusedTyped DEF Init
<1> QED
  BY <1>1, <1>2 DEF Init, TypeOK

LEMMA NextTyped == TypeOK /\ [Next]_vars => TypeOK'
<1> SUFFICES ASSUME TypeOK, [Next]_vars PROVE TypeOK'
  OBVIOUS
<1> USE DEF TypeOK
<1>1. ASSUME NEW u \in Users, NEW b \in Books, NEW ty \in DealType, NEW d \in Deals,
             CreateDeal(u, b, ty, d)
      PROVE  TypeOK'
  BY <1>1, NewDealTyped DEF CreateDeal
<1>2. ASSUME NEW u \in Users, NEW b \in Books, NEW d \in Deals, CreateException(u, b, d)
      PROVE  TypeOK'
  <2>1. NewDeal(u, b, "EX") \in DealRow
    BY NewDealTyped DEF DealType
  <2> QED
    BY <1>2, <2>1 DEF CreateException, BookRow, BookStatus
<1>3. ASSUME NEW d \in Deals, AcceptDeal(d) PROVE TypeOK'
  <2>1. book' \in [Books -> BookRow]
    <3>1. \A r \in BookRow : [r EXCEPT !.status = "V"] \in BookRow
      BY DEF BookRow, BookStatus
    <3>2. book' = [book EXCEPT ![deal[d].book].status = "V"]
      BY <1>3 DEF AcceptDeal
    <3> QED
      BY <3>1, <3>2
  <2>2. ASSUME NEW s \in Deals PROVE deal'[s] \in DealRow
    <3>1. deal[s] \in DealRow
      OBVIOUS
    <3>2. [deal[s] EXCEPT !.status = "P"] \in DealRow
      BY <3>1 DEF DealRow, DealStatus
    <3>3. [deal[s] EXCEPT !.status = "X"] \in DealRow
      BY <3>1 DEF DealRow, DealStatus
    <3>4. deal'[s] \in {deal[s], [deal[s] EXCEPT !.status = "P"],
                        [deal[s] EXCEPT !.status = "X"]}
      BY <1>3 DEF AcceptDeal
    <3> QED
      BY <3>1, <3>2, <3>3, <3>4
  <2>3. deal' \in [Deals -> DealRow]
    <3>1. deal' = [s \in Deals |-> deal'[s]]
      BY <1>3 DEF AcceptDeal
    <3> QED
      BY <2>2, <3>1
  <2>4. level' = level /\ overdue' = overdue /\ today' = today
    BY <1>3 DEF AcceptDeal
  <2> QED
    BY <2>1, <2>3, <2>4, Zenon
<1>4. ASSUME NEW d \in Deals, DeclineDeal(d) PROVE TypeOK'
  <2>1. \A r \in DealRow : [r EXCEPT !.status = "X"] \in DealRow
    BY DEF DealRow, DealStatus
  <2>2. deal' \in [Deals -> DealRow]
    BY <1>4, <2>1 DEF DeclineDeal
  <2> QED
    BY <1>4, <2>2, Zenon DEF DeclineDeal
<1>5. ASSUME NEW d \in Deals, CancelDeal(d) PROVE TypeOK'
  <2>1. deal[d].prev \in BookStatus
    BY DEF DealRow
  <2>2. book' \in [Books -> BookRow]
    BY <1>5, <2>1 DEF CancelDeal, BookRow
  <2>3. deal' \in [Deals -> DealRow]
    BY <1>5 DEF CancelDeal, DealRow, DealStatus
  <2> QED
    BY <1>5, <2>2, <2>3 DEF CancelDeal
<1>6. ASSUME NEW d \in Deals, CompleteMeeting(d) PROVE TypeOK'
  <2>1. /\ deal[d] \in DealRow /\ deal[d].book \in Books
        /\ book[deal[d].book] \in BookRow
    BY DEF DealRow
  <2>2. KeeperAfterMeeting(d) \in Users
    BY <2>1 DEF KeeperAfterMeeting, DealRow, BookRow, DealType, Borrowing
  <2>3. MeetTransition(deal[d].type).to \in BookStatus
    BY <2>1 DEF MeetTransition, DealRow, DealType, Borrowing, BookStatus,
                ListingTransitions, DealTransitions
  <2>4. today + book[deal[d].book].loanDays \in Nat
    BY <2>1, DueDateTyped
  <2>5. book' \in [Books -> BookRow]
    BY <1>6, <2>1, <2>2, <2>3 DEF CompleteMeeting, BookRow
  <2>6. deal' \in [Deals -> DealRow]
    BY <1>6, <2>1, <2>4 DEF CompleteMeeting, DealRow, DealStatus
  <2> QED
    BY <1>6, <2>5, <2>6 DEF CompleteMeeting
<1>7. ASSUME NEW d \in Deals, NEW u \in Users, CreateRating(d, u) PROVE TypeOK'
  <2>1. deal[d] \in DealRow
    OBVIOUS
  <2>2. \/ deal' = [deal EXCEPT ![d] = [deal[d] EXCEPT !.applicantRated = TRUE]]
        \/ deal' = [deal EXCEPT ![d] = [deal[d] EXCEPT !.responderRated = TRUE]]
    BY <1>7, Zenon DEF CreateRating
  <2>3. deal' \in [Deals -> DealRow]
    BY <2>1, <2>2, RowWrites
  <2>4. level' \in [Users -> Levels]
    BY <1>7 DEF CreateRating, TrustRefresh
  <2> QED
    BY <1>7, <2>3, <2>4 DEF CreateRating
<1>8. ASSUME ProcessDueBooks PROVE TypeOK'
  <2>1. book' \in [Books -> BookRow]
    BY <1>8 DEF ProcessDueBooks, BookRow, BookStatus
  <2>2. overdue' \in [Users -> Nat]
    BY <1>8, LateDealsCount DEF ProcessDueBooks
  <2> QED
    BY <1>8, <2>1, <2>2 DEF ProcessDueBooks, TrustRefresh
<1>9. ASSUME NEW d \in Deals, NEW u \in Users, NEW force \in BOOLEAN,
             ConfirmReturn(d, u, force)
      PROVE  TypeOK'
  <2>1. deal[d].book \in Books /\ Owner[deal[d].book] \in Users
    BY SizeAssumption DEF DealRow
  <2>2. book' \in [Books -> BookRow]
    BY <1>9, <2>1 DEF ConfirmReturn, BookRow, BookStatus
  <2>3. deal' \in [Deals -> DealRow]
    <3>1. deal[d] \in DealRow
      OBVIOUS
    <3> DEFINE r == [deal[d] EXCEPT !.status = "D", !.applicantRated = @ \/ force,
                                    !.responderRated = @ \/ force]
    <3>2. r \in DealRow
      BY <3>1, RowWrites
    <3>3. deal' = [deal EXCEPT ![d] = r]
      BY <1>9, Zenon DEF ConfirmReturn
    <3> HIDE DEF r
    <3> QED
      BY <3>2, <3>3
  <2> QED
    BY <1>9, <2>2, <2>3 DEF ConfirmReturn, TrustRefresh
<1>10. ASSUME NEW d \in Deals,
              NEW r \in {"mark_as_lost", "mark_as_destroyed", "mark_as_found"},
              ResolveException(d, r)
       PROVE  TypeOK'
  <2>1. deal[d].book \in Books /\ Owner[deal[d].book] \in Users
    BY SizeAssumption DEF DealRow
  <2>2. ListingTransitions[r].to \in BookStatus
    BY DEF ListingTransitions, BookStatus
  <2>3. book' \in [Books -> BookRow]
    BY <1>10, <2>1, <2>2 DEF ResolveException, BookRow
  <2>4. deal' \in [Deals -> DealRow]
    BY <1>10 DEF ResolveException, DealRow, DealStatus
  <2> QED
    BY <1>10, <2>3, <2>4 DEF ResolveException
<1>11. ASSUME NEW b \in Books, ToggleListing(b) PROVE TypeOK'
  BY <1>11 DEF ToggleListing, BookRow, BookStatus
<1>12. ASSUME NEW b \in Books, NEW tr \in Transferability, NEW mt \in Levels,
              NEW ld \in LoanDays, UpdateBook(b, tr, mt, ld)
       PROVE  TypeOK'
  BY <1>12 DEF UpdateBook, BookRow
<1>13. ASSUME RecalculateTrust PROVE TypeOK'
  BY <1>13 DEF RecalculateTrust, TrustRefresh
<1>14. ASSUME NextDay PROVE TypeOK'
  BY <1>14 DEF NextDay
<1>15. ASSUME UNCHANGED vars PROVE TypeOK'
  BY <1>15 DEF vars
<1> QED
  BY <1>1, <1>2, <1>3, <1>4, <1>5, <1>6, <1>7, <1>8, <1>9, <1>10, <1>11, <1>12,
     <1>13, <1>14, <1>15 DEF Next

\* The tables keep their column types whatever the services do: statuses stay
\* within the declared codes, keepers are accounts, due dates are dates.
THEOREM TypeCorrect == Spec => []TypeOK
BY InitTyped, NextTyped, PTL DEF Spec
-----------------------------------------------------------------------------
(* Reservations *)

\* The inductive form of ReservationExact, point by point.  The last part is
\* what makes it inductive: a request never remembers status "V", so the
\* status that cancelling it writes back cannot forge a reservation.
Reservation ==
  /\ \A d \in Deals : deal[d].status = "P" => book[deal[d].book].status = "V"
  /\ \A b \in Books : book[b].status = "V" =>
       \E d \in Deals : deal[d].status = "P" /\ deal[d].book = b
  /\ \A d, e \in Deals :
       deal[d].status = "P" /\ deal[e].status = "P" /\ deal[d].book = deal[e].book => d = e
  /\ \A d \in Deals : deal[d].status = "Q" =>
       book[deal[d].book].status # "V" /\ deal[d].prev # "V"

LEMMA ReservationImplies == TypeOK /\ Reservation => ReservationExact
BY DEF TypeOK, DealRow, Reservation, ReservationExact, AcceptedOn, DealsOn

LEMMA InitReservation == Init => Reservation
BY DEF Init, Unused, Reservation

LEMMA NextReservation == TypeOK /\ Reservation /\ [Next]_vars => Reservation'
<1> SUFFICES ASSUME TypeOK, Reservation, [Next]_vars PROVE Reservation'
  OBVIOUS
<1>0. /\ \A d \in Deals : deal[d] \in DealRow /\ deal[d].book \in Books
      /\ \A b \in Books : book[b] \in BookRow
      /\ DOMAIN deal = Deals /\ DOMAIN book = Books
  BY DEF TypeOK, DealRow
<1>1. ASSUME NEW u \in Users, NEW b \in Books, NEW ty \in DealType, NEW d \in Deals,
             CreateDeal(u, b, ty, d)
      PROVE  Reservation'
  <2>1. book[b].status # "V"
    BY <1>1 DEF CreateDeal, MayCreate, RequiredStatus, DealType
  <2> QED
    BY <1>0, <1>1, <2>1 DEF CreateDeal, NewDeal, Reservation
<1>2. ASSUME NEW u \in Users, NEW b \in Books, NEW d \in Deals, CreateException(u, b, d)
      PROVE  Reservation'
  <2>1. book[b].status # "V"
    BY <1>2 DEF CreateException, MayCreate, RequiredStatus, Borrowing
  <2> QED
    BY <1>0, <1>2, <2>1 DEF CreateException, NewDeal, Reservation
<1>3. ASSUME NEW d \in Deals, AcceptDeal(d) PROVE Reservation'
  <2>1. deal[d].status = "Q" /\ book[deal[d].book].status = "T"
    BY <1>3 DEF AcceptDeal, CanAccept, DealTransitions
  <2> QED
    BY <1>0, <1>3, <2>1 DEF AcceptDeal, Siblings, Reservation
<1>4. ASSUME NEW d \in Deals, DeclineDeal(d) PROVE Reservation'
  BY <1>0, <1>4 DEF DeclineDeal, Reservation
<1>5. ASSUME NEW d \in Deals, CancelDeal(d) PROVE Reservation'
  BY <1>0, <1>5 DEF CancelDeal, Reservation
<1>6. ASSUME NEW d \in Deals, CompleteMeeting(d) PROVE Reservation'
  <2>1. deal[d].status = "P" /\ MeetTransition(deal[d].type).to # "V"
    BY <1>0, <1>6 DEF CompleteMeeting, CanMeet, MeetTransition, DealRow, DealType,
                      Borrowing, ListingTransitions, DealTransitions
  <2>2. /\ deal'[d].status = "M" /\ \A e \in Deals : e # d => deal'[e] = deal[e]
        /\ book'[deal[d].book].status # "V"
        /\ \A b \in Books : b # deal[d].book => book'[b] = book[b]
        /\ deal'[d].book = deal[d].book
    BY <1>0, <1>6, <2>1 DEF CompleteMeeting, DealRow, BookRow
  <2> QED
    BY <1>0, <2>1, <2>2 DEF Reservation
<1>7. ASSUME NEW d \in Deals, NEW u \in Users, CreateRating(d, u) PROVE Reservation'
  <2>1. /\ book' = book
        /\ \A e \in Deals : /\ deal'[e].status = deal[e].status
                           /\ deal'[e].book = deal[e].book
                           /\ deal'[e].prev = deal[e].prev
    BY <1>0, <1>7 DEF CreateRating, DealRow
  <2> QED
    BY <2>1 DEF Reservation
<1>8. ASSUME ProcessDueBooks PROVE Reservation'
  <2>1. \A b \in Books : book'[b].status = "V" <=> book[b].status = "V"
    BY <1>0, <1>8 DEF ProcessDueBooks, DueBooks, DueDeals
  <2> QED
    BY <1>0, <1>8, <2>1 DEF ProcessDueBooks, Reservation
<1>9. ASSUME NEW d \in Deals, NEW u \in Users, NEW force \in BOOLEAN,
             ConfirmReturn(d, u, force)
      PROVE  Reservation'
  <2>1. deal[d].status = "M" /\ book[deal[d].book].status = "O"
    BY <1>9 DEF ConfirmReturn, DealTransitions
  <2>2. /\ deal'[d].status = "D" /\ \A e \in Deals : e # d => deal'[e] = deal[e]
        /\ book'[deal[d].book].status # "V"
        /\ \A b \in Books : b # deal[d].book => book'[b] = book[b]
        /\ deal'[d].book = deal[d].book
    BY <1>0, <1>9, <2>1 DEF ConfirmReturn, DealRow, BookRow, DealTransitions
  <2> QED
    BY <1>0, <2>1, <2>2 DEF Reservation
<1>10. ASSUME NEW d \in Deals,
              NEW r \in {"mark_as_lost", "mark_as_destroyed", "mark_as_found"},
              ResolveException(d, r)
       PROVE  Reservation'
  <2>1. book[deal[d].book].status = "E" /\ ListingTransitions[r].to # "V"
    BY <1>10 DEF ResolveException, ListingTransitions
  <2>2. deal[d].status # "P"
    BY <1>0, <2>1 DEF Reservation
  <2>3. /\ deal'[d].status = "D"
        /\ \A e \in Deals : /\ e # d => deal'[e] = deal[e]
                           /\ deal'[e].book = deal[e].book
                           /\ deal'[e].prev = deal[e].prev
    BY <1>0, <1>10 DEF ResolveException
  <2>4. \A b \in Books : /\ b # deal[d].book => book'[b] = book[b]
                         /\ book'[b].status = "V" <=> book[b].status = "V"
    BY <1>0, <1>10, <2>1 DEF ResolveException
  <2> QED
    BY <1>0, <2>1, <2>2, <2>3, <2>4 DEF Reservation
<1>11. ASSUME NEW b \in Books, ToggleListing(b) PROVE Reservation'
  <2>1. \A c \in Books : book'[c].status = "V" <=> book[c].status = "V"
    <3>1. CASE book[b].status = "S" /\ book' = [book EXCEPT ![b].status = "T"]
      BY <1>0, <3>1
    <3>2. CASE book[b].status = "T" /\ book' = [book EXCEPT ![b].status = "S"]
      BY <1>0, <3>2
    <3> QED
      BY <1>11, <3>1, <3>2 DEF ToggleListing
  <2> QED
    BY <1>0, <1>11, <2>1 DEF ToggleListing, Reservation
<1>12. ASSUME NEW b \in Books, NEW tr \in Transferability, NEW mt \in Levels,
              NEW ld \in LoanDays, UpdateBook(b, tr, mt, ld)
       PROVE  Reservation'
  BY <1>0, <1>12 DEF UpdateBook, Reservation
<1>13. CASE RecalculateTrust
  BY <1>13 DEF RecalculateTrust, Reservation
<1>14. CASE NextDay
  BY <1>14 DEF NextDay, Reservation
<1>15. CASE UNCHANGED vars
  BY <1>15 DEF vars, Reservation
<1> QED
  BY <1>1, <1>2, <1>3, <1>4, <1>5, <1>6, <1>7, <1>8, <1>9, <1>10, <1>11, <1>12,
     <1>13, <1>14, <1>15 DEF Next

\* For any number of books and requests: a book is reserved exactly when one
\* accepted deal waits for it, and nothing else is pending on it then.
THEOREM ReservationIsExact == Spec => []ReservationExact
BY InitTyped, NextTyped, InitReservation, NextReservation, ReservationImplies, PTL DEF Spec
-----------------------------------------------------------------------------
(* What one step may do to one row of the deal table *)

SameParties(d) ==
  /\ deal'[d].type = deal[d].type /\ deal'[d].book = deal[d].book
  /\ deal'[d].applicant = deal[d].applicant /\ deal'[d].responder = deal[d].responder

SameRatings(d) ==
  /\ deal'[d].applicantRated = deal[d].applicantRated
  /\ deal'[d].responderRated = deal[d].responderRated

Opened(d) ==
  /\ deal[d].status = "-"
  /\ \E u \in Users, b \in Books, ty \in DealType :
       MayCreate(u, b, ty) /\ deal'[d] = NewDeal(u, b, ty)

Answered(d) ==
  /\ deal[d].status = "Q" /\ deal'[d].status \in {"P", "X"}
  /\ SameParties(d) /\ SameRatings(d)

MetNow(d) ==
  /\ deal[d].status = "P" /\ deal'[d].status = "M"
  /\ SameParties(d) /\ SameRatings(d)

Rated(d) ==
  /\ deal[d].status \in {"M", "D"} /\ deal'[d].status = deal[d].status
  /\ SameParties(d)
  /\ deal[d].applicantRated => deal'[d].applicantRated
  /\ deal[d].responderRated => deal'[d].responderRated

Returned(d) ==
  /\ deal[d].status = "M" /\ deal'[d].status = "D"
  /\ SameParties(d)
  /\ deal'[d].applicantRated /\ deal'[d].responderRated
  /\ book[deal[d].book].status = "O"
  /\ book'[deal[d].book].status = "T"
  /\ book'[deal[d].book].keeper = Owner[deal[d].book]

Resolved(d) ==
  /\ deal[d].type = "EX" /\ deal[d].status \in Open /\ deal'[d].status = "D"
  /\ SameParties(d) /\ SameRatings(d)

Untouched(d) == deal'[d] = deal[d]

DealMove(d) ==
  \/ Untouched(d) \/ Opened(d) \/ Answered(d) \/ MetNow(d)
  \/ Rated(d) \/ Returned(d) \/ Resolved(d)

LEMMA OpenedRow ==
  ASSUME NEW d \in Deals, Opened(d)
  PROVE  /\ deal'[d].status = "Q" /\ deal'[d].applicantRated = FALSE
         /\ deal'[d].responderRated = FALSE
BY DEF Opened, NewDeal

LEMMA DealMoves ==
  ASSUME TypeOK, [Next]_vars, NEW e \in Deals
  PROVE  DealMove(e)
<1>0. /\ \A d \in Deals : deal[d] \in DealRow /\ deal[d].book \in Books
      /\ \A b \in Books : book[b] \in BookRow
      /\ DOMAIN deal = Deals /\ DOMAIN book = Books
  BY DEF TypeOK, DealRow
<1>1. ASSUME NEW u \in Users, NEW b \in Books, NEW ty \in DealType, NEW d \in Deals,
             CreateDeal(u, b, ty, d)
      PROVE  DealMove(e)
  BY <1>0, <1>1 DEF CreateDeal, DealMove, Untouched, Opened
<1>2. ASSUME NEW u \in Users, NEW b \in Books, NEW d \in Deals, CreateException(u, b, d)
      PROVE  DealMove(e)
  <2>1. "EX" \in DealType
    BY DEF DealType
  <2> QED
    BY <1>0, <1>2, <2>1 DEF CreateException, DealMove, Untouched, Opened
<1>3. ASSUME NEW d \in Deals, AcceptDeal(d) PROVE DealMove(e)
  <2>1. deal'[e] = CASE e = d -> [deal[e] EXCEPT !.status = "P"]
                     [] e \in Siblings(d) -> [deal[e] EXCEPT !.status = "X"]
                     [] OTHER -> deal[e]
    BY <1>3 DEF AcceptDeal
  <2>2. CASE e = d
    <3>1. deal[e].status = "Q" /\ deal'[e] = [deal[e] EXCEPT !.status = "P"]
      BY <1>3, <2>1, <2>2 DEF AcceptDeal, CanAccept, Siblings
    <3> QED
      BY <1>0, <3>1 DEF DealMove, Answered, SameParties, SameRatings, DealRow
  <2>3. CASE e # d /\ e \in Siblings(d)
    <3>1. deal[e].status = "Q" /\ deal'[e] = [deal[e] EXCEPT !.status = "X"]
      BY <2>1, <2>3 DEF Siblings
    <3> QED
      BY <1>0, <3>1 DEF DealMove, Answered, SameParties, SameRatings, DealRow
  <2>4. CASE e # d /\ e \notin Siblings(d)
    BY <2>1, <2>4 DEF DealMove, Untouched
  <2> QED
    BY <2>2, <2>3, <2>4
<1>4. ASSUME NEW d \in Deals, DeclineDeal(d) PROVE DealMove(e)
  BY <1>0, <1>4 DEF DeclineDeal, DealMove, Untouched, Answered, SameParties, SameRatings,
                    DealRow
<1>5. ASSUME NEW d \in Deals, CancelDeal(d) PROVE DealMove(e)
  BY <1>0, <1>5 DEF CancelDeal, DealMove, Untouched, Answered, SameParties, SameRatings,
                    DealRow
<1>6. ASSUME NEW d \in Deals, CompleteMeeting(d) PROVE DealMove(e)
  BY <1>0, <1>6 DEF CompleteMeeting, CanMeet, DealMove, Untouched, MetNow, SameParties,
                    SameRatings, DealRow
<1>7. ASSUME NEW d \in Deals, NEW u \in Users, CreateRating(d, u) PROVE DealMove(e)
  <2>1. CASE e # d
    BY <1>0, <1>7, <2>1 DEF CreateRating, DealMove, Untouched
  <2>2. CASE e = d
    <3>1. deal[e].status \in {"M", "D"}
      BY <1>7, <2>2 DEF CreateRating
    <3>2. \/ deal'[e] = [deal[e] EXCEPT !.applicantRated = TRUE]
          \/ deal'[e] = [deal[e] EXCEPT !.responderRated = TRUE]
      BY <1>0, <1>7, <2>2, Zenon DEF CreateRating
    <3>3. /\ deal'[e].status = deal[e].status /\ SameParties(e)
      BY <1>0, <3>2 DEF SameParties, DealRow
    <3>4. /\ deal[e].applicantRated => deal'[e].applicantRated
          /\ deal[e].responderRated => deal'[e].responderRated
      BY <1>0, <3>2, Zenon DEF DealRow
    <3> QED
      BY <3>1, <3>3, <3>4 DEF DealMove, Rated
  <2> QED
    BY <2>1, <2>2
<1>8. ASSUME NEW d \in Deals, NEW u \in Users, NEW force \in BOOLEAN,
             ConfirmReturn(d, u, force)
      PROVE  DealMove(e)
  <2>1. CASE e # d
    BY <1>0, <1>8, <2>1 DEF ConfirmReturn, DealMove, Untouched
  <2>2. CASE e = d
    <3>1. /\ deal[e].status = "M" /\ book[deal[e].book].status = "O"
          /\ book'[deal[e].book].status = "T"
          /\ book'[deal[e].book].keeper = Owner[deal[e].book]
      BY <1>0, <1>8, <2>2 DEF ConfirmReturn, DealTransitions, BookRow
    <3>2. deal'[e] = [deal[e] EXCEPT !.status = "D", !.applicantRated = @ \/ force,
                                     !.responderRated = @ \/ force]
      BY <1>0, <1>8, <2>2, Zenon DEF ConfirmReturn
    <3>3. deal'[e].status = "D" /\ SameParties(e)
      BY <1>0, <3>2 DEF SameParties, DealRow
    <3>4. force \/ (deal[e].applicantRated /\ deal[e].responderRated)
      BY <1>8, <2>2, Zenon DEF ConfirmReturn, BothRated
    <3>5. deal'[e].applicantRated /\ deal'[e].responderRated
      BY <1>0, <3>2, <3>4, Zenon DEF DealRow
    <3> QED
      BY <3>1, <3>3, <3>5 DEF DealMove, Returned
  <2> QED
    BY <2>1, <2>2
<1>9. ASSUME NEW d \in Deals,
             NEW r \in {"mark_as_lost", "mark_as_destroyed", "mark_as_found"},
             ResolveException(d, r)
      PROVE  DealMove(e)
  BY <1>0, <1>9 DEF ResolveException, DealMove, Untouched, Resolved, SameParties,
                    SameRatings, DealRow
<1>10. CASE deal' = deal
  BY <1>10 DEF DealMove, Untouched
<1> QED
  BY <1>1, <1>2, <1>3, <1>4, <1>5, <1>6, <1>7, <1>8, <1>9, <1>10
  DEF Next, vars, ProcessDueBooks, ToggleListing, UpdateBook, RecalculateTrust, NextDay
-----------------------------------------------------------------------------
(* Ratings and returns *)

\* A deal that is done and no exception has both ratings, and nobody rates a
\* deal that has not met: forced returns and late ratings included.
THEOREM FinishedAreRated == Spec => []FinishedDealsAreRated
<1>1. Init => FinishedDealsAreRated
  <2> SUFFICES ASSUME Init PROVE FinishedDealsAreRated
    OBVIOUS
  <2>1. \A d \in Deals : deal[d] = Unused
    BY DEF Init
  <2>2. Unused.status = "-" /\ Unused.applicantRated = FALSE /\ Unused.responderRated = FALSE
    BY DEF Unused
  <2> QED
    BY <2>1, <2>2, Zenon DEF FinishedDealsAreRated
<1>2. TypeOK /\ FinishedDealsAreRated /\ [Next]_vars => FinishedDealsAreRated'
  <2> SUFFICES ASSUME TypeOK, FinishedDealsAreRated, [Next]_vars, NEW d \in Deals
               PROVE  /\ deal'[d].status = "D" /\ deal'[d].type # "EX" =>
                            deal'[d].applicantRated /\ deal'[d].responderRated
                      /\ deal'[d].applicantRated \/ deal'[d].responderRated =>
                            deal'[d].status \in {"M", "D"}
    BY Zenon DEF FinishedDealsAreRated
  <2>1. /\ deal[d].status = "D" /\ deal[d].type # "EX" =>
             deal[d].applicantRated /\ deal[d].responderRated
        /\ deal[d].applicantRated \/ deal[d].responderRated =>
             deal[d].status \in {"M", "D"}
    BY Zenon DEF FinishedDealsAreRated
  <2>2. DealMove(d)
    BY DealMoves
  <2>3. CASE Untouched(d)
    BY <2>1, <2>3, Zenon DEF Untouched
  <2>4. CASE Opened(d)
    BY <2>4, OpenedRow, Zenon
  <2>5. CASE Answered(d)
    BY <2>1, <2>5 DEF Answered, SameRatings
  <2>6. CASE MetNow(d)
    BY <2>1, <2>6 DEF MetNow, SameRatings
  <2>7. CASE Rated(d)
    BY <2>1, <2>7 DEF Rated, SameParties
  <2>8. CASE Returned(d)
    BY <2>8 DEF Returned
  <2>9. CASE Resolved(d)
    BY <2>9 DEF Resolved, SameParties
  <2> QED
    BY <2>2, <2>3, <2>4, <2>5, <2>6, <2>7, <2>8, <2>9 DEF DealMove
<1> QED
  BY <1>1, <1>2, InitTyped, NextTyped, PTL DEF Spec

\* BR-17 for every loan: it is marked done only by a step that brings the
\* lent book home to its owner and onto the shelf.
THEOREM LoansEndInReturn == Spec => LoanEndsInReturn
<1>1. TypeOK /\ [Next]_vars =>
        [\A d \in Deals :
           deal[d].type = "LN" /\ deal[d].status # "D" /\ deal'[d].status = "D"
             => LET b == deal[d].book
                IN  /\ book[b].status = "O" /\ book'[b].status = "T"
                    /\ book'[b].keeper = Owner[b]]_vars
  <2> SUFFICES ASSUME TypeOK, [Next]_vars, NEW d \in Deals,
                      deal[d].type = "LN", deal[d].status # "D", deal'[d].status = "D"
               PROVE  /\ book[deal[d].book].status = "O"
                      /\ book'[deal[d].book].status = "T"
                      /\ book'[deal[d].book].keeper = Owner[deal[d].book]
    OBVIOUS
  <2>1. DealMove(d)
    BY DealMoves
  <2>2. Returned(d)
    BY <2>1, OpenedRow DEF DealMove, Untouched, Answered, MetNow, Rated, Resolved
  <2> QED
    BY <2>2 DEF Returned
<1> QED
  BY <1>1, InitTyped, NextTyped, PTL DEF Spec, LoanEndsInReturn
-----------------------------------------------------------------------------
(* Keepers *)

\* u has book b in good order: it is his, or he met for it.
Accounted(u, b) ==
  \/ u = Owner[b]
  \/ \E d \in Deals : /\ deal[d].status \in {"M", "D"} /\ deal[d].book = b
                      /\ deal[d].type \in Borrowing
                      /\ deal[d].applicant = u

\* The inductive form of KeeperAccounted.  A return deal writes a keeper
\* fixed at the day it was requested, so its responder has to be accounted
\* for from then on: the owner for RS, the keeper of that day for RG.
Keepers ==
  /\ \A b \in Books : Accounted(book[b].keeper, b)
  /\ \A d \in Deals : deal[d].status # "-" /\ deal[d].type \in {"RS", "RG"} =>
                        Accounted(deal[d].responder, deal[d].book)

LEMMA KeepersImply == Keepers => KeeperAccounted
BY DEF Keepers, Accounted, KeeperAccounted, DealsOn

\* Whoever is accounted for stays so: a deal that met never goes back.
LEMMA AccountedForever ==
  ASSUME TypeOK, [Next]_vars, NEW u, NEW b, Accounted(u, b)
  PROVE  Accounted(u, b)'
<1>1. CASE u = Owner[b]
  BY <1>1 DEF Accounted
<1>2. CASE u # Owner[b]
  <2>1. PICK d \in Deals : /\ deal[d].status \in {"M", "D"} /\ deal[d].book = b
                           /\ deal[d].type \in Borrowing /\ deal[d].applicant = u
    BY <1>2 DEF Accounted
  <2>2. DealMove(d)
    BY DealMoves
  <2>3. deal'[d].status \in {"M", "D"} /\ SameParties(d)
    BY <2>1, <2>2 DEF DealMove, Untouched, Opened, Answered, MetNow, Rated, Returned,
                      Resolved, Open, SameParties
  <2> QED
    BY <2>1, <2>3 DEF Accounted, SameParties
<1> QED
  BY <1>1, <1>2

\* A step that hands a book over completes the meeting of a deal about it.
LEMMA KeeperMoves ==
  ASSUME TypeOK, [Next]_vars, NEW c \in Books
  PROVE  \/ book'[c].keeper = book[c].keeper
         \/ book'[c].keeper = Owner[c]
         \/ \E d \in Deals :
              /\ CompleteMeeting(d) /\ deal[d].book = c
              /\ book'[c].keeper = KeeperAfterMeeting(d)
<1> DEFINE Goal == \/ book'[c].keeper = book[c].keeper
                   \/ book'[c].keeper = Owner[c]
                   \/ \E d \in Deals :
                        /\ CompleteMeeting(d) /\ deal[d].book = c
                        /\ book'[c].keeper = KeeperAfterMeeting(d)
<1>0. /\ \A b \in Books : book[b] \in BookRow
      /\ DOMAIN book = Books
      /\ \A b \in Books : DOMAIN book[b] = {"status", "keeper", "transferability", "minTrust",
                                            "loanDays"}
  BY DEF TypeOK, BookRow
<1>1. ASSUME NEW u \in Users, NEW b \in Books, NEW d \in Deals, CreateException(u, b, d)
      PROVE  Goal
  BY <1>0, <1>1 DEF CreateException
<1>2. ASSUME NEW d \in Deals, AcceptDeal(d) PROVE Goal
  BY <1>0, <1>2 DEF AcceptDeal
<1>3. ASSUME NEW d \in Deals, CancelDeal(d) PROVE Goal
  BY <1>0, <1>3 DEF CancelDeal
<1>4. ASSUME NEW d \in Deals, CompleteMeeting(d) PROVE Goal
  <2>1. CASE c # deal[d].book
    BY <1>0, <1>4, <2>1 DEF CompleteMeeting
  <2>2. CASE c = deal[d].book
    <3>1. book'[c].keeper = KeeperAfterMeeting(d)
      BY <1>0, <1>4, <2>2 DEF CompleteMeeting
    <3> QED
      BY <1>4, <2>2, <3>1
  <2> QED
    BY <2>1, <2>2
<1>5. ASSUME ProcessDueBooks PROVE Goal
  BY <1>0, <1>5 DEF ProcessDueBooks
<1>6. ASSUME NEW d \in Deals, NEW u \in Users, NEW force \in BOOLEAN,
             ConfirmReturn(d, u, force)
      PROVE  Goal
  BY <1>0, <1>6 DEF ConfirmReturn
<1>7. ASSUME NEW d \in Deals,
             NEW r \in {"mark_as_lost", "mark_as_destroyed", "mark_as_found"},
             ResolveException(d, r)
      PROVE  Goal
  BY <1>0, <1>7 DEF ResolveException
<1>8. ASSUME NEW b \in Books, ToggleListing(b) PROVE Goal
  BY <1>0, <1>8 DEF ToggleListing
<1>9. ASSUME NEW b \in Books, NEW tr \in Transferability, NEW mt \in Levels,
             NEW ld \in LoanDays, UpdateBook(b, tr, mt, ld)
      PROVE  Goal
  BY <1>0, <1>9 DEF UpdateBook
<1>10. CASE book' = book
  BY <1>10
<1> QED
  BY <1>1, <1>2, <1>3, <1>4, <1>5, <1>6, <1>7, <1>8, <1>9, <1>10
  DEF Next, vars, CreateDeal, DeclineDeal, CreateRating, RecalculateTrust, NextDay

LEMMA NextKeepers == TypeOK /\ Keepers /\ [Next]_vars => Keepers'
<1> SUFFICES ASSUME TypeOK, Keepers, [Next]_vars PROVE Keepers'
  OBVIOUS
<1>0. \A d \in Deals : deal[d] \in DealRow /\ deal[d].book \in Books
  BY DEF TypeOK, DealRow
<1>1. ASSUME NEW b \in Books PROVE Accounted(book[b].keeper, b)'
  <2>1. CASE book'[b].keeper = book[b].keeper
    <3>1. Accounted(book[b].keeper, b)
      BY DEF Keepers
    <3> DEFINE u == book[b].keeper
    <3>2. Accounted(u, b)
      BY <3>1
    <3>3. book'[b].keeper = u
      BY <2>1
    <3> QED
      BY <3>1, <3>3, AccountedForever
  <2>2. CASE book'[b].keeper = Owner[b]
    BY <2>2 DEF Accounted
  <2>3. ASSUME NEW d \in Deals, CompleteMeeting(d), deal[d].book = b,
               book'[b].keeper = KeeperAfterMeeting(d)
        PROVE  Accounted(book[b].keeper, b)'
    <3>1. deal'[d].status = "M" /\ SameParties(d)
      BY <1>0, <2>3 DEF CompleteMeeting, SameParties, DealRow, TypeOK
    <3>2. CASE deal[d].type \in Borrowing
      <4>1. book'[b].keeper = deal[d].applicant
        BY <2>3, <3>2 DEF KeeperAfterMeeting, Borrowing
      <4>2. /\ deal'[d].status = "M" /\ deal'[d].book = b
            /\ deal'[d].type \in Borrowing
            /\ deal'[d].applicant = book'[b].keeper
        BY <2>3, <3>1, <3>2, <4>1 DEF SameParties
      <4> QED
        BY <4>2 DEF Accounted
    <3>3. CASE deal[d].type \in {"RS", "RG"}
      <4>1. Accounted(deal[d].responder, b)
        BY <2>3, <3>3 DEF Keepers, CompleteMeeting, CanMeet
      <4>2. book'[b].keeper = deal[d].responder
        BY <2>3, <3>3 DEF KeeperAfterMeeting, Borrowing
      <4> QED
        BY <4>1, <4>2, AccountedForever
    <3>4. CASE deal[d].type = "EX"
      <4>1. book'[b].keeper = book[b].keeper
        BY <2>3, <3>4 DEF KeeperAfterMeeting, Borrowing
      <4> QED
        BY <2>1, <4>1
    <3> QED
      BY <1>0, <3>2, <3>3, <3>4 DEF DealRow, DealType, Borrowing
  <2> QED
    BY <2>1, <2>2, <2>3, KeeperMoves
<1>2. ASSUME NEW d \in Deals, deal'[d].status # "-", deal'[d].type \in {"RS", "RG"}
      PROVE  Accounted(deal[d].responder, deal[d].book)'
  <2>1. CASE deal[d].status = "-" /\ deal'[d] # deal[d]
    <3>1. DealMove(d)
      BY DealMoves
    <3>2. Opened(d)
      BY <2>1, <3>1 DEF DealMove, Untouched, Answered, MetNow, Rated, Returned,
                        Resolved, Open
    <3>3. PICK u \in Users, b \in Books, ty \in DealType : deal'[d] = NewDeal(u, b, ty)
      BY <3>2 DEF Opened
    <3>4. /\ deal'[d].book = b
          /\ deal'[d].responder \in {Owner[b], book[b].keeper}
      BY <3>3 DEF NewDeal, Responder
    <3>5. Accounted(deal'[d].responder, b)
      BY <3>4 DEF Keepers, Accounted
    <3> QED
      BY <3>4, <3>5, AccountedForever
  <2>2. CASE ~(deal[d].status = "-" /\ deal'[d] # deal[d])
    <3>1. DealMove(d)
      BY DealMoves
    <3>2. SameParties(d) /\ deal[d].status # "-"
      BY <1>2, <2>2, <3>1 DEF DealMove, Untouched, Opened, Answered, MetNow, Rated,
                              Returned, Resolved, SameParties, Open
    <3>3. Accounted(deal[d].responder, deal[d].book)
      BY <1>2, <3>2 DEF Keepers, SameParties
    <3> QED
      BY <3>2, <3>3, AccountedForever DEF SameParties
  <2> QED
    BY <2>1, <2>2
<1> QED
  BY <1>1, <1>2 DEF Keepers

\* Whoever holds a book is its owner or met for it, whatever order returns,
\* exceptions and superseded requests came in.
THEOREM KeepersAreAccounted == Spec => []KeeperAccounted
<1>1. Init => Keepers
  BY DEF Init, Unused, Keepers, Accounted
<1> QED
  BY <1>1, InitTyped, NextTyped, NextKeepers, KeepersImply, PTL DEF Spec
-----------------------------------------------------------------------------
(* The borrowing limit *)

Loans(u) == {d \in OpenDealsOf(u) : deal[d].type \in Borrowing}

LEMMA LoansCount ==
  ASSUME NEW u
  PROVE  /\ IsFiniteSet(Loans(u)) /\ Cardinality(Loans(u)) \in Nat
         /\ IsFiniteSet(OpenDealsOf(u)) /\ Cardinality(OpenDealsOf(u)) \in Nat
         /\ Cardinality(Loans(u)) <= Cardinality(OpenDealsOf(u))
<1>1. Loans(u) \subseteq OpenDealsOf(u) /\ OpenDealsOf(u) \subseteq Deals
  BY DEF Loans, OpenDealsOf
<1> QED
  BY <1>1, SizeAssumption, FS_Subset, FS_CardinalityType

LEMMA LoansCountAfter ==
  ASSUME NEW u
  PROVE  IsFiniteSet(Loans(u)') /\ Cardinality(Loans(u)') \in Nat
<1>1. Loans(u)' \subseteq Deals
  BY DEF Loans, OpenDealsOf
<1> QED
  BY <1>1, SizeAssumption, FS_Subset, FS_CardinalityType

\* Only create_deal gives an account another open borrowing deal.
LEMMA LoansShrink ==
  ASSUME TypeOK, [Next]_vars, NEW u,
         ~ \E v \in Users, b \in Books, ty \in DealType, d \in Deals : CreateDeal(v, b, ty, d)
  PROVE  Loans(u)' \subseteq Loans(u)
<1> SUFFICES ASSUME NEW e \in Deals, e \in Loans(u)' PROVE e \in Loans(u)
  BY DEF Loans, OpenDealsOf
<1>0. DOMAIN deal = Deals /\ \A d \in Deals : deal[d] \in DealRow
  BY DEF TypeOK
<1>1. /\ deal'[e].applicant = u /\ deal'[e].status \in Open
      /\ deal'[e].type \in Borrowing
  BY DEF Loans, OpenDealsOf
<1>2. ~ (deal[e].status = "-" /\ deal'[e].status = "Q")
  <2> SUFFICES ASSUME deal[e].status = "-", deal'[e].status = "Q" PROVE FALSE
    OBVIOUS
  <2>1. ASSUME NEW v \in Users, NEW b \in Books, NEW d \in Deals, CreateException(v, b, d)
        PROVE  FALSE
    BY <1>0, <1>1, <2>1 DEF CreateException, NewDeal, Borrowing
  <2>2. ASSUME NEW d \in Deals, AcceptDeal(d) PROVE FALSE
    BY <1>0, <2>2 DEF AcceptDeal, CanAccept, Siblings
  <2>3. ASSUME NEW d \in Deals, DeclineDeal(d) \/ CancelDeal(d) \/ CompleteMeeting(d)
        PROVE  FALSE
    BY <1>0, <2>3 DEF DeclineDeal, CancelDeal, CompleteMeeting, CanMeet
  <2>4. ASSUME NEW d \in Deals, NEW v \in Users, CreateRating(d, v) PROVE FALSE
    <3>1. deal'[e] = deal[e] \/ e = d
      BY <1>0, <2>4 DEF CreateRating
    <3> QED
      BY <2>4, <3>1 DEF CreateRating
  <2>5. ASSUME NEW d \in Deals, NEW v \in Users, NEW force \in BOOLEAN,
               ConfirmReturn(d, v, force)
        PROVE  FALSE
    <3>1. deal'[e] = deal[e] \/ e = d
      BY <1>0, <2>5 DEF ConfirmReturn
    <3> QED
      BY <2>5, <3>1 DEF ConfirmReturn
  <2>6. ASSUME NEW d \in Deals,
               NEW r \in {"mark_as_lost", "mark_as_destroyed", "mark_as_found"},
               ResolveException(d, r)
        PROVE  FALSE
    BY <1>0, <2>6 DEF ResolveException, Open
  <2>7. CASE deal' = deal
    BY <2>7
  <2> QED
    BY <2>1, <2>2, <2>3, <2>4, <2>5, <2>6, <2>7
    DEF Next, vars, ProcessDueBooks, ToggleListing, UpdateBook, RecalculateTrust, NextDay
<1>3. DealMove(e)
  BY DealMoves
<1>4. /\ deal[e].applicant = u /\ deal[e].status \in Open /\ deal[e].type \in Borrowing
  BY <1>1, <1>2, <1>3, OpenedRow
  DEF DealMove, Untouched, Opened, Answered, MetNow, Rated, Returned, Resolved,
      SameParties, Open
<1> QED
  BY <1>4 DEF Loans, OpenDealsOf

LEMMA NextLoanLimit == TypeOK /\ LoanLimit /\ [Next]_vars => LoanLimit'
<1> SUFFICES ASSUME TypeOK, LoanLimit, [Next]_vars, NEW v \in Users
             PROVE  \E l \in Levels : Cardinality(Loans(v)') <= MaxBooks[l]
  BY DEF LoanLimit, Loans
<1>0. DOMAIN deal = Deals /\ MaxBooks \in [Levels -> Nat]
  BY NumberAssumption DEF TypeOK
<1>1. CASE Loans(v)' \subseteq Loans(v)
  <2>1. PICK l \in Levels : Cardinality(Loans(v)) <= MaxBooks[l]
    BY DEF LoanLimit, Loans
  <2>2. Cardinality(Loans(v)') <= Cardinality(Loans(v))
    BY <1>1, LoansCount, FS_Subset
  <2>3. Cardinality(Loans(v)') <= MaxBooks[l]
    BY <1>0, <2>1, <2>2, LoansCount, LoansCountAfter
  <2> QED
    BY <2>3
<1>2. ASSUME NEW u \in Users, NEW b \in Books, NEW ty \in DealType, NEW d \in Deals,
             CreateDeal(u, b, ty, d), ~ (Loans(v)' \subseteq Loans(v))
      PROVE  \E l \in Levels : Cardinality(Loans(v)') <= MaxBooks[l]
  <2>1. /\ deal[d].status = "-" /\ deal'[d].applicant = u /\ deal'[d].type = ty
        /\ \A e \in Deals : e # d => deal'[e] = deal[e]
    BY <1>0, <1>2 DEF CreateDeal, NewDeal
  <2>2. u = v /\ ty \in Borrowing
    BY <1>2, <2>1 DEF Loans, OpenDealsOf
  <2>3. d \notin Loans(v) /\ Loans(v)' \subseteq Loans(v) \cup {d}
    BY <2>1 DEF Loans, OpenDealsOf, Open
  <2>4. Cardinality(OpenDealsOf(v)) < MaxBooks[level[v]] /\ level[v] \in Levels
    BY <1>2, <2>2 DEF CreateDeal, MayCreate, MayBorrow, TypeOK
  <2>5. /\ IsFiniteSet(Loans(v) \cup {d})
        /\ Cardinality(Loans(v) \cup {d}) = Cardinality(Loans(v)) + 1
    BY <2>3, LoansCount, FS_AddElement
  <2>6. Cardinality(Loans(v)') <= Cardinality(Loans(v)) + 1
    BY <2>3, <2>5, FS_Subset
  <2>7. Cardinality(Loans(v)') <= MaxBooks[level[v]]
    BY <1>0, <2>4, <2>6, LoansCount, LoansCountAfter
  <2> QED
    BY <2>4, <2>7
<1> QED
  BY <1>1, <1>2, LoansShrink

\* No account ever has more borrowing deals open than some trust level
\* allows, whatever becomes of its level in between.
THEOREM LoansAreLimited == Spec => []LoanLimit
<1>1. Init => LoanLimit
  <2> SUFFICES ASSUME Init, NEW u \in Users
               PROVE  \E l \in Levels : Cardinality(Loans(u)) <= MaxBooks[l]
    BY DEF LoanLimit, Loans
  <2>1. Loans(u) = {}
    BY DEF Init, Unused, Loans, OpenDealsOf, Open
  <2>2. Cardinality(Loans(u)) = 0
    BY <2>1, FS_EmptySet
  <2>3. PICK l \in Levels : MaxBooks[l] \in Nat
    BY NumberAssumption
  <2> QED
    BY <2>2, <2>3
<1> QED
  BY <1>1, InitTyped, NextTyped, NextLoanLimit, PTL DEF Spec
-----------------------------------------------------------------------------
(* The state machine of the book *)

\* A transition of SharedBook leads from one status to the other.
Declared(from, to) ==
  \/ \E t \in DOMAIN ListingTransitions :
       from \in ListingTransitions[t].from /\ to = ListingTransitions[t].to
  \/ \E t \in DOMAIN DealTransitions :
       from \in DealTransitions[t].from /\ to = DealTransitions[t].to

\* A request on b is cancelled and the status it remembers is written back.
WrittenBack(b) ==
  \E d \in Deals : /\ deal[d].book = b
                   /\ deal[d].status = "Q" /\ deal'[d].status = "X"
                   /\ book'[b].status = deal[d].prev

\* The status of a book changes along a declared transition, with one
\* exception: cancelling a request writes a status past the state machine, and
\* even that neither makes nor ends a reservation, and puts no book into
\* suspension, an exception, or among the lost.
StatusMovesAsDeclared ==
  [][\A b \in Books : book'[b].status # book[b].status =>
       \/ Declared(book[b].status, book'[b].status)
       \/ WrittenBack(b) /\ book[b].status # "V" /\ book'[b].status \in {"T", "O", "R"}]_vars

\* A pending request remembers a status in which a request of its type is made.
Remembers ==
  \A d \in Deals : deal[d].status = "Q" => deal[d].prev \in RequiredStatus(deal[d].type)

LEMMA NextRemembers == TypeOK /\ Remembers /\ [Next]_vars => Remembers'
<1> SUFFICES ASSUME TypeOK, Remembers, [Next]_vars, NEW d \in Deals, deal'[d].status = "Q"
             PROVE  deal'[d].prev \in RequiredStatus(deal'[d].type)
  BY DEF Remembers, RequiredStatus
<1>1. DealMove(d)
  BY DealMoves
<1>2. Untouched(d) \/ Opened(d)
  BY <1>1 DEF DealMove, Answered, MetNow, Rated, Returned, Resolved
<1>3. CASE Untouched(d)
  BY <1>3 DEF Untouched, Remembers
<1>4. CASE Opened(d)
  BY <1>4 DEF Opened, MayCreate, NewDeal
<1> QED
  BY <1>2, <1>3, <1>4

\* The transitions the services use.
LEMMA DeclaredMoves ==
  /\ Declared("S", "T") /\ Declared("T", "S") /\ Declared("T", "V")
  /\ Declared("V", "O") /\ Declared("V", "S") /\ Declared("R", "S")
  /\ Declared("O", "R") /\ Declared("O", "T")
  /\ \A s \in {"T", "O", "R"} : Declared(s, "E")
  /\ \A t \in {"L", "D", "S"} : Declared("E", t)
<1>1. \A t \in DOMAIN ListingTransitions, s \in BookStatus :
        s \in ListingTransitions[t].from => Declared(s, ListingTransitions[t].to)
  BY DEF Declared
<1>2. \A t \in DOMAIN DealTransitions, s \in BookStatus :
        s \in DealTransitions[t].from => Declared(s, DealTransitions[t].to)
  BY DEF Declared
<1>3. DOMAIN ListingTransitions = {"list_for_transfer", "suspend", "declare_exception",
                                   "mark_as_lost", "mark_as_destroyed", "mark_as_found"}
  BY DEF ListingTransitions
<1>4. DOMAIN DealTransitions = {"reserve", "mark_as_borrowed", "mark_as_suspended",
                                "mark_as_overdue", "mark_as_returned"}
  BY DEF DealTransitions
<1>5. /\ Declared("S", "T") /\ Declared("T", "S")
      /\ \A s \in {"T", "O", "R"} : Declared(s, "E")
      /\ \A t \in {"L", "D", "S"} : Declared("E", t)
  BY <1>1, <1>3 DEF ListingTransitions, BookStatus
<1>6. /\ Declared("T", "V") /\ Declared("V", "O") /\ Declared("V", "S")
      /\ Declared("R", "S") /\ Declared("O", "R") /\ Declared("O", "T")
  BY <1>2, <1>4 DEF DealTransitions, BookStatus
<1> QED
  BY <1>5, <1>6

\* A step that writes the status of one book, along a declared transition.
LEMMA OneBookMoves ==
  ASSUME TypeOK, NEW b \in Books, NEW c \in Books, NEW t,
         Declared(book[c].status, t), book'[c].status = t,
         \A a \in Books : a # c => book'[a].status = book[a].status,
         book'[b].status # book[b].status
  PROVE  Declared(book[b].status, book'[b].status)
<1>1. b = c
  OBVIOUS
<1> QED
  BY <1>1

\* However deals, listings and the daily job follow each other, a book's status
\* changes along declared transitions only, unless a request is cancelled: that
\* writes back T, O or R, whatever the book is in, and no reservation is lost by
\* it.  In particular a lost or destroyed book comes back in no other way.
THEOREM StatusesMoveAsDeclared == Spec => StatusMovesAsDeclared
<1>. DEFINE Moved(b) ==
       \/ Declared(book[b].status, book'[b].status)
       \/ WrittenBack(b) /\ book[b].status # "V" /\ book'[b].status \in {"T", "O", "R"}
<1>1. TypeOK /\ Reservation /\ Remembers /\ [Next]_vars =>
        [\A b \in Books : book'[b].status # book[b].status => Moved(b)]_vars
  <2> SUFFICES ASSUME TypeOK, Reservation, Remembers, Next, NEW b \in Books,
                      book'[b].status # book[b].status
               PROVE  Moved(b)
    BY DEF vars
  <2>0. /\ \A d \in Deals : deal[d] \in DealRow /\ deal[d].book \in Books
        /\ \A a \in Books : book[a] \in BookRow
        /\ DOMAIN deal = Deals /\ DOMAIN book = Books
    BY DEF TypeOK, DealRow
  <2>1. ASSUME NEW u \in Users, NEW c \in Books, NEW d \in Deals, CreateException(u, c, d)
        PROVE  Moved(b)
    <3>1. book[c].status \in {"T", "O", "R"}
      BY <2>1 DEF CreateException, MayCreate, RequiredStatus, Borrowing
    <3>2. /\ book'[c].status = "E"
          /\ \A a \in Books : a # c => book'[a].status = book[a].status
      BY <2>0, <2>1 DEF CreateException, BookRow
    <3> QED
      BY <3>1, <3>2, DeclaredMoves, OneBookMoves
  <2>2. ASSUME NEW d \in Deals, AcceptDeal(d) PROVE Moved(b)
    <3>1. book[deal[d].book].status = "T"
      BY <2>2 DEF AcceptDeal, CanAccept, DealTransitions
    <3>2. /\ book'[deal[d].book].status = "V"
          /\ \A a \in Books : a # deal[d].book => book'[a].status = book[a].status
      BY <2>0, <2>2 DEF AcceptDeal, BookRow
    <3> QED
      BY <2>0, <3>1, <3>2, DeclaredMoves, OneBookMoves
  <2>3. ASSUME NEW d \in Deals, CancelDeal(d) PROVE Moved(b)
    <3>1. /\ deal[d].status = "Q" /\ deal'[d].status = "X"
          /\ book'[deal[d].book].status = deal[d].prev
          /\ \A a \in Books : a # deal[d].book => book'[a].status = book[a].status
      BY <2>0, <2>3 DEF CancelDeal, BookRow, DealRow
    <3>2. deal[d].book = b
      BY <3>1
    <3>3. book[b].status # "V"
      BY <3>1, <3>2 DEF Reservation
    <3>4. deal[d].prev \in {"T", "O", "R"}
      BY <2>0, <3>1 DEF Remembers, RequiredStatus, DealRow, DealType
    <3> QED
      BY <3>1, <3>2, <3>3, <3>4 DEF WrittenBack
  <2>4. ASSUME NEW d \in Deals, CompleteMeeting(d) PROVE Moved(b)
    <3>1. deal[d].type \in DealType
      BY <2>0 DEF DealRow
    <3>2. Declared(book[deal[d].book].status, MeetTransition(deal[d].type).to)
      <4>1. book[deal[d].book].status \in MeetTransition(deal[d].type).from
        BY <2>4 DEF CompleteMeeting, CanMeet
      <4> QED
        BY <3>1, <4>1, DeclaredMoves
           DEF MeetTransition, DealType, Borrowing, ListingTransitions, DealTransitions
    <3>3. /\ book'[deal[d].book].status = MeetTransition(deal[d].type).to
          /\ \A a \in Books : a # deal[d].book => book'[a].status = book[a].status
      BY <2>0, <2>4 DEF CompleteMeeting, BookRow
    <3> QED
      BY <2>0, <3>2, <3>3, OneBookMoves
  <2>5. ASSUME ProcessDueBooks PROVE Moved(b)
    <3>1. b \in DueBooks /\ book'[b].status \in {"R", "T"}
      BY <2>0, <2>5 DEF ProcessDueBooks, BookRow
    <3>2. book[b].status = "O"
      BY <3>1 DEF DueBooks, DueDeals
    <3> QED
      BY <3>1, <3>2, DeclaredMoves
  <2>6. ASSUME NEW d \in Deals, NEW u \in Users, NEW force \in BOOLEAN,
               ConfirmReturn(d, u, force)
        PROVE  Moved(b)
    <3>1. book[deal[d].book].status = "O"
      BY <2>6 DEF ConfirmReturn, DealTransitions
    <3>2. /\ book'[deal[d].book].status = "T"
          /\ \A a \in Books : a # deal[d].book => book'[a].status = book[a].status
      BY <2>0, <2>6 DEF ConfirmReturn, BookRow
    <3> QED
      BY <2>0, <3>1, <3>2, DeclaredMoves, OneBookMoves
  <2>7. ASSUME NEW d \in Deals,
               NEW r \in {"mark_as_lost", "mark_as_destroyed", "mark_as_found"},
               ResolveException(d, r)
        PROVE  Moved(b)
    <3>1. book[deal[d].book].status = "E" /\ ListingTransitions[r].to \in {"L", "D", "S"}
      BY <2>7 DEF ResolveException, ListingTransitions
    <3>2. /\ book'[deal[d].book].status = ListingTransitions[r].to
          /\ \A a \in Books : a # deal[d].book => book'[a].status = book[a].status
      BY <2>0, <2>7 DEF ResolveException, BookRow
    <3> QED
      BY <2>0, <3>1, <3>2, DeclaredMoves, OneBookMoves
  <2>8. ASSUME NEW c \in Books, ToggleListing(c) PROVE Moved(b)
    <3>1. /\ \/ book[c].status = "S" /\ book'[c].status = "T"
             \/ book[c].status = "T" /\ book'[c].status = "S"
          /\ \A a \in Books : a # c => book'[a].status = book[a].status
      BY <2>0, <2>8 DEF ToggleListing, BookRow
    <3> QED
      BY <3>1, DeclaredMoves, OneBookMoves
  <2>9. ASSUME NEW c \in Books, NEW tr \in Transferability, NEW mt \in Levels,
               NEW ld \in LoanDays, UpdateBook(c, tr, mt, ld)
        PROVE  Moved(b)
    BY <2>0, <2>9 DEF UpdateBook, BookRow
  <2>10. book' # book
    OBVIOUS
  <2> QED
    BY <2>1, <2>2, <2>3, <2>4, <2>5, <2>6, <2>7, <2>8, <2>9, <2>10
       DEF Next, CreateDeal, DeclineDeal, CreateRating, RecalculateTrust, NextDay
<1>2. Init => Remembers
  BY DEF Init, Unused, Remembers
<1> QED
  BY <1>1, <1>2, InitTyped, NextTyped, InitReservation, NextReservation, NextRemembers,
     PTL DEF Spec, StatusMovesAsDeclared
=============================================================================
