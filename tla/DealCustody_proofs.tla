-------------------------- MODULE DealCustody_proofs --------------------------
(***************************************************************************)
(* The exchange implements Custody, for any number of accounts, books and  *)
(* deals.                                                                  *)
(***************************************************************************)
EXTENDS DealCustody, DealLifecycle_proofs

-----------------------------------------------------------------------------
(* The reservation a status "V" stands for *)

ReservationsRead ==
  /\ \A d \in Deals : deal[d].status = "P" => ReservedFor[deal[d].book] = d
  /\ \A b \in Books : book[b].status # "V" => ReservedFor[b] = NoDeal

LEMMA ReservedForIt == TypeOK /\ Reservation => ReservationsRead
<1> SUFFICES ASSUME TypeOK, Reservation PROVE ReservationsRead
  OBVIOUS
<1>1. ASSUME NEW d \in Deals, deal[d].status = "P"
      PROVE  ReservedFor[deal[d].book] = d
  <2>1. deal[d].book \in Books /\ book[deal[d].book].status = "V"
    BY <1>1 DEF Reservation, TypeOK, DealRow
  <2>2. d \in AcceptedOn(deal[d].book)
    BY <1>1 DEF AcceptedOn, DealsOn
  <2>3. \A e \in AcceptedOn(deal[d].book) : e = d
    BY <1>1 DEF AcceptedOn, DealsOn, Reservation
  <2>4. (CHOOSE e \in AcceptedOn(deal[d].book) : TRUE) = d
    BY <2>2, <2>3
  <2> QED
    BY <2>1, <2>4 DEF ReservedFor
<1>2. ASSUME NEW b \in Books, book[b].status # "V" PROVE ReservedFor[b] = NoDeal
  BY <1>2 DEF ReservedFor
<1> QED
  BY <1>1, <1>2 DEF ReservationsRead

LEMMA ReservedForItAfter == TypeOK' /\ Reservation' => ReservationsRead'
BY ReservedForIt, PTL

\* A step that leaves a book's "V" and its accepted deals alone leaves its
\* reservation alone.
SameReservation(b) ==
  /\ book'[b].status = "V" <=> book[b].status = "V"
  /\ \A d \in Deals : deal'[d].status = "P" /\ deal'[d].book = b
                        <=> deal[d].status = "P" /\ deal[d].book = b

LEMMA ReservationStays ==
  ASSUME TypeOK, Reservation, TypeOK', Reservation', NEW b \in Books, SameReservation(b)
  PROVE  ReservedFor'[b] = ReservedFor[b]
<1>0. ReservationsRead /\ ReservationsRead'
  BY ReservedForIt, ReservedForItAfter
<1>1. CASE book[b].status = "V"
  <2>1. PICK d \in Deals : deal[d].status = "P" /\ deal[d].book = b
    BY <1>1 DEF Reservation
  <2>2. deal'[d].status = "P" /\ deal'[d].book = b
    BY <2>1 DEF SameReservation
  <2> QED
    BY <1>0, <2>1, <2>2 DEF ReservationsRead
<1>2. CASE book[b].status # "V"
  BY <1>0, <1>2 DEF SameReservation, ReservationsRead
<1> QED
  BY <1>1, <1>2

\* Two functions that differ at b only.
LEMMA ChangedAt ==
  ASSUME NEW S, NEW f, NEW g, NEW b \in S, NEW v,
         f = [c \in S |-> f[c]], g = [c \in S |-> g[c]],
         g[b] = v, \A c \in S : c # b => g[c] = f[c]
  PROVE  g = [f EXCEPT ![b] = v]
OBVIOUS

LEMMA ReservedForIsFunction ==
  /\ ReservedFor = [c \in Books |-> ReservedFor[c]]
  /\ ReservedFor' = [c \in Books |-> ReservedFor'[c]]
BY DEF ReservedFor

LEMMA ReservationsStay ==
  ASSUME TypeOK, Reservation, TypeOK', Reservation', \A b \in Books : SameReservation(b)
  PROVE  ReservedFor' = ReservedFor
<1>1. \A b \in Books : ReservedFor'[b] = ReservedFor[b]
  BY ReservationStays
<1> QED
  BY <1>1 DEF ReservedFor
-----------------------------------------------------------------------------
(* Each kind of step *)

LEMMA InitCustody == Init => C!CustodyInit
<1> SUFFICES ASSUME Init PROVE C!CustodyInit
  OBVIOUS
<1>1. Holder = [b \in Books |-> Owner[b]]
  BY DEF Init, Holder
<1>2. ReservedFor = [b \in Books |-> NoDeal]
  BY DEF Init, ReservedFor, BookRow
<1>3. Met = {}
  BY DEF Init, Met, Unused
<1> QED
  BY <1>1, <1>2, <1>3 DEF C!CustodyInit

\* Accepting reserves the book.
LEMMA AcceptReserves ==
  ASSUME TypeOK, Reservation, TypeOK', Reservation', NEW d \in Deals, AcceptDeal(d)
  PROVE  C!Reserve(deal[d].book, d)
<1> DEFINE b == deal[d].book
<1>0. /\ ReservationsRead /\ ReservationsRead'
      /\ DOMAIN deal = Deals /\ DOMAIN book = Books
      /\ \A e \in Deals : deal[e] \in DealRow /\ deal[e].book \in Books
      /\ \A c \in Books : book[c] \in BookRow
  BY ReservedForIt, ReservedForItAfter DEF TypeOK, DealRow
<1>1. /\ deal[d].status = "Q" /\ book[b].status = "T"
      /\ deal'[d].status = "P" /\ deal'[d].book = b
      /\ \A e \in Deals : e # d => /\ deal'[e].book = deal[e].book
                                   /\ deal'[e].type = deal[e].type
                                   /\ \/ deal'[e].status = deal[e].status
                                      \/ deal[e].status = "Q" /\ deal'[e].status = "X"
      /\ book'[b].status = "V" /\ book'[b].keeper = book[b].keeper
      /\ \A c \in Books : c # b => book'[c] = book[c]
  <2>1. deal[d].status = "Q" /\ book[b].status = "T"
    BY DEF AcceptDeal, CanAccept, DealTransitions
  <2>2. deal'[d].status = "P" /\ deal'[d].book = b
    <3>1. deal'[d] = [deal[d] EXCEPT !.status = "P"]
      BY DEF AcceptDeal, Siblings
    <3> QED
      BY <1>0, <3>1 DEF DealRow
  <2>3. ASSUME NEW e \in Deals, e # d
        PROVE  /\ deal'[e].book = deal[e].book
               /\ deal'[e].type = deal[e].type
               /\ \/ deal'[e].status = deal[e].status
                  \/ deal[e].status = "Q" /\ deal'[e].status = "X"
    <3>1. CASE e \in Siblings(d)
      <4>1. deal'[e] = [deal[e] EXCEPT !.status = "X"]
        BY <2>3, <3>1 DEF AcceptDeal
      <4>2. deal[e].status = "Q"
        BY <3>1 DEF Siblings
      <4> QED
        BY <1>0, <4>1, <4>2 DEF DealRow
    <3>2. CASE e \notin Siblings(d)
      <4>1. deal'[e] = deal[e]
        BY <2>3, <3>2 DEF AcceptDeal
      <4> QED
        BY <4>1
    <3> QED
      BY <3>1, <3>2
  <2>4. /\ book'[b].status = "V" /\ book'[b].keeper = book[b].keeper
        /\ \A c \in Books : c # b => book'[c] = book[c]
    BY <1>0 DEF AcceptDeal, BookRow
  <2> QED
    BY <2>1, <2>2, <2>3, <2>4
<1>2. ReservedFor[b] = NoDeal
  BY <1>0, <1>1 DEF ReservationsRead
<1>3. \A c \in Books : ReservedFor[c] # d
  <2> SUFFICES ASSUME NEW c \in Books, ReservedFor[c] = d PROVE FALSE
    OBVIOUS
  <2>1. book[c].status = "V"
    BY <1>0, NoDealAssumption DEF ReservationsRead
  <2>2. PICK e \in Deals : deal[e].status = "P" /\ deal[e].book = c
    BY <2>1 DEF Reservation
  <2>3. ReservedFor[c] = e
    BY <1>0, <2>2 DEF ReservationsRead
  <2> QED
    BY <1>1, <2>2, <2>3
<1>4. d \notin Met
  BY <1>1 DEF Met
<1>5. ReservedFor' = [ReservedFor EXCEPT ![b] = d]
  <2>1. ReservedFor'[b] = d
    BY <1>0, <1>1 DEF ReservationsRead
  <2>2. ASSUME NEW c \in Books, c # b PROVE ReservedFor'[c] = ReservedFor[c]
    <3>1. SameReservation(c)
      BY <1>1, <2>2 DEF SameReservation
    <3> QED
      BY <3>1, ReservationStays
  <2>3. b \in Books
    BY <1>0
  <2> HIDE DEF b
  <2> QED
    BY <2>1, <2>2, <2>3, ReservedForIsFunction, ChangedAt
<1>6. Holder' = Holder
  BY <1>1 DEF Holder
<1>7. Met' = Met
  <2>1. deal'[d].status \notin {"M", "D"} /\ deal[d].status \notin {"M", "D"}
    BY <1>1
  <2>2. \A e \in Deals : deal'[e].status \in {"M", "D"} /\ deal'[e].type # "EX"
                           <=> deal[e].status \in {"M", "D"} /\ deal[e].type # "EX"
    BY <1>1, <2>1
  <2> QED
    BY <2>2 DEF Met
<1> QED
  BY <1>2, <1>3, <1>4, <1>5, <1>6, <1>7 DEF C!Reserve

\* A meeting hands the book over for the deal it was reserved for.
LEMMA MeetingHandsOver ==
  ASSUME TypeOK, Reservation, TypeOK', Reservation', NEW d \in Deals, CompleteMeeting(d)
  PROVE  C!HandOver(deal[d].book, KeeperAfterMeeting(d))
<1> DEFINE b == deal[d].book
           u == KeeperAfterMeeting(d)
<1>0. /\ ReservationsRead /\ ReservationsRead'
      /\ DOMAIN deal = Deals /\ DOMAIN book = Books
      /\ \A e \in Deals : deal[e] \in DealRow /\ deal[e].book \in Books
      /\ \A c \in Books : book[c] \in BookRow
  BY ReservedForIt, ReservedForItAfter DEF TypeOK, DealRow
<1>1. deal[d].status = "P" /\ book[b].status = "V"
  BY DEF CompleteMeeting, CanMeet, Reservation
<1>2. deal[d].type \in {"LN", "TF", "RS", "RG"} /\ MeetTransition(deal[d].type).to # "V"
  <2>1. "V" \in MeetTransition(deal[d].type).from
    BY <1>1 DEF CompleteMeeting, CanMeet
  <2>2. deal[d].type # "EX"
    BY <2>1 DEF MeetTransition, Borrowing, ListingTransitions
  <2> QED
    BY <1>0, <2>2 DEF MeetTransition, DealRow, DealType, Borrowing, DealTransitions
<1>3. /\ book'[b].status # "V" /\ book'[b].keeper = u
      /\ \A c \in Books : c # b => book'[c] = book[c]
      /\ deal'[d].status = "M" /\ deal'[d].book = b /\ deal'[d].type = deal[d].type
      /\ \A e \in Deals : e # d => deal'[e] = deal[e]
  BY <1>0, <1>2 DEF CompleteMeeting, BookRow, DealRow
<1>4. ReservedFor[b] = d /\ ReservedFor'[b] = NoDeal
  BY <1>0, <1>1, <1>3 DEF ReservationsRead
<1>5. ReservedFor' = [ReservedFor EXCEPT ![b] = NoDeal]
  <2>1. ASSUME NEW c \in Books, c # b PROVE ReservedFor'[c] = ReservedFor[c]
    <3>1. SameReservation(c)
      BY <1>3, <2>1 DEF SameReservation
    <3> QED
      BY <3>1, ReservationStays
  <2>2. b \in Books
    BY <1>0
  <2> HIDE DEF b
  <2> QED
    BY <1>4, <2>1, <2>2, ReservedForIsFunction, ChangedAt
<1>6. Holder' = [Holder EXCEPT ![b] = u]
  BY <1>0, <1>3 DEF Holder
<1>7. Met' = Met \cup {ReservedFor[b]}
  BY <1>2, <1>3, <1>4 DEF Met
<1>8. ReservedFor[b] # NoDeal
  BY <1>4, NoDealAssumption
<1> QED
  BY <1>5, <1>6, <1>7, <1>8 DEF C!HandOver

\* Every other step leaves reservations and meetings alone, and at most
\* brings a book that nobody has reserved home.
LEMMA QuietStep ==
  ASSUME TypeOK, Reservation, TypeOK', Reservation',
         \A b \in Books : SameReservation(b), Met' = Met,
         NEW c \in Books, book[c].status # "V",
         book'[c].keeper \in {book[c].keeper, Owner[c]},
         \A b \in Books : b # c => book'[b].keeper = book[b].keeper
  PROVE  [C!CustodyNext]_(C!custodyVars)
<1>1. ReservedFor' = ReservedFor
  BY ReservationsStay
<1>2. ReservedFor[c] = NoDeal
  BY DEF ReservedFor
<1>3. CASE book'[c].keeper = book[c].keeper
  <2>1. Holder' = Holder
    BY <1>3 DEF Holder
  <2> QED
    BY <1>1, <2>1 DEF C!custodyVars
<1>4. CASE book'[c].keeper = Owner[c]
  <2>1. Holder' = [Holder EXCEPT ![c] = Owner[c]]
    BY <1>4 DEF Holder
  <2>2. C!GoHome(c)
    BY <1>1, <1>2, <2>1 DEF C!GoHome
  <2> QED
    BY <2>2 DEF C!CustodyNext
<1> QED
  BY <1>3, <1>4

LEMMA NextCustody ==
  TypeOK /\ Reservation /\ TypeOK' /\ Reservation' /\ [Next]_vars
    => [C!CustodyNext]_(C!custodyVars)
<1> SUFFICES ASSUME TypeOK, Reservation, TypeOK', Reservation', [Next]_vars
             PROVE  [C!CustodyNext]_(C!custodyVars)
  OBVIOUS
<1>0. /\ DOMAIN deal = Deals /\ DOMAIN book = Books
      /\ \A e \in Deals : deal[e] \in DealRow /\ deal[e].book \in Books
      /\ \A c \in Books : book[c] \in BookRow
  BY DEF TypeOK, DealRow
<1>a. ASSUME \A b \in Books : SameReservation(b), Met' = Met,
             \A b \in Books : book'[b].keeper = book[b].keeper
      PROVE  [C!CustodyNext]_(C!custodyVars)
  <2>1. ReservedFor' = ReservedFor
    BY <1>a, ReservationsStay
  <2>2. Holder' = Holder
    BY <1>a DEF Holder
  <2> QED
    BY <1>a, <2>1, <2>2 DEF C!custodyVars
<1>1. ASSUME NEW u \in Users, NEW b \in Books, NEW ty \in DealType, NEW d \in Deals,
             CreateDeal(u, b, ty, d)
      PROVE  [C!CustodyNext]_(C!custodyVars)
  <2>1. /\ book' = book
        /\ deal[d].status = "-" /\ deal'[d].status = "Q"
        /\ \A e \in Deals : e # d => deal'[e] = deal[e]
    BY <1>0, <1>1 DEF CreateDeal, NewDeal
  <2>2. \A c \in Books : SameReservation(c)
    BY <2>1 DEF SameReservation
  <2>3. Met' = Met
    BY <2>1 DEF Met
  <2> QED
    BY <1>a, <2>1, <2>2, <2>3
<1>2. ASSUME NEW u \in Users, NEW b \in Books, NEW d \in Deals, CreateException(u, b, d)
      PROVE  [C!CustodyNext]_(C!custodyVars)
  <2>1. /\ deal[d].status = "-" /\ deal'[d].status = "Q"
        /\ \A e \in Deals : e # d => deal'[e] = deal[e]
    BY <1>0, <1>2 DEF CreateException, NewDeal
  <2>2. /\ book[b].status # "V" /\ book'[b].status = "E"
        /\ \A c \in Books : book'[c].keeper = book[c].keeper
        /\ \A c \in Books : c # b => book'[c] = book[c]
    BY <1>0, <1>2 DEF CreateException, MayCreate, RequiredStatus, Borrowing, BookRow
  <2>3. \A c \in Books : SameReservation(c)
    BY <2>1, <2>2 DEF SameReservation
  <2>4. Met' = Met
    BY <2>1 DEF Met
  <2> QED
    BY <1>a, <2>2, <2>3, <2>4
<1>3. ASSUME NEW d \in Deals, AcceptDeal(d) PROVE [C!CustodyNext]_(C!custodyVars)
  <2>1. C!Reserve(deal[d].book, d)
    BY <1>3, AcceptReserves
  <2> QED
    BY <1>0, <2>1 DEF C!CustodyNext
<1>4. ASSUME NEW d \in Deals, DeclineDeal(d) PROVE [C!CustodyNext]_(C!custodyVars)
  <2>1. /\ book' = book
        /\ deal[d].status = "Q" /\ deal'[d].status = "X"
        /\ \A e \in Deals : e # d => deal'[e] = deal[e]
    BY <1>0, <1>4 DEF DeclineDeal, DealRow
  <2>2. \A c \in Books : SameReservation(c)
    BY <2>1 DEF SameReservation
  <2>3. Met' = Met
    BY <2>1 DEF Met
  <2> QED
    BY <1>a, <2>1, <2>2, <2>3
<1>5. ASSUME NEW d \in Deals, CancelDeal(d) PROVE [C!CustodyNext]_(C!custodyVars)
  <2>1. /\ deal[d].status = "Q" /\ deal'[d].status = "X"
        /\ \A e \in Deals : e # d => deal'[e] = deal[e]
    BY <1>0, <1>5 DEF CancelDeal, DealRow
  <2>2. /\ book[deal[d].book].status # "V" /\ book'[deal[d].book].status # "V"
        /\ \A c \in Books : book'[c].keeper = book[c].keeper
        /\ \A c \in Books : c # deal[d].book => book'[c] = book[c]
    BY <1>0, <1>5, <2>1 DEF CancelDeal, Reservation, BookRow
  <2>3. \A c \in Books : SameReservation(c)
    BY <2>1, <2>2 DEF SameReservation
  <2>4. Met' = Met
    BY <2>1 DEF Met
  <2> QED
    BY <1>a, <2>2, <2>3, <2>4
<1>6. ASSUME NEW d \in Deals, CompleteMeeting(d) PROVE [C!CustodyNext]_(C!custodyVars)
  <2>1. KeeperAfterMeeting(d) \in Users
    BY <1>0 DEF KeeperAfterMeeting, DealRow, BookRow, DealType, Borrowing
  <2>2. C!HandOver(deal[d].book, KeeperAfterMeeting(d))
    BY <1>6, MeetingHandsOver
  <2> QED
    BY <1>0, <2>1, <2>2 DEF C!CustodyNext
<1>7. ASSUME NEW d \in Deals, NEW u \in Users, CreateRating(d, u)
      PROVE  [C!CustodyNext]_(C!custodyVars)
  <2>1. /\ book' = book
        /\ \A e \in Deals : /\ deal'[e].status = deal[e].status
                           /\ deal'[e].book = deal[e].book
                           /\ deal'[e].type = deal[e].type
    BY <1>0, <1>7 DEF CreateRating, DealRow
  <2>2. \A c \in Books : SameReservation(c)
    BY <2>1 DEF SameReservation
  <2>3. Met' = Met
    BY <2>1 DEF Met
  <2> QED
    BY <1>a, <2>1, <2>2, <2>3
<1>8. ASSUME ProcessDueBooks PROVE [C!CustodyNext]_(C!custodyVars)
  <2>1. /\ deal' = deal
        /\ \A b \in Books : /\ book'[b].status = "V" <=> book[b].status = "V"
                            /\ book'[b].keeper = book[b].keeper
    BY <1>0, <1>8 DEF ProcessDueBooks, DueBooks, DueDeals, BookRow
  <2>2. \A c \in Books : SameReservation(c)
    BY <2>1 DEF SameReservation
  <2>3. Met' = Met
    BY <2>1 DEF Met
  <2> QED
    BY <1>a, <2>1, <2>2, <2>3
<1>9. ASSUME NEW d \in Deals, NEW u \in Users, NEW force \in BOOLEAN,
             ConfirmReturn(d, u, force)
      PROVE  [C!CustodyNext]_(C!custodyVars)
  <2>1. /\ deal[d].status = "M" /\ deal'[d].status = "D"
        /\ deal'[d].type = deal[d].type
        /\ \A e \in Deals : e # d => deal'[e] = deal[e]
    BY <1>0, <1>9 DEF ConfirmReturn, DealRow
  <2>2. /\ book[deal[d].book].status = "O"
        /\ book'[deal[d].book].status = "T"
        /\ book'[deal[d].book].keeper = Owner[deal[d].book]
        /\ \A c \in Books : c # deal[d].book => book'[c] = book[c]
    BY <1>0, <1>9 DEF ConfirmReturn, DealTransitions, BookRow
  <2>3. \A c \in Books : SameReservation(c)
    BY <2>1, <2>2 DEF SameReservation
  <2>4. Met' = Met
    BY <2>1 DEF Met
  <2> QED
    BY <1>0, <2>2, <2>3, <2>4, QuietStep
<1>10. ASSUME NEW d \in Deals,
              NEW r \in {"mark_as_lost", "mark_as_destroyed", "mark_as_found"},
              ResolveException(d, r)
       PROVE  [C!CustodyNext]_(C!custodyVars)
  <2>1. /\ deal[d].type = "EX" /\ deal'[d].type = "EX"
        /\ deal[d].status \in Open /\ deal'[d].status = "D"
        /\ \A e \in Deals : e # d => deal'[e] = deal[e]
    BY <1>0, <1>10 DEF ResolveException, DealRow
  <2>2. /\ book[deal[d].book].status = "E" /\ book'[deal[d].book].status # "V"
        /\ book'[deal[d].book].keeper
             \in {book[deal[d].book].keeper, Owner[deal[d].book]}
        /\ \A c \in Books : c # deal[d].book => book'[c] = book[c]
    BY <1>0, <1>10 DEF ResolveException, ListingTransitions, BookRow
  <2>3. deal[d].status # "P"
    BY <2>2 DEF Reservation
  <2>4. \A c \in Books : SameReservation(c)
    BY <2>1, <2>2, <2>3 DEF SameReservation
  <2>5. Met' = Met
    BY <2>1 DEF Met
  <2> QED
    BY <1>0, <2>2, <2>4, <2>5, QuietStep
<1>11. ASSUME NEW b \in Books, ToggleListing(b) PROVE [C!CustodyNext]_(C!custodyVars)
  <2>1. /\ deal' = deal
        /\ \A c \in Books : /\ book'[c].status = "V" <=> book[c].status = "V"
                            /\ book'[c].keeper = book[c].keeper
    <3>1. CASE book[b].status = "S" /\ book' = [book EXCEPT ![b].status = "T"]
      BY <1>0, <1>11, <3>1 DEF ToggleListing, BookRow
    <3>2. CASE book[b].status = "T" /\ book' = [book EXCEPT ![b].status = "S"]
      BY <1>0, <1>11, <3>2 DEF ToggleListing, BookRow
    <3> QED
      BY <1>11, <3>1, <3>2 DEF ToggleListing
  <2>2. \A c \in Books : SameReservation(c)
    BY <2>1 DEF SameReservation
  <2>3. Met' = Met
    BY <2>1 DEF Met
  <2> QED
    BY <1>a, <2>1, <2>2, <2>3
<1>12. ASSUME NEW b \in Books, NEW tr \in Transferability, NEW mt \in Levels,
              NEW ld \in LoanDays, UpdateBook(b, tr, mt, ld)
       PROVE  [C!CustodyNext]_(C!custodyVars)
  <2>1. /\ deal' = deal
        /\ \A c \in Books : /\ book'[c].status = book[c].status
                            /\ book'[c].keeper = book[c].keeper
    BY <1>0, <1>12 DEF UpdateBook, BookRow
  <2>2. \A c \in Books : SameReservation(c)
    BY <2>1 DEF SameReservation
  <2>3. Met' = Met
    BY <2>1 DEF Met
  <2> QED
    BY <1>a, <2>1, <2>2, <2>3
<1>13. CASE RecalculateTrust \/ NextDay \/ UNCHANGED vars
  <2>1. deal' = deal /\ book' = book
    BY <1>13 DEF RecalculateTrust, NextDay, vars
  <2>2. \A c \in Books : SameReservation(c)
    BY <2>1 DEF SameReservation
  <2>3. Met' = Met
    BY <2>1 DEF Met
  <2> QED
    BY <1>a, <2>1, <2>2, <2>3
<1> QED
  BY <1>1, <1>2, <1>3, <1>4, <1>5, <1>6, <1>7, <1>8, <1>9, <1>10, <1>11, <1>12, <1>13
  DEF Next

\* The services as a whole keep the custody of every book in order: a book is
\* reserved for one deal at a time, a deal reserves once, and a book changes
\* hands only for the deal it is reserved for or to go home unreserved.
THEOREM CustodyImplemented == Spec => ImplementsCustody
<1>1. Spec => [](TypeOK /\ Reservation)
  BY InitTyped, NextTyped, InitReservation, NextReservation, PTL DEF Spec
<1>2. [](TypeOK /\ Reservation) /\ [][Next]_vars => [][C!CustodyNext]_(C!custodyVars)
  BY NextCustody, PTL
<1> QED
  BY <1>1, <1>2, InitCustody, PTL DEF Spec, ImplementsCustody, C!CustodySpec
=============================================================================
