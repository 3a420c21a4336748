-------------------------- MODULE DealRaces_proofs --------------------------
(***************************************************************************)
(* DealRaces: type correctness; whatever overlaps, an acceptance takes the *)
(* book from the shelf, an applicant is over the limit by one loan for     *)
(* each further call at most, and nothing comes to a standstill; requests, *)
(* acceptances, meetings and the job hand the book over exactly, and       *)
(* implement Custody.  For any number of loans and of calls in progress.   *)
(***************************************************************************)
EXTENDS DealRaces, TLAPS, FiniteSetTheorems

(* Types *)

\* What a call in progress is.
LEMMA Running ==
  ASSUME TypeOK, NEW c \in Calls, call[c] # Idle
  PROVE  /\ call[c] \in Call
         /\ call[c].op # "save" => call[c].deal \in Deals
BY RaceAssumption DEF TypeOK, Call

LEMMA InitTyped == Init => TypeOK
BY DEF Init, TypeOK, BookRow, DealRow, OnShelf, NewRow

\* A step writes typed rows, and one call at most.
LEMMA StepTyped ==
  ASSUME TypeOK, NEW c \in Calls, NEW k \in {Idle} \cup Call,
         k # Idle => (k.deal = NoDeal <=> k.op = "save"),
         call' = [call EXCEPT ![c] = k],
         book' \in BookRow, deal' \in [Deals -> DealRow], job' \in SUBSET Deals
  PROVE  TypeOK'
BY DEF TypeOK

LEMMA FailTyped ==
  ASSUME TypeOK, NEW c \in Calls, Fail(c)
  PROVE  TypeOK'
BY DEF TypeOK, Fail, End, Rows

\* A call goes on to another stage.
LEMMA StageTyped ==
  ASSUME TypeOK, NEW c \in Calls, call[c] # Idle, NEW k \in Call,
         k.deal = call[c].deal, k.op = call[c].op,
         call' = [call EXCEPT ![c] = k], UNCHANGED Rows
  PROVE  TypeOK'
BY StepTyped DEF TypeOK, Rows

LEMMA BeginTyped ==
  ASSUME TypeOK, NEW c \in Calls, NEW op \in AllOps, NEW d \in Deals \cup {NoDeal},
         d = NoDeal <=> op = "save", Begin(c, op, d)
  PROVE  TypeOK'
<1>. DEFINE k == [op |-> op, at |-> "start", deal |-> d, holds |-> {}, onbook |-> FALSE,
                  rest |-> {},
                  seen |-> IF op \in {"cancel", "meet"} THEN deal[d] ELSE NewRow,
                  copy |-> IF op = "save" THEN book ELSE OnShelf]
<1>1. k.seen \in DealRow /\ k.copy \in BookRow
  BY DEF TypeOK, BookRow, DealRow, OnShelf, NewRow
<1>2. k \in Call
  BY <1>1 DEF Call
<1>3. call' = [call EXCEPT ![c] = k]
  BY DEF Begin
<1>. QED
  BY <1>2, <1>3, StepTyped DEF TypeOK, Begin, Rows

LEMMA StartTyped ==
  ASSUME TypeOK, NEW c \in Calls, StartCall(c)
  PROVE  TypeOK'
BY BeginTyped, RaceAssumption
   DEF StartCall, StartRequest, StartAccept, StartCancel, StartMeet, StartReturn, StartSave,
       AllOps

LEMMA EndTyped ==
  ASSUME TypeOK, NEW c \in Calls, End(c),
         book' \in BookRow, deal' \in [Deals -> DealRow], job' \in SUBSET Deals
  PROVE  TypeOK'
BY StepTyped DEF End

LEMMA ProceedTyped ==
  ASSUME TypeOK, NEW c \in Calls, Proceed(c)
  PROVE  TypeOK'
<1>. DEFINE d == call[c].deal
<1>0. call[c] # Idle
  BY DEF Proceed, CountOpen, InsertDeal, LockDeal, LockBook, LockSibling, Accept, RestoreBook,
         SaveCancelled, LoadBook, SaveBook, Meet, LockForReturn, Return, SaveLoadedBook, Doing
<1>1. /\ call[c] \in Call
      /\ call[c].op # "save" => d \in Deals
      /\ book \in BookRow /\ deal \in [Deals -> DealRow] /\ job \in SUBSET Deals
  BY <1>0, Running DEF TypeOK
<1>2. /\ call[c].seen \in DealRow /\ call[c].copy \in BookRow
      /\ call[c].holds \in SUBSET Deals /\ call[c].rest \in SUBSET Deals
  BY <1>1 DEF Call
<1>3. CASE CountOpen(c)
  <2>1. \/ Fail(c)
        \/ call' = [call EXCEPT ![c].at = "next"] /\ UNCHANGED Rows
    BY <1>3, Zenon DEF CountOpen
  <2>2. CASE call' = [call EXCEPT ![c].at = "next"] /\ UNCHANGED Rows
    <3>1. call' = [call EXCEPT ![c] = [call[c] EXCEPT !.at = "next"]]
      BY <2>2
    <3>2. /\ [call[c] EXCEPT !.at = "next"] \in Call
          /\ [call[c] EXCEPT !.at = "next"].deal = d
          /\ [call[c] EXCEPT !.at = "next"].op = call[c].op
      BY <1>1, <1>2 DEF Call
    <3>. QED
      BY <1>0, <2>2, <3>1, <3>2, StageTyped
  <2>. QED
    BY <2>1, <2>2, FailTyped
<1>4. CASE InsertDeal(c)
  <2>1. deal' \in [Deals -> DealRow]
    BY <1>1, <1>4 DEF InsertDeal, Doing, DealRow
  <2>. QED
    BY <1>1, <1>4, <2>1, EndTyped DEF InsertDeal
<1>5. CASE LockDeal(c)
  <2>. DEFINE k == [call[c] EXCEPT !.at = "next", !.holds = {d}]
  <2>1. call' = [call EXCEPT ![c] = k] /\ UNCHANGED Rows /\ call[c].op = "accept"
    BY <1>5 DEF LockDeal, Doing
  <2>2. {d} \in SUBSET Deals
    BY <1>1, <2>1
  <2>3. k \in Call /\ k.deal = d /\ k.op = call[c].op
    BY <1>1, <2>2, <1>2 DEF Call
  <2>. QED
    BY <1>0, <2>1, <2>3, StageTyped
<1>6. CASE LockBook(c)
  <2>. DEFINE t == {s \in Deals \ {d} : deal[s].status = "Q"}
              k == [call[c] EXCEPT !.at = "ready", !.onbook = TRUE, !.rest = t]
  <2>1. \/ Fail(c)
        \/ call' = [call EXCEPT ![c] = k] /\ UNCHANGED Rows
    BY <1>6 DEF LockBook
  <2>2. k \in Call /\ k.deal = d /\ k.op = call[c].op
    BY <1>1, <1>2 DEF Call
  <2>. QED
    BY <1>0, <2>1, <2>2, StageTyped, FailTyped
<1>7. CASE \E s \in Deals : LockSibling(c, s)
  <2>1. PICK s \in Deals : LockSibling(c, s)
    BY <1>7
  <2>. DEFINE k == [call[c] EXCEPT !.holds = call[c].holds \cup {s}]
  <2>2. call' = [call EXCEPT ![c] = k] /\ UNCHANGED Rows
    BY <2>1 DEF LockSibling
  <2>3. call[c].holds \cup {s} \in SUBSET Deals
    BY <1>2
  <2>4. k \in Call /\ k.deal = d /\ k.op = call[c].op
    BY <1>1, <2>3, <1>2 DEF Call
  <2>. QED
    BY <1>0, <2>2, <2>4, StageTyped
<1>8. CASE Accept(c)
  <2>1. deal' \in [Deals -> DealRow]
    BY <1>1, <1>8 DEF Accept, DealRow
  <2>2. book' \in BookRow
    BY <1>1, <1>8 DEF Accept, BookRow
  <2>. QED
    BY <1>1, <1>8, <2>1, <2>2, EndTyped DEF Accept
<1>9. CASE RestoreBook(c)
  <2>. DEFINE k == [call[c] EXCEPT !.at = "next"]
  <2>1. book' \in BookRow
    BY <1>1, <1>9 DEF RestoreBook, BookRow
  <2>2. k \in Call /\ k.deal = d /\ k.op = call[c].op
    BY <1>1, <1>2 DEF Call
  <2>3. call' = [call EXCEPT ![c] = k] /\ UNCHANGED <<deal, job>>
    BY <1>9 DEF RestoreBook
  <2>4. k # Idle => (k.deal = NoDeal <=> k.op = "save")
    BY <1>0, <2>2 DEF TypeOK
  <2>. HIDE DEF k
  <2>. QED
    BY <1>1, <2>1, <2>2, <2>3, <2>4, StepTyped
<1>10. CASE SaveCancelled(c)
  <2>1. deal' \in [Deals -> DealRow]
    BY <1>1, <1>2, <1>10 DEF SaveCancelled, DealRow
  <2>. QED
    BY <1>1, <1>10, <2>1, EndTyped DEF SaveCancelled
<1>11. CASE LoadBook(c)
  <2>. DEFINE k == [call[c] EXCEPT !.at = "next", !.copy = book]
  <2>1. \/ Fail(c)
        \/ call' = [call EXCEPT ![c] = k] /\ UNCHANGED Rows
    BY <1>11 DEF LoadBook
  <2>2. k \in Call /\ k.deal = d /\ k.op = call[c].op
    BY <1>1, <1>2 DEF Call
  <2>. QED
    BY <1>0, <2>1, <2>2, StageTyped, FailTyped
<1>12. CASE SaveBook(c)
  <2>. DEFINE k == [call[c] EXCEPT !.at = "ready", !.onbook = TRUE]
  <2>1. call' = [call EXCEPT ![c] = k] /\ UNCHANGED Rows
    BY <1>12 DEF SaveBook
  <2>2. k \in Call /\ k.deal = d /\ k.op = call[c].op
    BY <1>1, <1>2 DEF Call
  <2>. QED
    BY <1>0, <2>1, <2>2, StageTyped
<1>13. CASE Meet(c)
  <2>1. d \in Deals
    BY <1>1, <1>13 DEF Meet, Doing
  <2>2. deal' \in [Deals -> DealRow]
    BY <1>1, <1>2, <1>13 DEF Meet, DealRow
  <2>3. book' \in BookRow
    BY <1>2, <1>13, <2>1 DEF Meet, BookRow
  <2>. QED
    BY <1>1, <1>13, <2>2, <2>3, EndTyped DEF Meet
<1>14. CASE LockForReturn(c)
  <2>1. CASE /\ Doing(c, "return", "start") /\ BookFree(c)
             /\ call' = [call EXCEPT ![c].at = "next", ![c].onbook = TRUE]
             /\ UNCHANGED Rows
    <3>. DEFINE k == [call[c] EXCEPT !.at = "next", !.onbook = TRUE]
    <3>1. call' = [call EXCEPT ![c] = k] /\ UNCHANGED Rows
      BY <2>1
    <3>2. k \in Call /\ k.deal = d /\ k.op = call[c].op
      BY <1>1, <1>2 DEF Call
    <3>. QED
      BY <1>0, <3>1, <3>2, StageTyped
  <2>2. CASE /\ Doing(c, "return", "next") /\ DealFree(c, d)
             /\ call' = [call EXCEPT ![c].at = "ready", ![c].holds = {d}]
             /\ UNCHANGED Rows
    <3>. DEFINE k == [call[c] EXCEPT !.at = "ready", !.holds = {d}]
    <3>1. call' = [call EXCEPT ![c] = k] /\ UNCHANGED Rows
      BY <2>2
    <3>2. {d} \in SUBSET Deals
      BY <1>1, <2>2 DEF Doing
    <3>3. k \in Call /\ k.deal = d /\ k.op = call[c].op
      BY <1>1, <3>2, <1>2 DEF Call
    <3>. QED
      BY <1>0, <3>1, <3>3, StageTyped
  <2>. QED
    BY <1>14, <2>1, <2>2 DEF LockForReturn
<1>15. CASE Return(c)
  <2>1. \/ Fail(c)
        \/ /\ book' = OnShelf /\ End(c) /\ UNCHANGED job
           /\ deal' = [deal EXCEPT ![d] = IF @.status = "M" THEN Closed ELSE @]
    BY <1>15, Zenon DEF Return
  <2>2. OnShelf \in BookRow /\ Closed \in DealRow
    BY DEF OnShelf, Closed, BookRow, DealRow
  <2>. QED
    BY <1>1, <2>1, <2>2, EndTyped, FailTyped
<1>16. CASE SaveLoadedBook(c)
  <2>1. book' \in BookRow
    BY <1>2, <1>16 DEF SaveLoadedBook, BookRow
  <2>. QED
    BY <1>1, <1>16, <2>1, EndTyped DEF SaveLoadedBook
<1>. QED
  BY <1>3, <1>4, <1>5, <1>6, <1>7, <1>8, <1>9, <1>10, <1>11, <1>12, <1>13, <1>14, <1>15, <1>16
     DEF Proceed

LEMMA NextTyped == TypeOK /\ [Next]_vars => TypeOK'
<1>. SUFFICES ASSUME TypeOK, [Next]_vars PROVE TypeOK'
  OBVIOUS
<1>0. /\ book \in BookRow /\ deal \in [Deals -> DealRow] /\ job \in SUBSET Deals
  BY DEF TypeOK
<1>1. CASE UNCHANGED <<book, deal, call>> /\ job' \in SUBSET Deals
  BY <1>1 DEF TypeOK
<1>2. CASE UNCHANGED <<book, call, job>> /\ deal' \in [Deals -> DealRow]
  BY <1>2 DEF TypeOK
<1>3. CASE StartJob
  BY <1>1, <1>3 DEF StartJob
<1>4. CASE \E d \in Deals : SkipDue(d)
  BY <1>0, <1>1, <1>4 DEF SkipDue
<1>5. CASE \E d \in Deals : ProcessDue(d)
  BY <1>0, <1>5 DEF ProcessDue, TypeOK, BookRow
<1>6. CASE \E d \in Deals : Extend(d) \/ DueDateComes(d)
  <2>1. PICK d \in Deals : Extend(d) \/ DueDateComes(d)
    BY <1>6
  <2>2. PICK x \in BOOLEAN : deal' = [deal EXCEPT ![d] = [deal[d] EXCEPT !.due = x]]
    <3>1. Extend(d) => deal' = [deal EXCEPT ![d] = [deal[d] EXCEPT !.due = FALSE]]
      BY DEF Extend
    <3>2. DueDateComes(d) => deal' = [deal EXCEPT ![d] = [deal[d] EXCEPT !.due = TRUE]]
      BY DEF DueDateComes
    <3>. QED
      BY <2>1, <3>1, <3>2
  <2>3. [deal[d] EXCEPT !.due = x] \in DealRow
    BY <1>0 DEF DealRow
  <2>. QED
    BY <1>0, <1>2, <2>1, <2>2, <2>3 DEF Extend, DueDateComes
<1>7. CASE BreakDeadlock
  BY <1>7, FailTyped DEF BreakDeadlock
<1>8. CASE \E c \in Calls : StartCall(c) \/ Proceed(c)
  BY <1>8, StartTyped, ProceedTyped
<1>9. CASE UNCHANGED vars
  BY <1>1, <1>9 DEF vars, TypeOK
<1>. QED
  BY <1>3, <1>4, <1>5, <1>6, <1>7, <1>8, <1>9 DEF Next

\* Every reachable state is typed, and a call without a loan saves the book.
THEOREM TypeCorrect == Spec => []TypeOK
BY InitTyped, NextTyped, PTL DEF Spec

-----------------------------------------------------------------------------
(* An acceptance finds what it decided on *)

\* A row is locked by one call at most.
Exclusive ==
  \A b, c \in Calls :
    /\ OnBook(b) /\ OnBook(c) => b = c
    /\ \A d \in Deals : Holds(b, d) /\ Holds(c, d) => b = c

\* What a call has locked by the time it writes.
LockedFor(k) ==
  /\ k.op = "accept" /\ k.at \in {"next", "ready"} => k.deal \in k.holds
  /\ k.op = "accept" /\ k.at = "ready" => k.onbook
  /\ k.op = "meet" /\ k.at = "ready" => k.onbook
  /\ k.op = "return" /\ k.at \in {"next", "ready"} => k.onbook
  /\ k.op = "return" /\ k.at = "ready" => k.deal \in k.holds

\* A loan is inserted once; the other calls are about loans that are there.
Present(k, loans) ==
  /\ k.op = "request" => loans[k.deal].status = "-"
  /\ k.op \notin {"request", "save"} => loans[k.deal].status # "-"
  /\ \A s \in k.rest : loans[s].status # "-"

\* Between its locks and its commit nothing changes under an acceptance.
Decided(k, copy, loans) ==
  k.op = "accept" /\ k.at = "ready" => copy.status = "T" /\ loans[k.deal].status = "Q"

InsertedOnce ==
  \A b, c \in Calls :
    /\ call[b] # Idle /\ call[c] # Idle
    /\ call[b].op = "request" /\ call[c].op = "request" /\ call[b].deal = call[c].deal
    => b = c

AcceptInv ==
  /\ TypeOK
  /\ Exclusive
  /\ InsertedOnce
  /\ \A c \in Calls : call[c] # Idle =>
       LockedFor(call[c]) /\ Present(call[c], deal) /\ Decided(call[c], book, deal)

LEMMA InitAccept == Init => AcceptInv
BY InitTyped, RaceAssumption DEF Init, AcceptInv, Exclusive, InsertedOnce, OnBook, Holds

\* One call takes a step; the others find their rows as they need them.
LEMMA CallStep ==
  ASSUME AcceptInv, TypeOK', NEW c \in Calls, NEW k \in {Idle} \cup Call,
         call' = [call EXCEPT ![c] = k],
         k # Idle => /\ k.onbook => OnBook(c) \/ BookFree(c)
                     /\ \A s \in k.holds : Holds(c, s) \/ DealFree(c, s)
                     /\ k.op = "request" =>
                          \A b \in Calls \ {c} :
                            ~(call[b] # Idle /\ call[b].op = "request" /\ call[b].deal = k.deal)
                     /\ LockedFor(k) /\ Present(k, deal') /\ Decided(k, book', deal'),
         \A b \in Calls \ {c} : call[b] # Idle =>
           Present(call[b], deal') /\ Decided(call[b], book', deal')
  PROVE  AcceptInv'
<1>1. /\ call'[c] = k
      /\ \A b \in Calls \ {c} : call'[b] = call[b]
  BY DEF AcceptInv, TypeOK
<1>2. Exclusive'
  <2>1. \A b \in Calls \ {c} : ~(OnBook(c)' /\ OnBook(b)')
    BY <1>1 DEF AcceptInv, Exclusive, OnBook, BookFree
  <2>2. \A b \in Calls \ {c} : \A d \in Deals : ~(Holds(c, d)' /\ Holds(b, d)')
    BY <1>1 DEF AcceptInv, Exclusive, Holds, DealFree
  <2>3. \A b, e \in Calls \ {c} : OnBook(b)' /\ OnBook(e)' => b = e
    BY <1>1 DEF AcceptInv, Exclusive, OnBook
  <2>4. \A b, e \in Calls \ {c} : \A d \in Deals : Holds(b, d)' /\ Holds(e, d)' => b = e
    BY <1>1 DEF AcceptInv, Exclusive, Holds
  <2>. QED
    BY <2>1, <2>2, <2>3, <2>4 DEF Exclusive
<1>3. InsertedOnce'
  BY <1>1 DEF AcceptInv, InsertedOnce
<1>4. \A b \in Calls : call'[b] # Idle =>
        LockedFor(call'[b]) /\ Present(call'[b], deal') /\ Decided(call'[b], book', deal')
  BY <1>1 DEF AcceptInv
<1>. QED
  BY <1>2, <1>3, <1>4 DEF AcceptInv

\* A step that writes no row.
LEMMA StageStep ==
  ASSUME AcceptInv, TypeOK', NEW c \in Calls, NEW k \in {Idle} \cup Call,
         call' = [call EXCEPT ![c] = k], UNCHANGED Rows,
         k # Idle => /\ k.onbook => OnBook(c) \/ BookFree(c)
                     /\ \A s \in k.holds : Holds(c, s) \/ DealFree(c, s)
                     /\ k.op = "request" =>
                          \A b \in Calls \ {c} :
                            ~(call[b] # Idle /\ call[b].op = "request" /\ call[b].deal = k.deal)
                     /\ LockedFor(k) /\ Present(k, deal) /\ Decided(k, book, deal)
  PROVE  AcceptInv'
<1>1. book' = book /\ deal' = deal
  BY DEF Rows
<1>2. \A b \in Calls \ {c} : call[b] # Idle =>
         Present(call[b], deal') /\ Decided(call[b], book', deal')
  BY <1>1 DEF AcceptInv
<1>. QED
  BY <1>1, <1>2, CallStep

\* A step that ends the call.
LEMMA EndStep ==
  ASSUME AcceptInv, TypeOK', NEW c \in Calls, End(c),
         \A s \in Deals : deal'[s].status = "-" <=> deal[s].status = "-",
         \A b \in Calls \ {c} : Doing(b, "accept", "ready") =>
           book'.status = "T" /\ deal'[call[b].deal].status = "Q"
  PROVE  AcceptInv'
<1>1. call' = [call EXCEPT ![c] = Idle]
  BY DEF End
<1>2. ASSUME NEW b \in Calls \ {c}, call[b] # Idle
      PROVE  Present(call[b], deal') /\ Decided(call[b], book', deal')
  <2>1. Present(call[b], deal)
    BY <1>2 DEF AcceptInv
  <2>2. call[b] \in Call /\ (call[b].op # "save" => call[b].deal \in Deals)
    BY <1>2, Running DEF AcceptInv
  <2>3. Present(call[b], deal')
    BY <2>1, <2>2 DEF Present, Call
  <2>4. Decided(call[b], book', deal')
    BY <1>2 DEF Decided, Doing
  <2>. QED
    BY <2>3, <2>4
<1>. QED
  BY <1>1, <1>2, CallStep

LEMMA FailStep ==
  ASSUME AcceptInv, NEW c \in Calls, Fail(c)
  PROVE  AcceptInv'
<1>1. TypeOK'
  BY FailTyped DEF AcceptInv
<1>. QED
  BY <1>1, StageStep DEF Fail, End

LEMMA StartStep ==
  ASSUME AcceptInv, NEW c \in Calls, StartCall(c)
  PROVE  AcceptInv'
<1>0. TypeOK' /\ TypeOK
  BY StartTyped DEF AcceptInv
<1>1. PICK op \in AllOps, d \in Deals \cup {NoDeal} :
        /\ Begin(c, op, d)
        /\ d = NoDeal <=> op = "save"
        /\ op = "request" =>
             /\ deal[d].status = "-"
             /\ \A b \in Calls : call[b] # Idle => ~(call[b].op = "request" /\ call[b].deal = d)
        /\ op \notin {"request", "save"} => deal[d].status # "-"
  BY RaceAssumption
     DEF StartCall, StartRequest, StartAccept, StartCancel, StartMeet, StartReturn, StartSave,
         AllOps
<1>. DEFINE k == call'[c]
<1>2. /\ call' = [call EXCEPT ![c] = k] /\ UNCHANGED Rows
      /\ k.op = op /\ k.deal = d /\ k.at = "start" /\ k.holds = {} /\ k.onbook = FALSE
      /\ k.rest = {}
  BY <1>0, <1>1 DEF Begin, TypeOK
<1>3. k \in {Idle} \cup Call
  BY <1>0 DEF TypeOK
<1>4. LockedFor(k) /\ Present(k, deal) /\ Decided(k, book, deal)
  BY <1>1, <1>2 DEF LockedFor, Present, Decided
<1>. HIDE DEF k
<1>. QED
  BY <1>0, <1>1, <1>2, <1>3, <1>4, StageStep

LEMMA ProceedStep ==
  ASSUME AcceptInv, NEW c \in Calls, Proceed(c)
  PROVE  AcceptInv'
<1>. DEFINE d == call[c].deal
            Others == \A b \in Calls \ {c} : Doing(b, "accept", "ready") =>
                        book'.status = "T" /\ deal'[call[b].deal].status = "Q"
            Inserted == \A s \in Deals : deal'[s].status = "-" <=> deal[s].status = "-"
<1>0. TypeOK /\ TypeOK' /\ call[c] # Idle
  BY ProceedTyped
     DEF AcceptInv, Proceed, CountOpen, InsertDeal, LockDeal, LockBook, LockSibling, Accept,
         RestoreBook, SaveCancelled, LoadBook, SaveBook, Meet, LockForReturn, Return,
         SaveLoadedBook, Doing
<1>1. /\ call[c] \in Call /\ (call[c].op # "save" => d \in Deals)
      /\ book \in BookRow /\ deal \in [Deals -> DealRow] /\ call'[c] \in {Idle} \cup Call
  BY <1>0, Running DEF TypeOK
<1>2. /\ LockedFor(call[c]) /\ Present(call[c], deal) /\ Decided(call[c], book, deal)
      /\ \A b \in Calls : call[b] # Idle =>
           call[b] \in Call /\ LockedFor(call[b]) /\ Decided(call[b], book, deal)
  BY <1>0, Running DEF AcceptInv
<1>3. \A b \in Calls : Doing(b, "accept", "ready") =>
        /\ OnBook(b) /\ Holds(b, call[b].deal) /\ call[b].deal \in Deals
        /\ book.status = "T" /\ deal[call[b].deal].status = "Q"
  BY <1>0, <1>2, Running DEF Doing, LockedFor, Decided, OnBook, Holds
<1>4. \A s \in call[c].holds : Holds(c, s)
  BY <1>0 DEF Holds
<1>5. call[c].onbook => OnBook(c)
  BY <1>0 DEF OnBook
<1>6. call[c].op = "request" =>
        \A b \in Calls \ {c} : ~(call[b] # Idle /\ call[b].op = "request" /\ call[b].deal = d)
  BY <1>0 DEF AcceptInv, InsertedOnce
<1>7. CASE CountOpen(c)
  <2>. DEFINE k == [call[c] EXCEPT !.at = "next"]
  <2>1. \/ Fail(c)
        \/ call' = [call EXCEPT ![c] = k] /\ UNCHANGED Rows /\ call[c].op = "request"
    BY <1>7, Zenon DEF CountOpen, Doing
  <2>2. /\ k \in Call /\ k.op = call[c].op /\ k.deal = d /\ k.rest = call[c].rest
        /\ k.holds = call[c].holds /\ k.onbook = call[c].onbook
    BY <1>1 DEF Call
  <2>. HIDE DEF k
  <2>3. CASE call' = [call EXCEPT ![c] = k] /\ UNCHANGED Rows /\ call[c].op = "request"
    <3>1. LockedFor(k) /\ Present(k, deal) /\ Decided(k, book, deal)
      BY <1>2, <2>2, <2>3 DEF LockedFor, Present, Decided
    <3>. QED
      BY <1>0, <1>4, <1>5, <1>6, <2>2, <2>3, <3>1, StageStep
  <2>. QED
    BY <2>1, <2>3, FailStep
<1>8. CASE InsertDeal(c)
  <2>1. /\ call' = [call EXCEPT ![c] = Idle] /\ UNCHANGED <<book, job>>
        /\ call[c].op = "request" /\ d \in Deals /\ deal[d].status = "-"
        /\ deal'[d].status = "Q"
        /\ \A s \in Deals \ {d} : deal'[s] = deal[s]
    BY <1>1, <1>2, <1>8 DEF InsertDeal, End, Doing, Present
  <2>2. ASSUME NEW b \in Calls \ {c}, call[b] # Idle
        PROVE  Present(call[b], deal') /\ Decided(call[b], book', deal')
    <3>1. /\ call[b] \in Call /\ (call[b].op # "save" => call[b].deal \in Deals)
          /\ Present(call[b], deal) /\ Decided(call[b], book, deal)
      BY <1>0, <2>2, Running DEF AcceptInv
    <3>2. call[b].op = "request" => call[b].deal # d
      BY <1>6, <2>1, <2>2
    <3>3. call[b].rest \subseteq Deals
      BY <3>1 DEF Call
    <3>4. Present(call[b], deal')
      BY <2>1, <3>1, <3>2, <3>3 DEF Present
    <3>5. Decided(call[b], book', deal')
      BY <2>1, <3>1 DEF Decided
    <3>. QED
      BY <3>4, <3>5
  <2>. QED
    BY <1>0, <2>1, <2>2, CallStep
<1>9. CASE LockDeal(c)
  <2>. DEFINE k == [call[c] EXCEPT !.at = "next", !.holds = {d}]
  <2>1. /\ call' = [call EXCEPT ![c] = k] /\ UNCHANGED Rows
        /\ call[c].op = "accept" /\ DealFree(c, d)
    BY <1>9 DEF LockDeal, Doing
  <2>2. /\ k \in Call /\ k.op = call[c].op /\ k.deal = d /\ k.rest = call[c].rest
        /\ k.holds = {d} /\ k.onbook = call[c].onbook /\ k.at = "next"
    BY <1>1, <2>1 DEF Call
  <2>. HIDE DEF k
  <2>3. LockedFor(k) /\ Present(k, deal) /\ Decided(k, book, deal)
    BY <1>2, <2>1, <2>2 DEF LockedFor, Present, Decided
  <2>. QED
    BY <1>0, <1>5, <2>1, <2>2, <2>3, StageStep
<1>10. CASE LockBook(c)
  <2>. DEFINE t == {s \in Deals \ {d} : deal[s].status = "Q"}
              k == [call[c] EXCEPT !.at = "ready", !.onbook = TRUE, !.rest = t]
  <2>1. \/ Fail(c)
        \/ /\ call' = [call EXCEPT ![c] = k] /\ UNCHANGED Rows
           /\ call[c].op = "accept" /\ call[c].at = "next" /\ BookFree(c)
           /\ deal[d].status = "Q" /\ book.status = "T"
    BY <1>10 DEF LockBook, Doing
  <2>2. /\ k \in Call /\ k.op = call[c].op /\ k.deal = d /\ k.rest = t
        /\ k.holds = call[c].holds /\ k.at = "ready" /\ k.onbook = TRUE
    BY <1>1 DEF Call
  <2>. HIDE DEF k
  <2>3. CASE /\ call' = [call EXCEPT ![c] = k] /\ UNCHANGED Rows
             /\ call[c].op = "accept" /\ call[c].at = "next" /\ BookFree(c)
             /\ deal[d].status = "Q" /\ book.status = "T"
    <3>1. LockedFor(k) /\ Present(k, deal) /\ Decided(k, book, deal)
      BY <1>2, <2>2, <2>3 DEF LockedFor, Present, Decided
    <3>. QED
      BY <1>0, <1>4, <2>2, <2>3, <3>1, StageStep
  <2>. QED
    BY <2>1, <2>3, FailStep
<1>11. CASE \E s \in Deals : LockSibling(c, s)
  <2>1. PICK s \in Deals : LockSibling(c, s)
    BY <1>11
  <2>. DEFINE k == [call[c] EXCEPT !.holds = call[c].holds \cup {s}]
  <2>2. /\ call' = [call EXCEPT ![c] = k] /\ UNCHANGED Rows
        /\ call[c].op = "accept" /\ DealFree(c, s)
    BY <2>1 DEF LockSibling, Doing
  <2>3. /\ k \in Call /\ k.op = call[c].op /\ k.deal = d /\ k.rest = call[c].rest
        /\ k.holds = call[c].holds \cup {s} /\ k.onbook = call[c].onbook /\ k.at = call[c].at
    BY <1>1 DEF Call
  <2>. HIDE DEF k
  <2>4. LockedFor(k) /\ Present(k, deal) /\ Decided(k, book, deal)
    BY <1>2, <2>2, <2>3 DEF LockedFor, Present, Decided
  <2>. QED
    BY <1>0, <1>4, <1>5, <2>2, <2>3, <2>4, StageStep
<1>12. CASE Accept(c)
  <2>1. OnBook(c) /\ deal[d].status = "Q" /\ d \in Deals /\ End(c)
    BY <1>3, <1>12 DEF Accept
  <2>2. Inserted
    <3>1. \A s \in call[c].rest : deal[s].status # "-"
      BY <1>2 DEF Present
    <3>. QED
      BY <1>1, <1>12, <2>1, <3>1 DEF Accept
  <2>3. Others
    BY <1>3, <2>1 DEF AcceptInv, Exclusive
  <2>. QED
    BY <1>0, <2>1, <2>2, <2>3, EndStep
<1>13. CASE RestoreBook(c)
  <2>. DEFINE k == [call[c] EXCEPT !.at = "next"]
  <2>1. /\ call' = [call EXCEPT ![c] = k] /\ deal' = deal
        /\ call[c].op = "cancel" /\ BookFree(c)
    BY <1>13 DEF RestoreBook, Doing
  <2>2. /\ k \in Call /\ k.op = call[c].op /\ k.deal = d /\ k.rest = call[c].rest
        /\ k.holds = call[c].holds /\ k.onbook = call[c].onbook
    BY <1>1 DEF Call
  <2>. HIDE DEF k
  <2>3. LockedFor(k) /\ Present(k, deal') /\ Decided(k, book', deal')
    BY <1>2, <2>1, <2>2 DEF LockedFor, Present, Decided
  <2>4. \A b \in Calls \ {c} : call[b] # Idle =>
          Present(call[b], deal') /\ Decided(call[b], book', deal')
    BY <1>2, <2>1 DEF AcceptInv, BookFree, OnBook, Decided, LockedFor
  <2>. QED
    BY <1>0, <1>4, <1>5, <2>1, <2>2, <2>3, <2>4, CallStep
<1>14. CASE SaveCancelled(c)
  <2>1. /\ d \in Deals /\ deal[d].status # "-" /\ DealFree(c, d) /\ End(c) /\ book' = book
        /\ deal'[d].status = "C" /\ \A s \in Deals \ {d} : deal'[s] = deal[s]
    <3>1. call[c].op = "cancel"
      BY <1>14 DEF SaveCancelled, Doing
    <3>2. [call[c].seen EXCEPT !.status = "C"].status = "C"
      BY <1>1 DEF Call, DealRow
    <3>. QED
      BY <1>1, <1>2, <1>14, <3>1, <3>2 DEF SaveCancelled, Present
  <2>2. Inserted
    BY <2>1
  <2>3. Others
    BY <1>3, <2>1 DEF DealFree
  <2>. QED
    BY <1>0, <2>1, <2>2, <2>3, EndStep
<1>15. CASE LoadBook(c)
  <2>. DEFINE k == [call[c] EXCEPT !.at = "next", !.copy = book]
  <2>1. \/ Fail(c)
        \/ call' = [call EXCEPT ![c] = k] /\ UNCHANGED Rows /\ call[c].op = "meet"
    BY <1>15, Zenon DEF LoadBook, Doing
  <2>2. /\ k \in Call /\ k.op = call[c].op /\ k.deal = d /\ k.rest = call[c].rest
        /\ k.holds = call[c].holds /\ k.onbook = call[c].onbook /\ k.at = "next"
    BY <1>1 DEF Call
  <2>. HIDE DEF k
  <2>3. CASE call' = [call EXCEPT ![c] = k] /\ UNCHANGED Rows /\ call[c].op = "meet"
    <3>1. LockedFor(k) /\ Present(k, deal) /\ Decided(k, book, deal)
      BY <1>2, <2>2, <2>3 DEF LockedFor, Present, Decided
    <3>. QED
      BY <1>0, <1>4, <1>5, <2>2, <2>3, <3>1, StageStep
  <2>. QED
    BY <2>1, <2>3, FailStep
<1>16. CASE SaveBook(c)
  <2>. DEFINE k == [call[c] EXCEPT !.at = "ready", !.onbook = TRUE]
  <2>1. /\ call' = [call EXCEPT ![c] = k] /\ UNCHANGED Rows
        /\ call[c].op = "meet" /\ BookFree(c)
    BY <1>16 DEF SaveBook, Doing
  <2>2. /\ k \in Call /\ k.op = call[c].op /\ k.deal = d /\ k.rest = call[c].rest
        /\ k.holds = call[c].holds /\ k.onbook = TRUE /\ k.at = "ready"
    BY <1>1 DEF Call
  <2>. HIDE DEF k
  <2>3. LockedFor(k) /\ Present(k, deal) /\ Decided(k, book, deal)
    BY <1>2, <2>1, <2>2 DEF LockedFor, Present, Decided
  <2>. QED
    BY <1>0, <1>4, <2>1, <2>2, <2>3, StageStep
<1>17. CASE Meet(c)
  <2>1. /\ d \in Deals /\ deal[d].status # "-" /\ OnBook(c) /\ End(c)
        /\ deal'[d].status = "M" /\ \A s \in Deals \ {d} : deal'[s] = deal[s]
    <3>1. call[c].op = "meet" /\ call[c].at = "ready"
      BY <1>17 DEF Meet, Doing
    <3>2. [call[c].seen EXCEPT !.status = "M", !.due = FALSE].status = "M"
      BY <1>1 DEF Call, DealRow
    <3>3. OnBook(c)
      BY <1>0, <1>2, <3>1 DEF LockedFor, OnBook
    <3>. QED
      BY <1>1, <1>2, <1>17, <3>1, <3>2, <3>3 DEF Meet, Present
  <2>2. Inserted
    BY <2>1
  <2>3. Others
    BY <1>3, <2>1 DEF AcceptInv, Exclusive
  <2>. QED
    BY <1>0, <2>1, <2>2, <2>3, EndStep
<1>18. CASE LockForReturn(c)
  <2>1. CASE /\ Doing(c, "return", "start") /\ BookFree(c)
             /\ call' = [call EXCEPT ![c].at = "next", ![c].onbook = TRUE]
             /\ UNCHANGED Rows
    <3>. DEFINE k == [call[c] EXCEPT !.at = "next", !.onbook = TRUE]
    <3>1. call' = [call EXCEPT ![c] = k] /\ UNCHANGED Rows /\ call[c].op = "return"
      BY <2>1 DEF Doing
    <3>2. /\ k \in Call /\ k.op = call[c].op /\ k.deal = d /\ k.rest = call[c].rest
          /\ k.holds = call[c].holds /\ k.onbook = TRUE /\ k.at = "next"
      BY <1>1 DEF Call
    <3>. HIDE DEF k
    <3>3. LockedFor(k) /\ Present(k, deal) /\ Decided(k, book, deal)
      BY <1>2, <3>1, <3>2 DEF LockedFor, Present, Decided
    <3>. QED
      BY <1>0, <1>4, <2>1, <3>1, <3>2, <3>3, StageStep
  <2>2. CASE /\ Doing(c, "return", "next") /\ DealFree(c, d)
             /\ call' = [call EXCEPT ![c].at = "ready", ![c].holds = {d}]
             /\ UNCHANGED Rows
    <3>. DEFINE k == [call[c] EXCEPT !.at = "ready", !.holds = {d}]
    <3>1. /\ call' = [call EXCEPT ![c] = k] /\ UNCHANGED Rows
          /\ call[c].op = "return" /\ call[c].at = "next"
      BY <2>2 DEF Doing
    <3>2. /\ k \in Call /\ k.op = call[c].op /\ k.deal = d /\ k.rest = call[c].rest
          /\ k.holds = {d} /\ k.onbook = call[c].onbook /\ k.at = "ready"
      BY <1>1, <3>1 DEF Call
    <3>. HIDE DEF k
    <3>3. LockedFor(k) /\ Present(k, deal) /\ Decided(k, book, deal)
      BY <1>2, <3>1, <3>2 DEF LockedFor, Present, Decided
    <3>. QED
      BY <1>0, <1>5, <2>2, <3>1, <3>2, <3>3, StageStep
  <2>. QED
    BY <1>18, <2>1, <2>2 DEF LockForReturn
<1>19. CASE Return(c)
  <2>1. \/ Fail(c)
        \/ /\ book' = OnShelf /\ End(c) /\ UNCHANGED job
           /\ deal' = [deal EXCEPT ![d] = IF @.status = "M" THEN Closed ELSE @]
    BY <1>19, Zenon DEF Return
  <2>2. CASE /\ book' = OnShelf /\ End(c) /\ UNCHANGED job
             /\ deal' = [deal EXCEPT ![d] = IF @.status = "M" THEN Closed ELSE @]
    <3>1. call[c].op = "return" /\ call[c].at = "ready"
      BY <1>19 DEF Return, Doing
    <3>2. OnBook(c) /\ d \in Deals
      BY <1>0, <1>1, <1>2, <3>1 DEF LockedFor, OnBook
    <3>3. Inserted
      BY <1>1, <2>2, <3>2 DEF Closed
    <3>4. Others
      BY <1>3, <3>2 DEF AcceptInv, Exclusive
    <3>. QED
      BY <1>0, <2>2, <3>3, <3>4, EndStep
  <2>. QED
    BY <2>1, <2>2, FailStep
<1>20. CASE SaveLoadedBook(c)
  <2>1. BookFree(c) /\ End(c) /\ deal' = deal
    BY <1>20 DEF SaveLoadedBook
  <2>2. Others
    BY <1>3, <2>1 DEF BookFree
  <2>. QED
    BY <1>0, <2>1, <2>2, EndStep
<1>. QED
  BY <1>7, <1>8, <1>9, <1>10, <1>11, <1>12, <1>13, <1>14, <1>15, <1>16, <1>17, <1>18, <1>19, <1>20
     DEF Proceed

\* The job, the calendar and the database's own steps.
LEMMA QuietStep ==
  ASSUME AcceptInv, TypeOK', call' = call,
         \A s \in Deals : deal'[s].status = deal[s].status,
         book' = book \/ \A c \in Calls : ~OnBook(c)
  PROVE  AcceptInv'
<1>1. ASSUME NEW b \in Calls, call[b] # Idle
      PROVE  LockedFor(call[b]) /\ Present(call[b], deal') /\ Decided(call[b], book', deal')
  <2>1. LockedFor(call[b]) /\ Present(call[b], deal) /\ Decided(call[b], book, deal)
    BY <1>1 DEF AcceptInv
  <2>2. call[b] \in Call /\ (call[b].op # "save" => call[b].deal \in Deals)
    BY <1>1, Running DEF AcceptInv
  <2>3. Present(call[b], deal')
    BY <2>1, <2>2 DEF Present, Call
  <2>4. Decided(call[b], book', deal')
    BY <1>1, <2>1, <2>2 DEF Decided, LockedFor, OnBook
  <2>. QED
    BY <2>1, <2>3, <2>4
<1>. QED
  BY <1>1 DEF AcceptInv, Exclusive, InsertedOnce, OnBook, Holds

LEMMA NextAccept == AcceptInv /\ [Next]_vars => AcceptInv'
<1>. SUFFICES ASSUME AcceptInv, [Next]_vars PROVE AcceptInv'
  OBVIOUS
<1>0. TypeOK /\ TypeOK' /\ deal \in [Deals -> DealRow]
  BY NextTyped DEF AcceptInv, TypeOK
<1>1. CASE \E c \in Calls : StartCall(c) \/ Proceed(c)
  BY <1>1, StartStep, ProceedStep
<1>2. CASE BreakDeadlock
  BY <1>2, FailStep DEF BreakDeadlock
<1>3. CASE StartJob \/ (\E d \in Deals : SkipDue(d) \/ ProcessDue(d)) \/ UNCHANGED vars
  BY <1>0, <1>3, QuietStep DEF StartJob, SkipDue, ProcessDue, vars
<1>4. CASE \E d \in Deals : Extend(d) \/ DueDateComes(d)
  <2>1. PICK d \in Deals : Extend(d) \/ DueDateComes(d)
    BY <1>4
  <2>2. \A s \in Deals : deal'[s].status = deal[s].status
    BY <1>0, <2>1 DEF Extend, DueDateComes, DealRow
  <2>. QED
    BY <1>0, <2>1, <2>2, QuietStep DEF Extend, DueDateComes
<1>. QED
  BY <1>1, <1>2, <1>3, <1>4 DEF Next

\* Only accept_deal's commit makes a loan accepted; it holds the book's lock,
\* and what it saw under its locks is still there.
LEMMA AcceptStep ==
  ASSUME AcceptInv, [Next]_vars, NEW d \in Deals, deal[d].status # "P", deal'[d].status = "P"
  PROVE  deal[d].status = "Q" /\ book.status = "T" /\ book'.status = "V"
<1>0. TypeOK /\ deal \in [Deals -> DealRow] /\ book \in BookRow
  BY DEF AcceptInv, TypeOK
<1>1. ~(\E c \in Calls : StartCall(c))
  BY DEF StartCall, StartRequest, StartAccept, StartCancel, StartMeet, StartReturn, StartSave,
         Begin, Rows
<1>2. ~(StartJob \/ (\E s \in Deals : SkipDue(s) \/ ProcessDue(s)) \/ UNCHANGED vars
          \/ BreakDeadlock)
  BY DEF StartJob, SkipDue, ProcessDue, vars, BreakDeadlock, Fail, Rows
<1>3. ~(\E s \in Deals : Extend(s) \/ DueDateComes(s))
  BY <1>0 DEF Extend, DueDateComes, DealRow
<1>4. PICK c \in Calls : Proceed(c)
  BY <1>1, <1>2, <1>3 DEF Next
<1>5. deal' # deal
  OBVIOUS
<1>6. call[c] # Idle => call[c] \in Call /\ Decided(call[c], book, deal)
  BY <1>0, Running DEF AcceptInv
<1>7. \/ InsertDeal(c) \/ Accept(c) \/ SaveCancelled(c) \/ Meet(c) \/ Return(c)
  BY <1>4, <1>5
     DEF Proceed, CountOpen, LockDeal, LockBook, LockSibling, RestoreBook, LoadBook, SaveBook,
         LockForReturn, SaveLoadedBook, Fail, Rows
<1>8. ~InsertDeal(c)
  BY <1>0 DEF InsertDeal
<1>9. ~SaveCancelled(c)
  <2>1. SaveCancelled(c) => [call[c].seen EXCEPT !.status = "C"].status = "C"
    BY <1>6 DEF SaveCancelled, Doing, Call, DealRow
  <2>. QED
    BY <1>0, <2>1 DEF SaveCancelled
<1>10. ~Meet(c)
  <2>1. Meet(c) => [call[c].seen EXCEPT !.status = "M", !.due = FALSE].status = "M"
    BY <1>6 DEF Meet, Doing, Call, DealRow
  <2>. QED
    BY <1>0, <2>1 DEF Meet
<1>11. ~Return(c)
  BY <1>0 DEF Return, Closed, Fail, Rows
<1>12. Accept(c)
  BY <1>7, <1>8, <1>9, <1>10, <1>11
<1>13. d = call[c].deal
  BY <1>0, <1>12 DEF Accept, DealRow
<1>14. deal[d].status = "Q" /\ book.status = "T"
  BY <1>6, <1>12, <1>13 DEF Accept, Doing, Decided
<1>15. book'.status = "V"
  BY <1>0, <1>12 DEF Accept, BookRow
<1>. QED
  BY <1>14, <1>15

\* Whatever overlaps, an acceptance takes the book from the shelf.
THEOREM AcceptsCorrect == Spec => AcceptsTakeTheBook
<1>1. AcceptInv /\ [Next]_vars =>
        [\A d \in Deals : deal[d].status # "P" /\ deal'[d].status = "P" =>
           /\ deal[d].status = "Q"
           /\ book.status = "T" /\ book'.status = "V"]_vars
  BY AcceptStep
<1>. QED
  BY <1>1, InitAccept, NextAccept, PTL DEF Spec, AcceptsTakeTheBook

\* Only confirm_return's commit closes a loan, and it brings the book home.
LEMMA ReturnStep ==
  ASSUME TypeOK, [Next]_vars, NEW d \in Deals, deal[d].status # "D", deal'[d].status = "D"
  PROVE  deal[d].status = "M" /\ book.status = "O" /\ book' = OnShelf
<1>0. deal \in [Deals -> DealRow]
  BY DEF TypeOK
<1>1. ~(\E c \in Calls : StartCall(c))
  BY DEF StartCall, StartRequest, StartAccept, StartCancel, StartMeet, StartReturn, StartSave,
         Begin, Rows
<1>2. ~(StartJob \/ (\E s \in Deals : SkipDue(s) \/ ProcessDue(s)) \/ UNCHANGED vars
          \/ BreakDeadlock)
  BY DEF StartJob, SkipDue, ProcessDue, vars, BreakDeadlock, Fail, Rows
<1>3. ~(\E s \in Deals : Extend(s) \/ DueDateComes(s))
  BY <1>0 DEF Extend, DueDateComes, DealRow
<1>4. PICK c \in Calls : Proceed(c)
  BY <1>1, <1>2, <1>3 DEF Next
<1>5. deal' # deal
  OBVIOUS
<1>6. call[c] # Idle => call[c] \in Call
  BY Running
<1>7. \/ InsertDeal(c) \/ Accept(c) \/ SaveCancelled(c) \/ Meet(c) \/ Return(c)
  BY <1>4, <1>5
     DEF Proceed, CountOpen, LockDeal, LockBook, LockSibling, RestoreBook, LoadBook, SaveBook,
         LockForReturn, SaveLoadedBook, Fail, Rows
<1>8. ~InsertDeal(c)
  BY <1>0 DEF InsertDeal
<1>9. ~SaveCancelled(c)
  <2>1. SaveCancelled(c) => [call[c].seen EXCEPT !.status = "C"].status = "C"
    BY <1>6 DEF SaveCancelled, Doing, Call, DealRow
  <2>. QED
    BY <1>0, <2>1 DEF SaveCancelled
<1>10. ~Meet(c)
  <2>1. Meet(c) => [call[c].seen EXCEPT !.status = "M", !.due = FALSE].status = "M"
    BY <1>6 DEF Meet, Doing, Call, DealRow
  <2>. QED
    BY <1>0, <2>1 DEF Meet
<1>11. ~Accept(c)
  BY <1>0 DEF Accept, DealRow
<1>12. Return(c)
  BY <1>7, <1>8, <1>9, <1>10, <1>11
<1>13. /\ book.status = "O" /\ book' = OnShelf
       /\ deal' = [deal EXCEPT ![call[c].deal] = IF @.status = "M" THEN Closed ELSE @]
  BY <1>5, <1>12 DEF Return, Fail, Rows
<1>14. deal[d].status = "M"
  BY <1>0, <1>13
<1>. QED
  BY <1>13, <1>14

\* A loan is closed once, by the step that brings the book home.
THEOREM ReturnsCorrect == Spec => ReturnsCloseOnce
<1>1. TypeOK /\ [Next]_vars =>
        [\A d \in Deals : deal[d].status # "D" /\ deal'[d].status = "D" =>
           /\ deal[d].status = "M"
           /\ book.status = "O" /\ book' = OnShelf]_vars
  BY ReturnStep
<1>. QED
  BY <1>1, InitTyped, NextTyped, PTL DEF Spec, ReturnsCloseOnce

-----------------------------------------------------------------------------
(* The handover: requests, acceptances and meetings, and the job *)

GuardedOps == {"request", "accept", "meet"}

\* The others an acceptance found are still pending; a meeting is about a loan
\* that is agreed, or that a second click has just handed over.
Agreed(k, loans) ==
  /\ k.op \in GuardedOps
  /\ k.op = "accept" /\ k.at = "ready" =>
       k.deal \notin k.rest /\ \A s \in k.rest : loans[s].status = "Q"
  /\ k.op = "meet" => loans[k.deal].status \in {"P", "M"} /\ k.seen.status = "P"

HandInv ==
  /\ AcceptInv
  /\ HandoverExact
  /\ \A c \in Calls : call[c] # Idle => Agreed(call[c], deal)
  /\ job # {} => book.status \in {"O", "R"}

\* The same loans are agreed and out, and the book is where it was.
LEMMA SameHands ==
  ASSUME HandoverExact, book'.keeper = book.keeper,
         \/ book'.status = book.status
         \/ book.status \in {"O", "R"} /\ book'.status \in {"O", "R"},
         book.status \in {"T", "S", "V", "O", "R"},
         \A s \in Deals : /\ deal'[s].status = "P" <=> deal[s].status = "P"
                          /\ deal'[s].status = "M" <=> deal[s].status = "M"
  PROVE  HandoverExact'
<1>1. /\ {s \in Deals : deal'[s].status = "P"} = {s \in Deals : deal[s].status = "P"}
      /\ {s \in Deals : deal'[s].status = "M"} = {s \in Deals : deal[s].status = "M"}
  OBVIOUS
<1>. QED
  BY <1>1 DEF HandoverExact

LEMMA InitHands == Init => HandInv
<1>. SUFFICES ASSUME Init PROVE HandInv
  OBVIOUS
<1>1. /\ {s \in Deals : deal[s].status = "P"} = {}
      /\ {s \in Deals : deal[s].status = "M"} = {}
  BY DEF Init, NewRow
<1>2. HandoverExact
  BY <1>1 DEF HandoverExact, Init, OnShelf
<1>. QED
  BY <1>2, InitAccept DEF Init, HandInv

\* A step that changes no status.
LEMMA HandsQuiet ==
  ASSUME HandInv, AcceptInv', book' = book,
         \A s \in Deals : deal'[s].status = deal[s].status,
         \A c \in Calls : call'[c] # Idle => call'[c] = call[c] \/ Agreed(call'[c], deal),
         job' # {} => book.status \in {"O", "R"}
  PROVE  HandInv'
<1>1. book \in BookRow
  BY DEF HandInv, AcceptInv, TypeOK
<1>2. HandoverExact'
  BY <1>1, SameHands DEF HandInv, BookRow
<1>3. ASSUME NEW c \in Calls, call'[c] # Idle
      PROVE  Agreed(call'[c], deal')
  <2>1. Agreed(call'[c], deal)
    BY <1>3 DEF HandInv
  <2>2. call'[c] \in Call /\ (call'[c].op # "save" => call'[c].deal \in Deals)
    BY <1>3, RaceAssumption DEF AcceptInv, TypeOK, Call
  <2>. QED
    BY <2>1, <2>2 DEF Agreed, Call
<1>. QED
  BY <1>2, <1>3 DEF HandInv

\* A call goes on, or begins: nothing is written.
LEMMA HandsStage ==
  ASSUME HandInv, AcceptInv', NEW c \in Calls, NEW k, UNCHANGED Rows,
         call' = [call EXCEPT ![c] = k], k # Idle => Agreed(k, deal)
  PROVE  HandInv'
<1>1. call'[c] = k /\ \A b \in Calls \ {c} : call'[b] = call[b]
  BY DEF HandInv, AcceptInv, TypeOK
<1>. QED
  BY <1>1, HandsQuiet DEF Rows, HandInv

LEMMA HandsInsert ==
  ASSUME HandInv, AcceptInv', NEW c \in Calls, InsertDeal(c)
  PROVE  HandInv'
<1>. DEFINE d == call[c].deal
<1>1. /\ call[c] # Idle /\ call[c].op = "request" /\ TypeOK /\ TypeOK'
      /\ deal \in [Deals -> DealRow] /\ book \in BookRow /\ call \in [Calls -> {Idle} \cup Call]
  BY DEF InsertDeal, Doing, HandInv, AcceptInv, TypeOK
<1>2. d \in Deals /\ deal[d].status = "-"
  BY <1>1, Running DEF HandInv, AcceptInv, Present
<1>3. /\ deal'[d].status = "Q" /\ \A s \in Deals \ {d} : deal'[s] = deal[s]
      /\ book' = book /\ job' = job
      /\ call'[c] = Idle /\ \A b \in Calls \ {c} : call'[b] = call[b]
  BY <1>1, <1>2 DEF InsertDeal, End
<1>4. HandoverExact'
  BY <1>1, <1>2, <1>3, SameHands DEF HandInv, BookRow
<1>5. ASSUME NEW b \in Calls, call'[b] # Idle
      PROVE  Agreed(call'[b], deal')
  <2>1. call'[b] = call[b] /\ Agreed(call[b], deal)
    BY <1>3, <1>5 DEF HandInv
  <2>2. call[b] \in Call /\ (call[b].op # "save" => call[b].deal \in Deals)
    BY <1>1, <1>5, <2>1, Running
  <2>. QED
    BY <1>2, <1>3, <2>1, <2>2 DEF Agreed, Call
<1>. QED
  BY <1>3, <1>4, <1>5 DEF HandInv

LEMMA HandsAccept ==
  ASSUME HandInv, AcceptInv', NEW c \in Calls, Accept(c)
  PROVE  HandInv'
<1>. DEFINE d == call[c].deal
            rest == call[c].rest
<1>1. /\ call[c] # Idle /\ call[c].op = "accept" /\ call[c].at = "ready" /\ TypeOK /\ TypeOK'
      /\ deal \in [Deals -> DealRow] /\ book \in BookRow /\ call \in [Calls -> {Idle} \cup Call]
  BY DEF Accept, Doing, HandInv, AcceptInv, TypeOK
<1>2. /\ d \in Deals /\ OnBook(c) /\ book.status = "T" /\ deal[d].status = "Q"
      /\ d \notin rest /\ \A s \in rest : deal[s].status = "Q"
  BY <1>1, Running DEF HandInv, AcceptInv, LockedFor, Decided, OnBook, Agreed
<1>3. /\ deal'[d].status = "P" /\ \A s \in rest : s \in Deals => deal'[s].status = "C"
      /\ \A s \in Deals \ {d} : s \notin rest => deal'[s] = deal[s]
      /\ book'.status = "V" /\ job' = job
      /\ call'[c] = Idle /\ \A b \in Calls \ {c} : call'[b] = call[b]
  BY <1>1, <1>2 DEF Accept, End, DealRow, BookRow
<1>4. HandoverExact'
  <2>1. \A s \in Deals : deal[s].status # "P" /\ deal[s].status # "M"
    BY <1>2 DEF HandInv, HandoverExact
  <2>2. /\ {s \in Deals : deal'[s].status = "P"} = {d}
        /\ {s \in Deals : deal'[s].status = "M"} = {}
    BY <1>2, <1>3, <2>1
  <2>. QED
    BY <1>2, <1>3, <2>2 DEF HandoverExact
<1>5. ASSUME NEW b \in Calls, call'[b] # Idle
      PROVE  Agreed(call'[b], deal')
  <2>1. b # c /\ call'[b] = call[b] /\ Agreed(call[b], deal)
    BY <1>3, <1>5 DEF HandInv
  <2>2. call[b] \in Call /\ (call[b].op # "save" => call[b].deal \in Deals)
    BY <1>1, <1>5, <2>1, Running
  <2>3. ~(call[b].op = "accept" /\ call[b].at = "ready")
    BY <1>2, <1>5, <2>1 DEF HandInv, AcceptInv, Exclusive, LockedFor, OnBook
  <2>4. call[b].op # "meet"
    BY <1>2, <2>1, <2>2 DEF HandInv, HandoverExact, Agreed
  <2>. QED
    BY <2>1, <2>3, <2>4 DEF Agreed
<1>6. job' = {}
  BY <1>2, <1>3 DEF HandInv
<1>. QED
  BY <1>4, <1>5, <1>6 DEF HandInv

LEMMA HandsMeet ==
  ASSUME HandInv, AcceptInv', NEW c \in Calls, Meet(c)
  PROVE  HandInv'
<1>. DEFINE d == call[c].deal
<1>1. /\ call[c] # Idle /\ call[c].op = "meet" /\ call[c].at = "ready" /\ TypeOK /\ TypeOK'
      /\ deal \in [Deals -> DealRow] /\ book \in BookRow /\ call \in [Calls -> {Idle} \cup Call]
  BY DEF Meet, Doing, HandInv, AcceptInv, TypeOK
<1>2. d \in Deals /\ OnBook(c) /\ deal[d].status \in {"P", "M"} /\ call[c] \in Call
  BY <1>1, Running DEF HandInv, AcceptInv, LockedFor, OnBook, Agreed
<1>3. /\ deal'[d].status = "M" /\ \A s \in Deals \ {d} : deal'[s] = deal[s]
      /\ book'.status = "O" /\ book'.keeper = d /\ job' = job
      /\ call'[c] = Idle /\ \A b \in Calls \ {c} : call'[b] = call[b]
  <2>1. [call[c].seen EXCEPT !.status = "M", !.due = FALSE].status = "M"
    BY <1>2 DEF Call, DealRow
  <2>2. /\ [call[c].copy EXCEPT !.status = "O", !.keeper = d].status = "O"
        /\ [call[c].copy EXCEPT !.status = "O", !.keeper = d].keeper = d
    BY <1>2 DEF Call, BookRow
  <2>. QED
    BY <1>1, <1>2, <2>1, <2>2 DEF Meet, End
<1>4. HandoverExact'
  <2>1. \A s \in Deals \ {d} : deal[s].status # "P" /\ deal[s].status # "M"
    BY <1>1, <1>2 DEF HandInv, HandoverExact, BookRow
  <2>2. /\ {s \in Deals : deal'[s].status = "P"} = {}
        /\ {s \in Deals : deal'[s].status = "M"} = {d}
    BY <1>2, <1>3, <2>1
  <2>. QED
    BY <1>3, <2>2 DEF HandoverExact
<1>5. ASSUME NEW b \in Calls, call'[b] # Idle
      PROVE  Agreed(call'[b], deal')
  <2>1. b # c /\ call'[b] = call[b] /\ Agreed(call[b], deal)
    BY <1>3, <1>5 DEF HandInv
  <2>2. call[b] \in Call /\ (call[b].op # "save" => call[b].deal \in Deals)
    BY <1>1, <1>5, <2>1, Running
  <2>3. ~(call[b].op = "accept" /\ call[b].at = "ready")
    BY <1>2, <1>5, <2>1 DEF HandInv, AcceptInv, Exclusive, LockedFor, OnBook
  <2>4. call[b].op = "meet" => deal'[call[b].deal].status \in {"P", "M"}
    BY <1>3, <2>1, <2>2 DEF Agreed
  <2>. QED
    BY <2>1, <2>3, <2>4 DEF Agreed
<1>. QED
  BY <1>3, <1>4, <1>5 DEF HandInv

LEMMA HandsStart ==
  ASSUME Ops \subseteq GuardedOps, HandInv, AcceptInv', NEW c \in Calls, StartCall(c)
  PROVE  HandInv'
<1>0. TypeOK /\ call \in [Calls -> {Idle} \cup Call]
  BY DEF HandInv, AcceptInv, TypeOK
<1>1. PICK op \in GuardedOps, d \in Deals \cup {NoDeal} :
        Begin(c, op, d) /\ (op = "meet" => deal[d].status = "P")
  BY DEF StartCall, StartRequest, StartAccept, StartCancel, StartMeet, StartReturn, StartSave,
         Begin, GuardedOps
<1>. DEFINE k == call'[c]
<1>2. /\ call' = [call EXCEPT ![c] = k] /\ UNCHANGED Rows
      /\ k.op = op /\ k.deal = d /\ k.at = "start"
      /\ op = "meet" => k.seen = deal[d]
  BY <1>0, <1>1 DEF Begin
<1>3. Agreed(k, deal)
  BY <1>1, <1>2 DEF Agreed
<1>. HIDE DEF k
<1>. QED
  BY <1>2, <1>3, HandsStage

LEMMA HandsFail ==
  ASSUME HandInv, AcceptInv', NEW c \in Calls, Fail(c)
  PROVE  HandInv'
BY HandsStage DEF Fail, End

LEMMA HandsProceed ==
  ASSUME HandInv, AcceptInv', NEW c \in Calls, Proceed(c)
  PROVE  HandInv'
<1>. DEFINE d == call[c].deal
<1>1. TypeOK
  BY DEF HandInv, AcceptInv
<1>2. call[c] # Idle => call[c] \in Call /\ Agreed(call[c], deal) /\ call[c].op \in GuardedOps
  BY <1>1, Running DEF HandInv, Agreed
<1>3. ~(RestoreBook(c) \/ SaveCancelled(c) \/ LockForReturn(c) \/ Return(c) \/ SaveLoadedBook(c))
  BY <1>2 DEF RestoreBook, SaveCancelled, LockForReturn, Return, SaveLoadedBook, Doing, GuardedOps
<1>4. CASE CountOpen(c)
  <2>. DEFINE k == [call[c] EXCEPT !.at = "next"]
  <2>1. \/ Fail(c)
        \/ call' = [call EXCEPT ![c] = k] /\ UNCHANGED Rows
    BY <1>4, Zenon DEF CountOpen
  <2>2. call[c] # Idle /\ call[c].op = "request"
    BY <1>4 DEF CountOpen, Doing
  <2>3. Agreed(k, deal)
    BY <1>2, <2>2 DEF Agreed, Call, GuardedOps
  <2>. HIDE DEF k
  <2>. QED
    BY <2>1, <2>3, HandsFail, HandsStage
<1>5. CASE LockDeal(c)
  <2>. DEFINE k == [call[c] EXCEPT !.at = "next", !.holds = {d}]
  <2>1. call' = [call EXCEPT ![c] = k] /\ UNCHANGED Rows
    BY <1>5 DEF LockDeal
  <2>2. call[c] # Idle /\ call[c].op = "accept"
    BY <1>5 DEF LockDeal, Doing
  <2>3. Agreed(k, deal)
    BY <1>2, <2>2 DEF Agreed, Call, GuardedOps
  <2>. HIDE DEF k
  <2>. QED
    BY <2>1, <2>3, HandsStage
<1>6. CASE LockBook(c)
  <2>. DEFINE t == {s \in Deals \ {d} : deal[s].status = "Q"}
              k == [call[c] EXCEPT !.at = "ready", !.onbook = TRUE, !.rest = t]
  <2>1. \/ Fail(c)
        \/ call' = [call EXCEPT ![c] = k] /\ UNCHANGED Rows
    BY <1>6 DEF LockBook
  <2>2. call[c] # Idle /\ call[c].op = "accept"
    BY <1>6 DEF LockBook, Doing
  <2>3. k.op = "accept" /\ k.deal = d /\ k.rest = t
    BY <1>2, <2>2 DEF Call
  <2>. HIDE DEF k
  <2>4. Agreed(k, deal)
    BY <2>3 DEF Agreed, GuardedOps
  <2>. QED
    BY <2>1, <2>4, HandsFail, HandsStage
<1>7. CASE \E s \in Deals : LockSibling(c, s)
  <2>1. PICK s \in Deals : LockSibling(c, s)
    BY <1>7
  <2>. DEFINE k == [call[c] EXCEPT !.holds = call[c].holds \cup {s}]
  <2>2. call' = [call EXCEPT ![c] = k] /\ UNCHANGED Rows
    BY <2>1 DEF LockSibling
  <2>3. call[c] # Idle /\ call[c].op = "accept"
    BY <2>1 DEF LockSibling, Doing
  <2>4. Agreed(k, deal)
    BY <1>2, <2>3 DEF Agreed, Call, GuardedOps
  <2>. HIDE DEF k
  <2>. QED
    BY <2>2, <2>4, HandsStage
<1>8. CASE LoadBook(c)
  <2>. DEFINE k == [call[c] EXCEPT !.at = "next", !.copy = book]
  <2>1. \/ Fail(c)
        \/ call' = [call EXCEPT ![c] = k] /\ UNCHANGED Rows
    BY <1>8, Zenon DEF LoadBook
  <2>2. call[c] # Idle /\ call[c].op = "meet"
    BY <1>8 DEF LoadBook, Doing
  <2>3. Agreed(k, deal)
    BY <1>2, <2>2 DEF Agreed, Call, GuardedOps
  <2>. HIDE DEF k
  <2>. QED
    BY <2>1, <2>3, HandsFail, HandsStage
<1>9. CASE SaveBook(c)
  <2>. DEFINE k == [call[c] EXCEPT !.at = "ready", !.onbook = TRUE]
  <2>1. call' = [call EXCEPT ![c] = k] /\ UNCHANGED Rows
    BY <1>9 DEF SaveBook
  <2>2. call[c] # Idle /\ call[c].op = "meet"
    BY <1>9 DEF SaveBook, Doing
  <2>3. Agreed(k, deal)
    BY <1>2, <2>2 DEF Agreed, Call, GuardedOps
  <2>. HIDE DEF k
  <2>. QED
    BY <2>1, <2>3, HandsStage
<1>. QED
  BY <1>3, <1>4, <1>5, <1>6, <1>7, <1>8, <1>9, HandsInsert, HandsAccept, HandsMeet DEF Proceed

LEMMA NextHands ==
  ASSUME Ops \subseteq GuardedOps, HandInv, [Next]_vars
  PROVE  HandInv'
<1>0. AcceptInv' /\ book \in BookRow /\ deal \in [Deals -> DealRow]
  BY NextAccept DEF HandInv, AcceptInv, TypeOK
<1>1. CASE \E c \in Calls : StartCall(c) \/ Proceed(c)
  BY <1>0, <1>1, HandsStart, HandsProceed
<1>2. CASE BreakDeadlock
  BY <1>0, <1>2, HandsFail DEF BreakDeadlock
<1>3. CASE StartJob \/ (\E d \in Deals : SkipDue(d)) \/ UNCHANGED vars
  <2>1. /\ book' = book /\ deal' = deal /\ call' = call
        /\ job' # {} => book.status \in {"O", "R"}
    BY <1>3 DEF StartJob, SkipDue, vars, HandInv
  <2>. QED
    BY <1>0, <2>1, HandsQuiet
<1>4. CASE \E d \in Deals : Extend(d) \/ DueDateComes(d)
  <2>1. PICK d \in Deals : Extend(d) \/ DueDateComes(d)
    BY <1>4
  <2>2. \A s \in Deals : deal'[s].status = deal[s].status
    BY <1>0, <2>1 DEF Extend, DueDateComes, DealRow
  <2>3. book' = book /\ call' = call /\ job' = job
    BY <2>1 DEF Extend, DueDateComes
  <2>. QED
    BY <1>0, <2>2, <2>3, HandsQuiet DEF HandInv
<1>5. CASE \E d \in Deals : ProcessDue(d)
  <2>1. /\ book.status \in {"O", "R"} /\ book'.status = "R" /\ book'.keeper = book.keeper
        /\ deal' = deal /\ call' = call
    BY <1>0, <1>5 DEF ProcessDue, HandInv, BookRow
  <2>2. HandoverExact'
    BY <2>1, SameHands DEF HandInv
  <2>. QED
    BY <1>0, <2>1, <2>2 DEF HandInv
<1>. QED
  BY <1>1, <1>2, <1>3, <1>4, <1>5 DEF Next

\* However many requests, acceptances and meetings overlap, the book is
\* promised to one loan and out on the one whose borrower has it.
THEOREM HandoverCorrect ==
  ASSUME Ops \subseteq GuardedOps
  PROVE  Spec => []HandoverExact
<1>1. HandInv /\ [Next]_vars => HandInv'
  BY NextHands
<1>2. HandInv => HandoverExact
  BY DEF HandInv
<1>. QED
  BY <1>1, <1>2, InitHands, PTL DEF Spec

-----------------------------------------------------------------------------
(* The handover implements Custody *)

\* There is one book; whoever has it is told by the loan he has it on.
Book == "book"
HeldOn == [b \in {Book} |-> book.keeper]
ReservedFor ==
  [b \in {Book} |-> IF book.status = "V" THEN CHOOSE d \in Deals : deal[d].status = "P"
                                         ELSE NoDeal]
Met == {d \in Deals : deal[d].status \in {"M", "D"}}

C == INSTANCE Custody WITH Users <- Deals \cup {NoDeal}, Books <- {Book},
                           Owner <- [b \in {Book} |-> NoDeal],
                           holder <- HeldOn, reservedFor <- ReservedFor, past <- Met

\* The same loans are agreed, out and done, and the book stays with its keeper.
LEMMA SameCustody ==
  ASSUME book'.keeper = book.keeper,
         book'.status = "V" <=> book.status = "V",
         \A s \in Deals : \A t \in {"P", "M", "D"} :
           deal'[s].status = t <=> deal[s].status = t
  PROVE  UNCHANGED C!custodyVars
<1>1. {s \in Deals : deal'[s].status = "P"} = {s \in Deals : deal[s].status = "P"}
  OBVIOUS
<1>2. (CHOOSE s \in Deals : deal'[s].status = "P") = CHOOSE s \in Deals : deal[s].status = "P"
  <2>1. ASSUME NEW s
        PROVE  s \in Deals /\ deal'[s].status = "P" <=> s \in Deals /\ deal[s].status = "P"
    OBVIOUS
  <2>. QED
    BY Zenon, <2>1
<1>3. HeldOn' = HeldOn
  BY DEF HeldOn
<1>4. ReservedFor' = ReservedFor
  <2>. DEFINE now == CHOOSE s \in Deals : deal[s].status = "P"
              after == CHOOSE s \in Deals : deal'[s].status = "P"
  <2>1. /\ ReservedFor = [b \in {Book} |-> IF book.status = "V" THEN now ELSE NoDeal]
        /\ ReservedFor' = [b \in {Book} |-> IF book'.status = "V" THEN after ELSE NoDeal]
    BY Zenon DEF ReservedFor
  <2>2. now = after
    BY <1>2
  <2>. HIDE DEF now, after
  <2>. QED
    BY <2>1, <2>2
<1>5. Met' = Met
  BY DEF Met
<1>. QED
  BY <1>3, <1>4, <1>5 DEF C!custodyVars

LEMMA InitCustody == Init => C!CustodyInit
<1>. SUFFICES ASSUME Init PROVE C!CustodyInit
  OBVIOUS
<1>1. HeldOn = [b \in {Book} |-> NoDeal]
  BY DEF Init, HeldOn, OnShelf
<1>2. ReservedFor = [b \in {Book} |-> NoDeal]
  BY DEF Init, ReservedFor, OnShelf
<1>3. Met = {}
  BY DEF Init, Met, NewRow
<1>. QED
  BY <1>1, <1>2, <1>3 DEF C!CustodyInit

\* The accepted loan is the one the book is reserved for.
LEMMA ReservedLoan ==
  ASSUME HandoverExact, book.status = "V", NEW d \in Deals, deal[d].status = "P"
  PROVE  ReservedFor[Book] = d
<1>1. \A s \in Deals : deal[s].status = "P" => s = d
  BY DEF HandoverExact
<1>2. (CHOOSE s \in Deals : deal[s].status = "P") = d
  BY <1>1
<1>. QED
  BY <1>2 DEF ReservedFor

LEMMA AcceptReserves ==
  ASSUME HandInv, HandInv', NEW c \in Calls, Accept(c)
  PROVE  C!Reserve(Book, call[c].deal)
<1>. DEFINE d == call[c].deal
<1>1. /\ call[c] # Idle /\ call[c].op = "accept" /\ call[c].at = "ready" /\ TypeOK
      /\ deal \in [Deals -> DealRow] /\ book \in BookRow
  BY DEF Accept, Doing, HandInv, AcceptInv, TypeOK
<1>2. /\ d \in Deals /\ book.status = "T" /\ deal[d].status = "Q"
      /\ \A s \in call[c].rest : deal[s].status = "Q"
  BY <1>1, Running DEF HandInv, AcceptInv, Decided, Agreed
<1>3. /\ deal'[d].status = "P"
      /\ \A s \in Deals \ {d} : \/ deal'[s].status = "C" /\ deal[s].status = "Q"
                                \/ deal'[s] = deal[s]
      /\ book'.status = "V" /\ book'.keeper = book.keeper
  BY <1>1, <1>2 DEF Accept, DealRow, BookRow
<1>4. ReservedFor = [b \in {Book} |-> NoDeal]
  BY <1>2 DEF ReservedFor
<1>5. ReservedFor' = [b \in {Book} |-> d]
  <2>1. (CHOOSE s \in Deals : deal'[s].status = "P") = d
    <3>1. \A s \in Deals : deal'[s].status = "P" => s = d
      BY <1>2, <1>3 DEF HandInv, HandoverExact
    <3>. QED
      BY <1>2, <1>3, <3>1
  <2>. QED
    BY <1>3, <2>1 DEF ReservedFor
<1>6. HeldOn' = HeldOn
  BY <1>3 DEF HeldOn
<1>7. Met' = Met
  BY <1>2, <1>3 DEF Met
<1>8. d \notin Met /\ d # NoDeal
  BY <1>2, RaceAssumption DEF Met
<1>. HIDE DEF d
<1>9. ReservedFor' = [ReservedFor EXCEPT ![Book] = d]
  BY <1>4, <1>5
<1>. QED
  BY <1>4, <1>6, <1>7, <1>8, <1>9 DEF C!Reserve, d

\* Under the second of two clicks on "met" nothing moves.
LEMMA MeetHandsOver ==
  ASSUME HandInv, HandInv', NEW c \in Calls, Meet(c)
  PROVE  C!HandOver(Book, call[c].deal) \/ UNCHANGED C!custodyVars
<1>. DEFINE d == call[c].deal
<1>1. /\ call[c] # Idle /\ call[c].op = "meet" /\ call[c].at = "ready" /\ TypeOK
      /\ deal \in [Deals -> DealRow] /\ book \in BookRow
  BY DEF Meet, Doing, HandInv, AcceptInv, TypeOK
<1>2. d \in Deals /\ deal[d].status \in {"P", "M"} /\ call[c] \in Call
  BY <1>1, Running DEF HandInv, Agreed
<1>3. /\ deal'[d].status = "M" /\ \A s \in Deals \ {d} : deal'[s] = deal[s]
      /\ book'.status = "O" /\ book'.keeper = d
  <2>1. [call[c].seen EXCEPT !.status = "M", !.due = FALSE].status = "M"
    BY <1>2 DEF Call, DealRow
  <2>2. /\ [call[c].copy EXCEPT !.status = "O", !.keeper = d].status = "O"
        /\ [call[c].copy EXCEPT !.status = "O", !.keeper = d].keeper = d
    BY <1>2 DEF Call, BookRow
  <2>. QED
    BY <1>1, <1>2, <2>1, <2>2 DEF Meet
<1>4. CASE deal[d].status = "M"
  <2>1. book.keeper = d /\ book.status # "V"
    BY <1>1, <1>2, <1>4 DEF HandInv, HandoverExact, BookRow
  <2>. QED
    BY <1>3, <1>4, <2>1, SameCustody
<1>5. CASE deal[d].status = "P"
  <2>1. book.status = "V"
    BY <1>1, <1>2, <1>5 DEF HandInv, HandoverExact, BookRow
  <2>2. ReservedFor = [b \in {Book} |-> d]
    <3>1. ReservedFor[Book] = d
      BY <1>2, <1>5, <2>1, ReservedLoan DEF HandInv
    <3>. QED
      BY <3>1 DEF ReservedFor
  <2>3. ReservedFor' = [b \in {Book} |-> NoDeal]
    BY <1>3 DEF ReservedFor
  <2>4. HeldOn' = [HeldOn EXCEPT ![Book] = d]
    BY <1>3 DEF HeldOn
  <2>5. Met' = Met \cup {d}
    BY <1>2, <1>3 DEF Met
  <2>6. d # NoDeal
    BY <1>2, RaceAssumption
  <2>. HIDE DEF d
  <2>7. ReservedFor' = [ReservedFor EXCEPT ![Book] = NoDeal]
    BY <2>2, <2>3
  <2>. QED
    BY <2>2, <2>4, <2>5, <2>6, <2>7 DEF C!HandOver, d
<1>. QED
  BY <1>2, <1>4, <1>5

LEMMA StepCustody ==
  ASSUME Ops \subseteq GuardedOps, HandInv, HandInv', [Next]_vars
  PROVE  [C!CustodyNext]_(C!custodyVars)
<1>0. book \in BookRow /\ deal \in [Deals -> DealRow] /\ TypeOK
  BY DEF HandInv, AcceptInv, TypeOK
<1>a. ASSUME UNCHANGED <<book, deal>> PROVE UNCHANGED C!custodyVars
  BY <1>a, SameCustody
<1>1. ASSUME NEW c \in Calls, Proceed(c)
      PROVE  [C!CustodyNext]_(C!custodyVars)
  <2>1. call[c] # Idle => call[c].op \in GuardedOps
    BY <1>1 DEF HandInv, Agreed
  <2>2. ~(RestoreBook(c) \/ SaveCancelled(c) \/ LockForReturn(c) \/ Return(c) \/ SaveLoadedBook(c))
    BY <2>1 DEF RestoreBook, SaveCancelled, LockForReturn, Return, SaveLoadedBook, Doing,
                GuardedOps
  <2>3. CASE Accept(c)
    <3>1. call[c].deal \in Deals
      BY <1>0, <2>3, Running DEF Accept, Doing
    <3>. QED
      BY <2>3, <3>1, AcceptReserves DEF C!CustodyNext
  <2>4. CASE Meet(c)
    <3>1. call[c].deal \in Deals
      BY <1>0, <2>4, Running DEF Meet, Doing
    <3>. QED
      BY <2>4, <3>1, MeetHandsOver DEF C!CustodyNext
  <2>5. CASE InsertDeal(c)
    <3>1. /\ call[c].deal \in Deals /\ deal[call[c].deal].status = "-"
          /\ call[c].op = "request" /\ call[c] # Idle
      BY <1>0, <2>5, Running DEF InsertDeal, Doing, HandInv, AcceptInv, Present
    <3>2. /\ book' = book /\ deal'[call[c].deal].status = "Q"
          /\ \A s \in Deals \ {call[c].deal} : deal'[s] = deal[s]
      BY <1>0, <2>5, <3>1 DEF InsertDeal
    <3>. QED
      BY <3>1, <3>2, SameCustody
  <2>6. CASE \/ CountOpen(c) \/ LockDeal(c) \/ LockBook(c) \/ LoadBook(c) \/ SaveBook(c)
             \/ \E s \in Deals : LockSibling(c, s)
    BY <1>a, <2>6 DEF CountOpen, LockDeal, LockBook, LoadBook, SaveBook, LockSibling, Fail, Rows
  <2>. QED
    BY <1>1, <2>2, <2>3, <2>4, <2>5, <2>6 DEF Proceed
<1>2. ASSUME NEW c \in Calls, StartCall(c) PROVE UNCHANGED C!custodyVars
  BY <1>a, <1>2 DEF StartCall, StartRequest, StartAccept, StartCancel, StartMeet, StartReturn,
                    StartSave, Begin, Rows
<1>3. CASE StartJob \/ (\E d \in Deals : SkipDue(d)) \/ BreakDeadlock \/ UNCHANGED vars
  BY <1>a, <1>3 DEF StartJob, SkipDue, BreakDeadlock, Fail, Rows, vars
<1>4. ASSUME NEW d \in Deals, ProcessDue(d) PROVE UNCHANGED C!custodyVars
  <2>1. book.status # "V" /\ book'.status = "R" /\ book'.keeper = book.keeper /\ deal' = deal
    BY <1>0, <1>4 DEF ProcessDue, HandInv, BookRow
  <2>. QED
    BY <2>1, SameCustody
<1>5. ASSUME NEW d \in Deals, Extend(d) \/ DueDateComes(d) PROVE UNCHANGED C!custodyVars
  <2>1. book' = book /\ \A s \in Deals : deal'[s].status = deal[s].status
    BY <1>0, <1>5 DEF Extend, DueDateComes, DealRow
  <2>. QED
    BY <2>1, SameCustody
<1>. QED
  BY <1>1, <1>2, <1>3, <1>4, <1>5 DEF Next

\* However many requests, acceptances and meetings overlap, with each other
\* and with the job, together they do to the book only what Custody allows:
\* it is reserved for one loan at a time, for a loan once, and changes hands
\* only for the loan it is reserved for.
THEOREM RacesImplementCustody ==
  ASSUME Ops \subseteq GuardedOps
  PROVE  Spec => C!CustodySpec
<1>1. HandInv /\ [Next]_vars => HandInv'
  BY NextHands
<1>2. HandInv /\ HandInv' /\ [Next]_vars => [C!CustodyNext]_(C!custodyVars)
  BY StepCustody
<1>. QED
  BY <1>1, <1>2, InitHands, InitCustody, PTL DEF Spec, C!CustodySpec

-----------------------------------------------------------------------------
(* How far overlapping requests overrun the limit *)

OpenStatus == {"Q", "P", "M"}

\* A handover that has been loaded may write its loan open again.
Meeting(s) == \E c \in Calls : call[c] # Idle /\ call[c].op = "meet" /\ call[c].deal = s

\* The loans of an account that are open, or may be written so; and its
\* requests that have been counted and are not inserted yet.
MayBeOpen(a) ==
  {s \in Deals : Applicant[s] = a /\ (deal[s].status \in OpenStatus \/ Meeting(s))}
Counted(a) == {c \in Calls : Doing(c, "request", "next") /\ Applicant[call[c].deal] = a}

Overrun(a) ==
  Cardinality(MayBeOpen(a)) + Cardinality(Counted(a)) <= MaxBooks + Cardinality(Calls) - 1

LEMMA FiniteParts ==
  ASSUME NEW a
  PROVE  /\ IsFiniteSet(MayBeOpen(a)) /\ IsFiniteSet(Counted(a)) /\ IsFiniteSet(Open(a))
         /\ Cardinality(MayBeOpen(a)) \in Nat /\ Cardinality(Counted(a)) \in Nat
         /\ Cardinality(Open(a)) \in Nat /\ Cardinality(Calls) \in Nat
<1>1. MayBeOpen(a) \subseteq Deals /\ Counted(a) \subseteq Calls /\ Open(a) \subseteq Deals
  BY DEF MayBeOpen, Counted, Open
<1>. QED
  BY <1>1, RaceAssumption, FS_Subset, FS_CardinalityType

\* A meeting is about one loan: there are as many loans that may be written
\* open besides the open ones as there are calls that do it, at most.
LEMMA MeetingsBound ==
  ASSUME TypeOK, NEW a, NEW S \in SUBSET Calls,
         \A c \in S : call[c] # Idle => call[c].op # "meet"
  PROVE  Cardinality(MayBeOpen(a)) + Cardinality(S) <= Cardinality(Open(a)) + Cardinality(Calls)
<1>. DEFINE M == {c \in Calls : call[c] # Idle /\ call[c].op = "meet"}
            T == {call[c].deal : c \in M}
            f == [c \in M |-> call[c].deal]
<1>1. IsFiniteSet(M) /\ IsFiniteSet(S) /\ IsFiniteSet(Calls)
  BY RaceAssumption, FS_Subset
<1>2. f \in Surjection(M, T)
  BY DEF Surjection
<1>3. IsFiniteSet(T) /\ Cardinality(T) <= Cardinality(M)
  BY <1>1, <1>2, FS_Surjection
<1>4. MayBeOpen(a) \subseteq Open(a) \cup T
  BY DEF MayBeOpen, Open, Meeting, OpenStatus
<1>5. /\ IsFiniteSet(Open(a) \cup T)
      /\ Cardinality(Open(a) \cup T)
           = Cardinality(Open(a)) + Cardinality(T) - Cardinality(Open(a) \cap T)
      /\ Cardinality(Open(a) \cap T) \in Nat
  BY <1>3, FiniteParts, FS_Union, FS_Intersection, FS_CardinalityType
<1>6. Cardinality(MayBeOpen(a)) <= Cardinality(Open(a) \cup T)
  BY <1>4, <1>5, FS_Subset
<1>7. M \cap S = {} /\ M \cup S \subseteq Calls
  OBVIOUS
<1>8. /\ Cardinality(M \cup S) = Cardinality(M) + Cardinality(S)
      /\ Cardinality(M \cup S) <= Cardinality(Calls)
  <2>1. /\ IsFiniteSet(M \cup S)
        /\ Cardinality(M \cup S) = Cardinality(M) + Cardinality(S) - Cardinality({})
    BY <1>1, <1>7, FS_Union
  <2>2. Cardinality({}) = 0 /\ Cardinality(M) \in Nat /\ Cardinality(S) \in Nat
    BY <1>1, FS_EmptySet, FS_CardinalityType
  <2>3. Cardinality(M \cup S) <= Cardinality(Calls)
    BY <1>1, <1>7, FS_Subset
  <2>. QED
    BY <2>1, <2>2, <2>3
<1>9. /\ Cardinality(M) \in Nat /\ Cardinality(S) \in Nat /\ Cardinality(T) \in Nat
      /\ Cardinality(Open(a)) \in Nat /\ Cardinality(MayBeOpen(a)) \in Nat
      /\ Cardinality(Open(a) \cup T) \in Nat /\ Cardinality(Calls) \in Nat
  BY <1>1, <1>3, <1>5, FiniteParts, FS_CardinalityType
<1>. HIDE DEF M, T, f
<1>. QED
  BY <1>3, <1>5, <1>6, <1>8, <1>9

\* A step after which no more loans may be open, and no more are counted.
LEMMA OverrunShrinks ==
  ASSUME NEW a, Overrun(a), MayBeOpen(a)' \subseteq MayBeOpen(a), Counted(a)' \subseteq Counted(a)
  PROVE  Overrun(a)'
<1>1. /\ Cardinality(MayBeOpen(a)') <= Cardinality(MayBeOpen(a))
      /\ Cardinality(Counted(a)') <= Cardinality(Counted(a))
      /\ Cardinality(MayBeOpen(a)') \in Nat /\ Cardinality(Counted(a)') \in Nat
  BY FiniteParts, FS_Subset, FS_CardinalityType
<1>. QED
  BY <1>1, FiniteParts, RaceAssumption DEF Overrun

\* One call takes such a step.
LEMMA OverrunCall ==
  ASSUME TypeOK, NEW a, Overrun(a), NEW c \in Calls, NEW k, call' = [call EXCEPT ![c] = k],
         k # Idle /\ k.op = "meet" => Meeting(k.deal) \/ deal[k.deal].status \in OpenStatus,
         k # Idle /\ k.op = "request" /\ k.at = "next" =>
           Doing(c, "request", "next") /\ k.deal = call[c].deal,
         \A s \in Deals : deal'[s].status \in OpenStatus =>
           deal[s].status \in OpenStatus \/ Meeting(s)
  PROVE  Overrun(a)'
<1>1. call'[c] = k /\ \A b \in Calls \ {c} : call'[b] = call[b]
  BY DEF TypeOK
<1>2. ASSUME NEW s \in Deals, Meeting(s)'
      PROVE  deal[s].status \in OpenStatus \/ Meeting(s)
  BY <1>1, <1>2 DEF Meeting
<1>3. MayBeOpen(a)' \subseteq MayBeOpen(a)
  BY <1>2 DEF MayBeOpen
<1>4. Counted(a)' \subseteq Counted(a)
  BY <1>1 DEF Counted, Doing
<1>. QED
  BY <1>3, <1>4, OverrunShrinks

\* A request is counted while there are fewer open loans than the limit.  It
\* and the others in progress are what may exceed it.
LEMMA OverrunCount ==
  ASSUME TypeOK, NEW a, Overrun(a), NEW c \in Calls, CountOpen(c)
  PROVE  Overrun(a)'
<1>. DEFINE d == call[c].deal
            k == [call[c] EXCEPT !.at = "next"]
<1>1. call[c] # Idle /\ call[c].op = "request" /\ call[c].at = "start" /\ call[c] \in Call
  BY Running DEF CountOpen, Doing
<1>2. CASE Fail(c)
  BY <1>2, OverrunCall DEF Fail, End, Rows
<1>3. CASE /\ ~(Cardinality(Open(Applicant[d])) >= MaxBooks)
           /\ call' = [call EXCEPT ![c] = k] /\ UNCHANGED Rows
  <2>1. /\ call'[c] = k /\ \A b \in Calls \ {c} : call'[b] = call[b]
        /\ deal' = deal
    BY <1>3 DEF TypeOK, Rows
  <2>2. k # Idle => k.op = "request" /\ k.deal = d
    BY <1>1 DEF Call
  <2>. HIDE DEF k
  <2>3. CASE a = Applicant[d]
    <3>1. \A s \in Deals : Meeting(s)' => Meeting(s)
      BY <2>1, <2>2 DEF Meeting
    <3>2. MayBeOpen(a)' \subseteq MayBeOpen(a)
      BY <2>1, <3>1 DEF MayBeOpen
    <3>3. Counted(a)' \subseteq Counted(a) \cup {c}
      BY <2>1 DEF Counted, Doing
    <3>4. \A b \in Counted(a) \cup {c} : call[b] # Idle => call[b].op # "meet"
      BY <1>1 DEF Counted, Doing
    <3>5. Counted(a) \cup {c} \subseteq Calls
      BY DEF Counted
    <3>6. Cardinality(MayBeOpen(a)) + Cardinality(Counted(a) \cup {c})
            <= Cardinality(Open(a)) + Cardinality(Calls)
      BY <3>4, <3>5, MeetingsBound
    <3>7. /\ Cardinality(MayBeOpen(a)') <= Cardinality(MayBeOpen(a))
          /\ Cardinality(Counted(a)') <= Cardinality(Counted(a) \cup {c})
          /\ Cardinality(MayBeOpen(a)') \in Nat /\ Cardinality(Counted(a)') \in Nat
          /\ Cardinality(Counted(a) \cup {c}) \in Nat
      BY <3>2, <3>3, FiniteParts, FS_Subset, FS_AddElement, FS_CardinalityType
    <3>8. Cardinality(Open(a)) <= MaxBooks - 1
      BY <1>3, <2>3, FiniteParts, RaceAssumption
    <3>. QED
      BY <3>6, <3>7, <3>8, FiniteParts, RaceAssumption DEF Overrun
  <2>4. CASE a # Applicant[d]
    <3>1. \A s \in Deals : Meeting(s)' => Meeting(s)
      BY <2>1, <2>2 DEF Meeting
    <3>2. MayBeOpen(a)' \subseteq MayBeOpen(a)
      BY <2>1, <3>1 DEF MayBeOpen
    <3>3. Counted(a)' \subseteq Counted(a)
      BY <2>1, <2>2, <2>4 DEF Counted, Doing
    <3>. QED
      BY <3>2, <3>3, OverrunShrinks
  <2>. QED
    BY <2>3, <2>4
<1>4. \/ Fail(c)
      \/ /\ ~(Cardinality(Open(Applicant[d])) >= MaxBooks)
         /\ call' = [call EXCEPT ![c].at = "next"] /\ UNCHANGED Rows
  BY Zenon DEF CountOpen
<1>. QED
  BY <1>2, <1>3, <1>4

\* What was counted becomes a loan.
LEMMA OverrunInsert ==
  ASSUME TypeOK, NEW a, Overrun(a), NEW c \in Calls, InsertDeal(c)
  PROVE  Overrun(a)'
<1>. DEFINE d == call[c].deal
<1>1. /\ Doing(c, "request", "next") /\ d \in Deals
      /\ call'[c] = Idle /\ \A b \in Calls \ {c} : call'[b] = call[b]
      /\ \A s \in Deals \ {d} : deal'[s] = deal[s]
  BY Running DEF InsertDeal, Doing, End, TypeOK
<1>2. \A s \in Deals : Meeting(s)' => Meeting(s)
  BY <1>1 DEF Meeting
<1>3. CASE a = Applicant[d]
  <2>1. MayBeOpen(a)' \subseteq MayBeOpen(a) \cup {d}
    BY <1>1, <1>2 DEF MayBeOpen
  <2>2. c \in Counted(a) /\ Counted(a)' \subseteq Counted(a) \ {c}
    BY <1>1, <1>3 DEF Counted, Doing
  <2>3. /\ Cardinality(MayBeOpen(a)') <= Cardinality(MayBeOpen(a) \cup {d})
        /\ Cardinality(MayBeOpen(a) \cup {d}) <= Cardinality(MayBeOpen(a)) + 1
        /\ Cardinality(MayBeOpen(a) \cup {d}) \in Nat /\ Cardinality(MayBeOpen(a)') \in Nat
    <3>1. IsFiniteSet(MayBeOpen(a) \cup {d})
      BY FiniteParts, FS_AddElement
    <3>2. IsFiniteSet(MayBeOpen(a)')
      BY <2>1, <3>1, FS_Subset
    <3>3. Cardinality(MayBeOpen(a)') <= Cardinality(MayBeOpen(a) \cup {d})
      BY <2>1, <3>1, FS_Subset
    <3>4. Cardinality(MayBeOpen(a) \cup {d}) <= Cardinality(MayBeOpen(a)) + 1
      <4>1. Cardinality(MayBeOpen(a) \cup {d})
              = IF d \in MayBeOpen(a) THEN Cardinality(MayBeOpen(a))
                ELSE Cardinality(MayBeOpen(a)) + 1
        BY FiniteParts, FS_AddElement
      <4>. QED
        BY <4>1, FiniteParts
    <3>5. Cardinality(MayBeOpen(a) \cup {d}) \in Nat /\ Cardinality(MayBeOpen(a)') \in Nat
      BY <3>1, <3>2, FS_CardinalityType
    <3>. QED
      BY <3>3, <3>4, <3>5
  <2>4. /\ Cardinality(Counted(a)') <= Cardinality(Counted(a)) - 1
        /\ Cardinality(Counted(a)') \in Nat
    <3>1. /\ IsFiniteSet(Counted(a) \ {c})
          /\ Cardinality(Counted(a) \ {c}) = Cardinality(Counted(a)) - 1
      BY <2>2, FiniteParts, FS_RemoveElement
    <3>. QED
      BY <2>2, <3>1, FS_Subset, FS_CardinalityType
  <2>. QED
    BY <2>3, <2>4, FiniteParts, RaceAssumption DEF Overrun
<1>4. CASE a # Applicant[d]
  <2>1. MayBeOpen(a)' \subseteq MayBeOpen(a)
    BY <1>1, <1>2, <1>4 DEF MayBeOpen
  <2>2. Counted(a)' \subseteq Counted(a)
    BY <1>1 DEF Counted, Doing
  <2>. QED
    BY <2>1, <2>2, OverrunShrinks
<1>. QED
  BY <1>3, <1>4

LEMMA OverrunProceed ==
  ASSUME AcceptInv, NEW a, Overrun(a), NEW c \in Calls, Proceed(c)
  PROVE  Overrun(a)'
<1>. DEFINE d == call[c].deal
<1>0. TypeOK
  BY DEF AcceptInv
<1>1. CASE CountOpen(c) \/ InsertDeal(c)
  BY <1>0, <1>1, OverrunCount, OverrunInsert
<1>2. /\ call[c] # Idle => call[c] \in Call /\ (call[c].op # "save" => d \in Deals)
      /\ deal \in [Deals -> DealRow]
  BY <1>0, Running DEF TypeOK
\* A call that ends.
<1>3. ASSUME End(c),
             \A s \in Deals : deal'[s].status \in OpenStatus =>
               deal[s].status \in OpenStatus \/ Meeting(s)
      PROVE  Overrun(a)'
  BY <1>0, <1>3, OverrunCall DEF End
\* A call of another service that goes on.
<1>4. ASSUME NEW k, call' = [call EXCEPT ![c] = k], deal' = deal, call[c] # Idle,
             k.op = call[c].op, k.deal = d, k.op # "request"
      PROVE  Overrun(a)'
  <2>1. k.op = "meet" => Meeting(k.deal)
    BY <1>4 DEF Meeting
  <2>. QED
    BY <1>0, <1>4, <2>1, OverrunCall
<1>5. CASE Fail(c)
  BY <1>3, <1>5 DEF Fail, Rows
<1>6. CASE LockDeal(c)
  <2>. DEFINE k == [call[c] EXCEPT !.at = "next", !.holds = {d}]
  <2>1. call' = [call EXCEPT ![c] = k] /\ UNCHANGED Rows
    BY <1>6 DEF LockDeal
  <2>2. call[c] # Idle /\ call[c].op = "accept"
    BY <1>6 DEF LockDeal, Doing
  <2>3. k.op = call[c].op /\ k.deal = d
    BY <1>2, <2>2 DEF Call
  <2>. HIDE DEF k
  <2>. QED
    BY <1>4, <2>1, <2>2, <2>3 DEF Rows
<1>7. CASE LockBook(c)
  <2>. DEFINE t == {s \in Deals \ {d} : deal[s].status = "Q"}
              k == [call[c] EXCEPT !.at = "ready", !.onbook = TRUE, !.rest = t]
  <2>1. Fail(c) \/ (call' = [call EXCEPT ![c] = k] /\ UNCHANGED Rows)
    BY <1>7 DEF LockBook
  <2>2. call[c] # Idle /\ call[c].op = "accept"
    BY <1>7 DEF LockBook, Doing
  <2>3. k.op = call[c].op /\ k.deal = d
    BY <1>2, <2>2 DEF Call
  <2>. HIDE DEF k
  <2>. QED
    BY <1>4, <1>5, <2>1, <2>2, <2>3 DEF Rows
<1>8. CASE \E s \in Deals : LockSibling(c, s)
  <2>1. PICK s \in Deals : LockSibling(c, s)
    BY <1>8
  <2>. DEFINE k == [call[c] EXCEPT !.holds = call[c].holds \cup {s}]
  <2>2. call' = [call EXCEPT ![c] = k] /\ UNCHANGED Rows
    BY <2>1 DEF LockSibling
  <2>3. call[c] # Idle /\ call[c].op = "accept"
    BY <2>1 DEF LockSibling, Doing
  <2>4. k.op = call[c].op /\ k.deal = d
    BY <1>2, <2>3 DEF Call
  <2>. HIDE DEF k
  <2>. QED
    BY <1>4, <2>2, <2>3, <2>4 DEF Rows
<1>9. CASE Accept(c)
  <2>1. deal[d].status = "Q" /\ End(c)
    BY <1>9 DEF Accept, Doing, AcceptInv, Decided
  <2>2. \A s \in Deals : deal'[s].status \in OpenStatus => deal[s].status \in OpenStatus
    BY <1>2, <1>9, <2>1 DEF Accept, OpenStatus, DealRow
  <2>. QED
    BY <1>3, <2>1, <2>2
<1>10. CASE RestoreBook(c)
  <2>. DEFINE k == [call[c] EXCEPT !.at = "next"]
  <2>1. call' = [call EXCEPT ![c] = k] /\ deal' = deal
    BY <1>10 DEF RestoreBook
  <2>2. call[c] # Idle /\ call[c].op = "cancel"
    BY <1>10 DEF RestoreBook, Doing
  <2>3. k.op = call[c].op /\ k.deal = d
    BY <1>2, <2>2 DEF Call
  <2>. HIDE DEF k
  <2>. QED
    BY <1>4, <2>1, <2>2, <2>3
<1>11. CASE SaveCancelled(c)
  <2>1. [call[c].seen EXCEPT !.status = "C"].status = "C"
    BY <1>2, <1>11 DEF SaveCancelled, Doing, Call, DealRow
  <2>2. \A s \in Deals : deal'[s].status \in OpenStatus => deal[s].status \in OpenStatus
    BY <1>2, <1>11, <2>1 DEF SaveCancelled, OpenStatus
  <2>. QED
    BY <1>3, <1>11, <2>2 DEF SaveCancelled
<1>12. CASE LoadBook(c)
  <2>. DEFINE k == [call[c] EXCEPT !.at = "next", !.copy = book]
  <2>1. Fail(c) \/ (call' = [call EXCEPT ![c] = k] /\ UNCHANGED Rows)
    BY <1>12, Zenon DEF LoadBook
  <2>2. call[c] # Idle /\ call[c].op = "meet"
    BY <1>12 DEF LoadBook, Doing
  <2>3. k.op = call[c].op /\ k.deal = d
    BY <1>2, <2>2 DEF Call
  <2>. HIDE DEF k
  <2>. QED
    BY <1>4, <1>5, <2>1, <2>2, <2>3 DEF Rows
<1>13. CASE SaveBook(c)
  <2>. DEFINE k == [call[c] EXCEPT !.at = "ready", !.onbook = TRUE]
  <2>1. call' = [call EXCEPT ![c] = k] /\ UNCHANGED Rows
    BY <1>13 DEF SaveBook
  <2>2. call[c] # Idle /\ call[c].op = "meet"
    BY <1>13 DEF SaveBook, Doing
  <2>3. k.op = call[c].op /\ k.deal = d
    BY <1>2, <2>2 DEF Call
  <2>. HIDE DEF k
  <2>. QED
    BY <1>4, <2>1, <2>2, <2>3 DEF Rows
<1>14. CASE Meet(c)
  <2>1. call[c] # Idle /\ call[c].op = "meet" /\ End(c)
    BY <1>14 DEF Meet, Doing
  <2>2. Meeting(d) /\ \A s \in Deals \ {d} : deal'[s] = deal[s]
    BY <1>2, <1>14, <2>1 DEF Meet, Meeting
  <2>. QED
    BY <1>3, <2>1, <2>2
<1>15. CASE LockForReturn(c)
  <2>1. call[c] # Idle /\ call[c].op = "return" /\ UNCHANGED Rows
    BY <1>15 DEF LockForReturn, Doing
  <2>2. \/ call' = [call EXCEPT ![c] = [call[c] EXCEPT !.at = "next", !.onbook = TRUE]]
        \/ call' = [call EXCEPT ![c] = [call[c] EXCEPT !.at = "ready", !.holds = {d}]]
    BY <1>15 DEF LockForReturn
  <2>3. PICK k : call' = [call EXCEPT ![c] = k] /\ k.op = call[c].op /\ k.deal = d
    <3>1. /\ [call[c] EXCEPT !.at = "next", !.onbook = TRUE].op = call[c].op
          /\ [call[c] EXCEPT !.at = "next", !.onbook = TRUE].deal = d
          /\ [call[c] EXCEPT !.at = "ready", !.holds = {d}].op = call[c].op
          /\ [call[c] EXCEPT !.at = "ready", !.holds = {d}].deal = d
      BY <1>2, <2>1 DEF Call
    <3>. QED
      BY <2>2, <3>1
  <2>. QED
    BY <1>4, <2>1, <2>3 DEF Rows
<1>16. CASE Return(c)
  <2>1. \/ Fail(c)
        \/ /\ End(c)
           /\ deal' = [deal EXCEPT ![d] = IF @.status = "M" THEN Closed ELSE @]
    BY <1>16, Zenon DEF Return
  <2>2. deal' = [deal EXCEPT ![d] = IF @.status = "M" THEN Closed ELSE @] =>
          \A s \in Deals : deal'[s].status \in OpenStatus => deal[s].status \in OpenStatus
    BY <1>2 DEF Closed, OpenStatus
  <2>. QED
    BY <1>3, <1>5, <2>1, <2>2
<1>17. CASE SaveLoadedBook(c)
  BY <1>3, <1>17 DEF SaveLoadedBook
<1>. QED
  BY <1>1, <1>6, <1>7, <1>8, <1>9, <1>10, <1>11, <1>12, <1>13, <1>14, <1>15, <1>16, <1>17
     DEF Proceed

LEMMA OverrunStart ==
  ASSUME TypeOK, NEW a, Overrun(a), NEW c \in Calls, StartCall(c)
  PROVE  Overrun(a)'
<1>1. PICK op \in AllOps, d \in Deals \cup {NoDeal} :
        Begin(c, op, d) /\ (op = "meet" => deal[d].status = "P")
  BY RaceAssumption
     DEF StartCall, StartRequest, StartAccept, StartCancel, StartMeet, StartReturn, StartSave,
         AllOps
<1>. DEFINE k == call'[c]
<1>2. /\ call' = [call EXCEPT ![c] = k] /\ deal' = deal
      /\ k.op = op /\ k.deal = d /\ k.at = "start"
  BY <1>1 DEF Begin, Rows, TypeOK
<1>. HIDE DEF k
<1>. QED
  BY <1>1, <1>2, OverrunCall DEF OpenStatus

LEMMA NextOverrun ==
  ASSUME AcceptInv, NEW a, Overrun(a), [Next]_vars
  PROVE  Overrun(a)'
<1>0. TypeOK /\ deal \in [Deals -> DealRow]
  BY DEF AcceptInv, TypeOK
<1>1. CASE \E c \in Calls : StartCall(c) \/ Proceed(c)
  BY <1>0, <1>1, OverrunStart, OverrunProceed
<1>2. CASE BreakDeadlock
  BY <1>0, <1>2, OverrunCall DEF BreakDeadlock, Fail, End, Rows
<1>3. ASSUME call' = call, \A s \in Deals : deal'[s].status = deal[s].status
      PROVE  Overrun(a)'
  <2>1. MayBeOpen(a)' \subseteq MayBeOpen(a) /\ Counted(a)' \subseteq Counted(a)
    BY <1>3 DEF MayBeOpen, Meeting, Counted, Doing
  <2>. QED
    BY <2>1, OverrunShrinks
<1>4. CASE \E d \in Deals : Extend(d) \/ DueDateComes(d)
  <2>1. \A s \in Deals : deal'[s].status = deal[s].status
    BY <1>0, <1>4 DEF Extend, DueDateComes, DealRow
  <2>. QED
    BY <1>3, <1>4, <2>1 DEF Extend, DueDateComes
<1>. QED
  BY <1>1, <1>2, <1>3, <1>4 DEF Next, StartJob, ProcessDue, SkipDue, vars

\* Whatever overlaps, and although a stale handover may write a closed loan
\* open again, an account has no more loans open than the limit and one less
\* than the calls in progress (OverrunBounded).
THEOREM OverrunIsBounded == Spec => []OverrunBounded
<1>. DEFINE Inv == AcceptInv /\ \A a \in Accounts : Overrun(a)
<1>1. Init => Inv
  <2>. SUFFICES ASSUME Init, NEW a \in Accounts PROVE Overrun(a)
    BY InitAccept
  <2>1. MayBeOpen(a) = {} /\ Counted(a) = {}
    BY DEF Init, MayBeOpen, Meeting, Counted, Doing, OpenStatus, NewRow
  <2>. QED
    BY <2>1, FiniteParts, FS_EmptySet, RaceAssumption DEF Overrun
<1>2. Inv /\ [Next]_vars => Inv'
  BY NextAccept, NextOverrun
<1>3. Inv => OverrunBounded
  <2>. SUFFICES ASSUME NEW a \in Accounts, Overrun(a)
                PROVE  Cardinality(Open(a)) <= MaxBooks + Cardinality(Calls) - 1
    BY DEF OverrunBounded
  <2>1. Open(a) \subseteq MayBeOpen(a)
    BY DEF Open, MayBeOpen, OpenStatus
  <2>2. Cardinality(Open(a)) <= Cardinality(MayBeOpen(a))
    BY <2>1, FiniteParts, FS_Subset
  <2>. QED
    BY <2>2, FiniteParts, RaceAssumption DEF Overrun
<1>. QED
  BY <1>1, <1>2, <1>3, PTL DEF Spec
-----------------------------------------------------------------------------
(* No standstill, although rows are locked in two orders *)

\* The guards of the steps of a call under way: the row it locks or writes next
\* is free, or it needs none.
CanGoOn(c) ==
  LET k == call[c]
  IN  \/ Doing(c, "request", "start") \/ Doing(c, "request", "next")
      \/ Doing(c, "accept", "start") /\ DealFree(c, k.deal)
      \/ Doing(c, "accept", "next") /\ BookFree(c)
      \/ Doing(c, "accept", "ready") /\ k.rest \subseteq k.holds
      \/ Doing(c, "accept", "ready") /\ \E s \in k.rest \ k.holds : DealFree(c, s)
      \/ (Doing(c, "cancel", "start") \/ Doing(c, "cancel", "next")) /\ DealFree(c, k.deal)
      \/ Doing(c, "meet", "start")
      \/ Doing(c, "meet", "next") /\ BookFree(c)
      \/ Doing(c, "meet", "ready") /\ DealFree(c, k.deal)
      \/ Doing(c, "return", "start") /\ BookFree(c)
      \/ Doing(c, "return", "next") /\ DealFree(c, k.deal)
      \/ Doing(c, "return", "ready")
      \/ Doing(c, "save", "start") /\ BookFree(c)

\* While calls are in progress one of them goes on, or there is a cycle that the
\* database breaks.
NoStandstill ==
  (\E c \in Calls : call[c] # Idle) =>
    (\E c \in Calls : CanGoOn(c)) \/ (\E S \in SUBSET Calls : Cycle(S))

\* The stages a service has, and who locks what.
Stage(k) ==
  /\ k.op \in {"request", "cancel"} => k.at # "ready"
  /\ k.op = "save" => k.at = "start"
  /\ k.holds # {} => k.op \in {"accept", "return"}
  /\ k.onbook => k.op \in {"accept", "meet", "return"}

Staged == \A c \in Calls : call[c] # Idle => Stage(call[c])

LEMMA StagedStep ==
  ASSUME TypeOK, Staged, NEW c \in Calls, NEW k, call' = [call EXCEPT ![c] = k],
         k # Idle => Stage(k)
  PROVE  Staged'
BY DEF TypeOK, Staged

LEMMA StagedEnd ==
  ASSUME TypeOK, Staged, NEW c \in Calls, End(c)
  PROVE  Staged'
BY StagedStep DEF End

LEMMA StagedStart ==
  ASSUME TypeOK, Staged, NEW c \in Calls, StartCall(c)
  PROVE  Staged'
<1>1. PICK op, d : Begin(c, op, d)
  BY DEF StartCall, StartRequest, StartAccept, StartCancel, StartMeet, StartReturn, StartSave
<1>. DEFINE k == [op |-> op, at |-> "start", deal |-> d, holds |-> {}, onbook |-> FALSE,
                  rest |-> {},
                  seen |-> IF op \in {"cancel", "meet"} THEN deal[d] ELSE NewRow,
                  copy |-> IF op = "save" THEN book ELSE OnShelf]
<1>2. call' = [call EXCEPT ![c] = k]
  BY <1>1 DEF Begin
<1>3. Stage(k)
  BY DEF Stage
<1>. HIDE DEF k
<1>. QED
  BY <1>2, <1>3, StagedStep

LEMMA StagedProceed ==
  ASSUME TypeOK, Staged, NEW c \in Calls, Proceed(c)
  PROVE  Staged'
<1>1. call[c] # Idle => call[c] \in Call /\ Stage(call[c])
  BY Running DEF Staged
<1>2. ASSUME End(c) PROVE Staged'
  BY <1>2, StagedEnd
<1>3. CASE CountOpen(c) \/ LoadBook(c) \/ RestoreBook(c)
  <2>. DEFINE k == [call[c] EXCEPT !.at = "next"]
              m == [call[c] EXCEPT !.at = "next", !.copy = book]
  <2>1. \/ End(c)
        \/ call' = [call EXCEPT ![c] = k] \/ call' = [call EXCEPT ![c] = m]
    BY <1>3, Zenon DEF CountOpen, LoadBook, RestoreBook, Fail
  <2>2. call[c] # Idle /\ call[c].op # "save"
    BY <1>3 DEF CountOpen, LoadBook, RestoreBook, Doing
  <2>3. Stage(k) /\ Stage(m)
    BY <1>1, <2>2 DEF Stage, Call
  <2>. HIDE DEF k, m
  <2>. QED
    BY <1>2, <2>1, <2>3, StagedStep
<1>4. CASE LockDeal(c)
  <2>. DEFINE k == [call[c] EXCEPT !.at = "next", !.holds = {call[c].deal}]
  <2>1. call' = [call EXCEPT ![c] = k]
    BY <1>4 DEF LockDeal
  <2>2. call[c] # Idle /\ call[c].op = "accept"
    BY <1>4 DEF LockDeal, Doing
  <2>3. Stage(k)
    BY <1>1, <2>2 DEF Stage, Call
  <2>. HIDE DEF k
  <2>. QED
    BY <2>1, <2>3, StagedStep
<1>5. CASE LockBook(c)
  <2>. DEFINE t == {s \in Deals \ {call[c].deal} : deal[s].status = "Q"}
              k == [call[c] EXCEPT !.at = "ready", !.onbook = TRUE, !.rest = t]
  <2>1. \/ End(c)
        \/ call' = [call EXCEPT ![c] = k]
    BY <1>5 DEF LockBook, Fail
  <2>2. call[c] # Idle /\ call[c].op = "accept"
    BY <1>5 DEF LockBook, Doing
  <2>3. k.op = "accept"
    BY <1>1, <2>2 DEF Call
  <2>4. Stage(k)
    BY <2>3 DEF Stage
  <2>. HIDE DEF k
  <2>. QED
    BY <1>2, <2>1, <2>4, StagedStep
<1>6. CASE \E s \in Deals : LockSibling(c, s)
  <2>1. PICK s \in Deals : LockSibling(c, s)
    BY <1>6
  <2>. DEFINE k == [call[c] EXCEPT !.holds = call[c].holds \cup {s}]
  <2>2. call' = [call EXCEPT ![c] = k]
    BY <2>1 DEF LockSibling
  <2>3. call[c] # Idle /\ call[c].op = "accept"
    BY <2>1 DEF LockSibling, Doing
  <2>4. Stage(k)
    BY <1>1, <2>3 DEF Stage, Call
  <2>. HIDE DEF k
  <2>. QED
    BY <2>2, <2>4, StagedStep
<1>7. CASE SaveBook(c)
  <2>. DEFINE k == [call[c] EXCEPT !.at = "ready", !.onbook = TRUE]
  <2>1. call' = [call EXCEPT ![c] = k]
    BY <1>7 DEF SaveBook
  <2>2. call[c] # Idle /\ call[c].op = "meet"
    BY <1>7 DEF SaveBook, Doing
  <2>3. Stage(k)
    BY <1>1, <2>2 DEF Stage, Call
  <2>. HIDE DEF k
  <2>. QED
    BY <2>1, <2>3, StagedStep
<1>8. CASE LockForReturn(c)
  <2>. DEFINE k == [call[c] EXCEPT !.at = "next", !.onbook = TRUE]
              m == [call[c] EXCEPT !.at = "ready", !.holds = {call[c].deal}]
  <2>1. call' = [call EXCEPT ![c] = k] \/ call' = [call EXCEPT ![c] = m]
    BY <1>8, Zenon DEF LockForReturn
  <2>2. call[c] # Idle /\ call[c].op = "return"
    BY <1>8 DEF LockForReturn, Doing
  <2>3. Stage(k) /\ Stage(m)
    BY <1>1, <2>2 DEF Stage, Call
  <2>. HIDE DEF k, m
  <2>. QED
    BY <2>1, <2>3, StagedStep
<1>9. CASE InsertDeal(c) \/ Accept(c) \/ SaveCancelled(c) \/ Meet(c) \/ Return(c) \/ SaveLoadedBook(c)
  BY <1>2, <1>9 DEF InsertDeal, Accept, SaveCancelled, Meet, Return, SaveLoadedBook, Fail
<1>. QED
  BY <1>3, <1>4, <1>5, <1>6, <1>7, <1>8, <1>9 DEF Proceed

LEMMA NextStaged == TypeOK /\ Staged /\ [Next]_vars => Staged'
<1>. SUFFICES ASSUME TypeOK, Staged, [Next]_vars PROVE Staged'
  OBVIOUS
<1>1. CASE \E c \in Calls : StartCall(c) \/ Proceed(c)
  BY <1>1, StagedStart, StagedProceed
<1>2. CASE BreakDeadlock
  <2>1. PICK c \in Calls : Fail(c)
    BY <1>2 DEF BreakDeadlock
  <2>. QED
    BY <2>1, StagedEnd DEF Fail
<1>3. CASE call' = call
  BY <1>3 DEF Staged
<1>. QED
  BY <1>1, <1>2, <1>3 DEF Next, vars, StartJob, ProcessDue, SkipDue, Extend, DueDateComes

\* Calls of which each waits for another hold a smallest set of such calls: the
\* cycle that the database finds.
LEMMA StuckHasCycle ==
  ASSUME NEW S \in SUBSET Calls, Stuck(S)
  PROVE  \E T \in SUBSET Calls : Cycle(T)
<1>. DEFINE Those == {T \in SUBSET Calls : Stuck(T)}
<1>1. /\ Those \subseteq FiniteSubsetsOf(Calls) /\ Those # {}
  BY RaceAssumption, FS_FiniteSubsetsOfFinite
<1>. HIDE DEF Those
<1>2. PICK T \in Those : \A U \in Those : <<U, T>> \notin StrictSubsetOrdering(Calls)
  BY <1>1, FS_StrictSubsetOrderingWellFounded, WFMin
<1>. USE DEF Those
<1>3. ASSUME NEW U \in SUBSET T, U # T PROVE ~Stuck(U)
  BY <1>2, <1>3 DEF StrictSubsetOrdering
<1>. QED
  BY <1>2, <1>3 DEF Cycle

\* Who has locked something, and cannot go on, waits for another who has.
Lockers == {c \in Calls : call[c] # Idle /\ call[c].op \in {"accept", "meet", "return"}}

LEMMA HoldersLock ==
  ASSUME Staged, NEW c \in Calls, OnBook(c) \/ \E d : Holds(c, d)
  PROVE  c \in Lockers
BY DEF Staged, Stage, OnBook, Holds, Lockers

LEMMA LockerWaits ==
  ASSUME TypeOK, Staged, NEW c \in Lockers, ~CanGoOn(c)
  PROVE  \E b \in Lockers \ {c} : Waits(c, b)
<1>. DEFINE d == call[c].deal
<1>1. /\ c \in Calls /\ call[c] # Idle /\ call[c].op \in {"accept", "meet", "return"}
      /\ call[c].at \in {"start", "next", "ready"}
  BY Running DEF Lockers, Call
<1>2. ASSUME ~BookFree(c),
             \/ Doing(c, "accept", "next") \/ Doing(c, "meet", "next")
             \/ Doing(c, "return", "start")
      PROVE  \E b \in Lockers \ {c} : Waits(c, b)
  <2>1. PICK b \in Calls \ {c} : OnBook(b)
    BY <1>2 DEF BookFree
  <2>. QED
    BY <1>2, <2>1, HoldersLock DEF Waits
<1>3. ASSUME ~DealFree(c, d),
             \/ Doing(c, "accept", "start") \/ Doing(c, "meet", "ready")
             \/ Doing(c, "return", "next")
      PROVE  \E b \in Lockers \ {c} : Waits(c, b)
  <2>1. PICK b \in Calls \ {c} : Holds(b, d)
    BY <1>3 DEF DealFree
  <2>. QED
    BY <1>3, <2>1, HoldersLock DEF Waits
<1>4. ASSUME Doing(c, "accept", "ready")
      PROVE  \E b \in Lockers \ {c} : Waits(c, b)
  <2>1. PICK s \in call[c].rest \ call[c].holds : ~DealFree(c, s)
    BY <1>4 DEF CanGoOn
  <2>2. PICK b \in Calls \ {c} : Holds(b, s)
    BY <2>1 DEF DealFree
  <2>. QED
    BY <1>4, <2>2, HoldersLock DEF Waits
<1>. QED
  BY <1>1, <1>2, <1>3, <1>4 DEF CanGoOn, Doing

\* A cancellation or a save that cannot go on is kept from it by one who has
\* locked its row.
LEMMA OthersWaitForLockers ==
  ASSUME TypeOK, Staged, NEW c \in Calls, call[c] # Idle, ~CanGoOn(c)
  PROVE  Lockers # {}
<1>1. /\ call[c].op \in AllOps /\ call[c].at \in {"start", "next", "ready"}
      /\ Stage(call[c])
  BY Running DEF Staged, Call
<1>2. CASE c \in Lockers
  BY <1>2
<1>3. CASE call[c].op \in {"request", "cancel", "save"}
  <2>1. ~BookFree(c) \/ ~DealFree(c, call[c].deal)
    BY <1>1, <1>3 DEF CanGoOn, Doing, Stage
  <2>2. \E b \in Calls : OnBook(b) \/ Holds(b, call[c].deal)
    BY <2>1 DEF BookFree, DealFree
  <2>. QED
    BY <2>2, HoldersLock
<1>. QED
  BY <1>1, <1>2, <1>3 DEF Lockers, AllOps

\* Calls never come to a standstill, although accept_deal locks deal, book and
\* the other deals, and confirm_return book and deal: while some are in progress
\* one has the row it needs next, or the database finds a cycle to break.
THEOREM CallsNeverStandStill == Spec => []NoStandstill
<1>1. TypeOK /\ Staged => NoStandstill
  <2>. SUFFICES ASSUME TypeOK, Staged, NEW c \in Calls, call[c] # Idle,
                       \A b \in Calls : ~CanGoOn(b)
                PROVE  \E S \in SUBSET Calls : Cycle(S)
    BY DEF NoStandstill
  <2>1. Lockers # {}
    BY OthersWaitForLockers
  <2>2. \A b \in Lockers : \E e \in Lockers \ {b} : Waits(b, e)
    BY LockerWaits DEF Lockers
  <2>3. Lockers \in SUBSET Calls /\ Stuck(Lockers)
    BY <2>1, <2>2 DEF Lockers, Stuck
  <2>. QED
    BY <2>3, StuckHasCycle
<1>2. Init => Staged
  BY DEF Init, Staged
<1>. QED
  BY <1>1, <1>2, InitTyped, NextTyped, NextStaged, PTL DEF Spec
=============================================================================
