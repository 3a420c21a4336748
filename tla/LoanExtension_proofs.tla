------------------------- MODULE LoanExtension_proofs -------------------------
(***************************************************************************)
(* Extensions for any number of loans, rows and overlapping requests.      *)
(* What is pending and what is decided follows from who holds the row lock *)
(* of a deal: one call at a time, and every insert happens under it.  Due  *)
(* dates are sums over a set; what is said of such a sum is proved from a  *)
(* smallest set for which it would be false.  Deadlocks, and that nothing  *)
(* comes to a standstill, follow from who may wait for whom.               *)
(***************************************************************************)
EXTENDS LoanExtension, TLAPS, FiniteSetTheorems

OneHolder ==
  \A b, c \in Requests, d \in Deals : HoldsDeal(b, d) /\ HoldsDeal(c, d) => b = c

OnePending ==
  \A d \in Deals, x, y \in Extensions : x \in PendingOn(d) /\ y \in PendingOn(d) => x = y

CheckStands == \A c \in Requests : Asks(c) /\ Ready(c) => PendingOn(call[c].deal) = {}

Inv == OneHolder /\ OnePending /\ CheckStands
-----------------------------------------------------------------------------
(* Typing *)

LEMMA CallTyped ==
  ASSUME TypeOK, NEW c \in Requests, call[c] # Idle
  PROVE  /\ call[c] \in Asking \cup Answering
         /\ call[c].deal \in Deals
         /\ call[c].op \in {"request", "approve", "reject", "cancel"}
         /\ call[c].at \in {"start", "deal", "ready"}
         /\ \A at \in {"start", "deal", "ready"} :
              [call[c] EXCEPT !.at = at] \in Asking \cup Answering
<1>1. call[c] \in Asking \cup Answering
  BY DEF TypeOK
<1>2. CASE call[c] \in Asking
  BY <1>1, <1>2 DEF Asking
<1>3. CASE call[c] \in Answering
  BY <1>1, <1>3 DEF Answering
<1> QED
  BY <1>1, <1>2, <1>3

LEMMA AnswerTyped ==
  ASSUME TypeOK, NEW c \in Requests, Reviews(c) \/ Cancels(c)
  PROVE  call[c].ext \in Extensions /\ call[c].by \in Users
BY DEF TypeOK, Reviews, Cancels, Asking, Answering

LEMMA AskTyped ==
  ASSUME TypeOK, NEW c \in Requests, Asks(c)
  PROVE  call[c].days \in AskedDays
BY DEF TypeOK, Asks, Asking, Answering

LEMMA BeginTyped ==
  ASSUME TypeOK, NEW c \in Requests, NEW k \in Asking \cup Answering, Begin(c, k)
  PROVE  TypeOK'
BY DEF TypeOK, Begin

LEMMA ProceedTyped ==
  ASSUME TypeOK, NEW c \in Requests, call[c] # Idle, NEW at \in {"deal", "ready"},
         Proceed(c, at)
  PROVE  TypeOK'
<1>1. [call[c] EXCEPT !.at = at] \in Asking \cup Answering
  BY CallTyped
<1> QED
  BY <1>1 DEF TypeOK, Proceed

LEMMA EndTyped ==
  ASSUME TypeOK, NEW c \in Requests, End(c)
  PROVE  call' \in [Requests -> {Idle} \cup Asking \cup Answering]
BY DEF TypeOK, End

LEMMA FailTyped ==
  ASSUME TypeOK, NEW c \in Requests, Fail(c)
  PROVE  TypeOK'
BY EndTyped DEF TypeOK, Fail

LEMMA InitTyped == Init => TypeOK
BY ExtensionAssumption DEF Init, TypeOK

LEMMA NextTyped == TypeOK /\ [Next]_vars => TypeOK'
<1> SUFFICES ASSUME TypeOK, [Next]_vars PROVE TypeOK'
  OBVIOUS
<1>1. ASSUME NEW c \in Requests, NEW d \in Deals, NEW n \in AskedDays, RequestExtension(c, d, n)
      PROVE  TypeOK'
  <2>1. [op |-> "request", at |-> "start", deal |-> d, days |-> n] \in Asking
    BY DEF Asking
  <2> QED
    BY <1>1, <2>1, BeginTyped DEF RequestExtension
<1>2. ASSUME NEW c \in Requests, NEW x \in Extensions, NEW op \in {"approve", "reject"},
             NEW u \in Users, ReviewExtension(c, x, op, u)
      PROVE  TypeOK'
  <2>1. ext[x].deal \in Deals
    BY <1>2 DEF ReviewExtension, TypeOK, ExtRow
  <2>2. [op |-> op, at |-> "start", deal |-> ext[x].deal, ext |-> x, by |-> u] \in Answering
    BY <2>1 DEF Answering
  <2> QED
    BY <1>2, <2>2, BeginTyped DEF ReviewExtension
<1>3. ASSUME NEW c \in Requests, NEW x \in Extensions, CancelExtension(c, x) PROVE TypeOK'
  <2>1. ext[x].deal \in Deals /\ Applicant[ext[x].deal] \in Users
    BY <1>3, ExtensionAssumption DEF CancelExtension, TypeOK, ExtRow
  <2>2. [op |-> "cancel", at |-> "start", deal |-> ext[x].deal, ext |-> x,
         by |-> Applicant[ext[x].deal]] \in Answering
    BY <2>1 DEF Answering
  <2> QED
    BY <1>3, <2>2, BeginTyped DEF CancelExtension
<1>4. ASSUME NEW c \in Requests, LockDeal(c) PROVE TypeOK'
  BY <1>4, ProceedTyped DEF LockDeal, Asks, Reviews
<1>5. ASSUME NEW c \in Requests, CheckPending(c) PROVE TypeOK'
  BY <1>5, ProceedTyped, FailTyped DEF CheckPending, Asks
<1>6. ASSUME NEW c \in Requests, InsertExtension(c) PROVE TypeOK'
  <2>1. CASE Fail(c)
    BY <2>1, FailTyped
  <2>2. CASE ~Fail(c)
    <3>1. PICK x \in Extensions :
            ext' = [ext EXCEPT ![x] = [status |-> "PENDING", deal |-> call[c].deal,
                                       days |-> call[c].days]]
      BY <1>6, <2>2 DEF InsertExtension
    <3>2. /\ call[c].days \in MinExtraDays..MaxExtraDays /\ call[c].deal \in Deals
          /\ End(c) /\ UNCHANGED <<book, deal, granted>>
      BY <1>6, <2>2, CallTyped DEF InsertExtension, Asks
    <3>3. [status |-> "PENDING", deal |-> call[c].deal, days |-> call[c].days] \in ExtRow
      BY <3>2 DEF ExtRow
    <3>4. ext' \in [Extensions -> {NoRow} \cup ExtRow]
      BY <3>1, <3>3 DEF TypeOK
    <3> QED
      BY <3>2, <3>4, EndTyped DEF TypeOK
  <2> QED
    BY <2>1, <2>2
<1>7. ASSUME NEW c \in Requests, LockExtension(c) PROVE TypeOK'
  BY <1>7, ProceedTyped DEF LockExtension, Reviews, Cancels
<1>8. ASSUME NEW c \in Requests, Decide(c) PROVE TypeOK'
  <2>1. CASE Fail(c)
    BY <2>1, FailTyped
  <2>2. CASE ~Fail(c)
    <3> DEFINE x == call[c].ext
               d == ext[x].deal
               s == IF call[c].op = "approve" THEN "APPROVED" ELSE "REJECTED"
    <3>1. /\ ext' = [ext EXCEPT ![x].status = s] /\ ext[x].status = "PENDING"
          /\ \/ UNCHANGED <<deal, granted>>
             \/ /\ deal' = [deal EXCEPT ![d].due = @ + ext[x].days]
                /\ granted' = [granted EXCEPT ![d] = @ \cup {x}]
          /\ End(c) /\ UNCHANGED book
      BY <1>8, <2>2 DEF Decide
    <3>2. x \in Extensions
      BY <1>8, AnswerTyped DEF Decide
    <3>3. ext[x] \in ExtRow
      BY <3>1, <3>2 DEF TypeOK, NoRow
    <3>4. d \in Deals /\ ext[x].days \in Nat
      BY <3>3, ExtensionAssumption DEF ExtRow
    <3>5. [ext[x] EXCEPT !.status = s] \in ExtRow
      BY <3>3 DEF ExtRow
    <3>6. ext' \in [Extensions -> {NoRow} \cup ExtRow]
      BY <3>1, <3>2, <3>5 DEF TypeOK
    <3>7. deal[d].due + ext[x].days \in Nat
      BY <3>4 DEF TypeOK
    <3>8. [deal[d] EXCEPT !.due = deal[d].due + ext[x].days]
             \in [status : {"P", "M", "D"}, due : Nat]
      BY <3>4, <3>7 DEF TypeOK
    <3> HIDE DEF d, x
    <3>9. deal' \in [Deals -> [status : {"P", "M", "D"}, due : Nat]]
      BY <3>1, <3>4, <3>8 DEF TypeOK
    <3>10. granted' \in [Deals -> SUBSET Extensions]
      BY <3>1, <3>2, <3>4 DEF TypeOK
    <3> QED
      BY <3>1, <3>6, <3>9, <3>10, EndTyped DEF TypeOK
  <2> QED
    BY <2>1, <2>2
<1>9. ASSUME NEW c \in Requests, Withdraw(c) PROVE TypeOK'
  <2>1. CASE Fail(c)
    BY <2>1, FailTyped
  <2>2. CASE ~Fail(c)
    <3>1. /\ ext' = [ext EXCEPT ![call[c].ext].status = "REJECTED"]
          /\ ext[call[c].ext].status = "PENDING" /\ call[c].ext \in Extensions
          /\ End(c) /\ UNCHANGED <<book, deal, granted>>
      BY <1>9, <2>2, AnswerTyped DEF Withdraw
    <3>2. ext[call[c].ext] \in ExtRow
      BY <3>1 DEF TypeOK, NoRow
    <3>3. [ext[call[c].ext] EXCEPT !.status = "REJECTED"] \in ExtRow
      BY <3>2 DEF ExtRow
    <3>4. ext' \in [Extensions -> {NoRow} \cup ExtRow]
      BY <3>1, <3>3 DEF TypeOK
    <3> QED
      BY <3>1, <3>4, EndTyped DEF TypeOK
  <2> QED
    BY <2>1, <2>2
<1>10. ASSUME NEW c \in Requests, BreakDeadlock(c) PROVE TypeOK'
  BY <1>10, FailTyped DEF BreakDeadlock
<1>11. ASSUME NEW d \in Deals, CompleteMeeting(d) PROVE TypeOK'
  BY <1>11, ExtensionAssumption DEF CompleteMeeting, TypeOK
<1>12. ASSUME NEW d \in Deals, ConfirmReturn(d) PROVE TypeOK'
  BY <1>12, ExtensionAssumption DEF ConfirmReturn, TypeOK
<1>13. CASE ProcessBookDue
  BY <1>13 DEF ProcessBookDue, TypeOK
<1>14. CASE UNCHANGED vars
  BY <1>14 DEF vars, TypeOK
<1> QED
  BY <1>1, <1>2, <1>3, <1>4, <1>5, <1>6, <1>7, <1>8, <1>9, <1>10, <1>11, <1>12, <1>13, <1>14
  DEF Next
-----------------------------------------------------------------------------
(* Locks *)

\* A call that starts, or ends, holds no deal.
LEMMA IdleHoldsNothing ==
  ASSUME NEW c, NEW d, call[c] = Idle \/ call[c].at = "start"
  PROVE  ~HoldsDeal(c, d)
BY DEF HoldsDeal, Ready, Idle

\* A step of one call leaves the locks of the others alone.
LEMMA OthersHold ==
  ASSUME NEW b, NEW d, call'[b] = call[b]
  PROVE  HoldsDeal(b, d)' <=> HoldsDeal(b, d)
BY DEF HoldsDeal, Ready

\* Steps after which the extensions pending are among those pending before,
\* and no call holds a deal that it did not hold or that was not free.
LEMMA LocksKept ==
  ASSUME Inv,
         \A d \in Deals : PendingOn(d)' \subseteq PendingOn(d),
         NEW c \in Requests,
         \A b \in Requests : b # c => call'[b] = call[b],
         \A d \in Deals : HoldsDeal(c, d)' => HoldsDeal(c, d) \/ DealFree(c, d),
         Asks(c)' /\ Ready(c)' => call'[c].deal \in Deals /\ PendingOn(call'[c].deal) = {},
         \A b \in Requests : Asks(b) => call[b].deal \in Deals
  PROVE  Inv'
<1> USE DEF Inv
<1>1. OneHolder'
  <2> SUFFICES ASSUME NEW a \in Requests, NEW b \in Requests, NEW d \in Deals,
                      HoldsDeal(a, d)', HoldsDeal(b, d)', a # b
               PROVE  FALSE
    BY DEF OneHolder
  <2>1. ASSUME NEW e \in Requests, e # c, HoldsDeal(e, d)' PROVE HoldsDeal(e, d)
    BY <2>1, OthersHold
  <2>2. CASE a # c /\ b # c
    BY <2>1, <2>2 DEF OneHolder
  <2>3. CASE a = c
    BY <2>1, <2>3 DEF OneHolder, DealFree
  <2>4. CASE b = c
    BY <2>1, <2>4 DEF OneHolder, DealFree
  <2> QED
    BY <2>2, <2>3, <2>4
<1>2. OnePending'
  BY DEF OnePending
<1>3. CheckStands'
  <2> SUFFICES ASSUME NEW b \in Requests, Asks(b)', Ready(b)'
               PROVE  PendingOn(call[b].deal)' = {}
    BY DEF CheckStands
  <2>1. CASE b = c
    BY <2>1
  <2>2. CASE b # c
    <3>1. Asks(b) /\ Ready(b) /\ call'[b].deal = call[b].deal
      BY <2>2 DEF Asks, Ready
    <3> QED
      BY <3>1 DEF CheckStands
  <2> QED
    BY <2>1, <2>2
<1> QED
  BY <1>1, <1>2, <1>3

\* Writing a decided status makes nothing pending.
LEMMA StatusOnly ==
  ASSUME DOMAIN ext = Extensions, NEW x, NEW s, s # "PENDING",
         ext' = [ext EXCEPT ![x].status = s], NEW d
  PROVE  PendingOn(d)' \subseteq PendingOn(d)
<1> SUFFICES ASSUME NEW y \in Extensions, ext'[y].status = "PENDING", ext'[y].deal = d
             PROVE  y \in PendingOn(d)
  BY DEF PendingOn
<1>1. CASE y = x
  BY <1>1
<1>2. CASE y # x
  BY <1>2 DEF PendingOn
<1> QED
  BY <1>1, <1>2

LEMMA InitInv == Init => Inv
<1> SUFFICES ASSUME Init PROVE Inv
  OBVIOUS
<1>1. \A c \in Requests : call[c] = Idle
  BY DEF Init
<1>2. \A d \in Deals : PendingOn(d) = {}
  BY DEF Init, PendingOn, NoRow
<1>3. OneHolder
  BY <1>1, IdleHoldsNothing DEF OneHolder
<1> QED
  BY <1>1, <1>2, <1>3 DEF Inv, OnePending, CheckStands, Asks

LEMMA NextInv == TypeOK /\ Inv /\ [Next]_vars => Inv'
<1> SUFFICES ASSUME TypeOK, Inv, [Next]_vars PROVE Inv'
  OBVIOUS
<1>0. /\ DOMAIN call = Requests /\ DOMAIN ext = Extensions
      /\ \A b \in Requests : Asks(b) => call[b].deal \in Deals
  BY CallTyped DEF TypeOK, Asks
<1>a. ASSUME NEW c \in Requests, NEW k, k.at = "start", Begin(c, k) PROVE Inv'
  <2>1. /\ call'[c] = k /\ \A b \in Requests : b # c => call'[b] = call[b]
        /\ ext' = ext
    BY <1>0, <1>a DEF Begin
  <2>2. \A d \in Deals : ~HoldsDeal(c, d)'
    BY <1>a, <2>1 DEF HoldsDeal, Ready
  <2>3. ~Ready(c)'
    BY <1>a, <2>1 DEF Ready
  <2>4. \A d \in Deals : PendingOn(d)' \subseteq PendingOn(d)
    BY <2>1 DEF PendingOn
  <2> QED
    BY <1>0, <2>1, <2>2, <2>3, <2>4, LocksKept
<1>b. ASSUME NEW c \in Requests, End(c),
             \A d \in Deals : PendingOn(d)' \subseteq PendingOn(d)
      PROVE  Inv'
  <2>1. call'[c] = Idle /\ \A b \in Requests : b # c => call'[b] = call[b]
    BY <1>0, <1>b DEF End
  <2>2. \A d \in Deals : ~HoldsDeal(c, d)'
    BY <2>1 DEF HoldsDeal
  <2>3. ~Asks(c)'
    BY <2>1 DEF Asks
  <2> QED
    BY <1>0, <1>b, <2>1, <2>2, <2>3, LocksKept
<1>c. ASSUME NEW c \in Requests, Fail(c) PROVE Inv'
  <2>1. \A d \in Deals : PendingOn(d)' \subseteq PendingOn(d)
    BY <1>c DEF Fail, PendingOn
  <2> QED
    BY <1>b, <1>c, <2>1 DEF Fail
<1>d. ASSUME UNCHANGED <<ext, call>> PROVE Inv'
  BY <1>d DEF Inv, OneHolder, OnePending, CheckStands, PendingOn, HoldsDeal, Ready, Asks
<1>1. ASSUME NEW c \in Requests, NEW d \in Deals, NEW n \in AskedDays, RequestExtension(c, d, n)
      PROVE  Inv'
  BY <1>a, <1>1 DEF RequestExtension
<1>2. ASSUME NEW c \in Requests, NEW x \in Extensions, NEW op \in {"approve", "reject"},
             NEW u \in Users, ReviewExtension(c, x, op, u)
      PROVE  Inv'
  BY <1>a, <1>2 DEF ReviewExtension
<1>3. ASSUME NEW c \in Requests, NEW x \in Extensions, CancelExtension(c, x) PROVE Inv'
  BY <1>a, <1>3 DEF CancelExtension
<1>4. ASSUME NEW c \in Requests, LockDeal(c) PROVE Inv'
  <2>1. /\ call[c] # Idle /\ DealFree(c, call[c].deal)
        /\ call'[c] = [call[c] EXCEPT !.at = "deal"] /\ ext' = ext
        /\ \A b \in Requests : b # c => call'[b] = call[b]
    BY <1>0, <1>4 DEF LockDeal, Proceed, Asks, Reviews
  <2>2. call'[c].deal = call[c].deal /\ call'[c].at = "deal"
    BY <2>1, CallTyped DEF Asking, Answering
  <2>3. \A d \in Deals : HoldsDeal(c, d)' => DealFree(c, d)
    BY <2>1, <2>2 DEF HoldsDeal
  <2>4. ~Ready(c)' /\ \A d \in Deals : PendingOn(d)' \subseteq PendingOn(d)
    BY <2>1, <2>2 DEF Ready, PendingOn
  <2> QED
    BY <1>0, <2>1, <2>3, <2>4, LocksKept
<1>5. ASSUME NEW c \in Requests, CheckPending(c) PROVE Inv'
  <2>1. CASE Fail(c)
    BY <1>c, <2>1
  <2>2. CASE ~Fail(c)
    <3>1. /\ call[c] # Idle /\ call[c].op = "request" /\ call[c].at = "deal"
          /\ PendingOn(call[c].deal) = {} /\ call[c].deal \in Deals
          /\ call'[c] = [call[c] EXCEPT !.at = "ready"] /\ ext' = ext
          /\ \A b \in Requests : b # c => call'[b] = call[b]
      BY <1>0, <1>5, <2>2 DEF CheckPending, Proceed, Asks
    <3>2. call'[c].deal = call[c].deal
      BY <3>1, CallTyped DEF Asking, Answering
    <3>3. \A d \in Deals : HoldsDeal(c, d)' => HoldsDeal(c, d)
      BY <3>1, <3>2 DEF HoldsDeal
    <3>4. \A d \in Deals : PendingOn(d)' \subseteq PendingOn(d)
      BY <3>1 DEF PendingOn
    <3> QED
      BY <1>0, <3>1, <3>2, <3>3, <3>4, LocksKept
  <2> QED
    BY <2>1, <2>2
<1>6. ASSUME NEW c \in Requests, InsertExtension(c) PROVE Inv'
  <2>1. CASE Fail(c)
    BY <1>c, <2>1
  <2>2. CASE ~Fail(c)
    <3>0. PICK d \in Deals : d = call[c].deal
      BY <1>0, <1>6 DEF InsertExtension
    <3>1. PICK x \in Extensions :
            /\ ext[x] = NoRow
            /\ ext' = [ext EXCEPT ![x] = [status |-> "PENDING", deal |-> d,
                                          days |-> call[c].days]]
      BY <1>6, <2>2, <3>0 DEF InsertExtension, NextRow
    <3>2. /\ Asks(c) /\ Ready(c) /\ PendingOn(d) = {}
          /\ call'[c] = Idle /\ \A b \in Requests : b # c => call'[b] = call[b]
      BY <1>0, <1>6, <2>2, <3>0 DEF InsertExtension, End
    <3>3. /\ ext'[x].status = "PENDING" /\ ext'[x].deal = d
          /\ \A y \in Extensions : y # x => ext'[y] = ext[y]
      BY <1>0, <3>1
    <3>4. /\ PendingOn(d)' = {x}
          /\ \A e \in Deals : e # d => PendingOn(e)' \subseteq PendingOn(e)
      BY <3>2, <3>3 DEF PendingOn
    <3>5. OnePending'
      BY <3>4 DEF Inv, OnePending
    <3>6. HoldsDeal(c, d) /\ \A e \in Deals : ~HoldsDeal(c, e)'
      BY <3>0, <3>2 DEF HoldsDeal, Asks
    <3>7. \A b \in Requests : b # c => ~HoldsDeal(b, d)
      BY <3>2, <3>6 DEF Inv, OneHolder
    <3>8. OneHolder'
      <4> SUFFICES ASSUME NEW a \in Requests, NEW b \in Requests, NEW e \in Deals,
                          HoldsDeal(a, e)', HoldsDeal(b, e)'
                   PROVE  a = b
        BY DEF OneHolder
      <4>1. a # c /\ b # c
        BY <3>6
      <4>2. HoldsDeal(a, e) /\ HoldsDeal(b, e)
        BY <3>2, <4>1, OthersHold
      <4> QED
        BY <4>2 DEF Inv, OneHolder
    <3>9. CheckStands'
      <4> SUFFICES ASSUME NEW b \in Requests, Asks(b)', Ready(b)'
                   PROVE  PendingOn(call[b].deal)' = {}
        BY DEF CheckStands
      <4>1. b # c /\ call'[b] = call[b] /\ Asks(b) /\ Ready(b)
        BY <3>2 DEF Asks, Ready
      <4>2. PICK e \in Deals : e = call[b].deal
        BY <1>0, <4>1
      <4>3. e # d
        <5>1. HoldsDeal(b, e)
          BY <4>1, <4>2 DEF HoldsDeal, Asks
        <5> QED
          BY <3>7, <4>1, <5>1
      <4>4. PendingOn(e)' = {}
        BY <3>4, <4>1, <4>2, <4>3 DEF Inv, CheckStands
      <4> QED
        BY <4>1, <4>2, <4>4
    <3> QED
      BY <3>5, <3>8, <3>9 DEF Inv
  <2> QED
    BY <2>1, <2>2
<1>7. ASSUME NEW c \in Requests, LockExtension(c) PROVE Inv'
  <2>1. /\ call[c] # Idle /\ call[c].op # "request"
        /\ call[c].op = "cancel" \/ call[c].at = "deal"
        /\ call'[c] = [call[c] EXCEPT !.at = "ready"] /\ ext' = ext
        /\ \A b \in Requests : b # c => call'[b] = call[b]
    BY <1>0, <1>7 DEF LockExtension, Proceed, Reviews, Cancels
  <2>2. /\ call'[c].deal = call[c].deal /\ call'[c].op = call[c].op /\ call'[c].at = "ready"
    BY <2>1, CallTyped DEF Asking, Answering
  <2>3. \A d \in Deals : HoldsDeal(c, d)' => HoldsDeal(c, d)
    BY <2>1, <2>2 DEF HoldsDeal, Ready
  <2>4. ~Asks(c)' /\ \A d \in Deals : PendingOn(d)' \subseteq PendingOn(d)
    BY <2>1, <2>2 DEF Asks, PendingOn
  <2> QED
    BY <1>0, <2>1, <2>3, <2>4, LocksKept
<1>8. ASSUME NEW c \in Requests, Decide(c) PROVE Inv'
  <2>1. CASE Fail(c)
    BY <1>c, <2>1
  <2>2. CASE ~Fail(c)
    <3>1. PICK s \in {"APPROVED", "REJECTED"} :
            ext' = [ext EXCEPT ![call[c].ext].status = s]
      BY <1>8, <2>2 DEF Decide
    <3>2. End(c)
      BY <1>8, <2>2 DEF Decide
    <3>3. \A d \in Deals : PendingOn(d)' \subseteq PendingOn(d)
      BY <1>0, <3>1, StatusOnly
    <3> QED
      BY <1>b, <3>2, <3>3
  <2> QED
    BY <2>1, <2>2
<1>9. ASSUME NEW c \in Requests, Withdraw(c) PROVE Inv'
  <2>1. CASE Fail(c)
    BY <1>c, <2>1
  <2>2. CASE ~Fail(c)
    <3>1. ext' = [ext EXCEPT ![call[c].ext].status = "REJECTED"] /\ End(c)
      BY <1>9, <2>2 DEF Withdraw
    <3>2. \A d \in Deals : PendingOn(d)' \subseteq PendingOn(d)
      BY <1>0, <3>1, StatusOnly
    <3> QED
      BY <1>b, <3>1, <3>2
  <2> QED
    BY <2>1, <2>2
<1>10. ASSUME NEW c \in Requests, BreakDeadlock(c) PROVE Inv'
  BY <1>c, <1>10 DEF BreakDeadlock
<1>11. ASSUME NEW d \in Deals, CompleteMeeting(d) \/ ConfirmReturn(d) PROVE Inv'
  BY <1>d, <1>11 DEF CompleteMeeting, ConfirmReturn
<1>12. CASE ProcessBookDue
  BY <1>d, <1>12 DEF ProcessBookDue
<1>13. CASE UNCHANGED vars
  BY <1>d, <1>13 DEF vars
<1> QED
  BY <1>1, <1>2, <1>3, <1>4, <1>5, <1>6, <1>7, <1>8, <1>9, <1>10, <1>11, <1>12, <1>13
  DEF Next

\* Loans, extensions and the calls about them keep their column types; no
\* extension row ever holds days outside the form's range.
THEOREM TypeCorrect == Spec => []TypeOK
BY InitTyped, NextTyped, PTL DEF Spec

\* However requests, reviews and withdrawals overlap, what request_extension
\* found under the deal's lock is still true when it inserts, and no deal has
\* two pending extensions.
THEOREM PendingChecksHold == Spec => []PendingCheckHolds
<1>1. Inv => PendingCheckHolds
  BY DEF Inv, PendingCheckHolds, OnePending, CheckStands
<1> QED
  BY <1>1, InitTyped, NextTyped, InitInv, NextInv, PTL DEF Spec

\* An extension that was approved or refused stays as it is, whatever calls
\* were already under way.
THEOREM ExtensionsAreDecidedOnce == Spec => DecidedOnce
<1>1. TypeOK /\ [Next]_vars =>
        [\A x \in Extensions :
           ext[x] # NoRow /\ ext[x].status # "PENDING" => ext'[x] = ext[x]]_vars
  <2> SUFFICES ASSUME TypeOK, [Next]_vars, NEW x \in Extensions, ext[x] # NoRow,
                      ext[x].status # "PENDING"
               PROVE  ext'[x] = ext[x]
    OBVIOUS
  <2>0. DOMAIN ext = Extensions
    BY DEF TypeOK
  <2>1. ASSUME NEW c \in Requests, InsertExtension(c) PROVE ext'[x] = ext[x]
    BY <2>0, <2>1 DEF InsertExtension, NextRow, Fail
  <2>2. ASSUME NEW c \in Requests, Decide(c) PROVE ext'[x] = ext[x]
    BY <2>0, <2>2 DEF Decide, Fail
  <2>3. ASSUME NEW c \in Requests, Withdraw(c) PROVE ext'[x] = ext[x]
    BY <2>0, <2>3 DEF Withdraw, Fail
  <2> QED
    BY <2>1, <2>2, <2>3
    DEF Next, vars, RequestExtension, ReviewExtension, CancelExtension, LockDeal, CheckPending,
        LockExtension, BreakDeadlock, CompleteMeeting, ConfirmReturn, ProcessBookDue,
        Begin, Proceed, Fail
<1> QED
  BY <1>1, InitTyped, NextTyped, PTL DEF Spec, DecidedOnce
-----------------------------------------------------------------------------
(* Adding days up *)

\* The sum that DueIsMeetingPlusApproved takes, over a table e.
DaysOf(e, S) == MapThenSumSet(LAMBDA x : e[x].days, S)

\* The element the sum takes next, and the function it is defined by.
One(S) == CHOOSE x \in S : TRUE
Adds(e, S, g) ==
  g = [s \in SUBSET S |-> IF s = {} THEN 0 ELSE e[One(s)].days + g[s \ {One(s)}]]

LEMMA DaysByFunction ==
  ASSUME NEW e, NEW S
  PROVE  DaysOf(e, S) = (CHOOSE g : Adds(e, S, g))[S]
BY Zenon DEF DaysOf, MapThenSumSet, MapThenFoldSet, Adds, One

\* Among finite sets there is one that none of the others lies within: this is
\* induction over the size of a set.
LEMMA SmallestSet ==
  ASSUME NEW S, IsFiniteSet(S), NEW C, C \subseteq SUBSET S, C # {}
  PROVE  \E s \in C : \A t \in C : t \subseteq s => t = s
<1>1. C \subseteq FiniteSubsetsOf(S)
  BY FS_FiniteSubsetsOfFinite
<1>2. PICK s \in C : \A t \in C : <<t, s>> \notin StrictSubsetOrdering(S)
  BY <1>1, FS_StrictSubsetOrderingWellFounded, WFMin
<1>3. ASSUME NEW t \in C, t \subseteq s PROVE t = s
  BY <1>2, <1>3 DEF StrictSubsetOrdering
<1> QED
  BY <1>3

LEMMA OneOf ==
  ASSUME NEW S, S # {}
  PROVE  One(S) \in S /\ S \ {One(S)} \subseteq S /\ S \ {One(S)} # S
BY DEF One

LEMMA AddsStep ==
  ASSUME NEW e, NEW S, NEW g, Adds(e, S, g), NEW s \in SUBSET S
  PROVE  g[s] = IF s = {} THEN 0 ELSE e[One(s)].days + g[s \ {One(s)}]
<1> DEFINE F(h, u) == IF u = {} THEN 0 ELSE e[One(u)].days + h[u \ {One(u)}]
<1>1. g = [u \in SUBSET S |-> F(g, u)]
  BY Zenon DEF Adds
<1> HIDE DEF F
<1>2. g[s] = F(g, s)
  BY <1>1
<1> QED
  BY <1>2 DEF F

\* Two such functions agree where both are defined.
LEMMA AddsAgree ==
  ASSUME NEW e, NEW S, NEW U, NEW g, NEW h, Adds(e, S, g), Adds(e, U, h),
         NEW T, IsFiniteSet(T), T \subseteq S, T \subseteq U
  PROVE  g[T] = h[T]
<1> DEFINE Differ == {s \in SUBSET T : g[s] # h[s]}
<1> SUFFICES ASSUME Differ # {} PROVE FALSE
  OBVIOUS
<1>1. PICK s \in Differ : \A t \in Differ : t \subseteq s => t = s
  <2>1. Differ \subseteq SUBSET T
    OBVIOUS
  <2> HIDE DEF Differ
  <2> QED
    BY <2>1, SmallestSet
<1>2. s \in SUBSET S /\ s \in SUBSET U /\ s \in SUBSET T /\ g[s] # h[s]
  OBVIOUS
<1>3. g[s] = IF s = {} THEN 0 ELSE e[One(s)].days + g[s \ {One(s)}]
  BY <1>2, AddsStep
<1>4. h[s] = IF s = {} THEN 0 ELSE e[One(s)].days + h[s \ {One(s)}]
  BY <1>2, AddsStep
<1>5. s # {} => g[s \ {One(s)}] = h[s \ {One(s)}]
  BY <1>1, <1>2, OneOf
<1> QED
  BY <1>2, <1>3, <1>4, <1>5

\* Where there is such a function, it gives the sum of each subset for which
\* there is one too.
LEMMA AddsGivesDays ==
  ASSUME NEW e, NEW S, NEW g, Adds(e, S, g), NEW T, IsFiniteSet(T), T \subseteq S,
         \E h : Adds(e, T, h)
  PROVE  DaysOf(e, T) = g[T]
<1> DEFINE h == CHOOSE h : Adds(e, T, h)
<1>1. Adds(e, T, h)
  BY Zenon
<1> HIDE DEF h
<1>2. g[T] = h[T]
  BY <1>1, AddsAgree
<1> QED
  BY <1>2, DaysByFunction DEF h

LEMMA AddsExists ==
  ASSUME NEW e, NEW S, IsFiniteSet(S)
  PROVE  \E g : Adds(e, S, g)
<1> DEFINE Without == {s \in SUBSET S : ~\E g : Adds(e, s, g)}
<1> SUFFICES ASSUME Without # {} PROVE FALSE
  OBVIOUS
<1>1. PICK T \in Without : \A t \in Without : t \subseteq T => t = T
  <2>1. Without \subseteq SUBSET S
    OBVIOUS
  <2> HIDE DEF Without
  <2> QED
    BY <2>1, SmallestSet
<1>2. ASSUME NEW t \in SUBSET T, t # T
      PROVE  IsFiniteSet(t) /\ \E g : Adds(e, t, g)
  BY <1>1, <1>2, FS_Subset
<1> DEFINE Value(s) == IF s = {} THEN 0 ELSE e[One(s)].days + DaysOf(e, s \ {One(s)})
           G == [s \in SUBSET T |-> Value(s)]
<1>3. ASSUME NEW s \in SUBSET T, s # T PROVE DaysOf(e, s) = Value(s)
  <2>1. PICK g : Adds(e, s, g)
    BY <1>2, <1>3
  <2>2. DaysOf(e, s) = g[s]
    BY <1>2, <1>3, <2>1, AddsGivesDays
  <2>3. CASE s = {}
    BY <2>1, <2>2, <2>3, AddsStep
  <2>4. CASE s # {}
    <3> DEFINE u == s \ {One(s)}
    <3>1. u \subseteq s /\ u \in SUBSET T /\ u # T
      BY <1>3, <2>4, OneOf
    <3> HIDE DEF u
    <3>2. DaysOf(e, u) = g[u]
      BY <1>2, <2>1, <3>1, AddsGivesDays
    <3>3. g[s] = e[One(s)].days + g[u]
      BY <2>1, <2>4, AddsStep DEF u
    <3> QED
      BY <2>2, <2>4, <3>2, <3>3 DEF u
  <2> QED
    BY <2>3, <2>4
<1>4. ASSUME NEW s \in SUBSET T
      PROVE  Value(s) = IF s = {} THEN 0 ELSE e[One(s)].days + G[s \ {One(s)}]
  <2>1. CASE s = {}
    BY <2>1
  <2>2. CASE s # {}
    <3> DEFINE u == s \ {One(s)}
    <3>1. u \in SUBSET T /\ u # T
      BY <2>2, OneOf
    <3> HIDE DEF u
    <3>2. DaysOf(e, u) = Value(u)
      BY <1>3, <3>1
    <3> HIDE DEF Value
    <3>3. G[u] = Value(u)
      BY <3>1
    <3>4. Value(s) = e[One(s)].days + DaysOf(e, u)
      BY <2>2 DEF Value, u
    <3> HIDE DEF G
    <3> QED
      BY <2>2, <3>2, <3>3, <3>4 DEF u
  <2> QED
    BY <2>1, <2>2
<1>5. Adds(e, T, G)
  <2> HIDE DEF Value
  <2> DEFINE After(h, s) == IF s = {} THEN 0 ELSE e[One(s)].days + h[s \ {One(s)}]
  <2>1. \A s \in SUBSET T : Value(s) = After(G, s)
    BY <1>4
  <2> HIDE DEF After
  <2>2. [s \in SUBSET T |-> Value(s)] = [s \in SUBSET T |-> After(G, s)]
    BY Zenon, <2>1
  <2>3. G = [s \in SUBSET T |-> After(G, s)]
    BY <2>2
  <2> HIDE DEF G
  <2> QED
    BY Zenon, <2>3 DEF After, Adds
<1> QED
  BY <1>1, <1>5

\* The sum, one element after the other.
LEMMA DaysByOne ==
  ASSUME NEW e, NEW S, IsFiniteSet(S)
  PROVE  DaysOf(e, S) = IF S = {} THEN 0 ELSE e[One(S)].days + DaysOf(e, S \ {One(S)})
<1>1. PICK g : Adds(e, S, g)
  BY AddsExists
<1>2. ASSUME NEW s \in SUBSET S PROVE DaysOf(e, s) = g[s]
  <2>1. IsFiniteSet(s)
    BY FS_Subset
  <2> QED
    BY <1>1, <2>1, AddsExists, AddsGivesDays
<1>3. DaysOf(e, S) = g[S] /\ DaysOf(e, S \ {One(S)}) = g[S \ {One(S)}]
  BY <1>2
<1> QED
  BY <1>1, <1>3, AddsStep

LEMMA DaysAreNat ==
  ASSUME NEW e, NEW S, IsFiniteSet(S), \A x \in S : e[x].days \in Nat
  PROVE  DaysOf(e, S) \in Nat
<1> DEFINE Odd == {s \in SUBSET S : DaysOf(e, s) \notin Nat}
<1> SUFFICES ASSUME Odd # {} PROVE FALSE
  OBVIOUS
<1>1. PICK s \in Odd : \A t \in Odd : t \subseteq s => t = s
  <2>1. Odd \subseteq SUBSET S
    OBVIOUS
  <2> HIDE DEF Odd
  <2> QED
    BY <2>1, SmallestSet
<1>2. s \in SUBSET S /\ IsFiniteSet(s) /\ DaysOf(e, s) \notin Nat
  BY FS_Subset
<1>3. CASE s = {}
  <2>1. DaysOf(e, s) = 0
    BY <1>2, <1>3, DaysByOne
  <2> QED
    BY <1>2, <2>1
<1>4. CASE s # {}
  <2>1. DaysOf(e, s \ {One(s)}) \in Nat /\ One(s) \in S
    BY <1>1, <1>2, <1>4, OneOf
  <2>2. e[One(s)].days \in Nat
    BY <2>1
  <2> QED
    BY <1>2, <1>4, <2>1, <2>2, DaysByOne
<1> QED
  BY <1>3, <1>4

\* Which element comes first makes no difference.
LEMMA DaysOfOther ==
  ASSUME NEW e, NEW S, IsFiniteSet(S), \A x \in S : e[x].days \in Nat, NEW x \in S
  PROVE  DaysOf(e, S) = e[x].days + DaysOf(e, S \ {x})
<1> DEFINE Differ == {s \in SUBSET S : \E y \in s : DaysOf(e, s) # e[y].days + DaysOf(e, s \ {y})}
<1> SUFFICES ASSUME Differ # {} PROVE FALSE
  OBVIOUS
<1>1. PICK s \in Differ : \A t \in Differ : t \subseteq s => t = s
  <2>1. Differ \subseteq SUBSET S
    OBVIOUS
  <2> HIDE DEF Differ
  <2> QED
    BY <2>1, SmallestSet
<1>2. PICK y \in s : DaysOf(e, s) # e[y].days + DaysOf(e, s \ {y})
  OBVIOUS
<1>3. s \in SUBSET S /\ IsFiniteSet(s) /\ s # {}
  BY FS_Subset
<1> DEFINE z == One(s)
<1>4. z \in s /\ DaysOf(e, s) = e[z].days + DaysOf(e, s \ {z})
  BY <1>3, OneOf, DaysByOne
<1> HIDE DEF z
<1>5. y # z
  BY <1>2, <1>4
<1>6. ASSUME NEW a \in s, NEW b \in s, a # b
      PROVE  DaysOf(e, s \ {a}) = e[b].days + DaysOf(e, s \ {y, z}) \/ {a, b} # {y, z}
  <2>1. s \ {a} \in SUBSET S /\ s \ {a} \notin Differ /\ b \in s \ {a}
    BY <1>1, <1>3, <1>6
  <2>2. DaysOf(e, s \ {a}) = e[b].days + DaysOf(e, (s \ {a}) \ {b})
    BY <2>1
  <2>3. {a, b} = {y, z} => (s \ {a}) \ {b} = s \ {y, z}
    BY Zenon
  <2> QED
    BY <2>2, <2>3
<1>7. /\ DaysOf(e, s \ {y}) = e[z].days + DaysOf(e, s \ {y, z})
      /\ DaysOf(e, s \ {z}) = e[y].days + DaysOf(e, s \ {y, z})
  BY <1>4, <1>5, <1>6
<1>8. DaysOf(e, s \ {y, z}) \in Nat /\ e[y].days \in Nat /\ e[z].days \in Nat
  <2>1. IsFiniteSet(s \ {y, z}) /\ s \ {y, z} \subseteq S
    BY <1>3, FS_Subset
  <2>2. DaysOf(e, s \ {y, z}) \in Nat
    BY <2>1, DaysAreNat
  <2> QED
    BY <1>3, <1>4, <2>2
<1> QED
  BY <1>2, <1>4, <1>7, <1>8

LEMMA DaysOfSame ==
  ASSUME NEW e, NEW f, NEW S, IsFiniteSet(S), \A x \in S : e[x].days = f[x].days
  PROVE  DaysOf(e, S) = DaysOf(f, S)
<1> DEFINE Differ == {s \in SUBSET S : DaysOf(e, s) # DaysOf(f, s)}
<1> SUFFICES ASSUME Differ # {} PROVE FALSE
  OBVIOUS
<1>1. PICK s \in Differ : \A t \in Differ : t \subseteq s => t = s
  <2>1. Differ \subseteq SUBSET S
    OBVIOUS
  <2> HIDE DEF Differ
  <2> QED
    BY <2>1, SmallestSet
<1>2. s \in SUBSET S /\ IsFiniteSet(s) /\ DaysOf(e, s) # DaysOf(f, s)
  BY FS_Subset
<1>3. CASE s = {}
  BY <1>2, <1>3, DaysByOne
<1>4. CASE s # {}
  <2>1. DaysOf(e, s \ {One(s)}) = DaysOf(f, s \ {One(s)}) /\ One(s) \in S
    BY <1>1, <1>2, <1>4, OneOf
  <2>2. e[One(s)].days = f[One(s)].days
    BY <2>1
  <2>3. /\ DaysOf(e, s) = e[One(s)].days + DaysOf(e, s \ {One(s)})
        /\ DaysOf(f, s) = f[One(s)].days + DaysOf(f, s \ {One(s)})
    BY <1>2, <1>4, DaysByOne
  <2> QED
    BY <1>2, <2>1, <2>2, <2>3
<1> QED
  BY <1>3, <1>4
-----------------------------------------------------------------------------
(* Due dates *)

\* The due date of each loan is the sum over the extensions granted, and each
\* of these is a row that stays approved.
Summed(d) ==
  /\ IsFiniteSet(granted[d])
  /\ \A x \in granted[d] : ext[x].status = "APPROVED"
  /\ deal[d].due = LoanDays + DaysOf(ext, granted[d])

DuesSummed == \A d \in Deals : Summed(d)

LEMMA NoDays == ASSUME NEW e PROVE DaysOf(e, {}) = 0
BY DaysByOne, FS_EmptySet

\* A step that leaves a loan's date, the extensions granted for it and their
\* rows as they are.
LEMMA SameSum ==
  ASSUME NEW d, Summed(d), deal'[d].due = deal[d].due, granted'[d] = granted[d],
         \A x \in granted[d] : ext'[x] = ext[x]
  PROVE  Summed(d)'
<1>1. DaysOf(ext', granted[d]) = DaysOf(ext, granted[d])
  BY DaysOfSame DEF Summed
<1> QED
  BY <1>1 DEF Summed

\* An approval: the row was pending, so it was not counted yet.
LEMMA SumGrows ==
  ASSUME NEW d, Summed(d), NEW x, x \notin granted[d],
         \A y \in granted[d] \cup {x} : ext[y].days \in Nat,
         \A y \in granted[d] : ext'[y] = ext[y],
         ext'[x].status = "APPROVED", ext'[x].days = ext[x].days,
         granted'[d] = granted[d] \cup {x},
         deal'[d].due = deal[d].due + ext[x].days,
         LoanDays \in Nat
  PROVE  Summed(d)'
<1> DEFINE S == granted[d]
           T == S \cup {x}
<1>1. IsFiniteSet(S) /\ IsFiniteSet(T)
  BY FS_AddElement DEF Summed
<1>2. /\ DaysOf(ext', S) = DaysOf(ext, S)
      /\ DaysOf(ext, S) \in Nat
  BY <1>1, DaysOfSame, DaysAreNat
<1>3. DaysOf(ext', T) = ext'[x].days + DaysOf(ext', T \ {x})
  <2>1. x \in T /\ \A y \in T : ext'[y].days \in Nat
    OBVIOUS
  <2> HIDE DEF T
  <2> QED
    BY <1>1, <2>1, DaysOfOther
<1>4. T \ {x} = S
  OBVIOUS
<1>5. DaysOf(ext', T) = ext[x].days + DaysOf(ext, S)
  BY <1>2, <1>3, <1>4
<1>6. deal[d].due = LoanDays + DaysOf(ext, S) /\ ext[x].days \in Nat
  BY DEF Summed
<1>7. deal'[d].due = LoanDays + DaysOf(ext', T)
  BY <1>2, <1>5, <1>6
<1>8. \A y \in T : ext'[y].status = "APPROVED"
  BY DEF Summed
<1>9. IsFiniteSet(granted'[d])
  BY <1>1
<1> QED
  BY <1>7, <1>8, <1>9 DEF Summed

LEMMA InitSummed == Init => DuesSummed
<1> SUFFICES ASSUME Init, NEW d \in Deals PROVE Summed(d)
  BY DEF DuesSummed
<1>1. granted[d] = {} /\ deal[d].due = LoanDays
  BY DEF Init
<1> QED
  BY <1>1, NoDays, FS_EmptySet, ExtensionAssumption DEF Summed

LEMMA NextSummed == TypeOK /\ DuesSummed /\ [Next]_vars => DuesSummed'
<1> SUFFICES ASSUME TypeOK, DuesSummed, [Next]_vars, NEW d \in Deals PROVE Summed(d)'
  BY DEF DuesSummed
<1>0. /\ DOMAIN ext = Extensions /\ DOMAIN deal = Deals /\ DOMAIN granted = Deals
      /\ Summed(d) /\ granted[d] \subseteq Extensions
      /\ \A x \in granted[d] : ext[x].status = "APPROVED"
  BY DEF TypeOK, DuesSummed, Summed
<1>a. ASSUME deal'[d].due = deal[d].due, granted'[d] = granted[d],
             \A x \in Extensions : ext[x].status = "APPROVED" => ext'[x] = ext[x]
      PROVE  Summed(d)'
  BY <1>0, <1>a, SameSum
<1>b. ASSUME UNCHANGED <<deal, ext, granted>> PROVE Summed(d)'
  BY <1>a, <1>b
<1>1. ASSUME NEW c \in Requests, InsertExtension(c) PROVE Summed(d)'
  <2>1. \A x \in Extensions : ext[x] # NoRow => ext'[x] = ext[x]
    BY <1>0, <1>1 DEF InsertExtension, NextRow, Fail
  <2>2. UNCHANGED <<deal, granted>>
    BY <1>1 DEF InsertExtension, Fail
  <2> QED
    BY <1>a, <2>1, <2>2 DEF NoRow
<1>2. ASSUME NEW c \in Requests, Decide(c) PROVE Summed(d)'
  <2> DEFINE x == call[c].ext
             e == ext[x].deal
             s == IF call[c].op = "approve" THEN "APPROVED" ELSE "REJECTED"
  <2>1. CASE Fail(c)
    BY <1>b, <2>1 DEF Fail
  <2>2. CASE ~Fail(c)
    <3>1. /\ ext' = [ext EXCEPT ![x].status = s] /\ ext[x].status = "PENDING"
          /\ IF call[c].op = "approve"
             THEN /\ deal' = [deal EXCEPT ![e].due = @ + ext[x].days]
                  /\ granted' = [granted EXCEPT ![e] = @ \cup {x}]
             ELSE UNCHANGED <<deal, granted>>
      BY <1>2, <2>2 DEF Decide
    <3>2. x \in Extensions
      BY <1>2, AnswerTyped DEF Decide
    <3>3. \A y \in Extensions : ext[y].status = "APPROVED" => ext'[y] = ext[y]
      BY <1>0, <3>1
    <3>4. ext[x] \in ExtRow
      BY <3>1, <3>2 DEF TypeOK, NoRow
    <3>5. ext'[x].status = s /\ ext'[x].days = ext[x].days
      BY <1>0, <3>1, <3>2, <3>4 DEF ExtRow
    <3>6. CASE call[c].op = "approve" /\ e = d
      <4>1. /\ granted'[d] = granted[d] \cup {x}
            /\ deal'[d].due = deal[d].due + ext[x].days
        BY <1>0, <3>1, <3>6 DEF TypeOK
      <4>2. x \notin granted[d]
        BY <1>0, <3>1
      <4>3. \A y \in granted[d] \cup {x} : ext[y].days \in Nat
        <5>1. \A y \in granted[d] : ext[y] \in ExtRow
          BY <1>0 DEF TypeOK, NoRow
        <5> QED
          BY <3>4, <5>1, ExtensionAssumption DEF ExtRow
      <4>4. \A y \in granted[d] : ext'[y] = ext[y]
        BY <1>0, <3>3
      <4>5. ext'[x].status = "APPROVED"
        BY <3>5, <3>6
      <4> HIDE DEF x
      <4> QED
        BY <1>0, <3>5, <4>1, <4>2, <4>3, <4>4, <4>5, SumGrows, ExtensionAssumption
    <3>7. CASE ~(call[c].op = "approve" /\ e = d)
      <4>1. granted'[d] = granted[d] /\ deal'[d].due = deal[d].due
        BY <1>0, <3>1, <3>7
      <4> QED
        BY <1>a, <3>3, <4>1
    <3> QED
      BY <3>6, <3>7
  <2> QED
    BY <2>1, <2>2
<1>3. ASSUME NEW c \in Requests, Withdraw(c) PROVE Summed(d)'
  <2>1. \A x \in Extensions : ext[x].status = "APPROVED" => ext'[x] = ext[x]
    BY <1>0, <1>3 DEF Withdraw, Fail
  <2>2. UNCHANGED <<deal, granted>>
    BY <1>3 DEF Withdraw, Fail
  <2> QED
    BY <1>a, <2>1, <2>2
<1>4. ASSUME NEW m \in Deals, CompleteMeeting(m) PROVE Summed(d)'
  <2>1. CASE m = d
    <3>1. granted'[d] = {} /\ deal'[d].due = LoanDays
      BY <1>0, <1>4, <2>1 DEF CompleteMeeting
    <3> QED
      BY <3>1, NoDays, FS_EmptySet, ExtensionAssumption DEF Summed
  <2>2. CASE m # d
    <3>1. granted'[d] = granted[d] /\ deal'[d] = deal[d] /\ ext' = ext
      BY <1>0, <1>4, <2>2 DEF CompleteMeeting
    <3> QED
      BY <1>a, <3>1
  <2> QED
    BY <2>1, <2>2
<1>5. ASSUME NEW m \in Deals, ConfirmReturn(m) PROVE Summed(d)'
  <2>1. deal'[d].due = deal[d].due /\ UNCHANGED <<ext, granted>>
    BY <1>0, <1>5 DEF ConfirmReturn, TypeOK
  <2> QED
    BY <1>a, <2>1
<1> QED
  BY <1>b, <1>1, <1>2, <1>3, <1>4, <1>5
  DEF Next, vars, RequestExtension, ReviewExtension, CancelExtension, LockDeal, CheckPending,
      LockExtension, BreakDeadlock, ProcessBookDue, Begin, Proceed, Fail

\* However requests, reviews and withdrawals overlap, a loan is due at its
\* meeting's date plus the days of the extensions approved since: each approval
\* counts, and counts once.
THEOREM DueDatesAddUp == Spec => []DueIsMeetingPlusApproved
<1>1. DuesSummed => DueIsMeetingPlusApproved
  BY Zenon DEF DuesSummed, Summed, DaysOf, DueIsMeetingPlusApproved
<1> QED
  BY <1>1, InitTyped, NextTyped, InitSummed, NextSummed, PTL DEF Spec
-----------------------------------------------------------------------------
(* Deadlocks *)

\* An answer is about a row that exists, and carries the deal of that row.
RowsMatch ==
  \A c \in Requests : Reviews(c) \/ Cancels(c) =>
    ext[call[c].ext] # NoRow /\ ext[call[c].ext].deal = call[c].deal

\* Calls each of which waits for another of them.
Stuck(S) == S # {} /\ \A c \in S : \E b \in S : WaitsFor(c, b)

DeadlocksArePairs ==
  \A S \in SUBSET Requests : Stuck(S) => \E b, c \in S : WaitsFor(b, c) /\ WaitsFor(c, b)

\* A step that leaves the rows there are with their deals, and changes at most
\* one call, to one about a row that exists.
LEMMA RowsStayMatched ==
  ASSUME TypeOK, RowsMatch, NEW c \in Requests,
         \A b \in Requests : b # c => call'[b] = call[b],
         \A x \in Extensions : ext[x] # NoRow => ext'[x] # NoRow /\ ext'[x].deal = ext[x].deal,
         Reviews(c)' \/ Cancels(c)' =>
           /\ call'[c].ext \in Extensions
           /\ ext[call'[c].ext] # NoRow /\ ext[call'[c].ext].deal = call'[c].deal
  PROVE  RowsMatch'
<1> SUFFICES ASSUME NEW b \in Requests, Reviews(b)' \/ Cancels(b)'
             PROVE  ext'[call'[b].ext] # NoRow /\ ext'[call'[b].ext].deal = call'[b].deal
  BY DEF RowsMatch
<1>1. CASE b = c
  BY <1>1
<1>2. CASE b # c
  <2>1. call'[b] = call[b] /\ (Reviews(b) \/ Cancels(b))
    BY <1>2 DEF Reviews, Cancels
  <2>2. call[b].ext \in Extensions
    BY <2>1, AnswerTyped
  <2> QED
    BY <2>1, <2>2 DEF RowsMatch
<1> QED
  BY <1>1, <1>2

LEMMA InitMatched == Init => RowsMatch
BY DEF Init, RowsMatch, Reviews, Cancels

LEMMA NextMatched == TypeOK /\ RowsMatch /\ [Next]_vars => RowsMatch'
<1> SUFFICES ASSUME TypeOK, RowsMatch, [Next]_vars PROVE RowsMatch'
  OBVIOUS
<1>0. DOMAIN call = Requests /\ DOMAIN ext = Extensions
  BY DEF TypeOK
<1>a. ASSUME NEW c \in Requests, NEW k, Begin(c, k),
             k.op # "request" =>
               k.ext \in Extensions /\ ext[k.ext] # NoRow /\ ext[k.ext].deal = k.deal
      PROVE  RowsMatch'
  <2>1. /\ call'[c] = k /\ \A b \in Requests : b # c => call'[b] = call[b]
        /\ ext' = ext
    BY <1>0, <1>a DEF Begin
  <2>2. Reviews(c)' \/ Cancels(c)' => k.op # "request"
    BY <2>1 DEF Reviews, Cancels
  <2> QED
    BY <1>a, <2>1, <2>2, RowsStayMatched
<1>b. ASSUME NEW c \in Requests, call[c] # Idle, NEW at \in {"deal", "ready"}, Proceed(c, at)
      PROVE  RowsMatch'
  <2>1. /\ call'[c] = [call[c] EXCEPT !.at = at] /\ ext' = ext
        /\ \A b \in Requests : b # c => call'[b] = call[b]
    BY <1>0, <1>b DEF Proceed
  <2>2. call'[c].op = call[c].op /\ call'[c].deal = call[c].deal
    BY <1>b, <2>1, CallTyped DEF Asking, Answering
  <2>3. ASSUME Reviews(c)' \/ Cancels(c)'
        PROVE  /\ Reviews(c) \/ Cancels(c)
               /\ call[c].ext \in Extensions /\ call'[c].ext = call[c].ext
    <3>1. Reviews(c) \/ Cancels(c)
      BY <1>b, <2>2, <2>3 DEF Reviews, Cancels
    <3>2. call[c].ext \in Extensions
      BY <3>1, AnswerTyped
    <3>3. call[c] \in Answering
      BY <3>1 DEF TypeOK, Reviews, Cancels, Asking
    <3> QED
      BY <2>1, <3>1, <3>2, <3>3 DEF Answering
  <2>4. Reviews(c)' \/ Cancels(c)' =>
           /\ call'[c].ext \in Extensions
           /\ ext[call'[c].ext] # NoRow /\ ext[call'[c].ext].deal = call'[c].deal
    BY <2>2, <2>3 DEF RowsMatch
  <2> QED
    BY <2>1, <2>4, RowsStayMatched
<1>c. ASSUME NEW c \in Requests, End(c),
             \A x \in Extensions : ext[x] # NoRow => ext'[x] # NoRow /\ ext'[x].deal = ext[x].deal
      PROVE  RowsMatch'
  <2>1. call'[c] = Idle /\ \A b \in Requests : b # c => call'[b] = call[b]
    BY <1>0, <1>c DEF End
  <2>2. ~(Reviews(c)' \/ Cancels(c)')
    BY <2>1 DEF Reviews, Cancels
  <2> QED
    BY <1>c, <2>1, <2>2, RowsStayMatched
<1>d. ASSUME UNCHANGED <<ext, call>> PROVE RowsMatch'
  BY <1>d DEF RowsMatch, Reviews, Cancels
<1>e. ASSUME NEW c \in Requests, Fail(c) PROVE RowsMatch'
  BY <1>c, <1>e DEF Fail
<1>f. ASSUME NEW c \in Requests, End(c), NEW x \in Extensions, ext[x].status = "PENDING",
             NEW s \in {"APPROVED", "REJECTED"}, ext' = [ext EXCEPT ![x].status = s]
      PROVE  RowsMatch'
  <2>1. ext[x] \in ExtRow
    BY <1>f DEF TypeOK, NoRow
  <2>2. ext'[x].status = s /\ ext'[x].deal = ext[x].deal
    BY <1>0, <1>f, <2>1 DEF ExtRow
  <2>3. \A y \in Extensions : ext[y] # NoRow => ext'[y] # NoRow /\ ext'[y].deal = ext[y].deal
    BY <1>0, <1>f, <2>2 DEF NoRow
  <2> QED
    BY <1>c, <1>f, <2>3
<1>1. ASSUME NEW c \in Requests, NEW d \in Deals, NEW n \in AskedDays, RequestExtension(c, d, n)
      PROVE  RowsMatch'
  BY <1>a, <1>1 DEF RequestExtension
<1>2. ASSUME NEW c \in Requests, NEW x \in Extensions, NEW op \in {"approve", "reject"},
             NEW u \in Users, ReviewExtension(c, x, op, u)
      PROVE  RowsMatch'
  BY <1>a, <1>2 DEF ReviewExtension
<1>3. ASSUME NEW c \in Requests, NEW x \in Extensions, CancelExtension(c, x) PROVE RowsMatch'
  BY <1>a, <1>3 DEF CancelExtension
<1>4. ASSUME NEW c \in Requests, LockDeal(c) PROVE RowsMatch'
  BY <1>b, <1>4 DEF LockDeal, Asks, Reviews
<1>5. ASSUME NEW c \in Requests, CheckPending(c) PROVE RowsMatch'
  BY <1>b, <1>e, <1>5 DEF CheckPending, Asks
<1>6. ASSUME NEW c \in Requests, InsertExtension(c) PROVE RowsMatch'
  <2>1. CASE Fail(c)
    BY <1>e, <2>1
  <2>2. CASE ~Fail(c)
    <3>1. End(c) /\ \A x \in Extensions : ext[x] # NoRow => ext'[x] = ext[x]
      BY <1>0, <1>6, <2>2 DEF InsertExtension, NextRow
    <3> QED
      BY <1>c, <3>1
  <2> QED
    BY <2>1, <2>2
<1>7. ASSUME NEW c \in Requests, LockExtension(c) PROVE RowsMatch'
  BY <1>b, <1>7 DEF LockExtension, Reviews, Cancels
<1>8. ASSUME NEW c \in Requests, Decide(c) PROVE RowsMatch'
  <2>1. CASE Fail(c)
    BY <1>e, <2>1
  <2>2. CASE ~Fail(c)
    <3>1. ext[call[c].ext].status = "PENDING" /\ End(c) /\ call[c].ext \in Extensions
      BY <1>8, <2>2, AnswerTyped DEF Decide
    <3>2. PICK s \in {"APPROVED", "REJECTED"} :
            ext' = [ext EXCEPT ![call[c].ext].status = s]
      BY <1>8, <2>2 DEF Decide
    <3> QED
      BY <1>f, <3>1, <3>2
  <2> QED
    BY <2>1, <2>2
<1>9. ASSUME NEW c \in Requests, Withdraw(c) PROVE RowsMatch'
  <2>1. CASE Fail(c)
    BY <1>e, <2>1
  <2>2. CASE ~Fail(c)
    <3>1. /\ ext[call[c].ext].status = "PENDING" /\ End(c) /\ call[c].ext \in Extensions
          /\ ext' = [ext EXCEPT ![call[c].ext].status = "REJECTED"]
      BY <1>9, <2>2, AnswerTyped DEF Withdraw
    <3> QED
      BY <1>f, <3>1
  <2> QED
    BY <2>1, <2>2
<1>10. ASSUME NEW c \in Requests, BreakDeadlock(c) PROVE RowsMatch'
  BY <1>e, <1>10 DEF BreakDeadlock
<1>11. ASSUME NEW d \in Deals, CompleteMeeting(d) \/ ConfirmReturn(d) PROVE RowsMatch'
  BY <1>d, <1>11 DEF CompleteMeeting, ConfirmReturn
<1>12. CASE ProcessBookDue \/ UNCHANGED vars
  BY <1>d, <1>12 DEF ProcessBookDue, vars
<1> QED
  BY <1>1, <1>2, <1>3, <1>4, <1>5, <1>6, <1>7, <1>8, <1>9, <1>10, <1>11, <1>12 DEF Next

\* Of the calls that hold all their locks only a withdrawal waits, and for the
\* deal of its row.
LEMMA ReadyWaits ==
  ASSUME NEW b, NEW e, Ready(b), WaitsFor(b, e)
  PROVE  /\ Cancels(b) /\ HoldsDeal(e, call[b].deal) /\ b # e
         /\ ext[call[b].ext].status = "PENDING"
BY DEF WaitsFor, Ready

\* Who has the deal and waits for an extension is waited for by its holder.
LEMMA DealHolderPairs ==
  ASSUME TypeOK, Inv, RowsMatch, NEW S \in SUBSET Requests, Stuck(S), NEW c \in S,
         call[c].at = "deal"
  PROVE  \E b \in S : WaitsFor(b, c) /\ WaitsFor(c, b)
<1>1. PICK b \in S : WaitsFor(c, b)
  BY DEF Stuck
<1>2. PICK x : HoldsExt(b, x) /\ ext[x].deal = call[c].deal /\ call[c] # Idle
  <2>1. CASE Asks(c)
    <3>1. \E x \in PendingOn(call[c].deal) : HoldsExt(b, x)
      BY <1>1, <2>1 DEF WaitsFor, Asks, Reviews, Cancels
    <3> QED
      BY <2>1, <3>1 DEF PendingOn, Asks
  <2>2. CASE ~Asks(c)
    <3>1. Reviews(c) /\ HoldsExt(b, call[c].ext)
      BY <1>1, <2>2 DEF WaitsFor, Ready
    <3> QED
      BY <3>1 DEF RowsMatch, Reviews
  <2> QED
    BY <2>1, <2>2
<1>3. PICK e \in S : WaitsFor(b, e)
  BY DEF Stuck
<1>4. Ready(b) /\ call[b].ext = x
  BY <1>2 DEF HoldsExt
<1>5. /\ Cancels(b) /\ HoldsDeal(e, call[b].deal) /\ b # e
      /\ ext[call[b].ext].status = "PENDING"
  BY <1>3, <1>4, ReadyWaits
<1>6. call[b].deal = call[c].deal /\ call[c].deal \in Deals
  BY <1>2, <1>4, <1>5, CallTyped DEF RowsMatch
<1>7. HoldsDeal(c, call[c].deal)
  BY <1>2 DEF HoldsDeal
<1>8. e = c
  BY <1>5, <1>6, <1>7 DEF Inv, OneHolder
<1> QED
  BY <1>1, <1>3, <1>8

\* Who is waited for because of a deal, and waits himself, is no further than
\* that deal's lock.
LEMMA DealHolderIsBetween ==
  ASSUME NEW S, Stuck(S), NEW b \in S, NEW d, HoldsDeal(b, d)
  PROVE  call[b].at = "deal"
<1>1. PICK e \in S : WaitsFor(b, e)
  BY DEF Stuck
<1>2. CASE Ready(b)
  BY <1>1, <1>2, ReadyWaits DEF HoldsDeal, Cancels, Ready
<1> QED
  BY <1>2 DEF HoldsDeal

LEMMA StuckHasPair ==
  ASSUME TypeOK, Inv, RowsMatch PROVE DeadlocksArePairs
<1> SUFFICES ASSUME NEW S \in SUBSET Requests, Stuck(S)
             PROVE  \E b, c \in S : WaitsFor(b, c) /\ WaitsFor(c, b)
  BY DEF DeadlocksArePairs
<1>1. ASSUME NEW b \in S, NEW d, HoldsDeal(b, d)
      PROVE  \E b1, c1 \in S : WaitsFor(b1, c1) /\ WaitsFor(c1, b1)
  BY <1>1, DealHolderIsBetween, DealHolderPairs
<1>2. ASSUME NEW b \in S, Ready(b)
      PROVE  \E b1, c1 \in S : WaitsFor(b1, c1) /\ WaitsFor(c1, b1)
  <2>1. PICK e \in S : WaitsFor(b, e)
    BY DEF Stuck
  <2> QED
    BY <1>1, <1>2, <2>1, ReadyWaits
<1>3. PICK c \in S, b \in S : WaitsFor(c, b)
  BY DEF Stuck
<1>4. HoldsDeal(b, call[c].deal) \/ \E x : HoldsExt(b, x)
  BY <1>3 DEF WaitsFor
<1> QED
  BY <1>1, <1>2, <1>4 DEF HoldsExt

\* Whenever calls about extensions wait for each other in a circle, however
\* long, two of them wait for each other directly: a withdrawal that has the
\* extension and a request or a review that has the deal.  BreakDeadlock
\* looks for such pairs only, and so has a call to roll back in every deadlock.
THEOREM EveryDeadlockHasAPair == Spec => []DeadlocksArePairs
<1>1. TypeOK /\ Inv /\ RowsMatch => DeadlocksArePairs
  BY StuckHasPair
<1> QED
  BY <1>1, InitTyped, NextTyped, InitInv, NextInv, InitMatched, NextMatched, PTL DEF Spec
-----------------------------------------------------------------------------
(* No standstill *)

\* The guards of the steps of a call under way: the lock it takes next is free,
\* or it needs none.
CanGoOn(c) ==
  \/ (Asks(c) \/ Reviews(c)) /\ call[c].at = "start" /\ DealFree(c, call[c].deal)
  \/ Asks(c) /\ call[c].at = "deal" /\ \A x \in PendingOn(call[c].deal) : ExtFree(c, x)
  \/ Asks(c) /\ Ready(c) /\ \E x \in Extensions : NextRow(x)
  \/ Reviews(c) /\ call[c].at = "deal" /\ ExtFree(c, call[c].ext)
  \/ Cancels(c) /\ call[c].at = "start" /\ ExtFree(c, call[c].ext)
  \/ Reviews(c) /\ Ready(c)
  \/ Cancels(c) /\ Ready(c)
       /\ (ext[call[c].ext].status = "PENDING" => DealFree(c, call[c].deal))

\* While calls are under way one of them goes on, or two wait for each other.
NoStandstill ==
  (\E c \in Requests : call[c] # Idle) =>
    \/ \E c \in Requests : CanGoOn(c)
    \/ \E b, c \in Requests : WaitsFor(b, c) /\ WaitsFor(c, b)

Left == {x \in Extensions : ext[x] = NoRow}
Askers == {c \in Requests : Asks(c)}

\* A row is left for each request, and a withdrawal locks no deal first.
Provided ==
  /\ Cardinality(Askers) <= Cardinality(Left)
  /\ \A c \in Requests : Cancels(c) => call[c].at # "deal"

\* A step of one call, after which no more rows are used and asked for than
\* before.
LEMMA StaysProvided ==
  ASSUME IsFiniteSet(Extensions), IsFiniteSet(Requests), Provided, NEW c \in Requests,
         \A b \in Requests : b # c => call'[b] = call[b],
         Asks(c)' => Asks(c), Cancels(c)' => call'[c].at # "deal",
         \/ Left' = Left
         \/ Asks(c) /\ ~Asks(c)' /\ \E x \in Left : Left' = Left \ {x}
  PROVE  Provided'
<1>1. \A b \in Requests : Cancels(b)' => call'[b].at # "deal"
  BY DEF Provided, Cancels
<1>2. Askers' \subseteq Askers /\ (Asks(c) /\ ~Asks(c)' => Askers' \subseteq Askers \ {c})
  BY DEF Askers, Asks
<1>3. /\ IsFiniteSet(Askers) /\ IsFiniteSet(Left)
      /\ Cardinality(Askers) \in Nat /\ Cardinality(Left) \in Nat
  BY FS_Subset, FS_CardinalityType DEF Askers, Left
<1>4. Cardinality(Askers') <= Cardinality(Askers) /\ Cardinality(Askers') \in Nat
  BY <1>2, <1>3, FS_Subset, FS_CardinalityType
<1>5. CASE Left' = Left
  BY <1>1, <1>3, <1>4, <1>5 DEF Provided
<1>6. CASE Asks(c) /\ ~Asks(c)' /\ \E x \in Left : Left' = Left \ {x}
  <2>1. Cardinality(Left') = Cardinality(Left) - 1
    BY <1>3, <1>6, FS_RemoveElement
  <2>2. Cardinality(Askers \ {c}) = Cardinality(Askers) - 1 /\ IsFiniteSet(Askers \ {c})
    BY <1>3, <1>6, FS_RemoveElement DEF Askers
  <2>3. Cardinality(Askers') <= Cardinality(Askers \ {c})
    BY <1>2, <1>6, <2>2, FS_Subset
  <2> QED
    BY <1>1, <1>3, <1>4, <2>1, <2>2, <2>3 DEF Provided
<1> QED
  BY <1>5, <1>6

LEMMA InitProvided ==
  ASSUME IsFiniteSet(Extensions), Init
  PROVE  Provided
<1>1. Askers = {} /\ \A c \in Requests : ~Cancels(c)
  BY DEF Init, Askers, Asks, Cancels
<1>2. IsFiniteSet(Left)
  BY FS_Subset DEF Left
<1> QED
  BY <1>1, <1>2, FS_EmptySet, FS_CardinalityType DEF Provided

LEMMA NextProvided ==
  ASSUME IsFiniteSet(Extensions), IsFiniteSet(Requests), TypeOK, Provided, [Next]_vars
  PROVE  Provided'
<1>0. DOMAIN call = Requests /\ DOMAIN ext = Extensions
  BY DEF TypeOK
<1>a. ASSUME NEW c \in Requests, NEW k, Begin(c, k), k.at = "start", k.op # "request"
      PROVE  Provided'
  <2>1. /\ call'[c] = k /\ \A b \in Requests : b # c => call'[b] = call[b]
        /\ Left' = Left
    BY <1>0, <1>a DEF Begin, Left
  <2>2. ~Asks(c)' /\ call'[c].at # "deal"
    BY <1>a, <2>1 DEF Asks
  <2> QED
    BY <2>1, <2>2, StaysProvided
<1>b. ASSUME NEW c \in Requests, call[c] # Idle, NEW at \in {"deal", "ready"}, Proceed(c, at),
             Cancels(c) => at # "deal"
      PROVE  Provided'
  <2>1. /\ call'[c] = [call[c] EXCEPT !.at = at] /\ Left' = Left
        /\ \A b \in Requests : b # c => call'[b] = call[b]
    BY <1>0, <1>b DEF Proceed, Left
  <2>2. call'[c].op = call[c].op /\ call'[c].at = at
    BY <1>b, <2>1, CallTyped DEF Asking, Answering
  <2>3. (Asks(c)' => Asks(c)) /\ (Cancels(c)' => call'[c].at # "deal")
    BY <1>b, <2>2 DEF Asks, Cancels
  <2> QED
    BY <2>1, <2>3, StaysProvided
<1>c. ASSUME NEW c \in Requests, End(c), \A x \in Extensions : ext'[x] = NoRow <=> ext[x] = NoRow
      PROVE  Provided'
  <2>1. call'[c] = Idle /\ \A b \in Requests : b # c => call'[b] = call[b]
    BY <1>0, <1>c DEF End
  <2>2. ~Asks(c)' /\ ~Cancels(c)'
    BY <2>1 DEF Asks, Cancels
  <2>3. Left' = Left
    BY <1>c DEF Left
  <2> QED
    BY <2>1, <2>2, <2>3, StaysProvided
<1>d. ASSUME UNCHANGED <<ext, call>> PROVE Provided'
  <2>1. Left' = Left /\ Askers' = Askers
    BY <1>d DEF Left, Askers, Asks
  <2> QED
    BY <1>d, <2>1 DEF Provided, Cancels
<1>e. ASSUME NEW c \in Requests, Fail(c) PROVE Provided'
  BY <1>c, <1>e DEF Fail
<1>f. ASSUME NEW c \in Requests, End(c), NEW x \in Extensions, ext[x].status = "PENDING",
             NEW s \in {"APPROVED", "REJECTED"}, ext' = [ext EXCEPT ![x].status = s]
      PROVE  Provided'
  <2>1. ext[x] \in ExtRow
    BY <1>f DEF TypeOK, NoRow
  <2>2. ext'[x].status = s /\ \A y \in Extensions : y # x => ext'[y] = ext[y]
    BY <1>0, <1>f, <2>1 DEF ExtRow
  <2>3. \A y \in Extensions : ext'[y] = NoRow <=> ext[y] = NoRow
    BY <1>f, <2>2 DEF NoRow
  <2> QED
    BY <1>c, <1>f, <2>3
<1>1. ASSUME NEW c \in Requests, NEW d \in Deals, NEW n \in AskedDays, RequestExtension(c, d, n)
      PROVE  Provided'
  <2>1. /\ call'[c].op = "request" /\ call[c] = Idle
        /\ \A b \in Requests : b # c => call'[b] = call[b]
        /\ Left' = Left /\ Cardinality(Left) > Cardinality(Askers)
    BY <1>0, <1>1 DEF RequestExtension, Begin, RowsLeft, Left, Askers
  <2>2. Askers' \subseteq Askers \cup {c}
    BY <2>1 DEF Askers, Asks
  <2>3. /\ IsFiniteSet(Askers) /\ IsFiniteSet(Left) /\ c \notin Askers
        /\ Cardinality(Askers) \in Nat /\ Cardinality(Left) \in Nat
    BY <2>1, FS_Subset, FS_CardinalityType DEF Askers, Left, Asks
  <2>4. /\ IsFiniteSet(Askers \cup {c})
        /\ Cardinality(Askers \cup {c}) = Cardinality(Askers) + 1
    BY <2>3, FS_AddElement
  <2>5. Cardinality(Askers') <= Cardinality(Askers \cup {c}) /\ Cardinality(Askers') \in Nat
    BY <2>2, <2>4, FS_Subset, FS_CardinalityType
  <2>6. \A b \in Requests : Cancels(b)' => call'[b].at # "deal"
    BY <2>1 DEF Provided, Cancels
  <2>7. Cardinality(Askers') <= Cardinality(Left')
    BY <2>1, <2>3, <2>4, <2>5
  <2> QED
    BY <2>6, <2>7 DEF Provided
<1>2. ASSUME NEW c \in Requests, NEW x \in Extensions, NEW op \in {"approve", "reject"},
             NEW u \in Users, ReviewExtension(c, x, op, u)
      PROVE  Provided'
  BY <1>a, <1>2 DEF ReviewExtension
<1>3. ASSUME NEW c \in Requests, NEW x \in Extensions, CancelExtension(c, x) PROVE Provided'
  BY <1>a, <1>3 DEF CancelExtension
<1>4. ASSUME NEW c \in Requests, LockDeal(c) PROVE Provided'
  BY <1>b, <1>4 DEF LockDeal, Asks, Reviews, Cancels
<1>5. ASSUME NEW c \in Requests, CheckPending(c) PROVE Provided'
  BY <1>b, <1>e, <1>5 DEF CheckPending, Asks
<1>6. ASSUME NEW c \in Requests, InsertExtension(c) PROVE Provided'
  <2>1. CASE Fail(c)
    BY <1>e, <2>1
  <2>2. CASE ~Fail(c)
    <3>1. PICK x \in Extensions :
            /\ ext[x] = NoRow
            /\ ext' = [ext EXCEPT ![x] = [status |-> "PENDING", deal |-> call[c].deal,
                                          days |-> call[c].days]]
      BY <1>6, <2>2 DEF InsertExtension, NextRow
    <3>2. Asks(c) /\ call'[c] = Idle /\ \A b \in Requests : b # c => call'[b] = call[b]
      BY <1>0, <1>6, <2>2 DEF InsertExtension, End
    <3>3. ext'[x].status = "PENDING" /\ \A y \in Extensions : y # x => ext'[y] = ext[y]
      BY <1>0, <3>1
    <3>4. x \in Left /\ Left' = Left \ {x}
      BY <3>1, <3>3 DEF Left, NoRow
    <3>5. ~Asks(c)' /\ ~Cancels(c)'
      BY <3>2 DEF Asks, Cancels
    <3> QED
      BY <3>2, <3>4, <3>5, StaysProvided
  <2> QED
    BY <2>1, <2>2
<1>7. ASSUME NEW c \in Requests, LockExtension(c) PROVE Provided'
  BY <1>b, <1>7 DEF LockExtension, Reviews, Cancels
<1>8. ASSUME NEW c \in Requests, Decide(c) PROVE Provided'
  <2>1. CASE Fail(c)
    BY <1>e, <2>1
  <2>2. CASE ~Fail(c)
    <3>1. ext[call[c].ext].status = "PENDING" /\ End(c) /\ call[c].ext \in Extensions
      BY <1>8, <2>2, AnswerTyped DEF Decide
    <3>2. PICK s \in {"APPROVED", "REJECTED"} :
            ext' = [ext EXCEPT ![call[c].ext].status = s]
      BY <1>8, <2>2 DEF Decide
    <3> QED
      BY <1>f, <3>1, <3>2
  <2> QED
    BY <2>1, <2>2
<1>9. ASSUME NEW c \in Requests, Withdraw(c) PROVE Provided'
  <2>1. CASE Fail(c)
    BY <1>e, <2>1
  <2>2. CASE ~Fail(c)
    <3>1. /\ ext[call[c].ext].status = "PENDING" /\ End(c) /\ call[c].ext \in Extensions
          /\ ext' = [ext EXCEPT ![call[c].ext].status = "REJECTED"]
      BY <1>9, <2>2, AnswerTyped DEF Withdraw
    <3> QED
      BY <1>f, <3>1
  <2> QED
    BY <2>1, <2>2
<1>10. ASSUME NEW c \in Requests, BreakDeadlock(c) PROVE Provided'
  BY <1>e, <1>10 DEF BreakDeadlock
<1>11. ASSUME NEW d \in Deals, CompleteMeeting(d) \/ ConfirmReturn(d) PROVE Provided'
  BY <1>d, <1>11 DEF CompleteMeeting, ConfirmReturn
<1>12. CASE ProcessBookDue \/ UNCHANGED vars
  BY <1>d, <1>12 DEF ProcessBookDue, vars
<1> QED
  BY <1>1, <1>2, <1>3, <1>4, <1>5, <1>6, <1>7, <1>8, <1>9, <1>10, <1>11, <1>12 DEF Next

\* Of the rows left one has the least number.
LEMMA ANextRow ==
  ASSUME IsFiniteSet(Extensions), Left # {}
  PROVE  \E x \in Extensions : NextRow(x)
<1> DEFINE Below(x) == {y \in Left : y < x}
           Belows == {s \in SUBSET Left : \E x \in Left : s = Below(x)}
<1>1. IsFiniteSet(Left) /\ Belows \subseteq SUBSET Left
  BY FS_Subset DEF Left
<1>2. Belows # {}
  <2>1. PICK x \in Left : TRUE
    OBVIOUS
  <2>2. Below(x) \in Belows
    OBVIOUS
  <2> QED
    BY <2>2
<1> HIDE DEF Belows
<1>3. PICK s \in Belows : \A t \in Belows : t \subseteq s => t = s
  BY <1>1, <1>2, SmallestSet
<1> USE DEF Belows
<1>4. PICK x \in Left : s = Below(x)
  BY <1>3
<1>5. ASSUME NEW y \in Left, y < x PROVE FALSE
  <2>1. x \in Nat /\ y \in Nat
    BY ExtensionAssumption DEF Left
  <2>2. \A z \in Left : z \in Nat
    BY ExtensionAssumption DEF Left
  <2>3. ASSUME NEW z \in Left, z < y PROVE z < x
    BY <1>5, <2>1, <2>2, <2>3
  <2>4. Below(y) \in Belows
    OBVIOUS
  <2> HIDE DEF Belows
  <2>5. Below(y) \subseteq Below(x)
    BY <2>3
  <2>6. y \in Below(x)
    BY <1>5
  <2>7. y \notin Below(y)
    BY <2>1
  <2> HIDE DEF Below
  <2> QED
    BY <1>3, <1>4, <2>4, <2>5, <2>6, <2>7
<1> QED
  BY <1>4, <1>5 DEF NextRow, Left

\* Who cannot go on waits for somebody who is under way too.
LEMMA BlockedWaits ==
  ASSUME IsFiniteSet(Extensions), IsFiniteSet(Requests), TypeOK, Provided,
         NEW c \in Requests, call[c] # Idle, ~CanGoOn(c)
  PROVE  \E b \in Requests : call[b] # Idle /\ WaitsFor(c, b)
<1>1. /\ call[c].op \in {"request", "approve", "reject", "cancel"}
      /\ call[c].at \in {"start", "deal", "ready"}
      /\ Asks(c) \/ Reviews(c) \/ Cancels(c)
  BY CallTyped DEF Asks, Reviews, Cancels
<1>2. \A b \in Requests, x \in Extensions : HoldsExt(b, x) => call[b] # Idle
  BY DEF HoldsExt, Ready, Idle
<1>3. \A b \in Requests : \A d : HoldsDeal(b, d) => call[b] # Idle
  BY DEF HoldsDeal
<1>4. CASE (Asks(c) \/ Reviews(c)) /\ call[c].at = "start"
  <2>1. PICK b \in Requests \ {c} : HoldsDeal(b, call[c].deal)
    BY <1>4 DEF CanGoOn, DealFree
  <2> QED
    BY <1>3, <1>4, <2>1 DEF WaitsFor
<1>5. CASE Asks(c) /\ call[c].at = "deal"
  <2>1. PICK x \in PendingOn(call[c].deal), b \in Requests \ {c} : HoldsExt(b, x)
    BY <1>5 DEF CanGoOn, ExtFree
  <2>2. x \in Extensions
    BY DEF PendingOn
  <2> QED
    BY <1>2, <1>5, <2>1, <2>2 DEF WaitsFor
<1>6. CASE Asks(c) /\ Ready(c)
  <2>1. /\ IsFiniteSet(Askers) /\ IsFiniteSet(Left)
        /\ Cardinality(Askers) \in Nat /\ Cardinality(Left) \in Nat
    BY FS_Subset, FS_CardinalityType DEF Askers, Left
  <2>2. Askers # {}
    BY <1>6 DEF Askers
  <2>3. Cardinality(Askers) # 0
    BY <2>1, <2>2, FS_EmptySet
  <2>4. Cardinality(Left) # 0
    BY <2>1, <2>3 DEF Provided
  <2>5. Left # {}
    BY <2>4, FS_EmptySet
  <2> QED
    BY <1>6, <2>5, ANextRow DEF CanGoOn
<1>7. CASE \/ Reviews(c) /\ call[c].at = "deal"
           \/ Cancels(c) /\ call[c].at = "start"
  <2>1. PICK b \in Requests \ {c} : HoldsExt(b, call[c].ext)
    BY <1>7 DEF CanGoOn, ExtFree
  <2>2. call[c].ext \in Extensions
    BY <1>7, AnswerTyped
  <2> QED
    BY <1>2, <1>7, <2>1, <2>2 DEF WaitsFor
<1>8. CASE Cancels(c) /\ Ready(c)
  <2>1. PICK b \in Requests \ {c} : HoldsDeal(b, call[c].deal)
    BY <1>8 DEF CanGoOn, DealFree
  <2>2. ext[call[c].ext].status = "PENDING"
    BY <1>8 DEF CanGoOn
  <2> QED
    BY <1>3, <1>8, <2>1, <2>2 DEF WaitsFor
<1>9. ~(Reviews(c) /\ Ready(c)) /\ (Cancels(c) => call[c].at # "deal")
  BY DEF CanGoOn, Provided
<1> QED
  BY <1>1, <1>4, <1>5, <1>6, <1>7, <1>8, <1>9 DEF Ready

\* Requests, reviews and withdrawals never come to a standstill: while some are
\* under way, one of them has its next lock free, or two of them wait for each
\* other and the database rolls one back.
THEOREM CallsNeverStandStill ==
  ASSUME IsFiniteSet(Extensions), IsFiniteSet(Requests)
  PROVE  Spec => []NoStandstill
<1>1. TypeOK /\ Provided /\ [Next]_vars => Provided'
  BY NextProvided
<1>2. TypeOK /\ Provided /\ DeadlocksArePairs => NoStandstill
  <2> SUFFICES ASSUME TypeOK, Provided, DeadlocksArePairs, NEW c \in Requests, call[c] # Idle,
                       ~\E e \in Requests : CanGoOn(e)
                PROVE  \E b, e \in Requests : WaitsFor(b, e) /\ WaitsFor(e, b)
    BY DEF NoStandstill
  <2> DEFINE S == {b \in Requests : call[b] # Idle}
  <2>1. \A b \in S : \E e \in S : WaitsFor(b, e)
    BY BlockedWaits
  <2>2. S \in SUBSET Requests /\ Stuck(S)
    BY <2>1 DEF Stuck
  <2> HIDE DEF S
  <2> QED
    BY <2>2 DEF DeadlocksArePairs
<1>3. Init => Provided
  BY InitProvided
<1> QED
  BY <1>1, <1>2, <1>3, InitTyped, NextTyped, EveryDeadlockHasAPair, PTL DEF Spec
=============================================================================
