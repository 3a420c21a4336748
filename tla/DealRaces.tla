----------------------------- MODULE DealRaces -----------------------------
(***************************************************************************)
(* Overlapping requests about one book lent with "return": the services of *)
(* deals/services/deal_service.py, books/services/book_service.py and the  *)
(* daily job of overdue_service.py, cut where they read, lock and write.   *)
(*                                                                         *)
(* accept_deal and confirm_return read again under row locks.  The others  *)
(* check an object that was loaded before and save every column of it.     *)
(* The database lets a write wait for the row; reads do not wait and see   *)
(* what is committed (READ COMMITTED).  Permissions, ratings and return    *)
(* dates, which decide who may call and when, are left to DealLifecycle.   *)
(***************************************************************************)
EXTENDS Integers, FiniteSets

CONSTANTS
  Deals, NoDeal,        \* loans of the book that may be asked for
  Accounts, Applicant,  \* who asks
  MaxBooks,             \* loans an account may have open
  Calls,                \* web requests in progress at a time
  Ops                   \* services that are called

AllOps == {"request", "accept", "cancel", "meet", "return", "save"}

ASSUME RaceAssumption ==
  /\ Ops \subseteq AllOps /\ NoDeal \notin Deals
  /\ Applicant \in [Deals -> Accounts]
  /\ MaxBooks \in Nat \ {0}
  /\ IsFiniteSet(Deals) /\ IsFiniteSet(Calls)

VARIABLES
  book,     \* status and keeper of the book
  deal,     \* status and due flag of each loan; "-": not inserted yet
  call,     \* what each request is in the middle of
  job       \* what the daily job has read and not yet processed

vars == <<book, deal, call, job>>

\* keeper: the loan by which somebody has the book; NoDeal, its owner.
BookRow == [status : {"T", "S", "V", "O", "R"}, keeper : Deals \cup {NoDeal}]
\* due: the due date has come, of a loan that runs.
DealRow == [status : {"-", "Q", "P", "M", "D", "C"}, due : BOOLEAN]

OnShelf == [status |-> "T", keeper |-> NoDeal]
NewRow == [status |-> "-", due |-> FALSE]
Closed == [status |-> "D", due |-> FALSE]

Idle == [at |-> "idle"]
\* seen, copy: the deal and the book as loaded.  holds, onbook: rows locked.
\* rest: requests that an accept found pending and has not locked yet.
Call == [op : AllOps, at : {"start", "next", "ready"}, deal : Deals \cup {NoDeal},
         seen : DealRow, copy : BookRow, holds : SUBSET Deals, onbook : BOOLEAN,
         rest : SUBSET Deals]

TypeOK ==
  /\ book \in BookRow
  /\ deal \in [Deals -> DealRow]
  /\ call \in [Calls -> {Idle} \cup Call]
  /\ \A c \in Calls : call[c] # Idle => (call[c].deal = NoDeal <=> call[c].op = "save")
  /\ job \in SUBSET Deals

Init ==
  /\ book = OnShelf
  /\ deal = [d \in Deals |-> NewRow]
  /\ call = [c \in Calls |-> Idle]
  /\ job = {}
-----------------------------------------------------------------------------
(* Row locks *)

Doing(c, op, at) == call[c] # Idle /\ call[c].op = op /\ call[c].at = at

OnBook(c) == call[c] # Idle /\ call[c].onbook
Holds(c, d) == call[c] # Idle /\ d \in call[c].holds

BookFree(c) == \A b \in Calls \ {c} : ~OnBook(b)
DealFree(c, d) == \A b \in Calls \ {c} : ~Holds(b, d)

Rows == <<book, deal, job>>

\* Kept of what a view loads: the deal that is checked and saved whole, the
\* book that is saved whole.  The others read their rows again, or write none.
Begin(c, op, d) ==
  /\ call[c] = Idle /\ op \in Ops
  /\ call' = [call EXCEPT ![c] =
       [op |-> op, at |-> "start", deal |-> d, holds |-> {}, onbook |-> FALSE, rest |-> {},
        seen |-> IF op \in {"cancel", "meet"} THEN deal[d] ELSE NewRow,
        copy |-> IF op = "save" THEN book ELSE OnShelf]]
  /\ UNCHANGED Rows

\* Commit, or roll back: the locks are gone either way.
End(c) == call' = [call EXCEPT ![c] = Idle]
Fail(c) == End(c) /\ UNCHANGED Rows
-----------------------------------------------------------------------------
(* create_deal: the book as the view loaded it, a count, an insert *)

\* Bound: a request is made while a row is left for it.
StartRequest(c, d) ==
  /\ deal[d].status = "-" /\ book.status = "T"
  /\ \A b \in Calls : call[b] # Idle => ~(call[b].op = "request" /\ call[b].deal = d)
  /\ Begin(c, "request", d)

Open(a) == {d \in Deals : Applicant[d] = a /\ deal[d].status \in {"Q", "P", "M"}}

\* Slip: the limit is compared with >.
CountOneMore(c) ==
  /\ Doing(c, "request", "start")
  /\ IF Cardinality(Open(Applicant[call[c].deal])) > MaxBooks
     THEN Fail(c)
     ELSE call' = [call EXCEPT ![c].at = "next"] /\ UNCHANGED Rows

CountOpen(c) ==
  /\ Doing(c, "request", "start")
  /\ IF Cardinality(Open(Applicant[call[c].deal])) >= MaxBooks
     THEN Fail(c)
     ELSE call' = [call EXCEPT ![c].at = "next"] /\ UNCHANGED Rows

InsertDeal(c) ==
  /\ Doing(c, "request", "next")
  /\ deal' = [deal EXCEPT ![call[c].deal] = [status |-> "Q", due |-> FALSE]]
  /\ End(c) /\ UNCHANGED <<book, job>>
-----------------------------------------------------------------------------
(* accept_deal: locks the deal, then the book, and writes the others *)

StartAccept(c, d) == deal[d].status # "-" /\ Begin(c, "accept", d)

LockDeal(c) ==
  LET d == call[c].deal
  IN  /\ Doing(c, "accept", "start") /\ DealFree(c, d)
      /\ call' = [call EXCEPT ![c].at = "next", ![c].holds = {d}]
      /\ UNCHANGED Rows

\* Slip: the book is read, not locked.
ReadBook(c) ==
  LET d == call[c].deal
  IN  /\ Doing(c, "accept", "next")
      /\ IF deal[d].status = "Q" /\ book.status = "T"
         THEN call' = [call EXCEPT ![c].at = "ready",
                         ![c].rest = {s \in Deals \ {d} : deal[s].status = "Q"}]
              /\ UNCHANGED Rows
         ELSE Fail(c)

\* Both rows are read under their locks: accept and reserve check their
\* sources.  The other requests are listed; each is saved when its row is free.
LockBook(c) ==
  LET d == call[c].deal
  IN  /\ Doing(c, "accept", "next") /\ BookFree(c)
      /\ IF deal[d].status = "Q" /\ book.status = "T"
         THEN call' = [call EXCEPT ![c].at = "ready", ![c].onbook = TRUE,
                         ![c].rest = {s \in Deals \ {d} : deal[s].status = "Q"}]
              /\ UNCHANGED Rows
         ELSE Fail(c)

LockSibling(c, s) ==
  /\ Doing(c, "accept", "ready") /\ s \in call[c].rest \ call[c].holds /\ DealFree(c, s)
  /\ call' = [call EXCEPT ![c].holds = @ \cup {s}]
  /\ UNCHANGED Rows

\* Slip: the book is given the status of the loan.
AcceptMixedUp(c) ==
  LET k == call[c]
  IN  /\ Doing(c, "accept", "ready") /\ k.rest \subseteq k.holds
      /\ deal' = [deal EXCEPT ![k.deal].status = "P"]
      /\ book' = [book EXCEPT !.status = "P"]
      /\ End(c) /\ UNCHANGED job

Accept(c) ==
  LET k == call[c]
  IN  /\ Doing(c, "accept", "ready") /\ k.rest \subseteq k.holds
      /\ deal' = [s \in Deals |-> IF s = k.deal THEN [deal[s] EXCEPT !.status = "P"]
                                  ELSE IF s \in k.rest THEN [deal[s] EXCEPT !.status = "C"]
                                  ELSE deal[s]]
      /\ book' = [book EXCEPT !.status = "V"]
      /\ End(c) /\ UNCHANGED job
-----------------------------------------------------------------------------
(* decline_deal, cancel_deal: the loaded deal is checked and saved *)

StartCancel(c, d) == deal[d].status = "Q" /\ Begin(c, "cancel", d)

\* cancel_deal only.  A loan was asked for when the book was T.
RestoreBook(c) ==
  /\ Doing(c, "cancel", "start") /\ BookFree(c)
  /\ book' = [book EXCEPT !.status = "T"]
  /\ call' = [call EXCEPT ![c].at = "next"]
  /\ UNCHANGED <<deal, job>>

\* At "start" it is decline_deal.
SaveCancelled(c) ==
  LET k == call[c]
  IN  /\ Doing(c, "cancel", "start") \/ Doing(c, "cancel", "next")
      /\ DealFree(c, k.deal)
      /\ deal' = [deal EXCEPT ![k.deal] = [k.seen EXCEPT !.status = "C"]]
      /\ End(c) /\ UNCHANGED <<book, job>>
-----------------------------------------------------------------------------
(* complete_meeting: a transaction about a deal and a book loaded before *)

StartMeet(c, d) == deal[d].status = "P" /\ Begin(c, "meet", d)

\* The book is loaded with the deal (API) or after it (web pages), unlocked.
LoadBook(c) ==
  /\ Doing(c, "meet", "start")
  /\ IF book.status = "V"
     THEN call' = [call EXCEPT ![c].at = "next", ![c].copy = book] /\ UNCHANGED Rows
     ELSE Fail(c)

SaveBook(c) ==
  /\ Doing(c, "meet", "next") /\ BookFree(c)
  /\ call' = [call EXCEPT ![c].at = "ready", ![c].onbook = TRUE]
  /\ UNCHANGED Rows

\* Slip: the deal is not saved.
MeetUnsaved(c) ==
  LET k == call[c]
  IN  /\ Doing(c, "meet", "ready") /\ DealFree(c, k.deal)
      /\ book' = [k.copy EXCEPT !.status = "O", !.keeper = k.deal]
      /\ End(c) /\ UNCHANGED <<deal, job>>

\* Every column of both, and a new due date.
Meet(c) ==
  LET k == call[c]
  IN  /\ Doing(c, "meet", "ready") /\ DealFree(c, k.deal)
      /\ book' = [k.copy EXCEPT !.status = "O", !.keeper = k.deal]
      /\ deal' = [deal EXCEPT ![k.deal] = [k.seen EXCEPT !.status = "M", !.due = FALSE]]
      /\ End(c) /\ UNCHANGED job
-----------------------------------------------------------------------------
(* confirm_return: locks the book, then the deal *)

StartReturn(c, d) == deal[d].status = "M" /\ Begin(c, "return", d)

LockForReturn(c) ==
  LET d == call[c].deal
  IN  \/ /\ Doing(c, "return", "start") /\ BookFree(c)
         /\ call' = [call EXCEPT ![c].at = "next", ![c].onbook = TRUE]
         /\ UNCHANGED Rows
      \/ /\ Doing(c, "return", "next") /\ DealFree(c, d)
         /\ call' = [call EXCEPT ![c].at = "ready", ![c].holds = {d}]
         /\ UNCHANGED Rows

\* Slip: the deal is closed as it was loaded.
ReturnLoaded(c) ==
  LET d == call[c].deal
  IN  /\ Doing(c, "return", "ready")
      /\ IF book.status = "O"
         THEN /\ book' = OnShelf
              /\ deal' = [deal EXCEPT ![d] = Closed]
              /\ End(c) /\ UNCHANGED job
         ELSE Fail(c)

\* The book must be lent; the deal is closed if it is still open.
Return(c) ==
  LET d == call[c].deal
  IN  /\ Doing(c, "return", "ready")
      /\ IF book.status = "O"
         THEN /\ book' = OnShelf
              /\ deal' = [deal EXCEPT ![d] = IF @.status = "M" THEN Closed ELSE @]
              /\ End(c) /\ UNCHANGED job
         ELSE Fail(c)
-----------------------------------------------------------------------------
(* toggle_listing, update_book: the loaded book is changed and saved *)

StartSave(c) == Begin(c, "save", NoDeal)

\* Saved as it was, or listed, or taken off the list.
SaveLoadedBook(c) ==
  LET copy == call[c].copy
  IN  /\ Doing(c, "save", "start") /\ BookFree(c)
      /\ \/ book' = copy
         \/ copy.status = "S" /\ book' = [copy EXCEPT !.status = "T"]
         \/ copy.status = "T" /\ book' = [copy EXCEPT !.status = "S"]
      /\ End(c) /\ UNCHANGED <<deal, job>>
-----------------------------------------------------------------------------
(* The daily job, extensions, time *)

\* The join of due deals and lent books is read once.
StartJob ==
  /\ job = {} /\ book.status = "O"
  /\ job' = {d \in Deals : deal[d].status = "M" /\ deal[d].due}
  /\ UNCHANGED <<book, deal, call>>

\* process_book_due saves the status of the book it has loaded with the deal.
ProcessDue(d) ==
  /\ d \in job /\ job' = job \ {d}
  /\ \A c \in Calls : ~OnBook(c)
  /\ book' = [book EXCEPT !.status = "R"]
  /\ UNCHANGED <<deal, call>>

\* The job ends, or a loan in it fails.
SkipDue(d) == d \in job /\ job' = job \ {d} /\ UNCHANGED <<book, deal, call>>

\* approve_extension: it holds the deal's lock while it writes.
Extend(d) ==
  /\ deal[d].due
  /\ \A c \in Calls : ~Holds(c, d)
  /\ deal' = [deal EXCEPT ![d].due = FALSE]
  /\ UNCHANGED <<book, call, job>>

DueDateComes(d) ==
  /\ deal[d].status = "M" /\ ~deal[d].due
  /\ \A c \in Calls : ~Holds(c, d)
  /\ deal' = [deal EXCEPT ![d].due = TRUE]
  /\ UNCHANGED <<book, call, job>>

\* A call and the row it waits for, and who holds that row.
Waits(c, b) ==
  LET d == call[c].deal
  IN  \/ Doing(c, "accept", "start") /\ Holds(b, d)
      \/ Doing(c, "accept", "next") /\ OnBook(b)
      \/ Doing(c, "accept", "ready") /\ \E s \in call[c].rest \ call[c].holds : Holds(b, s)
      \/ Doing(c, "meet", "next") /\ OnBook(b)
      \/ Doing(c, "meet", "ready") /\ Holds(b, d)
      \/ Doing(c, "return", "start") /\ OnBook(b)
      \/ Doing(c, "return", "next") /\ Holds(b, d)

\* Each of these waits for another of them, and no fewer of them do.
Stuck(S) == S # {} /\ \A c \in S : \E b \in S \ {c} : Waits(c, b)
Cycle(S) == Stuck(S) /\ \A T \in SUBSET S : T # S => ~Stuck(T)

\* Slip: the transaction that is rolled back has to be one without locks.
BreakIdlest ==
  \E S \in SUBSET Calls : Cycle(S) /\ \E c \in S : call[c].at = "start" /\ Fail(c)

\* The database finds a cycle and rolls one of its transactions back.
BreakDeadlock == \E S \in SUBSET Calls : Cycle(S) /\ \E c \in S : Fail(c)

StartCall(c) ==
  \/ \E d \in Deals :
       StartRequest(c, d) \/ StartAccept(c, d) \/ StartCancel(c, d)
         \/ StartMeet(c, d) \/ StartReturn(c, d)
  \/ StartSave(c)

Proceed(c) ==
  \/ CountOpen(c) \/ InsertDeal(c)
  \/ LockDeal(c) \/ LockBook(c) \/ (\E s \in Deals : LockSibling(c, s)) \/ Accept(c)
  \/ RestoreBook(c) \/ SaveCancelled(c)
  \/ LoadBook(c) \/ SaveBook(c) \/ Meet(c)
  \/ LockForReturn(c) \/ Return(c)
  \/ SaveLoadedBook(c)

Next ==
  \/ \E c \in Calls : StartCall(c)
  \/ \E c \in Calls : Proceed(c)
  \/ StartJob
  \/ \E d \in Deals : ProcessDue(d)
  \/ \E d \in Deals : SkipDue(d)
  \/ \E d \in Deals : Extend(d)
  \/ \E d \in Deals : DueDateComes(d)
  \/ BreakDeadlock

Spec == Init /\ [][Next]_vars

\* A call under way runs on: who waits for a row gets it in turn.
FairSpec ==
  /\ Spec
  /\ \A c \in Calls : SF_vars(Proceed(c))
  /\ WF_vars(BreakDeadlock)
-----------------------------------------------------------------------------
(* Kept, whatever overlaps *)

\* accept_deal decides on what is there when it commits: a request becomes
\* accepted only in a step that takes the book from the shelf for it.
AcceptsTakeTheBook ==
  [][\A d \in Deals : deal[d].status # "P" /\ deal'[d].status = "P" =>
       /\ deal[d].status = "Q"
       /\ book.status = "T" /\ book'.status = "V"]_vars

\* Nobody closes a loan that is closed, or without the book coming home.
ReturnsCloseOnce ==
  [][\A d \in Deals : deal[d].status # "D" /\ deal'[d].status = "D" =>
       /\ deal[d].status = "M"
       /\ book.status = "O" /\ book' = OnShelf]_vars

\* No call waits for ever, although rows are locked in two orders.
EveryCallEnds == \A c \in Calls : call[c] # Idle ~> call[c] = Idle

\* Counting before inserting, and saving a handover as it was loaded, let an
\* account exceed its limit by the number of calls in progress less one, and
\* by no more.
OverrunBounded ==
  \A a \in Accounts : Cardinality(Open(a)) <= MaxBooks + Cardinality(Calls) - 1

(* Kept by requesting, accepting and meeting, and by the job *)

\* The book is reserved for exactly one accepted deal, and out on exactly the
\* loan whose borrower has it, however many of these calls overlap.
HandoverExact ==
  LET With(s) == {d \in Deals : deal[d].status = s}
  IN  /\ book.status = "V" => (\E d \in Deals : With("P") = {d}) /\ With("M") = {}
      /\ book.status \in {"O", "R"} => With("M") = {book.keeper} /\ With("P") = {}
      /\ book.status \in {"S", "T"} => With("P") = {} /\ With("M") = {}

(* Promised, and not kept *)

\* deal_service.py:520, :551: a deal is cancelled from REQUESTED only.
CancelsRequestsOnly ==
  [][\A d \in Deals : deal[d].status # "C" /\ deal'[d].status = "C"
                        => deal[d].status = "Q"]_vars
=============================================================================
