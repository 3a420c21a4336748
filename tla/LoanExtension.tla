---------------------------- MODULE LoanExtension ----------------------------
(***************************************************************************)
(* Extensions of a loan: deals/services/extension_service.py and           *)
(* deals/models/loan_extension.py, with the row locks its transactions     *)
(* take.                                                                   *)
(*                                                                         *)
(* A call of a service is a transaction of several steps.  It starts from  *)
(* objects its view has loaded, takes the row lock of the deal, then of    *)
(* the extension (cancel_extension: of the extension only), checks again   *)
(* under the locks, writes and commits.  A call that raises is rolled back *)
(* and has changed nothing.  Dates count from the day of the meeting: all  *)
(* that happens to a due date here is a difference.                        *)
(***************************************************************************)
EXTENDS Integers, FiniteSets, FiniteSetsExt

CONSTANTS
  Deals, Applicant,        \* loans of one book, and who borrows in each
  Owner, Users,
  Extensions,              \* rows the extension table may get
  Requests,                \* web requests that may be in progress at a time
  AskedDays,               \* extra_days a form may carry
  MinExtraDays, MaxExtraDays, LoanDays

ASSUME ExtensionAssumption ==
  /\ Applicant \in [Deals -> Users] /\ Owner \in Users
  /\ MinExtraDays \in Nat /\ MaxExtraDays \in Nat /\ LoanDays \in Nat
  /\ AskedDays \subseteq Nat /\ Extensions \subseteq Nat

VARIABLES
  book,      \* status and keeper of the book
  deal,      \* status and due date of each loan
  ext,       \* the extension table; status "-" is a row not inserted yet
  call,      \* what each request is in the middle of
  granted    \* history: extensions of each deal approved since its meeting

vars == <<book, deal, ext, call, granted>>

Idle == [at |-> "idle"]
NoRow == [status |-> "-"]
ExtRow == [status : {"PENDING", "APPROVED", "REJECTED"}, deal : Deals,
           days : MinExtraDays..MaxExtraDays]

\* at: "start", no lock yet; "deal", the deal row is locked; "ready", every
\* lock is held that the service takes.
Asking == [op : {"request"}, at : {"start", "deal", "ready"}, deal : Deals, days : AskedDays]
Answering == [op : {"approve", "reject", "cancel"}, at : {"start", "deal", "ready"},
              deal : Deals, ext : Extensions, by : Users]

TypeOK ==
  /\ book \in [status : {"T", "O", "R"}, keeper : Users]
  /\ deal \in [Deals -> [status : {"P", "M", "D"}, due : Nat]]
  /\ ext \in [Extensions -> {NoRow} \cup ExtRow]
  /\ call \in [Requests -> {Idle} \cup Asking \cup Answering]
  /\ granted \in [Deals -> SUBSET Extensions]

Init ==
  /\ book = [status |-> "T", keeper |-> Owner]
  /\ deal = [d \in Deals |-> [status |-> "P", due |-> LoanDays]]
  /\ ext = [x \in Extensions |-> NoRow]
  /\ call = [c \in Requests |-> Idle]
  /\ granted = [d \in Deals |-> {}]
-----------------------------------------------------------------------------
(* Row locks *)

Asks(c) == call[c] # Idle /\ call[c].op = "request"
Reviews(c) == call[c] # Idle /\ call[c].op \in {"approve", "reject"}
Cancels(c) == call[c] # Idle /\ call[c].op = "cancel"

Ready(c) == call[c].at = "ready"

HoldsDeal(c, d) ==
  /\ call[c] # Idle /\ call[c].deal = d
  /\ \/ call[c].at = "deal"
     \/ Ready(c) /\ call[c].op # "cancel"

HoldsExt(c, x) == Ready(c) /\ call[c].op # "request" /\ call[c].ext = x

DealFree(c, d) == \A b \in Requests \ {c} : ~HoldsDeal(b, d)
ExtFree(c, x) == \A b \in Requests \ {c} : ~HoldsExt(b, x)

PendingOn(d) == {x \in Extensions : ext[x].status = "PENDING" /\ ext[x].deal = d}

Begin(c, k) == /\ call[c] = Idle /\ call' = [call EXCEPT ![c] = k]
               /\ UNCHANGED <<book, deal, ext, granted>>
Proceed(c, at) == /\ call' = [call EXCEPT ![c].at = at]
                  /\ UNCHANGED <<book, deal, ext, granted>>

\* Commit, or roll back: the locks are gone either way.
End(c) == call' = [call EXCEPT ![c] = Idle]
Fail(c) == End(c) /\ UNCHANGED <<book, deal, ext, granted>>
-----------------------------------------------------------------------------
(* Calls *)

\* Bound: a request is made while a row is left for it.
RowsLeft == Cardinality({x \in Extensions : ext[x] = NoRow})
              > Cardinality({c \in Requests : Asks(c)})

\* Rows are numbered as they are inserted.
NextRow(x) == ext[x] = NoRow /\ \A y \in Extensions : y < x => ext[y] # NoRow

\* The book's status is that of the object the view loaded; it is not looked
\* at again.  The status of the deal is not looked at, on purpose.
RequestExtension(c, d, n) ==
  /\ book.status = "O" /\ RowsLeft
  /\ Begin(c, [op |-> "request", at |-> "start", deal |-> d, days |-> n])

\* The permission check of the views; the service checks again.
ReviewExtension(c, x, op, u) ==
  /\ ext[x] # NoRow /\ u \in {Owner, book.keeper}
  /\ Begin(c, [op |-> op, at |-> "start", deal |-> ext[x].deal, ext |-> x, by |-> u])

CancelExtension(c, x) ==
  /\ ext[x] # NoRow
  /\ Begin(c, [op |-> "cancel", at |-> "start", deal |-> ext[x].deal, ext |-> x,
               by |-> Applicant[ext[x].deal]])

\* Slip: the deal is read, not locked.
ReadDeal(c) ==
  /\ Asks(c) \/ Reviews(c)
  /\ call[c].at = "start"
  /\ Proceed(c, "deal")

LockDeal(c) ==
  /\ Asks(c) \/ Reviews(c)
  /\ call[c].at = "start" /\ DealFree(c, call[c].deal)
  /\ Proceed(c, "deal")

\* Slip: a request waits until the pending one is decided.
AwaitDecision(c) ==
  /\ Asks(c) /\ call[c].at = "deal" /\ PendingOn(call[c].deal) = {}
  /\ Proceed(c, "ready")

\* A locking read of the pending extensions of the deal.
CheckPending(c) ==
  LET pending == PendingOn(call[c].deal)
  IN  /\ Asks(c) /\ call[c].at = "deal"
      /\ \A x \in pending : ExtFree(c, x)
      /\ IF pending = {} THEN Proceed(c, "ready") ELSE Fail(c)

\* Slip: the field's validators are not run.
InsertUnchecked(c) ==
  /\ Asks(c) /\ Ready(c)
  /\ \E x \in Extensions :
       /\ NextRow(x)
       /\ ext' = [ext EXCEPT ![x] = [status |-> "PENDING", deal |-> call[c].deal,
                                     days |-> call[c].days]]
  /\ End(c) /\ UNCHANGED <<book, deal, granted>>

\* The validators of extra_days, then the insert under the unique constraint
\* on (deal, pending).
InsertExtension(c) ==
  LET k == call[c]
  IN  /\ Asks(c) /\ Ready(c)
      /\ IF k.days \in MinExtraDays..MaxExtraDays /\ PendingOn(k.deal) = {}
         THEN /\ \E x \in Extensions :
                   /\ NextRow(x)
                   /\ ext' = [ext EXCEPT ![x] = [status |-> "PENDING", deal |-> k.deal,
                                                 days |-> k.days]]
              /\ End(c) /\ UNCHANGED <<book, deal, granted>>
         ELSE Fail(c)

\* The row is read again with its lock.
LockExtension(c) ==
  /\ \/ Reviews(c) /\ call[c].at = "deal"
     \/ Cancels(c) /\ call[c].at = "start"
  /\ ExtFree(c, call[c].ext)
  /\ Proceed(c, "ready")

MayReview(u, x) == u \in {Owner, book.keeper} /\ u # Applicant[ext[x].deal]

\* Slip: the status of the object the view loaded is trusted.
DecideAgain(c) ==
  LET x == call[c].ext
      d == ext[x].deal
  IN  /\ Reviews(c) /\ Ready(c)
      /\ IF MayReview(call[c].by, x)
         THEN /\ ext' = [ext EXCEPT ![x].status = IF call[c].op = "approve" THEN "APPROVED"
                                                  ELSE "REJECTED"]
              /\ IF call[c].op = "approve"
                 THEN /\ deal' = [deal EXCEPT ![d].due = @ + ext[x].days]
                      /\ granted' = [granted EXCEPT ![d] = @ \cup {x}]
                 ELSE UNCHANGED <<deal, granted>>
              /\ End(c) /\ UNCHANGED book
         ELSE Fail(c)

\* approve_extension and reject_extension under both locks.
Decide(c) ==
  LET x == call[c].ext
      d == ext[x].deal
  IN  /\ Reviews(c) /\ Ready(c)
      /\ IF MayReview(call[c].by, x) /\ ext[x].status = "PENDING"
         THEN /\ ext' = [ext EXCEPT ![x].status = IF call[c].op = "approve" THEN "APPROVED"
                                                  ELSE "REJECTED"]
              /\ IF call[c].op = "approve"
                 THEN /\ deal' = [deal EXCEPT ![d].due = @ + ext[x].days]
                      /\ granted' = [granted EXCEPT ![d] = @ \cup {x}]
                 ELSE UNCHANGED <<deal, granted>>
              /\ End(c) /\ UNCHANGED book
         ELSE Fail(c)

\* Slip: whatever was decided meanwhile is overwritten.
WithdrawAnyway(c) ==
  /\ Cancels(c) /\ Ready(c) /\ DealFree(c, call[c].deal)
  /\ ext' = [ext EXCEPT ![call[c].ext].status = "REJECTED"]
  /\ End(c) /\ UNCHANGED <<book, deal, granted>>

\* cancel_extension under its lock.  Its event row refers to the deal: the
\* foreign key needs the deal row, and waits for a lock on it.
Withdraw(c) ==
  LET x == call[c].ext
  IN  /\ Cancels(c) /\ Ready(c)
      /\ IF ext[x].status = "PENDING"
         THEN /\ DealFree(c, call[c].deal)
              /\ ext' = [ext EXCEPT ![x].status = "REJECTED"]
              /\ End(c) /\ UNCHANGED <<book, deal, granted>>
         ELSE Fail(c)

\* InnoDB rolls back one of two transactions that wait for each other.
WaitsFor(c, b) ==
  /\ c # b
  /\ \/ (Asks(c) \/ Reviews(c)) /\ call[c].at = "start" /\ HoldsDeal(b, call[c].deal)
     \/ Asks(c) /\ call[c].at = "deal" /\ \E x \in PendingOn(call[c].deal) : HoldsExt(b, x)
     \/ Reviews(c) /\ call[c].at = "deal" /\ HoldsExt(b, call[c].ext)
     \/ Cancels(c) /\ call[c].at = "start" /\ HoldsExt(b, call[c].ext)
     \/ Cancels(c) /\ Ready(c) /\ ext[call[c].ext].status = "PENDING"
                   /\ HoldsDeal(b, call[c].deal)

BreakDeadlock(c) ==
  /\ \E b \in Requests : WaitsFor(c, b) /\ WaitsFor(b, c)
  /\ Fail(c)
-----------------------------------------------------------------------------
(* The loan around it *)

DealUnlocked(d) == \A c \in Requests : ~HoldsDeal(c, d)

\* complete_meeting: the due date is counted anew from the meeting.
CompleteMeeting(d) ==
  /\ deal[d].status = "P" /\ book.status = "T" /\ DealUnlocked(d)
  /\ deal' = [deal EXCEPT ![d] = [status |-> "M", due |-> LoanDays]]
  /\ book' = [status |-> "O", keeper |-> Applicant[d]]
  /\ granted' = [granted EXCEPT ![d] = {}]
  /\ UNCHANGED <<ext, call>>

ConfirmReturn(d) ==
  /\ deal[d].status = "M" /\ book.status = "O" /\ DealUnlocked(d)
  /\ deal' = [deal EXCEPT ![d].status = "D"]
  /\ book' = [status |-> "T", keeper |-> Owner]
  /\ UNCHANGED <<ext, call, granted>>

\* process_book_due, on whichever day the due date comes.
ProcessBookDue ==
  /\ book.status = "O"
  /\ \E s \in {"T", "R"} : book' = [book EXCEPT !.status = s]
  /\ UNCHANGED <<deal, ext, call, granted>>

Next ==
  \/ \E c \in Requests, d \in Deals, n \in AskedDays : RequestExtension(c, d, n)
  \/ \E c \in Requests, x \in Extensions, op \in {"approve", "reject"}, u \in Users :
       ReviewExtension(c, x, op, u)
  \/ \E c \in Requests, x \in Extensions : CancelExtension(c, x)
  \/ \E c \in Requests : LockDeal(c)
  \/ \E c \in Requests : CheckPending(c)
  \/ \E c \in Requests : InsertExtension(c)
  \/ \E c \in Requests : LockExtension(c)
  \/ \E c \in Requests : Decide(c)
  \/ \E c \in Requests : Withdraw(c)
  \/ \E c \in Requests : BreakDeadlock(c)
  \/ \E d \in Deals : CompleteMeeting(d)
  \/ \E d \in Deals : ConfirmReturn(d)
  \/ ProcessBookDue

Advance(c) == \/ LockDeal(c) \/ CheckPending(c) \/ InsertExtension(c)
              \/ LockExtension(c) \/ Decide(c) \/ Withdraw(c)

Spec == Init /\ [][Next]_vars

\* A request under way runs on; who waits for a lock gets it in his turn; the
\* database notices deadlocks.  Nobody has to ask, review or cancel.
FairSpec ==
  /\ Spec
  /\ \A c \in Requests : SF_vars(Advance(c))
  /\ WF_vars(\E c \in Requests : BreakDeadlock(c))
-----------------------------------------------------------------------------
(* Kept *)

\* The pending check made under the deal's lock still holds at the insert, so
\* no request of the service runs into the unique constraint, and a deal has
\* one pending extension at most.
PendingCheckHolds ==
  /\ \A c \in Requests : Asks(c) /\ Ready(c) => PendingOn(call[c].deal) = {}
  /\ \A d \in Deals, x, y \in Extensions :
       x \in PendingOn(d) /\ y \in PendingOn(d) => x = y

\* A loan is due at its meeting's due date plus the days of the extensions
\* approved since: no approval is lost and none counts twice.
DueIsMeetingPlusApproved ==
  \A d \in Deals :
    deal[d].due = LoanDays + MapThenSumSet(LAMBDA x : ext[x].days, granted[d])

\* An extension is decided once: of an approval, a refusal and a withdrawal
\* at the same time one takes effect.
DecidedOnce ==
  [][\A x \in Extensions :
       ext[x] # NoRow /\ ext[x].status # "PENDING" => ext'[x] = ext[x]]_vars

\* No call waits for ever.
EveryCallEnds == \A c \in Requests : call[c] # Idle ~> call[c] = Idle
=============================================================================
