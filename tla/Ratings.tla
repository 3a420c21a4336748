------------------------------- MODULE Ratings -------------------------------
(***************************************************************************)
(* Ratings under overlapping requests: deals/services/rating_service.py,   *)
(* deals/models/rating.py and the part of confirm_return that needs them.  *)
(*                                                                         *)
(* create_rating is no transaction.  It checks the deal object its caller  *)
(* loaded, inserts the rating row (unique per deal and rater), and later   *)
(* writes both rating flags of that object back.  A call here is therefore *)
(* up to three steps: Submit (load and check), InsertRow, SaveFlags; other *)
(* calls, the daily job and a crash may come between them.  confirm_return *)
(* holds the row locks of book and deal and reads the deal under them: it  *)
(* stays one step.  The deals of this module have met and are no reports   *)
(* of an exception, which are closed without ratings; whether a loan is    *)
(* late and its book in a status a return starts from is DealLifecycle's   *)
(* subject, so a return may come here at any time.                         *)
(***************************************************************************)
EXTENDS Integers, FiniteSets

CONSTANTS
  Users, Deals,
  Applicant, Responder,   \* the parties of each deal
  Requests,               \* web requests that may be in progress at a time
  Job,                    \* the worker that runs process_pending_ratings
  MaxCrashes              \* bound on crashes

ASSUME PartiesAssumption ==
  /\ Applicant \in [Deals -> Users] /\ Responder \in [Deals -> Users]
  /\ Deals \subseteq Nat       \* numbered in the order the job's query returns them
  /\ Job \notin Requests /\ MaxCrashes \in Nat

VARIABLES
  deal,     \* the deal table: status, the two flags, and whether updated_at is 10 days old
  rating,   \* the rating table: pairs <<deal, rater>>
  call,     \* what each request, and the job, is in the middle of
  queue,    \* deals the running job has still to look at, as it read them
  crashes

vars == <<deal, rating, call, queue, crashes>>

Callers == Requests \cup {Job}
Flags == [applicant : BOOLEAN, responder : BOOLEAN]
DealRow == [status : {"M", "D"}, flags : Flags, old : BOOLEAN]
Idle == [pc |-> "idle"]

\* seen is the deal object in the caller's memory.
CallState ==
  {Idle} \cup [pc : {"checked", "inserted"}, deal : Deals, rater : Users, seen : Flags]

NotRead == [read |-> FALSE]
Read == [read : {TRUE}, flags : Flags, old : BOOLEAN]

TypeOK ==
  /\ deal \in [Deals -> DealRow]
  /\ rating \subseteq Deals \X Users
  /\ call \in [Callers -> CallState]
  /\ queue \in [Deals -> {NotRead} \cup Read]
  /\ crashes \in 0..MaxCrashes

Init ==
  /\ deal = [d \in Deals |-> [status |-> "M", old |-> FALSE,
                              flags |-> [applicant |-> FALSE, responder |-> FALSE]]]
  /\ rating = {}
  /\ call = [c \in Callers |-> Idle]
  /\ queue = [d \in Deals |-> NotRead]
  /\ crashes = 0
-----------------------------------------------------------------------------
(* create_rating *)

\* The checks on the loaded object.  The applicant's branch is tried first:
\* in a deal of one person with himself the responder's is out of reach.
MayRate(d, u, seen) ==
  \/ u = Applicant[d] /\ ~seen.applicant
  \/ u # Applicant[d] /\ u = Responder[d] /\ ~seen.responder

\* Slip: the object written back has the rater's own flag only.
OwnFlagOnly(d, u, seen) ==
  IF u = Applicant[d] THEN [applicant |-> TRUE] ELSE [responder |-> TRUE]

WithRating(d, u, seen) ==
  IF u = Applicant[d] THEN [seen EXCEPT !.applicant = TRUE]
                      ELSE [seen EXCEPT !.responder = TRUE]

InCall(c, pc) == call[c].pc = pc

\* Slip: the flag is saved when the rating is submitted, before the insert.
SubmitFlagged(c, d, u) ==
  /\ call[c] = Idle
  /\ MayRate(d, u, deal[d].flags)
  /\ call' = [call EXCEPT ![c] = [pc |-> "checked", deal |-> d, rater |-> u,
                                  seen |-> deal[d].flags]]
  /\ deal' = [deal EXCEPT ![d].flags = WithRating(d, u, @)]
  /\ UNCHANGED <<rating, queue, crashes>>

Submit(c, d, u) ==
  /\ call[c] = Idle
  /\ MayRate(d, u, deal[d].flags)
  /\ call' = [call EXCEPT ![c] = [pc |-> "checked", deal |-> d, rater |-> u,
                                  seen |-> deal[d].flags]]
  /\ UNCHANGED <<deal, rating, queue, crashes>>

\* Slip: no unique constraint, a second row is inserted like the first.
InsertRowAgain(c) ==
  LET k == call[c]
  IN  /\ InCall(c, "checked")
      /\ rating' = rating \cup {<<k.deal, k.rater>>}
      /\ call' = [call EXCEPT ![c].pc = "inserted"]
      /\ UNCHANGED <<deal, queue, crashes>>

\* The insert; a second row for the same deal and rater is an IntegrityError,
\* which ends the call.
InsertRow(c) ==
  LET k == call[c]
  IN  /\ InCall(c, "checked")
      /\ \/ /\ <<k.deal, k.rater>> \notin rating
            /\ rating' = rating \cup {<<k.deal, k.rater>>}
            /\ call' = [call EXCEPT ![c].pc = "inserted"]
         \/ /\ <<k.deal, k.rater>> \in rating
            /\ call' = [call EXCEPT ![c] = Idle]
            /\ UNCHANGED rating
      /\ UNCHANGED <<deal, queue, crashes>>

\* save(update_fields=[applicant_rated, responder_rated, updated_at]): both
\* flags of the loaded object, the other party's as it was when loaded.
SaveFlags(c) ==
  LET k == call[c]
      flags == WithRating(k.deal, k.rater, k.seen)
  IN  /\ c \in Requests /\ InCall(c, "inserted")
      /\ deal' = [deal EXCEPT ![k.deal].flags = flags, ![k.deal].old = FALSE]
      /\ call' = [call EXCEPT ![c] = Idle]
      /\ UNCHANGED <<rating, queue, crashes>>
-----------------------------------------------------------------------------
(* process_pending_ratings *)

\* Slip: the query asks for deals one party has rated.
StartJobHalfRated ==
  LET Waits(d) == deal[d].status = "M" /\ deal[d].flags.applicant # deal[d].flags.responder
  IN  /\ call[Job] = Idle /\ \A d \in Deals : queue[d] = NotRead
      /\ \E d \in Deals : Waits(d)
      /\ queue' = [d \in Deals |->
                     IF Waits(d)
                     THEN [read |-> TRUE, flags |-> deal[d].flags, old |-> deal[d].old]
                     ELSE NotRead]
      /\ UNCHANGED <<deal, rating, call, crashes>>

\* The query is read once; nothing after it looks at the table again.
StartJob ==
  /\ call[Job] = Idle /\ \A d \in Deals : queue[d] = NotRead
  /\ \E d \in Deals : deal[d].status = "M"
  /\ queue' = [d \in Deals |->
                 IF deal[d].status = "M"
                 THEN [read |-> TRUE, flags |-> deal[d].flags, old |-> deal[d].old]
                 ELSE NotRead]
  /\ UNCHANGED <<deal, rating, call, crashes>>

IsNext(d) ==
  /\ call[Job] = Idle /\ queue[d] # NotRead
  /\ \A e \in Deals : e < d => queue[e] = NotRead

BothFlags(flags) == flags.applicant /\ flags.responder

Pending(d) == IF ~queue[d].flags.applicant THEN Applicant[d] ELSE Responder[d]

\* A deal with nobody pending, or too young: reminders at most.
SkipDeal(d) ==
  /\ IsNext(d)
  /\ BothFlags(queue[d].flags) \/ ~queue[d].old
  /\ queue' = [queue EXCEPT ![d] = NotRead]
  /\ UNCHANGED <<deal, rating, call, crashes>>

MustRate(d) == IsNext(d) /\ ~BothFlags(queue[d].flags) /\ queue[d].old

\* create_rating for the next pending party, up to the insert.
AutoRate(d) ==
  /\ MustRate(d)
  /\ MayRate(d, Pending(d), queue[d].flags)
  /\ <<d, Pending(d)>> \notin rating
  /\ rating' = rating \cup {<<d, Pending(d)>>}
  /\ call' = [call EXCEPT ![Job] = [pc |-> "inserted", deal |-> d, rater |-> Pending(d),
                                    seen |-> queue[d].flags]]
  /\ UNCHANGED <<deal, queue, crashes>>

\* ... and after it; the next party is rated with the same object.
AutoSave ==
  LET k == call[Job]
      flags == WithRating(k.deal, k.rater, k.seen)
  IN  /\ InCall(Job, "inserted")
      /\ deal' = [deal EXCEPT ![k.deal].flags = flags, ![k.deal].old = FALSE]
      /\ queue' = [queue EXCEPT ![k.deal].flags = flags]
      /\ call' = [call EXCEPT ![Job] = Idle]
      /\ UNCHANGED <<rating, crashes>>

\* create_rating raises: the loop has no handler, the task ends here.
AbortJob(d) ==
  /\ MustRate(d)
  /\ ~MayRate(d, Pending(d), queue[d].flags) \/ <<d, Pending(d)>> \in rating
  /\ queue' = [e \in Deals |-> NotRead]
  /\ UNCHANGED <<deal, rating, call, crashes>>
-----------------------------------------------------------------------------
(* Returns, crashes, time *)

\* confirm_return with both ratings in.
ConfirmReturn(d) ==
  /\ deal[d].status = "M"
  /\ BothFlags(deal[d].flags)
  /\ deal' = [deal EXCEPT ![d].status = "D", ![d].old = FALSE]
  /\ UNCHANGED <<rating, call, queue, crashes>>

\* The ratings a forced return writes; an error undoes the whole call.
Missing(d) ==
  {u \in Users : \/ u = Applicant[d] /\ ~deal[d].flags.applicant
                 \/ u = Responder[d] /\ ~deal[d].flags.responder}

ForceReturn(d) ==
  /\ deal[d].status = "M"
  /\ deal[d].flags.responder \/ Applicant[d] # Responder[d]
  /\ \A u \in Missing(d) : <<d, u>> \notin rating
  /\ rating' = rating \cup {<<d, u>> : u \in Missing(d)}
  /\ deal' = [deal EXCEPT ![d] = [status |-> "D", old |-> FALSE,
                                  flags |-> [applicant |-> TRUE, responder |-> TRUE]]]
  /\ UNCHANGED <<call, queue, crashes>>

\* The process serving a request, or the worker, dies between two statements.
Crash(c) ==
  /\ crashes < MaxCrashes
  /\ \/ call[c] # Idle
     \/ c = Job /\ \E d \in Deals : queue[d] # NotRead
  /\ crashes' = crashes + 1
  /\ call' = [call EXCEPT ![c] = Idle]
  /\ queue' = IF c = Job THEN [d \in Deals |-> NotRead] ELSE queue
  /\ UNCHANGED <<deal, rating>>

\* Ten days without an update of the deal.
TenDays(d) ==
  /\ deal[d].status = "M" /\ ~deal[d].old
  /\ deal' = [deal EXCEPT ![d].old = TRUE]
  /\ UNCHANGED <<rating, call, queue, crashes>>

Next ==
  \/ \E c \in Requests, d \in Deals, u \in Users : Submit(c, d, u)
  \/ \E c \in Requests : InsertRow(c)
  \/ \E c \in Requests : SaveFlags(c)
  \/ StartJob
  \/ \E d \in Deals : SkipDeal(d)
  \/ \E d \in Deals : AutoRate(d)
  \/ AutoSave
  \/ \E d \in Deals : AbortJob(d)
  \/ \E d \in Deals : ConfirmReturn(d)
  \/ \E d \in Deals : ForceReturn(d)
  \/ \E c \in Callers : Crash(c)
  \/ \E d \in Deals : TenDays(d)

JobStep == \/ \E d \in Deals : SkipDeal(d) \/ AutoRate(d) \/ AbortJob(d)
           \/ AutoSave

Spec == Init /\ [][Next]_vars

\* Beat starts the job every day; requests under way and the job run on.
FairSpec ==
  /\ Spec /\ WF_vars(StartJob) /\ WF_vars(JobStep)
  /\ \A c \in Requests : WF_vars(InsertRow(c)) /\ WF_vars(SaveFlags(c))
-----------------------------------------------------------------------------
(* Properties *)

Backed(d, flags) ==
  /\ flags.applicant => <<d, Applicant[d]>> \in rating
  /\ flags.responder => <<d, Responder[d]>> \in rating

\* A flag is never set for somebody whose rating is not in the table, in the
\* deal table or in the memory of any call: no order of saves, crashes and
\* forced returns invents a rating.
FlagsHaveRatings ==
  /\ \A d \in Deals : Backed(d, deal[d].flags)
  /\ \A d \in Deals : queue[d] # NotRead => Backed(d, queue[d].flags)
  /\ \A c \in Callers : call[c] # Idle => Backed(call[c].deal, call[c].seen)

\* A deal is done only with both flags set, and late saves of calls that
\* were under way when it was closed neither clear a flag nor reopen it.
DoneStaysRated ==
  [][\A d \in Deals :
       /\ deal'[d].status = "D" => BothFlags(deal'[d].flags)
       /\ deal[d].status = "D" => deal'[d].status = "D"]_vars

\* A party of the deal whose rating is in the table and whose flag is not set:
\* its insert is not followed by its save yet, or never will be.
Unflagged(d) ==
  /\ deal[d].status = "M"
  /\ \/ <<d, Applicant[d]>> \in rating /\ ~deal[d].flags.applicant
     \/ <<d, Responder[d]>> \in rating /\ ~deal[d].flags.responder

\* Ten days after its last update an unrated deal is rated by the job, crashes
\* of the job and overlapping requests notwithstanding, unless some deal stays
\* with a rating whose flag is not set: the job rates again on behalf of that
\* party, the unique constraint refuses the row and the task ends every day.
\* (A crash after the insert, two ratings saved over each other and a deal of
\* a person with himself leave such a deal.)
OldDealsGetRated ==
  []<>(\A d \in Deals : ~Unflagged(d)) =>
    \A d \in Deals :
      (/\ deal[d].status = "M" /\ deal[d].old
       /\ \A u \in Users : <<d, u>> \notin rating)
        ~> (\E u \in Users : <<d, u>> \in rating)
=============================================================================
