---------------------------- MODULE Ratings_proofs ----------------------------
(***************************************************************************)
(* Ratings for any number of deals and of overlapping calls.  The argument *)
(* is about callers between their insert and their save (writers): the     *)
(* unique constraint allows one writer per deal and person, and until it   *)
(* has saved, its flag is FALSE in the table and in every loaded object.   *)
(* So a deal with both flags set has no writer left, and stays as it is.   *)
(***************************************************************************)
EXTENDS Ratings, TLAPS

Writes(c, d, u) == call[c].pc = "inserted" /\ call[c].deal = d /\ call[c].rater = u

RaterFlag(d, u, flags) == IF u = Applicant[d] THEN flags.applicant ELSE flags.responder

WritersHaveRows ==
  \A c \in Callers : call[c].pc = "inserted" =>
    /\ <<call[c].deal, call[c].rater>> \in rating
    /\ call[c].rater \in {Applicant[call[c].deal], Responder[call[c].deal]}

OneWriter ==
  \A b, c \in Callers : \A d \in Deals, u \in Users :
    Writes(b, d, u) /\ Writes(c, d, u) => b = c

\* Callers that checked a rating hold it to be one of a party.
CheckedParties ==
  \A c \in Callers : call[c].pc = "checked" =>
    call[c].rater \in {Applicant[call[c].deal], Responder[call[c].deal]}

NotYetSaved ==
  \A c \in Callers, d \in Deals, u \in Users : Writes(c, d, u) =>
    /\ RaterFlag(d, u, deal[d].flags) = FALSE
    /\ queue[d] # NotRead => RaterFlag(d, u, queue[d].flags) = FALSE
    /\ \A b \in Callers : call[b] # Idle /\ call[b].deal = d =>
                            RaterFlag(d, u, call[b].seen) = FALSE

DoneIsRated == \A d \in Deals : deal[d].status = "D" => BothFlags(deal[d].flags)

Inv ==
  /\ FlagsHaveRatings /\ WritersHaveRows /\ OneWriter /\ CheckedParties
  /\ NotYetSaved /\ DoneIsRated
-----------------------------------------------------------------------------
(* Typing *)

LEMMA FlagsTyped ==
  ASSUME NEW d \in Deals, NEW u \in Users, NEW seen \in Flags
  PROVE  WithRating(d, u, seen) \in Flags
BY DEF WithRating, Flags

LEMMA CallTyped ==
  ASSUME TypeOK, NEW c \in Callers, call[c].pc \in {"checked", "inserted"}
  PROVE  /\ call[c] # Idle
         /\ call[c].deal \in Deals /\ call[c].rater \in Users /\ call[c].seen \in Flags
         /\ [call[c] EXCEPT !.pc = "inserted"] \in CallState
<1>1. call[c] \in CallState /\ call[c] # Idle
  BY DEF TypeOK, Idle
<1>2. call[c] \in [pc : {"checked", "inserted"}, deal : Deals, rater : Users, seen : Flags]
  BY <1>1 DEF CallState
<1> QED
  BY <1>1, <1>2 DEF CallState

LEMMA QueueTyped ==
  ASSUME TypeOK, NEW d \in Deals, queue[d] # NotRead
  PROVE  queue[d] \in Read /\ queue[d].flags \in Flags
BY DEF TypeOK, Read

LEMMA InitTyped == Init => TypeOK
BY PartiesAssumption DEF Init, TypeOK, DealRow, Flags, CallState

LEMMA NextTyped == TypeOK /\ [Next]_vars => TypeOK'
<1> SUFFICES ASSUME TypeOK, [Next]_vars PROVE TypeOK'
  OBVIOUS
<1>0. /\ deal \in [Deals -> DealRow] /\ rating \subseteq Deals \X Users
      /\ call \in [Callers -> CallState] /\ queue \in [Deals -> {NotRead} \cup Read]
      /\ crashes \in 0..MaxCrashes /\ Idle \in CallState
      /\ \A d \in Deals : deal[d] \in DealRow /\ deal[d].flags \in Flags
                          /\ deal[d].old \in BOOLEAN
      /\ Requests \subseteq Callers /\ Job \in Callers
  BY DEF TypeOK, DealRow, CallState, Callers
<1>a. \A d \in Deals, flags \in Flags, old \in BOOLEAN, status \in {"M", "D"} :
        [status |-> status, flags |-> flags, old |-> old] \in DealRow
  BY DEF DealRow
<1>b. \A d \in Deals, flags \in Flags, old \in BOOLEAN :
        /\ [deal[d] EXCEPT !.flags = flags, !.old = old] \in DealRow
        /\ [deal[d] EXCEPT !.status = "D", !.old = old] \in DealRow
        /\ [deal[d] EXCEPT !.old = old] \in DealRow
  BY <1>0 DEF DealRow
<1>1. ASSUME NEW c \in Requests, NEW d \in Deals, NEW u \in Users, Submit(c, d, u)
      PROVE  TypeOK'
  <2>1. [pc |-> "checked", deal |-> d, rater |-> u, seen |-> deal[d].flags] \in CallState
    BY <1>0 DEF CallState
  <2> QED
    BY <1>0, <1>1, <2>1 DEF Submit, TypeOK
<1>2. ASSUME NEW c \in Requests, InsertRow(c) PROVE TypeOK'
  <2>1. /\ call[c].deal \in Deals /\ call[c].rater \in Users
        /\ [call[c] EXCEPT !.pc = "inserted"] \in CallState
    BY <1>0, <1>2, CallTyped DEF InsertRow, InCall
  <2>2. rating' \subseteq Deals \X Users
    BY <1>0, <1>2, <2>1 DEF InsertRow
  <2>3. call' \in [Callers -> CallState]
    BY <1>0, <1>2, <2>1 DEF InsertRow
  <2> QED
    BY <1>0, <1>2, <2>2, <2>3 DEF InsertRow, TypeOK
<1>3. ASSUME NEW c \in Requests, SaveFlags(c) PROVE TypeOK'
  <2>1. call[c].deal \in Deals /\ call[c].rater \in Users /\ call[c].seen \in Flags
    BY <1>0, <1>3, CallTyped DEF SaveFlags, InCall
  <2>2. WithRating(call[c].deal, call[c].rater, call[c].seen) \in Flags
    BY <2>1, FlagsTyped
  <2>3. deal' \in [Deals -> DealRow]
    BY <1>0, <1>b, <1>3, <2>1, <2>2 DEF SaveFlags
  <2> QED
    BY <1>0, <1>3, <2>3 DEF SaveFlags, TypeOK
<1>4. ASSUME StartJob PROVE TypeOK'
  <2>1. \A d \in Deals :
          [read |-> TRUE, flags |-> deal[d].flags, old |-> deal[d].old] \in Read
    BY <1>0 DEF Read
  <2> QED
    BY <1>0, <1>4, <2>1 DEF StartJob, TypeOK
<1>5. ASSUME NEW d \in Deals, SkipDeal(d) PROVE TypeOK'
  BY <1>0, <1>5 DEF SkipDeal, TypeOK
<1>6. ASSUME NEW d \in Deals, AutoRate(d) PROVE TypeOK'
  <2>1. queue[d].flags \in Flags /\ Pending(d) \in Users
    BY <1>6, QueueTyped, PartiesAssumption DEF AutoRate, MustRate, IsNext, Pending
  <2>2. [pc |-> "inserted", deal |-> d, rater |-> Pending(d), seen |-> queue[d].flags]
           \in CallState
    BY <2>1 DEF CallState
  <2>3. rating' \subseteq Deals \X Users
    BY <1>0, <1>6, <2>1 DEF AutoRate
  <2>4. call' \in [Callers -> CallState]
    BY <1>0, <1>6, <2>2 DEF AutoRate
  <2> QED
    BY <1>0, <1>6, <2>3, <2>4 DEF AutoRate, TypeOK
<1>7. ASSUME AutoSave PROVE TypeOK'
  <2> DEFINE k == call[Job]
             flags == WithRating(k.deal, k.rater, k.seen)
  <2>1. k.deal \in Deals /\ k.rater \in Users /\ k.seen \in Flags
    BY <1>0, <1>7, CallTyped DEF AutoSave, InCall
  <2>2. flags \in Flags
    BY <2>1, FlagsTyped
  <2>3. deal' \in [Deals -> DealRow]
    BY <1>0, <1>b, <1>7, <2>1, <2>2 DEF AutoSave
  <2>4. \A q \in {NotRead} \cup Read : [q EXCEPT !.flags = flags] \in {NotRead} \cup Read
    <3>1. [NotRead EXCEPT !.flags = flags] = NotRead
      BY DEF NotRead
    <3>2. \A q \in Read : [q EXCEPT !.flags = flags] \in Read
      BY <2>2 DEF Read
    <3> QED
      BY <3>1, <3>2
  <2>5. queue' \in [Deals -> {NotRead} \cup Read]
    <3>1. queue' = [queue EXCEPT ![k.deal] = [queue[k.deal] EXCEPT !.flags = flags]]
      BY <1>7 DEF AutoSave
    <3>2. queue[k.deal] \in {NotRead} \cup Read
      BY <1>0, <2>1
    <3> HIDE DEF flags
    <3> QED
      BY <1>0, <2>1, <2>4, <3>1, <3>2
  <2>6. call' \in [Callers -> CallState]
    BY <1>0, <1>7 DEF AutoSave
  <2> HIDE DEF flags
  <2> QED
    BY <1>0, <1>7, <2>3, <2>5, <2>6 DEF AutoSave, TypeOK
<1>8. ASSUME NEW d \in Deals, AbortJob(d) PROVE TypeOK'
  BY <1>0, <1>8 DEF AbortJob, TypeOK
<1>9. ASSUME NEW d \in Deals, ConfirmReturn(d) PROVE TypeOK'
  BY <1>0, <1>b, <1>9 DEF ConfirmReturn, TypeOK
<1>10. ASSUME NEW d \in Deals, ForceReturn(d) PROVE TypeOK'
  <2>1. [applicant |-> TRUE, responder |-> TRUE] \in Flags
    BY DEF Flags
  <2>2. deal' \in [Deals -> DealRow]
    BY <1>0, <1>a, <1>10, <2>1 DEF ForceReturn
  <2>3. rating' \subseteq Deals \X Users
    BY <1>0, <1>10 DEF ForceReturn, Missing
  <2> QED
    BY <1>0, <1>10, <2>2, <2>3 DEF ForceReturn, TypeOK
<1>11. ASSUME NEW c \in Callers, Crash(c) PROVE TypeOK'
  <2>1. crashes' \in 0..MaxCrashes
    BY <1>0, <1>11, PartiesAssumption DEF Crash
  <2> QED
    BY <1>0, <1>11, <2>1 DEF Crash, TypeOK
<1>12. ASSUME NEW d \in Deals, TenDays(d) PROVE TypeOK'
  BY <1>0, <1>b, <1>12 DEF TenDays, TypeOK
<1>13. CASE UNCHANGED vars
  BY <1>13 DEF vars, TypeOK
<1> QED
  BY <1>1, <1>2, <1>3, <1>4, <1>5, <1>6, <1>7, <1>8, <1>9, <1>10, <1>11, <1>12, <1>13
  DEF Next
-----------------------------------------------------------------------------
(* Flags *)

LEMMA BackedGrows ==
  ASSUME NEW d, NEW flags, Backed(d, flags), rating \subseteq rating'
  PROVE  Backed(d, flags)'
BY Zenon DEF Backed

LEMMA FreshRatingUnflagged ==
  ASSUME NEW d \in Deals, NEW u \in {Applicant[d], Responder[d]}, NEW flags \in Flags,
         Backed(d, flags), <<d, u>> \notin rating
  PROVE  RaterFlag(d, u, flags) = FALSE
BY Zenon DEF Backed, RaterFlag, Flags

LEMMA SavingOwnFlag ==
  ASSUME NEW d \in Deals, NEW u \in {Applicant[d], Responder[d]}, NEW flags \in Flags,
         Backed(d, flags), <<d, u>> \in rating
  PROVE  Backed(d, WithRating(d, u, flags))
<1>1. CASE u = Applicant[d]
  BY <1>1, Zenon DEF Backed, WithRating, Flags
<1>2. CASE u # Applicant[d]
  BY <1>2, Zenon DEF Backed, WithRating, Flags
<1> QED
  BY <1>1, <1>2

LEMMA SavingKeepsOther ==
  ASSUME NEW d \in Deals, NEW u \in {Applicant[d], Responder[d]},
         NEW v \in {Applicant[d], Responder[d]}, u # v, NEW flags \in Flags
  PROVE  RaterFlag(d, v, WithRating(d, u, flags)) = RaterFlag(d, v, flags)
BY DEF RaterFlag, WithRating, Flags

LEMMA FlagOfBoth ==
  ASSUME NEW d, NEW u, NEW flags, BothFlags(flags), RaterFlag(d, u, flags) = FALSE
  PROVE  FALSE
BY Zenon DEF BothFlags, RaterFlag
-----------------------------------------------------------------------------
(* The invariant *)

LEMMA InitInv == Init => Inv
<1> SUFFICES ASSUME Init PROVE Inv
  OBVIOUS
<1>1. /\ \A d \in Deals : /\ deal[d].status = "M"
                          /\ deal[d].flags = [applicant |-> FALSE, responder |-> FALSE]
                          /\ queue[d] = NotRead
      /\ \A c \in Callers : call[c] = Idle /\ call[c].pc = "idle"
  BY DEF Init, Idle
<1>2. \A d \in Deals : Backed(d, [applicant |-> FALSE, responder |-> FALSE])
  BY DEF Backed
<1> QED
  BY <1>1, <1>2 DEF Inv, FlagsHaveRatings, WritersHaveRows, OneWriter, CheckedParties,
                    NotYetSaved, DoneIsRated, Writes

\* A call that ends without a save, and a queue that gets shorter, harm nothing.
LEMMA DroppedCall ==
  ASSUME Inv, DOMAIN call = Callers, Idle.pc = "idle",
         \A b \in Callers : call[b] # Idle <=> call[b].pc \in {"checked", "inserted"},
         NEW c \in Callers, call' = [call EXCEPT ![c] = Idle],
         \A d \in Deals : queue'[d] = queue[d] \/ queue'[d] = NotRead,
         UNCHANGED <<deal, rating>>
  PROVE  Inv'
<1> USE DEF Inv
<1>1. call'[c] = Idle /\ \A b \in Callers : b # c => call'[b] = call[b]
  OBVIOUS
<1>2. FlagsHaveRatings'
  BY <1>1, BackedGrows DEF FlagsHaveRatings
<1>3. \A b \in Callers, d \in Deals, u \in Users : Writes(b, d, u)' => Writes(b, d, u)
  BY <1>1 DEF Writes
<1>4. NotYetSaved'
  BY <1>1, <1>3 DEF NotYetSaved
<1>5. OneWriter'
  BY <1>3 DEF OneWriter
<1> QED
  BY <1>1, <1>2, <1>4, <1>5 DEF WritersHaveRows, CheckedParties, DoneIsRated

LEMMA QueueDropped ==
  ASSUME Inv, DOMAIN queue = Deals,
         \/ queue' = [d \in Deals |-> NotRead]
         \/ \E e \in Deals : queue' = [queue EXCEPT ![e] = NotRead],
         UNCHANGED <<deal, rating, call>>
  PROVE  Inv'
<1> USE DEF Inv
<1>1. \A d \in Deals : queue'[d] = queue[d] \/ queue'[d] = NotRead
  OBVIOUS
<1>2. FlagsHaveRatings'
  BY <1>1, BackedGrows DEF FlagsHaveRatings
<1>3. NotYetSaved'
  BY <1>1 DEF NotYetSaved, Writes
<1> QED
  BY <1>2, <1>3 DEF WritersHaveRows, OneWriter, CheckedParties, DoneIsRated, Writes

\* A caller that has just inserted a row is the only writer for it, and its
\* flag is set nowhere.
LEMMA NewWriter ==
  ASSUME TypeOK, Inv, NEW c \in Callers, NEW d \in Deals, NEW u \in Users, NEW seen \in Flags,
         u \in {Applicant[d], Responder[d]}, <<d, u>> \notin rating,
         call[c].pc # "inserted",
         rating' = rating \cup {<<d, u>>},
         call'[c].pc = "inserted", call'[c] # Idle,
         call'[c].deal = d, call'[c].rater = u, call'[c].seen = seen, Backed(d, seen),
         \/ call[c] # Idle /\ call[c].deal = d /\ seen = call[c].seen
         \/ queue[d] # NotRead /\ seen = queue[d].flags,
         \A b \in Callers : b # c => call'[b] = call[b],
         UNCHANGED <<deal, queue>>
  PROVE  Inv'
<1> USE DEF Inv
<1>1. rating \subseteq rating'
  OBVIOUS
<1>2. FlagsHaveRatings'
  <2>1. Backed(d, seen)'
    BY <1>1, BackedGrows
  <2>2. \A e \in Deals : Backed(e, deal[e].flags)'
    BY <1>1, BackedGrows DEF FlagsHaveRatings
  <2>3. \A e \in Deals : queue[e] # NotRead => Backed(e, queue[e].flags)'
    BY <1>1, BackedGrows DEF FlagsHaveRatings
  <2>4. \A b \in Callers : b # c /\ call[b] # Idle => Backed(call[b].deal, call[b].seen)'
    <3> SUFFICES ASSUME NEW b \in Callers, b # c, call'[b] # Idle
                 PROVE  Backed(call[b].deal, call[b].seen)'
      OBVIOUS
    <3>1. Backed(call[b].deal, call[b].seen)
      BY DEF FlagsHaveRatings
    <3> QED
      BY <1>1, <3>1, BackedGrows
  <2> QED
    BY <2>1, <2>2, <2>3, <2>4 DEF FlagsHaveRatings
<1>3. \A b \in Callers, e \in Deals, v \in Users :
        /\ Writes(b, e, v)' => (b = c /\ e = d /\ v = u) \/ (b # c /\ Writes(b, e, v))
        /\ Writes(b, e, v) => <<e, v>> \in rating
  <2> TAKE b \in Callers, e \in Deals, v \in Users
  <2>1. Writes(b, e, v)' => (b = c /\ e = d /\ v = u) \/ (b # c /\ Writes(b, e, v))
    BY DEF Writes
  <2>2. Writes(b, e, v) => <<e, v>> \in rating
    BY DEF Writes, WritersHaveRows
  <2> QED
    BY <2>1, <2>2
<1>4. OneWriter'
  <2> SUFFICES ASSUME NEW a \in Callers, NEW b \in Callers, NEW e \in Deals, NEW v \in Users,
                      Writes(a, e, v)', Writes(b, e, v)'
               PROVE  a = b
    BY DEF OneWriter
  <2>1. CASE e = d /\ v = u
    <3>1. ~Writes(a, d, u) /\ ~Writes(b, d, u)
      BY <1>3
    <3> QED
      BY <1>3, <2>1, <3>1
  <2>2. CASE ~(e = d /\ v = u)
    <3>1. Writes(a, e, v) /\ Writes(b, e, v)
      BY <1>3, <2>2
    <3> QED
      BY <3>1 DEF OneWriter
  <2> QED
    BY <2>1, <2>2
<1>5. WritersHaveRows' /\ CheckedParties'
  BY <1>1 DEF WritersHaveRows, CheckedParties
<1>6. NotYetSaved'
  <2> SUFFICES ASSUME NEW b \in Callers, NEW e \in Deals, NEW v \in Users, Writes(b, e, v)'
               PROVE  /\ RaterFlag(e, v, deal'[e].flags) = FALSE
                      /\ queue'[e] # NotRead => RaterFlag(e, v, queue'[e].flags) = FALSE
                      /\ \A a \in Callers : call'[a] # Idle /\ call'[a].deal = e =>
                                              RaterFlag(e, v, call'[a].seen) = FALSE
    BY DEF NotYetSaved, RaterFlag
  <2>1. CASE b = c /\ e = d /\ v = u
    <3>1. RaterFlag(d, u, deal[d].flags) = FALSE
      <4>1. deal[d].flags \in Flags
        BY DEF TypeOK, DealRow
      <4>2. Backed(d, deal[d].flags)
        BY DEF FlagsHaveRatings
      <4> QED
        BY <4>1, <4>2, FreshRatingUnflagged
    <3>2. ASSUME queue[d] # NotRead PROVE RaterFlag(d, u, queue[d].flags) = FALSE
      <4>1. queue[d].flags \in Flags
        BY <3>2, QueueTyped
      <4>2. Backed(d, queue[d].flags)
        BY <3>2 DEF FlagsHaveRatings
      <4> QED
        BY <4>1, <4>2, FreshRatingUnflagged
    <3>3. ASSUME NEW a \in Callers, call'[a] # Idle, call'[a].deal = d
          PROVE  RaterFlag(d, u, call'[a].seen) = FALSE
      <4>1. CASE a = c
        BY <4>1, FreshRatingUnflagged
      <4>2. CASE a # c
        <5>1. Backed(d, call[a].seen) /\ call[a].seen \in Flags
          BY <3>3, <4>2, CallTyped DEF FlagsHaveRatings, TypeOK, CallState
        <5> QED
          BY <4>2, <5>1, FreshRatingUnflagged
      <4> QED
        BY <4>1, <4>2
    <3> QED
      BY <2>1, <3>1, <3>2, <3>3
  <2>2. CASE b # c /\ Writes(b, e, v)
    <3>1. <<e, v>> # <<d, u>>
      BY <1>3, <2>2
    <3>2. /\ RaterFlag(e, v, deal[e].flags) = FALSE
          /\ queue[e] # NotRead => RaterFlag(e, v, queue[e].flags) = FALSE
          /\ \A a \in Callers : call[a] # Idle /\ call[a].deal = e =>
                                  RaterFlag(e, v, call[a].seen) = FALSE
      BY <2>2 DEF NotYetSaved
    <3>3. e = d => RaterFlag(e, v, call'[c].seen) = FALSE
      BY <3>2
    <3> QED
      BY <3>2, <3>3
  <2> QED
    BY <1>3, <2>1, <2>2
<1> QED
  BY <1>2, <1>4, <1>5, <1>6 DEF DoneIsRated

\* A writer's save sets its own flag and, for the other party, what it had
\* loaded: FALSE, if that party has a writer of its own.
LEMMA SavingWriter ==
  ASSUME TypeOK, Inv, NEW c \in Callers, NEW d \in Deals, NEW u \in Users, NEW flags,
         Writes(c, d, u), flags = WithRating(d, u, call[c].seen),
         deal'[d].flags = flags, deal'[d].status = deal[d].status,
         \A e \in Deals : e # d => deal'[e] = deal[e],
         call' = [call EXCEPT ![c] = Idle],
         \A e \in Deals : queue'[e] = queue[e] \/ (e = d /\ queue'[e].flags = flags),
         UNCHANGED rating
  PROVE  Inv'
<1> USE DEF Inv
<1>1. /\ call[c] # Idle /\ call[c].seen \in Flags /\ call[c].deal = d /\ call[c].rater = u
      /\ u \in {Applicant[d], Responder[d]} /\ <<d, u>> \in rating
      /\ Backed(d, call[c].seen)
  BY CallTyped DEF Writes, WritersHaveRows, FlagsHaveRatings
<1>2. /\ deal'[d].flags = flags /\ deal'[d].status = deal[d].status
      /\ \A e \in Deals : e # d => deal'[e] = deal[e]
      /\ call'[c] = Idle /\ \A b \in Callers : b # c => call'[b] = call[b]
      /\ Idle.pc = "idle"
  BY DEF TypeOK, DealRow, Idle
<1>3. Backed(d, flags)
  BY <1>1, SavingOwnFlag
<1>4. FlagsHaveRatings'
  <2>1. \A e \in Deals, f \in Flags : Backed(e, f) => Backed(e, f)'
    BY BackedGrows
  <2>2. \A e \in Deals : Backed(e, deal'[e].flags)
    BY <1>2, <1>3 DEF FlagsHaveRatings
  <2>3. \A e \in Deals : queue'[e] # NotRead => Backed(e, queue'[e].flags)
    BY <1>3 DEF FlagsHaveRatings
  <2>4. \A b \in Callers : call'[b] # Idle => Backed(call'[b].deal, call'[b].seen)
    BY <1>2 DEF FlagsHaveRatings
  <2> QED
    BY <2>2, <2>3, <2>4 DEF FlagsHaveRatings, Backed
<1>5. \A b \in Callers, e \in Deals, v \in Users :
        Writes(b, e, v)' => b # c /\ Writes(b, e, v) /\ <<e, v>> # <<d, u>>
  BY <1>2 DEF Writes, OneWriter
<1>6. OneWriter'
  BY <1>5 DEF OneWriter
<1>7. WritersHaveRows' /\ CheckedParties'
  BY <1>2 DEF WritersHaveRows, CheckedParties
<1>8. NotYetSaved'
  <2> SUFFICES ASSUME NEW b \in Callers, NEW e \in Deals, NEW v \in Users, Writes(b, e, v)'
               PROVE  /\ RaterFlag(e, v, deal'[e].flags) = FALSE
                      /\ queue'[e] # NotRead => RaterFlag(e, v, queue'[e].flags) = FALSE
                      /\ \A a \in Callers : call'[a] # Idle /\ call'[a].deal = e =>
                                              RaterFlag(e, v, call'[a].seen) = FALSE
    BY DEF NotYetSaved, RaterFlag
  <2>1. Writes(b, e, v) /\ <<e, v>> # <<d, u>>
    BY <1>5
  <2>2. /\ RaterFlag(e, v, deal[e].flags) = FALSE
        /\ queue[e] # NotRead => RaterFlag(e, v, queue[e].flags) = FALSE
        /\ \A a \in Callers : call[a] # Idle /\ call[a].deal = e =>
                                RaterFlag(e, v, call[a].seen) = FALSE
    BY <2>1 DEF NotYetSaved
  <2>3. e = d => RaterFlag(e, v, flags) = FALSE
    <3> SUFFICES ASSUME e = d PROVE RaterFlag(d, v, flags) = FALSE
      OBVIOUS
    <3>1. v # u /\ v \in {Applicant[d], Responder[d]}
      BY <2>1 DEF Writes, WritersHaveRows
    <3>2. RaterFlag(d, v, call[c].seen) = FALSE
      BY <1>1, <2>2
    <3> QED
      BY <1>1, <3>1, <3>2, SavingKeepsOther
  <2> QED
    BY <1>2, <2>2, <2>3
<1>9. DoneIsRated'
  <2>1. deal[d].status # "D"
    <3>1. RaterFlag(d, u, deal[d].flags) = FALSE
      BY DEF NotYetSaved
    <3> QED
      BY <3>1, FlagOfBoth DEF DoneIsRated
  <2> QED
    BY <1>2, <2>1 DEF DoneIsRated
<1> QED
  BY <1>4, <1>6, <1>7, <1>8, <1>9

LEMMA NextInv == TypeOK /\ Inv /\ [Next]_vars => Inv'
<1> SUFFICES ASSUME TypeOK, Inv, [Next]_vars PROVE Inv'
  OBVIOUS
<1>0. /\ DOMAIN deal = Deals /\ DOMAIN call = Callers /\ DOMAIN queue = Deals
      /\ \A d \in Deals : deal[d] \in DealRow /\ deal[d].flags \in Flags
      /\ \A d \in Deals : queue[d] # NotRead => queue[d] \in Read /\ queue[d].flags \in Flags
      /\ \A c \in Callers : call[c] # Idle <=> call[c].pc \in {"checked", "inserted"}
      /\ \A c \in Callers : call[c] # Idle =>
           /\ call[c] \in [pc : {"checked", "inserted"}, deal : Deals, rater : Users,
                           seen : Flags]
           /\ call[c].deal \in Deals /\ call[c].rater \in Users /\ call[c].seen \in Flags
      /\ Requests \subseteq Callers /\ Job \in Callers
      /\ Idle.pc = "idle"
  <2>1. /\ DOMAIN deal = Deals /\ DOMAIN call = Callers /\ DOMAIN queue = Deals
        /\ \A d \in Deals : deal[d] \in DealRow /\ deal[d].flags \in Flags
        /\ \A d \in Deals : queue[d] # NotRead => queue[d] \in Read /\ queue[d].flags \in Flags
    BY DEF TypeOK, DealRow, Read
  <2>2. Requests \subseteq Callers /\ Job \in Callers /\ Idle.pc = "idle"
    BY DEF Callers, Idle
  <2>3. \A c \in Callers : call[c] # Idle =>
           call[c] \in [pc : {"checked", "inserted"}, deal : Deals, rater : Users, seen : Flags]
    BY DEF TypeOK, CallState
  <2> QED
    BY <2>1, <2>2, <2>3
<1> USE DEF Inv
<1>1. ASSUME NEW c \in Requests, NEW d \in Deals, NEW u \in Users, Submit(c, d, u)
      PROVE  Inv'
  <2>1. /\ call'[c] # Idle /\ call'[c].pc = "checked" /\ call'[c].deal = d
        /\ call'[c].rater = u /\ call'[c].seen = deal[d].flags
        /\ \A b \in Callers : b # c => call'[b] = call[b]
        /\ UNCHANGED <<deal, rating, queue>>
    BY <1>0, <1>1 DEF Submit, Idle
  <2>2. u \in {Applicant[d], Responder[d]}
    BY <1>1 DEF Submit, MayRate
  <2>3. FlagsHaveRatings'
    <3>1. rating \subseteq rating'
      BY <2>1
    <3> QED
      BY <2>1, <3>1, BackedGrows DEF FlagsHaveRatings
  <2>4. WritersHaveRows' /\ CheckedParties' /\ DoneIsRated'
    BY <2>1, <2>2 DEF WritersHaveRows, CheckedParties, DoneIsRated
  <2>5. \A b \in Callers, e \in Deals, v \in Users :
          Writes(b, e, v)' => b # c /\ Writes(b, e, v)
    BY <2>1 DEF Writes
  <2>6. OneWriter'
    BY <2>5 DEF OneWriter
  <2>7. NotYetSaved'
    BY <2>1, <2>5 DEF NotYetSaved
  <2> QED
    BY <2>3, <2>4, <2>6, <2>7
<1>2. ASSUME NEW c \in Requests, InsertRow(c) PROVE Inv'
  <2> DEFINE d == call[c].deal
             u == call[c].rater
  <2>0. /\ call[c].pc = "checked" /\ call[c] # Idle /\ c \in Callers
        /\ d \in Deals /\ u \in Users /\ u \in {Applicant[d], Responder[d]}
        /\ UNCHANGED <<deal, queue>>
    BY <1>0, <1>2 DEF InsertRow, InCall, CheckedParties
  <2>1. CASE <<d, u>> \in rating
    <3>1. /\ call' = [call EXCEPT ![c] = Idle] /\ UNCHANGED rating
      BY <1>2, <2>1 DEF InsertRow
    <3> QED
      BY <1>0, <2>0, <3>1, DroppedCall
  <2>2. CASE <<d, u>> \notin rating
    <3>1. /\ rating' = rating \cup {<<d, u>>}
          /\ call' = [call EXCEPT ![c].pc = "inserted"]
      BY <1>2, <2>2 DEF InsertRow
    <3>2. /\ call'[c].pc = "inserted" /\ call'[c] # Idle
          /\ call'[c].deal = d /\ call'[c].rater = u /\ call'[c].seen = call[c].seen
          /\ \A b \in Callers : b # c => call'[b] = call[b]
      BY <1>0, <2>0, <3>1 DEF Idle
    <3>3. call[c].seen \in Flags /\ Backed(d, call[c].seen)
      BY <1>0, <2>0 DEF FlagsHaveRatings
    <3> HIDE DEF d, u
    <3> QED
      BY <1>0, <2>0, <2>2, <3>1, <3>2, <3>3, NewWriter DEF d
  <2> QED
    BY <2>1, <2>2
<1>3. ASSUME NEW c \in Requests, SaveFlags(c) PROVE Inv'
  <2>1. /\ Writes(c, call[c].deal, call[c].rater)
        /\ deal' = [deal EXCEPT ![call[c].deal].flags
                                  = WithRating(call[c].deal, call[c].rater, call[c].seen),
                                ![call[c].deal].old = FALSE]
        /\ call' = [call EXCEPT ![c] = Idle]
        /\ UNCHANGED <<rating, queue>>
    BY <1>3 DEF SaveFlags, InCall, Writes
  <2>2. /\ call[c].deal \in Deals
        /\ \A d \in Deals : queue'[d] = queue[d]
    BY <1>0, <2>1 DEF Writes
  <2>3. call[c].rater \in Users /\ c \in Callers /\ UNCHANGED rating
    BY <1>0, <2>1 DEF Writes
  <2>4. /\ deal'[call[c].deal].flags = WithRating(call[c].deal, call[c].rater, call[c].seen)
        /\ deal'[call[c].deal].status = deal[call[c].deal].status
        /\ \A e \in Deals : e # call[c].deal => deal'[e] = deal[e]
    BY <1>0, <2>1, <2>2 DEF DealRow
  <2> QED
    BY <2>1, <2>2, <2>3, <2>4, SavingWriter
<1>4. ASSUME StartJob PROVE Inv'
  <2>1. /\ UNCHANGED <<deal, rating, call>>
        /\ \A d \in Deals : queue'[d] # NotRead => queue'[d].flags = deal[d].flags
    BY <1>0, <1>4 DEF StartJob, NotRead
  <2>2. FlagsHaveRatings'
    BY <1>0, <2>1, BackedGrows DEF FlagsHaveRatings
  <2>3. NotYetSaved'
    BY <2>1 DEF NotYetSaved, Writes
  <2> QED
    BY <2>1, <2>2, <2>3 DEF WritersHaveRows, OneWriter, CheckedParties, DoneIsRated, Writes
<1>5. ASSUME NEW d \in Deals, SkipDeal(d) PROVE Inv'
  BY <1>0, <1>5, QueueDropped DEF SkipDeal
<1>6. ASSUME NEW d \in Deals, AutoRate(d) PROVE Inv'
  <2> DEFINE u == Pending(d)
  <2>1. /\ queue[d] # NotRead /\ call[Job] = Idle
        /\ <<d, u>> \notin rating /\ rating' = rating \cup {<<d, u>>}
        /\ call'[Job].pc = "inserted" /\ call'[Job] # Idle
        /\ call'[Job].deal = d /\ call'[Job].rater = u /\ call'[Job].seen = queue[d].flags
        /\ \A b \in Callers : b # Job => call'[b] = call[b]
        /\ UNCHANGED <<deal, queue>>
    BY <1>0, <1>6 DEF AutoRate, MustRate, IsNext, Idle
  <2>2. u \in {Applicant[d], Responder[d]} /\ u \in Users
    BY PartiesAssumption DEF Pending
  <2>3. Backed(d, queue[d].flags)
    BY <2>1 DEF FlagsHaveRatings
  <2> HIDE DEF u
  <2> QED
    BY <1>0, <2>1, <2>2, <2>3, NewWriter
<1>7. ASSUME AutoSave PROVE Inv'
  <2> DEFINE d == call[Job].deal
             flags == WithRating(d, call[Job].rater, call[Job].seen)
  <2>1. /\ Writes(Job, d, call[Job].rater)
        /\ deal' = [deal EXCEPT ![d].flags = flags, ![d].old = FALSE]
        /\ queue' = [queue EXCEPT ![d].flags = flags]
        /\ call' = [call EXCEPT ![Job] = Idle]
        /\ UNCHANGED rating
    BY <1>7 DEF AutoSave, InCall, Writes
  <2>2. d \in Deals
    BY <1>0, <2>1 DEF Writes
  <2>4. /\ call[Job].rater \in Users /\ Job \in Callers
        /\ flags = WithRating(d, call[Job].rater, call[Job].seen)
    BY <1>0, <2>1 DEF Writes
  <2> HIDE DEF flags
  <2>3. \A e \in Deals : \/ queue'[e] = queue[e]
                         \/ e = d /\ queue'[e].flags = flags
    <3>1. queue'[d] = [queue[d] EXCEPT !.flags = flags]
      BY <1>0, <2>1, <2>2
    <3>2. CASE queue[d] = NotRead
      <4>1. queue'[d] = NotRead
        BY <3>1, <3>2 DEF NotRead
      <4> QED
        BY <1>0, <2>1, <3>2, <4>1
    <3>3. CASE queue[d] # NotRead
      <4>1. queue'[d].flags = flags
        BY <1>0, <2>2, <3>1, <3>3 DEF Read
      <4> QED
        BY <1>0, <2>1, <4>1
    <3> QED
      BY <3>2, <3>3
  <2>5. /\ deal'[d].flags = flags /\ deal'[d].status = deal[d].status
        /\ \A e \in Deals : e # d => deal'[e] = deal[e]
        /\ UNCHANGED rating
    BY <1>0, <2>1, <2>2 DEF DealRow
  <2>6. Writes(Job, d, call[Job].rater) /\ call' = [call EXCEPT ![Job] = Idle]
    BY <2>1
  <2> HIDE DEF d
  <2> QED
    BY <2>2, <2>3, <2>4, <2>5, <2>6, SavingWriter
<1>8. ASSUME NEW d \in Deals, AbortJob(d) PROVE Inv'
  BY <1>0, <1>8, QueueDropped DEF AbortJob
<1>9. ASSUME NEW d \in Deals, ConfirmReturn(d) PROVE Inv'
  <2>1. /\ \A e \in Deals : deal'[e].flags = deal[e].flags
        /\ \A e \in Deals : e # d => deal'[e] = deal[e]
        /\ BothFlags(deal[d].flags)
        /\ UNCHANGED <<rating, call, queue>>
    BY <1>0, <1>9 DEF ConfirmReturn, DealRow
  <2>2. FlagsHaveRatings'
    BY <2>1, BackedGrows DEF FlagsHaveRatings
  <2>3. DoneIsRated'
    BY <2>1 DEF DoneIsRated
  <2>4. NotYetSaved'
    BY <2>1 DEF NotYetSaved, Writes
  <2> QED
    BY <2>1, <2>2, <2>3, <2>4 DEF WritersHaveRows, OneWriter, CheckedParties, Writes
<1>10. ASSUME NEW d \in Deals, ForceReturn(d) PROVE Inv'
  <2> DEFINE both == [applicant |-> TRUE, responder |-> TRUE]
  <2>1. /\ deal'[d].flags = both
        /\ \A e \in Deals : e # d => deal'[e] = deal[e]
        /\ rating' = rating \cup {<<d, u>> : u \in Missing(d)}
        /\ \A u \in Missing(d) : <<d, u>> \notin rating
        /\ UNCHANGED <<call, queue>>
    BY <1>0, <1>10 DEF ForceReturn
  <2>2. BothFlags(both)
    BY DEF BothFlags
  <2>3. Backed(d, both)'
    <3>1. Applicant[d] \in Users /\ Responder[d] \in Users
      BY PartiesAssumption
    <3>2. <<d, Applicant[d]>> \in rating'
      <4>1. CASE deal[d].flags.applicant
        BY <2>1, <4>1, Zenon DEF FlagsHaveRatings, Backed
      <4>2. CASE ~deal[d].flags.applicant
        BY <2>1, <3>1, <4>2, Zenon DEF Missing
      <4> QED
        BY <4>1, <4>2
    <3>3. <<d, Responder[d]>> \in rating'
      <4>1. CASE deal[d].flags.responder
        BY <2>1, <4>1, Zenon DEF FlagsHaveRatings, Backed
      <4>2. CASE ~deal[d].flags.responder
        BY <2>1, <3>1, <4>2, Zenon DEF Missing
      <4> QED
        BY <4>1, <4>2
    <3> QED
      BY <3>2, <3>3, Zenon DEF Backed
  <2>4. FlagsHaveRatings'
    BY <2>1, <2>3, BackedGrows DEF FlagsHaveRatings
  <2>5. \A c \in Callers, u \in Users : ~Writes(c, d, u)
    <3> SUFFICES ASSUME NEW c \in Callers, NEW u \in Users, Writes(c, d, u) PROVE FALSE
      OBVIOUS
    <3>1. /\ RaterFlag(d, u, deal[d].flags) = FALSE
          /\ u \in {Applicant[d], Responder[d]} /\ <<d, u>> \in rating
      BY DEF NotYetSaved, WritersHaveRows, Writes
    <3>2. u \in Missing(d)
      BY <3>1, Zenon DEF Missing, RaterFlag
    <3> QED
      BY <2>1, <3>1, <3>2
  <2> HIDE DEF both
  <2>6. DoneIsRated'
    BY <2>1, <2>2 DEF DoneIsRated
  <2>7. NotYetSaved'
    BY <2>1, <2>5 DEF NotYetSaved, Writes
  <2> QED
    BY <2>1, <2>4, <2>6, <2>7 DEF WritersHaveRows, OneWriter, CheckedParties, Writes
<1>11. ASSUME NEW c \in Callers, Crash(c) PROVE Inv'
  <2>1. /\ call' = [call EXCEPT ![c] = Idle]
        /\ \A d \in Deals : queue'[d] = queue[d] \/ queue'[d] = NotRead
        /\ UNCHANGED <<deal, rating>>
    BY <1>0, <1>11 DEF Crash
  <2> QED
    BY <1>0, <2>1, DroppedCall
<1>12. ASSUME NEW d \in Deals, TenDays(d) PROVE Inv'
  <2>1. /\ \A e \in Deals : /\ deal'[e].flags = deal[e].flags
                           /\ deal'[e].status = deal[e].status
        /\ UNCHANGED <<rating, call, queue>>
    BY <1>0, <1>12 DEF TenDays, DealRow
  <2>2. FlagsHaveRatings'
    BY <2>1, BackedGrows DEF FlagsHaveRatings
  <2>3. NotYetSaved'
    BY <2>1 DEF NotYetSaved, Writes
  <2> QED
    BY <2>1, <2>2, <2>3
    DEF WritersHaveRows, OneWriter, CheckedParties, DoneIsRated, Writes
<1>13. CASE UNCHANGED vars
  <2>1. UNCHANGED <<deal, rating, call, queue>>
    BY <1>13 DEF vars
  <2>2. FlagsHaveRatings'
    BY <2>1, BackedGrows DEF FlagsHaveRatings
  <2> QED
    BY <2>1, <2>2
    DEF WritersHaveRows, OneWriter, CheckedParties, NotYetSaved, DoneIsRated, Writes
<1> QED
  BY <1>1, <1>2, <1>3, <1>4, <1>5, <1>6, <1>7, <1>8, <1>9, <1>10, <1>11, <1>12, <1>13
  DEF Next

\* Flags, ratings, calls under way and the job's queue keep their types.
THEOREM TypeCorrect == Spec => []TypeOK
BY InitTyped, NextTyped, PTL DEF Spec

\* No order of overlapping calls, saves, crashes and forced returns sets the
\* flag of somebody whose rating is not in the table.
THEOREM FlagsAreBacked == Spec => []FlagsHaveRatings
BY InitTyped, NextTyped, InitInv, NextInv, PTL DEF Spec, Inv

\* A deal is closed only with both flags set, and no call that was under way
\* then reopens it or takes a flag back.
THEOREM DoneDealsStayRated == Spec => DoneStaysRated
<1>1. TypeOK /\ Inv /\ Inv' /\ [Next]_vars =>
        [\A d \in Deals :
           /\ deal'[d].status = "D" => BothFlags(deal'[d].flags)
           /\ deal[d].status = "D" => deal'[d].status = "D"]_vars
  <2> SUFFICES ASSUME TypeOK, Inv, Inv', [Next]_vars, NEW d \in Deals
               PROVE  /\ deal'[d].status = "D" => BothFlags(deal'[d].flags)
                      /\ deal[d].status = "D" => deal'[d].status = "D"
    OBVIOUS
  <2>1. deal'[d].status = "D" => BothFlags(deal'[d].flags)
    BY DEF Inv, DoneIsRated
  <2>2. deal[d].status = "D" => deal'[d].status = "D"
    <3>1. \A e \in Deals : DOMAIN deal = Deals /\ deal[e] \in DealRow
      BY DEF TypeOK
    <3>2. ASSUME NEW c \in Requests, SaveFlags(c) PROVE deal'[d].status = deal[d].status
      BY <3>1, <3>2 DEF SaveFlags, DealRow
    <3>3. CASE AutoSave
      BY <3>1, <3>3 DEF AutoSave, DealRow
    <3>4. ASSUME NEW e \in Deals, ConfirmReturn(e) \/ ForceReturn(e)
          PROVE  deal'[d].status = "D" \/ deal'[d] = deal[d]
      BY <3>1, <3>4 DEF ConfirmReturn, ForceReturn, DealRow
    <3>5. ASSUME NEW e \in Deals, TenDays(e) PROVE deal'[d].status = deal[d].status
      BY <3>1, <3>5 DEF TenDays, DealRow
    <3>6. CASE deal' = deal
      BY <3>6
    <3> QED
      BY <3>2, <3>3, <3>4, <3>5, <3>6
      DEF Next, vars, Submit, InsertRow, StartJob, SkipDeal, AutoRate, AbortJob, Crash
  <2> QED
    BY <2>1, <2>2
<1> QED
  BY <1>1, InitTyped, NextTyped, InitInv, NextInv, PTL DEF Spec, DoneStaysRated
=============================================================================
