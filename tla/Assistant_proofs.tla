-------------------------- MODULE Assistant_proofs --------------------------
(***************************************************************************)
(* Assistant: type correctness, turns exclude each other, a consent is     *)
(* spent once, what was shown is kept; for any number of requests and any  *)
(* times and lengths that satisfy AssistantAssumption.                     *)
(***************************************************************************)
EXTENDS Assistant, TLAPS, FiniteSetTheorems, SequenceTheorems

\* What is written back is a conversation of the allowed length.
LEMMA TrimFits ==
  ASSUME NEW s \in Seq(Message)
  PROVE  Trim(s) \in Conversation
<1>. DEFINE window == (Len(s) - MaxMessages + 1)..Len(s)
            kept == {i \in window : \E j \in window : j <= i /\ s[j].kind = "ask"}
            n == Cardinality(kept)
<1>1. Len(s) \in Nat /\ MaxMessages \in Nat
  BY LenProperties, AssistantAssumption
<1>2. CASE Len(s) <= MaxMessages
  BY <1>2 DEF Trim, Conversation
<1>3. CASE ~(Len(s) <= MaxMessages)
  <2>1. IsFiniteSet(window) /\ Cardinality(window) = MaxMessages
    BY <1>1, <1>3, FS_Interval
  <2>2. n \in Nat /\ n <= MaxMessages
    BY <2>1, FS_Subset, FS_CardinalityType
  <2>3. Trim(s) = SubSeq(s, Len(s) - n + 1, Len(s))
    BY <1>3 DEF Trim
  <2>. HIDE DEF n
  <2>4. \A i \in (Len(s) - n + 1)..Len(s) : s[i] \in Message
    BY <1>1, <1>3, <2>2, LenProperties
  <2>5. /\ SubSeq(s, Len(s) - n + 1, Len(s)) \in Seq(Message)
        /\ Len(SubSeq(s, Len(s) - n + 1, Len(s))) = IF n = 0 THEN 0 ELSE n
    BY <1>1, <2>2, <2>4, SubSeqProperties
  <2>. QED
    BY <1>1, <2>2, <2>3, <2>5 DEF Conversation
<1>. QED
  BY <1>2, <1>3

-----------------------------------------------------------------------------
(* Types *)

\* While a round's results are stored and shown, the round still counts.
RoundsLeft ==
  \A t \in Turns : turn[t].at \in {"data", "noting", "show"} => turn[t].round < MaxToolRounds

LEMMA InitTyped == Init => TypeOK
BY AssistantAssumption, EmptySeq
   DEF Init, TypeOK, At, TurnRow, Token, ReplyRow, Conversation, Stages

\* A writer keeps the conversation and the copies typed.
LEMMA LoadTyped ==
  ASSUME TypeOK, NEW w \in Turns \cup Replies, Load(w)
  PROVE  conv' \in Conversation /\ copy' \in [Turns \cup Replies -> Conversation]
BY DEF TypeOK, Load

LEMMA NothingIsShort == <<>> \in Conversation
BY AssistantAssumption, EmptySeq DEF Conversation

LEMMA StoreTyped ==
  ASSUME TypeOK, NEW w \in Turns \cup Replies, NEW messages \in Seq(Message),
         Store(w, messages)
  PROVE  conv' \in Conversation /\ copy' \in [Turns \cup Replies -> Conversation]
<1>1. copy[w] \in Seq(Message)
  BY DEF TypeOK, Conversation
<1>2. copy[w] \o messages \in Seq(Message)
  BY <1>1, ConcatProperties
<1>. QED
  BY <1>2, TrimFits, NothingIsShort DEF TypeOK, Store

LEMMA EntryTyped ==
  ASSUME NEW t \in Turns, NEW r \in Nat, NEW kind \in {"ask", "marker", "data", "answer", "note"}
  PROVE  Entry(kind, t, r) \in Message
BY DEF Entry, Message

\* The stages of a turn.
LEMMA GoTyped ==
  ASSUME TypeOK, NEW t \in Turns, NEW at \in Stages, Go(t, at)
  PROVE  turn' \in [Turns -> TurnRow]
BY DEF TypeOK, Go, TurnRow

LEMMA FinishTyped ==
  ASSUME TypeOK, NEW t \in Turns, Finish(t)
  PROVE  turn' \in [Turns -> TurnRow]
BY AssistantAssumption DEF TypeOK, Finish, At, TurnRow, Stages

LEMMA DisturbTyped ==
  ASSUME TypeOK, Disturb
  PROVE  turn' \in [Turns -> TurnRow]
BY DEF TypeOK, Disturb, TurnRow

LEMMA ReplyGoesTyped ==
  ASSUME TypeOK, NEW c \in Replies,
         reply[c].at \notin {"new", "done"},
         NEW at \in {"sent", "claimed", "found", "run", "note", "noting"}, ReplyGoes(c, at)
  PROVE  reply' \in [Replies -> ReplyRow]
<1>1. reply[c] \in [at : {"sent", "claimed", "found", "run", "note", "noting"}, of : Turns, yes : BOOLEAN]
  BY DEF TypeOK, ReplyRow
<1>2. [reply[c] EXCEPT !.at = at] \in ReplyRow
  BY <1>1 DEF ReplyRow
<1>. QED
  BY <1>2 DEF TypeOK, ReplyGoes

LEMMA ReplyEndsTyped ==
  ASSUME TypeOK, NEW c \in Replies, ReplyEnds(c)
  PROVE  reply' \in [Replies -> ReplyRow]
<1>1. [at |-> "done"] \in ReplyRow
  BY DEF ReplyRow
<1>. QED
  BY <1>1 DEF TypeOK, ReplyEnds

\* One of the two steps of a store of a turn.
LEMMA StepFromTyped ==
  ASSUME TypeOK, NEW t \in Turns, NEW from, from[2] \in Stages, NEW to \in Stages,
         NEW messages \in Seq(Message), StepFrom(t, from, to, messages)
  PROVE  /\ turn' \in [Turns -> TurnRow]
         /\ conv' \in Conversation /\ copy' \in [Turns \cup Replies -> Conversation]
<1>1. CASE Go(t, from[2]) /\ Load(t)
  BY <1>1, GoTyped, LoadTyped
<1>2. CASE Go(t, to) /\ Store(t, messages)
  BY <1>2, GoTyped, StoreTyped
<1>. QED
  BY <1>1, <1>2 DEF StepFrom

LEMMA StagesListed ==
  {"locked", "begun", "round", "think", "call", "show", "emit", "done", "ask", "asking",
   "data", "noting", "answer", "closing"} \subseteq Stages
BY DEF Stages, Storing

LEMMA ProceedTyped ==
  ASSUME TypeOK, RoundsLeft, NEW t \in Turns, Proceed(t)
  PROVE  TypeOK'
<1>. USE DEF TypeOK
<1>0. /\ turn[t] \in TurnRow /\ consent[t] \in Token /\ LockTTL \in Nat /\ ConsentTTL \in Nat
      /\ MaxToolRounds \in Nat /\ RateLimit \in Nat
  BY AssistantAssumption
<1>1. CASE HitRateLimit(t)
  <2>1. hits' \in 0..(RateLimit + 1)
    <3>1. \A a, b \in Nat : Min({a, b}) = IF a <= b THEN a ELSE b
      BY DEF Min
    <3>. QED
      BY <1>0, <1>1, <3>1 DEF HitRateLimit
  <2>2. turn' \in [Turns -> TurnRow] /\ lock' \in 0..LockTTL
    BY <1>0, <1>1, GoTyped, FinishTyped, StagesListed DEF HitRateLimit
  <2>. QED
    BY <1>1, <2>1, <2>2 DEF HitRateLimit
<1>2. CASE Start(t)
  BY <1>2, GoTyped, StagesListed DEF Start, Unguarded
<1>3. CASE StoreAsk(t)
  <2>1. <<Ask(t)>> \in Seq(Message)
    BY EntryTyped DEF Ask
  <2>. QED
    BY <1>3, <2>1, StepFromTyped, StagesListed DEF StoreAsk, Unguarded
<1>4. CASE CheckDeadline(t)
  BY <1>4, GoTyped, StagesListed DEF CheckDeadline, Unguarded
<1>5. CASE CallModel(t)
  <2>1. [turn[t] EXCEPT !.at = "call", !.phase = 0] \in TurnRow
    BY <1>0, StagesListed DEF TurnRow
  <2>. QED
    BY <1>5, <2>1 DEF CallModel, Unguarded
<1>6. CASE ModelAnswers(t)
  <2>1. [turn[t] EXCEPT !.at = "answer", !.phase = 0] \in TurnRow
    BY <1>0, StagesListed DEF TurnRow
  <2>. QED
    BY <1>6, <2>1 DEF ModelAnswers, Unguarded
<1>7. ASSUME NEW fed \in BOOLEAN, NEW asks \in BOOLEAN, ModelCallsTools(t, fed, asks)
      PROVE  TypeOK'
  <2>1. turn' \in [Turns -> TurnRow]
    <3>. DEFINE at == IF fed THEN "data" ELSE "show"
                rounds == IF fed THEN turn[t].fed \cup {turn[t].round} ELSE turn[t].fed
    <3>1. turn[t].fed \in SUBSET Nat /\ turn[t].round \in Nat
      BY <1>0 DEF TurnRow
    <3>2. at \in Stages /\ rounds \in SUBSET Nat
      BY <3>1, StagesListed
    <3>3. [turn[t] EXCEPT !.at = at, !.fed = rounds, !.phase = 0] \in TurnRow
      BY <1>0, <3>2 DEF TurnRow
    <3>. QED
      BY <1>7, <3>3 DEF ModelCallsTools
  <2>2. [consent[t] EXCEPT !.at = "made", !.left = ConsentTTL] \in Token
    <3>1. ConsentTTL \in 0..ConsentTTL
      BY <1>0
    <3>. QED
      BY <1>0, <3>1 DEF Token
  <2>3. consent' \in [Turns -> Token]
    <3>1. \/ consent' = [consent EXCEPT ![t].at = "made", ![t].left = ConsentTTL]
          \/ consent' = consent
      BY <1>7 DEF ModelCallsTools
    <3>. QED
      BY <2>2, <3>1
  <2>. QED
    BY <1>7, <2>1, <2>3 DEF ModelCallsTools, Unguarded
<1>8. CASE StoreData(t)
  <2>. DEFINE r == turn[t].round
  <2>1. r \in Nat
    BY <1>0 DEF TurnRow
  <2>2. <<Entry("marker", t, r), Data(t, r)>> \in Seq(Message)
    BY <2>1, EntryTyped DEF Data
  <2>. QED
    BY <1>8, <2>2, StepFromTyped, StagesListed DEF StoreData, Unguarded
<1>9. CASE ShowFrames(t)
  <2>. DEFINE at == IF consent[t].at = "made" THEN "answer" ELSE "round"
  <2>1. turn[t].round + 1 \in 0..MaxToolRounds
    BY <1>0, <1>9 DEF ShowFrames, RoundsLeft, TurnRow
  <2>2. at \in Stages
    BY StagesListed
  <2>3. [turn[t] EXCEPT !.at = at, !.round = turn[t].round + 1] \in TurnRow
    BY <1>0, <2>1, <2>2 DEF TurnRow
  <2>4. [consent[t] EXCEPT !.at = IF consent[t].at = "made" THEN "shown" ELSE consent[t].at] \in Token
    BY <1>0 DEF Token
  <2>. QED
    BY <1>9, <2>3, <2>4 DEF ShowFrames, Unguarded
<1>10. CASE StoreAnswer(t)
  <2>1. <<Entry("answer", t, 0)>> \in Seq(Message)
    BY EntryTyped
  <2>. QED
    BY <1>10, <2>1, StepFromTyped, StagesListed DEF StoreAnswer, Unguarded
<1>11. CASE Emit(t)
  BY <1>0, <1>11, FinishTyped DEF Emit, EndTurn
<1>. QED
  BY <1>1, <1>2, <1>3, <1>4, <1>5, <1>6, <1>7, <1>8, <1>9, <1>10, <1>11 DEF Proceed

LEMMA NextTyped ==
  ASSUME TypeOK, RoundsLeft, [Next]_vars
  PROVE  TypeOK'
<1>. USE DEF TypeOK
<1>0. LockTTL \in Nat /\ ConsentTTL \in Nat /\ RateLimit \in Nat
  BY AssistantAssumption
<1>1. ASSUME NEW t \in Turns, BeginTurn(t)
      PROVE  TypeOK'
  <2>1. At("locked") \in TurnRow
    BY AssistantAssumption DEF At, TurnRow, Stages
  <2>. QED
    BY <1>0, <1>1, <2>1, FinishTyped DEF BeginTurn
<1>2. ASSUME NEW t \in Turns, Disconnect(t)
      PROVE  TypeOK'
  BY <1>0, <1>2, FinishTyped DEF Disconnect, EndTurn
<1>3. ASSUME NEW t \in Turns, Crash(t)
      PROVE  TypeOK'
  BY <1>3, FinishTyped, NothingIsShort DEF Crash
<1>4. ASSUME NEW c \in Replies, NEW t \in Turns, NEW yes \in BOOLEAN, Reply(c, t, yes)
      PROVE  TypeOK'
  <2>1. [at |-> "sent", of |-> t, yes |-> yes] \in ReplyRow
    BY DEF ReplyRow
  <2>. QED
    BY <1>4, <2>1 DEF Reply, Apart
<1>5. ASSUME NEW c \in Replies, Claim(c)
      PROVE  TypeOK'
  <2>1. reply[c].at = "sent"
    BY <1>5 DEF Claim
  <2>2. reply' \in [Replies -> ReplyRow]
    BY <1>5, <2>1, ReplyGoesTyped, ReplyEndsTyped DEF Claim
  <2>3. reply[c].of \in Turns
    BY <2>1 DEF ReplyRow
  <2>4. [consent[reply[c].of] EXCEPT !.claim = ConsentTTL] \in Token
    BY <1>0, <2>3 DEF Token
  <2>. QED
    BY <1>5, <2>2, <2>3, <2>4 DEF Claim, Apart
<1>6. ASSUME NEW c \in Replies, Fetch(c)
      PROVE  TypeOK'
  BY <1>6, ReplyGoesTyped, ReplyEndsTyped DEF Fetch, Apart
<1>7. ASSUME NEW c \in Replies, Discard(c)
      PROVE  TypeOK'
  <2>1. reply[c].at = "found" /\ reply[c].of \in Turns
    BY <1>7 DEF Discard, ReplyRow
  <2>2. reply' \in [Replies -> ReplyRow]
    BY <1>7, <2>1, ReplyGoesTyped DEF Discard
  <2>3. [consent[reply[c].of] EXCEPT !.left = 0] \in Token
    BY <1>0, <2>1 DEF Token
  <2>. QED
    BY <1>7, <2>2, <2>3 DEF Discard, Apart
<1>8. ASSUME NEW c \in Replies, RunTool(c)
      PROVE  TypeOK'
  <2>1. reply[c].at = "run" /\ reply[c].of \in Turns
    BY <1>8 DEF RunTool, ReplyRow
  <2>2. reply' \in [Replies -> ReplyRow]
    BY <1>8, <2>1, ReplyGoesTyped, ReplyEndsTyped DEF RunTool
  <2>3. [consent[reply[c].of] EXCEPT !.runs = @ + 1] \in Token
    BY <2>1 DEF Token
  <2>. QED
    BY <1>8, <2>2, <2>3 DEF RunTool, Apart
<1>9. ASSUME NEW c \in Replies, StoreNote(c)
      PROVE  TypeOK'
  <2>1. CASE reply[c].at = "note" /\ ReplyGoes(c, "noting") /\ Load(c)
             /\ Apart /\ UNCHANGED consent
    BY <2>1, ReplyGoesTyped, LoadTyped DEF Apart
  <2>2. CASE reply[c].at = "noting" /\ ReplyEnds(c) /\ Store(c, <<Note(reply[c].of)>>)
             /\ Disturb /\ UNCHANGED <<lock, hits, consent>>
    <3>1. reply[c].of \in Turns
      BY <2>2 DEF ReplyRow
    <3>2. <<Note(reply[c].of)>> \in Seq(Message)
      BY <3>1, EntryTyped DEF Note
    <3>. QED
      BY <2>2, <3>2, ReplyEndsTyped, StoreTyped, DisturbTyped
  <2>. QED
    BY <1>9, <2>1, <2>2 DEF StoreNote
<1>10. ASSUME NEW c \in Replies, CrashReply(c)
       PROVE  TypeOK'
  BY <1>10, ReplyEndsTyped, NothingIsShort DEF CrashReply, Apart
<1>11. CASE NewMinute
  BY <1>0, <1>11 DEF NewMinute
<1>12. CASE ClearHistory
  BY <1>12, DisturbTyped, NothingIsShort DEF ClearHistory
<1>13. CASE Tick
  <2>1. \A m \in Nat : \A n \in 0..m : Less(n) \in 0..m
    BY DEF Less
  <2>2. lock' \in 0..LockTTL
    BY <1>0, <1>13, <2>1 DEF Tick
  <2>3. ASSUME NEW t \in Turns
        PROVE  turn'[t] \in TurnRow
    <3>1. turn[t] \in TurnRow /\ turn[t].age \in Nat
      BY DEF TurnRow
    <3>. DEFINE a == IF Started(t) THEN turn[t].age + 1 ELSE turn[t].age
    <3>2. a \in Nat /\ turn[t].phase + 1 \in Nat
      BY <3>1 DEF TurnRow
    <3>3. turn'[t] = IF ~Live(t) THEN turn[t]
                     ELSE [turn[t] EXCEPT !.phase = turn[t].phase + 1, !.age = a]
      BY <1>13 DEF Tick
    <3>. HIDE DEF a
    <3>4. [turn[t] EXCEPT !.phase = turn[t].phase + 1, !.age = a] \in TurnRow
      BY <3>1, <3>2 DEF TurnRow
    <3>. QED
      BY <3>1, <3>3, <3>4
  <2>4. ASSUME NEW t \in Turns
        PROVE  consent'[t] \in Token
    <3>1. consent[t] \in Token
      OBVIOUS
    <3>2. Less(consent[t].left) \in 0..ConsentTTL /\ Less(consent[t].claim) \in 0..ConsentTTL
      BY <1>0, <2>1, <3>1 DEF Token
    <3>3. consent'[t] = [consent[t] EXCEPT !.left = Less(consent[t].left),
                                           !.claim = Less(consent[t].claim)]
      BY <1>13 DEF Tick
    <3>. QED
      BY <3>1, <3>2, <3>3 DEF Token
  <2>5. turn' \in [Turns -> TurnRow] /\ consent' \in [Turns -> Token]
    BY <1>13, <2>3, <2>4 DEF Tick
  <2>. QED
    BY <1>13, <2>2, <2>5 DEF Tick
<1>14. CASE UNCHANGED vars
  BY <1>14 DEF vars
<1>. QED
  BY <1>1, <1>2, <1>3, <1>4, <1>5, <1>6, <1>7, <1>8, <1>9, <1>10, <1>11, <1>12, <1>13,
     <1>14, ProceedTyped DEF Next

\* The rows after the two ways of moving a turn.
LEMMA GoRow ==
  ASSUME TypeOK, NEW t \in Turns, NEW at, Go(t, at), NEW x \in Turns
  PROVE  /\ x # t => turn'[x] = turn[x]
         /\ turn'[t].at = at /\ turn'[t].round = turn[t].round
         /\ turn'[t].age = turn[t].age /\ turn'[t].phase = turn[t].phase
BY DEF TypeOK, Go, TurnRow

LEMMA FinishRow ==
  ASSUME TypeOK, NEW t \in Turns, Finish(t), NEW x \in Turns
  PROVE  /\ x # t => turn'[x] = turn[x]
         /\ turn'[t].at = "done"
BY DEF TypeOK, Finish, At

\* A note or a cleared history leaves a turn where it is; so does time.
LEMMA DisturbRow ==
  ASSUME TypeOK, Disturb \/ Tick, NEW x \in Turns
  PROVE  turn'[x].at = turn[x].at /\ turn'[x].round = turn[x].round
<1>1. turn[x] \in TurnRow
  BY DEF TypeOK
<1>2. CASE Disturb
  BY <1>1, <1>2 DEF Disturb, TurnRow
<1>3. CASE Tick
  BY <1>1, <1>3 DEF Tick, TurnRow
<1>. QED
  BY <1>2, <1>3

LEMMA RoundsKept ==
  ASSUME TypeOK, RoundsLeft, [Next]_vars
  PROVE  RoundsLeft'
<1>. SUFFICES ASSUME NEW x \in Turns, turn'[x].at \in {"data", "noting", "show"}
              PROVE  turn'[x].round < MaxToolRounds
  BY DEF RoundsLeft
<1>. DEFINE Stays == turn'[x].at = turn[x].at /\ turn'[x].round = turn[x].round
            Counts == turn[x].round < MaxToolRounds /\ turn'[x].round = turn[x].round
<1>0. turn[x] \in TurnRow /\ turn \in [Turns -> TurnRow]
  BY DEF TypeOK
<1>1. Stays => Counts
  BY DEF RoundsLeft
<1>5. ASSUME NEW t \in Turns, BeginTurn(t) \/ Disconnect(t) \/ Crash(t)
      PROVE  Stays
  <2>1. turn' = [turn EXCEPT ![t] = At("locked")] \/ Finish(t)
    BY <1>5 DEF BeginTurn, Disconnect, EndTurn, Crash
  <2>. QED
    BY <1>0, <2>1, FinishRow DEF At
<1>6. ASSUME NEW t \in Turns, Proceed(t)
      PROVE  Stays \/ Counts
  <2>1. CASE HitRateLimit(t) \/ Start(t) \/ CheckDeadline(t) \/ Emit(t)
    <3>1. Go(t, "begun") \/ Go(t, "ask") \/ Go(t, "answer") \/ Go(t, "think") \/ Finish(t)
      BY <2>1 DEF HitRateLimit, Start, CheckDeadline, Emit, EndTurn
    <3>. QED
      BY <3>1, GoRow, FinishRow
  <2>2. CASE StoreAsk(t) \/ StoreAnswer(t)
    BY <1>0, <2>2 DEF StoreAsk, StoreAnswer, StepFrom, Go, TurnRow
  <2>3. CASE StoreData(t)
    BY <1>0, <2>3 DEF StoreData, StepFrom, Go, TurnRow, RoundsLeft
  <2>4. ASSUME NEW fed \in BOOLEAN, NEW asks \in BOOLEAN, ModelCallsTools(t, fed, asks)
        PROVE  Stays \/ Counts
    BY <1>0, <2>4 DEF ModelCallsTools, TurnRow
  <2>5. CASE ShowFrames(t) \/ CallModel(t) \/ ModelAnswers(t)
    BY <1>0, <2>5 DEF ShowFrames, CallModel, ModelAnswers, TurnRow
  <2>. QED
    BY <1>6, <2>1, <2>2, <2>3, <2>4, <2>5 DEF Proceed
<1>7. ASSUME Disturb \/ Tick \/ UNCHANGED turn
      PROVE  Stays
  BY <1>7, DisturbRow
<1>8. ASSUME NEW c \in Replies, StoreNote(c)
      PROVE  Stays
  BY <1>7, <1>8 DEF StoreNote, Apart
<1>. QED
  BY <1>1, <1>5, <1>6, <1>7, <1>8
     DEF Next, Reply, Claim, Fetch, Discard, RunTool, CrashReply, Apart, NewMinute,
         ClearHistory, vars

\* Every table keeps its types, the conversation its length and a turn its
\* number of tool rounds (TypeOK), for any requests, limits and times.
THEOREM TypeCorrect == Spec => []TypeOK
<1>1. Init => TypeOK /\ RoundsLeft
  BY InitTyped DEF Init, RoundsLeft, At
<1>2. TypeOK /\ RoundsLeft /\ [Next]_vars => TypeOK' /\ RoundsLeft'
  BY NextTyped, RoundsKept
<1>. QED
  BY <1>1, <1>2, PTL DEF Spec

-----------------------------------------------------------------------------
(* One turn at a time *)

\* How far the lease of a running turn and its clock may have got.  Before the
\* stream is started its clock stands still, and the lock only loses what the
\* phase has gained.  Then the age grows while the lock shrinks, and every
\* call begins at an age within the deadline.
OnTime(r, l) ==
  /\ r.phase <= (IF r.at = "call" THEN CallTimeout ELSE Slack)
  /\ IF r.at \in {"locked", "begun"}
     THEN r.age = 0 /\ l + r.phase >= LockTTL
     ELSE /\ l + r.age + Slack >= LockTTL
          /\ r.age <= r.phase + TurnDeadline
                 + (IF r.at = "think" THEN 0
                    ELSE IF r.at = "call" THEN Slack ELSE Slack + CallTimeout)

Lease == TurnsExclusive /\ \A t \in Turns : Live(t) => OnTime(turn[t], lock)

\* The lock of a running turn has not expired.
LEMMA LeaseHolds ==
  ASSUME TypeOK, Lease, NEW t \in Turns, Live(t)
  PROVE  lock > 0
<1>1. turn[t] \in TurnRow /\ lock \in Nat
  BY DEF TypeOK
<1>2. OnTime(turn[t], lock)
  BY DEF Lease
<1>. QED
  BY <1>1, <1>2, AssistantAssumption DEF OnTime, TurnRow

\* A step of the running turn, or of the turn that takes a free lock.
LEMMA OneMoves ==
  ASSUME TypeOK, Lease, NEW t \in Turns, Live(t) \/ lock = 0,
         \A x \in Turns \ {t} : turn'[x] = turn[x],
         Live(t)' => OnTime(turn'[t], lock')
  PROVE  Lease'
<1>1. ASSUME NEW x \in Turns, Live(x)'
      PROVE  x = t
  <2>1. x # t => Live(x)
    BY <1>1 DEF Live
  <2>. QED
    BY <2>1, LeaseHolds DEF Lease, TurnsExclusive
<1>. QED
  BY <1>1 DEF Lease, TurnsExclusive

\* A step that leaves the running turn and its lock alone.
LEMMA NoneMoves ==
  ASSUME Lease, lock' = lock,
         \A x \in Turns : Live(x)' => /\ turn'[x].at = turn[x].at
                                     /\ turn'[x].age = turn[x].age
                                     /\ turn'[x].phase = turn[x].phase
  PROVE  Lease'
<1>1. \A x \in Turns : Live(x)' => Live(x)
  BY DEF Live
<1>2. \A x \in Turns : Live(x)' => OnTime(turn'[x], lock')
  BY <1>1 DEF Lease, OnTime
<1>. QED
  BY <1>1, <1>2 DEF Lease, TurnsExclusive

LEMMA ProceedOnTime ==
  ASSUME TypeOK, Lease, NEW t \in Turns, Proceed(t)
  PROVE  Lease'
<1>0. /\ turn[t] \in TurnRow /\ lock \in Nat
      /\ TurnDeadline \in Nat /\ CallTimeout \in Nat /\ Slack \in Nat /\ LockTTL \in Nat
  BY AssistantAssumption DEF TypeOK
<1>1. Live(t)
  BY DEF Proceed, HitRateLimit, Start, StoreAsk, CheckDeadline, CallModel, ModelAnswers,
         ModelCallsTools, StoreData, StepFrom, ShowFrames, StoreAnswer, Emit, Live
<1>2. OnTime(turn[t], lock)
  BY <1>1 DEF Lease
<1>. DEFINE Others == \A x \in Turns \ {t} : turn'[x] = turn[x]
            Timely == Live(t)' => OnTime(turn'[t], lock')
<1>. SUFFICES Others /\ Timely
  BY <1>1, OneMoves
<1>3. CASE HitRateLimit(t)
  <2>1. CASE Finish(t)
    BY <2>1, FinishRow DEF Live
  <2>2. CASE Go(t, "begun") /\ lock' = lock
    <3>1. turn[t].at = "locked"
      BY <1>3 DEF HitRateLimit
    <3>. QED
      BY <1>0, <1>2, <2>2, <3>1, GoRow DEF OnTime
  <2>. QED
    BY <1>3, <2>1, <2>2 DEF HitRateLimit
<1>4. CASE Start(t)
  <2>1. turn[t].at = "begun" /\ Go(t, "ask") /\ lock' = lock
    BY <1>4 DEF Start, Unguarded
  <2>. QED
    BY <1>0, <1>2, <2>1, GoRow DEF OnTime, TurnRow
<1>5. CASE StoreAsk(t) \/ StoreAnswer(t) \/ StoreData(t)
  <2>1. /\ turn[t].at \in Storing /\ lock' = lock
        /\ \E at \in Storing \cup {"round", "show", "emit"} : Go(t, at)
    BY <1>5 DEF StoreAsk, StoreAnswer, StoreData, StepFrom, Unguarded, Storing
  <2>2. PICK at \in Storing \cup {"round", "show", "emit"} : Go(t, at)
    BY <2>1
  <2>. QED
    BY <1>0, <1>2, <2>1, <2>2, GoRow DEF OnTime, TurnRow, Storing
<1>6. CASE CheckDeadline(t)
  <2>1. turn[t].at = "round" /\ lock' = lock
    BY <1>6 DEF CheckDeadline, Unguarded
  <2>2. \/ turn[t].age > TurnDeadline /\ Go(t, "answer")
        \/ ~(turn[t].age > TurnDeadline) /\ Go(t, "think")
    BY <1>6 DEF CheckDeadline
  <2>. QED
    BY <1>0, <1>2, <2>1, <2>2, GoRow DEF OnTime, TurnRow
<1>7. CASE CallModel(t)
  BY <1>0, <1>2, <1>7 DEF CallModel, Unguarded, OnTime, TurnRow, TypeOK
<1>8. CASE ModelAnswers(t)
  BY <1>0, <1>2, <1>8 DEF ModelAnswers, Unguarded, OnTime, TurnRow, TypeOK
<1>9. ASSUME NEW fed \in BOOLEAN, NEW asks \in BOOLEAN, ModelCallsTools(t, fed, asks)
      PROVE  Others /\ Timely
  BY <1>0, <1>2, <1>9 DEF ModelCallsTools, Unguarded, OnTime, TurnRow, TypeOK
<1>10. CASE ShowFrames(t)
  BY <1>0, <1>2, <1>10 DEF ShowFrames, Unguarded, OnTime, TurnRow, TypeOK
<1>11. CASE Emit(t)
  BY <1>11, FinishRow DEF Emit, EndTurn, Live
<1>. QED
  BY <1>3, <1>4, <1>5, <1>6, <1>7, <1>8, <1>9, <1>10, <1>11 DEF Proceed

LEMMA LeaseKept ==
  ASSUME TypeOK, Lease, [Next]_vars
  PROVE  Lease'
<1>1. ASSUME NEW t \in Turns, BeginTurn(t)
      PROVE  Lease'
  <2>1. CASE lock = 0 /\ lock' = LockTTL /\ turn' = [turn EXCEPT ![t] = At("locked")]
    <3>1. turn'[t] = At("locked") /\ \A x \in Turns \ {t} : turn'[x] = turn[x]
      BY <2>1 DEF TypeOK
    <3>2. OnTime(turn'[t], lock')
      BY <2>1, <3>1, AssistantAssumption DEF At, OnTime
    <3>. QED
      BY <2>1, <3>1, <3>2, OneMoves
  <2>2. CASE lock' = lock /\ Finish(t)
    BY <2>2, FinishRow, NoneMoves DEF Live
  <2>. QED
    BY <1>1, <2>1, <2>2 DEF BeginTurn
<1>2. ASSUME NEW t \in Turns, Disconnect(t) \/ Crash(t)
      PROVE  Lease'
  <2>1. Live(t) /\ Finish(t)
    BY <1>2 DEF Disconnect, EndTurn, Crash, Live
  <2>. QED
    BY <2>1, FinishRow, OneMoves DEF Live
<1>3. CASE Disturb /\ lock' = lock
  <2>1. \A x \in Turns : /\ turn'[x].at = turn[x].at /\ turn'[x].age = turn[x].age
                         /\ turn'[x].phase = turn[x].phase
    BY <1>3 DEF Disturb, TypeOK, TurnRow
  <2>. QED
    BY <1>3, <2>1, NoneMoves
<1>4. CASE UNCHANGED <<turn, lock>>
  BY <1>4, NoneMoves
<1>5. CASE Tick
  <2>1. ASSUME NEW x \in Turns
        PROVE  /\ Live(x)' <=> Live(x)
               /\ Live(x) => OnTime(turn'[x], lock')
    <3>1. turn[x] \in TurnRow
      BY DEF TypeOK
    <3>2. Live(x)' <=> Live(x)
      BY <1>5, <3>1, DisturbRow DEF Live
    <3>3. ASSUME Live(x)
          PROVE  OnTime(turn'[x], lock')
      <4>1. /\ OnTime(turn[x], lock) /\ InTime(x) /\ lock > 0
        BY <1>5, <3>3, LeaseHolds DEF Lease, Tick
      <4>2. lock \in Nat /\ lock' = lock - 1
        <5>1. lock \in Nat
          BY DEF TypeOK
        <5>2. lock' = Less(lock)
          BY <1>5 DEF Tick
        <5>. QED
          BY <4>1, <5>1, <5>2 DEF Less
      <4>3. /\ turn'[x].at = turn[x].at /\ turn'[x].phase = turn[x].phase + 1
            /\ Started(x) => turn'[x].age = turn[x].age + 1
            /\ ~Started(x) => turn'[x].age = turn[x].age
        BY <1>5, <3>1, <3>3 DEF Tick, TurnRow
      <4>4. /\ TurnDeadline \in Nat /\ CallTimeout \in Nat /\ Slack \in Nat /\ LockTTL \in Nat
            /\ turn[x].age \in Nat /\ turn[x].phase \in Nat
        BY <3>1, AssistantAssumption DEF TurnRow
      <4>5. CASE turn[x].at \in {"locked", "begun"}
        <5>1. turn'[x].age = turn[x].age
          BY <4>3, <4>5 DEF Started
        <5>2. turn'[x].at = turn[x].at /\ turn'[x].phase = turn[x].phase + 1
          BY <4>3
        <5>. QED
          BY <4>1, <4>2, <4>4, <4>5, <5>1, <5>2 DEF OnTime, InTime
      <4>6. CASE turn[x].at \notin {"locked", "begun"}
        <5>1. turn'[x].age = turn[x].age + 1
          BY <3>3, <4>3, <4>6 DEF Started
        <5>2. turn'[x].at = turn[x].at /\ turn'[x].phase = turn[x].phase + 1
          BY <4>3
        <5>. QED
          BY <4>1, <4>2, <4>4, <4>6, <5>1, <5>2 DEF OnTime, InTime
      <4>. QED
        BY <4>5, <4>6
    <3>. QED
      BY <3>2, <3>3
  <2>. QED
    BY <2>1 DEF Lease, TurnsExclusive
<1>6. ASSUME NEW c \in Replies, StoreNote(c)
      PROVE  Lease'
  BY <1>3, <1>4, <1>6 DEF StoreNote, Apart
<1>. QED
  BY <1>1, <1>2, <1>3, <1>4, <1>5, <1>6, ProceedOnTime
     DEF Next, Reply, Claim, Fetch, Discard, RunTool, CrashReply, Apart, NewMinute,
         ClearHistory, vars

\* Two turns of a member never run at the same time (TurnsExclusive), for any
\* number of requests and any times in which the lock outlives the deadline,
\* the last model call and the slack around it.
THEOREM TurnsAreExclusive == Spec => []TurnsExclusive
<1>. DEFINE Inv == TypeOK /\ RoundsLeft /\ Lease
<1>1. Init => Inv
  BY InitTyped DEF Init, RoundsLeft, Lease, TurnsExclusive, Live, At
<1>2. Inv /\ [Next]_vars => Inv'
  BY NextTyped, RoundsKept, LeaseKept
<1>3. Inv => TurnsExclusive
  BY DEF Lease
<1>. QED
  BY <1>1, <1>2, <1>3, PTL DEF Spec

-----------------------------------------------------------------------------
(* One execution per consent *)

Answers(c, t) == reply[c].at \notin {"new", "done"} /\ reply[c].of = t
Holds(c, t) == reply[c].at \in {"claimed", "found", "run"} /\ reply[c].of = t
Spends(c, t) == reply[c].at \in {"found", "run"} /\ reply[c].of = t

\* A token is shown after it was made, and answered after it was shown.
Shown(t) ==
  /\ consent[t].at = "made" => turn[t].at \in {"data", "noting", "show", "done"}
  /\ consent[t].at = "shown" => turn[t].at \in {"answer", "closing", "emit", "done"}
  /\ consent[t].at # "shown" => consent[t].runs = 0 /\ \A c \in Replies : ~Answers(c, t)

\* A claim lives at least as long as its token: while a request is between its
\* claim and the tool, a second one gets there only when the token is gone.
Claimed(t) ==
  /\ \A c \in Replies : Holds(c, t) => consent[t].left <= consent[t].claim
  /\ \A b, c \in Replies : Holds(b, t) /\ Holds(c, t) /\ b # c => consent[t].left = 0
  /\ \A b, c \in Replies : Spends(b, t) /\ Spends(c, t) => b = c
  /\ \A c \in Replies : reply[c].at = "run" /\ reply[c].of = t => consent[t].left = 0
  /\ consent[t].runs > 0 => consent[t].left = 0 /\ \A c \in Replies : ~Spends(c, t)
  /\ consent[t].runs <= 1

Consents == \A t \in Turns : Shown(t) /\ Claimed(t)

\* Claims are about replies and tokens only.
LEMMA ClaimsStay ==
  ASSUME Consents, UNCHANGED <<consent, reply>>,
         \A x \in Turns : Shown(x)'
  PROVE  Consents'
BY DEF Consents, Claimed, Holds, Spends

\* A turn that issues or shows nothing in this step.
LEMMA StagesPass ==
  ASSUME Consents, UNCHANGED <<consent, reply>>,
         \A x \in Turns :
           \/ turn'[x].at \in {turn[x].at, "done"}
           \/ turn[x].at \in {"new", "locked", "begun", "round", "think", "call", "ask", "asking"}
           \/ turn[x].at \in {"data", "noting"} /\ turn'[x].at \in {"data", "noting", "show"}
           \/ turn[x].at \in {"answer", "closing"} /\ turn'[x].at \in {"answer", "closing", "emit"}
  PROVE  Consents'
<1>1. ASSUME NEW x \in Turns
      PROVE  Shown(x)'
  BY DEF Consents, Shown, Answers
<1>. QED
  BY <1>1, ClaimsStay

LEMMA ProceedConsents ==
  ASSUME TypeOK, Consents, NEW t \in Turns, Proceed(t)
  PROVE  Consents'
<1>0. \A x \in Turns : turn[x] \in TurnRow /\ consent[x] \in Token
  BY DEF TypeOK
<1>1. CASE HitRateLimit(t) \/ Start(t) \/ CheckDeadline(t) \/ Emit(t)
  <2>1. UNCHANGED <<consent, reply>>
    BY <1>1 DEF HitRateLimit, Start, CheckDeadline, Emit, EndTurn, Unguarded
  <2>2. \/ turn[t].at \in {"locked", "begun", "round"}
             /\ (Go(t, "begun") \/ Go(t, "ask") \/ Go(t, "answer") \/ Go(t, "think"))
        \/ Finish(t)
    BY <1>1 DEF HitRateLimit, Start, CheckDeadline, Emit, EndTurn
  <2>. QED
    BY <2>1, <2>2, GoRow, FinishRow, StagesPass
<1>2. CASE StoreAsk(t) \/ StoreData(t) \/ StoreAnswer(t)
  <2>1. UNCHANGED <<consent, reply>>
    BY <1>2 DEF StoreAsk, StoreData, StoreAnswer, Unguarded
  <2>2. \/ turn[t].at \in {"ask", "asking"} /\ (Go(t, "asking") \/ Go(t, "round"))
        \/ turn[t].at \in {"data", "noting"} /\ (Go(t, "noting") \/ Go(t, "show"))
        \/ turn[t].at \in {"answer", "closing"} /\ (Go(t, "closing") \/ Go(t, "emit"))
    BY <1>2 DEF StoreAsk, StoreData, StoreAnswer, StepFrom
  <2>. QED
    BY <2>1, <2>2, GoRow, StagesPass
<1>3. CASE CallModel(t) \/ ModelAnswers(t)
  BY <1>0, <1>3, StagesPass DEF CallModel, ModelAnswers, Unguarded, TurnRow, TypeOK
<1>4. ASSUME NEW fed \in BOOLEAN, NEW asks \in BOOLEAN, ModelCallsTools(t, fed, asks)
      PROVE  Consents'
  <2>1. /\ reply' = reply /\ turn[t].at = "call" /\ turn'[t].at \in {"data", "show"}
        /\ \A x \in Turns \ {t} : turn'[x] = turn[x]
    BY <1>0, <1>4 DEF ModelCallsTools, Unguarded, TurnRow, TypeOK
  <2>2. CASE consent' = consent
    BY <2>1, <2>2, StagesPass
  <2>3. CASE consent' = [consent EXCEPT ![t].at = "made", ![t].left = ConsentTTL]
    <3>1. /\ consent'[t].at = "made" /\ consent'[t].runs = consent[t].runs
          /\ \A x \in Turns \ {t} : consent'[x] = consent[x]
      BY <1>0, <2>3 DEF Token, TypeOK
    <3>2. consent[t].runs = 0 /\ \A c \in Replies : ~Answers(c, t)
      BY <2>1 DEF Consents, Shown
    <3>3. Shown(t)' /\ Claimed(t)'
      BY <2>1, <3>1, <3>2 DEF Shown, Claimed, Answers, Holds, Spends
    <3>4. \A x \in Turns \ {t} : Shown(x)' /\ Claimed(x)'
      BY <2>1, <3>1 DEF Consents, Shown, Claimed, Answers, Holds, Spends
    <3>. QED
      BY <3>3, <3>4 DEF Consents
  <2>. QED
    BY <1>4, <2>2, <2>3 DEF ModelCallsTools
<1>5. CASE ShowFrames(t)
  <2>1. /\ reply' = reply /\ turn[t].at = "show"
        /\ turn'[t].at = IF consent[t].at = "made" THEN "answer" ELSE "round"
        /\ \A x \in Turns \ {t} : turn'[x] = turn[x]
    BY <1>0, <1>5 DEF ShowFrames, Unguarded, TurnRow, TypeOK
  <2>2. /\ consent'[t] = [consent[t] EXCEPT !.at = IF consent[t].at = "made" THEN "shown"
                                                  ELSE consent[t].at]
        /\ \A x \in Turns \ {t} : consent'[x] = consent[x]
    BY <1>0, <1>5 DEF ShowFrames, Token, TypeOK
  <2>3. /\ consent'[t].at = IF consent[t].at = "made" THEN "shown" ELSE consent[t].at
        /\ consent'[t].left = consent[t].left /\ consent'[t].claim = consent[t].claim
        /\ consent'[t].runs = consent[t].runs
    BY <1>0, <2>2 DEF Token
  <2>4. Shown(t) /\ Claimed(t)
    BY DEF Consents
  <2>5. Shown(t)'
    BY <2>1, <2>3, <2>4 DEF Shown, Answers
  <2>6. Claimed(t)'
    BY <2>1, <2>3, <2>4 DEF Claimed, Holds, Spends
  <2>7. \A x \in Turns \ {t} : Shown(x)' /\ Claimed(x)'
    BY <2>1, <2>2 DEF Consents, Shown, Claimed, Answers, Holds, Spends
  <2>. QED
    BY <2>5, <2>6, <2>7 DEF Consents
<1>. QED
  BY <1>1, <1>2, <1>3, <1>4, <1>5 DEF Proceed

\* A step of one request c about token t that leaves the turns where they are.
\* The claims of the other tokens are those of before.
LEMMA OneReply ==
  ASSUME TypeOK, Consents, NEW c \in Replies, NEW t \in Turns,
         \A x \in Turns : turn'[x].at = turn[x].at,
         \A b \in Replies \ {c} : reply'[b] = reply[b],
         reply[c].at = "new" \/ reply[c].of = t,
         reply'[c].at = "done" \/ reply'[c].of = t,
         \A x \in Turns \ {t} : consent'[x] = consent[x],
         Shown(t)', Claimed(t)'
  PROVE  Consents'
<1>1. ASSUME NEW x \in Turns \ {t}
      PROVE  Shown(x)' /\ Claimed(x)'
  <2>1. \A b \in Replies : Answers(b, x)' => Answers(b, x)
    BY <1>1 DEF Answers
  <2>2. \A b \in Replies : (Holds(b, x)' => Holds(b, x)) /\ (Spends(b, x)' => Spends(b, x))
    BY <1>1 DEF Holds, Spends
  <2>3. \A b \in Replies : reply'[b].at = "run" /\ reply'[b].of = x
                             => reply[b].at = "run" /\ reply[b].of = x
    BY <1>1
  <2>4. consent'[x] = consent[x] /\ turn'[x].at = turn[x].at /\ Shown(x) /\ Claimed(x)
    BY <1>1 DEF Consents
  <2>5. Shown(x)'
    BY <2>1, <2>4 DEF Shown
  <2>6. Claimed(x)'
    BY <2>2, <2>3, <2>4 DEF Claimed
  <2>. QED
    BY <2>5, <2>6
<1>. QED
  BY <1>1 DEF Consents

\* A request that is over takes part in nothing.
LEMMA ReplyOver ==
  ASSUME TypeOK, Consents, NEW c \in Replies, ReplyEnds(c), consent' = consent,
         \A x \in Turns : turn'[x].at = turn[x].at
  PROVE  Consents'
<1>1. reply'[c].at = "done" /\ \A b \in Replies \ {c} : reply'[b] = reply[b]
  BY DEF ReplyEnds, TypeOK
<1>2. ASSUME NEW x \in Turns
      PROVE  Shown(x)' /\ Claimed(x)'
  <2>1. \A b \in Replies : Answers(b, x)' => Answers(b, x)
    BY <1>1 DEF Answers
  <2>2. \A b \in Replies : (Holds(b, x)' => Holds(b, x)) /\ (Spends(b, x)' => Spends(b, x))
    BY <1>1 DEF Holds, Spends
  <2>3. \A b \in Replies : reply'[b].at = "run" /\ reply'[b].of = x
                             => reply[b].at = "run" /\ reply[b].of = x
    BY <1>1
  <2>4. Shown(x) /\ Claimed(x)
    BY DEF Consents
  <2>5. Shown(x)'
    BY <2>1, <2>4 DEF Shown
  <2>6. Claimed(x)'
    BY <2>2, <2>3, <2>4 DEF Claimed
  <2>. QED
    BY <2>5, <2>6
<1>. QED
  BY <1>2 DEF Consents

\* The row of a request that goes on.
LEMMA ReplyRowGoes ==
  ASSUME TypeOK, NEW c \in Replies, NEW at, ReplyGoes(c, at),
         reply[c].at \notin {"new", "done"}
  PROVE  /\ reply[c].of \in Turns
         /\ reply'[c].at = at /\ reply'[c].of = reply[c].of
         /\ \A b \in Replies \ {c} : reply'[b] = reply[b]
<1>1. reply[c] \in [at : {"sent", "claimed", "found", "run", "note", "noting"}, of : Turns, yes : BOOLEAN]
  BY DEF TypeOK, ReplyRow
<1>2. reply' = [reply EXCEPT ![c] = [reply[c] EXCEPT !.at = at]]
  BY DEF ReplyGoes
<1>3. reply'[c] = [reply[c] EXCEPT !.at = at]
  BY <1>2 DEF TypeOK
<1>. QED
  BY <1>1, <1>2, <1>3 DEF TypeOK

LEMMA ReplyConsents ==
  ASSUME TypeOK, Consents, NEW c \in Replies,
         \/ Claim(c) \/ Fetch(c) \/ Discard(c) \/ RunTool(c) \/ StoreNote(c) \/ CrashReply(c)
         \/ \E t \in Turns, yes \in BOOLEAN : Reply(c, t, yes)
  PROVE  Consents'
<1>0. \A x \in Turns : consent[x] \in Token
  BY DEF TypeOK
<1>1. ASSUME NEW t \in Turns, NEW yes \in BOOLEAN, Reply(c, t, yes)
      PROVE  Consents'
  <2>1. /\ reply[c].at = "new" /\ consent[t].at = "shown" /\ consent' = consent /\ turn' = turn
        /\ reply'[c].at = "sent" /\ reply'[c].of = t
        /\ \A b \in Replies \ {c} : reply'[b] = reply[b]
    BY <1>1 DEF Reply, Apart, TypeOK
  <2>2. Shown(t)'
    BY <2>1 DEF Consents, Shown
  <2>3. Claimed(t)'
    BY <2>1 DEF Consents, Claimed, Holds, Spends
  <2>. QED
    BY <2>1, <2>2, <2>3, OneReply
<1>2. ASSUME ReplyEnds(c), consent' = consent, turn' = turn \/ Disturb
      PROVE  Consents'
  BY <1>2, DisturbRow, ReplyOver
<1>. DEFINE t == reply[c].of
<1>3. CASE /\ reply[c].at = "sent" /\ consent[t].claim = 0 /\ turn' = turn
           /\ consent' = [consent EXCEPT ![t].claim = ConsentTTL] /\ ReplyGoes(c, "claimed")
  <2>1. /\ t \in Turns /\ reply'[c].at = "claimed" /\ reply'[c].of = t
        /\ \A b \in Replies \ {c} : reply'[b] = reply[b]
    BY <1>3, ReplyRowGoes
  <2>2. /\ consent'[t].at = consent[t].at /\ consent'[t].left = consent[t].left
        /\ consent'[t].claim = ConsentTTL /\ consent'[t].runs = consent[t].runs
        /\ \A x \in Turns \ {t} : consent'[x] = consent[x]
        /\ consent[t].left \in 0..ConsentTTL /\ ConsentTTL \in Nat
    BY <1>0, <1>3, <2>1, AssistantAssumption DEF Token, TypeOK
  <2>3. Shown(t) /\ Claimed(t)
    BY <2>1 DEF Consents
  <2>4. Shown(t)'
    BY <1>3, <2>1, <2>2, <2>3 DEF Shown, Answers
  <2>5. (\E b \in Replies : Holds(b, t)) => consent[t].left = 0
    BY <1>3, <2>2, <2>3 DEF Claimed
  <2>6. Claimed(t)'
    BY <1>3, <2>1, <2>2, <2>3, <2>5 DEF Claimed, Holds, Spends
  <2>. QED
    BY <1>3, <2>1, <2>2, <2>4, <2>6, OneReply
<1>4. CASE /\ reply[c].at = "claimed" /\ consent[t].left > 0 /\ UNCHANGED <<turn, consent>>
           /\ ReplyGoes(c, "found")
  <2>1. /\ t \in Turns /\ reply'[c].at = "found" /\ reply'[c].of = t
        /\ \A b \in Replies \ {c} : reply'[b] = reply[b]
    BY <1>4, ReplyRowGoes
  <2>2. Shown(t) /\ Claimed(t) /\ consent[t].left \in Nat
    BY <1>0, <2>1 DEF Consents, Token
  <2>3. Shown(t)'
    BY <1>4, <2>1, <2>2 DEF Shown, Answers
  <2>4. \A b \in Replies \ {c} : ~Holds(b, t)
    BY <1>4, <2>2 DEF Claimed, Holds
  <2>5. Claimed(t)'
    BY <1>4, <2>1, <2>2, <2>4 DEF Claimed, Holds, Spends
  <2>. QED
    BY <1>4, <2>1, <2>3, <2>5, OneReply
<1>5. CASE /\ reply[c].at = "found" /\ turn' = turn
           /\ consent' = [consent EXCEPT ![t].left = 0]
           /\ (ReplyGoes(c, "run") \/ ReplyGoes(c, "note"))
  <2>1. /\ t \in Turns /\ reply'[c].at \in {"run", "note"} /\ reply'[c].of = t
        /\ \A b \in Replies \ {c} : reply'[b] = reply[b]
    BY <1>5, ReplyRowGoes
  <2>2. /\ consent'[t].at = consent[t].at /\ consent'[t].left = 0
        /\ consent'[t].claim = consent[t].claim /\ consent'[t].runs = consent[t].runs
        /\ \A x \in Turns \ {t} : consent'[x] = consent[x]
        /\ consent[t].claim \in Nat
    BY <1>0, <1>5, <2>1 DEF Token, TypeOK
  <2>3. Shown(t) /\ Claimed(t)
    BY <2>1 DEF Consents
  <2>4. Shown(t)'
    BY <1>5, <2>1, <2>2, <2>3 DEF Shown, Answers
  <2>5. Claimed(t)'
    BY <1>5, <2>1, <2>2, <2>3 DEF Claimed, Holds, Spends
  <2>. QED
    BY <1>5, <2>1, <2>2, <2>4, <2>5, OneReply
<1>6. CASE /\ reply[c].at = "run" /\ turn' = turn
           /\ consent' = [consent EXCEPT ![t].runs = @ + 1] /\ ReplyGoes(c, "note")
  <2>1. /\ t \in Turns /\ reply'[c].at = "note" /\ reply'[c].of = t
        /\ \A b \in Replies \ {c} : reply'[b] = reply[b]
    BY <1>6, ReplyRowGoes
  <2>2. /\ consent'[t].at = consent[t].at /\ consent'[t].left = consent[t].left
        /\ consent'[t].claim = consent[t].claim /\ consent'[t].runs = consent[t].runs + 1
        /\ \A x \in Turns \ {t} : consent'[x] = consent[x]
        /\ consent[t].runs \in Nat
    BY <1>0, <1>6, <2>1 DEF Token, TypeOK
  <2>3. Shown(t) /\ Claimed(t) /\ Answers(c, t) /\ Spends(c, t)
    BY <1>6, <2>1 DEF Consents, Answers, Spends
  <2>4. consent[t].at = "shown" /\ consent[t].runs = 0 /\ consent[t].left = 0
    BY <1>6, <2>2, <2>3 DEF Shown, Claimed
  <2>5. Shown(t)'
    BY <1>6, <2>1, <2>2, <2>3, <2>4 DEF Shown
  <2>6. \A b \in Replies : ~Spends(b, t)'
    BY <2>1, <2>3 DEF Claimed, Spends
  <2>7. Claimed(t)'
    BY <1>6, <2>1, <2>2, <2>3, <2>4, <2>6 DEF Claimed, Holds, Spends
  <2>. QED
    BY <1>6, <2>1, <2>2, <2>5, <2>7, OneReply
<1>7. CASE /\ reply[c].at = "note" /\ UNCHANGED <<turn, consent>> /\ ReplyGoes(c, "noting")
  <2>1. /\ t \in Turns /\ reply'[c].at = "noting" /\ reply'[c].of = t
        /\ \A b \in Replies \ {c} : reply'[b] = reply[b]
    BY <1>7, ReplyRowGoes
  <2>2. Shown(t)' /\ Claimed(t)'
    BY <1>7, <2>1 DEF Consents, Shown, Claimed, Answers, Holds, Spends
  <2>. QED
    BY <1>7, <2>1, <2>2, OneReply
<1>8. CASE Claim(c)
  BY <1>2, <1>3, <1>8 DEF Claim, Apart
<1>9. CASE Fetch(c)
  BY <1>2, <1>4, <1>9 DEF Fetch, Apart
<1>10. CASE Discard(c)
  BY <1>5, <1>10 DEF Discard, Apart
<1>11. CASE RunTool(c)
  BY <1>2, <1>6, <1>11 DEF RunTool, Apart
<1>12. CASE StoreNote(c)
  BY <1>2, <1>7, <1>12 DEF StoreNote, Apart
<1>13. CASE CrashReply(c)
  BY <1>2, <1>13 DEF CrashReply, Apart
<1>. QED
  BY <1>1, <1>8, <1>9, <1>10, <1>11, <1>12, <1>13

LEMMA ConsentsKept ==
  ASSUME TypeOK, Consents, [Next]_vars
  PROVE  Consents'
<1>1. ASSUME NEW t \in Turns, BeginTurn(t) \/ Disconnect(t) \/ Crash(t)
      PROVE  Consents'
  <2>1. UNCHANGED <<consent, reply>>
    BY <1>1 DEF BeginTurn, Disconnect, EndTurn, Crash
  <2>2. \/ turn[t].at = "new" /\ turn' = [turn EXCEPT ![t] = At("locked")]
        \/ Finish(t)
    BY <1>1 DEF BeginTurn, Disconnect, EndTurn, Crash
  <2>3. \A x \in Turns : turn'[x].at \in {turn[x].at, "done"} \/ turn[x].at = "new"
    BY <2>2, FinishRow DEF At, TypeOK
  <2>. QED
    BY <2>1, <2>3, StagesPass
<1>2. CASE NewMinute \/ ClearHistory \/ UNCHANGED vars
  <2>1. UNCHANGED <<consent, reply>> /\ (turn' = turn \/ Disturb)
    BY <1>2 DEF NewMinute, ClearHistory, vars
  <2>. QED
    BY <2>1, DisturbRow, StagesPass
<1>3. CASE Tick
  <2>1. reply' = reply /\ \A x \in Turns : turn'[x].at = turn[x].at
    BY <1>3, DisturbRow DEF Tick
  <2>2. ASSUME NEW x \in Turns
        PROVE  Shown(x)' /\ Claimed(x)'
    <3>1. consent[x] \in Token
      BY DEF TypeOK
    <3>2. consent'[x] = [consent[x] EXCEPT !.left = Less(consent[x].left),
                                           !.claim = Less(consent[x].claim)]
      BY <1>3 DEF Tick
    <3>3. /\ consent'[x].at = consent[x].at /\ consent'[x].runs = consent[x].runs
          /\ consent'[x].left = Less(consent[x].left)
          /\ consent'[x].claim = Less(consent[x].claim)
      BY <3>1, <3>2 DEF Token
    <3>4. /\ consent[x].left = 0 => consent'[x].left = 0
          /\ consent[x].left <= consent[x].claim => consent'[x].left <= consent'[x].claim
      BY <3>1, <3>3 DEF Less, Token
    <3>5. Shown(x)'
      BY <2>1, <3>3 DEF Consents, Shown, Answers
    <3>6. Claimed(x)'
      BY <2>1, <3>3, <3>4 DEF Consents, Claimed, Holds, Spends
    <3>. QED
      BY <3>5, <3>6
  <2>. QED
    BY <2>2 DEF Consents
<1>. QED
  BY <1>1, <1>2, <1>3, ProceedConsents, ReplyConsents DEF Next

\* A confirmed operation runs once at most (ConsentSpentOnce), for any number
\* of confirmations at any times: the claim is set to the life of a token, and
\* the token was issued before it.
THEOREM ConsentsAreSpentOnce == Spec => []ConsentSpentOnce
<1>. DEFINE Inv == TypeOK /\ RoundsLeft /\ Consents
<1>1. Init => Inv
  BY InitTyped DEF Init, RoundsLeft, Consents, Shown, Claimed, Answers, Holds, Spends, At
<1>2. Inv /\ [Next]_vars => Inv'
  BY NextTyped, RoundsKept, ConsentsKept
<1>3. Inv => ConsentSpentOnce
  BY DEF Consents, Claimed, ConsentSpentOnce
<1>. QED
  BY <1>1, <1>2, <1>3, PTL DEF Spec

-----------------------------------------------------------------------------
(* What was shown is kept *)

\* The messages a turn may have after its question, the question included,
\* and the rounds whose results are stored.
Room(row) ==
  1 + 2 * row.round + (IF row.at = "show" THEN 2 ELSE IF row.at = "emit" THEN 1 ELSE 0)
Stored(row) == {r \in row.fed : r < row.round \/ row.at = "show"}

\* The question of t is among the last n messages of s, and the results of
\* these rounds come after it.
Contains(s, t, n, rounds) ==
  \E p \in 1..Len(s) :
    /\ s[p] = Ask(t) /\ Len(s) - p + 1 <= n
    /\ \A r \in rounds : \E i \in p..Len(s) : s[i] = Data(t, r)

\* A round that fed the model is over, or is the one being stored and shown.
Fed(row) ==
  /\ row.at \in {"locked", "begun", "ask", "asking"} => row.round = 0 /\ row.fed = {}
  /\ \A r \in row.fed :
       \/ r < row.round
       \/ r = row.round /\ row.at \in {"data", "noting", "show"}

\* A turn nobody has written between, after its question was stored.
Undisturbed(t) == Started(t) /\ turn[t].alone /\ turn[t].at \notin {"ask", "asking"}

\* Its part of the conversation is there, and what it has read is still true.
Kept(t) ==
  Undisturbed(t) =>
    /\ Contains(conv, t, Room(turn[t]), Stored(turn[t]))
    /\ turn[t].at \in {"noting", "closing"} => copy[t] = conv

Keeping == \A t \in Turns : Fed(turn[t]) /\ Kept(t)

\* Trimming keeps everything from a question on that is within the window,
\* in order: only the part before it is cut off.
LEMMA TrimKeeps ==
  ASSUME NEW s \in Seq(Message), NEW p \in 1..Len(s), s[p].kind = "ask",
         Len(s) - p + 1 <= MaxMessages
  PROVE  \E d \in 0..(p - 1) :
           /\ Len(Trim(s)) = Len(s) - d
           /\ \A i \in p..Len(s) : Trim(s)[i - d] = s[i]
<1>. DEFINE window == (Len(s) - MaxMessages + 1)..Len(s)
            kept == {i \in window : \E j \in window : j <= i /\ s[j].kind = "ask"}
            n == Cardinality(kept)
<1>1. Len(s) \in Nat /\ MaxMessages \in Nat /\ p \in Nat
  BY LenProperties, AssistantAssumption
<1>2. CASE Len(s) <= MaxMessages
  <2>1. Trim(s) = s
    BY <1>2 DEF Trim
  <2>2. 0 \in 0..(p - 1) /\ \A i \in p..Len(s) : i - 0 = i
    BY <1>1
  <2>. QED
    BY <1>1, <2>1, <2>2
<1>3. CASE ~(Len(s) <= MaxMessages)
  <2>1. IsFiniteSet(window) /\ Cardinality(window) = MaxMessages
    <3>. DEFINE a == Len(s) - MaxMessages + 1
    <3>1. /\ a \in Int /\ Len(s) \in Int
          /\ MaxMessages = IF a > Len(s) THEN 0 ELSE Len(s) - a + 1
      BY <1>1, <1>3
    <3>. HIDE DEF a
    <3>2. IsFiniteSet(a..Len(s)) /\ Cardinality(a..Len(s)) = MaxMessages
      BY <3>1, FS_Interval
    <3>. QED
      BY <3>2 DEF a
  <2>2. IsFiniteSet(kept) /\ n \in Nat /\ n <= MaxMessages
    BY <2>1, FS_Subset, FS_CardinalityType
  <2>3. p..Len(s) \subseteq kept
    BY <1>1, <1>3
  <2>4. Cardinality(p..Len(s)) = Len(s) - p + 1
    BY <1>1, FS_Interval
  <2>5. n >= Len(s) - p + 1
    BY <2>2, <2>3, <2>4, FS_Subset
  <2>6. Trim(s) = SubSeq(s, Len(s) - n + 1, Len(s))
    BY <1>3 DEF Trim
  <2>. HIDE DEF n
  <2>. DEFINE d == Len(s) - n
  <2>7. d \in 0..(p - 1) /\ n >= 1 /\ d + 1 \in 1..Len(s)
    BY <1>1, <1>3, <2>2, <2>5
  <2>8. /\ Len(Trim(s)) = n
        /\ \A k \in 1..n : Trim(s)[k] = s[d + k]
    <3>. DEFINE m == d + 1
    <3>1. /\ m \in Int /\ Len(s) \in Int
          /\ \A i \in m..Len(s) : s[i] \in Message
      BY <1>1, <2>7, LenProperties
    <3>2. /\ m = Len(s) - n + 1 /\ Len(s) - m + 1 = n /\ m <= Len(s)
          /\ \A k \in 1..n : m + k - 1 = d + k
      BY <1>1, <2>2, <2>7
    <3>. HIDE DEF m, d
    <3>3. /\ Len(SubSeq(s, m, Len(s))) = IF m <= Len(s) THEN Len(s) - m + 1 ELSE 0
          /\ \A k \in 1..(Len(s) - m + 1) : SubSeq(s, m, Len(s))[k] = s[m + k - 1]
      BY <3>1, SubSeqProperties
    <3>4. Trim(s) = SubSeq(s, m, Len(s))
      BY <2>6, <3>2
    <3>. QED
      BY <3>2, <3>3, <3>4
  <2>9. \A i \in p..Len(s) : i - d \in 1..n /\ d + (i - d) = i
    BY <1>1, <2>2, <2>7
  <2>10. n = Len(s) - d
    BY <1>1, <2>2
  <2>. HIDE DEF d
  <2>11. \A i \in p..Len(s) : Trim(s)[i - d] = s[i]
    BY <2>8, <2>9
  <2>. QED
    BY <2>7, <2>8, <2>10, <2>11
<1>. QED
  BY <1>2, <1>3

\* So does what a turn has in the conversation, as long as it is not more than
\* the window holds.
LEMMA TrimContains ==
  ASSUME NEW s \in Seq(Message), NEW t \in Turns, NEW n \in Nat, NEW rounds,
         Contains(s, t, n, rounds), n <= MaxMessages
  PROVE  Contains(Trim(s), t, n, rounds)
<1>0. MaxMessages \in Nat /\ Len(s) \in Nat
  BY AssistantAssumption, LenProperties
<1>1. PICK p \in 1..Len(s) :
        /\ s[p] = Ask(t) /\ Len(s) - p + 1 <= n
        /\ \A r \in rounds : \E i \in p..Len(s) : s[i] = Data(t, r)
  BY DEF Contains
<1>2. s[p].kind = "ask" /\ Len(s) - p + 1 <= MaxMessages
  BY <1>0, <1>1 DEF Ask, Entry
<1>3. PICK d \in 0..(p - 1) :
        /\ Len(Trim(s)) = Len(s) - d
        /\ \A i \in p..Len(s) : Trim(s)[i - d] = s[i]
  BY <1>2, TrimKeeps
<1>4. /\ p - d \in 1..Len(Trim(s)) /\ p \in p..Len(s)
      /\ Len(Trim(s)) - (p - d) + 1 <= n
      /\ \A i \in p..Len(s) : i - d \in (p - d)..Len(Trim(s))
  BY <1>0, <1>1, <1>3
<1>5. Trim(s)[p - d] = Ask(t)
  BY <1>1, <1>3, <1>4
<1>6. \A r \in rounds : \E i \in (p - d)..Len(Trim(s)) : Trim(s)[i] = Data(t, r)
  BY <1>1, <1>3, <1>4
<1>. QED
  BY <1>4, <1>5, <1>6 DEF Contains

LEMMA AppendContains ==
  ASSUME NEW s \in Seq(Message), NEW messages \in Seq(Message), NEW t \in Turns,
         NEW n \in Nat, NEW rounds, NEW more, Contains(s, t, n, rounds),
         \A r \in more :
           r \in rounds \/ \E i \in 1..Len(messages) : messages[i] = Data(t, r)
  PROVE  Contains(s \o messages, t, n + Len(messages), more)
<1>. DEFINE all == s \o messages
<1>0. /\ Len(s) \in Nat /\ Len(messages) \in Nat /\ Len(all) = Len(s) + Len(messages)
      /\ \A i \in 1..Len(s) : all[i] = s[i]
      /\ \A i \in 1..Len(messages) : all[Len(s) + i] = messages[i]
  BY LenProperties, ConcatProperties
<1>1. PICK p \in 1..Len(s) :
        /\ s[p] = Ask(t) /\ Len(s) - p + 1 <= n
        /\ \A r \in rounds : \E i \in p..Len(s) : s[i] = Data(t, r)
  BY DEF Contains
<1>. HIDE DEF all
<1>2. /\ p \in 1..Len(all) /\ all[p] = Ask(t)
      /\ Len(all) - p + 1 <= n + Len(messages)
  BY <1>0, <1>1
<1>3. ASSUME NEW r \in more
      PROVE  \E i \in p..Len(all) : all[i] = Data(t, r)
  <2>1. CASE r \in rounds
    <3>1. PICK i \in p..Len(s) : s[i] = Data(t, r)
      BY <1>1, <2>1
    <3>2. i \in p..Len(all) /\ all[i] = s[i]
      BY <1>0, <1>1
    <3>. QED
      BY <3>1, <3>2
  <2>2. CASE \E i \in 1..Len(messages) : messages[i] = Data(t, r)
    <3>1. PICK i \in 1..Len(messages) : messages[i] = Data(t, r)
      BY <2>2
    <3>2. Len(s) + i \in p..Len(all) /\ all[Len(s) + i] = messages[i]
      BY <1>0, <1>1
    <3>. QED
      BY <3>1, <3>2
  <2>. QED
    BY <1>3, <2>1, <2>2
<1>4. Contains(all, t, n + Len(messages), more)
  BY <1>2, <1>3 DEF Contains
<1>. QED
  BY <1>4 DEF all

\* What is stored on top of an undisturbed part leaves it there.
LEMMA StoreContains ==
  ASSUME NEW s \in Seq(Message), NEW messages \in Seq(Message), NEW t \in Turns,
         NEW n \in Nat, NEW rounds, NEW more, Contains(s, t, n, rounds),
         n + Len(messages) <= MaxMessages,
         \A r \in more :
           r \in rounds \/ \E i \in 1..Len(messages) : messages[i] = Data(t, r)
  PROVE  Contains(Trim(s \o messages), t, n + Len(messages), more)
<1>1. s \o messages \in Seq(Message) /\ n + Len(messages) \in Nat
  BY ConcatProperties, LenProperties
<1>2. Contains(s \o messages, t, n + Len(messages), more)
  BY AppendContains
<1>. QED
  BY <1>1, <1>2, TrimContains

\* A question stored on top of whatever was read is there.
LEMMA AskContained ==
  ASSUME NEW s \in Seq(Message), NEW t \in Turns
  PROVE  Contains(Trim(s \o <<Ask(t)>>), t, 1, {})
<1>. DEFINE one == <<Ask(t)>>
            all == s \o one
<1>1. one \in Seq(Message) /\ Len(one) = 1 /\ one[1] = Ask(t)
  BY EntryTyped DEF Ask
<1>2. /\ all \in Seq(Message) /\ Len(s) \in Nat
      /\ Len(all) = Len(s) + 1 /\ all[Len(s) + 1] = Ask(t)
  BY <1>1, LenProperties, ConcatProperties
<1>. HIDE DEF all
<1>3. Contains(all, t, 1, {})
  BY <1>2 DEF Contains
<1>4. 1 <= MaxMessages
  BY AssistantAssumption
<1>5. Contains(Trim(all), t, 1, {})
  BY <1>2, <1>3, <1>4, TrimContains
<1>. QED
  BY <1>5 DEF all

LEMMA ContainsLess ==
  ASSUME NEW s, NEW t \in Turns, NEW n \in Nat, NEW m \in Nat, NEW rounds, NEW fewer,
         Contains(s, t, n, rounds), n <= m, fewer \subseteq rounds, Len(s) \in Nat
  PROVE  Contains(s, t, m, fewer)
<1>1. PICK p \in 1..Len(s) :
        /\ s[p] = Ask(t) /\ Len(s) - p + 1 <= n
        /\ \A r \in rounds : \E i \in p..Len(s) : s[i] = Data(t, r)
  BY DEF Contains
<1>2. Len(s) - p + 1 <= m
  BY <1>1
<1>. QED
  BY <1>1, <1>2 DEF Contains

\* A step of the one turn that runs.
LEMMA OneKeeps ==
  ASSUME TypeOK, Lease, Keeping, NEW t \in Turns, Live(t),
         \A x \in Turns \ {t} : turn'[x] = turn[x],
         Fed(turn'[t]), Kept(t)'
  PROVE  Keeping'
<1>1. ASSUME NEW x \in Turns \ {t}
      PROVE  Fed(turn'[x]) /\ Kept(x)'
  <2>1. Fed(turn'[x])
    BY <1>1 DEF Keeping
  <2>2. ~Live(x)
    BY <1>1 DEF Lease, TurnsExclusive
  <2>3. ~Live(x)'
    BY <1>1, <2>2 DEF Live
  <2>. QED
    BY <2>1, <2>3 DEF Kept, Undisturbed, Started
<1>. QED
  BY <1>1 DEF Keeping

LEMMA FinishKeeps ==
  ASSUME TypeOK, Lease, Keeping, NEW t \in Turns, Live(t), Finish(t)
  PROVE  Keeping'
<1>1. turn'[t] = At("done") /\ \A x \in Turns \ {t} : turn'[x] = turn[x]
  BY DEF Finish, TypeOK
<1>2. Fed(turn'[t])
  BY <1>1 DEF Fed, At
<1>3. Kept(t)'
  BY <1>1 DEF Kept, Undisturbed, Started, Live, At
<1>. QED
  BY <1>1, <1>2, <1>3, OneKeeps

\* A step that leaves every turn where it is.
LEMMA NoneKeep ==
  ASSUME Keeping,
         \A x \in Turns : /\ turn'[x].at = turn[x].at /\ turn'[x].round = turn[x].round
                          /\ turn'[x].fed = turn[x].fed,
         \A x \in Turns : Undisturbed(x)' =>
           turn[x].alone /\ conv' = conv /\ copy'[x] = copy[x]
  PROVE  Keeping'
<1>1. ASSUME NEW x \in Turns
      PROVE  Fed(turn'[x]) /\ Kept(x)'
  <2>1. Fed(turn'[x])
    BY DEF Keeping, Fed
  <2>2. ASSUME Undisturbed(x)'
        PROVE  Undisturbed(x)
    BY <2>2 DEF Undisturbed, Started, Live
  <2>3. Room(turn'[x]) = Room(turn[x]) /\ Stored(turn'[x]) = Stored(turn[x])
    BY DEF Room, Stored
  <2>4. Kept(x)'
    BY <2>2, <2>3 DEF Keeping, Kept, Contains
  <2>. QED
    BY <2>1, <2>4
<1>. QED
  BY <1>1 DEF Keeping

\* A step of a turn that reads or writes nothing.
LEMMA MoveKeeps ==
  ASSUME TypeOK, TypeOK', Lease, Keeping, NEW t \in Turns, Live(t), UNCHANGED <<conv, copy>>,
         \A x \in Turns \ {t} : turn'[x] = turn[x],
         Fed(turn'[t]), turn'[t].at \notin {"noting", "closing"},
         Undisturbed(t)' =>
           /\ Undisturbed(t) /\ Room(turn[t]) <= Room(turn'[t])
           /\ Stored(turn'[t]) \subseteq Stored(turn[t])
  PROVE  Keeping'
<1>1. ASSUME Undisturbed(t)'
      PROVE  Contains(conv', t, Room(turn'[t]), Stored(turn'[t]))
  <2>1. turn[t] \in TurnRow /\ turn'[t] \in TurnRow /\ conv \in Seq(Message)
    BY DEF TypeOK, Conversation
  <2>2. Room(turn[t]) \in Nat /\ Room(turn'[t]) \in Nat /\ Len(conv) \in Nat
    <3>1. turn[t].round \in Nat /\ turn'[t].round \in Nat
      BY <2>1 DEF TurnRow
    <3>2. \A row : row.round \in Nat => Room(row) \in Nat
      BY DEF Room
    <3>. QED
      BY <2>1, <3>1, <3>2, LenProperties
  <2>3. Contains(conv, t, Room(turn[t]), Stored(turn[t]))
    BY <1>1 DEF Keeping, Kept
  <2>. QED
    BY <1>1, <2>2, <2>3, ContainsLess
<1>2. Kept(t)'
  BY <1>1 DEF Kept
<1>. QED
  BY <1>2, OneKeeps

\* The row of a turn that only changes its stage, or a little more.
LEMMA GoWhole ==
  ASSUME TypeOK, NEW t \in Turns, NEW at, Go(t, at)
  PROVE  /\ \A x \in Turns \ {t} : turn'[x] = turn[x]
         /\ turn'[t].at = at /\ turn'[t].round = turn[t].round
         /\ turn'[t].fed = turn[t].fed /\ turn'[t].alone = turn[t].alone
BY DEF TypeOK, Go, TurnRow

LEMMA ReadsNothingKeeps ==
  ASSUME TypeOK, TypeOK', Lease, Keeping, NEW t \in Turns,
         Start(t) \/ CheckDeadline(t) \/ CallModel(t) \/ ModelAnswers(t)
  PROVE  Keeping'
<1>0. turn[t] \in TurnRow /\ turn[t].round \in Nat
  BY DEF TypeOK, TurnRow
<1>1. /\ \A x \in Turns \ {t} : turn'[x] = turn[x]
      /\ turn'[t].round = turn[t].round /\ turn'[t].fed = turn[t].fed
      /\ turn'[t].alone = turn[t].alone
      /\ \/ turn[t].at = "begun" /\ turn'[t].at = "ask"
         \/ turn[t].at = "round" /\ turn'[t].at \in {"answer", "think"}
         \/ turn[t].at = "think" /\ turn'[t].at = "call"
         \/ turn[t].at = "call" /\ turn'[t].at = "answer"
  <2>1. CASE Start(t)
    BY <2>1, GoWhole DEF Start
  <2>2. CASE CheckDeadline(t)
    BY <2>2, GoWhole DEF CheckDeadline
  <2>3. CASE CallModel(t) \/ ModelAnswers(t)
    BY <1>0, <2>3 DEF CallModel, ModelAnswers, TurnRow, TypeOK
  <2>. QED
    BY <2>1, <2>2, <2>3
<1>2. UNCHANGED <<conv, copy>>
  BY DEF Start, CheckDeadline, CallModel, ModelAnswers
<1>3. Fed(turn[t])
  BY DEF Keeping
<1>4. Fed(turn'[t]) /\ turn'[t].at \notin {"noting", "closing"} /\ Live(t)
  BY <1>1, <1>3 DEF Fed, Live
<1>5. ASSUME Undisturbed(t)'
      PROVE  /\ Undisturbed(t) /\ Room(turn[t]) <= Room(turn'[t])
             /\ Stored(turn'[t]) \subseteq Stored(turn[t])
  BY <1>0, <1>1, <1>5 DEF Undisturbed, Started, Live, Room, Stored
<1>. QED
  BY <1>1, <1>2, <1>4, <1>5, MoveKeeps

LEMMA ModelCallsToolsKeeps ==
  ASSUME TypeOK, TypeOK', Lease, Keeping, NEW t \in Turns, NEW fed \in BOOLEAN,
         NEW asks \in BOOLEAN, ModelCallsTools(t, fed, asks)
  PROVE  Keeping'
<1>0. turn[t] \in TurnRow /\ turn[t].round \in Nat
  BY DEF TypeOK, TurnRow
<1>1. /\ turn[t].at = "call"
      /\ \A x \in Turns \ {t} : turn'[x] = turn[x]
      /\ turn'[t].at = IF fed THEN "data" ELSE "show"
      /\ turn'[t].fed = IF fed THEN turn[t].fed \cup {turn[t].round} ELSE turn[t].fed
      /\ turn'[t].round = turn[t].round /\ turn'[t].alone = turn[t].alone
  BY <1>0 DEF ModelCallsTools, TurnRow, TypeOK
<1>2. UNCHANGED <<conv, copy>>
  BY DEF ModelCallsTools
<1>3. Fed(turn[t])
  BY DEF Keeping
<1>4. \A r \in turn[t].fed : r < turn[t].round
  BY <1>1, <1>3 DEF Fed
<1>5. Fed(turn'[t]) /\ turn'[t].at \notin {"noting", "closing"} /\ Live(t)
  BY <1>1, <1>4 DEF Fed, Live
<1>6. ASSUME Undisturbed(t)'
      PROVE  /\ Undisturbed(t) /\ Room(turn[t]) <= Room(turn'[t])
             /\ Stored(turn'[t]) \subseteq Stored(turn[t])
  <2>1. Undisturbed(t) /\ Room(turn[t]) <= Room(turn'[t])
    BY <1>0, <1>1, <1>6 DEF Undisturbed, Started, Live, Room
  <2>2. Stored(turn'[t]) \subseteq Stored(turn[t])
    BY <1>0, <1>1, <1>4 DEF Stored
  <2>. QED
    BY <2>1, <2>2
<1>. QED
  BY <1>1, <1>2, <1>5, <1>6, MoveKeeps

LEMMA ShowFramesKeeps ==
  ASSUME TypeOK, TypeOK', Lease, Keeping, NEW t \in Turns, ShowFrames(t)
  PROVE  Keeping'
<1>0. turn[t] \in TurnRow /\ turn[t].round \in Nat /\ turn[t].fed \subseteq Nat
  BY DEF TypeOK, TurnRow
<1>1. /\ turn[t].at = "show"
      /\ \A x \in Turns \ {t} : turn'[x] = turn[x]
      /\ turn'[t].at \in {"answer", "round"}
      /\ turn'[t].fed = turn[t].fed
      /\ turn'[t].round = turn[t].round + 1 /\ turn'[t].alone = turn[t].alone
  BY <1>0 DEF ShowFrames, TurnRow, TypeOK
<1>2. UNCHANGED <<conv, copy>>
  BY DEF ShowFrames
<1>3. Fed(turn[t])
  BY DEF Keeping
<1>5. Fed(turn'[t]) /\ turn'[t].at \notin {"noting", "closing"} /\ Live(t)
  BY <1>0, <1>1, <1>3 DEF Fed, Live
<1>6. ASSUME Undisturbed(t)'
      PROVE  /\ Undisturbed(t) /\ Room(turn[t]) <= Room(turn'[t])
             /\ Stored(turn'[t]) \subseteq Stored(turn[t])
  BY <1>0, <1>1, <1>6 DEF Undisturbed, Started, Live, Room, Stored
<1>. QED
  BY <1>1, <1>2, <1>5, <1>6, MoveKeeps

\* The two steps of a store: what is read is still there when it is written
\* back, or the turn is not alone.
LEMMA LoadKeeps ==
  ASSUME TypeOK, TypeOK', Lease, Keeping, NEW t \in Turns, Live(t),
         NEW at \in {"asking", "noting", "closing"}, Go(t, at), Load(t),
         at = "asking" => turn[t].at = "ask",
         at = "noting" => turn[t].at = "data",
         at = "closing" => turn[t].at = "answer"
  PROVE  Keeping'
<1>0. turn[t] \in TurnRow
  BY DEF TypeOK
<1>1. /\ \A x \in Turns \ {t} : turn'[x] = turn[x]
      /\ turn'[t].at = at /\ turn'[t].round = turn[t].round
      /\ turn'[t].fed = turn[t].fed /\ turn'[t].alone = turn[t].alone
  BY GoWhole
<1>2. conv' = conv /\ copy'[t] = conv
  BY DEF Load, TypeOK
<1>3. Fed(turn'[t])
  BY <1>1 DEF Keeping, Fed
<1>4. ASSUME Undisturbed(t)'
      PROVE  Contains(conv', t, Room(turn'[t]), Stored(turn'[t]))
  <2>1. Undisturbed(t)
    BY <1>1, <1>4 DEF Undisturbed, Started, Live
  <2>2. Contains(conv, t, Room(turn[t]), Stored(turn[t]))
    BY <2>1 DEF Keeping, Kept
  <2>3. at # "asking"
    BY <1>1, <1>4 DEF Undisturbed
  <2>4. Room(turn'[t]) = Room(turn[t]) /\ Stored(turn'[t]) = Stored(turn[t])
    BY <1>1, <2>3 DEF Room, Stored
  <2>. QED
    BY <1>2, <2>2, <2>4
<1>5. Kept(t)'
  BY <1>2, <1>4 DEF Kept
<1>. QED
  BY <1>1, <1>3, <1>5, OneKeeps

LEMMA StoreAskKeeps ==
  ASSUME TypeOK, TypeOK', Lease, Keeping, NEW t \in Turns, StoreAsk(t)
  PROVE  Keeping'
<1>1. CASE turn[t].at = "ask" /\ Go(t, "asking") /\ Load(t)
  BY <1>1, LoadKeeps DEF Live
<1>2. CASE turn[t].at = "asking" /\ Go(t, "round") /\ Store(t, <<Ask(t)>>)
  <2>1. /\ \A x \in Turns \ {t} : turn'[x] = turn[x]
        /\ turn'[t].at = "round" /\ turn'[t].round = turn[t].round
        /\ turn'[t].fed = turn[t].fed
    BY <1>2, GoWhole
  <2>2. turn[t].round = 0 /\ turn[t].fed = {}
    BY <1>2 DEF Keeping, Fed
  <2>3. copy[t] \in Seq(Message) /\ conv' = Trim(copy[t] \o <<Ask(t)>>)
    BY <1>2 DEF Store, TypeOK, Conversation
  <2>4. Contains(conv', t, 1, {})
    BY <2>3, AskContained
  <2>5. Room(turn'[t]) = 1 /\ Stored(turn'[t]) = {}
    BY <2>1, <2>2 DEF Room, Stored
  <2>6. Fed(turn'[t]) /\ Kept(t)'
    BY <2>1, <2>2, <2>4, <2>5 DEF Fed, Kept
  <2>. QED
    BY <1>2, <2>1, <2>6, OneKeeps DEF Live
<1>. QED
  BY <1>1, <1>2 DEF StoreAsk, StepFrom

\* Room for the results of every round and for the answer is what
\* MaxMessages >= 2 + 2 * MaxToolRounds is for.
LEMMA StoreDataKeeps ==
  ASSUME TypeOK, TypeOK', RoundsLeft, Lease, Keeping, NEW t \in Turns, StoreData(t)
  PROVE  Keeping'
<1>. DEFINE r == turn[t].round
            pair == <<Entry("marker", t, r), Data(t, r)>>
<1>0. turn[t] \in TurnRow /\ r \in Nat /\ turn[t].fed \subseteq Nat
  BY DEF TypeOK, TurnRow
<1>1. CASE turn[t].at = "data" /\ Go(t, "noting") /\ Load(t)
  BY <1>1, LoadKeeps DEF Live
<1>2. CASE turn[t].at = "noting" /\ Go(t, "show") /\ Store(t, pair)
  <2>1. /\ \A x \in Turns \ {t} : turn'[x] = turn[x]
        /\ turn'[t].at = "show" /\ turn'[t].round = r
        /\ turn'[t].fed = turn[t].fed /\ turn'[t].alone = turn[t].alone
    BY <1>2, GoWhole
  <2>2. \A k \in turn[t].fed : k < r \/ k = r
    BY <1>2 DEF Keeping, Fed
  <2>3. Fed(turn'[t])
    BY <2>1, <2>2 DEF Fed
  <2>4. ASSUME Undisturbed(t)'
        PROVE  Contains(conv', t, Room(turn'[t]), Stored(turn'[t]))
    <3>1. Undisturbed(t)
      BY <1>2, <2>1, <2>4 DEF Undisturbed, Started, Live
    <3>2. Contains(conv, t, Room(turn[t]), Stored(turn[t])) /\ copy[t] = conv
      BY <1>2, <3>1 DEF Keeping, Kept
    <3>3. conv' = Trim(conv \o pair) /\ conv \in Seq(Message)
      BY <1>2, <3>2 DEF Store, TypeOK, Conversation
    <3>4. pair \in Seq(Message) /\ Len(pair) = 2 /\ pair[2] = Data(t, r)
      BY <1>0, EntryTyped DEF Data
    <3>5. Room(turn[t]) = 1 + 2 * r /\ Room(turn'[t]) = 3 + 2 * r
      BY <1>0, <1>2, <2>1 DEF Room
    <3>6. 1 + 2 * r + 2 <= MaxMessages
      <4>1. r < MaxToolRounds
        BY <1>2 DEF RoundsLeft
      <4>. QED
        BY <1>0, <4>1, AssistantAssumption
    <3>7. \A k \in Stored(turn'[t]) : k \in Stored(turn[t]) \/ k = r
      BY <1>2, <2>1, <2>2 DEF Stored
    <3>. HIDE DEF pair, r
    <3>8. Contains(Trim(conv \o pair), t, 1 + 2 * r + 2, Stored(turn'[t]))
      <4>1. 1 + 2 * r \in Nat /\ 2 \in 1..Len(pair)
        BY <1>0, <3>4
      <4>2. \A k \in Stored(turn'[t]) :
              k \in Stored(turn[t]) \/ \E i \in 1..Len(pair) : pair[i] = Data(t, k)
        BY <3>4, <3>7, <4>1
      <4>3. Contains(conv, t, 1 + 2 * r, Stored(turn[t]))
        BY <3>2, <3>5
      <4>. QED
        BY <3>3, <3>4, <3>6, <4>1, <4>2, <4>3, StoreContains
    <3>9. 1 + 2 * r + 2 = 3 + 2 * r
      BY <1>0
    <3>. QED
      BY <3>3, <3>5, <3>8, <3>9
  <2>5. Kept(t)'
    BY <2>1, <2>4 DEF Kept
  <2>. QED
    BY <1>2, <2>1, <2>3, <2>5, OneKeeps DEF Live
<1>. QED
  BY <1>1, <1>2 DEF StoreData, StepFrom

LEMMA StoreAnswerKeeps ==
  ASSUME TypeOK, TypeOK', Lease, Keeping, NEW t \in Turns, StoreAnswer(t)
  PROVE  Keeping'
<1>. DEFINE r == turn[t].round
            one == <<Entry("answer", t, 0)>>
<1>0. turn[t] \in TurnRow /\ r \in Nat /\ r <= MaxToolRounds
  BY AssistantAssumption DEF TypeOK, TurnRow
<1>1. CASE turn[t].at = "answer" /\ Go(t, "closing") /\ Load(t)
  BY <1>1, LoadKeeps DEF Live
<1>2. CASE turn[t].at = "closing" /\ Go(t, "emit") /\ Store(t, one)
  <2>1. /\ \A x \in Turns \ {t} : turn'[x] = turn[x]
        /\ turn'[t].at = "emit" /\ turn'[t].round = r
        /\ turn'[t].fed = turn[t].fed /\ turn'[t].alone = turn[t].alone
    BY <1>2, GoWhole
  <2>2. Fed(turn'[t])
    BY <1>2, <2>1 DEF Keeping, Fed
  <2>3. ASSUME Undisturbed(t)'
        PROVE  Contains(conv', t, Room(turn'[t]), Stored(turn'[t]))
    <3>1. Undisturbed(t)
      BY <1>2, <2>1, <2>3 DEF Undisturbed, Started, Live
    <3>2. Contains(conv, t, Room(turn[t]), Stored(turn[t])) /\ copy[t] = conv
      BY <1>2, <3>1 DEF Keeping, Kept
    <3>3. conv' = Trim(conv \o one) /\ conv \in Seq(Message)
      BY <1>2, <3>2 DEF Store, TypeOK, Conversation
    <3>4. one \in Seq(Message) /\ Len(one) = 1
      BY EntryTyped
    <3>5. /\ Room(turn[t]) = 1 + 2 * r /\ Room(turn'[t]) = 1 + 2 * r + 1
          /\ 1 + 2 * r \in Nat /\ 1 + 2 * r + 1 <= MaxMessages
      BY <1>0, <1>2, <2>1, AssistantAssumption DEF Room
    <3>6. Stored(turn'[t]) = Stored(turn[t])
      BY <1>2, <2>1 DEF Stored
    <3>. HIDE DEF one, r
    <3>7. Contains(Trim(conv \o one), t, 1 + 2 * r + 1, Stored(turn'[t]))
      BY <3>2, <3>3, <3>4, <3>5, <3>6, StoreContains
    <3>. QED
      BY <3>3, <3>5, <3>7
  <2>4. Kept(t)'
    BY <2>1, <2>3 DEF Kept
  <2>. QED
    BY <1>2, <2>1, <2>2, <2>4, OneKeeps DEF Live
<1>. QED
  BY <1>1, <1>2 DEF StoreAnswer, StepFrom

LEMMA ProceedKeeps ==
  ASSUME TypeOK, TypeOK', RoundsLeft, Lease, Keeping, NEW t \in Turns, Proceed(t)
  PROVE  Keeping'
<1>1. CASE HitRateLimit(t)
  <2>1. CASE turn[t].at = "locked" /\ Finish(t)
    BY <2>1, FinishKeeps DEF Live
  <2>2. CASE turn[t].at = "locked" /\ Go(t, "begun")
    <3>1. /\ \A x \in Turns \ {t} : turn'[x] = turn[x]
          /\ turn'[t].at = "begun" /\ turn'[t].round = turn[t].round
          /\ turn'[t].fed = turn[t].fed
      BY <2>2, GoWhole
    <3>2. Fed(turn'[t])
      BY <2>2, <3>1 DEF Keeping, Fed
    <3>3. Kept(t)'
      BY <3>1 DEF Kept, Undisturbed, Started
    <3>. QED
      BY <2>2, <3>1, <3>2, <3>3, OneKeeps DEF Live
  <2>. QED
    BY <1>1, <2>1, <2>2 DEF HitRateLimit
<1>2. CASE Emit(t)
  BY <1>2, FinishKeeps DEF Emit, EndTurn, Live
<1>. QED
  BY <1>1, <1>2, ReadsNothingKeeps, StoreAskKeeps, ModelCallsToolsKeeps, StoreDataKeeps,
     ShowFramesKeeps, StoreAnswerKeeps DEF Proceed

LEMMA KeepingKept ==
  ASSUME TypeOK, TypeOK', RoundsLeft, Lease, Keeping, [Next]_vars
  PROVE  Keeping'
<1>1. ASSUME NEW t \in Turns, BeginTurn(t)
      PROVE  Keeping'
  <2>1. /\ turn[t].at = "new" /\ UNCHANGED <<conv, copy>>
        /\ turn' = [turn EXCEPT ![t] = At("locked")] \/ Finish(t)
    BY <1>1 DEF BeginTurn
  <2>2. /\ turn'[t] \in {At("locked"), At("done")}
        /\ \A x \in Turns \ {t} : turn'[x] = turn[x]
    BY <2>1 DEF Finish, TypeOK
  <2>3. Fed(turn'[t]) /\ ~Undisturbed(t)'
    BY <2>2 DEF Fed, At, Undisturbed, Started, Live
  <2>4. ASSUME NEW x \in Turns \ {t}
        PROVE  Fed(turn'[x]) /\ Kept(x)'
    BY <2>1, <2>2, <2>4 DEF Keeping, Kept, Undisturbed, Started, Live, Contains
  <2>. QED
    BY <2>3, <2>4 DEF Keeping, Kept
<1>2. ASSUME NEW t \in Turns, Disconnect(t) \/ Crash(t)
      PROVE  Keeping'
  BY <1>2, FinishKeeps DEF Disconnect, EndTurn, Crash, Live
<1>3. CASE Disturb
  <2>1. \A x \in Turns :
          /\ turn'[x].at = turn[x].at /\ turn'[x].round = turn[x].round
          /\ turn'[x].fed = turn[x].fed
          /\ Started(x) => turn'[x].alone = FALSE
    BY <1>3 DEF Disturb, TypeOK, TurnRow
  <2>2. \A x \in Turns : ~Undisturbed(x)'
    BY <2>1 DEF Undisturbed, Started, Live
  <2>. QED
    BY <2>1, <2>2, NoneKeep
<1>4. CASE turn' = turn /\ conv' = conv /\ \A x \in Turns : copy'[x] = copy[x]
  BY <1>4, NoneKeep DEF Undisturbed
<1>5. CASE Tick
  <2>1. \A x \in Turns :
          /\ turn'[x].at = turn[x].at /\ turn'[x].round = turn[x].round
          /\ turn'[x].fed = turn[x].fed /\ turn'[x].alone = turn[x].alone
    BY <1>5 DEF Tick, TypeOK, TurnRow
  <2>2. UNCHANGED <<conv, copy>>
    BY <1>5 DEF Tick
  <2>. QED
    BY <2>1, <2>2, NoneKeep DEF Undisturbed
<1>6. ASSUME NEW c \in Replies, StoreNote(c) \/ CrashReply(c)
      PROVE  Keeping'
  <2>1. \A x \in Turns : x # c
    BY AssistantAssumption
  <2>2. CASE Disturb
    BY <1>3, <2>2
  <2>3. CASE Load(c) /\ turn' = turn
    BY <1>4, <2>1, <2>3 DEF Load, TypeOK
  <2>4. CASE copy' = [copy EXCEPT ![c] = <<>>] /\ UNCHANGED <<turn, conv>>
    BY <1>4, <2>1, <2>4 DEF TypeOK
  <2>. QED
    BY <1>6, <2>2, <2>3, <2>4 DEF StoreNote, CrashReply, Apart
<1>7. CASE ClearHistory
  BY <1>3, <1>7 DEF ClearHistory
<1>8. CASE UNCHANGED <<turn, conv, copy>>
  BY <1>4, <1>8
<1>. QED
  BY <1>1, <1>2, <1>5, <1>6, <1>7, <1>8, ProceedKeeps
     DEF Next, Reply, Claim, Fetch, Discard, RunTool, Apart, NewMinute, vars

\* What a turn has shown, or is about to show, is in the conversation with its
\* question (ShownIsKept), for any number of tool rounds and any conversation
\* length that has room for one question, two messages per round and an answer:
\* the turn's own messages are the last ones, trimming cuts before its question,
\* and nobody else writes between its reading and its writing back.
THEOREM WhatWasShownIsKept == Spec => []ShownIsKept
<1>. DEFINE Inv == TypeOK /\ RoundsLeft /\ Lease /\ Keeping
<1>1. Init => Inv
  <2>1. Init => Keeping
    BY DEF Init, Keeping, Fed, Kept, Undisturbed, Started, Live, At
  <2>. QED
    BY <2>1, InitTyped DEF Init, RoundsLeft, Lease, TurnsExclusive, Live, At
<1>2. Inv /\ [Next]_vars => Inv'
  BY NextTyped, RoundsKept, LeaseKept, KeepingKept
<1>3. Inv => ShownIsKept
  <2>. SUFFICES ASSUME TypeOK, Keeping, NEW t \in Turns, Undisturbed(t)
                PROVE  /\ Ask(t) \in Range(conv)
                       /\ \A r \in turn[t].fed :
                            r < turn[t].round \/ turn[t].at = "show"
                              => Data(t, r) \in Range(conv)
    BY DEF ShownIsKept, Undisturbed
  <2>1. PICK p \in 1..Len(conv) :
          /\ conv[p] = Ask(t)
          /\ \A r \in Stored(turn[t]) : \E i \in p..Len(conv) : conv[i] = Data(t, r)
    BY DEF Keeping, Kept, Contains
  <2>2. Len(conv) \in Nat /\ DOMAIN conv = 1..Len(conv)
    BY LenProperties DEF TypeOK, Conversation
  <2>3. \A i \in 1..Len(conv) : conv[i] \in Range(conv)
    BY <2>2 DEF Range
  <2>4. \A i \in p..Len(conv) : i \in 1..Len(conv)
    BY <2>2
  <2>. QED
    BY <2>1, <2>3, <2>4 DEF Stored
<1>. QED
  BY <1>1, <1>2, <1>3, PTL DEF Spec
=============================================================================
