------------------------------ MODULE Assistant ------------------------------
(***************************************************************************)
(* One member's AI assistant: ai/views.py, ai/services/turn_guard.py,      *)
(* chat_orchestrator.py, consent_store.py, consent_service.py and          *)
(* conversation_cache.py.                                                  *)
(*                                                                         *)
(* Everything the assistant keeps is in the cache: a turn lock that        *)
(* expires, a counter per minute, consent tokens and claims that expire,   *)
(* and the conversation, which is read, extended and written back.  Only   *)
(* single cache commands are atomic.  A turn is a streaming response; it   *)
(* may lose its client wherever it yields and its worker anywhere.         *)
(* Time is kept as remaining and elapsed times, which Tick moves.          *)
(***************************************************************************)
EXTENDS Integers, Sequences, FiniteSets, FiniteSetsExt, Functions

CONSTANTS
  Turns,            \* chat requests of the member
  Askers,           \* turns in which the model may ask for a consent
  Replies,          \* consent requests of the member
  RateLimit, MaxToolRounds, MaxMessages,
  TurnDeadline, CallTimeout, LockTTL, ConsentTTL,
  Slack             \* time a turn may spend between two model calls

ASSUME AssistantAssumption ==
  /\ RateLimit \in Nat /\ MaxToolRounds \in Nat /\ MaxMessages \in Nat
  /\ TurnDeadline \in Nat /\ CallTimeout \in Nat /\ Slack \in Nat
  /\ ConsentTTL \in Nat /\ LockTTL \in Nat
  /\ LockTTL > TurnDeadline + CallTimeout + 3 * Slack
  /\ MaxMessages >= 2 + 2 * MaxToolRounds
  /\ Turns \cap Replies = {} /\ Askers \subseteq Turns

VARIABLES
  lock,       \* time the turn lock has left; 0: no lock
  hits,       \* turns counted in this minute
  turn,       \* each chat request
  consent,    \* each token, named by the turn that issued it
  reply,      \* each consent request
  conv,       \* the conversation in the cache
  copy        \* what each writer read before it writes back

vars == <<lock, hits, turn, consent, reply, conv, copy>>

\* new      not sent yet               think    told the client it will call
\* locked   lock taken, not counted    call     the model is at work
\* begun    accepted, not started      data     tool results, not yet stored
\* ask      about to store the message show     about to send the frames
\* round    before a model call        answer   about to store the answer
\* emit     about to send the answer   done
\* Each store is two steps; "asking", "noting" and "closing" are between them.
Storing == {"ask", "asking", "data", "noting", "answer", "closing"}
Stages == {"new", "locked", "begun", "round", "think", "call", "show", "emit", "done"}
            \cup Storing

Message == [kind : {"ask", "marker", "data", "answer", "note"}, of : Turns, round : Nat]
Conversation == {s \in Seq(Message) : Len(s) <= MaxMessages}

\* round: tool rounds shown; fed: rounds that had results for the model; age:
\* since the stream was started; phase: since a call began or ended; alone
\* (history): nobody else has written the conversation meanwhile.
TurnRow == [at : Stages, round : 0..MaxToolRounds, fed : SUBSET Nat, age : Nat,
            phase : Nat, alone : BOOLEAN]

\* left, claim: time the token and its claim have left; runs (history): how
\* often the tool has run on it.
Token == [at : {"-", "made", "shown"}, left : 0..ConsentTTL, claim : 0..ConsentTTL, runs : Nat]

ReplyRow == [at : {"new", "done"}] \cup
            [at : {"sent", "claimed", "found", "run", "note", "noting"}, of : Turns, yes : BOOLEAN]

\* The conversation and the tool rounds of a turn stay within their bounds.
TypeOK ==
  /\ lock \in 0..LockTTL /\ hits \in 0..(RateLimit + 1)
  /\ turn \in [Turns -> TurnRow]
  /\ consent \in [Turns -> Token]
  /\ reply \in [Replies -> ReplyRow]
  /\ conv \in Conversation
  /\ copy \in [Turns \cup Replies -> Conversation]

At(at) == [at |-> at, round |-> 0, fed |-> {}, age |-> 0, phase |-> 0, alone |-> TRUE]

Init ==
  /\ lock = 0 /\ hits = 0
  /\ turn = [t \in Turns |-> At("new")]
  /\ consent = [t \in Turns |-> [at |-> "-", left |-> 0, claim |-> 0, runs |-> 0]]
  /\ reply = [c \in Replies |-> [at |-> "new"]]
  /\ conv = <<>> /\ copy = [w \in Turns \cup Replies |-> <<>>]

\* A turn between its lock and the end of its response.
Live(t) == turn[t].at \notin {"new", "done"}
Started(t) == Live(t) /\ turn[t].at \notin {"locked", "begun"}
-----------------------------------------------------------------------------
(* turn_guard.py *)

Go(t, at) == turn' = [turn EXCEPT ![t].at = at]
\* What is left of a finished request does not matter.
Finish(t) == turn' = [turn EXCEPT ![t] = At("done")]

\* cache.add of the lock, with its time to live, by a request that comes in.
BeginTurn(t) ==
  /\ turn[t].at = "new"
  /\ IF lock = 0
     THEN lock' = LockTTL /\ turn' = [turn EXCEPT ![t] = At("locked")]
     ELSE Finish(t) /\ UNCHANGED lock
  /\ UNCHANGED <<hits, consent, reply, conv, copy>>

\* The count of this minute; beyond the limit the lock is given back.
\* Bound: the count stops above the limit.
HitRateLimit(t) ==
  /\ turn[t].at = "locked"
  /\ hits' = Min({hits + 1, RateLimit + 1})
  /\ IF hits + 1 > RateLimit
     THEN lock' = 0 /\ Finish(t)
     ELSE Go(t, "begun") /\ UNCHANGED lock
  /\ UNCHANGED <<consent, reply, conv, copy>>

\* A new minute has its own key.
NewMinute ==
  /\ hits > 0 /\ hits' = 0
  /\ UNCHANGED <<lock, turn, consent, reply, conv, copy>>

\* The stream is closed: the lock is deleted, whoever's it is.
EndTurn(t) ==
  /\ lock' = 0 /\ Finish(t)
  /\ UNCHANGED <<hits, consent, reply, conv, copy>>

\* The client is gone: the stream is closed where it yields, or before it
\* was ever started.
Disconnect(t) == turn[t].at \in {"begun", "think", "show", "emit"} /\ EndTurn(t)

\* The worker is gone: nothing is closed, nothing is deleted.
Crash(t) ==
  /\ Live(t) /\ Finish(t)
  /\ copy' = [copy EXCEPT ![t] = <<>>]
  /\ UNCHANGED <<lock, hits, consent, reply, conv>>
-----------------------------------------------------------------------------
(* conversation_cache.py *)

Entry(kind, t, r) == [kind |-> kind, of |-> t, round |-> r]
Ask(t) == Entry("ask", t, 0)
Data(t, r) == Entry("data", t, r)
Note(t) == Entry("note", t, 0)

\* Slip: the window is one message too long.
TrimLate(s) ==
  IF Len(s) <= MaxMessages THEN s
  ELSE LET window == (Len(s) - MaxMessages)..Len(s)
           kept == {i \in window : \E j \in window : j <= i /\ s[j].kind = "ask"}
       IN  SubSeq(s, Len(s) - Cardinality(kept) + 1, Len(s))

\* The last messages, from the first that begins a turn.
Trim(s) ==
  IF Len(s) <= MaxMessages THEN s
  ELSE LET window == (Len(s) - MaxMessages + 1)..Len(s)
           kept == {i \in window : \E j \in window : j <= i /\ s[j].kind = "ask"}
       IN  SubSeq(s, Len(s) - Cardinality(kept) + 1, Len(s))

Load(w) == copy' = [copy EXCEPT ![w] = conv] /\ UNCHANGED conv
Store(w, messages) == /\ conv' = Trim(copy[w] \o messages)
                      /\ copy' = [copy EXCEPT ![w] = <<>>]

Disturb == turn' = [t \in Turns |-> IF Started(t) THEN [turn[t] EXCEPT !.alone = FALSE] ELSE turn[t]]

\* clear_history, or an hour without a message.
ClearHistory ==
  /\ conv # <<>> /\ conv' = <<>> /\ Disturb
  /\ UNCHANGED <<lock, hits, consent, reply, copy>>
-----------------------------------------------------------------------------
(* chat_orchestrator.py: one turn *)

Unguarded == UNCHANGED <<lock, hits, reply>>

\* The stream is iterated: its clock starts.  The history read here is the
\* model's input and is not kept in the model.
Start(t) ==
  /\ turn[t].at = "begun" /\ Go(t, "ask")
  /\ Unguarded /\ UNCHANGED <<consent, conv, copy>>

StepFrom(t, from, to, messages) ==
  \/ /\ turn[t].at = from[1] /\ Go(t, from[2]) /\ Load(t)
  \/ /\ turn[t].at = from[2] /\ Go(t, to) /\ Store(t, messages)

StoreAsk(t) ==
  /\ StepFrom(t, <<"ask", "asking">>, "round", <<Ask(t)>>)
  /\ Unguarded /\ UNCHANGED consent

\* Slip: the deadline is looked at after the tools only.
CheckLate(t) ==
  /\ turn[t].at = "round" /\ Go(t, "think")
  /\ Unguarded /\ UNCHANGED <<consent, conv, copy>>

\* Before every call, the forced one included.
CheckDeadline(t) ==
  /\ turn[t].at = "round"
  /\ Go(t, IF turn[t].age > TurnDeadline THEN "answer" ELSE "think")
  /\ Unguarded /\ UNCHANGED <<consent, conv, copy>>

CallModel(t) ==
  /\ turn[t].at = "think"
  /\ turn' = [turn EXCEPT ![t].at = "call", ![t].phase = 0]
  /\ Unguarded /\ UNCHANGED <<consent, conv, copy>>

\* A text, nothing the model could learn from, or an exception: the turn is
\* over but for its answer.
ModelAnswers(t) ==
  /\ turn[t].at = "call"
  /\ turn' = [turn EXCEPT ![t].at = "answer", ![t].phase = 0]
  /\ Unguarded /\ UNCHANGED <<consent, conv, copy>>

\* _process_tool_calls.  Tools that need no consent have run, or failed; a
\* tool that needs it gets a token.  fed: there is something to feed back.
\* The last call has no tools, and what it asks for all the same is dropped.
\* Bound: a turn issues one token at most, and only the turns of Askers do.
ModelCallsTools(t, fed, asks) ==
  /\ turn[t].at = "call" /\ turn[t].round < MaxToolRounds
  /\ fed \/ asks
  /\ asks => t \in Askers
  /\ turn' = [turn EXCEPT ![t].at = IF fed THEN "data" ELSE "show",
                          ![t].fed = IF fed THEN @ \cup {turn[t].round} ELSE @,
                          ![t].phase = 0]
  /\ IF asks
     THEN consent' = [consent EXCEPT ![t].at = "made", ![t].left = ConsentTTL]
     ELSE UNCHANGED consent
  /\ Unguarded /\ UNCHANGED <<conv, copy>>

\* Slip: the frames go out first.
StoreDataLate(t) ==
  /\ turn[t].at = "data" /\ Go(t, "show")
  /\ Unguarded /\ UNCHANGED <<consent, conv, copy>>

\* Tool results are stored before a frame shows them.
StoreData(t) ==
  LET r == turn[t].round
  IN  /\ StepFrom(t, <<"data", "noting">>, "show", <<Entry("marker", t, r), Data(t, r)>>)
      /\ Unguarded /\ UNCHANGED consent

\* The frames go out; a token among them ends the turn.
ShowFrames(t) ==
  /\ turn[t].at = "show"
  /\ turn' = [turn EXCEPT ![t].at = IF consent[t].at = "made" THEN "answer" ELSE "round",
                          ![t].round = @ + 1]
  /\ consent' = [consent EXCEPT ![t].at = IF @ = "made" THEN "shown" ELSE @]
  /\ Unguarded /\ UNCHANGED <<conv, copy>>

StoreAnswer(t) ==
  /\ StepFrom(t, <<"answer", "closing">>, "emit", <<Entry("answer", t, 0)>>)
  /\ Unguarded /\ UNCHANGED consent

\* content, done, and the end of the response.
Emit(t) == turn[t].at = "emit" /\ EndTurn(t)

Proceed(t) ==
  \/ HitRateLimit(t) \/ Start(t) \/ StoreAsk(t)
  \/ CheckDeadline(t) \/ CallModel(t) \/ ModelAnswers(t)
  \/ \E fed, asks \in BOOLEAN : ModelCallsTools(t, fed, asks)
  \/ StoreData(t) \/ ShowFrames(t) \/ StoreAnswer(t) \/ Emit(t)
-----------------------------------------------------------------------------
(* consent_store.py and consent_service.py: one consent request *)

ReplyGoes(c, at) == reply' = [reply EXCEPT ![c].at = at]
ReplyEnds(c) == reply' = [reply EXCEPT ![c] = [at |-> "done"]]
Apart == UNCHANGED <<lock, hits, turn>>

\* A member answers a token that was shown, as often as there are requests.
Reply(c, t, yes) ==
  /\ reply[c].at = "new" /\ consent[t].at = "shown"
  /\ reply' = [reply EXCEPT ![c] = [at |-> "sent", of |-> t, yes |-> yes]]
  /\ Apart /\ UNCHANGED <<consent, conv, copy>>

\* Slip: the claim is forgotten before the token is.
ClaimBriefly(c) ==
  LET k == consent[reply[c].of]
  IN  /\ reply[c].at = "sent"
      /\ IF k.claim = 0
         THEN /\ consent' = [consent EXCEPT ![reply[c].of].claim = ConsentTTL - 1]
              /\ ReplyGoes(c, "claimed")
         ELSE ReplyEnds(c) /\ UNCHANGED consent
      /\ Apart /\ UNCHANGED <<conv, copy>>

\* cache.add of the claim.
Claim(c) ==
  LET k == consent[reply[c].of]
  IN  /\ reply[c].at = "sent"
      /\ IF k.claim = 0
         THEN /\ consent' = [consent EXCEPT ![reply[c].of].claim = ConsentTTL]
              /\ ReplyGoes(c, "claimed")
         ELSE ReplyEnds(c) /\ UNCHANGED consent
      /\ Apart /\ UNCHANGED <<conv, copy>>

\* The token is read.
Fetch(c) ==
  /\ reply[c].at = "claimed"
  /\ IF consent[reply[c].of].left > 0 THEN ReplyGoes(c, "found") ELSE ReplyEnds(c)
  /\ Apart /\ UNCHANGED <<consent, conv, copy>>

\* And deleted; then the tool runs, or the refusal is noted.
Discard(c) ==
  /\ reply[c].at = "found"
  /\ consent' = [consent EXCEPT ![reply[c].of].left = 0]
  /\ ReplyGoes(c, IF reply[c].yes THEN "run" ELSE "note")
  /\ Apart /\ UNCHANGED <<conv, copy>>

\* The tool raises, and nothing is noted, or it has done its work.
RunTool(c) ==
  /\ reply[c].at = "run"
  /\ \/ ReplyEnds(c) /\ UNCHANGED consent
     \/ /\ consent' = [consent EXCEPT ![reply[c].of].runs = @ + 1]
        /\ ReplyGoes(c, "note")
  /\ Apart /\ UNCHANGED <<conv, copy>>

StoreNote(c) ==
  \/ /\ reply[c].at = "note" /\ ReplyGoes(c, "noting") /\ Load(c)
     /\ Apart /\ UNCHANGED <<consent>>
  \/ /\ reply[c].at = "noting" /\ ReplyEnds(c) /\ Store(c, <<Note(reply[c].of)>>)
     /\ Disturb /\ UNCHANGED <<lock, hits, consent>>

CrashReply(c) ==
  /\ reply[c].at \notin {"new", "done"} /\ ReplyEnds(c)
  /\ copy' = [copy EXCEPT ![c] = <<>>]
  /\ Apart /\ UNCHANGED <<consent, conv>>
-----------------------------------------------------------------------------
(* Time *)

Less(n) == IF n = 0 THEN 0 ELSE n - 1

\* A model call ends within its timeout; what a turn does itself between two
\* calls takes at most the slack.
InTime(t) == turn[t].phase < (IF turn[t].at = "call" THEN CallTimeout ELSE Slack)

\* Slip: the lock is added without a time to live.
TickWithoutTTL ==
  /\ \A t \in Turns : Live(t) => InTime(t)
  /\ turn' = [t \in Turns |->
       IF ~Live(t) THEN turn[t]
       ELSE [turn[t] EXCEPT !.phase = @ + 1, !.age = IF Started(t) THEN @ + 1 ELSE @]]
  /\ consent' = [t \in Turns |->
       [consent[t] EXCEPT !.left = Less(@), !.claim = Less(@)]]
  /\ UNCHANGED <<lock, hits, reply, conv, copy>>

Tick ==
  /\ \A t \in Turns : Live(t) => InTime(t)
  /\ lock' = Less(lock)
  /\ turn' = [t \in Turns |->
       IF ~Live(t) THEN turn[t]
       ELSE [turn[t] EXCEPT !.phase = @ + 1, !.age = IF Started(t) THEN @ + 1 ELSE @]]
  /\ consent' = [t \in Turns |->
       [consent[t] EXCEPT !.left = Less(@), !.claim = Less(@)]]
  /\ UNCHANGED <<hits, reply, conv, copy>>

Next ==
  \/ \E t \in Turns : BeginTurn(t)
  \/ \E t \in Turns : Proceed(t)
  \/ \E t \in Turns : Disconnect(t)
  \/ \E t \in Turns : Crash(t)
  \/ \E c \in Replies, t \in Turns, yes \in BOOLEAN : Reply(c, t, yes)
  \/ \E c \in Replies : Claim(c)
  \/ \E c \in Replies : Fetch(c)
  \/ \E c \in Replies : Discard(c)
  \/ \E c \in Replies : RunTool(c)
  \/ \E c \in Replies : StoreNote(c)
  \/ \E c \in Replies : CrashReply(c)
  \/ NewMinute \/ ClearHistory \/ Tick

Spec == Init /\ [][Next]_vars

\* A turn runs on until its client or its worker is gone, and time passes.
\* Nobody has to ask or to answer.
FairSpec ==
  /\ Spec
  /\ \A t \in Turns : WF_vars(Proceed(t))
  /\ WF_vars(Tick)
-----------------------------------------------------------------------------
(* Properties *)

\* Two turns of one member never run at the same time: the lock outlives the
\* longest turn, and no request deletes the lock of another.
TurnsExclusive == \A s, t \in Turns : Live(s) /\ Live(t) => s = t

\* The operation a token stands for is executed once at most, however many
\* confirmations arrive at a time, and whenever they do.
ConsentSpentOnce == \A t \in Turns : consent[t].runs <= 1

\* What a turn has shown its client, or may be about to, is in the
\* conversation together with its question: a client that is gone at any
\* frame need not ask again.
ShownIsKept ==
  \A t \in Turns :
    Started(t) /\ turn[t].alone /\ turn[t].at \notin {"ask", "asking"} =>
      /\ Ask(t) \in Range(conv)
      /\ \A r \in turn[t].fed :
           r < turn[t].round \/ turn[t].at = "show" => Data(t, r) \in Range(conv)

\* A member is locked out for a while at most, whatever happens to a turn.
LockComesFree == lock > 0 ~> lock = 0
=============================================================================
