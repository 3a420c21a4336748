--------------------------- MODULE Standing_proofs ---------------------------
(***************************************************************************)
(* The trust level for any levels, protection periods and number of        *)
(* overlapping refreshes.  That a level is kept holds whatever overlaps:   *)
(* who removes a group has one to add.  That there is one group only, and  *)
(* kept for the protection period, is an argument about refreshes that     *)
(* come one at a time: the date a refresh works with is no older than the  *)
(* level itself, because a date is cleared whenever a level is added, and  *)
(* an edit of the profile that puts a newer date back is excepted.         *)
(***************************************************************************)
EXTENDS Standing, WellFoundedInduction, TLAPS

Changing == [pc : {"score", "groups", "remove", "add"},
             score : Scores, from : {NoLevel} \cup Levels, protected : Dates]

Alone == overlapped \/ \A c, d \in Callers : call[c] # Idle /\ call[d] # Idle => c = d

Fits(k, g) ==
  /\ k.pc = "remove" => k.from \in g
  /\ k.pc = "add" => g = {}

InOrder == overlapped \/ \A c \in Callers : Fits(call[c], groups)

Timely(k, l, h) ==
  /\ k.pc \in {"score", "groups", "date"} => k.protected <= h
  /\ k.pc \in {"remove", "add"} =>
       k.protected = NoDate /\ (Target(k) < l => Grace[Target(k)] <= h)

Timed ==
  disturbed \/ /\ ~overlapped /\ ~torn
               /\ groups \subseteq {last}
               /\ since <= held \/ \E c \in Callers : InCall(c, "date")
               /\ \A c \in Callers : Timely(call[c], last, held)

Serial == Alone /\ OneLevel /\ InOrder
Inv == TypeOK /\ KeepsALevel /\ Serial /\ Timed
-----------------------------------------------------------------------------
(* The level of a score *)

\* The natural numbers of a set have a smallest.
LEMMA SmallestNat ==
  ASSUME NEW T, T \subseteq Nat, T # {}
  PROVE  \E n \in T : \A m \in T : n <= m
<1> DEFINE R == OpToRel(<, Nat)
<1>1. IsWellFoundedOn(R, Nat)
  BY NatLessThanWellFounded
<1>2. \A m, n \in Nat : m < n => <<m, n>> \in R
  BY DEF OpToRel
<1> HIDE DEF R
<1>3. PICK n \in T : \A m \in T : <<m, n>> \notin R
  BY <1>1, WFMin
<1>4. ASSUME NEW m \in T PROVE n <= m
  <2>1. m \in Nat /\ n \in Nat /\ ~(m < n)
    BY <1>2, <1>3
  <2> QED
    BY <2>1
<1> QED
  BY <1>4

\* So there is a highest level whose min_score is reached, if any is, and what
\* sync_trust_group looks for is a level.
LEMMA ConfigLevelTyped ==
  ASSUME NEW s \in Scores
  PROVE  ConfigLevel(s) \in Levels
<1> DEFINE Reached(l) == s >= MinScore[l]
           Best(l) == (l = 0 \/ Reached(l)) /\ \A m \in Levels : Reached(m) => m <= l
<1>0. Levels \subseteq Int /\ 0 \in Levels /\ \A l \in Levels : Top - l \in Nat
  BY LevelsAssumption DEF Levels
<1>1. ConfigLevel(s) = CHOOSE l \in Levels : Best(l)
  BY DEF ConfigLevel
<1> HIDE DEF Reached
<1>2. \E l \in Levels : Best(l)
  <2>1. CASE \A l \in Levels : ~Reached(l)
    BY <1>0, <2>1
  <2>2. CASE \E l \in Levels : Reached(l)
    <3> DEFINE Below == {Top - l : l \in {m \in Levels : Reached(m)}}
    <3>1. Below \subseteq Nat /\ Below # {}
      BY <1>0, <2>2
    <3>2. PICK n \in Below : \A m \in Below : n <= m
      <4> HIDE DEF Below
      <4> QED
        BY <3>1, SmallestNat
    <3>3. PICK l \in Levels : Reached(l) /\ n = Top - l
      BY <3>2
    <3>4. \A m \in Levels : Reached(m) => Top - l <= Top - m
      BY <3>2, <3>3
    <3>5. \A m \in Levels : Reached(m) => m <= l
      BY <3>4, LevelsAssumption DEF Levels
    <3> QED
      BY <3>3, <3>5
  <2> QED
    BY <2>1, <2>2
<1> HIDE DEF Best
<1> QED
  BY <1>1, <1>2
-----------------------------------------------------------------------------
(* Typing *)

LEMMA SavingTyped ==
  ASSUME NEW date \in Dates
  PROVE  /\ Saving(date) \in Busy /\ Saving(date).pc = "date"
         /\ Saving(date).protected = date /\ Saving(date) # Idle
BY DEF Saving, Busy, Idle

LEMMA ChangingTyped ==
  ASSUME NEW k \in Changing
  PROVE  /\ k \in Busy /\ k # Idle
         /\ k.pc \in {"score", "groups", "remove", "add"}
         /\ Target(k) \in Levels /\ k.from \in {NoLevel} \cup Levels
         /\ k.score \in Scores /\ k.protected \in Dates
<1>1. k.score \in Scores
  BY DEF Changing
<1>2. Target(k) \in Levels
  BY <1>1, ConfigLevelTyped DEF Target
<1> QED
  BY <1>1, <1>2 DEF Changing, Busy, Idle

LEMMA CallTyped ==
  ASSUME TypeOK, NEW c \in Callers
  PROVE  /\ call[c].pc \in {"score", "groups", "remove", "add"} => call[c] \in Changing
         /\ call[c].pc = "date" =>
              call[c].protected \in Dates /\ call[c] = Saving(call[c].protected)
         /\ call[c].pc \in {"idle", "score", "groups", "remove", "add", "date"}
         /\ call[c].pc = "idle" <=> call[c] = Idle
<1>0. call[c] \in {Idle} \cup Busy
  BY DEF TypeOK
<1>1. CASE call[c] = Idle
  BY <1>1 DEF Idle
<1>2. CASE call[c] \in Changing
  BY <1>2, ChangingTyped DEF Idle
<1>3. ASSUME NEW date \in Dates, call[c] = Saving(date)
      PROVE  /\ call[c].pc = "date" /\ call[c].protected = date
             /\ call[c] # Idle
  BY <1>3, SavingTyped
<1> QED
  BY <1>0, <1>1, <1>2, <1>3 DEF Busy, Changing

\* A step of one caller that leaves the types of the rest alone.
LEMMA CallStepTyped ==
  ASSUME TypeOK, NEW c \in Callers, NEW k \in {Idle} \cup Busy,
         call' = [call EXCEPT ![c] = k]
  PROVE  /\ call' \in [Callers -> {Idle} \cup Busy]
         /\ call'[c] = k
         /\ \A d \in Callers \ {c} : call'[d] = call[d]
BY DEF TypeOK

\* What each step of a refresh makes of its call.
LEMMA BeginCall ==
  ASSUME TypeOK, NEW c \in Callers, Begin(c)
  PROVE  \E k \in Changing : /\ call' = [call EXCEPT ![c] = k]
                             /\ k.pc = "score" /\ k.protected = since
<1> DEFINE k == [pc |-> "score", score |-> earned, from |-> NoLevel, protected |-> since]
<1>1. k \in Changing
  BY DEF TypeOK, Changing
<1> QED
  BY <1>1 DEF Begin

LEMMA PcCall ==
  ASSUME TypeOK, NEW c \in Callers, call[c] \in Changing,
         call' = [call EXCEPT ![c].pc = "groups"]
  PROVE  \E k \in Changing :
           /\ call' = [call EXCEPT ![c] = k] /\ k.pc = "groups"
           /\ k.protected = call[c].protected
<1> DEFINE k == [call[c] EXCEPT !.pc = "groups"]
<1>1. k \in Changing /\ k.pc = "groups" /\ k.protected = call[c].protected
  BY DEF Changing
<1>2. call' = [call EXCEPT ![c] = k]
  BY DEF TypeOK
<1> QED
  BY <1>1, <1>2

LEMMA RemoveCall ==
  ASSUME TypeOK, NEW c \in Callers, call[c] \in Changing, RemoveGroup(c)
  PROVE  \E k \in Changing :
           /\ call' = [call EXCEPT ![c] = k] /\ k.pc = "add"
           /\ Target(k) = Target(call[c]) /\ k.protected = call[c].protected
<1> DEFINE k == [call[c] EXCEPT !.pc = "add", !.from = NoLevel]
<1>1. k \in Changing /\ k.pc = "add" /\ k.score = call[c].score
        /\ k.protected = call[c].protected
  BY DEF Changing
<1>2. call' = [call EXCEPT ![c] = k]
  BY DEF TypeOK, RemoveGroup
<1> QED
  BY <1>1, <1>2 DEF Target

LEMMA ChangeCall ==
  ASSUME TypeOK, NEW c \in Callers, NEW pc \in {"remove", "add"},
         NEW l \in {NoLevel} \cup Levels,
         call[c] \in Changing, Change(c, pc, l, NoDate)
  PROVE  \E k \in Changing :
           /\ call' = [call EXCEPT ![c] = k] /\ k.pc = pc /\ k.from = l
           /\ Target(k) = Target(call[c]) /\ k.protected = NoDate
<1> DEFINE k == [call[c] EXCEPT !.pc = pc, !.from = l, !.protected = NoDate]
<1>1. k \in Changing /\ k.pc = pc /\ k.from = l /\ k.score = call[c].score
        /\ k.protected = NoDate
  BY DEF Changing, Dates
<1> QED
  BY <1>1 DEF Change, Decided, Target

LEMMA OlderTyped ==
  ASSUME NEW date \in Dates
  PROVE  /\ Older(date) \in Dates
         /\ date \in 0..MaxWeeks => Older(date) \in 0..MaxWeeks /\ date <= Older(date)
         /\ date = NoDate => Older(date) = NoDate
         /\ \A h \in 0..MaxWeeks : date <= h => Older(date) <= Older(h)
BY LevelsAssumption DEF Older, Dates, NoDate

LEMMA WeekCall ==
  ASSUME TypeOK, Week, NEW c \in Callers
  PROVE  /\ call'[c] \in {Idle} \cup Busy
         /\ call'[c].pc = call[c].pc
         /\ call[c] = Idle <=> call'[c] = Idle
         /\ call[c] # Idle => call'[c].protected = Older(call[c].protected)
         /\ call[c] \in Changing =>
              Target(call'[c]) = Target(call[c]) /\ call'[c].from = call[c].from
<1>1. CASE call[c] = Idle
  <2>1. call'[c] = Idle
    BY <1>1 DEF Week
  <2>2. call[c] \notin Changing
    BY <1>1 DEF Idle, Changing
  <2> QED
    BY <1>1, <2>1, <2>2
<1>2. CASE call[c] \in Changing
  <2> DEFINE k == [call[c] EXCEPT !.protected = Older(@)]
  <2>1. call'[c] = k
    BY <1>2, ChangingTyped DEF Week
  <2>2. Older(call[c].protected) \in Dates
    BY <1>2, ChangingTyped, OlderTyped
  <2>3. /\ k \in Changing /\ k.pc = call[c].pc /\ k.score = call[c].score
        /\ k.from = call[c].from /\ k.protected = Older(call[c].protected)
    BY <1>2, <2>2 DEF Changing
  <2> QED
    BY <1>2, <2>1, <2>3, ChangingTyped DEF Target
<1>3. CASE call[c].pc = "date"
  <2> DEFINE k == [call[c] EXCEPT !.protected = Older(@)]
  <2>1. call[c] = Saving(call[c].protected) /\ call[c].protected \in Dates /\ call[c] # Idle
    BY <1>3, CallTyped, SavingTyped
  <2>2. call'[c] = k
    BY <2>1 DEF Week
  <2>3. Older(call[c].protected) \in Dates
    BY <2>1, OlderTyped
  <2>4. k = Saving(Older(call[c].protected))
    BY <2>1 DEF Saving
  <2>5. call[c] \notin Changing
    BY <1>3 DEF Changing
  <2> QED
    BY <1>3, <2>1, <2>2, <2>3, <2>4, <2>5, SavingTyped
<1> QED
  BY <1>1, <1>2, <1>3, CallTyped

LEMMA LoadedTyped ==
  ASSUME NEW k \in Loaded
  PROVE  k # Idle /\ k.score \in Scores /\ k.since \in Dates
BY DEF Loaded, Idle

LEMMA EditTyped ==
  ASSUME TypeOK, NEW e \in Editors
  PROVE  edit[e] = Idle \/ edit[e] \in Loaded
BY DEF TypeOK

\* What the history keeps.
LEMMA RecallStep ==
  ASSUME TypeOK, NEW o \in BOOLEAN, NEW t \in BOOLEAN, NEW d \in BOOLEAN, Recall(o, t, d)
  PROVE  /\ last' \in {NoLevel} \cup Levels /\ held' \in 0..MaxWeeks
         /\ overlapped' = o /\ torn' = t /\ disturbed' = d
         /\ last = NoLevel => last' = NoLevel
         /\ ~d => last' = last /\ held' = held
BY LevelsAssumption DEF TypeOK, Recall, Levels

\* What an action that may disturb the history leaves in it.
Kept ==
  /\ last' \in {NoLevel} \cup Levels /\ held' \in 0..MaxWeeks
  /\ overlapped' \in BOOLEAN /\ torn' \in BOOLEAN /\ disturbed' \in BOOLEAN
  /\ last = NoLevel => last' = NoLevel
  /\ disturbed => disturbed'
  /\ ~disturbed' => last' = last /\ held' = held

LEMMA BeginHistory ==
  ASSUME TypeOK, NEW c \in Callers, Begin(c)
  PROVE  /\ Kept /\ torn' = torn
         /\ overlapped' <=> (overlapped \/ \E d \in Callers : call[d] # Idle)
         /\ overlapped' => disturbed'
<1> DEFINE o == overlapped \/ \E d \in Callers : call[d] # Idle
<1>1. Recall(o, torn, disturbed \/ o)
  BY DEF Begin
<1>2. o \in BOOLEAN /\ torn \in BOOLEAN /\ disturbed \in BOOLEAN
  BY DEF TypeOK
<1> HIDE DEF o
<1>3. (disturbed \/ o) \in BOOLEAN
  BY <1>2
<1>4. o <=> (overlapped \/ \E d \in Callers : call[d] # Idle)
  BY DEF o
<1> QED
  BY <1>1, <1>2, <1>3, <1>4, RecallStep DEF Kept

LEMMA CrashHistory ==
  ASSUME TypeOK, NEW c \in Callers, Crash(c)
  PROVE  /\ Kept /\ overlapped' = overlapped
         /\ torn' <=> (torn \/ call[c].pc \in {"add", "date"})
         /\ torn' => disturbed'
<1> DEFINE t == torn \/ call[c].pc \in {"add", "date"}
<1>1. Recall(overlapped, t, disturbed \/ t)
  BY DEF Crash
<1>2. t \in BOOLEAN /\ overlapped \in BOOLEAN /\ disturbed \in BOOLEAN
  BY DEF TypeOK
<1>3. t <=> (torn \/ call[c].pc \in {"add", "date"})
  OBVIOUS
<1> HIDE DEF t
<1>4. (disturbed \/ t) \in BOOLEAN
  BY <1>2
<1> QED
  BY <1>1, <1>2, <1>3, <1>4, RecallStep DEF Kept

LEMMA SaveHistory ==
  ASSUME TypeOK, NEW e \in Editors, SaveProfile(e)
  PROVE  /\ Kept /\ overlapped' = overlapped /\ torn' = torn
         /\ disturbed' \/ since' \in {NoDate, since}
<1> DEFINE d == edit[e].since \notin {NoDate, since}
<1>1. Recall(overlapped, torn, disturbed \/ d) /\ since' = edit[e].since
  BY DEF SaveProfile
<1>2. overlapped \in BOOLEAN /\ torn \in BOOLEAN /\ (disturbed \/ d) \in BOOLEAN
  BY DEF TypeOK
<1>3. d \/ since' \in {NoDate, since}
  BY <1>1
<1> HIDE DEF d
<1> QED
  BY <1>1, <1>2, <1>3, RecallStep DEF Kept

LEMMA InitTyped == Init => TypeOK
<1> SUFFICES ASSUME Init PROVE TypeOK
  OBVIOUS
<1>1. earned \in Scores /\ score \in Scores /\ groups \subseteq Levels
  BY LevelsAssumption DEF Init, Levels
<1>2. call \in [Callers -> {Idle} \cup Busy] /\ edit \in [Editors -> {Idle} \cup Loaded]
  BY DEF Init
<1>3. since \in Dates /\ crashes \in 0..MaxCrashes /\ held \in 0..MaxWeeks
  BY LevelsAssumption DEF Init, Dates
<1> QED
  BY <1>1, <1>2, <1>3 DEF Init, TypeOK

LEMMA NextTyped == TypeOK /\ [Next]_vars => TypeOK'
<1> SUFFICES ASSUME TypeOK, [Next]_vars PROVE TypeOK'
  OBVIOUS
<1> USE DEF profile, history
<1>1. ASSUME NEW s \in Scores, Earn(s) PROVE TypeOK'
  BY <1>1 DEF TypeOK, Earn
<1>2. ASSUME NEW c \in Callers, Begin(c) PROVE TypeOK'
  <2>1. call' \in [Callers -> {Idle} \cup Busy]
    BY <1>2, BeginCall, ChangingTyped, CallStepTyped
  <2> QED
    BY <1>2, <2>1, BeginHistory DEF TypeOK, Begin, Kept
<1>3. ASSUME NEW c \in Callers, SaveScore(c) PROVE TypeOK'
  <2>1. call[c] \in Changing
    BY <1>3, CallTyped DEF SaveScore, InCall
  <2>2. call' = [call EXCEPT ![c].pc = "groups"]
    BY <1>3 DEF SaveScore
  <2>3. PICK k \in Changing : call' = [call EXCEPT ![c] = k]
    BY <2>1, <2>2, PcCall
  <2>4. call' \in [Callers -> {Idle} \cup Busy]
    BY <2>3, ChangingTyped, CallStepTyped
  <2> QED
    BY <1>3, <2>1, <2>4, ChangingTyped DEF TypeOK, SaveScore
<1>4. ASSUME NEW c \in Callers, NEW k \in {Idle} \cup Busy, Decided(c, k) PROVE TypeOK'
  BY <1>4, CallStepTyped DEF TypeOK, Decided
<1>5. ASSUME NEW c \in Callers, NEW pc \in {"remove", "add"}, NEW l \in {NoLevel} \cup Levels,
             InCall(c, "groups"), Change(c, pc, l, NoDate)
      PROVE  TypeOK'
  <2>1. call[c] \in Changing
    BY <1>5, CallTyped DEF InCall
  <2>2. call' \in [Callers -> {Idle} \cup Busy]
    BY <1>5, <2>1, ChangeCall, ChangingTyped, CallStepTyped
  <2> QED
    BY <1>5, <2>2 DEF TypeOK, Change, Decided
<1>6. ASSUME NEW c \in Callers, FirstLevel(c) PROVE TypeOK'
  BY <1>5, <1>6 DEF FirstLevel, Finding
<1>7. ASSUME NEW c \in Callers, NEW l \in Levels,
             Upgrade(c, l) \/ Protect(c, l) \/ Demote(c, l) \/ Stay(c, l)
      PROVE  TypeOK'
  <2>1. CASE Upgrade(c, l)
    BY <1>5, <2>1 DEF Upgrade, Finding
  <2>2. CASE Protect(c, l)
    <3>1. 0 \in Dates
      BY LevelsAssumption DEF Dates
    <3> QED
      BY <1>4, <2>2, <3>1, SavingTyped DEF Protect
  <2>3. CASE Demote(c, l)
    BY <1>5, <2>3 DEF Demote, Finding
  <2>4. CASE Stay(c, l)
    BY <1>4, <2>4 DEF Stay
  <2> QED
    BY <1>7, <2>1, <2>2, <2>3, <2>4
<1>8. ASSUME NEW c \in Callers, RemoveGroup(c) PROVE TypeOK'
  <2>1. call[c] \in Changing
    BY <1>8, CallTyped DEF RemoveGroup, InCall
  <2>3. PICK k \in Changing : call' = [call EXCEPT ![c] = k]
    BY <1>8, <2>1, RemoveCall
  <2>4. call' \in [Callers -> {Idle} \cup Busy]
    BY <2>3, ChangingTyped, CallStepTyped
  <2> QED
    BY <1>8, <2>4 DEF TypeOK, RemoveGroup
<1>9. ASSUME NEW c \in Callers, AddGroup(c) PROVE TypeOK'
  <2>1. call[c] \in Changing
    BY <1>9, CallTyped DEF AddGroup, InCall
  <2>2. Target(call[c]) \in Levels /\ call[c].protected \in Dates
    BY <2>1, ChangingTyped
  <2>3. call' = [call EXCEPT ![c] = Saving(call[c].protected)]
    BY <1>9 DEF AddGroup
  <2>4. call' \in [Callers -> {Idle} \cup Busy]
    BY <2>2, <2>3, SavingTyped, CallStepTyped
  <2>5. last' \in {NoLevel} \cup Levels /\ held' \in 0..MaxWeeks
    BY <1>9, <2>2, LevelsAssumption DEF AddGroup, Joined, Levels
  <2> QED
    BY <1>9, <2>2, <2>4, <2>5 DEF TypeOK, AddGroup
<1>10. ASSUME NEW c \in Callers, SaveDate(c) PROVE TypeOK'
  BY <1>10, CallTyped, CallStepTyped DEF TypeOK, SaveDate, InCall
<1>11. ASSUME NEW c \in Callers, Crash(c) PROVE TypeOK'
  <2>1. crashes' \in 0..MaxCrashes
    BY <1>11, LevelsAssumption DEF Crash, TypeOK
  <2> QED
    BY <1>11, <2>1, CallStepTyped, CrashHistory DEF TypeOK, Crash, Kept
<1>12. CASE Week
  <2>1. call' \in [Callers -> {Idle} \cup Busy]
    <3>1. call' = [c \in Callers |-> call'[c]]
      BY <1>12 DEF Week
    <3> QED
      BY <1>12, <3>1, WeekCall
  <2>2. since' \in Dates
    BY <1>12, OlderTyped DEF Week, TypeOK
  <2>3. held' \in 0..MaxWeeks
    BY <1>12, OlderTyped, LevelsAssumption DEF Week, TypeOK, Dates
  <2>4. edit' \in [Editors -> {Idle} \cup Loaded]
    <3>1. ASSUME NEW e \in Editors, edit[e] \in Loaded
          PROVE  [edit[e] EXCEPT !.since = Older(@)] \in Loaded
      <4>1. Older(edit[e].since) \in Dates
        BY <3>1, LoadedTyped, OlderTyped
      <4> QED
        BY <3>1, <4>1 DEF Loaded
    <3> QED
      BY <1>12, <3>1, EditTyped DEF Week
  <2> QED
    BY <1>12, <2>1, <2>2, <2>3, <2>4 DEF TypeOK, Week
<1>13. ASSUME NEW e \in Editors, LoadProfile(e) PROVE TypeOK'
  <2>1. [pc |-> "loaded", score |-> score, since |-> since] \in Loaded
    BY DEF TypeOK, Loaded
  <2> QED
    BY <1>13, <2>1 DEF TypeOK, LoadProfile
<1>14. ASSUME NEW e \in Editors, SaveProfile(e) PROVE TypeOK'
  <2>1. score' \in Scores /\ since' \in Dates /\ earned' \in Scores
    BY <1>14, EditTyped, LoadedTyped DEF SaveProfile
  <2>2. edit' \in [Editors -> {Idle} \cup Loaded]
    BY <1>14 DEF TypeOK, SaveProfile
  <2> QED
    BY <1>14, <2>1, <2>2, SaveHistory DEF TypeOK, SaveProfile, Kept
<1>15. ASSUME NEW e \in Editors, DropProfile(e) PROVE TypeOK'
  BY <1>15 DEF TypeOK, DropProfile
<1>16. CASE UNCHANGED vars
  BY <1>16 DEF TypeOK, vars
<1> QED
  BY <1>1, <1>2, <1>3, <1>6, <1>7, <1>8, <1>9, <1>10, <1>11, <1>12, <1>13, <1>14, <1>15, <1>16
     DEF Next, Proceed

\* The tables, the calls in progress and the history have their types.
THEOREM TypeCorrect == Spec => []TypeOK
BY InitTyped, NextTyped, PTL DEF Spec
-----------------------------------------------------------------------------
(* What the decision of sync_trust_group comes to *)

Deciding(c) ==
  \/ FirstLevel(c)
  \/ \E l \in Levels : Upgrade(c, l) \/ Protect(c, l) \/ Demote(c, l) \/ Stay(c, l)

\* The call goes on as k.
Sound(c, k) ==
  \/ k = Idle \/ k = Saving(0)
  \/ /\ k \in Changing /\ k.pc = "add" /\ groups = {}
     /\ Target(k) = Target(call[c]) /\ k.protected = NoDate
  \/ /\ k \in Changing /\ k.pc = "remove" /\ k.from \in groups
     /\ Target(k) = Target(call[c]) /\ k.protected = NoDate
     /\ Target(k) > k.from \/ call[c].protected >= Grace[Target(k)]

LEMMA DecidingStep ==
  ASSUME TypeOK, NEW c \in Callers, Deciding(c)
  PROVE  /\ call[c] \in Changing /\ call[c].pc = "groups"
         /\ UNCHANGED <<earned, profile, edit, crashes, history>>
         /\ \E k \in {Idle} \cup Busy : Sound(c, k) /\ call' = [call EXCEPT ![c] = k]
<1>1. call[c].pc = "groups"
  BY DEF Deciding, FirstLevel, Upgrade, Protect, Demote, Stay, Finding, InCall
<1>2. call[c] \in Changing
  BY <1>1, CallTyped
<1>3. UNCHANGED <<earned, profile, edit, crashes, history>>
  BY DEF Deciding, FirstLevel, Upgrade, Protect, Demote, Stay, Change, Decided
<1>4. CASE FirstLevel(c)
  <2>1. groups = {}
    BY <1>4, LevelsAssumption DEF FirstLevel, Finding, TypeOK, NoLevel, Levels
  <2>2. Change(c, "add", NoLevel, NoDate)
    BY <1>4 DEF FirstLevel
  <2>3. PICK k \in Changing :
          /\ call' = [call EXCEPT ![c] = k] /\ k.pc = "add"
          /\ Target(k) = Target(call[c]) /\ k.protected = NoDate
    BY <1>2, <2>2, ChangeCall
  <2> QED
    BY <1>1, <1>2, <1>3, <2>1, <2>3, ChangingTyped DEF Sound
<1>5. ASSUME NEW l \in Levels, Upgrade(c, l) \/ Demote(c, l)
      PROVE  \E k \in {Idle} \cup Busy : Sound(c, k) /\ call' = [call EXCEPT ![c] = k]
  <2>1. l \in groups
    BY <1>5, LevelsAssumption DEF Upgrade, Demote, Finding, NoLevel, Levels
  <2>2. Change(c, "remove", l, NoDate)
    BY <1>5 DEF Upgrade, Demote
  <2>3. Target(call[c]) > l \/ call[c].protected >= Grace[Target(call[c])]
    BY <1>5 DEF Upgrade, Demote
  <2>4. PICK k \in Changing :
          /\ call' = [call EXCEPT ![c] = k] /\ k.pc = "remove" /\ k.from = l
          /\ Target(k) = Target(call[c]) /\ k.protected = NoDate
    BY <1>2, <2>2, ChangeCall
  <2>5. Target(k) > k.from \/ call[c].protected >= Grace[Target(k)]
    BY <2>3, <2>4
  <2>6. Sound(c, k)
    BY <2>1, <2>4, <2>5 DEF Sound
  <2> QED
    BY <2>4, <2>6, ChangingTyped
<1>6. ASSUME NEW l \in Levels, Protect(c, l) \/ Stay(c, l)
      PROVE  \E k \in {Idle} \cup Busy : Sound(c, k) /\ call' = [call EXCEPT ![c] = k]
  <2>1. call' = [call EXCEPT ![c] = Saving(0)] \/ call' = [call EXCEPT ![c] = Idle]
    BY <1>6 DEF Protect, Stay, Decided
  <2>2. 0 \in Dates
    BY LevelsAssumption DEF Dates
  <2> QED
    BY <2>1, <2>2, SavingTyped DEF Sound
<1> QED
  BY <1>1, <1>2, <1>3, <1>4, <1>5, <1>6 DEF Deciding

LEMMA ProceedCases ==
  ASSUME NEW c \in Callers, Proceed(c)
  PROVE  SaveScore(c) \/ Deciding(c) \/ RemoveGroup(c) \/ AddGroup(c) \/ SaveDate(c)
BY DEF Proceed, Deciding
-----------------------------------------------------------------------------
(* A level is kept *)

LEMMA QuietKeeps ==
  ASSUME TypeOK, KeepsALevel, NEW c \in Callers, NEW k \in {Idle} \cup Busy,
         call' = [call EXCEPT ![c] = k], ~InCall(c, "add"),
         UNCHANGED groups, torn => torn', last = NoLevel => last' = NoLevel
  PROVE  KeepsALevel'
<1>1. \A d \in Callers : InCall(d, "add") => InCall(d, "add")'
  BY CallStepTyped DEF InCall
<1> QED
  BY <1>1 DEF KeepsALevel

LEMMA NextKeeps == TypeOK /\ KeepsALevel /\ [Next]_vars => KeepsALevel'
<1> SUFFICES ASSUME TypeOK, KeepsALevel, [Next]_vars PROVE KeepsALevel'
  OBVIOUS
<1> USE DEF profile, history
<1>1. ASSUME NEW s \in Scores, Earn(s) PROVE KeepsALevel'
  BY <1>1 DEF KeepsALevel, Earn, InCall
<1>2. ASSUME NEW c \in Callers, Begin(c) PROVE KeepsALevel'
  <2>1. ~InCall(c, "add")
    BY <1>2 DEF Begin, InCall, Idle
  <2>2. PICK k \in Changing : call' = [call EXCEPT ![c] = k]
    BY <1>2, BeginCall
  <2>3. UNCHANGED <<groups, torn>> /\ (last = NoLevel => last' = NoLevel)
    BY <1>2, BeginHistory DEF Begin, Kept
  <2> QED
    BY <2>1, <2>2, <2>3, QuietKeeps, ChangingTyped
<1>3. ASSUME NEW c \in Callers, SaveScore(c) PROVE KeepsALevel'
  <2>1. ~InCall(c, "add") /\ call[c] \in Changing
    BY <1>3, CallTyped DEF SaveScore, InCall
  <2>2. PICK k \in Changing : call' = [call EXCEPT ![c] = k]
    BY <1>3, <2>1, PcCall DEF SaveScore
  <2>3. UNCHANGED <<groups, last, torn>>
    BY <1>3 DEF SaveScore
  <2> QED
    BY <2>1, <2>2, <2>3, QuietKeeps, ChangingTyped
<1>4. ASSUME NEW c \in Callers, Deciding(c) PROVE KeepsALevel'
  <2>1. ~InCall(c, "add") /\ UNCHANGED <<groups, last, torn>>
    BY <1>4, DecidingStep DEF InCall
  <2>2. PICK k \in {Idle} \cup Busy : call' = [call EXCEPT ![c] = k]
    BY <1>4, DecidingStep
  <2> QED
    BY <2>1, <2>2, QuietKeeps
<1>5. ASSUME NEW c \in Callers, RemoveGroup(c) PROVE KeepsALevel'
  <2>1. call[c] \in Changing
    BY <1>5, CallTyped DEF RemoveGroup, InCall
  <2>2. PICK k \in Changing : call' = [call EXCEPT ![c] = k] /\ k.pc = "add"
    BY <1>5, <2>1, RemoveCall
  <2>3. InCall(c, "add")'
    BY <2>2, CallStepTyped, ChangingTyped DEF InCall
  <2> QED
    BY <2>3 DEF KeepsALevel
<1>6. ASSUME NEW c \in Callers, AddGroup(c) PROVE KeepsALevel'
  BY <1>6 DEF KeepsALevel, AddGroup
<1>7. ASSUME NEW c \in Callers, SaveDate(c) PROVE KeepsALevel'
  <2>1. ~InCall(c, "add")
    BY <1>7 DEF SaveDate, InCall
  <2>2. call' = [call EXCEPT ![c] = Idle] /\ UNCHANGED <<groups, last, torn>>
    BY <1>7 DEF SaveDate
  <2> QED
    BY <2>1, <2>2, QuietKeeps
<1>8. ASSUME NEW c \in Callers, Crash(c) PROVE KeepsALevel'
  <2>1. UNCHANGED groups /\ (torn => torn') /\ (last = NoLevel => last' = NoLevel)
    BY <1>8, CrashHistory DEF Crash, Kept
  <2>2. CASE InCall(c, "add")
    BY <1>8, <2>2, CrashHistory DEF InCall, KeepsALevel
  <2>3. CASE ~InCall(c, "add")
    <3>1. \A d \in Callers : InCall(d, "add") => InCall(d, "add")'
      BY <1>8, <2>3, CallStepTyped DEF InCall, Crash
    <3> QED
      BY <2>1, <3>1 DEF KeepsALevel
  <2> QED
    BY <2>2, <2>3
<1>9. CASE Week
  <2>1. \A d \in Callers : InCall(d, "add") => InCall(d, "add")'
    BY <1>9, WeekCall DEF InCall
  <2> QED
    BY <1>9, <2>1 DEF KeepsALevel, Week
<1>10. ASSUME NEW e \in Editors, LoadProfile(e) \/ DropProfile(e) PROVE KeepsALevel'
  BY <1>10 DEF KeepsALevel, InCall, LoadProfile, DropProfile
<1>11. ASSUME NEW e \in Editors, SaveProfile(e) PROVE KeepsALevel'
  <2>1. UNCHANGED <<groups, call, torn>> /\ (last = NoLevel => last' = NoLevel)
    BY <1>11, SaveHistory DEF SaveProfile, Kept
  <2> QED
    BY <2>1 DEF KeepsALevel, InCall
<1>12. CASE UNCHANGED vars
  BY <1>12 DEF KeepsALevel, InCall, vars
<1> QED
  BY <1>1, <1>2, <1>3, <1>4, <1>5, <1>6, <1>7, <1>8, <1>9, <1>10, <1>11, <1>12, ProceedCases
     DEF Next

\* However refreshes overlap: a member who was given a level is without one
\* only while a refresh is between its remove and its add, or after a crash
\* left a change of level half done.
THEOREM LevelIsKept == Spec => []KeepsALevel
<1>1. Init => KeepsALevel
  BY DEF Init, KeepsALevel
<1> QED
  BY <1>1, InitTyped, NextTyped, NextKeeps, PTL DEF Spec
-----------------------------------------------------------------------------
(* One refresh at a time *)

LEMMA SerialStep ==
  ASSUME TypeOK, NEW c \in Callers, NEW k \in {Idle} \cup Busy,
         call' = [call EXCEPT ![c] = k],
         overlapped' \/ \A d \in Callers \ {c} : call[d] = Idle,
         overlapped' \/ \A l, m \in groups' : l = m,
         overlapped' \/ Fits(k, groups')
  PROVE  Serial'
<1>1. Alone'
  BY CallStepTyped DEF Alone
<1>2. OneLevel'
  BY DEF OneLevel
<1>3. InOrder'
  <2>1. Fits(Idle, groups')
    BY DEF Fits, Idle
  <2> QED
    BY <2>1, CallStepTyped DEF InOrder
<1> QED
  BY <1>1, <1>2, <1>3 DEF Serial

LEMMA TimedStep ==
  ASSUME TypeOK, NEW c \in Callers, NEW k \in {Idle} \cup Busy,
         call' = [call EXCEPT ![c] = k],
         overlapped' \/ \A d \in Callers \ {c} : call[d] = Idle,
         disturbed' \/ /\ ~overlapped' /\ ~torn'
                       /\ groups' \subseteq {last'}
                       /\ since' <= held' \/ k.pc = "date"
                       /\ Timely(k, last', held')
  PROVE  Timed'
<1>1. CASE disturbed'
  BY <1>1 DEF Timed
<1>2. CASE ~disturbed'
  <2>1. \A d \in Callers \ {c} : call'[d] = Idle
    BY <1>2, CallStepTyped
  <2>2. Timely(Idle, last', held')
    BY DEF Timely, Idle
  <2>3. call'[c] = k
    BY CallStepTyped
  <2>4. since' <= held' \/ \E d \in Callers : InCall(d, "date")'
    BY <1>2, <2>3 DEF InCall
  <2>5. \A d \in Callers : Timely(call'[d], last', held')
    BY <1>2, <2>1, <2>2, <2>3
  <2> QED
    BY <1>2, <2>4, <2>5 DEF Timed
<1> QED
  BY <1>1, <1>2

\* What the invariant says of the caller that acts.
LEMMA ActingCall ==
  ASSUME Inv, NEW c \in Callers, call[c] # Idle
  PROVE  /\ overlapped \/ /\ \A d \in Callers \ {c} : call[d] = Idle
                          /\ \A l, m \in groups : l = m
                          /\ Fits(call[c], groups)
         /\ disturbed \/ /\ ~overlapped /\ ~torn
                         /\ groups \subseteq {last}
                         /\ since <= held \/ call[c].pc = "date"
                         /\ Timely(call[c], last, held)
<1>1. overlapped \/ \A d \in Callers \ {c} : call[d] = Idle
  BY DEF Inv, Serial, Alone
<1>2. overlapped \/ ((\A l, m \in groups : l = m) /\ Fits(call[c], groups))
  BY DEF Inv, Serial, OneLevel, InOrder
<1>3. disturbed \/ (~overlapped /\ ~torn /\ groups \subseteq {last} /\ Timely(call[c], last, held))
  BY DEF Inv, Timed
<1>4. ASSUME ~disturbed, ~(since <= held) PROVE call[c].pc = "date"
  <2>1. PICK d \in Callers : call[d].pc = "date"
    BY <1>4 DEF Inv, Timed, InCall
  <2>2. call[d] # Idle
    BY <2>1 DEF Idle
  <2>3. d = c
    BY <1>1, <1>3, <1>4, <2>2
  <2> QED
    BY <2>1, <2>3
<1> QED
  BY <1>1, <1>2, <1>3, <1>4

LEMMA NotIdle ==
  ASSUME NEW c \in Callers, call[c].pc # "idle"
  PROVE  call[c] # Idle
BY DEF Idle

LEMMA BeginInv ==
  ASSUME Inv, NEW c \in Callers, Begin(c)
  PROVE  Serial' /\ Timed'
<1>0. TypeOK
  BY DEF Inv
<1>1. PICK k \in Changing : /\ call' = [call EXCEPT ![c] = k]
                            /\ k.pc = "score" /\ k.protected = since
  BY <1>0, BeginCall
<1>2. k \in {Idle} \cup Busy
  BY ChangingTyped
<1>3. UNCHANGED <<groups, since, torn>> /\ Kept /\ (overlapped' => disturbed')
  BY <1>0, BeginHistory DEF Begin, profile
<1>4. ASSUME ~overlapped' PROVE ~overlapped /\ \A d \in Callers : call[d] = Idle
  BY <1>0, <1>4, BeginHistory
<1>5. Fits(k, groups')
  BY <1>1 DEF Fits
<1>6. overlapped' \/ \A l, m \in groups' : l = m
  BY <1>3, <1>4 DEF Inv, Serial, OneLevel
<1>7. Serial'
  BY <1>0, <1>1, <1>2, <1>4, <1>5, <1>6, SerialStep
<1>8. ASSUME ~disturbed'
      PROVE  /\ ~overlapped' /\ ~torn'
             /\ groups' \subseteq {last'} /\ since' <= held' /\ Timely(k, last', held')
  <2>1. ~disturbed /\ ~overlapped' /\ (\A d \in Callers : call[d] = Idle) /\ UNCHANGED <<last, held>>
    BY <1>3, <1>4, <1>8 DEF Kept
  <2>2. ~torn /\ groups \subseteq {last} /\ since <= held
    BY <2>1 DEF Inv, Timed, InCall, Idle
  <2> QED
    BY <1>1, <1>3, <2>1, <2>2 DEF Timely
<1>9. Timed'
  BY <1>0, <1>1, <1>2, <1>4, <1>8, TimedStep
<1> QED
  BY <1>7, <1>9

LEMMA SaveScoreInv ==
  ASSUME Inv, NEW c \in Callers, SaveScore(c)
  PROVE  Serial' /\ Timed'
<1>0. TypeOK /\ call[c].pc = "score" /\ call[c] # Idle
  BY NotIdle DEF Inv, SaveScore, InCall
<1>1. call[c] \in Changing
  BY <1>0, CallTyped
<1>2. PICK k \in Changing : /\ call' = [call EXCEPT ![c] = k] /\ k.pc = "groups"
                            /\ k.protected = call[c].protected
  BY <1>0, <1>1, PcCall DEF SaveScore
<1>3. k \in {Idle} \cup Busy
  BY ChangingTyped
<1>4. UNCHANGED <<groups, since, last, held, overlapped, torn, disturbed>>
  BY DEF SaveScore, history
<1>5. Fits(k, groups')
  BY <1>2 DEF Fits
<1>6. Serial'
  BY <1>0, <1>2, <1>3, <1>4, <1>5, ActingCall, SerialStep
<1>7. ASSUME ~disturbed'
      PROVE  /\ ~overlapped' /\ ~torn'
             /\ groups' \subseteq {last'} /\ since' <= held' /\ Timely(k, last', held')
  <2>1. ~disturbed
    BY <1>4, <1>7
  <2>2. /\ ~overlapped /\ ~torn
        /\ groups \subseteq {last} /\ since <= held /\ call[c].protected <= held
    BY <1>0, <2>1, ActingCall DEF Timely
  <2> QED
    BY <1>2, <1>4, <2>2 DEF Timely
<1>8. Timed'
  BY <1>0, <1>2, <1>3, <1>4, <1>7, ActingCall, TimedStep
<1> QED
  BY <1>6, <1>8

LEMMA DecidingInv ==
  ASSUME Inv, NEW c \in Callers, Deciding(c)
  PROVE  Serial' /\ Timed'
<1>0. TypeOK
  BY DEF Inv
<1>1. call[c] \in Changing /\ call[c].pc = "groups" /\ call[c] # Idle
  BY <1>0, DecidingStep, ChangingTyped
<1>2. UNCHANGED <<groups, since, last, held, overlapped, torn, disturbed>>
  BY <1>0, DecidingStep DEF profile, history
<1>3. PICK k \in {Idle} \cup Busy : Sound(c, k) /\ call' = [call EXCEPT ![c] = k]
  BY <1>0, DecidingStep
<1>4. Fits(k, groups)
  BY <1>3 DEF Sound, Fits, Idle, Saving
<1>5. Serial'
  BY <1>0, <1>1, <1>2, <1>3, <1>4, ActingCall, SerialStep
<1>6. ASSUME ~disturbed
      PROVE  groups \subseteq {last} /\ since <= held /\ Timely(k, last, held)
  <2>0. /\ last \in {NoLevel} \cup Levels /\ held \in 0..MaxWeeks
        /\ groups \subseteq Levels
    BY <1>0 DEF TypeOK
  <2>1. groups \subseteq {last} /\ since <= held /\ call[c].protected <= held
    BY <1>1, <1>6, ActingCall DEF Timely
  <2>2. CASE k = Idle
    BY <2>1, <2>2 DEF Timely, Idle
  <2>3. CASE k = Saving(0)
    BY <2>0, <2>1, <2>3 DEF Timely, Saving
  <2>4. CASE k \in Changing /\ k.pc = "add" /\ groups = {} /\ k.protected = NoDate
    <3>1. \A d \in Callers : ~InCall(d, "add")
      BY <1>1, <1>6, ActingCall DEF InCall, Idle
    <3>2. last = NoLevel
      BY <1>6, <2>4, <3>1 DEF Inv, KeepsALevel, Timed
    <3>3. ~(Target(k) < last)
      BY <2>4, <3>2, ChangingTyped, LevelsAssumption DEF NoLevel, Levels
    <3> QED
      BY <2>1, <2>4, <3>3 DEF Timely
  <2>5. CASE /\ k \in Changing /\ k.pc = "remove" /\ k.from \in groups /\ k.protected = NoDate
             /\ Target(k) > k.from \/ call[c].protected >= Grace[Target(k)]
    <3>1. k.from = last /\ Target(k) \in Levels /\ last \in Levels
      BY <2>0, <2>1, <2>5, ChangingTyped
    <3>2. Grace[Target(k)] \in Nat /\ call[c].protected \in Int
      BY <1>1, <3>1, ChangingTyped, LevelsAssumption DEF Dates, NoDate
    <3>3. Target(k) < last => Grace[Target(k)] <= held
      BY <2>0, <2>1, <2>5, <3>1, <3>2, LevelsAssumption DEF Levels
    <3> QED
      BY <2>1, <2>5, <3>3 DEF Timely
  <2> QED
    BY <1>3, <2>2, <2>3, <2>4, <2>5, <2>1 DEF Sound
<1>7. ~disturbed => ~overlapped /\ ~torn
  BY DEF Inv, Timed
<1>8. Timed'
  BY <1>0, <1>1, <1>2, <1>3, <1>6, <1>7, ActingCall, TimedStep
<1> QED
  BY <1>5, <1>8

LEMMA RemoveInv ==
  ASSUME Inv, NEW c \in Callers, RemoveGroup(c)
  PROVE  Serial' /\ Timed'
<1>0. TypeOK /\ call[c].pc = "remove" /\ call[c] # Idle
  BY NotIdle DEF Inv, RemoveGroup, InCall
<1>1. call[c] \in Changing
  BY <1>0, CallTyped
<1>2. PICK k \in Changing :
        /\ call' = [call EXCEPT ![c] = k] /\ k.pc = "add"
        /\ Target(k) = Target(call[c]) /\ k.protected = call[c].protected
  BY <1>0, <1>1, RemoveCall
<1>3. k \in {Idle} \cup Busy
  BY ChangingTyped
<1>4. UNCHANGED <<since, last, held, overlapped, torn, disturbed>>
  BY DEF RemoveGroup, history
<1>5. groups' = groups \ {call[c].from}
  BY DEF RemoveGroup
<1>6. overlapped \/ groups' = {}
  BY <1>0, <1>5, ActingCall DEF Fits
<1>7. Serial'
  BY <1>0, <1>2, <1>3, <1>4, <1>6, ActingCall, SerialStep DEF Fits
<1>8. ASSUME ~disturbed'
      PROVE  /\ ~overlapped' /\ ~torn'
             /\ groups' \subseteq {last'} /\ since' <= held' /\ Timely(k, last', held')
  <2>1. ~disturbed
    BY <1>4, <1>8
  <2>2. /\ ~overlapped /\ ~torn
        /\ groups \subseteq {last} /\ since <= held /\ Timely(call[c], last, held)
    BY <1>0, <2>1, ActingCall
  <2> QED
    BY <1>0, <1>2, <1>4, <1>5, <2>2 DEF Timely
<1>9. Timed'
  BY <1>0, <1>2, <1>3, <1>4, <1>8, ActingCall, TimedStep
<1> QED
  BY <1>7, <1>9

LEMMA AddInv ==
  ASSUME Inv, NEW c \in Callers, AddGroup(c)
  PROVE  Serial' /\ Timed'
<1>0. TypeOK /\ call[c].pc = "add" /\ call[c] # Idle
  BY NotIdle DEF Inv, AddGroup, InCall
<1>1. Target(call[c]) \in Levels /\ call[c].protected \in Dates
  BY <1>0, CallTyped, ChangingTyped
<1> DEFINE k == Saving(call[c].protected)
<1>2. call' = [call EXCEPT ![c] = k] /\ k \in {Idle} \cup Busy
  BY <1>1, SavingTyped DEF AddGroup
<1>3. k.pc = "date" /\ k.protected = call[c].protected
  BY <1>1, SavingTyped
<1>4. /\ groups' = groups \cup {Target(call[c])} /\ held' = 0
      /\ UNCHANGED <<since, overlapped, torn, disturbed>>
      /\ ~disturbed => last' = Target(call[c])
  BY DEF AddGroup, Joined
<1> HIDE DEF k
<1>5. overlapped \/ groups' = {Target(call[c])}
  BY <1>0, <1>4, ActingCall DEF Fits
<1>6. Fits(k, groups')
  BY <1>3 DEF Fits
<1>7. Serial'
  BY <1>0, <1>2, <1>4, <1>5, <1>6, ActingCall, SerialStep
<1>8. ASSUME ~disturbed'
      PROVE  /\ ~overlapped' /\ ~torn'
             /\ groups' \subseteq {last'} /\ Timely(k, last', held')
  <2>1. ~disturbed /\ ~overlapped /\ ~torn
    BY <1>0, <1>4, <1>8, ActingCall
  <2>2. call[c].protected = NoDate
    BY <1>0, <2>1, ActingCall DEF Timely
  <2> QED
    BY <1>3, <1>4, <1>5, <2>1, <2>2 DEF Timely, NoDate
<1>9. Timed'
  BY <1>0, <1>2, <1>3, <1>4, <1>8, ActingCall, TimedStep
<1> QED
  BY <1>7, <1>9

LEMMA SaveDateInv ==
  ASSUME Inv, NEW c \in Callers, SaveDate(c)
  PROVE  Serial' /\ Timed'
<1>0. TypeOK /\ call[c].pc = "date" /\ call[c] # Idle
  BY NotIdle DEF Inv, SaveDate, InCall
<1>1. /\ call' = [call EXCEPT ![c] = Idle] /\ since' = call[c].protected
      /\ UNCHANGED <<groups, last, held, overlapped, torn, disturbed>>
  BY DEF SaveDate, history
<1>2. Fits(Idle, groups') /\ Timely(Idle, last', held')
  BY DEF Fits, Timely, Idle
<1>3. Serial'
  BY <1>0, <1>1, <1>2, ActingCall, SerialStep
<1>4. ASSUME ~disturbed'
      PROVE  /\ ~overlapped' /\ ~torn'
             /\ groups' \subseteq {last'} /\ since' <= held'
  <2>1. ~disturbed
    BY <1>1, <1>4
  <2> QED
    BY <1>0, <1>1, <2>1, ActingCall DEF Timely
<1>5. Timed'
  BY <1>0, <1>1, <1>2, <1>4, ActingCall, TimedStep
<1> QED
  BY <1>3, <1>5

LEMMA CrashInv ==
  ASSUME Inv, NEW c \in Callers, Crash(c)
  PROVE  Serial' /\ Timed'
<1>0. TypeOK /\ call[c] # Idle
  BY DEF Inv, Crash
<1>1. /\ call' = [call EXCEPT ![c] = Idle]
      /\ UNCHANGED <<groups, since, overlapped>> /\ Kept
  BY <1>0, CrashHistory DEF Crash, profile
<1>2. Fits(Idle, groups') /\ Timely(Idle, last', held')
  BY DEF Fits, Timely, Idle
<1>3. Serial'
  BY <1>0, <1>1, <1>2, ActingCall, SerialStep
<1>4. ASSUME ~disturbed'
      PROVE  /\ ~overlapped' /\ ~torn'
             /\ groups' \subseteq {last'} /\ since' <= held'
  <2>1. /\ torn' <=> (torn \/ call[c].pc \in {"add", "date"})
        /\ torn' => disturbed'
    BY <1>0, CrashHistory
  <2>2. ~disturbed /\ ~torn' /\ call[c].pc # "date" /\ UNCHANGED <<last, held>>
    BY <1>1, <1>4, <2>1 DEF Kept
  <2> QED
    BY <1>0, <1>1, <2>2, ActingCall
<1>5. Timed'
  BY <1>0, <1>1, <1>2, <1>4, ActingCall, TimedStep
<1> QED
  BY <1>3, <1>5

\* A profile saved back leaves the date as it is, or without protection, or
\* counts as a disturbance.
LEMMA SaveProfileInv ==
  ASSUME Inv, NEW e \in Editors, SaveProfile(e)
  PROVE  Serial' /\ Timed'
<1>0. TypeOK
  BY DEF Inv
<1>1. /\ UNCHANGED <<groups, call, overlapped, torn>> /\ Kept
      /\ disturbed' \/ since' \in {NoDate, since}
  BY <1>0, SaveHistory DEF SaveProfile
<1>2. Serial'
  BY <1>1 DEF Inv, Serial, Alone, OneLevel, InOrder
<1>3. CASE disturbed'
  BY <1>2, <1>3 DEF Timed
<1>4. CASE ~disturbed'
  <2>1. ~disturbed /\ UNCHANGED <<last, held>> /\ since' \in {NoDate, since}
    BY <1>1, <1>4 DEF Kept
  <2>2. NoDate <= held
    BY <1>0 DEF TypeOK, NoDate
  <2>3. since' <= held' \/ \E c \in Callers : InCall(c, "date")'
    BY <1>1, <2>1, <2>2 DEF Inv, Timed, InCall
  <2> QED
    BY <1>1, <1>2, <2>1, <2>3 DEF Inv, Timed
<1> QED
  BY <1>1, <1>3, <1>4 DEF Kept

LEMMA WeekInv ==
  ASSUME Inv, Week
  PROVE  Serial' /\ Timed'
<1>0. TypeOK
  BY DEF Inv
<1>1. UNCHANGED <<groups, last, overlapped, torn, disturbed>> /\ since' = Older(since)
  BY DEF Week
<1>2. \A c \in Callers : (call'[c] = Idle <=> call[c] = Idle) /\ call'[c].pc = call[c].pc
  BY <1>0, WeekCall
<1>3. \A c \in Callers : Fits(call[c], groups) => Fits(call'[c], groups)
  <2> SUFFICES ASSUME NEW c \in Callers, Fits(call[c], groups) PROVE Fits(call'[c], groups)
    OBVIOUS
  <2>1. call[c].pc = "remove" => call'[c].from = call[c].from
    BY <1>0, CallTyped, WeekCall
  <2> QED
    BY <1>2, <2>1 DEF Fits
<1>4. Serial'
  BY <1>1, <1>2, <1>3 DEF Inv, Serial, Alone, OneLevel, InOrder
<1>5. ASSUME ~disturbed'
      PROVE  /\ ~overlapped /\ ~torn /\ groups \subseteq {last}
             /\ since' <= held' \/ \E c \in Callers : InCall(c, "date")'
             /\ \A c \in Callers : Timely(call'[c], last, held')
  <2>0. /\ since \in Dates /\ held \in 0..MaxWeeks
        /\ Older(held) \in 0..MaxWeeks /\ held <= Older(held)
    BY <1>0, OlderTyped DEF TypeOK, Dates
  <2>1. ~disturbed
    BY <1>1, <1>5
  <2>2. held' = Older(held)
    BY <2>1 DEF Week
  <2>3. /\ ~overlapped /\ ~torn /\ groups \subseteq {last}
        /\ since <= held \/ \E c \in Callers : InCall(c, "date")
        /\ \A c \in Callers : Timely(call[c], last, held)
    BY <2>1 DEF Inv, Timed
  <2>4. since' <= held' \/ \E c \in Callers : InCall(c, "date")'
    <3>1. since <= held => since' <= held'
      BY <1>1, <2>0, <2>2, OlderTyped
    <3> QED
      BY <1>2, <2>3, <3>1 DEF InCall
  <2>5. ASSUME NEW c \in Callers PROVE Timely(call'[c], last, held')
    <3>1. call'[c].pc = call[c].pc
      BY <1>2
    <3>2. ASSUME call[c].pc \in {"score", "groups", "date"}
          PROVE  call'[c].protected <= held'
      <4>1. call[c].protected \in Dates /\ call[c] # Idle
        BY <1>0, <3>2, CallTyped, ChangingTyped, NotIdle
      <4>2. call[c].protected <= held
        BY <2>3, <3>2 DEF Timely
      <4>3. call'[c].protected = Older(call[c].protected)
        BY <1>0, <4>1, WeekCall
      <4> QED
        BY <2>0, <2>2, <4>1, <4>2, <4>3, OlderTyped
    <3>3. ASSUME call[c].pc \in {"remove", "add"}
          PROVE  /\ call'[c].protected = NoDate
                 /\ Target(call'[c]) < last => Grace[Target(call'[c])] <= held'
      <4>1. call[c] \in Changing /\ call[c] # Idle /\ Target(call[c]) \in Levels
        BY <1>0, <3>3, CallTyped, ChangingTyped
      <4>2. /\ call[c].protected = NoDate
            /\ Target(call[c]) < last => Grace[Target(call[c])] <= held
        BY <2>3, <3>3 DEF Timely
      <4>3. /\ call'[c].protected = Older(call[c].protected)
            /\ Target(call'[c]) = Target(call[c])
        BY <1>0, <4>1, WeekCall
      <4>4. Older(NoDate) = NoDate
        BY OlderTyped DEF Dates
      <4>5. Grace[Target(call[c])] \in Nat
        BY <4>1, LevelsAssumption
      <4> QED
        BY <2>0, <2>2, <4>2, <4>3, <4>4, <4>5
    <3> QED
      BY <3>1, <3>2, <3>3 DEF Timely
  <2> QED
    BY <2>3, <2>4, <2>5
<1>6. Timed'
  <2>1. CASE disturbed'
    BY <2>1 DEF Timed
  <2>2. CASE ~disturbed'
    BY <1>1, <1>5, <2>2 DEF Timed
  <2> QED
    BY <2>1, <2>2
<1> QED
  BY <1>4, <1>6

LEMMA InitInv == Init => Inv
<1> SUFFICES ASSUME Init PROVE Inv
  OBVIOUS
<1>1. TypeOK /\ KeepsALevel
  BY InitTyped DEF Init, KeepsALevel
<1>2. \A c \in Callers : call[c] = Idle
  BY DEF Init
<1>3. Serial
  BY <1>2 DEF Init, Serial, Alone, OneLevel, InOrder, Fits, Idle
<1>4. Timed
  BY <1>2 DEF Init, Timed, Timely, Idle, NoDate
<1> QED
  BY <1>1, <1>3, <1>4 DEF Inv

LEMMA NextInv == Inv /\ [Next]_vars => Inv'
<1> SUFFICES ASSUME Inv, [Next]_vars PROVE Inv'
  OBVIOUS
<1>1. TypeOK' /\ KeepsALevel'
  BY NextTyped, NextKeeps DEF Inv
<1>2. ASSUME UNCHANGED <<profile, call, history>> PROVE Serial' /\ Timed'
  BY <1>2 DEF Inv, Serial, Alone, OneLevel, InOrder, Timed, InCall, profile, history
<1>3. ASSUME NEW s \in Scores, Earn(s) PROVE Serial' /\ Timed'
  BY <1>2, <1>3 DEF Earn
<1>4. ASSUME NEW c \in Callers, Proceed(c) PROVE Serial' /\ Timed'
  BY <1>4, ProceedCases, SaveScoreInv, DecidingInv, RemoveInv, AddInv, SaveDateInv
<1>5. ASSUME NEW e \in Editors, LoadProfile(e) \/ DropProfile(e) PROVE Serial' /\ Timed'
  BY <1>2, <1>5 DEF LoadProfile, DropProfile
<1>6. CASE UNCHANGED vars
  BY <1>1, <1>2, <1>6 DEF Inv, vars
<1> QED
  BY <1>1, <1>3, <1>4, <1>5, <1>6, BeginInv, CrashInv, SaveProfileInv, WeekInv DEF Inv, Next

LEMMA GraceStep ==
  Inv /\ [Next]_vars => [last' < last => held >= Grace[last'] \/ disturbed']_vars
<1> SUFFICES ASSUME Inv, [Next]_vars, last' < last, ~disturbed' PROVE held >= Grace[last']
  OBVIOUS
<1>0. TypeOK
  BY DEF Inv
<1>1. last' # last
  BY <1>0, LevelsAssumption DEF TypeOK, NoLevel, Levels
<1>2. PICK c \in Callers : AddGroup(c)
  <2>1. ASSUME NEW c \in Callers, Deciding(c) PROVE FALSE
    BY <1>0, <1>1, <2>1, DecidingStep DEF history
  <2> QED
    BY <1>0, <1>1, <2>1, ProceedCases, BeginHistory, CrashHistory, SaveHistory
       DEF Next, Earn, SaveScore, RemoveGroup, SaveDate, LoadProfile, DropProfile, Week,
           vars, history, Kept
<1>3. /\ ~disturbed /\ last' = Target(call[c])
      /\ call[c].pc = "add" /\ call[c] # Idle
  BY <1>2, NotIdle DEF AddGroup, Joined, InCall
<1>4. Grace[last'] <= held
  BY <1>3, ActingCall DEF Timely
<1>5. last' \in Levels
  BY <1>0, <1>3, CallTyped, ChangingTyped
<1> QED
  BY <1>0, <1>4, <1>5, LevelsAssumption DEF TypeOK

\* Without an overlap of refreshes a member is in one group at most, crashes
\* included, for any number of levels.
THEOREM OneLevelHeld == Spec => []OneLevel
<1>1. Inv => OneLevel
  BY DEF Inv, Serial
<1> QED
  BY <1>1, InitInv, NextInv, PTL DEF Spec

\* Without an overlap, without a half-done change and without a profile saved
\* over a newer date, a level gained is kept for the whole protection period,
\* whatever the periods are.
THEOREM GraceIsKept == Spec => GraceKept
<1>1. Inv /\ [Next]_vars => [last' < last => held >= Grace[last'] \/ disturbed']_vars
  BY GraceStep
<1> QED
  BY <1>1, InitInv, NextInv, PTL DEF Spec, GraceKept
=============================================================================
