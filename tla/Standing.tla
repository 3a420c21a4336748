------------------------------ MODULE Standing ------------------------------
(***************************************************************************)
(* The trust level of one member: update_trust_score and sync_trust_group  *)
(* of accounts/services/trust_service.py, called after a rating, a return  *)
(* or an overdue book and by the weekly job; the two readings of the level *)
(* (the group in create_deal, profile.trust_level where books are edited); *)
(* and the views and adapters that save a whole profile.                   *)
(*                                                                         *)
(* A level is held as membership in a group trust_lv0..3.  Nothing locks   *)
(* the member: a refresh loads the metrics and the profile, saves the      *)
(* score, reads the groups, removes one, adds one and saves the date the   *)
(* protection began, each a statement of its own, so refreshes of the same *)
(* member overlap and a crash may leave one half done.  (Those inside the  *)
(* transaction of confirm_return show fewer of these orders, and a         *)
(* rollback there is a crash before the first write.)                      *)
(*                                                                         *)
(* The profile has no lock and no version either.  The forms, the profile  *)
(* API and the download of an avatar save every column of a row they       *)
(* loaded earlier, and so put back the score, the date and the count of    *)
(* overdue books as they were then.                                        *)
(*                                                                         *)
(* A date is the number of weeks since, counted up to MaxWeeks.            *)
(***************************************************************************)
EXTENDS Integers

CONSTANTS
  Top,         \* the highest level; the lowest is 0
  MinScore,    \* MinScore[l]: min_score of level l in TrustLevelConfig
  Scores,      \* trust scores a member may come to
  Grace,       \* Grace[l]: demotion_protection_weeks of level l
  MaxWeeks,    \* bound on the weeks counted
  Requests,    \* web requests that may refresh the member at a time
  Job,         \* the worker that runs recalculate_all_trust_scores
  Editors,     \* requests that may save a whole profile, in Requests or not
  MaxCrashes   \* bound on crashes

Levels == 0..Top
Callers == Requests \cup {Job}

ASSUME LevelsAssumption ==
  /\ Top \in Nat /\ MaxWeeks \in Nat
  /\ MinScore \in [Levels -> Int]
  /\ Scores \subseteq Nat /\ 0 \in Scores
  /\ Grace \in [Levels -> 0..MaxWeeks]
  /\ MaxCrashes \in Nat

NoLevel == -1
NoDate == -1
Dates == {NoDate} \cup 0..MaxWeeks

\* sync_trust_group: the highest level whose min_score is reached, 0 if none is.
ConfigLevel(s) ==
  CHOOSE l \in Levels :
    /\ l = 0 \/ s >= MinScore[l]
    /\ \A m \in Levels : s >= MinScore[m] => m <= l

\* floor(sqrt(s)), between one star and five.
ComputeTrustStars(s) ==
  CHOOSE n \in 1..5 :
    /\ n = 1 \/ n * n <= s
    /\ \A m \in 1..5 : m * m <= s => m <= n

StarsToLevel(n) == IF n <= 3 THEN n - 1 ELSE 3

VARIABLES
  earned,      \* the score the member's deals, ratings and overdue books are worth
  score,       \* the stored profile.trust_score
  groups,      \* the levels whose group the member is in
  since,       \* profile.trust_level_protected_since
  call,        \* what each caller is in the middle of
  edit,        \* the profile each editor has loaded and not saved yet
  crashes,
  \* history: the last level added and the weeks since, whether two refreshes
  \* ever overlapped, whether a crash ever left a change of level half done,
  \* whether one of these happened or an editor put back a date that had changed
  last, held, overlapped, torn, disturbed

profile == <<score, groups, since>>
history == <<last, held, overlapped, torn, disturbed>>
vars == <<earned, profile, call, edit, crashes, history>>

Idle == [pc |-> "idle"]

\* score: as computed.  from: the highest group found.
\* protected: the date as loaded, and once decided the date to save.
Saving(date) == [pc |-> "date", protected |-> date]
Busy == [pc : {"score", "groups", "remove", "add"},
         score : Scores, from : {NoLevel} \cup Levels, protected : Dates]
          \cup {Saving(date) : date \in Dates}
Loaded == [pc : {"loaded"}, score : Scores, since : Dates]

TypeOK ==
  /\ earned \in Scores /\ score \in Scores
  /\ groups \subseteq Levels
  /\ since \in Dates
  /\ call \in [Callers -> {Idle} \cup Busy]
  /\ edit \in [Editors -> {Idle} \cup Loaded]
  /\ crashes \in 0..MaxCrashes
  /\ last \in {NoLevel} \cup Levels /\ held \in 0..MaxWeeks
  /\ overlapped \in BOOLEAN /\ torn \in BOOLEAN /\ disturbed \in BOOLEAN

\* A new member is in no group.
Init ==
  /\ earned \in Scores /\ score = 0
  /\ groups = {} /\ since = NoDate
  /\ call = [c \in Callers |-> Idle] /\ edit = [e \in Editors |-> Idle]
  /\ crashes = 0
  /\ last = NoLevel /\ held = 0
  /\ overlapped = FALSE /\ torn = FALSE /\ disturbed = FALSE

InCall(c, pc) == call[c].pc = pc

\* Once disturbed, the history only tells that some level was given.
Recall(o, t, d) ==
  /\ overlapped' = o /\ torn' = t /\ disturbed' = d
  /\ last' = IF d /\ last # NoLevel THEN 0 ELSE last
  /\ held' = IF d THEN 0 ELSE held
-----------------------------------------------------------------------------
(* update_trust_score *)

\* A deal ends, a rating comes in, a book is overdue.
Earn(s) ==
  /\ s # earned
  /\ earned' = s
  /\ UNCHANGED <<profile, call, edit, crashes, history>>

\* The metrics and the profile are read, the score is computed.  (A request
\* does one thing at a time, and edits no profile meanwhile.)
Begin(c) ==
  /\ call[c] = Idle /\ (c \in Editors => edit[c] = Idle)
  /\ call' = [call EXCEPT ![c] = [pc |-> "score", score |-> earned, from |-> NoLevel,
                                  protected |-> since]]
  /\ LET o == overlapped \/ \E d \in Callers : call[d] # Idle IN
       Recall(o, torn, disturbed \/ o)
  /\ UNCHANGED <<earned, profile, edit, crashes>>

\* Slip: what is saved is the level of the group, which is not looked up yet.
SaveHeldScore(c) ==
  /\ InCall(c, "score")
  /\ score' = call[c].from
  /\ call' = [call EXCEPT ![c].pc = "groups"]
  /\ UNCHANGED <<earned, groups, since, edit, crashes, history>>

SaveScore(c) ==
  /\ InCall(c, "score")
  /\ score' = call[c].score
  /\ call' = [call EXCEPT ![c].pc = "groups"]
  /\ UNCHANGED <<earned, groups, since, edit, crashes, history>>
-----------------------------------------------------------------------------
(* sync_trust_group *)

\* The target is the level of this caller's own score.
Target(k) == ConfigLevel(k.score)

Finding(c, l) ==
  /\ InCall(c, "groups")
  /\ IF groups = {} THEN l = NoLevel ELSE l \in groups /\ \A m \in groups : m <= l

Decided(c, k) ==
  /\ call' = [call EXCEPT ![c] = k]
  /\ UNCHANGED <<earned, profile, edit, crashes, history>>

Change(c, pc, l, date) ==
  Decided(c, [call[c] EXCEPT !.pc = pc, !.from = l, !.protected = date])

\* No group yet: the target's is added at once.
FirstLevel(c) == Finding(c, NoLevel) /\ Change(c, "add", NoLevel, NoDate)

\* Slip: an upgrade does not clear the date of an earlier protection.
UpgradeDated(c, l) ==
  /\ Finding(c, l) /\ l # NoLevel /\ Target(call[c]) > l
  /\ Change(c, "remove", l, call[c].protected)

Upgrade(c, l) ==
  /\ Finding(c, l) /\ l # NoLevel /\ Target(call[c]) > l
  /\ Change(c, "remove", l, NoDate)

\* Slip: every refresh below the level restarts the protection.
ProtectAgain(c, l) ==
  /\ Finding(c, l) /\ Target(call[c]) < l
  /\ Decided(c, Saving(0))

\* First found below the level held: the protection starts.
Protect(c, l) ==
  /\ Finding(c, l) /\ Target(call[c]) < l
  /\ call[c].protected = NoDate
  /\ Decided(c, Saving(0))

\* The weeks that count are those of the level the member falls to.
Demote(c, l) ==
  /\ Finding(c, l) /\ Target(call[c]) < l
  /\ call[c].protected >= Grace[Target(call[c])]
  /\ Change(c, "remove", l, NoDate)

\* On the level earned, or still protected; the date stays in both cases.
Stay(c, l) ==
  /\ Finding(c, l) /\ l # NoLevel
  /\ \/ Target(call[c]) = l
     \/ Target(call[c]) < l /\ call[c].protected \in 0..(Grace[Target(call[c])] - 1)
  /\ Decided(c, Idle)

\* Slip: the target's group is added where the old one should be removed.
RemoveNothing(c) ==
  /\ InCall(c, "remove")
  /\ groups' = groups \cup {Target(call[c])}
  /\ call' = [call EXCEPT ![c].pc = "add"]
  /\ UNCHANGED <<earned, score, since, edit, crashes, history>>

\* Slip: the branch of the demotion has no add.
RemoveOnDemotion(c) ==
  /\ InCall(c, "remove")
  /\ groups' = groups \ {call[c].from}
  /\ call' = [call EXCEPT ![c] = IF Target(@) < @.from THEN Saving(NoDate)
                                ELSE [@ EXCEPT !.pc = "add", !.from = NoLevel]]
  /\ UNCHANGED <<earned, score, since, edit, crashes, history>>

\* What was removed is not looked at again.
RemoveGroup(c) ==
  /\ InCall(c, "remove")
  /\ groups' = groups \ {call[c].from}
  /\ call' = [call EXCEPT ![c] = [@ EXCEPT !.pc = "add", !.from = NoLevel]]
  /\ UNCHANGED <<earned, score, since, edit, crashes, history>>

Joined(c) ==
  /\ last' = IF disturbed THEN 0 ELSE Target(call[c])
  /\ held' = 0

AddGroup(c) ==
  /\ InCall(c, "add")
  /\ groups' = groups \cup {Target(call[c])}
  /\ call' = [call EXCEPT ![c] = Saving(@.protected)]
  /\ Joined(c)
  /\ UNCHANGED <<earned, score, since, edit, crashes, overlapped, torn, disturbed>>

SaveDate(c) ==
  /\ InCall(c, "date")
  /\ since' = call[c].protected
  /\ call' = [call EXCEPT ![c] = Idle]
  /\ UNCHANGED <<earned, score, groups, edit, crashes, history>>
-----------------------------------------------------------------------------
(* A whole profile is saved: profile_edit, complete_profile, the profile API *)
(* and the adapters that fetch an avatar in between                          *)

LoadProfile(e) ==
  /\ edit[e] = Idle /\ (e \in Callers => call[e] = Idle)
  /\ edit' = [edit EXCEPT ![e] = [pc |-> "loaded", score |-> score, since |-> since]]
  /\ UNCHANGED <<earned, profile, call, crashes, history>>

\* An overdue book counted since the row was loaded is forgotten with it.
SaveProfile(e) ==
  /\ edit[e] # Idle
  /\ score' = edit[e].score /\ since' = edit[e].since
  /\ \E s \in Scores : s >= earned /\ earned' = s
  /\ Recall(overlapped, torn, disturbed \/ edit[e].since \notin {NoDate, since})
  /\ edit' = [edit EXCEPT ![e] = Idle]
  /\ UNCHANGED <<groups, call, crashes>>

\* The form is invalid, the download fails, the request dies.
DropProfile(e) ==
  /\ edit[e] # Idle
  /\ edit' = [edit EXCEPT ![e] = Idle]
  /\ UNCHANGED <<earned, profile, call, crashes, history>>
-----------------------------------------------------------------------------
(* Crashes and time *)

Crash(c) ==
  /\ call[c] # Idle /\ crashes < MaxCrashes
  /\ crashes' = crashes + 1
  /\ LET t == torn \/ call[c].pc \in {"add", "date"} IN
       Recall(overlapped, t, disturbed \/ t)
  /\ call' = [call EXCEPT ![c] = Idle]
  /\ UNCHANGED <<earned, profile, edit>>

Older(date) == IF date \in 0..(MaxWeeks - 1) THEN date + 1 ELSE date

\* A week passes, for the dates in memory too.
Week ==
  /\ since' = Older(since)
  /\ held' = IF disturbed THEN 0 ELSE Older(held)
  /\ call' = [c \in Callers |->
                IF call[c] = Idle THEN Idle
                ELSE [call[c] EXCEPT !.protected = Older(@)]]
  /\ edit' = [e \in Editors |->
                IF edit[e] = Idle THEN Idle
                ELSE [edit[e] EXCEPT !.since = Older(@)]]
  /\ UNCHANGED <<earned, score, groups, crashes, last, overlapped, torn, disturbed>>

Proceed(c) ==
  \/ SaveScore(c) \/ FirstLevel(c)
  \/ \E l \in Levels : Upgrade(c, l) \/ Protect(c, l) \/ Demote(c, l) \/ Stay(c, l)
  \/ RemoveGroup(c) \/ AddGroup(c) \/ SaveDate(c)

Next ==
  \/ \E s \in Scores : Earn(s)
  \/ \E c \in Callers : Begin(c) \/ Proceed(c) \/ Crash(c)
  \/ \E e \in Editors : LoadProfile(e) \/ SaveProfile(e) \/ DropProfile(e)
  \/ Week

Spec == Init /\ [][Next]_vars

\* The weekly job comes round, a refresh under way ends, weeks pass.
FairSpec ==
  /\ Spec
  /\ \A c \in Callers : WF_vars(Proceed(c))
  /\ WF_vars(Begin(Job)) /\ WF_vars(Week)
-----------------------------------------------------------------------------
(* Properties *)

\* The level create_deal may go by: the first trust_lv group in the order the
\* database happens to return them, 0 without one.
LevelsRead == IF groups = {} THEN {0} ELSE groups

\* The level profile.trust_level gives to whoever edits a book, switches its
\* listing or looks up the limits of the account.
ProfileLevel == StarsToLevel(ComputeTrustStars(score))

\* However refreshes overlap, a member who was given a level is never left
\* without one, but for the instant between the remove and the add of a
\* refresh: whoever removes a group still has one to add.  Only a crash at
\* that instant leaves a member of a high level with the limits of level 0.
KeepsALevel ==
  groups = {} => last = NoLevel \/ torn \/ \E c \in Callers : InCall(c, "add")

\* Refreshes that do not overlap never leave a member in two groups, crashes
\* included: the group found is removed before the other is added.  (Two that
\* overlap may; sync_trust_group then only ever moves the higher one.)
OneLevel == overlapped \/ \A l, m \in groups : l = m

\* TrustLevelConfig.demotion_protection_weeks: a member who gained a level
\* keeps it for the protection period, even through several dips and
\* recoveries, and whatever of the profile is edited meanwhile as long as no
\* date comes back.  Three things break it, each by a date that outlives its
\* protection: refreshes that overlap, a crash before the date is cleared, and
\* a profile saved over one whose date was cleared or set since it was loaded.
GraceKept == [][last' < last => held >= Grace[last'] \/ disturbed']_vars

\* Score s is stored, and its level is the one create_deal goes by.  Only a
\* second, lower group left by an overlap may stay beside it.
Settled(s) ==
  LET level == ConfigLevel(s) IN
    /\ score = s /\ level \in LevelsRead
    /\ \A m \in LevelsRead : m = level \/ (overlapped /\ m < level)

\* An edit of the profile spans a refresh, and may undo it.
Straddles == \E e \in Editors, c \in Callers : edit[e] # Idle /\ call[c] # Idle

\* Once what the member earned stays the same and refreshes meet no edit of the
\* profile, the stored score and the group agree with it in the end: whatever
\* overlaps, crashes and old profiles put back, the weekly job repairs.
LevelSettles ==
  \A s \in Scores : <>[](earned = s /\ ~Straddles) => <>[]Settled(s)

\* GLOSSARY.md:61 has one trust level, derived from the score, for the number
\* of books and days as for editing; trust_service.py:245 calls stars_to_level
\* the only mapping.  So a member at rest, undisturbed, with an up to date
\* score and no protection running, is of the same level for both readings.
AtRest ==
  /\ \A c \in Callers : call[c] = Idle
  /\ \A e \in Editors : edit[e] = Idle
  /\ score = earned /\ since = NoDate /\ ~disturbed /\ crashes = 0

ReadingsAgree == AtRest => \A l \in LevelsRead : l = ProfileLevel
=============================================================================
