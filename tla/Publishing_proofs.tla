-------------------------- MODULE Publishing_proofs --------------------------
(***************************************************************************)
(* The shared catalog and the covers, for any number of publications and   *)
(* edits.  A call is active while it holds the catalog row: from then on   *)
(* what it has read of the row stays true until it commits.  Each step     *)
(* moves one call; the publications of the others keep what is true of     *)
(* them (StepSame), and one lemma per action settles its own.              *)
(***************************************************************************)
EXTENDS Publishing, TLAPS

Active(c) == call[c].pc \in {"attach", "cover", "photos", "commit"}
Covered(p) == call[p].pc \in {"photos", "commit"}
Over(p) == call[p].pc \in {"list", "done"}
InCatalog(p) == official # Absent /\ official.cover = p

\* What the types rest on: who fills a row has found one, and who holds the
\* row has a copy of it.
Reading ==
  \A c \in Calls :
    /\ call[c].pc = "fill" => official # Absent
    /\ Active(c) => call[c].row # Absent

\* One call at a time has the row, and what it writes grows from it.
Holding == \A c \in Calls : Active(c) <=> lock = c

Grows(c) ==
  /\ Active(c) =>
       /\ official # Absent =>
            /\ official.author # Blank => call[c].row.author = official.author
            /\ official.cover # NoFile => call[c].row.cover = official.cover
       /\ \/ call[c].row.cover = NoFile
          \/ InCatalog(call[c].row.cover)
          \/ Covered(c) /\ call[c].row.cover = c
  /\ call[c].pc = "cover" /\ call[c].source = "url" => call[c].row.cover = NoFile

Growing == \A c \in Calls : Grows(c)

CatalogStored ==
  official # Absent /\ official.cover # NoFile => Cover(official.cover) \in files

\* A cover is either the catalog's or of one copy, and of nobody's before
\* its publication is over.
Apart(p) ==
  /\ call[p].own \in {NoFile, p}
  /\ ~Over(p) => shared[p] = Absent /\ p \notin dropping /\ ~InCatalog(p)
  /\ call[p].pc \in {"new", "insert", "fill", "attach", "cover"} => call[p].own = NoFile
  /\ shared[p] # Absent => shared[p].cover = call[p].own
  /\ p \in dropping => call[p].own = p /\ (shared[p] = Absent \/ p \in back)
  /\ call[p].own = p => ~InCatalog(p) /\ (Covered(p) => call[p].row.cover # p)

\* The covers the rows of copies and of open transactions name are there.
Stored(p) ==
  /\ shared[p] # Absent /\ shared[p].cover = p => Cover(p) \in files \/ p \in back
  /\ Covered(p) => (Cover(p) \in files <=> (call[p].own = p \/ call[p].row.cover = p))

\* Every file on the way is recorded.
Recorded(p) ==
  /\ Cover(p) \in files =>
       \/ InCatalog(p)
       \/ shared[p] # Absent /\ shared[p].cover = p
       \/ p \in dropping \/ p \in spoiled
       \/ call[p].pc \in {"cover", "photos", "commit", "clean"}
  /\ call[p].pc \in {"new", "insert", "fill", "attach"} => Cover(p) \notin files
  /\ call[p].pc = "cover" => Cover(p) \in files /\ call[p].saved
  /\ Covered(p) /\ Cover(p) \in files => call[p].saved

\* An upload is on its way to the catalog or to this copy.
Shown(p) ==
  call[p].source = "upload" =>
    /\ Covered(p) => call[p].own = p \/ (call[p].own = NoFile /\ call[p].row.cover = p)
    /\ call[p].pc = "list" \/ shared[p] # Absent =>
         call[p].own = p \/ (call[p].own = NoFile /\ InCatalog(p))

Fine(p) == Apart(p) /\ Stored(p) /\ Recorded(p) /\ Shown(p)

Inv == TypeOK /\ Reading /\ Holding /\ Growing /\ CatalogStored /\ \A p \in Publishers : Fine(p)
-----------------------------------------------------------------------------
(* Types *)

Typed == TypeOK /\ Reading

\* A step of one call within its transaction.
StepOf(c) ==
  \/ c \in Publishers /\ (LookUp(c) \/ InsertRow(c) \/ SkipCover(c) \/ WriteCover(c)
                            \/ SaveCover(c) \/ Clean(c) \/ ListBook(c) \/ ListFails(c))
  \/ c \in Editors /\ StartEdit(c)
  \/ Fill(c) \/ AddPhotos(c) \/ Commit(c) \/ Fail(c) \/ Crash(c)

LEMMA NextSplit ==
  ASSUME Next
  PROVE  \/ \E c \in Calls : StepOf(c)
         \/ \E p \in Publishers : DeleteBook(p) \/ DropCover(p)
BY DEF Next, StepOf, Calls

LEMMA InitTyped == Init => Typed
<1> SUFFICES ASSUME Init PROVE Typed
  OBVIOUS
<1>1. official \in {Absent} \cup OfficialRow
  BY DEF Init, OfficialRow, Authors, Covers
<1>2. \A g \in BOOLEAN, s \in {"none", "upload", "url"} :
        New(g, s) \in Call /\ New(g, s).pc = "new"
  BY DEF New, Call
<1>3. call \in [Calls -> Call] /\ \A c \in Calls : call[c].pc = "new"
  BY <1>2 DEF Init
<1>4. shared \in [Publishers -> {Absent} \cup SharedRow]
  BY DEF Init
<1>5. files \subseteq (Covers \X {"cover"}) \cup (Calls \X {"photo"})
  BY DEF Init, Cover, Covers
<1> QED
  BY <1>1, <1>3, <1>4, <1>5 DEF Init, Typed, TypeOK, Reading, Active

\* Every step replaces the record of its call and leaves the others alone.
Sets(c, new) ==
  /\ call' \in [Calls -> Call]
  /\ call'[c] = new
  /\ \A d \in Calls : d # c => call'[d] = call[d]

LEMMA OneCall ==
  ASSUME TypeOK, NEW c \in Calls, NEW new \in Call, call' = [call EXCEPT ![c] = new]
  PROVE  Sets(c, new)
BY DEF TypeOK, Sets

LEMMA LookUpSets ==
  ASSUME Typed, NEW c \in Publishers, LookUp(c)
  PROVE  Sets(c, [call[c] EXCEPT !.pc = IF official = Absent THEN "insert" ELSE "fill",
                                 !.seen = official])
<1> DEFINE new == [call[c] EXCEPT !.pc = IF official = Absent THEN "insert" ELSE "fill",
                                  !.seen = official]
<1>1. c \in Calls
  BY DEF Calls
<1>2. call[c] \in Call
  BY <1>1 DEF Typed, TypeOK
<1>3. new \in Call
  BY <1>2 DEF Typed, TypeOK, Call
<1>4. call' = [call EXCEPT ![c] = new]
  BY <1>1, <1>2 DEF LookUp, Typed, TypeOK
<1> QED
  BY <1>1, <1>3, <1>4, OneCall DEF Typed

LEMMA GoesSets ==
  ASSUME Typed, NEW c \in Calls, NEW pc, Goes(c, pc),
         pc \in {"insert", "fill", "attach", "cover", "photos", "commit", "list", "clean",
                 "done"}
  PROVE  Sets(c, [call[c] EXCEPT !.pc = pc])
<1>1. call[c] \in Call
  BY DEF Typed, TypeOK
<1>2. [call[c] EXCEPT !.pc = pc] \in Call
  BY <1>1 DEF Call
<1>3. call' = [call EXCEPT ![c] = [call[c] EXCEPT !.pc = pc]]
  BY <1>1 DEF Goes, Typed, TypeOK
<1> QED
  BY <1>2, <1>3, OneCall DEF Typed

LEMMA StartEditSets ==
  ASSUME Typed, NEW c \in Editors, StartEdit(c)
  PROVE  Sets(c, [call[c] EXCEPT !.pc = "fill", !.seen = official])
<1> DEFINE new == [call[c] EXCEPT !.pc = "fill", !.seen = official]
<1>1. c \in Calls /\ call[c] \in Call
  BY DEF Calls, Typed, TypeOK
<1>2. new \in Call
  BY <1>1 DEF Typed, TypeOK, Call
<1>3. call' = [call EXCEPT ![c] = new]
  BY <1>1 DEF StartEdit, Typed, TypeOK
<1> QED
  BY <1>1, <1>2, <1>3, OneCall DEF Typed

\* The row an insert or a fill makes is a row.
LEMMA GivenTyped == ASSUME NEW c \in Calls PROVE Given(c) \in Authors \cup {Blank}
BY DEF Given, Authors

Inserted(c) == [author |-> Given(c), cover |-> NoFile]
Filled(c) == [official EXCEPT !.author = IF @ = Blank THEN Given(c) ELSE @]

LEMMA RowsTyped ==
  ASSUME Typed, NEW c \in Calls
  PROVE  /\ Inserted(c) \in OfficialRow
         /\ official # Absent => Filled(c) \in OfficialRow
         /\ \A r \in OfficialRow : r # Absent
BY GivenTyped, PublishingAssumption DEF Inserted, Filled, OfficialRow, Typed, TypeOK

LEMMA InsertRowSets ==
  ASSUME Typed, NEW c \in Publishers, InsertRow(c)
  PROVE  IF official = Absent
         THEN Sets(c, [call[c] EXCEPT !.pc = "attach", !.seen = Inserted(c),
                                      !.row = Inserted(c)])
         ELSE Sets(c, [call[c] EXCEPT !.pc = "fill", !.seen = official])
<1> DEFINE new == [call[c] EXCEPT !.pc = "attach", !.seen = Inserted(c), !.row = Inserted(c)]
           old == [call[c] EXCEPT !.pc = "fill", !.seen = official]
<1>1. c \in Calls /\ call[c] \in Call
  BY DEF Calls, Typed, TypeOK
<1>2. new \in Call /\ old \in Call
  BY <1>1, RowsTyped DEF Typed, TypeOK, Call
<1>3. CASE official = Absent
  <2>1. call' = [call EXCEPT ![c] = new]
    BY <1>1, <1>3 DEF InsertRow, Inserted, Typed, TypeOK
  <2> QED
    BY <1>1, <1>2, <1>3, <2>1, OneCall DEF Typed
<1>4. CASE official # Absent
  <2>1. call' = [call EXCEPT ![c] = old]
    BY <1>1, <1>4 DEF InsertRow, Typed, TypeOK
  <2> QED
    BY <1>1, <1>2, <1>4, <2>1, OneCall DEF Typed
<1> QED
  BY <1>3, <1>4

LEMMA FillSets ==
  ASSUME Typed, NEW c \in Calls, Fill(c)
  PROVE  /\ official # Absent
         /\ Sets(c, [call[c] EXCEPT !.pc = IF c \in Publishers THEN "attach" ELSE "photos",
                                    !.row = Filled(c)])
<1> DEFINE new == [call[c] EXCEPT !.pc = IF c \in Publishers THEN "attach" ELSE "photos",
                                  !.row = Filled(c)]
<1>1. call[c] \in Call
  BY DEF Typed, TypeOK
<1>2. official # Absent
  BY DEF Typed, Reading, Fill, At
<1>3. new \in Call
  BY <1>1, <1>2, RowsTyped DEF Call
<1>4. call' = [call EXCEPT ![c] = new]
  BY <1>1 DEF Fill, Filled, Typed, TypeOK
<1> QED
  BY <1>2, <1>3, <1>4, OneCall DEF Typed

LEMMA WriteCoverSets ==
  ASSUME Typed, NEW c \in Publishers, WriteCover(c)
  PROVE  Sets(c, [call[c] EXCEPT !.pc = "cover", !.saved = TRUE])
<1> DEFINE new == [call[c] EXCEPT !.pc = "cover", !.saved = TRUE]
<1>1. c \in Calls /\ call[c] \in Call
  BY DEF Calls, Typed, TypeOK
<1>2. new \in Call
  BY <1>1 DEF Call
<1>3. call' = [call EXCEPT ![c] = new]
  BY <1>1 DEF WriteCover, Typed, TypeOK
<1> QED
  BY <1>1, <1>2, <1>3, OneCall DEF Typed

ToCatalog(c) == call[c].source = "url" \/ call[c].row.cover = NoFile

LEMMA SaveCoverSets ==
  ASSUME Typed, NEW c \in Publishers, SaveCover(c)
  PROVE  /\ call[c].row \in OfficialRow
         /\ IF ToCatalog(c)
            THEN Sets(c, [call[c] EXCEPT !.pc = "photos",
                                         !.row = [call[c].row EXCEPT !.cover = c]])
            ELSE Sets(c, [call[c] EXCEPT !.pc = "photos", !.own = c])
<1> DEFINE row == [call[c].row EXCEPT !.cover = c]
           new == [call[c] EXCEPT !.pc = "photos", !.row = row]
           mine == [call[c] EXCEPT !.pc = "photos", !.own = c]
<1>1. c \in Calls /\ call[c] \in Call
  BY DEF Calls, Typed, TypeOK
<1>2. call[c].row \in OfficialRow
  BY <1>1 DEF Typed, Reading, Active, SaveCover, At, Call
<1>3. row \in OfficialRow
  BY <1>2 DEF OfficialRow, Covers
<1>4. new \in Call
  BY <1>1, <1>3 DEF Call
<1>5. mine \in Call
  BY <1>1 DEF Call
<1>6. CASE ToCatalog(c)
  <2>1. call' = [call EXCEPT ![c] = new]
    BY <1>1, <1>6 DEF SaveCover, ToCatalog, Typed, TypeOK, Call
  <2> QED
    BY <1>1, <1>2, <1>4, <1>6, <2>1, OneCall DEF Typed
<1>7. CASE ~ToCatalog(c)
  <2>1. call' = [call EXCEPT ![c] = mine]
    BY <1>1, <1>7 DEF SaveCover, ToCatalog, Typed, TypeOK
  <2> QED
    BY <1>1, <1>2, <1>5, <1>7, <2>1, OneCall DEF Typed
<1> QED
  BY <1>6, <1>7

\* What is left of the types when the record of the call is settled.
RestTyped ==
  /\ official' \in {Absent} \cup OfficialRow
  /\ official # Absent => official' # Absent
  /\ lock' \in Calls \cup {NoCall}
  /\ shared' \in [Publishers -> {Absent} \cup SharedRow]
  /\ files' \subseteq (Covers \X {"cover"}) \cup (Calls \X {"photo"})
  /\ dropping' \subseteq Publishers
  /\ spoiled' \subseteq Publishers /\ back' \subseteq Publishers

LEMMA TypedFrom ==
  ASSUME Typed, RestTyped, NEW c \in Calls, NEW new, Sets(c, new),
         new.pc = "fill" => official # Absent,
         new.pc \in {"attach", "cover", "photos", "commit"} => new.row # Absent
  PROVE  Typed'
BY DEF Typed, TypeOK, RestTyped, Reading, Active, Sets

LEMMA FilesTyped ==
  /\ \A p \in Publishers : Cover(p) \in Covers \X {"cover"}
  /\ \A c \in Calls : Photo(c) \in Calls \X {"photo"}
BY DEF Cover, Photo, Covers

LEMMA GoesTyped ==
  ASSUME Typed, RestTyped, NEW c \in Calls, NEW pc, Goes(c, pc),
         \/ pc \in {"list", "clean", "done"}
         \/ pc \in {"photos", "commit"} /\ Active(c)
  PROVE  Typed'
<1> DEFINE new == [call[c] EXCEPT !.pc = pc]
<1>1. call[c] \in Call /\ (Active(c) => call[c].row # Absent)
  BY DEF Typed, TypeOK, Reading
<1>2. new.pc = pc /\ new.row = call[c].row
  BY <1>1 DEF Call
<1>3. Sets(c, new)
  BY GoesSets
<1> HIDE DEF new
<1> QED
  BY <1>1, <1>2, <1>3, TypedFrom

LEMMA StepRestTyped == ASSUME Typed, NEW c \in Calls, StepOf(c) PROVE RestTyped
<1> USE DEF Typed, TypeOK, RestTyped, Filed, table, history
<1>1. CASE c \in Publishers /\ LookUp(c)
  BY <1>1 DEF LookUp
<1>2. CASE c \in Publishers /\ InsertRow(c)
  BY <1>2 DEF InsertRow
<1>3. CASE c \in Publishers /\ SkipCover(c)
  BY <1>3 DEF SkipCover
<1>4. CASE c \in Publishers /\ WriteCover(c)
  BY <1>4, FilesTyped DEF WriteCover
<1>5. CASE c \in Publishers /\ SaveCover(c)
  BY <1>5 DEF SaveCover
<1>6. CASE c \in Publishers /\ Clean(c)
  BY <1>6 DEF Clean
<1>7. CASE c \in Publishers /\ ListBook(c)
  <2>1. call[c].own \in Publishers \cup {NoFile}
    BY DEF Call
  <2> QED
    BY <1>7, <2>1 DEF ListBook, SharedRow
<1>8. CASE c \in Publishers /\ ListFails(c)
  BY <1>8 DEF ListFails
<1>9. CASE c \in Editors /\ StartEdit(c)
  BY <1>9 DEF StartEdit
<1>10. CASE Fill(c)
  BY <1>10 DEF Fill
<1>11. CASE AddPhotos(c)
  BY <1>11, FilesTyped DEF AddPhotos
<1>12. CASE Commit(c)
  <2>1. call[c].own \in Publishers \cup {NoFile}
    BY DEF Call
  <2>2. call[c].row \in OfficialRow /\ call[c].row # Absent
    BY <1>12 DEF Call, Reading, Active, Commit, At
  <2>3. shared' \in [Publishers -> {Absent} \cup SharedRow]
    BY <1>12, <2>1 DEF Commit, SharedRow
  <2> QED
    BY <1>12, <2>2, <2>3 DEF Commit
<1>13. CASE Fail(c)
  BY <1>13 DEF Fail, Released
<1>14. CASE Crash(c)
  BY <1>14 DEF Crash, Released
<1> QED
  BY <1>1, <1>2, <1>3, <1>4, <1>5, <1>6, <1>7, <1>8, <1>9, <1>10, <1>11, <1>12, <1>13,
     <1>14 DEF StepOf

LEMMA StepTyped == ASSUME Typed, NEW c \in Calls, StepOf(c) PROVE Typed'
<1>0. c \in Publishers \cup Editors => c \in Calls
  BY DEF Calls
<1>1. RestTyped
  BY StepRestTyped
<1>2. call[c] \in Call /\ (Active(c) => call[c].row # Absent)
  BY DEF Typed, TypeOK, Reading
<1>3. CASE c \in Publishers /\ LookUp(c)
  BY <1>0, <1>1, <1>2, <1>3, LookUpSets, TypedFrom DEF Call
<1>4. CASE c \in Publishers /\ InsertRow(c)
  BY <1>0, <1>1, <1>2, <1>4, InsertRowSets, RowsTyped, TypedFrom DEF Call
<1>5. CASE c \in Publishers /\ SkipCover(c)
  BY <1>0, <1>1, <1>5, GoesTyped DEF SkipCover, At, Active
<1>6. CASE c \in Publishers /\ WriteCover(c)
  BY <1>0, <1>1, <1>2, <1>6, WriteCoverSets, TypedFrom DEF Call, WriteCover, At, Active
<1>7. CASE c \in Publishers /\ SaveCover(c)
  <2>1. [call[c].row EXCEPT !.cover = c] \in OfficialRow
    BY <1>7, SaveCoverSets DEF OfficialRow, Covers
  <2> QED
    BY <1>1, <1>2, <1>7, <2>1, SaveCoverSets, RowsTyped, TypedFrom
       DEF Call, SaveCover, At, Active
<1>8. CASE c \in Publishers /\ Clean(c)
  BY <1>0, <1>1, <1>8, GoesTyped DEF Clean
<1>9. CASE c \in Publishers /\ ListBook(c)
  BY <1>0, <1>1, <1>9, GoesTyped DEF ListBook
<1>10. CASE c \in Publishers /\ ListFails(c)
  BY <1>0, <1>1, <1>10, GoesTyped DEF ListFails
<1>11. CASE c \in Editors /\ StartEdit(c)
  BY <1>1, <1>2, <1>11, StartEditSets, TypedFrom DEF Call, StartEdit
<1>12. CASE Fill(c)
  BY <1>1, <1>2, <1>12, FillSets, RowsTyped, TypedFrom DEF Call
<1>13. CASE AddPhotos(c)
  BY <1>0, <1>1, <1>13, GoesTyped DEF AddPhotos, At, Active
<1>14. CASE Commit(c)
  BY <1>0, <1>1, <1>14, GoesTyped DEF Commit
<1>15. CASE Fail(c)
  BY <1>0, <1>1, <1>15, GoesTyped DEF Fail
<1>16. CASE Crash(c)
  BY <1>0, <1>1, <1>16, GoesTyped DEF Crash
<1> QED
  BY <1>3, <1>4, <1>5, <1>6, <1>7, <1>8, <1>9, <1>10, <1>11, <1>12, <1>13,
     <1>14, <1>15, <1>16 DEF StepOf

LEMMA BookTyped ==
  ASSUME Typed, NEW p \in Publishers, DeleteBook(p) \/ DropCover(p)
  PROVE  Typed' /\ UNCHANGED <<official, lock, call>>
BY DEF Typed, TypeOK, Reading, Active, DeleteBook, DropCover, table, history

LEMMA TypedInvariant == Spec => []Typed
<1>1. Typed /\ UNCHANGED vars => Typed'
  BY DEF Typed, TypeOK, Reading, Active, vars, table, history
<1>2. Typed /\ [Next]_vars => Typed'
  BY <1>1, NextSplit, StepTyped, BookTyped
<1> QED
  BY InitTyped, <1>2, PTL DEF Spec

\* Every record of the tables, of the calls and of the storage keeps its type.
THEOREM TypeCorrect == Spec => []TypeOK
<1>1. Typed => TypeOK
  BY DEF Typed
<1> QED
  BY <1>1, TypedInvariant, PTL
-----------------------------------------------------------------------------
(* What each step does to its call *)

Others(c) == \A d \in Calls : d # c => call'[d] = call[d]

Changes(c, pc, row, own, saved) ==
  /\ call'[c].pc = pc /\ call'[c].source = call[c].source
  /\ call'[c].row = row /\ call'[c].own = own /\ call'[c].saved = saved
  /\ Others(c)

LEMMA GoesChanges ==
  ASSUME Typed, NEW c \in Calls, NEW pc, Goes(c, pc)
  PROVE  Changes(c, pc, call[c].row, call[c].own, call[c].saved)
<1>1. call[c] \in Call
  BY DEF Typed, TypeOK
<1>2. call' = [call EXCEPT ![c] = [call[c] EXCEPT !.pc = pc]]
  BY <1>1 DEF Goes, Typed, TypeOK
<1>3. call'[c] = [call[c] EXCEPT !.pc = pc] /\ Others(c)
  BY <1>2 DEF Typed, TypeOK, Others
<1> QED
  BY <1>1, <1>3 DEF Changes, Call

LEMMA LookUpChanges ==
  ASSUME Typed, NEW c \in Publishers, LookUp(c)
  PROVE  Changes(c, IF official = Absent THEN "insert" ELSE "fill",
                 call[c].row, call[c].own, call[c].saved)
<1>1. c \in Calls /\ call[c] \in Call
  BY DEF Calls, Typed, TypeOK
<1> DEFINE pc == IF official = Absent THEN "insert" ELSE "fill"
           new == [call[c] EXCEPT !.pc = pc, !.seen = official]
<1> HIDE DEF pc
<1>2. /\ new.pc = pc /\ new.source = call[c].source /\ new.saved = call[c].saved
      /\ new.row = call[c].row /\ new.own = call[c].own
  BY <1>1 DEF Call
<1>3. Sets(c, new)
  BY LookUpSets DEF pc
<1> HIDE DEF new
<1> QED
  BY <1>2, <1>3 DEF Sets, Changes, Others, pc

LEMMA StartEditChanges ==
  ASSUME Typed, NEW c \in Editors, StartEdit(c)
  PROVE  Changes(c, "fill", call[c].row, call[c].own, call[c].saved)
<1>1. c \in Calls /\ call[c] \in Call
  BY DEF Calls, Typed, TypeOK
<1> DEFINE new == [call[c] EXCEPT !.pc = "fill", !.seen = official]
<1>2. /\ new.pc = "fill" /\ new.source = call[c].source /\ new.saved = call[c].saved
      /\ new.row = call[c].row /\ new.own = call[c].own
  BY <1>1 DEF Call
<1>3. Sets(c, new)
  BY StartEditSets
<1> HIDE DEF new
<1> QED
  BY <1>2, <1>3 DEF Sets, Changes, Others

LEMMA InsertRowChanges ==
  ASSUME Typed, NEW c \in Publishers, InsertRow(c)
  PROVE  IF official = Absent
         THEN Changes(c, "attach", Inserted(c), call[c].own, call[c].saved)
         ELSE Changes(c, "fill", call[c].row, call[c].own, call[c].saved)
<1>1. c \in Calls /\ call[c] \in Call
  BY DEF Calls, Typed, TypeOK
<1> DEFINE new == [call[c] EXCEPT !.pc = "attach", !.seen = Inserted(c), !.row = Inserted(c)]
           old == [call[c] EXCEPT !.pc = "fill", !.seen = official]
<1>2. /\ new.pc = "attach" /\ new.source = call[c].source /\ new.saved = call[c].saved
      /\ new.row = Inserted(c) /\ new.own = call[c].own
  BY <1>1 DEF Call
<1>3. /\ old.pc = "fill" /\ old.source = call[c].source /\ old.saved = call[c].saved
      /\ old.row = call[c].row /\ old.own = call[c].own
  BY <1>1 DEF Call
<1>4. IF official = Absent THEN Sets(c, new) ELSE Sets(c, old)
  BY InsertRowSets
<1> HIDE DEF new, old
<1> QED
  BY <1>2, <1>3, <1>4 DEF Sets, Changes, Others

LEMMA FillChanges ==
  ASSUME Typed, NEW c \in Calls, Fill(c)
  PROVE  /\ official # Absent
         /\ Changes(c, IF c \in Publishers THEN "attach" ELSE "photos", Filled(c),
                    call[c].own, call[c].saved)
<1>1. call[c] \in Call
  BY DEF Typed, TypeOK
<1> DEFINE pc == IF c \in Publishers THEN "attach" ELSE "photos"
           new == [call[c] EXCEPT !.pc = pc, !.row = Filled(c)]
<1> HIDE DEF pc
<1>2. /\ new.pc = pc /\ new.source = call[c].source /\ new.saved = call[c].saved
      /\ new.row = Filled(c) /\ new.own = call[c].own
  BY <1>1 DEF Call
<1>3. official # Absent /\ Sets(c, new)
  BY FillSets DEF pc
<1> HIDE DEF new
<1> QED
  BY <1>2, <1>3 DEF Sets, Changes, Others, pc

LEMMA WriteCoverChanges ==
  ASSUME Typed, NEW c \in Publishers, WriteCover(c)
  PROVE  Changes(c, "cover", call[c].row, call[c].own, TRUE)
<1>1. c \in Calls /\ call[c] \in Call
  BY DEF Calls, Typed, TypeOK
<1> DEFINE new == [call[c] EXCEPT !.pc = "cover", !.saved = TRUE]
<1>2. /\ new.pc = "cover" /\ new.source = call[c].source /\ new.saved = TRUE
      /\ new.row = call[c].row /\ new.own = call[c].own
  BY <1>1 DEF Call
<1>3. Sets(c, new)
  BY WriteCoverSets
<1> HIDE DEF new
<1> QED
  BY <1>2, <1>3 DEF Sets, Changes, Others

LEMMA SaveCoverChanges ==
  ASSUME Typed, NEW c \in Publishers, SaveCover(c)
  PROVE  /\ call[c].row \in OfficialRow
         /\ IF ToCatalog(c)
            THEN Changes(c, "photos", [call[c].row EXCEPT !.cover = c], call[c].own,
                         call[c].saved)
            ELSE Changes(c, "photos", call[c].row, c, call[c].saved)
<1>1. c \in Calls /\ call[c] \in Call
  BY DEF Calls, Typed, TypeOK
<1> DEFINE row == [call[c].row EXCEPT !.cover = c]
           new == [call[c] EXCEPT !.pc = "photos", !.row = row]
           mine == [call[c] EXCEPT !.pc = "photos", !.own = c]
<1> HIDE DEF row
<1>2. /\ new.pc = "photos" /\ new.source = call[c].source /\ new.saved = call[c].saved
      /\ new.row = row /\ new.own = call[c].own
  BY <1>1 DEF Call
<1>3. /\ mine.pc = "photos" /\ mine.source = call[c].source /\ mine.saved = call[c].saved
      /\ mine.row = call[c].row /\ mine.own = c
  BY <1>1 DEF Call
<1>4. /\ call[c].row \in OfficialRow
      /\ IF ToCatalog(c) THEN Sets(c, new) ELSE Sets(c, mine)
  BY SaveCoverSets DEF row
<1> HIDE DEF new, mine
<1> QED
  BY <1>2, <1>3, <1>4 DEF Sets, Changes, Others, row
-----------------------------------------------------------------------------
(* The catalog row *)

LEMMA HoldingStep == ASSUME Typed, Holding, NEW c \in Calls, StepOf(c) PROVE Holding'
<1>0. NoCall \notin Calls /\ Publishers \subseteq Calls /\ Editors \subseteq Calls
  BY PublishingAssumption DEF Calls
<1> USE DEF Holding, Active, Changes, Others, Filed, table
<1>1. CASE c \in Publishers /\ LookUp(c)
  <2>1. call[c].pc = "new" /\ lock' = lock
    BY <1>1 DEF LookUp, At
  <2> QED
    BY <1>0, <1>1, <2>1, LookUpChanges
<1>2. CASE c \in Publishers /\ InsertRow(c)
  <2>1. call[c].pc = "insert" /\ lock = NoCall
    BY <1>2 DEF InsertRow, At, Free
  <2>2. lock' = IF official = Absent THEN c ELSE lock
    BY <1>2 DEF InsertRow
  <2> QED
    BY <1>0, <1>2, <2>1, <2>2, InsertRowChanges
<1>3. CASE c \in Publishers /\ SkipCover(c)
  BY <1>0, <1>3, GoesChanges DEF SkipCover, At
<1>4. CASE c \in Publishers /\ WriteCover(c)
  BY <1>0, <1>4, WriteCoverChanges DEF WriteCover, At
<1>5. CASE c \in Publishers /\ SaveCover(c)
  <2>1. call[c].pc = "cover" /\ lock' = lock
    BY <1>5 DEF SaveCover, At
  <2>2. call'[c].pc = "photos" /\ Others(c)
    BY <1>5, SaveCoverChanges
  <2> QED
    BY <1>0, <2>1, <2>2
<1>6. CASE c \in Publishers /\ Clean(c)
  BY <1>0, <1>6, GoesChanges DEF Clean, At
<1>7. CASE c \in Publishers /\ ListBook(c)
  BY <1>0, <1>7, GoesChanges DEF ListBook, At
<1>8. CASE c \in Publishers /\ ListFails(c)
  BY <1>0, <1>8, GoesChanges DEF ListFails, At
<1>9. CASE c \in Editors /\ StartEdit(c)
  BY <1>0, <1>9, StartEditChanges DEF StartEdit, At
<1>10. CASE Fill(c)
  <2>1. call[c].pc = "fill" /\ lock = NoCall /\ lock' = c
    BY <1>10 DEF Fill, At, Free
  <2>2. call'[c].pc \in {"attach", "photos"} /\ Others(c)
    BY <1>10, FillChanges
  <2> QED
    BY <1>0, <2>1, <2>2
<1>11. CASE AddPhotos(c)
  BY <1>0, <1>11, GoesChanges DEF AddPhotos, At
<1>12. CASE Commit(c)
  BY <1>0, <1>12, GoesChanges DEF Commit, At
<1>13. CASE Fail(c)
  BY <1>0, <1>13, GoesChanges DEF Fail, Released
<1>14. CASE Crash(c)
  BY <1>0, <1>14, GoesChanges DEF Crash, Released
<1> QED
  BY <1>1, <1>2, <1>3, <1>4, <1>5, <1>6, <1>7, <1>8, <1>9, <1>10, <1>11, <1>12, <1>13,
     <1>14 DEF StepOf

\* What the calls that do not move have read stays true while the row stays.
LEMMA OthersGrow ==
  ASSUME Growing, NEW c \in Calls, Others(c), official' = official, Grows(c)'
  PROVE  Growing'
BY DEF Growing, Grows, Others, Active, Covered, InCatalog

LEMMA GrowingStep == ASSUME Typed, Holding, Growing, NEW c \in Calls, StepOf(c) PROVE Growing'
<1>0. NoCall \notin Calls /\ Publishers \subseteq Calls /\ Editors \subseteq Calls
  BY PublishingAssumption DEF Calls
<1>a. Grows(c)
  BY DEF Growing
<1> USE DEF Active, Changes, Filed, table
<1>1. CASE c \in Publishers /\ LookUp(c)
  <2>1. Grows(c)'
    BY <1>0, <1>1, LookUpChanges DEF Grows
  <2> QED
    BY <1>0, <1>1, <2>1, LookUpChanges, OthersGrow DEF LookUp
<1>2. CASE c \in Publishers /\ InsertRow(c)
  <2>1. Grows(c)'
    <3>1. official' = official /\ Inserted(c).cover = NoFile
      BY <1>2 DEF InsertRow, Inserted
    <3> QED
      BY <1>0, <1>2, <3>1, InsertRowChanges DEF Grows
  <2> QED
    BY <1>0, <1>2, <2>1, InsertRowChanges, OthersGrow DEF InsertRow
<1>3. CASE c \in Publishers /\ SkipCover(c)
  <2>1. Grows(c)'
    BY <1>a, <1>0, <1>3, GoesChanges DEF SkipCover, At, Grows, Covered, InCatalog
  <2> QED
    BY <1>0, <1>3, <2>1, GoesChanges, OthersGrow DEF SkipCover
<1>4. CASE c \in Publishers /\ WriteCover(c)
  <2>1. call[c].source = "url" => call[c].row.cover = NoFile
    BY <1>4 DEF WriteCover, WantsCover
  <2>2. Grows(c)'
    BY <1>a, <1>0, <1>4, <2>1, WriteCoverChanges DEF WriteCover, At, Grows, Covered, InCatalog
  <2> QED
    BY <1>0, <1>4, <2>2, WriteCoverChanges, OthersGrow DEF WriteCover
<1>5. CASE c \in Publishers /\ SaveCover(c)
  <2>1. Grows(c)'
    <3>1. call[c].pc = "cover" /\ official' = official
      BY <1>5 DEF SaveCover, At
    <3>2. CASE ToCatalog(c)
      <4>1. call[c].row.cover = NoFile
        BY <1>a, <3>1, <3>2 DEF ToCatalog, Grows
      <4> DEFINE row == [call[c].row EXCEPT !.cover = c]
      <4>a. row.cover = c /\ row.author = call[c].row.author
        BY <1>5, SaveCoverChanges DEF OfficialRow
      <4>b. call'[c].row = row
        BY <1>5, <3>2, SaveCoverChanges
      <4>2. call'[c].row.cover = c /\ call'[c].row.author = call[c].row.author
        BY <4>a, <4>b
      <4>3. call'[c].pc = "photos"
        BY <1>0, <1>5, <3>2, SaveCoverChanges
      <4> QED
        BY <1>a, <3>1, <4>1, <4>2, <4>3 DEF Grows, Covered
    <3>3. CASE ~ToCatalog(c)
      <4>1. call'[c].row = call[c].row /\ call'[c].pc = "photos"
        BY <1>0, <1>5, <3>3, SaveCoverChanges
      <4> QED
        BY <1>a, <3>1, <4>1 DEF Grows, Covered, InCatalog
    <3> QED
      BY <3>2, <3>3
  <2> QED
    BY <1>0, <1>5, <2>1, SaveCoverChanges, OthersGrow DEF SaveCover
<1>6. CASE c \in Publishers /\ Clean(c)
  BY <1>0, <1>6, GoesChanges, OthersGrow DEF Clean, Grows
<1>7. CASE c \in Publishers /\ ListBook(c)
  BY <1>0, <1>7, GoesChanges, OthersGrow DEF ListBook, Grows
<1>8. CASE c \in Publishers /\ ListFails(c)
  BY <1>0, <1>8, GoesChanges, OthersGrow DEF ListFails, Grows
<1>9. CASE c \in Editors /\ StartEdit(c)
  BY <1>0, <1>9, StartEditChanges, OthersGrow DEF StartEdit, Grows
<1>10. CASE Fill(c)
  <2>1. official \in OfficialRow
    BY <1>10, FillChanges DEF Typed, TypeOK
  <2>2. /\ Filled(c).cover = official.cover
        /\ official.author # Blank => Filled(c).author = official.author
    BY <2>1 DEF Filled, OfficialRow
  <2>3. Grows(c)'
    <3>1. call'[c].row = Filled(c) /\ call'[c].pc # "cover"
      BY <1>10, FillChanges
    <3>2. official' = official /\ official # Absent
      BY <1>10, FillChanges DEF Fill
    <3> QED
      BY <2>2, <3>1, <3>2 DEF Grows, InCatalog
  <2> QED
    BY <1>0, <1>10, <2>3, FillChanges, OthersGrow DEF Fill
<1>11. CASE AddPhotos(c)
  <2>1. Grows(c)'
    BY <1>a, <1>0, <1>11, GoesChanges DEF AddPhotos, At, Grows, Covered, InCatalog
  <2> QED
    BY <1>0, <1>11, <2>1, GoesChanges, OthersGrow DEF AddPhotos
<1>12. CASE Commit(c)
  <2>1. \A d \in Calls : d # c => ~Active(d)
    BY <1>12 DEF Holding, Commit, At
  <2>2. \A d \in Calls : d # c => call'[d] = call[d]
    BY <1>12, GoesChanges DEF Commit, Others
  <2>3. call'[c].pc \in {"list", "done"}
    BY <1>12, GoesChanges DEF Commit
  <2> QED
    BY <2>1, <2>2, <2>3 DEF Growing, Grows
<1>13. CASE Fail(c)
  BY <1>0, <1>13, GoesChanges, OthersGrow DEF Fail, Grows
<1>14. CASE Crash(c)
  BY <1>0, <1>14, GoesChanges, OthersGrow DEF Crash, Grows
<1> QED
  BY <1>1, <1>2, <1>3, <1>4, <1>5, <1>6, <1>7, <1>8, <1>9, <1>10, <1>11, <1>12, <1>13,
     <1>14 DEF StepOf

\* No step replaces what the row holds: only a commit writes it, and what it
\* writes has grown from it.
LEMMA StepKeeps ==
  ASSUME Typed, Growing, NEW c \in Calls, StepOf(c), official # Absent
  PROVE  /\ official' # Absent
         /\ official.author # Blank => official'.author = official.author
         /\ official.cover # NoFile => official'.cover = official.cover
<1>1. CASE Commit(c)
  <2>1. Active(c) /\ official' = call[c].row
    BY <1>1 DEF Commit, At, Active
  <2> QED
    BY <2>1 DEF Growing, Grows, Typed, Reading
<1>2. CASE ~Commit(c)
  <2>1. official' = official
    BY <1>2 DEF StepOf, LookUp, InsertRow, SkipCover, WriteCover, SaveCover, Clean, ListBook,
                ListFails, StartEdit, Fill, AddPhotos, Fail, Crash, table
  <2> QED
    BY <2>1
<1> QED
  BY <1>1, <1>2
-----------------------------------------------------------------------------
(* The covers: what a step of one call leaves alone *)

LEMMA CoverNames ==
  /\ \A p, q : Cover(p) = Cover(q) => p = q
  /\ \A p, c : Cover(p) # Photo(c)
BY DEF Cover, Photo

\* A commit moves the catalog's cover to the one of its own call at most.
LEMMA CommitCatalog ==
  ASSUME Typed, Growing, NEW c \in Calls, Commit(c), NEW p \in Publishers, p # c
  PROVE  InCatalog(p)' <=> InCatalog(p)
<1>1. Active(c) /\ official' = call[c].row /\ p # NoFile
  BY PublishingAssumption DEF Commit, At, Active, Covers
<1>2. official' # Absent
  BY <1>1 DEF Typed, Reading
<1>3. \/ official'.cover = NoFile \/ official'.cover = c
      \/ official # Absent /\ official.cover = official'.cover
  BY <1>1 DEF Growing, Grows, InCatalog
<1>4. official # Absent /\ official.cover # NoFile => official'.cover = official.cover
  BY <1>1 DEF Growing, Grows
<1>5. InCatalog(p) => InCatalog(p)'
  BY <1>1, <1>2, <1>4 DEF InCatalog
<1>6. InCatalog(p)' => InCatalog(p)
  BY <1>1, <1>3 DEF InCatalog
<1> QED
  BY <1>5, <1>6

Same(p) ==
  /\ call'[p] = call[p] /\ shared'[p] = shared[p]
  /\ p \in dropping' <=> p \in dropping
  /\ p \in spoiled' <=> p \in spoiled
  /\ p \in back' <=> p \in back
  /\ Cover(p) \in files' <=> Cover(p) \in files
  /\ InCatalog(p)' <=> InCatalog(p)

LEMMA SameFine == ASSUME NEW p \in Publishers, Fine(p), Same(p) PROVE Fine(p)'
BY DEF Same, Fine, Apart, Stored, Recorded, Shown, Over, Covered

LEMMA StepSame ==
  ASSUME Typed, Growing, NEW c \in Calls, StepOf(c), NEW p \in Publishers, p # c
  PROVE  Same(p)
<1>0. p \in Calls /\ Publishers \subseteq Calls /\ Editors \subseteq Calls
  BY DEF Calls
<1> USE DEF Same, Changes, Others, Filed, table, history, InCatalog
<1>1. CASE c \in Publishers /\ LookUp(c)
  BY <1>0, <1>1, LookUpChanges DEF LookUp
<1>2. CASE c \in Publishers /\ InsertRow(c)
  BY <1>0, <1>2, InsertRowChanges DEF InsertRow
<1>3. CASE c \in Publishers /\ SkipCover(c)
  BY <1>0, <1>3, GoesChanges DEF SkipCover
<1>4. CASE c \in Publishers /\ WriteCover(c)
  BY <1>0, <1>4, WriteCoverChanges, CoverNames DEF WriteCover
<1>5. CASE c \in Publishers /\ SaveCover(c)
  <2>1. Others(c)
    BY <1>5, SaveCoverChanges
  <2> QED
    BY <1>0, <1>5, <2>1 DEF SaveCover
<1>6. CASE c \in Publishers /\ Clean(c)
  BY <1>0, <1>6, GoesChanges, CoverNames DEF Clean
<1>7. CASE c \in Publishers /\ ListBook(c)
  BY <1>0, <1>7, GoesChanges DEF ListBook
<1>8. CASE c \in Publishers /\ ListFails(c)
  BY <1>0, <1>8, GoesChanges DEF ListFails
<1>9. CASE c \in Editors /\ StartEdit(c)
  BY <1>0, <1>9, StartEditChanges DEF StartEdit
<1>10. CASE Fill(c)
  BY <1>0, <1>10, FillChanges DEF Fill
<1>11. CASE AddPhotos(c)
  BY <1>0, <1>11, GoesChanges, CoverNames DEF AddPhotos
<1>12. CASE Commit(c)
  <2>1. Changes(c, IF c \in Publishers THEN "list" ELSE "done", call[c].row, call[c].own,
                call[c].saved)
    BY <1>12, GoesChanges DEF Commit
  <2>2. call'[p] = call[p]
    BY <1>0, <2>1
  <2>3. shared'[p] = shared[p]
    BY <1>12 DEF Commit
  <2>4. InCatalog(p)' <=> InCatalog(p)
    BY <1>12, CommitCatalog
  <2> QED
    BY <1>12, <2>2, <2>3, <2>4 DEF Commit
<1>13. CASE Fail(c)
  BY <1>0, <1>13, GoesChanges DEF Fail
<1>14. CASE Crash(c)
  BY <1>0, <1>14, GoesChanges DEF Crash
<1> QED
  BY <1>1, <1>2, <1>3, <1>4, <1>5, <1>6, <1>7, <1>8, <1>9, <1>10, <1>11, <1>12, <1>13,
     <1>14 DEF StepOf
-----------------------------------------------------------------------------
(* ... and what it does to its own cover *)

\* What a step that touches neither the tables nor the storage must respect.
Quiet(p) ==
  /\ official' = official /\ shared' = shared
  /\ files' = files /\ dropping' = dropping /\ back' = back

LEMMA EarlyFine ==
  ASSUME Inv, NEW p \in Publishers, Quiet(p), spoiled' = spoiled,
         call[p].pc \in {"new", "insert", "fill"}, NEW pc \in {"insert", "fill", "attach"},
         NEW row, Changes(p, pc, row, call[p].own, call[p].saved)
  PROVE  Fine(p)'
<1>1. Fine(p)
  BY DEF Inv
<1> USE DEF Quiet, Changes
<1>2. Apart(p)'
  BY <1>1 DEF Fine, Apart, Over, Covered, InCatalog
<1>3. Stored(p)'
  BY <1>1 DEF Fine, Stored, Covered
<1>4. Recorded(p)'
  BY <1>1 DEF Fine, Recorded, Covered, InCatalog
<1>5. Shown(p)'
  BY <1>1 DEF Fine, Shown, Apart, Over, Covered, InCatalog
<1> QED
  BY <1>2, <1>3, <1>4, <1>5 DEF Fine

LEMMA SkipCoverFine ==
  ASSUME Inv, NEW p \in Publishers, SkipCover(p)
  PROVE  Fine(p)'
<1>1. Fine(p) /\ Grows(p) /\ p \in Calls /\ p # NoFile
  BY PublishingAssumption DEF Inv, Growing, Calls, Covers
<1>2. /\ Quiet(p) /\ spoiled' = spoiled
      /\ call[p].pc = "attach" /\ call[p].source # "upload"
      /\ Changes(p, "photos", call[p].row, call[p].own, call[p].saved)
  BY <1>1, GoesChanges DEF SkipCover, Quiet, Filed, table, history, At, Inv, Typed
<1>3. call[p].own = NoFile /\ ~InCatalog(p) /\ Cover(p) \notin files
  BY <1>1, <1>2 DEF Fine, Apart, Recorded, Over
<1>4. call[p].row.cover # p
  BY <1>1, <1>2, <1>3 DEF Grows, Active, Covered
<1> USE DEF Quiet, Changes
<1>5. Apart(p)'
  BY <1>1, <1>2, <1>3, <1>4 DEF Fine, Apart, Over, Covered, InCatalog
<1>6. Stored(p)'
  BY <1>1, <1>2, <1>3, <1>4 DEF Fine, Stored, Covered
<1>7. Recorded(p)'
  BY <1>1, <1>2, <1>3 DEF Fine, Recorded, Covered, InCatalog
<1>8. Shown(p)'
  BY <1>2 DEF Shown
<1> QED
  BY <1>5, <1>6, <1>7, <1>8 DEF Fine

LEMMA WriteCoverFine ==
  ASSUME Inv, NEW p \in Publishers, WriteCover(p)
  PROVE  Fine(p)'
<1>1. Fine(p)
  BY DEF Inv
<1>2. /\ official' = official /\ shared' = shared /\ dropping' = dropping /\ back' = back
      /\ spoiled' = spoiled /\ call[p].pc = "attach" /\ Cover(p) \in files'
      /\ Changes(p, "cover", call[p].row, call[p].own, TRUE)
  BY WriteCoverChanges DEF WriteCover, table, history, At, Inv, Typed
<1> USE DEF Changes
<1>3. Apart(p)'
  BY <1>1, <1>2 DEF Fine, Apart, Over, Covered, InCatalog
<1>4. Stored(p)'
  BY <1>1, <1>2 DEF Fine, Stored, Covered
<1>5. Recorded(p)'
  BY <1>1, <1>2 DEF Fine, Recorded, Covered
<1>6. Shown(p)'
  BY <1>1, <1>2 DEF Fine, Shown, Apart, Over, Covered, InCatalog
<1> QED
  BY <1>3, <1>4, <1>5, <1>6 DEF Fine

LEMMA SaveCoverFine ==
  ASSUME Inv, NEW p \in Publishers, SaveCover(p)
  PROVE  Fine(p)'
<1>1. Fine(p) /\ Grows(p) /\ p # NoFile
  BY PublishingAssumption DEF Inv, Growing, Calls, Covers
<1>2. Quiet(p) /\ spoiled' = spoiled /\ call[p].pc = "cover"
  BY DEF SaveCover, Quiet, Filed, table, history, At
<1>3. /\ call[p].own = NoFile /\ ~InCatalog(p) /\ Cover(p) \in files /\ call[p].saved
      /\ shared[p] = Absent /\ p \notin dropping
  BY <1>1, <1>2 DEF Fine, Apart, Recorded, Over
<1>4. call[p].row.cover # p
  BY <1>1, <1>2, <1>3 DEF Grows, Active, Covered
<1>5. /\ call'[p].pc = "photos" /\ call'[p].source = call[p].source
      /\ call'[p].saved = call[p].saved
      /\ \/ call'[p].own = NoFile /\ call'[p].row.cover = p
         \/ call'[p].own = p /\ call'[p].row.cover # p
  <2>1. CASE ToCatalog(p)
    <3>1. [call[p].row EXCEPT !.cover = p].cover = p
      BY SaveCoverChanges DEF OfficialRow, Inv, Typed
    <3> DEFINE row == [call[p].row EXCEPT !.cover = p]
    <3>2. Changes(p, "photos", row, call[p].own, call[p].saved)
      BY <2>1, SaveCoverChanges DEF Inv, Typed
    <3> HIDE DEF row
    <3>3. row.cover = p
      BY <3>1 DEF row
    <3> QED
      BY <1>3, <3>2, <3>3 DEF Changes
  <2>2. CASE ~ToCatalog(p)
    <3>1. Changes(p, "photos", call[p].row, p, call[p].saved)
      BY <2>2, SaveCoverChanges DEF Inv, Typed
    <3> QED
      BY <1>4, <3>1 DEF Changes
  <2> QED
    BY <2>1, <2>2
<1> USE DEF Quiet
<1>6. Apart(p)'
  BY <1>1, <1>2, <1>3, <1>5 DEF Apart, Over, Covered, InCatalog
<1>7. Stored(p)'
  BY <1>2, <1>3, <1>5 DEF Stored, Covered
<1>8. Recorded(p)'
  BY <1>2, <1>3, <1>5 DEF Recorded, Covered
<1>9. Shown(p)'
  BY <1>2, <1>3, <1>5 DEF Shown, Covered
<1> QED
  BY <1>6, <1>7, <1>8, <1>9 DEF Fine

LEMMA AddPhotosFine ==
  ASSUME Inv, NEW p \in Publishers, AddPhotos(p)
  PROVE  Fine(p)'
<1>1. Fine(p) /\ p \in Calls
  BY DEF Inv, Calls
<1>2. /\ official' = official /\ shared' = shared /\ dropping' = dropping /\ back' = back
      /\ spoiled' = spoiled /\ call[p].pc = "photos"
      /\ Cover(p) \in files' <=> Cover(p) \in files
      /\ Changes(p, "commit", call[p].row, call[p].own, call[p].saved)
  BY <1>1, GoesChanges, CoverNames DEF AddPhotos, table, history, At, Inv, Typed
<1> USE DEF Changes
<1>3. Apart(p)'
  BY <1>1, <1>2 DEF Fine, Apart, Over, Covered, InCatalog
<1>4. Stored(p)'
  BY <1>1, <1>2 DEF Fine, Stored, Covered
<1>5. Recorded(p)'
  BY <1>1, <1>2 DEF Fine, Recorded, Covered, InCatalog
<1>6. Shown(p)'
  BY <1>1, <1>2 DEF Fine, Shown, Apart, Over, Covered, InCatalog
<1> QED
  BY <1>3, <1>4, <1>5, <1>6 DEF Fine

LEMMA CommitFine ==
  ASSUME Inv, NEW p \in Publishers, Commit(p)
  PROVE  Fine(p)'
<1>1. Fine(p) /\ Grows(p) /\ p \in Calls /\ p # NoFile /\ Absent \notin SharedRow
  BY PublishingAssumption DEF Inv, Growing, Calls, Covers
<1>2. /\ official' = call[p].row /\ files' = files /\ dropping' = dropping /\ back' = back
      /\ spoiled' = spoiled /\ call[p].pc = "commit"
      /\ Changes(p, "list", call[p].row, call[p].own, call[p].saved)
  BY <1>1, GoesChanges DEF Commit, Filed, history, At, Inv, Typed
<1>3. shared'[p] = [status |-> "S", cover |-> call[p].own]
  BY DEF Commit
<1>4. call[p].own \in Publishers \cup {NoFile}
  BY <1>1 DEF Inv, TypeOK, Call
<1>5. shared'[p] # Absent /\ shared'[p].cover = call[p].own
  BY <1>1, <1>3, <1>4 DEF SharedRow
<1>6. official' # Absent
  BY <1>1, <1>2 DEF Inv, Reading, Active
<1>7. InCatalog(p)' <=> call[p].row.cover = p
  BY <1>2, <1>6 DEF InCatalog
<1>8. p \notin dropping
  BY <1>1, <1>2 DEF Fine, Apart, Over
<1>9. /\ call[p].own \in {NoFile, p} /\ (call[p].own = p => call[p].row.cover # p)
      /\ Cover(p) \in files <=> (call[p].own = p \/ call[p].row.cover = p)
  BY <1>1, <1>2 DEF Fine, Apart, Stored, Covered
<1> USE DEF Changes
<1>10. Apart(p)'
  BY <1>2, <1>5, <1>7, <1>8, <1>9 DEF Apart, Over, Covered
<1>11. Stored(p)'
  BY <1>2, <1>5, <1>9 DEF Stored, Covered
<1>12. Recorded(p)'
  <2>1. Cover(p) \in files' => InCatalog(p)' \/ shared'[p].cover = p
    BY <1>2, <1>5, <1>7, <1>9
  <2>2. call'[p].pc = "list"
    BY <1>2
  <2> QED
    BY <1>5, <2>1, <2>2 DEF Recorded, Covered, InCatalog
<1>13. Shown(p)'
  BY <1>1, <1>2, <1>7 DEF Fine, Shown, Covered
<1> QED
  BY <1>10, <1>11, <1>12, <1>13 DEF Fine

\* A failure, a crash: a file that was written is recorded, or it was there
\* for a row that is committed.
LEMMA EndFine ==
  ASSUME Inv, NEW p \in Publishers, Quiet(p),
         NEW pc \in {"clean", "done"}, Changes(p, pc, call[p].row, call[p].own, call[p].saved),
         \/ call[p].pc = "list" /\ spoiled' = spoiled
         \/ p \in spoiled'
         \/ /\ call[p].pc \in {"insert", "fill", "attach", "cover", "photos", "commit"}
            /\ spoiled' = spoiled /\ pc = IF call[p].saved THEN "clean" ELSE "done",
         pc = "clean" => ~Over(p)
  PROVE  Fine(p)'
<1>1. Fine(p)
  BY DEF Inv
<1> USE DEF Quiet, Changes
<1>2. Apart(p)'
  <2>1. CASE pc = "done"
    BY <1>1, <2>1 DEF Fine, Apart, Over, Covered, InCatalog
  <2>2. CASE pc = "clean"
    BY <1>1, <2>2 DEF Fine, Apart, Over, Covered, InCatalog
  <2> QED
    BY <2>1, <2>2
<1>3. Stored(p)'
  BY <1>1 DEF Fine, Stored, Covered
<1>4. Recorded(p)'
  <2>1. CASE call[p].pc = "list" /\ spoiled' = spoiled
    BY <1>1, <2>1 DEF Fine, Recorded, Covered, InCatalog
  <2>2. CASE p \in spoiled'
    BY <2>2 DEF Recorded, Covered
  <2>3. CASE /\ call[p].pc \in {"insert", "fill", "attach", "cover", "photos", "commit"}
             /\ spoiled' = spoiled /\ pc = IF call[p].saved THEN "clean" ELSE "done"
    BY <1>1, <2>3 DEF Fine, Recorded, Covered, InCatalog
  <2> QED
    BY <2>1, <2>2, <2>3
<1>5. Shown(p)'
  BY <1>1 DEF Fine, Shown, Covered, InCatalog
<1> QED
  BY <1>2, <1>3, <1>4, <1>5 DEF Fine

LEMMA CleanFine ==
  ASSUME Inv, NEW p \in Publishers, Clean(p)
  PROVE  Fine(p)'
<1>1. Fine(p) /\ p \in Calls /\ p # NoFile
  BY PublishingAssumption DEF Inv, Calls, Covers
<1>2. /\ official' = official /\ shared' = shared /\ dropping' = dropping /\ back' = back
      /\ call[p].pc = "clean" /\ (Cover(p) \in files' => p \in spoiled')
      /\ Changes(p, "done", call[p].row, call[p].own, call[p].saved)
  BY <1>1, GoesChanges DEF Clean, table, At, Inv, Typed
<1>3. shared[p] = Absent
  BY <1>1, <1>2 DEF Fine, Apart, Over
<1> USE DEF Changes
<1>4. Apart(p)'
  BY <1>1, <1>2, <1>3 DEF Fine, Apart, Over, Covered, InCatalog
<1>5. Stored(p)'
  BY <1>2, <1>3 DEF Stored, Covered
<1>6. Recorded(p)'
  BY <1>2 DEF Recorded, Covered
<1>7. Shown(p)'
  BY <1>1, <1>2, <1>3 DEF Fine, Shown, Covered
<1> QED
  BY <1>4, <1>5, <1>6, <1>7 DEF Fine

LEMMA ListBookFine ==
  ASSUME Inv, NEW p \in Publishers, ListBook(p)
  PROVE  Fine(p)'
<1>1. Fine(p) /\ p \in Calls /\ p # NoFile /\ Absent \notin SharedRow
  BY PublishingAssumption DEF Inv, Calls, Covers
<1>2. /\ official' = official /\ files' = files /\ dropping' = dropping /\ spoiled' = spoiled
      /\ call[p].pc = "list" /\ back' = IF shared[p] = Absent THEN back \cup {p} ELSE back
      /\ Changes(p, "done", call[p].row, call[p].own, call[p].saved)
  BY <1>1, GoesChanges DEF ListBook, At, Inv, Typed
<1>3. shared'[p] = [status |-> "T", cover |-> call[p].own]
  BY DEF ListBook, Inv, TypeOK
<1>4. call[p].own \in Publishers \cup {NoFile}
  BY <1>1 DEF Inv, TypeOK, Call
<1>5. shared'[p] # Absent /\ shared'[p].cover = call[p].own
  BY <1>1, <1>3, <1>4 DEF SharedRow
<1> USE DEF Changes
<1>7. Apart(p)'
  BY <1>1, <1>2, <1>5 DEF Fine, Apart, Over, Covered, InCatalog
<1>8. Stored(p)'
  BY <1>1, <1>2, <1>5 DEF Fine, Apart, Stored, Covered
<1>9. Recorded(p)'
  <2>1. Cover(p) \in files =>
          InCatalog(p) \/ call[p].own = p \/ p \in dropping \/ p \in spoiled
    BY <1>1, <1>2 DEF Fine, Apart, Recorded
  <2>2. InCatalog(p)' <=> InCatalog(p)
    BY <1>2 DEF InCatalog
  <2> QED
    BY <1>2, <1>5, <2>1, <2>2 DEF Recorded, Covered, InCatalog
<1>10. Shown(p)'
  BY <1>1, <1>2 DEF Fine, Shown, Covered, InCatalog
<1> QED
  BY <1>7, <1>8, <1>9, <1>10 DEF Fine

LEMMA OwnFine == ASSUME Inv, NEW p \in Publishers, StepOf(p) PROVE Fine(p)'
<1>1. Typed /\ Fine(p) /\ p \in Calls /\ p \notin Editors
  BY PublishingAssumption DEF Inv, Typed, Calls
<1> USE DEF Filed, table, history
<1>2. CASE LookUp(p)
  <2>1. Quiet(p) /\ spoiled' = spoiled /\ call[p].pc = "new"
    BY <1>2 DEF LookUp, Quiet, At
  <2> QED
    BY <1>1, <1>2, <2>1, LookUpChanges, EarlyFine
<1>3. CASE InsertRow(p)
  <2>1. Quiet(p) /\ spoiled' = spoiled /\ call[p].pc = "insert"
    BY <1>3 DEF InsertRow, Quiet, At
  <2> QED
    BY <1>1, <1>3, <2>1, InsertRowChanges, EarlyFine
<1>4. CASE Fill(p)
  <2>1. Quiet(p) /\ spoiled' = spoiled /\ call[p].pc = "fill"
    BY <1>4 DEF Fill, Quiet, At
  <2> QED
    BY <1>1, <1>4, <2>1, FillChanges, EarlyFine
<1>5. CASE ListFails(p)
  <2>1. Quiet(p) /\ spoiled' = spoiled /\ call[p].pc = "list"
    BY <1>5 DEF ListFails, Quiet, At
  <2>2. Changes(p, "done", call[p].row, call[p].own, call[p].saved)
    BY <1>1, <1>5, GoesChanges DEF ListFails
  <2> QED
    BY <2>1, <2>2, EndFine
<1>6. CASE Fail(p)
  <2> DEFINE pc == IF call[p].saved THEN "clean" ELSE "done"
  <2>1. Quiet(p) /\ spoiled' = spoiled
    BY <1>6 DEF Fail, Quiet
  <2>2. call[p].pc \in {"insert", "fill", "attach", "cover", "photos", "commit"} /\ ~Over(p)
    BY <1>6 DEF Fail, Over
  <2>3. Changes(p, pc, call[p].row, call[p].own, call[p].saved)
    BY <1>1, <1>6, GoesChanges DEF Fail
  <2> QED
    BY <2>1, <2>2, <2>3, EndFine
<1>7. CASE Crash(p)
  <2>1. Quiet(p)
    BY <1>7 DEF Crash, Quiet
  <2>2. Changes(p, "done", call[p].row, call[p].own, call[p].saved)
    BY <1>1, <1>7, GoesChanges DEF Crash
  <2>3. (call[p].pc = "list" /\ spoiled' = spoiled) \/ p \in spoiled'
    <3>1. CASE call[p].pc = "list"
      BY <1>7, <3>1 DEF Crash, At
    <3>2. CASE call[p].pc # "list"
      BY <1>7, <3>2 DEF Crash, At
    <3> QED
      BY <3>1, <3>2
  <2> QED
    BY <2>1, <2>2, <2>3, EndFine
<1> QED
  BY <1>1, <1>2, <1>3, <1>4, <1>5, <1>6, <1>7, SkipCoverFine, WriteCoverFine, SaveCoverFine,
     AddPhotosFine, CommitFine, CleanFine, ListBookFine DEF StepOf

\* The file the catalog names: a clean-up takes only the file of a call that
\* never committed.
LEMMA StepCatalogStored == ASSUME Inv, NEW c \in Calls, StepOf(c) PROVE CatalogStored'
<1> USE DEF Filed, table, history
<1>1. CASE Commit(c)
  <2>1. /\ Active(c) /\ Covered(c) /\ Grows(c) /\ official' = call[c].row /\ files' = files
        /\ call[c].row \in OfficialRow
    BY <1>1 DEF Commit, At, Active, Covered, Inv, Growing, Reading, TypeOK, Call
  <2>2. official'.cover \in Covers \cup {NoFile}
    BY <2>1 DEF OfficialRow
  <2>3. CASE official'.cover = NoFile
    BY <2>3 DEF CatalogStored
  <2>4. CASE official # Absent /\ official'.cover = official.cover
    BY <2>1, <2>4 DEF Inv, CatalogStored
  <2>5. CASE official'.cover = c /\ c \in Publishers
    BY <2>1, <2>5 DEF Inv, Fine, Stored, CatalogStored
  <2>6. c \in Covers => c \in Publishers
    BY PublishingAssumption DEF Covers
  <2> QED
    BY <2>1, <2>2, <2>3, <2>4, <2>5, <2>6 DEF Grows, InCatalog
<1>2. CASE c \in Publishers /\ Clean(c)
  <2>1. ~InCatalog(c)
    BY <1>2 DEF Clean, At, Inv, Fine, Apart, Over
  <2>2. official' = official /\ (files' = files \/ files' = files \ {Cover(c)})
    BY <1>2 DEF Clean
  <2> QED
    BY <2>1, <2>2, CoverNames DEF Inv, CatalogStored, InCatalog
<1>3. CASE ~Commit(c) /\ ~(c \in Publishers /\ Clean(c))
  <2>1. official' = official /\ files \subseteq files'
    BY <1>3 DEF StepOf, LookUp, InsertRow, SkipCover, WriteCover, SaveCover, ListBook,
                ListFails, StartEdit, Fill, AddPhotos, Fail, Crash
  <2> QED
    BY <2>1 DEF Inv, CatalogStored
<1> QED
  BY <1>1, <1>2, <1>3

LEMMA StepInv == ASSUME Inv, NEW c \in Calls, StepOf(c) PROVE Inv'
<1>1. Typed /\ Holding /\ Growing
  BY DEF Inv, Typed
<1>2. Typed'
  BY <1>1, StepTyped
<1>3. Holding' /\ Growing'
  BY <1>1, HoldingStep, GrowingStep
<1>4. CatalogStored'
  BY StepCatalogStored
<1>5. ASSUME NEW p \in Publishers PROVE Fine(p)'
  <2>1. CASE p = c
    BY <2>1, OwnFine
  <2>2. CASE p # c
    BY <1>1, <2>2, StepSame, SameFine DEF Inv
  <2> QED
    BY <2>1, <2>2
<1> QED
  BY <1>2, <1>3, <1>4, <1>5 DEF Inv, Typed
-----------------------------------------------------------------------------
(* Deleting a book *)

LEMMA DeleteInv == ASSUME Inv, NEW q \in Publishers, DeleteBook(q) PROVE Inv'
<1>1. /\ shared[q] # Absent /\ shared' = [shared EXCEPT ![q] = Absent]
      /\ dropping' = IF shared[q].cover = NoFile THEN dropping ELSE dropping \cup {q}
      /\ official' = official /\ lock' = lock /\ files' = files /\ call' = call
      /\ spoiled' = spoiled /\ back' = back
  BY DEF DeleteBook, history
<1>2. Typed' /\ Holding' /\ Growing' /\ CatalogStored'
  <2>1. Typed'
    BY BookTyped DEF Inv, Typed
  <2> QED
    BY <1>1, <2>1 DEF Inv, Holding, Growing, Grows, Active, Covered, InCatalog, CatalogStored
<1>3. ASSUME NEW p \in Publishers, p # q PROVE Fine(p)'
  <2>1. Same(p)
    BY <1>1, <1>3 DEF Same, InCatalog, Inv, TypeOK
  <2> QED
    BY <2>1, SameFine DEF Inv
<1>4. Fine(q)'
  <2>1. Fine(q) /\ q # NoFile /\ shared'[q] = Absent
    BY <1>1, PublishingAssumption DEF Inv, Covers, TypeOK
  <2>2. Over(q) /\ shared[q].cover = call[q].own /\ call[q].own \in {NoFile, q}
    BY <1>1, <2>1 DEF Fine, Apart
  <2>3. Apart(q)'
    BY <1>1, <2>1, <2>2 DEF Fine, Apart, Over, Covered, InCatalog
  <2>4. Stored(q)' /\ Recorded(q)' /\ Shown(q)'
    BY <1>1, <2>1, <2>2 DEF Fine, Stored, Recorded, Shown, Over, Covered, InCatalog
  <2> QED
    BY <2>3, <2>4 DEF Fine
<1> QED
  BY <1>2, <1>3, <1>4 DEF Inv, Typed

LEMMA DropInv == ASSUME Inv, NEW q \in Publishers, DropCover(q) PROVE Inv'
<1>1. /\ q \in dropping /\ dropping' = dropping \ {q}
      /\ official' = official /\ lock' = lock /\ shared' = shared /\ call' = call
      /\ back' = back
      /\ \/ files' = files \ {Cover(q)} /\ spoiled' = spoiled
         \/ files' = files /\ spoiled' = spoiled \cup {q}
  BY DEF DropCover, table
<1>2. Fine(q) /\ q # NoFile
  BY PublishingAssumption DEF Inv, Covers
<1>3. /\ Over(q) /\ call[q].own = q /\ (shared[q] = Absent \/ q \in back) /\ ~InCatalog(q)
      /\ ~Covered(q)
  BY <1>1, <1>2 DEF Fine, Apart, Over, Covered
<1>4. Typed' /\ Holding' /\ Growing'
  <2>1. Typed'
    BY BookTyped DEF Inv, Typed
  <2> QED
    BY <1>1, <2>1 DEF Inv, Holding, Growing, Grows, Active, Covered, InCatalog
<1>5. CatalogStored'
  BY <1>1, <1>3, CoverNames DEF Inv, CatalogStored, InCatalog
<1>6. ASSUME NEW p \in Publishers, p # q PROVE Fine(p)'
  <2>1. Same(p)
    BY <1>1, <1>6, CoverNames DEF Same, InCatalog
  <2> QED
    BY <2>1, SameFine DEF Inv
<1>7. Fine(q)'
  <2>1. Apart(q)'
    BY <1>1, <1>2, <1>3 DEF Fine, Apart, Over, Covered, InCatalog
  <2>2. Stored(q)'
    BY <1>1, <1>3 DEF Stored, Covered
  <2>3. Recorded(q)'
    BY <1>1, <1>2, <1>3 DEF Fine, Recorded, Over, Covered, InCatalog
  <2>4. Shown(q)'
    BY <1>1, <1>2 DEF Fine, Shown, Covered, InCatalog
  <2> QED
    BY <2>1, <2>2, <2>3, <2>4 DEF Fine
<1> QED
  BY <1>4, <1>5, <1>6, <1>7 DEF Inv, Typed
-----------------------------------------------------------------------------
(* The theorems *)

LEMMA InitInv == Init => Inv
<1> SUFFICES ASSUME Init PROVE Inv
  OBVIOUS
<1>1. Typed
  BY InitTyped
<1>2. \A c \in Calls : call[c].pc = "new" /\ call[c].own = NoFile
  BY DEF Init, New
<1>3. Holding /\ Growing
  BY <1>2, PublishingAssumption DEF Init, Holding, Growing, Grows, Active
<1>4. CatalogStored
  BY DEF Init, CatalogStored
<1>5. ASSUME NEW p \in Publishers PROVE Fine(p)
  <2>1. p \in Calls /\ p # First /\ p # NoFile
    BY PublishingAssumption DEF Calls, Covers
  <2>2. Cover(p) \notin files /\ ~InCatalog(p) /\ shared[p] = Absent /\ p \notin dropping
    BY <2>1, CoverNames DEF Init, InCatalog
  <2> QED
    BY <1>2, <2>1, <2>2 DEF Fine, Apart, Stored, Recorded, Shown, Covered, Over
<1> QED
  BY <1>1, <1>3, <1>4, <1>5 DEF Inv, Typed

LEMMA InvInvariant == Spec => []Inv
<1>1. Inv /\ UNCHANGED vars => Inv'
  <2> SUFFICES ASSUME Inv, UNCHANGED vars PROVE Inv'
    OBVIOUS
  <2>1. \A p \in Publishers : Same(p)
    BY DEF vars, table, history, Same, InCatalog
  <2>2. Typed' /\ Holding' /\ Growing' /\ CatalogStored'
    BY DEF vars, table, history, Inv, Typed, TypeOK, Reading, Holding, Growing, Grows, Active,
           Covered, InCatalog, CatalogStored
  <2> QED
    BY <2>1, <2>2, SameFine DEF Inv, Typed
<1>2. Inv /\ [Next]_vars => Inv'
  BY <1>1, NextSplit, StepInv, DeleteInv, DropInv
<1> QED
  BY InitInv, <1>2, PTL DEF Spec

\* What one member put into the shared catalog is never replaced, emptied or
\* removed, whoever else publishes, edits, fails or dies meanwhile: the row
\* lock makes what a call writes an extension of what is there.
THEOREM CatalogIsKept == Spec => CatalogKept
<1> DEFINE Kept == official # Absent =>
             /\ official' # Absent
             /\ official.author # Blank => official'.author = official.author
             /\ official.cover # NoFile => official'.cover = official.cover
<1>1. Inv /\ [Next]_vars => [Kept]_vars
  <2> SUFFICES ASSUME Inv, Next PROVE Kept
    OBVIOUS
  <2>1. CASE \E c \in Calls : StepOf(c)
    BY <2>1, StepKeeps DEF Inv, Typed
  <2>2. CASE \E p \in Publishers : DeleteBook(p) \/ DropCover(p)
    BY <2>2 DEF DeleteBook, DropCover, table
  <2> QED
    BY <2>1, <2>2, NextSplit
<1> QED
  BY <1>1, InvInvariant, PTL DEF Spec, CatalogKept

\* Every cover a committed row names is in the storage, whatever is cleaned up
\* or deleted, unless the book was saved again after it was deleted.
THEOREM CoversAllExist == Spec => []CoversExist
<1>1. Inv => CoversExist
  BY DEF Inv, Fine, Apart, Stored, CatalogStored, CoversExist
<1> QED
  BY <1>1, InvInvariant, PTL

\* Only a crash, or a storage that refuses to delete, leaves a cover behind.
THEOREM NoOrphans == Spec => []OrphansFromCrashes
<1>1. Inv => OrphansFromCrashes
  BY DEF Inv, Fine, Recorded, OrphansFromCrashes, Named, InCatalog
<1> QED
  BY <1>1, InvInvariant, PTL

\* Who publishes with a cover of his own sees it on his book.
THEOREM UploadsShow == Spec => []ShowsItsUpload
<1>1. Inv => ShowsItsUpload
  <2> SUFFICES ASSUME Inv, NEW p \in Publishers, shared[p] # Absent, call[p].source = "upload"
               PROVE  DisplayCover(p) = p
    BY DEF ShowsItsUpload
  <2>1. Fine(p) /\ p # NoFile
    BY PublishingAssumption DEF Inv, Covers
  <2>2. /\ shared[p].cover = call[p].own
        /\ call[p].own = p \/ (call[p].own = NoFile /\ InCatalog(p))
    BY <2>1 DEF Fine, Apart, Shown
  <2> QED
    BY <2>1, <2>2 DEF DisplayCover, InCatalog
<1> QED
  BY <1>1, InvInvariant, PTL
=============================================================================
