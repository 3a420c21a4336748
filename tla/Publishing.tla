----------------------------- MODULE Publishing -----------------------------
(***************************************************************************)
(* Publishing copies of one ISBN into the shared catalog: publish_book,    *)
(* update_book, list_book and the covers of books/services/book_service.py *)
(* and books/signals.py, with the owner's book_delete.                     *)
(*                                                                         *)
(* All members share one OfficialBook row per ISBN.  publish_book works in *)
(* one transaction, which holds that row from its insert or its first      *)
(* select_for_update to the end, and writes files while it is open; what   *)
(* a rollback leaves in the storage is deleted afterwards.  The listing    *)
(* and its notifications come after the commit.  The storage gives every   *)
(* file a name of its own, so a cover is named by the call that wrote it.  *)
(*                                                                         *)
(* A call publishes or edits once.  `author' stands for the fields a       *)
(* member may fill; an edit changes the book of another module.            *)
(***************************************************************************)

CONSTANTS
  Publishers,   \* calls of publish_book, each for a book of its own
  Editors,      \* calls of update_book, for books of this ISBN
  First,        \* the member whose catalog entry may be there already
  Absent,       \* no such row
  Blank,        \* an empty field
  NoFile,       \* an empty cover
  NoCall        \* nobody

VARIABLES
  official,     \* the committed OfficialBook row
  lock,         \* the transaction that holds it
  shared,       \* the committed SharedBook row of each publication
  files,        \* the storage
  call,         \* what each call is in the middle of
  dropping,     \* publications whose book is deleted and whose cover is not yet
  \* history: publications left half way by a crash or a refused deletion,
  \* publications whose book was saved again after it was deleted
  spoiled, back

table == <<official, lock, shared>>
history == <<spoiled, back>>
vars == <<table, files, call, dropping, history>>

Calls == Publishers \cup Editors
Authors == Calls \cup {First}
Covers == Publishers \cup {First}
Cover(f) == <<f, "cover">>
Photo(c) == <<c, "photo">>

\* An OfficialBook and a SharedBook, with their cover_image.
OfficialRow == [author : Authors \cup {Blank}, cover : Covers \cup {NoFile}]
SharedRow == [status : {"S", "T"}, cover : Publishers \cup {NoFile}]

ASSUME PublishingAssumption ==
  /\ Publishers \cap Editors = {} /\ First \notin Calls
  /\ Blank \notin Authors /\ NoFile \notin Covers /\ NoCall \notin Calls
  /\ Absent \notin OfficialRow \cup SharedRow

\* The form: whether it names an author, and the cover it brings.  seen: the
\* catalog row as first read.  row: as this transaction has written it.  own,
\* saved: the cover of this copy, and whether a written file is recorded.
Call ==
  [pc : {"new", "insert", "fill", "attach", "cover", "photos", "commit", "list",
         "clean", "done"},
   gives : BOOLEAN, source : {"none", "upload", "url"},
   seen : {Absent} \cup OfficialRow, row : {Absent} \cup OfficialRow,
   own : Publishers \cup {NoFile}, saved : BOOLEAN]

TypeOK ==
  /\ official \in {Absent} \cup OfficialRow
  /\ lock \in Calls \cup {NoCall}
  /\ shared \in [Publishers -> {Absent} \cup SharedRow]
  /\ files \subseteq (Covers \X {"cover"}) \cup (Calls \X {"photo"})
  /\ call \in [Calls -> Call]
  /\ dropping \subseteq Publishers
  /\ spoiled \subseteq Publishers /\ back \subseteq Publishers

New(gives, source) ==
  [pc |-> "new", gives |-> gives, source |-> source, seen |-> Absent, row |-> Absent,
   own |-> NoFile, saved |-> FALSE]

\* A first member has published the title or nobody has.
Init ==
  /\ official \in {Absent} \cup [author : {First, Blank}, cover : {First, NoFile}]
  /\ files = IF official # Absent /\ official.cover = First THEN {Cover(First)} ELSE {}
  /\ lock = NoCall
  /\ shared = [p \in Publishers |-> Absent]
  /\ call \in [Calls -> {New(gives, source) :
                           gives \in BOOLEAN, source \in {"none", "upload", "url"}}]
  /\ \A e \in Editors : call[e].source = "none"
  /\ dropping = {} /\ spoiled = {} /\ back = {}

At(c, pc) == call[c].pc = pc
Goes(c, pc) == call' = [call EXCEPT ![c].pc = pc]
Free == lock = NoCall
Filed == UNCHANGED <<files, dropping, history>>
-----------------------------------------------------------------------------
(* The catalog row *)

\* Slip: a missing value is stored by its Python name.
GivenRaw(c) == IF call[c].gives THEN c ELSE "None"

Given(c) == IF call[c].gives THEN c ELSE Blank

\* get_or_create reads the table.
LookUp(p) ==
  /\ At(p, "new")
  /\ call' = [call EXCEPT ![p].pc = IF official = Absent THEN "insert" ELSE "fill",
                          ![p].seen = official]
  /\ UNCHANGED table /\ Filed

\* The view has loaded an editor's book, and with it the catalog row.
StartEdit(e) ==
  /\ At(e, "new") /\ official # Absent
  /\ call' = [call EXCEPT ![e].pc = "fill", ![e].seen = official]
  /\ UNCHANGED table /\ Filed

\* The insert waits for another insert of this ISBN to commit or roll back;
\* a duplicate key makes get_or_create read the row of the other.
InsertRow(p) ==
  /\ At(p, "insert") /\ Free
  /\ IF official = Absent
     THEN LET row == [author |-> Given(p), cover |-> NoFile]
          IN  /\ lock' = p
              /\ call' = [call EXCEPT ![p].pc = "attach", ![p].seen = row, ![p].row = row]
     ELSE /\ call' = [call EXCEPT ![p].pc = "fill", ![p].seen = official]
          /\ UNCHANGED lock
  /\ UNCHANGED <<official, shared>> /\ Filed

\* Slip: the object loaded first decides what is blank.
FillLoaded(c) ==
  /\ At(c, "fill") /\ Free
  /\ lock' = c
  /\ call' = [call EXCEPT
       ![c].pc = IF c \in Publishers THEN "attach" ELSE "photos",
       ![c].row = [official EXCEPT !.author = IF call[c].seen.author = Blank
                                              THEN Given(c) ELSE @]]
  /\ UNCHANGED <<official, shared>> /\ Filed

\* fill_blank_catalog_fields: lock, read again, fill what is still blank.
\* The cover of the object loaded first stays as it was.
Fill(c) ==
  /\ At(c, "fill") /\ Free
  /\ lock' = c
  /\ call' = [call EXCEPT
       ![c].pc = IF c \in Publishers THEN "attach" ELSE "photos",
       ![c].row = [official EXCEPT !.author = IF @ = Blank THEN Given(c) ELSE @]]
  /\ UNCHANGED <<official, shared>> /\ Filed
-----------------------------------------------------------------------------
(* _attach_cover and the photos *)

\* No cover comes, the catalog has one already, or its download fails.
SkipCover(p) ==
  /\ At(p, "attach") /\ call[p].source # "upload"
  /\ Goes(p, "photos")
  /\ UNCHANGED table /\ Filed

\* An upload is always kept; a download only if the catalog has no cover,
\* neither in the object loaded first nor in the locked row.
WantsCover(p) ==
  \/ call[p].source = "upload"
  \/ call[p].source = "url" /\ call[p].seen.cover = NoFile /\ call[p].row.cover = NoFile

\* Slip: the file of a cover for this copy alone is not recorded.
WriteCoverUnrecorded(p) ==
  /\ At(p, "attach") /\ WantsCover(p)
  /\ files' = files \cup {Cover(p)}
  /\ call' = [call EXCEPT ![p].pc = "cover", ![p].saved = call[p].row.cover = NoFile]
  /\ UNCHANGED <<table, dropping, history>>

\* _save_cover: the file, recorded for the clean-up ...
WriteCover(p) ==
  /\ At(p, "attach") /\ WantsCover(p)
  /\ files' = files \cup {Cover(p)}
  /\ call' = [call EXCEPT ![p].pc = "cover", ![p].saved = TRUE]
  /\ UNCHANGED <<table, dropping, history>>

\* Slip: an upload goes to the catalog only.
SaveCatalogCover(p) ==
  /\ At(p, "cover")
  /\ IF call[p].row.cover = NoFile
     THEN call' = [call EXCEPT ![p].pc = "photos", ![p].row.cover = p]
     ELSE Goes(p, "photos")
  /\ UNCHANGED table /\ Filed

\* ... and the row: the catalog's if it has none, else this copy's.
SaveCover(p) ==
  /\ At(p, "cover")
  /\ call' = IF call[p].source = "url" \/ call[p].row.cover = NoFile
             THEN [call EXCEPT ![p].pc = "photos", ![p].row.cover = p]
             ELSE [call EXCEPT ![p].pc = "photos", ![p].own = p]
  /\ UNCHANGED table /\ Filed

\* The form asks for a photo of a new book; an edit may come without.
AddPhotos(c) ==
  /\ At(c, "photos") /\ Goes(c, "commit")
  /\ \/ files' = files \cup {Photo(c)}
     \/ c \in Editors /\ UNCHANGED files
  /\ UNCHANGED <<table, dropping, history>>
-----------------------------------------------------------------------------
(* The end of the transaction, and the listing *)

Commit(c) ==
  /\ At(c, "commit") /\ Goes(c, IF c \in Publishers THEN "list" ELSE "done")
  /\ official' = call[c].row /\ lock' = NoCall
  /\ shared' = [p \in Publishers |->
                  IF p = c THEN [status |-> "S", cover |-> call[c].own] ELSE shared[p]]
  /\ Filed

Released(c) == lock' = IF lock = c THEN NoCall ELSE lock

\* An invalid photo or upload, an error of the database, a deadlock it
\* resolves against this call: all is rolled back.
Fail(c) ==
  /\ call[c].pc \in {"insert", "fill", "attach", "cover", "photos", "commit"}
  /\ Goes(c, IF call[c].saved THEN "clean" ELSE "done")
  /\ Released(c)
  /\ UNCHANGED <<official, shared>> /\ Filed

\* _delete_saved_files_on_error, after the rollback; a deletion the storage
\* refuses is logged and forgotten.
Clean(p) ==
  /\ At(p, "clean") /\ Goes(p, "done")
  /\ \/ files' = files \ {Cover(p)} /\ UNCHANGED spoiled
     \/ spoiled' = spoiled \cup {p} /\ UNCHANGED files
  /\ UNCHANGED <<table, dropping, back>>

\* list_book saves every column of the object publish_book made: a row that
\* is gone by then is inserted again.
ListBook(p) ==
  /\ At(p, "list") /\ Goes(p, "done")
  /\ shared' = [shared EXCEPT ![p] = [status |-> "T", cover |-> call[p].own]]
  /\ back' = IF shared[p] = Absent THEN back \cup {p} ELSE back
  /\ UNCHANGED <<official, lock, files, dropping, spoiled>>

\* Slip: the listing is inside the block that cleans up.
ListFailsInside(p) ==
  /\ At(p, "list") /\ Goes(p, IF call[p].saved THEN "clean" ELSE "done")
  /\ UNCHANGED table /\ Filed

ListFails(p) ==
  /\ At(p, "list") /\ Goes(p, "done")
  /\ UNCHANGED table /\ Filed

\* The process dies: the database rolls back, the storage does not.
Crash(c) ==
  /\ call[c].pc \notin {"new", "done"} /\ Goes(c, "done")
  /\ Released(c)
  /\ spoiled' = spoiled \cup {p \in Publishers : p = c /\ ~At(c, "list")}
  /\ UNCHANGED <<official, shared, files, dropping, back>>
-----------------------------------------------------------------------------
(* book_delete, and the signal that deletes the cover once it is committed *)

DeleteBook(p) ==
  /\ shared[p] # Absent
  /\ shared' = [shared EXCEPT ![p] = Absent]
  /\ dropping' = IF shared[p].cover = NoFile THEN dropping ELSE dropping \cup {p}
  /\ UNCHANGED <<official, lock, files, call, history>>

\* ... or dies before it does.
DropCover(p) ==
  /\ p \in dropping /\ dropping' = dropping \ {p}
  /\ \/ files' = files \ {Cover(p)} /\ UNCHANGED spoiled
     \/ spoiled' = spoiled \cup {p} /\ UNCHANGED files
  /\ UNCHANGED <<table, call, back>>

Next ==
  \/ \E p \in Publishers :
       \/ LookUp(p) \/ InsertRow(p) \/ SkipCover(p) \/ WriteCover(p) \/ SaveCover(p)
       \/ Clean(p) \/ ListBook(p) \/ ListFails(p) \/ DeleteBook(p) \/ DropCover(p)
  \/ \E e \in Editors : StartEdit(e)
  \/ \E c \in Calls : Fill(c) \/ AddPhotos(c) \/ Commit(c) \/ Fail(c) \/ Crash(c)

Spec == Init /\ [][Next]_vars
-----------------------------------------------------------------------------
(* Properties *)

\* What one member put into the shared catalog is never replaced, emptied or
\* removed by another's publication, edit, failure or deletion, however they
\* overlap: a field is only ever filled while it is blank.
CatalogKept ==
  [][official # Absent =>
       /\ official' # Absent
       /\ official.author # Blank => official'.author = official.author
       /\ official.cover # NoFile => official'.cover = official.cover]_vars

\* Every cover a committed row names is in the storage: no clean-up after a
\* rollback and no deletion of a book takes a file somebody still shows.  The
\* exception is a book that was deleted while it was being listed, and then
\* saved again.
CoversExist ==
  /\ official # Absent /\ official.cover # NoFile => Cover(official.cover) \in files
  /\ \A p \in Publishers \ back :
       shared[p] # Absent /\ shared[p].cover # NoFile => Cover(shared[p].cover) \in files

Named(p) ==
  \/ official # Absent /\ official.cover = p
  \/ shared[p] # Absent /\ shared[p].cover = p

\* No cover is left in the storage that no row names, but for those of a call
\* or a deletion under way: only a crash, or a storage that refuses to
\* delete, leaves one behind.
OrphansFromCrashes ==
  \A p \in Publishers :
    Cover(p) \in files =>
      \/ Named(p) \/ p \in dropping \/ p \in spoiled
      \/ call[p].pc \in {"cover", "photos", "commit", "clean"}

\* SharedBook.display_cover
DisplayCover(p) ==
  IF shared[p].cover # NoFile THEN shared[p].cover ELSE official.cover

\* A member who published with a cover of his own sees that cover on his
\* book, whoever else supplied one for the catalog meanwhile.
ShowsItsUpload ==
  \A p \in Publishers :
    shared[p] # Absent /\ call[p].source = "upload" => DisplayCover(p) = p
=============================================================================
