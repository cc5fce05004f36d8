---------------------------- MODULE ContentEditor ----------------------------
(***************************************************************************)
(* The site's document and its editors.  A save sends the whole document   *)
(* and answers later; an edit made meanwhile enables the buttons again, so *)
(* saves may overlap and arrive in another order.                          *)
(***************************************************************************)
EXTENDS Naturals, FiniteSets

CONSTANTS
  Editor,      \* administrators with the page open
  Uploader,    \* bound: the editors among them who upload files
  MaxWrites,   \* bound: edits
  MaxSaves     \* bound: saves under way at a time

ASSUME ContentAssumption ==
  Uploader \subseteq Editor /\ {MaxWrites, MaxSaves} \subseteq Nat

(* An input, the announcement's images, and the presentation's document. *)
Field == {"text", "images", "pdf"}
Document == [Field -> 0..MaxWrites]

VARIABLES
  stored,    \* content.site_document: draft, published, updated_by
  page,      \* each editor's page
  saves,     \* PUT /api/content on their way, or answered and not yet read
  writes     \* edits so far; each writes a value of its own

contentVars == <<stored, page, saves, writes>>

Original == [f \in Field |-> 0]

InitContent ==
  /\ stored = [draft |-> Original, published |-> Original, by |-> "seed"]
  /\ page = [e \in Editor |-> [content |-> Original, state |-> "saved", hasty |-> FALSE,
                               uploading |-> "none", captured |-> Original]]
  /\ saves = {} /\ writes = 0

SavesOf(e) == {s \in saves : s.editor = e}

(* Every change of the draft makes it dirty, also while a save is under way. *)
Dirty(e, content) ==
  [page[e] EXCEPT !.content = content, !.state = "dirty",
                  !.hasty = @ \/ SavesOf(e) # {}]
WritePath(content, f, value) == [content EXCEPT ![f] = value]

(* getContent, when the page is opened (again). *)
Open(e) ==
  /\ SavesOf(e) = {} /\ page[e].uploading = "none"
  /\ page' = [page EXCEPT ![e].content = stored.draft, ![e].state = "saved",
                          ![e].hasty = FALSE]
  /\ UNCHANGED <<stored, saves, writes>>

EditField(e) ==
  /\ writes < MaxWrites /\ writes' = writes + 1
  /\ page' = [page EXCEPT ![e] = Dirty(e, WritePath(page[e].content, "text", writes'))]
  /\ UNCHANGED <<stored, saves>>

(* The inputs for images and for the document; the handler of the second   *)
(* closes over the content there is now.                                   *)
ChooseFile(e, f) ==
  /\ e \in Uploader /\ page[e].uploading = "none" /\ f \in {"images", "pdf"}
  /\ page' = [page EXCEPT ![e].uploading = f,
                          ![e].captured = IF f = "pdf" THEN page[e].content ELSE @]
  /\ UNCHANGED <<stored, saves, writes>>

(* An upload answers: images are written into the current content, the     *)
(* document into the content of before, which discards what was typed.     *)
UploadAnswers(e) ==
  LET p == page[e] IN
  /\ p.uploading # "none" /\ writes < MaxWrites /\ writes' = writes + 1
  /\ page' = [page EXCEPT ![e] = [Dirty(e, WritePath(
       IF p.uploading = "pdf" THEN p.captured ELSE p.content, p.uploading, writes'))
       EXCEPT !.uploading = "none", !.captured = Original]]
  /\ UNCHANGED <<stored, saves>>

UploadFails(e) ==
  /\ page[e].uploading # "none"
  /\ page' = [page EXCEPT ![e].uploading = "none", ![e].captured = Original]
  /\ UNCHANGED <<stored, saves, writes>>
-----------------------------------------------------------------------------
(* SAVE DRAFT and PUBLISH are disabled only in the state "saving". *)
MayPersist(e) == page[e].state # "saving"

Persist(e, publish) ==
  /\ MayPersist(e)
  /\ page' = [page EXCEPT ![e].state = "saving", ![e].hasty = @ /\ SavesOf(e) # {}]
  /\ Cardinality(saves) < MaxSaves
  /\ \A s \in SavesOf(e) : s.publish # publish \/ s.content # page[e].content
  /\ saves' = saves \cup {[editor |-> e, publish |-> publish, content |-> page[e].content,
                           result |-> "none"]}
  /\ UNCHANGED <<stored, writes>>

Saved(publish, content) ==
  [draft |-> content, published |-> IF publish THEN content ELSE stored.published]

(* saveContent: one upsert of the whole document, in any order of arrival. *)
SaveContent(s) ==
  /\ s.result = "none"
  /\ LET d == Saved(s.publish, s.content) IN
     stored' = [draft |-> d.draft, published |-> d.published, by |-> s.editor]
  /\ saves' = (saves \ {s}) \cup {[s EXCEPT !.result = "ok"]}
  /\ UNCHANGED <<page, writes>>

(* The save is refused or rolled back. *)
SaveFails(s) ==
  /\ s.result = "none"
  /\ saves' = (saves \ {s}) \cup {[s EXCEPT !.result = "failed"]}
  /\ UNCHANGED <<stored, page, writes>>

FaultyReported(s) == IF s.publish THEN "published" ELSE "saved"
Reported(s) == IF s.result = "failed" THEN "dirty" ELSE IF s.publish THEN "published" ELSE "saved"

(* The answer is read; or it is lost, which leaves the page saving. *)
PersistAnswers(s) ==
  /\ s.result # "none"
  /\ saves' = saves \ {s}
  /\ page' = [page EXCEPT ![s.editor].state = Reported(s)]
  /\ UNCHANGED <<stored, writes>>
AnswerLost(s) ==
  /\ s.result # "none" /\ saves' = saves \ {s}
  /\ UNCHANGED <<stored, page, writes>>

NextContent ==
  \/ \E e \in Editor :
       \/ Open(e) \/ EditField(e) \/ UploadAnswers(e) \/ UploadFails(e)
       \/ \E f \in Field : ChooseFile(e, f)
       \/ \E publish \in BOOLEAN : Persist(e, publish)
  \/ \E s \in saves : SaveContent(s) \/ SaveFails(s) \/ PersistAnswers(s) \/ AnswerLost(s)
-----------------------------------------------------------------------------
(* An editor who waits for a save before going on can trust what the page  *)
(* says: SAVED is the stored draft and PUBLISHED the site's document, when *)
(* she was the last to save.  (Who types or saves again meanwhile cannot.) *)
SavedIsStored ==
  \A e \in Editor :
    page[e].state \in {"saved", "published"} /\ stored.by = e
      /\ SavesOf(e) = {} /\ ~page[e].hasty
    => /\ stored.draft = page[e].content
       /\ page[e].state = "published" => stored.published = page[e].content
=============================================================================
