------------------------------- MODULE PersonPage -------------------------------
(***************************************************************************)
(* The page that edits a person: the form with its relationships, photo    *)
(* and attachments, the baseline that tells whether something is unsaved,  *)
(* and the requests the page has sent.  Answers come in any order, late,   *)
(* or not at all; what the API did is then not known to the page.          *)
(* The API is KnowledgeGraph's and KnowledgeFiles', one call at a time.    *)
(***************************************************************************)
EXTENDS Naturals, FiniteSets

CONSTANTS FieldText,  \* what the fields, the tags and a relationship's note can say, ...
          Unsaid,     \* ... and what a relationship's direction and note are at first
          Person,     \* others to be related to, each with the type of the relationship
          AtFirst,    \* the person as stored at first
          MaxSent,    \* bound: loads, saves, deletions and uploads of a page
          MaxNew,     \* bound: relationships in the form that are not saved yet
          MaxEdits,   \* bound: edits of the form
          Nothing

VARIABLES stored,     \* the person of the API: [text, relations, files, photo], or Nothing
          person,     \* signals: the person as last answered, ...
          form,       \* ... the form, the relationships in it and those taken out of it, ...
          baseline,   \* ... what of it counts as saved, ...
          busy,       \* ... loading, saving, deleting, photoUploading, attachmentUploading, ...
          photo,      \* ... the photo shown
          generation, \* the content request whose answer may be shown
          flight,     \* requests that have been sent and not answered
          sent,       \* how many have been
          place,      \* open, left, or deleted with its person
          edits,      \* how often the form has been edited,
          edited,     \* history: whether it was since a save was sent,
          unsure,     \* which kinds of requests were carried out and their answers lost,
          crossed     \* and whether a save and a change of files were under way together
vars == <<stored, person, form, baseline, busy, photo, generation, flight, sent, place,
          edits, edited, unsure, crossed>>

\* A file uploaded, and a relationship added, by a request has the request's number in its id.
\* A row of the form that is not saved yet has its place among those in the id of a request 0.
File == AtFirst.files \cup ({AtFirst.photo} \ {Nothing}) \cup 2 .. MaxSent
NewId == {0} \X (1 .. MaxNew)
RowId == {row.id : row \in AtFirst.relations} \cup ((2 .. MaxSent) \X (1 .. MaxNew))
Row == [id : RowId \cup NewId, to : Person, note : FieldText]
PersonType == [text : FieldText, relations : SUBSET Row, files : SUBSET File, photo : File \cup {Nothing}]

\* What the constants must be: nothing that is stored at first has an id that will be given.
ASSUME PageAssumption ==
  /\ MaxSent \in Nat \ {0} /\ MaxNew \in Nat /\ MaxEdits \in Nat /\ Unsaid \in FieldText
  /\ AtFirst \in PersonType /\ Nothing \notin PersonType \cup File
  /\ (AtFirst.files \cup {AtFirst.photo}) \cap 2 .. MaxSent = {}
  /\ \A row \in AtFirst.relations : row.id \in {1} \X Nat
  /\ \A a, b \in AtFirst.relations : a.id = b.id \/ a.to = b.to => a = b

EmptyForm == [text |-> Nothing, rows |-> {}, deleted |-> {}]
FormOf(p) == [text |-> p.text, rows |-> p.relations, deleted |-> {}]

HasChanges == person # Nothing /\ "load" \notin busy /\ form # baseline

----------------------------------------------------------------------------
\* The API

Ids(rows) == {row.id : row \in rows}

Added(rows) == {row \in rows : row.id \in NewId}
Updated(rows) == rows \ Added(rows)
Created(r) ==
  {[id |-> <<r.n, row.id[2]>>, to |-> row.to, note |-> row.note] : row \in Added(r.form.rows)}

\* The relationships that a save leaves; those added get ids of their own.
Changed(r) ==
  {row \in stored.relations : row.id \notin r.form.deleted \cup Ids(r.form.rows)}
    \cup Updated(r.form.rows) \cup Created(r)

\* The payload and the answers hold relationships in the order they were created.
Before(a, b) == a[1] < b[1] \/ (a[1] = b[1] /\ a[2] < b[2])

PairTwice(rows) == \E a, b \in rows : a.to = b.to /\ a # b

\* A row asks for whom another relationship holds, and still holds when it is the row's turn:
\* what is added is inserted first, then changes follow one by one, and deletions are last.
PairHeld(rows, relations) ==
  \E row \in rows, held \in relations :
    /\ row.to = held.to /\ row.id # held.id
    /\ ~(held.id \in Ids(rows) /\ Before(held.id, row.id))

\* Mutant: the database does not keep pairs unique.
SaveRefusedUnindexed(r) ==
  \/ ~(r.form.deleted \cup Ids(Updated(r.form.rows)) \subseteq Ids(stored.relations))
  \/ PairTwice(r.form.rows)

\* A relationship that is gone is a 404, a pair that is asked for twice or held is a 409.
SaveRefused(r) ==
  \/ ~(r.form.deleted \cup Ids(Updated(r.form.rows)) \subseteq Ids(stored.relations))
  \/ PairTwice(r.form.rows)
  \/ PairHeld(r.form.rows, stored.relations)

Refuses(r) ==
  \/ stored = Nothing
  \/ r.kind = "save" /\ SaveRefused(r)
  \/ r.kind = "detach" /\ r.file \notin stored.files
  \/ r.kind = "no_photo" /\ stored.photo = Nothing
  \/ r.kind = "content" /\ r.file # stored.photo

Carried(r) ==
  CASE r.kind \in {"load", "content"} -> stored
    [] r.kind = "save" -> [stored EXCEPT !.text = r.form.text, !.relations = Changed(r)]
    [] r.kind = "delete" -> Nothing
    [] r.kind = "attach" -> [stored EXCEPT !.files = @ \cup {r.file}]
    [] r.kind = "detach" -> [stored EXCEPT !.files = @ \ {r.file}]
    [] r.kind = "photo" -> [stored EXCEPT !.photo = r.file]
    [] r.kind = "no_photo" -> [stored EXCEPT !.photo = Nothing]

Serve(r) ==
  /\ r \in flight /\ r.answer = "none"
  /\ IF Refuses(r)
     THEN flight' = (flight \ {r}) \cup {[r EXCEPT !.answer = "refused"]} /\ UNCHANGED stored
     ELSE /\ stored' = Carried(r)
          /\ flight' = (flight \ {r}) \cup {[r EXCEPT !.answer = "done", !.person = stored']}
  /\ UNCHANGED <<person, form, baseline, busy, photo, generation, sent, place, edits, edited,
                 unsure, crossed>>

----------------------------------------------------------------------------
\* Requests

Saves == {r \in flight : r.kind = "save"}
FileKinds == {"attach", "detach", "photo", "no_photo"}
Request(n, kind, file) ==
  [n |-> n, kind |-> kind, file |-> file, form |-> EmptyForm, answer |-> "none", person |-> Nothing]

Send(r) ==
  /\ sent < MaxSent
  /\ sent' = sent + 1
  /\ flight' = flight \cup {r}
  /\ crossed' = (crossed \/ \E a, b \in flight' : a.kind = "save" /\ b.kind \in FileKinds)

Init ==
  /\ stored = AtFirst
  /\ person = Nothing /\ form = EmptyForm /\ baseline = EmptyForm
  /\ busy = {"load"} /\ photo = Nothing /\ generation = 0
  /\ flight = {Request(1, "load", Nothing)} /\ sent = 1
  /\ place = "open"
  /\ edits = 0 /\ edited = FALSE /\ unsure = {} /\ crossed = FALSE

Shown == place = "open" /\ person # Nothing /\ "load" \notin busy
Kept == <<stored, place, unsure, edits>>

\* Relationships are added, changed in place and taken out.  A row that names nobody yet is not
\* sent and is left out here: it is added when somebody and a type have been picked.
Edit ==
  /\ Shown /\ edits < MaxEdits
  /\ \/ \E text \in FieldText \ {form.text} : form' = [form EXCEPT !.text = text]
     \/ \E id \in NewId \ Ids(form.rows), to \in Person :
          /\ \A other \in NewId \ Ids(form.rows) : id[2] <= other[2]
          /\ form' = [form EXCEPT !.rows = @ \cup {[id |-> id, to |-> to, note |-> Unsaid]}]
     \/ \E row \in form.rows, to \in Person, note \in FieldText :
          form' = [form EXCEPT !.rows = (@ \ {row}) \cup {[id |-> row.id, to |-> to, note |-> note]}]
     \/ \E row \in form.rows :
          form' = [form EXCEPT !.rows = @ \ {row}, !.deleted = @ \cup ({row.id} \ NewId)]
  /\ form' # form
  /\ edited' = TRUE /\ edits' = edits + 1
  /\ UNCHANGED <<stored, place, unsure, person, baseline, busy, photo, generation, flight, sent, crossed>>

\* Mutant: what is sent counts as saved before it is answered.
SavePersonCommits ==
  /\ Shown /\ busy \cap {"save", "delete"} = {}
  /\ Send([Request(sent + 1, "save", Nothing) EXCEPT !.form = form])
  /\ busy' = busy \cup {"save"}
  /\ edited' = FALSE
  /\ baseline' = form
  /\ UNCHANGED <<Kept, person, form, photo, generation>>

SavePerson ==
  /\ Shown /\ busy \cap {"save", "delete"} = {}
  /\ Send([Request(sent + 1, "save", Nothing) EXCEPT !.form = form])
  /\ busy' = busy \cup {"save"}
  /\ edited' = FALSE
  /\ UNCHANGED <<Kept, person, form, baseline, photo, generation>>

DeletePerson ==
  /\ Shown /\ busy \cap {"save", "delete"} = {}
  /\ Send(Request(sent + 1, "delete", Nothing))
  /\ busy' = busy \cup {"delete"}
  /\ UNCHANGED <<Kept, person, form, baseline, photo, generation, edited>>

\* Uploads, and the deletion of an attachment, which nothing disables.
ChangeFiles ==
  /\ Shown
  /\ \/ \E file \in person.files : Send(Request(sent + 1, "detach", file)) /\ UNCHANGED busy
     \/ \E kind \in {"attach", "photo"} \ busy :
          /\ Send(Request(sent + 1, kind, sent + 1))
          /\ busy' = busy \cup {kind}
  /\ UNCHANGED <<Kept, person, form, baseline, photo, generation, edited>>

DeletePhoto ==
  /\ Shown /\ "photo" \notin busy /\ person.photo # Nothing
  /\ Send(Request(sent + 1, "no_photo", Nothing))
  /\ busy' = busy \cup {"photo"}
  /\ UNCHANGED <<Kept, person, form, baseline, photo, generation, edited>>

\* The answer to a load that failed offers another.
LoadPerson ==
  /\ place = "open" /\ person = Nothing /\ "load" \notin busy
  /\ Send(Request(sent + 1, "load", Nothing))
  /\ busy' = busy \cup {"load"}
  /\ UNCHANGED <<Kept, person, form, baseline, photo, generation, edited>>

----------------------------------------------------------------------------
\* Answers

Takes(r) == place = "open" /\ r \in flight /\ r.answer = "done"
Flags(r) == {IF r.kind = "no_photo" THEN "photo" ELSE r.kind}

\* The photo shown goes, and what is asked for now is shown when it comes.
LoadPhoto(r, file) ==
  /\ photo' = Nothing
  /\ generation' = r.n
  /\ flight' = (flight \ {r})
                 \cup (IF file = Nothing THEN {} ELSE {Request(r.n, "content", file)})

PatchPerson(p) ==
  /\ person' = p
  /\ form' = FormOf(p)
  /\ baseline' = form'

LoadAnswered(r) ==
  /\ Takes(r) /\ r.kind = "load"
  /\ PatchPerson(r.person)
  /\ LoadPhoto(r, r.person.photo)
  /\ busy' = busy \ Flags(r)
  /\ UNCHANGED <<Kept, sent, edited, crossed>>

SaveAnswered(r) ==
  /\ Takes(r) /\ r.kind = "save"
  /\ PatchPerson(r.person)
  /\ busy' = busy \ Flags(r)
  /\ flight' = flight \ {r}
  /\ UNCHANGED <<Kept, photo, generation, sent, edited, crossed>>

FilesAnswered(r) ==
  /\ Takes(r) /\ r.kind \in {"attach", "detach"}
  /\ person' = [person EXCEPT !.files = IF r.kind = "attach" THEN @ \cup {r.file} ELSE @ \ {r.file}]
  /\ busy' = busy \ Flags(r)
  /\ flight' = flight \ {r}
  /\ UNCHANGED <<Kept, form, baseline, photo, generation, sent, edited, crossed>>

PhotoAnswered(r) ==
  /\ Takes(r) /\ r.kind \in {"photo", "no_photo"}
  /\ person' = [person EXCEPT !.photo = r.file]
  /\ LoadPhoto(r, r.file)
  /\ busy' = busy \ Flags(r)
  /\ UNCHANGED <<Kept, form, baseline, sent, edited, crossed>>

\* Mutant: an older photo that is answered late is shown.
ContentAnsweredAlways(r) ==
  /\ Takes(r) /\ r.kind = "content"
  /\ photo' = r.file
  /\ flight' = flight \ {r}
  /\ UNCHANGED <<Kept, person, form, baseline, busy, generation, sent, edited, crossed>>

ContentAnswered(r) ==
  /\ Takes(r) /\ r.kind = "content"
  /\ photo' = IF r.n = generation THEN r.file ELSE photo
  /\ flight' = flight \ {r}
  /\ UNCHANGED <<Kept, person, form, baseline, busy, generation, sent, edited, crossed>>

\* The form is given up and the page goes back to the list.
DeleteAnswered(r) ==
  /\ Takes(r) /\ r.kind = "delete"
  /\ baseline' = form
  /\ place' = "deleted"
  /\ flight' = {}
  /\ UNCHANGED <<stored, person, form, busy, photo, generation, sent, edits, edited, unsure, crossed>>

\* A refusal, or a connection that breaks before or after the API has served the request.
Failed(r) ==
  /\ place = "open" /\ r \in flight
  /\ busy' = busy \ Flags(r)
  /\ flight' = flight \ {r}
  /\ unsure' = unsure \cup {kind \in {r.kind} \ {"load", "content"} : r.answer = "done"}
  /\ UNCHANGED <<stored, person, form, baseline, photo, generation, sent, place, edits,
                 edited, crossed>>

\* unsavedChangesGuard: the user is asked if something is unsaved.  Answers reach nobody now.
Leave ==
  /\ place = "open"
  /\ place' = IF HasChanges THEN "left_asked" ELSE "left"
  /\ flight' = {}
  /\ UNCHANGED <<stored, person, form, baseline, busy, photo, generation, sent, edits, edited, unsure,
                 crossed>>

Next ==
  \/ Edit \/ SavePerson \/ DeletePerson \/ ChangeFiles \/ DeletePhoto \/ LoadPerson \/ Leave
  \/ \E r \in flight :
       \/ Serve(r) \/ LoadAnswered(r) \/ SaveAnswered(r) \/ FilesAnswered(r) \/ PhotoAnswered(r)
       \/ ContentAnswered(r) \/ DeleteAnswered(r) \/ Failed(r)

Spec == Init /\ [][Next]_vars

----------------------------------------------------------------------------
\* Properties

FormType == [text : FieldText \cup {Nothing}, rows : SUBSET Row, deleted : SUBSET RowId]
Kinds == {"load", "save", "delete", "content"} \cup FileKinds
RequestType ==
  [n : 1 .. MaxSent, kind : Kinds, file : File \cup {Nothing}, form : FormType,
   answer : {"none", "refused", "done"}, person : PersonType \cup {Nothing}]
TypeOK ==
  /\ stored \in PersonType \cup {Nothing}
  /\ person \in PersonType \cup {Nothing}
  /\ form \in FormType /\ baseline \in FormType /\ (person # Nothing => form.text \in FieldText)
  /\ busy \subseteq Kinds
  /\ photo \in File \cup {Nothing}
  /\ generation \in 0 .. MaxSent
  /\ flight \subseteq RequestType
  /\ \A r \in flight : /\ r.kind = "save" => r.n > 1 /\ r.form.text \in FieldText
                       /\ r.kind = "attach" => r.file # Nothing
  /\ sent \in 1 .. MaxSent
  /\ place \in {"open", "left", "left_asked", "deleted"}
  /\ edits \in 0 .. MaxEdits /\ edited \in BOOLEAN /\ unsure \subseteq Kinds /\ crossed \in BOOLEAN

\* Whenever the page can be left without a question, its form is the person as stored; unless a
\* save is under way, or was carried out and its answer lost.
AllClearIsTrue ==
  place = "open" /\ person # Nothing /\ stored # Nothing /\ ~HasChanges =>
    form = FormOf(stored) \/ Saves # {} \/ "save" \in unsure

Content(f) == <<f.text, {<<row.to, row.note>> : row \in f.rows}>>

\* The answer to a save replaces nothing in the form but what was edited after it was sent.
AnswersKeepEdits ==
  place = "open" /\ ~edited /\ "save" \notin unsure =>
    \A r \in Saves : r.answer = "done" => Content(FormOf(r.person)) = Content(form)

\* A save is refused only for what the page itself shows: two rows of the form ask for the same
\* pair, or one asks for a pair that another relationship of the person shown has until its turn
\* comes; unless an earlier save was carried out and its answer lost.
RefusedWithReason ==
  place = "open" /\ "save" \notin unsure /\ stored # Nothing =>
    \A r \in Saves :
      r.answer = "refused" => PairTwice(r.form.rows) \/ PairHeld(r.form.rows, person.relations)

\* Nobody is stored twice by the same type, also by the retry of a save whose answer was lost.
StoredOnce == place = "open" /\ stored # Nothing => ~PairTwice(stored.relations)

\* No edit is lost without a question or a reason, and none is stored twice.
EditsKept == AllClearIsTrue /\ AnswersKeepEdits /\ RefusedWithReason /\ StoredOnce

\* With no request under way the page shows the person, files and photo that are stored, and
\* at no time a photo that is not the person's; unless a change of files and a save were under
\* way together, whose answers can take each other's place, or an answer was lost.
ShownAsStored ==
  place = "open" /\ person # Nothing /\ ~crossed /\ unsure = {} =>
    /\ photo \in {Nothing, person.photo}
    /\ {r \in flight : r.kind # "content"} = {} => person = stored
=============================================================================
