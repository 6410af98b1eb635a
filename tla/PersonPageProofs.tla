--------------------------- MODULE PersonPageProofs ---------------------------
(***************************************************************************)
(* Proofs about PersonPage, for any texts and people, any person to begin  *)
(* with and any number of requests.                                        *)
(***************************************************************************)
EXTENDS PersonPage, TLAPS

Done(r) == r.answer = "done"
Files == {r \in flight : r.kind \in FileKinds}
\* Of what sets one busy flag, one request is under way at a time.
Flagged == Kinds \ {"content", "detach"}

----------------------------------------------------------------------------
(* The requests under way                                                   *)

\* Requests are numbered as they are sent; a content request has the number of what asked for it.
Numbered ==
  /\ \A r \in flight : r.n <= sent
  /\ \A r, q \in flight : r.n = q.n => r = q
  /\ place # "open" => flight = {}
  /\ ~crossed => Saves = {} \/ Files = {}

OneEach ==
  /\ \A r \in flight : r.kind \in Flagged => Flags(r) \subseteq busy
  /\ \A r, q \in flight : r.kind \in Flagged /\ q.kind \in Flagged /\ Flags(r) = Flags(q) => r = q
  /\ \A r, q \in flight : r.kind = "save" => q.kind # "delete"

\* Until the person is loaded nothing else is asked for, and nothing is shown.
LoadFirst ==
  /\ person = Nothing =>
       /\ stored = AtFirst /\ form = EmptyForm /\ baseline = EmptyForm /\ photo = Nothing
       /\ \A r \in flight : r.kind = "load" /\ (Done(r) => r.person = AtFirst)
  /\ person # Nothing => "load" \notin busy
  /\ \A r \in flight : /\ Done(r) => r.person \in PersonType \/ r.kind = "delete"
                       /\ r.kind \in {"load"} => r.answer # "refused"

\* Only a deletion under way, or one whose answer was lost, can have taken the person away.
GoneByDeletion ==
  place = "open" /\ "delete" \notin unsure /\ stored = Nothing =>
    \E r \in flight : r.kind = "delete" /\ Done(r)

FlightInv == TypeOK /\ Numbered /\ OneEach /\ LoadFirst /\ GoneByDeletion

----------------------------------------------------------------------------
(* The form                                                                 *)

\* Relationships have ids of their own, none of a row to be saved, nor one that a save to come
\* will give; nobody is there twice.
RowsOf(p, n) ==
  /\ \A a, b \in p.relations : a.id = b.id => a = b
  /\ \A a \in p.relations :
       /\ a.id \notin NewId
       /\ a.id \in {row.id : row \in AtFirst.relations} \/ a.id \in (2 .. n) \X (1 .. MaxNew)
  /\ ~PairTwice(p.relations)
GoodRows ==
  /\ stored # Nothing => RowsOf(stored, sent)
  /\ person # Nothing => RowsOf(person, sent)
  /\ \A r \in flight : Done(r) /\ r.kind \in {"load", "save"} => RowsOf(r.person, sent)
  /\ \A r \in Saves :
       r.answer = "none" /\ stored # Nothing =>
         \A a \in stored.relations : a.id \in (2 .. MaxSent) \X (1 .. MaxNew) => a.id[1] # r.n

\* A form is made of the person it was filled from: what it leaves out it has marked as deleted.
Made(f) ==
  /\ f.deleted \subseteq Ids(person.relations)
  /\ \A a, b \in f.rows : a.id = b.id => a = b
  /\ \A a \in f.rows : a.id \notin NewId => a.id \in Ids(person.relations) \ f.deleted
  /\ Ids(person.relations) \ f.deleted \subseteq Ids(f.rows)
Forms ==
  place = "open" /\ person # Nothing =>
    /\ baseline = FormOf(person)
    /\ Made(form)
    /\ \A r \in Saves : Made(r.form) /\ (~edited => r.form = form)

\* What a save that is carried out leaves, if the page knows all relationships there are.
Left(r) == Updated(r.form.rows) \cup Created(r)
Reason(r) == PairTwice(r.form.rows) \/ PairHeld(r.form.rows, person.relations)

\* Only a save that is still to be answered parts what is stored from what the page knows.
InStep ==
  place = "open" /\ person # Nothing /\ "save" \notin unsure =>
    /\ stored # Nothing /\ (\A r \in Saves : ~Done(r)) =>
         stored.text = person.text /\ stored.relations = person.relations
    /\ \A r \in Saves :
         /\ Done(r) => /\ stored # Nothing
                       /\ stored.text = r.person.text /\ stored.relations = r.person.relations
                       /\ r.person.text = r.form.text /\ r.person.relations = Left(r)
         /\ r.answer = "refused" /\ stored # Nothing => Reason(r)

FormInv == FlightInv /\ GoodRows /\ Forms /\ InStep

----------------------------------------------------------------------------
(* Files                                                                    *)

\* Files of this page's uploads have the numbers of requests that were sent.
Known == AtFirst.files \cup {AtFirst.photo, Nothing} \cup 1 .. sent
FilesNumbered ==
  /\ stored # Nothing => stored.files \subseteq Known
  /\ person # Nothing => person.files \subseteq Known
  /\ \A r \in flight : /\ r.file \in Known /\ (r.kind = "no_photo" => r.file = Nothing)
                       /\ Done(r) /\ r.person # Nothing => r.person.files \subseteq Known

\* An attachment is on the page only once its upload is answered, and what was deleted stays so.
Attaching ==
  place = "open" /\ stored # Nothing /\ person # Nothing /\ ~crossed =>
    \A r \in flight :
      /\ r.kind = "attach" =>
           /\ r.file \notin person.files
           /\ \A q \in flight : q.kind = "detach" => q.file # r.file
           /\ r.file \in stored.files <=> Done(r)
      /\ r.kind = "detach" /\ Done(r) => r.file \notin stored.files

\* Files parted are those of an upload or a deletion that waits for its answer.
Parted ==
  /\ \A f \in stored.files \ person.files : \E r \in flight : r.kind = "attach" /\ Done(r) /\ r.file = f
  /\ \A f \in person.files \ stored.files : \E r \in flight : r.kind = "detach" /\ Done(r) /\ r.file = f
  /\ \/ stored.photo = person.photo
     \/ \E r \in flight : r.kind \in {"photo", "no_photo"} /\ Done(r)
  /\ \A r \in flight :
       r.kind \in {"photo", "no_photo"} /\ Done(r) => r.file = stored.photo

FilesInStep ==
  place = "open" /\ person # Nothing /\ unsure = {} /\ ~crossed =>
    /\ stored # Nothing => Parted
    /\ \A r \in Saves : Done(r) => r.person.files = stored.files /\ r.person.photo = stored.photo
    /\ \A r \in flight : r.kind = "content" /\ r.n = generation => r.file = person.photo
    /\ photo \in {Nothing, person.photo}

IInv == FormInv /\ FilesNumbered /\ Attaching /\ FilesInStep

----------------------------------------------------------------------------
(* The steps of the requests                                                *)

\* What the step that sends r has found and does, whichever it is.
SentAs(r) ==
  /\ r \in RequestType /\ r.n = sent + 1 /\ r.answer = "none" /\ r.person = Nothing
  /\ place = "open" /\ flight' = flight \cup {r} /\ sent' = sent + 1 /\ sent' \in 1 .. MaxSent
  /\ crossed' = (crossed \/ \E a, b \in flight' : a.kind = "save" /\ b.kind \in FileKinds)
  /\ UNCHANGED <<stored, place, unsure, edits, person, form, baseline, photo, generation>>
  /\ r.kind = "load" <=> person = Nothing
  /\ r.kind # "save" => edited' = edited
  /\ r.kind # "detach" => Flags(r) \cap busy = {} /\ busy' = busy \cup Flags(r)
  /\ \/ r.kind = "save" /\ r.form = form /\ r.file = Nothing /\ edited' = FALSE /\ "delete" \notin busy
     \/ r.kind = "delete" /\ r.file = Nothing /\ "save" \notin busy
     \/ r.kind \in {"attach", "photo"} /\ r.file = sent + 1
     \/ r.kind = "detach" /\ r.file \in person.files /\ busy' = busy
     \/ r.kind = "no_photo" /\ r.file = Nothing /\ person.photo # Nothing
     \/ r.kind = "load" /\ r.file = Nothing

\* What the API does with r, which is s from then on.
ServedAs(r, s) ==
  /\ r \in flight /\ r.answer = "none"
  /\ s \in RequestType /\ s.n = r.n /\ s.kind = r.kind /\ s.file = r.file /\ s.form = r.form
  /\ flight' = (flight \ {r}) \cup {s}
  /\ \/ Refuses(r) /\ s.answer = "refused" /\ s.person = r.person /\ stored' = stored
     \/ ~Refuses(r) /\ s.answer = "done" /\ s.person = stored' /\ stored' = Carried(r)
  /\ stored' \in PersonType \cup {Nothing}
  /\ UNCHANGED <<person, form, baseline, busy, photo, generation, sent, place, edits, edited, unsure, crossed>>

\* What the page does with an answer to r, or without one; C asks for the content of a photo.
AnsweredAs(r, C) ==
  /\ r \in flight /\ place = "open" /\ flight' = (flight \ {r}) \cup C
  /\ C \subseteq RequestType /\ \A c, d \in C : c = d
  /\ \A c \in C : c.n = r.n /\ c.kind = "content" /\ c.answer = "none" /\ c.person = Nothing
  /\ busy \ Flags(r) \subseteq busy' /\ busy' \subseteq busy
  /\ UNCHANGED <<stored, place, sent, edits, edited, crossed>>
  /\ \/ /\ r.kind \in {"load", "save"} /\ Done(r) /\ busy' = busy \ Flags(r)
        /\ person' = r.person /\ form' = FormOf(r.person) /\ baseline' = form'
        /\ r.kind = "load" => photo' = Nothing /\ generation' = r.n /\ \A c \in C : c.file = person'.photo
        /\ r.kind = "save" => C = {} /\ UNCHANGED <<photo, generation>>
        /\ unsure' = unsure
     \/ /\ r.kind \in {"attach", "detach"} /\ Done(r) /\ C = {}
        /\ person' = [person EXCEPT !.files = IF r.kind = "attach" THEN @ \cup {r.file} ELSE @ \ {r.file}]
        /\ UNCHANGED <<form, baseline, photo, generation, unsure>>
     \/ /\ r.kind \in {"photo", "no_photo"} /\ Done(r)
        /\ person' = [person EXCEPT !.photo = r.file]
        /\ photo' = Nothing /\ generation' = r.n /\ \A c \in C : c.file = r.file
        /\ UNCHANGED <<form, baseline, unsure>>
     \/ /\ r.kind = "content" /\ Done(r) /\ C = {}
        /\ photo' = IF r.n = generation THEN r.file ELSE photo
        /\ UNCHANGED <<person, form, baseline, generation, unsure>>
     \/ /\ C = {}
        /\ unsure' = unsure \cup {kind \in {r.kind} \ {"load", "content"} : r.answer = "done"}
        /\ UNCHANGED <<person, form, baseline, photo, generation>>

\* A request with neither form nor answer is one.
LEMMA RequestTyped == ASSUME NEW n \in 1 .. MaxSent, NEW kind \in Kinds, NEW file \in File \cup {Nothing}
                      PROVE /\ Request(n, kind, file) \in RequestType
                            /\ Request(n, kind, file).n = n /\ Request(n, kind, file).kind = kind
                            /\ Request(n, kind, file).file = file /\ Request(n, kind, file).answer = "none"
                            /\ Request(n, kind, file).person = Nothing
                            /\ Request(n, kind, file).form = EmptyForm
<1>1. EmptyForm \in FormType
  BY DEF EmptyForm, FormType
<1>. QED
  BY <1>1 DEF Request, RequestType

\* Whatever is sent, is sent in this way.
LEMMA Sending == ASSUME TypeOK, SavePerson \/ DeletePerson \/ ChangeFiles \/ DeletePhoto \/ LoadPerson
                 PROVE \E r : SentAs(r)
<1>0. /\ MaxSent \in Nat \ {0} /\ sent \in 1 .. MaxSent /\ form \in FormType
      /\ Nothing \notin PersonType /\ Kinds = {"load", "save", "delete", "content", "attach", "detach", "photo", "no_photo"}
  BY PageAssumption DEF TypeOK, Kinds, FileKinds
<1>1. ASSUME NEW r \in RequestType, r.n = sent + 1, Send(r)
      PROVE sent' = sent + 1 /\ sent' \in 1 .. MaxSent
  BY <1>0, <1>1 DEF Send
<1>2. ASSUME sent < MaxSent
      PROVE sent + 1 \in 1 .. MaxSent /\ sent + 1 \in File
  BY <1>0, <1>2 DEF File
<1>3. CASE SavePerson
  <2>. DEFINE b == Request(sent + 1, "save", Nothing)
              r == [b EXCEPT !.form = form]
  <2>1. Shown /\ busy \cap {"save", "delete"} = {} /\ Send(r) /\ busy' = busy \cup {"save"} /\ edited' = FALSE
        /\ UNCHANGED <<Kept, person, form, baseline, photo, generation>> /\ sent < MaxSent
    BY <1>3 DEF SavePerson, Send
  <2>2. /\ b \in RequestType /\ b.n = sent + 1 /\ b.kind = "save" /\ b.file = Nothing /\ b.answer = "none"
        /\ b.person = Nothing
    BY <1>0, <1>2, <2>1, RequestTyped
  <2>3. /\ r \in RequestType /\ r.n = sent + 1 /\ r.kind = "save" /\ r.file = Nothing /\ r.answer = "none"
        /\ r.person = Nothing /\ r.form = form
    BY <1>0, <2>2 DEF RequestType
  <2>. HIDE DEF r
  <2>4. SentAs(r)
    BY <1>0, <1>1, <2>1, <2>3 DEF SentAs, Send, Shown, Kept, Flags
  <2>. QED
    BY <2>4
<1>4. ASSUME NEW kind \in Kinds \ {"content", "save"}, NEW file \in File \cup {Nothing},
             Send(Request(sent + 1, kind, file)),
             place = "open", kind = "load" <=> person = Nothing,
             UNCHANGED <<Kept, person, form, baseline, photo, generation, edited>>,
             LET flag == IF kind = "no_photo" THEN "photo" ELSE kind IN
               kind # "detach" => flag \notin busy /\ busy' = busy \cup {flag},
             \/ kind = "delete" /\ file = Nothing /\ "save" \notin busy
             \/ kind \in {"attach", "photo"} /\ file = sent + 1
             \/ kind = "detach" /\ file \in person.files /\ busy' = busy
             \/ kind = "no_photo" /\ file = Nothing /\ person.photo # Nothing
             \/ kind = "load" /\ file = Nothing
      PROVE \E r : SentAs(r)
  <2>. DEFINE r == Request(sent + 1, kind, file)
  <2>1. /\ r \in RequestType /\ r.n = sent + 1 /\ r.kind = kind /\ r.file = file /\ r.answer = "none"
        /\ r.person = Nothing /\ Send(r)
    BY <1>0, <1>2, <1>4, RequestTyped DEF Send
  <2>. HIDE DEF r
  <2>2. SentAs(r)
    BY <1>0, <1>1, <1>4, <2>1 DEF SentAs, Send, Kept, Flags
  <2>. QED
    BY <2>2
<1>5. CASE DeletePerson
  BY <1>0, <1>4, <1>5 DEF DeletePerson, Shown
<1>6. CASE ChangeFiles
  <2>1. CASE \E file \in person.files : Send(Request(sent + 1, "detach", file)) /\ UNCHANGED busy
    <3>1. PICK file \in person.files : Send(Request(sent + 1, "detach", file)) /\ UNCHANGED busy
      BY <2>1
    <3>2. file \in File /\ person # Nothing /\ place = "open"
      BY <1>0, <1>6, <3>1 DEF ChangeFiles, Shown, TypeOK, PersonType
    <3>. QED
      BY <1>0, <1>4, <1>6, <3>1, <3>2 DEF ChangeFiles
  <2>2. CASE \E kind \in {"attach", "photo"} \ busy :
               Send(Request(sent + 1, kind, sent + 1)) /\ busy' = busy \cup {kind}
    <3>1. PICK kind \in {"attach", "photo"} \ busy :
               Send(Request(sent + 1, kind, sent + 1)) /\ busy' = busy \cup {kind}
      BY <2>2
    <3>2. sent + 1 \in File /\ person # Nothing /\ place = "open"
      BY <1>2, <1>6, <3>1 DEF ChangeFiles, Shown, Send
    <3>. QED
      BY <1>0, <1>4, <1>6, <3>1, <3>2 DEF ChangeFiles
  <2>. QED
    BY <1>6, <2>1, <2>2 DEF ChangeFiles
<1>7. CASE DeletePhoto
  BY <1>0, <1>4, <1>7 DEF DeletePhoto, Shown
<1>8. CASE LoadPerson
  BY <1>0, <1>4, <1>8 DEF LoadPerson
<1>. QED
  BY <1>3, <1>5, <1>6, <1>7, <1>8

\* What is added is given ids that relationships can have.
LEMMA CreatedTyped == ASSUME NEW r \in RequestType, r.n > 1
                      PROVE /\ Created(r) \subseteq Row
                            /\ Updated(r.form.rows) \subseteq Row
                            /\ \A row \in Updated(r.form.rows) : row.id \notin NewId
                            /\ \A g \in Created(r) : g.id \in {r.n} \X (1 .. MaxNew)
<1>1. r.form.rows \subseteq Row
  BY DEF RequestType, FormType
<1>2. r.n \in 2 .. MaxSent
  BY PageAssumption DEF RequestType
<1>3. ASSUME NEW g \in Created(r)
      PROVE g \in Row /\ g.id \in {r.n} \X (1 .. MaxNew)
  <2>1. PICK row \in Added(r.form.rows) : g = [id |-> <<r.n, row.id[2]>>, to |-> row.to, note |-> row.note]
    BY <1>3 DEF Created
  <2>2. row \in Row /\ row.id \in NewId
    BY <1>1, <2>1 DEF Added
  <2>3. row.id[2] \in 1 .. MaxNew /\ row.to \in Person /\ row.note \in FieldText
    BY <2>2 DEF Row, NewId
  <2>. QED
    BY <1>2, <2>1, <2>3 DEF Row, RowId
<1>. QED
  BY <1>1, <1>3 DEF Updated, Added

\* What a save leaves are relationships.
LEMMA ChangedTyped == ASSUME TypeOK, NEW r \in RequestType, r.n > 1, stored \in PersonType
                      PROVE Changed(r) \subseteq Row
<1>1. stored.relations \subseteq Row
  BY DEF PersonType
<1>. QED
  BY <1>1, CreatedTyped DEF Changed

\* What is carried out leaves a person, or takes it away.
LEMMA CarriedTyped == ASSUME TypeOK, NEW r \in flight, stored \in PersonType
                      PROVE /\ Carried(r) \in PersonType \cup {Nothing}
                            /\ r.kind # "delete" => Carried(r) \in PersonType
<1>0. r \in RequestType
  BY DEF TypeOK
<1>1. CASE r.kind = "save"
  <2>1. r.n > 1 /\ r.form.text \in FieldText
    BY <1>1 DEF TypeOK
  <2>2. Changed(r) \subseteq Row
    BY <1>0, <2>1, ChangedTyped
  <2>3. Carried(r) = [stored EXCEPT !.text = r.form.text, !.relations = Changed(r)]
    BY <1>1 DEF Carried
  <2>. QED
    BY <1>1, <2>1, <2>2, <2>3 DEF PersonType
<1>2. CASE r.kind \in {"load", "content", "delete"}
  BY <1>2 DEF Carried
<1>3. CASE r.kind \in {"attach", "detach"}
  <2>1. /\ r.kind = "attach" => r.file \in File
        /\ \/ Carried(r) = [stored EXCEPT !.files = @ \cup {r.file}] /\ r.kind = "attach"
           \/ Carried(r) = [stored EXCEPT !.files = @ \ {r.file}]
    BY <1>0, <1>3 DEF Carried, TypeOK, RequestType
  <2>. QED
    BY <2>1 DEF PersonType
<1>4. CASE r.kind \in {"photo", "no_photo"}
  <2>1. r.file \in File \cup {Nothing}
    BY <1>0 DEF RequestType
  <2>2. \/ Carried(r) = [stored EXCEPT !.photo = r.file]
        \/ Carried(r) = [stored EXCEPT !.photo = Nothing]
    BY <1>4 DEF Carried
  <2>. QED
    BY <2>1, <2>2 DEF PersonType
<1>. QED
  BY <1>0, <1>1, <1>2, <1>3, <1>4 DEF RequestType, Kinds, FileKinds

\* What is served is served in this way.
LEMMA Serving == ASSUME TypeOK, NEW r \in flight, Serve(r)
                 PROVE \E s : ServedAs(r, s)
<1>0. r \in RequestType /\ r.answer = "none"
  BY DEF TypeOK, Serve
<1>1. CASE Refuses(r)
  <2>. DEFINE s == [r EXCEPT !.answer = "refused"]
  <2>1. flight' = (flight \ {r}) \cup {s} /\ stored' = stored
    BY <1>1 DEF Serve
  <2>2. /\ s \in RequestType /\ s.n = r.n /\ s.kind = r.kind /\ s.file = r.file /\ s.form = r.form
        /\ s.answer = "refused" /\ s.person = r.person
    BY <1>0 DEF RequestType
  <2>. HIDE DEF s
  <2>3. ServedAs(r, s)
    BY <1>0, <1>1, <2>1, <2>2 DEF Serve, ServedAs, TypeOK
  <2>. QED
    BY <2>3
<1>2. CASE ~Refuses(r)
  <2>. DEFINE s == [r EXCEPT !.answer = "done", !.person = stored']
  <2>1. flight' = (flight \ {r}) \cup {s} /\ stored' = Carried(r)
    BY <1>2 DEF Serve
  <2>2. stored \in PersonType
    BY <1>2 DEF TypeOK, Refuses
  <2>3. Carried(r) \in PersonType \cup {Nothing}
    BY <1>0, <2>2, CarriedTyped
  <2>4. /\ s \in RequestType /\ s.n = r.n /\ s.kind = r.kind /\ s.file = r.file /\ s.form = r.form
        /\ s.answer = "done" /\ s.person = stored'
    BY <1>0, <2>1, <2>3 DEF RequestType
  <2>. HIDE DEF s
  <2>5. ServedAs(r, s)
    BY <1>0, <1>2, <2>1, <2>3, <2>4 DEF Serve, ServedAs
  <2>. QED
    BY <2>5
<1>. QED
  BY <1>1, <1>2

\* The content that is asked for after an answer takes the answer's place.
LEMMA Loading == ASSUME TypeOK, NEW r \in flight, NEW file \in File \cup {Nothing}, LoadPhoto(r, file)
                 PROVE /\ photo' = Nothing /\ generation' = r.n
                       /\ \E C \in SUBSET RequestType :
                            /\ flight' = (flight \ {r}) \cup C
                            /\ \A c, d \in C : c = d
                            /\ \A c \in C : /\ c.n = r.n /\ c.kind = "content" /\ c.file = file
                                            /\ c.answer = "none" /\ c.person = Nothing
<1>. DEFINE C == IF file = Nothing THEN {} ELSE {Request(r.n, "content", file)}
<1>1. r.n \in 1 .. MaxSent /\ "content" \in Kinds
  BY DEF TypeOK, RequestType, Kinds
<1>2. C \in SUBSET RequestType /\ \A c \in C : /\ c.n = r.n /\ c.kind = "content" /\ c.file = file
                                               /\ c.answer = "none" /\ c.person = Nothing
  BY <1>1, RequestTyped
<1>3. flight' = (flight \ {r}) \cup C /\ photo' = Nothing /\ generation' = r.n /\ \A c, d \in C : c = d
  BY DEF LoadPhoto
<1>. QED
  BY <1>2, <1>3

\* What is answered, or fails, is answered in this way.
LEMMA Answering == ASSUME FlightInv, NEW r \in flight,
                          \/ LoadAnswered(r) \/ SaveAnswered(r) \/ FilesAnswered(r) \/ PhotoAnswered(r)
                          \/ ContentAnswered(r) \/ Failed(r)
                   PROVE \E C : AnsweredAs(r, C)
<1>0. TypeOK /\ LoadFirst /\ r \in RequestType
  BY DEF FlightInv, TypeOK
<1>1. CASE LoadAnswered(r)
  <2>1. Done(r) /\ r.kind = "load" /\ LoadPhoto(r, r.person.photo) /\ place = "open"
        /\ busy' = busy \ Flags(r) /\ UNCHANGED <<Kept, sent, edited, crossed>>
        /\ person' = r.person /\ form' = FormOf(r.person) /\ baseline' = form'
    BY <1>1 DEF LoadAnswered, Takes, Done, PatchPerson
  <2>2. PICK file \in File \cup {Nothing} : file = r.person.photo
    BY <1>0, <2>1 DEF LoadFirst, PersonType
  <2>3. PICK C \in SUBSET RequestType :
          /\ flight' = (flight \ {r}) \cup C
          /\ \A c, d \in C : c = d
          /\ \A c \in C : /\ c.n = r.n /\ c.kind = "content" /\ c.file = file
                          /\ c.answer = "none" /\ c.person = Nothing
    BY <1>0, <2>1, <2>2, Loading
  <2>4. photo' = Nothing /\ generation' = r.n
    BY <2>1 DEF LoadPhoto
  <2>5. AnsweredAs(r, C)
    BY <2>1, <2>2, <2>3, <2>4 DEF AnsweredAs, Kept
  <2>. QED
    BY <2>5
<1>2. CASE PhotoAnswered(r)
  <2>1. Done(r) /\ r.kind \in {"photo", "no_photo"} /\ LoadPhoto(r, r.file) /\ place = "open"
        /\ busy' = busy \ Flags(r) /\ UNCHANGED <<Kept, form, baseline, sent, edited, crossed>>
        /\ person' = [person EXCEPT !.photo = r.file] /\ r.file \in File \cup {Nothing}
    BY <1>0, <1>2 DEF PhotoAnswered, Takes, Done, RequestType
  <2>2. PICK C \in SUBSET RequestType :
          /\ flight' = (flight \ {r}) \cup C
          /\ \A c, d \in C : c = d
          /\ \A c \in C : /\ c.n = r.n /\ c.kind = "content" /\ c.file = r.file
                          /\ c.answer = "none" /\ c.person = Nothing
    BY <1>0, <2>1, Loading
  <2>3. photo' = Nothing /\ generation' = r.n
    BY <2>1 DEF LoadPhoto
  <2>4. AnsweredAs(r, C)
    BY <2>1, <2>2, <2>3 DEF AnsweredAs, Kept
  <2>. QED
    BY <2>4
<1>3. CASE SaveAnswered(r)
  <2>1. AnsweredAs(r, {})
    BY <1>3 DEF SaveAnswered, AnsweredAs, Takes, Done, PatchPerson, Kept
  <2>. QED
    BY <2>1
<1>4. CASE FilesAnswered(r)
  <2>1. AnsweredAs(r, {})
    BY <1>4 DEF FilesAnswered, AnsweredAs, Takes, Done, Kept
  <2>. QED
    BY <2>1
<1>5. CASE ContentAnswered(r)
  <2>1. AnsweredAs(r, {})
    BY <1>5 DEF ContentAnswered, AnsweredAs, Takes, Done, Kept
  <2>. QED
    BY <2>1
<1>6. CASE Failed(r)
  <2>1. AnsweredAs(r, {})
    BY <1>6 DEF Failed, AnsweredAs, Kept
  <2>. QED
    BY <2>1
<1>. QED
  BY <1>1, <1>2, <1>3, <1>4, <1>5, <1>6

----------------------------------------------------------------------------
(* The requests under way stay in order                                     *)

\* The kinds and flags of a request.
LEMMA FlagsOf == ASSUME NEW r \in RequestType
                 PROVE /\ Flags(r) = IF r.kind = "no_photo" THEN {"photo"} ELSE {r.kind}
                       /\ r.kind \in Kinds /\ Flags(r) \subseteq Kinds
                       /\ Kinds = {"load", "save", "delete", "content", "attach", "detach", "photo", "no_photo"}
                       /\ Flagged = {"load", "save", "delete", "attach", "photo", "no_photo"}
                       /\ r.kind \in Flagged <=> r.kind \notin {"content", "detach"}
                       /\ r.kind \in FileKinds <=> r.kind \in {"attach", "detach", "photo", "no_photo"}
  BY DEF Flags, RequestType, Kinds, FileKinds, Flagged

\* At first only the load is under way.
LEMMA InitFlight == Init => FlightInv
<1>. SUFFICES ASSUME Init PROVE FlightInv
  OBVIOUS
<1>. DEFINE r == Request(1, "load", Nothing)
<1>1. /\ r \in RequestType /\ r.n = 1 /\ r.kind = "load" /\ r.file = Nothing /\ r.answer = "none"
      /\ r.person = Nothing
  BY PageAssumption, RequestTyped DEF Kinds
<1>2. flight = {r} /\ stored = AtFirst /\ person = Nothing /\ form = EmptyForm /\ baseline = EmptyForm
      /\ busy = {"load"} /\ photo = Nothing /\ generation = 0 /\ sent = 1 /\ place = "open"
      /\ edits = 0 /\ edited = FALSE /\ unsure = {} /\ crossed = FALSE
  BY DEF Init
<1>3. EmptyForm \in FormType
  BY DEF EmptyForm, FormType
<1>. HIDE DEF r
<1>4. TypeOK
  <2>1. 1 \in 1 .. MaxSent /\ 0 \in 0 .. MaxSent /\ 0 \in 0 .. MaxEdits /\ AtFirst \in PersonType
    BY PageAssumption
  <2>2. flight \subseteq RequestType /\ \A q \in flight : q.kind \notin {"save", "attach"}
    BY <1>1, <1>2
  <2>. QED
    BY <1>2, <1>3, <2>1, <2>2 DEF TypeOK, Kinds
<1>5. Numbered /\ OneEach
  BY <1>1, <1>2, FlagsOf DEF Numbered, OneEach, Saves, Files
<1>6. LoadFirst /\ GoneByDeletion
  BY <1>1, <1>2, PageAssumption DEF LoadFirst, GoneByDeletion, Done
<1>. QED
  BY <1>4, <1>5, <1>6 DEF FlightInv

\* A request that is sent is the only one of its flag.
LEMMA SentFlight == ASSUME FlightInv, NEW r, SentAs(r) PROVE FlightInv'
<1>0. /\ TypeOK /\ Numbered /\ OneEach /\ LoadFirst /\ GoneByDeletion
      /\ r \in RequestType /\ flight \subseteq RequestType /\ MaxSent \in Nat /\ sent \in Nat
      /\ \A q \in flight : q \in RequestType /\ q.n \in Nat
      /\ Nothing \notin PersonType /\ Nothing \notin File
  BY PageAssumption DEF FlightInv, SentAs, TypeOK, RequestType
<1>1. /\ r.n = sent + 1 /\ r.answer = "none" /\ r.person = Nothing
      /\ place = "open" /\ flight' = flight \cup {r} /\ sent' = sent + 1 /\ sent' \in 1 .. MaxSent
      /\ crossed' = (crossed \/ \E a, b \in flight' : a.kind = "save" /\ b.kind \in FileKinds)
      /\ UNCHANGED <<stored, place, unsure, edits, person, form, baseline, photo, generation>>
      /\ r.kind = "load" <=> person = Nothing
      /\ r.kind # "detach" => Flags(r) \cap busy = {} /\ busy' = busy \cup Flags(r)
      /\ r.kind = "detach" => busy' = busy
  BY DEF SentAs
<1>2. TypeOK'
  <2>1. edited' \in BOOLEAN /\ crossed' \in BOOLEAN /\ busy' \subseteq Kinds
    BY <1>0, <1>1, FlagsOf DEF SentAs, TypeOK
  <2>2. /\ r.kind = "save" => r.n > 1 /\ r.form.text \in FieldText
        /\ r.kind = "attach" => r.file # Nothing
    <3>1. r.kind = "save" => r.n > 1 /\ r.form = form /\ form.text \in FieldText
      BY <1>0, <1>1 DEF SentAs, TypeOK
    <3>2. r.kind = "attach" => r.file = sent + 1 /\ sent + 1 \in File
      BY <1>0, <1>1 DEF SentAs, File, TypeOK
    <3>. QED
      BY <1>0, <3>1, <3>2
  <2>. QED
    BY <1>0, <1>1, <2>1, <2>2 DEF TypeOK
<1>3. Numbered'
  <2>1. \A q \in flight : q.n <= sent
    BY <1>0 DEF Numbered
  <2>2. ~crossed' => Saves' = {} \/ Files' = {}
    BY <1>1 DEF Saves, Files
  <2>. QED
    BY <1>0, <1>1, <2>1, <2>2 DEF Numbered
<1>4. OneEach'
  <2>1. \A q \in flight : q.kind \in Flagged /\ r.kind \in Flagged => Flags(q) # Flags(r)
    BY <1>0, <1>1, FlagsOf DEF OneEach
  <2>2. r.kind = "save" => \A q \in flight : q.kind # "delete"
    BY <1>0, FlagsOf DEF OneEach, SentAs
  <2>3. r.kind = "delete" => \A q \in flight : q.kind # "save"
    BY <1>0, FlagsOf DEF OneEach, SentAs
  <2>4. \A q \in flight' : q.kind \in Flagged => Flags(q) \subseteq busy'
    BY <1>0, <1>1, FlagsOf DEF OneEach
  <2>. QED
    BY <1>0, <1>1, <2>1, <2>2, <2>3, <2>4 DEF OneEach
<1>5. LoadFirst'
  BY <1>0, <1>1, FlagsOf DEF LoadFirst, Done
<1>6. GoneByDeletion'
  BY <1>0, <1>1 DEF GoneByDeletion
<1>. QED
  BY <1>2, <1>3, <1>4, <1>5, <1>6 DEF FlightInv

\* A request keeps its number, its kind and its flag when it is served.
LEMMA ServedFlight == ASSUME FlightInv, NEW r, NEW s, ServedAs(r, s) PROVE FlightInv'
<1>0. /\ TypeOK /\ Numbered /\ OneEach /\ LoadFirst /\ GoneByDeletion
      /\ flight \subseteq RequestType /\ Nothing \notin PersonType /\ AtFirst \in PersonType
      /\ r \in flight /\ r \in RequestType
  BY PageAssumption DEF FlightInv, ServedAs, TypeOK
<1>1. /\ r.answer = "none"
      /\ s \in RequestType /\ s.n = r.n /\ s.kind = r.kind /\ s.file = r.file /\ s.form = r.form
      /\ flight' = (flight \ {r}) \cup {s}
      /\ \/ Refuses(r) /\ s.answer = "refused" /\ s.person = r.person /\ stored' = stored
         \/ ~Refuses(r) /\ s.answer = "done" /\ s.person = stored' /\ stored' = Carried(r)
      /\ stored' \in PersonType \cup {Nothing}
      /\ UNCHANGED <<person, form, baseline, busy, photo, generation, sent, place, edits, edited, unsure, crossed>>
  BY DEF ServedAs
<1>2. Flags(s) = Flags(r) /\ r.kind \in Kinds
  BY <1>0, <1>1, FlagsOf
<1>3. TypeOK'
  BY <1>0, <1>1 DEF TypeOK
<1>4. Numbered'
  <2>1. ~crossed => Saves' = {} \/ Files' = {}
    BY <1>0, <1>1 DEF Numbered, Saves, Files
  <2>. QED
    BY <1>0, <1>1, <2>1 DEF Numbered
<1>5. OneEach'
  BY <1>0, <1>1, <1>2 DEF OneEach
<1>6. LoadFirst'
  <2>1. CASE person = Nothing
    <3>1. r.kind = "load" /\ stored = AtFirst
      BY <1>0, <2>1 DEF LoadFirst
    <3>2. ~Refuses(r)
      BY <1>0, <3>1 DEF Refuses
    <3>3. stored' = AtFirst /\ s.answer = "done" /\ s.person = AtFirst
      BY <1>1, <3>1, <3>2 DEF Carried
    <3>. QED
      BY <1>0, <1>1, <2>1, <3>1, <3>3 DEF LoadFirst, Done
  <2>2. CASE person # Nothing
    <3>1. s.answer = "done" => s.person \in PersonType \/ s.kind = "delete"
      <4>1. Refuses(r) \/ stored \in PersonType
        BY <1>0 DEF Refuses, TypeOK
      <4>2. s.answer = "done" /\ s.kind # "delete" => stored' \in PersonType
        BY <1>0, <1>1, <4>1, CarriedTyped
      <4>. QED
        BY <1>1, <4>2
    <3>2. s.kind # "load"
      BY <1>0, <1>1, <2>2, FlagsOf DEF LoadFirst, OneEach
    <3>. QED
      BY <1>0, <1>1, <2>2, <3>1, <3>2 DEF LoadFirst, Done
  <2>. QED
    BY <2>1, <2>2
<1>7. GoneByDeletion'
  <2>. SUFFICES ASSUME place = "open", "delete" \notin unsure, stored' = Nothing
                PROVE \E q \in flight' : q.kind = "delete" /\ Done(q)
    BY <1>1 DEF GoneByDeletion
  <2>1. CASE stored = Nothing
    <3>1. PICK d \in flight : d.kind = "delete" /\ Done(d)
      BY <1>0, <2>1 DEF GoneByDeletion
    <3>2. d # r
      BY <1>1, <3>1 DEF Done
    <3>. QED
      BY <1>1, <3>1, <3>2
  <2>2. CASE stored # Nothing
    <3>1. s.answer = "done" /\ stored' = Carried(r)
      BY <1>1, <2>2
    <3>2. s.kind = "delete"
      BY <1>0, <1>1, <2>2, <3>1, CarriedTyped DEF TypeOK
    <3>. QED
      BY <1>1, <3>1, <3>2 DEF Done
  <2>. QED
    BY <2>1, <2>2
<1>. QED
  BY <1>3, <1>4, <1>5, <1>6, <1>7 DEF FlightInv

\* The person of an answer is the one the page has next.
LEMMA AnsweredTyped == ASSUME FlightInv, NEW r, NEW C, AnsweredAs(r, C)
                       PROVE /\ person' \in PersonType \cup {Nothing}
                             /\ person # Nothing => person' # Nothing
                             /\ r.kind # "load" /\ Done(r) => person # Nothing
                             /\ person = Nothing /\ person' # Nothing =>
                                  r.kind = "load" /\ person' = AtFirst /\ flight = {r}
<1>0. /\ TypeOK /\ OneEach /\ LoadFirst /\ r \in flight /\ r \in RequestType /\ flight \subseteq RequestType
      /\ Nothing \notin PersonType
  BY PageAssumption DEF FlightInv, TypeOK, AnsweredAs
<1>1. r.kind # "load" => person # Nothing
  BY <1>0 DEF LoadFirst
<1>2. person = Nothing => flight = {r}
  <2>. SUFFICES ASSUME person = Nothing, NEW q \in flight PROVE q = r
    BY <1>0
  <2>1. q.kind = "load" /\ r.kind = "load" /\ q \in RequestType
    BY <1>0 DEF LoadFirst
  <2>. QED
    BY <1>0, <2>1, FlagsOf DEF OneEach
<1>3. CASE r.kind \in {"load", "save"} /\ Done(r) /\ person' = r.person
  <2>1. r.person \in PersonType
    BY <1>0, <1>3 DEF LoadFirst
  <2>2. person = Nothing => r.person = AtFirst
    BY <1>0, <1>3 DEF LoadFirst
  <2>. QED
    BY <1>0, <1>1, <1>2, <1>3, <2>1, <2>2
<1>4. CASE r.kind \in {"attach", "detach"}
           /\ person' = [person EXCEPT !.files = IF r.kind = "attach" THEN @ \cup {r.file} ELSE @ \ {r.file}]
  <2>1. person \in PersonType /\ (r.kind = "attach" => r.file \in File)
    BY <1>0, <1>1, <1>4 DEF TypeOK, RequestType
  <2>2. person' \in PersonType
    BY <1>4, <2>1 DEF PersonType
  <2>. QED
    BY <1>0, <1>1, <1>4, <2>2
<1>5. CASE r.kind \in {"photo", "no_photo"} /\ person' = [person EXCEPT !.photo = r.file]
  <2>1. person \in PersonType /\ r.file \in File \cup {Nothing}
    BY <1>0, <1>1, <1>5 DEF TypeOK, RequestType
  <2>2. person' \in PersonType
    BY <1>5, <2>1 DEF PersonType
  <2>. QED
    BY <1>0, <1>1, <1>5, <2>2
<1>6. CASE person' = person
  BY <1>0, <1>1, <1>6 DEF TypeOK
<1>. QED
  BY <1>3, <1>4, <1>5, <1>6 DEF AnsweredAs

\* An answer takes its request away, and leaves at most a content request in its place.
LEMMA AnsweredFlight == ASSUME FlightInv, NEW r, NEW C, AnsweredAs(r, C) PROVE FlightInv'
<1>0. /\ TypeOK /\ Numbered /\ OneEach /\ LoadFirst /\ GoneByDeletion
      /\ flight \subseteq RequestType /\ r \in flight /\ r \in RequestType /\ Nothing \notin PersonType
      /\ C \subseteq RequestType
  BY PageAssumption DEF FlightInv, TypeOK, AnsweredAs
<1>1. /\ place = "open" /\ flight' = (flight \ {r}) \cup C
      /\ \A c, d \in C : c = d
      /\ \A c \in C : c.n = r.n /\ c.kind = "content" /\ c.answer = "none" /\ c.person = Nothing
      /\ busy \ Flags(r) \subseteq busy' /\ busy' \subseteq busy
      /\ UNCHANGED <<stored, place, sent, edits, edited, crossed>>
  BY DEF AnsweredAs
<1>2. /\ person' \in PersonType \cup {Nothing}
      /\ person # Nothing => person' # Nothing
      /\ r.kind # "load" /\ Done(r) => person # Nothing
      /\ person = Nothing /\ person' # Nothing => r.kind = "load" /\ person' = AtFirst /\ flight = {r}
  BY AnsweredTyped
<1>3. TypeOK'
  <2>1. form' \in FormType /\ baseline' \in FormType /\ (person' # Nothing => form'.text \in FieldText)
    <3>1. CASE r.kind \in {"load", "save"} /\ Done(r) /\ form' = FormOf(r.person) /\ baseline' = form'
      <4>1. r.person \in PersonType
        BY <1>0, <3>1 DEF LoadFirst
      <4>2. FormOf(r.person) \in FormType /\ FormOf(r.person).text \in FieldText
        BY <4>1 DEF FormOf, FormType, PersonType
      <4>. QED
        BY <3>1, <4>2
    <3>2. CASE UNCHANGED <<form, baseline>> /\ (person = Nothing => person' = Nothing)
      BY <1>0, <3>2 DEF TypeOK
    <3>. QED
      BY <1>0, <1>2, <3>1, <3>2 DEF AnsweredAs, Done
  <2>2. photo' \in File \cup {Nothing}
    BY <1>0 DEF AnsweredAs, TypeOK, RequestType
  <2>3. generation' \in 0 .. MaxSent
    <3>1. r.n \in 0 .. MaxSent /\ generation \in 0 .. MaxSent /\ generation' \in {r.n, generation}
      BY <1>0, PageAssumption DEF AnsweredAs, TypeOK, RequestType
    <3>. QED
      BY <3>1
  <2>4. unsure' \subseteq Kinds
    <3>1. unsure \subseteq Kinds /\ r.kind \in Kinds
      BY <1>0, FlagsOf DEF TypeOK
    <3>. QED
      BY <3>1 DEF AnsweredAs
  <2>. QED
    BY <1>0, <1>1, <1>2, <2>1, <2>2, <2>3, <2>4 DEF TypeOK
<1>4. Numbered'
  <2>1. ~crossed => Saves' = {} \/ Files' = {}
    BY <1>0, <1>1, FlagsOf DEF Numbered, Saves, Files
  <2>. QED
    BY <1>0, <1>1, <2>1 DEF Numbered
<1>5. OneEach'
  <2>1. \A q \in flight' : q.kind \in Flagged => q \in flight /\ q # r
    BY <1>0, <1>1, FlagsOf
  <2>2. \A q \in flight \ {r} : q.kind \in Flagged => Flags(q) \subseteq busy'
    <3>. SUFFICES ASSUME NEW q \in flight \ {r}, q.kind \in Flagged PROVE Flags(q) \subseteq busy'
      OBVIOUS
    <3>1. q \in RequestType /\ Flags(q) \subseteq busy /\ (r.kind \in Flagged => Flags(q) # Flags(r))
      BY <1>0 DEF OneEach
    <3>2. Flags(q) \cap Flags(r) = {}
      BY <1>0, <3>1, FlagsOf
    <3>. QED
      BY <1>1, <3>1, <3>2
  <2>3. \A a, b \in flight' : a.kind = "save" => b.kind # "delete"
    BY <1>0, <1>1 DEF OneEach
  <2>. QED
    BY <1>0, <2>1, <2>2, <2>3 DEF OneEach
<1>6. LoadFirst'
  <2>1. CASE person' = Nothing
    <3>1. person = Nothing /\ flight' = flight \ {r}
      BY <1>0, <1>1, <1>2, <2>1 DEF AnsweredAs, Done, LoadFirst
    <3>2. form' = form /\ baseline' = baseline /\ photo' = photo
      BY <1>0, <1>2, <2>1, <3>1 DEF AnsweredAs, Done, LoadFirst
    <3>. QED
      BY <1>0, <1>1, <2>1, <3>1, <3>2 DEF LoadFirst, Done
  <2>2. CASE person' # Nothing
    <3>1. "load" \notin busy'
      <4>1. CASE person = Nothing
        <5>1. r.kind = "load" /\ Flags(r) = {"load"}
          BY <1>0, <1>2, <2>2, <4>1, FlagsOf
        <5>. QED
          BY <1>0, <2>2, <4>1, <5>1 DEF AnsweredAs
      <4>2. CASE person # Nothing
        BY <1>0, <1>1, <4>2 DEF LoadFirst
      <4>. QED
        BY <4>1, <4>2
    <3>. QED
      BY <1>0, <1>1, <2>2, <3>1 DEF LoadFirst, Done
  <2>. QED
    BY <2>1, <2>2
<1>7. GoneByDeletion'
  <2>. SUFFICES ASSUME "delete" \notin unsure', stored = Nothing
                PROVE \E q \in flight' : q.kind = "delete" /\ Done(q)
    BY <1>1 DEF GoneByDeletion
  <2>1. "delete" \notin unsure /\ ~(r.kind = "delete" /\ Done(r))
    BY DEF AnsweredAs, Done
  <2>2. PICK d \in flight : d.kind = "delete" /\ Done(d)
    BY <1>0, <1>1, <2>1 DEF GoneByDeletion
  <2>. QED
    BY <1>1, <2>1, <2>2
<1>. QED
  BY <1>3, <1>4, <1>5, <1>6, <1>7 DEF FlightInv

\* The ways to edit the relationships of the form: to add one, to change one and to take one out.
Adds(id, to) ==
  id \in NewId \ Ids(form.rows) /\ to \in Person
    /\ form' = [form EXCEPT !.rows = @ \cup {[id |-> id, to |-> to, note |-> Unsaid]}]
Changes(row, to, note) ==
  row \in form.rows /\ to \in Person /\ note \in FieldText
    /\ form' = [form EXCEPT !.rows = (@ \ {row}) \cup {[id |-> row.id, to |-> to, note |-> note]}]
TakesOut(row) ==
  row \in form.rows
    /\ form' = [form EXCEPT !.rows = @ \ {row}, !.deleted = @ \cup ({row.id} \ NewId)]

\* An edit is one of these, or of the text.
LEMMA Edits == ASSUME Edit
               PROVE \/ \E text \in FieldText : form' = [form EXCEPT !.text = text]
                     \/ \E id, to : Adds(id, to)
                     \/ \E row, to, note : Changes(row, to, note)
                     \/ \E row : TakesOut(row)
<1>1. CASE \E text \in FieldText \ {form.text} : form' = [form EXCEPT !.text = text]
  BY <1>1
<1>2. ASSUME NEW id \in NewId \ Ids(form.rows), NEW to \in Person,
             form' = [form EXCEPT !.rows = @ \cup {[id |-> id, to |-> to, note |-> Unsaid]}]
      PROVE Adds(id, to)
  BY <1>2 DEF Adds
<1>3. ASSUME NEW row \in form.rows, NEW to \in Person, NEW note \in FieldText,
             form' = [form EXCEPT !.rows = (@ \ {row}) \cup {[id |-> row.id, to |-> to, note |-> note]}]
      PROVE Changes(row, to, note)
  BY <1>3 DEF Changes
<1>4. ASSUME NEW row \in form.rows,
             form' = [form EXCEPT !.rows = @ \ {row}, !.deleted = @ \cup ({row.id} \ NewId)]
      PROVE TakesOut(row)
  BY <1>4 DEF TakesOut
<1>. QED
  BY <1>1, <1>2, <1>3, <1>4 DEF Edit

\* What an edit leaves alone.
LEMMA Editing == ASSUME TypeOK, Edit
                 PROVE /\ person # Nothing /\ place = "open" /\ form' \in FormType /\ form'.text \in FieldText
                       /\ edited' = TRUE /\ edits' \in 0 .. MaxEdits
                       /\ UNCHANGED <<stored, place, unsure, person, baseline, busy, photo, generation, flight,
                                      sent, crossed>>
<1>1. /\ Shown /\ edited' = TRUE /\ edits < MaxEdits /\ edits' = edits + 1
      /\ UNCHANGED <<stored, place, unsure, person, baseline, busy, photo, generation, flight, sent, crossed>>
  BY DEF Edit
<1>2. /\ form \in FormType /\ person # Nothing /\ form.text \in FieldText /\ place = "open"
      /\ edits \in 0 .. MaxEdits /\ MaxEdits \in Nat /\ Unsaid \in FieldText
  BY <1>1, PageAssumption DEF TypeOK, Shown
<1>3. CASE \E text \in FieldText : form' = [form EXCEPT !.text = text]
  BY <1>1, <1>2, <1>3 DEF FormType
<1>4. ASSUME NEW id, NEW to, Adds(id, to) PROVE form' \in FormType /\ form'.text \in FieldText
  <2>1. [id |-> id, to |-> to, note |-> Unsaid] \in Row
    BY <1>2, <1>4 DEF Adds, Row
  <2>. QED
    BY <1>2, <1>4, <2>1 DEF Adds, FormType
<1>5. ASSUME NEW row, NEW to, NEW note, Changes(row, to, note)
      PROVE form' \in FormType /\ form'.text \in FieldText
  <2>1. row \in Row
    BY <1>2, <1>5 DEF Changes, FormType
  <2>2. [id |-> row.id, to |-> to, note |-> note] \in Row
    BY <1>5, <2>1 DEF Changes, Row
  <2>. QED
    BY <1>2, <1>5, <2>2 DEF Changes, FormType
<1>6. ASSUME NEW row, TakesOut(row) PROVE form' \in FormType /\ form'.text \in FieldText
  <2>1. row \in Row
    BY <1>2, <1>6 DEF TakesOut, FormType
  <2>2. {row.id} \ NewId \subseteq RowId
    BY <2>1 DEF Row
  <2>. QED
    BY <1>2, <1>6, <2>2 DEF TakesOut, FormType
<1>7. form' \in FormType /\ form'.text \in FieldText
  BY <1>2, <1>3, <1>4, <1>5, <1>6, Edits DEF FormType
<1>. QED
  BY <1>1, <1>2, <1>7

\* An edit sends nothing.
LEMMA EditedFlight == ASSUME FlightInv, Edit PROVE FlightInv'
<1>1. /\ person # Nothing /\ place = "open" /\ form' \in FormType /\ form'.text \in FieldText
      /\ edited' = TRUE /\ edits' \in 0 .. MaxEdits
      /\ UNCHANGED <<stored, place, unsure, person, baseline, busy, photo, generation, flight, sent, crossed>>
  BY Editing DEF FlightInv
<1>2. TypeOK'
  BY <1>1 DEF FlightInv, TypeOK
<1>3. Numbered' /\ OneEach'
  BY <1>1 DEF FlightInv, Numbered, OneEach, Saves, Files
<1>4. LoadFirst' /\ GoneByDeletion'
  BY <1>1 DEF FlightInv, LoadFirst, GoneByDeletion
<1>. QED
  BY <1>2, <1>3, <1>4 DEF FlightInv

\* The page is closed: nobody waits for an answer.
Closed ==
  /\ place' \in {"left", "left_asked", "deleted"} /\ flight' = {}
  /\ baseline' \in {baseline, form} /\ (person = Nothing => baseline' = baseline)
  /\ UNCHANGED <<stored, person, form, busy, photo, generation, sent, edits, edited, unsure, crossed>>

\* It is closed by being left and by the deletion.
LEMMA Closing == ASSUME FlightInv, Leave \/ \E r \in flight : DeleteAnswered(r) PROVE Closed
<1>1. CASE Leave
  BY <1>1 DEF Leave, Closed
<1>2. CASE \E r \in flight : DeleteAnswered(r)
  <2>1. PICK r \in flight : DeleteAnswered(r)
    BY <1>2
  <2>2. person # Nothing
    BY <2>1 DEF FlightInv, LoadFirst, DeleteAnswered, Takes
  <2>. QED
    BY <2>1, <2>2 DEF DeleteAnswered, Closed
<1>. QED
  BY <1>1, <1>2

\* Nothing is under way once the page is closed.
LEMMA ClosedFlight == ASSUME FlightInv, Closed PROVE FlightInv'
<1>1. TypeOK'
  BY DEF FlightInv, TypeOK, Closed
<1>2. Numbered' /\ OneEach'
  <2>1. sent \in Nat /\ flight' = {} /\ Saves' = {}
    BY DEF FlightInv, TypeOK, Closed, Saves
  <2>. QED
    BY <2>1 DEF Numbered, OneEach
<1>3. LoadFirst' /\ GoneByDeletion'
  BY DEF FlightInv, LoadFirst, GoneByDeletion, Closed
<1>. QED
  BY <1>1, <1>2, <1>3 DEF FlightInv

\* The steps, by what they do to the requests.
LEMMA Steps == ASSUME FlightInv, [Next]_vars
               PROVE \/ Edit \/ Closed \/ UNCHANGED vars
                     \/ \E r : SentAs(r)
                     \/ \E r, s : ServedAs(r, s)
                     \/ \E r, C : AnsweredAs(r, C)
<1>1. CASE SavePerson \/ DeletePerson \/ ChangeFiles \/ DeletePhoto \/ LoadPerson
  BY <1>1, Sending DEF FlightInv
<1>2. CASE Leave \/ \E r \in flight : DeleteAnswered(r)
  BY <1>2, Closing
<1>3. CASE \E r \in flight : Serve(r)
  BY <1>3, Serving DEF FlightInv
<1>4. CASE \E r \in flight :
             \/ LoadAnswered(r) \/ SaveAnswered(r) \/ FilesAnswered(r) \/ PhotoAnswered(r)
             \/ ContentAnswered(r) \/ Failed(r)
  BY <1>4, Answering
<1>5. CASE Edit \/ UNCHANGED vars
  BY <1>5
<1>. QED
  BY <1>1, <1>2, <1>3, <1>4, <1>5 DEF Next

\* The invariant of the requests is inductive.
LEMMA FlightStep == ASSUME FlightInv, [Next]_vars PROVE FlightInv'
<1>1. CASE UNCHANGED vars
  BY <1>1 DEF vars, FlightInv, TypeOK, Numbered, OneEach, LoadFirst, GoneByDeletion, Saves, Files
<1>. QED
  BY <1>1, Steps, EditedFlight, ClosedFlight, SentFlight, ServedFlight, AnsweredFlight

----------------------------------------------------------------------------
(* The form and the person stored stay in step                              *)

\* Ids that are given are none of those stored at first, and none of rows to be saved.
LEMMA GivenIds == ASSUME NEW n \in 2 .. MaxSent, NEW id \in {n} \X (1 .. MaxNew)
                  PROVE /\ id \in (2 .. MaxSent) \X (1 .. MaxNew) /\ id[1] = n
                        /\ id \notin NewId
                        /\ id \notin {row.id : row \in AtFirst.relations}
<1>1. id[1] = n /\ n # 0 /\ n # 1
  BY PageAssumption
<1>2. \A row \in AtFirst.relations : row.id[1] = 1
  BY PageAssumption
<1>3. \A new \in NewId : new[1] = 0
  BY DEF NewId
<1>. QED
  BY <1>1, <1>2, <1>3

\* The person stored at first has good rows.
LEMMA BeforeRows == ASSUME NEW n \in 1 .. MaxSent PROVE RowsOf(AtFirst, n)
<1>1. \A row \in AtFirst.relations : row.id \notin NewId
  <2>1. \A row \in AtFirst.relations : row.id[1] = 1
    BY PageAssumption
  <2>2. \A new \in NewId : new[1] = 0
    BY DEF NewId
  <2>. QED
    BY <2>1, <2>2
<1>2. ~PairTwice(AtFirst.relations)
  BY PageAssumption DEF PairTwice
<1>. QED
  BY <1>1, <1>2, PageAssumption DEF RowsOf

\* A person of whom a request changes no row keeps good rows; ids that can be given grow.
LEMMA RowsKept == ASSUME NEW p, NEW q, p.relations = q.relations,
                         NEW m \in 1 .. MaxSent, NEW n \in 1 .. MaxSent, m <= n, RowsOf(p, m)
                  PROVE RowsOf(q, n)
<1>1. (2 .. m) \X (1 .. MaxNew) \subseteq (2 .. n) \X (1 .. MaxNew)
  BY PageAssumption
<1>. QED
  BY <1>1 DEF RowsOf

\* The rows that a save leaves are good.
LEMMA RowsChanged == ASSUME TypeOK, NEW r \in RequestType, r.n > 1, r.n <= sent, stored \in PersonType,
                            RowsOf(stored, sent), ~SaveRefused(r),
                            \A a, b \in r.form.rows : a.id = b.id => a = b,
                            \A a \in stored.relations :
                              a.id \in (2 .. MaxSent) \X (1 .. MaxNew) => a.id[1] # r.n,
                            NEW p, p.relations = Changed(r)
                     PROVE RowsOf(p, sent)
<1>. DEFINE Rest == {row \in stored.relations : row.id \notin r.form.deleted \cup Ids(r.form.rows)}
            U == Updated(r.form.rows)
            G == Created(r)
<1>0. p.relations = Rest \cup U \cup G
  BY DEF Changed
<1>1. r.n \in 2 .. MaxSent /\ r.n \in 2 .. sent /\ sent \in 1 .. MaxSent
  BY PageAssumption DEF RequestType, TypeOK
<1>2. /\ \A g \in G : g.id \in {r.n} \X (1 .. MaxNew)
      /\ \A u \in U : u.id \notin NewId /\ u \in r.form.rows
  BY CreatedTyped DEF Updated
<1>3. \A k \in Rest : k \in stored.relations /\ k.id \notin Ids(r.form.rows)
  OBVIOUS
<1>4. \A u \in U : u.id \in Ids(stored.relations) /\ u.id \in Ids(r.form.rows)
  BY DEF SaveRefused, Ids, Updated
<1>5. \A g \in G : /\ g.id \notin NewId /\ g.id \notin Ids(stored.relations)
                   /\ g.id \in (2 .. sent) \X (1 .. MaxNew)
  <2>. SUFFICES ASSUME NEW g \in G
                PROVE /\ g.id \notin NewId /\ g.id \notin Ids(stored.relations)
                      /\ g.id \in (2 .. sent) \X (1 .. MaxNew)
    OBVIOUS
  <2>1. g.id \in (2 .. MaxSent) \X (1 .. MaxNew) /\ g.id[1] = r.n /\ g.id \notin NewId
    BY <1>1, <1>2, GivenIds
  <2>2. \A a \in stored.relations : a.id # g.id
    BY <2>1
  <2>. QED
    BY <1>1, <1>2, <2>1, <2>2 DEF Ids
\* Each of the rows that are asked for is the trace of one row of the form.
<1>6. \A g \in G : \E row \in Added(r.form.rows) :
        g = [id |-> <<r.n, row.id[2]>>, to |-> row.to, note |-> row.note]
  BY DEF Created
<1>7. \A row \in Added(r.form.rows) : row \in r.form.rows /\ row.id = <<0, row.id[2]>> /\ row \notin U
  BY DEF Added, Updated, NewId
<1>8. \A g, h \in G : g.id = h.id \/ g.to = h.to => g = h
  <2>. SUFFICES ASSUME NEW g \in G, NEW h \in G, g.id = h.id \/ g.to = h.to PROVE g = h
    OBVIOUS
  <2>1. PICK a \in Added(r.form.rows) : g = [id |-> <<r.n, a.id[2]>>, to |-> a.to, note |-> a.note]
    BY <1>6
  <2>2. PICK b \in Added(r.form.rows) : h = [id |-> <<r.n, b.id[2]>>, to |-> b.to, note |-> b.note]
    BY <1>6
  <2>3. CASE g.id = h.id
    <3>1. a.id[2] = b.id[2]
      BY <2>1, <2>2, <2>3
    <3>2. a.id = b.id
      BY <1>7, <3>1
    <3>. QED
      BY <1>7, <2>1, <2>2, <3>2
  <2>4. CASE g.to = h.to
    <3>1. a = b
      BY <1>7, <2>1, <2>2, <2>4 DEF SaveRefused, PairTwice
    <3>. QED
      BY <2>1, <2>2, <3>1
  <2>. QED
    BY <2>3, <2>4
<1>9. \A a, b \in p.relations : a.id = b.id => a = b
  <2>. HIDE DEF Rest, U, G
  <2>1. \A a, b \in stored.relations : a.id = b.id => a = b
    BY DEF RowsOf
  <2>2. \A k \in Rest : k.id \in Ids(stored.relations)
    BY <1>3 DEF Ids
  <2>. QED
    BY <1>0, <1>2, <1>3, <1>4, <1>5, <1>8, <2>1, <2>2
<1>10. \A a \in p.relations :
         /\ a.id \notin NewId
         /\ a.id \in {row.id : row \in AtFirst.relations} \/ a.id \in (2 .. sent) \X (1 .. MaxNew)
  <2>. HIDE DEF Rest, U, G
  <2>1. \A id \in Ids(stored.relations) :
          /\ id \notin NewId
          /\ id \in {row.id : row \in AtFirst.relations} \/ id \in (2 .. sent) \X (1 .. MaxNew)
    BY DEF RowsOf, Ids
  <2>2. \A k \in Rest : k.id \in Ids(stored.relations)
    BY <1>3 DEF Ids
  <2>. QED
    BY <1>0, <1>4, <1>5, <2>1, <2>2
<1>11. ~PairTwice(p.relations)
  <2>. SUFFICES ASSUME NEW a \in p.relations, NEW b \in p.relations, a.to = b.to PROVE a = b
    BY DEF PairTwice
  <2>1. ASSUME NEW k \in Rest, NEW row \in r.form.rows, k.to = row.to PROVE FALSE
    <3>1. k.id # row.id /\ k.id \notin Ids(r.form.rows)
      BY DEF Ids
    <3>. QED
      BY <2>1, <3>1 DEF SaveRefused, PairHeld
  <2>2. \A g \in G : \E row \in r.form.rows : row.to = g.to /\ row \notin U
    <3>. SUFFICES ASSUME NEW g \in G PROVE \E row \in r.form.rows : row.to = g.to /\ row \notin U
      OBVIOUS
    <3>1. PICK row \in Added(r.form.rows) : g = [id |-> <<r.n, row.id[2]>>, to |-> row.to, note |-> row.note]
      BY <1>6
    <3>. QED
      BY <1>7, <3>1
  <2>3. \A x, y \in r.form.rows : x.to = y.to => x = y
    BY DEF SaveRefused, PairTwice
  <2>4. \A x, y \in stored.relations : x.to = y.to => x = y
    BY DEF RowsOf, PairTwice
  <2>. HIDE DEF Rest, U, G
  <2>5. CASE a \in Rest
    <3>1. b \in Rest
      BY <1>0, <1>2, <2>1, <2>2, <2>5
    <3>. QED
      BY <1>3, <2>4, <2>5, <3>1
  <2>6. CASE a \in U
    <3>1. b \in U
      BY <1>0, <1>2, <2>1, <2>2, <2>3, <2>6
    <3>. QED
      BY <1>2, <2>3, <2>6, <3>1
  <2>7. CASE a \in G
    <3>1. b \in G
      BY <1>0, <1>2, <2>1, <2>2, <2>3, <2>7
    <3>. QED
      BY <1>8, <2>7, <3>1
  <2>. QED
    BY <1>0, <2>5, <2>6, <2>7
<1>. QED
  BY <1>9, <1>10, <1>11 DEF RowsOf

\* One save is under way at a time, without a deletion or a load.
LEMMA OneSave == ASSUME FlightInv, NEW r \in flight, r.kind = "save"
                 PROVE \A q \in flight : /\ q.kind = "save" => q = r
                                         /\ q.kind \notin {"delete", "load"}
                                         /\ person # Nothing
<1>0. OneEach /\ LoadFirst /\ flight \subseteq RequestType
  BY DEF FlightInv, TypeOK
<1>1. person # Nothing /\ "load" \notin busy
  BY <1>0 DEF LoadFirst
<1>2. ASSUME NEW q \in flight, q.kind = "save" PROVE q = r
  BY <1>0, <1>2, FlagsOf DEF OneEach
<1>3. ASSUME NEW q \in flight, q.kind = "load" PROVE FALSE
  BY <1>0, <1>1, <1>3, FlagsOf DEF OneEach
<1>. QED
  BY <1>0, <1>1, <1>2, <1>3 DEF OneEach

\* The person an answer leaves on the page, its rows and its text.
LEMMA AnsweredRows == ASSUME FlightInv, NEW r, NEW C, AnsweredAs(r, C), person' # Nothing
                      PROVE \/ /\ r.kind \in {"load", "save"} /\ Done(r) /\ person' = r.person
                               /\ form' = FormOf(person') /\ baseline' = form'
                            \/ /\ person # Nothing
                               /\ person'.relations = person.relations /\ person'.text = person.text
                               /\ UNCHANGED <<form, baseline>>
                               /\ r.kind = "save" => ~Done(r) \/ "save" \in unsure'
<1>0. person \in PersonType \cup {Nothing} /\ (r.kind # "load" /\ Done(r) => person # Nothing)
  BY AnsweredTyped DEF FlightInv, TypeOK
<1>1. person = Nothing /\ person' # Nothing => r.kind = "load" /\ person' = AtFirst
  BY AnsweredTyped
<1>3. CASE r.kind \in {"load", "save"} /\ Done(r) /\ person' = r.person
           /\ form' = FormOf(r.person) /\ baseline' = form'
  BY <1>3
<1>4. CASE /\ r.kind \in {"attach", "detach"} /\ Done(r)
           /\ person' = [person EXCEPT !.files = IF r.kind = "attach" THEN @ \cup {r.file} ELSE @ \ {r.file}]
           /\ UNCHANGED <<form, baseline>>
  <2>1. person \in PersonType /\ person # Nothing
    BY <1>0, <1>4
  <2>. QED
    BY <1>4, <2>1 DEF PersonType
<1>5. CASE /\ r.kind \in {"photo", "no_photo"} /\ Done(r)
           /\ person' = [person EXCEPT !.photo = r.file]
           /\ UNCHANGED <<form, baseline>>
  <2>1. person \in PersonType /\ person # Nothing
    BY <1>0, <1>5
  <2>. QED
    BY <1>5, <2>1 DEF PersonType
<1>6. CASE r.kind = "content" /\ UNCHANGED <<person, form, baseline>>
  BY <1>6
<1>7. CASE /\ unsure' = unsure \cup {kind \in {r.kind} \ {"load", "content"} : r.answer = "done"}
           /\ UNCHANGED <<person, form, baseline>>
  <2>1. r.kind = "save" => ~Done(r) \/ "save" \in unsure'
    BY <1>7 DEF Done
  <2>. QED
    BY <1>7, <2>1
<1>. QED
  BY <1>3, <1>4, <1>5, <1>6, <1>7 DEF AnsweredAs

\* What a request leaves of the person: only a save changes text or rows.
LEMMA ServedRows == ASSUME FlightInv, NEW r, NEW s, ServedAs(r, s)
                    PROVE \/ /\ s.answer = "refused" /\ Refuses(r) /\ stored' = stored
                          \/ /\ s.answer = "done" /\ r.kind = "delete" /\ stored' = Nothing
                          \/ /\ s.answer = "done" /\ r.kind \notin {"save", "delete"} /\ ~Refuses(r)
                             /\ stored \in PersonType /\ stored' \in PersonType /\ s.person = stored'
                             /\ stored'.relations = stored.relations /\ stored'.text = stored.text
                          \/ /\ s.answer = "done" /\ r.kind = "save" /\ ~Refuses(r)
                             /\ stored \in PersonType /\ stored' \in PersonType /\ s.person = stored'
                             /\ stored'.relations = Changed(r) /\ stored'.text = r.form.text
                             /\ stored'.files = stored.files /\ stored'.photo = stored.photo
<1>1. CASE Refuses(r) /\ s.answer = "refused" /\ stored' = stored
  BY <1>1
<1>2. CASE ~Refuses(r) /\ s.answer = "done" /\ s.person = stored' /\ stored' = Carried(r)
  <2>1. stored \in PersonType /\ r \in flight /\ r \in RequestType
    BY <1>2 DEF FlightInv, TypeOK, Refuses, ServedAs
  <2>2. r.kind # "delete" => stored' \in PersonType
    BY <1>2, <2>1, CarriedTyped DEF FlightInv
  <2>3. CASE r.kind = "save"
    <3>1. stored' = [stored EXCEPT !.text = r.form.text, !.relations = Changed(r)]
      BY <1>2, <2>3 DEF Carried
    <3>. QED
      BY <1>2, <2>1, <2>2, <2>3, <3>1 DEF PersonType
  <2>4. CASE r.kind = "delete"
    BY <1>2, <2>4 DEF Carried
  <2>5. CASE r.kind \notin {"save", "delete"}
    <3>1. \/ stored' = stored
          \/ stored' = [stored EXCEPT !.files = @ \cup {r.file}]
          \/ stored' = [stored EXCEPT !.files = @ \ {r.file}]
          \/ stored' = [stored EXCEPT !.photo = r.file]
          \/ stored' = [stored EXCEPT !.photo = Nothing]
      BY <1>2, <2>1, <2>5, FlagsOf DEF Carried
    <3>2. stored'.relations = stored.relations /\ stored'.text = stored.text
      BY <2>1, <3>1 DEF PersonType
    <3>. QED
      BY <1>2, <2>1, <2>2, <2>5, <3>2
  <2>. QED
    BY <2>3, <2>4, <2>5
<1>. QED
  BY <1>1, <1>2 DEF ServedAs

\* Rows stay good.
LEMMA GoodRowsStep == ASSUME FlightInv, GoodRows, Forms, [Next]_vars PROVE GoodRows'
<1>0. /\ TypeOK /\ Numbered /\ OneEach /\ LoadFirst /\ flight \subseteq RequestType
      /\ sent \in 1 .. MaxSent /\ sent \in Nat /\ Nothing \notin PersonType /\ MaxSent \in Nat
      /\ stored \in PersonType \cup {Nothing} /\ person \in PersonType \cup {Nothing}
  BY PageAssumption DEF FlightInv, TypeOK
<1>1. CASE UNCHANGED vars
  BY <1>1 DEF vars, GoodRows, Saves
<1>2. CASE Edit
  <2>1. UNCHANGED <<stored, person, flight, sent>>
    BY <1>0, <1>2, Editing
  <2>. QED
    BY <2>1 DEF GoodRows, Saves
<1>3. CASE Closed
  <2>1. UNCHANGED <<stored, person, sent>> /\ flight' = {}
    BY <1>3 DEF Closed
  <2>. QED
    BY <2>1 DEF GoodRows, Saves
<1>4. ASSUME NEW r, SentAs(r) PROVE GoodRows'
  <2>1. /\ UNCHANGED <<stored, person>> /\ flight' = flight \cup {r} /\ r.answer = "none" /\ r.n = sent + 1
        /\ sent' = sent + 1 /\ sent' \in 1 .. MaxSent /\ sent <= sent'
    BY <1>0, <1>4 DEF SentAs
  <2>2. \A p : RowsOf(p, sent) => RowsOf(p, sent')
    BY <1>0, <2>1, RowsKept
  <2>3. RowsOf(stored, sent) =>
          \A a \in stored.relations : a.id \in (2 .. MaxSent) \X (1 .. MaxNew) => a.id[1] # r.n
    <3>. SUFFICES ASSUME RowsOf(stored, sent), NEW a \in stored.relations,
                         a.id \in (2 .. MaxSent) \X (1 .. MaxNew)
                  PROVE a.id[1] # r.n
      OBVIOUS
    <3>1. a.id \in (2 .. sent) \X (1 .. MaxNew)
      <4>1. a.id[1] # 1
        OBVIOUS
      <4>2. \A row \in AtFirst.relations : row.id[1] = 1
        BY PageAssumption
      <4>. QED
        BY <4>1, <4>2 DEF RowsOf
    <3>2. a.id[1] \in 2 .. sent
      BY <3>1
    <3>. QED
      BY <1>0, <2>1, <3>2
  <2>. QED
    BY <1>0, <2>1, <2>2, <2>3 DEF GoodRows, Saves, Done
<1>5. ASSUME NEW r, NEW s, ServedAs(r, s) PROVE GoodRows'
  <2>1. /\ r \in flight /\ r \in RequestType /\ flight' = (flight \ {r}) \cup {s} /\ UNCHANGED <<person, sent>>
        /\ s.n = r.n /\ s.kind = r.kind
    BY <1>0, <1>5 DEF ServedAs
  <2>2. r.n <= sent
    BY <1>0, <2>1 DEF Numbered
  <2>3. CASE s.answer = "refused" /\ stored' = stored
    BY <2>1, <2>3 DEF GoodRows, Saves, Done
  <2>4. CASE s.answer = "done" /\ r.kind = "delete" /\ stored' = Nothing
    BY <2>1, <2>4 DEF GoodRows, Saves, Done
  <2>5. CASE /\ s.answer = "done" /\ r.kind \notin {"save", "delete"}
             /\ stored \in PersonType /\ stored' \in PersonType /\ s.person = stored'
             /\ stored'.relations = stored.relations
    <3>1. RowsOf(stored', sent)
      BY <1>0, <2>5, RowsKept DEF GoodRows
    <3>. QED
      BY <1>0, <2>1, <2>5, <3>1 DEF GoodRows, Saves, Done
  <2>6. CASE /\ s.answer = "done" /\ r.kind = "save" /\ ~Refuses(r)
             /\ stored \in PersonType /\ s.person = stored' /\ stored'.relations = Changed(r)
    <3>1. RowsOf(stored, sent) /\ r \in Saves /\ r.n > 1
          /\ \A a \in stored.relations : a.id \in (2 .. MaxSent) \X (1 .. MaxNew) => a.id[1] # r.n
      BY <1>0, <1>5, <2>1, <2>6 DEF GoodRows, Saves, ServedAs, TypeOK
    <3>4. ~SaveRefused(r)
      BY <2>6 DEF Refuses
    <3>5. \A a, b \in r.form.rows : a.id = b.id => a = b
      <4>1. place = "open" /\ person # Nothing
        BY <1>0, <2>1, <2>6, OneSave DEF Numbered
      <4>. QED
        BY <3>1, <4>1 DEF Forms, Made
    <3>2. RowsOf(stored', sent)
      BY <1>0, <2>1, <2>2, <2>6, <3>1, <3>4, <3>5, RowsChanged
    <3>3. Saves' = {s}
      BY <2>1, <2>6, OneSave DEF Saves
    <3>. QED
      BY <1>0, <2>1, <2>6, <3>2, <3>3 DEF GoodRows, Done
  <2>. QED
    BY <1>5, <2>3, <2>4, <2>5, <2>6, ServedRows
<1>6. ASSUME NEW r, NEW C, AnsweredAs(r, C) PROVE GoodRows'
  <2>1. /\ r \in flight /\ flight' = (flight \ {r}) \cup C /\ UNCHANGED <<stored, sent>>
        /\ \A c \in C : c.kind = "content"
    BY <1>6 DEF AnsweredAs
  <2>2. person' # Nothing => RowsOf(person', sent)
    <3>1. CASE r.kind \in {"load", "save"} /\ Done(r) /\ person' = r.person
      BY <2>1, <3>1 DEF GoodRows
    <3>2. CASE person # Nothing /\ person'.relations = person.relations
      BY <1>0, <3>2, RowsKept DEF GoodRows
    <3>. QED
      BY <1>6, <3>1, <3>2, AnsweredRows
  <2>. QED
    BY <2>1, <2>2 DEF GoodRows, Saves
<1>. QED
  BY <1>1, <1>2, <1>3, <1>4, <1>5, <1>6, Steps

\* An edit keeps the form made of the person.
LEMMA EditedMade == ASSUME FlightInv, person # Nothing, RowsOf(person, sent), Made(form), Edit
                    PROVE Made(form')
<1>0. /\ form \in FormType /\ \A row \in form.rows : row \in Row
      /\ \A a \in person.relations : a.id \notin NewId
  BY DEF FlightInv, TypeOK, RowsOf, FormType
<1>. USE DEF Made
<1>1. CASE \E text \in FieldText : form' = [form EXCEPT !.text = text]
  BY <1>0, <1>1 DEF FormType
<1>2. ASSUME NEW id, NEW to, Adds(id, to) PROVE Made(form')
  <2>. DEFINE new == [id |-> id, to |-> to, note |-> Unsaid]
  <2>1. form'.deleted = form.deleted /\ form'.rows = form.rows \cup {new}
    BY <1>0, <1>2 DEF Adds, FormType
  <2>2. new.id \in NewId /\ new.id \notin Ids(form.rows)
    BY <1>2 DEF Adds
  <2>. HIDE DEF new
  <2>. QED
    BY <2>1, <2>2 DEF Ids
<1>3. ASSUME NEW row, NEW to, NEW note, Changes(row, to, note) PROVE Made(form')
  <2>. DEFINE new == [id |-> row.id, to |-> to, note |-> note]
  <2>1. /\ form'.deleted = form.deleted /\ form'.rows = (form.rows \ {row}) \cup {new}
        /\ row \in form.rows /\ new.id = row.id
    BY <1>0, <1>3 DEF Changes, FormType
  <2>. HIDE DEF new
  <2>2. Ids(form'.rows) = Ids(form.rows)
    BY <2>1 DEF Ids
  <2>. QED
    BY <2>1, <2>2
<1>4. ASSUME NEW row, TakesOut(row) PROVE Made(form')
  <2>1. /\ form'.deleted = form.deleted \cup ({row.id} \ NewId) /\ form'.rows = form.rows \ {row}
        /\ row \in form.rows
    BY <1>0, <1>4 DEF TakesOut, FormType
  <2>2. form'.deleted \subseteq Ids(person.relations)
    BY <2>1
  <2>3. \A a \in form'.rows : a.id \notin NewId => a.id \in Ids(person.relations) \ form'.deleted
    BY <2>1
  <2>4. Ids(person.relations) \ form'.deleted \subseteq Ids(form'.rows)
    BY <1>0, <2>1 DEF Ids
  <2>. QED
    BY <2>1, <2>2, <2>3, <2>4
<1>. QED
  BY <1>1, <1>2, <1>3, <1>4, Edits

\* Forms stay made of the person, and what is sent is the form until it is edited.
LEMMA FormsStep == ASSUME FlightInv, GoodRows, Forms, [Next]_vars PROVE Forms'
<1>0. /\ TypeOK /\ OneEach /\ LoadFirst /\ flight \subseteq RequestType
      /\ edited \in BOOLEAN /\ Nothing \notin PersonType
  BY PageAssumption DEF FlightInv, TypeOK
<1>1. CASE UNCHANGED vars
  BY <1>1 DEF vars, Forms, Saves, Made
<1>2. CASE Edit
  <2>1. /\ person # Nothing /\ place = "open" /\ edited' = TRUE
        /\ UNCHANGED <<person, baseline, flight, place>>
    BY <1>0, <1>2, Editing
  <2>2. Made(form')
    BY <1>2, <2>1, EditedMade DEF Forms, GoodRows
  <2>3. Made(form)' /\ (\A r \in flight : Made(r.form) => Made(r.form)')
    BY <2>1, <2>2 DEF Made
  <2>. QED
    BY <2>1, <2>3 DEF Forms, Saves
<1>3. CASE Closed
  BY <1>3 DEF Closed, Forms
<1>4. ASSUME NEW r, SentAs(r) PROVE Forms'
  <2>1. /\ UNCHANGED <<person, form, baseline, place>> /\ flight' = flight \cup {r} /\ place = "open"
        /\ r.kind # "save" => edited' = edited
        /\ r.kind = "save" => r.form = form
    BY <1>4 DEF SentAs
  <2>2. \A f : Made(f) <=> Made(f)'
    BY <2>1 DEF Made
  <2>3. \A q \in flight : r.kind = "save" => q.kind # "save"
    BY <1>0, <1>4, FlagsOf DEF OneEach, SentAs
  <2>4. ASSUME person # Nothing, NEW q \in flight', q.kind = "save"
        PROVE Made(q.form) /\ (~edited' => q.form = form)
    BY <2>1, <2>3, <2>4 DEF Forms, Saves
  <2>. QED
    BY <2>1, <2>2, <2>4 DEF Forms, Saves, Made
<1>5. ASSUME NEW r, NEW s, ServedAs(r, s) PROVE Forms'
  <2>1. /\ r \in flight /\ s.form = r.form /\ s.kind = r.kind /\ flight' = (flight \ {r}) \cup {s}
        /\ UNCHANGED <<person, form, baseline, place, edited>>
    BY <1>5 DEF ServedAs
  <2>2. ASSUME place = "open", person # Nothing, NEW q \in flight', q.kind = "save"
        PROVE Made(q.form) /\ (~edited => q.form = form)
    BY <2>1, <2>2 DEF Forms, Saves
  <2>. QED
    BY <2>1, <2>2 DEF Forms, Saves, Made
<1>6. ASSUME NEW r, NEW C, AnsweredAs(r, C) PROVE Forms'
  <2>. SUFFICES ASSUME person' # Nothing PROVE Forms'
    BY DEF Forms
  <2>1. /\ r \in flight /\ flight' = (flight \ {r}) \cup C /\ UNCHANGED <<place, edited>> /\ place = "open"
        /\ \A c \in C : c.kind = "content"
    BY <1>6 DEF AnsweredAs
  <2>2. CASE r.kind \in {"load", "save"} /\ Done(r) /\ person' = r.person
             /\ form' = FormOf(person') /\ baseline' = form'
    <3>1. RowsOf(person', sent)
      BY <2>1, <2>2 DEF GoodRows
    <3>2. Made(form)'
      BY <2>2, <3>1 DEF FormOf, RowsOf, Made, Ids
    <3>3. Saves' = {}
      <4>1. CASE r.kind = "save"
        BY <2>1, <4>1, OneSave DEF Saves
      <4>2. CASE r.kind = "load"
        BY <2>1, <4>2, OneSave DEF Saves
      <4>. QED
        BY <2>2, <4>1, <4>2
    <3>. QED
      BY <2>2, <3>2, <3>3 DEF Forms
  <2>3. CASE /\ person # Nothing
             /\ person'.relations = person.relations /\ person'.text = person.text
             /\ UNCHANGED <<form, baseline>>
    <3>1. FormOf(person') = FormOf(person) /\ \A f : Made(f) => Made(f)'
      BY <2>3 DEF FormOf, Made
    <3>2. Saves' \subseteq Saves
      BY <2>1 DEF Saves
    <3>3. baseline' = FormOf(person')
      BY <2>1, <2>3, <3>1 DEF Forms
    <3>4. ASSUME NEW q \in Saves' PROVE Made(q.form)' /\ (~edited' => q.form = form')
      BY <2>1, <2>3, <3>1, <3>2, <3>4 DEF Forms
    <3>5. Made(form)'
      BY <2>1, <2>3, <3>1 DEF Forms, Made
    <3>. QED
      BY <3>3, <3>4, <3>5 DEF Forms, Made
  <2>. QED
    BY <1>6, <2>2, <2>3, AnsweredRows
<1>. QED
  BY <1>1, <1>2, <1>3, <1>4, <1>5, <1>6, Steps

\* A save is refused only for pairs: ids that were on the page are stored.
LEMMA RefusedSave == ASSUME NEW r, r.kind = "save", stored # Nothing, Refuses(r),
                            stored.relations = person.relations, Made(r.form)
                     PROVE Reason(r)
<1>1. SaveRefused(r)
  BY DEF Refuses
<1>2. r.form.deleted \cup Ids(Updated(r.form.rows)) \subseteq Ids(stored.relations)
  <2>1. Ids(Updated(r.form.rows)) \subseteq Ids(person.relations)
    BY DEF Made, Ids, Updated, Added
  <2>. QED
    BY <2>1 DEF Made
<1>. QED
  BY <1>1, <1>2 DEF SaveRefused, Reason

\* A save leaves what its form says, when the page knew all there was.
LEMMA ChangedIsLeft == ASSUME NEW r, stored.relations = person.relations, Made(r.form)
                       PROVE Changed(r) = Left(r)
<1>1. \A row \in stored.relations : row.id \in r.form.deleted \cup Ids(r.form.rows)
  BY DEF Made, Ids
<1>. QED
  BY <1>1 DEF Changed, Left

\* Only a save that waits for its answer parts what is stored from the page.
LEMMA InStepStep == ASSUME FlightInv, GoodRows, Forms, InStep, [Next]_vars PROVE InStep'
<1>0. /\ TypeOK /\ OneEach /\ LoadFirst /\ flight \subseteq RequestType
      /\ Nothing \notin PersonType
  BY PageAssumption DEF FlightInv, TypeOK
<1>1. CASE UNCHANGED vars
  BY <1>1 DEF vars, InStep, Saves, Reason
<1>2. CASE Edit
  <2>1. UNCHANGED <<stored, person, flight, place, unsure>>
    BY <1>0, <1>2, Editing
  <2>. QED
    BY <2>1 DEF InStep, Saves, Reason
<1>3. CASE Closed
  BY <1>3 DEF Closed, InStep
<1>4. ASSUME NEW r, SentAs(r) PROVE InStep'
  <2>1. /\ UNCHANGED <<stored, person, place, unsure>> /\ flight' = flight \cup {r} /\ r.answer = "none"
    BY <1>4 DEF SentAs
  <2>2. \A q : Reason(q)' <=> Reason(q)
    BY <2>1 DEF Reason
  <2>3. Saves \subseteq Saves' /\ \A q \in Saves' : q.answer # "none" => q \in Saves
    BY <2>1 DEF Saves
  <2>. QED
    BY <2>1, <2>2, <2>3 DEF InStep, Done
<1>5. ASSUME NEW r, NEW s, ServedAs(r, s) PROVE InStep'
  <2>. SUFFICES ASSUME place = "open", person # Nothing, "save" \notin unsure PROVE InStep'
    BY <1>5 DEF InStep, ServedAs
  <2>1. /\ r \in flight /\ r \in RequestType /\ r.answer = "none" /\ s.form = r.form /\ s.kind = r.kind /\ s.n = r.n
        /\ flight' = (flight \ {r}) \cup {s} /\ UNCHANGED <<person, place, unsure>>
    BY <1>0, <1>5 DEF ServedAs
  <2>2. \A q : Reason(q)' <=> Reason(q)
    BY <2>1 DEF Reason
  <2>3. CASE r.kind = "save"
    <3>1. Saves = {r} /\ Saves' = {s}
      BY <2>1, <2>3, OneSave DEF Saves
    <3>2. stored # Nothing => stored.text = person.text /\ stored.relations = person.relations
      BY <2>1, <3>1 DEF InStep, Done
    <3>3. Made(r.form)
      BY <3>1 DEF Forms
    <3>4. CASE s.answer = "refused" /\ Refuses(r) /\ stored' = stored
      <4>1. stored # Nothing => Reason(r)
        BY <2>1, <2>3, <3>2, <3>3, <3>4, RefusedSave
      <4>2. stored # Nothing => Reason(s)'
        BY <2>1, <4>1 DEF Reason
      <4>. QED
        BY <2>1, <3>1, <3>2, <3>4, <4>2 DEF InStep, Done
    <3>5. CASE /\ s.answer = "done" /\ stored \in PersonType /\ stored' \in PersonType /\ s.person = stored'
               /\ stored'.relations = Changed(r) /\ stored'.text = r.form.text
      <4>1. Changed(r) = Left(r) /\ stored' # Nothing
        BY <1>0, <3>2, <3>3, <3>5, ChangedIsLeft
      <4>2. Left(s) = Left(r)
        BY <2>1 DEF Left, Created
      <4>. QED
        BY <2>1, <3>1, <3>5, <4>1, <4>2 DEF InStep, Done
    <3>. QED
      BY <1>5, <2>3, <3>4, <3>5, ServedRows
  <2>4. CASE r.kind # "save"
    <3>1. Saves' = Saves
      BY <2>1, <2>4 DEF Saves
    <3>2. CASE stored' = stored
      BY <2>1, <2>2, <3>1, <3>2 DEF InStep
    <3>3. CASE r.kind = "delete" /\ stored' = Nothing
      <4>1. Saves = {}
        BY <2>1, <3>3, OneSave DEF Saves
      <4>. QED
        BY <2>1, <3>1, <3>3, <4>1 DEF InStep
    <3>4. CASE /\ stored \in PersonType /\ stored' \in PersonType
               /\ stored'.relations = stored.relations /\ stored'.text = stored.text
      <4>1. stored # Nothing /\ stored' # Nothing
        BY <1>0, <3>4
      <4>. QED
        BY <2>1, <2>2, <3>1, <3>4, <4>1 DEF InStep
    <3>. QED
      BY <1>5, <2>4, <3>2, <3>3, <3>4, ServedRows
  <2>. QED
    BY <2>3, <2>4
<1>6. ASSUME NEW r, NEW C, AnsweredAs(r, C) PROVE InStep'
  <2>. SUFFICES ASSUME person' # Nothing, "save" \notin unsure' PROVE InStep'
    BY DEF InStep
  <2>1. /\ r \in flight /\ flight' = (flight \ {r}) \cup C /\ UNCHANGED <<stored, place>> /\ place = "open"
        /\ \A c \in C : c.kind = "content"
    BY <1>6 DEF AnsweredAs
  <2>2. "save" \notin unsure
    BY <1>6 DEF AnsweredAs
  <2>3. CASE r.kind \in {"load", "save"} /\ Done(r) /\ person' = r.person
    <3>1. Saves' = {}
      <4>1. CASE r.kind = "save"
        BY <2>1, <4>1, OneSave DEF Saves
      <4>2. CASE r.kind = "load"
        BY <2>1, <4>2, OneSave DEF Saves
      <4>. QED
        BY <2>3, <4>1, <4>2
    <3>2. stored # Nothing => stored.text = person'.text /\ stored.relations = person'.relations
      <4>1. CASE r.kind = "save"
        BY <2>1, <2>2, <2>3, <4>1, OneSave DEF InStep, Saves
      <4>2. CASE r.kind = "load"
        <5>1. person = Nothing
          BY <1>0, <2>1, <4>2, FlagsOf DEF LoadFirst, OneEach
        <5>. QED
          BY <1>0, <2>1, <2>3, <5>1 DEF LoadFirst
      <4>. QED
        BY <2>3, <4>1, <4>2
    <3>. QED
      BY <2>1, <3>1, <3>2 DEF InStep
  <2>4. CASE /\ person # Nothing
             /\ person'.relations = person.relations /\ person'.text = person.text
             /\ (r.kind = "save" => ~Done(r) \/ "save" \in unsure')
    <3>1. \A q : Reason(q)' <=> Reason(q)
      BY <2>4 DEF Reason
    <3>2. Saves' \subseteq Saves /\ \A q \in Saves : Done(q) => q \in Saves'
      BY <2>1, <2>4 DEF Saves
    <3>. QED
      BY <2>1, <2>2, <2>4, <3>1, <3>2 DEF InStep
  <2>. QED
    BY <1>6, <2>3, <2>4, AnsweredRows
<1>. QED
  BY <1>1, <1>2, <1>3, <1>4, <1>5, <1>6, Steps

\* At first nothing parts the page from what is stored.
LEMMA InitForm == ASSUME Init PROVE FormInv
<1>1. /\ person = Nothing /\ stored = AtFirst /\ sent = 1 /\ Saves = {}
      /\ \A r \in flight : r.answer = "none"
  BY PageAssumption, RequestTyped DEF Init, Saves, Kinds, FileKinds
<1>2. 1 \in 1 .. MaxSent
  BY PageAssumption
<1>3. GoodRows
  BY <1>1, <1>2, BeforeRows DEF GoodRows, Done
<1>. QED
  BY <1>1, <1>3, InitFlight DEF FormInv, Forms, InStep

\* The invariant of the form is inductive.
LEMMA FormStep == ASSUME FormInv, [Next]_vars PROVE FormInv'
  BY FlightStep, GoodRowsStep, FormsStep, InStepStep DEF FormInv

\* What a form says of relationships, a save of it leaves.
LEMMA LeftSays == ASSUME NEW r
                  PROVE {<<row.to, row.note>> : row \in Left(r)} = {<<row.to, row.note>> : row \in r.form.rows}
<1>1. \A row \in r.form.rows : \E left \in Left(r) : left.to = row.to /\ left.note = row.note
  <2>. SUFFICES ASSUME NEW row \in r.form.rows
                PROVE \E left \in Left(r) : left.to = row.to /\ left.note = row.note
    OBVIOUS
  <2>1. CASE row \in Added(r.form.rows)
    <3>. DEFINE left == [id |-> <<r.n, row.id[2]>>, to |-> row.to, note |-> row.note]
    <3>1. left \in Left(r) /\ left.to = row.to /\ left.note = row.note
      BY <2>1 DEF Left, Created
    <3>. QED
      BY <3>1
  <2>2. CASE row \notin Added(r.form.rows)
    BY <2>2 DEF Left, Updated
  <2>. QED
    BY <2>1, <2>2
<1>2. \A left \in Left(r) : \E row \in r.form.rows : left.to = row.to /\ left.note = row.note
  <2>. SUFFICES ASSUME NEW left \in Left(r)
                PROVE \E row \in r.form.rows : left.to = row.to /\ left.note = row.note
    OBVIOUS
  <2>1. CASE left \in Updated(r.form.rows)
    BY <2>1 DEF Updated
  <2>2. CASE left \in Created(r)
    <3>1. PICK row \in Added(r.form.rows) : left = [id |-> <<r.n, row.id[2]>>, to |-> row.to, note |-> row.note]
      BY <2>2 DEF Created
    <3>2. row \in r.form.rows /\ left.to = row.to /\ left.note = row.note
      BY <3>1 DEF Added
    <3>. QED
      BY <3>2
  <2>. QED
    BY <2>1, <2>2 DEF Left
<1>. HIDE DEF Left
<1>. QED
  BY <1>1, <1>2

\* No edit is lost.
LEMMA EditsAreKept == ASSUME FormInv PROVE EditsKept
<1>0. TypeOK /\ LoadFirst /\ Forms /\ InStep /\ Nothing \notin PersonType
  BY PageAssumption DEF FormInv, FlightInv
<1>1. AllClearIsTrue
  <2>. SUFFICES ASSUME place = "open", person # Nothing, stored # Nothing, ~HasChanges, Saves = {},
                       "save" \notin unsure
                PROVE form = FormOf(stored)
    BY DEF AllClearIsTrue
  <2>1. form = FormOf(person)
    BY <1>0 DEF HasChanges, LoadFirst, Forms
  <2>2. stored.text = person.text /\ stored.relations = person.relations
    BY <1>0 DEF InStep
  <2>. QED
    BY <2>1, <2>2 DEF FormOf
<1>2. AnswersKeepEdits
  <2>. SUFFICES ASSUME place = "open", ~edited, "save" \notin unsure, NEW r \in Saves, r.answer = "done"
                PROVE Content(FormOf(r.person)) = Content(form)
    BY DEF AnswersKeepEdits
  <2>1. person # Nothing
    BY OneSave DEF FormInv, Saves
  <2>2. r.form = form /\ r.person.text = r.form.text /\ r.person.relations = Left(r)
    BY <1>0, <2>1 DEF Forms, InStep, Done
  <2>3. {<<row.to, row.note>> : row \in r.person.relations} = {<<row.to, row.note>> : row \in form.rows}
    BY <2>2, LeftSays
  <2>. QED
    BY <2>2, <2>3 DEF Content, FormOf
<1>3. RefusedWithReason
  <2>. SUFFICES ASSUME place = "open", "save" \notin unsure, stored # Nothing, NEW r \in Saves,
                       r.answer = "refused"
                PROVE Reason(r)
    BY DEF RefusedWithReason, Reason
  <2>1. person # Nothing
    BY OneSave DEF FormInv, Saves
  <2>. QED
    BY <1>0, <2>1 DEF InStep
<1>4. StoredOnce
  BY DEF FormInv, GoodRows, RowsOf, StoredOnce
<1>. QED
  BY <1>1, <1>2, <1>3, <1>4 DEF EditsKept

----------------------------------------------------------------------------
(* The files and the photo on the page stay in step with those stored       *)

\* The first request has the number 1: the file of a later upload is not known.
LEMMA FreshFile == ASSUME sent \in 1 .. MaxSent, sent + 1 \in 1 .. MaxSent
                   PROVE sent + 1 \notin Known
<1>1. sent + 1 \in 2 .. MaxSent /\ MaxSent \in Nat
  BY PageAssumption
<1>2. sent + 1 # Nothing
  BY <1>1, PageAssumption DEF File
<1>. QED
  BY <1>1, <1>2, PageAssumption DEF Known

\* What is known stays known.
LEMMA KnownGrows == ASSUME sent \in 1 .. MaxSent, sent' \in 1 .. MaxSent, sent <= sent'
                    PROVE Known \subseteq Known'
  BY PageAssumption DEF Known

\* What a request that is carried out leaves of the files and the photo.
LEMMA ServedFiles == ASSUME FlightInv, NEW r, NEW s, ServedAs(r, s), stored' # Nothing
                     PROVE /\ stored # Nothing
                           /\ r.kind = "attach" => s.answer = "done"
                           /\ \/ s.answer = "refused" /\ stored' = stored
                              \/ s.answer = "done" /\ s.person = stored'
                           /\ stored'.files = CASE r.kind = "attach" -> stored.files \cup {r.file}
                                               [] r.kind = "detach" /\ Done(s) -> stored.files \ {r.file}
                                               [] OTHER -> stored.files
                           /\ stored'.photo = CASE r.kind = "photo" /\ Done(s) -> r.file
                                               [] r.kind = "no_photo" /\ Done(s) -> Nothing
                                               [] OTHER -> stored.photo
<1>1. stored # Nothing /\ stored \in PersonType /\ r \in RequestType /\ Nothing \notin PersonType
  <2>1. stored = Nothing => stored' = stored
    BY DEF ServedAs, Refuses
  <2>. QED
    BY <2>1, PageAssumption DEF ServedAs, FlightInv, TypeOK
<1>2. r.kind = "attach" => ~Refuses(r)
  BY <1>1 DEF Refuses
<1>3. CASE Refuses(r) /\ s.answer = "refused" /\ stored' = stored
  <2>1. r.kind # "attach"
    BY <1>2, <1>3
  <2>. QED
    BY <1>1, <1>3, <2>1 DEF Done
<1>4. CASE s.answer = "done" /\ s.person = stored' /\ stored' = Carried(r)
  <2>1. CASE r.kind \in {"load", "content"}
    BY <1>1, <1>4, <2>1 DEF Carried, Done
  <2>2. CASE r.kind = "save"
    <3>1. stored' = [stored EXCEPT !.text = r.form.text, !.relations = Changed(r)]
      BY <1>4, <2>2 DEF Carried
    <3>. QED
      BY <1>1, <1>4, <2>2, <3>1 DEF PersonType, Done
  <2>3. CASE r.kind \in {"attach", "detach"}
    <3>1. \/ r.kind = "attach" /\ stored' = [stored EXCEPT !.files = @ \cup {r.file}]
          \/ r.kind = "detach" /\ stored' = [stored EXCEPT !.files = @ \ {r.file}]
      BY <1>4, <2>3 DEF Carried
    <3>. QED
      BY <1>1, <1>4, <3>1 DEF PersonType, Done
  <2>4. CASE r.kind \in {"photo", "no_photo"}
    <3>1. \/ r.kind = "photo" /\ stored' = [stored EXCEPT !.photo = r.file]
          \/ r.kind = "no_photo" /\ stored' = [stored EXCEPT !.photo = Nothing]
      BY <1>4, <2>4 DEF Carried
    <3>. QED
      BY <1>1, <1>4, <3>1 DEF PersonType, Done
  <2>5. r.kind # "delete"
    BY <1>4 DEF Carried
  <2>. QED
    BY <1>1, <2>1, <2>2, <2>3, <2>4, <2>5, FlagsOf
<1>. QED
  BY <1>3, <1>4 DEF ServedAs

\* What an answer leaves of the files and the photo on the page.
AnsweredWith(r, C) ==
  \/ /\ r.kind = "load" /\ person = Nothing /\ person' = AtFirst /\ stored = AtFirst /\ flight' = C
     /\ photo' = Nothing /\ generation' = r.n /\ \A c \in C : c.file = person'.photo
  \/ /\ person # Nothing
     /\ \/ /\ r.kind = "save" /\ Done(r) /\ person' = r.person /\ C = {}
           /\ UNCHANGED <<photo, generation, unsure>>
        \/ /\ r.kind = "attach" /\ Done(r) /\ C = {}
           /\ person'.files = person.files \cup {r.file} /\ person'.photo = person.photo
           /\ UNCHANGED <<photo, generation, unsure>>
        \/ /\ r.kind = "detach" /\ Done(r) /\ C = {}
           /\ person'.files = person.files \ {r.file} /\ person'.photo = person.photo
           /\ UNCHANGED <<photo, generation, unsure>>
        \/ /\ r.kind \in {"photo", "no_photo"} /\ Done(r)
           /\ person'.photo = r.file /\ person'.files = person.files
           /\ photo' = Nothing /\ generation' = r.n /\ (\A c \in C : c.file = r.file) /\ unsure' = unsure
        \/ /\ r.kind = "content" /\ C = {} /\ person' = person /\ generation' = generation
           /\ photo' = IF r.n = generation THEN r.file ELSE photo
           /\ unsure' = unsure
        \/ /\ C = {} /\ UNCHANGED <<person, photo, generation>>
           /\ unsure' # {} \/ (unsure' = unsure /\ (Done(r) => r.kind = "content"))

\* An answer leaves this of them.
LEMMA AnsweredFiles == ASSUME FlightInv, NEW r, NEW C, AnsweredAs(r, C), person' # Nothing
                       PROVE AnsweredWith(r, C)
<1>0. /\ person \in PersonType \cup {Nothing} /\ (r.kind # "load" /\ Done(r) => person # Nothing)
      /\ Nothing \notin PersonType /\ r \in flight /\ LoadFirst
      /\ flight' = (flight \ {r}) \cup C /\ stored' = stored
      /\ (person = Nothing => r.kind = "load" /\ person' = AtFirst /\ flight = {r})
      /\ (r.kind = "load" => person = Nothing)
  <2>1. r.kind = "load" => person = Nothing
    BY FlagsOf DEF FlightInv, LoadFirst, OneEach, AnsweredAs, TypeOK
  <2>. QED
    BY <2>1, PageAssumption, AnsweredTyped DEF FlightInv, TypeOK, AnsweredAs
<1>1. CASE r.kind = "load"
  <2>1. person = Nothing /\ person' = AtFirst /\ stored = AtFirst /\ flight' = C
    BY <1>0, <1>1 DEF LoadFirst
  <2>2. photo' = Nothing /\ generation' = r.n /\ \A c \in C : c.file = person'.photo
    BY <1>0, <1>1, <2>1 DEF AnsweredAs
  <2>. QED
    BY <1>1, <2>1, <2>2 DEF AnsweredWith
<1>2. CASE r.kind # "load"
  <2>. SUFFICES ASSUME person \in PersonType, person # Nothing PROVE AnsweredWith(r, C)
    BY <1>0, <1>2
  <2>1. CASE /\ r.kind \in {"attach", "detach"} /\ Done(r) /\ C = {}
             /\ person' = [person EXCEPT !.files = IF r.kind = "attach" THEN @ \cup {r.file} ELSE @ \ {r.file}]
             /\ UNCHANGED <<photo, generation, unsure>>
    <3>1. \/ r.kind = "attach" /\ person'.files = person.files \cup {r.file} /\ person'.photo = person.photo
          \/ r.kind = "detach" /\ person'.files = person.files \ {r.file} /\ person'.photo = person.photo
      BY <2>1 DEF PersonType
    <3>. QED
      BY <2>1, <3>1 DEF AnsweredWith
  <2>2. CASE /\ r.kind \in {"photo", "no_photo"} /\ Done(r)
             /\ person' = [person EXCEPT !.photo = r.file]
             /\ photo' = Nothing /\ generation' = r.n /\ (\A c \in C : c.file = r.file) /\ unsure' = unsure
    <3>1. person'.photo = r.file /\ person'.files = person.files
      BY <2>2 DEF PersonType
    <3>. QED
      BY <2>2, <3>1 DEF AnsweredWith
  <2>3. CASE /\ r.kind \in {"load", "save"} /\ Done(r) /\ person' = r.person
             /\ r.kind = "save" => C = {} /\ UNCHANGED <<photo, generation>>
             /\ unsure' = unsure
    BY <1>2, <2>3 DEF AnsweredWith
  <2>4. CASE /\ r.kind = "content" /\ C = {}
             /\ photo' = IF r.n = generation THEN r.file ELSE photo
             /\ UNCHANGED <<person, generation, unsure>>
    BY <2>4 DEF AnsweredWith
  <2>5. CASE /\ C = {}
             /\ unsure' = unsure \cup {kind \in {r.kind} \ {"load", "content"} : r.answer = "done"}
             /\ UNCHANGED <<person, photo, generation>>
    <3>1. CASE Done(r) /\ r.kind # "content"
      <4>1. unsure' # {}
        BY <1>2, <2>5, <3>1 DEF Done
      <4>. QED
        BY <2>5, <4>1 DEF AnsweredWith
    <3>2. CASE Done(r) => r.kind = "content"
      <4>1. unsure' = unsure
        BY <1>0, <1>2, <2>5, <3>2 DEF Done
      <4>. QED
        BY <2>5, <3>2, <4>1 DEF AnsweredWith
    <3>. QED
      BY <3>1, <3>2
  <2>. QED
    BY <2>1, <2>2, <2>3, <2>4, <2>5 DEF AnsweredAs
<1>. QED
  BY <1>1, <1>2

\* Files keep their numbers.
LEMMA FilesNumberedStep == ASSUME FlightInv, FilesNumbered, [Next]_vars PROVE FilesNumbered'
<1>0. /\ TypeOK /\ LoadFirst /\ flight \subseteq RequestType
      /\ sent \in 1 .. MaxSent /\ sent \in Nat /\ Nothing \notin PersonType /\ MaxSent \in Nat
  BY PageAssumption DEF FlightInv, TypeOK
<1>1. CASE UNCHANGED vars
  BY <1>1 DEF vars, FilesNumbered, Known
<1>2. CASE Edit
  <2>1. UNCHANGED <<stored, person, flight, sent>>
    BY <1>0, <1>2, Editing
  <2>. QED
    BY <2>1 DEF FilesNumbered, Known
<1>3. CASE Closed
  BY <1>3 DEF Closed, FilesNumbered, Known
<1>4. ASSUME NEW r, SentAs(r) PROVE FilesNumbered'
  <2>1. /\ UNCHANGED <<stored, person>> /\ flight' = flight \cup {r} /\ r.answer = "none"
        /\ sent' = sent + 1 /\ sent' \in 1 .. MaxSent /\ sent <= sent' /\ r.person = Nothing
    BY <1>0, <1>4 DEF SentAs
  <2>2. Known \subseteq Known'
    BY <1>0, <2>1, KnownGrows
  <2>3. Nothing \in Known' /\ sent + 1 \in Known'
    BY <1>0, <2>1 DEF Known
  <2>4. r.kind = "detach" => r.file \in Known
    BY <1>0, <1>4 DEF SentAs, FilesNumbered, LoadFirst
  <2>5. r.file \in Known' /\ (r.kind = "no_photo" => r.file = Nothing)
    BY <1>4, <2>2, <2>3, <2>4 DEF SentAs
  <2>. QED
    BY <2>1, <2>2, <2>5 DEF FilesNumbered, Done
<1>5. ASSUME NEW r, NEW s, ServedAs(r, s) PROVE FilesNumbered'
  <2>1. /\ r \in flight /\ flight' = (flight \ {r}) \cup {s} /\ UNCHANGED <<person, sent>>
        /\ s.file = r.file /\ s.kind = r.kind /\ Known' = Known
    BY <1>5 DEF ServedAs, Known
  <2>2. stored' # Nothing => stored'.files \subseteq Known
    <3>. SUFFICES ASSUME stored' # Nothing PROVE stored'.files \subseteq Known
      OBVIOUS
    <3>1. stored'.files \subseteq stored.files \cup {r.file} /\ stored # Nothing
      BY <1>0, <1>5, ServedFiles
    <3>. QED
      BY <2>1, <3>1 DEF FilesNumbered
  <2>3. s.answer = "done" => s.person = stored'
    BY <1>5 DEF ServedAs
  <2>. QED
    BY <2>1, <2>2, <2>3 DEF FilesNumbered, Done
<1>6. ASSUME NEW r, NEW C, AnsweredAs(r, C) PROVE FilesNumbered'
  <2>1. /\ r \in flight /\ flight' = (flight \ {r}) \cup C /\ UNCHANGED <<stored, sent>> /\ Known' = Known
        /\ \A c \in C : c.kind = "content" /\ c.answer = "none"
    BY <1>6 DEF AnsweredAs, Known
  <2>2. ASSUME person' # Nothing
        PROVE person'.files \subseteq Known /\ \A c \in C : c.file \in Known
    <3>1. AnsweredWith(r, C)
      BY <1>6, <2>2, AnsweredFiles DEF FilesNumbered
    <3>2. AtFirst.files \cup {AtFirst.photo} \subseteq Known /\ r.file \in Known
      BY <2>1 DEF Known, FilesNumbered
    <3>3. CASE person = Nothing
      BY <3>1, <3>2, <3>3 DEF AnsweredWith
    <3>4. CASE person # Nothing
      <4>1. person.files \subseteq Known
        BY <3>4 DEF FilesNumbered
      <4>2. r.kind = "save" /\ Done(r) => r.person.files \subseteq Known
        BY <1>0, <2>1 DEF FilesNumbered, LoadFirst
      <4>. QED
        BY <3>1, <3>2, <3>4, <4>1, <4>2 DEF AnsweredWith
    <3>. QED
      BY <3>3, <3>4
  <2>3. person' = Nothing => C = {}
    <3>1. person' = Nothing => (person = Nothing /\ ~Done(r)) \/ C = {}
      BY <1>0, <1>6, AnsweredTyped DEF AnsweredAs, LoadFirst, Done
    <3>. QED
      BY <1>6, <3>1 DEF AnsweredAs
  <2>. QED
    BY <2>1, <2>2, <2>3 DEF FilesNumbered, Done
<1>. QED
  BY <1>1, <1>2, <1>3, <1>4, <1>5, <1>6, Steps

\* Of files and saves not both are under way, unless they crossed.
LEMMA NotCrossed == ASSUME FlightInv, ~crossed, NEW r \in flight, NEW q \in flight, r.kind = "save"
                    PROVE q.kind \notin FileKinds
  BY DEF FlightInv, Numbered, Saves, Files

\* An upload's file stays off the page and off the list until it is carried out.
LEMMA AttachingStep == ASSUME FlightInv, FilesNumbered, Attaching, [Next]_vars PROVE Attaching'
<1>0. /\ TypeOK /\ Numbered /\ OneEach /\ LoadFirst /\ flight \subseteq RequestType
      /\ sent \in 1 .. MaxSent /\ crossed \in BOOLEAN /\ Nothing \notin PersonType
  BY PageAssumption DEF FlightInv, TypeOK
<1>1. CASE UNCHANGED vars
  BY <1>1 DEF vars, Attaching
<1>2. CASE Edit
  <2>1. UNCHANGED <<stored, person, flight, place, crossed>>
    BY <1>0, <1>2, Editing
  <2>. QED
    BY <2>1 DEF Attaching
<1>3. CASE Closed
  BY <1>3 DEF Closed, Attaching
<1>4. ASSUME NEW r, SentAs(r) PROVE Attaching'
  <2>. SUFFICES ASSUME place = "open", stored # Nothing, person # Nothing, ~crossed'
                PROVE Attaching'
    BY <1>4 DEF Attaching, SentAs
  <2>1. /\ UNCHANGED <<stored, person, place>> /\ flight' = flight \cup {r} /\ r.answer = "none"
        /\ ~crossed /\ sent + 1 \in 1 .. MaxSent /\ r.kind \in Kinds
    BY <1>0, <1>4, FlagsOf DEF SentAs
  <2>2. sent + 1 \notin Known /\ stored.files \subseteq Known /\ person.files \subseteq Known
        /\ \A q \in flight : q.file \in Known
    BY <1>0, <2>1, FreshFile DEF FilesNumbered
  <2>3. ASSUME NEW a \in flight', a.kind = "attach"
        PROVE /\ a.file \notin person.files /\ (a.file \in stored.files <=> Done(a))
              /\ \A q \in flight' : q.kind = "detach" => q.file # a.file
    <3>1. CASE a = r
      <4>1. r.file = sent + 1
        BY <1>4, <2>3, <3>1 DEF SentAs
      <4>. QED
        BY <2>1, <2>2, <2>3, <3>1, <4>1 DEF Done
    <3>2. CASE a \in flight
      <4>1. /\ a.file \notin person.files /\ (a.file \in stored.files <=> Done(a))
            /\ \A q \in flight : q.kind = "detach" => q.file # a.file
        BY <2>1, <2>3, <3>2 DEF Attaching
      <4>2. r.kind = "detach" => r.file \in person.files
        BY <1>4 DEF SentAs
      <4>. QED
        BY <2>1, <4>1, <4>2
    <3>. QED
      BY <2>1, <2>3, <3>1, <3>2
  <2>4. ASSUME NEW d \in flight', d.kind = "detach", Done(d) PROVE d.file \notin stored.files
    BY <2>1, <2>4 DEF Attaching, Done
  <2>. QED
    BY <2>1, <2>3, <2>4 DEF Attaching
<1>5. ASSUME NEW r, NEW s, ServedAs(r, s) PROVE Attaching'
  <2>. SUFFICES ASSUME place = "open", stored' # Nothing, person # Nothing, ~crossed
                PROVE Attaching'
    BY <1>5 DEF Attaching, ServedAs
  <2>1. /\ r \in flight /\ flight' = (flight \ {r}) \cup {s} /\ UNCHANGED <<person, place, crossed>>
        /\ s.file = r.file /\ s.kind = r.kind /\ r.answer = "none" /\ stored # Nothing
    BY <1>5, ServedFiles DEF ServedAs
  <2>2. /\ r.kind = "attach" => s.answer = "done"
        /\ stored'.files = CASE r.kind = "attach" -> stored.files \cup {r.file}
                            [] r.kind = "detach" /\ Done(s) -> stored.files \ {r.file}
                            [] OTHER -> stored.files
    BY <1>0, <1>5, ServedFiles
  <2>3. ASSUME NEW q \in flight, q.kind = "attach", r.kind = "attach" PROVE q = r
    <3>1. Flags(q) = Flags(r) /\ q.kind \in Flagged /\ r.kind \in Flagged
      BY <1>0, <2>1, <2>3, FlagsOf
    <3>. QED
      BY <1>0, <2>1, <3>1 DEF OneEach
  <2>4. \A a \in flight : a.kind = "attach" =>
          /\ a.file \notin person.files /\ (a.file \in stored.files <=> Done(a))
          /\ \A q \in flight : q.kind = "detach" => q.file # a.file
    BY <2>1 DEF Attaching
  <2>5. ASSUME NEW a \in flight', a.kind = "attach"
        PROVE /\ a.file \notin person.files /\ (a.file \in stored'.files <=> Done(a))
              /\ \A q \in flight' : q.kind = "detach" => q.file # a.file
    <3>1. CASE a = s
      BY <2>1, <2>2, <2>3, <2>4, <2>5, <3>1 DEF Done
    <3>2. CASE a # s
      <4>1. a \in flight /\ a # r /\ r.kind # "attach"
        BY <2>1, <2>3, <2>5, <3>2
      <4>2. r.kind = "detach" => r.file # a.file
        BY <2>1, <2>4, <2>5, <4>1
      <4>. QED
        BY <2>1, <2>2, <2>4, <2>5, <4>1, <4>2
    <3>. QED
      BY <3>1, <3>2
  <2>6. ASSUME NEW d \in flight', d.kind = "detach", Done(d) PROVE d.file \notin stored'.files
    <3>1. CASE d = s
      BY <2>1, <2>2, <2>6, <3>1
    <3>2. CASE d # s
      <4>1. d \in flight /\ d.file \notin stored.files
        BY <2>1, <2>6, <3>2 DEF Attaching
      <4>2. r.kind = "attach" => r.file # d.file
        BY <2>1, <2>4, <2>6, <4>1
      <4>. QED
        BY <2>2, <4>1, <4>2
    <3>. QED
      BY <3>1, <3>2
  <2>. QED
    BY <2>1, <2>5, <2>6 DEF Attaching
<1>6. ASSUME NEW r, NEW C, AnsweredAs(r, C) PROVE Attaching'
  <2>. SUFFICES ASSUME stored # Nothing, person' # Nothing, ~crossed
                PROVE Attaching'
    BY <1>6 DEF Attaching, AnsweredAs
  <2>1. /\ r \in flight /\ flight' = (flight \ {r}) \cup C /\ UNCHANGED <<stored, place, crossed>> /\ place = "open"
        /\ \A c \in C : c.kind = "content"
    BY <1>6 DEF AnsweredAs
  <2>2. AnsweredWith(r, C)
    BY <1>6, AnsweredFiles
  <2>3. CASE person = Nothing
    BY <2>1, <2>2, <2>3 DEF Attaching, AnsweredWith
  <2>4. CASE person # Nothing
    <3>2. ASSUME NEW a \in flight', a.kind = "attach"
          PROVE /\ a.file \notin person'.files /\ (a.file \in stored.files <=> Done(a))
                /\ \A q \in flight' : q.kind = "detach" => q.file # a.file
      <4>1. a \in flight /\ a # r /\ r.kind \notin {"save", "attach"}
        <5>1. a \in flight /\ a # r
          BY <2>1, <3>2
        <5>2. r.kind # "save"
          BY <2>1, <3>2, <5>1, NotCrossed DEF FileKinds
        <5>3. r.kind # "attach"
          BY <1>0, <2>1, <3>2, <5>1, FlagsOf DEF OneEach
        <5>. QED
          BY <5>1, <5>2, <5>3
      <4>2. person'.files \subseteq person.files
        BY <2>2, <2>4, <4>1 DEF AnsweredWith
      <4>3. /\ a.file \notin person.files /\ (a.file \in stored.files <=> Done(a))
            /\ \A q \in flight : q.kind = "detach" => q.file # a.file
        BY <2>1, <2>4, <3>2, <4>1 DEF Attaching
      <4>. QED
        BY <2>1, <4>2, <4>3
    <3>3. ASSUME NEW d \in flight', d.kind = "detach", Done(d) PROVE d.file \notin stored.files
      BY <2>1, <2>4, <3>3 DEF Attaching
    <3>. QED
      BY <2>1, <3>2, <3>3 DEF Attaching
  <2>. QED
    BY <2>3, <2>4
<1>. QED
  BY <1>1, <1>2, <1>3, <1>4, <1>5, <1>6, Steps

\* One change of the photo is under way at a time.
LEMMA OnePhoto == ASSUME FlightInv, NEW r \in flight, NEW q \in flight,
                         r.kind \in {"photo", "no_photo"}, q.kind \in {"photo", "no_photo"}
                  PROVE q = r
<1>1. Flags(q) = Flags(r) /\ q.kind \in Flagged /\ r.kind \in Flagged
  BY FlagsOf DEF FlightInv, TypeOK
<1>. QED
  BY <1>1 DEF FlightInv, OneEach

\* What is served and not answered parts them.
LEMMA ServedParted == ASSUME FlightInv, FilesNumbered, Attaching, place = "open", person # Nothing, ~crossed,
                             NEW r, NEW s, ServedAs(r, s), stored' # Nothing, Parted
                      PROVE Parted'
<1>1. /\ r \in flight /\ flight' = (flight \ {r}) \cup {s} /\ UNCHANGED <<person, place, crossed>>
      /\ s.file = r.file /\ s.kind = r.kind /\ ~Done(r) /\ stored # Nothing
  BY ServedFiles DEF ServedAs, Done
<1>2. /\ r.kind = "attach" => Done(s)
      /\ stored'.files = CASE r.kind = "attach" -> stored.files \cup {r.file}
                          [] r.kind = "detach" /\ Done(s) -> stored.files \ {r.file}
                          [] OTHER -> stored.files
      /\ stored'.photo = CASE r.kind = "photo" /\ Done(s) -> r.file
                          [] r.kind = "no_photo" /\ Done(s) -> Nothing
                          [] OTHER -> stored.photo
  BY ServedFiles DEF Done
<1>3. \A q \in flight : Done(q) => q \in flight'
  BY <1>1
<1>4. ASSUME NEW f \in stored'.files \ person.files
      PROVE \E q \in flight' : q.kind = "attach" /\ Done(q) /\ q.file = f
  <2>1. CASE f \in stored.files
    BY <1>3, <1>4, <2>1 DEF Parted
  <2>2. CASE f \notin stored.files
    <3>1. r.kind = "attach" /\ f = r.file
      BY <1>2, <1>4, <2>2
    <3>. QED
      BY <1>1, <1>2, <3>1
  <2>. QED
    BY <2>1, <2>2
<1>5. ASSUME NEW f \in person.files \ stored'.files
      PROVE \E q \in flight' : q.kind = "detach" /\ Done(q) /\ q.file = f
  <2>1. CASE f \notin stored.files
    BY <1>3, <1>5, <2>1 DEF Parted
  <2>2. CASE f \in stored.files
    <3>1. r.kind = "detach" /\ Done(s) /\ f = r.file
      BY <1>2, <1>5, <2>2
    <3>. QED
      BY <1>1, <3>1
  <2>. QED
    BY <2>1, <2>2
<1>6. /\ \/ stored'.photo = person.photo
         \/ \E q \in flight' : q.kind \in {"photo", "no_photo"} /\ Done(q)
      /\ \A q \in flight' : q.kind \in {"photo", "no_photo"} /\ Done(q) => q.file = stored'.photo
  <2>1. CASE r.kind \in {"photo", "no_photo"} /\ Done(s)
    <3>1. stored'.photo = r.file
      BY <1>1, <1>2, <2>1 DEF FilesNumbered
    <3>2. \A q \in flight' : q.kind \in {"photo", "no_photo"} => q = s
      BY <1>1, <2>1, OnePhoto
    <3>. QED
      BY <1>1, <2>1, <3>1, <3>2
  <2>2. CASE ~(r.kind \in {"photo", "no_photo"} /\ Done(s))
    <3>1. stored'.photo = stored.photo
      BY <1>2, <2>2
    <3>. QED
      BY <1>1, <1>3, <2>2, <3>1 DEF Parted
  <2>. QED
    BY <2>1, <2>2
<1>. QED
  BY <1>1, <1>4, <1>5, <1>6 DEF Parted

\* An answer brings the page what was stored.
LEMMA AnsweredParted == ASSUME FlightInv, Attaching, place = "open", stored # Nothing, ~crossed, person # Nothing,
                               NEW r, NEW C, AnsweredAs(r, C), person' # Nothing, unsure' = {}, Parted,
                               r.kind # "save" \/ ~Done(r)
                        PROVE Parted'
<1>1. /\ r \in flight /\ flight' = (flight \ {r}) \cup C /\ UNCHANGED <<stored, place, crossed>>
      /\ \A c \in C : c.kind = "content"
  BY DEF AnsweredAs
<1>2. AnsweredWith(r, C)
  BY AnsweredFiles
<1>3. \A q \in flight : q # r => q \in flight'
  BY <1>1
<1>4. \/ /\ r.kind = "attach" /\ Done(r)
         /\ person'.files = person.files \cup {r.file} /\ person'.photo = person.photo
      \/ /\ r.kind = "detach" /\ Done(r)
         /\ person'.files = person.files \ {r.file} /\ person'.photo = person.photo
      \/ /\ r.kind \in {"photo", "no_photo"} /\ Done(r)
         /\ person'.files = person.files /\ person'.photo = r.file
      \/ /\ Done(r) => r.kind = "content"
         /\ person'.files = person.files /\ person'.photo = person.photo
  BY <1>2 DEF AnsweredWith
<1>5. /\ r.kind = "attach" /\ Done(r) => r.file \in stored.files
      /\ r.kind = "detach" /\ Done(r) => r.file \notin stored.files
  BY <1>1 DEF Attaching
<1>6. ASSUME NEW f \in stored.files \ person'.files
      PROVE \E q \in flight' : q.kind = "attach" /\ Done(q) /\ q.file = f
  <2>1. f \notin person.files /\ (r.kind = "attach" /\ Done(r) => f # r.file)
    BY <1>4, <1>5, <1>6
  <2>2. PICK q \in flight : q.kind = "attach" /\ Done(q) /\ q.file = f
    BY <1>6, <2>1 DEF Parted
  <2>. QED
    BY <1>3, <2>1, <2>2
<1>7. ASSUME NEW f \in person'.files \ stored.files
      PROVE \E q \in flight' : q.kind = "detach" /\ Done(q) /\ q.file = f
  <2>1. f \in person.files /\ (r.kind = "detach" /\ Done(r) => f # r.file)
    BY <1>4, <1>5, <1>7
  <2>2. PICK q \in flight : q.kind = "detach" /\ Done(q) /\ q.file = f
    BY <1>7, <2>1 DEF Parted
  <2>. QED
    BY <1>3, <2>1, <2>2
<1>8. /\ \/ stored.photo = person'.photo
         \/ \E q \in flight' : q.kind \in {"photo", "no_photo"} /\ Done(q)
      /\ \A q \in flight' : q.kind \in {"photo", "no_photo"} /\ Done(q) => q.file = stored.photo
  <2>1. \A q \in flight' : q.kind \in {"photo", "no_photo"} => q \in flight /\ q # r
    BY <1>1
  <2>2. CASE r.kind \in {"photo", "no_photo"} /\ Done(r)
    BY <1>1, <1>4, <2>1, <2>2 DEF Parted
  <2>3. CASE ~(r.kind \in {"photo", "no_photo"} /\ Done(r))
    <3>1. person'.photo = person.photo
      BY <1>4, <2>3
    <3>. QED
      BY <1>1, <1>3, <2>1, <2>3, <3>1 DEF Parted
  <2>. QED
    BY <2>2, <2>3
<1>. QED
  BY <1>1, <1>6, <1>7, <1>8 DEF Parted

\* Nothing parts the files of a page on which nothing waits for an answer.
LEMMA FilesInStepStep == ASSUME FlightInv, FilesNumbered, Attaching, FilesInStep, [Next]_vars
                         PROVE FilesInStep'
<1>0. /\ TypeOK /\ Numbered /\ OneEach /\ LoadFirst /\ flight \subseteq RequestType
      /\ sent \in 1 .. MaxSent /\ crossed \in BOOLEAN /\ Nothing \notin PersonType
  BY PageAssumption DEF FlightInv, TypeOK
<1>1. CASE UNCHANGED vars
  BY <1>1 DEF vars, FilesInStep, Parted, Saves
<1>2. CASE Edit
  <2>1. UNCHANGED <<stored, person, flight, place, photo, generation, unsure, crossed>>
    BY <1>0, <1>2, Editing
  <2>. QED
    BY <2>1 DEF FilesInStep, Parted, Saves
<1>3. CASE Closed
  BY <1>3 DEF Closed, FilesInStep
<1>4. ASSUME NEW r, SentAs(r) PROVE FilesInStep'
  <2>1. /\ UNCHANGED <<stored, person, place, photo, generation, unsure>> /\ flight' = flight \cup {r}
        /\ r.answer = "none" /\ r.kind # "content" /\ (~crossed' => ~crossed)
    BY <1>4 DEF SentAs
  <2>2. Parted => Parted'
    BY <2>1 DEF Parted, Done
  <2>. QED
    BY <2>1, <2>2 DEF FilesInStep, Saves, Done
<1>5. ASSUME NEW r, NEW s, ServedAs(r, s) PROVE FilesInStep'
  <2>. SUFFICES ASSUME place = "open", person # Nothing, unsure = {}, ~crossed PROVE FilesInStep'
    BY <1>5 DEF FilesInStep, ServedAs
  <2>1. /\ r \in flight /\ flight' = (flight \ {r}) \cup {s}
        /\ UNCHANGED <<person, place, photo, generation, unsure, crossed>>
        /\ s.file = r.file /\ s.kind = r.kind /\ s.n = r.n
    BY <1>5 DEF ServedAs
  <2>2. stored' # Nothing => Parted'
    <3>. SUFFICES ASSUME stored' # Nothing PROVE Parted'
      OBVIOUS
    <3>1. stored # Nothing
      BY <1>5, ServedFiles
    <3>. QED
      BY <1>5, <3>1, ServedParted DEF FilesInStep
  <2>3. ASSUME NEW q \in Saves', Done(q)
        PROVE q.person.files = stored'.files /\ q.person.photo = stored'.photo
    <3>1. CASE q = s
      BY <1>5, <2>1, <2>3, <3>1, ServedRows DEF Saves, Done
    <3>2. CASE q # s
      <4>1. q \in Saves /\ r.kind \notin FileKinds \cup {"save", "delete"}
        BY <2>1, <2>3, <3>2, OneSave, NotCrossed DEF Saves
      <4>2. CASE stored' # Nothing
        <5>1. stored'.files = stored.files /\ stored'.photo = stored.photo
          BY <1>5, <4>1, <4>2, ServedFiles DEF FileKinds
        <5>. QED
          BY <2>3, <4>1, <5>1 DEF FilesInStep
      <4>3. CASE stored' = Nothing
        <5>1. stored' = stored
          BY <1>0, <1>5, <4>1, <4>3, ServedRows
        <5>. QED
          BY <2>3, <4>1, <5>1 DEF FilesInStep
      <4>. QED
        BY <4>2, <4>3
    <3>. QED
      BY <3>1, <3>2
  <2>4. /\ \A q \in flight' : q.kind = "content" /\ q.n = generation => q.file = person.photo
        /\ photo \in {Nothing, person.photo}
    BY <2>1 DEF FilesInStep
  <2>. QED
    BY <2>1, <2>2, <2>3, <2>4 DEF FilesInStep
<1>6. ASSUME NEW r, NEW C, AnsweredAs(r, C) PROVE FilesInStep'
  <2>. SUFFICES ASSUME person' # Nothing, unsure' = {}, ~crossed PROVE FilesInStep'
    BY <1>6 DEF FilesInStep, AnsweredAs
  <2>1. /\ r \in flight /\ flight' = (flight \ {r}) \cup C /\ UNCHANGED <<stored, place, crossed>> /\ place = "open"
        /\ \A c \in C : c.kind = "content" /\ c.n = r.n
    BY <1>6 DEF AnsweredAs
  <2>2. AnsweredWith(r, C)
    BY <1>6, AnsweredFiles
  <2>3. \A q \in flight : q.n = r.n => q = r
    BY <1>0, <2>1 DEF Numbered
  <2>4. CASE person = Nothing
    <3>1. person' = stored /\ flight' = C /\ photo' = Nothing /\ \A c \in C : c.file = person'.photo
      BY <2>2, <2>4 DEF AnsweredWith
    <3>2. Parted'
      BY <2>1, <3>1 DEF Parted
    <3>. QED
      BY <2>1, <3>1, <3>2 DEF FilesInStep, Saves
  <2>5. CASE person # Nothing /\ r.kind = "save" /\ Done(r)
    <3>1. unsure = {} /\ person' = r.person /\ C = {} /\ UNCHANGED <<photo, generation>>
      BY <2>2, <2>5 DEF AnsweredWith
    <3>2. /\ person'.files = stored.files /\ person'.photo = stored.photo
          /\ \A q \in flight' : q \in flight /\ q.kind \notin FileKinds \cup {"save"}
      BY <2>1, <2>5, <3>1, OneSave, NotCrossed DEF FilesInStep, Saves
    <3>3. stored # Nothing => stored.photo = person.photo
      <4>1. \A q \in flight : q.kind \notin FileKinds
        BY <2>1, <2>5, NotCrossed
      <4>. QED
        BY <2>1, <2>5, <3>1, <4>1 DEF FilesInStep, Parted, FileKinds
    <3>4. stored # Nothing
      BY <2>1, <2>5, <3>1, OneSave DEF FlightInv, GoneByDeletion
    <3>5. Parted'
      BY <2>1, <3>2 DEF Parted, FileKinds
    <3>. QED
      BY <2>1, <2>5, <3>1, <3>2, <3>3, <3>4, <3>5 DEF FilesInStep, Saves
  <2>6. CASE person # Nothing /\ (r.kind # "save" \/ ~Done(r))
    <3>1. unsure = {}
      BY <2>2, <2>6 DEF AnsweredWith
    <3>2. stored # Nothing => Parted'
      BY <1>6, <2>1, <2>6, <3>1, AnsweredParted DEF FilesInStep
    <3>3. \A q \in Saves' : Done(q) => q.person.files = stored.files /\ q.person.photo = stored.photo
      BY <2>1, <2>6, <3>1 DEF FilesInStep, Saves
    <3>4. /\ \A q \in flight' : q.kind = "content" /\ q.n = generation' => q.file = person'.photo
          /\ photo' \in {Nothing, person'.photo}
      <4>1. CASE r.kind \in {"photo", "no_photo"} /\ Done(r)
        BY <2>1, <2>2, <2>3, <2>6, <4>1 DEF AnsweredWith
      <4>2. CASE r.kind = "content" /\ C = {} /\ person' = person /\ generation' = generation
                 /\ photo' = IF r.n = generation THEN r.file ELSE photo
        BY <2>1, <2>6, <3>1, <4>2 DEF FilesInStep
      <4>3. CASE C = {} /\ person'.photo = person.photo /\ UNCHANGED <<photo, generation>>
        BY <2>1, <2>6, <3>1, <4>3 DEF FilesInStep
      <4>. QED
        BY <2>2, <2>6, <4>1, <4>2, <4>3 DEF AnsweredWith
    <3>. QED
      BY <2>1, <3>2, <3>3, <3>4 DEF FilesInStep
  <2>. QED
    BY <2>4, <2>5, <2>6
<1>. QED
  BY <1>1, <1>2, <1>3, <1>4, <1>5, <1>6, Steps

\* The page shows what is stored.
LEMMA PageShowsStored == ASSUME IInv PROVE ShownAsStored
<1>. SUFFICES ASSUME place = "open", person # Nothing, ~crossed, unsure = {} PROVE ShownAsStored
  BY DEF ShownAsStored
<1>0. TypeOK /\ FlightInv /\ InStep /\ FilesInStep /\ Nothing \notin PersonType
  BY PageAssumption DEF IInv, FormInv, FlightInv
<1>1. photo \in {Nothing, person.photo}
  BY <1>0 DEF FilesInStep
<1>2. ASSUME {r \in flight : r.kind # "content"} = {} PROVE person = stored
  <2>1. \A r \in flight : r.kind = "content"
    BY <1>2
  <2>2. stored # Nothing
    BY <1>0, <2>1 DEF FlightInv, GoneByDeletion
  <2>3. stored \in PersonType /\ person \in PersonType
    BY <1>0, <2>2 DEF TypeOK
  <2>4. stored.text = person.text /\ stored.relations = person.relations
    BY <1>0, <2>1, <2>2 DEF InStep, Saves
  <2>5. stored.files = person.files /\ stored.photo = person.photo
    BY <1>0, <2>1, <2>2 DEF FilesInStep, Parted
  <2>. QED
    BY <2>3, <2>4, <2>5 DEF PersonType
<1>. QED
  BY <1>1, <1>2 DEF ShownAsStored

\* At first there is no file but those stored.
LEMMA InitAll == ASSUME Init PROVE IInv
<1>. DEFINE r == Request(1, "load", Nothing)
<1>1. r.kind = "load" /\ r.file = Nothing /\ r.answer = "none" /\ r.person = Nothing
  BY PageAssumption, RequestTyped DEF Kinds
<1>2. person = Nothing /\ stored = AtFirst /\ flight = {r}
  BY DEF Init
<1>. HIDE DEF r
<1>3. FilesNumbered
  BY <1>1, <1>2 DEF FilesNumbered, Known, Done
<1>. QED
  BY <1>2, <1>3, InitForm DEF IInv, Attaching, FilesInStep

\* The invariant holds.
THEOREM Invariance == Spec => []IInv
<1>1. Init => IInv
  BY InitAll
<1>2. IInv /\ [Next]_vars => IInv'
  <2>. SUFFICES ASSUME IInv, [Next]_vars PROVE IInv'
    OBVIOUS
  <2>1. FlightInv
    BY DEF IInv, FormInv
  <2>. QED
    BY <2>1, FormStep, FilesNumberedStep, AttachingStep, FilesInStepStep DEF IInv
<1>. QED
  BY <1>1, <1>2, PTL DEF Spec

\* Requests, people and forms are what the page and the API exchange.
THEOREM TypeCorrect == Spec => []TypeOK
<1>1. IInv => TypeOK
  BY DEF IInv, FormInv, FlightInv
<1>. QED
  BY <1>1, Invariance, PTL

\* Whatever order answers come in, no edit is lost without a question or a reason
\* (person-detail.component.ts: hasUnsavedChanges, savePerson, patchPerson).
THEOREM NoEditLost == Spec => []EditsKept
<1>1. IInv => EditsKept
  BY EditsAreKept DEF IInv
<1>. QED
  BY <1>1, Invariance, PTL

\* Whatever order answers come in, the page shows the person, the files and the photo that
\* are stored once nothing waits for an answer (person-detail.component.ts: loadPhoto, patchPerson).
THEOREM PageShowsWhatIsStored == Spec => []ShownAsStored
<1>1. IInv => ShownAsStored
  BY PageShowsStored
<1>. QED
  BY <1>1, Invariance, PTL
=============================================================================
