------------------------- MODULE KnowledgeGraphProofs -------------------------
(***************************************************************************)
(* Proofs about KnowledgeGraph, for any number of concurrent requests.     *)
(* Whatever statements of different transactions interleave, committed     *)
(* rows respect the unique indexes and the foreign keys, and with them two *)
(* people are joined once by a type.  The constraints are checked against  *)
(* what one transaction sees; that they hold of what is committed depends  *)
(* on which statements wait for which transactions.                        *)
(*                                                                         *)
(* A call that is refused has committed nothing, though the provider may   *)
(* commit after the exception: it depends on where in its program every    *)
(* call refuses.  Only the deletion of an item that has lost a race for    *)
(* one of its files may have deleted others of them.  And a call changes   *)
(* its author's rows only, whatever ids it is given, because it looks them *)
(* up by id and author.                                                    *)
(*                                                                         *)
(* A call answers 500 only if another changed the graph under it.  What it *)
(* has counted or read at one step, and relies on at a later one, is still *)
(* there as long as nobody commits in between.                             *)
(*                                                                         *)
(* The two people of a relationship see the same one, and the page that an *)
(* update nobody overtook is answered with shows what was asked for: the   *)
(* rows a request has written stay in its view until it has read them.     *)
(***************************************************************************)
EXTENDS KnowledgeGraph, FiniteSetTheorems, TLAPS

-----------------------------------------------------------------------------
(* Rows and the keys they provide and refer to.                             *)

\* One row has one place in the tables.
LEMMA ClashFacts ==
  /\ \A a, b : Clash(a, b) => Clash(b, a)
  /\ \A a, b \in Row : Provides(a) \cap Provides(b) # {} => Clash(a, b)
<1>1. \A a, b : Clash(a, b) => Clash(b, a)
  BY DEF Clash
<1>2. ASSUME NEW a \in Row, NEW b \in Row, NEW k \in Provides(a), k \in Provides(b)
      PROVE  Clash(a, b)
  BY <1>2 DEF Row, ItemRow, TagRow, ItemTagRow, TypeRow, RelationshipRow, LinkRow, FileRow, Kinds,
     Provides, Key, Clash
<1>. QED
  BY <1>1, <1>2

\* Rows that go with others provide no key, and the keys they go with are those of items.
LEMMA CascadeFacts ==
  ASSUME NEW a \in Row, NEW k \in CascadesFrom(a)
  PROVE  Provides(a) = {} /\ k.table \in {"item", "person", "date"}
BY DEF Row, ItemRow, TagRow, ItemTagRow, TypeRow, RelationshipRow, LinkRow, FileRow, CascadesFrom,
   Provides, Key

\* After the deletion of an item comes the step of what goes with it.
LEMMA DeleteThenCascade ==
  ASSUME NEW op \in Operation, NEW n \in 1 .. Len(Program(op)), Program(op)[n] = "delete"
  PROVE  n + 1 \in 1 .. Len(Program(op)) /\ Program(op)[n + 1] = "cascade"
<1>1. CASE op = "delete_person"
  BY <1>1 DEF Program, Programs, PeopleEndpoint, DeletePerson
<1>2. CASE op = "delete_date"
  BY <1>2 DEF Program, Programs, DatesEndpoint, DeleteDate
<1>3. CASE op = "update_person"
  BY <1>3 DEF Program, Programs, PeopleEndpoint, UpdatePerson, UpdateItem, GetPerson
<1>4. CASE op \in {"get_person", "list_people", "create_person"}
  BY <1>4 DEF Program, Programs, PeopleEndpoint, GetPerson, ListPeople, CreatePerson
<1>5. CASE op \in {"get_date", "list_dates", "create_date"}
  BY <1>5 DEF Program, Programs, DatesEndpoint, GetDate, ListDates, CreateDate
<1>6. CASE op = "update_date"
  BY <1>6 DEF Program, Programs, DatesEndpoint, UpdateDate, UpdateItem, GetDate
<1>7. CASE op \in {"create_type", "update_type", "delete_type", "create_tag", "update_tag",
                   "delete_tag", "calendar", "upload_attachment", "delete_attachment"}
  BY <1>7 DEF Program, Programs, TypesEndpoint, TagsEndpoint, Calendar, CreateType, UpdateType,
     DeleteType, CreateTag, UpdateTag, DeleteTag, FilesEndpoint, UploadAttachment, DeleteAttachment
<1>. QED
  BY <1>1, <1>2, <1>3, <1>4, <1>5, <1>6, <1>7 DEF Operation

\* A program is finite.
LEMMA ProgramLength == \A op \in Operation : Len(Program(op)) \in Nat
<1>. SUFFICES ASSUME NEW op \in Operation PROVE Len(Program(op)) \in Nat
  OBVIOUS
<1>1. CASE op \in {"get_person", "list_people", "create_person", "update_person", "delete_person"}
  BY <1>1 DEF Program, Programs, PeopleEndpoint, GetPerson, ListPeople, CreatePerson, UpdatePerson,
     UpdateItem, DeletePerson
<1>2. CASE op \in {"get_date", "list_dates", "create_date", "update_date", "delete_date"}
  BY <1>2 DEF Program, Programs, DatesEndpoint, GetDate, ListDates, CreateDate, UpdateDate, UpdateItem,
     DeleteDate
<1>3. CASE op \in {"create_type", "update_type", "delete_type", "create_tag", "update_tag",
                   "delete_tag", "calendar", "upload_attachment", "delete_attachment"}
  BY <1>3 DEF Program, Programs, TypesEndpoint, TagsEndpoint, Calendar, CreateType, UpdateType,
     DeleteType, CreateTag, UpdateTag, DeleteTag, FilesEndpoint, UploadAttachment, DeleteAttachment
<1>. QED
  BY <1>1, <1>2, <1>3 DEF Operation

-----------------------------------------------------------------------------
(* What a statement deletes and inserts.                                    *)

\* Types, as far as they matter: rows are rows, and the loop over the changed relationships
\* of a page stays within them.
Shape ==
  /\ rows \subseteq Row
  /\ plus \in [Requests -> SUBSET Row] /\ minus \in [Requests -> SUBSET Row]
  /\ aborted \in [Requests -> BOOLEAN]
  /\ pc = [r \in Requests |-> pc[r]]
  /\ call \in [Requests -> Call]
  /\ seen = [r \in Requests |-> seen[r]]
  /\ \A r \in Requests :
       /\ "changed" \in DOMAIN seen[r] /\ seen[r].changed \in Nat
       /\ seen[r].changed = 0 \/ seen[r].changed < Len(call[r].update)

\* A statement deletes rows it sees.
LEMMA DeletedSeen ==
  ASSUME Shape, NEW r \in Requests
  PROVE  View(r) \subseteq Row /\ Deleted(r) \subseteq View(r)
<1>1. View(r) \subseteq Row
  BY DEF Shape, View
<1>2. Deleted(r) \subseteq View(r)
  BY DEF Deleted, ItemOf, DeletedItem, ItemsById, ItemTagsOf, ChangedRelationship, RelationshipsOf,
     DeletedRelationships, LinksOfDates, TypesById, DeletedType, TagsById, DeletedTag, FilesById,
     FilesOf, AnyItem
<1>. QED
  BY <1>1, <1>2

\* The relationship that an update writes in its present turn is one of those asked for.
LEMMA PresentChange ==
  ASSUME Shape, NEW r \in Requests, call[r].update # <<>>
  PROVE  call[r].update[seen[r].changed + 1] \in Value
<1>1. call[r].update \in Seq(Value)
  BY DEF Shape, Call
<1>2. Len(call[r].update) \in Nat /\ Len(call[r].update) > 0
  BY <1>1
<1>3. seen[r].changed \in Nat /\ (seen[r].changed = 0 \/ seen[r].changed < Len(call[r].update))
  BY DEF Shape
<1>4. seen[r].changed + 1 \in 1 .. Len(call[r].update)
  BY <1>2, <1>3
<1>. QED
  BY <1>1, <1>4

\* It inserts well-typed rows, and what others may go with is taken away by "delete" only.
LEMMA StatementFacts ==
  ASSUME Shape, NEW r \in Requests
  PROVE  /\ Inserted(r) \subseteq Row
         /\ Step(r) # "delete" => \A k \in Gone(r) : k.table \notin {"item", "person", "date"}
<1>1. Deleted(r) \subseteq Row
  BY DeletedSeen
<1>2. call[r] \in Call /\ r \in Stamps
  BY GraphAssumption DEF Shape
<1>3. CASE Step(r) \in {"item", "touch", "touch_dates", "touch_item"}
  <2>1. Inserted(r) = Stamped(Deleted(r), r)
    BY <1>3 DEF Inserted
  <2>2. \A row \in Deleted(r) : row \in ItemRow
    BY <1>1, <1>3 DEF Deleted, ItemOf, ItemsById, AnyItem, Row, TagRow, ItemTagRow, TypeRow,
       RelationshipRow, LinkRow, FileRow
  <2>3. \A row \in Deleted(r) : /\ [row EXCEPT !.stamp = r] \in ItemRow
                              /\ Provides([row EXCEPT !.stamp = r]) = Provides(row)
    BY <1>2, <2>2 DEF ItemRow, Provides
  <2>4. Inserted(r) = {[row EXCEPT !.stamp = r] : row \in Deleted(r)}
    BY <2>1 DEF Stamped
  <2>5. Inserted(r) \subseteq Row
    BY <2>3, <2>4 DEF Row
  <2>6. Provided(Deleted(r)) \subseteq Provided(Inserted(r))
    BY <2>3, <2>4 DEF Provided
  <2>. QED
    BY <2>5, <2>6 DEF Gone
<1>4. CASE Step(r) \in {"insert_item", "insert_type", "insert_tag"}
  <2>1. Deleted(r) = {}
    BY <1>4 DEF Deleted
  <2>. QED
    BY <1>2, <1>4, <2>1 DEF Inserted, Gone, Provided, Call, Item, RelationshipType, Tag, KindOf,
       Row, ItemRow, TypeRow, TagRow, Kinds
<1>5. CASE Step(r) \in {"tag", "link"}
  <2>1. Deleted(r) = {}
    BY <1>5 DEF Deleted
  <2>. QED
    BY <1>2, <1>5, <2>1 DEF Inserted, Gone, Provided, Call, ItemTag, Link, Row, ItemTagRow, LinkRow, FileRow
<1>6. ASSUME NEW value \in Value
      PROVE  RelationshipFrom(value, call[r].id, call[r].author) \in Row
  BY <1>2, <1>6 DEF Call, Value, RelationshipFrom, Row, RelationshipRow
<1>7. CASE Step(r) = "create"
  <2>1. Deleted(r) = {}
    BY <1>7 DEF Deleted
  <2>2. Inserted(r) = {RelationshipFrom(value, call[r].id, call[r].author) : value \in call[r].create}
    BY <1>7 DEF Inserted
  <2>. QED
    BY <1>2, <1>6, <2>1, <2>2 DEF Gone, Provided, Call
<1>8. CASE Step(r) = "change"
  <2>1. \A row \in Deleted(r) : row.table = "relationship"
    BY <1>8 DEF Deleted, ChangedRelationship, RelationshipsOf
  <2>2. Inserted(r) \subseteq Row
    BY <1>6, <1>8, PresentChange DEF Inserted, Deleted
  <2>. QED
    BY <2>1, <2>2 DEF Gone, Provided, Provides
<1>9. CASE Step(r) = "set_type"
  <2>1. Inserted(r) = {[row EXCEPT !.symmetric = call[r].symmetric] : row \in Deleted(r)}
    BY <1>9 DEF Inserted, ChangedType
  <2>2. \A row \in Deleted(r) : row \in TypeRow
    BY <1>1, <1>9 DEF Deleted, TypesById, Row, ItemRow, TagRow, ItemTagRow, RelationshipRow, LinkRow, FileRow
  <2>3. Inserted(r) \subseteq TypeRow
    BY <1>2, <2>1, <2>2 DEF TypeRow, Call
  <2>4. \A row \in Deleted(r) : \A k \in Provides(row) : k.table = "type"
    BY <2>2 DEF TypeRow, Provides, Key
  <2>. QED
    BY <2>3, <2>4 DEF Gone, Provided, Row
<1>10. CASE Step(r) = "set_tag"
  <2>1. Inserted(r) = {[row EXCEPT !.name = call[r].name] : row \in Deleted(r)}
    BY <1>10 DEF Inserted, RenamedTag
  <2>2. \A row \in Deleted(r) : row \in TagRow
    BY <1>1, <1>10 DEF Deleted, TagsById, Row, ItemRow, TypeRow, ItemTagRow, RelationshipRow, LinkRow, FileRow
  <2>3. Inserted(r) \subseteq TagRow
    BY <1>2, <2>1, <2>2 DEF TagRow, Call
  <2>4. \A row \in Deleted(r) : \A k \in Provides(row) : k.table = "tag"
    BY <2>2 DEF TagRow, Provides, Key
  <2>. QED
    BY <2>3, <2>4 DEF Gone, Provided, Row
<1>12. CASE Step(r) = "attach"
  <2>1. Deleted(r) = {}
    BY <1>12 DEF Deleted
  <2>. QED
    BY <1>2, <1>12, <2>1 DEF Inserted, Gone, Provided, Call, File, Row, FileRow
<1>11. CASE Step(r) \notin {"item", "touch", "touch_dates", "touch_item", "insert_item", "insert_type",
                           "insert_tag", "tag", "link", "create", "change", "set_type", "set_tag",
                           "attach"}
  <2>1. Inserted(r) = {}
    BY <1>11 DEF Inserted
  <2>2. ASSUME Step(r) # "delete", NEW row \in Deleted(r)
        PROVE  \A k \in Provides(row) : k.table \notin {"item", "person", "date"}
    <3>1. CASE Step(r) = "cascade"
      <4>1. CascadesFrom(row) # {}
        BY <2>2, <3>1 DEF Deleted
      <4>. QED
        BY <1>1, <4>1, CascadeFacts
    <3>2. CASE Step(r) # "cascade"
      <4>1. row.table \in {"item_tag", "relationship", "link", "type", "tag", "file"}
        BY <1>11, <2>2, <3>2 DEF Deleted, ItemTagsOf, DeletedRelationships, LinksOfDates, DeletedType,
           DeletedTag, TypesById, TagsById, FilesById, FilesOf
      <4>. QED
        BY <4>1 DEF Provides, Key
    <3>. QED
      BY <3>1, <3>2
  <2>. QED
    BY <2>1, <2>2 DEF Gone, Provided
<1>. QED
  BY <1>3, <1>4, <1>5, <1>7, <1>8, <1>9, <1>10, <1>11, <1>12

-----------------------------------------------------------------------------
(* The inductive invariant.                                                 *)

Unique(view) == \A a, b \in view : Clash(a, b) => a = b
RestrictKept(view) == \A a \in view : RestrictedBy(a) \subseteq Provided(view)
CascadeKept(view) == \A a \in view : CascadesFrom(a) \subseteq Provided(view)

\* Transactions that are open together have replaced different rows, have written rows that
\* may stand together, and none refers to what another has taken away.
Apart ==
  \A r \in Requests : \A q \in Requests \ {r} :
    /\ minus[r] \cap minus[q] = {}
    /\ \A a \in plus[r] :
         /\ \A b \in plus[q] : ~Clash(a, b)
         /\ References(a) \cap (Provided(minus[q]) \ Provided(plus[q])) = {}

\* What is committed, and what each transaction sees, satisfies the constraints; only
\* between the deletion of an item and what goes with it are cascading references open.
Consistent ==
  /\ Unique(rows) /\ RestrictKept(rows) /\ CascadeKept(rows)
  /\ \A r \in Requests :
       /\ minus[r] \subseteq rows
       /\ Unique(View(r))
       /\ ~aborted[r] => RestrictKept(View(r))
       /\ ~aborted[r] /\ Step(r) # "cascade" => CascadeKept(View(r))

GraphInv == Shape /\ Apart /\ Consistent

\* Of two rows that may stand together only one provides a key.
LEMMA OneProvider ==
  ASSUME NEW V, V \subseteq Row, Unique(V), NEW a \in V, NEW b \in V, NEW k,
         k \in Provides(a), k \in Provides(b)
  PROVE  a = b
BY ClashFacts DEF Unique

-----------------------------------------------------------------------------
(* Steps that write nothing.                                                *)

Quiet(r) ==
  /\ UNCHANGED <<rows, plus, minus, call>>
  /\ \E n : pc' = [pc EXCEPT ![r] = n]
  /\ \/ UNCHANGED aborted /\ Step(r) # "cascade"
     \/ aborted' = [aborted EXCEPT ![r] = TRUE]
  /\ \E now : /\ seen' = [seen EXCEPT ![r] = now]
              /\ "changed" \in DOMAIN now /\ now.changed = seen[r].changed

\* A read, the choice of the next row to touch, and every way to fail are such steps.
LEMMA QuietSteps ==
  ASSUME Shape, NEW r \in Requests,
         Read(r) \/ Aim(r) \/ WriteRaises(r) \/ WriteBreaks(r) \/ DeadlockVictim(r)
  PROVE  Quiet(r)
<1>0. /\ "changed" \in DOMAIN seen[r]
      /\ seen' = seen => seen' = [seen EXCEPT ![r] = seen[r]]
  <2>1. seen = [seen EXCEPT ![r] = seen[r]]
    BY DEF Shape
  <2>. QED
    BY <2>1 DEF Shape
<1>1. CASE Load(r) \/ CheckChanges(r) \/ CheckPeople(r) \/ CheckTypes(r) \/ CheckTags(r)
  BY <1>0, <1>1 DEF Load, CheckChanges, CheckPeople, CheckTypes, CheckTags, Reads, Remember, Advance,
     Fail, ToClose, tx, Quiet
<1>2. CASE RereadTypes(r) \/ ReadRelations(r) \/ ReadNames(r) \/ ReadDateIds(r) \/ ReadDateRows(r)
  BY <1>0, <1>2 DEF RereadTypes, ReadRelations, ReadNames, ReadDateIds, ReadDateRows, Reads, Remember,
     Advance, Fail, ToClose, tx, Quiet
<1>3. CASE ReadNeighbours(r) \/ ReadLinks(r) \/ FilterPerson(r) \/ ReadPage(r) \/ ReadPageRows(r)
  BY <1>0, <1>3 DEF ReadNeighbours, ReadLinks, FilterPerson, ReadPage, ReadPageRows, Reads, Remember,
     Advance, Fail, ToClose, tx, Quiet
<1>4. CASE ReadPageLinks(r) \/ ReadPageNames(r) \/ ReadMonth(r) \/ ReadMonthNames(r)
  BY <1>0, <1>4 DEF ReadPageLinks, ReadPageNames, ReadMonth, ReadMonthNames, Reads, Remember, Advance,
     Fail, ToClose, tx, Quiet
<1>5. CASE LoadType(r) \/ LoadTag(r) \/ FindName(r) \/ AskUse(r)
          \/ ListFiles(r) \/ FindItem(r) \/ FindFile(r)
  BY <1>0, <1>5 DEF LoadType, LoadTag, FindName, AskUse, ListFiles, FindItem, FindFile, Reads, Remember, Advance, Fail, ToClose, tx,
     Quiet
<1>6. CASE Aim(r)
  <2>1. Step(r) # "cascade" /\ UNCHANGED <<rows, plus, minus, aborted, call>>
    BY <1>6 DEF Aim, RowByRow, tx
  <2>2. \E n : pc' = [pc EXCEPT ![r] = n]
    <3>1. pc = [pc EXCEPT ![r] = pc[r]]
      BY DEF Shape
    <3>. QED
      BY <1>6, <3>1 DEF Aim, Advance
  <2>3. CASE UNCHANGED seen
    BY <1>0, <2>1, <2>2, <2>3 DEF Quiet
  <2>4. ASSUME NEW id, seen' = [seen EXCEPT ![r] = [seen[r] EXCEPT !.aim = id]]
        PROVE  Quiet(r)
    <3>. DEFINE now == [seen[r] EXCEPT !.aim = id]
    <3>1. "changed" \in DOMAIN now /\ now.changed = seen[r].changed
      BY <1>0
    <3>. QED
      BY <2>1, <2>2, <2>4, <3>1 DEF Quiet
  <2>. QED
    BY <1>6, <2>3, <2>4 DEF Aim, Remember
<1>7. CASE WriteRaises(r)
  BY <1>0, <1>7 DEF WriteRaises, TypeIsGone, Returning, Fail, ToClose, Quiet
<1>8. CASE WriteBreaks(r) \/ DeadlockVictim(r)
  BY <1>0, <1>8 DEF WriteBreaks, DeadlockVictim, Fail, ToClose, Quiet
<1>. QED
  BY <1>1, <1>2, <1>3, <1>4, <1>5, <1>6, <1>7, <1>8 DEF Read

\* They keep the invariant: views stay what they are.
LEMMA QuietInv ==
  ASSUME GraphInv, NEW r \in Requests, Quiet(r)
  PROVE  GraphInv'
<1>1. Shape'
  BY DEF GraphInv, Shape, Quiet
<1>2. Apart'
  BY DEF GraphInv, Apart, Quiet
<1>3. \A q \in Requests : View(q)' = View(q)
  BY DEF Quiet, View
<1>4. \A q \in Requests \ {r} : Step(q)' = Step(q)
  BY DEF Quiet, Step, Running, GraphInv, Shape
<1>5. \A q \in Requests : aborted'[q] = aborted[q] \/ (q = r /\ aborted'[q])
  BY DEF Quiet, GraphInv, Shape
<1>6. Consistent'
  <2>1. Unique(rows)' /\ RestrictKept(rows)' /\ CascadeKept(rows)'
    BY DEF Quiet, GraphInv, Consistent, Unique, RestrictKept, CascadeKept
  <2>2. ASSUME NEW q \in Requests
        PROVE  /\ (minus[q] \subseteq rows)'
               /\ Unique(View(q)')
               /\ ~aborted'[q] => RestrictKept(View(q)')
               /\ ~aborted'[q] /\ Step(q)' # "cascade" => CascadeKept(View(q)')
    <3>1. ~aborted'[q] => ~aborted[q]
      BY <1>5, <2>2
    <3>2. ~aborted'[q] /\ Step(q)' # "cascade" => Step(q) # "cascade"
      BY <1>4, <1>5, <2>2 DEF Quiet, GraphInv, Shape
    <3>. QED
      BY <1>3, <3>1, <3>2 DEF Quiet, GraphInv, Consistent
  <2>. QED
    BY <2>1, <2>2 DEF Consistent, Unique, RestrictKept, CascadeKept
<1>. QED
  BY <1>1, <1>2, <1>6 DEF GraphInv

-----------------------------------------------------------------------------
(* A statement that succeeds.                                               *)

\* What it leaves in the view of its transaction; the others see nothing of it.
LEMMA WriteViews ==
  ASSUME Shape, NEW r \in Requests, Write(r)
  PROVE  /\ plus'[r] = (plus[r] \ Deleted(r)) \cup Inserted(r)
         /\ minus'[r] = minus[r] \cup (Deleted(r) \cap rows)
         /\ View(r)' = (View(r) \ Deleted(r)) \cup Inserted(r)
         /\ \A q \in Requests \ {r} : /\ plus'[q] = plus[q]
                                      /\ minus'[q] = minus[q]
                                      /\ View(q)' = View(q)
                                      /\ Step(q)' = Step(q)
<1>1. /\ plus'[r] = (plus[r] \ Deleted(r)) \cup Inserted(r)
      /\ minus'[r] = minus[r] \cup (Deleted(r) \cap rows)
      /\ rows' = rows /\ call' = call
      /\ \A q \in Requests \ {r} : plus'[q] = plus[q] /\ minus'[q] = minus[q]
  BY DEF Write, Shape
<1>2. View(r)' = (View(r) \ Deleted(r)) \cup Inserted(r)
  BY <1>1 DEF View
<1>3. \A q \in Requests \ {r} : pc'[q] = pc[q]
  BY DEF Write, AfterWrite, Advance, Shape
<1>. QED
  BY <1>1, <1>2, <1>3 DEF View, Step, Running

\* The loop over the changed relationships ends with the last of them.
LEMMA WriteShape ==
  ASSUME Shape, NEW r \in Requests, Write(r)
  PROVE  Shape'
<1>1. /\ rows' = rows /\ call' = call /\ aborted' = aborted
      /\ plus' \in [Requests -> SUBSET Row] /\ minus' \in [Requests -> SUBSET Row]
  BY StatementFacts, DeletedSeen DEF Write, Shape
<1>2. pc' = [q \in Requests |-> pc'[q]]
  BY DEF Write, AfterWrite, Advance, Shape
<1>3. PICK now : /\ seen' = [seen EXCEPT ![r] = now]
                 /\ "changed" \in DOMAIN now
                 /\ \/ now.changed = seen[r].changed
                    \/ now.changed = seen[r].changed + 1 /\ now.changed < Len(call[r].update)
  <2>1. CASE Step(r) \in RowByRow
    BY <2>1 DEF Write, AfterWrite, Remember, Shape
  <2>2. CASE Step(r) = "change" /\ seen[r].changed + 1 < Len(call[r].update)
    BY <2>2 DEF Write, AfterWrite, RowByRow, Remember, Shape
  <2>3. CASE ~(Step(r) \in RowByRow) /\ ~(Step(r) = "change" /\ seen[r].changed + 1 < Len(call[r].update))
    BY <2>3 DEF Write, AfterWrite, Remember, Shape
  <2>. QED
    BY <2>1, <2>2, <2>3
<1>4. seen' = [q \in Requests |-> seen'[q]]
  BY <1>3 DEF Shape
<1>5. \A q \in Requests : /\ "changed" \in DOMAIN seen'[q] /\ seen'[q].changed \in Nat
                          /\ seen'[q].changed = 0 \/ seen'[q].changed < Len(call'[q].update)
  BY <1>1, <1>3 DEF Shape
<1>. QED
  BY <1>1, <1>2, <1>4, <1>5 DEF Shape

\* Waiting keeps open transactions apart.
LEMMA WriteApart ==
  ASSUME GraphInv, NEW r \in Requests, Write(r)
  PROVE  Apart'
<1>. USE WriteViews DEF GraphInv
<1>. DEFINE D == Deleted(r)
            I == Inserted(r)
<1>1. \A q \in Requests \ {r} :
        /\ D \cap minus[q] = {}
        /\ \A a \in I : \A b \in plus[q] : ~Clash(a, b)
        /\ \A a \in I : References(a) \cap (Provided(minus[q]) \ Provided(plus[q])) = {}
        /\ \A b \in plus[q] : References(b) \cap Gone(r) = {}
  BY DEF Write, Ready, Waits
<1>2. ASSUME NEW q \in Requests \ {r}
      PROVE  /\ minus'[r] \cap minus'[q] = {}
             /\ \A a \in plus'[r] :
                  /\ \A b \in plus'[q] : ~Clash(a, b)
                  /\ References(a) \cap (Provided(minus'[q]) \ Provided(plus'[q])) = {}
  BY <1>1 DEF Apart
<1>3. ASSUME NEW q \in Requests \ {r}, NEW b \in plus'[q], NEW x \in References(b),
             x \in Provided(minus'[r])
      PROVE  x \in Provided(plus'[r])
  <2>1. b \in plus[q]
    BY <1>3
  <2>2. ASSUME x \in Provided(D)
        PROVE  x \in Provided(I)
    BY <1>1, <1>3, <2>1, <2>2 DEF Gone
  <2>3. CASE x \in Provided(D)
    BY <2>2, <2>3 DEF Provided
  <2>4. CASE x \notin Provided(D)
    <3>1. x \in Provided(minus[r])
      BY <1>3, <2>4 DEF Provided
    <3>2. x \in Provided(plus[r])
      BY <1>3, <2>1, <3>1 DEF Apart
    <3>. QED
      BY <2>4, <3>2 DEF Provided
  <2>. QED
    BY <2>3, <2>4
<1>4. ASSUME NEW q \in Requests \ {r}
      PROVE  /\ minus'[q] \cap minus'[r] = {}
             /\ \A b \in plus'[q] :
                  /\ \A a \in plus'[r] : ~Clash(b, a)
                  /\ References(b) \cap (Provided(minus'[r]) \ Provided(plus'[r])) = {}
  BY <1>2, <1>3, ClashFacts
<1>5. \A p \in Requests \ {r} : \A q \in Requests \ {r, p} :
        /\ minus'[p] \cap minus'[q] = {}
        /\ \A a \in plus'[p] :
             /\ \A b \in plus'[q] : ~Clash(a, b)
             /\ References(a) \cap (Provided(minus'[q]) \ Provided(plus'[q])) = {}
  BY DEF Apart
<1>6. \A p \in Requests : \A q \in Requests \ {p} :
        /\ minus'[p] \cap minus'[q] = {}
        /\ \A a \in plus'[p] :
             /\ \A b \in plus'[q] : ~Clash(a, b)
             /\ References(a) \cap (Provided(minus'[q]) \ Provided(plus'[q])) = {}
  BY <1>2, <1>4, <1>5
<1>. QED
  BY <1>6 DEF Apart, Provided

\* A statement that breaks no constraint leaves a view that keeps them.
LEMMA WriteView ==
  ASSUME GraphInv, NEW r \in Requests, Write(r),
         NEW V, V = (View(r) \ Deleted(r)) \cup Inserted(r)
  PROVE  /\ Unique(V)
         /\ ~aborted[r] => RestrictKept(V)
         /\ ~aborted[r] /\ Step(r)' # "cascade" => CascadeKept(V)
<1>. DEFINE D == Deleted(r)
            I == Inserted(r)
            K == View(r) \ D
<1>1. /\ \A a \in I : /\ \A b \in V \ {a} : ~Clash(a, b)
                      /\ References(a) \subseteq Provided(V)
      /\ \A b \in V : RestrictedBy(b) \cap Gone(r) = {}
  BY DEF Write, Breaks, Keeps
<1>2. Unique(V)
  BY <1>1, ClashFacts DEF GraphInv, Consistent, Unique
<1>3. ASSUME NEW x \in Provided(View(r)), x \notin Gone(r)
      PROVE  x \in Provided(V)
  BY <1>3 DEF Gone, Provided
<1>4. ASSUME ~aborted[r]
      PROVE  RestrictKept(V)
  <2>1. RestrictKept(View(r))
    BY <1>4 DEF GraphInv, Consistent
  <2>2. \A a \in I : RestrictedBy(a) \subseteq Provided(V)
    BY <1>1 DEF References
  <2>3. \A a \in K : RestrictedBy(a) \subseteq Provided(V)
    BY <1>1, <1>3, <2>1 DEF RestrictKept
  <2>. QED
    BY <2>2, <2>3 DEF RestrictKept
<1>5. ASSUME ~aborted[r], Step(r)' # "cascade"
      PROVE  CascadeKept(V)
  <2>1. \A a \in I : CascadesFrom(a) \subseteq Provided(V)
    BY <1>1 DEF References
  <2>2. CASE Step(r) = "delete"
    <3>1. /\ call[r].op \in Operation /\ pc[r] \in 1 .. Len(Program(call[r].op))
          /\ Program(call[r].op)[pc[r]] = "delete"
      BY <2>2 DEF GraphInv, Shape, Call, Step, Running
    <3>2. call' = call /\ pc'[r] = pc[r] + 1
      BY <2>2 DEF Write, AfterWrite, RowByRow, Advance, GraphInv, Shape
    <3>3. Step(r)' = "cascade"
      BY <3>1, <3>2, DeleteThenCascade DEF Step, Running
    <3>. QED
      BY <1>5, <3>3
  <2>3. CASE Step(r) = "cascade"
    <3>1. D = {row \in View(r) : ~(CascadesFrom(row) \subseteq Provided(View(r)))}
      BY <2>3 DEF Deleted
    <3>2. \A row \in D : Provides(row) = {}
      BY <3>1, CascadeFacts, DeletedSeen DEF GraphInv
    <3>3. Provided(View(r)) \subseteq Provided(V)
      BY <3>2 DEF Provided
    <3>. QED
      BY <2>1, <3>1, <3>3 DEF CascadeKept
  <2>4. CASE Step(r) \notin {"delete", "cascade"}
    <3>1. CascadeKept(View(r))
      BY <1>5, <2>4 DEF GraphInv, Consistent
    <3>2. \A a \in K : \A x \in CascadesFrom(a) : x \notin Gone(r)
      BY <2>4, CascadeFacts, StatementFacts, DeletedSeen DEF GraphInv
    <3>. QED
      BY <1>3, <2>1, <3>1, <3>2 DEF CascadeKept
  <2>. QED
    BY <2>2, <2>3, <2>4
<1>. QED
  BY <1>2, <1>4, <1>5

\* A statement that succeeds keeps the invariant.
LEMMA WriteInv ==
  ASSUME GraphInv, NEW r \in Requests, Write(r)
  PROVE  GraphInv'
<1>. USE WriteViews DEF GraphInv
<1>1. Shape' /\ Apart'
  BY WriteShape, WriteApart
<1>2. /\ rows' = rows /\ aborted' = aborted
      /\ Unique(rows)' /\ RestrictKept(rows)' /\ CascadeKept(rows)'
  BY DEF Write, Consistent, Unique, RestrictKept, CascadeKept
<1>3. ASSUME NEW q \in Requests
      PROVE  /\ (minus[q] \subseteq rows)'
             /\ Unique(View(q)')
             /\ ~aborted'[q] => RestrictKept(View(q)')
             /\ ~aborted'[q] /\ Step(q)' # "cascade" => CascadeKept(View(q)')
  <2>1. CASE q = r
    <3>1. (minus[r] \subseteq rows)'
      BY <1>2 DEF Consistent
    <3>. QED
      BY <1>2, <2>1, <3>1, WriteView
  <2>2. CASE q # r
    BY <1>2, <2>2 DEF Consistent
  <2>. QED
    BY <2>1, <2>2
<1>4. Consistent'
  BY <1>2, <1>3 DEF Consistent, Unique, RestrictKept, CascadeKept
<1>. QED
  BY <1>1, <1>4

-----------------------------------------------------------------------------
(* The end of a transaction.                                                *)

\* A key that a kind of reference of the rows of a view needs is still there after another
\* transaction has committed.
LEMMA KeyKept ==
  ASSUME GraphInv, NEW q \in Requests, NEW r \in Requests \ {q},
         NEW after, after = (View(q) \ minus[r]) \cup plus[r],
         NEW a \in after, NEW x \in References(a),
         a \in View(q) => x \in Provided(View(q)),
         a \in View(r) => x \in Provided(View(r))
  PROVE  x \in Provided(after)
<1>. USE DEF GraphInv
<1>1. \A b, c \in rows : x \in Provides(b) /\ x \in Provides(c) => b = c
  BY OneProvider DEF Shape, Consistent
<1>2. minus[r] \subseteq rows /\ minus[q] \subseteq rows /\ minus[r] \cap minus[q] = {}
  BY DEF Consistent, Apart
<1>3. \A b \in View(q) : x \in Provides(b) /\ b \notin minus[r] => x \in Provided(after)
  BY DEF Provided
<1>4. \A b \in plus[r] : x \in Provides(b) => x \in Provided(after)
  BY DEF Provided
<1>5. CASE a \in plus[r]
  <2>1. PICK c \in View(r) : x \in Provides(c)
    BY <1>5 DEF View, Provided
  <2>2. CASE c \in plus[r]
    BY <1>4, <2>1, <2>2
  <2>3. CASE c \in rows \ minus[r] /\ c \notin minus[q]
    BY <1>3, <2>1, <2>3 DEF View
  <2>4. CASE c \in rows \ minus[r] /\ c \in minus[q]
    <3>1. x \in Provided(minus[q])
      BY <2>1, <2>4 DEF Provided
    <3>2. PICK d \in plus[q] : x \in Provides(d)
      BY <1>5, <3>1 DEF Apart, Provided
    <3>3. d \notin minus[r]
      BY <1>1, <1>2, <2>1, <2>4, <3>2
    <3>. QED
      BY <1>3, <3>2, <3>3 DEF View
  <2>. QED
    BY <2>1, <2>2, <2>3, <2>4 DEF View
<1>6. CASE a \in plus[q] /\ a \notin plus[r]
  <2>1. PICK b \in View(q) : x \in Provides(b)
    BY <1>6 DEF View, Provided
  <2>2. CASE b \in minus[r]
    <3>1. x \in Provided(minus[r])
      BY <2>1, <2>2 DEF Provided
    <3>. QED
      BY <1>4, <1>6, <3>1 DEF Apart, Provided
  <2>. QED
    BY <1>3, <2>1, <2>2
<1>7. CASE a \notin plus[q] /\ a \notin plus[r]
  <2>1. a \in View(q) /\ a \in View(r)
    BY <1>7 DEF View
  <2>2. PICK b \in View(q) : x \in Provides(b)
    BY <2>1 DEF Provided
  <2>3. PICK c \in View(r) : x \in Provides(c)
    BY <2>1 DEF Provided
  <2>4. CASE b \in minus[r] /\ c \notin plus[r]
    BY <1>1, <1>2, <2>2, <2>3, <2>4 DEF View
  <2>. QED
    BY <1>3, <1>4, <2>2, <2>3, <2>4
<1>. QED
  BY <1>5, <1>6, <1>7

\* What ending changes, whichever way.
LEMMA EndsFacts ==
  ASSUME Shape, NEW q \in Requests, Ends(q), rows' \subseteq Row
  PROVE  /\ Shape' /\ aborted' = aborted
         /\ plus'[q] = {} /\ minus'[q] = {}
         /\ \A r \in Requests \ {q} : /\ plus'[r] = plus[r]
                                      /\ minus'[r] = minus[r]
                                      /\ Step(r)' = Step(r)
<1>1. Shape'
  BY DEF Ends, Shape
<1>2. /\ plus'[q] = {} /\ minus'[q] = {} /\ aborted' = aborted /\ call' = call
      /\ \A r \in Requests \ {q} : plus'[r] = plus[r] /\ minus'[r] = minus[r] /\ pc'[r] = pc[r]
  BY DEF Ends, Shape
<1>. QED
  BY <1>1, <1>2 DEF Step, Running

\* The end of a transaction leaves the others apart, which they were already.
LEMMA EndsApart ==
  ASSUME GraphInv, NEW q \in Requests, Ends(q), rows' \subseteq Row
  PROVE  Apart'
<1>1. Provided({}) = {}
  BY DEF Provided
<1>2. \A p \in Requests : \A r \in Requests \ {p} :
        /\ minus'[p] \cap minus'[r] = {}
        /\ \A a \in plus'[p] :
             /\ \A b \in plus'[r] : ~Clash(a, b)
             /\ References(a) \cap (Provided(minus'[r]) \ Provided(plus'[r])) = {}
  BY <1>1, EndsFacts DEF GraphInv, Apart
<1>. QED
  BY <1>2 DEF Apart, Provided

\* So does a commit, which changes what all the others see.
LEMMA CommitInv ==
  ASSUME GraphInv, NEW q \in Requests, Commit(q)
  PROVE  GraphInv'
<1>1. Ends(q) /\ rows' = View(q) /\ ~aborted[q] /\ Step(q) = "close"
  <2>1. call[q].op \in Operation
    BY DEF GraphInv, Shape, Call
  <2>2. Len(Program(call[q].op)) + 1 \notin 1 .. Len(Program(call[q].op))
    BY <2>1, ProgramLength
  <2>. QED
    BY <2>2 DEF Commit, Step, Running
<1>2. rows' \subseteq Row
  BY <1>1, DeletedSeen DEF GraphInv
<1>3. Unique(rows') /\ RestrictKept(rows') /\ CascadeKept(rows')
  BY <1>1 DEF GraphInv, Consistent
<1>4. View(q)' = rows'
  BY <1>1, <1>2, EndsFacts DEF View, GraphInv
<1>5. ASSUME NEW r \in Requests \ {q}
      PROVE  /\ (minus[r] \subseteq rows)'
             /\ Unique(View(r)')
             /\ ~aborted'[r] => RestrictKept(View(r)')
             /\ ~aborted'[r] /\ Step(r)' # "cascade" => CascadeKept(View(r)')
  <2>. DEFINE V == (View(q) \ minus[r]) \cup plus[r]
  <2>1. View(r)' = V
    BY <1>1, <1>2, EndsFacts DEF View, GraphInv
  <2>2. (minus[r] \subseteq rows)'
    BY <1>1, <1>2, EndsFacts DEF View, GraphInv, Consistent, Apart
  <2>3. Unique(V)
    <3>1. \A a \in V : (a \in plus[q] /\ a \notin plus[r]) \/ a \in View(r)
      BY DEF View
    <3>2. \A a \in V : a \in plus[r] \/ a \in View(q)
      BY DEF View
    <3>3. \A a \in plus[q] : \A b \in plus[r] : ~Clash(a, b) /\ ~Clash(b, a)
      BY DEF GraphInv, Apart
    <3>. QED
      BY <3>1, <3>2, <3>3 DEF GraphInv, Consistent, Unique, View
  <2>4. ASSUME ~aborted[r]
        PROVE  RestrictKept(V)
    <3>1. RestrictKept(View(q)) /\ RestrictKept(View(r))
      BY <1>1, <2>4 DEF GraphInv, Consistent
    <3>2. ASSUME NEW a \in V, NEW x \in RestrictedBy(a)
          PROVE  x \in Provided(V)
      <4>1. x \in References(a)
        BY <3>2 DEF References
      <4>2. /\ a \in View(q) => x \in Provided(View(q))
            /\ a \in View(r) => x \in Provided(View(r))
        BY <3>1, <3>2 DEF RestrictKept
      <4>. QED
        BY <4>1, <4>2, KeyKept
    <3>. QED
      BY <3>2 DEF RestrictKept
  <2>5. ASSUME ~aborted[r], Step(r) # "cascade"
        PROVE  CascadeKept(V)
    <3>1. CascadeKept(View(q)) /\ CascadeKept(View(r))
      BY <1>1, <2>5 DEF GraphInv, Consistent
    <3>2. ASSUME NEW a \in V, NEW x \in CascadesFrom(a)
          PROVE  x \in Provided(V)
      <4>1. x \in References(a)
        BY <3>2 DEF References
      <4>2. /\ a \in View(q) => x \in Provided(View(q))
            /\ a \in View(r) => x \in Provided(View(r))
        BY <3>1, <3>2 DEF CascadeKept
      <4>. QED
        BY <4>1, <4>2, KeyKept
    <3>. QED
      BY <3>2 DEF CascadeKept
  <2>6. aborted'[r] = aborted[r] /\ Step(r)' = Step(r)
    BY <1>1, <1>2, EndsFacts DEF GraphInv
  <2>. QED
    BY <2>1, <2>2, <2>3, <2>4, <2>5, <2>6
<1>6. (minus[q] \subseteq rows)'
  BY <1>1, <1>2, EndsFacts DEF GraphInv
<1>7. Consistent'
  BY <1>3, <1>4, <1>5, <1>6 DEF Consistent, Unique, RestrictKept, CascadeKept
<1>8. Shape' /\ Apart'
  BY <1>1, <1>2, EndsFacts, EndsApart DEF GraphInv
<1>. QED
  BY <1>7, <1>8 DEF GraphInv

\* So does a rollback, which changes nothing for them.
LEMMA RollBackInv ==
  ASSUME GraphInv, NEW q \in Requests, RollBack(q)
  PROVE  GraphInv'
<1>1. Ends(q) /\ rows' = rows
  BY DEF RollBack
<1>2. rows' \subseteq Row
  BY <1>1 DEF GraphInv, Shape
<1>3. Unique(rows') /\ RestrictKept(rows') /\ CascadeKept(rows')
  BY <1>1 DEF GraphInv, Consistent
<1>4. View(q)' = rows'
  BY <1>1, <1>2, EndsFacts DEF View, GraphInv
<1>5. \A r \in Requests \ {q} : View(r)' = View(r) /\ (minus[r] \subseteq rows)'
  BY <1>1, <1>2, EndsFacts DEF View, GraphInv, Consistent
<1>6. \A r \in Requests \ {q} : aborted'[r] = aborted[r] /\ Step(r)' = Step(r)
  BY <1>1, <1>2, EndsFacts DEF GraphInv
<1>7. ASSUME NEW r \in Requests
      PROVE  /\ (minus[r] \subseteq rows)'
             /\ Unique(View(r)')
             /\ ~aborted'[r] => RestrictKept(View(r)')
             /\ ~aborted'[r] /\ Step(r)' # "cascade" => CascadeKept(View(r)')
  <2>1. CASE r = q
    <3>1. (minus[q] \subseteq rows)'
      BY <1>1, <1>2, EndsFacts DEF GraphInv
    <3>. QED
      BY <1>3, <1>4, <2>1, <3>1
  <2>2. CASE r # q
    BY <1>5, <1>6, <2>2 DEF GraphInv, Consistent
  <2>. QED
    BY <2>1, <2>2
<1>8. Consistent'
  BY <1>3, <1>7 DEF Consistent, Unique, RestrictKept, CascadeKept
<1>9. Shape' /\ Apart'
  BY <1>1, <1>2, EndsFacts, EndsApart DEF GraphInv
<1>. QED
  BY <1>8, <1>9 DEF GraphInv

-----------------------------------------------------------------------------
(* Every step of every request.                                             *)

\* Nobody has written anything, and the initial rows keep the constraints.
LEMMA InitInv ==
  ASSUME Init
  PROVE  GraphInv
<1>1. Shape
  BY GraphAssumption DEF Init, Shape, Unseen
<1>2. Apart
  BY DEF Init, Apart
<1>3. Unique(rows) /\ RestrictKept(rows) /\ CascadeKept(rows)
  BY GraphAssumption DEF Init, Unique, RestrictKept, CascadeKept, References
<1>4. \A r \in Requests : View(r) = rows /\ minus[r] = {}
  BY DEF Init, View
<1>. QED
  BY <1>1, <1>2, <1>3, <1>4 DEF GraphInv, Consistent

\* A stuttering step keeps it.
LEMMA UnchangedInv ==
  ASSUME GraphInv, UNCHANGED vars
  PROVE  GraphInv'
BY DEF vars, tx, GraphInv, Shape, Apart, Consistent, Unique, RestrictKept, CascadeKept, View, Step,
   Running, Provided

\* Two rows of relationships between the same people, of the same type, clash: a person
\* belongs to one author.
LEMMA InvGivesPairs ==
  ASSUME GraphInv
  PROVE  PairsOnce
<1>. USE DEF GraphInv, Shape, Consistent
<1>1. UNION {References(row) : row \in rows} \subseteq Provided(rows)
  BY DEF RestrictKept, CascadeKept, References
<1>2. ASSUME NEW a \in rows, NEW b \in rows, a.table = "relationship", b.table = "relationship",
             a.type = b.type, {a.source, a.target} = {b.source, b.target}
      PROVE  a = b
  <2>1. a \in RelationshipRow /\ b \in RelationshipRow
    BY <1>2 DEF Row, ItemRow, TagRow, ItemTagRow, TypeRow, LinkRow, FileRow
  <2>2. Key("type", a.type, a.author) \in Provided(rows) /\ Key("type", b.type, b.author) \in Provided(rows)
    BY <1>2 DEF RestrictKept, RestrictedBy
  <2>3. PICK s \in rows : Key("type", a.type, a.author) \in Provides(s)
    BY <2>2 DEF Provided
  <2>4. PICK t \in rows : Key("type", b.type, b.author) \in Provides(t)
    BY <2>2 DEF Provided
  <2>5. ASSUME NEW u \in rows, NEW id, NEW author, Key("type", id, author) \in Provides(u)
        PROVE  u.table = "type" /\ u.id = id /\ u.author = author
    BY <2>5 DEF Row, ItemRow, TagRow, ItemTagRow, TypeRow, RelationshipRow, LinkRow, FileRow, Kinds, Provides, Key
  <2>6. Clash(s, t)
    BY <1>2, <2>3, <2>4, <2>5 DEF Clash
  <2>7. a.author = b.author
    BY <2>3, <2>4, <2>5, <2>6 DEF Unique
  <2>8. a.source \in Nat /\ a.target \in Nat /\ b.source \in Nat /\ b.target \in Nat
    BY <2>1, IdsAreOrdered DEF RelationshipRow
  <2>9. \/ a.source = b.source /\ a.target = b.target
        \/ a.source = b.target /\ a.target = b.source
    BY <1>2
  <2>10. PairKey(a) = PairKey(b)
    BY <1>2, <2>7, <2>8, <2>9 DEF PairKey, Least, Greatest
  <2>. QED
    BY <1>2, <2>10 DEF Clash, Unique
<1>. QED
  BY <1>1, <1>2 DEF PairsOnce

\* Every step of every request, and stuttering, keeps the constraints.
LEMMA GraphStep == GraphInv /\ [Next]_vars => GraphInv'
<1>1. ASSUME GraphInv, NEW r \in Requests, Handle(r)
      PROVE  GraphInv'
  <2>1. CASE Read(r) \/ Aim(r) \/ WriteRaises(r) \/ WriteBreaks(r) \/ DeadlockVictim(r)
    <3>1. Quiet(r)
      BY <1>1, <2>1, QuietSteps DEF GraphInv
    <3>. QED
      BY <1>1, <3>1, QuietInv
  <2>2. CASE Write(r)
    BY <1>1, <2>2, WriteInv
  <2>3. CASE Commit(r)
    BY <1>1, <2>3, CommitInv
  <2>4. CASE RollBack(r)
    BY <1>1, <2>4, RollBackInv
  <2>. QED
    BY <1>1, <2>1, <2>2, <2>3, <2>4 DEF Handle
<1>. QED
  BY <1>1, UnchangedInv DEF Next, AllEnded

\* However any number of requests interleave, whatever they ask for and however they end,
\* two people are joined once by a type and nothing refers to what is not there.
THEOREM JoinedOnce == Spec => []PairsOnce
<1>. QED
  BY InitInv, GraphStep, InvGivesPairs, PTL DEF Spec

-----------------------------------------------------------------------------
(* What a call writes, and when.                                            *)

Creating == {"create_person", "create_date"}
Changing == {"update_person", "update_date"}
Deleting == {"delete_person", "delete_date"}
Inserting == Creating \cup {"create_type"}

\* The step of the first write of a program; past its end if it writes nothing.
FirstWrite(op) ==
  CASE op = "update_person" -> 6
    [] op \in {"update_date", "delete_person"} -> 5
    [] op = "delete_date" -> 4
    [] op \in {"delete_type", "update_tag", "delete_tag", "delete_attachment"} -> 3
    [] op \in {"update_type", "create_tag", "upload_attachment"} -> 2
    [] op \in Creating \cup {"create_type"} -> 1
    [] OTHER -> Len(Program(op)) + 1

\* The steps that can refuse with a 4xx and leave the transaction usable.
Refusing == Returning \cup {"load", "changes", "people", "types", "tags", "filter_tags",
                            "filter_person", "load_type", "load_tag", "find_name", "type_used",
                            "tag_used", "find_item", "find_file"}

Clean(r) == plus[r] = {} /\ minus[r] = {}
OwnItem(r) == \E row \in plus[r] : /\ row.table = "item" /\ row.id = call[r].id
                                   /\ row.author = call[r].author /\ row.kind = KindOf(call[r].op)

\* A deletion takes the files of its item first.
FilesOnly(r) == plus[r] = {} /\ minus[r] = FilesOf(minus[r], call[r].id, call[r].author)
ItsFiles(r, view) == FilesOf(view, call[r].id, call[r].author)

\* Whoever refuses has written nothing yet, has its item in its own view, or was to delete an
\* item and has lost a race for one of its files.
Lost(r) == call[r].op \in Deleting /\ FilesOnly(r) /\ ItsFiles(r, overtaken[r]) # {}
CleanIfRefused(r) ==
  /\ pc[r] \in 0 .. Len(Program(call[r].op)) + 1
  /\ pc[r] <= FirstWrite(call[r].op) /\ call[r].op \notin Deleting => Clean(r)
  /\ pc[r] < FirstWrite(call[r].op) => Clean(r)
  /\ call[r].op \in Deleting /\ pc[r] <= FirstWrite(call[r].op) + 1 => FilesOnly(r)
  /\ aborted[r] => ~Running(r)
  /\ outcome[r] \in Refusals => ~Running(r) /\ (aborted[r] \/ Clean(r) \/ Lost(r))
  /\ Running(r) /\ call[r].op \in Creating \cup Changing /\ pc[r] > FirstWrite(call[r].op) =>
       OwnItem(r)

RefusedClean ==
  /\ outcome = [r \in Requests |-> outcome[r]]
  /\ overtaken = [r \in Requests |-> overtaken[r]]
  /\ \A r \in Requests : CleanIfRefused(r)

\* A transaction changes rows of its author's, and what its deletion leaves dangling is
\* its author's too.
Owned ==
  \A r \in Requests :
    /\ \A row \in plus[r] \cup minus[r] : row.author = call[r].author
    /\ Step(r) = "cascade" =>
         \A row \in View(r) : \A k \in CascadesFrom(row) \ Provided(View(r)) :
           k.author = call[r].author

\* The relationships a page may remove have been checked, but for what was moved since.
OwnPage(r, row) == call[r].id \in {row.source, row.target} \/ row \in overtaken[r]
Checked ==
  \A r \in Requests : call[r].op = "update_person" =>
    /\ Running(r) /\ pc[r] > 2 =>
         \A row \in rows :
           row.table = "relationship" /\ row.id \in call[r].delete /\ row.author = call[r].author =>
             OwnPage(r, row)
    /\ \A row \in minus[r] : row.table = "relationship" => OwnPage(r, row)

\* What an item is of, it is for good: the ids of new items are new.
HasKind(id, kind) ==
  \/ \E row \in InitialRows : row.table = "item" /\ row.id = id /\ row.kind = kind
  \/ \E q \in Requests : call[q].op \in Creating /\ call[q].id = id /\ KindOf(call[q].op) = kind

\* A deletion has found its item.  The files it has listed and not taken yet are there, or
\* another call has taken them.
FilesFirst(r) ==
  LET first == FirstWrite(call[r].op)
      left == seen[r].files \ seen[r].done
  IN  /\ pc[r] > 1 => HasKind(call[r].id, KindOf(call[r].op))
      /\ pc[r] < first => seen[r].aim = Nobody /\ seen[r].done = {}
      /\ pc[r] = first =>
           /\ \A id \in left : \E row \in ItsFiles(r, View(r) \cup overtaken[r]) : row.id = id
           /\ seen[r].aim # Nobody => seen[r].aim \in left

Deletions ==
  /\ call \in Asked
  /\ \A r \in Requests : DOMAIN seen[r] = DOMAIN Unseen
  /\ \A row \in rows \cup UNION {plus[q] : q \in Requests} :
       row.table = "item" => HasKind(row.id, row.kind)
  /\ \A r \in Requests : call[r].op \in Deleting /\ Running(r) => FilesFirst(r)

RequestInv == GraphInv /\ RefusedClean /\ Deletions /\ Owned /\ Checked

\* Where the writes of a program are, and the steps that may refuse.
LEMMA ProgramFacts ==
  ASSUME NEW op \in Operation
  PROVE  /\ FirstWrite(op) \in Nat \ {0}
         /\ \A n \in 1 .. Len(Program(op)) :
              LET s == Program(op)[n]
              IN  /\ s \in Writing => FirstWrite(op) <= n
                  /\ s \in {"touch", "touch_dates", "change"} => FirstWrite(op) < n
                  /\ s \in Refusing =>
                       n <= FirstWrite(op) \/ (s = "load" /\ op \in Creating \cup Changing)
                         \/ (s = "delete" /\ op \in Deleting /\ n = FirstWrite(op) + 1)
                  /\ s \in {"files", "remove_files", "delete"} => op \in Deleting
                  /\ op \in Deleting =>
                       /\ FirstWrite(op) \in 4 .. 5 /\ Len(Program(op)) > FirstWrite(op) + 1
                       /\ s = "load" <=> n = 1
                       /\ s = "files" <=> n = FirstWrite(op) - 1
                       /\ s = "remove_files" <=> n = FirstWrite(op)
                       /\ s = "delete" <=> n = FirstWrite(op) + 1
                       /\ n < FirstWrite(op) - 1 =>
                            s \in {"load", "neighbours", "date_ids", "links"}
                  /\ op \in Creating /\ n = FirstWrite(op) => s = "insert_item"
                  /\ op \in Changing /\ n = FirstWrite(op) => s = "item"
                  /\ op \in Creating \cup Changing =>
                       s \notin {"delete", "cascade", "insert_type", "set_type", "delete_type",
                                 "insert_tag", "set_tag", "delete_tag"}
                  /\ s = "cascade" => n > 1 /\ Program(op)[n - 1] = "delete"
                  /\ op = "update_person" /\ n = 2 => s = "changes"
                  /\ op = "update_person" /\ s = "remove" => n > 2
<1>. USE DEF FirstWrite, Creating, Changing, Deleting, Refusing, Returning, RowByRow, Writing,
             Program, Programs
<1>1. CASE op = "update_person"
  BY <1>1 DEF PeopleEndpoint, UpdatePerson, UpdateItem, GetPerson
<1>2. CASE op = "update_date"
  BY <1>2 DEF DatesEndpoint, UpdateDate, UpdateItem, GetDate
<1>3. CASE op \in {"delete_person", "create_person"}
  BY <1>3 DEF PeopleEndpoint, DeletePerson, CreatePerson, GetPerson
<1>4. CASE op \in {"delete_date", "create_date"}
  BY <1>4 DEF DatesEndpoint, DeleteDate, CreateDate, GetDate
<1>5. CASE op \in {"get_person", "list_people"}
  BY <1>5 DEF PeopleEndpoint, GetPerson, ListPeople
<1>6. CASE op \in {"get_date", "list_dates"}
  BY <1>6 DEF DatesEndpoint, GetDate, ListDates
<1>7. CASE op \in {"create_type", "update_type", "delete_type"}
  BY <1>7 DEF TypesEndpoint, CreateType, UpdateType, DeleteType
<1>8. CASE op \in {"create_tag", "update_tag", "delete_tag"}
  BY <1>8 DEF TagsEndpoint, CreateTag, UpdateTag, DeleteTag
<1>9. CASE op = "calendar"
  BY <1>9 DEF Calendar
<1>10. CASE op \in {"upload_attachment", "delete_attachment"}
  BY <1>10 DEF FilesEndpoint, UploadAttachment, DeleteAttachment
<1>. QED
  BY <1>1, <1>2, <1>3, <1>4, <1>5, <1>6, <1>7, <1>8, <1>9, <1>10 DEF Operation

\* A read that goes on, and the choice of the next row to touch.
Passes(r) ==
  /\ Running(r) /\ Step(r) \notin Writing \ RowByRow
  /\ UNCHANGED <<rows, plus, minus, aborted, call, outcome, overtaken>>
  /\ pc' = [pc EXCEPT ![r] = @ + 1] \/ pc' = pc

\* A handler that raises.  What it refuses with a 4xx, it has read, or could not write.
Raises(r) ==
  /\ pc' = [pc EXCEPT ![r] = Len(Program(call[r].op)) + 1]
  /\ UNCHANGED <<rows, plus, minus, call, overtaken>>
  /\ \E how : /\ outcome' = [outcome EXCEPT ![r] = how] /\ how # "ok"
              /\ \/ aborted' = [aborted EXCEPT ![r] = TRUE]
                 \/ /\ UNCHANGED aborted
                    /\ how \in Refusals =>
                         /\ Step(r) \in Refusing
                         /\ Step(r) = "load" => ItemOf(r) = {}
                         /\ Step(r) \in Returning => Ready(r) /\ Deleted(r) = {}

\* Whatever does not write and does not end a transaction is one of the two.
LEMMA PassesOrRaises ==
  ASSUME NEW r \in Requests,
         Read(r) \/ Aim(r) \/ WriteRaises(r) \/ WriteBreaks(r) \/ DeadlockVictim(r)
  PROVE  Passes(r) \/ Raises(r)
<1>0. /\ Step(r) # "close" => Running(r)
      /\ "not_found" # "ok" /\ "conflict" # "ok" /\ "invalid" # "ok" /\ "crashed" # "ok"
  BY DEF Step
<1>. USE <1>0 DEF Reads, Remember, Advance, Fail, ToClose, tx, Passes, Raises, Refusals, Refusing,
                 Writing, Returning, RowByRow
<1>1. CASE Load(r) \/ CheckChanges(r) \/ CheckPeople(r) \/ CheckTypes(r) \/ CheckTags(r)
  BY <1>1 DEF Load, CheckChanges, CheckPeople, CheckTypes, CheckTags
<1>2. CASE RereadTypes(r) \/ ReadRelations(r) \/ ReadNames(r) \/ ReadDateIds(r) \/ ReadDateRows(r)
  BY <1>2 DEF RereadTypes, ReadRelations, ReadNames, ReadDateIds, ReadDateRows
<1>3. CASE ReadNeighbours(r) \/ ReadLinks(r) \/ FilterPerson(r) \/ ReadPage(r) \/ ReadPageRows(r)
  BY <1>3 DEF ReadNeighbours, ReadLinks, FilterPerson, ReadPage, ReadPageRows
<1>4. CASE ReadPageLinks(r) \/ ReadPageNames(r) \/ ReadMonth(r) \/ ReadMonthNames(r)
  BY <1>4 DEF ReadPageLinks, ReadPageNames, ReadMonth, ReadMonthNames
<1>5. CASE LoadType(r) \/ LoadTag(r) \/ FindName(r) \/ AskUse(r)
          \/ ListFiles(r) \/ FindItem(r) \/ FindFile(r)
  BY <1>5 DEF LoadType, LoadTag, FindName, AskUse, ListFiles, FindItem, FindFile
<1>6. CASE Aim(r)
  BY <1>6 DEF Aim
<1>7. CASE WriteRaises(r)
  <2>1. CASE Fail(r, "crashed") /\ UNCHANGED aborted
    <3>1. "crashed" \notin Refusals
      OBVIOUS
    <3>. QED
      BY <2>1, <3>1, Zenon
  <2>2. CASE Step(r) \in Returning /\ Deleted(r) = {} /\ Ready(r) /\ Fail(r, "not_found")
                /\ UNCHANGED aborted
    <3>1. Step(r) # "load"
      BY <2>2
    <3>. QED
      BY <2>2, <3>1
  <2>. QED
    BY <1>7, <2>1, <2>2 DEF WriteRaises
<1>8. CASE WriteBreaks(r) \/ DeadlockVictim(r)
  BY <1>8 DEF WriteBreaks, DeadlockVictim
<1>. QED
  BY <1>1, <1>2, <1>3, <1>4, <1>5, <1>6, <1>7, <1>8 DEF Read

-----------------------------------------------------------------------------
(* What is remembered and inserted.                                         *)

\* The first step of a call that brings a new item or type is the one that inserts it.
LEMMA InsertsAtFirst ==
  ASSUME NEW op \in Operation
  PROVE  /\ op \in Inserting => 1 <= Len(Program(op))
         /\ \A n \in 1 .. Len(Program(op)) :
              /\ Program(op)[n] \in {"insert_item", "insert_type"} => op \in Inserting
              /\ Program(op)[n] = "insert_item" => op \in Creating
              /\ op \in Inserting /\ n = 1 => Program(op)[n] \in {"insert_item", "insert_type"}
<1>. USE DEF Inserting, Creating, Program, Programs
<1>1. CASE op = "update_person"
  BY <1>1 DEF PeopleEndpoint, UpdatePerson, UpdateItem, GetPerson
<1>2. CASE op = "update_date"
  BY <1>2 DEF DatesEndpoint, UpdateDate, UpdateItem, GetDate
<1>3. CASE op \in {"delete_person", "create_person"}
  BY <1>3 DEF PeopleEndpoint, DeletePerson, CreatePerson, GetPerson
<1>4. CASE op \in {"delete_date", "create_date"}
  BY <1>4 DEF DatesEndpoint, DeleteDate, CreateDate, GetDate
<1>5. CASE op \in {"get_person", "list_people"}
  BY <1>5 DEF PeopleEndpoint, GetPerson, ListPeople
<1>6. CASE op \in {"get_date", "list_dates"}
  BY <1>6 DEF DatesEndpoint, GetDate, ListDates
<1>7. CASE op \in {"create_type", "update_type", "delete_type"}
  BY <1>7 DEF TypesEndpoint, CreateType, UpdateType, DeleteType
<1>8. CASE op \in {"create_tag", "update_tag", "delete_tag"}
  BY <1>8 DEF TagsEndpoint, CreateTag, UpdateTag, DeleteTag
<1>9. CASE op = "calendar"
  BY <1>9 DEF Calendar
<1>10. CASE op \in {"upload_attachment", "delete_attachment"}
  BY <1>10 DEF FilesEndpoint, UploadAttachment, DeleteAttachment
<1>. QED
  BY <1>1, <1>2, <1>3, <1>4, <1>5, <1>6, <1>7, <1>8, <1>9, <1>10 DEF Operation

\* An item or a type that a statement writes has the id of one it replaces, or is new.
LEMMA NewIds ==
  ASSUME Shape, NEW r \in Requests, NEW row \in Inserted(r), row.table \in {"item", "type"}
  PROVE  \/ \E d \in Deleted(r) : /\ d.table = row.table /\ d.id = row.id
                                  /\ row.table = "item" => d.kind = row.kind
         \/ /\ call[r].op \in Inserting /\ row.id = call[r].id
            /\ row.table = "item" => call[r].op \in Creating /\ row.kind = KindOf(call[r].op)
<1>1. Deleted(r) \subseteq Row /\ call[r].op \in Operation
  BY DeletedSeen DEF Shape, Call
<1>2. CASE Step(r) \in {"item", "touch", "touch_dates", "touch_item"}
  <2>1. \A d \in Deleted(r) : d \in ItemRow
    BY <1>1, <1>2 DEF Deleted, ItemOf, ItemsById, AnyItem, Row, TagRow, ItemTagRow, TypeRow, RelationshipRow,
       LinkRow, FileRow
  <2>2. PICK d \in Deleted(r) : row = [d EXCEPT !.stamp = r]
    BY <1>2 DEF Inserted, Stamped
  <2>. QED
    BY <2>1, <2>2 DEF ItemRow
<1>3. CASE Step(r) = "set_type"
  <2>1. \A d \in Deleted(r) : d \in TypeRow
    BY <1>1, <1>3 DEF Deleted, TypesById, Row, ItemRow, TagRow, ItemTagRow, RelationshipRow, LinkRow, FileRow
  <2>2. PICK d \in Deleted(r) : row = [d EXCEPT !.symmetric = call[r].symmetric]
    BY <1>3 DEF Inserted, ChangedType
  <2>. QED
    BY <2>1, <2>2 DEF TypeRow
<1>4. CASE Step(r) \in {"insert_item", "insert_type"}
  <2>1. Program(call[r].op)[pc[r]] = Step(r) /\ pc[r] \in 1 .. Len(Program(call[r].op))
    BY <1>4 DEF Step, Running
  <2>2. call[r].op \in Inserting /\ (Step(r) = "insert_item" => call[r].op \in Creating)
    BY <1>1, <1>4, <2>1, InsertsAtFirst
  <2>. QED
    BY <1>4, <2>2 DEF Inserted, Item, RelationshipType
<1>5. CASE Step(r) = "set_tag"
  <2>1. \A d \in Deleted(r) : d.table = "tag" /\ d \in TagRow
    BY <1>1, <1>5 DEF Deleted, TagsById, Row, ItemRow, TypeRow, ItemTagRow, RelationshipRow, LinkRow, FileRow
  <2>2. PICK d \in Deleted(r) : row = [d EXCEPT !.name = call[r].name]
    BY <1>5 DEF Inserted, RenamedTag
  <2>. QED
    BY <2>1, <2>2 DEF TagRow
<1>6. CASE Step(r) \notin {"item", "touch", "touch_dates", "touch_item", "set_type", "insert_item", "insert_type",
                         "set_tag"}
  BY <1>6 DEF Inserted, ItemTag, RelationshipFrom, Link, Tag, File
<1>. QED
  BY <1>2, <1>3, <1>4, <1>5, <1>6

\* What a request remembers keeps its fields.
LEMMA SeenKept ==
  ASSUME Shape, \A q \in Requests : DOMAIN seen[q] = DOMAIN Unseen, NEW r \in Requests, Handle(r)
  PROVE  \A q \in Requests : DOMAIN seen'[q] = DOMAIN Unseen
<1>0. seen = [q \in Requests |-> seen[q]] /\ \A q \in Requests : DOMAIN seen[q] = DOMAIN Unseen
  BY DEF Shape
<1>. SUFFICES seen' = seen \/ \E now : DOMAIN now = DOMAIN Unseen /\ seen' = [seen EXCEPT ![r] = now]
  BY <1>0
<1>. USE DEF Reads, Remember, Fail
<1>1. CASE Load(r) \/ CheckChanges(r) \/ CheckPeople(r) \/ CheckTypes(r) \/ CheckTags(r)
  BY <1>0, <1>1 DEF Load, CheckChanges, CheckPeople, CheckTypes, CheckTags
<1>2. CASE RereadTypes(r) \/ ReadRelations(r) \/ ReadNames(r) \/ ReadDateIds(r) \/ ReadDateRows(r)
  BY <1>0, <1>2 DEF RereadTypes, ReadRelations, ReadNames, ReadDateIds, ReadDateRows
<1>3. CASE ReadNeighbours(r) \/ ReadLinks(r) \/ FilterPerson(r) \/ ReadPage(r) \/ ReadPageRows(r)
  BY <1>0, <1>3 DEF ReadNeighbours, ReadLinks, FilterPerson, ReadPage, ReadPageRows
<1>4. CASE ReadPageLinks(r) \/ ReadPageNames(r) \/ ReadMonth(r) \/ ReadMonthNames(r)
  BY <1>0, <1>4 DEF ReadPageLinks, ReadPageNames, ReadMonth, ReadMonthNames
<1>5. CASE LoadType(r) \/ LoadTag(r) \/ FindName(r) \/ AskUse(r)
          \/ ListFiles(r) \/ FindItem(r) \/ FindFile(r)
  BY <1>0, <1>5 DEF LoadType, LoadTag, FindName, AskUse, ListFiles, FindItem, FindFile
<1>6. CASE Aim(r)
  BY <1>0, <1>6 DEF Aim
<1>7. CASE WriteRaises(r) \/ WriteBreaks(r) \/ DeadlockVictim(r)
  BY <1>7 DEF WriteRaises, WriteBreaks, DeadlockVictim
<1>8. CASE Write(r)
  BY <1>0, <1>8 DEF Write, AfterWrite
<1>9. CASE Commit(r) \/ RollBack(r)
  BY <1>9 DEF Commit, RollBack, Ends
<1>. QED
  BY <1>1, <1>2, <1>3, <1>4, <1>5, <1>6, <1>7, <1>8, <1>9 DEF Handle, Read

-----------------------------------------------------------------------------
(* Deletions, whose files go first.                                         *)

\* No id is that of a person and of a date.
LEMMA OneKind ==
  ASSUME call \in Asked, NEW id, NEW a, NEW b, HasKind(id, a), HasKind(id, b)
  PROVE  a = b
<1>. DEFINE Old(kind) == \E row \in InitialRows : row.table = "item" /\ row.id = id /\ row.kind = kind
            New(kind) == \E q \in Requests : /\ call[q].op \in Creating /\ call[q].id = id
                                            /\ KindOf(call[q].op) = kind
<1>1. Old(a) /\ Old(b) => a = b
  BY GraphAssumption DEF Clash
<1>2. \A x, y : ~(Old(x) /\ New(y))
  BY CallsAssumption DEF Creating
<1>3. New(a) /\ New(b) => a = b
  BY CallsAssumption DEF Creating
<1>. QED
  BY <1>1, <1>2, <1>3 DEF HasKind

\* Steps that write nothing: reads that go on, and ends of handlers.
LEMMA DeletionsQuiet ==
  ASSUME GraphInv, RefusedClean, Deletions, NEW r \in Requests,
         Read(r) \/ Aim(r) \/ WriteRaises(r) \/ WriteBreaks(r) \/ DeadlockVictim(r)
  PROVE  Deletions'
<1>. DEFINE op == call[r].op
            first == FirstWrite(op)
<1>0. op \in Operation /\ first \in Nat /\ Len(Program(op)) \in Nat
  BY ProgramFacts, ProgramLength DEF GraphInv, Shape, Call
<1>1. /\ rows' = rows /\ plus' = plus /\ minus' = minus /\ call' = call /\ overtaken' = overtaken
      /\ \A q \in Requests \ {r} : pc'[q] = pc[q]
      /\ pc = [q \in Requests |-> pc[q]] /\ seen = [q \in Requests |-> seen[q]]
  BY PassesOrRaises DEF Passes, Raises, GraphInv, Shape
<1>2. \A q \in Requests : DOMAIN seen'[q] = DOMAIN Unseen
  BY SeenKept DEF Handle, Deletions, GraphInv
<1>3. \A id, kind : HasKind(id, kind)' <=> HasKind(id, kind)
  BY <1>1 DEF HasKind
<1>4. \A q \in Requests \ {r} : seen'[q] = seen[q]
  BY <1>1 DEF Read, Load, CheckChanges, CheckPeople, CheckTypes, CheckTags, RereadTypes, ReadRelations,
     ReadNames, ReadDateIds, ReadDateRows, ReadNeighbours, ReadLinks, FilterPerson, ReadPage,
     ReadPageRows, ReadPageLinks, ReadPageNames, ReadMonth, ReadMonthNames, LoadType, LoadTag,
     FindName, AskUse, ListFiles, FindItem, FindFile, Reads, Remember, Fail, Aim, WriteRaises,
     WriteBreaks, DeadlockVictim
<1>5. ASSUME NEW q \in Requests \ {r}, call[q].op \in Deleting, Running(q)'
      PROVE  FilesFirst(q)'
  <2>1. FilesFirst(q)
    BY <1>1, <1>5 DEF Running, Deletions
  <2>. QED
    BY <1>1, <1>3, <1>4, <1>5, <2>1 DEF FilesFirst, ItsFiles, View
<1>6. ASSUME op \in Deleting, Running(r)'
      PROVE  FilesFirst(r)'
  <2>1. Running(r) /\ pc[r] \in 1 .. Len(Program(op)) /\ Step(r) = Program(op)[pc[r]]
    BY <1>0, <1>1, <1>6, PassesOrRaises DEF Passes, Raises, Running, Step
  <2>2. /\ FilesFirst(r) /\ first \in 4 .. 5
        /\ Step(r) = "load" <=> pc[r] = 1
        /\ Step(r) = "files" <=> pc[r] = first - 1
        /\ Step(r) = "remove_files" <=> pc[r] = first
        /\ pc[r] < first - 1 => Step(r) \in {"load", "neighbours", "date_ids", "links"}
    BY <1>0, <1>6, <2>1, ProgramFacts DEF Deletions
  <2>3. {"aim", "files", "done", "people", "dates", "links"} \subseteq DOMAIN seen[r]
    BY DEF Deletions, Unseen
  <2>9. ~WriteRaises(r) /\ ~WriteBreaks(r) /\ ~DeadlockVictim(r)
    BY <1>0, <1>1, <1>6 DEF WriteRaises, WriteBreaks, DeadlockVictim, Fail, ToClose, Running
  <2>4. pc'[r] \in {pc[r], pc[r] + 1}
    BY <1>0, <1>1, <1>6, PassesOrRaises DEF Passes, Raises, Running
  <2>5. pc'[r] > 1 => HasKind(call[r].id, KindOf(op))
    <3>1. CASE pc[r] > 1
      BY <2>2, <3>1 DEF FilesFirst
    <3>2. CASE pc[r] = 1
      <4>1. Step(r) = "load"
        BY <2>2, <3>2
      <4>2. CASE ItemOf(r) # {}
        <5>1. PICK row \in View(r) : row.table = "item" /\ row.id = call[r].id /\ row.kind = KindOf(op)
          BY <4>2 DEF ItemOf, ItemsById
        <5>. QED
          BY <5>1 DEF View, Deletions
      <4>3. CASE ItemOf(r) = {}
        <5>1. ~Running(r)'
          BY <1>0, <1>1, <4>1, <4>3 DEF Read, Load, CheckChanges, CheckPeople, CheckTypes, CheckTags,
             RereadTypes, ReadRelations, ReadNames, ReadDateIds, ReadDateRows, ReadNeighbours,
             ReadLinks, FilterPerson, ReadPage, ReadPageRows, ReadPageLinks, ReadPageNames, ReadMonth,
             ReadMonthNames, LoadType, LoadTag, FindName, AskUse, ListFiles, FindItem, FindFile, Reads,
             Fail, ToClose, Running, Aim, RowByRow, WriteRaises, WriteBreaks, DeadlockVictim
        <5>. QED
          BY <1>6, <5>1
      <4>. QED
        BY <4>2, <4>3
    <3>. QED
      BY <2>1, <3>1, <3>2
  <2>6. CASE pc[r] < first
    <3>1. /\ Step(r) \in {"load", "neighbours", "date_ids", "links", "files"}
          /\ seen[r].aim = Nobody /\ seen[r].done = {}
      BY <2>1, <2>2, <2>6 DEF FilesFirst
    <3>2. Load(r) \/ ReadNeighbours(r) \/ ReadDateIds(r) \/ ReadLinks(r) \/ ListFiles(r)
      BY <2>9, <3>1 DEF Read, Load, CheckChanges, CheckPeople, CheckTypes, CheckTags,
         RereadTypes, ReadRelations, ReadNames, ReadDateIds, ReadDateRows, ReadNeighbours,
         ReadLinks, FilterPerson, ReadPage, ReadPageRows, ReadPageLinks, ReadPageNames, ReadMonth,
         ReadMonthNames, LoadType, LoadTag, FindName, AskUse, ListFiles, FindItem, FindFile,
         Aim, RowByRow
    <3>3. /\ seen'[r].aim = Nobody /\ seen'[r].done = {}
          /\ ListFiles(r) =>
               seen'[r].files = {row.id : row \in FilesOf(View(r), call[r].id, call[r].author)}
      <4>1. ASSUME NEW how, Fail(r, how) PROVE ~Running(r)'
        BY <1>0, <1>1, <4>1 DEF Fail, ToClose, Running
      <4>3. CASE Load(r)
        <5>1. seen'[r] = seen[r] /\ ~ListFiles(r)
          BY <1>1, <1>6, <4>1, <4>3 DEF Load, Reads, Remember, ListFiles
        <5>. QED
          BY <3>1, <5>1
      <4>4. CASE ReadNeighbours(r)
        <5>1. \E x : seen'[r] = [seen[r] EXCEPT !.people = x]
          BY <1>1, <1>6, <4>1, <4>4 DEF ReadNeighbours, Reads, Remember
        <5>. QED
          BY <2>3, <3>1, <4>4, <5>1 DEF ReadNeighbours, ListFiles
      <4>5. CASE ReadDateIds(r)
        <5>1. \E x : seen'[r] = [seen[r] EXCEPT !.dates = x]
          BY <1>1, <1>6, <4>1, <4>5 DEF ReadDateIds, Reads, Remember
        <5>. QED
          BY <2>3, <3>1, <4>5, <5>1 DEF ReadDateIds, ListFiles
      <4>6. CASE ReadLinks(r)
        <5>1. \E x : seen'[r] = [seen[r] EXCEPT !.links = x]
          BY <1>1, <1>6, <4>1, <4>6 DEF ReadLinks, Reads, Remember
        <5>. QED
          BY <2>3, <3>1, <4>6, <5>1 DEF ReadLinks, ListFiles
      <4>7. CASE ListFiles(r)
        <5>. DEFINE x == {row.id : row \in FilesOf(View(r), call[r].id, call[r].author)}
        <5>1. seen'[r] = [seen[r] EXCEPT !.files = x]
          BY <1>1, <1>6, <4>1, <4>7 DEF ListFiles, Reads, Remember
        <5>. HIDE DEF x
        <5>2. seen'[r].aim = seen[r].aim /\ seen'[r].done = seen[r].done /\ seen'[r].files = x
          BY <2>3, <5>1
        <5>. QED
          BY <3>1, <5>2 DEF x
      <4>. QED
        BY <3>2, <4>3, <4>4, <4>5, <4>6, <4>7
    <3>4. ASSUME pc'[r] = first
          PROVE  seen'[r].files = {row.id : row \in FilesOf(View(r), call[r].id, call[r].author)}
      <4>1. Step(r) = "files"
        BY <2>1, <2>2, <2>4, <2>6, <3>4
      <4>2. ListFiles(r)
        BY <3>2, <4>1 DEF Load, ReadNeighbours, ReadDateIds, ReadLinks
      <4>. QED
        BY <3>3, <4>2
    <3>5. pc'[r] = first => \A id \in seen'[r].files \ seen'[r].done :
                              \E row \in ItsFiles(r, View(r) \cup overtaken[r]) : row.id = id
      BY <3>4 DEF ItsFiles, FilesOf
    <3>. QED
      BY <1>1, <1>3, <2>4, <2>5, <3>3, <3>5 DEF FilesFirst, ItsFiles, View
  <2>7. CASE pc[r] = first
    <3>1. Aim(r)
      BY <2>2, <2>7, <2>9 DEF Read, Load, CheckChanges, CheckPeople, CheckTypes, CheckTags,
         RereadTypes, ReadRelations, ReadNames, ReadDateIds, ReadDateRows, ReadNeighbours,
         ReadLinks, FilterPerson, ReadPage, ReadPageRows, ReadPageLinks, ReadPageNames, ReadMonth,
         ReadMonthNames, LoadType, LoadTag, FindName, AskUse, ListFiles, FindItem, FindFile
    <3>2. LeftToMeet(r) = seen[r].files \ seen[r].done
      BY <2>2, <2>7 DEF LeftToMeet
    <3>3. CASE LeftToMeet(r) = {}
      BY <1>1, <1>3, <2>5, <2>2, <2>7, <3>1, <3>3 DEF Aim, Advance, FilesFirst
    <3>4. CASE LeftToMeet(r) # {}
      <4>0. PICK id \in LeftToMeet(r) : Remember(r, [seen[r] EXCEPT !.aim = id])
        BY <3>1, <3>4 DEF Aim
      <4>1. seen'[r] = [seen[r] EXCEPT !.aim = id]
        BY <1>1, <4>0 DEF Remember
      <4>2. pc'[r] = pc[r]
        BY <3>1, <3>4 DEF Aim
      <4>3. /\ seen'[r].files = seen[r].files /\ seen'[r].done = seen[r].done
            /\ seen'[r].aim = id
        BY <2>3, <4>1
      <4>4. /\ \A i \in seen'[r].files \ seen'[r].done :
                 \E row \in ItsFiles(r, View(r) \cup overtaken[r])' : row.id = i
            /\ seen'[r].aim # Nobody => seen'[r].aim \in seen'[r].files \ seen'[r].done
        BY <1>1, <2>2, <2>7, <3>2, <4>3 DEF FilesFirst, ItsFiles, View
      <4>5. (pc[r] > 1 => HasKind(call[r].id, KindOf(op)))'
        BY <1>1, <1>3, <2>5
      <4>6. (pc[r] < first => seen[r].aim = Nobody /\ seen[r].done = {})'
        BY <1>0, <1>1, <2>7, <4>2
      <4>. QED
        BY <4>4, <4>5, <4>6, Zenon DEF FilesFirst
    <3>. QED
      BY <3>3, <3>4
  <2>8. CASE pc[r] > first
    BY <1>1, <1>3, <2>1, <2>2, <2>4, <2>5, <2>8 DEF FilesFirst
  <2>. QED
    BY <1>0, <2>1, <2>6, <2>7, <2>8
<1>. QED
  BY <1>1, <1>2, <1>3, <1>5, <1>6 DEF Deletions

\* A statement that succeeds: an item keeps its kind, and a file that has been taken is done.
LEMMA DeletionsWrite ==
  ASSUME GraphInv, Deletions, NEW r \in Requests, Write(r)
  PROVE  Deletions'
<1>. DEFINE op == call[r].op
            first == FirstWrite(op)
<1>0. op \in Operation /\ first \in Nat /\ Len(Program(op)) \in Nat
  BY ProgramFacts, ProgramLength DEF GraphInv, Shape, Call
<1>1. /\ rows' = rows /\ call' = call /\ overtaken' = overtaken
      /\ plus'[r] = (plus[r] \ Deleted(r)) \cup Inserted(r)
      /\ View(r)' = (View(r) \ Deleted(r)) \cup Inserted(r)
      /\ \A q \in Requests \ {r} : plus'[q] = plus[q] /\ View(q)' = View(q)
  BY WriteViews DEF Write, GraphInv
<1>2. \A q \in Requests : DOMAIN seen'[q] = DOMAIN Unseen
  BY SeenKept DEF Handle, Deletions, GraphInv
<1>3. \A id, kind : HasKind(id, kind)' <=> HasKind(id, kind)
  BY <1>1 DEF HasKind
<1>4. /\ \A q \in Requests \ {r} : seen'[q] = seen[q] /\ pc'[q] = pc[q]
      /\ Running(r)
  BY DEF Write, Ready, Writing, Returning, RowByRow, AfterWrite, Remember, Advance, GraphInv, Shape,
     Step
<1>5. ASSUME NEW row \in Inserted(r), row.table = "item"
      PROVE  HasKind(row.id, row.kind)
  <2>1. CASE \E d \in Deleted(r) : d.table = row.table /\ d.id = row.id /\ d.kind = row.kind
    <3>1. PICK d \in View(r) : d.table = "item" /\ d.id = row.id /\ d.kind = row.kind
      BY <1>5, <2>1, DeletedSeen DEF GraphInv
    <3>. QED
      BY <3>1 DEF View, Deletions
  <2>2. CASE op \in Creating /\ row.id = call[r].id /\ row.kind = KindOf(op)
    BY <2>2 DEF HasKind
  <2>. QED
    BY <1>5, <2>1, <2>2, NewIds DEF GraphInv
<1>6. \A row \in rows' \cup UNION {plus'[q] : q \in Requests} :
        row.table = "item" => HasKind(row.id, row.kind)'
  BY <1>1, <1>3, <1>5 DEF Deletions
<1>7. ASSUME NEW q \in Requests \ {r}, call[q].op \in Deleting, Running(q)'
      PROVE  FilesFirst(q)'
  <2>1. FilesFirst(q)
    BY <1>1, <1>4, <1>7 DEF Running, Deletions
  <2>. QED
    BY <1>1, <1>3, <1>4, <1>7, <2>1 DEF FilesFirst, ItsFiles
<1>8. ASSUME op \in Deleting
      PROVE  FilesFirst(r)'
  <2>1. pc[r] \in 1 .. Len(Program(op)) /\ Step(r) = Program(op)[pc[r]] /\ Step(r) \in Writing
    BY <1>4 DEF Running, Step, Write, Ready
  <2>2. /\ FilesFirst(r) /\ first \in 4 .. 5 /\ pc[r] >= first
        /\ Step(r) = "remove_files" <=> pc[r] = first
    BY <1>0, <1>4, <1>8, <2>1, ProgramFacts DEF Deletions
  <2>3. {"aim", "files", "done"} \subseteq DOMAIN seen[r]
    BY DEF Deletions, Unseen
  <2>4. HasKind(call[r].id, KindOf(op))
    BY <1>0, <2>1, <2>2 DEF FilesFirst
  <2>5. CASE Step(r) = "remove_files"
    <3>1. /\ pc'[r] = pc[r]
          /\ seen'[r] = [seen[r] EXCEPT !.done = @ \cup {seen[r].aim}, !.aim = Nobody]
      BY <2>5 DEF Write, AfterWrite, RowByRow, Remember, GraphInv, Shape
    <3>2. /\ seen'[r].files = seen[r].files /\ seen'[r].done = seen[r].done \cup {seen[r].aim}
          /\ seen'[r].aim = Nobody
      BY <2>3, <3>1
    <3>3. \A row \in Deleted(r) : row.id = seen[r].aim
      <4>1. Deleted(r) = FilesById(View(r), {seen[r].aim}, call[r].id, call[r].author)
        BY <2>5 DEF Deleted
      <4>. QED
        BY <4>1 DEF FilesById
    <3>4. ASSUME NEW id \in seen'[r].files \ seen'[r].done
          PROVE  \E row \in ItsFiles(r, View(r) \cup overtaken[r])' : row.id = id
      <4>1. PICK row \in ItsFiles(r, View(r) \cup overtaken[r]) : row.id = id
        BY <2>2, <2>5, <3>2, <3>4 DEF FilesFirst
      <4>2. row \notin Deleted(r)
        BY <3>2, <3>3, <3>4, <4>1
      <4>3. row \in ItsFiles(r, View(r) \cup overtaken[r])'
        BY <1>1, <4>1, <4>2 DEF ItsFiles, FilesOf
      <4>. QED
        BY <4>1, <4>3
    <3>5. (pc[r] > 1 => HasKind(call[r].id, KindOf(op)))'
      BY <1>1, <1>3, <2>4
    <3>6. (pc[r] < first => seen[r].aim = Nobody /\ seen[r].done = {})'
      BY <1>0, <1>1, <2>2, <2>5, <3>1
    <3>7. (\A id \in seen[r].files \ seen[r].done :
             \E row \in ItsFiles(r, View(r) \cup overtaken[r]) : row.id = id)'
      BY <3>4
    <3>. QED
      BY <3>2, <3>5, <3>6, <3>7, Zenon DEF FilesFirst
  <2>6. CASE Step(r) # "remove_files"
    <3>1. pc'[r] \in {pc[r], pc[r] + 1}
      BY <2>1 DEF Write, AfterWrite, Advance, GraphInv, Shape
    <3>2. pc'[r] \in Nat /\ pc'[r] > first
      BY <1>0, <2>1, <2>2, <2>6, <3>1
    <3>. QED
      BY <1>0, <1>1, <1>3, <2>4, <3>2 DEF FilesFirst
  <2>. QED
    BY <2>5, <2>6
<1>9. call' \in Asked
  BY <1>1 DEF Deletions
<1>. QED
  BY <1>1, <1>2, <1>6, <1>7, <1>8, <1>9 DEF Deletions

\* The end of a transaction: what it takes from others, they have been overtaken by.
LEMMA DeletionsEnds ==
  ASSUME GraphInv, Deletions, NEW r \in Requests, Commit(r) \/ RollBack(r)
  PROVE  Deletions'
<1>1. /\ call' = call /\ seen' = seen /\ pc'[r] = 0 /\ plus'[r] = {} /\ minus'[r] = {}
      /\ \A q \in Requests \ {r} : pc'[q] = pc[q] /\ plus'[q] = plus[q] /\ minus'[q] = minus[q]
      /\ rows' \subseteq rows \cup plus[r]
  BY DEF Commit, RollBack, Ends, GraphInv, Shape, View
<1>2. \A id, kind : HasKind(id, kind)' <=> HasKind(id, kind)
  BY <1>1 DEF HasKind
<1>3. \A row \in rows' \cup UNION {plus'[q] : q \in Requests} :
        row.table = "item" => HasKind(row.id, row.kind)'
  BY <1>1, <1>2 DEF Deletions
<1>4. ASSUME NEW q \in Requests, call[q].op \in Deleting, Running(q)'
      PROVE  FilesFirst(q)'
  <2>1. q # r /\ Running(q) /\ FilesFirst(q) /\ call[q].op \in Operation /\ pc[q] \in Nat
    BY <1>1, <1>4 DEF Running, Deletions, GraphInv, Shape, Call
  <2>2. FirstWrite(call[q].op) \in 4 .. 5
    <3>1. pc[q] \in 1 .. Len(Program(call[q].op))
      BY <2>1 DEF Running
    <3>. QED
      BY <1>4, <2>1, <3>1, ProgramFacts
  <2>3. ASSUME pc[q] = FirstWrite(call[q].op),
               NEW row \in ItsFiles(q, View(q) \cup overtaken[q])
        PROVE  row \in ItsFiles(q, View(q) \cup overtaken[q])'
    <3>1. CASE Commit(r)
      <4>1. overtaken'[q] = overtaken[q] \cup plus[r] \cup minus[r] /\ rows' = View(r)
        BY <2>1, <2>2, <2>3, <3>1 DEF Commit
      <4>2. row \in View(q) \cup overtaken[q] => row \in (View(q) \cup overtaken[q])'
        BY <1>1, <2>1, <4>1 DEF View
      <4>. QED
        BY <1>1, <2>3, <4>2 DEF ItsFiles, FilesOf
    <3>2. CASE RollBack(r)
      <4>1. overtaken' = overtaken /\ rows' = rows
        BY <3>2 DEF RollBack
      <4>. QED
        BY <1>1, <2>1, <2>3, <4>1 DEF ItsFiles, View
    <3>. QED
      BY <3>1, <3>2
  <2>. QED
    BY <1>1, <1>2, <2>1, <2>3 DEF FilesFirst
<1>5. call' \in Asked /\ \A q \in Requests : DOMAIN seen'[q] = DOMAIN Unseen
  BY <1>1 DEF Deletions
<1>. QED
  BY <1>1, <1>3, <1>4, <1>5 DEF Deletions

-----------------------------------------------------------------------------
(* Whoever refuses has written nothing.                                     *)

\* A deletion is refused by its own statements only if nothing is written, or a file is lost.
LEMMA DeletionRefused ==
  ASSUME GraphInv, RefusedClean, Deletions, NEW r \in Requests,
         Step(r) \in {"remove_files", "delete"}, Ready(r), Deleted(r) = {}
  PROVE  Clean(r) \/ Lost(r)
<1>. DEFINE op == call[r].op
            first == FirstWrite(op)
<1>1. Running(r) /\ pc[r] \in 1 .. Len(Program(op)) /\ Step(r) = Program(op)[pc[r]] /\ op \in Operation
  BY DEF Step, Running, GraphInv, Shape, Call
<1>2. /\ op \in Deleting /\ first \in 4 .. 5
      /\ Step(r) = "remove_files" <=> pc[r] = first
      /\ Step(r) = "delete" <=> pc[r] = first + 1
  BY <1>1, ProgramFacts
<1>3. FilesOnly(r) /\ ~aborted[r]
  BY <1>1, <1>2 DEF RefusedClean, CleanIfRefused
<1>4. CASE Step(r) = "remove_files"
  <2>1. seen[r].aim \in seen[r].files \ seen[r].done /\ FilesFirst(r)
    BY <1>1, <1>2, <1>4 DEF Deletions, FilesFirst, Ready, RowByRow
  <2>2. PICK row \in ItsFiles(r, View(r) \cup overtaken[r]) : row.id = seen[r].aim
    BY <1>2, <1>4, <2>1 DEF FilesFirst
  <2>3. row \notin View(r)
    BY <1>4, <2>2 DEF Deleted, FilesById, FilesOf, ItsFiles
  <2>. QED
    BY <1>2, <1>3, <2>2, <2>3 DEF Lost, ItsFiles, FilesOf
<1>5. CASE Step(r) = "delete"
  <2>1. SUFFICES ASSUME NEW row \in minus[r] PROVE FALSE
    BY <1>3 DEF Clean, FilesOnly
  <2>2. row.table = "file" /\ row.item = call[r].id /\ row.author = call[r].author /\ row \in rows
    BY <1>3 DEF FilesOnly, FilesOf, GraphInv, Consistent
  <2>3. Key("item", call[r].id, call[r].author) \in Provided(rows)
    BY <2>2 DEF GraphInv, Consistent, RestrictKept, RestrictedBy
  <2>4. PICK item \in rows : Key("item", call[r].id, call[r].author) \in Provides(item)
    BY <2>3 DEF Provided
  <2>5. item.table = "item" /\ item.id = call[r].id /\ item.author = call[r].author
    BY <2>4 DEF Provides, Key, GraphInv, Shape, Row, ItemRow, TagRow, ItemTagRow, TypeRow,
       RelationshipRow, LinkRow, FileRow, Kinds
  <2>6. item \in View(r)
    BY <1>3, <2>5 DEF View, FilesOnly, FilesOf
  <2>7. HasKind(call[r].id, item.kind) /\ HasKind(call[r].id, KindOf(op))
    <3>1. HasKind(item.id, item.kind)
      BY <2>4, <2>5 DEF Deletions
    <3>2. FilesFirst(r) /\ pc[r] > 1
      BY <1>1, <1>2, <1>5 DEF Deletions
    <3>. QED
      BY <2>5, <3>1, <3>2 DEF FilesFirst
  <2>8. item.kind = KindOf(op)
    BY <2>7, OneKind DEF Deletions
  <2>9. Deleted(r) = DeletedItem(View(r), call[r].id, call[r].author, KindOf(op))
    BY <1>5 DEF Deleted
  <2>. QED
    BY <2>5, <2>6, <2>8, <2>9 DEF DeletedItem, ItemsById
<1>. QED
  BY <1>4, <1>5

\* Steps that write nothing.
LEMMA RefusedQuiet ==
  ASSUME GraphInv, RefusedClean, Deletions, NEW r \in Requests, Passes(r) \/ Raises(r)
  PROVE  RefusedClean'
<1>. DEFINE op == call[r].op
            len == Len(Program(op))
<1>1. op \in Operation /\ len \in Nat /\ FirstWrite(op) \in Nat /\ pc[r] \in 0 .. len + 1
  BY ProgramFacts, ProgramLength DEF GraphInv, Shape, Call, RefusedClean, CleanIfRefused
<1>2. /\ call' = call /\ plus' = plus /\ minus' = minus
      /\ outcome' = [q \in Requests |-> outcome'[q]] /\ overtaken' = overtaken
      /\ \A q \in Requests \ {r} : /\ pc'[q] = pc[q] /\ aborted'[q] = aborted[q]
                                   /\ outcome'[q] = outcome[q]
  BY DEF Passes, Raises, GraphInv, Shape, RefusedClean
<1>3. ASSUME NEW q \in Requests
      PROVE  (Clean(q)' <=> Clean(q)) /\ (Lost(q)' <=> Lost(q)) /\ (OwnItem(q)' <=> OwnItem(q))
             /\ (FilesOnly(q)' <=> FilesOnly(q))
  BY <1>2 DEF Clean, Lost, OwnItem, FilesOnly, ItsFiles
<1>4. ASSUME NEW q \in Requests \ {r}
      PROVE  CleanIfRefused(q)'
  <2>1. CleanIfRefused(q) /\ (Running(q)' <=> Running(q))
    BY <1>2 DEF RefusedClean, Running
  <2>. QED
    BY <1>2, <1>3, <2>1 DEF CleanIfRefused
<1>5. CASE Passes(r)
  <2>1. pc[r] \in 1 .. len /\ pc'[r] \in {pc[r], pc[r] + 1} /\ aborted' = aborted /\ outcome' = outcome
        /\ Step(r) = Program(op)[pc[r]]
    BY <1>5 DEF Passes, Running, GraphInv, Shape, Step
  <2>2. /\ op \in Creating \cup Changing => pc[r] # FirstWrite(op)
        /\ op \in Deleting => pc[r] # FirstWrite(op) + 1
    BY <1>1, <1>5, <2>1, ProgramFacts
    DEF Passes, Writing, Returning, RowByRow, Creating, Changing
  <2>3. CleanIfRefused(r) /\ Running(r)
    BY <1>5 DEF RefusedClean, Passes
  <2>4. op \in Deleting /\ Clean(r) => FilesOnly(r)
    BY DEF Clean, FilesOnly, FilesOf
  <2>5. /\ pc'[r] \in 0 .. len + 1
        /\ ~aborted[r] /\ outcome[r] \notin Refusals
        /\ op \in Creating \cup Changing /\ pc'[r] > FirstWrite(op) => OwnItem(r)
        /\ op \in Deleting /\ pc'[r] <= FirstWrite(op) + 1 => FilesOnly(r)
        /\ pc'[r] <= FirstWrite(op) /\ op \notin Deleting => Clean(r)
        /\ pc'[r] < FirstWrite(op) => Clean(r)
    BY <1>1, <2>1, <2>2, <2>3, <2>4 DEF CleanIfRefused
  <2>6. CleanIfRefused(r)'
    BY <1>2, <1>3, <2>1, <2>5 DEF CleanIfRefused
  <2>. QED
    BY <1>2, <1>4, <2>6 DEF RefusedClean
<1>6. CASE Raises(r)
  <2>1. pc'[r] = len + 1 /\ ~Running(r)'
    BY <1>1, <1>2, <1>6 DEF Raises, Running, GraphInv, Shape
  <2>2. CleanIfRefused(r) /\ len + 1 \in Nat /\ len + 1 >= pc[r]
    BY <1>1 DEF RefusedClean
  <2>3. ASSUME outcome'[r] \in Refusals, ~aborted'[r]
        PROVE  Clean(r) \/ Lost(r)
    <3>1. /\ Step(r) \in Refusing /\ (Step(r) = "load" => ItemOf(r) = {})
          /\ Step(r) \in Returning => Ready(r) /\ Deleted(r) = {}
      BY <1>6, <2>3 DEF Raises, RefusedClean, GraphInv, Shape
    <3>2. Running(r) /\ pc[r] \in 1 .. len /\ Step(r) = Program(op)[pc[r]]
      BY <3>1 DEF Step, Running, Refusing, Returning
    <3>3. CASE Step(r) \in {"remove_files", "delete"}
      BY <3>1, <3>3, DeletionRefused DEF Returning
    <3>4. CASE Step(r) \notin {"remove_files", "delete"} /\ pc[r] <= FirstWrite(op)
      <4>1. op \in Deleting => pc[r] # FirstWrite(op)
        BY <1>1, <3>2, <3>4, ProgramFacts
      <4>. QED
        BY <1>1, <2>2, <3>4, <4>1 DEF CleanIfRefused
    <3>5. CASE Step(r) \notin {"remove_files", "delete"} /\ pc[r] > FirstWrite(op)
      <4>1. Step(r) = "load" /\ op \in Creating \cup Changing
        BY <1>1, <3>1, <3>2, <3>5, ProgramFacts
      <4>2. OwnItem(r)
        BY <2>2, <3>2, <3>5, <4>1 DEF CleanIfRefused
      <4>. QED
        BY <3>1, <4>1, <4>2 DEF OwnItem, ItemOf, ItemsById, View
    <3>. QED
      BY <1>1, <3>3, <3>4, <3>5
  <2>4. pc'[r] \in 0 .. len + 1
    BY <1>1, <2>1
  <2>5. /\ len + 1 <= FirstWrite(op) /\ op \notin Deleting => Clean(r)
        /\ len + 1 < FirstWrite(op) => Clean(r)
        /\ op \in Deleting /\ len + 1 <= FirstWrite(op) + 1 => FilesOnly(r)
    BY <1>1, <2>2 DEF CleanIfRefused
  <2>6. CleanIfRefused(r)'
    BY <1>2, <1>3, <2>1, <2>3, <2>4, <2>5 DEF CleanIfRefused
  <2>. QED
    BY <1>2, <1>4, <2>6 DEF RefusedClean
<1>. QED
  BY <1>5, <1>6

\* A statement that succeeds keeps the item of the transaction that it updates.
LEMMA RefusedWrite ==
  ASSUME Shape, RefusedClean, NEW r \in Requests, Write(r)
  PROVE  RefusedClean'
<1>. DEFINE op == call[r].op
            len == Len(Program(op))
            s == Step(r)
<1>1. op \in Operation /\ len \in Nat /\ FirstWrite(op) \in Nat
  BY ProgramFacts, ProgramLength DEF Shape, Call
<1>2. /\ s \in Writing /\ call' = call /\ outcome' = outcome /\ overtaken' = overtaken
      /\ aborted' = aborted
      /\ plus'[r] = (plus[r] \ Deleted(r)) \cup Inserted(r)
      /\ s \in Returning => Deleted(r) # {}
      /\ \A q \in Requests \ {r} : pc'[q] = pc[q] /\ plus'[q] = plus[q] /\ minus'[q] = minus[q]
      /\ \/ pc'[r] = pc[r] + 1
         \/ pc'[r] = pc[r] /\ s \in RowByRow \cup {"change"}
  BY WriteViews DEF Write, Ready, AfterWrite, Advance, Remember, Shape
<1>3. pc[r] \in 1 .. len /\ s = Program(op)[pc[r]] /\ Running(r)
  BY <1>2 DEF Step, Running, Writing, Returning, RowByRow
<1>4. /\ pc'[r] >= FirstWrite(op) /\ pc'[r] \in 0 .. len + 1
      /\ op \notin Deleting => pc'[r] > FirstWrite(op)
  <2>1. s \in Writing => FirstWrite(op) <= pc[r]
    BY <1>1, <1>3, ProgramFacts
  <2>2. s \in {"touch", "touch_dates", "change"} => FirstWrite(op) < pc[r]
    BY <1>1, <1>3, ProgramFacts
  <2>3. s \in {"files", "remove_files", "delete"} => op \in Deleting
    BY <1>1, <1>3, ProgramFacts
  <2>4. CASE pc'[r] = pc[r] + 1
    BY <1>1, <1>2, <1>3, <2>1, <2>4
  <2>5. CASE pc'[r] = pc[r] /\ s \in RowByRow \cup {"change"}
    <3>1. FirstWrite(op) <= pc[r] /\ (op \notin Deleting => FirstWrite(op) < pc[r])
      BY <1>2, <2>1, <2>2, <2>3, <2>5 DEF RowByRow
    <3>. QED
      BY <1>1, <1>3, <2>5, <3>1
  <2>. QED
    BY <1>2, <2>4, <2>5
<1>5. CleanIfRefused(r) /\ ~aborted[r] /\ outcome[r] \notin Refusals
  BY <1>3 DEF RefusedClean, CleanIfRefused
<1>6. ASSUME op \in Creating \cup Changing
      PROVE  OwnItem(r)'
  <2>. DEFINE Own(row) == /\ row.table = "item" /\ row.id = call[r].id
                          /\ row.author = call[r].author /\ row.kind = KindOf(op)
  <2>1. CASE pc[r] = FirstWrite(op)
    <3>1. CASE op \in Creating
      <4>. DEFINE new == Item(call[r].id, call[r].author, KindOf(op), r)
      <4>1. Inserted(r) = {new}
        BY <1>1, <1>3, <2>1, <3>1, ProgramFacts DEF Inserted
      <4>2. Own(new)
        BY DEF Item
      <4>. HIDE DEF new
      <4>. QED
        BY <1>2, <4>1, <4>2 DEF OwnItem
    <3>2. CASE op \in Changing
      <4>1. s = "item"
        BY <1>1, <1>3, <2>1, <3>2, ProgramFacts
      <4>2. Deleted(r) = ItemOf(r) /\ Inserted(r) = Stamped(Deleted(r), r) /\ Deleted(r) # {}
        BY <1>2, <4>1 DEF Deleted, Inserted, Returning
      <4>3. PICK row \in Deleted(r) : row \in ItemRow /\ Own(row)
        BY <4>2, DeletedSeen
        DEF ItemOf, ItemsById, Row, TagRow, ItemTagRow, TypeRow, RelationshipRow, LinkRow, FileRow
      <4>4. [row EXCEPT !.stamp = r] \in Inserted(r) /\ Own([row EXCEPT !.stamp = r])
        BY <4>2, <4>3 DEF Stamped, ItemRow
      <4>. QED
        BY <1>2, <4>4 DEF OwnItem
    <3>. QED
      BY <1>6, <3>1, <3>2
  <2>2. CASE pc[r] # FirstWrite(op)
    <3>1. pc[r] > FirstWrite(op)
      BY <1>1, <1>3, <1>2, <2>2, ProgramFacts
    <3>2. PICK row \in plus[r] : Own(row)
      BY <1>3, <1>5, <1>6, <3>1 DEF CleanIfRefused, OwnItem
    <3>3. CASE row \notin Deleted(r)
      BY <1>2, <3>2, <3>3 DEF OwnItem
    <3>4. CASE row \in Deleted(r)
      <4>1. s \notin {"delete", "cascade", "insert_type", "set_type", "delete_type", "insert_tag",
                      "set_tag", "delete_tag"}
        BY <1>1, <1>3, <1>6, ProgramFacts
      <4>2. s \in {"item", "touch", "touch_dates", "touch_item"}
        BY <3>2, <3>4, <4>1 DEF Deleted, ItemTagsOf, ChangedRelationship, RelationshipsOf,
           DeletedRelationships, LinksOfDates, FilesById, FilesOf
      <4>3. row \in ItemRow
        BY <3>2, <3>4, DeletedSeen DEF Row, TagRow, ItemTagRow, TypeRow, RelationshipRow, LinkRow, FileRow
      <4>4. [row EXCEPT !.stamp = r] \in Inserted(r) /\ Own([row EXCEPT !.stamp = r])
        BY <3>2, <3>4, <4>2, <4>3 DEF Inserted, Stamped, ItemRow
      <4>. QED
        BY <1>2, <4>4 DEF OwnItem
    <3>. QED
      BY <3>3, <3>4
  <2>. QED
    BY <2>1, <2>2
<1>7. ASSUME op \in Deleting, pc'[r] <= FirstWrite(op) + 1
      PROVE  FilesOnly(r)'
  <2>1. pc[r] = FirstWrite(op) /\ s = "remove_files"
    BY <1>1, <1>2, <1>3, <1>7, ProgramFacts DEF RowByRow
  <2>2. FilesOnly(r)
    BY <1>1, <1>5, <1>7, <2>1 DEF CleanIfRefused
  <2>3. Deleted(r) = FilesById(View(r), {seen[r].aim}, call[r].id, call[r].author) /\ Inserted(r) = {}
    BY <2>1 DEF Deleted, Inserted
  <2>4. minus'[r] = minus[r] \cup (Deleted(r) \cap rows)
    BY DEF Write, Shape
  <2>. QED
    BY <1>2, <2>2, <2>3, <2>4 DEF FilesOnly, FilesById, FilesOf
<1>8. CleanIfRefused(r)'
  BY <1>1, <1>2, <1>4, <1>5, <1>6, <1>7 DEF CleanIfRefused
<1>9. ASSUME NEW q \in Requests \ {r}
      PROVE  CleanIfRefused(q)'
  <2>1. CleanIfRefused(q) /\ (Running(q)' <=> Running(q)) /\ (Clean(q)' <=> Clean(q))
        /\ (Lost(q)' <=> Lost(q)) /\ (OwnItem(q)' <=> OwnItem(q)) /\ (FilesOnly(q)' <=> FilesOnly(q))
    BY <1>2 DEF RefusedClean, Running, Clean, Lost, OwnItem, FilesOnly, ItsFiles
  <2>. QED
    BY <1>2, <2>1 DEF CleanIfRefused
<1>. QED
  BY <1>2, <1>8, <1>9 DEF RefusedClean

\* So does the end of a transaction, whichever way.
LEMMA RefusedEnds ==
  ASSUME Shape, RefusedClean, NEW r \in Requests, Commit(r) \/ RollBack(r)
  PROVE  RefusedClean'
<1>1. /\ call' = call /\ outcome' = outcome /\ overtaken' = [q \in Requests |-> overtaken'[q]]
      /\ aborted' = aborted /\ pc'[r] = 0 /\ plus'[r] = {} /\ minus'[r] = {}
      /\ \A q \in Requests \ {r} : /\ pc'[q] = pc[q] /\ plus'[q] = plus[q] /\ minus'[q] = minus[q]
                                   /\ overtaken[q] \subseteq overtaken'[q]
  <2>1. CASE Commit(r)
    <3>1. overtaken' = [q \in Requests |-> IF pc[q] > 1 /\ q # r
                                          THEN overtaken[q] \cup plus[r] \cup minus[r]
                                          ELSE overtaken[q]]
      BY <2>1 DEF Commit
    <3>. QED
      BY <2>1, <3>1 DEF Commit, Ends, Shape
  <2>2. CASE RollBack(r)
    BY <2>2 DEF RollBack, Ends, Shape, RefusedClean
  <2>. QED
    BY <2>1, <2>2
<1>2. Len(Program(call[r].op)) \in Nat
  BY ProgramLength DEF Shape, Call
<1>3. CleanIfRefused(r)'
  <2>1. Clean(r)' /\ FilesOnly(r)' /\ ~Running(r)'
    BY <1>1, <1>2 DEF Clean, FilesOnly, FilesOf, Running
  <2>. QED
    BY <1>1, <1>2, <2>1 DEF CleanIfRefused
<1>4. ASSUME NEW q \in Requests \ {r}
      PROVE  CleanIfRefused(q)'
  <2>1. CleanIfRefused(q) /\ (Running(q)' <=> Running(q)) /\ (Clean(q)' <=> Clean(q))
        /\ (Lost(q) => Lost(q)') /\ (OwnItem(q)' <=> OwnItem(q)) /\ (FilesOnly(q)' <=> FilesOnly(q))
    BY <1>1 DEF RefusedClean, Running, Clean, Lost, OwnItem, FilesOnly, ItsFiles, FilesOf
  <2>. QED
    BY <1>1, <2>1 DEF CleanIfRefused
<1>. QED
  BY <1>1, <1>3, <1>4 DEF RefusedClean

-----------------------------------------------------------------------------
(* A transaction changes rows of its author's.                              *)

\* The author of a key a row refers to is the row's.
LEMMA KeyAuthors ==
  ASSUME NEW row \in Row
  PROVE  /\ \A k \in CascadesFrom(row) : k.author = row.author
         /\ \A k \in Provides(row) : k.author = row.author
BY DEF Row, ItemRow, TagRow, ItemTagRow, TypeRow, RelationshipRow, LinkRow, FileRow, CascadesFrom, Provides,
   Key

\* What a statement deletes and inserts is its author's.
LEMMA StatementOwned ==
  ASSUME GraphInv, Owned, NEW r \in Requests
  PROVE  \A row \in Deleted(r) \cup Inserted(r) : row.author = call[r].author
<1>. DEFINE c == call[r]
            s == Step(r)
<1>1. ASSUME NEW row \in Deleted(r)
      PROVE  row.author = c.author
  <2>1. CASE s = "cascade"
    <3>1. PICK k \in CascadesFrom(row) : k \notin Provided(View(r))
      BY <1>1, <2>1 DEF Deleted
    <3>2. row \in View(r) /\ row \in Row
      BY <1>1, DeletedSeen DEF GraphInv
    <3>. QED
      BY <2>1, <3>1, <3>2, KeyAuthors DEF Owned
  <2>2. CASE s # "cascade"
    BY <1>1, <2>2
    DEF Deleted, ItemOf, DeletedItem, ItemsById, ItemTagsOf, ChangedRelationship, RelationshipsOf,
        DeletedRelationships, LinksOfDates, TypesById, DeletedType, TagsById, DeletedTag, AnyItem,
        FilesById, FilesOf
  <2>. QED
    BY <2>1, <2>2
<1>2. ASSUME NEW row \in Inserted(r)
      PROVE  row.author = c.author
  <2>1. CASE s \in {"item", "touch", "touch_dates", "touch_item"}
    <3>1. PICK old \in Deleted(r) : row = [old EXCEPT !.stamp = r]
      BY <1>2, <2>1 DEF Inserted, Stamped
    <3>2. old \in ItemRow
      BY <2>1, <3>1, DeletedSeen
      DEF GraphInv, Deleted, ItemOf, ItemsById, AnyItem, Row, TagRow, ItemTagRow, TypeRow,
          RelationshipRow, LinkRow, FileRow
    <3>. QED
      BY <1>1, <3>1, <3>2 DEF ItemRow
  <2>2. CASE s = "set_type"
    <3>1. PICK old \in Deleted(r) : row = [old EXCEPT !.symmetric = c.symmetric]
      BY <1>2, <2>2 DEF Inserted, ChangedType
    <3>2. old \in TypeRow
      BY <2>2, <3>1, DeletedSeen
      DEF GraphInv, Deleted, TypesById, Row, ItemRow, TagRow, ItemTagRow, RelationshipRow, LinkRow, FileRow
    <3>. QED
      BY <1>1, <3>1, <3>2 DEF TypeRow
  <2>3. CASE s = "set_tag"
    <3>1. PICK old \in Deleted(r) : row = [old EXCEPT !.name = c.name]
      BY <1>2, <2>3 DEF Inserted, RenamedTag
    <3>2. old \in TagRow
      BY <2>3, <3>1, DeletedSeen
      DEF GraphInv, Deleted, TagsById, Row, ItemRow, TypeRow, ItemTagRow, RelationshipRow, LinkRow, FileRow
    <3>. QED
      BY <1>1, <3>1, <3>2 DEF TagRow
  <2>4. CASE s \notin {"item", "touch", "touch_dates", "touch_item", "set_type", "set_tag"}
    BY <1>2, <2>4
    DEF Inserted, Item, ItemTag, RelationshipFrom, Link, RelationshipType, Tag, File
  <2>. QED
    BY <2>1, <2>2, <2>3, <2>4
<1>. QED
  BY <1>1, <1>2

\* Steps that write nothing: "cascade" is reached by deleting.
LEMMA OwnedQuiet ==
  ASSUME Shape, RefusedClean, Owned, NEW r \in Requests, Passes(r) \/ Raises(r)
  PROVE  Owned'
<1>1. /\ call' = call /\ plus' = plus /\ minus' = minus /\ rows' = rows
      /\ \A q \in Requests \ {r} : pc'[q] = pc[q]
  BY DEF Passes, Raises, Shape
<1>2. \A q \in Requests : View(q)' = View(q)
  BY <1>1 DEF View
<1>3. Step(r)' = "cascade" => Step(r) = "cascade"
  <2>. DEFINE op == call[r].op
              len == Len(Program(op))
  <2>1. op \in Operation /\ len \in Nat
    BY ProgramLength DEF Shape, Call
  <2>2. SUFFICES ASSUME Step(r)' = "cascade", Step(r) # "cascade" PROVE FALSE
    OBVIOUS
  <2>3. pc'[r] \in 1 .. len /\ Program(op)[pc'[r]] = "cascade"
    BY <1>1, <2>2 DEF Step, Running
  <2>4. Passes(r)
    BY <2>1, <2>3 DEF Raises, Shape
  <2>5. pc[r] \in 1 .. len /\ pc'[r] = pc[r] + 1
    BY <2>2, <2>3, <2>4 DEF Passes, Step, Running, Shape
  <2>6. Program(op)[pc[r]] = "delete"
    <3>1. Program(op)[pc'[r] - 1] = "delete"
      BY <2>1, <2>3, ProgramFacts
    <3>2. pc'[r] - 1 = pc[r]
      BY <2>1, <2>5
    <3>. QED
      BY <3>1, <3>2
  <2>. QED
    BY <2>4, <2>6 DEF Passes, Step, Writing, Returning, RowByRow
<1>4. \A q \in Requests : Step(q)' = "cascade" => Step(q) = "cascade"
  BY <1>1, <1>3 DEF Step, Running
<1>. QED
  BY <1>1, <1>2, <1>4 DEF Owned

\* A statement that succeeds.
LEMMA OwnedWrite ==
  ASSUME GraphInv, RefusedClean, Owned, NEW r \in Requests, Write(r)
  PROVE  Owned'
<1>. USE DEF GraphInv
<1>. DEFINE op == call[r].op
            len == Len(Program(op))
<1>1. call' = call /\ op \in Operation /\ len \in Nat
  BY ProgramLength DEF Write, Shape, Call
<1>2. \A row \in plus'[r] \cup minus'[r] : row.author = call[r].author
  BY WriteViews, StatementOwned DEF Owned
<1>3. ASSUME Step(r)' = "cascade", NEW row \in View(r)', NEW k \in CascadesFrom(row),
             k \notin Provided(View(r)')
      PROVE  k.author = call[r].author
  <2>1. pc'[r] \in 1 .. len /\ Program(op)[pc'[r]] = "cascade"
    BY <1>1, <1>3 DEF Step, Running
  <2>2. pc[r] \in 1 .. len /\ Step(r) = Program(op)[pc[r]] /\ Step(r) \in Writing
    BY DEF Write, Ready, Step, Running, Writing, Returning, RowByRow
  <2>3. Step(r) # "cascade"
    <3>1. CASE pc'[r] = pc[r]
      BY <2>1, <2>2, <3>1 DEF Write, AfterWrite, Advance, RowByRow, Shape
    <3>2. CASE pc'[r] = pc[r] + 1
      <4>1. pc'[r] - 1 = pc[r]
        BY <2>2, <3>2
      <4>. QED
        BY <1>1, <2>1, <2>2, <4>1, ProgramFacts
    <3>. QED
      BY <3>1, <3>2 DEF Write, AfterWrite, Advance, Remember, Shape
  <2>4. Step(r) = "delete"
    <3>1. pc'[r] = pc[r] + 1
      BY <2>1, <2>2, <2>3 DEF Write, AfterWrite, Advance, Remember, RowByRow, Shape
    <3>2. pc'[r] - 1 = pc[r]
      BY <2>2, <3>1
    <3>. QED
      BY <1>1, <2>1, <2>2, <3>2, ProgramFacts
  <2>5. View(r)' = View(r) \ Deleted(r)
    BY <2>4, WriteViews DEF Inserted
  <2>6. CascadeKept(View(r))
    BY <2>2, <2>3 DEF Consistent, RefusedClean, CleanIfRefused, Running
  <2>7. PICK gone \in View(r) : k \in Provides(gone)
    BY <1>3, <2>5, <2>6 DEF CascadeKept, Provided
  <2>8. gone \in Deleted(r)
    BY <1>3, <2>5, <2>7 DEF Provided
  <2>. QED
    BY <2>7, <2>8, DeletedSeen, KeyAuthors, StatementOwned
<1>4. \A q \in Requests \ {r} : /\ plus'[q] = plus[q] /\ minus'[q] = minus[q]
                                /\ View(q)' = View(q) /\ Step(q)' = Step(q)
  BY WriteViews
<1>5. \A q \in Requests \ {r} :
        /\ \A row \in plus'[q] \cup minus'[q] : row.author = call[q].author
        /\ Step(q)' = "cascade" =>
             \A row \in View(q)' : \A k \in CascadesFrom(row) \ Provided(View(q)') :
               k.author = call[q].author
  BY <1>4 DEF Owned
<1>. QED
  BY <1>1, <1>2, <1>3, <1>5 DEF Owned

\* Another transaction's commit leaves nothing dangling that did not.
LEMMA OwnedEnds ==
  ASSUME GraphInv, RefusedClean, Owned, NEW r \in Requests, Commit(r) \/ RollBack(r)
  PROVE  Owned'
<1>. USE DEF GraphInv
<1>1. Ends(r) /\ rows' \subseteq Row /\ call' = call
  <2>1. Commit(r) => rows' = View(r)
    BY DEF Commit
  <2>2. RollBack(r) => rows' = rows
    BY DEF RollBack
  <2>. QED
    BY <2>1, <2>2, DeletedSeen DEF Commit, RollBack, Ends, Shape
<1>2. plus'[r] = {} /\ minus'[r] = {} /\ Step(r)' # "cascade"
  BY <1>1, EndsFacts, ProgramLength DEF Ends, Step, Running, Shape
<1>3. ASSUME NEW q \in Requests \ {r}
      PROVE  plus'[q] = plus[q] /\ minus'[q] = minus[q] /\ Step(q)' = Step(q)
  BY <1>1, EndsFacts
<1>4. ASSUME NEW q \in Requests \ {r}, Step(q) = "cascade", NEW a \in View(q)',
             NEW k \in CascadesFrom(a), k \notin Provided(View(q)')
      PROVE  k.author = call[q].author
  <2>1. CASE Commit(r)
    <3>. DEFINE V == (View(r) \ minus[q]) \cup plus[q]
    <3>1. View(q)' = V
      BY <1>3, <2>1 DEF View, Commit
    <3>2. ~aborted[r] /\ Step(r) # "cascade"
      BY <2>1, ProgramLength DEF Commit, Step, Running, Shape, Call
    <3>3. CascadeKept(View(r)) /\ k \in References(a) /\ k \notin Provided(V)
      BY <1>4, <3>1, <3>2 DEF Consistent, References
    <3>4. a \in View(r) => k \in Provided(View(r))
      BY <3>3, <1>4 DEF CascadeKept
    <3>5. ~(a \in View(q) => k \in Provided(View(q)))
      BY <1>4, <3>1, <3>3, <3>4, KeyKept
    <3>. QED
      BY <1>4, <3>5 DEF Owned
  <2>2. CASE RollBack(r)
    <3>1. View(q)' = View(q)
      BY <1>3, <2>2 DEF View, RollBack
    <3>. QED
      BY <1>4, <3>1 DEF Owned
  <2>. QED
    BY <2>1, <2>2
<1>. QED
  BY <1>1, <1>2, <1>3, <1>4 DEF Owned

-----------------------------------------------------------------------------
(* What a page removes it has checked.                                      *)

\* A row that refers to a type finds it.
LEMMA TypeFound ==
  ASSUME NEW V, V \subseteq Row, RestrictKept(V), NEW row \in V, row.table = "relationship"
  PROVE  HasType(V, row)
<1>1. Key("type", row.type, row.author) \in Provided(V)
  BY DEF RestrictKept, RestrictedBy
<1>2. PICK t \in V : Key("type", row.type, row.author) \in Provides(t)
  BY <1>1 DEF Provided
<1>3. t.table = "type" /\ t.id = row.type /\ t.author = row.author
  BY <1>2 DEF Row, ItemRow, TagRow, ItemTagRow, TypeRow, RelationshipRow, LinkRow, FileRow, Kinds, Provides, Key
<1>. QED
  BY <1>2, <1>3 DEF HasType, TypesById

\* Steps that write nothing: the check is the second step of the page's program.
LEMMA CheckedQuiet ==
  ASSUME GraphInv, RefusedClean, Checked, NEW r \in Requests,
         Read(r) \/ Aim(r) \/ WriteRaises(r) \/ WriteBreaks(r) \/ DeadlockVictim(r)
  PROVE  Checked'
<1>. USE DEF GraphInv
<1>1. Passes(r) \/ Raises(r)
  BY PassesOrRaises
<1>2. /\ call' = call /\ minus' = minus /\ rows' = rows /\ overtaken' = overtaken
      /\ \A q \in Requests \ {r} : pc'[q] = pc[q]
  BY <1>1 DEF Passes, Raises, Shape
<1>3. ASSUME call[r].op = "update_person", Running(r)', pc'[r] > 2,
             NEW row \in rows, row.table = "relationship", row.id \in call[r].delete,
             row.author = call[r].author
      PROVE  OwnPage(r, row)
  <2>. DEFINE op == call[r].op
              len == Len(Program(op))
  <2>1. op \in Operation /\ len \in Nat
    BY ProgramLength DEF Shape, Call
  <2>2. Passes(r)
    BY <1>1, <1>2, <1>3, <2>1 DEF Raises, Shape, Running
  <2>3. pc[r] \in 1 .. len /\ pc'[r] \in {pc[r], pc[r] + 1}
    BY <2>2 DEF Passes, Running, Shape
  <2>4. CASE pc[r] > 2
    BY <1>3, <2>2, <2>4 DEF Checked, Passes
  <2>5. CASE pc[r] = 2
    <3>1. Step(r) = "changes"
      BY <1>3, <2>1, <2>3, <2>5, ProgramFacts DEF Step, Running
    <3>2. CheckChanges(r)
      BY <3>1
      DEF Read, Load, CheckChanges, CheckPeople, CheckTypes, CheckTags, RereadTypes, ReadRelations,
          ReadNames, ReadDateIds, ReadDateRows, ReadNeighbours, ReadLinks, FilterPerson, ReadPage,
          ReadPageRows, ReadPageLinks, ReadPageNames, ReadMonth, ReadMonthNames, LoadType, LoadTag,
          FindName, AskUse, ListFiles, FindItem, FindFile, Aim, WriteRaises, WriteBreaks, DeadlockVictim, Ready, Writing, Returning,
          RowByRow
    <3>3. View(r) = rows /\ RestrictKept(rows) /\ rows \subseteq Row
      <4>1. FirstWrite(op) = 6
        BY <1>3 DEF FirstWrite, Creating
      <4>2. pc[r] <= FirstWrite(op)
        BY <2>5, <4>1
      <4>3. Clean(r)
        BY <1>3, <4>2 DEF RefusedClean, CleanIfRefused, Deleting
      <4>. QED
        BY <4>3 DEF Clean, View, Consistent, Shape
    <3>4. row \in RelationshipsById(rows, MutatedIn(call[r]), call[r].author)
      BY <1>3, <3>3, TypeFound DEF RelationshipsById, MutatedIn
    <3>5. pc'[r] # len + 1
      BY <1>2, <1>3, <2>1 DEF Running
    <3>. QED
      BY <3>2, <3>3, <3>4, <3>5 DEF CheckChanges, Reads, Fail, ToClose, OwnPage, Shape
  <2>. QED
    BY <1>3, <2>3, <2>4, <2>5
<1>4. \A q \in Requests \ {r} : Running(q)' = Running(q)
  BY <1>2 DEF Running
<1>. QED
  BY <1>2, <1>3, <1>4 DEF Checked, OwnPage

\* A statement that succeeds.
LEMMA CheckedWrite ==
  ASSUME GraphInv, RefusedClean, Checked, NEW r \in Requests, Write(r)
  PROVE  Checked'
<1>. USE DEF GraphInv
<1>. DEFINE op == call[r].op
            len == Len(Program(op))
<1>1. /\ call' = call /\ rows' = rows /\ overtaken' = overtaken
      /\ op \in Operation /\ len \in Nat
      /\ minus'[r] = minus[r] \cup (Deleted(r) \cap rows)
      /\ \A q \in Requests \ {r} : pc'[q] = pc[q] /\ minus'[q] = minus[q]
  BY ProgramLength, WriteViews DEF Write, AfterWrite, Advance, Shape, Call
<1>2. pc[r] \in 1 .. len /\ Step(r) = Program(op)[pc[r]] /\ Step(r) \in Writing /\ Running(r)
  BY DEF Write, Ready, Step, Running, Writing, Returning, RowByRow
<1>3. ASSUME op = "update_person"
      PROVE  pc[r] > 2
  <2>1. FirstWrite(op) <= pc[r]
    BY <1>1, <1>2, ProgramFacts
  <2>2. FirstWrite(op) = 6
    BY <1>3 DEF FirstWrite, Creating
  <2>. QED
    BY <1>1, <1>2, <2>1, <2>2
<1>4. ASSUME op = "update_person", NEW row \in Deleted(r) \cap rows, row.table = "relationship"
      PROVE  OwnPage(r, row)
  <2>1. Step(r) \notin {"delete", "cascade", "set_type", "delete_type", "set_tag", "delete_tag"}
    BY <1>1, <1>2, <1>4, ProgramFacts DEF Changing
  <2>2. CASE Step(r) = "remove"
    <3>1. row.id \in call[r].delete /\ row.author = call[r].author
      BY <1>4, <2>2 DEF Deleted, DeletedRelationships
    <3>. QED
      BY <1>2, <1>3, <1>4, <3>1 DEF Checked
  <2>3. CASE Step(r) # "remove"
    BY <1>4, <2>1, <2>3
    DEF Deleted, ItemOf, ItemsById, ItemTagsOf, ChangedRelationship, RelationshipsOf, LinksOfDates,
        FilesById, FilesOf, AnyItem, OwnPage
  <2>. QED
    BY <2>2, <2>3
<1>5. ASSUME op = "update_person"
      PROVE  /\ \A row \in rows : row.table = "relationship" /\ row.id \in call[r].delete
                                    /\ row.author = call[r].author => OwnPage(r, row)
             /\ \A row \in minus'[r] : row.table = "relationship" => OwnPage(r, row)
  BY <1>1, <1>2, <1>3, <1>4, <1>5 DEF Checked
<1>6. \A q \in Requests \ {r} : Running(q)' = Running(q)
  BY <1>1 DEF Running
<1>. QED
  BY <1>1, <1>5, <1>6 DEF Checked, OwnPage

\* What another call commits has overtaken the rows it wrote.
LEMMA CheckedEnds ==
  ASSUME GraphInv, RefusedClean, Checked, NEW r \in Requests, Commit(r) \/ RollBack(r)
  PROVE  Checked'
<1>. USE DEF GraphInv
<1>1. /\ call' = call /\ minus'[r] = {} /\ ~Running(r)'
      /\ \A q \in Requests \ {r} : pc'[q] = pc[q] /\ minus'[q] = minus[q] /\ Running(q)' = Running(q)
  <2>1. /\ call' = call /\ minus' = [minus EXCEPT ![r] = {}] /\ pc' = [pc EXCEPT ![r] = 0]
    BY DEF Commit, RollBack, Ends
  <2>. QED
    BY <2>1 DEF Shape, Running
<1>2. /\ \A q \in Requests : overtaken[q] \subseteq overtaken'[q]
      /\ \A q \in Requests \ {r} : pc[q] > 1 => \A row \in rows' \ rows : row \in overtaken'[q]
  <2>1. CASE Commit(r)
    BY <2>1 DEF Commit, View
  <2>2. CASE RollBack(r)
    BY <2>2 DEF RollBack
  <2>. QED
    BY <2>1, <2>2
<1>3. ASSUME NEW q \in Requests \ {r}, call[q].op = "update_person", Running(q), pc[q] > 2,
             NEW row \in rows', row.table = "relationship", row.id \in call[q].delete,
             row.author = call[q].author
      PROVE  OwnPage(q, row)'
  <2>1. pc[q] > 1
    BY <1>3 DEF Running
  <2>2. CASE row \in rows
    BY <1>1, <1>2, <1>3, <2>2 DEF Checked, OwnPage
  <2>3. CASE row \notin rows
    BY <1>2, <1>3, <2>1, <2>3 DEF OwnPage
  <2>. QED
    BY <2>2, <2>3
<1>4. ASSUME NEW q \in Requests \ {r}, call[q].op = "update_person", NEW row \in minus[q],
             row.table = "relationship"
      PROVE  OwnPage(q, row)'
  BY <1>1, <1>2, <1>4 DEF Checked, OwnPage
<1>. QED
  BY <1>1, <1>3, <1>4 DEF Checked

-----------------------------------------------------------------------------
(* What a commit can change.                                                *)

\* Nothing has been written, and nobody has ended.
LEMMA RequestInit ==
  ASSUME Init
  PROVE  RequestInv
<1>1. \A r \in Requests : Len(Program(call[r].op)) \in Nat /\ FirstWrite(call[r].op) \in Nat \ {0}
  BY GraphAssumption, ProgramLength, ProgramFacts DEF Init, Call
<1>2. RefusedClean
  <2>1. ASSUME NEW r \in Requests PROVE CleanIfRefused(r)
    <3>1. pc[r] = 1 /\ Clean(r) /\ FilesOnly(r) /\ ~aborted[r] /\ outcome[r] \notin Refusals
      BY DEF Init, Clean, FilesOnly, FilesOf, Refusals
    <3>2. ~(pc[r] > FirstWrite(call[r].op))
      BY <1>1, <3>1
    <3>. QED
      BY <1>1, <3>1, <3>2 DEF CleanIfRefused
  <2>. QED
    BY <2>1 DEF Init, RefusedClean
<1>3. Owned
  <2>1. \A r \in Requests : View(r) = rows
    BY DEF Init, View
  <2>2. CascadeKept(rows)
    BY InitInv DEF GraphInv, Consistent
  <2>. QED
    BY <2>1, <2>2 DEF Init, Owned, CascadeKept
<1>4. Checked
  BY DEF Init, Checked
<1>5. Deletions
  <2>1. \A r \in Requests : /\ seen[r] = Unseen /\ plus[r] = {} /\ pc[r] = 1
                             /\ seen[r].aim = Nobody /\ seen[r].done = {}
    BY DEF Init, Unseen
  <2>2. ASSUME NEW r \in Requests, call[r].op \in Deleting, Running(r)
        PROVE  FilesFirst(r)
    <3>1. FirstWrite(call[r].op) \in {4, 5}
      BY <2>2 DEF FirstWrite, Deleting, Creating
    <3>. QED
      BY <2>1, <3>1 DEF FilesFirst
  <2>3. ASSUME NEW row \in rows, row.table = "item"
        PROVE  HasKind(row.id, row.kind)
    BY <2>3 DEF Init, HasKind
  <2>. QED
    BY <2>1, <2>2, <2>3 DEF Init, Deletions
<1>. QED
  BY <1>2, <1>3, <1>4, <1>5, InitInv DEF RequestInv

\* Every step of every request keeps what it and the others have checked.
LEMMA RequestStep == RequestInv /\ [Next]_vars => RequestInv'
<1>. SUFFICES ASSUME RequestInv, [Next]_vars PROVE RequestInv'
  OBVIOUS
<1>. USE DEF RequestInv
<1>1. GraphInv'
  BY GraphStep
<1>2. ASSUME NEW r \in Requests, Handle(r)
      PROVE  RefusedClean' /\ Deletions' /\ Owned' /\ Checked'
  <2>0. Shape
    BY DEF GraphInv
  <2>1. CASE Read(r) \/ Aim(r) \/ WriteRaises(r) \/ WriteBreaks(r) \/ DeadlockVictim(r)
    BY <2>0, <2>1, PassesOrRaises, RefusedQuiet, DeletionsQuiet, OwnedQuiet, CheckedQuiet
  <2>2. CASE Write(r)
    BY <2>0, <2>2, RefusedWrite, DeletionsWrite, OwnedWrite, CheckedWrite
  <2>3. CASE Commit(r) \/ RollBack(r)
    BY <2>0, <2>3, RefusedEnds, DeletionsEnds, OwnedEnds, CheckedEnds
  <2>. QED
    BY <1>2, <2>1, <2>2, <2>3 DEF Handle
<1>3. CASE UNCHANGED vars
  <2>0. \A r \in Requests : CleanIfRefused(r)' <=> CleanIfRefused(r)
    BY <1>3 DEF vars, tx, CleanIfRefused, Clean, Lost, FilesOnly, ItsFiles, OwnItem, Running
  <2>1. RefusedClean'
    BY <1>3, <2>0 DEF vars, tx, RefusedClean
  <2>4. Deletions'
    <3>1. \A id, kind : HasKind(id, kind)' <=> HasKind(id, kind)
      BY <1>3 DEF vars, HasKind
    <3>2. \A r \in Requests : (FilesFirst(r)' <=> FilesFirst(r)) /\ (Running(r)' <=> Running(r))
      BY <1>3, <3>1 DEF vars, tx, FilesFirst, ItsFiles, View, Running
    <3>. QED
      BY <1>3, <3>1, <3>2 DEF vars, tx, Deletions
  <2>2. Owned'
    BY <1>3 DEF vars, tx, Owned, View, Step, Running
  <2>3. Checked'
    BY <1>3 DEF vars, tx, Checked, OwnPage, Running
  <2>. QED
    BY <1>1, <2>1, <2>2, <2>3, <2>4
<1>. QED
  BY <1>1, <1>2, <1>3 DEF Next, AllEnded

\* Whatever requests interleave, and whether the provider sees the exception or not: a call
\* that is refused with a 4xx commits nothing, but for a deletion of an item that another call
\* took a file from meanwhile; that one commits the loss of files of its item, at most.
THEOREM RefusedKeepTheRest == Spec => RefusalsKeepTheRest
<1>1. ASSUME RequestInv, [Next]_vars
      PROVE  [\A r \in Requests :
                Commit(r) /\ outcome[r] \in Refusals =>
                  \/ rows' = rows
                  \/ /\ call[r].op \in {"delete_person", "delete_date"}
                     /\ rows' \subseteq rows
                     /\ rows \ rows' = FilesOf(rows \ rows', call[r].id, call[r].author)
                     /\ FilesOf(overtaken[r], call[r].id, call[r].author) # {}]_vars
  <2>1. ASSUME NEW r \in Requests, Commit(r), outcome[r] \in Refusals
        PROVE  \/ rows' = rows
               \/ /\ call[r].op \in Deleting
                  /\ rows' \subseteq rows
                  /\ rows \ rows' = FilesOf(rows \ rows', call[r].id, call[r].author)
                  /\ FilesOf(overtaken[r], call[r].id, call[r].author) # {}
    <3>1. ~aborted[r] /\ rows' = (rows \ minus[r]) \cup plus[r]
      BY <2>1 DEF Commit, View
    <3>2. CASE Clean(r)
      BY <3>1, <3>2 DEF Clean
    <3>3. CASE Lost(r)
      <4>1. rows \ rows' = minus[r] \cap rows /\ rows' \subseteq rows
        BY <3>1, <3>3 DEF Lost, FilesOnly
      <4>. QED
        BY <3>3, <4>1 DEF Lost, FilesOnly, ItsFiles, FilesOf
    <3>. QED
      BY <1>1, <2>1, <3>1, <3>2, <3>3 DEF RequestInv, RefusedClean, CleanIfRefused
  <2>. QED
    BY <2>1 DEF Deleting
<1>. QED
  BY <1>1, RequestInit, RequestStep, PTL DEF Spec, RefusalsKeepTheRest

\* Whatever ids it is given: a call changes rows of its author's only, and a page changes or
\* removes relationships of its own person only, but for one that another call moved between
\* the check and the statement.
THEOREM OwnRowsChanged == Spec => OwnRowsOnly
<1>1. ASSUME RequestInv, [Next]_vars
      PROVE  [\A r \in Requests :
                Commit(r) =>
                  \A row \in plus[r] \cup minus[r] :
                    /\ row.author = call[r].author
                    /\ call[r].op = "update_person" /\ row \in minus[r] /\ row.table = "relationship" =>
                         call[r].id \in {row.source, row.target} \/ row \in overtaken[r]]_vars
  BY <1>1 DEF RequestInv, Owned, Checked, OwnPage
<1>. QED
  BY <1>1, RequestInit, RequestStep, PTL DEF Spec, OwnRowsOnly

-----------------------------------------------------------------------------
(* What requests rely on.                                                   *)

\* All of these rows are there.
Has(view, table, ids, author) == \A i \in ids : Key(table, i, author) \in Provided(view)

\* What a request has found out and relies on at a later step, as long as nobody overtakes it.
KnownAt(step, c, n, view, found) ==
  LET Here(table, ids) == Has(view, table, ids, c.author)
  IN  /\ c.op \in Changing =>
           /\ n \in 2 .. 9 => Here(KindOf(c.op), {c.id})
           /\ n \in FirstWrite(c.op) .. FirstWrite(c.op) + 2 => Here("tag", c.tags)
           /\ step = "tag" => ItemTagsOf(view, {c.id}, c.author) = {}
      /\ c.op = "update_person" =>
           /\ n \in 5 .. 9 => Here("type", TypesIn(c))
           /\ n \in 10 .. 11 => TypesIn(c) \subseteq found.types
      /\ c.op = "update_date" =>
           /\ n \in 4 .. 9 => Here("person", c.people)
           /\ step = "link" => LinksOfDates(view, {c.id}, c.author) = {}
      /\ step = "names" => found.relations \subseteq RelationshipsOf(view, c.id, c.author)
      /\ step = "date_rows" \/ (c.op = "calendar" /\ n \in 2 .. 4) =>
           IsFiniteSet(found.dates) /\ Here("date", found.dates)
      /\ c.op = "calendar" /\ n \in 3 .. 5 => IsFiniteSet(found.people) /\ Here("person", found.people)
      /\ step = "page_names" \/ (c.op = "calendar" /\ n \in 4 .. 5) =>
           found.links \subseteq {row \in view : row.table = "link" /\ row.author = c.author}
      /\ step = "page_rows" => IsFiniteSet(found.page) /\ Here(KindOf(c.op), found.page)
      /\ step = "delete_type" => ~TypeIsUsed(view, c.id, c.author)
      /\ step = "delete_tag" => ~TagIsUsed(view, c.id, c.author)
      /\ step = "remove_files" =>
           \A row \in FilesOf(view, c.id, c.author) : row.id \in found.files \ found.done
      /\ step = "delete" => FilesOf(view, c.id, c.author) = {}

Known(r) == KnownAt(Step(r), call[r], pc[r], View(r), seen[r])

\* Sets of rows are finite, what is asked for stays, and what is remembered has its fields.
Sized ==
  /\ IsFiniteSet(rows)
  /\ call \in Asked
  /\ \A r \in Requests : IsFiniteSet(plus[r]) /\ DOMAIN seen[r] = DOMAIN Unseen

\* The id of a new row is nobody's until it is inserted.
Fresh ==
  \A r \in Requests : call[r].op \in Inserting /\ pc[r] = 1 =>
    \A row \in rows \cup UNION {plus[q] : q \in Requests} :
      row.table \in {"item", "type"} => row.id # call[r].id

Relied == \A r \in Requests : overtaken[r] = {} /\ Running(r) => Known(r)

CrashInv == RequestInv /\ Sized /\ Fresh /\ Relied /\ CrashesExplained

-----------------------------------------------------------------------------
(* What a program does before a step.                                       *)

\* Where the steps are whose outcome rests on an earlier one.
LEMMA StepsBefore ==
  ASSUME NEW op \in Operation, NEW n \in 1 .. Len(Program(op))
  PROVE  LET s == Program(op)[n]
             before == Program(op)[n - 1]
         IN  /\ s \in {"item", "untag", "tag"} => op \in Changing
             /\ s = "item" => n = FirstWrite(op)
             /\ s = "untag" => n = FirstWrite(op) + 1
             /\ s = "tag" => n = FirstWrite(op) + 2 /\ before = "untag"
             /\ op \in Changing =>
                  /\ FirstWrite(op) \in 5 .. 6
                  /\ n = 1 <=> s = "load" /\ n < 10
                  /\ n = FirstWrite(op) - 1 => s = "tags"
             /\ s \in RowByRow => op # "calendar" /\ (op \in Changing => n > 9)
             /\ s \in RowByRow /\ op = "update_person" => n > 11
             /\ s = "unlink" => op = "update_date" /\ n = 8
             /\ s = "link" => op = "update_date" /\ n = 9 /\ before = "unlink"
             /\ op = "update_date" /\ n = 3 => s = "people"
             /\ op = "update_person" /\ n = 4 => s = "types"
             /\ op = "update_person" => (n = 9 <=> s = "types_again")
             /\ s = "create" => op = "update_person" /\ n = 10
             /\ s = "change" => op = "update_person" /\ n = 11
             /\ s = "names" => n > 1 /\ before = "relations"
             /\ s = "date_rows" => n > 1 /\ (before = "date_ids" \/ (op = "calendar" /\ n = 4))
             /\ s = "page_rows" => n > 1 /\ before \in {"page", "page_rows"}
             /\ s = "page_names" => n > 1 /\ before = "page_links"
             /\ s = "delete_type" => n > 1 /\ before = "type_used"
             /\ s = "delete_tag" => n > 1 /\ before = "tag_used"
             /\ s = "remove_files" => n > 1 /\ before = "files"
             /\ s = "delete" => n > 1 /\ before = "remove_files"
             /\ s \in {"files", "remove_files", "delete"} => op \in Deleting
             /\ op = "calendar" =>
                  /\ n = 1 => s = "month_dates"
                  /\ n = 2 => s = "month_people"
                  /\ n = 3 => s = "month_links"
                  /\ n = 4 => s = "date_rows"
                  /\ s \notin Writing \cup {"date_ids", "page_links"}
             /\ s = "month_names" => op = "calendar" /\ n = 5
             /\ s \in {"insert_item", "insert_type"} => op \in Inserting /\ n = 1
             /\ op \in Inserting /\ n = 1 => s \in {"insert_item", "insert_type"}
<1>. USE DEF FirstWrite, Creating, Changing, Deleting, Inserting, Returning, RowByRow, Writing,
             Program, Programs
<1>1. CASE op = "update_person"
  BY <1>1 DEF PeopleEndpoint, UpdatePerson, UpdateItem, GetPerson
<1>2. CASE op = "update_date"
  BY <1>2 DEF DatesEndpoint, UpdateDate, UpdateItem, GetDate
<1>3. CASE op \in {"delete_person", "create_person"}
  BY <1>3 DEF PeopleEndpoint, DeletePerson, CreatePerson, GetPerson
<1>4. CASE op \in {"delete_date", "create_date"}
  BY <1>4 DEF DatesEndpoint, DeleteDate, CreateDate, GetDate
<1>5. CASE op \in {"get_person", "list_people"}
  BY <1>5 DEF PeopleEndpoint, GetPerson, ListPeople
<1>6. CASE op \in {"get_date", "list_dates"}
  BY <1>6 DEF DatesEndpoint, GetDate, ListDates
<1>7. CASE op \in {"create_type", "update_type", "delete_type"}
  BY <1>7 DEF TypesEndpoint, CreateType, UpdateType, DeleteType
<1>8. CASE op \in {"create_tag", "update_tag", "delete_tag"}
  BY <1>8 DEF TagsEndpoint, CreateTag, UpdateTag, DeleteTag
<1>9. CASE op = "calendar"
  BY <1>9 DEF Calendar
<1>10. CASE op \in {"upload_attachment", "delete_attachment"}
  BY <1>10 DEF FilesEndpoint, UploadAttachment, DeleteAttachment
<1>. QED
  BY <1>1, <1>2, <1>3, <1>4, <1>5, <1>6, <1>7, <1>8, <1>9, <1>10 DEF Operation

-----------------------------------------------------------------------------
(* Counting rows.                                                           *)

\* An image of a finite set is finite.
LEMMA FiniteImage ==
  ASSUME NEW S, IsFiniteSet(S), NEW f, f = [x \in S |-> f[x]]
  PROVE  IsFiniteSet({f[x] : x \in S})
<1>. DEFINE T == {f[x] : x \in S}
<1>1. f \in Surjection(S, T)
  BY DEF Surjection
<1>. QED
  BY <1>1, FS_Surjection

\* Of rows whose ids are different and asked for there are as many as ids if each is found.
LEMMA CountById ==
  ASSUME NEW found, NEW ids, IsFiniteSet(ids), \A a \in found : a.id \in ids,
         \A a, b \in found : a.id = b.id => a = b
  PROVE  Cardinality(found) = Cardinality(ids) <=> \A i \in ids : \E a \in found : a.id = i
<1>. DEFINE f == [a \in found |-> a.id]
<1>1. f \in Injection(found, ids)
  BY DEF Injection, IsInjective
<1>2. Cardinality(found) = Cardinality(ids) <=> f \in Surjection(found, ids)
  BY <1>1, FS_Injection
<1>3. f \in Surjection(found, ids) <=> \A i \in ids : \E a \in found : a.id = i
  BY <1>1 DEF Surjection, Injection
<1>. QED
  BY <1>2, <1>3

\* A key is provided by a row that has it.
LEMMA KeyOfRow ==
  ASSUME NEW V, V \subseteq Row, NEW table, NEW i, NEW author
  PROVE  /\ table \in Kinds =>
              (Key(table, i, author) \in Provided(V) <=>
                 \E a \in V : a.table = "item" /\ a.id = i /\ a.author = author /\ a.kind = table)
         /\ table \in {"item", "tag", "type"} =>
              (Key(table, i, author) \in Provided(V) <=>
                 \E a \in V : a.table = table /\ a.id = i /\ a.author = author)
<1>1. ASSUME table \in Kinds, NEW a \in Row
      PROVE  Key(table, i, author) \in Provides(a) <=>
               a.table = "item" /\ a.id = i /\ a.author = author /\ a.kind = table
  BY <1>1 DEF Row, ItemRow, TagRow, ItemTagRow, TypeRow, RelationshipRow, LinkRow, FileRow, Kinds, Provides, Key
<1>2. ASSUME table \in {"item", "tag", "type"}, NEW a \in Row
      PROVE  Key(table, i, author) \in Provides(a) <=> a.table = table /\ a.id = i /\ a.author = author
  BY <1>2 DEF Row, ItemRow, TagRow, ItemTagRow, TypeRow, RelationshipRow, LinkRow, FileRow, Kinds, Provides, Key
<1>. QED
  BY <1>1, <1>2 DEF Provided

\* A use case compares counts; what it finds out is that every row is there.
LEMMA Counted ==
  ASSUME NEW V, V \subseteq Row, Unique(V), NEW ids, IsFiniteSet(ids), NEW author
  PROVE  /\ \A kind \in Kinds :
              Cardinality(ItemsById(V, ids, author, kind)) = Cardinality(ids) <=>
                Has(V, kind, ids, author)
         /\ Cardinality(TagsById(V, ids, author)) = Cardinality(ids) <=> Has(V, "tag", ids, author)
         /\ Cardinality(TypesById(V, ids, author)) = Cardinality(ids) <=> Has(V, "type", ids, author)
<1>1. \A a, b \in V : a.table = b.table /\ a.table \in {"item", "tag", "type"} /\ a.id = b.id => a = b
  BY DEF Unique, Clash
<1>2. ASSUME NEW kind \in Kinds
      PROVE  Cardinality(ItemsById(V, ids, author, kind)) = Cardinality(ids) <=>
               Has(V, kind, ids, author)
  <2>. DEFINE found == ItemsById(V, ids, author, kind)
  <2>1. (\A a \in found : a.id \in ids) /\ (\A a, b \in found : a.id = b.id => a = b)
    BY <1>1 DEF ItemsById
  <2>2. Cardinality(found) = Cardinality(ids) <=> \A i \in ids : \E a \in found : a.id = i
    <3>. HIDE DEF found
    <3>. QED
      BY <2>1, CountById
  <2>. QED
    BY <1>2, <2>2, KeyOfRow DEF Has, ItemsById
<1>3. Cardinality(TagsById(V, ids, author)) = Cardinality(ids) <=> Has(V, "tag", ids, author)
  <2>. DEFINE found == TagsById(V, ids, author)
  <2>1. (\A a \in found : a.id \in ids) /\ (\A a, b \in found : a.id = b.id => a = b)
    BY <1>1 DEF TagsById
  <2>2. Cardinality(found) = Cardinality(ids) <=> \A i \in ids : \E a \in found : a.id = i
    <3>. HIDE DEF found
    <3>. QED
      BY <2>1, CountById
  <2>. QED
    BY <2>2, KeyOfRow DEF Has, TagsById
<1>4. Cardinality(TypesById(V, ids, author)) = Cardinality(ids) <=> Has(V, "type", ids, author)
  <2>. DEFINE found == TypesById(V, ids, author)
  <2>1. (\A a \in found : a.id \in ids) /\ (\A a, b \in found : a.id = b.id => a = b)
    BY <1>1 DEF TypesById
  <2>2. Cardinality(found) = Cardinality(ids) <=> \A i \in ids : \E a \in found : a.id = i
    <3>. HIDE DEF found
    <3>. QED
      BY <2>1, CountById
  <2>. QED
    BY <2>2, KeyOfRow DEF Has, TypesById
<1>. QED
  BY <1>2, <1>3, <1>4

-----------------------------------------------------------------------------
(* Why a call that nobody overtakes does not crash.                         *)

\* What a running request sees satisfies the constraints.
LEMMA RunningFacts ==
  ASSUME RequestInv, Sized, NEW r \in Requests, Running(r)
  PROVE  /\ ~aborted[r] /\ call[r] \in Call /\ call[r].op \in Operation
         /\ Len(Program(call[r].op)) \in Nat /\ pc[r] \in 1 .. Len(Program(call[r].op))
         /\ Step(r) = Program(call[r].op)[pc[r]]
         /\ View(r) \subseteq Row /\ IsFiniteSet(View(r)) /\ IsFiniteSet(rows \ minus[r])
         /\ Unique(View(r)) /\ RestrictKept(View(r))
         /\ Step(r) # "cascade" => CascadeKept(View(r))
         /\ Deleted(r) \subseteq View(r)
<1>1. ~aborted[r]
  BY DEF RequestInv, RefusedClean, CleanIfRefused
<1>2. call[r] \in Call /\ call[r].op \in Operation /\ Len(Program(call[r].op)) \in Nat
  BY ProgramLength DEF RequestInv, GraphInv, Shape, Call
<1>3. IsFiniteSet(rows \ minus[r]) /\ IsFiniteSet(plus[r])
  BY FS_Subset DEF Sized
<1>4. IsFiniteSet(View(r))
  BY <1>3, FS_Union DEF View
<1>. QED
  BY <1>1, <1>2, <1>3, <1>4, DeletedSeen
  DEF Running, Step, RequestInv, GraphInv, Consistent

\* The tables of the rows that a key to refer to belongs to.
LEMMA RestrictTables ==
  /\ \A b \in Row : \A k \in RestrictedBy(b) :
       k.table \in {"type", "tag"} \/ (k.table = "item" /\ b.table = "file")
  /\ \A b : b.table \in {"item_tag", "relationship", "link", "file"} => Provides(b) = {}
  /\ \A b \in Row : b.table = "item" => \A k \in Provides(b) : k.table \in {"item", "person", "date"}
  /\ \A b : b.table \in {"item", "type", "tag"} => References(b) = {}
<1>1. \A b \in Row : \A k \in RestrictedBy(b) :
        k.table \in {"type", "tag"} \/ (k.table = "item" /\ b.table = "file")
  BY DEF Row, ItemRow, TagRow, ItemTagRow, TypeRow, RelationshipRow, LinkRow, FileRow, RestrictedBy, Key
<1>2. \A b \in Row : b.table = "item" => \A k \in Provides(b) : k.table \in {"item", "person", "date"}
  BY DEF Row, ItemRow, TagRow, ItemTagRow, TypeRow, RelationshipRow, LinkRow, FileRow, Kinds, Provides, Key
<1>3. \A b : b.table \in {"item_tag", "relationship", "link", "file"} => Provides(b) = {}
  BY DEF Provides
<1>4. \A b : b.table \in {"item", "type", "tag"} => References(b) = {}
  BY DEF References, CascadesFrom, RestrictedBy
<1>. QED
  BY <1>1, <1>2, <1>3, <1>4, Zenon

\* The items of an endpoint are of one kind.
LEMMA KindOfFacts == (\A op : KindOf(op) \in Kinds) /\ KindOf("update_date") = "date"
BY DEF KindOf, Kinds

\* Rows that are replaced by versions with the same keys break nothing.
LEMMA SameKeysHold ==
  ASSUME NEW r \in Requests, View(r) \subseteq Row, Unique(View(r)), Deleted(r) \subseteq View(r),
         NEW f, Inserted(r) = {f[d] : d \in Deleted(r)},
         \A d \in Deleted(r) : /\ f[d].table \in {"item", "type"} /\ f[d].table = d.table
                               /\ f[d].id = d.id /\ Provides(f[d]) = Provides(d)
  PROVE  ~Breaks(r)
<1>1. \A a \in Inserted(r) : CheckHolds(a) /\ References(a) = {}
  BY RestrictTables DEF CheckHolds
<1>2. ASSUME NEW d \in Deleted(r), NEW b \in (View(r) \ Deleted(r)) \cup Inserted(r), Clash(f[d], b)
      PROVE  f[d] = b
  <2>1. CASE b \in View(r) \ Deleted(r)
    <3>1. Clash(d, b)
      BY <1>2 DEF Clash
    <3>. QED
      BY <2>1, <3>1 DEF Unique
  <2>2. CASE b \in Inserted(r)
    <3>1. PICK e \in Deleted(r) : b = f[e]
      BY <2>2
    <3>2. Clash(d, e)
      BY <1>2, <3>1 DEF Clash
    <3>. QED
      BY <3>1, <3>2 DEF Unique
  <2>. QED
    BY <1>2, <2>1, <2>2
<1>3. Gone(r) = {}
  BY DEF Gone, Provided
<1>. QED
  BY <1>1, <1>2, <1>3 DEF Breaks, Keeps

\* Neither do rows when they go whose keys no row that is left refers to.
LEMMA DeletionHolds ==
  ASSUME NEW r \in Requests, View(r) \subseteq Row, Inserted(r) = {},
         \A k \in Gone(r) : k.table \in {"type", "tag", "item"} =>
           \A b \in View(r) \ Deleted(r) : k \notin RestrictedBy(b)
  PROVE  ~Breaks(r)
BY RestrictTables DEF Breaks, Keeps

\* A statement whose error nobody catches breaks no constraint, unless another call has
\* changed what was found out before it.
LEMMA HoldsIfKnown ==
  ASSUME CrashInv, NEW r \in Requests, overtaken[r] = {}, Running(r), Step(r) \in Writing \ Caught
  PROVE  ~Breaks(r)
<1>. DEFINE c == call[r]
            V == View(r)
<1>0. RequestInv /\ Sized /\ Known(r)
  BY DEF CrashInv, Relied
<1>1. /\ c \in Call /\ c.op \in Operation /\ pc[r] \in 1 .. Len(Program(c.op))
      /\ Step(r) = Program(c.op)[pc[r]] /\ V \subseteq Row /\ Unique(V)
      /\ Step(r) # "cascade" => CascadeKept(V)
      /\ Deleted(r) \subseteq V
  BY <1>0, RunningFacts
<1>a. c.op \in Operation /\ pc[r] \in 1 .. Len(Program(c.op))
  BY <1>1
<1>2. CASE Step(r) \in {"item", "touch", "touch_dates", "touch_item"}
  <2>. DEFINE f == [d \in Deleted(r) |-> [d EXCEPT !.stamp = r]]
  <2>1. Inserted(r) = {f[d] : d \in Deleted(r)}
    BY <1>2 DEF Inserted, Stamped
  <2>2. \A d \in Deleted(r) : d \in ItemRow
    BY <1>1, <1>2 DEF Deleted, ItemOf, ItemsById, AnyItem, Row, TagRow, ItemTagRow, TypeRow,
       RelationshipRow, LinkRow, FileRow
  <2>3. \A d \in Deleted(r) : /\ f[d].table = "item" /\ f[d].table = d.table /\ f[d].id = d.id
                              /\ Provides(f[d]) = Provides(d)
    BY <2>2 DEF ItemRow, Provides
  <2>. HIDE DEF f
  <2>. QED
    BY <1>1, <2>1, <2>3, SameKeysHold
<1>3. CASE Step(r) = "set_type"
  <2>. DEFINE f == [d \in Deleted(r) |-> [d EXCEPT !.symmetric = c.symmetric]]
  <2>1. Inserted(r) = {f[d] : d \in Deleted(r)}
    BY <1>3 DEF Inserted, ChangedType
  <2>2. \A d \in Deleted(r) : d \in TypeRow
    BY <1>1, <1>3 DEF Deleted, TypesById, Row, ItemRow, TagRow, ItemTagRow, RelationshipRow, LinkRow, FileRow
  <2>3. \A d \in Deleted(r) : /\ f[d].table = "type" /\ f[d].table = d.table /\ f[d].id = d.id
                              /\ Provides(f[d]) = Provides(d)
    BY <2>2 DEF TypeRow, Provides
  <2>. HIDE DEF f
  <2>. QED
    BY <1>1, <2>1, <2>3, SameKeysHold
<1>4. CASE Step(r) \in {"untag", "remove", "unlink", "remove_files", "detach", "cascade"}
  <2>1. Inserted(r) = {}
    BY <1>4 DEF Inserted
  <2>2. ASSUME NEW row \in Deleted(r), NEW k \in Provides(row)
        PROVE  FALSE
    <3>1. CASE Step(r) = "cascade"
      BY <1>1, <2>2, <3>1, CascadeFacts DEF Deleted
    <3>2. CASE Step(r) \in {"untag", "remove", "unlink", "remove_files", "detach"}
      <4>1. row.table \in {"item_tag", "relationship", "link", "file"}
        BY <2>2, <3>2 DEF Deleted, ItemTagsOf, DeletedRelationships, LinksOfDates, FilesById, FilesOf
      <4>. QED
        BY <2>2, <4>1, RestrictTables
    <3>. QED
      BY <1>4, <3>1, <3>2
  <2>3. Gone(r) = {}
    BY <2>2 DEF Gone, Provided
  <2>. QED
    BY <1>1, <2>1, <2>3, DeletionHolds
<1>10. CASE Step(r) = "delete"
  <2>1. /\ Inserted(r) = {} /\ Deleted(r) = ItemsById(V, {c.id}, c.author, KindOf(c.op))
        /\ FilesOf(V, c.id, c.author) = {}
    BY <1>0, <1>10 DEF Inserted, Deleted, DeletedItem, Known, KnownAt
  <2>2. ASSUME NEW k \in Gone(r)
        PROVE  k \in {Key("item", c.id, c.author), Key(KindOf(c.op), c.id, c.author)}
    BY <2>1, <2>2 DEF Gone, Provided, Provides, ItemsById
  <2>3. \A b \in V : Key("item", c.id, c.author) \notin RestrictedBy(b)
    BY <1>1, <2>1
    DEF Row, ItemRow, TagRow, ItemTagRow, TypeRow, RelationshipRow, LinkRow, FileRow, RestrictedBy,
        Key, FilesOf
  <2>4. Key(KindOf(c.op), c.id, c.author).table \in {"person", "date"}
    BY KindOfFacts DEF Key, Kinds
  <2>. QED
    BY <1>1, <2>1, <2>2, <2>3, <2>4, DeletionHolds
<1>5. CASE Step(r) = "delete_type"
  <2>1. Inserted(r) = {} /\ Deleted(r) = TypesById(V, {c.id}, c.author)
    BY <1>5 DEF Inserted, Deleted, DeletedType
  <2>2. Gone(r) \subseteq {Key("type", c.id, c.author)}
    BY <2>1 DEF Gone, Provided, Provides, TypesById
  <2>3. \A b \in V : ~(b.table = "relationship" /\ b.type = c.id /\ b.author = c.author)
    BY <1>0, <1>5 DEF Known, KnownAt, TypeIsUsed
  <2>4. \A b \in V : Key("type", c.id, c.author) \notin RestrictedBy(b)
    BY <1>1, <2>3
    DEF Row, ItemRow, TagRow, ItemTagRow, TypeRow, RelationshipRow, LinkRow, FileRow, RestrictedBy, Key
  <2>. QED
    BY <1>1, <2>1, <2>2, <2>4, DeletionHolds
<1>6. CASE Step(r) = "delete_tag"
  <2>1. Inserted(r) = {} /\ Deleted(r) = TagsById(V, {c.id}, c.author)
    BY <1>6 DEF Inserted, Deleted, DeletedTag
  <2>2. Gone(r) \subseteq {Key("tag", c.id, c.author)}
    BY <2>1 DEF Gone, Provided, Provides, TagsById
  <2>3. \A b \in V : ~(b.table = "item_tag" /\ b.tag = c.id /\ b.author = c.author)
    BY <1>0, <1>6 DEF Known, KnownAt, TagIsUsed
  <2>4. \A b \in V : Key("tag", c.id, c.author) \notin RestrictedBy(b)
    BY <1>1, <2>3
    DEF Row, ItemRow, TagRow, ItemTagRow, TypeRow, RelationshipRow, LinkRow, FileRow, RestrictedBy, Key
  <2>. QED
    BY <1>1, <2>1, <2>2, <2>4, DeletionHolds
<1>7. CASE Step(r) \in {"insert_item", "insert_type"}
  <2>1. c.op \in Inserting /\ pc[r] = 1
    BY <1>1, <1>7, StepsBefore
  <2>2. V = rows
    BY <1>0, <1>1, <2>1, ProgramFacts
    DEF RequestInv, RefusedClean, CleanIfRefused, Clean, View, Inserting, Creating, Deleting
  <2>3. \A b \in V : b.table \in {"item", "type"} => b.id # c.id
    BY <2>1, <2>2 DEF CrashInv, Fresh
  <2>4. Deleted(r) = {} /\ Gone(r) = {}
    BY <1>7 DEF Deleted, Gone, Provided
  <2>5. /\ Inserted(r) \in {{Item(c.id, c.author, KindOf(c.op), r)},
                            {RelationshipType(c.id, c.author, c.symmetric)}}
        /\ \A a \in Inserted(r) : a.table \in {"item", "type"} /\ a.id = c.id
    BY <1>7 DEF Inserted, Item, RelationshipType
  <2>6. \A a \in Inserted(r) : CheckHolds(a) /\ References(a) = {}
    BY <2>5, RestrictTables DEF CheckHolds
  <2>7. \A a \in Inserted(r) : \A b \in (V \cup Inserted(r)) \ {a} : ~Clash(a, b)
    BY <2>3, <2>5 DEF Clash
  <2>. QED
    BY <2>4, <2>6, <2>7 DEF Breaks, Keeps
<1>8. CASE Step(r) = "tag"
  <2>1. c.op \in Changing /\ pc[r] = FirstWrite(c.op) + 2 /\ FirstWrite(c.op) \in 5 .. 6
    <3>1. Program(c.op)[pc[r]] = "tag"
      BY <1>1, <1>8
    <3>. QED
      BY <1>a, <3>1, StepsBefore
  <2>2. /\ Key(KindOf(c.op), c.id, c.author) \in Provided(V)
        /\ \A t \in c.tags : Key("tag", t, c.author) \in Provided(V)
        /\ ItemTagsOf(V, {c.id}, c.author) = {}
    <3>1. 2 <= pc[r] /\ pc[r] <= 9
      BY <2>1
    <3>2. pc[r] \in 2 .. 9 /\ pc[r] \in FirstWrite(c.op) .. FirstWrite(c.op) + 2
      BY <2>1, <3>1
    <3>. QED
      BY <1>0, <1>8, <2>1, <3>2 DEF Known, KnownAt, Has
  <2>3. PICK item \in V : item.table = "item" /\ item.id = c.id /\ item.author = c.author
    BY <1>1, <2>2, KeyOfRow, KindOfFacts
  <2>4. Deleted(r) = {} /\ Gone(r) = {} /\ Inserted(r) = {ItemTag(c.id, t, c.author) : t \in c.tags}
    BY <1>8 DEF Deleted, Gone, Provided, Inserted
  <2>5. Key("item", c.id, c.author) \in Provided(V)
    BY <1>1, <2>3, KeyOfRow
  <2>6. \A a \in Inserted(r) : CheckHolds(a) /\ References(a) \subseteq Provided(V)
    BY <2>2, <2>4, <2>5 DEF ItemTag, CheckHolds, References, CascadesFrom, RestrictedBy
  <2>7. ASSUME NEW b \in V, b.table = "item_tag", b.item = c.id
        PROVE  FALSE
    <3>1. Key("item", c.id, b.author) \in Provided(V)
      BY <1>1, <1>8, <2>7 DEF CascadeKept, CascadesFrom
    <3>2. PICK i \in V : i.table = "item" /\ i.id = c.id /\ i.author = b.author
      BY <1>1, <3>1, KeyOfRow
    <3>3. i = item
      BY <1>1, <2>3, <3>2 DEF Unique, Clash
    <3>. QED
      BY <2>2, <2>3, <2>7, <3>2, <3>3 DEF ItemTagsOf
  <2>8. \A a \in Inserted(r) : \A b \in (V \cup Inserted(r)) \ {a} : ~Clash(a, b)
    BY <2>4, <2>7 DEF ItemTag, Clash
  <2>9. Provided(V) \subseteq Provided(V \cup Inserted(r))
    BY DEF Provided
  <2>. QED
    BY <2>4, <2>6, <2>8, <2>9 DEF Breaks, Keeps
<1>9. CASE Step(r) = "link"
  <2>1. c.op = "update_date" /\ pc[r] = 9
    <3>1. Program(c.op)[pc[r]] = "link"
      BY <1>1, <1>9
    <3>. QED
      BY <1>a, <3>1, StepsBefore
  <2>2. /\ Key("date", c.id, c.author) \in Provided(V)
        /\ \A p \in c.people : Key("person", p, c.author) \in Provided(V)
        /\ LinksOfDates(V, {c.id}, c.author) = {}
    BY <1>0, <1>9, <2>1, KindOfFacts DEF Known, KnownAt, Has, Changing
  <2>3. PICK item \in V : item.table = "item" /\ item.id = c.id /\ item.author = c.author
    BY <1>1, <2>2, KeyOfRow DEF Kinds
  <2>4. Deleted(r) = {} /\ Gone(r) = {} /\ Inserted(r) = {Link(c.id, p, c.author) : p \in c.people}
    BY <1>9 DEF Deleted, Gone, Provided, Inserted
  <2>5. \A a \in Inserted(r) : CheckHolds(a) /\ References(a) \subseteq Provided(V)
    BY <2>2, <2>4 DEF Link, CheckHolds, References, CascadesFrom, RestrictedBy
  <2>6. ASSUME NEW b \in V, b.table = "link", b.date = c.id
        PROVE  FALSE
    <3>1. Key("date", c.id, b.author) \in Provided(V)
      BY <1>1, <1>9, <2>6 DEF CascadeKept, CascadesFrom
    <3>2. PICK i \in V : i.table = "item" /\ i.id = c.id /\ i.author = b.author
      BY <1>1, <3>1, KeyOfRow DEF Kinds
    <3>3. i = item
      BY <1>1, <2>3, <3>2 DEF Unique, Clash
    <3>. QED
      BY <2>2, <2>3, <2>6, <3>2, <3>3 DEF LinksOfDates
  <2>7. \A a \in Inserted(r) : \A b \in (V \cup Inserted(r)) \ {a} : ~Clash(a, b)
    BY <2>4, <2>6 DEF Link, Clash
  <2>8. Provided(V) \subseteq Provided(V \cup Inserted(r))
    BY DEF Provided
  <2>. QED
    BY <2>4, <2>5, <2>7, <2>8 DEF Breaks, Keeps
<1>. QED
  BY <1>2, <1>3, <1>4, <1>5, <1>6, <1>7, <1>8, <1>9, <1>10 DEF Writing, Returning, RowByRow, Caught

\* The relationships, links and dates that were found have people and dates at their ends.
LEMMA EndsFound ==
  ASSUME NEW V, V \subseteq Row, CascadeKept(V), IsFiniteSet(V), NEW author, NEW person
  PROVE  /\ \A R : R \subseteq RelationshipsOf(V, person, author) =>
              LET ids == {RelatedPersonFor(row, person) : row \in R}
              IN  IsFiniteSet(ids) /\ Has(V, "person", ids, author)
         /\ \A L : L \subseteq {row \in V : row.table = "link" /\ row.author = author} =>
              LET ids == {row.person : row \in L}
              IN  IsFiniteSet(ids) /\ Has(V, "person", ids, author)
<1>1. ASSUME NEW R, R \subseteq RelationshipsOf(V, person, author)
      PROVE  LET ids == {RelatedPersonFor(row, person) : row \in R}
             IN  IsFiniteSet(ids) /\ Has(V, "person", ids, author)
  <2>. DEFINE f == [row \in R |-> RelatedPersonFor(row, person)]
  <2>1. R \subseteq V /\ \A row \in R : row.table = "relationship" /\ row.author = author
    BY <1>1 DEF RelationshipsOf
  <2>2. IsFiniteSet(R)
    BY <2>1, FS_Subset
  <2>3. f = [row \in R |-> f[row]] /\ {f[row] : row \in R} = {RelatedPersonFor(row, person) : row \in R}
    OBVIOUS
  <2>4. IsFiniteSet({RelatedPersonFor(row, person) : row \in R})
    <3>. HIDE DEF f
    <3>. QED
      BY <2>2, <2>3, FiniteImage
  <2>5. \A row \in R : Key("person", RelatedPersonFor(row, person), author) \in Provided(V)
    BY <2>1 DEF CascadeKept, CascadesFrom, RelatedPersonFor
  <2>. QED
    BY <2>4, <2>5 DEF Has
<1>2. ASSUME NEW L, L \subseteq {row \in V : row.table = "link" /\ row.author = author}
      PROVE  LET ids == {row.person : row \in L}
             IN  IsFiniteSet(ids) /\ Has(V, "person", ids, author)
  <2>. DEFINE f == [row \in L |-> row.person]
  <2>1. L \subseteq V /\ \A row \in L : row.table = "link" /\ row.author = author
    BY <1>2
  <2>2. IsFiniteSet(L)
    BY <2>1, FS_Subset
  <2>3. f = [row \in L |-> f[row]] /\ {f[row] : row \in L} = {row.person : row \in L}
    OBVIOUS
  <2>4. IsFiniteSet({row.person : row \in L})
    <3>. HIDE DEF f
    <3>. QED
      BY <2>2, <2>3, FiniteImage
  <2>5. \A row \in L : Key("person", row.person, author) \in Provided(V)
    BY <2>1 DEF CascadeKept, CascadesFrom
  <2>. QED
    BY <2>4, <2>5 DEF Has
<1>. QED
  BY <1>1, <1>2

\* Whoever is not overtaken finds everything it goes on to look up.
LEMMA FoundIfKnown ==
  ASSUME CrashInv, NEW r \in Requests, overtaken[r] = {}, Running(r)
  PROVE  LET c == call[r]
             V == View(r)
             Found(ids, kind) == Cardinality(ItemsById(V, ids, c.author, kind)) = Cardinality(ids)
             linked == {row.person : row \in seen[r].links}
         IN  /\ Step(r) = "names" =>
                  Found({RelatedPersonFor(row, c.id) : row \in seen[r].relations}, "person")
             /\ Step(r) = "date_rows" => Found(seen[r].dates, "date")
             /\ Step(r) = "page_rows" => Found(seen[r].page, KindOf(c.op))
             /\ Step(r) = "page_names" => Found(linked, "person")
             /\ Step(r) = "month_names" => Found(seen[r].people \cup linked, "person")
<1>. DEFINE c == call[r]
            V == View(r)
            linked == {row.person : row \in seen[r].links}
<1>0. RequestInv /\ Sized /\ Known(r)
  BY DEF CrashInv, Relied
<1>1. V \subseteq Row /\ Unique(V) /\ IsFiniteSet(V) /\ (Step(r) # "cascade" => CascadeKept(V))
  BY <1>0, RunningFacts
<1>2. ASSUME NEW ids, IsFiniteSet(ids), NEW kind \in Kinds, Has(V, kind, ids, c.author)
      PROVE  Cardinality(ItemsById(V, ids, c.author, kind)) = Cardinality(ids)
  BY <1>1, <1>2, Counted
<1>3. "person" \in Kinds /\ "date" \in Kinds /\ KindOf(c.op) \in Kinds
  BY KindOfFacts DEF Kinds
<1>4. ASSUME Step(r) = "names"
      PROVE  LET ids == {RelatedPersonFor(row, c.id) : row \in seen[r].relations}
             IN  Cardinality(ItemsById(V, ids, c.author, "person")) = Cardinality(ids)
  <2>1. seen[r].relations \subseteq RelationshipsOf(V, c.id, c.author)
    BY <1>0, <1>4 DEF Known, KnownAt
  <2>. DEFINE ids == {RelatedPersonFor(row, c.id) : row \in seen[r].relations}
  <2>2. IsFiniteSet(ids) /\ Has(V, "person", ids, c.author)
    BY <1>1, <1>4, <2>1, EndsFound
  <2>. HIDE DEF ids
  <2>3. Cardinality(ItemsById(V, ids, c.author, "person")) = Cardinality(ids)
    BY <1>2, <1>3, <2>2
  <2>. QED
    BY <2>3 DEF ids
<1>5. ASSUME Step(r) = "date_rows"
      PROVE  Cardinality(ItemsById(V, seen[r].dates, c.author, "date")) = Cardinality(seen[r].dates)
  <2>1. IsFiniteSet(seen[r].dates) /\ Has(V, "date", seen[r].dates, c.author)
    BY <1>0, <1>5 DEF Known, KnownAt
  <2>. QED
    BY <1>2, <1>3, <2>1
<1>6. ASSUME Step(r) = "page_rows"
      PROVE  Cardinality(ItemsById(V, seen[r].page, c.author, KindOf(c.op))) = Cardinality(seen[r].page)
  <2>1. IsFiniteSet(seen[r].page) /\ Has(V, KindOf(c.op), seen[r].page, c.author)
    BY <1>0, <1>6 DEF Known, KnownAt
  <2>. QED
    BY <1>2, <1>3, <2>1
<1>7. ASSUME seen[r].links \subseteq {row \in V : row.table = "link" /\ row.author = c.author},
             Step(r) # "cascade"
      PROVE  IsFiniteSet(linked) /\ Has(V, "person", linked, c.author)
  BY <1>1, <1>7, EndsFound
<1>8. ASSUME Step(r) = "page_names"
      PROVE  Cardinality(ItemsById(V, linked, c.author, "person")) = Cardinality(linked)
  <2>1. seen[r].links \subseteq {row \in V : row.table = "link" /\ row.author = c.author}
    BY <1>0, <1>8 DEF Known, KnownAt
  <2>. HIDE DEF linked
  <2>. QED
    BY <1>2, <1>3, <1>7, <1>8, <2>1
<1>9. ASSUME Step(r) = "month_names"
      PROVE  LET ids == seen[r].people \cup linked
             IN  Cardinality(ItemsById(V, ids, c.author, "person")) = Cardinality(ids)
  <2>1. c.op = "calendar" /\ pc[r] = 5
    <3>1. c.op \in Operation /\ pc[r] \in 1 .. Len(Program(c.op)) /\ Program(c.op)[pc[r]] = "month_names"
      BY <1>0, <1>9, RunningFacts
    <3>. QED
      BY <3>1, StepsBefore
  <2>2. /\ seen[r].links \subseteq {row \in V : row.table = "link" /\ row.author = c.author}
        /\ IsFiniteSet(seen[r].people) /\ Has(V, "person", seen[r].people, c.author)
    BY <1>0, <2>1 DEF Known, KnownAt
  <2>3. IsFiniteSet(linked) /\ Has(V, "person", linked, c.author)
    BY <1>7, <1>9, <2>2
  <2>. HIDE DEF linked
  <2>4. IsFiniteSet(seen[r].people \cup linked) /\ Has(V, "person", seen[r].people \cup linked, c.author)
    BY <2>2, <2>3, FS_Union DEF Has
  <2>. QED
    BY <1>2, <1>3, <2>4
<1>. QED
  BY <1>4, <1>5, <1>6, <1>8, <1>9

\* No type it has checked is gone when it writes the relationships.
LEMMA TypesIfKnown ==
  ASSUME CrashInv, NEW r \in Requests, overtaken[r] = {}, Running(r)
  PROVE  ~TypeIsGone(r)
<1>. DEFINE c == call[r]
<1>0. RequestInv /\ Sized /\ Known(r)
  BY DEF CrashInv, Relied
<1>1. c \in Call /\ c.op \in Operation /\ pc[r] \in 1 .. Len(Program(c.op))
  BY <1>0, RunningFacts
<1>2. ASSUME Step(r) \in {"create", "change"}
      PROVE  TypesIn(c) \subseteq seen[r].types
  <2>1. Program(c.op)[pc[r]] \in {"create", "change"}
    BY <1>0, <1>2, RunningFacts
  <2>2. c.op = "update_person" /\ pc[r] \in 10 .. 11
    BY <1>1, <2>1, StepsBefore
  <2>. QED
    BY <1>0, <2>2 DEF Known, KnownAt
<1>3. ASSUME c.update # <<>>
      PROVE  c.update[seen[r].changed + 1] \in ToSet(c.update)
  <2>1. c.update \in Seq(Value)
    BY <1>1 DEF Call
  <2>2. Len(c.update) \in Nat /\ Len(c.update) > 0
    BY <1>3, <2>1
  <2>3. seen[r].changed \in Nat /\ (seen[r].changed = 0 \/ seen[r].changed < Len(c.update))
    BY <1>0 DEF RequestInv, GraphInv, Shape
  <2>4. seen[r].changed + 1 \in 1 .. Len(c.update)
    BY <2>2, <2>3
  <2>. QED
    BY <2>1, <2>4 DEF ToSet
<1>. QED
  BY <1>2, <1>3 DEF TypeIsGone, TypesIn, Values

\* A call that nobody overtakes does not crash.
LEMMA NoCrash ==
  ASSUME CrashInv, NEW r \in Requests, overtaken[r] = {}, outcome[r] # "crashed",
         Read(r) \/ Aim(r) \/ WriteRaises(r) \/ WriteBreaks(r) \/ DeadlockVictim(r)
  PROVE  outcome'[r] # "crashed"
<1>0. outcome = [q \in Requests |-> outcome[q]]
  BY DEF CrashInv, RequestInv, RefusedClean
<1>1. Step(r) # "close" => Running(r)
  BY DEF Step
<1>. USE DEF Reads, Remember, Fail
<1>2. CASE Load(r) \/ CheckChanges(r) \/ CheckPeople(r) \/ CheckTypes(r) \/ CheckTags(r)
  BY <1>0, <1>2 DEF Load, CheckChanges, CheckPeople, CheckTypes, CheckTags
<1>3. CASE RereadTypes(r) \/ ReadRelations(r) \/ ReadDateIds(r)
  BY <1>0, <1>3 DEF RereadTypes, ReadRelations, ReadDateIds
<1>4. CASE ReadNeighbours(r) \/ ReadLinks(r) \/ FilterPerson(r) \/ ReadPage(r) \/ ReadPageLinks(r)
  BY <1>0, <1>4 DEF ReadNeighbours, ReadLinks, FilterPerson, ReadPage, ReadPageLinks
<1>5. CASE ReadMonth(r) \/ LoadType(r) \/ LoadTag(r) \/ FindName(r) \/ AskUse(r)
          \/ ListFiles(r) \/ FindItem(r) \/ FindFile(r)
  BY <1>0, <1>5 DEF ReadMonth, LoadType, LoadTag, FindName, AskUse, ListFiles, FindItem, FindFile
<1>6. CASE ReadNames(r) \/ ReadDateRows(r) \/ ReadPageRows(r) \/ ReadPageNames(r) \/ ReadMonthNames(r)
  BY <1>1, <1>6, FoundIfKnown
  DEF ReadNames, ReadDateRows, ReadPageRows, ReadPageNames, ReadMonthNames
<1>7. CASE Aim(r) \/ DeadlockVictim(r)
  BY <1>0, <1>7 DEF Aim, DeadlockVictim
<1>8. CASE WriteRaises(r)
  BY <1>0, <1>1, <1>8, TypesIfKnown DEF WriteRaises, Ready, Writing, Returning, RowByRow
<1>9. CASE WriteBreaks(r)
  <2>1. Running(r) /\ Step(r) \in Writing /\ Breaks(r)
    BY <1>1, <1>9 DEF WriteBreaks, Ready, Writing, Returning, RowByRow
  <2>2. Step(r) \in Caught
    BY <2>1, HoldsIfKnown
  <2>. QED
    BY <1>0, <1>9, <2>2 DEF WriteBreaks
<1>. QED
  BY <1>2, <1>3, <1>4, <1>5, <1>6, <1>7, <1>8, <1>9 DEF Read

-----------------------------------------------------------------------------
(* What a request has found out stays so.                                   *)

\* What a read that goes on has seen, and what it remembers.
LEMMA ReadEffects ==
  ASSUME RequestInv, Sized, NEW r \in Requests, Read(r), Running(r)'
  PROVE  LET c == call[r]
             V == View(r)
             s == Step(r)
             now == seen'[r]
             ids == IF c.op = "update_person" THEN RelatedIn(c) ELSE c.people
         IN  /\ UNCHANGED <<rows, tx, call, outcome, overtaken>>
             /\ seen' = [seen EXCEPT ![r] = now] /\ pc' = [pc EXCEPT ![r] = @ + 1]
             /\ DOMAIN now = DOMAIN Unseen
             /\ s \notin Writing
             /\ s = "load" => ItemOf(r) # {}
             /\ s = "people" =>
                  Cardinality(ItemsById(V, ids, c.author, "person")) = Cardinality(ids)
             /\ s = "types" => Cardinality(TypesById(V, TypesIn(c), c.author)) = Cardinality(TypesIn(c))
             /\ s = "tags" => Cardinality(TagsById(V, c.tags, c.author)) = Cardinality(c.tags)
             /\ s = "types_again" =>
                  now.types = {row.id : row \in TypesById(V, TypesIn(c), c.author)}
             /\ s = "relations" => now.relations = RelationshipsOf(V, c.id, c.author)
             /\ s = "date_ids" => now.dates = DateIdsOfPerson(V, c.id, c.author)
             /\ s = "page" => \A i \in now.page : \E row \in V :
                  row.table = "item" /\ row.id = i /\ row.author = c.author /\ row.kind = KindOf(c.op)
             /\ s = "page_links" => now.links = LinksOfDates(V, seen[r].page, c.author)
             /\ s = "month_dates" => now.dates = MonthOf(r, "date")
             /\ s = "month_people" => now.people = MonthOf(r, "person")
             /\ s = "month_links" => now.links = LinksOfDates(V, seen[r].dates, c.author)
             /\ s = "type_used" => ~TypeIsUsed(V, c.id, c.author)
             /\ s = "tag_used" => ~TagIsUsed(V, c.id, c.author)
             /\ s # "types_again" => now.types = seen[r].types
             /\ s \notin {"date_ids", "month_dates"} => now.dates = seen[r].dates
             /\ s \notin {"neighbours", "month_people"} => now.people = seen[r].people
             /\ s \notin {"links", "page_links", "month_links"} => now.links = seen[r].links
             /\ s # "page" => now.page = seen[r].page
             /\ s = "files" => now.files = {row.id : row \in FilesOf(V, c.id, c.author)}
             /\ s # "files" => now.files = seen[r].files
             /\ now.done = seen[r].done
<1>. DEFINE Fields == {"relations", "links", "people", "dates", "types", "page", "files", "done"}
<1>0. /\ seen = [q \in Requests |-> seen[q]]
      /\ Fields \subseteq DOMAIN seen[r]
      /\ DOMAIN seen[r] = DOMAIN Unseen
  BY DEF RequestInv, GraphInv, Shape, Sized, Unseen
<1>1. \A now, refused, how :
        Reads(r, now, refused, how) =>
          ~refused /\ seen' = [seen EXCEPT ![r] = now] /\ pc' = [pc EXCEPT ![r] = @ + 1]
            /\ UNCHANGED <<rows, tx, call, outcome, overtaken>>
  <2>1. \A how : ~Fail(r, how)
    BY ProgramLength DEF RequestInv, GraphInv, Shape, Call, Fail, ToClose, Running
  <2>. QED
    BY <2>1 DEF Reads, Remember, Advance
<1>2. ASSUME NEW field \in Fields, NEW value,
             seen' = [seen EXCEPT ![r] = [seen[r] EXCEPT ![field] = value]]
      PROVE  /\ seen' = [seen EXCEPT ![r] = seen'[r]] /\ DOMAIN seen'[r] = DOMAIN Unseen
             /\ seen'[r][field] = value
             /\ \A other \in Fields \ {field} : seen'[r][other] = seen[r][other]
  <2>1. seen'[r] = [seen[r] EXCEPT ![field] = value]
    BY <1>0, <1>2
  <2>. QED
    BY <1>0, <1>2, <2>1
<1>3. ASSUME seen' = [seen EXCEPT ![r] = seen[r]]
      PROVE  /\ seen' = [seen EXCEPT ![r] = seen'[r]] /\ DOMAIN seen'[r] = DOMAIN Unseen
             /\ \A field \in Fields : seen'[r][field] = seen[r][field]
  BY <1>0, <1>3
<1>4. CASE Load(r) \/ CheckPeople(r) \/ CheckTypes(r) \/ CheckTags(r)
  BY <1>1, <1>3, <1>4 DEF Load, CheckPeople, CheckTypes, CheckTags, Writing, Returning, RowByRow
<1>5. CASE ReadNames(r) \/ ReadDateRows(r) \/ FilterPerson(r)
  BY <1>1, <1>3, <1>5 DEF ReadNames, ReadDateRows, FilterPerson, Writing, Returning, RowByRow
<1>6. CASE ReadPageRows(r) \/ ReadPageNames(r) \/ ReadMonthNames(r)
  BY <1>1, <1>3, <1>6 DEF ReadPageRows, ReadPageNames, ReadMonthNames, Writing, Returning, RowByRow
<1>7. CASE LoadType(r) \/ LoadTag(r) \/ FindName(r) \/ AskUse(r)
          \/ FindItem(r) \/ FindFile(r)
  BY <1>1, <1>3, <1>7
  DEF LoadType, LoadTag, FindName, AskUse, FindItem, FindFile, Writing, Returning, RowByRow
<1>8. CASE CheckChanges(r)
  <2>1. seen' =
        [seen EXCEPT ![r] = [seen[r] EXCEPT
          !.relations = RelationshipsById(View(r), MutatedIn(call[r]), call[r].author)]]
    BY <1>1, <1>8 DEF CheckChanges
  <2>2. /\ seen' = [seen EXCEPT ![r] = seen'[r]] /\ DOMAIN seen'[r] = DOMAIN Unseen
        /\ seen'[r].relations = RelationshipsById(View(r), MutatedIn(call[r]), call[r].author)
        /\ \A other \in Fields \ {"relations"} : seen'[r][other] = seen[r][other]
    BY <1>2, <2>1
  <2>. QED
    BY <1>1, <1>8, <2>2 DEF CheckChanges, Writing, Returning, RowByRow
<1>9. CASE RereadTypes(r)
  <2>1. seen' =
        [seen EXCEPT ![r] = [seen[r] EXCEPT
          !.types = {row.id : row \in TypesById(View(r), TypesIn(call[r]), call[r].author)}]]
    BY <1>1, <1>9 DEF RereadTypes
  <2>2. /\ seen' = [seen EXCEPT ![r] = seen'[r]] /\ DOMAIN seen'[r] = DOMAIN Unseen
        /\ seen'[r].types = {row.id : row \in TypesById(View(r), TypesIn(call[r]), call[r].author)}
        /\ \A other \in Fields \ {"types"} : seen'[r][other] = seen[r][other]
    BY <1>2, <2>1
  <2>. QED
    BY <1>1, <1>9, <2>2 DEF RereadTypes, Writing, Returning, RowByRow
<1>10. CASE ReadRelations(r)
  <2>1. seen' =
        [seen EXCEPT ![r] = [seen[r] EXCEPT
          !.relations = RelationshipsOf(View(r), call[r].id, call[r].author)]]
    BY <1>1, <1>10 DEF ReadRelations
  <2>2. /\ seen' = [seen EXCEPT ![r] = seen'[r]] /\ DOMAIN seen'[r] = DOMAIN Unseen
        /\ seen'[r].relations = RelationshipsOf(View(r), call[r].id, call[r].author)
        /\ \A other \in Fields \ {"relations"} : seen'[r][other] = seen[r][other]
    BY <1>2, <2>1
  <2>. QED
    BY <1>1, <1>10, <2>2 DEF ReadRelations, Writing, Returning, RowByRow
<1>11. CASE ReadDateIds(r)
  <2>1. seen' =
        [seen EXCEPT ![r] = [seen[r] EXCEPT
          !.dates = DateIdsOfPerson(View(r), call[r].id, call[r].author)]]
    BY <1>1, <1>11 DEF ReadDateIds
  <2>2. /\ seen' = [seen EXCEPT ![r] = seen'[r]] /\ DOMAIN seen'[r] = DOMAIN Unseen
        /\ seen'[r].dates = DateIdsOfPerson(View(r), call[r].id, call[r].author)
        /\ \A other \in Fields \ {"dates"} : seen'[r][other] = seen[r][other]
    BY <1>2, <2>1
  <2>. QED
    BY <1>1, <1>11, <2>2 DEF ReadDateIds, Writing, Returning, RowByRow
<1>12. CASE ReadNeighbours(r)
  <2>1. seen' =
        [seen EXCEPT ![r] = [seen[r] EXCEPT
          !.people = RelatedPersonIds(View(r), call[r].id, call[r].author)]]
    BY <1>1, <1>12 DEF ReadNeighbours
  <2>2. /\ seen' = [seen EXCEPT ![r] = seen'[r]] /\ DOMAIN seen'[r] = DOMAIN Unseen
        /\ seen'[r].people = RelatedPersonIds(View(r), call[r].id, call[r].author)
        /\ \A other \in Fields \ {"people"} : seen'[r][other] = seen[r][other]
    BY <1>2, <2>1
  <2>. QED
    BY <1>1, <1>12, <2>2 DEF ReadNeighbours, Writing, Returning, RowByRow
<1>13. CASE ReadLinks(r)
  <2>1. seen' =
        [seen EXCEPT ![r] = [seen[r] EXCEPT
          !.links = LinksOfDates(View(r), {call[r].id}, call[r].author)]]
    BY <1>1, <1>13 DEF ReadLinks
  <2>2. /\ seen' = [seen EXCEPT ![r] = seen'[r]] /\ DOMAIN seen'[r] = DOMAIN Unseen
        /\ seen'[r].links = LinksOfDates(View(r), {call[r].id}, call[r].author)
        /\ \A other \in Fields \ {"links"} : seen'[r][other] = seen[r][other]
    BY <1>2, <2>1
  <2>. QED
    BY <1>1, <1>13, <2>2 DEF ReadLinks, Writing, Returning, RowByRow
<1>14. CASE ReadPageLinks(r)
  <2>1. seen' =
        [seen EXCEPT ![r] = [seen[r] EXCEPT
          !.links = LinksOfDates(View(r), seen[r].page, call[r].author)]]
    BY <1>1, <1>14 DEF ReadPageLinks
  <2>2. /\ seen' = [seen EXCEPT ![r] = seen'[r]] /\ DOMAIN seen'[r] = DOMAIN Unseen
        /\ seen'[r].links = LinksOfDates(View(r), seen[r].page, call[r].author)
        /\ \A other \in Fields \ {"links"} : seen'[r][other] = seen[r][other]
    BY <1>2, <2>1
  <2>. QED
    BY <1>1, <1>14, <2>2 DEF ReadPageLinks, Writing, Returning, RowByRow
<1>15. CASE ReadPage(r)
  <2>. DEFINE c == call[r]
              matching ==
                {row \in View(r) :
                   /\ row.table = "item" /\ row.kind = KindOf(c.op) /\ row.author = c.author
                   /\ c.tags \subseteq {tag.id : tag \in TagsOf(View(r), row.id, c.author)}
                   /\ \A p \in c.people : Link(row.id, p, c.author) \in View(r)}
              ids == {row.id : row \in matching}
  <2>1. seen' = [seen EXCEPT ![r] = [seen[r] EXCEPT !.page = ids]]
    BY <1>1, <1>15 DEF ReadPage
  <2>2. /\ seen' = [seen EXCEPT ![r] = seen'[r]] /\ DOMAIN seen'[r] = DOMAIN Unseen
        /\ seen'[r].page = ids
        /\ \A other \in Fields \ {"page"} : seen'[r][other] = seen[r][other]
    BY <1>2, <2>1
  <2>. QED
    BY <1>1, <1>15, <2>1, <2>2 DEF ReadPage, Writing, Returning, RowByRow
<1>16. CASE ReadMonth(r) /\ Step(r) = "month_dates"
  <2>1. seen' = [seen EXCEPT ![r] = [seen[r] EXCEPT !.dates = MonthOf(r, "date")]]
    BY <1>1, <1>16 DEF ReadMonth
  <2>2. /\ seen' = [seen EXCEPT ![r] = seen'[r]] /\ DOMAIN seen'[r] = DOMAIN Unseen
        /\ seen'[r].dates = MonthOf(r, "date")
        /\ \A other \in Fields \ {"dates"} : seen'[r][other] = seen[r][other]
    BY <1>2, <2>1
  <2>. QED
    BY <1>1, <1>16, <2>2 DEF ReadMonth, Writing, Returning, RowByRow
<1>17. CASE ReadMonth(r) /\ Step(r) = "month_people"
  <2>1. seen' = [seen EXCEPT ![r] = [seen[r] EXCEPT !.people = MonthOf(r, "person")]]
    BY <1>1, <1>17 DEF ReadMonth
  <2>2. /\ seen' = [seen EXCEPT ![r] = seen'[r]] /\ DOMAIN seen'[r] = DOMAIN Unseen
        /\ seen'[r].people = MonthOf(r, "person")
        /\ \A other \in Fields \ {"people"} : seen'[r][other] = seen[r][other]
    BY <1>2, <2>1
  <2>. QED
    BY <1>1, <1>17, <2>2 DEF ReadMonth, Writing, Returning, RowByRow
<1>18. CASE ReadMonth(r) /\ Step(r) = "month_links"
  <2>1. seen' =
        [seen EXCEPT ![r] = [seen[r] EXCEPT
          !.links = LinksOfDates(View(r), seen[r].dates, call[r].author)]]
    BY <1>1, <1>18 DEF ReadMonth
  <2>2. /\ seen' = [seen EXCEPT ![r] = seen'[r]] /\ DOMAIN seen'[r] = DOMAIN Unseen
        /\ seen'[r].links = LinksOfDates(View(r), seen[r].dates, call[r].author)
        /\ \A other \in Fields \ {"links"} : seen'[r][other] = seen[r][other]
    BY <1>2, <2>1
  <2>. QED
    BY <1>1, <1>18, <2>2 DEF ReadMonth, Writing, Returning, RowByRow
<1>19. CASE ListFiles(r)
  <2>. DEFINE found == {row.id : row \in FilesOf(View(r), call[r].id, call[r].author)}
  <2>1. seen' = [seen EXCEPT ![r] = [seen[r] EXCEPT !.files = found]]
    BY <1>1, <1>19 DEF ListFiles
  <2>. HIDE DEF found
  <2>2. /\ seen' = [seen EXCEPT ![r] = seen'[r]] /\ DOMAIN seen'[r] = DOMAIN Unseen
        /\ seen'[r].files = found
        /\ \A other \in Fields \ {"files"} : seen'[r][other] = seen[r][other]
    BY <1>2, <2>1
  <2>. QED
    BY <1>1, <1>19, <2>2 DEF found, ListFiles, Writing, Returning, RowByRow
<1>. QED
  BY <1>4, <1>5, <1>6, <1>7, <1>8, <1>9, <1>10, <1>11, <1>12, <1>13, <1>14, <1>15, <1>16, <1>17,
     <1>18, <1>19
  DEF Read, ReadMonth

\* Ids of items that are there are as many as the view allows, and found again.
LEMMA HasIds ==
  ASSUME NEW V, V \subseteq Row, IsFiniteSet(V), NEW ids, NEW author, NEW kind \in Kinds,
         \A i \in ids :
           \E a \in V : a.table = "item" /\ a.id = i /\ a.author = author /\ a.kind = kind
  PROVE  IsFiniteSet(ids) /\ Has(V, kind, ids, author)
<1>1. Has(V, kind, ids, author)
  BY KeyOfRow DEF Has
<1>2. IsFiniteSet(ids)
  <2>. DEFINE W == {a \in V : a.table = "item"}
              f == [a \in W |-> a.id]
              all == {f[a] : a \in W}
  <2>1. IsFiniteSet(W)
    BY FS_Subset
  <2>2. f = [a \in W |-> f[a]] /\ ids \subseteq all
    OBVIOUS
  <2>3. IsFiniteSet(all)
    <3>. HIDE DEF f, W
    <3>. QED
      BY <2>1, <2>2, FiniteImage
  <2>. QED
    <3>. HIDE DEF all
    <3>. QED
      BY <2>2, <2>3, FS_Subset
<1>. QED
  BY <1>1, <1>2

\* What a request asks for is finite, the relationships it changes and their types too.
LEMMA FiniteCall ==
  ASSUME call \in Asked, NEW r \in Requests, call[r] \in Call
  PROVE  /\ IsFiniteSet(call[r].tags) /\ IsFiniteSet(call[r].people) /\ IsFiniteSet(call[r].create)
         /\ IsFiniteSet(TypesIn(call[r])) /\ IsFiniteSet(MutatedIn(call[r]))
<1>. DEFINE c == call[r]
<1>1. IsFiniteSet(c.tags) /\ IsFiniteSet(c.people) /\ IsFiniteSet(c.create) /\ IsFiniteSet(c.delete)
  BY CallsAssumption
<1>2. IsFiniteSet(ToSet(c.update))
  <2>1. c.update \in Seq(Value) /\ Len(c.update) \in Nat
    BY DEF Call
  <2>2. IsFiniteSet(1 .. Len(c.update))
    BY <2>1, FS_Interval
  <2>3. DOMAIN c.update = 1 .. Len(c.update) /\ c.update = [i \in 1 .. Len(c.update) |-> c.update[i]]
    BY <2>1
  <2>4. IsFiniteSet({c.update[i] : i \in 1 .. Len(c.update)})
    BY <2>2, <2>3, FiniteImage
  <2>. QED
    BY <2>3, <2>4 DEF ToSet
<1>3. IsFiniteSet(Values(c))
  BY <1>1, <1>2, FS_Union DEF Values
<1>4. IsFiniteSet(TypesIn(c))
  <2>. DEFINE f == [value \in Values(c) |-> value.type]
  <2>1. f = [value \in Values(c) |-> f[value]] /\ {f[value] : value \in Values(c)} = TypesIn(c)
    BY DEF TypesIn
  <2>. HIDE DEF f
  <2>. QED
    BY <1>3, <2>1, FiniteImage
<1>5. IsFiniteSet(MutatedIn(c))
  <2>. DEFINE f == [value \in ToSet(c.update) |-> value.id]
  <2>1. /\ f = [value \in ToSet(c.update) |-> f[value]]
        /\ MutatedIn(c) = {f[value] : value \in ToSet(c.update)} \cup c.delete
    BY DEF MutatedIn
  <2>2. IsFiniteSet({f[value] : value \in ToSet(c.update)})
    <3>. HIDE DEF f
    <3>. QED
      BY <1>2, <2>1, FiniteImage
  <2>. HIDE DEF f
  <2>3. IsFiniteSet({f[value] : value \in ToSet(c.update)} \cup c.delete)
    BY <1>1, <2>2, FS_Union
  <2>. QED
    BY <2>1, <2>3
<1>. QED
  BY <1>1, <1>4, <1>5

\* What is known of a view stays known while it provides the same keys.
LEMMA HasKept ==
  ASSUME NEW V, NEW W, Provided(V) \subseteq Provided(W), NEW table, NEW ids, NEW author,
         Has(V, table, ids, author)
  PROVE  Has(W, table, ids, author)
BY DEF Has

\* Before its second step a request relies on nothing.
LEMMA KnownAtFirst ==
  ASSUME NEW r \in Requests, call[r].op \in Operation, Running(r), pc[r] = 1
  PROVE  Known(r)
<1>1. Program(call[r].op)[1] = Step(r) /\ 1 \in 1 .. Len(Program(call[r].op))
  BY ProgramLength DEF Step, Running
<1>. QED
  BY <1>1, StepsBefore DEF Known, KnownAt

\* What a running request has found out after a read.
LEMMA KnownRead ==
  ASSUME CrashInv, NEW r \in Requests, overtaken[r] = {}, Read(r), Running(r)'
  PROVE  Known(r)'
<1>. DEFINE c == call[r]
            V == View(r)
            n == pc[r]
            now == seen'[r]
<1>0. /\ RequestInv /\ Sized /\ (Running(r) => Known(r))
      /\ Step(r) # "close" => Running(r)
  BY DEF CrashInv, Relied, Step
<1>1. Running(r)
  BY <1>0
  DEF Read, Load, CheckChanges, CheckPeople, CheckTypes, CheckTags, RereadTypes, ReadRelations,
      ReadNames, ReadDateIds, ReadDateRows, ReadNeighbours, ReadLinks, FilterPerson, ReadPage,
      ReadPageRows, ReadPageLinks, ReadPageNames, ReadMonth, ReadMonthNames, LoadType, LoadTag,
      FindName, AskUse, ListFiles, FindItem, FindFile
<1>2. /\ c \in Call /\ c.op \in Operation /\ n \in 1 .. Len(Program(c.op))
      /\ V \subseteq Row /\ Unique(V) /\ IsFiniteSet(V)
      /\ Step(r) # "cascade" => CascadeKept(V)
  BY <1>0, <1>1, RunningFacts
<1>3. Program(c.op)[n] = Step(r)
  BY <1>0, <1>1, RunningFacts
<1>4. /\ call' = call /\ View(r)' = V /\ pc'[r] = n + 1
      /\ Step(r) \notin Writing
      /\ n + 1 \in 1 .. Len(Program(c.op)) /\ Step(r)' = Program(c.op)[n + 1]
  <2>1. call' = call /\ UNCHANGED <<rows, tx>> /\ pc' = [pc EXCEPT ![r] = @ + 1] /\ Step(r) \notin Writing
    BY <1>0, ReadEffects
  <2>2. pc'[r] = n + 1
    BY <1>0, <2>1 DEF RequestInv, GraphInv, Shape
  <2>. QED
    BY <2>1, <2>2 DEF View, tx, Running, Step
<1>5. ASSUME NEW ids, IsFiniteSet(ids)
      PROVE  /\ \A kind \in Kinds : Cardinality(ItemsById(V, ids, c.author, kind)) = Cardinality(ids) =>
                  Has(V, kind, ids, c.author)
             /\ Cardinality(TagsById(V, ids, c.author)) = Cardinality(ids) => Has(V, "tag", ids, c.author)
             /\ Cardinality(TypesById(V, ids, c.author)) = Cardinality(ids) => Has(V, "type", ids, c.author)
  BY <1>2, <1>5, Counted
<1>6. /\ IsFiniteSet(c.tags) /\ IsFiniteSet(c.people) /\ IsFiniteSet(TypesIn(c))
  BY <1>0, <1>2, FiniteCall DEF Sized
<1>7. ASSUME c.op \in Changing
      PROVE  /\ n + 1 \in 2 .. 9 => Has(V, KindOf(c.op), {c.id}, c.author)
             /\ n + 1 \in FirstWrite(c.op) .. FirstWrite(c.op) + 2 => Has(V, "tag", c.tags, c.author)
             /\ Step(r)' # "tag"
  <2>1. FirstWrite(c.op) \in 5 .. 6 /\ (n = 1 => Step(r) = "load")
    BY <1>2, <1>3, <1>7, StepsBefore
  <2>2. CASE n = 1
    <3>1. ItemOf(r) # {}
      BY <1>0, <2>1, <2>2, ReadEffects
    <3>2. Key(KindOf(c.op), c.id, c.author) \in Provided(V)
      BY <1>2, <3>1, KeyOfRow, KindOfFacts DEF ItemOf, ItemsById
    <3>3. Step(r)' # "tag"
      BY <1>2, <1>4, <2>1, <2>2, StepsBefore
    <3>. QED
      BY <2>1, <2>2, <3>2, <3>3 DEF Has
  <2>3. CASE n # 1
    <3>1. n + 1 \in 2 .. 9 => Has(V, KindOf(c.op), {c.id}, c.author)
      BY <1>0, <1>1, <1>2, <1>7, <2>3 DEF Known, KnownAt
    <3>2. ASSUME n + 1 \in FirstWrite(c.op) .. FirstWrite(c.op) + 2
          PROVE  Has(V, "tag", c.tags, c.author)
      <4>1. CASE n = FirstWrite(c.op) - 1
        <5>1. Step(r) = "tags"
          BY <1>2, <1>3, <1>7, <4>1, StepsBefore
        <5>2. Cardinality(TagsById(V, c.tags, c.author)) = Cardinality(c.tags)
          BY <1>0, <5>1, ReadEffects
        <5>. QED
          BY <1>5, <1>6, <5>2
      <4>2. CASE n # FirstWrite(c.op) - 1
        <5>1. n \in FirstWrite(c.op) .. FirstWrite(c.op) + 2
          BY <1>2, <2>1, <3>2, <4>2
        <5>. QED
          BY <1>0, <1>1, <1>7, <5>1 DEF Known, KnownAt
      <4>. QED
        BY <4>1, <4>2
    <3>3. Step(r)' # "tag"
      <4>1. ASSUME Program(c.op)[n + 1] = "tag"
            PROVE  Program(c.op)[n] = "untag"
        BY <1>2, <1>4, <4>1, StepsBefore
      <4>. QED
        BY <1>3, <1>4, <4>1 DEF Writing
    <3>. QED
      BY <3>1, <3>2, <3>3
  <2>. QED
    BY <2>2, <2>3
<1>8. ASSUME c.op = "update_person"
      PROVE  /\ n + 1 \in 5 .. 9 => Has(V, "type", TypesIn(c), c.author)
             /\ n + 1 \in 10 .. 11 => TypesIn(c) \subseteq now.types
  <2>1. /\ n = 4 => Step(r) = "types"
        /\ n = 9 => Step(r) = "types_again"
        /\ n # 9 => Step(r) # "types_again"
    BY <1>2, <1>3, <1>8, StepsBefore
  <2>2. ASSUME n = 4
        PROVE  Has(V, "type", TypesIn(c), c.author)
    <3>1. Cardinality(TypesById(V, TypesIn(c), c.author)) = Cardinality(TypesIn(c))
      BY <1>0, <2>1, <2>2, ReadEffects
    <3>. QED
      BY <1>5, <1>6, <3>1
  <2>3. ASSUME n \in 5 .. 9
        PROVE  Has(V, "type", TypesIn(c), c.author)
    BY <1>0, <1>1, <1>8, <2>3 DEF Known, KnownAt
  <2>4. ASSUME n = 9
        PROVE  TypesIn(c) \subseteq now.types
    <3>1. now.types = {row.id : row \in TypesById(V, TypesIn(c), c.author)}
      BY <1>0, <2>1, <2>4, ReadEffects
    <3>2. \A i \in TypesIn(c) : Key("type", i, c.author) \in Provided(V)
      BY <2>3, <2>4 DEF Has
    <3>. QED
      BY <1>2, <3>1, <3>2, KeyOfRow DEF TypesById
  <2>5. ASSUME n \in 10 .. 11
        PROVE  TypesIn(c) \subseteq now.types
    <3>1. now.types = seen[r].types
      BY <1>0, <2>1, <2>5, ReadEffects
    <3>. QED
      BY <1>0, <1>1, <1>8, <2>5, <3>1 DEF Known, KnownAt
  <2>. QED
    BY <1>2, <2>2, <2>3, <2>4, <2>5
<1>9. ASSUME c.op = "update_date"
      PROVE  /\ n + 1 \in 4 .. 9 => Has(V, "person", c.people, c.author)
             /\ Step(r)' # "link"
  <2>1. ASSUME n = 3
        PROVE  Has(V, "person", c.people, c.author)
    <3>1. Step(r) = "people"
      BY <1>2, <1>3, <1>9, <2>1, StepsBefore
    <3>2. Cardinality(ItemsById(V, c.people, c.author, "person")) = Cardinality(c.people)
      BY <1>0, <1>9, <3>1, ReadEffects
    <3>. QED
      BY <1>5, <1>6, <3>2 DEF Kinds
  <2>2. ASSUME n \in 4 .. 9
        PROVE  Has(V, "person", c.people, c.author)
    BY <1>0, <1>1, <1>9, <2>2 DEF Known, KnownAt
  <2>3. ASSUME Program(c.op)[n + 1] = "link"
        PROVE  Program(c.op)[n] = "unlink"
    BY <1>2, <1>4, <2>3, StepsBefore
  <2>. QED
    BY <1>2, <1>3, <1>4, <2>1, <2>2, <2>3 DEF Writing
<1>10. ASSUME Step(r)' = "names"
       PROVE  now.relations \subseteq RelationshipsOf(V, c.id, c.author)
  <2>1. Program(c.op)[n + 1] = "names"
    BY <1>4, <1>10
  <2>2. Program(c.op)[n] = "relations"
    BY <1>2, <1>4, <2>1, StepsBefore
  <2>. QED
    BY <1>0, <1>3, <2>2, ReadEffects
<1>11. /\ c.op = "calendar" /\ n + 1 \in 2 .. 4 =>
            IsFiniteSet(now.dates) /\ Has(V, "date", now.dates, c.author)
       /\ Step(r)' = "date_rows" => IsFiniteSet(now.dates) /\ Has(V, "date", now.dates, c.author)
  <2>1. ASSUME Step(r) \in {"month_dates", "date_ids"}
        PROVE  IsFiniteSet(now.dates) /\ Has(V, "date", now.dates, c.author)
    <3>1. now.dates \in {MonthOf(r, "date"), DateIdsOfPerson(V, c.id, c.author)}
      BY <1>0, <2>1, ReadEffects
    <3>2. \A i \in now.dates :
            \E a \in V : a.table = "item" /\ a.id = i /\ a.author = c.author /\ a.kind = "date"
      BY <3>1 DEF MonthOf, DateIdsOfPerson, ItemsById
    <3>. QED
      BY <1>2, <3>2, HasIds DEF Kinds
  <2>2. ASSUME c.op = "calendar", n + 1 \in 2 .. 4
        PROVE  IsFiniteSet(now.dates) /\ Has(V, "date", now.dates, c.author)
    <3>1. CASE n = 1
      <4>1. Program(c.op)[n] = "month_dates"
        BY <1>2, <2>2, <3>1, StepsBefore
      <4>. QED
        BY <1>3, <2>1, <4>1
    <3>2. CASE n # 1
      <4>1. n \in 2 .. 3
        BY <1>2, <2>2, <3>2
      <4>2. Program(c.op)[n] \notin {"month_dates", "date_ids"}
        BY <1>2, <2>2, <4>1, StepsBefore
      <4>3. now.dates = seen[r].dates
        BY <1>0, <1>3, <4>2, ReadEffects
      <4>. QED
        BY <1>0, <1>1, <2>2, <4>1, <4>3 DEF Known, KnownAt
    <3>. QED
      BY <3>1, <3>2
  <2>3. ASSUME Step(r)' = "date_rows"
        PROVE  IsFiniteSet(now.dates) /\ Has(V, "date", now.dates, c.author)
    <3>1. Program(c.op)[n + 1] = "date_rows"
      BY <1>4, <2>3
    <3>2. Program(c.op)[n] = "date_ids" \/ (c.op = "calendar" /\ n + 1 = 4)
      BY <1>2, <1>4, <3>1, StepsBefore
    <3>. QED
      BY <1>3, <2>1, <2>2, <3>2
  <2>. QED
    BY <2>2, <2>3
<1>12. c.op = "calendar" /\ n + 1 \in 3 .. 5 =>
         IsFiniteSet(now.people) /\ Has(V, "person", now.people, c.author)
  <2>. SUFFICES ASSUME c.op = "calendar", n + 1 \in 3 .. 5
                PROVE  IsFiniteSet(now.people) /\ Has(V, "person", now.people, c.author)
    OBVIOUS
  <2>1. CASE n = 2
    <3>1. Program(c.op)[n] = "month_people"
      BY <1>2, <2>1, StepsBefore
    <3>2. now.people = MonthOf(r, "person")
      BY <1>0, <1>3, <3>1, ReadEffects
    <3>3. \A i \in now.people :
            \E a \in V : a.table = "item" /\ a.id = i /\ a.author = c.author /\ a.kind = "person"
      BY <3>2 DEF MonthOf
    <3>. QED
      BY <1>2, <3>3, HasIds DEF Kinds
  <2>2. CASE n # 2
    <3>1. n \in 3 .. 4
      BY <1>2, <2>2
    <3>2. Program(c.op)[n] \in {"month_links", "date_rows"}
      BY <1>2, <3>1, StepsBefore
    <3>3. now.people = seen[r].people
      BY <1>0, <1>3, <3>2, ReadEffects
    <3>. QED
      BY <1>0, <1>1, <3>1, <3>3 DEF Known, KnownAt
  <2>. QED
    BY <2>1, <2>2
<1>13. Step(r)' = "page_names" \/ (c.op = "calendar" /\ n + 1 \in 4 .. 5) =>
         now.links \subseteq {row \in V : row.table = "link" /\ row.author = c.author}
  <2>1. ASSUME Step(r) \in {"page_links", "month_links"}
        PROVE  now.links \subseteq {row \in V : row.table = "link" /\ row.author = c.author}
    BY <1>0, <2>1, ReadEffects DEF LinksOfDates
  <2>2. ASSUME Step(r)' = "page_names"
        PROVE  Step(r) = "page_links"
    <3>1. Program(c.op)[n + 1] = "page_names"
      BY <1>4, <2>2
    <3>. QED
      BY <1>2, <1>3, <1>4, <3>1, StepsBefore
  <2>3. ASSUME c.op = "calendar", n + 1 \in 4 .. 5
        PROVE  now.links \subseteq {row \in V : row.table = "link" /\ row.author = c.author}
    <3>1. n = 3 => Program(c.op)[n] = "month_links"
      BY <1>2, <2>3, StepsBefore
    <3>2. n = 4 => Program(c.op)[n] = "date_rows"
      BY <1>2, <2>3, StepsBefore
    <3>3. CASE n = 3
      BY <1>3, <2>1, <3>1, <3>3
    <3>4. CASE n = 4
      <4>1. now.links = seen[r].links
        BY <1>0, <1>3, <3>2, <3>4, ReadEffects
      <4>. QED
        BY <1>0, <1>1, <2>3, <3>4, <4>1 DEF Known, KnownAt
    <3>. QED
      BY <1>2, <2>3, <3>3, <3>4
  <2>. QED
    BY <2>1, <2>2, <2>3
<1>14. ASSUME Step(r)' = "page_rows"
       PROVE  IsFiniteSet(now.page) /\ Has(V, KindOf(c.op), now.page, c.author)
  <2>1. Program(c.op)[n + 1] = "page_rows"
    BY <1>4, <1>14
  <2>2. Program(c.op)[n] \in {"page", "page_rows"}
    BY <1>2, <1>4, <2>1, StepsBefore
  <2>3. CASE Program(c.op)[n] = "page"
    <3>1. \A i \in now.page :
            \E a \in V : a.table = "item" /\ a.id = i /\ a.author = c.author /\ a.kind = KindOf(c.op)
      BY <1>0, <1>3, <2>3, ReadEffects
    <3>. QED
      BY <1>2, <3>1, HasIds, KindOfFacts
  <2>4. CASE Program(c.op)[n] = "page_rows"
    <3>1. now.page = seen[r].page
      BY <1>0, <1>3, <2>4, ReadEffects
    <3>. QED
      BY <1>0, <1>1, <1>3, <2>4, <3>1 DEF Known, KnownAt
  <2>. QED
    BY <2>2, <2>3, <2>4
<1>15. /\ Step(r)' = "delete_type" => ~TypeIsUsed(V, c.id, c.author)
       /\ Step(r)' = "delete_tag" => ~TagIsUsed(V, c.id, c.author)
  <2>1. ASSUME Program(c.op)[n + 1] = "delete_type"
        PROVE  Program(c.op)[n] = "type_used"
    BY <1>2, <1>4, <2>1, StepsBefore
  <2>2. ASSUME Program(c.op)[n + 1] = "delete_tag"
        PROVE  Program(c.op)[n] = "tag_used"
    BY <1>2, <1>4, <2>2, StepsBefore
  <2>. QED
    BY <1>0, <1>3, <1>4, <2>1, <2>2, ReadEffects
<1>16. ASSUME Step(r)' = "remove_files"
       PROVE  \A row \in FilesOf(V, c.id, c.author) : row.id \in now.files \ now.done
  <2>1. Program(c.op)[n + 1] = "remove_files"
    BY <1>4, <1>16
  <2>2. Step(r) = "files" /\ c.op \in Deleting
    BY <1>2, <1>3, <1>4, <2>1, StepsBefore
  <2>3. n < FirstWrite(c.op)
    BY <1>2, <1>3, <2>2, ProgramFacts
  <2>4. seen[r].done = {}
    BY <1>0, <1>1, <2>2, <2>3 DEF RequestInv, Deletions, FilesFirst
  <2>5. now.files = {row.id : row \in FilesOf(V, c.id, c.author)} /\ now.done = seen[r].done
    BY <1>0, <2>2, ReadEffects
  <2>. QED
    BY <2>4, <2>5
<1>17. Step(r)' # "delete"
  <2>1. ASSUME Program(c.op)[n + 1] = "delete"
        PROVE  Program(c.op)[n] = "remove_files"
    BY <1>2, <1>4, <2>1, StepsBefore
  <2>. QED
    BY <1>3, <1>4, <2>1 DEF Writing, Returning
<1>. QED
  BY <1>4, <1>7, <1>8, <1>9, <1>10, <1>11, <1>12, <1>13, <1>14, <1>15, <1>16, <1>17 DEF Known, KnownAt, Has

\* While a person or a date is updated no key goes.
LEMMA KeysStay ==
  ASSUME RequestInv, Sized, NEW r \in Requests, call[r].op \in Changing, Running(r)
  PROVE  Provided(View(r)) \subseteq Provided((View(r) \ Deleted(r)) \cup Inserted(r))
<1>1. /\ call[r].op \in Operation /\ pc[r] \in 1 .. Len(Program(call[r].op))
      /\ View(r) \subseteq Row /\ Deleted(r) \subseteq View(r)
  BY RunningFacts
<1>2. Program(call[r].op)[pc[r]] = Step(r)
  BY RunningFacts
<1>3. Step(r) \notin {"delete", "cascade", "set_type", "delete_type", "set_tag", "delete_tag"}
  BY <1>1, <1>2, ProgramFacts
<1>4. Provided(Deleted(r)) \subseteq Provided(Inserted(r))
  <2>1. CASE Step(r) \in {"item", "touch", "touch_dates", "touch_item"}
    <3>1. \A d \in Deleted(r) : d \in ItemRow
      BY <1>1, <2>1 DEF Deleted, ItemOf, ItemsById, AnyItem, Row, TagRow, ItemTagRow, TypeRow,
         RelationshipRow, LinkRow, FileRow
    <3>2. \A d \in Deleted(r) : Provides([d EXCEPT !.stamp = r]) = Provides(d)
      BY <3>1 DEF ItemRow, Provides
    <3>3. Inserted(r) = {[d EXCEPT !.stamp = r] : d \in Deleted(r)}
      BY <2>1 DEF Inserted, Stamped
    <3>. QED
      BY <3>2, <3>3 DEF Provided
  <2>2. CASE Step(r) \notin {"item", "touch", "touch_dates", "touch_item"}
    <3>1. \A d \in Deleted(r) : d.table \in {"item_tag", "relationship", "link", "file"}
      BY <1>3, <2>2 DEF Deleted, ItemTagsOf, ChangedRelationship, RelationshipsOf,
         DeletedRelationships, LinksOfDates, FilesById, FilesOf
    <3>. QED
      BY <3>1, RestrictTables DEF Provided
  <2>. QED
    BY <2>1, <2>2
<1>. QED
  BY <1>4 DEF Provided

\* What it has found out after a write.
LEMMA KnownWrite ==
  ASSUME CrashInv, NEW r \in Requests, overtaken[r] = {}, Write(r), Running(r)'
  PROVE  Known(r)'
<1>. DEFINE c == call[r]
            V == View(r)
            W == (V \ Deleted(r)) \cup Inserted(r)
            n == pc[r]
            now == seen'[r]
<1>0. /\ RequestInv /\ Sized /\ Step(r) \in Writing /\ Running(r) /\ Known(r)
  <2>1. Step(r) \in Writing
    BY DEF Write, Ready
  <2>2. Running(r)
    BY <2>1 DEF Step, Writing, Returning, RowByRow
  <2>. QED
    BY <2>1, <2>2 DEF CrashInv, Relied
<1>1. c.op \in Operation /\ n \in 1 .. Len(Program(c.op))
  BY <1>0, RunningFacts
<1>2. Program(c.op)[n] = Step(r)
  BY <1>0, RunningFacts
<1>3. /\ call' = call /\ View(r)' = W
      /\ pc'[r] \in {n, n + 1} /\ (pc'[r] = n => Step(r) \in RowByRow \cup {"change"})
      /\ Step(r)' = Program(c.op)[pc'[r]] /\ pc'[r] \in 1 .. Len(Program(c.op))
      /\ {"types"} \subseteq DOMAIN now /\ now.types = seen[r].types
  <2>1. call' = call /\ View(r)' = W
    BY <1>0, WriteViews DEF Write, RequestInv, GraphInv
  <2>2. {"types", "done", "aim", "changed"} \subseteq DOMAIN seen[r]
    BY <1>0 DEF Sized, Unseen
  <2>3. {"types"} \subseteq DOMAIN now /\ now.types = seen[r].types
    <3>1. \/ now = [seen[r] EXCEPT !.done = @ \cup {seen[r].aim}, !.aim = Nobody]
          \/ now = [seen[r] EXCEPT !.changed = @ + 1]
          \/ now = [seen[r] EXCEPT !.done = {}]
      <4>1. r \in DOMAIN seen
        BY <1>0 DEF RequestInv, GraphInv, Shape
      <4>. QED
        BY <4>1 DEF Write, AfterWrite, Remember
    <3>2. /\ {"types"} \subseteq DOMAIN [seen[r] EXCEPT !.done = @ \cup {seen[r].aim}, !.aim = Nobody]
          /\ [seen[r] EXCEPT !.done = @ \cup {seen[r].aim}, !.aim = Nobody].types = seen[r].types
      BY <2>2
    <3>3. /\ {"types"} \subseteq DOMAIN [seen[r] EXCEPT !.changed = @ + 1]
          /\ [seen[r] EXCEPT !.changed = @ + 1].types = seen[r].types
      BY <2>2
    <3>4. /\ {"types"} \subseteq DOMAIN [seen[r] EXCEPT !.done = {}]
          /\ [seen[r] EXCEPT !.done = {}].types = seen[r].types
      BY <2>2
    <3>. QED
      BY <3>1, <3>2, <3>3, <3>4
  <2>4. pc'[r] \in {n, n + 1} /\ (pc'[r] = n => Step(r) \in RowByRow \cup {"change"})
    BY <1>0, <1>1 DEF Write, AfterWrite, Advance, RequestInv, GraphInv, Shape
  <2>. QED
    BY <2>1, <2>3, <2>4 DEF Running, Step
<1>4. CASE c.op \notin Changing
  <2>1. /\ Program(c.op)[n] \notin {"item", "untag", "change", "unlink"}
        /\ c.op \notin {"update_person", "update_date", "calendar"}
    BY <1>0, <1>1, <1>2, <1>4, StepsBefore DEF Changing
  <2>2. pc'[r] = n => Program(c.op)[pc'[r]] \in RowByRow
    BY <1>2, <1>3, <2>1
  <2>3. pc'[r] = n + 1 => Program(c.op)[pc'[r] - 1] \in Writing
    BY <1>0, <1>1, <1>2
  <2>4. Program(c.op)[pc'[r]] \notin {"tag", "link", "names", "date_rows", "page_rows", "page_names",
                                     "delete_type", "delete_tag"}
    <3>1. pc'[r] \in {n, n + 1} /\ pc'[r] \in 1 .. Len(Program(c.op))
      BY <1>3
    <3>2. /\ Program(c.op)[pc'[r]] = "tag" => Program(c.op)[pc'[r] - 1] = "untag"
          /\ Program(c.op)[pc'[r]] = "link" => Program(c.op)[pc'[r] - 1] = "unlink"
      BY <1>1, <3>1, StepsBefore
    <3>3. Program(c.op)[pc'[r]] \notin {"tag", "link"}
      BY <1>1, <2>1, <2>2, <3>1, <3>2 DEF RowByRow
    <3>4. ASSUME Program(c.op)[pc'[r]] \in {"names", "date_rows", "page_rows", "page_names",
                                           "delete_type", "delete_tag"}
          PROVE  FALSE
      <4>1. pc'[r] = n + 1 /\ pc'[r] - 1 = n
        BY <1>1, <2>2, <3>1, <3>4 DEF RowByRow
      <4>2. Program(c.op)[pc'[r] - 1] \in Writing
        BY <2>3, <4>1
      <4>3. Program(c.op)[pc'[r] - 1] \in {"relations", "date_ids", "page", "page_rows", "page_links",
                                          "type_used", "tag_used"}
        BY <1>1, <2>1, <3>1, <3>4, StepsBefore
      <4>. QED
        BY <4>2, <4>3 DEF Writing, Returning, RowByRow
    <3>. QED
      BY <3>3, <3>4
  <2>5. ASSUME Step(r)' \in {"remove_files", "delete"}
        PROVE  Step(r) = "remove_files" /\ pc'[r] = n
    <3>1. Program(c.op)[pc'[r]] \in {"remove_files", "delete"}
      BY <1>3, <2>5
    <3>2. CASE pc'[r] = n
      BY <1>3, <3>2, <2>5, <1>2 DEF RowByRow
    <3>3. CASE pc'[r] = n + 1
      <4>1. pc'[r] - 1 = n /\ pc'[r] \in 1 .. Len(Program(c.op))
        BY <1>1, <1>3, <3>3
      <4>2. /\ Program(c.op)[pc'[r]] = "remove_files" => Program(c.op)[pc'[r] - 1] = "files"
            /\ Program(c.op)[pc'[r]] = "delete" => Program(c.op)[pc'[r] - 1] = "remove_files"
        BY <1>1, <4>1, StepsBefore
      <4>3. Step(r) = "remove_files"
        BY <1>0, <1>2, <3>1, <4>1, <4>2 DEF Writing, Returning, RowByRow
      <4>4. pc' = pc
        BY <4>3 DEF Write, AfterWrite, RowByRow
      <4>. QED
        BY <1>1, <3>3, <4>4
    <3>. QED
      BY <1>3, <3>2, <3>3
  <2>6. ASSUME Step(r)' \in {"remove_files", "delete"}
        PROVE  /\ Step(r)' = "remove_files"
               /\ \A row \in FilesOf(W, c.id, c.author) : row.id \in now.files \ now.done
    <3>1. Step(r) = "remove_files" /\ Step(r)' = Step(r)
      BY <1>2, <1>3, <2>5, <2>6
    <3>2. now = [seen[r] EXCEPT !.done = @ \cup {seen[r].aim}, !.aim = Nobody]
      <4>1. r \in DOMAIN seen
        BY <1>0 DEF RequestInv, GraphInv, Shape
      <4>. QED
        BY <3>1, <4>1 DEF Write, AfterWrite, RowByRow, Remember
    <3>3. now.files = seen[r].files /\ now.done = seen[r].done \cup {seen[r].aim}
      <4>1. {"files", "done", "aim"} \subseteq DOMAIN seen[r]
        BY <1>0 DEF Sized, Unseen
      <4>. QED
        BY <3>2, <4>1
    <3>4. Inserted(r) = {} /\ Deleted(r) = FilesById(V, {seen[r].aim}, c.id, c.author)
      BY <3>1 DEF Inserted, Deleted
    <3>5. \A row \in FilesOf(V, c.id, c.author) : row.id \in seen[r].files \ seen[r].done
      BY <1>0, <3>1 DEF Known, KnownAt
    <3>. QED
      BY <3>1, <3>3, <3>4, <3>5 DEF FilesOf, FilesById
  <2>. QED
    BY <1>3, <1>4, <2>1, <2>4, <2>6 DEF Known, KnownAt
<1>5. CASE c.op \in Changing
  <2>1. Provided(V) \subseteq Provided(W)
    BY <1>0, <1>5, KeysStay
  <2>2. /\ FirstWrite(c.op) \in 5 .. 6 /\ FirstWrite(c.op) <= n
        /\ c.op = "update_person" => FirstWrite(c.op) = 6
        /\ c.op = "update_date" => FirstWrite(c.op) = 5
        /\ c.op # "calendar"
    <3>1. FirstWrite(c.op) \in 5 .. 6
      BY <1>1, <1>5, StepsBefore
    <3>2. FirstWrite(c.op) <= n
      BY <1>0, <1>1, <1>2, ProgramFacts
    <3>. QED
      BY <1>5, <3>1, <3>2 DEF FirstWrite, Changing, Creating
  <2>3. pc'[r] = n => n > 9 /\ (c.op = "update_person" /\ n <= 11 => Step(r) = "change")
    <3>1. Program(c.op)[n] \in RowByRow => n > 9 /\ (c.op = "update_person" => n > 11)
      BY <1>1, <1>5, StepsBefore
    <3>2. Program(c.op)[n] = "change" => n = 11
      BY <1>1, StepsBefore
    <3>. QED
      BY <1>1, <1>2, <1>3, <3>1, <3>2
  <2>4. /\ pc'[r] \in 2 .. 9 => Has(W, KindOf(c.op), {c.id}, c.author)
        /\ pc'[r] \in FirstWrite(c.op) .. FirstWrite(c.op) + 2 => Has(W, "tag", c.tags, c.author)
    <3>1. pc'[r] \in 2 .. 9 => n \in 2 .. 9
      BY <1>1, <1>3, <2>2
    <3>2. pc'[r] \in FirstWrite(c.op) .. FirstWrite(c.op) + 2 =>
            n \in FirstWrite(c.op) .. FirstWrite(c.op) + 2
      BY <1>1, <1>3, <2>2
    <3>3. /\ n \in 2 .. 9 => Has(V, KindOf(c.op), {c.id}, c.author)
          /\ n \in FirstWrite(c.op) .. FirstWrite(c.op) + 2 => Has(V, "tag", c.tags, c.author)
      BY <1>0, <1>5 DEF Known, KnownAt
    <3>4. /\ Has(V, KindOf(c.op), {c.id}, c.author) => Has(W, KindOf(c.op), {c.id}, c.author)
          /\ Has(V, "tag", c.tags, c.author) => Has(W, "tag", c.tags, c.author)
      <4>. HIDE DEF V, W
      <4>. QED
        BY <2>1 DEF Has
    <3>. QED
      BY <3>1, <3>2, <3>3, <3>4
  <2>5. ASSUME c.op = "update_person"
        PROVE  /\ pc'[r] \in 5 .. 9 => Has(W, "type", TypesIn(c), c.author)
               /\ pc'[r] \in 10 .. 11 => TypesIn(c) \subseteq now.types
    <3>1. pc'[r] \in 5 .. 9 => n \in 5 .. 9
      BY <1>1, <1>3, <2>2, <2>5
    <3>2. n # 9
      <4>1. n = 9 => Program(c.op)[n] = "types_again"
        BY <1>1, <2>5, StepsBefore
      <4>. QED
        BY <1>0, <1>2, <4>1 DEF Writing, Returning, RowByRow
    <3>3. pc'[r] \in 10 .. 11 => n \in 10 .. 11
      BY <1>1, <1>3, <3>2
    <3>4. /\ n \in 5 .. 9 => Has(V, "type", TypesIn(c), c.author)
          /\ n \in 10 .. 11 => TypesIn(c) \subseteq seen[r].types
      BY <1>0, <2>5 DEF Known, KnownAt
    <3>5. Has(V, "type", TypesIn(c), c.author) => Has(W, "type", TypesIn(c), c.author)
      <4>. HIDE DEF V, W
      <4>. QED
        BY <2>1 DEF Has
    <3>6. now.types = seen[r].types
      BY <1>3
    <3>. QED
      BY <3>1, <3>3, <3>4, <3>5, <3>6
  <2>6. ASSUME c.op = "update_date"
        PROVE  pc'[r] \in 4 .. 9 => Has(W, "person", c.people, c.author)
    <3>1. pc'[r] \in 4 .. 9 => n \in 4 .. 9
      BY <1>1, <1>3, <2>2, <2>6
    <3>2. n \in 4 .. 9 => Has(V, "person", c.people, c.author)
      BY <1>0, <2>6 DEF Known, KnownAt
    <3>3. Has(V, "person", c.people, c.author) => Has(W, "person", c.people, c.author)
      <4>. HIDE DEF V, W
      <4>. QED
        BY <2>1 DEF Has
    <3>. QED
      BY <3>1, <3>2, <3>3
  <2>7. /\ Step(r)' = "tag" => ItemTagsOf(W, {c.id}, c.author) = {}
        /\ Step(r)' = "link" => LinksOfDates(W, {c.id}, c.author) = {}
    <3>1. Program(c.op)[pc'[r]] \in {"tag", "link"} => pc'[r] = n + 1
      BY <1>2, <1>3 DEF RowByRow
    <3>2. Program(c.op)[pc'[r]] = "tag" => Program(c.op)[pc'[r] - 1] = "untag"
      BY <1>1, <1>3, StepsBefore
    <3>3. Program(c.op)[pc'[r]] = "link" => Program(c.op)[pc'[r] - 1] = "unlink"
      BY <1>1, <1>3, StepsBefore
    <3>4. Step(r)' = "tag" => Step(r) = "untag"
      BY <1>1, <1>2, <1>3, <3>1, <3>2
    <3>5. Step(r)' = "link" => Step(r) = "unlink"
      BY <1>1, <1>2, <1>3, <3>1, <3>3
    <3>6. Step(r) = "untag" => ItemTagsOf(W, {c.id}, c.author) = {}
      BY DEF Deleted, Inserted, ItemTagsOf
    <3>7. Step(r) = "unlink" => LinksOfDates(W, {c.id}, c.author) = {}
      BY DEF Deleted, Inserted, LinksOfDates
    <3>. QED
      BY <3>4, <3>5, <3>6, <3>7
  <2>8. Step(r)' \notin {"names", "date_rows", "page_rows", "page_names", "delete_type", "delete_tag"}
    <3>1. pc'[r] = n => Program(c.op)[pc'[r]] \in RowByRow \cup {"change"}
      BY <1>2, <1>3
    <3>2. pc'[r] = n + 1 => Program(c.op)[pc'[r] - 1] \in Writing
      BY <1>0, <1>1, <1>2
    <3>3. Program(c.op)[pc'[r]] \notin {"names", "date_rows", "page_rows", "page_names", "delete_type",
                                       "delete_tag"}
      <4>1. SUFFICES ASSUME Program(c.op)[pc'[r]] \in {"names", "date_rows", "page_rows", "page_names",
                                                      "delete_type", "delete_tag"}
                     PROVE  FALSE
        OBVIOUS
      <4>2. Program(c.op)[pc'[r] - 1] \in {"relations", "date_ids", "page", "page_rows", "page_links",
                                          "type_used", "tag_used"}
        BY <1>1, <1>3, <2>2, <4>1, StepsBefore
      <4>3. pc'[r] = n + 1
        BY <1>3, <3>1, <4>1 DEF RowByRow
      <4>. QED
        BY <3>2, <4>2, <4>3 DEF Writing, Returning, RowByRow
    <3>. QED
      BY <1>3, <3>3
  <2>9. Step(r)' \notin {"remove_files", "delete"}
    <3>1. Program(c.op)[pc'[r]] \in {"files", "remove_files", "delete"} => c.op \in Deleting
      BY <1>1, <1>3, StepsBefore
    <3>. QED
      BY <1>3, <1>5, <3>1 DEF Changing, Deleting
  <2>. QED
    BY <1>3, <1>5, <2>2, <2>4, <2>5, <2>6, <2>7, <2>8, <2>9 DEF Known, KnownAt
<1>. QED
  BY <1>4, <1>5

\* What it has found out does not change while it touches its neighbours.
LEMMA KnownAim ==
  ASSUME CrashInv, NEW r \in Requests, overtaken[r] = {}, Aim(r), Running(r)'
  PROVE  Known(r)'
<1>. DEFINE c == call[r]
            n == pc[r]
<1>0. Step(r) \in RowByRow /\ Running(r) /\ RequestInv /\ Sized
  BY DEF Aim, RowByRow, Step, CrashInv
<1>1. c.op \in Operation /\ n \in 1 .. Len(Program(c.op))
  BY <1>0, RunningFacts
<1>2. Program(c.op)[n] \in RowByRow
  BY <1>0, RunningFacts
<1>3. call' = call /\ pc'[r] \in {n, n + 1} /\ Step(r)' = Program(c.op)[pc'[r]]
      /\ pc'[r] \in 1 .. Len(Program(c.op))
  <2>1. call' = call /\ pc'[r] \in {n, n + 1}
    BY <1>0, <1>1 DEF Aim, Advance, RequestInv, GraphInv, Shape
  <2>. QED
    BY <2>1 DEF Running, Step
<1>4. c.op # "calendar" /\ (c.op \in Changing => n > 9) /\ (c.op = "update_person" => n > 11)
  BY <1>1, <1>2, StepsBefore
<1>5. pc'[r] = n => Program(c.op)[pc'[r]] \in RowByRow
  BY <1>2
<1>6. pc'[r] = n + 1 => Program(c.op)[pc'[r] - 1] \in RowByRow
  BY <1>1, <1>2
<1>7. Program(c.op)[pc'[r]] \notin {"tag", "link", "names", "date_rows", "page_rows", "page_names",
                                   "delete_type", "delete_tag"}
  BY <1>1, <1>3, <1>4, <1>5, <1>6, StepsBefore DEF RowByRow
<1>8. c.op \in Changing =>
        /\ pc'[r] \notin 2 .. 9
        /\ pc'[r] \notin FirstWrite(c.op) .. FirstWrite(c.op) + 2
        /\ c.op = "update_person" => pc'[r] \notin 5 .. 11
  <2>1. c.op \in Changing => FirstWrite(c.op) \in 5 .. 6
    BY <1>1, StepsBefore
  <2>. QED
    BY <1>1, <1>3, <1>4, <2>1
<1>9. View(r)' = View(r) /\ (Step(r) = "remove_files" => Known(r))
  BY <1>0 DEF Aim, View, CrashInv, Relied, tx
<1>10. ASSUME Step(r)' \in {"remove_files", "delete"}
       PROVE  /\ Step(r) = "remove_files"
              /\ Step(r)' = "remove_files" => pc'[r] = n
              /\ Step(r)' = "delete" => pc'[r] = n + 1
  <2>1. /\ Program(c.op)[pc'[r]] = "remove_files" => Program(c.op)[pc'[r] - 1] = "files"
        /\ Program(c.op)[pc'[r]] = "delete" => Program(c.op)[pc'[r] - 1] = "remove_files"
    BY <1>1, <1>3, StepsBefore
  <2>2. CASE pc'[r] = n
    BY <1>1, <1>2, <1>3, <1>10, <2>2, RunningFacts, <1>0 DEF RowByRow
  <2>3. CASE pc'[r] = n + 1
    <3>1. Program(c.op)[pc'[r] - 1] \in RowByRow /\ pc'[r] - 1 = n
      BY <1>1, <1>6, <2>3
    <3>2. Program(c.op)[n] = Step(r)
      BY <1>0, RunningFacts
    <3>. QED
      BY <1>3, <1>10, <2>1, <2>3, <3>1, <3>2 DEF RowByRow
  <2>. QED
    BY <1>3, <2>2, <2>3
<1>11. ASSUME Step(r)' \in {"remove_files", "delete"}
       PROVE  /\ Step(r)' = "remove_files" =>
                   \A row \in FilesOf(View(r), c.id, c.author) :
                     row.id \in seen'[r].files \ seen'[r].done
              /\ Step(r)' = "delete" => FilesOf(View(r), c.id, c.author) = {}
  <2>1. \A row \in FilesOf(View(r), c.id, c.author) : row.id \in seen[r].files \ seen[r].done
    BY <1>9, <1>10, <1>11 DEF Known, KnownAt
  <2>2. LeftToMeet(r) = seen[r].files \ seen[r].done
    BY <1>10, <1>11 DEF LeftToMeet
  <2>3. r \in DOMAIN seen /\ {"files", "done", "aim"} \subseteq DOMAIN seen[r] /\ r \in DOMAIN pc
    BY <1>0 DEF Sized, Unseen, RequestInv, GraphInv, Shape
  <2>4. CASE LeftToMeet(r) = {}
    BY <1>1, <1>10, <1>11, <2>1, <2>2, <2>3, <2>4 DEF Aim, Advance
  <2>5. CASE LeftToMeet(r) # {}
    <3>1. PICK id : seen' = [seen EXCEPT ![r] = [seen[r] EXCEPT !.aim = id]]
      BY <2>5 DEF Aim, Remember
    <3>2. seen'[r].files = seen[r].files /\ seen'[r].done = seen[r].done
      BY <2>3, <3>1
    <3>3. pc'[r] = n
      BY <2>5 DEF Aim
    <3>. QED
      BY <1>1, <1>10, <1>11, <2>1, <3>2, <3>3
  <2>. QED
    BY <2>4, <2>5
<1>. QED
  BY <1>3, <1>4, <1>7, <1>8, <1>9, <1>11 DEF Known, KnownAt, Changing

-----------------------------------------------------------------------------
(* What a statement inserts is finite, and has ids of its own.              *)

\* A statement inserts finitely many rows.
LEMMA InsertedFinite ==
  ASSUME RequestInv, Sized, NEW r \in Requests, Running(r)
  PROVE  IsFiniteSet(Inserted(r))
<1>. DEFINE c == call[r]
            s == Step(r)
<1>1. IsFiniteSet(Deleted(r))
  BY RunningFacts, FS_Subset
<1>2. IsFiniteSet(c.tags) /\ IsFiniteSet(c.people) /\ IsFiniteSet(c.create)
  BY RunningFacts, FiniteCall DEF Sized
<1>3. CASE s \in {"item", "touch", "touch_dates", "touch_item"}
  <2>. DEFINE f == [row \in Deleted(r) |-> [row EXCEPT !.stamp = r]]
  <2>1. f = [row \in Deleted(r) |-> f[row]] /\ Inserted(r) = {f[row] : row \in Deleted(r)}
    BY <1>3 DEF Inserted, Stamped
  <2>. HIDE DEF f
  <2>. QED
    BY <1>1, <2>1, FiniteImage
<1>4. CASE s = "tag"
  <2>. DEFINE f == [tag \in c.tags |-> ItemTag(c.id, tag, c.author)]
  <2>1. f = [tag \in c.tags |-> f[tag]] /\ Inserted(r) = {f[tag] : tag \in c.tags}
    BY <1>4 DEF Inserted
  <2>. HIDE DEF f
  <2>. QED
    BY <1>2, <2>1, FiniteImage
<1>5. CASE s = "create"
  <2>. DEFINE f == [value \in c.create |-> RelationshipFrom(value, c.id, c.author)]
  <2>1. f = [value \in c.create |-> f[value]] /\ Inserted(r) = {f[value] : value \in c.create}
    BY <1>5 DEF Inserted
  <2>. HIDE DEF f
  <2>. QED
    BY <1>2, <2>1, FiniteImage
<1>6. CASE s = "link"
  <2>. DEFINE f == [person \in c.people |-> Link(c.id, person, c.author)]
  <2>1. f = [person \in c.people |-> f[person]] /\ Inserted(r) = {f[person] : person \in c.people}
    BY <1>6 DEF Inserted
  <2>. HIDE DEF f
  <2>. QED
    BY <1>2, <2>1, FiniteImage
<1>7. CASE s = "set_type"
  <2>. DEFINE f == [row \in Deleted(r) |-> [row EXCEPT !.symmetric = c.symmetric]]
  <2>1. f = [row \in Deleted(r) |-> f[row]] /\ Inserted(r) = {f[row] : row \in Deleted(r)}
    BY <1>7 DEF Inserted, ChangedType
  <2>. HIDE DEF f
  <2>. QED
    BY <1>1, <2>1, FiniteImage
<1>8. CASE s = "set_tag"
  <2>. DEFINE f == [row \in Deleted(r) |-> [row EXCEPT !.name = c.name]]
  <2>1. f = [row \in Deleted(r) |-> f[row]] /\ Inserted(r) = {f[row] : row \in Deleted(r)}
    BY <1>8 DEF Inserted, RenamedTag
  <2>. HIDE DEF f
  <2>. QED
    BY <1>1, <2>1, FiniteImage
<1>9. CASE s \notin {"item", "touch", "touch_dates", "touch_item", "tag", "create", "link", "set_type", "set_tag"}
  <2>1. Inserted(r) = {} \/ \E row : Inserted(r) = {row}
    BY <1>9 DEF Inserted
  <2>. QED
    BY <2>1, FS_EmptySet, FS_Singleton
<1>. QED
  BY <1>3, <1>4, <1>5, <1>6, <1>7, <1>8, <1>9

-----------------------------------------------------------------------------
(* Every crash is accounted for.                                            *)

\* Nobody but the request itself changes what it has found out, unless the view changes.
LEMMA KnownKept ==
  ASSUME NEW q \in Requests, Known(q), View(q)' = View(q), pc'[q] = pc[q], seen'[q] = seen[q],
         call' = call
  PROVE  Known(q)'
<1>1. Step(q)' = Step(q) /\ call'[q] = call[q]
  BY DEF Step, Running
<1>. QED
  BY <1>1 DEF Known

\* Who is still at its first step relies on nothing, whatever the view has become.
LEMMA KnownStillFirst ==
  ASSUME NEW q \in Requests, call'[q].op \in Operation, Running(q)', pc'[q] = 1
  PROVE  Known(q)'
<1>1. Program(call'[q].op)[1] = Step(q)' /\ 1 \in 1 .. Len(Program(call'[q].op))
  BY ProgramLength DEF Step, Running
<1>. QED
  BY <1>1, StepsBefore DEF Known, KnownAt

\* Steps that write nothing, but may find something out or fail.
LEMMA CrashQuiet ==
  ASSUME CrashInv, NEW r \in Requests,
         Read(r) \/ Aim(r) \/ WriteRaises(r) \/ WriteBreaks(r) \/ DeadlockVictim(r)
  PROVE  Sized' /\ Fresh' /\ Relied' /\ CrashesExplained'
<1>0. RequestInv /\ Sized /\ Shape /\ outcome = [q \in Requests |-> outcome[q]]
  BY DEF CrashInv, RequestInv, GraphInv, RefusedClean
<1>1. /\ rows' = rows /\ plus' = plus /\ minus' = minus /\ call' = call /\ overtaken' = overtaken
      /\ \A q \in Requests \ {r} : pc'[q] = pc[q]
      /\ \A q \in Requests : View(q)' = View(q)
  BY <1>0, PassesOrRaises DEF Passes, Raises, Shape, View
<1>2. \A q \in Requests : call[q] \in Call /\ call[q].op \in Operation
  BY <1>0 DEF Shape, Call
<1>3. Sized'
  <2>1. \A q \in Requests : DOMAIN seen'[q] = DOMAIN Unseen
    BY <1>0, SeenKept DEF Handle, Sized
  <2>. QED
    BY <1>0, <1>1, <2>1 DEF Sized
<1>4. Fresh'
  <2>1. ASSUME call[r].op \in Inserting, pc'[r] = 1
        PROVE  pc[r] = 1
    <3>1. Len(Program(call[r].op)) \in Nat /\ 1 <= Len(Program(call[r].op))
      BY <1>2, <2>1, ProgramLength, InsertsAtFirst
    <3>2. ~Raises(r)
      BY <1>0, <2>1, <3>1 DEF Raises, Shape
    <3>3. Passes(r)
      BY <3>2, PassesOrRaises
    <3>. QED
      BY <1>0, <2>1, <3>1, <3>3 DEF Passes, Running, Shape
  <2>2. \A q \in Requests : call[q].op \in Inserting /\ pc'[q] = 1 => pc[q] = 1
    BY <1>1, <2>1
  <2>. QED
    BY <1>1, <2>2 DEF Fresh, CrashInv
<1>5. Relied'
  <2>1. ASSUME overtaken[r] = {}, Running(r)'
        PROVE  Known(r)'
    <3>1. ~Raises(r)
      BY <1>0, <1>1, <1>2, <2>1, ProgramLength DEF Raises, Running, Shape
    <3>2. Read(r) \/ Aim(r)
      BY <1>0, <1>2, <2>1, ProgramLength
      DEF WriteRaises, WriteBreaks, DeadlockVictim, Fail, ToClose, Running, Shape
    <3>. QED
      BY <2>1, <3>2, KnownRead, KnownAim
  <2>2. ASSUME NEW q \in Requests \ {r}, overtaken[q] = {}, Running(q)'
        PROVE  Known(q)'
    <3>1. seen'[q] = seen[q]
      BY <1>0, QuietSteps DEF Quiet, Shape
    <3>2. Running(q)
      BY <1>1, <2>2 DEF Running
    <3>3. Known(q)
      BY <2>2, <3>2 DEF Relied, CrashInv
    <3>. QED
      BY <1>1, <3>1, <3>3, KnownKept
  <2>. QED
    BY <1>1, <2>1, <2>2 DEF Relied
<1>6. CrashesExplained'
  <2>1. \A q \in Requests \ {r} : outcome'[q] = outcome[q]
    BY <1>0, PassesOrRaises DEF Passes, Raises
  <2>2. overtaken[r] = {} => outcome'[r] # "crashed"
    BY NoCrash DEF CrashInv, CrashesExplained
  <2>. QED
    BY <1>1, <2>1, <2>2 DEF CrashInv, CrashesExplained
<1>. QED
  BY <1>3, <1>4, <1>5, <1>6

\* A statement that succeeds.
LEMMA CrashWrite ==
  ASSUME CrashInv, NEW r \in Requests, Write(r)
  PROVE  Sized' /\ Fresh' /\ Relied' /\ CrashesExplained'
<1>0. RequestInv /\ Sized /\ Shape /\ Running(r)
  BY DEF CrashInv, RequestInv, GraphInv, Write, Ready, Writing, Returning, RowByRow, Step
<1>1. /\ rows' = rows /\ call' = call /\ overtaken' = overtaken /\ outcome' = outcome
      /\ \A q \in Requests \ {r} : pc'[q] = pc[q] /\ seen'[q] = seen[q]
      /\ plus'[r] = (plus[r] \ Deleted(r)) \cup Inserted(r)
      /\ \A q \in Requests \ {r} : plus'[q] = plus[q] /\ View(q)' = View(q)
  <2>1. \A q \in Requests \ {r} : pc'[q] = pc[q] /\ seen'[q] = seen[q]
    BY <1>0 DEF Write, AfterWrite, Advance, Remember, Shape
  <2>. QED
    BY <1>0, <2>1, WriteViews DEF Write
<1>2. \A q \in Requests : call[q] \in Call /\ call[q].op \in Operation
  BY <1>0 DEF Shape, Call
<1>3. Sized'
  <2>1. \A q \in Requests : DOMAIN seen'[q] = DOMAIN Unseen
    BY <1>0, SeenKept DEF Handle, Sized
  <2>2. IsFiniteSet(plus[r] \ Deleted(r)) /\ IsFiniteSet(Inserted(r))
    BY <1>0, InsertedFinite, FS_Subset DEF Sized
  <2>3. IsFiniteSet((plus[r] \ Deleted(r)) \cup Inserted(r))
    BY <2>2, FS_Union
  <2>. QED
    BY <1>0, <1>1, <2>1, <2>3 DEF Sized
<1>4. Fresh'
  <2>1. ~(call[r].op \in Inserting /\ pc'[r] = 1)
    <3>1. SUFFICES ASSUME call[r].op \in Inserting, pc'[r] = 1 PROVE FALSE
      OBVIOUS
    <3>2. /\ pc[r] \in 1 .. Len(Program(call[r].op)) /\ Program(call[r].op)[pc[r]] = Step(r)
          /\ Len(Program(call[r].op)) \in Nat
      BY <1>0, RunningFacts
    <3>3. pc'[r] = pc[r] /\ Step(r) \in RowByRow \cup {"change"}
      BY <1>0, <3>1, <3>2 DEF Write, AfterWrite, Advance, Shape
    <3>4. Step(r) \in {"insert_item", "insert_type"}
      BY <1>2, <3>1, <3>2, <3>3, InsertsAtFirst
    <3>. QED
      BY <3>3, <3>4 DEF RowByRow
  <2>2. ASSUME NEW q \in Requests \ {r}, call[q].op \in Inserting, pc[q] = 1,
               NEW row \in Inserted(r), row.table \in {"item", "type"}
        PROVE  row.id # call[q].id
    <3>1. CASE \E d \in Deleted(r) : d.table = row.table /\ d.id = row.id
      <4>1. Deleted(r) \subseteq rows \cup plus[r]
        BY <1>0, DeletedSeen DEF View
      <4>. QED
        BY <2>2, <3>1, <4>1 DEF CrashInv, Fresh
    <3>2. CASE call[r].op \in Inserting /\ row.id = call[r].id
      BY <1>0, <2>2, <3>2, CallsAssumption DEF Sized, Inserting, Creating
    <3>. QED
      BY <1>0, <2>2, <3>1, <3>2, NewIds
  <2>3. ASSUME NEW q \in Requests, call[q].op \in Inserting, pc'[q] = 1,
               NEW row \in rows \cup UNION {plus'[p] : p \in Requests}, row.table \in {"item", "type"}
        PROVE  row.id # call[q].id
    <3>1. q # r /\ pc[q] = 1
      BY <1>1, <2>1, <2>3
    <3>2. row \in Inserted(r) \/ row \in rows \cup UNION {plus[p] : p \in Requests}
      BY <1>1
    <3>. QED
      BY <2>2, <2>3, <3>1, <3>2 DEF CrashInv, Fresh
  <2>. QED
    BY <1>1, <2>3 DEF Fresh
<1>5. Relied'
  <2>1. ASSUME NEW q \in Requests \ {r}, overtaken[q] = {}, Running(q)'
        PROVE  Known(q)'
    <3>1. Running(q)
      BY <1>1, <2>1 DEF Running
    <3>2. Known(q)
      BY <2>1, <3>1 DEF Relied, CrashInv
    <3>. QED
      BY <1>1, <3>2, KnownKept
  <2>. QED
    BY <1>1, <2>1, KnownWrite DEF Relied
<1>. QED
  BY <1>1, <1>3, <1>4, <1>5 DEF CrashInv, CrashesExplained

\* The end of another transaction: it changed nothing, or it has overtaken all that have begun.
LEMMA CrashEnds ==
  ASSUME CrashInv, NEW r \in Requests, Commit(r) \/ RollBack(r)
  PROVE  Sized' /\ Fresh' /\ Relied' /\ CrashesExplained'
<1>0. RequestInv /\ Sized /\ Shape /\ overtaken = [q \in Requests |-> overtaken[q]]
  BY DEF CrashInv, RequestInv, GraphInv, RefusedClean
<1>1. /\ call' = call /\ seen' = seen /\ outcome' = outcome
      /\ pc'[r] = 0 /\ plus'[r] = {} /\ minus'[r] = {}
      /\ \A q \in Requests \ {r} : pc'[q] = pc[q] /\ plus'[q] = plus[q] /\ minus'[q] = minus[q]
  <2>1. /\ UNCHANGED <<call, seen, outcome>> /\ pc' = [pc EXCEPT ![r] = 0]
        /\ plus' = [plus EXCEPT ![r] = {}] /\ minus' = [minus EXCEPT ![r] = {}]
    BY DEF Commit, RollBack, Ends
  <2>. QED
    BY <1>0, <2>1 DEF Shape
<1>2. /\ rows' = rows \/ rows' = View(r)
      /\ \A q \in Requests : overtaken[q] \subseteq overtaken'[q]
      /\ \A q \in Requests \ {r} : pc[q] > 1 /\ overtaken'[q] = {} => rows' = rows
  <2>1. CASE Commit(r)
    <3>1. \A q \in Requests \ {r} : pc[q] > 1 /\ overtaken'[q] = {} => plus[r] = {} /\ minus[r] = {}
      BY <2>1 DEF Commit
    <3>. QED
      BY <2>1, <3>1 DEF Commit, View
  <2>2. CASE RollBack(r)
    BY <2>2 DEF RollBack
  <2>. QED
    BY <2>1, <2>2
<1>3. Sized'
  <2>1. IsFiniteSet(rows')
    <3>1. IsFiniteSet(rows \ minus[r]) /\ IsFiniteSet(plus[r])
      BY <1>0, FS_Subset DEF Sized
    <3>2. IsFiniteSet(View(r))
      BY <3>1, FS_Union DEF View
    <3>. QED
      BY <1>0, <1>2, <3>2 DEF Sized
  <2>2. \A q \in Requests : IsFiniteSet(plus'[q])
    BY <1>0, <1>1, FS_EmptySet DEF Sized
  <2>. QED
    BY <1>0, <1>1, <2>1, <2>2 DEF Sized
<1>4. Fresh'
  <2>1. rows' \cup UNION {plus'[q] : q \in Requests} \subseteq rows \cup UNION {plus[q] : q \in Requests}
    BY <1>1, <1>2 DEF View
  <2>2. \A q \in Requests : pc'[q] = 1 => pc[q] = 1
    BY <1>1
  <2>. QED
    BY <1>1, <2>1, <2>2 DEF CrashInv, Fresh
<1>5. Relied'
  <2>1. ASSUME NEW q \in Requests, overtaken'[q] = {}, Running(q)'
        PROVE  Known(q)'
    <3>1. q # r
      BY <1>1, <2>1 DEF Running
    <3>2. Running(q) /\ overtaken[q] = {} /\ call[q].op \in Operation
      BY <1>0, <1>1, <1>2, <2>1, <3>1 DEF Running, Shape, Call
    <3>3. CASE pc[q] = 1
      BY <1>1, <2>1, <3>1, <3>2, <3>3, KnownStillFirst
    <3>4. CASE pc[q] # 1
      <4>1. pc[q] > 1
        BY <3>2, <3>4, ProgramLength DEF Running
      <4>2. View(q)' = View(q)
        BY <1>1, <1>2, <2>1, <3>1, <4>1 DEF View
      <4>3. Known(q)
        BY <3>2 DEF CrashInv, Relied
      <4>. QED
        BY <1>1, <3>1, <4>2, <4>3, KnownKept
    <3>. QED
      BY <3>3, <3>4
  <2>. QED
    BY <2>1 DEF Relied
<1>6. CrashesExplained'
  BY <1>1, <1>2 DEF CrashInv, CrashesExplained
<1>. QED
  BY <1>3, <1>4, <1>5, <1>6

\* At first nobody knows anything, and nobody needs to.
LEMMA CrashInit ==
  ASSUME Init
  PROVE  CrashInv
<1>1. RequestInv
  BY RequestInit
<1>2. Sized
  BY CallsAssumption, FS_EmptySet DEF Init, Sized, Unseen
<1>3. Fresh
  BY CallsAssumption DEF Init, Fresh, Inserting, Creating
<1>4. Relied
  BY <1>1, KnownAtFirst DEF Init, Relied, RequestInv, GraphInv, Shape, Call
<1>5. CrashesExplained
  BY DEF Init, CrashesExplained
<1>. QED
  BY <1>1, <1>2, <1>3, <1>4, <1>5 DEF CrashInv

\* Every step of every request keeps all that requests rely on.
LEMMA CrashStep == CrashInv /\ [Next]_vars => CrashInv'
<1>. SUFFICES ASSUME CrashInv, [Next]_vars PROVE CrashInv'
  OBVIOUS
<1>1. RequestInv'
  BY RequestStep DEF CrashInv
<1>2. ASSUME NEW r \in Requests, Handle(r)
      PROVE  Sized' /\ Fresh' /\ Relied' /\ CrashesExplained'
  BY <1>2, CrashQuiet, CrashWrite, CrashEnds DEF Handle
<1>3. CASE UNCHANGED vars
  <2>1. Sized' /\ Fresh' /\ CrashesExplained'
    BY <1>3 DEF vars, tx, CrashInv, Sized, Fresh, CrashesExplained
  <2>2. \A q \in Requests : View(q)' = View(q) /\ (Running(q)' <=> Running(q))
    BY <1>3 DEF vars, tx, View, Running
  <2>3. Relied'
    BY <1>3, <2>2, KnownKept DEF vars, tx, CrashInv, Relied
  <2>. QED
    BY <1>1, <2>1, <2>3 DEF CrashInv
<1>. QED
  BY <1>1, <1>2, <1>3 DEF CrashInv, Next, AllEnded

\* Whatever requests interleave: a call answers 500 only if another call changed the graph
\* after it began, or it was chosen to break a deadlock.
THEOREM CrashesAccountedFor == Spec => []CrashesExplained
<1>1. CrashInv => CrashesExplained
  BY DEF CrashInv
<1>. QED
  BY <1>1, CrashInit, CrashStep, PTL DEF Spec

-----------------------------------------------------------------------------
(* What a page that is changed is shown.                                    *)

\* What the form of a page sends: no relationship is changed twice, or changed and removed,
\* and a new one has an id of its own.
UpdateIds(c) == {value.id : value \in ToSet(c.update)}
OneChangeEach ==
  \A asked \in Asked : \A r \in Requests :
    LET c == asked[r]
        new == {value.id : value \in c.create}
    IN  /\ \A i, j \in DOMAIN c.update : c.update[i].id = c.update[j].id => i = j
        /\ c.delete \cap (UpdateIds(c) \cup new) = {}
        /\ new \cap UpdateIds(c) = {}

\* No person is related to itself, in what is committed and in what is yet to be.
NoLoops == \A row \in rows \cup UNION {plus[r] : r \in Requests} : CheckHolds(row)

\* The row that a request writes for a relationship it asks for.
Asks(r, value) == RelationshipFrom(value, call[r].id, call[r].author)

\* How far an update of a page has come: the relationships to change are there until they
\* are changed, those asked for are there once written, and the last reading finds them all.
ToChange(r) ==
  \A i \in UpdateIds(call[r]) : \E row \in View(r) :
    /\ row.table = "relationship" /\ row.id = i /\ row.author = call[r].author
    /\ call[r].id \in {row.source, row.target}
Page(r) ==
  LET c == call[r]
      n == pc[r]
  IN  /\ n \in 1 .. 10 => seen[r].changed = 0
      /\ n \in 3 .. 11 => ToChange(r)
      /\ n \in 11 .. 15 => \A value \in c.create : Asks(r, value) \in View(r)
      /\ n = 11 => \A i \in 1 .. seen[r].changed : Asks(r, c.update[i]) \in View(r)
      /\ n \in 12 .. 15 => \A value \in ToSet(c.update) : Asks(r, value) \in View(r)
      /\ n \notin 1 .. 15 =>
           \A value \in Values(c) : /\ Asks(r, value) \in seen[r].relations
                                    /\ CheckHolds(Asks(r, value))
PagesKept ==
  \A r \in Requests :
    call[r].op = "update_person" /\ outcome[r] = "ok" /\ overtaken[r] = {} => Page(r)

PageInv == CrashInv /\ NoLoops /\ PagesKept

\* Where the steps of the program are.
LEMMA PageProgram ==
  LET program == Program("update_person")
  IN  /\ Len(program) = 18
      /\ \A n \in 1 .. 18 :
           /\ program[n] = "changes" <=> n = 2
           /\ program[n] = "create" <=> n = 10
           /\ program[n] = "change" <=> n = 11
           /\ program[n] = "remove" <=> n = 12
           /\ program[n] = "relations" <=> n = 15
           /\ program[n] \in RowByRow <=> n = 13
           /\ program[n] \in Writing <=> n \in {6, 7, 8, 10, 11, 12, 13}
           /\ program[n] \in Writing =>
                program[n] \in {"item", "untag", "tag", "create", "change", "remove", "touch"}
<1>1. Program("update_person") = UpdatePerson
  BY DEF Program, Programs, Operation, PeopleEndpoint
<1>. QED
  BY <1>1 DEF UpdatePerson, UpdateItem, GetPerson, Writing, Returning, RowByRow

\* Looking up as many relationships as were asked for finds each.
LEMMA RelationshipsCounted ==
  ASSUME NEW V, Unique(V), NEW ids, IsFiniteSet(ids), NEW author,
         Cardinality(RelationshipsById(V, ids, author)) = Cardinality(ids), NEW i \in ids
  PROVE  \E row \in RelationshipsById(V, ids, author) : row.id = i
<1>. DEFINE found == RelationshipsById(V, ids, author)
<1>1. (\A a \in found : a.id \in ids) /\ (\A a, b \in found : a.id = b.id => a = b)
  BY DEF RelationshipsById, Unique, Clash
<1>2. Cardinality(found) = Cardinality(ids) <=> \A j \in ids : \E a \in found : a.id = j
  <2>. HIDE DEF found
  <2>. QED
    BY <1>1, CountById
<1>. QED
  BY <1>2

\* A relationship has both ends and is read back as it was written.
LEMMA RowAgain ==
  ASSUME NEW row \in Row, row.table = "relationship", CheckHolds(row),
         NEW end \in {row.source, row.target}
  PROVE  RelationshipFrom([id |-> row.id, type |-> row.type, direction |-> DirectionFor(row, end),
                           related |-> RelatedPersonFor(row, end)], end, row.author) = row
<1>1. row \in RelationshipRow
  BY DEF Row, ItemRow, TagRow, ItemTagRow, TypeRow, LinkRow, FileRow
<1>2. row = [table |-> "relationship", id |-> row.id, author |-> row.author, source |-> row.source,
             target |-> row.target, type |-> row.type]
  BY <1>1 DEF RelationshipRow
<1>3. row.source # row.target
  BY DEF CheckHolds
<1>. QED
  BY <1>2, <1>3 DEF RelationshipFrom, DirectionFor, RelatedPersonFor

\* What a person's page asks for it shows, read from the person's side.
LEMMA ValueAgain ==
  ASSUME NEW value \in Value, NEW person, NEW author,
         CheckHolds(RelationshipFrom(value, person, author))
  PROVE  LET row == RelationshipFrom(value, person, author)
         IN  /\ row.table = "relationship" /\ row.id = value.id /\ row.type = value.type
             /\ row.author = author /\ person \in {row.source, row.target}
             /\ RelatedPersonFor(row, person) = value.related
             /\ DirectionFor(row, person) = value.direction
BY DEF Value, Directions, CheckHolds, RelationshipFrom, DirectionFor, RelatedPersonFor

-----------------------------------------------------------------------------
(* No person is related to itself.                                          *)

\* A statement that succeeds inserts rows that pass the check.
LEMMA LoopsStep ==
  ASSUME Shape, NoLoops, [Next]_vars
  PROVE  NoLoops'
<1>1. ASSUME NEW r \in Requests, Handle(r)
      PROVE  NoLoops'
  <2>1. CASE Read(r) \/ Aim(r) \/ WriteRaises(r) \/ WriteBreaks(r) \/ DeadlockVictim(r)
    BY <2>1, PassesOrRaises DEF Passes, Raises, NoLoops, CheckHolds
  <2>2. CASE Write(r)
    <3>1. \A row \in Inserted(r) : CheckHolds(row)
      BY <2>2 DEF Write, Breaks, Keeps
    <3>2. rows' = rows /\ \A q \in Requests : plus'[q] \subseteq plus[q] \cup Inserted(r)
      BY <2>2, WriteViews DEF Write
    <3>. QED
      BY <3>1, <3>2 DEF NoLoops, CheckHolds
  <2>3. CASE Commit(r) \/ RollBack(r)
    <3>1. rows' \subseteq rows \cup plus[r]
      BY <2>3 DEF Commit, RollBack, View
    <3>2. plus' = [plus EXCEPT ![r] = {}]
      BY <2>3 DEF Commit, RollBack, Ends
    <3>3. \A q \in Requests : plus'[q] \subseteq plus[q]
      BY <3>2 DEF Shape
    <3>. QED
      BY <3>1, <3>3 DEF NoLoops, CheckHolds
  <2>. QED
    BY <1>1, <2>1, <2>2, <2>3 DEF Handle
<1>2. CASE UNCHANGED vars
  BY <1>2 DEF vars, tx, NoLoops, CheckHolds
<1>. QED
  BY <1>1, <1>2 DEF Next, AllEnded

-----------------------------------------------------------------------------
(* How far the update of a page has come.                                   *)

\* A step of a page's program that does not write: the handler raises, or goes on with what
\* it has read.
LEMMA PageReads ==
  ASSUME RequestInv, Sized, NEW r \in Requests, call[r].op = "update_person",
         Read(r) \/ Aim(r) \/ WriteRaises(r) \/ WriteBreaks(r) \/ DeadlockVictim(r),
         outcome'[r] = "ok"
  PROVE  LET c == call[r]
             existing == RelationshipsById(View(r), MutatedIn(c), c.author)
         IN  /\ Running(r) /\ outcome[r] = "ok"
             /\ pc'[r] = pc[r] + 1 \/ (pc'[r] = pc[r] /\ Step(r) \in RowByRow)
             /\ Step(r) \notin Writing \ RowByRow
             /\ seen'[r].changed = seen[r].changed
             /\ Step(r) = "changes" =>
                  /\ Cardinality(existing) = Cardinality(MutatedIn(c))
                  /\ \A row \in existing : c.id \in {row.source, row.target}
             /\ Step(r) = "relations" =>
                  seen'[r].relations = RelationshipsOf(View(r), c.id, c.author)
             /\ Step(r) \notin {"changes", "relations"} => seen'[r].relations = seen[r].relations
<1>0. /\ seen = [q \in Requests |-> seen[q]] /\ pc = [q \in Requests |-> pc[q]]
      /\ DOMAIN seen[r] = DOMAIN Unseen /\ Shape /\ outcome = [q \in Requests |-> outcome[q]]
      /\ call[r].op \in Operation
  BY DEF RequestInv, GraphInv, RefusedClean, Shape, Sized, Call
<1>1. Passes(r)
  BY <1>0, PassesOrRaises DEF Raises
<1>2. Running(r) /\ outcome[r] = "ok" /\ Step(r) \notin Writing \ RowByRow
  BY <1>0, <1>1 DEF Passes
<1>3. seen'[r].changed = seen[r].changed
  BY <1>0, QuietSteps DEF Quiet
<1>4. \A how : how # "ok" => ~Fail(r, how)
  BY <1>0 DEF Fail
<1>5. CASE Aim(r)
  <2>1. seen'[r].relations = seen[r].relations
    BY <1>0, <1>5 DEF Aim, Remember, Unseen
  <2>2. pc'[r] = pc[r] + 1 \/ pc'[r] = pc[r]
    BY <1>0, <1>5 DEF Aim, Advance
  <2>3. Step(r) \in RowByRow /\ Step(r) \notin {"changes", "relations"}
    BY <1>5 DEF Aim, RowByRow
  <2>. QED
    BY <1>2, <1>3, <2>1, <2>2, <2>3
<1>6. CASE Read(r)
  <2>2. CASE CheckChanges(r)
    <3>. DEFINE c == call[r]
                existing == RelationshipsById(View(r), MutatedIn(c), c.author)
    <3>1. /\ Cardinality(existing) = Cardinality(MutatedIn(c))
          /\ \A row \in existing : c.id \in {row.source, row.target}
          /\ pc'[r] = pc[r] + 1
      BY <1>0, <2>2 DEF CheckChanges, Reads, Remember, Advance, Fail
    <3>. QED
      BY <1>2, <1>3, <2>2, <3>1 DEF CheckChanges
  <2>3. CASE ReadRelations(r)
    <3>1. /\ seen'[r] = [seen[r] EXCEPT !.relations = RelationshipsOf(View(r), call[r].id, call[r].author)]
          /\ pc'[r] = pc[r] + 1
      BY <1>0, <2>3 DEF ReadRelations, Reads, Remember, Advance, Fail
    <3>. QED
      BY <1>0, <1>2, <1>3, <2>3, <3>1 DEF ReadRelations, Unseen
  <2>4. ASSUME Read(r), ~CheckChanges(r), ~ReadRelations(r)
        PROVE  /\ pc'[r] = pc[r] + 1 /\ Step(r) \notin {"changes", "relations"}
               /\ seen'[r].relations = seen[r].relations
    <3>. USE <1>0 DEF Unseen, Reads, Remember, Advance, Fail
    <3>1. CASE Load(r) \/ CheckPeople(r) \/ CheckTypes(r) \/ CheckTags(r) \/ RereadTypes(r)
      BY <3>1 DEF Load, CheckPeople, CheckTypes, CheckTags, RereadTypes
    <3>2. CASE ReadNames(r) \/ ReadDateIds(r) \/ ReadDateRows(r) \/ ReadNeighbours(r) \/ ReadLinks(r)
      BY <3>2 DEF ReadNames, ReadDateIds, ReadDateRows, ReadNeighbours, ReadLinks
    <3>3. CASE FilterPerson(r) \/ ReadPage(r) \/ ReadPageRows(r) \/ ReadPageLinks(r)
      BY <3>3 DEF FilterPerson, ReadPage, ReadPageRows, ReadPageLinks
    <3>4. CASE ReadPageNames(r) \/ ReadMonth(r) \/ ReadMonthNames(r)
      BY <3>4 DEF ReadPageNames, ReadMonth, ReadMonthNames
    <3>5. CASE LoadType(r) \/ LoadTag(r) \/ FindName(r) \/ AskUse(r)
          \/ ListFiles(r) \/ FindItem(r) \/ FindFile(r)
      BY <3>5 DEF LoadType, LoadTag, FindName, AskUse, ListFiles, FindItem, FindFile
    <3>. QED
      BY <2>4, <3>1, <3>2, <3>3, <3>4, <3>5 DEF Read
  <2>. QED
    BY <1>2, <1>3, <1>6, <2>2, <2>3, <2>4
<1>7. CASE WriteRaises(r) \/ WriteBreaks(r) \/ DeadlockVictim(r)
  BY <1>4, <1>7 DEF WriteRaises, WriteBreaks, DeadlockVictim
<1>. QED
  BY <1>5, <1>6, <1>7

\* A statement of a page's program: which relationships it takes away and which it leaves.
LEMMA PageWrites ==
  ASSUME RequestInv, Sized, NEW r \in Requests, call[r].op = "update_person", Write(r)
  PROVE  LET c == call[r]
             turn == seen[r].changed + 1
         IN  /\ Running(r) /\ pc[r] \in {6, 7, 8, 10, 11, 12, 13}
             /\ \A row \in View(r) \ View(r)' : row.table = "relationship" =>
                  \/ pc[r] = 11 /\ turn \in DOMAIN c.update /\ row.id = c.update[turn].id
                  \/ pc[r] = 12 /\ row.id \in c.delete
             /\ pc[r] = 10 => \A value \in c.create : Asks(r, value) \in View(r)'
             /\ pc[r] = 11 /\ turn \in DOMAIN c.update /\ ToChange(r) =>
                  Asks(r, c.update[turn]) \in View(r)'
             /\ \/ pc'[r] = pc[r] + 1 /\ (pc[r] = 11 => turn >= Len(c.update))
                \/ pc'[r] = pc[r] /\ pc[r] = 11 /\ turn < Len(c.update)
                \/ pc'[r] = pc[r] /\ pc[r] = 13
             /\ seen'[r].changed =
                  IF pc[r] = 11 /\ turn < Len(c.update) THEN turn ELSE seen[r].changed
<1>. DEFINE c == call[r]
            turn == seen[r].changed + 1
            program == Program("update_person")
<1>0. /\ Shape /\ seen = [q \in Requests |-> seen[q]] /\ pc = [q \in Requests |-> pc[q]]
      /\ DOMAIN seen[r] = DOMAIN Unseen
  BY DEF RequestInv, GraphInv, Shape, Sized
<1>1. Running(r) /\ Step(r) \in Writing
  BY DEF Write, Ready, Step, Running, Writing, Returning, RowByRow
<1>2. /\ Step(r) = program[pc[r]] /\ pc[r] \in 1 .. 18 /\ c \in Call
      /\ View(r) \subseteq Row /\ RestrictKept(View(r))
  <2>1. /\ Step(r) = Program(c.op)[pc[r]] /\ pc[r] \in 1 .. Len(Program(c.op)) /\ c \in Call
        /\ View(r) \subseteq Row /\ RestrictKept(View(r))
    BY <1>1, RunningFacts
  <2>2. Program(c.op) = program /\ Len(program) = 18
    BY PageProgram
  <2>. HIDE DEF program
  <2>. QED
    BY <2>1, <2>2
<1>3. /\ pc[r] \in {6, 7, 8, 10, 11, 12, 13}
      /\ Step(r) \in {"item", "untag", "tag", "create", "change", "remove", "touch"}
      /\ Step(r) = "create" <=> pc[r] = 10
      /\ Step(r) = "change" <=> pc[r] = 11
      /\ Step(r) = "remove" <=> pc[r] = 12
      /\ Step(r) \in RowByRow <=> pc[r] = 13
  BY <1>1, <1>2, PageProgram
<1>4. View(r)' = (View(r) \ Deleted(r)) \cup Inserted(r)
  BY <1>0, WriteViews
<1>5. c.update # <<>> <=> turn \in DOMAIN c.update
  <2>1. c.update \in Seq(Value) /\ Len(c.update) \in Nat /\ DOMAIN c.update = 1 .. Len(c.update)
    BY <1>2 DEF Call
  <2>2. seen[r].changed \in Nat /\ (seen[r].changed = 0 \/ seen[r].changed < Len(c.update))
    BY <1>0 DEF Shape
  <2>3. c.update # <<>> <=> Len(c.update) > 0
    BY <2>1
  <2>. QED
    BY <2>1, <2>2, <2>3
<1>6. ASSUME NEW row \in View(r) \ View(r)', row.table = "relationship"
      PROVE  \/ pc[r] = 11 /\ turn \in DOMAIN c.update /\ row.id = c.update[turn].id
             \/ pc[r] = 12 /\ row.id \in c.delete
  <2>1. row \in Deleted(r)
    BY <1>4, <1>6
  <2>2. CASE Step(r) = "change"
    BY <1>3, <1>5, <2>1, <2>2 DEF Deleted, ChangedRelationship
  <2>3. CASE Step(r) = "remove"
    BY <1>3, <2>1, <2>3 DEF Deleted, DeletedRelationships
  <2>4. CASE Step(r) \in {"item", "untag", "tag", "create", "touch"}
    BY <1>6, <2>1, <2>4 DEF Deleted, ItemOf, ItemsById, ItemTagsOf
  <2>. QED
    BY <1>3, <2>2, <2>3, <2>4
<1>7. pc[r] = 10 => \A value \in c.create : Asks(r, value) \in View(r)'
  BY <1>3, <1>4 DEF Inserted, Asks
<1>8. ASSUME pc[r] = 11, turn \in DOMAIN c.update, ToChange(r)
      PROVE  Asks(r, c.update[turn]) \in View(r)'
  <2>1. PICK row \in View(r) : /\ row.table = "relationship" /\ row.id = c.update[turn].id
                               /\ row.author = c.author /\ c.id \in {row.source, row.target}
    BY <1>8 DEF ToChange, UpdateIds, ToSet
  <2>2. row \in ChangedRelationship(View(r), c.update[turn], c.id, c.author)
    BY <1>2, <2>1, TypeFound DEF ChangedRelationship, RelationshipsOf
  <2>3. row \in Deleted(r) /\ Step(r) = "change"
    BY <1>3, <1>5, <1>8, <2>2 DEF Deleted
  <2>4. Asks(r, c.update[turn]) \in Inserted(r)
    BY <2>3 DEF Inserted, Asks
  <2>. QED
    BY <1>4, <2>4
<1>9. /\ \/ pc'[r] = pc[r] + 1 /\ (pc[r] = 11 => turn >= Len(c.update))
         \/ pc'[r] = pc[r] /\ pc[r] = 11 /\ turn < Len(c.update)
         \/ pc'[r] = pc[r] /\ pc[r] = 13
      /\ seen'[r].changed = IF pc[r] = 11 /\ turn < Len(c.update) THEN turn ELSE seen[r].changed
  <2>0. seen[r].changed \in Nat /\ Len(c.update) \in Nat /\ {"changed", "aim", "done"} \subseteq DOMAIN seen[r]
    BY <1>0, <1>2 DEF Shape, Call, Unseen
  <2>1. CASE pc[r] = 13
    <3>1. Step(r) \in RowByRow /\ Step(r) # "change"
      BY <1>3, <2>1
    <3>. DEFINE now == [seen[r] EXCEPT !.done = @ \cup {seen[r].aim}, !.aim = Nobody]
    <3>2. pc' = pc /\ seen' = [seen EXCEPT ![r] = now]
      BY <3>1 DEF Write, AfterWrite, Remember
    <3>3. now.changed = seen[r].changed
      <4>. DEFINE met == seen[r].done \cup {seen[r].aim}
      <4>1. \A f, v, w : {"changed", "aim", "done"} \subseteq DOMAIN f =>
              [f EXCEPT !.done = v, !.aim = w].changed = f.changed
        OBVIOUS
      <4>2. now = [seen[r] EXCEPT !.done = met, !.aim = Nobody]
        OBVIOUS
      <4>. HIDE DEF met, now
      <4>. QED
        BY <2>0, <4>1, <4>2
    <3>. HIDE DEF now
    <3>4. seen'[r].changed = seen[r].changed
      BY <1>0, <3>2, <3>3
    <3>. QED
      BY <2>1, <3>2, <3>4
  <2>2. CASE pc[r] = 11 /\ turn < Len(c.update)
    <3>1. Step(r) = "change" /\ Step(r) \notin RowByRow
      BY <1>3, <2>2 DEF RowByRow
    <3>2. pc' = pc /\ seen' = [seen EXCEPT ![r] = [seen[r] EXCEPT !.changed = @ + 1]]
      BY <2>2, <3>1 DEF Write, AfterWrite, Remember
    <3>. QED
      BY <1>0, <2>2, <3>2 DEF Unseen
  <2>3. CASE pc[r] # 13 /\ ~(pc[r] = 11 /\ turn < Len(c.update))
    <3>1. Step(r) \notin RowByRow /\ ~(Step(r) = "change" /\ turn < Len(c.update))
      BY <1>3, <2>3
    <3>2. /\ pc' = [pc EXCEPT ![r] = @ + 1]
          /\ seen' = [seen EXCEPT ![r] = [seen[r] EXCEPT !.done = {}]]
      BY <3>1 DEF Write, AfterWrite, Remember, Advance
    <3>. QED
      BY <1>0, <2>0, <2>3, <3>2 DEF Unseen
  <2>. QED
    BY <2>1, <2>2, <2>3
<1>. QED
  BY <1>1, <1>3, <1>6, <1>7, <1>8, <1>9

\* What is known of a page stays while its transaction sees and remembers the same.
LEMMA PageKept ==
  ASSUME NEW q \in Requests, Page(q), View(q)' = View(q), pc'[q] = pc[q], seen'[q] = seen[q],
         call' = call
  PROVE  Page(q)'
<1>1. \A value : Asks(q, value)' = Asks(q, value)
  BY DEF Asks
<1>2. ToChange(q) => ToChange(q)'
  BY DEF ToChange
<1>. QED
  BY <1>1, <1>2 DEF Page, CheckHolds

\* A step that does not write: "changes" has counted the relationships to change, and
\* "relations" finds those that were written.
LEMMA PageRead ==
  ASSUME RequestInv, Sized, NoLoops, NEW r \in Requests, call[r].op = "update_person",
         Read(r) \/ Aim(r) \/ WriteRaises(r) \/ WriteBreaks(r) \/ DeadlockVictim(r),
         outcome'[r] = "ok", Page(r)
  PROVE  Page(r)'
<1>. DEFINE c == call[r]
            program == Program("update_person")
<1>1. call' = call /\ View(r)' = View(r)
  BY PassesOrRaises DEF Passes, Raises, View
<1>2. \A value : Asks(r, value)' = Asks(r, value)
  BY <1>1 DEF Asks
<1>3. Running(r)
  BY PageReads
<1>4. /\ pc[r] \in 1 .. 18 /\ Step(r) = program[pc[r]] /\ c \in Call
      /\ View(r) \subseteq Row /\ RestrictKept(View(r)) /\ Unique(View(r))
      /\ View(r) \subseteq rows \cup plus[r]
  <2>1. /\ Step(r) = Program(c.op)[pc[r]] /\ pc[r] \in 1 .. Len(Program(c.op)) /\ c \in Call
        /\ View(r) \subseteq Row /\ RestrictKept(View(r)) /\ Unique(View(r))
    BY <1>3, RunningFacts
  <2>2. Program(c.op) = program /\ Len(program) = 18
    BY PageProgram
  <2>. HIDE DEF program
  <2>. QED
    BY <2>1, <2>2 DEF View
<1>5. /\ Step(r) = "changes" <=> pc[r] = 2
      /\ Step(r) = "relations" <=> pc[r] = 15
      /\ Step(r) \in RowByRow <=> pc[r] = 13
      /\ Step(r) \in Writing <=> pc[r] \in {6, 7, 8, 10, 11, 12, 13}
  BY <1>4, PageProgram
<1>6. /\ pc'[r] = pc[r] + 1 \/ (pc'[r] = pc[r] /\ pc[r] = 13)
      /\ pc[r] \notin {6, 7, 8, 10, 11, 12}
      /\ seen'[r].changed = seen[r].changed
      /\ pc[r] = 15 => seen'[r].relations = RelationshipsOf(View(r), c.id, c.author)
      /\ pc[r] > 15 => seen'[r].relations = seen[r].relations
  BY <1>4, <1>5, PageReads
<1>7. ASSUME pc[r] = 2
      PROVE  ToChange(r)'
  <2>. DEFINE existing == RelationshipsById(View(r), MutatedIn(c), c.author)
  <2>1. /\ Cardinality(existing) = Cardinality(MutatedIn(c))
        /\ \A row \in existing : c.id \in {row.source, row.target}
    BY <1>5, <1>7, PageReads
  <2>2. IsFiniteSet(MutatedIn(c))
    BY <1>4, FiniteCall DEF Sized
  <2>3. \A i \in MutatedIn(c) : \E row \in existing : row.id = i
    BY <1>4, <2>1, <2>2, RelationshipsCounted
  <2>4. UpdateIds(c) \subseteq MutatedIn(c)
    BY DEF UpdateIds, MutatedIn
  <2>. QED
    BY <1>1, <2>1, <2>3, <2>4 DEF ToChange, RelationshipsById
<1>8. ASSUME pc[r] = 15, NEW value \in Values(c)
      PROVE  Asks(r, value) \in seen'[r].relations /\ CheckHolds(Asks(r, value))
  <2>1. Asks(r, value) \in View(r)
    BY <1>8 DEF Page, Values
  <2>2. CheckHolds(Asks(r, value))
    BY <1>4, <2>1 DEF NoLoops
  <2>3. value \in Value
    BY <1>4, <1>8 DEF Values, Call, ToSet
  <2>4. /\ Asks(r, value).table = "relationship" /\ Asks(r, value).author = c.author
        /\ c.id \in {Asks(r, value).source, Asks(r, value).target}
    BY <2>2, <2>3, ValueAgain DEF Asks
  <2>5. HasType(View(r), Asks(r, value))
    BY <1>4, <2>1, <2>4, TypeFound
  <2>. QED
    BY <1>6, <1>8, <2>1, <2>2, <2>4, <2>5 DEF RelationshipsOf
<1>9. \A value : CheckHolds(Asks(r, value))' <=> CheckHolds(Asks(r, value))
  BY <1>2 DEF CheckHolds
<1>10. CASE pc[r] = 2
  BY <1>1, <1>6, <1>7, <1>10 DEF Page
<1>11. CASE pc[r] = 15
  BY <1>1, <1>2, <1>6, <1>8, <1>9, <1>11 DEF Page
<1>12. CASE pc[r] \in {1, 3, 4, 5, 9}
  <2>1. ToChange(r) => ToChange(r)'
    BY <1>1 DEF ToChange
  <2>. QED
    BY <1>1, <1>6, <1>12, <2>1 DEF Page
<1>13. CASE pc[r] \in {13, 14}
  BY <1>1, <1>2, <1>6, <1>13 DEF Page
<1>14. CASE pc[r] \in 16 .. 18
  BY <1>1, <1>2, <1>6, <1>9, <1>14 DEF Page
<1>. QED
  BY <1>4, <1>6, <1>10, <1>11, <1>12, <1>13, <1>14

\* A statement: each relationship asked for is written once, and none is taken away again.
LEMMA PageWrite ==
  ASSUME RequestInv, Sized, OneChangeEach, NEW r \in Requests, call[r].op = "update_person",
         Write(r), Page(r)
  PROVE  Page(r)'
<1>. DEFINE c == call[r]
            turn == seen[r].changed + 1
            new == {value.id : value \in c.create}
<1>1. call' = call /\ \A value : Asks(r, value)' = Asks(r, value)
  BY DEF Write, Asks
<1>2. /\ seen[r].changed \in Nat /\ (seen[r].changed = 0 \/ seen[r].changed < Len(c.update))
      /\ c \in Call /\ c.update \in Seq(Value) /\ Len(c.update) \in Nat
      /\ DOMAIN c.update = 1 .. Len(c.update)
  BY DEF RequestInv, GraphInv, Shape, Call
<1>3. /\ \A i, j \in DOMAIN c.update : c.update[i].id = c.update[j].id => i = j
      /\ c.delete \cap (UpdateIds(c) \cup new) = {} /\ new \cap UpdateIds(c) = {}
  BY DEF OneChangeEach, Sized
<1>4. \A i \in DOMAIN c.update : c.update[i] \in ToSet(c.update) /\ c.update[i].id \in UpdateIds(c)
  BY DEF ToSet, UpdateIds
<1>5. \A value : Asks(r, value).table = "relationship" /\ Asks(r, value).id = value.id
  BY DEF Asks, RelationshipFrom
<1>6. /\ pc[r] \in {6, 7, 8, 10, 11, 12, 13}
      /\ \A row \in View(r) : row.table = "relationship" =>
           \/ row \in View(r)'
           \/ pc[r] = 11 /\ turn \in DOMAIN c.update /\ row.id = c.update[turn].id
           \/ pc[r] = 12 /\ row.id \in c.delete
      /\ pc[r] = 10 => \A value \in c.create : Asks(r, value) \in View(r)'
      /\ pc[r] = 11 /\ turn \in DOMAIN c.update /\ ToChange(r) => Asks(r, c.update[turn]) \in View(r)'
      /\ \/ pc'[r] = pc[r] + 1 /\ (pc[r] = 11 => turn >= Len(c.update))
         \/ pc'[r] = pc[r] /\ pc[r] = 11 /\ turn < Len(c.update)
         \/ pc'[r] = pc[r] /\ pc[r] = 13
      /\ seen'[r].changed = IF pc[r] = 11 /\ turn < Len(c.update) THEN turn ELSE seen[r].changed
  BY PageWrites
<1>7. CASE pc[r] \in {6, 7, 8, 10}
  <2>1. ToChange(r)'
    BY <1>1, <1>6, <1>7 DEF Page, ToChange
  <2>. QED
    BY <1>1, <1>6, <1>7, <2>1 DEF Page
<1>8. CASE pc[r] = 11
  <2>1. \A value \in c.create : Asks(r, value) \in View(r)'
    <3>1. \A value \in c.create : value.id \notin UpdateIds(c)
      BY <1>3
    <3>2. \A value \in c.create : turn \in DOMAIN c.update => value.id # c.update[turn].id
      BY <1>4, <3>1
    <3>. QED
      BY <1>5, <1>6, <1>8, <3>2 DEF Page
  <2>2. \A i \in 1 .. seen[r].changed : Asks(r, c.update[i]) \in View(r)'
    <3>1. ASSUME NEW i \in 1 .. seen[r].changed
          PROVE  Asks(r, c.update[i]) \in View(r) /\ i \in DOMAIN c.update /\ i # turn
      BY <1>2, <1>8, <3>1 DEF Page
    <3>2. \A i \in 1 .. seen[r].changed : turn \in DOMAIN c.update => c.update[i].id # c.update[turn].id
      BY <1>3, <3>1
    <3>. QED
      BY <1>5, <1>6, <1>8, <3>1, <3>2
  <2>3. turn \in DOMAIN c.update => Asks(r, c.update[turn]) \in View(r)'
    BY <1>6, <1>8 DEF Page
  <2>4. CASE turn < Len(c.update)
    <3>1. turn \in DOMAIN c.update /\ turn = seen'[r].changed /\ pc'[r] = 11
      BY <1>2, <1>6, <1>8, <2>4
    <3>2. \A i \in 1 .. turn : Asks(r, c.update[i]) \in View(r)'
      BY <1>2, <2>2, <2>3, <3>1
    <3>3. ToChange(r)'
      <4>1. ASSUME NEW i \in UpdateIds(c)
            PROVE  \E row \in View(r)' : /\ row.table = "relationship" /\ row.id = i
                                         /\ row.author = c.author
                                         /\ c.id \in {row.source, row.target}
        <5>1. PICK row \in View(r) : /\ row.table = "relationship" /\ row.id = i
                                     /\ row.author = c.author /\ c.id \in {row.source, row.target}
          BY <1>8, <4>1 DEF Page, ToChange
        <5>2. CASE row \in View(r)'
          BY <5>1, <5>2
        <5>3. CASE row \notin View(r)'
          <6>1. i = c.update[turn].id
            BY <1>6, <1>8, <5>1, <5>3
          <6>2. LET asked == Asks(r, c.update[turn])
                IN  /\ asked.table = "relationship" /\ asked.id = i /\ asked.author = c.author
                    /\ c.id \in {asked.source, asked.target}
            BY <6>1 DEF Asks, RelationshipFrom
          <6>. QED
            BY <2>3, <3>1, <6>2
        <5>. QED
          BY <5>2, <5>3
      <4>. QED
        BY <1>1, <4>1 DEF ToChange
    <3>. QED
      BY <1>1, <2>1, <3>1, <3>2, <3>3 DEF Page
  <2>5. CASE turn >= Len(c.update)
    <3>1. pc'[r] = 12
      BY <1>2, <1>6, <1>8, <2>5
    <3>2. ASSUME NEW i \in DOMAIN c.update
          PROVE  Asks(r, c.update[i]) \in View(r)'
      <4>1. i \in 1 .. seen[r].changed \/ i = turn
        BY <1>2, <2>5
      <4>. QED
        BY <2>2, <2>3, <4>1
    <3>3. \A value \in ToSet(c.update) : Asks(r, value) \in View(r)'
      BY <3>2 DEF ToSet
    <3>. QED
      BY <1>1, <2>1, <3>1, <3>3 DEF Page
  <2>. QED
    BY <1>2, <2>4, <2>5
<1>9. CASE pc[r] \in {12, 13}
  <2>1. ASSUME NEW value \in Values(c)
        PROVE  Asks(r, value) \in View(r)'
    <3>1. Asks(r, value) \in View(r)
      BY <1>9, <2>1 DEF Page, Values
    <3>2. value.id \notin c.delete
      BY <1>3, <2>1 DEF Values, UpdateIds
    <3>. QED
      BY <1>5, <1>6, <1>9, <3>1, <3>2
  <2>. QED
    BY <1>1, <1>6, <1>9, <2>1 DEF Page, Values
<1>. QED
  BY <1>6, <1>7, <1>8, <1>9

\* Whoever steps, a page that nobody overtakes keeps what has been established.
LEMMA PagesStep ==
  ASSUME CrashInv, NoLoops, PagesKept, OneChangeEach, NEW q \in Requests, Handle(q)
  PROVE  PagesKept'
<1>0. /\ RequestInv /\ Sized /\ Shape
      /\ overtaken = [r \in Requests |-> overtaken[r]] /\ outcome = [r \in Requests |-> outcome[r]]
      /\ \A r \in Requests : pc[r] \in 0 .. Len(Program(call[r].op)) + 1 /\ call[r].op \in Operation
  BY DEF CrashInv, RequestInv, GraphInv, RefusedClean, CleanIfRefused, Shape, Call
<1>1. CASE Read(q) \/ Aim(q) \/ WriteRaises(q) \/ WriteBreaks(q) \/ DeadlockVictim(q)
  <2>1. /\ rows' = rows /\ call' = call /\ overtaken' = overtaken
        /\ \A r \in Requests : View(r)' = View(r)
        /\ \A r \in Requests \ {q} : pc'[r] = pc[r] /\ seen'[r] = seen[r] /\ outcome'[r] = outcome[r]
    <3>1. \A r \in Requests \ {q} : seen'[r] = seen[r]
      BY <1>0, <1>1, QuietSteps DEF Quiet, Shape
    <3>. QED
      BY <1>0, <1>1, <3>1, PassesOrRaises DEF Passes, Raises, Shape, View
  <2>2. ASSUME NEW r \in Requests, call[r].op = "update_person", outcome'[r] = "ok", overtaken[r] = {}
        PROVE  Page(r)'
    <3>1. CASE r = q
      <4>1. outcome[q] = "ok"
        BY <1>0, <1>1, <2>2, <3>1, PageReads
      <4>2. Page(q)
        BY <2>2, <3>1, <4>1 DEF PagesKept
      <4>. QED
        BY <1>0, <1>1, <2>2, <3>1, <4>2, PageRead
    <3>2. CASE r # q
      <4>1. Page(r)
        BY <2>1, <2>2, <3>2 DEF PagesKept
      <4>. QED
        BY <2>1, <3>2, <4>1, PageKept
    <3>. QED
      BY <3>1, <3>2
  <2>. QED
    BY <2>1, <2>2 DEF PagesKept
<1>2. CASE Write(q)
  <2>1. /\ call' = call /\ overtaken' = overtaken /\ outcome' = outcome
        /\ \A r \in Requests \ {q} : /\ pc'[r] = pc[r] /\ seen'[r] = seen[r]
                                     /\ View(r)' = View(r)
    <3>1. \A r \in Requests \ {q} : pc'[r] = pc[r] /\ seen'[r] = seen[r]
      BY <1>0, <1>2 DEF Write, AfterWrite, Advance, Remember, Shape
    <3>. QED
      BY <1>0, <1>2, <3>1, WriteViews DEF Write
  <2>2. ASSUME NEW r \in Requests, call[r].op = "update_person", outcome[r] = "ok", overtaken[r] = {}
        PROVE  Page(r)'
    <3>1. Page(r)
      BY <2>2 DEF PagesKept
    <3>2. CASE r = q
      BY <1>0, <1>2, <2>2, <3>1, <3>2, PageWrite
    <3>3. CASE r # q
      BY <2>1, <3>1, <3>3, PageKept
    <3>. QED
      BY <3>2, <3>3
  <2>. QED
    BY <2>1, <2>2 DEF PagesKept
<1>3. CASE Commit(q) \/ RollBack(q)
  <2>1. /\ call' = call /\ seen' = seen /\ outcome' = outcome /\ pc'[q] = 0
        /\ \A r \in Requests \ {q} : pc'[r] = pc[r] /\ plus'[r] = plus[r] /\ minus'[r] = minus[r]
    <3>1. /\ UNCHANGED <<call, seen, outcome>> /\ pc' = [pc EXCEPT ![q] = 0]
          /\ plus' = [plus EXCEPT ![q] = {}] /\ minus' = [minus EXCEPT ![q] = {}]
      BY <1>3 DEF Commit, RollBack, Ends
    <3>. QED
      BY <1>0, <3>1 DEF Shape
  <2>2. /\ \A r \in Requests : overtaken[r] \subseteq overtaken'[r]
        /\ \A r \in Requests \ {q} : pc[r] > 1 /\ overtaken'[r] = {} => rows' = rows
    <3>1. CASE Commit(q)
      <4>1. \A r \in Requests \ {q} : pc[r] > 1 /\ overtaken'[r] = {} => plus[q] = {} /\ minus[q] = {}
        BY <3>1 DEF Commit
      <4>. QED
        BY <3>1, <4>1 DEF Commit, View
    <3>2. CASE RollBack(q)
      BY <3>2 DEF RollBack
    <3>. QED
      BY <1>3, <3>1, <3>2
  <2>3. pc[q] = Len(Program(call[q].op)) + 1
    BY <1>3 DEF Commit, RollBack
  <2>4. ASSUME NEW r \in Requests, call[r].op = "update_person", outcome[r] = "ok", overtaken'[r] = {}
        PROVE  Page(r)'
    <3>1. Page(r)
      BY <2>2, <2>4 DEF PagesKept
    <3>2. \A value : /\ Asks(r, value)' = Asks(r, value)
                    /\ CheckHolds(Asks(r, value))' <=> CheckHolds(Asks(r, value))
      BY <2>1 DEF Asks, CheckHolds
    <3>3. pc[r] \in Nat
      BY <1>0, <2>4, PageProgram
    <3>4. CASE r = q
      <4>1. pc[r] = 19
        <5>. DEFINE len == Len(Program("update_person"))
        <5>1. len = 18
          BY PageProgram
        <5>2. pc[r] = len + 1
          BY <2>3, <2>4, <3>4
        <5>. HIDE DEF len
        <5>. QED
          BY <5>1, <5>2
      <4>2. \A value \in Values(call[r]) : /\ Asks(r, value) \in seen[r].relations
                                          /\ CheckHolds(Asks(r, value))
        BY <3>1, <4>1 DEF Page
      <4>. QED
        BY <2>1, <3>2, <3>4, <4>2 DEF Page
    <3>5. CASE r # q /\ pc[r] > 1
      <4>1. View(r)' = View(r)
        BY <2>1, <2>2, <2>4, <3>5 DEF View
      <4>. QED
        BY <2>1, <3>1, <3>5, <4>1, PageKept
    <3>6. CASE r # q /\ pc[r] = 1
      BY <2>1, <3>1, <3>6 DEF Page
    <3>7. CASE r # q /\ pc[r] = 0
      BY <2>1, <3>1, <3>2, <3>7 DEF Page
    <3>. QED
      BY <3>3, <3>4, <3>5, <3>6, <3>7
  <2>. QED
    BY <2>1, <2>4 DEF PagesKept
<1>. QED
  BY <1>1, <1>2, <1>3 DEF Handle

\* At first no page has come further than its program's first step.
LEMMA PageInit ==
  ASSUME Init
  PROVE  PageInv
<1>1. NoLoops
  BY GraphAssumption DEF Init, NoLoops
<1>2. PagesKept
  BY DEF Init, PagesKept, Page, Unseen
<1>. QED
  BY <1>1, <1>2, CrashInit DEF PageInv

\* Every step of every request keeps what pages have come to.
LEMMA PageStep ==
  ASSUME OneChangeEach, PageInv, [Next]_vars
  PROVE  PageInv'
<1>1. CrashInv'
  BY CrashStep DEF PageInv
<1>2. NoLoops'
  BY LoopsStep DEF PageInv, CrashInv, RequestInv, GraphInv
<1>3. CASE \E q \in Requests : Handle(q)
  BY <1>1, <1>2, <1>3, PagesStep DEF PageInv
<1>4. CASE UNCHANGED vars
  <2>1. \A r \in Requests : View(r)' = View(r)
    BY <1>4 DEF vars, tx, View
  <2>2. ASSUME NEW r \in Requests, Page(r)
        PROVE  Page(r)'
    BY <1>4, <2>1, <2>2, PageKept DEF vars
  <2>3. PagesKept'
    BY <1>4, <2>2 DEF vars, PageInv, PagesKept
  <2>. QED
    BY <1>1, <1>2, <2>3 DEF PageInv
<1>. QED
  BY <1>3, <1>4 DEF Next, AllEnded

\* What is committed is the same seen from either end.
LEMMA EndsShown ==
  ASSUME Shape, NoLoops
  PROVE  ShownFromBothEnds
<1>1. ASSUME NEW row \in rows, row.table = "relationship"
      PROVE  row \in Row /\ CheckHolds(row)
  BY <1>1 DEF Shape, NoLoops
<1>2. ASSUME NEW row \in rows, row.table = "relationship", NEW end \in {row.source, row.target}
      PROVE  RelationshipFrom([id |-> row.id, type |-> row.type, direction |-> DirectionFor(row, end),
                               related |-> RelatedPersonFor(row, end)], end, row.author) = row
  BY <1>1, <1>2, RowAgain
<1>3. ASSUME NEW row \in rows, row.table = "relationship",
             NEW type \in TypesById(rows, {row.type}, row.author)
      PROVE  LabelFor(row, type, row.source) = LabelFor(row, type, row.target) <=> type.symmetric
  <2>1. row.source # row.target
    BY <1>1, <1>3 DEF CheckHolds
  <2>2. type \in TypeRow
    BY <1>3 DEF TypesById, Shape, Row, ItemRow, TagRow, ItemTagRow, RelationshipRow, LinkRow, FileRow
  <2>. QED
    BY <2>1, <2>2 DEF LabelFor, DirectionFor, TypeRow
<1>. QED
  BY <1>2, <1>3 DEF ShownFromBothEnds

\* What a page nobody overtook has been answered is what it asked for.
LEMMA AskedShown ==
  ASSUME Shape, PagesKept
  PROVE  ShownAsAsked
<1>1. ASSUME NEW r \in Requests, pc[r] = 0, outcome[r] = "ok", overtaken[r] = {},
             call[r].op = "update_person", NEW value \in Values(call[r])
      PROVE  \E row \in seen[r].relations :
               /\ row.id = value.id /\ row.type = value.type
               /\ RelatedPersonFor(row, call[r].id) = value.related
               /\ DirectionFor(row, call[r].id) = value.direction
  <2>1. Asks(r, value) \in seen[r].relations /\ CheckHolds(Asks(r, value))
    BY <1>1 DEF PagesKept, Page
  <2>2. value \in Value
    BY <1>1 DEF Shape, Call, Values, ToSet
  <2>. QED
    BY <2>1, <2>2, ValueAgain DEF Asks
<1>. QED
  BY <1>1 DEF ShownAsAsked

\* Whatever requests interleave: the two people of a relationship see the same one from
\* their own ends, and a page that nobody overtook is answered with every relationship it
\* asked for, from the side it asked for.
THEOREM RelationshipsAgree ==
  ASSUME OneChangeEach
  PROVE  Spec => []BothEndsAgree
<1>1. PageInv => BothEndsAgree
  BY EndsShown, AskedShown DEF PageInv, CrashInv, RequestInv, GraphInv, BothEndsAgree
<1>2. PageInv /\ [Next]_vars => PageInv'
  BY PageStep
<1>. QED
  BY <1>1, <1>2, PageInit, PTL DEF Spec

=============================================================================
