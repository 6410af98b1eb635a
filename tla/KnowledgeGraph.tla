---------------------------- MODULE KnowledgeGraph ----------------------------
(***************************************************************************)
(* People, dates, tags, relationship types and what joins them, changed by *)
(* concurrent requests.  Every request runs one use case in a transaction  *)
(* of its own at READ COMMITTED: a program is the order in which the use   *)
(* case awaits its storages, a step of it one statement, and other         *)
(* requests may run between any two.  A statement sees what is committed   *)
(* and what its own transaction wrote, and waits for the rows and the keys *)
(* that another transaction holds.                                         *)
(***************************************************************************)
EXTENDS KnowledgeRows, Sequences, SequencesExt

CONSTANTS Requests,   \* concurrent HTTP calls
          Asked,      \* what they may ask for together; new rows have ids of their own
          InitialRows,
          Delivery    \* whether DatabaseProvider sees a handler's exception

Operation == {"get_person", "list_people", "create_person", "update_person", "delete_person",
              "get_date", "list_dates", "create_date", "update_date", "delete_date", "calendar",
              "create_type", "update_type", "delete_type",
              "create_tag", "update_tag", "delete_tag",
              "upload_attachment", "delete_attachment"}
Value == [id : Ids, related : Ids, direction : Directions, type : Ids]
Call == [op : Operation, author : Authors, id : Ids, tags : SUBSET Ids, create : SUBSET Value,
         update : Seq(Value), delete : SUBSET Ids, people : SUBSET Ids, name : Names,
         symmetric : BOOLEAN, file : Ids]

ASSUME GraphAssumption ==
  /\ Requests \subseteq Stamps
  /\ Asked \subseteq [Requests -> Call]
  /\ InitialRows \subseteq Row
  /\ UNION {References(row) : row \in InitialRows} \subseteq Provided(InitialRows)
  /\ \A a, b \in InitialRows : Clash(a, b) => a = b
  /\ \A row \in InitialRows : CheckHolds(row)

\* A request is finite, and so is the database; new items and types get fresh UUIDs.
ASSUME CallsAssumption ==
  /\ IsFiniteSet(InitialRows)
  /\ \A asked \in Asked : \A r \in Requests :
       LET c == asked[r]
           new == {"create_person", "create_date", "create_type"}
       IN  /\ IsFiniteSet(c.tags) /\ IsFiniteSet(c.people)
           /\ IsFiniteSet(c.create) /\ IsFiniteSet(c.delete)
           /\ c.op \in new =>
                /\ \A row \in InitialRows : row.table \in {"item", "type"} => row.id # c.id
                /\ \A q \in Requests \ {r} : asked[q].op \in new => asked[q].id # c.id

VARIABLES rows,       \* committed rows
          plus, minus,\* rows that each open transaction has written and replaced
          aborted,    \* the server refuses the rest of the transaction
          pc,         \* the step of its program a request is at; 0 when it has ended
          call,       \* what it asks for
          seen,       \* what it has read and still needs
          outcome,    \* how its handler ends
          overtaken   \* rows that other requests changed after its first step

tx == <<plus, minus, aborted>>
vars == <<rows, tx, pc, call, seen, outcome, overtaken>>

Nobody == 0
Unseen == [relations |-> {}, links |-> {}, people |-> {}, dates |-> {}, types |-> {},
           page |-> {}, files |-> {}, done |-> {}, aim |-> Nobody, changed |-> 0]
Refusals == {"not_found", "conflict", "invalid"}
Outcomes == {"ok", "crashed", "deadlocked"} \cup Refusals

----------------------------------------------------------------------------
\* The use cases, as the order of their statements

GetPerson == <<"load", "relations", "names", "date_ids", "date_rows">>
GetDate == <<"load", "links">>
ListPeople == <<"filter_tags", "page", "page_rows", "page_rows">>
ListDates == <<"filter_tags", "filter_person", "page", "page_rows", "page_rows", "page_links",
               "page_names">>

\* CalendarUseCase.get_calendar, with every item in the window
Calendar == <<"month_dates", "month_people", "month_links", "date_rows", "month_names">>

\* KnowledgeItemCrudService.update_item and replace_item_tags
UpdateItem == <<"tags", "item", "untag", "tag">>

\* Mutant: the people at the other ends are not touched.
UpdatePersonUntouched ==
  <<"load", "changes", "people", "types">> \o UpdateItem
    \o <<"types_again", "create", "change", "remove">> \o GetPerson
\* Mutant: the item is written before the changes are validated.
UpdatePersonEager ==
  <<"load">> \o UpdateItem \o <<"changes", "people", "types">>
    \o <<"types_again", "create", "change", "remove", "touch">> \o GetPerson
UpdatePerson ==
  <<"load", "changes", "people", "types">> \o UpdateItem
    \o <<"types_again", "create", "change", "remove", "touch">> \o GetPerson
CreatePerson == <<"insert_item">> \o GetPerson
DeletePerson ==
  <<"load", "neighbours", "date_ids", "files", "remove_files", "delete", "cascade", "touch",
    "touch_dates">>

\* Mutant: the date's people are read after its links are replaced.
UpdateDateLate ==
  <<"load", "people">> \o UpdateItem \o <<"unlink", "link", "links", "touch">> \o GetDate
UpdateDate ==
  <<"load", "links", "people">> \o UpdateItem \o <<"unlink", "link", "touch">> \o GetDate
CreateDate == <<"insert_item">> \o GetDate
DeleteDate == <<"load", "links", "files", "remove_files", "delete", "cascade", "touch">>

CreateType == <<"insert_type">>
UpdateType == <<"load_type", "set_type">>
\* Mutant: whether the type is used is not asked.
DeleteTypeUnasked == <<"load_type", "delete_type">>
DeleteType == <<"load_type", "type_used", "delete_type">>
CreateTag == <<"find_name", "insert_tag">>
UpdateTag == <<"load_tag", "find_name", "set_tag">>
DeleteTag == <<"load_tag", "tag_used", "delete_tag">>

\* The file calls, as far as they meet the rows of items; KnowledgeFiles has the whole of them.
UploadAttachment == <<"find_item", "attach", "touch_item">>
DeleteAttachment == <<"find_item", "find_file", "detach", "touch_item">>

\* What each endpoint runs.
PeopleEndpoint(op) ==
  CASE op = "get_person" -> GetPerson
    [] op = "list_people" -> ListPeople
    [] op = "create_person" -> CreatePerson
    [] op = "update_person" -> UpdatePerson
    [] op = "delete_person" -> DeletePerson

TypesEndpoint(op) ==
  CASE op = "create_type" -> CreateType
    [] op = "update_type" -> UpdateType
    [] op = "delete_type" -> DeleteType

DatesEndpoint(op) ==
  CASE op = "get_date" -> GetDate
    [] op = "list_dates" -> ListDates
    [] op = "create_date" -> CreateDate
    [] op = "update_date" -> UpdateDate
    [] op = "delete_date" -> DeleteDate

FilesEndpoint(op) == IF op = "upload_attachment" THEN UploadAttachment ELSE DeleteAttachment

TagsEndpoint(op) ==
  CASE op = "create_tag" -> CreateTag
    [] op = "update_tag" -> UpdateTag
    [] op = "delete_tag" -> DeleteTag

Programs ==
  [op \in Operation |->
     CASE op = "calendar" -> Calendar
       [] op \in {"get_person", "list_people", "create_person", "update_person", "delete_person"} ->
            PeopleEndpoint(op)
       [] op \in {"get_date", "list_dates", "create_date", "update_date", "delete_date"} ->
            DatesEndpoint(op)
       [] op \in {"create_type", "update_type", "delete_type"} -> TypesEndpoint(op)
       [] op \in {"upload_attachment", "delete_attachment"} -> FilesEndpoint(op)
       [] OTHER -> TagsEndpoint(op)]
Program(op) == Programs[op]

KindOf(op) ==
  IF op \in {"get_date", "update_date", "create_date", "delete_date", "list_dates"}
  THEN "date" ELSE "person"

----------------------------------------------------------------------------
\* A request and its transaction

Running(r) == pc[r] \in 1 .. Len(Program(call[r].op))
Step(r) == IF Running(r) THEN Program(call[r].op)[pc[r]] ELSE "close"
View(r) == (rows \ minus[r]) \cup plus[r]
Values(c) == c.create \cup ToSet(c.update)
RelatedIn(c) == {value.related : value \in Values(c)}
TypesIn(c) == {value.type : value \in Values(c)}
MutatedIn(c) == {value.id : value \in ToSet(c.update)} \cup c.delete
ItemOf(r) == ItemsById(View(r), {call[r].id}, call[r].author, KindOf(call[r].op))

\* The ids that touch_items gets.
TouchedPeople(r) ==
  LET c == call[r]
      mutated == {RelatedPersonFor(row, c.id) : row \in seen[r].relations}
      linked == {row.person : row \in seen[r].links}
  IN  CASE c.op = "update_person" -> RelatedIn(c) \cup mutated
        [] c.op = "delete_person" -> seen[r].people
        [] c.op = "update_date" -> linked \cup c.people
        [] OTHER -> linked

TouchKind(r) == IF Step(r) = "touch" THEN "person" ELSE "date"

\* The rows that a loop, or a statement for many rows, has still to meet.
LeftToMeet(r) ==
  (CASE Step(r) = "touch" -> TouchedPeople(r)
     [] Step(r) = "touch_dates" -> seen[r].dates
     [] OTHER -> seen[r].files) \ seen[r].done

\* What the statement of a step deletes (an update deletes the version it replaces).
Deleted(r) ==
  LET c == call[r]
      s == Step(r)
      view == View(r)
  IN  CASE s = "item" -> ItemOf(r)
        [] s = "delete" -> DeletedItem(view, c.id, c.author, KindOf(c.op))
        [] s = "untag" -> ItemTagsOf(view, {c.id}, c.author)
        [] s = "change" /\ c.update # <<>> ->
             ChangedRelationship(view, c.update[seen[r].changed + 1], c.id, c.author)
        [] s = "remove" -> DeletedRelationships(view, c.delete, c.author)
        [] s = "unlink" -> LinksOfDates(view, {c.id}, c.author)
        [] s \in {"touch", "touch_dates"} ->
             ItemsById(view, {seen[r].aim}, c.author, TouchKind(r))
        [] s = "cascade" ->
             LET there == Provided(view)
             IN  {row \in view : ~(CascadesFrom(row) \subseteq there)}
        [] s = "set_type" -> TypesById(view, {c.id}, c.author)
        [] s = "delete_type" -> DeletedType(view, c.id, c.author)
        [] s = "set_tag" -> TagsById(view, {c.id}, c.author)
        [] s = "delete_tag" -> DeletedTag(view, c.id, c.author)
        [] s = "remove_files" -> FilesById(view, {seen[r].aim}, c.id, c.author)
        [] s = "detach" -> FilesById(view, {c.file}, c.id, c.author)
        [] s = "touch_item" -> AnyItem(view, c.id, c.author)
        [] OTHER -> {}

\* What it inserts.
Inserted(r) ==
  LET c == call[r]
      s == Step(r)
  IN  CASE s \in {"item", "touch", "touch_dates", "touch_item"} -> Stamped(Deleted(r), r)
        [] s = "insert_item" -> {Item(c.id, c.author, KindOf(c.op), r)}
        [] s = "tag" -> {ItemTag(c.id, tag, c.author) : tag \in c.tags}
        [] s = "create" -> {RelationshipFrom(value, c.id, c.author) : value \in c.create}
        [] s = "change" /\ Deleted(r) # {} ->
             {RelationshipFrom(c.update[seen[r].changed + 1], c.id, c.author)}
        [] s = "link" -> {Link(c.id, person, c.author) : person \in c.people}
        [] s = "insert_type" -> {RelationshipType(c.id, c.author, c.symmetric)}
        [] s = "set_type" -> ChangedType(Deleted(r), c.symmetric)
        [] s = "insert_tag" -> {Tag(c.id, c.author, c.name)}
        [] s = "set_tag" -> RenamedTag(Deleted(r), c.name)
        [] s = "attach" -> {File(c.file, c.author, c.id)}
        [] OTHER -> {}

Gone(r) == Provided(Deleted(r)) \ Provided(Inserted(r))

\* The statement has to wait for the other transaction: for a row it has locked, for a
\* unique key it has taken or freed, for a row it refers to, for a row that refers to it.
Waits(r, q) ==
  LET old == Deleted(r)
      new == Inserted(r)
      gone == Gone(r)
  IN  /\ q # r
      /\ \/ old \cap minus[q] # {}
         \/ \E a \in new, b \in plus[q] \cup minus[q] : Clash(a, b)
         \/ \E a \in new : References(a) \cap (Provided(minus[q]) \ Provided(plus[q])) # {}
         \/ \E b \in plus[q] : References(b) \cap gone # {}

\* The constraints hold after the statement.
Keeps(r) ==
  LET new == Inserted(r)
      after == (View(r) \ Deleted(r)) \cup new
      there == Provided(after)
      gone == Gone(r)
  IN  /\ \A a \in new : /\ CheckHolds(a)
                        /\ \A b \in after \ {a} : ~Clash(a, b)
                        /\ References(a) \subseteq there
      /\ \A b \in after : RestrictedBy(b) \cap gone = {}
Breaks(r) == ~Keeps(r)

----------------------------------------------------------------------------
Init ==
  /\ rows = InitialRows
  /\ plus = [r \in Requests |-> {}]
  /\ minus = [r \in Requests |-> {}]
  /\ aborted = [r \in Requests |-> FALSE]
  /\ pc = [r \in Requests |-> 1]
  /\ call \in Asked
  /\ seen = [r \in Requests |-> Unseen]
  /\ outcome = [r \in Requests |-> "ok"]
  /\ overtaken = [r \in Requests |-> {}]

ToClose(r) == pc' = [pc EXCEPT ![r] = Len(Program(call[r].op)) + 1]
Advance(r) == pc' = [pc EXCEPT ![r] = @ + 1]
Remember(r, now) == seen' = [seen EXCEPT ![r] = now]

\* A handler raises: its provider closes the transaction next.
Fail(r, how) ==
  /\ outcome' = [outcome EXCEPT ![r] = how]
  /\ ToClose(r)
  /\ UNCHANGED <<rows, plus, minus, call, seen, overtaken>>

\* A read: what it remembers, and what it refuses with.
Reads(r, now, refused, how) ==
  \/ refused /\ Fail(r, how) /\ UNCHANGED aborted
  \/ ~refused /\ Remember(r, now) /\ Advance(r) /\ UNCHANGED <<rows, tx, call, outcome, overtaken>>

----------------------------------------------------------------------------
\* Reads

Load(r) ==
  /\ Step(r) = "load"
  /\ Reads(r, seen[r], ItemOf(r) = {}, "not_found")

\* Mutant: whose the relationships are is not checked.
CheckChangesCount(r) ==
  LET c == call[r]
      existing == RelationshipsById(View(r), MutatedIn(c), c.author)
  IN  /\ Step(r) = "changes"
      /\ Reads(r, [seen[r] EXCEPT !.relations = existing],
               Cardinality(existing) # Cardinality(MutatedIn(c)), "not_found")

\* validate_relationship_changes: the relationships to change ...
CheckChanges(r) ==
  LET c == call[r]
      existing == RelationshipsById(View(r), MutatedIn(c), c.author)
  IN  /\ Step(r) = "changes"
      /\ Reads(r, [seen[r] EXCEPT !.relations = existing],
               \/ Cardinality(existing) # Cardinality(MutatedIn(c))
               \/ \E row \in existing : c.id \notin {row.source, row.target},
               "not_found")

\* ... the people at the other ends, or those of a date ...
CheckPeople(r) ==
  LET c == call[r]
      ids == IF c.op = "update_person" THEN RelatedIn(c) ELSE c.people
      itself == c.op = "update_person" /\ c.id \in ids
  IN  /\ Step(r) = "people"
      /\ Reads(r, seen[r],
               itself \/ Cardinality(ItemsById(View(r), ids, c.author, "person")) # Cardinality(ids),
               IF itself THEN "invalid" ELSE "not_found")

PairsRepeat(c) ==
  LET keys == {PairKey(RelationshipFrom(value, c.id, c.author)) : value \in Values(c)}
  IN  Cardinality(keys) # Cardinality(Values(c))

\* ... and the types; then no pair may be asked for twice.
CheckTypes(r) ==
  LET c == call[r]
      missing == Cardinality(TypesById(View(r), TypesIn(c), c.author)) # Cardinality(TypesIn(c))
  IN  /\ Step(r) = "types"
      /\ Reads(r, seen[r], missing \/ PairsRepeat(c),
               IF missing THEN "not_found" ELSE "conflict")

CheckTags(r) ==
  LET c == call[r]
  IN  /\ Step(r) \in {"tags", "filter_tags"}
      /\ Reads(r, seen[r], Cardinality(TagsById(View(r), c.tags, c.author)) # Cardinality(c.tags),
               "not_found")

RereadTypes(r) ==
  LET found == TypesById(View(r), TypesIn(call[r]), call[r].author)
  IN  /\ Step(r) = "types_again"
      /\ Reads(r, [seen[r] EXCEPT !.types = {row.id : row \in found}], FALSE, "ok")

ReadRelations(r) ==
  /\ Step(r) = "relations"
  /\ Reads(r, [seen[r] EXCEPT !.relations = RelationshipsOf(View(r), call[r].id, call[r].author)],
           FALSE, "ok")

\* display_names[...] raises KeyError for a person that is gone.
ReadNames(r) ==
  LET ids == {RelatedPersonFor(row, call[r].id) : row \in seen[r].relations}
  IN  /\ Step(r) = "names"
      /\ Reads(r, seen[r],
               Cardinality(ItemsById(View(r), ids, call[r].author, "person")) # Cardinality(ids),
               "crashed")

ReadDateIds(r) ==
  /\ Step(r) = "date_ids"
  /\ Reads(r, [seen[r] EXCEPT !.dates = DateIdsOfPerson(View(r), call[r].id, call[r].author)],
           FALSE, "ok")

ReadDateRows(r) ==
  /\ Step(r) = "date_rows"
  /\ Reads(r, seen[r],
           Cardinality(ItemsById(View(r), seen[r].dates, call[r].author, "date"))
             # Cardinality(seen[r].dates),
           "crashed")

ReadNeighbours(r) ==
  /\ Step(r) = "neighbours"
  /\ Reads(r, [seen[r] EXCEPT !.people = RelatedPersonIds(View(r), call[r].id, call[r].author)],
           FALSE, "ok")

ReadLinks(r) ==
  /\ Step(r) = "links"
  /\ Reads(r, [seen[r] EXCEPT !.links = LinksOfDates(View(r), {call[r].id}, call[r].author)],
           FALSE, "ok")

FilterPerson(r) ==
  /\ Step(r) = "filter_person"
  /\ Reads(r, seen[r],
           Cardinality(ItemsById(View(r), call[r].people, call[r].author, "person"))
             # Cardinality(call[r].people),
           "not_found")

\* A page here is every item the filters let through.
ReadPage(r) ==
  LET c == call[r]
      view == View(r)
      kind == KindOf(c.op)
      matches(row) ==
        /\ row.table = "item" /\ row.kind = kind /\ row.author = c.author
        /\ c.tags \subseteq {tag.id : tag \in TagsOf(view, row.id, c.author)}
        /\ \A p \in c.people : Link(row.id, p, c.author) \in view
  IN  /\ Step(r) = "page"
      /\ Reads(r, [seen[r] EXCEPT !.page = {row.id : row \in {row \in view : matches(row)}}],
               FALSE, "ok")

\* The rows of the page, then those of its details: items_by_id[...], details_by_id[...].
ReadPageRows(r) ==
  /\ Step(r) = "page_rows"
  /\ Reads(r, seen[r],
           Cardinality(ItemsById(View(r), seen[r].page, call[r].author, KindOf(call[r].op)))
             # Cardinality(seen[r].page),
           "crashed")

ReadPageLinks(r) ==
  /\ Step(r) = "page_links"
  /\ Reads(r, [seen[r] EXCEPT !.links = LinksOfDates(View(r), seen[r].page, call[r].author)],
           FALSE, "ok")

ReadPageNames(r) ==
  LET ids == {row.person : row \in seen[r].links}
  IN  /\ Step(r) = "page_names"
      /\ Reads(r, seen[r],
               Cardinality(ItemsById(View(r), ids, call[r].author, "person")) # Cardinality(ids),
               "crashed")

\* list_details_for_months and list_birthday_details_for_months, and who is in them.
MonthOf(r, kind) == {row.id : row \in {row \in View(r) : /\ row.table = "item"
                                                       /\ row.kind = kind
                                                       /\ row.author = call[r].author}}

ReadMonth(r) ==
  \/ /\ Step(r) = "month_dates"
     /\ Reads(r, [seen[r] EXCEPT !.dates = MonthOf(r, "date")], FALSE, "ok")
  \/ /\ Step(r) = "month_people"
     /\ Reads(r, [seen[r] EXCEPT !.people = MonthOf(r, "person")], FALSE, "ok")
  \/ /\ Step(r) = "month_links"
     /\ Reads(r, [seen[r] EXCEPT !.links = LinksOfDates(View(r), seen[r].dates, call[r].author)],
              FALSE, "ok")

\* people_by_id[...] in Calendar.from_sources, for birthdays and for the people of dates.
ReadMonthNames(r) ==
  LET ids == seen[r].people \cup {row.person : row \in seen[r].links}
  IN  /\ Step(r) = "month_names"
      /\ Reads(r, seen[r],
               Cardinality(ItemsById(View(r), ids, call[r].author, "person")) # Cardinality(ids),
               "crashed")

LoadType(r) ==
  /\ Step(r) = "load_type"
  /\ Reads(r, seen[r], TypesById(View(r), {call[r].id}, call[r].author) = {}, "not_found")

LoadTag(r) ==
  /\ Step(r) = "load_tag"
  /\ Reads(r, seen[r], TagsById(View(r), {call[r].id}, call[r].author) = {}, "not_found")

FindName(r) ==
  /\ Step(r) = "find_name"
  /\ Reads(r, seen[r],
           \E tag \in TagsNamed(View(r), call[r].name, call[r].author) : tag.id # call[r].id,
           "conflict")

AskUse(r) ==
  LET c == call[r]
  IN  /\ Step(r) \in {"type_used", "tag_used"}
      /\ Reads(r, seen[r],
               IF Step(r) = "type_used" THEN TypeIsUsed(View(r), c.id, c.author)
                                        ELSE TagIsUsed(View(r), c.id, c.author),
               "conflict")

\* The files of an item that is about to go, and what the file calls look up first.
ListFiles(r) ==
  LET found == FilesOf(View(r), call[r].id, call[r].author)
  IN  /\ Step(r) = "files"
      /\ Reads(r, [seen[r] EXCEPT !.files = {row.id : row \in found}], FALSE, "ok")

FindItem(r) ==
  /\ Step(r) = "find_item"
  /\ Reads(r, seen[r], AnyItem(View(r), call[r].id, call[r].author) = {}, "not_found")

FindFile(r) ==
  LET c == call[r]
  IN  /\ Step(r) = "find_file"
      /\ Reads(r, seen[r], FilesById(View(r), {c.file}, c.id, c.author) = {}, "not_found")

Read(r) ==
  \/ Load(r) \/ CheckChanges(r) \/ CheckPeople(r) \/ CheckTypes(r) \/ CheckTags(r)
  \/ RereadTypes(r) \/ ReadRelations(r) \/ ReadNames(r) \/ ReadDateIds(r) \/ ReadDateRows(r)
  \/ ReadNeighbours(r) \/ ReadLinks(r) \/ FilterPerson(r) \/ ReadPage(r) \/ ReadPageRows(r)
  \/ ReadPageLinks(r) \/ ReadPageNames(r) \/ ReadMonth(r) \/ ReadMonthNames(r)
  \/ LoadType(r) \/ LoadTag(r) \/ FindName(r) \/ AskUse(r)
  \/ ListFiles(r) \/ FindItem(r) \/ FindFile(r)

----------------------------------------------------------------------------
\* Writes

RowByRow == {"touch", "touch_dates", "remove_files"}
Returning == {"item", "delete", "set_type", "set_tag", "delete_type", "delete_tag", "remove_files",
              "detach"}
Writing == Returning \cup RowByRow
             \cup {"untag", "tag", "create", "change", "remove", "unlink", "link", "cascade",
                   "insert_item", "insert_type", "insert_tag", "attach", "touch_item"}
\* The statements whose IntegrityError the storage turns into a conflict.
Caught == {"create", "change", "insert_tag", "set_tag", "attach"}

\* The next row that the UPDATE of touch_items meets, in the planner's order, or the next
\* file that delete_files takes, in that of list_item_files: ids stand for times of creation.
Aim(r) ==
  /\ Step(r) \in RowByRow
  /\ seen[r].aim = Nobody
  /\ IF LeftToMeet(r) = {} THEN Advance(r) /\ UNCHANGED seen
     ELSE /\ \E id \in LeftToMeet(r) :
               /\ Step(r) = "remove_files" => \A other \in LeftToMeet(r) : id <= other
               /\ Remember(r, [seen[r] EXCEPT !.aim = id])
          /\ UNCHANGED pc
  /\ UNCHANGED <<rows, tx, call, outcome, overtaken>>

Ready(r) ==
  /\ Step(r) \in Writing
  /\ Step(r) \in RowByRow => seen[r].aim # Nobody
  /\ \A q \in Requests : ~Waits(r, q)

\* relationship_types[...] raises KeyError for a type that is gone.
TypeIsGone(r) ==
  \/ Step(r) = "create" /\ \E value \in call[r].create : value.type \notin seen[r].types
  \/ /\ Step(r) = "change" /\ call[r].update # <<>>
     /\ call[r].update[seen[r].changed + 1].type \notin seen[r].types

WriteRaises(r) ==
  /\ Ready(r)
  /\ \/ TypeIsGone(r) /\ Fail(r, "crashed")
     \/ Step(r) \in Returning /\ Deleted(r) = {} /\ Fail(r, "not_found")
  /\ UNCHANGED aborted

WriteBreaks(r) ==
  /\ Ready(r)
  /\ ~TypeIsGone(r)
  /\ Breaks(r)
  /\ aborted' = [aborted EXCEPT ![r] = TRUE]
  /\ Fail(r, IF Step(r) \in Caught THEN "conflict" ELSE "crashed")

\* Mutant: the row that was stamped is met again.
AfterWriteForgets(r) ==
  IF Step(r) \in RowByRow THEN Remember(r, [seen[r] EXCEPT !.aim = Nobody]) /\ UNCHANGED pc
  ELSE UNCHANGED seen /\ Advance(r)

\* What is left of a step whose statement runs once for every row or value.
AfterWrite(r) ==
  CASE Step(r) \in RowByRow ->
         /\ Remember(r, [seen[r] EXCEPT !.done = @ \cup {seen[r].aim}, !.aim = Nobody])
         /\ UNCHANGED pc
    [] Step(r) = "change" /\ seen[r].changed + 1 < Len(call[r].update) ->
         Remember(r, [seen[r] EXCEPT !.changed = @ + 1]) /\ UNCHANGED pc
    [] OTHER -> Remember(r, [seen[r] EXCEPT !.done = {}]) /\ Advance(r)

Write(r) ==
  /\ Ready(r)
  /\ ~TypeIsGone(r)
  /\ Step(r) \in Returning => Deleted(r) # {}
  /\ ~Breaks(r)
  /\ plus' = [plus EXCEPT ![r] = (@ \ Deleted(r)) \cup Inserted(r)]
  /\ minus' = [minus EXCEPT ![r] = @ \cup (Deleted(r) \cap rows)]
  /\ AfterWrite(r)
  /\ UNCHANGED <<rows, aborted, call, outcome, overtaken>>

\* deadlock_timeout: of transactions that wait for each other one is aborted.
DeadlockVictim(r) ==
  /\ \E S \in SUBSET Requests :
       r \in S /\ \A p \in S : Step(p) \in Writing /\ \E q \in S : Waits(p, q)
  /\ aborted' = [aborted EXCEPT ![r] = TRUE]
  /\ Fail(r, "deadlocked")

----------------------------------------------------------------------------
\* DatabaseProvider

Ends(r) ==
  /\ plus' = [plus EXCEPT ![r] = {}]
  /\ minus' = [minus EXCEPT ![r] = {}]
  /\ pc' = [pc EXCEPT ![r] = 0]
  /\ UNCHANGED <<aborted, call, seen, outcome>>

\* A handler's exception that is not delivered to the provider does not stop the commit.
Commit(r) ==
  /\ pc[r] = Len(Program(call[r].op)) + 1
  /\ ~aborted[r]
  /\ outcome[r] # "ok" => FALSE \in Delivery
  /\ rows' = View(r)
  /\ overtaken' = [q \in Requests |->
                     IF pc[q] > 1 /\ q # r THEN overtaken[q] \cup plus[r] \cup minus[r]
                                           ELSE overtaken[q]]
  /\ Ends(r)

RollBack(r) ==
  /\ pc[r] = Len(Program(call[r].op)) + 1
  /\ outcome[r] # "ok"
  /\ ~aborted[r] => TRUE \in Delivery
  /\ UNCHANGED <<rows, overtaken>>
  /\ Ends(r)

Handle(r) ==
  \/ Read(r) \/ Aim(r) \/ WriteRaises(r) \/ WriteBreaks(r) \/ Write(r) \/ DeadlockVictim(r)
  \/ Commit(r) \/ RollBack(r)

AllEnded == (\A r \in Requests : pc[r] = 0) /\ UNCHANGED vars

Next == (\E r \in Requests : Handle(r)) \/ AllEnded

Spec == Init /\ [][Next]_vars /\ WF_vars(Next)

----------------------------------------------------------------------------
\* What a call promises when nothing happens in between

Restamped(view, ids, author, stamp) ==
  {IF row.table = "item" /\ row.id \in ids /\ row.author = author
   THEN [row EXCEPT !.stamp = stamp] ELSE row : row \in view}

Without(item) ==
  {row \in rows \ {item} : References(row) \cap Provides(item) = {}}

Promised(r) ==
  LET c == call[r]
      op == c.op
      item == ItemsById(rows, {c.id}, c.author, KindOf(op))
      tagged == {ItemTag(c.id, tag, c.author) : tag \in c.tags}
      untagged == rows \ ItemTagsOf(rows, {c.id}, c.author)
      old == RelationshipsById(rows, MutatedIn(c), c.author)
      new == {RelationshipFrom(value, c.id, c.author) : value \in Values(c)}
      ends == {RelatedPersonFor(row, c.id) : row \in old \cup new}
      joined == LinksOfDates(rows, {c.id}, c.author)
      people == {link.person : link \in joined}
      links == {Link(c.id, person, c.author) : person \in c.people}
  IN  CASE op = "update_person" ->
             Restamped((untagged \ old) \cup tagged \cup new, {c.id} \cup ends, c.author, r)
        [] op = "update_date" ->
             Restamped((untagged \ joined) \cup tagged \cup links,
                       {c.id} \cup people \cup c.people, c.author, r)
        [] op = "delete_person" ->
             Restamped(UNION {Without(row) : row \in item},
                       RelatedPersonIds(rows, c.id, c.author)
                         \cup DateIdsOfPerson(rows, c.id, c.author), c.author, r)
        [] op = "delete_date" ->
             Restamped(UNION {Without(row) : row \in item}, people, c.author, r)
        [] op \in {"create_person", "create_date"} ->
             rows \cup {Item(c.id, c.author, KindOf(op), r)}
        [] op = "upload_attachment" ->
             Restamped(rows \cup {File(c.file, c.author, c.id)}, {c.id}, c.author, r)
        [] op = "delete_attachment" ->
             Restamped(rows \ FilesById(rows, {c.file}, c.id, c.author), {c.id}, c.author, r)
        [] op = "create_type" -> rows \cup {RelationshipType(c.id, c.author, c.symmetric)}
        [] op = "create_tag" -> rows \cup {Tag(c.id, c.author, c.name)}
        [] op \in {"delete_type", "delete_tag"} ->
             {row \in rows : row.table \notin {"type", "tag"} \/ row.id # c.id}
        [] op = "update_type" ->
             {IF row.table = "type" /\ row.id = c.id THEN [row EXCEPT !.symmetric = c.symmetric]
              ELSE row : row \in rows}
        [] op = "update_tag" ->
             {IF row.table = "tag" /\ row.id = c.id THEN [row EXCEPT !.name = c.name]
              ELSE row : row \in rows}
        [] OTHER -> rows

----------------------------------------------------------------------------
\* Properties

\* Every variable keeps to its type; what is committed is a set of rows.
TypeOK ==
  /\ rows \subseteq Row
  /\ plus \in [Requests -> SUBSET Row]
  /\ minus \in [Requests -> SUBSET Row]
  /\ \A r \in Requests : pc[r] \in 0 .. Len(Program(call[r].op)) + 1
  /\ outcome \in [Requests -> Outcomes]

\* However requests interleave, two people are joined once by a type, whichever of them
\* the relationship was added from, and everything a row refers to is there.
PairsOnce ==
  LET relationships == {row \in rows : row.table = "relationship"}
  IN  /\ UNION {References(row) : row \in rows} \subseteq Provided(rows)
      /\ \A a, b \in relationships :
           a.type = b.type /\ {a.source, a.target} = {b.source, b.target} => a = b

\* A call commits changes to its author's rows only, whatever ids it is given, and a page
\* changes or removes a relationship of its own person only.  The ids are checked before the
\* statement: a relationship that another call moved in between is the exception.
OwnRowsOnly ==
  [][\A r \in Requests :
       Commit(r) =>
         \A row \in plus[r] \cup minus[r] :
           /\ row.author = call[r].author
           /\ call[r].op = "update_person" /\ row \in minus[r] /\ row.table = "relationship" =>
                call[r].id \in {row.source, row.target} \/ row \in overtaken[r]]_vars

EndsOf(row) ==
  CASE row.table = "relationship" -> {row.source, row.target}
    [] row.table = "link" -> {row.date, row.person}
    [] row.table = "file" -> {row.item}
    [] OTHER -> {}

\* Everything that a committed call joined or parted, the item of a file included, and that
\* still exists, carries the call's time in updated_at, unless another call changed the
\* joining row meanwhile.
NeighboursStamped ==
  [][\A r \in Requests :
       Commit(r) /\ outcome[r] = "ok" =>
         \A row \in (plus[r] \cup minus[r]) \ overtaken[r] :
           \A item \in rows' :
             item.table = "item" /\ item.id \in EndsOf(row) => item.stamp = r]_vars

\* A call answers 500 only if another call changed the graph under it, or it was chosen
\* to break a deadlock: every other dead end is a 4xx.
CrashesExplained ==
  \A r \in Requests : outcome[r] = "crashed" => overtaken[r] # {}

\* A call that is refused with a 4xx leaves nothing behind, even where the provider commits
\* because the exception never reaches it.  Only the deletion of an item, one of whose files
\* another call deleted meanwhile, may have deleted files of that item before it is refused.
RefusalsKeepTheRest ==
  [][\A r \in Requests :
       Commit(r) /\ outcome[r] \in Refusals =>
         \/ rows' = rows
         \/ /\ call[r].op \in {"delete_person", "delete_date"}
            /\ rows' \subseteq rows
            /\ rows \ rows' = FilesOf(rows \ rows', call[r].id, call[r].author)
            /\ FilesOf(overtaken[r], call[r].id, call[r].author) # {}]_vars

\* Step by step, a use case that nothing happened to does what it promises as a whole.
UndisturbedAsPromised ==
  [][\A r \in Requests :
       Commit(r) /\ outcome[r] = "ok" /\ overtaken[r] = {} => rows' = Promised(r)]_vars

\* The two people of a relationship see it from their own ends: what one is shown, sent
\* back, writes the same row, and the two labels differ unless the type is symmetric.
ShownFromBothEnds ==
  \A row \in {row \in rows : row.table = "relationship"} :
    /\ \A end \in {row.source, row.target} :
         RelationshipFrom([id |-> row.id, type |-> row.type, direction |-> DirectionFor(row, end),
                           related |-> RelatedPersonFor(row, end)], end, row.author) = row
    /\ \A type \in TypesById(rows, {row.type}, row.author) :
         LabelFor(row, type, row.source) = LabelFor(row, type, row.target) <=> type.symmetric

\* The page answered to an update nobody disturbed shows every relationship it asked for,
\* from the side it asked for.
ShownAsAsked ==
  \A r \in Requests :
    pc[r] = 0 /\ outcome[r] = "ok" /\ overtaken[r] = {} /\ call[r].op = "update_person" =>
      \A value \in Values(call[r]) :
        \E row \in seen[r].relations :
          /\ row.id = value.id /\ row.type = value.type
          /\ RelatedPersonFor(row, call[r].id) = value.related
          /\ DirectionFor(row, call[r].id) = value.direction

\* Whichever of its people a relationship is added from or read from, both see the same one.
BothEndsAgree == ShownFromBothEnds /\ ShownAsAsked

\* Every call is answered: none waits for ever for the locks of others.
EveryCallEnds == <>(\A r \in Requests : pc[r] = 0)

=============================================================================
