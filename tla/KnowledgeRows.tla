---------------------------- MODULE KnowledgeRows ----------------------------
(***************************************************************************)
(* The tables of the knowledge graph, the constraints PostgreSQL keeps on  *)
(* them, and the statements of the storages.  A view is the set of rows a  *)
(* statement sees.  Identifiers are 32-digit hex strings compared as       *)
(* strings: natural numbers.  The row of a person or a date in its details *)
(* table is created in the transaction that creates the item's row and     *)
(* goes with it, so the two are one row here.  Texts are left out, but for *)
(* the name of a tag, which stands for its lower-case form.                *)
(***************************************************************************)
EXTENDS Naturals, FiniteSets

CONSTANTS Ids,        \* identifiers of rows
          Authors,    \* values of author_username
          Names,      \* lower-case names of tags
          Stamps      \* who last set updated_at

ASSUME IdsAreOrdered == Ids \subseteq Nat

----------------------------------------------------------------------------
\* Rows

Kinds == {"person", "date"}
Directions == {"forward", "reverse"}

ItemRow == [table: {"item"}, id: Ids, author: Authors, kind: Kinds, stamp: Stamps]
TagRow == [table: {"tag"}, id: Ids, author: Authors, name: Names]
ItemTagRow == [table: {"item_tag"}, item: Ids, tag: Ids, author: Authors]
TypeRow == [table: {"type"}, id: Ids, author: Authors, symmetric: BOOLEAN]
RelationshipRow == [table: {"relationship"}, id: Ids, author: Authors,
                    source: Ids, target: Ids, type: Ids]
LinkRow == [table: {"link"}, date: Ids, person: Ids, author: Authors]
\* The row that joins a file to its item and the file's own come and go together.
FileRow == [table: {"file"}, id: Ids, author: Authors, item: Ids]

Row == ItemRow \cup TagRow \cup ItemTagRow \cup TypeRow \cup RelationshipRow \cup LinkRow
         \cup FileRow

Item(id, author, kind, stamp) ==
  [table |-> "item", id |-> id, author |-> author, kind |-> kind, stamp |-> stamp]
Tag(id, author, name) == [table |-> "tag", id |-> id, author |-> author, name |-> name]
ItemTag(item, tag, author) ==
  [table |-> "item_tag", item |-> item, tag |-> tag, author |-> author]
RelationshipType(id, author, symmetric) ==
  [table |-> "type", id |-> id, author |-> author, symmetric |-> symmetric]
Link(date, person, author) ==
  [table |-> "link", date |-> date, person |-> person, author |-> author]
File(id, author, item) == [table |-> "file", id |-> id, author |-> author, item |-> item]

----------------------------------------------------------------------------
\* Constraints

Key(table, id, author) == [table |-> table, id |-> id, author |-> author]

\* The composite keys other rows may refer to.
Provides(row) ==
  CASE row.table = "item" -> {Key("item", row.id, row.author), Key(row.kind, row.id, row.author)}
    [] row.table \in {"tag", "type"} -> {Key(row.table, row.id, row.author)}
    [] OTHER -> {}

\* What a row refers to ON DELETE CASCADE ...
CascadesFrom(row) ==
  CASE row.table = "relationship" -> {Key("person", row.source, row.author),
                                      Key("person", row.target, row.author)}
    [] row.table = "link" -> {Key("date", row.date, row.author),
                              Key("person", row.person, row.author)}
    [] row.table = "item_tag" -> {Key("item", row.item, row.author)}
    [] OTHER -> {}

\* ... and ON DELETE RESTRICT.
RestrictedBy(row) ==
  CASE row.table = "relationship" -> {Key("type", row.type, row.author)}
    [] row.table = "item_tag" -> {Key("tag", row.tag, row.author)}
    [] row.table = "file" -> {Key("item", row.item, row.author)}
    [] OTHER -> {}

References(row) == CascadesFrom(row) \cup RestrictedBy(row)

Provided(view) == UNION {Provides(row) : row \in view}

Least(a, b) == IF a < b THEN a ELSE b
Greatest(a, b) == IF a < b THEN b ELSE a

\* The unordered pair and the type that the unique index of relationships compares.
PairKey(row) == <<row.author, Least(row.source, row.target), Greatest(row.source, row.target),
                  row.type>>

\* Mutant: the unique index compares source and target as they are stored.
ClashOfOrderedPairs(a, b) ==
  /\ a.table = b.table
  /\ \/ a.table \in {"item", "tag", "type", "relationship", "file"} /\ a.id = b.id
     \/ a.table = "item_tag" /\ a.item = b.item /\ a.tag = b.tag
     \/ a.table = "link" /\ a.date = b.date /\ a.person = b.person
     \/ a.table = "tag" /\ a.author = b.author /\ a.name = b.name
     \/ a.table = "relationship" /\ <<a.source, a.target, a.type>> = <<b.source, b.target, b.type>>

\* Two rows that some primary key or unique index does not let stand together.
Clash(a, b) ==
  /\ a.table = b.table
  /\ \/ a.table \in {"item", "tag", "type", "relationship", "file"} /\ a.id = b.id
     \/ a.table = "item_tag" /\ a.item = b.item /\ a.tag = b.tag
     \/ a.table = "link" /\ a.date = b.date /\ a.person = b.person
     \/ a.table = "tag" /\ a.author = b.author /\ a.name = b.name
     \/ a.table = "relationship" /\ PairKey(a) = PairKey(b)

\* The check constraint of one row.
CheckHolds(row) == row.table = "relationship" => row.source # row.target

----------------------------------------------------------------------------
\* Statements of KnowledgeItemsDatabaseStorage

ItemsById(view, ids, author, kind) ==
  {row \in view : /\ row.table = "item"
                  /\ row.id \in ids
                  /\ row.author = author
                  /\ row.kind = kind}

\* get_item_for_author, which takes an item of any kind.
AnyItem(view, id, author) ==
  {row \in view : row.table = "item" /\ row.id = id /\ row.author = author}

\* update_item and touch_items, as far as updated_at goes.
Stamped(found, stamp) == {[row EXCEPT !.stamp = stamp] : row \in found}

DeletedItem(view, id, author, kind) == ItemsById(view, {id}, author, kind)

TagsById(view, ids, author) ==
  {row \in view : row.table = "tag" /\ row.id \in ids /\ row.author = author}

TagsNamed(view, name, author) ==
  {row \in view : row.table = "tag" /\ row.name = name /\ row.author = author}

ItemTagsOf(view, items, author) ==
  {row \in view : row.table = "item_tag" /\ row.item \in items /\ row.author = author}

RenamedTag(found, name) == {[row EXCEPT !.name = name] : row \in found}

DeletedTag(view, id, author) == TagsById(view, {id}, author)

TagIsUsed(view, tag, author) ==
  \E row \in view : row.table = "item_tag" /\ row.tag = tag /\ row.author = author

\* load_item_tags: the tags of an item, through a join on both parts of the key.
TagsOf(view, item, author) ==
  UNION {TagsById(view, {row.tag}, row.author) : row \in ItemTagsOf(view, {item}, author)}

----------------------------------------------------------------------------
\* Statements of PeopleDatabaseStorage

TypesById(view, ids, author) ==
  {row \in view : row.table = "type" /\ row.id \in ids /\ row.author = author}

HasType(view, row) == TypesById(view, {row.type}, row.author) # {}

RelationshipsById(view, ids, author) ==
  {row \in view : /\ row.table = "relationship"
                  /\ row.id \in ids
                  /\ row.author = author
                  /\ HasType(view, row)}

RelationshipsOf(view, person, author) ==
  {row \in view : /\ row.table = "relationship"
                  /\ row.author = author
                  /\ person \in {row.source, row.target}
                  /\ HasType(view, row)}

RelatedPersonIds(view, person, author) ==
  LET ends == {<<row.source, row.target>> :
                 row \in {row \in view : /\ row.table = "relationship"
                                         /\ row.author = author
                                         /\ person \in {row.source, row.target}}}
  IN  {IF end[1] = person THEN end[2] ELSE end[1] : end \in ends}

ChangedRelationship(view, value, person, author) ==
  {row \in RelationshipsOf(view, person, author) : row.id = value.id}

DeletedRelationships(view, ids, author) ==
  {row \in view : row.table = "relationship" /\ row.id \in ids /\ row.author = author}

ChangedType(found, symmetric) == {[row EXCEPT !.symmetric = symmetric] : row \in found}

DeletedType(view, id, author) == TypesById(view, {id}, author)

TypeIsUsed(view, type, author) ==
  \E row \in view : row.table = "relationship" /\ row.type = type /\ row.author = author

----------------------------------------------------------------------------
\* Statements of KnowledgeDatesDatabaseStorage

LinksOfDates(view, dates, author) ==
  {row \in view : row.table = "link" /\ row.date \in dates /\ row.author = author}

DateIdsOfPerson(view, person, author) ==
  {row.date : row \in {row \in view : /\ row.table = "link"
                                      /\ row.person = person
                                      /\ row.author = author
                                      /\ ItemsById(view, {row.date}, row.author, "date") # {}}}

----------------------------------------------------------------------------
\* Statements of KnowledgeFilesDatabaseStorage

FilesOf(view, item, author) ==
  {row \in view : row.table = "file" /\ row.item = item /\ row.author = author}

FilesById(view, ids, item, author) == {row \in FilesOf(view, item, author) : row.id \in ids}

----------------------------------------------------------------------------
\* A relationship seen from one of its ends (PersonRelationship)

RelatedPersonFor(row, person) == IF person = row.source THEN row.target ELSE row.source

\* Mutant: the direction is that of the other end.
DirectionForOther(row, person) == IF person = row.target THEN "forward" ELSE "reverse"

DirectionFor(row, person) == IF person = row.source THEN "forward" ELSE "reverse"

\* Which of the two names of the type the end is shown.
LabelFor(row, type, person) ==
  IF type.symmetric \/ DirectionFor(row, person) = "forward" THEN "forward_name" ELSE "reverse_name"

\* The row that create_relationships and update_relationships write for a person's value.
RelationshipFrom(value, person, author) ==
  LET source == IF value.direction = "reverse" THEN value.related ELSE person
      target == IF value.direction = "reverse" THEN person ELSE value.related
  IN  [table |-> "relationship", id |-> value.id, author |-> author,
       source |-> source, target |-> target, type |-> value.type]

=============================================================================
