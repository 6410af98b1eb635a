----------------------------- MODULE SqlMigrations -----------------------------
(***************************************************************************)
(* The migration that creates the database of SqlModels and takes it back, *)
(* statement by statement in the one transaction alembic runs it in, with  *)
(* the process stopping anywhere.                                          *)
(***************************************************************************)
EXTENDS Naturals, Sequences, FiniteSets, SequencesExt, SqlModels

VARIABLES schema,    \* committed: tables, enum types, extensions and the version of alembic
          work,      \* what the transaction sees
          running,   \* "upgrade", "downgrade" or "none"
          statement, \* the next statement of it
          failed     \* whether a statement failed
vars == <<schema, work, running, statement, failed>>

----------------------------------------------------------------------------
\* Statements

Extension(name) == [op |-> "extension", name |-> name]
CreateTable(name, columns, keys, refs, checks) ==
  [op |-> "create_table", name |-> name,
   table |-> [columns |-> columns, keys |-> keys, refs |-> refs, checks |-> checks, indexes |-> << >>]]
CreateIndex(table, name, kind, columns) ==
  [op |-> "create_index", table |-> table, name |-> name, index |-> Index(kind, columns)]
DropIndex(table, name) == [op |-> "drop_index", table |-> table, name |-> name]
DropTable(name) == [op |-> "drop_table", name |-> name]
DropEnum(name) == [op |-> "drop_enum", name |-> name]

Tables(s) == DOMAIN s.tables
IndexNames(s) == UNION {DOMAIN s.tables[t].indexes : t \in Tables(s)}

\* A foreign key needs its table and a key of exactly its columns there.
Referable(s, ref, table) ==
  /\ ref[2] \in Tables(s) /\ ref[3] \in s.tables[ref[2]].keys
  /\ \A i \in DOMAIN ref[1] :
       table.columns[ref[1][i]] = s.tables[ref[2]].columns[ref[3][i]]

Referenced(s, name) == \E t \in Tables(s) \ {name} : \E ref \in s.tables[t].refs : ref[2] = name

Runs(s, st) ==
  CASE st.op = "extension" -> TRUE
    [] st.op = "create_table" ->
         /\ st.name \notin Tables(s)
         /\ EnumsOf(st.table) \cap s.enums = {}
         /\ \A ref \in st.table.refs : Referable(s, ref, st.table)
    [] st.op = "create_index" ->
         /\ st.table \in Tables(s) /\ st.name \notin IndexNames(s)
         /\ st.index.kind = "gin" => "pg_trgm" \in s.extensions
    [] st.op = "drop_index" -> st.table \in Tables(s) /\ st.name \in DOMAIN s.tables[st.table].indexes
    [] st.op = "drop_table" -> st.name \in Tables(s) /\ ~Referenced(s, st.name)
    [] st.op = "drop_enum" -> \A t \in Tables(s) : st.name \notin EnumsOf(s.tables[t])

Without(f, name) == [x \in DOMAIN f \ {name} |-> f[x]]

After(s, st) ==
  CASE st.op = "extension" -> [s EXCEPT !.extensions = @ \cup {st.name}]
    [] st.op = "create_table" ->
         [s EXCEPT !.tables = (st.name :> st.table) @@ @, !.enums = @ \cup EnumsOf(st.table)]
    [] st.op = "create_index" ->
         [s EXCEPT !.tables[st.table].indexes = (st.name :> st.index) @@ @]
    [] st.op = "drop_index" -> [s EXCEPT !.tables[st.table].indexes = Without(@, st.name)]
    [] st.op = "drop_table" -> [s EXCEPT !.tables = Without(@, st.name)]
    [] st.op = "drop_enum" -> [s EXCEPT !.enums = @ \ {st.name}]

----------------------------------------------------------------------------
\* upgrade()

RowColumns == [id |-> "char32", created_at |-> "time", updated_at |-> "time"]
ItemRef(action) ==
  <<<<"item_id", "author_username">>, "knowledge_item", <<"id", "author_username">>, action>>

CreateFiles ==
  <<CreateTable("file",
      RowColumns @@ [purpose |-> "file_purpose_enum", namespace |-> "char63",
        relative_path |-> "char2048", mime_type |-> "char255", size_bytes |-> "int",
        name |-> "char255", original_name |-> "char255", original_sha256 |-> "char64?",
        orphaned_at |-> "time?"],
      {<<"id">>, <<"namespace", "relative_path">>}, {},
      {"name_trimmed_nonblank", "original_sha256_length", "original_name_trimmed_nonblank",
       "size_non_negative"}),
    CreateIndex("file", "namespace_orphaned_id", "where_orphaned", <<"namespace", "orphaned_at", "id">>),
    CreateIndex("file", "namespace_purpose_original_sha256", "plain",
                <<"namespace", "purpose", "original_sha256">>),
    CreateIndex("file", "purpose_created_id", "plain", <<"purpose", "created_at", "id">>)>>

CreateItems ==
  <<CreateTable("knowledge_item",
      RowColumns @@ [kind |-> "knowledge_item_kind_enum", author_username |-> "char255",
        display_name |-> "char255", description |-> "text"],
      {<<"id">>, <<"id", "author_username">>}, {}, {"description_length"}),
    CreateIndex("knowledge_item", "items_name", "plain",
                <<"author_username", "kind", "display_name", "id">>),
    CreateIndex("knowledge_item", "items_updated", "plain",
                <<"author_username", "kind", "updated_at", "id">>),
    CreateIndex("knowledge_item", "items_name_trgm", "gin", <<"display_name">>)>>

CreateTags ==
  <<CreateTable("knowledge_tag", RowColumns @@ [author_username |-> "char255", name |-> "char255"],
      {<<"id">>, <<"id", "author_username">>}, {}, {}),
    CreateIndex("knowledge_tag", "tags_name", "plain", <<"author_username", "name", "id">>),
    CreateIndex("knowledge_tag", "tags_name_uniq", "unique", <<"author_username", "name">>),
    CreateIndex("knowledge_tag", "tags_name_trgm", "gin", <<"name">>)>>

CreateTypes ==
  <<CreateTable("person_relationship_type",
      RowColumns @@ [author_username |-> "char255", is_symmetric |-> "bool",
        forward_name |-> "char255", reverse_name |-> "char255"],
      {<<"id">>, <<"id", "author_username">>}, {}, {"names"}),
    CreateIndex("person_relationship_type", "types_name", "plain",
                <<"author_username", "forward_name", "id">>)>>

CreateResumes ==
  <<CreateTable("resume",
      RowColumns @@ [title |-> "char255", language |-> "language_enum",
        author_username |-> "char255", content |-> "jsonb"],
      {<<"id">>}, {}, {}),
    CreateIndex("resume", "resumes_updated", "plain", <<"author_username", "updated_at", "id">>)>>

CreateDates ==
  <<CreateTable("date_details",
      [item_id |-> "char32", author_username |-> "char255", day |-> "int", month |-> "int",
       year |-> "int?"],
      {<<"item_id">>, <<"item_id", "author_username">>}, {ItemRef("CASCADE")}, {"calendar"}),
    CreateIndex("date_details", "dates_calendar", "plain",
                <<"author_username", "month", "day", "item_id">>)>>

CreateItemFiles ==
  <<CreateTable("knowledge_item_file",
      [file_id |-> "char32", item_id |-> "char32", author_username |-> "char255",
       kind |-> "knowledge_file_kind_enum", processing |-> "knowledge_file_processing_enum"],
      {<<"file_id">>}, {<<<<"file_id">>, "file", <<"id">>, "RESTRICT">>, ItemRef("RESTRICT")}, {}),
    CreateIndex("knowledge_item_file", "item_files_item", "plain",
                <<"author_username", "item_id", "kind", "file_id">>),
    CreateIndex("knowledge_item_file", "item_files_one_photo", "unique_where_photo",
                <<"author_username", "item_id">>)>>

CreateItemTags ==
  <<CreateTable("knowledge_item_tag",
      [item_id |-> "char32", tag_id |-> "char32", author_username |-> "char255",
       created_at |-> "time", updated_at |-> "time"],
      {<<"item_id", "tag_id">>},
      {ItemRef("CASCADE"),
       <<<<"tag_id", "author_username">>, "knowledge_tag", <<"id", "author_username">>, "RESTRICT">>},
      {}),
    CreateIndex("knowledge_item_tag", "item_tags_tag", "plain",
                <<"author_username", "tag_id", "item_id">>)>>

CreatePeople ==
  <<CreateTable("person_details",
      [item_id |-> "char32", author_username |-> "char255", last_name |-> "char255",
       first_name |-> "char255", middle_name |-> "char255", email |-> "char320",
       phone |-> "char64", telegram |-> "char255", birthday_day |-> "int?",
       birthday_month |-> "int?", birthday_year |-> "int?"],
      {<<"item_id">>, <<"item_id", "author_username">>}, {ItemRef("CASCADE")},
      {"birthday", "required_names"}),
    CreateIndex("person_details", "person_birthday", "plain",
                <<"author_username", "birthday_month", "birthday_day", "item_id">>),
    CreateIndex("person_details", "person_email", "plain", <<"author_username", "email", "item_id">>),
    CreateIndex("person_details", "person_name", "plain",
                <<"author_username", "last_name", "first_name", "item_id">>),
    CreateIndex("person_details", "email_trgm", "gin", <<"email">>),
    CreateIndex("person_details", "first_name_trgm", "gin", <<"first_name">>),
    CreateIndex("person_details", "last_name_trgm", "gin", <<"last_name">>),
    CreateIndex("person_details", "middle_name_trgm", "gin", <<"middle_name">>)>>

CreateLinks ==
  <<CreateTable("date_person",
      [date_item_id |-> "char32", person_item_id |-> "char32", author_username |-> "char255"],
      {<<"date_item_id", "person_item_id">>},
      {<<<<"date_item_id", "author_username">>, "date_details", <<"item_id", "author_username">>, "CASCADE">>,
       <<<<"person_item_id", "author_username">>, "person_details", <<"item_id", "author_username">>, "CASCADE">>},
      {}),
    CreateIndex("date_person", "links_date", "plain", <<"author_username", "date_item_id", "person_item_id">>),
    CreateIndex("date_person", "links_person", "plain", <<"author_username", "person_item_id", "date_item_id">>)>>

\* The table of relationships, and what the deletion of a type does to those that have it.
CreateRelationshipsWith(action) ==
  <<CreateTable("person_relationship",
      RowColumns @@ [author_username |-> "char255", source_person_id |-> "char32",
        target_person_id |-> "char32", relationship_type_id |-> "char32", note |-> "text"],
      {<<"id">>},
      {<<<<"relationship_type_id", "author_username">>, "person_relationship_type", <<"id", "author_username">>, action>>,
       <<<<"source_person_id", "author_username">>, "person_details", <<"item_id", "author_username">>, "CASCADE">>,
       <<<<"target_person_id", "author_username">>, "person_details", <<"item_id", "author_username">>, "CASCADE">>},
      {"note_length", "not_self"}),
    CreateIndex("person_relationship", "relationships_pair_type_uniq", "unique",
                <<"author_username", "least", "greatest", "relationship_type_id">>),
    CreateIndex("person_relationship", "relationships_source", "plain",
                <<"author_username", "source_person_id", "id">>),
    CreateIndex("person_relationship", "relationships_target", "plain",
                <<"author_username", "target_person_id", "id">>),
    CreateIndex("person_relationship", "relationships_type", "plain",
                <<"author_username", "relationship_type_id", "id">>)>>

\* Mutant: the type of a relationship is deleted under it.
CreateRelationshipsCascading == CreateRelationshipsWith("CASCADE")
CreateRelationships == CreateRelationshipsWith("RESTRICT")

Upgrade ==
  <<Extension("pg_trgm")>> \o CreateFiles \o CreateItems \o CreateTags \o CreateTypes \o CreateResumes
    \o CreateDates \o CreateItemFiles \o CreateItemTags \o CreatePeople \o CreateLinks
    \o CreateRelationships

----------------------------------------------------------------------------
\* downgrade(): a table goes after its indexes, the last created first.

DropWith(table, indexes) == [i \in DOMAIN indexes |-> DropIndex(table, indexes[i])] \o <<DropTable(table)>>

DropTables ==
  DropWith("person_relationship", <<"relationships_type", "relationships_target",
                                    "relationships_source", "relationships_pair_type_uniq">>)
    \o DropWith("date_person", <<"links_person", "links_date">>)
    \o DropWith("person_details", <<"middle_name_trgm", "last_name_trgm", "first_name_trgm", "email_trgm",
                                    "person_name", "person_email", "person_birthday">>)
    \o DropWith("knowledge_item_tag", <<"item_tags_tag">>)
    \o DropWith("knowledge_item_file", <<"item_files_one_photo", "item_files_item">>)
    \o DropWith("date_details", <<"dates_calendar">>)
    \o DropWith("resume", <<"resumes_updated">>)
    \o DropWith("person_relationship_type", <<"types_name">>)
    \o DropWith("knowledge_tag", <<"tags_name_trgm", "tags_name_uniq", "tags_name">>)
    \o DropWith("knowledge_item", <<"items_name_trgm", "items_updated", "items_name">>)
    \o DropWith("file", <<"purpose_created_id", "namespace_purpose_original_sha256", "namespace_orphaned_id">>)

DropEnums(names) == [i \in DOMAIN names |-> DropEnum(names[i])]

Downgrade ==
  DropTables \o DropEnums(<<"language_enum", "knowledge_file_kind_enum", "knowledge_file_processing_enum",
                            "knowledge_item_kind_enum", "file_purpose_enum">>)

----------------------------------------------------------------------------
\* alembic

Base == [tables |-> << >>, enums |-> {}, extensions |-> {}, version |-> "base"]
Program == IF running = "upgrade" THEN Upgrade ELSE Downgrade

Init ==
  /\ schema = Base /\ work = Base
  /\ running = "none" /\ statement = 1 /\ failed = FALSE

\* upgrade head and downgrade base; a version already there has nothing to run.
Begin ==
  /\ running = "none"
  /\ running' = (IF schema.version = "base" THEN "upgrade" ELSE "downgrade")
  /\ work' = schema /\ statement' = 1
  /\ UNCHANGED <<schema, failed>>

\* A statement that fails ends the transaction and the process.
RunStatement ==
  /\ running # "none" /\ statement <= Len(Program)
  /\ failed' = ~Runs(work, Program[statement])
  /\ work' = (IF failed' THEN schema ELSE After(work, Program[statement]))
  /\ running' = (IF failed' THEN "none" ELSE running)
  /\ statement' = statement + 1
  /\ UNCHANGED schema

\* context.begin_transaction() holds the statements and the row of the version.
Commit ==
  /\ running # "none" /\ statement > Len(Program)
  /\ schema' = [work EXCEPT !.version = IF running = "upgrade" THEN "0001" ELSE "base"]
  /\ work' = schema' /\ running' = "none"
  /\ UNCHANGED <<statement, failed>>

Crash ==
  /\ running # "none"
  /\ running' = "none" /\ work' = schema
  /\ UNCHANGED <<schema, statement, failed>>

Next == Begin \/ RunStatement \/ Commit \/ Crash
Spec == Init /\ [][Next]_vars

----------------------------------------------------------------------------
\* Properties

\* Every statement finds what it needs: the tables, unique keys of the same types and the
\* extension it refers to, nothing left that refers to what it drops, no name taken, also
\* after the migration was taken back or cut short.
StatementsRun == ~failed

\* Whatever the process does, the version tells which of two states the database is in: exactly
\* the one the program declares, in its tables, columns, types, keys, what a deletion does to
\* rows that refer, checks and indexes, or empty but for the extension.
MigratedAsDeclared ==
  /\ StatementsRun
  /\ schema.version = "base" => schema.tables = << >> /\ schema.enums = {}
  /\ schema.version = "0001" =>
       schema.tables = Models /\ schema.enums = UNION {EnumsOf(Models[t]) : t \in DOMAIN Models}
=============================================================================
