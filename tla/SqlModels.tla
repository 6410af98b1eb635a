------------------------------- MODULE SqlModels -------------------------------
(***************************************************************************)
(* The tables the program declares and expects in its database.  A table   *)
(* is its columns with their types, the column sets that are unique, its   *)
(* foreign keys <<columns, table, columns there, on delete>>, the names of *)
(* its checks and its indexes.  Expressions and orders inside an index and *)
(* the text of a check are left out; a column that may be null has a type  *)
(* ending in "?".                                                          *)
(***************************************************************************)
EXTENDS Sequences, TLC

\* HexUuidIDMixin and AuditMixin.
Identified == [id |-> "char32"]
Audited == [created_at |-> "time", updated_at |-> "time"]

Index(kind, columns) == [kind |-> kind, columns |-> columns]
ToItem(column, action) ==
  <<<<column, "author_username">>, "knowledge_item", <<"id", "author_username">>, action>>
ToDetails(column, table) ==
  <<<<column, "author_username">>, table, <<"item_id", "author_username">>, "CASCADE">>

FileModel ==
  [columns |-> Identified @@ Audited @@
     [purpose |-> "file_purpose_enum", namespace |-> "char63", relative_path |-> "char2048",
      mime_type |-> "char255", size_bytes |-> "int", name |-> "char255", original_name |-> "char255",
      original_sha256 |-> "char64?", orphaned_at |-> "time?"],
   keys |-> {<<"id">>, <<"namespace", "relative_path">>},
   refs |-> {},
   checks |-> {"size_non_negative", "name_trimmed_nonblank", "original_name_trimmed_nonblank",
               "original_sha256_length"},
   indexes |-> [purpose_created_id |-> Index("plain", <<"purpose", "created_at", "id">>),
                namespace_purpose_original_sha256 |->
                  Index("plain", <<"namespace", "purpose", "original_sha256">>),
                namespace_orphaned_id |-> Index("where_orphaned", <<"namespace", "orphaned_at", "id">>)]]

KnowledgeItemModel ==
  [columns |-> Identified @@ Audited @@
     [kind |-> "knowledge_item_kind_enum", author_username |-> "char255",
      display_name |-> "char255", description |-> "text"],
   keys |-> {<<"id">>, <<"id", "author_username">>},
   refs |-> {},
   checks |-> {"description_length"},
   indexes |-> [items_updated |-> Index("plain", <<"author_username", "kind", "updated_at", "id">>),
                items_name |-> Index("plain", <<"author_username", "kind", "display_name", "id">>),
                items_name_trgm |-> Index("gin", <<"display_name">>)]]

KnowledgeTagModel ==
  [columns |-> Identified @@ Audited @@ [author_username |-> "char255", name |-> "char255"],
   keys |-> {<<"id">>, <<"id", "author_username">>},
   refs |-> {},
   checks |-> {},
   indexes |-> [tags_name_uniq |-> Index("unique", <<"author_username", "name">>),
                tags_name |-> Index("plain", <<"author_username", "name", "id">>),
                tags_name_trgm |-> Index("gin", <<"name">>)]]

KnowledgeItemTagModel ==
  [columns |-> Audited @@ [item_id |-> "char32", tag_id |-> "char32", author_username |-> "char255"],
   keys |-> {<<"item_id", "tag_id">>},
   refs |-> {ToItem("item_id", "CASCADE"),
             <<<<"tag_id", "author_username">>, "knowledge_tag", <<"id", "author_username">>, "RESTRICT">>},
   checks |-> {},
   indexes |-> [item_tags_tag |-> Index("plain", <<"author_username", "tag_id", "item_id">>)]]

KnowledgeItemFileModel ==
  [columns |-> [file_id |-> "char32", item_id |-> "char32", author_username |-> "char255",
                kind |-> "knowledge_file_kind_enum", processing |-> "knowledge_file_processing_enum"],
   keys |-> {<<"file_id">>},
   refs |-> {<<<<"file_id">>, "file", <<"id">>, "RESTRICT">>, ToItem("item_id", "RESTRICT")},
   checks |-> {},
   indexes |-> [item_files_item |-> Index("plain", <<"author_username", "item_id", "kind", "file_id">>),
                item_files_one_photo |-> Index("unique_where_photo", <<"author_username", "item_id">>)]]

PersonDetailsModel ==
  [columns |-> [item_id |-> "char32", author_username |-> "char255", last_name |-> "char255",
                first_name |-> "char255", middle_name |-> "char255", email |-> "char320",
                phone |-> "char64", telegram |-> "char255", birthday_day |-> "int?",
                birthday_month |-> "int?", birthday_year |-> "int?"],
   keys |-> {<<"item_id">>, <<"item_id", "author_username">>},
   refs |-> {ToItem("item_id", "CASCADE")},
   checks |-> {"birthday", "required_names"},
   indexes |-> [person_name |-> Index("plain", <<"author_username", "last_name", "first_name", "item_id">>),
                person_email |-> Index("plain", <<"author_username", "email", "item_id">>),
                person_birthday |-> Index("plain", <<"author_username", "birthday_month", "birthday_day", "item_id">>),
                last_name_trgm |-> Index("gin", <<"last_name">>),
                first_name_trgm |-> Index("gin", <<"first_name">>),
                middle_name_trgm |-> Index("gin", <<"middle_name">>),
                email_trgm |-> Index("gin", <<"email">>)]]

PersonRelationshipTypeModel ==
  [columns |-> Identified @@ Audited @@
     [author_username |-> "char255", is_symmetric |-> "bool", forward_name |-> "char255",
      reverse_name |-> "char255"],
   keys |-> {<<"id">>, <<"id", "author_username">>},
   refs |-> {},
   checks |-> {"names"},
   indexes |-> [types_name |-> Index("plain", <<"author_username", "forward_name", "id">>)]]

PersonRelationshipModel ==
  [columns |-> Identified @@ Audited @@
     [author_username |-> "char255", source_person_id |-> "char32", target_person_id |-> "char32",
      relationship_type_id |-> "char32", note |-> "text"],
   keys |-> {<<"id">>},
   refs |-> {ToDetails("source_person_id", "person_details"),
             ToDetails("target_person_id", "person_details"),
             <<<<"relationship_type_id", "author_username">>, "person_relationship_type",
               <<"id", "author_username">>, "RESTRICT">>},
   checks |-> {"not_self", "note_length"},
   indexes |-> [relationships_pair_type_uniq |->
                  Index("unique", <<"author_username", "least", "greatest", "relationship_type_id">>),
                relationships_source |-> Index("plain", <<"author_username", "source_person_id", "id">>),
                relationships_target |-> Index("plain", <<"author_username", "target_person_id", "id">>),
                relationships_type |-> Index("plain", <<"author_username", "relationship_type_id", "id">>)]]

KnowledgeDateDetailsModel ==
  [columns |-> [item_id |-> "char32", author_username |-> "char255", day |-> "int", month |-> "int",
                year |-> "int?"],
   keys |-> {<<"item_id">>, <<"item_id", "author_username">>},
   refs |-> {ToItem("item_id", "CASCADE")},
   checks |-> {"calendar"},
   indexes |-> [dates_calendar |-> Index("plain", <<"author_username", "month", "day", "item_id">>)]]

KnowledgeDatePersonModel ==
  [columns |-> [date_item_id |-> "char32", person_item_id |-> "char32", author_username |-> "char255"],
   keys |-> {<<"date_item_id", "person_item_id">>},
   refs |-> {ToDetails("date_item_id", "date_details"), ToDetails("person_item_id", "person_details")},
   checks |-> {},
   indexes |-> [links_person |-> Index("plain", <<"author_username", "person_item_id", "date_item_id">>),
                links_date |-> Index("plain", <<"author_username", "date_item_id", "person_item_id">>)]]

ResumeModel ==
  [columns |-> Identified @@ Audited @@
     [title |-> "char255", language |-> "language_enum", author_username |-> "char255",
      content |-> "jsonb"],
   keys |-> {<<"id">>},
   refs |-> {},
   checks |-> {},
   indexes |-> [resumes_updated |-> Index("plain", <<"author_username", "updated_at", "id">>)]]

Models ==
  [file |-> FileModel, knowledge_item |-> KnowledgeItemModel, knowledge_tag |-> KnowledgeTagModel,
   knowledge_item_tag |-> KnowledgeItemTagModel, knowledge_item_file |-> KnowledgeItemFileModel,
   person_details |-> PersonDetailsModel, person_relationship_type |-> PersonRelationshipTypeModel,
   person_relationship |-> PersonRelationshipModel, date_details |-> KnowledgeDateDetailsModel,
   date_person |-> KnowledgeDatePersonModel, resume |-> ResumeModel]

EnumNames == {"file_purpose_enum", "knowledge_item_kind_enum", "knowledge_file_kind_enum",
              "knowledge_file_processing_enum", "language_enum"}
EnumsOf(table) == {table.columns[c] : c \in DOMAIN table.columns} \cap EnumNames

\* What a column of a type can hold at most; 0 for a type without a limit.
Width(type) ==
  CASE type \in {"char32"} -> 32
    [] type \in {"char63"} -> 63
    [] type \in {"char64", "char64?"} -> 64
    [] type = "char255" -> 255
    [] type = "char320" -> 320
    [] type = "char2048" -> 2048
    [] OTHER -> 0
=============================================================================
