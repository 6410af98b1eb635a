---------------------------- MODULE KnowledgeFields ----------------------------
(***************************************************************************)
(* What a request about people, dates, types and tags goes through: the    *)
(* schema of the request, the rules of the domain, the columns and checks  *)
(* of the database, and the way back into the answer.  Which rows are      *)
(* written when, and by whom, is KnowledgeGraph's.                         *)
(***************************************************************************)
EXTENDS Integers, Sequences, FiniteSets, SequencesExt, FieldRules, SqlModels

CONSTANTS Requests,   \* [form, text (field |-> text), day, symmetric, people, taken]
          Clocks      \* the day when the schema, the domain and the database look: <<d, d, d>>

VARIABLES asked, answer
vars == <<asked, answer>>

----------------------------------------------------------------------------
\* Days: [day, month, year], the year 0 when there is none.

NoDay == [day |-> -1, month |-> -1, year |-> -1]
DayNumber(d) == 10000 * d.year + 100 * d.month + d.day

Leap(year) == year % 4 = 0 /\ (year % 100 # 0 \/ year % 400 = 0)
MonthDays(month, year) ==
  CASE month = 2 -> IF Leap(year) THEN 29 ELSE 28
    [] month \in {4, 6, 9, 11} -> 30
    [] OTHER -> 31

\* A day without a year is one of the year 2000.
IsDay(d) ==
  LET year == IF d.year = 0 THEN 2000 ELSE d.year
  IN /\ year \in 1 .. 9999 /\ d.month \in 1 .. 12
     /\ d.day \in 1 .. MonthDays(d.month, year)

NotAfter(d, today) == d.year = 0 \/ DayNumber(d) <= DayNumber(today)

SchemaBounds(d) == d.day \in 1 .. 31 /\ d.month \in 1 .. 12 /\ d.year \in 0 .. 9999

\* Mutant: a day without a year is counted with the years that are no leap years.
LastDayCheckedStrictly(d) ==
  CASE d.month \in {1, 3, 5, 7, 8, 10, 12} -> 31
    [] d.month \in {4, 6, 9, 11} -> 30
    [] d.year > 0 /\ (d.year % 400 = 0 \/ (d.year % 4 = 0 /\ d.year % 100 # 0)) -> 29
    [] OTHER -> 28
LastDayChecked(d) ==
  CASE d.month \in {1, 3, 5, 7, 8, 10, 12} -> 31
    [] d.month \in {4, 6, 9, 11} -> 30
    [] d.year = 0 -> 29
    [] d.year > 0 /\ (d.year % 400 = 0 \/ (d.year % 4 = 0 /\ d.year % 100 # 0)) -> 29
    [] OTHER -> 28

\* person_details_birthday_check and date_details_calendar_check.
DayCheck(d, today) ==
  \/ d = NoDay
  \/ /\ d.day \in 1 .. 31 /\ d.month \in 1 .. 12 /\ d.year \in 0 .. 9999
     /\ d.day <= LastDayChecked(d)
     /\ NotAfter(d, today)

----------------------------------------------------------------------------
\* The schemas of requests

PersonQuickCreateRequestSchema == [first_name |-> RequiredShortText, last_name |-> RequiredShortText]
PersonUpdateRequestSchema ==
  [last_name |-> RequiredShortText, first_name |-> RequiredShortText, middle_name |-> ShortText,
   email |-> BlankableEmailString, phone |-> Phone, telegram |-> ShortText,
   description |-> KnowledgeDescriptionText, note |-> KnowledgeRelationshipNoteText]
KnowledgeDateCreateRequestSchema == [display_name |-> RequiredShortText]
KnowledgeDateUpdateRequestSchema ==
  [display_name |-> RequiredShortText, description |-> KnowledgeDescriptionText]
PersonRelationshipTypeRequestSchema == [forward_name |-> RequiredShortText, reverse_name |-> ShortText]
KnowledgeTagRequestSchema == [name |-> RequiredShortText]

Schemas ==
  [quick |-> PersonQuickCreateRequestSchema, person |-> PersonUpdateRequestSchema,
   new_date |-> KnowledgeDateCreateRequestSchema, date |-> KnowledgeDateUpdateRequestSchema,
   type |-> PersonRelationshipTypeRequestSchema, tag |-> KnowledgeTagRequestSchema]

TextsTaken(r) == [f \in DOMAIN r.text |-> Taken(Schemas[r.form][f], r.text[f])]

\* A symmetric type has its name in both directions.
TakenRequest(r) ==
  IF r.form = "type" /\ r.symmetric
  THEN [r EXCEPT !.text = [TextsTaken(r) EXCEPT !.reverse_name = TextsTaken(r).forward_name]]
  ELSE [r EXCEPT !.text = TextsTaken(r)]

\* PersonRelationshipType.__post_init__
TypeIsNamed(r) ==
  /\ ~IsBlank(r.text.forward_name)
  /\ r.symmetric => r.text.reverse_name = r.text.forward_name
  /\ ~r.symmetric => ~IsBlank(r.text.reverse_name)

SchemaAccepts(r, today) ==
  /\ \A f \in DOMAIN r.text : Accepts(Schemas[r.form][f], r.text[f])
  /\ r.day # NoDay => SchemaBounds(r.day) /\ IsDay(r.day) /\ NotAfter(r.day, today)
  /\ r.form = "type" => TypeIsNamed(TakenRequest(r))

----------------------------------------------------------------------------
\* The domain

Named(r) ==
  CASE r.form \in {"quick", "person"} -> ~IsBlank(r.text.last_name) /\ ~IsBlank(r.text.first_name)
    [] r.form \in {"new_date", "date"} -> ~IsBlank(r.text.display_name)
    [] r.form = "type" -> TypeIsNamed(r)
    [] r.form = "tag" -> ~IsBlank(r.text.name)

PeopleOnce(r) == Len(r.people) = Cardinality(ToSet(r.people))

DomainAccepts(r, today) ==
  /\ Named(r) /\ PeopleOnce(r)
  /\ r.day # NoDay => IsDay(r.day) /\ NotAfter(r.day, today)

\* to_details, create_date, update_date, create_tag and update_tag.
Stripped(r) ==
  [r EXCEPT !.text = [f \in DOMAIN r.text |->
     IF r.form = "type" \/ f \in {"description", "note"} THEN r.text[f] ELSE Strip(r.text[f])]]

\* find_tag_by_name: the folded name against the names in lower case.
TagIsFound(r) == r.form = "tag" /\ r.taken /\ r.text.name.folds

NameParts(r) ==
  IF "middle_name" \in DOMAIN r.text
  THEN <<r.text.last_name, r.text.first_name, r.text.middle_name>>
  ELSE <<r.text.last_name, r.text.first_name>>

\* PersonDetails.display_name: the parts that are not blank, a space between them.
JoinedName(parts) ==
  LET told == SelectSeq(parts, LAMBDA t : ~IsBlank(t))
  IN Text(FoldLeft(LAMBDA n, t : n + t.core, 0, told) + Len(told) - 1, 0, "space", "plain")

----------------------------------------------------------------------------
\* The database

Or(r, field) == IF field \in DOMAIN r.text THEN r.text[field] ELSE EmptyText

\* The columns a request writes: <<table, column, text>>.
Columns(r) ==
  CASE r.form \in {"quick", "person"} ->
         {<<"knowledge_item", "display_name", JoinedName(NameParts(r))>>,
          <<"knowledge_item", "description", Or(r, "description")>>,
          <<"person_relationship", "note", Or(r, "note")>>}
           \cup {<<"person_details", f, Or(r, f)>> :
                 f \in {"last_name", "first_name", "middle_name", "email", "phone", "telegram"}}
    [] r.form \in {"new_date", "date"} ->
         {<<"knowledge_item", "display_name", r.text.display_name>>,
          <<"knowledge_item", "description", Or(r, "description")>>}
    [] r.form = "type" ->
         {<<"person_relationship_type", f, r.text[f]>> : f \in {"forward_name", "reverse_name"}}
    [] r.form = "tag" -> {<<"knowledge_tag", "name", r.text.name>>}

Fits(c) ==
  LET width == Width(Models[c[1]].columns[c[2]]) IN width = 0 \/ Size(c[3]) <= width

NamesCheck(r) ==
  r.form = "type" =>
    /\ SqlTrimmedSize(r.text.forward_name) > 0
    /\ IF r.symmetric THEN r.text.reverse_name = r.text.forward_name
       ELSE SqlTrimmedSize(r.text.reverse_name) > 0

RequiredNamesCheck(r) ==
  r.form \in {"quick", "person"} =>
    SqlTrimmedSize(r.text.last_name) > 0 /\ SqlTrimmedSize(r.text.first_name) > 0

LengthChecks(r) ==
  \A c \in Columns(r) :
    /\ c[2] = "description" => Size(c[3]) <= 100000
    /\ c[2] = "note" => Size(c[3]) <= 10000

\* knowledge_tags_author_name_lower_uniq
TagIsNew(r) == r.form = "tag" => ~r.taken

DatabaseAccepts(r, today) ==
  /\ \A c \in Columns(r) : Fits(c)
  /\ NamesCheck(r) /\ RequiredNamesCheck(r) /\ LengthChecks(r) /\ TagIsNew(r)
  /\ DayCheck(r.day, today)

----------------------------------------------------------------------------
\* The answer: what can be sent to change what was stored.

EditForm(r) == IF r.form = "quick" THEN "person" ELSE IF r.form = "new_date" THEN "date" ELSE r.form

DayRead(d) == d

Answered(r) ==
  [r EXCEPT !.form = EditForm(r),
            !.text = [f \in DOMAIN Schemas[EditForm(r)] |-> Or(r, f)],
            !.day = DayRead(r.day)]

----------------------------------------------------------------------------
At(stage, r) == [stage |-> stage, request |-> r]

Init ==
  /\ asked \in [request : Requests, clock : Clocks]
  /\ answer = At("sent", asked.request)

ParseRequest ==
  /\ answer.stage = "sent"
  /\ answer' = IF SchemaAccepts(answer.request, asked.clock[1])
               THEN At("parsed", TakenRequest(answer.request)) ELSE At("refused", answer.request)
  /\ UNCHANGED asked

ApplyRules ==
  /\ answer.stage = "parsed"
  /\ answer' = CASE ~DomainAccepts(answer.request, asked.clock[2]) -> At("refused", answer.request)
                 [] TagIsFound(answer.request) -> At("conflict", answer.request)
                 [] OTHER -> At("ruled", Stripped(answer.request))
  /\ UNCHANGED asked

WriteRows ==
  /\ answer.stage = "ruled"
  /\ answer' = At(IF DatabaseAccepts(answer.request, asked.clock[3]) THEN "stored" ELSE "crashed",
                  answer.request)
  /\ UNCHANGED asked

\* What is read makes the values of the domain again, which check themselves.
ReadRows ==
  /\ answer.stage = "stored"
  /\ LET r == Answered(answer.request)
     IN answer' = At(IF Named(r) /\ (r.day # NoDay => IsDay(r.day)) THEN "answered" ELSE "crashed", r)
  /\ UNCHANGED asked

Next == ParseRequest \/ ApplyRules \/ WriteRows \/ ReadRows
Spec == Init /\ [][Next]_vars

----------------------------------------------------------------------------
\* Properties

\* What the schema and the domain let through the database stores and the way back reads, over
\* midnight too; but for a person whose parts are each short enough and together too long for
\* the name in the list, and a tag whose name is taken in letters that fold to others.
AcceptedIsStored ==
  answer.stage = "crashed" =>
    \/ /\ asked.request.form \in {"quick", "person"}
       /\ Size(JoinedName(NameParts(answer.request))) > 255
    \/ asked.request.form = "tag" /\ asked.request.taken /\ ~asked.request.text.name.folds

\* Nothing but blanks around a text is lost between a request and its answer, a day is the one
\* that was sent, and the answer sent back as it came is accepted on that day and any later one,
\* and changes nothing.
AnswerRoundTrips ==
  answer.stage = "answered" =>
    /\ \A f \in DOMAIN asked.request.text :
         \/ answer.request.text[f].core = asked.request.text[f].core
         \/ f = "reverse_name" /\ asked.request.symmetric
    /\ answer.request.day = asked.request.day
    /\ \A clock \in Clocks : DayNumber(clock[1]) >= DayNumber(asked.clock[3]) =>
         SchemaAccepts(answer.request, clock[1]) /\ DomainAccepts(TakenRequest(answer.request), clock[1])
    /\ Answered(Stripped(TakenRequest(answer.request))) = answer.request
=============================================================================
