---------------------------- MODULE ResumeDocument ----------------------------
(***************************************************************************)
(* The content of a resume on its way through the program: the schema of   *)
(* the request, the JSON of the column it is kept in, and the way back     *)
(* into the answer.  Each of the three names every field by itself, so     *)
(* each is a table here, and one walk over the tables does the rest.       *)
(***************************************************************************)
EXTENDS Integers, Sequences, FiniteSets, SequencesExt, FieldRules

CONSTANTS Resumes     \* what is sent: the fields of a "request"

VARIABLES asked, answer

None == 0
Statuses == {"notSet", "current", "notCurrent"}
Languages == {"ru", "en"}

----------------------------------------------------------------------------
\* The schemas of requests

TextOf(rule) == [kind |-> "text", rule |-> rule]
TextsOf(rule) == [kind |-> "texts", rule |-> rule]
Day == [kind |-> "day"]
OptionalDay == [kind |-> "optional_day"]
OneOf(values) == [kind |-> "enum", values |-> values]
Section(section) == [kind |-> "section", section |-> section]
ItemsOf(section, least) == [kind |-> "items", section |-> section, least |-> least]

ResumeProfileSchema ==
  [full_name |-> TextOf(RequiredShortText), role |-> TextOf(RequiredShortText),
   location |-> TextOf(ShortText), email |-> TextOf(BlankableEmailString), phone |-> TextOf(Phone),
   website_url |-> TextOf(BlankableHttpUrlString), linkedin_url |-> TextOf(BlankableHttpUrlString),
   github_url |-> TextOf(BlankableHttpUrlString), telegram |-> TextOf(ShortText)]
ResumeSummarySchema == [text |-> TextOf(ResumeLongText)]
ResumeSkillGroupSchema == [category |-> TextOf(RequiredShortText), items |-> TextsOf(RequiredShortText)]
ResumeProjectItemSchema ==
  [name |-> TextOf(RequiredShortText), role |-> TextOf(RequiredShortText),
   description |-> TextOf(ResumeLongText), highlights |-> TextsOf(RequiredShortText),
   technologies |-> TextsOf(RequiredShortText), url |-> TextOf(BlankableHttpUrlString)]
ResumeExperienceItemSchema ==
  [company |-> TextOf(RequiredShortText), position |-> TextOf(RequiredShortText),
   location |-> TextOf(ShortText), start_date |-> Day, end_date |-> OptionalDay,
   current_status |-> OneOf(Statuses), summary |-> TextOf(ResumeLongText),
   highlights |-> TextsOf(RequiredShortText), technologies |-> TextsOf(RequiredShortText),
   projects |-> ItemsOf("project", 0)]
ResumeEducationItemSchema ==
  [institution |-> TextOf(RequiredShortText), degree |-> TextOf(RequiredShortText),
   field |-> TextOf(RequiredShortText), location |-> TextOf(RequiredShortText), start_date |-> Day,
   end_date |-> Day, description |-> TextOf(ResumeLongText)]
ResumeLanguageItemSchema == [name |-> TextOf(RequiredShortText), proficiency |-> TextOf(RequiredShortText)]
ResumeCertificationItemSchema ==
  [name |-> TextOf(RequiredShortText), issuer |-> TextOf(ShortText), issued_on |-> OptionalDay,
   expires_on |-> OptionalDay, credential_url |-> TextOf(BlankableHttpUrlString)]
ResumeAdditionalSectionItemSchema ==
  [title |-> TextOf(RequiredShortText), description |-> TextOf(ResumeLongText),
   url |-> TextOf(BlankableHttpUrlString)]
ResumeAdditionalSectionSchema ==
  [title |-> TextOf(RequiredShortText), items |-> ItemsOf("additional_item", 1)]
ResumeContentSchema ==
  [profile |-> Section("profile"), summary |-> Section("summary"), skills |-> ItemsOf("skill", 0),
   experience |-> ItemsOf("experience", 0), education |-> ItemsOf("education", 0),
   languages |-> ItemsOf("language", 0), certifications |-> ItemsOf("certification", 0),
   additional_sections |-> ItemsOf("additional_section", 0)]
ResumeRequestSchema ==
  [title |-> TextOf(RequiredShortText), language |-> OneOf(Languages), content |-> Section("content")]

Schemas ==
  [request |-> ResumeRequestSchema, content |-> ResumeContentSchema, profile |-> ResumeProfileSchema,
   summary |-> ResumeSummarySchema, skill |-> ResumeSkillGroupSchema,
   experience |-> ResumeExperienceItemSchema, project |-> ResumeProjectItemSchema,
   education |-> ResumeEducationItemSchema, language |-> ResumeLanguageItemSchema,
   certification |-> ResumeCertificationItemSchema,
   additional_section |-> ResumeAdditionalSectionSchema,
   additional_item |-> ResumeAdditionalSectionItemSchema]

RECURSIVE IsTaken(_, _), AsTaken(_, _)
AllTaken(section, item) == \A f \in DOMAIN Schemas[section] : IsTaken(Schemas[section][f], item[f])
TakenItem(section, item) == [f \in DOMAIN item |-> AsTaken(Schemas[section][f], item[f])]

IsTaken(field, v) ==
  CASE field.kind = "text" -> Accepts(field.rule, v)
    [] field.kind = "texts" -> \A i \in DOMAIN v : Accepts(field.rule, v[i])
    [] field.kind = "day" -> v # None
    [] field.kind = "optional_day" -> TRUE
    [] field.kind = "enum" -> v \in field.values
    [] field.kind = "section" -> AllTaken(field.section, v)
    [] field.kind = "items" -> Len(v) >= field.least /\ \A i \in DOMAIN v : AllTaken(field.section, v[i])

AsTaken(field, v) ==
  CASE field.kind = "text" -> Taken(field.rule, v)
    [] field.kind = "texts" -> [i \in DOMAIN v |-> Taken(field.rule, v[i])]
    [] field.kind = "section" -> TakenItem(field.section, v)
    [] field.kind = "items" -> [i \in DOMAIN v |-> TakenItem(field.section, v[i])]
    [] OTHER -> v

----------------------------------------------------------------------------
\* The column: what every field is written as, and what it is read as.

ProfileJson ==
  [f \in {"full_name", "role", "location", "email", "phone", "website_url", "linkedin_url",
          "github_url", "telegram"} |-> "string"]
ExperienceToJson ==
  [company |-> "string", position |-> "string", location |-> "string", start_date |-> "date",
   end_date |-> "date", current_status |-> "status", summary |-> "string", highlights |-> "strings",
   technologies |-> "strings", projects |-> "project"]
ProjectToJson ==
  [name |-> "string", role |-> "string", description |-> "string", highlights |-> "strings",
   technologies |-> "strings", url |-> "string"]
EducationToJson ==
  [institution |-> "string", degree |-> "string", field |-> "string", location |-> "string",
   start_date |-> "date", end_date |-> "date", description |-> "string"]
CertificationToJson ==
  [name |-> "string", issuer |-> "string", issued_on |-> "date", expires_on |-> "date",
   credential_url |-> "string"]
ContentToJson ==
  [content |-> [profile |-> "profile", summary |-> "summary", skills |-> "skill",
                experience |-> "experience", education |-> "education", languages |-> "language",
                certifications |-> "certification", additional_sections |-> "additional_section"],
   profile |-> ProfileJson, summary |-> [text |-> "string"],
   skill |-> [category |-> "string", items |-> "strings"],
   experience |-> ExperienceToJson, project |-> ProjectToJson, education |-> EducationToJson,
   language |-> [name |-> "string", proficiency |-> "string"],
   certification |-> CertificationToJson,
   additional_section |-> [title |-> "string", items |-> "additional_item"],
   additional_item |-> [title |-> "string", description |-> "string", url |-> "string"]]

ProfileFromJson ==
  [f \in {"full_name", "role", "location", "email", "phone", "website_url", "linkedin_url",
          "github_url", "telegram"} |-> "string"]
ExperienceFromJson ==
  [company |-> "string", position |-> "string", location |-> "string", start_date |-> "date",
   end_date |-> "date", current_status |-> "status", summary |-> "string", highlights |-> "strings",
   technologies |-> "strings", projects |-> "project"]
ProjectFromJson ==
  [name |-> "string", role |-> "string", description |-> "string", highlights |-> "strings",
   technologies |-> "strings", url |-> "string"]
EducationFromJson ==
  [institution |-> "string", degree |-> "string", field |-> "string", location |-> "string",
   start_date |-> "date", end_date |-> "date", description |-> "string"]
CertificationFromJson ==
  [name |-> "string", issuer |-> "string", issued_on |-> "date", expires_on |-> "date",
   credential_url |-> "string"]
ContentFromJson ==
  [content |-> [profile |-> "profile", summary |-> "summary", skills |-> "skill",
                experience |-> "experience", education |-> "education", languages |-> "language",
                certifications |-> "certification", additional_sections |-> "additional_section"],
   profile |-> ProfileFromJson, summary |-> [text |-> "string"],
   skill |-> [category |-> "string", items |-> "strings"],
   experience |-> ExperienceFromJson, project |-> ProjectFromJson, education |-> EducationFromJson,
   language |-> [name |-> "string", proficiency |-> "string"],
   certification |-> CertificationFromJson,
   additional_section |-> [title |-> "string", items |-> "additional_item"],
   additional_item |-> [title |-> "string", description |-> "string", url |-> "string"]]

Json(type, value) == [type |-> type, value |-> value]

\* Profile and summary are objects, every other section a list of them.
Objects == {"profile", "summary"}

RECURSIVE ToJson(_, _), FromJson(_, _)
ObjectToJson(section, item) ==
  Json("object", [f \in DOMAIN ContentToJson[section] |-> ToJson(ContentToJson[section][f], item[f])])
ObjectFromJson(section, json) ==
  [f \in DOMAIN ContentFromJson[section] |-> FromJson(ContentFromJson[section][f], json.value[f])]

ToJson(as, v) ==
  CASE as = "string" -> Json("string", v)
    [] as = "strings" -> Json("list", [i \in DOMAIN v |-> Json("string", v[i])])
    [] as = "date" -> IF v = None THEN Json("null", None) ELSE Json("string", v)
    [] as = "status" -> Json("string", v)
    [] as \in Objects -> ObjectToJson(as, v)
    [] OTHER -> Json("list", [i \in DOMAIN v |-> ObjectToJson(as, v[i])])

StringFromJson(json) == IF json.type = "string" THEN json.value ELSE EmptyText
ListFromJson(json) == IF json.type = "list" THEN json.value ELSE <<>>
\* Mutant: a job that has ended is one of which nothing was said.
StatusIfCurrent(json) == IF json.value = "current" THEN "current" ELSE "notSet"
StatusFromJson(json) ==
  IF json.type = "string" /\ json.value \in Statuses THEN json.value ELSE "notSet"
FromJson(as, json) ==
  CASE as = "string" -> StringFromJson(json)
    [] as = "strings" -> LET list == ListFromJson(json) IN [i \in DOMAIN list |-> StringFromJson(list[i])]
    [] as = "date" -> IF json.type = "null" THEN None ELSE json.value
    [] as = "status" -> StatusFromJson(json)
    [] as \in Objects -> ObjectFromJson(as, json)
    [] OTHER -> LET list == ListFromJson(json) IN [i \in DOMAIN list |-> ObjectFromJson(as, list[i])]

----------------------------------------------------------------------------
At(stage, resume) == [stage |-> stage, resume |-> resume]

Init ==
  /\ asked \in Resumes
  /\ answer = At("sent", asked)

ParseRequest ==
  /\ answer.stage = "sent"
  /\ answer' = IF AllTaken("request", answer.resume)
               THEN At("parsed", TakenItem("request", answer.resume)) ELSE At("refused", answer.resume)
  /\ UNCHANGED asked

\* The column of the title holds 255 characters.
WriteRow ==
  /\ answer.stage = "parsed"
  /\ answer' = IF Size(answer.resume.title) > 255 THEN At("crashed", answer.resume)
               ELSE At("stored", [answer.resume EXCEPT !.content = ObjectToJson("content", @)])
  /\ UNCHANGED asked

ReadRow ==
  /\ answer.stage = "stored"
  /\ answer' = At("answered", [answer.resume EXCEPT !.content = ObjectFromJson("content", @)])
  /\ UNCHANGED asked

Next == ParseRequest \/ WriteRow \/ ReadRow
Spec == Init /\ [][Next]_<<asked, answer>>

----------------------------------------------------------------------------
\* Properties

\* What is stored comes back as it was taken: every field of every section, in its order, and
\* nothing but the blanks the schema strips is lost.  It can be saved again as it is, and
\* saving it changes nothing.
ResumeComesBack ==
  /\ answer.stage # "crashed"
  /\ answer.stage = "answered" =>
       /\ answer.resume = TakenItem("request", asked)
       /\ AllTaken("request", answer.resume) /\ TakenItem("request", answer.resume) = answer.resume
=============================================================================
