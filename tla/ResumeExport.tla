----------------------------- MODULE ResumeExport -----------------------------
(***************************************************************************)
(* A resume as a document: the paragraphs of the PDF and those of the Word *)
(* file, which the exporter builds separately.  A paragraph is its style   *)
(* and what it shows: labels, and the places in the resume its texts and   *)
(* days come from.  A text that is empty is not shown, a blank one is.     *)
(***************************************************************************)
EXTENDS ResumeDocument

----------------------------------------------------------------------------
\* Paragraphs

Label(text) == <<"label", text>>
Told(at, item, fields) == SelectSeq([i \in DOMAIN fields |-> Append(at, fields[i])],
                                    LAMBDA place : Size(item[place[Len(place)]]) > 0)
TextsOfList(at, field, texts) ==
  [i \in DOMAIN SelectSeq(texts, LAMBDA t : Size(t) > 0) |-> at \o <<field, i>>]

\* _append_pdf_text and _add_word_paragraph: nothing for an empty text.
Paragraph(style, parts) ==
  IF parts = <<>> THEN <<>> ELSE <<[style |-> style, parts |-> parts]>>

ForEach(items, Op(_, _)) == FlattenSeq([i \in DOMAIN items |-> Op(i, items[i])])
Days(at, item, fields) == SelectSeq([i \in DOMAIN fields |-> Append(at, fields[i])],
                                    LAMBDA place : item[place[Len(place)]] # None)

\* Mutant: where the work goes on the day it began is left out too.
FormatDateRangePresent(at, item, status) ==
  IF status = "current" THEN <<Label("present")>> ELSE Days(at, item, <<"start_date", "end_date">>)
\* A job that goes on ends at present, whatever its end date.
FormatDateRange(at, item, status) ==
  Days(at, item, <<"start_date">>)
    \o (IF status = "current" THEN <<Label("present")>> ELSE Days(at, item, <<"end_date">>))

ContactParts(profile) ==
  Told(<<"profile">>, profile,
       <<"location", "email", "phone", "website_url", "linkedin_url", "github_url", "telegram">>)

Heading(resume) ==
  IF Size(resume.content.profile.full_name) > 0 THEN <<<<"profile", "full_name">>>>
  ELSE Told(<<>>, resume, <<"title">>)

----------------------------------------------------------------------------
\* The PDF

PdfProfile(resume) ==
  Paragraph("title", Heading(resume))
    \o Paragraph("subtitle", Told(<<"profile">>, resume.content.profile, <<"role">>))
    \o Paragraph("contact", ContactParts(resume.content.profile))

PdfSummary(content) ==
  IF Size(content.summary.text) = 0 THEN <<>>
  ELSE Paragraph("section", <<Label("summary")>>) \o Paragraph("body", <<<<"summary", "text">>>>)

PdfSection(label, items) ==
  IF items = <<>> THEN <<>> ELSE Paragraph("section", <<Label(label)>>) \o FlattenSeq(items)

PdfSkill(i, group) ==
  LET at == <<"skills", i>>
  IN Paragraph("body", Told(at, group, <<"category">>) \o TextsOfList(at, "items", group.items))

PdfBullets(at, items) ==
  ForEach(items, LAMBDA i, item : Paragraph("bullet", <<Label("bullet"), at \o <<"highlights", i>>>>))

PdfTechnologies(at, technologies) ==
  IF technologies = <<>> THEN <<>>
  ELSE Paragraph("body", <<Label("technologies")>> \o TextsOfList(at, "technologies", technologies))

PdfProjects(before, projects) ==
  ForEach(projects, LAMBDA i, project :
    LET at == before \o <<"projects", i>>
    IN Paragraph("body", <<Label("project")>> \o Told(at, project, <<"name", "role">>))
         \o Paragraph("body", Told(at, project, <<"description">>))
         \o PdfBullets(at, project.highlights)
         \o PdfTechnologies(at, project.technologies)
         \o Paragraph("body", Told(at, project, <<"url">>)))

PdfExperienceItem(i, item) ==
  LET at == <<"experience", i>>
  IN Paragraph("item_title", Told(at, item, <<"position", "company">>))
       \o Paragraph("body", Told(at, item, <<"location">>) \o FormatDateRange(at, item, item.current_status))
       \o Paragraph("body", Told(at, item, <<"summary">>))
       \o PdfBullets(at, item.highlights)
       \o PdfTechnologies(at, item.technologies)
       \o PdfProjects(at, item.projects)

PdfEducationItem(i, item) ==
  LET at == <<"education", i>>
  IN Paragraph("item_title", Told(at, item, <<"institution", "degree", "field">>))
       \o Paragraph("body", Told(at, item, <<"location">>) \o FormatDateRange(at, item, "notSet"))
       \o Paragraph("body", Told(at, item, <<"description">>))

PdfCertificationItem(i, item) ==
  LET at == <<"certifications", i>>
  IN Paragraph("item_title", Told(at, item, <<"name", "issuer">>))
       \o Paragraph("body", Days(at, item, <<"issued_on", "expires_on">>))
       \o Paragraph("body", Told(at, item, <<"credential_url">>))

PdfLanguage(i, item) == Paragraph("body", Told(<<"languages", i>>, item, <<"name", "proficiency">>))

PdfAdditionalSections(sections) ==
  ForEach(sections, LAMBDA i, section :
    IF section.items = <<>> THEN <<>>
    ELSE Paragraph("section", Told(<<"additional_sections", i>>, section, <<"title">>))
           \o ForEach(section.items, LAMBDA j, item :
                LET at == <<"additional_sections", i, "items", j>>
                IN Paragraph("item_title", Told(at, item, <<"title">>))
                     \o Paragraph("body", Told(at, item, <<"description">>))
                     \o Paragraph("body", Told(at, item, <<"url">>))))

ExportPdf(resume) ==
  LET content == resume.content
  IN PdfProfile(resume) \o PdfSummary(content)
       \o PdfSection("skills", [i \in DOMAIN content.skills |-> PdfSkill(i, content.skills[i])])
       \o PdfSection("experience",
            [i \in DOMAIN content.experience |-> PdfExperienceItem(i, content.experience[i])])
       \o PdfSection("education",
            [i \in DOMAIN content.education |-> PdfEducationItem(i, content.education[i])])
       \o PdfSection("certifications",
            [i \in DOMAIN content.certifications |-> PdfCertificationItem(i, content.certifications[i])])
       \o PdfSection("languages",
            [i \in DOMAIN content.languages |-> PdfLanguage(i, content.languages[i])])
       \o PdfAdditionalSections(content.additional_sections)

----------------------------------------------------------------------------
\* The Word file

WordProfile(resume) ==
  Paragraph("ResumeName", Heading(resume))
    \o Paragraph("ResumeRole", Told(<<"profile">>, resume.content.profile, <<"role">>))
    \o Paragraph("ResumeContact", ContactParts(resume.content.profile))

SectionTitle(parts) == Paragraph("ResumeSection", parts)
ItemTitle(parts) == Paragraph("ResumeItemTitle", parts)
Body(parts) == Paragraph("ResumeBody", parts)

\* _add_word_bullet, unlike the PDF's, leaves out a text that is empty.
WordBullets(at, items) ==
  ForEach(items, LAMBDA i, item :
    IF Size(item) = 0 THEN <<>> ELSE Body(<<Label("bullet"), at \o <<"highlights", i>>>>))

WordTechnologies(at, technologies) ==
  IF technologies = <<>> THEN <<>>
  ELSE Body(<<Label("technologies")>> \o TextsOfList(at, "technologies", technologies))

WordSummary(content) ==
  IF Size(content.summary.text) = 0 THEN <<>>
  ELSE SectionTitle(<<Label("summary")>>) \o Body(<<<<"summary", "text">>>>)

WordSkills(groups) ==
  IF groups = <<>> THEN <<>>
  ELSE SectionTitle(<<Label("skills")>>) \o ForEach(groups, LAMBDA i, group :
    LET at == <<"skills", i>>
    IN Body(Told(at, group, <<"category">>) \o TextsOfList(at, "items", group.items)))

WordProjects(before, projects) ==
  ForEach(projects, LAMBDA i, project :
    LET at == before \o <<"projects", i>>
    IN Body(<<Label("project")>> \o Told(at, project, <<"name", "role">>))
         \o Body(Told(at, project, <<"description">>)) \o WordBullets(at, project.highlights)
         \o WordTechnologies(at, project.technologies)
         \o Body(Told(at, project, <<"url">>)))

WordExperience(items) ==
  IF items = <<>> THEN <<>>
  ELSE SectionTitle(<<Label("experience")>>) \o ForEach(items, LAMBDA i, item :
    LET at == <<"experience", i>>
    IN ItemTitle(Told(at, item, <<"position", "company">>))
         \o Body(Told(at, item, <<"location">>) \o FormatDateRange(at, item, item.current_status))
         \o Body(Told(at, item, <<"summary">>)) \o WordBullets(at, item.highlights)
         \o WordTechnologies(at, item.technologies) \o WordProjects(at, item.projects))

WordEducation(items) ==
  IF items = <<>> THEN <<>>
  ELSE SectionTitle(<<Label("education")>>) \o ForEach(items, LAMBDA i, item :
    LET at == <<"education", i>>
    IN ItemTitle(Told(at, item, <<"institution", "degree", "field">>))
         \o Body(Told(at, item, <<"location">>) \o FormatDateRange(at, item, "notSet"))
         \o Body(Told(at, item, <<"description">>)))

WordCertifications(items) ==
  IF items = <<>> THEN <<>>
  ELSE SectionTitle(<<Label("certifications")>>) \o ForEach(items, LAMBDA i, item :
    LET at == <<"certifications", i>>
    IN ItemTitle(Told(at, item, <<"name", "issuer">>))
         \o Body(Days(at, item, <<"issued_on", "expires_on">>))
         \o Body(Told(at, item, <<"credential_url">>)))

WordLanguages(items) ==
  IF items = <<>> THEN <<>>
  ELSE SectionTitle(<<Label("languages")>>) \o ForEach(items, LAMBDA i, item :
    Body(Told(<<"languages", i>>, item, <<"name", "proficiency">>)))

WordAdditionalSections(sections) ==
  ForEach(sections, LAMBDA i, section :
    IF section.items = <<>> THEN <<>>
    ELSE SectionTitle(Told(<<"additional_sections", i>>, section, <<"title">>))
           \o ForEach(section.items, LAMBDA j, item :
                LET at == <<"additional_sections", i, "items", j>>
                IN ItemTitle(Told(at, item, <<"title">>)) \o Body(Told(at, item, <<"description">>))
                     \o Body(Told(at, item, <<"url">>))))

ExportDocx(resume) ==
  WordProfile(resume) \o WordSummary(resume.content) \o WordSkills(resume.content.skills)
    \o WordExperience(resume.content.experience) \o WordEducation(resume.content.education)
    \o WordCertifications(resume.content.certifications) \o WordLanguages(resume.content.languages)
    \o WordAdditionalSections(resume.content.additional_sections)

----------------------------------------------------------------------------
\* The request holds the resume to export, saved or not.
ExportResume(format) ==
  /\ answer.stage = "parsed"
  /\ answer' = At(format, IF format = "pdf" THEN ExportPdf(answer.resume) ELSE ExportDocx(answer.resume))
  /\ UNCHANGED asked

ExportNext == ParseRequest \/ \E format \in {"pdf", "docx"} : ExportResume(format)

----------------------------------------------------------------------------
\* Properties

PartsOf(document) == [i \in DOMAIN document |-> document[i].parts]
Parts(document) == FlattenSeq(PartsOf(document))

\* The places of a resume that hold something: its texts and days.
RECURSIVE Filled(_, _, _)
FilledItem(at, section, item) ==
  UNION {Filled(Append(at, f), Schemas[section][f], item[f]) : f \in DOMAIN Schemas[section]}
Filled(at, field, v) ==
  CASE field.kind = "text" -> IF Size(v) > 0 THEN {at} ELSE {}
    [] field.kind = "texts" -> {Append(at, i) : i \in DOMAIN v}
    [] field.kind \in {"day", "optional_day"} -> IF v # None THEN {at} ELSE {}
    [] field.kind = "enum" -> {}
    [] field.kind = "section" -> FilledItem(at, field.section, v)
    [] field.kind = "items" -> UNION {FilledItem(Append(at, i), field.section, v[i]) : i \in DOMAIN v}

\* The end of a job that goes on is not shown.
Ongoing(content) ==
  {<<"experience", i, "end_date">> :
     i \in {j \in DOMAIN content.experience : content.experience[j].current_status = "current"}}

\* The document shows every text and day of the resume it was asked for once, but the end of a
\* job that goes on, and no heading without a paragraph under it; both formats show them in the
\* same paragraphs, in the same order.
DocumentComplete ==
  answer.stage \in {"pdf", "docx"} =>
    LET document == answer.resume
        taken == TakenItem("content", asked.content)
        places == SelectSeq(Parts(document), LAMBDA part : part[1] # "label")
        headings == {"section", "ResumeSection"}
    IN /\ ToSet(places) = FilledItem(<<>>, "content", taken) \ Ongoing(taken)
       /\ IsInjective(places)
       /\ \A i \in DOMAIN document : document[i].style \in headings =>
            i < Len(document) /\ document[i + 1].style \notin headings

FormatsAgree ==
  answer.stage = "parsed" => PartsOf(ExportPdf(answer.resume)) = PartsOf(ExportDocx(answer.resume))

DocumentsComplete == DocumentComplete /\ FormatsAgree
=============================================================================
