------------------------------- MODULE MCResumes -------------------------------
(* A resume with something in every section, and what differs from it in one place. *)
EXTENDS Integers, Sequences, FieldRules

Word(n) == Text(n, 0, "space", "plain")
Url == Text(20, 0, "space", "url")

Project == [name |-> Word(1), role |-> Word(2), description |-> Word(3), highlights |-> <<Word(1), Word(2)>>,
            technologies |-> <<Word(3)>>, url |-> Url]
Job == [company |-> Word(1), position |-> Word(2), location |-> Word(3), start_date |-> 2020,
        end_date |-> 2022, current_status |-> "notCurrent", summary |-> Word(4),
        highlights |-> <<Word(1)>>, technologies |-> <<Word(1), Word(2)>>, projects |-> <<Project>>]
Education == [institution |-> Word(1), degree |-> Word(2), field |-> Word(3), location |-> Word(4),
              start_date |-> 2014, end_date |-> 2018, description |-> Word(5)]
Certification == [name |-> Word(1), issuer |-> Word(2), issued_on |-> 2019, expires_on |-> 2024,
                  credential_url |-> Url]
Extra == [title |-> Word(1), description |-> Word(2), url |-> Url]

Resume ==
  [title |-> Word(9), language |-> "en",
   content |->
     [profile |-> [full_name |-> Word(8), role |-> Word(2), location |-> Word(3),
                   email |-> Text(9, 0, "space", "email"), phone |-> Word(4), website_url |-> Url,
                   linkedin_url |-> Url, github_url |-> Url, telegram |-> Word(5)],
      summary |-> [text |-> Word(7)],
      skills |-> <<[category |-> Word(1), items |-> <<Word(1), Word(2)>>]>>,
      experience |-> <<Job, [Job EXCEPT !.current_status = "current", !.projects = <<>>]>>,
      education |-> <<Education>>,
      languages |-> <<[name |-> Word(1), proficiency |-> Word(2)]>>,
      certifications |-> <<Certification>>,
      additional_sections |-> <<[title |-> Word(1), items |-> <<Extra, Extra>>], [title |-> Word(2), items |-> <<Extra>>]>>]]

With(section, v) == [Resume EXCEPT !.content[section] = v]
Lists == {"skills", "experience", "education", "languages", "certifications", "additional_sections"}
First(section) == Resume.content[section][1]

Values == {EmptyText, Text(0, 2, "tab", "plain"), Text(3, 1, "space", "plain"), Word(64), Word(65), Word(255),
           Word(256), Text(255, 1, "tab", "plain"), Word(10000), Word(10001), Url, Text(20, 2, "tab", "url"),
           Text(254, 0, "space", "email"), Text(253, 1, "space", "email"), Text(2048, 0, "space", "url"),
           Text(2048, 1, "space", "url")}
TextFields(item) ==
  DOMAIN item \ {"items", "highlights", "technologies", "projects", "start_date", "end_date", "issued_on",
                 "expires_on", "current_status"}

MCResumes ==
  {Resume, [Resume EXCEPT !.language = "ru"], [Resume EXCEPT !.language = "de"]}
    \cup {[Resume EXCEPT !.title = t] : t \in Values}
    \cup {With("summary", [text |-> t]) : t \in Values}
    \cup {With("profile", [Resume.content.profile EXCEPT ![f] = t]) :
            f \in DOMAIN Resume.content.profile, t \in Values}
    \cup {[Resume EXCEPT !.content = [s \in DOMAIN @ |-> IF s \in empty THEN <<>> ELSE @[s]]] : empty \in SUBSET Lists}
    \cup UNION {{With(s, <<[First(s) EXCEPT ![f] = t], First(s)>>) : f \in TextFields(First(s)), t \in Values} : s \in Lists}
    \cup {With("experience", <<[Job EXCEPT !.start_date = a, !.end_date = b, !.current_status = c, !.location = l]>>) :
            a \in {0, 2020}, b \in {0, 2022}, c \in {"notSet", "current", "notCurrent", "no"}, l \in {EmptyText, Word(3)}}
    \cup {With("experience", <<[Job EXCEPT !.projects = <<[Project EXCEPT ![f] = t], Project>>]>>) :
            f \in TextFields(Project), t \in Values}
    \cup {With("experience", <<[Job EXCEPT ![f] = <<t, Word(2)>>]>>) : f \in {"highlights", "technologies"}, t \in Values}
    \cup {With("experience", <<[Job EXCEPT !.highlights = <<>>, !.technologies = <<>>,
                                           !.projects = <<[Project EXCEPT !.highlights = <<>>, !.technologies = <<>>]>>]>>)}
    \cup {With("skills", <<[First("skills") EXCEPT !.items = l]>>) : l \in {<<>>} \cup {<<t>> : t \in Values}}
    \cup {With("education", <<[Education EXCEPT !.start_date = a, !.end_date = b]>>) : a \in {0, 2014}, b \in {0, 2018}}
    \cup {With("certifications", <<[Certification EXCEPT !.issued_on = a, !.expires_on = b]>>) : a \in {0, 2019}, b \in {0, 2024}}
    \cup {With("additional_sections", <<[title |-> Word(1), items |-> l]>>) :
            l \in {<<>>} \cup {<<[Extra EXCEPT ![f] = t]>> : f \in DOMAIN Extra, t \in Values}}
=============================================================================
