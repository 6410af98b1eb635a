------------------------------ MODULE FieldRules ------------------------------
(***************************************************************************)
(* The rules of the fields of requests.  A text is the length of what is   *)
(* left when it is stripped, the number and the sort of the blanks around  *)
(* that, what it looks like, and whether folding its case gives its lower  *)
(* case (the sharp s of German becomes two letters).                       *)
(***************************************************************************)
EXTENDS Naturals

Texts == [core : Nat, pad : Nat, blank : {"space", "tab"}, looks : {"plain", "email", "url"},
          folds : BOOLEAN]

Text(core, pad, blank, looks) ==
  [core |-> core, pad |-> pad, blank |-> blank, looks |-> looks, folds |-> TRUE]
EmptyText == Text(0, 0, "space", "plain")

Size(t) == t.core + t.pad
IsBlank(t) == t.core = 0

\* str.strip() takes blanks of any sort, trim() of the database spaces only.
Strip(t) == IF IsBlank(t) THEN EmptyText ELSE [t EXCEPT !.pad = 0, !.blank = "space"]
SqlTrimmedSize(t) == IF t.blank = "space" THEN t.core ELSE Size(t)

\* A rule: the bounds of the length, whether a text is stripped, may be blank, must look like.
Rule(min, max, strips, required, looks) ==
  [min |-> min, max |-> max, strips |-> strips, required |-> required, looks |-> looks]

RequiredShortText == Rule(1, 255, TRUE, TRUE, "any")
ShortText == Rule(0, 255, FALSE, FALSE, "any")
\* Mutant: the rule of an email that may be left out, not blank.
OptionalEmailString == Rule(1, 254, TRUE, TRUE, "email")
BlankableEmailString == Rule(0, 254, TRUE, FALSE, "email")
BlankableHttpUrlString == Rule(0, 2048, TRUE, FALSE, "url")
Phone == Rule(0, 64, FALSE, FALSE, "any")
ResumeLongText == Rule(0, 10000, FALSE, FALSE, "any")
KnowledgeDescriptionText == Rule(0, 100000, FALSE, FALSE, "any")
KnowledgeRelationshipNoteText == Rule(0, 10000, FALSE, FALSE, "any")

\* The length is counted before the text is stripped, what it looks like after.
Accepts(rule, t) ==
  /\ Size(t) \in rule.min .. rule.max
  /\ rule.required => ~IsBlank(t)
  /\ rule.looks # "any" /\ ~IsBlank(t) => t.looks = rule.looks

Taken(rule, t) == IF rule.strips THEN Strip(t) ELSE t
=============================================================================
