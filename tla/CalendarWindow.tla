---------------------------- MODULE CalendarWindow ----------------------------
(***************************************************************************)
(* The calendar of a month, or of a month and the one after it: the days   *)
(* of people and dates recur every year and are shown in the order they    *)
(* come.  KnowledgeGraph models how its rows are read; this module what is *)
(* made of them.  Names are numbers in their casefolded order.             *)
(***************************************************************************)
EXTENDS Integers, Sequences, FiniteSets, SequencesExt

CONSTANTS References,   \* days asked from: [day, month, year]
          Details,      \* rows with a day: [id, kind, name, day, month, year]; 0 is no year
          Links,        \* <<id of a date, id of a person>>
          PersonNames   \* the names of the people

VARIABLES asked,       \* [selection, rows]
          answer       \* [done, calendar]
vars == <<asked, answer>>

December == 12
Windows == {"month", "currentAndNextMonths"}

\* The query of the request: a day and a window.
Selections == {[reference |-> r, window |-> w] : r \in References, w \in Windows}

Months(s) ==
  {s.reference.month} \cup (IF s.window = "month" THEN {} ELSE {(s.reference.month % December) + 1})

PeriodFor(s, month) == IF month = s.reference.month THEN "currentMonth" ELSE "nextMonth"

\* Mutant: the year does not change after December.
OccurrenceYearSame(s, month) == s.reference.year
OccurrenceYearFor(s, month) ==
  IF s.reference.month = December /\ month = 1 THEN s.reference.year + 1 ELSE s.reference.year

\* Rows of people and dates whose day falls in one of the months.
Sources(s, rows) == {row \in rows : row.month \in Months(s)}

NamesBefore(a, b) == a.name < b.name \/ (a.name = b.name /\ a.id < b.id)

\* The people of a date, by name.
RelatedPeople(id) ==
  SetToSortSeq({[id |-> link[2], name |-> PersonNames[link[2]]] : link \in {l \in Links : l[1] = id}},
               NamesBefore)

\* from_memorable_date and from_birthday.
Entry(s, row) ==
  [id |-> row.id, kind |-> row.kind, name |-> row.name, day |-> row.day, month |-> row.month,
   first |-> row.year, period |-> PeriodFor(s, row.month),
   year |-> OccurrenceYearFor(s, row.month),
   people |-> IF row.kind = "memorableDate" THEN RelatedPeople(row.id) ELSE <<>>]

PeriodOrder(e) == IF e.period = "currentMonth" THEN 0 ELSE 1
KindOrder(e) == IF e.kind = "memorableDate" THEN 0 ELSE 1
SortKey(e) == <<PeriodOrder(e), e.day, KindOrder(e), e.name, e.id>>

Before(a, b) ==
  \E i \in 1 .. 5 : SortKey(a)[i] < SortKey(b)[i] /\ \A j \in 1 .. i - 1 : SortKey(a)[j] = SortKey(b)[j]

Summary(entries) ==
  [dates |-> Len(SelectSeq(entries, LAMBDA e : e.kind = "memorableDate")),
   birthdays |-> Len(SelectSeq(entries, LAMBDA e : e.kind = "birthday"))]

Empty == [entries |-> <<>>, summary |-> [dates |-> 0, birthdays |-> 0]]

FromSources(s, rows) ==
  LET entries == SetToSortSeq({Entry(s, row) : row \in rows}, Before)
  IN [entries |-> entries, summary |-> Summary(entries)]

Init ==
  /\ asked \in [selection : Selections, rows : SUBSET Details]
  /\ answer = [done |-> FALSE, calendar |-> Empty]

GetCalendar ==
  /\ ~answer.done
  /\ LET rows == Sources(asked.selection, asked.rows)
     IN answer' = [done |-> TRUE,
                   calendar |-> IF rows = {} THEN Empty ELSE FromSources(asked.selection, rows)]
  /\ UNCHANGED asked

Next == GetCalendar
Spec == Init /\ [][Next]_vars

----------------------------------------------------------------------------
\* Properties

\* Months in the order of time, whatever their numbers.
MonthIndex(year, month) == December * year + month - 1
Reference == asked.selection.reference
Entries == answer.calendar.entries
Span == IF asked.selection.window = "month" THEN 0 ELSE 1

\* Every day shown comes in the window: in the month asked from or the one right after it, in
\* the year that month has, also over the end of a year.
EntriesInWindow ==
  \A i \in DOMAIN Entries :
    LET e == Entries[i]
        ahead == MonthIndex(e.year, e.month) - MonthIndex(Reference.year, Reference.month)
    IN ahead \in 0 .. Span /\ (e.period = "currentMonth" <=> ahead = 0)

\* Entries come in the order of the days they fall on.
EntriesInOrder ==
  \A i, j \in DOMAIN Entries : i < j =>
    LET a == Entries[i]  b == Entries[j]
    IN 31 * MonthIndex(a.year, a.month) + a.day <= 31 * MonthIndex(b.year, b.month) + b.day

\* A calendar shows the days of its window in the order they come, leaves none of them out and
\* shows none twice, and its summary counts them.
EntriesExact ==
  answer.done =>
    /\ EntriesInWindow
    /\ EntriesInOrder
    /\ Len(Entries) =
         Cardinality({row \in asked.rows :
           (row.month + December - Reference.month) % December \in 0 .. Span})
    /\ answer.calendar.summary.dates + answer.calendar.summary.birthdays = Len(Entries)
    /\ answer.calendar.summary.birthdays =
         Cardinality({i \in DOMAIN Entries : Entries[i].kind = "birthday"})
=============================================================================
