---------------------------- MODULE KnowledgeLists ----------------------------
(***************************************************************************)
(* The lists of people, dates and resumes, read page by page while items   *)
(* change.  Every page is a request of its own: a statement for the ids of *)
(* the page and one for the total, each seeing what is committed when it   *)
(* runs.  The text searched for either occurs in an item or not.           *)
(* Names, times and days of the year are numbers.                          *)
(***************************************************************************)
EXTENDS Naturals, Sequences, FiniteSets, SequencesExt

CONSTANTS Rows,        \* items, each [id, name, stamp, day, words, tags, people]
          NewRows,     \* items that may be created during the walk
          Asked,       \* what lists may be asked for: [kind, sort, search, tags, person, size]
          MaxChanges   \* bound: changes during one walk

\* What the constants must be.
ListsAssumption ==
  /\ \A a, b \in Rows \cup NewRows : a.id = b.id => a = b
  /\ \A f \in Asked : f.size \in 1 .. 100

VARIABLES items,       \* committed items
          clock,       \* time of the last change
          filters,     \* what this reader asks for
          page,        \* the page it reads next; 0 once it has read the last
          step,        \* the next statement
          ids,         \* the ids of the page being read
          shown,       \* the ids of the pages answered, in order
          total,       \* the last total_count
          touched,     \* items changed since the walk began
          removed      \* whether one was deleted since
vars == <<items, clock, filters, page, step, ids, shown, total, touched, removed>>

----------------------------------------------------------------------------
\* Filters

\* provide_person_filters and provide_knowledge_date_filters: a blank search is none.
Blank == {"", " "}
Searched(f) == f.search \notin Blank

Tagged(row, f) == f.tags \subseteq row.tags

PersonMatches(row, f) ==
  /\ Searched(f) => f.search \in row.words
  /\ Tagged(row, f)

DateMatches(row, f) ==
  /\ Searched(f) => f.search \in row.words
  /\ Tagged(row, f)
  /\ f.person # "none" => f.person \in row.people

\* Resumes are not searched.
Matching(f) ==
  {row \in items :
     CASE f.kind = "person" -> PersonMatches(row, f)
       [] f.kind = "date" -> DateMatches(row, f)
       [] f.kind = "resume" -> TRUE}

----------------------------------------------------------------------------
\* Orders: every one ends with the id, so none leaves two rows in either order.

RecentFirst(a, b) == a.stamp > b.stamp \/ (a.stamp = b.stamp /\ a.id > b.id)
ByName(a, b) == a.name < b.name \/ (a.name = b.name /\ a.id < b.id)
ByDay(a, b) == a.day < b.day \/ (a.day = b.day /\ ByName(a, b))

\* Mutant: newest and oldest are exchanged.
PersonBeforeExchanged(sort, a, b) ==
  CASE sort = "updated_newest" -> RecentFirst(b, a)
    [] sort = "updated_oldest" -> RecentFirst(a, b)
    [] sort = "name_asc" -> ByName(a, b)
    [] sort = "name_desc" -> ByName(b, a)
PersonBefore(sort, a, b) ==
  CASE sort = "updated_newest" -> RecentFirst(a, b)
    [] sort = "updated_oldest" -> RecentFirst(b, a)
    [] sort = "name_asc" -> ByName(a, b)
    [] sort = "name_desc" -> ByName(b, a)

DateBefore(sort, a, b) ==
  CASE sort = "date_asc" -> ByDay(a, b)
    [] sort = "date_desc" -> ByDay(b, a)
    [] OTHER -> PersonBefore(sort, a, b)

Ordered(f) ==
  SetToSortSeq(Matching(f),
    LAMBDA a, b : IF f.kind = "date" THEN DateBefore(f.sort, a, b) ELSE PersonBefore(f.sort, a, b))

----------------------------------------------------------------------------
\* Pages

Offset(f, p) == (p - 1) * f.size

ListedIds(f) == LET rows == Ordered(f) IN [i \in DOMAIN rows |-> rows[i].id]
PageIds(f, p) ==
  SubSeq(ListedIds(f), Offset(f, p) + 1, Min({Offset(f, p) + f.size, Len(ListedIds(f))}))

TotalPages(count, size) == IF count > 0 THEN (count + size - 1) \div size ELSE 0

----------------------------------------------------------------------------
Init ==
  /\ items = Rows
  /\ clock = 0
  /\ filters \in Asked
  /\ page = 1
  /\ step = "page"
  /\ ids = <<>>
  /\ shown = <<>>
  /\ total = 0
  /\ touched = {}
  /\ removed = FALSE

ReadPage ==
  /\ page > 0 /\ step = "page"
  /\ ids' = PageIds(filters, page)
  /\ step' = "count"
  /\ UNCHANGED <<items, clock, filters, page, shown, total, touched, removed>>

ReadCount ==
  /\ step = "count"
  /\ total' = Cardinality(Matching(filters))
  /\ shown' = shown \o ids
  /\ page' = IF page < TotalPages(total', filters.size) THEN page + 1 ELSE 0
  /\ step' = "page"
  /\ UNCHANGED <<items, clock, filters, ids, touched, removed>>

Walking == page > 0 /\ clock < MaxChanges

\* A neighbour is stamped, or a page saved without a change of what the filters see.
Touch ==
  /\ Walking
  /\ clock' = clock + 1
  /\ \E row \in items :
       /\ items' = (items \ {row}) \cup {[row EXCEPT !.stamp = clock + 1]}
       /\ touched' = touched \cup {row.id}
  /\ UNCHANGED <<filters, page, step, ids, shown, total, removed>>

Create ==
  /\ Walking
  /\ clock' = clock + 1
  /\ \E row \in NewRows :
       /\ \A other \in items : other.id # row.id
       /\ items' = items \cup {[row EXCEPT !.stamp = clock + 1]}
       /\ touched' = touched \cup {row.id}
  /\ UNCHANGED <<filters, page, step, ids, shown, total, removed>>

Delete ==
  /\ Walking
  /\ clock' = clock + 1
  /\ \E row \in items :
       /\ items' = items \ {row}
       /\ touched' = touched \cup {row.id}
  /\ removed' = TRUE
  /\ UNCHANGED <<filters, page, step, ids, shown, total>>

Walked == page = 0 /\ UNCHANGED vars

Next == ReadPage \/ ReadCount \/ Touch \/ Create \/ Delete \/ Walked
Spec == Init /\ [][Next]_vars

----------------------------------------------------------------------------
\* Properties

Shown(id) == {i \in DOMAIN shown : shown[i] = id}
Repeated == {id \in ToSet(shown) : Cardinality(Shown(id)) > 1}
Missing == {row.id : row \in Matching(filters)} \ ToSet(shown)

Wanted(row) ==
  /\ filters.tags \ row.tags = {}
  /\ Searched(filters) => filters.search \in row.words
  /\ filters.person \in row.people \cup {"none"}

\* A walk that nothing disturbs shows every item asked for once, in order, in as many pages
\* as the total says, and no other item.
QuietWalkComplete ==
  clock = 0 =>
    /\ shown = ListedIds(filters) /\ total = Len(shown)
    /\ ToSet(shown) = {row.id : row \in {r \in items : Wanted(r)}}

\* Offsets shift under a walk by time in one direction only: the most recent first misses
\* nothing but what changed on the way while none is deleted, and the least recent first
\* shows nothing twice but what changed, whatever happens.
ShiftsHurtOneWay ==
  /\ filters.sort = "updated_newest" /\ ~removed => Missing \subseteq touched
  /\ filters.sort = "updated_oldest" => Repeated \subseteq touched

\* A neighbour that is stamped moves the lists by time and no other: by name and by day the
\* walk neither repeats nor misses an item.
StampsMoveTimeOnly ==
  (/\ ~removed /\ touched \subseteq {row.id : row \in Rows}
   /\ filters.sort \in {"name_asc", "name_desc", "date_asc", "date_desc"}) =>
    Repeated = {} /\ Missing = {}

\* However the rows under a walk are stamped, added or deleted while it reads its pages, it
\* misses or repeats only what a change on the way and the order asked for account for.
WalksAccountForChanges ==
  page = 0 => QuietWalkComplete /\ ShiftsHurtOneWay /\ StampsMoveTimeOnly
=============================================================================
