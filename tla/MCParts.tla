-------------------------------- MODULE MCParts --------------------------------
(* The parts that share no state with others, each by itself, in one run.  A part that has not  *)
(* been chosen does nothing: what its variables hold is not one of its states.                  *)
EXTENDS MCPersonPage, MCSaves, CacheStatus, Integers, Sequences, FiniteSets

VARIABLES
  part,
  asked, answer,
  schema, work, running, statement, failed,
  items, clock, filters, page, step, ids, shown, total, touched, removed

asking == <<asked, answer>>
migrating == <<schema, work, running, statement, failed>>
walking == <<items, clock, filters, page, step, ids, shown, total, touched, removed>>
editing == vars
saving == savesVars
counting == statusVars

F == INSTANCE MCFields
Fields == INSTANCE KnowledgeFields WITH Requests <- F!MCRequests, Clocks <- F!MCClocks

D == INSTANCE MCDays
Calendar == INSTANCE CalendarWindow WITH
  References <- D!MCReferences, Details <- D!MCDetails, Links <- D!MCLinks, PersonNames <- D!MCPersonNames

R == INSTANCE MCResumes
Resumes == INSTANCE ResumeExport WITH Resumes <- R!MCResumes

Migrations == INSTANCE SqlMigrations

L == INSTANCE MCLists
Lists == INSTANCE KnowledgeLists WITH
  Rows <- L!MCRows, NewRows <- L!MCNewRows, Asked <- L!MCAsked, MaxChanges <- 2

ASSUME PartsAssumption == Lists!ListsAssumption

----------------------------------------------------------------------------
None == "none"
NothingAsked == asked = None /\ answer = None
NoMigration == schema = None /\ work = None /\ running = None /\ statement = None /\ failed = None
NoWalk ==
  /\ items = None /\ clock = None /\ filters = None /\ page = None /\ step = None
  /\ ids = None /\ shown = None /\ total = None /\ touched = None /\ removed = None
NoPage ==
  /\ stored = None /\ person = None /\ form = None /\ baseline = None /\ busy = None
  /\ photo = None /\ generation = None /\ flight = None /\ sent = None /\ place = None
  /\ edits = None /\ edited = None /\ unsure = None /\ crossed = None
\* No resume is stored and nobody has changed one.
NoSaves ==
  /\ row = [r \in ResumeId |-> NoRow] /\ log = <<>>
  /\ doing = [p \in Call |-> Ask("get", 1, "a", "a")] /\ at = [p \in Call |-> "start"]
  /\ held = None /\ first = None /\ loaded = None /\ left = None /\ began = None
NoCount ==
  /\ present = None /\ pc = None /\ batch = None /\ seen = None /\ count = None
  /\ returned = None /\ stable = None /\ ever = None

PartsInit ==
  \/ /\ \/ part = "fields" /\ Fields!Init
        \/ part = "calendar" /\ Calendar!Init
        \/ part = "resumes" /\ Resumes!Init
     /\ NoMigration /\ NoWalk /\ NoPage /\ NoSaves /\ NoCount
  \/ /\ part = "migrations" /\ Migrations!Init
     /\ NothingAsked /\ NoWalk /\ NoPage /\ NoSaves /\ NoCount
  \/ /\ part = "lists" /\ Lists!Init
     /\ NothingAsked /\ NoMigration /\ NoPage /\ NoSaves /\ NoCount
  \/ /\ part = "page" /\ Init
     /\ NothingAsked /\ NoMigration /\ NoWalk /\ NoSaves /\ NoCount
  \/ /\ part = "saves" /\ SavesInit
     /\ NothingAsked /\ NoMigration /\ NoWalk /\ NoPage /\ NoCount
  \/ /\ part = "count" /\ StatusInit
     /\ NothingAsked /\ NoMigration /\ NoWalk /\ NoPage /\ NoSaves

PartsNext ==
  \/ /\ \/ part = "fields" /\ Fields!Next
        \/ part = "calendar" /\ Calendar!Next
        \/ part = "resumes" /\ (Resumes!Next \/ Resumes!ExportNext)
     /\ UNCHANGED <<part, migrating, walking, editing, saving, counting>>
  \/ /\ part = "migrations" /\ Migrations!Next
     /\ UNCHANGED <<part, asking, walking, editing, saving, counting>>
  \/ /\ part = "lists" /\ Lists!Next
     /\ UNCHANGED <<part, asking, migrating, editing, saving, counting>>
  \/ /\ part = "page" /\ Next
     /\ UNCHANGED <<part, asking, migrating, walking, saving, counting>>
  \/ /\ part = "saves" /\ SavesNext
     /\ UNCHANGED <<part, asking, migrating, walking, editing, counting>>
  \/ /\ part = "count" /\ StatusNext
     /\ UNCHANGED <<part, asking, migrating, walking, editing, saving>>

PartsSpec == PartsInit /\ [][PartsNext]_<<part, asking, migrating, walking, editing, saving, counting>>

----------------------------------------------------------------------------
\* What the schema and the domain accept the database stores, but for names too long together
\* and tags whose letters fold to others.
AcceptedIsStored == part = "fields" => Fields!AcceptedIsStored
\* An answer has every field of the request but the blanks around it, and can be sent back.
AnswerRoundTrips == part = "fields" => Fields!AnswerRoundTrips
\* A calendar shows the days of its window, in the right year, in the order they come, each once.
EntriesExact == part = "calendar" => Calendar!EntriesExact
\* A resume comes back from its column as it was taken, and can be saved again as it is.
ResumeComesBack == part = "resumes" => Resumes!ResumeComesBack
\* A document shows all there is in the resume once, each part under its heading, as the other
\* format does.
DocumentsComplete == part = "resumes" => Resumes!DocumentsComplete
\* No statement of the migration fails, the migrated database is the one the models declare, and
\* taken back it is empty, also where the process was cut short.
MigratedAsDeclared == part = "migrations" => Migrations!MigratedAsDeclared
\* A walk through the pages of a list misses or repeats only what changes on the way account for.
WalksAccountForChanges == part = "lists" => Lists!WalksAccountForChanges
=============================================================================
