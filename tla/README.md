# Verification of personal-workspace

TLA+ models of the parts of this repository whose correctness depends on the order in which
concurrent things happen: HTTP requests, the database transaction each of them runs in, the object
store and the cache beside it, background tasks, and the pages of the client.  `tlc` checks the
models on small instances; `tlapm` proves theorems about them for every instance.

## 1. The system

The repository holds a private workspace for one owner: a Litestar backend (`backend/src`), a
TaskIQ worker and scheduler built from the same code, an Angular client (`frontend/src/app`) and the
deployment around them (`infra`).  State lives in PostgreSQL, in two S3 buckets (`media`, and the
private `knowledge-private`), in Valkey (response cache, task stream, task results) and in the
signals of the client's components.

| Component | State | Operations | Hard behaviour | Correct when |
| --- | --- | --- | --- | --- |
| Request transaction (`infra/ioc/prodivers/database_provider.py`, `infra/post_commit_actions.py`) | the session, the post-commit and rollback actions of a request | enter, commit, roll back, run actions | the commit comes after the response; a commit can raise although it happened; failures are answered before the provider sees them | the action lists reconcile the object store with what was committed |
| Private knowledge files (`core/knowledge/files`, its storages, S3 client and endpoints) | file and link rows, objects of the private bucket | upload, editor image, replace and delete a photo, rename, delete, stream; deletion of an item with its files | two stores, check-then-act on the photo, locks taken file by file, lost answers | every row has its object; every orphan is explained; one photo a person |
| Managed media files (`core/files`, `entrypoints/taskiq/files`) | file rows with `orphaned_at`, objects of the media bucket | upload with deduplication by hash, rename, delete, list, prune of orphans | prune with SKIP LOCKED races uploads that find the same content; objects deleted before the commit | a file handed to a client stays readable for the retention period |
| Cache tools and manual warm (`core/cache_tools`, `infra/valkey`, `entrypoints/taskiq/cache_warm`) | operation records and the "latest" key with a TTL, the task stream, the cached responses | status, clear, enqueue, poll, the worker's run, scheduled warm | at-least-once delivery, an enqueue whose answer is lost, overwritten status, keys that expire | a poller learns the outcome, and the outcome is true |
| Knowledge graph (`core/knowledge/people`, `dates`, `items`) | people, dates, tags, relationships, relationship types | create, update, delete, relate, tag | validation before the write, cascades, touch of related items in lock order | references stay within the author and the kind; symmetric pairs are unique |
| Calendar (`core/calendar`) | none | the entries of a month or of two | several statements of one read see different commits; December; leap days | every entry of the window once, in order, with its year |
| Resumes (`core/resumes`, `infra/resume_export`) | resume documents | create, update, delete, list, export | last write wins between two pages | documents round-trip |
| Authentication (`core/auth`, `middlewares/auth.py`) | a stateless cookie | login, session, logout | pure checks | |
| Client session (`core/auth`, `core/interceptors` of the client) | auth state, overlay, a shared restore | restore, login, logout, recovery from 401 | answers that arrive after a logout or a login | no protected page without a session |
| Unsaved changes (`unsaved-changes.service.ts`) | scopes, sources, baselines | register, commit, discard, leave | a save that completes after another edit | an edit is lost only after a confirmation |
| Tools widget (`tools-widget.component.ts`) | the operation shown, the poll timer | load, clear, warm, poll, retry | answers out of order, a poll that outlives its start | one poll chain; the end is reported once |
| Detail pages (people, dates, resumes) | the document edited, its drafts, requests in flight | load, edit, save, delete, upload | a load that answers after a save; navigation during a save | what is shown is what was saved |
| Markdown editor and tables (`core/editor`) | a text and a selection | table and format commands | cursor arithmetic at boundaries | commands keep the table rectangular |
| Small client services (modal scroll lock, notifications, query state, date picker) | counters, timers | | order of release | |
| i18n catalogue, configuration, OpenAPI schemas, SQL models, query-plan checks, deployment scripts | data and glue | | | |

The components interact through calls inside a request (endpoint, use case, storage), through the
session that the request's objects share, through post-commit and rollback callbacks, through
Valkey (API and worker exchange only the operation id and its record), and through HTTP between the
client and the API.

## 2. The modules

| Module | Of | Composes with |
| --- | --- | --- |
| `KnowledgeFiles` | private files and the request's transaction | refines `KnowledgeFileStore` |
| `KnowledgeFileStore` | what a client of the private files may rely on (abstract) | |
| `KnowledgeFilesProofs` | theorems about `KnowledgeFiles`, its refinement of `KnowledgeFileStore` among them | extends it |
| `ManagedFiles`, `ManagedFilesProofs` | media files and the scheduled prune, and their theorems | |
| `CacheWarm`, `CacheWarmProofs` | the manual warm: API, stream, workers, records; its theorems | |
| `ToolsWidget`, `ToolsWidgetProofs` | the page that starts a warm and polls it; its theorems | `CacheWarm` as its backend, on the same variables, and `CacheWarmProofs` with it |
| `CacheStatus`, `CacheStatusProofs` | counting the keys of a domain while they come and go, and its theorems | |
| `KnowledgeRows` | tables, keys and constraints of the knowledge graph, and what each storage statement selects and changes | |
| `KnowledgeGraph` | every use case of people, dates, tags, types and the calendar as concurrent transactions | extends `KnowledgeRows` |
| `KnowledgeGraphProofs` | theorems about `KnowledgeGraph` | extends it |
| `KnowledgeLists` | filters, orders and pages of the lists of people, dates and resumes | |
| `CalendarWindow` | the entries of a calendar: window, years, order, counts | |
| `FieldRules`, `KnowledgeFields` | the fields of a request through schema, domain, columns and back | `KnowledgeFields` extends `FieldRules` and `SqlModels` |
| `ResumeDocument`, `ResumeExport` | the content of a resume through request, column and answer; the PDF and the Word file | `ResumeExport` extends `ResumeDocument` extends `FieldRules` |
| `ResumeSaves`, `ResumeSavesProofs` | overlapping requests about resumes, and their theorems | |
| `SqlModels`, `SqlMigrations` | the schema the models declare; the migration up and down | `SqlMigrations` extends `SqlModels` |
| `PersonPage`, `PersonPageProofs` | the page that edits a person: form, baseline, files, photo, requests in flight; its theorems | |
| `MC...` | the instances `tlc` runs: model values, initial rows, orders | extend the module they are named after |
| `MCParts` | the parts that share no state, each by itself, in one run | extends `PersonPage`, `ResumeSaves` (as `MCPersonPage`, `MCSaves`) and `CacheStatus`, instantiates the others with `MCFields`, `MCDays`, `MCResumes`, `MCLists` |

Definitions whose comment begins with `Mutant:` are never part of a specification.  Each is a
plausible mistake in the definition that follows it; putting it in that definition's place must
make `tlc` find the property violated that `PROJECT.json` pairs it with.

### 2.1 KnowledgeFiles

A *request* is one HTTP call, and names the file it uploads.  `pc` says at which await its use case
is; every action is what the code does from one await that others can see to the next.

| State | Code |
| --- | --- |
| `items`, `links` | committed rows of `knowledge_items` and of the file table with its link table; both are inserted in one flush and deleted under one row lock, hence one record |
| `objects` | keys of the bucket `knowledge-private` |
| `tx`, `added`, `removed`, `locked` | the request's `AsyncSession`: whether the server has aborted it or a failed flush has deactivated it, what it has inserted and deleted, the rows it locks |
| `rollbackActions`, `postCommitActions` | the lists of `post_commit_actions.py` |
| `failed` | the handler raised |
| `torn`, `leaked` | history: commits that happened but were reported failed, objects whose cleanup a fault lost; they name exactly what the properties have to excuse |

| Action | Code |
| --- | --- |
| `LoadItem`, `LoadFile`, `ListFiles` | the reads that begin `core/knowledge/files/use_cases.py` and `delete_person`/`delete_date` |
| `LockFile`, `RemoveFile` | one file of `delete_files` (`services.py`): the read, the `FOR UPDATE`, the two deletes and the error if the link is gone |
| `RenameFile`, `RejectInput` | `rename_attachment`; the validations of name and content |
| `InsertFile` | the flush of row and link under the foreign key and the partial unique index of photos |
| `PutObject`, `PutFails`, `PutAnswerLost` | the `upload_file` of `services.py:82` and the registration of its removal, which comes after it |
| `TouchItem`, `DeleteItemRow`, `CheckRestrict` | `touch_items`; the delete of the item: row lock first, then the RESTRICT check |
| `StreamFile` | the first read of the lazily opened object, after the response began |
| `Rollback`, `Commit`, `CommitAborted`, `CommitRaises`, `CommitAnswerLost`, `RunRollbackAction`, `RunPostCommitAction`, `Finish` | `provide_async_session` (`database_provider.py:25-48`), branch by branch |
| `StatementError`, `DeadlockVictim`, `Crash` | failures of the database and of the process |

PostgreSQL runs at READ COMMITTED: a statement sees what is committed when it runs.  `Waits(r, q)`
lists what r's next statement has to wait for: row locks of files, the item's row, an uncommitted
photo under the unique index, an uncommitted deletion under a foreign key.  A waiting statement is
disabled until the other transaction ends; a cycle of waiting requests loses one of its members.

`Delivery` is the set of answers to one question about the wiring: does `DatabaseProvider` see the
exception of a handler that failed?  The unit tests of the provider
(`tests/unit/test_infra/test_database_post_commit_actions.py`) send it one.  In the program the
exception handlers answer first, inside the scope that `setup_dishka` opens around the application,
`rollback_required` is never set, and the provider commits what the handler had done.
`Delivery = {TRUE}` is therefore what provider and use cases are written for, `{FALSE}` what the
program does, `{TRUE, FALSE}` either, failure by failure.  The runs about failures take both, and
the theorems hold for every value: what a failure that is committed may leave is part of what the
properties say.  `FailedUploads` are the uploads whose handler failed: the row of such an upload may
stay, without its object (`ReferencedObjectsStored`, `ReadFailsOnlyIfDeleted`).  A handler that
failed has registered no cleanup for what it deleted; committed, it leaves those objects (`Forgotten`).
`FailedCallsLeavePart` says how far it can go: `LosesFile` names the files that a failed call may have
deleted, those of the item it was to delete and the photo it was to replace.

`KnowledgeFileStore` knows only items, links and readable contents, and lets each step change them
by one complete operation: one file appears on one item, one disappears, a photo is replaced, an
item goes with all of its files.  Where failures may be answered before the provider sees them
(`Untold`), it allows besides that some files of an item go and the item stays (`RemoveSome`), and
that a new file has no content.  `AllOrNothing` substitutes `Linked \cap objects` for what is
readable there; the theorem `StoreRefined` says that this is a refinement for any number of calls.

### 2.2 ManagedFiles

One action per await of `core/files/services.py` and of the task in `entrypoints/taskiq/files`.
`orphanedAt` is the table: the marker of every file, or `NoRow`.  Transactions write into `writes`
and hold `locked` until `End`.  `FindDuplicates` reads the rows of the same hash in the order of the
query, `ClaimDuplicate` updates one of them and waits for whoever locks it; `SelectOrphans` is the
`FOR UPDATE SKIP LOCKED` of the prune with its batch, and `begun` is the `current_datetime` that is
read once per scope and can therefore be older than the statement that uses it.  A deletion
removes the object before the row; an object that cannot be deleted fails a call, and the prune
passes to the next file.  `Delivery` and `FailedUploads` are as in 2.1: a failed put whose call is
committed leaves a row without its object, which later uploads of the same content are answered
with.  Bounds: the clock stops at `MaxTime`;
no call begins after `LastCall`, so that every retention ends within the clock.

### 2.3 CacheWarm and CacheStatus

A call creates the record, points the latest key at it, sends the message; these are three writes to
Valkey and three actions.  `status` and `life` are the record and the ticks it has left, `latest`
and `latestLife` the key.  A worker reads the record, marks it running, writes the targets one by
one and records the end; each update of the record is followed by a separate renewal of the latest
key.  The stream delivers at least once: `Redeliver` hands a message that is still pending to
another worker, because its worker died or, with the fault `slow`, only took too long
(`broker.py`).  Tasks that raise are acknowledged like those that return.  The history variables name
what excuses a property: an operation of which a send or a run `raised`, that was sent although the
send raised (`unsure`), whose keys `lapsed`, of which a step was `cut` in two.  Bound:
`MaxDeliveries`, whose last delivery does not crash.

`CacheStatus` is the loop of `get_domain_status`: batches of a SCAN that may repeat keys and promises
only those present throughout, then one TTL read per new key.

### 2.4 ToolsWidget

The signals of `tools-widget.component.ts` (`shown`, `loading`, `clearing`, `warming`, `error`,
`active`), its `timer`, and `flight`: the requests that have been sent and whose answers come in any
order or, for the kinds in `Losses`, not at all.  An answer carries what the server read when it
served the request, which may be old by the time the handler runs.  `reports` counts how often an
end has been announced.  `Open` and `Close` are the page's construction and destruction; after
`Close` answers reach nobody (`takeUntilDestroyed`).

### 2.5 KnowledgeRows and KnowledgeGraph

`KnowledgeRows` is the database: a row is a record with its table's name, `Provides` the composite
keys (id and author, id and kind) it offers to foreign keys, `CascadesFrom` and `RestrictedBy` what
it refers to ON DELETE CASCADE and RESTRICT, `Clash` two rows that a primary key or unique index
does not let stand together (for relationships the unordered pair and the type), `CheckHolds` the
check.  The other operators are the statements of the three storages as sets of rows.  The row of an
item and that of its details are one here: the same transaction creates both, and they go together.

`KnowledgeGraph` runs requests.  A *program* (`UpdatePerson`, `DeleteDate`, ...) is the order in
which a use case awaits its storages; `pc` is the step, each step is one statement, and other
requests run between any two.

| State | Code |
| --- | --- |
| `rows` | committed rows |
| `plus`, `minus`, `aborted` | what an open transaction has written and replaced; whether the server refuses the rest |
| `call`, `pc`, `outcome` | the request, its step, what its handler ends with |
| `seen` | local variables of the use case that outlive the statement that read them: relationships, links, people and dates to touch, types, the page; and how far loops over rows have got |
| `overtaken` | history: rows other requests committed after this one's first step |

A statement sees `View(r)`, the committed rows with its own transaction's changes.  `Deleted` and
`Inserted` say what a step's statement does; `Waits(r, q)` when it has to wait for another
transaction: for a row it has replaced, a unique key it has taken or freed, a referenced row it has
deleted, a referring row it has added.  `Breaks` is a constraint violated; the storages turn that
into a conflict for a few statements only (`Caught`), elsewhere it is a 500.  The UPDATE of
`touch_items` takes its rows one by one in an order the planner chooses (`Aim`).  A cycle of waiting
transactions loses one of its members.  As in `KnowledgeFiles`, `Delivery` says whether the
provider sees a handler's exception: if not, it commits what a refused call has written.
`RefusalsKeepTheRest` says that this is nothing, but for one case: `delete_files` deletes the files of
an item one by one before the item, and comes upon one that another call has deleted meanwhile.

Files are here as far as they meet items: the row that joins a file to its item (`FileRow`, with the
file's own row, which comes and goes with it), `delete_files` as a loop over the files that were
listed (`ListFiles`, `"remove_files"`), and the upload and deletion of attachments beside it
(`UploadAttachment`, `DeleteAttachment`).  Objects, photos and the put-off actions are
`KnowledgeFiles`; the lock that `delete_file` takes and the deletion that follows it are one
statement here, since nothing can come between them.

`Promised` is the abstract specification of each use case, one change of the whole database;
`UndisturbedAsPromised` shows the sequence of statements to do just that when nothing else is
committed in between.

A page of a person can ask for several changes.  The form sends one for each relationship
(`person-detail.component.ts:512-518`, where a relationship that is taken out is dropped from the list of
rows), but the server does not insist (`core/knowledge/people/use_cases.py:302-365`); where a theorem
needs it, it is a hypothesis of that theorem (`OneChangeEach`).

### 2.6 What requests and rows become

- `KnowledgeFields` takes a request through four steps: `ParseRequest` (the schema), `ApplyRules`
  (the domain), `WriteRows` (columns and checks), `ReadRows` (the answer).  `FieldRules` describes a
  text by what rules see of it: the length it has stripped, its blanks, whether it looks like an
  address, whether folding its case gives its lower case.  Each step has a clock of its own, so
  that a request can run over midnight.
- `ResumeDocument` is the same for the content of a resume, as tables of fields for the request, the
  JSON column and the answer, and one walk over the tables.  `ResumeExport` adds both documents, part
  by part, as the sequences of styles and texts they show.
- `CalendarWindow` makes the entries of a month, or of two, from rows; its reference counts months
  from the year zero, so the year that changes after December is not computed the way the code does.
- `KnowledgeLists` reads a list page by page, a statement for the ids and one for the total, while
  rows are stamped, added and deleted.
- `ResumeSaves` is the SQLAlchemy session of a save: it reads twice, may or may not still hold the
  object of the first read, and writes the columns that differ from what it holds.
- `SqlModels` declares each table as its models do; `SqlMigrations` runs the statements of the
  migration, each with what it needs (`Runs`), up and down, in one transaction that a crash loses.

### 2.7 PersonPage

The signals of `person-detail.component.ts`: the person as last answered, the form (its text, the
rows of its relationships, the ids of those taken out), the baseline that unsaved changes compare
with, the busy flags, the photo and the generation of its content request.  `flight` holds requests
that are sent; the API serves them in any order (`Serve`, one whole call of `KnowledgeGraph` or
`KnowledgeFiles`), answers come in any order, fail after having been carried out (`Failed`), or find
the page left.  `HasChanges` and `Leave` are the scope's source and the guard of `unsaved-changes`.

A relationship is a row with an id, another person with the type (`to`, a pair that the unique index
keeps single) and what else can be said of it (`note`: direction and note).  `Edit` adds a row,
changes any row in place, or takes one out; two rows may ask for the same pair.  A row not saved yet
has an id of its own (`NewId`); what a save creates gets the number of its request in its id, and so
does a file, because the server draws new ids (one that comes back would let a page show a file that
was deleted).  A save sends creations, updates and deletions (`Added`, `Updated`, `deleted`).
`SaveRefused` is the 404 for a relationship that is gone, and the 409 for a pair asked for twice
(`PairTwice`) or held by another relationship when its turn comes (`PairHeld`): rows are inserted
first, then changed one by one in the order in which they were created, then deleted.  So a chain of
moves can go through in one order and not in the other, and an exchange never does.

`unsure` says of which kinds of requests one was carried out and its answer lost; the properties
excuse what follows from a save of that sort, but not a pair stored twice (`StoredOnce`).  A row
that names nobody yet is not sent and is left out; the blanks that the payload strips are too.

### 2.8 MCParts

Eight parts have no variable in common and little to interleave.  `part` names the one a behaviour
is about; the variables of the others hold for ever that nothing was asked or stored, and each
property is the part's own.  One run so explores each part by itself: its states are the sum, not
the product.  Three of the parts are extended, so that the run checks the very properties that
theorems state; the names of `ResumeSaves` and `CacheStatus` say what they belong to (`SavesInit`,
`StatusNext`), because they have another machine beside them there.

## 3. The runs

All finish; "pass" means without an error.

| Run | Instance | Question |
| --- | --- | --- |
| `FilesRaces` | 3 requests of any writing operation, one person with a photo and an attachment, no faults, delivered | does every call take effect as a whole (`AllOrNothing`), and has nobody two photos? |
| `FilesFaults` | 2 requests of any operation, all faults, each failure delivered or not | are rows and objects reconciled except for what a named fault or a failed upload excuses, and does a failed call leave no more than `FailedCallsLeavePart` lists? |
| `FilesEnd` | as `FilesRaces`, not delivered, fair | does every request end although they lock files and items in opposite orders? |
| `FilesWiredUpload` | 2 requests, one failing put, not delivered | expected violation, section 5 |
| `MediaFaults` | 2 calls and the prune, one content, all faults, each failure delivered or not | rows have objects but those of failed uploads, retention is kept, answers are stored, duplicates only from overlapping uploads |
| `MediaPruned` | 1 upload, 2 overlapping prunes, batch of one, not delivered, fair | does every orphan go in the end? |
| `WarmRaces` | 1 operation, 2 workers, 3 deliveries, 2 targets, all faults, expiry | is the recorded outcome true and final, does the latest key outlive the record, is nothing left queued for nobody? |
| `WidgetPolls` | 2 operations, every kind of request lost, expiry | one poll chain, one announcement? |
| `WidgetEnds` | 1 operation, 2 deliveries, workers that die, fair | does an accepted warm end, and does the widget stop being busy? |
| `WidgetHint` | as `WidgetPolls` | expected violation, section 5 |
| `GraphRaces` | 2 requests, each pair of 35 calls, failures delivered or not, fair | do the constraints hold of what is committed, is every 500 explained by another call, do calls change only what is theirs, stamp what they joined or parted, do what they promise, and leave nothing when refused, but for files of an item to be deleted? Does every call end? |
| `Parts` | each part of `MCParts` by itself | do fields, calendars, resumes, documents, migrations and lists keep what 2.6 is about; does the page of a person lose no edit and show what is stored; are saves of a resume kept whole unless they overlap; does the count of cached keys lie between those there throughout and those ever there? |

**Bounds.**  A race in the files needs a reader of the old state, a writer and one more that waits
for either: three requests; with faults two, since a fault plays the third's part.  One person with
one photo and one attachment holds every kind of row; requests on different items share no row.  For
media, two uploads of one content and a prune meet in every order; a clock of 3 with a retention of 1
lets a file orphaned by a call be pruned and leaves a tick in which it must not be.  A batch of one
forces a second execution.  For the warm, a message delivered three times to two workers lets one
worker finish, another restart and a third be late; two targets let a warm fail half way.  Two
operations make the widget meet answers of the warm before.

`GraphRaces` has three people, a date, a tag, two types of which one is symmetric, a relationship of
each, a link, two files of a person and one of the date, and a person of another author: a row of
every table, a third person for two to be joined to, and a second file for a deletion to have
deleted before it comes upon the one that is gone.  The 35 calls are every operation, with a page
that drops, reverses, moves or adds a relationship, changes two in turn, adds one from its other
end, asks for oneself, for a pair twice, for a stranger, for a relationship that is not its own.
Properties relate what one call did to what another did in between, so a pair is what a violation
needs; the theorems of section 4 are about any number.

In `Parts` the fields lie at and just past every bound of schema, domain and column, the days at the
ends of months and leap years, and the clock before and after midnight; a resume with something in
every section differs from itself in one place at a time; calendars are asked for at the turn of a
year and of a leap February; lists of five items are read in pages of one or two while two changes
happen; the migration goes up and down and is cut anywhere.

A page that sends three requests has its load and then two that overlap, with up to three edits
between them, and each answer may be lost.  The person has one relationship, and there are two
others to be related to; two new rows and three edits make a pair asked for twice, a pair that is
held, an exchange after a first save, and the retry of a save whose answer was lost.  The count has
a key that stays, one that goes and one that comes.

The saves have one that reads twice, one that commits in between and a third request that
deletes or saves after both; columns hold one of four values, so that a mixture is told from either
whole.  What is checked of saves, the page and the count is also proved for any number.

**Fairness.**  In `ManagedFiles` and `CacheWarm` each process has weak fairness of its own steps:
every await returns because drivers, store and event loop keep working.  `KnowledgeFiles` and
`KnowledgeGraph` need only that something happens as long as something can (weak fairness of one
action), since no request goes on for ever.  PostgreSQL detects deadlocks, so
a blocked request is not blocked for good.  `DeleteObject` has strong fairness: the store may refuse
a deletion, but not the same one for ever, and the scheduler keeps starting the prune.  In
`ManagedFiles` the clock runs. In `CacheWarm` and `ToolsWidget` nothing makes the clock tick, so an
end that comes only from a record's expiry does not count; requests are answered or reported lost by
the browser, timers fire, and the user need do nothing.  `WidgetEnds` loses no load, because a
refresh that fails late is the finding of `WidgetHint`.  It has neither an API nor a store that dies
under an update: then the record does say `queued` or `running` until it expires, which the code
accepts by giving it a time to live.  It has no slow worker for the same reason: the task of a
second worker can mark the operation running after the first recorded its end, and then die with the
message acknowledged.

## 4. What is proved

`KnowledgeFilesProofs` proves, for any number of requests, files, items and any set of faults, from
`FilesAssumption` only (files, requests and initial links are what the tables' keys allow; `Rank`
orders the files):

- `TypeCorrect`: `Spec => []TypeOK`, including that a file is linked once.
- `Invariance`: `Spec => []IInv`, the inductive invariant below.
- `CleanupSafe`: `Spec => CleanupSparesReferenced`.  Whatever races, fails or crashes, and whether
  or not failures are delivered, no cleanup deletes the object of a committed row, except one whose
  commit answer was lost.
- `ObjectsStored`: `Spec => []ReferencedObjectsStored`.  Every committed row has its object, but
  for lost commit answers and for the row of an upload that was itself answered with an error.
  `FilesWiredUpload` shows that the second exception is needed.

*The argument.*  That a cleanup is harmless cannot be seen in the step that runs it; it follows from
who can have registered it.  A rollback action of request r is only ever r's own new file
(`OwnRollback`), and nobody else links that file (`OwnLinks`), which is linked in the committed
state only once r has committed (`LinkedAfterCommit`); so while r's rollback actions run, the file
is unlinked unless the commit did happen (`UndoneNotLinked`).  A post-commit action is a file r has
deleted (`CleanupMatchesDeletion`), and what a transaction deletes was committed when it was locked
(`DeletedWereCommitted`); after the commit it is unlinked and can never be linked again, since each
file is linked by the one request that names it.  An aborted transaction has nothing to publish
(`AbortedIsEmpty`).  `IInv` is the conjunction of these with `TypeOK`; one lemma per group of
actions shows that it is preserved.  `ObjectsStored` adds that a request past its put has its object
until it commits (`StoredBeforeCommit`).

The rest of the module builds on that invariant.

- `OnePhoto`: `Spec => []OnePhotoPerPerson`, whether or not failures are delivered.  An uncommitted
  photo is of a person whose committed photo its own transaction deletes, and no other transaction is
  adding one (`PendingPhotos`): the insertion waits for the unique index, so the commit of one photo
  finds no other.
- `FilesHaveItems`: `Spec => []LinksHaveItems`, likewise.  The transaction that deletes an item
  deletes every file it has when it commits (`DeletesAllFiles`), since from its lock on the item's row
  nobody can add one.
- `OrphansExplained`: `Spec => []OrphansAccountedFor`, likewise.  A handler that failed
  is past its last await (`FailureEndsHandler`), an upload is registered for removal right after it is
  stored (`UploadedInOrder`), and a handler that returns has registered the cleanup of all it deleted
  (`CleanupComplete`); so an object without a row has a request that will remove it, or a
  named fault, or a failure the provider did not see, took that removal away.
- `ReadFails`: `Spec => ReadFailsOnlyIfDeleted`, from `ObjectsStored`.
- `RolledBackUploadsLeaveNothing`: `Spec => []RolledBackUploadsUndone`.  An upload that ends with a
  rollback leaves no row, and no object but one a named fault has stranded; what `FilesWiredUpload` shows
  happens only because the provider does not roll back.
- `FailedCallsKeepTheRest`: `Spec => FailedCallsLeavePart`.  A handler that failed is past its last
  await, so what it leaves is what it had written until then: a single deletion that failed has
  written nothing (`SingleDeletions`), and the deletion of an item fails, if it does, before the item
  is deleted or without it.
- `StoreRefined`: `Spec => AllOrNothing`, if no commit answer is lost (`"commit_unknown" \notin Faults`,
  since the rollback that follows such a commit deletes an object of a committed row).  All other
  faults are allowed, and any `Delivery`: the abstract store allows failed calls to be kept in part
  exactly when `FALSE \in Delivery`.

*The refinement.*  What clients see changes when a transaction commits, and then by everything the
transaction has written.  That this is one operation of the abstract store has to be known before:
an upload adds only its own file (`OwnAdditions`); whatever else a call has deleted or has still to
delete is one file, of its item, and the photo if it deals with photos (`OwnDeletions`); a call that
has no business deleting has deleted nothing (`NoDeletions`); and the step a request is at belongs to
its operation (`OpSteps`).  The deletion of an item is whole because of `DeletesAllFiles`, and the
removal of an object is a stutter because its file is not linked (`CleanupSafe`).  Hence exactly the linked
files are readable in every state (`LinkedStayReadable`), and `StoreInv` maps each step.

`CacheStatusProofs` proves `TypeCorrect` and `PlausibleCount` for any finite set of keys.  The count
is the size of a set of keys that nobody computes: those that were found with a time to live.  The
invariant says that there is one (`\E C : Counts(C)`), that every key in it was there at some time,
and that it holds every key there throughout that the scan has returned.

`ManagedFilesProofs` is about any number of uploads, deletions and executions of the prune, any
batch, retention, clock and faults, from `ManagedFilesAssumption` (files that exist at first have
different contents; `Rank` orders files).

- `TypeCorrect` and `Invariance`, with the inductive invariant below.
- `OrphansExplained`: `Spec => []OrphansAccountedFor`; `OverlapOnly`: `Spec =>
  []DuplicatesOverlapped`; `KeptForRetention`: `Spec => ReadableUntilRetention`.  None depends on
  whether failures are delivered.
- `RowsExplained`: `Spec => []RowsHaveObjects` and `AnsweredStored`: `Spec => AnswersAreStored`,
  likewise: the row of an upload that was answered with a failure may be without its object, and no
  other but those deleted or torn.

*The argument.*  Everything is deleted by somebody who holds the row's lock, and no two hold one
(`LocksHold`).  Transactions write only what they hold and the row they insert (`WritesHeld`), so
the reason for which a file was chosen for deletion is still true when it is deleted: a claim of a
duplicate, which would make it false, needs the lock (`TodoHeld`).  The object goes before its row
and stays gone, since each name is put by one call, before its row is committed (`DeletedStay`,
`PutAfterInsert`, `OwnRowLast`); so an upload that claims a row finds its object, but for a torn
one.  That two rows of one content imply an overlap is not seen when the second is committed: while
an upload is going to insert, every row of its content is among those it has seen and not yet
claimed, or was committed by a call that overlapped with it (`SeenOrOverlapped`, `ActiveOverlap`).

`CacheWarmProofs` is about any number of operations and workers, any finite set of targets, any
number of deliveries, time to live and faults.

- `TypeCorrect`, `Invariance`.
- `NobodyWaitsForNothing`: `Spec => []QueuedHasMessage`; `OutcomesTrue`: `Spec => []OutcomeIsTrue`;
  `LatestFound`: `Spec => []LatestOutlivesRecord`; `EndsStay`: `Spec => EndIsFinal`.

*The argument.*  The parts of `IInv` say what a step relies on that an earlier one found out, while
clock, redelivery and the other worker may intervene.  What a worker has no longer to write is in
the cache or was removed since (`Filled`), and who records a failure has met one (`Raised`): hence
true outcomes, one worker at a time or several.  Past the first update no record is `queued` again
(`NotQueued`), and before its delivery a message is in no worker's hands (`Unsent`, `Undelivered`):
hence the message of whatever is queued.  The latest key and the record are renewed in two steps;
between updates the key has at least as long to live (`LatestKept`).  A message delivered once, by a
call that knew it, has one worker, and this alone writes the end (`Single`).

`ToolsWidgetProofs` assumes of the constants what `CacheWarm` does.

- `BackendAsSpecified`: `Spec => P!Spec`, where `P` is `CacheWarmProofs` on the widget's variables:
  every step of the widget is one of the backend or leaves it alone.  So every theorem about the
  warm holds under the widget.
- `TypeCorrect`, `Invariance`, and `OneAtATime`: `Spec => []OneChain`.

*The argument.*  `OneChain` is about the widget, but not inductive without its backend: that a warm
just accepted has not been announced before needs that whatever the widget has heard of was begun by
a call (`HeardOf`), and that no call is begun twice (`P!IInv`).  A request or a timer stands alone
(`Alone`), since posts, polls and timers are made by the answer to the one before; a load is the
exception, and comes when nothing is shown yet (`NothingYet`) or after an end (`LoadsAfterEnds`).
An end is announced when the widget stops showing the operation as running, and never again
(`Announced`).

`KnowledgeGraphProofs` is about any number of requests, whatever they ask for and whether or not
failures are delivered, from `GraphAssumption` (requests ask for what their types allow, the initial
rows keep the constraints), `CallsAssumption` (requests and the database are finite; new items and
types get ids nobody has, which the code draws as UUIDs) and `IdsAreOrdered`.

- `JoinedOnce`: `Spec => []PairsOnce`.
- `RefusedKeepTheRest`: `Spec => RefusalsKeepTheRest`; `OwnRowsChanged`: `Spec => OwnRowsOnly`.
- `CrashesAccountedFor`: `Spec => []CrashesExplained`.
- `RelationshipsAgree`: `Spec => []BothEndsAgree`, if no request changes a relationship twice, or changes
  and removes it (`OneChangeEach`, 2.5).

*The argument.*  The server checks a constraint against what one transaction sees, and commits the
union of what several saw.  That the union keeps the constraints depends on the waiting.  `GraphInv`
says of the views that committed rows, and every transaction's view, keep keys and references
(`Consistent`), where an aborted transaction has only to keep keys, and references that cascade
may be open between the deletion of an item and what goes with it; and of open transactions that
they are apart (`Apart`): they have replaced different rows, none has written a row that clashes
with another's, and none refers to what another has taken away.  A statement keeps `Apart` because
it waited, and its own view because it broke nothing (`WriteApart`, `WriteView`).  When q commits,
r's view becomes q's with r's changes; that a key some row of it refers to is still provided is
`KeyKept`, where the provider can be what q left, what q wrote or what r wrote.  `Unique` makes the
provider that q saw and the one that r saw one row.  What remains is that two relationships of
one type have one author, because the row of the type is one (`InvGivesPairs`).

The next two theorems need where in its program a request is.  `RefusedClean` says that up to the
program's first write nothing is written, and that after it the one step that could refuse, the load
that answers a page, finds the item in the transaction's own rows.  A deletion is the exception:
until its item is deleted it has deleted files of that item and nothing else (`FilesOnly`), and if
it is refused after that, one of the files it had listed was deleted by another call (`Lost`).
`Owned` says that all a transaction has written is its author's, and that what the deletion of an
item leaves dangling is too, since references carry the author.  `Checked` says that the
relationships a page may remove have been seen to be of its person, but for those another call has
moved since.

`CrashesExplained` is about what a request has found out at one step and relies on at a later one:
`Known` lists it, program by program (the person, its tags, the types and the people asked for are
there; the people of the relationships read are there; the type found unused is unused).  `Relied`
says that it holds as long as nobody overtakes the request, and `CrashInv` adds what makes a count a
proof of presence (`Sized`: the code compares the number of rows found with the number of ids, which
says that all are found only of finite sets) and what keeps an insertion from failing (`Fresh`).  A
read establishes its part (`KnownRead`), a write of the request's own keeps it (`KnownWrite`: while
a person or a date is updated no key goes), another's commit makes it empty or sets `overtaken`
(`CrashEnds`); and whoever knows it meets no missing row and breaks no constraint but those the
storages catch (`FoundIfKnown`, `TypesIfKnown`, `HoldsIfKnown`).

`RelationshipsAgree` follows a page through its program (`PagesKept`).  Until they are changed the
relationships it asks to change are there, of one of its ends each (`ToChange`); the ones created and
changed stay as they were written until the page is read back, because no later change or removal is of the
same one (`OneChangeEach`) and only an overtaking request could take them; and the last reading
therefore finds each.  That it is the same row from the other end is arithmetic of the two directions,
of a row whose ends differ (`NoLoops`).  Without the hypothesis the theorem is false: a request
that changes one relationship twice, which no form sends, is answered with the second value only.

`ResumeSavesProofs` is about any number of requests, resumes and values, from `SavesAssumption` (what is
created gets an id that nothing had).

- `TypeCorrect`, `Invariance`.
- `UndisturbedSavesWhole`: `Spec => []SavedWhole`; `MixturesOverlapped`: `Spec =>
  []MixedOnlyByOverlap`; `SuccessIsKept`: `Spec => []SavedWasKept`.
- `SavesKept`: `Spec => []SavesHold`, their conjunction, which the run `Parts` checks.

*The argument.*  The save writes only the columns that differ from what its session holds, so that
the row is what was sent needs that the session still holds what is stored: it does while
no change of that resume has been committed since its first statement (`Fresh`), and the lock keeps
that so from the write to the commit (`Locks`).  Otherwise each column was asked for or there at first
(`LeftColumns`).  A resume that was deleted does not come back, so a save that is about to commit, and
found its row, commits before the deletion (`Gone`).  Nobody finds a resume before it is created
(`NotYetCreated`), and each request changes a row once (`LogOnce`), which makes "before" well defined.

`PersonPageProofs` is about any number of requests and files, any texts and people, and answers that come in
any order or not at all, from `PageAssumption`.

- `TypeCorrect`, `Invariance`.
- `NoEditLost`: `Spec => []EditsKept`; `PageShowsWhatIsStored`: `Spec => []ShownAsStored`.

*The argument.*  Its steps have three shapes: a request is sent (`SentAs`), served (`ServedAs`) or
answered (`AnsweredAs`); lemma `Steps` says so, and what follows is about shapes.  Busy flags let
one request of a kind be under way at a time, and a save and a deletion never together (`OneEach`);
before the person is loaded there is nothing but the load (`LoadFirst`).  A form has a row for each
relationship of the person it was filled from, unless it has marked it as deleted, and rows that are
new (`Made`), so a save that is served leaves just what the form shows, whatever was changed in
place (`Left`), and what is stored differs from what the page knows only by the one save that is
answered next (`InStep`): hence no edit is lost.  As long as the two do not differ, what the API
refuses a save for can be seen on the page (`Reason`).  What is stored has each id and each pair
once, and none of the ids that saves to come will give (`GoodRows`): a save is carried out only if
it asks for no pair twice and for none that is held.  For files, the answer to an upload or a
deletion adds or takes away one file from what the page knew.  What is stored and what the page
knows differ by exactly the files whose answers are under way (`Parted`), which needs that no other
answer is about the same file (`Attaching`) and that ids are new (`FilesNumbered`); a content answer
counts if its number is the generation's, and then it is of the person's photo (`FilesInStep`).

*Model-checked only.*  Liveness (`EveryRequestEnds`, `OrphansArePruned`, `AcceptedWarmEnds`,
`BusyEnds`, `EveryCallEnds`), because the prover has no rule for fairness and ENABLED; of
`KnowledgeGraph`, `NeighboursStamped` and `UndisturbedAsPromised`, which compare a whole program's
effect with one change of the database and would need, for each program, what every prefix of it has
written; and the seven properties of `Parts`.  Those are about given inputs, walked over by recursive
functions or operators of the community modules; what such a function computes for every input takes
an induction over data, which the prover's library cannot express.

## 5. Findings

- **A failed upload is committed** (`FilesWiredUpload`, `FailedUploadsUndone`; the application that answers
  failures is wrapped by the request scope in `initializers/main.py:166`).
  `docs/security-threat-model.md:52` promises a cleanup on rollback for new uploads.  Because failures are
  answered before the provider sees them (2.1), a put that fails leaves a row without an object, and
  the cleanup does not run.  By the same wiring a photo replacement that is refused after the
  old photo's deletion commits that deletion, and leaves the old object behind; a deletion of a
  person or a date that comes upon a file another call has deleted is refused, and the files before
  it are gone while the item stays; and a later upload of the same content to the media bucket is
  answered with the row of one whose put has failed.
- **The retry of a poll can disappear** (`WidgetHint`, `RetryHintHolds`).  A refresh asked for by the
  end of one warm and failing after a poll of the next has failed puts its error in the
  place of the poll's; the hint under it points at buttons that stay disabled.

Behaviour that follows from the design and is stated as an excuse in the properties: a put whose
answer is lost and a crash between commit and cleanup leave objects that nothing collects (the
private bucket has no scan); a commit that raises although it happened deletes the object of a
committed row; two overlapping uploads of one content are stored twice; a redelivered warm reopens a
recorded end.

Read from the models of the knowledge graph and of its page:

- `update_person` creates, then updates, then deletes relationships
  (`core/knowledge/people/use_cases.py:257-286`).  A save that takes a relationship out and adds the
  same person and type anew, that exchanges two, or that moves one to the place of another which is
  moved or deleted after it, meets the unique index and is refused as a conflict.
- A save whose answer is lost has been carried out, but the form still calls its new relationships
  new and its deleted ones deleted: a retry that adds or deletes is refused until the page is loaded
  again.  It stores nothing twice.
- Fields stay open to edits while a save is under way; its answer replaces them.  An answer to a
  save can also replace a photo or an attachment that changed after the save was served.
- The load of an outdated photo that fails still shows its error.
- A person read while another is deleted can answer 500: the relationships and the names are read by
  statements of their own.  Types and tags found unused and then used before they are deleted do the
  same.

And from the others:

- A last, first and middle name that are each short enough can be too long for the name shown in
  lists: the database refuses them, and the answer is 500.  The name of a tag whose letters fold to
  others than their lower case (the sharp s) is stored and not found by that name again.
- Pages are offsets: while items are stamped, a walk by the most recent change misses none but those
  changed on the way, and may repeat; by the least recent it never repeats others, and may miss.
- 29 February has its entry in every year.  A certification that only expires shows that date where
  the date of issue would stand.
- Saves of one resume that overlap can leave the title of one over the content of the other: the
  session writes the columns that differ from what it read.
- The examples of the resume endpoints (`api/resumes/endpoints.py:62-86`, and from 124 on) use keys
  that the schema of the request refuses.  `list_date_references_for_person`
  (`core/knowledge/dates/use_cases.py:247`) has no caller.

## 6. Not modelled

- **Authentication**: each check is a function of one request and a stateless cookie.
- **Client session**: one status that a login, a logout or a refused request sets.  Its one race, a
  late 401 that clears a session begun meanwhile (`auth.interceptor.ts:20`), is among the hazards; a
  model of it would say what the handler says.
- **Detail and list pages, unsaved changes**, in part: the pages of dates and resumes take fewer of
  the steps of `PersonPage`, and list pages only read; several sources of unsaved changes on one
  page and the fingerprints of values are left out.
- **Markdown editor, small client services**: sequential editing of one text; counters and timers of
  one page.
- **Catalogue of texts, configuration and wiring, query-plan tool, command line, deployment, CI**:
  data and sequential glue.  The constants that matter (retention, batch, times to live, sizes of
  fields, the order of exception handlers and provider) are in the modules that depend on them.
- Of managed files: attaching to a usage and detaching have no caller; image processing and reads
  change nothing.  Of the cache: the scheduled warm writes the same targets without a record, the
  invalidation after a mutation has no caller, and with the cache turned off nothing is stored.
- Of the schema: expressions and orders inside an index, the text of checks, the migration's offline
  mode.
- Of documents: fonts, spacing, file formats.  Of texts: their characters, the NUL character, which
  the database refuses, and the wildcards of a search.
- The database's clock and zone: they are taken to be the program's, UTC.

## 7. What could come next

1. `NeighboursStamped` and `UndisturbedAsPromised` as theorems: they need what each program has
   written, besides what it has read.
2. A page of dates beside that of a person, with the other page's saves between: the composition of
   `PersonPage` with `KnowledgeGraph` instead of an API that serves one call at a time.
