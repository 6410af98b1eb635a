--------------------------- MODULE KnowledgeFiles ---------------------------
(***************************************************************************)
(* Private files of the Knowledge section: concurrent requests that        *)
(* upload, replace, rename, delete and read files, the database            *)
(* transaction each of them runs in, the object store they write outside   *)
(* that transaction, and the actions that reconcile the two when the       *)
(* transaction ends.                                                       *)
(*                                                                         *)
(* A request is one HTTP call.  Its handler runs the use case step by      *)
(* step, one action per await that other requests can see; then            *)
(* DatabaseProvider commits or rolls back and runs the post-commit or the  *)
(* rollback actions.  A file's metadata row and its link row are inserted  *)
(* in one flush and deleted under one row lock in one transaction, and are *)
(* one record here.  Names, sizes, MIME types and timestamps are left out. *)
(***************************************************************************)
EXTENDS Naturals, FiniteSets

CONSTANTS
  Request,      \* calls; a call that uploads names its new file by itself
  Stored,       \* files that exist initially
  Item,         \* people and dates
  Person,       \* the items that are people
  InitLinks,    \* initial links, each [file, item, kind]
  Rank,         \* the order in which list_item_files returns files
  Operations,   \* the operations calls may use
  Delivery,     \* whether DatabaseProvider sees a failed handler's exception
  Faults        \* the faults that may happen

File == Stored \cup Request
Kind == {"attachment", "person_photo"}
Link == [file : File, item : Item, kind : Kind]

Uploads == {"upload_attachment", "replace_person_photo"}
PhotoOps == {"replace_person_photo", "delete_person_photo"}
FileOps == {"rename_attachment", "delete_attachment", "get_file_content"}
Operation == Uploads \cup PhotoOps \cup FileOps \cup {"delete_item"}
Fault == {"put_fails", "put_unknown", "db_error", "commit_fails",
          "commit_unknown", "cleanup_fails", "crash"}

ASSUME FilesAssumption ==
  /\ Stored \cap Request = {}
  /\ Person \subseteq Item
  /\ InitLinks \subseteq [file : Stored, item : Item, kind : Kind]
  /\ \A k, l \in InitLinks : k.file = l.file => k = l
  /\ \A l \in InitLinks : l.kind = "person_photo" => l.item \in Person
  /\ \A k, l \in InitLinks :
       k.kind = "person_photo" /\ l.kind = "person_photo" /\ k.item = l.item => k = l
  /\ Rank \in [File -> Nat]
  /\ \A f, g \in File : Rank[f] = Rank[g] => f = g
  /\ Operations \subseteq Operation
  /\ Delivery \subseteq BOOLEAN
  /\ Faults \subseteq Fault

VARIABLES
  \* the database, as committed
  items,            \* items that exist
  links,            \* file rows with their links
  \* the object store
  objects,          \* files whose object is in the private bucket
  \* each request
  pc,               \* the next step of its handler
  job,              \* what it asks for
  todo,             \* files its use case has still to delete
  failed,           \* its handler raised
  rollbackActions,  \* objects that a rollback removes
  postCommitActions,\* objects that a commit removes
  \* its transaction: changes nobody else sees yet
  tx,               \* none, open, aborted by the server, deactivated by a flush
  added, removed,   \* links inserted, files deleted
  locked,           \* file rows locked
  \* history: what faults excuse
  torn,             \* requests whose commit happened but was reported failed
  leaked            \* objects whose cleanup was lost to a fault or to an unreported failure

db == <<items, links>>
txn == <<tx, added, removed, locked>>
acts == <<rollbackActions, postCommitActions>>
hist == <<torn, leaked>>
vars == <<db, objects, pc, job, todo, failed, acts, txn, hist>>

Steps == {"idle", "item", "files", "lock", "remove", "insert", "put", "touch",
          "item_row", "restrict", "stream", "exit", "post", "undo",
          "committed", "rolled_back", "crashed"}
Finished == {"committed", "rolled_back", "crashed"}
TxStates == {"none", "open", "aborted", "deactivated"}
NoJob == [op |-> "none", item |-> "none", file |-> "none"]
Job == [op : Operations \cap FileOps, item : Item, file : File]
       \cup [op : Operations \ FileOps, item : Item, file : {"none"}]

-----------------------------------------------------------------------------
(* Queries and locks.  PostgreSQL runs at READ COMMITTED: a statement sees  *)
(* what is committed when it runs, and waits for a row another transaction  *)
(* has changed.                                                             *)

Linked == {l.file : l \in links}
LinksOf(i) == {l \in links : l.item = i}
\* Mutant: the wrong kind is taken for a photo.
PhotosByWrongKind(ls) == {l \in ls : l.kind = "attachment"}
Photos(ls) == {l \in ls : l.kind = "person_photo"}
OneAttachment(j) ==
  {l \in links : l.file = j.file /\ l.item = j.item /\ l.kind = "attachment"}

NewKind(op) == IF op = "replace_person_photo" THEN "person_photo" ELSE "attachment"
NewLink(r) == [file |-> r, item |-> job[r].item, kind |-> NewKind(job[r].op)]

\* delete_files takes the files in the order list_item_files returned them.
NextFiles(r) == {f \in todo[r] : \A g \in todo[r] : Rank[f] <= Rank[g]}

\* The UPDATE of touch_items and the DELETE of the item row lock it to the end.
HasTouched(q) == /\ pc[q] = "exit" /\ ~failed[q]
                 /\ job[q].op \notin {"delete_item", "get_file_content"}
HasDeletedItem(q) == /\ job[q].op = "delete_item"
                     /\ pc[q] = "restrict" \/ (pc[q] = "exit" /\ ~failed[q])

\* r's statement has to wait for q's transaction to end.
Waits(r, q) ==
  LET i == job[r].item IN
  \/ pc[r] = "lock" /\ NextFiles(r) \cap locked[q] # {}
  \/ /\ pc[r] = "insert"
     /\ \/ HasDeletedItem(q) /\ job[q].item = i
        \/ /\ NewKind(job[r].op) = "person_photo"
           /\ \/ \E l \in Photos(added[q]) : l.item = i
              \/ \E l \in Photos(LinksOf(i)) : l.file \in removed[q]
  \/ /\ pc[r] = "item_row" /\ job[q].item = i
     /\ added[q] # {} \/ HasTouched(q) \/ HasDeletedItem(q)
  \/ pc[r] = "restrict" /\ \E l \in LinksOf(i) : l.file \in removed[q]
  \/ /\ pc[r] = "touch" /\ job[q].item = i
     /\ HasTouched(q) \/ HasDeletedItem(q)

Blocked(r) == \E q \in Request \ {r} : Waits(r, q)

-----------------------------------------------------------------------------
Init ==
  /\ items = Item
  /\ links = InitLinks
  /\ objects = {l.file : l \in InitLinks}
  /\ pc = [r \in Request |-> "idle"]
  /\ job = [r \in Request |-> NoJob]
  /\ todo = [r \in Request |-> {}]
  /\ failed = [r \in Request |-> FALSE]
  /\ rollbackActions = [r \in Request |-> {}]
  /\ postCommitActions = [r \in Request |-> {}]
  /\ tx = [r \in Request |-> "none"]
  /\ added = [r \in Request |-> {}]
  /\ removed = [r \in Request |-> {}]
  /\ locked = [r \in Request |-> {}]
  /\ torn = {}
  /\ leaked = {}

-----------------------------------------------------------------------------
(* How a step ends.                                                         *)

Goto(r, step) == pc' = [pc EXCEPT ![r] = step]

\* Mutant: the session is dropped without ending its transaction.
ClearTxKeepsLocks(r, state) ==
  /\ tx' = [tx EXCEPT ![r] = state]
  /\ added' = [added EXCEPT ![r] = {}]
  /\ removed' = [removed EXCEPT ![r] = {}]
  /\ UNCHANGED locked

\* What r's transaction did is gone and its locks are free.
ClearTx(r, state) ==
  /\ tx' = [tx EXCEPT ![r] = state]
  /\ added' = [added EXCEPT ![r] = {}]
  /\ removed' = [removed EXCEPT ![r] = {}]
  /\ locked' = [locked EXCEPT ![r] = {}]

\* Mutant: a failed statement is undone alone, and the transaction goes on.
RaiseToSavepoint(r, how) ==
  /\ Goto(r, "exit")
  /\ failed' = [failed EXCEPT ![r] = TRUE]
  /\ todo' = [todo EXCEPT ![r] = {}]
  /\ UNCHANGED txn

\* The handler raises; how is what the exception did to the transaction.
Raise(r, how) ==
  /\ Goto(r, "exit")
  /\ failed' = [failed EXCEPT ![r] = TRUE]
  /\ todo' = [todo EXCEPT ![r] = {}]
  /\ IF how = "open" THEN UNCHANGED txn ELSE ClearTx(r, how)

\* Mutant: the endpoint forgets the cleanup.
ReturnUnregistered(r) == Goto(r, "exit") /\ UNCHANGED <<acts, failed>>

\* The handler returns, and its endpoint registers the cleanup of what it deleted.
Return(r) ==
  /\ Goto(r, "exit")
  /\ postCommitActions' = [postCommitActions EXCEPT ![r] = removed[r]]
  /\ UNCHANGED <<rollbackActions, failed>>

-----------------------------------------------------------------------------
(* The use cases.                                                           *)

Begin(r, j) ==
  /\ pc[r] = "idle"
  /\ job' = [job EXCEPT ![r] = j]
  /\ tx' = [tx EXCEPT ![r] = "open"]
  /\ Goto(r, IF j.op = "get_file_content" THEN "files" ELSE "item")
  /\ UNCHANGED <<db, objects, todo, failed, acts, added, removed, locked, hist>>

LoadItem(r) ==
  /\ pc[r] = "item"
  /\ IF job[r].item \in (IF job[r].op \in PhotoOps THEN items \cap Person ELSE items)
     THEN /\ Goto(r, IF job[r].op = "upload_attachment" THEN "insert" ELSE "files")
          /\ UNCHANGED <<todo, failed, txn>>
     ELSE Raise(r, "open")
  /\ UNCHANGED <<db, objects, job, acts, hist>>

\* A stream of any file of the author; a rename or a deletion of an attachment of the item.
LoadFile(r) ==
  /\ pc[r] = "files" /\ job[r].op \in FileOps
  /\ IF job[r].op = "get_file_content"
     THEN IF job[r].file \in Linked
          THEN Goto(r, "stream") /\ UNCHANGED <<todo, failed, txn>>
          ELSE Raise(r, "open")
     ELSE IF OneAttachment(job[r]) # {}
          THEN /\ Goto(r, "lock")
               /\ todo' = [todo EXCEPT ![r] = {job[r].file}]
               /\ UNCHANGED <<failed, txn>>
          ELSE Raise(r, "open")
  /\ UNCHANGED <<db, objects, job, acts, hist>>

\* list_item_files: the present photo, or every file of an item to be deleted.
ListFiles(r) ==
  /\ pc[r] = "files" /\ job[r].op \notin FileOps
  /\ LET ls == LinksOf(job[r].item)
         found == {l.file : l \in IF job[r].op = "delete_item" THEN ls ELSE Photos(ls)}
     IN IF found = {} /\ job[r].op = "delete_person_photo"
        THEN Raise(r, "open")
        ELSE /\ todo' = [todo EXCEPT ![r] = found]
             /\ Goto(r, CASE found # {} -> "lock"
                           [] job[r].op = "delete_item" -> "item_row"
                           [] OTHER -> "insert")
             /\ UNCHANGED <<failed, txn>>
  /\ UNCHANGED <<db, objects, job, acts, hist>>

\* SELECT ... FOR UPDATE locks the row unless it has been deleted meanwhile.
LockFile(r) ==
  /\ pc[r] = "lock" /\ job[r].op # "rename_attachment" /\ ~Blocked(r)
  /\ locked' = [locked EXCEPT ![r] = @ \cup (NextFiles(r) \cap Linked)]
  /\ Goto(r, "remove")
  /\ UNCHANGED <<db, objects, job, todo, failed, acts, tx, added, removed, hist>>

\* The UPDATE of the name locks the row; a row deleted meanwhile is not found.
RenameFile(r) ==
  /\ pc[r] = "lock" /\ job[r].op = "rename_attachment" /\ ~Blocked(r)
  /\ IF job[r].file \in Linked
     THEN /\ locked' = [locked EXCEPT ![r] = @ \cup {job[r].file}]
          /\ todo' = [todo EXCEPT ![r] = {}]
          /\ Goto(r, "touch")
          /\ UNCHANGED <<failed, tx, added, removed>>
     ELSE Raise(r, "open")
  /\ UNCHANGED <<db, objects, job, acts, hist>>

\* The link and the row go; a link that is no longer there is an error.
RemoveFile(r) ==
  /\ pc[r] = "remove"
  /\ \E f \in NextFiles(r) :
       IF f \in Linked
       THEN /\ removed' = [removed EXCEPT ![r] = @ \cup {f}]
            /\ todo' = [todo EXCEPT ![r] = @ \ {f}]
            /\ Goto(r, CASE todo[r] # {f} -> "lock"
                          [] job[r].op = "delete_item" -> "item_row"
                          [] job[r].op = "replace_person_photo" -> "insert"
                          [] OTHER -> "touch")
            /\ UNCHANGED <<failed, tx, added, locked>>
       ELSE Raise(r, "open")
  /\ UNCHANGED <<db, objects, job, acts, hist>>

\* create_file refuses the content, rename_file the name, before anything is written.
RejectInput(r) ==
  /\ pc[r] = "insert" \/ (pc[r] = "lock" /\ job[r].op = "rename_attachment")
  /\ Raise(r, "open")
  /\ UNCHANGED <<db, objects, job, acts, hist>>

\* The flush of the row and the link, under the foreign key and the unique photo index.
InsertFile(r) ==
  /\ pc[r] = "insert" /\ ~Blocked(r)
  /\ LET i == job[r].item
         taken == {l \in Photos(LinksOf(i)) : l.file \notin removed[r]}
     IN IF i \in items /\ (job[r].op = "replace_person_photo" => taken = {})
        THEN /\ added' = [added EXCEPT ![r] = {NewLink(r)}]
             /\ Goto(r, "put")
             /\ UNCHANGED <<todo, failed, tx, removed, locked>>
        ELSE Raise(r, "deactivated")
  /\ UNCHANGED <<db, objects, job, acts, hist>>

\* The object is stored, and only then its removal on rollback is registered.
PutObject(r) ==
  /\ pc[r] = "put"
  /\ objects' = objects \cup {r}
  /\ rollbackActions' = [rollbackActions EXCEPT ![r] = @ \cup {r}]
  /\ Goto(r, "touch")
  /\ UNCHANGED <<db, job, todo, failed, postCommitActions, txn, hist>>

\* Mutant: the error of the store is swallowed.
PutFailsUnnoticed(r) ==
  /\ "put_fails" \in Faults /\ pc[r] = "put"
  /\ Goto(r, "touch")
  /\ UNCHANGED <<db, objects, job, todo, failed, acts, txn, hist>>

\* The store answers with an error.
PutFails(r) ==
  /\ "put_fails" \in Faults /\ pc[r] = "put"
  /\ Raise(r, "open")
  /\ UNCHANGED <<db, objects, job, acts, hist>>

\* The store keeps the object but the answer is lost.
PutAnswerLost(r) ==
  /\ "put_unknown" \in Faults /\ pc[r] = "put"
  /\ objects' = objects \cup {r}
  /\ leaked' = leaked \cup {r}
  /\ Raise(r, "open")
  /\ UNCHANGED <<db, job, acts, torn>>

TouchItem(r) ==
  /\ pc[r] = "touch" /\ ~Blocked(r)
  /\ Return(r)
  /\ UNCHANGED <<db, objects, job, todo, txn, hist>>

\* DELETE of the item: first its row lock ...
DeleteItemRow(r) ==
  /\ pc[r] = "item_row" /\ ~Blocked(r)
  /\ IF job[r].item \in items
     THEN Goto(r, "restrict") /\ UNCHANGED <<todo, failed, txn>>
     ELSE Raise(r, "open")
  /\ UNCHANGED <<db, objects, job, acts, hist>>

\* Mutant: no foreign key from the link to the item.
DeleteUnrestricted(r) ==
  /\ pc[r] = "restrict"
  /\ Return(r)
  /\ UNCHANGED <<db, objects, job, todo, txn, hist>>

\* ... then the RESTRICT check, which refuses while a link still refers to the item.
CheckRestrict(r) ==
  /\ pc[r] = "restrict" /\ ~Blocked(r)
  /\ IF \A l \in LinksOf(job[r].item) : l.file \in removed[r]
     THEN Return(r) /\ UNCHANGED <<todo, txn>>
     ELSE Raise(r, "aborted") /\ UNCHANGED acts
  /\ UNCHANGED <<db, objects, job, hist>>

StreamFile(r) ==
  /\ pc[r] = "stream"
  /\ IF job[r].file \in objects
     THEN Return(r) /\ UNCHANGED <<todo, txn>>
     ELSE Raise(r, "open") /\ UNCHANGED acts
  /\ UNCHANGED <<db, objects, job, hist>>

\* A statement fails: the server aborts the transaction, a flush also the session's.
DatabaseSteps == {"item", "files", "lock", "remove", "insert", "touch", "item_row", "restrict"}
StatementError(r) ==
  /\ pc[r] \in DatabaseSteps
  /\ Raise(r, IF pc[r] = "insert" THEN "deactivated" ELSE "aborted")
  /\ UNCHANGED <<db, objects, job, acts, hist>>

DatabaseError(r) == "db_error" \in Faults /\ StatementError(r)

\* PostgreSQL breaks a cycle of waiting transactions by aborting one of them.
Deadlocked(S) == \A x \in S : /\ \E y \in S \ {x} : Waits(x, y)
                             /\ \E y \in S \ {x} : Waits(y, x)
DeadlockVictim(r) ==
  /\ \E S \in SUBSET Request : r \in S /\ Deadlocked(S)
  /\ StatementError(r)

-----------------------------------------------------------------------------
(* DatabaseProvider: what happens when the request scope is left.           *)

\* The provider is told of the failure.
Rollback(r) ==
  /\ pc[r] = "exit" /\ failed[r] /\ TRUE \in Delivery
  /\ ClearTx(r, "none")
  /\ Goto(r, "undo")
  /\ UNCHANGED <<db, objects, job, todo, failed, acts, hist>>

\* The handler returned, or its failure was answered before the provider could see it.
Commits(r) == pc[r] = "exit" /\ (failed[r] => FALSE \in Delivery)

\* What the transaction did becomes visible.
Publish(r) ==
  /\ links' = {l \in links : l.file \notin removed[r]} \cup added[r]
  /\ items' = IF HasDeletedItem(r) THEN items \ {job[r].item} ELSE items

\* Mutant: the rollback actions run after a commit too.
CommitThenUndo(r) ==
  /\ Commits(r) /\ tx[r] = "open"
  /\ Publish(r)
  /\ ClearTx(r, "none")
  /\ Goto(r, "undo")
  /\ UNCHANGED <<objects, job, todo, failed, acts, hist>>

\* A handler that failed has registered no cleanup for the deletions it leaves behind.
Forgotten(r) == IF failed[r] THEN removed[r] ELSE {}

Commit(r) ==
  /\ Commits(r) /\ tx[r] = "open"
  /\ Publish(r)
  /\ ClearTx(r, "none")
  /\ Goto(r, "post")
  /\ leaked' = leaked \cup Forgotten(r)
  /\ UNCHANGED <<objects, job, todo, failed, acts, torn>>

\* The server answers COMMIT of an aborted transaction with a rollback, and no error: the
\* rollback actions do not run.
CommitAborted(r) ==
  /\ Commits(r) /\ tx[r] = "aborted"
  /\ ClearTx(r, "none")
  /\ Goto(r, "post")
  /\ leaked' = leaked \cup rollbackActions[r]
  /\ UNCHANGED <<db, objects, job, todo, failed, acts, torn>>

\* commit() raises: a deactivated session must be rolled back, or the commit fails.
CommitRaises(r) ==
  /\ Commits(r)
  /\ tx[r] = "deactivated" \/ (tx[r] = "open" /\ "commit_fails" \in Faults)
  /\ ClearTx(r, "none")
  /\ Goto(r, "undo")
  /\ UNCHANGED <<db, objects, job, todo, failed, acts, hist>>

\* commit() raises although the server has committed: its answer was lost.
CommitAnswerLost(r) ==
  /\ "commit_unknown" \in Faults
  /\ Commits(r) /\ tx[r] = "open"
  /\ Publish(r)
  /\ ClearTx(r, "none")
  /\ torn' = torn \cup {r}
  /\ leaked' = leaked \cup postCommitActions[r] \cup Forgotten(r)
  /\ Goto(r, "undo")
  /\ UNCHANGED <<objects, job, todo, failed, acts>>

\* cleanup_objects deletes an object, or logs that it could not.
Cleanup(f) ==
  \/ objects' = objects \ {f} /\ UNCHANGED leaked
  \/ /\ "cleanup_fails" \in Faults
     /\ objects' = objects
     /\ leaked' = leaked \cup {f}

RunRollbackAction(r) ==
  /\ pc[r] = "undo"
  /\ \E f \in rollbackActions[r] :
       /\ Cleanup(f)
       /\ rollbackActions' = [rollbackActions EXCEPT ![r] = @ \ {f}]
  /\ UNCHANGED <<db, pc, job, todo, failed, postCommitActions, txn, torn>>

\* Mutant: the superseded object goes before the commit.
CleanBeforeCommit(r) ==
  /\ pc[r] \in {"exit", "post"}
  /\ \E f \in postCommitActions[r] :
       /\ Cleanup(f)
       /\ postCommitActions' = [postCommitActions EXCEPT ![r] = @ \ {f}]
  /\ UNCHANGED <<db, pc, job, todo, failed, rollbackActions, txn, torn>>

RunPostCommitAction(r) ==
  /\ pc[r] = "post"
  /\ \E f \in postCommitActions[r] :
       /\ Cleanup(f)
       /\ postCommitActions' = [postCommitActions EXCEPT ![r] = @ \ {f}]
  /\ UNCHANGED <<db, pc, job, todo, failed, rollbackActions, txn, torn>>

Finish(r) ==
  /\ \/ pc[r] = "undo" /\ rollbackActions[r] = {} /\ Goto(r, "rolled_back")
     \/ pc[r] = "post" /\ postCommitActions[r] = {} /\ Goto(r, "committed")
  /\ UNCHANGED <<db, objects, job, todo, failed, acts, txn, hist>>

\* The process dies: the server rolls back, and the registered actions are forgotten.
Crash(r) ==
  /\ "crash" \in Faults
  /\ pc[r] \notin Finished \cup {"idle"}
  /\ Goto(r, "crashed")
  /\ ClearTx(r, "none")
  /\ objects' \in {objects, IF pc[r] = "put" THEN objects \cup {r} ELSE objects}
  /\ leaked' = leaked \cup (IF pc[r] = "post" THEN postCommitActions[r] ELSE {r})
  /\ UNCHANGED <<db, job, todo, failed, acts, torn>>

-----------------------------------------------------------------------------
Handle(r) ==
  \/ LoadItem(r) \/ LoadFile(r) \/ ListFiles(r) \/ LockFile(r) \/ RenameFile(r)
  \/ RemoveFile(r) \/ RejectInput(r) \/ InsertFile(r) \/ PutObject(r)
  \/ PutFails(r) \/ PutAnswerLost(r) \/ TouchItem(r) \/ DeleteItemRow(r)
  \/ CheckRestrict(r) \/ StreamFile(r) \/ DatabaseError(r) \/ DeadlockVictim(r)

Leave(r) ==
  \/ Rollback(r) \/ Commit(r) \/ CommitAborted(r) \/ CommitRaises(r)
  \/ CommitAnswerLost(r) \/ RunRollbackAction(r) \/ RunPostCommitAction(r)
  \/ Finish(r)

Next == \E r \in Request :
  (\E j \in Job : Begin(r, j)) \/ Handle(r) \/ Leave(r) \/ Crash(r)

Spec == Init /\ [][Next]_vars

\* The event loop, the database and the store keep working: as long as some request can go on,
\* one does.  No request goes on for ever, so that none need be favoured.
Fairness == WF_vars(\E r \in Request : Handle(r) \/ Leave(r))
FairSpec == Spec /\ Fairness

-----------------------------------------------------------------------------
(* Properties.                                                              *)

\* Every variable keeps its type, and a file is linked once (the key of the link table).
TypeOK ==
  /\ items \subseteq Item
  /\ links \subseteq Link
  /\ \A k, l \in links : k.file = l.file => k = l
  /\ objects \subseteq File
  /\ pc \in [Request -> Steps]
  /\ job \in [Request -> Job \cup {NoJob}]
  /\ todo \in [Request -> SUBSET File]
  /\ failed \in [Request -> BOOLEAN]
  /\ rollbackActions \in [Request -> SUBSET File]
  /\ postCommitActions \in [Request -> SUBSET File]
  /\ tx \in [Request -> TxStates]
  /\ added \in [Request -> SUBSET Link]
  /\ removed \in [Request -> SUBSET File]
  /\ locked \in [Request -> SUBSET File]
  /\ torn \subseteq Request
  /\ leaked \subseteq File

\* Uploads whose handler failed; as wired their rows may stay.
FailedUploads == {r \in Request : failed[r]}

\* A committed file row has its object in the store, whatever fails: uploads go before the
\* commit, deletions after it.  The exceptions are the row of an upload that was itself
\* answered with an error and committed all the same, and one whose commit answer was lost.
ReferencedObjectsStored == Linked \subseteq objects \cup torn \cup FailedUploads

\* An object no row refers to belongs to a request that is still running or is about to be
\* cleaned up, or a fault or an unreported failure has made the server forget it.
OrphansAccountedFor ==
  \A f \in objects \ (Linked \cup leaked) :
    \/ f \in Request /\ pc[f] \in {"touch", "exit", "undo"}
    \/ \E r \in Request : pc[r] = "post" /\ f \in postCommitActions[r]

\* An upload whose handler or commit failed has removed its object and its row when it ends.
FailedUploadsUndone ==
  \A r \in Request :
    (pc[r] = "rolled_back" \/ (pc[r] = "committed" /\ failed[r])) /\ r \notin torn
      => r \notin Linked /\ (r \in objects => r \in leaked)

\* Whatever replacements, uploads and deletions race, a person has at most one photo.
OnePhotoPerPerson ==
  \A l \in links : l.kind = "person_photo" =>
    /\ l.item \in Person
    /\ \A k \in links : k.kind = "person_photo" /\ k.item = l.item => k = l

\* Deleting an item never strands a file uploaded meanwhile.
LinksHaveItems == \A l \in links : l.item \in items

\* No cleanup, of either kind, deletes the object of a row that is committed.
CleanupSparesReferenced ==
  [][(objects \ objects') \cap Linked \subseteq torn]_vars

\* A reader that found the row fails to read the content only if the file has been deleted,
\* or is what a failed upload has left.
ReadFailsOnlyIfDeleted ==
  [][\A r \in Request :
       /\ pc[r] = "stream" /\ pc'[r] = "exit" /\ failed'[r]
       => job[r].file \notin Linked \/ job[r].file \in torn \cup FailedUploads]_vars

\* A call whose handler failed may leave the row of its own upload, the deletion of some of
\* the files of the item it was to delete, or that of the photo it was to replace: no item
\* goes, no other file goes, and a failed deletion of one file or a failed rename leaves none.
LosesFile(r, l) ==
  /\ l.item = job[r].item
  /\ \/ job[r].op = "delete_item"
     \/ job[r].op = "replace_person_photo" /\ l.kind = "person_photo"
FailedCallsLeavePart ==
  [][\A r \in Request :
       pc[r] = "exit" /\ failed[r] /\ pc'[r] # "exit" =>
         /\ items' = items
         /\ links' \ links \subseteq {NewLink(r)}
         /\ \A l \in links \ links' : LosesFile(r, l)]_vars

\* Requests never wait for each other for good: every request that begins, which it does once,
\* ends.
EveryRequestEnds == <>[](\A r \in Request : pc[r] = "idle" \/ pc[r] \in Finished)

\* Each request changes what clients see as a whole or not at all; where failures are answered
\* before the provider sees them, a failed one may be kept in part.
Store == INSTANCE KnowledgeFileStore WITH readable <- Linked \cap objects,
                                          Untold <- FALSE \in Delivery
AllOrNothing == Store!Spec
=============================================================================
