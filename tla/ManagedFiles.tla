---------------------------- MODULE ManagedFiles ----------------------------
(***************************************************************************)
(* Managed media files: uploads that are deduplicated by the hash of their *)
(* content, renames, deletions, and the scheduled task that prunes files   *)
(* whose retention is over.  Rows are in the database, objects in the      *)
(* media bucket, and every process writes both inside one transaction.     *)
(*                                                                         *)
(* Nothing in the program attaches a file of this bucket to anything, so   *)
(* every row carries an orphaned_at; what would set it to null is not      *)
(* modelled.  All files have one purpose.  Names, types and sizes are left *)
(* out, and so are the reads, which change nothing.                        *)
(***************************************************************************)
EXTENDS Integers, FiniteSets

CONSTANTS
  Request,      \* calls; a call that uploads names its new file by itself
  Pruner,       \* executions of the scheduled task that may overlap
  Stored,       \* files that exist initially
  Content,      \* contents, that is, values of the hash
  StoredContent,\* the content of each initial file
  Rank,         \* the order of the file identifiers
  Operations,   \* the operations calls may use
  Retention,    \* how long an orphan is kept
  BatchSize,    \* how many orphans one execution takes
  MaxTime,      \* bound of the clock
  Delivery,     \* whether the provider sees a failed handler's exception
  Faults        \* the faults that may happen

File == Stored \cup Request
Process == Request \cup Pruner
Operation == {"upload", "update", "delete"}
Fault == {"put_fails", "put_unknown", "delete_fails", "delete_unknown", "db_error", "commit_fails",
          "crash"}

ASSUME ManagedFilesAssumption ==
  /\ Stored \cap Request = {} /\ Stored \cap Pruner = {} /\ Request \cap Pruner = {}
  /\ StoredContent \in [Stored -> Content]
  /\ \A f, g \in Stored : StoredContent[f] = StoredContent[g] => f = g
  /\ Rank \in [File -> Nat]
  /\ \A f, g \in File : Rank[f] = Rank[g] => f = g
  /\ Operations \subseteq Operation
  /\ Retention \in Nat /\ MaxTime \in Nat /\ BatchSize \in Nat \ {0}
  /\ Delivery \subseteq BOOLEAN
  /\ Faults \subseteq Fault

VARIABLES
  orphanedAt,   \* the committed rows: the orphaned_at of each file, or NoRow
  objects,      \* files whose object is in the bucket
  now,          \* the clock
  pc,           \* the next step of each process
  job,          \* what a request asks for
  begun,        \* the current_datetime of its scope
  seen,         \* the rows its duplicate query has still to try
  todo,         \* the files it has still to delete
  failed,       \* its handler raised
  answer,       \* the file it answered with
  dead,         \* its transaction has failed and will be rolled back
  writes,       \* what its transaction has written and nobody else sees yet
  locked,       \* the rows its transaction holds
  torn,         \* history: rows that lost their object to an end without a commit
  leaked,       \* history: objects that lost their row, or never got one
  together      \* history: pairs of requests that overlapped

NoRow == -1
Same == -2
Time == 0 .. MaxTime
NoJob == [op |-> "none", content |-> "none", file |-> "none"]
Job == [op : Operations \cap {"upload"}, content : Content, file : {"none"}]
       \cup [op : Operations \ {"upload"}, content : {"none"}, file : File]

local == <<job, begun, seen, todo, failed, answer>>
txn == <<dead, writes, locked>>
hist == <<torn, leaked, together>>
vars == <<orphanedAt, objects, now, pc, local, txn, hist>>

Steps == {"idle", "find", "claim", "insert", "put", "lock", "select", "object", "row",
          "exit", "done"}

-----------------------------------------------------------------------------
Rows == {f \in File : orphanedAt[f] # NoRow}
ContentOf(f) == IF f \in Stored THEN StoredContent[f] ELSE job[f].content
CreatedAt(f) == IF f \in Stored THEN 0 ELSE begun[f]

\* ORDER BY created_at, id; and ORDER BY orphaned_at, id.
Older(f, g) == \/ CreatedAt(f) < CreatedAt(g)
               \/ CreatedAt(f) = CreatedAt(g) /\ Rank[f] <= Rank[g]
OrphanedBefore(f, g) == \/ orphanedAt[f] < orphanedAt[g]
                        \/ orphanedAt[f] = orphanedAt[g] /\ Rank[f] < Rank[g]

LockedByOther(p, f) == \E q \in Process \ {p} : f \in locked[q]

\* Mutant: the marker of an orphan hides it from the search.
AttachedDuplicates(r) == {f \in Rows : ContentOf(f) = job[r].content /\ orphanedAt[f] > now}
Duplicates(r) == {f \in Rows : ContentOf(f) = job[r].content}
NextSeen(r) == {f \in seen[r] : \A g \in seen[r] : Older(f, g)}

\* Mutant: rows that others hold are taken too.
CandidatesUnlocked(p) == {f \in Rows : orphanedAt[f] < begun[p] - Retention}
\* FOR UPDATE SKIP LOCKED: rows that others hold are passed over.
Candidates(p) ==
  {f \in Rows : orphanedAt[f] < begun[p] - Retention /\ ~LockedByOther(p, f)}
Batch(S) == {f \in S : Cardinality({g \in S : OrphanedBefore(g, f)}) < BatchSize}
NextTodo(p) == {f \in todo[p] : \A g \in todo[p] \ {f} : OrphanedBefore(f, g)}

-----------------------------------------------------------------------------
Init ==
  /\ orphanedAt = [f \in File |-> IF f \in Stored THEN 0 ELSE NoRow]
  /\ objects = Stored
  /\ now = 0
  /\ pc = [p \in Process |-> "idle"]
  /\ job = [r \in Request |-> NoJob]
  /\ begun = [p \in Process |-> 0]
  /\ seen = [r \in Request |-> {}]
  /\ todo = [p \in Process |-> {}]
  /\ failed = [p \in Process |-> FALSE]
  /\ answer = [r \in Request |-> "none"]
  /\ dead = [p \in Process |-> FALSE]
  /\ writes = [p \in Process |-> [f \in File |-> Same]]
  /\ locked = [p \in Process |-> {}]
  /\ torn = {} /\ leaked = {} /\ together = {}

Goto(p, step) == pc' = [pc EXCEPT ![p] = step]
Write(p, f, value) == writes' = [writes EXCEPT ![p][f] = value]
Lock(p, fs) == locked' = [locked EXCEPT ![p] = @ \cup fs]

\* The handler or the task raises.
Raise(p) == /\ Goto(p, "exit")
            /\ failed' = [failed EXCEPT ![p] = TRUE]

Return(r, f) == /\ Goto(r, "exit")
                /\ answer' = [answer EXCEPT ![r] = f]

Tick == /\ now < MaxTime
        /\ now' = now + 1
        /\ UNCHANGED <<orphanedAt, objects, pc, local, txn, hist>>

-----------------------------------------------------------------------------
(* The service.                                                             *)

Active(q) == pc[q] \notin {"idle", "done"}

\* Bound: no call begins so late that the clock cannot reach the end of its retention.
LastCall == MaxTime - Retention - 1

Begin(r, j) ==
  /\ r \in Request /\ pc[r] = "idle" /\ now <= LastCall
  /\ job' = [job EXCEPT ![r] = j]
  /\ begun' = [begun EXCEPT ![r] = now]
  /\ Goto(r, IF j.op = "upload" THEN "find" ELSE "lock")
  /\ together' = together \cup {{r, q} : q \in {x \in Request : Active(x)}}
  /\ UNCHANGED <<orphanedAt, objects, now, seen, todo, failed, answer, txn, torn, leaked>>

\* A content is refused before the search or by the processor after it, a new name before
\* the update.
RejectInput(r) ==
  /\ pc[r] \in {"find", "insert"} \/ (pc[r] = "lock" /\ job[r].op = "update")
  /\ Raise(r)
  /\ UNCHANGED <<orphanedAt, objects, now, job, begun, seen, todo, answer, txn, hist>>

\* The duplicate query takes its snapshot ...
FindDuplicates(r) ==
  /\ pc[r] = "find"
  /\ seen' = [seen EXCEPT ![r] = Duplicates(r)]
  /\ Goto(r, "claim")
  /\ UNCHANGED <<orphanedAt, objects, now, job, begun, todo, failed, answer, txn, hist>>

\* Mutant: the row is read without a lock.
ClaimUnlocked(r) ==
  /\ pc[r] = "claim"
  /\ \/ /\ seen[r] = {} /\ Goto(r, "insert")
        /\ UNCHANGED <<seen, answer, writes>>
     \/ \E f \in NextSeen(r) :
          /\ Write(r, f, begun[r]) /\ Return(r, f) /\ UNCHANGED seen
  /\ UNCHANGED <<orphanedAt, objects, now, job, begun, todo, failed, dead, locked, hist>>

\* ... and waits for the oldest row of it; one deleted meanwhile gives way to the next.
\* A row it gets has its marker refreshed and is the answer.
ClaimDuplicate(r) ==
  /\ pc[r] = "claim"
  /\ \/ /\ seen[r] = {} /\ Goto(r, "insert")
        /\ UNCHANGED <<seen, answer, writes, locked>>
     \/ \E f \in NextSeen(r) :
          /\ ~LockedByOther(r, f)
          /\ IF f \in Rows
             THEN Lock(r, {f}) /\ Write(r, f, begun[r]) /\ Return(r, f) /\ UNCHANGED seen
             ELSE /\ seen' = [seen EXCEPT ![r] = @ \ {f}]
                  /\ UNCHANGED <<pc, answer, writes, locked>>
  /\ UNCHANGED <<orphanedAt, objects, now, job, begun, todo, failed, dead, hist>>

\* A new file is an orphan from the start.
InsertFile(r) ==
  /\ pc[r] = "insert"
  /\ Write(r, r, begun[r])
  /\ Goto(r, "put")
  /\ UNCHANGED <<orphanedAt, objects, now, local, dead, locked, hist>>

PutObject(r) ==
  /\ pc[r] = "put"
  /\ objects' = objects \cup {r}
  /\ Return(r, r)
  /\ UNCHANGED <<orphanedAt, now, job, begun, seen, todo, failed, txn, hist>>

\* Mutant: the error of the store is swallowed.
PutFailsUnnoticed(r) ==
  /\ "put_fails" \in Faults /\ pc[r] = "put"
  /\ Return(r, r)
  /\ UNCHANGED <<orphanedAt, objects, now, job, begun, seen, todo, failed, txn, hist>>

\* The put fails, and may yet have stored the object.
PutFails(r) ==
  /\ pc[r] = "put"
  /\ \/ "put_fails" \in Faults /\ UNCHANGED objects
     \/ "put_unknown" \in Faults /\ objects' = objects \cup {r}
  /\ Raise(r)
  /\ UNCHANGED <<orphanedAt, now, job, begun, seen, todo, answer, txn, hist>>

\* A rename updates the row, a deletion locks it first; neither finds a row that is gone.
LockFile(r) ==
  /\ pc[r] = "lock"
  /\ LET f == job[r].file IN
       /\ ~LockedByOther(r, f)
       /\ \/ /\ f \notin Rows
             /\ Raise(r)
             /\ UNCHANGED <<todo, locked>>
          \/ /\ f \in Rows
             /\ Lock(r, {f})
             /\ IF job[r].op = "delete"
                THEN Goto(r, "object") /\ todo' = [todo EXCEPT ![r] = {f}]
                ELSE Goto(r, "exit") /\ UNCHANGED todo
             /\ UNCHANGED failed
  /\ UNCHANGED <<orphanedAt, objects, now, job, begun, seen, answer, dead, writes, hist>>

-----------------------------------------------------------------------------
(* The scheduled task.                                                      *)

StartPrune(p) ==
  /\ p \in Pruner /\ pc[p] = "idle"
  /\ begun' = [begun EXCEPT ![p] = now]
  /\ Goto(p, "select")
  /\ UNCHANGED <<orphanedAt, objects, now, job, seen, todo, failed, answer, txn, hist>>

SelectOrphans(p) ==
  /\ pc[p] = "select"
  /\ LET batch == Batch(Candidates(p)) IN
       /\ todo' = [todo EXCEPT ![p] = batch]
       /\ Lock(p, batch)
       /\ Goto(p, IF batch = {} THEN "exit" ELSE "object")
  /\ UNCHANGED <<orphanedAt, objects, now, job, begun, seen, failed, answer, dead, writes, hist>>

-----------------------------------------------------------------------------
(* Deletions, of a call and of the task: the object first, then the row.    *)

DeleteObject(p) ==
  /\ pc[p] = "object"
  /\ objects' = objects \ NextTodo(p)
  /\ Goto(p, "row")
  /\ UNCHANGED <<orphanedAt, now, local, txn, hist>>

Skip(p, fs) == /\ todo' = [todo EXCEPT ![p] = @ \ fs]
               /\ Goto(p, IF todo[p] = fs THEN "exit" ELSE "object")

\* Mutant: an object that could not be deleted loses its row all the same.
DeleteFailsUnnoticed(p) ==
  /\ "delete_fails" \in Faults /\ pc[p] = "object"
  /\ Goto(p, "row")
  /\ UNCHANGED <<orphanedAt, objects, now, local, txn, hist>>

\* The store reports a failure, and may yet have deleted: a call fails, the task goes on
\* with the next file.
DeleteFails(p) ==
  /\ pc[p] = "object"
  /\ \/ "delete_fails" \in Faults /\ UNCHANGED <<objects, torn>>
     \/ /\ "delete_unknown" \in Faults
        /\ objects' = objects \ NextTodo(p)
        /\ torn' = torn \cup NextTodo(p)
  /\ IF p \in Request
     THEN Raise(p) /\ UNCHANGED todo
     ELSE Skip(p, NextTodo(p)) /\ UNCHANGED failed
  /\ UNCHANGED <<orphanedAt, now, job, begun, seen, answer, txn, leaked, together>>

DeleteRow(p) ==
  /\ pc[p] = "row"
  /\ \E f \in NextTodo(p) : Write(p, f, NoRow)
  /\ Skip(p, NextTodo(p))
  /\ UNCHANGED <<orphanedAt, objects, now, job, begun, seen, failed, answer, dead, locked, hist>>

\* A statement fails, and the transaction with it.
DatabaseError(p) ==
  /\ "db_error" \in Faults
  /\ pc[p] \in {"find", "claim", "insert", "lock", "select", "object", "row"}
  /\ Raise(p)
  /\ dead' = [dead EXCEPT ![p] = TRUE]
  /\ torn' = IF pc[p] = "row" THEN torn \cup NextTodo(p) ELSE torn
  /\ UNCHANGED <<orphanedAt, objects, now, job, begun, seen, todo, answer, writes, locked,
                 leaked, together>>

-----------------------------------------------------------------------------
(* The end of the request scope.  A call is over; the task runs again.      *)

\* Mutant: the connection goes back to the pool inside its transaction.
LeaveLocked(p) ==
  /\ pc' = [pc EXCEPT ![p] = IF p \in Request THEN "done" ELSE "idle"]
  /\ todo' = [todo EXCEPT ![p] = {}]
  /\ failed' = [failed EXCEPT ![p] = IF p \in Request THEN @ ELSE FALSE]
  /\ dead' = [dead EXCEPT ![p] = FALSE]
  /\ writes' = [writes EXCEPT ![p] = [f \in File |-> Same]]
  /\ UNCHANGED <<now, job, begun, seen, answer, locked, together>>

Leave(p) ==
  /\ pc' = [pc EXCEPT ![p] = IF p \in Request THEN "done" ELSE "idle"]
  /\ todo' = [todo EXCEPT ![p] = {}]
  /\ failed' = [failed EXCEPT ![p] = IF p \in Request THEN @ ELSE FALSE]
  /\ dead' = [dead EXCEPT ![p] = FALSE]
  /\ writes' = [writes EXCEPT ![p] = [f \in File |-> Same]]
  /\ locked' = [locked EXCEPT ![p] = {}]
  /\ UNCHANGED <<now, job, begun, seen, answer, together>>

\* What the bucket keeps of a transaction that is not committed.
Discard(p) ==
  /\ torn' = torn \cup {f \in File : writes[p][f] = NoRow}
  /\ leaked' = leaked \cup {f \in objects : f = p}
  /\ UNCHANGED <<orphanedAt, objects>>

\* The provider resumes with the exception of a failed handler.
Told(p) == failed[p] /\ TRUE \in Delivery
Untold(p) == failed[p] => FALSE \in Delivery

Publish(p) ==
  orphanedAt' = [f \in File |-> IF writes[p][f] = Same THEN orphanedAt[f] ELSE writes[p][f]]

Rollback(p) == pc[p] = "exit" /\ Told(p) /\ Discard(p) /\ Leave(p)

Commit(p) ==
  /\ pc[p] = "exit" /\ Untold(p) /\ ~dead[p]
  /\ Publish(p)
  /\ Leave(p)
  /\ UNCHANGED <<objects, torn, leaked>>

\* A failed transaction cannot be committed, and any commit may fail.
CommitFails(p) ==
  /\ pc[p] = "exit" /\ Untold(p)
  /\ dead[p] \/ "commit_fails" \in Faults
  /\ Discard(p)
  /\ Leave(p)

\* The process dies, perhaps between an object and its row.
Crash(p) ==
  /\ "crash" \in Faults /\ Active(p)
  /\ \E stored \in BOOLEAN : \* whether a put under way has been carried out
       LET put == IF stored /\ pc[p] = "put" THEN {p} ELSE {} IN
       /\ objects' = objects \cup put
       /\ leaked' = leaked \cup {f \in objects' : f = p}
  /\ torn' = torn \cup {f \in File : writes[p][f] = NoRow}
                  \cup (IF pc[p] = "row" THEN NextTodo(p) ELSE {})
  /\ Leave(p)
  /\ UNCHANGED orphanedAt

-----------------------------------------------------------------------------
Serve(r) ==
  \/ FindDuplicates(r) \/ ClaimDuplicate(r) \/ InsertFile(r) \/ PutObject(r)
  \/ PutFails(r) \/ RejectInput(r) \/ LockFile(r)

Prune(p) == StartPrune(p) \/ SelectOrphans(p)

Delete(p) == DeleteObject(p) \/ DeleteFails(p) \/ DeleteRow(p)

End(p) == Rollback(p) \/ Commit(p) \/ CommitFails(p)

Next ==
  \/ Tick
  \/ \E r \in Request : Serve(r) \/ \E j \in Job : Begin(r, j)
  \/ \E p \in Pruner : Prune(p)
  \/ \E p \in Process : Delete(p) \/ DatabaseError(p) \/ End(p) \/ Crash(p)

Spec == Init /\ [][Next]_vars

\* Time passes, the scheduler keeps starting the task, every await returns, and the store
\* does not refuse one deletion for ever.
Fairness ==
  /\ WF_vars(Tick)
  /\ \A r \in Request : WF_vars(Serve(r))
  /\ \A p \in Pruner : WF_vars(Prune(p))
  /\ \A p \in Process : WF_vars(Delete(p)) /\ SF_vars(DeleteObject(p)) /\ WF_vars(End(p))
FairSpec == Spec /\ Fairness

-----------------------------------------------------------------------------
(* Properties.                                                              *)

\* Every variable keeps its type.
TypeOK ==
  /\ orphanedAt \in [File -> Time \cup {NoRow}]
  /\ objects \subseteq File
  /\ now \in Time
  /\ pc \in [Process -> Steps]
  /\ job \in [Request -> Job \cup {NoJob}]
  /\ begun \in [Process -> Time]
  /\ seen \in [Request -> SUBSET File]
  /\ todo \in [Process -> SUBSET File]
  /\ failed \in [Process -> BOOLEAN]
  /\ answer \in [Request -> File \cup {"none"}]
  /\ dead \in [Process -> BOOLEAN]
  /\ writes \in [Process -> [File -> Time \cup {NoRow, Same}]]
  /\ locked \in [Process -> SUBSET File]
  /\ torn \subseteq File
  /\ leaked \subseteq File
  /\ together \subseteq SUBSET Request

\* What a client can find and read.
Readable == Rows \cap objects
DeletedByClient(f) ==
  \E r \in Request : job[r].op = "delete" /\ job[r].file = f /\ pc[r] \in {"object", "exit"}

\* A file stops being readable only because a client deletes it or because its retention,
\* counted from the last committed refresh of its marker, is over: neither the task nor a
\* deletion acts on a marker that an upload has refreshed meanwhile.
ReadableUntilRetention ==
  [][\A f \in Readable \ Readable' : DeletedByClient(f) \/ orphanedAt[f] + Retention < now]_vars

\* Uploads whose handler failed; as wired their rows may stay.
FailedUploads == {r \in Request : failed[r]}

\* The file an upload answers with is in the bucket at that moment, a duplicate like a new
\* one, unless an end without a commit has torn the duplicate or its own upload had failed.
AnswersAreStored ==
  [][\A r \in Request : answer'[r] # answer[r]
       => answer'[r] \in objects' \cup torn \cup FailedUploads]_vars

\* A row without an object is one that is being deleted, one torn by a fault, or the row of an
\* upload that was itself answered with an error.
RowsHaveObjects ==
  \A f \in Rows \ (objects \cup torn \cup FailedUploads) :
    \E p \in Process : writes[p][f] = NoRow \/ (pc[p] = "row" /\ f \in NextTodo(p))

\* An object without a row is that of an upload under way, or one leaked by a fault.
OrphansAccountedFor ==
  \A f \in objects \ (Rows \cup leaked) : f \in Request /\ pc[f] = "exit"

\* Two files with one content come only from uploads that overlapped.
DuplicatesOverlapped ==
  \A f, g \in Rows : f # g /\ ContentOf(f) = ContentOf(g) => {f, g} \in together

\* Every orphan is pruned in the end, one whose object is missing or refuses to go at
\* first like the others, however small the batch.
OrphansArePruned == \A f \in File : f \in Rows ~> f \notin Rows
=============================================================================
