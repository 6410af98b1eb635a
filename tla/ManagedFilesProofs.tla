------------------------ MODULE ManagedFilesProofs ------------------------
(***************************************************************************)
(* Proofs about ManagedFiles, for any number of calls, files and           *)
(* executions of the task, any batch, retention and faults.                *)
(***************************************************************************)
EXTENDS ManagedFiles, TLAPS

-----------------------------------------------------------------------------
(* Types.                                                                   *)

\* An execution of the task takes its own steps only: it never puts an object.
PrunerSteps == \A p \in Pruner : pc[p] \in {"idle", "select", "object", "row", "exit"}

Typing == TypeOK /\ PrunerSteps

\* The initial rows and objects, before any call, have well-typed state.
LEMMA InitTyping == Init => Typing
BY ManagedFilesAssumption
DEF Init, Typing, PrunerSteps, TypeOK, File, Process, Time, Steps, NoRow, Same

\* The end of a transaction, however it ends, keeps the types of what it resets.
LEMMA LeaveTypes ==
  ASSUME Typing, NEW p \in Process, Leave(p)
  PROVE  /\ pc' \in [Process -> Steps] /\ PrunerSteps'
         /\ todo' \in [Process -> SUBSET File]
         /\ failed' \in [Process -> BOOLEAN]
         /\ dead' \in [Process -> BOOLEAN]
         /\ writes' \in [Process -> [File -> Time \cup {NoRow, Same}]]
         /\ locked' \in [Process -> SUBSET File]
         /\ UNCHANGED <<now, job, begun, seen, answer, together>>
<1>1. pc' \in [Process -> Steps] /\ PrunerSteps'
  BY ManagedFilesAssumption DEF Typing, PrunerSteps, TypeOK, Process, Leave, Steps
<1>. QED
  BY <1>1 DEF Typing, TypeOK, Leave

\* Whatever a call does until its scope ends keeps the types.
LEMMA ServeTypes ==
  ASSUME Typing, NEW r \in Request, Serve(r)
  PROVE  Typing'
<1>0. r \in Process /\ r \in File /\ r \notin Pruner /\ begun[r] \in Time
  BY ManagedFilesAssumption DEF Typing, PrunerSteps, TypeOK, Process, File
<1>1. ASSUME FindDuplicates(r) PROVE Typing'
  BY <1>0, <1>1
  DEF FindDuplicates, Duplicates, Rows, Typing, PrunerSteps, TypeOK, Goto, Steps, txn, hist
<1>2. ASSUME ClaimDuplicate(r) PROVE Typing'
  <2>1. CASE seen[r] = {} /\ Goto(r, "insert") /\ UNCHANGED <<seen, answer, writes, locked>>
    BY <1>0, <1>2, <2>1 DEF ClaimDuplicate, Typing, PrunerSteps, TypeOK, Goto, Steps, hist
  <2>2. ASSUME NEW f \in NextSeen(r), f \in Rows, Lock(r, {f}), Write(r, f, begun[r]),
               Return(r, f), UNCHANGED seen
        PROVE  Typing'
    <3>1. f \in File
      BY <2>2 DEF Rows
    <3>2. pc' \in [Process -> Steps] /\ PrunerSteps' /\ answer' \in [Request -> File \cup {"none"}]
      BY <1>0, <2>2, <3>1 DEF Typing, PrunerSteps, TypeOK, Goto, Return, Steps
    <3>3. writes' \in [Process -> [File -> Time \cup {NoRow, Same}]]
      BY <1>0, <2>2, <3>1 DEF Typing, TypeOK, Write
    <3>. QED
      BY <1>0, <1>2, <2>2, <3>1, <3>2, <3>3 DEF ClaimDuplicate, Typing, TypeOK, Lock, hist
  <2>3. ASSUME NEW f \in NextSeen(r), seen' = [seen EXCEPT ![r] = @ \ {f}],
               UNCHANGED <<pc, answer, writes, locked>>
        PROVE  Typing'
    BY <1>0, <1>2, <2>3 DEF ClaimDuplicate, Typing, PrunerSteps, TypeOK, hist
  <2>. QED
    BY <1>2, <2>1, <2>2, <2>3 DEF ClaimDuplicate
<1>3. ASSUME InsertFile(r) PROVE Typing'
  BY <1>0, <1>3 DEF InsertFile, Typing, PrunerSteps, TypeOK, Goto, Write, Steps, local, hist
<1>4. ASSUME PutObject(r) PROVE Typing'
  BY <1>0, <1>4 DEF PutObject, Typing, PrunerSteps, TypeOK, Goto, Return, Steps, txn, hist
<1>5. ASSUME PutFails(r) PROVE Typing'
  BY <1>0, <1>5 DEF PutFails, Raise, Typing, PrunerSteps, TypeOK, Goto, Steps, txn, hist
<1>6. ASSUME RejectInput(r) PROVE Typing'
  BY <1>0, <1>6 DEF RejectInput, Raise, Typing, PrunerSteps, TypeOK, Goto, Steps, txn, hist
<1>7. ASSUME LockFile(r) PROVE Typing'
  <2>1. CASE Raise(r) /\ UNCHANGED <<todo, locked>>
    BY <1>0, <1>7, <2>1 DEF LockFile, Raise, Typing, PrunerSteps, TypeOK, Goto, Steps, hist
  <2>2. CASE job[r].file \in Rows /\ Lock(r, {job[r].file}) /\ UNCHANGED failed
    <3>1. job[r].file \in File
      BY <2>2 DEF Rows
    <3>2. \/ Goto(r, "object") /\ todo' = [todo EXCEPT ![r] = {job[r].file}]
          \/ Goto(r, "exit") /\ UNCHANGED todo
      BY <1>7, <2>2 DEF LockFile
    <3>3. pc' \in [Process -> Steps] /\ PrunerSteps'
      BY <1>0, <3>2 DEF Typing, PrunerSteps, TypeOK, Process, Goto, Steps
    <3>4. todo' \in [Process -> SUBSET File]
      BY <1>0, <3>1, <3>2 DEF Typing, TypeOK
    <3>. QED
      BY <1>0, <1>7, <2>2, <3>1, <3>3, <3>4 DEF LockFile, Lock, Typing, TypeOK, hist
  <2>. QED
    BY <1>7, <2>1, <2>2 DEF LockFile
<1>. QED
  BY <1>1, <1>2, <1>3, <1>4, <1>5, <1>6, <1>7 DEF Serve

\* So does the task, and so do the deletions of both.
LEMMA DeleteTypes ==
  ASSUME Typing, NEW p \in Process,
         (p \in Pruner /\ Prune(p)) \/ Delete(p) \/ DatabaseError(p)
  PROVE  Typing'
<1>0. NextTodo(p) \subseteq File
  BY DEF NextTodo, Typing, PrunerSteps, TypeOK
<1>1. ASSUME StartPrune(p) PROVE Typing'
  BY <1>1 DEF StartPrune, Typing, PrunerSteps, TypeOK, Goto, Steps, txn, hist
<1>2. ASSUME SelectOrphans(p) PROVE Typing'
  <2>1. Batch(Candidates(p)) \subseteq File
    BY DEF Batch, Candidates, Rows
  <2>. QED
    BY <1>2, <2>1 DEF SelectOrphans, Lock, Typing, PrunerSteps, TypeOK, Goto, Steps, hist
<1>3. ASSUME DeleteObject(p) PROVE Typing'
  BY <1>3 DEF DeleteObject, Typing, PrunerSteps, TypeOK, Goto, Steps, local, txn, hist
<1>4. ASSUME DeleteFails(p) PROVE Typing'
  <2>1. objects' \subseteq File /\ torn' \subseteq File
    BY <1>0, <1>4 DEF DeleteFails, Typing, PrunerSteps, TypeOK
  <2>2. \/ Raise(p) /\ UNCHANGED todo
        \/ Skip(p, NextTodo(p)) /\ UNCHANGED failed
    BY <1>4 DEF DeleteFails
  <2>3. pc' \in [Process -> Steps] /\ PrunerSteps'
    BY <2>2 DEF Raise, Skip, Typing, PrunerSteps, TypeOK, Process, Goto, Steps
  <2>4. todo' \in [Process -> SUBSET File] /\ failed' \in [Process -> BOOLEAN]
    BY <2>2 DEF Raise, Skip, Typing, TypeOK
  <2>. QED
    BY <1>4, <2>1, <2>3, <2>4 DEF DeleteFails, Typing, TypeOK, txn
<1>5. ASSUME DeleteRow(p) PROVE Typing'
  BY <1>0, <1>5 DEF DeleteRow, Skip, Write, Typing, PrunerSteps, TypeOK, Goto, Steps, hist
<1>6. ASSUME DatabaseError(p) PROVE Typing'
  BY <1>0, <1>6 DEF DatabaseError, Raise, Typing, PrunerSteps, TypeOK, Goto, Steps
<1>. QED
  BY <1>1, <1>2, <1>3, <1>4, <1>5, <1>6 DEF Prune, Delete

\* What is committed, and what the bucket keeps of what is not, is well typed.
LEMMA EndTypes ==
  ASSUME Typing, NEW p \in Process, End(p) \/ Crash(p)
  PROVE  Typing'
<1>1. ASSUME Publish(p) PROVE orphanedAt' \in [File -> Time \cup {NoRow}]
  BY <1>1 DEF Publish, Typing, PrunerSteps, TypeOK
<1>2. ASSUME Discard(p) PROVE torn' \subseteq File /\ leaked' \subseteq File /\ UNCHANGED <<orphanedAt, objects>>
  BY <1>2 DEF Discard, Typing, PrunerSteps, TypeOK
<1>3. ASSUME Rollback(p) PROVE Typing'
  BY <1>2, <1>3, LeaveTypes DEF Rollback, Typing, TypeOK
<1>4. ASSUME Commit(p) PROVE Typing'
  BY <1>1, <1>4, LeaveTypes DEF Commit, Typing, TypeOK
<1>5. ASSUME CommitFails(p) PROVE Typing'
  BY <1>2, <1>5, LeaveTypes DEF CommitFails, Typing, TypeOK
<1>6. ASSUME Crash(p) PROVE Typing'
  <2>1. p \in Request => p \in File
    BY DEF File
  <2>2. objects' \subseteq File /\ torn' \subseteq File /\ leaked' \subseteq File
    BY <1>6, <2>1 DEF Crash, NextTodo, Typing, PrunerSteps, TypeOK, Process
  <2>. QED
    BY <1>6, <2>2, LeaveTypes DEF Crash, Typing, TypeOK
<1>. QED
  BY <1>3, <1>4, <1>5, <1>6 DEF End

\* Every step keeps every variable in its type.
LEMMA StepTyping == Typing /\ [Next]_vars => Typing'
<1>. SUFFICES ASSUME Typing, [Next]_vars PROVE Typing'
  OBVIOUS
<1>1. ASSUME Tick PROVE Typing'
  BY <1>1, ManagedFilesAssumption DEF Tick, Typing, PrunerSteps, TypeOK, Time, local, txn, hist
<1>2. ASSUME NEW r \in Request, NEW j \in Job, Begin(r, j) PROVE Typing'
  <2>1. pc' \in [Process -> Steps] /\ PrunerSteps'
    BY <1>2, ManagedFilesAssumption DEF Begin, Goto, Typing, PrunerSteps, TypeOK, Steps, Process
  <2>2. together' \subseteq SUBSET Request
    <3>1. together' = together \cup {{r, q} : q \in {x \in Request : Active(x)}}
      BY <1>2 DEF Begin
    <3>2. {{r, q} : q \in {x \in Request : Active(x)}} \subseteq SUBSET Request
      OBVIOUS
    <3>. QED
      BY <3>1, <3>2 DEF Typing, TypeOK
  <2>3. job' \in [Request -> Job \cup {NoJob}] /\ begun' \in [Process -> Time]
    <3>1. job' = [job EXCEPT ![r] = j] /\ begun' = [begun EXCEPT ![r] = now]
      BY <1>2 DEF Begin
    <3>. QED
      BY <3>1 DEF Typing, TypeOK
  <2>4. UNCHANGED <<orphanedAt, objects, now, seen, todo, failed, answer, txn, torn, leaked>>
    BY <1>2 DEF Begin
  <2>. QED
    BY <2>1, <2>2, <2>3, <2>4 DEF Typing, TypeOK, txn
<1>3. CASE UNCHANGED vars
  BY <1>3 DEF vars, local, txn, hist, Typing, PrunerSteps, TypeOK
<1>. QED
  BY <1>1, <1>2, <1>3, ServeTypes, DeleteTypes, EndTypes DEF Next, Process

-----------------------------------------------------------------------------
(* The inductive invariant: what the rows, the objects and the locks say    *)
(* about every transaction that has not ended.                              *)

\* A row is held by one transaction at a time, and is there as long as it is held.
LocksHold ==
  \A p \in Process :
    /\ locked[p] \subseteq Rows
    /\ \A q \in Process \ {p} : locked[p] \cap locked[q] = {}

\* The row of a new file is committed at the end of its call.
OwnRowLast == \A r \in Request : r \in Rows => pc[r] = "done"

\* A transaction writes the rows it holds, and the row it inserts.
WritesHeld(p) ==
  \A f \in File :
    /\ pc[p] \notin {"put", "object", "row", "exit"} => writes[p][f] = Same
    /\ writes[p][f] = NoRow => f \in locked[p]
    /\ writes[p][f] # Same =>
         f \in locked[p] \/ (f = p /\ p \in Request /\ pc[p] \in {"put", "exit"})

\* What a file is deleted for is still true, since its row is held: a client asked for
\* that file, or its retention is over.
DeletedFor(p, f) ==
  IF p \in Request
  THEN job[p].op = "delete" /\ job[p].file = f /\ pc[p] \in {"object", "row", "exit"}
  ELSE orphanedAt[f] + Retention < begun[p]
TodoHeld(p) ==
  /\ begun[p] <= now
  /\ todo[p] \subseteq locked[p]
  /\ pc[p] \in {"idle", "done"} => todo[p] = {} /\ locked[p] = {}
  /\ \A f \in todo[p] : DeletedFor(p, f)

\* The object goes before its row, and nothing puts it back.
DeletedStay(p) ==
  /\ \A f \in File : writes[p][f] = NoRow => f \notin objects \cup todo[p]
  /\ pc[p] = "row" => NextTodo(p) \cap objects = {}

\* The object of a new file follows the insertion of its row, and its call returns only
\* when both are there.
PutAfterInsert(r) ==
  /\ pc[r] = "put" => writes[r][r] # Same
  /\ r \in objects => pc[r] = "done" \/ (pc[r] = "exit" /\ writes[r][r] # Same)
  /\ pc[r] = "exit" /\ writes[r][r] # Same /\ ~failed[r] => r \in objects

\* A file with the content an upload is going to insert, if the upload does not know it,
\* comes from a call that overlapped with it.
Inserting(r) == pc[r] \in {"claim", "insert", "put"} \/ (pc[r] = "exit" /\ writes[r][r] # Same)
SeenOrOverlapped(r) ==
  Inserting(r) => /\ pc[r] # "claim" => seen[r] = {}
                  /\ \A g \in Rows : ContentOf(g) = job[r].content =>
                       g \in seen[r] \/ {r, g} \in together

\* The parts about one process, and about one call.
ProcessInv(p) == WritesHeld(p) /\ TodoHeld(p) /\ DeletedStay(p)
RequestInv(r) == PutAfterInsert(r) /\ SeenOrOverlapped(r)

\* Two calls under way have overlapped.
ActiveOverlap ==
  \A r, q \in Request : r # q /\ Active(r) /\ Active(q) => {r, q} \in together

IInv == /\ Typing /\ LocksHold /\ OwnRowLast /\ ActiveOverlap
        /\ \A p \in Process : ProcessInv(p)
        /\ \A r \in Request : RequestInv(r)

\* The order of the task leaves no tie: at most one file is next.
LEMMA OneNext ==
  ASSUME Typing, NEW p \in Process, NEW f \in NextTodo(p), NEW g \in NextTodo(p)
  PROVE  f = g
<1>1. f \in File /\ g \in File
  BY DEF NextTodo, Typing, TypeOK
<1>2. orphanedAt[f] \in Int /\ orphanedAt[g] \in Int /\ Rank[f] \in Int /\ Rank[g] \in Int
  BY <1>1, ManagedFilesAssumption DEF Typing, TypeOK, Time, NoRow
<1>. QED
  BY <1>2 DEF NextTodo, OrphanedBefore

\* Initially nothing is held, written or under way.
LEMMA InitIInv == Init => IInv
<1>. SUFFICES ASSUME Init PROVE IInv
  OBVIOUS
<1>1. Typing
  BY InitTyping
<1>2. LocksHold /\ OwnRowLast /\ ActiveOverlap
  BY ManagedFilesAssumption
  DEF Init, LocksHold, OwnRowLast, ActiveOverlap, Active, Rows, Process
<1>3. ASSUME NEW p \in Process PROVE ProcessInv(p)
  BY <1>3 DEF Init, ProcessInv, WritesHeld, TodoHeld, DeletedStay, Same, NoRow
<1>4. ASSUME NEW r \in Request PROVE RequestInv(r)
  BY <1>4, ManagedFilesAssumption
  DEF Init, RequestInv, PutAfterInsert, SeenOrOverlapped, Inserting, Process, File
<1>. QED
  BY <1>1, <1>2, <1>3, <1>4 DEF IInv

-----------------------------------------------------------------------------
(* What a step of a handler or of the task does, whichever it is.           *)

\* It commits nothing; it holds more rows, never one that another process holds; it puts
\* the object of its own call only and deletes only what it has still to delete.
Work(p) ==
  /\ UNCHANGED <<orphanedAt, now, job, leaked, together>>
  /\ \A q \in Process \ {p} :
       /\ pc'[q] = pc[q] /\ begun'[q] = begun[q] /\ todo'[q] = todo[q]
       /\ failed'[q] = failed[q] /\ writes'[q] = writes[q] /\ locked'[q] = locked[q]
  /\ \A q \in Request \ {p} : seen'[q] = seen[q]
  /\ pc[p] # "done" /\ pc'[p] \notin {"idle", "done"} /\ (p \in Request => pc[p] # "idle")
  /\ locked[p] \subseteq locked'[p]
  /\ locked'[p] \subseteq locked[p] \cup {f \in Rows : ~LockedByOther(p, f)}
  /\ \A f \in objects' \ objects : f = p /\ p \in Request /\ pc[p] = "put"
  /\ \A f \in objects \ objects' : pc[p] = "object" /\ f \in NextTodo(p)
  /\ torn \subseteq torn'

\* Every step a call takes before its scope ends stays within Work.
LEMMA ServeWork ==
  ASSUME IInv, NEW r \in Request, Serve(r)
  PROVE  Work(r)
<1>0. r \in Process /\ pc \in [Process -> Steps] /\ writes \in [Process -> [File -> Time \cup {NoRow, Same}]]
  BY DEF Process, IInv, Typing, TypeOK
<1>1. ASSUME FindDuplicates(r) PROVE Work(r)
  BY <1>0, <1>1 DEF FindDuplicates, Goto, txn, hist, Work, IInv, Typing, TypeOK
<1>2. ASSUME ClaimDuplicate(r) PROVE Work(r)
  BY <1>0, <1>2 DEF ClaimDuplicate, Goto, Lock, Write, Return, hist, Work, IInv, Typing, TypeOK
<1>3. ASSUME InsertFile(r) PROVE Work(r)
  BY <1>0, <1>3 DEF InsertFile, Goto, Write, local, hist, Work, IInv, Typing, TypeOK
<1>4. ASSUME PutObject(r) PROVE Work(r)
  BY <1>0, <1>4 DEF PutObject, Goto, Return, txn, hist, Work, IInv, Typing, TypeOK
<1>5. ASSUME PutFails(r) PROVE Work(r)
  BY <1>0, <1>5 DEF PutFails, Raise, Goto, txn, hist, Work, IInv, Typing, TypeOK
<1>6. ASSUME RejectInput(r) PROVE Work(r)
  BY <1>0, <1>6 DEF RejectInput, Raise, Goto, txn, hist, Work, IInv, Typing, TypeOK
<1>7. ASSUME LockFile(r) PROVE Work(r)
  BY <1>0, <1>7 DEF LockFile, Raise, Goto, Lock, hist, Work, IInv, Typing, TypeOK
<1>. QED
  BY <1>1, <1>2, <1>3, <1>4, <1>5, <1>6, <1>7 DEF Serve

\* So does every step of the task, of a deletion and of the database.
LEMMA DeleteWork ==
  ASSUME IInv, NEW p \in Process,
         (p \in Pruner /\ Prune(p)) \/ Delete(p) \/ DatabaseError(p)
  PROVE  Work(p)
<1>0. pc \in [Process -> Steps] /\ writes \in [Process -> [File -> Time \cup {NoRow, Same}]]
  BY DEF IInv, Typing, TypeOK
<1>1. ASSUME p \in Pruner, StartPrune(p) PROVE Work(p)
  BY <1>0, <1>1, ManagedFilesAssumption
  DEF StartPrune, Goto, txn, hist, Work, IInv, Typing, TypeOK
<1>2. ASSUME SelectOrphans(p) PROVE Work(p)
  BY <1>0, <1>2
  DEF SelectOrphans, Batch, Candidates, Lock, Goto, hist, Work, IInv, Typing, TypeOK
<1>3. ASSUME DeleteObject(p) PROVE Work(p)
  BY <1>0, <1>3 DEF DeleteObject, Goto, local, txn, hist, Work, IInv, Typing, TypeOK
<1>4. ASSUME DeleteFails(p) PROVE Work(p)
  BY <1>0, <1>4 DEF DeleteFails, Raise, Skip, Goto, txn, Work, IInv, Typing, TypeOK
<1>5. ASSUME DeleteRow(p) PROVE Work(p)
  BY <1>0, <1>5 DEF DeleteRow, Skip, Write, Goto, hist, Work, IInv, Typing, TypeOK
<1>6. ASSUME DatabaseError(p) PROVE Work(p)
  BY <1>0, <1>6 DEF DatabaseError, Raise, Goto, Work, IInv, Typing, TypeOK
<1>. QED
  BY <1>1, <1>2, <1>3, <1>4, <1>5, <1>6 DEF Prune, Delete

\* Work keeps what all processes share.
LEMMA WorkShared ==
  ASSUME IInv, Typing', NEW p \in Process, Work(p)
  PROVE  LocksHold' /\ OwnRowLast' /\ ActiveOverlap'
<1>0. \A f : f \in Rows' <=> f \in Rows
  BY DEF Work, Rows
<1>1. LocksHold'
  BY <1>0 DEF Work, IInv, LocksHold, LockedByOther
<1>2. OwnRowLast'
  BY <1>0 DEF Work, IInv, OwnRowLast, Process
<1>3. ActiveOverlap'
  BY DEF Work, IInv, ActiveOverlap, Active, Process
<1>. QED
  BY <1>1, <1>2, <1>3

\* Work of one process disturbs nothing that is said about another.
LEMMA WorkOthers ==
  ASSUME IInv, Typing', NEW p \in Process, Work(p), NEW q \in Process \ {p}
  PROVE  ProcessInv(q)' /\ (q \in Request => RequestInv(q)')
<1>0. /\ ProcessInv(q) /\ (q \in Request => RequestInv(q)) /\ LocksHold /\ OwnRowLast
      /\ \A f : f \in Rows' <=> f \in Rows
      /\ todo[p] \subseteq locked[p]
  BY DEF IInv, Work, Rows, ProcessInv, TodoHeld
<1>1. WritesHeld(q)'
  BY <1>0 DEF Work, ProcessInv, WritesHeld
<1>2. TodoHeld(q)'
  BY <1>0 DEF Work, ProcessInv, TodoHeld, DeletedFor
<1>3. DeletedStay(q)'
  <2>1. \A f \in locked[q] : f \notin objects' \ objects
    BY <1>0 DEF Work, LocksHold, OwnRowLast, Rows
  <2>2. NextTodo(q)' = NextTodo(q)
    BY DEF NextTodo, OrphanedBefore, Work
  <2>3. NextTodo(q) \subseteq locked[q]
    BY <1>0 DEF NextTodo, ProcessInv, TodoHeld
  <2>. QED
    BY <1>0, <2>1, <2>2, <2>3 DEF Work, ProcessInv, DeletedStay, WritesHeld
<1>4. ASSUME q \in Request PROVE PutAfterInsert(q)'
  <2>1. q \in objects /\ pc[q] # "done" => q \in objects'
    BY <1>0, <1>4 DEF Work, NextTodo, LocksHold, OwnRowLast
  <2>2. q \in objects' => q \in objects
    BY <1>4 DEF Work
  <2>. QED
    BY <1>0, <1>4, <2>1, <2>2 DEF Work, RequestInv, PutAfterInsert
<1>5. ASSUME q \in Request PROVE SeenOrOverlapped(q)'
  BY <1>0, <1>5 DEF Work, RequestInv, SeenOrOverlapped, Inserting, ContentOf
<1>. QED
  BY <1>1, <1>2, <1>3, <1>4, <1>5 DEF ProcessInv, RequestInv

\* A call that has written its own row has reached its put.
LEMMA OwnWrite ==
  ASSUME IInv, NEW r \in Request, writes[r][r] # Same
  PROVE  pc[r] \in {"put", "exit"}
BY DEF IInv, ProcessInv, WritesHeld, TodoHeld, LocksHold, OwnRowLast, Process, File

\* A step of a call keeps what is said about that call.
LEMMA ServeOwn ==
  ASSUME IInv, Typing', NEW r \in Request, Serve(r)
  PROVE  ProcessInv(r)' /\ RequestInv(r)'
<1>0. r \in Process /\ ProcessInv(r) /\ RequestInv(r) /\ Work(r) /\ LocksHold /\ OwnRowLast
  BY ServeWork DEF Process, IInv
<1>a. Typing /\ (writes[r][r] # Same => pc[r] \in {"put", "exit"}) /\ \A f : f \in Rows' <=> f \in Rows
  BY <1>0, OwnWrite DEF IInv, Work, Rows
<1>1. ASSUME FindDuplicates(r) PROVE ProcessInv(r)' /\ RequestInv(r)'
  <2>1. WritesHeld(r)'
    BY <1>0, <1>a, <1>1
    DEF FindDuplicates, Goto, Duplicates, ContentOf, txn, hist, ProcessInv, NoRow, Same,
        Time, WritesHeld, OwnRowLast, Rows, Typing, TypeOK
  <2>2. TodoHeld(r)'
    BY <1>0, <1>a, <1>1
    DEF FindDuplicates, Goto, Duplicates, ContentOf, txn, hist, ProcessInv, DeletedFor,
        TodoHeld, OwnRowLast, Rows, Typing, TypeOK
  <2>3. DeletedStay(r)'
    BY <1>0, <1>a, <1>1
    DEF FindDuplicates, Goto, Duplicates, ContentOf, txn, hist, ProcessInv, WritesHeld,
        NoRow, Same, Time, DeletedStay, OwnRowLast, Rows, Typing, TypeOK
  <2>4. PutAfterInsert(r)'
    BY <1>0, <1>a, <1>1
    DEF FindDuplicates, Goto, Duplicates, ContentOf, txn, hist, RequestInv, ProcessInv,
        WritesHeld, NoRow, Same, Time, File, PutAfterInsert, OwnRowLast, Rows, Typing,
        TypeOK
  <2>5. SeenOrOverlapped(r)'
    BY <1>0, <1>a, <1>1
    DEF FindDuplicates, Goto, Duplicates, ContentOf, txn, hist, RequestInv, Inserting,
        SeenOrOverlapped, OwnRowLast, Rows, Typing, TypeOK
  <2>. QED
    BY <2>1, <2>2, <2>3, <2>4, <2>5 DEF ProcessInv, RequestInv
<1>2. ASSUME ClaimDuplicate(r) PROVE ProcessInv(r)' /\ RequestInv(r)'
  <2>1. WritesHeld(r)'
    BY <1>0, <1>a, <1>2
    DEF ClaimDuplicate, NextSeen, LockedByOther, Goto, Lock, Write, Return, hist,
        ProcessInv, NoRow, Same, Time, WritesHeld, OwnRowLast, Rows, Typing, TypeOK
  <2>2. TodoHeld(r)'
    BY <1>0, <1>a, <1>2
    DEF ClaimDuplicate, NextSeen, LockedByOther, Goto, Lock, Write, Return, hist,
        ProcessInv, DeletedFor, TodoHeld, OwnRowLast, Rows, Typing, TypeOK
  <2>3. DeletedStay(r)'
    BY <1>0, <1>a, <1>2
    DEF ClaimDuplicate, NextSeen, LockedByOther, Goto, Lock, Write, Return, hist,
        ProcessInv, WritesHeld, NoRow, Same, Time, DeletedStay, OwnRowLast, Rows, Typing,
        TypeOK
  <2>4. PutAfterInsert(r)'
    BY <1>0, <1>a, <1>2
    DEF ClaimDuplicate, NextSeen, LockedByOther, Goto, Lock, Write, Return, hist,
        RequestInv, ProcessInv, WritesHeld, NoRow, Same, Time, File, PutAfterInsert,
        OwnRowLast, Rows, Typing, TypeOK
  <2>5. SeenOrOverlapped(r)'
    <3>1. job' = job /\ together' = together /\ pc[r] = "claim" /\ Inserting(r)
      BY <1>2 DEF ClaimDuplicate, Inserting, hist
    <3>2. CASE seen[r] = {} /\ UNCHANGED seen
      BY <1>0, <1>a, <3>1, <3>2 DEF RequestInv, SeenOrOverlapped, ContentOf
    <3>3. ASSUME NEW f \in NextSeen(r), f \in Rows, Write(r, f, begun[r]), Return(r, f)
          PROVE  SeenOrOverlapped(r)'
      <4>1. f # r /\ writes'[r][r] = writes[r][r] /\ pc'[r] = "exit"
        BY <1>0, <1>a, <3>1, <3>3
        DEF OwnRowLast, Write, Return, Goto, Typing, TypeOK, File, Rows
      <4>. QED
        BY <1>a, <3>1, <4>1 DEF SeenOrOverlapped, Inserting, Same
    <3>4. ASSUME NEW f \in NextSeen(r), f \notin Rows, seen' = [seen EXCEPT ![r] = @ \ {f}],
                 UNCHANGED pc
          PROVE  SeenOrOverlapped(r)'
      BY <1>0, <1>a, <3>1, <3>4 DEF RequestInv, SeenOrOverlapped, ContentOf, Typing, TypeOK
    <3>. QED
      BY <1>2, <3>2, <3>3, <3>4 DEF ClaimDuplicate
  <2>. QED
    BY <2>1, <2>2, <2>3, <2>4, <2>5 DEF ProcessInv, RequestInv
<1>3. ASSUME InsertFile(r) PROVE ProcessInv(r)' /\ RequestInv(r)'
  <2>1. WritesHeld(r)'
    BY <1>0, <1>a, <1>3
    DEF InsertFile, Goto, Write, local, hist, ProcessInv, NoRow, Same, Time, WritesHeld,
        OwnRowLast, Rows, Typing, TypeOK
  <2>2. TodoHeld(r)'
    BY <1>0, <1>a, <1>3
    DEF InsertFile, Goto, Write, local, hist, ProcessInv, DeletedFor, TodoHeld, OwnRowLast,
        Rows, Typing, TypeOK
  <2>3. DeletedStay(r)'
    BY <1>0, <1>a, <1>3
    DEF InsertFile, Goto, Write, local, hist, ProcessInv, WritesHeld, NoRow, Same, Time,
        DeletedStay, OwnRowLast, Rows, Typing, TypeOK
  <2>4. PutAfterInsert(r)'
    BY <1>0, <1>a, <1>3
    DEF InsertFile, Goto, Write, local, hist, RequestInv, ProcessInv, WritesHeld, NoRow,
        Same, Time, File, PutAfterInsert, OwnRowLast, Rows, Typing, TypeOK
  <2>5. SeenOrOverlapped(r)'
    BY <1>0, <1>a, <1>3
    DEF InsertFile, Goto, Write, local, hist, RequestInv, Inserting, ContentOf,
        SeenOrOverlapped, OwnRowLast, Rows, Typing, TypeOK
  <2>. QED
    BY <2>1, <2>2, <2>3, <2>4, <2>5 DEF ProcessInv, RequestInv
<1>4. ASSUME PutObject(r) PROVE ProcessInv(r)' /\ RequestInv(r)'
  <2>1. WritesHeld(r)'
    BY <1>0, <1>a, <1>4
    DEF PutObject, Goto, Return, txn, hist, ProcessInv, NoRow, Same, Time, WritesHeld,
        OwnRowLast, Rows, Typing, TypeOK
  <2>2. TodoHeld(r)'
    BY <1>0, <1>a, <1>4
    DEF PutObject, Goto, Return, txn, hist, ProcessInv, DeletedFor, TodoHeld, OwnRowLast,
        Rows, Typing, TypeOK
  <2>3. DeletedStay(r)'
    BY <1>0, <1>a, <1>4
    DEF LocksHold, PutObject, Goto, Return, txn, hist, ProcessInv, WritesHeld, NoRow, Same,
        Time, DeletedStay, OwnRowLast, Rows, Typing, TypeOK
  <2>4. PutAfterInsert(r)'
    BY <1>0, <1>a, <1>4
    DEF PutObject, Goto, Return, txn, hist, RequestInv, ProcessInv, WritesHeld, NoRow,
        Same, Time, File, PutAfterInsert, OwnRowLast, Rows, Typing, TypeOK
  <2>5. SeenOrOverlapped(r)'
    BY <1>0, <1>a, <1>4
    DEF PutObject, Goto, Return, txn, hist, RequestInv, Inserting, ContentOf,
        SeenOrOverlapped, OwnRowLast, Rows, Typing, TypeOK
  <2>. QED
    BY <2>1, <2>2, <2>3, <2>4, <2>5 DEF ProcessInv, RequestInv
<1>5. ASSUME PutFails(r) PROVE ProcessInv(r)' /\ RequestInv(r)'
  <2>1. WritesHeld(r)'
    BY <1>0, <1>a, <1>5
    DEF PutFails, Raise, Goto, txn, hist, ProcessInv, NoRow, Same, Time, WritesHeld,
        OwnRowLast, Rows, Typing, TypeOK
  <2>2. TodoHeld(r)'
    BY <1>0, <1>a, <1>5
    DEF PutFails, Raise, Goto, txn, hist, ProcessInv, DeletedFor, TodoHeld, OwnRowLast,
        Rows, Typing, TypeOK
  <2>3. DeletedStay(r)'
    BY <1>0, <1>a, <1>5
    DEF LocksHold, PutFails, Raise, Goto, txn, hist, ProcessInv, WritesHeld, NoRow, Same,
        Time, DeletedStay, OwnRowLast, Rows, Typing, TypeOK
  <2>4. PutAfterInsert(r)'
    BY <1>0, <1>a, <1>5
    DEF PutFails, Raise, Goto, txn, hist, RequestInv, ProcessInv, WritesHeld, NoRow, Same,
        Time, File, PutAfterInsert, OwnRowLast, Rows, Typing, TypeOK
  <2>5. SeenOrOverlapped(r)'
    BY <1>0, <1>a, <1>5
    DEF PutFails, Raise, Goto, txn, hist, RequestInv, Inserting, ContentOf,
        SeenOrOverlapped, OwnRowLast, Rows, Typing, TypeOK
  <2>. QED
    BY <2>1, <2>2, <2>3, <2>4, <2>5 DEF ProcessInv, RequestInv
<1>6. ASSUME RejectInput(r) PROVE ProcessInv(r)' /\ RequestInv(r)'
  <2>1. WritesHeld(r)'
    BY <1>0, <1>a, <1>6
    DEF RejectInput, Raise, Goto, txn, hist, ProcessInv, NoRow, Same, Time, WritesHeld,
        OwnRowLast, Rows, Typing, TypeOK
  <2>2. TodoHeld(r)'
    BY <1>0, <1>a, <1>6
    DEF RejectInput, Raise, Goto, txn, hist, ProcessInv, DeletedFor, TodoHeld, OwnRowLast,
        Rows, Typing, TypeOK
  <2>3. DeletedStay(r)'
    BY <1>0, <1>a, <1>6
    DEF RejectInput, Raise, Goto, txn, hist, ProcessInv, WritesHeld, NoRow, Same, Time,
        DeletedStay, OwnRowLast, Rows, Typing, TypeOK
  <2>4. PutAfterInsert(r)'
    BY <1>0, <1>a, <1>6
    DEF RejectInput, Raise, Goto, txn, hist, RequestInv, ProcessInv, WritesHeld, NoRow,
        Same, Time, File, PutAfterInsert, OwnRowLast, Rows, Typing, TypeOK
  <2>5. SeenOrOverlapped(r)'
    BY <1>0, <1>a, <1>6
    DEF RejectInput, Raise, Goto, txn, hist, RequestInv, Inserting, ContentOf,
        SeenOrOverlapped, OwnRowLast, Rows, Typing, TypeOK
  <2>. QED
    BY <2>1, <2>2, <2>3, <2>4, <2>5 DEF ProcessInv, RequestInv
<1>7. ASSUME LockFile(r) PROVE ProcessInv(r)' /\ RequestInv(r)'
  <2>1. WritesHeld(r)'
    BY <1>0, <1>a, <1>7
    DEF LockFile, Raise, Goto, Lock, hist, ProcessInv, NoRow, Same, Time, WritesHeld,
        OwnRowLast, Rows, Typing, TypeOK
  <2>2. TodoHeld(r)'
    BY <1>0, <1>a, <1>7
    DEF LockFile, Raise, Goto, Lock, hist, ProcessInv, DeletedFor, TodoHeld, OwnRowLast,
        Rows, Typing, TypeOK
  <2>3. DeletedStay(r)'
    BY <1>0, <1>a, <1>7
    DEF LockFile, Raise, Goto, Lock, hist, ProcessInv, WritesHeld, NoRow, Same, Time,
        DeletedStay, OwnRowLast, Rows, Typing, TypeOK
  <2>4. PutAfterInsert(r)'
    BY <1>0, <1>a, <1>7
    DEF LockFile, Raise, Goto, Lock, hist, RequestInv, ProcessInv, WritesHeld, NoRow, Same,
        Time, File, PutAfterInsert, OwnRowLast, Rows, Typing, TypeOK
  <2>5. SeenOrOverlapped(r)'
    BY <1>0, <1>a, <1>7
    DEF LockFile, Raise, Goto, Lock, hist, RequestInv, Inserting, ContentOf,
        SeenOrOverlapped, OwnRowLast, Rows, Typing, TypeOK
  <2>. QED
    BY <2>1, <2>2, <2>3, <2>4, <2>5 DEF ProcessInv, RequestInv
<1>. QED
  BY <1>1, <1>2, <1>3, <1>4, <1>5, <1>6, <1>7 DEF Serve

\* A step of the task, of a deletion or of the database keeps what is said about its
\* process.
LEMMA DeleteOwn ==
  ASSUME IInv, Typing', NEW p \in Process,
         (p \in Pruner /\ Prune(p)) \/ Delete(p) \/ DatabaseError(p)
  PROVE  ProcessInv(p)' /\ (p \in Request => RequestInv(p)')
<1>0. ProcessInv(p) /\ (p \in Request => RequestInv(p)) /\ Work(p) /\ LocksHold /\ OwnRowLast
  BY DeleteWork DEF IInv
<1>a. /\ Typing /\ \A f : f \in Rows' <=> f \in Rows
      /\ p \in Request => (writes[p][p] # Same => pc[p] \in {"put", "exit"})
  BY <1>0, OwnWrite DEF IInv, Work, Rows
<1>b. p \in Pruner => p \notin Request
  BY ManagedFilesAssumption
<1>1. ASSUME p \in Pruner, StartPrune(p) PROVE ProcessInv(p)' /\ (p \in Request => RequestInv(p)')
  <2>1. WritesHeld(p)'
    BY <1>0, <1>a, <1>b, <1>1
    DEF StartPrune, Goto, txn, hist, ProcessInv, TodoHeld, WritesHeld, OwnRowLast, Rows,
        Typing, TypeOK
  <2>2. TodoHeld(p)'
    BY <1>0, <1>a, <1>b, <1>1, ManagedFilesAssumption
    DEF NoRow, Time, StartPrune, Goto, txn, hist, ProcessInv, DeletedFor, TodoHeld,
        OwnRowLast, Rows, Typing, TypeOK
  <2>3. DeletedStay(p)'
    BY <1>0, <1>a, <1>b, <1>1
    DEF StartPrune, Goto, txn, hist, ProcessInv, WritesHeld, TodoHeld, NoRow, Same, Time,
        DeletedStay, OwnRowLast, Rows, Typing, TypeOK
  <2>4. p \in Request => PutAfterInsert(p)'
    BY <1>0, <1>a, <1>b, <1>1
    DEF StartPrune, Goto, txn, hist, RequestInv, ProcessInv, WritesHeld, TodoHeld,
        LocksHold, PutAfterInsert, OwnRowLast, Rows, Typing, TypeOK
  <2>5. p \in Request => SeenOrOverlapped(p)'
    BY <1>0, <1>a, <1>b, <1>1
    DEF StartPrune, Goto, txn, hist, RequestInv, ProcessInv, TodoHeld, LocksHold,
        Inserting, ContentOf, WritesHeld, SeenOrOverlapped, OwnRowLast, Rows, Typing, TypeOK
  <2>. QED
    BY <2>1, <2>2, <2>3, <2>4, <2>5 DEF ProcessInv, RequestInv
<1>2. ASSUME p \in Pruner, SelectOrphans(p) PROVE ProcessInv(p)' /\ (p \in Request => RequestInv(p)')
  <2>1. WritesHeld(p)'
    BY <1>0, <1>a, <1>b, <1>2
    DEF SelectOrphans, Batch, Candidates, LockedByOther, Lock, Goto, hist, ProcessInv,
        TodoHeld, WritesHeld, OwnRowLast, Rows, Typing, TypeOK
  <2>2. TodoHeld(p)'
    BY <1>0, <1>a, <1>b, <1>2, ManagedFilesAssumption
    DEF NoRow, Time, SelectOrphans, Batch, Candidates, LockedByOther, Lock, Goto, hist,
        ProcessInv, DeletedFor, TodoHeld, OwnRowLast, Rows, Typing, TypeOK
  <2>3. DeletedStay(p)'
    BY <1>0, <1>a, <1>b, <1>2
    DEF SelectOrphans, Batch, Candidates, LockedByOther, Lock, Goto, hist, ProcessInv,
        WritesHeld, TodoHeld, NoRow, Same, Time, DeletedStay, OwnRowLast, Rows, Typing,
        TypeOK
  <2>4. p \in Request => PutAfterInsert(p)'
    BY <1>0, <1>a, <1>b, <1>2
    DEF SelectOrphans, Batch, Candidates, LockedByOther, Lock, Goto, hist, RequestInv,
        ProcessInv, WritesHeld, TodoHeld, LocksHold, PutAfterInsert, OwnRowLast, Rows,
        Typing, TypeOK
  <2>5. p \in Request => SeenOrOverlapped(p)'
    BY <1>0, <1>a, <1>b, <1>2
    DEF SelectOrphans, Batch, Candidates, LockedByOther, Lock, Goto, hist, RequestInv,
        ProcessInv, TodoHeld, LocksHold, Inserting, ContentOf, WritesHeld,
        SeenOrOverlapped, OwnRowLast, Rows, Typing, TypeOK
  <2>. QED
    BY <2>1, <2>2, <2>3, <2>4, <2>5 DEF ProcessInv, RequestInv
<1>3. ASSUME DeleteObject(p) PROVE ProcessInv(p)' /\ (p \in Request => RequestInv(p)')
  <2>1. WritesHeld(p)'
    BY <1>0, <1>a, <1>b, <1>3
    DEF DeleteObject, NextTodo, OrphanedBefore, Goto, local, txn, hist, ProcessInv,
        TodoHeld, WritesHeld, OwnRowLast, Rows, Typing, TypeOK
  <2>2. TodoHeld(p)'
    BY <1>0, <1>a, <1>b, <1>3
    DEF DeleteObject, NextTodo, OrphanedBefore, Goto, local, txn, hist, ProcessInv,
        DeletedFor, TodoHeld, OwnRowLast, Rows, Typing, TypeOK
  <2>3. DeletedStay(p)'
    BY <1>0, <1>a, <1>b, <1>3
    DEF DeleteObject, NextTodo, OrphanedBefore, Goto, local, txn, hist, ProcessInv,
        WritesHeld, TodoHeld, NoRow, Same, Time, DeletedStay, OwnRowLast, Rows, Typing,
        TypeOK
  <2>4. p \in Request => PutAfterInsert(p)'
    BY <1>0, <1>a, <1>b, <1>3
    DEF DeleteObject, NextTodo, OrphanedBefore, Goto, local, txn, hist, RequestInv,
        ProcessInv, WritesHeld, TodoHeld, LocksHold, PutAfterInsert, OwnRowLast, Rows,
        Typing, TypeOK
  <2>5. p \in Request => SeenOrOverlapped(p)'
    BY <1>0, <1>a, <1>b, <1>3
    DEF DeleteObject, NextTodo, OrphanedBefore, Goto, local, txn, hist, RequestInv,
        ProcessInv, TodoHeld, LocksHold, Inserting, ContentOf, WritesHeld,
        SeenOrOverlapped, OwnRowLast, Rows, Typing, TypeOK
  <2>. QED
    BY <2>1, <2>2, <2>3, <2>4, <2>5 DEF ProcessInv, RequestInv
<1>4. ASSUME DeleteFails(p) PROVE ProcessInv(p)' /\ (p \in Request => RequestInv(p)')
  <2>1. WritesHeld(p)'
    BY <1>0, <1>a, <1>b, <1>4
    DEF DeleteFails, NextTodo, Raise, Skip, Goto, txn, ProcessInv, TodoHeld, WritesHeld,
        OwnRowLast, Rows, Typing, TypeOK
  <2>2. TodoHeld(p)'
    BY <1>0, <1>a, <1>b, <1>4
    DEF DeleteFails, NextTodo, Raise, Skip, Goto, txn, ProcessInv, DeletedFor, TodoHeld,
        OwnRowLast, Rows, Typing, TypeOK
  <2>3. DeletedStay(p)'
    BY <1>0, <1>a, <1>b, <1>4
    DEF DeleteFails, NextTodo, Raise, Skip, Goto, txn, ProcessInv, WritesHeld, TodoHeld,
        NoRow, Same, Time, DeletedStay, OwnRowLast, Rows, Typing, TypeOK
  <2>4. p \in Request => PutAfterInsert(p)'
    BY <1>0, <1>a, <1>b, <1>4
    DEF DeleteFails, NextTodo, Raise, Skip, Goto, txn, RequestInv, ProcessInv, WritesHeld,
        TodoHeld, LocksHold, PutAfterInsert, OwnRowLast, Rows, Typing, TypeOK
  <2>5. p \in Request => SeenOrOverlapped(p)'
    BY <1>0, <1>a, <1>b, <1>4
    DEF DeleteFails, NextTodo, Raise, Skip, Goto, txn, RequestInv, ProcessInv, TodoHeld,
        LocksHold, Inserting, ContentOf, WritesHeld, SeenOrOverlapped, OwnRowLast, Rows,
        Typing, TypeOK
  <2>. QED
    BY <2>1, <2>2, <2>3, <2>4, <2>5 DEF ProcessInv, RequestInv
<1>5. ASSUME DeleteRow(p) PROVE ProcessInv(p)' /\ (p \in Request => RequestInv(p)')
  <2>1. WritesHeld(p)'
    BY <1>0, <1>a, <1>b, <1>5
    DEF DeleteRow, NextTodo, Skip, Write, Goto, hist, ProcessInv, TodoHeld, WritesHeld,
        OwnRowLast, Rows, Typing, TypeOK
  <2>2. TodoHeld(p)'
    BY <1>0, <1>a, <1>b, <1>5
    DEF DeleteRow, NextTodo, Skip, Write, Goto, hist, ProcessInv, DeletedFor, TodoHeld,
        OwnRowLast, Rows, Typing, TypeOK
  <2>3. DeletedStay(p)'
    BY <1>0, <1>a, <1>b, <1>5
    DEF DeleteRow, NextTodo, Skip, Write, Goto, hist, ProcessInv, WritesHeld, TodoHeld,
        NoRow, Same, Time, DeletedStay, OwnRowLast, Rows, Typing, TypeOK
  <2>4. p \in Request => PutAfterInsert(p)'
    BY <1>0, <1>a, <1>b, <1>5
    DEF DeleteRow, NextTodo, Skip, Write, Goto, hist, RequestInv, ProcessInv, WritesHeld,
        TodoHeld, LocksHold, PutAfterInsert, OwnRowLast, Rows, Typing, TypeOK
  <2>5. p \in Request => SeenOrOverlapped(p)'
    BY <1>0, <1>a, <1>b, <1>5
    DEF DeleteRow, NextTodo, Skip, Write, Goto, hist, RequestInv, ProcessInv, TodoHeld,
        LocksHold, Inserting, ContentOf, WritesHeld, SeenOrOverlapped, OwnRowLast, Rows,
        Typing, TypeOK
  <2>. QED
    BY <2>1, <2>2, <2>3, <2>4, <2>5 DEF ProcessInv, RequestInv
<1>6. ASSUME DatabaseError(p) PROVE ProcessInv(p)' /\ (p \in Request => RequestInv(p)')
  <2>1. WritesHeld(p)'
    BY <1>0, <1>a, <1>b, <1>6
    DEF DatabaseError, Raise, Goto, ProcessInv, TodoHeld, WritesHeld, OwnRowLast, Rows,
        Typing, TypeOK
  <2>2. TodoHeld(p)'
    BY <1>0, <1>a, <1>b, <1>6
    DEF DatabaseError, Raise, Goto, ProcessInv, DeletedFor, TodoHeld, OwnRowLast, Rows,
        Typing, TypeOK
  <2>3. DeletedStay(p)'
    BY <1>0, <1>a, <1>b, <1>6
    DEF DatabaseError, Raise, Goto, ProcessInv, WritesHeld, TodoHeld, NoRow, Same, Time,
        DeletedStay, OwnRowLast, Rows, Typing, TypeOK
  <2>4. p \in Request => PutAfterInsert(p)'
    BY <1>0, <1>a, <1>b, <1>6
    DEF DatabaseError, Raise, Goto, RequestInv, ProcessInv, WritesHeld, TodoHeld, NextTodo,
        LocksHold, PutAfterInsert, OwnRowLast, Rows, Typing, TypeOK
  <2>5. p \in Request => SeenOrOverlapped(p)'
    BY <1>0, <1>a, <1>b, <1>6
    DEF DatabaseError, Raise, Goto, RequestInv, ProcessInv, TodoHeld, LocksHold, Inserting,
        ContentOf, WritesHeld, NextTodo, SeenOrOverlapped, OwnRowLast, Rows, Typing, TypeOK
  <2>. QED
    BY <2>1, <2>2, <2>3, <2>4, <2>5 DEF ProcessInv, RequestInv
<1>. QED
  BY <1>1, <1>2, <1>3, <1>4, <1>5, <1>6 DEF Prune, Delete

-----------------------------------------------------------------------------
(* Ends, calls that begin, and time.                                        *)

\* What the database and the bucket keep of a transaction that is over: a commit publishes
\* its writes; otherwise the rows stay, and what the bucket has lost or got is recorded.
Committed(p) ==
  /\ pc[p] = "exit" /\ Untold(p) /\ ~dead[p] /\ Publish(p)
  /\ UNCHANGED <<objects, torn, leaked>>
Discarded(p) ==
  /\ UNCHANGED orphanedAt
  /\ objects \subseteq objects'
  /\ \A f \in objects' \ objects : f = p /\ p \in Request /\ pc[p] = "put"
  /\ torn \cup {f \in File : writes[p][f] = NoRow} \subseteq torn'
  /\ pc[p] = "row" => NextTodo(p) \subseteq torn'
  /\ leaked' = leaked \cup {f \in objects' : f = p}

\* Every end is one or the other.
LEMMA Ends ==
  ASSUME IInv, NEW p \in Process, End(p) \/ Crash(p)
  PROVE  Active(p) /\ Leave(p) /\ (Committed(p) \/ Discarded(p))
<1>0. pc[p] = "put" => p \in Request
  BY DEF IInv, Typing, PrunerSteps, Process
<1>1. ASSUME Crash(p) PROVE Discarded(p)
  BY <1>0, <1>1 DEF Crash, Discarded
<1>2. ASSUME Rollback(p) \/ CommitFails(p) PROVE Discarded(p)
  BY <1>2 DEF Rollback, CommitFails, Discard, Discarded
<1>3. ASSUME Commit(p) PROVE Committed(p)
  BY <1>3 DEF Commit, Committed
<1>4. Active(p) /\ Leave(p)
  BY DEF End, Rollback, Commit, CommitFails, Crash, Active
<1>. QED
  BY <1>1, <1>2, <1>3, <1>4 DEF End

\* A commit changes the rows its transaction holds and adds that of its own call.
LEMMA CommitRows ==
  ASSUME IInv, NEW p \in Process, Committed(p)
  PROVE  /\ \A f \in File : f \notin locked[p] /\ f # p => orphanedAt'[f] = orphanedAt[f]
         /\ \A f \in Rows' \ Rows : f = p /\ p \in Request /\ writes[p][p] \notin {Same, NoRow}
         /\ \A f \in Rows \ Rows' : writes[p][f] = NoRow
         /\ p \in Request => p \notin Rows /\ p \notin locked[p]
<1>0. WritesHeld(p) /\ LocksHold /\ OwnRowLast /\ pc[p] = "exit"
  BY DEF IInv, ProcessInv, Committed
<1>1. \A f \in File : orphanedAt'[f] = IF writes[p][f] = Same THEN orphanedAt[f] ELSE writes[p][f]
  BY DEF Committed, Publish
<1>2. \A f \in File : f \notin locked[p] /\ f # p => orphanedAt'[f] = orphanedAt[f]
  BY <1>0, <1>1 DEF WritesHeld
<1>3. \A f \in Rows' \ Rows : f = p /\ p \in Request /\ writes[p][p] \notin {Same, NoRow}
  BY <1>0, <1>1 DEF WritesHeld, LocksHold, Rows
<1>4. \A f \in Rows \ Rows' : writes[p][f] = NoRow
  BY <1>1 DEF Rows
<1>5. p \in Request => p \notin Rows /\ p \notin locked[p]
  BY <1>0 DEF OwnRowLast, LocksHold
<1>. QED
  BY <1>2, <1>3, <1>4, <1>5

\* An end lets go of its rows, and of no others.
LEMMA EndShared ==
  ASSUME IInv, NEW p \in Process, Leave(p), Committed(p) \/ Discarded(p)
  PROVE  LocksHold' /\ OwnRowLast' /\ ActiveOverlap'
<1>0. /\ Typing /\ LocksHold /\ OwnRowLast /\ ActiveOverlap /\ WritesHeld(p)
      /\ pc'[p] \in {"done", "idle"} /\ (p \in Request => pc'[p] = "done") /\ locked'[p] = {}
      /\ \A q \in Process \ {p} : pc'[q] = pc[q] /\ locked'[q] = locked[q]
      /\ together' = together
  BY DEF IInv, ProcessInv, Leave, Typing, TypeOK
<1>1. \A q \in Process \ {p} : locked[q] \subseteq Rows'
  <2>1. CASE Committed(p)
    BY <1>0, <2>1, CommitRows DEF LocksHold, WritesHeld, Rows
  <2>2. CASE Discarded(p)
    BY <1>0, <2>2 DEF LocksHold, Discarded, Rows
  <2>. QED
    BY <2>1, <2>2
<1>2. LocksHold'
  BY <1>0, <1>1 DEF LocksHold
<1>3. OwnRowLast'
  <2>1. CASE Committed(p)
    BY <1>0, <2>1, CommitRows DEF OwnRowLast, Process
  <2>2. CASE Discarded(p)
    BY <1>0, <2>2 DEF OwnRowLast, Discarded, Rows, Process
  <2>. QED
    BY <2>1, <2>2
<1>4. ActiveOverlap'
  BY <1>0 DEF ActiveOverlap, Active, Process
<1>. QED
  BY <1>2, <1>3, <1>4

\* An end leaves what is said about other processes.
LEMMA EndOthers ==
  ASSUME IInv, NEW p \in Process, Active(p), Leave(p), Committed(p) \/ Discarded(p),
         NEW q \in Process \ {p}
  PROVE  ProcessInv(q)' /\ (q \in Request => RequestInv(q)')
<1>0. /\ Typing /\ LocksHold /\ OwnRowLast /\ ActiveOverlap
      /\ ProcessInv(q) /\ (q \in Request => RequestInv(q))
      /\ pc'[q] = pc[q] /\ locked'[q] = locked[q] /\ todo'[q] = todo[q] /\ failed'[q] = failed[q]
      /\ writes'[q] = writes[q] /\ UNCHANGED <<now, job, begun, seen, together>>
  BY DEF IInv, ProcessInv, Leave, Typing, TypeOK
<1>1. \A f \in locked[q] : f \in Rows /\ f \notin locked[p] /\ f \in File
  BY <1>0 DEF LocksHold, Rows
<1>2. \A f \in locked[q] : orphanedAt'[f] = orphanedAt[f]
  <2>1. CASE Committed(p)
    BY <1>1, <2>1, CommitRows, ManagedFilesAssumption DEF Process, File
  <2>. QED
    BY <2>1 DEF Discarded
<1>3. \A f \in objects' \ objects : f = p /\ p \in Request /\ pc[p] = "put"
  BY DEF Committed, Discarded
<1>a. objects \subseteq objects'
  BY DEF Committed, Discarded
<1>4. WritesHeld(q)'
  BY <1>0 DEF ProcessInv, WritesHeld
<1>5. TodoHeld(q)'
  BY <1>0, <1>2 DEF ProcessInv, TodoHeld, DeletedFor
<1>6. DeletedStay(q)'
  <2>1. \A f \in locked[q] : f \notin objects' \ objects
    BY <1>0, <1>1, <1>3 DEF OwnRowLast
  <2>2. todo[q] \subseteq locked[q]
    BY <1>0 DEF ProcessInv, TodoHeld
  <2>3. NextTodo(q)' = NextTodo(q)
    BY <1>0, <1>2, <2>2 DEF NextTodo, OrphanedBefore
  <2>4. NextTodo(q) \subseteq locked[q]
    BY <2>2 DEF NextTodo
  <2>. QED
    BY <1>0, <2>1, <2>3, <2>4 DEF ProcessInv, DeletedStay, WritesHeld
<1>7. ASSUME q \in Request PROVE PutAfterInsert(q)'
  BY <1>0, <1>3, <1>a, <1>7 DEF RequestInv, PutAfterInsert
<1>8. ASSUME q \in Request PROVE SeenOrOverlapped(q)'
  <2>1. Inserting(q)' = Inserting(q) /\ \A g : ContentOf(g)' = ContentOf(g)
    BY <1>0 DEF Inserting, ContentOf
  <2>2. \A g \in Rows' \ Rows : g = p /\ p \in Request
    <3>1. CASE Committed(p)
      BY <3>1, CommitRows
    <3>2. CASE Discarded(p)
      BY <3>2 DEF Discarded, Rows
    <3>. QED
      BY <3>1, <3>2
  <2>3. Inserting(q) /\ p \in Request => {q, p} \in together
    BY <1>0, <1>8 DEF ActiveOverlap, Active, Inserting
  <2>. QED
    BY <1>0, <1>8, <2>1, <2>2, <2>3 DEF RequestInv, SeenOrOverlapped
<1>. QED
  BY <1>4, <1>5, <1>6, <1>7, <1>8 DEF ProcessInv, RequestInv

\* A process whose transaction is over has nothing left to hold, write or delete.
LEMMA EndOwn ==
  ASSUME IInv, NEW p \in Process, Leave(p)
  PROVE  ProcessInv(p)' /\ (p \in Request => RequestInv(p)')
<1>0. /\ pc'[p] = (IF p \in Request THEN "done" ELSE "idle")
      /\ todo'[p] = {} /\ locked'[p] = {} /\ writes'[p] = [f \in File |-> Same]
      /\ begun' = begun /\ now' = now /\ TodoHeld(p)
  BY DEF IInv, ProcessInv, Typing, TypeOK, Leave
<1>1. WritesHeld(p)'
  BY <1>0 DEF WritesHeld, Same, NoRow
<1>2. TodoHeld(p)'
  BY <1>0 DEF TodoHeld
<1>3. DeletedStay(p)'
  BY <1>0 DEF DeletedStay, Same, NoRow
<1>4. p \in Request => PutAfterInsert(p)'
  BY <1>0 DEF PutAfterInsert
<1>5. p \in Request => SeenOrOverlapped(p)'
  BY <1>0 DEF SeenOrOverlapped, Inserting
<1>. QED
  BY <1>1, <1>2, <1>3, <1>4, <1>5 DEF ProcessInv, RequestInv

\* A call that begins overlaps with those under way.
LEMMA BeginIInv ==
  ASSUME IInv, Typing', NEW r \in Request, NEW j \in Job, Begin(r, j)
  PROVE  IInv'
<1>0. /\ Typing /\ LocksHold /\ OwnRowLast /\ ActiveOverlap /\ r \in Process /\ pc[r] = "idle"
      /\ \A q \in Process : ProcessInv(q)
      /\ \A q \in Request : RequestInv(q)
  BY DEF IInv, Begin, Process
<1>1. /\ pc'[r] \in {"find", "lock"} /\ begun'[r] = now
      /\ \A q \in Process \ {r} : pc'[q] = pc[q] /\ begun'[q] = begun[q]
      /\ \A q \in Request \ {r} : job'[q] = job[q]
      /\ UNCHANGED <<orphanedAt, objects, now, seen, todo, failed, dead, writes, locked>>
  BY <1>0 DEF Begin, Goto, Typing, TypeOK, txn
<1>2. together' = together \cup {{r, q} : q \in {x \in Request : Active(x)}}
  BY DEF Begin
<1>3. LocksHold' /\ OwnRowLast'
  BY <1>0, <1>1 DEF LocksHold, OwnRowLast, Rows, Process
<1>4. ActiveOverlap'
  <2>1. ASSUME NEW q \in Request \ {r}, Active(q) PROVE {r, q} \in together' /\ {q, r} \in together'
    <3>1. {r, q} \in together'
      BY <1>2, <2>1
    <3>2. {r, q} = {q, r}
      OBVIOUS
    <3>. QED
      BY <3>1, <3>2
  <2>2. \A q \in Request \ {r} : Active(q)' => Active(q)
    BY <1>1 DEF Active, Process
  <2>3. together \subseteq together'
    BY <1>2
  <2>. QED
    BY <1>0, <2>1, <2>2, <2>3 DEF ActiveOverlap
<1>5. ASSUME NEW p \in Process PROVE ProcessInv(p)'
  <2>1. NextTodo(p)' = NextTodo(p)
    BY <1>1 DEF NextTodo, OrphanedBefore
  <2>2. WritesHeld(p)'
    BY <1>0, <1>1 DEF ProcessInv, WritesHeld
  <2>3. TodoHeld(p)'
    <3>1. CASE p = r
      BY <1>0, <1>1, <3>1, ManagedFilesAssumption DEF ProcessInv, TodoHeld, Typing, TypeOK, Time
    <3>2. CASE p # r
      BY <1>0, <1>1, <3>2 DEF ProcessInv, TodoHeld, DeletedFor
    <3>. QED
      BY <3>1, <3>2
  <2>4. DeletedStay(p)'
    BY <1>0, <1>1, <2>1 DEF ProcessInv, DeletedStay
  <2>. QED
    BY <2>2, <2>3, <2>4 DEF ProcessInv
<1>6. ASSUME NEW q \in Request PROVE RequestInv(q)'
  <2>1. PutAfterInsert(q)'
    BY <1>0, <1>1, <1>6 DEF RequestInv, PutAfterInsert, Process
  <2>2. CASE q = r
    BY <1>0, <1>1, <2>1, <2>2 DEF RequestInv, SeenOrOverlapped, Inserting
  <2>3. CASE q # r
    <3>1. Inserting(q)' = Inserting(q) /\ job'[q] = job[q] /\ seen'[q] = seen[q]
      BY <1>1, <2>3 DEF Inserting, Process
    <3>2. \A g \in Rows' : g \in Rows /\ ContentOf(g)' = ContentOf(g)
      BY <1>0, <1>1 DEF Rows, OwnRowLast, ContentOf, File
    <3>3. together \subseteq together'
      BY <1>2
    <3>4. pc'[q] = pc[q]
      BY <1>1, <2>3 DEF Process
    <3>. QED
      BY <1>0, <2>1, <3>1, <3>2, <3>3, <3>4 DEF RequestInv, SeenOrOverlapped
  <2>. QED
    BY <2>2, <2>3
<1>. QED
  BY <1>3, <1>4, <1>5, <1>6 DEF IInv

\* Time passing makes nothing due that is already being deleted.
LEMMA QuietIInv ==
  ASSUME IInv, Typing', Tick \/ UNCHANGED vars
  PROVE  IInv'
<1>1. UNCHANGED <<orphanedAt, objects, pc, local, txn, hist>> /\ now <= now'
  BY ManagedFilesAssumption DEF Tick, vars, IInv, Typing, TypeOK, Time
<1>2. LocksHold' /\ OwnRowLast' /\ ActiveOverlap'
  BY <1>1 DEF IInv, LocksHold, OwnRowLast, ActiveOverlap, Active, Rows, local, txn, hist
<1>3. ASSUME NEW p \in Process PROVE ProcessInv(p)'
  <2>1. ProcessInv(p) /\ begun[p] \in Int /\ now \in Int /\ now' \in Int
    BY ManagedFilesAssumption DEF IInv, Typing, TypeOK, Time
  <2>2. TodoHeld(p)'
    BY <1>1, <2>1 DEF ProcessInv, TodoHeld, DeletedFor, local, txn
  <2>. QED
    BY <1>1, <2>1, <2>2
    DEF ProcessInv, WritesHeld, DeletedStay, NextTodo, OrphanedBefore, local, txn
<1>4. ASSUME NEW r \in Request PROVE RequestInv(r)'
  BY <1>1
  DEF IInv, RequestInv, PutAfterInsert, SeenOrOverlapped, Inserting, Rows, ContentOf,
      local, txn, hist
<1>. QED
  BY <1>2, <1>3, <1>4 DEF IInv

\* The invariant is inductive.
LEMMA StepIInv == IInv /\ [Next]_vars => IInv'
<1>. SUFFICES ASSUME IInv, [Next]_vars PROVE IInv'
  OBVIOUS
<1>0. Typing'
  BY StepTyping DEF IInv
<1>1. ASSUME NEW r \in Request, Serve(r) PROVE IInv'
  BY <1>0, <1>1, ServeWork, ServeOwn, WorkShared, WorkOthers DEF IInv, Process
<1>2. ASSUME NEW p \in Process, (p \in Pruner /\ Prune(p)) \/ Delete(p) \/ DatabaseError(p) PROVE IInv'
  BY <1>0, <1>2, DeleteWork, DeleteOwn, WorkShared, WorkOthers DEF IInv, Process
<1>3. ASSUME NEW p \in Process, End(p) \/ Crash(p) PROVE IInv'
  BY <1>0, <1>3, Ends, EndShared, EndOthers, EndOwn DEF IInv, Process
<1>. QED
  BY <1>0, <1>1, <1>2, <1>3, BeginIInv, QuietIInv DEF Next, Process

\* The invariant holds in every reachable state.
THEOREM Invariance == Spec => []IInv
<1>. QED
  BY InitIInv, StepIInv, PTL DEF Spec

\* Every variable keeps its type.
THEOREM TypeCorrect == Spec => []TypeOK
<1>1. IInv => TypeOK
  BY DEF IInv, Typing
<1>. QED
  BY <1>1, Invariance, PTL

-----------------------------------------------------------------------------
(* What the bucket holds.                                                   *)

\* The order of the files one process has still to delete is changed by no other.
LEMMA NextTodoKept ==
  ASSUME IInv, NEW p \in Process, Committed(p), NEW q \in Process \ {p}, todo'[q] = todo[q]
  PROVE  NextTodo(q)' = NextTodo(q)
<1>1. \A f \in todo[q] : f \in Rows /\ f \notin locked[p]
  BY DEF IInv, ProcessInv, TodoHeld, LocksHold
<1>2. \A f \in todo[q] : f \in File /\ orphanedAt'[f] = orphanedAt[f]
  BY <1>1, CommitRows, ManagedFilesAssumption DEF Rows, Process, File
<1>. QED
  BY <1>2 DEF NextTodo, OrphanedBefore

\* An object without a row is that of a call that has not ended, or one a fault leaked.
LEMMA OrphansStep == IInv /\ IInv' /\ OrphansAccountedFor /\ [Next]_vars => OrphansAccountedFor'
<1>. SUFFICES ASSUME IInv, IInv', OrphansAccountedFor, [Next]_vars,
                     NEW f \in objects', f \notin Rows', f \notin leaked'
              PROVE  f \in Request /\ pc'[f] = "exit"
  BY DEF OrphansAccountedFor
<1>0. f \in File /\ (f \in Request => (pc'[f] \in {"exit", "done"}))
  BY DEF IInv, Typing, TypeOK, RequestInv, PutAfterInsert
<1>1. ASSUME NEW p \in Process, Work(p) PROVE f \in Request /\ pc'[f] = "exit"
  <2>1. f \notin Rows /\ f \notin leaked
    BY <1>1 DEF Work, Rows
  <2>2. CASE f \in objects
    BY <1>0, <1>1, <2>1, <2>2 DEF Work, OrphansAccountedFor, Process
  <2>3. CASE f \notin objects
    BY <1>0, <1>1, <2>3 DEF Work
  <2>. QED
    BY <2>2, <2>3
<1>2. ASSUME NEW p \in Process, Leave(p), Committed(p) PROVE f \in Request /\ pc'[f] = "exit"
  <2>1. f \in objects /\ f \notin leaked
    BY <1>2 DEF Committed
  <2>2. f \notin Rows
    <3>1. f \in Rows => writes[p][f] = NoRow
      BY <1>2, CommitRows
    <3>2. DeletedStay(p)
      BY DEF IInv, ProcessInv
    <3>. QED
      BY <1>0, <2>1, <3>1, <3>2 DEF DeletedStay
  <2>3. f \in Request /\ pc[f] = "exit" /\ writes[f][f] # Same
    BY <2>1, <2>2 DEF OrphansAccountedFor, IInv, RequestInv, PutAfterInsert
  <2>4. f # p
    <3>1. writes[f][f] # NoRow
      BY <2>2, <2>3 DEF IInv, ProcessInv, WritesHeld, LocksHold, Process, File
    <3>2. ASSUME f = p PROVE FALSE
      <4>1. orphanedAt'[f] = writes[f][f]
        BY <1>0, <1>2, <2>3, <3>2 DEF Committed, Publish
      <4>. QED
        BY <1>0, <3>1, <4>1 DEF Rows
    <3>. QED
      BY <3>2
  <2>. QED
    BY <1>2, <2>3, <2>4 DEF Leave, Process, IInv, Typing, TypeOK
<1>3. ASSUME NEW p \in Process, Leave(p), Discarded(p) PROVE f \in Request /\ pc'[f] = "exit"
  <2>1. f # p /\ f \in objects /\ f \notin leaked /\ f \notin Rows
    BY <1>0, <1>3 DEF Discarded, Rows
  <2>2. f \in Request /\ pc[f] = "exit"
    BY <2>1 DEF OrphansAccountedFor
  <2>. QED
    BY <1>3, <2>1, <2>2 DEF Leave, Process, IInv, Typing, TypeOK
<1>4. ASSUME NEW r \in Request, NEW j \in Job, Begin(r, j) PROVE f \in Request /\ pc'[f] = "exit"
  BY <1>4 DEF Begin, Goto, OrphansAccountedFor, Rows, Process, IInv, Typing, TypeOK
<1>5. CASE Tick \/ UNCHANGED vars
  BY <1>5 DEF Tick, vars, hist, OrphansAccountedFor, Rows
<1>. QED
  BY <1>1, <1>2, <1>3, <1>4, <1>5, ServeWork, DeleteWork, Ends DEF Next, Process

\* Whatever fails, and whether or not failures are delivered: an object that has no row
\* belongs to a call that is about to end, or is recorded as leaked by a fault.
THEOREM OrphansExplained == Spec => []OrphansAccountedFor
<1>1. Init => OrphansAccountedFor
  BY ManagedFilesAssumption DEF Init, OrphansAccountedFor, Rows, File, NoRow
<1>. QED
  BY <1>1, OrphansStep, Invariance, PTL DEF Spec

-----------------------------------------------------------------------------
(* Duplicates.                                                              *)

\* A row that is committed is new to every other row with its content.
LEMMA DuplicatesStep == IInv /\ IInv' /\ DuplicatesOverlapped /\ [Next]_vars => DuplicatesOverlapped'
<1>. SUFFICES ASSUME IInv, IInv', DuplicatesOverlapped, [Next]_vars
              PROVE  DuplicatesOverlapped'
  OBVIOUS
<1>1. ASSUME UNCHANGED <<orphanedAt, job, together>> PROVE DuplicatesOverlapped'
  BY <1>1 DEF DuplicatesOverlapped, Rows, ContentOf
<1>2. ASSUME NEW p \in Process, Leave(p), Committed(p) PROVE DuplicatesOverlapped'
  <2>0. \A f : ContentOf(f)' = ContentOf(f)
    BY <1>2 DEF Leave, ContentOf
  <2>1. together' = together
    BY <1>2 DEF Leave
  <2>2. ASSUME NEW f \in Rows', NEW g \in Rows', f # g, ContentOf(f) = ContentOf(g), f \notin Rows
        PROVE  {f, g} \in together
    <3>1. f = p /\ p \in Request /\ writes[p][p] # Same /\ pc[p] = "exit"
      BY <1>2, <2>2, CommitRows DEF Committed
    <3>2. g \in Rows
      BY <1>2, <2>2, <3>1, CommitRows
    <3>3. ContentOf(f) = job[f].content
      BY <3>1, ManagedFilesAssumption DEF ContentOf
    <3>. QED
      BY <2>2, <3>1, <3>2, <3>3 DEF IInv, RequestInv, SeenOrOverlapped, Inserting
  <2>3. ASSUME NEW f \in Rows', NEW g \in Rows', f # g, ContentOf(f) = ContentOf(g)
        PROVE  {f, g} \in together
    <3>1. CASE f \in Rows /\ g \in Rows
      BY <2>3, <3>1 DEF DuplicatesOverlapped
    <3>2. CASE f \notin Rows
      BY <2>2, <2>3, <3>2
    <3>3. CASE g \notin Rows
      <4>1. {g, f} \in together
        BY <2>2, <2>3, <3>3
      <4>2. {g, f} = {f, g}
        OBVIOUS
      <4>. QED
        BY <4>1, <4>2
    <3>. QED
      BY <3>1, <3>2, <3>3
  <2>. QED
    BY <2>0, <2>1, <2>3 DEF DuplicatesOverlapped
<1>3. ASSUME NEW r \in Request, NEW j \in Job, Begin(r, j) PROVE DuplicatesOverlapped'
  <2>1. \A f \in Rows' : f \in Rows /\ ContentOf(f)' = ContentOf(f)
    BY <1>3 DEF Begin, Rows, ContentOf, IInv, OwnRowLast, Typing, TypeOK, File
  <2>2. together \subseteq together'
    BY <1>3 DEF Begin
  <2>. QED
    BY <2>1, <2>2 DEF DuplicatesOverlapped
<1>4. ASSUME NEW p \in Process, Leave(p), Discarded(p) PROVE DuplicatesOverlapped'
  BY <1>1, <1>4 DEF Leave, Discarded
<1>5. ASSUME NEW p \in Process, Work(p) PROVE DuplicatesOverlapped'
  BY <1>1, <1>5 DEF Work
<1>6. CASE Tick \/ UNCHANGED vars
  BY <1>1, <1>6 DEF Tick, vars, local, hist
<1>. QED
  BY <1>2, <1>3, <1>4, <1>5, <1>6, ServeWork, DeleteWork, Ends DEF Next, Process

\* Whatever fails, two committed rows of one content come from calls that overlapped: two
\* uploads one after the other never store a content twice.
THEOREM OverlapOnly == Spec => []DuplicatesOverlapped
<1>1. Init => DuplicatesOverlapped
  BY ManagedFilesAssumption DEF Init, DuplicatesOverlapped, Rows, ContentOf, File
<1>. QED
  BY <1>1, DuplicatesStep, Invariance, PTL DEF Spec

-----------------------------------------------------------------------------
(* Retention.                                                               *)

\* Whatever fails, a file stops being readable only if a client deletes it or its
\* retention, from the last refresh anybody committed, is over.
THEOREM KeptForRetention == Spec => ReadableUntilRetention
<1>1. ASSUME IInv, [Next]_vars
      PROVE  [\A f \in Readable \ Readable' : DeletedByClient(f) \/ orphanedAt[f] + Retention < now]_vars
  <2>. SUFFICES ASSUME NEW f \in Readable \ Readable'
                PROVE  DeletedByClient(f) \/ orphanedAt[f] + Retention < now
    OBVIOUS
  <2>0. f \in Rows /\ f \in objects /\ f \in File
    BY DEF Readable, Rows
  <2>1. ASSUME NEW p \in Process, Work(p) PROVE DeletedByClient(f) \/ orphanedAt[f] + Retention < now
    <3>1. pc[p] = "object" /\ f \in todo[p]
      BY <2>0, <2>1 DEF Work, Readable, Rows, NextTodo
    <3>2. DeletedFor(p, f) /\ begun[p] <= now
      BY <1>1, <3>1 DEF IInv, ProcessInv, TodoHeld
    <3>3. orphanedAt[f] \in Int /\ Retention \in Int /\ begun[p] \in Int /\ now \in Int
      BY <1>1, <2>0, ManagedFilesAssumption DEF IInv, Typing, TypeOK, Time, NoRow
    <3>. QED
      BY <3>1, <3>2, <3>3 DEF DeletedFor, DeletedByClient
  <2>2. ASSUME NEW p \in Process, Committed(p) PROVE FALSE
    BY <1>1, <2>0, <2>2, CommitRows DEF Committed, Readable, IInv, ProcessInv, DeletedStay
  <2>3. ASSUME NEW p \in Process, Discarded(p) PROVE FALSE
    BY <2>0, <2>3 DEF Discarded, Readable, Rows
  <2>4. ASSUME UNCHANGED <<orphanedAt, objects>> PROVE FALSE
    BY <2>0, <2>4 DEF Readable, Rows
  <2>. QED
    BY <1>1, <2>1, <2>2, <2>3, <2>4, ServeWork, DeleteWork, Ends
    DEF Next, Process, Tick, Begin, vars
<1>. QED
  BY <1>1, Invariance, PTL DEF Spec, ReadableUntilRetention

-----------------------------------------------------------------------------
(* Rows and their objects.                                                  *)

\* The row of a file goes with its object: it is about to be deleted, or is deleted by a
\* transaction that has not ended.
Going(p, f) == writes[p][f] = NoRow \/ (pc[p] = "row" /\ f \in NextTodo(p))

\* A call deletes no object unless its row is about to follow.
LEMMA ServeGoing ==
  ASSUME IInv, NEW r \in Request, Serve(r), NEW f \in File, Going(r, f) \/ f \in objects \ objects'
  PROVE  Going(r, f)' \/ f \in torn'
<1>0. /\ r \in Process /\ Work(r)
      /\ pc[r] \in {"find", "claim", "insert", "put", "lock"}
  BY ServeWork
  DEF IInv, Process, Serve, FindDuplicates, ClaimDuplicate, InsertFile, PutObject,
      PutFails, RejectInput, LockFile
<1>1. writes[r][f] = NoRow
  BY <1>0 DEF Work, Going
<1>2. pc[r] = "put"
  BY <1>0, <1>1 DEF IInv, ProcessInv, WritesHeld, NoRow, Same
<1>3. writes' = writes
  BY <1>2
  DEF Serve, FindDuplicates, ClaimDuplicate, InsertFile, PutObject, PutFails, RejectInput,
      LockFile, txn
<1>. QED
  BY <1>1, <1>3 DEF Going

\* What a deletion has done to the bucket is followed by its row, or is recorded as torn.
LEMMA DeleteGoing ==
  ASSUME IInv, NEW p \in Process,
         (p \in Pruner /\ Prune(p)) \/ Delete(p) \/ DatabaseError(p),
         NEW f \in File, Going(p, f) \/ f \in objects \ objects'
  PROVE  Going(p, f)' \/ f \in torn'
<1>0. Typing /\ orphanedAt' = orphanedAt
  BY DeleteWork DEF IInv, Work
<1>1. ASSUME StartPrune(p) \/ SelectOrphans(p) PROVE Going(p, f)' \/ f \in torn'
  BY <1>1 DEF StartPrune, SelectOrphans, Goto, txn, Going
<1>2. ASSUME DeleteObject(p) PROVE Going(p, f)' \/ f \in torn'
  BY <1>0, <1>2
  DEF DeleteObject, Goto, local, txn, Going, NextTodo, OrphanedBefore, Typing, TypeOK
<1>3. ASSUME DeleteFails(p) PROVE Going(p, f)' \/ f \in torn'
  BY <1>0, <1>3 DEF DeleteFails, txn, Going
<1>4. ASSUME DeleteRow(p) PROVE Going(p, f)' \/ f \in torn'
  <2>1. PICK g \in NextTodo(p) : Write(p, g, NoRow)
    BY <1>4 DEF DeleteRow
  <2>2. f \notin objects \ objects'
    BY <1>4 DEF DeleteRow
  <2>3. g \in File /\ (f \in NextTodo(p) => f = g)
    BY <1>0, <2>1, OneNext DEF NextTodo, Typing, TypeOK
  <2>. QED
    BY <1>0, <2>1, <2>2, <2>3 DEF Going, Write, Typing, TypeOK
<1>5. ASSUME DatabaseError(p) PROVE Going(p, f)' \/ f \in torn'
  BY <1>0, <1>5 DEF DatabaseError, Going
<1>. QED
  BY <1>1, <1>2, <1>3, <1>4, <1>5 DEF Prune, Delete

\* An upload that has failed stays failed.
LEMMA FailedStay ==
  ASSUME IInv, [Next]_vars
  PROVE  FailedUploads \subseteq FailedUploads'
<1>. SUFFICES ASSUME NEW r \in Request, failed[r] PROVE failed'[r]
  BY DEF FailedUploads
<1>0. failed \in [Process -> BOOLEAN] /\ r \in Process
  BY DEF IInv, Typing, TypeOK, Process
<1>1. ASSUME NEW p \in Process, Raise(p) \/ UNCHANGED failed \/ Leave(p) PROVE failed'[r]
  BY <1>0, <1>1 DEF Raise, Leave
<1>2. ASSUME NEW q \in Request, Serve(q) PROVE failed'[r]
  BY <1>1, <1>2 DEF Serve, FindDuplicates, ClaimDuplicate, InsertFile, PutObject, PutFails,
     RejectInput, LockFile, local, Process
<1>3. ASSUME NEW p \in Process, Prune(p) \/ Delete(p) \/ DatabaseError(p) PROVE failed'[r]
  BY <1>1, <1>3 DEF Prune, StartPrune, SelectOrphans, Delete, DeleteObject, DeleteFails,
     DeleteRow, DatabaseError, local
<1>4. ASSUME NEW q \in Request, NEW j \in Job, Begin(q, j) PROVE failed'[r]
  BY <1>4 DEF Begin
<1>5. CASE Tick \/ UNCHANGED vars
  BY <1>5 DEF Tick, vars, local
<1>. QED
  BY <1>1, <1>2, <1>3, <1>4, <1>5, Ends DEF Next, Process

\* Every step keeps what accounts for a row without an object.
LEMMA RowsStep == IInv /\ IInv' /\ RowsHaveObjects /\ [Next]_vars => RowsHaveObjects'
<1>. SUFFICES ASSUME IInv, IInv', RowsHaveObjects, [Next]_vars,
                     NEW f \in Rows', f \notin objects', f \notin torn', f \notin FailedUploads'
              PROVE  \E q \in Process : Going(q, f)'
  BY DEF RowsHaveObjects, Going
<1>0. f \in File /\ f \notin FailedUploads
  BY FailedStay DEF Rows
<1>a. f \in Rows /\ f \notin objects /\ f \notin torn => \E q \in Process : Going(q, f)
  BY <1>0 DEF RowsHaveObjects, Going
<1>1. ASSUME NEW p \in Process, Work(p),
             Going(p, f) \/ f \in objects \ objects' => Going(p, f)' \/ f \in torn'
      PROVE  \E q \in Process : Going(q, f)'
  <2>1. f \in Rows /\ f \notin torn
    BY <1>1 DEF Work, Rows
  <2>2. \A q \in Process \ {p} : Going(q, f) => Going(q, f)'
    BY <1>1 DEF Work, Going, NextTodo, OrphanedBefore
  <2>. QED
    BY <1>a, <1>1, <2>1, <2>2
<1>2. ASSUME NEW p \in Process, Leave(p), Committed(p) PROVE \E q \in Process : Going(q, f)'
  <2>1. pc[p] = "exit" /\ f \notin objects /\ f \notin torn
    BY <1>2 DEF Committed
  <2>2. f \in Rows
    <3>1. CASE p \in Request /\ failed[p]
      BY <1>0, <1>2, <3>1, CommitRows DEF FailedUploads
    <3>2. CASE ~(p \in Request /\ failed[p])
      BY <1>2, <2>1, <3>2, CommitRows DEF IInv, RequestInv, PutAfterInsert
    <3>. QED
      BY <3>1, <3>2
  <2>3. ~Going(p, f)
    <3>1. writes[p][f] = NoRow => orphanedAt'[f] = NoRow
      BY <1>0, <1>2 DEF Committed, Publish, NoRow, Same
    <3>. QED
      BY <2>1, <3>1 DEF Going, Rows
  <2>4. \A q \in Process \ {p} : writes'[q] = writes[q] /\ pc'[q] = pc[q] /\ todo'[q] = todo[q]
    BY <1>2 DEF Leave, IInv, Typing, TypeOK
  <2>5. \A q \in Process \ {p} : Going(q, f) => Going(q, f)'
    BY <1>2, <2>4, NextTodoKept DEF Going
  <2>. QED
    BY <1>a, <2>1, <2>2, <2>3, <2>5
<1>3. ASSUME NEW p \in Process, Leave(p), Discarded(p) PROVE \E q \in Process : Going(q, f)'
  <2>1. f \in Rows /\ f \notin objects /\ f \notin torn /\ ~Going(p, f)
    BY <1>0, <1>3 DEF Discarded, Rows, Going
  <2>2. \A q \in Process \ {p} : writes'[q] = writes[q] /\ pc'[q] = pc[q] /\ todo'[q] = todo[q]
    BY <1>3 DEF Leave, IInv, Typing, TypeOK
  <2>3. \A q \in Process \ {p} : Going(q, f) => Going(q, f)'
    BY <1>3, <2>2 DEF Discarded, Going, NextTodo, OrphanedBefore
  <2>. QED
    BY <1>a, <2>1, <2>3
<1>4. ASSUME NEW r \in Request, NEW j \in Job, Begin(r, j) PROVE \E q \in Process : Going(q, f)'
  <2>1. f \in Rows /\ f \notin objects /\ f \notin torn
    BY <1>4 DEF Begin, Rows
  <2>2. \A q \in Process : Going(q, f) => Going(q, f)'
    BY <1>4 DEF Begin, Goto, txn, Going, NextTodo, OrphanedBefore, IInv, Typing, TypeOK
  <2>. QED
    BY <1>a, <2>1, <2>2
<1>5. CASE Tick \/ UNCHANGED vars
  <2>1. UNCHANGED <<orphanedAt, objects, pc, todo, writes, torn>>
    BY <1>5 DEF Tick, vars, local, txn, hist
  <2>. QED
    BY <1>a, <2>1 DEF Going, Rows, NextTodo, OrphanedBefore
<1>6. ASSUME NEW r \in Request, Serve(r) PROVE \E q \in Process : Going(q, f)'
  BY <1>0, <1>1, <1>6, ServeWork, ServeGoing DEF Process
<1>7. ASSUME NEW p \in Process, (p \in Pruner /\ Prune(p)) \/ Delete(p) \/ DatabaseError(p)
      PROVE  \E q \in Process : Going(q, f)'
  BY <1>0, <1>1, <1>7, DeleteWork, DeleteGoing
<1>. QED
  BY <1>2, <1>3, <1>4, <1>5, <1>6, <1>7, Ends DEF Next, Process

\* Whatever fails and however failures are delivered, a row without an object is one that is
\* being deleted, one torn by a fault, or what an upload that was answered with an error left.
THEOREM RowsExplained == Spec => []RowsHaveObjects
<1>1. Init => RowsHaveObjects
  BY DEF Init, RowsHaveObjects, Rows
<1>2. IInv /\ IInv' /\ RowsHaveObjects /\ [Next]_vars => RowsHaveObjects'
  BY RowsStep
<1>. QED
  BY <1>1, <1>2, Invariance, PTL DEF Spec

\* An answer is given by a put or by a duplicate that was claimed.
LEMMA AnswerStep ==
  ASSUME IInv, [Next]_vars, NEW r \in Request, answer'[r] # answer[r]
  PROVE  \/ PutObject(r) /\ answer'[r] = r
         \/ /\ pc[r] = "claim" /\ objects' = objects
            /\ answer'[r] \in Rows /\ ~LockedByOther(r, answer'[r])
<1>1. ASSUME NEW q \in Request, PutObject(q) PROVE PutObject(r) /\ answer'[r] = r
  BY <1>1 DEF PutObject, Return, IInv, Typing, TypeOK
<1>2. ASSUME NEW q \in Request, ClaimDuplicate(q)
      PROVE  /\ pc[r] = "claim" /\ objects' = objects
             /\ answer'[r] \in Rows /\ ~LockedByOther(r, answer'[r])
  BY <1>2 DEF ClaimDuplicate, Return, IInv, Typing, TypeOK
<1>3. ASSUME NEW p \in Process, Leave(p) PROVE FALSE
  BY <1>3 DEF Leave
<1>4. ASSUME NEW q \in Request, Serve(q), ~PutObject(q), ~ClaimDuplicate(q) PROVE FALSE
  BY <1>4 DEF Serve, FindDuplicates, InsertFile, PutFails, RejectInput, LockFile, local
<1>5. ASSUME NEW p \in Process, Prune(p) \/ Delete(p) \/ DatabaseError(p) PROVE FALSE
  BY <1>5
  DEF Prune, StartPrune, SelectOrphans, Delete, DeleteObject, DeleteFails, DeleteRow,
      DatabaseError, local
<1>6. ASSUME NEW q \in Request, NEW j \in Job, Begin(q, j) PROVE FALSE
  BY <1>6 DEF Begin
<1>7. CASE Tick \/ UNCHANGED vars
  BY <1>7 DEF Tick, vars, local
<1>. QED
  BY <1>1, <1>2, <1>3, <1>4, <1>5, <1>6, <1>7, Ends DEF Next, Process

\* An upload answers with a file that can be read at that moment: the new one it has put, or a
\* duplicate nobody is deleting; the exceptions are a duplicate that an earlier fault has torn
\* and one whose own upload was answered with an error.
THEOREM AnsweredStored == Spec => AnswersAreStored
<1>1. ASSUME IInv, RowsHaveObjects, [Next]_vars
      PROVE  [\A r \in Request : answer'[r] # answer[r]
                => answer'[r] \in objects' \cup torn \cup FailedUploads]_vars
  <2>. SUFFICES ASSUME NEW r \in Request, answer'[r] # answer[r]
                PROVE  answer'[r] \in objects' \cup torn \cup FailedUploads
    OBVIOUS
  <2>1. ASSUME PutObject(r), answer'[r] = r PROVE answer'[r] \in objects'
    BY <2>1 DEF PutObject
  <2>2. ASSUME pc[r] = "claim", objects' = objects, answer'[r] \in Rows,
               ~LockedByOther(r, answer'[r])
        PROVE  answer'[r] \in objects' \cup torn \cup FailedUploads
    <3>. DEFINE f == answer'[r]
    <3>1. ASSUME NEW p \in Process, Going(p, f) PROVE FALSE
      <4>1. f \in locked[p] /\ f \in File
        BY <1>1, <2>2, <3>1 DEF Going, NextTodo, IInv, ProcessInv, WritesHeld, TodoHeld, Rows
      <4>2. p # r
        BY <1>1, <2>2, <3>1, <4>1 DEF Going, IInv, ProcessInv, WritesHeld, NoRow, Same
      <4>. QED
        BY <2>2, <4>1, <4>2 DEF LockedByOther
    <3>. QED
      BY <1>1, <2>2, <3>1 DEF RowsHaveObjects, Going
  <2>. QED
    BY <1>1, <2>1, <2>2, AnswerStep
<1>2. Spec => []RowsHaveObjects
  BY RowsExplained
<1>. QED
  BY <1>1, <1>2, Invariance, PTL DEF Spec, AnswersAreStored

=============================================================================
