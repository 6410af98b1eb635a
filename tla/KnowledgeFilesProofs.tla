------------------------ MODULE KnowledgeFilesProofs ------------------------
(***************************************************************************)
(* Proofs about KnowledgeFiles, for any number of requests, files and      *)
(* items, any faults and any delivery of failures unless a theorem says    *)
(* otherwise: types and the objects of rows; the objects that no row       *)
(* refers to, readers that miss their object, and what failed calls leave; *)
(* and the rows under races, one photo a person and no file without its    *)
(* item, with which the handlers implement the storage that                *)
(* KnowledgeFileStore promises.                                            *)
(***************************************************************************)
EXTENDS KnowledgeFiles, TLAPS

-----------------------------------------------------------------------------
(* Types.                                                                   *)

\* A fresh process with no request begun has well-typed state.
LEMMA InitTypeOK == Init => TypeOK
BY FilesAssumption DEF Init, TypeOK, File, Link, Kind, Steps, TxStates

\* A handler that raises keeps the types.
LEMMA RaiseTypes ==
  ASSUME TypeOK, NEW r \in Request, NEW how \in TxStates, Raise(r, how)
  PROVE  /\ pc' \in [Request -> Steps]
         /\ failed' \in [Request -> BOOLEAN]
         /\ todo' \in [Request -> SUBSET File]
         /\ tx' \in [Request -> TxStates]
         /\ added' \in [Request -> SUBSET Link]
         /\ removed' \in [Request -> SUBSET File]
         /\ locked' \in [Request -> SUBSET File]
BY DEF TypeOK, Raise, Goto, ClearTx, txn, Steps

\* The end of a transaction, however it ends, keeps the types of its private state.
LEMMA ClearTxTypes ==
  ASSUME TypeOK, NEW r \in Request, NEW state \in TxStates, ClearTx(r, state)
  PROVE  /\ tx' \in [Request -> TxStates]
         /\ added' \in [Request -> SUBSET Link]
         /\ removed' \in [Request -> SUBSET File]
         /\ locked' \in [Request -> SUBSET File]
BY DEF TypeOK, ClearTx

-----------------------------------------------------------------------------
(* The inductive invariant: what a request has put off until its            *)
(* transaction ends, and what it may still do afterwards.                   *)

Past == {"post", "undo"} \cup Finished

\* A transaction inserts only the request's own file, and only until it ends.
OwnLinks ==
  \A r \in Request : \A l \in added[r] :
    l.file = r /\ added[r] = {l} /\ pc[r] \in {"put", "touch", "exit"}

\* A rollback removes only the request's own object.
OwnRollback == \A r \in Request : rollbackActions[r] \subseteq {r}

\* A request's file is linked only after its transaction has ended.
LinkedAfterCommit == \A r \in Request : r \in Linked => pc[r] \in Past

\* Only files committed before are deleted, so none of them can be linked again.
DeletedWereCommitted ==
  \A r, q \in Request : q \in removed[r] \cup postCommitActions[r] => pc[q] \in Past

\* An aborted transaction deletes nothing.
AbortedIsEmpty ==
  \A r \in Request : tx[r] = "aborted" => pc[r] = "exit" /\ removed[r] = {}

\* The cleanup after the commit is of files the transaction deletes.
CleanupMatchesDeletion ==
  \A r \in Request :
    /\ pc[r] \notin Past \cup {"exit"} => postCommitActions[r] = {}
    /\ pc[r] = "exit" => postCommitActions[r] \subseteq removed[r]
    /\ pc[r] = "post" => postCommitActions[r] \cap Linked = {}

\* A transaction that is undone left no row, unless only its answer was lost.
UndoneNotLinked == \A r \in Request : pc[r] = "undo" /\ r \in Linked => r \in torn

IInv == /\ TypeOK /\ OwnLinks /\ OwnRollback /\ LinkedAfterCommit
        /\ DeletedWereCommitted /\ AbortedIsEmpty
        /\ CleanupMatchesDeletion /\ UndoneNotLinked

-----------------------------------------------------------------------------
(* What one step of a handler does, whichever it is.                        *)

Working == {"item", "files", "lock", "remove", "insert", "put", "touch",
            "item_row", "restrict", "stream"}

HandlerEffect(r) ==
  /\ links' = links /\ items' = items /\ torn' = torn
  /\ pc[r] \in Working
  /\ pc' = [pc EXCEPT ![r] = pc'[r]] /\ pc'[r] \in Working \cup {"exit"}
  /\ added' = [added EXCEPT ![r] = added'[r]]
  /\ \A l \in added'[r] : l.file = r /\ added'[r] = {l} /\ pc'[r] \in {"put", "touch", "exit"}
  /\ removed' = [removed EXCEPT ![r] = removed'[r]]
  /\ removed'[r] \subseteq removed[r] \cup Linked
  /\ rollbackActions' = [rollbackActions EXCEPT ![r] = rollbackActions'[r]]
  /\ rollbackActions'[r] \subseteq rollbackActions[r] \cup {r}
  /\ postCommitActions' = [postCommitActions EXCEPT ![r] = postCommitActions'[r]]
  /\ \/ postCommitActions'[r] = postCommitActions[r]
     \/ pc'[r] = "exit" /\ postCommitActions'[r] = removed'[r]
  /\ tx' = [tx EXCEPT ![r] = tx'[r]]
  /\ tx'[r] = "aborted" => pc'[r] = "exit" /\ removed'[r] = {}

\* The part of it that a raised exception accounts for.
LEMMA RaiseEffect ==
  ASSUME IInv, NEW r \in Request, NEW how \in {"open", "aborted", "deactivated"},
         pc[r] \in Working, Raise(r, how), UNCHANGED <<links, items, torn>>,
         UNCHANGED postCommitActions, UNCHANGED rollbackActions
  PROVE  HandlerEffect(r)
<1>1. pc' = [pc EXCEPT ![r] = pc'[r]] /\ pc'[r] = "exit"
  BY DEF IInv, TypeOK, Raise, Goto
<1>2. CASE how = "open"
  BY <1>1, <1>2 DEF IInv, TypeOK, OwnLinks, AbortedIsEmpty, Raise, txn, HandlerEffect, Working
<1>3. CASE how # "open"
  BY <1>1, <1>3 DEF IInv, TypeOK, Raise, ClearTx, HandlerEffect, Working
<1>. QED
  BY <1>2, <1>3

\* Every step of a use case, from LoadItem to the victim of a deadlock, stays within
\* HandlerEffect: it commits nothing and touches only what its own request has put off.
LEMMA HandlerSteps ==
  ASSUME IInv, NEW r \in Request, Handle(r)
  PROVE  HandlerEffect(r)
<1>1. ASSUME LoadItem(r) PROVE HandlerEffect(r)
  BY <1>1, RaiseEffect DEF IInv, TypeOK, OwnLinks, AbortedIsEmpty, LoadItem, Goto, Return, db, acts, txn, hist, HandlerEffect, Working
<1>2. ASSUME LoadFile(r) PROVE HandlerEffect(r)
  BY <1>2, RaiseEffect DEF IInv, TypeOK, OwnLinks, AbortedIsEmpty, LoadFile, Goto, Return, db, acts, txn, hist, HandlerEffect, Working
<1>3. ASSUME ListFiles(r) PROVE HandlerEffect(r)
  <2>1. pc[r] = "files" /\ UNCHANGED <<links, items, torn, rollbackActions, postCommitActions>>
    BY <1>3 DEF ListFiles, db, acts, hist
  <2>2. CASE Raise(r, "open")
    BY <2>1, <2>2, RaiseEffect DEF Working
  <2>3. CASE \E step \in {"lock", "item_row", "insert"} : Goto(r, step) /\ UNCHANGED txn
    BY <2>1, <2>3 DEF IInv, TypeOK, OwnLinks, AbortedIsEmpty, Goto, txn, HandlerEffect, Working
  <2>. QED
    BY <1>3, <2>2, <2>3 DEF ListFiles
<1>4. ASSUME LockFile(r) PROVE HandlerEffect(r)
  BY <1>4, RaiseEffect DEF IInv, TypeOK, OwnLinks, AbortedIsEmpty, LockFile, Goto, Return, db, acts, txn, hist, HandlerEffect, Working
<1>5. ASSUME RenameFile(r) PROVE HandlerEffect(r)
  BY <1>5, RaiseEffect DEF IInv, TypeOK, OwnLinks, AbortedIsEmpty, RenameFile, Goto, Return, db, acts, txn, hist, HandlerEffect, Working
<1>6. ASSUME RemoveFile(r) PROVE HandlerEffect(r)
  BY <1>6, RaiseEffect DEF IInv, TypeOK, OwnLinks, AbortedIsEmpty, RemoveFile, Goto, Return, db, acts, txn, hist, HandlerEffect, Working
<1>7. ASSUME RejectInput(r) PROVE HandlerEffect(r)
  BY <1>7, RaiseEffect DEF IInv, TypeOK, OwnLinks, AbortedIsEmpty, RejectInput, Goto, Return, db, acts, txn, hist, HandlerEffect, Working
<1>8. ASSUME InsertFile(r) PROVE HandlerEffect(r)
  BY <1>8, RaiseEffect DEF IInv, TypeOK, OwnLinks, AbortedIsEmpty, InsertFile, NewLink, Goto, Return, db, acts, txn, hist, HandlerEffect, Working
<1>9. ASSUME PutObject(r) PROVE HandlerEffect(r)
  BY <1>9, RaiseEffect DEF IInv, TypeOK, OwnLinks, AbortedIsEmpty, PutObject, Goto, Return, db, acts, txn, hist, HandlerEffect, Working
<1>10. ASSUME PutFails(r) PROVE HandlerEffect(r)
  BY <1>10, RaiseEffect DEF IInv, TypeOK, OwnLinks, AbortedIsEmpty, PutFails, Goto, Return, db, acts, txn, hist, HandlerEffect, Working
<1>11. ASSUME PutAnswerLost(r) PROVE HandlerEffect(r)
  BY <1>11, RaiseEffect DEF IInv, TypeOK, OwnLinks, AbortedIsEmpty, PutAnswerLost, Goto, Return, db, acts, txn, hist, HandlerEffect, Working
<1>12. ASSUME TouchItem(r) PROVE HandlerEffect(r)
  BY <1>12, RaiseEffect DEF IInv, TypeOK, OwnLinks, AbortedIsEmpty, TouchItem, Goto, Return, db, acts, txn, hist, HandlerEffect, Working
<1>13. ASSUME DeleteItemRow(r) PROVE HandlerEffect(r)
  BY <1>13, RaiseEffect DEF IInv, TypeOK, OwnLinks, AbortedIsEmpty, DeleteItemRow, Goto, Return, db, acts, txn, hist, HandlerEffect, Working
<1>14. ASSUME CheckRestrict(r) PROVE HandlerEffect(r)
  BY <1>14, RaiseEffect DEF IInv, TypeOK, OwnLinks, AbortedIsEmpty, CheckRestrict, Goto, Return, db, acts, txn, hist, HandlerEffect, Working
<1>15. ASSUME StreamFile(r) PROVE HandlerEffect(r)
  BY <1>15, RaiseEffect DEF IInv, TypeOK, OwnLinks, AbortedIsEmpty, StreamFile, Goto, Return, db, acts, txn, hist, HandlerEffect, Working
<1>16. ASSUME DatabaseError(r) PROVE HandlerEffect(r)
  BY <1>16, RaiseEffect DEF IInv, TypeOK, OwnLinks, AbortedIsEmpty, DatabaseError, StatementError, DatabaseSteps, Goto, Return, db, acts, txn, hist, HandlerEffect, Working
<1>17. ASSUME DeadlockVictim(r) PROVE HandlerEffect(r)
  BY <1>17, RaiseEffect DEF IInv, TypeOK, OwnLinks, AbortedIsEmpty, DeadlockVictim, StatementError, DatabaseSteps, Goto, Return, db, acts, txn, hist, HandlerEffect, Working
<1>. QED
  BY <1>1, <1>2, <1>3, <1>4, <1>5, <1>6, <1>7, <1>8, <1>9, <1>10, <1>11, <1>12, <1>13, <1>14, <1>15, <1>16, <1>17 DEF Handle

\* Every step of a use case keeps the types.
LEMMA HandlerTypes ==
  ASSUME IInv, NEW r \in Request, Handle(r)
  PROVE  TypeOK'
<1>. TypeOK /\ r \in File
  BY DEF IInv, File
<1>1. ASSUME LoadItem(r) PROVE TypeOK'
  BY <1>1, RaiseTypes DEF LoadItem, Goto, db, acts, txn, hist, TypeOK, Steps, TxStates
<1>2. ASSUME LoadFile(r) PROVE TypeOK'
  <2>1. OneAttachment(job[r]) # {} => job[r].file \in File
    BY DEF OneAttachment, TypeOK, Link
  <2>. QED
    BY <1>2, <2>1, RaiseTypes DEF LoadFile, Goto, db, acts, txn, hist, TypeOK, Steps, TxStates
<1>3. ASSUME ListFiles(r) PROVE TypeOK'
  <2>1. /\ UNCHANGED <<db, objects, job, acts, hist>>
        /\ \/ Raise(r, "open")
           \/ \E found \in SUBSET File, step \in Steps :
                /\ todo' = [todo EXCEPT ![r] = found]
                /\ Goto(r, step) /\ UNCHANGED <<failed, txn>>
    <3>1. {l.file : l \in IF job[r].op = "delete_item" THEN LinksOf(job[r].item)
                          ELSE Photos(LinksOf(job[r].item))} \in SUBSET File
      BY DEF LinksOf, Photos, TypeOK, Link
    <3>. QED
      BY <1>3, <3>1 DEF ListFiles, Steps
  <2>. QED
    BY <2>1, RaiseTypes DEF Goto, db, acts, txn, hist, TypeOK, TxStates
<1>4. ASSUME LockFile(r) PROVE TypeOK'
  BY <1>4, RaiseTypes DEF LockFile, NextFiles, Goto, db, acts, txn, hist, TypeOK, Steps, TxStates
<1>5. ASSUME RenameFile(r) PROVE TypeOK'
  <2>1. job[r].file \in Linked => job[r].file \in File
    BY DEF Linked, TypeOK, Link
  <2>. QED
    BY <1>5, <2>1, RaiseTypes DEF RenameFile, Goto, db, acts, txn, hist, TypeOK, Steps, TxStates
<1>6. ASSUME RemoveFile(r) PROVE TypeOK'
  BY <1>6, RaiseTypes DEF RemoveFile, NextFiles, Goto, db, acts, txn, hist, TypeOK, Steps, TxStates
<1>7. ASSUME RejectInput(r) PROVE TypeOK'
  BY <1>7, RaiseTypes DEF RejectInput, Goto, db, acts, txn, hist, TypeOK, Steps, TxStates
<1>8. ASSUME InsertFile(r) PROVE TypeOK'
  <2>1. job[r].item \in items => NewLink(r) \in Link
    BY DEF NewLink, NewKind, Kind, TypeOK, Link
  <2>. QED
    BY <1>8, <2>1, RaiseTypes DEF InsertFile, Goto, db, acts, txn, hist, TypeOK, Steps, TxStates
<1>9. ASSUME PutObject(r) PROVE TypeOK'
  BY <1>9, RaiseTypes DEF PutObject, Goto, db, acts, txn, hist, TypeOK, Steps, TxStates
<1>10. ASSUME PutFails(r) PROVE TypeOK'
  BY <1>10, RaiseTypes DEF PutFails, Goto, db, acts, txn, hist, TypeOK, Steps, TxStates
<1>11. ASSUME PutAnswerLost(r) PROVE TypeOK'
  BY <1>11, RaiseTypes DEF PutAnswerLost, Goto, db, acts, txn, hist, TypeOK, Steps, TxStates
<1>12. ASSUME TouchItem(r) PROVE TypeOK'
  BY <1>12, RaiseTypes DEF TouchItem, Return, Goto, db, acts, txn, hist, TypeOK, Steps, TxStates
<1>13. ASSUME DeleteItemRow(r) PROVE TypeOK'
  BY <1>13, RaiseTypes DEF DeleteItemRow, Goto, db, acts, txn, hist, TypeOK, Steps, TxStates
<1>14. ASSUME CheckRestrict(r) PROVE TypeOK'
  BY <1>14, RaiseTypes DEF CheckRestrict, Return, Goto, db, acts, txn, hist, TypeOK, Steps, TxStates
<1>15. ASSUME StreamFile(r) PROVE TypeOK'
  BY <1>15, RaiseTypes DEF StreamFile, Return, Goto, db, acts, txn, hist, TypeOK, Steps, TxStates
<1>16. ASSUME DatabaseError(r) PROVE TypeOK'
  BY <1>16, RaiseTypes DEF DatabaseError, StatementError, Goto, db, acts, txn, hist, TypeOK, Steps, TxStates
<1>17. ASSUME DeadlockVictim(r) PROVE TypeOK'
  BY <1>17, RaiseTypes DEF DeadlockVictim, StatementError, Goto, db, acts, txn, hist, TypeOK, Steps, TxStates
<1>. QED
  BY <1>1, <1>2, <1>3, <1>4, <1>5, <1>6, <1>7, <1>8, <1>9, <1>10, <1>11, <1>12, <1>13, <1>14, <1>15, <1>16, <1>17 DEF Handle
-----------------------------------------------------------------------------
(* The invariant is inductive.                                              *)

\* Before any request nothing is put off, so the invariant holds.
THEOREM InitIInv == Init => IInv
<1>. SUFFICES ASSUME Init PROVE IInv
  OBVIOUS
<1>1. TypeOK
  BY InitTypeOK
<1>2. \A r \in Request : r \notin Linked
  BY FilesAssumption DEF Init, Linked
<1>. QED
  BY <1>1, <1>2 DEF Init, IInv, OwnLinks, OwnRollback, LinkedAfterCommit,
     DeletedWereCommitted, AbortedIsEmpty, CleanupMatchesDeletion, UndoneNotLinked,
     Past, Finished

\* The scope and the transaction that a new call opens keep the invariant.
LEMMA BeginInv ==
  ASSUME IInv, NEW r \in Request, NEW j \in Job, Begin(r, j)
  PROVE  IInv'
<1>1. TypeOK'
  BY DEF Begin, Goto, db, acts, hist, IInv, TypeOK, Steps, TxStates
<1>2. /\ UNCHANGED <<links, added, removed, rollbackActions, postCommitActions, torn>>
      /\ tx' = [tx EXCEPT ![r] = "open"]
      /\ pc[r] = "idle" /\ pc' = [pc EXCEPT ![r] = pc'[r]] /\ pc'[r] \in Working
  BY DEF Begin, Goto, db, acts, hist, IInv, TypeOK, Working
<1>3. Linked' = Linked
  BY <1>2 DEF Linked
<1>. QED
  BY <1>1, <1>2, <1>3 DEF IInv, TypeOK, OwnLinks, OwnRollback, LinkedAfterCommit,
     DeletedWereCommitted, AbortedIsEmpty, CleanupMatchesDeletion, UndoneNotLinked,
     Past, Finished, Working

\* Every step of a use case keeps the invariant, because of its effect alone.
LEMMA HandlerInv ==
  ASSUME IInv, NEW r \in Request, Handle(r)
  PROVE  IInv'
<1>1. TypeOK'
  BY HandlerTypes
<1>2. HandlerEffect(r)
  BY HandlerSteps
<1>3. Linked' = Linked
  BY <1>2 DEF HandlerEffect, Linked
<1>4. OwnLinks' /\ OwnRollback' /\ AbortedIsEmpty'
  BY <1>2 DEF IInv, TypeOK, HandlerEffect, OwnLinks, OwnRollback, AbortedIsEmpty
<1>5. LinkedAfterCommit' /\ UndoneNotLinked'
  BY <1>2, <1>3 DEF IInv, TypeOK, HandlerEffect, LinkedAfterCommit, UndoneNotLinked,
     Past, Finished, Working
<1>6. DeletedWereCommitted'
  <2>. SUFFICES ASSUME NEW p \in Request, NEW q \in Request,
                       q \in removed'[p] \cup postCommitActions'[p]
                PROVE  pc'[q] \in Past
    BY DEF DeletedWereCommitted
  <2>1. pc[q] \in Past
    BY <1>2 DEF IInv, TypeOK, HandlerEffect, DeletedWereCommitted, LinkedAfterCommit
  <2>. QED
    BY <1>2, <2>1 DEF IInv, TypeOK, HandlerEffect, Past, Finished, Working
<1>7. CleanupMatchesDeletion'
  BY <1>2, <1>3 DEF IInv, TypeOK, HandlerEffect, CleanupMatchesDeletion,
     Past, Finished, Working
<1>. QED
  BY <1>1, <1>4, <1>5, <1>6, <1>7 DEF IInv

\* The transaction ends without leaving anything: a rollback, in all its forms.
LEMMA EmptyEndInv ==
  ASSUME IInv, NEW r \in Request, NEW step \in Past, Goto(r, step), ClearTx(r, "none"),
         UNCHANGED <<db, job, todo, failed, acts, torn>>,
         objects' \subseteq File, leaked' \subseteq File,
         pc[r] # "idle", step = "undo" => pc[r] = "exit",
         step = "post" => pc[r] = "exit" /\ tx[r] = "aborted"
  PROVE  IInv'
<1>1. TypeOK'
  BY DEF Goto, ClearTx, db, acts, IInv, TypeOK, TxStates, Steps, Past, Finished
<1>2. Linked' = Linked
  BY DEF Linked, db
<1>. QED
  BY <1>1, <1>2 DEF Goto, ClearTx, db, acts, IInv, TypeOK, OwnLinks, OwnRollback, LinkedAfterCommit,
     DeletedWereCommitted, AbortedIsEmpty, CleanupMatchesDeletion, UndoneNotLinked,
     Past, Finished

\* The files that are linked once a transaction has been published.
LEMMA PublishedFiles ==
  ASSUME IInv, NEW r \in Request, pc[r] = "exit", Publish(r)
  PROVE  /\ Linked' \subseteq (Linked \ removed[r]) \cup {r}
         /\ \A f \in Linked' : f # r => f \in Linked \ removed[r]
         /\ r \notin removed[r] /\ r \notin postCommitActions[r]
         /\ links' \subseteq Link
         /\ \A k, l \in links' : k.file = l.file => k = l
         /\ items' \subseteq Item
<1>1. r \notin removed[r] /\ r \notin postCommitActions[r] /\ r \notin Linked
  BY DEF IInv, DeletedWereCommitted, LinkedAfterCommit, Past, Finished
<1>2. added[r] \subseteq Link /\ \A l \in added[r] : l.file = r /\ added[r] = {l}
  BY DEF IInv, TypeOK, OwnLinks
<1>3. links' = {l \in links : l.file \notin removed[r]} \cup added[r]
  BY DEF Publish
<1>. QED
  BY <1>1, <1>2, <1>3 DEF Publish, Linked, IInv, TypeOK

\* A commit that is published keeps the invariant, whether its answer arrives or is lost:
\* what it deletes is what the cleanup registered by its endpoint removes.
LEMMA CommitInv ==
  ASSUME IInv, NEW r \in Request, Commit(r) \/ CommitAnswerLost(r)
  PROVE  IInv'
<1>1. /\ pc[r] = "exit" /\ Publish(r) /\ ClearTx(r, "none")
      /\ pc' = [pc EXCEPT ![r] = pc'[r]]
      /\ pc'[r] = "post" \/ (pc'[r] = "undo" /\ torn' = torn \cup {r})
      /\ torn \subseteq torn' /\ torn' \subseteq Request
      /\ UNCHANGED <<objects, job, todo, failed, acts>>
      /\ leaked' \subseteq File
  BY DEF Commit, CommitAnswerLost, Commits, Forgotten, Goto, IInv, TypeOK
<1>2. /\ \A f \in Linked' : f # r => f \in Linked \ removed[r]
      /\ r \notin removed[r] /\ r \notin postCommitActions[r]
      /\ links' \subseteq Link /\ items' \subseteq Item
      /\ \A k, l \in links' : k.file = l.file => k = l
  BY <1>1, PublishedFiles
<1>3. TypeOK'
  BY <1>1, <1>2 DEF ClearTx, acts, IInv, TypeOK, TxStates, Steps
<1>4. OwnLinks' /\ OwnRollback' /\ AbortedIsEmpty'
  BY <1>1 DEF ClearTx, acts, IInv, TypeOK, OwnLinks, OwnRollback, AbortedIsEmpty
<1>5. LinkedAfterCommit'
  BY <1>1, <1>2 DEF IInv, TypeOK, LinkedAfterCommit, Past, Finished
<1>6. DeletedWereCommitted'
  BY <1>1 DEF ClearTx, acts, IInv, TypeOK, DeletedWereCommitted, Past, Finished
<1>7. CleanupMatchesDeletion'
  <2>. SUFFICES ASSUME NEW q \in Request
                PROVE  /\ pc'[q] \notin Past \cup {"exit"} => postCommitActions'[q] = {}
                       /\ pc'[q] = "exit" => postCommitActions'[q] \subseteq removed'[q]
                       /\ pc'[q] = "post" => postCommitActions'[q] \cap Linked' = {}
    BY DEF CleanupMatchesDeletion
  <2>1. CASE q = r
    BY <1>1, <1>2, <2>1 DEF acts, IInv, TypeOK, CleanupMatchesDeletion, Past, Finished
  <2>2. CASE q # r
    <3>1. r \notin postCommitActions[q]
      BY <1>1 DEF IInv, DeletedWereCommitted, Past, Finished
    <3>. QED
      BY <1>1, <1>2, <2>2, <3>1 DEF ClearTx, acts, IInv, TypeOK, CleanupMatchesDeletion
  <2>. QED
    BY <2>1, <2>2
<1>8. UndoneNotLinked'
  BY <1>1, <1>2 DEF IInv, TypeOK, UndoneNotLinked, Past, Finished
<1>. QED
  BY <1>3, <1>4, <1>5, <1>6, <1>7, <1>8 DEF IInv

\* The actions of a finished transaction, and the last step of a request.
LEMMA CleanupInv ==
  ASSUME IInv, NEW r \in Request,
         RunRollbackAction(r) \/ RunPostCommitAction(r) \/ Finish(r)
  PROVE  IInv'
<1>1. /\ UNCHANGED <<items, links, job, todo, failed, tx, added, removed, locked, torn>>
      /\ objects' \subseteq File /\ leaked' \subseteq File
      /\ pc' = [pc EXCEPT ![r] = pc'[r]]
      /\ pc'[r] = pc[r] \/ (pc[r] \in Past /\ pc'[r] \in Finished)
      /\ rollbackActions' = [rollbackActions EXCEPT ![r] = rollbackActions'[r]]
      /\ rollbackActions'[r] \subseteq rollbackActions[r]
      /\ postCommitActions' = [postCommitActions EXCEPT ![r] = postCommitActions'[r]]
      /\ postCommitActions'[r] \subseteq postCommitActions[r]
  <2>1. CASE RunRollbackAction(r)
    BY <2>1 DEF RunRollbackAction, Cleanup, db, txn, IInv, TypeOK
  <2>2. CASE RunPostCommitAction(r)
    BY <2>2 DEF RunPostCommitAction, Cleanup, db, txn, IInv, TypeOK
  <2>3. CASE Finish(r)
    BY <2>3 DEF Finish, Goto, db, acts, txn, hist, IInv, TypeOK, Past, Finished
  <2>. QED
    BY <2>1, <2>2, <2>3
<1>2. Linked' = Linked
  BY <1>1 DEF Linked
<1>3. TypeOK'
  BY <1>1 DEF IInv, TypeOK, Steps, Finished
<1>4. DeletedWereCommitted'
  BY <1>1 DEF IInv, TypeOK, DeletedWereCommitted, Past, Finished
<1>5. CleanupMatchesDeletion'
  BY <1>1, <1>2 DEF IInv, TypeOK, CleanupMatchesDeletion, Past, Finished
<1>. QED
  BY <1>1, <1>2, <1>3, <1>4, <1>5 DEF IInv, TypeOK, OwnLinks, OwnRollback, LinkedAfterCommit,
     AbortedIsEmpty, UndoneNotLinked, Past, Finished

\* Every step of DatabaseProvider after the handler keeps the invariant.
LEMMA LeaveInv ==
  ASSUME IInv, NEW r \in Request, Leave(r)
  PROVE  IInv'
<1>1. ASSUME Rollback(r) PROVE IInv'
  BY <1>1, EmptyEndInv DEF Rollback, db, acts, hist, IInv, TypeOK, Past
<1>2. ASSUME CommitAborted(r) PROVE IInv'
  BY <1>2, EmptyEndInv DEF CommitAborted, Commits, db, acts, IInv, TypeOK, Past
<1>3. ASSUME CommitRaises(r) PROVE IInv'
  BY <1>3, EmptyEndInv DEF CommitRaises, Commits, db, acts, hist, IInv, TypeOK, Past
<1>. QED
  BY <1>1, <1>2, <1>3, CommitInv, CleanupInv DEF Leave

\* The death of the process during a request keeps the invariant.
LEMMA CrashInv ==
  ASSUME IInv, NEW r \in Request, Crash(r)
  PROVE  IInv'
<1>1. /\ Goto(r, "crashed") /\ ClearTx(r, "none") /\ pc[r] # "idle"
      /\ UNCHANGED <<db, job, todo, failed, acts, torn>>
  BY DEF Crash
<1>2. objects' \subseteq File /\ leaked' \subseteq File
  BY DEF Crash, IInv, TypeOK, File
<1>. QED
  BY <1>1, <1>2, EmptyEndInv DEF Past, Finished

\* Every step of the system keeps the invariant.
THEOREM StepIInv == IInv /\ [Next]_vars => IInv'
<1>. SUFFICES ASSUME IInv, [Next]_vars PROVE IInv'
  OBVIOUS
<1>1. ASSUME NEW r \in Request,
             (\E j \in Job : Begin(r, j)) \/ Handle(r) \/ Leave(r) \/ Crash(r)
      PROVE  IInv'
  BY <1>1, BeginInv, HandlerInv, LeaveInv, CrashInv
<1>2. CASE UNCHANGED vars
  BY <1>2 DEF vars, db, acts, txn, hist, IInv, TypeOK, OwnLinks, OwnRollback,
     LinkedAfterCommit, DeletedWereCommitted, AbortedIsEmpty, CleanupMatchesDeletion,
     UndoneNotLinked, Linked
<1>. QED
  BY <1>1, <1>2 DEF Next

\* The inductive invariant holds in every reachable state, for any number of requests,
\* files and items, any faults, and whether or not failures reach the provider.
THEOREM Invariance == Spec => []IInv
BY InitIInv, StepIInv, PTL DEF Spec

\* Every variable keeps its type, and every committed file is linked once.
THEOREM TypeCorrect == Spec => []TypeOK
<1>. IInv => TypeOK
  BY DEF IInv
<1>. QED
  BY Invariance, PTL

-----------------------------------------------------------------------------
(* Objects of committed rows.                                               *)

\* What a handler's step does to the object store, and to its own upload.
ObjectEffect(r) ==
  /\ objects \subseteq objects'
  /\ failed' = [failed EXCEPT ![r] = failed'[r]]
  /\ \/ added'[r] = {}
     \/ ~(pc'[r] = "touch" \/ (pc'[r] = "exit" /\ ~failed'[r]))
     \/ r \in objects'
     \/ pc[r] = "touch" /\ added[r] # {} /\ r \notin objects

\* A step of a use case deletes no object, and leaves "put" only with the object stored.
LEMMA HandlerObjects ==
  ASSUME IInv, NEW r \in Request, Handle(r)
  PROVE  ObjectEffect(r)
<1>0. ASSUME NEW how \in TxStates, Raise(r, how), objects \subseteq objects' PROVE ObjectEffect(r)
  BY <1>0 DEF ObjectEffect, Raise, Goto, IInv, TypeOK
<1>1. ASSUME LoadItem(r) PROVE ObjectEffect(r)
  BY <1>0, <1>1 DEF LoadItem, Goto, db, acts, txn, hist, TxStates, IInv, TypeOK, OwnLinks, ObjectEffect
<1>2. ASSUME LoadFile(r) PROVE ObjectEffect(r)
  BY <1>0, <1>2 DEF LoadFile, Goto, db, acts, txn, hist, TxStates, IInv, TypeOK, OwnLinks, ObjectEffect
<1>3. ASSUME ListFiles(r) PROVE ObjectEffect(r)
  <2>1. /\ pc[r] = "files" /\ UNCHANGED objects
        /\ Raise(r, "open") \/ UNCHANGED <<failed, added>>
    BY <1>3 DEF ListFiles, txn
  <2>. QED
    BY <1>0, <2>1 DEF TxStates, IInv, TypeOK, OwnLinks, ObjectEffect
<1>4. ASSUME LockFile(r) PROVE ObjectEffect(r)
  BY <1>0, <1>4 DEF LockFile, Goto, db, acts, txn, hist, TxStates, IInv, TypeOK, OwnLinks, ObjectEffect
<1>5. ASSUME RenameFile(r) PROVE ObjectEffect(r)
  BY <1>0, <1>5 DEF RenameFile, Goto, db, acts, txn, hist, TxStates, IInv, TypeOK, OwnLinks, ObjectEffect
<1>6. ASSUME RemoveFile(r) PROVE ObjectEffect(r)
  BY <1>0, <1>6 DEF RemoveFile, Goto, db, acts, txn, hist, TxStates, IInv, TypeOK, OwnLinks, ObjectEffect
<1>7. ASSUME RejectInput(r) PROVE ObjectEffect(r)
  BY <1>0, <1>7 DEF RejectInput, Goto, db, acts, txn, hist, TxStates, IInv, TypeOK, OwnLinks, ObjectEffect
<1>8. ASSUME InsertFile(r) PROVE ObjectEffect(r)
  BY <1>0, <1>8 DEF InsertFile, Goto, db, acts, txn, hist, TxStates, IInv, TypeOK, OwnLinks, ObjectEffect
<1>9. ASSUME PutObject(r) PROVE ObjectEffect(r)
  BY <1>0, <1>9 DEF PutObject, Goto, db, acts, txn, hist, TxStates, IInv, TypeOK, OwnLinks, ObjectEffect
<1>10. ASSUME PutFails(r) PROVE ObjectEffect(r)
  BY <1>0, <1>10 DEF PutFails, Goto, db, acts, txn, hist, TxStates, IInv, TypeOK, OwnLinks, ObjectEffect
<1>11. ASSUME PutAnswerLost(r) PROVE ObjectEffect(r)
  BY <1>0, <1>11 DEF PutAnswerLost, Goto, db, acts, txn, hist, TxStates, IInv, TypeOK, OwnLinks, ObjectEffect
<1>12. ASSUME TouchItem(r) PROVE ObjectEffect(r)
  BY <1>0, <1>12 DEF TouchItem, Return, Goto, db, acts, txn, hist, TxStates, IInv, TypeOK, OwnLinks, ObjectEffect
<1>13. ASSUME DeleteItemRow(r) PROVE ObjectEffect(r)
  BY <1>0, <1>13 DEF DeleteItemRow, Goto, db, acts, txn, hist, TxStates, IInv, TypeOK, OwnLinks, ObjectEffect
<1>14. ASSUME CheckRestrict(r) PROVE ObjectEffect(r)
  BY <1>0, <1>14 DEF CheckRestrict, Return, Goto, db, acts, txn, hist, TxStates, IInv, TypeOK, OwnLinks, ObjectEffect
<1>15. ASSUME StreamFile(r) PROVE ObjectEffect(r)
  BY <1>0, <1>15 DEF StreamFile, Return, Goto, db, acts, txn, hist, TxStates, IInv, TypeOK, OwnLinks, ObjectEffect
<1>16. ASSUME DatabaseError(r) PROVE ObjectEffect(r)
  BY <1>0, <1>16 DEF DatabaseError, StatementError, Goto, db, acts, txn, hist, TxStates, IInv, TypeOK, OwnLinks, ObjectEffect
<1>17. ASSUME DeadlockVictim(r) PROVE ObjectEffect(r)
  BY <1>0, <1>17 DEF DeadlockVictim, StatementError, Goto, db, acts, txn, hist, TxStates, IInv, TypeOK, OwnLinks, ObjectEffect
<1>. QED
  BY <1>1, <1>2, <1>3, <1>4, <1>5, <1>6, <1>7, <1>8, <1>9, <1>10, <1>11, <1>12, <1>13, <1>14, <1>15, <1>16, <1>17 DEF Handle

\* A request about to commit an upload that succeeded has stored the object.
StoredBeforeCommit ==
  \A r \in Request :
    added[r] # {} /\ (pc[r] = "touch" \/ (pc[r] = "exit" /\ ~failed[r])) => r \in objects

ObjInv == IInv /\ StoredBeforeCommit /\ ReferencedObjectsStored

\* What the cleanup of a finished transaction may delete.
LEMMA CleanupObjects ==
  ASSUME IInv, NEW r \in Request, RunRollbackAction(r) \/ RunPostCommitAction(r)
  PROVE  \A f \in objects \ objects' : /\ f \in Linked => f \in torn
                                       /\ f \in Request => pc[f] \in Past
<1>1. ASSUME RunRollbackAction(r), NEW f \in objects \ objects'
      PROVE  (f \in Linked => f \in torn) /\ (f \in Request => pc[f] \in Past)
  <2>1. pc[r] = "undo" /\ f = r
    BY <1>1 DEF RunRollbackAction, Cleanup, IInv, OwnRollback
  <2>. QED
    BY <2>1 DEF IInv, UndoneNotLinked, Past
<1>2. ASSUME RunPostCommitAction(r), NEW f \in objects \ objects'
      PROVE  (f \in Linked => f \in torn) /\ (f \in Request => pc[f] \in Past)
  <2>1. pc[r] = "post" /\ f \in postCommitActions[r]
    BY <1>2 DEF RunPostCommitAction, Cleanup
  <2>. QED
    BY <2>1 DEF IInv, CleanupMatchesDeletion, DeletedWereCommitted
<1>. QED
  BY <1>1, <1>2

\* Whatever fails, however failures are delivered, no cleanup deletes the object of a
\* committed row, except that of a row whose commit was answered by an error.
THEOREM CleanupSafe == Spec => CleanupSparesReferenced
<1>1. IInv /\ [Next]_vars => [(objects \ objects') \cap Linked \subseteq torn]_vars
  <2>. SUFFICES ASSUME IInv, Next PROVE (objects \ objects') \cap Linked \subseteq torn
    OBVIOUS
  <2>1. PICK r \in Request :
          (\E j \in Job : Begin(r, j)) \/ Handle(r) \/ Leave(r) \/ Crash(r)
    BY DEF Next
  <2>2. CASE RunRollbackAction(r) \/ RunPostCommitAction(r)
    BY <2>2, CleanupObjects
  <2>3. CASE Handle(r)
    BY <2>3, HandlerObjects DEF ObjectEffect
  <2>4. CASE \/ \E j \in Job : Begin(r, j)
             \/ Rollback(r) \/ Commit(r) \/ CommitAborted(r) \/ CommitRaises(r)
             \/ CommitAnswerLost(r) \/ Finish(r) \/ Crash(r)
    BY <2>4 DEF Begin, Rollback, Commit, CommitAborted, CommitRaises, CommitAnswerLost,
       Finish, Crash
  <2>. QED
    BY <2>1, <2>2, <2>3, <2>4 DEF Leave
<1>. QED
  BY <1>1, Invariance, PTL DEF Spec, CleanupSparesReferenced

\* A file that is linked is not that of a running handler, so that its upload has failed or
\* succeeded for good.
LEMMA LinkedHaveEnded ==
  ASSUME IInv, NEW r \in Request, Handle(r)
  PROVE  r \notin Linked
BY HandlerSteps DEF HandlerEffect, Working, IInv, LinkedAfterCommit, Past, Finished

\* Every step keeps a committed row together with its object: rows of uploads that succeeded
\* are committed only after the put, objects deleted only after the row.
LEMMA StepObjInv ==
  ASSUME ObjInv, [Next]_vars
  PROVE  ObjInv'
<1>1. IInv'
  BY StepIInv DEF ObjInv
<1>2. ASSUME NEW r \in Request, Handle(r) PROVE StoredBeforeCommit' /\ ReferencedObjectsStored'
  <2>1. HandlerEffect(r) /\ ObjectEffect(r)
    BY <1>2, HandlerSteps, HandlerObjects DEF ObjInv
  <2>2. Linked' = Linked /\ r \notin Linked
    BY <1>2, <2>1, LinkedHaveEnded DEF HandlerEffect, Linked, ObjInv
  <2>3. StoredBeforeCommit'
    BY <2>1 DEF HandlerEffect, ObjectEffect, ObjInv, IInv, TypeOK, StoredBeforeCommit
  <2>4. ReferencedObjectsStored'
    BY <2>1, <2>2 DEF HandlerEffect, ObjectEffect, ObjInv, IInv, TypeOK,
       ReferencedObjectsStored, FailedUploads
  <2>. QED
    BY <2>3, <2>4
<1>3. ASSUME NEW r \in Request, RunRollbackAction(r) \/ RunPostCommitAction(r)
      PROVE  StoredBeforeCommit' /\ ReferencedObjectsStored'
  <2>1. \A f \in objects \ objects' : /\ f \in Linked => f \in torn
                                      /\ f \in Request => pc[f] \in Past
    BY <1>3, CleanupObjects DEF ObjInv
  <2>2. UNCHANGED <<links, pc, added, failed, torn>>
    BY <1>3 DEF RunRollbackAction, RunPostCommitAction, db, txn
  <2>3. Linked' = Linked
    BY <2>2 DEF Linked
  <2>. QED
    BY <2>1, <2>2, <2>3 DEF ObjInv, StoredBeforeCommit, ReferencedObjectsStored, FailedUploads,
       Past, Finished
<1>4. ASSUME NEW r \in Request, Commit(r) \/ CommitAnswerLost(r)
      PROVE  StoredBeforeCommit' /\ ReferencedObjectsStored'
  <2>1. /\ pc[r] = "exit" /\ Publish(r)
        /\ pc' = [pc EXCEPT ![r] = pc'[r]] /\ pc'[r] \in Past
        /\ added' = [added EXCEPT ![r] = {}]
        /\ UNCHANGED <<objects, failed>> /\ torn \subseteq torn'
    BY <1>4 DEF Commit, CommitAnswerLost, Commits, Goto, ClearTx, ObjInv, IInv, TypeOK, Past
  <2>2. ASSUME NEW f \in Linked' PROVE f \in objects' \cup torn' \cup FailedUploads'
    <3>1. f \in Linked \/ (f = r /\ added[r] # {})
      BY <2>1 DEF Publish, Linked, ObjInv, IInv, OwnLinks
    <3>. QED
      BY <2>1, <3>1 DEF ObjInv, StoredBeforeCommit, ReferencedObjectsStored, FailedUploads
  <2>. QED
    BY <2>1, <2>2 DEF ObjInv, IInv, TypeOK, StoredBeforeCommit, ReferencedObjectsStored,
       Past, Finished
<1>5. ASSUME NEW r \in Request,
             \/ \E j \in Job : Begin(r, j)
             \/ Rollback(r) \/ CommitAborted(r) \/ CommitRaises(r) \/ Finish(r) \/ Crash(r)
      PROVE  StoredBeforeCommit' /\ ReferencedObjectsStored'
  <2>1. /\ pc' = [pc EXCEPT ![r] = pc'[r]] /\ pc'[r] \notin {"touch", "exit"}
        /\ added' \in {added, [added EXCEPT ![r] = {}]}
        /\ objects \subseteq objects'
        /\ UNCHANGED <<links, failed, torn>>
    BY <1>5 DEF Begin, Rollback, CommitAborted, CommitRaises, Finish, Crash, Goto, ClearTx,
       db, txn, hist, ObjInv, IInv, TypeOK
  <2>2. Linked' = Linked
    BY <2>1 DEF Linked
  <2>. QED
    BY <2>1, <2>2 DEF ObjInv, IInv, TypeOK, StoredBeforeCommit, ReferencedObjectsStored,
       FailedUploads
<1>6. CASE UNCHANGED vars
  BY <1>1, <1>6 DEF vars, db, acts, txn, hist, ObjInv, StoredBeforeCommit,
     ReferencedObjectsStored, FailedUploads, Linked
<1>. QED
  BY <1>1, <1>2, <1>3, <1>4, <1>5, <1>6 DEF Next, Leave, ObjInv

\* Whatever fails, and whether or not failures reach the provider, each committed file row has
\* its object in the store, but for the row of an upload that was answered with an error and
\* one whose commit was.
THEOREM ObjectsStored == Spec => []ReferencedObjectsStored
<1>1. Init => ObjInv
  BY InitIInv DEF Init, ObjInv, StoredBeforeCommit, ReferencedObjectsStored, Linked
<1>2. ObjInv /\ [Next]_vars => ObjInv'
  BY StepObjInv
<1>3. ObjInv => ReferencedObjectsStored
  BY DEF ObjInv
<1>. QED
  BY <1>1, <1>2, <1>3, PTL DEF Spec

-----------------------------------------------------------------------------
(* What failures leave: objects without a row, readers, failed calls.       *)

\* A use case that is still running has not failed, and a transaction that cannot be
\* committed any more belongs to one that has.
FailureEndsHandler ==
  \A r \in Request :
    /\ pc[r] \in Working \cup {"idle"} => ~failed[r]
    /\ tx[r] \in {"aborted", "deactivated"} => failed[r]

\* The object of an upload is there only from the put on; until the transaction has ended its
\* removal is registered or forgotten, and its row waits to be committed unless the
\* transaction cannot be.
UploadedInOrder ==
  \A r \in Request :
    /\ pc[r] = "put" => added[r] # {}
    /\ r \in objects =>
         /\ pc[r] \notin (Working \ {"touch"}) \cup {"idle"}
         /\ pc[r] \in {"touch", "exit", "undo"} => r \in rollbackActions[r] \cup leaked
         /\ \/ pc[r] = "touch"
            \/ pc[r] = "exit" /\ tx[r] \notin {"aborted", "deactivated"} /\ r \notin leaked
            => added[r] # {}

\* A handler that returned has registered the cleanup of all it deleted.
CleanupComplete ==
  \A r \in Request : pc[r] = "exit" /\ ~failed[r] => removed[r] \subseteq postCommitActions[r]

OrphanInv == IInv /\ FailureEndsHandler /\ UploadedInOrder /\ CleanupComplete
             /\ OrphansAccountedFor

StillExplained == FailureEndsHandler' /\ UploadedInOrder' /\ CleanupComplete' /\ OrphansAccountedFor'

\* What a step of a use case does to the object of its upload and to the cleanups.
UploadEffect(r) ==
  /\ objects' \in {objects, objects \cup {r}} /\ leaked \subseteq leaked'
  /\ failed' = [failed EXCEPT ![r] = failed'[r]]
  /\ pc'[r] \in Working => ~failed'[r]
  /\ tx'[r] \in {"aborted", "deactivated"} => failed'[r]
  /\ rollbackActions[r] \subseteq rollbackActions'[r]
  /\ pc'[r] = "put" => added'[r] # {}
  /\ pc[r] = "put" /\ pc'[r] = "touch" => added'[r] = added[r]
  /\ r \in objects' =>
       \/ /\ r \in objects /\ pc[r] = "touch" /\ pc'[r] = "exit"
          /\ tx'[r] \in {"aborted", "deactivated"} \/ added'[r] = added[r]
       \/ r \in leaked' /\ pc'[r] = "exit" /\ failed'[r]
       \/ r \in rollbackActions'[r] /\ pc[r] = "put" /\ pc'[r] = "touch"
  /\ pc'[r] = "exit" /\ ~failed'[r]
       => added'[r] = added[r] /\ postCommitActions'[r] = removed'[r]

\* Every step of a use case has that effect.
LEMMA HandlerUploads ==
  ASSUME OrphanInv, NEW r \in Request, Handle(r)
  PROVE  UploadEffect(r)
<1>. DEFINE E == UploadEffect(r)
<1>0. pc[r] \in Working /\ ~failed[r] /\ (r \in objects => pc[r] = "touch")
      /\ tx[r] \notin {"aborted", "deactivated"}
  <2>1. pc[r] \in Working
    BY HandlerSteps DEF OrphanInv, HandlerEffect
  <2>. QED
    BY <2>1 DEF OrphanInv, FailureEndsHandler, UploadedInOrder
<1>00. ASSUME NEW how \in {"open", "aborted", "deactivated"}, Raise(r, how),
              UNCHANGED <<objects, acts, hist>>
       PROVE  E
  BY <1>0, <1>00 DEF UploadEffect, Raise, Goto, ClearTx, txn, acts, hist, Working, OrphanInv, IInv, TypeOK
<1>1. ASSUME LoadItem(r) \/ LoadFile(r) PROVE E
  BY <1>0, <1>1, <1>00 DEF LoadItem, LoadFile, Goto, txn, acts, hist, UploadEffect, OrphanInv, IInv, TypeOK
<1>2. ASSUME ListFiles(r) PROVE E
  <2>1. /\ pc[r] = "files" /\ UNCHANGED <<objects, acts, hist>>
        /\ \/ Raise(r, "open")
           \/ /\ UNCHANGED <<failed, txn>>
              /\ \E step \in {"lock", "item_row", "insert"} : Goto(r, step)
    BY <1>2 DEF ListFiles
  <2>. QED
    BY <1>0, <2>1, <1>00 DEF Goto, txn, acts, hist, UploadEffect, OrphanInv, IInv, TypeOK
<1>3. ASSUME LockFile(r) \/ RenameFile(r) PROVE E
  BY <1>0, <1>3, <1>00 DEF LockFile, RenameFile, Goto, txn, acts, hist, UploadEffect, OrphanInv, IInv, TypeOK
<1>4. ASSUME RemoveFile(r) PROVE E
  BY <1>0, <1>4, <1>00 DEF RemoveFile, Goto, acts, hist, UploadEffect, OrphanInv, IInv, TypeOK
<1>5. ASSUME RejectInput(r) \/ PutFails(r) \/ DatabaseError(r) \/ DeadlockVictim(r) PROVE E
  BY <1>5, <1>00 DEF RejectInput, PutFails, DatabaseError, DeadlockVictim, StatementError
<1>6. ASSUME InsertFile(r) PROVE E
  BY <1>0, <1>6, <1>00 DEF InsertFile, Goto, acts, hist, UploadEffect, OrphanInv, IInv, TypeOK
<1>7. ASSUME PutObject(r) PROVE E
  BY <1>0, <1>7 DEF PutObject, Goto, txn, hist, UploadEffect, OrphanInv, IInv, TypeOK
<1>8. ASSUME PutAnswerLost(r) PROVE E
  BY <1>0, <1>8 DEF PutAnswerLost, Raise, Goto, txn, acts, UploadEffect, Working, OrphanInv, IInv, TypeOK
<1>9. ASSUME TouchItem(r) \/ StreamFile(r) PROVE E
  BY <1>0, <1>9, <1>00 DEF TouchItem, StreamFile, Return, Goto, txn, acts, hist, UploadEffect, Working, OrphanInv, IInv, TypeOK
<1>10. ASSUME DeleteItemRow(r) \/ CheckRestrict(r) PROVE E
  BY <1>0, <1>10, <1>00 DEF DeleteItemRow, CheckRestrict, Return, Goto, txn, acts, hist, UploadEffect, Working, OrphanInv, IInv, TypeOK
<1>. QED
  BY <1>1, <1>2, <1>3, <1>4, <1>5, <1>6, <1>7, <1>8, <1>9, <1>10 DEF Handle

\* A step of a use case leaves no object behind but its upload's, whose removal is registered.
LEMMA HandlerOrphans ==
  ASSUME OrphanInv, NEW r \in Request, Handle(r)
  PROVE  StillExplained
<1>1. HandlerEffect(r) /\ UploadEffect(r)
  BY HandlerSteps, HandlerUploads DEF OrphanInv
<1>2. Linked' = Linked
  BY <1>1 DEF HandlerEffect, Linked
<1>3. FailureEndsHandler'
  BY <1>1 DEF HandlerEffect, UploadEffect, OrphanInv, FailureEndsHandler, Working, IInv, TypeOK
<1>4. UploadedInOrder'
  BY <1>1 DEF HandlerEffect, UploadEffect, OrphanInv, UploadedInOrder, Working, IInv, TypeOK
<1>5. CleanupComplete'
  BY <1>1 DEF HandlerEffect, UploadEffect, OrphanInv, CleanupComplete, Working, IInv, TypeOK
<1>6. OrphansAccountedFor'
  <2>. SUFFICES ASSUME NEW f \in objects' \ (Linked' \cup leaked')
                PROVE  \/ f \in Request /\ pc'[f] \in {"touch", "exit", "undo"}
                       \/ \E q \in Request : pc'[q] = "post" /\ f \in postCommitActions'[q]
    BY DEF OrphansAccountedFor
  <2>1. CASE f = r
    BY <1>1, <2>1 DEF UploadEffect
  <2>2. CASE f # r
    <3>1. f \in objects \ (Linked \cup leaked)
      BY <1>1, <1>2, <2>2 DEF UploadEffect
    <3>2. \/ f \in Request /\ pc[f] \in {"touch", "exit", "undo"}
          \/ \E q \in Request : pc[q] = "post" /\ f \in postCommitActions[q]
      BY <3>1 DEF OrphanInv, OrphansAccountedFor
    <3>. QED
      BY <1>1, <2>2, <3>2 DEF HandlerEffect, Working, OrphanInv, IInv, TypeOK
  <2>. QED
    BY <2>1, <2>2
<1>. QED
  BY <1>3, <1>4, <1>5, <1>6 DEF StillExplained

\* A commit links the upload, and leaves what it unlinks to the registered cleanup, or, after
\* a failure, to nobody.
LEMMA CommitOrphans ==
  ASSUME OrphanInv, NEW r \in Request, Commit(r) \/ CommitAnswerLost(r)
  PROVE  StillExplained
<1>1. /\ pc[r] = "exit" /\ Publish(r) /\ UNCHANGED <<objects, failed, acts>> /\ tx[r] = "open"
      /\ pc' = [pc EXCEPT ![r] = pc'[r]]
      /\ \/ pc'[r] = "post" /\ leaked' = leaked \cup Forgotten(r)
         \/ pc'[r] = "undo" /\ leaked' = leaked \cup postCommitActions[r] \cup Forgotten(r)
      /\ tx' = [tx EXCEPT ![r] = "none"]
      /\ added' = [added EXCEPT ![r] = {}] /\ removed' = [removed EXCEPT ![r] = {}]
  BY DEF Commit, CommitAnswerLost, Commits, ClearTx, Goto, OrphanInv, IInv, TypeOK
<1>2. FailureEndsHandler' /\ CleanupComplete'
  BY <1>1 DEF acts, OrphanInv, FailureEndsHandler, CleanupComplete, Working, IInv, TypeOK
<1>3. UploadedInOrder'
  BY <1>1 DEF acts, OrphanInv, UploadedInOrder, Working, IInv, TypeOK
<1>4. OrphansAccountedFor'
  <2>. SUFFICES ASSUME NEW f \in objects' \ (Linked' \cup leaked')
                PROVE  \/ f \in Request /\ pc'[f] \in {"touch", "exit", "undo"}
                       \/ \E q \in Request : pc'[q] = "post" /\ f \in postCommitActions'[q]
    BY DEF OrphansAccountedFor
  <2>1. CASE f \in Linked
    <3>1. f \in removed[r]
      BY <1>1, <2>1 DEF Publish, Linked
    <3>. QED
      BY <1>1, <3>1 DEF acts, Forgotten, OrphanInv, CleanupComplete, IInv, TypeOK
  <2>2. CASE f \notin Linked
    <3>1. \/ f \in Request /\ pc[f] \in {"touch", "exit", "undo"}
          \/ \E q \in Request : pc[q] = "post" /\ f \in postCommitActions[q]
      BY <1>1, <2>2 DEF OrphanInv, OrphansAccountedFor
    <3>2. f # r
      BY <1>1 DEF Publish, Linked, OrphanInv, UploadedInOrder, IInv, OwnLinks
    <3>. QED
      BY <1>1, <3>1, <3>2 DEF acts, OrphanInv, IInv, TypeOK
  <2>. QED
    BY <2>1, <2>2
<1>. QED
  BY <1>2, <1>3, <1>4 DEF StillExplained

\* A cleanup action deletes its object, or a fault makes the server forget it.
LEMMA CleanupOrphans ==
  ASSUME OrphanInv, NEW r \in Request, RunRollbackAction(r) \/ RunPostCommitAction(r)
  PROVE  StillExplained
<1>1. /\ UNCHANGED <<links, pc, failed, tx, added, removed>>
      /\ objects' \subseteq objects /\ leaked \subseteq leaked'
  BY DEF RunRollbackAction, RunPostCommitAction, Cleanup, db, txn
<1>2. \E f : /\ f \notin objects' \/ f \in leaked'
             /\ \A q \in Request : /\ rollbackActions[q] \subseteq rollbackActions'[q] \cup {f}
                                   /\ postCommitActions[q] \subseteq postCommitActions'[q] \cup {f}
  BY DEF RunRollbackAction, RunPostCommitAction, Cleanup, acts, OrphanInv, IInv, TypeOK
<1>3. \A q \in Request : q # r => postCommitActions'[q] = postCommitActions[q]
  BY DEF RunRollbackAction, RunPostCommitAction, OrphanInv, IInv, TypeOK
<1>4. pc[r] # "exit"
  BY DEF RunRollbackAction, RunPostCommitAction
<1>5. FailureEndsHandler' /\ CleanupComplete'
  BY <1>1, <1>3, <1>4 DEF OrphanInv, FailureEndsHandler, CleanupComplete
<1>6. UploadedInOrder'
  BY <1>1, <1>2 DEF OrphanInv, UploadedInOrder
<1>7. Linked' = Linked
  BY <1>1 DEF Linked
<1>8. OrphansAccountedFor'
  BY <1>1, <1>2, <1>7 DEF OrphanInv, OrphansAccountedFor
<1>. QED
  BY <1>5, <1>6, <1>8 DEF StillExplained

\* A call that ends otherwise keeps its upload's removal registered, has run it, or has died.
LEMMA EndOrphans ==
  ASSUME OrphanInv, NEW r \in Request,
         \/ Rollback(r) \/ CommitAborted(r) \/ CommitRaises(r) \/ Finish(r) \/ Crash(r)
         \/ \E j \in Job : Begin(r, j)
  PROVE  StillExplained
<1>1. /\ UNCHANGED <<links, failed, acts>>
      /\ pc' = [pc EXCEPT ![r] = pc'[r]]
      /\ \/ UNCHANGED <<added, removed>>
         \/ added' = [added EXCEPT ![r] = {}] /\ removed' = [removed EXCEPT ![r] = {}]
      /\ leaked \subseteq leaked'
  BY DEF Rollback, CommitAborted, CommitRaises, Finish, Crash, Begin, ClearTx, Goto, db, txn,
     hist, OrphanInv, IInv, TypeOK
<1>2. \/ /\ pc[r] = "idle" /\ pc'[r] \in {"item", "files"} /\ UNCHANGED objects
         /\ tx' = [tx EXCEPT ![r] = "open"]
      \/ /\ pc[r] = "exit" /\ pc'[r] = "undo" /\ UNCHANGED objects
         /\ tx' = [tx EXCEPT ![r] = "none"]
      \/ /\ pc[r] = "exit" /\ pc'[r] = "post" /\ UNCHANGED objects
         /\ tx' = [tx EXCEPT ![r] = "none"] /\ leaked' = leaked \cup rollbackActions[r]
      \/ /\ pc[r] = "undo" /\ rollbackActions[r] = {} /\ UNCHANGED <<objects, tx>>
         /\ pc'[r] \in Finished
      \/ /\ pc[r] = "post" /\ postCommitActions[r] = {} /\ UNCHANGED <<objects, tx>>
         /\ pc'[r] \in Finished
      \/ /\ pc'[r] = "crashed" /\ objects' \subseteq objects \cup {r}
         /\ pc[r] # "put" => UNCHANGED objects
         /\ leaked' = leaked \cup (IF pc[r] = "post" THEN postCommitActions[r] ELSE {r})
         /\ tx' = [tx EXCEPT ![r] = "none"]
  <2>1. CASE CommitAborted(r)
    BY <2>1 DEF CommitAborted, Commits, ClearTx, Goto, OrphanInv, IInv, TypeOK
  <2>2. CASE Rollback(r) \/ CommitRaises(r)
    BY <2>2 DEF Rollback, CommitRaises, Commits, ClearTx, Goto, OrphanInv, IInv, TypeOK
  <2>3. CASE Finish(r)
    BY <2>3 DEF Finish, Finished, Goto, txn, OrphanInv, IInv, TypeOK
  <2>4. CASE Crash(r)
    BY <2>4 DEF Crash, ClearTx, Goto, OrphanInv, IInv, TypeOK
  <2>5. CASE \E j \in Job : Begin(r, j)
    BY <2>5 DEF Begin, Goto, OrphanInv, IInv, TypeOK
  <2>. QED
    BY <2>1, <2>2, <2>3, <2>4, <2>5
<1>3. Linked' = Linked
  BY <1>1 DEF Linked
<1>4. FailureEndsHandler' /\ CleanupComplete'
  BY <1>1, <1>2 DEF acts, OrphanInv, FailureEndsHandler, CleanupComplete, Working, Finished, IInv, TypeOK
<1>5. UploadedInOrder'
  BY <1>1, <1>2 DEF acts, OrphanInv, UploadedInOrder, Working, Finished, IInv, TypeOK
<1>6. OrphansAccountedFor'
  BY <1>1, <1>2, <1>3 DEF acts, OrphanInv, OrphansAccountedFor, UploadedInOrder, Finished, IInv, TypeOK
<1>. QED
  BY <1>4, <1>5, <1>6 DEF StillExplained

\* Every step of the system keeps the invariant.
LEMMA StepOrphanInv ==
  ASSUME OrphanInv, [Next]_vars
  PROVE  OrphanInv'
<1>1. IInv'
  BY StepIInv DEF OrphanInv
<1>2. CASE UNCHANGED vars
  BY <1>1, <1>2 DEF vars, db, acts, txn, hist, OrphanInv, FailureEndsHandler, UploadedInOrder,
     CleanupComplete, OrphansAccountedFor, Linked
<1>. QED
  BY <1>1, <1>2, HandlerOrphans, CommitOrphans, CleanupOrphans, EndOrphans
     DEF Next, Leave, OrphanInv, StillExplained

\* The invariant holds initially.
LEMMA InitOrphanInv == Init => OrphanInv
<1>. SUFFICES ASSUME Init PROVE OrphanInv
  OBVIOUS
<1>1. IInv
  BY InitIInv
<1>2. \A r \in Request : r \notin objects
  BY FilesAssumption DEF Init
<1>3. objects = Linked
  BY DEF Init, Linked
<1>. QED
  BY <1>1, <1>2, <1>3 DEF Init, OrphanInv, FailureEndsHandler, UploadedInOrder, CleanupComplete,
     OrphansAccountedFor

\* An object without a row belongs to a request that is still to clean it up, or a named fault
\* or a failure that the provider has not seen has made the server forget it: the actions that
\* endpoints and services register cover every other interleaving.
THEOREM OrphansExplained == Spec => []OrphansAccountedFor
<1>1. OrphanInv /\ [Next]_vars => OrphanInv'
  BY StepOrphanInv
<1>2. OrphanInv => OrphansAccountedFor
  BY DEF OrphanInv
<1>. QED
  BY <1>1, <1>2, InitOrphanInv, PTL DEF Spec

\* A stream that has found the row of its file fails to open the object only if the file has
\* been deleted meanwhile, its upload was answered with an error, or its commit was.
THEOREM ReadFails == Spec => ReadFailsOnlyIfDeleted
<1>1. OrphanInv /\ [Next]_vars => OrphanInv'
  BY StepOrphanInv
<1>2. ReferencedObjectsStored /\ OrphanInv /\ [Next]_vars =>
        [\A r \in Request :
           /\ pc[r] = "stream" /\ pc'[r] = "exit" /\ failed'[r]
           => job[r].file \notin Linked \/ job[r].file \in torn \cup FailedUploads]_vars
  <2>. SUFFICES ASSUME ReferencedObjectsStored, OrphanInv, Next,
                       NEW r \in Request, pc[r] = "stream", pc'[r] = "exit", failed'[r]
                PROVE  job[r].file \notin Linked \/ job[r].file \in torn \cup FailedUploads
    OBVIOUS
  <2>1. ~failed[r]
    BY DEF OrphanInv, FailureEndsHandler, Working
  <2>2. PICK q \in Request :
          (\E j \in Job : Begin(q, j)) \/ Handle(q) \/ Leave(q) \/ Crash(q)
    BY DEF Next
  <2>3. q = r
    <3>1. CASE Handle(q)
      BY <3>1, HandlerSteps DEF HandlerEffect, OrphanInv, IInv, TypeOK
    <3>2. CASE (\E j \in Job : Begin(q, j)) \/ Leave(q) \/ Crash(q)
      BY <3>2 DEF Leave, Begin, Crash, Rollback, Commit, CommitAborted, CommitRaises,
         CommitAnswerLost, RunRollbackAction, RunPostCommitAction, Finish, Goto, OrphanInv,
         IInv, TypeOK
    <3>. QED
      BY <2>2, <3>1, <3>2
  <2>4. StreamFile(r)
    BY <2>2, <2>3 DEF Handle, LoadItem, LoadFile, ListFiles, LockFile, RenameFile, RemoveFile,
       RejectInput, InsertFile, PutObject, PutFails, PutAnswerLost, TouchItem, DeleteItemRow,
       CheckRestrict, DatabaseError, DeadlockVictim, StatementError, DatabaseSteps, Begin,
       Leave, Rollback, Commit, CommitAborted, CommitRaises, Commits, CommitAnswerLost,
       RunRollbackAction, RunPostCommitAction, Finish, Crash, Goto, OrphanInv, IInv, TypeOK
  <2>. QED
    BY <2>1, <2>4 DEF StreamFile, Return, ReferencedObjectsStored
<1>3. Spec => []ReferencedObjectsStored
  BY ObjectsStored
<1>. QED
  BY <1>1, <1>2, <1>3, InitOrphanInv, PTL DEF Spec, ReadFailsOnlyIfDeleted

-----------------------------------------------------------------------------
(* Uploads that are undone.                                                 *)

\* A transaction that has been undone left no row, unless only its answer was lost.
RolledBackNotLinked == \A r \in Request : pc[r] = "rolled_back" /\ r \in Linked => r \in torn

\* A file that somebody deletes is not that of an upload that was undone.
DeletedWereKept ==
  \A r, q \in Request :
    q \in removed[r] \cup postCommitActions[r] /\ pc[q] \in {"undo", "rolled_back"} => q \in torn

UndoneInv == OrphanInv /\ RolledBackNotLinked /\ DeletedWereKept

\* Every step keeps the invariant.
LEMMA StepUndoneInv ==
  ASSUME UndoneInv, [Next]_vars
  PROVE  UndoneInv'
<1>1. OrphanInv'
  BY StepOrphanInv DEF UndoneInv
<1>. DEFINE Fine == RolledBackNotLinked' /\ DeletedWereKept'
<1>. TypeOK
  BY DEF UndoneInv, OrphanInv, IInv
<1>2. ASSUME NEW r \in Request, Handle(r) PROVE Fine
  <2>1. HandlerEffect(r) /\ failed' = [failed EXCEPT ![r] = failed'[r]]
    BY <1>2, HandlerSteps, HandlerUploads DEF UndoneInv, OrphanInv, UploadEffect
  <2>2. /\ UNCHANGED <<links, torn>>
        /\ \A q \in Request : pc'[q] \in Past => pc'[q] = pc[q] /\ failed'[q] = failed[q]
    BY <2>1 DEF HandlerEffect, Working, Past, Finished, TypeOK
  <2>3. \A p \in Request : /\ removed'[p] \subseteq removed[p] \cup Linked
                           /\ postCommitActions'[p]
                                \subseteq removed[p] \cup postCommitActions[p] \cup Linked
    BY <2>1 DEF HandlerEffect, TypeOK
  <2>4. RolledBackNotLinked'
    BY <2>2 DEF UndoneInv, RolledBackNotLinked, Linked, Past, Finished
  <2>5. DeletedWereKept'
    BY <2>2, <2>3 DEF UndoneInv, OrphanInv, IInv, UndoneNotLinked, RolledBackNotLinked,
       DeletedWereKept, Past, Finished
  <2>. QED
    BY <2>4, <2>5
<1>3. ASSUME NEW r \in Request, Commit(r) \/ CommitAnswerLost(r) PROVE Fine
  <2>1. /\ pc[r] = "exit"
        /\ pc' = [pc EXCEPT ![r] = pc'[r]]
        /\ (pc'[r] = "post" /\ UNCHANGED torn) \/ (pc'[r] = "undo" /\ torn' = torn \cup {r})
        /\ removed' = [removed EXCEPT ![r] = {}] /\ UNCHANGED postCommitActions
        /\ links' = {l \in links : l.file \notin removed[r]} \cup added[r]
    <3>1. CASE Commit(r)
      BY <3>1 DEF Commit, Commits, Publish, Goto, ClearTx, acts, hist, TypeOK
    <3>2. CASE CommitAnswerLost(r)
      BY <3>2 DEF CommitAnswerLost, Commits, Publish, Goto, ClearTx, acts, hist, TypeOK
    <3>. QED
      BY <1>3, <3>1, <3>2
  <2>3. Linked' \subseteq Linked \cup {r}
    BY <2>1 DEF Linked, UndoneInv, OrphanInv, IInv, OwnLinks
  <2>2. DeletedWereKept'
    BY <2>1 DEF UndoneInv, DeletedWereKept, OrphanInv, IInv, DeletedWereCommitted, TypeOK
  <2>. QED
    BY <2>1, <2>2, <2>3 DEF UndoneInv, RolledBackNotLinked, TypeOK
<1>4. ASSUME NEW r \in Request,
             \/ Rollback(r) \/ CommitAborted(r) \/ CommitRaises(r) \/ Finish(r) \/ Crash(r)
             \/ RunRollbackAction(r) \/ RunPostCommitAction(r)
             \/ \E j \in Job : Begin(r, j)
      PROVE  Fine
  <2>1. /\ pc' = [pc EXCEPT ![r] = pc'[r]]
        /\ UNCHANGED <<links, failed, torn>>
        /\ \A q \in Request : /\ removed'[q] \subseteq removed[q]
                              /\ postCommitActions'[q] \subseteq postCommitActions[q]
    BY <1>4 DEF Rollback, CommitAborted, CommitRaises, Finish, Crash, RunRollbackAction, Begin,
       RunPostCommitAction, ClearTx, Goto, db, txn, acts, hist, TypeOK
  <2>2. /\ pc'[r] = "rolled_back" => pc[r] = pc'[r] \/ pc[r] = "undo"
        /\ pc'[r] = "undo" => pc[r] = pc'[r] \/ pc[r] = "exit"
    BY <1>4 DEF Rollback, CommitAborted, CommitRaises, Finish, Crash, RunRollbackAction, Begin,
       RunPostCommitAction, Commits, Goto, TypeOK
  <2>3. RolledBackNotLinked'
    BY <2>1, <2>2 DEF UndoneInv, OrphanInv, IInv, UndoneNotLinked, RolledBackNotLinked,
       Linked, TypeOK
  <2>4. DeletedWereKept'
    <3>. SUFFICES ASSUME NEW p \in Request, NEW q \in Request,
                         q \in removed[p] \cup postCommitActions[p],
                         pc'[q] \in {"undo", "rolled_back"}
                  PROVE  q \in torn
      BY <2>1 DEF DeletedWereKept
    <3>1. pc[q] \in Past
      BY DEF UndoneInv, OrphanInv, IInv, DeletedWereCommitted
    <3>2. pc[q] \in {"undo", "rolled_back"}
      BY <2>1, <2>2, <3>1 DEF Past, Finished, TypeOK
    <3>. QED
      BY <3>2 DEF UndoneInv, DeletedWereKept
  <2>. QED
    BY <2>3, <2>4
<1>5. CASE UNCHANGED vars
  BY <1>1, <1>5 DEF vars, db, acts, txn, hist, UndoneInv, RolledBackNotLinked, DeletedWereKept,
     Linked
<1>6. ASSUME Next PROVE Fine
  <2>1. PICK r \in Request :
          (\E j \in Job : Begin(r, j)) \/ Handle(r) \/ Leave(r) \/ Crash(r)
    BY <1>6 DEF Next
  <2>. HIDE DEF Fine
  <2>. QED
    BY <2>1, <1>2, <1>3, <1>4 DEF Leave
<1>. QED
  BY <1>1, <1>5, <1>6 DEF UndoneInv

\* An upload that DatabaseProvider rolls back, because it was told of the failure, the session
\* was broken or the commit failed, leaves neither its row nor, unless a fault has made the
\* server forget it, its object.
RolledBackUploadsUndone ==
  \A r \in Request : pc[r] = "rolled_back" /\ r \notin torn
                       => r \notin Linked /\ (r \in objects => r \in leaked)

\* What is rolled back leaves nothing, whoever deletes files meanwhile and whatever fails; what
\* FilesWiredUpload shows is that a failed upload need not be rolled back.
THEOREM RolledBackUploadsLeaveNothing == Spec => []RolledBackUploadsUndone
<1>1. Init => UndoneInv
  BY InitOrphanInv DEF Init, UndoneInv, RolledBackNotLinked, DeletedWereKept
<1>2. UndoneInv /\ [Next]_vars => UndoneInv'
  BY StepUndoneInv
<1>3. UndoneInv => RolledBackUploadsUndone
  <2>. SUFFICES ASSUME UndoneInv, NEW r \in Request, pc[r] = "rolled_back", r \notin torn
                PROVE  r \notin Linked /\ (r \in objects => r \in leaked)
    BY DEF RolledBackUploadsUndone
  <2>1. r \notin Linked
    BY DEF UndoneInv, RolledBackNotLinked
  <2>2. \A q \in Request : r \notin postCommitActions[q]
    BY DEF UndoneInv, DeletedWereKept
  <2>. QED
    BY <2>1, <2>2 DEF UndoneInv, OrphanInv, OrphansAccountedFor
<1>. QED
  BY <1>1, <1>2, <1>3, PTL DEF Spec

-----------------------------------------------------------------------------
(* One photo a person.                                                      *)

\* A replacement past the load of its item concerns a person.
ReplacesPersons ==
  \A r \in Request :
    pc[r] \in {"files", "lock", "remove", "insert"} /\ job[r].op = "replace_person_photo"
      => job[r].item \in Person

\* An uncommitted photo is of a person, whose present photo its own transaction deletes and
\* to whom no other transaction is adding one.
PendingPhotos ==
  \A r \in Request : \A l \in Photos(added[r]) :
    /\ l.item \in Person
    /\ \A k \in Photos(LinksOf(l.item)) : k.file \in removed[r]
    /\ \A q \in Request \ {r} : \A k \in Photos(added[q]) : k.item # l.item

PhotoInv == IInv /\ ReplacesPersons /\ PendingPhotos /\ OnePhotoPerPerson

\* What a step of a use case that inserts no row does to its transaction and its job.
RowEffect(r) ==
  /\ job' = job
  /\ added'[r] = {} \/ (added'[r] = added[r] /\ removed[r] \subseteq removed'[r])
  /\ pc'[r] \in {"files", "lock", "remove", "insert"}
       => \/ pc[r] \in {"files", "lock", "remove", "insert"}
          \/ job[r].op \in PhotoOps => job[r].item \in Person

\* Every step of a use case but the insertion has that effect.
LEMMA HandlerRows ==
  ASSUME IInv, NEW r \in Request, Handle(r)
  PROVE  InsertFile(r) \/ RowEffect(r)
<1>0. ASSUME NEW how \in TxStates, Raise(r, how), UNCHANGED job PROVE RowEffect(r)
  BY <1>0 DEF RowEffect, Raise, Goto, ClearTx, txn, IInv, TypeOK
<1>. DEFINE E == RowEffect(r)
<1>1. ASSUME LoadItem(r) PROVE E
  BY <1>1, <1>0 DEF LoadItem, Goto, txn, RowEffect, IInv, TypeOK, TxStates
<1>2. ASSUME LoadFile(r) PROVE E
  BY <1>2, <1>0 DEF LoadFile, Goto, txn, RowEffect, IInv, TypeOK, TxStates
<1>3. ASSUME ListFiles(r) PROVE E
  <2>1. pc[r] = "files" /\ UNCHANGED job
    BY <1>3 DEF ListFiles
  <2>2. Raise(r, "open") \/ UNCHANGED txn
    BY <1>3 DEF ListFiles
  <2>. QED
    BY <2>1, <2>2, <1>0 DEF txn, RowEffect, TxStates
<1>4. ASSUME LockFile(r) PROVE E
  BY <1>4 DEF LockFile, Goto, RowEffect, IInv, TypeOK
<1>5. ASSUME RenameFile(r) PROVE E
  BY <1>5, <1>0 DEF RenameFile, Goto, RowEffect, IInv, TypeOK, TxStates
<1>6. ASSUME RemoveFile(r) PROVE E
  <2>1. pc[r] = "remove" /\ UNCHANGED job
    BY <1>6 DEF RemoveFile
  <2>2. \/ Raise(r, "open")
        \/ UNCHANGED added /\ \E f : removed' = [removed EXCEPT ![r] = @ \cup {f}]
    BY <1>6 DEF RemoveFile
  <2>. QED
    BY <2>1, <2>2, <1>0 DEF RowEffect, IInv, TypeOK, TxStates
<1>7. ASSUME RejectInput(r) PROVE E
  BY <1>7, <1>0 DEF RejectInput, TxStates
<1>8. ASSUME PutObject(r) \/ PutFails(r) \/ PutAnswerLost(r) PROVE E
  BY <1>8, <1>0 DEF PutObject, PutFails, PutAnswerLost, Goto, txn, RowEffect, IInv, TypeOK, TxStates
<1>9. ASSUME TouchItem(r) PROVE E
  BY <1>9 DEF TouchItem, Return, Goto, txn, RowEffect, IInv, TypeOK
<1>10. ASSUME DeleteItemRow(r) PROVE E
  BY <1>10, <1>0 DEF DeleteItemRow, Goto, txn, RowEffect, IInv, TypeOK, TxStates
<1>11. ASSUME CheckRestrict(r) PROVE E
  BY <1>11, <1>0 DEF CheckRestrict, Return, Goto, txn, RowEffect, IInv, TypeOK, TxStates
<1>12. ASSUME StreamFile(r) PROVE E
  BY <1>12, <1>0 DEF StreamFile, Return, Goto, txn, RowEffect, IInv, TypeOK, TxStates
<1>13. ASSUME DatabaseError(r) \/ DeadlockVictim(r) PROVE E
  BY <1>13, <1>0 DEF DatabaseError, DeadlockVictim, StatementError, TxStates
<1>. QED
  BY <1>1, <1>2, <1>3, <1>4, <1>5, <1>6, <1>7, <1>8, <1>9, <1>10, <1>11, <1>12, <1>13 DEF Handle

\* The insertion of a photo has waited for every other photo of the person, uncommitted or
\* being deleted, and finds only one that its own transaction has deleted.
LEMMA InsertPhoto ==
  ASSUME PhotoInv, NEW r \in Request, InsertFile(r)
  PROVE  ReplacesPersons' /\ PendingPhotos' /\ OnePhotoPerPerson'
<1>1. /\ pc[r] = "insert" /\ ~Blocked(r)
      /\ UNCHANGED <<links, items, job>>
      /\ pc' = [pc EXCEPT ![r] = pc'[r]] /\ pc'[r] \in {"put", "exit"}
  BY DEF InsertFile, Raise, Goto, db, PhotoInv, IInv, TypeOK
<1>2. ReplacesPersons' /\ OnePhotoPerPerson'
  BY <1>1 DEF PhotoInv, ReplacesPersons, OnePhotoPerPerson, IInv, TypeOK
<1>3. CASE Raise(r, "deactivated")
  BY <1>1, <1>2, <1>3 DEF Raise, ClearTx, PhotoInv, PendingPhotos, Photos, LinksOf, IInv, TypeOK
<1>4. CASE /\ added' = [added EXCEPT ![r] = {NewLink(r)}] /\ UNCHANGED removed
           /\ job[r].op = "replace_person_photo"
                => \A l \in Photos(LinksOf(job[r].item)) : l.file \in removed[r]
  <2>1. \A q \in Request \ {r} :
          job[r].op = "replace_person_photo"
            => \A k \in Photos(added[q]) : k.item # job[r].item
    BY <1>1 DEF Blocked, Waits, NewKind
  <2>2. ASSUME NewLink(r).kind = "person_photo"
        PROVE  job[r].op = "replace_person_photo" /\ NewLink(r).item \in Person
               /\ NewLink(r).item = job[r].item
    BY <1>1, <2>2 DEF NewLink, NewKind, PhotoInv, ReplacesPersons
  <2>. QED
    BY <1>1, <1>2, <1>4, <2>1, <2>2 DEF PhotoInv, PendingPhotos, Photos, LinksOf, IInv, TypeOK
<1>. QED
  BY <1>3, <1>4 DEF InsertFile

\* A commit publishes a new photo together with the deletion of the present one.
LEMMA CommitPhoto ==
  ASSUME PhotoInv, NEW r \in Request, Commit(r) \/ CommitAnswerLost(r)
  PROVE  ReplacesPersons' /\ PendingPhotos' /\ OnePhotoPerPerson'
<1>1. /\ pc[r] = "exit" /\ UNCHANGED job
      /\ pc' = [pc EXCEPT ![r] = pc'[r]] /\ pc'[r] \in Past
      /\ added' = [added EXCEPT ![r] = {}] /\ removed' = [removed EXCEPT ![r] = {}]
      /\ links' = {l \in links : l.file \notin removed[r]} \cup added[r]
  BY DEF Commit, CommitAnswerLost, Commits, Publish, ClearTx, Goto, PhotoInv, IInv, TypeOK, Past
<1>2. ReplacesPersons'
  BY <1>1 DEF PhotoInv, ReplacesPersons, Past, Finished, IInv, TypeOK
<1>3. PendingPhotos'
  BY <1>1 DEF PhotoInv, PendingPhotos, Photos, LinksOf, IInv, TypeOK
<1>4. OnePhotoPerPerson'
  <2>1. \A k, l \in added[r] : k = l
    BY DEF PhotoInv, IInv, OwnLinks
  <2>. QED
    BY <1>1, <2>1 DEF PhotoInv, PendingPhotos, OnePhotoPerPerson, Photos, LinksOf
<1>. QED
  BY <1>2, <1>3, <1>4

\* Every step of the system keeps the invariant.
LEMMA StepPhotoInv == PhotoInv /\ [Next]_vars => PhotoInv'
<1>. SUFFICES ASSUME PhotoInv, [Next]_vars PROVE PhotoInv'
  OBVIOUS
<1>1. IInv'
  BY StepIInv DEF PhotoInv
<1>. DEFINE Kept == ReplacesPersons' /\ PendingPhotos' /\ OnePhotoPerPerson'
<1>2. ASSUME NEW r \in Request, NEW j \in Job, Begin(r, j) PROVE Kept
  <2>1. /\ pc[r] = "idle" /\ job' = [job EXCEPT ![r] = j]
        /\ pc' = [pc EXCEPT ![r] = pc'[r]]
        /\ pc'[r] = "item" \/ (pc'[r] = "files" /\ j.op = "get_file_content")
        /\ UNCHANGED <<links, added, removed>>
    BY <1>2 DEF Begin, Goto, db, PhotoInv, IInv, TypeOK
  <2>. QED
    BY <2>1 DEF PhotoInv, ReplacesPersons, PendingPhotos, OnePhotoPerPerson, Photos, LinksOf,
       IInv, TypeOK
<1>3. ASSUME NEW r \in Request, Handle(r) PROVE Kept
  <2>1. CASE InsertFile(r)
    BY <2>1, InsertPhoto
  <2>2. CASE RowEffect(r)
    <3>1. HandlerEffect(r)
      BY <1>3, HandlerSteps DEF PhotoInv
    <3>2. ReplacesPersons' /\ OnePhotoPerPerson'
      BY <2>2, <3>1 DEF RowEffect, HandlerEffect, PhotoInv, ReplacesPersons, OnePhotoPerPerson,
         PhotoOps, IInv, TypeOK
    <3>3. PendingPhotos'
      BY <2>2, <3>1 DEF RowEffect, HandlerEffect, PhotoInv, PendingPhotos, Photos, LinksOf,
         IInv, TypeOK
    <3>. QED
      BY <3>2, <3>3
  <2>. QED
    BY <1>3, <2>1, <2>2, HandlerRows DEF PhotoInv
<1>4. ASSUME NEW r \in Request,
             \/ Rollback(r) \/ CommitAborted(r) \/ CommitRaises(r) \/ Finish(r) \/ Crash(r)
             \/ RunRollbackAction(r) \/ RunPostCommitAction(r)
      PROVE  Kept
  <2>1. /\ pc' = [pc EXCEPT ![r] = pc'[r]]
        /\ pc'[r] \notin {"files", "lock", "remove", "insert"}
        /\ UNCHANGED <<job, links>>
        /\ \/ UNCHANGED <<added, removed>>
           \/ added' = [added EXCEPT ![r] = {}] /\ removed' = [removed EXCEPT ![r] = {}]
    BY <1>4 DEF Rollback, CommitAborted, CommitRaises, Finish, Crash, RunRollbackAction,
       RunPostCommitAction, ClearTx, Goto, db, txn, PhotoInv, IInv, TypeOK
  <2>. QED
    BY <2>1 DEF PhotoInv, ReplacesPersons, PendingPhotos, OnePhotoPerPerson, Photos, LinksOf,
       IInv, TypeOK
<1>5. ASSUME NEW r \in Request, Commit(r) \/ CommitAnswerLost(r) PROVE Kept
  BY <1>5, CommitPhoto
<1>6. CASE UNCHANGED vars
  BY <1>1, <1>6 DEF vars, db, txn, PhotoInv, ReplacesPersons, PendingPhotos, OnePhotoPerPerson,
     Photos, LinksOf
<1>. QED
  BY <1>1, <1>2, <1>3, <1>4, <1>5, <1>6 DEF Next, Leave, PhotoInv

\* However uploads, replacements and deletions of photos interleave, fail or are reported
\* wrongly, and whether or not failures reach the provider, a person has at most one photo.
THEOREM OnePhoto == Spec => []OnePhotoPerPerson
<1>1. Init => PhotoInv
  BY InitIInv, FilesAssumption DEF Init, PhotoInv, ReplacesPersons, PendingPhotos,
     OnePhotoPerPerson, Photos
<1>2. PhotoInv => OnePhotoPerPerson
  BY DEF PhotoInv
<1>. QED
  BY <1>1, <1>2, StepPhotoInv, PTL DEF Spec

-----------------------------------------------------------------------------
(* No file without its item.                                                *)

\* The steps by which an item is deleted are not those of other calls.
DeletionSteps ==
  \A r \in Request :
    job[r].op = "delete_item" => pc[r] \notin {"insert", "put", "touch", "stream"}

\* An uncommitted file is of its request's item, which exists and nobody is deleting.
PendingFiles ==
  \A r \in Request : \A l \in added[r] :
    /\ l.item = job[r].item /\ l.item \in items /\ job[r].op # "delete_item"
    /\ \A q \in Request : HasDeletedItem(q) => job[q].item # l.item

\* A transaction that is about to commit the deletion of an item deletes all of its files.
DeletesAllFiles ==
  \A q \in Request :
    pc[q] = "exit" /\ HasDeletedItem(q)
      => \A l \in LinksOf(job[q].item) : l.file \in removed[q]

ItemInv == IInv /\ DeletionSteps /\ PendingFiles /\ DeletesAllFiles /\ LinksHaveItems

\* What a step of a use case that inserts no row does about items.
ItemEffect(r) ==
  /\ job' = job /\ failed' = [failed EXCEPT ![r] = failed'[r]]
  /\ added'[r] \subseteq added[r]
  /\ job[r].op = "delete_item" =>
       /\ pc'[r] \notin {"insert", "put", "touch", "stream"}
       /\ pc'[r] = "restrict" => pc[r] = "item_row" /\ ~Blocked(r)
       /\ pc'[r] = "exit" /\ ~failed'[r] =>
            /\ pc[r] = "restrict" /\ removed'[r] = removed[r]
            /\ \A l \in LinksOf(job[r].item) : l.file \in removed[r]

\* Every step of a use case but the insertion has that effect.
LEMMA HandlerItems ==
  ASSUME IInv, DeletionSteps, NEW r \in Request, Handle(r)
  PROVE  InsertFile(r) \/ ItemEffect(r)
<1>0. ASSUME NEW how \in TxStates, Raise(r, how), UNCHANGED job PROVE ItemEffect(r)
  BY <1>0 DEF ItemEffect, Raise, Goto, ClearTx, txn, IInv, TypeOK
<1>. DEFINE E == ItemEffect(r)
<1>1. ASSUME LoadItem(r) PROVE E
  BY <1>1, <1>0 DEF LoadItem, Goto, txn, ItemEffect, IInv, TypeOK, TxStates
<1>2. ASSUME LoadFile(r) PROVE E
  BY <1>2, <1>0 DEF LoadFile, Goto, txn, FileOps, ItemEffect, IInv, TypeOK, TxStates
<1>3. ASSUME ListFiles(r) PROVE E
  <2>1. /\ pc[r] = "files" /\ UNCHANGED job
        /\ \/ Raise(r, "open")
           \/ /\ UNCHANGED <<failed, txn>>
              /\ \E step \in {"lock", "item_row", "insert"} : Goto(r, step)
              /\ job[r].op = "delete_item" => ~Goto(r, "insert")
    <3>1. ("lock" # "insert" /\ "item_row" # "insert")
      OBVIOUS
    <3>. QED
      BY <1>3, <3>1 DEF ListFiles, Goto, IInv, TypeOK
  <2>. QED
    BY <2>1, <1>0 DEF Goto, txn, ItemEffect, IInv, TypeOK, TxStates
<1>4. ASSUME LockFile(r) PROVE E
  BY <1>4 DEF LockFile, Goto, ItemEffect, IInv, TypeOK
<1>5. ASSUME RenameFile(r) PROVE E
  BY <1>5, <1>0 DEF RenameFile, Goto, ItemEffect, IInv, TypeOK, TxStates
<1>6. ASSUME RemoveFile(r) PROVE E
  BY <1>6, <1>0 DEF RemoveFile, Goto, ItemEffect, IInv, TypeOK, TxStates
<1>7. ASSUME RejectInput(r) PROVE E
  BY <1>7, <1>0 DEF RejectInput, TxStates
<1>8. ASSUME PutObject(r) \/ PutFails(r) \/ PutAnswerLost(r) PROVE E
  BY <1>8, <1>0 DEF PutObject, PutFails, PutAnswerLost, Goto, txn, ItemEffect, DeletionSteps,
     IInv, TypeOK, TxStates
<1>9. ASSUME TouchItem(r) \/ StreamFile(r) PROVE E
  BY <1>9, <1>0 DEF TouchItem, StreamFile, Return, Goto, txn, ItemEffect, DeletionSteps,
     IInv, TypeOK, TxStates
<1>10. ASSUME DeleteItemRow(r) PROVE E
  BY <1>10, <1>0 DEF DeleteItemRow, Goto, txn, ItemEffect, IInv, TypeOK, TxStates
<1>11. ASSUME CheckRestrict(r) PROVE E
  BY <1>11, <1>0 DEF CheckRestrict, Return, Goto, txn, ItemEffect, IInv, TypeOK, TxStates
<1>12. ASSUME DatabaseError(r) \/ DeadlockVictim(r) PROVE E
  BY <1>12, <1>0 DEF DatabaseError, DeadlockVictim, StatementError, TxStates
<1>. QED
  BY <1>1, <1>2, <1>3, <1>4, <1>5, <1>6, <1>7, <1>8, <1>9, <1>10, <1>11, <1>12 DEF Handle

\* The insertion finds the item and has waited for everybody who deletes it.
LEMMA InsertItem ==
  ASSUME ItemInv, NEW r \in Request, InsertFile(r)
  PROVE  DeletionSteps' /\ PendingFiles' /\ DeletesAllFiles' /\ LinksHaveItems'
<1>1. /\ pc[r] = "insert" /\ ~Blocked(r)
      /\ UNCHANGED <<links, items, job>>
      /\ pc' = [pc EXCEPT ![r] = pc'[r]]
      /\ \/ pc'[r] = "put" /\ UNCHANGED failed
         \/ pc'[r] = "exit" /\ failed' = [failed EXCEPT ![r] = TRUE]
      /\ removed' = [removed EXCEPT ![r] = removed'[r]]
  BY DEF InsertFile, Raise, Goto, ClearTx, db, ItemInv, IInv, TypeOK
<1>2. job[r].op # "delete_item"
  BY <1>1 DEF ItemInv, DeletionSteps
<1>3. \A q \in Request : HasDeletedItem(q)' <=> HasDeletedItem(q)
  BY <1>1, <1>2 DEF HasDeletedItem, ItemInv, IInv, TypeOK
<1>4. DeletionSteps' /\ LinksHaveItems' /\ DeletesAllFiles'
  BY <1>1, <1>2, <1>3 DEF ItemInv, DeletionSteps, LinksHaveItems, DeletesAllFiles, LinksOf,
     HasDeletedItem, IInv, TypeOK
<1>5. CASE Raise(r, "deactivated")
  BY <1>1, <1>3, <1>4, <1>5 DEF Raise, ClearTx, ItemInv, PendingFiles, IInv, TypeOK
<1>6. CASE /\ added' = [added EXCEPT ![r] = {NewLink(r)}]
           /\ job[r].item \in items
  <2>1. \A q \in Request : HasDeletedItem(q) => job[q].item # job[r].item
    BY <1>1, <1>2 DEF Blocked, Waits, HasDeletedItem
  <2>2. NewLink(r).item = job[r].item
    BY DEF NewLink
  <2>. QED
    BY <1>1, <1>2, <1>3, <1>4, <1>6, <2>1, <2>2 DEF ItemInv, PendingFiles, IInv, TypeOK
<1>. QED
  BY <1>5, <1>6 DEF InsertFile

\* Every other step of a use case keeps files and items together: the deletion of an item
\* waits for whoever has inserted a file of it, and then is refused unless it deletes them all.
LEMMA OtherItems ==
  ASSUME ItemInv, NEW r \in Request, HandlerEffect(r), ItemEffect(r)
  PROVE  DeletionSteps' /\ PendingFiles' /\ DeletesAllFiles' /\ LinksHaveItems'
<1>1. /\ UNCHANGED <<links, items, job>>
      /\ pc[r] \in Working
      /\ pc' = [pc EXCEPT ![r] = pc'[r]] /\ pc'[r] \in Working \cup {"exit"}
      /\ failed' = [failed EXCEPT ![r] = failed'[r]]
      /\ added' = [added EXCEPT ![r] = added'[r]] /\ added'[r] \subseteq added[r]
      /\ removed' = [removed EXCEPT ![r] = removed'[r]]
  BY DEF HandlerEffect, ItemEffect
<1>2. DeletionSteps' /\ LinksHaveItems'
  BY <1>1 DEF ItemEffect, ItemInv, DeletionSteps, LinksHaveItems, IInv, TypeOK
<1>3. \A q \in Request \ {r} : HasDeletedItem(q)' <=> HasDeletedItem(q)
  BY <1>1 DEF HasDeletedItem, ItemInv, IInv, TypeOK
<1>4. PendingFiles'
  <2>1. ASSUME HasDeletedItem(r)'
        PROVE  \/ HasDeletedItem(r)
               \/ \A q \in Request \ {r} : job[q].item = job[r].item => added[q] = {}
    BY <1>1, <2>1 DEF ItemEffect, HasDeletedItem, Blocked, Waits, ItemInv, IInv, TypeOK
  <2>. QED
    BY <1>1, <1>3, <2>1 DEF ItemInv, PendingFiles, HasDeletedItem, IInv, TypeOK
<1>5. DeletesAllFiles'
  BY <1>1, <1>3 DEF ItemEffect, ItemInv, DeletesAllFiles, HasDeletedItem, LinksOf, IInv, TypeOK
<1>. QED
  BY <1>2, <1>4, <1>5

\* A commit publishes new files of items that exist, and deletes an item with all its files.
LEMMA CommitItem ==
  ASSUME ItemInv, NEW r \in Request, Commit(r) \/ CommitAnswerLost(r)
  PROVE  DeletionSteps' /\ PendingFiles' /\ DeletesAllFiles' /\ LinksHaveItems'
<1>1. /\ pc[r] = "exit" /\ UNCHANGED <<job, failed>> /\ Publish(r)
      /\ pc' = [pc EXCEPT ![r] = pc'[r]] /\ pc'[r] \in Past
      /\ added' = [added EXCEPT ![r] = {}] /\ removed' = [removed EXCEPT ![r] = {}]
  BY DEF Commit, CommitAnswerLost, Commits, ClearTx, Goto, ItemInv, IInv, TypeOK, Past
<1>2. \A q \in Request : HasDeletedItem(q)' => HasDeletedItem(q) /\ q # r
  BY <1>1 DEF HasDeletedItem, Past, Finished, ItemInv, IInv, TypeOK
<1>3. DeletionSteps'
  BY <1>1 DEF ItemInv, DeletionSteps, Past, Finished, IInv, TypeOK
<1>4. PendingFiles'
  BY <1>1, <1>2 DEF Publish, ItemInv, PendingFiles, IInv, TypeOK
<1>5. DeletesAllFiles'
  BY <1>1, <1>2 DEF Publish, ItemInv, PendingFiles, DeletesAllFiles, LinksOf, HasDeletedItem,
     IInv, TypeOK
<1>6. LinksHaveItems'
  BY <1>1 DEF Publish, ItemInv, PendingFiles, DeletesAllFiles, LinksHaveItems, LinksOf
<1>. QED
  BY <1>3, <1>4, <1>5, <1>6

\* Every step of the system keeps the invariant.
LEMMA StepItemInv == ItemInv /\ [Next]_vars => ItemInv'
<1>. SUFFICES ASSUME ItemInv, [Next]_vars PROVE ItemInv'
  OBVIOUS
<1>1. IInv'
  BY StepIInv DEF ItemInv
<1>. DEFINE Kept == DeletionSteps' /\ PendingFiles' /\ DeletesAllFiles' /\ LinksHaveItems'
<1>2. ASSUME NEW r \in Request, NEW j \in Job, Begin(r, j) PROVE Kept
  <2>1. /\ pc[r] = "idle" /\ job' = [job EXCEPT ![r] = j]
        /\ pc' = [pc EXCEPT ![r] = pc'[r]] /\ pc'[r] \in {"item", "files"}
        /\ UNCHANGED <<links, items, failed, added, removed>>
    BY <1>2 DEF Begin, Goto, db, ItemInv, IInv, TypeOK
  <2>2. added[r] = {}
    BY <2>1 DEF ItemInv, IInv, OwnLinks
  <2>3. \A q \in Request : HasDeletedItem(q)' => HasDeletedItem(q) /\ q # r
    BY <2>1 DEF HasDeletedItem, ItemInv, IInv, TypeOK
  <2>4. DeletionSteps' /\ LinksHaveItems'
    BY <2>1 DEF ItemInv, DeletionSteps, LinksHaveItems, IInv, TypeOK
  <2>5. PendingFiles'
    BY <2>1, <2>2, <2>3 DEF ItemInv, PendingFiles, IInv, TypeOK
  <2>6. DeletesAllFiles'
    BY <2>1, <2>3 DEF ItemInv, DeletesAllFiles, LinksOf, IInv, TypeOK
  <2>. QED
    BY <2>4, <2>5, <2>6
<1>3. ASSUME NEW r \in Request, Handle(r) PROVE Kept
  BY <1>3, HandlerSteps, HandlerItems, InsertItem, OtherItems DEF ItemInv
<1>4. ASSUME NEW r \in Request,
             \/ Rollback(r) \/ CommitAborted(r) \/ CommitRaises(r) \/ Finish(r) \/ Crash(r)
             \/ RunRollbackAction(r) \/ RunPostCommitAction(r)
      PROVE  Kept
  <2>1. /\ pc' = [pc EXCEPT ![r] = pc'[r]]
        /\ pc'[r] \in Past
        /\ UNCHANGED <<job, links, items, failed>>
        /\ \/ UNCHANGED <<added, removed>>
           \/ added' = [added EXCEPT ![r] = {}] /\ removed' = [removed EXCEPT ![r] = {}]
    BY <1>4 DEF Rollback, CommitAborted, CommitRaises, Finish, Crash, RunRollbackAction,
       RunPostCommitAction, ClearTx, Goto, db, txn, ItemInv, IInv, TypeOK, Past, Finished
  <2>2. \A q \in Request : HasDeletedItem(q)' => HasDeletedItem(q) /\ q # r
    BY <2>1 DEF HasDeletedItem, Past, Finished, ItemInv, IInv, TypeOK
  <2>3. DeletionSteps' /\ LinksHaveItems'
    BY <2>1 DEF ItemInv, DeletionSteps, LinksHaveItems, Past, Finished, IInv, TypeOK
  <2>4. PendingFiles'
    BY <2>1, <2>2 DEF ItemInv, PendingFiles, IInv, TypeOK
  <2>5. DeletesAllFiles'
    BY <2>1, <2>2 DEF ItemInv, DeletesAllFiles, LinksOf, IInv, TypeOK
  <2>. QED
    BY <2>3, <2>4, <2>5
<1>5. ASSUME NEW r \in Request, Commit(r) \/ CommitAnswerLost(r) PROVE Kept
  BY <1>5, CommitItem
<1>6. CASE UNCHANGED vars
  BY <1>1, <1>6 DEF vars, db, txn, ItemInv, DeletionSteps, PendingFiles, DeletesAllFiles,
     LinksHaveItems, LinksOf, HasDeletedItem
<1>. QED
  BY <1>1, <1>2, <1>3, <1>4, <1>5, <1>6 DEF Next, Leave, ItemInv

\* A committed file always has its item, although an item is found before its file is
\* uploaded and its files are listed before it is deleted.
THEOREM FilesHaveItems == Spec => []LinksHaveItems
<1>1. Init => ItemInv
  BY InitIInv, FilesAssumption DEF Init, ItemInv, DeletionSteps, PendingFiles, DeletesAllFiles,
     HasDeletedItem, LinksHaveItems, NoJob
<1>2. ItemInv => LinksHaveItems
  BY DEF ItemInv
<1>. QED
  BY <1>1, <1>2, StepItemInv, PTL DEF Spec

-----------------------------------------------------------------------------
(* Each request changes what clients see as a whole or not at all.          *)

\* The steps of one operation are not those of another, and nothing has been put off for
\* deletion before the files have been looked up.
OpSteps ==
  \A r \in Request :
    /\ pc[r] # "idle" => job[r].op \in Operation
    /\ pc[r] \in {"idle", "item", "files"} => todo[r] = {} /\ removed[r] = {}
    /\ pc[r] = "insert" => job[r].op \in Uploads
    /\ pc[r] \in {"files", "lock", "remove"} => job[r].op # "upload_attachment"
    /\ pc[r] \in {"lock", "remove"} => job[r].op # "get_file_content"
    /\ pc[r] = "remove" => job[r].op # "rename_attachment"

\* Only an upload inserts, and only the file it was asked for.
OwnAdditions ==
  \A r \in Request : \A l \in added[r] : job[r].op \in Uploads /\ l = NewLink(r)

\* What a request has deleted or has still to delete was committed before, belongs to its item
\* and, if it deals with photos, is the photo; only the deletion of an item deletes several.
OwnDeletions ==
  \A r \in Request : \A f \in removed[r] \cup todo[r] :
    /\ f \in Request => pc[f] \in Past
    /\ \A l \in links : l.file = f =>
         l.item = job[r].item /\ (job[r].op \in PhotoOps => l.kind = "person_photo")
    /\ job[r].op # "delete_item" => removed[r] \cup todo[r] = {f}

\* An upload, a rename and a read delete nothing.
Harmless == {"upload_attachment", "rename_attachment", "get_file_content"}
NoDeletions == \A r \in Request : job[r].op \in Harmless => removed[r] = {}

WholeInv == PhotoInv /\ OpSteps /\ OwnAdditions /\ OwnDeletions /\ NoDeletions

\* A file found for the deletion that r was asked for.
Found(r, f) ==
  \E l \in links : /\ l.file = f /\ l.item = job[r].item
                   /\ job[r].op \in PhotoOps => l.kind = "person_photo"

\* What a step of a use case does to the deletions and insertions of its request.
WholeEffect(r) ==
  /\ job' = job
  /\ todo' = [todo EXCEPT ![r] = todo'[r]]
  /\ pc'[r] \in {"item", "files"} => todo'[r] = {} /\ removed'[r] = {}
  /\ pc'[r] = "insert" => job[r].op \in Uploads
  /\ pc'[r] \in {"files", "lock", "remove"} => job[r].op # "upload_attachment"
  /\ pc'[r] \in {"lock", "remove"} => job[r].op # "get_file_content"
  /\ pc'[r] = "remove" => job[r].op # "rename_attachment"
  /\ added'[r] \subseteq added[r] \/ (added'[r] = {NewLink(r)} /\ job[r].op \in Uploads)
  /\ removed'[r] \subseteq removed[r] \/ job[r].op \notin Harmless
  /\ \/ removed'[r] \cup todo'[r] \subseteq removed[r] \cup todo[r]
     \/ /\ removed'[r] = {}
        /\ \A f \in todo'[r] : /\ Found(r, f)
                               /\ job[r].op # "delete_item" => todo'[r] = {f}

\* Every step of a use case has that effect.
LEMMA HandlerWhole ==
  ASSUME WholeInv, NEW r \in Request, Handle(r)
  PROVE  WholeEffect(r)
<1>. IInv /\ TypeOK
  BY DEF WholeInv, PhotoInv, IInv
<1>0. ASSUME NEW how \in TxStates, Raise(r, how), UNCHANGED job PROVE WholeEffect(r)
  BY <1>0 DEF WholeEffect, Raise, Goto, ClearTx, txn, TypeOK
<1>. DEFINE E == WholeEffect(r)
<1>1. ASSUME LoadItem(r) PROVE E
  BY <1>1, <1>0 DEF LoadItem, Goto, txn, WholeEffect, TypeOK, TxStates, WholeInv, OpSteps, Uploads
<1>2. ASSUME LoadFile(r) PROVE E
  <2>1. CASE Raise(r, "open")
    BY <1>2, <2>1, <1>0 DEF LoadFile, TxStates
  <2>2. CASE /\ Goto(r, "stream") /\ UNCHANGED <<todo, failed, txn>>
    BY <1>2, <2>2 DEF LoadFile, Goto, txn, WholeEffect, TypeOK
  <2>3. CASE /\ job[r].op # "get_file_content" /\ OneAttachment(job[r]) # {} /\ Goto(r, "lock")
             /\ todo' = [todo EXCEPT ![r] = {job[r].file}]
             /\ UNCHANGED <<failed, txn>>
    <3>1. job' = job /\ pc[r] = "files" /\ job[r].op \in FileOps
      BY <1>2 DEF LoadFile
    <3>2. Found(r, job[r].file)
      BY <2>3, <3>1 DEF OneAttachment, Found, FileOps, PhotoOps
    <3>3. removed'[r] = {} /\ added'[r] = added[r]
      BY <2>3, <3>1 DEF txn, WholeInv, OpSteps
    <3>. QED
      BY <2>3, <3>1, <3>2, <3>3 DEF Goto, WholeEffect, TypeOK, FileOps
  <2>. QED
    BY <1>2, <2>1, <2>2, <2>3 DEF LoadFile
<1>3. ASSUME ListFiles(r) PROVE E
  <2>. DEFINE ls == LinksOf(job[r].item)
              found == {l.file : l \in IF job[r].op = "delete_item" THEN ls ELSE Photos(ls)}
  <2>1. /\ pc[r] = "files" /\ job' = job /\ job[r].op \notin FileOps
        /\ job[r].op # "upload_attachment"
    BY <1>3 DEF ListFiles, WholeInv, OpSteps
  <2>2. CASE Raise(r, "open")
    BY <2>1, <2>2, <1>0 DEF TxStates
  <2>3. CASE /\ todo' = [todo EXCEPT ![r] = found] /\ UNCHANGED <<failed, txn>>
             /\ \E step \in {"lock", "item_row", "insert"} : Goto(r, step)
             /\ Goto(r, "insert") => job[r].op \in Uploads
    <3>1. \A f \in found : Found(r, f)
      BY DEF Found, LinksOf, Photos, PhotoOps
    <3>2. ASSUME job[r].op # "delete_item", NEW f \in found, NEW g \in found PROVE f = g
      BY <3>2 DEF LinksOf, Photos, WholeInv, PhotoInv, OnePhotoPerPerson
    <3>3. removed'[r] = {} /\ added'[r] = added[r] /\ todo'[r] = found
      BY <2>1, <2>3 DEF txn, WholeInv, OpSteps, TypeOK
    <3>4. \A f \in found : job[r].op # "delete_item" => found = {f}
      BY <3>2
    <3>. HIDE DEF found
    <3>5. /\ pc'[r] \in {"lock", "item_row", "insert"}
          /\ pc'[r] = "insert" => job[r].op \in Uploads
      BY <2>3 DEF Goto, TypeOK
    <3>6. todo' = [todo EXCEPT ![r] = todo'[r]]
      BY <2>3 DEF TypeOK
    <3>. QED
      BY <2>1, <3>1, <3>3, <3>4, <3>5, <3>6 DEF WholeEffect, FileOps
  <2>4. \/ job[r].op \in Uploads \/ job[r].op = "delete_item"
        \/ found # {} \/ job[r].op = "delete_person_photo"
    BY <2>1 DEF WholeInv, OpSteps, Operation, Uploads, PhotoOps
  <2>5. ASSUME ~Raise(r, "open")
        PROVE  /\ todo' = [todo EXCEPT ![r] = found] /\ UNCHANGED <<failed, txn>>
               /\ Goto(r, CASE found # {} -> "lock"
                             [] job[r].op = "delete_item" -> "item_row"
                             [] OTHER -> "insert")
               /\ ~(found = {} /\ job[r].op = "delete_person_photo")
    BY <1>3, <2>5 DEF ListFiles
  <2>. HIDE DEF found
  <2>6. ASSUME ~Raise(r, "open")
        PROVE  \/ Goto(r, "lock") \/ Goto(r, "item_row")
               \/ Goto(r, "insert") /\ job[r].op \in Uploads
    BY <2>4, <2>5, <2>6
  <2>7. "insert" # "lock" /\ "insert" # "item_row"
    OBVIOUS
  <2>8. ASSUME ~Raise(r, "open") PROVE Goto(r, "insert") => job[r].op \in Uploads
    BY <2>6, <2>7, <2>8 DEF Goto, TypeOK
  <2>. QED
    BY <2>2, <2>3, <2>5, <2>6, <2>8
<1>4. ASSUME LockFile(r) PROVE E
  BY <1>4 DEF LockFile, Goto, WholeEffect, TypeOK, WholeInv, OpSteps
<1>5. ASSUME RenameFile(r) PROVE E
  BY <1>5, <1>0 DEF RenameFile, Goto, WholeEffect, TypeOK, TxStates
<1>6. ASSUME RemoveFile(r) PROVE E
  <2>1. pc[r] = "remove" /\ job' = job /\ job[r].op \notin Harmless
    BY <1>6 DEF RemoveFile, WholeInv, OpSteps, Harmless
  <2>2. CASE Raise(r, "open")
    BY <2>1, <2>2, <1>0 DEF TxStates
  <2>3. CASE \E f \in NextFiles(r) :
               /\ removed' = [removed EXCEPT ![r] = @ \cup {f}]
               /\ todo' = [todo EXCEPT ![r] = @ \ {f}]
               /\ Goto(r, CASE todo[r] # {f} -> "lock"
                          [] job[r].op = "delete_item" -> "item_row"
                          [] job[r].op = "replace_person_photo" -> "insert"
                          [] OTHER -> "touch")
               /\ added' = added
    <3>1. PICK f \in NextFiles(r) :
               /\ removed' = [removed EXCEPT ![r] = @ \cup {f}]
               /\ todo' = [todo EXCEPT ![r] = @ \ {f}]
               /\ Goto(r, CASE todo[r] # {f} -> "lock"
                          [] job[r].op = "delete_item" -> "item_row"
                          [] job[r].op = "replace_person_photo" -> "insert"
                          [] OTHER -> "touch")
               /\ added' = added
      BY <2>3
    <3>2. f \in todo[r]
      BY DEF NextFiles
    <3>3. removed'[r] \cup todo'[r] \subseteq removed[r] \cup todo[r]
      BY <3>1, <3>2 DEF TypeOK
    <3>4. /\ pc'[r] \in {"lock", "item_row", "insert", "touch"}
          /\ pc'[r] = "insert" => job[r].op \in Uploads
      BY <3>1 DEF Goto, TypeOK, Uploads
    <3>5. todo' = [todo EXCEPT ![r] = todo'[r]]
      BY <3>1 DEF TypeOK
    <3>. QED
      BY <2>1, <3>1, <3>3, <3>4, <3>5 DEF WholeEffect, Harmless
  <2>. QED
    BY <1>6, <2>2, <2>3 DEF RemoveFile
<1>7. ASSUME RejectInput(r) PROVE E
  BY <1>7, <1>0 DEF RejectInput, TxStates
<1>8. ASSUME InsertFile(r) PROVE E
  BY <1>8, <1>0 DEF InsertFile, Goto, WholeEffect, TypeOK, TxStates, WholeInv, OpSteps
<1>9. ASSUME PutObject(r) \/ PutFails(r) \/ PutAnswerLost(r) PROVE E
  BY <1>9, <1>0 DEF PutObject, PutFails, PutAnswerLost, Goto, txn, WholeEffect, TypeOK, TxStates
<1>10. ASSUME TouchItem(r) PROVE E
  BY <1>10 DEF TouchItem, Return, Goto, txn, WholeEffect, TypeOK
<1>11. ASSUME DeleteItemRow(r) PROVE E
  BY <1>11, <1>0 DEF DeleteItemRow, Goto, txn, WholeEffect, TypeOK, TxStates
<1>12. ASSUME CheckRestrict(r) PROVE E
  BY <1>12, <1>0 DEF CheckRestrict, Return, Goto, txn, WholeEffect, TypeOK, TxStates
<1>13. ASSUME StreamFile(r) PROVE E
  BY <1>13, <1>0 DEF StreamFile, Return, Goto, txn, WholeEffect, TypeOK, TxStates
<1>14. ASSUME DatabaseError(r) \/ DeadlockVictim(r) PROVE E
  BY <1>14, <1>0 DEF DatabaseError, DeadlockVictim, StatementError, TxStates
<1>. QED
  BY <1>1, <1>2, <1>3, <1>4, <1>5, <1>6, <1>7, <1>8, <1>9, <1>10, <1>11, <1>12, <1>13, <1>14
     DEF Handle

\* Every step of a use case keeps what is known of the deletions and insertions put off.
LEMMA HandlerKeepsWhole ==
  ASSUME WholeInv, NEW r \in Request, Handle(r)
  PROVE  OpSteps' /\ OwnAdditions' /\ OwnDeletions' /\ NoDeletions'
<1>1. WholeEffect(r)
  BY HandlerWhole
<1>2. HandlerEffect(r)
  BY HandlerSteps DEF WholeInv, PhotoInv
<1>3. /\ UNCHANGED <<links, items, job>>
      /\ pc[r] \in Working
      /\ pc' = [pc EXCEPT ![r] = pc'[r]] /\ pc'[r] \in Working \cup {"exit"}
      /\ added' = [added EXCEPT ![r] = added'[r]]
      /\ removed' = [removed EXCEPT ![r] = removed'[r]]
      /\ todo' = [todo EXCEPT ![r] = todo'[r]]
  BY <1>1, <1>2 DEF HandlerEffect, WholeEffect
<1>. TypeOK /\ Working \cap Past = {} /\ "idle" \notin Working /\ "exit" \notin Past
  BY DEF WholeInv, PhotoInv, IInv, Working, Past, Finished
<1>4. OpSteps'
  BY <1>1, <1>3 DEF WholeEffect, WholeInv, OpSteps, TypeOK
<1>5. OwnAdditions'
  BY <1>1, <1>3 DEF WholeEffect, WholeInv, OwnAdditions, NewLink, TypeOK
<1>6. NoDeletions'
  BY <1>1, <1>3 DEF WholeEffect, WholeInv, NoDeletions, TypeOK
<1>7. OwnDeletions'
  <2>. SUFFICES ASSUME NEW q \in Request, NEW f \in removed'[q] \cup todo'[q]
                PROVE  /\ f \in Request => pc'[f] \in Past
                       /\ \A l \in links : l.file = f =>
                            l.item = job[q].item
                            /\ (job[q].op \in PhotoOps => l.kind = "person_photo")
                       /\ job[q].op # "delete_item" => removed'[q] \cup todo'[q] = {f}
    BY <1>3 DEF OwnDeletions
  <2>1. ASSUME f \in Request, pc[f] \in Past PROVE pc'[f] \in Past
    BY <1>3, <2>1 DEF TypeOK
  <2>2. CASE q # r \/ removed'[r] \cup todo'[r] \subseteq removed[r] \cup todo[r]
    <3>1. removed'[q] \cup todo'[q] \subseteq removed[q] \cup todo[q]
      BY <1>3, <2>2 DEF TypeOK
    <3>. QED
      BY <2>1, <3>1 DEF WholeInv, OwnDeletions
  <2>3. CASE /\ q = r /\ removed'[r] = {} /\ Found(r, f)
             /\ job[r].op # "delete_item" => todo'[r] = {f}
    <3>1. PICK l \in links : /\ l.file = f /\ l.item = job[r].item
                             /\ job[r].op \in PhotoOps => l.kind = "person_photo"
      BY <2>3 DEF Found
    <3>2. \A k \in links : k.file = f => k = l
      BY <3>1 DEF TypeOK
    <3>3. f \in Request => pc[f] \in Past
      BY <3>1 DEF WholeInv, PhotoInv, IInv, LinkedAfterCommit, Linked
    <3>. QED
      BY <2>1, <2>3, <3>1, <3>2, <3>3
  <2>. QED
    BY <1>1, <2>2, <2>3 DEF WholeEffect
<1>. QED
  BY <1>4, <1>5, <1>6, <1>7

\* A commit publishes only a file that nobody can have found before.
LEMMA CommitKeepsWhole ==
  ASSUME WholeInv, NEW r \in Request, Commit(r) \/ CommitAnswerLost(r)
  PROVE  OpSteps' /\ OwnAdditions' /\ OwnDeletions' /\ NoDeletions'
<1>1. /\ pc[r] = "exit" /\ UNCHANGED <<job, todo>>
      /\ pc' = [pc EXCEPT ![r] = pc'[r]] /\ pc'[r] \in Past
      /\ added' = [added EXCEPT ![r] = {}] /\ removed' = [removed EXCEPT ![r] = {}]
      /\ links' = {l \in links : l.file \notin removed[r]} \cup added[r]
  BY DEF Commit, CommitAnswerLost, Commits, Publish, ClearTx, Goto, WholeInv, PhotoInv, IInv,
     TypeOK, Past
<1>. TypeOK /\ "exit" \notin Past
     /\ Past \cap {"idle", "item", "files", "lock", "remove", "insert"} = {}
  BY DEF WholeInv, PhotoInv, IInv, Past, Finished
<1>2. OpSteps' /\ NoDeletions'
  BY <1>1 DEF WholeInv, OpSteps, NoDeletions, TypeOK
<1>3. OwnAdditions'
  BY <1>1 DEF WholeInv, OwnAdditions, NewLink, TypeOK
<1>4. OwnDeletions'
  <2>. SUFFICES ASSUME NEW q \in Request, NEW f \in removed'[q] \cup todo'[q]
                PROVE  /\ f \in Request => pc'[f] \in Past
                       /\ \A l \in links' : l.file = f =>
                            l.item = job[q].item
                            /\ (job[q].op \in PhotoOps => l.kind = "person_photo")
                       /\ job[q].op # "delete_item" => removed'[q] \cup todo'[q] = {f}
    BY <1>1 DEF OwnDeletions
  <2>1. removed'[q] \cup todo'[q] \subseteq removed[q] \cup todo[q]
    BY <1>1 DEF TypeOK
  <2>2. /\ f \in Request => pc[f] \in Past
        /\ \A l \in links : l.file = f =>
             l.item = job[q].item /\ (job[q].op \in PhotoOps => l.kind = "person_photo")
        /\ job[q].op # "delete_item" => removed[q] \cup todo[q] = {f}
    BY <2>1 DEF WholeInv, OwnDeletions
  <2>3. f # r
    BY <1>1, <2>2
  <2>4. \A l \in links' : l.file = f => l \in links
    BY <1>1, <2>3 DEF WholeInv, PhotoInv, IInv, OwnLinks
  <2>5. f \in Request => pc'[f] \in Past
    BY <1>1, <2>2 DEF TypeOK
  <2>. QED
    BY <2>1, <2>2, <2>4, <2>5
<1>. QED
  BY <1>2, <1>3, <1>4

\* The start of a call and the other ends of a transaction put off nothing new.
LEMMA OtherKeepsWhole ==
  ASSUME WholeInv, NEW r \in Request,
         \/ \E j \in Job : Begin(r, j)
         \/ Rollback(r) \/ CommitAborted(r) \/ CommitRaises(r) \/ Finish(r) \/ Crash(r)
         \/ RunRollbackAction(r) \/ RunPostCommitAction(r)
  PROVE  OpSteps' /\ OwnAdditions' /\ OwnDeletions' /\ NoDeletions'
<1>. TypeOK /\ {"idle", "item", "files", "lock", "remove", "insert"} \cap Past = {}
  BY DEF WholeInv, PhotoInv, IInv, Past, Finished
<1>1. CASE \E j \in Job : Begin(r, j)
  <2>1. PICK j \in Job : Begin(r, j)
    BY <1>1
  <2>2. /\ pc[r] = "idle" /\ job' = [job EXCEPT ![r] = j]
        /\ pc' = [pc EXCEPT ![r] = IF j.op = "get_file_content" THEN "files" ELSE "item"]
        /\ UNCHANGED <<links, todo, added, removed>>
    BY <2>1 DEF Begin, Goto, db
  <2>3. added[r] = {} /\ removed[r] = {} /\ todo[r] = {}
    BY <2>2 DEF WholeInv, OpSteps, PhotoInv, IInv, OwnLinks
  <2>4. /\ j.op \in Operation
        /\ pc'[r] = "item" \/ (pc'[r] = "files" /\ j.op = "get_file_content")
    BY <2>2, FilesAssumption DEF Job, TypeOK, Operation, FileOps
  <2>5. \A q \in Request : pc[q] \in Past => pc'[q] \in Past
    BY <2>2 DEF TypeOK
  <2>6. OpSteps'
    BY <2>2, <2>3, <2>4 DEF WholeInv, OpSteps, TypeOK
  <2>7. OwnAdditions' /\ NoDeletions'
    BY <2>2, <2>3 DEF WholeInv, OwnAdditions, NoDeletions, NewLink, TypeOK
  <2>8. OwnDeletions'
    BY <2>2, <2>3, <2>5 DEF WholeInv, OwnDeletions, TypeOK
  <2>. QED
    BY <2>6, <2>7, <2>8
<1>2. CASE \/ Rollback(r) \/ CommitAborted(r) \/ CommitRaises(r) \/ Finish(r) \/ Crash(r)
           \/ RunRollbackAction(r) \/ RunPostCommitAction(r)
  <2>1. /\ pc' = [pc EXCEPT ![r] = pc'[r]] /\ pc'[r] \in Past /\ pc[r] # "idle"
        /\ UNCHANGED <<job, links, todo>>
        /\ \/ UNCHANGED <<added, removed>>
           \/ added' = [added EXCEPT ![r] = {}] /\ removed' = [removed EXCEPT ![r] = {}]
    BY <1>2 DEF Rollback, CommitAborted, CommitRaises, Finish, Crash, RunRollbackAction,
       RunPostCommitAction, Commits, ClearTx, Goto, db, txn, TypeOK, Past, Finished
  <2>2. \A q \in Request : /\ added'[q] \subseteq added[q]
                           /\ removed'[q] \in {removed[q], {}}
                           /\ pc[q] \in Past => pc'[q] \in Past
                           /\ pc'[q] \notin Past => pc'[q] = pc[q]
                           /\ pc'[q] # "idle" => pc[q] # "idle"
    BY <2>1 DEF TypeOK
  <2>3. OpSteps'
    BY <2>1, <2>2 DEF WholeInv, OpSteps
  <2>4. OwnAdditions' /\ NoDeletions'
    BY <2>1, <2>2 DEF WholeInv, OwnAdditions, NoDeletions, NewLink
  <2>5. OwnDeletions'
    <3>. SUFFICES ASSUME NEW q \in Request, NEW f \in removed'[q] \cup todo'[q]
                  PROVE  /\ f \in Request => pc'[f] \in Past
                         /\ \A l \in links : l.file = f =>
                              l.item = job[q].item
                              /\ (job[q].op \in PhotoOps => l.kind = "person_photo")
                         /\ job[q].op # "delete_item" => removed'[q] \cup todo'[q] = {f}
      BY <2>1 DEF OwnDeletions
    <3>1. removed'[q] \cup todo'[q] \subseteq removed[q] \cup todo[q]
      BY <2>1, <2>2
    <3>2. /\ f \in Request => pc[f] \in Past
          /\ \A l \in links : l.file = f =>
               l.item = job[q].item /\ (job[q].op \in PhotoOps => l.kind = "person_photo")
          /\ job[q].op # "delete_item" => removed[q] \cup todo[q] = {f}
      BY <3>1 DEF WholeInv, OwnDeletions
    <3>. QED
      BY <2>2, <3>1, <3>2
  <2>. QED
    BY <2>3, <2>4, <2>5
<1>. QED
  BY <1>1, <1>2

\* Every step of the system keeps the invariant.
LEMMA StepWholeInv == WholeInv /\ [Next]_vars => WholeInv'
<1>. SUFFICES ASSUME WholeInv, [Next]_vars PROVE WholeInv'
  OBVIOUS
<1>1. PhotoInv'
  BY StepPhotoInv DEF WholeInv
<1>2. CASE UNCHANGED vars
  <2>1. UNCHANGED <<links, pc, job, todo, added, removed>>
    BY <1>2 DEF vars, db, txn
  <2>. QED
    BY <1>1, <2>1 DEF WholeInv, OpSteps, OwnAdditions, OwnDeletions, NoDeletions, NewLink
<1>3. CASE Next
  BY <1>1, <1>3, HandlerKeepsWhole, CommitKeepsWhole, OtherKeepsWhole DEF Next, Leave, WholeInv
<1>. QED
  BY <1>2, <1>3

\* Before any request nothing is put off.
LEMMA InitWholeInv == Init => WholeInv
<1>1. Init => PhotoInv
  BY InitIInv, FilesAssumption DEF Init, PhotoInv, ReplacesPersons, PendingPhotos,
     OnePhotoPerPerson, Photos
<1>. QED
  BY <1>1 DEF Init, WholeInv, OpSteps, OwnAdditions, OwnDeletions, NoDeletions

\* What a commit publishes is one operation of the storage that clients are promised, or
\* nothing, or, of a failed deletion, the loss of some files.
LEMMA CommitTakesEffect ==
  ASSUME WholeInv, ItemInv, NEW r \in Request, Commit(r)
  PROVE  \/ UNCHANGED db
         \/ \E f \in File, i \in Item : Store!Attach(f, i) \/ Store!SetPhoto(f, i)
         \/ \E l \in links : Store!Remove(l)
         \/ \E i \in Item : Store!RemoveItem(i) \/ (FALSE \in Delivery /\ Store!RemoveSome(i))
<1>. DEFINE i == job[r].item
<1>1. /\ pc[r] = "exit" /\ (failed[r] => FALSE \in Delivery)
      /\ links' = {l \in links : l.file \notin removed[r]} \cup added[r]
      /\ items' = IF HasDeletedItem(r) THEN items \ {i} ELSE items
      /\ HasDeletedItem(r) <=> job[r].op = "delete_item" /\ ~failed[r]
  BY DEF Commit, Commits, Publish, HasDeletedItem
<1>. /\ TypeOK /\ "exit" \notin Past /\ r \in File
  BY DEF WholeInv, PhotoInv, IInv, Past, Finished, File
<1>2. /\ r \notin Store!FilesOf(links)
      /\ \A l \in links : l.file \in removed[r] => l.item = i
  BY <1>1 DEF Store!FilesOf, WholeInv, OwnDeletions, PhotoInv, IInv, LinkedAfterCommit, Linked
<1>6. CASE job[r].op = "delete_item" /\ failed[r]
  <2>1. added[r] = {}
    BY <1>6 DEF WholeInv, OwnAdditions, Uploads
  <2>. DEFINE gone == {l \in links : l.file \in removed[r]}
  <2>2. links' = links \ gone /\ items' = items
    BY <1>1, <1>6, <2>1 DEF TypeOK
  <2>3. CASE gone = {}
    BY <2>2, <2>3 DEF db
  <2>4. CASE gone # {}
    <3>1. i \in Item /\ gone \in SUBSET {l \in links : l.item = i}
      BY <1>2, <2>4 DEF TypeOK, Link
    <3>2. Store!RemoveSome(i)
      BY <2>2, <3>1 DEF Store!RemoveSome
    <3>. QED
      BY <1>1, <1>6, <3>1, <3>2
  <2>. QED
    BY <2>3, <2>4
<1>3. CASE job[r].op = "delete_item" /\ ~failed[r]
  <2>1. added[r] = {}
    BY <1>3 DEF WholeInv, OwnAdditions, Uploads
  <2>2. \A l \in links : l.item = i => l.file \in removed[r]
    BY <1>1, <1>3 DEF ItemInv, DeletesAllFiles, HasDeletedItem, LinksOf
  <2>3. links' = {l \in links : l.item # i}
    BY <1>1, <1>2, <2>1, <2>2
  <2>4. CASE i \in items
    BY <1>1, <1>3, <2>3, <2>4 DEF Store!RemoveItem, TypeOK
  <2>5. CASE i \notin items
    <3>1. links' = links
      BY <2>3, <2>5 DEF ItemInv, LinksHaveItems
    <3>. QED
      BY <1>1, <2>5, <3>1 DEF db
  <2>. QED
    BY <2>4, <2>5
<1>4. CASE job[r].op # "delete_item" /\ added[r] = {}
  <2>1. CASE removed[r] \cap Linked = {}
    BY <1>1, <1>4, <2>1 DEF Linked, db
  <2>2. CASE removed[r] \cap Linked # {}
    <3>1. PICK l \in links : l.file \in removed[r]
      BY <2>2 DEF Linked
    <3>2. removed[r] = {l.file}
      BY <1>4, <3>1 DEF WholeInv, OwnDeletions
    <3>3. links' = links \ {l}
      BY <1>1, <1>4, <3>2 DEF TypeOK
    <3>. QED
      BY <1>1, <1>4, <3>1, <3>3 DEF Store!Remove
  <2>. QED
    BY <2>1, <2>2
<1>5. CASE job[r].op # "delete_item" /\ added[r] # {}
  <2>1. /\ added[r] = {NewLink(r)} /\ job[r].op \in Uploads
        /\ NewLink(r).item = i /\ i \in items /\ i \in Item
    BY <1>5 DEF WholeInv, OwnAdditions, PhotoInv, IInv, OwnLinks, ItemInv, PendingFiles, NewLink,
       TypeOK
  <2>2. CASE job[r].op = "upload_attachment"
    <3>1. NewLink(r) = [file |-> r, item |-> i, kind |-> "attachment"]
      BY <2>2 DEF NewLink, NewKind
    <3>2. removed[r] = {}
      BY <2>2 DEF WholeInv, NoDeletions, Harmless
    <3>3. links' = links \cup {[file |-> r, item |-> i, kind |-> "attachment"]}
      BY <1>1, <2>1, <3>1, <3>2
    <3>4. Store!Attach(r, i)
      BY <1>1, <1>2, <1>5, <2>1, <3>3 DEF Store!Attach
    <3>. QED
      BY <2>1, <3>4
  <2>3. CASE job[r].op = "replace_person_photo"
    <3>1. NewLink(r) = [file |-> r, item |-> i, kind |-> "person_photo"]
      BY <2>3 DEF NewLink, NewKind
    <3>2. /\ i \in Person
          /\ \A l \in links : l.item = i /\ l.kind = "person_photo" => l.file \in removed[r]
      BY <2>1, <3>1 DEF WholeInv, PhotoInv, PendingPhotos, Photos, LinksOf
    <3>3. \A l \in links : l.file \in removed[r] => l.item = i /\ l.kind = "person_photo"
      BY <2>3 DEF WholeInv, OwnDeletions, PhotoOps
    <3>4. links' = {l \in links : ~(l.item = i /\ l.kind = "person_photo")}
                   \cup {[file |-> r, item |-> i, kind |-> "person_photo"]}
      BY <1>1, <2>1, <3>1, <3>2, <3>3
    <3>5. Store!SetPhoto(r, i)
      BY <1>1, <1>2, <1>5, <2>1, <3>2, <3>4 DEF Store!SetPhoto
    <3>. QED
      BY <2>1, <3>5
  <2>. QED
    BY <2>1, <2>2, <2>3 DEF Uploads
<1>. QED
  BY <1>3, <1>4, <1>5, <1>6

\* No other step changes the rows, and none but a commit whose answer is lost tears.
LEMMA OnlyCommitsChangeRows ==
  ASSUME "commit_unknown" \notin Faults, IInv, NEW r \in Request,
         (\E j \in Job : Begin(r, j)) \/ Handle(r) \/ Leave(r) \/ Crash(r)
  PROVE  torn' = torn /\ (Commit(r) \/ UNCHANGED db)
<1>1. CASE Handle(r)
  BY <1>1, HandlerSteps DEF HandlerEffect, db
<1>2. CASE ~Handle(r)
  BY <1>2 DEF Begin, Leave, Rollback, Commit, CommitAborted, CommitRaises, CommitAnswerLost,
     RunRollbackAction, RunPostCommitAction, Finish, Crash, hist
<1>. QED
  BY <1>1, <1>2

\* The invariant under which every step is a step of the promised storage.
StoreInv == WholeInv /\ ItemInv /\ ObjInv /\ torn = {}

\* Every step keeps it, if no answer to a commit is lost.
LEMMA StepStoreInv ==
  ASSUME "commit_unknown" \notin Faults, StoreInv, [Next]_vars
  PROVE  StoreInv'
<1>1. WholeInv' /\ ItemInv' /\ ObjInv'
  BY StepWholeInv, StepItemInv, StepObjInv DEF StoreInv
<1>2. CASE Next
  BY <1>1, <1>2, OnlyCommitsChangeRows DEF Next, StoreInv, ObjInv
<1>3. CASE UNCHANGED vars
  BY <1>1, <1>3 DEF vars, hist, StoreInv
<1>. QED
  BY <1>2, <1>3

\* A step that changes no row changes no object of a row either.
LEMMA OthersKeepReadable ==
  ASSUME StoreInv, NEW r \in Request, UNCHANGED db,
         (\E j \in Job : Begin(r, j)) \/ Handle(r) \/ Leave(r) \/ Crash(r)
  PROVE  (Linked \cap objects)' = Linked \cap objects
<1>. IInv
  BY DEF StoreInv, ObjInv
<1>1. Linked' = Linked
  BY DEF Linked, db
<1>2. CASE Handle(r)
  <2>1. objects \subseteq objects' /\ objects' \subseteq objects \cup {r}
    <3>1. objects' \subseteq objects \cup {r}
      BY <1>2 DEF Handle, LoadItem, LoadFile, ListFiles, LockFile, RenameFile, RemoveFile,
         RejectInput, InsertFile, PutObject, PutFails, PutAnswerLost, TouchItem, DeleteItemRow,
         CheckRestrict, StreamFile, DatabaseError, DeadlockVictim, StatementError
    <3>. QED
      BY <1>2, <3>1, HandlerObjects DEF ObjectEffect
  <2>. QED
    BY <1>1, <1>2, <2>1, LinkedHaveEnded
<1>3. CASE RunRollbackAction(r) \/ RunPostCommitAction(r)
  <2>1. \A f \in objects \ objects' : f \notin Linked
    BY <1>3, CleanupObjects DEF StoreInv
  <2>2. objects' \subseteq objects
    BY <1>3 DEF RunRollbackAction, RunPostCommitAction, Cleanup
  <2>. QED
    BY <1>1, <2>1, <2>2
<1>4. CASE Crash(r)
  <2>1. objects' \in {objects, IF pc[r] = "put" THEN objects \cup {r} ELSE objects}
    BY <1>4 DEF Crash
  <2>2. pc[r] = "put" => r \notin Linked
    BY DEF IInv, LinkedAfterCommit, Past, Finished
  <2>. QED
    BY <1>1, <2>1, <2>2
<1>5. CASE \/ \E j \in Job : Begin(r, j)
           \/ Rollback(r) \/ Commit(r) \/ CommitAborted(r) \/ CommitRaises(r)
           \/ CommitAnswerLost(r) \/ Finish(r)
  BY <1>1, <1>5 DEF Begin, Rollback, Commit, CommitAborted, CommitRaises, CommitAnswerLost, Finish
<1>. QED
  BY <1>2, <1>3, <1>4, <1>5 DEF Leave

\* A commit makes its upload readable, unless the handler failed.
LEMMA CommitReadable ==
  ASSUME StoreInv, NEW r \in Request, Commit(r)
  PROVE  Store!Readable
<1>1. /\ pc[r] = "exit" /\ (failed[r] => FALSE \in Delivery)
      /\ links' = {l \in links : l.file \notin removed[r]} \cup added[r]
      /\ objects' = objects
  BY DEF Commit, Commits, Publish
<1>. DEFINE old == (Linked \cap objects) \cap Store!FilesOf(links')
            new == Store!FilesOf(links') \ Store!FilesOf(links)
<1>2. /\ Linked = Store!FilesOf(links) /\ Linked' = Store!FilesOf(links')
      /\ (Linked \cap objects)' = Linked' \cap objects
  BY <1>1 DEF Linked, Store!FilesOf
<1>3. new \subseteq {r} /\ (new # {} => added[r] # {})
  BY <1>1 DEF Store!FilesOf, StoreInv, ObjInv, IInv, OwnLinks
<1>4. (Linked \cap objects)' = old \cup (new \cap objects)
  BY <1>2
<1>5. CASE failed[r]
  <2>1. new \cap objects = {} \/ new \cap objects = new
    BY <1>3
  <2>2. (Linked \cap objects)' = old \cup new \/ (Linked \cap objects)' = old
    BY <1>4, <2>1
  <2>. QED
    BY <1>1, <1>5, <2>2 DEF Store!Readable
<1>6. CASE ~failed[r]
  <2>1. new \subseteq objects
    BY <1>1, <1>3, <1>6 DEF StoreInv, ObjInv, StoredBeforeCommit
  <2>2. (Linked \cap objects)' = old \cup new
    BY <1>4, <2>1
  <2>. QED
    BY <2>2 DEF Store!Readable
<1>. QED
  BY <1>5, <1>6

\* Every step of the request handlers maps to a step of the promised storage or to none.
LEMMA StepRefines ==
  ASSUME "commit_unknown" \notin Faults, StoreInv, [Next]_vars
  PROVE  [Store!Next]_(Store!vars)
<1>1. CASE UNCHANGED vars
  BY <1>1 DEF vars, db, Store!vars, Linked
<1>2. CASE Next
  <2>1. PICK r \in Request :
          (\E j \in Job : Begin(r, j)) \/ Handle(r) \/ Leave(r) \/ Crash(r)
    BY <1>2 DEF Next
  <2>2. CASE UNCHANGED db
    BY <2>1, <2>2, OthersKeepReadable DEF db, Store!vars
  <2>3. CASE Commit(r) /\ ~UNCHANGED db
    <3>1. \/ \E f \in File, i \in Item : Store!Attach(f, i) \/ Store!SetPhoto(f, i)
          \/ \E l \in links : Store!Remove(l)
          \/ \E i \in Item : Store!RemoveItem(i) \/ (FALSE \in Delivery /\ Store!RemoveSome(i))
      BY <2>3, CommitTakesEffect DEF StoreInv
    <3>2. Store!Readable
      BY <2>3, CommitReadable
    <3>. QED
      BY <3>1, <3>2 DEF Store!Next
  <2>. QED
    BY <2>1, <2>2, <2>3, OnlyCommitsChangeRows DEF StoreInv, ObjInv
<1>. QED
  BY <1>1, <1>2

\* The request handlers implement the file storage that clients are promised, when the answer
\* to a commit is never lost: whatever else fails and however uploads, replacements and
\* deletions race, each call takes effect as a whole or not at all and every listed file can be
\* read, if every failure reaches the provider; if not, a failed call may leave an attachment
\* or a photo that cannot be read, or the loss of some files of the item it was to delete.
THEOREM StoreRefined ==
  ASSUME "commit_unknown" \notin Faults
  PROVE  Spec => AllOrNothing
<1>1. Init => StoreInv
  <2>1. Init => ItemInv
    BY InitIInv, FilesAssumption DEF Init, ItemInv, DeletionSteps, PendingFiles, DeletesAllFiles,
       HasDeletedItem, LinksHaveItems, NoJob
  <2>2. Init => ObjInv
    BY InitIInv DEF Init, ObjInv, StoredBeforeCommit, ReferencedObjectsStored, Linked
  <2>. QED
    BY <2>1, <2>2, InitWholeInv DEF Init, StoreInv
<1>2. StoreInv /\ [Next]_vars => StoreInv'
  BY StepStoreInv
<1>3. Init => Store!Init
  BY DEF Init, Store!Init, Store!FilesOf, Linked
<1>4. StoreInv /\ [Next]_vars => [Store!Next]_(Store!vars)
  BY StepRefines
<1>. QED
  BY <1>1, <1>2, <1>3, <1>4, PTL DEF Spec, AllOrNothing, Store!Spec

-----------------------------------------------------------------------------
(* What failed calls leave.                                                 *)

\* A call that deletes one file has nothing to delete by the time it can still fail without
\* breaking its transaction.
OneDeletion == {"delete_attachment", "delete_person_photo"}
SingleDeletions ==
  \A r \in Request :
    job[r].op \in OneDeletion /\ removed[r] # {}
      => pc[r] = "touch" \/ (pc[r] = "exit" /\ ~failed[r])

PartInv == WholeInv /\ OrphanInv /\ SingleDeletions

\* A handler that raises with its transaction open has not got past the deletion.
LEMMA HandlerSingle ==
  ASSUME PartInv, NEW r \in Request, Handle(r)
  PROVE  SingleDeletions'
<1>1. HandlerEffect(r) /\ WholeEffect(r) /\ UploadEffect(r)
  BY HandlerSteps, HandlerWhole, HandlerUploads DEF PartInv, OrphanInv
<1>. TypeOK /\ ~failed[r] /\ pc[r] \in Working
  BY <1>1 DEF PartInv, OrphanInv, IInv, FailureEndsHandler, HandlerEffect
<1>2. ASSUME job[r].op \in OneDeletion, removed'[r] # {}
      PROVE  pc'[r] = "touch" \/ (pc'[r] = "exit" /\ ~failed'[r])
  <2>1. CASE pc[r] = "touch"
    BY <1>1, <1>2, <2>1 DEF Handle, LoadItem, LoadFile, ListFiles, LockFile, RenameFile,
       RemoveFile, RejectInput, InsertFile, PutObject, PutFails, PutAnswerLost, TouchItem,
       DeleteItemRow, CheckRestrict, StreamFile, DatabaseError, DeadlockVictim, StatementError,
       Raise, Return, Goto, ClearTx, TypeOK
  <2>2. CASE pc[r] # "touch"
    <3>1. removed[r] = {}
      BY <1>2, <2>2 DEF PartInv, SingleDeletions, Working
    <3>2. RemoveFile(r) /\ ~Raise(r, "open")
      <4>1. ASSUME NEW how \in {"open", "aborted", "deactivated"}, Raise(r, how) PROVE FALSE
        BY <1>2, <3>1, <4>1 DEF Raise, ClearTx, txn, TypeOK
      <4>2. ~UNCHANGED removed
        BY <1>2, <3>1
      <4>. QED
        BY <4>1, <4>2 DEF Handle, LoadItem, LoadFile, ListFiles, LockFile, RenameFile,
           RejectInput, InsertFile, PutObject, PutFails, PutAnswerLost, TouchItem,
           DeleteItemRow, CheckRestrict, StreamFile, DatabaseError, DeadlockVictim,
           StatementError, txn
    <3>3. PICK f \in NextFiles(r) :
            Goto(r, CASE todo[r] # {f} -> "lock"
                      [] job[r].op = "delete_item" -> "item_row"
                      [] job[r].op = "replace_person_photo" -> "insert"
                      [] OTHER -> "touch")
      BY <3>2 DEF RemoveFile
    <3>4. todo[r] = {f}
      <4>1. f \in todo[r] /\ job[r].op # "delete_item"
        BY <1>2 DEF NextFiles, OneDeletion
      <4>. QED
        BY <3>1, <4>1 DEF PartInv, WholeInv, OwnDeletions
    <3>. QED
      BY <1>2, <3>3, <3>4 DEF Goto, OneDeletion, TypeOK
  <2>. QED
    BY <2>1, <2>2
<1>3. ASSUME NEW q \in Request, q # r
      PROVE  job'[q] = job[q] /\ removed'[q] = removed[q] /\ pc'[q] = pc[q] /\ failed'[q] = failed[q]
  BY <1>1, <1>3 DEF HandlerEffect, WholeEffect, UploadEffect, TypeOK
<1>4. job' = job
  BY <1>1 DEF WholeEffect
<1>. QED
  BY <1>2, <1>3, <1>4 DEF PartInv, SingleDeletions

\* Every step of the system keeps the invariant.
LEMMA StepPartInv ==
  ASSUME PartInv, [Next]_vars
  PROVE  PartInv'
<1>1. WholeInv' /\ OrphanInv'
  BY StepWholeInv, StepOrphanInv DEF PartInv
<1>. TypeOK
  BY DEF PartInv, OrphanInv, IInv
<1>2. CASE UNCHANGED vars
  BY <1>1, <1>2 DEF vars, txn, PartInv, SingleDeletions
<1>3. ASSUME NEW r \in Request,
             (\E j \in Job : Begin(r, j)) \/ Leave(r) \/ Crash(r)
      PROVE  SingleDeletions'
  <2>1. CASE \E j \in Job : Begin(r, j)
    BY <2>1 DEF Begin, Goto, PartInv, WholeInv, OpSteps, SingleDeletions, TypeOK
  <2>2. CASE RunRollbackAction(r) \/ RunPostCommitAction(r)
    BY <2>2 DEF RunRollbackAction, RunPostCommitAction, txn, PartInv, SingleDeletions
  <2>3. CASE Finish(r)
    BY <2>3 DEF Finish, Goto, txn, PartInv, SingleDeletions, TypeOK
  <2>4. CASE Rollback(r) \/ Commit(r) \/ CommitAborted(r) \/ CommitRaises(r)
             \/ CommitAnswerLost(r) \/ Crash(r)
    <3>1. /\ removed' = [removed EXCEPT ![r] = {}] /\ pc' = [pc EXCEPT ![r] = pc'[r]]
          /\ UNCHANGED <<job, failed>>
      BY <2>4 DEF Rollback, Commit, CommitAborted, CommitRaises, CommitAnswerLost, Crash,
         ClearTx, Goto, TypeOK
    <3>. QED
      BY <3>1 DEF PartInv, SingleDeletions, TypeOK
  <2>. QED
    BY <1>3, <2>1, <2>2, <2>3, <2>4 DEF Leave
<1>. QED
  BY <1>1, <1>2, <1>3, HandlerSingle DEF PartInv, Next

\* Whatever fails and however failures are delivered, a call whose handler failed leaves at
\* most its own upload, the loss of some files of the item it was to delete, or that of the
\* photo it was to replace.
THEOREM FailedCallsKeepTheRest == Spec => FailedCallsLeavePart
<1>1. Init => PartInv
  BY InitWholeInv, InitOrphanInv DEF Init, PartInv, SingleDeletions
<1>2. PartInv /\ [Next]_vars => PartInv'
  BY StepPartInv
<1>3. PartInv /\ [Next]_vars =>
        [\A r \in Request :
           pc[r] = "exit" /\ failed[r] /\ pc'[r] # "exit" =>
             /\ items' = items
             /\ links' \ links \subseteq {NewLink(r)}
             /\ \A l \in links \ links' : LosesFile(r, l)]_vars
  <2>. SUFFICES ASSUME PartInv, Next,
                       NEW r \in Request, pc[r] = "exit", failed[r], pc'[r] # "exit"
                PROVE  /\ items' = items
                       /\ links' \ links \subseteq {NewLink(r)}
                       /\ \A l \in links \ links' : LosesFile(r, l)
    OBVIOUS
  <2>. IInv /\ TypeOK
    BY DEF PartInv, OrphanInv, IInv
  <2>1. PICK q \in Request :
          (\E j \in Job : Begin(q, j)) \/ Handle(q) \/ Leave(q) \/ Crash(q)
    BY DEF Next
  <2>2. CASE Handle(q)
    BY <2>2, HandlerSteps DEF HandlerEffect
  <2>3. CASE Commit(q) \/ CommitAnswerLost(q)
    <3>1. /\ pc' = [pc EXCEPT ![q] = pc'[q]]
          /\ links' = {l \in links : l.file \notin removed[q]} \cup added[q]
          /\ items' = IF HasDeletedItem(q) THEN items \ {job[q].item} ELSE items
      BY <2>3 DEF Commit, CommitAnswerLost, Publish, Goto
    <3>2. q = r
      BY <3>1 DEF TypeOK
    <3>3. items' = items
      BY <3>1, <3>2 DEF HasDeletedItem
    <3>4. links' \ links \subseteq {NewLink(r)}
      BY <3>1, <3>2 DEF PartInv, WholeInv, OwnAdditions
    <3>5. ASSUME NEW l \in links \ links' PROVE LosesFile(r, l)
      <4>1. l.file \in removed[r]
        BY <3>1, <3>2
      <4>2. /\ l.item = job[r].item
            /\ job[r].op \in PhotoOps => l.kind = "person_photo"
        BY <4>1 DEF PartInv, WholeInv, OwnDeletions
      <4>3. job[r].op \in {"delete_item", "replace_person_photo"}
        BY <4>1 DEF PartInv, SingleDeletions, OneDeletion, WholeInv, NoDeletions, Harmless,
           OpSteps, Operation, Uploads, PhotoOps, FileOps
      <4>. QED
        BY <4>2, <4>3 DEF LosesFile, PhotoOps
    <3>. QED
      BY <3>3, <3>4, <3>5
  <2>4. CASE \/ \E j \in Job : Begin(q, j)
             \/ Rollback(q) \/ CommitAborted(q) \/ CommitRaises(q) \/ Finish(q) \/ Crash(q)
             \/ RunRollbackAction(q) \/ RunPostCommitAction(q)
    BY <2>4 DEF Begin, Rollback, CommitAborted, CommitRaises, Finish, Crash, RunRollbackAction,
       RunPostCommitAction, db
  <2>. QED
    BY <2>1, <2>2, <2>3, <2>4 DEF Leave
<1>. QED
  BY <1>1, <1>2, <1>3, PTL DEF Spec, FailedCallsLeavePart
=============================================================================
