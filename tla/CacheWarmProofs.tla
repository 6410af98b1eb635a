--------------------------- MODULE CacheWarmProofs ---------------------------
(***************************************************************************)
(* Proofs about CacheWarm, for any number of operations, workers, targets  *)
(* and deliveries, any time to live and any faults.                        *)
(***************************************************************************)
EXTENDS CacheWarm, FiniteSetTheorems, TLAPS

-----------------------------------------------------------------------------
(* The inductive invariant: what the call, the message, the workers and     *)
(* the records of one operation know of each other.                         *)

\* Until its call has sent it, an operation has no message and at most a fresh record.
Unsent ==
  \A op \in Op :
    /\ caller[op] \in {"idle", "create", "point", "send"} =>
         stream[op] = "none" /\ status[op] \in {"none", "queued"}
    /\ caller[op] \in {"idle", "create"} => status[op] = "none" /\ newest # op

\* No worker has an operation whose message has not been handed out.
Undelivered ==
  \A op \in Op :
    /\ stream[op] \in {"none", "waiting"} <=> deliveries[op] = 0
    /\ deliveries[op] = 0 => \A w \in Worker : job[w] # op

\* Whoever has got past the first update of a record has not left it queued.
Started == {"renew_run", "warm", "succeed", "fail", "renew_end", "ack"}
NotQueued ==
  \A op \in Op \ cut :
    /\ caller[op] = "renew" => status[op] # "queued"
    /\ \A w \in Worker : pc[w] \in Started /\ job[w] = op => status[op] # "queued"

\* A failure is recorded only after something raised.
Raised ==
  /\ \A op \in Op : caller[op] = "record" => op \in raised
  /\ \A w \in Worker : pc[w] = "fail" => job[w] \in raised

\* What a worker has no longer to write is in the cache, or was removed since.
Filled ==
  \A w \in Worker : pc[w] \in {"renew_run", "warm", "succeed"} =>
    /\ Target \subseteq todo[w] \cup cache \cup removed[job[w]]
    /\ pc[w] = "succeed" => todo[w] = {}

\* A record lives from its creation until it lapses, and the latest key survives while a
\* record is being updated, which may start the time of the record before its own.
LatestKept ==
  \A op \in Op \ (lapsed \cup cut) :
    /\ caller[op] \notin {"idle", "create"} => life[op] >= 1
    /\ op = newest => /\ latest = op /\ latestLife >= 1
                      /\ BetweenUpdates(op) => latestLife >= life[op]

\* A message that was delivered once, by a call that knew it, has one worker, which alone
\* records the end.
Single ==
  \A op \in Op \ unsure : deliveries[op] <= 1 =>
    /\ \A w, v \in Worker : job[w] = op /\ job[v] = op => w = v
    /\ status[op] \in Ended => /\ stream[op] # "waiting"
                               /\ \A w \in Worker : job[w] = op => pc[w] \in {"renew_end", "ack"}
    /\ caller[op] \in {"record", "renew"} => stream[op] = "none"
    /\ caller[op] = "record" => status[op] \notin Ended

IInv == /\ TypeOK /\ Unsent /\ Undelivered /\ NotQueued /\ Raised /\ Filled /\ LatestKept /\ Single

-----------------------------------------------------------------------------
(* Types.                                                                   *)

\* No record, no message and no worker at work are well typed.
LEMMA InitTypeOK == Init => TypeOK
BY CacheWarmAssumption DEF Init, TypeOK, Status, CallerSteps, WorkerSteps

\* Every step keeps every variable in its type.
LEMMA StepTypeOK == TypeOK /\ Undelivered /\ [Next]_vars => TypeOK'
<1>. SUFFICES ASSUME TypeOK, Undelivered, [Next]_vars PROVE TypeOK'
  OBVIOUS
<1>. USE CacheWarmAssumption
<1>1. ASSUME Tick PROVE TypeOK'
  BY <1>1 DEF Tick, Left, Expired, LatestExpiresAmid, TypeOK, Status, queue, workers
<1>2. ASSUME Clear PROVE TypeOK'
  BY <1>2 DEF Clear, TypeOK, records, queue, workers
<1>3. ASSUME NEW op \in Op, Begin(op) PROVE TypeOK'
  BY <1>3 DEF Begin, Call, TypeOK, CallerSteps, records, queue, workers, hist
<1>4. ASSUME NEW op \in Op, Create(op) PROVE TypeOK'
  BY <1>4 DEF Create, Record, Call, TypeOK, Status, Busy, CallerSteps, queue, workers
<1>5. ASSUME NEW op \in Op, PointLatest(op) PROVE TypeOK'
  BY <1>5 DEF PointLatest, Call, TypeOK, CallerSteps, queue, workers
<1>6. ASSUME NEW op \in Op, Send(op) PROVE TypeOK'
  BY <1>6 DEF Send, Call, TypeOK, CallerSteps, records, workers, hist
<1>7. ASSUME NEW op \in Op, SendFails(op) PROVE TypeOK'
  BY <1>7 DEF SendFails, Call, TypeOK, CallerSteps, records, workers
<1>8. ASSUME NEW op \in Op, RecordRefusal(op) PROVE TypeOK'
  BY <1>8
  DEF RecordRefusal, Record, Call, TypeOK, Status, Ended, CallerSteps, queue, workers, hist
<1>9. ASSUME NEW op \in Op, RenewRefusal(op) PROVE TypeOK'
  BY <1>9 DEF RenewRefusal, RenewLatest, Call, TypeOK, CallerSteps, queue, workers, hist
<1>10. ASSUME NEW op \in Op, CutCall(op) PROVE TypeOK'
  BY <1>10 DEF CutCall, Call, TypeOK, CallerSteps, records, queue, workers
<1>11. ASSUME NEW w \in Worker, NEW op \in Op, deliveries[op] < MaxDeliveries, Hand(w, op)
       PROVE  TypeOK'
  BY <1>11 DEF Hand, Goto, TypeOK, WorkerSteps, records, hist
<1>12. ASSUME NEW w \in Worker, GetOperation(w) PROVE TypeOK'
  BY <1>12 DEF GetOperation, Goto, TypeOK, WorkerSteps, records, queue, hist
<1>13. ASSUME NEW w \in Worker, MarkRunning(w) PROVE TypeOK'
  BY <1>13 DEF MarkRunning, Record, Goto, TypeOK, Status, Busy, WorkerSteps, queue, hist
<1>14. ASSUME NEW w \in Worker, Renew(w) PROVE TypeOK'
  BY <1>14 DEF Renew, RenewLatest, Goto, TypeOK, WorkerSteps, queue, hist
<1>15. ASSUME NEW w \in Worker, WriteTarget(w) PROVE TypeOK'
  BY <1>15 DEF WriteTarget, Goto, TypeOK, WorkerSteps, records, queue, hist
<1>16. ASSUME NEW w \in Worker, WarmFails(w) PROVE TypeOK'
  BY <1>16 DEF WarmFails, Goto, TypeOK, WorkerSteps, records, queue
<1>17. ASSUME NEW w \in Worker, RecordEnd(w) PROVE TypeOK'
  BY <1>17 DEF RecordEnd, Record, Goto, TypeOK, Status, Ended, WorkerSteps, queue, hist
<1>18. ASSUME NEW w \in Worker, Acknowledge(w) PROVE TypeOK'
  BY <1>18 DEF Acknowledge, Rest, Goto, TypeOK, WorkerSteps, records, hist
<1>19. ASSUME NEW w \in Worker, CutWork(w) PROVE TypeOK'
  BY <1>19 DEF CutWork, Goto, TypeOK, WorkerSteps, records, queue
<1>20. ASSUME NEW w \in Worker, Crash(w) PROVE TypeOK'
  BY <1>20 DEF Crash, Rest, Goto, TypeOK, WorkerSteps, records, queue
<1>21. CASE UNCHANGED vars
  BY <1>21 DEF vars, records, queue, workers, hist, TypeOK
<1>. QED
  BY <1>1, <1>2, <1>3, <1>4, <1>5, <1>6, <1>7, <1>8, <1>9, <1>10, <1>11, <1>12, <1>13,
     <1>14, <1>15, <1>16, <1>17, <1>18, <1>19, <1>20, <1>21
  DEF Next, Backend, Serve, Receive, Deliver, Redeliver, Work, Undelivered

\* No step before the send makes a message, and none after it goes back.
LEMMA UnsentStep == IInv /\ TypeOK' /\ [Next]_vars => Unsent'
<1>. SUFFICES ASSUME IInv, TypeOK', [Next]_vars PROVE Unsent'
  OBVIOUS
<1>. USE CacheWarmAssumption
<1>1. ASSUME Tick PROVE Unsent'
  BY <1>1 DEF Tick, queue, Unsent, IInv
<1>2. ASSUME NEW op \in Op, Begin(op) PROVE Unsent'
  BY <1>2 DEF Begin, Call, records, queue, hist, Unsent, IInv
<1>3. ASSUME NEW op \in Op, Create(op) PROVE Unsent'
  BY <1>3 DEF Create, Record, Call, queue, Unsent, IInv, TypeOK
<1>4. ASSUME NEW op \in Op, PointLatest(op) PROVE Unsent'
  BY <1>4 DEF PointLatest, Call, queue, Unsent, IInv
<1>5. ASSUME NEW op \in Op, Send(op) PROVE Unsent'
  BY <1>5 DEF Send, Call, records, hist, Unsent, IInv, TypeOK
<1>6. ASSUME NEW op \in Op, SendFails(op) PROVE Unsent'
  BY <1>6 DEF SendFails, Call, records, Unsent, IInv, TypeOK
<1>7. ASSUME NEW op \in Op, RecordRefusal(op) PROVE Unsent'
  BY <1>7 DEF RecordRefusal, Record, Call, queue, hist, Unsent, IInv
<1>8. ASSUME NEW op \in Op, RenewRefusal(op) PROVE Unsent'
  BY <1>8 DEF RenewRefusal, Call, queue, hist, Unsent, IInv
<1>9. ASSUME NEW op \in Op, CutCall(op) PROVE Unsent'
  BY <1>9 DEF CutCall, Call, records, queue, Unsent, IInv, TypeOK
<1>10. ASSUME NEW w \in Worker, NEW op \in Op, stream[op] \in {"waiting", "pending"}, Hand(w, op)
       PROVE  Unsent'
  BY <1>10 DEF Hand, records, hist, Unsent, IInv
<1>11. ASSUME NEW w \in Worker, MarkRunning(w) PROVE Unsent'
  BY <1>11 DEF MarkRunning, Record, queue, hist, Unsent, Undelivered, IInv
<1>12. ASSUME NEW w \in Worker, RecordEnd(w) PROVE Unsent'
  BY <1>12 DEF RecordEnd, Record, queue, hist, Unsent, Undelivered, IInv
<1>13. ASSUME NEW w \in Worker, Acknowledge(w) PROVE Unsent'
  BY <1>13 DEF Acknowledge, records, hist, Unsent, Undelivered, IInv
<1>14. ASSUME UNCHANGED <<caller, newest, status, stream>> PROVE Unsent'
  BY <1>14 DEF IInv, Unsent
<1>. QED
  BY <1>1, <1>2, <1>3, <1>4, <1>5, <1>6, <1>7, <1>8, <1>9, <1>10, <1>11, <1>12, <1>13, <1>14
  DEF Next, Backend, Serve, Receive, Deliver, Redeliver, Work, vars, records, queue, hist,
      Clear, GetOperation, Renew, WriteTarget, WarmFails, CutWork, Crash

\* A message reaches a worker only by being handed to it.
LEMMA UndeliveredStep == IInv /\ TypeOK' /\ [Next]_vars => Undelivered'
<1>. SUFFICES ASSUME IInv, TypeOK', [Next]_vars PROVE Undelivered'
  OBVIOUS
<1>. USE CacheWarmAssumption
<1>1. ASSUME NEW op \in Op, Send(op) PROVE Undelivered'
  BY <1>1 DEF Send, workers, Undelivered, Unsent, IInv
<1>2. ASSUME NEW op \in Op, SendFails(op) PROVE Undelivered'
  BY <1>2 DEF SendFails, workers, Undelivered, Unsent, IInv, TypeOK
<1>3. ASSUME NEW w \in Worker, NEW op \in Op, stream[op] \in {"waiting", "pending"}, Hand(w, op)
      PROVE  Undelivered'
  BY <1>3 DEF Hand, Undelivered, IInv, TypeOK
<1>4. ASSUME NEW w \in Worker, Acknowledge(w) PROVE Undelivered'
  BY <1>4 DEF Acknowledge, Rest, Undelivered, IInv
<1>5. ASSUME NEW w \in Worker, Crash(w) PROVE Undelivered'
  BY <1>5 DEF Crash, Rest, queue, Undelivered, IInv
<1>6. ASSUME UNCHANGED <<deliveries, job, stream>> PROVE Undelivered'
  BY <1>6 DEF IInv, Undelivered
<1>. QED
  BY <1>1, <1>2, <1>3, <1>4, <1>5, <1>6
  DEF Next, Backend, Serve, Receive, Deliver, Redeliver, Work, vars, queue, workers, Tick,
      Clear, Begin, Create, PointLatest, RecordRefusal, RenewRefusal, CutCall,
      GetOperation, MarkRunning, Renew, WriteTarget, WarmFails, RecordEnd, CutWork

\* A record is queued before anybody can have the message, and never again.
LEMMA NotQueuedStep == IInv /\ TypeOK' /\ [Next]_vars => NotQueued'
<1>. SUFFICES ASSUME IInv, TypeOK', [Next]_vars PROVE NotQueued'
  OBVIOUS
<1>. USE CacheWarmAssumption
<1>1. ASSUME Tick PROVE NotQueued'
  BY <1>1 DEF Tick, workers, NotQueued, IInv, Started
<1>2. ASSUME NEW op \in Op, Begin(op) PROVE NotQueued'
  BY <1>2 DEF Begin, Call, records, workers, hist, NotQueued, IInv, Started
<1>3. ASSUME NEW op \in Op, Create(op) PROVE NotQueued'
  BY <1>3 DEF Create, Record, Call, workers, NotQueued, Unsent, Undelivered, IInv, Started
<1>4. ASSUME NEW op \in Op, PointLatest(op) PROVE NotQueued'
  BY <1>4 DEF PointLatest, Call, workers, NotQueued, IInv, Started
<1>5. ASSUME NEW op \in Op, Send(op) PROVE NotQueued'
  BY <1>5 DEF Send, Call, records, workers, hist, NotQueued, IInv, Started
<1>6. ASSUME NEW op \in Op, SendFails(op) PROVE NotQueued'
  BY <1>6 DEF SendFails, Call, records, workers, NotQueued, IInv, Started
<1>7. ASSUME NEW op \in Op, RecordRefusal(op) PROVE NotQueued'
  BY <1>7 DEF RecordRefusal, Record, Call, workers, hist, NotQueued, IInv, TypeOK, Started
<1>8. ASSUME NEW op \in Op, RenewRefusal(op) PROVE NotQueued'
  BY <1>8 DEF RenewRefusal, Call, workers, hist, NotQueued, IInv, Started
<1>9. ASSUME NEW op \in Op, CutCall(op) PROVE NotQueued'
  BY <1>9 DEF CutCall, Call, records, workers, NotQueued, IInv, TypeOK, Started
<1>10. ASSUME NEW w \in Worker, NEW op \in Op, stream[op] \in {"waiting", "pending"}, Hand(w, op)
       PROVE  NotQueued'
  BY <1>10 DEF Hand, Goto, records, hist, NotQueued, IInv, Started
<1>11. ASSUME NEW w \in Worker, GetOperation(w) PROVE NotQueued'
  BY <1>11 DEF GetOperation, Goto, records, hist, NotQueued, IInv, Started
<1>12. ASSUME NEW w \in Worker, MarkRunning(w) PROVE NotQueued'
  BY <1>12 DEF MarkRunning, Record, Goto, hist, NotQueued, IInv, TypeOK, Started
<1>13. ASSUME NEW w \in Worker, Renew(w) PROVE NotQueued'
  BY <1>13 DEF Renew, Goto, hist, NotQueued, IInv, Started
<1>14. ASSUME NEW w \in Worker, WriteTarget(w) PROVE NotQueued'
  BY <1>14 DEF WriteTarget, Goto, records, hist, NotQueued, IInv, Started
<1>15. ASSUME NEW w \in Worker, WarmFails(w) PROVE NotQueued'
  BY <1>15 DEF WarmFails, Goto, records, NotQueued, IInv, Started
<1>16. ASSUME NEW w \in Worker, RecordEnd(w) PROVE NotQueued'
  BY <1>16 DEF RecordEnd, Record, Goto, hist, NotQueued, IInv, Started
<1>17. ASSUME NEW w \in Worker, Acknowledge(w) PROVE NotQueued'
  BY <1>17 DEF Acknowledge, Rest, Goto, records, hist, NotQueued, IInv, Started
<1>18. ASSUME NEW w \in Worker, CutWork(w) PROVE NotQueued'
  BY <1>18 DEF CutWork, Goto, records, NotQueued, IInv, Started
<1>19. ASSUME NEW w \in Worker, Crash(w) PROVE NotQueued'
  BY <1>19 DEF Crash, Rest, Goto, records, NotQueued, IInv, Started
<1>20. ASSUME UNCHANGED <<caller, cut, job, pc, status>> PROVE NotQueued'
  BY <1>20 DEF IInv, NotQueued
<1>. QED
  BY <1>1, <1>2, <1>3, <1>4, <1>5, <1>6, <1>7, <1>8, <1>9, <1>10, <1>11, <1>12, <1>13,
     <1>14, <1>15, <1>16, <1>17, <1>18, <1>19, <1>20
  DEF Next, Backend, Serve, Receive, Deliver, Redeliver, Work, vars, records, queue,
      workers, hist, Clear

\* Whoever is about to record a failure has raised.
LEMMA RaisedStep == IInv /\ TypeOK' /\ [Next]_vars => Raised'
<1>. SUFFICES ASSUME IInv, TypeOK', [Next]_vars PROVE Raised'
  OBVIOUS
<1>. USE CacheWarmAssumption
<1>1. ASSUME NEW op \in Op, Begin(op) PROVE Raised'
  BY <1>1 DEF Begin, Call, workers, hist, Raised, IInv
<1>2. ASSUME NEW op \in Op, Create(op) PROVE Raised'
  BY <1>2 DEF Create, Call, workers, Raised, IInv
<1>3. ASSUME NEW op \in Op, PointLatest(op) PROVE Raised'
  BY <1>3 DEF PointLatest, Call, workers, Raised, IInv
<1>4. ASSUME NEW op \in Op, Send(op) PROVE Raised'
  BY <1>4 DEF Send, Call, workers, hist, Raised, IInv
<1>5. ASSUME NEW op \in Op, SendFails(op) PROVE Raised'
  BY <1>5 DEF SendFails, Call, workers, Raised, IInv
<1>6. ASSUME NEW op \in Op, RecordRefusal(op) PROVE Raised'
  BY <1>6 DEF RecordRefusal, Call, workers, hist, Raised, IInv
<1>7. ASSUME NEW op \in Op, RenewRefusal(op) PROVE Raised'
  BY <1>7 DEF RenewRefusal, Call, workers, hist, Raised, IInv
<1>8. ASSUME NEW op \in Op, CutCall(op) PROVE Raised'
  BY <1>8 DEF CutCall, Call, workers, Raised, IInv, TypeOK
<1>9. ASSUME NEW w \in Worker, NEW op \in Op, stream[op] \in {"waiting", "pending"}, Hand(w, op)
      PROVE  Raised'
  BY <1>9 DEF Hand, Goto, hist, Raised, IInv
<1>10. ASSUME NEW w \in Worker, GetOperation(w) PROVE Raised'
  BY <1>10 DEF GetOperation, Goto, hist, Raised, IInv
<1>11. ASSUME NEW w \in Worker, MarkRunning(w) PROVE Raised'
  BY <1>11 DEF MarkRunning, Goto, hist, Raised, IInv
<1>12. ASSUME NEW w \in Worker, Renew(w) PROVE Raised'
  BY <1>12 DEF Renew, Goto, hist, Raised, IInv
<1>13. ASSUME NEW w \in Worker, WriteTarget(w) PROVE Raised'
  BY <1>13 DEF WriteTarget, Goto, hist, Raised, IInv
<1>14. ASSUME NEW w \in Worker, WarmFails(w) PROVE Raised'
  BY <1>14 DEF WarmFails, Goto, Raised, IInv
<1>15. ASSUME NEW w \in Worker, RecordEnd(w) PROVE Raised'
  BY <1>15 DEF RecordEnd, Goto, hist, Raised, IInv
<1>16. ASSUME NEW w \in Worker, Acknowledge(w) PROVE Raised'
  BY <1>16 DEF Acknowledge, Rest, Goto, hist, Raised, IInv
<1>17. ASSUME NEW w \in Worker, CutWork(w) PROVE Raised'
  BY <1>17 DEF CutWork, Goto, Raised, IInv
<1>18. ASSUME NEW w \in Worker, Crash(w) PROVE Raised'
  BY <1>18 DEF Crash, Rest, Goto, Raised, IInv, TypeOK
<1>19. ASSUME UNCHANGED <<caller, job, pc, raised>> PROVE Raised'
  BY <1>19 DEF IInv, Raised
<1>. QED
  BY <1>1, <1>2, <1>3, <1>4, <1>5, <1>6, <1>7, <1>8, <1>9, <1>10, <1>11, <1>12, <1>13,
     <1>14, <1>15, <1>16, <1>17, <1>18, <1>19
  DEF Next, Backend, Serve, Receive, Deliver, Redeliver, Work, vars, records, queue,
      workers, hist, Tick, Clear

\* A target leaves a worker's list when it enters the cache.
LEMMA FilledStep == IInv /\ TypeOK' /\ [Next]_vars => Filled'
<1>. SUFFICES ASSUME IInv, TypeOK', [Next]_vars PROVE Filled'
  OBVIOUS
<1>. USE CacheWarmAssumption
<1>1. ASSUME Clear PROVE Filled'
  BY <1>1 DEF Clear, workers, Filled, IInv, TypeOK
<1>2. ASSUME NEW op \in Op, Create(op) PROVE Filled'
  BY <1>2 DEF Create, workers, Filled, Unsent, Undelivered, IInv
<1>3. ASSUME NEW w \in Worker, NEW op \in Op, stream[op] \in {"waiting", "pending"}, Hand(w, op)
      PROVE  Filled'
  BY <1>3 DEF Hand, Goto, hist, Filled, IInv
<1>4. ASSUME NEW w \in Worker, GetOperation(w) PROVE Filled'
  BY <1>4 DEF GetOperation, Goto, hist, Filled, IInv
<1>5. ASSUME NEW w \in Worker, MarkRunning(w) PROVE Filled'
  BY <1>5 DEF MarkRunning, Goto, hist, Filled, IInv, TypeOK
<1>6. ASSUME NEW w \in Worker, Renew(w) PROVE Filled'
  BY <1>6 DEF Renew, Goto, hist, Filled, IInv
<1>7. ASSUME NEW w \in Worker, WriteTarget(w) PROVE Filled'
  <2>1. PICK t \in todo[w] : /\ cache' = cache \cup {t}
                            /\ todo' = [todo EXCEPT ![w] = @ \ {t}]
    BY <1>7 DEF WriteTarget
  <2>2. Cardinality(todo[w]) = 1 => todo[w] = {t}
    <3>1. IsFiniteSet(todo[w])
      BY FS_Subset DEF IInv, TypeOK
    <3>. QED
      BY <2>1, <3>1, FS_Singleton
  <2>3. /\ pc[w] = "warm" /\ pc'[w] \in {"succeed", "warm"}
        /\ pc'[w] = "succeed" => Cardinality(todo[w]) = 1
        /\ \A v \in Worker \ {w} : pc'[v] = pc[v]
        /\ job' = job /\ removed' = removed
    BY <1>7 DEF WriteTarget, Goto, hist, IInv
  <2>4. todo'[w] = todo[w] \ {t} /\ \A v \in Worker \ {w} : todo'[v] = todo[v]
    BY <2>1 DEF IInv, TypeOK
  <2>. QED
    BY <2>1, <2>2, <2>3, <2>4 DEF IInv, Filled
<1>8. ASSUME NEW w \in Worker, WarmFails(w) PROVE Filled'
  BY <1>8 DEF WarmFails, Goto, Filled, IInv
<1>9. ASSUME NEW w \in Worker, RecordEnd(w) PROVE Filled'
  BY <1>9 DEF RecordEnd, Goto, hist, Filled, IInv
<1>10. ASSUME NEW w \in Worker, Acknowledge(w) PROVE Filled'
  BY <1>10 DEF Acknowledge, Rest, Goto, hist, Filled, IInv
<1>11. ASSUME NEW w \in Worker, CutWork(w) PROVE Filled'
  BY <1>11 DEF CutWork, Goto, Filled, IInv
<1>12. ASSUME NEW w \in Worker, Crash(w) PROVE Filled'
  BY <1>12 DEF Crash, Rest, Goto, Filled, IInv, TypeOK
<1>13. ASSUME UNCHANGED <<cache, job, pc, removed, todo>> PROVE Filled'
  BY <1>13 DEF IInv, Filled
<1>. QED
  BY <1>1, <1>2, <1>3, <1>4, <1>5, <1>6, <1>7, <1>8, <1>9, <1>10, <1>11, <1>12, <1>13
  DEF Next, Backend, Serve, Receive, Deliver, Redeliver, Work, vars, workers, hist, Tick,
      Begin, PointLatest, Send, SendFails, RecordRefusal, RenewRefusal, CutCall

\* The latest key is renewed after every update of a record.
LEMMA LatestKeptStep == IInv /\ TypeOK' /\ [Next]_vars => LatestKept'
<1>. SUFFICES ASSUME IInv, TypeOK', [Next]_vars PROVE LatestKept'
  OBVIOUS
<1>. USE CacheWarmAssumption
<1>1. ASSUME Tick PROVE LatestKept'
  BY <1>1
  DEF Tick, Left, LatestExpiresAmid, workers, LatestKept, Unsent, IInv, TypeOK,
      BetweenUpdates
<1>2. ASSUME NEW op \in Op, Begin(op) PROVE LatestKept'
  BY <1>2 DEF Begin, Call, records, workers, hist, LatestKept, IInv, BetweenUpdates
<1>3. ASSUME NEW op \in Op, Create(op) PROVE LatestKept'
  BY <1>3 DEF Create, Record, Call, workers, LatestKept, Unsent, IInv, TypeOK, BetweenUpdates
<1>4. ASSUME NEW op \in Op, PointLatest(op) PROVE LatestKept'
  BY <1>4 DEF PointLatest, Call, LatestKept, IInv, TypeOK, BetweenUpdates
<1>5. ASSUME NEW op \in Op, Send(op) PROVE LatestKept'
  BY <1>5 DEF Send, Call, records, workers, hist, LatestKept, IInv, BetweenUpdates
<1>6. ASSUME NEW op \in Op, SendFails(op) PROVE LatestKept'
  BY <1>6 DEF SendFails, Call, records, workers, LatestKept, IInv, BetweenUpdates
<1>7. ASSUME NEW op \in Op, RecordRefusal(op) PROVE LatestKept'
  BY <1>7
  DEF RecordRefusal, Record, Call, workers, hist, LatestKept, IInv, TypeOK, BetweenUpdates
<1>8. ASSUME NEW op \in Op, RenewRefusal(op) PROVE LatestKept'
  BY <1>8 DEF RenewRefusal, RenewLatest, Call, hist, LatestKept, IInv, TypeOK, BetweenUpdates
<1>9. ASSUME NEW op \in Op, CutCall(op) PROVE LatestKept'
  BY <1>9 DEF CutCall, Call, records, workers, LatestKept, IInv, TypeOK, BetweenUpdates
<1>10. ASSUME NEW w \in Worker, NEW op \in Op, stream[op] \in {"waiting", "pending"}, Hand(w, op)
       PROVE  LatestKept'
  BY <1>10 DEF Hand, Goto, records, hist, LatestKept, IInv, BetweenUpdates
<1>11. ASSUME NEW w \in Worker, GetOperation(w) PROVE LatestKept'
  BY <1>11 DEF GetOperation, Goto, records, hist, LatestKept, IInv, BetweenUpdates
<1>12. ASSUME NEW w \in Worker, MarkRunning(w) PROVE LatestKept'
  BY <1>12 DEF MarkRunning, Record, Goto, hist, LatestKept, IInv, TypeOK, BetweenUpdates
<1>13. ASSUME NEW w \in Worker, Renew(w) PROVE LatestKept'
  BY <1>13 DEF Renew, RenewLatest, hist, LatestKept, IInv, TypeOK, BetweenUpdates
<1>14. ASSUME NEW w \in Worker, WriteTarget(w) PROVE LatestKept'
  BY <1>14 DEF WriteTarget, Goto, records, hist, LatestKept, IInv, BetweenUpdates
<1>15. ASSUME NEW w \in Worker, WarmFails(w) PROVE LatestKept'
  BY <1>15 DEF WarmFails, Goto, records, LatestKept, IInv, BetweenUpdates
<1>16. ASSUME NEW w \in Worker, RecordEnd(w) PROVE LatestKept'
  BY <1>16 DEF RecordEnd, Record, Goto, hist, LatestKept, IInv, TypeOK, BetweenUpdates
<1>17. ASSUME NEW w \in Worker, Acknowledge(w) PROVE LatestKept'
  BY <1>17 DEF Acknowledge, Rest, Goto, records, hist, LatestKept, IInv, BetweenUpdates
<1>18. ASSUME NEW w \in Worker, CutWork(w) PROVE LatestKept'
  BY <1>18 DEF CutWork, Goto, records, LatestKept, IInv, BetweenUpdates
<1>19. ASSUME NEW w \in Worker, Crash(w) PROVE LatestKept'
  BY <1>19 DEF Crash, Rest, Goto, records, LatestKept, IInv, BetweenUpdates
<1>20. ASSUME UNCHANGED <<caller, cut, job, lapsed, latest, latestLife, life, newest, pc, status>>
       PROVE  LatestKept'
  BY <1>20 DEF IInv, LatestKept, BetweenUpdates
<1>. QED
  BY <1>1, <1>2, <1>3, <1>4, <1>5, <1>6, <1>7, <1>8, <1>9, <1>10, <1>11, <1>12, <1>13,
     <1>14, <1>15, <1>16, <1>17, <1>18, <1>19, <1>20
  DEF Next, Backend, Serve, Receive, Deliver, Redeliver, Work, vars, records, queue,
      workers, hist, Clear

\* One delivery has one worker.
LEMMA SingleStep == IInv /\ TypeOK' /\ [Next]_vars => Single'
<1>. SUFFICES ASSUME IInv, TypeOK', [Next]_vars PROVE Single'
  OBVIOUS
<1>. USE CacheWarmAssumption
<1>1. ASSUME Tick PROVE Single'
  <2>1. \A op \in Op : status'[op] \in {"none", status[op]}
    BY <1>1 DEF Tick, IInv
  <2>2. UNCHANGED <<unsure, deliveries, job, stream, pc, caller>>
    BY <1>1 DEF Tick, queue, workers
  <2>. QED
    BY <2>1, <2>2 DEF IInv, Single, Ended
<1>2. ASSUME NEW op \in Op, Begin(op) PROVE Single'
  BY <1>2 DEF Begin, Call, records, queue, workers, hist, Single, IInv
<1>3. ASSUME NEW op \in Op, Create(op) PROVE Single'
  BY <1>3 DEF Create, Record, Call, queue, workers, Single, IInv, Ended
<1>4. ASSUME NEW op \in Op, PointLatest(op) PROVE Single'
  BY <1>4 DEF PointLatest, Call, queue, workers, Single, IInv
<1>5. ASSUME NEW op \in Op, Send(op) PROVE Single'
  BY <1>5 DEF Send, Call, records, workers, hist, Single, Unsent, IInv, Ended
<1>6. ASSUME NEW op \in Op, SendFails(op) PROVE Single'
  BY <1>6 DEF SendFails, Call, records, workers, Single, Unsent, IInv, TypeOK, Ended
<1>7. ASSUME NEW op \in Op, RecordRefusal(op) PROVE Single'
  BY <1>7
  DEF RecordRefusal, Record, Call, queue, workers, hist, Single, Undelivered, IInv, TypeOK
<1>8. ASSUME NEW op \in Op, RenewRefusal(op) PROVE Single'
  BY <1>8 DEF RenewRefusal, Call, queue, workers, hist, Single, IInv
<1>9. ASSUME NEW op \in Op, CutCall(op) PROVE Single'
  BY <1>9 DEF CutCall, Call, records, queue, workers, Single, IInv, TypeOK
<1>10. ASSUME NEW w \in Worker, NEW op \in Op, stream[op] \in {"waiting", "pending"}, Hand(w, op)
       PROVE  Single'
  <2>1. /\ job' = [job EXCEPT ![w] = op] /\ pc' = [pc EXCEPT ![w] = "get"]
        /\ stream' = [stream EXCEPT ![op] = "pending"]
        /\ deliveries' = [deliveries EXCEPT ![op] = @ + 1]
        /\ UNCHANGED <<unsure, status, caller>>
    BY <1>10 DEF Hand, Goto, records, hist
  <2>2. ASSUME NEW o \in Op \ unsure, o # op, deliveries'[o] <= 1
        PROVE  /\ \A x, v \in Worker : job'[x] = o /\ job'[v] = o => x = v
               /\ status[o] \in Ended => /\ stream'[o] # "waiting"
                                       /\ \A x \in Worker : job'[x] = o => pc'[x] \in {"renew_end", "ack"}
               /\ caller[o] \in {"record", "renew"} => stream'[o] = "none"
               /\ caller[o] = "record" => status[o] \notin Ended
    BY <2>1, <2>2 DEF IInv, Single, TypeOK
  <2>3. ASSUME op \notin unsure, deliveries'[op] <= 1
        PROVE  /\ stream[op] = "waiting" /\ status[op] \notin Ended
               /\ caller[op] \notin {"record", "renew"}
               /\ \A x \in Worker : job[x] # op
    <3>1. deliveries[op] = 0
      BY <2>1, <2>3 DEF IInv, TypeOK
    <3>. QED
      BY <1>10, <2>1, <2>3, <3>1 DEF IInv, Single, Undelivered
  <2>. QED
    BY <2>1, <2>2, <2>3 DEF IInv, Single
<1>11. ASSUME NEW w \in Worker, GetOperation(w) PROVE Single'
  BY <1>11 DEF GetOperation, Goto, records, queue, hist, Single, IInv
<1>12. ASSUME NEW w \in Worker, MarkRunning(w) PROVE Single'
  BY <1>12 DEF MarkRunning, Record, Goto, queue, hist, Single, IInv, Ended
<1>13. ASSUME NEW w \in Worker, Renew(w) PROVE Single'
  BY <1>13 DEF Renew, Goto, queue, hist, Single, IInv
<1>14. ASSUME NEW w \in Worker, WriteTarget(w) PROVE Single'
  BY <1>14 DEF WriteTarget, Goto, records, queue, hist, Single, IInv
<1>15. ASSUME NEW w \in Worker, WarmFails(w) PROVE Single'
  BY <1>15 DEF WarmFails, Goto, records, queue, Single, IInv
<1>16. ASSUME NEW w \in Worker, RecordEnd(w) PROVE Single'
  BY <1>16 DEF RecordEnd, Record, Goto, queue, hist, Single, Undelivered, IInv, TypeOK
<1>17. ASSUME NEW w \in Worker, Acknowledge(w) PROVE Single'
  BY <1>17 DEF Acknowledge, Rest, Goto, records, hist, Single, Undelivered, IInv, TypeOK
<1>18. ASSUME NEW w \in Worker, CutWork(w) PROVE Single'
  BY <1>18 DEF CutWork, Goto, records, queue, Single, IInv
<1>19. ASSUME NEW w \in Worker, Crash(w) PROVE Single'
  BY <1>19 DEF Crash, Rest, Goto, records, queue, Single, IInv, TypeOK
<1>20. ASSUME UNCHANGED <<caller, deliveries, job, pc, status, stream, unsure>> PROVE Single'
  BY <1>20 DEF IInv, Single
<1>. QED
  BY <1>1, <1>2, <1>3, <1>4, <1>5, <1>6, <1>7, <1>8, <1>9, <1>10, <1>11, <1>12, <1>13,
     <1>14, <1>15, <1>16, <1>17, <1>18, <1>19, <1>20
  DEF Next, Backend, Serve, Receive, Deliver, Redeliver, Work, vars, records, queue,
      workers, hist, Clear

\* The invariant is inductive.
LEMMA StepIInv == IInv /\ [Next]_vars => IInv'
<1>1. IInv => TypeOK /\ Undelivered
  BY DEF IInv
<1>. QED
  BY <1>1, StepTypeOK, UnsentStep, UndeliveredStep, NotQueuedStep, RaisedStep, FilledStep,
     LatestKeptStep, SingleStep
  DEF IInv

\* A queued record whose call was answered keeps its message.
LEMMA QueuedStep == IInv /\ QueuedHasMessage /\ TypeOK' /\ [Next]_vars => QueuedHasMessage'
<1>. SUFFICES ASSUME IInv, QueuedHasMessage, TypeOK', [Next]_vars PROVE QueuedHasMessage'
  OBVIOUS
<1>. USE CacheWarmAssumption
<1>1. ASSUME Tick PROVE QueuedHasMessage'
  BY <1>1 DEF Tick, queue, QueuedHasMessage, NotQueued, Started, IInv
<1>2. ASSUME NEW op \in Op, Begin(op) PROVE QueuedHasMessage'
  BY <1>2 DEF Begin, Call, records, queue, hist, QueuedHasMessage, NotQueued, Started, IInv
<1>3. ASSUME NEW op \in Op, Create(op) PROVE QueuedHasMessage'
  BY <1>3 DEF Create, Record, Call, queue, QueuedHasMessage, NotQueued, Started, IInv
<1>4. ASSUME NEW op \in Op, PointLatest(op) PROVE QueuedHasMessage'
  BY <1>4 DEF PointLatest, Call, queue, QueuedHasMessage, NotQueued, Started, IInv
<1>5. ASSUME NEW op \in Op, Send(op) PROVE QueuedHasMessage'
  BY <1>5 DEF Send, Call, records, hist, QueuedHasMessage, NotQueued, Started, IInv, TypeOK
<1>6. ASSUME NEW op \in Op, SendFails(op) PROVE QueuedHasMessage'
  BY <1>6 DEF SendFails, Call, records, QueuedHasMessage, NotQueued, Started, IInv, TypeOK
<1>7. ASSUME NEW op \in Op, RecordRefusal(op) PROVE QueuedHasMessage'
  BY <1>7
  DEF RecordRefusal, Record, Call, queue, hist, QueuedHasMessage, NotQueued, Started, IInv
<1>8. ASSUME NEW op \in Op, RenewRefusal(op) PROVE QueuedHasMessage'
  BY <1>8 DEF RenewRefusal, Call, queue, hist, QueuedHasMessage, NotQueued, Started, IInv
<1>9. ASSUME NEW op \in Op, CutCall(op) PROVE QueuedHasMessage'
  BY <1>9 DEF CutCall, Call, records, queue, QueuedHasMessage, NotQueued, Started, IInv, TypeOK
<1>10. ASSUME NEW w \in Worker, NEW op \in Op, Hand(w, op) PROVE QueuedHasMessage'
  BY <1>10 DEF Hand, records, hist, QueuedHasMessage, NotQueued, Started, IInv
<1>11. ASSUME NEW w \in Worker, MarkRunning(w) PROVE QueuedHasMessage'
  BY <1>11 DEF MarkRunning, Record, queue, hist, QueuedHasMessage, NotQueued, Started, IInv
<1>12. ASSUME NEW w \in Worker, RecordEnd(w) PROVE QueuedHasMessage'
  BY <1>12 DEF RecordEnd, Record, queue, hist, QueuedHasMessage, NotQueued, Started, IInv
<1>13. ASSUME NEW w \in Worker, Acknowledge(w) PROVE QueuedHasMessage'
  BY <1>13 DEF Acknowledge, records, hist, QueuedHasMessage, NotQueued, Started, IInv
<1>14. ASSUME NEW w \in Worker, CutWork(w) PROVE QueuedHasMessage'
  BY <1>14 DEF CutWork, records, queue, QueuedHasMessage, NotQueued, Started, IInv
<1>15. ASSUME NEW w \in Worker, Crash(w) PROVE QueuedHasMessage'
  BY <1>15 DEF Crash, records, queue, QueuedHasMessage, NotQueued, Started, IInv
<1>16. ASSUME UNCHANGED <<caller, cut, status, stream>> PROVE QueuedHasMessage'
  BY <1>16 DEF QueuedHasMessage
<1>. QED
  BY <1>1, <1>2, <1>3, <1>4, <1>5, <1>6, <1>7, <1>8, <1>9, <1>10, <1>11, <1>12, <1>13,
     <1>14, <1>15, <1>16
  DEF Next, Backend, Serve, Receive, Deliver, Redeliver, Work, vars, records, queue,
      workers, hist, Clear, GetOperation, Renew, WriteTarget, WarmFails

\* What a record says of the end of an operation stays true.
LEMMA OutcomeStep == IInv /\ OutcomeIsTrue /\ TypeOK' /\ [Next]_vars => OutcomeIsTrue'
<1>. SUFFICES ASSUME IInv, OutcomeIsTrue, TypeOK', [Next]_vars PROVE OutcomeIsTrue'
  OBVIOUS
<1>. USE CacheWarmAssumption
<1>1. ASSUME Tick PROVE OutcomeIsTrue'
  BY <1>1 DEF Tick, OutcomeIsTrue, Filled, Raised, IInv
<1>2. ASSUME Clear PROVE OutcomeIsTrue'
  BY <1>2 DEF Clear, records, OutcomeIsTrue, Filled, Raised, IInv
<1>3. ASSUME NEW op \in Op, Create(op) PROVE OutcomeIsTrue'
  BY <1>3 DEF Create, Record, OutcomeIsTrue, Filled, Raised, IInv, TypeOK
<1>4. ASSUME NEW op \in Op, SendFails(op) PROVE OutcomeIsTrue'
  BY <1>4 DEF SendFails, records, OutcomeIsTrue, Filled, Raised, IInv
<1>5. ASSUME NEW op \in Op, RecordRefusal(op) PROVE OutcomeIsTrue'
  BY <1>5 DEF RecordRefusal, Record, hist, OutcomeIsTrue, Filled, Raised, IInv
<1>6. ASSUME NEW w \in Worker, MarkRunning(w) PROVE OutcomeIsTrue'
  BY <1>6 DEF MarkRunning, Record, hist, OutcomeIsTrue, Filled, Raised, IInv
<1>7. ASSUME NEW w \in Worker, WriteTarget(w) PROVE OutcomeIsTrue'
  BY <1>7 DEF WriteTarget, records, hist, OutcomeIsTrue, Filled, Raised, IInv
<1>8. ASSUME NEW w \in Worker, WarmFails(w) PROVE OutcomeIsTrue'
  BY <1>8 DEF WarmFails, records, OutcomeIsTrue, Filled, Raised, IInv
<1>9. ASSUME NEW w \in Worker, RecordEnd(w) PROVE OutcomeIsTrue'
  BY <1>9 DEF RecordEnd, Record, hist, OutcomeIsTrue, Filled, Raised, IInv
<1>10. ASSUME UNCHANGED <<cache, raised, removed, status>> PROVE OutcomeIsTrue'
  BY <1>10 DEF OutcomeIsTrue
<1>. QED
  BY <1>1, <1>2, <1>3, <1>4, <1>5, <1>6, <1>7, <1>8, <1>9, <1>10
  DEF Next, Backend, Serve, Receive, Deliver, Redeliver, Work, vars, records, hist, Begin,
      PointLatest, Send, RenewRefusal, CutCall, Hand, GetOperation, Renew, Acknowledge,
      CutWork, Crash

-----------------------------------------------------------------------------
(* Theorems.                                                                *)

\* A fresh store satisfies the invariant.
LEMMA InitIInv == Init => IInv
<1>. SUFFICES ASSUME Init PROVE IInv
  OBVIOUS
<1>1. TypeOK
  BY InitTypeOK
<1>. QED
  BY <1>1, CacheWarmAssumption
  DEF Init, IInv, Unsent, Undelivered, NotQueued, Started, Raised, Filled, LatestKept,
      Single

\* The invariant holds in every reachable state.
THEOREM Invariance == Spec => []IInv
<1>. QED
  BY InitIInv, StepIInv, PTL DEF Spec

\* Every variable keeps its type, and a record is there exactly while it has time left.
THEOREM TypeCorrect == Spec => []TypeOK
<1>1. IInv => TypeOK
  BY DEF IInv
<1>. QED
  BY <1>1, Invariance, PTL

\* However records expire, tasks die or updates fail: once its call is answered, a queued
\* operation has a message no worker has acknowledged, unless the store lost an update.
THEOREM NobodyWaitsForNothing == Spec => []QueuedHasMessage
<1>1. Init => QueuedHasMessage
  BY DEF Init, QueuedHasMessage
<1>2. IInv => TypeOK
  BY DEF IInv
<1>. QED
  BY <1>1, <1>2, QueuedStep, Invariance, PTL DEF Spec

\* However often a message is delivered, and to however many workers at a time: a warm
\* recorded as succeeded has filled the cache but for what was cleared since, and one
\* recorded as failed did raise.
THEOREM OutcomesTrue == Spec => []OutcomeIsTrue
<1>1. Init => OutcomeIsTrue
  BY DEF Init, OutcomeIsTrue
<1>2. IInv => TypeOK
  BY DEF IInv
<1>. QED
  BY <1>1, <1>2, OutcomeStep, Invariance, PTL DEF Spec

\* The latest key outlives the record it was made for, from one update of it to the next,
\* although the two are never renewed in one step.
THEOREM LatestFound == Spec => []LatestOutlivesRecord
<1>1. IInv => LatestOutlivesRecord
  BY DEF IInv, LatestKept, LatestOutlivesRecord
<1>. QED
  BY <1>1, Invariance, PTL

\* A recorded end changes only by expiring, unless the message was delivered twice or had
\* been sent by a call that thought it had not.
THEOREM EndsStay == Spec => EndIsFinal
<1>1. ASSUME IInv, [Next]_vars
      PROVE  [\A op \in Op : status[op] \in Ended /\ status'[op] # status[op] =>
                status'[op] = "none" \/ deliveries[op] > 1 \/ op \in unsure]_vars
  <2>. SUFFICES ASSUME NEW op \in Op, status[op] \in Ended, status'[op] # status[op],
                       ~(deliveries[op] > 1), op \notin unsure
                PROVE  status'[op] = "none"
    OBVIOUS
  <2>0. /\ deliveries[op] <= 1 /\ status \in [Op -> Status]
        /\ caller[op] \notin {"create", "record"}
        /\ \A w \in Worker : job[w] = op => pc[w] \in {"renew_end", "ack"}
    <3>1. deliveries[op] \in Nat
      BY <1>1, CacheWarmAssumption DEF IInv, TypeOK
    <3>2. deliveries[op] <= 1
      BY <3>1
    <3>. QED
      BY <1>1, <3>2 DEF IInv, Single, Unsent, TypeOK, Ended
  <2>1. CASE Tick
    BY <2>1 DEF Tick
  <2>2. ASSUME NEW o \in Op, Create(o) \/ RecordRefusal(o) PROVE FALSE
    BY <2>0, <2>2 DEF Create, RecordRefusal, Record
  <2>3. ASSUME NEW w \in Worker, MarkRunning(w) \/ RecordEnd(w) PROVE FALSE
    BY <2>0, <2>3 DEF MarkRunning, RecordEnd, Record
  <2>4. CASE UNCHANGED status
    BY <2>4
  <2>. QED
    BY <1>1, <2>1, <2>2, <2>3, <2>4
    DEF Next, Backend, Serve, Receive, Deliver, Redeliver, Hand, Work, vars, records,
        Clear, Begin, PointLatest, Send, SendFails, RenewRefusal, CutCall, GetOperation,
        Renew, WriteTarget, WarmFails, Acknowledge, CutWork, Crash
<1>. QED
  BY <1>1, Invariance, PTL DEF Spec, EndIsFinal

=============================================================================
