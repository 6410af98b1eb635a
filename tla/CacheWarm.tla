------------------------------ MODULE CacheWarm ------------------------------
(***************************************************************************)
(* Manual warming of the response cache: the API records an operation and  *)
(* puts a message on the task stream, a worker carries it out and records  *)
(* how it went, and both records, the operation and the key that points to *)
(* the latest one, expire.  The record is how the API, the workers and the *)
(* client's polls learn of each other; no step of two of them is atomic.   *)
(*                                                                         *)
(* The cache is in use (with it off a warm writes nothing and succeeds),   *)
(* and it has the one domain the program knows, i18n.                      *)
(***************************************************************************)
EXTENDS Integers, FiniteSets

CONSTANTS
  Op,            \* calls of the warm endpoint; each names its operation by itself
  Worker,        \* executions of tasks that may overlap
  Target,        \* the responses a warm writes
  Ttl,           \* ticks an operation's record lives
  MaxDeliveries, \* bound: how often one message is handed to a worker
  Faults         \* the faults that may happen

Fault == {"send_fails", "send_unknown", "store_error", "warm_fails", "crash",
          "api_crash", "slow"}

ASSUME CacheWarmAssumption ==
  /\ "none" \notin Op /\ IsFiniteSet(Target)
  /\ Ttl \in Nat \ {0} /\ MaxDeliveries \in Nat \ {0}
  /\ Faults \subseteq Fault

VARIABLES
  status,      \* what the record of each operation says; "none" without a record
  life,        \* ticks the record has left
  latest,      \* the operation the latest key names
  latestLife,  \* ticks that key has left
  caller,      \* the next step of each call
  stream,      \* the message of each operation
  deliveries,  \* how often it was handed to a worker
  pc,          \* the next step of each worker
  job,         \* the operation it works on
  todo,        \* the targets it has still to write
  cache,       \* the targets in the response cache
  removed,     \* history: targets removed since the record of an operation was created
  raised,      \* history: operations of which a send or an execution raised
  unsure,      \* history: operations sent although the send raised
  lapsed,      \* history: operations whose record expired, or the latest key amid their update
  cut,         \* history: operations of which an error or a crash cut a step of the records
  newest       \* history: the operation last made the latest

records == <<status, life, latest, latestLife>>
workers == <<pc, job, todo>>
queue == <<stream, deliveries>>
hist == <<removed, raised, unsure, lapsed, cut, newest>>
vars == <<records, caller, queue, workers, cache, hist>>

Busy == {"queued", "running"}
Ended == {"succeeded", "failed"}
Status == {"none"} \cup Busy \cup Ended
CallerSteps == {"idle", "create", "point", "send", "record", "renew",
                "accepted", "refused", "dead"}
WorkerSteps == {"idle", "get", "run", "renew_run", "warm", "succeed", "fail",
                "renew_end", "ack"}

-----------------------------------------------------------------------------
Init ==
  /\ status = [op \in Op |-> "none"] /\ life = [op \in Op |-> 0]
  /\ latest = "none" /\ latestLife = 0
  /\ caller = [op \in Op |-> "idle"]
  /\ stream = [op \in Op |-> "none"] /\ deliveries = [op \in Op |-> 0]
  /\ pc = [w \in Worker |-> "idle"]
  /\ job = [w \in Worker |-> "none"]
  /\ todo = [w \in Worker |-> {}]
  /\ cache = {}
  /\ removed = [op \in Op |-> {}]
  /\ raised = {} /\ unsure = {} /\ lapsed = {} /\ cut = {}
  /\ newest = "none"

Call(op, step) == caller' = [caller EXCEPT ![op] = step]
Goto(w, step) == pc' = [pc EXCEPT ![w] = step]

\* Both setters write the whole record and start its time to live anew.
Record(op, value) == /\ status' = [status EXCEPT ![op] = value]
                     /\ life' = [life EXCEPT ![op] = Ttl]

\* Mutant: an update leaves the latest key alone.
RenewNothing == UNCHANGED latestLife

\* The latest key is read with a renewal, whichever operation it names.
RenewLatest == latestLife' = IF latestLife > 0 THEN Ttl ELSE 0

Left(n) == IF n > 0 THEN n - 1 ELSE 0
Expired == {op \in Op : life[op] = 1}

\* No call and no worker is between the two halves of an update of the record.
BetweenUpdates(op) ==
  /\ caller[op] # "renew"
  /\ \A w \in Worker : job[w] = op => pc[w] \notin {"renew_run", "renew_end"}
LatestExpiresAmid == {op \in Op : op = latest /\ latestLife = 1 /\ ~BetweenUpdates(op)}

Tick ==
  /\ life' = [op \in Op |-> Left(life[op])]
  /\ status' = [op \in Op |-> IF op \in Expired THEN "none" ELSE status[op]]
  /\ latestLife' = Left(latestLife)
  /\ latest' = IF latestLife <= 1 THEN "none" ELSE latest
  /\ lapsed' = lapsed \cup Expired \cup LatestExpiresAmid
  /\ UNCHANGED <<caller, queue, workers, cache, removed, raised, unsure, cut, newest>>

-----------------------------------------------------------------------------
(* The API.                                                                 *)

Begin(op) ==
  /\ caller[op] = "idle"
  /\ Call(op, "create")
  /\ UNCHANGED <<records, queue, workers, cache, hist>>

Create(op) ==
  /\ caller[op] = "create"
  /\ Record(op, "queued")
  /\ Call(op, "point")
  /\ removed' = [removed EXCEPT ![op] = {}]
  /\ UNCHANGED <<latest, latestLife, queue, workers, cache, raised, unsure, lapsed, cut, newest>>

PointLatest(op) ==
  /\ caller[op] = "point"
  /\ latest' = op /\ latestLife' = Ttl
  /\ newest' = op
  /\ Call(op, "send")
  /\ UNCHANGED <<status, life, queue, workers, cache, removed, raised, unsure, lapsed, cut>>

Send(op) ==
  /\ caller[op] = "send"
  /\ stream' = [stream EXCEPT ![op] = "waiting"]
  /\ Call(op, "accepted")
  /\ UNCHANGED <<records, deliveries, workers, cache, hist>>

\* Mutant: the failure is passed on and not recorded.
SendFailsUnrecorded(op) ==
  /\ caller[op] = "send"
  /\ \/ "send_fails" \in Faults /\ UNCHANGED <<stream, unsure>>
     \/ /\ "send_unknown" \in Faults
        /\ stream' = [stream EXCEPT ![op] = "waiting"]
        /\ unsure' = unsure \cup {op}
  /\ raised' = raised \cup {op}
  /\ Call(op, "refused")
  /\ UNCHANGED <<records, deliveries, workers, cache, removed, lapsed, cut, newest>>

\* The send raises, and the message may be on the stream all the same.
SendFails(op) ==
  /\ caller[op] = "send"
  /\ \/ "send_fails" \in Faults /\ UNCHANGED <<stream, unsure>>
     \/ /\ "send_unknown" \in Faults
        /\ stream' = [stream EXCEPT ![op] = "waiting"]
        /\ unsure' = unsure \cup {op}
  /\ raised' = raised \cup {op}
  /\ Call(op, "record")
  /\ UNCHANGED <<records, deliveries, workers, cache, removed, lapsed, cut, newest>>

RecordRefusal(op) ==
  /\ caller[op] = "record"
  /\ Record(op, "failed")
  /\ Call(op, "renew")
  /\ UNCHANGED <<latest, latestLife, queue, workers, cache, hist>>

RenewRefusal(op) ==
  /\ caller[op] = "renew"
  /\ RenewLatest
  /\ Call(op, "refused")
  /\ UNCHANGED <<status, life, latest, queue, workers, cache, hist>>

\* The store of the records fails under a call, or the API dies.
CutCall(op) ==
  /\ \/ "store_error" \in Faults /\ caller[op] \in {"create", "point", "record", "renew"}
        /\ Call(op, "refused")
     \/ "api_crash" \in Faults /\ caller[op] \in {"create", "point", "send", "record", "renew"}
        /\ Call(op, "dead")
  /\ cut' = cut \cup {op}
  /\ UNCHANGED <<records, queue, workers, cache, removed, raised, unsure, lapsed, newest>>

\* All keys of the domain go at once.
Clear ==
  /\ cache' = {}
  /\ removed' = [op \in Op |-> removed[op] \cup cache]
  /\ UNCHANGED <<records, caller, queue, workers, raised, unsure, lapsed, cut, newest>>

-----------------------------------------------------------------------------
(* The task stream and the worker.                                          *)

\* Mutant: a message is acknowledged when it is received.
HandAcknowledged(w, op) ==
  /\ pc[w] = "idle"
  /\ Goto(w, "get")
  /\ job' = [job EXCEPT ![w] = op]
  /\ stream' = [stream EXCEPT ![op] = "acked"]
  /\ deliveries' = [deliveries EXCEPT ![op] = @ + 1]
  /\ UNCHANGED <<records, caller, todo, cache, hist>>

Hand(w, op) ==
  /\ pc[w] = "idle"
  /\ Goto(w, "get")
  /\ job' = [job EXCEPT ![w] = op]
  /\ stream' = [stream EXCEPT ![op] = "pending"]
  /\ deliveries' = [deliveries EXCEPT ![op] = @ + 1]
  /\ UNCHANGED <<records, caller, todo, cache, hist>>

Deliver(w, op) == stream[op] = "waiting" /\ Hand(w, op)

Held(op) == \E w \in Worker : pc[w] # "idle" /\ job[w] = op

\* A message that has been pending for too long is handed to another worker: its own has
\* died, or is only slow.
Redeliver(w, op) ==
  /\ stream[op] = "pending" /\ deliveries[op] < MaxDeliveries
  /\ ~Held(op) \/ "slow" \in Faults
  /\ Hand(w, op)

\* An operation whose record is gone is not carried out.
GetOperation(w) ==
  /\ pc[w] = "get"
  /\ Goto(w, IF status[job[w]] = "none" THEN "ack" ELSE "run")
  /\ UNCHANGED <<records, caller, queue, job, todo, cache, hist>>

\* Whatever the record says by now, it says that the operation runs.
MarkRunning(w) ==
  /\ pc[w] = "run"
  /\ Record(job[w], "running")
  /\ todo' = [todo EXCEPT ![w] = Target]
  /\ Goto(w, "renew_run")
  /\ UNCHANGED <<latest, latestLife, caller, queue, job, cache, hist>>

Renew(w) ==
  /\ pc[w] \in {"renew_run", "renew_end"}
  /\ RenewLatest
  /\ Goto(w, IF pc[w] = "renew_end" THEN "ack" ELSE "warm")
  /\ UNCHANGED <<status, life, latest, caller, queue, job, todo, cache, hist>>

WriteTarget(w) ==
  /\ pc[w] = "warm"
  /\ \E t \in todo[w] :
       /\ cache' = cache \cup {t}
       /\ todo' = [todo EXCEPT ![w] = @ \ {t}]
  /\ Goto(w, IF Cardinality(todo[w]) = 1 THEN "succeed" ELSE "warm")
  /\ UNCHANGED <<records, caller, queue, job, hist>>

\* Mutant: a target that cannot be written is passed over.
WarmPassesOver(w) ==
  /\ "warm_fails" \in Faults /\ pc[w] = "warm"
  /\ \E t \in todo[w] : todo' = [todo EXCEPT ![w] = @ \ {t}]
  /\ Goto(w, IF Cardinality(todo[w]) = 1 THEN "succeed" ELSE "warm")
  /\ UNCHANGED <<records, caller, queue, job, cache, hist>>

WarmFails(w) ==
  /\ "warm_fails" \in Faults /\ pc[w] = "warm"
  /\ raised' = raised \cup {job[w]}
  /\ Goto(w, "fail")
  /\ UNCHANGED <<records, caller, queue, job, todo, cache, removed, unsure, lapsed, cut, newest>>

RecordEnd(w) ==
  /\ pc[w] \in {"succeed", "fail"}
  /\ Record(job[w], IF pc[w] = "succeed" THEN "succeeded" ELSE "failed")
  /\ Goto(w, "renew_end")
  /\ UNCHANGED <<latest, latestLife, caller, queue, job, todo, cache, hist>>

\* Mutant: the success is recorded where an error of the store counts as one of the warm.
CutWorkAsWarm(w) ==
  /\ "store_error" \in Faults
  /\ pc[w] \in {"get", "run", "renew_run", "succeed", "fail", "renew_end"}
  /\ cut' = cut \cup {job[w]}
  /\ IF pc[w] \in {"succeed", "renew_end"}
     THEN Goto(w, "fail") /\ raised' = raised \cup {job[w]}
     ELSE Goto(w, "ack") /\ UNCHANGED raised
  /\ UNCHANGED <<records, caller, queue, job, todo, cache, removed, unsure, lapsed, newest>>

\* The store of the records fails under a worker: the task raises and says so nowhere.
CutWork(w) ==
  /\ "store_error" \in Faults
  /\ pc[w] \in {"get", "run", "renew_run", "succeed", "fail", "renew_end"}
  /\ cut' = cut \cup {job[w]}
  /\ Goto(w, "ack")
  /\ UNCHANGED <<records, caller, queue, job, todo, cache, removed, raised, unsure, lapsed, newest>>

Rest(w) == /\ Goto(w, "idle")
           /\ job' = [job EXCEPT ![w] = "none"]
           /\ todo' = [todo EXCEPT ![w] = {}]

\* A task that raised is acknowledged like one that returned.
Acknowledge(w) ==
  /\ pc[w] = "ack"
  /\ stream' = [stream EXCEPT ![job[w]] = "acked"]
  /\ Rest(w)
  /\ UNCHANGED <<records, caller, deliveries, cache, hist>>

\* Bound: the last delivery of a message does not meet a crash.
Crash(w) ==
  /\ "crash" \in Faults /\ pc[w] # "idle"
  /\ deliveries[job[w]] < MaxDeliveries
  /\ cut' = IF pc[w] \in {"renew_run", "renew_end"} THEN cut \cup {job[w]} ELSE cut
  /\ Rest(w)
  /\ UNCHANGED <<records, caller, queue, cache, removed, raised, unsure, lapsed, newest>>

-----------------------------------------------------------------------------
Serve(op) ==
  \/ Create(op) \/ PointLatest(op) \/ Send(op) \/ SendFails(op)
  \/ RecordRefusal(op) \/ RenewRefusal(op)

Receive(w) == \E op \in Op : Deliver(w, op) \/ Redeliver(w, op)

Work(w) ==
  \/ GetOperation(w) \/ MarkRunning(w) \/ Renew(w) \/ WriteTarget(w)
  \/ WarmFails(w) \/ RecordEnd(w) \/ Acknowledge(w)

Backend ==
  \/ \E op \in Op : Serve(op) \/ CutCall(op)
  \/ \E w \in Worker : Receive(w) \/ Work(w) \/ CutWork(w) \/ Crash(w)

Next == Tick \/ Clear \/ Backend \/ \E op \in Op : Begin(op)

Spec == Init /\ [][Next]_vars

\* Every await returns, and workers keep asking for messages.  Nothing makes the clock go on:
\* what must happen does not wait for a record to expire.
BackendFairness ==
  /\ \A op \in Op : WF_vars(Serve(op))
  /\ \A w \in Worker : WF_vars(Work(w)) /\ WF_vars(Receive(w))
FairSpec == Spec /\ BackendFairness

-----------------------------------------------------------------------------
(* Properties.                                                              *)

\* Every variable keeps its type, and a record is there exactly while it has time left.
TypeOK ==
  /\ status \in [Op -> Status]
  /\ life \in [Op -> 0 .. Ttl]
  /\ \A op \in Op : life[op] = 0 <=> status[op] = "none"
  /\ latest \in Op \cup {"none"} /\ latestLife \in 0 .. Ttl
  /\ latestLife = 0 <=> latest = "none"
  /\ caller \in [Op -> CallerSteps]
  /\ stream \in [Op -> {"none", "waiting", "pending", "acked"}]
  /\ deliveries \in [Op -> 0 .. MaxDeliveries]
  /\ pc \in [Worker -> WorkerSteps]
  /\ job \in [Worker -> Op \cup {"none"}]
  /\ \A w \in Worker : pc[w] = "idle" <=> job[w] = "none"
  /\ todo \in [Worker -> SUBSET Target]
  /\ cache \subseteq Target
  /\ removed \in [Op -> SUBSET Target]
  /\ raised \subseteq Op /\ unsure \subseteq Op /\ lapsed \subseteq Op /\ cut \subseteq Op
  /\ newest \in Op \cup {"none"}

\* An operation recorded as succeeded has filled the cache, except for what was cleared
\* since, and one recorded as failed did raise.
OutcomeIsTrue ==
  \A op \in Op :
    /\ status[op] = "succeeded" => Target \subseteq cache \cup removed[op]
    /\ status[op] = "failed" => op \in raised

\* A recorded end stays as it is until it expires, unless the message was delivered twice
\* or had been sent by a call that thought it had not.
EndIsFinal ==
  [][\A op \in Op : status[op] \in Ended /\ status'[op] # status[op] =>
       status'[op] = "none" \/ deliveries[op] > 1 \/ op \in unsure]_vars

\* The latest key outlives the record of the operation made the latest last, from one
\* update of it to the next.
LatestOutlivesRecord ==
  \A op \in Op \ (lapsed \cup cut) :
    op = newest /\ status[op] # "none" /\ BetweenUpdates(op) =>
      latest = op /\ latestLife >= life[op]

\* Nobody waits for an operation that no worker will ever see: once its call is answered,
\* a queued operation has a message that is not yet acknowledged.
QueuedHasMessage ==
  \A op \in Op \ cut :
    status[op] = "queued" /\ caller[op] \in {"accepted", "refused"} =>
      stream[op] \in {"waiting", "pending"}

\* A warm that the API has accepted ends, however often its workers die, unless its record
\* expires or the store loses an update.
AcceptedWarmEnds ==
  \A op \in Op :
    caller[op] = "accepted" /\ status[op] \in Busy ~> status[op] \notin Busy \/ op \in cut
=============================================================================
