-------------------------- MODULE ToolsWidgetProofs --------------------------
(***************************************************************************)
(* Proofs about ToolsWidget, for any number of operations and workers, any *)
(* faults of the backend and any losses of answers.  What CacheWarmProofs  *)
(* proves of the backend holds under the widget too: the widget only takes *)
(* steps of the backend, or none.                                          *)
(***************************************************************************)
EXTENDS ToolsWidget, FiniteSetTheorems, TLAPS

P == INSTANCE CacheWarmProofs

-----------------------------------------------------------------------------
(* The inductive invariant: what the widget shows, what it has in flight    *)
(* and what the backend has begun.                                          *)

\* Until a load has been answered, the widget shows nothing and one load at most is in flight.
NothingYet ==
  ~shown =>
    /\ active = NoOperation /\ timer = "none" /\ error # "poll"
    /\ ~warming /\ ~clearing
    /\ \A r \in flight : r.kind = "load" /\ flight = {r} /\ loading /\ ~loadFailed

\* From then on, only the end of an operation makes the widget load again.
LoadsAfterEnds ==
  /\ shown => ~loadFailed
  /\ shown /\ active = NoOperation => \A r \in flight : r.kind # "load"

\* A request or a timer of the widget stands alone and is about what it shows.
Alone ==
  /\ \A r, q \in Chain : r = q
  /\ timer # "none" => Chain = {} /\ Running(active) /\ timer = active.op
  /\ \A r \in flight :
       /\ r.kind = "poll" => Running(active) /\ r.says.op = active.op
       /\ r.kind = "post" =>
            /\ ~Running(active) /\ reports[r.key] = 0
            /\ r.says \in {NoOperation, [op |-> r.key, status |-> "queued"]}
  /\ error = "poll" => ~ChainAlive
  /\ ~warming => ~ChainAlive /\ ~Running(active)

\* The end of an operation is announced when it is no longer shown as running.
Announced ==
  /\ \A op \in Op : reports[op] <= 1
  /\ active = NoOperation => \A op \in Op : reports[op] = 0
  /\ Running(active) => reports[active.op] = 0

\* Whatever the widget has heard of, a call of the API has begun.
HeardOf ==
  /\ latest # "none" => caller[latest] # "idle"
  /\ active # NoOperation => caller[active.op] # "idle"
  /\ \A op \in Op : reports[op] # 0 => caller[op] # "idle"
  /\ \A r \in flight : /\ r.kind = "post" => caller[r.key] # "idle"
                       /\ r.says # NoOperation => caller[r.says.op] # "idle"
                       /\ r.state = "named" => r.says # NoOperation

IInv == /\ TypeOK /\ P!IInv /\ NothingYet /\ LoadsAfterEnds /\ Alone /\ Announced /\ HeardOf

-----------------------------------------------------------------------------
(* The backend of the widget is the backend of CacheWarmProofs.             *)

\* It makes the same assumption about its constants.
LEMMA SameAssumption == P!CacheWarmAssumption /\ "none" \notin Op
BY ToolsWidgetAssumption
DEF W!CacheWarmAssumption, P!CacheWarmAssumption, W!IsFiniteSet, P!IsFiniteSet, W!Fault,
    P!Fault

\* The clock and the clearing of the cache.
LEMMA SameClock == (W!Tick => P!Tick) /\ (W!Clear => P!Clear)
BY DEF W!Tick, P!Tick, W!Clear, P!Clear, W!records, P!records, W!queue, P!queue, W!workers,
   P!workers, W!Left, P!Left, W!Expired, P!Expired, W!BetweenUpdates, P!BetweenUpdates,
   W!LatestExpiresAmid, P!LatestExpiresAmid

\* The calls of the API.
LEMMA SameCalls ==
  ASSUME NEW op \in Op
  PROVE  /\ W!Begin(op) => P!Begin(op)
         /\ W!Serve(op) => P!Serve(op)
         /\ W!CutCall(op) => P!CutCall(op)
<1>1. W!Begin(op) => P!Begin(op)
  BY DEF W!Begin, P!Begin, W!Call, P!Call, W!records, P!records, W!queue, P!queue,
     W!workers, P!workers, W!hist, P!hist
<1>2. W!Serve(op) => P!Serve(op)
  BY DEF W!Serve, P!Serve, W!Create, P!Create, W!PointLatest, P!PointLatest, W!Send,
     P!Send, W!SendFails, P!SendFails, W!RecordRefusal, P!RecordRefusal, W!RenewRefusal,
     P!RenewRefusal, W!Call, P!Call, W!Record, P!Record, W!RenewLatest, P!RenewLatest,
     W!records, P!records, W!queue, P!queue, W!workers, P!workers, W!hist, P!hist
<1>3. W!CutCall(op) => P!CutCall(op)
  BY DEF W!CutCall, P!CutCall, W!Call, P!Call, W!records, P!records, W!queue, P!queue,
     W!workers, P!workers
<1>. QED
  BY <1>1, <1>2, <1>3

\* The workers.
LEMMA SameWork ==
  ASSUME NEW w \in Worker
  PROVE  /\ W!Receive(w) => P!Receive(w)
         /\ W!Work(w) => P!Work(w)
         /\ W!CutWork(w) => P!CutWork(w)
         /\ W!Crash(w) => P!Crash(w)
<1>1. W!Receive(w) => P!Receive(w)
  BY DEF W!Receive, P!Receive, W!Deliver, P!Deliver, W!Redeliver, P!Redeliver, W!Hand,
     P!Hand, W!Held, P!Held, W!Goto, P!Goto, W!records, P!records, W!hist, P!hist
<1>2. W!Work(w) => P!Work(w)
  <2>1. W!GetOperation(w) => P!GetOperation(w)
    BY DEF W!GetOperation, P!GetOperation, W!Goto, P!Goto, W!records, P!records, W!queue,
       P!queue, W!hist, P!hist
  <2>2. W!MarkRunning(w) => P!MarkRunning(w)
    BY DEF W!MarkRunning, P!MarkRunning, W!Goto, P!Goto, W!Record, P!Record, W!queue,
       P!queue, W!hist, P!hist
  <2>3. W!Renew(w) => P!Renew(w)
    BY DEF W!Renew, P!Renew, W!Goto, P!Goto, W!RenewLatest, P!RenewLatest, W!queue,
       P!queue, W!hist, P!hist
  <2>4. W!WriteTarget(w) => P!WriteTarget(w)
    <3>1. W!Cardinality(todo[w]) = P!Cardinality(todo[w])
      BY DEF W!Cardinality, P!Cardinality
    <3>. QED
      BY <3>1
      DEF W!WriteTarget, P!WriteTarget, W!Goto, P!Goto, W!records, P!records, W!queue,
          P!queue, W!hist, P!hist
  <2>5. W!WarmFails(w) => P!WarmFails(w)
    BY DEF W!WarmFails, P!WarmFails, W!Goto, P!Goto, W!records, P!records, W!queue, P!queue
  <2>6. W!RecordEnd(w) => P!RecordEnd(w)
    BY DEF W!RecordEnd, P!RecordEnd, W!Goto, P!Goto, W!Record, P!Record, W!queue, P!queue,
       W!hist, P!hist
  <2>7. W!Acknowledge(w) => P!Acknowledge(w)
    BY DEF W!Acknowledge, P!Acknowledge, W!Goto, P!Goto, W!Rest, P!Rest, W!records,
       P!records, W!hist, P!hist
  <2>. QED
    BY <2>1, <2>2, <2>3, <2>4, <2>5, <2>6, <2>7 DEF W!Work, P!Work
<1>3. W!CutWork(w) => P!CutWork(w)
  BY DEF W!CutWork, P!CutWork, W!Goto, P!Goto, W!records, P!records, W!queue, P!queue
<1>4. W!Crash(w) => P!Crash(w)
  BY DEF W!Crash, P!Crash, W!Goto, P!Goto, W!Rest, P!Rest, W!records, P!records, W!queue,
     P!queue
<1>. QED
  BY <1>1, <1>2, <1>3, <1>4

\* A step of the widget is a step of the backend or none.
LEMMA BackendStep == [Next]_vars => [P!Next]_P!vars
<1>. SUFFICES ASSUME [Next]_vars PROVE [P!Next]_P!vars
  OBVIOUS
<1>1. CASE Server
  <2>1. W!Tick => P!Next
    BY SameClock DEF P!Next
  <2>2. ASSUME W!Backend PROVE P!Backend
    BY <2>2, SameCalls, SameWork DEF W!Backend, P!Backend
  <2>. QED
    BY <1>1, <2>1, <2>2 DEF Server, P!Next
<1>2. CASE StartCacheWarm
  BY <1>2, SameCalls DEF StartCacheWarm, P!Next
<1>3. ASSUME NEW r \in flight, ServeClear(r) PROVE P!Next
  BY <1>3, SameClock DEF ServeClear, P!Next
<1>4. CASE UNCHANGED backend
  BY <1>4 DEF backend, P!vars, P!records, P!queue, P!workers, P!hist
<1>. QED
  BY <1>1, <1>2, <1>3, <1>4
  DEF Next, vars, User, Open, Close, RetryLoad, ClearCache, RetryPoll, TimerFires, Answer,
      LoadAnswered, LoadFailed, ClearAnswered, WarmStarted, WarmNotStarted, PollAnswered,
      PollFails, ServeRequest, ServePost, ServePoll, ServeLoad

\* It starts like the backend.
LEMMA BackendInit == Init => P!Init
BY DEF Init, W!Init, P!Init

\* So every invariant of the backend holds under the widget.
LEMMA BackendInv == P!IInv /\ [Next]_vars => P!IInv'
BY BackendStep, SameAssumption, P!StepIInv

-----------------------------------------------------------------------------
(* Types.                                                                   *)

\* The state of a request.
LEMMA RequestFacts ==
  ASSUME NEW r \in Requests
  PROVE  /\ r.kind \in {"post", "poll", "load", "clear"}
         /\ r.kind = "post" => r.key \in Op /\ r.state \in {"asked", "answered"}
         /\ r.kind = "poll" => r.key \in Slots /\ r.state \in {"asked", "answered", "missing"}
         /\ r.kind = "load" => r.key \in LoadKeys /\ r.state \in {"asked", "named", "answered"}
         /\ r.kind = "clear" => r.state \in {"asked", "answered"}
         /\ r.says \in Operation
BY DEF Requests, Operation

\* What is said of an operation: that there is none, or one, busy or ended.
LEMMA OperationFacts ==
  ASSUME NEW o \in Operation
  PROVE  /\ o # NoOperation => o.op \in Op /\ o.status \in W!Busy \cup W!Ended
         /\ Running(o) => o # NoOperation
         /\ o = NoOperation => o.op = "none" /\ o.status = "none"
BY DEF Operation, NoOperation, Running, W!Busy

\* Calls of the API go on, and the latest key names an operation whose call has begun.
LEMMA CallsGoOn ==
  ASSUME P!IInv, [P!Next]_P!vars
  PROVE  /\ \A op \in Op : caller[op] # "idle" => caller'[op] # "idle"
         /\ latest' \in {latest, "none"} \/ caller'[latest'] # "idle"
<1>. USE DEF P!IInv, P!TypeOK
<1>1. ASSUME P!Tick PROVE caller' = caller /\ latest' \in {latest, "none"}
  BY <1>1 DEF P!Tick
<1>2. ASSUME NEW op \in Op, P!Begin(op) \/ P!Serve(op) \/ P!CutCall(op)
      PROVE  /\ caller'[op] # "idle" /\ \A o \in Op \ {op} : caller'[o] = caller[o]
             /\ latest' \in {latest, op}
  BY <1>2
  DEF P!Begin, P!Serve, P!CutCall, P!Create, P!PointLatest, P!Send, P!SendFails,
      P!RecordRefusal, P!RenewRefusal, P!Call, P!records
<1>3. ASSUME NEW w \in Worker, P!Receive(w) \/ P!Work(w) \/ P!CutWork(w) \/ P!Crash(w)
      PROVE  caller' = caller /\ latest' = latest
  BY <1>3
  DEF P!Receive, P!Deliver, P!Redeliver, P!Hand, P!Work, P!GetOperation, P!MarkRunning,
      P!Renew, P!WriteTarget, P!WarmFails, P!RecordEnd, P!Acknowledge, P!CutWork, P!Crash,
      P!records
<1>4. ASSUME P!Clear \/ UNCHANGED P!vars PROVE caller' = caller /\ latest' = latest
  BY <1>4 DEF P!Clear, P!vars, P!records
<1>. QED
  BY <1>1, <1>2, <1>3, <1>4 DEF P!Next, P!Backend

\* What the widget needs to know of the backend.
LEMMA BackendFacts ==
  ASSUME P!IInv
  PROVE  /\ caller \in [Op -> P!CallerSteps] /\ status \in [Op -> P!Status]
         /\ latest \in Op \cup {"none"}
         /\ \A op \in Op : caller[op] = "idle" => status[op] = "none"
BY DEF P!IInv, P!TypeOK, P!Unsent

\* Every request the widget makes is well typed.
LEMMA NewRequests ==
  /\ \A key \in LoadKeys : Load(key) \in Requests
  /\ \A op \in Op : Asked("post", op, NoOperation) \in Requests
  /\ \A op \in Op, s \in Slots : Asked("poll", s, [op |-> op, status |-> "queued"]) \in Requests
  /\ Asked("clear", "clear", NoOperation) \in Requests
<1>1. NoOperation \in Operation /\ \A op \in Op : [op |-> op, status |-> "queued"] \in Operation
  BY DEF Operation, W!Busy
<1>. QED
  BY <1>1 DEF Load, Asked, Requests

\* So is every answer.
LEMMA Answers ==
  ASSUME NEW r \in Requests, NEW o \in Operation
  PROVE  /\ Answered(r, o).state = "answered"
         /\ Answered(r, o).kind = r.kind /\ Answered(r, o).key = r.key /\ Answered(r, o).says = o
         /\ r.kind # "clear" \/ o = NoOperation => Answered(r, o) \in Requests
         /\ r.kind = "poll" => [r EXCEPT !.state = "missing"] \in Requests
         /\ r.kind = "load" => [r EXCEPT !.state = "named", !.says = o] \in Requests
BY DEF Requests, Answered

\* The request r has become q, which is about the same operation if it is not a load, and says
\* nothing of operations that have not begun.
Becomes(r, q) ==
  /\ q \in Requests
  /\ flight' = (flight \ {r}) \cup {q}
  /\ q.kind = r.kind /\ q.key = r.key
  /\ r.kind = "poll" => q.says.op = r.says.op
  /\ r.kind = "post" => q.says \in {NoOperation, [op |-> r.key, status |-> "queued"]}
  /\ q.says # NoOperation => caller[q.says.op] # "idle"
  /\ q.state = "named" => q.says # NoOperation

\* A record can be found of what has begun only.
LEMMA RecordFacts ==
  ASSUME IInv, NEW op \in Op
  PROVE  /\ RecordOf(op) \in Operation
         /\ RecordOf(op) # NoOperation => RecordOf(op).op = op /\ caller[op] # "idle"
BY BackendFacts DEF IInv, Operation, RecordOf, W!Busy, W!Ended, P!Status, P!Busy, P!Ended

\* Serving a request leaves what it is about.
LEMMA Served ==
  ASSUME IInv, NEW r \in flight, ServeRequest(r)
  PROVE  UNCHANGED <<open, view>> /\ \E q : Becomes(r, q)
<1>1. r \in Requests /\ r.says \in Operation /\ NoOperation \in Operation
  BY RequestFacts DEF IInv, TypeOK, Operation
<1>2. ASSUME NEW o \in Operation, flight' = (flight \ {r}) \cup {Answered(r, o)},
             r.kind = "poll" => o.op = r.says.op,
             r.kind = "post" => o \in {NoOperation, [op |-> r.key, status |-> "queued"]},
             r.kind = "clear" => o = NoOperation,
             o # NoOperation => caller[o.op] # "idle"
      PROVE  Becomes(r, Answered(r, o))
  BY <1>1, <1>2, Answers DEF Becomes
<1>3. CASE ServePost(r)
  <2>1. r.kind = "post" /\ r.key \in Op /\ UNCHANGED <<open, view>>
    BY <1>1, <1>3, RequestFacts DEF ServePost
  <2>2. CASE caller[r.key] = "accepted"
    <3>1. [op |-> r.key, status |-> "queued"] \in Operation
      BY <2>1 DEF Operation, W!Busy
    <3>2. Becomes(r, Answered(r, [op |-> r.key, status |-> "queued"]))
      BY <1>2, <1>3, <2>1, <2>2, <3>1 DEF ServePost, Replace
    <3>. QED
      BY <2>1, <3>2
  <2>3. CASE caller[r.key] # "accepted"
    <3>1. Becomes(r, Answered(r, NoOperation))
      BY <1>1, <1>2, <1>3, <2>1, <2>3 DEF ServePost, Replace
    <3>. QED
      BY <2>1, <3>1
  <2>. QED
    BY <2>2, <2>3
<1>4. CASE ServePoll(r)
  <2>1. r.kind = "poll" /\ UNCHANGED <<open, view>>
    BY <1>4 DEF ServePoll
  <2>2. r.says.op \in Op
    BY <1>1, <2>1, OperationFacts DEF IInv, TypeOK, Alone
  <2>3. CASE RecordOf(r.says.op) = NoOperation
    <3>. DEFINE q == [r EXCEPT !.state = "missing"]
    <3>1. flight' = (flight \ {r}) \cup {q} /\ q \in Requests
      BY <1>1, <1>4, <2>1, <2>3, Answers DEF ServePoll, Replace
    <3>2. q.kind = r.kind /\ q.key = r.key /\ q.says = r.says /\ q.state = "missing"
      BY <1>1 DEF Requests
    <3>. HIDE DEF q
    <3>3. Becomes(r, q)
      BY <2>1, <3>1, <3>2 DEF IInv, HeardOf, Becomes
    <3>. QED
      BY <2>1, <3>3
  <2>4. CASE RecordOf(r.says.op) # NoOperation
    <3>1. Becomes(r, Answered(r, RecordOf(r.says.op)))
      BY <1>2, <1>4, <2>1, <2>2, <2>4, RecordFacts DEF ServePoll, Replace
    <3>. QED
      BY <2>1, <3>1
  <2>. QED
    BY <2>3, <2>4
<1>5. CASE ServeLoad(r)
  <2>1. r.kind = "load" /\ UNCHANGED <<open, view>>
    BY <1>5 DEF ServeLoad
  <2>2. CASE latest = "none" /\ flight' = (flight \ {r}) \cup {Answered(r, NoOperation)}
    <3>1. Becomes(r, Answered(r, NoOperation))
      BY <1>1, <1>2, <2>1, <2>2
    <3>. QED
      BY <2>1, <3>1
  <2>3. CASE latest # "none" /\ flight' = (flight \ {r}) \cup
               {[r EXCEPT !.state = "named", !.says = [op |-> latest, status |-> "queued"]]}
    <3>. DEFINE o == [op |-> latest, status |-> "queued"]
                q == [r EXCEPT !.state = "named", !.says = o]
    <3>1. o \in Operation /\ o # NoOperation /\ caller[o.op] # "idle"
      BY <2>3, BackendFacts DEF IInv, HeardOf, Operation, NoOperation, W!Busy
    <3>2. q \in Requests
      BY <1>1, <2>1, <3>1, Answers
    <3>3. q.kind = r.kind /\ q.key = r.key /\ q.says = o
      BY <1>1 DEF Requests
    <3>4. flight' = (flight \ {r}) \cup {q}
      BY <2>3
    <3>. HIDE DEF o, q
    <3>5. Becomes(r, q)
      BY <2>1, <3>1, <3>2, <3>3, <3>4 DEF Becomes
    <3>. QED
      BY <2>1, <3>5
  <2>4. CASE r.state = "named" /\ flight' = (flight \ {r}) \cup {Answered(r, RecordOf(r.says.op))}
    <3>1. r.says.op \in Op
      BY <1>1, <2>4, OperationFacts DEF IInv, HeardOf
    <3>2. Becomes(r, Answered(r, RecordOf(r.says.op)))
      BY <1>2, <2>1, <2>4, <3>1, RecordFacts
    <3>. QED
      BY <2>1, <3>2
  <2>. QED
    BY <1>5, <2>2, <2>3, <2>4 DEF ServeLoad, Replace
<1>6. CASE ServeClear(r)
  <2>1. r.kind = "clear" /\ UNCHANGED <<open, view>>
    BY <1>6 DEF ServeClear
  <2>2. Becomes(r, Answered(r, NoOperation))
    BY <1>1, <1>2, <1>6, <2>1 DEF ServeClear, Replace
  <2>. QED
    BY <2>1, <2>2
<1>. QED
  BY <1>3, <1>4, <1>5, <1>6 DEF ServeRequest

\* Every step keeps every variable of the widget in its type.
LEMMA TypeOKStep == IInv /\ [Next]_vars => TypeOK'
<1>. SUFFICES ASSUME IInv, [Next]_vars PROVE TypeOK'
  OBVIOUS
<1>0. NoOperation \in Operation /\ "open" \in LoadKeys /\ Op \subseteq LoadKeys
  BY DEF Operation, LoadKeys
<1>1. ASSUME Open PROVE TypeOK'
  <2>1. flight' \subseteq Requests
    BY <1>0, <1>1, NewRequests DEF Open
  <2>2. /\ open' \in BOOLEAN /\ shown' \in BOOLEAN /\ loading' \in BOOLEAN
        /\ loadFailed' \in BOOLEAN /\ clearing' \in BOOLEAN /\ warming' \in BOOLEAN
    BY <1>1 DEF Open, Blank
  <2>3. /\ error' \in Errors /\ active' \in Operation
        /\ timer' \in Op \cup {"none"} /\ reports' \in [Op -> 0 .. 2]
    BY <1>0, <1>1 DEF Open, Blank, Errors
  <2>. QED
    BY <2>1, <2>2, <2>3 DEF TypeOK
<1>2. ASSUME Close PROVE TypeOK'
  <2>1. flight' \subseteq Requests
    BY <1>2 DEF Close
  <2>2. /\ open' \in BOOLEAN /\ shown' \in BOOLEAN /\ loading' \in BOOLEAN
        /\ loadFailed' \in BOOLEAN /\ clearing' \in BOOLEAN /\ warming' \in BOOLEAN
    BY <1>2 DEF Close, Blank
  <2>3. /\ error' \in Errors /\ active' \in Operation
        /\ timer' \in Op \cup {"none"} /\ reports' \in [Op -> 0 .. 2]
    BY <1>0, <1>2 DEF Close, Blank, Errors
  <2>. QED
    BY <2>1, <2>2, <2>3 DEF TypeOK
<1>3. ASSUME RetryLoad PROVE TypeOK'
  <2>1. flight' \subseteq Requests
    BY <1>0, <1>3, NewRequests DEF RetryLoad, IInv, TypeOK
  <2>2. /\ open' \in BOOLEAN /\ shown' \in BOOLEAN /\ loading' \in BOOLEAN
        /\ loadFailed' \in BOOLEAN /\ clearing' \in BOOLEAN /\ warming' \in BOOLEAN
    BY <1>3 DEF RetryLoad, IInv, TypeOK
  <2>3. /\ error' \in Errors /\ active' \in Operation
        /\ timer' \in Op \cup {"none"} /\ reports' \in [Op -> 0 .. 2]
    BY <1>3 DEF RetryLoad, IInv, TypeOK
  <2>. QED
    BY <2>1, <2>2, <2>3 DEF TypeOK
<1>4. ASSUME ClearCache PROVE TypeOK'
  BY <1>4, NewRequests DEF ClearCache, IInv, TypeOK, Errors
<1>5. ASSUME StartCacheWarm PROVE TypeOK'
  BY <1>5, NewRequests DEF StartCacheWarm, IInv, TypeOK, Errors
<1>6. ASSUME RetryPoll PROVE TypeOK'
  BY <1>6, NewRequests
  DEF RetryPoll, Poll, IInv, TypeOK, Running, NoOperation, Operation, Errors, W!Busy
<1>7. ASSUME TimerFires PROVE TypeOK'
  BY <1>7, NewRequests DEF TimerFires, Poll, IInv, TypeOK
<1>8. ASSUME NEW r \in flight, LoadAnswered(r) PROVE TypeOK'
  <2>1. flight' \subseteq Requests
    BY <1>8 DEF LoadAnswered, IInv, TypeOK
  <2>2. /\ open' \in BOOLEAN /\ shown' \in BOOLEAN /\ loading' \in BOOLEAN
        /\ loadFailed' \in BOOLEAN /\ clearing' \in BOOLEAN /\ warming' \in BOOLEAN
    BY <1>8 DEF LoadAnswered, IInv, TypeOK
  <2>3. /\ error' \in Errors /\ active' \in Operation
        /\ timer' \in Op \cup {"none"} /\ reports' \in [Op -> 0 .. 2]
    BY <1>8, RequestFacts, OperationFacts DEF LoadAnswered, IInv, TypeOK
  <2>. QED
    BY <2>1, <2>2, <2>3 DEF TypeOK
<1>9. ASSUME NEW r \in flight, LoadFailed(r) PROVE TypeOK'
  BY <1>9 DEF LoadFailed, IInv, TypeOK, Errors
<1>10. ASSUME NEW r \in flight, ClearAnswered(r) PROVE TypeOK'
  BY <1>10 DEF ClearAnswered, IInv, TypeOK, Errors
<1>11. ASSUME NEW r \in flight, WarmStarted(r) PROVE TypeOK'
  BY <1>11, RequestFacts DEF WarmStarted, HandleWarmOperation, IInv, TypeOK, Alone, W!Busy
<1>12. ASSUME NEW r \in flight, WarmNotStarted(r) PROVE TypeOK'
  BY <1>12 DEF WarmNotStarted, IInv, TypeOK, Errors
<1>13. ASSUME NEW r \in flight, PollAnswered(r) PROVE TypeOK'
  <2>. r.says \in Operation /\ r.says.op \in Op
    BY <1>13, RequestFacts, OperationFacts DEF PollAnswered, IInv, TypeOK, Alone
  <2>1. flight' \subseteq Requests
    BY <1>0, <1>13, NewRequests DEF PollAnswered, HandleWarmOperation, IInv, TypeOK
  <2>2. /\ open' \in BOOLEAN /\ shown' \in BOOLEAN /\ loading' \in BOOLEAN
        /\ loadFailed' \in BOOLEAN /\ clearing' \in BOOLEAN /\ warming' \in BOOLEAN
    BY <1>13 DEF PollAnswered, HandleWarmOperation, IInv, TypeOK
  <2>3. /\ error' \in Errors /\ active' \in Operation
        /\ timer' \in Op \cup {"none"} /\ reports' \in [Op -> 0 .. 2]
    BY <1>13 DEF PollAnswered, HandleWarmOperation, IInv, TypeOK, Errors
  <2>. QED
    BY <2>1, <2>2, <2>3 DEF TypeOK
<1>14. ASSUME NEW r \in flight, PollFails(r) PROVE TypeOK'
  BY <1>14 DEF PollFails, IInv, TypeOK, Errors
<1>15. ASSUME NEW r \in flight, ServeRequest(r) PROVE TypeOK'
  BY <1>15, Served DEF Becomes, view, IInv, TypeOK
<1>16. ASSUME Server, UNCHANGED <<open, flight, view>> PROVE TypeOK'
  BY <1>16 DEF view, IInv, TypeOK
<1>17. ASSUME UNCHANGED vars PROVE TypeOK'
  BY <1>17 DEF vars, view, IInv, TypeOK
<1>. QED
  BY <1>1, <1>2, <1>3, <1>4, <1>5, <1>6, <1>7, <1>8, <1>9, <1>10, <1>11, <1>12, <1>13,
     <1>14, <1>15, <1>16, <1>17
  DEF Next, User, Answer

\* The first answer that can show something is that of a load.
LEMMA NothingYetStep == IInv /\ TypeOK' /\ [Next]_vars => NothingYet'
<1>. SUFFICES ASSUME IInv, TypeOK', [Next]_vars PROVE NothingYet'
  OBVIOUS
<1>1. ASSUME Open PROVE NothingYet'
  BY <1>1 DEF Open, Blank, Load, NothingYet
<1>2. ASSUME Close PROVE NothingYet'
  BY <1>2 DEF Close, Blank, NothingYet
<1>3. ASSUME RetryLoad PROVE NothingYet'
  BY <1>3 DEF RetryLoad, Load, IInv, NothingYet
<1>4. ASSUME ClearCache PROVE NothingYet'
  BY <1>4 DEF ClearCache, ActionsDisabled, NothingYet
<1>5. ASSUME StartCacheWarm PROVE NothingYet'
  BY <1>5 DEF StartCacheWarm, ActionsDisabled, NothingYet
<1>6. ASSUME RetryPoll PROVE NothingYet'
  BY <1>6 DEF RetryPoll, IInv, NothingYet
<1>7. ASSUME TimerFires PROVE NothingYet'
  BY <1>7 DEF TimerFires, IInv, NothingYet
<1>8. ASSUME NEW r \in flight, LoadAnswered(r) PROVE NothingYet'
  BY <1>8 DEF LoadAnswered, NothingYet
<1>9. ASSUME NEW r \in flight, LoadFailed(r) PROVE NothingYet'
  BY <1>9 DEF LoadFailed, IInv, NothingYet
<1>10. ASSUME NEW r \in flight, ClearAnswered(r) PROVE NothingYet'
  BY <1>10 DEF ClearAnswered, IInv, NothingYet
<1>11. ASSUME NEW r \in flight, WarmStarted(r) PROVE NothingYet'
  BY <1>11 DEF WarmStarted, IInv, NothingYet
<1>12. ASSUME NEW r \in flight, WarmNotStarted(r) PROVE NothingYet'
  BY <1>12 DEF WarmNotStarted, IInv, NothingYet
<1>13. ASSUME NEW r \in flight, PollAnswered(r) PROVE NothingYet'
  BY <1>13 DEF PollAnswered, IInv, NothingYet
<1>14. ASSUME NEW r \in flight, PollFails(r) PROVE NothingYet'
  BY <1>14 DEF PollFails, IInv, NothingYet
<1>15. ASSUME NEW r \in flight, ServeRequest(r) PROVE NothingYet'
  BY <1>15, Served DEF Becomes, view, IInv, NothingYet
<1>16. ASSUME Server, UNCHANGED <<open, flight, view>> PROVE NothingYet'
  BY <1>16 DEF view, IInv, NothingYet
<1>17. ASSUME UNCHANGED vars PROVE NothingYet'
  BY <1>17 DEF vars, view, IInv, NothingYet
<1>. QED
  BY <1>1, <1>2, <1>3, <1>4, <1>5, <1>6, <1>7, <1>8, <1>9, <1>10, <1>11, <1>12, <1>13,
     <1>14, <1>15, <1>16, <1>17
  DEF Next, User, Answer

\* A widget that has shown something has loaded, and loads again when a warm has ended.
LEMMA LoadsAfterEndsStep == IInv /\ TypeOK' /\ [Next]_vars => LoadsAfterEnds'
<1>. SUFFICES ASSUME IInv, TypeOK', [Next]_vars PROVE LoadsAfterEnds'
  OBVIOUS
<1>1. ASSUME Open PROVE LoadsAfterEnds'
  BY <1>1 DEF Open, Blank, LoadsAfterEnds
<1>2. ASSUME Close PROVE LoadsAfterEnds'
  BY <1>2 DEF Close, Blank, LoadsAfterEnds
<1>3. ASSUME RetryLoad PROVE LoadsAfterEnds'
  BY <1>3 DEF RetryLoad, IInv, LoadsAfterEnds
<1>4. ASSUME ClearCache PROVE LoadsAfterEnds'
  BY <1>4 DEF ClearCache, Asked, IInv, LoadsAfterEnds
<1>5. ASSUME StartCacheWarm PROVE LoadsAfterEnds'
  BY <1>5 DEF StartCacheWarm, Asked, IInv, LoadsAfterEnds
<1>6. ASSUME RetryPoll PROVE LoadsAfterEnds'
  BY <1>6 DEF RetryPoll, Poll, Asked, IInv, LoadsAfterEnds
<1>7. ASSUME TimerFires PROVE LoadsAfterEnds'
  BY <1>7 DEF TimerFires, Poll, Asked, IInv, LoadsAfterEnds
<1>8. ASSUME NEW r \in flight, LoadAnswered(r) PROVE LoadsAfterEnds'
  BY <1>8 DEF LoadAnswered, IInv, NothingYet, LoadsAfterEnds
<1>9. ASSUME NEW r \in flight, LoadFailed(r) PROVE LoadsAfterEnds'
  BY <1>9 DEF LoadFailed, IInv, LoadsAfterEnds
<1>10. ASSUME NEW r \in flight, ClearAnswered(r) PROVE LoadsAfterEnds'
  BY <1>10 DEF ClearAnswered, IInv, NothingYet, LoadsAfterEnds
<1>11. ASSUME NEW r \in flight, WarmStarted(r) PROVE LoadsAfterEnds'
  BY <1>11 DEF WarmStarted, HandleWarmOperation, IInv, LoadsAfterEnds
<1>12. ASSUME NEW r \in flight, WarmNotStarted(r) PROVE LoadsAfterEnds'
  BY <1>12 DEF WarmNotStarted, IInv, LoadsAfterEnds
<1>13. ASSUME NEW r \in flight, PollAnswered(r) PROVE LoadsAfterEnds'
  BY <1>13, SameAssumption, OperationFacts
  DEF PollAnswered, HandleWarmOperation, IInv, TypeOK, LoadsAfterEnds, Alone
<1>14. ASSUME NEW r \in flight, PollFails(r) PROVE LoadsAfterEnds'
  BY <1>14 DEF PollFails, IInv, LoadsAfterEnds
<1>15. ASSUME NEW r \in flight, ServeRequest(r) PROVE LoadsAfterEnds'
  BY <1>15, Served DEF Becomes, view, IInv, LoadsAfterEnds
<1>16. ASSUME Server, UNCHANGED <<open, flight, view>> PROVE LoadsAfterEnds'
  BY <1>16 DEF view, IInv, LoadsAfterEnds
<1>17. ASSUME UNCHANGED vars PROVE LoadsAfterEnds'
  BY <1>17 DEF vars, view, IInv, LoadsAfterEnds
<1>. QED
  BY <1>1, <1>2, <1>3, <1>4, <1>5, <1>6, <1>7, <1>8, <1>9, <1>10, <1>11, <1>12, <1>13,
     <1>14, <1>15, <1>16, <1>17
  DEF Next, User, Answer

\* Requests and timers follow each other.
LEMMA AloneStep == IInv /\ TypeOK' /\ [Next]_vars => Alone'
<1>. SUFFICES ASSUME IInv, TypeOK', [Next]_vars PROVE Alone'
  OBVIOUS
<1>1. ASSUME Open PROVE Alone'
  BY <1>1 DEF Open, Blank, Load, Alone, Chain, ChainAlive, Running, NoOperation, W!Busy
<1>2. ASSUME Close PROVE Alone'
  BY <1>2 DEF Close, Blank, Alone, Chain, ChainAlive, Running, NoOperation, W!Busy
<1>3. ASSUME RetryLoad PROVE Alone'
  BY <1>3 DEF RetryLoad, Load, IInv, Alone, Chain, ChainAlive
<1>4. ASSUME ClearCache PROVE Alone'
  BY <1>4 DEF ClearCache, Asked, IInv, Alone, Chain, ChainAlive
<1>5. ASSUME StartCacheWarm PROVE Alone'
  BY <1>5
  DEF StartCacheWarm, W!Begin, Asked, ActionsDisabled, MutationActive, IInv, Alone,
      HeardOf, Chain, ChainAlive
<1>6. ASSUME RetryPoll PROVE Alone'
  BY <1>6 DEF RetryPoll, Poll, Asked, IInv, Alone, Chain, ChainAlive
<1>7. ASSUME TimerFires PROVE Alone'
  BY <1>7 DEF TimerFires, Poll, Asked, IInv, Alone, Chain, ChainAlive
<1>8. ASSUME NEW r \in flight, LoadAnswered(r) PROVE Alone'
  BY <1>8 DEF LoadAnswered, IInv, NothingYet, LoadsAfterEnds, Alone, Chain, ChainAlive
<1>9. ASSUME NEW r \in flight, LoadFailed(r) PROVE Alone'
  BY <1>9 DEF LoadFailed, IInv, Alone, Chain, ChainAlive
<1>10. ASSUME NEW r \in flight, ClearAnswered(r) PROVE Alone'
  BY <1>10 DEF ClearAnswered, IInv, Alone, Chain, ChainAlive
<1>11. ASSUME NEW r \in flight, WarmStarted(r) PROVE Alone'
  BY <1>11 DEF WarmStarted, HandleWarmOperation, Load, IInv, Alone, Chain, ChainAlive, Running
<1>12. ASSUME NEW r \in flight, WarmNotStarted(r) PROVE Alone'
  BY <1>12 DEF WarmNotStarted, IInv, Alone, Chain, ChainAlive
<1>13. ASSUME NEW r \in flight, PollAnswered(r) PROVE Alone'
  BY <1>13 DEF PollAnswered, HandleWarmOperation, Load, IInv, Alone, Chain, ChainAlive, Running
<1>14. ASSUME NEW r \in flight, PollFails(r) PROVE Alone'
  BY <1>14 DEF PollFails, IInv, Alone, Chain, ChainAlive
<1>15. ASSUME NEW r \in flight, ServeRequest(r) PROVE Alone'
  BY <1>15, Served DEF Becomes, view, IInv, Alone, Chain, ChainAlive
<1>16. ASSUME Server, UNCHANGED <<open, flight, view>> PROVE Alone'
  BY <1>16 DEF view, IInv, Alone, Chain, ChainAlive
<1>17. ASSUME UNCHANGED vars PROVE Alone'
  BY <1>17 DEF vars, view, IInv, Alone, Chain, ChainAlive
<1>. QED
  BY <1>1, <1>2, <1>3, <1>4, <1>5, <1>6, <1>7, <1>8, <1>9, <1>10, <1>11, <1>12, <1>13,
     <1>14, <1>15, <1>16, <1>17
  DEF Next, User, Answer

\* An end is announced by the poll that finds it.
LEMMA AnnouncedStep == IInv /\ TypeOK' /\ [Next]_vars => Announced'
<1>. SUFFICES ASSUME IInv, TypeOK', [Next]_vars PROVE Announced'
  OBVIOUS
<1>1. ASSUME Open PROVE Announced'
  BY <1>1 DEF Open, Blank, Announced, Running, NoOperation, W!Busy
<1>2. ASSUME Close PROVE Announced'
  BY <1>2 DEF Close, Blank, Announced, Running, NoOperation, W!Busy
<1>3. ASSUME RetryLoad PROVE Announced'
  BY <1>3 DEF RetryLoad, IInv, Announced
<1>4. ASSUME ClearCache PROVE Announced'
  BY <1>4 DEF ClearCache, IInv, Announced
<1>5. ASSUME StartCacheWarm PROVE Announced'
  BY <1>5 DEF StartCacheWarm, IInv, Announced
<1>6. ASSUME RetryPoll PROVE Announced'
  BY <1>6 DEF RetryPoll, IInv, Announced
<1>7. ASSUME TimerFires PROVE Announced'
  BY <1>7 DEF TimerFires, IInv, Announced
<1>8. ASSUME NEW r \in flight, LoadAnswered(r) PROVE Announced'
  BY <1>8, OperationFacts DEF LoadAnswered, IInv, TypeOK, Announced
<1>9. ASSUME NEW r \in flight, LoadFailed(r) PROVE Announced'
  BY <1>9 DEF LoadFailed, IInv, Announced
<1>10. ASSUME NEW r \in flight, ClearAnswered(r) PROVE Announced'
  BY <1>10 DEF ClearAnswered, IInv, Announced
<1>11. ASSUME NEW r \in flight, WarmStarted(r) PROVE Announced'
  BY <1>11 DEF WarmStarted, HandleWarmOperation, IInv, TypeOK, Alone, Announced, Running
<1>12. ASSUME NEW r \in flight, WarmNotStarted(r) PROVE Announced'
  BY <1>12 DEF WarmNotStarted, IInv, Announced
<1>13. ASSUME NEW r \in flight, PollAnswered(r) PROVE Announced'
  BY <1>13, SameAssumption, OperationFacts
  DEF PollAnswered, HandleWarmOperation, IInv, TypeOK, Alone, Announced, Running
<1>14. ASSUME NEW r \in flight, PollFails(r) PROVE Announced'
  BY <1>14 DEF PollFails, IInv, Announced
<1>15. ASSUME NEW r \in flight, ServeRequest(r) PROVE Announced'
  BY <1>15, Served DEF Becomes, view, IInv, Announced
<1>16. ASSUME Server, UNCHANGED <<open, flight, view>> PROVE Announced'
  BY <1>16 DEF view, IInv, Announced
<1>17. ASSUME UNCHANGED vars PROVE Announced'
  BY <1>17 DEF vars, view, IInv, Announced
<1>. QED
  BY <1>1, <1>2, <1>3, <1>4, <1>5, <1>6, <1>7, <1>8, <1>9, <1>10, <1>11, <1>12, <1>13,
     <1>14, <1>15, <1>16, <1>17
  DEF Next, User, Answer

\* The widget hears of what has begun.
LEMMA HeardOfStep == IInv /\ TypeOK' /\ [Next]_vars => HeardOf'
<1>. SUFFICES ASSUME IInv, TypeOK', [Next]_vars PROVE HeardOf'
  OBVIOUS
<1>1. ASSUME Open PROVE HeardOf'
  BY <1>1, CallsGoOn DEF Open, Blank, Load, backend, IInv, HeardOf
<1>2. ASSUME Close PROVE HeardOf'
  BY <1>2, CallsGoOn DEF Close, Blank, backend, IInv, HeardOf
<1>3. ASSUME RetryLoad PROVE HeardOf'
  BY <1>3, CallsGoOn DEF RetryLoad, Load, backend, IInv, HeardOf
<1>4. ASSUME ClearCache PROVE HeardOf'
  BY <1>4, CallsGoOn DEF ClearCache, Asked, backend, IInv, HeardOf
<1>5. ASSUME StartCacheWarm PROVE HeardOf'
  BY <1>5, BackendFacts, BackendStep, CallsGoOn
  DEF StartCacheWarm, W!Begin, W!Call, Asked, IInv, HeardOf
<1>6. ASSUME RetryPoll PROVE HeardOf'
  BY <1>6, CallsGoOn
  DEF RetryPoll, Poll, Asked, backend, IInv, HeardOf, Running, NoOperation, W!Busy
<1>7. ASSUME TimerFires PROVE HeardOf'
  BY <1>7, CallsGoOn DEF TimerFires, Poll, Asked, backend, IInv, Alone, HeardOf, NoOperation
<1>8. ASSUME NEW r \in flight, LoadAnswered(r) PROVE HeardOf'
  BY <1>8, CallsGoOn DEF LoadAnswered, backend, IInv, HeardOf
<1>9. ASSUME NEW r \in flight, LoadFailed(r) PROVE HeardOf'
  BY <1>9, CallsGoOn DEF LoadFailed, backend, IInv, HeardOf
<1>10. ASSUME NEW r \in flight, ClearAnswered(r) PROVE HeardOf'
  BY <1>10, CallsGoOn DEF ClearAnswered, backend, IInv, HeardOf
<1>11. ASSUME NEW r \in flight, WarmStarted(r) PROVE HeardOf'
  BY <1>11, CallsGoOn DEF WarmStarted, HandleWarmOperation, Load, backend, IInv, TypeOK, HeardOf
<1>12. ASSUME NEW r \in flight, WarmNotStarted(r) PROVE HeardOf'
  BY <1>12, CallsGoOn DEF WarmNotStarted, backend, IInv, HeardOf
<1>13. ASSUME NEW r \in flight, PollAnswered(r) PROVE HeardOf'
  BY <1>13, SameAssumption, CallsGoOn
  DEF PollAnswered, HandleWarmOperation, Load, backend, IInv, TypeOK, HeardOf, NoOperation
<1>14. ASSUME NEW r \in flight, PollFails(r) PROVE HeardOf'
  BY <1>14, CallsGoOn DEF PollFails, backend, IInv, HeardOf
<1>15. ASSUME NEW r \in flight, ServeRequest(r) PROVE HeardOf'
  BY <1>15, RequestFacts, OperationFacts, BackendFacts, Served, BackendStep, CallsGoOn
  DEF Becomes, view, IInv, TypeOK, HeardOf
<1>16. ASSUME Server, UNCHANGED <<open, flight, view>> PROVE HeardOf'
  BY <1>16, RequestFacts, OperationFacts, BackendFacts, BackendStep, CallsGoOn
  DEF view, IInv, TypeOK, HeardOf
<1>17. ASSUME UNCHANGED vars PROVE HeardOf'
  BY <1>17, CallsGoOn DEF vars, backend, view, IInv, HeardOf
<1>. QED
  BY <1>1, <1>2, <1>3, <1>4, <1>5, <1>6, <1>7, <1>8, <1>9, <1>10, <1>11, <1>12, <1>13,
     <1>14, <1>15, <1>16, <1>17
  DEF Next, User, Answer

-----------------------------------------------------------------------------
(* The theorems.                                                            *)

\* A backend at rest and no widget on the page.
LEMMA InitIInv == Init => IInv
<1>. SUFFICES ASSUME Init PROVE IInv
  OBVIOUS
<1>1. P!IInv
  BY BackendInit, SameAssumption, P!InitIInv
<1>2. TypeOK
  <2>1. /\ open \in BOOLEAN /\ shown \in BOOLEAN /\ loading \in BOOLEAN
        /\ loadFailed \in BOOLEAN /\ clearing \in BOOLEAN /\ warming \in BOOLEAN
    BY DEF Init
  <2>2. /\ flight \subseteq Requests /\ error \in Errors /\ active \in Operation
        /\ timer \in Op \cup {"none"} /\ reports \in [Op -> 0 .. 2]
    BY DEF Init, Errors, Operation
  <2>. QED
    BY <2>1, <2>2 DEF TypeOK
<1>. QED
  BY <1>1, <1>2
  DEF Init, W!Init, IInv, NothingYet, LoadsAfterEnds, Alone, Announced, HeardOf, Chain,
      ChainAlive, Running, NoOperation, W!Busy

\* Every part of the invariant is kept by what the others say.
LEMMA StepIInv == IInv /\ [Next]_vars => IInv'
<1>. SUFFICES ASSUME IInv, [Next]_vars PROVE IInv'
  OBVIOUS
<1>1. TypeOK' /\ P!IInv'
  BY TypeOKStep, BackendInv DEF IInv
<1>. QED
  BY <1>1, NothingYetStep, LoadsAfterEndsStep, AloneStep, AnnouncedStep, HeardOfStep DEF IInv

\* The invariant holds in every state the widget and its backend reach.
THEOREM Invariance == Spec => []IInv
<1>. QED
  BY InitIInv, StepIInv, PTL DEF Spec

\* Every variable of the widget keeps its type.
THEOREM TypeCorrect == Spec => []TypeOK
<1>1. IInv => TypeOK
  BY DEF IInv
<1>. QED
  BY <1>1, Invariance, PTL

\* Whatever the widget does, the API and the workers behave as CacheWarm says: all that
\* CacheWarmProofs proves of them holds under the widget.
THEOREM BackendAsSpecified == Spec => P!Spec
<1>. QED
  BY BackendInit, BackendStep, PTL DEF Spec, P!Spec

\* In whatever order requests are answered, and whichever are lost: the widget follows one
\* operation at a time, with one request or one timer and with neither once it has stopped
\* showing a warm, and announces an end once.
THEOREM OneAtATime == Spec => []OneChain
<1>1. ASSUME IInv PROVE OneChain
  <2>1. Cardinality(Chain) <= 1 /\ Cardinality(Chain) \in Nat
    <3>1. CASE Chain = {}
      BY <3>1, FS_EmptySet
    <3>2. ASSUME NEW r \in Chain PROVE Chain = {r}
      BY <1>1 DEF IInv, Alone
    <3>. QED
      BY <3>1, <3>2, FS_Singleton
  <2>2. timer # "none" => Cardinality(Chain) = 0
    BY <1>1, FS_EmptySet DEF IInv, Alone
  <2>. QED
    BY <1>1, <2>1, <2>2 DEF IInv, Alone, Announced, OneChain
<1>. QED
  BY <1>1, Invariance, PTL

=============================================================================
