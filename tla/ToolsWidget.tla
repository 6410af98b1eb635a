----------------------------- MODULE ToolsWidget -----------------------------
(***************************************************************************)
(* The widget of the workspace page that shows the response cache, clears  *)
(* it, and starts a warm and polls it until it has ended, composed with    *)
(* the backend of CacheWarm.  Requests are answered in any order, whatever *)
(* order they were sent in; the handlers of the widget run to completion.  *)
(* The cache is enabled, so the widget's figures come from any answer; the *)
(* figures themselves are left out.                                        *)
(***************************************************************************)
EXTENDS Integers, FiniteSets

CONSTANTS Op, Worker, Target, Ttl, MaxDeliveries, Faults,
          Losses   \* the kinds of request whose answer may be an error of the network

VARIABLES
  status, life, latest, latestLife, caller, stream, deliveries, pc, job, todo, cache,
  removed, raised, unsure, lapsed, cut, newest,
  open,       \* the widget is on the page
  flight,     \* its requests that have not been answered
  shown,      \* it has a cache status to show
  loading, loadFailed, clearing, warming, error,
  active,     \* the operation it shows as active
  timer,      \* the operation its timer will poll
  reports     \* history: the operations whose end it has announced, with how often

backend == <<status, life, latest, latestLife, caller, stream, deliveries, pc, job, todo, cache,
             removed, raised, unsure, lapsed, cut, newest>>
view == <<shown, loading, loadFailed, clearing, warming, error, active, timer, reports>>
vars == <<backend, open, flight, view>>

W == INSTANCE CacheWarm

ASSUME ToolsWidgetAssumption ==
  /\ W!CacheWarmAssumption
  /\ Losses \subseteq {"post", "poll", "load", "clear"}

NoOperation == [op |-> "none", status |-> "none"]
Operation == [op : Op, status : W!Busy \cup W!Ended] \cup {NoOperation}
Slots == 1 .. 2
LoadKeys == Op \cup {"open"}

\* A request is asked, perhaps half served, and then answered.  Loads are told apart by the
\* operation whose end asked for them.
Requests ==
  [kind : {"post"}, key : Op, state : {"asked", "answered"}, says : Operation]
  \cup [kind : {"poll"}, key : Slots, state : {"asked", "answered", "missing"}, says : Operation]
  \cup [kind : {"load"}, key : LoadKeys, state : {"asked", "named", "answered"}, says : Operation]
  \cup [kind : {"clear"}, key : {"clear"}, state : {"asked", "answered"}, says : {NoOperation}]

Asked(kind, key, operation) ==
  [kind |-> kind, key |-> key, state |-> "asked", says |-> operation]
Answered(r, operation) == [r EXCEPT !.state = "answered", !.says = operation]
Replace(r, new) == flight' = (flight \ {r}) \cup {new}

\* A second load for one operation's end needs that end to be announced twice.
Load(key) == [kind |-> "load", key |-> key, state |-> "asked", says |-> NoOperation]

Errors == {"none", "refresh", "clear", "start", "failed", "poll"}
MutationActive == clearing \/ warming
ActionsDisabled == MutationActive \/ ~shown

-----------------------------------------------------------------------------
Blank ==
  /\ shown' = FALSE /\ loadFailed' = FALSE
  /\ clearing' = FALSE /\ warming' = FALSE
  /\ error' = "none" /\ active' = NoOperation /\ timer' = "none"
  /\ reports' = [op \in Op |-> 0]

Init ==
  /\ W!Init
  /\ open = FALSE /\ flight = {}
  /\ shown = FALSE /\ loading = FALSE /\ loadFailed = FALSE
  /\ clearing = FALSE /\ warming = FALSE
  /\ error = "none" /\ active = NoOperation /\ timer = "none"
  /\ reports = [op \in Op |-> 0]

Open ==
  /\ ~open /\ open' = TRUE
  /\ Blank /\ loading' = TRUE
  /\ flight' = {Load("open")}
  /\ UNCHANGED backend

\* The component is destroyed: answers are ignored from now on and the timer is cleared.
Close ==
  /\ open /\ open' = FALSE
  /\ Blank /\ loading' = FALSE
  /\ flight' = {}
  /\ UNCHANGED backend

-----------------------------------------------------------------------------
(* What an operation does to the widget that learns of it.                  *)

Poll(op) == \E s \in Slots :
  /\ \A r \in flight : ~(r.kind = "poll" /\ r.key = s)
  /\ flight' = flight \cup {Asked("poll", s, [op |-> op, status |-> "queued"])}

\* rest: the requests still in flight.
HandleWarmOperation(operation, rest) ==
  /\ active' = operation
  /\ IF operation.status \in W!Busy
     THEN /\ timer' = operation.op
          /\ flight' = rest
          /\ UNCHANGED <<warming, error, loading, loadFailed, reports>>
     ELSE /\ warming' = FALSE
          /\ error' = IF operation.status = "failed" THEN "failed" ELSE error
          /\ reports' = [reports EXCEPT ![operation.op] = IF @ < 2 THEN @ + 1 ELSE @]
          /\ loading' = TRUE /\ loadFailed' = FALSE
          /\ flight' = rest \cup {Load(operation.op)}
          /\ UNCHANGED timer

Running(operation) == operation.status \in W!Busy

\* Mutant: a load takes up the running operation it finds whatever the widget is doing.
LoadAnsweredAlways(r) ==
  /\ r.kind = "load" /\ r.state = "answered"
  /\ shown' = TRUE
  /\ IF Running(r.says)
     THEN /\ active' = r.says /\ timer' = r.says.op /\ warming' = TRUE
          /\ loading' = FALSE /\ flight' = flight \ {r}
          /\ UNCHANGED <<error, loadFailed, reports>>
     ELSE /\ loading' = FALSE /\ flight' = flight \ {r}
          /\ UNCHANGED <<loadFailed, warming, error, active, timer, reports>>
  /\ UNCHANGED <<backend, open, clearing>>

\* A load takes up a running operation only if the widget has had none.
LoadAnswered(r) ==
  /\ r.kind = "load" /\ r.state = "answered"
  /\ shown' = TRUE /\ loading' = FALSE
  /\ flight' = flight \ {r}
  /\ IF active = NoOperation /\ Running(r.says)
     THEN active' = r.says /\ timer' = r.says.op /\ warming' = TRUE
     ELSE UNCHANGED <<active, timer, warming>>
  /\ UNCHANGED <<backend, open, loadFailed, clearing, error, reports>>

\* An error goes to the card if there is nothing to show yet, and above the buttons if there is.
LoadFailed(r) ==
  /\ r.kind = "load" /\ "load" \in Losses
  /\ loading' = FALSE
  /\ IF shown THEN error' = "refresh" /\ UNCHANGED loadFailed
              ELSE loadFailed' = TRUE /\ UNCHANGED error
  /\ flight' = flight \ {r}
  /\ UNCHANGED <<backend, open, shown, clearing, warming, active, timer, reports>>

\* The button of the card that failed to load.
RetryLoad ==
  /\ open /\ loadFailed /\ ~(loading /\ ~shown)
  /\ loading' = TRUE /\ loadFailed' = FALSE
  /\ flight' = flight \cup {Load("open")}
  /\ UNCHANGED <<backend, open, shown, clearing, warming, error, active, timer, reports>>

-----------------------------------------------------------------------------
ClearCache ==
  /\ open /\ ~ActionsDisabled
  /\ clearing' = TRUE /\ error' = "none"
  /\ flight' = flight \cup {Asked("clear", "clear", NoOperation)}
  /\ UNCHANGED <<backend, open, shown, loading, loadFailed, warming, active, timer, reports>>

ClearAnswered(r) ==
  /\ r.kind = "clear"
  /\ \/ r.state = "answered" /\ shown' = TRUE /\ UNCHANGED error
     \/ "clear" \in Losses /\ error' = "clear" /\ UNCHANGED shown
  /\ clearing' = FALSE
  /\ flight' = flight \ {r}
  /\ UNCHANGED <<backend, open, loading, loadFailed, warming, active, timer, reports>>

StartCacheWarm ==
  /\ open /\ ~ActionsDisabled
  /\ timer' = "none" /\ warming' = TRUE /\ error' = "none"
  /\ \E op \in Op :
       /\ W!Begin(op)
       /\ flight' = flight \cup {Asked("post", op, NoOperation)}
  /\ UNCHANGED <<open, shown, loading, loadFailed, clearing, active, reports>>

WarmStarted(r) ==
  /\ r.kind = "post" /\ r.state = "answered" /\ r.says # NoOperation
  /\ HandleWarmOperation(r.says, flight \ {r})
  /\ UNCHANGED <<backend, open, shown, clearing>>

WarmNotStarted(r) ==
  /\ r.kind = "post"
  /\ (r.state = "answered" /\ r.says = NoOperation) \/ "post" \in Losses
  /\ warming' = FALSE /\ error' = "start"
  /\ flight' = flight \ {r}
  /\ UNCHANGED <<backend, open, shown, loading, loadFailed, clearing, active, timer, reports>>

TimerFires ==
  /\ timer # "none"
  /\ Poll(timer)
  /\ timer' = "none"
  /\ UNCHANGED <<backend, open, shown, loading, loadFailed, clearing, warming, error, active, reports>>

PollAnswered(r) ==
  /\ r.kind = "poll" /\ r.state = "answered"
  /\ HandleWarmOperation(r.says, flight \ {r})
  /\ UNCHANGED <<backend, open, shown, clearing>>

\* Mutant: a failed poll ends the warm for the widget.
PollFailsSilently(r) ==
  /\ r.kind = "poll" /\ (r.state = "missing" \/ "poll" \in Losses)
  /\ flight' = flight \ {r}
  /\ UNCHANGED <<backend, open, shown, loading, loadFailed, clearing, warming, error, active,
                 timer, reports>>

\* The record has expired, or the poll was lost.
PollFails(r) ==
  /\ r.kind = "poll" /\ (r.state = "missing" \/ "poll" \in Losses)
  /\ error' = "poll"
  /\ flight' = flight \ {r}
  /\ UNCHANGED <<backend, open, shown, loading, loadFailed, clearing, warming, active, timer, reports>>

\* The button under the error of a poll; it goes with the error.
RetryPoll ==
  /\ open /\ error = "poll" /\ Running(active)
  /\ Poll(active.op)
  /\ error' = "none"
  /\ UNCHANGED <<backend, open, shown, loading, loadFailed, clearing, warming, active, timer, reports>>

-----------------------------------------------------------------------------
(* The API's side of the requests.                                          *)

RecordOf(op) == IF status[op] = "none" THEN NoOperation ELSE [op |-> op, status |-> status[op]]

ServePost(r) ==
  /\ r.kind = "post" /\ r.state = "asked"
  /\ caller[r.key] \in {"accepted", "refused", "dead"}
  /\ Replace(r, Answered(r, IF caller[r.key] = "accepted"
                            THEN [op |-> r.key, status |-> "queued"] ELSE NoOperation))
  /\ UNCHANGED <<backend, open, view>>

ServePoll(r) ==
  /\ r.kind = "poll" /\ r.state = "asked"
  /\ LET record == RecordOf(r.says.op) IN
       Replace(r, IF record = NoOperation THEN [r EXCEPT !.state = "missing"] ELSE Answered(r, record))
  /\ UNCHANGED <<backend, open, view>>

\* The latest key is read first, and then the record it names.
ServeLoad(r) ==
  /\ r.kind = "load"
  /\ \/ /\ r.state = "asked"
        /\ Replace(r, IF latest = "none" THEN Answered(r, NoOperation)
                      ELSE [r EXCEPT !.state = "named", !.says = [op |-> latest, status |-> "queued"]])
     \/ /\ r.state = "named"
        /\ Replace(r, Answered(r, RecordOf(r.says.op)))
  /\ UNCHANGED <<backend, open, view>>

ServeClear(r) ==
  /\ r.kind = "clear" /\ r.state = "asked"
  /\ W!Clear
  /\ Replace(r, Answered(r, NoOperation))
  /\ UNCHANGED <<open, view>>

-----------------------------------------------------------------------------
Answer(r) ==
  \/ LoadAnswered(r) \/ LoadFailed(r) \/ ClearAnswered(r) \/ WarmStarted(r) \/ WarmNotStarted(r)
  \/ PollAnswered(r) \/ PollFails(r)

ServeRequest(r) == ServePost(r) \/ ServePoll(r) \/ ServeLoad(r) \/ ServeClear(r)

User == Open \/ Close \/ RetryLoad \/ ClearCache \/ StartCacheWarm \/ RetryPoll

Server == W!Tick \/ W!Backend

Next ==
  \/ User \/ TimerFires
  \/ \E r \in flight : Answer(r) \/ ServeRequest(r)
  \/ Server /\ UNCHANGED <<open, flight, view>>

Spec == Init /\ [][Next]_vars

\* Requests are served and answered, timers fire, and the backend works; the user need not
\* do anything and the clock need not go on.
Fairness ==
  /\ \A op \in Op : WF_vars(W!Serve(op) /\ UNCHANGED <<open, flight, view>>)
  /\ \A w \in Worker :
       /\ WF_vars(W!Work(w) /\ UNCHANGED <<open, flight, view>>)
       /\ WF_vars(W!Receive(w) /\ UNCHANGED <<open, flight, view>>)
  /\ WF_vars(TimerFires)
  /\ \A r \in Requests : WF_vars(r \in flight /\ (Answer(r) \/ ServeRequest(r)))
FairSpec == Spec /\ Fairness

-----------------------------------------------------------------------------
(* Properties.                                                              *)

\* Every variable of the widget keeps its type.
TypeOK ==
  /\ open \in BOOLEAN
  /\ flight \subseteq Requests
  /\ shown \in BOOLEAN /\ loading \in BOOLEAN /\ loadFailed \in BOOLEAN
  /\ clearing \in BOOLEAN /\ warming \in BOOLEAN
  /\ error \in Errors
  /\ active \in Operation
  /\ timer \in Op \cup {"none"}
  /\ reports \in [Op -> 0 .. 2]

Chain == {r \in flight : r.kind \in {"post", "poll"}}
ChainAlive == timer # "none" \/ Chain # {}

\* The widget follows one operation at a time: it has one request or one timer for it, and
\* neither once it has stopped showing a warm; and it announces the end of a warm once.
OneChain ==
  /\ Cardinality(Chain) + (IF timer = "none" THEN 0 ELSE 1) <= 1
  /\ ~warming => ~ChainAlive
  /\ \A op \in Op : reports[op] <= 1

\* A warm that the API has accepted ends, however often its workers die, for a widget too.
AcceptedWarmEnds == W!AcceptedWarmEnds

\* A widget that shows a warm stops showing it or offers to poll again.
BusyEnds == warming ~> ~warming \/ error = "poll"

\* Every error but that of a poll is shown over the hint that the action can be retried with
\* the button below: the buttons are enabled, or will be when what is under way ends.
RetryHintHolds == error \notin {"none", "poll"} => ~ActionsDisabled \/ ChainAlive \/ clearing
=============================================================================
