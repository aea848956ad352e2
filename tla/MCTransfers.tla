----------------------------- MODULE MCTransfers -----------------------------
(* What a Database Host does for its tabs and tasks, one thing at a time, as    *)
(* TLC checks it: an import (ImportRun, whose constants the configuration       *)
(* gives), the two means of flow control below it (BoundedQueue, CreditGate), a *)
(* script (ScriptTask), an export (ExportRun), a statement of a query tab       *)
(* (QueryRun), and the requests that start and end such statements              *)
(* (HostQueries).  A behaviour is one of one of them, which part names.  The    *)
(* theorems of TransfersProofs hold for any values of the constants.            *)
EXTENDS ImportRun

CONSTANTS
    Callers, GivingUp,  \* who pushes into the queue and asks for credit; who may give up
    Tabs, Conn,         \* query tabs, and their one connection
    Calls, Asks, MaxRuns,                      \* of the service
    Statements, MaxErrors, CanLose,            \* of the script
    Pages, HighWater,                          \* of the export
    PageRows, Lookahead, Initial, DiskPages,   \* of the query
    MaxBatch, MaxRows, MaxResults

\* Options, the malformed and the refused records, what may happen, and runs.
Asked(transaction, onError, malformed, refused, fate, attempts) ==
    [target |-> "table", transaction |-> transaction, onError |-> onError,
     malformed |-> malformed, refused |-> refused, fate |-> fate, attempts |-> attempts]

\* An import that stops at the first error, one that skips what is bad, one that is
\* a single transaction, and one that may be paused; the last is of documents.
MCImports ==
    {Asked("batch", "stop", {}, {}, {"cancel", "lose"}, 3),
     Asked("batch", "skip", {2}, {5}, {"cancel"}, 3),
     Asked("batch", "stop", {7}, {}, {"cancel", "lose", "pause"}, 2),
     Asked("all", "skip", {2, 7}, {}, {"cancel", "lose"}, 2),
     [Asked("none", "skip", {}, {4}, {"cancel"}, 2) EXCEPT !.target = "collection"]}

Some == CHOOSE t \in Tabs : TRUE
Two == Tabs \ {Some}

\* Three tabs run statements on one connection; or two of them do, one also a
\* script, and that tab and the connection are closed.
MCAsks ==
    {[op : {"query"}, id : Tabs, conn : {Conn}],
     [op : {"query"}, id : Two, conn : {Conn}] \cup
     [op : {"script", "close"}, id : {CHOOSE t \in Two : TRUE}, conn : {Conn}] \cup
     [op : {"drop"}, id : Two \ {CHOOSE t \in Two : TRUE}, conn : {Conn}]}

VARIABLES
    part,
    aborters, entries, used, parked, reader, closing, pushing, weight, gaveUp, accepted, got,
    credit, waiters, closed, hungUp, granted, spent,
    request, sstep, next, executed, failed, reported, state, listening, cancelled, task, saborted,
    session, server, killing, sInTx, undone, kept, outside,
    xstep, issued, stopped, buffered, file, handle, target, committing, xpaused, xaborted, outcome,
    pc, outlook, dropped, waiting, waiter, slots, current, events, demands, statement, halted,
    files, disposing,
    runs, tabs, scripts, calls, asks

queued == <<aborters, entries, used, parked, reader, closing, pushing, weight, gaveUp,
            accepted, got>>
credits == <<credit, waiters, closed, hungUp, granted, spent>>
scripting == <<sstep, next, executed, failed, reported, state, listening, cancelled, task,
               saborted, session, server, killing, sInTx, undone, kept, outside>>
exports == <<xstep, issued, stopped, buffered, file, handle, target, committing, xpaused,
             xaborted, outcome>>
queries == <<pc, outlook, dropped, waiting, waiter, slots, current, events, demands, statement,
             halted, files, disposing>>
service == <<runs, tabs, scripts, calls>>

Buffer == INSTANCE BoundedQueue WITH
    Producers <- Callers, Capacity <- 3, Weights <- {1, 2, 4}, MaxItems <- 4,
    consumer <- reader, ended <- closing, aborted <- gaveUp

Gate == INSTANCE CreditGate WITH
    Senders <- Callers, Aborters <- GivingUp, Amounts <- {1, 2, 3}, MaxCredit <- 7,
    aborted <- hungUp

Script == INSTANCE ScriptTask WITH
    CanInterrupt <- TRUE, Deadlocks <- {"stop", "continue"},
    step <- sstep, aborted <- saborted, inTx <- sInTx, stored <- kept

Export == INSTANCE ExportRun WITH
    step <- xstep, sent <- issued, part <- file, paused <- xpaused, aborted <- xaborted

Query == INSTANCE QueryRun WITH
    state <- outlook, cancelled <- dropped, server <- statement, stopped <- halted,
    batch <- events

Service == INSTANCE HostQueries WITH Conns <- {Conn}

ASSUME QueueAssumption == Buffer!BoundedQueueAssumption
ASSUME GateAssumption == Gate!CreditGateAssumption
ASSUME ScriptTaskAssumption == Script!ScriptAssumption
ASSUME ExportRunAssumption == Export!ExportAssumption
ASSUME QueryAssumption == Query!QueryRunAssumption
ASSUME ServiceAssumption == Service!HostQueriesAssumption

Begins ==
    /\ part \in {"import", "queue", "credit", "script", "export", "query", "service"}
    /\ aborters \in {{}, GivingUp}
    /\ Init /\ Buffer!Init /\ Gate!Init
    /\ Script!Init /\ Export!Init /\ Query!Init /\ Service!Init
    /\ part # "import" => import = Asked("batch", "stop", {}, {}, {"cancel", "lose"}, 3)
    /\ part # "queue" => aborters = {} /\ weight = [c \in Callers |-> 1]
    /\ part # "script" =>
        request = [transaction |-> "none", onError |-> "stop", unclosed |-> FALSE]
    /\ part # "service" => asks = [op : {"query"}, id : Tabs, conn : {Conn}]

\* All but one stand still.
Still(group) ==
    /\ (group # "import" => UNCHANGED vars)
    /\ (group # "queue" => UNCHANGED queued)
    /\ (group # "credit" => UNCHANGED credits)
    /\ (group # "script" => UNCHANGED <<request, scripting>>)
    /\ (group # "export" => UNCHANGED exports)
    /\ (group # "query" => UNCHANGED queries)
    /\ (group # "service" => UNCHANGED <<service, asks>>)

Steps ==
    /\ UNCHANGED part
    /\ \/ part = "import" /\ Next
       \/ part = "queue" /\ Buffer!Next
       \/ part = "credit" /\ Gate!Next
       \/ part = "script" /\ Script!Next
       \/ part = "export" /\ Export!Next
       \/ part = "query" /\ Query!Next
       \/ part = "service" /\ Service!Next
    /\ Still(part)

\* What the FairSpec of each module promises, for the one that runs.
Fair ==
    /\ WF_run(part = "import" /\ Produce) /\ WF_run(part = "import" /\ Consume)
    /\ WF_scripting(part = "script" /\ Script!Task)
    /\ WF_scripting(part = "script" /\ Script!Grace)
    /\ WF_scripting(part = "script" /\ Script!KillArrives)
    /\ WF_exports(part = "export" /\ Export!Works)
    /\ WF_exports(part = "export" /\ Export!Answers)
    /\ WF_queries(part = "query" /\ Query!Run)
    /\ WF_queries(part = "query" /\ Query!DisposeEnds)
    /\ \A c \in Calls : WF_service(part = "service" /\ Service!Serve(c))
    /\ \A r \in 1..MaxRuns :
         /\ WF_service(part = "service" /\ r \in DOMAIN runs /\ Service!RunStops(r))
         /\ WF_service(part = "service" /\ r \in DOMAIN runs /\ Service!RunFinishes(r))

Transfers ==
    Begins /\ [][Steps]_<<part, vars, queued, credits, request, scripting, exports, queries,
                          service, asks>> /\ Fair

\* Every variable has its type, in each of the modules.
TypesOK == TypeOK /\ Buffer!TypeOK /\ Script!TypeOK /\ Export!TypeOK /\ Query!TypeOK /\ Service!TypeOK

\* The queue is within its limit, gives every item once and in order, and leaves no
\* producer parked beside a waiting consumer, while no signal may fire; credit is neither lost
\* nor made up, and goes to the head of those who wait.
InOrder ==
    /\ [](Buffer!WeightBounded /\ Buffer!InOrderOnce /\ Buffer!NeverStalled)
    /\ [](Gate!TypeOK /\ Gate!Conserved) /\ Gate!HeadFirst

\* What the task shows of a script is what happened to it, and its session is gone: its first
\* failures, up to the cap, are issues, and in one transaction it is stored whole or not at all,
\* unless the server had ended a statement of it for somebody else, or undone by a deadlock the
\* transaction of one that goes on. sink.ts: an export "leaves no half-written destination",
\* however it ends, and no file beside it, but an empty one when it was cancelled before that
\* was made. The rows a window is shown of a statement are there, and no more is read than asked.
ShownIsDone ==
    /\ Script!ScriptIsTrue
    /\ Export!ExportIsWhole
    /\ Query!RowsAreTrue

\* The run of a statement implements what the service relies on: StatementRun.
KeepsPromise == Query!KeepsPromise

\* Of the runs of a connection that were not told to stop at most one is not over: a second
\* statement waits. One whose tab was closed is off the list at once (closeQuery(),
\* service.ts:390) and may still be stopping, so "The connection runs one statement at a time"
\* (service.ts:357) is not said of it. And the result files of every run are deleted in the
\* end, and not while it writes.
OneStatement == Service!OneStatement /\ Service!FilesGo

\* What is asked of the part that runs, and what answers it.
Calling(n) ==
    CASE part = "import" -> aborted
      [] part = "script" -> cancelled
      [] part = "export" -> xaborted
      [] part = "query" -> IF n = 1 THEN dropped
                           ELSE pc = "sleep" /\ current # 0 /\ ~Query!Enough(slots[current])
      [] part = "service" -> calls[n].at # "idle"
      [] OTHER -> FALSE
Heard(n) ==
    CASE part = "import" -> result # "running"
      [] part = "script" -> sstep = "ended"
      [] part = "export" -> xstep = "ended"
      [] part = "query" -> IF n = 1 THEN pc = "over" ELSE ~waiting
      [] part = "service" -> calls[n].at = "idle"
      [] OTHER -> TRUE

\* A cancel that reaches an import, a script, an export or a statement ends it, wherever
\* it waits; a paused statement that is asked for more rows reads on; and every request
\* to start or close one is answered, although it may wait for others to stop.
EveryoneIsHeard == \A n \in {1, 2} : Calling(n) ~> Heard(n)
=============================================================================
