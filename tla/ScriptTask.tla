----------------------------- MODULE ScriptTask -----------------------------
(* An SQL file run as a background task: db-host/src/taskService.ts            *)
(* (startScript) drives query-engine/src/scriptRun.ts on a session of its own. *)
(* Statements are numbers in the order of the file.                            *)
EXTENDS Integers, FiniteSets

CONSTANTS
    Statements,   \* how many statements the file has
    MaxErrors,    \* MAX_ERRORS: how many failures the run keeps
    CanInterrupt, \* may somebody else end the running statement on the server?
    Deadlocks,    \* the onError of the scripts whose transaction the server may undo
    CanLose       \* may the connection be lost?

Script == 1..Statements

ScriptAssumption ==
    /\ Statements \in Nat \ {0} /\ MaxErrors \in Nat
    /\ {CanInterrupt, CanLose} \subseteq BOOLEAN
    /\ Deadlocks \subseteq {"stop", "continue"}

VARIABLES
    request,    \* how the script is to run, and whether its last quote is unclosed
    step,       \* the await the task is at
    next,       \* the next statement of the file
    executed,   \* progress.executed
    failed,     \* progress.failed
    reported,   \* how many failures became issues of the task
    state,      \* progress.state
    listening,  \* the task's abort signal has its listener
    cancelled,  \* this.cancelled of the run
    task,       \* state of the task
    aborted,    \* context.signal.aborted
    session,    \* none, open, lost, closed
    server,     \* idle, run, or how the statement ended: ok, error, interrupted
    killing,    \* a cancel of the running statement is on its way
    inTx,       \* a transaction is open on the server
    undone,     \* effects that a rollback would undo
    stored,     \* effects that are there to stay
    outside     \* what befell the script on the server: interrupt, deadlock

progress == <<next, executed, failed, reported, state>>
signals == <<listening, cancelled, task, aborted>>
db == <<server, killing, inTx, undone, stored, outside>>
run == <<step, progress, signals, session, db>>
vars == <<request, run>>

Single == request.transaction = "single"
OnError == request.onError
EndsInQuote == request.unclosed
WellFormed == IF EndsInQuote THEN 1..(Statements - 1) ELSE Script

Init ==
    /\ request \in [transaction : {"none", "single"}, onError : {"stop", "continue"},
                     unclosed : BOOLEAN]
    /\ step = "session"
    /\ next = 1 /\ executed = 0 /\ failed = 0 /\ reported = 0 /\ state = "running"
    /\ listening = FALSE /\ cancelled = FALSE /\ task = "RUNNING" /\ aborted = FALSE
    /\ session = "none"
    /\ server = "idle" /\ killing = FALSE /\ inTx = FALSE /\ undone = {} /\ stored = {}
    /\ outside = {}

(* -------------------------------- the task ------------------------------- *)

\* The end of the runner, as the task manager sees it (tasks.ts, start()).
Ends(outcome) ==
    /\ step' = "ended"
    /\ task' = IF task = "CANCELLED" THEN task
               ELSE IF aborted \/ outcome = "CANCELLED" THEN "CANCELLED"
               ELSE outcome
    /\ UNCHANGED <<listening, cancelled, aborted>>

\* session(): a session of the task's own.
OpenSession ==
    /\ step = "session"
    /\ \/ step' = "source" /\ session' = "open" /\ UNCHANGED signals
       \/ Ends("FAILED") /\ UNCHANGED session
    /\ UNCHANGED <<progress, db>>

\* openFileSource() throws outside the try block.
OpenSource ==
    /\ step = "source"
    /\ \/ step' = (IF Single THEN "begin" ELSE "start") /\ UNCHANGED signals
       \/ Ends("FAILED")
    /\ UNCHANGED <<progress, session, db>>

Begin ==
    /\ step = "begin"
    /\ \/ /\ session = "open" /\ step' = "start" /\ inTx' = TRUE
          /\ UNCHANGED <<state, server, killing, undone, stored, outside>>
       \/ /\ session = "lost" /\ step' = "close" /\ state' = "failed"
          /\ UNCHANGED db
    /\ UNCHANGED <<next, executed, failed, reported, signals, session>>

\* The run is made, then the listener is added to the signal.
Start ==
    /\ step = "start"
    /\ step' = "scan"
    /\ listening' = TRUE
    /\ UNCHANGED <<cancelled, task, aborted, progress, session, db>>

\* Variant: a script with failures is committed when it reached its end.
CommitsDone == state = "done"

Commits == state = "done" /\ failed = 0

(* ------------------------------- ScriptRun ------------------------------- *)

\* progress.errors keeps the first failures, up to the cap.
Kept(failures) == IF failures <= MaxErrors THEN failures ELSE MaxErrors

\* Variant: the loop over the failures runs one too far.
LastAll(failures) == reported' = Kept(failures) + 1

\* The last notify(true): the task makes issues of the kept failures it has not seen.
LastNotify(failures) == reported' = Kept(failures)

\* Variant: what happened to the statements decides, not the cancel.
VerdictOfErrors(failures) ==
    IF failures > 0 /\ OnError = "stop" THEN "failed" ELSE "done"

Verdict(failures) ==
    IF cancelled THEN "cancelled"
    ELSE IF failures > 0 /\ OnError = "stop" THEN "failed"
    ELSE "done"

\* The loop is left with that many failures; the task goes on to end the transaction.
Over(failures) ==
    /\ state' = Verdict(failures)
    /\ failed' = failures
    /\ LastNotify(failures)
    /\ listening' = FALSE
    /\ step' = IF Single THEN "settle" ELSE "close"
    /\ UNCHANGED <<cancelled, task, aborted>>

\* notify(): throttled, so the task may or may not hear of it.
Notify(failures) == failed' = failures /\ reported' \in {reported, Kept(failures)}

\* The loop has no further statement, or is told to stop.
Exhausted ==
    /\ step = "scan" /\ (cancelled \/ next > Statements)
    /\ Over(failed)
    /\ UNCHANGED <<next, executed, session, db>>

\* The file cannot be read on.
ReadFails ==
    /\ step = "scan" /\ ~cancelled
    /\ state' = "failed" /\ failed' = failed + 1 /\ LastNotify(failed + 1)
    /\ listening' = FALSE
    /\ step' = IF Single THEN "settle" ELSE "close"
    /\ UNCHANGED <<cancelled, task, aborted, next, executed, session, db>>

\* The last statement is not closed.
Unclosed ==
    /\ step = "scan" /\ ~cancelled
    /\ next = Statements /\ EndsInQuote
    /\ next' = next + 1
    /\ \/ OnError = "stop" /\ Over(failed + 1)
       \/ /\ OnError = "continue"
          /\ failed' = failed + 1
          /\ UNCHANGED <<step, reported, state, signals>>
    /\ UNCHANGED <<executed, session, db>>

\* execute() sends the statement; a lost connection refuses it.
Send ==
    /\ step = "scan" /\ ~cancelled
    /\ next \in WellFormed
    /\ step' = "run" /\ next' = next + 1
    /\ server' = IF session = "lost" THEN "error" ELSE "run"
    /\ \E told \in {reported, Kept(failed)} : reported' = told
    /\ UNCHANGED <<executed, failed, state, signals, session, killing, inTx, undone, stored, outside>>

\* The statement ended and nothing stops the script.
Carries ==
    /\ step = "run" /\ ~cancelled
    /\ \/ server = "ok" /\ Notify(failed)
       \/ server = "error" /\ OnError = "continue" /\ Notify(failed + 1)
    /\ executed' = executed + 1
    /\ step' = "scan" /\ server' = "idle"
    /\ UNCHANGED <<next, state, signals, session, killing, inTx, undone, stored, outside>>

\* A failure that stops the script.
FailsScript ==
    /\ step = "run" /\ ~cancelled
    /\ server = "error" /\ OnError = "stop"
    /\ executed' = executed + 1
    /\ Over(failed + 1)
    /\ server' = "idle"
    /\ UNCHANGED <<next, session, killing, inTx, undone, stored, outside>>

\* The statement ends after a cancel, or says it was cancelled: the loop is left.
Interrupted ==
    /\ step = "run"
    /\ \/ cancelled /\ server \in {"ok", "error", "interrupted"}
       \/ server = "interrupted"
    /\ Over(failed)
    /\ server' = "idle" /\ killing' = FALSE
    /\ UNCHANGED <<next, executed, session, inTx, undone, stored, outside>>

(* --------------------------- the end of the task ------------------------- *)

\* COMMIT, which fails when the connection is gone, or goes before the answer comes.
Commit ==
    /\ step = "settle" /\ Commits
    /\ step' = "close"
    /\ \/ /\ session = "open"
          /\ stored' = stored \cup undone /\ undone' = {} /\ inTx' = FALSE
          /\ \/ UNCHANGED <<state, session>>
             \/ CanLose /\ session' = "lost" /\ state' = "failed"
       \/ session = "lost" /\ state' = "failed" /\ UNCHANGED <<inTx, undone, stored, session>>
    /\ UNCHANGED <<next, executed, failed, reported, signals, server, killing, outside>>

\* ROLLBACK, whose failure is ignored.
Rollback ==
    /\ step = "settle" /\ ~Commits
    /\ step' = "close"
    /\ undone' = {} /\ inTx' = FALSE
    /\ UNCHANGED <<progress, signals, session, server, killing, stored, outside>>

\* The finally block; the server undoes a transaction that is still open.
Close ==
    /\ step = "close"
    /\ session' = "closed"
    /\ undone' = {} /\ inTx' = FALSE
    /\ Ends(CASE state = "done" -> "COMPLETED"
              [] state = "cancelled" -> "CANCELLED"
              [] OTHER -> "FAILED")
    /\ UNCHANGED <<progress, server, killing, stored, outside>>

(* ------------------------------- the window ------------------------------ *)

\* ScriptRun.cancel(), called by the listener if there is one.
CancelRun ==
    /\ cancelled' = (cancelled \/ listening)
    /\ killing' = (listening /\ step = "run" /\ server = "run")

\* BackgroundTaskManager.cancel() of a running task.
Cancel ==
    /\ task = "RUNNING"
    /\ task' = "CANCELLING" /\ aborted' = TRUE
    /\ CancelRun
    /\ UNCHANGED <<step, progress, listening, session, server, inTx, undone, stored, outside>>

\* The task is given up after the grace time, whatever its runner does.
Grace ==
    /\ task = "CANCELLING"
    /\ task' = "CANCELLED"
    /\ UNCHANGED <<step, progress, listening, cancelled, aborted, session, db>>

(* ------------------------------- the server ------------------------------ *)

\* The statement succeeds: in the transaction, or for good when none is open.
Succeed ==
    /\ server = "run"
    /\ server' = "ok"
    /\ IF inTx THEN undone' = undone \cup {next - 1} /\ UNCHANGED stored
       ELSE stored' = stored \cup {next - 1} /\ UNCHANGED undone
    /\ UNCHANGED <<step, progress, signals, session, killing, inTx, outside>>

\* It fails: an error, or the statement's own time limit.
Refuse ==
    /\ server = "run"
    /\ server' = "error"
    /\ UNCHANGED <<step, progress, signals, session, killing, inTx, undone, stored, outside>>

\* It is ended by the cancel, or by somebody else's.
Kill ==
    /\ server = "run" /\ (killing \/ CanInterrupt)
    /\ server' = "interrupted" /\ killing' = FALSE
    /\ outside' = IF killing THEN outside ELSE outside \cup {"interrupt"}
    /\ UNCHANGED <<step, progress, signals, session, inTx, undone, stored>>

\* A deadlock: the server undoes the transaction and is back in autocommit, in which
\* a script that goes on goes on.
Deadlock ==
    /\ OnError \in Deadlocks /\ server = "run" /\ inTx
    /\ server' = "error"
    /\ undone' = {} /\ inTx' = FALSE
    /\ outside' = IF OnError = "continue" THEN outside \cup {"deadlock"} ELSE outside
    /\ UNCHANGED <<step, progress, signals, session, killing, stored>>

\* The connection is lost: the server may have done a statement whose answer does not come.
Lose ==
    /\ CanLose /\ session = "open"
    /\ session' = "lost"
    /\ server' = IF server = "run" THEN "error" ELSE server
    /\ undone' = {} /\ inTx' = FALSE /\ killing' = FALSE
    /\ \/ UNCHANGED stored
       \/ server = "run" /\ ~inTx /\ stored' = stored \cup {next - 1}
    /\ UNCHANGED <<step, progress, signals, outside>>

Task ==
    \/ OpenSession \/ OpenSource \/ Begin \/ Start
    \/ Exhausted \/ ReadFails \/ Unclosed \/ Send \/ Carries \/ FailsScript \/ Interrupted
    \/ Commit \/ Rollback \/ Close

Window == Cancel \/ Grace

Server == Succeed \/ Refuse \/ Kill \/ Deadlock \/ Lose

Next == (Task \/ Window \/ Server) /\ UNCHANGED request

Spec == Init /\ [][Next]_vars

\* Timers and promises go on; a statement ends by itself or not, but a kill arrives.
KillArrives == killing /\ Kill

FairSpec == Spec /\ WF_run(Task) /\ WF_run(Grace) /\ WF_run(KillArrives)

-----------------------------------------------------------------------------
\* Every variable has its type.
TypeOK ==
    /\ step \in {"session", "source", "begin", "start", "scan", "run", "settle", "close", "ended"}
    /\ next \in 1..(Statements + 1)
    /\ executed \in 0..Statements /\ failed \in 0..(Statements + 1) /\ reported \in 0..Kept(failed)
    /\ state \in {"running", "done", "failed", "cancelled"}
    /\ {listening, cancelled, aborted, killing, inTx} \subseteq BOOLEAN
    /\ task \in {"RUNNING", "CANCELLING", "CANCELLED", "COMPLETED", "FAILED"}
    /\ session \in {"none", "open", "lost", "closed"}
    /\ server \in {"idle", "run", "ok", "error", "interrupted"}
    /\ undone \subseteq WellFormed /\ stored \subseteq WellFormed
    /\ outside \subseteq {"interrupt", "deadlock"}

\* A file run in one transaction is stored completely or not at all
\* (TransferDialogs.tsx: "Everything is committed at the end, or rolled back if a
\* statement fails").
AllOrNothing == Single /\ step = "ended" => stored \in {{}, Script}

\* So it is, unless somebody else ended a statement of it on the server (the run is then
\* "done", scriptRun.ts:150), or a deadlock undid the transaction of a script that goes on.
WholeOrNothing == outside = {} => AllOrNothing

\* A cancel that reaches the running script leaves nothing of its transaction, unless a
\* deadlock had undone it and the script went on.
CancelLeavesNothing == Single /\ cancelled /\ "deadlock" \notin outside => stored = {}

\* A task that is shown as completed has sent every statement of the file, unless
\* somebody else ended one of them on the server.
CompletedRanAll ==
    task = "COMPLETED" /\ "interrupt" \notin outside =>
        executed = Cardinality(WellFormed) /\ next > Statements

\* The first failures, MAX_ERRORS of them (scriptRun.ts:56), are issues of the task when
\* it ends; those beyond are in no issue and in no count of the task, though errorCount
\* "counts all of them" (tasks.ts:82).
EveryFailureReported == step = "ended" => reported = Kept(failed)

\* The session of a script that began does not outlive the task (manager.ts says of
\* it "The caller closes it; the manager does not track it").
SessionIsClosed == step = "ended" /\ state # "running" => session = "closed"

\* A cancel that reaches the script ends it, also while a statement runs for ever.
CancelEnds == cancelled ~> step = "ended"

\* What the task shows of a script is what happened to it, and its session is gone.
ScriptIsTrue == WholeOrNothing /\ CancelLeavesNothing /\ CompletedRanAll /\ EveryFailureReported /\ SessionIsClosed
=============================================================================
