------------------------------ MODULE ExportRun ------------------------------
(* An export: transfer-engine/src/exportRun.ts reads a statement's rows and    *)
(* writes them through file-engine/src/sink.ts, which keeps them in a file     *)
(* beside the destination until all are there.  Files are as long as the       *)
(* pieces in them: the head, one for each page of rows, the tail.              *)
EXTENDS Integers

CONSTANTS
    Pages,       \* pages of rows the statement returns
    HighWater    \* highWaterBytes, in pieces

Absent == -1
Old == -2          \* what was at the destination before
Complete == Pages + 2

\* What the constants are; the instances are checked against it.
ExportAssumption == Pages \in Nat /\ HighWater \in Nat \ {0}

VARIABLES
    step,      \* the await the export is at
    sent,      \* events of the statement so far: the columns, then the pages
    stopped,   \* the statement was cancelled on the server
    buffered,  \* sink.buffered
    part,      \* length of the temporary file
    handle,    \* it is open
    target,    \* length of the file at the destination
    committing,\* commit() was called
    paused,    \* the task is paused
    aborted,   \* context.signal.aborted
    outcome    \* running, COMPLETED, FAILED, CANCELLED or crashed

sink == <<buffered, part, handle, target, committing>>
window == <<paused, aborted>>
vars == <<step, sent, stopped, sink, window, outcome>>

Init ==
    /\ step = "create" /\ sent = 0 /\ stopped = FALSE
    /\ buffered = 0 /\ part = Absent /\ handle = FALSE /\ target = Old /\ committing = FALSE
    /\ paused = FALSE /\ aborted = FALSE /\ outcome = "running"

Ends(result) ==
    /\ step' = "ended"
    /\ outcome' = IF aborted THEN "CANCELLED" ELSE result

(* -------------------------------- FileSink ------------------------------- *)

\* FileSink.create(): the checks, then the temporary file.  session.execute()
\* follows at once and throws, outside the try block, when the signal has fired.
Create ==
    /\ step = "create"
    /\ \/ Ends("FAILED") /\ UNCHANGED <<part, handle>>
       \/ /\ part' = 0 /\ handle' = TRUE
          /\ \/ ~aborted /\ step' = "read" /\ UNCHANGED outcome
             \/ aborted /\ Ends("FAILED")
    /\ UNCHANGED <<sent, stopped, buffered, target, committing, window>>

\* Variant: the rows go to the destination itself.
WriteThrough == part' = part + buffered /\ target' = part'

WriteOut == part' = part + buffered /\ UNCHANGED target

\* flush(): the write may fail part of the way, and the signal is looked at.
Flush ==
    /\ step = "flush"
    /\ \/ /\ ~aborted /\ WriteOut
          /\ step' = IF committing THEN "close" ELSE IF sent > Pages + 1 THEN "commit" ELSE "read"
       \/ step' = "fail" /\ part' \in part..(part + buffered) /\ UNCHANGED target
    /\ buffered' = 0
    /\ UNCHANGED <<sent, stopped, handle, committing, window, outcome>>

CommitFlush == step' = (IF buffered = 0 THEN "close" ELSE "flush") /\ committing' = TRUE

Commit ==
    /\ step = "commit"
    /\ CommitFlush
    /\ UNCHANGED <<sent, stopped, buffered, part, handle, target, window, outcome>>

CloseFile ==
    /\ step = "close"
    /\ \/ step' = "rename" /\ handle' = FALSE
       \/ step' = "fail" /\ UNCHANGED handle
    /\ UNCHANGED <<sent, stopped, buffered, part, target, committing, window, outcome>>

\* The destination is replaced in one step, or cannot be.
Rename ==
    /\ step = "rename"
    /\ \/ target' = part /\ part' = Absent /\ Ends("COMPLETED")
       \/ step' = "fail" /\ UNCHANGED <<target, part, outcome>>
    /\ UNCHANGED <<sent, stopped, buffered, handle, committing, window>>

Remove == part' = Absent

\* abort(), then the statement is cancelled.
Fail ==
    /\ step = "fail"
    /\ Remove /\ handle' = FALSE
    /\ stopped' = TRUE
    /\ Ends("FAILED")
    /\ UNCHANGED <<sent, buffered, target, committing, window>>

(* ------------------------------- runExport() ------------------------------ *)

\* The next event: the columns or a page.
Event ==
    /\ step = "read" /\ ~stopped
    /\ sent <= Pages
    /\ step' = "event" /\ sent' = sent + 1
    /\ UNCHANGED <<stopped, sink, window, outcome>>

\* The stream ends: all was sent, the statement returns no rows, or quietly
\* because it was cancelled.
StreamEnds ==
    /\ step = "read"
    /\ stopped \/ sent \in {0, Pages + 1}
    /\ step' = "last"
    /\ UNCHANGED <<sent, stopped, sink, window, outcome>>

\* The stream throws: the connection, the server, or the cancel.
StreamThrows ==
    /\ step = "read"
    /\ step' = "fail"
    /\ UNCHANGED <<sent, stopped, sink, window, outcome>>

\* write(): the sink takes the piece and flushes when it has enough.
Write(then) ==
    /\ buffered' = buffered + 1
    /\ step' = IF buffered + 1 >= HighWater THEN "flush" ELSE then

\* After waitIfPaused().
Handle ==
    /\ step = "event" /\ ~paused
    /\ \/ ~aborted /\ Write("read")
       \/ aborted /\ step' = "fail" /\ UNCHANGED buffered
    /\ UNCHANGED <<sent, stopped, part, handle, target, committing, window, outcome>>

\* The stream did not end because of a cancel, and had columns.
Exported == ~aborted /\ sent > 0

Finish ==
    /\ step = "last" /\ ~paused
    /\ \/ /\ Exported
          /\ Write("commit") /\ sent' = Pages + 2
       \/ /\ ~Exported
          /\ step' = "fail" /\ UNCHANGED <<buffered, sent>>
    /\ UNCHANGED <<stopped, part, handle, target, committing, window, outcome>>

(* -------------------------------- the task ------------------------------- *)

\* wake()
Wake == paused' = FALSE

\* BackgroundTaskManager.cancel(); the signal cancels the statement.
Cancel ==
    /\ outcome = "running" /\ ~aborted
    /\ aborted' = TRUE /\ Wake
    /\ stopped' = (stopped \/ step # "create")
    /\ UNCHANGED <<step, sent, sink, outcome>>

Pause ==
    /\ outcome = "running" /\ ~aborted
    /\ paused' = ~paused
    /\ UNCHANGED <<step, sent, stopped, sink, aborted, outcome>>

\* The host process ends; its files are closed, its memory is gone.
Crash ==
    /\ outcome = "running"
    /\ outcome' = "crashed" /\ step' = "ended"
    /\ handle' = FALSE /\ buffered' = 0
    /\ UNCHANGED <<sent, stopped, part, target, committing, window>>

Export ==
    \/ Create \/ Event \/ StreamEnds \/ StreamThrows \/ Handle \/ Finish
    \/ Flush \/ Commit \/ CloseFile \/ Rename \/ Fail

Next == Export \/ Cancel \/ Pause \/ Crash

Spec == Init /\ [][Next]_vars

\* Files answer; the server ends a statement that was cancelled, whatever else it does.
Works == Create \/ Handle \/ Finish \/ Flush \/ Commit \/ CloseFile \/ Rename \/ Fail
Answers == stopped /\ (StreamEnds \/ StreamThrows)

FairSpec == Spec /\ WF_vars(Works) /\ WF_vars(Answers)

-----------------------------------------------------------------------------
\* Every variable has its type, and the buffer never holds more than the mark.
TypeOK ==
    /\ step \in {"create", "read", "event", "last", "flush", "commit", "close", "rename", "fail",
                 "ended"}
    /\ sent \in 0..(Pages + 2) /\ buffered \in 0..HighWater
    /\ part \in {Absent} \cup 0..Complete /\ target \in {Old} \cup 0..Complete
    /\ {stopped, handle, committing, paused, aborted} \subseteq BOOLEAN
    /\ outcome \in {"running", "COMPLETED", "FAILED", "CANCELLED", "crashed"}

\* "A cancelled, failed or crashed export therefore leaves no half-written
\* destination, and any file that was there stays whole" (sink.ts).
TargetWhole == target \in {Old, Complete}

\* A completed export has every piece at the destination, a failed one changed nothing.
OutcomeIsTrue ==
    /\ outcome = "COMPLETED" => target = Complete
    /\ outcome = "FAILED" => target = Old

\* Cancelled before the statement was made: execute() throws outside the try block.
CutOffEarly == aborted /\ ~stopped

\* "removes any partial output" (taskService.ts): no temporary file and no open handle
\* outlives an export that was not cut off by a crash.  One that is cancelled before its
\* file is there is not kept to that: the file may stay, empty, and its handle with it.
NoPartLeft ==
    step = "ended" /\ outcome # "crashed" =>
        IF CutOffEarly THEN part \in {Absent, 0} ELSE part = Absent /\ ~handle

\* A cancel ends the export wherever it waits, paused or at the server.
CancelEnds == aborted ~> step = "ended"

\* An export is at its destination or nowhere, and its outcome says which.
ExportIsWhole == TypeOK /\ TargetWhole /\ OutcomeIsTrue /\ NoPartLeft
=============================================================================
