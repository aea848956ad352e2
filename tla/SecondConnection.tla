-------------------------- MODULE SecondConnection --------------------------
(* The second connection of a Redis or MongoDB session (onSecond and second,   *)
(* redis-engine/src/session.ts and mongo-engine/src/session.ts): what is asked *)
(* of it runs one job at a time, it is made for the first who needs it and     *)
(* made again when it was lost.  A Redis job may first select its database.    *)
EXTENDS Naturals, Sequences, Functions

CONSTANTS
    Job,        \* what is asked of the connection, each once
    About,      \* the logical database each job reads, none for one that reads no database
    none

Databases == 0 .. 1     \* bound: two logical databases, 0 is what a new connection has

\* Assumed of the constants.
SecondAssumption == About \in [Job -> Databases \cup {none}] /\ none \notin Databases

VARIABLES
    job,        \* each job: new, queued, connecting, selecting, running, done, failed
    turn,       \* auxiliaryTurn: the jobs not finished, in the order they were asked
    second,     \* this.auxiliary: none, connecting, up, dead (kept, but closed)
    cached,     \* auxiliaryDb
    chosen,     \* the database the server has selected for the connection
    closed      \* this.closed

second_vars == <<job, turn, second, cached, chosen, closed>>

SecondInit ==
    /\ job = [j \in Job |-> "new"]
    /\ turn = <<>>
    /\ second = "none" /\ cached = 0 /\ chosen = 0
    /\ closed = FALSE

\* onSecond(): a job waits for those before it, however they end.
Ask(j) ==
    /\ job[j] = "new"
    /\ job' = [job EXCEPT ![j] = "queued"]
    /\ turn' = Append(turn, j)
    /\ UNCHANGED <<second, cached, chosen, closed>>

\* Only the job whose turn it is gets past the queue.
First(j) == turn # <<>> /\ Head(turn) = j

\* `this.auxiliaryTurn.then(run, run)`.
Ends(j, how) ==
    /\ job' = [job EXCEPT ![j] = how]
    /\ turn' = Tail(turn)

\* work(connection), which starts with selectOn() when it reads a database.
Begun(j, current) == IF About[j] \in {none, current} THEN "running" ELSE "selecting"

\* The turn comes: no connection once the session is closed, a new one when
\* there is none or the one there was is lost.
TurnComes(j) ==
    /\ job[j] = "queued" /\ First(j)
    /\ \/ closed /\ Ends(j, "failed") /\ UNCHANGED second
       \/ /\ ~closed /\ second = "up"
          /\ job' = [job EXCEPT ![j] = Begun(j, cached)]
          /\ UNCHANGED <<turn, second>>
       \/ /\ ~closed /\ second # "up"
          /\ job' = [job EXCEPT ![j] = "connecting"]
          /\ second' = "connecting"
          /\ UNCHANGED turn
    /\ UNCHANGED <<cached, chosen, closed>>

\* Variant: the note of the selected database outlives the connection.
ConnectsUnaware ==
    /\ second = "connecting"
    /\ second' = "up" /\ chosen' = 0
    /\ job' = [j \in Job |-> IF job[j] = "connecting" THEN Begun(j, cached) ELSE job[j]]
    /\ UNCHANGED <<turn, cached, closed>>

\* connect() is answered, and the job that waited goes on.
Connects ==
    /\ second = "connecting"
    /\ second' = "up" /\ chosen' = 0 /\ cached' = 0
    /\ job' = [j \in Job |-> IF job[j] = "connecting" THEN Begun(j, 0) ELSE job[j]]
    /\ UNCHANGED <<turn, closed>>

ConnectFails(j) ==
    /\ second = "connecting" /\ job[j] = "connecting"
    /\ second' = "none"
    /\ Ends(j, "failed")
    /\ UNCHANGED <<cached, chosen, closed>>

Selected(j) ==
    /\ job[j] = "selecting"
    /\ chosen' = About[j] /\ cached' = About[j]
    /\ job' = [job EXCEPT ![j] = "running"]
    /\ UNCHANGED <<turn, second, closed>>

\* The server answers, possibly with an error.
Answered(j, how) ==
    /\ job[j] = "running" \/ (job[j] = "selecting" /\ how = "failed")
    /\ Ends(j, how)
    /\ UNCHANGED <<second, cached, chosen, closed>>

\* The connection is lost with the job on it; second() notices at the next turn.
Loses ==
    /\ second = "up"
    /\ second' = "dead"
    /\ job' = [j \in Job |-> IF job[j] \in {"selecting", "running"} THEN "failed" ELSE job[j]]
    /\ turn' = IF turn # <<>> /\ job[Head(turn)] \in {"selecting", "running"} THEN Tail(turn) ELSE turn

SecondDrops == Loses /\ UNCHANGED <<cached, chosen, closed>>

\* close(): nothing is connected any more; the connection that is there, or is
\* on its way, is closed.
Close ==
    /\ ~closed
    /\ closed' = TRUE
    /\ UNCHANGED <<job, turn, second, cached, chosen>>

CloseEnds == closed /\ Loses /\ UNCHANGED <<cached, chosen, closed>>

Goes(j) == TurnComes(j) \/ ConnectFails(j) \/ Selected(j) \/ \E how \in {"done", "failed"} : Answered(j, how)

SecondNext == (\E j \in Job : Ask(j) \/ Goes(j)) \/ Connects \/ SecondDrops \/ Close \/ CloseEnds

\* Connects end one way or the other, the server answers, and close() goes on.
SecondFairness ==
    /\ \A j \in Job : WF_second_vars(Goes(j))
    /\ WF_second_vars(Connects) /\ WF_second_vars(CloseEnds)

SecondSpec == SecondInit /\ [][SecondNext]_second_vars /\ SecondFairness

(* ------------------------------- properties ------------------------------ *)

SecondTypeOK ==
    /\ job \in [Job -> {"new", "queued", "connecting", "selecting", "running", "done", "failed"}]
    /\ IsInjective(turn) /\ Range(turn) \subseteq Job
    /\ second \in {"none", "connecting", "up", "dead"}
    /\ cached \in Databases /\ chosen \in Databases
    /\ closed \in BOOLEAN

\* The jobs take their turns in the order they were asked, whichever fail and
\* whenever the connection is lost and made again.
JobsInTurn ==
    \A j \in Job :
        /\ job[j] \in {"connecting", "selecting", "running"} => First(j)
        /\ job[j] \in {"queued", "connecting", "selecting", "running"} <=> j \in Range(turn)

\* A job reads the database it is about, on every connection there ever was.
RightDatabase == \A j \in Job : job[j] = "running" => About[j] \in {none, chosen}

\* A session that was closed makes no further connection ...
NoneAfterClose == [][closed /\ second # "connecting" => second' # "connecting"]_second_vars

\* ... and is left with none.
NoneIsLeft == closed ~> second \in {"none", "dead"}

\* Every job is done or fails.
JobIsTold == \A j \in Job : job[j] = "queued" ~> job[j] \in {"done", "failed"}
=============================================================================
