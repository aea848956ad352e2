--------------------------- MODULE WorkerSupervisor ---------------------------
(* The supervisor of a worker process, db-workers/src/supervisor.ts: it       *)
(* starts the worker on demand, matches answers to requests, and keeps the    *)
(* application going when the worker dies, hangs while starting or ignores a  *)
(* cancel.  One action is one callback of the main process, with the promise  *)
(* reactions it sets off.  Worker processes are external: they may become     *)
(* ready, answer, or die at any moment, and die some time after kill().       *)
EXTENDS Integers, FiniteSets

CONSTANTS
    Worker,       \* the processes ever started, each once
    Request,      \* the requests ever made, each once
    MaxCrashes,   \* options.maxCrashes
    none

ASSUME SupervisorAssumption ==
    /\ IsFiniteSet(Worker) /\ IsFiniteSet(Request)
    /\ MaxCrashes \in Nat
    /\ {none, "delay"} \cap Worker = {} /\ none # "delay"

VARIABLES
    status,     \* this.state
    running,    \* this.running
    starting,   \* the start in progress: none, "delay" (its back-off) or its worker
    crashes,    \* this.crashTimes within the window
    proc,       \* each process as its events show it
    killed,     \* transport.kill() was called
    ready,      \* its `ready` promise; its timer is armed while "waiting"
    pending,    \* its Pending map: the requests posted and not answered
    held,       \* the requests the process itself has not answered
    req,        \* what the caller of each request has been told
    aborted,    \* the caller's signal fired before the request was posted
    grace,      \* the grace timer of an abandoned request is armed
    stopping    \* stop(): "no", "waiting" for a start in progress, "done"

vars == <<status, running, starting, crashes, proc, killed, ready, pending,
          held, req, aborted, grace, stopping>>

Settled == {"answered", "crashed", "cancelled", "timed out", "unavailable"}
Alive(w) == proc[w] \in {"booting", "up"}
Asked == {r \in Request : req[r] = "asked"}

Init ==
    /\ status = "idle" /\ running = none /\ starting = none /\ crashes = 0
    /\ proc    = [w \in Worker |-> "unborn"]
    /\ killed  = [w \in Worker |-> FALSE]
    /\ ready   = [w \in Worker |-> "unborn"]
    /\ pending = [w \in Worker |-> {}]
    /\ held    = [w \in Worker |-> {}]
    /\ req     = [r \in Request |-> "new"]
    /\ aborted = [r \in Request |-> FALSE]
    /\ grace   = [r \in Request |-> FALSE]
    /\ stopping = "no"

(* ------------------------------- helpers -------------------------------- *)

\* setState(): a stopped supervisor stays stopped.
Moved(s) == IF status = "stopped" THEN "stopped" ELSE s

\* Variant: a state the window does not know.
CrashStateUnknown(n) == IF n > MaxCrashes THEN "dead" ELSE "crashed"

\* recordCrash(): the state after the nth crash of the window.
CrashState(n) == IF n > MaxCrashes THEN "failed" ELSE "crashed"

\* Everyone who awaited the start is told that there is no worker.
RejectAsked == req' = [r \in Request |-> IF r \in Asked THEN "unavailable" ELSE req[r]]

\* failPending(): the requests of w that were not abandoned are told why.
Told(w, why) == [r \in Request |-> IF r \in pending[w] /\ req[r] = "sent" THEN why ELSE req[r]]
Released(w)  == [r \in Request |-> r \notin pending[w] /\ grace[r]]

(* ------------------------------- requests ------------------------------- *)

\* start(), past the back-off: the state, the restart and the factory.
Launch ==
    /\ UNCHANGED <<running, pending, held, aborted, grace, stopping>>
    /\ \/ \E w \in Worker :
            /\ proc[w] = "unborn"
            /\ status' = Moved("starting")
            /\ starting' = w
            /\ proc'  = [proc EXCEPT ![w] = "booting"]
            /\ ready' = [ready EXCEPT ![w] = "waiting"]
            /\ UNCHANGED <<crashes, killed>>
       \/ \* the factory throws
            /\ crashes' = crashes + 1
            /\ status' = Moved(CrashState(crashes + 1))
            /\ starting' = none
            /\ UNCHANGED <<proc, killed, ready>>

\* ensure() refuses at once.
RequestRefused(r) ==
    /\ req[r] = "new"
    /\ \/ status \in {"stopped", "failed"}
       \/ running # none /\ ready[running] = "failed"
    /\ req' = [req EXCEPT ![r] = "unavailable"]
    /\ UNCHANGED <<status, running, starting, crashes, proc, killed, ready,
                   pending, held, aborted, grace, stopping>>

\* ensure() finds the worker running: the request is posted.
RequestPosted(r) ==
    /\ req[r] = "new" /\ status \notin {"stopped", "failed"}
    /\ running # none /\ ready[running] = "ok"
    /\ req' = [req EXCEPT ![r] = "sent"]
    /\ pending' = [pending EXCEPT ![running] = @ \cup {r}]
    /\ held' = [held EXCEPT ![running] = @ \cup {r}]
    /\ UNCHANGED <<status, running, starting, crashes, proc, killed, ready,
                   aborted, grace, stopping>>

\* ensure() joins the start in progress, or begins one that must wait.
RequestWaits(r) ==
    /\ req[r] = "new" /\ status \notin {"stopped", "failed"} /\ running = none
    /\ starting # none \/ crashes > 0
    /\ req' = [req EXCEPT ![r] = "asked"]
    /\ starting' = IF starting = none THEN "delay" ELSE starting
    /\ UNCHANGED <<status, running, crashes, proc, killed, ready, pending,
                   held, aborted, grace, stopping>>

\* ensure() starts a worker at once.
RequestLaunches(r) ==
    /\ req[r] = "new" /\ status \notin {"stopped", "failed"} /\ running = none
    /\ starting = none /\ crashes = 0
    /\ Launch
    /\ req' = [req EXCEPT ![r] = IF starting' = none THEN "unavailable" ELSE "asked"]

\* Variant: start() does not look at the state again after its back-off.
BackoffEndsUnchecked ==
    starting = "delay" /\ Launch /\ IF starting' = none THEN RejectAsked ELSE UNCHANGED req

\* The back-off of start() is over.
BackoffEnds ==
    /\ starting = "delay"
    /\ \/ /\ status = "stopped"
          /\ starting' = none
          /\ stopping' = IF stopping = "waiting" THEN "done" ELSE stopping
          /\ RejectAsked
          /\ UNCHANGED <<status, running, crashes, proc, killed, ready, pending,
                         held, aborted, grace>>
       \/ /\ status # "stopped"
          /\ Launch
          /\ IF starting' = none THEN RejectAsked ELSE UNCHANGED req

\* The caller's signal fires while it waits for the worker.
AbortAsked(r) ==
    /\ req[r] = "asked" /\ ~aborted[r]
    /\ aborted' = [aborted EXCEPT ![r] = TRUE]
    /\ UNCHANGED <<status, running, starting, crashes, proc, killed, ready,
                   pending, held, req, grace, stopping>>

\* abandon(): the caller is told, the worker asked to cancel, the timer armed.
Abandon(r, why) ==
    /\ req[r] = "sent" /\ why \in {"cancelled", "timed out"}
    /\ req' = [req EXCEPT ![r] = why]
    /\ grace' = [grace EXCEPT ![r] = TRUE]
    /\ UNCHANGED <<status, running, starting, crashes, proc, killed, ready,
                   pending, held, aborted, stopping>>

\* Variant: nothing to do for a caller that has been told.
GraceSkipsSettled(r) ==
    /\ grace[r]
    /\ grace' = [grace EXCEPT ![r] = FALSE]
    /\ UNCHANGED <<status, running, starting, crashes, proc, killed, ready,
                   pending, held, req, aborted, stopping>>

\* The grace timer: kill the worker if it still has the request.
GraceExpires(r) ==
    /\ grace[r]
    /\ grace' = [grace EXCEPT ![r] = FALSE]
    /\ killed' = [w \in Worker |-> killed[w] \/ r \in pending[w]]
    /\ UNCHANGED <<status, running, starting, crashes, proc, ready, pending,
                   held, req, aborted, stopping>>

(* ------------------------- events of the processes ---------------------- *)

\* The first message of w, version right: this.running = w whatever became of
\* the start.  If the start still waits, its callers go on and post, then stop(),
\* which awaited it after them: failPending() tells them, and the process is killed.
Ready(w) ==
    /\ proc[w] = "booting"
    /\ proc' = [proc EXCEPT ![w] = "up"]
    /\ running' = w
    /\ status' = Moved("running")
    /\ IF ready[w] = "waiting"
       THEN LET posted  == {r \in Asked : ~aborted[r]}
                stopped == stopping = "waiting" IN
            /\ ready' = [ready EXCEPT ![w] = "ok"]
            /\ starting' = none
            /\ killed' = [killed EXCEPT ![w] = @ \/ stopped]
            /\ stopping' = IF stopped THEN "done" ELSE stopping
            /\ req' = [r \in Request |-> IF r \notin Asked THEN req[r]
                                         ELSE IF r \in posted /\ ~stopped THEN "sent" ELSE "cancelled"]
            /\ pending' = [pending EXCEPT ![w] = IF stopped THEN {} ELSE posted]
            /\ held' = [held EXCEPT ![w] = posted]
       ELSE UNCHANGED <<ready, starting, killed, stopping, req, pending, held>>
    /\ UNCHANGED <<crashes, aborted, grace>>

\* Variant: the end of any process clears the start in progress.
StartFailsAnyway(w) ==
    /\ ready' = IF ready[w] = "waiting" THEN [ready EXCEPT ![w] = "failed"] ELSE ready
    /\ starting' = none
    /\ UNCHANGED stopping

\* The start of w has failed, if it still waits: its callers and stop() go on.
StartFails(w) ==
    IF ready[w] = "waiting"
    THEN /\ ready' = [ready EXCEPT ![w] = "failed"]
         /\ starting' = none
         /\ stopping' = IF stopping = "waiting" THEN "done" ELSE stopping
    ELSE UNCHANGED <<ready, starting, stopping>>

\* The first message of w, version wrong.
ReadyMismatch(w) ==
    /\ proc[w] = "booting"
    /\ proc' = [proc EXCEPT ![w] = "up"]
    /\ StartFails(w)
    /\ IF ready[w] = "waiting" THEN RejectAsked ELSE UNCHANGED req
    /\ killed' = [killed EXCEPT ![w] = TRUE]
    /\ UNCHANGED <<status, running, crashes, pending, held, aborted, grace>>

ReadyTimeout(w) ==
    /\ ready[w] = "waiting"
    /\ StartFails(w)
    /\ RejectAsked
    /\ killed' = [killed EXCEPT ![w] = TRUE]
    /\ UNCHANGED <<status, running, crashes, proc, pending, held, aborted, grace>>

\* this.running after the exit of w.
RunningWithout(w) == IF running = w THEN none ELSE running

\* onExit: a crash, or the end of a killed process.
Exit(w) ==
    /\ Alive(w)
    /\ proc' = [proc EXCEPT ![w] = "exited"]
    /\ running' = RunningWithout(w)
    /\ StartFails(w)
    /\ LET told == Told(w, "crashed") IN
       req' = [r \in Request |-> IF ready[w] = "waiting" /\ r \in Asked
                                 THEN "unavailable" ELSE told[r]]
    /\ pending' = [pending EXCEPT ![w] = {}]
    /\ held' = [held EXCEPT ![w] = {}]
    /\ grace' = Released(w)
    /\ IF status = "stopped"
       THEN UNCHANGED <<status, crashes>>
       ELSE /\ crashes' = crashes + 1
            /\ status' = CrashState(crashes + 1)
    /\ UNCHANGED <<killed, aborted>>

\* settle(): an answer, the answer to a cancel included.
Answer(w, r) ==
    /\ proc[w] = "up" /\ r \in held[w]
    /\ held' = [held EXCEPT ![w] = @ \ {r}]
    /\ pending' = [pending EXCEPT ![w] = @ \ {r}]
    /\ IF r \in pending[w]
       THEN /\ grace' = [grace EXCEPT ![r] = FALSE]
            /\ req' = [req EXCEPT ![r] = IF @ = "sent" THEN "answered" ELSE @]
       ELSE UNCHANGED <<grace, req>>
    /\ UNCHANGED <<status, running, starting, crashes, proc, killed, ready,
                   aborted, stopping>>

(* --------------------------- reset, stop, time --------------------------- *)

CrashAgesOut ==
    /\ crashes > 0
    /\ crashes' = crashes - 1
    /\ UNCHANGED <<status, running, starting, proc, killed, ready, pending,
                   held, req, aborted, grace, stopping>>

Reset ==
    /\ crashes > 0 \/ status \in {"failed", "crashed"}
    /\ crashes' = 0
    /\ status' = IF status \in {"failed", "crashed"} THEN "idle" ELSE status
    /\ UNCHANGED <<running, starting, proc, killed, ready, pending, held, req,
                   aborted, grace, stopping>>

Stop ==
    /\ stopping = "no"
    /\ status' = "stopped"
    /\ IF running # none
       THEN /\ req' = Told(running, "cancelled")
            /\ grace' = Released(running)
            /\ pending' = [pending EXCEPT ![running] = {}]
            /\ killed' = [killed EXCEPT ![running] = TRUE]
            /\ stopping' = "done"
       ELSE /\ stopping' = IF starting = none THEN "done" ELSE "waiting"
            /\ UNCHANGED <<req, grace, pending, killed>>
    /\ UNCHANGED <<running, starting, crashes, proc, ready, held, aborted>>

Next ==
    \/ \E r \in Request :
         \/ RequestRefused(r) \/ RequestPosted(r) \/ RequestWaits(r)
         \/ RequestLaunches(r) \/ AbortAsked(r)
         \/ \E why \in {"cancelled", "timed out"} : Abandon(r, why)
         \/ GraceExpires(r)
    \/ BackoffEnds
    \/ \E w \in Worker :
         \/ Ready(w) \/ ReadyMismatch(w) \/ ReadyTimeout(w) \/ Exit(w)
         \/ \E r \in Request : Answer(w, r)
    \/ CrashAgesOut \/ Reset \/ Stop

Spec == Init /\ [][Next]_vars

(* Timers fire and a killed process ends.  Nothing else is promised: a worker *)
(* need not answer, become ready, or die by itself.                           *)
Fairness ==
    /\ WF_vars(BackoffEnds)
    /\ \A r \in Request : WF_vars(GraceExpires(r))
    /\ \A w \in Worker : WF_vars(ReadyTimeout(w)) /\ WF_vars(killed[w] /\ Exit(w))

FairSpec == Spec /\ Fairness

(* ------------------------------- properties ----------------------------- *)

TypeOK ==
    /\ status \in {"idle", "starting", "running", "crashed", "failed", "stopped"}
    /\ running \in Worker \cup {none}
    /\ starting \in Worker \cup {none, "delay"}
    /\ crashes \in Nat
    /\ proc \in [Worker -> {"unborn", "booting", "up", "exited"}]
    /\ killed \in [Worker -> BOOLEAN]
    /\ ready \in [Worker -> {"unborn", "waiting", "ok", "failed"}]
    /\ pending \in [Worker -> SUBSET Request]
    /\ held \in [Worker -> SUBSET Request]
    /\ req \in [Request -> {"new", "asked", "sent"} \cup Settled]
    /\ aborted \in [Request -> BOOLEAN]
    /\ grace \in [Request -> BOOLEAN]
    /\ stopping \in {"no", "waiting", "done"}

\* No caller is left hanging: one that waits for a worker has a start in
\* progress that will answer it, and one whose request was posted has it in the
\* map of a process whose answer or exit will settle it.
NobodyForgotten ==
    \A r \in Request :
        /\ req[r] = "asked" => starting # none
        /\ req[r] = "sent" => \E w \in Worker : Alive(w) /\ r \in pending[w]

\* A caller is told once: cancel, timeout, late answer, exit and stop race for
\* the same request, and the first one wins.
ToldOnce ==
    [][\A r \in Request : req[r] \in Settled => req'[r] = req[r]]_vars

\* An abandoned request keeps its place until the worker answers, exits, or the
\* grace timer kills it: a worker that ignores a cancel never outlives its grace.
AbandonedIsWatched ==
    \A r \in Request, w \in Worker :
        r \in held[w] /\ req[r] \in {"cancelled", "timed out"} => grace[r] \/ killed[w]

\* this.running is never a dead process, in whatever order an old one exits and
\* a new one becomes ready, and the state says running only while there is one.
RunningIsAlive ==
    /\ running # none => Alive(running)
    /\ status = "running" => running # none

\* The start in progress is that of a process that is booting, and whose ready
\* promise still waits: no event of an older process settles or replaces it.
StartIsItsOwn ==
    \A w \in Worker : ready[w] = "waiting" <=> starting = w

\* A stopped supervisor starts no process.
NoStartWhenStopped ==
    [][status = "stopped" => \A w \in Worker : proc'[w] = "booting" => proc[w] = "booting"]_vars

\* Whoever waits for the worker to start is told something: ready, too late,
\* exited, or stopped.
AskedIsTold == \A r \in Request : req[r] = "asked" ~> req[r] # "asked"

\* A cancelled or timed out request frees its worker: it answers, or it is dead.
AbandonedIsFreed ==
    \A r \in Request, w \in Worker :
        r \in pending[w] /\ req[r] \in {"cancelled", "timed out"} ~> r \notin pending[w]

\* supervisor.ts:153 says of stop(): "Ends the worker for good: used at
\* application quit and when a window goes away."
StopEndsWorkers ==
    stopping = "done" /\ starting = none => \A w \in Worker : Alive(w) => killed[w]

\* Every request, every start in progress and the running process are known to
\* somebody who will settle, finish or end them.
Tracked == NobodyForgotten /\ AbandonedIsWatched /\ RunningIsAlive /\ StartIsItsOwn

\* A request that was settled and a supervisor that was stopped stay so.
SettledStays == ToldOnce /\ NoStartWhenStopped
=============================================================================
