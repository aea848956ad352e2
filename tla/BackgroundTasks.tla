--------------------------- MODULE BackgroundTasks ---------------------------
(* The BackgroundTaskManager of db-core/src/tasks.ts: the task center's       *)
(* queue, its pause, resume and cancel, the grace timer of a cancelled task,  *)
(* the throttled snapshots and the shutdown.  A JavaScript callback runs to   *)
(* its end before the next, so one action is one callback; the exception is   *)
(* the loop of dispose(), which is cut into its calls of cancel() and during  *)
(* which nothing else runs.                                                   *)
EXTENDS Integers, FiniteSets

CONSTANTS
    Task,           \* the tasks ever submitted, numbered in the order of their submit()
    MaxConcurrent,  \* options.maxConcurrent
    KeepFinished,   \* options.keepFinished
    Reporting       \* the tasks whose runner reports progress or issues at all

ASSUME PoolAssumption ==
    /\ Task \subseteq Nat /\ IsFiniteSet(Task)
    /\ MaxConcurrent \in Nat \ {0}
    /\ KeepFinished \in Nat
    /\ Reporting \subseteq Task

VARIABLES
    state,      \* snapshot.state of each task, "NEW" before submit()
    kept,       \* the keys of `entries`
    age,        \* their place in the insertion order of that Map
    runner,     \* what the task's runner is doing, whatever the snapshot says
    aborted,    \* abort.signal.aborted
    paused,     \* entry.paused
    grace,      \* the grace timer is armed
    unseen,     \* progress in the snapshot that the listeners have not been given
    recent,     \* now < lastEmit + minIntervalMs
    timer,      \* the progress timer is armed
    desk,       \* how far dispose() is
    awaited     \* the runners dispose() waits for

vars == <<state, kept, age, runner, aborted, paused, grace, unseen, recent,
          timer, desk, awaited>>

Final  == {"COMPLETED", "FAILED", "CANCELLED"}
Active == {"RUNNING", "PAUSED", "CANCELLING"}
State  == {"NEW", "PENDING"} \cup Active \cup Final
RunnerState == {"none", "busy", "parked", "over"}

Running  == {t \in kept : state[t] \in Active}
Pending  == {t \in kept : state[t] = "PENDING"}
Finished == {t \in kept : state[t] \in Final}

\* While dispose() is in its loop no other callback runs.
Idle == desk # "sweeping"

Init ==
    /\ state   = [t \in Task |-> "NEW"]
    /\ kept    = {}
    /\ age     = [t \in Task |-> 0]
    /\ runner  = [t \in Task |-> "none"]
    /\ aborted = [t \in Task |-> FALSE]
    /\ paused  = [t \in Task |-> FALSE]
    /\ grace   = [t \in Task |-> FALSE]
    /\ unseen  = [t \in Task |-> FALSE]
    /\ recent  = [t \in Task |-> FALSE]
    /\ timer   = [t \in Task |-> FALSE]
    /\ desk    = "open"
    /\ awaited = {}

(* ------------------------------- helpers -------------------------------- *)

\* emit(entry, true) for every task of ts: the listeners have the whole snapshot.
EmitNow(ts) ==
    /\ unseen' = [t \in Task |-> t \notin ts /\ unseen[t]]
    /\ recent' = [t \in Task |-> t \in ts \/ recent[t]]
    /\ timer'  = [t \in Task |-> t \notin ts /\ timer[t]]

\* Variant: progress inside the interval is dropped instead of deferred.
EmitDropped(t) ==
    unseen' = [unseen EXCEPT ![t] = TRUE] /\ UNCHANGED <<recent, timer>>

\* emit(entry, false) after the progress of t changed.
EmitSoon(t) ==
    IF recent[t]
    THEN /\ unseen' = [unseen EXCEPT ![t] = TRUE]
         /\ timer' = [timer EXCEPT ![t] = TRUE]
         /\ UNCHANGED recent
    ELSE EmitNow({t})

\* Variant: the newest first.
Newest(S, n, age_, D) ==
    /\ D \subseteq S
    /\ Cardinality(D) = IF n <= 0 THEN 0 ELSE IF n <= Cardinality(S) THEN n ELSE Cardinality(S)
    /\ \A d \in D, s \in S \ D : age_[d] > age_[s]

\* D is the n first members of S in the Map's order, or all of S; none if n <= 0.
Oldest(S, n, age_, D) ==
    /\ D \subseteq S
    /\ IF n <= 0 THEN D = {}
       ELSE IF Cardinality(S) <= n THEN D = S
       ELSE Cardinality(D) = n
    /\ \A d \in D, s \in S \ D : age_[d] < age_[s]

\* Variant: a stopping task gives its place away at once.
RoomNoStopping(state_, kept_) ==
    MaxConcurrent - Cardinality({t \in kept_ : state_[t] \in {"RUNNING", "PAUSED"}})

\* The places that running() leaves.
Room(state_, kept_) == MaxConcurrent - Cardinality({t \in kept_ : state_[t] \in Active})

\* pump(): the tasks it starts are the oldest pending ones there is room for.
PumpStarts(state_, kept_, age_, next) ==
    Oldest({t \in kept_ : state_[t] = "PENDING"}, Room(state_, kept_), age_, next)

\* Variant: the waiters of waitIfPaused() are not called.
NotWoken(r) == r

\* wake(): the runner goes on.
Woken(r) == IF r = "parked" THEN "busy" ELSE r

\* The entries trim() chooses from, and clearTimeout(graceTimer).
Finishable(state_) == {u \in kept : state_[u] \in Final}
Disarmed(t)        == [grace EXCEPT ![t] = FALSE]

(* finish(): the final snapshot, wake, emit, trim and pump.  The runner of t  *)
(* is left as r: over when finish() is called at its end.                     *)
Finish(t, final, r) ==
    LET after    == [state EXCEPT ![t] = final]
        finished == Finishable(after)
    IN  \E old, next \in SUBSET kept :
          /\ Oldest(finished, Cardinality(finished) - KeepFinished, age, old)
          /\ PumpStarts(after, kept \ old, age, next)
          /\ state'  = [u \in Task |-> IF u \in next THEN "RUNNING" ELSE after[u]]
          /\ runner' = [u \in Task |-> IF u \in next THEN "busy"
                                       ELSE IF u = t THEN r ELSE runner[u]]
          /\ kept'   = kept \ old
          /\ paused' = [paused EXCEPT ![t] = FALSE]
          /\ grace'  = Disarmed(t)
          /\ EmitNow(next \cup {t})
          /\ UNCHANGED <<age, aborted>>

(* -------------------------- the task center's calls --------------------- *)

Submit(t) ==
    /\ Idle /\ state[t] = "NEW"
    /\ \A u \in Task : u < t => state[u] # "NEW"
    /\ LET added == kept \cup {t}
           place == [age EXCEPT ![t] = 1 + Cardinality({u \in Task : state[u] # "NEW"})]
           after == [state EXCEPT ![t] = "PENDING"]
       IN \E next \in SUBSET added :
            /\ PumpStarts(after, added, place, next)
            /\ state'  = [u \in Task |-> IF u \in next THEN "RUNNING" ELSE after[u]]
            /\ runner' = [u \in Task |-> IF u \in next THEN "busy" ELSE runner[u]]
            /\ kept'   = added
            /\ age'    = place
            /\ EmitNow(next \cup {t})
    /\ UNCHANGED <<aborted, paused, grace, desk, awaited>>

\* cancel(id) of a waiting task: it is over at once.
CancelPending(t) ==
    /\ t \in Pending
    /\ Finish(t, "CANCELLED", runner[t])

\* The early return of cancel(), for a task that is not waiting.
MayStop(t) == state[t] \notin Final \cup {"NEW", "PENDING", "CANCELLING"}

\* cancel(id) of a running one: abort, wake, and the grace timer.
CancelRunning(t) ==
    /\ t \in kept /\ MayStop(t)
    /\ state'   = [state EXCEPT ![t] = "CANCELLING"]
    /\ aborted' = [aborted EXCEPT ![t] = TRUE]
    /\ runner'  = [runner EXCEPT ![t] = Woken(@)]
    /\ paused'  = [paused EXCEPT ![t] = FALSE]
    /\ grace'   = [grace EXCEPT ![t] = TRUE]
    /\ EmitNow({t})
    /\ UNCHANGED <<kept, age>>

CancelEntry(t) == CancelPending(t) \/ CancelRunning(t)

Cancel(t) == Idle /\ CancelEntry(t) /\ UNCHANGED <<desk, awaited>>

Pause(t) ==
    /\ Idle /\ t \in kept /\ state[t] = "RUNNING"
    /\ paused' = [paused EXCEPT ![t] = TRUE]
    /\ state'  = [state EXCEPT ![t] = "PAUSED"]
    /\ EmitNow({t})
    /\ UNCHANGED <<kept, age, runner, aborted, grace, desk, awaited>>

Resume(t) ==
    /\ Idle /\ t \in kept /\ state[t] = "PAUSED"
    /\ state'  = [state EXCEPT ![t] = "RUNNING"]
    /\ runner' = [runner EXCEPT ![t] = Woken(@)]
    /\ paused' = [paused EXCEPT ![t] = FALSE]
    /\ EmitNow({t})
    /\ UNCHANGED <<kept, age, aborted, grace, desk, awaited>>

Remove(t) ==
    /\ Idle /\ t \in Finished
    /\ kept' = kept \ {t}
    /\ UNCHANGED <<state, age, runner, aborted, paused, grace, unseen, recent,
                   timer, desk, awaited>>

(* ------------------------------- the runner ----------------------------- *)

\* report(): ignored once the task is final.
Report(t) ==
    /\ Idle /\ t \in Reporting /\ runner[t] = "busy" /\ state[t] \notin Final
    /\ EmitSoon(t)
    /\ UNCHANGED <<state, kept, age, runner, aborted, paused, grace, desk, awaited>>

\* issue(): counted even when the task is final already.
Issue(t) ==
    /\ Idle /\ t \in Reporting /\ runner[t] = "busy"
    /\ EmitSoon(t)
    /\ UNCHANGED <<state, kept, age, runner, aborted, paused, grace, desk, awaited>>

\* waitIfPaused() while paused; otherwise it resolves at once.
Park(t) ==
    /\ Idle /\ runner[t] = "busy" /\ paused[t]
    /\ runner' = [runner EXCEPT ![t] = "parked"]
    /\ UNCHANGED <<state, kept, age, aborted, paused, grace, unseen, recent,
                   timer, desk, awaited>>

Outcome == {"resolved", "failed", "rejected as cancelled"}

\* Variant: the runner's own word is taken for the state.
OutcomeWord(t, how) == IF aborted[t] THEN "CANCELLED" ELSE how

OutcomeState(t, how) ==
    IF aborted[t] \/ how = "rejected as cancelled" THEN "CANCELLED"
    ELSE IF how = "resolved" THEN "COMPLETED" ELSE "FAILED"

\* The runner's promise settles; a task the grace timer ended is left alone.
RunnerEnds(t, how) ==
    /\ Idle /\ runner[t] = "busy"
    /\ \/ /\ state[t] \in Final
          /\ runner' = [runner EXCEPT ![t] = "over"]
          /\ UNCHANGED <<state, kept, age, aborted, paused, grace, unseen, recent, timer>>
       \/ /\ state[t] \notin Final
          /\ Finish(t, OutcomeState(t, how), "over")
    /\ UNCHANGED <<desk, awaited>>

(* -------------------------------- timers -------------------------------- *)

\* The grace timer: it does nothing once the task is final.
GraceExpires(t) ==
    /\ Idle /\ grace[t] /\ state[t] \notin Final
    /\ Finish(t, "CANCELLED", Woken(runner[t]))
    /\ UNCHANGED <<desk, awaited>>

IntervalPasses(t) ==
    /\ Idle /\ recent[t]
    /\ recent' = [recent EXCEPT ![t] = FALSE]
    /\ UNCHANGED <<state, kept, age, runner, aborted, paused, grace, unseen,
                   timer, desk, awaited>>

ProgressTimer(t) ==
    /\ Idle /\ timer[t] /\ ~recent[t]
    /\ EmitNow({t})
    /\ UNCHANGED <<state, kept, age, runner, aborted, paused, grace, desk, awaited>>

(* -------------------------------- dispose ------------------------------- *)

DisposeStart ==
    /\ desk = "open"
    /\ desk' = "sweeping"
    /\ UNCHANGED <<state, kept, age, runner, aborted, paused, grace, unseen,
                   recent, timer, awaited>>

Stoppable == {t \in kept : state[t] \in {"PENDING", "RUNNING", "PAUSED"}}

\* One round of the loop over the keys, oldest first.
DisposeCancels ==
    /\ desk = "sweeping"
    /\ \E t \in Stoppable :
         /\ \A u \in Stoppable : age[t] <= age[u]
         /\ CancelEntry(t)
    /\ UNCHANGED <<desk, awaited>>

DisposeWaits ==
    /\ desk = "sweeping" /\ Stoppable = {}
    /\ desk' = "waiting"
    /\ awaited' = {t \in kept : runner[t] \in {"busy", "parked"}}
    /\ UNCHANGED <<state, kept, age, runner, aborted, paused, grace, unseen,
                   recent, timer>>

\* Every `done` is settled: the timers go, and the listeners.
DisposeEnds ==
    /\ desk = "waiting"
    /\ \A t \in awaited : runner[t] = "over"
    /\ desk' = "disposed"
    /\ timer' = [t \in Task |-> t \notin kept /\ timer[t]]
    /\ grace' = [t \in Task |-> t \notin kept /\ grace[t]]
    /\ UNCHANGED <<state, kept, age, runner, aborted, paused, unseen, recent, awaited>>

RunnerStep(t) ==
    \/ Report(t) \/ Issue(t) \/ Park(t)
    \/ \E how \in Outcome : RunnerEnds(t, how)

TimerStep(t) == GraceExpires(t) \/ IntervalPasses(t) \/ ProgressTimer(t)

Next ==
    \/ \E t \in Task :
         \/ Submit(t) \/ Cancel(t) \/ Pause(t) \/ Resume(t) \/ Remove(t)
         \/ RunnerStep(t)
         \/ TimerStep(t)
    \/ DisposeStart \/ DisposeCancels \/ DisposeWaits \/ DisposeEnds

Spec == Init /\ [][Next]_vars

(* Timers fire and the loop of dispose() goes on: the event loop sees to it.  *)
(* A runner that is not parked ends in the end, as every wait of the database *)
(* engines has a time limit or a signal; but one that was cancelled may ignore *)
(* its signal until the grace timer has ended its task.                        *)
Fairness ==
    /\ \A t \in Task : WF_vars(GraceExpires(t)) /\ WF_vars(IntervalPasses(t))
                       /\ WF_vars(ProgressTimer(t))
    /\ \A t \in Task : WF_vars(state[t] # "CANCELLING" /\ \E how \in Outcome : RunnerEnds(t, how))
    /\ WF_vars(DisposeCancels) /\ WF_vars(DisposeWaits) /\ WF_vars(DisposeEnds)

FairSpec == Spec /\ Fairness

(* ------------------------------- properties ----------------------------- *)

TypeOK ==
    /\ state \in [Task -> State]
    /\ kept \subseteq Task
    /\ age \in [Task -> Nat]
    /\ runner \in [Task -> RunnerState]
    /\ aborted \in [Task -> BOOLEAN]
    /\ paused \in [Task -> BOOLEAN]
    /\ grace \in [Task -> BOOLEAN]
    /\ unseen \in [Task -> BOOLEAN]
    /\ recent \in [Task -> BOOLEAN]
    /\ timer \in [Task -> BOOLEAN]
    /\ desk \in {"open", "sweeping", "waiting", "disposed"}
    /\ awaited \subseteq Task

\* No more tasks run, pause or stop than the pool has places.
RunningBound == Cardinality(Running) <= MaxConcurrent

\* A task waits only while every place is taken: no finish, cancel, trim or
\* submit leaves a waiting task behind a free place.
WorkConserving == Pending # {} => Cardinality(Running) >= MaxConcurrent

\* Tasks start in the order they were submitted, whatever is cancelled between.
StartedInOrder ==
    \A t, u \in kept : state[t] \in Active /\ state[u] = "PENDING" => age[t] < age[u]

\* A runner that waits in waitIfPaused() belongs to a task shown as paused, so
\* Resume or Cancel will wake it: no pause, resume, cancel or grace timer in any
\* order loses the wake-up.
NoLostWake == \A t \in Task : runner[t] = "parked" => paused[t] /\ state[t] = "PAUSED"

\* A task shown as stopping has its deadline, and no other task has one: a timer
\* never ends a task that was not cancelled.
StoppingHasDeadline ==
    desk # "disposed" => \A t \in Task : grace[t] <=> state[t] = "CANCELLING"

\* Progress the listeners were not given has a timer that will give it, however
\* reports, issues, state changes and late issues of ended tasks interleave.
ProgressWillBeShown ==
    desk # "disposed" => \A t \in Task : unseen[t] => timer[t]

\* Forgetting finished tasks never forgets one that is not, and the list of
\* finished ones stays within its bound.
OnlyFinishedForgotten ==
    /\ \A t \in Task : state[t] \notin Final \cup {"NEW"} => t \in kept
    /\ Cardinality(Finished) <= KeepFinished

\* A final state is never left, though the runner of a task that the grace timer
\* ended goes on and ends later.
FinalIsFinal ==
    [][\A t \in Task : state[t] \in Final => state'[t] = state[t]]_vars

\* The loop of dispose() cancels; the places it frees start nothing.
SweepStartsNothing ==
    [][desk = "sweeping" =>
        \A t \in Task : runner[t] = "none" => runner'[t] = "none"]_vars

\* A task shown as stopping is shown as cancelled in the end, even when its
\* runner ignores the signal.
StoppingEnds == \A t \in Task : state[t] = "CANCELLING" ~> state[t] = "CANCELLED" \/ desk = "disposed"

\* While no task is left paused, a waiting task is started or cancelled, until the
\* manager is disposed of (and the grace timers with it).
PendingEnds ==
    \A t \in Task :
        (state[t] = "PENDING" /\ [](\A u \in Task : state[u] # "PAUSED"))
            ~> state[t] # "PENDING" \/ desk = "disposed"

\* dispose() returns: no runner it waits for is parked for ever.
DisposeReturns == desk = "sweeping" ~> desk = "disposed"

\* The places of the pool: never too many taken, never one free while a task waits,
\* given out in the order of submission.
PoolFair == RunningBound /\ WorkConserving /\ StartedInOrder

\* Whatever waits has something that will act: a parked runner the pause it waits
\* on, a stopping task its deadline, unseen progress its timer.
EachIsWatched == NoLostWake /\ StoppingHasDeadline /\ ProgressWillBeShown

\* What is over stays over: final states, forgotten tasks, and a manager that is
\* being disposed of.
NoWayBack == FinalIsFinal /\ SweepStartsNothing /\ []OnlyFinishedForgotten

\* Stopping tasks, waiting tasks and dispose() come to an end.
EverythingEnds == StoppingEnds /\ PendingEnds /\ DisposeReturns
=============================================================================
