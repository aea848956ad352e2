---------------------------- MODULE StatementRun ----------------------------
(* What a run of one statement promises to the service that owns it: it works, *)
(* it may pause while nobody asks for more, it can be stopped, and it settles  *)
(* once and then finishes.                                                     *)

VARIABLES
    state,      \* running, or how it ended
    paused,     \* it waits to be asked for more
    stopping,   \* it was told to stop
    finished    \* the promise `finished` has resolved

runVars == <<state, paused, stopping, finished>>

Init == state = "running" /\ paused = FALSE /\ stopping = FALSE /\ finished = FALSE

Pause ==
    /\ state = "running" /\ ~stopping /\ ~paused
    /\ paused' = TRUE
    /\ UNCHANGED <<state, stopping, finished>>

GoOn ==
    /\ paused
    /\ paused' = FALSE
    /\ UNCHANGED <<state, stopping, finished>>

Stop ==
    /\ state = "running"
    /\ stopping' = TRUE
    /\ UNCHANGED <<state, paused, finished>>

\* A run that was told to stop is never reported as done.
Settle ==
    /\ state = "running" /\ ~paused
    /\ state' \in (IF stopping THEN {"failed", "cancelled"} ELSE {"done", "failed", "cancelled"})
    /\ UNCHANGED <<paused, stopping>>
    /\ finished' \in BOOLEAN

Finish ==
    /\ state # "running"
    /\ finished' = TRUE
    /\ UNCHANGED <<state, paused, stopping>>

Next == Pause \/ GoOn \/ Stop \/ Settle \/ Finish

Spec == Init /\ [][Next]_runVars
=============================================================================
