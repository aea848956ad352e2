------------------------------- MODULE MCHosts -------------------------------
(* What keeps the database side of the application reachable, as TLC checks    *)
(* it: the supervisor of the host process (WorkerSupervisor, whose constants   *)
(* the configuration gives) and the manager of the connections inside it       *)
(* (ConnectionManager).  A behaviour is one of the one or the other, as part   *)
(* says: they share no state, a host that dies takes its manager with it.      *)
(* Three processes, so that an old one, the one that runs and the one that     *)
(* starts can differ; two requests, so that one is served while another is     *)
(* abandoned; two entries, sessions and callers for one connection id.  The    *)
(* theorems of HostsProofs hold for any of these sets.                         *)
EXTENDS WorkerSupervisor

CONSTANTS Entry, Session, Caller, Early, Attempts  \* of the manager

VARIABLES
    part,
    current, opening, over, redo, tries, session, redone, closing, ended, timer, pinged,
    state, live, caller, overlap

work == <<current, opening, over, redo, tries, session, redone, closing, ended, timer, pinged,
          state, live, caller>>

Manager == INSTANCE ConnectionManager WITH Overlap <- BOOLEAN

ASSUME HostsAssumption == Manager!ManagerAssumption

Begins ==
    /\ part \in {"supervisor", "manager"}
    /\ Init /\ Manager!Init
    /\ part = "supervisor" => overlap

Steps ==
    /\ UNCHANGED part
    /\ \/ part = "supervisor" /\ Next /\ UNCHANGED <<work, overlap>>
       \/ part = "manager" /\ Manager!Next /\ UNCHANGED vars

\* What the FairSpec of each module promises, for the one that runs.
Fair ==
    /\ WF_vars(part = "supervisor" /\ BackoffEnds)
    /\ \A r \in Request : WF_vars(part = "supervisor" /\ GraceExpires(r))
    /\ \A w \in Worker : /\ WF_vars(part = "supervisor" /\ ReadyTimeout(w))
                         /\ WF_vars(part = "supervisor" /\ killed[w] /\ Exit(w))
    /\ \A e \in Entry : /\ WF_work(part = "manager" /\ Manager!OpenAfterClose(e))
                      /\ WF_work(part = "manager" /\ Manager!RedoGoesOn(e))

Hosts == Begins /\ [][Steps]_<<part, vars, work, overlap>> /\ Fair

\* Every session, keep-alive and waiting caller belongs to a connection in the map or
\* to a reconnect in progress.
ManagerAccounted == Manager!Accounted

\* Nothing comes after the end: of a request, of the supervisor, of a connection that
\* was closed.
NothingAfterTheEnd == SettledStays /\ Manager!NoAttemptAfterClose

\* Whoever waits for the worker or for a connection is told, and an abandoned request
\* frees the worker or is its end.
EveryoneIsAnswered == AskedIsTold /\ AbandonedIsFreed /\ Manager!AcquireIsAnswered
=============================================================================
