---------------------------- MODULE HostsProofs -----------------------------
(* Proofs about the worker supervisor: nobody is forgotten and nobody is told  *)
(* twice, for any number of processes, requests and tolerated crashes; and     *)
(* what MCHosts composes it with, the connection manager: what is open belongs *)
(* to somebody, and a closed connection is not tried again.                    *)
EXTENDS MCHosts, TLAPS

\* The life of a process, its ready promise and the start in progress agree.
ProcessInv ==
    /\ \A w \in Worker :
         /\ ready[w] = "unborn" <=> proc[w] = "unborn"
         /\ ready[w] = "waiting" => proc[w] = "booting"
         /\ ready[w] = "waiting" <=> starting = w
         /\ pending[w] \cup held[w] # {} => proc[w] = "up"
    /\ running # none => proc[running] = "up"
    /\ status = "running" => running # none

\* Where a request is: with one process at most, from its posting on.
PlaceInv ==
    /\ \A r \in Request, w \in Worker :
         r \in pending[w] \cup held[w] => req[r] \notin {"new", "asked"}
    /\ \A r \in Request, w, v \in Worker :
         r \in pending[w] \cup held[w] /\ r \in pending[v] \cup held[v] => w = v

\* What a process still holds is in its map, or the process is to die.
HeldInv == \A w \in Worker : held[w] \subseteq pending[w] \/ killed[w]

Inv == TypeOK /\ ProcessInv /\ PlaceInv /\ HeldInv /\ NobodyForgotten /\ AbandonedIsWatched

LEMMA InitInv == Init => Inv
  BY SupervisorAssumption DEF Init, Inv, TypeOK, ProcessInv, PlaceInv, HeldInv, NobodyForgotten,
     AbandonedIsWatched, Settled

(* ----------------------------- the variables ---------------------------- *)

ReqState == {"new", "asked", "sent"} \cup Settled

LEMMA Outcomes ==
    /\ "answered" \in Settled /\ "crashed" \in Settled /\ "cancelled" \in Settled
    /\ "timed out" \in Settled /\ "unavailable" \in Settled
    /\ "new" \notin Settled /\ "asked" \notin Settled /\ "sent" \notin Settled
  BY DEF Settled

\* What the callers are told keeps req a function to outcomes.
LEMMA ToldType ==
    ASSUME TypeOK
    PROVE  /\ RejectAsked => req' \in [Request -> ReqState]
           /\ \A w \in Worker : Told(w, "crashed") \in [Request -> ReqState]
           /\ \A w \in Worker : Told(w, "cancelled") \in [Request -> ReqState]
           /\ \A w \in Worker : Released(w) \in [Request -> BOOLEAN]
<1>1. RejectAsked => req' \in [Request -> ReqState]
  BY Outcomes DEF TypeOK, RejectAsked, ReqState
<1>2. ASSUME NEW w \in Worker, NEW why \in Settled PROVE Told(w, why) \in [Request -> ReqState]
  BY <1>2 DEF TypeOK, Told, ReqState
<1>3. ASSUME NEW w \in Worker PROVE Released(w) \in [Request -> BOOLEAN]
  BY <1>3 DEF TypeOK, Released
<1> QED BY <1>1, <1>2, <1>3, Outcomes

LEMMA TypeStep == TypeOK /\ [Next]_vars => TypeOK'
<1> SUFFICES ASSUME TypeOK PROVE [Next]_vars => TypeOK'
  OBVIOUS
<1> USE DEF TypeOK
<1>1. ASSUME NEW r \in Request, RequestRefused(r) PROVE TypeOK'
  BY <1>1, Outcomes DEF RequestRefused
<1>2. ASSUME NEW r \in Request, RequestPosted(r) PROVE TypeOK'
  BY <1>2 DEF RequestPosted
<1>3. ASSUME NEW r \in Request, RequestWaits(r) PROVE TypeOK'
  BY <1>3 DEF RequestWaits
<1>4. ASSUME Launch, req' \in [Request -> ReqState] PROVE TypeOK'
  BY <1>4 DEF Launch, Moved, CrashState, ReqState
<1>5. ASSUME NEW r \in Request, RequestLaunches(r) PROVE TypeOK'
  <2>1. Launch /\ req' \in [Request -> ReqState]
    BY <1>5, Outcomes DEF RequestLaunches, ReqState
  <2> QED BY <1>4, <2>1
<1>6. ASSUME NEW r \in Request, AbortAsked(r) PROVE TypeOK'
  BY <1>6 DEF AbortAsked
<1>7. ASSUME NEW r \in Request, NEW why, Abandon(r, why) PROVE TypeOK'
  BY <1>7, Outcomes DEF Abandon
<1>8. ASSUME NEW r \in Request, GraceExpires(r) PROVE TypeOK'
  BY <1>8 DEF GraceExpires
<1>9. ASSUME BackoffEnds PROVE TypeOK'
  <2>1. RejectAsked \/ UNCHANGED req
    BY <1>9 DEF BackoffEnds
  <2>2. req' \in [Request -> ReqState]
    BY <2>1, ToldType DEF ReqState
  <2>3. CASE status = "stopped"
    BY <1>9, <2>2, <2>3 DEF BackoffEnds, ReqState
  <2>4. CASE status # "stopped"
    BY <1>4, <1>9, <2>2, <2>4 DEF BackoffEnds
  <2> QED BY <2>3, <2>4
<1>10. ASSUME NEW w \in Worker, Ready(w) PROVE TypeOK'
  <2>1. CASE ready[w] = "waiting"
    <3>1. req' \in [Request -> ReqState]
      <4>1. \A r \in Request : req'[r] \in {req[r], "sent", "cancelled"}
        BY <1>10, <2>1 DEF Ready
      <4>2. req' = [r \in Request |-> req'[r]]
        BY <1>10, <2>1 DEF Ready
      <4> QED BY <4>1, <4>2, Outcomes DEF ReqState
    <3>2. \E posted \in {{}, {r \in Asked : ~aborted[r]}} : pending' = [pending EXCEPT ![w] = posted]
      BY <1>10, <2>1 DEF Ready
    <3>3. held' = [held EXCEPT ![w] = {r \in Asked : ~aborted[r]}]
      BY <1>10, <2>1 DEF Ready
    <3>5. {r \in Asked : ~aborted[r]} \subseteq Request
      BY DEF Asked
    <3>4. pending' \in [Worker -> SUBSET Request] /\ held' \in [Worker -> SUBSET Request]
      BY <3>2, <3>3, <3>5
    <3> QED BY <1>10, <2>1, <3>1, <3>4 DEF Ready, Moved, ReqState
  <2>2. CASE ready[w] # "waiting"
    BY <1>10, <2>2 DEF Ready, Moved
  <2> QED BY <2>1, <2>2
<1>11. ASSUME NEW w \in Worker, ReadyMismatch(w) PROVE TypeOK'
  <2>1. req' \in [Request -> ReqState]
    BY <1>11, ToldType DEF ReadyMismatch, ReqState
  <2> QED BY <1>11, <2>1 DEF ReadyMismatch, StartFails, ReqState
<1>12. ASSUME NEW w \in Worker, ReadyTimeout(w) PROVE TypeOK'
  <2>1. req' \in [Request -> ReqState]
    BY <1>12, ToldType DEF ReadyTimeout
  <2> QED BY <1>12, <2>1 DEF ReadyTimeout, StartFails, ReqState
<1>13. ASSUME NEW w \in Worker, Exit(w) PROVE TypeOK'
  <2>1. req' \in [Request -> ReqState]
    BY <1>13, ToldType, Outcomes DEF Exit, ReqState
  <2>2. grace' \in [Request -> BOOLEAN]
    BY <1>13, ToldType DEF Exit
  <2>3. /\ crashes' \in Nat
        /\ status' \in {"idle", "starting", "running", "crashed", "failed", "stopped"}
    BY <1>13 DEF Exit, CrashState
  <2> QED BY <1>13, <2>1, <2>2, <2>3 DEF Exit, RunningWithout, StartFails, ReqState
<1>14. ASSUME NEW w \in Worker, NEW r \in Request, Answer(w, r) PROVE TypeOK'
  BY <1>14, Outcomes DEF Answer
<1>15. ASSUME CrashAgesOut PROVE TypeOK'
  BY <1>15 DEF CrashAgesOut
<1>16. ASSUME Reset PROVE TypeOK'
  BY <1>16 DEF Reset
<1>17. ASSUME Stop PROVE TypeOK'
  <2>1. req' \in [Request -> ReqState] /\ grace' \in [Request -> BOOLEAN]
    BY <1>17, ToldType DEF Stop, ReqState
  <2> QED BY <1>17, <2>1 DEF Stop, ReqState
<1>18. CASE UNCHANGED vars
  BY <1>18 DEF vars
<1> QED BY <1>1, <1>2, <1>3, <1>5, <1>6, <1>7, <1>8, <1>9, <1>10, <1>11, <1>12, <1>13, <1>14,
           <1>15, <1>16, <1>17, <1>18 DEF Next

(* ----------------------------- the processes ---------------------------- *)

\* Only a process that was never started is started, and only when none starts.
LEMMA LaunchProcess ==
    ASSUME TypeOK, ProcessInv, Launch, starting \in {none, "delay"}
    PROVE  ProcessInv'
<1> USE SupervisorAssumption DEF TypeOK, ProcessInv
<1>1. CASE UNCHANGED <<proc, ready>>
  BY <1>1 DEF Launch, Moved, CrashState
<1>2. ASSUME NEW w \in Worker, proc[w] = "unborn", status' = Moved("starting"), starting' = w,
             proc' = [proc EXCEPT ![w] = "booting"], ready' = [ready EXCEPT ![w] = "waiting"]
      PROVE  ProcessInv'
  BY <1>2 DEF Launch, Moved
<1> QED BY <1>1, <1>2 DEF Launch

LEMMA ProcessStep == TypeOK /\ ProcessInv /\ [Next]_vars => ProcessInv'
<1> SUFFICES ASSUME TypeOK, ProcessInv PROVE [Next]_vars => ProcessInv'
  OBVIOUS
<1> USE SupervisorAssumption DEF TypeOK, ProcessInv
<1>1. ASSUME UNCHANGED <<running, starting, proc, ready, pending, held>>,
             status' = "running" => status = "running"
      PROVE  ProcessInv'
  BY <1>1
<1>2. ASSUME NEW r \in Request, RequestRefused(r) \/ AbortAsked(r) \/ GraceExpires(r)
      PROVE  ProcessInv'
  BY <1>1, <1>2 DEF RequestRefused, AbortAsked, GraceExpires
<1>3. ASSUME NEW r \in Request, NEW why, Abandon(r, why) PROVE ProcessInv'
  BY <1>1, <1>3 DEF Abandon
<1>4. ASSUME NEW r \in Request, RequestPosted(r) PROVE ProcessInv'
  BY <1>4 DEF RequestPosted
<1>5. ASSUME NEW r \in Request, RequestWaits(r) PROVE ProcessInv'
  BY <1>5 DEF RequestWaits
<1>6. ASSUME NEW r \in Request, RequestLaunches(r) PROVE ProcessInv'
  BY <1>6, LaunchProcess DEF RequestLaunches
<1>7. ASSUME BackoffEnds PROVE ProcessInv'
  <2>1. CASE status = "stopped"
    BY <1>7, <2>1 DEF BackoffEnds
  <2>2. CASE status # "stopped"
    BY <1>7, <2>2, LaunchProcess DEF BackoffEnds
  <2> QED BY <2>1, <2>2
<1>8. ASSUME NEW w \in Worker, Ready(w) PROVE ProcessInv'
  <2>1. CASE ready[w] = "waiting"
    <3>1. PICK posted, got \in SUBSET Asked :
             /\ pending' = [pending EXCEPT ![w] = posted]
             /\ held' = [held EXCEPT ![w] = got]
      <4>1. /\ pending' = [pending EXCEPT ![w] = IF stopping = "waiting" THEN {}
                                               ELSE {r \in Asked : ~aborted[r]}]
            /\ held' = [held EXCEPT ![w] = {r \in Asked : ~aborted[r]}]
        BY <1>8, <2>1 DEF Ready
      <4> QED BY <4>1
    <3>2. /\ proc' = [proc EXCEPT ![w] = "up"] /\ ready' = [ready EXCEPT ![w] = "ok"]
          /\ running' = w /\ starting' = none /\ proc[w] = "booting"
      BY <1>8, <2>1 DEF Ready
    <3> QED BY <2>1, <3>1, <3>2
  <2>2. CASE ready[w] # "waiting"
    BY <1>8, <2>2 DEF Ready
  <2> QED BY <2>1, <2>2
<1>9. ASSUME NEW w \in Worker, ReadyMismatch(w) PROVE ProcessInv'
  BY <1>9 DEF ReadyMismatch, StartFails
<1>10. ASSUME NEW w \in Worker, ReadyTimeout(w) PROVE ProcessInv'
  BY <1>10 DEF ReadyTimeout, StartFails
<1>11. ASSUME NEW w \in Worker, Exit(w) PROVE ProcessInv'
  <2>1. status' # "running"
    BY <1>11 DEF Exit, CrashState
  <2> QED BY <1>11, <2>1 DEF Exit, Alive, RunningWithout, StartFails
<1>12. ASSUME NEW w \in Worker, NEW r \in Request, Answer(w, r) PROVE ProcessInv'
  BY <1>12 DEF Answer
<1>13. ASSUME CrashAgesOut \/ Reset PROVE ProcessInv'
  BY <1>1, <1>13 DEF CrashAgesOut, Reset
<1>14. ASSUME Stop PROVE ProcessInv'
  BY <1>14 DEF Stop
<1>15. CASE UNCHANGED vars
  BY <1>1, <1>15 DEF vars
<1> QED BY <1>2, <1>3, <1>4, <1>5, <1>6, <1>7, <1>8, <1>9, <1>10, <1>11, <1>12, <1>13, <1>14,
           <1>15 DEF Next

(* ----------------------------- the requests ----------------------------- *)

\* What Ready(w) does with the callers that wait for w: they post, unless they gave up; where stop()
\* waits too, it tells all of them and kills w.
LEMMA ReadyPosts ==
    ASSUME TypeOK, ProcessInv, NEW w \in Worker, Ready(w), ready[w] = "waiting"
    PROVE  \E posted, got \in SUBSET Asked :
             /\ pending' = [pending EXCEPT ![w] = posted]
             /\ held' = [held EXCEPT ![w] = got]
             /\ req' = [r \in Request |-> IF r \in posted THEN "sent"
                                          ELSE IF r \in Asked THEN "cancelled" ELSE req[r]]
             /\ posted \subseteq got /\ (posted = got \/ killed'[w])
             /\ pending[w] = {} /\ held[w] = {}
<1> DEFINE got == {r \in Asked : ~aborted[r]}
           posted == IF stopping = "waiting" THEN {} ELSE got
<1>1. got \in SUBSET Asked /\ posted \in SUBSET Asked /\ posted \subseteq got
  OBVIOUS
<1>2. /\ pending' = [pending EXCEPT ![w] = posted]
      /\ held' = [held EXCEPT ![w] = got]
  BY DEF Ready
<1>3. req' = [r \in Request |-> IF r \in posted THEN "sent"
                               ELSE IF r \in Asked THEN "cancelled" ELSE req[r]]
  <2>1. CASE stopping = "waiting"
    BY <2>1 DEF Ready
  <2>2. CASE stopping # "waiting"
    BY <2>2 DEF Ready
  <2> QED BY <2>1, <2>2
<1>4. posted = got \/ killed'[w]
  <2>1. killed' = [killed EXCEPT ![w] = @ \/ stopping = "waiting"]
    BY DEF Ready
  <2>2. stopping = "waiting" => killed'[w]
    BY <2>1 DEF TypeOK
  <2> QED BY <2>2
<1>5. pending[w] = {} /\ held[w] = {}
  BY DEF Ready, ProcessInv
<1> HIDE DEF got, posted
<1> QED BY <1>1, <1>2, <1>3, <1>4, <1>5, Zenon

LEMMA PlaceStep == TypeOK /\ ProcessInv /\ PlaceInv /\ [Next]_vars => PlaceInv'
<1> SUFFICES ASSUME TypeOK, ProcessInv, PlaceInv PROVE [Next]_vars => PlaceInv'
  OBVIOUS
<1> USE DEF TypeOK, PlaceInv
<1>1. ASSUME \A w \in Worker : pending'[w] \subseteq pending[w] /\ held'[w] \subseteq held[w],
             \A r \in Request : req'[r] \in {"new", "asked"} => req[r] \in {"new", "asked"}
      PROVE  PlaceInv'
  BY <1>1
<1>2. ASSUME NEW r \in Request, RequestRefused(r) \/ RequestWaits(r) \/ AbortAsked(r)
                                \/ GraceExpires(r)
      PROVE  PlaceInv'
  BY <1>1, <1>2 DEF RequestRefused, RequestWaits, AbortAsked, GraceExpires
<1>3. ASSUME NEW r \in Request, NEW why, Abandon(r, why) PROVE PlaceInv'
  BY <1>1, <1>3 DEF Abandon
<1>4. ASSUME NEW r \in Request, RequestPosted(r) PROVE PlaceInv'
  BY <1>4 DEF RequestPosted
<1>5. ASSUME NEW r \in Request, RequestLaunches(r) PROVE PlaceInv'
  BY <1>1, <1>5 DEF RequestLaunches, Launch
<1>6. ASSUME BackoffEnds PROVE PlaceInv'
  <2>1. UNCHANGED <<pending, held>> /\ (RejectAsked \/ UNCHANGED req)
    BY <1>6 DEF BackoffEnds, Launch
  <2> QED BY <1>1, <2>1 DEF RejectAsked
<1>7. ASSUME NEW w \in Worker, Ready(w) PROVE PlaceInv'
  <2>1. CASE ready[w] = "waiting"
    <3>1. PICK posted, got \in SUBSET Asked :
             /\ pending' = [pending EXCEPT ![w] = posted]
             /\ held' = [held EXCEPT ![w] = got]
             /\ req' = [r \in Request |-> IF r \in posted THEN "sent"
                                          ELSE IF r \in Asked THEN "cancelled" ELSE req[r]]
             /\ posted \subseteq got
      BY <1>7, <2>1, ReadyPosts
    <3> QED BY <3>1 DEF Asked
  <2>2. CASE ready[w] # "waiting"
    BY <1>1, <1>7, <2>2 DEF Ready
  <2> QED BY <2>1, <2>2
<1>8. ASSUME NEW w \in Worker, ReadyMismatch(w) \/ ReadyTimeout(w) PROVE PlaceInv'
  BY <1>1, <1>8 DEF ReadyMismatch, ReadyTimeout, RejectAsked
<1>9. ASSUME NEW w \in Worker, Exit(w) PROVE PlaceInv'
  BY <1>1, <1>9 DEF Exit, Told
<1>10. ASSUME NEW w \in Worker, NEW r \in Request, Answer(w, r) PROVE PlaceInv'
  BY <1>1, <1>10 DEF Answer
<1>11. ASSUME CrashAgesOut \/ Reset \/ UNCHANGED vars PROVE PlaceInv'
  BY <1>1, <1>11 DEF CrashAgesOut, Reset, vars
<1>12. ASSUME Stop PROVE PlaceInv'
  BY <1>1, <1>12 DEF Stop, Told
<1> QED BY <1>2, <1>3, <1>4, <1>5, <1>6, <1>7, <1>8, <1>9, <1>10, <1>11, <1>12 DEF Next

LEMMA HeldStep == TypeOK /\ ProcessInv /\ HeldInv /\ [Next]_vars => HeldInv'
<1> SUFFICES ASSUME TypeOK, ProcessInv, HeldInv PROVE [Next]_vars => HeldInv'
  OBVIOUS
<1> USE DEF TypeOK, HeldInv
<1>1. ASSUME UNCHANGED <<pending, held>>, \A w \in Worker : killed[w] => killed'[w]
      PROVE  HeldInv'
  BY <1>1
<1>2. ASSUME NEW r \in Request, \/ RequestRefused(r) \/ RequestWaits(r) \/ RequestLaunches(r)
                                \/ AbortAsked(r) \/ GraceExpires(r)
      PROVE  HeldInv'
  BY <1>1, <1>2 DEF RequestRefused, RequestWaits, RequestLaunches, Launch, AbortAsked,
     GraceExpires
<1>3. ASSUME NEW r \in Request, NEW why, Abandon(r, why) PROVE HeldInv'
  BY <1>1, <1>3 DEF Abandon
<1>4. ASSUME NEW r \in Request, RequestPosted(r) PROVE HeldInv'
  BY <1>4 DEF RequestPosted
<1>5. ASSUME BackoffEnds PROVE HeldInv'
  BY <1>1, <1>5 DEF BackoffEnds, Launch
<1>6. ASSUME NEW w \in Worker, Ready(w) PROVE HeldInv'
  <2>1. CASE ready[w] = "waiting"
    <3>1. PICK posted, got \in SUBSET Asked :
             /\ pending' = [pending EXCEPT ![w] = posted]
             /\ held' = [held EXCEPT ![w] = got]
             /\ posted = got \/ killed'[w]
      BY <1>6, <2>1, ReadyPosts
    <3>2. killed' = [killed EXCEPT ![w] = @ \/ stopping = "waiting"]
      BY <1>6, <2>1 DEF Ready
    <3> QED BY <3>1, <3>2
  <2>2. CASE ready[w] # "waiting"
    BY <1>1, <1>6, <2>2 DEF Ready
  <2> QED BY <2>1, <2>2
<1>7. ASSUME NEW w \in Worker, ReadyMismatch(w) \/ ReadyTimeout(w) PROVE HeldInv'
  BY <1>1, <1>7 DEF ReadyMismatch, ReadyTimeout
<1>8. ASSUME NEW w \in Worker, Exit(w) PROVE HeldInv'
  BY <1>8 DEF Exit
<1>9. ASSUME NEW w \in Worker, NEW r \in Request, Answer(w, r) PROVE HeldInv'
  BY <1>9 DEF Answer
<1>10. ASSUME CrashAgesOut \/ Reset \/ UNCHANGED vars PROVE HeldInv'
  BY <1>1, <1>10 DEF CrashAgesOut, Reset, vars
<1>11. ASSUME Stop PROVE HeldInv'
  BY <1>11 DEF Stop
<1> QED BY <1>2, <1>3, <1>4, <1>5, <1>6, <1>7, <1>8, <1>9, <1>10, <1>11 DEF Next

(* ------------------------------ the callers ----------------------------- *)

LEMMA ForgottenStep ==
    TypeOK /\ ProcessInv /\ PlaceInv /\ NobodyForgotten /\ [Next]_vars => NobodyForgotten'
<1> SUFFICES ASSUME TypeOK, ProcessInv, PlaceInv, NobodyForgotten
             PROVE  [Next]_vars => NobodyForgotten'
  OBVIOUS
<1> USE SupervisorAssumption DEF TypeOK, NobodyForgotten, Alive
<1>1. ASSUME \A r \in Request : req'[r] = "sent" => req[r] = "sent",
             \A r \in Request : req'[r] = "asked" => req[r] = "asked" /\ starting' = starting,
             UNCHANGED <<proc, pending>>
      PROVE  NobodyForgotten'
  BY <1>1
<1>2. ASSUME NEW r \in Request, RequestRefused(r) \/ AbortAsked(r) \/ GraceExpires(r)
      PROVE  NobodyForgotten'
  BY <1>1, <1>2 DEF RequestRefused, AbortAsked, GraceExpires
<1>3. ASSUME NEW r \in Request, NEW why, Abandon(r, why) PROVE NobodyForgotten'
  BY <1>1, <1>3 DEF Abandon
<1>4. ASSUME NEW r \in Request, RequestPosted(r) PROVE NobodyForgotten'
  <2>1. proc[running] = "up" /\ running \in Worker
    BY <1>4 DEF RequestPosted, ProcessInv
  <2> QED BY <1>4, <2>1 DEF RequestPosted
<1>5. ASSUME NEW r \in Request, RequestWaits(r) PROVE NobodyForgotten'
  BY <1>5 DEF RequestWaits
<1>6. ASSUME Launch,
             \A r \in Request : req'[r] = "sent" => req[r] = "sent",
             \A r \in Request : req'[r] = "asked" => starting' # none
      PROVE  NobodyForgotten'
  <2>1. \A w \in Worker : Alive(w) => Alive(w)'
    BY <1>6 DEF Launch
  <2>2. UNCHANGED pending
    BY <1>6 DEF Launch
  <2> QED BY <1>6, <2>1, <2>2
<1>7. ASSUME NEW r \in Request, RequestLaunches(r) PROVE NobodyForgotten'
  <2>1. \A q \in Request : req[q] # "asked"
    BY <1>7 DEF RequestLaunches
  <2> QED BY <1>6, <1>7, <2>1 DEF RequestLaunches
<1>8. ASSUME BackoffEnds PROVE NobodyForgotten'
  <2>1. RejectAsked \/ (starting' # none /\ UNCHANGED req)
    BY <1>8 DEF BackoffEnds
  <2>2. /\ \A r \in Request : req'[r] = "sent" => req[r] = "sent"
        /\ \A r \in Request : req'[r] = "asked" => starting' # none
    BY <2>1 DEF RejectAsked, Asked
  <2>3. CASE status = "stopped"
    BY <1>8, <2>2, <2>3 DEF BackoffEnds
  <2>4. CASE status # "stopped"
    BY <1>6, <1>8, <2>2, <2>4 DEF BackoffEnds
  <2> QED BY <2>3, <2>4
<1>9. ASSUME NEW w \in Worker, Ready(w) PROVE NobodyForgotten'
  <2>1. proc' = [proc EXCEPT ![w] = "up"]
    BY <1>9 DEF Ready
  <2>2. CASE ready[w] = "waiting"
    <3>1. PICK posted, got \in SUBSET Asked :
             /\ pending' = [pending EXCEPT ![w] = posted]
             /\ held' = [held EXCEPT ![w] = got]
             /\ req' = [r \in Request |-> IF r \in posted THEN "sent"
                                          ELSE IF r \in Asked THEN "cancelled" ELSE req[r]]
             /\ pending[w] = {}
      BY <1>9, <2>2, ReadyPosts
    <3> QED BY <2>1, <3>1 DEF Asked
  <2>3. CASE ready[w] # "waiting"
    BY <1>9, <2>1, <2>3 DEF Ready
  <2> QED BY <2>2, <2>3
<1>10. ASSUME NEW w \in Worker, ReadyMismatch(w) PROVE NobodyForgotten'
  <2>1. CASE ready[w] = "waiting"
    BY <1>10, <2>1 DEF ReadyMismatch, RejectAsked, Asked
  <2>2. CASE ready[w] # "waiting"
    BY <1>10, <2>2 DEF ReadyMismatch, StartFails
  <2> QED BY <2>1, <2>2
<1>11. ASSUME NEW w \in Worker, ReadyTimeout(w) PROVE NobodyForgotten'
  BY <1>1, <1>11 DEF ReadyTimeout, RejectAsked, Asked
<1>12. ASSUME NEW w \in Worker, Exit(w) PROVE NobodyForgotten'
  <2>1. /\ proc' = [proc EXCEPT ![w] = "exited"] /\ pending' = [pending EXCEPT ![w] = {}]
        /\ StartFails(w)
        /\ req' = [r \in Request |-> IF ready[w] = "waiting" /\ r \in Asked
                                     THEN "unavailable" ELSE Told(w, "crashed")[r]]
    BY <1>12 DEF Exit
  <2>2. \A r \in Request : Told(w, "crashed")[r] =
                           IF r \in pending[w] /\ req[r] = "sent" THEN "crashed" ELSE req[r]
    BY DEF Told
  <2>3. \A r \in Request : req'[r] = "sent" => req[r] = "sent" /\ r \notin pending[w]
    BY <2>1, <2>2 DEF Asked
  <2>4. \A r \in Request : req'[r] = "asked" => req[r] = "asked" /\ starting' = starting
    BY <2>1, <2>2 DEF Asked, StartFails
  <2> QED BY <2>1, <2>3, <2>4
<1>13. ASSUME NEW w \in Worker, NEW r \in Request, Answer(w, r) PROVE NobodyForgotten'
  <2>1. pending' = [pending EXCEPT ![w] = @ \ {r}] /\ UNCHANGED <<proc, starting>>
    BY <1>13 DEF Answer
  <2>2. CASE r \in pending[w]
    <3>1. req' = [req EXCEPT ![r] = IF @ = "sent" THEN "answered" ELSE @]
      BY <1>13, <2>2 DEF Answer
    <3> QED BY <2>1, <3>1
  <2>3. CASE r \notin pending[w]
    BY <1>13, <2>1, <2>3 DEF Answer
  <2> QED BY <2>2, <2>3
<1>14. ASSUME CrashAgesOut \/ Reset \/ UNCHANGED vars PROVE NobodyForgotten'
  BY <1>1, <1>14 DEF CrashAgesOut, Reset, vars
<1>15. ASSUME Stop PROVE NobodyForgotten'
  BY <1>15 DEF Stop, Told
<1> QED BY <1>2, <1>3, <1>4, <1>5, <1>7, <1>8, <1>9, <1>10, <1>11, <1>12, <1>13, <1>14, <1>15
        DEF Next

LEMMA WatchedStep ==
    TypeOK /\ ProcessInv /\ PlaceInv /\ HeldInv /\ AbandonedIsWatched /\ [Next]_vars
        => AbandonedIsWatched'
<1> DEFINE Abandonment == {"cancelled", "timed out"}
<1> SUFFICES ASSUME TypeOK, ProcessInv, PlaceInv, HeldInv, AbandonedIsWatched, [Next]_vars,
                    NEW q \in Request, NEW v \in Worker, q \in held'[v], req'[q] \in Abandonment
             PROVE  grace'[q] \/ killed'[v]
  BY DEF AbandonedIsWatched
<1>0. q \in held[v] /\ req[q] \in Abandonment => grace[q] \/ killed[v]
  BY DEF AbandonedIsWatched
<1> USE DEF TypeOK
<1>1. ASSUME UNCHANGED <<held, grace>>, killed[v] => killed'[v],
             req'[q] \in Abandonment => req[q] \in Abandonment
      PROVE  grace'[q] \/ killed'[v]
  BY <1>0, <1>1
<1>2. ASSUME NEW r \in Request, \/ RequestRefused(r) \/ RequestWaits(r) \/ RequestLaunches(r)
                                \/ AbortAsked(r)
      PROVE  grace'[q] \/ killed'[v]
  BY <1>1, <1>2 DEF RequestRefused, RequestWaits, RequestLaunches, Launch, AbortAsked
<1>3. ASSUME NEW r \in Request, NEW why, Abandon(r, why) PROVE grace'[q] \/ killed'[v]
  BY <1>0, <1>3 DEF Abandon
<1>4. ASSUME NEW r \in Request, RequestPosted(r) PROVE grace'[q] \/ killed'[v]
  BY <1>0, <1>4 DEF RequestPosted
<1>5. ASSUME NEW r \in Request, GraceExpires(r) PROVE grace'[q] \/ killed'[v]
  BY <1>0, <1>5 DEF GraceExpires, HeldInv
<1>6. ASSUME BackoffEnds PROVE grace'[q] \/ killed'[v]
  BY <1>1, <1>6 DEF BackoffEnds, Launch, RejectAsked
<1>7. ASSUME NEW w \in Worker, Ready(w) PROVE grace'[q] \/ killed'[v]
  <2>1. CASE ready[w] = "waiting"
    <3>1. PICK posted, got \in SUBSET Asked :
             /\ held' = [held EXCEPT ![w] = got]
             /\ req' = [r \in Request |-> IF r \in posted THEN "sent"
                                          ELSE IF r \in Asked THEN "cancelled" ELSE req[r]]
             /\ posted = got \/ killed'[w]
      BY <1>7, <2>1, ReadyPosts
    <3>2. CASE v = w /\ posted # got
      BY <3>1, <3>2
    <3>3. CASE v # w \/ posted = got
      <4>1. q \in held[v] /\ q \notin Asked
        BY <3>1, <3>3 DEF Asked, PlaceInv
      <4>2. UNCHANGED grace /\ (killed[v] => killed'[v])
        BY <1>7, <2>1 DEF Ready
      <4> QED BY <1>0, <3>1, <4>1, <4>2
    <3> QED BY <3>2, <3>3
  <2>2. CASE ready[w] # "waiting"
    BY <1>1, <1>7, <2>2 DEF Ready
  <2> QED BY <2>1, <2>2
<1>8. ASSUME NEW w \in Worker, ReadyMismatch(w) \/ ReadyTimeout(w) PROVE grace'[q] \/ killed'[v]
  BY <1>1, <1>8 DEF ReadyMismatch, ReadyTimeout, RejectAsked
<1>9. ASSUME NEW w \in Worker, Exit(w) PROVE grace'[q] \/ killed'[v]
  <2>1. v # w /\ q \in held[v] /\ UNCHANGED killed
    BY <1>9 DEF Exit
  <2>2. q \notin pending[w]
    BY <2>1 DEF PlaceInv
  <2>3. grace'[q] = grace[q] /\ req[q] \in Abandonment
    BY <1>9, <2>2 DEF Exit, Told, Released
  <2> QED BY <1>0, <2>1, <2>3
<1>10. ASSUME NEW w \in Worker, NEW r \in Request, Answer(w, r) PROVE grace'[q] \/ killed'[v]
  <2>1. q \in held[v] /\ UNCHANGED killed
    BY <1>10 DEF Answer
  <2>2. q # r
    <3>1. held' = [held EXCEPT ![w] = @ \ {r}] /\ r \in held[w]
      BY <1>10 DEF Answer
    <3>2. CASE v = w
      BY <3>1, <3>2
    <3>3. CASE v # w
      <4>1. \A p \in Request : p \in held[v] /\ p \in held[w] => v = w
        BY DEF PlaceInv
      <4> QED BY <2>1, <3>1, <3>3, <4>1
    <3> QED BY <3>2, <3>3
  <2>3. grace'[q] = grace[q] /\ req[q] \in Abandonment
    <3>1. \/ UNCHANGED <<grace, req>>
          \/ /\ grace' = [grace EXCEPT ![r] = FALSE]
             /\ req' = [req EXCEPT ![r] = IF @ = "sent" THEN "answered" ELSE @]
      BY <1>10 DEF Answer
    <3> QED BY <2>2, <3>1
  <2> QED BY <1>0, <2>1, <2>3
<1>11. ASSUME CrashAgesOut \/ Reset \/ UNCHANGED vars PROVE grace'[q] \/ killed'[v]
  BY <1>1, <1>11 DEF CrashAgesOut, Reset, vars
<1>12. ASSUME Stop PROVE grace'[q] \/ killed'[v]
  <2>1. CASE running = none
    BY <1>1, <1>12, <2>1 DEF Stop
  <2>2. CASE running # none
    <3>1. q \in held[v] /\ running \in Worker /\ killed' = [killed EXCEPT ![running] = TRUE]
      BY <1>12, <2>2 DEF Stop
    <3>2. CASE q \in pending[running]
      BY <3>1, <3>2 DEF PlaceInv
    <3>3. CASE q \notin pending[running]
      <4>1. grace'[q] = grace[q] /\ req[q] \in Abandonment
        <5>1. grace' = Released(running) /\ req' = Told(running, "cancelled")
          BY <1>12, <2>2 DEF Stop
        <5>2. Released(running)[q] = grace[q] /\ Told(running, "cancelled")[q] = req[q]
          BY <3>3 DEF Released, Told
        <5> QED BY <5>1, <5>2
      <4> QED BY <1>0, <3>1, <4>1
    <3> QED BY <3>2, <3>3
  <2> QED BY <2>1, <2>2
<1> QED BY <1>2, <1>3, <1>4, <1>5, <1>6, <1>7, <1>8, <1>9, <1>10, <1>11, <1>12 DEF Next

(* ------------------------------- theorems ------------------------------- *)

LEMMA InvStep == Inv /\ [Next]_vars => Inv'
  BY TypeStep, ProcessStep, PlaceStep, HeldStep, ForgottenStep, WatchedStep DEF Inv

\* Whatever happens to processes, timers and callers, a process, its ready
\* promise, the start in progress and the requests in its map agree.
THEOREM InvHolds == Spec => []Inv
  BY InitInv, InvStep, PTL DEF Spec

\* The supervisor's variables keep their types: no map entry of an unknown
\* process, no outcome that a caller cannot be told.
THEOREM TypeCorrect == Spec => []TypeOK
<1>1. Inv => TypeOK
  BY DEF Inv
<1> QED BY <1>1, InvHolds, PTL

\* Nobody is lost track of: a waiting caller has a start in progress, a posted
\* request a live process that will settle it, an abandoned one a grace timer,
\* and this.running and the start in progress are never those of a dead process.
THEOREM EverythingTracked == Spec => []Tracked
<1>1. Inv => Tracked
  BY DEF Inv, Tracked, ProcessInv, RunningIsAlive, StartIsItsOwn, Alive
<1> QED BY <1>1, InvHolds, PTL

OutcomeKept == \A r \in Request : req[r] \in Settled => req'[r] = req[r]
NoneStarted ==
    status = "stopped" => \A w \in Worker : proc'[w] = "booting" => proc[w] = "booting"

LEMMA OutcomeStep == TypeOK /\ [Next]_vars => OutcomeKept
<1> SUFFICES ASSUME TypeOK, [Next]_vars, NEW q \in Request, req[q] \in Settled
             PROVE  req'[q] = req[q]
  BY DEF OutcomeKept
<1>0. req[q] \notin {"new", "asked", "sent"}
  BY Outcomes
<1> USE DEF TypeOK
<1>1. ASSUME NEW r \in Request, \/ RequestRefused(r) \/ RequestPosted(r) \/ RequestWaits(r)
                                \/ RequestLaunches(r) \/ AbortAsked(r) \/ GraceExpires(r)
      PROVE  req'[q] = req[q]
  BY <1>0, <1>1 DEF RequestRefused, RequestPosted, RequestWaits, RequestLaunches, AbortAsked,
     GraceExpires
<1>2. ASSUME NEW r \in Request, NEW why, Abandon(r, why) PROVE req'[q] = req[q]
  BY <1>0, <1>2 DEF Abandon
<1>3. ASSUME RejectAsked PROVE req'[q] = req[q]
  BY <1>0, <1>3 DEF RejectAsked, Asked
<1>4. ASSUME BackoffEnds PROVE req'[q] = req[q]
  BY <1>3, <1>4 DEF BackoffEnds
<1>5. ASSUME NEW w \in Worker, Ready(w) PROVE req'[q] = req[q]
  <2>1. q \notin Asked
    BY <1>0 DEF Asked
  <2> QED BY <1>5, <2>1 DEF Ready
<1>6. ASSUME NEW w \in Worker, ReadyMismatch(w) \/ ReadyTimeout(w) PROVE req'[q] = req[q]
  BY <1>3, <1>6 DEF ReadyMismatch, ReadyTimeout
<1>7. \A w \in Worker, why \in Settled : Told(w, why)[q] = req[q]
  BY <1>0 DEF Told
<1>8. ASSUME NEW w \in Worker, Exit(w) PROVE req'[q] = req[q]
  <2>1. req' = [r \in Request |-> IF ready[w] = "waiting" /\ r \in Asked
                                  THEN "unavailable" ELSE Told(w, "crashed")[r]]
    BY <1>8 DEF Exit
  <2> QED BY <1>0, <1>7, <2>1, Outcomes DEF Asked
<1>9. ASSUME NEW w \in Worker, NEW r \in Request, Answer(w, r) PROVE req'[q] = req[q]
  BY <1>0, <1>9 DEF Answer
<1>10. ASSUME CrashAgesOut \/ Reset \/ UNCHANGED vars PROVE req'[q] = req[q]
  BY <1>10 DEF CrashAgesOut, Reset, vars
<1>11. ASSUME Stop PROVE req'[q] = req[q]
  <2>1. CASE running = none
    BY <1>11, <2>1 DEF Stop
  <2>2. CASE running # none
    <3>1. running \in Worker /\ req' = Told(running, "cancelled")
      BY <1>11, <2>2 DEF Stop
    <3> QED BY <1>7, <3>1, Outcomes
  <2> QED BY <2>1, <2>2
<1> QED BY <1>1, <1>2, <1>4, <1>5, <1>6, <1>8, <1>9, <1>10, <1>11 DEF Next

LEMMA StartStep == TypeOK /\ [Next]_vars => NoneStarted
<1> SUFFICES ASSUME TypeOK, [Next]_vars, status = "stopped", NEW v \in Worker,
                    proc'[v] = "booting"
             PROVE  proc[v] = "booting"
  BY DEF NoneStarted
<1> USE DEF TypeOK
<1>1. CASE UNCHANGED proc
  BY <1>1
<1>2. ASSUME NEW w \in Worker, Ready(w) \/ ReadyMismatch(w) \/ Exit(w) PROVE proc[v] = "booting"
  BY <1>2 DEF Ready, ReadyMismatch, Exit
<1>3. ASSUME NEW r \in Request, \/ RequestRefused(r) \/ RequestPosted(r) \/ RequestWaits(r)
                                \/ RequestLaunches(r) \/ AbortAsked(r) \/ GraceExpires(r)
      PROVE  UNCHANGED proc
  BY <1>3 DEF RequestRefused, RequestPosted, RequestWaits, RequestLaunches, AbortAsked,
     GraceExpires
<1>4. ASSUME NEW r \in Request, NEW why, Abandon(r, why) PROVE UNCHANGED proc
  BY <1>4 DEF Abandon
<1>5. ASSUME NEW w \in Worker, ReadyTimeout(w) \/ \E r \in Request : Answer(w, r)
      PROVE  UNCHANGED proc
  BY <1>5 DEF ReadyTimeout, Answer
<1>6. ASSUME BackoffEnds \/ CrashAgesOut \/ Reset \/ Stop \/ UNCHANGED vars PROVE UNCHANGED proc
  BY <1>6 DEF BackoffEnds, CrashAgesOut, Reset, Stop, vars
<1> QED BY <1>1, <1>2, <1>3, <1>4, <1>5, <1>6 DEF Next

\* An outcome told to a caller is never replaced by a later one, and a stopped
\* supervisor starts no process: not after its back-off, not for a late caller.
THEOREM SettledStaysSo == Spec => SettledStays
<1>1. TypeOK /\ [Next]_vars => [OutcomeKept]_vars /\ [NoneStarted]_vars
  BY OutcomeStep, StartStep
<1>2. Spec => [][OutcomeKept]_vars /\ [][NoneStarted]_vars
  BY <1>1, TypeCorrect, PTL DEF Spec
<1> QED BY <1>2 DEF SettledStays, ToldOnce, NoStartWhenStopped, OutcomeKept, NoneStarted

(* --------------------------- manager: invariant -------------------------- *)

\* While open() and close() are called only when nothing else is at work: what is at work is at
\* work for the entry in the map, except that an entry may wait for the one before it to close.
CalmManager ==
    /\ \A e \in Entry : opening[e] \in {"new", "closing"} => ~closing[e]
    /\ \A e \in Entry : redo[e] # "none" =>
          /\ current = e /\ opening[e] \in {"done", "failed"}
          /\ redo[e] # "permissions" => ~Manager!Alive(session[e])
    /\ \A e \in Entry : opening[e] \in {"connecting", "permissions"} => current = e
    /\ \A e \in Entry : opening[e] = "connecting" => ~Manager!Alive(session[e])
    /\ \A e \in Entry : opening[e] = "closing" => current = none
    /\ \A e \in Entry : closing[e] => current # e
    /\ \A d \in Entry : closing[d] /\ ~ended[d] =>
          /\ current = none
          /\ \A e \in Entry : opening[e] = "closing" => over[e] = d
    /\ \A d, e \in Entry : opening[d] = "closing" /\ opening[e] = "closing" => d = e
    /\ current # none => opening[current] \notin {"new", "closing"}

ManagerInv == Manager!Accounted /\ (overlap \/ CalmManager)

(* ----------------------------- manager: types ---------------------------- *)

\* Every step of the manager keeps the types of its state ...
LEMMA ManagerTypeStep == Manager!ManagerAssumption /\ Manager!TypeOK /\ Manager!Next => Manager!TypeOK'
<1> SUFFICES ASSUME Manager!ManagerAssumption, Manager!TypeOK, Manager!Next PROVE Manager!TypeOK'
  OBVIOUS
<1>a. Attempts \in Nat \ {0} /\ none \notin Entry \cup Session
  BY DEF Manager!ManagerAssumption
<1>0. overlap' \in BOOLEAN
  BY DEF Manager!Next, Manager!TypeOK
<1>1. CASE Manager!Close
  BY <1>a, <1>0, <1>1 DEF Manager!TypeOK, Manager!Close, Manager!CloseEntry, Manager!Closed
<1>2. ASSUME NEW e \in Entry, Manager!OpenFirst(e) \/ Manager!OpenOver(e) PROVE Manager!TypeOK'
  <2>1. CASE Manager!OpenFirst(e)
    BY <1>a, <1>0, <2>1 DEF Manager!TypeOK, Manager!OpenFirst
  <2>2. CASE Manager!OpenOver(e)
    <3>1. current \in Entry
      BY <2>2 DEF Manager!TypeOK, Manager!OpenOver
    <3>2. live' \in [Session -> {"unborn", "alive", "dropped", "closed"}]
      BY <2>2, <3>1 DEF Manager!TypeOK, Manager!OpenOver, Manager!CloseEntry, Manager!Closed
    <3> QED
      BY <1>a, <1>0, <2>2, <3>1, <3>2 DEF Manager!TypeOK, Manager!OpenOver, Manager!CloseEntry
  <2> QED
    BY <1>2, <2>1, <2>2
<1>3. ASSUME NEW c \in Caller, Manager!AcquireRefused(c) \/ Manager!AcquireLive(c)
      PROVE  Manager!TypeOK'
  BY <1>a, <1>0, <1>3 DEF Manager!TypeOK, Manager!AcquireRefused, Manager!AcquireLive
<1>4. ASSUME NEW c \in Caller, Manager!AcquireReconnects(c) PROVE Manager!TypeOK'
  <2>1. current \in Entry
    BY <1>4 DEF Manager!TypeOK, Manager!AcquireReconnects
  <2> QED
    BY <1>a, <1>0, <1>4, <2>1 DEF Manager!TypeOK, Manager!AcquireReconnects
<1>5. ASSUME NEW e \in Entry, Manager!OpenAfterClose(e) PROVE Manager!TypeOK'
  BY <1>a, <1>0, <1>5 DEF Manager!TypeOK, Manager!OpenAfterClose
<1>6. ASSUME NEW e \in Entry, Manager!CloseEnds(e) \/ Manager!OpenStep(e) PROVE Manager!TypeOK'
  <2>1. CASE Manager!CloseEnds(e)
    BY <1>a, <1>0, <2>1 DEF Manager!TypeOK, Manager!CloseEnds
  <2>2. CASE Manager!OpenConnects(e)
    BY <1>a, <1>0, <2>2 DEF Manager!TypeOK, Manager!OpenConnects, Manager!Attach
  <2>3. CASE Manager!OpenFails(e)
    BY <1>a, <1>0, <2>3 DEF Manager!TypeOK, Manager!OpenFails
  <2>4. CASE Manager!OpenEnds(e)
    BY <1>a, <1>0, <2>4 DEF Manager!TypeOK, Manager!OpenEnds
  <2> QED
    BY <1>6, <2>1, <2>2, <2>3, <2>4 DEF Manager!OpenStep
<1>7. ASSUME NEW e \in Entry, Manager!RedoStep(e) PROVE Manager!TypeOK'
  <2>t. \A what \in {"served", "failed"} :
          Manager!Tell(e, what) \in [Caller -> Entry \cup {"idle", "refused", "served", "failed"}]
    BY DEF Manager!TypeOK, Manager!Tell
  <2>1. CASE Manager!RedoConnects(e)
    BY <1>a, <1>0, <2>1 DEF Manager!TypeOK, Manager!RedoConnects, Manager!Attach
  <2>2. CASE Manager!RedoEnds(e)
    BY <1>a, <1>0, <2>t, <2>2 DEF Manager!TypeOK, Manager!RedoEnds, Manager!RedoOver
  <2>3. CASE Manager!RedoFails(e)
    BY <1>a, <1>0, <2>t, <2>3 DEF Manager!TypeOK, Manager!RedoFails, Manager!RedoOver
  <2>4. CASE Manager!RedoWakes(e)
    <3>1. Manager!MoreTries(e) => tries[e] + 1 \in 0..Attempts
      BY <1>a DEF Manager!TypeOK, Manager!MoreTries
    <3>2. tries' \in [Entry -> 0..Attempts]
      BY <2>4, <3>1 DEF Manager!TypeOK, Manager!RedoWakes
    <3> QED
      BY <1>a, <1>0, <2>t, <2>4, <3>2 DEF Manager!TypeOK, Manager!RedoWakes, Manager!RedoOver
  <2> QED
    BY <1>7, <2>1, <2>2, <2>3, <2>4 DEF Manager!RedoStep
<1>8. ASSUME NEW e \in Entry, Manager!Check(e) \/ Manager!CheckEnds(e) PROVE Manager!TypeOK'
  <2>1. CASE Manager!Check(e)
    BY <1>a, <1>0, <2>1 DEF Manager!TypeOK, Manager!Check
  <2>2. CASE Manager!CheckEnds(e)
    BY <1>a, <1>0, <2>2 DEF Manager!TypeOK, Manager!CheckEnds
  <2> QED
    BY <1>8, <2>1, <2>2
<1>9. ASSUME NEW s \in Session, Manager!Drop(s) PROVE Manager!TypeOK'
  BY <1>a, <1>0, <1>9 DEF Manager!TypeOK, Manager!Drop
<1> QED
  BY <1>1, <1>2, <1>3, <1>4, <1>5, <1>6, <1>7, <1>8, <1>9 DEF Manager!Next, Manager!Call,
     Manager!Event

(* --------------------------- manager: who waits -------------------------- *)

\* ... and a caller that waits has a reconnect that will tell it.
LEMMA WaitersStep ==
    /\ Manager!ManagerAssumption /\ Manager!TypeOK /\ Manager!WaitersHaveReconnect /\ Manager!Next
    => Manager!WaitersHaveReconnect'
<1> SUFFICES ASSUME Manager!ManagerAssumption, Manager!TypeOK, Manager!WaitersHaveReconnect, Manager!Next
             PROVE  Manager!WaitersHaveReconnect'
  OBVIOUS
<1>a. none \notin Entry /\ Entry \cap {"idle", "refused", "served", "failed"} = {}
  BY DEF Manager!ManagerAssumption
<1>1. CASE UNCHANGED <<redo, caller>>
  BY <1>1 DEF Manager!WaitersHaveReconnect
<1>2. ASSUME NEW c \in Caller, Manager!AcquireRefused(c) \/ Manager!AcquireLive(c)
      PROVE  Manager!WaitersHaveReconnect'
  BY <1>a, <1>2 DEF Manager!WaitersHaveReconnect, Manager!AcquireRefused, Manager!AcquireLive,
     Manager!TypeOK
<1>3. ASSUME NEW c \in Caller, Manager!AcquireReconnects(c) PROVE Manager!WaitersHaveReconnect'
  <2>1. current \in Entry /\ caller' = [caller EXCEPT ![c] = current]
    BY <1>3 DEF Manager!TypeOK, Manager!AcquireReconnects
  <2>2. redo'[current] # "none" /\ \A e \in Entry : redo[e] # "none" => redo'[e] # "none"
    BY <1>3, <2>1 DEF Manager!TypeOK, Manager!AcquireReconnects
  <2> QED
    BY <2>1, <2>2 DEF Manager!WaitersHaveReconnect, Manager!TypeOK
<1>4. ASSUME NEW e \in Entry, Manager!RedoStep(e) PROVE Manager!WaitersHaveReconnect'
  <2>1. CASE \E what \in {"served", "failed"} : Manager!RedoOver(e, what)
    <3>1. PICK what \in {"served", "failed"} : Manager!RedoOver(e, what)
      BY <2>1
    <3>2. \A c \in Caller : caller'[c] \notin {e} /\ (caller'[c] \in Entry => caller'[c] = caller[c])
      BY <1>a, <3>1 DEF Manager!RedoOver, Manager!Tell
    <3>3. \A d \in Entry : d # e => redo'[d] = redo[d]
      BY <3>1 DEF Manager!RedoOver, Manager!TypeOK
    <3> QED
      BY <3>2, <3>3 DEF Manager!WaitersHaveReconnect
  <2>2. CASE UNCHANGED caller /\ redo' = [redo EXCEPT ![e] = redo'[e]] /\ redo'[e] # "none"
    BY <2>2 DEF Manager!WaitersHaveReconnect, Manager!TypeOK
  <2>3. CASE Manager!RedoConnects(e)
    BY <2>2, <2>3 DEF Manager!RedoConnects, Manager!TypeOK
  <2>4. CASE Manager!RedoEnds(e)
    BY <2>1, <2>4 DEF Manager!RedoEnds
  <2>5. CASE Manager!RedoFails(e)
    BY <2>1, <2>2, <2>5 DEF Manager!RedoFails, Manager!TypeOK
  <2>6. CASE Manager!RedoWakes(e)
    BY <2>1, <2>2, <2>6 DEF Manager!RedoWakes, Manager!TypeOK
  <2> QED
    BY <1>4, <2>3, <2>4, <2>5, <2>6 DEF Manager!RedoStep
<1>5. ASSUME NEW e \in Entry,
             \/ Manager!OpenFirst(e) \/ Manager!OpenOver(e) \/ Manager!OpenAfterClose(e)
             \/ Manager!CloseEnds(e) \/ Manager!OpenStep(e)
             \/ Manager!Check(e) \/ Manager!CheckEnds(e)
      PROVE  UNCHANGED <<redo, caller>>
  BY <1>5 DEF Manager!OpenFirst, Manager!OpenOver, Manager!OpenAfterClose, Manager!CloseEnds,
     Manager!OpenStep, Manager!OpenConnects, Manager!OpenFails, Manager!OpenEnds,
              Manager!Check, Manager!CheckEnds
<1>6. Manager!Close \/ (\E s \in Session : Manager!Drop(s)) => UNCHANGED <<redo, caller>>
  BY DEF Manager!Close, Manager!Drop
<1> QED
  BY <1>1, <1>2, <1>3, <1>4, <1>5, <1>6 DEF Manager!Next, Manager!Call, Manager!Event

(* ----------------------- manager: what is left open ---------------------- *)

\* The steps of the manager when calls do not overlap, the closing of the entry in the map first.
LEMMA CloseCalm ==
    ASSUME Manager!ManagerAssumption, Manager!TypeOK, Manager!NothingLeftOpen, CalmManager,
           ~overlap, Manager!Free, current # none,
           Manager!CloseEntry(current), current' = none, UNCHANGED <<redo, session>>,
           \/ UNCHANGED <<opening, over>>
           \/ \E e \in Entry : /\ opening[e] = "new" /\ opening' = [opening EXCEPT ![e] = "closing"]
                               /\ over' = [over EXCEPT ![e] = current]
    PROVE  CalmManager' /\ (\A s \in Session : ~Manager!Alive(s)') /\ (\A e \in Entry : ~timer'[e])
<1>a. none \notin Entry \cup Session
  BY DEF Manager!ManagerAssumption
<1>1. current \in Entry /\ \A e \in Entry : ~Manager!AtWork(e)
  BY DEF Manager!TypeOK, Manager!Free
<1>2. \A s \in Session : ~Manager!Alive(s)'
  BY <1>a, <1>1 DEF Manager!TypeOK, Manager!NothingLeftOpen, Manager!CloseEntry, Manager!Closed,
     Manager!Alive
<1>3. \A e \in Entry : ~timer'[e]
  BY <1>a, <1>1 DEF Manager!TypeOK, Manager!NothingLeftOpen, Manager!CloseEntry
<1>4. /\ \A e \in Entry : redo[e] = "none" /\ opening[e] \notin {"closing", "connecting", "permissions"}
      /\ \A e \in Entry : closing[e] => ended[e]
      /\ \A e \in Entry : closing'[e] <=> closing[e] \/ e = current
      /\ \A e \in Entry : e # current => ended'[e] = ended[e]
  <2>1. /\ \A e \in Entry : redo[e] = "none" /\ opening[e] \notin {"closing", "connecting", "permissions"}
        /\ \A e \in Entry : closing[e] => ended[e]
    BY <1>1 DEF Manager!AtWork
  <2>2. /\ closing' = [closing EXCEPT ![current] = TRUE]
        /\ ended' = [ended EXCEPT ![current] = session[current] = none]
    BY DEF Manager!CloseEntry
  <2>3. \A e \in Entry : closing'[e] <=> closing[e] \/ e = current
    BY <1>1, <2>2 DEF Manager!TypeOK
  <2>4. \A e \in Entry : e # current => ended'[e] = ended[e]
    BY <1>1, <2>2 DEF Manager!TypeOK
  <2> QED
    BY <2>1, <2>3, <2>4
<1>5. opening[current] # "new"
  BY <1>a, <1>1 DEF CalmManager
<1>6. \A e \in Entry : /\ opening'[e] \notin {"connecting", "permissions"}
                       /\ opening'[e] = "closing" => over'[e] = current /\ opening[e] = "new"
                       /\ opening'[e] = "new" => opening[e] = "new"
  BY <1>1, <1>4 DEF Manager!TypeOK
<1>7. \A d, e \in Entry : opening'[d] = "closing" /\ opening'[e] = "closing" => d = e
  BY <1>4 DEF Manager!TypeOK
<1>8. \A e \in Entry : opening'[e] \in {"new", "closing"} => ~closing'[e]
  BY <1>1, <1>4, <1>5, <1>6 DEF CalmManager
<1>9. \A d \in Entry : closing'[d] /\ ~ended'[d] => d = current
  BY <1>4
<1> QED
  BY <1>a, <1>1, <1>2, <1>3, <1>4, <1>6, <1>7, <1>8, <1>9 DEF CalmManager

\* While calls do not overlap, every step leaves open only what is in the map.
LEMMA CalmStep ==
    /\ Manager!ManagerAssumption /\ Manager!TypeOK /\ Manager!NothingLeftOpen /\ CalmManager
    /\ ~overlap /\ Manager!Next
    => Manager!NothingLeftOpen' /\ CalmManager'
<1> SUFFICES ASSUME Manager!ManagerAssumption, Manager!TypeOK, Manager!NothingLeftOpen,
                    CalmManager, ~overlap, Manager!Next
             PROVE  Manager!NothingLeftOpen' /\ CalmManager'
  OBVIOUS
<1>a. none \notin Entry \cup Session
  BY DEF Manager!ManagerAssumption
<1>0. ~overlap'
  BY DEF Manager!Next
<1>1. CASE Manager!Close
  BY <1>1, CloseCalm DEF Manager!Close, Manager!NothingLeftOpen
<1>2. ASSUME NEW e \in Entry, Manager!OpenOver(e) PROVE Manager!NothingLeftOpen' /\ CalmManager'
  BY <1>2, CloseCalm DEF Manager!OpenOver, Manager!NothingLeftOpen
<1>3. ASSUME NEW e \in Entry, Manager!OpenFirst(e) PROVE Manager!NothingLeftOpen' /\ CalmManager'
  <2>1. /\ current = none /\ \A d \in Entry : ~Manager!AtWork(d)
        /\ opening' = [opening EXCEPT ![e] = "closing"] /\ opening[e] = "new"
        /\ UNCHANGED <<current, over, redo, session, closing, ended, timer, live>>
    BY <1>0, <1>3 DEF Manager!OpenFirst, Manager!Free
  <2>2. Manager!NothingLeftOpen'
    BY <2>1 DEF Manager!NothingLeftOpen, Manager!Alive
  <2>3. \A d \in Entry : opening'[d] = IF d = e THEN "closing" ELSE opening[d]
    BY <2>1 DEF Manager!TypeOK
  <2>4. \A d \in Entry : redo[d] = "none" /\ opening[d] \notin {"closing", "connecting", "permissions"}
                         /\ (closing[d] => ended[d])
    BY <2>1 DEF Manager!AtWork
  <2> QED
    BY <1>a, <2>1, <2>2, <2>3, <2>4 DEF CalmManager, Manager!Alive
<1>4. ASSUME NEW e \in Entry, Manager!OpenAfterClose(e)
      PROVE  Manager!NothingLeftOpen' /\ CalmManager'
  <2>1. /\ opening[e] = "closing" /\ over[e] \notin {d \in Entry : ~ended[d]}
        /\ current' = e /\ current = none
        /\ opening' = [opening EXCEPT ![e] = "connecting"]
        /\ UNCHANGED <<over, redo, session, closing, ended, timer, live>>
    BY <1>4 DEF Manager!OpenAfterClose, CalmManager
  <2>2. /\ \A s \in Session : ~Manager!Alive(s)' /\ ~Manager!Alive(s)
        /\ \A d \in Entry : ~timer'[d]
    BY <1>a, <2>1 DEF Manager!NothingLeftOpen, Manager!Alive
  <2>3. \A d \in Entry : opening'[d] = IF d = e THEN "connecting" ELSE opening[d]
    BY <2>1 DEF Manager!TypeOK
  <2>4. \A d \in Entry : closing[d] => ended[d]
    BY <2>1 DEF CalmManager
  <2>5. \A d \in Entry : opening[d] \in {"connecting", "permissions"} \/ redo[d] # "none" => FALSE
    BY <1>a, <2>1 DEF CalmManager
  <2>6. ~closing[e] /\ \A d \in Entry : opening[d] = "closing" => d = e
    BY <2>1 DEF CalmManager
  <2>7. \A d \in Entry : ~Manager!Alive(session[d])'
    BY <2>1, <2>2 DEF Manager!TypeOK, Manager!Alive
  <2> QED
    BY <1>a, <2>1, <2>2, <2>3, <2>4, <2>5, <2>6, <2>7 DEF CalmManager, Manager!NothingLeftOpen
<1>5. ASSUME NEW e \in Entry, Manager!OpenConnects(e) \/ Manager!RedoConnects(e)
      PROVE  Manager!NothingLeftOpen' /\ CalmManager'
  <2>1. PICK s \in Session : Manager!Attach(e, s)
    BY <1>5 DEF Manager!OpenConnects, Manager!RedoConnects
  <2>2. /\ \/ /\ opening[e] = "connecting" /\ opening' = [opening EXCEPT ![e] = "permissions"]
              /\ UNCHANGED redo
           \/ /\ redo[e] = "connecting" /\ redo' = [redo EXCEPT ![e] = "permissions"]
              /\ UNCHANGED opening
        /\ UNCHANGED <<current, over, closing, ended, timer>>
    BY <1>5 DEF Manager!OpenConnects, Manager!RedoConnects
  <2>3. current = e /\ ~Manager!Alive(session[e])
    BY <2>2 DEF CalmManager
  <2>4. \A t \in Session : ~Manager!Alive(t)
    BY <2>3 DEF Manager!NothingLeftOpen
  <2>5. \A d \in Entry : session'[d] = IF d = e THEN s ELSE session[d]
    BY <2>1 DEF Manager!Attach, Manager!TypeOK
  <2>6. \A t \in Session : Manager!Alive(t)' => t = s
    BY <2>1, <2>4 DEF Manager!Attach, Manager!TypeOK, Manager!Alive
  <2>7. Manager!NothingLeftOpen'
    BY <1>a, <2>2, <2>3, <2>5, <2>6 DEF Manager!NothingLeftOpen
  <2>8. \A d \in Entry : /\ opening'[d] = opening[d] \/ (d = e /\ opening'[d] = "permissions")
                         /\ redo'[d] = redo[d] \/ (d = e /\ redo'[d] = "permissions")
    BY <2>2 DEF Manager!TypeOK
  <2>9. \A d \in Entry : redo[d] # "none" \/ opening[d] \in {"connecting", "permissions"} => d = e
    BY <2>3 DEF CalmManager
  <2>10. opening[e] \notin {"new", "closing"} /\ opening'[e] \notin {"new", "closing", "connecting"}
         /\ redo'[e] \in {"none", "permissions"} /\ (redo'[e] # "none" => opening'[e] \in {"done", "failed"})
    BY <2>2, <2>8 DEF CalmManager, Manager!TypeOK
  <2> QED
    BY <1>a, <2>2, <2>3, <2>7, <2>8, <2>9, <2>10 DEF CalmManager
<1>6. ASSUME NEW e \in Entry, Manager!OpenFails(e) \/ Manager!OpenEnds(e)
      PROVE  Manager!NothingLeftOpen' /\ CalmManager'
  <2>1. /\ opening[e] \in {"connecting", "permissions"}
        /\ \E to \in {"failed", "done"} : opening' = [opening EXCEPT ![e] = to]
        /\ UNCHANGED <<current, over, redo, session, closing, ended, live>>
        /\ \A d \in Entry : timer'[d] => timer[d] \/ d = e
    BY <1>6 DEF Manager!OpenFails, Manager!OpenEnds, Manager!TypeOK
  <2>2. current = e
    BY <2>1 DEF CalmManager
  <2>3. \A d \in Entry : opening'[d] = opening[d] \/ (d = e /\ opening'[d] \in {"failed", "done"})
    BY <2>1 DEF Manager!TypeOK
  <2>4. opening'[e] \in {"failed", "done"}
    BY <2>1 DEF Manager!TypeOK
  <2>5. Manager!NothingLeftOpen'
    BY <2>1, <2>2 DEF Manager!NothingLeftOpen, Manager!Alive
  <2> QED
    BY <1>a, <2>1, <2>2, <2>3, <2>4, <2>5 DEF CalmManager, Manager!Alive
<1>7. ASSUME NEW c \in Caller, Manager!AcquireReconnects(c)
      PROVE  Manager!NothingLeftOpen' /\ CalmManager'
  <2>1. /\ current \in Entry /\ ~Manager!Alive(session[current])
        /\ ~Manager!AtWork(current) \/ redo[current] # "none"
        /\ UNCHANGED <<current, opening, over, session, closing, ended, timer, live>>
        /\ \/ UNCHANGED redo
           \/ redo[current] = "none" /\ redo' = [redo EXCEPT ![current] = "connecting"]
    BY <1>7 DEF Manager!AcquireReconnects, Manager!TypeOK
  <2>2. opening[current] \in {"done", "failed"}
    <3>1. CASE redo[current] # "none"
      BY <2>1, <3>1 DEF CalmManager
    <3>2. CASE ~Manager!AtWork(current)
      BY <1>a, <2>1, <3>2 DEF Manager!AtWork, CalmManager, Manager!TypeOK
    <3> QED
      BY <2>1, <3>1, <3>2
  <2>3. \A d \in Entry : redo'[d] = redo[d] \/ d = current
    BY <2>1 DEF Manager!TypeOK
  <2>4. Manager!NothingLeftOpen'
    BY <2>1 DEF Manager!NothingLeftOpen, Manager!Alive
  <2> QED
    BY <1>a, <2>1, <2>2, <2>3, <2>4 DEF CalmManager, Manager!Alive
<1>8. ASSUME NEW e \in Entry, Manager!RedoEnds(e) \/ Manager!RedoFails(e) \/ Manager!RedoWakes(e)
      PROVE  Manager!NothingLeftOpen' /\ CalmManager'
  <2>1. /\ redo[e] # "none"
        /\ UNCHANGED <<current, opening, over, session, closing, ended, live>>
        /\ \A d \in Entry : timer'[d] => timer[d] \/ d = e
    BY <1>8 DEF Manager!RedoEnds, Manager!RedoFails, Manager!RedoWakes, Manager!TypeOK
  <2>2. /\ \A d \in Entry : redo'[d] = redo[d] \/ d = e
        /\ redo'[e] \in {"none", "connecting", "sleeping"}
        /\ redo'[e] # "none" => redo[e] # "permissions"
    BY <1>8 DEF Manager!RedoEnds, Manager!RedoFails, Manager!RedoWakes, Manager!RedoOver,
       Manager!TypeOK
  <2>3. current = e
    BY <2>1 DEF CalmManager
  <2>4. Manager!NothingLeftOpen'
    BY <2>1, <2>3 DEF Manager!NothingLeftOpen, Manager!Alive
  <2> QED
    BY <1>a, <2>1, <2>2, <2>3, <2>4 DEF CalmManager, Manager!Alive
<1>9. ASSUME NEW e \in Entry, Manager!CloseEnds(e) PROVE Manager!NothingLeftOpen' /\ CalmManager'
  <2>1. /\ ended' = [ended EXCEPT ![e] = TRUE]
        /\ UNCHANGED <<current, opening, over, redo, session, closing, timer, live>>
    BY <1>9 DEF Manager!CloseEnds
  <2>2. \A d \in Entry : ~ended'[d] => ~ended[d]
    BY <2>1 DEF Manager!TypeOK
  <2>3. Manager!NothingLeftOpen'
    BY <2>1 DEF Manager!NothingLeftOpen, Manager!Alive
  <2> QED
    BY <1>a, <2>1, <2>2, <2>3 DEF CalmManager, Manager!Alive
<1>10. ASSUME NEW s \in Session, Manager!Drop(s) PROVE Manager!NothingLeftOpen' /\ CalmManager'
  <2>1. UNCHANGED <<current, opening, over, redo, session, closing, ended, timer>>
    BY <1>10 DEF Manager!Drop
  <2>2. \A t \in Session : Manager!Alive(t)' => Manager!Alive(t)
    BY <1>10 DEF Manager!Drop, Manager!Alive, Manager!TypeOK
  <2>3. \A e \in Entry : Manager!Alive(session[e])' => Manager!Alive(session[e])
    BY <2>1, <2>2 DEF Manager!TypeOK, Manager!Alive
  <2>4. Manager!NothingLeftOpen'
    BY <2>1, <2>2 DEF Manager!NothingLeftOpen
  <2> QED
    BY <2>1, <2>3, <2>4 DEF CalmManager
<1>11. CASE UNCHANGED <<current, opening, over, redo, session, closing, ended, timer, live>>
  BY <1>11 DEF Manager!NothingLeftOpen, CalmManager, Manager!Alive
<1>12. ASSUME NEW c \in Caller, Manager!AcquireRefused(c) \/ Manager!AcquireLive(c)
       PROVE  UNCHANGED <<current, opening, over, redo, session, closing, ended, timer, live>>
  BY <1>12 DEF Manager!AcquireRefused, Manager!AcquireLive
<1>13. ASSUME NEW e \in Entry, Manager!Check(e) \/ Manager!CheckEnds(e)
       PROVE  UNCHANGED <<current, opening, over, redo, session, closing, ended, timer, live>>
  BY <1>13 DEF Manager!Check, Manager!CheckEnds
<1> QED
  BY <1>1, <1>2, <1>3, <1>4, <1>5, <1>6, <1>7, <1>8, <1>9, <1>10, <1>11, <1>12, <1>13
  DEF Manager!Next, Manager!Call, Manager!Event, Manager!OpenStep, Manager!RedoStep

(* ---------------------------- manager: theorem --------------------------- *)

\* manager.ts: every session that lives, every keep-alive that runs and every caller that waits
\* belongs to a connection that will close, clear or answer it, whatever drops, reconnects,
\* pings, replacements and closes happened before.
THEOREM ManagerAccounts == Manager!ManagerAssumption => (Manager!Spec => []Manager!Accounted)
<1> SUFFICES ASSUME Manager!ManagerAssumption PROVE Manager!Spec => []Manager!Accounted
  OBVIOUS
<1>1. Manager!Init => ManagerInv
  <2> SUFFICES ASSUME Manager!Init PROVE ManagerInv
    OBVIOUS
  <2>1. Manager!TypeOK
    BY DEF Manager!Init, Manager!TypeOK, Manager!ManagerAssumption
  <2>2. Manager!WaitersHaveReconnect
    BY DEF Manager!Init, Manager!WaitersHaveReconnect, Manager!ManagerAssumption
  <2>3. Manager!NothingLeftOpen /\ CalmManager
    BY DEF Manager!Init, Manager!NothingLeftOpen, CalmManager, Manager!Alive
  <2> QED
    BY <2>1, <2>2, <2>3 DEF ManagerInv, Manager!Accounted
<1>2. ManagerInv /\ [Manager!Next]_(Manager!vars) => ManagerInv'
  <2> SUFFICES ASSUME ManagerInv, [Manager!Next]_(Manager!vars) PROVE ManagerInv'
    OBVIOUS
  <2>1. CASE Manager!Next
    <3>1. overlap' = overlap
      BY <2>1 DEF Manager!Next
    <3>2. Manager!TypeOK' /\ Manager!WaitersHaveReconnect'
      BY <2>1, ManagerTypeStep, WaitersStep DEF ManagerInv, Manager!Accounted
    <3>3. overlap \/ (Manager!NothingLeftOpen' /\ CalmManager')
      BY <2>1, CalmStep DEF ManagerInv, Manager!Accounted
    <3> QED
      BY <3>1, <3>2, <3>3 DEF ManagerInv, Manager!Accounted, Manager!NothingLeftOpen
  <2>2. CASE UNCHANGED Manager!vars
    BY <2>2 DEF Manager!vars, Manager!work, ManagerInv, Manager!Accounted, Manager!TypeOK,
       Manager!NothingLeftOpen, Manager!WaitersHaveReconnect, CalmManager, Manager!Alive
  <2> QED
    BY <2>1, <2>2
<1>3. ManagerInv => Manager!Accounted
  BY DEF ManagerInv
<1> QED
  BY <1>1, <1>2, <1>3, PTL DEF Manager!Spec

(* ------------------------ manager: what was closed ----------------------- *)

\* A connection that was closed has left the map for good: only one that is being opened
\* comes into it.
ClosedIsGone ==
    /\ \A e \in Entry : closing[e] => current # e /\ opening[e] \notin {"new", "closing"}
    /\ current # none => opening[current] \notin {"new", "closing"}

\* A closed connection stays closed, and no step begins an attempt for it.
LEMMA ClosingStep ==
    Manager!ManagerAssumption /\ Manager!TypeOK /\ ClosedIsGone /\ Manager!Next
      => ClosedIsGone' /\ \A e \in Entry : closing[e] => tries'[e] = tries[e]
<1> SUFFICES ASSUME Manager!ManagerAssumption, Manager!TypeOK, ClosedIsGone, Manager!Next
             PROVE  ClosedIsGone' /\ \A e \in Entry : closing[e] => tries'[e] = tries[e]
  OBVIOUS
<1>a. none \notin Entry
  BY DEF Manager!ManagerAssumption
<1>1. CASE Manager!Close
  BY <1>a, <1>1 DEF Manager!Close, Manager!CloseEntry, ClosedIsGone, Manager!TypeOK
<1>2. ASSUME NEW e \in Entry, Manager!OpenFirst(e) \/ Manager!OpenOver(e)
      PROVE  ClosedIsGone' /\ UNCHANGED tries
  BY <1>a, <1>2 DEF Manager!OpenFirst, Manager!OpenOver, Manager!CloseEntry, ClosedIsGone,
     Manager!TypeOK
<1>3. ASSUME NEW e \in Entry, Manager!OpenAfterClose(e) PROVE ClosedIsGone' /\ UNCHANGED tries
  BY <1>a, <1>3 DEF Manager!OpenAfterClose, ClosedIsGone, Manager!TypeOK
<1>4. ASSUME NEW e \in Entry, Manager!OpenStep(e) PROVE ClosedIsGone' /\ UNCHANGED tries
  BY <1>a, <1>4 DEF Manager!OpenStep, Manager!OpenConnects, Manager!OpenFails, Manager!OpenEnds,
     ClosedIsGone, Manager!TypeOK
<1>5. ASSUME NEW c \in Caller, Manager!AcquireReconnects(c)
      PROVE  ClosedIsGone' /\ \A e \in Entry : closing[e] => tries'[e] = tries[e]
  BY <1>a, <1>5 DEF Manager!AcquireReconnects, ClosedIsGone, Manager!TypeOK
<1>6. ASSUME NEW e \in Entry, Manager!RedoStep(e)
      PROVE  ClosedIsGone' /\ \A d \in Entry : closing[d] => tries'[d] = tries[d]
  <2>1. UNCHANGED <<closing, current, opening>>
    BY <1>6 DEF Manager!RedoStep, Manager!RedoConnects, Manager!RedoEnds, Manager!RedoFails,
       Manager!RedoWakes
  <2>2. \A d \in Entry : closing[d] => tries'[d] = tries[d]
    BY <1>6 DEF Manager!RedoStep, Manager!RedoConnects, Manager!RedoEnds, Manager!RedoFails,
       Manager!RedoWakes, Manager!GivenUp, Manager!TypeOK
  <2> QED
    BY <2>1, <2>2 DEF ClosedIsGone
<1>7. CASE UNCHANGED <<closing, current, opening, tries>>
  BY <1>7 DEF ClosedIsGone
<1>8. ASSUME NEW c \in Caller, Manager!AcquireRefused(c) \/ Manager!AcquireLive(c)
      PROVE  UNCHANGED <<closing, current, opening, tries>>
  BY <1>8 DEF Manager!AcquireRefused, Manager!AcquireLive
<1>9. ASSUME NEW e \in Entry, Manager!CloseEnds(e) \/ Manager!Check(e) \/ Manager!CheckEnds(e)
      PROVE  UNCHANGED <<closing, current, opening, tries>>
  BY <1>9 DEF Manager!CloseEnds, Manager!Check, Manager!CheckEnds
<1>10. ASSUME NEW s \in Session, Manager!Drop(s)
      PROVE  UNCHANGED <<closing, current, opening, tries>>
  BY <1>10 DEF Manager!Drop
<1> QED
  BY <1>1, <1>2, <1>3, <1>4, <1>5, <1>6, <1>7, <1>8, <1>9, <1>10 DEF Manager!Next, Manager!Call,
     Manager!Event

\* manager.ts:238: a reconnect that slept while its connection was closed does not try again,
\* also when calls overlap.
THEOREM ManagerGivesUp == Manager!ManagerAssumption => (Manager!Spec => Manager!NoAttemptAfterClose)
<1> SUFFICES ASSUME Manager!ManagerAssumption PROVE Manager!Spec => Manager!NoAttemptAfterClose
  OBVIOUS
<1>1. Manager!Init => ClosedIsGone
  BY DEF Manager!Init, ClosedIsGone
<1>2. Manager!Accounted /\ ClosedIsGone /\ [Manager!Next]_(Manager!vars)
        => ClosedIsGone' /\ [\A e \in Entry : closing[e] => tries'[e] = tries[e]]_(Manager!vars)
  BY ClosingStep DEF Manager!Accounted, Manager!vars, Manager!work, ClosedIsGone
<1> QED
  BY <1>1, <1>2, ManagerAccounts, PTL DEF Manager!Spec, Manager!NoAttemptAfterClose

(* ------------------------------ both together ---------------------------- *)

\* A behaviour of the hosts is one of the supervisor, and one of the manager.
LEMMA HostsAreBoth == Hosts => Spec /\ Manager!Spec
<1>1. Begins => Init /\ Manager!Init
  BY DEF Begins
<1>2. [Steps]_<<part, vars, work, overlap>> => [Next]_vars /\ [Manager!Next]_(Manager!vars)
  BY DEF Steps, vars, work, Manager!vars, Manager!work
<1> QED
  BY <1>1, <1>2, PTL DEF Hosts, Spec, Manager!Spec

\* manager.ts: what is open is accounted for, whatever the supervisor of the host does: each living
\* session and each keep-alive is that of the connection in the map while calls do not overlap, and
\* a caller waits only for a reconnect in progress.
THEOREM HostsAccounted == Hosts => []ManagerAccounted
<1>1. Manager!Spec => []Manager!Accounted
  BY ManagerAccounts, HostsAssumption
<1> QED
  BY <1>1, HostsAreBoth, PTL DEF ManagerAccounted

\* Of a request, of the supervisor and of a closed connection: an outcome is told once, a stopped
\* supervisor starts no process, and a reconnect that wakes after close() makes no attempt.
THEOREM NothingComesAfter == Hosts => NothingAfterTheEnd
<1>1. Manager!Spec => Manager!NoAttemptAfterClose
  BY ManagerGivesUp, HostsAssumption
<1> QED
  BY <1>1, SettledStaysSo, HostsAreBoth DEF NothingAfterTheEnd
=============================================================================
