------------------------ MODULE BackgroundTasksProofs ------------------------
(* The safety properties of BackgroundTasks, proved for every set of tasks    *)
(* and every size of the pool and of the list of finished tasks.              *)
EXTENDS BackgroundTasks, FiniteSetTheorems, TLAPS

Submitted == {t \in Task : state[t] # "NEW"}

\* What a task's runner, flags and timers may be in each of its states.
TaskInv ==
    \A t \in Task :
        /\ state[t] \in {"NEW", "PENDING"} => runner[t] = "none"
        /\ paused[t] => state[t] = "PAUSED"
        /\ runner[t] = "parked" => paused[t] /\ state[t] = "PAUSED"
        /\ grace[t] => state[t] = "CANCELLING"
        /\ desk # "disposed" /\ state[t] = "CANCELLING" => grace[t]
        /\ desk # "disposed" /\ unseen[t] => timer[t]

\* The Map holds every task that is not final, none that is new, oldest first.
MapInv ==
    /\ \A t \in Task : state[t] \notin Final \cup {"NEW"} => t \in kept
    /\ \A t \in kept : state[t] # "NEW"
    /\ \A t \in Submitted : age[t] <= Cardinality(Submitted)
    /\ StartedInOrder

PlacesInv == RunningBound /\ WorkConserving

Inv == TypeOK /\ TaskInv /\ MapInv /\ PlacesInv

StatesAfter(st, next) == [u \in Task |-> IF u \in next THEN "RUNNING" ELSE st[u]]

(* ------------------------------ the pump -------------------------------- *)

BusyIn(st, k)    == {u \in k : st[u] \in Active}
WaitingIn(st, k) == {u \in k : st[u] = "PENDING"}

\* pump() fills the free places and no more, with the oldest waiting tasks.
LEMMA PumpFills ==
    ASSUME NEW st \in [Task -> State], NEW k \in SUBSET Task, NEW ag, NEW next,
           PumpStarts(st, k, ag, next), Cardinality(BusyIn(st, k)) <= MaxConcurrent
    PROVE  /\ next \subseteq WaitingIn(st, k)
           /\ Cardinality(BusyIn(StatesAfter(st, next), k)) <= MaxConcurrent
           /\ WaitingIn(StatesAfter(st, next), k) # {} =>
                  Cardinality(BusyIn(StatesAfter(st, next), k)) >= MaxConcurrent
           /\ \A t \in next, u \in WaitingIn(StatesAfter(st, next), k) : ag[t] < ag[u]
<1> DEFINE st2     == StatesAfter(st, next)
           before  == BusyIn(st, k)
           pending == WaitingIn(st, k)
           busy    == BusyIn(st2, k)
           waiting == WaitingIn(st2, k)
           room    == MaxConcurrent - Cardinality(before)
<1>1. Oldest(pending, room, ag, next)
  BY DEF PumpStarts, Room, BusyIn, WaitingIn
<1>2. next \subseteq pending /\ next \subseteq Task
  BY <1>1 DEF Oldest, WaitingIn
<1>3. /\ busy = before \cup next
      /\ waiting = pending \ next
      /\ before \cap next = {}
  BY <1>2 DEF StatesAfter, Active, BusyIn, WaitingIn
<1>4. IsFiniteSet(before) /\ IsFiniteSet(next) /\ IsFiniteSet(pending)
  <2>1. before \in SUBSET Task /\ next \in SUBSET Task /\ pending \in SUBSET Task
    BY <1>2 DEF BusyIn, WaitingIn
  <2> QED BY <2>1, FS_Subset, PoolAssumption
<1>5. /\ Cardinality(before) \in Nat /\ Cardinality(next) \in Nat
      /\ Cardinality(pending) \in Nat /\ MaxConcurrent \in Nat
  BY <1>4, FS_CardinalityType, PoolAssumption
<1>6. Cardinality(busy) = Cardinality(before) + Cardinality(next)
  <2>1. Cardinality(before \cap next) = 0
    BY <1>3, FS_EmptySet
  <2>2. Cardinality(before \cup next) =
           Cardinality(before) + Cardinality(next) - Cardinality(before \cap next)
    <3> QED BY <1>4, FS_Union
  <2> QED BY <1>3, <1>5, <2>1, <2>2
<1>7. Cardinality(busy) <= MaxConcurrent
  <2>1. CASE room <= 0
    <3>1. next = {} BY <1>1, <2>1 DEF Oldest
    <3> QED BY <3>1, <1>3
  <2>2. CASE ~(room <= 0) /\ Cardinality(pending) <= room
    <3>1. next = pending BY <1>1, <2>2 DEF Oldest
    <3> QED BY <3>1, <2>2, <1>5, <1>6
  <2>3. CASE ~(room <= 0) /\ ~(Cardinality(pending) <= room)
    <3>1. Cardinality(next) = room BY <1>1, <2>3 DEF Oldest
    <3> QED BY <3>1, <1>5, <1>6
  <2> QED BY <2>1, <2>2, <2>3
<1>8. waiting # {} => Cardinality(busy) >= MaxConcurrent
  <2> SUFFICES ASSUME waiting # {} PROVE Cardinality(busy) >= MaxConcurrent
    OBVIOUS
  <2>1. CASE room <= 0
    BY <2>1, <1>5, <1>6
  <2>2. CASE ~(room <= 0) /\ Cardinality(pending) <= room
    <3>1. next = pending BY <1>1, <2>2 DEF Oldest
    <3> QED BY <3>1, <1>3
  <2>3. CASE ~(room <= 0) /\ ~(Cardinality(pending) <= room)
    <3>1. Cardinality(next) = room BY <1>1, <2>3 DEF Oldest
    <3> QED BY <3>1, <1>5, <1>6
  <2> QED BY <2>1, <2>2, <2>3
<1>9. \A t \in next, u \in waiting : ag[t] < ag[u]
  BY <1>1, <1>3 DEF Oldest
<1> QED BY <1>2, <1>7, <1>8, <1>9
(* ---------------------------- inductiveness ----------------------------- *)

LEMMA InitInv == Init => Inv
<1> SUFFICES ASSUME Init PROVE Inv
  OBVIOUS
<1>1. TypeOK
  BY DEF Init, TypeOK, State, RunnerState
<1>2. TaskInv
  BY DEF Init, TaskInv
<1>3. MapInv
  BY DEF Init, MapInv, StartedInOrder, Submitted
<1>4. PlacesInv
  <2>1. Running = {} /\ Pending = {}
    BY DEF Init, Running, Pending
  <2> QED BY <2>1, FS_EmptySet, PoolAssumption DEF PlacesInv, RunningBound, WorkConserving
<1> QED BY <1>1, <1>2, <1>3, <1>4 DEF Inv

\* A step that moves tasks between the active states only, and keeps the list.
LEMMA QuietStep ==
    ASSUME Inv, TypeOK',
           kept' = kept, age' = age,
           \A t \in Task : state[t] = state'[t] \/ {state[t], state'[t]} \subseteq Active
    PROVE  MapInv' /\ PlacesInv'
<1>1. \A t \in Task : /\ state'[t] \in Active <=> state[t] \in Active
                      /\ state'[t] = "PENDING" <=> state[t] = "PENDING"
                      /\ state'[t] = "NEW" <=> state[t] = "NEW"
                      /\ state'[t] \in Final <=> state[t] \in Final
  BY DEF Active, Final
<1>2. kept \subseteq Task
  BY DEF Inv, TypeOK
<1>3. Running' = Running /\ Pending' = Pending /\ Submitted' = Submitted
  BY <1>1, <1>2 DEF Running, Pending, Submitted
<1>4. MapInv'
  BY <1>1, <1>2, <1>3 DEF Inv, MapInv, StartedInOrder, Submitted
<1>5. PlacesInv'
  BY <1>3 DEF Inv, PlacesInv, RunningBound, WorkConserving
<1> QED BY <1>4, <1>5

\* finish() of a task that is not final yet, whoever calls it.
LEMMA FinishInv ==
    ASSUME Inv, NEW t \in Task, state[t] \notin Final \cup {"NEW"},
           NEW final \in Final, NEW r \in {"none", "busy", "over"},
           Finish(t, final, r), UNCHANGED desk
    PROVE  TypeOK' => Inv'
<1> SUFFICES ASSUME TypeOK' PROVE Inv'
  OBVIOUS
<1> DEFINE after    == [state EXCEPT ![t] = final]
           finished == Finishable(after)
<1>1. PICK old \in SUBSET kept, next \in SUBSET kept :
          /\ Oldest(finished, Cardinality(finished) - KeepFinished, age, old)
          /\ PumpStarts(after, kept \ old, age, next)
          /\ state'  = StatesAfter(after, next)
          /\ runner' = [u \in Task |-> IF u \in next THEN "busy"
                                       ELSE IF u = t THEN r ELSE runner[u]]
          /\ kept'   = kept \ old
          /\ paused' = [paused EXCEPT ![t] = FALSE]
          /\ grace'  = Disarmed(t)
          /\ EmitNow(next \cup {t})
          /\ UNCHANGED <<age, aborted>>
  BY DEF Finish, StatesAfter
<1>2. t \in kept /\ kept \subseteq Task /\ after \in [Task -> State]
  BY DEF Inv, MapInv, TypeOK, State, Final
<1>3. old \subseteq {u \in kept : after[u] \in Final}
  BY <1>1 DEF Oldest, Finishable
<1> DEFINE left == kept \ old
<1>4. /\ BusyIn(after, left) = Running \ {t}
      /\ IsFiniteSet(Running)
      /\ Cardinality(BusyIn(after, left)) <= MaxConcurrent
  <2>1. BusyIn(after, left) = Running \ {t}
    BY <1>2, <1>3 DEF Running, Active, Final, Inv, TypeOK, BusyIn
  <2>2. IsFiniteSet(Running) /\ Cardinality(Running \ {t}) <= Cardinality(Running)
    <3>1. IsFiniteSet(Running)
      BY <1>2, PoolAssumption, FS_Subset, Running \in SUBSET Task DEF Running
    <3>2. Running \ {t} \in SUBSET Running
      OBVIOUS
    <3> QED BY <3>1, <3>2, FS_Subset
  <2>3. Cardinality(Running) \in Nat /\ Cardinality(Running \ {t}) \in Nat
    BY <2>2, FS_CardinalityType, FS_RemoveElement
  <2>4. Cardinality(Running) <= MaxConcurrent /\ MaxConcurrent \in Nat
    BY PoolAssumption DEF Inv, PlacesInv, RunningBound
  <2>5. Cardinality(Running \ {t}) <= MaxConcurrent
    BY <2>2, <2>3, <2>4
  <2> HIDE DEF after, left
  <2> QED BY <2>1, <2>2, <2>5
<1>5. /\ next \subseteq WaitingIn(after, left)
      /\ Cardinality(Running') <= MaxConcurrent
      /\ Pending' # {} => Cardinality(Running') >= MaxConcurrent
      /\ \A s \in next, u \in Pending' : age[s] < age[u]
  <2>1. left \in SUBSET Task
    BY <1>2
  <2>2. PumpStarts(after, left, age, next)
    BY <1>1
  <2>3. /\ Running' = BusyIn(StatesAfter(after, next), left)
        /\ Pending' = WaitingIn(StatesAfter(after, next), left)
    BY <1>1 DEF Running, Pending, BusyIn, WaitingIn
  <2> HIDE DEF after, left
  <2> QED BY <1>2, <1>4, <2>1, <2>2, <2>3, PumpFills
<1>6. PlacesInv'
  BY <1>5 DEF PlacesInv, RunningBound, WorkConserving
<1>7. t \notin next /\ state'[t] = final
  BY <1>1, <1>2, <1>5 DEF Final, StatesAfter, Inv, TypeOK, WaitingIn
<1>8. \A u \in Task \ {t} :
          state'[u] = IF u \in next THEN "RUNNING" ELSE state[u]
  BY <1>1, <1>2 DEF StatesAfter, Inv, TypeOK
<1>9. \A u \in next : state[u] = "PENDING" /\ u \in kept'
  BY <1>1, <1>2, <1>5, <1>7 DEF Inv, TypeOK, WaitingIn
<1>10. MapInv'
  <2>1. \A u \in Task : state'[u] \notin Final \cup {"NEW"} => u \in kept'
    BY <1>1, <1>2, <1>3, <1>7, <1>8, <1>9 DEF Inv, MapInv, Final, TypeOK
  <2>2. \A u \in kept' : state'[u] # "NEW"
    BY <1>1, <1>2, <1>7, <1>8 DEF Inv, MapInv, Final
  <2>3. Submitted' = Submitted
    BY <1>7, <1>8, <1>9 DEF Submitted, Final
  <2>4. \A u \in Submitted' : age'[u] <= Cardinality(Submitted')
    BY <1>1, <2>3 DEF Inv, MapInv
  <2>5. StartedInOrder'
    <3> SUFFICES ASSUME NEW s \in kept', NEW u \in kept',
                        state'[s] \in Active, state'[u] = "PENDING"
                 PROVE  age[s] < age[u]
      BY <1>1 DEF StartedInOrder, Active
    <3>1. u \in Pending' /\ u \in kept /\ state[u] = "PENDING"
      BY <1>1, <1>2, <1>7, <1>8 DEF Pending, Final
    <3>2. CASE s \in next
      BY <3>1, <3>2, <1>5
    <3>3. CASE s \notin next
      <4>1. s \in kept /\ state[s] \in Active
        BY <3>3, <1>1, <1>2, <1>7, <1>8 DEF Final, Active
      <4> QED BY <3>1, <4>1 DEF Inv, MapInv, StartedInOrder
    <3> QED BY <3>2, <3>3
  <2> QED BY <2>1, <2>2, <2>4, <2>5 DEF MapInv
<1>11. TaskInv'
  <2> SUFFICES ASSUME NEW u \in Task
               PROVE  /\ state'[u] \in {"NEW", "PENDING"} => runner'[u] = "none"
                      /\ paused'[u] => state'[u] = "PAUSED"
                      /\ runner'[u] = "parked" => paused'[u] /\ state'[u] = "PAUSED"
                      /\ grace'[u] => state'[u] = "CANCELLING"
                      /\ desk # "disposed" /\ state'[u] = "CANCELLING" => grace'[u]
                      /\ desk # "disposed" /\ unseen'[u] => timer'[u]
    BY DEF TaskInv
  <2>1. CASE u = t
    BY <2>1, <1>1, <1>7 DEF Final, Inv, TypeOK, EmitNow, Disarmed
  <2>2. CASE u \in next
    <3>1. u # t /\ state[u] = "PENDING" /\ state'[u] = "RUNNING"
      BY <2>2, <1>7, <1>8, <1>9
    <3>2. ~paused[u] /\ ~grace[u]
      BY <3>1 DEF Inv, TaskInv
    <3>3. runner'[u] = "busy" /\ ~paused'[u]
      BY <3>1, <3>2, <2>2, <1>1 DEF Inv, TypeOK
    <3>4. ~grace'[u]
      BY <3>1, <3>2, <1>1 DEF Inv, TypeOK, Disarmed
    <3>5. ~unseen'[u]
      BY <2>2, <1>1 DEF EmitNow
    <3> QED BY <3>1, <3>3, <3>4, <3>5
  <2>3. CASE u # t /\ u \notin next
    <3>1. state'[u] = state[u] /\ runner'[u] = runner[u]
      BY <2>3, <1>1, <1>8
    <3>2. paused'[u] = paused[u] /\ grace'[u] = grace[u]
      BY <2>3, <1>1 DEF Inv, TypeOK, Disarmed
    <3>3. unseen'[u] = unseen[u] /\ timer'[u] = timer[u]
      BY <2>3, <1>1 DEF Inv, TypeOK, EmitNow
    <3> QED BY <3>1, <3>2, <3>3 DEF Inv, TaskInv
  <2> QED BY <2>1, <2>2, <2>3
<1> QED BY <1>6, <1>10, <1>11 DEF Inv

LEMMA SubmitInv ==
    ASSUME Inv, NEW t \in Task, Submit(t), TypeOK'
    PROVE  Inv'
<1> DEFINE added == kept \cup {t}
           place == [age EXCEPT ![t] = 1 + Cardinality(Submitted)]
           after == [state EXCEPT ![t] = "PENDING"]
<1>1. PICK next \in SUBSET added :
          /\ PumpStarts(after, added, place, next)
          /\ state'  = StatesAfter(after, next)
          /\ runner' = [u \in Task |-> IF u \in next THEN "busy" ELSE runner[u]]
          /\ kept'   = added
          /\ age'    = place
          /\ EmitNow(next \cup {t})
  BY DEF Submit, StatesAfter, Submitted
<1>2. /\ state[t] = "NEW" /\ kept \subseteq Task /\ t \notin kept
      /\ UNCHANGED <<aborted, paused, grace, desk>>
      /\ after \in [Task -> State] /\ runner[t] = "none"
  BY DEF Submit, Inv, TypeOK, State, MapInv, TaskInv
<1>3. BusyIn(after, added) = Running /\ Cardinality(Running) <= MaxConcurrent
  BY <1>2 DEF Inv, TypeOK, PlacesInv, RunningBound, Running, BusyIn, Active
<1>4. /\ next \subseteq WaitingIn(after, added)
      /\ Cardinality(Running') <= MaxConcurrent
      /\ Pending' # {} => Cardinality(Running') >= MaxConcurrent
      /\ \A s \in next, u \in Pending' : place[s] < place[u]
  <2>1. added \in SUBSET Task
    BY <1>2
  <2>2. PumpStarts(after, added, place, next)
    BY <1>1
  <2>3. /\ Running' = BusyIn(StatesAfter(after, next), added)
        /\ Pending' = WaitingIn(StatesAfter(after, next), added)
    BY <1>1 DEF Running, Pending, BusyIn, WaitingIn
  <2> HIDE DEF after, added, place
  <2> QED BY <1>2, <1>3, <2>1, <2>2, <2>3, PumpFills
<1>5. PlacesInv'
  BY <1>4 DEF PlacesInv, RunningBound, WorkConserving
<1>6. \A u \in Task : state'[u] = IF u \in next THEN "RUNNING"
                                 ELSE IF u = t THEN "PENDING" ELSE state[u]
  BY <1>1, <1>2 DEF StatesAfter, Inv, TypeOK
<1>7. \A u \in next : u \in kept' /\ (u = t \/ state[u] = "PENDING")
  BY <1>1, <1>2, <1>4 DEF Inv, TypeOK, WaitingIn
<1>8. \A u \in Task : age'[u] = IF u = t THEN 1 + Cardinality(Submitted) ELSE age[u]
  BY <1>1 DEF Inv, TypeOK
<1>9. /\ Submitted' = Submitted \cup {t} /\ t \notin Submitted
      /\ Cardinality(Submitted) \in Nat
      /\ Cardinality(Submitted') = Cardinality(Submitted) + 1
  <2>1. Submitted' = Submitted \cup {t} /\ t \notin Submitted
    BY <1>2, <1>6, <1>7 DEF Submitted
  <2>2. IsFiniteSet(Submitted)
    BY PoolAssumption, FS_Subset, Submitted \in SUBSET Task DEF Submitted
  <2> QED BY <2>1, <2>2, FS_AddElement, FS_CardinalityType
<1>10. MapInv'
  <2>1. \A u \in Task : state'[u] \notin Final \cup {"NEW"} => u \in kept'
    BY <1>1, <1>6, <1>7 DEF Inv, MapInv
  <2>2. \A u \in kept' : state'[u] # "NEW"
    BY <1>1, <1>2, <1>6 DEF Inv, MapInv
  <2>3. \A u \in Submitted' : age'[u] <= Cardinality(Submitted')
    BY <1>8, <1>9 DEF Inv, MapInv, TypeOK, Submitted
  <2>4. StartedInOrder'
    <3> SUFFICES ASSUME NEW s \in kept', NEW u \in kept',
                        state'[s] \in Active, state'[u] = "PENDING"
                 PROVE  age'[s] < age'[u]
      BY DEF StartedInOrder, Active
    <3>1. u \in Pending' /\ u \notin next /\ s \in Task /\ u \in Task
      BY <1>1, <1>2, <1>6 DEF Pending
    <3>2. CASE s \in next
      BY <3>1, <3>2, <1>4, <1>1
    <3>3. CASE s \notin next
      <4>1. s \in kept /\ s # t /\ state[s] \in Active /\ s \in Submitted
        BY <3>1, <3>3, <1>1, <1>6 DEF Active, Submitted
      <4>2. CASE u = t
        <5>1. age[s] <= Cardinality(Submitted) /\ age[s] \in Nat
          BY <4>1, <3>1 DEF Inv, MapInv, TypeOK
        <5> QED BY <4>1, <4>2, <5>1, <3>1, <1>8, <1>9
      <4>3. CASE u # t
        <5>1. u \in kept /\ state[u] = "PENDING"
          BY <3>1, <4>3, <1>1, <1>6
        <5> QED BY <4>1, <4>3, <5>1, <3>1, <1>8 DEF Inv, MapInv, StartedInOrder
      <4> QED BY <4>2, <4>3
    <3> QED BY <3>2, <3>3
  <2> QED BY <2>1, <2>2, <2>3, <2>4 DEF MapInv
<1>11. TaskInv'
  <2> SUFFICES ASSUME NEW u \in Task
               PROVE  /\ state'[u] \in {"NEW", "PENDING"} => runner'[u] = "none"
                      /\ paused'[u] => state'[u] = "PAUSED"
                      /\ runner'[u] = "parked" => paused'[u] /\ state'[u] = "PAUSED"
                      /\ grace'[u] => state'[u] = "CANCELLING"
                      /\ desk # "disposed" /\ state'[u] = "CANCELLING" => grace'[u]
                      /\ desk # "disposed" /\ unseen'[u] => timer'[u]
    BY <1>2 DEF TaskInv
  <2>1. CASE u \in next \cup {t}
    BY <2>1, <1>1, <1>2, <1>6, <1>7 DEF Inv, TypeOK, TaskInv, EmitNow
  <2>2. CASE u \notin next \cup {t}
    BY <2>2, <1>1, <1>2, <1>6 DEF Inv, TypeOK, TaskInv, EmitNow
  <2> QED BY <2>1, <2>2
<1> QED BY <1>5, <1>10, <1>11 DEF Inv

LEMMA TypeStep == TypeOK /\ [Next]_vars => TypeOK'
<1> SUFFICES ASSUME TypeOK, [Next]_vars PROVE TypeOK'
  OBVIOUS
<1> USE DEF TypeOK, State, Active, Final, RunnerState, Woken
<1>1. ASSUME NEW t \in Task, NEW final \in Final, NEW r \in RunnerState,
             Finish(t, final, r), UNCHANGED <<desk, awaited>>
      PROVE  TypeOK'
  BY <1>1 DEF Finish, EmitNow, Disarmed
<1>2. ASSUME NEW t \in Task, CancelEntry(t), UNCHANGED <<desk, awaited>>
      PROVE  TypeOK'
  <2>1. CASE CancelPending(t)
    BY <1>1, <1>2, <2>1 DEF CancelPending
  <2>2. CASE CancelRunning(t)
    BY <1>2, <2>2 DEF CancelRunning, EmitNow
  <2> QED BY <1>2, <2>1, <2>2 DEF CancelEntry
<1>3. ASSUME NEW t \in Task, Submit(t) PROVE TypeOK'
  <2>1. 1 + Cardinality(Submitted) \in Nat
    <3>1. Submitted \in SUBSET Task
      BY DEF Submitted
    <3>2. Cardinality(Submitted) \in Nat
      BY <3>1, PoolAssumption, FS_Subset, FS_CardinalityType
    <3> QED BY <3>2
  <2>2. /\ age' \in [Task -> Nat]
        /\ kept' \subseteq Task
        /\ UNCHANGED <<aborted, paused, grace, desk, awaited>>
    <3>1. age' = [age EXCEPT ![t] = 1 + Cardinality(Submitted)]
      BY <1>3 DEF Submit, Submitted
    <3> QED BY <1>3, <2>1, <3>1 DEF Submit
  <2>3. state' \in [Task -> State] /\ runner' \in [Task -> RunnerState]
    BY <1>3 DEF Submit
  <2>4. /\ unseen' \in [Task -> BOOLEAN]
        /\ recent' \in [Task -> BOOLEAN]
        /\ timer' \in [Task -> BOOLEAN]
    BY <1>3 DEF Submit, EmitNow
  <2> QED BY <2>2, <2>3, <2>4
<1>4. ASSUME NEW t \in Task, Cancel(t) PROVE TypeOK'
  BY <1>2, <1>4 DEF Cancel
<1>5. ASSUME NEW t \in Task, Pause(t) \/ Resume(t) \/ Remove(t) PROVE TypeOK'
  BY <1>5 DEF Pause, Resume, Remove, EmitNow
<1>6. ASSUME NEW t \in Task, RunnerStep(t) PROVE TypeOK'
  <2>1. ASSUME NEW how \in Outcome, RunnerEnds(t, how) PROVE TypeOK'
    <3>1. OutcomeState(t, how) \in Final
      BY DEF OutcomeState
    <3> QED BY <1>1, <2>1, <3>1 DEF RunnerEnds
  <2>2. CASE Report(t) \/ Issue(t)
    <3>1. /\ EmitSoon(t)
          /\ UNCHANGED <<state, kept, age, runner, aborted, paused, grace, desk, awaited>>
      BY <2>2 DEF Report, Issue
    <3>2. /\ unseen' \in [Task -> BOOLEAN] /\ recent' \in [Task -> BOOLEAN]
          /\ timer' \in [Task -> BOOLEAN]
      <4>1. CASE recent[t]
        BY <3>1, <4>1 DEF EmitSoon
      <4>2. CASE ~recent[t]
        BY <3>1, <4>2 DEF EmitSoon, EmitNow
      <4> QED BY <4>1, <4>2
    <3> QED BY <3>1, <3>2
  <2>3. CASE Park(t)
    BY <2>3 DEF Park
  <2> QED BY <1>6, <2>1, <2>2, <2>3 DEF RunnerStep
<1>7. ASSUME NEW t \in Task, TimerStep(t) PROVE TypeOK'
  <2>1. CASE GraceExpires(t)
    BY <1>1, <2>1 DEF GraceExpires
  <2>2. CASE IntervalPasses(t)
    BY <2>2 DEF IntervalPasses
  <2>3. CASE ProgressTimer(t)
    BY <2>3 DEF ProgressTimer, EmitNow
  <2> QED BY <1>7, <2>1, <2>2, <2>3 DEF TimerStep
<1>8. CASE DisposeCancels
  BY <1>2, <1>8 DEF DisposeCancels, Stoppable
<1>9. CASE DisposeStart \/ DisposeWaits \/ DisposeEnds
  BY <1>9 DEF DisposeStart, DisposeWaits, DisposeEnds
<1>10. CASE UNCHANGED vars
  BY <1>10 DEF vars
<1> QED BY <1>3, <1>4, <1>5, <1>6, <1>7, <1>8, <1>9, <1>10 DEF Next

LEMMA CancelInv ==
    ASSUME Inv, NEW t \in Task, CancelEntry(t), UNCHANGED desk, TypeOK'
    PROVE  Inv'
<1>1. CASE CancelPending(t)
  <2>1. state[t] = "PENDING" /\ runner[t] = "none"
    BY <1>1 DEF CancelPending, Pending, Inv, TaskInv
  <2> QED BY <1>1, <2>1, FinishInv DEF CancelPending, Final
<1>2. CASE CancelRunning(t)
  <2>1. state[t] \in {"RUNNING", "PAUSED"}
    BY <1>2 DEF CancelRunning, MayStop, Inv, TypeOK, State, Active, Final
  <2>2. MapInv' /\ PlacesInv'
    <3>1. \A u \in Task : state[u] = state'[u] \/ {state[u], state'[u]} \subseteq Active
      BY <1>2, <2>1 DEF CancelRunning, Inv, TypeOK, Active
    <3> QED BY <1>2, <3>1, QuietStep DEF CancelRunning
  <2>3. TaskInv'
    BY <1>2, <2>1 DEF CancelRunning, Inv, TypeOK, TaskInv, EmitNow, Woken
  <2> QED BY <2>2, <2>3 DEF Inv
<1> QED BY <1>1, <1>2 DEF CancelEntry

LEMMA StepInv == Inv /\ [Next]_vars => Inv'
<1> SUFFICES ASSUME Inv, [Next]_vars PROVE Inv'
  OBVIOUS
<1>0. TypeOK'
  BY TypeStep DEF Inv
<1>1. ASSUME NEW t \in Task, Submit(t) PROVE Inv'
  BY <1>0, <1>1, SubmitInv
<1>2. ASSUME NEW t \in Task, Cancel(t) PROVE Inv'
  BY <1>0, <1>2, CancelInv DEF Cancel
<1>3. ASSUME NEW t \in Task, Pause(t) \/ Resume(t) PROVE Inv'
  <2>1. MapInv' /\ PlacesInv'
    <3>1. \A u \in Task : state[u] = state'[u] \/ {state[u], state'[u]} \subseteq Active
      BY <1>3 DEF Pause, Resume, Inv, TypeOK, Active
    <3> QED BY <1>0, <1>3, <3>1, QuietStep DEF Pause, Resume
  <2>2. TaskInv'
    BY <1>3 DEF Pause, Resume, Inv, TypeOK, TaskInv, EmitNow, Woken
  <2> QED BY <1>0, <2>1, <2>2 DEF Inv
<1>4. ASSUME NEW t \in Task, Remove(t) PROVE Inv'
  <2>1. state[t] \in Final /\ kept' = kept \ {t} /\ UNCHANGED <<state, age, runner, paused, grace, unseen, timer, desk>>
    BY <1>4 DEF Remove, Finished
  <2>2. Running' = Running /\ Pending' = Pending /\ Submitted' = Submitted
    BY <2>1 DEF Running, Pending, Submitted, Active, Final
  <2>3. MapInv'
    BY <2>1, <2>2 DEF Inv, MapInv, StartedInOrder, Submitted
  <2>4. TaskInv' /\ PlacesInv'
    BY <2>1, <2>2 DEF Inv, TaskInv, PlacesInv, RunningBound, WorkConserving
  <2> QED BY <1>0, <2>3, <2>4 DEF Inv
<1>5. ASSUME NEW t \in Task, RunnerStep(t) PROVE Inv'
  <2>1. ASSUME NEW how \in Outcome, RunnerEnds(t, how) PROVE Inv'
    <3>1. CASE state[t] \in Final
      <4>1. /\ runner' = [runner EXCEPT ![t] = "over"]
            /\ UNCHANGED <<state, kept, age, paused, grace, unseen, timer, desk>>
        BY <2>1, <3>1 DEF RunnerEnds
      <4>2. MapInv' /\ PlacesInv'
        BY <1>0, <4>1, QuietStep
      <4>3. TaskInv'
        BY <3>1, <4>1 DEF Inv, TypeOK, TaskInv, Final
      <4> QED BY <1>0, <4>2, <4>3 DEF Inv
    <3>2. CASE state[t] \notin Final
      <4>1. OutcomeState(t, how) \in Final
        BY DEF OutcomeState, Final
      <4>2. state[t] # "NEW"
        BY <2>1 DEF RunnerEnds, Inv, TaskInv
      <4>3. Finish(t, OutcomeState(t, how), "over") /\ UNCHANGED desk
        BY <2>1, <3>2 DEF RunnerEnds
      <4> QED BY <1>0, <3>2, <4>1, <4>2, <4>3, FinishInv
    <3> QED BY <3>1, <3>2
  <2>2. CASE Report(t) \/ Issue(t) \/ Park(t)
    <3>1. MapInv' /\ PlacesInv'
      BY <1>0, <2>2, QuietStep DEF Report, Issue, Park
    <3>2. TaskInv'
      <4>1. CASE Report(t) \/ Issue(t)
        BY <4>1 DEF Report, Issue, EmitSoon, EmitNow, Inv, TypeOK, TaskInv
      <4>2. CASE Park(t)
        BY <4>2 DEF Park, Inv, TypeOK, TaskInv
      <4> QED BY <2>2, <4>1, <4>2
    <3> QED BY <1>0, <3>1, <3>2 DEF Inv
  <2> QED BY <1>5, <2>1, <2>2 DEF RunnerStep
<1>6. ASSUME NEW t \in Task, TimerStep(t) PROVE Inv'
  <2>1. CASE GraceExpires(t)
    <3>1. /\ Finish(t, "CANCELLED", Woken(runner[t])) /\ UNCHANGED desk
          /\ state[t] = "CANCELLING"
      BY <2>1 DEF GraceExpires, Inv, TaskInv
    <3>2. Woken(runner[t]) \in {"none", "busy", "over"}
      BY DEF Woken, Inv, TypeOK, RunnerState
    <3> QED BY <1>0, <3>1, <3>2, FinishInv DEF Final
  <2>3. CASE IntervalPasses(t) \/ ProgressTimer(t)
    <3>1. MapInv' /\ PlacesInv'
      BY <1>0, <2>3, QuietStep DEF IntervalPasses, ProgressTimer
    <3>2. TaskInv'
      BY <2>3 DEF IntervalPasses, ProgressTimer, EmitNow, Inv, TypeOK, TaskInv
    <3> QED BY <1>0, <3>1, <3>2 DEF Inv
  <2> QED BY <1>6, <2>1, <2>3 DEF TimerStep
<1>7. CASE DisposeCancels
  <2>1. PICK t \in Stoppable : CancelEntry(t) /\ UNCHANGED desk
    BY <1>7 DEF DisposeCancels
  <2>2. t \in Task
    BY <2>1 DEF Stoppable, Inv, TypeOK
  <2> QED BY <1>0, <2>1, <2>2, CancelInv
<1>8. CASE DisposeStart \/ DisposeWaits \/ DisposeEnds
  <2>1. UNCHANGED <<state, kept, age, runner, paused, unseen>>
    BY <1>8 DEF DisposeStart, DisposeWaits, DisposeEnds
  <2>2. MapInv' /\ PlacesInv'
    BY <1>0, <2>1, QuietStep
  <2>3. TaskInv'
    BY <1>8 DEF DisposeStart, DisposeWaits, DisposeEnds, Inv, TaskInv
  <2> QED BY <1>0, <2>2, <2>3 DEF Inv
<1>9. CASE UNCHANGED vars
  <2>1. MapInv' /\ PlacesInv'
    BY <1>0, <1>9, QuietStep DEF vars
  <2> QED BY <1>0, <1>9, <2>1 DEF vars, Inv, TaskInv
<1>10. ASSUME NEW t \in Task,
              Submit(t) \/ Cancel(t) \/ Pause(t) \/ Resume(t) \/ Remove(t)
                 \/ RunnerStep(t) \/ TimerStep(t)
       PROVE  Inv'
  BY <1>10, <1>1, <1>2, <1>3, <1>4, <1>5, <1>6
<1> QED BY <1>7, <1>8, <1>9, <1>10 DEF Next
(* ------------------------------- theorems ------------------------------- *)

\* Inv holds in every reachable state.
THEOREM InvHolds == Spec => []Inv
<1>1. Init => Inv
  BY InitInv
<1>2. Inv /\ [Next]_vars => Inv'
  BY StepInv
<1> QED BY <1>1, <1>2, PTL DEF Spec

\* Every variable keeps its type.
THEOREM TypeCorrect == Spec => []TypeOK
<1>1. Inv => TypeOK
  BY DEF Inv
<1> QED BY <1>1, InvHolds, PTL

\* Every place of the pool is given out, once, and in the order of submission.
THEOREM PoolIsFair == Spec => []PoolFair
<1>1. Inv => PoolFair
  BY DEF Inv, PlacesInv, MapInv, PoolFair
<1> QED BY <1>1, InvHolds, PTL

\* A parked runner's task is paused, a stopping task has its grace timer, and progress
\* not yet delivered has the timer that delivers it.
THEOREM AllAreWatched == Spec => []EachIsWatched
<1>1. Inv => EachIsWatched
  BY DEF Inv, TaskInv, EachIsWatched, NoLostWake, StoppingHasDeadline, ProgressWillBeShown
<1> QED BY <1>1, InvHolds, PTL

\* finish() moves its own task and starts waiting ones; the others stay.
LEMMA FinishKeepsFinal ==
    ASSUME Inv, NEW t \in Task, state[t] \notin Final, NEW final \in Final, NEW r,
           Finish(t, final, r), NEW u \in Task, state[u] \in Final
    PROVE  state'[u] = state[u]
<1> DEFINE after == [state EXCEPT ![t] = final]
<1>1. PICK old \in SUBSET kept, next \in SUBSET kept :
          /\ PumpStarts(after, kept \ old, age, next)
          /\ state' = [v \in Task |-> IF v \in next THEN "RUNNING" ELSE after[v]]
  BY DEF Finish
<1>2. \A v \in next : after[v] = "PENDING"
  BY <1>1 DEF PumpStarts, Oldest
<1>3. u # t /\ after[u] = state[u] /\ u \notin next
  BY <1>2 DEF Inv, TypeOK, Final
<1> QED BY <1>1, <1>3

\* A final state is never left, whatever the task's runner still does.
THEOREM FinalStatesStay == Spec => FinalIsFinal
<1>1. Inv /\ [Next]_vars => \A t \in Task : state[t] \in Final => state'[t] = state[t]
  <2> SUFFICES ASSUME Inv, [Next]_vars, NEW u \in Task, state[u] \in Final
               PROVE  state'[u] = state[u]
    OBVIOUS
  <2>1. ASSUME NEW t \in Task, CancelEntry(t) PROVE state'[u] = state[u]
    <3>1. CASE CancelPending(t)
      BY <3>1, FinishKeepsFinal DEF CancelPending, Pending, Final
    <3>2. CASE CancelRunning(t)
      BY <3>2 DEF CancelRunning, MayStop, Inv, TypeOK
    <3> QED BY <2>1, <3>1, <3>2 DEF CancelEntry
  <2>2. ASSUME NEW t \in Task, Submit(t) PROVE state'[u] = state[u]
    <3> DEFINE after == [state EXCEPT ![t] = "PENDING"]
    <3>1. PICK next, k, ag :
              /\ PumpStarts(after, k, ag, next)
              /\ state' = [v \in Task |-> IF v \in next THEN "RUNNING" ELSE after[v]]
      BY <2>2 DEF Submit
    <3>2. \A v \in next : after[v] = "PENDING"
      BY <3>1 DEF PumpStarts, Oldest
    <3>3. u # t /\ after[u] = state[u] /\ u \notin next
      BY <2>2, <3>2 DEF Submit, Inv, TypeOK, Final
    <3> QED BY <3>1, <3>3
  <2>3. ASSUME NEW t \in Task, Pause(t) \/ Resume(t) \/ Remove(t) PROVE state'[u] = state[u]
    BY <2>3 DEF Pause, Resume, Remove, Final, Inv, TypeOK
  <2>4. ASSUME NEW t \in Task, RunnerStep(t) PROVE state'[u] = state[u]
    <3>1. ASSUME NEW how \in Outcome, RunnerEnds(t, how) PROVE state'[u] = state[u]
      <4>1. OutcomeState(t, how) \in Final
        BY DEF OutcomeState, Final
      <4> QED BY <3>1, <4>1, FinishKeepsFinal DEF RunnerEnds
    <3> QED BY <2>4, <3>1 DEF RunnerStep, Report, Issue, Park
  <2>5. ASSUME NEW t \in Task, TimerStep(t) PROVE state'[u] = state[u]
    <3>1. CASE GraceExpires(t)
      BY <3>1, FinishKeepsFinal DEF GraceExpires, Final
    <3> QED BY <2>5, <3>1 DEF TimerStep, IntervalPasses, ProgressTimer
  <2>6. CASE DisposeCancels
    BY <2>1, <2>6 DEF DisposeCancels, Stoppable, Inv, TypeOK
  <2>7. CASE DisposeStart \/ DisposeWaits \/ DisposeEnds \/ UNCHANGED vars
    BY <2>7 DEF DisposeStart, DisposeWaits, DisposeEnds, vars
  <2> QED BY <2>1, <2>2, <2>3, <2>4, <2>5, <2>6, <2>7 DEF Next, Cancel
<1> QED BY <1>1, InvHolds, PTL DEF Spec, FinalIsFinal

\* While dispose() cancels one task after the other, none is started.
THEOREM SweepStarts == Spec => SweepStartsNothing
<1>1. Inv /\ [Next]_vars => (desk = "sweeping" =>
          \A t \in Task : runner[t] = "none" => runner'[t] = "none")
  <2> SUFFICES ASSUME Inv, [Next]_vars, desk = "sweeping", NEW u \in Task, runner[u] = "none"
               PROVE  runner'[u] = "none"
    OBVIOUS
  <2>1. DisposeCancels \/ DisposeWaits \/ UNCHANGED vars
    BY DEF Next, Idle, Submit, Cancel, Pause, Resume, Remove, RunnerStep, Report, Issue, Park,
           RunnerEnds, TimerStep, GraceExpires, IntervalPasses, ProgressTimer,
           DisposeStart, DisposeEnds
  <2>2. ASSUME NEW t \in Task, CancelPending(t) PROVE runner'[u] = "none"
    <3> DEFINE after == [state EXCEPT ![t] = "CANCELLED"]
    <3>1. PICK old \in SUBSET kept, next \in SUBSET kept :
            /\ Oldest(Finishable(after), Cardinality(Finishable(after)) - KeepFinished, age, old)
            /\ PumpStarts(after, kept \ old, age, next)
            /\ runner' = [v \in Task |-> IF v \in next THEN "busy"
                                         ELSE IF v = t THEN runner[t] ELSE runner[v]]
      BY <2>2 DEF CancelPending, Finish
    <3> DEFINE busy == {v \in kept \ old : after[v] \in Active}
    <3>2. busy = Running
      BY <2>2, <3>1 DEF CancelPending, Pending, Oldest, Finishable, Running, Active, Final, Inv, TypeOK
    <3>3. Cardinality(Running) >= MaxConcurrent /\ Cardinality(Running) <= MaxConcurrent
      BY <2>2 DEF CancelPending, Inv, PlacesInv, WorkConserving, RunningBound
    <3>4. Room(after, kept \ old) = MaxConcurrent - Cardinality(Running)
      BY <3>2 DEF Room
    <3>5. Cardinality(Running) \in Nat /\ MaxConcurrent \in Nat
      <4>1. Running \in SUBSET Task
        BY DEF Running, Inv, TypeOK
      <4> QED BY <4>1, PoolAssumption, FS_Subset, FS_CardinalityType
    <3>6. Room(after, kept \ old) <= 0
      BY <3>3, <3>4, <3>5
    <3>7. next = {}
      BY <3>1, <3>6 DEF PumpStarts, Oldest
    <3> QED BY <3>1, <3>7
  <2>3. ASSUME NEW t \in Task, CancelRunning(t) PROVE runner'[u] = "none"
    BY <2>3 DEF CancelRunning, Woken, Inv, TypeOK
  <2> QED BY <2>1, <2>2, <2>3
          DEF DisposeCancels, DisposeWaits, CancelEntry, Stoppable, vars, Inv, TypeOK
<1> QED BY <1>1, InvHolds, PTL DEF Spec, SweepStartsNothing

(* ---------------------------- finished tasks ---------------------------- *)

ListBounded == Cardinality(Finished) <= KeepFinished

\* What trim() leaves of a list of finished tasks is within the bound.
LEMMA TrimBounds ==
    ASSUME NEW S \in SUBSET Task, NEW ag, NEW old,
           Oldest(S, Cardinality(S) - KeepFinished, ag, old)
    PROVE  Cardinality(S \ old) <= KeepFinished
<1>1. IsFiniteSet(S) /\ old \subseteq S
  BY FS_Subset, PoolAssumption DEF Oldest
<1>2. IsFiniteSet(old)
  BY <1>1, FS_Subset
<1>3. Cardinality(S) \in Nat /\ Cardinality(old) \in Nat /\ KeepFinished \in Nat
  BY <1>1, <1>2, FS_CardinalityType, PoolAssumption
<1>4. Cardinality(S \ old) = Cardinality(S) - Cardinality(old)
  <2>1. Cardinality(S \ old) = Cardinality(S) - Cardinality(S \cap old)
    BY <1>1, <1>2, FS_Difference
  <2>2. S \cap old = old
    BY <1>1
  <2> QED BY <2>1, <2>2
<1>5. CASE Cardinality(S) - KeepFinished <= 0
  <2>1. old = {}
    BY <1>5 DEF Oldest
  <2>2. S \ old = S
    BY <2>1
  <2> QED BY <2>2, <1>3, <1>5
<1>6. CASE ~(Cardinality(S) - KeepFinished <= 0) /\ Cardinality(S) <= Cardinality(S) - KeepFinished
  <2>1. old = S
    BY <1>6 DEF Oldest
  <2> QED BY <2>1, <1>3, <1>4
<1>7. CASE ~(Cardinality(S) - KeepFinished <= 0) /\ ~(Cardinality(S) <= Cardinality(S) - KeepFinished)
  <2>1. Cardinality(old) = Cardinality(S) - KeepFinished
    BY <1>7 DEF Oldest
  <2> QED BY <2>1, <1>3, <1>4
<1> QED BY <1>5, <1>6, <1>7

LEMMA FinishBounds ==
    ASSUME Inv, NEW t \in Task, NEW final \in Final, NEW r, Finish(t, final, r)
    PROVE  ListBounded'
<1> DEFINE after == [state EXCEPT ![t] = final]
<1>1. PICK old \in SUBSET kept, next \in SUBSET kept :
          /\ Oldest(Finishable(after), Cardinality(Finishable(after)) - KeepFinished, age, old)
          /\ PumpStarts(after, kept \ old, age, next)
          /\ state' = [v \in Task |-> IF v \in next THEN "RUNNING" ELSE after[v]]
          /\ kept' = kept \ old
  BY DEF Finish
<1>2. \A v \in next : after[v] = "PENDING"
  BY <1>1 DEF PumpStarts, Oldest
<1>3. Finishable(after) \in SUBSET Task
  BY DEF Finishable, Inv, TypeOK
<1>4. Finished' = Finishable(after) \ old
  BY <1>1, <1>2 DEF Finished, Finishable, Final, Inv, TypeOK
<1>5. Cardinality(Finishable(after) \ old) <= KeepFinished
  BY <1>1, <1>3, TrimBounds
<1> QED BY <1>4, <1>5 DEF ListBounded

\* A smaller list of finished tasks is within the bound too.
LEMMA FewerBounds ==
    ASSUME Inv, ListBounded, Finished' \subseteq Finished
    PROVE  ListBounded'
<1>1. Finished \in SUBSET Task
  BY DEF Finished, Inv, TypeOK
<1>2. IsFiniteSet(Finished)
  BY <1>1, FS_Subset, PoolAssumption
<1>3. IsFiniteSet(Finished') /\ Cardinality(Finished') <= Cardinality(Finished)
  BY <1>2, FS_Subset
<1>4. Cardinality(Finished) \in Nat /\ Cardinality(Finished') \in Nat /\ KeepFinished \in Nat
  BY <1>2, <1>3, FS_CardinalityType, PoolAssumption
<1> QED BY <1>3, <1>4 DEF ListBounded

LEMMA ListStep == Inv /\ ListBounded /\ [Next]_vars => ListBounded'
<1> SUFFICES ASSUME Inv, ListBounded, [Next]_vars PROVE ListBounded'
  OBVIOUS
<1>1. ASSUME NEW t \in Task, CancelEntry(t) PROVE ListBounded'
  <2>1. CASE CancelPending(t)
    BY <2>1, FinishBounds DEF CancelPending, Final
  <2>2. CASE CancelRunning(t)
    <3>1. Finished' \subseteq Finished
      BY <2>2 DEF CancelRunning, Finished, Final, Inv, TypeOK
    <3> QED BY <3>1, FewerBounds
  <2> QED BY <1>1, <2>1, <2>2 DEF CancelEntry
<1>2. ASSUME NEW t \in Task, Submit(t) PROVE ListBounded'
  <2> DEFINE after == [state EXCEPT ![t] = "PENDING"]
  <2>1. PICK next, ag :
            /\ PumpStarts(after, kept \cup {t}, ag, next)
            /\ state' = [v \in Task |-> IF v \in next THEN "RUNNING" ELSE after[v]]
            /\ kept' = kept \cup {t}
    BY <1>2 DEF Submit
  <2>2. Finished' \subseteq Finished
    BY <2>1 DEF Finished, Final, Inv, TypeOK
  <2> QED BY <2>2, FewerBounds
<1>3. ASSUME NEW t \in Task, Pause(t) \/ Resume(t) \/ Remove(t) PROVE ListBounded'
  <2>1. Finished' \subseteq Finished
    BY <1>3 DEF Pause, Resume, Remove, Finished, Final, Inv, TypeOK
  <2> QED BY <2>1, FewerBounds
<1>4. ASSUME NEW t \in Task, RunnerStep(t) PROVE ListBounded'
  <2>1. ASSUME NEW how \in Outcome, RunnerEnds(t, how), state[t] \notin Final PROVE ListBounded'
    <3>1. OutcomeState(t, how) \in Final
      BY DEF OutcomeState, Final
    <3> QED BY <2>1, <3>1, FinishBounds DEF RunnerEnds
  <2>2. CASE UNCHANGED <<state, kept>>
    BY <2>2, FewerBounds DEF Finished
  <2> QED BY <1>4, <2>1, <2>2 DEF RunnerStep, Report, Issue, Park, RunnerEnds
<1>5. ASSUME NEW t \in Task, TimerStep(t) PROVE ListBounded'
  <2>1. CASE GraceExpires(t)
    BY <2>1, FinishBounds DEF GraceExpires, Final
  <2>2. CASE UNCHANGED <<state, kept>>
    BY <2>2, FewerBounds DEF Finished
  <2> QED BY <1>5, <2>1, <2>2 DEF TimerStep, IntervalPasses, ProgressTimer
<1>6. CASE DisposeCancels
  BY <1>1, <1>6 DEF DisposeCancels, Stoppable, Inv, TypeOK
<1>7. CASE DisposeStart \/ DisposeWaits \/ DisposeEnds \/ UNCHANGED vars
  <2>1. UNCHANGED <<state, kept>>
    BY <1>7 DEF DisposeStart, DisposeWaits, DisposeEnds, vars
  <2> QED BY <2>1, FewerBounds DEF Finished
<1> QED BY <1>1, <1>2, <1>3, <1>4, <1>5, <1>6, <1>7 DEF Next, Cancel

\* Only finished tasks are forgotten, and just enough of them.
THEOREM ForgetsFinished == Spec => []OnlyFinishedForgotten
<1>1. Init => ListBounded
  <2> SUFFICES ASSUME Init PROVE ListBounded
    OBVIOUS
  <2>1. Finished = {}
    BY DEF Init, Finished
  <2> QED BY <2>1, FS_EmptySet, PoolAssumption DEF ListBounded
<1>2. Inv /\ ListBounded => OnlyFinishedForgotten
  BY DEF Inv, MapInv, ListBounded, OnlyFinishedForgotten
<1> QED BY <1>1, <1>2, ListStep, InvHolds, PTL DEF Spec

\* Nothing comes back: not a final task, not a forgotten one, and no start while the
\* manager is disposed of.
THEOREM PastIsPast == Spec => NoWayBack
  BY FinalStatesStay, SweepStarts, ForgetsFinished, PTL DEF NoWayBack
=============================================================================
