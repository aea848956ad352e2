---------------------------- MODULE HostQueries ----------------------------
(* The statements and scripts of the Database Host: db-host/src/service.ts.     *)
(* Requests are served concurrently and interleave at every await; a run is     *)
(* known by what it promises (StatementRun).                                    *)
EXTENDS Integers, Sequences, SequencesExt, SequenceTheorems, TLAPS

CONSTANTS
    Calls,     \* requests that may be served at once
    Tabs,      \* query ids and script ids
    Conns,     \* connections
    Asks,      \* sets of requests, one of which is made: records [op, id, conn]
    MaxRuns    \* bound: runs started

HostQueriesAssumption ==
    /\ Asks \subseteq SUBSET [op : {"query", "script", "close", "drop"}, id : Tabs, conn : Conns]
    /\ MaxRuns \in Nat

VARIABLES
    runs,     \* every run started: [conn, id, kind, state, paused, stop, finished, disposed]
    tabs,     \* this.runs in the order of the Map: sequence of [id, run]
    scripts,  \* this.scripts likewise
    calls,    \* the requests being served: where each is suspended
    asks      \* the requests that may be made

service == <<runs, tabs, scripts, calls>>
vars == <<service, asks>>

idle == [at |-> "idle", ask |-> [op |-> "none"], seen |-> {}, target |-> 0, todo |-> <<>>]

Init ==
    /\ runs = <<>> /\ tabs = <<>> /\ scripts = <<>>
    /\ calls = [c \in Calls |-> idle]
    /\ asks \in Asks

(* ------------------------------- the two Maps ---------------------------- *)

Ids(map) == {map[p].id : p \in DOMAIN map}
PlaceOf(map, i) == CHOOSE p \in DOMAIN map : map[p].id = i
RunOf(map, i) == map[PlaceOf(map, i)].run

\* Map.delete() of a key that is there.
Without(map, i) == RemoveAt(map, PlaceOf(map, i))

\* Variant: a new entry pushes out all the others.
WithOnly(map, i, r) == <<[id |-> i, run |-> r]>>

\* Map.set(): a key that is there keeps its place.
With(map, i, r) ==
    IF i \in Ids(map)
    THEN [p \in DOMAIN map |-> IF map[p].id = i THEN [id |-> i, run |-> r] ELSE map[p]]
    ELSE Append(map, [id |-> i, run |-> r])

Working(r) == runs[r].state = "running"

(* --------------------------------- a run --------------------------------- *)

NewRun(ask) ==
    [conn |-> ask.conn, id |-> ask.id, kind |-> ask.op, state |-> "running", paused |-> FALSE,
     stop |-> FALSE, finished |-> FALSE, disposed |-> FALSE]

\* cancel() of a QueryRun or ScriptRun.
Stopped(run) == IF run.state = "running" THEN [run EXCEPT !.stop = TRUE] ELSE run

StopRun(r) == runs' = [runs EXCEPT ![r] = Stopped(@)]

RunPauses(r) ==
    /\ Working(r) /\ runs[r].kind = "query" /\ ~runs[r].paused /\ ~runs[r].stop
    /\ runs' = [runs EXCEPT ![r].paused = TRUE]
    /\ UNCHANGED <<tabs, scripts, calls>>

RunGoesOn(r) ==
    /\ runs[r].paused
    /\ runs' = [runs EXCEPT ![r].paused = FALSE]
    /\ UNCHANGED <<tabs, scripts, calls>>

RunSettles(r) ==
    /\ Working(r) /\ ~runs[r].paused
    /\ runs' = [runs EXCEPT ![r].state = IF runs[r].stop THEN "cancelled" ELSE "done"]
    /\ UNCHANGED <<tabs, scripts, calls>>

RunFinishes(r) ==
    /\ ~Working(r) /\ ~runs[r].finished
    /\ runs' = [runs EXCEPT ![r].finished = TRUE]
    /\ UNCHANGED <<tabs, scripts, calls>>

\* What a run that was told to stop still does.
RunStops(r) == runs[r].stop /\ (RunGoesOn(r) \/ RunSettles(r))

RunSteps(r) == RunPauses(r) \/ RunGoesOn(r) \/ RunSettles(r) \/ RunFinishes(r)

(* ------------------------------- the requests ---------------------------- *)

At(c, where) == calls' = [calls EXCEPT ![c].at = where]
Return(c) == calls' = [calls EXCEPT ![c] = idle]

Ask(c, ask) ==
    /\ calls[c].at = "idle"
    /\ \/ ask.op = "drop"
       \/ \A d \in Calls : calls[d].ask.op \notin {"none", "drop"} => calls[d].ask.id # ask.id
    /\ Len(runs) < MaxRuns
    /\ calls' = [calls EXCEPT ![c] = [idle EXCEPT !.at = "acquire", !.ask = ask]]
    /\ UNCHANGED <<runs, tabs, scripts>>

\* closeQuery(), and closeScript(), up to the await.  A loop over the Map comes
\* to a key that is deleted and set again once more.
CloseTab(c, map, i, then) ==
    /\ StopRun(RunOf(map, i))
    /\ calls' = [d \in Calls |->
                    IF d = c THEN [calls[c] EXCEPT !.at = then, !.target = RunOf(map, i)]
                    ELSE [calls[d] EXCEPT !.seen = @ \ {i}]]

\* relational() failed.
AcquireFails(c) ==
    /\ calls[c].at = "acquire" /\ calls[c].ask.op \in {"query", "script"}
    /\ Return(c)
    /\ UNCHANGED <<runs, tabs, scripts>>

\* startQuery() after relational(): the tab's own earlier run is closed first.
Replace(c) ==
    /\ calls[c].at = "acquire" /\ calls[c].ask.op = "query"
    /\ LET i == calls[c].ask.id IN
       i \in Ids(tabs) /\ CloseTab(c, tabs, i, "replace") /\ tabs' = Without(tabs, i)
    /\ UNCHANGED scripts

Replaced(c) ==
    /\ calls[c].at = "replace" /\ runs[calls[c].target].finished
    /\ runs' = [runs EXCEPT ![calls[c].target].disposed = TRUE]
    /\ calls' = [calls EXCEPT ![c].at = "scan", ![c].target = 0]
    /\ UNCHANGED <<tabs, scripts>>

\* Variant: a call that has made room once does not look again.
RivalsOnce(c) ==
    {p \in DOMAIN tabs : /\ calls[c].seen = {}
                         /\ runs[tabs[p].run].conn = calls[c].ask.conn /\ Working(tabs[p].run)}

\* The entries of this.runs the loop has not come to that still run on the
\* connection; an entry that is added while the loop waits is one of them.
Rivals(c) ==
    {p \in DOMAIN tabs : /\ tabs[p].id \notin calls[c].seen
                         /\ runs[tabs[p].run].conn = calls[c].ask.conn /\ Working(tabs[p].run)}

\* A paused run is stopped, and the loop waits for it.
StopAndAwait(c, p) ==
    /\ StopRun(tabs[p].run)
    /\ calls' = [calls EXCEPT ![c].at = "await", ![c].target = tabs[p].run,
                              ![c].seen = @ \cup {tabs[q].id : q \in 1..p}]

\* The loop over this.runs: it starts the statement, refuses it, or stops a
\* paused run and waits.  Without an earlier run it follows relational() at once.
Scan(c) ==
    /\ \/ calls[c].at = "scan"
       \/ calls[c].at = "acquire" /\ calls[c].ask.op = "query" /\ calls[c].ask.id \notin Ids(tabs)
    /\ \/ /\ Rivals(c) = {}
          /\ runs' = Append(runs, NewRun(calls[c].ask))
          /\ tabs' = With(tabs, calls[c].ask.id, Len(runs) + 1)
          /\ Return(c)
       \/ \E p \in Rivals(c) :
             /\ \A q \in Rivals(c) : p <= q
             /\ UNCHANGED tabs
             /\ IF runs[tabs[p].run].paused
                THEN StopAndAwait(c, p)
                ELSE Return(c) /\ UNCHANGED runs
    /\ UNCHANGED scripts

\* other.run.finished has resolved: the loop goes on.
Awaited(c) ==
    /\ calls[c].at = "await" /\ runs[calls[c].target].finished
    /\ calls' = [calls EXCEPT ![c].at = "scan", ![c].target = 0]
    /\ UNCHANGED <<runs, tabs, scripts>>

\* startScript(): only a statement at work is in the way.
ScriptAcquired(c) ==
    /\ calls[c].at = "acquire" /\ calls[c].ask.op = "script"
    /\ IF \E p \in Rivals(c) : ~runs[tabs[p].run].paused THEN Return(c) ELSE At(c, "open")
    /\ UNCHANGED <<runs, tabs, scripts>>

\* openFileSource() is done.
ScriptOpened(c) ==
    /\ calls[c].at = "open"
    /\ runs' = Append(runs, NewRun(calls[c].ask))
    /\ scripts' = With(scripts, calls[c].ask.id, Len(runs) + 1)
    /\ Return(c)
    /\ UNCHANGED tabs

\* query.close and script.close.
Close(c) ==
    /\ calls[c].at = "acquire" /\ calls[c].ask.op = "close"
    /\ LET i == calls[c].ask.id IN
       \/ /\ i \in Ids(tabs)
          /\ CloseTab(c, tabs, i, "dispose")
          /\ tabs' = Without(tabs, i) /\ UNCHANGED scripts
       \/ /\ i \in Ids(scripts)
          /\ CloseTab(c, scripts, i, "dispose")
          /\ scripts' = Without(scripts, i) /\ UNCHANGED tabs
       \/ /\ i \notin Ids(tabs) /\ i \notin Ids(scripts)
          /\ Return(c) /\ UNCHANGED <<runs, tabs, scripts>>

Disposed(c) == calls[c].at = "dispose" /\ runs[calls[c].target].finished

Closed(c) ==
    /\ Disposed(c)
    /\ runs' = [runs EXCEPT ![calls[c].target].disposed = TRUE]
    /\ IF calls[c].todo = <<>> THEN Return(c) ELSE At(c, "drop")
    /\ UNCHANGED <<tabs, scripts>>

\* closeQueriesOf(): the ids of the connection are noted, then closed in turn.
DropAll(c) ==
    /\ calls[c].at = "acquire" /\ calls[c].ask.op = "drop"
    /\ LET ofConn == SelectSeq(tabs, LAMBDA e : runs[e.run].conn = calls[c].ask.conn) IN
       calls' = [calls EXCEPT ![c].at = "drop", ![c].todo = [p \in DOMAIN ofConn |-> ofConn[p].id]]
    /\ UNCHANGED <<runs, tabs, scripts>>

DropNext(c) ==
    /\ calls[c].at = "drop"
    /\ IF calls[c].todo = <<>>
       THEN Return(c) /\ UNCHANGED <<runs, tabs>>
       ELSE LET i == Head(calls[c].todo) IN
            IF i \in Ids(tabs)
            THEN CloseTab(c, tabs, i, "dispose") /\ tabs' = Without(tabs, i)
            ELSE calls' = [calls EXCEPT ![c].todo = Tail(@)] /\ UNCHANGED <<runs, tabs>>
    /\ UNCHANGED scripts

Serve(c) ==
    \/ AcquireFails(c) \/ Replace(c) \/ Replaced(c) \/ Scan(c) \/ Awaited(c)
    \/ ScriptAcquired(c) \/ ScriptOpened(c) \/ Close(c) \/ Closed(c) \/ DropAll(c) \/ DropNext(c)

Next ==
    /\ \/ \E c \in Calls : Serve(c) \/ \E ask \in asks : Ask(c, ask)
       \/ \E r \in DOMAIN runs : RunSteps(r)
    /\ UNCHANGED asks

Spec == Init /\ [][Next]_vars

\* Requests are served, a run that was told to stop ends, and an ended run
\* finishes; a statement nobody stops may run for ever.
Fairness ==
    /\ \A c \in Calls : WF_service(Serve(c))
    /\ \A r \in 1..MaxRuns :
         /\ WF_service(r \in DOMAIN runs /\ RunStops(r))
         /\ WF_service(r \in DOMAIN runs /\ RunFinishes(r))

FairSpec == Spec /\ Fairness

(* ------------------------------- properties ------------------------------ *)

Map == Seq([id : Tabs, run : DOMAIN runs])

TypeOK ==
    /\ runs \in Seq([conn : Conns, id : Tabs, kind : {"query", "script"},
                    state : {"running", "done", "cancelled"}, paused : BOOLEAN, stop : BOOLEAN,
                    finished : BOOLEAN, disposed : BOOLEAN])
    /\ tabs \in Map /\ scripts \in Map /\ asks \in Asks
    /\ \A c \in Calls :
         /\ calls[c].at \in {"idle", "acquire", "replace", "scan", "await", "open", "dispose", "drop"}
         /\ calls[c].seen \subseteq Tabs /\ calls[c].todo \in Seq(Tabs)
         /\ calls[c].target \in (IF calls[c].at \in {"replace", "await", "dispose"} THEN DOMAIN runs
                                 ELSE DOMAIN runs \cup {0})
    /\ \A p \in DOMAIN tabs : runs[tabs[p].run].id = tabs[p].id /\ ~runs[tabs[p].run].disposed

Queries == {r \in DOMAIN runs : runs[r].kind = "query"}

\* Of the runs the tabs started on a connection and that were not told to stop at most
\* one has not ended.  One whose tab was closed is told to stop and off the list at once
\* (closeQuery(), service.ts:390), so a statement may be started while it is still
\* stopping: of that one "The connection runs one statement at a time" (:357) is not true.
OneStatement ==
    \A r, q \in Queries :
        r # q /\ Working(r) /\ Working(q) => runs[r].conn # runs[q].conn \/ runs[r].stop \/ runs[q].stop

\* No run is lost: what still has files is a tab's current run, or is being
\* closed by some request, so that closing the tabs deletes every result file.
NoOrphan ==
    \A r \in Queries :
        \/ runs[r].disposed
        \/ \E p \in DOMAIN tabs : tabs[p].run = r
        \/ \E c \in Calls : calls[c].target = r /\ calls[c].at \in {"replace", "dispose"}

\* The files of a run are deleted only after its last write.
DisposedIsFinished == \A r \in DOMAIN runs : runs[r].disposed => runs[r].finished

\* Every request is answered, although it may wait for runs it stopped.
Answered == \A c \in Calls : calls[c].at # "idle" ~> calls[c].at = "idle"

\* The result files of every run are deleted in the end, and not while it writes.
FilesGo == NoOrphan /\ DisposedIsFinished

(* ------------------------- proofs: the invariant ------------------------- *)

AllAsks == [op : {"query", "script", "close", "drop"}, id : Tabs, conn : Conns]
Runs == [conn : Conns, id : Tabs, kind : {"query", "script"}, state : {"running", "done", "cancelled"},
         paused : BOOLEAN, stop : BOOLEAN, finished : BOOLEAN, disposed : BOOLEAN]
Entries == [id : Tabs, run : Nat]

IsCall(k) == k = [at |-> k.at, ask |-> k.ask, seen |-> k.seen, target |-> k.target, todo |-> k.todo]

\* The runs, what the two Maps refer to, and the requests that are served.
Shape ==
    /\ runs \in Seq(Runs)
    /\ tabs \in Seq(Entries) /\ \A p \in DOMAIN tabs : tabs[p].run \in DOMAIN runs
    /\ scripts \in Seq(Entries) /\ \A p \in DOMAIN scripts : scripts[p].run \in DOMAIN runs
    /\ asks \subseteq AllAsks
    /\ calls = [c \in Calls |-> calls[c]] /\ \A c \in Calls : IsCall(calls[c])
    /\ \A c \in Calls : calls[c].at # "idle" => calls[c].ask \in AllAsks
    /\ \A c \in Calls : calls[c].at \in {"replace", "dispose"} => calls[c].target \in DOMAIN runs

\* A key is once in the Map.
Distinct == \A p, q \in DOMAIN tabs : tabs[p].id = tabs[q].id => p = q

\* A tab has one request at a time; one that starts a statement has taken its tab's earlier run
\* out of the Map, and of the entries its loop has passed none still runs on its connection,
\* unless it was told to stop.
Alone ==
    \A c, d \in Calls :
       {calls[c].ask.op, calls[d].ask.op} \cap {"none", "drop"} = {} /\ calls[c].ask.id = calls[d].ask.id
         => c = d
Begins ==
    \A c \in Calls :
       /\ calls[c].at \in {"acquire", "replace"} => calls[c].seen = {}
       /\ calls[c].at = "open" => calls[c].ask.op = "script"
       /\ calls[c].at \in {"replace", "scan", "await"} =>
             /\ calls[c].ask.op = "query" /\ calls[c].ask.id \notin Ids(tabs)
             /\ calls[c].seen \subseteq Ids(tabs)
Passed ==
    \A c \in Calls : \A p \in DOMAIN tabs :
       (/\ calls[c].at \in {"replace", "scan", "await"} /\ tabs[p].id \in calls[c].seen
        /\ runs[tabs[p].run].conn = calls[c].ask.conn /\ runs[tabs[p].run].state = "running")
         => runs[tabs[p].run].stop
Turns == Alone /\ Begins /\ Passed

\* A statement that still runs and was not told to stop is its tab's.
Kept ==
    \A r \in Queries : Working(r) /\ ~runs[r].stop => \E p \in DOMAIN tabs : tabs[p].run = r

Inv == Shape /\ Distinct /\ Turns /\ Kept /\ OneStatement /\ FilesGo

(* -------------------------- proofs: the operators ------------------------ *)

\* An entry that is there has a place.
LEMMA Placed ==
    ASSUME NEW map, NEW i \in Ids(map)
    PROVE  PlaceOf(map, i) \in DOMAIN map /\ map[PlaceOf(map, i)].id = i
  BY DEF Ids, PlaceOf

\* Map.delete() takes one entry out and leaves the others in their order.
LEMMA Deleted ==
    ASSUME NEW map \in Seq(Entries), NEW i \in Ids(map), NEW rest, rest = Without(map, i),
           NEW k, k = PlaceOf(map, i)
    PROVE  /\ k \in 1..Len(map) /\ map[k].id = i /\ Len(map) \in Nat /\ DOMAIN map = 1..Len(map)
           /\ rest \in Seq(Entries) /\ Len(rest) = Len(map) - 1 /\ DOMAIN rest = 1..(Len(map) - 1)
           /\ \A q \in 1..(Len(map) - 1) : rest[q] = IF q < k THEN map[q] ELSE map[q + 1]
<1>1. k \in 1..Len(map) /\ map[k].id = i /\ Len(map) \in Nat /\ DOMAIN map = 1..Len(map)
  BY Placed
<1>2. rest = SubSeq(map, 1, k - 1) \o SubSeq(map, k + 1, Len(map))
  BY DEF Without, RemoveAt
<1>3. /\ rest \in Seq(Entries) /\ Len(rest) = Len(map) - 1 /\ DOMAIN rest = 1..(Len(map) - 1)
      /\ \A q \in 1..(Len(map) - 1) : rest[q] = IF q < k THEN map[q] ELSE map[q + 1]
  <2> DEFINE front == SubSeq(map, 1, k - 1)
             back == SubSeq(map, k + 1, Len(map))
  <2>1. /\ front \in Seq(Entries) /\ Len(front) = k - 1 /\ \A q \in 1..(k - 1) : front[q] = map[q]
    BY <1>1
  <2>2. /\ back \in Seq(Entries) /\ Len(back) = Len(map) - k /\ \A q \in 1..(Len(map) - k) : back[q] = map[k + q]
    <3>1. \A q \in (k + 1)..Len(map) : map[q] \in Entries
      BY <1>1
    <3>2. /\ back \in Seq(Entries)
          /\ Len(back) = (IF k + 1 <= Len(map) THEN Len(map) - (k + 1) + 1 ELSE 0)
          /\ \A q \in 1..(Len(map) - (k + 1) + 1) : back[q] = map[k + 1 + q - 1]
      BY <1>1, <3>1, SubSeqProperties
    <3> HIDE DEF back
    <3>3. ASSUME NEW q \in 1..(Len(map) - k) PROVE back[q] = map[k + q]
      <4>1. k + 1 + q - 1 = k + q /\ q \in 1..(Len(map) - (k + 1) + 1)
        BY <1>1
      <4> QED
        BY <3>2, <4>1
    <3>4. Len(back) = Len(map) - k
      <4>1. Len(back) = (IF k + 1 <= Len(map) THEN Len(map) - (k + 1) + 1 ELSE 0)
        BY <3>2
      <4>2. k \in Nat /\ Len(map) \in Nat /\ k <= Len(map)
        BY <1>1
      <4>3. (IF k + 1 <= Len(map) THEN Len(map) - (k + 1) + 1 ELSE 0) = Len(map) - k
        BY <4>2
      <4> QED
        BY <4>1, <4>3
    <3> QED
      BY <3>2, <3>3, <3>4
  <2>3. rest = front \o back
    BY <1>2
  <2> HIDE DEF front, back
  <2>4. /\ rest \in Seq(Entries) /\ Len(rest) = Len(front) + Len(back)
        /\ \A q \in 1..(Len(front) + Len(back)) : rest[q] = IF q <= Len(front) THEN front[q] ELSE back[q - Len(front)]
    <3>1. /\ front \o back \in Seq(Entries) /\ Len(front \o back) = Len(front) + Len(back)
          /\ \A q \in 1..(Len(front) + Len(back)) : (front \o back)[q] = IF q <= Len(front) THEN front[q] ELSE back[q - Len(front)]
      BY <2>1, <2>2, ConcatProperties, Zenon
    <3> QED
      BY <2>3, <3>1, Zenon
  <2>5. ASSUME NEW q \in 1..(Len(map) - 1) PROVE rest[q] = IF q < k THEN map[q] ELSE map[q + 1]
    <3>1. CASE q < k
      <4>1. q \in 1..(Len(front) + Len(back)) /\ q <= Len(front) /\ q \in 1..(k - 1)
        <5>1. q \in Nat /\ q >= 1 /\ k \in Nat /\ Len(map) \in Nat /\ q <= k - 1 /\ q <= Len(map) - 1
          BY <1>1, <3>1
        <5>2. Len(front) = k - 1 /\ Len(back) = Len(map) - k
          BY <2>1, <2>2
        <5> QED
          BY <5>1, <5>2
      <4> QED
        BY <2>1, <2>4, <3>1, <4>1
    <3>2. CASE ~(q < k)
      <4>1. q - (k - 1) \in 1..(Len(map) - k) /\ k + (q - (k - 1)) = q + 1
        BY <1>1, <3>2
      <4>2. rest[q] = back[q - (k - 1)]
        <5>1. q \in 1..(Len(front) + Len(back)) /\ ~(q <= Len(front)) /\ Len(front) = k - 1
          <6>1. q \in Nat /\ q >= k /\ k \in Nat /\ k >= 1 /\ Len(map) \in Nat /\ q <= Len(map) - 1
            BY <1>1, <3>2
          <6>2. Len(front) = k - 1 /\ Len(back) = Len(map) - k
            BY <2>1, <2>2
          <6>3. q \in 1..((k - 1) + (Len(map) - k)) /\ ~(q <= k - 1)
            BY <6>1
          <6> QED
            BY <6>2, <6>3
        <5> QED
          BY <2>4, <5>1
      <4> QED
        BY <2>2, <3>2, <4>1, <4>2
    <3> QED
      BY <3>1, <3>2
  <2> QED
    BY <1>1, <2>1, <2>2, <2>4, <2>5
<1> QED
  BY <1>1, <1>3

\* What the Map holds without a key.
LEMMA DeletedOnce ==
    ASSUME tabs \in Seq(Entries), Distinct, NEW i \in Ids(tabs), NEW rest, rest = Without(tabs, i)
    PROVE  /\ rest \in Seq(Entries)
           /\ \A q \in DOMAIN rest : \E p \in DOMAIN tabs : rest[q] = tabs[p] /\ tabs[p].id # i
           /\ \A p \in DOMAIN tabs : tabs[p].id # i => \E q \in DOMAIN rest : rest[q] = tabs[p]
           /\ \A p, q \in DOMAIN rest : rest[p].id = rest[q].id => p = q
           /\ Ids(rest) = Ids(tabs) \ {i}
           /\ \A p \in DOMAIN tabs : tabs[p].id = i => tabs[p].run = RunOf(tabs, i)
<1> DEFINE k == PlaceOf(tabs, i)
<1>1. k \in 1..Len(tabs) /\ tabs[k].id = i /\ Len(tabs) \in Nat /\ DOMAIN tabs = 1..Len(tabs)
  BY Deleted
<1>3. /\ rest \in Seq(Entries) /\ Len(rest) = Len(tabs) - 1 /\ DOMAIN rest = 1..(Len(tabs) - 1)
      /\ \A q \in 1..(Len(tabs) - 1) : rest[q] = IF q < k THEN tabs[q] ELSE tabs[q + 1]
  BY Deleted
<1>11. RunOf(tabs, i) = tabs[k].run
  BY DEF RunOf
<1> HIDE DEF k
<1>4. \A q \in DOMAIN rest : \E p \in DOMAIN tabs : rest[q] = tabs[p] /\ p # k
  BY <1>1, <1>3
<1>5. \A p \in DOMAIN tabs : p # k => \E q \in DOMAIN rest : rest[q] = tabs[p]
  <2> SUFFICES ASSUME NEW p \in DOMAIN tabs, p # k PROVE \E q \in DOMAIN rest : rest[q] = tabs[p]
    OBVIOUS
  <2>1. CASE p < k
    BY <1>1, <1>3, <2>1
  <2>2. CASE p > k
    <3>1. p - 1 \in DOMAIN rest /\ rest[p - 1] = tabs[p]
      BY <1>1, <1>3, <2>2
    <3> QED
      BY <3>1
  <2> QED
    BY <1>1, <2>1, <2>2
<1>6. \A p \in DOMAIN tabs : tabs[p].id = i <=> p = k
  BY <1>1 DEF Distinct
<1>7. \A p, q \in DOMAIN rest : rest[p].id = rest[q].id => p = q
  <2> SUFFICES ASSUME NEW p \in DOMAIN rest, NEW q \in DOMAIN rest, rest[p].id = rest[q].id PROVE p = q
    OBVIOUS
  <2> DEFINE From(x) == IF x < k THEN x ELSE x + 1
  <2>1. /\ From(p) \in DOMAIN tabs /\ From(q) \in DOMAIN tabs
        /\ rest[p] = tabs[From(p)] /\ rest[q] = tabs[From(q)]
    BY <1>1, <1>3
  <2>2. From(p) = From(q)
    BY <2>1 DEF Distinct
  <2> QED
    BY <1>1, <1>3, <2>2
<1>8. Ids(rest) = Ids(tabs) \ {i}
  BY <1>4, <1>5, <1>6 DEF Ids
<1>9. \A q \in DOMAIN rest : \E p \in DOMAIN tabs : rest[q] = tabs[p] /\ tabs[p].id # i
  BY <1>4, <1>6
<1>10. \A p \in DOMAIN tabs : tabs[p].id # i => \E q \in DOMAIN rest : rest[q] = tabs[p]
  BY <1>5, <1>1
<1> QED
  BY <1>3, <1>6, <1>7, <1>8, <1>9, <1>10, <1>11

\* What any step leaves of the runs there are.
Later ==
    /\ runs' \in Seq(Runs)
    /\ \A r \in DOMAIN runs :
          /\ r \in DOMAIN runs' /\ runs'[r].conn = runs[r].conn /\ runs'[r].kind = runs[r].kind
          /\ runs'[r].state = "running" => runs[r].state = "running"
          /\ runs[r].stop => runs'[r].stop
          /\ runs[r].finished => runs'[r].finished
          /\ runs[r].disposed => runs'[r].disposed

\* A run in place of the one it was.
LEMMA Changed ==
    ASSUME runs \in Seq(Runs), NEW r \in DOMAIN runs, NEW run \in Runs, runs' = [runs EXCEPT ![r] = run],
           run.conn = runs[r].conn, run.kind = runs[r].kind, run.state = "running" => runs[r].state = "running",
           runs[r].stop => run.stop, runs[r].finished => run.finished, runs[r].disposed => run.disposed
    PROVE  /\ Later /\ DOMAIN runs' = DOMAIN runs /\ runs'[r] = run
           /\ \A q \in DOMAIN runs : q # r => runs'[q] = runs[q]
<1>1. /\ runs' \in Seq(Runs) /\ DOMAIN runs' = DOMAIN runs /\ runs'[r] = run
      /\ \A q \in DOMAIN runs : q # r => runs'[q] = runs[q]
  OBVIOUS
<1> QED
  BY <1>1 DEF Later

\* A run is told to stop.
LEMMA StoppedLater ==
    ASSUME runs \in Seq(Runs), NEW r \in DOMAIN runs, StopRun(r)
    PROVE  /\ Later /\ DOMAIN runs' = DOMAIN runs
           /\ runs'[r].state = runs[r].state
           /\ runs'[r].state = "running" => runs'[r].stop
           /\ \A q \in DOMAIN runs : runs'[q].disposed = runs[q].disposed
<1> DEFINE run == Stopped(runs[r])
<1>1. runs[r] \in Runs
  OBVIOUS
<1>2. runs' = [runs EXCEPT ![r] = run]
  BY DEF StopRun
<1>3. /\ run \in Runs /\ run.conn = runs[r].conn /\ run.kind = runs[r].kind /\ run.state = runs[r].state
      /\ runs[r].stop => run.stop
      /\ run.finished = runs[r].finished /\ run.disposed = runs[r].disposed
      /\ run.state = "running" => run.stop
  BY <1>1 DEF Stopped, Runs
<1> HIDE DEF run
<1>4. /\ Later /\ DOMAIN runs' = DOMAIN runs /\ runs'[r] = run
      /\ \A q \in DOMAIN runs : q # r => runs'[q] = runs[q]
  BY <1>2, <1>3, Changed
<1> QED
  BY <1>3, <1>4

\* The files of a run are deleted.
LEMMA DisposedLater ==
    ASSUME runs \in Seq(Runs), NEW r \in DOMAIN runs, runs' = [runs EXCEPT ![r].disposed = TRUE]
    PROVE  /\ Later /\ DOMAIN runs' = DOMAIN runs /\ runs'[r].disposed
           /\ runs'[r].finished = runs[r].finished
           /\ \A q \in DOMAIN runs : q # r => runs'[q] = runs[q]
<1> DEFINE run == [runs[r] EXCEPT !.disposed = TRUE]
<1>1. runs[r] \in Runs
  OBVIOUS
<1>2. runs' = [runs EXCEPT ![r] = run]
  OBVIOUS
<1>3. /\ run \in Runs /\ run.conn = runs[r].conn /\ run.kind = runs[r].kind /\ run.state = runs[r].state
      /\ runs[r].stop => run.stop
      /\ run.finished = runs[r].finished /\ run.disposed
      /\ runs[r].finished => run.finished
  BY <1>1 DEF Runs
<1> HIDE DEF run
<1>5. (run.state = "running" => runs[r].state = "running") /\ (runs[r].disposed => run.disposed)
  BY <1>3
<1>4. /\ Later /\ DOMAIN runs' = DOMAIN runs /\ runs'[r] = run
      /\ \A q \in DOMAIN runs : q # r => runs'[q] = runs[q]
  BY <1>2, <1>3, <1>5, Changed
<1> QED
  BY <1>3, <1>4, <1>5

\* A run pauses, goes on, settles or finishes.
LEMMA StepsLater ==
    ASSUME runs \in Seq(Runs), NEW r \in DOMAIN runs, RunSteps(r)
    PROVE  /\ Later /\ DOMAIN runs' = DOMAIN runs /\ UNCHANGED <<tabs, scripts, calls>>
           /\ \A q \in DOMAIN runs : runs'[q].disposed = runs[q].disposed
<1>1. runs[r] \in Runs
  OBVIOUS
<1>2. \E run \in Runs :
         /\ runs' = [runs EXCEPT ![r] = run] /\ run.conn = runs[r].conn /\ run.kind = runs[r].kind
         /\ run.state = "running" => runs[r].state = "running"
         /\ runs[r].stop => run.stop
         /\ runs[r].finished => run.finished
         /\ run.disposed = runs[r].disposed
  <2>1. CASE RunPauses(r)
    <3> DEFINE run == [runs[r] EXCEPT !.paused = TRUE]
    <3>1. run \in Runs /\ runs' = [runs EXCEPT ![r] = run]
      BY <1>1, <2>1 DEF RunPauses, Runs
    <3> QED
      BY <1>1, <3>1 DEF Runs
  <2>2. CASE RunGoesOn(r)
    <3> DEFINE run == [runs[r] EXCEPT !.paused = FALSE]
    <3>1. run \in Runs /\ runs' = [runs EXCEPT ![r] = run]
      BY <1>1, <2>2 DEF RunGoesOn, Runs
    <3> QED
      BY <1>1, <3>1 DEF Runs
  <2>3. CASE RunSettles(r)
    <3> DEFINE run == [runs[r] EXCEPT !.state = IF runs[r].stop THEN "cancelled" ELSE "done"]
    <3>1. run \in Runs /\ runs' = [runs EXCEPT ![r] = run]
      BY <1>1, <2>3 DEF RunSettles, Runs
    <3> QED
      BY <1>1, <3>1 DEF Runs
  <2>4. CASE RunFinishes(r)
    <3> DEFINE run == [runs[r] EXCEPT !.finished = TRUE]
    <3>1. run \in Runs /\ runs' = [runs EXCEPT ![r] = run]
      BY <1>1, <2>4 DEF RunFinishes, Runs
    <3> QED
      BY <1>1, <3>1 DEF Runs
  <2> QED
    BY <2>1, <2>2, <2>3, <2>4 DEF RunSteps
<1>3. UNCHANGED <<tabs, scripts, calls>>
  BY DEF RunSteps, RunPauses, RunGoesOn, RunSettles, RunFinishes
<1>4. PICK run \in Runs :
         /\ runs' = [runs EXCEPT ![r] = run] /\ run.conn = runs[r].conn /\ run.kind = runs[r].kind
         /\ run.state = "running" => runs[r].state = "running"
         /\ runs[r].stop => run.stop
         /\ runs[r].finished => run.finished
         /\ run.disposed = runs[r].disposed
  BY <1>2
<1>5. /\ Later /\ DOMAIN runs' = DOMAIN runs /\ runs'[r] = run
      /\ \A q \in DOMAIN runs : q # r => runs'[q] = runs[q]
  <2>1. runs[r].disposed => run.disposed
    BY <1>4
  <2> QED
    BY <1>4, <2>1, Changed
<1> QED
  BY <1>3, <1>4, <1>5

\* A run that is begun.
LEMMA BegunLater ==
    ASSUME runs \in Seq(Runs), NEW run \in Runs, runs' = Append(runs, run)
    PROVE  /\ Later /\ Len(runs) + 1 \in DOMAIN runs' /\ runs'[Len(runs) + 1] = run /\ Len(runs) + 1 \in Nat
           /\ DOMAIN runs' = DOMAIN runs \cup {Len(runs) + 1} /\ Len(runs) + 1 \notin DOMAIN runs
           /\ \A q \in DOMAIN runs : runs'[q] = runs[q]
<1>1. /\ runs' \in Seq(Runs) /\ Len(runs) + 1 \in DOMAIN runs' /\ runs'[Len(runs) + 1] = run
      /\ Len(runs) + 1 \in Nat
      /\ DOMAIN runs' = DOMAIN runs \cup {Len(runs) + 1} /\ Len(runs) + 1 \notin DOMAIN runs
      /\ \A q \in DOMAIN runs : runs'[q] = runs[q]
  OBVIOUS
<1> QED
  BY <1>1 DEF Later

\* A request of which one part is changed.
LEMMA AtChanged ==
    ASSUME NEW k, IsCall(k), NEW v
    PROVE  [k EXCEPT !.at = v] =
             [at |-> v, ask |-> k.ask, seen |-> k.seen, target |-> k.target, todo |-> k.todo]
<1>1. PICK a, b, c, d, e : k = [at |-> a, ask |-> b, seen |-> c, target |-> d, todo |-> e]
  BY DEF IsCall
<1>2. [k EXCEPT !.at = v] = [at |-> v, ask |-> b, seen |-> c, target |-> d, todo |-> e]
  BY <1>1
<1> QED
  BY <1>1, <1>2

\* The same of what was asked,
LEMMA AskChanged ==
    ASSUME NEW k, IsCall(k), NEW v
    PROVE  [k EXCEPT !.ask = v] =
             [at |-> k.at, ask |-> v, seen |-> k.seen, target |-> k.target, todo |-> k.todo]
<1>1. PICK a, b, c, d, e : k = [at |-> a, ask |-> b, seen |-> c, target |-> d, todo |-> e]
  BY DEF IsCall
<1>2. [k EXCEPT !.ask = v] = [at |-> a, ask |-> v, seen |-> c, target |-> d, todo |-> e]
  BY <1>1
<1> QED
  BY <1>1, <1>2

\* ... of the entries it has passed,
LEMMA SeenChanged ==
    ASSUME NEW k, IsCall(k), NEW v
    PROVE  [k EXCEPT !.seen = v] =
             [at |-> k.at, ask |-> k.ask, seen |-> v, target |-> k.target, todo |-> k.todo]
<1>1. PICK a, b, c, d, e : k = [at |-> a, ask |-> b, seen |-> c, target |-> d, todo |-> e]
  BY DEF IsCall
<1>2. [k EXCEPT !.seen = v] = [at |-> a, ask |-> b, seen |-> v, target |-> d, todo |-> e]
  BY <1>1
<1> QED
  BY <1>1, <1>2

\* ... of the run it waits for,
LEMMA TargetChanged ==
    ASSUME NEW k, IsCall(k), NEW v
    PROVE  [k EXCEPT !.target = v] =
             [at |-> k.at, ask |-> k.ask, seen |-> k.seen, target |-> v, todo |-> k.todo]
<1>1. PICK a, b, c, d, e : k = [at |-> a, ask |-> b, seen |-> c, target |-> d, todo |-> e]
  BY DEF IsCall
<1>2. [k EXCEPT !.target = v] = [at |-> a, ask |-> b, seen |-> c, target |-> v, todo |-> e]
  BY <1>1
<1> QED
  BY <1>1, <1>2

\* ... and of the ids it has still to close.
LEMMA TodoChanged ==
    ASSUME NEW k, IsCall(k), NEW v
    PROVE  [k EXCEPT !.todo = v] =
             [at |-> k.at, ask |-> k.ask, seen |-> k.seen, target |-> k.target, todo |-> v]
<1>1. PICK a, b, c, d, e : k = [at |-> a, ask |-> b, seen |-> c, target |-> d, todo |-> e]
  BY DEF IsCall
<1>2. [k EXCEPT !.todo = v] = [at |-> a, ask |-> b, seen |-> c, target |-> d, todo |-> v]
  BY <1>1
<1> QED
  BY <1>1, <1>2

(* --------------------------- proofs: the steps --------------------------- *)

\* What holds of the runs when none is added.
LEMMA OldRuns ==
    ASSUME Shape, OneStatement, DisposedIsFinished, Later, DOMAIN runs' = DOMAIN runs,
           \A r \in DOMAIN runs : runs'[r].disposed => runs[r].disposed \/ runs[r].finished
    PROVE  OneStatement' /\ DisposedIsFinished' /\ Queries' = Queries
<1>1. Queries' = Queries
  BY DEF Queries, Later
<1>2. \A r \in DOMAIN runs : /\ Working(r)' => Working(r)
                             /\ runs'[r].conn = runs[r].conn
                             /\ runs[r].stop => runs'[r].stop
                             /\ runs[r].finished => runs'[r].finished
  BY DEF Later, Working
<1>3. OneStatement'
  <2> SUFFICES ASSUME NEW r \in Queries', NEW q \in Queries', r # q, Working(r)', Working(q)'
               PROVE  (runs[r].conn # runs[q].conn \/ runs[r].stop \/ runs[q].stop)'
    BY DEF OneStatement
  <2>1. r \in Queries /\ q \in Queries /\ r \in DOMAIN runs /\ q \in DOMAIN runs
    BY <1>1 DEF Queries
  <2> QED
    BY <1>2, <2>1 DEF OneStatement
<1>4. DisposedIsFinished'
  BY <1>2 DEF DisposedIsFinished
<1> QED
  BY <1>1, <1>3, <1>4

\* A request goes on, and the Maps stay as they are.
LEMMA Moves ==
    ASSUME Inv, Later, DOMAIN runs' = DOMAIN runs, UNCHANGED <<tabs, scripts, asks>>,
           \A r \in DOMAIN runs : runs'[r].disposed => runs[r].disposed \/ runs[r].finished,
           NEW c \in Calls, NEW k, IsCall(k), calls' = [calls EXCEPT ![c] = k],
           \/ k.ask = calls[c].ask
           \/ \A d \in Calls \ {c} :
                {k.ask.op, calls[d].ask.op} \cap {"none", "drop"} = {} => k.ask.id # calls[d].ask.id,
           k.at # "idle" => k.ask \in AllAsks,
           k.at \in {"replace", "dispose"} => k.target \in DOMAIN runs,
           k.at \in {"acquire", "replace"} => k.seen = {},
           k.at = "open" => k.ask.op = "script",
           k.at \in {"replace", "scan", "await"} =>
             /\ k.ask.op = "query" /\ k.ask.id \notin Ids(tabs) /\ k.seen \subseteq Ids(tabs)
             /\ \A p \in DOMAIN tabs :
                  /\ tabs[p].id \in k.seen /\ runs[tabs[p].run].conn = k.ask.conn /\ Working(tabs[p].run)
                    => runs'[tabs[p].run].stop,
           calls[c].at \in {"replace", "dispose"} =>
             (k.at = calls[c].at /\ k.target = calls[c].target) \/ runs'[calls[c].target].disposed
    PROVE  Inv'
<1>s. Shape /\ Distinct /\ Turns /\ Kept /\ OneStatement /\ NoOrphan /\ DisposedIsFinished
  BY DEF Inv, FilesGo
<1>o. OneStatement' /\ DisposedIsFinished' /\ Queries' = Queries
  BY <1>s, OldRuns
<1>c. calls'[c] = k /\ \A d \in Calls : d # c => calls'[d] = calls[d]
  BY <1>s DEF Shape
<1>t. \A p \in DOMAIN tabs : tabs[p].run \in DOMAIN runs
  BY <1>s DEF Shape
<1>l. \A r \in DOMAIN runs : /\ Working(r)' => Working(r)
                             /\ runs'[r].conn = runs[r].conn
                             /\ runs[r].stop => runs'[r].stop
                             /\ runs[r].disposed => runs'[r].disposed
  BY DEF Later, Working
<1>1. Shape'
  <2>1. calls' = [d \in Calls |-> calls'[d]]
    BY <1>s DEF Shape
  <2> QED
    BY <1>s, <1>c, <2>1 DEF Shape, Later, IsCall
<1>2. Distinct'
  BY <1>s DEF Distinct
<1>3. Turns'
  <2>1. Ids(tabs)' = Ids(tabs)
    BY DEF Ids
  <2>2. \A e, d \in Calls :
          {calls'[e].ask.op, calls'[d].ask.op} \cap {"none", "drop"} = {} /\ calls'[e].ask.id = calls'[d].ask.id
            => e = d
    BY <1>s, <1>c DEF Turns, Alone
  <2>3. \A d \in Calls : /\ calls'[d].at \in {"acquire", "replace"} => calls'[d].seen = {}
                         /\ calls'[d].at = "open" => calls'[d].ask.op = "script"
    BY <1>s, <1>c DEF Turns, Begins
  <2>4. \A d \in Calls : calls'[d].at \in {"replace", "scan", "await"} =>
          /\ calls'[d].ask.op = "query" /\ calls'[d].ask.id \notin Ids(tabs)
          /\ calls'[d].seen \subseteq Ids(tabs)
    BY <1>s, <1>c DEF Turns, Begins
  <2>5. ASSUME NEW d \in Calls, calls'[d].at \in {"replace", "scan", "await"}, NEW p \in DOMAIN tabs,
               tabs[p].id \in calls'[d].seen, runs'[tabs[p].run].conn = calls'[d].ask.conn,
               runs'[tabs[p].run].state = "running"
        PROVE  runs'[tabs[p].run].stop
    <3>1. tabs[p].run \in DOMAIN runs
      BY <1>t
    <3>2. Working(tabs[p].run) /\ runs[tabs[p].run].conn = calls'[d].ask.conn
      BY <2>5, <3>1 DEF Later, Working
    <3>3. CASE d = c
      BY <1>c, <2>5, <3>2, <3>3
    <3>4. CASE d # c
      BY <1>s, <1>c, <1>l, <2>5, <3>1, <3>2, <3>4 DEF Turns, Passed, Working
    <3> QED
      BY <3>3, <3>4
  <2>6. Alone'
    BY <2>2 DEF Alone
  <2>7. Begins'
    <3>1. \A d \in Calls :
            /\ calls'[d].at \in {"acquire", "replace"} => calls'[d].seen = {}
            /\ calls'[d].at = "open" => calls'[d].ask.op = "script"
            /\ calls'[d].at \in {"replace", "scan", "await"} =>
                 /\ calls'[d].ask.op = "query" /\ calls'[d].ask.id \notin Ids(tabs)
                 /\ calls'[d].seen \subseteq Ids(tabs)
      BY <2>3, <2>4
    <3> QED
      BY <2>1, <3>1 DEF Begins
  <2>8. Passed'
    <3>1. tabs' = tabs
      OBVIOUS
    <3>2. SUFFICES ASSUME NEW d \in Calls, NEW p \in DOMAIN tabs',
                          calls'[d].at \in {"replace", "scan", "await"}, tabs'[p].id \in calls'[d].seen,
                          runs'[tabs'[p].run].conn = calls'[d].ask.conn,
                          runs'[tabs'[p].run].state = "running"
                   PROVE  runs'[tabs'[p].run].stop
      BY DEF Passed
    <3> QED
      BY <2>5, <3>1, <3>2
  <2> QED
    BY <2>6, <2>7, <2>8 DEF Turns
<1>4. Kept'
  <2> SUFFICES ASSUME NEW r \in Queries', Working(r)', ~runs'[r].stop
               PROVE  \E p \in DOMAIN tabs : tabs[p].run = r
    BY DEF Kept
  <2>1. r \in Queries /\ r \in DOMAIN runs
    BY <1>o DEF Queries
  <2> QED
    BY <1>s, <1>l, <2>1 DEF Kept
<1>5. NoOrphan'
  <2> SUFFICES ASSUME NEW r \in Queries', ~runs'[r].disposed, ~\E p \in DOMAIN tabs : tabs[p].run = r
               PROVE  \E d \in Calls : calls'[d].target = r /\ calls'[d].at \in {"replace", "dispose"}
    BY DEF NoOrphan
  <2>1. r \in Queries /\ r \in DOMAIN runs
    BY <1>o DEF Queries
  <2>2. PICK d \in Calls : calls[d].target = r /\ calls[d].at \in {"replace", "dispose"}
    BY <1>s, <1>l, <2>1 DEF NoOrphan
  <2> QED
    BY <1>c, <2>2
<1> QED
  BY <1>1, <1>2, <1>3, <1>4, <1>5, <1>o DEF Inv, FilesGo

WaitsFor(c, i, r, then) ==
    calls' = [d \in Calls |->
                IF d = c THEN [calls[c] EXCEPT !.at = then, !.target = r]
                ELSE [calls[d] EXCEPT !.seen = @ \ {i}]]

\* A run that is at hand is stopped, and a request waits for it to finish.
LEMMA Closes ==
    ASSUME Inv, NEW c \in Calls, NEW i, NEW r \in DOMAIN runs, NEW then \in {"replace", "dispose"},
           StopRun(r), UNCHANGED asks,
           WaitsFor(c, i, r, then),
           calls[c].at \in {"acquire", "drop"},
           then = "replace" => calls[c].at = "acquire" /\ calls[c].ask.op = "query" /\ calls[c].ask.id \notin Ids(tabs'),
           tabs' \in Seq(Entries), Distinct',
           scripts' \in Seq(Entries), \A p \in DOMAIN scripts' : scripts'[p].run \in DOMAIN runs,
           \A q \in DOMAIN tabs' : \E p \in DOMAIN tabs : tabs'[q] = tabs[p],
           \A j \in Ids(tabs) : j # i => j \in Ids(tabs'),
           \A p \in DOMAIN tabs : tabs[p].run # r => \E q \in DOMAIN tabs' : tabs'[q] = tabs[p]
    PROVE  Inv'
<1>s. Shape /\ Distinct /\ Turns /\ Kept /\ OneStatement /\ NoOrphan /\ DisposedIsFinished
  BY DEF Inv, FilesGo
<1>r. runs \in Seq(Runs)
  BY <1>s DEF Shape
<1>l. /\ Later /\ DOMAIN runs' = DOMAIN runs
      /\ runs'[r].state = "running" => runs'[r].stop
      /\ \A q \in DOMAIN runs : runs'[q].disposed = runs[q].disposed
  BY <1>r, StoppedLater
<1>o. OneStatement' /\ DisposedIsFinished' /\ Queries' = Queries
  BY <1>s, <1>l, OldRuns
<1>i. \A d \in Calls : IsCall(calls[d])
  BY <1>s DEF Shape
<1>k. /\ IsCall(calls'[c])
      /\ calls'[c].at = then /\ calls'[c].ask = calls[c].ask /\ calls'[c].seen = calls[c].seen /\ calls'[c].target = r
  <2> DEFINE k == [calls[c] EXCEPT !.at = then]
             wish == calls[c].ask
             s == calls[c].seen
             t == calls[c].target
             o == calls[c].todo
  <2>1. calls'[c] = [k EXCEPT !.target = r]
    BY DEF WaitsFor
  <2>2. IsCall(calls[c])
    BY <1>i
  <2>3. k = [at |-> then, ask |-> wish, seen |-> s, target |-> t, todo |-> o]
    BY <2>2, AtChanged, Zenon
  <2> HIDE DEF k, wish, s, t, o
  <2>4. calls'[c] = [at |-> then, ask |-> wish, seen |-> s, target |-> r, todo |-> o]
    BY <2>1, <2>3
  <2> QED
    BY <2>4 DEF IsCall, wish, s
<1>d. ASSUME NEW d \in Calls, d # c
      PROVE  /\ IsCall(calls'[d])
             /\ calls'[d].at = calls[d].at /\ calls'[d].ask = calls[d].ask
             /\ calls'[d].seen = calls[d].seen \ {i} /\ calls'[d].target = calls[d].target
  <2>1. calls'[d] = [calls[d] EXCEPT !.seen = calls[d].seen \ {i}]
    BY <1>d DEF WaitsFor
  <2>2. IsCall(calls[d])
    BY <1>i
  <2>3. [calls[d] EXCEPT !.seen = calls[d].seen \ {i}] =
          [at |-> calls[d].at, ask |-> calls[d].ask, seen |-> calls[d].seen \ {i},
           target |-> calls[d].target, todo |-> calls[d].todo]
    BY <2>2, SeenChanged, Zenon
  <2>4. calls'[d] = [at |-> calls[d].at, ask |-> calls[d].ask, seen |-> calls[d].seen \ {i},
                     target |-> calls[d].target, todo |-> calls[d].todo]
    BY <2>1, <2>3, Zenon
  <2> QED
    BY <2>4 DEF IsCall
<1>c. /\ calls'[c].at = then /\ calls'[c].ask = calls[c].ask /\ calls'[c].seen = calls[c].seen /\ calls'[c].target = r
      /\ \A d \in Calls : d # c => /\ calls'[d].at = calls[d].at /\ calls'[d].ask = calls[d].ask
                                   /\ calls'[d].seen = calls[d].seen \ {i} /\ calls'[d].target = calls[d].target
  BY <1>k, <1>d
<1>m. \A q \in DOMAIN runs : /\ runs'[q].state = "running" => runs[q].state = "running"
                             /\ runs'[q].conn = runs[q].conn
                             /\ runs[q].stop => runs'[q].stop
  BY <1>l DEF Later
<1>t. \A p \in DOMAIN tabs : tabs[p].run \in DOMAIN runs
  BY <1>s DEF Shape
<1>1. Shape'
  <2>1. calls' = [d \in Calls |-> calls'[d]] /\ \A d \in Calls : IsCall(calls'[d])
    <3>1. calls' = [d \in Calls |-> calls'[d]]
      BY DEF WaitsFor
    <3>2. IsCall(calls'[c])
      BY <1>k
    <3>3. \A d \in Calls : d # c => IsCall(calls'[d])
      BY <1>d
    <3> QED
      BY <3>1, <3>2, <3>3
  <2>2. \A q \in DOMAIN tabs' : tabs'[q].run \in DOMAIN runs'
    BY <1>t, <1>l
  <2>3. /\ \A d \in Calls : calls'[d].at # "idle" => calls'[d].ask \in AllAsks
        /\ \A d \in Calls : calls'[d].at \in {"replace", "dispose"} => calls'[d].target \in DOMAIN runs'
    BY <1>s, <1>c, <1>l DEF Shape
  <2>4. asks' \subseteq AllAsks /\ runs' \in Seq(Runs)
    BY <1>s, <1>l DEF Shape, Later
  <2> QED
    BY <1>l, <2>1, <2>2, <2>3, <2>4 DEF Shape
<1>3. Turns'
  <2>1. Alone'
    BY <1>s, <1>c DEF Turns, Alone
  <2>2. Begins'
    <3>1. \A j \in Ids(tabs') : j \in Ids(tabs)
      BY DEF Ids
    <3>2. ASSUME NEW d \in Calls
          PROVE  /\ calls'[d].at \in {"acquire", "replace"} => calls'[d].seen = {}
                 /\ calls'[d].at = "open" => calls'[d].ask.op = "script"
                 /\ calls'[d].at \in {"replace", "scan", "await"} =>
                      /\ calls'[d].ask.op = "query" /\ calls'[d].ask.id \notin Ids(tabs')
                      /\ calls'[d].seen \subseteq Ids(tabs')
      <4>1. CASE d = c
        BY <1>s, <1>c, <4>1 DEF Turns, Begins
      <4>2. CASE d # c
        <5>1. /\ calls[d].at \in {"acquire", "replace"} => calls[d].seen = {}
              /\ calls[d].at = "open" => calls[d].ask.op = "script"
              /\ calls[d].at \in {"replace", "scan", "await"} =>
                   /\ calls[d].ask.op = "query" /\ calls[d].ask.id \notin Ids(tabs)
                   /\ calls[d].seen \subseteq Ids(tabs)
          BY <1>s DEF Turns, Begins
        <5>2. /\ calls'[d].at = calls[d].at /\ calls'[d].ask = calls[d].ask
              /\ calls'[d].seen = calls[d].seen \ {i}
          BY <1>c, <4>2
        <5> QED
          BY <3>1, <5>1, <5>2
      <4> QED
        BY <4>1, <4>2
    <3>3. Ids(tabs)' = Ids(tabs')
      BY DEF Ids
    <3> QED
      BY <3>2, <3>3 DEF Begins
  <2>3. Passed'
    <3> SUFFICES ASSUME NEW d \in Calls, NEW q \in DOMAIN tabs',
                        calls'[d].at \in {"replace", "scan", "await"}, tabs'[q].id \in calls'[d].seen,
                        runs'[tabs'[q].run].conn = calls'[d].ask.conn, runs'[tabs'[q].run].state = "running"
                 PROVE  runs'[tabs'[q].run].stop
      BY DEF Passed
    <3>1. PICK p \in DOMAIN tabs : tabs'[q] = tabs[p]
      OBVIOUS
    <3>2. tabs[p].run \in DOMAIN runs
      BY <1>t
    <3>3. d # c
      BY <1>s, <1>c DEF Turns, Begins
    <3>4. /\ calls[d].at \in {"replace", "scan", "await"} /\ tabs[p].id \in calls[d].seen
          /\ runs[tabs[p].run].conn = calls[d].ask.conn /\ runs[tabs[p].run].state = "running"
      BY <1>c, <1>m, <3>1, <3>2, <3>3
    <3> QED
      BY <1>s, <1>m, <3>1, <3>2, <3>4 DEF Turns, Passed
  <2> QED
    BY <2>1, <2>2, <2>3 DEF Turns
<1>4. Kept'
  <2> SUFFICES ASSUME NEW q \in Queries', runs'[q].state = "running", ~runs'[q].stop
               PROVE  \E p \in DOMAIN tabs' : tabs'[p].run = q
    BY DEF Kept, Working
  <2>1. q \in Queries /\ q \in DOMAIN runs /\ q # r
    BY <1>o, <1>l DEF Queries
  <2>2. PICK p \in DOMAIN tabs : tabs[p].run = q
    BY <1>s, <1>m, <2>1 DEF Kept, Working
  <2> QED
    BY <2>1, <2>2
<1>5. NoOrphan'
  <2> SUFFICES ASSUME NEW q \in Queries', ~runs'[q].disposed, ~\E p \in DOMAIN tabs' : tabs'[p].run = q
               PROVE  \E d \in Calls : calls'[d].target = q /\ calls'[d].at \in {"replace", "dispose"}
    BY DEF NoOrphan
  <2>1. q \in Queries /\ q \in DOMAIN runs /\ ~runs[q].disposed
    BY <1>o, <1>l DEF Queries
  <2>2. CASE q = r
    BY <1>c, <2>2
  <2>3. CASE q # r
    <3>1. PICK d \in Calls : calls[d].target = q /\ calls[d].at \in {"replace", "dispose"}
      BY <1>s, <2>1, <2>3 DEF NoOrphan
    <3>2. d # c
      BY <3>1
    <3> QED
      BY <1>c, <3>1, <3>2
  <2> QED
    BY <2>2, <2>3
<1> QED
  BY <1>1, <1>3, <1>4, <1>5, <1>o DEF Inv, FilesGo

\* What is known of a tab is closed: Replace, Close and DropNext.
LEMMA ClosesTab ==
    ASSUME Inv, NEW c \in Calls, NEW i \in Ids(tabs), NEW then \in {"replace", "dispose"},
           CloseTab(c, tabs, i, then), tabs' = Without(tabs, i), UNCHANGED <<scripts, asks>>,
           calls[c].at \in {"acquire", "drop"},
           then = "replace" => calls[c].at = "acquire" /\ calls[c].ask.op = "query" /\ calls[c].ask.id = i
    PROVE  Inv'
<1>1. tabs \in Seq(Entries) /\ Distinct
  BY DEF Inv, Shape
<1> DEFINE r == RunOf(tabs, i)
<1>2. r \in DOMAIN runs
  BY Placed DEF Inv, Shape, RunOf
<1>3. /\ tabs' \in Seq(Entries)
      /\ \A q \in DOMAIN tabs' : \E p \in DOMAIN tabs : tabs'[q] = tabs[p] /\ tabs[p].id # i
      /\ \A p \in DOMAIN tabs : tabs[p].id # i => \E q \in DOMAIN tabs' : tabs'[q] = tabs[p]
      /\ \A p, q \in DOMAIN tabs' : tabs'[p].id = tabs'[q].id => p = q
      /\ Ids(tabs') = Ids(tabs) \ {i}
      /\ \A p \in DOMAIN tabs : tabs[p].id = i => tabs[p].run = r
  BY <1>1, DeletedOnce
<1>4. StopRun(r) /\ WaitsFor(c, i, r, then)
  BY DEF CloseTab, WaitsFor
<1> HIDE DEF r
<1>5. Distinct'
  BY <1>3 DEF Distinct
<1>6. scripts' \in Seq(Entries) /\ \A p \in DOMAIN scripts' : scripts'[p].run \in DOMAIN runs
  BY DEF Inv, Shape
<1>7. \A p \in DOMAIN tabs : tabs[p].run # r => \E q \in DOMAIN tabs' : tabs'[q] = tabs[p]
  BY <1>3
<1> QED
  BY <1>2, <1>3, <1>4, <1>5, <1>6, <1>7, Closes

\* A script is closed.
LEMMA ClosesScript ==
    ASSUME Inv, NEW c \in Calls, NEW i \in Ids(scripts), CloseTab(c, scripts, i, "dispose"),
           scripts' = Without(scripts, i), UNCHANGED <<tabs, asks>>, calls[c].at = "acquire"
    PROVE  Inv'
<1>1. scripts \in Seq(Entries)
  BY DEF Inv, Shape
<1> DEFINE r == RunOf(scripts, i)
           k == PlaceOf(scripts, i)
<1>2. r \in DOMAIN runs
  BY Placed DEF Inv, Shape, RunOf
<1>3. /\ k \in 1..Len(scripts) /\ scripts[k].id = i /\ Len(scripts) \in Nat /\ DOMAIN scripts = 1..Len(scripts)
      /\ scripts' \in Seq(Entries) /\ Len(scripts') = Len(scripts) - 1 /\ DOMAIN scripts' = 1..(Len(scripts) - 1)
      /\ \A q \in 1..(Len(scripts) - 1) : scripts'[q] = IF q < k THEN scripts[q] ELSE scripts[q + 1]
  BY <1>1, Deleted
<1>4. StopRun(r) /\ WaitsFor(c, i, r, "dispose")
  BY DEF CloseTab, WaitsFor
<1> HIDE DEF r, k
<1>5. \A p \in DOMAIN scripts' : \E q \in DOMAIN scripts : scripts'[p] = scripts[q]
  BY <1>3
<1>6. \A p \in DOMAIN scripts' : scripts'[p].run \in DOMAIN runs
  BY <1>5 DEF Inv, Shape
<1>7. Distinct' /\ tabs' \in Seq(Entries) /\ tabs' = tabs
  BY DEF Inv, Shape, Distinct
<1> QED
  BY <1>2, <1>3, <1>4, <1>6, <1>7, Closes

\* Nothing happens to the runs.
LEMMA SameLater ==
    ASSUME runs \in Seq(Runs), UNCHANGED runs
    PROVE  /\ Later /\ DOMAIN runs' = DOMAIN runs
           /\ \A r \in DOMAIN runs : runs'[r].disposed => runs[r].disposed \/ runs[r].finished
  BY DEF Later, Runs

\* A request is answered.
LEMMA Returns ==
    ASSUME Inv, Later, DOMAIN runs' = DOMAIN runs, UNCHANGED <<tabs, scripts, asks>>,
           \A r \in DOMAIN runs : runs'[r].disposed => runs[r].disposed \/ runs[r].finished,
           NEW c \in Calls, Return(c),
           calls[c].at \in {"replace", "dispose"} => runs'[calls[c].target].disposed
    PROVE  Inv'
<1>1. IsCall(idle) /\ idle.at = "idle" /\ idle.ask.op = "none"
  BY DEF IsCall, idle
<1>2. calls' = [calls EXCEPT ![c] = idle]
  BY DEF Return
<1> HIDE DEF idle
<1>3. \A d \in Calls \ {c} :
        {idle.ask.op, calls[d].ask.op} \cap {"none", "drop"} = {} => idle.ask.id # calls[d].ask.id
  BY <1>1
<1>4. /\ idle.at # "idle" => idle.ask \in AllAsks
      /\ idle.at \in {"replace", "dispose"} => idle.target \in DOMAIN runs
      /\ idle.at \in {"acquire", "replace"} => idle.seen = {}
      /\ idle.at = "open" => idle.ask.op = "script"
  BY <1>1
<1>5. idle.at \notin {"replace", "scan", "await"}
  BY <1>1
<1> QED
  BY <1>1, <1>2, <1>3, <1>4, <1>5, Moves

\* A request is made.
LEMMA AskKeeps ==
    ASSUME Inv, NEW c \in Calls, NEW ask \in asks, Ask(c, ask), UNCHANGED asks
    PROVE  Inv'
<1>r. runs \in Seq(Runs)
  BY DEF Inv, Shape
<1>l. /\ Later /\ DOMAIN runs' = DOMAIN runs
      /\ \A r \in DOMAIN runs : runs'[r].disposed => runs[r].disposed \/ runs[r].finished
  BY <1>r, SameLater DEF Ask
<1> DEFINE k == [at |-> "acquire", ask |-> ask, seen |-> {}, target |-> 0, todo |-> <<>>]
<1>1. calls' = [calls EXCEPT ![c] = k] /\ UNCHANGED <<tabs, scripts>> /\ calls[c].at = "idle"
  <2> DEFINE j == [idle EXCEPT !.at = "acquire"]
             q == [j EXCEPT !.ask = ask]
  <2>1. IsCall(idle) /\ idle.seen = {} /\ idle.target = 0 /\ idle.todo = <<>>
    BY DEF idle, IsCall
  <2>2. calls' = [calls EXCEPT ![c] = q] /\ UNCHANGED <<tabs, scripts>> /\ calls[c].at = "idle"
    BY DEF Ask
  <2>3. j = [at |-> "acquire", ask |-> idle.ask, seen |-> idle.seen, target |-> idle.target, todo |-> idle.todo]
    BY <2>1, AtChanged, Zenon
  <2> HIDE DEF j
  <2>4. IsCall(j) /\ j.at = "acquire" /\ j.seen = {} /\ j.target = 0 /\ j.todo = <<>>
    BY <2>1, <2>3 DEF IsCall
  <2>5. q = [at |-> j.at, ask |-> ask, seen |-> j.seen, target |-> j.target, todo |-> j.todo]
    BY <2>4, AskChanged, Zenon
  <2>6. q = k
    BY <2>4, <2>5, Zenon
  <2> HIDE DEF k, q
  <2> QED
    BY <2>2, <2>6
<1>2. IsCall(k) /\ k.at = "acquire" /\ k.ask = ask /\ k.seen = {}
  BY DEF IsCall
<1> HIDE DEF k
<1>3. ask \in AllAsks
  BY DEF Inv, Shape
<1>4. \A d \in Calls \ {c} :
        {k.ask.op, calls[d].ask.op} \cap {"none", "drop"} = {} => k.ask.id # calls[d].ask.id
  BY <1>2 DEF Ask
<1>5. /\ k.at # "idle" => k.ask \in AllAsks
      /\ k.at \in {"replace", "dispose"} => k.target \in DOMAIN runs
      /\ k.at \in {"acquire", "replace"} => k.seen = {}
      /\ k.at = "open" => k.ask.op = "script"
  BY <1>2, <1>3
<1>6. k.at \notin {"replace", "scan", "await"} /\ calls[c].at \notin {"replace", "dispose"}
  BY <1>1, <1>2
<1> QED
  BY <1>l, <1>1, <1>2, <1>4, <1>5, <1>6, Moves

\* A run does a step of its own.
LEMMA RunKeeps ==
    ASSUME Inv, NEW r \in DOMAIN runs, RunSteps(r), UNCHANGED asks
    PROVE  Inv'
<1>s. Shape /\ Distinct /\ Turns /\ Kept /\ OneStatement /\ NoOrphan /\ DisposedIsFinished
  BY DEF Inv, FilesGo
<1>r. runs \in Seq(Runs)
  BY <1>s DEF Shape
<1>l. /\ Later /\ DOMAIN runs' = DOMAIN runs /\ UNCHANGED <<tabs, scripts, calls>>
      /\ \A q \in DOMAIN runs : runs'[q].disposed = runs[q].disposed
  BY <1>r, StepsLater
<1>o. OneStatement' /\ DisposedIsFinished' /\ Queries' = Queries
  BY <1>s, <1>l, OldRuns
<1>m. \A q \in DOMAIN runs : /\ runs'[q].state = "running" => runs[q].state = "running"
                             /\ runs'[q].conn = runs[q].conn
                             /\ runs[q].stop => runs'[q].stop
  BY <1>l DEF Later
<1>1. Shape'
  BY <1>s, <1>l DEF Shape, Later
<1>2. Distinct' /\ Alone' /\ Begins'
  BY <1>s, <1>l DEF Distinct, Turns, Alone, Begins, Ids
<1>3. Passed'
  <2> SUFFICES ASSUME NEW d \in Calls, NEW q \in DOMAIN tabs,
                      calls[d].at \in {"replace", "scan", "await"}, tabs[q].id \in calls[d].seen,
                      runs'[tabs[q].run].conn = calls[d].ask.conn, runs'[tabs[q].run].state = "running"
               PROVE  runs'[tabs[q].run].stop
    BY <1>l DEF Passed
  <2>1. tabs[q].run \in DOMAIN runs
    BY <1>s DEF Shape
  <2> QED
    BY <1>s, <1>m, <2>1 DEF Turns, Passed
<1>4. Kept'
  <2> SUFFICES ASSUME NEW q \in Queries', runs'[q].state = "running", ~runs'[q].stop
               PROVE  \E p \in DOMAIN tabs : tabs[p].run = q
    BY <1>l DEF Kept, Working
  <2>1. q \in Queries /\ q \in DOMAIN runs
    BY <1>o DEF Queries
  <2> QED
    BY <1>s, <1>m, <2>1 DEF Kept, Working
<1>5. NoOrphan'
  <2> SUFFICES ASSUME NEW q \in Queries', ~runs'[q].disposed, ~\E p \in DOMAIN tabs : tabs[p].run = q
               PROVE  \E d \in Calls : calls[d].target = q /\ calls[d].at \in {"replace", "dispose"}
    BY <1>l DEF NoOrphan
  <2>1. q \in Queries /\ q \in DOMAIN runs /\ ~runs[q].disposed
    BY <1>o, <1>l DEF Queries
  <2> QED
    BY <1>s, <2>1 DEF NoOrphan
<1> QED
  BY <1>1, <1>2, <1>3, <1>4, <1>5, <1>o DEF Inv, Turns, FilesGo

\* The steps of a request that leave the Maps as they are.
LEMMA Goes ==
    ASSUME Inv, Later, DOMAIN runs' = DOMAIN runs, UNCHANGED <<tabs, scripts, asks>>,
           \A r \in DOMAIN runs : runs'[r].disposed => runs[r].disposed \/ runs[r].finished,
           NEW c \in Calls, NEW w \in {"scan", "open", "drop"}, At(c, w), calls[c].at # "idle",
           w = "open" => calls[c].ask.op = "script",
           w # "scan",
           calls[c].at \in {"replace", "dispose"} => runs'[calls[c].target].disposed
    PROVE  Inv'
<1> DEFINE k == [calls[c] EXCEPT !.at = w]
<1>1. calls' = [calls EXCEPT ![c] = k]
  BY DEF At
<1>2. IsCall(calls[c])
  BY DEF Inv, Shape
<1>3. k = [at |-> w, ask |-> calls[c].ask, seen |-> calls[c].seen, target |-> calls[c].target, todo |-> calls[c].todo]
  BY <1>2, AtChanged, Zenon
<1> HIDE DEF k
<1>4. IsCall(k) /\ k.at = w /\ k.ask = calls[c].ask
  BY <1>3 DEF IsCall
<1>5. calls[c].ask \in AllAsks
  BY DEF Inv, Shape
<1>6. /\ k.at # "idle" => k.ask \in AllAsks
      /\ k.at \in {"replace", "dispose"} => k.target \in DOMAIN runs
      /\ k.at \in {"acquire", "replace"} => k.seen = {}
      /\ k.at = "open" => k.ask.op = "script"
  BY <1>4, <1>5
<1>7. k.at \notin {"replace", "scan", "await"}
  BY <1>4
<1> QED
  BY <1>1, <1>4, <1>6, <1>7, Moves

\* The loop goes on: Replaced and Awaited.
LEMMA Resumes ==
    ASSUME Inv, Later, DOMAIN runs' = DOMAIN runs, UNCHANGED <<tabs, scripts, asks>>,
           \A r \in DOMAIN runs : runs'[r].disposed => runs[r].disposed \/ runs[r].finished,
           NEW c \in Calls, calls[c].at \in {"replace", "await"},
           calls' = [calls EXCEPT ![c].at = "scan", ![c].target = 0],
           calls[c].at = "replace" => runs'[calls[c].target].disposed
    PROVE  Inv'
<1> DEFINE j == [calls[c] EXCEPT !.at = "scan"]
           k == [j EXCEPT !.target = 0]
<1>1. calls' = [calls EXCEPT ![c] = k]
  BY DEF Inv, Shape
<1>2. IsCall(calls[c])
  BY DEF Inv, Shape
<1>3. j = [at |-> "scan", ask |-> calls[c].ask, seen |-> calls[c].seen, target |-> calls[c].target, todo |-> calls[c].todo]
  BY <1>2, AtChanged, Zenon
<1> HIDE DEF j
<1>4. IsCall(j) /\ j.at = "scan" /\ j.ask = calls[c].ask /\ j.seen = calls[c].seen
  BY <1>3 DEF IsCall
<1>5. k = [at |-> j.at, ask |-> j.ask, seen |-> j.seen, target |-> 0, todo |-> j.todo]
  BY <1>4, TargetChanged, Zenon
<1> HIDE DEF k
<1>6. IsCall(k) /\ k.at = "scan" /\ k.ask = calls[c].ask /\ k.seen = calls[c].seen
  BY <1>4, <1>5 DEF IsCall
<1>7. calls[c].ask \in AllAsks
  BY DEF Inv, Shape
<1>8. /\ k.at # "idle" => k.ask \in AllAsks
      /\ k.at \in {"replace", "dispose"} => k.target \in DOMAIN runs
      /\ k.at \in {"acquire", "replace"} => k.seen = {}
      /\ k.at = "open" => k.ask.op = "script"
      /\ k.at \in {"replace", "dispose"} => k.target \in DOMAIN runs
  BY <1>6, <1>7
<1>9. k.ask.op = "query" /\ k.ask.id \notin Ids(tabs) /\ k.seen \subseteq Ids(tabs)
  BY <1>6 DEF Inv, Turns, Begins
<1>10. ASSUME NEW p \in DOMAIN tabs, tabs[p].id \in k.seen, runs[tabs[p].run].conn = k.ask.conn, Working(tabs[p].run)
       PROVE  runs'[tabs[p].run].stop
  <2>1. tabs[p].run \in DOMAIN runs
    BY DEF Inv, Shape
  <2>2. runs[tabs[p].run].stop
    BY <1>6, <1>10 DEF Inv, Turns, Passed, Working
  <2> QED
    BY <2>1, <2>2 DEF Later
<1> QED
  BY <1>1, <1>6, <1>8, <1>9, <1>10, Moves

\* The loop comes to a paused run, stops it and waits.
LEMMA Stops ==
    ASSUME Inv, NEW c \in Calls, UNCHANGED <<tabs, scripts, asks>>,
           \/ calls[c].at = "scan"
           \/ calls[c].at = "acquire" /\ calls[c].ask.op = "query" /\ calls[c].ask.id \notin Ids(tabs),
           NEW p \in Rivals(c), \A q \in Rivals(c) : p <= q, StopAndAwait(c, p)
    PROVE  Inv'
<1>s. Shape /\ Distinct /\ Turns
  BY DEF Inv
<1>p. p \in DOMAIN tabs /\ tabs[p].run \in DOMAIN runs /\ p \in Nat /\ DOMAIN tabs = 1..Len(tabs) /\ Len(tabs) \in Nat
  BY <1>s DEF Rivals, Shape
<1>r. runs \in Seq(Runs)
  BY <1>s DEF Shape
<1>l. /\ Later /\ DOMAIN runs' = DOMAIN runs
      /\ runs'[tabs[p].run].state = runs[tabs[p].run].state
      /\ runs'[tabs[p].run].state = "running" => runs'[tabs[p].run].stop
      /\ \A q \in DOMAIN runs : runs'[q].disposed = runs[q].disposed
  BY <1>r, <1>p, StoppedLater DEF StopAndAwait
<1> DEFINE ids == {tabs[q].id : q \in 1..p}
           i == [calls[c] EXCEPT !.at = "await"]
           j == [i EXCEPT !.target = tabs[p].run]
           k == [j EXCEPT !.seen = calls[c].seen \cup ids]
<1>1. calls' = [calls EXCEPT ![c] = k]
  BY <1>s DEF Shape, StopAndAwait
<1>2. IsCall(calls[c])
  BY <1>s DEF Shape
<1>3. i = [at |-> "await", ask |-> calls[c].ask, seen |-> calls[c].seen, target |-> calls[c].target, todo |-> calls[c].todo]
  BY <1>2, AtChanged, Zenon
<1> HIDE DEF i
<1>4. IsCall(i) /\ i.at = "await" /\ i.ask = calls[c].ask
  BY <1>3 DEF IsCall
<1>5. j = [at |-> i.at, ask |-> i.ask, seen |-> i.seen, target |-> tabs[p].run, todo |-> i.todo]
  BY <1>4, TargetChanged, Zenon
<1> HIDE DEF j
<1>6. IsCall(j) /\ j.at = "await" /\ j.ask = calls[c].ask
  BY <1>4, <1>5 DEF IsCall
<1>7. k = [at |-> j.at, ask |-> j.ask, seen |-> calls[c].seen \cup ids, target |-> j.target, todo |-> j.todo]
  BY <1>6, SeenChanged, Zenon
<1> HIDE DEF k
<1>8. IsCall(k) /\ k.at = "await" /\ k.ask = calls[c].ask /\ k.seen = calls[c].seen \cup ids
  BY <1>6, <1>7 DEF IsCall
<1>9. calls[c].ask \in AllAsks
  BY <1>s DEF Shape
<1>10. /\ k.at # "idle" => k.ask \in AllAsks
       /\ k.at \in {"replace", "dispose"} => k.target \in DOMAIN runs
       /\ k.at \in {"acquire", "replace"} => k.seen = {}
       /\ k.at = "open" => k.ask.op = "script"
       /\ calls[c].at \notin {"replace", "dispose"}
  BY <1>8, <1>9
<1>11. ids \subseteq Ids(tabs)
  BY <1>p DEF Ids
<1>12. /\ calls[c].ask.op = "query" /\ calls[c].ask.id \notin Ids(tabs) /\ calls[c].seen \subseteq Ids(tabs)
       /\ calls[c].at = "acquire" => calls[c].seen = {}
  BY <1>s DEF Turns, Begins
<1>13. k.ask.op = "query" /\ k.ask.id \notin Ids(tabs) /\ k.seen \subseteq Ids(tabs)
  BY <1>8, <1>11, <1>12
<1>14. ASSUME NEW q \in DOMAIN tabs, tabs[q].id \in k.seen, runs[tabs[q].run].conn = k.ask.conn, Working(tabs[q].run)
       PROVE  runs'[tabs[q].run].stop
  <2>1. tabs[q].run \in DOMAIN runs
    BY <1>s DEF Shape
  <2>2. CASE tabs[q].id \in calls[c].seen
    <3>1. runs[tabs[q].run].stop
      BY <1>s, <1>8, <1>12, <1>14, <2>2 DEF Turns, Passed, Working
    <3> QED
      BY <1>l, <2>1, <3>1 DEF Later
  <2>3. CASE tabs[q].id \notin calls[c].seen
    <3>1. q \in 1..p
      <4>1. PICK x \in 1..p : tabs[x].id = tabs[q].id
        BY <1>8, <1>14, <2>3
      <4> QED
        BY <1>s, <1>p, <4>1 DEF Distinct
    <3>2. q \in Rivals(c)
      BY <1>8, <1>14, <2>3 DEF Rivals
    <3>3. q = p
      BY <1>p, <3>1, <3>2
    <3>4. runs'[tabs[p].run].stop
      <4>1. runs[tabs[p].run].state = "running"
        BY <1>14, <3>3 DEF Working
      <4> QED
        BY <4>1, <1>l
    <3> QED
      BY <3>3, <3>4
  <2> QED
    BY <2>2, <2>3
<1>15. \A r \in DOMAIN runs : runs'[r].disposed => runs[r].disposed \/ runs[r].finished
  BY <1>l
<1> HIDE DEF ids
<1> QED
  BY <1>l, <1>1, <1>8, <1>10, <1>13, <1>14, <1>15, Moves

\* The loop has found nothing in the way: the statement is started.
LEMMA Starts ==
    ASSUME Inv, NEW c \in Calls, UNCHANGED <<scripts, asks>>,
           \/ calls[c].at = "scan"
           \/ calls[c].at = "acquire" /\ calls[c].ask.op = "query" /\ calls[c].ask.id \notin Ids(tabs),
           Rivals(c) = {}, runs' = Append(runs, NewRun(calls[c].ask)),
           tabs' = With(tabs, calls[c].ask.id, Len(runs) + 1), Return(c)
    PROVE  Inv'
<1>s. Shape /\ Distinct /\ Turns /\ Kept /\ OneStatement /\ NoOrphan /\ DisposedIsFinished
  BY DEF Inv, FilesGo
<1>a. /\ calls[c].ask.op = "query" /\ calls[c].ask.id \notin Ids(tabs) /\ calls[c].seen \subseteq Ids(tabs)
      /\ calls[c].at = "acquire" => calls[c].seen = {}
      /\ calls[c].ask \in AllAsks /\ calls[c].ask.id \in Tabs /\ calls[c].ask.conn \in Conns
  BY <1>s DEF Shape, Turns, Begins, AllAsks
<1> DEFINE new == NewRun(calls[c].ask)
           n == Len(runs) + 1
<1>r. runs \in Seq(Runs) /\ tabs \in Seq(Entries)
  BY <1>s DEF Shape
<1>n. /\ new \in Runs /\ new.conn = calls[c].ask.conn /\ new.kind = "query" /\ ~new.disposed
  BY <1>a DEF NewRun, Runs
<1> HIDE DEF new
<1>l. /\ Later /\ n \in DOMAIN runs' /\ runs'[n] = new /\ n \in Nat
      /\ DOMAIN runs' = DOMAIN runs \cup {n} /\ n \notin DOMAIN runs
      /\ \A q \in DOMAIN runs : runs'[q] = runs[q]
  BY <1>r, <1>n, BegunLater DEF new
<1> HIDE DEF n
<1> DEFINE e == [id |-> calls[c].ask.id, run |-> n]
           z == Len(tabs) + 1
<1>e. /\ tabs' \in Seq(Entries) /\ z \in DOMAIN tabs' /\ tabs'[z] = e
      /\ DOMAIN tabs' = DOMAIN tabs \cup {z} /\ z \notin DOMAIN tabs
      /\ \A q \in DOMAIN tabs : tabs'[q] = tabs[q]
  <2>1. tabs' = Append(tabs, e)
    BY <1>a DEF With, n
  <2>2. e \in Entries
    BY <1>a, <1>l DEF Entries
  <2> HIDE DEF e
  <2> QED
    <3>1. /\ Append(tabs, e) \in Seq(Entries) /\ z \in DOMAIN Append(tabs, e) /\ Append(tabs, e)[z] = e
          /\ DOMAIN Append(tabs, e) = DOMAIN tabs \cup {z} /\ z \notin DOMAIN tabs
          /\ \A q \in DOMAIN tabs : Append(tabs, e)[q] = tabs[q]
      BY <1>r, <2>2
    <3> QED
      BY <2>1, <3>1, Zenon
<1>f. e.id = calls[c].ask.id /\ e.run = n
  OBVIOUS
<1> HIDE DEF e, z
<1>c. calls'[c] = idle /\ \A d \in Calls : d # c => calls'[d] = calls[d]
  BY <1>s DEF Shape, Return
<1>i. IsCall(idle) /\ idle.at = "idle" /\ idle.ask.op = "none"
  BY DEF IsCall, idle
<1>t. \A p \in DOMAIN tabs : tabs[p].run \in DOMAIN runs
  BY <1>s DEF Shape
<1>d. Ids(tabs') = Ids(tabs) \cup {calls[c].ask.id}
  BY <1>e, <1>f DEF Ids
<1> HIDE DEF idle
<1>1. Shape'
  <2>1. calls' = [d \in Calls |-> calls'[d]]
    BY <1>s DEF Shape, Return
  <2>2. \A d \in Calls : IsCall(calls'[d])
    BY <1>s, <1>c, <1>i DEF Shape
  <2>3. \A q \in DOMAIN tabs' : tabs'[q].run \in DOMAIN runs'
    BY <1>t, <1>l, <1>e, <1>f
  <2>4. \A q \in DOMAIN scripts' : scripts'[q].run \in DOMAIN runs'
    BY <1>s, <1>l DEF Shape
  <2>5. /\ \A d \in Calls : calls'[d].at # "idle" => calls'[d].ask \in AllAsks
        /\ \A d \in Calls : calls'[d].at \in {"replace", "dispose"} => calls'[d].target \in DOMAIN runs'
    BY <1>s, <1>c, <1>i, <1>l DEF Shape
  <2>6. asks' \subseteq AllAsks /\ runs' \in Seq(Runs) /\ scripts' \in Seq(Entries)
    BY <1>s, <1>l DEF Shape, Later
  <2> QED
    BY <1>e, <2>1, <2>2, <2>3, <2>4, <2>5, <2>6 DEF Shape
<1>2. Distinct'
  <2> SUFFICES ASSUME NEW p \in DOMAIN tabs', NEW q \in DOMAIN tabs', tabs'[p].id = tabs'[q].id PROVE p = q
    BY DEF Distinct
  <2>1. \A x \in DOMAIN tabs : tabs[x].id # calls[c].ask.id
    BY <1>a DEF Ids
  <2> QED
    BY <1>s, <1>e, <1>f, <2>1 DEF Distinct
<1>3. Turns'
  <2>1. Alone'
    <3> SUFFICES ASSUME NEW x \in Calls, NEW y \in Calls, calls'[x].ask.id = calls'[y].ask.id,
                        {calls'[x].ask.op, calls'[y].ask.op} \cap {"none", "drop"} = {}
                 PROVE  x = y
      BY DEF Alone
    <3>1. x # c /\ y # c
      BY <1>c, <1>i
    <3> QED
      BY <1>s, <1>c, <3>1 DEF Turns, Alone
  <2>2. Begins'
    <3>1. ASSUME NEW d \in Calls
          PROVE  /\ calls'[d].at \in {"acquire", "replace"} => calls'[d].seen = {}
                 /\ calls'[d].at = "open" => calls'[d].ask.op = "script"
                 /\ calls'[d].at \in {"replace", "scan", "await"} =>
                      /\ calls'[d].ask.op = "query" /\ calls'[d].ask.id \notin Ids(tabs')
                      /\ calls'[d].seen \subseteq Ids(tabs')
      <4>1. CASE d = c
        BY <1>c, <1>i, <4>1
      <4>2. CASE d # c
        <5>1. calls[d].ask.op = "query" => calls[d].ask.id # calls[c].ask.id
          BY <1>s, <1>a, <4>2 DEF Turns, Alone
        <5> QED
          BY <1>s, <1>c, <1>d, <4>2, <5>1 DEF Turns, Begins
      <4> QED
        BY <4>1, <4>2
    <3>2. Ids(tabs)' = Ids(tabs')
      BY DEF Ids
    <3> QED
      BY <3>1, <3>2 DEF Begins
  <2>3. Passed'
    <3> SUFFICES ASSUME NEW d \in Calls, NEW q \in DOMAIN tabs',
                        calls'[d].at \in {"replace", "scan", "await"}, tabs'[q].id \in calls'[d].seen,
                        runs'[tabs'[q].run].conn = calls'[d].ask.conn, runs'[tabs'[q].run].state = "running"
                 PROVE  runs'[tabs'[q].run].stop
      BY DEF Passed
    <3>1. d # c
      BY <1>c, <1>i
    <3>2. q \in DOMAIN tabs
      <4>1. calls[d].seen \subseteq Ids(tabs)
        BY <1>s, <1>c, <3>1 DEF Turns, Begins
      <4> QED
        BY <1>a, <1>c, <1>e, <1>f, <3>1, <4>1
    <3>3. tabs[q].run \in DOMAIN runs
      BY <1>t, <3>2
    <3> QED
      BY <1>s, <1>c, <1>e, <1>l, <3>1, <3>2, <3>3 DEF Turns, Passed
  <2> QED
    BY <2>1, <2>2, <2>3 DEF Turns
<1>q. \A q \in DOMAIN runs' : q \in Queries' => q = n \/ q \in Queries
  BY <1>l DEF Queries
<1>4. Kept'
  <2> SUFFICES ASSUME NEW q \in Queries', runs'[q].state = "running", ~runs'[q].stop
               PROVE  \E p \in DOMAIN tabs' : tabs'[p].run = q
    BY DEF Kept, Working
  <2>1. CASE q = n
    BY <1>e, <1>f, <2>1
  <2>2. CASE q # n
    <3>1. q \in Queries /\ q \in DOMAIN runs
      BY <1>q, <2>2 DEF Queries
    <3>2. PICK p \in DOMAIN tabs : tabs[p].run = q
      BY <1>s, <1>l, <3>1 DEF Kept, Working
    <3> QED
      BY <1>e, <3>2
  <2> QED
    BY <2>1, <2>2
<1>5. \A q \in Queries : runs[q].state = "running" /\ runs[q].conn = calls[c].ask.conn => runs[q].stop
  <2> SUFFICES ASSUME NEW q \in Queries, runs[q].state = "running", runs[q].conn = calls[c].ask.conn, ~runs[q].stop
               PROVE  FALSE
    OBVIOUS
  <2>1. PICK p \in DOMAIN tabs : tabs[p].run = q
    BY <1>s DEF Kept, Working
  <2>2. tabs[p].id \in calls[c].seen
    BY <2>1 DEF Rivals, Working
  <2>3. calls[c].at = "scan"
    BY <1>a, <2>2
  <2> QED
    BY <1>s, <2>1, <2>2, <2>3 DEF Turns, Passed
<1>6. OneStatement'
  <2> SUFFICES ASSUME NEW x \in Queries', NEW y \in Queries', x # y,
                      runs'[x].state = "running", runs'[y].state = "running", runs'[x].conn = runs'[y].conn
               PROVE  runs'[x].stop \/ runs'[y].stop
    BY DEF OneStatement, Working
  <2>1. x \in DOMAIN runs' /\ y \in DOMAIN runs'
    BY DEF Queries
  <2>2. CASE x = n
    BY <1>5, <1>l, <1>n, <1>q, <2>1, <2>2 DEF Queries
  <2>3. CASE y = n
    BY <1>5, <1>l, <1>n, <1>q, <2>1, <2>3 DEF Queries
  <2>4. CASE x # n /\ y # n
    <3>1. x \in Queries /\ y \in Queries /\ x \in DOMAIN runs /\ y \in DOMAIN runs
      BY <1>q, <2>1, <2>4 DEF Queries
    <3> QED
      BY <1>s, <1>l, <3>1 DEF OneStatement, Working
  <2> QED
    BY <2>2, <2>3, <2>4
<1>7. DisposedIsFinished'
  BY <1>s, <1>l, <1>n DEF DisposedIsFinished
<1>8. NoOrphan'
  <2> SUFFICES ASSUME NEW q \in Queries', ~runs'[q].disposed, ~\E p \in DOMAIN tabs' : tabs'[p].run = q
               PROVE  \E d \in Calls : calls'[d].target = q /\ calls'[d].at \in {"replace", "dispose"}
    BY DEF NoOrphan
  <2>1. q # n
    BY <1>e, <1>f
  <2>2. q \in Queries /\ q \in DOMAIN runs /\ ~runs[q].disposed
    BY <1>q, <1>l, <2>1 DEF Queries
  <2>3. ~\E p \in DOMAIN tabs : tabs[p].run = q
    BY <1>e
  <2>4. PICK d \in Calls : calls[d].target = q /\ calls[d].at \in {"replace", "dispose"}
    BY <1>s, <2>2, <2>3 DEF NoOrphan
  <2> QED
    BY <1>c, <2>4
<1> QED
  BY <1>1, <1>2, <1>3, <1>4, <1>6, <1>7, <1>8 DEF Inv, FilesGo

\* A script is started beside the statements.
LEMMA Opens ==
    ASSUME Inv, NEW c \in Calls, ScriptOpened(c), UNCHANGED asks
    PROVE  Inv'
<1>s. Shape /\ Distinct /\ Turns /\ Kept /\ OneStatement /\ NoOrphan /\ DisposedIsFinished
  BY DEF Inv, FilesGo
<1>a. calls[c].at = "open" /\ tabs' = tabs /\ Return(c)
  BY DEF ScriptOpened
<1>b. calls[c].ask \in AllAsks /\ calls[c].ask.op = "script" /\ calls[c].ask.id \in Tabs /\ calls[c].ask.conn \in Conns
  BY <1>s, <1>a DEF Shape, Turns, Begins, AllAsks
<1> DEFINE new == NewRun(calls[c].ask)
           n == Len(runs) + 1
           i == calls[c].ask.id
<1>r. runs \in Seq(Runs) /\ runs' = Append(runs, new) /\ scripts' = With(scripts, i, n)
  BY <1>s DEF Shape, ScriptOpened
<1>n. new \in Runs /\ new.kind = "script" /\ ~new.disposed
  BY <1>b DEF NewRun, Runs
<1> HIDE DEF new
<1>l. /\ Later /\ n \in DOMAIN runs' /\ runs'[n] = new /\ n \in Nat
      /\ DOMAIN runs' = DOMAIN runs \cup {n} /\ n \notin DOMAIN runs
      /\ \A q \in DOMAIN runs : runs'[q] = runs[q]
  BY <1>r, <1>n, BegunLater
<1> HIDE DEF n
<1>c. calls'[c] = idle /\ \A d \in Calls : d # c => calls'[d] = calls[d]
  BY <1>s, <1>a DEF Shape, Return
<1>i. IsCall(idle) /\ idle.at = "idle" /\ idle.ask.op = "none"
  BY DEF IsCall, idle
<1> HIDE DEF idle
<1>q. Queries' = Queries
  BY <1>l, <1>n DEF Queries
<1>t. \A p \in DOMAIN tabs : tabs[p].run \in DOMAIN runs
  BY <1>s DEF Shape
<1>e. scripts' \in Seq(Entries) /\ \A p \in DOMAIN scripts' : scripts'[p].run \in DOMAIN runs'
  <2> DEFINE e == [id |-> i, run |-> n]
  <2>1. e \in Entries /\ e.run = n
    BY <1>b, <1>l DEF Entries
  <2>2. scripts \in Seq(Entries) /\ \A p \in DOMAIN scripts : scripts[p].run \in DOMAIN runs
    BY <1>s DEF Shape
  <2>3. CASE i \in Ids(scripts)
    <3>1. scripts' = [p \in DOMAIN scripts |-> IF scripts[p].id = i THEN e ELSE scripts[p]]
      BY <1>r, <2>3 DEF With
    <3> HIDE DEF e, i
    <3>2. scripts' \in Seq(Entries) /\ DOMAIN scripts' = DOMAIN scripts
      BY <2>1, <2>2, <3>1
    <3> QED
      BY <1>l, <2>1, <2>2, <3>1, <3>2
  <2>4. CASE i \notin Ids(scripts)
    <3>1. scripts' = Append(scripts, e)
      BY <1>r, <2>4 DEF With
    <3> HIDE DEF e, i
    <3>2. /\ scripts' \in Seq(Entries) /\ DOMAIN scripts' = DOMAIN scripts \cup {Len(scripts) + 1}
          /\ scripts'[Len(scripts) + 1] = e /\ \A q \in DOMAIN scripts : scripts'[q] = scripts[q]
      BY <2>1, <2>2, <3>1
    <3> QED
      BY <1>l, <2>1, <2>2, <3>2
  <2> QED
    BY <2>3, <2>4
<1>1. Shape'
  <2>1. calls' = [d \in Calls |-> calls'[d]]
    BY <1>s, <1>a DEF Shape, Return
  <2>2. \A d \in Calls : IsCall(calls'[d])
    BY <1>s, <1>c, <1>i DEF Shape
  <2>3. tabs' \in Seq(Entries) /\ \A q \in DOMAIN tabs' : tabs'[q].run \in DOMAIN runs'
    BY <1>s, <1>t, <1>l, <1>a DEF Shape
  <2>5. /\ \A d \in Calls : calls'[d].at # "idle" => calls'[d].ask \in AllAsks
        /\ \A d \in Calls : calls'[d].at \in {"replace", "dispose"} => calls'[d].target \in DOMAIN runs'
    BY <1>s, <1>c, <1>i, <1>l DEF Shape
  <2>6. asks' \subseteq AllAsks /\ runs' \in Seq(Runs)
    BY <1>s, <1>l DEF Shape, Later
  <2> QED
    BY <1>e, <2>1, <2>2, <2>3, <2>5, <2>6 DEF Shape
<1>2. Distinct'
  BY <1>s, <1>a DEF Distinct
<1>3. Turns'
  <2>1. Alone'
    <3> SUFFICES ASSUME NEW x \in Calls, NEW y \in Calls, calls'[x].ask.id = calls'[y].ask.id,
                        {calls'[x].ask.op, calls'[y].ask.op} \cap {"none", "drop"} = {}
                 PROVE  x = y
      BY DEF Alone
    <3>1. x # c /\ y # c
      BY <1>c, <1>i
    <3> QED
      BY <1>s, <1>c, <3>1 DEF Turns, Alone
  <2>2. Begins'
    <3>1. ASSUME NEW d \in Calls
          PROVE  /\ calls'[d].at \in {"acquire", "replace"} => calls'[d].seen = {}
                 /\ calls'[d].at = "open" => calls'[d].ask.op = "script"
                 /\ calls'[d].at \in {"replace", "scan", "await"} =>
                      /\ calls'[d].ask.op = "query" /\ calls'[d].ask.id \notin Ids(tabs)
                      /\ calls'[d].seen \subseteq Ids(tabs)
      <4>1. CASE d = c
        BY <1>c, <1>i, <4>1
      <4>2. CASE d # c
        BY <1>s, <1>c, <4>2 DEF Turns, Begins
      <4> QED
        BY <4>1, <4>2
    <3>2. Ids(tabs)' = Ids(tabs)
      BY <1>a DEF Ids
    <3> QED
      BY <3>1, <3>2 DEF Begins
  <2>3. Passed'
    <3> SUFFICES ASSUME NEW d \in Calls, NEW q \in DOMAIN tabs,
                        calls'[d].at \in {"replace", "scan", "await"}, tabs[q].id \in calls'[d].seen,
                        runs'[tabs[q].run].conn = calls'[d].ask.conn, runs'[tabs[q].run].state = "running"
                 PROVE  runs'[tabs[q].run].stop
      BY <1>a DEF Passed
    <3>1. d # c
      BY <1>c, <1>i
    <3>2. tabs[q].run \in DOMAIN runs
      BY <1>t
    <3> QED
      BY <1>s, <1>c, <1>l, <3>1, <3>2 DEF Turns, Passed
  <2> QED
    BY <2>1, <2>2, <2>3 DEF Turns
<1>m. \A q \in Queries : q \in DOMAIN runs
  BY DEF Queries
<1>4. Kept'
  BY <1>s, <1>a, <1>l, <1>m, <1>q DEF Kept, Working
<1>6. OneStatement'
  BY <1>s, <1>l, <1>m, <1>q DEF OneStatement, Working
<1>7. DisposedIsFinished'
  BY <1>s, <1>l, <1>n DEF DisposedIsFinished
<1>8. NoOrphan'
  <2> SUFFICES ASSUME NEW q \in Queries, ~runs[q].disposed, ~\E p \in DOMAIN tabs : tabs[p].run = q
               PROVE  \E d \in Calls : calls'[d].target = q /\ calls'[d].at \in {"replace", "dispose"}
    BY <1>a, <1>l, <1>m, <1>q DEF NoOrphan
  <2>1. PICK d \in Calls : calls[d].target = q /\ calls[d].at \in {"replace", "dispose"}
    BY <1>s DEF NoOrphan
  <2> QED
    BY <1>a, <1>c, <2>1
<1> QED
  BY <1>1, <1>2, <1>3, <1>4, <1>6, <1>7, <1>8 DEF Inv, FilesGo

\* A run is disposed of: Replaced and Closed.
LEMMA DisposedKeeps ==
    ASSUME Inv, NEW r \in DOMAIN runs, runs[r].finished, runs' = [runs EXCEPT ![r].disposed = TRUE]
    PROVE  /\ Later /\ DOMAIN runs' = DOMAIN runs /\ runs'[r].disposed
           /\ \A q \in DOMAIN runs : runs'[q].disposed => runs[q].disposed \/ runs[q].finished
<1>1. runs \in Seq(Runs)
  BY DEF Inv, Shape
<1>2. /\ Later /\ DOMAIN runs' = DOMAIN runs /\ runs'[r].disposed
      /\ \A q \in DOMAIN runs : q # r => runs'[q] = runs[q]
  BY <1>1, DisposedLater
<1> QED
  BY <1>2

\* Every step of a request.
LEMMA ServeKeeps ==
    ASSUME Inv, NEW c \in Calls, Serve(c), UNCHANGED asks
    PROVE  Inv'
<1>r. runs \in Seq(Runs)
  BY DEF Inv, Shape
<1>t. \A d \in Calls : calls[d].at \in {"replace", "dispose"} => calls[d].target \in DOMAIN runs
  BY DEF Inv, Shape
<1>same. UNCHANGED runs => /\ Later /\ DOMAIN runs' = DOMAIN runs
                           /\ \A r \in DOMAIN runs : runs'[r].disposed => runs[r].disposed \/ runs[r].finished
  BY <1>r, SameLater
<1>1. CASE AcquireFails(c)
  BY <1>1, <1>same, Returns DEF AcquireFails
<1>2. CASE Replace(c)
  <2> DEFINE i == calls[c].ask.id
  <2>1. /\ i \in Ids(tabs) /\ CloseTab(c, tabs, i, "replace") /\ tabs' = Without(tabs, i)
        /\ UNCHANGED <<scripts, asks>> /\ calls[c].at = "acquire" /\ calls[c].ask.op = "query"
    BY <1>2 DEF Replace
  <2>2. calls[c].at \in {"acquire", "drop"}
    BY <2>1
  <2> QED
    BY <2>1, <2>2, ClosesTab
<1>3. CASE Replaced(c)
  <2>1. /\ calls[c].at = "replace" /\ calls[c].target \in DOMAIN runs /\ runs[calls[c].target].finished
        /\ runs' = [runs EXCEPT ![calls[c].target].disposed = TRUE]
        /\ calls' = [calls EXCEPT ![c].at = "scan", ![c].target = 0]
        /\ UNCHANGED <<tabs, scripts, asks>>
    BY <1>3, <1>t DEF Replaced
  <2>2. /\ Later /\ DOMAIN runs' = DOMAIN runs /\ runs'[calls[c].target].disposed
        /\ \A q \in DOMAIN runs : runs'[q].disposed => runs[q].disposed \/ runs[q].finished
    BY <2>1, DisposedKeeps
  <2>3. calls[c].at \in {"replace", "await"}
    BY <2>1
  <2> QED
    BY <2>1, <2>2, <2>3, Resumes
<1>4. CASE Scan(c)
  <2>1. /\ \/ calls[c].at = "scan"
           \/ calls[c].at = "acquire" /\ calls[c].ask.op = "query" /\ calls[c].ask.id \notin Ids(tabs)
        /\ UNCHANGED <<scripts, asks>>
    BY <1>4 DEF Scan
  <2>2. CASE /\ Rivals(c) = {}
             /\ runs' = Append(runs, NewRun(calls[c].ask))
             /\ tabs' = With(tabs, calls[c].ask.id, Len(runs) + 1)
             /\ Return(c)
    BY <2>1, <2>2, Starts
  <2>3. ASSUME NEW p \in Rivals(c), \A q \in Rivals(c) : p <= q, UNCHANGED tabs, StopAndAwait(c, p)
        PROVE  Inv'
    BY <2>1, <2>3, Stops
  <2>4. ASSUME UNCHANGED <<runs, tabs>>, Return(c)
        PROVE  Inv'
    <3>1. calls[c].at \notin {"replace", "dispose"}
      BY <2>1
    <3> QED
      BY <2>1, <2>4, <3>1, <1>same, Returns
  <2>5. \/ /\ Rivals(c) = {}
           /\ runs' = Append(runs, NewRun(calls[c].ask))
           /\ tabs' = With(tabs, calls[c].ask.id, Len(runs) + 1)
           /\ Return(c)
        \/ \E p \in Rivals(c) :
              /\ \A q \in Rivals(c) : p <= q
              /\ UNCHANGED tabs
              /\ IF runs[tabs[p].run].paused
                 THEN StopAndAwait(c, p)
                 ELSE Return(c) /\ UNCHANGED runs
    BY <1>4 DEF Scan
  <2> QED
    BY <2>2, <2>3, <2>4, <2>5
<1>5. CASE Awaited(c)
  <2>1. calls[c].at \in {"replace", "await"} /\ calls[c].at # "replace"
    BY <1>5 DEF Awaited
  <2>2. /\ UNCHANGED <<runs, tabs, scripts, asks>>
        /\ calls' = [calls EXCEPT ![c].at = "scan", ![c].target = 0]
    BY <1>5 DEF Awaited
  <2> QED
    BY <2>1, <2>2, <1>same, Resumes
<1>6. CASE ScriptAcquired(c)
  <2>1. calls[c].at \notin {"replace", "dispose"} /\ calls[c].at # "idle" /\ calls[c].ask.op = "script"
        /\ UNCHANGED <<runs, tabs, scripts, asks>>
    BY <1>6 DEF ScriptAcquired
  <2>2. CASE Return(c)
    BY <2>1, <2>2, <1>same, Returns
  <2>3. CASE At(c, "open")
    BY <2>1, <2>3, <1>same, Goes
  <2>4. Return(c) \/ At(c, "open")
    BY <1>6 DEF ScriptAcquired
  <2> QED
    BY <2>2, <2>3, <2>4
<1>7. CASE ScriptOpened(c)
  BY <1>7, Opens
<1>8. CASE Close(c)
  <2> DEFINE i == calls[c].ask.id
  <2>1. calls[c].at = "acquire" /\ calls[c].at \in {"acquire", "drop"} /\ calls[c].at \notin {"replace", "dispose"}
        /\ UNCHANGED asks
    BY <1>8 DEF Close
  <2>2. CASE i \in Ids(tabs) /\ CloseTab(c, tabs, i, "dispose") /\ tabs' = Without(tabs, i) /\ UNCHANGED scripts
    BY <2>1, <2>2, ClosesTab
  <2>3. CASE i \in Ids(scripts) /\ CloseTab(c, scripts, i, "dispose") /\ scripts' = Without(scripts, i) /\ UNCHANGED tabs
    BY <2>1, <2>3, ClosesScript
  <2>4. CASE Return(c) /\ UNCHANGED <<runs, tabs, scripts>>
    BY <2>1, <2>4, <1>same, Returns
  <2> QED
    BY <1>8, <2>2, <2>3, <2>4 DEF Close
<1>9. CASE Closed(c)
  <2>1. /\ calls[c].at = "dispose" /\ calls[c].target \in DOMAIN runs /\ runs[calls[c].target].finished
        /\ runs' = [runs EXCEPT ![calls[c].target].disposed = TRUE]
        /\ UNCHANGED <<tabs, scripts, asks>> /\ calls[c].at # "idle"
    BY <1>9, <1>t DEF Closed, Disposed
  <2>2. /\ Later /\ DOMAIN runs' = DOMAIN runs /\ runs'[calls[c].target].disposed
        /\ \A q \in DOMAIN runs : runs'[q].disposed => runs[q].disposed \/ runs[q].finished
    BY <2>1, DisposedKeeps
  <2>3. CASE Return(c)
    BY <2>1, <2>2, <2>3, Returns
  <2>4. CASE At(c, "drop")
    BY <2>1, <2>2, <2>4, Goes
  <2>5. Return(c) \/ At(c, "drop")
    BY <1>9 DEF Closed
  <2> QED
    BY <2>3, <2>4, <2>5
<1>10. CASE DropAll(c)
  <2> DEFINE ids == LET ofConn == SelectSeq(tabs, LAMBDA e : runs[e.run].conn = calls[c].ask.conn) IN
                    [p \in DOMAIN ofConn |-> ofConn[p].id]
  <2>1. /\ calls' = [calls EXCEPT ![c].at = "drop", ![c].todo = ids]
        /\ UNCHANGED <<runs, tabs, scripts, asks>> /\ calls[c].at = "acquire"
    BY <1>10 DEF DropAll
  <2> HIDE DEF ids
  <2> DEFINE j == [calls[c] EXCEPT !.at = "drop"]
             k == [j EXCEPT !.todo = ids]
  <2>2. calls' = [calls EXCEPT ![c] = k]
    BY <2>1 DEF Inv, Shape
  <2>3. IsCall(calls[c])
    BY DEF Inv, Shape
  <2>4. j = [at |-> "drop", ask |-> calls[c].ask, seen |-> calls[c].seen, target |-> calls[c].target, todo |-> calls[c].todo]
    BY <2>3, AtChanged, Zenon
  <2> HIDE DEF j
  <2>5. IsCall(j) /\ j.at = "drop" /\ j.ask = calls[c].ask
    BY <2>4 DEF IsCall
  <2>6. k = [at |-> j.at, ask |-> j.ask, seen |-> j.seen, target |-> j.target, todo |-> ids]
    BY <2>5, TodoChanged, Zenon
  <2> HIDE DEF k
  <2>7. IsCall(k) /\ k.at = "drop" /\ k.ask = calls[c].ask
    BY <2>5, <2>6 DEF IsCall
  <2>8. calls[c].ask \in AllAsks
    BY <2>1 DEF Inv, Shape
  <2>9. /\ k.at # "idle" => k.ask \in AllAsks
        /\ k.at \in {"replace", "dispose"} => k.target \in DOMAIN runs
        /\ k.at \in {"acquire", "replace"} => k.seen = {}
        /\ k.at = "open" => k.ask.op = "script"
        /\ k.at \notin {"replace", "scan", "await"} /\ calls[c].at \notin {"replace", "dispose"}
    BY <2>1, <2>7, <2>8
  <2> QED
    BY <2>1, <2>2, <2>7, <2>9, <1>same, Moves
<1>11. CASE DropNext(c)
  <2>1. calls[c].at = "drop" /\ calls[c].at \in {"acquire", "drop"} /\ calls[c].at \notin {"replace", "dispose"}
        /\ UNCHANGED <<scripts, asks>>
    BY <1>11 DEF DropNext
  <2> DEFINE i == Head(calls[c].todo)
  <2>2. CASE Return(c) /\ UNCHANGED <<runs, tabs>>
    BY <2>1, <2>2, <1>same, Returns
  <2>3. CASE i \in Ids(tabs) /\ CloseTab(c, tabs, i, "dispose") /\ tabs' = Without(tabs, i)
    BY <2>1, <2>3, ClosesTab
  <2>4. CASE calls' = [calls EXCEPT ![c].todo = Tail(@)] /\ UNCHANGED <<runs, tabs>>
    <3> DEFINE rest == Tail(calls[c].todo)
               k == [calls[c] EXCEPT !.todo = rest]
    <3>2. calls' = [calls EXCEPT ![c] = k]
      BY <2>4
    <3> HIDE DEF rest
    <3>3. IsCall(calls[c])
      BY DEF Inv, Shape
    <3>4. k = [at |-> calls[c].at, ask |-> calls[c].ask, seen |-> calls[c].seen, target |-> calls[c].target, todo |-> rest]
      BY <3>3, TodoChanged, Zenon
    <3> HIDE DEF k
    <3>5. IsCall(k) /\ k.at = "drop" /\ k.ask = calls[c].ask
      BY <2>1, <3>4 DEF IsCall
    <3>6. calls[c].ask \in AllAsks
      BY <2>1 DEF Inv, Shape
    <3>7. /\ k.at # "idle" => k.ask \in AllAsks
          /\ k.at \in {"replace", "dispose"} => k.target \in DOMAIN runs
          /\ k.at \in {"acquire", "replace"} => k.seen = {}
          /\ k.at = "open" => k.ask.op = "script"
          /\ k.at \notin {"replace", "scan", "await"}
      BY <3>5, <3>6
    <3> QED
      BY <2>1, <2>4, <3>2, <3>5, <3>7, <1>same, Moves
  <2> QED
    BY <1>11, <2>2, <2>3, <2>4 DEF DropNext
<1> QED
  BY <1>1, <1>2, <1>3, <1>4, <1>5, <1>6, <1>7, <1>8, <1>9, <1>10, <1>11 DEF Serve

\* Every step.
LEMMA NextKeeps ==
    ASSUME Inv, [Next]_vars
    PROVE  Inv'
<1>1. CASE Next
  <2>1. ASSUME NEW c \in Calls, Serve(c) PROVE Inv'
    BY <1>1, <2>1, ServeKeeps DEF Next
  <2>2. ASSUME NEW c \in Calls, NEW ask \in asks, Ask(c, ask) PROVE Inv'
    BY <1>1, <2>2, AskKeeps DEF Next
  <2>3. ASSUME NEW r \in DOMAIN runs, RunSteps(r) PROVE Inv'
    BY <1>1, <2>3, RunKeeps DEF Next
  <2> QED
    BY <1>1, <2>1, <2>2, <2>3 DEF Next
<1>2. CASE UNCHANGED vars
  BY <1>2 DEF vars, service, Inv, Shape, Distinct, Turns, Alone, Begins, Passed, Kept, OneStatement, FilesGo,
              NoOrphan, DisposedIsFinished, Queries, Working, Ids
<1> QED
  BY <1>1, <1>2

\* The invariant holds at the start.
LEMMA InitHolds ==
    ASSUME HostQueriesAssumption, Init
    PROVE  Inv
<1>1. runs = <<>> /\ tabs = <<>> /\ scripts = <<>> /\ calls = [c \in Calls |-> idle] /\ asks \in Asks
  BY DEF Init
<1>2. IsCall(idle) /\ idle.at = "idle" /\ idle.ask.op = "none"
  BY DEF IsCall, idle
<1> HIDE DEF idle
<1>3. Shape
  <2>1. asks \subseteq AllAsks
    BY <1>1 DEF HostQueriesAssumption, AllAsks
  <2>2. runs \in Seq(Runs) /\ tabs \in Seq(Entries) /\ scripts \in Seq(Entries)
    BY <1>1
  <2>3. DOMAIN tabs = {} /\ DOMAIN scripts = {}
    BY <1>1
  <2>4. calls = [c \in Calls |-> calls[c]] /\ \A c \in Calls : IsCall(calls[c]) /\ calls[c].at = "idle"
    BY <1>1, <1>2
  <2> QED
    BY <2>1, <2>2, <2>3, <2>4 DEF Shape
<1>4. Turns
  BY <1>1, <1>2 DEF Turns, Alone, Begins, Passed
<1>5. DOMAIN runs = {} /\ DOMAIN tabs = {}
  BY <1>1
<1> QED
  BY <1>3, <1>4, <1>5 DEF Inv, Distinct, Kept, OneStatement, FilesGo, NoOrphan, DisposedIsFinished, Queries

\* Of the statements that were started on a connection and not told to stop at most one is running,
\* however the requests interleave at their awaits; and a run whose files are not deleted is its tab's
\* or is being closed, and its files are deleted only after its last write.
THEOREM StatementsTakeTurns ==
    ASSUME HostQueriesAssumption
    PROVE  Spec => [](OneStatement /\ FilesGo)
<1>1. Init => Inv
  BY InitHolds
<1>2. Inv /\ [Next]_vars => Inv'
  BY NextKeeps
<1>3. Inv => OneStatement /\ FilesGo
  BY DEF Inv
<1> QED
  BY <1>1, <1>2, <1>3, PTL DEF Spec
=============================================================================
