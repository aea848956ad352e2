------------------------------ MODULE QueryRun ------------------------------
(* One statement run for a query tab: query-engine/src/queryRun.ts and the      *)
(* spool its results are kept in, result-engine/src/spool.ts.  Rows are counted, *)
(* not kept; the statement on the server is the environment.                    *)
EXTENDS Integers, Sequences, TLAPS

CONSTANTS
    PageRows,   \* rows of a page
    Lookahead,  \* lookaheadPages
    Initial,    \* INITIAL_ROWS
    DiskPages,  \* pages that fit in one result's file
    MaxBatch,   \* bound: rows of one event
    MaxRows,    \* bound: rows of one result
    MaxResults  \* bound: results of one statement

\* Assumed of the constants.
QueryRunAssumption ==
    /\ {PageRows, MaxBatch, MaxResults} \subseteq Nat \ {0}
    /\ {Lookahead, Initial, DiskPages, MaxRows} \subseteq Nat

VARIABLES
    pc,         \* the await run() is at
    state,      \* this.state
    cancelled,  \* this.cancelled
    waiting,    \* this.waiting
    waiter,     \* this.waiter is set
    slots,      \* this.slots: info, spool and demand of each result
    current,    \* the number of `slot`, 0 for null
    batch,      \* rows of the event still to be appended
    demands,    \* this.demands
    server,     \* the statement: before a result, in its rows, ended
    stopped,    \* execution.cancel() was called
    files,      \* results whose file exists
    disposing   \* dispose(): no, called, done

vars == <<pc, state, cancelled, waiting, waiter, slots, current, batch, demands,
          server, stopped, files, disposing>>

Bigger(a, b) == IF a > b THEN a ELSE b

Init ==
    /\ pc = "next" /\ state = "running"
    /\ cancelled = FALSE /\ waiting = FALSE /\ waiter = FALSE
    /\ slots = <<>> /\ current = 0 /\ batch = 0
    /\ demands = [r \in 1..MaxResults |-> 0]
    /\ server = "between" /\ stopped = FALSE
    /\ files = {} /\ disposing = "no"

(* --------------------------------- spool --------------------------------- *)

Stored(s) == s.flushed + s.open
Fits(s) == s.flushed < DiskPages * PageRows

\* flushPage() when the file is full: the page is dropped.
Capped(s) == [s EXCEPT !.rows = @ - s.open, !.open = 0, !.full = TRUE]

\* flushPage() after file.append().
Flushed(s) == [s EXCEPT !.flushed = @ + s.open, !.open = 0]

(* -------------------------------- the loop ------------------------------- *)

\* The slot that is read into, with the rows its window is told of.
Slot == slots[current]
Put(s) == slots' = [slots EXCEPT ![current] = s]

Enough(s) == s.rows >= s.demand + Lookahead * PageRows

\* After a rows event: the run waits while the window has all it asked for.
Wait(s) ==
    IF ~cancelled /\ Enough(s)
    THEN pc' = "sleep" /\ waiting' = TRUE /\ waiter' = TRUE
    ELSE pc' = "next" /\ waiting' = FALSE /\ UNCHANGED waiter

\* append(): rows go to the open page until it is full.
AppendRows(s, n) ==
    LET k == IF s.open + n < PageRows THEN n ELSE PageRows - s.open
        t == [s EXCEPT !.open = @ + k, !.rows = @ + k] IN
    /\ batch' = n - k
    /\ IF t.open < PageRows
       THEN /\ Put([t EXCEPT !.told = t.rows])
            /\ Wait(t)
            /\ UNCHANGED stopped
       ELSE IF Fits(t)
       THEN /\ Put(t) /\ pc' = "append"
            /\ UNCHANGED <<waiting, waiter, stopped>>
       ELSE /\ Put([Capped(t) EXCEPT !.told = Capped(t).rows, !.capped = TRUE])
            /\ pc' = "leaving" /\ stopped' = TRUE
            /\ UNCHANGED <<waiting, waiter>>

Columns ==
    /\ pc = "next" /\ server = "between" /\ Len(slots) < MaxResults /\ ~cancelled
    /\ server' = "rows"
    /\ pc' = "create"
    /\ UNCHANGED <<state, cancelled, waiting, waiter, slots, current, batch, demands,
                   stopped, files, disposing>>

\* A slot as it is pushed: `sent` counts the rows the server gave for it.
NewSlot(demand, complete) ==
    [rows |-> 0, told |-> 0, open |-> 0, flushed |-> 0, full |-> FALSE, capped |-> FALSE,
     complete |-> complete, sent |-> 0, demand |-> demand]

Created ==
    /\ pc = "create"
    /\ slots' = Append(slots, NewSlot(Bigger(Initial, demands[Len(slots) + 1]), FALSE))
    /\ current' = Len(slots) + 1
    /\ files' = files \cup {Len(slots) + 1}
    /\ pc' = "next"
    /\ UNCHANGED <<state, cancelled, waiting, waiter, batch, demands, server, stopped, disposing>>

RowsEvent ==
    /\ pc = "next" /\ server = "rows" /\ ~cancelled
    /\ \E n \in 1..MaxBatch :
         /\ Slot.sent + n <= MaxRows
         /\ AppendRows([Slot EXCEPT !.sent = @ + n], n)
    /\ UNCHANGED <<state, cancelled, current, demands, server, files, disposing>>

\* file.append() has written the page: the rest of the event follows.
PageWritten ==
    /\ pc = "append"
    /\ AppendRows(Flushed(Slot), batch)
    /\ UNCHANGED <<state, cancelled, current, demands, server, files, disposing>>

\* sleep() was ended by wake().
Resume ==
    /\ pc = "sleep" /\ ~waiter
    /\ Wait(Slot)
    /\ UNCHANGED <<state, cancelled, slots, current, batch, demands, server, stopped, files, disposing>>

\* After a result comes another one, or nothing.
ServerMoves ==
    /\ server' \in {"between", "ended"}
    /\ server' = "between" => Len(slots') < MaxResults

\* A statement without rows: a slot that has no spool.
NoRows ==
    /\ pc = "next" /\ server = "between" /\ ~cancelled /\ Len(slots) < MaxResults
    /\ slots' = Append(slots, NewSlot(0, TRUE))
    /\ ServerMoves
    /\ UNCHANGED <<pc, state, cancelled, waiting, waiter, current, batch, demands, stopped,
                   files, disposing>>

\* The end of a result: finish() writes the last page, or finds the file full.
EndEvent ==
    /\ pc = "next" /\ server = "rows" /\ ~cancelled
    /\ IF Slot.open > 0 /\ Fits(Slot)
       THEN pc' = "finish" /\ UNCHANGED <<slots, current>>
       ELSE /\ LET s == IF Slot.open > 0 THEN Capped(Slot) ELSE Slot IN
               Put([s EXCEPT !.told = s.rows, !.complete = TRUE])
            /\ current' = 0 /\ pc' = "next"
    /\ ServerMoves
    /\ UNCHANGED <<state, cancelled, waiting, waiter, batch, demands, stopped, files, disposing>>

Finished ==
    /\ pc = "finish"
    /\ Put([Flushed(Slot) EXCEPT !.complete = TRUE, !.told = Stored(Slot)])
    /\ current' = 0 /\ pc' = "next"
    /\ UNCHANGED <<state, cancelled, waiting, waiter, batch, demands, server, stopped, files, disposing>>

\* The next event of a run that was cancelled ends the loop.
SeesCancel ==
    /\ pc = "next" /\ cancelled /\ server # "ended"
    /\ pc' = "leaving"
    /\ UNCHANGED <<state, cancelled, waiting, waiter, slots, current, batch, demands,
                   server, stopped, files, disposing>>

\* Variant: only what the server says counts.
OutcomeOfServer == "done"

\* The state after a loop that ended without an error.
Outcome ==
    IF cancelled \/ \E r \in DOMAIN slots : slots[r].capped /\ ~slots[r].complete
    THEN "cancelled" ELSE "done"

\* The iterator has returned, or given everything.
LoopEnds ==
    /\ pc = "leaving" \/ (pc = "next" /\ server = "ended")
    /\ state' = Outcome
    /\ pc' = IF current = 0 THEN "over" ELSE "ending"
    /\ UNCHANGED <<cancelled, waiting, waiter, slots, current, batch, demands,
                   server, stopped, files, disposing>>

\* The statement fails, or reports that it was cancelled; so may a write.
Fails ==
    /\ pc \in {"next", "create", "append", "finish"} /\ server # "ended"
    /\ state' \in (IF stopped THEN {"failed", "cancelled"} ELSE {"failed"})
    /\ pc' = IF current = 0 THEN "over" ELSE "ending"
    /\ UNCHANGED <<cancelled, waiting, waiter, slots, current, batch, demands,
                   server, stopped, files, disposing>>

\* The last finish(), whose error is swallowed.
Ends ==
    /\ pc = "ending"
    /\ \E s \in {Flushed(Slot), Slot} :
         LET t == IF Slot.open > 0 /\ ~Slot.full
                  THEN IF Fits(Slot) THEN s ELSE Capped(Slot)
                  ELSE Slot IN
         Put([t EXCEPT !.told = t.rows])
    /\ pc' = "over"
    /\ UNCHANGED <<state, cancelled, waiting, waiter, current, batch, demands,
                   server, stopped, files, disposing>>

(* ------------------------------- the window ------------------------------ *)

\* Variant: asking for more does not wake the run.
AskedQuietly == UNCHANGED waiter

Wake == waiter' = FALSE

\* demand(), which page() and fetchAll() come to.
Demand(r, n) ==
    /\ n > demands[r]
    /\ demands' = [demands EXCEPT ![r] = n]
    /\ slots' = IF r \in DOMAIN slots THEN [slots EXCEPT ![r].demand = Bigger(@, n)] ELSE slots
    /\ Wake
    /\ UNCHANGED <<pc, state, cancelled, waiting, current, batch, server, stopped, files, disposing>>

Cancel ==
    /\ state = "running"
    /\ cancelled' = TRUE /\ stopped' = TRUE
    /\ Wake
    /\ UNCHANGED <<pc, state, waiting, slots, current, batch, demands, server, files>>

CancelCall == Cancel /\ UNCHANGED disposing

Dispose ==
    /\ disposing = "no" /\ disposing' = "called"
    /\ \/ Cancel
       \/ /\ state # "running"
          /\ UNCHANGED <<pc, state, cancelled, waiting, waiter, slots, current, batch,
                         demands, server, stopped, files>>

\* Variant: dispose() does not wait for the run.
DisposedAtOnce == disposing = "called"

Disposable == disposing = "called" /\ pc = "over"

DisposeEnds ==
    /\ Disposable
    /\ files' = files \ DOMAIN slots
    /\ disposing' = "done"
    /\ UNCHANGED <<pc, state, cancelled, waiting, waiter, slots, current, batch,
                   demands, server, stopped>>

Run ==
    \/ Columns \/ NoRows \/ Created \/ RowsEvent \/ PageWritten \/ Resume \/ EndEvent \/ Finished
    \/ SeesCancel \/ LoopEnds \/ Fails \/ Ends

Next ==
    \/ Run
    \/ \E r \in 1..MaxResults, n \in 1..MaxRows : Demand(r, n)
    \/ CancelCall \/ Dispose \/ DisposeEnds

Spec == Init /\ [][Next]_vars

\* The statement goes on, writes end, and the microtasks of the run are run.
FairSpec == Spec /\ WF_vars(Run) /\ WF_vars(DisposeEnds)

(* ------------------------------- properties ------------------------------ *)

TypeOK ==
    /\ pc \in {"next", "create", "append", "finish", "sleep", "leaving", "ending", "over"}
    /\ state \in {"running", "done", "failed", "cancelled"}
    /\ {cancelled, waiting, waiter, stopped} \subseteq BOOLEAN
    /\ slots \in Seq([rows : Nat, told : Nat, open : 0..PageRows,
                     flushed : Nat, full : BOOLEAN, capped : BOOLEAN, complete : BOOLEAN,
                     sent : 0..MaxRows, demand : Nat])
    /\ Len(slots) <= MaxResults /\ current \in 0..Len(slots) /\ batch \in 0..MaxBatch
    /\ pc \in {"next", "sleep"} => \A r \in {current} \ {0} : slots[r].open < PageRows
    /\ demands \in [1..MaxResults -> 0..MaxRows]
    /\ server \in {"between", "rows", "ended"}
    /\ files \subseteq DOMAIN slots
    /\ disposing \in {"no", "called", "done"}

\* The run never reads more than the lookahead and one event beyond what was
\* asked for: the backpressure a SELECT over a huge table relies on.
ReadAheadBounded ==
    \A r \in DOMAIN slots :
        slots[r].rows <= slots[r].demand + Bigger(Lookahead * PageRows - 1, 0) + MaxBatch

\* The row count a window is shown never exceeds the rows it can page through,
\* whatever page the file had no room for.
ToldIsStored ==
    \A r \in DOMAIN slots : slots[r].told <= Stored(slots[r])

\* A run that reports itself done has every result to its end.
DoneIsComplete ==
    state = "done" => \A r \in DOMAIN slots : slots[r].complete

\* Once dispose() has resolved no result file is left behind, not even one that
\* was still being created when it was called.
DisposedLeavesNoFile == disposing = "done" => files = {}

\* What the run promises its owner: it settles once, never as done after a
\* cancel, and only pauses while it runs.
Promise == INSTANCE StatementRun
    WITH paused <- waiting, stopping <- cancelled, finished <- (pc = "over")

KeepsPromise == Promise!Spec

\* A cancelled run, paused or not, comes to its end.
CancelEnds == cancelled ~> pc = "over"

\* A paused run that is asked for more rows than it has reads on.
DemandIsMet ==
    (pc = "sleep" /\ current # 0 /\ ~Enough(slots[current])) ~> ~waiting

\* "stop the statement rather than discard rows quietly" (queryRun.ts:224): a
\* result shown as complete and not as capped has every row.
NoQuietDrop ==
    \A r \in DOMAIN slots :
        slots[r].complete /\ ~slots[r].capped => Stored(slots[r]) = slots[r].sent

\* What a window is shown of a result is what can be read of it, nothing is read far
\* ahead of it, and nothing of it stays behind.
RowsAreTrue == TypeOK /\ ReadAheadBounded /\ ToldIsStored /\ DoneIsComplete /\ DisposedLeavesNoFile

(* ------------------------- proofs: the invariant ------------------------- *)
(* Of the statement's run, for pages, files, batches and results of any size.   *)

Slots == [rows : Nat, told : Nat, open : 0..PageRows, flushed : Nat, full : BOOLEAN, capped : BOOLEAN,
          complete : BOOLEAN, sent : 0..MaxRows, demand : Nat]

\* The rows of a result are on disk or in the open page, and the window knows of no more.
Sound(s) == s.rows = Stored(s) /\ s.told <= s.rows

\* How far the rows may be ahead of what was asked for when the next event is read.
Ahead == Bigger(Lookahead * PageRows - 1, 0)

\* Where the run is, the result it reads into and the server agree; it is paused while it
\* sleeps, and settled once it is over.
PlaceInv ==
    /\ pc = "next" => (current # 0 <=> server = "rows")
    /\ pc = "create" => current = 0 /\ Len(slots) < MaxResults /\ server = "rows"
    /\ pc \in {"append", "finish", "sleep", "ending"} => current # 0
    /\ pc \in {"append", "sleep"} => server = "rows"
    /\ pc = "finish" => server # "rows"
    /\ pc = "leaving" => cancelled \/ (current # 0 /\ slots[current].capped)
    /\ waiting <=> pc = "sleep"
    /\ state = "running" <=> pc \notin {"ending", "over"}
    /\ state = "done" => current = 0
    /\ disposing = "done" => pc = "over" /\ files = {}

\* Every result but the one that is read into is complete.
SlotsInv ==
    \A r \in DOMAIN slots : Sound(slots[r]) /\ (slots[r].complete <=> r # current)

\* How far the rows may be ahead of what was asked for: by the lookahead when the next event
\* is read, and by the event.
ReadInv ==
    /\ \A r \in DOMAIN slots : slots[r].rows <= slots[r].demand + Ahead + MaxBatch
    /\ pc = "append" => slots[current].rows + batch <= slots[current].demand + Ahead + MaxBatch
    /\ pc = "next" /\ current # 0 /\ ~cancelled => slots[current].rows <= slots[current].demand + Ahead

Inv == TypeOK /\ PlaceInv /\ SlotsInv /\ ReadInv

(* --------------------------------- lemmas -------------------------------- *)

\* What is assumed of the constants, with the product named once.
Sizes ==
    /\ PageRows \in Nat \ {0} /\ MaxBatch \in Nat \ {0} /\ MaxResults \in Nat \ {0}
    /\ Lookahead \in Nat /\ Initial \in Nat /\ DiskPages \in Nat /\ MaxRows \in Nat
    /\ Lookahead * PageRows \in Nat /\ Ahead \in Nat /\ Lookahead * PageRows - 1 <= Ahead

LEMMA SizesHold == QueryRunAssumption => Sizes
<1> SUFFICES ASSUME QueryRunAssumption PROVE Sizes
  OBVIOUS
<1>1. /\ PageRows \in Nat \ {0} /\ MaxBatch \in Nat \ {0} /\ MaxResults \in Nat \ {0}
      /\ Lookahead \in Nat /\ Initial \in Nat /\ DiskPages \in Nat /\ MaxRows \in Nat
  BY DEF QueryRunAssumption
<1>2. Lookahead * PageRows \in Nat
  BY <1>1
<1> QED
  BY <1>1, <1>2 DEF Sizes, Ahead, Bigger

\* A slot is put back in its place.
LEMMA PutBack ==
    ASSUME slots \in Seq(Slots), current \in DOMAIN slots, NEW t \in Slots, Put(t)
    PROVE  /\ slots' \in Seq(Slots) /\ Len(slots') = Len(slots) /\ DOMAIN slots' = DOMAIN slots
           /\ slots'[current] = t
           /\ \A r \in DOMAIN slots : r # current => slots'[r] = slots[r]
  BY DEF Put

\* A slot is added at the end.
LEMMA Added ==
    ASSUME slots \in Seq(Slots), NEW t \in Slots, slots' = Append(slots, t)
    PROVE  /\ slots' \in Seq(Slots) /\ Len(slots') = Len(slots) + 1
           /\ DOMAIN slots' = DOMAIN slots \cup {Len(slots) + 1} /\ Len(slots) + 1 \notin DOMAIN slots
           /\ Len(slots) + 1 # 0 /\ Len(slots) \in Nat
           /\ slots'[Len(slots) + 1] = t
           /\ \A r \in DOMAIN slots : slots'[r] = slots[r]
  OBVIOUS

\* append() keeps the rows of a slot and the rest of the event apart from nothing else.
LEMMA RowsAppended ==
    ASSUME Sizes, cancelled \in BOOLEAN, stopped \in BOOLEAN, waiter \in BOOLEAN, waiting \in BOOLEAN,
           NEW s \in Slots, Sound(s), ~s.complete, s.open < PageRows,
           NEW n \in Nat, AppendRows(s, n)
    PROVE  \E t \in Slots :
             /\ Put(t) /\ Sound(t) /\ ~t.complete /\ t.demand = s.demand
             /\ batch' \in 0..n /\ t.rows + batch' <= s.rows + n
             /\ stopped' \in BOOLEAN /\ waiter' \in BOOLEAN /\ waiting' \in BOOLEAN
             /\ \/ pc' = "next" /\ ~waiting' /\ t.open < PageRows /\ (cancelled \/ ~Enough(t))
                \/ pc' = "sleep" /\ waiting' /\ ~cancelled /\ t.open < PageRows
                \/ pc' = "append" /\ UNCHANGED waiting
                \/ pc' = "leaving" /\ UNCHANGED waiting /\ t.capped
<1> DEFINE k == IF s.open + n < PageRows THEN n ELSE PageRows - s.open
           t == [s EXCEPT !.open = @ + k, !.rows = @ + k]
<1>s. /\ s.rows \in Nat /\ s.open \in 0..PageRows /\ s.flushed \in Nat /\ s.told \in Nat /\ s.demand \in Nat
      /\ s.rows = s.flushed + s.open /\ s.told <= s.rows /\ PageRows \in Nat
  BY DEF Slots, Sound, Stored, Sizes
<1>k. /\ k \in Nat /\ k <= n /\ s.open + k \in 0..PageRows
      /\ s.open + k < PageRows => n - k = 0
  BY <1>s
<1>a. /\ batch' = n - k
      /\ IF t.open < PageRows
         THEN Put([t EXCEPT !.told = t.rows]) /\ Wait(t) /\ UNCHANGED stopped
         ELSE IF Fits(t)
         THEN Put(t) /\ pc' = "append" /\ UNCHANGED <<waiting, waiter, stopped>>
         ELSE /\ Put([Capped(t) EXCEPT !.told = Capped(t).rows, !.capped = TRUE])
              /\ pc' = "leaving" /\ stopped' = TRUE
              /\ UNCHANGED <<waiting, waiter>>
  BY DEF AppendRows
<1> HIDE DEF k
<1>t. /\ t \in Slots /\ t.rows = s.rows + k /\ t.open = s.open + k /\ t.flushed = s.flushed /\ t.told = s.told
      /\ t.demand = s.demand /\ t.complete = s.complete /\ Sound(t)
  <2>1. /\ t.rows = s.rows + k /\ t.open = s.open + k /\ t.flushed = s.flushed /\ t.told = s.told
        /\ t.demand = s.demand /\ t.complete = s.complete
    BY DEF Slots
  <2>2. s.rows + k \in Nat /\ s.open + k \in 0..PageRows
    BY <1>s, <1>k
  <2>3. t \in Slots
    BY <2>2 DEF Slots
  <2>4. Sound(t)
    BY <1>s, <1>k, <2>1 DEF Sound, Stored
  <2> QED
    BY <2>1, <2>3, <2>4
<1> HIDE DEF t
<1>b. batch' \in 0..n /\ t.rows + batch' = s.rows + n
  BY <1>a, <1>k, <1>s, <1>t
<1>1. CASE t.open < PageRows
  <2> DEFINE u == [t EXCEPT !.told = t.rows]
  <2>1. /\ u \in Slots /\ u.rows = t.rows /\ u.open = t.open /\ u.flushed = t.flushed /\ u.told = t.rows
        /\ u.demand = t.demand /\ u.complete = t.complete
    BY <1>t DEF Slots
  <2>2. Sound(u) /\ (Enough(u) <=> Enough(t))
    BY <1>s, <1>k, <1>t, <2>1 DEF Sound, Stored, Enough
  <2>3. Put(u) /\ Wait(t) /\ UNCHANGED stopped
    BY <1>a, <1>1
  <2>4. /\ waiter' \in BOOLEAN /\ waiting' \in BOOLEAN
        /\ \/ pc' = "next" /\ ~waiting' /\ (cancelled \/ ~Enough(t))
           \/ pc' = "sleep" /\ waiting' /\ ~cancelled
    BY <2>3 DEF Wait
  <2> HIDE DEF u
  <2>5. u.rows + batch' <= s.rows + n
    BY <1>b, <1>s, <1>k, <1>t, <2>1
  <2> QED
    BY <1>1, <1>b, <1>t, <2>1, <2>2, <2>3, <2>4, <2>5
<1>2. CASE ~(t.open < PageRows) /\ Fits(t)
  <2>1. t.rows + batch' <= s.rows + n
    BY <1>b, <1>s
  <2> QED
    BY <1>2, <1>a, <1>b, <1>t, <2>1
<1>3. CASE ~(t.open < PageRows) /\ ~Fits(t)
  <2> DEFINE u == [Capped(t) EXCEPT !.told = Capped(t).rows, !.capped = TRUE]
  <2>1. /\ u \in Slots /\ u.rows = t.rows - t.open /\ u.open = 0 /\ u.flushed = t.flushed /\ u.told = u.rows
        /\ u.demand = t.demand /\ u.complete = t.complete /\ u.capped
    <3>1. t.rows - t.open = t.flushed /\ t.flushed \in Nat /\ 0 \in 0..PageRows
      BY <1>s, <1>k, <1>t
    <3>2. /\ Capped(t).rows = t.rows - t.open /\ Capped(t) \in Slots
          /\ Capped(t).open = 0 /\ Capped(t).flushed = t.flushed
          /\ Capped(t).demand = t.demand /\ Capped(t).complete = t.complete
      BY <1>t, <3>1 DEF Slots, Capped
    <3> QED
      BY <3>1, <3>2 DEF Slots
  <2>2. Put(u) /\ pc' = "leaving" /\ stopped' = TRUE /\ UNCHANGED <<waiting, waiter>>
    BY <1>3, <1>a
  <2> HIDE DEF u
  <2>3. Sound(u) /\ u.rows + batch' <= s.rows + n
    BY <1>b, <1>s, <1>k, <1>t, <2>1 DEF Sound, Stored
  <2> QED
    BY <1>b, <1>t, <2>1, <2>2, <2>3
<1> QED
  BY <1>1, <1>2, <1>3

(* ---------------------------------- steps -------------------------------- *)

\* The types, as the proofs use them.
LEMMA Types ==
    ASSUME TypeOK
    PROVE  /\ pc \in {"next", "create", "append", "finish", "sleep", "leaving", "ending", "over"}
           /\ state \in {"running", "done", "failed", "cancelled"}
           /\ cancelled \in BOOLEAN /\ waiting \in BOOLEAN /\ waiter \in BOOLEAN /\ stopped \in BOOLEAN
           /\ slots \in Seq(Slots) /\ Len(slots) \in Nat /\ DOMAIN slots = 1..Len(slots)
           /\ Len(slots) <= MaxResults /\ current \in 0..Len(slots) /\ batch \in 0..MaxBatch
           /\ current # 0 => current \in DOMAIN slots /\ slots[current] \in Slots
           /\ current # 0 /\ pc \in {"next", "sleep"} => slots[current].open < PageRows
           /\ demands \in [1..MaxResults -> 0..MaxRows]
           /\ server \in {"between", "rows", "ended"}
           /\ files \subseteq DOMAIN slots
           /\ disposing \in {"no", "called", "done"}
<1>1. slots \in Seq(Slots) /\ current \in 0..Len(slots)
  BY DEF TypeOK, Slots
<1>2. Len(slots) \in Nat /\ DOMAIN slots = 1..Len(slots) /\ (current # 0 => current \in DOMAIN slots)
  BY <1>1
<1>3. current # 0 => slots[current] \in Slots
  BY <1>1, <1>2
<1> QED
  BY <1>1, <1>2, <1>3 DEF TypeOK

LEMMA InitInv == QueryRunAssumption /\ Init => Inv
<1> SUFFICES ASSUME QueryRunAssumption, Init PROVE Inv
  OBVIOUS
<1>s. Sizes
  BY SizesHold
<1>1. slots \in Seq(Slots) /\ Len(slots) = 0 /\ DOMAIN slots = {} /\ demands \in [1..MaxResults -> 0..MaxRows]
  BY <1>s DEF Init, Sizes
<1>2. TypeOK
  <2>1. /\ pc = "next" /\ state = "running" /\ cancelled = FALSE /\ waiting = FALSE /\ waiter = FALSE
        /\ current = 0 /\ batch = 0 /\ server = "between" /\ stopped = FALSE /\ files = {} /\ disposing = "no"
    BY DEF Init
  <2>2. Len(slots) <= MaxResults /\ current \in 0..Len(slots) /\ batch \in 0..MaxBatch
    BY <1>s, <1>1, <2>1 DEF Sizes
  <2> QED
    BY <1>1, <2>1, <2>2 DEF TypeOK, Slots
<1> QED
  BY <1>1, <1>2 DEF Init, Inv, PlaceInv, SlotsInv, ReadInv

\* A rows event, and what follows the writing of a page.
LEMMA RowsStep == Sizes /\ Inv /\ (RowsEvent \/ PageWritten) => Inv'
<1> SUFFICES ASSUME Sizes, Inv, RowsEvent \/ PageWritten PROVE Inv'
  OBVIOUS
<1>t. TypeOK
  BY DEF Inv
<1>0. /\ pc \in {"next", "append"} /\ server = "rows" /\ current # 0 /\ ~waiting /\ state = "running"
      /\ disposing # "done"
      /\ UNCHANGED <<state, cancelled, current, demands, server, files, disposing>>
  BY DEF RowsEvent, PageWritten, Inv, PlaceInv
<1>c. current \in DOMAIN slots /\ slots[current] \in Slots /\ Slot = slots[current]
  BY <1>t, <1>0, Types DEF Slot
<1>v. Sound(Slot) /\ ~Slot.complete
  BY <1>c DEF Inv, SlotsInv
<1>1. \E s \in Slots, n \in 0..MaxBatch :
        /\ AppendRows(s, n) /\ Sound(s) /\ ~s.complete /\ s.open < PageRows /\ s.demand = Slot.demand
        /\ s.rows + n <= Slot.demand + Ahead + MaxBatch
  <2>1. CASE RowsEvent
    <3>1. PICK n \in 1..MaxBatch : /\ Slot.sent + n <= MaxRows
                                   /\ AppendRows([Slot EXCEPT !.sent = @ + n], n)
      BY <2>1 DEF RowsEvent
    <3> DEFINE s == [Slot EXCEPT !.sent = @ + n]
    <3>2. Slot.sent + n \in 0..MaxRows /\ n \in 0..MaxBatch
      BY <1>c, <3>1 DEF Slots, Sizes
    <3>3. s \in Slots /\ s.rows = Slot.rows /\ s.open = Slot.open /\ s.demand = Slot.demand /\ Sound(s) /\ ~s.complete
      BY <1>c, <1>v, <3>2 DEF Slots, Sound, Stored
    <3>4. Slot.open < PageRows
      BY <1>t, <1>0, <1>c, <2>1, Types DEF RowsEvent
    <3>5. Slot.rows <= Slot.demand + Ahead
      BY <1>0, <1>c, <2>1 DEF Inv, ReadInv, RowsEvent
    <3>6. Slot.rows + n <= Slot.demand + Ahead + MaxBatch
      BY <1>c, <3>1, <3>5 DEF Slots, Sizes
    <3> QED
      BY <3>1, <3>2, <3>3, <3>4, <3>6
  <2>2. CASE PageWritten
    <3> DEFINE s == Flushed(Slot)
    <3>1. /\ s \in Slots /\ s.rows = Slot.rows /\ s.open = 0 /\ s.flushed = Slot.flushed + Slot.open
          /\ s.told = Slot.told /\ s.demand = Slot.demand /\ s.complete = Slot.complete
      <4>1. Slot.flushed + Slot.open \in Nat /\ 0 \in 0..PageRows
        BY <1>c DEF Slots, Sizes
      <4> QED
        BY <1>c, <4>1 DEF Slots, Flushed
    <3>2. Sound(s)
      BY <1>c, <1>v, <3>1 DEF Sound, Stored, Slots
    <3>3. s.open < PageRows /\ batch \in 0..MaxBatch
      BY <1>t, <3>1, Types DEF Sizes
    <3>4. Slot.rows + batch <= Slot.demand + Ahead + MaxBatch
      BY <1>c, <2>2 DEF Inv, ReadInv, PageWritten
    <3> QED
      BY <1>v, <2>2, <3>1, <3>2, <3>3, <3>4 DEF PageWritten
  <2> QED
    BY <2>1, <2>2
<1>2. PICK s \in Slots, n \in 0..MaxBatch :
        /\ AppendRows(s, n) /\ Sound(s) /\ ~s.complete /\ s.open < PageRows /\ s.demand = Slot.demand
        /\ s.rows + n <= Slot.demand + Ahead + MaxBatch
  BY <1>1
<1>3. PICK t \in Slots :
        /\ Put(t) /\ Sound(t) /\ ~t.complete /\ t.demand = s.demand
        /\ batch' \in 0..n /\ t.rows + batch' <= s.rows + n
        /\ stopped' \in BOOLEAN /\ waiter' \in BOOLEAN /\ waiting' \in BOOLEAN
        /\ \/ pc' = "next" /\ ~waiting' /\ t.open < PageRows /\ (cancelled \/ ~Enough(t))
           \/ pc' = "sleep" /\ waiting' /\ ~cancelled /\ t.open < PageRows
           \/ pc' = "append" /\ UNCHANGED waiting
           \/ pc' = "leaving" /\ UNCHANGED waiting /\ t.capped
  <2>1. cancelled \in BOOLEAN /\ stopped \in BOOLEAN /\ waiter \in BOOLEAN /\ waiting \in BOOLEAN /\ n \in Nat
    BY <1>t, Types
  <2> QED
    BY <1>2, <2>1, RowsAppended
<1>p. /\ slots' \in Seq(Slots) /\ Len(slots') = Len(slots) /\ DOMAIN slots' = DOMAIN slots
      /\ slots'[current] = t
      /\ \A r \in DOMAIN slots : r # current => slots'[r] = slots[r]
  BY <1>t, <1>c, <1>3, PutBack, Types
<1>4. TypeOK'
  <2>1. batch' \in 0..MaxBatch
    BY <1>3 DEF Sizes
  <2>2. pc' \in {"next", "sleep", "append", "leaving"} /\ (pc' \in {"next", "sleep"} => t.open < PageRows)
    BY <1>3
  <2> QED
    <3>1. /\ state' = state /\ cancelled' \in BOOLEAN /\ current' \in 0..Len(slots')
          /\ demands' \in [1..MaxResults -> 0..MaxRows] /\ server' = server /\ files' \subseteq DOMAIN slots'
          /\ disposing' = disposing /\ Len(slots') <= MaxResults
      BY <1>t, <1>0, <1>p, Types
    <3> QED
      BY <1>t, <1>0, <1>3, <1>p, <2>1, <2>2, <3>1, Types DEF TypeOK, Slots
<1>5. PlaceInv'
  BY <1>0, <1>3, <1>p DEF Inv, PlaceInv
<1>6. SlotsInv'
  BY <1>0, <1>3, <1>p DEF Inv, SlotsInv, Sound, Stored
<1>7. ReadInv'
  <2>1. /\ t.rows \in Nat /\ t.demand \in Nat /\ batch' \in Nat /\ s.rows \in Nat /\ n \in Nat /\ Ahead \in Nat
        /\ MaxBatch \in Nat /\ t.demand = Slot.demand
    BY <1>2, <1>3 DEF Slots, Sizes
  <2>2. t.rows + batch' <= t.demand + Ahead + MaxBatch
    BY <1>2, <1>3, <2>1
  <2>3. t.rows <= t.demand + Ahead + MaxBatch
    BY <2>1, <2>2
  <2>4. pc' = "next" /\ ~cancelled => t.rows <= t.demand + Ahead
    <3>1. pc' = "next" /\ ~cancelled => ~(t.rows >= t.demand + Lookahead * PageRows)
      BY <1>3 DEF Enough
    <3> QED
      BY <2>1, <3>1 DEF Sizes
  <2> QED
    BY <1>0, <1>p, <2>2, <2>3, <2>4 DEF Inv, ReadInv
<1> QED
  BY <1>4, <1>5, <1>6, <1>7 DEF Inv

\* The steps that put back the slot that is read into: the end of a result, and of the run.
LEMMA EndsStep == Sizes /\ Inv /\ (EndEvent \/ Finished \/ Ends) => Inv'
<1> SUFFICES ASSUME Sizes, Inv, EndEvent \/ Finished \/ Ends PROVE Inv'
  OBVIOUS
<1>t. TypeOK
  BY DEF Inv
<1>0. /\ current # 0 /\ ~waiting /\ state # "done" /\ disposing # "done"
      /\ UNCHANGED <<state, cancelled, waiting, waiter, batch, demands, stopped, files, disposing>>
      /\ (pc \in {"next", "finish"} /\ state = "running") \/ pc = "ending"
  BY DEF EndEvent, Finished, Ends, Inv, PlaceInv
<1>c. current \in DOMAIN slots /\ slots[current] \in Slots /\ Slot = slots[current]
  BY <1>t, <1>0, Types DEF Slot
<1>v. /\ Sound(Slot) /\ ~Slot.complete
      /\ Slot.rows \in Nat /\ Slot.open \in Nat /\ Slot.flushed \in Nat /\ Slot.demand \in Nat /\ Slot.told \in Nat
      /\ Slot.rows = Slot.flushed + Slot.open /\ Slot.told <= Slot.rows
      /\ Slot.rows <= Slot.demand + Ahead + MaxBatch /\ Ahead \in Nat /\ MaxBatch \in Nat
  BY <1>c DEF Inv, SlotsInv, ReadInv, Slots, Sound, Stored, Sizes
<1>f. /\ Flushed(Slot) \in Slots /\ Flushed(Slot).rows = Slot.rows /\ Sound(Flushed(Slot))
      /\ Flushed(Slot).demand = Slot.demand /\ Flushed(Slot).complete = Slot.complete
      /\ Flushed(Slot).flushed = Slot.rows /\ Flushed(Slot).open = 0
  <2>1. Slot.flushed + Slot.open \in Nat /\ 0 \in 0..PageRows
    BY <1>v DEF Sizes
  <2>2. /\ Flushed(Slot) \in Slots /\ Flushed(Slot).rows = Slot.rows /\ Flushed(Slot).told = Slot.told
        /\ Flushed(Slot).flushed = Slot.flushed + Slot.open /\ Flushed(Slot).open = 0
        /\ Flushed(Slot).demand = Slot.demand /\ Flushed(Slot).complete = Slot.complete
    BY <1>c, <2>1 DEF Flushed, Slots
  <2> QED
    BY <1>v, <2>2 DEF Sound, Stored
<1>k. /\ Capped(Slot) \in Slots /\ Capped(Slot).rows = Slot.flushed /\ Capped(Slot).open = 0
      /\ Capped(Slot).demand = Slot.demand /\ Capped(Slot).complete = Slot.complete
      /\ Capped(Slot).flushed = Slot.flushed
  <2>1. Slot.rows - Slot.open = Slot.flushed /\ 0 \in 0..PageRows
    BY <1>v DEF Sizes
  <2> QED
    BY <1>c, <1>v, <2>1 DEF Capped, Slots
<1>p. ASSUME NEW t \in Slots, Put(t), Sound(t), t.rows <= Slot.rows, t.demand = Slot.demand,
             \/ t.complete /\ current' = 0
             \/ ~t.complete /\ current' = current /\ pc' = "over"
      PROVE  /\ slots' \in Seq(Slots) /\ Len(slots') = Len(slots) /\ DOMAIN slots' = DOMAIN slots
             /\ SlotsInv' /\ \A r \in DOMAIN slots' : slots'[r].rows <= slots'[r].demand + Ahead + MaxBatch
             /\ current' \in 0..Len(slots')
  <2>1. /\ slots' \in Seq(Slots) /\ Len(slots') = Len(slots) /\ DOMAIN slots' = DOMAIN slots
        /\ slots'[current] = t
        /\ \A r \in DOMAIN slots : r # current => slots'[r] = slots[r]
    BY <1>t, <1>c, <1>p, PutBack, Types
  <2>2. t.rows \in Nat /\ t.rows <= t.demand + Ahead + MaxBatch
    BY <1>v, <1>p DEF Slots
  <2>3. current \in 0..Len(slots) /\ 0 \in 0..Len(slots) /\ 0 \notin DOMAIN slots
    BY <1>t, Types
  <2>4. SlotsInv'
    BY <1>p, <2>1, <2>3 DEF Inv, SlotsInv, Sound, Stored
  <2> QED
    BY <1>p, <2>1, <2>2, <2>3, <2>4 DEF Inv, ReadInv
<1>1. CASE EndEvent /\ pc' = "finish"
  <2>1. UNCHANGED <<slots, current>> /\ server' \in {"between", "ended"}
    BY <1>1, <1>0 DEF EndEvent, ServerMoves
  <2>2. TypeOK'
    BY <1>t, <1>0, <1>1, <2>1 DEF TypeOK
  <2> QED
    BY <1>0, <1>1, <2>1, <2>2 DEF Inv, PlaceInv, SlotsInv, ReadInv, EndEvent
<1>2. CASE EndEvent /\ pc' # "finish"
  <2> DEFINE s == IF Slot.open > 0 THEN Capped(Slot) ELSE Slot
             t == [s EXCEPT !.told = s.rows, !.complete = TRUE]
  <2>1. Put(t) /\ current' = 0 /\ pc = "next" /\ pc' = "next" /\ server' \in {"between", "ended"}
    BY <1>2 DEF EndEvent, ServerMoves
  <2>2. /\ s \in Slots /\ s.rows <= Slot.rows /\ s.rows \in Nat /\ s.rows = s.flushed + s.open /\ s.demand = Slot.demand
    <3>1. CASE Slot.open > 0
      BY <1>v, <1>k, <3>1
    <3>2. CASE ~(Slot.open > 0)
      BY <1>v, <1>c, <3>2
    <3> QED
      BY <3>1, <3>2
  <2> HIDE DEF s
  <2>3. /\ t \in Slots /\ t.rows = s.rows /\ t.told = s.rows /\ t.complete /\ t.demand = Slot.demand
        /\ t.flushed = s.flushed /\ t.open = s.open
    BY <2>2 DEF Slots
  <2>4. Sound(t)
    BY <2>2, <2>3 DEF Sound, Stored
  <2> HIDE DEF t
  <2>5. /\ slots' \in Seq(Slots) /\ Len(slots') = Len(slots) /\ DOMAIN slots' = DOMAIN slots
        /\ SlotsInv' /\ \A r \in DOMAIN slots' : slots'[r].rows <= slots'[r].demand + Ahead + MaxBatch
        /\ current' \in 0..Len(slots')
    BY <1>p, <2>1, <2>2, <2>3, <2>4
  <2>6. TypeOK'
    BY <1>t, <1>0, <2>1, <2>5, Types DEF TypeOK, Slots
  <2>7. PlaceInv'
    BY <1>0, <2>1, <2>5 DEF Inv, PlaceInv
  <2> QED
    BY <2>1, <2>5, <2>6, <2>7 DEF Inv, ReadInv
<1>3. CASE Finished
  <2> DEFINE t == [Flushed(Slot) EXCEPT !.complete = TRUE, !.told = Stored(Slot)]
  <2>1. Put(t) /\ current' = 0 /\ pc = "finish" /\ pc' = "next" /\ server' = server /\ server # "rows"
    BY <1>3 DEF Finished, Inv, PlaceInv
  <2>2. Stored(Slot) = Slot.rows
    BY <1>v DEF Stored
  <2>3. /\ t \in Slots /\ t.rows = Slot.rows /\ t.told = Slot.rows /\ t.complete /\ t.demand = Slot.demand
        /\ t.flushed = Slot.rows /\ t.open = 0
    BY <1>v, <1>f, <2>2 DEF Slots
  <2>4. Sound(t)
    BY <1>v, <2>3 DEF Sound, Stored
  <2> HIDE DEF t
  <2>5. /\ slots' \in Seq(Slots) /\ Len(slots') = Len(slots) /\ DOMAIN slots' = DOMAIN slots
        /\ SlotsInv' /\ \A r \in DOMAIN slots' : slots'[r].rows <= slots'[r].demand + Ahead + MaxBatch
        /\ current' \in 0..Len(slots')
    BY <1>p, <1>v, <2>1, <2>3, <2>4
  <2>6. TypeOK'
    BY <1>t, <1>0, <2>1, <2>5, Types DEF TypeOK, Slots
  <2>7. PlaceInv'
    BY <1>0, <2>1, <2>5 DEF Inv, PlaceInv
  <2> QED
    BY <2>1, <2>5, <2>6, <2>7 DEF Inv, ReadInv
<1>4. CASE Ends
  <2>1. PICK s \in {Flushed(Slot), Slot} :
          LET u == IF Slot.open > 0 /\ ~Slot.full
                   THEN IF Fits(Slot) THEN s ELSE Capped(Slot)
                   ELSE Slot IN
          Put([u EXCEPT !.told = u.rows])
    BY <1>4 DEF Ends
  <2> DEFINE u == IF Slot.open > 0 /\ ~Slot.full
                  THEN IF Fits(Slot) THEN s ELSE Capped(Slot)
                  ELSE Slot
             t == [u EXCEPT !.told = u.rows]
  <2>2. /\ Put(t) /\ current' = current /\ pc' = "over" /\ server' = server
    BY <1>4, <2>1 DEF Ends
  <2>3. u \in {Flushed(Slot), Capped(Slot), Slot}
    BY <2>1
  <2> HIDE DEF u
  <2>4. /\ u \in Slots /\ u.rows <= Slot.rows /\ u.rows \in Nat /\ u.rows = u.flushed + u.open
        /\ u.demand = Slot.demand /\ ~u.complete
    BY <1>c, <1>v, <1>f, <1>k, <2>3
  <2>5. /\ t \in Slots /\ t.rows = u.rows /\ t.told = u.rows /\ ~t.complete /\ t.demand = Slot.demand
        /\ t.flushed = u.flushed /\ t.open = u.open
    BY <2>4 DEF Slots
  <2>6. Sound(t)
    BY <2>4, <2>5 DEF Sound, Stored
  <2> HIDE DEF t
  <2>7. /\ slots' \in Seq(Slots) /\ Len(slots') = Len(slots) /\ DOMAIN slots' = DOMAIN slots
        /\ SlotsInv' /\ \A r \in DOMAIN slots' : slots'[r].rows <= slots'[r].demand + Ahead + MaxBatch
        /\ current' \in 0..Len(slots')
    BY <1>p, <2>2, <2>4, <2>5, <2>6
  <2>8. TypeOK'
    BY <1>t, <1>0, <2>2, <2>7, Types DEF TypeOK, Slots
  <2>9. PlaceInv'
    BY <1>0, <1>4, <2>2, <2>7 DEF Inv, PlaceInv, Ends
  <2> QED
    BY <2>2, <2>7, <2>8, <2>9 DEF Inv, ReadInv
<1> QED
  BY <1>1, <1>2, <1>3, <1>4

\* The steps that add a slot: a result that gives rows, and a statement without.
LEMMA AddsStep == Sizes /\ Inv /\ (Created \/ NoRows) => Inv'
<1> SUFFICES ASSUME Sizes, Inv, Created \/ NoRows PROVE Inv'
  OBVIOUS
<1>t. TypeOK
  BY DEF Inv
<1>0. /\ current = 0 /\ ~waiting /\ state = "running" /\ disposing # "done" /\ Len(slots) < MaxResults
      /\ UNCHANGED <<state, cancelled, waiting, waiter, batch, demands, stopped, disposing>>
      /\ pc' = "next"
  BY DEF Created, NoRows, Inv, PlaceInv
<1>1. \E demand \in Nat, complete \in BOOLEAN :
        /\ slots' = Append(slots, NewSlot(demand, complete))
        /\ IF complete THEN current' = 0 /\ server' \in {"between", "ended"} /\ files' = files
           ELSE /\ current' = Len(slots) + 1 /\ server' = "rows"
                /\ files' = files \cup {Len(slots) + 1}
  <2>1. CASE Created
    <3>1. demands[Len(slots) + 1] \in Nat
      BY <1>t, <1>0, Types DEF Sizes
    <3>2. Bigger(Initial, demands[Len(slots) + 1]) \in Nat
      BY <3>1 DEF Bigger, Sizes
    <3>3. server = "rows"
      BY <2>1 DEF Created, Inv, PlaceInv
    <3> QED
      BY <2>1, <3>2, <3>3 DEF Created
  <2>2. CASE NoRows
    BY <1>0, <2>2 DEF NoRows, ServerMoves
  <2> QED
    BY <2>1, <2>2
<1>2. PICK demand \in Nat, complete \in BOOLEAN :
        /\ slots' = Append(slots, NewSlot(demand, complete))
        /\ IF complete THEN current' = 0 /\ server' \in {"between", "ended"} /\ files' = files
           ELSE /\ current' = Len(slots) + 1 /\ server' = "rows"
                /\ files' = files \cup {Len(slots) + 1}
  BY <1>1
<1> DEFINE t == NewSlot(demand, complete)
<1>3. /\ t \in Slots /\ t.rows = 0 /\ t.open = 0 /\ t.open < PageRows /\ Sound(t) /\ t.demand = demand
      /\ t.complete = complete /\ slots' = Append(slots, t)
  BY <1>2 DEF NewSlot, Slots, Sound, Stored, Sizes
<1> HIDE DEF t
<1>p. /\ slots' \in Seq(Slots) /\ Len(slots') = Len(slots) + 1
      /\ DOMAIN slots' = DOMAIN slots \cup {Len(slots) + 1} /\ Len(slots) + 1 \notin DOMAIN slots
      /\ Len(slots) + 1 # 0 /\ Len(slots) \in Nat
      /\ slots'[Len(slots) + 1] = t
      /\ \A r \in DOMAIN slots : slots'[r] = slots[r]
  <2>1. slots \in Seq(Slots) /\ t \in Slots /\ slots' = Append(slots, t)
    BY <1>t, <1>3, Types
  <2> QED
    BY <2>1, Added
<1>n. current' \in 0..Len(slots') /\ Len(slots') <= MaxResults /\ 0 \notin DOMAIN slots'
  BY <1>t, <1>0, <1>2, <1>p, Types DEF Sizes
<1>4. TypeOK'
  <2>1. \A r \in {current'} \ {0} : slots'[r].open < PageRows
    BY <1>2, <1>3, <1>p
  <2>2. files' \subseteq DOMAIN slots' /\ server' \in {"between", "rows", "ended"}
    BY <1>t, <1>2, <1>p, Types
  <2> QED
    BY <1>t, <1>0, <1>p, <1>n, <2>1, <2>2, Types DEF TypeOK, Slots
<1>5. PlaceInv'
  BY <1>0, <1>2, <1>p DEF Inv, PlaceInv
<1>6. SlotsInv'
  <2>1. \A r \in DOMAIN slots : Sound(slots'[r]) /\ slots'[r].complete /\ r # current'
    BY <1>0, <1>2, <1>p, <1>n DEF Inv, SlotsInv, Sound, Stored
  <2>2. Sound(t) /\ (t.complete <=> Len(slots) + 1 # current')
    BY <1>2, <1>3, <1>p
  <2> QED
    BY <1>p, <2>1, <2>2 DEF SlotsInv, Sound, Stored
<1>7. ReadInv'
  <2>1. t.rows <= t.demand + Ahead /\ t.rows <= t.demand + Ahead + MaxBatch
    BY <1>3 DEF Sizes
  <2> QED
    BY <1>0, <1>2, <1>p, <2>1 DEF Inv, ReadInv
<1> QED
  BY <1>4, <1>5, <1>6, <1>7 DEF Inv

\* The window asks for more.
LEMMA DemandStep ==
    ASSUME Sizes, Inv, NEW r \in 1..MaxResults, NEW n \in 1..MaxRows, Demand(r, n) PROVE Inv'
<1>t. TypeOK
  BY DEF Inv
<1>0. /\ UNCHANGED <<pc, state, cancelled, waiting, current, batch, server, stopped, files, disposing>>
      /\ waiter' = FALSE /\ demands' = [demands EXCEPT ![r] = n]
      /\ slots' = IF r \in DOMAIN slots THEN [slots EXCEPT ![r].demand = Bigger(@, n)] ELSE slots
  BY DEF Demand, Wake
<1>1. demands' \in [1..MaxResults -> 0..MaxRows]
  <2>1. demands \in [1..MaxResults -> 0..MaxRows] /\ n \in 0..MaxRows
    BY <1>t, Types DEF Sizes
  <2> QED
    BY <1>0, <2>1
<1>2. /\ slots' \in Seq(Slots) /\ Len(slots') = Len(slots) /\ DOMAIN slots' = DOMAIN slots
      /\ \A q \in DOMAIN slots :
           /\ slots'[q].rows = slots[q].rows /\ slots'[q].told = slots[q].told /\ slots'[q].open = slots[q].open
           /\ slots'[q].flushed = slots[q].flushed /\ slots'[q].complete = slots[q].complete
           /\ slots'[q].capped = slots[q].capped
           /\ slots'[q].demand >= slots[q].demand
           /\ slots[q].rows \in Nat /\ slots[q].demand \in Nat /\ slots'[q].demand \in Nat
  <2>t. slots \in Seq(Slots) /\ \A q \in DOMAIN slots : slots[q] \in Slots
    BY <1>t, Types
  <2>f. \A q \in DOMAIN slots : slots[q].rows \in Nat /\ slots[q].demand \in Nat /\ slots[q].demand >= slots[q].demand
    <3> SUFFICES ASSUME NEW q \in DOMAIN slots
                 PROVE  slots[q].rows \in Nat /\ slots[q].demand \in Nat /\ slots[q].demand >= slots[q].demand
      OBVIOUS
    <3>1. slots[q] \in Slots
      BY <2>t
    <3>2. slots[q].rows \in Nat /\ slots[q].demand \in Nat
      BY <3>1 DEF Slots
    <3> QED
      BY <3>2
  <2>1. CASE r \notin DOMAIN slots
    <3>1. slots' = slots
      BY <1>0, <2>1
    <3> QED
      BY <2>t, <2>f, <3>1
  <2>2. CASE r \in DOMAIN slots
    <3> DEFINE s == [slots[r] EXCEPT !.demand = Bigger(@, n)]
    <3>1. slots[r] \in Slots /\ Bigger(slots[r].demand, n) \in Nat /\ Bigger(slots[r].demand, n) >= slots[r].demand
      <4>1. slots[r] \in Slots /\ slots[r].demand \in Nat /\ n \in Nat
        BY <2>t, <2>2, <2>f DEF Sizes
      <4> QED
        BY <4>1 DEF Bigger
    <3>2. /\ s \in Slots /\ s.rows = slots[r].rows /\ s.told = slots[r].told /\ s.open = slots[r].open
          /\ s.flushed = slots[r].flushed /\ s.complete = slots[r].complete /\ s.capped = slots[r].capped
          /\ s.demand = Bigger(slots[r].demand, n)
      BY <3>1 DEF Slots
    <3>3. slots' = [slots EXCEPT ![r] = s]
      BY <1>0, <2>2
    <3> HIDE DEF s
    <3>4. /\ slots' \in Seq(Slots) /\ Len(slots') = Len(slots) /\ DOMAIN slots' = DOMAIN slots
          /\ slots'[r] = s /\ \A q \in DOMAIN slots : q # r => slots'[q] = slots[q]
      BY <2>t, <2>2, <3>2, <3>3
    <3> QED
      BY <2>f, <3>1, <3>2, <3>4
  <2> QED
    BY <2>1, <2>2
<1>c. current # 0 => current \in DOMAIN slots
  BY <1>t, Types
<1>3. TypeOK'
  <2>1. \A q \in {current} \ {0} : pc \in {"next", "sleep"} => slots'[q].open < PageRows
    BY <1>t, <1>c, <1>2, Types
  <2>2. current' \in 0..Len(slots') /\ Len(slots') <= MaxResults /\ files' \subseteq DOMAIN slots'
    BY <1>t, <1>0, <1>2, Types
  <2>3. /\ pc' = pc /\ state' = state /\ cancelled' = cancelled /\ waiting' = waiting /\ current' = current
        /\ batch' = batch /\ server' = server /\ stopped' = stopped /\ disposing' = disposing /\ waiter' \in BOOLEAN
    BY <1>0
  <2> QED
    BY <1>t, <1>1, <1>2, <2>1, <2>2, <2>3 DEF TypeOK, Slots
<1>4. PlaceInv'
  BY <1>0, <1>2, <1>c DEF Inv, PlaceInv
<1>5. SlotsInv'
  BY <1>0, <1>2 DEF Inv, SlotsInv, Sound, Stored
<1>6. ReadInv'
  <2>1. \A q \in DOMAIN slots, a \in Nat : slots[q].rows + a <= slots[q].demand + Ahead + MaxBatch
                                         => slots'[q].rows + a <= slots'[q].demand + Ahead + MaxBatch
    <3> SUFFICES ASSUME NEW q \in DOMAIN slots, NEW a \in Nat,
                        slots[q].rows + a <= slots[q].demand + Ahead + MaxBatch
                 PROVE  slots'[q].rows + a <= slots'[q].demand + Ahead + MaxBatch
      OBVIOUS
    <3>1. /\ slots'[q].rows = slots[q].rows /\ slots'[q].demand >= slots[q].demand /\ slots[q].rows \in Nat
          /\ slots[q].demand \in Nat /\ slots'[q].demand \in Nat /\ Ahead \in Nat /\ MaxBatch \in Nat
      BY <1>2 DEF Sizes
    <3> QED
      BY <3>1
  <2>2. \A q \in DOMAIN slots : /\ slots[q].rows <= slots[q].demand + Ahead + MaxBatch
                                   => slots'[q].rows <= slots'[q].demand + Ahead + MaxBatch
                                /\ slots[q].rows <= slots[q].demand + Ahead => slots'[q].rows <= slots'[q].demand + Ahead
    BY <1>2 DEF Sizes
  <2>3. batch \in Nat
    BY <1>t, Types DEF Sizes
  <2>4. current # 0 => (slots[current].rows + batch <= slots[current].demand + Ahead + MaxBatch
                          => slots'[current].rows + batch <= slots'[current].demand + Ahead + MaxBatch)
    BY <1>c, <2>1, <2>3
  <2>5. pc = "append" => current # 0
    BY DEF Inv, PlaceInv
  <2> QED
    BY <1>0, <1>2, <1>c, <2>2, <2>4, <2>5 DEF Inv, ReadInv
<1> QED
  BY <1>3, <1>4, <1>5, <1>6 DEF Inv

\* The steps that leave the slots alone.
LEMMA OtherSteps ==
    Sizes /\ Inv /\ (Columns \/ Resume \/ SeesCancel \/ LoopEnds \/ Fails \/ CancelCall \/ Dispose \/ DisposeEnds)
      => Inv'
<1> SUFFICES ASSUME Sizes, Inv,
                    Columns \/ Resume \/ SeesCancel \/ LoopEnds \/ Fails \/ CancelCall \/ Dispose \/ DisposeEnds
             PROVE  Inv'
  OBVIOUS
<1>t. TypeOK
  BY DEF Inv
<1>0. UNCHANGED <<slots, current, batch, demands>>
  BY DEF Columns, Resume, SeesCancel, LoopEnds, Fails, CancelCall, Cancel, Dispose, DisposeEnds
<1>s. SlotsInv'
  BY <1>0 DEF Inv, SlotsInv, Sound, Stored
<1>c. current # 0 => current \in DOMAIN slots /\ slots[current] \in Slots
  BY <1>t, Types
<1>1. CASE Columns
  <2>1. TypeOK'
    BY <1>t, <1>0, <1>1 DEF TypeOK, Columns
  <2>2. current = 0 /\ ~waiting
    BY <1>1 DEF Columns, Inv, PlaceInv
  <2>3. PlaceInv' /\ ReadInv'
    BY <1>0, <1>1, <2>2 DEF Columns, Inv, PlaceInv, ReadInv
  <2> QED
    BY <1>s, <2>1, <2>3 DEF Inv
<1>2. CASE Resume
  <2>1. /\ pc = "sleep" /\ current # 0 /\ server = "rows" /\ state = "running" /\ disposing # "done"
        /\ UNCHANGED <<state, cancelled, server, stopped, files, disposing>>
    BY <1>2 DEF Resume, Inv, PlaceInv
  <2>2. \/ pc' = "sleep" /\ waiting' = TRUE /\ waiter' = TRUE
        \/ pc' = "next" /\ waiting' = FALSE /\ waiter' = waiter /\ (cancelled \/ ~Enough(slots[current]))
    BY <1>2 DEF Resume, Wait, Slot
  <2>3. TypeOK'
    BY <1>t, <1>0, <2>1, <2>2 DEF TypeOK
  <2>4. PlaceInv'
    BY <1>0, <2>1, <2>2 DEF Inv, PlaceInv
  <2>5. ~Enough(slots[current]) => slots[current].rows <= slots[current].demand + Ahead
    <3>1. slots[current].rows \in Nat /\ slots[current].demand \in Nat
      BY <1>c, <2>1 DEF Slots
    <3> QED
      BY <3>1 DEF Enough, Sizes
  <2>6. ReadInv'
    BY <1>0, <2>1, <2>2, <2>5 DEF Inv, ReadInv
  <2> QED
    BY <1>s, <2>3, <2>4, <2>6 DEF Inv
<1>3. CASE SeesCancel
  <2>1. TypeOK'
    BY <1>t, <1>0, <1>3 DEF TypeOK, SeesCancel
  <2> QED
    BY <1>s, <1>0, <1>3, <2>1 DEF SeesCancel, Inv, PlaceInv, ReadInv
<1>4. CASE LoopEnds
  <2>1. /\ state = "running" /\ state' = Outcome /\ pc' = (IF current = 0 THEN "over" ELSE "ending")
        /\ pc \in {"leaving", "next"} /\ ~waiting /\ disposing # "done"
        /\ UNCHANGED <<cancelled, waiting, waiter, server, stopped, files, disposing>>
    BY <1>4 DEF LoopEnds, Inv, PlaceInv
  <2>2. state' \in {"done", "cancelled"}
    BY <2>1 DEF Outcome
  <2>3. TypeOK'
    BY <1>t, <1>0, <2>1, <2>2 DEF TypeOK
  <2>4. state' = "done" => current = 0
    <3>1. ASSUME current # 0, ~cancelled PROVE slots[current].capped /\ ~slots[current].complete
      <4>1. pc = "leaving"
        BY <1>4, <2>1, <3>1 DEF LoopEnds, Inv, PlaceInv
      <4> QED
        BY <1>c, <3>1, <4>1 DEF Inv, PlaceInv, SlotsInv
    <3> QED
      BY <1>c, <2>1, <3>1 DEF Outcome
  <2>5. PlaceInv'
    BY <1>0, <2>1, <2>2, <2>4 DEF PlaceInv
  <2>6. ReadInv'
    BY <1>0, <2>1 DEF Inv, ReadInv
  <2> QED
    BY <1>s, <2>3, <2>5, <2>6 DEF Inv
<1>5. CASE Fails
  <2>1. /\ state' \in {"failed", "cancelled"} /\ pc' = (IF current = 0 THEN "over" ELSE "ending")
        /\ ~waiting /\ disposing # "done"
        /\ UNCHANGED <<cancelled, waiting, waiter, server, stopped, files, disposing>>
    BY <1>5 DEF Fails, Inv, PlaceInv
  <2>2. TypeOK'
    BY <1>t, <1>0, <2>1 DEF TypeOK
  <2>3. PlaceInv' /\ ReadInv'
    BY <1>0, <2>1 DEF Inv, PlaceInv, ReadInv
  <2> QED
    BY <1>s, <2>2, <2>3 DEF Inv
<1>6. CASE CancelCall \/ Dispose
  <2>1. /\ UNCHANGED <<pc, state, waiting, server, files>>
        /\ \/ cancelled' = TRUE /\ stopped' = TRUE /\ waiter' = FALSE
           \/ UNCHANGED <<cancelled, stopped, waiter>>
        /\ disposing' = disposing \/ disposing' = "called"
    BY <1>6 DEF CancelCall, Dispose, Cancel, Wake
  <2>2. TypeOK'
    BY <1>t, <1>0, <2>1 DEF TypeOK
  <2>3. PlaceInv' /\ ReadInv'
    BY <1>0, <2>1 DEF Inv, PlaceInv, ReadInv
  <2> QED
    BY <1>s, <2>2, <2>3 DEF Inv
<1>7. CASE DisposeEnds
  <2>1. /\ pc = "over" /\ files' = {} /\ disposing' = "done"
        /\ UNCHANGED <<pc, state, cancelled, waiting, waiter, server, stopped>>
    BY <1>t, <1>7, Types DEF DisposeEnds, Disposable
  <2>2. TypeOK'
    BY <1>t, <1>0, <2>1 DEF TypeOK
  <2>3. PlaceInv' /\ ReadInv'
    BY <1>0, <2>1 DEF Inv, PlaceInv, ReadInv
  <2> QED
    BY <1>s, <2>2, <2>3 DEF Inv
<1> QED
  BY <1>1, <1>2, <1>3, <1>4, <1>5, <1>6, <1>7

LEMMA StepInv == Sizes /\ Inv /\ [Next]_vars => Inv'
<1> SUFFICES ASSUME Sizes, Inv, [Next]_vars PROVE Inv'
  OBVIOUS
<1>1. CASE Run
  BY <1>1, RowsStep, EndsStep, AddsStep, OtherSteps DEF Run
<1>2. CASE \E r \in 1..MaxResults, n \in 1..MaxRows : Demand(r, n)
  BY <1>2, DemandStep
<1>3. CASE CancelCall \/ Dispose \/ DisposeEnds
  BY <1>3, OtherSteps
<1>4. CASE UNCHANGED vars
  <2>1. UNCHANGED <<pc, state, cancelled, waiting, waiter, slots, current, batch, demands, server, stopped,
                    files, disposing>>
    BY <1>4 DEF vars
  <2>2. TypeOK'
    BY <2>1 DEF Inv, TypeOK
  <2> QED
    BY <2>1, <2>2 DEF Inv, PlaceInv, SlotsInv, Sound, Stored, ReadInv
<1> QED
  BY <1>1, <1>2, <1>3, <1>4 DEF Next

(* -------------------------------- theorems ------------------------------- *)

\* The inductive invariant holds in every state of every run (queryRun.ts, spool.ts).
THEOREM QueryRunInvariance == QueryRunAssumption => (Spec => []Inv)
<1> SUFFICES ASSUME QueryRunAssumption PROVE Spec => []Inv
  OBVIOUS
<1>1. Init => Inv
  BY InitInv
<1>2. Inv /\ [Next]_vars => Inv'
  BY SizesHold, StepInv
<1> QED
  BY <1>1, <1>2, PTL DEF Spec

\* The rows a window is told of are stored, whatever page the file had no room for; the run
\* reads no further ahead than the lookahead and one event; a run that is done has every
\* result to its end; dispose() leaves no file (RowsAreTrue).
THEOREM QueryRunRowsAreTrue == QueryRunAssumption => (Spec => []RowsAreTrue)
<1>1. Inv => RowsAreTrue
  <2> SUFFICES ASSUME Inv PROVE RowsAreTrue
    OBVIOUS
  <2>1. ReadAheadBounded
    BY DEF Inv, ReadInv, ReadAheadBounded, Ahead
  <2>2. ToldIsStored
    BY DEF Inv, SlotsInv, Sound, ToldIsStored
  <2>3. DoneIsComplete
    <3>1. 0 \notin DOMAIN slots
      BY Types DEF Inv
    <3> QED
      BY <3>1 DEF Inv, PlaceInv, SlotsInv, DoneIsComplete
  <2>4. DisposedLeavesNoFile
    BY DEF Inv, PlaceInv, DisposedLeavesNoFile
  <2> QED
    BY <2>1, <2>2, <2>3, <2>4 DEF Inv, RowsAreTrue
<1> QED
  BY <1>1, QueryRunInvariance, PTL

\* The run implements what the service relies on: it pauses and goes on while it runs, settles
\* once, never as done after a cancel, and then finishes (KeepsPromise, the abstract
\* specification StatementRun).
THEOREM QueryRunKeepsPromise == QueryRunAssumption => (Spec => KeepsPromise)
<1>1. Init => Promise!Init
  BY DEF Init, Promise!Init
<1>2. Inv /\ [Next]_vars => [Promise!Next]_(Promise!runVars)
  <2> SUFFICES ASSUME Inv, [Next]_vars PROVE Promise!Next \/ UNCHANGED Promise!runVars
    OBVIOUS
  <2>i. /\ waiting \in BOOLEAN /\ cancelled \in BOOLEAN
        /\ waiting <=> pc = "sleep"
        /\ state = "running" <=> pc \notin {"ending", "over"}
    BY DEF Inv, PlaceInv, TypeOK
  <2>1. CASE Columns \/ NoRows \/ Created \/ EndEvent \/ Finished \/ SeesCancel
    <3>1. pc # "over" /\ pc' # "over" /\ UNCHANGED <<state, waiting, cancelled>>
      BY <2>1 DEF Columns, NoRows, Created, EndEvent, Finished, SeesCancel
    <3> QED
      BY <3>1 DEF Promise!runVars
  <2>2. CASE RowsEvent \/ PageWritten
    <3>1. pc \in {"next", "append"} /\ UNCHANGED <<state, cancelled>>
      BY <2>2 DEF RowsEvent, PageWritten
    <3>2. \/ waiting' = TRUE /\ ~cancelled /\ pc' = "sleep"
          \/ waiting' = FALSE /\ pc' = "next"
          \/ waiting' = waiting /\ pc' \in {"append", "leaving"}
      <4>1. PICK s, n : AppendRows(s, n)
        BY <2>2 DEF RowsEvent, PageWritten
      <4> DEFINE k == IF s.open + n < PageRows THEN n ELSE PageRows - s.open
                 t == [s EXCEPT !.open = @ + k, !.rows = @ + k]
      <4>2. \/ Wait(t)
            \/ pc' = "append" /\ waiting' = waiting
            \/ pc' = "leaving" /\ waiting' = waiting
        <5>1. IF t.open < PageRows
              THEN /\ Put([t EXCEPT !.told = t.rows]) /\ Wait(t) /\ UNCHANGED stopped
              ELSE IF Fits(t)
              THEN /\ Put(t) /\ pc' = "append" /\ UNCHANGED <<waiting, waiter, stopped>>
              ELSE /\ Put([Capped(t) EXCEPT !.told = Capped(t).rows, !.capped = TRUE])
                   /\ pc' = "leaving" /\ stopped' = TRUE /\ UNCHANGED <<waiting, waiter>>
          BY <4>1 DEF AppendRows
        <5> HIDE DEF t
        <5> QED
          BY <5>1
      <4> HIDE DEF t
      <4> QED
        BY <4>2 DEF Wait
    <3> QED
      BY <2>i, <3>1, <3>2 DEF Promise!runVars, Promise!Next, Promise!Pause
  <2>3. CASE Resume
    <3>1. pc = "sleep" /\ UNCHANGED <<state, cancelled>>
      BY <2>3 DEF Resume
    <3>2. (waiting' = TRUE /\ pc' = "sleep") \/ (waiting' = FALSE /\ pc' = "next")
      BY <2>3 DEF Resume, Wait
    <3> QED
      BY <2>i, <3>1, <3>2 DEF Promise!runVars, Promise!Next, Promise!GoOn
  <2>4. CASE LoopEnds \/ Fails
    <3>1. pc \notin {"sleep", "ending", "over"} /\ UNCHANGED <<cancelled, waiting>> /\ pc' \in {"over", "ending"}
      BY <2>4 DEF LoopEnds, Fails
    <3>2. state' \in (IF cancelled THEN {"failed", "cancelled"} ELSE {"done", "failed", "cancelled"})
      BY <2>4 DEF LoopEnds, Fails, Outcome
    <3> QED
      BY <2>i, <3>1, <3>2 DEF Promise!Next, Promise!Settle
  <2>5. CASE Ends
    <3>1. pc = "ending" /\ pc' = "over" /\ UNCHANGED <<state, cancelled, waiting>>
      BY <2>5 DEF Ends
    <3> QED
      BY <2>i, <3>1 DEF Promise!Next, Promise!Finish
  <2>6. CASE CancelCall \/ Dispose
    <3>1. UNCHANGED <<pc, state, waiting>> /\ ((state = "running" /\ cancelled' = TRUE) \/ UNCHANGED cancelled)
      BY <2>6 DEF CancelCall, Dispose, Cancel
    <3> QED
      BY <3>1 DEF Promise!runVars, Promise!Next, Promise!Stop
  <2>7. CASE DisposeEnds \/ UNCHANGED vars \/ \E r \in 1..MaxResults, n \in 1..MaxRows : Demand(r, n)
    <3>1. UNCHANGED <<pc, state, cancelled, waiting>>
      BY <2>7 DEF DisposeEnds, Demand, vars
    <3> QED
      BY <3>1 DEF Promise!runVars
  <2> QED
    BY <2>1, <2>2, <2>3, <2>4, <2>5, <2>6, <2>7 DEF Next, Run
<1> QED
  BY <1>1, <1>2, QueryRunInvariance, PTL DEF Spec, KeepsPromise, Promise!Spec
=============================================================================
