--------------------------- MODULE TransfersProofs ---------------------------
(* Proofs about what a Database Host does for its tabs and tasks (MCTransfers).  *)
(* The import: a single transaction stores all or nothing, a bad record costs    *)
(* nothing but itself, and an import resumes exactly where it was cut off.  The  *)
(* script and the export: what is shown of one is what happened to it.  Then     *)
(* what holds of all of them together; the queries and the service bring their   *)
(* theorems (QueryRun, HostQueries).                                             *)
EXTENDS MCTransfers, FiniteSetTheorems, TLAPS

Kind == {"none", "batch", "all"}
Single == import.transaction = "all"
Good == File \ import.malformed

(* ------------------------------ the invariant ---------------------------- *)

Increasing(s) == \A i, j \in DOMAIN s : i < j => s[i] < s[j]
Before(s, t) == \A i \in DOMAIN s, j \in DOMAIN t : s[i] < t[j]
Within(s, first, last) == \A i \in DOMAIN s : first <= s[i] /\ s[i] <= last

\* The types, but for the weight of the queue.
Typed ==
    /\ import \in Imports
    /\ producer \in {"read", "settle", "push", "done", "failed"}
    /\ unread \in 1..(Records + 1)
    /\ tasks \in Seq(File) /\ pending \in Seq(File) /\ building \in Seq(File) /\ batch \in Seq(File)
    /\ queue \in Seq(Seq(File))
    /\ ended \in {"open", "closed", "failed"}
    /\ consumer \in {"beginAll", "take", "taken", "begin", "write", "commit", "rollback", "retry",
                     "written", "commitAll", "over", "failing", "joining"}
    /\ row \in Nat /\ sent \in BOOLEAN
    /\ aborted \in BOOLEAN /\ lost \in BOOLEAN /\ paused \in BOOLEAN
    /\ stored \in [File -> Nat] /\ inTx \in [File -> Nat] /\ unsure \in [File -> Nat]
    /\ rejected \subseteq File /\ checkpoint \in 0..(Records + 1)
    /\ result \in {"running", "done", "failed"} /\ attempt \in Nat

\* Where the producer is, and what it has in hand there.
ProducerInv ==
    /\ producer = "read" => tasks = <<>> /\ pending = <<>>
    /\ producer = "push" => building # <<>>
    /\ producer = "done" =>
         /\ tasks = <<>> /\ pending = <<>> /\ building = <<>>
         /\ unread > Records /\ ended # "open"
    /\ ended = "closed" => producer = "done"
    /\ ended = "failed" => queue = <<>>
    /\ \A i \in DOMAIN queue : queue[i] # <<>>
    /\ \A i \in DOMAIN pending : pending[i] \in import.malformed

\* What is in hand is in the order of the file: the batch that is written, those in
\* the queue, the one that is built, the rest of the chunk, and what is unread.
OrderInv ==
    /\ Increasing(batch) /\ Increasing(building) /\ Increasing(tasks)
    /\ Within(batch, checkpoint, unread - 1)
    /\ Within(building, checkpoint, unread - 1)
    /\ Within(tasks, checkpoint, unread - 1)
    /\ Before(batch, building) /\ Before(batch, tasks) /\ Before(building, tasks)
    /\ \A q \in DOMAIN queue :
         /\ Increasing(queue[q]) /\ Within(queue[q], checkpoint, unread - 1)
         /\ Before(batch, queue[q]) /\ Before(queue[q], building) /\ Before(queue[q], tasks)
         /\ \A p \in DOMAIN queue : q < p => Before(queue[q], queue[p])
    /\ checkpoint <= unread

\* Where the consumer is, and what it has in hand there.
ConsumerInv ==
    /\ consumer \in {"beginAll", "take", "commitAll"} => batch = <<>>
    /\ consumer \in {"taken", "begin", "write", "commit", "rollback", "retry", "written"} => batch # <<>>
    /\ consumer \in {"beginAll", "commitAll"} => import.transaction = "all"
    /\ consumer \in {"begin", "commit"} => import.transaction = "batch"
    /\ consumer = "retry" =>
         import.transaction # "all" /\ import.onError = "skip" /\ row \in DOMAIN batch
    /\ result # "running" => consumer = "over"
    /\ consumer = "commitAll" \/ (consumer = "over" /\ result # "failed") =>
         ended = "closed" /\ queue = <<>> /\ batch = <<>>
    /\ import.transaction = "all" => checkpoint = 0

\* A transaction of a batch is open from the write to the commit only.
TransactionInv ==
    /\ import.transaction = "none" => inTx = None
    /\ import.transaction = "batch" =>
         /\ consumer \notin {"commit", "rollback"} => inTx = None
         /\ consumer = "commit" => inTx = IF lost THEN None ELSE Plus(None, batch)

\* r is on its way through the pipeline.
InHand(r) ==
    \/ r \in ToSet(batch) \/ r \in ToSet(building) \/ r \in ToSet(tasks) \/ r >= unread
    \/ \E q \in DOMAIN queue : r \in ToSet(queue[q])

\* Without a single transaction, every good record is in hand or dealt with, until the
\* queue fails, and what comes before the last record of the batch also after that.
CoverInv ==
    ~Single =>
      /\ ended # "failed" => \A r \in Good : InHand(r) \/ Dealt(r)
      /\ batch # <<>> => \A r \in Good : r <= Last(batch) => r \in ToSet(batch) \/ Dealt(r)
      /\ consumer = "retry" => \A i \in DOMAIN batch : i < row => Dealt(batch[i])
      /\ consumer = "written" => \A i \in DOMAIN batch : Dealt(batch[i])
      /\ CheckpointIsStored

\* What an import of a table that stops at the first error was told is stored, it has stored
\* once, and nothing of it beyond its checkpoint but a batch that was just written.
FreshInv ==
    import.target = "table" /\ import.onError = "stop" /\ ~Single =>
      \A r \in File :
        /\ stored[r] <= unsure[r] + 1
        /\ stored[r] > unsure[r] => r < checkpoint \/ (consumer = "written" /\ r <= Last(batch))

\* A record that cannot be parsed is reported or on its way to be.
Reported(r) == r \in rejected \/ r \in ToSet(pending) \/ r \in ToSet(tasks) \/ r >= unread

\* In a single transaction, what has not been written is in hand, and what is stored
\* has been committed.
SingleInv ==
    Single =>
      /\ consumer \notin {"commitAll", "failing", "joining", "over"} => stored = None
      /\ consumer = "commitAll" /\ ~lost => stored = None
      /\ consumer = "written" /\ ~lost => \A i \in DOMAIN batch : inTx[batch[i]] = 1
      /\ consumer = "over" /\ result # "failed" => \A r \in Good : stored[r] = 1
      /\ stored = None \/ \A r \in Good : stored[r] = 1
      /\ ended # "failed" /\ ~lost /\ consumer \notin {"failing", "joining", "over"} =>
           \A r \in Good : InHand(r) \/ inTx[r] = 1
      /\ \A r \in File :
           /\ inTx[r] <= 1 /\ stored[r] <= 1
           /\ InHand(r) /\ (r \in ToSet(batch) => consumer \in {"taken", "write"}) => inTx[r] = 0
      /\ ended # "failed" => \A r \in import.malformed : Reported(r)

\* Only bad records are rejected while the connection holds.
RejectedInv ==
    /\ lost => "lose" \in import.fate
    /\ "lose" \notin import.fate => rejected \subseteq import.malformed \cup import.refused

Inv ==
    /\ Typed /\ ProducerInv /\ OrderInv /\ ConsumerInv /\ TransactionInv
    /\ CoverInv /\ FreshInv /\ SingleInv /\ RejectedInv

(* --------------------------------- lemmas -------------------------------- *)

\* What the assumption says of the import of a behaviour.
LEMMA ImportFacts ==
    ASSUME import \in Imports
    PROVE  /\ Records \in Nat /\ Chunk \in Nat \ {0} /\ BatchSize \in Nat \ {0}
           /\ import.transaction \in Kind /\ import.attempts \in Nat
           /\ import.malformed \subseteq File /\ import.refused \subseteq File
           /\ import.target \in {"table", "collection"} /\ import.onError \in {"stop", "skip"}
           /\ import.target = "collection" => import.transaction = "none"
  BY ImportRunAssumption DEF Import, Kind

\* Plus() counts an item once.
LEMMA PlusCounts ==
    ASSUME NEW bag \in [File -> Nat], NEW items
    PROVE  /\ Plus(bag, items) \in [File -> Nat]
           /\ \A r \in File : Plus(bag, items)[r] = bag[r] + (IF r \in ToSet(items) THEN 1 ELSE 0)
  BY DEF Plus

LEMMA NoneIsEmpty == None \in [File -> Nat] /\ \A r \in File : None[r] = 0
  BY DEF None

\* Taking the first element of a sequence.
LEMMA Rest ==
    ASSUME NEW S, NEW s \in Seq(S), s # <<>>
    PROVE  /\ Head(s) = s[1] /\ s[1] \in S /\ 1 \in DOMAIN s /\ Len(s) \in Nat \ {0}
           /\ Tail(s) \in Seq(S) /\ Len(Tail(s)) = Len(s) - 1
           /\ \A i \in DOMAIN Tail(s) : Tail(s)[i] = s[i + 1] /\ i + 1 \in DOMAIN s
           /\ \A i \in DOMAIN s : i = 1 \/ (i - 1 \in DOMAIN Tail(s) /\ s[i] = Tail(s)[i - 1])
  OBVIOUS

\* Appending an element to a sequence.
LEMMA Longer ==
    ASSUME NEW S, NEW s \in Seq(S), NEW e \in S
    PROVE  /\ Append(s, e) \in Seq(S) /\ Len(Append(s, e)) = Len(s) + 1 /\ Append(s, e) # <<>>
           /\ DOMAIN Append(s, e) = DOMAIN s \cup {Len(s) + 1} /\ Len(s) + 1 \notin DOMAIN s
           /\ Append(s, e)[Len(s) + 1] = e
           /\ \A i \in DOMAIN s : Append(s, e)[i] = s[i]
  OBVIOUS

\* The last element of a sequence that is not empty.
LEMMA LastOne ==
    ASSUME NEW S, NEW s \in Seq(S), s # <<>>
    PROVE  Len(s) \in DOMAIN s /\ Last(s) = s[Len(s)] /\ Last(s) \in S
  BY DEF Last

(* --------------------------------- types --------------------------------- *)

LEMMA InitTyped == Init => Typed
<1> SUFFICES ASSUME Init PROVE Typed
  OBVIOUS
<1>1. import \in Imports
  BY DEF Init
<1>2. stored = None /\ inTx = None /\ unsure = None /\ None \in [File -> Nat]
  BY NoneIsEmpty DEF Init
<1>3. unread \in 1..(Records + 1) /\ checkpoint \in 0..(Records + 1) /\ row \in Nat /\ attempt \in Nat
  BY <1>1, ImportFacts DEF Init
<1>4. /\ tasks \in Seq(File) /\ pending \in Seq(File) /\ building \in Seq(File) /\ batch \in Seq(File)
      /\ queue \in Seq(Seq(File))
  BY DEF Init
<1> QED
  BY <1>1, <1>2, <1>3, <1>4 DEF Init, Typed

\* What the producer reads of a chunk.
LEMMA ChunkRead ==
    ASSUME Typed, Read, ~aborted
    PROVE  \E last \in File :
             /\ unread <= last /\ unread' = last + 1
             /\ tasks' = [n \in 1..(last - unread + 1) |-> unread + n - 1]
             /\ tasks' \in Seq(File) /\ Len(tasks') = last - unread + 1
<1>1. /\ import \in Imports /\ unread \in 1..(Records + 1) /\ unread <= Records
      /\ Records \in Nat /\ Chunk \in Nat \ {0}
  BY ImportFacts DEF Typed, Read
<1> DEFINE last == IF unread + Chunk - 1 < Records THEN unread + Chunk - 1 ELSE Records
<1>2. last \in File /\ unread <= last
  BY <1>1 DEF File
<1>3. unread' = last + 1 /\ tasks' = [n \in 1..(last - unread + 1) |-> unread + n - 1]
  BY DEF Read
<1> HIDE DEF last
<1>4. last - unread + 1 \in Nat /\ \A n \in 1..(last - unread + 1) : unread + n - 1 \in File
  BY <1>1, <1>2 DEF File
<1>5. tasks' \in Seq(File) /\ Len(tasks') = last - unread + 1
  BY <1>3, <1>4
<1> QED
  BY <1>2, <1>3, <1>5

LEMMA ProduceTyped == Typed /\ UNCHANGED import /\ Produce => Typed'
<1> SUFFICES ASSUME Typed, UNCHANGED import, Produce PROVE Typed'
  OBVIOUS
<1> USE DEF Typed
<1>q. <<>> \in Seq(Seq(File)) /\ <<>> \in Seq(File)
  OBVIOUS
<1>1. ASSUME Read PROVE Typed'
  <2>1. CASE aborted
    BY <1>1, <1>q, <2>1 DEF Read, ProducerFails, cons, db, world
  <2>2. CASE ~aborted
    <3>0. PICK last \in File : unread' = last + 1 /\ tasks' \in Seq(File)
      BY <1>1, <2>2, ChunkRead
    <3>1. tasks' \in Seq(File) /\ unread' \in 1..(Records + 1)
      BY <3>0, ImportFacts DEF File
    <3> QED
      BY <1>1, <2>2, <3>1 DEF Read, cons, db, world
  <2> QED
    BY <2>1, <2>2
<1>2. ASSUME Accept PROVE Typed'
  <2>1. Head(tasks) \in File /\ Tail(tasks) \in Seq(File)
    BY <1>2, Rest DEF Accept
  <2>2. /\ tasks' \in Seq(File) /\ pending' \in Seq(File) /\ building' \in Seq(File)
        /\ producer' \in {"settle", "push"}
    <3>1. CASE Head(tasks) \in import.malformed
      <4>1. /\ tasks' = Tail(tasks) /\ pending' = Append(pending, Head(tasks)) /\ building' = building
            /\ producer' = producer /\ producer = "settle"
        BY <1>2, <3>1 DEF Accept
      <4> QED
        BY <2>1, <4>1
    <3>2. CASE Head(tasks) \notin import.malformed
      <4>1. /\ tasks' = Tail(tasks) /\ building' = Append(building, Head(tasks)) /\ pending' = pending
            /\ producer' \in {"push", "settle"}
        BY <1>2, <3>2 DEF Accept
      <4> QED
        BY <2>1, <4>1
    <3> QED
      BY <3>1, <3>2
  <2>3. UNCHANGED <<import, unread, queue, ended, rejected, cons>>
    BY <1>2 DEF Accept
  <2> QED
    BY <2>2, <2>3 DEF cons, db, world
<1>3. ASSUME Reject PROVE Typed'
  <2>1. Head(pending) \in File /\ Tail(pending) \in Seq(File)
    BY <1>3, Rest DEF Reject
  <2>2. /\ pending' \in Seq(File) /\ rejected' \subseteq File /\ producer' \in {"settle", "failed"}
        /\ ended' \in {"open", "closed", "failed"} /\ queue' \in Seq(Seq(File))
    <3>1. CASE import.onError = "stop"
      BY <1>3, <1>q, <2>1, <3>1 DEF Reject, ProducerFails
    <3>2. CASE import.onError # "stop"
      BY <1>3, <2>1, <3>2 DEF Reject
    <3> QED
      BY <3>1, <3>2
  <2>3. UNCHANGED <<unread, tasks, building, cons>>
    BY <1>3 DEF Reject
  <2> QED
    BY <2>2, <2>3 DEF cons, db, world
<1>4. ASSUME Settled PROVE Typed'
  BY <1>4 DEF Settled, cons, db, world
<1>5. ASSUME Push PROVE Typed'
  <2>1. queue' \in Seq(Seq(File)) /\ building' \in Seq(File) /\ producer' \in {"settle", "failed"}
        /\ ended' \in {"open", "closed", "failed"}
    <3>1. CASE PushThrows /\ ProducerFails /\ UNCHANGED building
      BY <1>q, <3>1 DEF ProducerFails
    <3>2. CASE /\ queue' = Append(queue, building) /\ building' = <<>>
               /\ producer' = "settle" /\ UNCHANGED ended
      BY <1>q, <3>2
    <3> QED
      BY <1>5, <3>1, <3>2 DEF Push
  <2> QED
    BY <1>5, <2>1 DEF Push, cons, db, world
<1> QED
  BY <1>1, <1>2, <1>3, <1>4, <1>5 DEF Produce

\* A write only adds.
LEMMA WriteTyped ==
    ASSUME Typed, NEW items, Write(items)
    PROVE  /\ stored' \in [File -> Nat] /\ inTx' \in [File -> Nat]
           /\ \A r \in File : stored'[r] >= stored[r]
<1>1. stored \in [File -> Nat] /\ inTx \in [File -> Nat]
  BY DEF Typed
<1>2. Plus(stored, items) \in [File -> Nat] /\ Plus(inTx, items) \in [File -> Nat]
  BY <1>1, PlusCounts
<1>3. \A r \in File : Plus(stored, items)[r] >= stored[r]
  BY <1>1, PlusCounts
<1>4. stored' = stored \/ stored' = Plus(stored, items)
  BY DEF Write
<1>5. \A r \in File : stored'[r] >= stored[r]
  BY <1>1, <1>3, <1>4
<1> QED
  BY <1>1, <1>2, <1>5 DEF Write

LEMMA SumTyped ==
    ASSUME Typed
    PROVE  /\ Committed \in [File -> Nat]
           /\ \A r \in File : Committed[r] = stored[r] + inTx[r] /\ Committed[r] >= stored[r]
  BY DEF Typed, Committed

\* What lands when the connection is lost is added.
LEMMA LandsTyped ==
    ASSUME Typed, Lands
    PROVE  stored' \in [File -> Nat] /\ \A r \in File : stored'[r] >= stored[r]
<1>1. stored \in [File -> Nat]
  BY DEF Typed
<1>2. ASSUME NEW items, stored' = Plus(stored, items)
      PROVE  stored' \in [File -> Nat] /\ \A r \in File : stored'[r] >= stored[r]
  BY <1>1, <1>2, PlusCounts
<1>3. CASE stored' = Committed
  BY <1>3, SumTyped
<1> QED
  BY <1>2, <1>3 DEF Lands

\* What the import is not told of does not change what it was told.
LEMMA UnheardTyped ==
    ASSUME Typed, stored' \in [File -> Nat], \A r \in File : stored'[r] >= stored[r], Unheard
    PROVE  /\ unsure' \in [File -> Nat]
           /\ \A r \in File : stored'[r] - unsure'[r] = stored[r] - unsure[r]
<1>1. stored \in [File -> Nat] /\ unsure \in [File -> Nat]
  BY DEF Typed
<1>2. \A r \in File : stored'[r] \in Nat /\ stored[r] \in Nat /\ unsure[r] \in Nat
  BY <1>1
<1>3. \A r \in File : unsure[r] + (stored'[r] - stored[r]) \in Nat
  BY <1>2
<1>4. unsure' = [r \in File |-> unsure[r] + (stored'[r] - stored[r])]
  BY DEF Unheard
<1>5. unsure' \in [File -> Nat] /\ \A r \in File : unsure'[r] = unsure[r] + (stored'[r] - stored[r])
  BY <1>3, <1>4
<1> QED
  BY <1>2, <1>5

LEMMA ConsumeTyped == Typed /\ ConsumerInv /\ UNCHANGED import /\ Consume => Typed'
<1> SUFFICES ASSUME Typed, ConsumerInv, UNCHANGED import, Consume PROVE Typed'
  OBVIOUS
<1> USE DEF Typed, prod, db, world
<1>q. <<>> \in Seq(Seq(File)) /\ <<>> \in Seq(File)
  OBVIOUS
<1>1. ASSUME BeginAll PROVE Typed'
  BY <1>1 DEF BeginAll, Fail
<1>2. ASSUME Take PROVE Typed'
  <2>1. batch' \in Seq(File) /\ queue' \in Seq(Seq(File))
    <3>1. CASE queue # <<>>
      <4>1. Head(queue) \in Seq(File) /\ Tail(queue) \in Seq(Seq(File))
        BY <3>1, Rest
      <4> QED
        BY <1>2, <3>1, <4>1 DEF Take
    <3>2. CASE queue = <<>>
      BY <1>2, <3>2 DEF Take
    <3> QED
      BY <3>1, <3>2
  <2>2. consumer' \in {"taken", "commitAll", "over", "failing"} /\ sent' \in BOOLEAN
    BY <1>2 DEF Take, Send, Fail
  <2> QED
    BY <1>2, <2>1, <2>2 DEF Take
<1>3. ASSUME Taken PROVE Typed'
  BY <1>3 DEF Taken, Send, Fail
<1>4. ASSUME Begin PROVE Typed'
  BY <1>4 DEF Begin, Send
<1>5. ASSUME WriteBatch PROVE Typed'
  <2>a. stored' \in [File -> Nat] /\ inTx' \in [File -> Nat] /\ \A r \in File : stored'[r] >= stored[r]
    <3>1. UNCHANGED <<stored, inTx>> \/ \E items : Write(items)
      BY <1>5 DEF WriteBatch
    <3>2. CASE UNCHANGED <<stored, inTx>>
      BY <3>2
    <3> QED
      BY <3>1, <3>2, WriteTyped
  <2>b. UNCHANGED unsure \/ Unheard
    BY <1>5 DEF WriteBatch
  <2>1. stored' \in [File -> Nat] /\ inTx' \in [File -> Nat] /\ unsure' \in [File -> Nat]
    BY <2>a, <2>b, UnheardTyped
  <2>2. consumer' \in {"commit", "written", "rollback"} /\ sent' \in BOOLEAN
    BY <1>5 DEF WriteBatch, Send
  <2> QED
    BY <1>5, <2>1, <2>2 DEF WriteBatch
<1>6. ASSUME Commit PROVE Typed'
  <2>a. (UNCHANGED <<stored, inTx>> \/ (stored' = Committed /\ inTx' = None)) /\ (UNCHANGED unsure \/ Unheard)
    BY <1>6 DEF Commit
  <2>b. stored' \in [File -> Nat] /\ inTx' \in [File -> Nat] /\ \A r \in File : stored'[r] >= stored[r]
    <3>1. CASE UNCHANGED <<stored, inTx>>
      BY <3>1
    <3>2. CASE stored' = Committed /\ inTx' = None
      BY <3>2, SumTyped, NoneIsEmpty
    <3> QED
      BY <2>a, <3>1, <3>2
  <2>1. stored' \in [File -> Nat] /\ inTx' \in [File -> Nat] /\ unsure' \in [File -> Nat]
    BY <2>a, <2>b, UnheardTyped
  <2> QED
    BY <1>6, <2>1 DEF Commit, Send
<1>7. ASSUME Rollback PROVE Typed'
  <2>1. inTx' \in [File -> Nat]
    BY <1>7, NoneIsEmpty DEF Rollback
  <2>2. consumer' \in {"failing", "retry"} /\ sent' \in BOOLEAN /\ row' \in Nat
    <3>1. CASE aborted \/ import.transaction = "all" \/ import.onError = "stop"
      BY <1>7, <3>1 DEF Rollback, Fail
    <3>2. CASE ~(aborted \/ import.transaction = "all" \/ import.onError = "stop")
      BY <1>7, <3>2 DEF Rollback, Send
    <3> QED
      BY <3>1, <3>2
  <2> QED
    BY <1>7, <2>1, <2>2 DEF Rollback
<1>8. ASSUME Retry PROVE Typed'
  <2>a. stored' \in [File -> Nat] /\ inTx' \in [File -> Nat] /\ \A r \in File : stored'[r] >= stored[r]
    <3>1. UNCHANGED <<stored, inTx>> \/ \E items : Write(items)
      BY <1>8 DEF Retry
    <3>2. CASE UNCHANGED <<stored, inTx>>
      BY <3>2
    <3> QED
      BY <3>1, <3>2, WriteTyped
  <2>b. UNCHANGED unsure \/ Unheard
    BY <1>8 DEF Retry
  <2>1. stored' \in [File -> Nat] /\ inTx' \in [File -> Nat] /\ unsure' \in [File -> Nat]
    BY <2>a, <2>b, UnheardTyped
  <2>2. batch[row] \in File
    BY <1>8 DEF ConsumerInv, Retry
  <2>3. rejected' \subseteq File /\ row' \in Nat
    <3>1. rejected' = rejected \/ rejected' = rejected \cup {batch[row]}
      BY <1>8 DEF Retry
    <3>2. row' = row \/ row' = row + 1
      BY <1>8 DEF Retry
    <3>3. rejected' \subseteq File
      BY <2>2, <3>1
    <3>4. row' \in Nat
      BY <3>2
    <3> QED
      BY <3>3, <3>4
  <2>4. consumer' \in {"written", "retry", "failing"} /\ sent' \in BOOLEAN
    BY <1>8 DEF Retry, Send, Fail
  <2> QED
    BY <1>8, <2>1, <2>3, <2>4 DEF Retry
<1>9. ASSUME Written PROVE Typed'
  <2>1. Last(batch) \in File
    BY <1>9, LastOne DEF ConsumerInv, Written
  <2>2. checkpoint' \in 0..(Records + 1)
    BY <1>9, <2>1, ImportFacts DEF Written, BatchEnd, File
  <2> QED
    BY <1>9, <1>q, <2>2 DEF Written
<1>10. ASSUME CommitAll PROVE Typed'
  <2>a. (UNCHANGED <<stored, inTx>> \/ (stored' = Committed /\ inTx' = None)) /\ (UNCHANGED unsure \/ Unheard)
    BY <1>10 DEF CommitAll
  <2>b. stored' \in [File -> Nat] /\ inTx' \in [File -> Nat] /\ \A r \in File : stored'[r] >= stored[r]
    <3>1. CASE UNCHANGED <<stored, inTx>>
      BY <3>1
    <3>2. CASE stored' = Committed /\ inTx' = None
      BY <3>2, SumTyped, NoneIsEmpty
    <3> QED
      BY <2>a, <3>1, <3>2
  <2>1. stored' \in [File -> Nat] /\ inTx' \in [File -> Nat] /\ unsure' \in [File -> Nat]
    BY <2>a, <2>b, UnheardTyped
  <2> QED
    BY <1>10, <2>1 DEF CommitAll, Fail
<1>11. ASSUME Completes PROVE Typed'
  BY <1>11 DEF Completes
<1>12. ASSUME FailQueue PROVE Typed'
  BY <1>12, <1>q DEF FailQueue
<1>13. ASSUME Fails PROVE Typed'
  BY <1>13, NoneIsEmpty DEF Fails
<1> QED
  BY <1>1, <1>2, <1>3, <1>4, <1>5, <1>6, <1>7, <1>8, <1>9, <1>10, <1>11, <1>12, <1>13 DEF Consume

LEMMA AroundTyped == Typed /\ UNCHANGED import /\ (Cancel \/ Lose \/ Pause \/ Resume) => Typed'
<1> SUFFICES ASSUME Typed, UNCHANGED import, Cancel \/ Lose \/ Pause \/ Resume PROVE Typed'
  OBVIOUS
<1> USE DEF Typed
<1>q. <<>> \in Seq(Seq(File)) /\ <<>> \in Seq(File)
  OBVIOUS
<1>1. ASSUME Cancel PROVE Typed'
  BY <1>1 DEF Cancel, rest, prod, db
<1>2. ASSUME Lose PROVE Typed'
  <2>1. stored' \in [File -> Nat] /\ \A r \in File : stored'[r] >= stored[r]
    <3>1. CASE UNCHANGED stored
      BY <3>1
    <3> QED
      BY <1>2, <3>1, LandsTyped DEF Lose
  <2>2. unsure' \in [File -> Nat]
    BY <1>2, <2>1, UnheardTyped DEF Lose
  <2> QED
    BY <1>2, <2>1, <2>2, NoneIsEmpty DEF Lose, rest, prod
<1>3. ASSUME Pause PROVE Typed'
  BY <1>3 DEF Pause, rest, prod, db
<1>4. ASSUME Resume PROVE Typed'
  <2>1. checkpoint \in 1..(Records + 1) /\ attempt + 1 \in Nat
    BY <1>4 DEF Resume
  <2> QED
    BY <1>4, <1>q, <2>1 DEF Resume, db
<1> QED
  BY <1>1, <1>2, <1>3, <1>4

(* ------------------------------- the producer ---------------------------- *)

\* The steps that leave the producer and the queue alone.
LEMMA ElsewhereSteps ==
    ASSUME BeginAll \/ Taken \/ Begin \/ WriteBatch \/ Commit \/ Rollback \/ Retry \/ Written \/ CommitAll
           \/ Completes \/ Fails \/ Cancel \/ Lose \/ Pause
    PROVE  UNCHANGED <<producer, tasks, pending, building, unread, ended, queue>>
  BY DEF BeginAll, Taken, Begin, WriteBatch, Commit, Rollback, Retry, Written, CommitAll, Completes, Fails,
         Cancel, Lose, Pause, rest, prod

LEMMA ProducerStep == Typed /\ ProducerInv /\ Next => ProducerInv'
<1> SUFFICES ASSUME Typed, ProducerInv, Next PROVE ProducerInv'
  OBVIOUS
<1>i. import' = import
  BY DEF Next
<1>t. /\ tasks \in Seq(File) /\ pending \in Seq(File) /\ building \in Seq(File) /\ queue \in Seq(Seq(File))
      /\ Records \in Nat
  BY ImportFacts DEF Typed
<1>f. ASSUME ProducerFails, producer # "done", pending' = pending \/ \A i \in DOMAIN pending' : pending'[i] \in import.malformed
      PROVE  ProducerInv'
  <2>1. ended \in {"open", "failed"} /\ ended' = "failed" /\ producer' = "failed"
    BY <1>f DEF ProducerInv, ProducerFails, Typed
  <2>2. queue' = <<>>
    BY <1>f DEF ProducerInv, ProducerFails, Typed
  <2> QED
    BY <1>i, <1>f, <2>1, <2>2 DEF ProducerInv
<1>1. ASSUME Read PROVE ProducerInv'
  <2>1. CASE aborted
    BY <1>1, <1>f, <2>1 DEF Read
  <2>2. CASE ~aborted
    BY <1>i, <1>1, <2>2 DEF Read, ProducerInv
  <2> QED
    BY <2>1, <2>2
<1>2. ASSUME Accept PROVE ProducerInv'
  <2>1. ended # "closed" /\ UNCHANGED <<ended, queue>>
    BY <1>2 DEF Accept, ProducerInv
  <2>2. CASE Head(tasks) \in import.malformed
    <3>1. /\ pending' = Append(pending, Head(tasks)) /\ producer' = "settle" /\ Head(tasks) \in File
      BY <1>t, <1>2, <2>2, Rest DEF Accept
    <3>2. \A i \in DOMAIN pending' : pending'[i] \in import.malformed
      <4>1. \A i \in DOMAIN pending' :
              (i \in DOMAIN pending /\ pending'[i] = pending[i]) \/ pending'[i] = Head(tasks)
        BY <1>t, <3>1, Longer
      <4> QED
        BY <2>2, <4>1 DEF ProducerInv
    <3> QED
      BY <1>i, <2>1, <3>1, <3>2 DEF ProducerInv
  <2>3. CASE Head(tasks) \notin import.malformed
    <3>1. /\ building' = Append(building, Head(tasks)) /\ producer' \in {"push", "settle"} /\ UNCHANGED pending
          /\ Head(tasks) \in File
      BY <1>t, <1>2, <2>3, Rest DEF Accept
    <3>2. building' # <<>>
      BY <1>t, <3>1, Longer
    <3> QED
      BY <1>i, <2>1, <3>1, <3>2 DEF ProducerInv
  <2> QED
    BY <2>2, <2>3
<1>3. ASSUME Reject PROVE ProducerInv'
  <2>1. pending' = Tail(pending) /\ pending # <<>> /\ producer = "settle" /\ UNCHANGED <<tasks, building, unread>>
    BY <1>3 DEF Reject
  <2>2. \A i \in DOMAIN pending' : pending'[i] \in import.malformed
    BY <1>t, <2>1, Rest DEF ProducerInv
  <2>3. CASE import.onError = "stop"
    BY <1>3, <1>f, <2>1, <2>2, <2>3 DEF Reject
  <2>4. CASE import.onError # "stop"
    BY <1>i, <1>3, <2>1, <2>2, <2>4 DEF Reject, ProducerInv
  <2> QED
    BY <2>3, <2>4
<1>4. ASSUME Settled PROVE ProducerInv'
  <2>1. /\ producer = "settle" /\ tasks = <<>> /\ pending = <<>> /\ ended # "closed"
        /\ UNCHANGED <<unread, tasks, pending, building, queue>>
    BY <1>4 DEF Settled, ProducerInv
  <2> QED
    BY <1>i, <1>t, <1>4, <2>1 DEF Settled, ProducerInv, Leftover, Typed
<1>5. ASSUME Push PROVE ProducerInv'
  <2>1. CASE PushThrows /\ ProducerFails
    BY <1>5, <1>f, <2>1 DEF Push
  <2>2. CASE /\ ended = "open" /\ queue' = Append(queue, building) /\ building' = <<>>
             /\ producer' = "settle" /\ UNCHANGED ended
    <3>1. \A i \in DOMAIN queue' : queue'[i] # <<>>
      BY <1>t, <1>5, <2>2, Longer DEF Push, ProducerInv
    <3> QED
      BY <1>i, <1>5, <2>2, <3>1 DEF Push, ProducerInv
  <2> QED
    BY <1>5, <2>1, <2>2 DEF Push
<1>6. ASSUME Take PROVE ProducerInv'
  <2>1. UNCHANGED <<producer, tasks, pending, building, unread, ended>>
    BY <1>6 DEF Take, prod
  <2>2. queue' = queue \/ (queue # <<>> /\ queue' = Tail(queue))
    BY <1>6 DEF Take
  <2>3. ended # "failed" \/ queue' = <<>>
    BY <2>2 DEF ProducerInv
  <2>4. \A i \in DOMAIN queue' : queue'[i] # <<>>
    <3>1. CASE queue # <<>> /\ queue' = Tail(queue)
      <4>1. \A i \in DOMAIN queue' : i + 1 \in DOMAIN queue /\ queue'[i] = queue[i + 1]
        BY <1>t, <3>1, Rest
      <4> QED
        BY <4>1 DEF ProducerInv
    <3> QED
      BY <2>2, <3>1 DEF ProducerInv
  <2> QED
    BY <1>i, <2>1, <2>3, <2>4 DEF ProducerInv
<1>7. ASSUME FailQueue PROVE ProducerInv'
  <2>1. UNCHANGED <<producer, tasks, pending, building, unread>>
    BY <1>7 DEF FailQueue, prod
  <2>2. \/ ended' = "failed" /\ queue' = <<>>
        \/ ended' = ended /\ queue' = queue
    BY <1>7 DEF FailQueue
  <2> QED
    BY <1>i, <2>1, <2>2 DEF ProducerInv
<1>8. ASSUME Resume PROVE ProducerInv'
  BY <1>i, <1>8 DEF Resume, ProducerInv
<1>9. CASE UNCHANGED <<producer, tasks, pending, building, unread, ended, queue>>
  BY <1>i, <1>9 DEF ProducerInv
<1> QED
  BY <1>1, <1>2, <1>3, <1>4, <1>5, <1>6, <1>7, <1>8, <1>9, ElsewhereSteps DEF Next, Produce, Consume

(* ------------------------------- the consumer ---------------------------- *)

LEMMA ProducerGuards == Produce => producer # "done" /\ UNCHANGED cons
  BY DEF Produce, Read, Accept, Reject, Settled, Push

LEMMA ConsumerStep == Typed /\ ProducerInv /\ ConsumerInv /\ Next => ConsumerInv'
<1> SUFFICES ASSUME Typed, ProducerInv, ConsumerInv, Next PROVE ConsumerInv'
  OBVIOUS
<1>i. import' = import /\ import.transaction \in Kind
  BY ImportFacts DEF Next, Typed
<1>t. batch \in Seq(File) /\ queue \in Seq(Seq(File))
  BY DEF Typed
<1> USE DEF ConsumerInv
<1>1. ASSUME Produce PROVE ConsumerInv'
  <2>1. ended # "closed" /\ UNCHANGED cons
    BY <1>1, ProducerGuards DEF ProducerInv
  <2> QED
    BY <1>i, <2>1 DEF cons
<1>2. ASSUME BeginAll PROVE ConsumerInv'
  BY <1>i, <1>2 DEF BeginAll, Fail
<1>3. ASSUME Take PROVE ConsumerInv'
  <2>1. UNCHANGED <<ended, row, checkpoint, result>> /\ consumer = "take"
    BY <1>3 DEF Take
  <2>2. CASE queue # <<>> /\ batch' = Head(queue) /\ consumer' = "taken"
    <3>1. batch' # <<>>
      <4>1. Head(queue) = queue[1] /\ 1 \in DOMAIN queue
        BY <1>t, <2>2
      <4> QED
        BY <2>2, <4>1 DEF ProducerInv
    <3> QED
      BY <1>i, <2>1, <2>2, <3>1
  <2>3. CASE /\ queue = <<>> /\ ended = "closed" /\ UNCHANGED <<batch, queue>>
             /\ consumer' = IF import.transaction = "all" THEN "commitAll" ELSE "over"
    BY <1>i, <2>1, <2>3
  <2>4. CASE consumer' = "failing" /\ UNCHANGED <<batch, queue>>
    BY <1>i, <2>1, <2>4
  <2> QED
    BY <1>3, <2>2, <2>3, <2>4 DEF Take, Fail, Send
<1>4. ASSUME Taken PROVE ConsumerInv'
  <2>1. UNCHANGED <<ended, queue, batch, row, checkpoint, result>> /\ consumer = "taken"
    BY <1>4 DEF Taken
  <2>2. consumer' = "failing" \/ consumer' = IF import.transaction = "batch" THEN "begin" ELSE "write"
    BY <1>4 DEF Taken, Fail, Send
  <2> QED
    BY <1>i, <2>1, <2>2
<1>5. ASSUME Begin PROVE ConsumerInv'
  BY <1>i, <1>5 DEF Begin, Send
<1>6. ASSUME WriteBatch PROVE ConsumerInv'
  <2>1. UNCHANGED <<ended, queue, batch, row, checkpoint, result>> /\ consumer = "write"
    BY <1>6 DEF WriteBatch
  <2>2. \/ consumer' \in {"written", "rollback"}
        \/ consumer' = "commit" /\ import.transaction = "batch"
    BY <1>6 DEF WriteBatch, Send
  <2> QED
    BY <1>i, <2>1, <2>2
<1>7. ASSUME Commit PROVE ConsumerInv'
  BY <1>i, <1>7 DEF Commit, Send
<1>8. ASSUME Rollback PROVE ConsumerInv'
  <2>1. UNCHANGED <<ended, queue, batch, checkpoint, result>> /\ consumer = "rollback" /\ result = "running"
    BY <1>8 DEF Rollback
  <2>2. \/ consumer' = "failing"
        \/ /\ consumer' = "retry" /\ row' = 1
           /\ import.transaction # "all" /\ import.onError # "stop"
    BY <1>8 DEF Rollback, Send, Fail
  <2>3. 1 \in DOMAIN batch /\ import.onError \in {"stop", "skip"}
    BY <1>t, <2>1, ImportFacts DEF Typed
  <2> QED
    BY <1>i, <2>1, <2>2, <2>3
<1>9. ASSUME Retry PROVE ConsumerInv'
  <2>1. UNCHANGED <<ended, queue, batch, checkpoint, result>> /\ consumer = "retry" /\ row \in 1..Len(batch)
    BY <1>t, <1>9 DEF Retry
  <2>2. \/ consumer' \in {"failing", "written"}
        \/ consumer' = "retry" /\ row' = row + 1 /\ row # Len(batch)
    BY <1>9 DEF Retry, Send, Fail
  <2>3. row # Len(batch) => row + 1 \in DOMAIN batch
    BY <1>t, <2>1
  <2> QED
    BY <1>i, <2>1, <2>2, <2>3
<1>10. ASSUME Written PROVE ConsumerInv'
  BY <1>i, <1>10 DEF Written
<1>11. ASSUME CommitAll PROVE ConsumerInv'
  BY <1>i, <1>11 DEF CommitAll, Fail
<1>12. ASSUME Completes PROVE ConsumerInv'
  BY <1>i, <1>12 DEF Completes
<1>13. ASSUME FailQueue PROVE ConsumerInv'
  BY <1>i, <1>13 DEF FailQueue
<1>14. ASSUME Fails PROVE ConsumerInv'
  BY <1>i, <1>14 DEF Fails
<1>15. ASSUME Cancel \/ Lose \/ Pause PROVE ConsumerInv'
  BY <1>i, <1>15 DEF Cancel, Lose, Pause, rest
<1>16. ASSUME Resume PROVE ConsumerInv'
  BY <1>i, <1>16 DEF Resume
<1> QED
  BY <1>1, <1>2, <1>3, <1>4, <1>5, <1>6, <1>7, <1>8, <1>9, <1>10, <1>11, <1>12, <1>13, <1>14, <1>15, <1>16
  DEF Next, Consume

(* ------------------------------ transactions ----------------------------- *)

LEMMA TransactionStep == Typed /\ ConsumerInv /\ TransactionInv /\ Next => TransactionInv'
<1> SUFFICES ASSUME Typed, ConsumerInv, TransactionInv, Next PROVE TransactionInv'
  OBVIOUS
<1>i. /\ import' = import /\ import.transaction \in Kind
      /\ import.target = "collection" => import.transaction = "none"
      /\ import.target \in {"table", "collection"}
  BY ImportFacts DEF Next, Typed
<1> USE DEF TransactionInv
<1>3. ASSUME WriteBatch PROVE TransactionInv'
  <2>1. UNCHANGED <<batch, lost>> /\ consumer = "write"
    BY <1>3 DEF WriteBatch, world
  <2>2. CASE /\ Ok(batch) /\ Write(batch)
             /\ consumer' = IF import.transaction = "batch" THEN "commit" ELSE "written"
    <3>1. ~lost
      BY <2>2 DEF Ok
    <3>2. CASE import.transaction = "none"
      BY <1>i, <2>1, <2>2, <3>2 DEF Write
    <3>3. CASE import.transaction = "batch"
      BY <1>i, <2>1, <2>2, <3>1, <3>3 DEF Write
    <3> QED
      BY <1>i, <3>2, <3>3
  <2>3. CASE consumer' = "rollback" /\ (import.transaction = "none" => inTx' = inTx)
    BY <1>i, <2>1, <2>3
  <2>4. \/ /\ Ok(batch) /\ Write(batch)
           /\ consumer' = IF import.transaction = "batch" THEN "commit" ELSE "written"
        \/ consumer' = "rollback" /\ (import.transaction = "none" => inTx' = inTx)
    <3>1. ASSUME import.transaction = "none", NEW items, Write(items) PROVE inTx' = inTx
      BY <1>i, <3>1 DEF Write
    <3> QED
      BY <1>i, <1>3, <3>1 DEF WriteBatch, Send, db
  <2> QED
    BY <2>2, <2>3, <2>4
<1>4. ASSUME Commit PROVE TransactionInv'
  <2>1. UNCHANGED <<batch, lost>> /\ consumer = "commit"
    BY <1>4 DEF Commit, world
  <2>2. \/ inTx' = None /\ consumer' \in {"written", "rollback"}
        \/ consumer' = "rollback" /\ inTx' = inTx
    BY <1>4 DEF Commit, Send, db
  <2> QED
    BY <1>i, <2>1, <2>2
<1>5. ASSUME Rollback PROVE TransactionInv'
  <2>1. consumer' \in {"failing", "retry"}
    BY <1>5 DEF Rollback, Fail, Send
  <2>2. inTx' = IF import.transaction = "batch" THEN None ELSE inTx
    BY <1>5 DEF Rollback
  <2> QED
    BY <1>i, <2>1, <2>2
<1>6. ASSUME Retry PROVE TransactionInv'
  <2>1. UNCHANGED inTx /\ consumer = "retry" /\ consumer' \in {"failing", "retry", "written"}
    BY <1>6 DEF Retry, Write, Fail, Send, db
  <2> QED
    BY <1>i, <2>1
<1>7. ASSUME BeginAll \/ Take \/ Taken \/ Begin \/ Written \/ Completes \/ FailQueue
      PROVE  TransactionInv'
  <2>1. UNCHANGED inTx /\ consumer \notin {"commit", "rollback"}
    BY <1>7 DEF BeginAll, Take, Taken, Begin, Written, Completes, FailQueue, db
  <2>2. consumer' = "commit" => FALSE
    BY <1>7, <2>1 DEF BeginAll, Take, Taken, Begin, Written, Completes, FailQueue, Fail, Send
  <2> QED
    BY <1>i, <2>1, <2>2
<1>8. ASSUME CommitAll \/ Fails \/ Resume PROVE TransactionInv'
  <2>1. (inTx' = None \/ UNCHANGED inTx) /\ consumer \notin {"commit", "rollback"} /\ consumer' # "commit"
    BY <1>8, ConsumerInv DEF CommitAll, Fails, Resume, Fail, db, ConsumerInv
  <2> QED
    BY <1>i, <2>1
<1>9. ASSUME Cancel \/ Pause \/ Produce PROVE TransactionInv'
  <2>1. UNCHANGED <<inTx, batch, consumer, lost>>
    BY <1>9, ProducerGuards DEF Cancel, Pause, rest, cons, db, world
  <2> QED
    BY <1>i, <2>1
<1>10. ASSUME Lose PROVE TransactionInv'
  BY <1>i, <1>10 DEF Lose, rest
<1> QED
  BY <1>3, <1>4, <1>5, <1>6, <1>7, <1>8, <1>9, <1>10 DEF Next, Consume

(* ------------------------------- rejections ------------------------------ *)

LEMMA RejectedStep == Typed /\ ProducerInv /\ RejectedInv /\ Next => RejectedInv'
<1> SUFFICES ASSUME Typed, ProducerInv, RejectedInv, Next PROVE RejectedInv'
  OBVIOUS
<1>i. import' = import /\ pending \in Seq(File)
  BY DEF Next, Typed
<1>1. ASSUME Reject PROVE RejectedInv'
  <2>1. Head(pending) \in import.malformed
    BY <1>i, <1>1, Rest DEF Reject, ProducerInv
  <2> QED
    BY <1>i, <1>1, <2>1 DEF Reject, RejectedInv, cons, world
<1>2. ASSUME Retry PROVE RejectedInv'
  <2>1. rejected' = rejected \/ (rejected' = rejected \cup {batch[row]} /\ (lost \/ batch[row] \in import.refused))
    BY <1>2 DEF Retry, Refuses, ToSet
  <2>2. UNCHANGED lost
    BY <1>2 DEF Retry, world
  <2> QED
    BY <1>i, <2>1, <2>2 DEF RejectedInv
<1>3. ASSUME Lose \/ Resume PROVE RejectedInv'
  BY <1>i, <1>3 DEF Lose, Resume, rest, RejectedInv
<1>4. CASE UNCHANGED <<lost, rejected>>
  BY <1>i, <1>4 DEF RejectedInv
<1> QED
  BY <1>1, <1>2, <1>3, <1>4
  DEF Next, Produce, Read, Accept, Settled, Push, Consume, BeginAll, Take, Taken, Begin, WriteBatch, Commit,
      Rollback, Written, CommitAll, Completes, FailQueue, Fails, Cancel, Pause, rest, cons, world

(* ---------------------------------- order -------------------------------- *)

LEMMA OrderStep == Typed /\ ProducerInv /\ ConsumerInv /\ OrderInv /\ Next => OrderInv'
<1> SUFFICES ASSUME Typed, ProducerInv, ConsumerInv, OrderInv, Next PROVE OrderInv'
  OBVIOUS
<1>t. /\ tasks \in Seq(File) /\ building \in Seq(File) /\ batch \in Seq(File) /\ queue \in Seq(Seq(File))
      /\ Records \in Nat /\ unread \in Nat /\ checkpoint \in Nat /\ File \subseteq Nat
  BY ImportFacts DEF Typed, File
<1>n. /\ \A i \in DOMAIN tasks : tasks[i] \in Nat
      /\ \A i \in DOMAIN building : building[i] \in Nat
      /\ \A i \in DOMAIN batch : batch[i] \in Nat
      /\ \A q \in DOMAIN queue : queue[q] \in Seq(File) /\ \A i \in DOMAIN queue[q] : queue[q][i] \in Nat
  <2>1. \A s \in Seq(File) : \A i \in DOMAIN s : s[i] \in Nat
    <3> SUFFICES ASSUME NEW s \in Seq(File), NEW i \in DOMAIN s PROVE s[i] \in Nat
      OBVIOUS
    <3>1. s[i] \in File
      OBVIOUS
    <3> QED
      BY <1>t, <3>1
  <2>2. \A q \in DOMAIN queue : queue[q] \in Seq(File)
    BY <1>t
  <2> QED
    BY <1>t, <2>1, <2>2
<1> USE DEF Increasing, Before, Within
<1>1. CASE UNCHANGED <<tasks, building, batch, queue, unread, checkpoint>>
  BY <1>1 DEF OrderInv
<1>2. CASE UNCHANGED <<tasks, building, batch, unread, checkpoint>> /\ queue' = <<>>
  BY <1>2 DEF OrderInv
<1>3. ASSUME Read PROVE OrderInv'
  <2>0. UNCHANGED <<building, batch, checkpoint>>
    BY <1>3 DEF Read, cons
  <2>1. CASE aborted
    BY <1>1, <1>2, <1>3, <2>0, <2>1 DEF Read, ProducerFails
  <2>2. CASE ~aborted
    <3>1. PICK last \in File :
            /\ unread <= last /\ unread' = last + 1
            /\ tasks' = [n \in 1..(last - unread + 1) |-> unread + n - 1]
            /\ tasks' \in Seq(File) /\ Len(tasks') = last - unread + 1
      BY <1>3, <2>2, ChunkRead
    <3>2. \A n \in DOMAIN tasks' : tasks'[n] = unread + n - 1 /\ n \in 1..(last - unread + 1)
      BY <3>1
    <3>3. Increasing(tasks') /\ Within(tasks', unread, unread' - 1)
      BY <1>t, <3>1, <3>2
    <3>4. queue' = queue
      BY <1>3, <2>2 DEF Read
    <3>5. unread' \in Nat /\ unread <= unread' /\ \A n \in DOMAIN tasks' : tasks'[n] \in Nat
      BY <1>t, <3>1, <3>2
    <3>6. \A s \in {batch, building} \cup {queue[q] : q \in DOMAIN queue} :
            /\ Within(s, checkpoint, unread' - 1)
            /\ Before(s, tasks')
      <4> SUFFICES ASSUME NEW s \in {batch, building} \cup {queue[q] : q \in DOMAIN queue}
                   PROVE  Within(s, checkpoint, unread' - 1) /\ Before(s, tasks')
        OBVIOUS
      <4>1. \A i \in DOMAIN s : s[i] \in Nat /\ checkpoint <= s[i] /\ s[i] <= unread - 1
        BY <1>n DEF OrderInv
      <4> QED
        BY <1>t, <3>3, <3>5, <4>1
    <3>7. checkpoint <= unread' /\ Within(tasks', checkpoint, unread' - 1)
      BY <1>t, <3>3, <3>5 DEF OrderInv
    <3> QED
      BY <2>0, <3>3, <3>4, <3>6, <3>7 DEF OrderInv
  <2> QED
    BY <2>1, <2>2
<1>4. ASSUME Accept PROVE OrderInv'
  <2>1. UNCHANGED <<batch, queue, unread, checkpoint>> /\ tasks # <<>> /\ tasks' = Tail(tasks)
    BY <1>4 DEF Accept, cons
  <2>2. /\ Head(tasks) = tasks[1] /\ 1 \in DOMAIN tasks /\ Head(tasks) \in File /\ tasks' \in Seq(File)
        /\ \A i \in DOMAIN tasks' : tasks'[i] = tasks[i + 1] /\ i + 1 \in DOMAIN tasks /\ i \in Nat \ {0}
    BY <1>t, <2>1
  <2>3. CASE building' = building
    <3>1. /\ Increasing(tasks') /\ Within(tasks', checkpoint, unread - 1)
          /\ Before(batch, tasks') /\ Before(building, tasks')
      BY <1>t, <2>2 DEF OrderInv
    <3>2. \A q \in DOMAIN queue : Before(queue[q], tasks')
      BY <2>2 DEF OrderInv
    <3> QED
      BY <2>1, <2>3, <3>1, <3>2 DEF OrderInv
  <2>4. CASE building' = Append(building, Head(tasks))
    <3>1. /\ building' \in Seq(File)
          /\ \A i \in DOMAIN building' :
               \/ i \in DOMAIN building /\ building'[i] = building[i]
               \/ i = Len(building) + 1 /\ building'[i] = tasks[1]
          /\ \A i \in DOMAIN building : i < Len(building) + 1
      BY <1>t, <2>2, <2>4
    <3>2. Increasing(building') /\ Within(building', checkpoint, unread - 1)
      <4>1. /\ Increasing(building) /\ Within(building, checkpoint, unread - 1)
            /\ \A i \in DOMAIN building : building[i] < tasks[1]
            /\ checkpoint <= tasks[1] /\ tasks[1] <= unread - 1
        BY <2>2 DEF OrderInv
      <4> QED
        BY <3>1, <4>1
    <3>3. Before(batch, building') /\ Before(building', tasks') /\ \A q \in DOMAIN queue : Before(queue[q], building')
      <4>1. /\ Before(batch, building) /\ \A q \in DOMAIN queue : Before(queue[q], building)
            /\ \A i \in DOMAIN batch : batch[i] < tasks[1]
            /\ \A q \in DOMAIN queue : \A i \in DOMAIN queue[q] : queue[q][i] < tasks[1]
        BY <2>2 DEF OrderInv
      <4>2. \A i \in DOMAIN tasks' : tasks[1] < tasks'[i] /\ \A j \in DOMAIN building : building[j] < tasks'[i]
        BY <1>t, <2>2 DEF OrderInv
      <4> QED
        BY <3>1, <4>1, <4>2
    <3>4. /\ Increasing(tasks') /\ Within(tasks', checkpoint, unread - 1) /\ Before(batch, tasks')
          /\ \A q \in DOMAIN queue : Before(queue[q], tasks')
      BY <1>t, <2>2 DEF OrderInv
    <3> QED
      BY <2>1, <3>2, <3>3, <3>4 DEF OrderInv
  <2> QED
    BY <1>4, <2>3, <2>4 DEF Accept
<1>5. ASSUME Reject PROVE OrderInv'
  BY <1>1, <1>2, <1>5 DEF Reject, ProducerFails, cons
<1>6. ASSUME Push PROVE OrderInv'
  <2>1. UNCHANGED <<batch, tasks, unread, checkpoint>>
    BY <1>6 DEF Push, cons
  <2>2. CASE ProducerFails /\ UNCHANGED building
    BY <1>1, <1>2, <2>1, <2>2 DEF ProducerFails
  <2>3. CASE queue' = Append(queue, building) /\ building' = <<>>
    <3>1. /\ Len(queue) \in Nat /\ DOMAIN queue = 1..Len(queue) /\ DOMAIN queue' = 1..Len(queue) + 1
          /\ \A q \in DOMAIN queue' :
               \/ q \in DOMAIN queue /\ queue'[q] = queue[q] /\ q < Len(queue) + 1
               \/ q = Len(queue) + 1 /\ queue'[q] = building
      BY <1>t, <2>3
    <3>2. \A q \in DOMAIN queue' :
            /\ Increasing(queue'[q]) /\ Within(queue'[q], checkpoint, unread - 1)
            /\ Before(batch, queue'[q]) /\ Before(queue'[q], tasks)
      BY <3>1 DEF OrderInv
    <3>3. ASSUME NEW q \in DOMAIN queue', NEW p \in DOMAIN queue', q < p PROVE Before(queue'[q], queue'[p])
      <4>1. q \in DOMAIN queue /\ queue'[q] = queue[q]
        BY <1>t, <3>1, <3>3
      <4>2. Before(queue[q], building) /\ (p \in DOMAIN queue => Before(queue[q], queue[p]))
        BY <3>3, <4>1 DEF OrderInv
      <4> QED
        BY <3>1, <4>1, <4>2
    <3> QED
      BY <2>1, <2>3, <3>2, <3>3 DEF OrderInv
  <2> QED
    BY <1>6, <2>2, <2>3 DEF Push
<1>7. ASSUME Take PROVE OrderInv'
  <2>1. UNCHANGED <<building, tasks, unread, checkpoint>>
    BY <1>7 DEF Take, prod
  <2>2. CASE UNCHANGED <<batch, queue>>
    BY <1>1, <2>1, <2>2
  <2>3. CASE queue # <<>> /\ batch' = Head(queue) /\ queue' = Tail(queue)
    <3>1. /\ batch' = queue[1] /\ 1 \in DOMAIN queue
          /\ \A q \in DOMAIN queue' : queue'[q] = queue[q + 1] /\ q + 1 \in DOMAIN queue /\ q \in Nat \ {0}
      BY <1>t, <2>3
    <3>2. /\ Increasing(batch') /\ Within(batch', checkpoint, unread - 1)
          /\ Before(batch', building) /\ Before(batch', tasks)
      BY <3>1 DEF OrderInv
    <3>3. \A q \in DOMAIN queue' :
            /\ Increasing(queue'[q]) /\ Within(queue'[q], checkpoint, unread - 1)
            /\ Before(queue'[q], building) /\ Before(queue'[q], tasks)
      BY <3>1 DEF OrderInv
    <3>4. \A q \in DOMAIN queue' : Before(batch', queue'[q])
      BY <3>1 DEF OrderInv
    <3>5. \A q, p \in DOMAIN queue' : q < p => Before(queue'[q], queue'[p])
      BY <3>1 DEF OrderInv
    <3> QED
      BY <2>1, <3>2, <3>3, <3>4, <3>5 DEF OrderInv
  <2> QED
    BY <1>7, <2>2, <2>3 DEF Take
<1>8. ASSUME Written PROVE OrderInv'
  <2>1. UNCHANGED <<building, tasks, queue, unread>> /\ batch' = <<>> /\ batch # <<>>
    BY <1>8 DEF Written, prod, ConsumerInv
  <2>2. CASE checkpoint' = checkpoint
    BY <2>1, <2>2 DEF OrderInv
  <2>3. CASE checkpoint' = Last(batch) + 1
    <3>1. Len(batch) \in DOMAIN batch /\ Last(batch) = batch[Len(batch)] /\ Last(batch) \in Nat
      BY <1>t, <2>1, LastOne
    <3>2. /\ checkpoint' <= unread /\ Within(building, checkpoint', unread - 1)
          /\ Within(tasks, checkpoint', unread - 1)
          /\ \A q \in DOMAIN queue : Within(queue[q], checkpoint', unread - 1)
      <4>1. ASSUME NEW s, \A i \in DOMAIN s : s[i] \in Nat, Before(batch, s), Within(s, checkpoint, unread - 1)
            PROVE  Within(s, checkpoint', unread - 1)
        BY <1>n, <2>3, <3>1, <4>1
      <4>2. checkpoint' <= unread
        BY <1>t, <1>n, <2>3, <3>1 DEF OrderInv
      <4> QED
        BY <1>n, <4>1, <4>2 DEF OrderInv
    <3> QED
      BY <2>1, <3>2 DEF OrderInv
  <2> QED
    BY <1>8, <2>2, <2>3 DEF Written, BatchEnd
<1>9. ASSUME FailQueue PROVE OrderInv'
  BY <1>1, <1>2, <1>9 DEF FailQueue, prod
<1>10. ASSUME Resume PROVE OrderInv'
  BY <1>t, <1>10 DEF Resume, OrderInv
<1> QED
  BY <1>1, <1>3, <1>4, <1>5, <1>6, <1>7, <1>8, <1>9, <1>10
  DEF Next, Produce, Settled, Consume, BeginAll, Taken, Begin, WriteBatch, Commit, Rollback, Retry, CommitAll,
      Completes, Fails, Cancel, Lose, Pause, rest, cons, prod

(* --------------------------------- coverage ------------------------------ *)

\* The producer loses no good record on the way, and brings in none that was not
\* in hand.
LEMMA ProducerKeeps ==
    ASSUME Typed, ProducerInv, UNCHANGED import, Produce, NEW r \in File
    PROVE  /\ UNCHANGED batch
           /\ ended' # "failed" => ended # "failed"
           /\ ended' # "failed" /\ r \notin import.malformed /\ InHand(r) => InHand(r)'
           /\ InHand(r)' => InHand(r)
<1>t. /\ tasks \in Seq(File) /\ building \in Seq(File) /\ batch \in Seq(File) /\ queue \in Seq(Seq(File))
      /\ Records \in Nat /\ unread \in 1..(Records + 1) /\ r \in Nat /\ r <= Records
  BY ImportFacts DEF Typed, File
<1>b. UNCHANGED batch
  BY ProducerGuards DEF cons
<1>f. ASSUME ProducerFails, producer # "done", UNCHANGED <<building, tasks, unread>>
      PROVE  ended' = "failed" /\ (InHand(r)' => InHand(r))
  <2>1. ended' = "failed" /\ (queue' = queue \/ queue' = <<>>)
    BY <1>f DEF ProducerInv, ProducerFails, Typed
  <2> QED
    BY <1>b, <1>f, <2>1 DEF InHand, ToSet
<1> DEFINE Goal == /\ ended' # "failed" => ended # "failed"
                   /\ ended' # "failed" /\ r \notin import.malformed /\ InHand(r) => InHand(r)'
                   /\ InHand(r)' => InHand(r)
<1>1. ASSUME Read PROVE Goal
  <2>1. CASE aborted
    BY <1>1, <1>f, <2>1 DEF Read
  <2>2. CASE ~aborted
    <3>1. PICK last \in File :
            /\ unread <= last /\ unread' = last + 1
            /\ tasks' = [n \in 1..(last - unread + 1) |-> unread + n - 1]
            /\ tasks' \in Seq(File) /\ Len(tasks') = last - unread + 1
      BY <1>1, <2>2, ChunkRead
    <3>2. tasks = <<>> /\ UNCHANGED <<building, queue, ended>>
      BY <1>1, <2>2 DEF Read, ProducerInv
    <3>3. r >= unread <=> (r \in ToSet(tasks') \/ r >= unread')
      <4>1. ASSUME r >= unread, r <= last PROVE r \in ToSet(tasks')
        <5>1. r - unread + 1 \in 1..(last - unread + 1) /\ tasks'[r - unread + 1] = r
          BY <1>t, <3>1, <4>1 DEF File
        <5> QED
          BY <3>1, <5>1 DEF ToSet
      <4>2. ASSUME r \in ToSet(tasks') PROVE r >= unread
        <5>1. PICK n \in 1..(last - unread + 1) : r = unread + n - 1
          BY <3>1, <4>2 DEF ToSet
        <5> QED
          BY <1>t, <3>1, <5>1 DEF File
      <4> QED
        BY <1>t, <3>1, <4>1, <4>2 DEF File
    <3> QED
      BY <1>b, <3>2, <3>3 DEF InHand, ToSet
  <2> QED
    BY <2>1, <2>2
<1>2. ASSUME Accept PROVE Goal
  <2>1. UNCHANGED <<batch, queue, unread, ended>> /\ tasks # <<>> /\ tasks' = Tail(tasks)
    BY <1>2 DEF Accept, cons
  <2>2. \A x : x \in ToSet(tasks) <=> x = Head(tasks) \/ x \in ToSet(tasks')
    <3>1. /\ Head(tasks) = tasks[1] /\ 1 \in DOMAIN tasks
          /\ \A i \in DOMAIN tasks' : tasks'[i] = tasks[i + 1] /\ i + 1 \in DOMAIN tasks
          /\ \A i \in DOMAIN tasks : i = 1 \/ (i - 1 \in DOMAIN tasks' /\ tasks[i] = tasks'[i - 1])
      BY <1>t, <2>1, Rest
    <3> QED
      BY <3>1 DEF ToSet
  <2>3. \/ Head(tasks) \in import.malformed /\ building' = building
        \/ \A x : x \in ToSet(building') <=> x = Head(tasks) \/ x \in ToSet(building)
    <3>1. CASE Head(tasks) \in import.malformed
      BY <1>2, <3>1 DEF Accept
    <3>2. CASE Head(tasks) \notin import.malformed
      <4>1. building' = Append(building, Head(tasks)) /\ Head(tasks) \in File
        BY <1>2, <1>t, <3>2, Rest DEF Accept
      <4>2. DOMAIN building' = DOMAIN building \cup {Len(building) + 1} /\ building'[Len(building) + 1] = Head(tasks)
            /\ \A i \in DOMAIN building : building'[i] = building[i]
        BY <1>t, <4>1, Longer
      <4> QED
        BY <4>2 DEF ToSet
    <3> QED
      BY <3>1, <3>2
  <2>4. /\ (r \in ToSet(batch))' <=> r \in ToSet(batch)
        /\ (\E q \in DOMAIN queue : r \in ToSet(queue[q]))' <=> \E q \in DOMAIN queue : r \in ToSet(queue[q])
        /\ (r >= unread)' <=> r >= unread
    BY <2>1
  <2>5. ASSUME r \notin import.malformed, InHand(r) PROVE InHand(r)'
    BY <2>2, <2>3, <2>4, <2>5 DEF InHand
  <2>6. ASSUME InHand(r)' PROVE InHand(r)
    BY <2>2, <2>3, <2>4, <2>6 DEF InHand
  <2> QED
    BY <2>1, <2>5, <2>6
<1>3. ASSUME Reject PROVE Goal
  BY <1>3, <1>b, <1>f DEF Reject, InHand
<1>4. ASSUME Settled PROVE Goal
  <2>1. UNCHANGED <<unread, tasks, building, queue>> /\ ended \in {"open", "failed"} /\ ended' \in {ended, "closed"}
    BY <1>4 DEF Settled, ProducerInv, Typed
  <2>2. ended' # "failed" => ended # "failed"
    BY <1>4, <2>1 DEF Settled
  <2> QED
    BY <1>b, <2>1, <2>2 DEF InHand
<1>5. ASSUME Push PROVE Goal
  <2>0. UNCHANGED <<tasks, unread>> /\ producer = "push"
    BY <1>5 DEF Push
  <2>1. CASE ProducerFails /\ UNCHANGED building
    BY <1>f, <2>0, <2>1
  <2>2. CASE queue' = Append(queue, building) /\ building' = <<>> /\ UNCHANGED ended
    <3>1. /\ DOMAIN queue' = DOMAIN queue \cup {Len(queue) + 1} /\ queue'[Len(queue) + 1] = building
          /\ \A q \in DOMAIN queue : queue'[q] = queue[q]
      BY <1>t, <2>2, Longer
    <3>2. (\E q \in DOMAIN queue' : r \in ToSet(queue'[q]))
             <=> (r \in ToSet(building) \/ \E q \in DOMAIN queue : r \in ToSet(queue[q]))
      BY <3>1
    <3>3. r \notin ToSet(building')
      BY <2>2 DEF ToSet
    <3> QED
      BY <1>b, <2>0, <2>2, <3>2, <3>3 DEF InHand
  <2> QED
    BY <1>5, <2>1, <2>2 DEF Push
<1> QED
  BY <1>b, <1>1, <1>2, <1>3, <1>4, <1>5 DEF Produce

\* Taking a batch changes nothing of what is in hand.
LEMMA TakeKeeps ==
    ASSUME Typed, ConsumerInv, Take, NEW r
    PROVE  /\ InHand(r)' <=> InHand(r)
           /\ UNCHANGED <<ended, checkpoint, row, db, rejected, pending, tasks, unread>>
<1>t. batch = <<>> /\ queue \in Seq(Seq(File))
  BY DEF Typed, ConsumerInv, Take
<1>1. UNCHANGED <<prod, ended, row, db, rejected, checkpoint>>
  BY DEF Take
<1>2. CASE UNCHANGED <<batch, queue>>
  BY <1>1, <1>2 DEF InHand, prod, db
<1>3. CASE queue # <<>> /\ batch' = Head(queue) /\ queue' = Tail(queue)
  <2>1. /\ batch' = queue[1] /\ 1 \in DOMAIN queue
        /\ \A q \in DOMAIN queue' : queue'[q] = queue[q + 1] /\ q + 1 \in DOMAIN queue
        /\ \A q \in DOMAIN queue : q = 1 \/ (q - 1 \in DOMAIN queue' /\ queue[q] = queue'[q - 1])
    BY <1>t, <1>3, Rest
  <2>2. (\E q \in DOMAIN queue : r \in ToSet(queue[q]))
           <=> (r \in ToSet(batch') \/ \E q \in DOMAIN queue' : r \in ToSet(queue'[q]))
    BY <2>1
  <2>3. r \notin ToSet(batch)
    BY <1>t DEF ToSet
  <2> QED
    BY <1>1, <2>2, <2>3 DEF InHand, prod, db
<1> QED
  BY <1>2, <1>3 DEF Take

\* What is dealt with stays so.
LEMMA DealtStays ==
    ASSUME Typed, Next, NEW r \in File, Dealt(r) PROVE Dealt(r)'
<1>t. stored \in [File -> Nat] /\ inTx \in [File -> Nat]
  BY DEF Typed
<1>1. rejected \subseteq rejected'
  BY DEF Next, Produce, Read, Accept, Reject, Settled, Push, Consume, BeginAll, Take, Taken, Begin, WriteBatch,
         Commit, Rollback, Retry, Written, CommitAll, Completes, FailQueue, Fails, Cancel, Lose, Pause, Resume,
         rest, cons
<1>2. ASSUME NEW items, Write(items) PROVE stored'[r] >= stored[r]
  <2>1. stored' = stored \/ stored' = Plus(stored, items)
    BY <1>2 DEF Write
  <2>2. Plus(stored, items)[r] = stored[r] \/ Plus(stored, items)[r] = stored[r] + 1
    BY <1>t, PlusCounts
  <2> QED
    BY <1>t, <2>1, <2>2
<1>3. CASE WriteBatch \/ Retry
  <2>1. stored' = stored \/ \E items : Write(items)
    BY <1>3 DEF WriteBatch, Retry, db
  <2>2. CASE stored' = stored
    BY <1>1, <2>2 DEF Dealt
  <2>3. CASE \E items : Write(items)
    <3>1. stored'[r] >= stored[r]
      BY <1>2, <2>3
    <3>2. stored' \in [File -> Nat]
      BY <2>3, WriteTyped
    <3> QED
      BY <1>t, <1>1, <3>1, <3>2 DEF Dealt
  <2> QED
    BY <2>1, <2>2, <2>3
<1>4. CASE stored' = Committed
  <2>1. stored'[r] \in Nat /\ stored'[r] >= stored[r]
    BY <1>4, SumTyped
  <2> QED
    BY <1>t, <1>1, <2>1 DEF Dealt
<1>5. CASE UNCHANGED stored
  BY <1>1, <1>5 DEF Dealt
<1>6. CASE Lands
  <2>1. stored'[r] \in Nat /\ stored'[r] >= stored[r]
    BY <1>6, LandsTyped
  <2> QED
    BY <1>t, <1>1, <2>1 DEF Dealt
<1> QED
  BY <1>3, <1>4, <1>5, <1>6
  DEF Next, Produce, Read, Accept, Reject, Settled, Push, Consume, BeginAll, Take, Taken, Begin,
      Commit, Rollback, Written, CommitAll, Completes, FailQueue, Fails, Cancel, Lose, Pause, Resume,
      rest, cons, db

LEMMA CoverStep ==
    Typed /\ ProducerInv /\ OrderInv /\ ConsumerInv /\ TransactionInv /\ CoverInv /\ Next => CoverInv'
<1> SUFFICES ASSUME Typed, ProducerInv, OrderInv, ConsumerInv, TransactionInv, CoverInv, Next PROVE CoverInv'
  OBVIOUS
<1>i. import' = import
  BY DEF Next
<1> SUFFICES ASSUME ~Single PROVE CoverInv'
  BY <1>i DEF CoverInv, Single
<1>t. /\ import' = import /\ import.transaction \in {"none", "batch"} /\ Good' = Good /\ Good \subseteq File
      /\ batch \in Seq(File) /\ queue \in Seq(Seq(File)) /\ stored \in [File -> Nat] /\ inTx \in [File -> Nat]
      /\ Records \in Nat /\ File \subseteq Nat /\ unread \in Nat /\ checkpoint \in Nat
  BY ImportFacts DEF Next, Typed, Single, Kind, Good, File
<1> DEFINE Done(r) == stored'[r] > 0 \/ r \in rejected'
<1>d. \A r \in File : Dealt(r) => Done(r)
  BY DealtStays DEF Dealt
<1>c. /\ ended # "failed" => \A r \in Good : InHand(r) \/ Dealt(r)
      /\ batch # <<>> => \A r \in Good : r <= Last(batch) => r \in ToSet(batch) \/ Dealt(r)
      /\ consumer = "retry" => \A i \in DOMAIN batch : i < row => Dealt(batch[i])
      /\ consumer = "written" => \A i \in DOMAIN batch : Dealt(batch[i])
      /\ \A r \in Good : r < checkpoint => Dealt(r)
  BY DEF CoverInv, CheckpointIsStored, Good
<1>b. \A i \in DOMAIN batch : batch[i] \in File
  BY <1>t
<1> DEFINE Covered == /\ ended' # "failed" => \A r \in Good : InHand(r)' \/ Done(r)
                      /\ batch' # <<>> => \A r \in Good : r <= Last(batch') => r \in ToSet(batch') \/ Done(r)
                      /\ consumer' = "retry" => \A i \in DOMAIN batch' : i < row' => Done(batch'[i])
                      /\ consumer' = "written" => \A i \in DOMAIN batch' : Done(batch'[i])
                      /\ \A r \in Good : r < checkpoint' => Done(r)
<1> SUFFICES Covered
  BY <1>t DEF CoverInv, CheckpointIsStored, Good, Dealt
<1> HIDE DEF Done
<1>s. ASSUME UNCHANGED <<batch, checkpoint>>, ended' # "failed" => ended # "failed",
             ended' # "failed" => \A r \in Good : InHand(r) => InHand(r)',
             consumer' = "retry" => \A i \in DOMAIN batch : i < row' => Done(batch[i]),
             consumer' = "written" => \A i \in DOMAIN batch : Done(batch[i])
      PROVE  Covered
  BY <1>t, <1>d, <1>c, <1>s
<1>p. ASSUME UNCHANGED <<producer, tasks, pending, building, unread, ended, queue>>, UNCHANGED <<batch, checkpoint>>,
             consumer' = "retry" => \A i \in DOMAIN batch : i < row' => Done(batch[i]),
             consumer' = "written" => \A i \in DOMAIN batch : Done(batch[i])
      PROVE  Covered
  BY <1>s, <1>p DEF InHand
<1>1. ASSUME Produce PROVE Covered
  <2>1. UNCHANGED <<batch, checkpoint, consumer, row>>
    BY <1>1, ProducerGuards DEF cons
  <2>2. \A r \in Good : /\ ended' # "failed" => ended # "failed"
                        /\ ended' # "failed" /\ InHand(r) => InHand(r)'
    BY <1>t, <1>1, ProducerKeeps DEF Good
  <2>3. \A r \in Good : ended' # "failed" => InHand(r)' \/ Done(r)
    BY <1>t, <1>c, <1>d, <2>2
  <2> QED
    BY <1>t, <1>b, <1>c, <1>d, <2>1, <2>3
<1>2. ASSUME Take PROVE Covered
  <2>0. UNCHANGED <<ended, checkpoint>> /\ consumer' \notin {"retry", "written"} /\ batch = <<>>
    BY <1>2, <1>t DEF Take, Send, Fail, ConsumerInv
  <2>1. \A r \in Good : ended' # "failed" => InHand(r)' \/ Done(r)
    BY <1>2, <1>c, <1>d, <1>t, <2>0, TakeKeeps
  <2>2. CASE batch' = batch
    BY <1>c, <1>d, <1>t, <2>0, <2>1, <2>2
  <2>3. CASE queue # <<>> /\ batch' = Head(queue)
    <3>1. ended # "failed"
      BY <2>3 DEF ProducerInv
    <3>2. /\ batch' = queue[1] /\ 1 \in DOMAIN queue /\ batch' \in Seq(File) /\ batch' # <<>>
          /\ \A q \in DOMAIN queue : q = 1 \/ (q \in Nat /\ q > 1)
      BY <1>t, <2>3 DEF ProducerInv
    <3>3. Len(batch') \in DOMAIN batch' /\ Last(batch') = batch'[Len(batch')] /\ Last(batch') \in File
      BY <3>2, LastOne
    <3>4. ASSUME NEW r \in Good, r <= Last(batch') PROVE r \in ToSet(batch') \/ Done(r)
      <4>0. r \in Nat /\ Last(batch') \in Nat
        BY <1>t, <3>3
      <4>1. CASE Dealt(r)
        BY <1>d, <1>t, <4>1
      <4>2. CASE InHand(r)
        <5>1. r \notin ToSet(batch)
          BY <2>0 DEF ToSet
        <5>2. r \notin ToSet(building) /\ r \notin ToSet(tasks)
          <6>1. Before(queue[1], building) /\ Before(queue[1], tasks)
            BY <3>2 DEF OrderInv
          <6>2. (\A i \in DOMAIN building : Last(batch') < building[i]) /\ \A i \in DOMAIN tasks : Last(batch') < tasks[i]
            BY <3>2, <3>3, <6>1 DEF Before
          <6>3. \A x \in Nat : ~(x <= Last(batch') /\ Last(batch') < x)
            BY <4>0
          <6> QED
            BY <3>4, <4>0, <6>2, <6>3 DEF ToSet
        <5>3. ~(r >= unread)
          <6>1. Last(batch') <= unread - 1
            BY <3>2, <3>3 DEF OrderInv, Within
          <6> QED
            BY <1>t, <3>4, <4>0, <6>1
        <5>4. PICK q \in DOMAIN queue : r \in ToSet(queue[q])
          BY <4>2, <5>1, <5>2, <5>3 DEF InHand
        <5>5. CASE q = 1
          BY <3>2, <5>4, <5>5
        <5>6. CASE q # 1
          <6>1. Before(queue[1], queue[q])
            BY <3>2, <5>6 DEF OrderInv
          <6>2. Last(batch') < r
            BY <3>2, <3>3, <5>4, <6>1 DEF Before, ToSet
          <6> QED
            BY <3>4, <4>0, <6>2
        <5> QED
          BY <5>5, <5>6
      <4> QED
        BY <1>c, <3>1, <4>1, <4>2
    <3> QED
      BY <1>c, <1>d, <1>t, <2>0, <2>1, <3>4
  <2> QED
    BY <1>2, <2>2, <2>3 DEF Take
<1>3. ASSUME Written PROVE Covered
  <2>0. /\ UNCHANGED <<ended, queue, unread, tasks, building>> /\ batch' = <<>> /\ consumer = "written"
        /\ consumer' = "take" /\ batch # <<>> /\ checkpoint' = Last(batch) + 1
    BY <1>t, <1>3 DEF Written, prod, BatchEnd, ConsumerInv
  <2>1. \A r \in File : r \in ToSet(batch) => Done(r)
    BY <1>b, <1>c, <1>d, <2>0 DEF ToSet
  <2>2. \A r \in Good : InHand(r) \/ Dealt(r) => InHand(r)' \/ Done(r)
    BY <1>d, <1>t, <2>0, <2>1 DEF InHand
  <2>3. \A r \in Good : r < checkpoint' => Done(r)
    <3>1. Last(batch) \in File
      BY <1>t, <2>0, LastOne
    <3>2. \A r \in Good : r < checkpoint' => r <= Last(batch)
      BY <1>t, <2>0, <3>1
    <3> QED
      BY <1>c, <1>d, <1>t, <2>0, <2>1, <3>2
  <2> QED
    BY <1>c, <2>0, <2>2, <2>3
<1>4. ASSUME WriteBatch PROVE Covered
  <2>1. UNCHANGED <<batch, checkpoint>> /\ consumer' \in {"written", "commit", "rollback"}
    BY <1>4 DEF WriteBatch, Send
  <2>2. ASSUME consumer' = "written" PROVE \A i \in DOMAIN batch : Done(batch[i])
    <3>1. Write(batch) /\ import.transaction = "none"
      BY <1>4, <1>t, <2>2 DEF WriteBatch, Send
    <3>2. stored' = Plus(stored, batch)
      BY <3>1 DEF Write
    <3>3. \A r \in File : r \in ToSet(batch) => stored'[r] = stored[r] + 1 /\ stored[r] \in Nat
      BY <1>t, <3>2, PlusCounts
    <3>4. \A i \in DOMAIN batch : batch[i] \in ToSet(batch)
      BY DEF ToSet
    <3> QED
      BY <1>b, <3>3, <3>4 DEF Done
  <2> QED
    BY <1>4, <1>p, <2>1, <2>2, ElsewhereSteps
<1>5. ASSUME Commit PROVE Covered
  <2>1. UNCHANGED <<batch, checkpoint>> /\ consumer' \in {"written", "rollback"}
    BY <1>5 DEF Commit, Send
  <2>2. ASSUME consumer' = "written" PROVE \A i \in DOMAIN batch : Done(batch[i])
    <3>1. ~lost /\ consumer = "commit" /\ stored' = Committed
      BY <1>5, <2>2 DEF Commit, Ok, Send
    <3>2. inTx = Plus(None, batch)
      BY <3>1 DEF TransactionInv, ConsumerInv
    <3>3. \A r \in File : r \in ToSet(batch) => inTx[r] = 1
      BY <3>2, PlusCounts, NoneIsEmpty
    <3>4. \A i \in DOMAIN batch : batch[i] \in ToSet(batch)
      BY DEF ToSet
    <3>5. \A r \in File : stored'[r] = stored[r] + inTx[r] /\ stored[r] \in Nat
      BY <1>t, <3>1, SumTyped
    <3>6. \A r \in File : r \in ToSet(batch) => stored'[r] > 0
      BY <3>3, <3>5
    <3> QED
      BY <1>b, <3>4, <3>6 DEF Done
  <2> QED
    BY <1>5, <1>p, <2>1, <2>2, ElsewhereSteps
<1>6. ASSUME Retry PROVE Covered
  <2>0. /\ UNCHANGED <<batch, checkpoint>> /\ consumer = "retry" /\ row \in 1..Len(batch)
        /\ consumer' \in {"written", "retry", "failing"}
    BY <1>6, <1>t DEF Retry, Send, Fail, ConsumerInv
  <2>1. ASSUME consumer' \in {"written", "retry"} PROVE Done(batch[row]) /\ row' = row + 1
    <3>1. row' = row + 1 /\ (Write(<<batch[row]>>) \/ rejected' = rejected \cup {batch[row]})
      BY <1>6, <2>1 DEF Retry, Fail
    <3>2. CASE Write(<<batch[row]>>)
      <4>1. stored' = Plus(stored, <<batch[row]>>) /\ batch[row] \in File
        BY <1>t, <2>0, <3>2 DEF Write
      <4>2. batch[row] \in ToSet(<<batch[row]>>)
        BY DEF ToSet
      <4>3. stored'[batch[row]] = stored[batch[row]] + 1 /\ stored[batch[row]] \in Nat
        BY <1>t, <4>1, <4>2, PlusCounts
      <4> QED
        BY <3>1, <4>3 DEF Done
    <3>3. CASE rejected' = rejected \cup {batch[row]}
      BY <3>1, <3>3 DEF Done
    <3> QED
      BY <3>1, <3>2, <3>3
  <2>2. \A i \in DOMAIN batch : i < row => Done(batch[i])
    BY <1>b, <1>c, <1>d, <2>0
  <2>3. consumer' = "retry" => \A i \in DOMAIN batch : i < row' => Done(batch[i])
    BY <1>t, <2>0, <2>1, <2>2
  <2>4. consumer' = "written" => \A i \in DOMAIN batch : Done(batch[i])
    <3>1. consumer' = "written" => row = Len(batch)
      BY <1>6 DEF Retry, Send, Fail
    <3> QED
      BY <1>t, <2>0, <2>1, <2>2, <3>1
  <2> QED
    BY <1>6, <1>p, <2>0, <2>3, <2>4, ElsewhereSteps
<1>7. ASSUME BeginAll \/ Taken \/ Begin \/ Rollback \/ CommitAll \/ Completes \/ Fails PROVE Covered
  <2>1. UNCHANGED <<batch, checkpoint>> /\ consumer' # "written" /\ (consumer' = "retry" => row' = 1)
    BY <1>7, <1>t DEF BeginAll, Taken, Begin, Rollback, CommitAll, Completes, Fails, Send, Fail
  <2>2. \A i \in DOMAIN batch : ~(i < 1)
    BY <1>t
  <2> QED
    BY <1>7, <1>p, <2>1, <2>2, ElsewhereSteps
<1>8. ASSUME Cancel \/ Lose \/ Pause PROVE Covered
  <2>1. UNCHANGED <<batch, checkpoint, consumer, row>>
    BY <1>8 DEF Cancel, Lose, Pause, rest
  <2> QED
    BY <1>8, <1>p, <1>b, <1>c, <1>d, <2>1, ElsewhereSteps
<1>9. ASSUME FailQueue PROVE Covered
  <2>1. UNCHANGED <<batch, checkpoint, unread, building, tasks>> /\ consumer' = "joining"
    BY <1>9 DEF FailQueue, prod
  <2>2. ended' # "failed" => UNCHANGED queue /\ ended # "failed"
    BY <1>9 DEF FailQueue
  <2>3. ended' # "failed" => \A r \in Good : InHand(r) => InHand(r)'
    BY <2>1, <2>2 DEF InHand
  <2> QED
    BY <1>s, <2>1, <2>2, <2>3
<1>10. ASSUME Resume PROVE Covered
  <2>1. batch' = <<>> /\ consumer' = "take" /\ checkpoint' = checkpoint /\ unread' = checkpoint
    BY <1>10 DEF Resume
  <2>2. \A r \in Good : r >= unread' \/ r < checkpoint
    BY <1>t, <2>1
  <2>3. \A r \in Good : InHand(r)' \/ Done(r)
    BY <1>c, <1>d, <1>t, <2>2 DEF InHand
  <2> QED
    BY <1>c, <1>d, <1>t, <2>1, <2>3
<1> QED
  BY <1>1, <1>2, <1>3, <1>4, <1>5, <1>6, <1>7, <1>8, <1>9, <1>10 DEF Next, Consume

(* ------------------------------ nothing twice ---------------------------- *)

\* The batch that is written lies between the checkpoint and its last record.
LEMMA BatchRange ==
    ASSUME Typed, OrderInv, batch # <<>>
    PROVE  /\ Last(batch) \in File
           /\ \A r \in ToSet(batch) : r \in File /\ checkpoint <= r /\ r <= Last(batch)
           /\ checkpoint <= Last(batch)
<1>t. batch \in Seq(File) /\ checkpoint \in Nat /\ File \subseteq Nat
  BY ImportFacts DEF Typed, File
<1>1. Len(batch) \in DOMAIN batch /\ Last(batch) = batch[Len(batch)] /\ Last(batch) \in File
  BY <1>t, LastOne
<1>2. \A i \in DOMAIN batch : batch[i] \in File /\ checkpoint <= batch[i]
  BY <1>t DEF OrderInv, Within
<1>3. \A i \in DOMAIN batch : batch[i] <= Last(batch)
  <2> SUFFICES ASSUME NEW i \in DOMAIN batch PROVE batch[i] <= Last(batch)
    OBVIOUS
  <2>1. i = Len(batch) \/ i < Len(batch)
    BY <1>t
  <2>2. i < Len(batch) => batch[i] < batch[Len(batch)]
    BY <1>1 DEF OrderInv, Increasing
  <2>3. batch[i] \in Nat /\ Last(batch) \in Nat
    BY <1>t, <1>1, <1>2
  <2> QED
    BY <1>1, <2>1, <2>2, <2>3
<1> QED
  BY <1>1, <1>2, <1>3 DEF ToSet

LEMMA FreshStep ==
    Typed /\ OrderInv /\ ConsumerInv /\ TransactionInv /\ FreshInv /\ Next => FreshInv'
<1> SUFFICES ASSUME Typed, OrderInv, ConsumerInv, TransactionInv, FreshInv, Next PROVE FreshInv'
  OBVIOUS
<1>i. import' = import
  BY DEF Next
<1> SUFFICES ASSUME import.target = "table", import.onError = "stop", ~Single PROVE FreshInv'
  BY <1>i DEF FreshInv, Single
<1>t. /\ import.transaction \in {"none", "batch"} /\ File \subseteq Nat
      /\ batch \in Seq(File) /\ stored \in [File -> Nat] /\ inTx \in [File -> Nat] /\ checkpoint \in Nat
      /\ unsure \in [File -> Nat]
  BY ImportFacts DEF Typed, Single, Kind, File
<1>f. \A r \in File : /\ stored[r] <= unsure[r] + 1
                      /\ stored[r] > unsure[r] => r < checkpoint \/ (consumer = "written" /\ r <= Last(batch))
  BY DEF FreshInv
<1> SUFFICES \A r \in File :
               /\ stored'[r] <= unsure'[r] + 1
               /\ stored'[r] > unsure'[r] => r < checkpoint' \/ (consumer' = "written" /\ r <= Last(batch'))
  BY DEF FreshInv
<1> DEFINE Fresh(r) == /\ stored'[r] <= unsure'[r] + 1
                       /\ stored'[r] > unsure'[r] => r < checkpoint' \/ (consumer' = "written" /\ r <= Last(batch'))
<1>s. ASSUME UNCHANGED <<stored, unsure, checkpoint>>, consumer # "written" \/ UNCHANGED <<consumer, batch>>
      PROVE  \A r \in File : Fresh(r)
  BY <1>f, <1>s
<1>u. ASSUME stored' \in [File -> Nat], \A r \in File : stored'[r] >= stored[r], Unheard,
             UNCHANGED checkpoint, consumer # "written" \/ UNCHANGED <<consumer, batch>>
      PROVE  \A r \in File : Fresh(r)
  <2>1. unsure' \in [File -> Nat] /\ \A r \in File : stored'[r] - unsure'[r] = stored[r] - unsure[r]
    BY <1>u, UnheardTyped
  <2> SUFFICES ASSUME NEW r \in File PROVE Fresh(r)
    OBVIOUS
  <2>2. /\ stored'[r] \in Nat /\ unsure'[r] \in Nat /\ stored[r] \in Nat /\ unsure[r] \in Nat
        /\ stored'[r] - unsure'[r] = stored[r] - unsure[r]
    BY <1>t, <1>u, <2>1
  <2>3. /\ stored[r] <= unsure[r] + 1 => stored'[r] <= unsure'[r] + 1
        /\ stored'[r] > unsure'[r] => stored[r] > unsure[r]
    BY <2>2
  <2> QED
    BY <1>f, <1>u, <2>3
<1>w. ASSUME consumer # "written", batch # <<>>, UNCHANGED <<batch, checkpoint, unsure>>, consumer' = "written",
             \A r \in File : stored'[r] = stored[r] + (IF r \in ToSet(batch) THEN 1 ELSE 0)
      PROVE  \A r \in File : Fresh(r)
  <2> SUFFICES ASSUME NEW r \in File PROVE Fresh(r)
    OBVIOUS
  <2>0. r \in Nat /\ stored[r] \in Nat /\ unsure[r] \in Nat /\ unsure'[r] = unsure[r]
    BY <1>t, <1>w
  <2>1. CASE r \in ToSet(batch)
    <3>1. checkpoint <= r /\ r <= Last(batch)
      BY <1>w, <2>1, BatchRange
    <3>2. stored[r] <= unsure[r]
      BY <1>f, <1>t, <1>w, <2>0, <3>1
    <3> QED
      BY <1>w, <2>0, <2>1, <3>1, <3>2
  <2>2. CASE r \notin ToSet(batch)
    BY <1>f, <1>w, <2>0, <2>2
  <2> QED
    BY <2>1, <2>2
<1>1. ASSUME WriteBatch PROVE \A r \in File : Fresh(r)
  <2>1. consumer = "write" /\ batch # <<>> /\ UNCHANGED <<batch, checkpoint>>
    BY <1>1 DEF WriteBatch, ConsumerInv
  <2>2. CASE UNCHANGED <<stored, unsure>>
    BY <1>s, <2>1, <2>2
  <2>4. ASSUME NEW done, Write(done), Unheard PROVE \A r \in File : Fresh(r)
    BY <1>u, <2>1, <2>4, WriteTyped
  <2>3. CASE Write(batch) /\ UNCHANGED unsure /\ consumer' = IF import.transaction = "batch" THEN "commit" ELSE "written"
    <3>1. CASE import.transaction = "batch"
      BY <1>s, <2>1, <2>3, <3>1 DEF Write
    <3>2. CASE import.transaction = "none"
      <4>1. consumer' = "written" /\ stored' = Plus(stored, batch)
        BY <2>3, <3>2 DEF Write
      <4>2. \A r \in File : stored'[r] = stored[r] + (IF r \in ToSet(batch) THEN 1 ELSE 0)
        BY <1>t, <4>1, PlusCounts
      <4> QED
        BY <1>w, <2>1, <2>3, <4>1, <4>2
    <3> QED
      BY <1>t, <3>1, <3>2
  <2> QED
    BY <1>1, <2>2, <2>3, <2>4 DEF WriteBatch, Send, db
<1>2. ASSUME Commit PROVE \A r \in File : Fresh(r)
  <2>1. /\ consumer = "commit" /\ batch # <<>> /\ UNCHANGED <<batch, checkpoint>>
        /\ import.transaction = "batch"
    BY <1>2 DEF Commit, ConsumerInv
  <2>2. CASE UNCHANGED <<stored, unsure>>
    BY <1>s, <2>1, <2>2
  <2>4. CASE stored' = Committed /\ Unheard
    BY <1>u, <2>1, <2>4, SumTyped
  <2>3. CASE ~lost /\ stored' = Committed /\ UNCHANGED unsure /\ consumer' = "written"
    <3>1. inTx = Plus(None, batch)
      BY <2>1, <2>3 DEF TransactionInv
    <3>2. \A r \in File : inTx[r] = IF r \in ToSet(batch) THEN 1 ELSE 0
      BY <3>1, PlusCounts, NoneIsEmpty
    <3>3. \A r \in File : stored'[r] = stored[r] + (IF r \in ToSet(batch) THEN 1 ELSE 0)
      BY <2>3, <3>2, SumTyped
    <3> QED
      BY <1>w, <2>1, <2>3, <3>3
  <2> QED
    BY <1>2, <2>2, <2>3, <2>4 DEF Commit, Ok, db
<1>3. ASSUME Written PROVE \A r \in File : Fresh(r)
  <2>1. /\ UNCHANGED <<stored, unsure>> /\ batch # <<>> /\ checkpoint' = Last(batch) + 1
    BY <1>3, <1>t DEF Written, BatchEnd, ConsumerInv, db
  <2>2. Last(batch) \in File /\ checkpoint <= Last(batch)
    BY <2>1, BatchRange
  <2>3. \A r \in File : stored[r] > unsure[r] => r < checkpoint'
    <3> SUFFICES ASSUME NEW r \in File, stored[r] > unsure[r] PROVE r < checkpoint'
      OBVIOUS
    <3>1. r \in Nat /\ Last(batch) \in Nat /\ (r < checkpoint \/ r <= Last(batch))
      BY <1>f, <1>t, <2>2
    <3> QED
      BY <1>t, <2>1, <2>2, <3>1
  <2> QED
    BY <1>f, <2>1, <2>3
<1>4. ASSUME Retry \/ CommitAll PROVE FALSE
  BY <1>4 DEF Retry, CommitAll, ConsumerInv, Single
<1>5. ASSUME BeginAll \/ Take \/ Taken \/ Begin \/ Rollback \/ Completes \/ FailQueue \/ Fails \/ Resume
      PROVE  \A r \in File : Fresh(r)
  <2>1. consumer # "written" /\ UNCHANGED <<stored, unsure, checkpoint>>
    BY <1>5 DEF BeginAll, Take, Taken, Begin, Rollback, Completes, FailQueue, Fails, Resume, db, ConsumerInv
  <2> QED
    BY <1>s, <2>1
<1>6. ASSUME Produce \/ Cancel \/ Pause PROVE \A r \in File : Fresh(r)
  <2>1. UNCHANGED <<stored, unsure, checkpoint, consumer, batch>>
    BY <1>6, ProducerGuards DEF cons, Cancel, Pause, rest, db
  <2> QED
    BY <1>s, <2>1
<1>7. ASSUME Lose PROVE \A r \in File : Fresh(r)
  <2>1. UNCHANGED <<checkpoint, consumer, batch>> /\ Unheard
    BY <1>7 DEF Lose, rest
  <2>2. stored' \in [File -> Nat] /\ \A r \in File : stored'[r] >= stored[r]
    <3>1. CASE UNCHANGED stored
      BY <1>t, <3>1
    <3> QED
      BY <1>7, <3>1, LandsTyped DEF Lose
  <2> QED
    BY <1>u, <2>1, <2>2
<1> QED
  BY <1>1, <1>2, <1>3, <1>4, <1>5, <1>6, <1>7 DEF Next, Consume

(* -------------------------- a single transaction ------------------------- *)

LEMMA ReportedStays ==
    ASSUME Typed, ProducerInv, UNCHANGED import, Produce, NEW r \in import.malformed, Reported(r), ended' # "failed"
    PROVE  Reported(r)'
<1>t. /\ tasks \in Seq(File) /\ pending \in Seq(File) /\ Records \in Nat /\ unread \in 1..(Records + 1)
      /\ r \in File /\ r \in Nat
  BY ImportFacts DEF Typed, File
<1>f. ~ (ProducerFails /\ producer # "done")
  BY DEF ProducerInv, ProducerFails, Typed
<1>1. ASSUME Read PROVE Reported(r)'
  <2>0. ~aborted /\ tasks = <<>> /\ UNCHANGED <<rejected, pending>>
    BY <1>1, <1>f DEF Read, ProducerInv
  <2>1. PICK last \in File :
          /\ unread <= last /\ unread' = last + 1
          /\ tasks' = [n \in 1..(last - unread + 1) |-> unread + n - 1]
          /\ tasks' \in Seq(File) /\ Len(tasks') = last - unread + 1
    BY <1>1, <2>0, ChunkRead
  <2>2. ASSUME r >= unread, ~(r >= unread') PROVE r \in ToSet(tasks')
    <3>0. last \in Int /\ unread \in Int /\ r \in Int /\ unread <= r /\ r <= last
      BY <1>t, <2>1, <2>2 DEF File
    <3> DEFINE n == r - unread + 1
    <3>a. n \in 1..(last - unread + 1) /\ unread + n - 1 = r
      BY <3>0
    <3> HIDE DEF n
    <3>1. n \in 1..(last - unread + 1) /\ tasks'[n] = r
      BY <2>1, <3>a
    <3> QED
      BY <2>1, <3>1 DEF ToSet
  <2>3. r \notin ToSet(tasks)
    BY <2>0 DEF ToSet
  <2>4. rejected' = rejected /\ ToSet(pending)' = ToSet(pending)
    BY <2>0
  <2> QED
    BY <2>2, <2>3, <2>4 DEF Reported
<1>2. ASSUME Accept PROVE Reported(r)'
  <2>0. tasks # <<>> /\ tasks' = Tail(tasks) /\ UNCHANGED <<rejected, unread>>
    BY <1>2 DEF Accept, cons
  <2>1. r \in ToSet(tasks) => r = Head(tasks) \/ r \in ToSet(tasks')
    <3>1. /\ Head(tasks) = tasks[1] /\ 1 \in DOMAIN tasks
          /\ \A i \in DOMAIN tasks : i = 1 \/ (i - 1 \in DOMAIN tasks' /\ tasks[i] = tasks'[i - 1])
      BY <1>t, <2>0, Rest
    <3> QED
      BY <3>1 DEF ToSet
  <2>2. \/ pending' = pending /\ Head(tasks) \notin import.malformed
        \/ pending' = Append(pending, Head(tasks)) /\ Head(tasks) \in File
    BY <1>t, <1>2, <2>0, Rest DEF Accept
  <2>3. (r \in ToSet(pending) => r \in ToSet(pending')) /\ (r = Head(tasks) => r \in ToSet(pending'))
    <3>1. CASE pending' = pending /\ Head(tasks) \notin import.malformed
      BY <3>1
    <3>2. CASE pending' = Append(pending, Head(tasks)) /\ Head(tasks) \in File
      <4>1. /\ DOMAIN pending' = DOMAIN pending \cup {Len(pending) + 1} /\ pending'[Len(pending) + 1] = Head(tasks)
            /\ \A i \in DOMAIN pending : pending'[i] = pending[i]
        BY <1>t, <3>2, Longer
      <4> QED
        BY <4>1 DEF ToSet
    <3> QED
      BY <2>2, <3>1, <3>2
  <2> QED
    BY <2>0, <2>1, <2>3 DEF Reported
<1>3. ASSUME Reject PROVE Reported(r)'
  <2>0. /\ pending # <<>> /\ pending' = Tail(pending) /\ rejected' = rejected \cup {Head(pending)}
        /\ UNCHANGED <<tasks, unread>>
    BY <1>3 DEF Reject
  <2>1. r \in ToSet(pending) => r = Head(pending) \/ r \in ToSet(pending')
    <3>1. /\ Head(pending) = pending[1] /\ 1 \in DOMAIN pending
          /\ \A i \in DOMAIN pending : i = 1 \/ (i - 1 \in DOMAIN pending' /\ pending[i] = pending'[i - 1])
      BY <1>t, <2>0, Rest
    <3> QED
      BY <3>1 DEF ToSet
  <2>2. ToSet(tasks') = ToSet(tasks)
    BY <2>0
  <2> QED
    BY <2>0, <2>1, <2>2 DEF Reported
<1>4. ASSUME Settled \/ Push PROVE Reported(r)'
  <2>1. UNCHANGED <<rejected, pending, tasks, unread>>
    BY <1>4 DEF Settled, Push, cons
  <2> QED
    BY <2>1 DEF Reported
<1> QED
  BY <1>1, <1>2, <1>3, <1>4 DEF Produce

LEMMA SingleStep ==
    Typed /\ ProducerInv /\ OrderInv /\ ConsumerInv /\ SingleInv /\ Next => SingleInv'
<1> SUFFICES ASSUME Typed, ProducerInv, OrderInv, ConsumerInv, SingleInv, Next PROVE SingleInv'
  OBVIOUS
<1>i. import' = import
  BY DEF Next
<1> SUFFICES ASSUME Single PROVE SingleInv'
  BY <1>i DEF SingleInv, Single
<1>t. /\ batch \in Seq(File) /\ queue \in Seq(Seq(File)) /\ tasks \in Seq(File) /\ building \in Seq(File)
      /\ stored \in [File -> Nat] /\ inTx \in [File -> Nat] /\ Good \subseteq File
      /\ Records \in Nat /\ File \subseteq Nat /\ unread \in Nat /\ import.malformed \subseteq File
      /\ \A r \in File : None[r] = 0
  BY ImportFacts, NoneIsEmpty DEF Typed, Good, File
<1> DEFINE InTurn(r) == InHand(r) /\ (r \in ToSet(batch) => consumer \in {"taken", "write"})
           InTurnNext(r) == InHand(r)' /\ (r \in ToSet(batch') => consumer' \in {"taken", "write"})
           Closed == consumer = "over" /\ result # "failed" => \A r \in Good : stored[r] = 1
           Whole == stored = None \/ \A r \in Good : stored[r] = 1
           Late == {"failing", "joining", "over"}
           Held == ended # "failed" /\ ~lost /\ consumer \notin Late => \A r \in Good : InHand(r) \/ inTx[r] = 1
<1>c. /\ consumer \notin {"commitAll", "failing", "joining", "over"} => stored = None
      /\ consumer = "commitAll" /\ ~lost => stored = None
      /\ consumer = "written" /\ ~lost => \A i \in DOMAIN batch : inTx[batch[i]] = 1
      /\ Closed /\ Whole /\ Held
      /\ \A r \in File : inTx[r] <= 1 /\ stored[r] <= 1 /\ (InTurn(r) => inTx[r] = 0)
      /\ ended # "failed" => \A r \in import.malformed : Reported(r)
  BY DEF SingleInv
<1> DEFINE HeldNext == ended' # "failed" /\ ~lost' /\ consumer' \notin Late => \A r \in Good : InHand(r)' \/ inTx'[r] = 1
           CountNext == \A r \in File : inTx'[r] <= 1 /\ stored'[r] <= 1 /\ (InTurnNext(r) => inTx'[r] = 0)
           WrittenNext == consumer' = "written" /\ ~lost' => \A i \in DOMAIN batch' : inTx'[batch'[i]] = 1
           OverNext == /\ consumer' \notin {"commitAll", "failing", "joining", "over"} => stored' = None
                       /\ consumer' = "commitAll" /\ ~lost' => stored' = None
                       /\ consumer' = "over" /\ result' # "failed" => \A r \in Good : stored'[r] = 1
                       /\ stored' = None \/ \A r \in Good : stored'[r] = 1
           ReportedNext == ended' # "failed" => \A r \in import.malformed : Reported(r)'
<1> SUFFICES OverNext /\ WrittenNext /\ HeldNext /\ CountNext /\ ReportedNext
  BY <1>i DEF SingleInv, Good, None
<1>p. ASSUME UNCHANGED <<producer, tasks, pending, building, unread, ended, queue, rejected>>
      PROVE  ReportedNext
  BY <1>c, <1>p DEF Reported
<1>h. ASSUME UNCHANGED <<producer, tasks, pending, building, unread, ended, queue, batch>>
      PROVE  \A r : InHand(r)' <=> InHand(r)
  BY <1>h DEF InHand
<1>1. ASSUME Produce PROVE OverNext /\ WrittenNext /\ HeldNext /\ CountNext /\ ReportedNext
  <2>1. UNCHANGED <<consumer, batch, stored, inTx, lost, result>>
    BY <1>1, ProducerGuards DEF cons, db, world
  <2>2. \A r \in File : /\ ended' # "failed" => ended # "failed"
                        /\ ended' # "failed" /\ r \notin import.malformed /\ InHand(r) => InHand(r)'
                        /\ InHand(r)' => InHand(r)
    BY <1>1, <1>i, ProducerKeeps
  <2>3. HeldNext
    BY <1>c, <1>t, <2>1, <2>2 DEF Good
  <2>4. CountNext
    BY <1>c, <2>1, <2>2
  <2>5. ended' # "failed" => ended # "failed"
    BY <1>1 DEF Produce, Read, Accept, Reject, Settled, Push, ProducerFails
  <2>6. ReportedNext
    BY <1>c, <1>i, <1>1, <2>5, ReportedStays
  <2> QED
    BY <1>c, <2>1, <2>3, <2>4, <2>6
<1>2. ASSUME Take PROVE OverNext /\ WrittenNext /\ HeldNext /\ CountNext /\ ReportedNext
  <2>1. /\ UNCHANGED <<stored, inTx, lost, result, ended, rejected>> /\ consumer = "take" /\ batch = <<>>
        /\ consumer' \in {"taken", "commitAll", "failing"}
    BY <1>2 DEF Take, Send, Fail, db, world, ConsumerInv, Single
  <2>2. \A r : InHand(r)' <=> InHand(r)
    BY <1>2, TakeKeeps
  <2>3. \A r : r \notin ToSet(batch)
    BY <2>1 DEF ToSet
  <2>4. ReportedNext
    <3>1. UNCHANGED <<pending, tasks, unread>>
      BY <1>2, TakeKeeps
    <3> QED
      BY <1>c, <2>1, <3>1 DEF Reported
  <2> QED
    BY <1>c, <2>1, <2>2, <2>3, <2>4
<1>3. ASSUME WriteBatch PROVE OverNext /\ WrittenNext /\ HeldNext /\ CountNext /\ ReportedNext
  <2>1. /\ UNCHANGED <<producer, tasks, pending, building, unread, ended, queue>>
        /\ UNCHANGED <<batch, rejected, lost, result>> /\ consumer = "write" /\ consumer' \in {"written", "rollback"}
    BY <1>3, ElsewhereSteps DEF WriteBatch, Send, world, Single
  <2>2. \A r : InHand(r)' <=> InHand(r)
    BY <1>h, <2>1
  <2>3. CASE consumer' = "rollback" /\ UNCHANGED <<stored, inTx>>
    BY <1>c, <1>p, <2>1, <2>2, <2>3
  <2>4. CASE consumer' = "written" /\ Write(batch)
    <3>1. stored' = stored /\ inTx' = Plus(inTx, batch)
      BY <2>1, <2>4 DEF Write, Single
    <3>2. \A r \in File : inTx'[r] = inTx[r] + (IF r \in ToSet(batch) THEN 1 ELSE 0)
      BY <1>t, <3>1, PlusCounts
    <3>3. \A r \in ToSet(batch) : InHand(r) /\ r \in File
      BY <1>t DEF InHand, ToSet
    <3>4. \A r \in ToSet(batch) : inTx'[r] = 1
      <4>1. \A r \in ToSet(batch) : inTx[r] = 0
        BY <1>c, <2>1, <3>3
      <4> QED
        BY <3>2, <3>3, <4>1
    <3>5. \A r \in File : r \notin ToSet(batch) => inTx'[r] = inTx[r]
      BY <1>t, <3>2
    <3>6. WrittenNext
      BY <2>1, <3>4 DEF ToSet
    <3>7. HeldNext
      BY <1>c, <1>t, <2>1, <2>2, <3>4, <3>5
    <3>8. CountNext
      BY <1>c, <2>1, <2>2, <2>4, <3>1, <3>4, <3>5
    <3> QED
      BY <1>c, <1>p, <2>1, <3>1, <3>6, <3>7, <3>8
  <2>5. ASSUME consumer' = "rollback", NEW done, Write(done), \A r \in ToSet(done) : r \in ToSet(batch)
        PROVE  OverNext /\ WrittenNext /\ HeldNext /\ CountNext /\ ReportedNext
    <3>1. stored' = stored /\ inTx' = Plus(inTx, done)
      BY <2>1, <2>5 DEF Write, Single
    <3>2. \A r \in File : inTx'[r] = inTx[r] + (IF r \in ToSet(done) THEN 1 ELSE 0)
      BY <1>t, <3>1, PlusCounts
    <3>3. \A r \in ToSet(batch) : InHand(r) /\ r \in File
      BY <1>t DEF InHand, ToSet
    <3>4. \A r \in ToSet(batch) : inTx[r] = 0
      BY <1>c, <2>1, <3>3
    <3>5. \A r \in File : (r \notin ToSet(batch) => inTx'[r] = inTx[r]) /\ (r \in ToSet(batch) => inTx'[r] <= 1)
      <4>1. \A r \in File : inTx[r] \in Nat
        BY DEF Typed
      <4>2. ASSUME NEW r \in File, r \notin ToSet(batch) PROVE inTx'[r] = inTx[r]
        BY <2>5, <3>2, <4>1, <4>2
      <4>3. ASSUME NEW r \in File, r \in ToSet(batch) PROVE inTx'[r] <= 1
        BY <3>2, <3>4, <4>3
      <4> QED
        BY <4>2, <4>3
    <3>7. HeldNext
      BY <1>c, <1>t, <2>1, <2>2, <3>3, <3>5
    <3>8. CountNext
      BY <1>c, <2>1, <2>2, <2>5, <3>1, <3>5
    <3> QED
      BY <1>c, <1>p, <2>1, <2>5, <3>1, <3>7, <3>8
  <2> QED
    <3>1. import.target = "table"
      BY ImportFacts DEF Typed, Single
    <3>2. \A done \in MayBeDone(batch) : \A r \in ToSet(done) : r \in ToSet(batch)
      BY <3>1 DEF MayBeDone, ToSet
    <3> QED
      BY <1>3, <2>3, <2>4, <2>5, <3>1, <3>2 DEF WriteBatch, Send, Single, db
<1>4. ASSUME Written PROVE OverNext /\ WrittenNext /\ HeldNext /\ CountNext /\ ReportedNext
  <2>1. /\ UNCHANGED <<producer, tasks, pending, building, unread, ended, queue>>
        /\ UNCHANGED <<rejected, lost, result, stored, inTx>>
        /\ consumer = "written" /\ consumer' = "take" /\ batch' = <<>> /\ batch # <<>>
    BY <1>4, ElsewhereSteps DEF Written, db, world, ConsumerInv
  <2>2. \A r \in ToSet(batch) : inTx[r] = 1 \/ lost
    BY <1>c, <2>1 DEF ToSet
  <2>3. \A r : /\ r \notin ToSet(batch')
               /\ InHand(r) => InHand(r)' \/ r \in ToSet(batch)
               /\ InHand(r)' => InHand(r)
    BY <2>1 DEF InHand, ToSet
  <2>4. \A r \in File : InHand(r)' => r \notin ToSet(batch)
    <3> SUFFICES ASSUME NEW r \in File, InHand(r)', r \in ToSet(batch) PROVE FALSE
      OBVIOUS
    <3>0. r \in Nat
      BY <1>t
    <3>i. PICK i \in DOMAIN batch : r = batch[i]
      BY DEF ToSet
    <3>1. r \notin ToSet(building) /\ r \notin ToSet(tasks)
      <4>1. \A j \in DOMAIN building : r < building[j]
        BY <3>i DEF OrderInv, Before
      <4>2. \A j \in DOMAIN tasks : r < tasks[j]
        BY <3>i DEF OrderInv, Before
      <4> QED
        BY <3>0, <4>1, <4>2 DEF ToSet
    <3>2. \A q \in DOMAIN queue : r \notin ToSet(queue[q])
      <4> SUFFICES ASSUME NEW q \in DOMAIN queue, NEW j \in DOMAIN queue[q] PROVE r # queue[q][j]
        BY DEF ToSet
      <4>1. r < queue[q][j]
        BY <3>i DEF OrderInv, Before
      <4> QED
        BY <3>0, <4>1
    <3>3. ~ (r >= unread)
      <4>1. r <= unread - 1
        BY <3>i DEF OrderInv, Within
      <4> QED
        BY <1>t, <3>0, <4>1
    <3>4. UNCHANGED <<tasks, building, queue, unread>>
      BY <2>1
    <3> QED
      BY <2>3, <3>1, <3>2, <3>3, <3>4 DEF InHand
  <2>5. CountNext
    BY <1>c, <2>1, <2>3, <2>4
  <2>6. HeldNext
    BY <1>c, <1>t, <2>1, <2>2, <2>3
  <2> QED
    BY <1>c, <1>p, <2>1, <2>5, <2>6
<1>5. ASSUME CommitAll PROVE OverNext /\ WrittenNext /\ HeldNext /\ CountNext /\ ReportedNext
  <2>1. /\ UNCHANGED <<producer, tasks, pending, building, unread, ended, queue>>
        /\ UNCHANGED <<batch, rejected, lost, result>> /\ consumer = "commitAll"
        /\ ended = "closed" /\ queue = <<>> /\ batch = <<>>
    BY <1>5, ElsewhereSteps DEF CommitAll, world, ConsumerInv
  <2>2. \A r : InHand(r)' <=> InHand(r)
    BY <1>h, <2>1
  <2>3. CASE consumer' = "failing" /\ UNCHANGED <<stored, inTx>>
    <3>1. \A r : r \notin ToSet(batch)
      BY <2>1 DEF ToSet
    <3> QED
      BY <1>c, <1>p, <2>1, <2>2, <2>3, <3>1
  <2>4. CASE ~lost /\ consumer' \in {"over", "failing"} /\ inTx' = None /\ stored' = Committed
    <3>1. stored = None
      BY <1>c, <2>1, <2>4
    <3>2. \A r \in File : stored'[r] = inTx[r]
      BY <1>t, <2>4, <3>1, SumTyped
    <3>3. \A r \in Good : ~InHand(r)
      <4>1. tasks = <<>> /\ building = <<>> /\ unread > Records
        BY <2>1 DEF ProducerInv
      <4>2. \A r \in File : ~ (r >= unread)
        BY <1>t, <4>1 DEF File
      <4> QED
        BY <1>t, <2>1, <4>1, <4>2 DEF InHand, ToSet
    <3>4. \A r \in Good : stored'[r] = 1
      BY <1>c, <1>t, <2>1, <2>4, <3>2, <3>3
    <3> QED
      BY <1>c, <1>t, <1>p, <2>1, <2>4, <3>2, <3>4
  <2> QED
    BY <1>5, <2>3, <2>4 DEF CommitAll, Fail, Ok, Overtaken, db
<1>6. ASSUME BeginAll \/ Taken \/ Rollback
      PROVE  OverNext /\ WrittenNext /\ HeldNext /\ CountNext /\ ReportedNext
  <2>1. UNCHANGED <<producer, tasks, pending, building, unread, ended, queue, batch, rejected, lost, result>>
    BY <1>6, ElsewhereSteps DEF BeginAll, Taken, Rollback, world
  <2>2. UNCHANGED <<stored, inTx>> /\ consumer \in {"beginAll", "taken", "rollback"}
    BY <1>6 DEF BeginAll, Taken, Rollback, db, Single
  <2>3. /\ consumer' \in {"take", "write", "failing"} /\ consumer \in {"beginAll", "taken", "rollback"}
        /\ consumer' = "write" => consumer = "taken"
    BY <1>6 DEF BeginAll, Taken, Rollback, Send, Fail, Single
  <2>4. \A r : InHand(r)' <=> InHand(r)
    BY <1>h, <2>1
  <2>5. CountNext
    BY <1>c, <2>1, <2>2, <2>3, <2>4
  <2> QED
    BY <1>c, <1>p, <2>1, <2>2, <2>3, <2>4, <2>5
<1>7. ASSUME Begin \/ Commit \/ Retry \/ Resume PROVE FALSE
  BY <1>7 DEF Begin, Commit, Retry, Resume, ConsumerInv, Single
<1>8. ASSUME Completes PROVE OverNext /\ WrittenNext /\ HeldNext /\ CountNext /\ ReportedNext
  <2>1. UNCHANGED <<producer, tasks, pending, building, unread, ended, queue, batch, rejected, lost, stored, inTx>>
    BY <1>8, ElsewhereSteps DEF Completes, world, db
  <2>2. consumer = "over" /\ consumer' = "over" /\ result = "running" /\ result' = "done"
    BY <1>8 DEF Completes
  <2>3. \A r : InHand(r)' <=> InHand(r)
    BY <1>h, <2>1
  <2> QED
    BY <1>c, <1>p, <2>1, <2>2, <2>3
<1>9. ASSUME FailQueue PROVE OverNext /\ WrittenNext /\ HeldNext /\ CountNext /\ ReportedNext
  <2>1. /\ UNCHANGED <<producer, tasks, pending, building, unread, batch, rejected, lost, result, stored, inTx>>
        /\ consumer = "failing" /\ consumer' = "joining"
    BY <1>9 DEF FailQueue, prod, world, db
  <2>2. \/ ended' = "failed" /\ queue' = <<>>
        \/ UNCHANGED <<ended, queue>>
    BY <1>9 DEF FailQueue
  <2>3. \A r : InHand(r)' => InHand(r)
    BY <2>1, <2>2 DEF InHand
  <2>4. ended' # "failed" => ended # "failed" /\ (\A r : InHand(r) => InHand(r)') /\ ReportedNext
    BY <1>c, <2>1, <2>2 DEF InHand, Reported
  <2> QED
    BY <1>c, <2>1, <2>3, <2>4
<1>10. ASSUME Fails PROVE OverNext /\ WrittenNext /\ HeldNext /\ CountNext /\ ReportedNext
  <2>1. /\ UNCHANGED <<producer, tasks, pending, building, unread, ended, queue, batch, rejected, lost, stored>>
        /\ consumer = "joining" /\ consumer' = "over" /\ result' = "failed" /\ inTx' = None
    BY <1>10, ElsewhereSteps DEF Fails, world
  <2> QED
    BY <1>c, <1>p, <1>t, <2>1
<1>12. ASSUME Lose, stored' # stored PROVE OverNext /\ WrittenNext /\ HeldNext /\ CountNext /\ ReportedNext
  <2>1. /\ UNCHANGED <<producer, tasks, pending, building, unread, ended, queue, batch, rejected, consumer, result>>
        /\ ~lost /\ lost' /\ inTx' = None /\ result = "running"
    BY <1>12, ElsewhereSteps DEF Lose, rest
  <2>2. consumer = "commitAll" /\ stored' = Committed
    BY <1>12 DEF Lose, Lands, ConsumerInv, Single
  <2>3. ended = "closed" /\ queue = <<>> /\ batch = <<>> /\ stored = None
    BY <1>c, <2>1, <2>2 DEF ConsumerInv
  <2>4. \A r \in File : stored'[r] = inTx[r]
    BY <1>t, <2>2, <2>3, SumTyped
  <2>5. \A r \in Good : ~InHand(r)
    <3>1. tasks = <<>> /\ building = <<>> /\ unread > Records
      BY <2>3 DEF ProducerInv
    <3>2. \A r \in File : ~ (r >= unread)
      BY <1>t, <3>1 DEF File
    <3> QED
      BY <1>t, <2>3, <3>1, <3>2 DEF InHand, ToSet
  <2>6. \A r \in Good : stored'[r] = 1
    BY <1>c, <1>t, <2>1, <2>2, <2>3, <2>4, <2>5
  <2>7. CountNext
    BY <1>c, <1>t, <2>1, <2>4
  <2> QED
    BY <1>p, <2>1, <2>2, <2>6, <2>7
<1>11. ASSUME Cancel \/ Pause \/ (Lose /\ stored' = stored)
       PROVE  OverNext /\ WrittenNext /\ HeldNext /\ CountNext /\ ReportedNext
  <2>1. UNCHANGED <<producer, tasks, pending, building, unread, ended, queue, batch, rejected, stored, consumer, result>>
    BY <1>11, ElsewhereSteps DEF Cancel, Pause, Lose, rest, db
  <2>2. UNCHANGED <<lost, inTx>> \/ (lost' /\ inTx' = None)
    BY <1>11 DEF Cancel, Pause, Lose, rest, db
  <2>3. \A r : InHand(r)' <=> InHand(r)
    BY <1>h, <2>1
  <2>4. CASE UNCHANGED <<lost, inTx>>
    BY <1>c, <1>p, <2>1, <2>3, <2>4
  <2>5. CASE lost' /\ inTx' = None
    BY <1>c, <1>p, <1>t, <2>1, <2>3, <2>5
  <2> QED
    BY <2>2, <2>4, <2>5
<1> QED
  BY <1>1, <1>2, <1>3, <1>4, <1>5, <1>6, <1>7, <1>8, <1>9, <1>10, <1>11, <1>12 DEF Next, Consume

(* -------------------------------- theorems ------------------------------- *)

LEMMA InitInv == Init => Inv
<1> SUFFICES ASSUME Init PROVE Inv
  OBVIOUS
<1>1. Typed
  BY InitTyped
<1>i. import \in Imports
  BY DEF Init
<1>f. Records \in Nat /\ import.malformed \subseteq File
  BY <1>i, ImportFacts
<1>t. Records \in Nat /\ File \subseteq Nat \ {0} /\ Good \subseteq File /\ import.malformed \subseteq File
  <2>1. File \subseteq Nat \ {0}
    BY <1>f DEF File
  <2> QED
    BY <2>1, <1>f DEF Good
<1>e. /\ tasks = <<>> /\ pending = <<>> /\ building = <<>> /\ queue = <<>> /\ batch = <<>> /\ unread = 1
      /\ ended = "open" /\ producer = "read" /\ checkpoint = 0 /\ result = "running" /\ ~lost /\ rejected = {}
      /\ stored = None /\ inTx = None /\ unsure = None
      /\ consumer = IF import.transaction = "all" THEN "beginAll" ELSE "take"
  BY DEF Init
<1>n. \A r \in File : None[r] = 0
  BY NoneIsEmpty
<1>u. \A r \in File : r >= unread /\ ~ (r < checkpoint)
  <2>1. unread = 1 /\ checkpoint = 0
    BY <1>e
  <2>2. \A r \in File : r \in Nat /\ r # 0
    BY <1>t
  <2>3. \A r \in Nat : r # 0 => r >= 1 /\ ~ (r < 0)
    OBVIOUS
  <2> QED
    BY <2>1, <2>2, <2>3
<1>2. ProducerInv
  BY <1>e DEF ProducerInv
<1>3. OrderInv
  BY <1>e DEF OrderInv, Increasing, Before, Within
<1>4. ConsumerInv
  BY <1>e DEF ConsumerInv
<1>5. TransactionInv
  BY <1>e DEF TransactionInv
<1>6. CoverInv
  BY <1>e, <1>t, <1>u DEF CoverInv, CheckpointIsStored, InHand, Good
<1>7. FreshInv
  BY <1>e, <1>n DEF FreshInv
<1>8. SingleInv
  <2>1. consumer \notin {"over", "written"} /\ \A r \in File : InHand(r) /\ inTx[r] = 0 /\ stored[r] = 0
    BY <1>e, <1>n, <1>u DEF InHand
  <2>2. \A r \in import.malformed : Reported(r)
    BY <1>t, <1>u DEF Reported
  <2> QED
    BY <1>e, <1>t, <2>1, <2>2 DEF SingleInv
<1>9. RejectedInv
  BY <1>e DEF RejectedInv
<1> QED
  BY <1>1, <1>2, <1>3, <1>4, <1>5, <1>6, <1>7, <1>8, <1>9 DEF Inv

LEMMA StepInv == Inv /\ [Next]_vars => Inv'
<1> SUFFICES ASSUME Inv, [Next]_vars PROVE Inv'
  OBVIOUS
<1>1. CASE Next
  <2>1. Typed'
    <3>1. UNCHANGED import /\ (Produce \/ Consume \/ Cancel \/ Lose \/ Pause \/ Resume)
      BY <1>1 DEF Next
    <3> QED
      BY <3>1, ProduceTyped, ConsumeTyped, AroundTyped DEF Inv
  <2> QED
    BY <1>1, <2>1, ProducerStep, OrderStep, ConsumerStep, TransactionStep, CoverStep, FreshStep, SingleStep, RejectedStep
    DEF Inv
<1>2. CASE UNCHANGED vars
  <2>1. UNCHANGED <<import, producer, unread, tasks, pending, building, queue, ended, consumer, batch, row, sent>>
    BY <1>2 DEF vars, run, prod
  <2>2. UNCHANGED <<stored, inTx, unsure, rejected, checkpoint, aborted, lost, paused, result, attempt>>
    BY <1>2 DEF vars, run, db, world
  <2>3. Typed' /\ ProducerInv' /\ OrderInv' /\ ConsumerInv'
    <3>1. Typed'
      BY <2>1, <2>2 DEF Inv, Typed
    <3>2. ProducerInv'
      BY <2>1, <2>2 DEF Inv, ProducerInv
    <3>3. OrderInv'
      BY <2>1, <2>2 DEF Inv, OrderInv, Increasing, Before, Within
    <3>4. ConsumerInv'
      BY <2>1, <2>2 DEF Inv, ConsumerInv
    <3> QED
      BY <3>1, <3>2, <3>3, <3>4
  <2>4. TransactionInv' /\ RejectedInv' /\ FreshInv'
    BY <2>1, <2>2 DEF Inv, TransactionInv, RejectedInv, FreshInv, Single
  <2>5. CoverInv'
    BY <2>1, <2>2 DEF Inv, CoverInv, CheckpointIsStored, InHand, Dealt, Single, Good
  <2>6. SingleInv'
    BY <2>1, <2>2 DEF Inv, SingleInv, InHand, Reported, Single, Good
  <2> QED
    BY <2>3, <2>4, <2>5, <2>6 DEF Inv
<1> QED
  BY <1>1, <1>2

\* The inductive invariant: where both sides of the pipeline are, the order of what
\* is in hand, and that every record is in hand, in the transaction or dealt with
\* (importRun.ts, produce() and consume()).
THEOREM ImportInvariance == Spec => []Inv
  BY InitInv, StepInv, PTL DEF Spec

\* "resumes from the last checkpoint without repeating or skipping a record"
\* (importRun.test.ts:369), however often and wherever the import was cut off: nothing is skipped,
\* and a record is repeated only as often as a statement stored it whose answer did not come.
THEOREM ImportResumesExactly == Spec => []ResumesExactly
<1>1. Inv => ResumesExactly
  <2> SUFFICES ASSUME Inv PROVE ResumesExactly
    OBVIOUS
  <2>1. NoRepeat
    <3>1. \A r \in File : stored[r] \in Nat /\ unsure[r] \in Nat
      BY DEF Inv, Typed
    <3>2. CASE Single
      <4>1. \A r \in File : stored[r] <= 1
        BY <3>2 DEF Inv, SingleInv
      <4> QED
        BY <3>1, <4>1 DEF NoRepeat
    <3>3. CASE ~Single
      BY <3>1, <3>3 DEF Inv, FreshInv, NoRepeat
    <3> QED
      BY <3>2, <3>3
  <2>2. CheckpointIsStored
    <3>1. CASE Single
      <4>1. checkpoint = 0 /\ \A r \in File : ~ (r < 0)
        BY <3>1, ImportFacts DEF Inv, Typed, ConsumerInv, Single, File
      <4> QED
        BY <4>1 DEF CheckpointIsStored
    <3>2. CASE ~Single
      BY <3>2 DEF Inv, CoverInv
    <3> QED
      BY <3>1, <3>2
  <2> QED
    BY <2>1, <2>2 DEF ResumesExactly
<1> QED
  BY <1>1, ImportInvariance, PTL

\* An import in a single transaction stores every record that parses or none
\* (importRun.ts, commitAll and its rollback).
THEOREM ImportAllOrNothing == Spec => []AllOrNothing
<1>1. Inv => AllOrNothing
  <2> SUFFICES ASSUME Inv, Single PROVE /\ stored = None \/ \A r \in Good : stored[r] = 1
                                        /\ result = "done" => \A r \in File : Dealt(r)
    BY DEF AllOrNothing, Single, Good
  <2>t. Records \in Nat /\ unread \in Nat /\ stored \in [File -> Nat]
    BY ImportFacts DEF Inv, Typed
  <2>1. stored = None \/ \A r \in Good : stored[r] = 1
    BY DEF Inv, SingleInv
  <2>2. ASSUME result = "done" PROVE \A r \in File : Dealt(r)
    <3>1. consumer = "over" /\ ended = "closed"
      BY <2>2 DEF Inv, ConsumerInv
    <3>2. \A r \in Good : Dealt(r)
      <4>1. \A r \in Good : stored[r] = 1
        BY <2>2, <3>1 DEF Inv, SingleInv
      <4> QED
        BY <4>1 DEF Dealt
    <3>3. \A r \in import.malformed : r \in File => Dealt(r)
      <4>1. tasks = <<>> /\ pending = <<>> /\ unread > Records
        BY <3>1 DEF Inv, ProducerInv
      <4>2. \A r \in File : ~ (r >= unread)
        BY <2>t, <4>1 DEF File
      <4>3. \A r \in import.malformed : Reported(r)
        BY <3>1 DEF Inv, SingleInv
      <4> QED
        BY <4>1, <4>2, <4>3 DEF Reported, Dealt, ToSet
    <3> QED
      BY <3>2, <3>3 DEF Good
  <2> QED
    BY <2>1, <2>2
<1> QED
  BY <1>1, ImportInvariance, PTL

\* "A bad record never costs more than itself unless the import was told to stop"
\* (importRun.ts:31): a completed import has stored every good record.
THEOREM ImportBadCostsItself == Spec => []BadCostsItself
<1>1. Inv => BadCostsItself
  <2> SUFFICES ASSUME Inv, result = "done", "lose" \notin import.fate,
                      NEW r \in File \ (import.malformed \cup import.refused)
               PROVE  stored[r] > 0
    BY DEF BadCostsItself
  <2>1. consumer = "over" /\ ended = "closed" /\ queue = <<>> /\ batch = <<>>
    BY DEF Inv, ConsumerInv
  <2>2. r \in Good /\ r \in File /\ r \notin rejected
    BY DEF Inv, RejectedInv, Good
  <2>3. CASE Single
    <3>1. stored[r] = 1
      BY <2>1, <2>2, <2>3 DEF Inv, SingleInv
    <3> QED
      BY <3>1
  <2>4. CASE ~Single
    <3>1. tasks = <<>> /\ building = <<>> /\ unread > Records
      BY <2>1 DEF Inv, ProducerInv
    <3>2. Records \in Nat /\ unread \in Nat /\ r \in 1..Records
      BY <2>2, ImportFacts DEF Inv, Typed, File
    <3>3. ~InHand(r)
      BY <2>1, <3>1, <3>2 DEF InHand, ToSet
    <3>4. Dealt(r)
      BY <2>1, <2>2, <2>4, <3>3 DEF Inv, CoverInv
    <3> QED
      BY <2>2, <3>4 DEF Dealt
  <2> QED
    BY <2>3, <2>4
<1> QED
  BY <1>1, ImportInvariance, PTL

(* ------------------------------- the script ------------------------------ *)

\* The last quote of the file is not closed.
Quote == request.unclosed = TRUE
\* How many of its statements a script has dealt with when it has read up to next.
Passed == IF next > Statements /\ Quote THEN Statements - 1 ELSE next - 1
\* How many statements the script may send.
Proper == IF Quote THEN Statements - 1 ELSE Statements
\* The script is one transaction (settle in taskService.ts commits or rolls back).
OneTx == request.transaction = "single"

\* The states and flags of the script have their types.
ScriptTyped ==
    /\ request.unclosed \in BOOLEAN
    /\ request.transaction \in {"none", "single"} /\ request.onError \in {"stop", "continue"}
    /\ sstep \in {"session", "source", "begin", "start", "scan", "run", "settle", "close", "ended"}
    /\ state \in {"running", "done", "failed", "cancelled"}
    /\ listening \in BOOLEAN /\ cancelled \in BOOLEAN /\ saborted \in BOOLEAN
    /\ killing \in BOOLEAN /\ sInTx \in BOOLEAN
    /\ task \in {"RUNNING", "CANCELLING", "CANCELLED", "COMPLETED", "FAILED"}
    /\ session \in {"none", "open", "lost", "closed"}
    /\ server \in {"idle", "run", "ok", "error", "interrupted"}
    /\ outside \subseteq {"interrupt", "deadlock"}
\* What it counts is within the file.
ScriptSizes ==
    /\ next \in Nat /\ next >= 1 /\ next <= Statements + 1
    /\ executed \in Nat /\ executed <= Statements
    /\ failed \in Nat /\ failed <= Statements + 1
    /\ reported \in Nat /\ reported <= Script!Kept(failed)
\* Only statements the script sends have effects.
ScriptEffects == undone \subseteq 1..Proper /\ kept \subseteq 1..Proper

\* How far the task is agrees with its session, its run and the statement on the server.
ScriptPlace ==
    /\ sstep \in {"session", "source", "begin", "start", "scan", "run"} => state = "running"
    /\ sstep \in {"settle", "close"} => state # "running"
    /\ sstep \in {"session", "source", "begin", "start"} =>
          ~cancelled /\ failed = 0 /\ reported = 0 /\ executed = 0 /\ next = 1
    /\ listening => sstep \in {"scan", "run"}
    /\ server # "idle" <=> sstep = "run"
    /\ server = "run" => session = "open"
    /\ sstep \notin {"session", "ended"} => session \in {"open", "lost"}
    /\ sstep = "ended" /\ state # "running" => session = "closed"

\* Who ended a statement, and what the run became of it.
ScriptVerdict ==
    /\ killing => cancelled /\ sstep = "run"
    /\ server = "interrupted" => cancelled \/ "interrupt" \in outside
    /\ state = "done" => ~cancelled
    /\ task = "COMPLETED" => state = "done" /\ sstep = "ended"

\* What the task counts.
ScriptCounts ==
    /\ sstep = "scan" => executed = Passed /\ failed < next
    /\ sstep = "run" => executed = next - 2 /\ failed < next - 1 /\ next > 1 /\ next <= Proper + 1
    /\ state = "done" /\ "interrupt" \notin outside => next = Statements + 1 /\ executed = Proper
    /\ failed = 0 /\ Quote => next <= Statements
    /\ sstep \in {"settle", "close", "ended"} => reported = Script!Kept(failed)

\* What a single transaction has done: everything that was sent, unless something failed
\* or somebody else ended a statement of it.
ScriptWhole ==
    OneTx /\ "deadlock" \notin outside =>
      /\ sstep \in {"start", "scan"} /\ session = "open" => sInTx
      /\ sstep = "run" /\ session = "open" /\ server \in {"run", "ok"} => sInTx
      /\ sstep = "run" /\ session = "open" /\ server = "error" => sInTx \/ request.onError = "stop"
      /\ sstep \in {"session", "source", "begin", "start"} => undone = {}
      /\ session = "open" /\ failed = 0 =>
            /\ sstep = "scan" \/ (sstep = "run" /\ server = "ok") => undone = 1..(next - 1)
            /\ server = "run" => undone = 1..(next - 2)
            /\ sstep = "settle" /\ state = "done" /\ "interrupt" \notin outside =>
                  undone = 1..Statements
      /\ \/ kept = {}
         \/ /\ sstep \in {"close", "ended"} /\ ~cancelled /\ ~listening
            /\ "interrupt" \notin outside => kept = 1..Statements

\* The inductive invariant of a script.
ScriptInv ==
    /\ ScriptTyped /\ ScriptSizes /\ ScriptEffects /\ ScriptPlace /\ ScriptVerdict
    /\ ScriptCounts /\ ScriptWhole

\* What the constants of the script give.
LEMMA ScriptFacts ==
    /\ Statements \in Nat /\ Statements >= 1
    /\ Proper \in Nat /\ Proper <= Statements /\ Proper >= Statements - 1
    /\ Quote => Proper = Statements - 1
    /\ ~Quote => Proper = Statements
    /\ MaxErrors \in Nat
<1>1. Statements \in Nat /\ Statements >= 1 /\ MaxErrors \in Nat
  BY ScriptTaskAssumption DEF Script!ScriptAssumption
<1> QED
  BY <1>1 DEF Proper

\* The statements that are sent are the first ones.
LEMMA ScriptProper ==
    ASSUME request.unclosed \in BOOLEAN
    PROVE  Script!WellFormed = 1..Proper
<1>2. CASE Quote
  BY <1>2 DEF Script!WellFormed, Proper, Script!EndsInQuote, Quote
<1>3. CASE ~Quote
  BY <1>3 DEF Script!WellFormed, Script!Script, Proper, Script!EndsInQuote, Quote
<1> QED
  BY <1>2, <1>3

\* A script begins with nothing done.
LEMMA ScriptBegins == Script!Init => ScriptInv
<1> SUFFICES ASSUME Script!Init PROVE ScriptInv
  OBVIOUS
<1>0. /\ request.transaction \in {"none", "single"}
      /\ request.onError \in {"stop", "continue"}
      /\ request.unclosed \in BOOLEAN
  BY DEF Script!Init
<1>1. ScriptTyped
  BY <1>0, ScriptFacts DEF Script!Init, ScriptTyped
<1>1a. ScriptSizes
  BY ScriptFacts DEF Script!Init, ScriptSizes, Script!Kept
<1>1b. ScriptEffects
  BY ScriptFacts DEF Script!Init, ScriptEffects
<1>2. ScriptPlace /\ ScriptVerdict
  BY DEF Script!Init, ScriptPlace, ScriptVerdict
<1>3. ScriptCounts
  BY ScriptFacts DEF Script!Init, ScriptCounts
<1>4. ScriptWhole
  BY DEF Script!Init, ScriptWhole
<1> QED
  BY <1>1, <1>1a, <1>1b, <1>2, <1>3, <1>4 DEF ScriptInv

\* The request of a script does not change, nor what depends on it alone.
LEMMA ScriptSame ==
    request' = request => Proper' = Proper /\ (OneTx' <=> OneTx) /\ (Quote' <=> Quote)
  BY DEF Proper, OneTx, Quote

\* A step of the script keeps the types of its states and flags ...
LEMMA ScriptTypedStep == ScriptInv /\ Script!Next => ScriptTyped'
<1> SUFFICES ASSUME ScriptInv, Script!Next PROVE ScriptTyped'
  OBVIOUS
<1>0. request' = request
  BY DEF Script!Next
<1>p. Script!WellFormed = 1..Proper
  BY ScriptProper DEF ScriptInv, ScriptTyped
<1> USE <1>0, <1>p, ScriptSame, ScriptFacts
    DEF Script!progress, Script!signals, Script!db, ScriptInv, ScriptTyped, ScriptSizes,
        ScriptEffects, ScriptPlace, ScriptVerdict, ScriptCounts, ScriptWhole, Passed,
        Script!Single, Script!Kept
<1>1. CASE Script!OpenSession
  BY <1>1 DEF Script!OpenSession, Script!Ends
<1>2. CASE Script!OpenSource
  BY <1>2 DEF Script!OpenSource, Script!Ends
<1>3. CASE Script!Begin
  BY <1>3 DEF Script!Begin
<1>4. CASE Script!Start
  BY <1>4 DEF Script!Start
<1>5. CASE Script!Exhausted
  BY <1>5 DEF Script!Exhausted, Script!Over, Script!Verdict, Script!LastNotify, Script!OnError
<1>6. CASE Script!ReadFails
  BY <1>6 DEF Script!ReadFails, Script!LastNotify
<1>7. CASE Script!Unclosed
  BY <1>7 DEF Script!Unclosed, Script!Over, Script!Verdict, Script!LastNotify, Script!OnError
<1>8. CASE Script!Send
  BY <1>8 DEF Script!Send
<1>9. CASE Script!Carries
  BY <1>9 DEF Script!Carries, Script!Notify, Script!OnError
<1>10. CASE Script!FailsScript
  BY <1>10 DEF Script!FailsScript, Script!Over, Script!Verdict, Script!LastNotify, Script!OnError
<1>11. CASE Script!Interrupted
  BY <1>11 DEF Script!Interrupted, Script!Over, Script!Verdict, Script!LastNotify, Script!OnError
<1>12. CASE Script!Commit
  BY <1>12 DEF Script!Commit, Script!Commits
<1>13. CASE Script!Rollback
  BY <1>13 DEF Script!Rollback, Script!Commits
<1>14. CASE Script!Close
  BY <1>14 DEF Script!Close, Script!Ends
<1>15. CASE Script!Cancel
  BY <1>15 DEF Script!Cancel, Script!CancelRun
<1>16. CASE Script!Grace
  BY <1>16 DEF Script!Grace
<1>17. CASE Script!Succeed
  BY <1>17 DEF Script!Succeed
<1>18. CASE Script!Refuse
  BY <1>18 DEF Script!Refuse
<1>19. CASE Script!Kill
  BY <1>19 DEF Script!Kill
<1>20. CASE Script!Deadlock
  BY <1>20 DEF Script!Deadlock, Script!OnError
<1>21. CASE Script!Lose
  BY <1>21 DEF Script!Lose
<1> QED
  BY <1>1, <1>2, <1>3, <1>4, <1>5, <1>6, <1>7, <1>8, <1>9, <1>10, <1>11, <1>12, <1>13, <1>14,
     <1>15, <1>16, <1>17, <1>18, <1>19, <1>20, <1>21
     DEF Script!Next, Script!Task, Script!Window, Script!Server

\* ... the bounds of what it counts ...
LEMMA ScriptSizesStep == ScriptInv /\ Script!Next => ScriptSizes'
<1> SUFFICES ASSUME ScriptInv, Script!Next PROVE ScriptSizes'
  OBVIOUS
<1>0. request' = request
  BY DEF Script!Next
<1>p. Script!WellFormed = 1..Proper
  BY ScriptProper DEF ScriptInv, ScriptTyped
<1> USE <1>0, <1>p, ScriptSame, ScriptFacts
    DEF Script!progress, Script!signals, Script!db, ScriptInv, ScriptTyped, ScriptSizes,
        ScriptEffects, ScriptPlace, ScriptVerdict, ScriptCounts, ScriptWhole, Passed,
        Script!Single, Script!Kept
<1>1. CASE Script!OpenSession
  BY <1>1 DEF Script!OpenSession, Script!Ends
<1>2. CASE Script!OpenSource
  BY <1>2 DEF Script!OpenSource, Script!Ends
<1>3. CASE Script!Begin
  BY <1>3 DEF Script!Begin
<1>4. CASE Script!Start
  BY <1>4 DEF Script!Start
<1>5. CASE Script!Exhausted
  BY <1>5 DEF Script!Exhausted, Script!Over, Script!Verdict, Script!LastNotify, Script!OnError
<1>6. CASE Script!ReadFails
  BY <1>6 DEF Script!ReadFails, Script!LastNotify
<1>7. CASE Script!Unclosed
  BY <1>7 DEF Script!Unclosed, Script!Over, Script!Verdict, Script!LastNotify, Script!OnError
<1>8. CASE Script!Send
  BY <1>8 DEF Script!Send
<1>9. CASE Script!Carries
  BY <1>9 DEF Script!Carries, Script!Notify, Script!OnError
<1>10. CASE Script!FailsScript
  BY <1>10 DEF Script!FailsScript, Script!Over, Script!Verdict, Script!LastNotify, Script!OnError
<1>11. CASE Script!Interrupted
  BY <1>11 DEF Script!Interrupted, Script!Over, Script!Verdict, Script!LastNotify, Script!OnError
<1>12. CASE Script!Commit
  BY <1>12 DEF Script!Commit, Script!Commits
<1>13. CASE Script!Rollback
  BY <1>13 DEF Script!Rollback, Script!Commits
<1>14. CASE Script!Close
  BY <1>14 DEF Script!Close, Script!Ends
<1>15. CASE Script!Cancel
  BY <1>15 DEF Script!Cancel, Script!CancelRun
<1>16. CASE Script!Grace
  BY <1>16 DEF Script!Grace
<1>17. CASE Script!Succeed
  BY <1>17 DEF Script!Succeed
<1>18. CASE Script!Refuse
  BY <1>18 DEF Script!Refuse
<1>19. CASE Script!Kill
  BY <1>19 DEF Script!Kill
<1>20. CASE Script!Deadlock
  BY <1>20 DEF Script!Deadlock, Script!OnError
<1>21. CASE Script!Lose
  BY <1>21 DEF Script!Lose
<1> QED
  BY <1>1, <1>2, <1>3, <1>4, <1>5, <1>6, <1>7, <1>8, <1>9, <1>10, <1>11, <1>12, <1>13, <1>14,
     <1>15, <1>16, <1>17, <1>18, <1>19, <1>20, <1>21
     DEF Script!Next, Script!Task, Script!Window, Script!Server

\* ... its effects are of statements it sends ...
LEMMA ScriptEffectsStep == ScriptInv /\ Script!Next => ScriptEffects'
<1> SUFFICES ASSUME ScriptInv, Script!Next PROVE ScriptEffects'
  OBVIOUS
<1>0. request' = request
  BY DEF Script!Next
<1>p. Script!WellFormed = 1..Proper
  BY ScriptProper DEF ScriptInv, ScriptTyped
<1> USE <1>0, <1>p, ScriptSame, ScriptFacts
    DEF Script!progress, Script!signals, Script!db, ScriptInv, ScriptTyped, ScriptSizes,
        ScriptEffects, ScriptPlace, ScriptVerdict, ScriptCounts, ScriptWhole, Passed,
        Script!Single, Script!Kept
<1>1. CASE Script!OpenSession
  BY <1>1 DEF Script!OpenSession, Script!Ends
<1>2. CASE Script!OpenSource
  BY <1>2 DEF Script!OpenSource, Script!Ends
<1>3. CASE Script!Begin
  BY <1>3 DEF Script!Begin
<1>4. CASE Script!Start
  BY <1>4 DEF Script!Start
<1>5. CASE Script!Exhausted
  BY <1>5 DEF Script!Exhausted, Script!Over, Script!Verdict, Script!LastNotify, Script!OnError
<1>6. CASE Script!ReadFails
  BY <1>6 DEF Script!ReadFails, Script!LastNotify
<1>7. CASE Script!Unclosed
  BY <1>7 DEF Script!Unclosed, Script!Over, Script!Verdict, Script!LastNotify, Script!OnError
<1>8. CASE Script!Send
  BY <1>8 DEF Script!Send
<1>9. CASE Script!Carries
  BY <1>9 DEF Script!Carries, Script!Notify, Script!OnError
<1>10. CASE Script!FailsScript
  BY <1>10 DEF Script!FailsScript, Script!Over, Script!Verdict, Script!LastNotify, Script!OnError
<1>11. CASE Script!Interrupted
  BY <1>11 DEF Script!Interrupted, Script!Over, Script!Verdict, Script!LastNotify, Script!OnError
<1>12. CASE Script!Commit
  BY <1>12 DEF Script!Commit, Script!Commits
<1>13. CASE Script!Rollback
  BY <1>13 DEF Script!Rollback, Script!Commits
<1>14. CASE Script!Close
  BY <1>14 DEF Script!Close, Script!Ends
<1>15. CASE Script!Cancel
  BY <1>15 DEF Script!Cancel, Script!CancelRun
<1>16. CASE Script!Grace
  BY <1>16 DEF Script!Grace
<1>17. CASE Script!Succeed
  <2>1. next - 1 \in 1..Proper
    BY <1>17 DEF Script!Succeed
  <2> QED
    BY <1>17, <2>1 DEF Script!Succeed
<1>18. CASE Script!Refuse
  BY <1>18 DEF Script!Refuse
<1>19. CASE Script!Kill
  BY <1>19 DEF Script!Kill
<1>20. CASE Script!Deadlock
  BY <1>20 DEF Script!Deadlock, Script!OnError
<1>21. CASE Script!Lose
  <2>1. server = "run" => next - 1 \in 1..Proper
    OBVIOUS
  <2>2. undone' = {} /\ (kept' = kept \/ (server = "run" /\ kept' = kept \cup {next - 1}))
    BY <1>21 DEF Script!Lose
  <2> QED
    BY <2>1, <2>2
<1> QED
  BY <1>1, <1>2, <1>3, <1>4, <1>5, <1>6, <1>7, <1>8, <1>9, <1>10, <1>11, <1>12, <1>13, <1>14,
     <1>15, <1>16, <1>17, <1>18, <1>19, <1>20, <1>21
     DEF Script!Next, Script!Task, Script!Window, Script!Server

\* ... the task, its session and the statement on the server agree ...
LEMMA ScriptPlaceStep == ScriptInv /\ Script!Next => ScriptPlace'
<1> SUFFICES ASSUME ScriptInv, Script!Next PROVE ScriptPlace'
  OBVIOUS
<1>0. request' = request
  BY DEF Script!Next
<1>p. Script!WellFormed = 1..Proper
  BY ScriptProper DEF ScriptInv, ScriptTyped
<1> USE <1>0, <1>p, ScriptSame, ScriptFacts
    DEF Script!progress, Script!signals, Script!db, ScriptInv, ScriptTyped, ScriptSizes,
        ScriptEffects, ScriptPlace, ScriptVerdict, ScriptCounts, ScriptWhole, Passed,
        Script!Single, Script!Kept
<1>1. CASE Script!OpenSession
  BY <1>1 DEF Script!OpenSession, Script!Ends
<1>2. CASE Script!OpenSource
  BY <1>2 DEF Script!OpenSource, Script!Ends
<1>3. CASE Script!Begin
  BY <1>3 DEF Script!Begin
<1>4. CASE Script!Start
  BY <1>4 DEF Script!Start
<1>5. CASE Script!Exhausted
  BY <1>5 DEF Script!Exhausted, Script!Over, Script!Verdict, Script!LastNotify, Script!OnError
<1>6. CASE Script!ReadFails
  BY <1>6 DEF Script!ReadFails, Script!LastNotify
<1>7. CASE Script!Unclosed
  BY <1>7 DEF Script!Unclosed, Script!Over, Script!Verdict, Script!LastNotify, Script!OnError
<1>8. CASE Script!Send
  BY <1>8 DEF Script!Send
<1>9. CASE Script!Carries
  BY <1>9 DEF Script!Carries, Script!Notify, Script!OnError
<1>10. CASE Script!FailsScript
  BY <1>10 DEF Script!FailsScript, Script!Over, Script!Verdict, Script!LastNotify, Script!OnError
<1>11. CASE Script!Interrupted
  BY <1>11 DEF Script!Interrupted, Script!Over, Script!Verdict, Script!LastNotify, Script!OnError
<1>12. CASE Script!Commit
  BY <1>12 DEF Script!Commit, Script!Commits
<1>13. CASE Script!Rollback
  BY <1>13 DEF Script!Rollback, Script!Commits
<1>14. CASE Script!Close
  BY <1>14 DEF Script!Close, Script!Ends
<1>15. CASE Script!Cancel
  BY <1>15 DEF Script!Cancel, Script!CancelRun
<1>16. CASE Script!Grace
  BY <1>16 DEF Script!Grace
<1>17. CASE Script!Succeed
  BY <1>17 DEF Script!Succeed
<1>18. CASE Script!Refuse
  BY <1>18 DEF Script!Refuse
<1>19. CASE Script!Kill
  BY <1>19 DEF Script!Kill
<1>20. CASE Script!Deadlock
  BY <1>20 DEF Script!Deadlock, Script!OnError
<1>21. CASE Script!Lose
  BY <1>21 DEF Script!Lose
<1> QED
  BY <1>1, <1>2, <1>3, <1>4, <1>5, <1>6, <1>7, <1>8, <1>9, <1>10, <1>11, <1>12, <1>13, <1>14,
     <1>15, <1>16, <1>17, <1>18, <1>19, <1>20, <1>21
     DEF Script!Next, Script!Task, Script!Window, Script!Server

\* ... the run is told of a cancel before its statement is, and a cancelled one is never done ...
LEMMA ScriptVerdictStep == ScriptInv /\ Script!Next => ScriptVerdict'
<1> SUFFICES ASSUME ScriptInv, Script!Next PROVE ScriptVerdict'
  OBVIOUS
<1>0. request' = request
  BY DEF Script!Next
<1>p. Script!WellFormed = 1..Proper
  BY ScriptProper DEF ScriptInv, ScriptTyped
<1> USE <1>0, <1>p, ScriptSame, ScriptFacts
    DEF Script!progress, Script!signals, Script!db, ScriptInv, ScriptTyped, ScriptSizes,
        ScriptEffects, ScriptPlace, ScriptVerdict, ScriptCounts, ScriptWhole, Passed,
        Script!Single, Script!Kept
<1>1. CASE Script!OpenSession
  BY <1>1 DEF Script!OpenSession, Script!Ends
<1>2. CASE Script!OpenSource
  BY <1>2 DEF Script!OpenSource, Script!Ends
<1>3. CASE Script!Begin
  BY <1>3 DEF Script!Begin
<1>4. CASE Script!Start
  BY <1>4 DEF Script!Start
<1>5. CASE Script!Exhausted
  BY <1>5 DEF Script!Exhausted, Script!Over, Script!Verdict, Script!LastNotify, Script!OnError
<1>6. CASE Script!ReadFails
  BY <1>6 DEF Script!ReadFails, Script!LastNotify
<1>7. CASE Script!Unclosed
  BY <1>7 DEF Script!Unclosed, Script!Over, Script!Verdict, Script!LastNotify, Script!OnError
<1>8. CASE Script!Send
  BY <1>8 DEF Script!Send
<1>9. CASE Script!Carries
  BY <1>9 DEF Script!Carries, Script!Notify, Script!OnError
<1>10. CASE Script!FailsScript
  BY <1>10 DEF Script!FailsScript, Script!Over, Script!Verdict, Script!LastNotify, Script!OnError
<1>11. CASE Script!Interrupted
  BY <1>11 DEF Script!Interrupted, Script!Over, Script!Verdict, Script!LastNotify, Script!OnError
<1>12. CASE Script!Commit
  BY <1>12 DEF Script!Commit, Script!Commits
<1>13. CASE Script!Rollback
  BY <1>13 DEF Script!Rollback, Script!Commits
<1>14. CASE Script!Close
  BY <1>14 DEF Script!Close, Script!Ends
<1>15. CASE Script!Cancel
  BY <1>15 DEF Script!Cancel, Script!CancelRun
<1>16. CASE Script!Grace
  BY <1>16 DEF Script!Grace
<1>17. CASE Script!Succeed
  BY <1>17 DEF Script!Succeed
<1>18. CASE Script!Refuse
  BY <1>18 DEF Script!Refuse
<1>19. CASE Script!Kill
  BY <1>19 DEF Script!Kill
<1>20. CASE Script!Deadlock
  BY <1>20 DEF Script!Deadlock, Script!OnError
<1>21. CASE Script!Lose
  BY <1>21 DEF Script!Lose
<1> QED
  BY <1>1, <1>2, <1>3, <1>4, <1>5, <1>6, <1>7, <1>8, <1>9, <1>10, <1>11, <1>12, <1>13, <1>14,
     <1>15, <1>16, <1>17, <1>18, <1>19, <1>20, <1>21
     DEF Script!Next, Script!Task, Script!Window, Script!Server

\* ... the counts go with the place in the file ...
LEMMA ScriptCountsStep == ScriptInv /\ Script!Next => ScriptCounts'
<1> SUFFICES ASSUME ScriptInv, Script!Next PROVE ScriptCounts'
  OBVIOUS
<1>0. request' = request
  BY DEF Script!Next
<1>p. Script!WellFormed = 1..Proper
  BY ScriptProper DEF ScriptInv, ScriptTyped
<1> USE <1>0, <1>p, ScriptSame, ScriptFacts
    DEF Script!progress, Script!signals, Script!db, ScriptInv, ScriptTyped, ScriptSizes,
        ScriptEffects, ScriptPlace, ScriptVerdict, ScriptCounts, ScriptWhole, Passed,
        Script!Single, Script!Kept
<1>1. CASE Script!OpenSession
  BY <1>1 DEF Script!OpenSession, Script!Ends
<1>2. CASE Script!OpenSource
  BY <1>2 DEF Script!OpenSource, Script!Ends
<1>3. CASE Script!Begin
  BY <1>3 DEF Script!Begin
<1>4. CASE Script!Start
  BY <1>4 DEF Script!Start
<1>5. CASE Script!Exhausted
  BY <1>5 DEF Script!Exhausted, Script!Over, Script!Verdict, Script!LastNotify, Script!OnError
<1>6. CASE Script!ReadFails
  BY <1>6 DEF Script!ReadFails, Script!LastNotify
<1>7. CASE Script!Unclosed
  <2>1. /\ Quote
        /\ next = Statements
        /\ next' = Statements + 1
        /\ sstep = "scan"
        /\ executed' = executed
    BY <1>7 DEF Script!Unclosed, Script!EndsInQuote, Quote
  <2>2. Passed = Statements - 1 /\ Passed' = Statements - 1 /\ Proper = Statements - 1
    BY <2>1
  <2> HIDE DEF Passed
  <2>3. failed' = failed + 1 /\ server' = server
    BY <1>7 DEF Script!Unclosed, Script!Over
  <2>4. CASE request.onError = "stop"
    <3>1. Script!Over(failed + 1)
      BY <1>7, <2>4 DEF Script!Unclosed, Script!OnError
    <3>2. /\ state' \in {"failed", "cancelled"}
          /\ sstep' \in {"settle", "close"}
          /\ reported' = Script!Kept(failed')
      BY <2>3, <2>4, <3>1 DEF Script!Over, Script!Verdict, Script!LastNotify, Script!OnError
    <3> QED
      BY <2>1, <2>2, <2>3, <3>2
  <2>5. CASE request.onError = "continue"
    <3>1. sstep' = sstep /\ state' = state /\ reported' = reported
      BY <1>7, <2>5 DEF Script!Unclosed, Script!OnError
    <3> QED
      BY <2>1, <2>2, <2>3, <3>1
  <2> QED
    BY <2>4, <2>5
<1>8. CASE Script!Send
  BY <1>8 DEF Script!Send
<1>9. CASE Script!Carries
  BY <1>9 DEF Script!Carries, Script!Notify, Script!OnError
<1>10. CASE Script!FailsScript
  BY <1>10 DEF Script!FailsScript, Script!Over, Script!Verdict, Script!LastNotify, Script!OnError
<1>11. CASE Script!Interrupted
  BY <1>11 DEF Script!Interrupted, Script!Over, Script!Verdict, Script!LastNotify, Script!OnError
<1>12. CASE Script!Commit
  BY <1>12 DEF Script!Commit, Script!Commits
<1>13. CASE Script!Rollback
  BY <1>13 DEF Script!Rollback, Script!Commits
<1>14. CASE Script!Close
  BY <1>14 DEF Script!Close, Script!Ends
<1>15. CASE Script!Cancel
  BY <1>15 DEF Script!Cancel, Script!CancelRun
<1>16. CASE Script!Grace
  BY <1>16 DEF Script!Grace
<1>17. CASE Script!Succeed
  BY <1>17 DEF Script!Succeed
<1>18. CASE Script!Refuse
  BY <1>18 DEF Script!Refuse
<1>19. CASE Script!Kill
  BY <1>19 DEF Script!Kill
<1>20. CASE Script!Deadlock
  BY <1>20 DEF Script!Deadlock, Script!OnError
<1>21. CASE Script!Lose
  BY <1>21 DEF Script!Lose
<1> QED
  BY <1>1, <1>2, <1>3, <1>4, <1>5, <1>6, <1>7, <1>8, <1>9, <1>10, <1>11, <1>12, <1>13, <1>14,
     <1>15, <1>16, <1>17, <1>18, <1>19, <1>20, <1>21
     DEF Script!Next, Script!Task, Script!Window, Script!Server

\* ... and the one transaction of a script has all it sent so far, unless something failed.
LEMMA ScriptWholeStep == ScriptInv /\ Script!Next => ScriptWhole'
<1> SUFFICES ASSUME ScriptInv, Script!Next PROVE ScriptWhole'
  OBVIOUS
<1>0. request' = request
  BY DEF Script!Next
<1>p. Script!WellFormed = 1..Proper
  BY ScriptProper DEF ScriptInv, ScriptTyped
<1> USE <1>0, <1>p, ScriptSame, ScriptFacts
    DEF Script!progress, Script!signals, Script!db, ScriptInv, ScriptTyped, ScriptSizes,
        ScriptEffects, ScriptPlace, ScriptVerdict, ScriptCounts, ScriptWhole, Passed,
        Script!Single, Script!Kept
<1>1. CASE Script!OpenSession
  BY <1>1 DEF Script!OpenSession, Script!Ends
<1>2. CASE Script!OpenSource
  BY <1>2 DEF Script!OpenSource, Script!Ends, OneTx
<1>3. CASE Script!Begin
  BY <1>3 DEF Script!Begin
<1>4. CASE Script!Start
  BY <1>4 DEF Script!Start
<1>5. CASE Script!Exhausted
  BY <1>5 DEF Script!Exhausted, Script!Over, Script!Verdict, Script!LastNotify, Script!OnError
<1>6. CASE Script!ReadFails
  BY <1>6 DEF Script!ReadFails, Script!LastNotify
<1>7. CASE Script!Unclosed
  BY <1>7 DEF Script!Unclosed, Script!Over, Script!Verdict, Script!LastNotify, Script!OnError
<1>8. CASE Script!Send
  BY <1>8 DEF Script!Send
<1>9. CASE Script!Carries
  BY <1>9 DEF Script!Carries, Script!Notify, Script!OnError
<1>10. CASE Script!FailsScript
  BY <1>10 DEF Script!FailsScript, Script!Over, Script!Verdict, Script!LastNotify, Script!OnError
<1>11. CASE Script!Interrupted
  BY <1>11 DEF Script!Interrupted, Script!Over, Script!Verdict, Script!LastNotify, Script!OnError
<1>12. CASE Script!Commit
  BY <1>12 DEF Script!Commit, Script!Commits
<1>13. CASE Script!Rollback
  BY <1>13 DEF Script!Rollback, Script!Commits
<1>14. CASE Script!Close
  BY <1>14 DEF Script!Close, Script!Ends
<1>15. CASE Script!Cancel
  BY <1>15 DEF Script!Cancel, Script!CancelRun
<1>16. CASE Script!Grace
  BY <1>16 DEF Script!Grace
<1>17. CASE Script!Succeed
  <2>1. /\ next \in Nat
        /\ next - 1 >= 1
        /\ sstep = "run"
        /\ server = "run"
        /\ server' = "ok"
        /\ next' = next
    BY <1>17 DEF Script!Succeed
  <2>2. 1..(next - 2) \cup {next - 1} = 1..(next - 1)
    BY <2>1
  <2> DEFINE Whole1 == OneTx /\ "deadlock" \notin outside
  <2>3. Whole1 => sInTx /\ undone' = undone \cup {next - 1} /\ kept' = kept
    BY <1>17, <2>1 DEF Script!Succeed
  <2>4. /\ sstep' = sstep
        /\ session' = session
        /\ failed' = failed
        /\ sInTx' = sInTx
        /\ state' = state
        /\ outside' = outside
        /\ cancelled' = cancelled
        /\ listening' = listening
    BY <1>17 DEF Script!Succeed
  <2>5. Whole1 /\ session = "open" /\ failed = 0 => undone' = 1..(next' - 1)
    BY <2>1, <2>2, <2>3
  <2> HIDE DEF ScriptCounts, ScriptEffects
  <2> QED
    BY <2>1, <2>3, <2>4, <2>5
<1>18. CASE Script!Refuse
  BY <1>18 DEF Script!Refuse
<1>19. CASE Script!Kill
  BY <1>19 DEF Script!Kill
<1>20. CASE Script!Deadlock
  BY <1>20 DEF Script!Deadlock, Script!OnError
<1>21. CASE Script!Lose
  BY <1>21 DEF Script!Lose
<1> QED
  BY <1>1, <1>2, <1>3, <1>4, <1>5, <1>6, <1>7, <1>8, <1>9, <1>10, <1>11, <1>12, <1>13, <1>14,
     <1>15, <1>16, <1>17, <1>18, <1>19, <1>20, <1>21
     DEF Script!Next, Script!Task, Script!Window, Script!Server

\* A step of something else changes nothing of the script.
LEMMA ScriptStays == ScriptInv /\ UNCHANGED Script!vars => ScriptInv'
<1> SUFFICES ASSUME ScriptInv, UNCHANGED Script!vars PROVE ScriptInv'
  OBVIOUS
<1>1. /\ request' = request /\ sstep' = sstep /\ next' = next /\ executed' = executed
      /\ failed' = failed /\ reported' = reported /\ state' = state /\ listening' = listening
      /\ cancelled' = cancelled /\ task' = task /\ saborted' = saborted /\ session' = session
      /\ server' = server /\ killing' = killing /\ sInTx' = sInTx /\ undone' = undone
      /\ kept' = kept /\ outside' = outside
  BY DEF Script!vars, Script!run, Script!progress, Script!signals, Script!db
<1>2. ScriptTyped' /\ ScriptSizes'
  BY <1>1 DEF ScriptInv, ScriptTyped, ScriptSizes, Script!Kept
<1>3. ScriptEffects' /\ ScriptPlace' /\ ScriptVerdict'
  BY <1>1, ScriptSame DEF ScriptInv, ScriptEffects, ScriptPlace, ScriptVerdict
<1>4. ScriptCounts' /\ ScriptWhole'
  BY <1>1, ScriptSame DEF ScriptInv, ScriptCounts, ScriptWhole, Passed, Script!Kept
<1> QED
  BY <1>2, <1>3, <1>4 DEF ScriptInv

\* The inductive invariant holds in every state of every script (taskService.ts, scriptRun.ts).
THEOREM ScriptInvariance == Script!Spec => []ScriptInv
<1>1. ScriptInv /\ [Script!Next]_(Script!vars) => ScriptInv'
  BY ScriptTypedStep, ScriptSizesStep, ScriptEffectsStep, ScriptPlaceStep, ScriptVerdictStep,
     ScriptCountsStep, ScriptWholeStep, ScriptStays DEF ScriptInv
<1> QED
  BY ScriptBegins, <1>1, PTL DEF Script!Spec

\* What a task shows of a script, for files and caps of any size.  A file run in one transaction is
\* stored completely or not at all, if nobody else ended a statement of it and no deadlock undid it
\* while it went on; a cancel leaves nothing, if no deadlock did; a task shown as completed has sent
\* every statement, if nobody else ended one; the first MaxErrors failures are issues of the task;
\* the session is closed (taskService.ts startScript(), scriptRun.ts run() and fail()).
THEOREM ScriptIsAsShown == Script!Spec => [](Script!TypeOK /\ Script!ScriptIsTrue)
<1>1. ScriptInv => Script!TypeOK
  <2> SUFFICES ASSUME ScriptInv PROVE Script!TypeOK
    OBVIOUS
  <2>1. Script!WellFormed = 1..Proper
    BY ScriptProper DEF ScriptInv, ScriptTyped
  <2>2. /\ next \in 1..(Statements + 1) /\ executed \in 0..Statements
        /\ failed \in 0..(Statements + 1) /\ reported \in 0..Script!Kept(failed)
    BY ScriptFacts DEF ScriptInv, ScriptSizes, Script!Kept
  <2>3. {listening, cancelled, saborted, killing, sInTx} \subseteq BOOLEAN
    BY DEF ScriptInv, ScriptTyped
  <2> QED
    BY <2>1, <2>2, <2>3 DEF ScriptInv, ScriptTyped, ScriptEffects, Script!TypeOK
<1>2. ScriptInv => Script!ScriptIsTrue
  <2> SUFFICES ASSUME ScriptInv PROVE Script!ScriptIsTrue
    OBVIOUS
  <2>1. Script!WholeOrNothing
    <3> SUFFICES ASSUME outside = {}, OneTx, sstep = "ended" PROVE kept \in {{}, 1..Statements}
      BY DEF Script!WholeOrNothing, Script!AllOrNothing, Script!Single, Script!Script, OneTx
    <3> QED
      BY DEF ScriptInv, ScriptWhole
  <2>2. Script!CancelLeavesNothing
    BY DEF ScriptInv, ScriptWhole, OneTx, Script!CancelLeavesNothing, Script!Single
  <2>3. Script!CompletedRanAll
    <3>1. Cardinality(Script!WellFormed) = Proper
      <4>1. Script!WellFormed = 1..Proper
        BY ScriptProper DEF ScriptInv, ScriptTyped
      <4>2. Proper = Proper - 1 + 1
        BY ScriptFacts
      <4> QED
        BY <4>1, ScriptFacts, FS_Interval
    <3>2. task = "COMPLETED" /\ "interrupt" \notin outside => executed = Proper /\ next > Statements
      BY ScriptFacts DEF ScriptInv, ScriptVerdict, ScriptCounts
    <3>3. \A S : Script!Cardinality(S) = Cardinality(S)
      BY DEF Script!Cardinality, Cardinality
    <3> QED
      BY <3>1, <3>2, <3>3 DEF Script!CompletedRanAll
  <2>4. Script!EveryFailureReported
    BY DEF ScriptInv, ScriptCounts, Script!EveryFailureReported
  <2>5. Script!SessionIsClosed
    BY DEF ScriptInv, ScriptPlace, Script!SessionIsClosed
  <2> QED
    BY <2>1, <2>2, <2>3, <2>4, <2>5 DEF Script!ScriptIsTrue
<1> QED
  BY <1>1, <1>2, ScriptInvariance, PTL

(* ------------------------------- the export ------------------------------ *)

\* The variables of the export have their types.
ExportTyped ==
    /\ xstep \in {"create", "read", "event", "last", "flush", "commit", "close", "rename", "fail",
                  "ended"}
    /\ stopped \in BOOLEAN /\ handle \in BOOLEAN /\ committing \in BOOLEAN /\ xpaused \in BOOLEAN
    /\ xaborted \in BOOLEAN
    /\ outcome \in {"running", "COMPLETED", "FAILED", "CANCELLED", "crashed"}
\* The file and the buffer hold no more than there is.
ExportSizes ==
    /\ issued \in Nat /\ issued <= Pages + 2
    /\ buffered \in Nat /\ buffered <= HighWater
    /\ file \in {Export!Absent} \cup 0..Export!Complete

\* Every piece there was so far is in the file beside the destination or in the buffer.
ExportPieces ==
    /\ xstep \in {"create", "read", "event", "last"} => buffered < HighWater
    /\ xstep = "create" => buffered = 0 /\ issued = 0
    /\ xstep \in {"read", "event"} => issued <= Pages + 1
    /\ xstep \in {"read", "last"} => file \in Nat /\ file + buffered = issued
    /\ xstep = "event" => file \in Nat /\ issued > 0 /\ file + buffered = issued - 1
    /\ xstep = "flush" => file \in Nat /\ file + buffered = issued
    /\ xstep = "flush" /\ committing => issued = Pages + 2
    /\ xstep = "commit" => file \in Nat /\ file + buffered = Pages + 2 /\ issued = Pages + 2
    /\ xstep \in {"close", "rename"} => file = Export!Complete /\ buffered = 0
    /\ xstep = "fail" => file \in Nat /\ file + buffered <= Pages + 2

\* The destination is what it was until the file takes its place.
ExportPlace ==
    /\ outcome = "running" <=> xstep # "ended"
    /\ xstep = "create" => ~stopped /\ file = Export!Absent /\ ~handle
    /\ stopped /\ xstep # "ended" => xaborted
    /\ xaborted /\ xstep \notin {"create", "ended"} => stopped
    /\ committing => xstep \in {"flush", "close", "rename", "fail", "ended"}
    /\ xstep = "last" /\ ~xaborted /\ issued > 0 => issued = Pages + 1
    /\ xstep = "rename" => ~handle
    /\ xstep = "ended" /\ outcome # "crashed" =>
          IF xaborted /\ ~stopped THEN file \in {Export!Absent, 0}
          ELSE file = Export!Absent /\ ~handle
    /\ target = Export!Old \/ (target = Export!Complete /\ xstep = "ended" /\ outcome # "FAILED")
    /\ outcome = "COMPLETED" => target = Export!Complete

\* The inductive invariant of an export.
ExportInv == ExportTyped /\ ExportSizes /\ ExportPieces /\ ExportPlace

\* What the constants of the export give.
LEMMA ExportFacts ==
    /\ Pages \in Nat /\ HighWater \in Nat /\ HighWater > 0
    /\ Export!Absent = -1 /\ Export!Old = -2 /\ Export!Complete = Pages + 2
  BY ExportRunAssumption DEF Export!ExportAssumption, Export!Absent, Export!Old, Export!Complete

\* An export begins with nothing written.
LEMMA ExportBegins == Export!Init => ExportInv
<1> SUFFICES ASSUME Export!Init PROVE ExportInv
  OBVIOUS
<1> USE ExportFacts DEF Export!Init
<1>1. ExportTyped
  BY DEF ExportTyped
<1>2. ExportSizes /\ ExportPieces
  BY DEF ExportSizes, ExportPieces
<1>3. ExportPlace
  BY DEF ExportPlace
<1> QED
  BY <1>1, <1>2, <1>3 DEF ExportInv

\* A step of the export keeps the types ...
LEMMA ExportTypedStep == ExportInv /\ Export!Next => ExportTyped'
<1> SUFFICES ASSUME ExportInv, Export!Next PROVE ExportTyped'
  OBVIOUS
<1> USE ExportFacts
    DEF ExportInv, ExportTyped, ExportSizes, ExportPieces, ExportPlace, Export!sink, Export!window
<1>1. CASE Export!Create
  BY <1>1 DEF Export!Create, Export!Ends
<1>2. CASE Export!Event
  BY <1>2 DEF Export!Event
<1>3. CASE Export!StreamEnds
  BY <1>3 DEF Export!StreamEnds
<1>4. CASE Export!StreamThrows
  BY <1>4 DEF Export!StreamThrows
<1>5. CASE Export!Handle
  BY <1>5 DEF Export!Handle, Export!Write
<1>6. CASE Export!Finish
  BY <1>6 DEF Export!Finish, Export!Write, Export!Exported
<1>7. CASE Export!Flush
  BY <1>7 DEF Export!Flush, Export!WriteOut
<1>8. CASE Export!Commit
  BY <1>8 DEF Export!Commit, Export!CommitFlush
<1>9. CASE Export!CloseFile
  BY <1>9 DEF Export!CloseFile
<1>10. CASE Export!Rename
  BY <1>10 DEF Export!Rename, Export!Ends
<1>11. CASE Export!Fail
  BY <1>11 DEF Export!Fail, Export!Ends, Export!Remove
<1>12. CASE Export!Cancel
  BY <1>12 DEF Export!Cancel, Export!Wake
<1>13. CASE Export!Pause
  BY <1>13 DEF Export!Pause
<1>14. CASE Export!Crash
  BY <1>14 DEF Export!Crash
<1> QED
  BY <1>1, <1>2, <1>3, <1>4, <1>5, <1>6, <1>7, <1>8, <1>9, <1>10, <1>11, <1>12, <1>13, <1>14
     DEF Export!Next, Export!Export

\* ... the bounds of file and buffer ...
LEMMA ExportSizesStep == ExportInv /\ Export!Next => ExportSizes'
<1> SUFFICES ASSUME ExportInv, Export!Next PROVE ExportSizes'
  OBVIOUS
<1> USE ExportFacts
    DEF ExportInv, ExportTyped, ExportSizes, ExportPieces, ExportPlace, Export!sink, Export!window
<1>1. CASE Export!Create
  BY <1>1 DEF Export!Create, Export!Ends
<1>2. CASE Export!Event
  BY <1>2 DEF Export!Event
<1>3. CASE Export!StreamEnds
  BY <1>3 DEF Export!StreamEnds
<1>4. CASE Export!StreamThrows
  BY <1>4 DEF Export!StreamThrows
<1>5. CASE Export!Handle
  BY <1>5 DEF Export!Handle, Export!Write
<1>6. CASE Export!Finish
  BY <1>6 DEF Export!Finish, Export!Write, Export!Exported
<1>7. CASE Export!Flush
  BY <1>7 DEF Export!Flush, Export!WriteOut
<1>8. CASE Export!Commit
  BY <1>8 DEF Export!Commit, Export!CommitFlush
<1>9. CASE Export!CloseFile
  BY <1>9 DEF Export!CloseFile
<1>10. CASE Export!Rename
  BY <1>10 DEF Export!Rename, Export!Ends
<1>11. CASE Export!Fail
  BY <1>11 DEF Export!Fail, Export!Ends, Export!Remove
<1>12. CASE Export!Cancel
  BY <1>12 DEF Export!Cancel, Export!Wake
<1>13. CASE Export!Pause
  BY <1>13 DEF Export!Pause
<1>14. CASE Export!Crash
  BY <1>14 DEF Export!Crash
<1> QED
  BY <1>1, <1>2, <1>3, <1>4, <1>5, <1>6, <1>7, <1>8, <1>9, <1>10, <1>11, <1>12, <1>13, <1>14
     DEF Export!Next, Export!Export

\* ... the account of the pieces ...
LEMMA ExportPiecesStep == ExportInv /\ Export!Next => ExportPieces'
<1> SUFFICES ASSUME ExportInv, Export!Next PROVE ExportPieces'
  OBVIOUS
<1> USE ExportFacts
    DEF ExportInv, ExportTyped, ExportSizes, ExportPieces, ExportPlace, Export!sink, Export!window
<1>1. CASE Export!Create
  BY <1>1 DEF Export!Create, Export!Ends
<1>2. CASE Export!Event
  BY <1>2 DEF Export!Event
<1>3. CASE Export!StreamEnds
  BY <1>3 DEF Export!StreamEnds
<1>4. CASE Export!StreamThrows
  BY <1>4 DEF Export!StreamThrows
<1>5. CASE Export!Handle
  BY <1>5 DEF Export!Handle, Export!Write
<1>6. CASE Export!Finish
  BY <1>6 DEF Export!Finish, Export!Write, Export!Exported
<1>7. CASE Export!Flush
  BY <1>7 DEF Export!Flush, Export!WriteOut
<1>8. CASE Export!Commit
  BY <1>8 DEF Export!Commit, Export!CommitFlush
<1>9. CASE Export!CloseFile
  BY <1>9 DEF Export!CloseFile
<1>10. CASE Export!Rename
  BY <1>10 DEF Export!Rename, Export!Ends
<1>11. CASE Export!Fail
  BY <1>11 DEF Export!Fail, Export!Ends, Export!Remove
<1>12. CASE Export!Cancel
  BY <1>12 DEF Export!Cancel, Export!Wake
<1>13. CASE Export!Pause
  BY <1>13 DEF Export!Pause
<1>14. CASE Export!Crash
  BY <1>14 DEF Export!Crash
<1> QED
  BY <1>1, <1>2, <1>3, <1>4, <1>5, <1>6, <1>7, <1>8, <1>9, <1>10, <1>11, <1>12, <1>13, <1>14
     DEF Export!Next, Export!Export

\* ... and the destination as it was until the whole file takes its place.
LEMMA ExportPlaceStep == ExportInv /\ Export!Next => ExportPlace'
<1> SUFFICES ASSUME ExportInv, Export!Next PROVE ExportPlace'
  OBVIOUS
<1> USE ExportFacts
    DEF ExportInv, ExportTyped, ExportSizes, ExportPieces, ExportPlace, Export!sink, Export!window
<1>1. CASE Export!Create
  BY <1>1 DEF Export!Create, Export!Ends
<1>2. CASE Export!Event
  BY <1>2 DEF Export!Event
<1>3. CASE Export!StreamEnds
  BY <1>3 DEF Export!StreamEnds
<1>4. CASE Export!StreamThrows
  BY <1>4 DEF Export!StreamThrows
<1>5. CASE Export!Handle
  BY <1>5 DEF Export!Handle, Export!Write
<1>6. CASE Export!Finish
  BY <1>6 DEF Export!Finish, Export!Write, Export!Exported
<1>7. CASE Export!Flush
  BY <1>7 DEF Export!Flush, Export!WriteOut
<1>8. CASE Export!Commit
  BY <1>8 DEF Export!Commit, Export!CommitFlush
<1>9. CASE Export!CloseFile
  BY <1>9 DEF Export!CloseFile
<1>10. CASE Export!Rename
  BY <1>10 DEF Export!Rename, Export!Ends
<1>11. CASE Export!Fail
  BY <1>11 DEF Export!Fail, Export!Ends, Export!Remove
<1>12. CASE Export!Cancel
  BY <1>12 DEF Export!Cancel, Export!Wake
<1>13. CASE Export!Pause
  BY <1>13 DEF Export!Pause
<1>14. CASE Export!Crash
  BY <1>14 DEF Export!Crash
<1> QED
  BY <1>1, <1>2, <1>3, <1>4, <1>5, <1>6, <1>7, <1>8, <1>9, <1>10, <1>11, <1>12, <1>13, <1>14
     DEF Export!Next, Export!Export

\* A step of something else changes nothing of the export.
LEMMA ExportStays == ExportInv /\ UNCHANGED Export!vars => ExportInv'
<1> SUFFICES ASSUME ExportInv, UNCHANGED Export!vars PROVE ExportInv'
  OBVIOUS
<1>1. /\ xstep' = xstep /\ issued' = issued /\ stopped' = stopped /\ buffered' = buffered
      /\ file' = file /\ handle' = handle /\ target' = target /\ committing' = committing
      /\ xpaused' = xpaused /\ xaborted' = xaborted /\ outcome' = outcome
  BY DEF Export!vars, Export!sink, Export!window
<1>2. ExportTyped' /\ ExportSizes'
  BY <1>1 DEF ExportInv, ExportTyped, ExportSizes
<1>3. ExportPieces' /\ ExportPlace'
  BY <1>1 DEF ExportInv, ExportPieces, ExportPlace
<1> QED
  BY <1>2, <1>3 DEF ExportInv

\* The inductive invariant holds in every state of every export (exportRun.ts, sink.ts).
THEOREM ExportInvariance == Export!Spec => []ExportInv
<1>1. ExportInv /\ [Export!Next]_(Export!vars) => ExportInv'
  BY ExportTypedStep, ExportSizesStep, ExportPiecesStep, ExportPlaceStep, ExportStays
     DEF ExportInv
<1> QED
  BY ExportBegins, <1>1, PTL DEF Export!Spec

\* However an export ends, the destination has the whole file or what it had before, the outcome
\* says which, and the file beside it and its handle are gone, unless the process was or the export
\* was cancelled before that file was made: then an empty one may stay (sink.ts commit() and abort(),
\* exportRun.ts runExport()).
THEOREM ExportLeavesNoHalf == Export!Spec => []Export!ExportIsWhole
<1>1. ExportInv => Export!ExportIsWhole
  <2> SUFFICES ASSUME ExportInv PROVE Export!ExportIsWhole
    OBVIOUS
  <2>1. {stopped, handle, committing, xpaused, xaborted} \subseteq BOOLEAN
    BY DEF ExportInv, ExportTyped
  <2>2. issued \in 0..(Pages + 2) /\ buffered \in 0..HighWater
    BY ExportFacts DEF ExportInv, ExportSizes
  <2>3. target \in {Export!Old} \cup 0..Export!Complete
    BY ExportFacts DEF ExportInv, ExportPlace
  <2>4. Export!TypeOK
    BY <2>1, <2>2, <2>3 DEF ExportInv, ExportTyped, ExportSizes, Export!TypeOK
  <2>5. Export!TargetWhole /\ Export!OutcomeIsTrue /\ Export!NoPartLeft
    BY ExportFacts
       DEF ExportInv, ExportPlace, Export!TargetWhole, Export!OutcomeIsTrue, Export!NoPartLeft,
           Export!CutOffEarly
  <2> QED
    BY <2>4, <2>5 DEF Export!ExportIsWhole
<1> QED
  BY <1>1, ExportInvariance, PTL

(* ---------------------------- all of them ---------------------------- *)

\* A behaviour of all of them begins as one of each ...
LEMMA PartsBegin ==
    Begins =>
      /\ Init /\ Buffer!Init /\ Gate!Init
      /\ Script!Init /\ Export!Init /\ Query!Init /\ Service!Init
  BY DEF Begins

\* ... and each step of it is a step of each, or one in which it stands still ...
LEMMA PartsStep ==
    [Steps]_<<part, vars, queued, credits, request, scripting, exports, queries, service, asks>> =>
      /\ [Next]_vars
      /\ [Buffer!Next]_(Buffer!vars) /\ [Gate!Next]_(Gate!vars)
      /\ [Script!Next]_(Script!vars) /\ [Export!Next]_(Export!vars)
      /\ [Query!Next]_(Query!vars) /\ [Service!Next]_(Service!vars)
<1> SUFFICES ASSUME [Steps]_<<part, vars, queued, credits, request, scripting, exports, queries,
                              service, asks>>
    PROVE  /\ Next \/ UNCHANGED vars
           /\ Buffer!Next \/ UNCHANGED Buffer!vars
           /\ Gate!Next \/ UNCHANGED Gate!vars
           /\ Script!Next \/ UNCHANGED Script!vars
           /\ Export!Next \/ UNCHANGED Export!vars
           /\ Query!Next \/ UNCHANGED Query!vars
           /\ Service!Next \/ UNCHANGED Service!vars
  OBVIOUS
<1>1. /\ UNCHANGED queued => UNCHANGED Buffer!vars
  BY DEF queued, Buffer!vars
<1>2. UNCHANGED credits => UNCHANGED Gate!vars
  BY DEF credits, Gate!vars
<1>3. UNCHANGED <<request, scripting>> => UNCHANGED Script!vars
  BY DEF scripting, Script!vars, Script!run, Script!progress, Script!signals, Script!db
<1>4. UNCHANGED exports => UNCHANGED Export!vars
  BY DEF exports, Export!vars, Export!sink, Export!window
<1>5. UNCHANGED queries => UNCHANGED Query!vars
  BY DEF queries, Query!vars
<1>6. UNCHANGED <<service, asks>> => UNCHANGED Service!vars
  BY DEF service, Service!vars, Service!service
<1>7. CASE UNCHANGED <<part, vars, queued, credits, request, scripting, exports, queries, service,
                       asks>>
  BY <1>1, <1>2, <1>3, <1>4, <1>5, <1>6, <1>7
<1>8. CASE Steps
  <2>1. Next \/ UNCHANGED vars
    BY <1>8 DEF Steps, Still
  <2>2. Buffer!Next \/ UNCHANGED Buffer!vars
    BY <1>8, <1>1 DEF Steps, Still
  <2>3. Gate!Next \/ UNCHANGED Gate!vars
    BY <1>8, <1>2 DEF Steps, Still
  <2>4. Script!Next \/ UNCHANGED Script!vars
    BY <1>8, <1>3 DEF Steps, Still
  <2>5. Export!Next \/ UNCHANGED Export!vars
    BY <1>8, <1>4 DEF Steps, Still
  <2>6. Query!Next \/ UNCHANGED Query!vars
    BY <1>8, <1>5 DEF Steps, Still
  <2>7. Service!Next \/ UNCHANGED Service!vars
    BY <1>8, <1>6 DEF Steps, Still
  <2> QED
    BY <2>1, <2>2, <2>3, <2>4, <2>5, <2>6, <2>7
<1> QED
  BY <1>7, <1>8

\* ... so what is proved of each module is true of them together.
LEMMA EachIsItself ==
    Transfers => /\ Spec /\ Buffer!Spec /\ Gate!Spec
                 /\ Script!Spec /\ Export!Spec /\ Query!Spec /\ Service!Spec
<1> QED
  BY PartsBegin, PartsStep, PTL
     DEF Transfers, Spec, Buffer!Spec, Gate!Spec, Script!Spec, Export!Spec, Query!Spec, Service!Spec

\* What a tab or a task is shown of a script, an export or a statement is what happened to it, for
\* files, caps, pages, buffers and lookaheads of any size and on the conditions that ScriptIsAsShown
\* and ExportLeavesNoHalf name (ShownIsDone).
THEOREM TransfersShowWhatIsDone == Transfers => []ShownIsDone
<1>1. Query!Spec => []Query!RowsAreTrue
  BY Query!QueryRunRowsAreTrue, QueryAssumption
<1> QED
  BY <1>1, EachIsItself, ScriptIsAsShown, ExportLeavesNoHalf, PTL DEF ShownIsDone

\* For any tabs, calls and requests: at most one statement that was not told to stop runs on a
\* connection, and the files of a run are deleted after its last write (OneStatement).
THEOREM TransfersTakeTurns == Transfers => []OneStatement
<1>1. Service!Spec => [](Service!OneStatement /\ Service!FilesGo)
  BY Service!StatementsTakeTurns, ServiceAssumption
<1> QED
  BY <1>1, EachIsItself, PTL DEF OneStatement

\* The run of a statement, with its spool and its pauses, implements the few steps the service
\* relies on (KeepsPromise: the abstract specification StatementRun).
THEOREM TransfersKeepThePromise == Transfers => KeepsPromise
<1>1. Query!Spec => Query!KeepsPromise
  BY Query!QueryRunKeepsPromise, QueryAssumption
<1> QED
  BY <1>1, EachIsItself, PTL DEF KeepsPromise
=============================================================================
