----------------------------- MODULE ImportRun -----------------------------
(* The import of a file: transfer-engine/src/importRun.ts.  A producer reads and *)
(* parses, a bounded queue holds its batches, a consumer writes them; a failed or *)
(* cancelled import is resumed from its last checkpoint.  Records are numbers;    *)
(* the database counts how often it holds each.                                  *)
EXTENDS Integers, Sequences, SequencesExt

CONSTANTS
    Records,      \* records in the file
    Chunk,        \* records in one chunk of the file
    BatchSize,    \* batchSize
    QueueSize,    \* capacity of the queue, in records
    Imports       \* the imports to choose from, each with its file and its fate

File == 1..Records

\* An import: its options, the records of its file that the parser rejects and
\* those the database refuses, what may happen to it, and the bound on how often
\* it runs, the resumptions included.
Import ==
    [target : {"table", "collection"}, transaction : {"none", "batch", "all"},
     onError : {"stop", "skip"}, malformed : SUBSET File, refused : SUBSET File,
     fate : SUBSET {"cancel", "lose", "pause"}, attempts : Nat \ {0}]

ASSUME ImportRunAssumption ==
    /\ Records \in Nat /\ {Chunk, BatchSize, QueueSize} \subseteq Nat \ {0}
    /\ \A i \in Imports :
         /\ i \in Import /\ i.malformed \cap i.refused = {}
         /\ i.target = "collection" => i.transaction = "none"

VARIABLES
    import,      \* what is imported, one of Imports
    producer,    \* read, settle, push, done or failed
    unread,      \* the next record of the file
    tasks,       \* batchOfCallbacks: records of the chunk not yet accepted
    pending,     \* pendingRejects
    building,    \* current: the batch being built
    queue,       \* the batches in the queue
    ended,       \* the queue: open, closed or failed
    consumer,    \* the await the consumer is at
    batch,       \* the batch being written
    row,         \* the row of the batch that is retried
    sent,        \* the statement was sent before any cancel
    stored,      \* the database: how often it holds each record
    inTx,        \* the same for the open transaction
    unsure,      \* the same for what statements stored whose answer did not come
    rejected,    \* records reported by rejectRecord()
    checkpoint,  \* record of the last checkpoint, 0 for none
    aborted,     \* context.signal.aborted
    lost,        \* the connection is lost
    paused,      \* the task is paused
    result,      \* running, done or failed (cancelled is failed)
    attempt      \* which run of the import this is

prod == <<producer, unread, tasks, pending, building>>
world == <<aborted, lost, paused>>
db == <<stored, inTx, unsure>>
run == <<prod, queue, ended, consumer, batch, row, sent, db, rejected, checkpoint, world,
         result, attempt>>
vars == <<import, run>>

None == [r \in File |-> 0]
Plus(bag, items) == [r \in File |-> bag[r] + (IF r \in ToSet(items) THEN 1 ELSE 0)]

Init ==
    /\ import \in Imports
    /\ producer = "read" /\ unread = 1
    /\ tasks = <<>> /\ pending = <<>> /\ building = <<>>
    /\ queue = <<>> /\ ended = "open"
    /\ consumer = (IF import.transaction = "all" THEN "beginAll" ELSE "take")
    /\ batch = <<>> /\ row = 1 /\ sent = TRUE
    /\ stored = None /\ inTx = None /\ unsure = None /\ rejected = {} /\ checkpoint = 0
    /\ aborted = FALSE /\ lost = FALSE /\ paused = FALSE
    /\ result = "running" /\ attempt = 1

(* ------------------------------ the producer ----------------------------- *)

\* The consumer's side, which the producer leaves alone.
cons == <<consumer, batch, row, sent, db, checkpoint, world, result, attempt>>

\* The producer throws: queue.fail() drops what is queued.
ProducerFails ==
    /\ producer' = "failed"
    /\ ended' = IF ended = "open" THEN "failed" ELSE ended
    /\ queue' = IF ended = "open" THEN <<>> ELSE queue

\* The next chunk of the file; reader.chunks() throws once aborted.
Read ==
    /\ producer = "read" /\ unread <= Records
    /\ \/ /\ aborted /\ ProducerFails /\ UNCHANGED <<unread, tasks>>
       \/ /\ ~aborted /\ ~paused
          /\ LET last == IF unread + Chunk - 1 < Records THEN unread + Chunk - 1 ELSE Records IN
             tasks' = [n \in 1..(last - unread + 1) |-> unread + n - 1] /\ unread' = last + 1
          /\ producer' = "settle" /\ UNCHANGED <<queue, ended>>
    /\ UNCHANGED <<pending, building, rejected, cons>>

\* emit() and accept(): a bad record waits for the end of the chunk.
Accept ==
    /\ producer = "settle" /\ tasks # <<>>
    /\ tasks' = Tail(tasks)
    /\ IF Head(tasks) \in import.malformed
       THEN pending' = Append(pending, Head(tasks)) /\ UNCHANGED <<building, producer>>
       ELSE /\ building' = Append(building, Head(tasks)) /\ UNCHANGED pending
            /\ producer' = IF Len(building') >= BatchSize THEN "push" ELSE "settle"
    /\ UNCHANGED <<unread, queue, ended, rejected, cons>>

\* rejectRecord(), which stops the import when told to.
Reject ==
    /\ producer = "settle" /\ tasks = <<>> /\ pending # <<>>
    /\ rejected' = rejected \cup {Head(pending)}
    /\ pending' = Tail(pending)
    /\ IF import.onError = "stop" THEN ProducerFails ELSE UNCHANGED <<producer, queue, ended>>
    /\ UNCHANGED <<unread, tasks, building, cons>>

\* Variant: the last, partly filled batch is forgotten.
NoLeftover == FALSE

Leftover == building # <<>>

\* The chunk is settled: the next one, or the last batch.
Settled ==
    /\ producer = "settle" /\ tasks = <<>> /\ pending = <<>>
    /\ \/ unread <= Records /\ producer' = "read" /\ UNCHANGED ended
       \/ unread > Records /\ Leftover /\ producer' = "push" /\ UNCHANGED ended
       \/ /\ unread > Records /\ ~Leftover /\ producer' = "done"
          /\ ended' = IF ended = "open" THEN "closed" ELSE ended
    /\ UNCHANGED <<unread, tasks, pending, building, queue, rejected, cons>>

Queued == FoldSeq(LAMBDA b, sum : Len(b) + sum, 0, queue)

Room == queue = <<>> \/ Queued + Len(building) <= QueueSize

PushThrows == ended # "open" \/ aborted

\* queue.push(), which waits for room and throws once aborted or failed.
Push ==
    /\ producer = "push"
    /\ \/ PushThrows /\ ProducerFails /\ UNCHANGED building
       \/ /\ ended = "open" /\ ~aborted /\ Room
          /\ queue' = Append(queue, building) /\ building' = <<>>
          /\ producer' = "settle" /\ UNCHANGED ended
    /\ UNCHANGED <<unread, tasks, pending, rejected, cons>>

Produce == Read \/ Accept \/ Reject \/ Settled \/ Push

(* ------------------------------ the consumer ----------------------------- *)

\* The consumer goes to a statement, which is not sent any more once aborted.
Send(where) == consumer' = where /\ sent' = ~aborted

\* What becomes of a statement that writes the records `items`.
Ok(items) == sent /\ ~lost /\ ToSet(items) \cap import.refused = {}
Refuses(items) == sent /\ ~lost /\ ToSet(items) \cap import.refused # {}
Errs == lost \/ aborted

\* The server did it, but the cancel came before its answer was looked at.
Overtaken == sent /\ aborted /\ ~lost

\* What may have been done of a statement whose answer does not come: a table takes
\* all of its rows or refuses it, a collection any of the documents.
MayBeDone(items) ==
    IF import.target = "table"
    THEN {IF ToSet(items) \cap import.refused = {} THEN items ELSE <<>>}
    ELSE {SelectSeq(items, LAMBDA r : r \in some) : some \in SUBSET (ToSet(items) \ import.refused)}

\* What the step stores, the import is not told of.
Unheard == unsure' = [r \in File |-> unsure[r] + (stored'[r] - stored[r])]

\* A write, in a transaction or on its own.
Write(items) ==
    IF import.transaction = "none" \/ consumer = "retry"
    THEN stored' = Plus(stored, items) /\ UNCHANGED inTx
    ELSE inTx' = Plus(inTx, items) /\ UNCHANGED stored

\* What a COMMIT adds.
Committed == [r \in File |-> stored[r] + inTx[r]]

\* The catch of the whole run: it waits for the producer.
Fail == consumer' = "failing" /\ UNCHANGED sent

BeginAll ==
    /\ consumer = "beginAll"
    /\ \/ Ok(<<>>) /\ consumer' = "take" /\ UNCHANGED sent
       \/ Errs /\ Fail
    /\ UNCHANGED <<prod, queue, ended, batch, row, db, rejected, checkpoint, world, result, attempt>>

Take ==
    /\ consumer = "take"
    /\ \/ /\ queue # <<>>
          /\ batch' = Head(queue) /\ queue' = Tail(queue)
          /\ consumer' = "taken" /\ UNCHANGED sent
       \/ /\ queue = <<>> /\ ended = "closed"
          /\ IF import.transaction = "all" THEN Send("commitAll") ELSE consumer' = "over" /\ UNCHANGED sent
          /\ UNCHANGED <<batch, queue>>
       \/ ended = "failed" /\ Fail /\ UNCHANGED <<batch, queue>>
    /\ UNCHANGED <<prod, ended, row, db, rejected, checkpoint, world, result, attempt>>

\* After waitIfPaused().
Taken ==
    /\ consumer = "taken" /\ ~paused
    /\ IF aborted THEN Fail ELSE Send(IF import.transaction = "batch" THEN "begin" ELSE "write")
    /\ UNCHANGED <<prod, queue, ended, batch, row, db, rejected, checkpoint, world, result, attempt>>

Begin ==
    /\ consumer = "begin"
    /\ \/ Ok(<<>>) /\ Send("write")
       \/ Errs /\ Send("rollback")
    /\ UNCHANGED <<prod, queue, ended, batch, row, db, rejected, checkpoint, world, result, attempt>>

\* writer.write(): the statement is whole or refused; insertMany unordered
\* stores what is not refused.
WriteBatch ==
    /\ consumer = "write"
    /\ \/ /\ Ok(batch) /\ Write(batch) /\ UNCHANGED unsure
          /\ IF import.transaction = "batch" THEN Send("commit") ELSE consumer' = "written" /\ UNCHANGED sent
       \/ /\ Refuses(batch)
          /\ IF import.target = "table" THEN UNCHANGED db
             ELSE Write(SelectSeq(batch, LAMBDA r : r \notin import.refused)) /\ UNCHANGED unsure
          /\ Send("rollback")
       \/ Errs /\ UNCHANGED db /\ Send("rollback")
       \/ /\ Overtaken /\ (\E done \in MayBeDone(batch) : Write(done)) /\ Unheard
          /\ Send("rollback")
    /\ UNCHANGED <<prod, queue, ended, batch, row, rejected, checkpoint, world, result, attempt>>

Commit ==
    /\ consumer = "commit"
    /\ \/ /\ Ok(<<>>)
          /\ stored' = Committed /\ inTx' = None
          /\ consumer' = "written" /\ UNCHANGED <<sent, unsure>>
       \/ Errs /\ Send("rollback") /\ UNCHANGED db
       \/ Overtaken /\ stored' = Committed /\ inTx' = None /\ Unheard /\ Send("rollback")
    /\ UNCHANGED <<prod, queue, ended, batch, row, rejected, checkpoint, world, result, attempt>>

\* The catch of a batch: it is rolled back and, when told to skip, retried.
Rollback ==
    /\ consumer = "rollback"
    /\ IF import.transaction = "batch" THEN inTx' = None ELSE UNCHANGED inTx
    /\ UNCHANGED unsure
    /\ IF aborted \/ import.transaction = "all" \/ import.onError = "stop"
       THEN Fail /\ UNCHANGED row
       ELSE Send("retry") /\ row' = 1
    /\ UNCHANGED <<prod, queue, ended, batch, stored, rejected, checkpoint, world, result, attempt>>

\* One row of the failed batch, on its own: any error but a cancel rejects it.
Retry ==
    /\ consumer = "retry"
    /\ LET item == <<batch[row]>> IN
       \/ /\ Ok(item) /\ Write(item) /\ row' = row + 1 /\ UNCHANGED <<unsure, rejected>>
          /\ IF row = Len(batch) THEN consumer' = "written" /\ UNCHANGED sent ELSE Send("retry")
       \/ /\ aborted /\ Fail /\ UNCHANGED <<row, rejected>>
          /\ \/ UNCHANGED db
             \/ Overtaken /\ (\E done \in MayBeDone(item) : Write(done)) /\ Unheard
       \/ /\ ~aborted /\ (Refuses(item) \/ lost)
          /\ rejected' = rejected \cup {batch[row]} /\ row' = row + 1
          /\ IF row = Len(batch) THEN consumer' = "written" /\ UNCHANGED sent ELSE Send("retry")
          /\ UNCHANGED db
    /\ UNCHANGED <<prod, queue, ended, batch, checkpoint, world, result, attempt>>

\* Variant: the checkpoint is where the producer has come to.
ReadPosition == unread

\* batch.nextRecord
BatchEnd == Last(batch) + 1

Written ==
    /\ consumer = "written"
    /\ checkpoint' = IF import.transaction = "all" THEN checkpoint ELSE BatchEnd
    /\ consumer' = "take" /\ batch' = <<>> /\ row' = 1
    /\ UNCHANGED <<prod, queue, ended, sent, db, rejected, world, result, attempt>>

CommitAll ==
    /\ consumer = "commitAll"
    /\ \/ /\ Ok(<<>>) /\ consumer' = "over" /\ UNCHANGED <<sent, unsure>>
          /\ stored' = Committed /\ inTx' = None
       \/ Errs /\ Fail /\ UNCHANGED db
       \/ Overtaken /\ stored' = Committed /\ inTx' = None /\ Unheard /\ Fail
    /\ UNCHANGED <<prod, queue, ended, batch, row, rejected, checkpoint, world, result, attempt>>

Completes ==
    /\ consumer = "over" /\ result = "running"
    /\ result' = "done"
    /\ UNCHANGED <<prod, queue, ended, consumer, batch, row, sent, db, rejected, checkpoint, world, attempt>>

\* queue.fail(), before the producer is waited for.
FailQueue ==
    /\ consumer = "failing"
    /\ ended' = IF ended = "open" THEN "failed" ELSE ended
    /\ queue' = IF ended = "open" THEN <<>> ELSE queue
    /\ consumer' = "joining"
    /\ UNCHANGED <<prod, batch, row, sent, db, rejected, checkpoint, world, result, attempt>>

\* The producer has ended: the transaction is rolled back and the error thrown.
Fails ==
    /\ consumer = "joining" /\ producer \in {"done", "failed"}
    /\ inTx' = None
    /\ result' = "failed" /\ consumer' = "over"
    /\ UNCHANGED <<prod, queue, ended, batch, row, sent, stored, unsure, rejected, checkpoint, world, attempt>>

Consume ==
    \/ BeginAll \/ Take \/ Taken \/ Begin \/ WriteBatch \/ Commit \/ Rollback \/ Retry
    \/ Written \/ CommitAll \/ Completes \/ FailQueue \/ Fails

(* --------------------------------- around -------------------------------- *)

rest == <<prod, queue, ended, consumer, batch, row, sent, rejected, checkpoint, result, attempt>>

\* The task is cancelled, which also ends a pause.
Cancel ==
    /\ "cancel" \in import.fate /\ result = "running" /\ ~aborted
    /\ aborted' = TRUE /\ paused' = FALSE
    /\ UNCHANGED <<rest, lost, db>>

\* The server did the statement that is under way, for good.
Lands ==
    /\ sent
    /\ \/ consumer \in {"commit", "commitAll"} /\ stored' = Committed
       \/ /\ consumer = "write" /\ import.transaction = "none"
          /\ \E done \in MayBeDone(batch) : stored' = Plus(stored, done)
       \/ consumer = "retry" /\ \E done \in MayBeDone(<<batch[row]>>) : stored' = Plus(stored, done)

\* The connection is lost, with it the open transaction, and the answer to the
\* statement under way.
Lose ==
    /\ "lose" \in import.fate /\ result = "running" /\ ~lost
    /\ lost' = TRUE /\ inTx' = None
    /\ (UNCHANGED stored \/ Lands) /\ Unheard
    /\ UNCHANGED <<rest, aborted, paused>>

Pause ==
    /\ "pause" \in import.fate /\ result = "running" /\ ~aborted
    /\ paused' = ~paused
    /\ UNCHANGED <<rest, db, aborted, lost>>

\* A failed import is started again from its checkpoint, appending.
Resume ==
    /\ result = "failed" /\ checkpoint # 0 /\ import.transaction # "all" /\ attempt < import.attempts
    /\ attempt' = attempt + 1 /\ result' = "running"
    /\ producer' = (IF checkpoint > Records THEN "settle" ELSE "read") /\ unread' = checkpoint
    /\ tasks' = <<>> /\ pending' = <<>> /\ building' = <<>>
    /\ queue' = <<>> /\ ended' = "open"
    /\ consumer' = "take" /\ batch' = <<>> /\ row' = 1 /\ sent' = TRUE
    /\ aborted' = FALSE /\ lost' = FALSE /\ paused' = FALSE
    /\ UNCHANGED <<db, rejected, checkpoint>>

Next ==
    /\ UNCHANGED import
    /\ Produce \/ Consume \/ Cancel \/ Lose \/ Pause \/ Resume

Spec == Init /\ [][Next]_vars

\* Both sides of the pipeline go on; nobody has to end a pause.
FairSpec == Spec /\ WF_run(Produce) /\ WF_run(Consume)

(* ------------------------------- properties ------------------------------ *)

TypeOK ==
    /\ import \in Imports
    /\ producer \in {"read", "settle", "push", "done", "failed"}
    /\ unread \in 1..(Records + 1)
    /\ {tasks, pending, building, batch} \subseteq Seq(File) /\ queue \in Seq(Seq(File) \ {<<>>})
    /\ Len(building) <= BatchSize /\ (Queued <= QueueSize \/ Len(queue) = 1)
    /\ ended \in {"open", "closed", "failed"}
    /\ consumer \in {"beginAll", "take", "taken", "begin", "write", "commit", "rollback", "retry",
                     "written", "commitAll", "over", "failing", "joining"}
    /\ row \in 1..(BatchSize + 1) /\ {sent, aborted, lost, paused} \subseteq BOOLEAN
    /\ {stored, inTx, unsure} \subseteq [File -> Nat] /\ rejected \subseteq File
    /\ checkpoint \in 0..(Records + 1)
    /\ result \in {"running", "done", "failed"} /\ attempt \in 1..import.attempts

Dealt(r) == stored[r] > 0 \/ r \in rejected

\* Every record before the checkpoint that could be parsed is in the database or
\* was reported, whatever the reader has taken in beyond it.
CheckpointIsStored == \A r \in File \ import.malformed : r < checkpoint => Dealt(r)

\* "resumes from the last checkpoint without repeating ... a record"
\* (importRun.test.ts:369), as far as the code keeps it: an import into a table that
\* stops at the first error stores a record once, wherever it was cut off and however
\* often resumed, and once more for each statement that stored it and whose answer the
\* import did not get, as the connection was lost first or the cancel overtook it.
NoRepeat ==
    import.target = "table" /\ import.onError = "stop" =>
        \A r \in File : stored[r] <= 1 + unsure[r]

\* A single-transaction import stores every good record or none, and one that
\* completes has stored or reported every record.
AllOrNothing ==
    import.transaction = "all" =>
        /\ stored = None \/ \A r \in File \ import.malformed : stored[r] = 1
        /\ result = "done" => \A r \in File : Dealt(r)

\* "A bad record never costs more than itself unless the import was told to
\* stop" (importRun.ts:31): what is good is stored when the import completes,
\* unless its connection was lost.
BadCostsItself ==
    result = "done" /\ "lose" \notin import.fate =>
        \A r \in File \ (import.malformed \cup import.refused) : stored[r] > 0

\* A cancelled import ends, though both sides wait for each other or are paused.
CancelEnds == aborted ~> result # "running"

\* "resumes from the last checkpoint without repeating or skipping a record"
\* (importRun.test.ts:369): nothing is skipped, and nothing repeated but what an
\* unanswered statement had stored.
ResumesExactly == NoRepeat /\ CheckpointIsStored
=============================================================================
