---------------------------- MODULE BoundedQueue ----------------------------
(* The weighted queue between a fast reader and a slow consumer:               *)
(* streaming-engine/src/boundedQueue.ts.  A push() that waits is resumed in a   *)
(* microtask after its wake-up, so an abort may come between the two.           *)
EXTENDS Integers, Sequences, SequencesExt

CONSTANTS
    Producers,  \* callers of push(), each with one push at a time
    Capacity,   \* capacity
    Weights,    \* weights of the items pushed
    MaxItems    \* bound: items accepted

\* What the constants must satisfy.
BoundedQueueAssumption ==
    /\ Capacity \in Nat \ {0} /\ Weights \subseteq Nat \ {0} /\ MaxItems \in Nat

VARIABLES
    aborters,  \* the producers whose signal may fire
    entries,   \* this.entries: the items, known by the number of their acceptance
    used,      \* this.used
    parked,    \* this.producers
    consumer,  \* away, waiting (this.consumer is set), done or threw
    ended,     \* open, closed, failed
    pushing,   \* the push() of each producer: none, parked, woken
    weight,    \* the weight of the item each producer pushes
    aborted,   \* producers whose signal has fired
    accepted,  \* items accepted so far
    got        \* items the consumer was given

vars == <<aborters, entries, used, parked, consumer, ended, pushing, weight, aborted, accepted,
          got>>

Init ==
    /\ aborters \subseteq Producers
    /\ entries = <<>> /\ used = 0 /\ parked = <<>>
    /\ consumer = "away" /\ ended = "open"
    /\ pushing = [p \in Producers |-> "none"]
    /\ weight \in [Producers -> Weights]
    /\ aborted = {} /\ accepted = 0 /\ got = <<>>

(* --------------------------------- push() -------------------------------- *)

Fits(w) == used = 0 \/ used + w <= Capacity

\* A consumer that waits is handed the item past the queue.
Deliver(p) ==
    IF consumer = "waiting"
    THEN consumer' = "away" /\ got' = Append(got, accepted + 1) /\ UNCHANGED <<entries, used>>
    ELSE /\ entries' = Append(entries, [item |-> accepted + 1, weight |-> weight[p]])
         /\ used' = used + weight[p] /\ UNCHANGED <<consumer, got>>

Park(p) == parked' = Append(parked, p) /\ pushing' = [pushing EXCEPT ![p] = "parked"]

\* One turn of the loop of push().
Try(p) ==
    /\ \/ /\ ended # "open" \/ p \in aborted
          /\ pushing' = [pushing EXCEPT ![p] = "none"]
          /\ UNCHANGED <<entries, used, parked, consumer, weight, accepted, got>>
       \/ /\ ended = "open" /\ p \notin aborted /\ Fits(weight[p]) /\ accepted < MaxItems
          /\ Deliver(p)
          /\ accepted' = accepted + 1
          /\ pushing' = [pushing EXCEPT ![p] = "none"]
          /\ weight' \in {[weight EXCEPT ![p] = w] : w \in Weights}
          /\ UNCHANGED parked
       \/ /\ ended = "open" /\ p \notin aborted /\ ~Fits(weight[p])
          /\ Park(p)
          /\ UNCHANGED <<entries, used, consumer, weight, accepted, got>>
    /\ UNCHANGED <<ended, aborted>>

Push(p) == pushing[p] = "none" /\ Try(p)

Resume(p) == pushing[p] = "woken" /\ Try(p)

\* The signal of a producer fires: a parked push() leaves the queue.
Abort(p) ==
    /\ p \in aborters \ aborted
    /\ aborted' = aborted \cup {p}
    /\ parked' = SelectSeq(parked, LAMBDA q : q # p)
    /\ pushing' = [pushing EXCEPT ![p] = IF @ = "parked" THEN "none" ELSE @]
    /\ UNCHANGED <<entries, used, consumer, ended, weight, accepted, got>>

(* -------------------------------- consumer ------------------------------- *)

\* Variant: nobody is told that there is room.
WakeNobody == UNCHANGED <<parked, pushing>>

\* this.producers.shift()?.wake()
WakeOne ==
    IF parked = <<>> THEN UNCHANGED <<parked, pushing>>
    ELSE parked' = Tail(parked) /\ pushing' = [pushing EXCEPT ![Head(parked)] = "woken"]

\* next(): an error, an item, the end, or a wait.
NextItem ==
    /\ consumer = "away"
    /\ \/ /\ ended = "failed"
          /\ consumer' = "threw" /\ UNCHANGED <<entries, used, got, parked, pushing>>
       \/ /\ ended # "failed" /\ entries # <<>>
          /\ got' = Append(got, Head(entries).item)
          /\ entries' = Tail(entries) /\ used' = used - Head(entries).weight
          /\ WakeOne /\ UNCHANGED consumer
       \/ /\ ended = "closed" /\ entries = <<>>
          /\ consumer' = "done" /\ UNCHANGED <<entries, used, got, parked, pushing>>
       \/ /\ ended = "open" /\ entries = <<>>
          /\ consumer' = "waiting" /\ WakeOne /\ UNCHANGED <<entries, used, got>>
    /\ UNCHANGED <<ended, weight, aborted, accepted>>

\* releaseProducers(): every parked push() rejects.
Release ==
    /\ parked' = <<>>
    /\ pushing' = [p \in Producers |-> IF pushing[p] = "parked" THEN "none" ELSE pushing[p]]

Close ==
    /\ ended = "open" /\ ended' = "closed"
    /\ Release
    /\ consumer' = IF consumer = "waiting" /\ entries = <<>> THEN "done" ELSE consumer
    /\ UNCHANGED <<entries, used, weight, aborted, accepted, got>>

Fail ==
    /\ ended = "open" /\ ended' = "failed"
    /\ Release
    /\ entries' = <<>> /\ used' = 0
    /\ consumer' = IF consumer = "waiting" THEN "threw" ELSE consumer
    /\ UNCHANGED <<weight, aborted, accepted, got>>

\* return(): the consumer leaves its loop early.
Leave ==
    /\ consumer = "away"
    /\ consumer' = "done"
    /\ ended' = IF ended = "open" THEN "closed" ELSE ended
    /\ Release
    /\ entries' = <<>> /\ used' = 0
    /\ UNCHANGED <<weight, aborted, accepted, got>>

Next ==
    /\ UNCHANGED aborters
    /\ \/ \E p \in Producers : Push(p) \/ Resume(p) \/ Abort(p)
       \/ NextItem \/ Close \/ Fail \/ Leave

Spec == Init /\ [][Next]_vars

(* ------------------------------- properties ------------------------------ *)

\* The variables have their types and this.producers holds just who is parked.
TypeOK ==
    /\ entries \in Seq([item : 1..MaxItems, weight : Weights]) /\ used \in Nat
    /\ parked \in Seq(Producers) /\ IsInjective(parked)
    /\ consumer \in {"away", "waiting", "done", "threw"}
    /\ ended \in {"open", "closed", "failed"}
    /\ pushing \in [Producers -> {"none", "parked", "woken"}]
    /\ \A p \in Producers : pushing[p] = "parked" <=> p \in ToSet(parked)
    /\ weight \in [Producers -> Weights] /\ aborted \subseteq aborters /\ aborters \subseteq Producers
    /\ accepted \in 0..MaxItems /\ got \in Seq(1..MaxItems)

\* What is buffered never exceeds the capacity, but for one item that is alone,
\* and `used` is exactly the weight of what is buffered.
WeightBounded ==
    /\ used <= Capacity \/ Len(entries) = 1
    /\ used = FoldSeq(LAMBDA e, sum : e.weight + sum, 0, entries)

\* Every accepted item reaches the consumer once and in order, whether queued or
\* handed over, unless the stream failed or the consumer left.
InOrderOnce ==
    /\ IsPrefix(got, [n \in 1..accepted |-> n])
    /\ ended = "open" => got \o [n \in DOMAIN entries |-> entries[n].item] = [n \in 1..accepted |-> n]

\* "A producer parked on a full queue may now proceed: the consumer is waiting"
\* (boundedQueue.ts:123): while no signal may fire, a waiting consumer leaves no
\* producer parked without another on its way.
NeverStalled ==
    aborters = {} /\ consumer = "waiting" /\ parked # <<>> =>
        \E p \in Producers : pushing[p] = "woken"
=============================================================================
