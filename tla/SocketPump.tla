----------------------------- MODULE SocketPump -----------------------------
(* The buffer between a socket and the parser of a protocol                    *)
(* (streaming-engine/src/socketPump.ts): the parser asks for bytes, the socket *)
(* is paused while the buffer is above its high-water mark and nobody waits.   *)
EXTENDS Naturals

CONSTANTS
    HighWater,  \* HIGH_WATER_BYTES
    Chunk,      \* the most bytes one data event brings
    MaxNeed,    \* bound: the most bytes a parser asks for at once
    Total       \* bound: bytes the server sends before it is done

\* Assumed of the constants; the bytes are in any unit.
PumpAssumption == {HighWater, Chunk, MaxNeed, Total} \subseteq Nat \ {0}

VARIABLES
    coming,     \* bytes the server has yet to send
    chunks,     \* bytes in the buffer
    need,       \* what the waiter needs, 0 without a waiter
    asked,      \* history: the most a parser asked for
    fill,       \* the last fill(): none, waiting, filled, failed
    paused,
    ended       \* the socket is gone

vars == <<coming, chunks, need, asked, fill, paused, ended>>

Init ==
    /\ coming = Total
    /\ chunks = 0 /\ need = 0 /\ asked = 0
    /\ fill = "none"
    /\ paused = FALSE /\ ended = FALSE

\* The data event wakes the waiter, and pauses the socket when nobody waits any more.
Data(n) ==
    /\ ~paused /\ ~ended /\ n <= coming
    /\ coming' = coming - n
    /\ chunks' = chunks + n
    /\ LET wakes == need > 0 /\ chunks + n >= need IN
       /\ need' = IF wakes THEN 0 ELSE need
       /\ fill' = IF wakes THEN "filled" ELSE fill
       /\ paused' = (need' = 0 /\ chunks' >= HighWater)
    /\ UNCHANGED <<asked, ended>>

\* The socket's error and close events, and destroy().
Fail ==
    /\ ~ended
    /\ ended' = TRUE
    /\ need' = 0
    /\ fill' = IF need > 0 THEN "failed" ELSE fill
    /\ UNCHANGED <<coming, chunks, asked, paused>>

ServerCloses == coming = 0 /\ Fail

\* Variant: a parser that starts to wait finds the socket as it is.
WaitsAsIs(n) ==
    /\ need' = n
    /\ UNCHANGED paused

\* A parser that waits for bytes resumes the socket.
Waits(n) ==
    /\ need' = n
    /\ paused' = FALSE

\* fill(): what is in the buffer serves also after the socket is gone.
Fill(n) ==
    /\ need = 0
    /\ asked' = IF n > asked THEN n ELSE asked
    /\ \/ chunks >= n /\ fill' = "filled" /\ UNCHANGED <<need, paused>>
       \/ chunks < n /\ ended /\ fill' = "failed" /\ UNCHANGED <<need, paused>>
       \/ chunks < n /\ ~ended /\ fill' = "waiting" /\ Waits(n)
    /\ UNCHANGED <<coming, chunks, ended>>

Consume(n) ==
    /\ need = 0 /\ n <= chunks
    /\ chunks' = chunks - n
    /\ paused' = (paused /\ 2 * chunks' >= HighWater)
    /\ UNCHANGED <<coming, need, asked, fill, ended>>

Next ==
    \/ \E n \in 1 .. Chunk : Data(n)
    \/ \E n \in 1 .. MaxNeed : Fill(n) \/ Consume(n)
    \/ Fail

\* The server sends all it has and closes the connection when it is done.
PumpSpec ==
    Init /\ [][Next]_vars /\ WF_vars(\E n \in 1 .. Chunk : Data(n)) /\ WF_vars(ServerCloses)

(* ------------------------------- properties ------------------------------ *)

TypeOK ==
    /\ coming \in 0 .. Total /\ chunks \in 0 .. Total
    /\ need \in 0 .. MaxNeed /\ asked \in 0 .. MaxNeed
    /\ fill \in {"none", "waiting", "filled", "failed"}
    /\ paused \in BOOLEAN /\ ended \in BOOLEAN

\* Nobody waits on a paused or lost socket or for bytes that are there, and a socket is
\* paused only while the buffer holds enough for the parser to come back to.
NobodyWaitsAsleep ==
    /\ (need > 0) = (fill = "waiting")
    /\ need > 0 => ~paused /\ ~ended /\ chunks < need
    /\ paused => 2 * chunks >= HighWater

\* The buffer holds no more than the mark, or what a parser asked for, and one chunk.
BufferBounded == chunks < (IF asked > HighWater THEN asked ELSE HighWater) + Chunk

\* Every fill() is answered.
FillIsAnswered == fill = "waiting" ~> fill \in {"filled", "failed"}
=============================================================================
