----------------------------- MODULE RequestSend -----------------------------
(* Sending the request of one tab, again and again: the hook that sends it and  *)
(* shows what came of it (packages/ui/src/app/useSendRequest.ts), one abort     *)
(* controller per tab (packages/ui/src/useRequestExecution.ts), the pipeline    *)
(* around the request (packages/api-client/src/pipeline.ts), the desktop        *)
(* runtime (packages/api-client/src/index.ts) and the requests in flight in the *)
(* main process (apps/desktop/src/main.ts, http.ts).  What is sent and received *)
(* is left out, but for whether the answer is a stream.  Requests of the window *)
(* are served when they are made; events and answers reach it later, in order.  *)
EXTENDS Naturals, Sequences

CONSTANT MaxSends   \* bound: times the request is sent

\* Assumed of the constant.
RequestSendAssumption == MaxSends \in Nat \ {0}

Sending == 1 .. MaxSends

VARIABLES
    phase,      \* each send: new, building, sent, answering (challenge and scripts), over
    head,       \* the sends whose execution got the head of a stream
    aborted,    \* the sends whose controller was aborted
    timedOut,   \* the sends whose time limit was reached
    challenged, \* the sends whose request was sent again, to answer a challenge
    native,     \* their request in the main process: none, asked, streaming, over
    out,        \* events and answers on their way to the window
    current,    \* controllers: the send that owns the tab's entry, 0 for none
    pending,    \* whether the tab shows that it is sending
    stream,     \* streams: the send whose events are shown as they arrive, 0 for none
    response,   \* responses: the send whose response is shown, 0 for none
    answered,   \* history: the sends that ended with a response
    late,       \* history: the head of a stream came when its send was over
    displaced,  \* history: a send ended when another owned the tab, whose stream it took away
    overtaken   \* history: a send showed its response over that of a later one

vars == <<phase, head, aborted, timedOut, challenged, native, out, current, pending, stream, response,
          answered, late, displaced, overtaken>>

Init ==
    /\ phase = [s \in Sending |-> "new"]
    /\ head = {} /\ aborted = {} /\ timedOut = {} /\ challenged = {}
    /\ native = [s \in Sending |-> "none"]
    /\ out = <<>>
    /\ current = 0 /\ pending = FALSE
    /\ stream = 0 /\ response = 0
    /\ answered = {}
    /\ late = FALSE /\ displaced = FALSE /\ overtaken = FALSE

AtWork(s) == phase[s] \in {"building", "sent", "answering"}
Message(s, kind) == [of |-> s, kind |-> kind]

(* ------------------------- how a send ends (window) ------------------------ *)

\* Variant: the entry goes whoever owns it.
EndedAnyway(ended, entry) ==
    IF ended # {} THEN current' = 0 /\ pending' = FALSE
                  ELSE current' = entry /\ pending' = (entry # 0)

\* What send() and the hook do when the sends in ended come to their end, entry being who owns the
\* tab by then: the entry goes with its owner only, the stream shown whoever's it is.
Ended(ended, entry) ==
    IF entry \in ended THEN current' = 0 /\ pending' = FALSE
                       ELSE current' = entry /\ pending' = (entry # 0)

StreamEnded(ended, entry) ==
    /\ stream' = IF ended # {} THEN 0 ELSE stream
    /\ displaced' = (displaced \/ (stream # 0 /\ stream = entry /\ ended \cap {0, entry} = {} /\ ended # {}))

\* s ends without a response: cancelled, or failed.
EndWithout(s) ==
    /\ phase' = [phase EXCEPT ![s] = "over"]
    /\ Ended({s}, current) /\ StreamEnded({s}, current)
    /\ UNCHANGED <<response, answered, overtaken>>

\* s ends with its response.
EndWith(s) ==
    /\ phase' = [phase EXCEPT ![s] = "over"]
    /\ Ended({s}, current) /\ StreamEnded({s}, current)
    /\ response' = s
    /\ answered' = answered \cup {s}
    /\ overtaken' = (overtaken \/ \E t \in answered : t > s)

(* --------------------------- aborting (window) ----------------------------- *)

Executing(s) == s # 0 /\ phase[s] = "sent"

\* Variant: the window stops waiting and the main process is told nothing.
CancelNothing(s) == UNCHANGED <<native, out>>

\* onAbort(): the main process is told, whose answer is no longer waited for.
CancelNative(s) ==
    IF Executing(s) /\ native[s] \in {"asked", "streaming"}
    THEN /\ native' = [native EXCEPT ![s] = "over"]
         /\ out' = Append(out, Message(s, "failure"))
    ELSE UNCHANGED <<native, out>>

\* What becomes of the send: an open stream is kept as the response and goes on to the scripts,
\* an execution without one is rejected at once, and anything else finds out later.
AbortedPhase(s) ==
    IF ~Executing(s) THEN phase ELSE [phase EXCEPT ![s] = IF s \in head THEN "answering" ELSE "over"]
Rejected(s) == IF Executing(s) /\ s \notin head THEN {s} ELSE {}

\* send(): the one at work is aborted, and the tab's entry taken over.
Send(s) ==
    /\ phase[s] = "new" /\ \A t \in Sending : t < s => phase[t] # "new"
    /\ CancelNative(current)
    /\ aborted' = aborted \cup ({current} \ {0})
    /\ phase' = [AbortedPhase(current) EXCEPT ![s] = "building"]
    /\ Ended(Rejected(current), s) /\ StreamEnded(Rejected(current), s)
    /\ UNCHANGED <<head, timedOut, challenged, response, answered, late, overtaken>>

Cancel ==
    /\ current # 0 /\ current \notin aborted
    /\ CancelNative(current)
    /\ aborted' = aborted \cup {current}
    /\ phase' = AbortedPhase(current)
    /\ Ended(Rejected(current), current) /\ StreamEnded(Rejected(current), current)
    /\ UNCHANGED <<head, timedOut, challenged, response, answered, late, overtaken>>

\* The time limit, which the head of a stream puts an end to.
TimesOut(s) ==
    /\ phase[s] \in {"sent", "answering"} /\ s \notin head \cup timedOut \cup aborted
    /\ timedOut' = timedOut \cup {s}
    /\ CancelNative(s)
    /\ phase' = AbortedPhase(s)
    /\ Ended(Rejected(s), current) /\ StreamEnded(Rejected(s), current)
    /\ UNCHANGED <<head, aborted, challenged, response, answered, late, overtaken>>

(* --------------------------- the pipeline (window) ------------------------- *)

Execute(s) ==
    /\ phase' = [phase EXCEPT ![s] = "sent"]
    /\ native' = [native EXCEPT ![s] = "asked"]
    /\ UNCHANGED <<current, pending, stream, response, answered, displaced, overtaken>>

\* buildRequest() is done, which reads files, runs scripts and does not look at the signal.
Built(s) ==
    /\ phase[s] = "building"
    /\ IF s \in aborted THEN EndWithout(s) /\ UNCHANGED native ELSE Execute(s)
    /\ UNCHANGED <<head, aborted, timedOut, challenged, out, late>>
BuildFails(s) ==
    /\ phase[s] = "building"
    /\ EndWithout(s)
    /\ UNCHANGED <<head, aborted, timedOut, challenged, native, out, late>>

\* handleChallenge() makes another request, which an abort meanwhile prevents.  A challenge is no
\* stream.
AnswersChallenge(s) ==
    /\ phase[s] = "answering" /\ s \notin challenged \cup head
    /\ challenged' = challenged \cup {s}
    /\ IF s \in aborted \cup timedOut THEN EndWithout(s) /\ UNCHANGED native ELSE Execute(s)
    /\ UNCHANGED <<head, aborted, timedOut, out, late>>

\* postResponse() is done.
Done(s) ==
    /\ phase[s] = "answering"
    /\ EndWith(s)
    /\ UNCHANGED <<head, aborted, timedOut, challenged, native, out, late>>

(* ----------------------------- the main process ---------------------------- *)

Native(s, from, to, kind) ==
    /\ native[s] = from
    /\ native' = [native EXCEPT ![s] = to]
    /\ out' = Append(out, Message(s, kind))
    /\ UNCHANGED <<phase, head, aborted, timedOut, challenged, current, pending, stream, response,
                   answered, late, displaced, overtaken>>

Answers(s) == \E kind \in {"answer", "failure"} : Native(s, "asked", "over", kind)
Streams(s) == Native(s, "asked", "streaming", "start")
StreamOver(s) == Native(s, "streaming", "over", "answer")

(* ------------------------ what the window is told -------------------------- *)

\* The head of a stream is shown, also when the send is over: the listener goes with the answer.
TakeStart(s) ==
    /\ head' = head \cup {s}
    /\ stream' = s
    /\ late' = (late \/ phase[s] # "sent")
    /\ UNCHANGED <<phase, current, pending, response, answered, displaced, overtaken>>

TakeAnswer(s, kind) ==
    /\ CASE phase[s] = "sent" /\ kind = "answer" ->
                /\ phase' = [phase EXCEPT ![s] = "answering"]
                /\ UNCHANGED <<current, pending, stream, response, answered, displaced, overtaken>>
         [] phase[s] = "sent" /\ kind = "failure" -> EndWithout(s)
         [] OTHER -> UNCHANGED <<phase, current, pending, stream, response, answered, displaced,
                                 overtaken>>
    /\ UNCHANGED <<head, late>>

Take ==
    /\ out # <<>>
    /\ out' = Tail(out)
    /\ LET m == Head(out) IN
           IF m.kind = "start" THEN TakeStart(m.of) ELSE TakeAnswer(m.of, m.kind)
    /\ UNCHANGED <<aborted, timedOut, challenged, native>>

Next ==
    \/ Cancel \/ Take
    \/ \E s \in Sending :
           \/ Send(s) \/ TimesOut(s) \/ Built(s) \/ BuildFails(s) \/ AnswersChallenge(s) \/ Done(s)
           \/ Answers(s) \/ Streams(s) \/ StreamOver(s)

Spec == Init /\ [][Next]_vars

(* ------------------------------- properties -------------------------------- *)

TypeOK ==
    /\ phase \in [Sending -> {"new", "building", "sent", "answering", "over"}]
    /\ {head, aborted, timedOut, challenged, answered} \subseteq SUBSET Sending
    /\ native \in [Sending -> {"none", "asked", "streaming", "over"}]
    /\ {current, stream, response} \subseteq {0} \cup Sending
    /\ {pending, late, displaced, overtaken} \subseteq BOOLEAN

\* A request is in flight only while its send waits for it, and only one send is at work that was
\* not aborted: the one that owns the tab's entry, which is shown as sending.
OneSend ==
    /\ \A s \in Sending : native[s] \in {"asked", "streaming"} => phase[s] = "sent" /\ s \notin aborted
    /\ \A s \in Sending : AtWork(s) /\ s \notin aborted => current = s
    /\ current # 0 => AtWork(current)
    /\ pending = (current # 0)

\* A stream is shown as open while it is and no longer, unless its head came too late or an
\* earlier send ended meanwhile; and the response shown is the last one, unless an earlier send
\* came to its end later.
ShowsTheSend ==
    /\ stream # 0 /\ ~late => AtWork(stream) /\ stream \in head
    /\ current # 0 /\ ~displaced /\ ~late => (current \in head /\ phase[current] = "sent" => stream = current)
    /\ ~overtaken => \A s \in answered : s <= response

(* ------------------------- the inductive invariant ------------------------- *)

\* Nothing is known of a send that was not made, and what was sent was not aborted.
Sent ==
    /\ \A s \in Sending : phase[s] = "new" => s \notin aborted /\ native[s] = "none"
    /\ \A s \in Sending : s \in head => phase[s] \notin {"new", "building"}
    /\ \A s \in Sending : phase[s] = "sent" => s \notin aborted

Kinds == {"start", "answer", "failure"}
Messages == [of : Sending, kind : Kinds]

\* What is on its way of each send.  What ends a request is the last of it, and is read before
\* the request could be sent again.
told == [s \in Sending |-> {k \in Kinds : \E i \in DOMAIN out : out[i] = Message(s, k)}]
Never == {"answer", "failure"} \X Kinds

Queued ==
    /\ out \in Seq(Messages)
    /\ \A i, j \in DOMAIN out : i < j /\ out[i].of = out[j].of => <<out[i].kind, out[j].kind>> \notin Never

OnTheWay ==
    \A s \in Sending :
        /\ told[s] # {} => phase[s] \in {"sent", "answering", "over"}
        /\ told[s] # {} /\ phase[s] = "answering" => s \in head
        /\ native[s] \in {"asked", "streaming"} => told[s] \subseteq {"start"}

Inv == TypeOK /\ Queued /\ Sent /\ OnTheWay /\ OneSend /\ ShowsTheSend
=============================================================================
