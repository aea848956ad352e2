----------------------------- MODULE CreditGate -----------------------------
(* Credit-based flow control: streaming-engine/src/creditGate.ts.  Every method  *)
(* is synchronous; an abort fires the listener of a waiting acquire().          *)
EXTENDS Integers, Sequences, SequencesExt

CONSTANTS
    Senders,    \* callers of acquire(), each with one acquire at a time
    Aborters,   \* those whose signal may fire
    Amounts,    \* amounts of credit asked for and granted
    MaxCredit   \* bound: credit granted in all

\* What the constants must satisfy.
CreditGateAssumption ==
    Aborters \subseteq Senders /\ Amounts \subseteq Nat \ {0} /\ MaxCredit \in Nat

VARIABLES
    credit,   \* this.credit
    waiters,  \* this.waiters: sequence of [by, amount]
    closed,   \* this.closedWith is set
    aborted,  \* senders whose signal has fired
    granted,  \* credit granted in all
    spent     \* credit the resolved acquires have taken

vars == <<credit, waiters, closed, aborted, granted, spent>>

Init ==
    /\ credit = 0 /\ waiters = <<>> /\ closed = FALSE
    /\ aborted = {} /\ granted = 0 /\ spent = 0

Waiting(s) == \E n \in DOMAIN waiters : waiters[n].by = s

\* The credit the first n waiters ask for.
Asked(n) == FoldSeq(LAMBDA w, sum : w.amount + sum, 0, SubSeq(waiters, 1, n))

\* drain(): waiters are served from the head as long as the credit reaches.
Served(c) ==
    {n \in 0..Len(waiters) : Asked(n) <= c /\ (n < Len(waiters) => Asked(n + 1) > c)}

Grant(amount) ==
    /\ granted + amount <= MaxCredit
    /\ granted' = granted + amount
    /\ \E n \in Served(credit + amount) :
         /\ waiters' = SubSeq(waiters, n + 1, Len(waiters))
         /\ credit' = credit + amount - Asked(n)
         /\ spent' = spent + Asked(n)
    /\ UNCHANGED <<closed, aborted>>

\* Variant: a small request overtakes those that wait.
FreeForAll == TRUE

\* Nobody waits: the credit may be taken at once.
Free == waiters = <<>>

Acquire(s, amount) ==
    /\ ~closed /\ s \notin aborted /\ ~Waiting(s)
    /\ \/ /\ Free /\ credit >= amount
          /\ credit' = credit - amount /\ spent' = spent + amount
          /\ UNCHANGED waiters
       \/ /\ ~(Free /\ credit >= amount)
          /\ waiters' = Append(waiters, [by |-> s, amount |-> amount])
          /\ UNCHANGED <<credit, spent>>
    /\ UNCHANGED <<closed, aborted, granted>>

Abort(s) ==
    /\ s \in Aborters \ aborted
    /\ aborted' = aborted \cup {s}
    /\ waiters' = SelectSeq(waiters, LAMBDA w : w.by # s)
    /\ UNCHANGED <<credit, closed, granted, spent>>

\* close(): every waiter rejects.
Close ==
    /\ ~closed /\ closed' = TRUE
    /\ waiters' = <<>>
    /\ UNCHANGED <<credit, aborted, granted, spent>>

Next ==
    \/ \E a \in Amounts : Grant(a) \/ \E s \in Senders : Acquire(s, a)
    \/ \E s \in Senders : Abort(s)
    \/ Close

Spec == Init /\ [][Next]_vars

(* ------------------------------- properties ------------------------------ *)

TypeOK ==
    /\ {credit, granted, spent} \subseteq 0..MaxCredit
    /\ waiters \in Seq([by : Senders, amount : Amounts])
    /\ \A n, m \in DOMAIN waiters : n # m => waiters[n].by # waiters[m].by
    /\ closed \in BOOLEAN /\ aborted \subseteq Aborters
    /\ \A n \in DOMAIN waiters : waiters[n].by \notin aborted

\* A sender never gets ahead of the receiver: what was spent and what is left is
\* what was granted, whoever waited, gave up or was refused.
Conserved == credit + spent = granted

\* "a large request at the head is not starved by small ones" (creditGate.ts:79):
\* credit is taken while somebody waits only by serving from the head.
HeadFirst ==
    [][spent' > spent /\ waiters # <<>> => waiters' # waiters /\ IsSuffix(waiters', waiters)]_vars
=============================================================================
