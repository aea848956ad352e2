---------------------------- MODULE DocumentEdit ----------------------------
(* The editor of the documents of a MongoDB collection: the page it has read,   *)
(* the draft of one document or of a new one, the questions before a draft is    *)
(* thrown away, and what a save sends (ui/src/dbstudio/admin/DocumentEditor.tsx    *)
(* and the edits and differences of db-admin/src/bsonDocument.ts).                *)
(*                                                                              *)
(* The collection is external: what a statement finds in it, other programs may   *)
(* have changed.  A document has fields that are values or objects of values;      *)
(* an array is a value, since it is compared and replaced as a whole.  Left out:   *)
(* filters and pages, field names that cannot be a path, texts that do not parse,   *)
(* deeper objects, which are treated as those of the first level.                  *)
EXTENDS Naturals, Sequences, FiniteSets

CONSTANTS
    First,       \* the collection: sequences of documents, of id and fields
    Keys,        \* names of fields
    Values,      \* what fields hold
    Plans,       \* how many edits, saves, changes of others and clicks: records
    None         \* no value

\* What the constants must satisfy.
DocumentEditAssumption ==
    Plans \subseteq [edits : Nat, saves : Nat, others : Nat, uses : Nat]

VARIABLES
    plan,        \* the plan of this behaviour
    server,      \* the documents of the collection
    docs,        \* the page: docs
    selected,    \* the index of the one that is edited, or 0
    inserting,   \* the draft is of a new document
    draft,       \* the draft, or None
    loading,     \* a read of the page is under way
    saving,      \* save() waits for its statement
    jobs,        \* statements sent and not answered
    asking,      \* a question that waits for an answer: what it is about, and what was captured
    edits, saves, others, uses

vars == <<plan, server, docs, selected, inserting, draft, loading, saving, jobs, asking, edits,
          saves, others, uses>>

IsObject(v) == v.t = "object"
Object(e) == [t |-> "object", e |-> e]
With(e, key, v) == [k \in DOMAIN e \cup {key} |-> IF k = key THEN v ELSE e[k]]
But(e, key) == [k \in DOMAIN e \ {key} |-> e[k]]

----------------------------------------------------------------------------
(* Differences.  The fields of two objects, as paths that are set and unset.      *)

SetIn(before, after, prefix) ==
    {[path |-> Append(prefix, k), value |-> after[k]] : k \in
        {j \in DOMAIN after : j \in DOMAIN before =>
            after[j] # before[j] /\ ~(IsObject(after[j]) /\ IsObject(before[j]))}}

UnsetIn(before, after, prefix) == {Append(prefix, k) : k \in DOMAIN before \ DOMAIN after}

\* Variant: an object that has changed is set as a whole.
VisitedNone(before, after) == {}

\* The objects that are visited, and not set.
Visited(before, after) ==
    {k \in DOMAIN before \cap DOMAIN after : IsObject(before[k]) /\ IsObject(after[k])}

\* diffDocument(), of two documents with one id.
Diff(before, after) ==
    [set |-> SetIn(before, after, <<>>) \cup
             UNION {SetIn(before[k].e, after[k].e, <<k>>) : k \in Visited(before, after)},
     unset |-> UnsetIn(before, after, <<>>) \cup
               UNION {UnsetIn(before[k].e, after[k].e, <<k>>) : k \in Visited(before, after)}]

\* Variant: the _id is not looked at.
AnyId(before, after) == TRUE

\* The _id of a document cannot be changed.
SameId(before, after) == before.id = after.id

----------------------------------------------------------------------------
(* The collection.                                                              *)

\* A path cannot be set below what is a value.
CanSet(e, change) ==
    \A s \in change.set : Len(s.path) = 2 /\ s.path[1] \in DOMAIN e => IsObject(e[s.path[1]])

\* $set and $unset of an update.
Updated(e, change) ==
    LET sets(k) == {s \in change.set : s.path[1] = k}
        whole(k) == {s \in sets(k) : Len(s.path) = 1}
        object(k) == IF k \in DOMAIN e THEN e[k] ELSE Object(<<>>)
        inner(k) ==
            IF ~IsObject(object(k)) THEN object(k)
            ELSE LET o == object(k).e
                     of(j) == {s \in sets(k) : Len(s.path) = 2 /\ s.path[2] = j}
                 IN  Object([j \in (DOMAIN o \cup {s.path[2] : s \in {r \in sets(k) : Len(r.path) = 2}})
                                   \ {u[2] : u \in {w \in change.unset : Len(w) = 2 /\ w[1] = k}}
                             |-> IF of(j) = {} THEN o[j] ELSE (CHOOSE s \in of(j) : TRUE).value])
    IN  [k \in (DOMAIN e \cup {s.path[1] : s \in change.set})
               \ {u[1] : u \in {w \in change.unset : Len(w) = 1}}
         |-> IF whole(k) # {} THEN (CHOOSE s \in whole(k) : TRUE).value ELSE inner(k)]

\* Ids of what is inserted, and of what other programs add.
InsertedId == 10 + saves
AddedId == 20 + others

\* What a statement makes of the collection; an update or a delete may find no document.
After(job) ==
    CASE job.do = "insert" -> Append(server, [id |-> job.id, e |-> job.to])
      [] job.do = "delete" -> SelectSeq(server, LAMBDA d : d.id # job.id)
      [] job.do = "update" ->
             [i \in DOMAIN server |->
                 IF server[i].id # job.id THEN server[i]
                 ELSE [server[i] EXCEPT !.e = Updated(@, Diff(job.from, job.to))]]

Accepts(job) ==
    job.do = "update" =>
        \A i \in DOMAIN server : server[i].id = job.id => CanSet(server[i].e, Diff(job.from, job.to))

----------------------------------------------------------------------------
(* The draft.                                                                   *)

Original == IF ~inserting /\ selected # 0 /\ selected <= Len(docs) THEN docs[selected] ELSE None

Dirty == draft # None /\ (inserting \/ (Original # None /\ draft # Original))

\* onChange of the tree, or of a text that parses.
Edit(e) ==
    /\ draft # None /\ asking = None /\ edits < plan.edits
    /\ edits' = edits + 1
    /\ draft' = [draft EXCEPT !.e = e]
    /\ UNCHANGED <<plan, server, docs, selected, inserting, loading, saving, jobs, asking, saves,
                   others, uses>>

Any == {[t |-> "value", v |-> v] : v \in Values} \cup {Object(<<>>)}

\* setValue(), addEntry(), removeEntry() and renameField(), in the document or an object of it.
Changed(e) ==
    {With(e, k, v) : k \in Keys, v \in Any}
    \cup {But(e, k) : k \in DOMAIN e}
    \cup {With(But(e, p[1]), p[2], e[p[1]]) :
              p \in {q \in (DOMAIN e) \X Keys : q[2] \notin DOMAIN e}}

EditSomething ==
    /\ draft # None
    /\ \/ \E e \in Changed(draft.e) : Edit(e)
       \/ \E k \in DOMAIN draft.e : /\ IsObject(draft.e[k])
                                    /\ \E e \in Changed(draft.e[k].e) : Edit(With(draft.e, k, Object(e)))

\* "Revert".
Revert ==
    /\ Dirty /\ asking = None
    /\ draft' = IF inserting THEN [id |-> None, e |-> <<>>] ELSE Original
    /\ UNCHANGED <<plan, server, docs, selected, inserting, loading, saving, jobs, asking, edits, saves,
                   others, uses>>

\* What is done once discardOk() is true, with what the click has captured.
Done(q) ==
    CASE q.what = "select" ->
             /\ inserting' = FALSE /\ selected' = q.index
             /\ draft' = q.docs[q.index] /\ UNCHANGED loading
      [] q.what = "insert" ->
             /\ inserting' = TRUE /\ draft' = [id |-> None, e |-> q.docs[1].e]
             /\ UNCHANGED <<selected, loading>>
      [] q.what = "refresh" ->
             /\ loading' = TRUE /\ UNCHANGED <<inserting, selected, draft>>

Question(what, index, page) == [what |-> what, index |-> index, docs |-> page]

\* What may be clicked: another document, a new one, a copy of this one, and "Refresh".
Clicks ==
    {Question("select", i, docs) : i \in {j \in DOMAIN docs : j # selected \/ inserting}}
    \cup {Question("insert", 0, <<[id |-> None, e |-> <<>>]>>)}
    \cup (IF Original = None THEN {} ELSE {Question("insert", 0, <<Original>>)})
    \cup {Question("refresh", 0, <<>>)}

Click ==
    /\ asking = None /\ uses < plan.uses
    /\ uses' = uses + 1
    /\ \E q \in Clicks :
          IF Dirty THEN asking' = q /\ UNCHANGED <<inserting, selected, draft, loading>>
          ELSE Done(q) /\ UNCHANGED asking
    /\ UNCHANGED <<plan, server, docs, saving, jobs, edits, saves, others>>

Answer(discard) ==
    /\ asking # None
    /\ asking' = None
    /\ IF discard THEN Done(asking) ELSE UNCHANGED <<inserting, selected, draft, loading>>
    /\ UNCHANGED <<plan, server, docs, saving, jobs, edits, saves, others, uses>>

----------------------------------------------------------------------------
(* Saving.                                                                      *)

Send(job) == saves < plan.saves /\ saves' = saves + 1 /\ jobs' = Append(jobs, job)
Job(what, id, of, from, to) == [do |-> what, id |-> id, of |-> of, from |-> from, to |-> to]

\* save().
Save ==
    /\ Dirty /\ ~saving /\ asking = None
    /\ IF inserting THEN Send(Job("insert", InsertedId, None, <<>>, draft.e))
       ELSE /\ SameId(Original, draft) /\ Original.e # draft.e
            /\ Send(Job("update", Original.id, draft.id, Original.e, draft.e))
    /\ saving' = TRUE
    /\ UNCHANGED <<plan, server, docs, selected, inserting, draft, loading, asking, edits, others, uses>>

\* remove(), once it is confirmed.
Remove ==
    /\ Original # None /\ asking = None
    /\ Send(Job("delete", Original.id, None, <<>>, <<>>))
    /\ UNCHANGED <<plan, server, docs, selected, inserting, draft, loading, saving, asking, edits,
                   others, uses>>

Rest(k) == [i \in 1 .. Len(jobs) - 1 |-> IF i < k THEN jobs[i] ELSE jobs[i + 1]]

\* A statement has been executed, and its outcome is there: the page is read again.
Executed(k) ==
    /\ Accepts(jobs[k])
    /\ server' = After(jobs[k])
    /\ jobs' = Rest(k)
    /\ saving' = (saving /\ jobs[k].do = "delete")
    /\ draft' = IF jobs[k].do = "delete" THEN None ELSE draft
    /\ loading' = TRUE
    /\ UNCHANGED <<plan, docs, selected, inserting, asking, edits, saves, others, uses>>

\* It has failed: the draft stays.
Failed(k) ==
    /\ jobs' = Rest(k)
    /\ saving' = (saving /\ jobs[k].do = "delete")
    /\ UNCHANGED <<plan, server, docs, selected, inserting, draft, loading, asking, edits, saves, others, uses>>

\* The answer of the last read asked for: the first document is the draft.
Loaded ==
    /\ loading
    /\ loading' = FALSE
    /\ docs' = server
    /\ selected' = IF server = <<>> THEN 0 ELSE 1
    /\ inserting' = FALSE
    /\ draft' = IF server = <<>> THEN None ELSE server[1]
    /\ UNCHANGED <<plan, server, saving, jobs, asking, edits, saves, others, uses>>

\* Or the read fails, and what was shown stays.
NotLoaded ==
    /\ loading
    /\ loading' = FALSE
    /\ UNCHANGED <<plan, server, docs, selected, inserting, draft, saving, jobs, asking, edits, saves,
                   others, uses>>

\* Another program changes a field, removes a document, or adds one that comes first.
Other ==
    /\ others < plan.others
    /\ others' = others + 1
    /\ \/ \E i \in DOMAIN server, k \in Keys, v \in Any :
             server' = [server EXCEPT ![i].e = With(@, k, v)]
       \/ \E i \in DOMAIN server : server' = SelectSeq(server, LAMBDA d : d.id # server[i].id)
       \/ server' = <<[id |-> AddedId, e |-> <<>>]>> \o server
    /\ UNCHANGED <<plan, docs, selected, inserting, draft, loading, saving, jobs, asking, edits, saves, uses>>

Init ==
    /\ plan \in Plans /\ server \in First
    /\ docs = server /\ selected = 1 /\ inserting = FALSE /\ draft = server[1]
    /\ loading = FALSE /\ saving = FALSE /\ jobs = <<>> /\ asking = None
    /\ edits = 0 /\ saves = 0 /\ others = 0 /\ uses = 0

Next ==
    \/ EditSomething \/ Revert \/ Click \/ Save \/ Remove \/ Loaded \/ NotLoaded \/ Other
    \/ \E discard \in BOOLEAN : Answer(discard)
    \/ \E k \in DOMAIN jobs : Executed(k) \/ Failed(k)

Spec == Init /\ [][Next]_vars

----------------------------------------------------------------------------
(* Properties.                                                                   *)

TypeOK ==
    /\ Cardinality({server[i].id : i \in DOMAIN server}) = Len(server)
    /\ selected \in Nat /\ inserting \in BOOLEAN /\ loading \in BOOLEAN
    /\ saving = (\E k \in DOMAIN jobs : jobs[k].do # "delete")

\* A field of e, or None.
Field(e, k) == IF k \in DOMAIN e THEN e[k] ELSE None
Fields(e) == IF e = None THEN <<>> ELSE IF IsObject(e) THEN e.e ELSE <<>>

\* What becomes of field k, by its values before and after the edit and now.
Merged(from, to, now, k) ==
    IF Field(from, k) = Field(to, k) THEN Field(now, k) ELSE Field(to, k)

\* The same, field by field, of a field that was and is an object.  What is in it now is a value, or
\* nothing: then it becomes an object only if a field of it has been given.
MergedIn(from, to, now, k) ==
    IF k \notin Visited(from, to) THEN Merged(from, to, now, k)
    ELSE LET inner(j) == Merged(from[k].e, to[k].e, Fields(Field(now, k)), j)
             all == {j \in Keys : inner(j) # None}
         IN  IF Field(now, k) \in {None} \cup {v \in Any : ~IsObject(v)} /\ all = {} THEN Field(now, k)
             ELSE Object([j \in all |-> inner(j)])

\* bsonDocument.ts: "Saving only the changes keeps every field that was not touched exactly as the
\* server has it": an update gives what has been edited, leaves the rest as other programs have
\* made it meanwhile, and is of the document that was shown.
KeptTheRest ==
    \A k \in DOMAIN jobs :
        jobs[k].do = "update" /\ jobs' = Rest(k) /\ server' # server =>
            \A i \in DOMAIN server :
                IF server[i].id # jobs[k].id THEN server'[i] = server[i]
                ELSE \A f \in Keys :
                        Field(server'[i].e, f) = MergedIn(jobs[k].from, jobs[k].to, server[i].e, f)

KeepsTheRest == [][KeptTheRest]_vars

\* The fields that are sent are those of the document they are written to.
SameDocument == \A k \in DOMAIN jobs : jobs[k].do = "update" => jobs[k].id = jobs[k].of
=============================================================================
