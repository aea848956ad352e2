------------------------------ MODULE FileEditor ------------------------------
(* A file in an editor tab, on both sides of the process boundary: the tab of   *)
(* packages/ui/src/dbstudio/useDbStudio.ts with its recovery copy (journal.ts)  *)
(* and the file of packages/file-engine/src/host.ts, saved by writer.ts and     *)
(* replace.ts.  The host answers a request and reports the end of an index over *)
(* one ordered channel, so a tab has an inbox.  Others (another program, the    *)
(* other tab) may replace a file on disk at any moment.                         *)
(*                                                                              *)
(* A text is the set of changes in it: a fresh number is a change nobody made   *)
(* before, and stamps (size and modification time) are fresh with every write.  *)
(* Not modelled: searches, the list of statements, copies to the clipboard, a   *)
(* recovery copy too large to keep, an index that cannot be read.               *)
EXTENDS Naturals, Sequences, FiniteSets

CONSTANTS
    Tabs,   \* tabs, and the ids of their files: one is used once
    Paths,  \* the files on disk
    Plans,  \* how much of what happens: see Spend
    Clock,  \* the greatest number of changes and writes of any plan
    None

FileEditorAssumption ==
    /\ IsFiniteSet(Tabs) /\ IsFiniteSet(Paths) /\ Clock \in Nat
    /\ Plans \subseteq [tabs : Nat, edits : Nat, saves : Nat, others : Nat, faults : Nat, lost : Nat, modes : Nat]

Text == SUBSET (0 .. Clock)
Doc == [over : Text, now : Text]          \* what was read or saved, and what it was made into
Kept == [stamp : 0 .. Clock, mode : {"text", "viewer"}, doc : Doc]

VARIABLES
    plan,     \* what is left of it
    clock,    \* the last change or write
    disk,     \* disk[p]: what is stored, and when it was written
    journal,  \* journal[p]: the recovery copy kept for it, if any
    tab,      \* tab[i]: the tab as the window has it
    file,     \* file[i]: the open file as the host has it
    job,      \* job[i]: the save or replacement the host is at
    inbox,    \* inbox[i]: what the host sent and the window has not handled
    loose     \* changes nobody can place: made or taken back while a write was under way

vars == <<plan, clock, disk, journal, tab, file, job, inbox, loose>>

NoTab == [at |-> "unopened", path |-> None, stamp |-> 0, mode |-> "viewer", text |-> None,
          table |-> None, offered |-> None, working |-> FALSE, reading |-> "no", timer |-> FALSE,
          plain |-> TRUE]
Gone == [NoTab EXCEPT !.at = "gone"]
NoFile == [held |-> FALSE, path |-> None, open |-> FALSE, text |-> {}, stamp |-> 0, scan |-> "none"]
NoJob == [phase |-> "none", what |-> "none", mode |-> "viewer", doc |-> None, target |-> None,
          failed |-> FALSE]

TypeOK ==
    /\ plan \in [tabs : Nat, edits : Nat, saves : Nat, others : Nat, faults : Nat, lost : Nat, modes : Nat]
    /\ clock \in 0 .. Clock /\ loose \in Text
    /\ disk \in [Paths -> [text : Text, stamp : 0 .. Clock]]
    /\ journal \in [Paths -> Kept \cup {None}]
    /\ tab \in [Tabs -> [at : {"unopened", "opening", "open", "gone"}, path : Paths \cup {None},
                         stamp : 0 .. Clock, mode : {"text", "viewer"}, text : Doc \cup {None},
                         table : Doc \cup {None}, offered : Kept \cup {None}, working : BOOLEAN,
                         reading : {"no", "open", "mode", "replaced"}, timer : BOOLEAN,
                         plain : BOOLEAN]]
    /\ file \in [Tabs -> [held : BOOLEAN, path : Paths \cup {None}, open : BOOLEAN, text : Text,
                          stamp : 0 .. Clock, scan : {"none", "running", "ready"}]]
    /\ \A i \in Tabs : job[i].phase \in {"none", "checking", "writing", "replacing", "reloading",
                                         "reopening", "answering"}
    /\ \A i \in Tabs : \A k \in DOMAIN inbox[i] : inbox[i][k].kind \in {"ready", "saved", "refused"}

Init ==
    /\ plan \in Plans /\ clock = 0 /\ loose = {}
    /\ disk = [p \in Paths |-> [text |-> {}, stamp |-> 0]]
    /\ journal = [p \in Paths |-> None]
    /\ tab = [i \in Tabs |-> NoTab]
    /\ file = [i \in Tabs |-> NoFile]
    /\ job = [i \in Tabs |-> NoJob]
    /\ inbox = [i \in Tabs |-> <<>>]

Spend(what) == plan[what] > 0 /\ plan' = [plan EXCEPT ![what] = @ - 1]
Fresh == clock < Clock /\ clock' = clock + 1
Send(i, message) == inbox' = [inbox EXCEPT ![i] = IF tab[i].at = "open" THEN Append(@, message) ELSE @]

-----------------------------------------------------------------------------
(* The tab's document.                                                          *)

Clean(text) == [over |-> text, now |-> text]
IsOpen(i) == tab[i].at = "open"

\* What the tab's editor edits.
Edited(i) == IF tab[i].mode = "text" THEN tab[i].text ELSE tab[i].table

\* Whether the tab has changes that are not on disk, as far as it knows.
Dirty(i) == Edited(i) # None /\ Edited(i).now # Edited(i).over

\* The recovery copy, if it was made for the file as it is now; any other is dropped.
Fits(p, stamp) == journal[p] # None /\ journal[p].stamp = stamp
OfferedFor(p, stamp) == IF Fits(p, stamp) THEN journal[p] ELSE None
ReadJournal(p, stamp) ==
    journal' = [journal EXCEPT ![p] = IF Fits(p, stamp) THEN @ ELSE None]

Difference(a, b) == (a \ b) \cup (b \ a)

\* What becomes loose when a document changes.
Unplaced(i, was, now) == IF tab[i].working THEN Difference(was, now) ELSE was \ now

\* Somebody is writing a file: a change of it now is not noticed.
IsWriting(i, p) == job[i].phase # "none" /\ p \in {job[i].target, file[i].path}
WrittenBeside(i, p) == \E j \in Tabs \ {i} : IsWriting(j, p)

\* The editor was switched while the file was written: the text was read too early.
Switched(i) == job[i].phase = "reloading" /\ job[i].mode # tab[i].mode

\* Two tabs of one file share its recovery copy, which only properties look at.
Beside(i, tabs) ==
    LET Meets(j) == \E k \in Tabs \ {j} : i \in {j, k} /\ tabs[k].at = "open" /\ tabs[j].path = tabs[k].path
    IN  [j \in Tabs |-> IF tabs[j].at = "open" /\ Meets(j) THEN [tabs[j] EXCEPT !.plain = FALSE] ELSE tabs[j]]

-----------------------------------------------------------------------------
(* Opening, in the host and in the window.                                      *)

\* The file is browsable at once; its index is built behind it.
Attached(held, p) == [held |-> held, path |-> p, open |-> TRUE, text |-> disk[p].text,
                      stamp |-> disk[p].stamp, scan |-> "running"]

\* One file is opened at a time; a small one is read whole for the text editor, unless only a
\* preview is asked for.
Open(i, p) ==
    /\ i <= plan.tabs /\ tab[i].at = "unopened"
    /\ \A j \in Tabs : tab[j].at # "opening" /\ tab[j].reading # "open"
    /\ \A j \in Tabs : j < i => tab[j].at # "unopened"
    /\ file' = [file EXCEPT ![i] = Attached(TRUE, p)]
    /\ \E reading \in {"no", "open"} :
           tab' = [tab EXCEPT ![i] = [@ EXCEPT !.at = "opening", !.path = p, !.reading = reading]]
    /\ UNCHANGED <<plan, clock, disk, journal, job, inbox, loose>>

Opened(i) ==
    /\ tab[i].at = "opening"
    /\ tab' = Beside(i, [tab EXCEPT ![i].at = "open", ![i].stamp = file[i].stamp])
    /\ UNCHANGED <<plan, clock, disk, journal, file, job, inbox, loose>>

\* The end of the index is told to the window, which drops it when the tab is not there yet.
ScanDone(i) ==
    /\ file[i].scan = "running"
    /\ file' = [file EXCEPT ![i].scan = "ready"]
    /\ Send(i, [kind |-> "ready", over |-> file[i].text])
    /\ UNCHANGED <<plan, clock, disk, journal, tab, job, loose>>

\* The whole text arrives: at open, when the editor is switched, or after a replacement.
TextRead(i) ==
    /\ IsOpen(i) /\ tab[i].reading # "no" /\ file[i].open
    /\ LET read == [tab[i] EXCEPT !.text = Clean(file[i].text), !.reading = "no"]
           p == tab[i].path
       IN  \/ /\ tab[i].reading = "open"
              /\ tab' = [tab EXCEPT ![i] = [read EXCEPT !.mode = "text",
                                                !.offered = OfferedFor(p, tab[i].stamp)]]
              /\ ReadJournal(p, tab[i].stamp)
           \/ /\ tab[i].reading # "open"
              /\ tab' = [tab EXCEPT ![i] =
                     [read EXCEPT !.mode = IF tab[i].reading = "mode" THEN "text" ELSE @]]
              /\ UNCHANGED journal
    /\ UNCHANGED <<plan, clock, disk, file, job, inbox, loose>>

\* Only between the release of the old file and the reopening of the new one.
TextRefused(i) ==
    /\ IsOpen(i) /\ tab[i].reading # "no" /\ ~file[i].open
    /\ tab' = [tab EXCEPT ![i].reading = "no"]
    /\ UNCHANGED <<plan, clock, disk, journal, file, job, inbox, loose>>

-----------------------------------------------------------------------------
(* Editing.                                                                     *)

\* Lines cannot be edited while the tab works; the text editor does not ask.
\* Nobody edits or asks for a write while the text itself is on its way: a matter of milliseconds.
MayEdit(i) == tab[i].reading = "no" /\ (tab[i].mode = "viewer" => ~tab[i].working)

\* Something is typed or taken back; the recovery copy is written when the typing stops.
Edit(i) ==
    /\ IsOpen(i) /\ Edited(i) # None /\ MayEdit(i)
    /\ Spend("edits")
    /\ \E now \in {Edited(i).now \cup {clock + 1}} \cup {Edited(i).now \ {m} : m \in Edited(i).now} :
           /\ IF clock + 1 \in now THEN Fresh ELSE UNCHANGED clock
           /\ LET typed == [tab[i] EXCEPT !.timer = TRUE, !.plain = @ /\ tab[i].offered = None]
              IN  tab' = [tab EXCEPT ![i] = IF tab[i].mode = "text"
                                            THEN [typed EXCEPT !.text.now = now]
                                            ELSE [typed EXCEPT !.table.now = now]]
           /\ loose' = loose \cup Unplaced(i, Edited(i).now, now)
    /\ UNCHANGED <<disk, journal, file, job, inbox>>

\* The recovery copy holds what is not saved, and nothing once all is.
JournalTimer(i) ==
    /\ IsOpen(i) /\ tab[i].timer
    /\ tab' = [tab EXCEPT ![i].timer = FALSE]
    /\ journal' = [journal EXCEPT ![tab[i].path] =
           IF Dirty(i) THEN [stamp |-> tab[i].stamp, mode |-> tab[i].mode, doc |-> Edited(i)]
                       ELSE None]
    /\ UNCHANGED <<plan, clock, disk, file, job, inbox, loose>>

\* The offered copy goes to the text if it is one, or over the lines whatever is shown; it is
\* not written again.
Restore(i) ==
    /\ IsOpen(i) /\ tab[i].offered # None
    /\ LET kept == tab[i].offered
           into == IF kept.mode = "text" THEN tab[i].text ELSE tab[i].table
           taken == [tab[i] EXCEPT !.offered = None, !.plain = @ /\ kept.mode = tab[i].mode]
       IN  /\ into # None
           /\ tab' = [tab EXCEPT ![i] = IF kept.mode = "text"
                                         THEN [taken EXCEPT !.text.now = kept.doc.now]
                                         ELSE [taken EXCEPT !.table.now = kept.doc.now]]
           /\ loose' = loose \cup Unplaced(i, into.now, kept.doc.now)
    /\ UNCHANGED <<plan, clock, disk, journal, file, job, inbox>>

Discard(i) ==
    /\ IsOpen(i) /\ tab[i].offered # None
    /\ tab' = [tab EXCEPT ![i].offered = None]
    /\ journal' = [journal EXCEPT ![tab[i].path] = None]
    /\ UNCHANGED <<plan, clock, disk, file, job, inbox, loose>>

\* The other editor; to the text only once it was read.
SetMode(i) ==
    /\ IsOpen(i) /\ ~Dirty(i) /\ tab[i].reading = "no" /\ Spend("modes")
    /\ tab' = [tab EXCEPT ![i] =
           IF tab[i].mode = "viewer" THEN [@ EXCEPT !.reading = "mode"]
                                     ELSE [@ EXCEPT !.mode = "viewer", !.text = None]]
    /\ UNCHANGED <<clock, disk, journal, file, job, inbox, loose>>

-----------------------------------------------------------------------------
(* Writing.  The window asks; the host checks, writes beside the file, releases *)
(* what it reads, renames and opens the new file under the old id.              *)

Ask(i, what, target) ==
    /\ IsOpen(i) /\ tab[i].reading = "no" /\ ~tab[i].working /\ Spend("saves")
    /\ tab' = [tab EXCEPT ![i].working = TRUE]
    /\ job' = [job EXCEPT ![i] = [phase |-> "checking", what |-> what, mode |-> tab[i].mode,
                                  doc |-> Edited(i), target |-> target, failed |-> FALSE]]
    /\ UNCHANGED <<clock, disk, journal, file, inbox, loose>>

\* In place, or as a copy to any file the dialog gives.
Save(i, target) == Edited(i) # None /\ Ask(i, "save", target)

Replace(i) == ~Dirty(i) /\ Ask(i, "replace", tab[i].path)

InPlace(i) == job[i].target = file[i].path

To(i, phase) == job' = [job EXCEPT ![i].phase = phase]
Refuse(i) == job' = [job EXCEPT ![i].phase = "answering", ![i].failed = TRUE]

\* Variant: the file is not looked at again before it is replaced.
RefusedUnlooked(i) == ~file[i].held

\* Refused when the file is not open any more, or was changed by somebody else.
Refused(i) == ~file[i].held \/ (InPlace(i) /\ disk[file[i].path].stamp # file[i].stamp)

Check(i) ==
    /\ job[i].phase = "checking"
    /\ IF Refused(i) THEN Refuse(i) ELSE To(i, "writing")
    /\ UNCHANGED <<plan, clock, disk, journal, tab, file, inbox, loose>>

\* What will be in the file: the text, or the edits of the lines made to what the host reads.
Content(i) ==
    LET doc == job[i].doc
    IN  IF job[i].mode = "text" THEN doc.now
        ELSE (file[i].text \ (doc.over \ doc.now)) \cup (doc.now \ doc.over)

\* Pieces need the lines of the file; a save needs its whole index.
CanWrite(i) ==
    /\ job[i].what = "save" => file[i].scan = "ready"
    /\ (job[i].what = "replace" \/ job[i].mode = "viewer") => file[i].open

\* After a failure in place the file is reopened, whether or not it was released.
Failed(i) == IF InPlace(i) THEN To(i, "reopening") ELSE Refuse(i)

Write(i) ==
    /\ job[i].phase = "writing"
    /\ \/ /\ CanWrite(i) /\ To(i, "replacing")
          /\ UNCHANGED plan
       \/ /\ CanWrite(i) /\ job[i].what = "replace" /\ To(i, "reloading")   \* nothing matched
          /\ UNCHANGED plan
       \/ /\ ~CanWrite(i) /\ Failed(i)
          /\ UNCHANGED plan
       \/ /\ CanWrite(i) /\ Failed(i)
          /\ Spend("faults")
    /\ UNCHANGED <<clock, disk, journal, tab, file, inbox, loose>>

Released(f) == [f EXCEPT !.open = FALSE, !.scan = "none"]
Let_go(i) == IF InPlace(i) THEN Released(file[i]) ELSE file[i]

\* A save writes its content, a replacement changes what the host reads.
Renamed(i) ==
    /\ job[i].phase = "replacing" /\ Fresh
    /\ LET p == job[i].target
           text == IF job[i].what = "save" THEN Content(i) ELSE file[i].text \cup {clock + 1}
       IN  /\ disk' = [disk EXCEPT ![p] = [text |-> text, stamp |-> clock + 1]]
           /\ loose' = IF WrittenBeside(i, p)
                       THEN loose \cup Difference(text, disk[p].text) \cup {clock + 1} ELSE loose
    /\ file' = [file EXCEPT ![i] = Let_go(i)]
    /\ To(i, "reloading")
    /\ UNCHANGED <<plan, journal, tab, inbox>>

RenameFails(i) ==
    /\ job[i].phase = "replacing" /\ Spend("faults")
    /\ file' = [file EXCEPT ![i] = Let_go(i)]
    /\ Failed(i)
    /\ UNCHANGED <<clock, disk, journal, tab, inbox, loose>>

\* The id stays, the content is the new one; a tab closed meanwhile is not noticed.
Reload(i) ==
    /\ job[i].phase \in {"reloading", "reopening"}
    /\ LET p == IF job[i].phase = "reloading" THEN job[i].target ELSE file[i].path
       IN  \/ /\ file' = [file EXCEPT ![i] = Attached(file[i].held, p)]
              /\ job' = [job EXCEPT ![i].phase = "answering", ![i].failed = (job[i].phase = "reopening")]
              /\ loose' = IF Switched(i) THEN loose \cup Difference(disk[p].text, file[i].text) ELSE loose
              /\ UNCHANGED plan
           \/ /\ file' = [file EXCEPT ![i] = Released(@)]
              /\ Refuse(i) /\ Spend("faults")
              /\ UNCHANGED loose
    /\ UNCHANGED <<clock, disk, journal, tab, inbox>>

Answer(i) ==
    /\ job[i].phase = "answering"
    /\ job' = [job EXCEPT ![i] = NoJob]
    /\ Send(i, IF job[i].failed THEN [kind |-> "refused"]
               ELSE [kind |-> "saved", what |-> job[i].what, mode |-> job[i].mode,
                     path |-> file[i].path, stamp |-> file[i].stamp])
    /\ UNCHANGED <<plan, clock, disk, journal, tab, file, loose>>

-----------------------------------------------------------------------------
(* What the window does with an answer or an event.                             *)

\* The index is complete: the document is edited over a fresh table.
HearReady(i, message) ==
    /\ message.kind = "ready"
    /\ LET fresh == [tab[i] EXCEPT !.table = Clean(message.over), !.plain = @ /\ ~tab[i].timer]
       IN  IF tab[i].mode = "viewer"
           THEN /\ tab' = [tab EXCEPT ![i] = [fresh EXCEPT !.offered = OfferedFor(tab[i].path, tab[i].stamp)]]
                /\ ReadJournal(tab[i].path, tab[i].stamp)
           ELSE tab' = [tab EXCEPT ![i] = fresh] /\ UNCHANGED journal

\* What the text is now counts as saved; the table is rebuilt when the new index is ready.
Saved(text) == IF text = None THEN None ELSE Clean(text.now)

\* Variant: the table of the old content is left until the new index is there.
AfterWriteOldTable(i, message) ==
    /\ message.kind = "saved"
    /\ journal' = [journal EXCEPT ![tab[i].path] = None]
    /\ tab' = Beside(i, [tab EXCEPT ![i] = [@ EXCEPT
           !.path = message.path, !.stamp = message.stamp, !.text = Saved(@),
           !.offered = None, !.working = FALSE, !.timer = FALSE,
           !.reading = IF message.what = "replace" /\ message.mode = "text" THEN "replaced" ELSE @]])

\* Variant: the tab keeps the stamp it was opened with.
AfterWriteOldStamp(i, message) ==
    /\ message.kind = "saved"
    /\ journal' = [journal EXCEPT ![tab[i].path] = None]
    /\ tab' = Beside(i, [tab EXCEPT ![i] = [@ EXCEPT
           !.path = message.path, !.table = None, !.text = Saved(@),
           !.offered = None, !.working = FALSE, !.timer = FALSE,
           !.reading = IF message.what = "replace" /\ message.mode = "text" THEN "replaced" ELSE @]])

AfterWrite(i, message) ==
    /\ message.kind = "saved"
    /\ journal' = [journal EXCEPT ![tab[i].path] = None]
    /\ tab' = Beside(i, [tab EXCEPT ![i] = [@ EXCEPT
           !.path = message.path, !.stamp = message.stamp, !.table = None, !.text = Saved(@),
           !.offered = None, !.working = FALSE, !.timer = FALSE,
           !.reading = IF message.what = "replace" /\ message.mode = "text" THEN "replaced" ELSE @]])

HearRefused(i, message) ==
    /\ message.kind = "refused"
    /\ tab' = [tab EXCEPT ![i].working = FALSE]
    /\ UNCHANGED journal

Hear(i) ==
    /\ IsOpen(i) /\ inbox[i] # <<>>
    /\ inbox' = [inbox EXCEPT ![i] = Tail(@)]
    /\ \/ HearReady(i, Head(inbox[i]))
       \/ AfterWrite(i, Head(inbox[i]))
       \/ HearRefused(i, Head(inbox[i]))
    /\ UNCHANGED <<plan, clock, disk, file, job, loose>>

-----------------------------------------------------------------------------
(* The end of a tab, and what nobody asked for.                                 *)

\* The host forgets the file; a write of it that is under way goes on.
Forget(S) == file' = [i \in Tabs |-> IF i \in S THEN [Released(file[i]) EXCEPT !.held = FALSE] ELSE file[i]]
Empty(S) == inbox' = [i \in Tabs |-> IF i \in S THEN <<>> ELSE inbox[i]]

\* A tab with unsaved changes asks first, which outlasts the timer, and leaves the copy.
Close(i) ==
    /\ IsOpen(i) /\ (Dirty(i) => ~tab[i].timer)
    /\ journal' = [journal EXCEPT ![tab[i].path] = IF Dirty(i) THEN @ ELSE None]
    /\ tab' = [tab EXCEPT ![i] = Gone]
    /\ Forget({i}) /\ Empty({i})
    /\ UNCHANGED <<plan, clock, disk, job, loose>>

Present == {i \in Tabs : tab[i].at \in {"opening", "open"}}
AllGone == tab' = [i \in Tabs |-> IF i \in Present THEN Gone ELSE tab[i]]

\* The window reloads or is closed: its files go with it.
WindowLost ==
    /\ Present # {} /\ Spend("lost")
    /\ AllGone /\ Forget(Present) /\ Empty(Present)
    /\ UNCHANGED <<clock, disk, journal, job, loose>>

\* The host dies with its files and its writes; the window drops the tabs.
HostLost ==
    /\ Present # {} /\ Spend("lost")
    /\ AllGone /\ Empty(Tabs)
    /\ file' = [i \in Tabs |-> NoFile] /\ job' = [i \in Tabs |-> NoJob]
    /\ UNCHANGED <<clock, disk, journal, loose>>

\* Another program replaces a file.
Others(p) ==
    /\ Spend("others") /\ Fresh
    /\ disk' = [disk EXCEPT ![p] = [text |-> @.text \cup {clock + 1}, stamp |-> clock + 1]]
    /\ loose' = IF \E i \in Tabs : IsWriting(i, p) THEN loose \cup {clock + 1} ELSE loose
    /\ UNCHANGED <<journal, tab, file, job, inbox>>

Next ==
    \/ \E i \in Tabs :
          \/ \E p \in Paths : Open(i, p) \/ Save(i, p)
          \/ Opened(i) \/ ScanDone(i) \/ TextRead(i) \/ TextRefused(i)
          \/ Edit(i) \/ JournalTimer(i) \/ Restore(i) \/ Discard(i) \/ SetMode(i)
          \/ Replace(i) \/ Check(i) \/ Write(i) \/ Renamed(i) \/ RenameFails(i)
          \/ Reload(i) \/ Answer(i) \/ Hear(i) \/ Close(i)
    \/ WindowLost \/ HostLost
    \/ \E p \in Paths : Others(p)

Spec == Init /\ [][Next]_vars

-----------------------------------------------------------------------------
(* Correctness.                                                                 *)

\* Nothing about the tab is under way.
Still(i) ==
    /\ IsOpen(i) /\ tab[i].reading = "no" /\ inbox[i] = <<>>
    /\ job[i].phase = "none" /\ file[i].open

\* What a tab takes for the content on disk is what the host reads for it: edits are never
\* shown over, or written to, another content than they were made on.
TabShowsTheFile ==
    \A i \in Tabs : Still(i) =>
        \A doc \in {Edited(i), tab[i].table} \ {None} :
            doc.over \ loose = file[i].text \ loose

\* A save in place never takes away what somebody else put in the file before it began.
KeepsWhatIsThere ==
    \A i \in Tabs : (job[i].phase = "replacing" /\ job'[i].phase = "reloading" /\ InPlace(i)) =>
        disk[job[i].target].text \ loose \subseteq disk'[job[i].target].text

\* Once the typing stopped, a tab with unsaved changes has them in the recovery copy, under the
\* stamp of the file it edits: a crash does not lose them.  (Two tabs of one file share one.)
DirtyIsKept ==
    \A i \in Tabs :
        (Still(i) /\ Dirty(i) /\ ~tab[i].timer /\ tab[i].plain /\ file[i].stamp \notin loose) =>
            journal[tab[i].path] = [stamp |-> file[i].stamp, mode |-> tab[i].mode, doc |-> Edited(i)]

\* A tab that says nothing is unsaved has its text in the file.
DirtyIsTrue ==
    \A i \in Tabs : (Still(i) /\ tab[i].mode = "text" /\ ~Dirty(i)) => tab[i].text.now = file[i].text

\* The least there is to do: one tab types and saves once.
OneSave == {[tabs |-> 1, edits |-> 1, saves |-> 1, others |-> 0, faults |-> 0, lost |-> 0, modes |-> 0]}
=============================================================================
