------------------------------ MODULE Dropzone ------------------------------
(***************************************************************************)
(* The upload queue of the storage page: dropzone.js as view.html sets it  *)
(* up (one file per request, files queued and processed by themselves).    *)
(*                                                                         *)
(* JavaScript runs one task at a time, so a step of this module is a task  *)
(* of the event loop: an event handler of the user, a timer, the end of a  *)
(* request.  Only the handler that adds a list of files is cut into one    *)
(* step per file; `batch' is the rest of the list, and while there is one  *)
(* nothing else runs.  Everything a task calls is part of its step, the    *)
(* listeners of the page included: `canceled' removes the file,            *)
(* `removedfile' posts to remove/, `queuecomplete' reloads the page.       *)
(***************************************************************************)
EXTENDS Naturals, Sequences, FiniteSets, SequencesExt

CONSTANTS
    Files,            \* File objects; one object is added at most once
    ParallelUploads,  \* options.parallelUploads
    TooBig,           \* files over options.maxFilesize
    Hidden            \* files whose name starts with a dot

ASSUME FilesAssumption == IsFiniteSet(Files) /\ TooBig \subseteq Files /\ Hidden \subseteq Files
ASSUME ParallelAssumption == ParallelUploads \in Nat \ {0}

VARIABLES
    files,     \* this.files
    status,    \* file.status; "none" before addFile
    wire,      \* files whose XMLHttpRequest is open
    timers,    \* callbacks of setTimeout(.., 0) in the order they were set
    batch,     \* files of the running drop or change handler still to be added
    reading,   \* files of dropped directories that entry.file will deliver
    shown,     \* files whose preview is in the document
    posts,     \* requests to remove/ on behalf of a file
    leaving,   \* location.reload() was called, the document still runs
    late       \* history: files queued after queuecomplete had been decided

vars == <<files, status, wire, timers, batch, reading, shown, posts, leaving, late>>

Statuses == {"none", "queued", "uploading", "canceled", "error", "success"}
Callbacks == {"processQueue", "queuecomplete"}

(***************************************************************************)
(* getFilesWithStatus looks only at this.files: a file that was removed    *)
(* while it was queued keeps its status and is not found any more.         *)
(***************************************************************************)
WithStatus(fs, st, s) == {f \in ToSet(fs) : st[f] = s}
Queued(fs, st) == WithStatus(fs, st, "queued")
Uploading(fs, st) == WithStatus(fs, st, "uploading")
Active(fs, st) == Queued(fs, st) \cup Uploading(fs, st)

\* Mutant of UpTo: the files queued last come first.
DownTo(fs, st, f) ==
    {g \in Queued(fs, st) : \E i, j \in DOMAIN fs : i >= j /\ fs[i] = g /\ fs[j] = f}

\* The queued files up to and including f, in the order of this.files.
UpTo(fs, st, f) ==
    {g \in Queued(fs, st) : \E i, j \in DOMAIN fs : i <= j /\ fs[i] = g /\ fs[j] = f}

\* Mutant of NextUp: the uploads that are running do not count.
FirstQueued(fs, st) ==
    {f \in Queued(fs, st) : Cardinality(UpTo(fs, st, f)) <= ParallelUploads}

\* What processQueue starts: the first queued files, as many as there are free slots.
NextUp(fs, st) ==
    {f \in Queued(fs, st) :
        Cardinality(UpTo(fs, st, f)) + Cardinality(Uploading(fs, st)) <= ParallelUploads}

\* Mutant of ProcessQueue: a state that getUploadingFiles does not know.
ProcessQueueAsProcessing(fs, st, open) ==
    LET started == NextUp(fs, st)
    IN  /\ status' = [f \in Files |-> IF f \in started THEN "processing" ELSE st[f]]
        /\ wire' = open \cup started

\* processQueue() ends every task that calls it.  fs, st and open are the list,
\* the states and the open requests when it is called.
ProcessQueue(fs, st, open) ==
    LET started == NextUp(fs, st)
    IN  /\ status' = [f \in Files |-> IF f \in started THEN "uploading" ELSE st[f]]
        /\ wire' = open \cup started

\* Mutant of EmitComplete: only running uploads keep the queue from being done.
EmitCompleteIfIdle(fs, st) ==
    IF Uploading(fs, st) = {} THEN Append(timers, "queuecomplete") ELSE timers

\* The listener of `complete' that decides whether the queue is done.
EmitComplete(fs, st) ==
    IF Uploading(fs, st) = {} /\ Queued(fs, st) = {}
    THEN Append(timers, "queuecomplete")
    ELSE timers

\* Mutant of EndOf: the queue is not processed again.
EndOfWithoutNext(fs, f, outcome) ==
    LET st == [status EXCEPT ![f] = outcome]
    IN  /\ timers' = EmitComplete(fs, st)
        /\ status' = st
        /\ wire' = wire \ {f}

\* Mutant of EndOf: `complete' is emitted before the state is set.
EndOfTooEarly(fs, f, outcome) ==
    LET st == [status EXCEPT ![f] = outcome]
    IN  /\ timers' = EmitComplete(fs, status)
        /\ ProcessQueue(fs, st, wire \ {f})

\* _finished and _errorProcessing of one file, in the list fs.
EndOf(fs, f, outcome) ==
    LET st == [status EXCEPT ![f] = outcome]
    IN  /\ timers' = EmitComplete(fs, st)
        /\ ProcessQueue(fs, st, wire \ {f})

Without(list, f) ==
    IF f \in ToSet(list)
    THEN RemoveAt(list, CHOOSE i \in DOMAIN list : list[i] = f)
    ELSE list

\* Mutant of EmitRemovedFile: a preview without parent is no error.
EmitRemovedFileAlways(doc, f) ==
    [shown |-> doc.shown \ {f}, posts |-> [doc.posts EXCEPT ![f] = @ + 1]]

\* emit("removedfile"): the library's listener takes the preview out of its
\* parent, and throws when it has none; the page's listener comes after it.
EmitRemovedFile(doc, f) ==
    IF f \in doc.shown
    THEN [shown |-> doc.shown \ {f}, posts |-> [doc.posts EXCEPT ![f] = @ + 1]]
    ELSE doc

-----------------------------------------------------------------------------
Init ==
    /\ files = <<>>
    /\ status = [f \in Files |-> "none"]
    /\ wire = {}
    /\ timers = <<>>
    /\ batch = <<>>
    /\ reading = {}
    /\ shown = {}
    /\ posts = [f \in Files |-> 0]
    /\ leaving = FALSE
    /\ late = {}

Idle == batch = <<>>
Fresh == {f \in Files : status[f] = "none"} \ reading

\* The user picks files or drops them: handleFiles, or the change listener of
\* the hidden input.
Choose ==
    /\ Idle
    /\ \E S \in SUBSET Fresh : \E b \in SetToSeqs(S) : batch' = b
    /\ batch' # <<>>
    /\ UNCHANGED <<files, status, wire, timers, reading, shown, posts, leaving, late>>

\* A directory is dropped.  readEntries is called once for each directory: S is
\* what these calls deliver, which need not be all there is.
ChooseDirectory ==
    /\ Idle
    /\ \E S \in SUBSET Fresh \ {{}} : reading' = reading \cup S
    /\ UNCHANGED <<files, status, wire, timers, batch, shown, posts, leaving, late>>

Closing == leaving \/ "queuecomplete" \in ToSet(timers)

\* addFile, with accept and its callback, which run at once.
AddFile(f) ==
    /\ files' = Append(files, f)
    /\ shown' = shown \cup {f}
    /\ \/ /\ f \in TooBig
          /\ EndOf(Append(files, f), f, "error")
          /\ UNCHANGED late
       \/ /\ f \notin TooBig
          /\ status' = [status EXCEPT ![f] = "queued"]
          /\ timers' = Append(timers, "processQueue")
          /\ late' = IF Closing THEN late \cup {f} ELSE late
          /\ UNCHANGED wire
    /\ UNCHANGED <<posts, leaving>>

AddNext ==
    /\ batch # <<>>
    /\ AddFile(Head(batch))
    /\ batch' = Tail(batch)
    /\ UNCHANGED reading

\* entry.file delivers a file of a directory; hidden ones are skipped.
EntryRead(f) ==
    /\ Idle
    /\ f \in reading
    /\ reading' = reading \ {f}
    /\ \/ f \notin Hidden /\ AddFile(f)
       \/ f \in Hidden /\ UNCHANGED <<files, status, wire, timers, shown, posts, leaving, late>>
    /\ UNCHANGED batch

\* entry.file has no error callback: a file that cannot be read is forgotten.
EntryFails(f) ==
    /\ Idle
    /\ f \in reading
    /\ reading' = reading \ {f}
    /\ UNCHANGED <<files, status, wire, timers, batch, shown, posts, leaving, late>>

StartQueued ==
    /\ Idle
    /\ timers # <<>> /\ Head(timers) = "processQueue"
    /\ timers' = Tail(timers)
    /\ ProcessQueue(files, status, wire)
    /\ UNCHANGED <<files, batch, reading, shown, posts, leaving, late>>

\* The page's listener of queuecomplete.
QueueComplete ==
    /\ Idle
    /\ timers # <<>> /\ Head(timers) = "queuecomplete"
    /\ timers' = Tail(timers)
    /\ leaving' = TRUE
    /\ UNCHANGED <<files, status, wire, batch, reading, shown, posts, late>>

\* xhr.onload with a status of 2xx or another one, and xhr.onerror.
UploadEnds(f) ==
    /\ Idle
    /\ f \in wire
    /\ status[f] # "canceled"
    /\ \E outcome \in {"success", "error"} : EndOf(files, f, outcome)
    /\ UNCHANGED <<files, batch, reading, shown, posts, leaving, late>>

\* removeFile for a file that has no request.
TakeOut(f) ==
    LET doc == EmitRemovedFile([shown |-> shown, posts |-> posts], f)
    IN  /\ Idle
        /\ f \in shown
        /\ files' = Without(files, f)
        /\ shown' = doc.shown
        /\ posts' = doc.posts
        /\ UNCHANGED <<status, wire, timers, batch, reading, leaving, late>>

\* The remove link of a file that is not being uploaded.
RemoveFile(f) == status[f] # "uploading" /\ TakeOut(f)

(***************************************************************************)
(* The cancel link of a file that is being uploaded.  removeFile calls     *)
(* cancelUpload, which aborts the request and emits `canceled'; the        *)
(* library's listeners of that emit `error' and `complete', the page's     *)
(* calls removeFile for the same file.  Then cancelUpload processes the    *)
(* queue, and the outer removeFile emits `removedfile' once more.          *)
(***************************************************************************)
Cancel(f) ==
    LET st == [status EXCEPT ![f] = "canceled"]
        inner == EmitRemovedFile([shown |-> shown, posts |-> posts], f)
        outer == EmitRemovedFile(inner, f)
    IN  /\ Idle
        /\ f \in shown
        /\ status[f] = "uploading"
        /\ timers' = EmitComplete(files, st)
        /\ files' = Without(files, f)
        /\ ProcessQueue(Without(files, f), st, wire \ {f})
        /\ shown' = outer.shown
        /\ posts' = outer.posts
        /\ UNCHANGED <<batch, reading, leaving, late>>

\* The reloaded page replaces the document; what the old one had open is aborted.
Commit ==
    /\ Idle
    /\ leaving
    /\ files' = <<>>
    /\ status' = [f \in Files |-> "none"]
    /\ wire' = {}
    /\ timers' = <<>>
    /\ reading' = {}
    /\ shown' = {}
    /\ posts' = [f \in Files |-> 0]
    /\ leaving' = FALSE
    /\ late' = {}
    /\ UNCHANGED batch

UserStep == Choose \/ ChooseDirectory \/ \E f \in Files : RemoveFile(f) \/ Cancel(f)
BrowserStep ==
    \/ AddNext \/ StartQueued \/ QueueComplete \/ Commit
    \/ \E f \in Files : EntryRead(f) \/ EntryFails(f) \/ UploadEnds(f)
Next == UserStep \/ BrowserStep

Spec == Init /\ [][Next]_vars

\* The event loop runs what is due, every request ends (answered or failed), and
\* a reload is carried out.  Nothing is assumed of the user.
Fairness ==
    /\ WF_vars(AddNext) /\ WF_vars(StartQueued) /\ WF_vars(QueueComplete) /\ WF_vars(Commit)
    /\ \A f \in Files : WF_vars(UploadEnds(f)) /\ WF_vars(EntryRead(f) \/ EntryFails(f))
FairSpec == Spec /\ Fairness

-----------------------------------------------------------------------------
TypeOK ==
    /\ files \in Seq(Files)
    /\ status \in [Files -> Statuses]
    /\ wire \subseteq Files
    /\ timers \in Seq(Callbacks)
    /\ batch \in Seq(Files)
    /\ reading \subseteq Files
    /\ shown \subseteq Files
    /\ posts \in [Files -> Nat]
    /\ leaving \in BOOLEAN
    /\ late \subseteq Files

(***************************************************************************)
(* A queued file never waits for nothing: all slots are taken, or a call   *)
(* of processQueue is due.  Six paths change what is queued or uploading   *)
(* (added, rejected, finished, failed, cancelled, removed) and each has to *)
(* leave the queue in this state.                                          *)
(***************************************************************************)
NoStall ==
    Queued(files, status) # {} =>
        \/ Cardinality(Uploading(files, status)) = ParallelUploads
        \/ "processQueue" \in ToSet(timers)

\* At most parallelUploads requests are open, whatever order requests end, files
\* are cancelled and timers run in.
ParallelLimit == Cardinality(wire) <= ParallelUploads

(***************************************************************************)
(* The open requests are those of the listed files that are marked as      *)
(* being uploaded: a cancelled or removed file leaves no request behind,   *)
(* and no file stays marked without a request that will end it.            *)
(***************************************************************************)
NoOrphans == wire = Uploading(files, status)

\* The files of the list are the ones with a preview, and a file that was taken
\* out of the list has been reported to remove/ exactly once, although cancelling
\* emits `removedfile' twice.
OneRemoval ==
    /\ shown = ToSet(files)
    /\ \A f \in Files : posts[f] = IF status[f] # "none" /\ f \notin shown THEN 1 ELSE 0

(***************************************************************************)
(* When everything listed is finished, the page knows: a reload is under   *)
(* way or decided.  `complete' is emitted before the next files start and  *)
(* not at all for a file removed while it was queued, so the last event to *)
(* find the queue empty has to come, on every order of ends and removals.  *)
(***************************************************************************)
Completion == files # <<>> /\ Active(files, status) = {} => Closing

(***************************************************************************)
(* The reload interrupts no file that had been added when it was decided.  *)
(* (Files added afterwards, while the timer or the reload is pending, are  *)
(* lost: that is what the page does.)                                      *)
(***************************************************************************)
OnlyLateLost == Closing => Active(files, status) \subseteq late

(***************************************************************************)
(* The inductive invariant.  Arrivals: a file is listed once and is new    *)
(* when it is added.  Settled strengthens Completion: as soon as one       *)
(* listed file is finished and none is being uploaded, the page knows,     *)
(* even when files were queued since.                                      *)
(***************************************************************************)
Arrivals ==
    /\ IsInjective(files) /\ IsInjective(batch)
    /\ ToSet(batch) \cap reading = {}
    /\ \A f \in ToSet(batch) \cup reading : status[f] = "none"
    /\ \A f \in ToSet(files) : status[f] # "none"
    /\ \A f \in Files : status[f] = "uploading" => f \in ToSet(files)

Settled ==
    /\ \E f \in ToSet(files) : status[f] \notin {"queued", "uploading"}
    /\ Uploading(files, status) = {}
    => Closing

IInv ==
    /\ TypeOK /\ Arrivals /\ NoStall /\ ParallelLimit /\ NoOrphans
    /\ OneRemoval /\ Settled /\ OnlyLateLost

-----------------------------------------------------------------------------
\* Every queued file leaves the queue: it is started, or removed, or its page is reloaded.
QueuedLeaves == \A f \in Files : f \in Queued(files, status) ~> f \notin Queued(files, status)

\* When all uploads are finished the user is shown the new list of files, unless
\* more files are added or the finished ones removed.
FinishedReloads ==
    (files # <<>> /\ Active(files, status) = {}) ~> (files = <<>> \/ Active(files, status) # {})

-----------------------------------------------------------------------------
\* f comes before g in the list.
Precedes(fs, f, g) == \E i, j \in DOMAIN fs : i < j /\ fs[i] = f /\ fs[j] = g

\* The queued files in the order of this.files.
QueueOrder(fs, st) ==
    {p \in Queued(fs, st) \X Queued(fs, st) : Precedes(fs, p[1], p[2])}

\* What the library promises: a pool of ParallelUploads workers fed by a queue.
Pool == INSTANCE UploadPool WITH
    waiting <- Queued(files, status),
    before <- QueueOrder(files, status),
    active <- Uploading(files, status),
    Slots <- ParallelUploads
ImplementsPool == Pool!Spec
=============================================================================
