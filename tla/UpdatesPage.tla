------------------------------- MODULE UpdatesPage -------------------------------
(***************************************************************************)
(* The Updates page of the GUI: UpdatesModel, which evaluates the pending  *)
(* updates on a thread of its own, and SnapshotFileReader, which reads     *)
(* the snapshot that holonight-packaged publishes.  Both watch the disk,   *)
(* each at its own pace; UpdateCheckModel connects them, so what the page  *)
(* calls checked, and the age it gives it, come from two readings of one   *)
(* file.  Snapshots are numbered in the order of their fetchedAt.          *)
(***************************************************************************)
EXTENDS Naturals

CONSTANTS
  MaxChecks,    \* bound: snapshots published
  MaxChanges,   \* bound: changes of the databases and the configuration
  None          \* no snapshot, no time

ASSUME BoundsAssumption == MaxChecks \in Nat /\ MaxChanges \in Nat /\ None \notin Nat

\* What loadUpdates() has read so far and returns: an evaluation that used a checked repository
\* or none, an error, or with the error the saved rows, which name their repositories ("saved")
\* unless their sidecar is lost ("bare").
Load ==
  [step : {"idle", "begun", "half", "finished"}, kind : {"checked", "local", "saved", "bare", "error"},
   file : Nat \cup {None}, system : Nat]

VARIABLES
  file,           \* the published snapshot, None if there is no valid one
  checks,         \* snapshots published so far
  system,         \* version of everything else an evaluation reads
  watched,        \* the watches of UpdatesModel are complete
  pageEvent,      \* a notification is queued for UpdatesModel
  readerEvent,    \* a notification is queued for SnapshotFileReader
  latest,         \* latest_ of the reader
  readDebounce,   \* its debounce_ runs
  load,           \* the evaluation thread
  loading,        \* loading_
  rerun,          \* rerun_
  debounce,       \* debounce_timer_ runs
  view,           \* state_, "result" for the three states with a result
  source,         \* source_text_; previously_loaded_ and checked_data_ say the same
  rows,           \* the snapshot the rows are from or were evaluated with
  displayed,      \* displayed_fetched_at_
  online,         \* online_ and online_fetched_at_
  handled         \* history: what the last result that was used had read

disk   == <<file, checks, system>>
events == <<watched, pageEvent, readerEvent>>
reader == <<latest, readDebounce>>
shown  == <<view, source, rows, displayed>>
page   == <<load, loading, rerun, debounce, shown, online, handled>>
vars   == <<disk, events, reader, page>>

Idle == [step |-> "idle", kind |-> "error", file |-> None, system |-> 0]
Begun == [Idle EXCEPT !.step = "begun"]

\* The constructors: UpdatesModel arms its watches and starts to load, then start() of the reader
\* reads the file, and a snapshot found there is shown as history and asks for another load.
Init ==
  /\ checks \in {0, 1} /\ file \in {None} \cup (IF checks = 0 THEN {} ELSE {1}) /\ system = 0
  /\ watched = TRUE /\ pageEvent = FALSE /\ readerEvent = FALSE
  /\ latest = file /\ readDebounce = FALSE
  /\ load = Begun /\ loading = TRUE /\ rerun = (file # None) /\ debounce = FALSE
  /\ view = (IF file = None THEN "loading" ELSE "result")
  /\ source = (IF file = None THEN "none" ELSE "previous")
  /\ rows = file /\ displayed = file /\ online = file
  /\ handled = None

-------------------------------------------------------------------------------
(* The disk *)

\* The service replaces the snapshot file; an evaluation that reads keeps it out by its lease,
\* except from the first save, which creates the lock file.
Publish ==
  /\ checks < MaxChecks
  /\ load.step = "half" => checks = 0
  /\ checks' = checks + 1 /\ file' = checks + 1
  /\ pageEvent' = TRUE /\ readerEvent' = TRUE
  /\ UNCHANGED <<system, watched, reader, page>>

\* The file is removed or damaged.
Discard ==
  /\ file # None /\ file' = None
  /\ pageEvent' = TRUE /\ readerEvent' = TRUE
  /\ UNCHANGED <<checks, system, watched, reader, page>>

\* pacman or its user changes a file that is watched or not ...
ChangeInPlace ==
  /\ system < MaxChanges /\ system' = system + 1
  /\ pageEvent' = (pageEvent \/ watched)
  /\ UNCHANGED <<file, checks, watched, readerEvent, reader, page>>

\* ... or replaces one: the watch goes with the old one, and its directory reports the change.
Replace ==
  /\ system < MaxChanges /\ system' = system + 1
  /\ watched' = FALSE /\ pageEvent' = TRUE
  /\ UNCHANGED <<file, checks, readerEvent, reader, page>>

-------------------------------------------------------------------------------
(* UpdatesModel: loads *)

StartLoading ==
  /\ loading' = TRUE /\ load' = Begun
  /\ view' = (IF view = "result" THEN view ELSE "loading")

\* reload(): ignored while a load is in progress.
ReloadUnlessLoading ==
  IF loading THEN UNCHANGED <<load, loading, view>> ELSE StartLoading

\* Mutant: paths that are watched no longer are not added again.
ArmOnce == UNCHANGED watched

ArmWatcher == watched' = TRUE

\* The slot of both notifications.
FilesystemChanged ==
  /\ pageEvent /\ pageEvent' = FALSE
  /\ ArmWatcher
  /\ rerun' = (rerun \/ loading) /\ debounce' = TRUE
  /\ UNCHANGED <<disk, readerEvent, reader, load, loading, shown, online, handled>>

DebounceFires ==
  /\ debounce /\ debounce' = FALSE
  /\ ReloadUnlessLoading
  /\ UNCHANGED <<disk, events, reader, rerun, source, rows, displayed, online, handled>>

Reload ==
  /\ ~loading /\ StartLoading
  /\ UNCHANGED <<disk, events, reader, rerun, debounce, source, rows, displayed, online, handled>>

\* The saved snapshot is read first ...
ReadFile ==
  /\ load.step = "begun"
  /\ load' = [load EXCEPT !.step = "half", !.file = file]
  /\ UNCHANGED <<disk, events, reader, loading, rerun, debounce, shown, online, handled>>

\* ... then the databases: only with a saved snapshot there are checked repositories or saved rows.
ReadSystem ==
  /\ load.step = "half"
  /\ \E kind \in {"local", "error"} \cup (IF load.file = None THEN {} ELSE {"checked", "saved", "bare"}) :
       load' = [load EXCEPT !.step = "finished", !.system = system, !.kind = kind]
  /\ UNCHANGED <<disk, events, reader, loading, rerun, debounce, shown, online, handled>>

-------------------------------------------------------------------------------
(* UpdatesModel: results *)

\* Mutant: an age once shown stays with the rows that follow.
DisplayedTimeKept ==
  CASE load.kind \in {"checked", "saved"} -> IF displayed = None THEN online ELSE displayed
    [] load.kind = "bare" -> IF online = None THEN displayed ELSE online
    [] OTHER -> None

\* selectFresherSnapshot chooses the result of loadUpdates() always: it is evaluated or previously
\* loaded.  With a checked repository its age is that of the reader's snapshot, if there is one.
DisplayedTime ==
  CASE load.kind \in {"checked", "saved"} -> online
    [] load.kind = "bare" -> IF online = None THEN displayed ELSE online
    [] OTHER -> None

ApplySnapshot ==
  /\ displayed' = DisplayedTime
  /\ source' = (IF load.kind \in {"saved", "bare"} THEN "previous" ELSE load.kind)
  /\ rows' = (IF load.kind = "local" THEN None ELSE load.file)
  /\ view' = "result"

\* The rows of an earlier result stay, qualified.
ApplyFailure ==
  IF view = "result"
    THEN source' = "previous" /\ UNCHANGED <<view, rows, displayed>>
    ELSE view' = "error" /\ rows' = None /\ UNCHANGED <<source, displayed>>

StopLoading == load' = Idle /\ loading' = FALSE

UseResult ==
  /\ StopLoading
  /\ IF load.kind = "error" THEN ApplyFailure ELSE ApplySnapshot
  /\ handled' = <<load.file, load.system>>
  /\ UNCHANGED rerun

DropResult ==
  /\ rerun' = FALSE
  /\ StartLoading
  /\ UNCHANGED <<source, rows, displayed, handled>>

LoadFinished ==
  /\ load.step = "finished"
  /\ IF rerun THEN DropResult ELSE UseResult
  /\ UNCHANGED <<disk, events, reader, debounce, online>>

-------------------------------------------------------------------------------
(* SnapshotFileReader, with the slots UpdateCheckModel connects to it *)

\* Mutant: the result of the load in progress is used all the same.
LoadAgainLater == ReloadUnlessLoading /\ UNCHANGED rerun

\* A load in progress is repeated, or a new one begins.
LoadAgain == ReloadUnlessLoading /\ rerun' = (rerun \/ loading)

\* applyCheckedSnapshot(): without a result, the saved rows are shown as history.
ApplyChecked ==
  /\ online' = file
  /\ IF view = "result"
       THEN LoadAgain /\ UNCHANGED <<source, rows, displayed>>
       ELSE /\ view' = "result" /\ source' = "previous" /\ rows' = file /\ displayed' = file
            /\ loading' = TRUE /\ rerun' = (rerun \/ loading)
            /\ load' = (IF loading THEN load ELSE Begun)

\* invalidateCheckedSnapshot()
Invalidate ==
  /\ online' = None /\ source' = "previous"
  /\ LoadAgain
  /\ UNCHANGED <<rows, displayed>>

\* readNow()
ReadNow ==
  /\ readDebounce' = FALSE
  /\ latest' = file
  /\ IF latest = file THEN UNCHANGED <<load, loading, rerun, shown, online>>
     ELSE IF file = None THEN Invalidate ELSE ApplyChecked
  /\ UNCHANGED <<disk, events, debounce, handled>>

\* Mutant: the reader only renews its watches.
ReaderArmed == UNCHANGED readDebounce

\* Its directory or the nearest that exists is always watched, and reports every replacement.
StartReadDebounce == readDebounce' = TRUE

ReaderChanged ==
  /\ readerEvent /\ readerEvent' = FALSE
  /\ StartReadDebounce
  /\ UNCHANGED <<disk, watched, pageEvent, latest, page>>

ReadDebounceFires == readDebounce /\ ReadNow

\* A property or a completed check of the service arrives over D-Bus.
ServiceSpeaks == ReadNow

-------------------------------------------------------------------------------
Next ==
  \/ Publish \/ Discard \/ ChangeInPlace \/ Replace
  \/ FilesystemChanged \/ DebounceFires \/ Reload \/ ReadFile \/ ReadSystem \/ LoadFinished
  \/ ReaderChanged \/ ReadDebounceFires \/ ServiceSpeaks

Spec == Init /\ [][Next]_vars

\* The event loop delivers what is queued, timers expire, loadUpdates() returns.
Fairness ==
  /\ WF_vars(FilesystemChanged) /\ WF_vars(DebounceFires)
  /\ WF_vars(ReadFile) /\ WF_vars(ReadSystem) /\ WF_vars(LoadFinished)
  /\ WF_vars(ReaderChanged) /\ WF_vars(ReadDebounceFires)

FairSpec == Spec /\ Fairness

-------------------------------------------------------------------------------
(* Properties *)

TypeOK ==
  /\ file \in Nat \cup {None} /\ checks \in Nat /\ system \in Nat
  /\ watched \in BOOLEAN /\ pageEvent \in BOOLEAN /\ readerEvent \in BOOLEAN
  /\ latest \in Nat \cup {None} /\ readDebounce \in BOOLEAN
  /\ load \in Load /\ loading \in BOOLEAN /\ (loading <=> load.step # "idle")
  /\ rerun \in BOOLEAN /\ debounce \in BOOLEAN
  /\ view \in {"loading", "result", "error"}
  /\ source \in {"none", "checked", "local", "previous"}
  /\ rows \in Nat \cup {None} /\ displayed \in Nat \cup {None} /\ online \in Nat \cup {None}
  /\ handled \in ((Nat \cup {None}) \X Nat) \cup {None}

Current == <<file, system>>

\* The load in progress has read nothing that is out of date.
UpToDateSoFar ==
  /\ load.step \in {"half", "finished"} => load.file = file
  /\ load.step = "finished" => load.system = system

\* What makes the page read the disk again.
LoadsAgain == pageEvent \/ debounce \/ (loading /\ (rerun \/ UpToDateSoFar))
ReadsAgain == readerEvent \/ readDebounce

\* Neither of the two misses a change, although the list renews its watches late, ignores its
\* debounce while it loads and drops results (REQ-F-051).
NothingMissed == (handled = Current \/ LoadsAgain) /\ (latest = file \/ ReadsAgain)

\* Rows are never said to be of a later check than they are of, in whatever order the reader and
\* the list come to read the file.
AgeNotNewer == displayed # None /\ rows # None => displayed <= rows

\* Once nothing is on its way, what is called checked is of the published check and has its age
\* (REQ-F-047), and nothing is called checked when no valid snapshot is left (REQ-F-048).
SettledAge ==
  source = "checked" => \/ rows = file /\ displayed = file /\ file # None
                        \/ LoadsAgain \/ ReadsAgain

\* When the disk rests the page arrives at what is on it, with its age.
PageConverges ==
  <>[](handled = Current /\ latest = file /\ (source = "checked" => displayed = file))
===============================================================================
