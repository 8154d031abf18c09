----------------------------- MODULE UpdateMonitor -----------------------------
(***************************************************************************)
(* UpdateMonitor of holonight-packaged: it keeps the status on D-Bus in    *)
(* step with the package databases and the published catalog.  Filesystem  *)
(* events, the debounce timer, Refresh() calls, adopted snapshots and the  *)
(* evaluation thread interleave on one home thread.  Everything an         *)
(* evaluation reads is one version number, which the evaluation reads      *)
(* twice, for it can see the disk change halfway.                          *)
(***************************************************************************)
EXTENDS Naturals

CONSTANTS
  MaxChanges,    \* bound: changes on disk explored
  MaxAdoptions,  \* bound: adopted snapshots explored
  None,          \* nothing read or shown yet
  Saved          \* content of the saved snapshot, shown as historical

ASSUME MonitorAssumption ==
  /\ MaxChanges \in Nat /\ MaxAdoptions \in Nat
  /\ None \notin Nat \X Nat /\ Saved \notin Nat \X Nat

Read == Nat \X Nat

Evaluation == [step : {"idle", "begun", "half", "finished"}, first : Nat, second : Nat,
               result : {"none", "evaluated", "previous", "error"}]

UpdateStatus == [state : {"loading", "ready", "error"}, message : BOOLEAN,
                 content : Read \cup {None, Saved}]

VARIABLES
  up,         \* start() was called
  disk,       \* version of what an evaluation reads
  watched,    \* the watcher watches the directories and files that are there now
  event,      \* a change notification is queued
  running,    \* running_
  rerun,      \* rerun_
  dirty,      \* dirty_
  debounce,   \* debounce_timer_ is active
  worker,     \* the evaluation on its thread
  local,      \* local_: "none", or the kind of result it holds
  online,     \* number of snapshots adopted; online_ holds the last one
  status,     \* status_
  handled,    \* what the last evaluation whose result was not dropped had read
  asked,      \* a Refresh() waits for an evaluation to begin
  followUps   \* evaluations begun since the last trigger

env     == <<disk, watched, event>>
monitor == <<running, rerun, dirty, debounce, worker, local, online, status>>
ghosts  == <<handled, asked, followUps>>
vars    == <<up, env, monitor, ghosts>>

Idle == [step |-> "idle", first |-> 0, second |-> 0, result |-> "none"]

Init ==
  /\ up = FALSE
  /\ disk = 0 /\ watched = FALSE /\ event = FALSE
  /\ running = FALSE /\ rerun = FALSE /\ dirty = FALSE /\ debounce = FALSE
  /\ worker = Idle /\ local = "none" /\ online = 0
  /\ status = [state |-> "loading", message |-> FALSE, content |-> None]
  /\ handled = None /\ asked = FALSE /\ followUps = 0

-------------------------------------------------------------------------------
(* The disk *)

\* pacman, or the service's own publication, changes a file that is watched or not ...
ChangeInPlace ==
  /\ disk < MaxChanges
  /\ disk' = disk + 1
  /\ event' = (event \/ watched)
  /\ UNCHANGED <<up, watched, monitor, ghosts>>

\* ... or replaces one: the watch goes with the old one, and its parent reports the change.
Replace ==
  /\ up /\ disk < MaxChanges
  /\ disk' = disk + 1
  /\ watched' = FALSE /\ event' = TRUE
  /\ UNCHANGED <<up, monitor, ghosts>>

-------------------------------------------------------------------------------
(* Evaluations *)

Begin == [Idle EXCEPT !.step = "begun"]

\* Mutant: the watches are renewed only when an event arrives.
StartUnarmed(before) ==
  /\ running' = TRUE /\ worker' = Begin
  /\ UNCHANGED watched
  /\ asked' = FALSE /\ followUps' = before + 1

\* armWatcher() comes before the evaluation reads anything.
StartEvaluation(before) ==
  /\ running' = TRUE /\ worker' = Begin
  /\ watched' = TRUE
  /\ asked' = FALSE /\ followUps' = before + 1

\* Mutant: a refresh during an evaluation is taken to be served by it.
RefreshForgotten(before, waits) ==
  /\ debounce' = FALSE
  /\ IF running
       THEN /\ asked' = (asked \/ waits) /\ followUps' = before
            /\ UNCHANGED <<rerun, running, worker, watched>>
       ELSE StartEvaluation(before) /\ UNCHANGED rerun

\* refresh(): evaluate now, or once more after the evaluation in progress.
RefreshNow(before, waits) ==
  /\ debounce' = FALSE
  /\ IF running
       THEN /\ rerun' = TRUE
            /\ asked' = (asked \/ waits) /\ followUps' = before
            /\ UNCHANGED <<running, worker, watched>>
       ELSE StartEvaluation(before) /\ UNCHANGED rerun

\* start()
Start ==
  /\ ~up /\ up' = TRUE
  /\ RefreshNow(0, FALSE)
  /\ UNCHANGED <<disk, event, dirty, local, online, status, handled>>

\* Refresh() on D-Bus.
Refresh ==
  /\ up
  /\ RefreshNow(0, TRUE)
  /\ UNCHANGED <<up, disk, event, dirty, local, online, status, handled>>

\* Mutant: a change that arrives during an evaluation only restarts the debounce.
NotDirty == UNCHANGED dirty

MarkDirty == dirty' = (dirty \/ running)

\* onFilesystemChanged()
FilesystemChanged ==
  /\ up /\ event
  /\ event' = FALSE
  /\ MarkDirty
  /\ watched' = TRUE
  /\ debounce' = TRUE
  /\ followUps' = 0
  /\ UNCHANGED <<up, disk, running, rerun, worker, local, online, status, handled, asked>>

DebounceFires ==
  /\ debounce
  /\ RefreshNow(followUps, FALSE)
  /\ UNCHANGED <<up, disk, event, dirty, local, online, status, handled>>

-------------------------------------------------------------------------------
(* The evaluation thread *)

ReadFirst ==
  /\ worker.step = "begun"
  /\ worker' = [worker EXCEPT !.step = "half", !.first = disk]
  /\ UNCHANGED <<up, env, running, rerun, dirty, debounce, local, online, status, ghosts>>

\* loadUpdates() returns pending updates, the saved snapshot with a reason, or an error.
ReadSecond ==
  /\ worker.step = "half"
  /\ \E result \in {"evaluated", "previous", "error"} :
       worker' = [worker EXCEPT !.step = "finished", !.second = disk, !.result = result]
  /\ UNCHANGED <<up, env, running, rerun, dirty, debounce, local, online, status, ghosts>>

-------------------------------------------------------------------------------
(* What is published *)

Seen == <<worker.first, worker.second>>

\* buildUpdateStatus: a failure keeps the content, historical rows come with their reason.
StatusOf(result, reason, content) ==
  [state   |-> IF result = "evaluated" THEN "ready" ELSE "error",
   message |-> IF result = "error" THEN TRUE ELSE reason,
   content |-> IF result = "error" THEN status.content ELSE content]

\* selectFresherSnapshot prefers an evaluated or historical local result to any online one, so
\* applyFreshest publishes what the other branch of onEvaluationFinished would.
PublishResult ==
  status' = StatusOf(worker.result, worker.result = "previous",
                     IF worker.result = "evaluated" THEN Seen ELSE Saved)

\* Mutant: the result is dropped, and the rerun with it.
DropWithoutRestart ==
  /\ dirty' = FALSE /\ rerun' = FALSE
  /\ running' = FALSE /\ worker' = Idle
  /\ UNCHANGED <<watched, local, status, ghosts>>

\* The disk changed or a snapshot came meanwhile: the result is dropped.
DropResult ==
  /\ dirty' = FALSE /\ rerun' = FALSE
  /\ StartEvaluation(followUps)
  /\ UNCHANGED <<local, status, handled>>

\* Mutant: rerun_ is not reset when the follow-up starts.
RerunForEver ==
  \/ rerun /\ StartEvaluation(followUps) /\ UNCHANGED rerun
  \/ ~rerun /\ running' = FALSE /\ worker' = Idle /\ UNCHANGED <<rerun, watched, asked, followUps>>

FollowUp ==
  \/ rerun /\ rerun' = FALSE /\ StartEvaluation(followUps)
  \/ ~rerun /\ running' = FALSE /\ worker' = Idle /\ UNCHANGED <<rerun, watched, asked, followUps>>

KeepResult ==
  /\ local' = IF worker.result = "error" THEN local ELSE worker.result
  /\ PublishResult
  /\ handled' = Seen
  /\ FollowUp
  /\ UNCHANGED dirty

\* onEvaluationFinished()
EvaluationFinished ==
  /\ worker.step = "finished"
  /\ IF dirty THEN DropResult ELSE KeepResult
  /\ UNCHANGED <<up, disk, event, debounce, online>>

\* adoptOnline(): before the first local result the adopted snapshot is shown as historical.
AdoptOnline ==
  /\ up /\ online < MaxAdoptions
  /\ online' = online + 1
  /\ status' = IF local = "none" THEN StatusOf("previous", FALSE, Saved) ELSE status
  /\ dirty' = running
  /\ RefreshNow(0, FALSE)
  /\ UNCHANGED <<up, disk, event, local, handled>>

Next ==
  \/ Start \/ Refresh \/ AdoptOnline
  \/ ChangeInPlace \/ Replace \/ FilesystemChanged \/ DebounceFires
  \/ ReadFirst \/ ReadSecond \/ EvaluationFinished

Spec == Init /\ [][Next]_vars

\* The event loop delivers what is queued, timers expire, loadUpdates() returns.
Fairness ==
  /\ WF_vars(Start) /\ WF_vars(FilesystemChanged) /\ WF_vars(DebounceFires)
  /\ WF_vars(ReadFirst) /\ WF_vars(ReadSecond) /\ WF_vars(EvaluationFinished)

FairSpec == Spec /\ Fairness

-------------------------------------------------------------------------------
(* Properties *)

\* Every variable keeps its type; an evaluation is on its thread exactly while running_ is set.
TypeOK ==
  /\ up \in BOOLEAN
  /\ disk \in Nat /\ watched \in BOOLEAN /\ event \in BOOLEAN
  /\ running \in BOOLEAN /\ rerun \in BOOLEAN /\ dirty \in BOOLEAN /\ debounce \in BOOLEAN
  /\ worker \in Evaluation
  /\ running <=> worker.step # "idle"
  /\ local \in {"none", "evaluated", "previous"} /\ online \in Nat
  /\ status \in UpdateStatus
  /\ handled \in Read \cup {None}
  /\ asked \in BOOLEAN /\ followUps \in Nat

Current == <<disk, disk>>

\* The evaluation in progress has read nothing that is out of date.
UpToDateSoFar ==
  /\ worker.step \in {"half", "finished"} => worker.first = disk
  /\ worker.step = "finished" => worker.second = disk

\* What makes the monitor look again.
LooksAgain == event \/ debounce \/ (running /\ (rerun \/ dirty \/ UpToDateSoFar))

\* No change is lost: as long as the last result that was used is not what the disk holds now, a
\* notification, the debounce or an evaluation that will see it is ahead, also for a change that
\* comes between a replacement and the renewed watch or in the middle of an evaluation.
NoLostChange == up => handled = Current \/ LooksAgain

\* What is shown as ready is what the last used evaluation read, all of it at one time, or the
\* monitor is about to look again.
ReadyIsCurrent == status.state = "ready" => status.content = Current \/ LooksAgain

\* A result that saw the disk change halfway is shown only if the notification of that change is
\* still queued: once an event came during the evaluation, its result is not used.
TornOnlyUnnoticed ==
  [][status' # status /\ status'.state = "ready" /\ status'.content[1] # status'.content[2]
       => event]_vars

\* A trigger causes at most two evaluations, so evaluations never feed on themselves.
TwoFollowUps == followUps <= 2

\* Refresh() during an evaluation leads to one that begins after the call.
RefreshIsServed == asked ~> ~asked

\* Once the disk is left alone the monitor ends with what is on it.
Converges == <>[](handled = Current)

\* user-service-update-count REQ-F-003: a trigger during a running evaluation yields exactly one more.
OneFollowUp == followUps <= 1
===============================================================================
