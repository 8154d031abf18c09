-------------------------- MODULE UpdateCheckService --------------------------
(***************************************************************************)
(* The online update check inside holonight-packaged: UpdateCheckService   *)
(* (single flight, joined callers, cooldown, last-good snapshot), its      *)
(* worker thread, the UpdateCheckScheduler with its one-shot timer, and    *)
(* the two files that outlive the process.  Home-thread handlers are       *)
(* atomic; the worker, the clocks, crashes and restarts interleave with    *)
(* them.  The update list of a snapshot is abstracted to its count.        *)
(***************************************************************************)
EXTENDS Integers

CONSTANTS
  Callers,    \* requesters that pass a completion callback
  Counts,     \* update counts a check can find
  Errors,     \* the UpdateCheckErrorCode values
  CanCheck,   \* the backend can check and a cache directory is known
  Cooldown,   \* UpdateCheckPolicy::onDemandCooldown, in ticks
  Skews,      \* what the wall clock may show ahead of or behind elapsed time
  MaxTime,    \* bound: ticks of elapsed time explored
  None,       \* std::nullopt, a missing file
  Invalid     \* a snapshot file that does not parse

ASSUME ConstantsAssumption ==
  /\ Counts \subseteq Nat
  /\ "Unknown" \in Errors /\ None \notin Errors /\ "success" \notin Errors
  /\ None # "success"
  /\ CanCheck \in BOOLEAN
  /\ Cooldown \in Nat /\ MaxTime \in Nat
  /\ Skews \subseteq Int /\ 0 \in Skews

Snapshot == [count : Counts, fetchedAt : Int]
History  == [completed : Int, result : Errors \cup {"success"}]
Status   == [checking : BOOLEAN, result : Errors \cup {None, "success"},
             lastCheckTime : Int \cup {None}, snapshotFetchedAt : Int \cup {None},
             count : Counts \cup {None}]
Worker   == [step : {"idle", "checking", "saving", "finished"},
             error : Errors \cup {None}, snapshot : Snapshot \cup {None},
             at : Int, steadyAt : Int]

\* The sentinels are none of the values they stand beside.
ASSUME SentinelsAssumption ==
  /\ None \notin Snapshot /\ Invalid \notin Snapshot
  /\ None \notin History /\ None \notin Int /\ None # Invalid

VARIABLES
  phase,          \* "down", "up", or "quitting": the loop has ended, ~UpdateCheckService waits
  running,        \* running_
  origin,         \* running_origin_
  joined,         \* joined_: callers waiting for the running check
  answering,      \* callers onWorkerFinished has still to call back
  lastCompleted,  \* last_completed_, wall clock
  status,         \* status_
  lastGood,       \* last_good_
  worker,         \* the pool's task and its WorkerResult
  timer,          \* the scheduler's timer: "off" or the delay it was started with
  failures,       \* consecutive_failures_, counted up to the last one that matters
  file,           \* the published snapshot file
  history,        \* its .history.json
  steady,         \* elapsed time
  skew,           \* wall clock minus elapsed time
  lastDone        \* elapsed time at which the last check of this process was done

home  == <<running, origin, joined, answering, lastCompleted, status, lastGood, lastDone>>
sched == <<timer, failures>>
disk  == <<file, history>>
clock == <<steady, skew>>
vars  == <<phase, home, worker, sched, disk, clock>>

Now == steady + skew

Idle == [step |-> "idle", error |-> None, snapshot |-> None, at |-> 0, steadyAt |-> 0]

NoStatus == [checking |-> FALSE, result |-> None, lastCheckTime |-> None,
             snapshotFetchedAt |-> None, count |-> None]

Init ==
  /\ phase = "down"
  /\ running = FALSE /\ origin = "Automatic" /\ joined = {} /\ answering = {}
  /\ lastCompleted = None /\ status = NoStatus /\ lastGood = None /\ lastDone = None
  /\ worker = Idle
  /\ timer = "off" /\ failures = 0
  /\ file \in {None, Invalid} /\ history = None
  /\ steady = 0 /\ skew = 0

-------------------------------------------------------------------------------
(* The scheduler *)

\* Counting stops one past the last failure that has a delay of its own.
FailureCap == 4

NextAutomaticDelay(consecutiveFailures) ==
  CASE consecutiveFailures = 1 -> "5 min"
    [] consecutiveFailures = 2 -> "15 min"
    [] consecutiveFailures = 3 -> "60 min"
    [] OTHER -> "interval"

Arm(consecutiveFailures) == timer' = NextAutomaticDelay(consecutiveFailures)

\* Mutant: an on-demand failure always leaves the timer alone.
OnDemandFailedNoRearm == UNCHANGED sched

\* An on-demand failure restarts the timer only if its tick fired meanwhile.
OnDemandFailed ==
  /\ IF timer = "off" THEN Arm(failures) ELSE UNCHANGED timer
  /\ UNCHANGED failures

\* Mutant: an on-demand success resets the counter without restarting the timer.
OnDemandSucceededNoArm == failures' = 0 /\ UNCHANGED timer

OnDemandSucceeded == failures' = 0 /\ Arm(0)

OnCheckCompleted(succeeded) ==
  \/ /\ origin = "Automatic"
     /\ failures' = IF succeeded THEN 0
                    ELSE IF failures < FailureCap THEN failures + 1 ELSE failures
     /\ Arm(failures')
  \/ origin = "OnDemand" /\ succeeded /\ OnDemandSucceeded
  \/ origin = "OnDemand" /\ ~succeeded /\ OnDemandFailed

-------------------------------------------------------------------------------
(* Requests *)

\* Mutant: the cooldown ignores where the request comes from.
CoolingDownAnyOrigin(o) == lastCompleted # None /\ Now - lastCompleted < Cooldown

CoolingDown(o) ==
  /\ o = "OnDemand"
  /\ lastCompleted # None
  /\ Now - lastCompleted < Cooldown

BeginCheck(o) ==
  /\ running' = TRUE
  /\ origin' = o
  /\ status' = [status EXCEPT !.checking = TRUE]
  /\ worker' = [Idle EXCEPT !.step = "checking"]

HandleRequest(o, callbacks) ==
  /\ CanCheck
  /\ \/ /\ running
        /\ joined' = joined \cup callbacks
        /\ UNCHANGED <<running, origin, status, worker>>
     \/ /\ ~running /\ CoolingDown(o)
        /\ UNCHANGED <<running, origin, joined, status, worker>>
     \/ /\ ~running /\ ~CoolingDown(o)
        /\ joined' = joined \cup callbacks
        /\ BeginCheck(o)
  /\ UNCHANGED <<answering, lastCompleted, lastGood, lastDone>>

\* CheckNow() and other callers; one posted from another thread arrives here later, and a
\* callback may call again while onWorkerFinished is still answering the others.
RequestCheck(callbacks) ==
  /\ phase = "up"
  /\ callbacks \cap (joined \cup answering) = {}
  /\ HandleRequest("OnDemand", callbacks)
  /\ UNCHANGED <<phase, sched, disk, clock>>

TimerFires ==
  /\ phase = "up" /\ answering = {}
  /\ timer # "off"
  /\ timer' = "off"
  /\ HandleRequest("Automatic", {})
  /\ UNCHANGED <<phase, failures, disk, clock>>

-------------------------------------------------------------------------------
(* The worker thread; it goes on while the destructor waits for the pool *)

\* checkForUpdates returns and the completion time is read.
WorkerCheck ==
  /\ phase \in {"up", "quitting"} /\ worker.step = "checking"
  /\ \/ \E n \in Counts :
          worker' = [step |-> "saving", error |-> None,
                     snapshot |-> [count |-> n, fetchedAt |-> Now],
                     at |-> Now, steadyAt |-> steady]
     \/ \E e \in Errors :
          worker' = [step |-> "finished", error |-> e, snapshot |-> None,
                     at |-> Now, steadyAt |-> steady]
  /\ UNCHANGED <<phase, home, sched, disk, clock>>

\* Mutant: a failed save is not reported to onWorkerFinished.
SaveErrorLost ==
  /\ file' \in {worker.snapshot, file}
  /\ worker' = [worker EXCEPT !.step = "finished"]

\* Mutant: a save can still fail after the rename.
SaveFailsLate ==
  \/ /\ file' = worker.snapshot
     /\ worker' = [worker EXCEPT !.step = "finished"]
  \/ /\ file' \in {worker.snapshot, file}
     /\ worker' = [worker EXCEPT !.step = "finished", !.error = "Unknown"]

\* store->save replaces the file or leaves it; a save error ends as an Unknown check error.
SaveSnapshot ==
  \/ /\ file' = worker.snapshot
     /\ worker' = [worker EXCEPT !.step = "finished"]
  \/ /\ worker' = [worker EXCEPT !.step = "finished", !.error = "Unknown"]
     /\ UNCHANGED file

WorkerSave ==
  /\ phase \in {"up", "quitting"} /\ worker.step = "saving"
  /\ SaveSnapshot
  /\ UNCHANGED <<phase, home, sched, history, clock>>

-------------------------------------------------------------------------------
(* Completion on the home thread *)

Succeeded == worker.error = None

Result == IF Succeeded THEN "success" ELSE worker.error

\* Mutant: a failed check drops the last-good snapshot from the status.
CompletedStatusForgets ==
  [checking |-> FALSE, result |-> Result, lastCheckTime |-> worker.at,
   snapshotFetchedAt |-> IF Succeeded THEN worker.at ELSE None,
   count |-> IF Succeeded THEN worker.snapshot.count ELSE None]

CompletedStatus ==
  [checking |-> FALSE, result |-> Result, lastCheckTime |-> worker.at,
   snapshotFetchedAt |-> IF Succeeded THEN worker.at ELSE status.snapshotFetchedAt,
   count |-> IF Succeeded THEN worker.snapshot.count ELSE status.count]

\* Mutant: joined_ is cleared only after the callbacks ran.
TakeJoinedLate == answering' = joined /\ UNCHANGED joined

TakeJoined == answering' = joined /\ joined' = {}

\* Mutant: the cooldown counts from the last success.
LastCompletedOnSuccess == lastCompleted' = IF Succeeded THEN worker.at ELSE lastCompleted

RememberCompletion == lastCompleted' = worker.at

\* Mutant: a failed check leaves running_ set.
StopRunningOnSuccess == running' = ~Succeeded

StopRunning == running' = FALSE

\* onWorkerFinished up to its callbacks; a history that cannot be saved is only logged.
Complete ==
  /\ phase = "up" /\ answering = {}
  /\ worker.step = "finished"
  /\ StopRunning
  /\ worker' = Idle
  /\ TakeJoined
  /\ RememberCompletion
  /\ lastDone' = worker.steadyAt
  /\ status' = CompletedStatus
  /\ lastGood' = IF Succeeded THEN worker.snapshot ELSE lastGood
  /\ history' \in {history, [completed |-> worker.at, result |-> Result]}
  /\ OnCheckCompleted(Succeeded)
  /\ UNCHANGED <<phase, origin, file, clock>>

AnswerJoined ==
  /\ phase = "up"
  /\ \E c \in answering : answering' = answering \ {c}
  /\ UNCHANGED <<phase, running, origin, joined, lastCompleted, status, lastGood, lastDone,
                 worker, sched, disk, clock>>

-------------------------------------------------------------------------------
(* Process life *)

\* What store->load() gives start(): nothing when it fails or the file is not valid.
Loaded(readable) == IF CanCheck /\ readable /\ file \in Snapshot THEN file ELSE None

FetchedAt(s) == IF s = None THEN None ELSE s.fetchedAt
CountOf(s)   == IF s = None THEN None ELSE s.count

\* main: UpdateCheckService::start, which discards an invalid file, then the scheduler's.
Start ==
  /\ phase = "down"
  /\ phase' = "up"
  /\ \E readable, removable \in BOOLEAN :
       LET known == IF CanCheck THEN history ELSE None IN
       /\ lastGood' = Loaded(readable)
       /\ lastCompleted' = IF known = None THEN None ELSE known.completed
       /\ status' = [checking |-> FALSE,
                     result |-> IF known = None THEN None ELSE known.result,
                     lastCheckTime |-> IF known = None THEN None ELSE known.completed,
                     snapshotFetchedAt |-> FetchedAt(Loaded(readable)),
                     count |-> CountOf(Loaded(readable))]
       /\ file' = IF CanCheck /\ readable /\ file = Invalid /\ removable THEN None ELSE file
  /\ timer' = IF CanCheck THEN "startup" ELSE "off"
  /\ UNCHANGED <<running, origin, joined, answering, lastDone, worker, failures, history, clock>>

Forget ==
  /\ phase' = "down"
  /\ running' = FALSE /\ origin' = "Automatic" /\ joined' = {} /\ answering' = {}
  /\ lastCompleted' = None /\ status' = NoStatus /\ lastGood' = None /\ lastDone' = None
  /\ worker' = Idle
  /\ timer' = "off" /\ failures' = 0
  /\ UNCHANGED <<disk, clock>>

Crash == phase # "down" /\ Forget

\* SIGTERM ends the event loop; the destructor then waits for the worker.
Quit ==
  /\ phase = "up" /\ answering = {}
  /\ phase' = "quitting"
  /\ UNCHANGED <<home, worker, sched, disk, clock>>

Exit ==
  /\ phase = "quitting" /\ worker.step \in {"idle", "finished"}
  /\ Forget

-------------------------------------------------------------------------------
(* Time *)

Tick ==
  /\ steady < MaxTime
  /\ steady' = steady + 1
  /\ UNCHANGED <<phase, home, worker, sched, disk, skew>>

\* The user or NTP sets the wall clock.
AdjustClock ==
  /\ skew' \in Skews \ {skew}
  /\ UNCHANGED <<phase, home, worker, sched, disk, steady>>

Next ==
  \/ Start \/ Crash \/ Quit \/ Exit
  \/ RequestCheck({}) \/ \E c \in Callers : RequestCheck({c})
  \/ TimerFires \/ Complete \/ AnswerJoined
  \/ WorkerCheck \/ WorkerSave
  \/ Tick \/ AdjustClock

Spec == Init /\ [][Next]_vars

\* The event loop and the pool thread run; a check ends within the checker's total bound; an
\* armed timer expires; a destructor returns.  Nothing makes a stopped process start again.
Fairness ==
  /\ WF_vars(WorkerCheck) /\ WF_vars(WorkerSave)
  /\ WF_vars(Complete) /\ WF_vars(AnswerJoined)
  /\ WF_vars(TimerFires) /\ WF_vars(Exit)

FairSpec == Spec /\ Fairness

-------------------------------------------------------------------------------
(* Properties *)

\* Every variable keeps its type; an idle worker holds no result.
TypeOK ==
  /\ phase \in {"down", "up", "quitting"}
  /\ running \in BOOLEAN /\ origin \in {"Automatic", "OnDemand"}
  /\ joined \subseteq Callers /\ answering \subseteq Callers
  /\ lastCompleted \in Int \cup {None} /\ lastDone \in Int \cup {None}
  /\ status \in Status /\ lastGood \in Snapshot \cup {None}
  /\ worker \in Worker
  /\ timer \in {"off", "startup", "5 min", "15 min", "60 min", "interval"}
  /\ failures \in 0..FailureCap
  /\ file \in Snapshot \cup {None, Invalid} /\ history \in History \cup {None}
  /\ steady \in Nat /\ skew \in Int

\* While the service is up an automatic check is always ahead: the timer is running or a check
\* is, whichever order ticks, joins, on-demand checks and failures come in (scheduler 20-41).
ScheduleAlive == phase = "up" /\ CanCheck => timer # "off" \/ running

\* A pending automatic check waits as long as the failures counted so far say, also after
\* on-demand checks came in between (REQ-F-028 to REQ-F-030).
BackoffFollowsFailures ==
  timer \notin {"off", "startup"} => timer = NextAutomaticDelay(failures)

\* The worker has published the snapshot it is about to report.
Committed == worker.step = "finished" /\ worker.error = None

\* The snapshot clients are told about is the one on disk, or the disk already holds that of a
\* check about to complete: a crash can never take back a reported result (REQ-F-032, F-035).
ReportedIsPublished == lastGood # None => file = lastGood \/ (Committed /\ file = worker.snapshot)

\* The properties on D-Bus agree with each other: `checking` with the single-flight flag, the
\* snapshot's time and count with the last good snapshot, the check time with the cooldown's.
StatusCoherent ==
  phase = "up" =>
    /\ status.checking = running
    /\ status.snapshotFetchedAt = FetchedAt(lastGood)
    /\ status.count = CountOf(lastGood)
    /\ status.lastCheckTime = lastCompleted

\* Nobody waits for a check that is not running: a caller that joined is answered by the check
\* it joined, also when it joined from inside another caller's callback.
WaitersHaveACheck == joined # {} => running

\* An on-demand check starts only Cooldown after the last check of this process was done
\* (REQ-F-045), whatever its outcome and origin; while the wall clock keeps time.
CooldownHonoured ==
  [][phase = "up" /\ ~running /\ running' /\ origin' = "OnDemand"
       => lastDone = None \/ steady - lastDone >= Cooldown]_vars

\* Once Cooldown has passed since the last check was done, CheckNow() is no longer ignored
\* (REQ-F-045: eleven seconds after, it produces a call).
CooldownEnds ==
  phase = "up" /\ ~running /\ lastDone # None /\ steady - lastDone >= Cooldown
    => ~CoolingDown("OnDemand")

\* Every check ends, with a result or with the process.
EveryCheckEnds == running ~> ~running

\* A caller that joined is called back unless the process stops.
JoinedAreAnswered ==
  \A c \in Callers : c \in joined ~> (phase # "up" \/ c \notin joined \cup answering)

\* A service that stays up keeps checking.
ChecksRecur == CanCheck /\ <>[](phase = "up") => []<>running

\* The service keeps the promise of CheckPromise: success is reported only for a published
\* result, a failed check leaves the published result alone, and so does a crash or a restart.
Promise == INSTANCE CheckPromise WITH
  Results   <- Snapshot,
  stored    <- IF file \in Snapshot THEN file ELSE None,
  reported  <- lastGood,
  verdict   <- status.result,
  busy      <- running,
  committed <- Committed
KeepsPromise == Promise!Spec
===============================================================================
