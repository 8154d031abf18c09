----------------------- MODULE UpdateCheckServiceProofs -----------------------
(***************************************************************************)
(* Proofs about UpdateCheckService for every set of callers, counts, error *)
(* codes, cooldown, clock behaviour and bound.                             *)
(***************************************************************************)
EXTENDS UpdateCheckService, TLAPS

\* The worker thread and the home thread agree: a task exists exactly while running_ is set, it
\* saves only what the checker returned, and what it reports as a success is on disk.
WorkerInv ==
  /\ running <=> worker.step # "idle"
  /\ worker.step = "saving" => worker.error = None
  /\ worker.step = "saving" \/ Committed =>
       worker.snapshot \in Snapshot /\ worker.snapshot.fetchedAt = worker.at
  /\ Committed => file = worker.snapshot

\* A stopped process remembers nothing.
DownInv ==
  phase = "down" =>
    /\ ~running /\ joined = {} /\ answering = {}
    /\ lastGood = None /\ status = NoStatus /\ timer = "off" /\ failures = 0

Base == TypeOK /\ WorkerInv /\ DownInv

-------------------------------------------------------------------------------
(* Values the definitions build *)

LEMMA InitialRecords == NoStatus \in Status /\ Idle \in Worker
BY ConstantsAssumption DEF NoStatus, Idle, Status, Worker

LEMMA LoadedType ==
  ASSUME TypeOK, NEW readable
  PROVE  /\ Loaded(readable) \in Snapshot \cup {None}
         /\ FetchedAt(Loaded(readable)) \in Int \cup {None}
         /\ CountOf(Loaded(readable)) \in Counts \cup {None}
         /\ Loaded(readable) # None => file = Loaded(readable)
<1>1. /\ Loaded(readable) \in Snapshot \cup {None}
      /\ Loaded(readable) # None => file = Loaded(readable)
  BY DEF Loaded
<1>2. QED
  BY <1>1, SentinelsAssumption DEF FetchedAt, CountOf, Snapshot

LEMMA CompletedStatusType ==
  ASSUME TypeOK, WorkerInv, worker.step = "finished"
  PROVE  CompletedStatus \in Status
<1>1. /\ worker.at \in Int /\ worker.error \in Errors \cup {None}
      /\ status.snapshotFetchedAt \in Int \cup {None} /\ status.count \in Counts \cup {None}
  BY DEF TypeOK, Worker, Status
<1>2. Succeeded => worker.snapshot.count \in Counts
  BY DEF WorkerInv, Committed, Succeeded, Snapshot
<1>3. Result \in Errors \cup {None, "success"}
  BY <1>1 DEF Result
<1>4. QED
  BY <1>1, <1>2, <1>3 DEF CompletedStatus, Status

\* However a check ended, the scheduler's timer runs after onCheckCompleted.
LEMMA OnCheckCompletedArms ==
  ASSUME TypeOK, NEW ok \in BOOLEAN, OnCheckCompleted(ok)
  PROVE  /\ timer' \in {"startup", "5 min", "15 min", "60 min", "interval"}
         /\ failures' \in 0..FailureCap
<1>1. timer' \in {"startup", "5 min", "15 min", "60 min", "interval"}
  BY DEF TypeOK, OnCheckCompleted, OnDemandFailed, OnDemandSucceeded, Arm, NextAutomaticDelay
<1>2. failures \in 0..4
  BY DEF TypeOK, FailureCap
<1>3. \/ failures' = 0 \/ failures' = failures
      \/ failures < 4 /\ failures' = failures + 1
  BY DEF OnCheckCompleted, OnDemandFailed, OnDemandSucceeded, FailureCap
<1>4. failures' \in 0..4
  BY <1>2, <1>3
<1>5. QED
  BY <1>1, <1>4 DEF FailureCap

-------------------------------------------------------------------------------
(* Base is inductive: one lemma per kind of step *)

LEMMA InitBase == Init => Base
<1> SUFFICES ASSUME Init PROVE Base
  OBVIOUS
<1>1. /\ phase \in {"down", "up", "quitting"}
      /\ running \in BOOLEAN /\ origin \in {"Automatic", "OnDemand"}
      /\ joined \subseteq Callers /\ answering \subseteq Callers
      /\ lastCompleted \in Int \cup {None} /\ lastDone \in Int \cup {None}
  BY DEF Init
<1>2. status \in Status /\ worker \in Worker /\ lastGood \in Snapshot \cup {None}
  BY InitialRecords DEF Init
<1>3. timer \in {"off", "startup", "5 min", "15 min", "60 min", "interval"}
      /\ failures \in 0..FailureCap
  BY DEF Init, FailureCap
<1>4. /\ file \in Snapshot \cup {None, Invalid} /\ history \in History \cup {None}
      /\ steady \in Nat /\ skew \in Int
  BY DEF Init
<1>5. WorkerInv
  BY DEF Init, WorkerInv, Committed, Idle
<1>6. DownInv
  BY DEF Init, DownInv
<1>7. QED
  BY <1>1, <1>2, <1>3, <1>4, <1>5, <1>6 DEF Base, TypeOK

LEMMA ForgetBase ==
  ASSUME Base, Forget
  PROVE  Base'
<1>1. /\ phase' \in {"down", "up", "quitting"}
      /\ running' \in BOOLEAN /\ origin' \in {"Automatic", "OnDemand"}
      /\ joined' \subseteq Callers /\ answering' \subseteq Callers
      /\ lastCompleted' \in Int \cup {None} /\ lastDone' \in Int \cup {None}
      /\ timer' \in {"off", "startup", "5 min", "15 min", "60 min", "interval"}
  BY DEF Forget
<1>2. status' \in Status /\ worker' \in Worker /\ lastGood' \in Snapshot \cup {None}
  BY InitialRecords DEF Forget
<1>3. /\ file' \in Snapshot \cup {None, Invalid} /\ history' \in History \cup {None}
      /\ steady' \in Nat /\ skew' \in Int
  BY DEF Forget, Base, TypeOK, disk, clock
<1>4. failures' \in 0..FailureCap
  BY DEF Forget, FailureCap
<1>5. WorkerInv'
  BY DEF Forget, WorkerInv, Committed, Idle
<1>6. DownInv'
  BY DEF Forget, DownInv, NoStatus
<1>7. QED
  BY <1>1, <1>2, <1>3, <1>4, <1>5, <1>6 DEF Base, TypeOK

LEMMA StartBase ==
  ASSUME Base, Start
  PROVE  Base'
<1>1. PICK readable \in BOOLEAN, removable \in BOOLEAN :
        LET known == IF CanCheck THEN history ELSE None IN
        /\ lastGood' = Loaded(readable)
        /\ lastCompleted' = IF known = None THEN None ELSE known.completed
        /\ status' = [checking |-> FALSE,
                      result |-> IF known = None THEN None ELSE known.result,
                      lastCheckTime |-> IF known = None THEN None ELSE known.completed,
                      snapshotFetchedAt |-> FetchedAt(Loaded(readable)),
                      count |-> CountOf(Loaded(readable))]
        /\ file' = IF CanCheck /\ readable /\ file = Invalid /\ removable THEN None ELSE file
  BY DEF Start
<1>2. /\ Loaded(readable) \in Snapshot \cup {None}
      /\ FetchedAt(Loaded(readable)) \in Int \cup {None}
      /\ CountOf(Loaded(readable)) \in Counts \cup {None}
  BY LoadedType DEF Base
<1>3. history = None \/ (history.completed \in Int /\ history.result \in Errors \cup {"success"})
  BY DEF Base, TypeOK, History
<1>4. status' \in Status /\ lastCompleted' \in Int \cup {None}
  BY <1>1, <1>2, <1>3 DEF Status
<1>5. file' \in Snapshot \cup {None, Invalid}
  BY <1>1 DEF Base, TypeOK
<1>6. /\ phase' = "up" /\ timer' \in {"startup", "off"} /\ lastGood' \in Snapshot \cup {None}
      /\ UNCHANGED <<running, origin, joined, answering, lastDone, worker, failures, history,
                     steady, skew>>
  BY <1>1, <1>2 DEF Start, clock
<1>7. TypeOK'
  BY <1>4, <1>5, <1>6 DEF Base, TypeOK
<1>8. WorkerInv'
  BY <1>6 DEF Start, Base, WorkerInv, DownInv, Committed
<1>9. QED
  BY <1>6, <1>7, <1>8 DEF Base, DownInv

\* A request joins, is ignored, or begins a check; the three cases leave Base alone.
LEMMA HandleRequestBase ==
  ASSUME Base, phase = "up", NEW o \in {"Automatic", "OnDemand"}, NEW cs \in SUBSET Callers,
         HandleRequest(o, cs), UNCHANGED <<phase, disk, clock>>,
         timer' \in {timer, "off"}, failures' = failures
  PROVE  Base'
<1>1. /\ running' \in BOOLEAN /\ origin' \in {"Automatic", "OnDemand"} /\ joined' \subseteq Callers
      /\ status' \in Status /\ worker' \in Worker
  <2>1. [Idle EXCEPT !.step = "checking"] \in Worker
    BY InitialRecords DEF Worker
  <2>2. [status EXCEPT !.checking = TRUE] \in Status
    BY DEF Base, TypeOK, Status
  <2>3. QED
    BY <2>1, <2>2 DEF HandleRequest, BeginCheck, Base, TypeOK
<1>2. TypeOK'
  BY <1>1 DEF HandleRequest, Base, TypeOK, disk, clock
<1>3. WorkerInv'
  BY DEF HandleRequest, BeginCheck, Base, WorkerInv, Committed, disk, Idle
<1>4. QED
  BY <1>2, <1>3 DEF Base, DownInv

LEMMA WorkerCheckBase ==
  ASSUME Base, WorkerCheck
  PROVE  Base'
<1>1. Now \in Int /\ steady \in Int
  <2>1. steady \in Nat /\ skew \in Int
    BY DEF Base, TypeOK
  <2>2. QED
    BY <2>1 DEF Now
<1>2. worker' \in Worker
  <2>1. CASE \E n \in Counts :
               worker' = [step |-> "saving", error |-> None,
                          snapshot |-> [count |-> n, fetchedAt |-> Now],
                          at |-> Now, steadyAt |-> steady]
    BY <1>1, <2>1 DEF Worker, Snapshot
  <2>2. CASE \E e \in Errors :
               worker' = [step |-> "finished", error |-> e, snapshot |-> None,
                          at |-> Now, steadyAt |-> steady]
    BY <1>1, <2>2 DEF Worker
  <2>3. QED
    BY <2>1, <2>2 DEF WorkerCheck
<1>3. TypeOK'
  BY <1>2 DEF WorkerCheck, Base, TypeOK, home, sched, disk, clock
<1>4. WorkerInv'
  BY <1>1, ConstantsAssumption
     DEF WorkerCheck, Base, WorkerInv, Committed, home, disk, Snapshot
<1>5. QED
  BY <1>3, <1>4 DEF Base, DownInv, WorkerCheck

LEMMA WorkerSaveBase ==
  ASSUME Base, WorkerSave
  PROVE  Base'
<1>1. worker' \in Worker /\ worker.snapshot \in Snapshot
  BY ConstantsAssumption DEF WorkerSave, SaveSnapshot, Base, TypeOK, WorkerInv, Worker
<1>2. TypeOK'
  BY <1>1 DEF WorkerSave, SaveSnapshot, Base, TypeOK, home, sched, clock
<1>3. WorkerInv'
  BY ConstantsAssumption
     DEF WorkerSave, SaveSnapshot, Base, TypeOK, Worker, WorkerInv, Committed, home
<1>4. QED
  BY <1>2, <1>3 DEF Base, DownInv, WorkerSave

LEMMA CompleteBase ==
  ASSUME Base, Complete
  PROVE  Base'
<1>1. /\ timer' \in {"startup", "5 min", "15 min", "60 min", "interval"}
      /\ failures' \in 0..FailureCap
  BY OnCheckCompletedArms DEF Complete, Base, Succeeded
<1>2. status' \in Status /\ worker' \in Worker
  BY CompletedStatusType, InitialRecords DEF Complete, Base
<1>3. /\ lastGood' \in Snapshot \cup {None} /\ lastCompleted' \in Int /\ lastDone' \in Int
  BY DEF Complete, Base, TypeOK, WorkerInv, Committed, Succeeded, RememberCompletion, Worker
<1>4. history' \in History \cup {None}
  <2>1. [completed |-> worker.at, result |-> Result] \in History
    BY DEF Base, TypeOK, Result, Succeeded, Worker, History
  <2>2. QED
    BY <2>1 DEF Complete, Base, TypeOK
<1>5. TypeOK'
  BY <1>1, <1>2, <1>3, <1>4
     DEF Complete, Base, TypeOK, StopRunning, TakeJoined, clock
<1>6. WorkerInv'
  BY DEF Complete, WorkerInv, Committed, Idle, StopRunning
<1>7. QED
  BY <1>5, <1>6 DEF Base, DownInv, Complete

LEMMA NextBase == Base /\ [Next]_vars => Base'
<1> SUFFICES ASSUME Base, [Next]_vars PROVE Base'
  OBVIOUS
<1>1. CASE Start
  BY <1>1, StartBase
<1>2. CASE Crash \/ Exit
  BY <1>2, ForgetBase DEF Crash, Exit
<1>3. CASE Quit
  <2>1. TypeOK'
    BY <1>3 DEF Quit, Base, TypeOK, home, sched, disk, clock
  <2>2. WorkerInv'
    BY <1>3 DEF Quit, Base, WorkerInv, Committed, home, disk
  <2>3. DownInv'
    BY <1>3 DEF Quit, Base, DownInv, home, sched
  <2>4. QED
    BY <2>1, <2>2, <2>3 DEF Base
<1>4. ASSUME NEW cs \in SUBSET Callers, RequestCheck(cs) PROVE Base'
  BY <1>4, HandleRequestBase DEF RequestCheck, sched
<1>5. CASE TimerFires
  BY <1>5, HandleRequestBase DEF TimerFires
<1>6. CASE WorkerCheck
  BY <1>6, WorkerCheckBase
<1>7. CASE WorkerSave
  BY <1>7, WorkerSaveBase
<1>8. CASE Complete
  BY <1>8, CompleteBase
<1>9. CASE AnswerJoined
  <2>1. TypeOK'
    BY <1>9 DEF AnswerJoined, Base, TypeOK, home, sched, disk, clock
  <2>2. WorkerInv'
    BY <1>9 DEF AnswerJoined, Base, WorkerInv, Committed, home, disk
  <2>3. DownInv'
    BY <1>9 DEF AnswerJoined, Base, DownInv, home, sched
  <2>4. QED
    BY <2>1, <2>2, <2>3 DEF Base
<1>10. CASE Tick \/ AdjustClock
  <2>0. steady' \in Nat /\ skew' \in Int
    <3>1. steady \in Nat /\ skew \in Int
      BY DEF Base, TypeOK
    <3>2. CASE Tick
      BY <3>1, <3>2 DEF Tick
    <3>3. CASE AdjustClock
      BY <3>1, <3>3, ConstantsAssumption DEF AdjustClock
    <3>4. QED
      BY <1>10, <3>2, <3>3
  <2>1. TypeOK'
    BY <1>10, <2>0 DEF Tick, AdjustClock, Base, TypeOK, home, sched, disk
  <2>2. WorkerInv'
    BY <1>10 DEF Tick, AdjustClock, Base, WorkerInv, Committed, home, disk
  <2>3. DownInv'
    BY <1>10 DEF Tick, AdjustClock, Base, DownInv, home, sched
  <2>4. QED
    BY <2>1, <2>2, <2>3 DEF Base
<1>11. CASE UNCHANGED vars
  <2>1. TypeOK'
    BY <1>11 DEF vars, Base, TypeOK, home, sched, disk, clock
  <2>2. WorkerInv'
    BY <1>11 DEF vars, Base, WorkerInv, Committed, home, disk
  <2>3. DownInv'
    BY <1>11 DEF vars, Base, DownInv, home, sched
  <2>4. QED
    BY <2>1, <2>2, <2>3 DEF Base
<1>12. QED
  BY <1>1, <1>2, <1>3, <1>4, <1>5, <1>6, <1>7, <1>8, <1>9, <1>10, <1>11 DEF Next

LEMMA BaseInvariant == Spec => []Base
BY InitBase, NextBase, PTL DEF Spec

\* Every variable keeps its type, in every reachable state.
THEOREM TypeCorrect == Spec => []TypeOK
<1>1. Base => TypeOK
  BY DEF Base
<1>2. QED
  BY <1>1, BaseInvariant, PTL

-------------------------------------------------------------------------------
(* Safety invariants, each inductive relative to Base *)

\* While the service is up an automatic check is always ahead: the timer runs or a check does.
THEOREM ScheduleStaysAlive == Spec => []ScheduleAlive
<1>1. Init => ScheduleAlive
  BY DEF Init, ScheduleAlive
<1>2. Base /\ ScheduleAlive /\ [Next]_vars => ScheduleAlive'
  <2> SUFFICES ASSUME Base, ScheduleAlive, [Next]_vars PROVE ScheduleAlive'
    OBVIOUS
  <2>1. CASE Start
    BY <2>1 DEF Start, ScheduleAlive
  <2>2. CASE Crash \/ Exit \/ Quit
    BY <2>2 DEF Crash, Exit, Quit, Forget, ScheduleAlive
  <2>3. ASSUME NEW cs, RequestCheck(cs) PROVE ScheduleAlive'
    BY <2>3 DEF RequestCheck, HandleRequest, BeginCheck, sched, ScheduleAlive
  <2>4. CASE TimerFires
    BY <2>4 DEF TimerFires, HandleRequest, BeginCheck, CoolingDown, ScheduleAlive
  <2>5. CASE WorkerCheck \/ WorkerSave \/ AnswerJoined
    BY <2>5 DEF WorkerCheck, WorkerSave, AnswerJoined, home, sched, ScheduleAlive
  <2>6. CASE Complete
    BY <2>6, OnCheckCompletedArms DEF Complete, Succeeded, Base, ScheduleAlive
  <2>7. CASE Tick \/ AdjustClock \/ UNCHANGED vars
    BY <2>7 DEF Tick, AdjustClock, vars, home, sched, ScheduleAlive
  <2>8. QED
    BY <2>1, <2>2, <2>3, <2>4, <2>5, <2>6, <2>7 DEF Next
<1>3. QED
  BY <1>1, <1>2, BaseInvariant, PTL DEF Spec

\* A pending automatic check waits as long as the failures counted so far say.
THEOREM BackoffIsFollowed == Spec => []BackoffFollowsFailures
<1>1. Init => BackoffFollowsFailures
  BY DEF Init, BackoffFollowsFailures
<1>2. BackoffFollowsFailures /\ [Next]_vars => BackoffFollowsFailures'
  <2> SUFFICES ASSUME BackoffFollowsFailures, [Next]_vars PROVE BackoffFollowsFailures'
    OBVIOUS
  <2>1. CASE Start \/ Crash \/ Exit
    BY <2>1 DEF Start, Crash, Exit, Forget, BackoffFollowsFailures
  <2>2. CASE Quit \/ WorkerCheck \/ WorkerSave \/ AnswerJoined
    BY <2>2 DEF Quit, WorkerCheck, WorkerSave, AnswerJoined, sched, BackoffFollowsFailures
  <2>3. ASSUME NEW cs, RequestCheck(cs) PROVE BackoffFollowsFailures'
    BY <2>3 DEF RequestCheck, sched, BackoffFollowsFailures
  <2>4. CASE TimerFires
    BY <2>4 DEF TimerFires, BackoffFollowsFailures
  <2>5. CASE Complete
    BY <2>5 DEF Complete, OnCheckCompleted, OnDemandFailed, OnDemandSucceeded, Arm,
                BackoffFollowsFailures
  <2>6. CASE Tick \/ AdjustClock \/ UNCHANGED vars
    BY <2>6 DEF Tick, AdjustClock, vars, sched, BackoffFollowsFailures
  <2>7. QED
    BY <2>1, <2>2, <2>3, <2>4, <2>5, <2>6 DEF Next
<1>3. QED
  BY <1>1, <1>2, PTL DEF Spec

\* Nobody waits for a check that is not running.
THEOREM WaitersAreServed == Spec => []WaitersHaveACheck
<1>1. Init => WaitersHaveACheck
  BY DEF Init, WaitersHaveACheck
<1>2. Base /\ WaitersHaveACheck /\ [Next]_vars => WaitersHaveACheck'
  <2> SUFFICES ASSUME Base, WaitersHaveACheck, [Next]_vars PROVE WaitersHaveACheck'
    OBVIOUS
  <2>1. CASE Start \/ Crash \/ Exit
    BY <2>1 DEF Start, Crash, Exit, Forget, WaitersHaveACheck
  <2>2. CASE Quit \/ WorkerCheck \/ WorkerSave \/ AnswerJoined
    BY <2>2 DEF Quit, WorkerCheck, WorkerSave, AnswerJoined, home, WaitersHaveACheck
  <2>3. ASSUME NEW cs, RequestCheck(cs) PROVE WaitersHaveACheck'
    BY <2>3 DEF RequestCheck, HandleRequest, BeginCheck, WaitersHaveACheck
  <2>4. CASE TimerFires
    BY <2>4 DEF TimerFires, HandleRequest, BeginCheck, WaitersHaveACheck
  <2>5. CASE Complete
    BY <2>5 DEF Complete, TakeJoined, WaitersHaveACheck
  <2>6. CASE Tick \/ AdjustClock \/ UNCHANGED vars
    BY <2>6 DEF Tick, AdjustClock, vars, home, WaitersHaveACheck
  <2>7. QED
    BY <2>1, <2>2, <2>3, <2>4, <2>5, <2>6 DEF Next
<1>3. QED
  BY <1>1, <1>2, BaseInvariant, PTL DEF Spec

\* What D-Bus clients read is coherent: `checking` with the single-flight flag, the snapshot's
\* time and count with the last good snapshot, the check time with the cooldown's.
THEOREM StatusIsCoherent == Spec => []StatusCoherent
<1>1. Init => StatusCoherent
  BY DEF Init, StatusCoherent
<1>2. Base /\ StatusCoherent /\ [Next]_vars => StatusCoherent'
  <2> SUFFICES ASSUME Base, StatusCoherent, [Next]_vars PROVE StatusCoherent'
    OBVIOUS
  <2>1. CASE Start
    <3>1. PICK readable \in BOOLEAN, removable \in BOOLEAN :
            LET known == IF CanCheck THEN history ELSE None IN
            /\ lastGood' = Loaded(readable)
            /\ lastCompleted' = IF known = None THEN None ELSE known.completed
            /\ status' = [checking |-> FALSE,
                          result |-> IF known = None THEN None ELSE known.result,
                          lastCheckTime |-> IF known = None THEN None ELSE known.completed,
                          snapshotFetchedAt |-> FetchedAt(Loaded(readable)),
                          count |-> CountOf(Loaded(readable))]
      BY <2>1 DEF Start
    <3>2. ~running'
      BY <2>1 DEF Start, Base, DownInv
    <3>3. status'.checking = FALSE /\ status'.lastCheckTime = lastCompleted'
      BY <3>1
    <3>4. /\ status'.snapshotFetchedAt = FetchedAt(lastGood')
          /\ status'.count = CountOf(lastGood')
      BY <3>1
    <3>5. running' = FALSE
      BY <3>2, <2>1 DEF Start, Base, TypeOK
    <3>6. QED
      BY <3>3, <3>4, <3>5 DEF StatusCoherent, FetchedAt, CountOf
  <2>2. CASE Crash \/ Exit \/ Quit
    BY <2>2 DEF Crash, Exit, Quit, Forget, StatusCoherent
  <2>3. CASE WorkerCheck \/ WorkerSave \/ AnswerJoined
    BY <2>3 DEF WorkerCheck, WorkerSave, AnswerJoined, home, StatusCoherent
  <2>4. ASSUME NEW o, NEW cs, phase = "up", HandleRequest(o, cs) PROVE StatusCoherent'
    BY <2>4 DEF HandleRequest, BeginCheck, Base, TypeOK, Status, StatusCoherent
  <2>5. CASE Complete
    <3>1. CASE Succeeded
      <4>1. worker.snapshot \in Snapshot /\ worker.snapshot.fetchedAt = worker.at
        BY <2>5, <3>1 DEF Complete, Base, WorkerInv, Committed, Succeeded
      <4>2. worker.snapshot # None
        BY <4>1, SentinelsAssumption
      <4>3. QED
        BY <2>5, <3>1, <4>1, <4>2
           DEF Complete, CompletedStatus, StopRunning, RememberCompletion, FetchedAt, CountOf,
               StatusCoherent
    <3>2. CASE ~Succeeded
      BY <2>5, <3>2
         DEF Complete, CompletedStatus, StopRunning, RememberCompletion, FetchedAt, CountOf,
             StatusCoherent
    <3>3. QED
      BY <3>1, <3>2
  <2>6. CASE Tick \/ AdjustClock \/ UNCHANGED vars
    BY <2>6 DEF Tick, AdjustClock, vars, home, StatusCoherent
  <2>7. QED
    BY <2>1, <2>2, <2>3, <2>4, <2>5, <2>6 DEF Next, RequestCheck, TimerFires
<1>3. QED
  BY <1>1, <1>2, BaseInvariant, PTL DEF Spec

LEMMA ReportedStep == Base /\ ReportedIsPublished /\ [Next]_vars => ReportedIsPublished'
<1> SUFFICES ASSUME Base, ReportedIsPublished, [Next]_vars PROVE ReportedIsPublished'
  OBVIOUS
<1>1. CASE Start
  <2>1. PICK readable \in BOOLEAN, removable \in BOOLEAN :
          /\ lastGood' = Loaded(readable)
          /\ file' = IF CanCheck /\ readable /\ file = Invalid /\ removable THEN None ELSE file
    BY <1>1 DEF Start
  <2>2. QED
    BY <2>1, SentinelsAssumption DEF Loaded, ReportedIsPublished
<1>2. CASE Crash \/ Exit
  BY <1>2 DEF Crash, Exit, Forget, ReportedIsPublished
<1>3. CASE Quit \/ AnswerJoined
  BY <1>3 DEF Quit, AnswerJoined, home, disk, Committed, ReportedIsPublished
<1>4. ASSUME NEW o, NEW cs, HandleRequest(o, cs), UNCHANGED disk PROVE ReportedIsPublished'
  BY <1>4 DEF HandleRequest, BeginCheck, disk, Base, WorkerInv, Committed, ReportedIsPublished
<1>5. CASE WorkerCheck
  BY <1>5 DEF WorkerCheck, home, disk, Committed, ReportedIsPublished
<1>6. CASE WorkerSave
  BY <1>6 DEF WorkerSave, SaveSnapshot, home, Base, TypeOK, Worker, WorkerInv, Committed,
              ReportedIsPublished
<1>7. CASE Complete
  BY <1>7 DEF Complete, Succeeded, Base, WorkerInv, Committed, ReportedIsPublished
<1>8. CASE Tick \/ AdjustClock \/ UNCHANGED vars
  BY <1>8 DEF Tick, AdjustClock, vars, home, disk, Committed, ReportedIsPublished
<1>9. QED
  BY <1>1, <1>2, <1>3, <1>4, <1>5, <1>6, <1>7, <1>8 DEF Next, RequestCheck, TimerFires

\* What clients were told is on disk, so a crash can never take back a reported result.
THEOREM ReportsAreDurable == Spec => []ReportedIsPublished
<1>1. Init => ReportedIsPublished
  BY DEF Init, ReportedIsPublished
<1>2. QED
  BY <1>1, ReportedStep, BaseInvariant, PTL DEF Spec

-------------------------------------------------------------------------------
(* The service implements CheckPromise *)

\* A remembered success has a published snapshot behind it.
HistoryBacked == history # None /\ history.result = "success" => file \in Snapshot

LEMMA HistoryStep == Base /\ HistoryBacked /\ [Next]_vars => HistoryBacked'
<1> SUFFICES ASSUME Base, HistoryBacked, [Next]_vars PROVE HistoryBacked'
  OBVIOUS
<1>1. ASSUME UNCHANGED history, file' \in {file} \cup Snapshot PROVE HistoryBacked'
  BY <1>1 DEF HistoryBacked
<1>2. CASE Start
  <2>1. history' = history /\ (file' = file \/ file = Invalid)
    BY <1>2 DEF Start
  <2>2. QED
    BY <2>1, SentinelsAssumption DEF HistoryBacked
<1>3. CASE Complete
  <2>1. file' = file /\ (history' = history \/ history'.result = Result)
    BY <1>3 DEF Complete
  <2>2. Result = "success" => file \in Snapshot
    BY <1>3, ConstantsAssumption
       DEF Complete, Result, Succeeded, Base, TypeOK, Worker, WorkerInv, Committed
  <2>3. QED
    BY <2>1, <2>2 DEF HistoryBacked
<1>4. CASE WorkerSave
  BY <1>4, <1>1 DEF WorkerSave, SaveSnapshot, Base, WorkerInv
<1>5. CASE UNCHANGED disk
  BY <1>5, <1>1 DEF disk
<1>6. QED
  BY <1>2, <1>3, <1>4, <1>5
     DEF Next, Crash, Exit, Forget, Quit, RequestCheck, TimerFires, AnswerJoined, WorkerCheck,
         Tick, AdjustClock, vars

PublishedFile == IF file \in Snapshot THEN file ELSE None

LEMMA PromiseInit == Init => Promise!Init
BY SentinelsAssumption DEF Init, Promise!Init, NoStatus, Committed, Idle

LEMMA PromiseStart ==
  ASSUME Base, HistoryBacked, ReportedIsPublished, Start
  PROVE  Promise!Restore
<1>1. PICK readable \in BOOLEAN, removable \in BOOLEAN :
        LET known == IF CanCheck THEN history ELSE None IN
        /\ lastGood' = Loaded(readable)
        /\ status' = [checking |-> FALSE,
                      result |-> IF known = None THEN None ELSE known.result,
                      lastCheckTime |-> IF known = None THEN None ELSE known.completed,
                      snapshotFetchedAt |-> FetchedAt(Loaded(readable)),
                      count |-> CountOf(Loaded(readable))]
        /\ file' = IF CanCheck /\ readable /\ file = Invalid /\ removable THEN None ELSE file
  BY DEF Start
<1>2. ~running /\ lastGood = None /\ status.result = None
  BY DEF Start, Base, DownInv, NoStatus
<1>3. lastGood' \in {PublishedFile, None}
  BY <1>1 DEF Loaded, PublishedFile
<1>4. PublishedFile' = PublishedFile
  BY <1>1, SentinelsAssumption DEF PublishedFile
<1>5. status'.result = None \/ (history # None /\ status'.result = history.result)
  BY <1>1
<1>6. status'.result \in Errors \cup {None} \cup (IF PublishedFile = None THEN {} ELSE {"success"})
  BY <1>5, SentinelsAssumption
     DEF PublishedFile, Base, TypeOK, History, HistoryBacked
<1>7. UNCHANGED <<running, Committed>>
  BY DEF Start, Committed
<1>8. QED
  BY <1>2, <1>3, <1>4, <1>6, <1>7 DEF Promise!Restore, PublishedFile

LEMMA PromiseComplete ==
  ASSUME Base, ReportedIsPublished, Complete
  PROVE  Promise!Succeed \/ Promise!Fail
<1>1. running /\ running' = FALSE /\ UNCHANGED file /\ ~Committed'
  BY DEF Complete, StopRunning, Base, WorkerInv, Committed, Idle
<1>2. Committed' = FALSE /\ status'.result = Result
  BY <1>1 DEF Complete, CompletedStatus, Committed
<1>3. CASE Succeeded
  <2>1. Committed /\ file \in Snapshot /\ lastGood' = file
    BY <1>3 DEF Complete, Succeeded, Base, WorkerInv, Committed
  <2>2. QED
    BY <1>1, <1>2, <1>3, <2>1 DEF Promise!Succeed, Result
<1>4. CASE ~Succeeded
  <2>1. Committed = FALSE /\ lastGood' = lastGood /\ Result \in Errors
    BY <1>4 DEF Complete, Succeeded, Result, Committed, Base, TypeOK, Worker
  <2>2. QED
    BY <1>1, <1>2, <2>1 DEF Promise!Fail
<1>5. QED
  BY <1>3, <1>4

LEMMA PromiseSave ==
  ASSUME Base, WorkerSave
  PROVE  Promise!Commit \/ UNCHANGED Promise!vars
<1>1. running /\ Committed = FALSE /\ worker.snapshot \in Snapshot
  BY DEF WorkerSave, Base, WorkerInv, Committed
<1>2. UNCHANGED <<running, lastGood, status>>
  BY DEF WorkerSave, home
<1>3. CASE file' = worker.snapshot /\ worker' = [worker EXCEPT !.step = "finished"]
  <2>1. Committed' = TRUE
    BY <1>3 DEF WorkerSave, Base, TypeOK, Worker, WorkerInv, Committed
  <2>2. QED
    BY <1>1, <1>2, <1>3, <2>1 DEF Promise!Commit
<1>4. CASE UNCHANGED file /\ worker' = [worker EXCEPT !.step = "finished", !.error = "Unknown"]
  <2>1. Committed' = FALSE
    BY <1>4, ConstantsAssumption DEF Base, TypeOK, Worker, Committed
  <2>2. QED
    BY <1>1, <1>2, <1>4, <2>1 DEF Promise!vars
<1>5. QED
  BY <1>3, <1>4 DEF WorkerSave, SaveSnapshot

LEMMA PromiseRequest ==
  ASSUME Base, NEW o, NEW cs, HandleRequest(o, cs), UNCHANGED disk
  PROVE  Promise!Begin \/ UNCHANGED Promise!vars
<1>1. UNCHANGED <<file, lastGood>>
  BY DEF HandleRequest, disk
<1>2. CASE UNCHANGED <<running, status, worker>>
  BY <1>1, <1>2 DEF Promise!vars, Committed
<1>3. CASE ~running /\ BeginCheck(o)
  <2>1. Committed = FALSE /\ Committed' = FALSE
    BY <1>3 DEF BeginCheck, Base, WorkerInv, Committed, Idle
  <2>2. running = FALSE /\ running' = TRUE /\ status'.result = status.result
    BY <1>3 DEF BeginCheck, Base, TypeOK, Status
  <2>3. QED
    BY <1>1, <2>1, <2>2 DEF Promise!Begin
<1>4. QED
  BY <1>2, <1>3 DEF HandleRequest

LEMMA PromiseStep ==
  Base /\ HistoryBacked /\ ReportedIsPublished /\ [Next]_vars => [Promise!Next]_(Promise!vars)
<1> SUFFICES ASSUME Base, HistoryBacked, ReportedIsPublished, [Next]_vars
             PROVE  Promise!Next \/ UNCHANGED Promise!vars
  OBVIOUS
<1>1. CASE Start
  BY <1>1, PromiseStart DEF Promise!Next
<1>2. CASE Crash \/ Exit
  <2>1. UNCHANGED file /\ running' = FALSE /\ Committed' = FALSE
    BY <1>2 DEF Crash, Exit, Forget, disk, Committed, Idle
  <2>2. lastGood' = None /\ status'.result = None
    BY <1>2 DEF Crash, Exit, Forget, NoStatus
  <2>3. QED
    BY <2>1, <2>2 DEF Promise!Next, Promise!Stop
<1>3. CASE Quit \/ AnswerJoined \/ Tick \/ AdjustClock \/ UNCHANGED vars
  BY <1>3 DEF Quit, AnswerJoined, Tick, AdjustClock, vars, home, disk, Committed, Promise!vars
<1>4. ASSUME NEW cs, RequestCheck(cs) PROVE Promise!Next \/ UNCHANGED Promise!vars
  BY <1>4, PromiseRequest DEF RequestCheck, Promise!Next
<1>5. CASE TimerFires
  BY <1>5, PromiseRequest DEF TimerFires, Promise!Next
<1>6. CASE WorkerCheck
  <2>1. Committed = FALSE /\ Committed' = FALSE
    BY <1>6, ConstantsAssumption DEF WorkerCheck, Committed
  <2>2. QED
    BY <1>6, <2>1 DEF WorkerCheck, home, disk, Promise!vars
<1>7. CASE WorkerSave
  BY <1>7, PromiseSave DEF Promise!Next
<1>8. CASE Complete
  BY <1>8, PromiseComplete DEF Promise!Next
<1>9. QED
  BY <1>1, <1>2, <1>3, <1>4, <1>5, <1>6, <1>7, <1>8 DEF Next

\* The detailed service implements the abstract promise: success is reported only for a published
\* result; failures, crashes and restarts leave the published result alone.
THEOREM PromiseKept == Spec => KeepsPromise
<1>1. Init => ReportedIsPublished /\ HistoryBacked
  BY DEF Init, ReportedIsPublished, HistoryBacked
<1>2. QED
  BY <1>1, PromiseInit, PromiseStep, HistoryStep, ReportedStep, BaseInvariant, PTL
     DEF Spec, KeepsPromise, Promise!Spec
-------------------------------------------------------------------------------
(* The cooldown in elapsed time *)

\* The wall clock is never set forward; it may be set back, or keep time.
NotSetForward == skew' <= skew

\* A check's completion, in wall clock time, is not earlier than its elapsed time and the clock's
\* present lead say: the lead can only have shrunk since.
StampInv ==
  /\ worker.step \in {"saving", "finished"} => worker.steadyAt + skew <= worker.at
  /\ lastDone # None => lastCompleted \in Int /\ lastDone + skew <= lastCompleted
  /\ phase = "down" => lastDone = None

\* What holds of a lead holds of a smaller one.
LEMMA LeadShrinks ==
  ASSUME NEW done \in Int, NEW completed \in Int, NEW lead \in Int, NEW later \in Int,
         done + lead <= completed, later <= lead
  PROVE  done + later <= completed
OBVIOUS

LEMMA StampStep ==
  ASSUME Base, StampInv, Next \/ UNCHANGED vars, NotSetForward \/ UNCHANGED skew
  PROVE  StampInv'
<1> USE DEF home, sched, clock, disk
<1>1. /\ skew \in Int /\ skew' \in Int /\ skew' <= skew /\ steady \in Nat
      /\ worker.at \in Int /\ worker.steadyAt \in Int
      /\ lastCompleted \in Int \cup {None} /\ lastDone \in Int \cup {None}
  <2>1. TypeOK /\ TypeOK'
    BY NextBase DEF Base
  <2>2. skew \in Int /\ skew' \in Int /\ steady \in Nat
    BY <2>1 DEF TypeOK
  <2>3. skew' <= skew
    BY <2>2 DEF NotSetForward
  <2>4. QED
    BY <2>1, <2>2, <2>3 DEF TypeOK, Worker
<1>2. ASSUME UNCHANGED <<worker, lastDone, lastCompleted>>, phase' = "down" => phase = "down"
      PROVE  StampInv'
  <2>1. worker.step \in {"saving", "finished"} => worker.steadyAt + skew' <= worker.at
    BY <1>1 DEF StampInv
  <2>2. lastDone # None => lastCompleted \in Int /\ lastDone + skew' <= lastCompleted
    <3>1. lastDone # None => lastDone \in Int /\ lastCompleted \in Int /\ lastDone + skew <= lastCompleted
      BY <1>1, Zenon DEF StampInv
    <3>2. QED
      BY <1>1, <3>1, LeadShrinks, Zenon
  <2>3. QED
    BY <1>2, <2>1, <2>2 DEF StampInv
<1>3. CASE Start
  <2>1. phase = "down" /\ worker.step = "idle" /\ UNCHANGED <<worker, lastDone>>
    BY <1>3 DEF Start, Base, WorkerInv, DownInv
  <2>2. QED
    BY <2>1 DEF StampInv
<1>4. CASE Crash \/ Exit
  BY <1>4 DEF Crash, Exit, Forget, Idle, StampInv
<1>5. ASSUME NEW o, NEW cs, HandleRequest(o, cs), phase' = phase PROVE StampInv'
  <2>1. UNCHANGED worker \/ worker'.step = "checking"
    BY <1>5 DEF HandleRequest, BeginCheck, Idle
  <2>2. UNCHANGED <<lastDone, lastCompleted>>
    BY <1>5 DEF HandleRequest
  <2>3. worker'.step \in {"saving", "finished"} => worker'.steadyAt + skew' <= worker'.at
    BY <1>1, <2>1 DEF StampInv
  <2>4. lastDone # None => lastCompleted \in Int /\ lastDone + skew' <= lastCompleted
    <3>1. lastDone # None => lastDone \in Int /\ lastCompleted \in Int /\ lastDone + skew <= lastCompleted
      BY <1>1, Zenon DEF StampInv
    <3>2. QED
      BY <1>1, <3>1, LeadShrinks, Zenon
  <2>5. QED
    BY <1>5, <2>2, <2>3, <2>4 DEF StampInv
<1>6. CASE WorkerCheck
  <2>1. worker'.at = steady + skew /\ worker'.steadyAt = steady
        /\ UNCHANGED <<lastDone, lastCompleted, skew, phase>>
    BY <1>6 DEF WorkerCheck, Now
  <2>2. QED
    BY <1>1, <2>1 DEF StampInv
<1>7. CASE WorkerSave
  <2>1. worker.step = "saving" /\ worker'.at = worker.at /\ worker'.steadyAt = worker.steadyAt
        /\ UNCHANGED <<lastDone, lastCompleted, skew, phase>>
    BY <1>7 DEF WorkerSave, SaveSnapshot, Base, TypeOK, Worker
  <2>2. QED
    BY <1>1, <2>1 DEF StampInv
<1>8. CASE Complete
  <2>1. worker.step = "finished" /\ worker'.step = "idle" /\ phase' = "up" /\ skew' = skew
        /\ lastDone' = worker.steadyAt /\ lastCompleted' = worker.at
    BY <1>8 DEF Complete, RememberCompletion, Idle
  <2>2. QED
    BY <1>1, <2>1 DEF StampInv
<1>9. QED
  BY <1>2, <1>3, <1>4, <1>5, <1>6, <1>7, <1>8
     DEF Next, RequestCheck, TimerFires, AnswerJoined, Quit, Tick, AdjustClock, vars

\* An on-demand check that begins was not held back: enough time has passed since the last one.
LEMMA CooldownUse ==
  ASSUME Base, StampInv, Next \/ UNCHANGED vars,
         phase = "up", ~running, running', origin' = "OnDemand"
  PROVE  lastDone = None \/ steady - lastDone >= Cooldown
<1>1. PICK cs : HandleRequest("OnDemand", cs)
  <2>1. ASSUME NEW cs, RequestCheck(cs) PROVE HandleRequest("OnDemand", cs)
    BY <2>1 DEF RequestCheck
  <2>2. ~TimerFires
    BY DEF TimerFires, HandleRequest, BeginCheck
  <2>3. QED
    BY <2>1, <2>2
       DEF Next, Start, Crash, Quit, Exit, Forget, Complete, StopRunning, AnswerJoined, WorkerCheck,
           WorkerSave, Tick, AdjustClock, vars, home
<1>2. ~CoolingDown("OnDemand")
  BY <1>1 DEF HandleRequest
<1>3. lastCompleted = None \/ ~(Now - lastCompleted < Cooldown)
  BY <1>2 DEF CoolingDown
<1>4. steady \in Nat /\ skew \in Int /\ lastDone \in Int \cup {None}
  BY Zenon DEF Base, TypeOK
<1>5. lastDone # None => lastCompleted \in Int /\ lastCompleted # None /\ lastDone + skew <= lastCompleted
  BY SentinelsAssumption DEF StampInv
<1>6. CASE lastDone \in Int /\ lastDone # None
  BY <1>3, <1>4, <1>5, <1>6, ConstantsAssumption DEF Now
<1>7. QED
  BY <1>4, <1>6

\* As long as the clock is not set forward, an on-demand check begins only a whole cooldown of
\* elapsed time after the last check of the process, through joins, failures, crashes and restarts.
THEOREM CooldownIsHonoured == Spec /\ [][NotSetForward]_skew => CooldownHonoured
<1>1. Init => StampInv
  BY DEF Init, Idle, StampInv
<1>2. Base /\ StampInv /\ [Next]_vars /\ [NotSetForward]_skew => StampInv'
  BY StampStep
<1>3. Base /\ StampInv /\ [Next]_vars =>
        [phase = "up" /\ ~running /\ running' /\ origin' = "OnDemand"
           => lastDone = None \/ steady - lastDone >= Cooldown]_vars
  BY CooldownUse
<1>4. QED
  BY <1>1, <1>2, <1>3, BaseInvariant, PTL DEF Spec, CooldownHonoured

\* In particular it does while the wall clock keeps time.
COROLLARY CooldownWithSteadyClock == ASSUME Skews = {0} PROVE Spec => CooldownHonoured
<1>1. Init => skew = 0
  BY DEF Init
<1>2. skew = 0 /\ [Next]_vars => (skew = 0)'
  BY DEF Next, Start, Crash, Quit, Exit, Forget, RequestCheck, TimerFires, Complete, AnswerJoined,
         WorkerCheck, WorkerSave, Tick, AdjustClock, clock, vars
<1>3. skew = 0 /\ (skew = 0)' => [NotSetForward]_skew
  BY DEF NotSetForward
<1>4. Spec => [][NotSetForward]_skew
  BY <1>1, <1>2, <1>3, PTL DEF Spec
<1>5. QED
  BY <1>4, CooldownIsHonoured, PTL
===============================================================================
