-------------------------- MODULE UpdateMonitorProofs --------------------------
(***************************************************************************)
(* Proofs about UpdateMonitor for any number of changes on disk and of     *)
(* adopted snapshots.                                                      *)
(***************************************************************************)
EXTENDS UpdateMonitor, TLAPS

\* A monitor at rest keeps no request for later, and one that was not started does nothing.
RestInv ==
  /\ ~running => ~rerun /\ ~dirty
  /\ ~up => ~running /\ ~debounce /\ ~event /\ ~watched /\ status.state = "loading"

\* What is not watched has been reported already.
WatchInv == up /\ ~watched => event

\* The inductive form of NoLostChange: an evaluation in progress is up to date or known not to be,
\* and without one the last used result is.
LookInv ==
  up => event \/ debounce
          \/ (running /\ (rerun \/ dirty \/ UpToDateSoFar))
          \/ (~running /\ handled = Current)

\* What is shown as ready is what the last used evaluation read.
ShownInv == status.state = "ready" => status.content = handled

Base == TypeOK /\ RestInv

Refreshing == \E before \in Nat, waits \in BOOLEAN : RefreshNow(before, waits)

-------------------------------------------------------------------------------
(* Base is inductive *)

LEMMA Records == Begin \in Evaluation /\ Idle \in Evaluation
                 /\ Begin.step = "begun" /\ Idle.step = "idle"
BY DEF Begin, Idle, Evaluation

\* refresh() leaves an evaluation running, with a request for another if there was one before.
LEMMA RefreshEffect ==
  ASSUME NEW before, NEW waits, RefreshNow(before, waits)
  PROVE  /\ debounce' = FALSE
         /\ \/ /\ running /\ rerun' = TRUE /\ asked' = (asked \/ waits) /\ followUps' = before
               /\ UNCHANGED <<running, worker, watched>>
            \/ /\ ~running /\ running' = TRUE /\ worker' = Begin /\ watched' = TRUE
               /\ asked' = FALSE /\ followUps' = before + 1 /\ UNCHANGED rerun
BY DEF RefreshNow, StartEvaluation

LEMMA RefreshType ==
  ASSUME Base, NEW before \in Nat, NEW waits \in BOOLEAN, RefreshNow(before, waits)
  PROVE  /\ running' \in BOOLEAN /\ rerun' \in BOOLEAN /\ asked' \in BOOLEAN
         /\ watched' \in BOOLEAN /\ debounce' \in BOOLEAN
         /\ worker' \in Evaluation /\ followUps' \in Nat
         /\ running' /\ worker'.step # "idle"
<1>1. asked' \in BOOLEAN /\ running' \in BOOLEAN /\ running'
  BY RefreshEffect, Zenon DEF Base, TypeOK
<1>2. /\ rerun' \in BOOLEAN /\ watched' \in BOOLEAN /\ debounce' \in BOOLEAN
      /\ worker' \in Evaluation
  BY RefreshEffect, Records, Zenon DEF Base, TypeOK
<1>3. followUps' \in Nat
  <2>1. followUps' = before \/ followUps' = before + 1
    BY RefreshEffect, Zenon
  <2>2. QED
    BY <2>1
<1>4. worker'.step # "idle"
  BY RefreshEffect, Records DEF Base, TypeOK
<1>5. QED
  BY <1>1, <1>2, <1>3, <1>4

LEMMA InitBase == Init => Base
<1> SUFFICES ASSUME Init PROVE Base
  OBVIOUS
<1>1. status \in UpdateStatus
  BY DEF Init, UpdateStatus
<1>2. worker \in Evaluation /\ worker.step = "idle"
  BY Records DEF Init
<1>3. TypeOK
  BY <1>1, <1>2 DEF Init, TypeOK
<1>4. RestInv
  BY DEF Init, RestInv
<1>5. QED
  BY <1>3, <1>4 DEF Base

LEMMA StatusType ==
  ASSUME Base, NEW result \in {"evaluated", "previous", "error"}, NEW reason \in BOOLEAN,
         NEW content \in Read \cup {None, Saved}
  PROVE  StatusOf(result, reason, content) \in UpdateStatus
<1>1. status.content \in Read \cup {None, Saved}
  BY DEF Base, TypeOK, UpdateStatus
<1>2. QED
  BY <1>1 DEF StatusOf, UpdateStatus

LEMMA FinishedBase ==
  ASSUME Base, EvaluationFinished
  PROVE  Base'
<1>1. CASE dirty
  <2>1. DropResult /\ UNCHANGED <<up, disk, event, debounce, online, local, status, handled>>
    BY <1>1 DEF EvaluationFinished, DropResult
  <2>2. /\ worker' = Begin /\ running' = TRUE /\ watched' = TRUE /\ asked' = FALSE
        /\ dirty' = FALSE /\ rerun' = FALSE /\ followUps' = followUps + 1
    BY <2>1 DEF DropResult, StartEvaluation
  <2>3. followUps' \in Nat
    BY <2>2 DEF Base, TypeOK
  <2>4. TypeOK'
    BY <2>1, <2>2, <2>3, Records DEF Base, TypeOK
  <2>5. RestInv'
    BY <2>1, <2>2 DEF Base, TypeOK, RestInv, EvaluationFinished
  <2>6. QED
    BY <2>4, <2>5 DEF Base
<1>2. CASE ~dirty
  <2>1. KeepResult /\ UNCHANGED <<up, disk, event, debounce, online, dirty>>
    BY <1>2 DEF EvaluationFinished, KeepResult
  <2>2. Seen \in Read /\ worker.result \in {"none", "evaluated", "previous", "error"}
    BY DEF Seen, Read, Base, TypeOK, Evaluation
  <2>3. local' \in {"none", "evaluated", "previous"} /\ handled' \in Read
    BY <2>1, <2>2 DEF KeepResult, Base, TypeOK
  <2>4. status' \in UpdateStatus
    <3>1. status.content \in Read \cup {None, Saved}
      BY DEF Base, TypeOK, UpdateStatus
    <3>2. QED
      BY <2>1, <2>2, <3>1 DEF KeepResult, PublishResult, StatusOf, UpdateStatus
  <2>5. \/ /\ worker' = Begin /\ running' = TRUE /\ watched' = TRUE /\ asked' = FALSE
           /\ rerun' = FALSE /\ followUps' = followUps + 1
        \/ /\ worker' = Idle /\ running' = FALSE /\ ~rerun
           /\ UNCHANGED <<rerun, watched, asked, followUps>>
    BY <2>1 DEF KeepResult, FollowUp, StartEvaluation
  <2>6. followUps' \in Nat
    BY <2>5 DEF Base, TypeOK
  <2>7. TypeOK'
    BY <2>1, <2>3, <2>4, <2>5, <2>6, Records DEF Base, TypeOK
  <2>8. RestInv'
    BY <1>2, <2>1, <2>5 DEF Base, TypeOK, RestInv, EvaluationFinished
  <2>9. QED
    BY <2>7, <2>8 DEF Base
<1>3. QED
  BY <1>1, <1>2

LEMMA NextBase == Base /\ [Next]_vars => Base'
<1> SUFFICES ASSUME Base, [Next]_vars PROVE Base'
  OBVIOUS
<1> USE DEF env, monitor, ghosts
<1>1. CASE ChangeInPlace \/ Replace
  <2>1. disk' \in Nat
    BY <1>1 DEF ChangeInPlace, Replace, Base, TypeOK
  <2>2. event' \in BOOLEAN /\ watched' \in BOOLEAN /\ (~up => ~event' /\ ~watched')
    <3>1. event \in BOOLEAN /\ watched \in BOOLEAN /\ (~up => ~event /\ ~watched)
      BY DEF Base, TypeOK, RestInv
    <3>2. CASE ChangeInPlace
      <4>1. event' = (event \/ watched) /\ watched' = watched
        BY <3>2 DEF ChangeInPlace
      <4>2. event' \in BOOLEAN
        BY <4>1, Zenon
      <4>3. QED
        BY <3>1, <4>1, <4>2
    <3>3. CASE Replace
      BY <3>3 DEF Replace
    <3>4. QED
      BY <1>1, <3>2, <3>3
  <2>3. UNCHANGED <<up, monitor, ghosts>>
    BY <1>1 DEF ChangeInPlace, Replace
  <2>4. QED
    BY <2>1, <2>2, <2>3 DEF Base, TypeOK, RestInv
<1>2. ASSUME NEW before \in Nat, NEW waits \in BOOLEAN, RefreshNow(before, waits),
             up' = TRUE, dirty' \in BOOLEAN, status' \in UpdateStatus, online' \in Nat,
             UNCHANGED <<disk, event, local, handled>>
      PROVE  Base'
  <2>1. TypeOK'
    BY <1>2, RefreshType DEF Base, TypeOK
  <2>2. RestInv'
    BY <1>2, RefreshType DEF RestInv
  <2>3. QED
    BY <2>1, <2>2 DEF Base
<1>3. CASE Start
  BY <1>2, <1>3 DEF Start, Base, TypeOK
<1>4. CASE Refresh
  BY <1>2, <1>4 DEF Refresh, Base, TypeOK
<1>5. CASE FilesystemChanged
  <2>1. dirty' \in BOOLEAN /\ (~running => ~dirty')
    BY <1>5, Zenon DEF FilesystemChanged, MarkDirty, Base, TypeOK, RestInv
  <2>2. QED
    BY <1>5, <2>1 DEF FilesystemChanged, Base, TypeOK, RestInv
<1>6. CASE DebounceFires
  <2>1. up
    BY <1>6 DEF DebounceFires, Base, RestInv
  <2>2. QED
    BY <1>2, <1>6, <2>1 DEF DebounceFires, Base, TypeOK
<1>7. CASE ReadFirst \/ ReadSecond
  <2>1. worker' \in Evaluation /\ worker'.step # "idle" /\ worker.step # "idle"
    BY <1>7 DEF ReadFirst, ReadSecond, Base, TypeOK, Evaluation
  <2>2. UNCHANGED <<up, env, running, rerun, dirty, debounce, local, online, status, ghosts>>
    BY <1>7 DEF ReadFirst, ReadSecond
  <2>3. QED
    BY <2>1, <2>2 DEF Base, TypeOK, RestInv
<1>8. CASE EvaluationFinished
  BY <1>8, FinishedBase
<1>9. CASE AdoptOnline
  <2>1. StatusOf("previous", FALSE, Saved) \in UpdateStatus
    BY StatusType
  <2>2. status' \in UpdateStatus
    BY <1>9, <2>1 DEF AdoptOnline, Base, TypeOK
  <2>3. online' \in Nat
    BY <1>9 DEF AdoptOnline, Base, TypeOK
  <2>4. dirty' \in BOOLEAN
    BY <1>9 DEF AdoptOnline, Base, TypeOK
  <2>5. QED
    BY <1>2, <1>9, <2>2, <2>3, <2>4 DEF AdoptOnline
<1>10. CASE UNCHANGED vars
  BY <1>10 DEF vars, Base, TypeOK, RestInv
<1>11. QED
  BY <1>1, <1>3, <1>4, <1>5, <1>6, <1>7, <1>8, <1>9, <1>10 DEF Next

LEMMA BaseInvariant == Spec => []Base
BY InitBase, NextBase, PTL DEF Spec

\* Every variable keeps its type, and running_ is set exactly while an evaluation is under way.
THEOREM TypeCorrect == Spec => []TypeOK
<1>1. Base => TypeOK
  BY DEF Base
<1>2. QED
  BY <1>1, BaseInvariant, PTL

\* The four callers of refresh() differ in little else; an invariant that each of them respects has
\* one case for them all.
Refreshed ==
  /\ RefreshNow(0, FALSE) \/ RefreshNow(0, TRUE) \/ (debounce /\ RefreshNow(followUps, FALSE))
  /\ up' = TRUE
  /\ UNCHANGED <<disk, event, handled>>
  /\ UNCHANGED dirty \/ dirty' = running
  /\ UNCHANGED status \/ status'.state = "error"

LEMMA RefreshCases ==
  ASSUME Base, [Next]_vars
  PROVE  \/ ChangeInPlace \/ Replace \/ FilesystemChanged \/ ReadFirst \/ ReadSecond
         \/ EvaluationFinished \/ UNCHANGED vars \/ Refreshed
<1>1. CASE Start
  BY <1>1 DEF Start, Refreshed
<1>2. CASE Refresh
  BY <1>2 DEF Refresh, Refreshed, Base, TypeOK
<1>3. CASE DebounceFires
  BY <1>3 DEF DebounceFires, Refreshed, Base, TypeOK, RestInv
<1>4. CASE AdoptOnline
  <2>1. StatusOf("previous", FALSE, Saved).state = "error"
    BY DEF StatusOf
  <2>2. UNCHANGED status \/ status'.state = "error"
    BY <1>4, <2>1 DEF AdoptOnline
  <2>3. QED
    BY <1>4, <2>2 DEF AdoptOnline, Refreshed, Base, TypeOK
<1>5. QED
  BY <1>1, <1>2, <1>3, <1>4 DEF Next

-------------------------------------------------------------------------------
(* No change is lost *)

LEMMA WatchStep == Base /\ WatchInv /\ [Next]_vars => WatchInv'
<1> SUFFICES ASSUME Base, WatchInv, [Next]_vars PROVE WatchInv'
  OBVIOUS
<1>1. CASE ChangeInPlace \/ Replace
  BY <1>1, Zenon DEF ChangeInPlace, Replace, WatchInv
<1>2. CASE FilesystemChanged
  BY <1>2 DEF FilesystemChanged, WatchInv
<1>3. CASE ReadFirst \/ ReadSecond \/ UNCHANGED vars
  BY <1>3 DEF ReadFirst, ReadSecond, vars, env, WatchInv
<1>4. CASE EvaluationFinished
  BY <1>4 DEF EvaluationFinished, DropResult, KeepResult, FollowUp, StartEvaluation, WatchInv
<1>5. QED
  BY <1>1, <1>2, <1>3, <1>4, RefreshCases DEF Refreshed, RefreshNow, StartEvaluation, WatchInv, Base, RestInv

LEMMA LookStep == Base /\ WatchInv /\ LookInv /\ [Next]_vars => LookInv'
<1> SUFFICES ASSUME Base, WatchInv, LookInv, [Next]_vars PROVE LookInv'
  OBVIOUS
<1>1. CASE ChangeInPlace
  BY <1>1 DEF ChangeInPlace, WatchInv, LookInv
<1>2. CASE Replace \/ FilesystemChanged
  BY <1>2 DEF Replace, FilesystemChanged, LookInv
<1>3. CASE ReadFirst
  BY <1>3 DEF ReadFirst, env, ghosts, Base, TypeOK, Evaluation, LookInv, UpToDateSoFar, Current
<1>4. CASE ReadSecond
  BY <1>4 DEF ReadSecond, env, ghosts, Base, TypeOK, Evaluation, LookInv, UpToDateSoFar, Current
<1>5. CASE EvaluationFinished
  <2>1. CASE running'
    <3>1. worker'.step = "begun"
      BY <1>5, <2>1, Records
         DEF EvaluationFinished, DropResult, KeepResult, FollowUp, StartEvaluation
    <3>2. QED
      BY <2>1, <3>1 DEF LookInv, UpToDateSoFar
  <2>2. CASE ~running'
    <3>1. KeepResult /\ ~dirty /\ ~rerun
      BY <1>5, <2>2 DEF EvaluationFinished, DropResult, KeepResult, FollowUp, StartEvaluation
    <3>2. handled' = Seen /\ UNCHANGED <<up, disk, event, debounce>>
      BY <1>5, <3>1 DEF EvaluationFinished, KeepResult
    <3>3. up /\ ~event /\ ~debounce => Seen = Current
      BY <1>5, <3>1
         DEF EvaluationFinished, LookInv, UpToDateSoFar, Seen, Current, Base, TypeOK
    <3>4. QED
      BY <2>2, <3>2, <3>3 DEF LookInv, Current
  <2>3. QED
    BY <2>1, <2>2
<1>6. CASE Refreshed
  BY <1>6, Records
     DEF Refreshed, RefreshNow, StartEvaluation, LookInv, UpToDateSoFar
<1>7. CASE UNCHANGED vars
  BY <1>7 DEF vars, env, monitor, ghosts, LookInv, UpToDateSoFar, Current
<1>8. QED
  BY <1>1, <1>2, <1>3, <1>4, <1>5, <1>6, <1>7, RefreshCases

\* No change on disk is lost, however it falls between notifications, the debounce and evaluations.
THEOREM ChangesAreSeen == Spec => []NoLostChange
<1>1. Init => WatchInv /\ LookInv
  BY DEF Init, WatchInv, LookInv
<1>2. LookInv => NoLostChange
  BY DEF LookInv, NoLostChange, LooksAgain
<1>3. QED
  BY <1>1, <1>2, BaseInvariant, WatchStep, LookStep, PTL DEF Spec

LEMMA ShownStep == Base /\ ShownInv /\ [Next]_vars => ShownInv'
<1> SUFFICES ASSUME Base, ShownInv, [Next]_vars PROVE ShownInv'
  OBVIOUS
<1>1. CASE EvaluationFinished
  <2>1. CASE UNCHANGED <<status, handled>>
    BY <2>1 DEF ShownInv
  <2>2. CASE KeepResult
    BY <2>2 DEF KeepResult, PublishResult, StatusOf, ShownInv
  <2>3. QED
    BY <1>1, <2>1, <2>2 DEF EvaluationFinished, DropResult
<1>2. CASE Refreshed
  BY <1>2 DEF Refreshed, ShownInv
<1>3. CASE UNCHANGED <<status, handled>>
  BY <1>3 DEF ShownInv
<1>4. QED
  BY <1>1, <1>2, <1>3, RefreshCases
     DEF ChangeInPlace, Replace, FilesystemChanged, ReadFirst, ReadSecond, vars, monitor, ghosts

\* What is shown as ready is what is on disk now, or the monitor is about to look again.
THEOREM ReadyStatusIsCurrent == Spec => []ReadyIsCurrent
<1>1. Init => WatchInv /\ LookInv /\ ShownInv
  BY DEF Init, WatchInv, LookInv, ShownInv
<1>2. Base /\ LookInv /\ ShownInv => ReadyIsCurrent
  BY DEF Base, RestInv, LookInv, ShownInv, ReadyIsCurrent, LooksAgain
<1>3. QED
  BY <1>1, <1>2, BaseInvariant, WatchStep, LookStep, ShownStep, PTL DEF Spec

-------------------------------------------------------------------------------
(* Torn results *)

\* The evaluation in progress saw no change that nobody told the monitor of: until a notification
\* comes or has marked the result for dropping, what was read is what is on disk.
TornInv == running /\ ~dirty /\ ~event => UpToDateSoFar

LEMMA TornStep == Base /\ WatchInv /\ TornInv /\ [Next]_vars => TornInv'
<1> SUFFICES ASSUME Base, WatchInv, TornInv, [Next]_vars PROVE TornInv'
  OBVIOUS
<1>1. CASE ChangeInPlace
  BY <1>1 DEF ChangeInPlace, monitor, Base, RestInv, WatchInv, TornInv
<1>2. CASE Replace
  BY <1>2 DEF Replace, TornInv
<1>3. CASE FilesystemChanged
  BY <1>3, Zenon DEF FilesystemChanged, MarkDirty, TornInv
<1>4. CASE ReadFirst
  BY <1>4 DEF ReadFirst, env, Base, TypeOK, Evaluation, TornInv, UpToDateSoFar
<1>5. CASE ReadSecond
  BY <1>5 DEF ReadSecond, env, Base, TypeOK, Evaluation, TornInv, UpToDateSoFar
<1>6. CASE EvaluationFinished
  BY <1>6, Records
     DEF EvaluationFinished, DropResult, KeepResult, FollowUp, StartEvaluation, TornInv, UpToDateSoFar
<1>7. CASE Refreshed
  <2>1. CASE running
    <3>1. UNCHANGED <<disk, event, running, worker>>
      BY <1>7, <2>1 DEF Refreshed, RefreshNow
    <3>2. ~dirty' => ~dirty
      BY <1>7, <2>1, Zenon DEF Refreshed
    <3>3. QED
      BY <3>1, <3>2 DEF TornInv, UpToDateSoFar
  <2>2. CASE ~running
    <3>1. worker'.step = "begun"
      BY <1>7, <2>2, Records DEF Refreshed, RefreshNow, StartEvaluation
    <3>2. QED
      BY <3>1 DEF TornInv, UpToDateSoFar
  <2>3. QED
    BY <2>1, <2>2
<1>8. CASE UNCHANGED vars
  BY <1>8 DEF vars, env, monitor, TornInv, UpToDateSoFar
<1>9. QED
  BY <1>1, <1>2, <1>3, <1>4, <1>5, <1>6, <1>7, <1>8, RefreshCases

\* A status that becomes ready comes from an evaluation that ended undisturbed, and it has read the
\* disk as it is now or the notification is still queued.
LEMMA TornUse ==
  ASSUME Base, TornInv, [Next]_vars,
         status' # status, status'.state = "ready", status'.content[1] # status'.content[2]
  PROVE  event
<1>1. EvaluationFinished /\ ~dirty
  BY RefreshCases
     DEF EvaluationFinished, DropResult, Refreshed, ChangeInPlace, Replace, FilesystemChanged,
         ReadFirst, ReadSecond, vars, monitor
<1>2. status'.content = Seen
  BY <1>1 DEF EvaluationFinished, KeepResult, PublishResult, StatusOf
<1>3. worker.first # worker.second
  BY <1>2 DEF Seen
<1>4. running /\ worker.step = "finished"
  BY <1>1 DEF EvaluationFinished, Base, TypeOK
<1>5. QED
  BY <1>1, <1>3, <1>4 DEF TornInv, UpToDateSoFar

\* A result that saw half of a change is shown only while the notification of it is still queued.
THEOREM TornResultsAreUnnoticed == Spec => TornOnlyUnnoticed
<1>1. Init => WatchInv /\ TornInv
  BY DEF Init, WatchInv, TornInv
<1>2. Base /\ TornInv /\ [Next]_vars =>
        [status' # status /\ status'.state = "ready" /\ status'.content[1] # status'.content[2]
           => event]_vars
  BY TornUse
<1>3. QED
  BY <1>1, <1>2, BaseInvariant, WatchStep, TornStep, PTL DEF Spec, TornOnlyUnnoticed

-------------------------------------------------------------------------------
(* Evaluations do not feed on themselves *)

\* Evaluations that are bound to begin without another trigger.
AheadOfResult   == IF running /\ (dirty \/ rerun) THEN 1 ELSE 0
AheadOfDebounce == IF debounce THEN 1 ELSE 0

BudgetInv == followUps + AheadOfResult + AheadOfDebounce <= 2

LEMMA BudgetStep == Base /\ BudgetInv /\ [Next]_vars => BudgetInv'
<1> SUFFICES ASSUME Base, BudgetInv, [Next]_vars PROVE BudgetInv'
  OBVIOUS
<1> USE DEF AheadOfResult, AheadOfDebounce, BudgetInv
<1>1. followUps \in Nat /\ (~running => ~rerun /\ ~dirty)
  BY DEF Base, TypeOK, RestInv
<1>2. CASE FilesystemChanged
  BY <1>2 DEF FilesystemChanged
<1>3. CASE EvaluationFinished
  <2>1. CASE dirty
    BY <1>1, <1>3, <2>1 DEF EvaluationFinished, DropResult, StartEvaluation, Base, TypeOK
  <2>2. CASE ~dirty
    BY <1>1, <1>3, <2>2
       DEF EvaluationFinished, KeepResult, FollowUp, StartEvaluation, Base, TypeOK
  <2>3. QED
    BY <2>1, <2>2
<1>4. CASE Refreshed
  BY <1>1, <1>4 DEF Refreshed, RefreshNow, StartEvaluation
<1>5. CASE UNCHANGED <<followUps, running, rerun, dirty, debounce>>
  BY <1>5
<1>6. QED
  BY <1>2, <1>3, <1>4, <1>5, RefreshCases
     DEF ChangeInPlace, Replace, ReadFirst, ReadSecond, vars, monitor, ghosts

\* A trigger, alone or in a burst, causes at most two evaluations.
THEOREM FollowUpsAreBounded == Spec => []TwoFollowUps
<1>1. Init => BudgetInv
  BY DEF Init, BudgetInv, AheadOfResult, AheadOfDebounce
<1>2. Base /\ BudgetInv => TwoFollowUps
  BY DEF Base, TypeOK, BudgetInv, AheadOfResult, AheadOfDebounce, TwoFollowUps
<1>3. QED
  BY <1>1, <1>2, BaseInvariant, BudgetStep, PTL DEF Spec
===============================================================================
