-------------------------- MODULE ScratchCheckProofs --------------------------
(***************************************************************************)
(* Proofs about ScratchCheck for every set of processes, threads, run      *)
(* directories and databases.                                              *)
(***************************************************************************)
EXTENDS ScratchCheck, TLAPS

\* The steps of a thread that holds the lock.
Locked == {"listing", "sweeping", "creating", "copying", "comparing", "refreshing", "leaving",
           "removing", "listing sweep", "sweeping stale"}

InItsRun == {"copying", "comparing", "refreshing", "leaving"}

AtMostOne(dirs) == \A d, e \in dirs : d = e

\* A thread holds the lock exactly in its locked steps, has a run directory from mkdtemp on, and
\* has only others to remove, so many that one directory is left.
Local(w) ==
  /\ lock = w <=> worker[w].step \in Locked
  /\ worker[w].victims # {} => worker[w].step \in {"sweeping", "sweeping stale", "removing"}
  /\ worker[w].victims \subseteq runs \ {worker[w].run}
  /\ worker[w].run # None => worker[w].step \in InItsRun \cup {"removing", "ended"}
  /\ worker[w].step \in InItsRun => worker[w].run \in runs \ torn
  /\ worker[w].step = "removing" /\ worker[w].run # None =>
       worker[w].run \in runs \ torn /\ runs \subseteq worker[w].victims \cup {worker[w].run}
  /\ worker[w].step \in {"sweeping", "sweeping stale"} => AtMostOne(runs \ worker[w].victims)
  /\ worker[w].step = "creating" => AtMostOne(runs)

\* Any two directories were modified one after the other.
Ordered == \A d, e \in runs : d # e => <<d, e>> \in older \/ <<e, d>> \in older

RunsInv == AtMostTwoRuns /\ Ordered /\ \A w \in Workers : Local(w)

-------------------------------------------------------------------------------
(* Types *)

LEMMA Constants ==
  /\ Free \in WorkerState /\ Free.step = "free" /\ Free.run = None /\ Free.victims = {}
  /\ Nothing \in [Databases -> Nat \cup {None}]
  /\ \A step \in {"down", "starting", "ready", "waiting", "saving"} :
       NoCall(step) \in CallState /\ NoCall(step).step = step
BY DEF Free, Nothing, WorkerState, NoCall, CallState

LEMMA InitTypes == Init => TypeOK
<1> SUFFICES ASSUME Init PROVE TypeOK
  OBVIOUS
<1>1. call \in [Processes -> CallState] /\ worker \in [Workers -> WorkerState]
  BY Constants DEF Init
<1>2. disk \in [Databases -> Nat] /\ settled \subseteq [Databases -> Nat]
  BY DEF Init
<1>3. QED
  BY <1>1, <1>2 DEF Init, TypeOK

\* One thread changes: what its new state is, and that the others keep theirs.
Changed(w, state) ==
  /\ state \in WorkerState
  /\ worker' \in [Workers -> WorkerState]
  /\ worker'[w] = state
  /\ \A v \in Workers \ {w} : worker'[v] = worker[v]

LEMMA Update ==
  ASSUME TypeOK, NEW w \in Workers, NEW state \in WorkerState,
         worker' = [worker EXCEPT ![w] = state]
  PROVE  Changed(w, state)
BY DEF TypeOK, Changed

Steps == {"free", "opening", "listing", "sweeping", "creating", "copying", "comparing",
          "refreshing", "leaving", "removing", "ended",
          "opening sweep", "listing sweep", "sweeping stale"}

LEMMA WorkerFields ==
  ASSUME TypeOK, NEW w \in Workers
  PROVE  /\ worker[w] \in WorkerState /\ worker[w].step \in Steps
         /\ worker[w].of \in Processes \cup {None} /\ worker[w].run \in Runs \cup {None}
         /\ worker[w].victims \subseteq Runs /\ worker[w].compared \subseteq Databases
         /\ worker[w].copy \in [Databases -> Nat \cup {None}]
BY DEF TypeOK, WorkerState, Steps

LEMMA GotoChanges ==
  ASSUME TypeOK, NEW w \in Workers, NEW step \in Steps, Goto(w, step)
  PROVE  \E state \in WorkerState :
           /\ Changed(w, state) /\ state.step = step
           /\ state.run = worker[w].run /\ state.victims = worker[w].victims
           /\ state.copy = worker[w].copy /\ state.compared = worker[w].compared
<1> DEFINE state == [worker[w] EXCEPT !.step = step]
<1>1. state \in WorkerState
  BY WorkerFields DEF WorkerState, Steps
<1>2. worker' = [worker EXCEPT ![w] = state]
  BY DEF Goto
<1>3. Changed(w, state)
  BY <1>1, <1>2, Update
<1>4. QED
  BY <1>1, <1>3, WorkerFields DEF WorkerState

LEMMA LeaveChanges ==
  ASSUME TypeOK, NEW w \in Workers, NEW good \in BOOLEAN, LeaveWith(w, good)
  PROVE  \E state \in WorkerState :
           /\ Changed(w, state) /\ state.step = "leaving"
           /\ state.run = worker[w].run /\ state.victims = worker[w].victims
           /\ state.copy = Nothing /\ state.compared = {}
<1> DEFINE state == [worker[w] EXCEPT !.step = "leaving", !.good = good, !.copy = Nothing,
                                      !.compared = {}]
<1>1. state \in WorkerState
  BY WorkerFields, Constants DEF WorkerState
<1>2. worker' = [worker EXCEPT ![w] = state]
  BY DEF LeaveWith
<1>3. Changed(w, state)
  BY <1>1, <1>2, Update
<1>4. QED
  BY <1>1, <1>3, WorkerFields DEF WorkerState

LEMMA GotoKeeps ==
  ASSUME TypeOK, NEW w \in Workers, NEW step \in Steps, Goto(w, step)
  PROVE  /\ worker'[w].step = step
         /\ worker'[w].run = worker[w].run /\ worker'[w].victims = worker[w].victims
         /\ worker'[w].copy = worker[w].copy /\ worker'[w].compared = worker[w].compared
         /\ \A v \in Workers \ {w} : worker'[v] = worker[v]
BY GotoChanges DEF Changed

-------------------------------------------------------------------------------
(* The invariant of the run directories *)

LEMMA InitRuns == Init => RunsInv
<1> SUFFICES ASSUME Init PROVE RunsInv
  OBVIOUS
<1>1. \A w \in Workers : worker[w].step = "free" /\ worker[w].run = None /\ worker[w].victims = {}
  BY Constants DEF Init
<1>2. \A w \in Workers : Local(w)
  BY <1>1, ScratchAssumption DEF Init, Local, Locked, InItsRun
<1>3. QED
  BY <1>2 DEF Init, RunsInv, AtMostTwoRuns, Ordered

\* A thread without the lock has nothing to remove and works in no directory.
LEMMA Outside ==
  ASSUME RunsInv, NEW w \in Workers, lock # w
  PROVE  /\ worker[w].step \notin Locked /\ worker[w].victims = {}
         /\ worker[w].run # None => worker[w].step = "ended"
BY DEF RunsInv, Local, Locked, InItsRun

\* The others keep their part of the invariant if a thread takes or drops a lock that is not
\* theirs, and changes directories only with the lock.
LEMMA Frame ==
  ASSUME TypeOK, RunsInv, NEW w \in Workers,
         \A v \in Workers \ {w} : worker'[v] = worker[v],
         \A v \in Workers \ {w} : lock' = v <=> lock = v,
         lock = w \/ UNCHANGED <<runs, torn>>
  PROVE  \A v \in Workers \ {w} : Local(v)'
<1> SUFFICES ASSUME NEW v \in Workers \ {w} PROVE Local(v)'
  OBVIOUS
<1>1. CASE UNCHANGED <<runs, torn>>
  BY <1>1 DEF RunsInv, Local, AtMostOne
<1>2. CASE lock = w
  BY <1>2, Outside DEF Local, Locked, InItsRun
<1>3. QED
  BY <1>1, <1>2

\* A step of a thread that moves on without touching lock and directories.
LEMMA Advance ==
  ASSUME TypeOK, RunsInv, NEW w \in Workers, NEW state \in WorkerState, Changed(w, state),
         UNCHANGED scratch,
         state.run = worker[w].run, state.victims = worker[w].victims,
         \/ worker[w].step \in {"free", "opening", "ended", "opening sweep"}
              /\ state.step \in {"opening", "ended", "opening sweep", "free"}
              /\ (worker[w].run # None => state.step = "ended")
         \/ worker[w].step \in {"sweeping", "creating"} /\ worker[w].victims = {}
              /\ state.step \in {"creating", "removing"}
         \/ worker[w].step \in InItsRun /\ state.step \in InItsRun
  PROVE  RunsInv'
<1>1. \A v \in Workers \ {w} : Local(v)'
  BY Frame DEF Changed, scratch
<1>2. Local(w)'
  <2>1. worker'[w] = state /\ Local(w)
    BY DEF Changed, RunsInv
  <2>2. worker[w].run = None \/ worker[w].step \in InItsRun \cup {"removing", "ended"}
    BY <2>1 DEF Local
  <2>3. QED
    BY <2>1, <2>2 DEF Local, Locked, InItsRun, scratch, AtMostOne
<1>3. QED
  BY <1>1, <1>2 DEF RunsInv, AtMostTwoRuns, Ordered, scratch

\* A thread that ends without the lock, or drops it as it ends.
LEMMA FreedOutside ==
  ASSUME TypeOK, RunsInv, NEW w \in Workers, Changed(w, Free), UNCHANGED <<runs, older, torn>>,
         \/ lock' = lock /\ worker[w].step \notin Locked
         \/ lock' = None /\ lock = w
  PROVE  RunsInv'
<1>1. lock' # w
  BY ScratchAssumption DEF RunsInv, Local
<1>2. \A v \in Workers \ {w} : Local(v)'
  BY Frame, ScratchAssumption DEF Changed
<1>3. Local(w)'
  BY <1>1, Constants DEF Local, Locked, InItsRun, Changed
<1>4. QED
  BY <1>2, <1>3 DEF RunsInv, AtMostTwoRuns, Ordered

-------------------------------------------------------------------------------
(* The steps of a caller *)

LEMMA CallerStep ==
  ASSUME TypeOK, RunsInv, NEW p \in Processes, Caller(p)
  PROVE  TypeOK' /\ RunsInv'
<1>1. ASSUME NEW w \in Workers, NEW step \in {"opening", "opening sweep"}, Begin(p, w, step),
             NEW state \in CallState, call' = [call EXCEPT ![p] = state],
             UNCHANGED <<scratch, pacman>>
      PROVE  TypeOK' /\ RunsInv'
  <2> DEFINE new == [Free EXCEPT !.of = p, !.step = step]
  <2>1. new \in WorkerState /\ new.step = step /\ new.run = None /\ new.victims = {}
    BY Constants DEF Free, WorkerState
  <2>2. Changed(w, new)
    BY <1>1, <2>1, Update DEF Begin
  <2>3. worker[w].step = "free" /\ worker[w].run = None /\ worker[w].victims = {}
    BY <1>1 DEF Begin, At, RunsInv, Local, InItsRun
  <2>4. RunsInv'
    BY <1>1, <2>1, <2>2, <2>3, Advance
  <2>5. TypeOK'
    BY <1>1, <2>2 DEF TypeOK, Changed, scratch, pacman
  <2>6. QED
    BY <2>4, <2>5
<1>2. CASE StartProcess(p)
  <2>1. PICK w \in Workers :
          /\ Begin(p, w, "opening sweep")
          /\ call' = [call EXCEPT ![p] = [NoCall("starting") EXCEPT !.on = w]]
    BY <1>2 DEF StartProcess
  <2>2. [NoCall("starting") EXCEPT !.on = w] \in CallState
    BY DEF NoCall, CallState
  <2>3. QED
    BY <1>1, <1>2, <2>1, <2>2 DEF StartProcess
<1>3. CASE StartCheck(p)
  <2>1. PICK w \in Workers :
          /\ Begin(p, w, "opening")
          /\ call' = [call EXCEPT ![p] = [NoCall("waiting") EXCEPT !.on = w]]
    BY <1>3 DEF StartCheck
  <2>2. [NoCall("waiting") EXCEPT !.on = w] \in CallState
    BY DEF NoCall, CallState
  <2>3. QED
    BY <1>1, <1>3, <2>1, <2>2 DEF StartCheck
<1>4. CASE Answer(p)
  <2>1. PICK w \in Workers :
          /\ worker[w].step = "ended" /\ worker' = [worker EXCEPT ![w] = Free]
          /\ call' = [call EXCEPT ![p] = IF worker[w].good
                        THEN [NoCall("saving") EXCEPT !.run = worker[w].run] ELSE NoCall("ready")]
    BY <1>4 DEF Answer, At
  <2>2. Changed(w, Free) /\ UNCHANGED <<scratch, pacman>>
    BY <1>4, <2>1, Update, Constants DEF Answer
  <2>3. [NoCall("saving") EXCEPT !.run = worker[w].run] \in CallState
    BY WorkerFields DEF NoCall, CallState
  <2>4. call' \in [Processes -> CallState]
    BY <2>1, <2>3, Constants DEF TypeOK
  <2>5. TypeOK'
    BY <2>2, <2>4 DEF TypeOK, Changed, scratch, pacman
  <2>6. RunsInv'
    BY <2>1, <2>2, FreedOutside DEF Locked, scratch
  <2>7. QED
    BY <2>5, <2>6
<1>5. CASE Abandon(p) \/ EndSave(p)
  <2>1. call' = [call EXCEPT ![p] = NoCall("ready")] /\ UNCHANGED <<worker, scratch, pacman>>
    BY <1>5 DEF Abandon, EndSave
  <2>2. TypeOK'
    BY <2>1, Constants DEF TypeOK, scratch, pacman
  <2>3. RunsInv'
    BY <2>1 DEF RunsInv, AtMostTwoRuns, Ordered, Local, scratch
  <2>4. QED
    BY <2>2, <2>3
<1>6. CASE Kill(p)
  <2>1. call' = [call EXCEPT ![p] = NoCall("down")] /\ UNCHANGED <<runs, older, torn, pacman>>
    BY <1>6 DEF Kill
  <2>2. worker' = [w \in Workers |-> IF worker[w].of = p THEN Free ELSE worker[w]]
        /\ lock' = IF \E w \in Workers : lock = w /\ worker[w].of = p THEN None ELSE lock
    BY <1>6 DEF Kill
  <2>3. TypeOK'
    <3>1. worker' \in [Workers -> WorkerState]
      BY <2>2, Constants DEF TypeOK
    <3>2. lock' \in Workers \cup {None} /\ call' \in [Processes -> CallState]
      BY <2>1, <2>2, Constants DEF TypeOK
    <3>3. QED
      BY <2>1, <3>1, <3>2 DEF TypeOK, pacman
  <2>4. ASSUME NEW w \in Workers PROVE Local(w)'
    <3>1. CASE worker[w].of = p
      <4>1. worker'[w] = Free /\ lock' # w
        BY <2>2, <3>1, ScratchAssumption
      <4>2. QED
        BY <4>1, Constants DEF Local, Locked, InItsRun
    <3>2. CASE worker[w].of # p
      <4>1. worker'[w] = worker[w] /\ (lock' = w <=> lock = w)
        BY <2>2, <3>2, ScratchAssumption
      <4>2. QED
        BY <2>1, <4>1 DEF RunsInv, Local, AtMostOne
    <3>3. QED
      BY <3>1, <3>2
  <2>5. QED
    BY <2>1, <2>3, <2>4 DEF RunsInv, AtMostTwoRuns, Ordered
<1>7. QED
  BY <1>2, <1>3, <1>4, <1>5, <1>6 DEF Caller

-------------------------------------------------------------------------------
(* The steps of a thread *)

\* Types, once it is known what becomes of the thread and the lock.
LEMMA ThreadTypes ==
  ASSUME TypeOK, NEW w \in Workers, NEW state \in WorkerState, Changed(w, state),
         call' \in [Processes -> CallState], lock' \in {lock, w, None},
         UNCHANGED <<runs, older, torn, pacman>>
  PROVE  TypeOK'
BY DEF TypeOK, Changed, pacman

\* A step inside the body that leaves lock and directories alone.
LEMMA InsideStep ==
  ASSUME TypeOK, RunsInv, NEW w \in Workers, UNCHANGED <<call, scratch, pacman>>,
         \/ EndLate(w)
         \/ \E step \in {"creating", "removing"} :
              /\ Goto(w, step) /\ worker[w].step \in {"sweeping", "creating"}
              /\ worker[w].victims = {}
         \/ worker[w].step \in InItsRun /\ \E step \in InItsRun : Goto(w, step)
         \/ worker[w].step \in InItsRun /\ \E good \in BOOLEAN : LeaveWith(w, good)
         \/ CopyDatabase(w) \/ VerifyStamp(w)
  PROVE  TypeOK' /\ RunsInv'
<1>1. SUFFICES RunsInv' /\ worker' \in [Workers -> WorkerState]
  BY DEF TypeOK, scratch, pacman
<1>2. CASE EndLate(w)
  <2>1. Changed(w, Free) /\ worker[w].step = "ended"
    BY <1>2, Update, Constants DEF EndLate, At
  <2>2. QED
    BY <2>1, FreedOutside DEF Locked, scratch, Changed
<1>3. ASSUME NEW step \in {"creating", "removing"}, Goto(w, step),
             worker[w].step \in {"sweeping", "creating"}, worker[w].victims = {}
      PROVE  RunsInv' /\ worker' \in [Workers -> WorkerState]
  <2>1. PICK state \in WorkerState :
          /\ Changed(w, state) /\ state.step = step
          /\ state.run = worker[w].run /\ state.victims = worker[w].victims
    <3>1. step \in Steps
      BY DEF Steps
    <3>2. QED
      BY <1>3, <3>1, GotoChanges
  <2>2. RunsInv'
    BY <1>3, <2>1, Advance
  <2>3. QED
    BY <2>1, <2>2 DEF Changed
<1>4. ASSUME NEW state \in WorkerState, Changed(w, state), state.run = worker[w].run,
             state.victims = worker[w].victims, worker[w].step \in InItsRun,
             state.step \in InItsRun
      PROVE  RunsInv' /\ worker' \in [Workers -> WorkerState]
  BY <1>4, Advance DEF Changed
<1>5. ASSUME NEW step \in InItsRun, Goto(w, step), worker[w].step \in InItsRun
      PROVE  RunsInv' /\ worker' \in [Workers -> WorkerState]
  <2>1. PICK state \in WorkerState :
          /\ Changed(w, state) /\ state.step = step
          /\ state.run = worker[w].run /\ state.victims = worker[w].victims
    <3>1. step \in Steps
      BY DEF Steps, InItsRun
    <3>2. QED
      BY <1>5, <3>1, GotoChanges
  <2>2. QED
    BY <1>4, <1>5, <2>1
<1>6. ASSUME NEW good \in BOOLEAN, LeaveWith(w, good), worker[w].step \in InItsRun
      PROVE  RunsInv' /\ worker' \in [Workers -> WorkerState]
  <2>1. PICK state \in WorkerState :
          /\ Changed(w, state) /\ state.step = "leaving"
          /\ state.run = worker[w].run /\ state.victims = worker[w].victims
    BY <1>6, LeaveChanges
  <2>2. QED
    BY <1>4, <1>6, <2>1 DEF InItsRun
<1>7. CASE CopyDatabase(w)
  <2>1. worker[w].step = "copying"
    BY <1>7 DEF CopyDatabase, At
  <2>2. CASE Leave(w)
    BY <1>6, <2>1, <2>2 DEF Leave, InItsRun
  <2>3. ASSUME NEW db \in Databases, worker' = [worker EXCEPT ![w].copy[db] = disk[db]]
        PROVE  RunsInv' /\ worker' \in [Workers -> WorkerState]
    <3> DEFINE state == [worker[w] EXCEPT !.copy[db] = disk[db]]
    <3>1. disk[db] \in Nat /\ worker[w] \in WorkerState
      BY WorkerFields DEF TypeOK
    <3>2. state \in WorkerState /\ state.run = worker[w].run
          /\ state.victims = worker[w].victims /\ state.step = worker[w].step
      BY <3>1 DEF WorkerState
    <3>3. worker' = [worker EXCEPT ![w] = state]
      BY <2>3
    <3>4. Changed(w, state)
      BY <3>2, <3>3, Update
    <3>5. QED
      BY <1>4, <2>1, <3>2, <3>4 DEF InItsRun
  <2>4. QED
    BY <1>7, <2>2, <2>3 DEF CopyDatabase
<1>8. CASE VerifyStamp(w)
  <2>1. worker[w].step = "comparing"
    BY <1>8 DEF VerifyStamp, At
  <2>2. CASE Leave(w)
    BY <1>6, <2>1, <2>2 DEF Leave, InItsRun
  <2>3. ASSUME NEW db \in Databases, worker' = [worker EXCEPT ![w].compared = @ \cup {db}]
        PROVE  RunsInv' /\ worker' \in [Workers -> WorkerState]
    <3> DEFINE state == [worker[w] EXCEPT !.compared = @ \cup {db}]
    <3>1. state \in WorkerState /\ state.run = worker[w].run
          /\ state.victims = worker[w].victims /\ state.step = worker[w].step
      BY WorkerFields DEF WorkerState
    <3>2. worker' = [worker EXCEPT ![w] = state]
      BY <2>3
    <3>3. Changed(w, state)
      BY <3>1, <3>2, Update
    <3>4. QED
      BY <1>4, <2>1, <3>1, <3>3 DEF InItsRun
  <2>4. QED
    BY <1>8, <2>2, <2>3 DEF VerifyStamp
<1>9. QED
  BY <1>2, <1>3, <1>5, <1>6, <1>7, <1>8

\* The steps that take or drop the lock.
LEMMA LockStep ==
  ASSUME TypeOK, RunsInv, NEW w \in Workers,
         OpenSweep(w) \/ OpenCheck(w) \/ EndSweep(w) \/ Release(w)
  PROVE  TypeOK' /\ RunsInv'
<1>0. UNCHANGED <<runs, older, torn, pacman>>
  BY DEF OpenSweep, OpenCheck, EndSweep, Release
<1>1. ASSUME NEW step \in {"listing", "listing sweep"}, Acquire(w), lock' = w, Goto(w, step),
             worker[w].step \in {"opening", "opening sweep"}, UNCHANGED call
      PROVE  TypeOK' /\ RunsInv'
  <2>1. PICK state \in WorkerState :
          /\ Changed(w, state) /\ state.step = step
          /\ state.run = worker[w].run /\ state.victims = worker[w].victims
    <3>1. step \in Steps
      BY DEF Steps
    <3>2. QED
      BY <1>1, <3>1, GotoChanges
  <2>2. TypeOK'
    BY <1>0, <1>1, <2>1, ThreadTypes DEF TypeOK
  <2>3. \A v \in Workers \ {w} : Local(v)'
    BY <1>0, <1>1, <2>1, Frame, ScratchAssumption DEF Changed, Acquire
  <2>4. Local(w)'
    BY <1>0, <1>1, <2>1 DEF RunsInv, Local, Locked, InItsRun, Changed
  <2>5. QED
    BY <1>0, <2>2, <2>3, <2>4 DEF RunsInv, AtMostTwoRuns, Ordered
<1>2. ASSUME worker' = [worker EXCEPT ![w] = Free],
             call' = [call EXCEPT ![worker[w].of] = NoCall("ready")],
             \/ lock' = lock /\ worker[w].step \notin Locked
             \/ lock' = None /\ lock = w
      PROVE  TypeOK' /\ RunsInv'
  <2>1. Changed(w, Free)
    BY <1>2, Update, Constants
  <2>2. call' \in [Processes -> CallState]
    BY <1>2, Constants DEF TypeOK
  <2>3. QED
    BY <1>0, <1>2, <2>1, <2>2, ThreadTypes, FreedOutside, Constants
<1>3. CASE OpenSweep(w)
  BY <1>1, <1>2, <1>3 DEF OpenSweep, At, Locked
<1>4. CASE OpenCheck(w)
  <2>1. ASSUME Goto(w, "ended"), UNCHANGED <<lock, call>>, worker[w].step = "opening"
        PROVE  TypeOK' /\ RunsInv'
    <3>1. PICK state \in WorkerState :
            /\ Changed(w, state) /\ state.step = "ended"
            /\ state.run = worker[w].run /\ state.victims = worker[w].victims
      <4>1. "ended" \in Steps
        BY DEF Steps
      <4>2. QED
        BY <2>1, <4>1, GotoChanges
    <3>2. TypeOK'
      BY <1>0, <2>1, <3>1, ThreadTypes DEF TypeOK
    <3>3. RunsInv'
      BY <1>0, <2>1, <3>1, Advance DEF scratch
    <3>4. QED
      BY <3>2, <3>3
  <2>2. QED
    BY <1>1, <1>4, <2>1 DEF OpenCheck, At
<1>5. CASE EndSweep(w)
  <2>1. lock = w
    BY <1>5 DEF EndSweep, At, RunsInv, Local, Locked
  <2>2. QED
    BY <1>2, <1>5, <2>1 DEF EndSweep
<1>6. CASE Release(w)
  <2>1. PICK state \in WorkerState :
          /\ Changed(w, state) /\ state.step = "ended"
          /\ state.run = worker[w].run /\ state.victims = worker[w].victims
    <3>1. "ended" \in Steps
      BY DEF Steps
    <3>2. QED
      BY <1>6, <3>1, GotoChanges DEF Release
  <2>2. lock = w /\ lock' = None /\ worker[w].victims = {} /\ call' = call
    BY <1>6 DEF Release, At, RunsInv, Local, Locked
  <2>3. TypeOK'
    BY <1>0, <2>1, <2>2, ThreadTypes DEF TypeOK
  <2>4. \A v \in Workers \ {w} : Local(v)'
    BY <1>0, <2>1, <2>2, Frame, ScratchAssumption DEF Changed
  <2>5. Local(w)'
    BY <2>1, <2>2, ScratchAssumption DEF Local, Locked, InItsRun, Changed
  <2>6. QED
    BY <1>0, <2>3, <2>4, <2>5 DEF RunsInv, AtMostTwoRuns, Ordered
<1>7. QED
  BY <1>3, <1>4, <1>5, <1>6

\* A sweep keeps at most one directory: two of them cannot both be newest.
LEMMA OneIsSpared ==
  ASSUME RunsInv
  PROVE  AtMostOne(runs \ {d \in runs : ~IsNewest(d)})
BY DEF RunsInv, Ordered, IsNewest, AtMostOne

\* The steps that list directories, and mkdtemp.
LEMMA DirectoryStep ==
  ASSUME TypeOK, RunsInv, NEW w \in Workers, ListStale(w) \/ ListOthers(w) \/ CreateRun(w)
  PROVE  TypeOK' /\ RunsInv'
<1>1. ASSUME NEW step \in {"sweeping", "sweeping stale"},
             worker[w].step \in {"listing", "listing sweep"},
             worker' = [worker EXCEPT ![w].step = step,
                                      ![w].victims = {d \in runs : ~IsNewest(d)}],
             UNCHANGED <<call, scratch, pacman>>
      PROVE  TypeOK' /\ RunsInv'
  <2> DEFINE victims == {d \in runs : ~IsNewest(d)}
  <2>1. step \in Steps /\ victims \in SUBSET Runs
    BY DEF Steps, TypeOK
  <2>2. PICK state \in WorkerState :
          /\ Changed(w, state) /\ state.step = step /\ state.victims = victims
          /\ state.run = worker[w].run
    <3>1. worker' = [worker EXCEPT ![w] = [worker[w] EXCEPT !.step = step, !.victims = victims]]
      BY <1>1, WorkerFields DEF TypeOK
    <3> DEFINE new == [worker[w] EXCEPT !.step = step, !.victims = victims]
    <3>2. /\ new \in WorkerState /\ new.step = step /\ new.victims = victims
          /\ new.run = worker[w].run
      BY <2>1, WorkerFields DEF WorkerState, Steps
    <3>3. QED
      BY <3>1, <3>2, Update
  <2>3. lock = w /\ worker[w].run = None
    BY <1>1 DEF RunsInv, Local, Locked, InItsRun
  <2>4. \A v \in Workers \ {w} : Local(v)'
    BY <1>1, <2>2, <2>3, Frame DEF Changed, scratch
  <2>5. None \notin runs /\ victims \subseteq runs
    BY ScratchAssumption DEF TypeOK
  <2>6. Local(w)'
    BY <1>1, <2>2, <2>3, <2>5, OneIsSpared DEF Local, Locked, InItsRun, Changed, scratch, AtMostOne
  <2>7. QED
    BY <1>1, <2>2, <2>4, <2>6
       DEF RunsInv, AtMostTwoRuns, Ordered, TypeOK, Changed, scratch, pacman
<1>2. CASE ListStale(w)
  BY <1>1, <1>2 DEF ListStale, At
<1>3. CASE ListOthers(w)
  <2>1. "removing" \in Steps /\ Others(w) \in SUBSET Runs /\ worker[w].step = "leaving"
    BY <1>3 DEF Steps, TypeOK, Others, ListOthers, At
  <2>2. PICK state \in WorkerState :
          /\ Changed(w, state) /\ state.step = "removing" /\ state.victims = Others(w)
          /\ state.run = worker[w].run
    <3>1. worker' = [worker EXCEPT ![w] = [worker[w] EXCEPT !.step = "removing",
                                                            !.victims = Others(w)]]
      BY <1>3, WorkerFields DEF ListOthers, TypeOK
    <3> DEFINE new == [worker[w] EXCEPT !.step = "removing", !.victims = Others(w)]
    <3>2. /\ new \in WorkerState /\ new.step = "removing" /\ new.victims = Others(w)
          /\ new.run = worker[w].run
      BY <2>1, WorkerFields DEF WorkerState, Steps
    <3>3. QED
      BY <3>1, <3>2, Update
  <2>3. lock = w /\ worker[w].run \in runs \ torn
    BY <2>1 DEF RunsInv, Local, Locked, InItsRun
  <2>4. \A v \in Workers \ {w} : Local(v)'
    BY <1>3, <2>2, <2>3, Frame DEF Changed, scratch, ListOthers
  <2>5. Local(w)'
    BY <1>3, <2>2, <2>3 DEF ListOthers, Others, Local, Locked, InItsRun, Changed, scratch
  <2>6. QED
    BY <1>3, <2>2, <2>4, <2>5
       DEF ListOthers, RunsInv, AtMostTwoRuns, Ordered, TypeOK, Changed, scratch, pacman
<1>4. CASE CreateRun(w)
  <2>1. worker[w].step = "creating" /\ worker[w].victims = {} /\ lock = w /\ AtMostOne(runs)
    BY <1>4 DEF CreateRun, At, RunsInv, Local, Locked
  <2>2. CASE Refuse(w) /\ UNCHANGED <<runs, older>>
    BY <1>4, <2>1, <2>2, InsideStep DEF CreateRun, Refuse, scratch
  <2>3. ASSUME NEW d \in FreshRuns, runs' = runs \cup {d}, older' = Modified(d, runs),
               worker' = [worker EXCEPT ![w].step = "copying", ![w].run = d],
               UNCHANGED <<call, lock, torn, pacman>>
        PROVE  TypeOK' /\ RunsInv'
    <3> DEFINE state == [worker[w] EXCEPT !.step = "copying", !.run = d]
    <3>1. d \in Runs \ runs
      BY DEF FreshRuns
    <3>2. state \in WorkerState /\ state.step = "copying" /\ state.run = d /\ state.victims = {}
      BY <2>1, <3>1, WorkerFields DEF WorkerState
    <3>3. worker' = [worker EXCEPT ![w] = state]
      BY <2>3, WorkerFields DEF TypeOK
    <3>4. Changed(w, state)
      BY <3>2, <3>3, Update
    <3>5. older' \subseteq runs' \X runs'
      BY <2>3, <3>1 DEF Modified, TypeOK
    <3>6. TypeOK'
      BY <2>3, <3>1, <3>4, <3>5 DEF TypeOK, Changed, pacman
    <3>7. \A v \in Workers \ {w} : Local(v)'
      BY <2>1, <2>3, <3>4, Frame DEF Changed
    <3>8. Local(w)'
      BY <2>1, <2>3, <3>1, <3>2, <3>4 DEF Local, Locked, InItsRun, Changed, TypeOK
    <3>9. Ordered'
      <4>1. \A e, f \in runs : <<e, f>> \in older => <<e, f>> \in older'
        BY <2>3, <3>1 DEF Modified
      <4>2. \A e \in runs : <<e, d>> \in older'
        BY <2>3, <3>1 DEF Modified
      <4>3. QED
        BY <2>3, <4>1, <4>2 DEF RunsInv, Ordered
    <3>10. AtMostTwoRuns'
      BY <2>1, <2>3 DEF AtMostOne, AtMostTwoRuns
    <3>11. QED
      BY <3>6, <3>7, <3>8, <3>9, <3>10 DEF RunsInv
  <2>4. QED
    BY <1>4, <2>2, <2>3 DEF CreateRun
<1>5. QED
  BY <1>2, <1>3, <1>4

LEMMA RemovalStep ==
  ASSUME TypeOK, RunsInv, NEW w \in Workers, RemoveContents(w) \/ RemoveDirectory(w)
  PROVE  TypeOK' /\ RunsInv'
<1>1. CASE RemoveContents(w)
  <2>1. PICK d \in worker[w].victims \ torn : torn' = torn \cup {d} /\ older' = Modified(d, runs)
    BY <1>1 DEF RemoveContents
  <2>2. UNCHANGED <<call, worker, lock, runs, pacman>>
    BY <1>1 DEF RemoveContents
  <2>3. Local(w) /\ lock = w /\ d \in runs \ {worker[w].run}
    BY <2>1 DEF RunsInv, Local, Locked
  <2>4. TypeOK'
    <3>1. older' \subseteq runs \X runs
      BY <2>1, <2>3 DEF Modified, TypeOK
    <3>2. QED
      BY <2>1, <2>2, <2>3, <3>1 DEF TypeOK, pacman
  <2>5. \A v \in Workers \ {w} : Local(v)'
    BY <2>2, <2>3, Frame
  <2>6. Local(w)'
    BY <2>1, <2>2, <2>3 DEF Local, AtMostOne, InItsRun
  <2>7. Ordered'
    <3>1. \A e, f \in runs : e # d /\ <<e, f>> \in older => <<e, f>> \in older'
      BY <2>1 DEF Modified
    <3>2. \A e \in runs : e # d => <<e, d>> \in older'
      BY <2>1 DEF Modified
    <3>3. QED
      BY <2>2, <3>1, <3>2 DEF RunsInv, Ordered
  <2>8. QED
    BY <2>2, <2>4, <2>5, <2>6, <2>7 DEF RunsInv, AtMostTwoRuns
<1>2. CASE RemoveDirectory(w)
  <2>1. PICK d \in worker[w].victims \cap torn :
          /\ runs' = runs \ {d} /\ torn' = torn \ {d}
          /\ older' = {pair \in older : d # pair[1] /\ d # pair[2]}
          /\ worker' = [worker EXCEPT ![w].victims = @ \ {d}]
    BY <1>2 DEF RemoveDirectory
  <2>2. UNCHANGED <<call, lock, pacman>>
    BY <1>2 DEF RemoveDirectory
  <2> DEFINE state == [worker[w] EXCEPT !.victims = @ \ {d}]
  <2>3. /\ state \in WorkerState /\ state.step = worker[w].step /\ state.run = worker[w].run
        /\ state.victims = worker[w].victims \ {d}
    BY WorkerFields DEF WorkerState
  <2>4. Changed(w, state)
    BY <2>1, <2>3, Update
  <2>5. /\ Local(w) /\ lock = w /\ d \in runs \ {worker[w].run}
        /\ worker[w].step \in {"sweeping", "sweeping stale", "removing"}
    BY <2>1 DEF RunsInv, Local, Locked
  <2>6. TypeOK'
    <3>1. older' \subseteq runs' \X runs'
      BY <2>1 DEF TypeOK
    <3>2. QED
      BY <2>1, <2>2, <2>4, <3>1 DEF TypeOK, Changed, pacman
  <2>7. \A v \in Workers \ {w} : Local(v)'
    BY <2>2, <2>4, <2>5, Frame DEF Changed
  <2>8. Local(w)'
    <3>1. /\ worker'[w].step = worker[w].step /\ worker'[w].run = worker[w].run
          /\ worker'[w].victims = worker[w].victims \ {d} /\ lock' = w
      BY <2>2, <2>3, <2>4, <2>5 DEF Changed
    <3>2. worker[w].step = "removing" /\ worker[w].run # None =>
            worker[w].run \in runs' \ torn' /\ runs' \subseteq worker'[w].victims \cup {worker[w].run}
      BY <2>1, <2>5, <3>1 DEF Local
    <3>3. worker[w].step \in {"sweeping", "sweeping stale"} =>
            AtMostOne(runs' \ worker'[w].victims)
      BY <2>1, <2>5, <3>1 DEF Local, AtMostOne
    <3>4. worker'[w].victims \subseteq runs' \ {worker[w].run}
      BY <2>1, <2>5, <3>1 DEF Local
    <3>5. QED
      BY <2>5, <3>1, <3>2, <3>3, <3>4 DEF Local, InItsRun, Locked
  <2>9. Ordered' /\ AtMostTwoRuns'
    BY <2>1 DEF RunsInv, Ordered, AtMostTwoRuns
  <2>10. QED
    BY <2>6, <2>7, <2>8, <2>9 DEF RunsInv
<1>3. QED
  BY <1>1, <1>2

LEMMA NextStep ==
  ASSUME TypeOK, RunsInv, [Next]_vars
  PROVE  TypeOK' /\ RunsInv'
<1>1. CASE \E p \in Processes : Caller(p)
  BY <1>1, CallerStep
<1>2. ASSUME NEW w \in Workers, Sweep(w) PROVE TypeOK' /\ RunsInv'
  BY <1>2, LockStep, DirectoryStep, RemovalStep DEF Sweep
<1>3. ASSUME NEW w \in Workers, Body(w) \/ Refresh(w) PROVE TypeOK' /\ RunsInv'
  <2>1. CASE OpenCheck(w) \/ Release(w)
    BY <2>1, LockStep
  <2>2. CASE CreateRun(w) \/ ListOthers(w)
    BY <2>2, DirectoryStep
  <2>3. CASE Plan(w)
    BY <2>3, InsideStep DEF Plan, Refuse, At
  <2>4. CASE CopyDatabase(w) \/ VerifyStamp(w)
    BY <2>4, InsideStep DEF CopyDatabase, VerifyStamp
  <2>5. CASE EndLate(w)
    BY <2>5, InsideStep DEF EndLate
  <2>6. CASE VerifyLock(w)
    BY <2>6, InsideStep DEF VerifyLock, Leave, At, InItsRun
  <2>7. CASE VerifyEnd(w)
    BY <2>7, InsideStep DEF VerifyEnd, At, InItsRun
  <2>8. CASE Refresh(w)
    BY <2>8, InsideStep DEF Refresh, At, InItsRun
  <2>9. QED
    BY <1>3, <2>1, <2>2, <2>3, <2>4, <2>5, <2>6, <2>7, <2>8 DEF Body
<1>4. CASE Pacman
  <2>1. UNCHANGED <<call, worker, scratch>>
    BY <1>4 DEF Pacman, PacmanLock, PacmanUpdate, PacmanUnlock
  <2>2. RunsInv'
    BY <2>1 DEF RunsInv, AtMostTwoRuns, Ordered, Local, scratch
  <2>3. disk' \in [Databases -> Nat] /\ dbLock' \in BOOLEAN /\ settled' \subseteq [Databases -> Nat]
    <3>1. CASE PacmanLock \/ PacmanUnlock
      BY <3>1 DEF PacmanLock, PacmanUnlock, TypeOK
    <3>2. CASE PacmanUpdate
      <4>1. PICK db \in Databases : disk' = [disk EXCEPT ![db] = @ + 1]
        BY <3>2 DEF PacmanUpdate
      <4>2. disk[db] + 1 \in Nat
        BY DEF TypeOK
      <4>3. QED
        BY <3>2, <4>1, <4>2 DEF PacmanUpdate, TypeOK
    <3>3. QED
      BY <1>4, <3>1, <3>2 DEF Pacman
  <2>4. QED
    BY <2>1, <2>2, <2>3 DEF TypeOK, scratch
<1>5. CASE UNCHANGED vars
  BY <1>5 DEF vars, scratch, pacman, TypeOK, RunsInv, AtMostTwoRuns, Ordered, Local
<1>6. QED
  BY <1>1, <1>2, <1>3, <1>4, <1>5 DEF Next

LEMMA RunsInvariant == Spec => [](TypeOK /\ RunsInv)
<1>1. Init => TypeOK /\ RunsInv
  BY InitTypes, InitRuns
<1>2. TypeOK /\ RunsInv /\ [Next]_vars => (TypeOK /\ RunsInv)'
  BY NextStep
<1>3. QED
  BY <1>1, <1>2, PTL DEF Spec

\* Checks and their scratch root keep their types.
THEOREM TypeCorrect == Spec => []TypeOK
BY RunsInvariant, PTL

\* No sweep, guard, crash or restart takes the directory of a check at work, for any number of
\* processes and late bodies.
THEOREM LiveRunsStay == Spec => []LiveRunStays
<1>1. ASSUME TypeOK, RunsInv PROVE LiveRunStays
  <2> SUFFICES ASSUME NEW w \in Workers, worker[w].run # None, ~At(w, "ended")
               PROVE  worker[w].run \in runs \ torn
    BY DEF LiveRunStays
  <2>1. worker[w].step \in InItsRun \cup {"removing"}
    BY <1>1 DEF RunsInv, Local, At
  <2>2. QED
    BY <1>1, <2>1 DEF RunsInv, Local
<1>2. QED
  BY <1>1, RunsInvariant, PTL

\* Scratch space is bounded by two run directories, whatever crashes (REQ-F-042).
THEOREM RunsAreFew == Spec => []AtMostTwoRuns
<1>1. RunsInv => AtMostTwoRuns
  BY DEF RunsInv
<1>2. QED
  BY <1>1, RunsInvariant, PTL

\* A check that releases the lock leaves its own run directory alone behind (REQ-F-042).
THEOREM ChecksLeaveTheirRun == Spec => KeepsOwnRun
<1> DEFINE Own == \A w \in Workers :
       At(w, "removing") /\ worker'[w].step = "ended" /\ worker[w].run # None
         => runs' = {worker[w].run} /\ torn' = {}
<1>1. ASSUME TypeOK, RunsInv, [Next]_vars PROVE [Own]_vars
  <2> SUFFICES ASSUME NEW w \in Workers, worker[w].step = "removing", worker'[w].step = "ended",
                      worker[w].run # None
               PROVE  runs' = {worker[w].run} /\ torn' = {}
    BY DEF At
  <2>1. lock = w
    BY <1>1 DEF RunsInv, Local, Locked
  <2>2. Release(w)
    <3>1. \A v \in Workers \ {w} : worker[v].step \notin Locked
      BY <1>1, <2>1, Outside
    <3>2. ASSUME NEW p \in Processes, Caller(p) PROVE FALSE
      <4>1. CASE StartProcess(p) \/ StartCheck(p)
        <5>1. PICK v \in Workers, step \in {"opening", "opening sweep"} : Begin(p, v, step)
          BY <4>1 DEF StartProcess, StartCheck
        <5>2. v # w
          BY <5>1 DEF Begin, At
        <5>3. QED
          BY <1>1, <5>1, <5>2 DEF Begin, TypeOK
      <4>2. CASE Answer(p)
        <5>1. PICK v \in Workers : At(v, "ended") /\ worker' = [worker EXCEPT ![v] = Free]
          BY <4>2 DEF Answer
        <5>2. QED
          BY <1>1, <5>1 DEF At, TypeOK
      <4>3. CASE Abandon(p) \/ EndSave(p)
        BY <4>3 DEF Abandon, EndSave
      <4>4. CASE Kill(p)
        BY <4>4, Constants DEF Kill
      <4>5. QED
        BY <3>2, <4>1, <4>2, <4>3, <4>4 DEF Caller
    <3>3. ASSUME NEW v \in Workers \ {w}, Sweep(v) \/ Body(v) \/ Refresh(v) PROVE FALSE
      <4>1. worker'[w] = worker[w]
        BY <1>1, <3>3
           DEF Sweep, Body, OpenSweep, ListStale, RemoveContents, RemoveDirectory, EndSweep,
               OpenCheck, Plan, CreateRun, CopyDatabase, VerifyLock, VerifyStamp, VerifyEnd,
               ListOthers, Release, EndLate, Refresh, Refuse, Leave, LeaveWith, Goto, TypeOK
      <4>2. QED
        BY <4>1
    <3>4. CASE Sweep(w) \/ Body(w) \/ Refresh(w)
      <4>1. CASE RemoveContents(w) \/ RemoveDirectory(w)
        BY <1>1, <4>1 DEF RemoveContents, RemoveDirectory, TypeOK, WorkerState
      <4>2. QED
        BY <3>4, <4>1
           DEF Sweep, Body, OpenSweep, ListStale, EndSweep, OpenCheck, Plan, CreateRun,
               CopyDatabase, VerifyLock, VerifyStamp, VerifyEnd, ListOthers, EndLate, Refresh, At
    <3>5. CASE Pacman \/ UNCHANGED vars
      BY <3>5 DEF Pacman, PacmanLock, PacmanUpdate, PacmanUnlock, vars
    <3>6. QED
      BY <1>1, <3>2, <3>3, <3>4, <3>5 DEF Next
  <2>3. worker[w].victims = {} /\ UNCHANGED <<runs, torn>>
    BY <2>2 DEF Release
  <2>4. worker[w].run \in runs \ torn /\ runs \subseteq {worker[w].run}
    BY <1>1, <2>3 DEF RunsInv, Local
  <2>5. QED
    BY <1>1, <2>3, <2>4 DEF TypeOK
<1>2. QED
  BY <1>1, RunsInvariant, PTL DEF Spec, KeepsOwnRun

-------------------------------------------------------------------------------
(* The copy of the sync databases *)

\* A copied file is not newer than the real one; once db.lck was found missing, there is a moment
\* D outside transactions that no copied file is newer than, and the compared ones are those of D.
CopyOf(w) ==
  /\ worker[w].step \notin {"copying", "comparing", "refreshing"} => worker[w].copy = Nothing
  /\ worker[w].step \notin {"comparing", "refreshing"} => worker[w].compared = {}
  /\ worker[w].step = "copying" =>
       \A db \in Databases : worker[w].copy[db] # None => worker[w].copy[db] <= disk[db]
  /\ worker[w].step = "comparing" =>
       /\ worker[w].copy \in [Databases -> Nat]
       /\ \E D \in settled : \A db \in Databases :
            /\ worker[w].copy[db] <= D[db] /\ D[db] <= disk[db]
            /\ db \in worker[w].compared => worker[w].copy[db] = D[db]
  /\ worker[w].step = "refreshing" => worker[w].copy \in settled

CopyInv == (~dbLock => disk \in settled) /\ \A w \in Workers : CopyOf(w)

\* What does not touch a thread's copy keeps its part, whatever pacman adds.
LEMMA CopyFrame ==
  ASSUME TypeOK, TypeOK', NEW w \in Workers, CopyOf(w), worker'[w] = worker[w],
         settled \subseteq settled', \A db \in Databases : disk[db] <= disk'[db]
  PROVE  CopyOf(w)'
<1>1. worker[w].step = "copying" =>
        \A db \in Databases : worker[w].copy[db] # None => worker[w].copy[db] <= disk'[db]
  <2> SUFFICES ASSUME worker[w].step = "copying", NEW db \in Databases, worker[w].copy[db] # None
               PROVE  worker[w].copy[db] <= disk'[db]
    OBVIOUS
  <2>1. worker[w].copy[db] \in Nat /\ disk[db] \in Nat /\ disk'[db] \in Nat
    BY WorkerFields DEF TypeOK
  <2>2. worker[w].copy[db] <= disk[db] /\ disk[db] <= disk'[db]
    BY DEF CopyOf
  <2>3. QED
    BY <2>1, <2>2
<1>2. ASSUME worker[w].step = "comparing"
      PROVE  \E D \in settled' : \A db \in Databases :
               /\ worker[w].copy[db] <= D[db] /\ D[db] <= disk'[db]
               /\ db \in worker[w].compared => worker[w].copy[db] = D[db]
  <2>1. PICK D \in settled : \A db \in Databases :
               /\ worker[w].copy[db] <= D[db] /\ D[db] <= disk[db]
               /\ db \in worker[w].compared => worker[w].copy[db] = D[db]
    BY <1>2 DEF CopyOf
  <2>2. \A db \in Databases : D[db] <= disk'[db]
    <3> SUFFICES ASSUME NEW db \in Databases PROVE D[db] <= disk'[db]
      OBVIOUS
    <3>1. D[db] \in Nat /\ disk[db] \in Nat /\ disk'[db] \in Nat
      BY DEF TypeOK
    <3>2. QED
      BY <2>1, <3>1
  <2>3. QED
    BY <2>1, <2>2
<1>3. QED
  BY <1>1, <1>2 DEF CopyOf

\* The threads other than w keep their part when a step changes w and leaves pacman's files alone.
LEMMA CopyOthers ==
  ASSUME TypeOK, TypeOK', CopyInv, NEW w \in Workers, UNCHANGED pacman,
         \A v \in Workers \ {w} : worker'[v] = worker[v], CopyOf(w)'
  PROVE  CopyInv'
<1>1. \A db \in Databases : disk[db] <= disk'[db]
  BY DEF TypeOK, pacman
<1>2. \A v \in Workers \ {w} : CopyOf(v)'
  BY <1>1, CopyFrame DEF CopyInv, pacman
<1>3. QED
  BY <1>2 DEF CopyInv, pacman

\* A thread without a copy.
LEMMA NoCopy ==
  ASSUME NEW w \in Workers, worker'[w].copy = Nothing, worker'[w].compared = {},
         worker'[w].step \notin {"comparing", "refreshing"}
  PROVE  CopyOf(w)'
BY DEF CopyOf, Nothing

LEMMA BodyKeepsCopy ==
  ASSUME TypeOK, TypeOK', CopyInv, NEW w \in Workers, Body(w) \/ Sweep(w) \/ Refresh(w)
  PROVE  CopyInv'
<1>0. UNCHANGED pacman
  BY DEF Body, Sweep, OpenSweep, ListStale, RemoveContents, RemoveDirectory, EndSweep,
         OpenCheck, Plan, CreateRun, CopyDatabase, VerifyLock, VerifyStamp, VerifyEnd, ListOthers,
         Release, EndLate, Refresh
<1>1. CopyOf(w)
  BY DEF CopyInv
<1>2. ASSUME \A v \in Workers \ {w} : worker'[v] = worker[v], worker'[w].copy = Nothing,
             worker'[w].compared = {}, worker'[w].step \notin {"comparing", "refreshing"}
      PROVE  CopyInv'
  BY <1>0, <1>2, NoCopy, CopyOthers
<1>3. ASSUME NEW good \in BOOLEAN, LeaveWith(w, good) PROVE CopyInv'
  <2>1. PICK state \in WorkerState :
          /\ Changed(w, state) /\ state.step = "leaving"
          /\ state.copy = Nothing /\ state.compared = {}
    BY <1>3, LeaveChanges
  <2>2. QED
    BY <1>2, <2>1 DEF Changed
<1>4. CASE Leave(w)
  BY <1>3, <1>4 DEF Leave
<1>5. CASE worker' = [worker EXCEPT ![w] = Free]
  BY <1>2, <1>5 DEF TypeOK, Free
<1>6. ASSUME worker[w].step \notin {"copying", "comparing", "refreshing"},
             worker'[w].copy = worker[w].copy, worker'[w].compared = worker[w].compared,
             worker'[w].step \notin {"comparing", "refreshing"},
             \A v \in Workers \ {w} : worker'[v] = worker[v]
      PROVE  CopyInv'
  BY <1>1, <1>2, <1>6 DEF CopyOf
<1>7. CASE OpenSweep(w) \/ OpenCheck(w) \/ ListStale(w) \/ ListOthers(w) \/ Plan(w) \/ Release(w)
             \/ RemoveContents(w)
  <2>1. CASE worker' = [worker EXCEPT ![w] = Free]
    BY <1>5, <2>1
  <2>2. CASE RemoveContents(w)
    <3>1. worker' = worker
      BY <2>2 DEF RemoveContents
    <3>2. QED
      BY <1>0, <3>1 DEF CopyInv, CopyOf, pacman
  <2>3. CASE OpenSweep(w) \/ OpenCheck(w) \/ Plan(w) \/ Release(w)
    <3>1. CASE Goto(w, "listing sweep") \/ Goto(w, "listing") \/ Goto(w, "ended")
                 \/ Goto(w, "creating") \/ Goto(w, "removing")
      <4>1. worker[w].step \notin {"copying", "comparing", "refreshing"}
        BY <2>3 DEF OpenSweep, OpenCheck, Plan, Release, At
      <4>2. /\ worker'[w].copy = worker[w].copy /\ worker'[w].compared = worker[w].compared
            /\ worker'[w].step \notin {"comparing", "refreshing"}
            /\ \A v \in Workers \ {w} : worker'[v] = worker[v]
        <5>1. {"listing sweep", "listing", "ended", "creating", "removing"} \subseteq Steps
          BY DEF Steps
        <5>2. QED
          BY <3>1, <5>1, GotoKeeps
      <4>3. QED
        BY <1>6, <4>1, <4>2
    <3>2. QED
      BY <2>1, <2>3, <3>1 DEF OpenSweep, OpenCheck, Plan, Release, Refuse
  <2>4. CASE ListStale(w) \/ ListOthers(w)
    <3>1. /\ worker[w].step \notin {"copying", "comparing", "refreshing"}
          /\ worker'[w].copy = worker[w].copy /\ worker'[w].compared = worker[w].compared
          /\ worker'[w].step \notin {"comparing", "refreshing"}
          /\ \A v \in Workers \ {w} : worker'[v] = worker[v]
      <4>1. PICK step \in {"sweeping", "sweeping stale", "removing"}, victims \in SUBSET Runs :
              worker' = [worker EXCEPT ![w].step = step, ![w].victims = victims]
        BY <2>4 DEF ListStale, ListOthers, Others, TypeOK
      <4>2. /\ worker'[w] = [worker[w] EXCEPT !.step = step, !.victims = victims]
            /\ \A v \in Workers \ {w} : worker'[v] = worker[v]
        BY <4>1 DEF TypeOK
      <4>3. worker[w].step \notin {"copying", "comparing", "refreshing"}
        BY <2>4 DEF ListStale, ListOthers, At
      <4>4. QED
        BY <4>2, <4>3, WorkerFields DEF WorkerState
    <3>2. QED
      BY <1>6, <3>1
  <2>5. QED
    BY <1>7, <2>2, <2>3, <2>4
<1>8. CASE EndSweep(w) \/ EndLate(w)
  BY <1>5, <1>8 DEF EndSweep, EndLate
<1>9. CASE Refresh(w)
  BY <1>3, <1>9 DEF Refresh
<1>10. CASE RemoveDirectory(w)
  <2>1. /\ worker'[w].step = worker[w].step /\ worker'[w].copy = worker[w].copy
        /\ worker'[w].compared = worker[w].compared
        /\ \A v \in Workers \ {w} : worker'[v] = worker[v]
    <3>1. PICK d \in worker[w].victims \cap torn :
            worker' = [worker EXCEPT ![w].victims = @ \ {d}]
      BY <1>10 DEF RemoveDirectory
    <3>2. /\ worker'[w] = [worker[w] EXCEPT !.victims = @ \ {d}]
          /\ \A v \in Workers \ {w} : worker'[v] = worker[v]
      BY <3>1 DEF TypeOK
    <3>3. QED
      BY <3>2, WorkerFields DEF WorkerState
  <2>2. CopyOf(w)'
    BY <1>0, <1>1, <2>1 DEF CopyOf, pacman
  <2>3. QED
    BY <1>0, <2>1, <2>2, CopyOthers
<1>11. CASE CreateRun(w)
  <2>1. worker[w].step = "creating" /\ worker[w].copy = Nothing /\ worker[w].compared = {}
    BY <1>1, <1>11 DEF CreateRun, At, CopyOf
  <2>2. /\ worker'[w].copy = worker[w].copy /\ worker'[w].compared = worker[w].compared
        /\ worker'[w].step \in {"copying", "removing"}
        /\ \A v \in Workers \ {w} : worker'[v] = worker[v]
    <3>1. CASE Refuse(w)
      <4>1. "removing" \in Steps
        BY DEF Steps
      <4>2. QED
        BY <3>1, <4>1, GotoKeeps DEF Refuse
    <3>2. ASSUME NEW d \in Runs,
                 worker' = [worker EXCEPT ![w].step = "copying", ![w].run = d]
          PROVE  /\ worker'[w].copy = worker[w].copy /\ worker'[w].compared = worker[w].compared
                 /\ worker'[w].step \in {"copying", "removing"}
                 /\ \A v \in Workers \ {w} : worker'[v] = worker[v]
      <4>1. /\ worker'[w] = [worker[w] EXCEPT !.step = "copying", !.run = d]
            /\ \A v \in Workers \ {w} : worker'[v] = worker[v]
        BY <3>2 DEF TypeOK
      <4>2. QED
        BY <4>1, WorkerFields DEF WorkerState
    <3>3. QED
      BY <1>11, <3>1, <3>2 DEF CreateRun, FreshRuns
  <2>3. QED
    BY <1>2, <2>1, <2>2
<1>12. CASE CopyDatabase(w) /\ ~Leave(w)
  <2>1. PICK db \in Databases : worker' = [worker EXCEPT ![w].copy[db] = disk[db]]
    BY <1>12 DEF CopyDatabase
  <2>2. /\ worker'[w].step = "copying" /\ worker'[w].compared = {}
        /\ worker'[w].copy = [worker[w].copy EXCEPT ![db] = disk[db]]
        /\ \A v \in Workers \ {w} : worker'[v] = worker[v]
    BY <1>1, <1>12, <2>1, WorkerFields DEF CopyDatabase, At, CopyOf, TypeOK, WorkerState
  <2>3. ASSUME NEW e \in Databases, worker'[w].copy[e] # None
        PROVE  worker'[w].copy[e] <= disk[e]
    <3>1. CASE e = db
      BY <2>2, <3>1, WorkerFields DEF TypeOK
    <3>2. CASE e # db
      BY <1>1, <1>12, <2>2, <2>3, <3>2, WorkerFields DEF CopyDatabase, At, CopyOf
    <3>3. QED
      BY <3>1, <3>2
  <2>4. CopyOf(w)'
    BY <1>0, <2>2, <2>3 DEF CopyOf, pacman
  <2>5. QED
    BY <1>0, <2>2, <2>4, CopyOthers
<1>13. CASE VerifyLock(w) /\ ~Leave(w)
  <2>1. worker[w].step = "copying" /\ Copied(w) /\ ~dbLock /\ Goto(w, "comparing")
    BY <1>13 DEF VerifyLock, At
  <2>2. /\ worker'[w].step = "comparing" /\ worker'[w].copy = worker[w].copy
        /\ worker'[w].compared = {} /\ \A v \in Workers \ {w} : worker'[v] = worker[v]
    <3>1. "comparing" \in Steps /\ worker[w].compared = {}
      BY <1>1, <2>1 DEF Steps, CopyOf
    <3>2. QED
      BY <2>1, <3>1, GotoKeeps
  <2>3. worker[w].copy \in [Databases -> Nat]
    BY <2>1, WorkerFields DEF Copied
  <2>4. disk \in settled
    BY <2>1 DEF CopyInv
  <2>5. \A db \in Databases : worker[w].copy[db] <= disk[db] /\ disk[db] <= disk[db]
    BY <1>1, <2>1 DEF Copied, CopyOf, TypeOK
  <2>6. CopyOf(w)'
    BY <1>0, <2>2, <2>3, <2>4, <2>5 DEF CopyOf, pacman
  <2>7. QED
    BY <1>0, <2>2, <2>6, CopyOthers
<1>14. CASE VerifyStamp(w) /\ ~Leave(w)
  <2>1. PICK db \in Databases : /\ SameStamp(w, db)
                                /\ worker' = [worker EXCEPT ![w].compared = @ \cup {db}]
    BY <1>14 DEF VerifyStamp
  <2>2. /\ worker[w].step = "comparing" /\ worker'[w].step = "comparing"
        /\ worker'[w].copy = worker[w].copy
        /\ worker'[w].compared = worker[w].compared \cup {db}
        /\ \A v \in Workers \ {w} : worker'[v] = worker[v]
    <3>1. worker'[w] = [worker[w] EXCEPT !.compared = @ \cup {db}]
          /\ \A v \in Workers \ {w} : worker'[v] = worker[v]
      BY <2>1 DEF TypeOK
    <3>2. worker[w].step = "comparing"
      BY <1>14 DEF VerifyStamp, At
    <3>3. QED
      BY <3>1, <3>2, WorkerFields DEF WorkerState
  <2>3. PICK D \in settled : \A e \in Databases :
               /\ worker[w].copy[e] <= D[e] /\ D[e] <= disk[e]
               /\ e \in worker[w].compared => worker[w].copy[e] = D[e]
    BY <1>1, <2>2 DEF CopyOf
  <2>4. worker[w].copy[db] = D[db]
    <3>1. worker[w].copy[db] \in Nat /\ D[db] \in Nat /\ disk[db] \in Nat
      BY <1>1, <2>2 DEF CopyOf, TypeOK
    <3>2. QED
      BY <2>1, <2>3, <3>1 DEF SameStamp
  <2>5. CopyOf(w)'
    BY <1>0, <1>1, <2>2, <2>3, <2>4 DEF CopyOf, pacman
  <2>6. QED
    BY <1>0, <2>2, <2>5, CopyOthers
<1>15. CASE VerifyEnd(w)
  <2>1. worker[w].step = "comparing" /\ worker[w].compared = Databases /\ Goto(w, "refreshing")
    BY <1>15 DEF VerifyEnd, At
  <2>2. /\ worker'[w].step = "refreshing" /\ worker'[w].copy = worker[w].copy
        /\ worker'[w].compared = Databases
        /\ \A v \in Workers \ {w} : worker'[v] = worker[v]
    <3>1. "refreshing" \in Steps
      BY DEF Steps
    <3>2. QED
      BY <2>1, <3>1, GotoKeeps
  <2>3. PICK D \in settled : \A db \in Databases : worker[w].copy[db] = D[db]
    BY <1>1, <2>1 DEF CopyOf
  <2>4. worker[w].copy = D
    BY <1>1, <2>1, <2>3 DEF CopyOf, TypeOK
  <2>5. CopyOf(w)'
    BY <1>0, <2>2, <2>4 DEF CopyOf, pacman
  <2>6. QED
    BY <1>0, <2>2, <2>5, CopyOthers
<1>16. QED
  BY <1>4, <1>7, <1>8, <1>9, <1>10, <1>11, <1>12, <1>13, <1>14, <1>15 DEF Body, Sweep

LEMMA CallerKeepsCopy ==
  ASSUME TypeOK, TypeOK', CopyInv, NEW p \in Processes, Caller(p)
  PROVE  CopyInv'
<1>1. UNCHANGED pacman
  BY DEF Caller, StartProcess, StartCheck, Answer, Abandon, EndSave, Kill
<1>2. ASSUME NEW w \in Workers,
             \/ worker'[w] = worker[w]
             \/ /\ worker'[w].copy = Nothing /\ worker'[w].compared = {}
                /\ worker'[w].step \notin {"comparing", "refreshing"}
      PROVE  CopyOf(w)'
  BY <1>1, <1>2, NoCopy DEF CopyInv, CopyOf, pacman
<1>3. /\ Free.copy = Nothing /\ Free.compared = {} /\ Free.step = "free"
      /\ \A step \in {"opening", "opening sweep"} :
           LET new == [Free EXCEPT !.of = p, !.step = step]
           IN  new.copy = Nothing /\ new.compared = {} /\ new.step = step
  BY DEF Free
<1>4. ASSUME NEW w \in Workers
      PROVE  \/ worker'[w] = worker[w] \/ worker'[w] = Free
             \/ \E step \in {"opening", "opening sweep"} :
                  worker'[w] = [Free EXCEPT !.of = p, !.step = step]
  BY DEF Caller, StartProcess, StartCheck, Answer, Abandon, EndSave, Kill, Begin, TypeOK
<1>5. \A w \in Workers : CopyOf(w)'
  BY <1>2, <1>3, <1>4
<1>6. QED
  BY <1>1, <1>5 DEF CopyInv, pacman

LEMMA PacmanKeepsCopy ==
  ASSUME TypeOK, TypeOK', CopyInv, Pacman
  PROVE  CopyInv'
<1>1. worker' = worker /\ settled \subseteq settled' /\ (~dbLock' => disk' \in settled')
  BY DEF Pacman, PacmanLock, PacmanUpdate, PacmanUnlock
<1>2. \A db \in Databases : disk[db] <= disk'[db]
  <2>1. CASE PacmanUpdate
    <3>1. PICK db \in Databases : disk' = [disk EXCEPT ![db] = @ + 1]
      BY <2>1 DEF PacmanUpdate
    <3>2. QED
      BY <3>1 DEF TypeOK
  <2>2. CASE PacmanLock \/ PacmanUnlock
    BY <2>2 DEF PacmanLock, PacmanUnlock, TypeOK
  <2>3. QED
    BY <2>1, <2>2 DEF Pacman
<1>3. \A w \in Workers : CopyOf(w)'
  BY <1>1, <1>2, CopyFrame DEF CopyInv
<1>4. QED
  BY <1>1, <1>3 DEF CopyInv

\* libalpm only ever refreshes a copy of databases that stood together outside a transaction, for
\* any number of databases, changes and concurrent checks (REQ-F-010).
THEOREM CopiesAreSettled == Spec => []CopyIsSettled
<1>1. Init => CopyInv
  <2> SUFFICES ASSUME Init PROVE CopyInv
    OBVIOUS
  <2>1. \A w \in Workers : worker[w] = Free
    BY DEF Init
  <2>2. \A w \in Workers : CopyOf(w)
    BY <2>1 DEF Free, CopyOf
  <2>3. QED
    BY <2>2 DEF Init, CopyInv
<1>2. ASSUME TypeOK, TypeOK', CopyInv, [Next]_vars PROVE CopyInv'
  <2>1. CASE UNCHANGED vars
    BY <1>2, <2>1 DEF vars, pacman, CopyInv, CopyOf
  <2>2. QED
    BY <1>2, <2>1, BodyKeepsCopy, CallerKeepsCopy, PacmanKeepsCopy DEF Next
<1>3. CopyInv => CopyIsSettled
  BY DEF CopyInv, CopyOf, CopyIsSettled, At
<1>4. QED
  BY <1>1, <1>2, <1>3, RunsInvariant, PTL DEF Spec
================================================================================
