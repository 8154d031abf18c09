----------------------------- MODULE ScratchCheck -----------------------------
(***************************************************************************)
(* The repository check of AlpmUpdateChecker and its scratch directories.  *)
(* Every check runs its body on a detached thread, because libalpm cannot  *)
(* be cancelled: a caller that waited totalBound goes on without it.  The  *)
(* bodies of all processes share one scratch root, its check.lock and its  *)
(* run-XXXXXX directories, and read the real sync databases, which pacman  *)
(* changes meanwhile.  A process may be killed between any two steps.      *)
(***************************************************************************)
EXTENDS Naturals

CONSTANTS
  Processes,    \* holonight-packaged instances that share the cache directory
  Workers,      \* threads; one that has ended is used again
  Runs,         \* names of run directories; mkdtemp draws one that is not in use
  Databases,    \* files of the real sync directory
  MaxVersion,   \* bounds the changes of a database that are explored
  None

ASSUME ScratchAssumption ==
  None \notin Processes /\ None \notin Workers /\ None \notin Runs /\ None \notin Nat

VARIABLES
  call,     \* per process: what it is doing about checks, on which thread, with which result
  worker,   \* per thread: the body of a check, or sweepStale
  lock,     \* the thread whose descriptor holds the flock on check.lock
  runs,     \* run directories in the scratch root
  older,    \* <<d, e>>: d was modified before e
  torn,     \* directories that are partly removed
  disk,     \* per real sync database: its version, which its size and mtime tell
  dbLock,   \* the real db.lck exists
  settled   \* history: the databases as they were whenever db.lck was not there

scratch == <<lock, runs, older, torn>>
pacman == <<disk, dbLock, settled>>
vars == <<call, worker, scratch, pacman>>

CallState ==
  [step : {"down", "starting", "ready", "waiting", "saving"},
   on : Workers \cup {None}, run : Runs \cup {None}]

\* A body runs planCheck at the end of "sweeping", verifyCopy in "comparing", libalpm in
\* "refreshing", and RunDirectoryGuard from "leaving"; sweepStale has the three steps of its own.
WorkerState ==
  [of : Processes \cup {None},
   step : {"free", "opening", "listing", "sweeping", "creating", "copying", "comparing",
           "refreshing", "leaving", "removing", "ended",
           "opening sweep", "listing sweep", "sweeping stale"},
   run : Runs \cup {None}, victims : SUBSET Runs, copy : [Databases -> Nat \cup {None}],
   compared : SUBSET Databases, good : BOOLEAN]

Nothing == [db \in Databases |-> None]

Free == [of |-> None, step |-> "free", run |-> None, victims |-> {}, copy |-> Nothing,
         compared |-> {}, good |-> FALSE]
NoCall(step) == [step |-> step, on |-> None, run |-> None]

Init ==
  /\ call = [p \in Processes |-> NoCall("down")]
  /\ worker = [w \in Workers |-> Free]
  /\ lock = None /\ runs = {} /\ older = {} /\ torn = {}
  /\ disk = [db \in Databases |-> 0] /\ dbLock = FALSE /\ settled = {disk}

At(w, step) == worker[w].step = step
Goto(w, step) == worker' = [worker EXCEPT ![w].step = step]

-------------------------------------------------------------------------------
(* The caller: AlpmUpdateChecker::checkForUpdates and its process *)

\* A thread begins for process p.
Begin(p, w, step) ==
  /\ At(w, "free")
  /\ worker' = [worker EXCEPT ![w] = [Free EXCEPT !.of = p, !.step = step]]

\* The service starts: sweepStale runs before the first check.
StartProcess(p) ==
  /\ call[p].step = "down"
  /\ \E w \in Workers :
       /\ Begin(p, w, "opening sweep")
       /\ call' = [call EXCEPT ![p] = [NoCall("starting") EXCEPT !.on = w]]
  /\ UNCHANGED <<scratch, pacman>>

StartCheck(p) ==
  /\ call[p].step = "ready"
  /\ \E w \in Workers :
       /\ Begin(p, w, "opening")
       /\ call' = [call EXCEPT ![p] = [NoCall("waiting") EXCEPT !.on = w]]
  /\ UNCHANGED <<scratch, pacman>>

\* The future is ready.  A snapshot names its run directory, from which save() copies databases.
Answer(p) ==
  /\ call[p].step = "waiting"
  /\ \E w \in Workers :
       /\ call[p].on = w /\ At(w, "ended")
       /\ call' = [call EXCEPT ![p] = IF worker[w].good
                     THEN [NoCall("saving") EXCEPT !.run = worker[w].run] ELSE NoCall("ready")]
       /\ worker' = [worker EXCEPT ![w] = Free]
  /\ UNCHANGED <<scratch, pacman>>

\* Mutant: the caller waits for the body without a bound.
NeverAbandon(p) == FALSE

\* wait_for(totalBound) gives up; the body goes on, and nobody reads its promise.
Abandon(p) ==
  /\ call[p].step = "waiting"
  /\ call' = [call EXCEPT ![p] = NoCall("ready")]
  /\ UNCHANGED <<worker, scratch, pacman>>

\* UpdateCheckService has saved the snapshot, or failed to.
EndSave(p) ==
  /\ call[p].step = "saving"
  /\ call' = [call EXCEPT ![p] = NoCall("ready")]
  /\ UNCHANGED <<worker, scratch, pacman>>

\* A body that nobody waits for any more ends its thread.
EndLate(w) ==
  /\ At(w, "ended")
  /\ \A p \in Processes : call[p].on # w
  /\ worker' = [worker EXCEPT ![w] = Free]
  /\ UNCHANGED <<call, scratch, pacman>>

\* The process ends or is killed: its threads with it, and the kernel drops their flock.
Kill(p) ==
  /\ call[p].step # "down"
  /\ call' = [call EXCEPT ![p] = NoCall("down")]
  /\ worker' = [w \in Workers |-> IF worker[w].of = p THEN Free ELSE worker[w]]
  /\ lock' = IF \E w \in Workers : lock = w /\ worker[w].of = p THEN None ELSE lock
  /\ UNCHANGED <<runs, older, torn, pacman>>

-------------------------------------------------------------------------------
(* The scratch root: ScratchLock and the removal of run directories *)

\* Mutant: the lock file is opened and not locked.
AcquireUnlocked(w) == TRUE

\* flock(LOCK_EX | LOCK_NB) succeeds.
Acquire(w) == lock = None

\* prepareScratchRoot and ScratchLock::acquire of sweepStale, which gives up silently.
OpenSweep(w) ==
  /\ At(w, "opening sweep")
  /\ \/ Acquire(w) /\ lock' = w /\ Goto(w, "listing sweep") /\ UNCHANGED call
     \/ /\ UNCHANGED lock
        /\ worker' = [worker EXCEPT ![w] = Free]
        /\ call' = [call EXCEPT ![worker[w].of] = NoCall("ready")]
  /\ UNCHANGED <<runs, older, torn, pacman>>

\* The same for a check, which ends as Busy or Unknown.
OpenCheck(w) ==
  /\ At(w, "opening")
  /\ \/ Acquire(w) /\ lock' = w /\ Goto(w, "listing")
     \/ Goto(w, "ended") /\ UNCHANGED lock
  /\ UNCHANGED <<call, runs, older, torn, pacman>>

\* Mutant: the sweep spares every directory.
SparedBySweep(d) == d \in runs

\* Newest by mtime.
IsNewest(d) == d \in runs /\ \A e \in runs : <<d, e>> \notin older

\* sweepScratchRoot keeps the newest run directory.
ListStale(w) ==
  /\ \/ At(w, "listing") /\ worker' = [worker EXCEPT ![w].step = "sweeping",
                                         ![w].victims = {d \in runs : ~IsNewest(d)}]
     \/ At(w, "listing sweep") /\ worker' = [worker EXCEPT ![w].step = "sweeping stale",
                                         ![w].victims = {d \in runs : ~IsNewest(d)}]
  /\ UNCHANGED <<call, scratch, pacman>>

\* RunDirectoryGuard: removeOtherRunDirectories.
Others(w) == runs \ {worker[w].run}

ListOthers(w) ==
  /\ At(w, "leaving")
  /\ worker' = [worker EXCEPT ![w].step = "removing", ![w].victims = Others(w)]
  /\ UNCHANGED <<call, scratch, pacman>>

\* Directory d has just been modified.
Modified(d, dirs) == {pair \in older : pair[1] # d} \cup {<<e, d>> : e \in dirs \ {d}}

\* removeDirectoryContents: it modifies the directory it empties.
RemoveContents(w) ==
  /\ \E d \in worker[w].victims \ torn :
       torn' = torn \cup {d} /\ older' = Modified(d, runs)
  /\ UNCHANGED <<call, worker, lock, runs, pacman>>

RemoveDirectory(w) ==
  /\ \E d \in worker[w].victims \cap torn :
       /\ runs' = runs \ {d} /\ torn' = torn \ {d}
       /\ older' = {pair \in older : d # pair[1] /\ d # pair[2]}
       /\ worker' = [worker EXCEPT ![w].victims = @ \ {d}]
  /\ UNCHANGED <<call, lock, pacman>>

\* The end of sweepStale.
EndSweep(w) ==
  /\ At(w, "sweeping stale") /\ worker[w].victims = {}
  /\ worker' = [worker EXCEPT ![w] = Free]
  /\ call' = [call EXCEPT ![worker[w].of] = NoCall("ready")]
  /\ lock' = None
  /\ UNCHANGED <<runs, older, torn, pacman>>

\* Mutant: the descriptor of the lock leaks.
LeakLock(w) ==
  /\ At(w, "removing") /\ worker[w].victims = {}
  /\ Goto(w, "ended")
  /\ UNCHANGED <<call, scratch, pacman>>

\* The lock is released last, after the directories and before the promise is kept.
Release(w) ==
  /\ At(w, "removing") /\ worker[w].victims = {}
  /\ Goto(w, "ended")
  /\ lock' = None
  /\ UNCHANGED <<call, runs, older, torn, pacman>>

-------------------------------------------------------------------------------
(* The body of a check *)

\* A step before the run directory exists fails: no guard, only the lock to release.
Refuse(w) == Goto(w, "removing")

\* The body returns, or a step throws: the stamps are gone, the guard's destructor is next.
LeaveWith(w, good) ==
  worker' = [worker EXCEPT ![w].step = "leaving", ![w].good = good, ![w].copy = Nothing,
                           ![w].compared = {}]

Leave(w) == LeaveWith(w, FALSE)

\* planCheck: db.lck, the local database, pacman.conf and the local mirrors.
Plan(w) ==
  /\ At(w, "sweeping") /\ worker[w].victims = {}
  /\ Refuse(w) \/ (~dbLock /\ Goto(w, "creating"))
  /\ UNCHANGED <<call, scratch, pacman>>

\* Names that no directory, no thread and no result uses.
FreshRuns == Runs \ (runs \cup {worker[w].run : w \in Workers} \cup {call[p].run : p \in Processes})

\* mkdtemp
CreateRun(w) ==
  /\ At(w, "creating")
  /\ \/ Refuse(w) /\ UNCHANGED <<runs, older>>
     \/ \E d \in FreshRuns :
          /\ runs' = runs \cup {d} /\ older' = Modified(d, runs)
          /\ worker' = [worker EXCEPT ![w].step = "copying", ![w].run = d]
  /\ UNCHANGED <<call, lock, torn, pacman>>

\* copyPreservingMtime: the file that was opened, whose stamp is recorded, even if it is replaced.
CopyDatabase(w) ==
  /\ At(w, "copying")
  /\ \/ Leave(w)
     \/ \E db \in Databases :
          /\ worker[w].copy[db] = None
          /\ worker' = [worker EXCEPT ![w].copy[db] = disk[db]]
  /\ UNCHANGED <<call, scratch, pacman>>

Copied(w) == \A db \in Databases : worker[w].copy[db] # None

\* Mutant: db.lck is looked for only before the copy.
VerifyNoLock(w) ==
  At(w, "copying") /\ Copied(w) /\ Goto(w, "comparing") /\ UNCHANGED <<call, scratch, pacman>>

\* verifyCopy: db.lck first ...
VerifyLock(w) ==
  /\ At(w, "copying") /\ Copied(w)
  /\ IF dbLock THEN Leave(w) ELSE Goto(w, "comparing")
  /\ UNCHANGED <<call, scratch, pacman>>

SameStamp(w, db) == disk[db] = worker[w].copy[db]

\* ... then the stamp of each source.
VerifyStamp(w) ==
  /\ At(w, "comparing")
  /\ \E db \in Databases \ worker[w].compared :
       IF SameStamp(w, db) THEN worker' = [worker EXCEPT ![w].compared = @ \cup {db}] ELSE Leave(w)
  /\ UNCHANGED <<call, scratch, pacman>>

VerifyEnd(w) ==
  /\ At(w, "comparing") /\ worker[w].compared = Databases
  /\ Goto(w, "refreshing")
  /\ UNCHANGED <<call, scratch, pacman>>

\* openHandle and refreshAndCompare: libalpm downloads, which may take for ever, and compares.
Refresh(w) ==
  /\ At(w, "refreshing")
  /\ \E good \in BOOLEAN : LeaveWith(w, good)
  /\ UNCHANGED <<call, scratch, pacman>>

-------------------------------------------------------------------------------
(* pacman: external *)

\* A transaction takes db.lck, replaces some databases by rename and removes db.lck.
PacmanLock ==
  /\ ~dbLock /\ dbLock' = TRUE
  /\ UNCHANGED <<call, worker, scratch, disk, settled>>

PacmanUpdate ==
  /\ dbLock
  /\ \E db \in Databases : disk[db] < MaxVersion /\ disk' = [disk EXCEPT ![db] = @ + 1]
  /\ UNCHANGED <<call, worker, scratch, dbLock, settled>>

\* Also a transaction that was killed, once its user has removed the stale db.lck.
PacmanUnlock ==
  /\ dbLock /\ dbLock' = FALSE
  /\ settled' = settled \cup {disk}
  /\ UNCHANGED <<call, worker, scratch, disk>>

-------------------------------------------------------------------------------
Sweep(w) == OpenSweep(w) \/ ListStale(w) \/ RemoveContents(w) \/ RemoveDirectory(w) \/ EndSweep(w)

Body(w) ==
  \/ OpenCheck(w) \/ Plan(w) \/ CreateRun(w) \/ CopyDatabase(w) \/ VerifyLock(w)
  \/ VerifyStamp(w) \/ VerifyEnd(w) \/ ListOthers(w) \/ Release(w) \/ EndLate(w)

Caller(p) ==
  \/ StartProcess(p) \/ StartCheck(p) \/ Answer(p) \/ Abandon(p) \/ EndSave(p) \/ Kill(p)

Pacman == PacmanLock \/ PacmanUpdate \/ PacmanUnlock

Next ==
  \/ \E p \in Processes : Caller(p)
  \/ \E w \in Workers : Sweep(w) \/ Body(w) \/ Refresh(w)
  \/ Pacman

Spec == Init /\ [][Next]_vars

\* Threads run and the bounded wait ends.  Nothing is assumed of libalpm (Refresh), of pacman, of
\* the service's decision to check, or of a save.
FairSpec ==
  /\ Spec
  /\ \A w \in Workers : WF_vars(Sweep(w) \/ Body(w))
  /\ \A p \in Processes : WF_vars(Answer(p) \/ Abandon(p))

-------------------------------------------------------------------------------
(* Properties *)

TypeOK ==
  /\ call \in [Processes -> CallState]
  /\ worker \in [Workers -> WorkerState]
  /\ lock \in Workers \cup {None}
  /\ runs \subseteq Runs /\ torn \subseteq runs /\ older \subseteq runs \X runs
  /\ disk \in [Databases -> Nat] /\ dbLock \in BOOLEAN
  /\ settled \subseteq [Databases -> Nat]

\* The directory a check works in stays whole until the check has released the lock, whatever
\* sweeps, guards of late bodies, crashes and starts of other processes happen.
LiveRunStays ==
  \A w \in Workers : worker[w].run # None /\ ~At(w, "ended") => worker[w].run \in runs \ torn

\* At most two run directories exist, also after crashes (REQ-F-042: the previous one and the
\* current one).
AtMostTwoRuns == \A d, e, f \in runs : d = e \/ e = f \/ d = f

\* A check that ends, in success or failure, leaves its own run directory and no other
\* (REQ-F-042), also one whose caller has long given up.
KeepsOwnRun ==
  [][\A w \in Workers : At(w, "removing") /\ worker'[w].step = "ended" /\ worker[w].run # None
       => runs' = {worker[w].run} /\ torn' = {}]_vars

\* What libalpm refreshes is a copy of databases that were together outside a transaction, even if
\* pacman locked, changed and unlocked them during the copy and its verification.
CopyIsSettled == \A w \in Workers : At(w, "refreshing") => worker[w].copy \in settled

\* DESIGN.md: the newest run directory "is the previous check's retained one"; so a sweep that
\* removes others keeps one that is whole.
SweepKeepsAWholeRun ==
  \A w \in Workers : worker[w].step \in {"sweeping", "sweeping stale"} /\ worker[w].victims # {}
    => runs \ (worker[w].victims \cup torn) # {}

\* A caller gets an answer within its bound although libalpm may never return.
CallsEnd == \A p \in Processes : call[p].step = "waiting" ~> call[p].step # "waiting"

\* Only libalpm can keep the lock: a thread that holds it gives it up or calls libalpm.
LockReturns == \A w \in Workers : lock = w ~> lock # w \/ At(w, "refreshing")
===============================================================================
