---------------------------- MODULE ConnectionCache ----------------------------
(***************************************************************************)
(* AlpmConnectionCache: one libalpm handle and its registered sync         *)
(* databases, kept between the loads of a page and renewed when the        *)
(* *.db files or their times have changed.  Nothing keeps pacman from      *)
(* replacing the files between any two of the steps of connection().       *)
(* A database is a version: its content and the time its file bears.       *)
(***************************************************************************)
EXTENDS Naturals, FiniteSets

CONSTANTS
  Databases,     \* names of sync databases
  Loaders,       \* threads that call connection()
  MaxReplaced,   \* bound: how often a file is replaced, added or removed
  Absent         \* no handle, no snapshot

\* A missing handle or snapshot is not a function, and no thread.
ASSUME CacheAssumption ==
  /\ MaxReplaced \in Nat /\ Absent \notin Loaders
  /\ \A S \in SUBSET Databases : Absent \notin [S -> Nat] \cup [S -> [content : Nat, mtime : Nat]]

VARIABLES
  files,      \* the sync directory: [there, content, mtime] of each database
  replaced,   \* how often it was changed
  holder,     \* who holds mutex_, also through a lease
  handle_,    \* handle_ and sync_databases_: what libalpm read of each registered database
  known_,     \* known_snapshot_
  call,       \* the call of each thread: its step and local variables
  seen        \* history: the directories there have been since the call began

disk == <<files, replaced>>
cacheVars == <<disk, holder, handle_, known_, call, seen>>

File == [there : BOOLEAN, content : Nat, mtime : Nat]
Steps == {"idle", "listing", "stat", "registering", "restat", "leased"}
NoCall == [step |-> "idle", listing |-> {}, left |-> {}, fresh |-> Absent, times |-> Absent]
Nothing == [d \in {} |-> 0]

CacheInit ==
  /\ files \in [Databases -> [there : BOOLEAN, content : {0}, mtime : {0}]]
  /\ replaced = 0 /\ holder = Absent
  /\ handle_ = Absent /\ known_ = Absent
  /\ call = [t \in Loaders |-> NoCall]
  /\ seen = [t \in Loaders |-> {}]

CacheTypeOK ==
  /\ files \in [Databases -> File] /\ replaced \in 0..MaxReplaced
  /\ holder \in Loaders \cup {Absent}
  /\ \A t \in Loaders : call[t].step \in Steps /\ call[t].listing \subseteq Databases
                        /\ call[t].left \subseteq call[t].listing

Listed == {d \in Databases : files[d].there}
At(t, step) == call[t].step = step
Put(f, d, value) == [x \in DOMAIN f \cup {d} |-> IF x = d THEN value ELSE f[x]]

-------------------------------------------------------------------------------
(* pacman *)

\* A file is replaced, added or removed.  What replaces a file is not older; within one granule of
\* the file times (or a second of the server's) it bears the same time.
Change(d) ==
  /\ replaced < MaxReplaced /\ replaced' = replaced + 1
  /\ \E there \in BOOLEAN, later \in {0, 1} :
       /\ there \/ files[d].there
       /\ files' = [files EXCEPT ![d] = [there |-> there, content |-> @.content + 1, mtime |-> @.mtime + later]]
  /\ seen' = [t \in Loaders |-> IF call[t].step \in {"idle", "leased"} THEN seen[t] ELSE seen[t] \cup {files'}]
  /\ UNCHANGED <<holder, handle_, known_, call>>

-------------------------------------------------------------------------------
(* connection() *)

GiveUp(t) ==
  /\ holder' = Absent
  /\ call' = [call EXCEPT ![t] = NoCall]

\* The mutex is locked.
Enter(t) ==
  /\ At(t, "idle") /\ holder = Absent
  /\ holder' = t
  /\ call' = [call EXCEPT ![t].step = "listing"]
  /\ seen' = [seen EXCEPT ![t] = {files}]
  /\ UNCHANGED <<disk, handle_, known_>>

\* listSyncDbFiles lists the *.db files; an error ends the call and leaves the cache as it is.
List(t) ==
  /\ At(t, "listing")
  /\ \/ call' = [call EXCEPT ![t].step = "stat", ![t].listing = Listed, ![t].left = Listed, ![t].times = Nothing]
        /\ UNCHANGED holder
     \/ GiveUp(t)
  /\ UNCHANGED <<disk, handle_, known_, seen>>

\* snapshotOf takes the times one by one; a file that is gone leaves no snapshot.
Stat(t) ==
  /\ call[t].step \in {"stat", "restat"}
  /\ \E d \in call[t].left :
       call' = [call EXCEPT ![t].left = IF files[d].there THEN @ \ {d} ELSE {},
                            ![t].times = IF files[d].there THEN Put(@, d, files[d].mtime) ELSE Absent]
  /\ UNCHANGED <<disk, holder, handle_, known_, seen>>

IsFresh(t) == handle_ # Absent /\ call[t].times # Absent /\ known_ # Absent /\ call[t].times = known_

\* The cached handle serves as long as list and times are those it was read under.
Reuse(t) ==
  /\ At(t, "stat") /\ call[t].left = {} /\ IsFresh(t)
  /\ call' = [call EXCEPT ![t].step = "leased"]
  /\ UNCHANGED <<disk, holder, handle_, known_, seen>>

\* Otherwise everything is dropped and libalpm initialized, which may fail.
Reset(t) ==
  /\ At(t, "stat") /\ call[t].left = {} /\ ~IsFresh(t)
  /\ known_' = Absent
  /\ \/ /\ handle_' = Nothing
        /\ call' = [call EXCEPT ![t].step = "registering", ![t].left = call[t].listing, ![t].fresh = call[t].times]
        /\ UNCHANGED holder
     \/ /\ handle_' = Absent
        /\ GiveUp(t)
  /\ UNCHANGED <<disk, seen>>

\* alpm_register_syncdb and its package cache, database by database; what cannot be read ends the
\* call without a handle.
Register(t) ==
  /\ At(t, "registering")
  /\ \E d \in call[t].left :
       \/ /\ files[d].there
          /\ handle_' = Put(handle_, d, [content |-> files[d].content, mtime |-> files[d].mtime])
          /\ call' = [call EXCEPT ![t].left = @ \ {d}]
          /\ UNCHANGED holder
       \/ /\ handle_' = Absent
          /\ GiveUp(t)
  /\ UNCHANGED <<disk, known_, seen>>

Relist(t) ==
  /\ At(t, "registering") /\ call[t].left = {}
  /\ \/ call' = [call EXCEPT ![t].step = "restat", ![t].listing = Listed, ![t].left = Listed, ![t].times = Nothing]
     \/ call' = [call EXCEPT ![t].step = "restat", ![t].listing = {}, ![t].times = Absent]
  /\ UNCHANGED <<disk, holder, handle_, known_, seen>>

\* Mutant: the times after the registration are kept, whatever they were before.
SettledAtEnd(t) == call[t].times # Absent

\* Files and times must be the same before and after the registration.
Settled(t) == call[t].times # Absent /\ call[t].fresh # Absent /\ call[t].times = call[t].fresh

Conclude(t) ==
  /\ At(t, "restat") /\ call[t].left = {}
  /\ known_' = IF Settled(t) THEN call[t].times ELSE known_
  /\ call' = [call EXCEPT ![t].step = "leased"]
  /\ UNCHANGED <<disk, holder, handle_, seen>>

\* The lease is destroyed and unlocks the mutex.
Release(t) ==
  /\ At(t, "leased")
  /\ GiveUp(t)
  /\ seen' = [seen EXCEPT ![t] = {}]
  /\ UNCHANGED <<disk, handle_, known_>>

CacheNext ==
  \/ \E d \in Databases : Change(d)
  \/ \E t \in Loaders :
       Enter(t) \/ List(t) \/ Stat(t) \/ Reuse(t) \/ Reset(t) \/ Register(t) \/ Relist(t) \/ Conclude(t) \/ Release(t)

CacheSpec == CacheInit /\ [][CacheNext]_cacheVars

-------------------------------------------------------------------------------
(* Properties *)

Matches(directory, d) == directory[d].there /\ directory[d].mtime = handle_[d].mtime

\* A lease has a handle, and what it holds of a database was on disk during the call, up to a
\* change that left the time of the file as it was.  A handle that is kept for later calls holds
\* what was on disk at one moment of the call, also if pacman replaced files while the databases
\* were registered (alpm_connection_cache.cpp:126, :152).
LeaseIsCurrent ==
  \A t \in Loaders : At(t, "leased") =>
    /\ handle_ # Absent
    /\ \A d \in DOMAIN handle_ : \E directory \in seen[t] : Matches(directory, d)
    /\ known_ # Absent =>
         \E directory \in seen[t] :
           /\ DOMAIN handle_ = {d \in Databases : directory[d].there}
           /\ \A d \in DOMAIN handle_ : Matches(directory, d)
===============================================================================
