----------------------------- MODULE CatalogStore -----------------------------
(***************************************************************************)
(* Publication of checked repository catalogs: JsonUpdateSnapshotStore     *)
(* saves a snapshot together with a copy of the databases it was computed  *)
(* from, while AlpmUpdateSource, in the service and in the GUI, evaluates  *)
(* updates from the published ones.  The processes share a cache directory *)
(* and the flock of CatalogLock.  The saving process may be killed between *)
(* any two of its steps.  A snapshot is its serialized bytes; its databases*)
(* are one value, the digests of all of them.                              *)
(***************************************************************************)
EXTENDS Naturals

CONSTANTS
  Readers,      \* evaluations that may run at once, in both processes
  Bytes,        \* serialized snapshots
  Catalogs,     \* contents of the databases of one check
  Generations,  \* catalog-<UUID> directories; finite, so it bounds the saves explored
  Faults,       \* what may fail besides a save: "open" a file to read, "remove" an entry
  None,         \* a missing file or directory
  Invalid,      \* a snapshot file that does not parse
  Partial       \* a generation whose databases are not all copied

ASSUME CatalogAssumption ==
  /\ None \notin Bytes /\ Invalid \notin Bytes /\ None # Invalid
  /\ None \notin Catalogs /\ Partial \notin Catalogs /\ None # Partial
  /\ None \notin Generations /\ None \notin [generation : Generations, catalog : Catalogs]
  /\ None \notin [bytes : Bytes, catalog : Catalogs \cup {None}]
  /\ Faults \subseteq {"open", "remove"}

Sidecar == [generation : Generations, catalog : Catalogs]

SaveState ==
  [step : {"idle", "locking", "locked", "copying", "describing", "publishing", "reclaiming",
           "removing"},
   bytes : Bytes \cup {None}, catalog : Catalogs \cup {None}, generation : Generations \cup {None}]

EvaluationState ==
  [step : {"idle", "opened", "leased", "read", "selecting", "copying"},
   outer : BOOLEAN, inner : BOOLEAN,
   bytes : Bytes \cup {None, Invalid}, checked : Sidecar \cup {None}]

VARIABLES
  lockFile,     \* .catalog.lock exists
  file,         \* the published snapshot file
  sidecars,     \* provenance-<SHA-256 of the bytes>.json, by bytes
  generations,  \* what each generation directory holds
  used,         \* UUIDs drawn so far
  writer,       \* the save in progress
  reader        \* the evaluations in progress

disk == <<lockFile, file, sidecars, generations, used>>
vars == <<disk, writer, reader>>

Idle  == [step |-> "idle", bytes |-> None, catalog |-> None, generation |-> None]
Away  == [step |-> "idle", outer |-> FALSE, inner |-> FALSE, bytes |-> None, checked |-> None]

\* At most a snapshot of an older version is there, without lock file or databases.
Init ==
  /\ lockFile = FALSE
  /\ file \in Bytes \cup {None, Invalid}
  /\ sidecars = [b \in Bytes |-> None]
  /\ generations = [g \in Generations |-> None]
  /\ used = {}
  /\ writer = Idle
  /\ reader = [r \in Readers |-> Away]

-------------------------------------------------------------------------------
(* CatalogLock *)

Leased(r) == reader[r].outer \/ reader[r].inner

WriterHolds == writer.step \notin {"idle", "locking"}

\* Mutant: readers do not take the lock.
NoSharedLease == TRUE

\* Mutant: a shared lease queues behind a writer that waits for its exclusive one.
FairSharedLease == writer.step = "idle"

\* flock(LOCK_SH): a writer that only waits does not keep readers out.
SharedLease == ~WriterHolds

\* Mutant: publication does not wait for the readers.
ExclusiveLeaseAtOnce == TRUE

ExclusiveLease == \A r \in Readers : ~Leased(r)

-------------------------------------------------------------------------------
(* Provenance of a snapshot *)

\* loadProvenance: the sidecar, if its generation holds databases with the digests it records.
Lookup(b) ==
  IF sidecars[b] # None /\ generations[sidecars[b].generation] = sidecars[b].catalog
    THEN sidecars[b] ELSE None

CatalogOf(b) == IF Lookup(b) = None THEN None ELSE Lookup(b).catalog

-------------------------------------------------------------------------------
(* save(), one step per change on disk *)

Goto(step) == writer' = [writer EXCEPT !.step = step]

BeginSave ==
  /\ writer = Idle
  /\ used # Generations
  /\ \E b \in Bytes, c \in Catalogs :
       writer' = [step |-> "locking", bytes |-> b, catalog |-> c, generation |-> None]
  /\ lockFile' = TRUE
  /\ UNCHANGED <<file, sidecars, generations, used, reader>>

Lock ==
  /\ writer.step = "locking"
  /\ ExclusiveLease
  /\ Goto("locked")
  /\ UNCHANGED <<disk, reader>>

\* Whether a file could be opened.
Opens == {TRUE} \cup (IF "open" \in Faults THEN {FALSE} ELSE {})

\* The published file was opened and has the bytes about to be saved.
SameBytesPublished(opened) == opened /\ file = writer.bytes

\* reusePublishedProvenance, or else a fresh generation directory.
Prepare ==
  /\ writer.step = "locked"
  /\ \E opened \in Opens :
       \/ /\ SameBytesPublished(opened)
          /\ writer' = IF CatalogOf(file) = writer.catalog
                         THEN [writer EXCEPT !.step = "publishing"] ELSE Idle
          /\ UNCHANGED disk
       \/ /\ ~SameBytesPublished(opened)
          /\ \E g \in Generations \ used :
               /\ generations' = [generations EXCEPT ![g] = Partial]
               /\ used' = used \cup {g}
               /\ writer' = [writer EXCEPT !.step = "copying", !.generation = g]
          /\ UNCHANGED <<lockFile, file, sidecars>>
  /\ UNCHANGED reader

\* Every database is copied, compared with its digest and synced.
CopyDatabases ==
  /\ writer.step = "copying"
  /\ generations' = [generations EXCEPT ![writer.generation] = writer.catalog]
  /\ Goto("describing")
  /\ UNCHANGED <<lockFile, file, sidecars, used, reader>>

\* Mutant: the snapshot is replaced before its sidecar is there.
SnapshotFirst == file' = writer.bytes /\ UNCHANGED sidecars

WriteSidecar ==
  /\ sidecars' = [sidecars EXCEPT ![writer.bytes] =
                    [generation |-> writer.generation, catalog |-> writer.catalog]]
  /\ UNCHANGED file

Describe ==
  /\ writer.step = "describing"
  /\ WriteSidecar
  /\ Goto("publishing")
  /\ UNCHANGED <<lockFile, generations, used, reader>>

\* The rename is the publication point.
Rename ==
  /\ writer.step = "publishing"
  /\ file' = writer.bytes
  /\ Goto("reclaiming")
  /\ UNCHANGED <<lockFile, sidecars, generations, used, reader>>

\* Mutant: the generation to keep is the one this save made, also when it reused another.
KeptOwn(opened) == writer.generation

\* The generation the sidecar of the saved bytes names; none if that cannot be opened.
Kept(opened) ==
  IF opened /\ sidecars[writer.bytes] # None THEN sidecars[writer.bytes].generation ELSE None

\* reclaimUnusedGenerations looks once for the generation to keep ...
Reclaim ==
  /\ writer.step = "reclaiming"
  /\ \E opened \in Opens : writer' = [writer EXCEPT !.step = "removing", !.generation = Kept(opened)]
  /\ UNCHANGED <<disk, reader>>

\* ... and removes the directories and sidecars that are not of the saved snapshot.
Unused == {g \in Generations : generations[g] # None /\ g # writer.generation}
Stale  == {b \in Bytes : sidecars[b] # None /\ b # writer.bytes}

RemoveEntry ==
  /\ writer.step = "removing"
  /\ \/ \E g \in Unused :
          generations' = [generations EXCEPT ![g] = None] /\ UNCHANGED sidecars
     \/ \E b \in Stale :
          sidecars' = [sidecars EXCEPT ![b] = None] /\ UNCHANGED generations
  /\ UNCHANGED <<lockFile, file, used, writer, reader>>

EndSave ==
  /\ writer.step = "removing"
  /\ (Unused = {} /\ Stale = {}) \/ "remove" \in Faults
  /\ writer' = Idle
  /\ UNCHANGED <<disk, reader>>

\* Every error before the rename: nothing is undone but the temporary file.
FailSave ==
  /\ writer.step \in {"locking", "locked", "copying", "describing", "publishing"}
  /\ writer' = Idle
  /\ UNCHANGED <<disk, reader>>

\* The saving process is killed; the kernel drops its lock.
KillWriter ==
  /\ writer # Idle
  /\ writer' = Idle
  /\ UNCHANGED <<disk, reader>>

\* A service that starts removes a snapshot file that does not parse.
DiscardInvalid ==
  /\ writer = Idle /\ file = Invalid
  /\ file' = None
  /\ UNCHANGED <<lockFile, sidecars, generations, used, writer, reader>>

-------------------------------------------------------------------------------
(* loadUpdates(): an evaluation, under a lease of its own around that of load() *)

Become(r, state) == reader' = [reader EXCEPT ![r] = state]

\* Without the lock file there is nothing to lease, and the lease is invalid.
BeginEvaluation(r) ==
  /\ reader[r].step = "idle"
  /\ lockFile => SharedLease
  /\ Become(r, [Away EXCEPT !.step = "opened", !.outer = lockFile])
  /\ UNCHANGED <<disk, writer>>

OpenStore(r) ==
  /\ reader[r].step = "opened"
  /\ lockFile => SharedLease
  /\ Become(r, [reader[r] EXCEPT !.step = "leased", !.inner = lockFile])
  /\ UNCHANGED <<disk, writer>>

ReadFile(r) ==
  /\ reader[r].step = "leased"
  /\ \E opened \in Opens :
       Become(r, [reader[r] EXCEPT !.step = "read", !.bytes = IF opened THEN file ELSE None])
  /\ UNCHANGED <<disk, writer>>

\* What the caller keeps of the provenance: it needs load()'s lease and its own.
Adopt(r) ==
  IF reader[r].outer /\ reader[r].inner /\ reader[r].bytes \in Bytes
    THEN Lookup(reader[r].bytes) ELSE None

ReadSidecar(r) ==
  /\ reader[r].step = "read"
  /\ \E opened \in Opens :
       Become(r, [reader[r] EXCEPT !.step = "selecting", !.inner = FALSE,
                                   !.checked = IF opened THEN Adopt(r) ELSE None])
  /\ UNCHANGED <<disk, writer>>

\* selectRepositories: the checked databases if they still have their digests and the system's
\* are not newer, else the system's.
Select(r) ==
  /\ reader[r].step = "selecting"
  /\ \/ /\ reader[r].checked # None
        /\ generations[reader[r].checked.generation] = reader[r].checked.catalog
        /\ Become(r, [reader[r] EXCEPT !.step = "copying"])
     \/ Become(r, [reader[r] EXCEPT !.step = "copying", !.checked = None])
  /\ UNCHANGED <<disk, writer>>

\* Mutant: the evaluation ends without giving its lease back.
LeakedLease(r) == [Away EXCEPT !.outer = reader[r].outer]

Released(r) == Away

\* The selected databases are copied to a private layout and compared; the lease ends with it.
FinishEvaluation(r) ==
  /\ reader[r].step = "copying"
  /\ Become(r, Released(r))
  /\ UNCHANGED <<disk, writer>>

KillReader(r) ==
  /\ reader[r].step # "idle"
  /\ Become(r, Away)
  /\ UNCHANGED <<disk, writer>>

Save ==
  \/ BeginSave \/ Lock \/ Prepare \/ CopyDatabases \/ Describe \/ Rename
  \/ Reclaim \/ RemoveEntry \/ EndSave \/ FailSave \/ KillWriter \/ DiscardInvalid

Evaluate(r) ==
  \/ BeginEvaluation(r) \/ OpenStore(r) \/ ReadFile(r) \/ ReadSidecar(r)
  \/ Select(r) \/ FinishEvaluation(r) \/ KillReader(r)

Next == Save \/ \E r \in Readers : Evaluate(r)

Spec == Init /\ [][Next]_vars

\* Threads run, and the kernel wakes those that wait for a lock whenever it is free for them.
Fairness ==
  /\ SF_vars(Lock)
  /\ WF_vars(Prepare) /\ WF_vars(CopyDatabases) /\ WF_vars(Describe) /\ WF_vars(Rename)
  /\ WF_vars(Reclaim) /\ WF_vars(RemoveEntry) /\ WF_vars(EndSave)
  /\ \A r \in Readers :
       /\ SF_vars(OpenStore(r)) /\ WF_vars(ReadFile(r)) /\ WF_vars(ReadSidecar(r))
       /\ WF_vars(Select(r)) /\ WF_vars(FinishEvaluation(r))

FairSpec == Spec /\ Fairness

-------------------------------------------------------------------------------
(* Properties *)

\* Every variable keeps its type.
TypeOK ==
  /\ lockFile \in BOOLEAN
  /\ file \in Bytes \cup {None, Invalid}
  /\ sidecars \in [Bytes -> Sidecar \cup {None}]
  /\ generations \in [Generations -> Catalogs \cup {None, Partial}]
  /\ used \subseteq Generations
  /\ writer \in SaveState
  /\ reader \in [Readers -> EvaluationState]

\* The databases an evaluation has chosen stay as they are until it is done, whatever saves
\* publish and reclaim meanwhile: copying them cannot fail for a change (catalog_lock.h 10).
LeasedCatalogStays ==
  \A r \in Readers :
    reader[r].checked # None =>
      generations[reader[r].checked.generation] = reader[r].checked.catalog

\* An evaluation uses the databases its snapshot was computed from, and both are the ones still
\* published: it never combines the rows of one check with the catalog of another.
RowsMatchCatalog ==
  \A r \in Readers :
    reader[r].checked # None => reader[r].bytes = file /\ reader[r].checked = Lookup(file)

\* Only unpublished generations are removed (REQ-F-052).
ReclaimsOnlyUnpublished ==
  [][\A g \in Generations :
       generations[g] # None /\ generations'[g] = None /\ file \in Bytes
         => Lookup(file) = None \/ Lookup(file).generation # g]_vars

\* An evaluation that took its lease ends, although it asks for a second lease while a save may
\* be waiting for its own.
EvaluationsEnd == \A r \in Readers : reader[r].step # "idle" ~> reader[r].step = "idle"

\* A save ends provided that again and again no evaluation is in progress; flock lets readers
\* that overlap keep it waiting for ever.
SavesEnd ==
  []<>(\A r \in Readers : reader[r].step = "idle")
    => (writer.step # "idle" ~> writer.step = "idle")

\* A snapshot and its databases change together or not at all, also when a save fails or its
\* process is killed at any step (REQ-F-052).
Register == INSTANCE CatalogRegister WITH
  Pairs     <- [bytes : Bytes, catalog : Catalogs \cup {None}],
  published <- IF file \in Bytes THEN [bytes |-> file, catalog |-> CatalogOf(file)] ELSE None,
  pending   <- IF writer.step = "idle" THEN None
               ELSE [bytes |-> writer.bytes, catalog |-> writer.catalog]
PublishesAtomically == Register!Spec
===============================================================================
