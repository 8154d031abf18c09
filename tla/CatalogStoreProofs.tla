-------------------------- MODULE CatalogStoreProofs --------------------------
(***************************************************************************)
(* Proofs about CatalogStore for every set of readers, snapshots, catalogs *)
(* and generations.                                                        *)
(***************************************************************************)
EXTENDS CatalogStore, TLAPS

\* The lock works: nobody reads under a lease while a save is at work.
ExclusionInv == WriterHolds => \A r \in Readers : ~Leased(r)

\* Under its lease an evaluation has read what is still published, and uses that.
ReadInv ==
  \A r \in Readers :
    /\ reader[r].outer /\ reader[r].bytes \in Bytes => reader[r].bytes = file
    /\ reader[r].checked # None =>
         /\ reader[r].outer /\ reader[r].bytes \in Bytes
         /\ reader[r].checked = Lookup(file)
         /\ reader[r].step \in {"selecting", "copying"}

\* A save that does nothing has no parameters, any other has them.
SaveInv ==
  /\ writer.step = "idle" <=> writer = Idle
  /\ writer.step # "idle" => writer.bytes \in Bytes /\ writer.catalog \in Catalogs
  /\ writer.step \in {"copying", "describing"} => writer.generation \in Generations

Base == TypeOK /\ SaveInv /\ ExclusionInv

-------------------------------------------------------------------------------
(* Types *)

LEMMA IdleStates == Idle \in SaveState /\ Away \in EvaluationState
BY DEF Idle, Away, SaveState, EvaluationState

LEMMA LookupType ==
  ASSUME TypeOK, NEW b \in Bytes
  PROVE  /\ Lookup(b) \in Sidecar \cup {None}
         /\ Lookup(b) # None => /\ Lookup(b) = sidecars[b]
                                /\ generations[sidecars[b].generation] = sidecars[b].catalog
BY DEF TypeOK, Lookup

LEMMA InitBase == Init => Base
<1> SUFFICES ASSUME Init PROVE Base
  OBVIOUS
<1>1. TypeOK
  BY IdleStates DEF Init, TypeOK
<1>2. SaveInv /\ ExclusionInv
  BY DEF Init, SaveInv, ExclusionInv, WriterHolds, Idle
<1>3. QED
  BY <1>1, <1>2 DEF Base

\* The steps of a save that only move it on.
LEMMA GotoBase ==
  ASSUME Base, NEW step \in {"locking", "locked", "describing", "publishing", "reclaiming"},
         Goto(step), writer.step # "idle",
         step \in {"copying", "describing"} => writer.step = "copying"
  PROVE  writer' \in SaveState /\ SaveInv' /\ writer'.step = step
<1>1. /\ writer' \in SaveState /\ writer'.step = step
      /\ writer'.bytes = writer.bytes /\ writer'.catalog = writer.catalog
      /\ writer'.generation = writer.generation
  BY DEF Goto, Base, TypeOK, SaveState
<1>2. QED
  BY <1>1 DEF Base, SaveInv, Idle

LEMMA PrepareBase ==
  ASSUME Base, Prepare
  PROVE  Base'
<1>1. writer.step = "locked" /\ UNCHANGED <<lockFile, file, sidecars, reader>>
  BY DEF Prepare, disk
<1>2. CASE UNCHANGED disk /\ writer' = Idle
  <2>1. TypeOK' /\ SaveInv'
    BY <1>1, <1>2, IdleStates DEF Base, TypeOK, SaveInv, disk, Idle
  <2>2. ExclusionInv'
    BY <1>2 DEF ExclusionInv, WriterHolds, Idle
  <2>3. QED
    BY <2>1, <2>2 DEF Base
<1>3. CASE UNCHANGED disk /\ Goto("publishing")
  <2>1. TypeOK' /\ SaveInv' /\ writer'.step = "publishing"
    BY <1>1, <1>3, GotoBase DEF Base, TypeOK, disk
  <2>2. ExclusionInv'
    BY <1>1, <2>1 DEF Base, ExclusionInv, WriterHolds, Leased
  <2>3. QED
    BY <2>1, <2>2 DEF Base
<1>4. CASE \E g \in Generations \ used :
             /\ generations' = [generations EXCEPT ![g] = Partial]
             /\ used' = used \cup {g}
             /\ writer' = [writer EXCEPT !.step = "copying", !.generation = g]
  <2>1. PICK g \in Generations \ used :
             /\ generations' = [generations EXCEPT ![g] = Partial]
             /\ used' = used \cup {g}
             /\ writer' = [writer EXCEPT !.step = "copying", !.generation = g]
    BY <1>4
  <2>2. /\ writer' \in SaveState /\ writer'.step = "copying" /\ writer'.generation = g
        /\ writer'.bytes = writer.bytes /\ writer'.catalog = writer.catalog
    BY <2>1 DEF Base, TypeOK, SaveState
  <2>3. TypeOK'
    BY <1>1, <2>1, <2>2 DEF Base, TypeOK
  <2>4. SaveInv'
    BY <1>1, <2>2 DEF Base, SaveInv, Idle
  <2>5. ExclusionInv'
    BY <1>1, <2>2 DEF Base, ExclusionInv, WriterHolds, Leased
  <2>6. QED
    BY <2>3, <2>4, <2>5 DEF Base
<1>5. QED
  BY <1>2, <1>3, <1>4 DEF Prepare, Goto

\* Every other step of a save.
LEMMA SaveBase ==
  ASSUME Base, Save
  PROVE  Base'
<1>1. CASE BeginSave
  <2>1. writer' \in SaveState /\ SaveInv' /\ writer'.step = "locking"
    BY <1>1 DEF BeginSave, SaveState, SaveInv, Idle
  <2>2. QED
    BY <1>1, <2>1 DEF BeginSave, Base, TypeOK, ExclusionInv, WriterHolds
<1>2. CASE Lock
  <2>1. writer' \in SaveState /\ SaveInv'
    BY <1>2, GotoBase DEF Lock
  <2>2. ExclusionInv'
    BY <1>2 DEF Lock, ExclusiveLease, ExclusionInv, Leased
  <2>3. QED
    BY <1>2, <2>1, <2>2 DEF Lock, Base, TypeOK, disk
<1>3. CASE Prepare
  BY <1>3, PrepareBase
<1>4. CASE CopyDatabases
  <2>1. writer' \in SaveState /\ SaveInv'
    BY <1>4, GotoBase DEF CopyDatabases
  <2>2. generations' \in [Generations -> Catalogs \cup {None, Partial}]
    BY <1>4 DEF CopyDatabases, Base, TypeOK, SaveInv
  <2>3. ExclusionInv'
    BY <1>4 DEF CopyDatabases, Base, ExclusionInv, WriterHolds, Leased
  <2>4. QED
    BY <1>4, <2>1, <2>2, <2>3 DEF CopyDatabases, Base, TypeOK
<1>5. CASE Describe
  <2>1. writer' \in SaveState /\ SaveInv'
    BY <1>5, GotoBase DEF Describe
  <2>2. [generation |-> writer.generation, catalog |-> writer.catalog] \in Sidecar
    BY <1>5 DEF Describe, Base, SaveInv, Sidecar
  <2>3. sidecars' \in [Bytes -> Sidecar \cup {None}]
    BY <1>5, <2>2 DEF Describe, WriteSidecar, Base, TypeOK
  <2>4. ExclusionInv'
    BY <1>5 DEF Describe, Base, ExclusionInv, WriterHolds, Leased
  <2>5. QED
    BY <1>5, <2>1, <2>3, <2>4 DEF Describe, WriteSidecar, Base, TypeOK
<1>6. CASE Rename
  <2>1. writer' \in SaveState /\ SaveInv' /\ file' \in Bytes
    BY <1>6, GotoBase DEF Rename, Base, SaveInv
  <2>2. ExclusionInv'
    BY <1>6 DEF Rename, Base, ExclusionInv, WriterHolds, Leased
  <2>3. QED
    BY <1>6, <2>1, <2>2 DEF Rename, Base, TypeOK
<1>7. CASE Reclaim
  <2>1. PICK opened \in Opens :
          writer' = [writer EXCEPT !.step = "removing", !.generation = Kept(opened)]
    BY <1>7 DEF Reclaim
  <2>2. Kept(opened) \in Generations \cup {None}
    BY <1>7 DEF Reclaim, Kept, Base, SaveInv, TypeOK, Sidecar
  <2>3. /\ writer' \in SaveState /\ writer'.step = "removing"
        /\ writer'.bytes = writer.bytes /\ writer'.catalog = writer.catalog
    BY <2>1, <2>2 DEF Base, TypeOK, SaveState
  <2>0. writer.bytes \in Bytes /\ writer.catalog \in Catalogs
    BY <1>7 DEF Reclaim, Base, SaveInv
  <2>4. SaveInv'
    BY <2>0, <2>3 DEF SaveInv, Idle
  <2>5. ExclusionInv'
    BY <1>7 DEF Reclaim, Base, ExclusionInv, WriterHolds, Leased
  <2>6. QED
    BY <1>7, <2>3, <2>4, <2>5 DEF Reclaim, Base, TypeOK, disk
<1>8. CASE RemoveEntry
  <2>1. /\ sidecars' \in [Bytes -> Sidecar \cup {None}]
        /\ generations' \in [Generations -> Catalogs \cup {None, Partial}]
    BY <1>8 DEF RemoveEntry, Base, TypeOK
  <2>2. QED
    BY <1>8, <2>1
       DEF RemoveEntry, Base, TypeOK, SaveInv, ExclusionInv, WriterHolds, Leased
<1>9. CASE EndSave \/ FailSave \/ KillWriter
  <2>1. writer' = Idle /\ UNCHANGED <<disk, reader>>
    BY <1>9 DEF EndSave, FailSave, KillWriter
  <2>2. TypeOK'
    BY <2>1, IdleStates DEF Base, TypeOK, disk
  <2>3. SaveInv' /\ ExclusionInv'
    BY <2>1 DEF SaveInv, ExclusionInv, WriterHolds, Idle
  <2>4. QED
    BY <2>2, <2>3 DEF Base
<1>10. CASE DiscardInvalid
  BY <1>10
     DEF DiscardInvalid, Base, TypeOK, SaveInv, ExclusionInv, WriterHolds, Leased
<1>11. QED
  BY <1>1, <1>2, <1>3, <1>4, <1>5, <1>6, <1>7, <1>8, <1>9, <1>10 DEF Save

LEMMA EvaluateBase ==
  ASSUME Base, NEW r \in Readers, Evaluate(r)
  PROVE  Base'
<1>1. ASSUME NEW state \in EvaluationState, Become(r, state), UNCHANGED <<disk, writer>>,
             WriterHolds => ~state.outer /\ ~state.inner
      PROVE  Base'
  <2>1. reader' \in [Readers -> EvaluationState] /\ reader'[r] = state
        /\ \A q \in Readers \ {r} : reader'[q] = reader[q]
    BY <1>1 DEF Become, Base, TypeOK
  <2>2. TypeOK'
    BY <1>1, <2>1 DEF Base, TypeOK, disk
  <2>3. SaveInv'
    BY <1>1 DEF Base, SaveInv
  <2>4. ExclusionInv'
    BY <1>1, <2>1 DEF Base, ExclusionInv, WriterHolds, Leased
  <2>5. QED
    BY <2>2, <2>3, <2>4 DEF Base
<1>2. reader[r] \in EvaluationState /\ (WriterHolds => ~reader[r].outer /\ ~reader[r].inner)
  BY DEF Base, TypeOK, ExclusionInv, Leased
<1>3. CASE BeginEvaluation(r)
  <2>1. [Away EXCEPT !.step = "opened", !.outer = lockFile] \in EvaluationState
    BY IdleStates DEF Base, TypeOK, EvaluationState
  <2>2. WriterHolds => lockFile = FALSE
    BY <1>3 DEF BeginEvaluation, SharedLease, Base, TypeOK
  <2>3. QED
    BY <1>1, <1>3, <2>1, <2>2 DEF BeginEvaluation, Away
<1>4. CASE OpenStore(r)
  <2>1. [reader[r] EXCEPT !.step = "leased", !.inner = lockFile] \in EvaluationState
    BY <1>2 DEF Base, TypeOK, EvaluationState
  <2>2. WriterHolds => lockFile = FALSE
    BY <1>4 DEF OpenStore, SharedLease, Base, TypeOK
  <2>3. QED
    BY <1>1, <1>2, <1>4, <2>1, <2>2 DEF OpenStore, EvaluationState
<1>5. CASE ReadFile(r)
  <2>1. PICK opened \in Opens :
          Become(r, [reader[r] EXCEPT !.step = "read", !.bytes = IF opened THEN file ELSE None])
    BY <1>5 DEF ReadFile
  <2>2. [reader[r] EXCEPT !.step = "read", !.bytes = IF opened THEN file ELSE None]
          \in EvaluationState
    BY <1>2 DEF Base, TypeOK, EvaluationState
  <2>3. QED
    BY <1>1, <1>2, <1>5, <2>1, <2>2 DEF ReadFile, EvaluationState
<1>6. CASE ReadSidecar(r)
  <2>1. PICK opened \in Opens :
          Become(r, [reader[r] EXCEPT !.step = "selecting", !.inner = FALSE,
                                      !.checked = IF opened THEN Adopt(r) ELSE None])
    BY <1>6 DEF ReadSidecar
  <2>2. Adopt(r) \in Sidecar \cup {None}
    BY LookupType DEF Adopt, Base
  <2>3. [reader[r] EXCEPT !.step = "selecting", !.inner = FALSE,
                          !.checked = IF opened THEN Adopt(r) ELSE None] \in EvaluationState
    BY <1>2, <2>2 DEF EvaluationState
  <2>4. QED
    BY <1>1, <1>2, <1>6, <2>1, <2>3 DEF ReadSidecar, EvaluationState
<1>7. CASE Select(r)
  <2>1. /\ [reader[r] EXCEPT !.step = "copying"] \in EvaluationState
        /\ [reader[r] EXCEPT !.step = "copying", !.checked = None] \in EvaluationState
    BY <1>2 DEF EvaluationState
  <2>2. QED
    BY <1>1, <1>2, <1>7, <2>1 DEF Select, EvaluationState
<1>8. CASE FinishEvaluation(r) \/ KillReader(r)
  BY <1>1, <1>8, IdleStates DEF FinishEvaluation, KillReader, Released, Away
<1>9. QED
  BY <1>3, <1>4, <1>5, <1>6, <1>7, <1>8 DEF Evaluate

LEMMA BaseInvariant == Spec => []Base
<1>1. Base /\ [Next]_vars => Base'
  <2>1. Base /\ UNCHANGED vars => Base'
    BY DEF vars, disk, Base, TypeOK, SaveInv, ExclusionInv, WriterHolds, Leased
  <2>2. QED
    BY <2>1, SaveBase, EvaluateBase DEF Next
<1>2. QED
  BY <1>1, InitBase, PTL DEF Spec

\* Every variable keeps its type.
THEOREM TypeCorrect == Spec => []TypeOK
<1>1. Base => TypeOK
  BY DEF Base
<1>2. QED
  BY <1>1, BaseInvariant, PTL

-------------------------------------------------------------------------------
(* Evaluations and the saves beside them *)

LEMMA SameLookup ==
  ASSUME UNCHANGED <<sidecars, generations>>, NEW b \in Bytes
  PROVE  Lookup(b)' = Lookup(b) /\ CatalogOf(b)' = CatalogOf(b)
BY DEF Lookup, CatalogOf

\* While a save is at work nobody holds anything of the cache.
LEMMA NobodyReads ==
  ASSUME Base, ReadInv, WriterHolds, UNCHANGED reader
  PROVE  ReadInv'
<1>1. \A r \in Readers : reader[r].outer = FALSE /\ reader[r].checked = None
  BY DEF Base, TypeOK, EvaluationState, ExclusionInv, Leased, ReadInv
<1>2. QED
  BY <1>1 DEF ReadInv

LEMMA ReadSaveStep ==
  ASSUME Base, ReadInv, Save
  PROVE  ReadInv'
<1>1. UNCHANGED reader
  BY DEF Save, BeginSave, Lock, Prepare, CopyDatabases, Describe, Rename, Reclaim, RemoveEntry,
         EndSave, FailSave, KillWriter, DiscardInvalid
<1>2. CASE WriterHolds
  BY <1>1, <1>2, NobodyReads
<1>3. CASE ~WriterHolds
  <2>1. \/ UNCHANGED <<file, sidecars, generations>>
        \/ DiscardInvalid
    BY <1>3
       DEF Save, BeginSave, Lock, Prepare, CopyDatabases, Describe, Rename, Reclaim, RemoveEntry,
           EndSave, FailSave, KillWriter, WriterHolds, disk
  <2>2. CASE UNCHANGED <<file, sidecars, generations>>
    <3>1. \A r \in Readers : reader[r].checked # None => file \in Bytes
      BY DEF ReadInv
    <3>2. file \in Bytes => Lookup(file)' = Lookup(file)
      BY <2>2 DEF Lookup
    <3>3. QED
      BY <1>1, <2>2, <3>1, <3>2 DEF ReadInv
  <2>3. CASE DiscardInvalid
    <3>1. \A r \in Readers : reader[r].checked = None /\ ~(reader[r].outer /\ reader[r].bytes \in Bytes)
      BY <2>3, CatalogAssumption DEF DiscardInvalid, ReadInv
    <3>2. QED
      BY <1>1, <3>1 DEF ReadInv
  <2>4. QED
    BY <2>1, <2>2, <2>3
<1>4. QED
  BY <1>2, <1>3

LEMMA ReadEvaluateStep ==
  ASSUME Base, ReadInv, NEW r \in Readers, Evaluate(r)
  PROVE  ReadInv'
<1> DEFINE Holds(e) ==
      /\ e.outer /\ e.bytes \in Bytes => e.bytes = file
      /\ e.checked # None => /\ e.outer /\ e.bytes \in Bytes /\ e.checked = Lookup(file)
                             /\ e.step \in {"selecting", "copying"}
<1>1. Holds(reader[r]) /\ reader[r] \in EvaluationState
  BY DEF ReadInv, Base, TypeOK
<1>2. UNCHANGED <<file, sidecars, generations>>
  BY DEF Evaluate, BeginEvaluation, OpenStore, ReadFile, ReadSidecar, Select, FinishEvaluation,
         KillReader, disk
<1>3. ASSUME NEW state, Become(r, state), Holds(state)
      PROVE  ReadInv'
  <2>1. reader'[r] = state /\ \A q \in Readers \ {r} : reader'[q] = reader[q]
    BY <1>3 DEF Become, Base, TypeOK
  <2>2. Lookup(file)' = Lookup(file)
    BY <1>2 DEF Lookup
  <2>3. QED
    BY <1>2, <1>3, <2>1, <2>2 DEF ReadInv
<1>4. CASE BeginEvaluation(r)
  BY <1>3, <1>4, CatalogAssumption DEF BeginEvaluation, Away
<1>5. CASE OpenStore(r)
  BY <1>1, <1>3, <1>5 DEF OpenStore, EvaluationState
<1>6. CASE ReadFile(r)
  <2>1. PICK opened \in Opens :
          Become(r, [reader[r] EXCEPT !.step = "read", !.bytes = IF opened THEN file ELSE None])
    BY <1>6 DEF ReadFile
  <2>2. reader[r].checked = None
    BY <1>1, <1>6 DEF ReadFile
  <2> DEFINE after == [reader[r] EXCEPT !.step = "read", !.bytes = IF opened THEN file ELSE None]
  <2>3. after.bytes \in {file, None} /\ after.checked = reader[r].checked
    BY <1>1 DEF EvaluationState
  <2>4. Holds(after)
    BY <2>2, <2>3, CatalogAssumption
  <2>5. QED
    BY <1>3, <2>1, <2>4
<1>7. CASE ReadSidecar(r)
  <2>1. PICK opened \in Opens :
          Become(r, [reader[r] EXCEPT !.step = "selecting", !.inner = FALSE,
                                      !.checked = IF opened THEN Adopt(r) ELSE None])
    BY <1>7 DEF ReadSidecar
  <2>2. Adopt(r) # None =>
          reader[r].outer /\ reader[r].bytes \in Bytes /\ Adopt(r) = Lookup(reader[r].bytes)
    BY DEF Adopt
  <2> DEFINE after == [reader[r] EXCEPT !.step = "selecting", !.inner = FALSE,
                                        !.checked = IF opened THEN Adopt(r) ELSE None]
  <2>3. /\ after.outer = reader[r].outer /\ after.bytes = reader[r].bytes
        /\ after.step = "selecting" /\ after.checked \in {Adopt(r), None}
    BY <1>1 DEF EvaluationState
  <2>4. Holds(after)
    BY <1>1, <2>2, <2>3
  <2>5. QED
    BY <1>3, <2>1, <2>4
<1>8. CASE Select(r)
  BY <1>1, <1>3, <1>8 DEF Select, EvaluationState
<1>9. CASE FinishEvaluation(r) \/ KillReader(r)
  BY <1>3, <1>9, CatalogAssumption DEF FinishEvaluation, KillReader, Released, Away
<1>10. QED
  BY <1>4, <1>5, <1>6, <1>7, <1>8, <1>9 DEF Evaluate

LEMMA ReadInvariant == Spec => []ReadInv
<1>1. Init => ReadInv
  <2>1. Away.outer = FALSE /\ Away.checked = None
    BY DEF Away
  <2>2. Init => \A r \in Readers : reader[r] = Away
    BY DEF Init
  <2>3. QED
    BY <2>1, <2>2 DEF ReadInv
<1>2. Base /\ ReadInv /\ [Next]_vars => ReadInv'
  <2>1. ReadInv /\ UNCHANGED vars => ReadInv'
    BY DEF vars, disk, ReadInv, Lookup
  <2>2. QED
    BY <2>1, ReadSaveStep, ReadEvaluateStep DEF Next
<1>3. QED
  BY <1>1, <1>2, BaseInvariant, PTL DEF Spec

\* The databases an evaluation has chosen stay as they are until it is done.
THEOREM LeasesProtect == Spec => []LeasedCatalogStays
<1>1. Base /\ ReadInv => LeasedCatalogStays
  <2> SUFFICES ASSUME Base, ReadInv, NEW r \in Readers, reader[r].checked # None
               PROVE  generations[reader[r].checked.generation] = reader[r].checked.catalog
    BY DEF LeasedCatalogStays
  <2>1. file \in Bytes /\ reader[r].checked = Lookup(file) /\ Lookup(file) # None
    BY DEF ReadInv
  <2>2. QED
    BY <2>1 DEF Lookup
<1>2. QED
  BY <1>1, BaseInvariant, ReadInvariant, PTL

\* An evaluation uses the databases its snapshot was computed from, and both are still published.
THEOREM EvaluationsAreConsistent == Spec => []RowsMatchCatalog
<1>1. ReadInv => RowsMatchCatalog
  BY DEF ReadInv, RowsMatchCatalog
<1>2. QED
  BY <1>1, ReadInvariant, PTL

-------------------------------------------------------------------------------
(* Publication is atomic when files that exist can be opened *)

\* What a save has done so far: its generation is its own until the sidecar names it, and from
\* then on the bytes it saves lead to the catalog it saves.
ProgressInv ==
  /\ \A b \in Bytes : sidecars[b] # None => sidecars[b].generation \in used
  /\ writer.step \in {"copying", "describing"} =>
       /\ file # writer.bytes /\ writer.generation \in used
       /\ \A b \in Bytes : sidecars[b] # None => sidecars[b].generation # writer.generation
  /\ writer.step = "describing" => generations[writer.generation] = writer.catalog
  /\ writer.step \in {"publishing", "reclaiming", "removing"} =>
       CatalogOf(writer.bytes) = writer.catalog
  /\ writer.step \in {"reclaiming", "removing"} => file = writer.bytes
  /\ writer.step = "removing" => writer.generation = sidecars[writer.bytes].generation

Pair(s) == [bytes |-> s.bytes, catalog |-> s.catalog]
Published == IF file \in Bytes THEN [bytes |-> file, catalog |-> CatalogOf(file)] ELSE None
Pending == IF writer.step = "idle" THEN None ELSE Pair(writer)

\* A step leaves what is published alone, or publishes what is pending.
Atomic == Published' = Published \/ (Published' = Pair(writer) /\ writer.step = "publishing"
                                    /\ writer'.step = "reclaiming")

LEMMA OpensSucceed == "open" \notin Faults => Opens = {TRUE}
BY DEF Opens

LEMMA CatalogFound ==
  ASSUME TypeOK, NEW b \in Bytes, CatalogOf(b) \in Catalogs
  PROVE  /\ sidecars[b] # None /\ sidecars[b] \in Sidecar
         /\ generations[sidecars[b].generation] = sidecars[b].catalog
         /\ sidecars[b].catalog = CatalogOf(b)
BY CatalogAssumption DEF TypeOK, CatalogOf, Lookup

\* A change to a generation that no sidecar names, or that another sidecar names, is not seen.
LEMMA CatalogKept ==
  ASSUME TypeOK, NEW b \in Bytes, sidecars'[b] = sidecars[b],
         sidecars[b] # None =>
           generations'[sidecars[b].generation] = generations[sidecars[b].generation]
  PROVE  CatalogOf(b)' = CatalogOf(b)
BY DEF CatalogOf, Lookup

LEMMA PublishedKept ==
  ASSUME file' = file, file \in Bytes => CatalogOf(file)' = CatalogOf(file)
  PROVE  Published' = Published
BY DEF Published

\* What a save has in view does not change from its start to its end.
LEMMA PairKept ==
  ASSUME Base, Save, writer.step # "idle", writer'.step # "idle"
  PROVE  Pair(writer)' = Pair(writer)
<1>1. writer' # Idle
  BY DEF Idle
<1>2. writer \in SaveState /\ writer # Idle
  BY DEF Base, TypeOK, Idle
<1>3. CASE Prepare
  BY <1>1, <1>2, <1>3 DEF Prepare, Pair, SaveState
<1>4. CASE Reclaim
  BY <1>2, <1>4 DEF Reclaim, Pair, SaveState
<1>5. CASE Lock \/ CopyDatabases \/ Describe \/ Rename \/ RemoveEntry
  BY <1>2, <1>5
     DEF Lock, CopyDatabases, Describe, Rename, RemoveEntry, Goto, Pair, SaveState
<1>6. QED
  BY <1>1, <1>2, <1>3, <1>4, <1>5
     DEF Save, BeginSave, EndSave, FailSave, KillWriter, DiscardInvalid

\* One step of a save keeps ProgressInv and is atomic.
LEMMA ProgressStep ==
  ASSUME Base, ProgressInv, Save, "open" \notin Faults
  PROVE  ProgressInv' /\ Atomic
<1>0. writer \in SaveState /\ TypeOK /\ SaveInv
  BY DEF Base, TypeOK
<1>1. CASE BeginSave
  <2>1. writer'.step = "locking" /\ UNCHANGED <<file, sidecars, generations, used>>
    BY <1>1 DEF BeginSave
  <2>2. QED
    BY <2>1, PublishedKept, SameLookup DEF ProgressInv, Atomic
<1>2. CASE Lock
  <2>1. writer'.step = "locked" /\ UNCHANGED <<file, sidecars, generations, used>>
    BY <1>0, <1>2 DEF Lock, Goto, disk, SaveState
  <2>2. QED
    BY <2>1, PublishedKept, SameLookup DEF ProgressInv, Atomic
<1>3. CASE Prepare
  <2>1. CASE UNCHANGED disk /\ writer' = Idle
    <3>1. writer'.step = "idle" /\ UNCHANGED <<file, sidecars, generations, used>>
      BY <2>1 DEF Idle, disk
    <3>2. QED
      BY <3>1, PublishedKept, SameLookup DEF ProgressInv, Atomic
  <2>2. CASE /\ UNCHANGED disk /\ file = writer.bytes /\ CatalogOf(file) = writer.catalog
             /\ writer' = [writer EXCEPT !.step = "publishing"]
    <3>1. /\ writer'.step = "publishing" /\ UNCHANGED <<file, sidecars, generations, used>>
          /\ writer'.bytes = writer.bytes /\ writer'.catalog = writer.catalog
      BY <1>0, <2>2 DEF disk, SaveState
    <3>2. writer.bytes \in Bytes
      BY <1>0, <1>3 DEF Prepare, SaveInv
    <3>3. CatalogOf(writer.bytes)' = writer'.catalog
      BY <2>2, <3>1 DEF CatalogOf, Lookup
    <3>4. Published' = Published
      BY <3>1, PublishedKept, SameLookup
    <3>5. QED
      BY <3>1, <3>3, <3>4 DEF ProgressInv, Atomic
  <2>3. CASE /\ file # writer.bytes
             /\ \E g \in Generations \ used :
                  /\ generations' = [generations EXCEPT ![g] = Partial]
                  /\ used' = used \cup {g}
                  /\ writer' = [writer EXCEPT !.step = "copying", !.generation = g]
             /\ UNCHANGED <<lockFile, file, sidecars>>
    <3>1. PICK g \in Generations \ used :
            /\ generations' = [generations EXCEPT ![g] = Partial]
            /\ used' = used \cup {g}
            /\ writer' = [writer EXCEPT !.step = "copying", !.generation = g]
      BY <2>3
    <3>2. /\ writer'.step = "copying" /\ writer'.generation = g
          /\ writer'.bytes = writer.bytes
      BY <1>0, <3>1 DEF SaveState
    <3>3. \A b \in Bytes : sidecars[b] # None =>
            /\ sidecars[b].generation # g
            /\ generations'[sidecars[b].generation] = generations[sidecars[b].generation]
      <4> SUFFICES ASSUME NEW b \in Bytes, sidecars[b] # None
                   PROVE  /\ sidecars[b].generation # g
                          /\ generations'[sidecars[b].generation]
                               = generations[sidecars[b].generation]
        OBVIOUS
      <4>1. sidecars[b].generation \in used /\ sidecars[b].generation \in Generations
        BY <1>0 DEF ProgressInv, TypeOK, Sidecar
      <4>2. QED
        BY <1>0, <3>1, <4>1 DEF TypeOK
    <3>4. Published' = Published
      BY <1>0, <2>3, <3>3, PublishedKept, CatalogKept
    <3>5. QED
      BY <2>3, <3>1, <3>2, <3>3, <3>4 DEF ProgressInv, Atomic
  <2>4. PICK opened \in Opens :
       \/ /\ SameBytesPublished(opened)
          /\ writer' = IF CatalogOf(file) = writer.catalog
                         THEN [writer EXCEPT !.step = "publishing"] ELSE Idle
          /\ UNCHANGED disk
       \/ /\ ~SameBytesPublished(opened)
          /\ \E g \in Generations \ used :
               /\ generations' = [generations EXCEPT ![g] = Partial]
               /\ used' = used \cup {g}
               /\ writer' = [writer EXCEPT !.step = "copying", !.generation = g]
          /\ UNCHANGED <<lockFile, file, sidecars>>
    BY <1>3 DEF Prepare
  <2>5. opened = TRUE
    BY OpensSucceed
  <2>6. QED
    BY <2>1, <2>2, <2>3, <2>4, <2>5 DEF SameBytesPublished
<1>4. CASE CopyDatabases
  <2>1. /\ writer.step = "copying" /\ writer'.step = "describing"
        /\ writer'.bytes = writer.bytes /\ writer'.catalog = writer.catalog
        /\ writer'.generation = writer.generation /\ UNCHANGED <<file, sidecars, used>>
    BY <1>0, <1>4 DEF CopyDatabases, Goto, SaveState
  <2>2. \A b \in Bytes : sidecars[b] # None =>
          generations'[sidecars[b].generation] = generations[sidecars[b].generation]
    <3>1. \A b \in Bytes : sidecars[b] # None =>
            sidecars[b].generation # writer.generation /\ sidecars[b].generation \in Generations
      BY <1>0, <2>1 DEF ProgressInv, TypeOK, Sidecar
    <3>2. QED
      BY <1>0, <1>4, <3>1 DEF CopyDatabases, TypeOK
  <2>3. generations'[writer.generation] = writer.catalog
    BY <1>0, <1>4, <2>1 DEF CopyDatabases, TypeOK, SaveInv
  <2>4. Published' = Published
    BY <1>0, <2>1, <2>2, PublishedKept, CatalogKept
  <2>5. QED
    BY <2>1, <2>3, <2>4 DEF ProgressInv, Atomic
<1>5. CASE Describe
  <2>1. /\ writer.step = "describing" /\ writer'.step = "publishing"
        /\ writer'.bytes = writer.bytes /\ writer'.catalog = writer.catalog
        /\ UNCHANGED <<file, generations, used>>
    BY <1>0, <1>5 DEF Describe, WriteSidecar, Goto, SaveState
  <2> DEFINE mine == [generation |-> writer.generation, catalog |-> writer.catalog]
  <2>2. /\ writer.bytes \in Bytes /\ sidecars'[writer.bytes] = mine
        /\ \A b \in Bytes \ {writer.bytes} : sidecars'[b] = sidecars[b]
    BY <1>0, <1>5, <2>1 DEF Describe, WriteSidecar, SaveInv, TypeOK
  <2>3. mine # None
    BY <1>0, <2>1, CatalogAssumption DEF SaveInv
  <2>4. CatalogOf(writer.bytes)' = writer.catalog
    BY <2>1, <2>2, <2>3 DEF CatalogOf, Lookup, ProgressInv
  <2>5. Published' = Published
    BY <1>0, <2>1, <2>2, PublishedKept, CatalogKept DEF ProgressInv
  <2>6. \A b \in Bytes : sidecars'[b] # None => sidecars'[b].generation \in used'
    BY <2>1, <2>2 DEF ProgressInv
  <2>7. CatalogOf(writer.bytes)' = writer'.catalog
    BY <2>1, <2>4
  <2>8. QED
    BY <2>1, <2>5, <2>6, <2>4 DEF ProgressInv, Atomic, CatalogOf, Lookup
<1>6. CASE Rename
  <2>1. /\ writer.step = "publishing" /\ writer'.step = "reclaiming"
        /\ writer'.bytes = writer.bytes /\ writer'.catalog = writer.catalog
        /\ file' = writer.bytes /\ UNCHANGED <<sidecars, generations, used>>
    BY <1>0, <1>6 DEF Rename, Goto, SaveState
  <2>2. writer.bytes \in Bytes
    BY <1>0, <2>1 DEF SaveInv
  <2>3. CatalogOf(writer.bytes) = writer.catalog
    BY <2>1 DEF ProgressInv
  <2>4. ProgressInv'
    BY <2>1, <2>3 DEF ProgressInv, CatalogOf, Lookup
  <2>5. Published' = Pair(writer)
    BY <2>1, <2>2, <2>3 DEF Published, Pair, CatalogOf, Lookup
  <2>6. QED
    BY <2>1, <2>4, <2>5 DEF Atomic
<1>7. CASE Reclaim
  <2>1. writer.bytes \in Bytes /\ writer.catalog \in Catalogs
    BY <1>0, <1>7 DEF Reclaim, SaveInv
  <2>2. sidecars[writer.bytes] # None
    BY <1>0, <1>7, <2>1, CatalogFound DEF Reclaim, ProgressInv
  <2>3. writer' = [writer EXCEPT !.step = "removing",
                                 !.generation = sidecars[writer.bytes].generation]
    <3>1. PICK opened \in Opens :
            writer' = [writer EXCEPT !.step = "removing", !.generation = Kept(opened)]
      BY <1>7 DEF Reclaim
    <3>2. opened = TRUE
      BY OpensSucceed
    <3>3. Kept(opened) = sidecars[writer.bytes].generation
      BY <2>2, <3>2 DEF Kept
    <3>4. QED
      BY <3>1, <3>3
  <2>4. /\ writer'.step = "removing" /\ writer'.generation = sidecars[writer.bytes].generation
        /\ writer'.bytes = writer.bytes /\ writer'.catalog = writer.catalog
    BY <1>0, <2>3 DEF SaveState
  <2>5. UNCHANGED <<file, sidecars, generations, used>>
    BY <1>7 DEF Reclaim, disk
  <2>6. Published' = Published
    BY <2>5, PublishedKept, SameLookup
  <2>7. ProgressInv'
    BY <1>7, <2>4, <2>5 DEF Reclaim, ProgressInv, CatalogOf, Lookup
  <2>8. QED
    BY <2>6, <2>7 DEF Atomic
<1>8. CASE RemoveEntry
  <2>1. /\ writer.bytes \in Bytes /\ writer.catalog \in Catalogs /\ file = writer.bytes
        /\ CatalogOf(writer.bytes) = writer.catalog
        /\ writer.generation = sidecars[writer.bytes].generation
        /\ UNCHANGED <<file, writer, used>> /\ writer.step = "removing"
    BY <1>0, <1>8 DEF RemoveEntry, SaveInv, ProgressInv
  <2>2. /\ sidecars'[writer.bytes] = sidecars[writer.bytes]
        /\ generations'[writer.generation] = generations[writer.generation]
        /\ \A b \in Bytes : sidecars'[b] \in {sidecars[b], None}
    BY <1>0, <1>8, <2>1, CatalogFound DEF RemoveEntry, Unused, Stale, TypeOK, Sidecar
  <2>3. CatalogOf(writer.bytes)' = CatalogOf(writer.bytes)
    BY <2>1, <2>2 DEF CatalogOf, Lookup
  <2>4. Published' = Published
    BY <2>1, <2>3 DEF Published, CatalogOf, Lookup
  <2>5. ProgressInv'
    BY <2>1, <2>2, <2>3 DEF ProgressInv, CatalogOf, Lookup
  <2>6. QED
    BY <2>4, <2>5 DEF Atomic
<1>9. CASE EndSave \/ FailSave \/ KillWriter
  <2>1. writer'.step = "idle" /\ UNCHANGED <<file, sidecars, generations, used>>
    BY <1>9 DEF EndSave, FailSave, KillWriter, Idle, disk
  <2>2. QED
    BY <2>1, PublishedKept, SameLookup DEF ProgressInv, Atomic
<1>10. CASE DiscardInvalid
  <2>1. /\ writer.step = "idle" /\ file \notin Bytes /\ file' \notin Bytes
        /\ UNCHANGED <<sidecars, used, writer>>
    BY <1>10, CatalogAssumption DEF DiscardInvalid, Idle
  <2>2. QED
    BY <2>1 DEF ProgressInv, Atomic, Published
<1>11. QED
  BY <1>1, <1>2, <1>3, <1>4, <1>5, <1>6, <1>7, <1>8, <1>9, <1>10 DEF Save

LEMMA EvaluateIsAtomic ==
  ASSUME NEW r \in Readers, Evaluate(r)
  PROVE  UNCHANGED <<file, sidecars, generations, used, writer>>
BY DEF Evaluate, BeginEvaluation, OpenStore, ReadFile, ReadSidecar, Select, FinishEvaluation,
       KillReader, disk

LEMMA ProgressStutters ==
  ASSUME ProgressInv, UNCHANGED <<file, sidecars, generations, used, writer>>
  PROVE  ProgressInv' /\ UNCHANGED <<Published, Pending>>
BY DEF ProgressInv, Published, Pending, Pair, CatalogOf, Lookup

LEMMA ProgressInvariant == "open" \notin Faults => (Spec => []ProgressInv)
<1> SUFFICES ASSUME "open" \notin Faults PROVE Spec => []ProgressInv
  OBVIOUS
<1>1. Init => ProgressInv
  BY DEF Init, ProgressInv, Idle
<1>2. ASSUME Base, ProgressInv, [Next]_vars
      PROVE  ProgressInv'
  <2>1. CASE Save
    BY <1>2, <2>1, ProgressStep
  <2>2. CASE \E r \in Readers : Evaluate(r)
    BY <1>2, <2>2, EvaluateIsAtomic, ProgressStutters
  <2>3. CASE UNCHANGED vars
    BY <1>2, <2>3, ProgressStutters DEF vars, disk
  <2>4. QED
    BY <1>2, <2>1, <2>2, <2>3 DEF Next
<1>3. QED
  BY <1>1, <1>2, BaseInvariant, PTL DEF Spec

\* A snapshot and its databases change together or not at all, also when a save fails or its
\* process is killed at any step, provided that files that exist can be opened (REQ-F-052).
THEOREM PublicationIsAtomic == "open" \notin Faults => (Spec => PublishesAtomically)
<1> SUFFICES ASSUME "open" \notin Faults PROVE Spec => PublishesAtomically
  OBVIOUS
<1> DEFINE Pairs == [bytes : Bytes, catalog : Catalogs \cup {None}]
<1>1. Init => Register!Init
  <2> SUFFICES ASSUME Init PROVE Register!Init
    OBVIOUS
  <2>1. file \in Bytes => CatalogOf(file) = None
    BY DEF Init, CatalogOf, Lookup
  <2>2. writer.step = "idle"
    BY DEF Init, Idle
  <2>3. QED
    BY <2>1, <2>2 DEF Register!Init
<1>2. ASSUME Base, Base', ProgressInv, [Next]_vars
      PROVE  [Register!Next]_(Register!vars)
  <2>1. ASSUME UNCHANGED <<Published, Pending>>
        PROVE  UNCHANGED Register!vars
    BY <2>1 DEF Register!vars, Published, Pending, Pair
  <2>2. CASE UNCHANGED vars \/ \E r \in Readers : Evaluate(r)
    BY <1>2, <2>1, <2>2, EvaluateIsAtomic, ProgressStutters DEF vars, disk
  <2>3. CASE Save
    <3>1. Atomic
      BY <1>2, <2>3, ProgressStep
    <3>2. CASE writer.step # "idle" /\ writer'.step # "idle"
      <4>1. Pair(writer)' = Pair(writer)
        BY <1>2, <2>3, <3>2, PairKept
      <4>2. CASE Published' = Published
        BY <2>1, <3>2, <4>1, <4>2 DEF Pending
      <4>3. CASE Published' = Pair(writer)
        <5>1. Pair(writer) # None
          BY <1>2, <3>2, CatalogAssumption DEF Base, SaveInv, Pair
        <5>2. QED
          BY <3>2, <4>1, <4>3, <5>1
             DEF Register!Next, Register!Publish, Published, Pending, Pair
      <4>4. QED
        BY <3>1, <4>2, <4>3 DEF Atomic
    <3>3. CASE writer'.step = "idle"
      <4>1. Published' = Published
        BY <3>1, <3>3 DEF Atomic
      <4>2. QED
        BY <3>3, <4>1 DEF Register!Next, Register!Close, Published
    <3>4. CASE writer.step = "idle" /\ writer'.step # "idle"
      <4>1. Published' = Published
        BY <3>1, <3>4 DEF Atomic
      <4>2. Pair(writer)' \in Pairs
        BY <1>2, <3>4 DEF Base, SaveInv, Pair
      <4>3. QED
        BY <3>4, <4>1, <4>2 DEF Register!Next, Register!Offer, Published, Pair
    <3>5. QED
      BY <3>2, <3>3, <3>4
  <2>4. QED
    BY <1>2, <2>2, <2>3 DEF Next
<1>3. QED
  BY <1>1, <1>2, BaseInvariant, ProgressInvariant, PTL DEF Spec, PublishesAtomically, Register!Spec

\* Only unpublished generations are removed, provided that files that exist can be opened.
THEOREM ReclamationIsSafe == "open" \notin Faults => (Spec => ReclaimsOnlyUnpublished)
<1> SUFFICES ASSUME "open" \notin Faults PROVE Spec => ReclaimsOnlyUnpublished
  OBVIOUS
<1> DEFINE Safe == \A g \in Generations :
       generations[g] # None /\ generations'[g] = None /\ file \in Bytes
         => Lookup(file) = None \/ Lookup(file).generation # g
<1>1. ASSUME Base, ProgressInv, [Next]_vars
      PROVE  [Safe]_vars
  <2>1. CASE RemoveEntry
    <3>1. /\ writer.bytes \in Bytes /\ file = writer.bytes
          /\ writer.generation = sidecars[writer.bytes].generation
      BY <1>1, <2>1 DEF RemoveEntry, Base, SaveInv, ProgressInv
    <3>2. generations'[writer.generation] = generations[writer.generation]
      <4>1. writer.catalog \in Catalogs /\ CatalogOf(writer.bytes) = writer.catalog
        BY <1>1, <2>1 DEF RemoveEntry, Base, SaveInv, ProgressInv
      <4>2. writer.generation \in Generations
        BY <1>1, <3>1, <4>1, CatalogFound DEF Base, Sidecar
      <4>3. QED
        BY <1>1, <2>1, <4>2 DEF RemoveEntry, Unused, Base, TypeOK
    <3>3. Lookup(file) # None => Lookup(file) = sidecars[file]
      BY DEF Lookup
    <3>4. QED
      BY <3>1, <3>2, <3>3
  <2>2. CASE ~RemoveEntry
    <3>1. generations' = generations
            \/ \E g \in Generations, c \in Catalogs \cup {Partial} :
                 generations' = [generations EXCEPT ![g] = c]
      <4>1. CASE CopyDatabases
        BY <1>1, <4>1 DEF CopyDatabases, Base, SaveInv
      <4>2. CASE Prepare
        BY <4>2 DEF Prepare, disk
      <4>3. CASE UNCHANGED vars \/ \E r \in Readers : Evaluate(r)
        BY <4>3, EvaluateIsAtomic DEF vars, disk
      <4>4. QED
        BY <1>1, <2>2, <4>1, <4>2, <4>3
           DEF Next, Save, BeginSave, Lock, Describe, Rename, Reclaim, EndSave, FailSave,
               KillWriter, DiscardInvalid, disk
    <3>2. None \notin Catalogs \cup {Partial}
      BY CatalogAssumption
    <3>3. \A g \in Generations : generations[g] # None => generations'[g] # None
      BY <1>1, <3>1, <3>2 DEF Base, TypeOK
    <3>4. QED
      BY <3>3
  <2>3. QED
    BY <2>1, <2>2
<1>2. QED
  BY <1>1, BaseInvariant, ProgressInvariant, PTL DEF Spec, ReclaimsOnlyUnpublished
================================================================================
