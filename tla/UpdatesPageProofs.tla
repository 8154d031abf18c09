--------------------------- MODULE UpdatesPageProofs ---------------------------
(***************************************************************************)
(* Proofs about UpdatesPage for any number of checks and changes.          *)
(***************************************************************************)
EXTENDS UpdatesPage, TLAPS

Kinds == {"checked", "local", "saved", "bare", "error"}

-------------------------------------------------------------------------------
(* Types *)

\* TypeOK in two parts, of which one is propositional.
Flags ==
  /\ watched \in BOOLEAN /\ pageEvent \in BOOLEAN /\ readerEvent \in BOOLEAN
  /\ readDebounce \in BOOLEAN /\ loading \in BOOLEAN /\ rerun \in BOOLEAN /\ debounce \in BOOLEAN

Values ==
  /\ file \in Nat \cup {None} /\ checks \in Nat /\ system \in Nat /\ latest \in Nat \cup {None}
  /\ load \in Load /\ (loading <=> load.step # "idle")
  /\ view \in {"loading", "result", "error"}
  /\ source \in {"none", "checked", "local", "previous"}
  /\ rows \in Nat \cup {None} /\ displayed \in Nat \cup {None} /\ online \in Nat \cup {None}
  /\ handled \in ((Nat \cup {None}) \X Nat) \cup {None}

LEMMA TypeParts == TypeOK <=> Flags /\ Values
BY Zenon DEF TypeOK, Flags, Values

LEMMA TypePartsNext == Flags' /\ Values' => TypeOK'
BY Zenon DEF TypeOK, Flags, Values

LEMMA LoadStates ==
  /\ Idle \in Load /\ Idle.step = "idle"
  /\ Begun \in Load /\ Begun.step = "begun"
BY DEF Idle, Begun, Load

\* Loading again or leaving a load alone keeps the types of a load.
LEMMA LoadAgainTypes ==
  ASSUME TypeOK, ReloadUnlessLoading
  PROVE  /\ load' \in Load /\ loading' = TRUE /\ load'.step # "idle"
         /\ view' \in {"loading", "result", "error"} /\ (view = "result" => view' = view)
         /\ \/ loading /\ UNCHANGED <<load, view>>
            \/ ~loading /\ load' = Begun
BY LoadStates DEF TypeOK, ReloadUnlessLoading, StartLoading

LEMMA InitTypes == Init => TypeOK
<1> SUFFICES ASSUME Init PROVE TypeOK
  OBVIOUS
<1>1. file \in Nat \cup {None} /\ checks \in Nat /\ system \in Nat
  BY DEF Init
<1>2. QED
  BY <1>1, LoadStates DEF Init, TypeOK

\* The disk and the notifications: nothing of the page changes.
DiskStep == Publish \/ Discard \/ ChangeInPlace \/ Replace

LEMMA DiskTypes ==
  ASSUME TypeOK, DiskStep
  PROVE  TypeOK' /\ UNCHANGED <<reader, page>>
<1>1. UNCHANGED <<reader, page>>
  BY DEF DiskStep, Publish, Discard, ChangeInPlace, Replace
<1>2. file' \in Nat \cup {None} /\ checks' \in Nat /\ system' \in Nat
  BY DEF TypeOK, DiskStep, Publish, Discard, ChangeInPlace, Replace
<1>3. watched' \in BOOLEAN /\ pageEvent' \in BOOLEAN /\ readerEvent' \in BOOLEAN
  BY Zenon DEF TypeOK, DiskStep, Publish, Discard, ChangeInPlace, Replace
<1>4. QED
  BY <1>1, <1>2, <1>3 DEF TypeOK, reader, page, shown

LEMMA EventTypes ==
  ASSUME TypeOK, FilesystemChanged \/ DebounceFires \/ Reload \/ ReaderChanged
  PROVE  TypeOK'
<1>1. CASE FilesystemChanged
  <2>1. Flags'
    BY <1>1, TypeParts, Zenon DEF Flags, FilesystemChanged, ArmWatcher, disk, reader, shown
  <2>2. Values'
    BY <1>1, TypeParts DEF Values, FilesystemChanged, disk, reader, shown
  <2>3. QED
    BY <2>1, <2>2, TypePartsNext
<1>2. CASE DebounceFires \/ Reload
  <2>1. ReloadUnlessLoading /\ UNCHANGED <<disk, events, reader, rerun, source, rows, displayed, online, handled>>
    BY <1>2 DEF DebounceFires, Reload, ReloadUnlessLoading
  <2>2. debounce' \in BOOLEAN
    BY <1>2, Zenon DEF TypeOK, DebounceFires, Reload
  <2>3. Flags'
    BY <2>1, <2>2, TypeParts, LoadAgainTypes, Zenon DEF Flags, events, reader
  <2>4. Values'
    BY <2>1, TypeParts, LoadAgainTypes DEF Values, disk, reader
  <2>5. QED
    BY <2>3, <2>4, TypePartsNext
<1>3. CASE ReaderChanged
  <2>1. Flags'
    BY <1>3, TypeParts, Zenon DEF Flags, ReaderChanged, StartReadDebounce, page
  <2>2. Values'
    BY <1>3, TypeParts DEF Values, ReaderChanged, disk, page, shown
  <2>3. QED
    BY <2>1, <2>2, TypePartsNext
<1>4. QED
  BY <1>1, <1>2, <1>3

LEMMA ReadTypes ==
  ASSUME TypeOK, ReadFile \/ ReadSystem
  PROVE  TypeOK'
<1>1. CASE ReadFile
  <2>1. load' \in Load /\ load'.step = "half"
    BY <1>1 DEF ReadFile, TypeOK, Load
  <2>2. QED
    BY <1>1, <2>1 DEF ReadFile, TypeOK, disk, events, reader, shown
<1>2. CASE ReadSystem
  <2>1. PICK kind \in Kinds : load' = [load EXCEPT !.step = "finished", !.system = system, !.kind = kind]
    BY <1>2 DEF ReadSystem, Kinds
  <2>2. load' \in Load /\ load'.step = "finished"
    BY <2>1 DEF TypeOK, Load, Kinds
  <2>3. loading
    BY <1>2 DEF ReadSystem, TypeOK
  <2>4. Flags'
    BY <1>2, TypeParts, Zenon DEF ReadSystem, Flags, events, reader
  <2>5. Values'
    BY <1>2, <2>2, <2>3, TypeParts DEF ReadSystem, Values, disk, reader, shown
  <2>6. QED
    BY <2>4, <2>5, TypePartsNext
<1>3. QED
  BY <1>1, <1>2

LEMMA FinishedTypes ==
  ASSUME TypeOK, LoadFinished
  PROVE  TypeOK'
<1>1. UNCHANGED <<disk, events, reader, debounce, online>> /\ load.step = "finished"
  BY DEF LoadFinished
<1>2. CASE rerun
  <2>1. DropResult
    BY <1>2 DEF LoadFinished
  <2>2. Flags'
    BY <1>1, <2>1, TypeParts, Zenon DEF DropResult, StartLoading, Flags, events, reader
  <2>3. Values'
    BY <1>1, <2>1, LoadStates, TypeParts DEF DropResult, StartLoading, Values, disk, reader
  <2>4. QED
    BY <2>2, <2>3, TypePartsNext
<1>3. CASE ~rerun
  <2>1. UseResult
    BY <1>3 DEF LoadFinished
  <2>2. load.kind \in Kinds /\ load.file \in Nat \cup {None} /\ load.system \in Nat
    BY DEF TypeOK, Load, Kinds
  <2>3. handled' \in ((Nat \cup {None}) \X Nat) \cup {None} /\ loading' = FALSE /\ load' = Idle
    BY <2>1, <2>2 DEF UseResult, StopLoading
  <2>4. /\ view' \in {"loading", "result", "error"}
        /\ source' \in {"none", "checked", "local", "previous"}
        /\ rows' \in Nat \cup {None} /\ displayed' \in Nat \cup {None}
    BY <2>1, <2>2 DEF UseResult, ApplyFailure, ApplySnapshot, DisplayedTime, TypeOK, Kinds
  <2>5. QED
    BY <1>1, <2>1, <2>3, <2>4, LoadStates DEF UseResult, TypeOK, disk, events, reader
<1>4. QED
  BY <1>2, <1>3

\* What readNow() does: nothing, or it remembers the file and loads again, and shows the rows of
\* the file only if there were none.
ReadsSame == latest = file /\ UNCHANGED <<latest, load, loading, rerun, shown, online>>

ReadsOther ==
  /\ latest # file /\ latest' = file /\ online' = file
  /\ loading' = TRUE /\ rerun' = (rerun \/ loading)
  /\ (loading /\ UNCHANGED load) \/ (~loading /\ load' = Begun)
  /\ view' \in {"loading", "result", "error"}
  /\ \/ file = None /\ source' = "previous" /\ UNCHANGED <<rows, displayed>>
     \/ file # None /\ UNCHANGED <<view, source, rows, displayed>>
     \/ file # None /\ source' = "previous" /\ rows' = file /\ displayed' = file

LEMMA ReadNowEffect ==
  ASSUME TypeOK, ReadNow
  PROVE  /\ UNCHANGED <<disk, events, debounce, handled>> /\ readDebounce' = FALSE
         /\ ReadsSame \/ ReadsOther
<1>0. UNCHANGED <<disk, events, debounce, handled>> /\ readDebounce' = FALSE /\ latest' = file
  BY DEF ReadNow
<1>1. CASE latest = file
  BY <1>0, <1>1, Zenon DEF ReadNow, ReadsSame
<1>2. CASE latest # file /\ file = None
  <2>1. Invalidate
    BY <1>2 DEF ReadNow
  <2>2. ReloadUnlessLoading /\ rerun' = (rerun \/ loading)
    BY <2>1, Zenon DEF Invalidate, LoadAgain
  <2>3. online' = file /\ source' = "previous" /\ UNCHANGED <<rows, displayed>>
    BY <1>2, <2>1 DEF Invalidate
  <2>4. /\ loading' = TRUE /\ view' \in {"loading", "result", "error"}
        /\ (loading /\ UNCHANGED load) \/ (~loading /\ load' = Begun)
    BY <2>2, LoadAgainTypes
  <2>5. ReadsOther
    BY <1>0, <1>2, <2>2, <2>3, <2>4, Zenon DEF ReadsOther
  <2>6. QED
    BY <1>0, <2>5
<1>3. CASE latest # file /\ file # None
  <2>1. ApplyChecked
    BY <1>3 DEF ReadNow
  <2>2. CASE view = "result"
    <3>1. /\ ReloadUnlessLoading /\ rerun' = (rerun \/ loading)
          /\ UNCHANGED <<source, rows, displayed>> /\ online' = file
      BY <2>1, <2>2, Zenon DEF ApplyChecked, LoadAgain
    <3>2. /\ loading' = TRUE /\ view' \in {"loading", "result", "error"} /\ view' = view
          /\ (loading /\ UNCHANGED load) \/ (~loading /\ load' = Begun)
      BY <2>2, <3>1, LoadAgainTypes
    <3>3. ReadsOther
      BY <1>0, <1>3, <3>1, <3>2, Zenon DEF ReadsOther
    <3>4. QED
      BY <1>0, <3>3
  <2>3. CASE view # "result"
    <3>1. /\ view' = "result" /\ source' = "previous" /\ rows' = file /\ displayed' = file
          /\ loading' = TRUE /\ rerun' = (rerun \/ loading) /\ online' = file
      BY <2>1, <2>3, Zenon DEF ApplyChecked
    <3>2. load' = (IF loading THEN load ELSE Begun)
      BY <2>1, <2>3, Zenon DEF ApplyChecked
    <3>3. (loading /\ UNCHANGED load) \/ (~loading /\ load' = Begun)
      BY <3>2, Zenon
    <3>4. ReadsOther
      BY <1>0, <1>3, <3>1, <3>3 DEF ReadsOther
    <3>5. QED
      BY <1>0, <3>4
  <2>4. QED
    BY <2>2, <2>3
<1>4. QED
  BY <1>1, <1>2, <1>3

LEMMA ReadNowTypes ==
  ASSUME TypeOK, ReadNow
  PROVE  TypeOK'
<1>1. Flags'
  <2>1. loading' \in BOOLEAN /\ rerun' \in BOOLEAN
    BY ReadNowEffect, Zenon DEF TypeOK, ReadsSame, ReadsOther
  <2>2. QED
    BY <2>1, ReadNowEffect, TypeParts, Zenon DEF Flags, events
<1>2. Values'
  <2>1. CASE ReadsSame
    BY <2>1, ReadNowEffect, TypeParts DEF ReadsSame, Values, disk, shown
  <2>2. CASE ReadsOther
    BY <2>2, ReadNowEffect, LoadStates, TypeParts DEF ReadsOther, Values, disk
  <2>3. QED
    BY <2>1, <2>2, ReadNowEffect
<1>3. QED
  BY <1>1, <1>2, TypePartsNext

LEMMA NextTypes == TypeOK /\ [Next]_vars => TypeOK'
<1> SUFFICES ASSUME TypeOK, [Next]_vars PROVE TypeOK'
  OBVIOUS
<1>1. CASE UNCHANGED vars
  BY <1>1 DEF TypeOK, vars, disk, events, reader, page, shown
<1>2. QED
  BY <1>1, DiskTypes, EventTypes, ReadTypes, FinishedTypes, ReadNowTypes
     DEF Next, DiskStep, ReadDebounceFires, ServiceSpeaks

\* THEOREM: the page keeps its types, and a load is on its thread exactly while loading_ is set.
THEOREM TypeCorrect == Spec => []TypeOK
BY InitTypes, NextTypes, PTL DEF Spec

-------------------------------------------------------------------------------
(* No change is missed *)

\* What is not watched any more has been reported.
WatchInv == ~watched => pageEvent

\* An evaluation at work is up to date so far or repeated; without one, the last result is current
\* or a timer runs.
LookInv == pageEvent \/ (IF loading THEN rerun \/ UpToDateSoFar ELSE debounce \/ handled = Current)

ReaderInv == latest = file \/ readerEvent \/ readDebounce

MissInv == TypeOK /\ WatchInv /\ LookInv /\ ReaderInv

LEMMA BegunIsUpToDate == load.step = "begun" => UpToDateSoFar
BY DEF UpToDateSoFar

LEMMA NextBegunIsUpToDate == load' = Begun => UpToDateSoFar'
BY LoadStates DEF UpToDateSoFar

LEMMA UpToDateStays == UNCHANGED <<file, system, load>> => UpToDateSoFar' = UpToDateSoFar
BY DEF UpToDateSoFar

LEMMA CurrentStays == UNCHANGED <<file, system>> => Current' = Current
BY DEF Current

LEMMA MissInit == Init => MissInv
<1> SUFFICES ASSUME Init PROVE MissInv
  OBVIOUS
<1>1. load.step = "begun" /\ loading /\ watched /\ latest = file
  BY LoadStates DEF Init
<1>2. QED
  BY <1>1, InitTypes, BegunIsUpToDate DEF MissInv, WatchInv, LookInv, ReaderInv

LEMMA DiskMisses ==
  ASSUME MissInv, DiskStep
  PROVE  WatchInv' /\ LookInv' /\ ReaderInv'
<1>1. pageEvent' = TRUE
  BY Zenon DEF MissInv, TypeOK, WatchInv, DiskStep, Publish, Discard, ChangeInPlace, Replace
<1>2. ReaderInv'
  BY Zenon DEF MissInv, ReaderInv, DiskStep, Publish, Discard, ChangeInPlace, Replace, reader
<1>3. QED
  BY <1>1, <1>2 DEF WatchInv, LookInv

LEMMA EventMisses ==
  ASSUME MissInv, FilesystemChanged \/ DebounceFires \/ Reload \/ ReaderChanged
  PROVE  WatchInv' /\ LookInv' /\ ReaderInv'
<1> USE DEF MissInv
<1>1. CASE FilesystemChanged
  <2>1. watched' /\ debounce' /\ UNCHANGED loading /\ rerun' = (rerun \/ loading)
    BY <1>1 DEF FilesystemChanged, ArmWatcher
  <2>2. LookInv'
    BY <2>1, Zenon DEF LookInv
  <2>3. ReaderInv'
    BY <1>1, Zenon DEF ReaderInv, FilesystemChanged, disk, reader
  <2>4. QED
    BY <2>1, <2>2, <2>3 DEF WatchInv
<1>2. CASE DebounceFires \/ Reload
  <2>1. /\ ReloadUnlessLoading
        /\ UNCHANGED <<disk, events, reader, rerun, source, rows, displayed, online, handled>>
        /\ loading \/ ~loading
    BY <1>2 DEF DebounceFires, Reload, ReloadUnlessLoading
  <2>2. UNCHANGED <<file, system, latest, readerEvent, readDebounce, watched, pageEvent>>
    BY <2>1 DEF disk, events, reader
  <2>3. WatchInv' /\ ReaderInv'
    BY <2>2, Zenon DEF WatchInv, ReaderInv
  <2>4. CASE loading
    <3>1. UNCHANGED load /\ loading'
      BY <2>1, <2>4, LoadAgainTypes
    <3>2. UpToDateSoFar' = UpToDateSoFar
      BY <2>2, <3>1, UpToDateStays
    <3>3. QED
      BY <2>1, <2>2, <2>3, <2>4, <3>1, <3>2, Zenon DEF LookInv
  <2>5. CASE ~loading
    <3>1. load' = Begun /\ loading'
      BY <2>1, <2>5, LoadAgainTypes
    <3>2. QED
      BY <2>3, <3>1, NextBegunIsUpToDate, Zenon DEF LookInv
  <2>6. QED
    BY <2>4, <2>5
<1>3. CASE ReaderChanged
  <2>1. readDebounce' /\ UNCHANGED <<file, system, watched, pageEvent, load, loading, rerun, debounce, handled>>
    BY <1>3 DEF ReaderChanged, StartReadDebounce, disk, page
  <2>2. UpToDateSoFar' = UpToDateSoFar /\ Current' = Current
    BY <2>1, UpToDateStays, CurrentStays
  <2>3. QED
    BY <2>1, <2>2, Zenon DEF WatchInv, LookInv, ReaderInv
<1>4. QED
  BY <1>1, <1>2, <1>3

LEMMA ReadMisses ==
  ASSUME MissInv, ReadFile \/ ReadSystem
  PROVE  WatchInv' /\ LookInv' /\ ReaderInv'
<1> USE DEF MissInv
<1>1. /\ UNCHANGED <<file, system, watched, pageEvent, readerEvent, latest, readDebounce>>
      /\ UNCHANGED <<loading, rerun, debounce, handled>>
  BY DEF ReadFile, ReadSystem, disk, events, reader
<1>2. WatchInv' /\ ReaderInv'
  BY <1>1, Zenon DEF WatchInv, ReaderInv
<1>3. loading /\ (UpToDateSoFar => UpToDateSoFar')
  <2>1. CASE ReadFile
    <3>1. load'.step = "half" /\ load'.file = file
      BY <2>1 DEF ReadFile, TypeOK, Load
    <3>2. QED
      BY <1>1, <2>1, <3>1 DEF ReadFile, TypeOK, UpToDateSoFar
  <2>2. CASE ReadSystem
    <3>1. load'.file = load.file /\ load'.system = system
      BY <2>2 DEF ReadSystem, TypeOK, Load
    <3>2. QED
      BY <1>1, <2>2, <3>1 DEF ReadSystem, TypeOK, UpToDateSoFar
  <2>3. QED
    BY <2>1, <2>2
<1>4. QED
  BY <1>1, <1>2, <1>3, Zenon DEF LookInv

\* What a result that is used leaves.
LEMMA UseEffect ==
  ASSUME TypeOK, UseResult
  PROVE  /\ loading' = FALSE /\ load' = Idle /\ handled' = <<load.file, load.system>>
         /\ UNCHANGED rerun
         /\ \/ load.kind = "error" /\ view = "result" /\ source' = "previous"
               /\ UNCHANGED <<view, rows, displayed>>
            \/ load.kind = "error" /\ view # "result" /\ view' = "error" /\ rows' = None
               /\ UNCHANGED <<source, displayed>>
            \/ /\ load.kind # "error" /\ view' = "result"
               /\ source' = (IF load.kind \in {"saved", "bare"} THEN "previous" ELSE load.kind)
               /\ displayed' = DisplayedTime
               /\ rows' = (IF load.kind = "local" THEN None ELSE load.file)
BY DEF UseResult, StopLoading, ApplyFailure, ApplySnapshot

LEMMA FinishedMisses ==
  ASSUME MissInv, LoadFinished
  PROVE  WatchInv' /\ LookInv' /\ ReaderInv'
<1> USE DEF MissInv
<1>1. /\ UNCHANGED <<file, system, watched, pageEvent, readerEvent, latest, readDebounce>>
      /\ load.step = "finished"
  BY DEF LoadFinished, disk, events, reader
<1>2. WatchInv' /\ ReaderInv'
  BY <1>1, Zenon DEF WatchInv, ReaderInv
<1>3. CASE rerun
  <2>1. loading' = TRUE /\ load' = Begun
    BY <1>3 DEF LoadFinished, DropResult, StartLoading
  <2>2. QED
    BY <1>2, <2>1, NextBegunIsUpToDate, Zenon DEF LookInv
<1>4. CASE ~rerun
  <2>1. loading' = FALSE /\ handled' = <<load.file, load.system>>
    BY <1>4, UseEffect DEF LoadFinished
  <2>2. pageEvent \/ UpToDateSoFar
    BY <1>1, <1>4 DEF LookInv, TypeOK
  <2>3. UpToDateSoFar => handled' = Current'
    BY <1>1, <2>1 DEF UpToDateSoFar, Current
  <2>4. QED
    BY <1>1, <1>2, <2>1, <2>2, <2>3, Zenon DEF LookInv
<1>5. QED
  BY <1>3, <1>4

LEMMA ReadNowMisses ==
  ASSUME MissInv, ReadNow
  PROVE  WatchInv' /\ LookInv' /\ ReaderInv'
<1> USE DEF MissInv
<1>1. UNCHANGED <<file, system, watched, pageEvent, debounce, handled>> /\ latest' = file
  BY ReadNowEffect DEF disk, events, ReadsSame, ReadsOther
<1>2. WatchInv' /\ ReaderInv'
  BY <1>1, Zenon DEF WatchInv, ReaderInv
<1>3. CASE ReadsSame
  <2>1. UNCHANGED <<loading, rerun>> /\ UpToDateSoFar' = UpToDateSoFar /\ Current' = Current
    BY <1>1, <1>3, UpToDateStays, CurrentStays DEF ReadsSame
  <2>2. QED
    BY <1>1, <1>2, <2>1, Zenon DEF LookInv
<1>4. CASE ReadsOther
  <2>1. loading' /\ (rerun' \/ load' = Begun)
    BY <1>4, Zenon DEF ReadsOther
  <2>2. QED
    BY <1>2, <2>1, NextBegunIsUpToDate, Zenon DEF LookInv
<1>5. QED
  BY <1>3, <1>4, ReadNowEffect

LEMMA MissNext == MissInv /\ [Next]_vars => MissInv'
<1> SUFFICES ASSUME MissInv, [Next]_vars PROVE MissInv'
  OBVIOUS
<1>1. TypeOK'
  BY NextTypes DEF MissInv
<1>2. CASE UNCHANGED vars
  <2>1. WatchInv' /\ LookInv' /\ ReaderInv'
    BY <1>2 DEF MissInv, WatchInv, LookInv, ReaderInv, UpToDateSoFar, Current, vars, disk, events,
                reader, page
  <2>2. QED
    BY <1>1, <2>1 DEF MissInv
<1>3. QED
  BY <1>1, <1>2, DiskMisses, EventMisses, ReadMisses, FinishedMisses, ReadNowMisses
     DEF MissInv, Next, DiskStep, ReadDebounceFires, ServiceSpeaks

LEMMA MissImplies == MissInv => NothingMissed
<1> SUFFICES ASSUME MissInv PROVE NothingMissed
  OBVIOUS
<1>1. latest = file \/ ReadsAgain
  BY DEF MissInv, ReaderInv, ReadsAgain
<1>2. handled = Current \/ LoadsAgain
  BY Zenon DEF MissInv, TypeOK, LookInv, LoadsAgain
<1>3. QED
  BY <1>1, <1>2 DEF NothingMissed

\* THEOREM: neither the list nor the reader misses a change of the disk, whatever is replaced,
\* debounced or dropped, for any number of changes.
THEOREM ChangesAreSeen == Spec => []NothingMissed
BY MissInit, MissNext, MissImplies, PTL DEF Spec

-------------------------------------------------------------------------------
(* Ages *)

\* Snapshots are in the order of their checks.
AtMost(v, n) == v # None => v <= n

\* Nothing is of a later check than the last one, which is the one published if any is; and an
\* evaluation that is going to be used is not older than what is shown and known while it runs.
OrderInv ==
  /\ file # None => file = checks
  /\ AtMost(latest, checks) /\ AtMost(load.file, checks)
  /\ AtMost(rows, checks) /\ AtMost(displayed, checks)
  /\ online = latest

WillFitInv ==
  load.step \in {"half", "finished"} /\ ~rerun /\ load.file # None =>
    AtMost(online, load.file) /\ AtMost(displayed, load.file)

AgeInv == TypeOK /\ OrderInv /\ WillFitInv /\ AgeNotNewer

LEMMA AgeInit == Init => AgeInv
<1> SUFFICES ASSUME Init PROVE AgeInv
  OBVIOUS
<1>1. file = None \/ (file = 1 /\ checks = 1)
  BY DEF Init
<1>2. load.step = "begun" /\ load.file = None /\ latest = file /\ rows = file /\ displayed = file /\ online = file
  BY DEF Init, Begun, Idle
<1>3. QED
  BY <1>1, <1>2, InitTypes DEF AgeInv, OrderInv, WillFitInv, AgeNotNewer, AtMost

LEMMA DiskAges ==
  ASSUME AgeInv, DiskStep
  PROVE  OrderInv' /\ WillFitInv' /\ AgeNotNewer'
<1>1. UNCHANGED <<latest, load, rerun, rows, displayed, online>>
  BY DiskTypes DEF AgeInv, reader, page, shown
<1>2. checks \in Nat /\ checks' \in Nat /\ checks <= checks' /\ (file' # None => file' = checks')
  BY DEF AgeInv, TypeOK, OrderInv, DiskStep, Publish, Discard, ChangeInPlace, Replace
<1>3. OrderInv'
  BY <1>1, <1>2 DEF AgeInv, TypeOK, Load, OrderInv, AtMost
<1>4. QED
  BY <1>1, <1>3 DEF AgeInv, WillFitInv, AgeNotNewer, AtMost

LEMMA QuietAges ==
  ASSUME AgeInv, FilesystemChanged \/ DebounceFires \/ Reload \/ ReaderChanged
  PROVE  OrderInv' /\ WillFitInv' /\ AgeNotNewer'
<1> USE DEF AgeInv
<1>1. /\ UNCHANGED <<file, checks, latest, rows, displayed, online>>
      /\ rerun => rerun'
      /\ UNCHANGED load \/ load' = Begun
  <2>1. CASE FilesystemChanged
    BY <2>1 DEF FilesystemChanged, disk, reader, shown
  <2>2. CASE DebounceFires \/ Reload
    BY <2>2 DEF DebounceFires, Reload, ReloadUnlessLoading, StartLoading, disk, reader
  <2>3. CASE ReaderChanged
    BY <2>3 DEF ReaderChanged, disk, page, shown
  <2>4. QED
    BY <2>1, <2>2, <2>3
<1>2. Begun.file = None
  BY DEF Begun, Idle
<1>3. OrderInv'
  BY <1>1, <1>2 DEF OrderInv, AtMost
<1>4. WillFitInv'
  BY <1>1, <1>2 DEF WillFitInv, AtMost
<1>5. QED
  BY <1>1, <1>3, <1>4 DEF AgeNotNewer

LEMMA ReadAges ==
  ASSUME AgeInv, ReadFile \/ ReadSystem
  PROVE  OrderInv' /\ WillFitInv' /\ AgeNotNewer'
<1> USE DEF AgeInv
<1>1. UNCHANGED <<file, checks, latest, rows, displayed, online, rerun>>
  BY DEF ReadFile, ReadSystem, disk, reader, shown
<1>2. CASE ReadFile
  <2>1. load'.file = file
    BY <1>2 DEF ReadFile, TypeOK, Load
  <2>2. OrderInv'
    BY <1>1, <2>1 DEF OrderInv, AtMost, TypeOK
  <2>3. file # None => AtMost(online, file) /\ AtMost(displayed, file)
    BY DEF OrderInv, AtMost
  <2>4. WillFitInv'
    BY <1>1, <2>1, <2>3 DEF WillFitInv, AtMost
  <2>5. QED
    BY <1>1, <2>2, <2>4 DEF AgeNotNewer
<1>3. CASE ReadSystem
  <2>1. load'.file = load.file /\ load.step = "half"
    BY <1>3 DEF ReadSystem, TypeOK, Load
  <2>2. QED
    BY <1>1, <2>1 DEF OrderInv, WillFitInv, AgeNotNewer, AtMost
<1>4. QED
  BY <1>2, <1>3

LEMMA FinishedAges ==
  ASSUME AgeInv, LoadFinished
  PROVE  OrderInv' /\ WillFitInv' /\ AgeNotNewer'
<1> USE DEF AgeInv
<1>1. UNCHANGED <<file, checks, latest, online>> /\ load.step = "finished"
  BY DEF LoadFinished, disk, reader
<1>2. Begun.file = None /\ Idle.file = None
  BY DEF Begun, Idle
<1>3. CASE rerun
  <2>1. load' = Begun /\ UNCHANGED <<rows, displayed>>
    BY <1>3 DEF LoadFinished, DropResult, StartLoading
  <2>2. QED
    BY <1>1, <1>2, <2>1 DEF OrderInv, WillFitInv, AgeNotNewer, AtMost
<1>4. CASE ~rerun
  <2>1. UseResult
    BY <1>4 DEF LoadFinished
  <2>2. load' = Idle
    BY <2>1, UseEffect
  <2>3. WillFitInv'
    BY <1>2, <2>2 DEF WillFitInv
  <2>4. AgeNotNewer' /\ AtMost(rows', checks) /\ AtMost(displayed', checks)
    <3>1. CASE load.kind = "error"
      BY <2>1, <3>1, UseEffect DEF AgeNotNewer, OrderInv, AtMost
    <3>2. CASE load.kind # "error"
      BY <1>1, <1>4, <2>1, <3>2, UseEffect
         DEF DisplayedTime, AgeNotNewer, OrderInv, WillFitInv, AtMost, TypeOK, Load
    <3>3. QED
      BY <3>1, <3>2
  <2>5. OrderInv'
    BY <1>1, <1>2, <2>2, <2>4 DEF OrderInv, AtMost
  <2>6. QED
    BY <2>3, <2>4, <2>5
<1>5. QED
  BY <1>3, <1>4

LEMMA ReadNowAges ==
  ASSUME AgeInv, ReadNow
  PROVE  OrderInv' /\ WillFitInv' /\ AgeNotNewer'
<1> USE DEF AgeInv
<1>1. UNCHANGED <<file, checks>>
  BY ReadNowEffect DEF disk
<1>2. CASE ReadsSame
  BY <1>1, <1>2 DEF ReadsSame, OrderInv, WillFitInv, AgeNotNewer, shown
<1>3. CASE ReadsOther
  <2>1. latest' = file /\ online' = file /\ (rerun' \/ load' = Begun) /\ (load' = load \/ load' = Begun)
    BY <1>3, Zenon DEF ReadsOther
  <2>2. Begun.file = None
    BY DEF Begun, Idle
  <2>3. \/ UNCHANGED <<rows, displayed>>
        \/ file # None /\ rows' = file /\ displayed' = file
    BY <1>3, Zenon DEF ReadsOther
  <2>4. QED
    BY <1>1, <2>1, <2>2, <2>3 DEF TypeOK, OrderInv, WillFitInv, AgeNotNewer, AtMost
<1>4. QED
  BY <1>2, <1>3, ReadNowEffect

LEMMA AgeNext == AgeInv /\ [Next]_vars => AgeInv'
<1> SUFFICES ASSUME AgeInv, [Next]_vars PROVE AgeInv'
  OBVIOUS
<1>1. TypeOK'
  BY NextTypes DEF AgeInv
<1>2. CASE UNCHANGED vars
  <2>1. OrderInv' /\ WillFitInv' /\ AgeNotNewer'
    BY <1>2 DEF AgeInv, OrderInv, WillFitInv, AgeNotNewer, vars, disk, reader, page, shown
  <2>2. QED
    BY <1>1, <2>1 DEF AgeInv
<1>3. QED
  BY <1>1, <1>2, DiskAges, QuietAges, ReadAges, FinishedAges, ReadNowAges
     DEF AgeInv, Next, DiskStep, ReadDebounceFires, ServiceSpeaks

\* THEOREM: rows are never said to be of a later check than they are of, for any number of checks.
THEOREM AgesAreNotNewer == Spec => []AgeNotNewer
BY AgeInit, AgeNext, PTL DEF Spec, AgeInv

-------------------------------------------------------------------------------
(* What is called checked *)

\* Checked rows are those of the last result used, and their age is the reader's unless a load
\* is at work.
CheckedInv ==
  source = "checked" =>
    /\ view = "result" /\ rows # None
    /\ handled[1] = rows
    /\ displayed = online \/ loading

LoadInv == load.step = "finished" /\ load.kind = "checked" => load.file # None

SourceInv == TypeOK /\ online = latest /\ LoadInv /\ CheckedInv

LEMMA SourceInit == Init => SourceInv
<1> SUFFICES ASSUME Init PROVE SourceInv
  OBVIOUS
<1>1. source # "checked" /\ load.step # "finished" /\ online = latest
  BY LoadStates DEF Init
<1>2. QED
  BY <1>1, InitTypes DEF SourceInv, LoadInv, CheckedInv

\* Steps that leave what is shown alone.
LEMMA SourceKept ==
  ASSUME SourceInv, UNCHANGED <<latest, source, rows, displayed, online, handled>>,
         loading => loading', view = "result" => view' = "result",
         UNCHANGED load \/ load'.step \in {"begun", "half"}
  PROVE  (online = latest)' /\ LoadInv' /\ CheckedInv'
<1>1. LoadInv'
  BY DEF SourceInv, LoadInv
<1>2. CheckedInv'
  BY DEF SourceInv, CheckedInv
<1>3. QED
  BY <1>1, <1>2 DEF SourceInv

LEMMA QuietSource ==
  ASSUME SourceInv, DiskStep \/ FilesystemChanged \/ DebounceFires \/ Reload \/ ReaderChanged \/ ReadFile
  PROVE  (online = latest)' /\ LoadInv' /\ CheckedInv'
<1> USE DEF SourceInv
<1>1. CASE DiskStep
  BY <1>1, DiskTypes, SourceKept DEF reader, page, shown
<1>2. CASE FilesystemChanged
  BY <1>2, SourceKept DEF FilesystemChanged, reader, shown
<1>3. CASE DebounceFires \/ Reload
  <2>1. ReloadUnlessLoading /\ UNCHANGED <<reader, source, rows, displayed, online, handled>>
    BY <1>3 DEF DebounceFires, Reload, ReloadUnlessLoading
  <2>2. /\ loading' = TRUE /\ (view = "result" => view' = "result")
        /\ UNCHANGED load \/ load'.step \in {"begun", "half"}
    BY <2>1, LoadAgainTypes, LoadStates DEF ReloadUnlessLoading, StartLoading
  <2>3. QED
    BY <2>1, <2>2, SourceKept DEF reader
<1>4. CASE ReaderChanged
  BY <1>4, SourceKept DEF ReaderChanged, page, shown
<1>5. CASE ReadFile
  <2>1. load'.step = "half"
    BY <1>5 DEF ReadFile, TypeOK, Load
  <2>2. QED
    BY <1>5, <2>1, SourceKept DEF ReadFile, reader, shown
<1>6. QED
  BY <1>1, <1>2, <1>3, <1>4, <1>5

LEMMA ReadSystemSource ==
  ASSUME SourceInv, ReadSystem
  PROVE  (online = latest)' /\ LoadInv' /\ CheckedInv'
<1>1. UNCHANGED <<latest, shown, online, handled, loading>>
  BY DEF ReadSystem, reader
<1>2. PICK kind \in {"local", "error"} \cup (IF load.file = None THEN {} ELSE {"checked", "saved", "bare"}) :
        load' = [load EXCEPT !.step = "finished", !.system = system, !.kind = kind]
  BY DEF ReadSystem
<1>3. load'.file = load.file /\ load'.kind = kind
  BY <1>2 DEF SourceInv, TypeOK, Load
<1>4. LoadInv'
  BY <1>2, <1>3 DEF LoadInv
<1>5. QED
  BY <1>1, <1>4 DEF SourceInv, CheckedInv, shown

LEMMA FinishedSource ==
  ASSUME SourceInv, LoadFinished
  PROVE  (online = latest)' /\ LoadInv' /\ CheckedInv'
<1> USE DEF SourceInv
<1>1. UNCHANGED <<latest, online>> /\ load.step = "finished"
  BY DEF LoadFinished, reader
<1>2. CASE rerun
  <2>1. /\ load' = Begun /\ loading' = TRUE /\ UNCHANGED <<source, rows, displayed, handled>>
        /\ view = "result" => view' = "result"
    BY <1>2 DEF LoadFinished, DropResult, StartLoading
  <2>2. QED
    BY <1>1, <2>1, LoadStates, SourceKept
<1>3. CASE ~rerun
  <2>1. UseResult
    BY <1>3 DEF LoadFinished
  <2>2. LoadInv'
    BY <2>1, UseEffect, LoadStates DEF LoadInv
  <2>3. ASSUME source' = "checked"
        PROVE  load.kind = "checked" \/ (source = "checked" /\ view # "result")
    BY <2>1, <2>3, UseEffect
  <2>4. CASE load.kind = "checked"
    <3>1. view' = "result" /\ rows' = load.file /\ displayed' = online /\ handled' = <<load.file, load.system>>
      BY <2>1, <2>4, UseEffect DEF DisplayedTime
    <3>2. load.file # None
      BY <1>1, <2>4 DEF LoadInv
    <3>3. QED
      BY <1>1, <2>2, <3>1, <3>2 DEF CheckedInv
  <2>5. CASE load.kind # "checked"
    BY <1>1, <2>2, <2>3, <2>5 DEF CheckedInv
  <2>6. QED
    BY <2>4, <2>5
<1>4. QED
  BY <1>2, <1>3

LEMMA ReadNowSource ==
  ASSUME SourceInv, ReadNow
  PROVE  (online = latest)' /\ LoadInv' /\ CheckedInv'
<1> USE DEF SourceInv
<1>1. UNCHANGED handled
  BY ReadNowEffect
<1>2. CASE ReadsSame
  BY <1>1, <1>2, SourceKept DEF ReadsSame, shown
<1>3. CASE ReadsOther
  <2>1. latest' = file /\ online' = file /\ loading' = TRUE /\ (load' = load \/ load' = Begun)
    BY <1>3, Zenon DEF ReadsOther
  <2>2. source' # "checked" \/ UNCHANGED <<view, source, rows>>
    BY <1>3 DEF ReadsOther
  <2>3. LoadInv'
    BY <2>1, LoadStates DEF LoadInv
  <2>4. CheckedInv'
    BY <1>1, <2>1, <2>2 DEF CheckedInv
  <2>5. QED
    BY <2>1, <2>3, <2>4
<1>4. QED
  BY <1>2, <1>3, ReadNowEffect

LEMMA SourceNext == SourceInv /\ [Next]_vars => SourceInv'
<1> SUFFICES ASSUME SourceInv, [Next]_vars PROVE SourceInv'
  OBVIOUS
<1>1. TypeOK'
  BY NextTypes DEF SourceInv
<1>2. CASE UNCHANGED vars
  <2>1. (online = latest)' /\ LoadInv' /\ CheckedInv'
    BY <1>2, SourceKept DEF vars, reader, page, shown
  <2>2. QED
    BY <1>1, <2>1 DEF SourceInv
<1>3. QED
  BY <1>1, <1>2, QuietSource, ReadSystemSource, FinishedSource, ReadNowSource
     DEF SourceInv, Next, DiskStep, ReadDebounceFires, ServiceSpeaks

LEMMA SourceImplies == SourceInv /\ MissInv => SettledAge
<1> SUFFICES ASSUME SourceInv, MissInv, source = "checked", ~LoadsAgain, ~ReadsAgain
             PROVE  rows = file /\ displayed = file /\ file # None
  BY DEF SettledAge
<1>1. handled = Current /\ latest = file
  BY MissImplies DEF NothingMissed
<1>2. ~loading
  BY Zenon DEF MissInv, LookInv, LoadsAgain
<1>3. rows = file
  BY <1>1 DEF SourceInv, CheckedInv, Current
<1>4. QED
  BY <1>1, <1>2, <1>3 DEF SourceInv, CheckedInv

\* THEOREM: once nothing is on its way, what is called checked is of the published check and has
\* its age, and nothing is when no valid snapshot is left.
THEOREM AgesSettle == Spec => []SettledAge
BY SourceInit, SourceNext, SourceImplies, MissInit, MissNext, PTL DEF Spec

===============================================================================
