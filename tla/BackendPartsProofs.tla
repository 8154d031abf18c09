---------------------------- MODULE BackendPartsProofs ----------------------------
(***************************************************************************)
(* Proofs about the parts of the backends and of the service, each under   *)
(* its own specification: the handle cache for any databases, threads and  *)
(* changes, and the delays of the scheduler for every policy, configured   *)
(* value and random offset.                                                *)
(***************************************************************************)
EXTENDS ConnectionCache, CheckInterval, TLAPS

-------------------------------------------------------------------------------
(* The handle cache.  The holder of the mutex is the only thread in a call; the argument follows
   its local variables through the changes that pacman makes between its steps: the time of a file
   never goes back, so that a time that is the same at two steps of a call is the time of the file
   at the listing between them. *)

Directory == [Databases -> File]
Times == {Absent} \cup UNION {[S -> Nat] : S \in SUBSET Databases}
Entry == [content : Nat, mtime : Nat]
Handles == {Absent} \cup UNION {[S -> Entry] : S \in SUBSET Databases}
Call == [step : Steps, listing : SUBSET Databases, left : SUBSET Databases, fresh : Times, times : Times]

ListedIn(directory) == {d \in Databases : directory[d].there}
Active(t) == call[t].step # "idle"
InCall(t) == call[t].step \in {"listing", "stat", "registering", "restat"}
Stating(t) == call[t].step \in {"stat", "restat"}

Types ==
  /\ files \in Directory
  /\ holder \in Loaders \cup {Absent}
  /\ handle_ \in Handles /\ known_ \in Times
  /\ call \in [Loaders -> Call]
  /\ seen \in [Loaders -> SUBSET Directory]

\* Only the holder of the mutex is in a call.
Mutex == \A t \in Loaders : Active(t) => holder = t

\* The times that are known are those of the databases of the handle.
Known ==
  known_ # Absent =>
    /\ handle_ # Absent /\ DOMAIN handle_ = DOMAIN known_
    /\ \A d \in DOMAIN known_ : handle_[d].mtime = known_[d] /\ known_[d] <= files[d].mtime

\* A thread in a call has seen the directory as it is, and no file has become older.
Seen(t) ==
  /\ InCall(t) => files \in seen[t]
  /\ \A directory \in seen[t], d \in Databases : directory[d].mtime <= files[d].mtime

\* Until the handle is renewed, the known times are not younger than anything the call has seen.
KnownBefore(t) ==
  call[t].step \in {"listing", "stat"} /\ known_ # Absent =>
    \A directory \in seen[t], d \in DOMAIN known_ : known_[d] <= directory[d].mtime

\* The times taken so far are not older than the directory was when it was listed.
TakenFrom(directory, c) ==
  /\ ListedIn(directory) = c.listing /\ DOMAIN c.times = c.listing \ c.left
  /\ \A d \in DOMAIN c.times : directory[d].mtime <= c.times[d] /\ c.times[d] <= files[d].mtime
  /\ c.step = "restat" => \A d \in DOMAIN handle_ : handle_[d].mtime <= directory[d].mtime

Taken(t) ==
  Stating(t) =>
    /\ call[t].left \subseteq call[t].listing
    /\ call[t].left # {} => call[t].times # Absent
    /\ call[t].times # Absent => \E directory \in seen[t] : TakenFrom(directory, call[t])

\* What is registered was on disk during the call, after the first times were taken.
Registered(t) ==
  call[t].step \in {"registering", "restat"} =>
    /\ known_ = Absent /\ handle_ # Absent
    /\ \A d \in DOMAIN handle_ :
         /\ handle_[d].mtime <= files[d].mtime
         /\ \E directory \in seen[t] : Matches(directory, d)
    /\ call[t].step = "registering" =>
         /\ call[t].left \subseteq call[t].listing /\ DOMAIN handle_ = call[t].listing \ call[t].left
         /\ call[t].fresh # Absent => DOMAIN call[t].fresh = call[t].listing
    /\ call[t].fresh # Absent =>
         /\ call[t].step = "restat" => DOMAIN call[t].fresh = DOMAIN handle_
         /\ \A d \in DOMAIN call[t].fresh : call[t].fresh[d] <= files[d].mtime
         /\ \A d \in DOMAIN handle_ : call[t].fresh[d] <= handle_[d].mtime

\* LeaseIsCurrent of one thread.
Leased(t) ==
  At(t, "leased") =>
    /\ handle_ # Absent
    /\ \A d \in DOMAIN handle_ : \E directory \in seen[t] : Matches(directory, d)
    /\ known_ # Absent =>
         \E directory \in seen[t] :
           /\ DOMAIN handle_ = {d \in Databases : directory[d].there}
           /\ \A d \in DOMAIN handle_ : Matches(directory, d)

Thread(t) == Seen(t) /\ KnownBefore(t) /\ Taken(t) /\ Registered(t) /\ Leased(t)

IInv == Types /\ Mutex /\ Known /\ \A t \in Loaders : Thread(t)

-------------------------------------------------------------------------------
(* Types *)

LEMMA NothingTypes == Nothing \in [{} -> Nat] /\ Nothing \in Times /\ Nothing \in Handles /\ Nothing # Absent
<1>1. Nothing \in [{} -> Nat] /\ Nothing \in [{} -> Entry]
  BY DEF Nothing
<1>2. {} \in SUBSET Databases
  OBVIOUS
<1>3. QED
  BY <1>1, <1>2, CacheAssumption DEF Times, Handles

LEMMA NoCallType == NoCall \in Call /\ NoCall.step = "idle"
BY DEF NoCall, Call, Steps, Times

\* Tables of times and of entries, with their domains.
LEMMA TimesShape ==
  ASSUME NEW f \in Times, f # Absent
  PROVE  DOMAIN f \in SUBSET Databases /\ f \in [DOMAIN f -> Nat]
BY DEF Times

LEMMA HandleShape ==
  ASSUME NEW f \in Handles, f # Absent
  PROVE  DOMAIN f \in SUBSET Databases /\ f \in [DOMAIN f -> Entry]
BY DEF Handles

LEMMA PutTime ==
  ASSUME NEW f \in Times, f # Absent, NEW d \in Databases, NEW n \in Nat
  PROVE  /\ Put(f, d, n) \in Times /\ Put(f, d, n) # Absent
         /\ DOMAIN Put(f, d, n) = DOMAIN f \cup {d}
         /\ Put(f, d, n)[d] = n
         /\ \A x \in DOMAIN f : x # d => Put(f, d, n)[x] = f[x]
<1>1. DOMAIN f \in SUBSET Databases /\ f \in [DOMAIN f -> Nat]
  BY TimesShape
<1>2. Put(f, d, n) \in [DOMAIN f \cup {d} -> Nat]
  BY <1>1 DEF Put
<1>3. DOMAIN f \cup {d} \in SUBSET Databases
  BY <1>1
<1>4. QED
  BY <1>1, <1>2, <1>3, CacheAssumption DEF Put, Times

LEMMA PutEntry ==
  ASSUME NEW f \in Handles, f # Absent, NEW d \in Databases, NEW e \in Entry
  PROVE  /\ Put(f, d, e) \in Handles /\ Put(f, d, e) # Absent
         /\ DOMAIN Put(f, d, e) = DOMAIN f \cup {d}
         /\ Put(f, d, e)[d] = e
         /\ \A x \in DOMAIN f : x # d => Put(f, d, e)[x] = f[x]
<1>1. DOMAIN f \in SUBSET Databases /\ f \in [DOMAIN f -> Entry]
  BY HandleShape
<1>2. Put(f, d, e) \in [DOMAIN f \cup {d} -> Entry]
  BY <1>1 DEF Put
<1>3. DOMAIN f \cup {d} \in SUBSET Databases
  BY <1>1
<1>4. QED
  BY <1>1, <1>2, <1>3, CacheAssumption DEF Put, Handles, Entry

LEMMA InitInv == CacheInit => IInv
<1> SUFFICES ASSUME CacheInit PROVE IInv
  OBVIOUS
<1>1. files \in Directory
  BY DEF CacheInit, Directory, File
<1>2. Types
  BY <1>1, NoCallType DEF CacheInit, Types, Handles, Times
<1>3. \A t \in Loaders : call[t].step = "idle" /\ seen[t] = {}
  BY NoCallType DEF CacheInit
<1>4. \A t \in Loaders : Thread(t)
  BY <1>3 DEF Thread, Seen, KnownBefore, Taken, Registered, Leased, InCall, Stating, At
<1>5. Mutex /\ Known
  BY <1>3 DEF Mutex, Known, Active, CacheInit
<1>6. QED
  BY <1>2, <1>4, <1>5 DEF IInv

-------------------------------------------------------------------------------
(* Steps *)

\* Of the threads that do not act, the step of another leaves nothing to show: they are idle.
LEMMA OthersAreIdle ==
  ASSUME IInv, NEW t \in Loaders, holder \in {t, Absent}, NEW u \in Loaders, u # t
  PROVE  call[u].step = "idle"
BY CacheAssumption DEF IInv, Mutex, Active

LEMMA ActingThread ==
  ASSUME IInv, NEW t \in Loaders, holder \in {t, Absent},
         UNCHANGED files,
         \A u \in Loaders \ {t} : call'[u] = call[u] /\ seen'[u] = seen[u],
         call'[t].step # "idle" => holder' = t,
         Types', Known', Thread(t)'
  PROVE  IInv'
<1>1. ASSUME NEW u \in Loaders, u # t PROVE call'[u].step = "idle" /\ Thread(u)'
  <2>1. call'[u].step = "idle"
    BY <1>1, OthersAreIdle
  <2>2. Seen(u)'
    BY <1>1, <2>1 DEF Seen, InCall, IInv, Thread
  <2>3. QED
    BY <2>1, <2>2 DEF Thread, KnownBefore, Taken, Registered, Leased, Stating, At
<1>2. Mutex'
  BY <1>1 DEF Mutex, Active
<1>3. \A u \in Loaders : Thread(u)'
  BY <1>1
<1>4. QED
  BY <1>2, <1>3 DEF IInv

\* What a change does: no time goes back.
LEMMA ChangeKeepsOrder ==
  ASSUME Types, NEW d \in Databases, Change(d)
  PROVE  /\ files' \in Directory
         /\ \A x \in Databases : files[x].mtime <= files'[x].mtime
<1> PICK there \in BOOLEAN, later \in {0, 1} :
      files' = [files EXCEPT ![d] = [there |-> there, content |-> @.content + 1, mtime |-> @.mtime + later]]
  BY DEF Change
<1>1. files[d] \in File
  BY DEF Types, Directory
<1>2. [there |-> there, content |-> files[d].content + 1, mtime |-> files[d].mtime + later] \in File
  BY <1>1 DEF File
<1>3. \A x \in Databases : files[x].mtime \in Nat
  BY DEF Types, Directory, File
<1>4. files' \in Directory
  BY <1>2 DEF Types, Directory
<1>5. ASSUME NEW x \in Databases PROVE files[x].mtime <= files'[x].mtime
  <2>1. CASE x = d
    BY <1>3, <2>1 DEF Types, Directory
  <2>2. CASE x # d
    BY <1>3, <2>2 DEF Types, Directory
  <2>3. QED
    BY <2>1, <2>2
<1>6. QED
  BY <1>4, <1>5

LEMMA ChangePreserves ==
  ASSUME IInv, NEW d \in Databases, Change(d)
  PROVE  IInv'
<1>1. Types /\ Mutex /\ Known
  BY DEF IInv
<1>2. UNCHANGED <<holder, handle_, known_, call>>
  BY DEF Change
<1>3. files' \in Directory /\ \A x \in Databases : files[x].mtime <= files'[x].mtime
  BY <1>1, ChangeKeepsOrder
<1>4. \A x \in Databases : files[x].mtime \in Nat /\ files'[x].mtime \in Nat
  BY <1>1, <1>3 DEF Types, Directory, File
<1>5. seen' = [t \in Loaders |-> IF call[t].step \in {"idle", "leased"} THEN seen[t] ELSE seen[t] \cup {files'}]
  BY DEF Change
<1>6. \A t \in Loaders : seen[t] \subseteq seen'[t] /\ seen'[t] \subseteq seen[t] \cup {files'}
  BY <1>5
<1>7. \A t \in Loaders : InCall(t) => seen'[t] = seen[t] \cup {files'}
  BY <1>5 DEF InCall
<1>8. \A t \in Loaders : seen[t] \subseteq Directory
  BY <1>1 DEF Types
<1>9. seen' \in [Loaders -> SUBSET Directory]
  BY <1>3, <1>5, <1>8
<1>10. Types'
  BY <1>1, <1>2, <1>3, <1>9 DEF Types
<1>11. Mutex'
  BY <1>1, <1>2 DEF Mutex, Active
<1>12. known_ # Absent => DOMAIN known_ \subseteq Databases /\ \A x \in DOMAIN known_ : known_[x] \in Nat
  BY <1>1, TimesShape DEF Types
<1>13. handle_ # Absent => DOMAIN handle_ \subseteq Databases /\ \A x \in DOMAIN handle_ : handle_[x].mtime \in Nat
  BY <1>1, HandleShape DEF Types, Entry
<1>14. Known'
  <2>1. known_ # Absent => \A x \in DOMAIN known_ : known_[x] <= files'[x].mtime
    BY <1>1, <1>3, <1>4, <1>12 DEF Known
  <2>2. QED
    BY <1>1, <1>2, <2>1 DEF Known
<1>15. ASSUME NEW t \in Loaders PROVE Thread(t)'
  <2> DEFINE c == call[t]
  <2>1. Thread(t) /\ c \in Call
    BY <1>1 DEF IInv, Types
  <2>2. c.times \in Times /\ c.fresh \in Times
    BY <2>1 DEF Call
  <2>3. \A directory \in seen[t], x \in Databases : directory[x].mtime \in Nat
    BY <1>8 DEF Directory, File
  <2>4. Seen(t)'
    <3>1. \A directory \in seen'[t], x \in Databases : directory[x].mtime <= files'[x].mtime
      <4> TAKE directory \in seen'[t], x \in Databases
      <4>1. CASE directory = files'
        BY <1>4, <4>1
      <4>2. CASE directory \in seen[t]
        BY <1>3, <1>4, <2>1, <2>3, <4>2 DEF Thread, Seen
      <4>3. QED
        BY <1>6, <4>1, <4>2
    <3>2. InCall(t)' => files' \in seen'[t]
      BY <1>2, <1>7 DEF InCall
    <3>3. QED
      BY <3>1, <3>2 DEF Seen
  <2>5. KnownBefore(t)'
    <3> SUFFICES ASSUME c.step \in {"listing", "stat"}, known_ # Absent, NEW directory \in seen'[t], NEW x \in DOMAIN known_
                 PROVE  known_[x] <= directory[x].mtime
      BY <1>2 DEF KnownBefore
    <3>1. CASE directory \in seen[t]
      BY <2>1, <3>1 DEF Thread, KnownBefore
    <3>2. CASE directory = files'
      BY <1>1, <1>3, <1>4, <1>12, <3>2 DEF Known
    <3>3. QED
      BY <1>6, <3>1, <3>2
  <2>6. Taken(t)'
    <3> SUFFICES ASSUME Stating(t), c.times # Absent PROVE \E directory \in seen'[t] : TakenFrom(directory, c)'
      BY <1>2, <2>1 DEF Thread, Taken, Stating
    <3> PICK directory \in seen[t] : TakenFrom(directory, c)
      BY <2>1 DEF Thread, Taken
    <3>1. DOMAIN c.times \subseteq Databases /\ \A x \in DOMAIN c.times : c.times[x] \in Nat
      BY <2>2, TimesShape
    <3>2. \A x \in DOMAIN c.times : c.times[x] <= files'[x].mtime
      BY <1>3, <1>4, <3>1 DEF TakenFrom
    <3>3. TakenFrom(directory, c)'
      BY <1>2, <3>2 DEF TakenFrom
    <3>4. QED
      BY <1>6, <3>3
  <2>7. Registered(t)'
    <3> SUFFICES ASSUME c.step \in {"registering", "restat"} PROVE Registered(t)'
      BY <1>2 DEF Registered
    <3>1. handle_ # Absent /\ known_ = Absent
      BY <2>1 DEF Thread, Registered
    <3>2. \A x \in DOMAIN handle_ : handle_[x].mtime <= files'[x].mtime
      BY <1>3, <1>4, <1>13, <2>1, <3>1 DEF Thread, Registered
    <3>3. \A x \in DOMAIN handle_ : \E directory \in seen'[t] : Matches(directory, x)'
      BY <1>2, <1>6, <2>1 DEF Thread, Registered, Matches
    <3>4. c.fresh # Absent => DOMAIN c.fresh \subseteq Databases /\ \A x \in DOMAIN c.fresh : c.fresh[x] \in Nat
      BY <2>2, TimesShape
    <3>5. c.fresh # Absent => \A x \in DOMAIN c.fresh : c.fresh[x] <= files'[x].mtime
      BY <1>3, <1>4, <2>1, <3>4 DEF Thread, Registered
    <3>6. QED
      BY <1>2, <2>1, <3>1, <3>2, <3>3, <3>5 DEF Thread, Registered
  <2>8. Leased(t)'
    BY <1>2, <1>6, <2>1 DEF Thread, Leased, Matches, At
  <2>9. QED
    BY <2>4, <2>5, <2>6, <2>7, <2>8 DEF Thread
<1>16. QED
  BY <1>10, <1>11, <1>14, <1>15 DEF IInv

-------------------------------------------------------------------------------
(* The steps of a call *)

\* A call that ends without a lease leaves nothing to show of its thread.
LEMMA IdleThread ==
  ASSUME NEW t \in Loaders, Seen(t)', call'[t].step = "idle"
  PROVE  Thread(t)'
BY DEF Thread, KnownBefore, Taken, Registered, Leased, Stating, At

LEMMA SameSeen ==
  ASSUME NEW t \in Loaders, Seen(t), UNCHANGED <<files, seen>>,
         InCall(t)' => InCall(t)
  PROVE  Seen(t)'
BY DEF Seen, InCall

LEMMA GiveUpPreserves ==
  ASSUME IInv, NEW t \in Loaders, holder = t, GiveUp(t), UNCHANGED <<files, seen>>,
         handle_' \in Handles, known_' \in Times, Known'
  PROVE  IInv'
<1>1. call' = [call EXCEPT ![t] = NoCall] /\ holder' = Absent
  BY DEF GiveUp
<1>2. call' \in [Loaders -> Call] /\ call'[t].step = "idle" /\ \A u \in Loaders \ {t} : call'[u] = call[u]
  BY <1>1, NoCallType DEF IInv, Types
<1>3. Types'
  BY <1>1, <1>2 DEF IInv, Types
<1>4. Thread(t)'
  <2>1. Seen(t)
    BY DEF IInv, Thread
  <2>2. Seen(t)'
    BY <1>2, <2>1, SameSeen DEF InCall
  <2>3. QED
    BY <1>2, <2>2, IdleThread
<1>5. QED
  BY <1>2, <1>3, <1>4, ActingThread

LEMMA KnownUnchanged ==
  ASSUME Known, UNCHANGED <<files, handle_, known_>>
  PROVE  Known'
BY DEF Known

LEMMA EnterPreserves ==
  ASSUME IInv, NEW t \in Loaders, Enter(t)
  PROVE  IInv'
<1>1. Types /\ Known /\ holder = Absent /\ files \in Directory
  BY DEF IInv, Enter, Types
<1>2. /\ holder' = t /\ UNCHANGED <<files, handle_, known_>>
      /\ call' = [call EXCEPT ![t].step = "listing"] /\ seen' = [seen EXCEPT ![t] = {files}]
  BY DEF Enter, disk
<1>3. call'[t] \in Call /\ call'[t].step = "listing" /\ call' \in [Loaders -> Call]
  BY <1>1, <1>2 DEF Types, Call, Steps
<1>4. seen'[t] = {files} /\ seen' \in [Loaders -> SUBSET Directory]
  BY <1>1, <1>2 DEF Types
<1>5. \A u \in Loaders \ {t} : call'[u] = call[u] /\ seen'[u] = seen[u]
  BY <1>1, <1>2 DEF Types
<1>6. Types' /\ Known'
  BY <1>1, <1>2, <1>3, <1>4, KnownUnchanged DEF Types
<1>7. Thread(t)'
  <2>1. Seen(t)'
    BY <1>1, <1>2, <1>4 DEF Seen, Directory, File
  <2>2. KnownBefore(t)'
    BY <1>1, <1>2, <1>4 DEF KnownBefore, Known
  <2>3. QED
    BY <1>3, <2>1, <2>2 DEF Thread, Taken, Registered, Leased, Stating, At
<1>8. QED
  BY <1>1, <1>2, <1>3, <1>5, <1>6, <1>7, ActingThread

\* What every later step of a call starts from.
LEMMA Holding ==
  ASSUME IInv, NEW t \in Loaders, call[t].step # "idle"
  PROVE  /\ holder = t /\ Types /\ Known /\ Thread(t)
         /\ call[t] \in Call /\ call[t].times \in Times /\ call[t].fresh \in Times
         /\ call[t].listing \subseteq Databases /\ call[t].left \subseteq Databases
BY DEF IInv, Mutex, Active, Types, Call

LEMMA ListPreserves ==
  ASSUME IInv, NEW t \in Loaders, List(t)
  PROVE  IInv'
<1>1. call[t].step = "listing" /\ UNCHANGED <<files, handle_, known_, seen>>
  BY DEF List, At, disk
<1>2. holder = t /\ Types /\ Known /\ Thread(t) /\ call[t] \in Call
  BY <1>1, Holding
<1>3. Known'
  BY <1>1, <1>2, KnownUnchanged
<1>4. CASE GiveUp(t)
  BY <1>1, <1>2, <1>3, <1>4, GiveUpPreserves DEF Types
<1>5. CASE /\ call' = [call EXCEPT ![t].step = "stat", ![t].listing = Listed, ![t].left = Listed, ![t].times = Nothing]
           /\ UNCHANGED holder
  <2>1. Listed \in SUBSET Databases
    BY DEF Listed
  <2>2. /\ call'[t] \in Call /\ call' \in [Loaders -> Call]
        /\ call'[t].step = "stat" /\ call'[t].listing = Listed /\ call'[t].left = Listed /\ call'[t].times = Nothing
        /\ \A u \in Loaders \ {t} : call'[u] = call[u]
    BY <1>2, <1>5, <2>1, NothingTypes DEF Types, Call, Steps
  <2>3. Types'
    BY <1>1, <1>2, <1>5, <2>2 DEF Types
  <2>4. Seen(t)'
    BY <1>1, <1>2, <2>2 DEF Seen, InCall, Thread
  <2>5. KnownBefore(t)'
    BY <1>1, <1>2, <2>2 DEF KnownBefore, Thread
  <2>6. Taken(t)'
    <3>1. files \in seen'[t]
      BY <1>1, <1>2 DEF Thread, Seen, InCall
    <3>2. DOMAIN Nothing = {}
      BY DEF Nothing
    <3>3. TakenFrom(files, call[t])'
      BY <1>1, <2>2, <3>2 DEF TakenFrom, ListedIn, Listed
    <3>4. QED
      BY <1>1, <2>2, <3>1, <3>3, NothingTypes DEF Taken
  <2>7. Registered(t)' /\ Leased(t)'
    BY <2>2 DEF Registered, Leased, At
  <2>8. Thread(t)'
    BY <2>4, <2>5, <2>6, <2>7 DEF Thread
  <2>9. QED
    BY <1>1, <1>2, <1>3, <1>5, <2>2, <2>3, <2>8, ActingThread
<1>6. QED
  BY <1>4, <1>5 DEF List

LEMMA StatPreserves ==
  ASSUME IInv, NEW t \in Loaders, Stat(t)
  PROVE  IInv'
<1>1. Stating(t) /\ UNCHANGED <<files, holder, handle_, known_, seen>>
  BY DEF Stat, Stating, disk
<1>2. /\ holder = t /\ Types /\ Known /\ Thread(t) /\ call[t] \in Call
      /\ call[t].times \in Times /\ call[t].listing \subseteq Databases
  BY <1>1, Holding DEF Stating
<1> PICK d \in call[t].left :
      call' = [call EXCEPT ![t].left = IF files[d].there THEN @ \ {d} ELSE {},
                           ![t].times = IF files[d].there THEN Put(@, d, files[d].mtime) ELSE Absent]
  BY DEF Stat
<1>3. d \in call[t].listing /\ d \in Databases /\ call[t].left \subseteq call[t].listing /\ call[t].times # Absent
  BY <1>1, <1>2 DEF Thread, Taken
<1>4. files[d].mtime \in Nat
  BY <1>2, <1>3 DEF Types, Directory, File
<1> DEFINE left  == IF files[d].there THEN call[t].left \ {d} ELSE {}
           times == IF files[d].there THEN Put(call[t].times, d, files[d].mtime) ELSE Absent
<1>5. left \in SUBSET Databases /\ left \subseteq call[t].listing
  BY <1>2, <1>3
<1>6. times \in Times
  BY <1>2, <1>3, <1>4, PutTime DEF Times
<1>7. /\ call'[t] \in Call /\ call' \in [Loaders -> Call]
      /\ call'[t].left = left /\ call'[t].times = times
      /\ call'[t].step = call[t].step /\ call'[t].listing = call[t].listing /\ call'[t].fresh = call[t].fresh
      /\ \A u \in Loaders \ {t} : call'[u] = call[u]
  <2>1. call' = [call EXCEPT ![t] = [call[t] EXCEPT !.left = left, !.times = times]]
    BY <1>2 DEF Types
  <2>2. [call[t] EXCEPT !.left = left, !.times = times] \in Call
    BY <1>2, <1>5, <1>6 DEF Call
  <2>3. QED
    BY <1>2, <2>1, <2>2 DEF Types, Call
<1>8. Types' /\ Known'
  BY <1>1, <1>2, <1>7, KnownUnchanged DEF Types
<1>9. Seen(t)' /\ KnownBefore(t)' /\ Leased(t)'
  BY <1>1, <1>2, <1>7 DEF Thread, Seen, KnownBefore, Leased, InCall, Stating, At
<1>10. Taken(t)'
  <2>1. left # {} => times # Absent
    BY <1>2, <1>3, <1>4, PutTime
  <2>2. ASSUME times # Absent PROVE \E directory \in seen[t] : TakenFrom(directory, call[t])'
    <3>1. files[d].there /\ left = call[t].left \ {d} /\ times = Put(call[t].times, d, files[d].mtime)
      BY <2>2
    <3> PICK directory \in seen[t] : TakenFrom(directory, call[t])
      BY <1>1, <1>2, <1>3 DEF Thread, Taken
    <3>2. directory \in Directory
      BY <1>2 DEF Types
    <3>3. directory[d].mtime <= files[d].mtime
      BY <1>2, <1>3 DEF Thread, Seen
    <3> DEFINE put == Put(call[t].times, d, files[d].mtime)
    <3>9. /\ DOMAIN put = DOMAIN call[t].times \cup {d} /\ put[d] = files[d].mtime
          /\ \A x \in DOMAIN call[t].times : x # d => put[x] = call[t].times[x]
      <4> HIDE DEF left, times
      <4>1. call[t].times \in Times /\ call[t].times # Absent /\ d \in Databases /\ files[d].mtime \in Nat
        BY <1>2, <1>3, <1>4
      <4>2. QED
        BY <4>1, PutTime, Zenon
    <3>10. times = put
      BY <3>1
    <3> HIDE DEF put
    <3>4. /\ DOMAIN times = DOMAIN call[t].times \cup {d} /\ times[d] = files[d].mtime
          /\ \A x \in DOMAIN call[t].times : x # d => times[x] = call[t].times[x]
      BY <3>9, <3>10
    <3> HIDE DEF times, left
    <3>8. DOMAIN times = call[t].listing \ left
      BY <1>3, <3>1, <3>4 DEF TakenFrom
    <3>5. \A x \in DOMAIN times : directory[x].mtime <= times[x] /\ times[x] <= files[x].mtime
      <4> TAKE x \in DOMAIN times
      <4>1. CASE x = d
        BY <1>4, <3>3, <3>4, <4>1
      <4>2. CASE x # d
        BY <3>4, <4>2 DEF TakenFrom
      <4>3. QED
        BY <4>1, <4>2
    <3>6. TakenFrom(directory, call[t])'
      BY <1>1, <1>7, <3>5, <3>8 DEF TakenFrom
    <3>7. QED
      BY <3>6
  <2>3. QED
    BY <1>1, <1>5, <1>7, <2>1, <2>2 DEF Taken
<1>11. Registered(t)'
  BY <1>1, <1>2, <1>7 DEF Thread, Registered, Stating, Matches
<1>12. QED
  BY <1>1, <1>2, <1>7, <1>8, <1>9, <1>10, <1>11, ActingThread DEF Thread

\* The same times as before: the known handle holds the directory that the call has listed.
LEMMA ReusePreserves ==
  ASSUME IInv, NEW t \in Loaders, Reuse(t)
  PROVE  IInv'
<1>1. /\ call[t].step = "stat" /\ call[t].left = {} /\ UNCHANGED <<files, holder, handle_, known_, seen>>
      /\ call' = [call EXCEPT ![t].step = "leased"]
      /\ handle_ # Absent /\ known_ # Absent /\ call[t].times # Absent /\ call[t].times = known_
  BY DEF Reuse, At, disk, IsFresh
<1>2. /\ holder = t /\ Types /\ Known /\ Thread(t) /\ call[t] \in Call
      /\ call[t].listing \subseteq Databases
  BY <1>1, Holding
<1>3. /\ call'[t] \in Call /\ call'[t].step = "leased" /\ call' \in [Loaders -> Call]
      /\ \A u \in Loaders \ {t} : call'[u] = call[u]
  BY <1>1, <1>2 DEF Types, Call, Steps
<1>4. Types' /\ Known'
  BY <1>1, <1>2, <1>3, KnownUnchanged DEF Types
<1>5. Seen(t)'
  BY <1>1, <1>2, <1>3, SameSeen DEF Thread, InCall
<1>6. Leased(t)'
  <2> PICK directory \in seen[t] : TakenFrom(directory, call[t])
    BY <1>1, <1>2 DEF Thread, Taken, Stating
  <2>1. DOMAIN handle_ = ListedIn(directory) /\ DOMAIN handle_ = DOMAIN known_ /\ DOMAIN handle_ \subseteq Databases
    BY <1>1, <1>2 DEF TakenFrom, Known
  <2>2. \A d \in Databases : directory[d].mtime \in Nat
    BY <1>2 DEF Types, Directory, File
  <2>3. \A d \in DOMAIN known_ : known_[d] \in Nat
    BY <1>1, <1>2, TimesShape DEF Types
  <2>4. \A d \in DOMAIN handle_ : Matches(directory, d)
    <3> TAKE d \in DOMAIN handle_
    <3>1. directory[d].there /\ handle_[d].mtime = known_[d] /\ d \in DOMAIN known_ /\ d \in Databases
      BY <1>1, <1>2, <2>1 DEF Known, ListedIn
    <3>2. known_[d] <= directory[d].mtime /\ directory[d].mtime <= known_[d]
      BY <1>1, <1>2, <3>1 DEF Thread, KnownBefore, TakenFrom
    <3>3. QED
      BY <2>2, <2>3, <3>1, <3>2 DEF Matches
  <2>5. QED
    BY <1>1, <2>1, <2>4 DEF Leased, ListedIn, Matches
<1>7. Thread(t)'
  BY <1>3, <1>5, <1>6 DEF Thread, KnownBefore, Taken, Registered, Stating
<1>8. QED
  BY <1>1, <1>2, <1>3, <1>4, <1>7, ActingThread

LEMMA ResetPreserves ==
  ASSUME IInv, NEW t \in Loaders, Reset(t)
  PROVE  IInv'
<1>1. call[t].step = "stat" /\ call[t].left = {} /\ UNCHANGED <<files, seen>> /\ known_' = Absent
  BY DEF Reset, At, disk
<1>2. /\ holder = t /\ Types /\ Thread(t) /\ call[t] \in Call
      /\ call[t].times \in Times /\ call[t].listing \subseteq Databases
  BY <1>1, Holding
<1>3. Known' /\ known_' \in Times
  BY <1>1 DEF Known, Times
<1>4. CASE handle_' = Absent /\ GiveUp(t)
  BY <1>1, <1>2, <1>3, <1>4, GiveUpPreserves DEF Handles
<1>5. CASE /\ handle_' = Nothing /\ UNCHANGED holder
           /\ call' = [call EXCEPT ![t].step = "registering", ![t].left = call[t].listing, ![t].fresh = call[t].times]
  <2>1. /\ call'[t] \in Call /\ call' \in [Loaders -> Call]
        /\ call'[t].step = "registering" /\ call'[t].left = call[t].listing /\ call'[t].listing = call[t].listing
        /\ call'[t].fresh = call[t].times
        /\ \A u \in Loaders \ {t} : call'[u] = call[u]
    <3> DEFINE c == [call[t] EXCEPT !.step = "registering", !.left = call[t].listing, !.fresh = call[t].times]
    <3>1. c \in Call
      BY <1>2 DEF Call, Steps
    <3>2. call' = [call EXCEPT ![t] = c]
      BY <1>2, <1>5 DEF Types
    <3>3. QED
      BY <1>2, <3>1, <3>2 DEF Types, Call
  <2>2. Types'
    BY <1>1, <1>2, <1>3, <1>5, <2>1, NothingTypes DEF Types
  <2>3. Seen(t)'
    BY <1>1, <1>2, <2>1, SameSeen DEF Thread, InCall
  <2>4. Registered(t)'
    <3>1. DOMAIN handle_' = {} /\ handle_' # Absent
      BY <1>5, NothingTypes DEF Nothing
    <3>2. call[t].times # Absent =>
            /\ DOMAIN call[t].times = call[t].listing
            /\ \A d \in DOMAIN call[t].times : call[t].times[d] <= files[d].mtime
      BY <1>1, <1>2 DEF Thread, Taken, TakenFrom, Stating
    <3>3. QED
      BY <1>1, <2>1, <3>1, <3>2 DEF Registered
  <2>5. Thread(t)'
    BY <2>1, <2>3, <2>4 DEF Thread, KnownBefore, Taken, Leased, Stating, At
  <2>6. QED
    BY <1>1, <1>2, <1>3, <1>5, <2>1, <2>2, <2>5, ActingThread
<1>6. QED
  BY <1>4, <1>5 DEF Reset

LEMMA RegisterPreserves ==
  ASSUME IInv, NEW t \in Loaders, Register(t)
  PROVE  IInv'
<1>1. call[t].step = "registering" /\ UNCHANGED <<files, known_, seen>>
  BY DEF Register, At, disk
<1>2. /\ holder = t /\ Types /\ Thread(t) /\ call[t] \in Call
      /\ call[t].fresh \in Times /\ call[t].listing \subseteq Databases
  BY <1>1, Holding
<1>4. known_ = Absent /\ handle_ # Absent /\ handle_ \in Handles
  BY <1>1, <1>2 DEF Thread, Registered, Types
<1>5. Known' /\ known_' \in Times
  BY <1>1, <1>4 DEF Known, Times
<1>6. CASE handle_' = Absent /\ GiveUp(t)
  BY <1>1, <1>2, <1>5, <1>6, GiveUpPreserves DEF Handles
<1>7. ASSUME NEW d \in call[t].left,
             files[d].there,
             handle_' = Put(handle_, d, [content |-> files[d].content, mtime |-> files[d].mtime]),
             call' = [call EXCEPT ![t].left = @ \ {d}],
             UNCHANGED holder
      PROVE  IInv'
  <2> DEFINE entry == [content |-> files[d].content, mtime |-> files[d].mtime]
  <2>1. d \in call[t].listing /\ d \in Databases /\ call[t].left \subseteq call[t].listing
        /\ DOMAIN handle_ = call[t].listing \ call[t].left
    BY <1>1, <1>2 DEF Thread, Registered
  <2>2. entry \in Entry /\ entry.mtime = files[d].mtime /\ files[d].mtime \in Nat
    BY <1>2, <2>1 DEF Types, Directory, File, Entry
  <2> HIDE DEF entry
  <2>3. /\ handle_' \in Handles /\ handle_' # Absent
        /\ DOMAIN handle_' = DOMAIN handle_ \cup {d}
        /\ handle_'[d] = entry
        /\ \A x \in DOMAIN handle_ : x # d => handle_'[x] = handle_[x]
    <3>1. handle_' = Put(handle_, d, entry)
      BY <1>7 DEF entry
    <3>2. /\ Put(handle_, d, entry) \in Handles /\ Put(handle_, d, entry) # Absent
          /\ DOMAIN Put(handle_, d, entry) = DOMAIN handle_ \cup {d}
          /\ Put(handle_, d, entry)[d] = entry
          /\ \A x \in DOMAIN handle_ : x # d => Put(handle_, d, entry)[x] = handle_[x]
      BY <1>4, <2>1, <2>2, PutEntry, Zenon
    <3>3. QED
      BY <3>1, <3>2, Zenon
  <2>4. /\ call'[t] \in Call /\ call' \in [Loaders -> Call]
        /\ call'[t].left = call[t].left \ {d} /\ call'[t].listing = call[t].listing
        /\ call'[t].step = "registering" /\ call'[t].fresh = call[t].fresh
        /\ \A u \in Loaders \ {t} : call'[u] = call[u]
    BY <1>1, <1>2, <1>7, <2>1 DEF Types, Call
  <2>5. Types'
    BY <1>1, <1>2, <1>5, <1>7, <2>3, <2>4 DEF Types
  <2>6. Seen(t)'
    BY <1>1, <1>2, <2>4, SameSeen DEF Thread, InCall
  <2>7. Registered(t)'
    <3>1. \A x \in DOMAIN handle_' : /\ handle_'[x].mtime <= files[x].mtime
                                     /\ \E directory \in seen[t] : Matches(directory, x)'
      <4> TAKE x \in DOMAIN handle_'
      <4>1. CASE x = d
        <5>1. files \in seen[t]
          BY <1>1, <1>2 DEF Thread, Seen, InCall
        <5>2. Matches(files, d)'
          BY <1>1, <1>7, <2>2, <2>3 DEF Matches
        <5>3. \E directory \in seen[t] : Matches(directory, d)'
          BY <1>1, <1>7, <2>2, <2>3, <5>1 DEF Matches
        <5>4. QED
          BY <2>2, <2>3, <4>1, <5>3
      <4>2. CASE x # d
        <5>1. x \in DOMAIN handle_ /\ handle_'[x] = handle_[x]
          BY <2>3, <4>2
        <5>2. QED
          BY <1>1, <1>2, <5>1 DEF Thread, Registered, Matches
      <4>3. QED
        BY <4>1, <4>2
    <3>2. call[t].fresh # Absent =>
            /\ DOMAIN call[t].fresh = call[t].listing
            /\ \A x \in DOMAIN call[t].fresh : call[t].fresh[x] <= files[x].mtime
      BY <1>1, <1>2 DEF Thread, Registered
    <3>3. call[t].fresh # Absent => \A x \in DOMAIN handle_' : call[t].fresh[x] <= handle_'[x].mtime
      <4> SUFFICES ASSUME call[t].fresh # Absent, NEW x \in DOMAIN handle_'
                   PROVE  call[t].fresh[x] <= handle_'[x].mtime
        OBVIOUS
      <4>1. CASE x = d
        BY <2>1, <2>2, <2>3, <3>2, <4>1
      <4>2. CASE x # d
        BY <1>1, <1>2, <2>3, <4>2 DEF Thread, Registered
      <4>3. QED
        BY <4>1, <4>2
    <3>4. DOMAIN handle_' = call[t].listing \ (call[t].left \ {d})
      BY <2>1, <2>3
    <3>5. QED
      BY <1>1, <1>4, <2>1, <2>3, <2>4, <3>1, <3>2, <3>3, <3>4 DEF Registered
  <2>8. Thread(t)'
    BY <2>4, <2>6, <2>7 DEF Thread, KnownBefore, Taken, Leased, Stating, At
  <2>9. QED
    BY <1>1, <1>2, <1>5, <1>7, <2>4, <2>5, <2>8, ActingThread
<1>8. QED
  BY <1>6, <1>7 DEF Register

Relisted(c, listing, times) ==
  [c EXCEPT !.step = "restat", !.listing = listing, !.left = listing, !.times = times]

LEMMA RelistPreserves ==
  ASSUME IInv, NEW t \in Loaders, Relist(t)
  PROVE  IInv'
<1>1. /\ call[t].step = "registering" /\ call[t].left = {}
      /\ UNCHANGED <<files, holder, handle_, known_, seen>>
  BY DEF Relist, At, disk
<1>2. /\ holder = t /\ Types /\ Known /\ Thread(t) /\ call[t] \in Call
  BY <1>1, Holding
<1>3. Registered(t) /\ Seen(t)
  BY <1>2 DEF Thread
<1>4. Known'
  BY <1>1, <1>2, KnownUnchanged
<1>5. ASSUME NEW listing \in SUBSET Databases, NEW times \in Times,
             call' = [call EXCEPT ![t] = Relisted(call[t], listing, times)],
             \A d \in listing : times # Absent,
             times # Absent => times = Nothing /\ listing = Listed
      PROVE  IInv'
  <2>1. /\ call'[t] \in Call /\ call' \in [Loaders -> Call]
        /\ call'[t].step = "restat" /\ call'[t].listing = listing /\ call'[t].left = listing
        /\ call'[t].times = times /\ call'[t].fresh = call[t].fresh
        /\ \A u \in Loaders \ {t} : call'[u] = call[u]
    <3>1. Relisted(call[t], listing, times) \in Call
      BY <1>2 DEF Call, Steps, Relisted
    <3>2. QED
      BY <1>2, <1>5, <3>1 DEF Types, Call, Relisted
  <2>2. Types'
    BY <1>1, <1>2, <2>1 DEF Types
  <2>3. Seen(t)'
    BY <1>1, <1>3, <2>1, SameSeen DEF InCall
  <2>4. Taken(t)'
    <3>1. CASE times = Absent
      BY <1>5, <2>1, <3>1 DEF Taken
    <3>2. CASE times # Absent
      <4>1. files \in seen[t]
        BY <1>1, <1>3 DEF Seen, InCall
      <4>2. TakenFrom(files, call[t])'
        <5>1. DOMAIN Nothing = {}
          BY DEF Nothing
        <5>2. \A d \in DOMAIN handle_ : handle_[d].mtime <= files[d].mtime
          BY <1>1, <1>3 DEF Registered
        <5>3. QED
          BY <1>1, <1>5, <2>1, <3>2, <5>1, <5>2 DEF TakenFrom, ListedIn, Listed
      <4>3. QED
        BY <1>1, <1>5, <2>1, <3>2, <4>1, <4>2, NothingTypes DEF Taken
    <3>3. QED
      BY <1>5, <3>1, <3>2
  <2>5. Registered(t)'
    <3>1. /\ known_ = Absent /\ handle_ # Absent
          /\ DOMAIN handle_ = call[t].listing
          /\ \A d \in DOMAIN handle_ : handle_[d].mtime <= files[d].mtime
          /\ \A d \in DOMAIN handle_ : \E directory \in seen[t] : Matches(directory, d)
          /\ call[t].fresh # Absent =>
               /\ DOMAIN call[t].fresh = DOMAIN handle_
               /\ \A d \in DOMAIN call[t].fresh : call[t].fresh[d] <= files[d].mtime
               /\ \A d \in DOMAIN handle_ : call[t].fresh[d] <= handle_[d].mtime
      BY <1>1, <1>3 DEF Registered
    <3>2. QED
      BY <1>1, <2>1, <3>1 DEF Registered, Matches
  <2>6. Thread(t)'
    BY <2>1, <2>3, <2>4, <2>5 DEF Thread, KnownBefore, Leased, At
  <2>7. QED
    BY <1>1, <1>2, <1>4, <2>1, <2>2, <2>6, ActingThread
<1>6. CASE call' = [call EXCEPT ![t].step = "restat", ![t].listing = Listed, ![t].left = Listed, ![t].times = Nothing]
  <2>1. Listed \in SUBSET Databases /\ Nothing \in Times /\ Nothing # Absent
    BY NothingTypes DEF Listed
  <2>2. call' = [call EXCEPT ![t] = Relisted(call[t], Listed, Nothing)]
    BY <1>2, <1>6 DEF Types, Relisted
  <2>3. QED
    BY <1>5, <2>1, <2>2
<1>7. CASE call' = [call EXCEPT ![t].step = "restat", ![t].listing = {}, ![t].times = Absent]
  <2>1. Absent \in Times
    BY DEF Times
  <2> DEFINE none == {}
  <2>2. call' = [call EXCEPT ![t] = Relisted(call[t], none, Absent)]
    BY <1>1, <1>2, <1>7 DEF Types, Call, Relisted
  <2>3. none \in SUBSET Databases /\ \A d \in none : FALSE
    OBVIOUS
  <2> HIDE DEF none
  <2>4. QED
    BY <1>5, <2>1, <2>2, <2>3
<1>8. QED
  BY <1>6, <1>7 DEF Relist

\* Equal times before and after the registration: what libalpm read bears the times of the second
\* listing, since it was read between the two.
LEMMA ConcludePreserves ==
  ASSUME IInv, NEW t \in Loaders, Conclude(t)
  PROVE  IInv'
<1>1. /\ call[t].step = "restat" /\ call[t].left = {} /\ UNCHANGED <<files, holder, handle_, seen>>
      /\ known_' = IF Settled(t) THEN call[t].times ELSE known_
      /\ call' = [call EXCEPT ![t].step = "leased"]
  BY DEF Conclude, At, disk
<1>2. /\ holder = t /\ Types /\ Known /\ Thread(t) /\ call[t] \in Call /\ call[t].times \in Times
      /\ call[t].fresh \in Times
  BY <1>1, Holding
<1>3. /\ call'[t] \in Call /\ call'[t].step = "leased" /\ call' \in [Loaders -> Call]
      /\ \A u \in Loaders \ {t} : call'[u] = call[u]
  BY <1>1, <1>2 DEF Types, Call, Steps
<1>4. Types'
  BY <1>1, <1>2, <1>3 DEF Types
<1>5. /\ known_ = Absent /\ handle_ # Absent
      /\ \A d \in DOMAIN handle_ : \E directory \in seen[t] : Matches(directory, d)
  BY <1>1, <1>2 DEF Thread, Registered
<1>6. Seen(t)'
  BY <1>1, <1>2, <1>3, SameSeen DEF Thread, InCall
<1>7. CASE ~Settled(t)
  <2>1. known_' = Absent
    BY <1>1, <1>5, <1>7
  <2>2. Known'
    BY <2>1 DEF Known
  <2>3. Leased(t)'
    BY <1>1, <1>5, <2>1 DEF Leased, Matches
  <2>4. Thread(t)'
    BY <1>3, <1>6, <2>3 DEF Thread, KnownBefore, Taken, Registered, Stating
  <2>5. QED
    BY <1>1, <1>2, <1>3, <1>4, <2>2, <2>4, ActingThread
<1>8. CASE Settled(t)
  <2>1. known_' = call[t].times /\ call[t].times # Absent /\ call[t].fresh # Absent /\ call[t].times = call[t].fresh
    BY <1>1, <1>8 DEF Settled
  <2> PICK directory \in seen[t] : TakenFrom(directory, call[t])
    BY <1>1, <1>2, <2>1 DEF Thread, Taken, Stating
  <2> DEFINE times == call[t].times
  <2>2. /\ DOMAIN times = ListedIn(directory) /\ DOMAIN times = DOMAIN handle_ /\ DOMAIN times \subseteq Databases
        /\ \A d \in DOMAIN times : times[d] \in Nat
    BY <1>1, <1>2, <2>1, TimesShape DEF TakenFrom, Thread, Registered
  <2>3. \A d \in Databases : directory[d].mtime \in Nat /\ files[d].mtime \in Nat
    BY <1>2 DEF Types, Directory, File
  <2>4. \A d \in DOMAIN handle_ : handle_[d].mtime \in Nat
    BY <1>2, <1>5, HandleShape DEF Types, Entry
  <2>5. \A d \in DOMAIN handle_ :
          /\ times[d] <= handle_[d].mtime /\ handle_[d].mtime <= directory[d].mtime
          /\ directory[d].mtime <= times[d] /\ times[d] <= files[d].mtime
    BY <1>1, <1>2, <2>1, <2>2 DEF TakenFrom, Thread, Registered
  <2> HIDE DEF times
  <2>6. \A d \in DOMAIN handle_ :
          directory[d].there /\ handle_[d].mtime = directory[d].mtime /\ handle_[d].mtime = times[d]
    BY <2>2, <2>3, <2>4, <2>5 DEF ListedIn
  <2>7. Known'
    BY <1>1, <1>5, <2>1, <2>2, <2>5, <2>6 DEF Known, times
  <2>8. Leased(t)'
    <3>1. DOMAIN handle_ = {d \in Databases : directory[d].there}
      BY <2>2 DEF ListedIn
    <3>2. \A d \in DOMAIN handle_ : Matches(directory, d)'
      BY <1>1, <2>6 DEF Matches
    <3>3. QED
      BY <1>1, <1>5, <3>1, <3>2 DEF Leased, Matches
  <2>9. Thread(t)'
    BY <1>3, <1>6, <2>8 DEF Thread, KnownBefore, Taken, Registered, Stating
  <2>10. QED
    BY <1>1, <1>2, <1>3, <1>4, <2>7, <2>9, ActingThread
<1>9. QED
  BY <1>7, <1>8

LEMMA ReleasePreserves ==
  ASSUME IInv, NEW t \in Loaders, Release(t)
  PROVE  IInv'
<1>1. /\ call[t].step = "leased" /\ UNCHANGED <<files, handle_, known_>>
      /\ holder' = Absent /\ call' = [call EXCEPT ![t] = NoCall] /\ seen' = [seen EXCEPT ![t] = {}]
  BY DEF Release, At, disk, GiveUp
<1>2. holder = t /\ Types /\ Known
  BY <1>1, Holding
<1>3. /\ call' \in [Loaders -> Call] /\ call'[t].step = "idle" /\ seen'[t] = {}
      /\ \A u \in Loaders \ {t} : call'[u] = call[u] /\ seen'[u] = seen[u]
  BY <1>1, <1>2, NoCallType DEF Types
<1>4. Types'
  BY <1>1, <1>2, <1>3 DEF Types
<1>5. Known'
  BY <1>1, <1>2, KnownUnchanged
<1>6. Thread(t)'
  BY <1>3, IdleThread DEF Seen, InCall
<1>7. QED
  BY <1>1, <1>2, <1>3, <1>4, <1>5, <1>6, ActingThread

LEMMA StepPreserves == IInv /\ [CacheNext]_cacheVars => IInv'
<1> SUFFICES ASSUME IInv, [CacheNext]_cacheVars PROVE IInv'
  OBVIOUS
<1>1. CASE UNCHANGED cacheVars
  <2>1. Types' /\ Mutex' /\ Known'
    BY <1>1 DEF cacheVars, disk, IInv, Types, Mutex, Known, Active
  <2>2. ASSUME NEW t \in Loaders PROVE Thread(t)'
    <3>1. Seen(t)' /\ KnownBefore(t)'
      BY <1>1 DEF cacheVars, disk, IInv, Thread, Seen, KnownBefore, InCall
    <3>2. Taken(t)'
      BY <1>1 DEF cacheVars, disk, IInv, Thread, Taken, TakenFrom, Stating
    <3>3. Registered(t)'
      BY <1>1 DEF cacheVars, disk, IInv, Thread, Registered, Matches
    <3>4. Leased(t)'
      BY <1>1 DEF cacheVars, disk, IInv, Thread, Leased, At, Matches
    <3>5. QED
      BY <3>1, <3>2, <3>3, <3>4 DEF Thread
  <2>3. QED
    BY <2>1, <2>2 DEF IInv
<1>2. ASSUME NEW d \in Databases, Change(d) PROVE IInv'
  BY <1>2, ChangePreserves
<1>3. ASSUME NEW t \in Loaders,
             Enter(t) \/ List(t) \/ Stat(t) \/ Reuse(t) \/ Reset(t) \/ Register(t) \/ Relist(t) \/ Conclude(t) \/ Release(t)
      PROVE  IInv'
  BY <1>3, EnterPreserves, ListPreserves, StatPreserves, ReusePreserves, ResetPreserves, RegisterPreserves,
     RelistPreserves, ConcludePreserves, ReleasePreserves
<1>4. QED
  BY <1>1, <1>2, <1>3 DEF CacheNext

\* LeaseIsCurrent: whatever pacman does between the steps of connection(), the handle of a lease
\* holds databases that were on disk during the call, and the handle that is kept for later calls
\* holds them all as they were at one moment of it.
THEOREM LeasesAreCurrent == CacheSpec => []LeaseIsCurrent
<1>1. IInv => LeaseIsCurrent
  BY DEF IInv, Thread, Leased, LeaseIsCurrent
<1>2. QED
  BY <1>1, InitInv, StepPreserves, PTL DEF CacheSpec

\* No call has databases left that it has not listed, and no step counts a change beyond the bound.
LEMMA CacheTypesStep == IInv /\ CacheTypeOK /\ [CacheNext]_cacheVars => CacheTypeOK'
<1> SUFFICES ASSUME IInv, CacheTypeOK, [CacheNext]_cacheVars PROVE CacheTypeOK'
  OBVIOUS
<1>1. Types /\ Types'
  BY StepPreserves DEF IInv
<1>2. /\ files' \in [Databases -> File] /\ holder' \in Loaders \cup {Absent}
      /\ \A t \in Loaders : call'[t].step \in Steps /\ call'[t].listing \subseteq Databases
  BY <1>1 DEF Types, Directory, Call
<1>3. replaced' \in 0..MaxReplaced
  <2>1. ASSUME NEW d \in Databases, Change(d) PROVE replaced' \in 0..MaxReplaced
    BY <2>1, CacheAssumption DEF Change, CacheTypeOK
  <2>2. CASE replaced' = replaced
    BY <2>2 DEF CacheTypeOK
  <2>3. QED
    BY <2>1, <2>2 DEF CacheNext, cacheVars, disk, Enter, List, Stat, Reuse, Reset, Register, Relist, Conclude, Release
<1>4. ASSUME NEW u \in Loaders PROVE call'[u].left \subseteq call'[u].listing
  <2>1. call[u].left \subseteq call[u].listing /\ call \in [Loaders -> Call] /\ call[u] \in Call
    BY <1>1 DEF CacheTypeOK, Types
  <2>2. CASE call'[u] = call[u]
    BY <2>1, <2>2
  <2>3. ASSUME NEW t \in Loaders, GiveUp(t) PROVE call'[u] \in {call[u], NoCall}
    BY <2>1, <2>3 DEF GiveUp
  <2>4. NoCall.left \subseteq NoCall.listing
    BY DEF NoCall
  <2>5. ASSUME NEW t \in Loaders, Enter(t) \/ Reuse(t) \/ Conclude(t)
        PROVE  call'[u].left \subseteq call'[u].listing
    BY <2>1, <2>5 DEF Enter, Reuse, Conclude, Call
  <2>6. ASSUME NEW t \in Loaders, List(t) \/ Relist(t) PROVE call'[u].left \subseteq call'[u].listing
    BY <2>1, <2>3, <2>4, <2>6 DEF List, Relist, Call
  <2>7. ASSUME NEW t \in Loaders, Stat(t) PROVE call'[u].left \subseteq call'[u].listing
    BY <2>1, <2>7 DEF Stat, Call
  <2>8. ASSUME NEW t \in Loaders, Reset(t) \/ Register(t) PROVE call'[u].left \subseteq call'[u].listing
    <3>1. CASE GiveUp(t)
      BY <2>1, <2>3, <2>4, <3>1
    <3>2. CASE call' = [call EXCEPT ![t].step = "registering", ![t].left = call[t].listing, ![t].fresh = call[t].times]
      BY <2>1, <3>2 DEF Call
    <3>3. ASSUME NEW d, call' = [call EXCEPT ![t].left = @ \ {d}] PROVE call'[u].left \subseteq call'[u].listing
      BY <2>1, <3>3 DEF Call
    <3>4. QED
      BY <2>8, <3>1, <3>2, <3>3 DEF Reset, Register
  <2>9. ASSUME NEW t \in Loaders, Release(t) PROVE call'[u].left \subseteq call'[u].listing
    BY <2>1, <2>3, <2>4, <2>9 DEF Release
  <2>10. ASSUME NEW d \in Databases, Change(d) PROVE call'[u].left \subseteq call'[u].listing
    BY <2>2, <2>10 DEF Change
  <2>11. CASE UNCHANGED cacheVars
    BY <2>2, <2>11 DEF cacheVars
  <2>12. QED
    BY <2>5, <2>6, <2>7, <2>8, <2>9, <2>10, <2>11 DEF CacheNext
<1>5. QED
  BY <1>2, <1>3, <1>4 DEF CacheTypeOK

\* The handle cache keeps its types, for any number of databases, threads and changes.
THEOREM CacheTypes == CacheSpec => []CacheTypeOK
<1>1. CacheInit => CacheTypeOK
  BY CacheAssumption, NoCallType DEF CacheInit, CacheTypeOK, File, NoCall, Steps
<1>2. QED
  BY <1>1, InitInv, StepPreserves, CacheTypesStep, PTL DEF CacheSpec

-------------------------------------------------------------------------------
(* The delays.  The invariant is that of the bisection: low fits, and what fits is not above high;
   it is complete when they meet. *)

Searching == step \in {"resolving", "delaying"}

\* Between the bounds of the bisection lies the largest interval that fits.
Bracketed ==
  Searching => /\ low <= high /\ high <= Limit /\ Fits(low)
               /\ \A minutes \in 0..Limit : Fits(minutes) => minutes <= high

IntervalInv ==
  /\ IntervalTypeOK
  /\ Bracketed
  /\ delay \in 0..IntMax
  /\ step \in {"load", "resolving"} => policy.interval = configured
  /\ step = "resolving" => Usable(Raw)
  /\ ServesRequest

LEMMA LimitIsNat == Limit \in Nat /\ Limit * MinuteMs <= IntMax
  BY IntMaxAssumption DEF Limit, MinuteMs

LEMMA JitterBounds ==
  ASSUME IntervalTypeOK, NEW minutes \in Nat
  PROVE  Jitter(minutes) \in 0..minutes
  BY DEF IntervalTypeOK, Jitter, Lesser, Greater

\* What fits stays below the limit, and less fits if more does.
LEMMA FitsIsMonotone ==
  ASSUME IntervalTypeOK, NEW more \in Nat, NEW less \in 0..more, Fits(more)
  PROVE  Fits(less)
  <1> policy.maxJitter \in Int  BY DEF IntervalTypeOK
  <1> less \div 10 <= more \div 10  OBVIOUS
  <1> Jitter(less) <= Jitter(more)  BY DEF Jitter, Lesser, Greater
  <1> QED  BY LimitIsNat, JitterBounds DEF Fits

LEMMA ZeroFits == ASSUME IntervalTypeOK PROVE Fits(0)
  <1> 0 \div 10 = 0  OBVIOUS
  <1> QED  BY LimitIsNat, JitterBounds DEF Fits

LEMMA InitIsBracketed == IntervalInit => IntervalInv
  <1> SUFFICES ASSUME IntervalInit PROVE IntervalInv  OBVIOUS
  <1>1. IntervalTypeOK  BY LimitIsNat, PolicyAssumption DEF IntervalInit, IntervalTypeOK
  <1>2. delay \in 0..IntMax  BY IntMaxAssumption DEF IntervalInit
  <1> QED  BY <1>1, <1>2 DEF IntervalInit, IntervalInv, Bracketed, Searching, ServesRequest

\* A search begins with all that a timer can wait.
LEMMA SearchBrackets ==
  ASSUME IntervalTypeOK, NEW purpose \in {"resolving", "delaying"}, Search(purpose), policy' = policy
  PROVE  Bracketed' /\ low' \in Nat /\ high' \in Nat
  <1>1. Fits(0)' = Fits(0) /\ Limit' = Limit  BY DEF Fits, Jitter, Limit, MinuteMs, Lesser, Greater
  <1> QED  BY <1>1, ZeroFits, LimitIsNat DEF Search, Bracketed, Searching, Fits, Jitter, Lesser, Greater

LEMMA BisectNarrows ==
  ASSUME IntervalInv, Bisect
  PROVE  Bracketed' /\ low' \in Nat /\ high' \in Nat
  <1> USE DEF IntervalInv, IntervalTypeOK, Bisect
  <1>1. Middle \in low + 1..high  BY DEF Middle
  <1>2. low <= high /\ high <= Limit /\ \A minutes \in 0..Limit : Fits(minutes) => minutes <= high
    BY DEF Bracketed, Searching
  <1>3. \A minutes \in Nat : Fits(minutes)' = Fits(minutes)
    BY DEF Fits, Jitter, Lesser, Greater, Limit, MinuteMs
  <1>4. CASE Fits(Middle)  BY <1>1, <1>2, <1>3, <1>4, LimitIsNat DEF Bracketed, Searching
  <1>5. CASE ~Fits(Middle)
    <2>1. \A minutes \in 0..Limit : Fits(minutes) => minutes < Middle  BY <1>1, <1>5, FitsIsMonotone
    <2>2. high' = Middle - 1 /\ low' = low /\ step' = step  BY <1>5
    <2>3. Fits(low)  BY DEF Bracketed, Searching
    <2> QED  BY <1>1, <1>2, <1>3, <2>1, <2>2, <2>3, LimitIsNat DEF Bracketed, Searching
  <1> QED  BY <1>4, <1>5

\* When the bounds meet, they are the largest interval that fits.
LEMMA SearchEnds ==
  ASSUME IntervalInv, Searching, low >= high
  PROVE  low \in 0..Limit /\ IsLargest(low)
  BY LimitIsNat DEF IntervalInv, IntervalTypeOK, Bracketed, IsLargest

LEMMA ResolveServes ==
  ASSUME IntervalInv, Resolve
  PROVE  ServesRequest' /\ policy' \in [interval : Int, minInterval : Int, maxJitter : Int, backoff : Seq(Int)]
  <1> USE DEF IntervalInv, IntervalTypeOK, Resolve
  <1>1. Usable(Raw) /\ Raw \in Int /\ Raw > 0  BY DEF Usable
  <1>2. low \in 0..Limit /\ IsLargest(low)  BY SearchEnds DEF Searching
  <1> DEFINE interval == Resolved(Raw, low)
  <1>3. interval \in Int /\ interval <= low
    BY <1>1, <1>2, LimitIsNat DEF Resolved, Lesser
  <1>4. policy' = [policy EXCEPT !.interval = interval] /\ Raw' = Raw /\ step' = "armed"  BY DEF Raw
  <1>5. policy' \in [interval : Int, minInterval : Int, maxJitter : Int, backoff : Seq(Int)]  BY <1>3, <1>4
  <1>6. policy'.interval = interval /\ policy'.maxJitter = policy.maxJitter /\ policy'.minInterval = policy.minInterval
    BY <1>4
  <1>7. \A minutes \in Int : Fits(minutes)' = Fits(minutes)
    BY <1>6 DEF Fits, Jitter, Lesser, Greater, Limit, MinuteMs
  <1>8. Fits(interval)
    <2>1. CASE interval \in Nat  BY <1>2, <1>3, <2>1, FitsIsMonotone DEF IsLargest
    <2>2. CASE interval < 0  BY <1>1, <1>2, <2>2, LimitIsNat DEF Resolved, Lesser
    <2> QED  BY <1>3, <2>1, <2>2
  <1>9. IsLargest(low)'
    BY <1>2, <1>7, LimitIsNat DEF IsLargest, Limit, MinuteMs
  <1>10. interval # Raw => \/ interval > Raw /\ interval <= policy.minInterval
                           \/ interval = low
    BY <1>1, <1>2, <1>3, LimitIsNat DEF Resolved, Lesser
  <1>11. interval >= policy.minInterval \/ interval = low
    BY <1>1, <1>2, <1>3, LimitIsNat DEF Resolved, Lesser
  <1>12. (interval = low) => IsLargest(policy.interval)'  BY <1>9, <1>6 DEF IsLargest, Fits, Jitter
  <1>13. Usable(Raw)'  BY <1>1, <1>4 DEF Usable
  <1>14. Fits(policy.interval)'  BY <1>3, <1>6, <1>7, <1>8 DEF Fits, Jitter
  <1> QED  BY <1>1, <1>4, <1>5, <1>6, <1>10, <1>11, <1>12, <1>13, <1>14 DEF ServesRequest

LEMMA JitteredFits ==
  ASSUME IntervalInv, Jittered
  PROVE  delay' \in 0..IntMax
  <1> USE DEF IntervalInv, IntervalTypeOK, Jittered
  <1>1. low \in 0..Limit /\ Fits(low)  BY SearchEnds DEF Searching, IsLargest
  <1> DEFINE minutes == Clamp(policy.interval, 0, low)
             bound   == Jitter(minutes) * MinuteMs
  <1>2. minutes \in 0..low  BY <1>1, LimitIsNat DEF Clamp
  <1>3. Fits(minutes) /\ Jitter(minutes) \in 0..minutes  BY <1>1, <1>2, LimitIsNat, FitsIsMonotone, JitterBounds
  <1>4. PICK offset \in Offsets \cup {0} : delay' = minutes * MinuteMs + Clamp(offset, -bound, bound)  OBVIOUS
  <1>5. bound \in Nat /\ offset \in Int  BY <1>3, ValueAssumption DEF MinuteMs
  <1> HIDE DEF bound, minutes
  <1>6. Clamp(offset, -bound, bound) \in -bound..bound  BY <1>5 DEF Clamp
  <1>7. bound = Jitter(minutes) * 60000 /\ MinuteMs = 60000  BY DEF bound, MinuteMs
  <1>8. minutes + Jitter(minutes) <= Limit  BY <1>3 DEF Fits
  <1>9. delay' >= 0 /\ delay' <= (minutes + Jitter(minutes)) * 60000
    <2>1. \A m, j \in Nat : \A x \in -(j * 60000)..(j * 60000) :
            j <= m => m * 60000 + x >= 0 /\ m * 60000 + x <= (m + j) * 60000
      OBVIOUS
    <2>2. minutes \in Nat /\ Jitter(minutes) \in Nat /\ Jitter(minutes) <= minutes  BY <1>1, <1>2, <1>3, LimitIsNat
    <2>3. Clamp(offset, -bound, bound) \in -(Jitter(minutes) * 60000)..(Jitter(minutes) * 60000)  BY <1>6, <1>7
    <2>4. delay' = minutes * 60000 + Clamp(offset, -bound, bound)  BY <1>4, <1>7
    <2> QED  BY <2>1, <2>2, <2>3, <2>4
  <1>10. (minutes + Jitter(minutes)) * 60000 <= Limit * 60000  BY <1>1, <1>2, <1>3, <1>8, LimitIsNat
  <1>11. delay' \in Int  BY <1>1, <1>2, <1>4, <1>6, <1>5, <1>7, LimitIsNat
  <1> QED  BY <1>1, <1>2, <1>3, <1>7, <1>9, <1>10, <1>11, LimitIsNat, IntMaxAssumption

\* Steps that leave policy, values and the answer to the request alone.
LEMMA ServedStays ==
  ASSUME ServesRequest, step \notin {"load", "resolving"}, UNCHANGED <<policy, cli, document, configured>>
  PROVE  ServesRequest'
  BY DEF ServesRequest, Usable, Raw, IsLargest, Fits, Jitter, Lesser, Greater, Limit, MinuteMs

LEMMA StepKeepsBracketed == IntervalInv /\ [IntervalNext]_intervalVars => IntervalInv'
  <1> SUFFICES ASSUME IntervalInv, [IntervalNext]_intervalVars PROVE IntervalInv'  OBVIOUS
  <1>t. IntervalTypeOK  BY DEF IntervalInv
  <1>1. CASE Load
    <2>1. CASE Usable(Raw)
      <3>1. Search("resolving") /\ policy' = policy  BY <1>1, <2>1 DEF Load
      <3>2. Bracketed' /\ low' \in Nat /\ high' \in Nat  BY <1>t, <3>1, SearchBrackets
      <3>3. Usable(Raw)'  BY <1>1, <2>1 DEF Load, Usable, Raw
      <3> QED  BY <1>1, <2>1, <3>1, <3>2, <3>3 DEF Load, Search, IntervalInv, IntervalTypeOK, ServesRequest
    <2>2. CASE ~Usable(Raw)
      <3>1. ~Usable(Raw)' /\ step' = "armed"  BY <1>1, <2>2 DEF Load, Usable, Raw
      <3> QED  BY <1>1, <2>2, <3>1 DEF Load, IntervalInv, IntervalTypeOK, ServesRequest, Bracketed, Searching
    <2> QED  BY <2>1, <2>2
  <1>2. CASE Bisect
    <2>1. Bracketed' /\ low' \in Nat /\ high' \in Nat  BY <1>2, BisectNarrows
    <2>2. CASE step = "resolving"
      BY <1>2, <2>1, <2>2 DEF Bisect, IntervalInv, IntervalTypeOK, ServesRequest, Usable, Raw
    <2>3. CASE step = "delaying"
      <3>1. ServesRequest'  BY <1>2, <2>3, ServedStays DEF Bisect, IntervalInv
      <3> QED  BY <1>2, <2>1, <2>3, <3>1 DEF Bisect, IntervalInv, IntervalTypeOK
    <2> QED  BY <1>2, <2>2, <2>3 DEF Bisect
  <1>3. CASE Resolve
    BY <1>3, ResolveServes DEF Resolve, IntervalInv, IntervalTypeOK, Bracketed, Searching
  <1>4. CASE BackOff
    <2>1. ServesRequest'  BY <1>4, ServedStays DEF BackOff, IntervalInv
    <2>2. policy.backoff[failures] \in Int  BY <1>4, <1>t DEF BackOff, BacksOff, IntervalTypeOK
    <2>3. Clamp(policy.backoff[failures], 0, Limit) \in 0..Limit  BY <2>2, LimitIsNat DEF Clamp
    <2>4. \A minutes \in 0..Limit : minutes * 60000 \in 0..IntMax
      BY LimitIsNat, IntMaxAssumption DEF MinuteMs
    <2>5. delay' \in 0..IntMax  BY <1>4, <2>3, <2>4 DEF BackOff, MinuteMs
    <2> QED  BY <1>4, <2>1, <2>5, IntMaxAssumption DEF BackOff, IntervalInv, IntervalTypeOK, Bracketed, Searching
  <1>5. CASE Measure
    <2>1. ServesRequest'  BY <1>5, ServedStays DEF Measure, IntervalInv
    <2>2. Bracketed' /\ low' \in Nat /\ high' \in Nat  BY <1>5, <1>t, SearchBrackets DEF Measure
    <2> QED  BY <1>5, <2>1, <2>2 DEF Measure, Search, IntervalInv, IntervalTypeOK
  <1>6. CASE Jittered
    <2>1. ServesRequest'  BY <1>6, ServedStays DEF Jittered, IntervalInv
    <2>2. delay' \in 0..IntMax  BY <1>6, JitteredFits
    <2> QED  BY <1>6, <2>1, <2>2, IntMaxAssumption DEF Jittered, IntervalInv, IntervalTypeOK, Bracketed, Searching
  <1>7. CASE Checked
    <2>1. ServesRequest'  BY <1>7, ServedStays DEF Checked, IntervalInv
    <2> QED  BY <1>7, <2>1 DEF Checked, IntervalInv, IntervalTypeOK, Bracketed, Searching
  <1>8. CASE UNCHANGED intervalVars
    <2>1. Bracketed'  BY <1>8 DEF intervalVars, IntervalInv, Bracketed, Searching, Fits, Jitter, Lesser, Greater, Limit, MinuteMs
    <2>2. ServesRequest'
      BY <1>8 DEF intervalVars, IntervalInv, ServesRequest, Usable, Raw, IsLargest, Fits, Jitter, Lesser, Greater, Limit, MinuteMs
    <2> QED  BY <1>8, <2>1, <2>2 DEF intervalVars, IntervalInv, IntervalTypeOK, Usable, Raw
  <1> QED  BY <1>1, <1>2, <1>3, <1>4, <1>5, <1>6, <1>7, <1>8 DEF IntervalNext

\* Whatever is configured and whatever the policy says: every delay can be waited, and the interval
\* is the one asked for or the nearest possible (maximumInterval, resolveCheckInterval and
\* intervalWithJitter).
THEOREM DelaysFit == IntervalSpec => []DelayFits
  <1>1. IntervalInv => DelayFits  BY DEF IntervalInv, DelayFits, FitsTimer
  <1> QED  BY <1>1, InitIsBracketed, StepKeepsBracketed, PTL DEF IntervalSpec

\* The delays keep their types, for every policy and value.
THEOREM IntervalTypes == IntervalSpec => []IntervalTypeOK
<1>1. IntervalInv => IntervalTypeOK
  BY DEF IntervalInv
<1>2. QED
  BY <1>1, InitIsBracketed, StepKeepsBracketed, PTL DEF IntervalSpec
===============================================================================
