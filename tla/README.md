# holonight packages in TLA+

This directory is a verification project for holonight-pkg-manager: TLA+ modules
that model the parts of the program where something can go wrong between two
steps, TLC runs that check them on small instances, and theorems about them that
TLAPS proves for every value of the constants.

The program has two processes. `holonight-packaged` is a user service: it checks
the repositories for updates every few hours and on demand, saves what it found,
and keeps a count of pending updates on D-Bus. The GUI shows installed packages,
a search and an updates page, reads the service's files and listens to its
signals. Both read the databases of pacman, which changes them under nobody's
control. Everything they share, they share through files, D-Bus and `flock`; no
process waits for another one except on those locks.

1. [The system](#the-system) lists the parts, their state and their operations
2. [Models](#models) says which module stands for which code
3. [Runs](#runs) says what TLC checks, in which bounds, and what that shows
4. [Proofs](#proofs) says what is proved, from what and how
5. [Where code and documents disagree](#where-code-and-documents-disagree)
6. [Limits](#limits) and [what could follow](#what-could-follow)

## The system

| Part | State it keeps | Operations | Talks to |
|------|----------------|------------|----------|
| Online update check service (`application/update_check_service`) | the running check, the callers that wait for it, last snapshot and last error, times of the last attempts, the status on D-Bus | start, `CheckNow`, automatic tick, completion on the home thread, destructor | scheduler (calls both ways), checker (on a pool thread), snapshot store, history file |
| Check scheduler and policy (`update_check_scheduler`, `update_check_policy`, `update_check_runtime`, `PackagedConfig`) | one timer, the count of consecutive failures, the resolved interval | load the configured interval; arm from history, tick, completed; delay from interval, backoff and jitter | check service |
| Snapshot store and catalog lock (`persistence/json_update_snapshot_store`, `catalog_lock.h`) | `updates.json`, its sidecar `catalog-<hash>.json`, one `catalog-<uuid>/` directory for each generation of databases, `catalog.lock` | save, load, discard an invalid file, provenance, reclaim | checker (copies its databases), evaluations of both processes |
| Update evaluation (`alpm_update_source`, `repository_catalog`, `pending_update_computation`, `sync_database_files`) | nothing between calls; leases while it runs | load the pending updates from the saved or the system databases, load the saved snapshot | store, libalpm |
| Update monitor (`update_monitor`, `update_status`, `snapshot_selection`) | running, rerun and dirty flags, debounce timer, watched paths, adopted snapshot, status | start, `Refresh`, disk change, debounce, adopt a snapshot, evaluation done | evaluation thread, check service (adopts its snapshots), `QFileSystemWatcher` |
| Repository checker and scratch directories (`alpm_update_checker`, `scratch_dir`) | `check.lock`, the run directories below the scratch root | check: lock, sweep, copy, verify, refresh, compute, remove; give up after a bound | pacman's `db.lck` and databases, libalpm, the service's pool thread |
| Service process (`apps/packaged`) | configuration, the objects above | start, D-Bus methods `CheckNow`, `Refresh`, signals, termination on a signal | D-Bus, everything above |
| Updates page (`UpdatesModel`, `UpdateCheckModel`, `DBusUpdateCheckClient` and `SnapshotFileReader`) | rows, their source and time, loading and checking flags, availability of the service | reload, load finished, checked snapshot, invalidation, service appears, changes or disappears | D-Bus, snapshot file, an evaluation thread |
| Database handle cache (`alpm_connection_cache`) | one libalpm handle with its databases, the snapshot of names and times it was read under, a mutex | `connection()`, the end of a lease | pacman's databases; the threads of the Explore and the Installed page |
| Explore page (`ExploreModel`, `explore_search`, `alpm_explore_source`) | index, rows, text, debounce, selection, messages | load, type, select, reload | handle cache, a worker thread |
| Installed page (`InstalledPackagesModel`, `InstalledPackagesFilterModel`, `alpm_package_source`) | packages and their sums, filters and order, the active package | load, filter, sort, activate | handle cache, libalpm, a worker thread |
| pacman configuration (`pacman_repositories`, `pacman_config`) | none between calls | parse `pacman.conf` and its includes | files; the checker uses the result |
| Cache locations and formatting | none | paths, sizes, summaries | none |
| QML views | layout | bindings | the models |

### What is hard in it

* **Two kinds of check, one worker.** Automatic and on-demand checks share the
  running flag, the timer and the failure count. A tick that joins somebody
  else's check must still leave a tick ahead of it; a caller that joins must be
  answered once; a failed save must not be reported as a success.
* **Several files, one publication.** A checked snapshot is three things on disk:
  databases, sidecar and snapshot. The process may be killed between any two
  writes, a reader may come at any time, and the databases of earlier snapshots
  are removed.
* **A disk that changes while it is read.** A watch notices a change after it
  happened, or not at all if the file was replaced before the watch was renewed.
  An evaluation takes seconds and may have read the old half and the new half.
* **Work that cannot be cancelled.** A check that takes too long is given up by
  its caller, and goes on in a detached thread that holds the lock, removes
  directories and reads databases, beside the next check and beside checks of a
  second process, until the process ends.
* **Signals and replies.** The client of the service sets match rules, asks for the
  properties and hears of the service's start, end and changes, each in its own
  message, while the service may crash and start again. The service announces a
  snapshot over the bus that the page reads from a file.
* **Lists that are replaced under a selection.** Rows and details are read by one
  thread, filtered by another object and chosen by the user; what is selected must
  survive a load, a search and a filter, or be dropped.
* **Numbers of a timer.** A configured interval with its jitter must fit an `int` of
  milliseconds, and the largest that does depends on a jitter that depends on it.
* **Clocks.** The cooldown between two on-demand checks and the delay of the first
  automatic one are computed from wall-clock times, one of them read from a file.

### What makes each part correct

* Check service: an automatic check is always ahead while it is up; its delay is
  the one of the failures so far; who joined has a check to wait for and gets its
  answer; the snapshot it reports is the one on disk; the properties on D-Bus
  agree with each other; a check ends. `CheckPromise` states
  it without the timer, threads and files.
* Snapshot store: a reader finds a snapshot with its own databases or the one
  before with its own; nothing removes or changes databases in use; a save that
  fails or dies leaves the published pair alone; leases and saves do not block
  each other for ever.
* Update monitor: no change is lost; evaluations do not overlap and do not feed
  on themselves; a result torn between two states of the disk is never the last
  word; "ready" means the disk was read after its last known change.
* Checker: the directory of a check at work is touched by no one else; directories
  do not pile up; what libalpm is given is one state of the databases; callers
  are answered although libalpm may hang.
* Updates page: neither the list nor the reader of the snapshot file misses a
  change; rows are never shown as newer than they are; when the disk rests the
  page shows what is on it. Of the service it shows what it said last; after the
  service is gone nothing still says that it checks, and "Check now" comes back.
* Handle cache: a lease holds databases that were on disk during the call, and a
  handle that is kept holds them all as they were at one moment of it.
* Explore page: the rows are the best hits of the text in the index that is shown;
  selection, row and details are of one package in that index.
* Installed page: the active package is one of the rows shown and stays active while
  it is; the badges count what the tabs show.
* pacman configuration: what is returned is what the files say, read as one text.
* Policy arithmetic: every delay fits the timer, and the interval is the one that was
  asked for or the nearest that is allowed.

`PROJECT.json` lists each hazard at the line where it bites, with the properties
that would catch it.

## Models

| Module | Stands for | Composed with |
|--------|------------|---------------|
| `CheckPromise` | what the check service promises its callers and the disk: one check at a time, a success is saved before it is reported, a report that survives a restart | abstract |
| `UpdateCheckService` | `update_check_service.cpp` with `update_check_scheduler.cpp`, the backoff of `update_check_policy.cpp`, the start and the end of `apps/packaged/main.cpp` | refines `CheckPromise` |
| `CatalogRegister` | one atomic register that holds a snapshot with its databases | abstract |
| `CatalogStore` | `json_update_snapshot_store.cpp`, `catalog_lock.h` and the reading side of `alpm_update_source.cpp` in any number of processes | refines `CatalogRegister` |
| `UpdateMonitor` | `update_monitor.cpp`, `update_status.cpp`, `snapshot_selection.cpp` | |
| `ScratchCheck` | `alpm_update_checker.cpp` and `scratch_dir.cpp` in any number of processes, with pacman | |
| `UpdatesPage` | `UpdatesModel.cpp`, `SnapshotFileReader.cpp` and the connections of `UpdateCheckModel.cpp`, with `loadUpdates` | |
| `CheckClient` | `DBusUpdateCheckClient.cpp`, the reactions of `UpdateCheckModel.cpp`, `UpdateStatusService.cpp` and what the check service says over the bus | |
| `ConnectionCache` | `alpm_connection_cache.cpp` for any number of threads, with pacman | |
| `ExplorePage` | `ExploreModel.cpp`, `explore_search.cpp`, `loadPackages` of `alpm_explore_source.cpp`, `sync_database_files.cpp` | |
| `InstalledPage` | `InstalledPackagesModel.cpp`, `InstalledPackagesFilterModel.cpp`, `alpm_package_source.cpp`, `package_list_use_case.cpp`, `orphan_package_filter.cpp` | |
| `PacmanRepositories` | `pacman_repositories.cpp` | |
| `CheckInterval` | `update_check_policy.cpp` and `load()` of `PackagedConfig.cpp`, in milliseconds | |

`MC<Module>` gives a module small sets for TLC, `<Module>Proofs` holds its
theorems. `MCGuiParts` and `MCBackendParts` hold three modules each that share no
state: a behaviour chooses one of them at the start and the others do nothing, so
that one run checks all three without multiplying their states. Within a module an operator marked *Mutant* is a
plausible mistake in the definition below it; no behaviour uses it. It documents which mistake each
property would notice.

### UpdateCheckService

Everything on the home thread is one action from event to return: `RequestCheck`
is `requestCheck` and the `CheckNow` adaptor, `TimerFires` the scheduler's tick
with the request it makes, `Complete` is `onWorkerFinished` up to the first
callback, `AnswerJoined` one callback, which may request again while others wait.
`WorkerCheck` and `WorkerSave` are the two halves of the task on the pool thread:
the check returns a snapshot or an error, then the save writes it or fails.
`Start` is the construction and `start()`, which reads both files and arms the
first timer; `Quit` and `Exit` are the end of the loop and the destructor, which
waits for the pool thread; `Crash` loses everything but the files. The history is
written by `Complete`, after the snapshot, so that a crash leaves them apart.

The list of updates of a snapshot is its count; error texts are codes; times are
ticks of elapsed time (`steady`) and a wall clock that is `skew` ahead of it and
that `AdjustClock` may set within `Skews`. The timer is "off" or the name of the
delay it was started with, and fires at any moment after. An automatic check and
a tick in the same event loop turn come in either order.

### CatalogStore

The writer (`save` in the check service) is a machine of steps, each one a change
another process can see: wait for the exclusive lock, look whether the same bytes
are published (`Prepare`), copy the databases into a fresh generation
(`CopyDatabases`, which leaves `Partial` until `Describe`), write the sidecar,
rename the snapshot over the old one, remove the generations that are not in use
one by one, unlock. Any step may fail where the code returns an error (`FailSave`)
or be the last one of the process (`KillWriter`, which drops the lock). A reader
(`Evaluate`) is an evaluation of either process: it takes a shared lease if the
lock file exists, reads the snapshot, reads the sidecar under a second lease of
its own, selects the generation and ends with a copy of it. `DiscardInvalid` is
the removal of a file that does not parse.

Rows and databases are values: `Bytes` are snapshots, `Catalogs` contents of all
databases together. The lease is always taken by `save`: a save without
repositories takes no lock, but a check without repositories fails before it
saves. A file name with a fresh UUID is one of `Generations` never used before,
and the number of generations bounds the saves of a run. Left out: temporary
files of `QSaveFile` that a killed process leaves behind, and loss of power (what
is renamed is taken to be on disk). `Faults` says which calls may fail although
nothing is wrong with the arguments: "remove" and "open".

### UpdateMonitor

The disk is a version number, and an evaluation reads it twice: two equal numbers
are a consistent result, two different ones a torn one. `ChangeInPlace` changes a
file whose watch stays, `Replace` one whose watch is gone until it is renewed;
both leave an event, or none. `FilesystemChanged` is the slot that starts the
debounce, `DebounceFires`, `Refresh` and `Start` are the callers of `refresh`,
`ReadFirst` and `ReadSecond` run on the evaluation thread, `EvaluationFinished`
is the watcher's slot with its three ends: use the result, drop it and evaluate
once more because `dirty_` is set, or run again because `rerun_` is set.
`AdoptOnline` is a checked snapshot from the check service.
`selectFresherSnapshot` chooses between the local and the online snapshot; in the
service the local result always has the later time, so it is what is published.
The counters `followUps` and `asked` are history for the properties.

### ScratchCheck

A process has a call (`down`, `starting`, `ready`, `waiting` for its check,
`saving` what it returned) and any number of threads, each the body of one check
or the sweep at start. A body opens `check.lock` with a non-blocking `flock`,
lists what a sweep removes and removes it entry by entry, makes its run directory,
copies the databases one by one, compares each copy with its source, calls
libalpm, and leaves: its guard removes the other run directories, then the lock
goes. `Abandon` is the bound of `checkForUpdates`: the caller goes on, the body
too. `Kill` ends a process at any moment, with its locks. `older` orders the
directories by mtime as the file system would: removing an entry of a directory
makes it the newest. `torn` are directories that lost some of their contents.
`settled` collects what all databases were together whenever `db.lck` was absent.

pacman is modelled from outside: it creates `db.lck`, replaces databases by
rename, and removes `db.lck`, or is killed in between. A database is a version
number that stands for size and mtime. Left out: entries below the scratch root
that are no run directories, an unlink that fails, a missing `sync` directory.

### UpdatesPage

Two objects of the GUI read one file. `UpdatesModel` evaluates the updates on a
thread (`ReadFile`, `ReadSystem`: the two halves of `loadUpdates`), restarted by
its own watch and a debounce of two seconds (`FilesystemChanged`,
`DebounceFires`) or by the user (`Reload`). `SnapshotFileReader` reads the
snapshot after its own watch and a shorter debounce (`ReaderChanged`,
`ReadDebounceFires`) or at once when the service speaks (`ServiceSpeaks`).
`UpdateCheckModel` connects the reader's two signals to the list, so that
`ReadNow` is one action with `ApplyChecked` or `Invalidate`, which repeat a load
in progress (`rerun`) or begin one. `LoadFinished` drops a result that was
overtaken or uses it. The rows come from what the load read, the time shown with
them from what the reader read: `rows` and `displayed` are numbers of snapshots,
in the order of their times, and the properties compare them.

A load may end as "checked" (an evaluation with at least one checked repository;
"mixed" is the same for the time shown), "local", "saved" or "bare" (the rows of
the file with an evaluation error, with their repositories or, if the sidecar is
lost, without) or "error". The three states with a result are one, "result".
`selectFresherSnapshot` always chooses the result of the load, which is either
evaluated or previously loaded, so `applyFreshest` keeps only the choice of the
time. The second look at `rerun_` in `onLoadFinished` finds nothing that the first
left, since nothing in between sets it. An evaluation reads under a lease, so
`Publish` does not happen in its middle, except for the first save, which creates
the lock file. Left out: an age that is formatted, the data-as-of label, and a
file that only the reader cannot open for a moment.

### CheckClient

Two queues join the client and the message bus. `toBus` holds what the client
sends, in order: match rules for the signals, their withdrawal, `GetAll` and
`CheckNow`. `toClient` holds what the bus and the service send: the service's name
appears or goes, properties change, a check is completed, replies, answers and
errors. D-Bus keeps the order between two ends, which is all that is assumed; the
client may handle a message long after the state it tells of. `BusHandles` is the
bus, or the service that answers; signals are sent only while the match rules are
set. `ServiceStops` is a crash or an exit at any moment, also during a check.

A check of the service is `ScheduledCheck` or the answer to `CheckNow`, then
`WorkerEnds`, which writes the snapshot, then `Announce`. The times of checks and
snapshots are their numbers. `SetStatus` is `setStatus` with the slot of
`UpdateCheckModel` that it calls, which reads the snapshot file; `snapshot_read` is
what that found. `ClientInit` begins with or without a service; if there is one the
client may be told of it twice. Left out: the texts of errors, and the start of a
service by the bus for a call (`ServiceStarts` may happen at any time).

### ConnectionCache

`connection()` is a machine of steps, since pacman may replace a database between
any two: lock the mutex (`Enter`), list the `*.db` files (`List`), take their times
one by one (`Stat`), then reuse the handle (`Reuse`) or drop it (`Reset`), register
the databases one by one (`Register`), list and take the times again (`Relist`,
`Stat`), and keep the second snapshot if it is equal to the first (`Conclude`). Any
step that may fail gives up. A database is a content and a time; `Change` makes the
content new and the time equal or later, so that a change within one granule of the
file times is possible. `seen` is history: the directories there have been since
the call began, which is what "was on disk during the call" means.

### ExplorePage

`ReadAge` and `ReadPackages` are the two readings of a load on its thread, between
which pacman may sync. `LoadFinished` is the slot, which searches the new index for
the text that is there by then and looks the selection up again. `SetSearchText`
starts the debounce and `SearchTimer` ends it. The order of the rows is the one of
`searchPackages`; matching texts is `Rank`, a constant, since only the order of the
ranks matters. `index_age` is history for the age that the page shows.

### InstalledPage

`Connect` and `ReadLocal` are the enumeration: the sync databases through the
cached connection, then the local database. The proxy model is its result: `Show`
chooses any arrangement of the accepted rows that respects the order, as rows that
compare equal may come in any. `ReconcileActive` is what happens to the active
package after rows changed; `removed`, the rows that are left when a filter has
removed some and not yet added others, is an argument that the code does not use,
thanks to `filter_change_in_progress_`, and the mutant does.

### PacmanRepositories

The recursion of `readFile` is a stack of `frames`, one line of a file is one
action, and the section is shared by all frames as in the code. A file is a
sequence of keys and values; trimming, comments and the characters of a pattern are
left out, and an `Include` names the set of files that its pattern matches. A
signature level is a set of bits with a mask. `Finish` substitutes and checks what
`parsePacmanRepositories` returns. The property compares the result with a reference
that first puts the included files in place and then reads the whole text.

### CheckInterval

`maximumInterval` is a bisection, one action for a step (`Bisect`), begun by `Load`
for the configured interval and by `Measure` for a delay. All numbers are integers
and `IntMax` a constant: the theorem holds for every width. A configured number
that a `long long` cannot hold is treated by the code as one larger than every
maximum, and so it is here.

## Runs

`expect` is "pass" unless the text says otherwise. Distinct states and seconds are
those of a laptop with two TLC workers.

| Run | Properties | Bounds | Size |
|-----|------------|--------|------|
| `check_safety` | `ScheduleAlive`, `BackoffFollowsFailures`, `ReportedIsPublished`, `StatusCoherent`, `KeepsPromise` | 2 callers, 1 count, 1 error code, 2 ticks, cooldown 2, clock set back by 2, crashes and restarts | 1.65 M, 30 s |
| `check_live` | `CooldownHonoured`, `EveryCheckEnds`, `JoinedAreAnswered`, `ChecksRecur` | 1 caller, 3 ticks, cooldown 2, a clock that keeps time | 62 k, 10 s |
| `check_clock` | violated: `CooldownEnds` | 1 caller, 3 ticks, clock set back by 2 | |
| `catalog_all` | `LeasedCatalogStays`, `RowsMatchCatalog`, `ReclaimsOnlyUnpublished`, `PublishesAtomically`, `EvaluationsEnd`, `SavesEnd` | 2 readers, 2 snapshots, 2 catalogs, 2 generations, removals may fail | 224 k, 2 min |
| `catalog_faults` | violated: `ReclaimsOnlyUnpublished` | 1 reader, files that exist may fail to open | |
| `monitor_all` | `NoLostChange`, `ReadyIsCurrent`, `TwoFollowUps`, `TornOnlyUnnoticed`, `RefreshIsServed`, `Converges` | 3 changes of the disk, 2 adopted snapshots | 87 k, 11 s |
| `monitor_followup` | violated: `OneFollowUp` | 1 change | |
| `scratch_all` | `LiveRunStays`, `AtMostTwoRuns`, `CopyIsSettled`, `CallsEnd`, `LockReturns` | 1 process, 2 threads, 3 directory names, 2 databases of 2 versions | 203 k, 1 min |
| `scratch_crash` | violated: `SweepKeepsAWholeRun` | 1 process, 2 threads, 1 database | |
| `page_all` | `NothingMissed`, `AgeNotNewer`, `SettledAge`, `PageConverges` | 2 snapshots, 2 changes of the databases, removals of the file | 513 k, 32 s |
| `gui_all` | `SelectionIsShown`, `RowsAnswerTheText`, `ActiveIsShown`, `ActiveStays`, `NothingLost`, `AnnouncedIsRead`, `ControlReturns` | Explore: 3 catalogs of up to 3 packages, 5 texts, 2 rows shown at most, 2 syncs. Installed: 4 packages, 2 repositories, 1 change. Client: 1 check, 2 starts, 1 call | 178 k, 30 s |
| `backends_all` | `LeaseIsCurrent`, `ParsedAsWritten`, `DelayFits` | cache: 2 databases, 2 threads, 2 changes, symmetry. `pacman.conf`: 7 lines and two included files, all combinations of 4, 11, 11, 2 and 8 alternatives. Intervals: 12 policies, 6 values, 3 offsets, a timer of 42 minutes | 210 k, 1 min |

### Why the bounds are enough

* Check service: two callers are one that starts a check and one that joins, or
  two that joined and are answered one after the other. The backoff table has
  three entries and the counter stops at four, so every entry is reached and left.
  The cooldown is two ticks: one tick is inside it and two end it; a third tick in
  `check_live` lets a check start that a wrong cooldown would refuse. Time is only
  compared with it and stored. One count and one error suffice because snapshots
  that differ in `fetchedAt` already are different snapshots.
* Catalog store: two readers hold the shared lock in turns, which is what can
  starve a save; two generations are the published one and its successor, or one
  left by a save that failed or died and the next. Two snapshots and two catalogs
  give all four kinds of a second save (same or other bytes, same or other databases).
* Monitor: an evaluation has two reads, so three changes put one before, one
  between and one after them, or one into each of three evaluations in a row.
* Checker: two threads are a body that was given up and the next one; that they
  belong to one process makes no difference to locks and directories, and the
  theorems hold for any number of processes. Three names are the directory in use,
  the one kept and one more that must not stay. A torn copy needs two databases and
  two versions.
* Updates page: two snapshots are one the reader knows and one only the load has
  read, or the other way round; removals are not bounded. A load has two reads and
  a follow-up, so two changes put one into a load and one into what repeats it.
* Explore page: three hits for two rows are one that is cut off; the catalogs have
  the same package at another position, in another version and not at all. Two
  syncs put one between the two readings of a load and one between two loads.
* Installed page: every kind of package, two of equal size, one offered by two
  repositories, and a second state in which packages are missing or have changed.
* Client: two starts and a crash between them let a signal or a reply of the first
  service arrive after its end; one check gives a status that a late message could
  take back. More of each repeats these; the theorems have no such bound.
* Handle cache: two changes can undo one another in the time of a file, once before
  and once after it was read; a second thread waits at the mutex.
* `pacman.conf`: two included files include each other, so that the depth of two is
  reached and exceeded; each kind of line occurs in each kind of section.
* Intervals: the limit lies inside the range that values and minimum cover, with
  and without the jitter.

Deadlock is checked in every run except `gui_all` and `backends_all`, whose parts
come to rest: a parser that has returned, a client with nothing to hear. TLC stops
`UpdateCheckService` at `MaxTime` only as far as ticks go: everything else continues, as it does for the other
bounds (`MaxChanges`, `MaxAdoptions`, `MaxChecks`, `MaxVersion`, the
generations, the free run names and threads). None of them restricts a handler
of the program; they limit the environment and how often something is begun.
`FailureCap` in `UpdateCheckService` merges counts of failures that have the
same delay.

Symmetry is used only in `backends_all`, which has no liveness.

### What the runs show

* `check_safety`: an automatic check remains ahead in every order of ticks,
  joins, callbacks that request again, failures and restarts (`ScheduleAlive`),
  with the delay that belongs to the failures (`BackoffFollowsFailures`). The
  snapshot reported is on disk, or has just been replaced by the check about to
  complete (`ReportedIsPublished`); the properties on D-Bus are those of one
  state (`StatusCoherent`). Together with the files it implements `CheckPromise`
  (`KeepsPromise`), through crashes between the two writes.
* `check_live`: with a clock that keeps time the cooldown holds in elapsed time
  too; each check ends; joined callers are answered, also those that join from
  the callback of another; a service that stays up checks for ever.
* `catalog_all`: no interleaving of saves, failures and kills with two
  evaluations mixes the rows of one check with the databases of another, or takes
  databases away under a lease, or publishes half a check. Two leases in one
  evaluation are safe, because `flock` does not favour writers: with a lock that did, `OpenStore` would wait for the save that
  waits for it (the mutant of `EvaluationsEnd`). The same choice means that a
  save can starve; `SavesEnd` says that it ends if again and again nobody reads.
* `monitor_all`: a change not yet shown is going to be looked at, even one between
  a replaced file and the renewed watch; "ready" is current or about to be looked
  at; a trigger causes at most two more evaluations; `Refresh` is answered; when
  the disk rests the status arrives at it.
* `scratch_all`: bodies that were given up, sweeps, guards, kills and pacman in
  every order leave the directory of a check at work alone and at most two on
  disk, and libalpm is given only copies that all databases had together at a
  moment when no transaction was in progress. Callers are answered although libalpm
  may hang, and only a body inside libalpm keeps `check.lock`.
* `page_all`: replaced files, late watches, debounces that find a load at work and
  dropped results together lose no change of either kind (`NothingMissed`). List
  and reader may read different snapshots, but rows never carry the age of a later
  check (`AgeNotNewer`); the age may be that of an earlier one only while a load or
  a reading is still to come (`SettledAge`), and both arrive at the file
  (`PageConverges`).
* `gui_all`: the client sets its match rules before it asks, so that no change of the
  service falls between the reply and the first signal (`NothingLost`; the mutant asks
  first); the page shows no time of a snapshot that it has not read
  (`AnnouncedIsRead`), since the service saves before it speaks and the page reads
  before it shows; a service that dies during its check does not leave "Check now"
  disabled (`ControlReturns`). On the Explore page the details are those of the
  selected row in the index that is searched (`SelectionIsShown`), and rows, state and
  age belong to the text and to what was read (`RowsAnswerTheText`). On the Installed
  page one of the rows is active, its details are those of the list
  (`ActiveIsShown`), and a filter that removes and adds rows does not move it
  (`ActiveStays`, which is what `filter_change_in_progress_` is for).
* `backends_all`: a handle that is kept is one moment of the disk although libalpm read
  the databases one by one, because names and times are compared before and after
  (`LeaseIsCurrent`); a lease of a call whose comparison failed still holds only what
  was on disk during the call. Sections that begin in one file and go on in another,
  signature levels that are refined twice, repeated and unknown names and includes that
  come back to themselves are read as one text or refused (`ParsedAsWritten`). Delays
  fit the timer (`DelayFits`).

### Fairness

Weak fairness on the home thread's and worker's own actions: the event loop runs
queued events, threads are scheduled, a destructor that waits returns. An armed
timer expires (`TimerFires`, `DebounceFires`). `WorkerCheck` of the check service
is fair because `checkForUpdates` ends with its bound, which is what `CallsEnd`
of `ScratchCheck` shows; there, `Refresh` (libalpm) has no fairness, and only the
bounded wait and the other steps of a thread do. A process waiting in `flock` gets
strong fairness (`Lock`, `OpenStore`): the kernel wakes the waiter each time the
lock is released, and it gets it when nobody else is faster every time. Nothing
is assumed of users, pacman, crashes, clocks, or of the decision to check, save or
evaluate. For the client, bus and event loops handle what is queued and a check
ends (`WorkerEnds`, `Announce`); nothing is assumed of its starts, crashes, calls and
timeouts. A start of the monitor follows its construction in the same function,
hence `WF_vars(Start)`; a stopped service need not start again.

## Proofs

TLAPS proves the theorems below for all sets of callers, counts, errors,
processes, threads, readers, snapshots, generations and databases, all catalogs,
local databases and search texts, all configurations of pacman, all bounds and all
clock behaviours. They assume what the modules state by name: `ConstantsAssumption`
and `SentinelsAssumption` (markers such as `None` are none of the values they stand
beside) and their like in the smaller modules (for `ExplorePage`: a catalog is a
sequence of packages and a rank one of five; for `InstalledPage`: a local database is
finite and names its packages apart; for `PacmanRepositories`: an `Include` stands for
finitely many of the files, and tokens of a `SigLevel` name known scopes). Two theorems
of the catalog store have the hypothesis `"open" \notin Faults`, `CooldownIsHonoured`
that the wall clock is never set forward, and its corollary `CooldownWithSteadyClock`
that it is never set. Type correctness of every component, `WaitersHaveACheck` (a caller that joined has a
check to wait for) and `KeepsOwnRun` (a check leaves its own run directory behind) are
theorems only: no run repeats them.

| Module | Theorems | Rest on |
|--------|----------|---------|
| `UpdateCheckServiceProofs` | `TypeCorrect`, `ScheduleStaysAlive`, `BackoffIsFollowed`, `WaitersAreServed`, `StatusIsCoherent`, `ReportsAreDurable`, `PromiseKept`, `CooldownIsHonoured`, `CooldownWithSteadyClock` | `Base`: types, `WorkerInv`, `DownInv`; `StampInv` |
| `CatalogStoreProofs` | `TypeCorrect`, `LeasesProtect`, `EvaluationsAreConsistent`, `PublicationIsAtomic`, `ReclamationIsSafe` | `Base` with `SaveInv` and `ExclusionInv`; `ReadInv`; `ProgressInv` |
| `UpdateMonitorProofs` | `TypeCorrect`, `ChangesAreSeen`, `ReadyStatusIsCurrent`, `FollowUpsAreBounded`, `TornResultsAreUnnoticed` | `Base` with `RestInv`; `WatchInv`, `LookInv`; `ShownInv`; `BudgetInv`; `TornInv` |
| `ScratchCheckProofs` | `TypeCorrect`, `LiveRunsStay`, `RunsAreFew`, `ChecksLeaveTheirRun`, `CopiesAreSettled` | `RunsInv`; `CopyInv` |
| `UpdatesPageProofs` | `TypeCorrect`, `ChangesAreSeen`, `AgesAreNotNewer`, `AgesSettle` | `MissInv` with `WatchInv`, `LookInv`, `ReaderInv`; `AgeInv` with `OrderInv`, `WillFitInv`; `SourceInv` |
| `BackendPartsProofs` | `DelaysFit`, `IntervalTypes`; `LeasesAreCurrent`, `CacheTypes` | `IntervalInv` with `Bracketed`; `IInv` with `Known`, `Taken`, `Registered` |
| `PacmanRepositoriesProofs` | `TextsAreParsedAsWritten`, `RepositoriesTypes` | `ReadInv` with `Agreement`, `IsStack`; `SettingsDecide` |
| `GuiPartsProofs` | `ExploreTypes`, `SearchIsBest`, `RowsAlwaysAnswer`, `SelectionIsAlwaysShown`; `InstalledTypes`, `EnumeratedIsSorted`, `ActiveIsAlwaysShown`, `ActivePackageStays`; `StatusArrives`, `ShownTimesAreRead`, `ClientIsTyped` | `SmallestSubset`; `ExploreInv` with `LoadInv`, `RowsInv`; `InstalledInv` with `EnumerationInv`, `ActiveTogether`; `ClientInv` with `Times`, `Bus` |

The properties are not inductive by themselves; the strengthenings say why they
hold.

* **Check service.** `WorkerInv`: a task exists exactly while `running_` is set, it
  saves only what the check returned, and a task that reports success has its
  snapshot on disk. `DownInv`: a stopped process remembers nothing. The first
  makes the report durable (`Complete` copies what is already published); without
  `running <=> worker.step # "idle"` neither the schedule nor the waiters would be
  inductive. `PromiseKept` maps `busy` to `running`, `stored` to the file if it
  parses and `committed` to a finished task without an error; every step is a step
  of `CheckPromise` or leaves the mapped state alone.
* **Catalog store.** `ExclusionInv`: while a save works nobody holds a lease.
  Hence what an evaluation has read under its lease is still published and still
  has its databases (`ReadInv`), which gives both reader theorems, for any fault.
  `ProgressInv` follows a save: until the sidecar is written no sidecar names the
  generation being filled and the bytes are not the published ones; from then on
  the bytes lead to the databases of the save; after the rename they are what is
  published, and reclamation keeps the generation of their sidecar. It needs files that exist to open; the run
  `catalog_faults` shows that the assumption is necessary.
* **Monitor.** `WatchInv`: a watch that is gone has an event waiting, since the
  parent directory reports the replacement. `LookInv` is `NoLostChange` with
  "the last used result is current" only where no evaluation runs: one that runs
  is up to date so far or is known not to be. `BudgetInv` counts the follow-ups
  still ahead: one for a `dirty_` or `rerun_` of the evaluation at work, one for
  the debounce; with those that began already they are two at most.
* **Checker.** `RunsInv`: a thread holds the lock exactly in its locked steps; its
  victims never contain its own directory; in a sweep at most one directory is
  not a victim; any two directories are ordered by mtime, so that "the newest"
  exists and is one. `CopyInv`: a copied database is never newer than the disk,
  and after `db.lck` was seen absent some settled state lies between the copy and
  the disk and agrees with the copy on every database compared so far. When all
  are compared it is the copy.
* **Updates page.** `LookInv` is the one of the monitor with the debounce that
  `reload` may ignore. `AgeNotNewer` needs `WillFitInv`: a load that is going to be
  used has read the file no earlier than what is known and shown of it, because a
  reading that finds another snapshot marks the load for repetition. `SettledAge`
  follows from `NothingMissed` and `CheckedInv`: checked rows are those of the last
  result used, and their time is the reader's unless a load is at work.
* **Check interval.** `Bracketed`: `low` fits, and whatever fits is not above `high`.
  That needs `Fits` to be monotone, which it is because a minute more adds at most a
  minute of jitter; when the two meet, `low` is the largest interval that fits. An
  interval and a delay that are not above it fit with every offset of the random
  source, as the jitter clamps the offset.
* **Handle cache.** The mutex makes the thread in the call the only one to look at.
  The time of a file never goes back, so a time that is the same at two moments was
  the same between them. `Taken`: the directory that was listed is one the call has
  seen, its times are not above those taken since, and (after the registration) the
  handle's are not above its. `Registered`: the times taken before the registration
  are not above the handle's. If the two lists of times are equal everything between
  them is, and the handle is the directory listed second. `Known` and `KnownBefore`
  are the same argument for a handle that is reused: its times are not above anything
  the new call has seen.
* **Cooldown.** `StampInv`: the wall-clock time kept of the last check is not earlier
  than its time by the steady clock and the lead that the wall clock has now, because a
  lead that is never set forward only shrinks. So a cooldown that is over by the wall
  clock is over. Hence the theorem has the hypothesis `[][NotSetForward]_skew`; a clock
  that is set back, which keeps callers waiting (`check_clock`), does not break it.
* **Torn results.** `TornInv`: while no notification is queued and none has marked the
  evaluation, what it has read so far is what is on disk, as long as the watch is there
  (`WatchInv`), for a change under a watch always queues one.
* **Pages.** The rows are chosen as a sequence of a finite set that is in order, so the
  first thing to prove is that there is one: take the smallest set that has none, its
  least member, and put this before the sequence of the others (`SmallestSubset`; the
  library's cardinality facts replace the induction). Then `SearchIsBest` says of the
  search as a function what `BestRows` asks, and `LoadInv` and `RowsInv` carry it from
  the thread of a load to the page. On the other page `ActiveTogether` relates the active
  name to the active row; `ListInv` says that the rows are positions of the list, in
  which names are unique, so that the row found by name is that of the active package.
* **Repositories.** The parser keeps a stack of files, a section and what it has
  collected; the reference looks at the whole expanded text. `ReadInv` says that there is
  a text read so far which, followed by what the stack has left to read (`RestOfText`), is
  the whole one. Opening a file, closing it and replacing an `Include` by the calls for
  its files leave the rest the same, each other line takes its first line away, and a file
  that is missing or too deep leaves an unreadable line in it. `Agreement` says that the
  parser's memory is what the text read so far says: one repository for each header, with
  the servers of its section, and for each bit of a level the last token that decides it
  (`Agreed`; merging the settings of two lines is taking the later word). `RefusedBefore`
  is why stopping early is right: a text with such a beginning is refusable however it
  goes on. The recursions (a depth of files, a list of tokens, the positions of a set in
  order) are followed by `UpTo`, an induction for a set of numbers instead of a predicate.
  `RepositoriesTypes` needs only that no level sets a bit it does not decide
  (`SettingsDecide`), which each `SigLevel` line keeps.
* **Client of the check service.** `Bus` describes the queues by the last message of
  certain kinds, whatever is before it. Without a service, the last word of it in
  `toClient` is that it is gone, or the client has heard so and the match rules are
  withdrawn or going to be. With one, the client has yet to hear of it; or its
  question is under way and the rules are set or go first; or the rules are set and
  what it was told last is what the service says. With both queues empty only the
  last of these is left. `Times`: a message names no snapshot later than the one on
  disk, and what is shown is not later than what was read.

Only model-checked: every liveness property (`EveryCheckEnds`, `JoinedAreAnswered`,
`ChecksRecur`, `EvaluationsEnd`, `SavesEnd`, `RefreshIsServed`, `Converges`,
`CallsEnd`, `LockReturns`, `PageConverges`, `ControlReturns`), as the prover has no
support for fairness and `ENABLED`. Every safety property of the passing runs is a
theorem.

## Where code and documents disagree

* `check_clock`: the cooldown compares wall-clock times. After the clock is set
  back, `CheckNow` does nothing for longer than the cooldown.
* `catalog_faults`: reclamation reads the generation to keep from the sidecar it
  has just written. If that file cannot be opened (no descriptors left), it keeps
  none and removes the databases just published.
* `monitor_followup`: one change during an evaluation causes two more: the restart
  for `dirty_` leaves the debounce running, whose timeout evaluates again.
  REQ-F-003 promises exactly one.
* `scratch_crash`: the sweep at start keeps the newest directory by mtime. If a
  check is killed while it removes the previous one, that one is the newest: it is
  kept, half removed, and the whole one goes.

Not a run, but noted: `update_check_scheduler.h:13` says that no second check is
ever pending while one runs. An on-demand check runs with the automatic timer armed
and the tick joins it: harmless, as `ScheduleAlive` shows, but the comment is not
what the code relies on.

## Limits

* What libalpm computes (dependencies, versions, signatures, downloads) and what
  it does when it fails is a result chosen freely. So is the contents of a file
  that parses.
* Not modelled: `parsePacmanConfig`, which collects two lists of words in one pass over
  one file; cache locations and the formatting of sizes, counts and times, which are
  functions without state; QML views, which bind to the models' properties.
* The parts of `gui_all` and `backends_all` are checked each on its own. They do not
  share state: the pages use the handle cache through leases, whose contents are
  chosen freely where a page reads them.
* The fold of names for the order of rows is left to the order of numbers, and the
  matching of texts to a constant.
* In `UpdateCheckService` and `UpdateMonitor` D-Bus is a handler that runs on the home
  thread; the adaptors copy properties. Messages under way are in `CheckClient`.
  `UpdateStatusClient` does for the panel's count what the modelled client does for
  the check interface, and is not modelled again.
* Files are on disk when they are renamed. Loss of power is not modelled.
* `save` copies the databases out of the checker's run directory after the check
  has released its lock. In `ScratchCheck` another check may then remove that
  directory (a call in `saving` has no lock); in `CatalogStore` that is a save that
  fails. No document promises that it cannot happen.
* The checker reads the installed packages through a link to the real `local`
  database after it verified the copies of the others. Nothing verifies that one.

## What could follow

* A composition of `UpdateCheckService` with `UpdateMonitor` (adopted snapshots, start
  order, termination) and of `CatalogStore` with the page. Their interfaces, a
  published snapshot and a lease, are checked from both sides now.
* `parsePacmanConfig` beside `PacmanRepositories`: both read the same file.
