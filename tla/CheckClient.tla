------------------------------ MODULE CheckClient ------------------------------
(***************************************************************************)
(* The GUI's view of the update check service: DBusUpdateCheckClient,      *)
(* which mirrors the properties of org.holonight.Packages1.UpdateCheck,    *)
(* UpdateCheckModel, which reads the snapshot file when the service        *)
(* speaks, and the service's side of the bus.  The bus handles what the    *)
(* client sends in order, and delivers in order what the service and the   *)
(* bus itself send to the client; signals only while a match is set.       *)
(* Checks and snapshots are numbered in the order of their completion.     *)
(***************************************************************************)
EXTENDS Naturals, Sequences

CONSTANTS
  MaxServiceChecks,   \* bound: checks of the service
  MaxStarts,          \* bound: how often the service starts
  MaxCalls            \* bound: presses of Check now

ASSUME ClientAssumption == MaxServiceChecks \in Nat /\ MaxStarts \in Nat /\ MaxCalls \in Nat

VARIABLES
  service,                \* the service: up and what its properties say
  worker,                 \* its check: "none", "running", or ended and "saved" or "failed"
  stored,                 \* on disk: the snapshot's fetchedAt and the history's time, 0 for none
  begun, starts,
  matched,                \* the bus has the client's match rules
  toBus,                  \* requests of the client the bus has not handled
  toClient,               \* messages the client has not handled
  client_status_,         \* status_ of the client
  service_unavailable_,
  calls, asked,           \* calls of CheckNow that have no answer, and all there were
  snapshot_read           \* fetchedAt of the snapshot file when readNow() read it last

serviceVars == <<service, worker, stored, begun, starts>>
model       == <<service_unavailable_, calls, asked, snapshot_read>>
clientVars  == <<serviceVars, matched, toBus, toClient, client_status_, model>>

Properties(s) == [checking |-> s.checking, time |-> s.time, fetched |-> s.fetched]
Unknown == [checking |-> FALSE, time |-> 0, fetched |-> 0]
Status == [reachable : BOOLEAN, checking : BOOLEAN, time : Nat, fetched : Nat]

Request(kind, id) == [kind |-> kind, id |-> id]
Message(kind, id, says) == [kind |-> kind, id |-> id, says |-> says]
Says(kind, s) == Message(kind, 0, Properties(s))
Word(kind) == Message(kind, 0, Unknown)

-------------------------------------------------------------------------------
(* The service *)

Running(checking, of) == [up |-> TRUE, checking |-> checking, time |-> of.time, fetched |-> of.fetched]
Down == [up |-> FALSE, checking |-> FALSE, time |-> 0, fetched |-> 0]

\* What the service sends as signals.
Emit(signals) == toClient' = toClient \o (IF matched THEN signals ELSE <<>>)

\* The service owns its name, also since the bus starts it for a call; it has read its files.
ServiceStarts ==
  /\ ~service.up /\ starts < MaxStarts /\ starts' = starts + 1
  /\ service' = Running(FALSE, stored)
  /\ toClient' = Append(toClient, Word("appeared"))
  /\ UNCHANGED <<worker, stored, begun, matched, toBus, client_status_, model>>

\* It quits or crashes, whatever it was doing.
ServiceStops ==
  /\ service.up
  /\ service' = Down /\ worker' = "none"
  /\ toClient' = Append(toClient, Word("gone"))
  /\ UNCHANGED <<stored, begun, starts, matched, toBus, client_status_, model>>

CanBegin == service.up /\ worker = "none" /\ begun < MaxServiceChecks

\* beginCheck
Begin ==
  /\ CanBegin
  /\ worker' = "running" /\ begun' = begun + 1
  /\ service' = [service EXCEPT !.checking = TRUE]
  /\ UNCHANGED <<stored, starts>>

\* A scheduled check.
ScheduledCheck ==
  /\ Begin
  /\ Emit(<<Says("properties", service')>>)
  /\ UNCHANGED <<matched, toBus, client_status_, model>>

\* The worker of the check saves the snapshot, or has none to save.
WorkerEnds ==
  /\ worker = "running"
  /\ \/ worker' = "saved" /\ stored' = [stored EXCEPT !.fetched = begun]
     \/ worker' = "failed" /\ UNCHANGED stored
  /\ UNCHANGED <<service, begun, starts, matched, toBus, toClient, client_status_, model>>

\* onWorkerFinished: the history is saved, which may fail; the new properties, then StatusChanged.
Announce ==
  /\ worker \in {"saved", "failed"} /\ worker' = "none"
  /\ service' = Running(FALSE, [time |-> begun, fetched |-> IF worker = "saved" THEN begun ELSE service.fetched])
  /\ stored' = [stored EXCEPT !.time = begun] \/ UNCHANGED stored
  /\ Emit(<<Says("properties", service'), Word("completed")>>)
  /\ UNCHANGED <<begun, starts, matched, toBus, client_status_, model>>

-------------------------------------------------------------------------------
(* The bus, and what the service answers *)

\* GetAll and a call of CheckNow, which does nothing during a check and within the cooldown.
Answer(request) ==
  \/ /\ request.kind = "getall"
     /\ toClient' = Append(toClient, Says("reply", service))
     /\ UNCHANGED serviceVars
  \/ /\ request.kind = "check"
     /\ \/ Begin /\ toClient' = toClient \o (IF matched THEN <<Says("properties", service')>> ELSE <<>>)
                                         \o <<Message("answer", request.id, Unknown)>>
        \/ /\ UNCHANGED serviceVars
           /\ toClient' = Append(toClient, Message("answer", request.id, Unknown))

\* Without a service that can be started a call fails; the error of GetAll is ignored.
Refuse(request) ==
  /\ toClient' = IF request.kind = "check" THEN Append(toClient, Message("error", request.id, Unknown)) ELSE toClient
  /\ UNCHANGED serviceVars

BusHandles ==
  /\ toBus # <<>> /\ toBus' = Tail(toBus)
  /\ LET request == Head(toBus)
     IN IF request.kind \in {"match", "unmatch"}
        THEN matched' = (request.kind = "match") /\ UNCHANGED <<serviceVars, toClient>>
        ELSE UNCHANGED matched /\ IF service.up THEN Answer(request) ELSE Refuse(request)
  /\ UNCHANGED <<client_status_, model>>

-------------------------------------------------------------------------------
(* The client *)

\* Mutant: the page learns of the new status without reading the file.
SetStatusOnly(new) ==
  /\ client_status_' = new
  /\ service_unavailable_' = IF new = client_status_ THEN service_unavailable_ ELSE FALSE
  /\ UNCHANGED snapshot_read

\* setStatus and onClientStatusChanged: a change clears the error and reads the snapshot file.
SetStatus(new) ==
  /\ client_status_' = new
  /\ IF new = client_status_ THEN UNCHANGED <<service_unavailable_, snapshot_read>>
     ELSE service_unavailable_' = FALSE /\ snapshot_read' = stored.fetched

\* Mutant: the properties are asked for before the signals are.
FetchThenWatch == <<Request("getall", 0), Request("match", 0)>>

\* onServiceAppeared watches the signals, then fetchAll asks for the properties.
WatchThenFetch == <<Request("match", 0), Request("getall", 0)>>

OnServiceAppeared ==
  /\ SetStatus([client_status_ EXCEPT !.reachable = TRUE])
  /\ toBus' = toBus \o WatchThenFetch

\* Mutant: a service that is gone is still said to check.
GoneStatusKept == [client_status_ EXCEPT !.reachable = FALSE]

GoneStatus == [client_status_ EXCEPT !.reachable = FALSE, !.checking = FALSE]

OnServiceGone ==
  /\ SetStatus(GoneStatus)
  /\ toBus' = Append(toBus, Request("unmatch", 0))

\* apply()
Apply(says) ==
  /\ SetStatus([reachable |-> TRUE, checking |-> says.checking, time |-> says.time, fetched |-> says.fetched])
  /\ UNCHANGED toBus

\* checkCompleted
OnCompleted ==
  /\ service_unavailable_' = FALSE /\ snapshot_read' = stored.fetched
  /\ UNCHANGED <<client_status_, toBus>>

ClientHandles ==
  /\ toClient # <<>> /\ toClient' = Tail(toClient)
  /\ LET message == Head(toClient)
     IN \/ message.kind = "appeared" /\ OnServiceAppeared /\ UNCHANGED calls
        \/ message.kind = "gone" /\ OnServiceGone /\ UNCHANGED calls
        \/ message.kind \in {"properties", "reply"} /\ Apply(message.says) /\ UNCHANGED calls
        \/ message.kind = "completed" /\ OnCompleted /\ UNCHANGED calls
        \/ /\ message.kind \in {"answer", "error"}
           /\ calls' = calls \ {message.id}
           /\ service_unavailable_' = IF message.id \in calls THEN message.kind = "error" ELSE service_unavailable_
           /\ UNCHANGED <<client_status_, snapshot_read, toBus>>
  /\ UNCHANGED <<serviceVars, matched, asked>>

CheckNowEnabled == ~client_status_.checking

\* checkNow() of model and client
CheckNow ==
  /\ CheckNowEnabled
  /\ asked < MaxCalls /\ asked' = asked + 1 /\ calls' = calls \cup {asked'}
  /\ toBus' = Append(toBus, Request("check", asked'))
  /\ UNCHANGED <<serviceVars, matched, toClient, client_status_, service_unavailable_, snapshot_read>>

\* kCallTimeoutMs: an answer that comes later is dropped.
CallTimesOut ==
  /\ \E id \in calls : calls' = calls \ {id}
  /\ service_unavailable_' = TRUE
  /\ UNCHANGED <<serviceVars, matched, toBus, toClient, client_status_, asked, snapshot_read>>

\* The constructor: the watcher of the name is set before it asks whether the service is there, so
\* that it may be told again what it has found.
ClientInit ==
  /\ stored = [time |-> 0, fetched |-> 0] /\ worker = "none" /\ begun = 0
  /\ matched = FALSE
  /\ service_unavailable_ = FALSE /\ calls = {} /\ asked = 0 /\ snapshot_read = 0
  /\ \/ /\ service = Down /\ starts = 0
        /\ toBus = <<>> /\ toClient = <<>>
        /\ client_status_ = [reachable |-> FALSE, checking |-> FALSE, time |-> 0, fetched |-> 0]
     \/ /\ service = Running(FALSE, stored) /\ starts = 1
        /\ toBus = WatchThenFetch /\ toClient \in {<<>>, <<Word("appeared")>>}
        /\ client_status_ = [reachable |-> TRUE, checking |-> FALSE, time |-> 0, fetched |-> 0]

ClientTypeOK ==
  /\ service \in [up : BOOLEAN, checking : BOOLEAN, time : Nat, fetched : Nat]
  /\ worker \in {"none", "running", "saved", "failed"}
  /\ stored \in [time : Nat, fetched : Nat] /\ begun \in Nat /\ starts \in Nat
  /\ matched \in BOOLEAN /\ client_status_ \in Status /\ service_unavailable_ \in BOOLEAN
  /\ calls \in SUBSET Nat /\ asked \in Nat /\ snapshot_read \in Nat

ClientNext ==
  \/ ServiceStarts \/ ServiceStops \/ ScheduledCheck \/ WorkerEnds \/ Announce
  \/ BusHandles \/ ClientHandles \/ CheckNow \/ CallTimesOut

ClientSpec == ClientInit /\ [][ClientNext]_clientVars

\* Checks end, since every step of theirs is bounded in time; the service's event loop announces
\* them; bus and GUI handle what is queued.
ClientFairness ==
  /\ WF_clientVars(WorkerEnds) /\ WF_clientVars(Announce)
  /\ WF_clientVars(BusHandles) /\ WF_clientVars(ClientHandles)

ClientFairSpec == ClientSpec /\ ClientFairness

-------------------------------------------------------------------------------
(* Properties *)

\* When nothing is on its way the page shows what the service says, or, without a service, that
\* nothing checks: no change is lost between the signals and the reply of GetAll, however the
\* service comes, goes and crashes meanwhile (DBusUpdateCheckClient.cpp:46-86).
NothingLost ==
  toBus = <<>> /\ toClient = <<>> =>
    /\ matched = service.up /\ client_status_.reachable = service.up /\ client_status_.checking = service.checking
    /\ service.up => Properties(client_status_) = Properties(service)

\* The page never shows the time of a snapshot that it has not read, though the time comes over the
\* bus and the snapshot from a file written by another process (REQ-F-043, UpdateCheckModel.cpp:65-70).
AnnouncedIsRead == client_status_.fetched <= snapshot_read

\* Check now is disabled during a check only (REQ-F-037): it is enabled again in the end, also when
\* the service died during the check or the call failed (REQ-F-044).
ControlReturns == []<>CheckNowEnabled
===============================================================================
