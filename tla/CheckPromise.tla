----------------------------- MODULE CheckPromise -----------------------------
(***************************************************************************)
(* What the online update check promises the other processes, apart from   *)
(* how it is kept: a check either publishes its result durably and is then *)
(* reported as successful, or leaves the published result alone and is     *)
(* reported as failed.  A process that stops loses what it reports, never  *)
(* what it published; a process that starts may report the published       *)
(* result again, and calls the last check successful only when a result is *)
(* published.                                                              *)
(***************************************************************************)
CONSTANTS Results, Errors, None

VARIABLES
  stored,     \* the published result, or None
  reported,   \* the result clients are told about, or None
  verdict,    \* outcome of the last completed check: None, "success" or an error
  busy,       \* a check is in progress
  committed   \* the check in progress has published its result

vars == <<stored, reported, verdict, busy, committed>>

Init ==
  /\ stored = None
  /\ reported = None
  /\ verdict = None
  /\ busy = FALSE
  /\ committed = FALSE

Begin ==
  /\ ~busy
  /\ busy' = TRUE
  /\ UNCHANGED <<stored, reported, verdict, committed>>

Commit ==
  /\ busy /\ ~committed
  /\ stored' \in Results
  /\ committed' = TRUE
  /\ UNCHANGED <<reported, verdict, busy>>

Succeed ==
  /\ busy /\ committed
  /\ reported' = stored
  /\ verdict' = "success"
  /\ busy' = FALSE /\ committed' = FALSE
  /\ UNCHANGED stored

Fail ==
  /\ busy /\ ~committed
  /\ verdict' \in Errors
  /\ busy' = FALSE
  /\ UNCHANGED <<stored, reported, committed>>

Stop ==
  /\ reported' = None /\ verdict' = None
  /\ busy' = FALSE /\ committed' = FALSE
  /\ UNCHANGED stored

Restore ==
  /\ ~busy /\ reported = None /\ verdict = None
  /\ reported' \in {stored, None}
  /\ verdict' \in Errors \cup {None} \cup (IF stored = None THEN {} ELSE {"success"})
  /\ UNCHANGED <<stored, busy, committed>>

Next == Begin \/ Commit \/ Succeed \/ Fail \/ Stop \/ Restore

Spec == Init /\ [][Next]_vars
===============================================================================
