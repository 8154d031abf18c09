----------------------------- MODULE CheckInterval -----------------------------
(***************************************************************************)
(* From the configured check interval to the delay a timer is set to:      *)
(* packaged_config::load() takes the value of the command line or of the   *)
(* file, resolveCheckInterval() judges it, and nextAutomaticDelay() adds   *)
(* the jitter or backs off.  What a timer can wait is an int of            *)
(* milliseconds; the largest interval that fits with its jitter is found   *)
(* by bisection.  Intervals, jitters and back-offs are minutes.            *)
(***************************************************************************)
EXTENDS Integers, Sequences

CONSTANTS
  IntMax,        \* numeric_limits<int>::max()
  Policies,      \* [interval, minInterval, maxJitter, backoff]; none of the numbers need be sensible
  Values,        \* what may be configured, numbers among them; one that no long long holds is a large number
  Unset,         \* nothing is configured
  Offsets        \* what the random source returns

MinuteMs == 60000
Limit == IntMax \div MinuteMs

ASSUME IntMaxAssumption == IntMax \in Nat
ASSUME PolicyAssumption ==
  Policies \subseteq [interval : Int, minInterval : Int, maxJitter : Int, backoff : Seq(Int)]
ASSUME ValueAssumption == Offsets \subseteq Int /\ Unset \notin Int

VARIABLES
  policy,        \* policy_, with the resolved interval once there is one
  cli, document, \* the value on the command line and in the file
  step,          \* "load", "resolving" and "delaying" while bisecting, "armed", "waiting"
  low, high,     \* of maximumInterval()
  failures,      \* consecutiveFailures
  configured,    \* history: policy.interval before load()
  delay          \* milliseconds the timer was set to

intervalVars == <<policy, cli, document, step, low, high, failures, configured, delay>>

IntervalInit ==
  /\ policy \in Policies /\ configured = policy.interval
  /\ cli \in Values \cup {Unset} /\ document \in Values \cup {Unset}
  /\ step = "load" /\ low = 0 /\ high = Limit /\ failures = 0 /\ delay = 0

Lesser(m, n) == IF m < n THEN m ELSE n
Greater(m, n) == IF m > n THEN m ELSE n
Clamp(n, least, most) == IF n < least THEN least ELSE IF n > most THEN most ELSE n

\* The jitter of an interval: a tenth of it, at most maxJitter.
Jitter(minutes) == Lesser(Greater(0, policy.maxJitter), minutes \div 10)

-------------------------------------------------------------------------------
(* maximumInterval() *)

Search(purpose) == step' = purpose /\ low' = 0 /\ high' = Limit

\* Mutant: the jitter is left out.
FitsBare(minutes) == minutes <= Limit

Fits(minutes) == minutes + Jitter(minutes) <= Limit

Middle == low + ((high - low + 1) \div 2)

Bisect ==
  /\ step \in {"resolving", "delaying"} /\ low < high
  /\ IF Fits(Middle) THEN low' = Middle /\ UNCHANGED high ELSE high' = Middle - 1 /\ UNCHANGED low
  /\ UNCHANGED <<policy, cli, document, step, failures, configured, delay>>

-------------------------------------------------------------------------------
(* load() and resolveCheckInterval() *)

\* The command line wins over the file, even with a value that is of no use.
Raw == IF cli # Unset THEN cli ELSE document

\* Anything but a positive number leaves the default.
Usable(value) == value \in Int /\ value > 0

Load ==
  /\ step = "load"
  /\ IF Usable(Raw) THEN Search("resolving") ELSE step' = "armed" /\ UNCHANGED <<low, high>>
  /\ UNCHANGED <<policy, cli, document, failures, configured, delay>>

Resolved(minutes, maximum) ==
  IF minutes > maximum THEN maximum
  ELSE IF minutes < policy.minInterval THEN Lesser(policy.minInterval, maximum)
  ELSE minutes

Resolve ==
  /\ step = "resolving" /\ low >= high
  /\ policy' = [policy EXCEPT !.interval = Resolved(Raw, low)]
  /\ step' = "armed"
  /\ UNCHANGED <<cli, document, low, high, failures, configured, delay>>

-------------------------------------------------------------------------------
(* nextAutomaticDelay() *)

BacksOff == failures \in DOMAIN policy.backoff

BackOff ==
  /\ step = "armed" /\ BacksOff
  /\ delay' = Clamp(policy.backoff[failures], 0, Limit) * MinuteMs
  /\ step' = "waiting"
  /\ UNCHANGED <<policy, cli, document, low, high, failures, configured>>

Measure ==
  /\ step = "armed" /\ ~BacksOff
  /\ Search("delaying")
  /\ UNCHANGED <<policy, cli, document, failures, configured, delay>>

\* intervalWithJitter()
Jittered ==
  /\ step = "delaying" /\ low >= high
  /\ LET minutes == Clamp(policy.interval, 0, low)
         bound   == Jitter(minutes) * MinuteMs
     IN \E offset \in Offsets \cup {0} : delay' = minutes * MinuteMs + Clamp(offset, -bound, bound)
  /\ step' = "waiting"
  /\ UNCHANGED <<policy, cli, document, low, high, failures, configured>>

\* The timer fires and a check succeeds or fails.  More failures than there are back-offs count as
\* one more, which is no bound on what happens: the interval serves from there on.
Checked ==
  /\ step = "waiting" /\ step' = "armed"
  /\ failures' \in {0, IF failures > Len(policy.backoff) THEN failures ELSE failures + 1}
  /\ UNCHANGED <<policy, cli, document, low, high, configured, delay>>

IntervalNext == Load \/ Bisect \/ Resolve \/ BackOff \/ Measure \/ Jittered \/ Checked

IntervalSpec == IntervalInit /\ [][IntervalNext]_intervalVars

IntervalTypeOK ==
  /\ policy \in [interval : Int, minInterval : Int, maxJitter : Int, backoff : Seq(Int)]
  /\ step \in {"load", "resolving", "armed", "delaying", "waiting"}
  /\ low \in Nat /\ high \in Nat /\ failures \in Nat /\ configured \in Int /\ delay \in Int

-------------------------------------------------------------------------------
(* Properties *)

\* Every delay is one a timer can wait, whatever was configured, whatever the policy says and
\* whatever the random source returns; and the interval is the one asked for, or the nearest that
\* the policy's minimum and the timer allow: none larger would fit with its jitter
\* (update_check_policy.cpp:15, :62).
FitsTimer == step = "waiting" => delay \in 0..IntMax

IsLargest(maximum) == Fits(maximum) /\ \A minutes \in 0..Limit : Fits(minutes) => minutes <= maximum

ServesRequest ==
  step \notin {"load", "resolving"} =>
    IF Usable(Raw)
    THEN /\ Fits(policy.interval)
         /\ policy.interval # Raw => \/ policy.interval > Raw /\ policy.interval <= policy.minInterval
                                     \/ IsLargest(policy.interval)
         /\ policy.interval >= policy.minInterval \/ IsLargest(policy.interval)
    ELSE policy.interval = configured

DelayFits == FitsTimer /\ ServesRequest
===============================================================================
