-------------------------- MODULE MCUpdateCheckService --------------------------
(***************************************************************************)
(* UpdateCheckService for TLC: small sets of callers, counts, error codes  *)
(* and clock skews.                                                        *)
(***************************************************************************)
EXTENDS UpdateCheckService, TLC

CONSTANTS c1, c2

OneCaller  == {c1}
TwoCallers == {c1, c2}
OneCount   == {1}
TwoCounts  == {0, 1}
OneError   == {"Unknown"}
TwoErrors  == {"Busy", "Unknown"}
NoSkew     == {0}
SetBack    == {-2, 0}
=================================================================================
