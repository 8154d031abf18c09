---------------------------- MODULE MCUpdateMonitor ----------------------------
(***************************************************************************)
(* UpdateMonitor for TLC.                                                  *)
(***************************************************************************)
EXTENDS UpdateMonitor, TLC
===============================================================================
