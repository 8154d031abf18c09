----------------------------- MODULE MCUpdatesPage -----------------------------
(***************************************************************************)
(* UpdatesPage for TLC.                                                    *)
(***************************************************************************)
EXTENDS UpdatesPage, TLC
===============================================================================
