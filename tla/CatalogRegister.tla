---------------------------- MODULE CatalogRegister ----------------------------
(***************************************************************************)
(* What publication of a checked catalog promises: a snapshot and the      *)
(* repository databases it was computed from are one value.  A save puts   *)
(* the pair it was given in place of the published one in a single step,   *)
(* or fails, or dies, and then the published pair stays as it was.         *)
(***************************************************************************)
CONSTANTS Pairs, None

VARIABLES
  published,  \* the pair a reader finds, or None
  pending     \* the pair being saved, or None

vars == <<published, pending>>

Init == published \in Pairs \cup {None} /\ pending = None

Offer   == pending = None /\ pending' \in Pairs /\ UNCHANGED published
Publish == pending # None /\ published' = pending /\ UNCHANGED pending
Close   == pending' = None /\ UNCHANGED published

Next == Offer \/ Publish \/ Close

Spec == Init /\ [][Next]_vars
================================================================================
