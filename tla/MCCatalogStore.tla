---------------------------- MODULE MCCatalogStore ----------------------------
(***************************************************************************)
(* CatalogStore for TLC.  Generations bounds the saves of a run.           *)
(***************************************************************************)
EXTENDS CatalogStore, TLC

CONSTANTS r1, r2, b1, b2, k1, k2, g1, g2, g3

OneReader == {r1}
TwoReaders == {r1, r2}
TwoBytes == {b1, b2}
OneCatalog == {k1}
TwoCatalogs == {k1, k2}
TwoGenerations == {g1, g2}
ThreeGenerations == {g1, g2, g3}
NoFaults == {}
RemoveFails == {"remove"}
OpenFails == {"open"}

Symmetry ==
  Permutations(TwoReaders) \cup Permutations(TwoBytes)
    \cup Permutations(TwoCatalogs) \cup Permutations(ThreeGenerations)
===============================================================================
