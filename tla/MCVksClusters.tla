---------------------------- MODULE MCVksClusters ---------------------------
(***************************************************************************)
(* Two calls over three items that come and go, in pages of two: an item   *)
(* can cross the boundary in both directions.                              *)
(***************************************************************************)
EXTENDS VksClusters

CONSTANTS t1, t2, a, b, c

MCSymmetry == Permutations({t1, t2}) \cup Permutations({a, b, c})

=============================================================================
