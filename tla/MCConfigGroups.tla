--------------------------- MODULE MCConfigGroups ---------------------------
(***************************************************************************)
(* Two calls on one group and two instances that come and go.              *)
(***************************************************************************)
EXTENDS ConfigGroups, TLC

CONSTANTS t1, t2, db1, db2

MCSymmetry == Permutations({t1, t2}) \cup Permutations({db1, db2})

=============================================================================
