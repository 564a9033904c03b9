------------------------- MODULE MCDiscoveryCache -------------------------
(***************************************************************************)
(* Two overlapping calls by two identities, on one list each: a key is     *)
(* shared by the calls of one identity only.  What the servers' handlers   *)
(* do with the lists they cache is evaluated with it.                      *)
(***************************************************************************)
EXTENDS DiscoveryCache, ToolHabits, TLC

CONSTANTS t1, t2, service, alice

\* calls are interchangeable, and so are identities
MCSymmetry == Permutations({t1, t2}) \cup Permutations({service, alice})

=============================================================================
