---------------------------- MODULE MCNetworkAcl ----------------------------
(***************************************************************************)
(* Two updates of one ACL.  The rules: a bookend, another rule with its    *)
(* sequence number, and an ordinary one.  The bookends are alike, each     *)
(* merged by its own key, so one shows what happens to any.                *)
(***************************************************************************)
EXTENDS NetworkAcl

CONSTANTS t1, t2, a1, allow0, deny0, web

=============================================================================
