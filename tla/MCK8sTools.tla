---------------------------- MODULE MCK8sTools ----------------------------
(***************************************************************************)
(* Two calls by two identities on one cluster with one object; manifests   *)
(* of up to two documents, so that one can fail half way.                  *)
(***************************************************************************)
EXTENDS K8sTools, TLC

CONSTANTS t1, t2, service, alice, web

MCSymmetry == Permutations({t1, t2}) \cup Permutations({service, alice})

=============================================================================
