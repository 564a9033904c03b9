--------------------------- MODULE MCBaseClient ---------------------------
(***************************************************************************)
(* Two concurrent calls, each as one of two users or as the service        *)
(* account; one retry, so that each loop has a first and a last attempt.   *)
(***************************************************************************)
EXTENDS BaseClient, TLC

CONSTANTS c1, c2, alice, bob

\* long enough to be cached for the whole run; expiry is TokenManager's subject
MCLifetimes == {9}

\* calls are interchangeable, and so are users
MCSymmetry == Permutations({c1, c2}) \cup Permutations({alice, bob})

=============================================================================
