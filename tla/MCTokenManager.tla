-------------------------- MODULE MCTokenManager --------------------------
(***************************************************************************)
(* Three tasks share one token manager.  The clock runs long enough for a  *)
(* token to be issued, used, expire and be replaced.                       *)
(***************************************************************************)
EXTENDS TokenManager

\* shorter than the margin (never cached), and longer
MCLifetimes == {1, 3}

=============================================================================
