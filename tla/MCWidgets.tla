------------------------------ MODULE MCWidgets -----------------------------
(***************************************************************************)
(* Two calls and three widgets on a grid of three columns and two rows:    *)
(* a wide widget leaves one column of its row, a narrow one leaves two.    *)
(***************************************************************************)
EXTENDS Widgets, TLC

CONSTANTS t1, t2, w1, w2, w3

MCAutoSizes == {<<1, 1>>, <<2, 1>>}
MCByHand == {[x |-> 1, y |-> 0, cols |-> 1, rows |-> 1], [x |-> 1, y |-> 0, cols |-> 2, rows |-> 2]}
MCSymmetry == Permutations({t1, t2}) \cup Permutations({w1, w2, w3})

=============================================================================
