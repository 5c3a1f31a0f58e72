------------------------------- MODULE PagesMC -------------------------------
(* Three rows, two of which the viewer marked. *)
EXTENDS Pages

CONSTANTS x1, x2, x3

Symmetry == Permutations({x1, x3})
=============================================================================
