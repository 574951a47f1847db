------------------------- MODULE MCSessionNavigation -------------------------
(* Instances of SessionNavigation for TLC. *)
EXTENDS SessionNavigation, TLC

Symmetry == Permutations(Images)
=============================================================================
