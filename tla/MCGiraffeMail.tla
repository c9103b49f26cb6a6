--------------------------- MODULE MCGiraffeMail ---------------------------
(* GiraffeMail with the symmetries TLC may use in runs without liveness. *)
EXTENDS GiraffeMail, TLC

Symmetry == Permutations(Body) \cup Permutations(Run)
=============================================================================
