------------------------------ MODULE MCService ------------------------------
(* Requests may be exchanged for one another. *)
EXTENDS Service, TLC

RequestSymmetry == Permutations(Request)
=============================================================================
