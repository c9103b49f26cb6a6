------------------------------- MODULE MCFsck -------------------------------
(* Fsck with the symmetries of its accounts and writers. *)
EXTENDS Fsck, TLC

Symmetry == Permutations(Account) \cup Permutations(Writer)
=============================================================================
