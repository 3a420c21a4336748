---------------------------- MODULE MCPublishing ----------------------------
(* A small instance of Publishing for TLC. *)
EXTENDS Publishing, TLC

CONSTANTS p1, p2, p3, e1

PublisherSymmetry == Permutations(Publishers)
=============================================================================
