---------------------------- MODULE MCAssistant ----------------------------
(* Instances of Assistant for TLC. *)
EXTENDS Assistant, TLC

CONSTANTS t1, t2, c1, c2

Symmetric == Permutations(Replies)
=============================================================================
