---------------------------- MODULE MCDealRaces ----------------------------
(* Small instances of DealRaces for TLC. *)
EXTENDS DealRaces, TLC

CONSTANTS a, c1, c2, c3, d1, d2, d3, d4

SameReader == [d \in Deals |-> a]
\* All loans are asked for by one account, so they are alike.
Interchangeable == Permutations(Calls) \cup Permutations(Deals)
=============================================================================
