------------------------------- MODULE MCDeal -------------------------------
(* Small instances of the exchange for TLC. *)
EXTENDS DealCustody, TLC

CONSTANTS o, x, y, b1, b2, d1, d2, d3, d4

OwnedByO == [b \in Books |-> o]
NoSets == [b \in Books |-> {}]
OneSet == [b \in Books |-> Books]
OneBookLimit == [l \in Levels |-> 1]
DealSymmetry == Permutations(Deals)
=============================================================================
