------------------------- MODULE MCCollectionCapacity -------------------------
(* Targets and limits for checking CollectionCapacity.                     *)
EXTENDS CollectionCapacity

CONSTANTS s1, h1

MCLimit == [global |-> 2, source |-> 1, host |-> 1]

\* The second execution is refused by its Source's slots with a global one in hand.
MCTargets == {[source |-> s1, host |-> h1]}
CapacityFairSpec == CapacitySpec /\ CapacityFairness
=============================================================================
