------------------------- MODULE MCCollectionWorker -------------------------
(* One endpoint, two executions in flight, one recovery loop.              *)
EXTENDS CollectionWorker, TLC

Symmetry == Permutations(Tasks) \union Permutations(Recoverers)
=============================================================================
