------------------------- MODULE MCDigestLifecycle -------------------------
(* A Profile that is live and whose digest was just enabled. *)
EXTENDS DigestHistories, TLC

MCInit ==
  /\ HistoryInit
  /\ profile.live /\ profile.articles # {}
  /\ settings = [enabled |-> TRUE, style |-> NoDigest.style,
                 window |-> Articles]

MCSpec == MCInit /\ [][HistoryNext]_<<vars, histories>>
MCFairSpec == MCSpec /\ DigestFairness

Symmetry == Permutations(Evaluators) \union Permutations(Attempts)
            \union Permutations(Articles)
=============================================================================
