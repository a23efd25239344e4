----------------------------- MODULE MCIndexer -----------------------------
(* Small instances of Indexer for TLC.                                     *)
EXTENDS Indexer, MCEvmCrawler

CONSTANTS r1, r2

OneRequest == {r1}
TwoRequests == {r1, r2}

\* Sound in runs without liveness properties.
RequestSymmetry == Permutations(TwoRequests)

OnlyFirst == {t1}
=============================================================================
