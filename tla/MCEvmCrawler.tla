---------------------------- MODULE MCEvmCrawler ----------------------------
(* Small instances of EvmCrawler for TLC.                                  *)
EXTENDS CrawlerRefinement, TLC

CONSTANTS t1, t2

\* Two transactions with one event each, or one transaction with two events.
TwoTxs == {t1, t2}
OneLogEach == {<<t1, 0>>, <<t2, 0>>}
TwoLogsInOne == {<<t1, 0>>, <<t1, 1>>, <<t2, 2>>}

\* Sound with OneLogEach, in runs without liveness properties.
TxSymmetry == Permutations(TwoTxs)

\* Where the calls of crawl() can fail.
AllCalls == Calls
NotTheCursor == {"sleep", "fetch", "blocks", "save", "rollback"}
Nowhere == {}
AtCursor == {"cursor"}
AtRollbackCursor == {"rollbackCursor"}
BetweenCycles == {"sleep"}
Anywhere == Points
Either == {"upserted", "aborted"}
Aborts == {"aborted"}
=============================================================================
