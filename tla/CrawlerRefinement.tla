------------------------- MODULE CrawlerRefinement -------------------------
(***************************************************************************)
(* EvmCrawler implements Index: how the table and the claim are read off   *)
(* the state of the crawler.                                               *)
(***************************************************************************)
EXTENDS EvmCrawler

StoredTxs == {<<r.tx, r.block, r.hash>> : r \in rows}

(* The claim moves with the statement that changes the table; the cursor   *)
(* and lastProcessedBlock follow.  A process that is not up, or has not    *)
(* loaded the cursor, claims nothing.                                      *)
Claimed ==
    CASE pc \in {"down", "load", "loadDb"} -> StartBlock - 1
      [] pc = "cursor" -> toBlock
      [] pc = "rollbackCursor" -> deepestReorg - 1
      [] OTHER -> lastProcessedBlock

Abstract == INSTANCE Index WITH stored <- StoredTxs, claimed <- Claimed

\* The crawler's table and claim change only as Index allows: a batch adds
\* exactly what its blocks hold and moves the claim to its end, a rollback
\* takes both back by at most ReorgDepth blocks.
ImplementsIndex == Abstract!IndexSpec

(* What the claim rests on besides GapInv.                                 *)
RowsTrue ==
    \A r \in rows : r.block = home[r.tx] /\ r.hash = 0 /\ r.block >= StartBlock
BatchTrue ==
    /\ \A e \in batch : e.tx \in Emitting
    /\ pc = "save" => \A e \in batch : blockMap[e.block] = 0
    /\ pc \in {"fetch", "blocks", "save", "cursor"} => fromBlock <= toBlock
ClaimBounds ==
    /\ cursor # NoCursor => cursor >= StartBlock - 1
    /\ pc \notin {"down", "load", "loadDb"} => lastProcessedBlock >= StartBlock - 1

\* The inductive invariant behind the refinement, with GapInv: until the chain
\* reorganizes each row has the block and the hash of its transaction, the
\* blocks of a batch are cached by the time it is saved, and neither the cursor
\* nor lastProcessedBlock falls below the first block.
ClaimInv == Lag = 0 /\ forks = 0 => RowsTrue /\ BatchTrue /\ ClaimBounds

-----------------------------------------------------------------------------
(* What carries the index through reorganizations.                         *)

\* The crawler sees every reorganization: it happens between two cycles and is no
\* deeper than the window that checkForReorg compares, the cached hashes are not
\* lost in a crash, and neither the search nor the second half of a rollback fails.
ReorgsAreSeen ==
    /\ Lag = 0 /\ MaxCrashes = 0 /\ MaxReorgDepth <= ReorgDepth
    /\ ReorgWhile \subseteq Starting \cup {"start", "sleep"}
    /\ FaultPoints \cap {"check", "rollbackCursor"} = {}

(* The cached blocks that the chain has abandoned: what is stored below    *)
(* them is as on the chain, what is stored from them on may not be.        *)
Mismatched == {b \in Cached : blockMap[b] # hashAt[b]}
Doubtful(b) == \E c \in Mismatched : c <= b
OnChain(r) == home[r.tx] = r.block /\ hashAt[r.block] = r.hash

FreshStart ==
    /\ ~ lastIsString
    /\ pc \in Starting \cup {"start"} => rows = {} /\ Cached = {}
    /\ pc \in Starting => cursor = NoCursor
    /\ pc = "start" => lastProcessedBlock = StartBlock - 1
    /\ pc \notin Starting => lastProcessedBlock >= StartBlock - 1
MismatchesFound ==
    /\ \A h \in Heights : hashAt[h] <= forks
    /\ \A b \in Cached : b >= StartBlock /\ blockMap[b] <= forks
    /\ \A b \in Mismatched :
         /\ b <= lastProcessedBlock /\ b > lastProcessedBlock - ReorgDepth
         /\ \A c \in Cached : b <= c => c \in Mismatched
    /\ pc \notin Idle \cup {"check", "rollback"} => Mismatched = {}
    /\ pc = "check" => probe = IF deepestReorg = 0 THEN lastProcessedBlock
                                                    ELSE deepestReorg - 1
    /\ pc \in {"check", "rollback"} /\ deepestReorg # 0 => deepestReorg \in Mismatched
    /\ pc = "rollback" => \A c \in Mismatched : c >= deepestReorg
TableMatches ==
    /\ \A r \in rows : r.block >= StartBlock /\ (OnChain(r) \/ Doubtful(r.block))
    /\ \A t \in Emitting :
         home[t] \in StartBlock..Claimed => Indexed(t) \/ Doubtful(home[t])
WindowCached ==
    /\ \A b \in StartBlock..Claimed : b > head - ReorgDepth => b \in Cached
    /\ pc = "save" => \A b \in fromBlock..toBlock : b > head - ReorgDepth => b \in Cached
    /\ pc \notin Starting \cup Idle =>
         (\A b \in Cached : b <= latestBlock) /\ (\A r \in rows : r.block <= latestBlock)
    /\ pc = "sleep" =>
         (\A b \in Cached : b <= lastProcessedBlock)
           /\ (\A r \in rows : r.block <= lastProcessedBlock)
BatchMatches ==
    /\ pc \in Saving =>
         /\ \A e \in batch : e.tx \in Emitting /\ e.block = home[e.tx]
         /\ \A t \in Emitting :
              home[t] \in Heights \cap (fromBlock..toBlock) => \E e \in batch : e.tx = t
    /\ pc = "save" => \A e \in batch : blockMap[e.block] = hashAt[e.block]

\* The inductive invariant behind the refinement where the chain does reorganize:
\* what is stored or claimed below the first mismatching block is as on the
\* chain, and that block is in the window in which the next check finds it.
MatchInv ==
    ReorgsAreSeen =>
        FreshStart /\ MismatchesFound /\ TableMatches /\ WindowCached /\ BatchMatches

=============================================================================
