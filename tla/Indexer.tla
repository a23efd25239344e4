------------------------------ MODULE Indexer ------------------------------
(***************************************************************************)
(* The crawler and the fallback crawler at work on one table.              *)
(***************************************************************************)
EXTENDS EvmCrawler

CONSTANTS
    Requests, DirectTxs, MaxRequestFaults,  \* see FallbackCrawler
    EarlyRequests  \* requests may come while there is no cursor

ASSUME TxsAssumption == Txs # {}

ASSUME IndexerAssumption ==
    /\ DirectTxs \subseteq Txs /\ MaxRequestFaults \in Nat
    /\ EarlyRequests \in BOOLEAN

VARIABLES request, requestFaults

Fallback == INSTANCE FallbackCrawler

indexerVars == <<vars, request, requestFaults>>

IndexerInit == Init /\ Fallback!FallbackInit

CrawlerStep == Next /\ UNCHANGED <<request, requestFaults>>

RequestStep ==
    /\ Fallback!CheckMissing
    /\ UNCHANGED <<chainVars, cursor, memory, budgets>>

(* POST check-missing/:chainId/:transactionHash                            *)
RequestArrives ==
    /\ EarlyRequests \/ cursor # NoCursor
    /\ \E r \in Requests, t \in Txs : Fallback!Ask(r, t)
    /\ UNCHANGED <<chainVars, cursor, memory, budgets>>

IndexerNext == CrawlerStep \/ RequestStep \/ RequestArrives

IndexerSpec == IndexerInit /\ [][IndexerNext]_indexerVars

(* The crawler always goes on, as in FairSpec; a request need not.          *)
FairIndexerSpec ==
    IndexerSpec /\ WF_indexerVars(Crawl /\ UNCHANGED <<request, requestFaults>>)

-----------------------------------------------------------------------------

\* Every variable of the requests has its type.
RequestTypeOK ==
    /\ request \in [Requests -> Fallback!Request]
    /\ requestFaults \in 0..MaxRequestFaults

\* What a request knows of the chain does not lie above the head, and one that
\* has a receipt has a block: with CountingInv, the inductive invariant of the
\* composition, so that neither crawler spoils what the other relies on.
RequestInv ==
    \A r \in Requests :
        /\ request[r].block <= head /\ request[r].latest <= head
        /\ request[r].at \in {"block", "latest", "save"} => request[r].block # 0
IndexerInv == CountingInv /\ RequestInv

\* Until the chain reorganizes, and with nodes that are up to date, a
\* transaction that a request has reported as found stays in the table.
FoundIsIndexed ==
    Lag = 0 /\ forks = 0 =>
        \A r \in Requests : request[r].at \in Fallback!Found => Indexed(request[r].tx)

\* Neither crawler takes a row from below one that stays, and the two never
\* leave two rows of one transaction.
TopLeavesFirst == [][Changes(rows, rows')]_indexerVars

\* check-missing answers found = false only for a transaction that is not in
\* the table.
Answering(r) == request[r].at \notin Fallback!Answers /\ request'[r].at \in Fallback!Answers
NotFoundIsMissing ==
    [][\A r \in Requests :
         Answering(r) /\ request'[r].at \notin Fallback!Found =>
            \A row \in rows : row.tx # request[r].tx]_indexerVars

=============================================================================
