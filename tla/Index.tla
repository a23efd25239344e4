------------------------------- MODULE Index -------------------------------
(***************************************************************************)
(* What the crawler promises its readers, without its mechanism: a table   *)
(* and a claim.  The index claims to hold every transaction of the blocks  *)
(* StartBlock..claimed; it grows block by block with exactly what these    *)
(* blocks hold, and it gives blocks up only when the chain has done so.    *)
(***************************************************************************)
EXTENDS Blockchain

CONSTANTS
    StartBlock,  \* chainConfig.startBlock
    ReorgDepth   \* chainConfig.reorgDepth

VARIABLES
    stored,   \* <<tx, block, hash>>: the transactions in the table
    claimed   \* the last block the index claims to have

indexVars == <<chainVars, stored, claimed>>

(* What the chain holds in the blocks from..to.                            *)
Contents(from, to) ==
    {<<l[1], home[l[1]], hashAt[home[l[1]]]>> :
        l \in {k \in TxLogs : home[k[1]] \in Heights \cap (from..to)}}

IndexInit ==
    /\ ChainInit
    /\ stored = {} /\ claimed = StartBlock - 1

Advance(to) ==
    /\ to > claimed /\ to <= head
    /\ claimed' = to
    /\ stored' = stored \cup Contents(claimed + 1, to)
    /\ UNCHANGED chainVars

(* After a reorganization the blocks from b on are given up, together with *)
(* what is stored of them.                                                 *)
Retreat(b) ==
    /\ forks > 0
    /\ b \in StartBlock..claimed /\ b > claimed - ReorgDepth
    /\ claimed' = b - 1
    /\ stored' = {s \in stored : s[2] < b}
    /\ UNCHANGED chainVars

(* A restart or a lost cursor: blocks are to be read again, and what is    *)
(* stored stays.                                                           *)
Forget(to) ==
    /\ to \in (StartBlock - 1)..claimed
    /\ claimed' = to
    /\ UNCHANGED <<chainVars, stored>>

ChainStep ==
    /\ Mine \/ \E h \in Heights : Reorg(h)
    /\ UNCHANGED <<stored, claimed>>

IndexNext ==
    \/ ChainStep
    \/ \E b \in Heights \cup {0} : Advance(b) \/ Retreat(b) \/ Forget(b)

IndexSpec == IndexInit /\ [][IndexNext]_indexVars

-----------------------------------------------------------------------------

\* Until the chain reorganizes the index holds all it claims and nothing that
\* the chain does not have.
Complete ==
    forks = 0 =>
        /\ Contents(StartBlock, claimed) \subseteq stored
        /\ stored \subseteq Contents(StartBlock, head)

=============================================================================
