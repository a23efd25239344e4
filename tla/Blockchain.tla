----------------------------- MODULE Blockchain -----------------------------
(***************************************************************************)
(* The EVM chain and the JSON-RPC nodes in front of it, as the crawler     *)
(* sees them.  None of this is code of the repository: it is what the      *)
(* calls getBlockNumber, getBlock and queryFilter of                       *)
(* evm-crawler.service.ts can observe.                                     *)
(*                                                                         *)
(* A block is identified by its height and by the fork that produced it,   *)
(* so its hash is modelled by that fork's number.                          *)
(***************************************************************************)
EXTENDS Integers

CONSTANTS
    Txs,            \* transactions that call the indexed contract
    MaxLog,         \* bound: the highest log index
    TxLogs,         \* <<tx, log>>: the Deposit and Withdraw logs each one emits
    MaxHeight,      \* bound: the height at which the chain stops growing
    MaxForks,       \* bound: the number of reorganizations
    MaxReorgDepth,  \* the deepest reorganization, in blocks from the head
    Lag,            \* how many blocks a node that answers may be behind
    EventFilter     \* what queryFilter makes of a flat list of two event names

ASSUME ChainAssumption ==
    /\ MaxHeight \in Nat /\ MaxForks \in Nat /\ MaxLog \in Nat
    /\ MaxReorgDepth \in Nat /\ Lag \in Nat
    /\ TxLogs \subseteq Txs \X (0..MaxLog)
    /\ EventFilter \in {"anyOf", "inOrder"}

VARIABLES
    head,    \* height of the canonical chain
    hashAt,  \* height -> hash of the canonical block there
    home,    \* transaction -> height of its block, 0 while it is in none
    forks    \* reorganizations so far

chainVars == <<head, hashAt, home, forks>>

Heights == 1..MaxHeight
Hashes == 0..MaxForks
NoHash == -1

ChainTypeOK ==
    /\ head \in 0..MaxHeight
    /\ hashAt \in [Heights -> Hashes]
    /\ home \in [Txs -> 0..MaxHeight]
    /\ \A t \in Txs : home[t] <= head
    /\ forks \in Hashes

ChainInit ==
    /\ head = 0
    /\ hashAt = [h \in Heights |-> 0]
    /\ home = [t \in Txs |-> 0]
    /\ forks = 0

(* A new block with any of the transactions that are in no block.          *)
Mine ==
    /\ head < MaxHeight
    /\ head' = head + 1
    /\ hashAt' = [hashAt EXCEPT ![head + 1] = forks]
    /\ \E included \in SUBSET {t \in Txs : home[t] = 0} :
         home' = [t \in Txs |-> IF t \in included THEN head + 1 ELSE home[t]]
    /\ UNCHANGED forks

(* The blocks from h on give way to others; a transaction that was in one  *)
(* of them is re-mined in any of the new ones, or in none yet.             *)
Reorg(h) ==
    /\ forks < MaxForks
    /\ h <= head /\ head - h < MaxReorgDepth
    /\ forks' = forks + 1
    /\ hashAt' = [b \in Heights |-> IF b \in h..head THEN forks + 1 ELSE hashAt[b]]
    /\ \E place \in [{t \in Txs : home[t] = 0 \/ home[t] >= h} -> {0} \cup h..head] :
         home' = [t \in Txs |-> IF t \in DOMAIN place THEN place[t] ELSE home[t]]
    /\ UNCHANGED head

-----------------------------------------------------------------------------
(* What a node answers.  The nodes behind the rpcUrls of one crawler may   *)
(* each be up to Lag blocks behind the head.                               *)

NodeHeads == {n \in 0..head : head - n <= Lag}

(* The logs that the filter ['Deposit', 'Withdraw'] selects.  "anyOf" is    *)
(* what its caller intends: the first topic is one of the two events.      *)
(* "inOrder" is a list of topics by position: the first topic is Deposit   *)
(* and the second Withdraw.  The second topic of either event is the       *)
(* address of a user, so no log has these two.                             *)
Selected == IF EventFilter = "anyOf" THEN TxLogs ELSE {}

(* queryFilter(..., from, to) on a node whose head is n.                   *)
LogsIn(from, to, n) ==
    {[tx |-> l[1], log |-> l[2], block |-> home[l[1]]] :
        l \in {k \in Selected : home[k[1]] \in from..to /\ home[k[1]] \in 1..n}}

(* getBlock(b)?.hash on a node whose head is n.                            *)
HashOf(b, n) == IF b \in 1..n THEN hashAt[b] ELSE NoHash

=============================================================================
