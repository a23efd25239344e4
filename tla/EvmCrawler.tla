----------------------------- MODULE EvmCrawler -----------------------------
(***************************************************************************)
(* EvmCrawlerService (src/modules/evm-crawler/services/                    *)
(* evm-crawler.service.ts): the loop that copies the Deposit and Withdraw  *)
(* events of one contract from the chain into the transactions table and   *)
(* remembers in Redis how far it got.                                      *)
(*                                                                         *)
(* A definition whose name has an underscore is a plausible mistake in the *)
(* definition that follows it; no specification uses it.                   *)
(*                                                                         *)
(* The service is one asynchronous task.  An action of this module is the  *)
(* code from the resumption after one await to the answer of the next, so  *)
(* the chain may move, a call may fail and the process may die between any *)
(* two of them.  pc names the call the task is waiting for.                *)
(***************************************************************************)
EXTENDS Blockchain, TransactionTable

CONSTANTS
    StartBlock,        \* chainConfig.startBlock
    BatchSize,         \* chainConfig.batchSize
    ReorgDepth,        \* chainConfig.reorgDepth
    ConflictOutcomes,  \* what the upsert after a unique violation may do
    FaultPoints,       \* the awaited calls that may fail
    MaxFaults,         \* bound: failing calls
    ReorgWhile,        \* the control points at which the chain may reorganize
    MaxCrashes,        \* bound: crashes of the process
    MaxCursorLosses    \* bound: losses of the Redis key

Starting == {"down", "load", "loadDb"}
Idle == {"start", "sleep", "retry"}
Calls == Idle \cup {"load", "loadDb", "check", "rollback", "rollbackCursor",
                    "fetch", "blocks", "save", "cursor"}
Points == Calls \cup {"down"}

ASSUME CrawlerAssumption ==
    /\ StartBlock \in Nat \ {0} /\ BatchSize \in Nat \ {0} /\ ReorgDepth \in Nat
    /\ ConflictOutcomes \subseteq {"upserted", "aborted"}
    /\ FaultPoints \subseteq Calls /\ ReorgWhile \subseteq Points
    /\ MaxFaults \in Nat /\ MaxCrashes \in Nat /\ MaxCursorLosses \in Nat

VARIABLES
    rows,                \* the transactions table
    cursor,              \* the Redis key last_processed_block:<chainId>
    pc,                  \* the call the task waits for
    lastProcessedBlock,
    lastIsString,        \* lastProcessedBlock holds a string (see LoadFromDb)
    blockMap,            \* cached block hashes, NoHash where none is cached
    latestBlock, fromBlock, toBlock,  \* locals of crawl()
    batch,               \* the events of the current batch
    probe,               \* checkForReorg(): the next block number it looks at
    deepestReorg,        \* checkForReorg(): 0 stands for null
    faults, crashes, cursorLosses     \* environment events so far

durable == <<rows, cursor>>
locals == <<latestBlock, fromBlock, toBlock, batch, probe, deepestReorg>>
memory == <<pc, lastProcessedBlock, lastIsString, blockMap, locals>>
budgets == <<faults, crashes, cursorLosses>>
vars == <<chainVars, durable, memory, budgets>>

NoCursor == -1
NothingCached == [b \in Heights |-> NoHash]
Cached == {b \in Heights : blockMap[b] # NoHash}

Smaller(a, b) == IF a < b THEN a ELSE b

Init ==
    /\ ChainInit
    /\ rows = {} /\ cursor = NoCursor
    /\ pc = "down" /\ lastProcessedBlock = 0 /\ lastIsString = FALSE
    /\ blockMap = NothingCached
    /\ latestBlock = 0 /\ fromBlock = 0 /\ toBlock = 0
    /\ batch = {} /\ probe = 0 /\ deepestReorg = 0
    /\ faults = 0 /\ crashes = 0 /\ cursorLosses = 0

(* The locals of crawl() are gone when it ends; they go back to their      *)
(* initial values so that they do not tell states apart.                   *)
ForgetLocals ==
    /\ latestBlock' = 0 /\ fromBlock' = 0 /\ toBlock' = 0
    /\ batch' = {} /\ probe' = 0 /\ deepestReorg' = 0

-----------------------------------------------------------------------------
(* start() and loadLastProcessedBlock()                                    *)

(* start(): the process comes up and asks Redis for the cursor.            *)
Start ==
    /\ pc = "down"
    /\ pc' = "load"
    /\ UNCHANGED <<chainVars, durable, lastProcessedBlock, lastIsString,
                   blockMap, locals, budgets>>

LoadCursor_Skips ==
    /\ pc = "load"
    /\ IF cursor = NoCursor
         THEN pc' = "loadDb" /\ UNCHANGED lastProcessedBlock
         ELSE pc' = "start" /\ lastProcessedBlock' = cursor + 1
    /\ UNCHANGED <<chainVars, durable, lastIsString, blockMap, locals, budgets>>
LoadCursor ==
    /\ pc = "load"
    /\ IF cursor = NoCursor
         THEN pc' = "loadDb" /\ UNCHANGED lastProcessedBlock
         ELSE pc' = "start" /\ lastProcessedBlock' = cursor
    /\ UNCHANGED <<chainVars, durable, lastIsString, blockMap, locals, budgets>>

(* The block to resume from without a cursor: the highest of the table.    *)
ResumesAt(b) ==
    \/ rows = {} /\ b = StartBlock - 1
    \/ \E r \in rows : b = r.block /\ \A s \in rows : s.block <= r.block

(* No cursor in Redis: the highest block of the table is written there.    *)
(* block_number is a bigint column, which the driver returns as a string.  *)
LoadFromDb ==
    /\ pc = "loadDb"
    /\ pc' = "start"
    /\ ResumesAt(cursor')
    /\ lastProcessedBlock' = cursor' /\ lastIsString' = (rows # {})
    /\ UNCHANGED <<chainVars, rows, blockMap, locals, budgets>>

Fault(point) ==
    /\ pc = point /\ point \in FaultPoints
    /\ faults < MaxFaults
    /\ faults' = faults + 1
    /\ UNCHANGED <<crashes, cursorLosses>>

(* Either read, or the redis.set of LoadFromDb, fails; or the commit does   *)
(* after the set has taken effect.                                         *)
LoadFails ==
    /\ \/ (Fault("load") \/ Fault("loadDb")) /\ UNCHANGED cursor
       \/ Fault("loadDb") /\ ResumesAt(cursor')
    /\ pc' = "start"
    /\ lastProcessedBlock' = StartBlock - 1
    /\ UNCHANGED <<chainVars, rows, lastIsString, blockMap, locals>>

-----------------------------------------------------------------------------
(* crawl()                                                                 *)

(* The last block of the batch that starts at from.                       *)
BatchEnd_Longer(from, latest) == Smaller(from + BatchSize, latest)
BatchEnd_Uncapped(from, latest) == from + BatchSize - 1
BatchEnd(from, latest) == Smaller(from + BatchSize - 1, latest)

(* The two timers, or start(), run crawl(): getBlockNumber() answers n.    *)
(* A string lastProcessedBlock makes `lastProcessedBlock + 1` append the   *)
(* digit 1.                                                                *)
GetLatestBlock_CountsFromOne ==
    /\ pc \in Idle
    /\ pc' = "check"
    /\ \E n \in NodeHeads :
         /\ latestBlock' = n + 1
         /\ fromBlock' = lastProcessedBlock + 1
         /\ toBlock' = BatchEnd(fromBlock', n + 1)
    /\ batch' = {} /\ probe' = lastProcessedBlock /\ deepestReorg' = 0
    /\ UNCHANGED <<chainVars, durable, lastProcessedBlock, lastIsString,
                   blockMap, budgets>>
GetLatestBlock ==
    /\ pc \in Idle
    /\ pc' = "check"
    /\ \E n \in NodeHeads :
         /\ latestBlock' = n
         /\ fromBlock' = IF lastIsString THEN 10 * lastProcessedBlock + 1
                                         ELSE lastProcessedBlock + 1
         /\ toBlock' = BatchEnd(fromBlock', n)
    /\ batch' = {} /\ probe' = lastProcessedBlock /\ deepestReorg' = 0
    /\ UNCHANGED <<chainVars, durable, lastProcessedBlock, lastIsString,
                   blockMap, budgets>>

(* while (fromBlock <= latestBlock) *)
More_Strict(from, latest) == from < latest
More(from, latest) == from <= latest

(* The end of a pass over the while loop: the next batch, or the           *)
(* restartDelay timer.                                                     *)
Continue(from, latest) ==
    IF More(from, latest)
      THEN /\ pc' = "fetch"
           /\ fromBlock' = from
           /\ toBlock' = BatchEnd(from, latest)
           /\ batch' = {} /\ probe' = 0 /\ deepestReorg' = 0
           /\ UNCHANGED latestBlock
      ELSE pc' = "sleep" /\ ForgetLocals

(* Blocks of the window that are cached and not yet compared.              *)
ToCompare_Uncached ==
    {b \in Heights : /\ b <= probe /\ b > lastProcessedBlock - ReorgDepth
                     /\ b >= StartBlock}
ToCompare_Shallow ==
    {b \in Cached : /\ b <= probe /\ b > lastProcessedBlock - ReorgDepth + 1
                    /\ b >= StartBlock}
ToCompare ==
    {b \in Cached : /\ b <= probe /\ b > lastProcessedBlock - ReorgDepth
                    /\ b >= StartBlock}

ReorgCheckEnds(deepest) ==
    IF deepest = 0
      THEN Continue(fromBlock, latestBlock)
      ELSE /\ pc' = "rollback"
           /\ deepestReorg' = deepest
           /\ UNCHANGED <<latestBlock, fromBlock, toBlock, batch, probe>>

(* checkForReorg(): one getBlock per cached block, from the newest down,   *)
(* until one still has its hash.  An error ends the search as well.        *)
CheckForReorg ==
    /\ pc = "check"
    /\ \/ /\ ToCompare = {}
          /\ ReorgCheckEnds(deepestReorg)
          /\ UNCHANGED faults
       \/ \E b \in ToCompare, n \in NodeHeads :
            /\ \A c \in ToCompare : c <= b
            /\ IF HashOf(b, n) # blockMap[b]
                 THEN /\ deepestReorg' = b /\ probe' = b - 1
                      /\ UNCHANGED <<pc, latestBlock, fromBlock, toBlock, batch>>
                 ELSE ReorgCheckEnds(deepestReorg)
            /\ UNCHANGED faults
       \/ /\ ToCompare # {} /\ Fault("check")
          /\ ReorgCheckEnds(deepestReorg)
    /\ UNCHANGED <<chainVars, durable, lastProcessedBlock, lastIsString,
                   blockMap, crashes, cursorLosses>>

(* rollbackReorg(): the delete commits, and the cached hashes go with it.  *)
RollbackDelete ==
    /\ pc = "rollback"
    /\ pc' = "rollbackCursor"
    /\ rows' = RolledBack(rows, deepestReorg)
    /\ blockMap' = [b \in Heights |-> IF b < deepestReorg THEN blockMap[b] ELSE NoHash]
    /\ UNCHANGED <<chainVars, cursor, lastProcessedBlock, lastIsString, locals, budgets>>

RollbackCursor ==
    /\ pc = "rollbackCursor"
    /\ cursor' = deepestReorg - 1
    /\ lastProcessedBlock' = deepestReorg - 1
    /\ Continue(deepestReorg, latestBlock)
    /\ UNCHANGED <<chainVars, rows, lastIsString, blockMap, budgets>>

(* fetchEvents(): a string fromBlock is no block tag, and is refused.      *)
FetchEvents ==
    /\ pc = "fetch"
    /\ IF lastIsString
         THEN pc' = "retry" /\ ForgetLocals
         ELSE /\ pc' = "blocks"
              /\ \E n \in NodeHeads : batch' = LogsIn(fromBlock, toBlock, n)
              /\ UNCHANGED <<latestBlock, fromBlock, toBlock, probe, deepestReorg>>
    /\ UNCHANGED <<chainVars, durable, lastProcessedBlock, lastIsString,
                   blockMap, budgets>>

(* saveBlockMap(): the blocks with events and those of the reorg window    *)
(* that are not cached yet.                                                *)
SaveBlockMap_WindowOnly ==
    /\ pc = "blocks"
    /\ pc' = "save"
    /\ \E n \in NodeHeads :
         blockMap' = [b \in Heights |->
           IF /\ blockMap[b] = NoHash
              /\ b \in fromBlock..toBlock /\ b > latestBlock - ReorgDepth
             THEN HashOf(b, n) ELSE blockMap[b]]
    /\ UNCHANGED <<chainVars, durable, lastProcessedBlock, lastIsString, locals, budgets>>
SaveBlockMap ==
    /\ pc = "blocks"
    /\ pc' = "save"
    /\ \E n \in NodeHeads :
         blockMap' = [b \in Heights |->
           IF /\ blockMap[b] = NoHash
              /\ \/ \E e \in batch : e.block = b
                 \/ b \in fromBlock..toBlock /\ b > latestBlock - ReorgDepth
             THEN HashOf(b, n) ELSE blockMap[b]]
    /\ UNCHANGED <<chainVars, durable, lastProcessedBlock, lastIsString, locals, budgets>>

(* saveState(): one database transaction.  When the insert violates the    *)
(* unique index, upserts follow inside the same transaction: "upserted" is *)
(* what they are written for, "aborted" is an error that undoes it all.    *)
SaveState_RecountsFirst ==
    /\ pc = "save"
    /\ LET new == NewRows(batch, latestBlock, blockMap)
           known == Reconfirmed(rows, latestBlock)
           Commit(table) == /\ pc' = "cursor"
                            /\ rows' = table
                            /\ UNCHANGED locals
       IN IF ~ Conflicts(rows, new)
            THEN Commit(known \cup new)
            ELSE \/ "upserted" \in ConflictOutcomes /\ Commit(Upserted(known, new))
                 \/ /\ "aborted" \in ConflictOutcomes
                    /\ pc' = "retry" /\ ForgetLocals
                    /\ UNCHANGED rows
    /\ UNCHANGED <<chainVars, cursor, lastProcessedBlock, lastIsString,
                   blockMap, budgets>>
SaveState ==
    /\ pc = "save"
    /\ LET new == NewRows(batch, latestBlock, blockMap)
           Commit(table) == /\ pc' = "cursor"
                            /\ rows' = Reconfirmed(table, latestBlock)
                            /\ UNCHANGED locals
       IN IF ~ Conflicts(rows, new)
            THEN Commit(rows \cup new)
            ELSE \/ "upserted" \in ConflictOutcomes /\ Commit(Upserted(rows, new))
                 \/ /\ "aborted" \in ConflictOutcomes
                    /\ pc' = "retry" /\ ForgetLocals
                    /\ UNCHANGED rows
    /\ UNCHANGED <<chainVars, cursor, lastProcessedBlock, lastIsString,
                   blockMap, budgets>>

(* updateLastProcessedBlock(toBlock), the trimming of blockMap, and the    *)
(* bounds of the next batch.                                               *)
UpdateCursor_ToLatest ==
    /\ pc = "cursor"
    /\ cursor' = latestBlock
    /\ lastProcessedBlock' = toBlock
    /\ blockMap' = [b \in Heights |->
                      IF b > latestBlock - ReorgDepth THEN blockMap[b] ELSE NoHash]
    /\ Continue(toBlock + 1, latestBlock)
    /\ UNCHANGED <<chainVars, rows, lastIsString, budgets>>
UpdateCursor ==
    /\ pc = "cursor"
    /\ cursor' = toBlock
    /\ lastProcessedBlock' = toBlock
    /\ blockMap' = [b \in Heights |->
                      IF b > latestBlock - ReorgDepth THEN blockMap[b] ELSE NoHash]
    /\ Continue(toBlock + 1, latestBlock)
    /\ UNCHANGED <<chainVars, rows, lastIsString, budgets>>

(* Any other awaited call fails before it takes effect: crawl() catches    *)
(* the error and runs again in five seconds.                               *)
CallFails ==
    /\ \E point \in Idle \cup {"rollback", "rollbackCursor", "fetch", "blocks",
                               "save", "cursor"} : Fault(point)
    /\ pc' = "retry" /\ ForgetLocals
    /\ UNCHANGED <<chainVars, durable, lastProcessedBlock, lastIsString, blockMap>>

-----------------------------------------------------------------------------
(* The environment                                                         *)

(* The process dies and loses its memory; the supervisor restarts it.      *)
Crash ==
    /\ pc # "down"
    /\ crashes < MaxCrashes
    /\ crashes' = crashes + 1
    /\ pc' = "down" /\ lastProcessedBlock' = 0 /\ lastIsString' = FALSE
    /\ blockMap' = NothingCached
    /\ ForgetLocals
    /\ UNCHANGED <<chainVars, durable, faults, cursorLosses>>

(* Redis comes back without the key.                                       *)
LoseCursor ==
    /\ cursor # NoCursor
    /\ cursorLosses < MaxCursorLosses
    /\ cursorLosses' = cursorLosses + 1
    /\ cursor' = NoCursor
    /\ UNCHANGED <<chainVars, rows, memory, faults, crashes>>

ChainMoves ==
    /\ Mine \/ (pc \in ReorgWhile /\ \E h \in Heights : Reorg(h))
    /\ UNCHANGED <<durable, memory, budgets>>

Crawl ==
    \/ Start \/ LoadCursor \/ LoadFromDb
    \/ GetLatestBlock \/ CheckForReorg \/ RollbackDelete \/ RollbackCursor
    \/ FetchEvents \/ SaveBlockMap \/ SaveState \/ UpdateCursor

Next == Crawl \/ LoadFails \/ CallFails \/ Crash \/ LoseCursor \/ ChainMoves

Spec == Init /\ [][Next]_vars

(* The timers fire, the calls are answered and a dead process is restarted *)
(* (docker-compose: restart: unless-stopped), so the task always goes on.  *)
FairSpec == Spec /\ WF_vars(Crawl)

-----------------------------------------------------------------------------
(* Type invariant                                                          *)

Row == [tx : Txs, log : 0..MaxLog, block : Heights,
        hash : Hashes \cup {NoHash}, confirmations : Int, status : Statuses]
Event == [tx : Txs, log : 0..MaxLog, block : Heights]

\* Every variable has its type.
TypeOK ==
    /\ ChainTypeOK
    /\ rows \subseteq Row
    /\ cursor \in Int
    /\ pc \in Points
    /\ lastProcessedBlock \in Int /\ lastIsString \in BOOLEAN
    /\ blockMap \in [Heights -> Hashes \cup {NoHash}]
    /\ latestBlock \in 0..MaxHeight
    /\ fromBlock \in Int /\ toBlock \in Int
    /\ batch \subseteq Event
    /\ probe \in Int /\ deepestReorg \in 0..MaxHeight
    /\ faults \in 0..MaxFaults /\ crashes \in 0..MaxCrashes
    /\ cursorLosses \in 0..MaxCursorLosses

-----------------------------------------------------------------------------
(* Safety                                                                  *)

\* A transaction is never shown with more than BatchSize - 1 confirmations too many.
OvercountBounded ==
    \A r \in rows : r.confirmations <= head - r.block + BatchSize

\* A transaction is shown CONFIRMED only once its block has the required
\* confirmations.
ConfirmedIsDeep ==
    \A r \in rows :
        r.status = "CONFIRMED" => head - r.block + 1 >= RequiredConfirmations

\* With nodes that are up to date, and until the chain reorganizes, no
\* transaction at or below the cursor is missing from the table, whatever fails, crashes or is lost on the way.
Indexed(t) == \E r \in rows : r.tx = t /\ r.block = home[t]
Emitting == {l[1] : l \in TxLogs}
NoGapUpTo(b) ==
    \A t \in Emitting : home[t] \in StartBlock..b => Indexed(t)
NoGap == Lag = 0 /\ forks = 0 => NoGapUpTo(cursor)

\* The inductive invariant behind NoGap: without reorganizations the check
\* finds none, a batch starts right after lastProcessedBlock and holds every
\* event of its blocks, and once it is saved there is no gap up to its end.  A
\* batch is saved as a whole, so there is none below any row either, which is
\* what a crawler starts from that has no cursor, or is to lose it.
Saving == {"blocks", "save"}
NoReorgSeen ==
    /\ \A h \in Heights : hashAt[h] = 0 /\ blockMap[h] \in {0, NoHash}
    /\ deepestReorg = 0 /\ pc \notin {"rollback", "rollbackCursor"}
BatchInPlace ==
    /\ pc \in {"check", "fetch"} => lastIsString \/ fromBlock = lastProcessedBlock + 1
    /\ pc \in Saving \cup {"cursor"} => fromBlock = lastProcessedBlock + 1
    /\ \A e \in batch : e.block = home[e.tx]
BatchComplete ==
    pc \in Saving =>
        \A t \in Emitting :
            home[t] \in Heights \cap (fromBlock..toBlock) => \E e \in batch : e.tx = t
BatchExact == BatchInPlace /\ BatchComplete
MayUseTable == cursor = NoCursor \/ cursorLosses < MaxCursorLosses
NoGapBelow ==
    /\ pc = "cursor" => NoGapUpTo(toBlock)
    /\ NoGapUpTo(lastProcessedBlock)
    /\ NoGapUpTo(cursor)
    /\ pc = "loadDb" => cursor = NoCursor
    /\ MayUseTable => \A r \in rows : NoGapUpTo(r.block)
GapInv == Lag = 0 /\ forks = 0 => NoReorgSeen /\ BatchExact /\ NoGapBelow

\* The crawler never claims to have processed a block that does not exist.
WithinChain(b) == b <= head \/ b < StartBlock
CursorWithinChain == WithinChain(cursor)

\* The inductive invariant behind OvercountBounded and CursorWithinChain: a
\* batch spans at most BatchSize blocks, none of them above the block that the
\* cycle saw as the latest, and neither the table, the cached hashes nor the
\* cursor know of a block above the head.
CountingInv ==
    /\ toBlock <= latestBlock /\ latestBlock <= head
    /\ toBlock < fromBlock + BatchSize
    /\ \A e \in batch : e.block \in fromBlock..toBlock
    /\ \A r \in rows : r.block <= head
    /\ \A b \in Cached : b <= head
    /\ deepestReorg <= head
    /\ WithinChain(lastProcessedBlock)
    /\ CursorWithinChain
    /\ OvercountBounded

\* No row tells of a block, or of a place of the transaction, that the chain
\* has abandoned.
NoOrphans ==
    \A r \in rows : home[r.tx] = r.block /\ hashAt[r.block] = r.hash

CycleCompletes == pc # "sleep" /\ pc' = "sleep"

\* A cycle that completes leaves a table that matches the chain.
CycleLeavesMatch ==
    [][CycleCompletes => NoOrphans' /\ NoGapUpTo(lastProcessedBlock)']_vars

\* A cycle that completes leaves no row PENDING that had its confirmations at
\* the block the cycle saw as the latest.
NoStalePending ==
    [][CycleCompletes =>
         \A r \in rows' : r.status = "PENDING" =>
            latestBlock - r.block + 1 < RequiredConfirmations]_vars

\* What a reader sees of a transaction in one block never loses confirmations.
ConfirmationsNeverDecrease ==
    [][\A r \in rows, s \in rows' :
         r.tx = s.tx /\ r.block = s.block => r.confirmations <= s.confirmations]_vars

\* A statement either takes rows from the top of the table, all from some block
\* on, or takes none, and never leaves two rows of one transaction.
OnlyTheTopLeaves == [][Changes(rows, rows')]_vars

-----------------------------------------------------------------------------
(* Liveness                                                                *)

\* The index ends up with every transaction of the chain.
CatchesUp == <>[]NoGapUpTo(head)

\* The index ends up without rows of abandoned blocks.
OrphansLeave == <>[]NoOrphans

=============================================================================
