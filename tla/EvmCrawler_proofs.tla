-------------------------- MODULE EvmCrawler_proofs --------------------------
(***************************************************************************)
(* Theorems about EvmCrawler, for every chain and every configuration.     *)
(***************************************************************************)
EXTENDS EvmCrawler, WellFoundedInduction, TLAPS

-----------------------------------------------------------------------------
(* The statements that saveState() runs on the table                       *)

\* The entities of a batch have the columns of a row.
LEMMA NewRowsType ==
    ASSUME NEW events \in SUBSET Event, NEW latest \in 0..MaxHeight,
           NEW hashes \in [Heights -> Hashes \cup {NoHash}]
    PROVE  NewRows(events, latest, hashes) \subseteq Row
<1> SUFFICES ASSUME NEW e \in events, NEW first \in FirstBlocks(events)
             PROVE  [tx |-> e.tx, log |-> e.log, block |-> e.block,
                     hash |-> hashes[e.block],
                     confirmations |-> latest - first + 1,
                     status |-> StatusFor(latest - first + 1)] \in Row
    BY DEF NewRows
<1>1. first \in Int
    BY ChainAssumption DEF FirstBlocks, Event, Heights
<1>2. StatusFor(latest - first + 1) \in Statuses
    BY DEF StatusFor, Statuses
<1>3. e \in Event /\ e.block \in Heights /\ latest - first + 1 \in Int
    BY <1>1 DEF Event
<1> QED BY <1>2, <1>3 DEF Row, Event

\* Recounting the confirmations of a row touches nothing but them and the status.
LEMMA RecountType ==
    ASSUME NEW r \in Row, NEW latest \in 0..MaxHeight
    PROVE  /\ Recount(r, latest) \in Row
           /\ Recount(r, latest).tx = r.tx
           /\ Recount(r, latest).block = r.block
           /\ r.block <= latest =>
                Recount(r, latest).confirmations <= latest - r.block + 1
<1> DEFINE depth == latest - r.block + 1
           count == IF depth < RequiredConfirmations THEN depth ELSE RequiredConfirmations
<1>1. r.block \in Int /\ count \in Int /\ count <= depth
    BY ChainAssumption, ConfirmationsAssumption DEF Row, Heights
<1>2. StatusFor(count) \in Statuses
    BY DEF StatusFor, Statuses
<1>3. Recount(r, latest) = [r EXCEPT !.confirmations = count, !.status = StatusFor(count)]
    BY DEF Recount
<1> HIDE DEF count
<1> QED BY <1>1, <1>2, <1>3 DEF Row

LEMMA ReconfirmedType ==
    ASSUME NEW table \in SUBSET Row, NEW latest \in 0..MaxHeight
    PROVE  Reconfirmed(table, latest) \subseteq Row
BY RecountType DEF Reconfirmed

-----------------------------------------------------------------------------
(* Type correctness                                                        *)

LEMMA LogsInType ==
    ASSUME ChainTypeOK, NEW n \in 0..head, NEW from, NEW to
    PROVE  LogsIn(from, to, n) \subseteq Event
<1> SUFFICES ASSUME NEW l \in TxLogs, home[l[1]] \in 1..n
             PROVE  [tx |-> l[1], log |-> l[2], block |-> home[l[1]]] \in Event
    BY DEF LogsIn, Selected
<1>1. l[1] \in Txs /\ l[2] \in 0..MaxLog
    BY ChainAssumption
<1>2. home[l[1]] \in Heights
    BY <1>1, ChainAssumption DEF ChainTypeOK, Heights
<1> QED BY <1>1, <1>2 DEF Event

LEMMA HashOfType ==
    ASSUME ChainTypeOK, NEW n \in 0..head, NEW b \in Int
    PROVE  HashOf(b, n) \in Hashes \cup {NoHash}
BY ChainAssumption DEF ChainTypeOK, HashOf, Heights

\* Without a cursor the crawler resumes before the first block, or at a row.
LEMMA ResumeBlock ==
    ASSUME TypeOK, NEW b, ResumesAt(b)
    PROVE  /\ b \in Int /\ b >= 0
           /\ \/ rows = {} /\ b = StartBlock - 1
              \/ \E r \in rows : b = r.block
<1>1. CASE rows = {} /\ b = StartBlock - 1
    BY <1>1, CrawlerAssumption
<1>2. ASSUME NEW r \in rows, b = r.block
      PROVE  b \in Int /\ b >= 0
    <2>1. b \in Heights
        BY <1>2 DEF TypeOK, Row
    <2> QED BY <2>1, ChainAssumption DEF Heights
<1> QED BY <1>1, <1>2 DEF ResumesAt

LEMMA InitTypeOK == Init => TypeOK
<1> SUFFICES ASSUME Init PROVE TypeOK
    OBVIOUS
<1>1. ChainTypeOK
    BY ChainAssumption DEF Init, ChainInit, ChainTypeOK, Hashes
<1>2. blockMap \in [Heights -> Hashes \cup {NoHash}]
    BY DEF Init, NothingCached
<1>3. pc \in Points
    BY DEF Init, Points
<1>4. lastIsString \in BOOLEAN
    BY DEF Init
<1> QED
    BY <1>1, <1>2, <1>3, <1>4, ChainAssumption, CrawlerAssumption DEF Init, TypeOK, NoCursor

LEMMA MineType ==
    ASSUME ChainTypeOK, Mine
    PROVE  ChainTypeOK'
<1>1. head' \in 0..MaxHeight /\ head' = head + 1 /\ head \in Int
    BY ChainAssumption DEF ChainTypeOK, Mine
<1>2. hashAt' \in [Heights -> Hashes]
    BY DEF ChainTypeOK, Mine
<1>3. home' \in [Txs -> 0..MaxHeight] /\ \A t \in Txs : home'[t] <= head'
    BY <1>1, ChainAssumption DEF ChainTypeOK, Mine
<1> QED BY <1>1, <1>2, <1>3 DEF ChainTypeOK, Mine

LEMMA ReorgType ==
    ASSUME ChainTypeOK, NEW h \in Heights, Reorg(h)
    PROVE  ChainTypeOK'
<1>1. head' = head /\ head \in Int /\ h \in Int /\ h <= head
    BY ChainAssumption DEF ChainTypeOK, Reorg, Heights
<1>2. forks' \in Hashes /\ hashAt' \in [Heights -> Hashes]
    BY ChainAssumption DEF ChainTypeOK, Reorg, Hashes
<1>3. home' \in [Txs -> 0..MaxHeight] /\ \A t \in Txs : home'[t] <= head'
    <2>1. PICK place \in [{t \in Txs : home[t] = 0 \/ home[t] >= h} -> {0} \cup h..head] :
            home' = [t \in Txs |-> IF t \in DOMAIN place THEN place[t] ELSE home[t]]
        BY DEF Reorg
    <2>2. ASSUME NEW t \in Txs PROVE home'[t] \in 0..MaxHeight /\ home'[t] <= head
        BY <1>1, <2>1, ChainAssumption DEF ChainTypeOK, Heights
    <2> QED BY <1>1, <2>1, <2>2
<1> QED BY <1>1, <1>2, <1>3 DEF ChainTypeOK

\* crawl() ends, or goes on with the next batch.
LEMMA ContinueType ==
    ASSUME TypeOK, NEW from \in Int, Continue(from, latestBlock)
    PROVE  /\ pc' \in Points
           /\ latestBlock' \in 0..MaxHeight /\ fromBlock' \in Int /\ toBlock' \in Int
           /\ batch' \subseteq Event /\ probe' \in Int /\ deepestReorg' \in 0..MaxHeight
<1>1. pc' \in Points
    BY DEF Continue, ForgetLocals, Points, Calls, Idle
<1>2. CASE from <= latestBlock
    BY <1>1, <1>2, ChainAssumption, CrawlerAssumption DEF TypeOK, Continue, More, BatchEnd, Smaller
<1>3. CASE ~ (from <= latestBlock)
    BY <1>1, <1>3, ChainAssumption DEF TypeOK, Continue, More, ForgetLocals
<1> QED BY <1>2, <1>3

LEMMA ReorgCheckEndsType ==
    ASSUME TypeOK, NEW deepest \in Heights \cup {0}, ReorgCheckEnds(deepest)
    PROVE  /\ pc' \in Points
           /\ latestBlock' \in 0..MaxHeight /\ fromBlock' \in Int /\ toBlock' \in Int
           /\ batch' \subseteq Event /\ probe' \in Int /\ deepestReorg' \in 0..MaxHeight
<1>1. CASE deepest = 0
    BY <1>1, ContinueType DEF ReorgCheckEnds, TypeOK
<1>2. CASE deepest # 0
    BY <1>2, ChainAssumption
    DEF ReorgCheckEnds, TypeOK, Heights, Points, Calls, Idle
<1> QED BY <1>1, <1>2

LEMMA StepTypeOK == TypeOK /\ [Next]_vars => TypeOK'
<1> SUFFICES ASSUME TypeOK, [Next]_vars PROVE TypeOK'
    OBVIOUS
<1> USE DEF chainVars, durable, locals, memory, budgets
<1>0. /\ head \in Int /\ MaxHeight \in Nat /\ head \in 0..MaxHeight /\ 0 \in 0..MaxHeight
      /\ {} \subseteq Event /\ {"start", "sleep", "retry", "down"} \subseteq Points
    BY ChainAssumption DEF TypeOK, ChainTypeOK, Points, Calls, Idle
<1>1. CASE Start
    BY <1>1 DEF Start, TypeOK, ChainTypeOK, Points, Calls
<1>2. CASE LoadCursor
    BY <1>2 DEF LoadCursor, TypeOK, ChainTypeOK, Points, Calls, Idle
<1>3. CASE LoadFromDb
    <2>1. lastProcessedBlock' \in Int /\ cursor' \in Int
        BY <1>3, ResumeBlock DEF LoadFromDb
    <2>2. lastIsString' \in BOOLEAN
        BY <1>3 DEF LoadFromDb
    <2> QED BY <1>0, <1>3, <2>1, <2>2 DEF LoadFromDb, TypeOK, ChainTypeOK
<1>4. CASE GetLatestBlock
    <2>1. latestBlock' \in 0..MaxHeight /\ fromBlock' \in Int /\ toBlock' \in Int
        BY <1>0, <1>4, CrawlerAssumption
        DEF GetLatestBlock, NodeHeads, BatchEnd, Smaller, TypeOK
    <2> QED BY <1>0, <1>4, <2>1 DEF GetLatestBlock, TypeOK, ChainTypeOK, Points, Calls
<1>5. CASE CheckForReorg
    <2>1. /\ pc' \in Points
          /\ latestBlock' \in 0..MaxHeight /\ fromBlock' \in Int /\ toBlock' \in Int
          /\ batch' \subseteq Event /\ probe' \in Int /\ deepestReorg' \in 0..MaxHeight
        <3>1. deepestReorg \in Heights \cup {0}
            BY <1>0 DEF TypeOK, Heights
        <3>2. CASE ReorgCheckEnds(deepestReorg)
            BY <3>1, <3>2, ReorgCheckEndsType
        <3>3. CASE \E b \in ToCompare :
                     /\ deepestReorg' = b /\ probe' = b - 1
                     /\ UNCHANGED <<pc, latestBlock, fromBlock, toBlock, batch>>
            BY <3>3 DEF ToCompare, Cached, Heights, TypeOK
        <3> QED BY <1>5, <3>2, <3>3 DEF CheckForReorg
    <2>2. faults' \in 0..MaxFaults
        BY <1>5, CrawlerAssumption DEF CheckForReorg, Fault, TypeOK
    <2> QED BY <1>5, <2>1, <2>2 DEF CheckForReorg, TypeOK, ChainTypeOK
<1>6. CASE RollbackDelete
    <2>1. rows' \subseteq Row
        BY <1>6 DEF RollbackDelete, RolledBack, TypeOK
    <2>2. blockMap' \in [Heights -> Hashes \cup {NoHash}]
        BY <1>6 DEF RollbackDelete, TypeOK
    <2> QED BY <1>6, <2>1, <2>2
        DEF RollbackDelete, TypeOK, ChainTypeOK, Points, Calls
<1>7. CASE RollbackCursor
    <2>1. deepestReorg \in Int
        BY DEF TypeOK
    <2>2. Continue(deepestReorg, latestBlock)
        BY <1>7 DEF RollbackCursor
    <2> QED BY <1>7, <2>1, <2>2, ContinueType DEF RollbackCursor, TypeOK, ChainTypeOK
<1>8. CASE FetchEvents
    <2>1. CASE lastIsString
        BY <1>0, <1>8, <2>1 DEF FetchEvents, ForgetLocals, TypeOK, ChainTypeOK
    <2>2. CASE ~ lastIsString
        <3>1. PICK n \in NodeHeads : batch' = LogsIn(fromBlock, toBlock, n)
            BY <1>8, <2>2 DEF FetchEvents
        <3>2. batch' \subseteq Event
            BY <3>1, LogsInType DEF NodeHeads, TypeOK
        <3> QED BY <1>8, <2>2, <3>2 DEF FetchEvents, TypeOK, ChainTypeOK, Points, Calls
    <2> QED BY <2>1, <2>2
<1>9. CASE SaveBlockMap
    <2>1. blockMap' \in [Heights -> Hashes \cup {NoHash}]
        BY <1>9, HashOfType DEF SaveBlockMap, NodeHeads, TypeOK, Heights
    <2> QED BY <1>9, <2>1 DEF SaveBlockMap, TypeOK, ChainTypeOK, Points, Calls
<1>10. CASE SaveState
    <2> DEFINE new == NewRows(batch, latestBlock, blockMap)
    <2>1. new \subseteq Row
        BY NewRowsType DEF TypeOK
    <2> HIDE DEF new
    <2>2. Upserted(rows, new) \subseteq Row
        BY <2>1 DEF Upserted, TypeOK
    <2>3. ASSUME NEW table \in SUBSET Row, rows' = Reconfirmed(table, latestBlock)
          PROVE  rows' \subseteq Row
        BY <2>3, ReconfirmedType DEF TypeOK
    <2>4. rows' \subseteq Row
        BY <1>10, <2>1, <2>2, <2>3 DEF SaveState, TypeOK, new
    <2>5. /\ pc' \in Points
          /\ latestBlock' \in 0..MaxHeight /\ fromBlock' \in Int /\ toBlock' \in Int
          /\ batch' \subseteq Event /\ probe' \in Int /\ deepestReorg' \in 0..MaxHeight
        BY <1>0, <1>10 DEF SaveState, ForgetLocals, TypeOK, Points, Calls
    <2> QED BY <1>10, <2>4, <2>5 DEF SaveState, TypeOK, ChainTypeOK
<1>11. CASE UpdateCursor
    <2>1. toBlock + 1 \in Int /\ Continue(toBlock + 1, latestBlock)
        BY <1>11 DEF UpdateCursor, TypeOK
    <2>2. blockMap' \in [Heights -> Hashes \cup {NoHash}]
        BY <1>11 DEF UpdateCursor, TypeOK
    <2> QED BY <1>11, <2>1, <2>2, ContinueType DEF UpdateCursor, TypeOK, ChainTypeOK
<1>12. CASE LoadFails
    <2>1. faults' \in 0..MaxFaults /\ crashes' = crashes /\ cursorLosses' = cursorLosses
        BY <1>12, CrawlerAssumption DEF LoadFails, Fault, TypeOK
    <2>2. cursor' \in Int
        BY <1>12, ResumeBlock DEF LoadFails, TypeOK
    <2> QED BY <1>0, <1>12, <2>1, <2>2, CrawlerAssumption DEF LoadFails, TypeOK, ChainTypeOK
<1>13. CASE CallFails
    <2>1. faults' \in 0..MaxFaults /\ crashes' = crashes /\ cursorLosses' = cursorLosses
        BY <1>13, CrawlerAssumption DEF CallFails, Fault, TypeOK
    <2> QED BY <1>0, <1>13, <2>1 DEF CallFails, ForgetLocals, TypeOK, ChainTypeOK
<1>14. CASE Crash
    <2>1. blockMap' \in [Heights -> Hashes \cup {NoHash}] /\ crashes' \in 0..MaxCrashes
        BY <1>14, CrawlerAssumption DEF Crash, NothingCached, TypeOK
    <2>2. lastIsString' \in BOOLEAN
        BY <1>14 DEF Crash
    <2> QED BY <1>0, <1>14, <2>1, <2>2 DEF Crash, ForgetLocals, TypeOK, ChainTypeOK
<1>15. CASE LoseCursor
    BY <1>15, CrawlerAssumption DEF LoseCursor, TypeOK, ChainTypeOK, NoCursor
<1>16. CASE ChainMoves
    <2>1. ChainTypeOK'
        BY <1>16, MineType, ReorgType DEF ChainMoves, TypeOK
    <2> QED BY <1>16, <2>1 DEF ChainMoves, TypeOK
<1>17. CASE UNCHANGED vars
    BY <1>17 DEF vars, TypeOK, ChainTypeOK
<1> QED
    BY <1>1, <1>2, <1>3, <1>4, <1>5, <1>6, <1>7, <1>8, <1>9, <1>10, <1>11,
       <1>12, <1>13, <1>14, <1>15, <1>16, <1>17
    DEF Next, Crawl

\* Every variable of the crawler and of its environment keeps its type.
THEOREM TypeCorrect == Spec => []TypeOK
<1> QED BY InitTypeOK, StepTypeOK, PTL DEF Spec

-----------------------------------------------------------------------------
(* How far the shown confirmations can be off, and how far the cursor can  *)
(* be: neither needs an assumption on reorganizations, lagging nodes,      *)
(* faults or crashes.                                                      *)

\* The rows that saveState() adds lie in the blocks of its batch, and are
\* counted from a block of the batch.
LEMMA NewRowsBounds ==
    ASSUME NEW events \in SUBSET Event, NEW latest \in Int, NEW hashes,
           NEW from \in Int, NEW to \in Int, to < from + BatchSize, to <= latest,
           \A e \in events : e.block \in from..to,
           NEW r \in NewRows(events, latest, hashes)
    PROVE  /\ r.block <= latest
           /\ r.confirmations <= latest - r.block + BatchSize
<1>1. PICK e \in events, first \in FirstBlocks(events) :
        r = [tx |-> e.tx, log |-> e.log, block |-> e.block, hash |-> hashes[e.block],
             confirmations |-> latest - first + 1,
             status |-> StatusFor(latest - first + 1)]
    BY DEF NewRows
<1>2. r.block = e.block /\ r.confirmations = latest - first + 1
    BY <1>1
<1>3. e.block \in from..to /\ first \in from..to
    BY DEF FirstBlocks
<1> QED BY <1>2, <1>3, CrawlerAssumption

LEMMA ReconfirmedBounds ==
    ASSUME NEW table \in SUBSET Row, NEW latest \in 0..MaxHeight,
           NEW top \in Int, latest <= top,
           \A r \in table : /\ r.block <= top
                            /\ r.confirmations <= top - r.block + BatchSize,
           NEW s \in Reconfirmed(table, latest)
    PROVE  s.block <= top /\ s.confirmations <= top - s.block + BatchSize
<1>1. PICK r \in table :
        s = IF r.confirmations < RequiredConfirmations THEN Recount(r, latest) ELSE r
    BY DEF Reconfirmed
<1>2. r \in Row /\ r.block \in Int
    BY ChainAssumption DEF Row, Heights
<1>3. CASE s = Recount(r, latest)
    <2> DEFINE depth == latest - r.block + 1
               count == IF depth < RequiredConfirmations THEN depth ELSE RequiredConfirmations
    <2>1. s = [r EXCEPT !.confirmations = count, !.status = StatusFor(count)]
        BY <1>3 DEF Recount
    <2>2. s.block = r.block /\ s.confirmations = count
        BY <2>1, <1>2 DEF Row
    <2>3. count <= depth
        BY <1>2, ConfirmationsAssumption, ChainAssumption
    <2> QED BY <1>2, <2>2, <2>3, ConfirmationsAssumption, ChainAssumption, CrawlerAssumption
<1>4. CASE s = r
    BY <1>4
<1> QED BY <1>1, <1>3, <1>4

LEMMA InitCountingInv == Init => CountingInv
BY CrawlerAssumption
DEF Init, ChainInit, CountingInv, OvercountBounded, CursorWithinChain, WithinChain,
    Cached, NothingCached, NoCursor

LEMMA ContinueCounting ==
    ASSUME TypeOK, CountingInv, NEW from \in Int, Continue(from, latestBlock), head' = head
    PROVE  /\ toBlock' <= latestBlock' /\ latestBlock' <= head'
           /\ toBlock' < fromBlock' + BatchSize
           /\ \A e \in batch' : e.block \in fromBlock'..toBlock'
           /\ deepestReorg' <= head'
<1>1. CASE from <= latestBlock
    BY <1>1, ChainAssumption, CrawlerAssumption
    DEF TypeOK, ChainTypeOK, CountingInv, Continue, More, BatchEnd, Smaller
<1>2. CASE ~ (from <= latestBlock)
    BY <1>2, ChainAssumption, CrawlerAssumption
    DEF TypeOK, ChainTypeOK, CountingInv, Continue, More, ForgetLocals
<1> QED BY <1>1, <1>2

\* Nodes only know blocks up to the head, and getBlock() answers null above.
LEMMA HashOfKnown ==
    ASSUME ChainTypeOK, NEW n \in NodeHeads, NEW b \in Heights, HashOf(b, n) # NoHash
    PROVE  b <= head
BY ChainAssumption DEF ChainTypeOK, NodeHeads, HashOf, Heights

LEMMA StepCountingInv == TypeOK /\ CountingInv /\ [Next]_vars => CountingInv'
<1> SUFFICES ASSUME TypeOK, CountingInv, [Next]_vars PROVE CountingInv'
    OBVIOUS
<1> USE DEF chainVars, durable, locals, memory, budgets
<1>0. /\ head \in 0..MaxHeight /\ MaxHeight \in Nat /\ head \in Int
      /\ StartBlock \in Nat \ {0} /\ BatchSize \in Nat \ {0}
    BY ChainAssumption, CrawlerAssumption DEF TypeOK, ChainTypeOK
<1> DEFINE LocalsInv == /\ toBlock <= latestBlock /\ latestBlock <= head
                        /\ toBlock < fromBlock + BatchSize
                        /\ \A e \in batch : e.block \in fromBlock..toBlock
                        /\ deepestReorg <= head
           TableInv == \A r \in rows : /\ r.block <= head
                                       /\ r.confirmations <= head - r.block + BatchSize
           MapInv == \A b \in Cached : b <= head
           CursorsInv == WithinChain(lastProcessedBlock) /\ WithinChain(cursor)
<1>p. CountingInv <=> LocalsInv /\ TableInv /\ MapInv /\ CursorsInv
    BY DEF CountingInv, OvercountBounded, CursorWithinChain
<1>q. CountingInv' <=> LocalsInv' /\ TableInv' /\ MapInv' /\ CursorsInv'
    BY DEF CountingInv, OvercountBounded, CursorWithinChain
<1>r. ForgetLocals /\ head' = head => LocalsInv'
    BY <1>0 DEF ForgetLocals
<1>s. ASSUME NEW b, ResumesAt(b) PROVE WithinChain(b)
    <2>1. CASE rows = {} /\ b = StartBlock - 1
        BY <1>0, <2>1 DEF WithinChain
    <2>2. CASE \E r \in rows : b = r.block
        BY <1>p, <2>2 DEF WithinChain
    <2> QED BY <1>s, <2>1, <2>2, ResumeBlock
<1>1. CASE Start
    BY <1>1, <1>p, <1>q DEF Start, Cached, WithinChain
<1>2. CASE LoadCursor
    BY <1>2, <1>p, <1>q DEF LoadCursor, Cached, WithinChain
<1>3. CASE LoadFromDb
    <2>1. CursorsInv'
        BY <1>3, <1>s DEF LoadFromDb, WithinChain
    <2> QED BY <1>3, <1>p, <1>q, <2>1 DEF LoadFromDb, Cached, WithinChain
<1>4. CASE GetLatestBlock
    <2>1. LocalsInv'
        BY <1>0, <1>4 DEF GetLatestBlock, NodeHeads, BatchEnd, Smaller, TypeOK
    <2> QED BY <1>4, <1>p, <1>q, <2>1 DEF GetLatestBlock, Cached, WithinChain
<1>5. CASE CheckForReorg
    <2>1. LocalsInv'
        <3>1. CASE ReorgCheckEnds(deepestReorg)
            <4>1. CASE deepestReorg = 0
                BY <1>5, <3>1, <4>1, ContinueCounting
                DEF ReorgCheckEnds, CheckForReorg, TypeOK
            <4>2. CASE deepestReorg # 0
                BY <1>5, <3>1, <4>2, <1>p DEF ReorgCheckEnds, CheckForReorg
            <4> QED BY <4>1, <4>2
        <3>2. CASE \E b \in ToCompare :
                     /\ deepestReorg' = b /\ probe' = b - 1
                     /\ UNCHANGED <<pc, latestBlock, fromBlock, toBlock, batch>>
            BY <1>5, <3>2, <1>p DEF CheckForReorg, ToCompare
        <3> QED BY <1>5, <3>1, <3>2 DEF CheckForReorg
    <2> QED BY <1>5, <1>p, <1>q, <2>1 DEF CheckForReorg, Cached, WithinChain
<1>6. CASE RollbackDelete
    <2>1. TableInv'
        BY <1>6, <1>p DEF RollbackDelete, RolledBack
    <2>2. MapInv'
        BY <1>6, <1>p DEF RollbackDelete, Cached
    <2> QED BY <1>6, <1>p, <1>q, <2>1, <2>2 DEF RollbackDelete, WithinChain
<1>7. CASE RollbackCursor
    <2>1. LocalsInv'
        BY <1>7, ContinueCounting DEF RollbackCursor, TypeOK
    <2>2. CursorsInv'
        BY <1>0, <1>7, <1>p DEF RollbackCursor, WithinChain, TypeOK
    <2> QED BY <1>7, <1>p, <1>q, <2>1, <2>2 DEF RollbackCursor, Cached
<1>8. CASE FetchEvents
    <2>1. LocalsInv'
        <3>1. CASE lastIsString
            BY <1>8, <3>1, <1>r DEF FetchEvents
        <3>2. CASE ~ lastIsString
            <4>1. \A e \in batch' : e.block \in fromBlock..toBlock
                BY <1>8, <3>2 DEF FetchEvents, LogsIn
            <4> QED BY <1>8, <3>2, <1>p, <4>1 DEF FetchEvents
        <3> QED BY <3>1, <3>2
    <2> QED BY <1>8, <1>p, <1>q, <2>1 DEF FetchEvents, Cached, WithinChain
<1>9. CASE SaveBlockMap
    <2>1. MapInv'
        <3> SUFFICES ASSUME NEW b \in Heights, blockMap'[b] # NoHash
                     PROVE  b <= head
            BY <1>9 DEF Cached, SaveBlockMap
        <3>1. PICK n \in NodeHeads :
                blockMap' = [c \in Heights |->
                   IF /\ blockMap[c] = NoHash
                      /\ \/ \E e \in batch : e.block = c
                         \/ c \in fromBlock..toBlock /\ c > latestBlock - ReorgDepth
                     THEN HashOf(c, n) ELSE blockMap[c]]
            BY <1>9 DEF SaveBlockMap
        <3>2. HashOf(b, n) # NoHash \/ b \in Cached
            BY <3>1 DEF Cached
        <3> QED BY <3>2, <1>p, HashOfKnown DEF TypeOK
    <2> QED BY <1>9, <1>p, <1>q, <2>1 DEF SaveBlockMap, WithinChain
<1>10. CASE SaveState
    <2> DEFINE new == NewRows(batch, latestBlock, blockMap)
               Bounded(table) == \A r \in table :
                                   /\ r.block <= head
                                   /\ r.confirmations <= head - r.block + BatchSize
    <2>1. new \subseteq Row
        BY NewRowsType DEF TypeOK
    <2>2. Bounded(new)
        <3> SUFFICES ASSUME NEW r \in new
                     PROVE  /\ r.block <= head
                            /\ r.confirmations <= head - r.block + BatchSize
            OBVIOUS
        <3>1. /\ r.block <= latestBlock
              /\ r.confirmations <= latestBlock - r.block + BatchSize
            BY NewRowsBounds, <1>p DEF TypeOK
        <3>2. r.block \in Int /\ r.confirmations \in Int /\ latestBlock <= head
            BY <2>1, <1>0, <1>p DEF Row, Heights
        <3> HIDE DEF new
        <3> QED BY <1>0, <3>1, <3>2 DEF TypeOK
    <2> HIDE DEF new
    <2>3. /\ rows \cup new \subseteq Row /\ Bounded(rows \cup new)
          /\ Upserted(rows, new) \subseteq Row /\ Bounded(Upserted(rows, new))
        BY <2>1, <2>2, <1>p DEF Upserted, TypeOK
    <2>4. ASSUME NEW table, table \subseteq Row, Bounded(table)
          PROVE  Bounded(Reconfirmed(table, latestBlock))
        BY <2>4, <1>0, <1>p, ReconfirmedBounds DEF TypeOK
    <2>5. TableInv'
        BY <1>10, <2>3, <2>4, <1>p DEF SaveState, new
    <2>6. LocalsInv'
        BY <1>10, <1>p, <1>r DEF SaveState
    <2> QED BY <1>10, <1>p, <1>q, <2>5, <2>6 DEF SaveState, Cached, WithinChain
<1>11. CASE UpdateCursor
    <2>1. LocalsInv'
        <3>1. toBlock + 1 \in Int /\ Continue(toBlock + 1, latestBlock) /\ head' = head
            BY <1>11 DEF UpdateCursor, TypeOK
        <3> QED BY <3>1, ContinueCounting
    <2>2. MapInv'
        BY <1>11, <1>p DEF UpdateCursor, Cached
    <2>3. CursorsInv'
        BY <1>0, <1>11, <1>p DEF UpdateCursor, WithinChain, TypeOK
    <2> QED BY <1>11, <1>p, <1>q, <2>1, <2>2, <2>3 DEF UpdateCursor
<1>12. CASE LoadFails
    <2>1. CursorsInv'
        BY <1>0, <1>12, <1>p, <1>s DEF LoadFails, WithinChain
    <2> QED BY <1>12, <1>p, <1>q, <2>1 DEF LoadFails, Cached
<1>13. CASE CallFails
    BY <1>13, <1>p, <1>q, <1>r DEF CallFails, Cached, WithinChain
<1>14. CASE Crash
    <2>1. MapInv'
        BY <1>14 DEF Crash, Cached, NothingCached
    <2>2. CursorsInv'
        BY <1>0, <1>14, <1>p DEF Crash, WithinChain
    <2> QED BY <1>14, <1>p, <1>q, <1>r, <2>1, <2>2 DEF Crash
<1>15. CASE LoseCursor
    <2>1. WithinChain(cursor)'
        BY <1>0, <1>15 DEF LoseCursor, WithinChain, NoCursor
    <2> QED BY <1>15, <1>p, <1>q, <2>1 DEF LoseCursor, Cached, WithinChain
<1>16. CASE ChainMoves
    <2>1. head' \in Int /\ head <= head'
        BY <1>0, <1>16 DEF ChainMoves, Mine, Reorg
    <2>2. LocalsInv' /\ CursorsInv'
        BY <1>0, <1>16, <1>p, <2>1 DEF ChainMoves, WithinChain, TypeOK
    <2>3. MapInv'
        BY <1>0, <1>16, <1>p, <2>1 DEF ChainMoves, Cached, Heights
    <2>4. TableInv'
        <3> SUFFICES ASSUME NEW r \in rows
                     PROVE  /\ r.block <= head'
                            /\ r.confirmations <= head' - r.block + BatchSize
            BY <1>16 DEF ChainMoves
        <3>1. r.block \in Int /\ r.confirmations \in Int
            BY <1>0 DEF TypeOK, Row, Heights
        <3> QED BY <1>0, <1>p, <2>1, <3>1
    <2> QED BY <1>q, <2>2, <2>3, <2>4
<1>17. CASE UNCHANGED vars
    BY <1>17, <1>p, <1>q DEF vars, Cached, WithinChain
<1> QED
    BY <1>1, <1>2, <1>3, <1>4, <1>5, <1>6, <1>7, <1>8, <1>9, <1>10, <1>11,
       <1>12, <1>13, <1>14, <1>15, <1>16, <1>17
    DEF Next, Crawl

\* Whatever fails, crashes or is reorganized, no row claims more than
\* BatchSize - 1 confirmations too many ...
THEOREM OvercountIsBounded == Spec => []OvercountBounded
<1>1. CountingInv => OvercountBounded
    BY DEF CountingInv
<1> QED BY InitTypeOK, StepTypeOK, InitCountingInv, StepCountingInv, <1>1, PTL DEF Spec

\* ... and the crawler never counts a block as processed that does not exist.
THEOREM CursorStaysWithinChain == Spec => []CursorWithinChain
<1>1. CountingInv => CursorWithinChain
    BY DEF CountingInv
<1> QED BY InitTypeOK, StepTypeOK, InitCountingInv, StepCountingInv, <1>1, PTL DEF Spec

-----------------------------------------------------------------------------
(* Completeness without reorganizations                                    *)

LEMMA LeastExists ==
    ASSUME NEW S \in SUBSET Nat, S # {}
    PROVE  \E x \in S : \A y \in S : x <= y
<1> DEFINE R == OpToRel(<, Nat)
<1>1. PICK x \in S : \A y \in S : ~ (<<y, x>> \in R)
    BY NatLessThanWellFounded, WFMin DEF OpToRel
<1>2. \A y \in S : ~ (y < x)
    BY <1>1 DEF OpToRel
<1> QED BY <1>2

LEMMA GreatestExists ==
    ASSUME NEW m \in Nat, NEW S \in SUBSET (0..m), S # {}
    PROVE  \E x \in S : \A y \in S : y <= x
<1> DEFINE T == {m - y : y \in S}
<1>1. T \subseteq Nat /\ T # {}
    <2>1. PICK y \in S : TRUE
        OBVIOUS
    <2>2. m - y \in T
        BY <2>1
    <2> QED BY <2>2
<1>2. PICK z \in T : \A u \in T : z <= u
    BY <1>1, LeastExists
<1>3. PICK x \in S : z = m - x
    BY <1>2
<1>4. \A y \in S : m - x <= m - y
    BY <1>2, <1>3
<1> QED BY <1>3, <1>4

\* Every event of a batch becomes an entity.
LEMMA NewRowsCover ==
    ASSUME NEW events \in SUBSET Event, NEW latest, NEW hashes, NEW e \in events
    PROVE  \E n \in NewRows(events, latest, hashes) : n.tx = e.tx /\ n.block = e.block
<1> DEFINE blocks == {f.block : f \in events}
<1>1. blocks \subseteq Nat /\ blocks # {}
    BY ChainAssumption DEF Event, Heights
<1>2. PICK first \in blocks : \A b \in blocks : first <= b
    BY <1>1, LeastExists
<1>3. first \in FirstBlocks(events)
    BY <1>2 DEF FirstBlocks
<1> DEFINE n == [tx |-> e.tx, log |-> e.log, block |-> e.block, hash |-> hashes[e.block],
                 confirmations |-> latest - first + 1,
                 status |-> StatusFor(latest - first + 1)]
<1>4. n \in NewRows(events, latest, hashes)
    BY <1>3 DEF NewRows
<1> QED BY <1>4

\* Every entity is made of an event.
LEMMA NewRowsOrigin ==
    ASSUME NEW events, NEW latest, NEW hashes, NEW n \in NewRows(events, latest, hashes)
    PROVE  \E e \in events : n.tx = e.tx /\ n.block = e.block
BY DEF NewRows

\* An upsert leaves a row of every transaction it is given.
LEMMA UpsertedCovers ==
    ASSUME NEW table, NEW new \in SUBSET Row, NEW n \in new
    PROVE  \E m \in Upserted(table, new) : m \in new /\ m.tx = n.tx
<1> DEFINE logs == {m.log : m \in {k \in new : k.tx = n.tx}}
<1>1. logs \in SUBSET (0..MaxLog) /\ logs # {}
    BY DEF Row
<1>2. PICK last \in logs : \A l \in logs : l <= last
    BY <1>1, GreatestExists, ChainAssumption
<1>3. PICK m \in new : m.tx = n.tx /\ m.log = last
    BY <1>2
<1>4. \A k \in new : k.tx = m.tx => k.log <= m.log
    BY <1>2, <1>3
<1> QED BY <1>3, <1>4 DEF Upserted

\* What a commit of saveState() leaves of the rows there were and of the new
\* ones: no transaction is lost, and each one keeps its block or takes the new.
NewPlace(s, new) == \E n \in new : n.tx = s.tx /\ n.block = s.block
SavedFrom(saved, table, new) ==
    /\ \A s \in saved : \E r \in table \cup new : s.tx = r.tx /\ s.block = r.block
    /\ \A r \in table : \E s \in saved :
         s.tx = r.tx /\ (s.block = r.block \/ NewPlace(s, new))
    /\ \A r \in new : \E s \in saved : s.tx = r.tx /\ NewPlace(s, new)

LEMMA SavedRows ==
    ASSUME NEW table, NEW new, NEW latest, NEW stored,
           table \subseteq Row, new \subseteq Row, latest \in 0..MaxHeight,
           stored = table \cup new \/ stored = Upserted(table, new)
    PROVE  SavedFrom(Reconfirmed(stored, latest), table, new)
<1>1. stored \subseteq table \cup new
    BY DEF Upserted
<1>2. \A r \in new : \E q \in stored : q \in new /\ q.tx = r.tx
    BY UpsertedCovers
<1>3. \A r \in table : \E q \in stored : q.tx = r.tx /\ (q = r \/ q \in new)
    <2> SUFFICES ASSUME NEW r \in table
                 PROVE  \E q \in stored : q.tx = r.tx /\ (q = r \/ q \in new)
        OBVIOUS
    <2>1. CASE r \in stored
        BY <2>1
    <2>2. CASE r \notin stored
        <3>1. PICK n \in new : n.tx = r.tx
            BY <2>2 DEF Upserted
        <3> QED BY <1>2, <3>1
    <2> QED BY <2>1, <2>2
<1>4. \A q \in stored : \E s \in Reconfirmed(stored, latest) : s.tx = q.tx /\ s.block = q.block
    BY <1>1, RecountType DEF Reconfirmed
<1>5. \A s \in Reconfirmed(stored, latest) : \E q \in stored : s.tx = q.tx /\ s.block = q.block
    BY <1>1, RecountType DEF Reconfirmed
<1>6. \A s \in Reconfirmed(stored, latest) :
        \E r \in table \cup new : s.tx = r.tx /\ s.block = r.block
    BY <1>1, <1>5
<1>7. ASSUME NEW r \in table
      PROVE  \E s \in Reconfirmed(stored, latest) :
               s.tx = r.tx /\ (s.block = r.block \/ NewPlace(s, new))
    <2>1. PICK q \in stored : q.tx = r.tx /\ (q = r \/ q \in new)
        BY <1>3
    <2>2. PICK s \in Reconfirmed(stored, latest) : s.tx = q.tx /\ s.block = q.block
        BY <1>4
    <2> QED BY <2>1, <2>2 DEF NewPlace
<1>8. ASSUME NEW r \in new
      PROVE  \E s \in Reconfirmed(stored, latest) :
               s.tx = r.tx /\ NewPlace(s, new)
    <2>1. PICK q \in stored : q.tx = r.tx /\ q \in new
        BY <1>2
    <2>2. PICK s \in Reconfirmed(stored, latest) : s.tx = q.tx /\ s.block = q.block
        BY <1>4
    <2> QED BY <2>1, <2>2 DEF NewPlace
<1> QED BY <1>6, <1>7, <1>8 DEF SavedFrom

-----------------------------------------------------------------------------
(* The bounds of a batch and of the search for a reorganization, and where *)
(* the crawler resumes                                                     *)

\* A cycle starts right after lastProcessedBlock, unless that is a string, its
\* batches are not empty ranges, and it searches for a reorganization from
\* lastProcessedBlock down to the first block.
Batching == {"fetch", "blocks", "save", "cursor"}
CycleInv ==
    /\ pc \in {"check", "fetch"} => lastIsString \/ fromBlock = lastProcessedBlock + 1
    /\ pc \in Batching \ {"fetch"} => fromBlock = lastProcessedBlock + 1
    /\ pc \in Batching => fromBlock <= toBlock
    /\ pc = "check" => probe <= lastProcessedBlock
    /\ pc \in {"rollback", "rollbackCursor"} => deepestReorg # 0
    /\ deepestReorg # 0 =>
         /\ pc \in {"check", "rollback", "rollbackCursor"}
         /\ deepestReorg \in StartBlock..lastProcessedBlock

LEMMA InitCycleInv == Init => CycleInv
BY DEF Init, CycleInv, Batching

LEMMA ContinueCycle ==
    ASSUME TypeOK, NEW from \in Int, Continue(from, latestBlock),
           lastIsString' \/ from = lastProcessedBlock' + 1
    PROVE  CycleInv' /\ pc' \in {"fetch", "sleep"}
<1>1. pc' \in {"fetch", "sleep"} /\ deepestReorg' = 0
    BY DEF Continue, ForgetLocals
<1>2. pc' = "fetch" => fromBlock' = from /\ fromBlock' <= toBlock'
    BY CrawlerAssumption DEF Continue, More, BatchEnd, Smaller, TypeOK, ForgetLocals
<1> QED BY <1>1, <1>2 DEF CycleInv, Batching

LEMMA StepCycleInv ==
    ASSUME TypeOK, CycleInv, [Next]_vars
    PROVE  CycleInv'
<1> USE DEF durable, locals, memory
<1>0. /\ lastProcessedBlock \in Int /\ deepestReorg \in Int /\ probe \in Int
      /\ fromBlock \in Int /\ toBlock \in Int /\ StartBlock \in Nat \ {0}
    BY ChainAssumption, CrawlerAssumption DEF TypeOK
<1>1. CASE Start \/ LoadCursor \/ LoadFromDb \/ LoadFails
    <2>1. /\ pc \in {"down", "load", "loadDb"} /\ pc' \in {"load", "loadDb", "start"}
          /\ UNCHANGED deepestReorg
        BY <1>1 DEF Start, LoadCursor, LoadFromDb, LoadFails, Fault
    <2>2. deepestReorg' = 0
        BY <2>1 DEF CycleInv
    <2> QED BY <2>1, <2>2 DEF CycleInv, Batching
<1>2. CASE GetLatestBlock
    <2>1. pc' = "check" /\ deepestReorg' = 0 /\ probe' = lastProcessedBlock'
          /\ (lastIsString' \/ fromBlock' = lastProcessedBlock' + 1)
        BY <1>2 DEF GetLatestBlock
    <2>2. probe' <= lastProcessedBlock'
        BY <1>0, <1>2 DEF GetLatestBlock
    <2> QED BY <2>1, <2>2 DEF CycleInv, Batching
<1>3. CASE CheckForReorg
    <2>0. pc = "check" /\ UNCHANGED <<lastProcessedBlock, lastIsString>>
        BY <1>3 DEF CheckForReorg
    <2>1. CASE \E b \in ToCompare :
                 /\ deepestReorg' = b /\ probe' = b - 1
                 /\ UNCHANGED <<pc, latestBlock, fromBlock, toBlock, batch>>
        <3>1. PICK b \in ToCompare :
                /\ deepestReorg' = b /\ probe' = b - 1
                /\ UNCHANGED <<pc, latestBlock, fromBlock, toBlock, batch>>
            BY <2>1
        <3>2. b \in Int /\ b <= lastProcessedBlock /\ b >= StartBlock
            BY <1>0, <2>0, ChainAssumption DEF ToCompare, Cached, Heights, CycleInv
        <3>3. probe' <= lastProcessedBlock' /\ deepestReorg' \in StartBlock..lastProcessedBlock'
            BY <1>0, <2>0, <3>1, <3>2
        <3>4. pc' = "check" /\ UNCHANGED <<lastIsString, lastProcessedBlock, fromBlock>>
            BY <2>0, <3>1
        <3>5. lastIsString' \/ fromBlock' = lastProcessedBlock' + 1
            BY <2>0, <3>4 DEF CycleInv
        <3> QED BY <3>3, <3>4, <3>5 DEF CycleInv, Batching
    <2>2. CASE ReorgCheckEnds(deepestReorg)
        <3>1. CASE deepestReorg = 0
            BY <1>0, <2>0, <2>2, <3>1, ContinueCycle DEF ReorgCheckEnds, CycleInv
        <3>2. CASE deepestReorg # 0
            BY <2>0, <2>2, <3>2 DEF ReorgCheckEnds, CycleInv, Batching
        <3> QED BY <3>1, <3>2
    <2> QED BY <1>3, <2>1, <2>2 DEF CheckForReorg
<1>4. CASE RollbackDelete
    BY <1>4 DEF RollbackDelete, CycleInv, Batching
<1>5. CASE RollbackCursor
    <2>1. lastProcessedBlock' = deepestReorg - 1 /\ Continue(deepestReorg, latestBlock)
        BY <1>5 DEF RollbackCursor
    <2> QED BY <1>0, <2>1, ContinueCycle
<1>6. CASE FetchEvents \/ SaveBlockMap \/ SaveState
    <2>1. CASE ForgetLocals /\ pc' = "retry"
        BY <2>1 DEF ForgetLocals, CycleInv, Batching
    <2>2. CASE /\ pc \in Batching \ {"cursor"} /\ pc' \in Batching \ {"fetch"}
               /\ ~ lastIsString \/ pc # "fetch"
               /\ UNCHANGED <<lastProcessedBlock, lastIsString, fromBlock, toBlock, deepestReorg>>
        BY <2>2 DEF CycleInv, Batching
    <2> QED BY <1>6, <2>1, <2>2 DEF FetchEvents, SaveBlockMap, SaveState, Batching
<1>7. CASE UpdateCursor
    <2>1. lastProcessedBlock' = toBlock /\ Continue(toBlock + 1, latestBlock)
        BY <1>7 DEF UpdateCursor
    <2> QED BY <1>0, <2>1, ContinueCycle
<1>8. CASE CallFails \/ Crash
    BY <1>8 DEF CallFails, Crash, ForgetLocals, CycleInv, Batching
<1>9. CASE LoseCursor \/ ChainMoves \/ UNCHANGED vars
    BY <1>9 DEF LoseCursor, ChainMoves, vars, CycleInv
<1> QED BY <1>1, <1>2, <1>3, <1>4, <1>5, <1>6, <1>7, <1>8, <1>9 DEF Next, Crawl

\* The crawler resumes from a block number, and NoCursor is none.
ResumeInv ==
    /\ cursor >= NoCursor
    /\ pc \notin Starting => lastProcessedBlock >= 0

LEMMA InitResumeInv == Init => ResumeInv
BY DEF Init, ResumeInv, NoCursor, Starting

LEMMA StepResumeInv ==
    ASSUME TypeOK, CycleInv, ResumeInv, [Next]_vars
    PROVE  ResumeInv'
<1> USE DEF durable, locals, memory, NoCursor
<1>0. /\ lastProcessedBlock \in Int /\ deepestReorg \in Int /\ cursor \in Int
      /\ fromBlock \in Int /\ toBlock \in Int /\ StartBlock \in Nat \ {0}
      /\ cursor >= -1
    BY ChainAssumption, CrawlerAssumption DEF TypeOK, ResumeInv
\* Most steps leave the cursor and lastProcessedBlock alone.
<1>f. ASSUME UNCHANGED <<cursor, lastProcessedBlock>>, pc' \notin Starting => pc \notin Starting
      PROVE  ResumeInv'
    BY <1>f DEF ResumeInv
<1>g. ASSUME cursor' = cursor \/ cursor' = -1 \/ cursor' = lastProcessedBlock',
             lastProcessedBlock' \in Int, lastProcessedBlock' >= 0
      PROVE  ResumeInv'
    BY <1>0, <1>g DEF ResumeInv
<1>1. CASE Start \/ Crash \/ LoseCursor
    BY <1>0, <1>1 DEF Start, Crash, LoseCursor, ResumeInv, Starting
<1>2. CASE LoadCursor
    BY <1>0, <1>2 DEF LoadCursor, ResumeInv, Starting
<1>3. CASE LoadFromDb
    BY <1>3, <1>g, ResumeBlock DEF LoadFromDb
<1>4. CASE GetLatestBlock \/ RollbackDelete \/ FetchEvents \/ SaveBlockMap \/ SaveState
    BY <1>4, <1>f DEF GetLatestBlock, RollbackDelete, FetchEvents, SaveBlockMap, SaveState,
       Idle, Starting
<1>5. CASE CheckForReorg
    BY <1>5, <1>f DEF CheckForReorg, Starting
<1>6. CASE RollbackCursor
    <2>1. deepestReorg >= StartBlock
        BY <1>0, <1>6 DEF RollbackCursor, CycleInv
    <2> QED BY <1>0, <1>6, <1>g, <2>1 DEF RollbackCursor
<1>7. CASE UpdateCursor
    <2>1. toBlock >= 0
        BY <1>0, <1>7 DEF UpdateCursor, CycleInv, Batching, ResumeInv, Starting
    <2> QED BY <1>0, <1>7, <1>g, <2>1 DEF UpdateCursor
<1>8. CASE LoadFails
    <2>1. cursor' \in Int /\ cursor' >= -1
        BY <1>0, <1>8, ResumeBlock DEF LoadFails
    <2> QED BY <1>0, <1>8, <2>1 DEF LoadFails, ResumeInv
<1>9. CASE CallFails
    BY <1>9, <1>f DEF CallFails, Fault, Idle, Starting
<1>10. CASE ChainMoves \/ UNCHANGED vars
    BY <1>10, <1>f DEF ChainMoves, vars
<1> QED BY <1>1, <1>2, <1>3, <1>4, <1>5, <1>6, <1>7, <1>8, <1>9, <1>10 DEF Next, Crawl

\* What holds of the crawler however the chain reorganizes.
CrawlInv == TypeOK /\ CountingInv /\ CycleInv /\ ResumeInv

LEMMA InitCrawlInv == Init => CrawlInv
BY InitTypeOK, InitCountingInv, InitCycleInv, InitResumeInv DEF CrawlInv

LEMMA StepCrawlInv ==
    ASSUME CrawlInv, [Next]_vars
    PROVE  CrawlInv'
BY StepTypeOK, StepCountingInv, StepCycleInv, StepResumeInv DEF CrawlInv

-----------------------------------------------------------------------------
(* No gap below the cursor                                                 *)

LEMMA InitGapInv == Init => GapInv
BY CrawlerAssumption
DEF Init, ChainInit, GapInv, NoReorgSeen, BatchExact, BatchInPlace, BatchComplete,
    NoGapBelow, NoGapUpTo,
    NothingCached, Saving, NoCursor

\* What a step that changes neither the table nor the chain has to show.
LEMMA NoGapFrame ==
    ASSUME UNCHANGED <<rows, home>>, NEW b
    PROVE  NoGapUpTo(b) <=> (NoGapUpTo(b))'
BY DEF NoGapUpTo, Indexed

\* Nothing lies below the first block.
LEMMA NoGapBelowStart ==
    ASSUME NEW b \in Int, b < StartBlock
    PROVE  NoGapUpTo(b) /\ (NoGapUpTo(b))'
BY CrawlerAssumption DEF NoGapUpTo

\* Without reorganizations, and with nodes that are up to date, the cached
\* hashes are the ones the check compares them with.
LEMMA NoMismatch ==
    ASSUME TypeOK, CountingInv, NoReorgSeen, Lag = 0,
           NEW b \in ToCompare, NEW n \in NodeHeads
    PROVE  HashOf(b, n) = blockMap[b]
<1>1. n = head /\ head \in Nat
    BY ChainAssumption DEF NodeHeads, TypeOK, ChainTypeOK
<1>2. b \in Heights /\ b <= head /\ blockMap[b] # NoHash
    BY DEF ToCompare, Cached, CountingInv
<1>3. b \in 1..n
    BY <1>1, <1>2, ChainAssumption DEF Heights
<1> QED BY <1>2, <1>3 DEF HashOf, NoReorgSeen

LEMMA ContinueBatch ==
    ASSUME NEW from, Continue(from, latestBlock),
           lastIsString' \/ from = lastProcessedBlock' + 1
    PROVE  /\ BatchInPlace' /\ BatchComplete'
           /\ pc' \in {"fetch", "sleep"} /\ deepestReorg' = 0
<1>1. pc' \in {"fetch", "sleep"} /\ batch' = {} /\ deepestReorg' = 0
    BY DEF Continue, ForgetLocals
<1>2. pc' = "fetch" => fromBlock' = from
    BY DEF Continue
<1> QED BY <1>1, <1>2 DEF BatchInPlace, BatchComplete, Saving

\* saveState() closes the gap up to the end of its batch.
LEMMA SaveClosesGap ==
    ASSUME TypeOK, CountingInv, BatchExact, NoGapBelow,
           pc = "save", home' = home,
           NEW stored \in {rows \cup NewRows(batch, latestBlock, blockMap),
                           Upserted(rows, NewRows(batch, latestBlock, blockMap))},
           rows' = Reconfirmed(stored, latestBlock)
    PROVE  /\ \A b : NoGapUpTo(b) => (NoGapUpTo(b))'
           /\ \A b \in Int : b <= toBlock => (NoGapUpTo(b))'
           /\ MayUseTable => \A s \in rows' : (NoGapUpTo(s.block))'
<1> DEFINE new == NewRows(batch, latestBlock, blockMap)
<1>0. stored \in {rows \cup new, Upserted(rows, new)}
    OBVIOUS
<1>1. new \subseteq Row
    BY NewRowsType DEF TypeOK
<1>2. \A n \in new : n.block = home[n.tx] /\ n.block <= toBlock
    BY NewRowsOrigin DEF BatchExact, BatchInPlace, CountingInv
<1>3. \A e \in batch : \E n \in new : n.tx = e.tx
    BY NewRowsCover DEF TypeOK
<1> HIDE DEF new
<1>4. SavedFrom(rows', rows, new)
    <2>1. rows \subseteq Row /\ latestBlock \in 0..MaxHeight
        BY DEF TypeOK
    <2>2. SavedFrom(Reconfirmed(stored, latestBlock), rows, new)
        BY <1>0, <1>1, <2>1, SavedRows
    <2> QED BY <2>2
<1>5. ASSUME NEW t, Indexed(t) PROVE Indexed(t)'
    BY <1>2, <1>4, <1>5 DEF Indexed, SavedFrom, NewPlace
<1>6. ASSUME NEW b, NoGapUpTo(b) PROVE (NoGapUpTo(b))'
    BY <1>5, <1>6 DEF NoGapUpTo
<1>7. ASSUME NEW e \in batch PROVE Indexed(e.tx)'
    BY <1>2, <1>3, <1>4 DEF Indexed, SavedFrom, NewPlace
<1>8. ASSUME NEW b \in Int, b <= toBlock PROVE (NoGapUpTo(b))'
    <2> SUFFICES ASSUME NEW t \in Emitting, home[t] \in StartBlock..b
                 PROVE  Indexed(t)'
        BY DEF NoGapUpTo
    <2>1. fromBlock = lastProcessedBlock + 1
        BY DEF BatchExact, BatchInPlace, Saving
    <2>2. CASE home[t] <= lastProcessedBlock
        BY <2>2, <1>5, CrawlerAssumption DEF NoGapBelow, NoGapUpTo, TypeOK
    <2>3. CASE home[t] \in fromBlock..toBlock
        <3>0. home[t] \in Heights
            <4>1. t \in Txs
                BY ChainAssumption DEF Emitting
            <4>2. home[t] \in 0..MaxHeight /\ home[t] >= StartBlock
                BY <4>1 DEF TypeOK, ChainTypeOK
            <4> QED BY <4>2, ChainAssumption, CrawlerAssumption DEF Heights
        <3>1. PICK e \in batch : e.tx = t
            BY <2>3, <3>0 DEF BatchExact, BatchComplete, Saving
        <3> QED BY <3>1, <1>7
    <2> QED BY <1>8, <2>1, <2>2, <2>3, CrawlerAssumption DEF TypeOK
<1>9. ASSUME MayUseTable, NEW s \in rows' PROVE (NoGapUpTo(s.block))'
    <2>1. PICK r \in rows \cup new : s.tx = r.tx /\ s.block = r.block
        BY <1>4 DEF SavedFrom
    <2>2. CASE r \in rows
        BY <2>1, <2>2, <1>6, <1>9 DEF NoGapBelow
    <2>3. CASE r \in new
        BY <2>1, <2>3, <1>1, <1>2, <1>8, ChainAssumption DEF Row, Heights
    <2> QED BY <2>2, <2>3
<1> QED BY <1>6, <1>8, <1>9 DEF TypeOK

\* Only the environment moves the chain.
LEMMA ChainSteps ==
    ASSUME [Next]_vars
    PROVE  Mine \/ (\E h \in Heights : Reorg(h)) \/ UNCHANGED chainVars
<1>1. Crawl => UNCHANGED chainVars
    BY DEF Crawl, Start, LoadCursor, LoadFromDb, GetLatestBlock, CheckForReorg,
        RollbackDelete, RollbackCursor, FetchEvents, SaveBlockMap, SaveState, UpdateCursor
<1>2. LoadFails \/ CallFails \/ Crash \/ LoseCursor => UNCHANGED chainVars
    BY DEF LoadFails, CallFails, Crash, LoseCursor
<1>3. ChainMoves => Mine \/ \E h \in Heights : Reorg(h)
    BY DEF ChainMoves
<1>4. UNCHANGED vars => UNCHANGED chainVars
    BY DEF vars
<1> QED BY <1>1, <1>2, <1>3, <1>4 DEF Next

\* Without reorganizations the check finds none and the events of a batch are in
\* their places, whatever else there is in the table; and if the filter selects
\* both events, a batch has all of them.
LEMMA StepBatchExact ==
    ASSUME TypeOK, CountingInv, Lag = 0, forks = 0, forks' = 0, NoReorgSeen,
           BatchInPlace, [Next]_vars
    PROVE  /\ NoReorgSeen' /\ BatchInPlace'
           /\ (EventFilter = "anyOf" /\ BatchComplete) => BatchComplete'
<1> USE DEF chainVars, durable, locals, memory, budgets
<1>0. /\ forks \in Nat /\ head \in Nat /\ head <= MaxHeight /\ MaxHeight \in Nat
      /\ StartBlock \in Nat \ {0} /\ BatchSize \in Nat \ {0}
    BY ChainAssumption, CrawlerAssumption DEF TypeOK, ChainTypeOK, Hashes
<1>l. pc \notin {"rollback", "rollbackCursor"} /\ deepestReorg = 0
    BY DEF NoReorgSeen
<1>1. CASE Start
    BY <1>1 DEF Start, NoReorgSeen, BatchInPlace, BatchComplete, Saving
<1>2. CASE LoadCursor
    BY <1>2 DEF LoadCursor, NoReorgSeen, BatchInPlace, BatchComplete, Saving
<1>3. CASE LoadFromDb
    BY <1>3 DEF LoadFromDb, NoReorgSeen, BatchInPlace, BatchComplete, Saving
<1>4. CASE GetLatestBlock
    BY <1>4 DEF GetLatestBlock, NoReorgSeen, BatchInPlace, BatchComplete, Saving
<1>5. CASE CheckForReorg
    <2>1. ReorgCheckEnds(0)
        BY <1>5, <1>l, NoMismatch DEF CheckForReorg
    <2>2. Continue(fromBlock, latestBlock)
        BY <2>1 DEF ReorgCheckEnds
    <2>3. BatchInPlace' /\ BatchComplete' /\ pc' \in {"fetch", "sleep"} /\ deepestReorg' = 0
        <3>1. lastIsString' \/ fromBlock = lastProcessedBlock' + 1
            BY <1>5 DEF CheckForReorg, BatchInPlace
        <3> QED BY <2>2, <3>1, ContinueBatch
    <2> QED BY <1>5, <2>3 DEF CheckForReorg, NoReorgSeen
<1>6. CASE RollbackDelete \/ RollbackCursor
    BY <1>6, <1>l DEF RollbackDelete, RollbackCursor
<1>7. CASE FetchEvents
    <2>1. CASE lastIsString
        BY <1>7, <2>1 DEF FetchEvents, ForgetLocals, NoReorgSeen, BatchInPlace, BatchComplete, Saving
    <2>2. CASE ~ lastIsString
        <3>1. PICK n \in NodeHeads : batch' = LogsIn(fromBlock, toBlock, n)
            BY <1>7, <2>2 DEF FetchEvents
        <3>2. n = head
            BY <1>0 DEF NodeHeads
        <3>3. \A e \in batch' : e.block = home[e.tx]
            BY <3>1 DEF LogsIn
        <3>4. ASSUME EventFilter = "anyOf",
                     NEW t \in Emitting, home[t] \in Heights \cap (fromBlock..toBlock)
              PROVE  \E e \in batch' : e.tx = t
            <4>1. PICK l \in TxLogs : l[1] = t
                BY DEF Emitting
            <4>2. home[t] \in 1..n
                BY <1>0, <3>2, <3>4, <4>1, ChainAssumption DEF TypeOK, ChainTypeOK, Heights
            <4>3. [tx |-> l[1], log |-> l[2], block |-> home[l[1]]] \in batch'
                BY <3>1, <3>4, <4>1, <4>2 DEF LogsIn, Selected
            <4> QED BY <4>1, <4>3
        <3>5. fromBlock = lastProcessedBlock + 1
            BY <1>7, <2>2 DEF FetchEvents, BatchInPlace
        <3> QED BY <1>7, <2>2, <3>3, <3>4, <3>5 DEF FetchEvents, NoReorgSeen, BatchInPlace, BatchComplete, Saving
    <2> QED BY <2>1, <2>2
<1>8. CASE SaveBlockMap
    <2>1. NoReorgSeen'
        <3>1. PICK n \in NodeHeads :
                blockMap' = [b \in Heights |->
                   IF /\ blockMap[b] = NoHash
                      /\ \/ \E e \in batch : e.block = b
                         \/ b \in fromBlock..toBlock /\ b > latestBlock - ReorgDepth
                     THEN HashOf(b, n) ELSE blockMap[b]]
            BY <1>8 DEF SaveBlockMap
        <3>2. \A b \in Heights : HashOf(b, n) \in {0, NoHash}
            BY DEF HashOf, NoReorgSeen
        <3>3. \A b \in Heights : blockMap'[b] \in {0, NoHash}
            BY <3>1, <3>2 DEF NoReorgSeen
        <3> QED BY <1>8, <3>3 DEF SaveBlockMap, NoReorgSeen
    <2> QED BY <1>8, <2>1 DEF SaveBlockMap, BatchInPlace, BatchComplete, Saving
<1>9. CASE SaveState
    <2>1. CASE pc' = "cursor" /\ UNCHANGED locals
        BY <1>9, <2>1 DEF SaveState, NoReorgSeen, BatchInPlace, BatchComplete, Saving
    <2>2. CASE pc' = "retry" /\ ForgetLocals
        BY <1>9, <2>2 DEF SaveState, ForgetLocals, NoReorgSeen, BatchInPlace, BatchComplete, Saving
    <2> QED BY <1>9, <2>1, <2>2 DEF SaveState
<1>10. CASE UpdateCursor
    <2>1. Continue(toBlock + 1, latestBlock) /\ lastProcessedBlock' = toBlock
        BY <1>10 DEF UpdateCursor
    <2>2. BatchInPlace' /\ BatchComplete' /\ pc' \in {"fetch", "sleep"} /\ deepestReorg' = 0
        BY <2>1, ContinueBatch
    <2> QED BY <1>10, <2>2 DEF UpdateCursor, NoReorgSeen
<1>11. CASE LoadFails
    BY <1>11 DEF LoadFails, NoReorgSeen, BatchInPlace, BatchComplete, Saving
<1>12. CASE CallFails
    BY <1>12 DEF CallFails, ForgetLocals, NoReorgSeen, BatchInPlace, BatchComplete, Saving
<1>13. CASE Crash
    BY <1>13 DEF Crash, ForgetLocals, NothingCached, NoReorgSeen, BatchInPlace, BatchComplete, Saving
<1>14. CASE LoseCursor
    BY <1>14 DEF LoseCursor, NoReorgSeen, BatchInPlace, BatchComplete, Saving
<1>15. CASE ChainMoves
    <2>1. Mine /\ UNCHANGED <<durable, memory>>
        BY <1>0, <1>15 DEF ChainMoves, Reorg
    <2>2. \A t \in Txs : home'[t] = home[t] \/ (home[t] = 0 /\ home'[t] = head + 1)
        BY <2>1 DEF Mine
    <2>3. NoReorgSeen'
        <3>1. hashAt' = [hashAt EXCEPT ![head + 1] = 0] /\ hashAt \in [Heights -> Hashes]
            BY <2>1 DEF Mine, TypeOK, ChainTypeOK
        <3>2. \A h \in Heights : hashAt'[h] = 0
            BY <3>1 DEF NoReorgSeen
        <3> QED BY <2>1, <3>2 DEF NoReorgSeen
    <2>4. BatchInPlace' /\ (BatchComplete => BatchComplete')
        <3>1. \A e \in batch : e.block = home'[e.tx]
            BY <1>0, <2>2 DEF BatchInPlace, TypeOK, Event, Heights
        <3>2. \A t \in Emitting :
                home'[t] \in Heights \cap (fromBlock..toBlock) => home'[t] = home[t]
            BY <1>0, <2>2, ChainAssumption DEF Emitting, CountingInv, TypeOK
        <3> QED BY <2>1, <3>1, <3>2 DEF BatchInPlace, BatchComplete, Saving
    <2> QED BY <2>3, <2>4
<1>16. CASE UNCHANGED vars
    BY <1>16 DEF vars, NoReorgSeen, BatchInPlace, BatchComplete, Saving
<1> QED
    BY <1>1, <1>2, <1>3, <1>4, <1>5, <1>6, <1>7, <1>8, <1>9, <1>10, <1>11,
       <1>12, <1>13, <1>14, <1>15, <1>16
    DEF Next, Crawl

\* A new block makes no gap below a block that exists.
LEMMA MineMakesNoGap ==
    ASSUME TypeOK, Mine, rows' = rows, NEW b \in Int, WithinChain(b), NoGapUpTo(b)
    PROVE  (NoGapUpTo(b))'
<1> SUFFICES ASSUME NEW t \in Emitting, home'[t] \in StartBlock..b PROVE Indexed(t)'
    BY DEF NoGapUpTo
<1>1. t \in Txs /\ head \in Nat /\ StartBlock \in Nat
    BY ChainAssumption, CrawlerAssumption DEF Emitting, TypeOK, ChainTypeOK
<1>2. home'[t] = home[t]
    BY <1>1 DEF Mine, WithinChain
<1> QED BY <1>2 DEF NoGapUpTo, Indexed

LEMMA StepNoGapBelow ==
    ASSUME CrawlInv, Lag = 0, forks = 0, forks' = 0, NoReorgSeen, BatchExact,
           NoGapBelow, [Next]_vars
    PROVE  NoGapBelow'
<1> USE DEF chainVars, durable, locals, memory, budgets, CrawlInv
<1>0. /\ forks \in Nat /\ StartBlock \in Nat \ {0}
      /\ cursor \in Int /\ lastProcessedBlock \in Int /\ toBlock \in Int
      /\ cursorLosses \in Int /\ MaxCursorLosses \in Int
    BY ChainAssumption, CrawlerAssumption DEF TypeOK, ChainTypeOK, Hashes
<1>l. pc \notin {"rollback", "rollbackCursor"} /\ deepestReorg = 0
    BY DEF NoReorgSeen
\* A step that leaves the chain and the table alone: it has to account for where
\* the crawler claims to be.
<1>f. ASSUME UNCHANGED <<rows, home>>, MayUseTable' => MayUseTable,
             pc' = "loadDb" => cursor' = NoCursor,
             pc' = "cursor" => pc = "cursor" /\ toBlock' = toBlock,
             lastProcessedBlock' = lastProcessedBlock \/ NoGapUpTo(lastProcessedBlock'),
             cursor' = cursor \/ NoGapUpTo(cursor')
      PROVE  NoGapBelow'
    BY <1>f DEF NoGapBelow, NoGapUpTo, Indexed
<1>r. ASSUME pc = "loadDb", NEW b, ResumesAt(b) PROVE NoGapUpTo(b)
    <2>1. CASE rows = {} /\ b = StartBlock - 1
        BY <1>0, <2>1, NoGapBelowStart
    <2>2. CASE \E r \in rows : b = r.block
        BY <1>r, <2>2 DEF NoGapBelow, MayUseTable
    <2> QED BY <1>r, <2>1, <2>2, ResumeBlock
<1> USE DEF MayUseTable
<1>1. CASE Start
    BY <1>1, <1>f DEF Start
<1>2. CASE LoadCursor
    BY <1>2, <1>f DEF LoadCursor, NoGapBelow
<1>3. CASE LoadFromDb
    <2>1. NoGapUpTo(cursor') /\ cursor = NoCursor
        BY <1>3, <1>r DEF LoadFromDb, NoGapBelow
    <2> QED BY <1>3, <1>f, <2>1 DEF LoadFromDb
<1>4. CASE GetLatestBlock
    BY <1>4, <1>f DEF GetLatestBlock
<1>5. CASE CheckForReorg
    <2>1. pc' \in {"check", "rollback", "fetch", "sleep"}
        BY <1>5 DEF CheckForReorg, ReorgCheckEnds, Continue
    <2> QED BY <1>5, <1>f, <2>1 DEF CheckForReorg
<1>6. CASE RollbackDelete \/ RollbackCursor
    BY <1>6, <1>l DEF RollbackDelete, RollbackCursor
<1>7. CASE FetchEvents \/ SaveBlockMap
    BY <1>7, <1>f DEF FetchEvents, SaveBlockMap
<1>8. CASE SaveState
    <2> DEFINE new == NewRows(batch, latestBlock, blockMap)
    <2>1. ASSUME NEW stored \in {rows \cup new, Upserted(rows, new)},
                 rows' = Reconfirmed(stored, latestBlock), pc' = "cursor", UNCHANGED locals
          PROVE  NoGapBelow'
        <3>1. pc = "save" /\ home' = home
            BY <1>8 DEF SaveState
        <3>2. /\ \A b : NoGapUpTo(b) => (NoGapUpTo(b))'
              /\ \A b \in Int : b <= toBlock => (NoGapUpTo(b))'
              /\ MayUseTable => \A s \in rows' : (NoGapUpTo(s.block))'
            BY <2>1, <3>1, SaveClosesGap
        <3>3. NoGapUpTo(toBlock)' /\ NoGapUpTo(lastProcessedBlock)' /\ NoGapUpTo(cursor)'
            BY <1>0, <1>8, <2>1, <3>2 DEF SaveState, NoGapBelow, NoGapUpTo, Indexed
        <3>4. MayUseTable' = MayUseTable
            BY <1>8 DEF SaveState
        <3> QED BY <2>1, <3>2, <3>3, <3>4 DEF NoGapBelow
    <2>2. CASE pc' = "retry" /\ UNCHANGED rows
        BY <1>8, <1>f, <2>2 DEF SaveState
    <2> HIDE DEF new
    <2> QED BY <1>8, <2>1, <2>2 DEF SaveState, new
<1>9. CASE UpdateCursor
    <2>1. /\ pc = "cursor" /\ pc' \in {"fetch", "sleep"}
          /\ lastProcessedBlock' = toBlock /\ cursor' = toBlock
          /\ UNCHANGED <<rows, home, budgets>>
        BY <1>9 DEF UpdateCursor, Continue
    <2>2. NoGapUpTo(toBlock)
        BY <2>1 DEF NoGapBelow
    <2>3. cursor' # NoCursor
        <3>1. fromBlock = lastProcessedBlock + 1 /\ fromBlock <= toBlock /\ lastProcessedBlock >= 0
            BY <2>1 DEF CycleInv, Batching, ResumeInv, Starting
        <3> QED BY <1>0, <2>1, <3>1 DEF NoCursor, TypeOK
    <2>4. MayUseTable' => MayUseTable
        BY <2>1, <2>3
    <2> QED BY <1>f, <2>1, <2>2, <2>4
<1>10. CASE LoadFails
    <2>1. NoGapUpTo(lastProcessedBlock') /\ (MayUseTable' => MayUseTable)
        BY <1>0, <1>10, NoGapBelowStart DEF LoadFails, Fault, NoGapBelow
    <2>2. cursor' = cursor \/ NoGapUpTo(cursor')
        BY <1>10, <1>r DEF LoadFails, Fault
    <2> QED BY <1>10, <1>f, <2>1, <2>2 DEF LoadFails
<1>11. CASE CallFails
    BY <1>11, <1>f DEF CallFails, Fault
<1>12. CASE Crash
    BY <1>0, <1>12, <1>f, NoGapBelowStart DEF Crash
<1>13. CASE LoseCursor
    BY <1>0, <1>13, <1>f, NoGapBelowStart DEF LoseCursor, NoCursor, NoGapBelow
<1>14. CASE ChainMoves
    <2>1. Mine /\ UNCHANGED <<durable, memory, budgets>>
        BY <1>0, <1>14 DEF ChainMoves, Reorg
    <2>2. /\ WithinChain(lastProcessedBlock) /\ WithinChain(cursor) /\ WithinChain(toBlock)
          /\ \A r \in rows : r.block \in Int /\ WithinChain(r.block)
        <3>1. \A r \in rows : r.block \in Int
            BY ChainAssumption DEF TypeOK, Row, Heights
        <3>2. toBlock <= head
            BY <1>0, ChainAssumption DEF CountingInv, TypeOK, ChainTypeOK
        <3> QED BY <3>1, <3>2 DEF CountingInv, CursorWithinChain, WithinChain
    <2>3. \A b \in Int : WithinChain(b) /\ NoGapUpTo(b) => (NoGapUpTo(b))'
        BY <2>1, MineMakesNoGap
    <2>4. pc = "cursor" => (NoGapUpTo(toBlock))'
        BY <1>0, <2>1, <2>2, <2>3 DEF NoGapBelow, NoGapUpTo, Indexed
    <2>5. NoGapUpTo(lastProcessedBlock)' /\ NoGapUpTo(cursor)'
        BY <1>0, <2>1, <2>2, <2>3 DEF NoGapBelow, NoGapUpTo, Indexed
    <2>6. MayUseTable => \A r \in rows : (NoGapUpTo(r.block))'
        BY <2>2, <2>3 DEF NoGapBelow
    <2> QED BY <2>1, <2>4, <2>5, <2>6 DEF NoGapBelow
<1>15. CASE UNCHANGED vars
    BY <1>15, <1>f DEF vars, NoGapBelow
<1> QED
    BY <1>1, <1>2, <1>3, <1>4, <1>5, <1>6, <1>7, <1>8, <1>9, <1>10, <1>11,
       <1>12, <1>13, <1>14, <1>15
    DEF Next, Crawl

LEMMA StepGapInv ==
    ASSUME EventFilter = "anyOf", CrawlInv, GapInv, [Next]_vars
    PROVE  GapInv'
<1> SUFFICES ASSUME Lag = 0, forks' = 0 PROVE NoReorgSeen' /\ BatchExact' /\ NoGapBelow'
    BY DEF GapInv
<1>1. forks = 0
    BY ChainSteps DEF Mine, Reorg, chainVars, CrawlInv, TypeOK, ChainTypeOK, Hashes
<1>2. NoReorgSeen /\ BatchExact /\ NoGapBelow
    BY <1>1 DEF GapInv
<1> QED BY <1>1, <1>2, StepBatchExact, StepNoGapBelow DEF CrawlInv, BatchExact

\* The invariant that the bounds on confirmations and on the cursor rest on holds
\* on every behavior.
THEOREM CountingInvHolds == Spec => []CountingInv
<1> QED BY InitTypeOK, StepTypeOK, InitCountingInv, StepCountingInv, PTL DEF Spec

\* Likewise for what NoGap rests on, if the filter of the query selects both events.
THEOREM GapInvHolds ==
    ASSUME EventFilter = "anyOf"
    PROVE  Spec => []GapInv
<1>1. Init => CrawlInv /\ GapInv
    BY InitCrawlInv, InitGapInv
<1>2. CrawlInv /\ GapInv /\ [Next]_vars => (CrawlInv /\ GapInv)'
    BY StepCrawlInv, StepGapInv
<1> QED BY <1>1, <1>2, PTL DEF Spec

\* With a filter that selects both events, with nodes that are up to date, and
\* until the chain reorganizes, every transaction of the contract at or below the
\* cursor is in the table: no failed call, crash, lost cursor or unique violation
\* makes the crawler skip one.
THEOREM NothingIsSkipped ==
    ASSUME EventFilter = "anyOf"
    PROVE  Spec => []NoGap
<1>1. GapInv => NoGap
    BY DEF GapInv, NoGapBelow, NoGap
<1> QED BY GapInvHolds, <1>1, PTL

-----------------------------------------------------------------------------
(* What one statement may do to the table: no assumption on the chain, the *)
(* nodes, the faults or the crashes.                                       *)

\* No transaction has two rows, and no log is twice in a batch.
OneRowEach(table) == \A r, s \in table : r.tx = s.tx => r = s
OneEventPerLog == \A e, f \in batch : e.tx = f.tx /\ e.log = f.log => e = f
UniqueInv == OneRowEach(rows) /\ OneEventPerLog

\* The entities of a batch differ in transaction or log, as its events do.
LEMMA NewRowsDistinct ==
    ASSUME OneEventPerLog, batch \subseteq Event, NEW latest, NEW hashes,
           NEW n \in NewRows(batch, latest, hashes), NEW m \in NewRows(batch, latest, hashes),
           n.tx = m.tx, n.log = m.log
    PROVE  n = m
<1> DEFINE Made(e, first) ==
             [tx |-> e.tx, log |-> e.log, block |-> e.block, hash |-> hashes[e.block],
              confirmations |-> latest - first + 1, status |-> StatusFor(latest - first + 1)]
<1>1. PICK e \in batch, b \in FirstBlocks(batch) : n = Made(e, b)
    BY DEF NewRows
<1>2. PICK f \in batch, c \in FirstBlocks(batch) : m = Made(f, c)
    BY DEF NewRows
<1>3. e = f
    BY <1>1, <1>2 DEF OneEventPerLog
<1>4. b = c
    <2>1. b \in Nat /\ c \in Nat
        BY ChainAssumption DEF FirstBlocks, Event, Heights
    <2>2. b <= c /\ c <= b
        BY DEF FirstBlocks
    <2> QED BY <2>1, <2>2
<1> QED BY <1>1, <1>2, <1>3, <1>4

\* An upsert keeps one row of each transaction, the one of its last log.
LEMMA UpsertedDistinct ==
    ASSUME NEW table \in SUBSET Row, OneRowEach(table), NEW new \in SUBSET Row,
           \A n, m \in new : n.tx = m.tx /\ n.log = m.log => n = m
    PROVE  OneRowEach(Upserted(table, new))
<1> SUFFICES ASSUME NEW r \in Upserted(table, new), NEW s \in Upserted(table, new), r.tx = s.tx
             PROVE  r = s
    BY DEF OneRowEach
<1>1. CASE r \in new /\ s \in new
    <2>1. r.log <= s.log /\ s.log <= r.log
        BY <1>1 DEF Upserted
    <2>2. r.log \in Int /\ s.log \in Int
        BY <1>1 DEF Row
    <2> QED BY <1>1, <2>1, <2>2
<1>2. CASE r \notin new \/ s \notin new
    BY <1>2 DEF Upserted, OneRowEach
<1> QED BY <1>1, <1>2

\* Recounting keeps the transactions of the table apart.
LEMMA ReconfirmedDistinct ==
    ASSUME NEW table \in SUBSET Row, OneRowEach(table), NEW latest \in 0..MaxHeight
    PROVE  OneRowEach(Reconfirmed(table, latest))
<1> DEFINE After(r) == IF r.confirmations < RequiredConfirmations THEN Recount(r, latest) ELSE r
<1>1. \A r \in table : After(r).tx = r.tx
    BY RecountType
<1>2. Reconfirmed(table, latest) = {After(r) : r \in table}
    BY DEF Reconfirmed
<1> HIDE DEF After
<1> QED BY <1>1, <1>2 DEF OneRowEach

\* A rollback takes the rows from some block of the table on, or none.
LEMMA RolledBackChanges ==
    ASSUME NEW table \in SUBSET Row, OneRowEach(table), NEW b \in Int
    PROVE  Changes(table, RolledBack(table, b)) /\ OneRowEach(RolledBack(table, b))
<1> DEFINE gone == {c \in {r.block : r \in table} : c >= b}
<1>1. OneRowEach(RolledBack(table, b))
    BY DEF RolledBack, OneRowEach
<1>2. \A r \in table : r.block \in Nat
    BY ChainAssumption DEF Row, Heights
<1>3. CASE gone = {}
    <2>1. RolledBack(table, b) = table
        BY <1>2, <1>3 DEF RolledBack
    <2> QED BY <1>1, <2>1 DEF Changes, OneRowEach
<1>4. CASE gone # {}
    <2>1. gone \in SUBSET Nat
        BY <1>2
    <2>2. PICK c \in gone : \A d \in gone : c <= d
        BY <1>4, <2>1, LeastExists
    <2>3. RolledBack(table, b) = {r \in table : r.block < c}
        <3>1. c \in Nat /\ c >= b
            BY <1>2
        <3>2. ASSUME NEW r \in table PROVE (r.block < b) <=> (r.block < c)
            <4>1. r.block \in Nat
                BY <1>2
            <4>2. r.block >= b => c <= r.block
                BY <2>2
            <4> HIDE DEF gone
            <4> QED BY <3>1, <4>1, <4>2
        <3> HIDE DEF gone
        <3> QED BY <3>2 DEF RolledBack
    <2> QED BY <1>1, <2>2, <2>3 DEF Changes, OneRowEach
<1> QED BY <1>3, <1>4

LEMMA InitUniqueInv == Init => UniqueInv
BY DEF Init, UniqueInv, OneRowEach, OneEventPerLog

LEMMA StepUniqueInv ==
    ASSUME TypeOK, UniqueInv, [Next]_vars
    PROVE  UniqueInv' /\ (rows' = rows \/ Changes(rows, rows'))
<1> USE DEF durable, locals, memory
<1>0. /\ rows \in SUBSET Row /\ OneRowEach(rows) /\ OneEventPerLog
      /\ batch \subseteq Event /\ latestBlock \in 0..MaxHeight
    BY DEF TypeOK, UniqueInv
<1>1. ASSUME rows' = rows, batch' \in {batch, {}} PROVE UniqueInv'
    BY <1>0, <1>1 DEF UniqueInv, OneRowEach, OneEventPerLog
<1>2. Continue(toBlock + 1, latestBlock) \/ Continue(deepestReorg, latestBlock) \/ ForgetLocals
        \/ Continue(fromBlock, latestBlock) => batch' = {}
    BY DEF Continue, ForgetLocals
<1>3. CASE Start \/ LoadCursor \/ LoadFromDb \/ GetLatestBlock \/ SaveBlockMap \/ LoadFails
             \/ LoseCursor
    BY <1>1, <1>3 DEF Start, LoadCursor, LoadFromDb, GetLatestBlock, SaveBlockMap, LoadFails,
       LoseCursor
<1>4. CASE CheckForReorg
    <2>1. rows' = rows /\ batch' \in {batch, {}}
        BY <1>2, <1>4 DEF CheckForReorg, ReorgCheckEnds
    <2> QED BY <1>1, <2>1
<1>5. CASE RollbackDelete
    <2>1. rows' = RolledBack(rows, deepestReorg) /\ batch' = batch /\ deepestReorg \in Int
        BY <1>5 DEF RollbackDelete, TypeOK
    <2> QED BY <1>0, <2>1, RolledBackChanges DEF UniqueInv, OneEventPerLog
<1>6. CASE RollbackCursor \/ UpdateCursor \/ CallFails \/ Crash
    BY <1>1, <1>2, <1>6 DEF RollbackCursor, UpdateCursor, CallFails, Crash
<1>7. CASE FetchEvents
    <2>1. CASE lastIsString
        BY <1>1, <1>2, <1>7, <2>1 DEF FetchEvents
    <2>2. CASE ~ lastIsString
        <3>1. PICK n \in NodeHeads : batch' = LogsIn(fromBlock, toBlock, n)
            BY <1>7, <2>2 DEF FetchEvents
        <3>2. \A e \in batch' : e = [tx |-> e.tx, log |-> e.log, block |-> home[e.tx]]
            BY <3>1 DEF LogsIn
        <3>3. OneEventPerLog'
            BY <3>2 DEF OneEventPerLog
        <3> QED BY <1>0, <1>7, <3>3 DEF FetchEvents, UniqueInv, OneRowEach
    <2> QED BY <2>1, <2>2
<1>8. CASE SaveState
    <2> DEFINE new == NewRows(batch, latestBlock, blockMap)
    <2>1. new \in SUBSET Row
        BY NewRowsType DEF TypeOK
    <2>2. \A n, m \in new : n.tx = m.tx /\ n.log = m.log => n = m
        BY <1>0, NewRowsDistinct
    <2>3. CASE pc' = "retry" /\ ForgetLocals /\ UNCHANGED rows
        BY <1>1, <1>2, <2>3
    <2>4. ASSUME NEW stored, OneRowEach(stored), stored = rows \cup new \/ stored = Upserted(rows, new),
                 rows' = Reconfirmed(stored, latestBlock), batch' = batch
          PROVE  UniqueInv' /\ Changes(rows, rows')
        <3> HIDE DEF new
        <3>1. stored \in SUBSET Row
            BY <1>0, <2>1, <2>4 DEF Upserted
        <3>2. OneRowEach(rows')
            BY <1>0, <2>4, <3>1, ReconfirmedDistinct
        <3>3. SavedFrom(rows', rows, new)
            BY <1>0, <2>1, <2>4, SavedRows
        <3>4. Changes(rows, rows')
            BY <3>2, <3>3 DEF Changes, OneRowEach, SavedFrom
        <3> QED BY <1>0, <2>4, <3>2, <3>4 DEF UniqueInv, OneEventPerLog
    <2>5. ASSUME ~ Conflicts(rows, new) PROVE OneRowEach(rows \cup new)
        <3> HIDE DEF new
        <3> QED BY <1>0, <2>5 DEF Conflicts, OneRowEach
    <2>6. OneRowEach(Upserted(rows, new))
        BY <1>0, <2>1, <2>2, UpsertedDistinct
    <2> HIDE DEF new
    <2> QED BY <1>8, <2>3, <2>4, <2>5, <2>6 DEF SaveState, new
<1>9. CASE ChainMoves \/ UNCHANGED vars
    BY <1>1, <1>9 DEF ChainMoves, vars
<1> QED BY <1>3, <1>4, <1>5, <1>6, <1>7, <1>8, <1>9 DEF Next, Crawl

\* Whatever fails, crashes or is reorganized, each statement of the crawler takes
\* rows from the top of the table only, or adds and updates rows, and leaves one
\* row of each transaction.
THEOREM TopOfTheTableLeaves == Spec => OnlyTheTopLeaves
<1>1. Init => TypeOK /\ UniqueInv
    BY InitTypeOK, InitUniqueInv
<1>2. TypeOK /\ UniqueInv /\ [Next]_vars
        => (TypeOK /\ UniqueInv)' /\ [Changes(rows, rows')]_vars
    <2> SUFFICES ASSUME TypeOK, UniqueInv, [Next]_vars
                 PROVE  (TypeOK /\ UniqueInv)' /\ [Changes(rows, rows')]_vars
        OBVIOUS
    <2>1. Changes(rows, rows)
        BY DEF Changes, UniqueInv, OneRowEach
    <2>2. Changes(rows, rows')
        BY <2>1, StepUniqueInv
    <2> QED BY <2>2, StepTypeOK, StepUniqueInv
<1> QED BY <1>1, <1>2, PTL DEF Spec, OnlyTheTopLeaves

-----------------------------------------------------------------------------
(* What a reader sees of confirmations after a cycle                       *)

\* The crawler resumes from a number: either it never has to resume at all, or
\* Redis keeps the cursor and answers when it is asked for it.
ResumesByNumber ==
    MaxCrashes = 0 \/ (MaxCursorLosses = 0 /\ {"load", "loadDb"} \cap FaultPoints = {})

\* A row is PENDING exactly while it is short of confirmations.
StatusTrue(table) ==
    \A r \in table : (r.status = "PENDING") <=> (r.confirmations < RequiredConfirmations)

\* No row is PENDING that had its confirmations when the chain ended at b.
FreshAt(table, b) ==
    \A r \in table : r.status = "PENDING" => b - r.block + 1 < RequiredConfirmations

\* What is fresh at the latest block of a cycle remains fresh, because the next
\* cycle continues from lastProcessedBlock; the cursor has to be the same number
\* for as long as a crash is possible.
PendingInv ==
    /\ StatusTrue(rows) /\ ~ lastIsString
    /\ pc = "cursor" => FreshAt(rows, latestBlock)
    /\ pc \in Starting =>
         /\ FreshAt(rows, cursor) /\ (cursor = NoCursor \/ cursor >= 0)
         /\ cursor = NoCursor \/ pc = "loadDb" \/ MaxCrashes = 0 => rows = {}
    /\ pc \notin Starting =>
         /\ FreshAt(rows, lastProcessedBlock)
         /\ lastProcessedBlock >= 0
         /\ MaxCrashes = 0 \/ cursor = lastProcessedBlock

LEMMA RecountFresh ==
    ASSUME NEW table \in SUBSET Row, StatusTrue(table), NEW latest \in 0..MaxHeight
    PROVE  /\ StatusTrue(Reconfirmed(table, latest))
           /\ FreshAt(Reconfirmed(table, latest), latest)
<1> SUFFICES ASSUME NEW s \in Reconfirmed(table, latest)
             PROVE  /\ (s.status = "PENDING") <=> (s.confirmations < RequiredConfirmations)
                    /\ s.status = "PENDING" => latest - s.block + 1 < RequiredConfirmations
    BY DEF StatusTrue, FreshAt
<1>1. PICK r \in table :
        s = IF r.confirmations < RequiredConfirmations THEN Recount(r, latest) ELSE r
    BY DEF Reconfirmed
<1>2. r \in Row /\ r.block \in Int /\ r.confirmations \in Int
    BY ChainAssumption DEF Row, Heights
<1>3. CASE r.confirmations < RequiredConfirmations
    <2> DEFINE depth == latest - r.block + 1
               count == IF depth < RequiredConfirmations THEN depth ELSE RequiredConfirmations
    <2>1. s = [r EXCEPT !.confirmations = count, !.status = StatusFor(count)]
        BY <1>1, <1>3 DEF Recount
    <2>2. s.block = r.block /\ s.confirmations = count /\ s.status = StatusFor(count)
        BY <2>1, <1>2 DEF Row
    <2>3. count \in Int /\ (count < RequiredConfirmations <=> depth < RequiredConfirmations)
        BY <1>2, ConfirmationsAssumption, ChainAssumption
    <2>4. (s.status = "PENDING") <=> (count < RequiredConfirmations)
        BY <2>2, <2>3, ConfirmationsAssumption DEF StatusFor
    <2> QED BY <2>2, <2>3, <2>4
<1>4. CASE ~ (r.confirmations < RequiredConfirmations)
    BY <1>1, <1>4 DEF StatusTrue
<1> QED BY <1>3, <1>4

LEMMA NewRowsStatus ==
    ASSUME NEW events \in SUBSET Event, NEW latest \in Int, NEW hashes
    PROVE  StatusTrue(NewRows(events, latest, hashes))
<1> SUFFICES ASSUME NEW r \in NewRows(events, latest, hashes)
             PROVE  (r.status = "PENDING") <=> (r.confirmations < RequiredConfirmations)
    BY DEF StatusTrue
<1>1. PICK first \in FirstBlocks(events) :
        r.confirmations = latest - first + 1 /\ r.status = StatusFor(latest - first + 1)
    BY DEF NewRows
<1>2. first \in Int
    BY ChainAssumption DEF FirstBlocks, Event, Heights
<1> QED BY <1>1, <1>2, ConfirmationsAssumption DEF StatusFor

\* An earlier chain end leaves fresh what a later one does.
LEMMA FreshBelow ==
    ASSUME NEW table \in SUBSET Row, NEW a \in Int, NEW b \in Int, a <= b, FreshAt(table, b)
    PROVE  FreshAt(table, a)
<1> SUFFICES ASSUME NEW r \in table, r.status = "PENDING"
             PROVE  a - r.block + 1 < RequiredConfirmations
    BY DEF FreshAt
<1>1. r.block \in Int /\ b - r.block + 1 < RequiredConfirmations
    BY ChainAssumption DEF Row, Heights, FreshAt
<1> QED BY <1>1, ConfirmationsAssumption

LEMMA InitPendingInv == Init => PendingInv
BY DEF Init, PendingInv, Starting, StatusTrue, FreshAt

LEMMA StepPendingInv ==
    ASSUME ResumesByNumber, TypeOK, CountingInv, CycleInv, PendingInv, [Next]_vars
    PROVE  /\ PendingInv'
           /\ CycleCompletes => FreshAt(rows', latestBlock)
<1> USE DEF chainVars, durable, locals, memory, budgets, FreshAt, StatusTrue
<1>0. /\ lastProcessedBlock \in Int /\ deepestReorg \in Int /\ latestBlock \in Int
      /\ fromBlock \in Int /\ toBlock \in Int /\ StartBlock \in Nat \ {0} /\ cursor \in Int
      /\ rows \in SUBSET Row /\ latestBlock \in 0..MaxHeight
    BY ChainAssumption, CrawlerAssumption DEF TypeOK
<1>q. /\ StatusTrue(rows) /\ ~ lastIsString
      /\ pc = "cursor" => FreshAt(rows, latestBlock)
    BY DEF PendingInv
\* A later point of a batch or the end of a cycle, with the same table.
<1>c. ASSUME NEW from \in Int, Continue(from, latestBlock), UNCHANGED <<rows, lastIsString>>,
             lastProcessedBlock' = from - 1, from > 0, lastProcessedBlock' \in Int,
             FreshAt(rows, from - 1), MaxCrashes = 0 \/ cursor' = lastProcessedBlock'
      PROVE  PendingInv' /\ (CycleCompletes => FreshAt(rows', latestBlock))
    <2>1. pc' \in {"fetch", "sleep"} /\ (pc' = "sleep" => from > latestBlock)
        BY <1>0, <1>c DEF Continue, ForgetLocals, More
    <2>2. CycleCompletes => latestBlock <= from - 1
        BY <1>0, <1>c, <2>1 DEF CycleCompletes
    <2>3. CycleCompletes => FreshAt(rows', latestBlock)
        BY <1>0, <1>c, <2>2, FreshBelow
    <2>4. FreshAt(rows', lastProcessedBlock')
        BY <1>c
    <2>5. lastProcessedBlock' >= 0
        BY <1>c
    <2> QED BY <1>q, <1>c, <2>1, <2>3, <2>4, <2>5 DEF PendingInv, Starting
<1>1. CASE Start
    BY <1>1 DEF Start, PendingInv, Starting, CycleCompletes
<1>2. CASE LoadCursor
    <2>1. CASE cursor = NoCursor
        BY <1>2, <2>1 DEF LoadCursor, PendingInv, Starting, CycleCompletes
    <2>2. CASE cursor # NoCursor
        <3>1. lastProcessedBlock' = cursor /\ pc' = "start"
              /\ UNCHANGED <<rows, cursor, lastIsString>>
            BY <1>2, <2>2 DEF LoadCursor
        <3>2. FreshAt(rows, cursor) /\ cursor >= 0
            BY <1>2, <2>2 DEF LoadCursor, PendingInv, Starting
        <3>3. FreshAt(rows', lastProcessedBlock') /\ lastProcessedBlock' >= 0
              /\ cursor' = lastProcessedBlock'
            BY <3>1, <3>2
        <3> QED BY <1>q, <3>1, <3>3 DEF PendingInv, Starting, CycleCompletes
    <2> QED BY <2>1, <2>2
<1>3. CASE LoadFromDb
    <2>1. rows = {} /\ rows' = {} /\ lastProcessedBlock' = StartBlock - 1 /\ lastIsString' = FALSE
          /\ cursor' = lastProcessedBlock' /\ pc' = "start"
        BY <1>3 DEF LoadFromDb, ResumesAt, PendingInv, Starting
    <2> QED BY <1>0, <2>1 DEF PendingInv, Starting, CycleCompletes
<1>4. CASE GetLatestBlock
    BY <1>4 DEF GetLatestBlock, PendingInv, Starting, CycleCompletes, Idle
<1>5. CASE CheckForReorg
    <2>0. pc = "check" /\ UNCHANGED <<rows, lastProcessedBlock, lastIsString, cursor>>
        BY <1>5 DEF CheckForReorg
    <2>1. CASE Continue(fromBlock, latestBlock)
        <3>1. fromBlock = lastProcessedBlock + 1
            BY <2>0, <1>q DEF CycleInv
        <3>2. /\ lastProcessedBlock >= 0 /\ FreshAt(rows, lastProcessedBlock)
              /\ MaxCrashes = 0 \/ cursor = lastProcessedBlock
            BY <2>0 DEF PendingInv, Starting
        <3>3. fromBlock - 1 = lastProcessedBlock /\ fromBlock > 0
            BY <1>0, <3>1, <3>2
        <3> QED BY <1>0, <1>c, <2>0, <2>1, <3>2, <3>3
    <2>2. CASE pc' \in {"check", "rollback"}
        BY <2>0, <2>2 DEF PendingInv, Starting, CycleCompletes
    <2> QED BY <1>5, <2>0, <2>1, <2>2 DEF CheckForReorg, ReorgCheckEnds
<1>6. CASE RollbackDelete
    <2>1. rows' \subseteq rows /\ pc = "rollback" /\ pc' = "rollbackCursor"
          /\ UNCHANGED <<cursor, lastProcessedBlock, lastIsString>>
        BY <1>6 DEF RollbackDelete, RolledBack
    <2> QED BY <2>1 DEF PendingInv, Starting, CycleCompletes
<1>7. CASE RollbackCursor
    <2>1. deepestReorg \in StartBlock..lastProcessedBlock /\ FreshAt(rows, lastProcessedBlock)
        BY <1>7 DEF RollbackCursor, CycleInv, PendingInv, Starting
    <2>2. deepestReorg - 1 \in Int /\ deepestReorg - 1 <= lastProcessedBlock /\ deepestReorg > 0
        BY <1>0, <2>1
    <2>3. FreshAt(rows, deepestReorg - 1)
        BY <1>0, <2>1, <2>2, FreshBelow
    <2> QED BY <1>0, <1>7, <1>c, <2>2, <2>3 DEF RollbackCursor
<1>8. CASE FetchEvents \/ SaveBlockMap
    BY <1>8 DEF FetchEvents, SaveBlockMap, PendingInv, Starting, CycleCompletes
<1>9. CASE SaveState
    <2> DEFINE new == NewRows(batch, latestBlock, blockMap)
    <2>0. pc = "save" /\ UNCHANGED <<cursor, lastProcessedBlock, lastIsString>>
        BY <1>9 DEF SaveState
    <2>1. new \in SUBSET Row /\ StatusTrue(new)
        BY <1>0, NewRowsType, NewRowsStatus DEF TypeOK
    <2>2. CASE pc' = "retry" /\ UNCHANGED rows
        BY <2>0, <2>2 DEF PendingInv, Starting, CycleCompletes
    <2>3. ASSUME NEW stored, stored = rows \cup new \/ stored = Upserted(rows, new),
                 rows' = Reconfirmed(stored, latestBlock), pc' = "cursor", UNCHANGED locals
          PROVE  PendingInv' /\ ~ CycleCompletes
        <3> HIDE DEF new
        <3>1. stored \in SUBSET Row /\ StatusTrue(stored)
            BY <1>0, <1>q, <2>1, <2>3 DEF Upserted
        <3>2. StatusTrue(rows') /\ FreshAt(rows', latestBlock)
            BY <1>0, <2>3, <3>1, RecountFresh
        <3>3. lastProcessedBlock <= latestBlock
            BY <1>0, <2>0 DEF CycleInv, Batching, CountingInv
        <3>4. FreshAt(rows', lastProcessedBlock)
            <4>1. rows' \in SUBSET Row
                BY <2>3, <3>1, ReconfirmedType, <1>0
            <4> QED BY <1>0, <3>2, <3>3, <4>1, FreshBelow
        <3> QED BY <1>q, <2>0, <2>3, <3>2, <3>4 DEF PendingInv, Starting, CycleCompletes
    <2> HIDE DEF new
    <2> QED BY <1>9, <2>2, <2>3 DEF SaveState, new
<1>10. CASE UpdateCursor
    <2>1. toBlock <= latestBlock /\ toBlock >= 0
        BY <1>0, <1>10 DEF UpdateCursor, CountingInv, CycleInv, PendingInv, Batching, Starting
    <2>2. FreshAt(rows, latestBlock)
        BY <1>10 DEF UpdateCursor, PendingInv
    <2>3. FreshAt(rows, toBlock)
        BY <1>0, <2>1, <2>2, FreshBelow
    <2>4. toBlock + 1 \in Int /\ toBlock + 1 - 1 = toBlock /\ toBlock + 1 > 0
        BY <1>0, <2>1
    <2> QED BY <1>0, <1>10, <1>c, <2>3, <2>4 DEF UpdateCursor
<1>11. CASE LoadFails
    <2>1. pc \in Starting /\ MaxCrashes = 0
        BY <1>11 DEF LoadFails, Fault, Starting, ResumesByNumber
    <2>2. rows = {} /\ rows' = {} /\ lastProcessedBlock' >= 0 /\ pc' = "start"
        BY <1>0, <1>11, <2>1 DEF LoadFails, PendingInv
    <2> QED BY <1>11, <1>q, <2>1, <2>2 DEF LoadFails, PendingInv, Starting, CycleCompletes
<1>12. CASE CallFails
    <2>1. pc \notin Starting /\ pc' = "retry"
          /\ UNCHANGED <<rows, cursor, lastProcessedBlock, lastIsString>>
        BY <1>12 DEF CallFails, Fault, Starting, Idle
    <2> QED BY <1>q, <2>1 DEF PendingInv, Starting, CycleCompletes
<1>13. CASE Crash
    <2>1. MaxCrashes # 0
        BY <1>13 DEF Crash, TypeOK
    <2>2. pc' = "down" /\ lastIsString' = FALSE /\ UNCHANGED <<rows, cursor>>
        BY <1>13 DEF Crash
    <2>3. CASE pc \in Starting
        BY <1>q, <2>1, <2>2, <2>3 DEF PendingInv, Starting, CycleCompletes
    <2>4. CASE pc \notin Starting
        <3>1. cursor = lastProcessedBlock /\ cursor >= 0 /\ FreshAt(rows, cursor)
            BY <2>1, <2>4 DEF PendingInv
        <3> QED BY <1>q, <2>1, <2>2, <3>1 DEF PendingInv, Starting, CycleCompletes, NoCursor
    <2> QED BY <2>3, <2>4
<1>14. CASE LoseCursor
    <2>1. MaxCrashes = 0
        BY <1>14 DEF LoseCursor, TypeOK, ResumesByNumber
    <2> QED BY <1>14, <2>1 DEF LoseCursor, PendingInv, Starting, CycleCompletes
<1>15. CASE ChainMoves \/ UNCHANGED vars
    BY <1>15 DEF ChainMoves, vars, PendingInv, Starting, CycleCompletes
<1> QED
    BY <1>1, <1>2, <1>3, <1>4, <1>5, <1>6, <1>7, <1>8, <1>9, <1>10, <1>11,
       <1>12, <1>13, <1>14, <1>15
    DEF Next, Crawl

\* A crawler that never resumes from a string leaves, with every cycle that
\* completes, no row PENDING that has its confirmations: for nodes that lag,
\* reorganizations at any moment, and any other fault or crash.
THEOREM NoneStaysPending ==
    ASSUME ResumesByNumber
    PROVE  Spec => NoStalePending
<1> DEFINE Inv == TypeOK /\ CountingInv /\ CycleInv /\ PendingInv
<1>1. Init => Inv
    BY InitTypeOK, InitCountingInv, InitCycleInv, InitPendingInv
<1>2. Inv /\ [Next]_vars => Inv'
    BY StepTypeOK, StepCountingInv, StepCycleInv, StepPendingInv
<1>3. Inv /\ [Next]_vars =>
        [CycleCompletes => \A r \in rows' : r.status = "PENDING" =>
           latestBlock - r.block + 1 < RequiredConfirmations]_vars
    BY StepPendingInv DEF FreshAt
<1> QED BY <1>1, <1>2, <1>3, PTL DEF Spec, NoStalePending

-----------------------------------------------------------------------------
(* Confirmations only grow.  A node that lags could answer with an older   *)
(* block than before, and an upsert could replace a row that was counted   *)
(* from a lower block; without them, a row that is counted again never     *)
(* claimed more than its depth, and no other row changes.                  *)

\* What the rows that are still counted claim, the chain had when it ended at b.
ClaimsAt(table, b) ==
    \A r \in table :
        r.confirmations < RequiredConfirmations => r.confirmations <= b - r.block + 1

Cycling == {"check", "rollback", "rollbackCursor", "fetch", "blocks", "save", "cursor"}
DepthInv == ClaimsAt(rows, head) /\ (pc \in Cycling => ClaimsAt(rows, latestBlock))

\* What recounting a row answers.
LEMMA RecountDepth ==
    ASSUME NEW r \in Row, NEW latest \in 0..MaxHeight
    PROVE  /\ Recount(r, latest).tx = r.tx /\ Recount(r, latest).block = r.block
           /\ latest - r.block + 1 < RequiredConfirmations =>
                Recount(r, latest).confirmations = latest - r.block + 1
           /\ ~ (latest - r.block + 1 < RequiredConfirmations) =>
                Recount(r, latest).confirmations = RequiredConfirmations
BY DEF Recount, Row

\* Every row that is still counted claims its depth, once it is counted.
LEMMA CountedClaims ==
    ASSUME NEW table \in SUBSET Row, NEW latest \in 0..MaxHeight
    PROVE  ClaimsAt(Reconfirmed(table, latest), latest)
<1> SUFFICES ASSUME NEW s \in Reconfirmed(table, latest), s.confirmations < RequiredConfirmations
             PROVE  s.confirmations <= latest - s.block + 1
    BY DEF ClaimsAt
<1>1. PICK r \in table :
        s = IF r.confirmations < RequiredConfirmations THEN Recount(r, latest) ELSE r
    BY DEF Reconfirmed
<1>2. r \in Row /\ r.block \in Int /\ r.confirmations \in Int
    BY ChainAssumption DEF Row, Heights
<1>3. s = Recount(r, latest)
    BY <1>1
<1> QED BY <1>2, <1>3, RecountDepth, ConfirmationsAssumption, ChainAssumption

\* A row that claims no more than its depth does not lose when it is counted.
LEMMA CountingAdds ==
    ASSUME NEW r \in Row, NEW latest \in 0..MaxHeight,
           r.confirmations < RequiredConfirmations,
           r.confirmations <= latest - r.block + 1
    PROVE  r.confirmations <= Recount(r, latest).confirmations
<1>1. r.block \in Int /\ r.confirmations \in Int
    BY ChainAssumption DEF Row, Heights
<1> QED BY <1>1, RecountDepth, ConfirmationsAssumption, ChainAssumption

\* What the chain had when it ended at a, it has at a higher b.
LEMMA ClaimsAbove ==
    ASSUME NEW table \in SUBSET Row, NEW a \in Int, NEW b \in Int, a <= b, ClaimsAt(table, a)
    PROVE  ClaimsAt(table, b)
<1> SUFFICES ASSUME NEW r \in table, r.confirmations < RequiredConfirmations
             PROVE  r.confirmations <= b - r.block + 1
    BY DEF ClaimsAt
<1>1. r.block \in Int /\ r.confirmations \in Int /\ r.confirmations <= a - r.block + 1
    BY ChainAssumption DEF Row, Heights, ClaimsAt
<1> QED BY <1>1

Grows(table, next) ==
    \A r \in table, s \in next :
        r.tx = s.tx /\ r.block = s.block => r.confirmations <= s.confirmations

LEMMA InitDepthInv == Init => DepthInv
BY DEF Init, DepthInv, ClaimsAt, Cycling

LEMMA StepDepthInv ==
    ASSUME Lag = 0, "upserted" \notin ConflictOutcomes,
           TypeOK, CountingInv, UniqueInv, DepthInv, [Next]_vars
    PROVE  DepthInv' /\ Grows(rows, rows')
<1> USE DEF chainVars, durable, locals, memory, budgets
<1>0. /\ rows \in SUBSET Row /\ OneRowEach(rows) /\ latestBlock \in 0..MaxHeight
      /\ head \in Int /\ latestBlock \in Int /\ latestBlock <= head
      /\ \A r \in rows : r.confirmations \in Int
    BY ChainAssumption DEF TypeOK, ChainTypeOK, UniqueInv, CountingInv, Row
<1>1. ClaimsAt(rows, head) /\ (pc \in Cycling => ClaimsAt(rows, latestBlock))
    BY DEF DepthInv
<1>2. ASSUME rows' \subseteq rows PROVE Grows(rows, rows')
    BY <1>0, <1>2 DEF Grows, OneRowEach
\* The cycle goes on with the same latest block, or there is none.
<1>3. ASSUME rows' \subseteq rows, head' = head,
             pc' \in Cycling => pc \in Cycling /\ latestBlock' = latestBlock
      PROVE  DepthInv'
    BY <1>1, <1>3 DEF DepthInv, ClaimsAt
<1>4. CASE Start \/ LoadCursor \/ LoadFromDb \/ LoadFails \/ CallFails \/ Crash \/ LoseCursor
    BY <1>2, <1>3, <1>4
    DEF Start, LoadCursor, LoadFromDb, LoadFails, CallFails, Crash, LoseCursor, Cycling
<1>5. CASE GetLatestBlock
    <2>1. rows' = rows /\ head' = head /\ latestBlock' = head
        BY <1>0, <1>5 DEF GetLatestBlock, NodeHeads
    <2> QED BY <1>1, <1>2, <2>1 DEF DepthInv, ClaimsAt
<1>6. CASE CheckForReorg \/ RollbackDelete \/ RollbackCursor \/ FetchEvents \/ SaveBlockMap
             \/ UpdateCursor
    <2>1. /\ rows' \subseteq rows /\ head' = head /\ pc \in Cycling
          /\ latestBlock' = latestBlock \/ pc' \in {"sleep", "retry"}
        BY <1>6
        DEF CheckForReorg, ReorgCheckEnds, RollbackDelete, RolledBack, RollbackCursor, FetchEvents,
            SaveBlockMap, UpdateCursor, Continue, ForgetLocals, Cycling
    <2> QED BY <1>2, <1>3, <2>1 DEF Cycling
<1>7. CASE SaveState
    <2> DEFINE new == NewRows(batch, latestBlock, blockMap)
    <2>1. new \in SUBSET Row
        BY NewRowsType DEF TypeOK
    <2>2. pc = "save" /\ head' = head
        BY <1>7 DEF SaveState
    <2>3. CASE pc' = "retry" /\ UNCHANGED rows
        BY <1>2, <1>3, <2>2, <2>3 DEF Cycling
    <2>4. ASSUME ~ Conflicts(rows, new), rows' = Reconfirmed(rows \cup new, latestBlock),
                 UNCHANGED locals
          PROVE  DepthInv' /\ Grows(rows, rows')
        <3> HIDE DEF new
        <3>1. rows \cup new \in SUBSET Row
            BY <1>0, <2>1
        <3>2. ClaimsAt(rows', latestBlock) /\ rows' \in SUBSET Row
            BY <1>0, <2>4, <3>1, CountedClaims, ReconfirmedType
        <3>3. ClaimsAt(rows', head)
            BY <1>0, <3>2, ClaimsAbove
        <3>4. ASSUME NEW r \in rows, NEW s \in rows', r.tx = s.tx
              PROVE  r.confirmations <= s.confirmations
            <4>1. PICK x \in rows \cup new :
                    s = IF x.confirmations < RequiredConfirmations
                          THEN Recount(x, latestBlock) ELSE x
                BY <2>4 DEF Reconfirmed
            <4>2. s.tx = x.tx
                BY <1>0, <3>1, <4>1, RecountDepth
            <4>3. x = r
                BY <1>0, <2>4, <3>4, <4>2 DEF Conflicts, OneRowEach
            <4>4. CASE r.confirmations < RequiredConfirmations
                <5>1. r.confirmations <= latestBlock - r.block + 1
                    BY <1>1, <2>2, <4>4 DEF Cycling, ClaimsAt
                <5> QED BY <1>0, <4>1, <4>3, <4>4, <5>1, CountingAdds
            <4>5. CASE ~ (r.confirmations < RequiredConfirmations)
                BY <1>0, <4>1, <4>3, <4>5
            <4> QED BY <4>4, <4>5
        <3> QED BY <2>2, <2>4, <3>2, <3>3, <3>4 DEF DepthInv, Grows
    <2> HIDE DEF new
    <2> QED BY <1>7, <2>3, <2>4 DEF SaveState, new
<1>8. CASE ChainMoves
    <2>1. rows' = rows /\ pc' = pc /\ latestBlock' = latestBlock
        BY <1>8 DEF ChainMoves
    <2>2. head' \in Int /\ head <= head'
        BY <1>0, <1>8 DEF ChainMoves, Mine, Reorg
    <2>3. ClaimsAt(rows, head')
        BY <1>0, <1>1, <2>2, ClaimsAbove
    <2> QED BY <1>1, <1>2, <2>1, <2>3 DEF DepthInv, ClaimsAt
<1>9. CASE UNCHANGED vars
    BY <1>2, <1>3, <1>9 DEF vars
<1> QED BY <1>4, <1>5, <1>6, <1>7, <1>8, <1>9 DEF Next, Crawl

\* With nodes that are up to date, and a database that aborts the transaction of
\* a unique violation, a reader never sees a transaction of one block lose
\* confirmations, whatever the chain does and whatever fails, crashes or is lost.
THEOREM ConfirmationsOnlyGrow ==
    ASSUME Lag = 0, "upserted" \notin ConflictOutcomes
    PROVE  Spec => ConfirmationsNeverDecrease
<1> DEFINE Inv == TypeOK /\ CountingInv /\ UniqueInv /\ DepthInv
<1>1. Init => Inv
    BY InitTypeOK, InitCountingInv, InitUniqueInv, InitDepthInv
<1>2. Inv /\ [Next]_vars => Inv'
    BY StepTypeOK, StepCountingInv, StepUniqueInv, StepDepthInv
<1>3. Inv /\ [Next]_vars =>
        [\A r \in rows, s \in rows' :
           r.tx = s.tx /\ r.block = s.block => r.confirmations <= s.confirmations]_vars
    BY StepDepthInv DEF Grows
<1> QED BY <1>1, <1>2, <1>3, PTL DEF Spec, ConfirmationsNeverDecrease

=============================================================================
