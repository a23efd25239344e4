---------------------- MODULE CrawlerRefinement_proofs ----------------------
(***************************************************************************)
(* The crawler implements Index: until the chain reorganizes, for every    *)
(* number of faults and crashes, and across reorganizations where it can   *)
(* see them.  There, a cycle that completes leaves a table that matches    *)
(* the chain.                                                              *)
(***************************************************************************)
EXTENDS CrawlerRefinement, EvmCrawler_proofs

-----------------------------------------------------------------------------
(* What a batch is made of                                                 *)

\* Without reorganizations the rows of a batch are those its events ask for.
LEMMA NewRowsTrue ==
    ASSUME CountingInv, BatchExact, BatchTrue, RowsTrue,
           TypeOK, pc = "save", lastProcessedBlock >= StartBlock - 1,
           NEW n \in NewRows(batch, latestBlock, blockMap)
    PROVE  n.block = home[n.tx] /\ n.hash = 0 /\ n.block >= StartBlock
<1>1. PICK e \in batch : n.tx = e.tx /\ n.block = e.block /\ n.hash = blockMap[e.block]
    BY DEF NewRows
<1>2. e.block = home[e.tx] /\ blockMap[e.block] = 0
    BY DEF BatchExact, BatchInPlace, BatchTrue
<1>3. e.block >= fromBlock /\ fromBlock = lastProcessedBlock + 1
    BY DEF CountingInv, BatchExact, BatchInPlace, Saving, TypeOK
<1> QED BY <1>1, <1>2, <1>3, CrawlerAssumption DEF TypeOK, Event, Heights

\* Counting confirmations again changes nothing else of a row.
LEMMA RecountKeeps ==
    ASSUME NEW r \in Row, NEW latest
    PROVE  /\ Recount(r, latest).tx = r.tx
           /\ Recount(r, latest).block = r.block
           /\ Recount(r, latest).hash = r.hash
BY DEF Recount, Row

Triples(table) == {<<r.tx, r.block, r.hash>> : r \in table}

LEMMA ReconfirmedTriples ==
    ASSUME NEW table \in SUBSET Row, NEW latest
    PROVE  Triples(Reconfirmed(table, latest)) = Triples(table)
BY RecountKeeps DEF Triples, Reconfirmed

-----------------------------------------------------------------------------
(* The invariant of the claim                                              *)

LEMMA InitClaimInv == Init => ClaimInv
BY DEF Init, ClaimInv, RowsTrue, BatchTrue, ClaimBounds, NoCursor

LEMMA ContinueClaim ==
    ASSUME TypeOK, NEW from \in Int, Continue(from, latestBlock)
    PROVE  BatchTrue' /\ pc' \in {"fetch", "sleep"}
<1>1. batch' = {} /\ pc' \in {"fetch", "sleep"}
    BY DEF Continue, ForgetLocals
<1>2. pc' = "fetch" => fromBlock' <= toBlock'
    BY CrawlerAssumption DEF Continue, More, BatchEnd, Smaller, TypeOK, ForgetLocals
<1> QED BY <1>1, <1>2 DEF BatchTrue

LEMMA StepClaimInv ==
    ASSUME TypeOK, CountingInv, GapInv, ClaimInv, [Next]_vars
    PROVE  ClaimInv'
<1> USE DEF chainVars, durable, locals, memory, budgets
<1> SUFFICES ASSUME Lag = 0, forks' = 0 PROVE RowsTrue' /\ BatchTrue' /\ ClaimBounds'
    BY DEF ClaimInv
<1>0. /\ forks \in Nat /\ head \in Nat /\ head <= MaxHeight /\ MaxHeight \in Nat
      /\ StartBlock \in Nat \ {0} /\ BatchSize \in Nat \ {0}
      /\ lastProcessedBlock \in Int /\ fromBlock \in Int /\ toBlock \in Int
    BY ChainAssumption, CrawlerAssumption DEF TypeOK, ChainTypeOK, Hashes
<1>p. forks = 0
    BY <1>0, ChainSteps DEF Mine, Reorg
<1>q. NoReorgSeen /\ BatchExact /\ RowsTrue /\ BatchTrue /\ ClaimBounds
    BY <1>p DEF GapInv, ClaimInv
<1>l. pc \notin {"rollback", "rollbackCursor"} /\ deepestReorg = 0
    BY <1>q DEF NoReorgSeen
<1>r. ASSUME NEW b, ResumesAt(b) PROVE b >= StartBlock - 1
    <2>1. \A r \in rows : r.block \in Int /\ r.block >= StartBlock
        BY <1>q, ChainAssumption DEF RowsTrue, TypeOK, Row, Heights
    <2> QED BY <1>0, <1>r, <2>1, ResumeBlock
<1> USE DEF RowsTrue, ClaimBounds
<1>1. CASE Start
    BY <1>1, <1>q DEF Start, BatchTrue
<1>2. CASE LoadCursor
    BY <1>2, <1>q DEF LoadCursor, BatchTrue
<1>3. CASE LoadFromDb
    BY <1>3, <1>q, <1>r DEF LoadFromDb, BatchTrue
<1>4. CASE GetLatestBlock
    BY <1>4, <1>q DEF GetLatestBlock, BatchTrue, Idle
<1>5. CASE CheckForReorg
    <2>1. ReorgCheckEnds(0)
        BY <1>5, <1>l, <1>q, NoMismatch DEF CheckForReorg
    <2>2. BatchTrue' /\ pc' \in {"fetch", "sleep"}
        BY <1>0, <2>1, ContinueClaim DEF ReorgCheckEnds
    <2> QED BY <1>5, <1>q, <2>2 DEF CheckForReorg
<1>6. CASE RollbackDelete \/ RollbackCursor
    BY <1>6, <1>l DEF RollbackDelete, RollbackCursor
<1>7. CASE FetchEvents
    <2>1. CASE lastIsString
        BY <1>7, <2>1, <1>q DEF FetchEvents, ForgetLocals, BatchTrue
    <2>2. CASE ~ lastIsString
        <3>1. \A e \in batch' : e.tx \in Emitting
            BY <1>7, <2>2 DEF FetchEvents, LogsIn, Selected, Emitting
        <3> QED BY <1>7, <1>q, <2>2, <3>1 DEF FetchEvents, BatchTrue
    <2> QED BY <2>1, <2>2
<1>8. CASE SaveBlockMap
    <2>1. ASSUME NEW e \in batch PROVE blockMap'[e.block] = 0
        <3>1. PICK n \in NodeHeads :
                blockMap' = [b \in Heights |->
                   IF /\ blockMap[b] = NoHash
                      /\ \/ \E d \in batch : d.block = b
                         \/ b \in fromBlock..toBlock /\ b > latestBlock - ReorgDepth
                     THEN HashOf(b, n) ELSE blockMap[b]]
            BY <1>8 DEF SaveBlockMap
        <3>2. n = head
            BY <1>0 DEF NodeHeads
        <3>3. e.block \in Heights /\ e.block <= head
            BY <1>0 DEF TypeOK, Event, CountingInv, Heights
        <3>4. HashOf(e.block, n) = 0 /\ blockMap[e.block] \in {0, NoHash}
            BY <1>0, <1>q, <3>2, <3>3 DEF HashOf, NoReorgSeen, Heights
        <3> QED BY <3>1, <3>3, <3>4
    <2> QED BY <1>8, <1>q, <2>1 DEF SaveBlockMap, BatchTrue
<1>9. CASE SaveState
    <2> DEFINE new == NewRows(batch, latestBlock, blockMap)
    <2>0. pc = "save" /\ lastProcessedBlock >= StartBlock - 1
        BY <1>9, <1>q DEF SaveState
    <2>1. ASSUME NEW stored \in {rows \cup new, Upserted(rows, new)},
                 rows' = Reconfirmed(stored, latestBlock), pc' = "cursor", UNCHANGED locals
          PROVE  RowsTrue' /\ BatchTrue'
        <3>1. stored \subseteq rows \cup new /\ new \subseteq Row /\ rows \subseteq Row
            BY NewRowsType DEF TypeOK, Upserted
        <3>2. \A r \in stored : r.block = home[r.tx] /\ r.hash = 0 /\ r.block >= StartBlock
            BY <1>q, <2>0, <3>1, NewRowsTrue
        <3>3. ASSUME NEW r \in rows'
              PROVE  \E q \in stored : r.tx = q.tx /\ r.block = q.block /\ r.hash = q.hash
            BY <2>1, <3>1, RecountKeeps DEF Reconfirmed
        <3>4. home' = home
            BY <1>9 DEF SaveState
        <3> QED BY <1>q, <2>0, <2>1, <3>2, <3>3, <3>4 DEF BatchTrue
    <2>2. CASE pc' = "retry" /\ ForgetLocals /\ UNCHANGED rows
        BY <1>9, <2>2, <1>q DEF SaveState, ForgetLocals, BatchTrue
    <2>3. ClaimBounds'
        BY <1>9, <1>q DEF SaveState
    <2> HIDE DEF new
    <2> QED BY <1>9, <2>1, <2>2, <2>3 DEF SaveState, new
<1>10. CASE UpdateCursor
    <2>1. BatchTrue' /\ pc' \in {"fetch", "sleep"}
        BY <1>0, <1>10, ContinueClaim DEF UpdateCursor
    <2>2. toBlock >= StartBlock - 1
        BY <1>0, <1>10, <1>q DEF UpdateCursor, BatchExact, BatchInPlace, BatchTrue
    <2> QED BY <1>10, <1>q, <2>1, <2>2 DEF UpdateCursor
<1>11. CASE LoadFails
    BY <1>0, <1>11, <1>q, <1>r DEF LoadFails, Fault, BatchTrue
<1>12. CASE CallFails
    BY <1>12, <1>q DEF CallFails, Fault, Idle, ForgetLocals, BatchTrue
<1>13. CASE Crash
    BY <1>13, <1>q DEF Crash, ForgetLocals, BatchTrue
<1>14. CASE LoseCursor
    BY <1>14, <1>q DEF LoseCursor, BatchTrue
<1>15. CASE ChainMoves
    <2>1. Mine /\ UNCHANGED <<durable, memory>>
        BY <1>0, <1>15, <1>p DEF ChainMoves, Reorg
    <2>2. \A t \in Txs : home[t] # 0 => home'[t] = home[t]
        BY <2>1 DEF Mine
    <2>3. \A r \in rows : r.block = home'[r.tx]
        BY <1>0, <1>q, <2>2 DEF TypeOK, Row
    <2> QED BY <1>q, <2>1, <2>3 DEF BatchTrue
<1>16. CASE UNCHANGED vars
    BY <1>16, <1>q DEF vars, BatchTrue
<1> QED
    BY <1>1, <1>2, <1>3, <1>4, <1>5, <1>6, <1>7, <1>8, <1>9, <1>10, <1>11,
       <1>12, <1>13, <1>14, <1>15, <1>16
    DEF Next, Crawl

\* What the crawler claims rests on true rows: for every chain, batch size and
\* number of faults and crashes, if the filter of the query selects both events.
THEOREM ClaimInvHolds ==
    ASSUME EventFilter = "anyOf"
    PROVE  Spec => []ClaimInv
<1>1. Init => CrawlInv /\ GapInv /\ ClaimInv
    BY InitCrawlInv, InitGapInv, InitClaimInv
<1>2. CrawlInv /\ GapInv /\ ClaimInv /\ [Next]_vars => (CrawlInv /\ GapInv /\ ClaimInv)'
    BY StepCrawlInv, StepGapInv, StepClaimInv DEF CrawlInv
<1> QED BY <1>1, <1>2, PTL DEF Spec

-----------------------------------------------------------------------------
(* The refinement                                                          *)

\* Where no row is missing, the stored transactions are those of the blocks.
LEMMA StoredUpTo ==
    ASSUME TypeOK, NoReorgSeen, RowsTrue, NEW b \in Int, NoGapUpTo(b)
    PROVE  Abstract!Contents(StartBlock, b) \subseteq StoredTxs
<1> SUFFICES ASSUME NEW l \in TxLogs, home[l[1]] \in Heights, home[l[1]] \in StartBlock..b
             PROVE  <<l[1], home[l[1]], hashAt[home[l[1]]]>> \in StoredTxs
    BY DEF Abstract!Contents, Abstract!Heights, Heights
<1>1. PICK r \in rows : r.tx = l[1] /\ r.block = home[l[1]]
    BY DEF NoGapUpTo, Emitting, Indexed
<1>2. r.hash = 0 /\ hashAt[home[l[1]]] = 0
    BY DEF RowsTrue, NoReorgSeen
<1> QED BY <1>1, <1>2 DEF StoredTxs

\* A batch that is saved adds what its blocks hold and nothing else, whether it
\* is inserted or upserted.
LEMMA SaveAdds ==
    ASSUME TypeOK, CountingInv, BatchMatches, pc = "save", \A r \in rows : OnChain(r),
           NEW stored \in {rows \cup NewRows(batch, latestBlock, blockMap),
                           Upserted(rows, NewRows(batch, latestBlock, blockMap))}
    PROVE  /\ \A r \in stored : OnChain(r) /\ (r \in rows \/ r.block \in fromBlock..toBlock)
           /\ Triples(stored) = Triples(rows) \cup Abstract!Contents(fromBlock, toBlock)
<1> DEFINE new == NewRows(batch, latestBlock, blockMap)
<1>0. stored \in {rows \cup new, Upserted(rows, new)}
    OBVIOUS
<1>1. new \subseteq Row /\ rows \subseteq Row
    BY NewRowsType DEF TypeOK
<1>2. \A e \in batch : /\ e.tx \in Emitting /\ e.block = home[e.tx]
                       /\ blockMap[e.block] = hashAt[e.block]
                       /\ e.block \in Heights \cap (fromBlock..toBlock)
    BY DEF BatchMatches, Saving, CountingInv, TypeOK, Event
<1>3. \A e \in batch : \E n \in new : n.tx = e.tx
    BY NewRowsCover DEF TypeOK
<1>4. \A n \in new : \E e \in batch :
        n.tx = e.tx /\ n.block = e.block /\ n.hash = blockMap[e.block]
    BY DEF NewRows
<1> HIDE DEF new
<1>5. \A n \in new : \E m \in stored : m \in new /\ m.tx = n.tx
    BY <1>0, <1>1, UpsertedCovers
<1>6. stored \subseteq rows \cup new
    BY <1>0 DEF Upserted
<1>7. \A n \in new : OnChain(n) /\ n.block \in Heights \cap (fromBlock..toBlock)
    BY <1>2, <1>4 DEF OnChain
<1>8. ASSUME NEW r \in new
      PROVE  <<r.tx, r.block, r.hash>> \in Abstract!Contents(fromBlock, toBlock)
    <2>1. PICK e \in batch : r.tx = e.tx
        BY <1>4, <1>8
    <2>2. PICK l \in TxLogs : l[1] = e.tx
        BY <1>2 DEF Emitting
    <2>3. home[l[1]] = r.block /\ hashAt[home[l[1]]] = r.hash
        BY <1>7, <1>8, <2>1, <2>2 DEF OnChain
    <2> QED BY <1>7, <1>8, <2>1, <2>2, <2>3 DEF Abstract!Contents, Abstract!Heights, Heights
<1>9. ASSUME NEW r \in rows PROVE <<r.tx, r.block, r.hash>> \in Triples(stored)
    <2>1. CASE r \in stored
        BY <2>1 DEF Triples
    <2>2. CASE r \notin stored
        <3>1. PICK n \in new : n.tx = r.tx
            BY <1>0, <2>2 DEF Upserted
        <3>2. PICK m \in stored : m \in new /\ m.tx = n.tx
            BY <1>5
        <3>3. m.tx = r.tx /\ m.block = r.block /\ m.hash = r.hash
            BY <1>7, <3>1, <3>2 DEF OnChain
        <3>4. <<m.tx, m.block, m.hash>> \in Triples(stored)
            BY <3>2 DEF Triples
        <3> QED BY <3>3, <3>4
    <2> QED BY <2>1, <2>2
<1>10. ASSUME NEW l \in TxLogs, home[l[1]] \in Heights \cap (fromBlock..toBlock)
       PROVE  <<l[1], home[l[1]], hashAt[home[l[1]]]>> \in Triples(stored)
    <2>1. PICK e \in batch : e.tx = l[1]
        BY <1>10 DEF BatchMatches, Saving, Emitting
    <2>2. PICK m \in stored : m \in new /\ m.tx = l[1]
        BY <1>3, <1>5, <2>1
    <2>3. m.block = home[l[1]] /\ m.hash = hashAt[home[l[1]]]
        BY <1>7, <2>2 DEF OnChain
    <2>4. <<m.tx, m.block, m.hash>> \in Triples(stored)
        BY <2>2 DEF Triples
    <2> QED BY <2>2, <2>3, <2>4
<1>11. Triples(stored) \subseteq Triples(rows) \cup Abstract!Contents(fromBlock, toBlock)
    BY <1>6, <1>8 DEF Triples
<1>12. Triples(rows) \subseteq Triples(stored)
    BY <1>9 DEF Triples
<1>13. Abstract!Contents(fromBlock, toBlock) \subseteq Triples(stored)
    BY <1>10 DEF Abstract!Contents, Abstract!Heights, Heights
<1> QED BY <1>6, <1>7, <1>11, <1>12, <1>13

\* What the table holds of the blocks of a batch once it is saved.
LEMMA ContentsIndexed ==
    ASSUME NEW table, NEW from, NEW to, Abstract!Contents(from, to) \subseteq Triples(table),
           NEW t \in Emitting, home[t] \in Heights \cap (from..to)
    PROVE  \E r \in table : r.tx = t /\ r.block = home[t]
<1>1. PICK l \in TxLogs : l[1] = t
    BY DEF Emitting
<1>2. <<t, home[t], hashAt[home[t]]>> \in Abstract!Contents(from, to)
    BY <1>1 DEF Abstract!Contents, Abstract!Heights, Heights
<1> QED BY <1>2 DEF Triples

LEMMA InitRefines == Init => Abstract!IndexInit
BY DEF Init, ChainInit, StoredTxs, Claimed, Abstract!IndexInit, Abstract!ChainInit,
       Heights, Abstract!Heights

\* A claim that moves forward over blocks that are all stored, or back, is a
\* step of Index.
LEMMA ClaimMoves ==
    ASSUME TypeOK, NoReorgSeen, RowsTrue, UNCHANGED <<chainVars, rows>>,
           Claimed = StartBlock - 1, Claimed' \in Int, Claimed' >= StartBlock - 1,
           WithinChain(Claimed'), NoGapUpTo(Claimed')
    PROVE  [Abstract!IndexNext]_(Abstract!indexVars)
<1>1. StoredTxs' = StoredTxs
    BY DEF StoredTxs
<1>2. CASE Claimed' = Claimed
    BY <1>1, <1>2 DEF Abstract!indexVars, Abstract!chainVars, chainVars
<1>3. CASE Claimed' # Claimed
    <2>1. Claimed' > Claimed /\ Claimed' <= head /\ Claimed' >= StartBlock
        BY <1>3, CrawlerAssumption DEF WithinChain
    <2>2. Claimed' \in Abstract!Heights \cup {0}
        BY <2>1, ChainAssumption, CrawlerAssumption
        DEF TypeOK, ChainTypeOK, Abstract!Heights
    <2>3. Abstract!Contents(StartBlock, Claimed') \subseteq StoredTxs
        BY StoredUpTo
    <2>4. Claimed + 1 = StartBlock
        BY CrawlerAssumption
    <2>5. StoredTxs' = StoredTxs \cup Abstract!Contents(Claimed + 1, Claimed')
        BY <1>1, <2>3, <2>4
    <2>6. Abstract!Advance(Claimed')
        BY <2>1, <2>5 DEF Abstract!Advance, Abstract!chainVars, chainVars
    <2> QED BY <2>2, <2>6 DEF Abstract!IndexNext
<1> QED BY <1>2, <1>3

LEMMA ClaimForgotten ==
    ASSUME TypeOK, UNCHANGED <<chainVars, rows>>,
           Claimed \in Int, Claimed' \in (StartBlock - 1)..Claimed, WithinChain(Claimed)
    PROVE  [Abstract!IndexNext]_(Abstract!indexVars)
<1>1. StoredTxs' = StoredTxs
    BY DEF StoredTxs
<1>2. CASE Claimed' = Claimed
    BY <1>1, <1>2 DEF Abstract!indexVars, Abstract!chainVars, chainVars
<1>3. CASE Claimed' # Claimed
    <2>1. Claimed <= head /\ Claimed' \in 0..head
        BY <1>3, ChainAssumption, CrawlerAssumption DEF WithinChain, TypeOK, ChainTypeOK
    <2>2. Claimed' \in Abstract!Heights \cup {0}
        BY <2>1, ChainAssumption DEF TypeOK, ChainTypeOK, Abstract!Heights
    <2>3. Abstract!Forget(Claimed')
        BY <1>1 DEF Abstract!Forget, Abstract!chainVars, chainVars
    <2> QED BY <2>2, <2>3 DEF Abstract!IndexNext
<1> QED BY <1>2, <1>3

\* A step that leaves the chain, the table and the claim alone.
LEMMA ClaimStays ==
    ASSUME UNCHANGED <<chainVars, rows>>, Claimed' = Claimed
    PROVE  [Abstract!IndexNext]_(Abstract!indexVars)
BY DEF StoredTxs, Abstract!indexVars, Abstract!chainVars, chainVars

Unsettled == {"down", "load", "loadDb", "cursor", "rollbackCursor"}

LEMMA StepRefines ==
    ASSUME Lag = 0, forks = 0, forks' = 0, TypeOK, TypeOK', CountingInv, CountingInv',
           GapInv, GapInv', ClaimInv, ClaimInv', [Next]_vars
    PROVE  [Abstract!IndexNext]_(Abstract!indexVars)
<1> USE DEF durable, locals, memory, budgets
<1>0. /\ head \in Nat /\ head <= MaxHeight /\ MaxHeight \in Nat
      /\ StartBlock \in Nat \ {0} /\ BatchSize \in Nat \ {0} /\ latestBlock \in Int
      /\ lastProcessedBlock \in Int /\ fromBlock \in Int /\ toBlock \in Int
    BY ChainAssumption, CrawlerAssumption DEF TypeOK, ChainTypeOK
<1>q. NoReorgSeen /\ BatchExact /\ NoGapBelow /\ RowsTrue /\ BatchTrue /\ ClaimBounds
    BY DEF GapInv, ClaimInv
<1>r. NoGapBelow' /\ ClaimBounds'
    BY DEF GapInv, ClaimInv
<1>l. pc \notin {"rollback", "rollbackCursor"} /\ deepestReorg = 0
    BY <1>q DEF NoReorgSeen
<1>s. pc \notin Unsettled /\ pc' \notin Unsettled /\ lastProcessedBlock' = lastProcessedBlock
        => Claimed' = Claimed
    BY DEF Claimed, Unsettled
<1>d. pc \in {"down", "load", "loadDb"} => Claimed = StartBlock - 1
    BY DEF Claimed
<1>t. pc' \in {"down", "load", "loadDb"} => Claimed' = StartBlock - 1
    BY DEF Claimed
<1>w. /\ Claimed \in Int /\ Claimed >= StartBlock - 1 /\ WithinChain(Claimed)
    BY <1>0, <1>l, <1>q
    DEF Claimed, ClaimBounds, BatchExact, BatchInPlace, BatchTrue, CountingInv,
        WithinChain, Saving
<1>1. CASE Start
    BY <1>1, <1>d, <1>t, ClaimStays DEF Start
<1>2. CASE LoadCursor
    <2>1. CASE cursor = NoCursor
        BY <1>2, <2>1, <1>d, <1>t, ClaimStays DEF LoadCursor
    <2>2. CASE cursor # NoCursor
        <3>1. Claimed' = cursor /\ UNCHANGED <<chainVars, rows>>
            BY <1>2, <2>2 DEF LoadCursor, Claimed
        <3>2. cursor \in Int /\ cursor >= StartBlock - 1 /\ WithinChain(cursor)
            BY <1>q, <2>2 DEF ClaimBounds, CountingInv, CursorWithinChain, TypeOK
        <3>3. Claimed = StartBlock - 1
            BY <1>2, <1>d DEF LoadCursor
        <3>4. NoGapUpTo(cursor)
            BY <1>q DEF NoGapBelow
        <3> QED BY <1>q, <3>1, <3>2, <3>3, <3>4, ClaimMoves
    <2> QED BY <2>1, <2>2
<1>3. CASE LoadFromDb
    <2>1. Claimed' = lastProcessedBlock' /\ UNCHANGED <<chainVars, rows>>
        BY <1>3 DEF LoadFromDb, Claimed
    <2>2. Claimed = StartBlock - 1
        BY <1>3, <1>d DEF LoadFromDb
    <2>3. lastProcessedBlock' \in Int /\ lastProcessedBlock' >= StartBlock - 1
        BY <1>3, <1>r DEF LoadFromDb, ClaimBounds, TypeOK
    <2>4. WithinChain(lastProcessedBlock') /\ NoGapUpTo(lastProcessedBlock')
        <3>1. UNCHANGED <<head, rows, home>>
            BY <1>3 DEF LoadFromDb, chainVars
        <3>2. WithinChain(lastProcessedBlock)' /\ NoGapUpTo(lastProcessedBlock)'
            BY <1>r DEF CountingInv, NoGapBelow
        <3> QED BY <3>1, <3>2 DEF WithinChain, NoGapUpTo, Indexed
    <2> QED BY <1>q, <2>1, <2>2, <2>3, <2>4, ClaimMoves
<1>4. CASE GetLatestBlock
    BY <1>4, <1>s, ClaimStays DEF GetLatestBlock, Idle, Unsettled
<1>5. CASE CheckForReorg
    <2>1. ReorgCheckEnds(0)
        BY <1>5, <1>l, <1>q, NoMismatch DEF CheckForReorg
    <2>2. pc' \in {"fetch", "sleep"}
        BY <1>0, <2>1, ContinueClaim DEF ReorgCheckEnds
    <2> QED BY <1>5, <2>2, <1>s, ClaimStays DEF CheckForReorg, Unsettled
<1>6. CASE RollbackDelete \/ RollbackCursor
    BY <1>6, <1>l DEF RollbackDelete, RollbackCursor
<1>7. CASE FetchEvents
    BY <1>7, <1>s, ClaimStays DEF FetchEvents, Unsettled
<1>8. CASE SaveBlockMap
    BY <1>8, <1>s, ClaimStays DEF SaveBlockMap, Unsettled
<1>9. CASE SaveState
    <2> DEFINE new == NewRows(batch, latestBlock, blockMap)
    <2>0. /\ pc = "save" /\ lastProcessedBlock >= StartBlock - 1
          /\ fromBlock = lastProcessedBlock + 1 /\ fromBlock <= toBlock
        BY <1>9, <1>q DEF SaveState, ClaimBounds, BatchExact, BatchInPlace, BatchTrue, Saving
    <2>1. ASSUME NEW stored \in {rows \cup new, Upserted(rows, new)},
                 rows' = Reconfirmed(stored, latestBlock), pc' = "cursor", UNCHANGED locals
          PROVE  [Abstract!IndexNext]_(Abstract!indexVars)
        <3>1. stored \subseteq Row
            <4>1. new \subseteq Row /\ rows \subseteq Row
                BY NewRowsType DEF TypeOK
            <4> QED BY <4>1 DEF Upserted
        <3>2. StoredTxs' = Triples(stored)
            <4>1. StoredTxs' = Triples(Reconfirmed(stored, latestBlock))
                BY <2>1 DEF StoredTxs, Triples
            <4> QED BY <3>1, <4>1, ReconfirmedTriples
        <3>3. Triples(stored) = Triples(rows) \cup Abstract!Contents(fromBlock, toBlock)
            <4>1. \A r \in rows : OnChain(r)
                BY <1>q DEF RowsTrue, NoReorgSeen, OnChain, TypeOK, Row
            <4>2. \A e \in batch : e.block \in Heights
                BY DEF TypeOK, Event
            <4>3. BatchMatches
                BY <1>q, <2>0, <4>2
                DEF BatchMatches, BatchExact, BatchInPlace, BatchComplete, BatchTrue,
                    NoReorgSeen, Saving
            <4> QED BY <2>0, <4>1, <4>3, SaveAdds
        <3>4. Claimed = lastProcessedBlock /\ Claimed' = toBlock
            BY <2>0, <2>1 DEF Claimed
        <3>5. StoredTxs' = StoredTxs \cup Abstract!Contents(Claimed + 1, Claimed')
            BY <2>0, <3>2, <3>3, <3>4 DEF StoredTxs, Triples
        <3>6. Claimed' > Claimed /\ Claimed' <= head /\ Claimed' \in Abstract!Heights \cup {0}
            BY <1>0, <2>0, <3>4 DEF CountingInv, Abstract!Heights
        <3>7. UNCHANGED chainVars
            BY <1>9 DEF SaveState
        <3>8. Abstract!Advance(Claimed')
            BY <3>5, <3>6, <3>7 DEF Abstract!Advance, Abstract!chainVars, chainVars
        <3> QED BY <3>6, <3>8 DEF Abstract!IndexNext
    <2>2. CASE pc' = "retry" /\ UNCHANGED rows
        BY <1>9, <2>0, <2>2, <1>s, ClaimStays DEF SaveState, Unsettled
    <2> HIDE DEF new
    <2> QED BY <1>9, <2>1, <2>2 DEF SaveState, new
<1>10. CASE UpdateCursor
    <2>1. pc' \in {"fetch", "sleep"}
        BY <1>0, <1>10, ContinueClaim DEF UpdateCursor
    <2>2. Claimed = toBlock /\ Claimed' = toBlock
        BY <1>10, <2>1 DEF UpdateCursor, Claimed
    <2> QED BY <1>10, <2>2, ClaimStays DEF UpdateCursor
<1>11. CASE LoadFails
    <2>1. Claimed = StartBlock - 1 /\ Claimed' = StartBlock - 1
        BY <1>11, <1>d DEF LoadFails, Fault, Claimed
    <2> QED BY <1>11, <2>1, ClaimStays DEF LoadFails
<1>12. CASE CallFails
    <2>1. Claimed' = lastProcessedBlock
        BY <1>12 DEF CallFails, Claimed
    <2>2. lastProcessedBlock >= StartBlock - 1 /\ lastProcessedBlock <= Claimed
        BY <1>0, <1>12, <1>q, <1>l
        DEF CallFails, Fault, Idle, Claimed, ClaimBounds, BatchExact, BatchInPlace, BatchTrue
    <2> QED BY <1>0, <1>12, <1>w, <2>1, <2>2, ClaimForgotten DEF CallFails
<1>13. CASE Crash
    BY <1>0, <1>13, <1>t, <1>w, ClaimForgotten DEF Crash
<1>14. CASE LoseCursor
    <2>1. Claimed' = Claimed
        BY <1>14 DEF LoseCursor, Claimed
    <2> QED BY <1>14, <2>1, ClaimStays DEF LoseCursor
<1>15. CASE ChainMoves
    <2>1. Claimed' = Claimed /\ StoredTxs' = StoredTxs
        BY <1>15 DEF ChainMoves, Claimed, StoredTxs
    <2>2. Mine
        BY <1>15 DEF ChainMoves, Reorg
    <2> QED BY <2>1, <2>2 DEF Mine, Abstract!Mine, Abstract!ChainStep, Abstract!IndexNext
<1>16. CASE UNCHANGED vars
    <2>1. Claimed' = Claimed
        BY <1>16 DEF vars, Claimed
    <2> QED BY <1>16, <2>1, ClaimStays DEF vars
<1> QED
    BY <1>1, <1>2, <1>3, <1>4, <1>5, <1>6, <1>7, <1>8, <1>9, <1>10, <1>11,
       <1>12, <1>13, <1>14, <1>15, <1>16
    DEF Next, Crawl

\* On a chain without reorganizations, with nodes that are up to date and a filter
\* that selects both events, the crawler
\* implements Index: it never adds a transaction that its batch does not hold,
\* never claims a block without what the block holds, and takes a claim back only
\* to read the blocks again.
THEOREM CrawlerImplementsIndex ==
    ASSUME MaxForks = 0, Lag = 0, EventFilter = "anyOf"
    PROVE  Spec => ImplementsIndex
<1> DEFINE Inv == CrawlInv /\ GapInv /\ ClaimInv
<1>1. Init => Inv
    BY InitCrawlInv, InitGapInv, InitClaimInv
<1>2. Inv /\ [Next]_vars => Inv'
    BY StepCrawlInv, StepGapInv, StepClaimInv DEF CrawlInv
<1>3. TypeOK => forks = 0
    BY DEF TypeOK, ChainTypeOK, Hashes
<1>4. TypeOK' => forks' = 0
    BY DEF TypeOK, ChainTypeOK, Hashes
<1>5. Inv /\ Inv' /\ [Next]_vars => [Abstract!IndexNext]_(Abstract!indexVars)
    BY <1>3, <1>4, StepRefines DEF CrawlInv
<1>6. Init => Abstract!IndexInit
    BY InitRefines
<1> QED BY <1>1, <1>2, <1>5, <1>6, PTL DEF Spec, ImplementsIndex, Abstract!IndexSpec

-----------------------------------------------------------------------------
(* The invariant of the index under reorganizations                        *)

Reorganized == FreshStart /\ MismatchesFound /\ TableMatches /\ WindowCached /\ BatchMatches

LEMMA InitMatchInv == Init => MatchInv
<1> SUFFICES ASSUME Init PROVE Reorganized
    BY DEF MatchInv, Reorganized
<1>1. Cached = {} /\ Mismatched = {} /\ Claimed = StartBlock - 1
    BY DEF Init, NothingCached, Cached, Mismatched, Claimed
<1>2. FreshStart /\ BatchMatches
    BY <1>1 DEF Init, FreshStart, BatchMatches, Starting, Saving
<1>3. MismatchesFound
    BY <1>1 DEF Init, ChainInit, MismatchesFound, Idle
<1>4. StartBlock..Claimed = {}
    BY <1>1, CrawlerAssumption
<1>5. TableMatches /\ WindowCached
    BY <1>1, <1>4 DEF Init, TableMatches, WindowCached, Starting
<1> QED BY <1>2, <1>3, <1>5 DEF Reorganized

\* Where the claim is read off the state.
LEMMA ClaimedAt ==
    /\ pc \in Starting => Claimed = StartBlock - 1
    /\ pc = "cursor" => Claimed = toBlock
    /\ pc = "rollbackCursor" => Claimed = deepestReorg - 1
    /\ pc \notin Starting \cup {"cursor", "rollbackCursor"} => Claimed = lastProcessedBlock
BY DEF Claimed, Starting

\* Without a mismatch there is no doubt.
LEMMA NoDoubt ==
    ASSUME Mismatched = {}, TableMatches
    PROVE  /\ \A r \in rows : OnChain(r)
           /\ \A t \in Emitting : home[t] \in StartBlock..Claimed => Indexed(t)
BY DEF TableMatches, Doubtful

\* A pass over the loop of crawl() ends: the cached blocks match the chain, and
\* those that are trimmed are below the window.
LEMMA ContinueMatches ==
    ASSUME TypeOK, FreshStart, MismatchesFound, TableMatches, WindowCached, Mismatched = {},
           pc \notin Starting \cup Idle,
           NEW from \in Int, Continue(from, latestBlock),
           UNCHANGED <<chainVars, rows, lastIsString>>,
           lastProcessedBlock' = from - 1, Claimed = from - 1, from >= StartBlock,
           \A b \in Heights : \/ blockMap'[b] = blockMap[b]
                              \/ blockMap'[b] = NoHash /\ b <= head - ReorgDepth
    PROVE  Reorganized' /\ Mismatched' = {}
<1> USE DEF chainVars
<1>0. /\ latestBlock \in Int /\ head \in Int /\ ReorgDepth \in Int /\ StartBlock \in Nat \ {0}
      /\ rows \subseteq Row
    BY CrawlerAssumption, ChainAssumption DEF TypeOK, ChainTypeOK
<1>1. /\ pc' \in {"fetch", "sleep"} /\ (pc' = "sleep" => from > latestBlock)
      /\ deepestReorg' = 0 /\ latestBlock' \in {latestBlock, 0}
      /\ pc' = "fetch" => latestBlock' = latestBlock
    BY <1>0 DEF Continue, ForgetLocals, More
<1>2. \A b \in Cached' : b \in Cached /\ blockMap'[b] = blockMap[b]
    BY DEF Cached
<1>3. Mismatched' = {}
    BY <1>2 DEF Mismatched
<1>4. Claimed' = Claimed
    BY <1>1, ClaimedAt DEF Claimed
<1>5. FreshStart'
    BY <1>0, <1>1 DEF FreshStart, Starting
<1>6. MismatchesFound'
    BY <1>1, <1>2, <1>3 DEF MismatchesFound, Idle
<1>7. TableMatches'
    <2>1. \A r \in rows' : r.block >= StartBlock /\ OnChain(r)'
        BY NoDoubt DEF TableMatches, OnChain
    <2>2. \A t \in Emitting : home'[t] \in StartBlock..Claimed' => Indexed(t)'
        BY <1>4, NoDoubt DEF Indexed
    <2> QED BY <2>1, <2>2 DEF TableMatches
<1>8. WindowCached'
    <2>1. \A b \in Cached : b > head - ReorgDepth => b \in Cached'
        BY <1>0 DEF Cached, Heights
    <2>2. \A b \in StartBlock..Claimed' : b > head' - ReorgDepth => b \in Cached'
        BY <1>4, <2>1 DEF WindowCached
    <2>3. (\A b \in Cached' : b <= latestBlock) /\ (\A r \in rows' : r.block <= latestBlock)
        BY <1>2 DEF WindowCached
    <2>4. pc' = "sleep" => (\A b \in Cached' : b <= lastProcessedBlock')
                             /\ (\A r \in rows' : r.block <= lastProcessedBlock')
        <3>1. ASSUME NEW b \in Int, b <= latestBlock, pc' = "sleep" PROVE b <= lastProcessedBlock'
            BY <1>0, <1>1, <3>1
        <3>2. \A b \in Cached' : b \in Int
            BY ChainAssumption DEF Cached, Heights
        <3>3. \A r \in rows' : r.block \in Int
            BY <1>0, ChainAssumption DEF Row, Heights
        <3> QED BY <2>3, <3>1, <3>2, <3>3
    <2> QED BY <1>1, <2>2, <2>3, <2>4 DEF WindowCached, Idle
<1>9. BatchMatches'
    BY <1>1 DEF BatchMatches, Saving
<1> QED BY <1>3, <1>5, <1>6, <1>7, <1>8, <1>9 DEF Reorganized

\* A new block touches none of the blocks that the index knows.
LEMMA MineMatches ==
    ASSUME TypeOK, CountingInv, CycleInv, Reorganized, Mine, UNCHANGED <<durable, memory>>
    PROVE  Reorganized'
<1> USE DEF durable, memory, locals, Reorganized
<1>0. /\ latestBlock \in Int /\ head \in Nat /\ ReorgDepth \in Int /\ StartBlock \in Nat \ {0}
      /\ rows \subseteq Row /\ batch \subseteq Event /\ lastProcessedBlock \in Int
      /\ deepestReorg \in Int /\ toBlock \in Int /\ fromBlock \in Int
      /\ \A t \in Txs : home[t] \in Nat
    BY CrawlerAssumption, ChainAssumption DEF TypeOK, ChainTypeOK
<1>1. head' = head + 1 /\ forks' = forks /\ Cached' = Cached /\ Claimed' = Claimed
    BY DEF Mine, Cached, Claimed
<1>2. \A h \in Heights : hashAt'[h] = IF h = head + 1 THEN forks ELSE hashAt[h]
    BY DEF Mine, TypeOK, ChainTypeOK
<1>3. \A b \in Cached : b \in Heights /\ b <= head /\ hashAt'[b] = hashAt[b]
    BY <1>0, <1>2 DEF CountingInv, Cached
<1>4. Mismatched' = Mismatched
    BY <1>1, <1>3 DEF Mismatched
<1>5. \A t \in Txs : home'[t] = home[t] \/ (home[t] = 0 /\ home'[t] = head + 1)
    BY DEF Mine
<1>6. Emitting \subseteq Txs
    BY ChainAssumption DEF Emitting
<1>7. FreshStart'
    BY <1>1 DEF FreshStart
<1>8. MismatchesFound'
    <2>1. \A h \in Heights : hashAt'[h] <= forks'
        BY <1>0, <1>1, <1>2 DEF MismatchesFound, TypeOK, ChainTypeOK, Hashes
    <2> QED BY <1>1, <1>4, <2>1 DEF MismatchesFound
<1>9. TableMatches'
    <2>1. ASSUME NEW r \in rows PROVE r.block >= StartBlock /\ (OnChain(r)' \/ Doubtful(r.block)')
        <3>1. r.block >= StartBlock /\ (OnChain(r) \/ Doubtful(r.block))
            BY DEF TableMatches
        <3>2. Doubtful(r.block) => Doubtful(r.block)'
            BY <1>4 DEF Doubtful
        <3>3. r \in Row /\ r.block \in Heights /\ r.block <= head
            BY <1>0 DEF Row, CountingInv
        <3>4. OnChain(r) => OnChain(r)'
            BY <1>0, <1>2, <1>5, <3>1, <3>3, ChainAssumption DEF OnChain, Row, Heights
        <3> QED BY <3>1, <3>2, <3>4
    <2>2. Claimed \in Int /\ (Claimed <= head \/ Claimed < StartBlock)
        BY <1>0, ClaimedAt DEF CountingInv, WithinChain
    <2>3. ASSUME NEW t \in Emitting, home'[t] \in StartBlock..Claimed
          PROVE  Indexed(t)' \/ Doubtful(home[t])'
        <3>1. home'[t] = home[t]
            BY <1>0, <1>5, <1>6, <2>2, <2>3
        <3>2. Indexed(t) \/ Doubtful(home[t])
            BY <2>3, <3>1 DEF TableMatches
        <3>3. Indexed(t) => Indexed(t)'
            BY <3>1 DEF Indexed
        <3>4. Doubtful(home[t]) => Doubtful(home[t])'
            BY <1>4, <3>1 DEF Doubtful
        <3> QED BY <3>2, <3>3, <3>4
    <2>4. \A t \in Emitting :
            home'[t] \in StartBlock..Claimed' => Indexed(t)' \/ Doubtful(home[t])'
        BY <1>1, <2>3
    <2> QED BY <2>1, <2>4 DEF TableMatches, Doubtful
<1>10. WindowCached'
    <2>1. \A b \in Int : b > head' - ReorgDepth => b > head - ReorgDepth
        BY <1>0, <1>1
    <2>2. \A b \in StartBlock..Claimed' : b > head' - ReorgDepth => b \in Cached'
        BY <1>1, <2>1 DEF WindowCached
    <2>3. pc' = "save" =>
            \A b \in fromBlock'..toBlock' : b > head' - ReorgDepth => b \in Cached'
        BY <1>1, <2>1 DEF WindowCached
    <2> QED BY <1>1, <2>2, <2>3 DEF WindowCached
<1>11. BatchMatches'
    <2>1. \A e \in batch : e.tx \in Txs /\ e.block \in Heights /\ e.block > 0 /\ e.block <= head
        BY <1>0, ChainAssumption DEF Event, Heights, CountingInv
    <2>2. \A e \in batch : hashAt'[e.block] = hashAt[e.block]
        BY <1>0, <1>2, <2>1 DEF Heights
    <2>3. \A e \in batch : e.block = home[e.tx] => e.block = home'[e.tx]
        BY <1>0, <1>5, <2>1 DEF Heights
    <2>4. \A t \in Emitting :
            home'[t] \in Heights \cap (fromBlock..toBlock) => home'[t] = home[t]
        BY <1>0, <1>5, <1>6 DEF CountingInv
    <2> QED BY <2>2, <2>3, <2>4 DEF BatchMatches
<1> QED BY <1>7, <1>8, <1>9, <1>10, <1>11

\* The blocks a reorganization takes and the index knows of are in doubt after it.
LEMMA ReorgMatches ==
    ASSUME MaxReorgDepth <= ReorgDepth, TypeOK, CountingInv, Reorganized,
           pc \in Starting \cup {"start", "sleep"},
           NEW h \in Heights, Reorg(h), UNCHANGED <<durable, memory>>
    PROVE  Reorganized'
<1> USE DEF durable, memory, locals, Reorganized
<1>0. /\ head \in Nat /\ ReorgDepth \in Int /\ StartBlock \in Nat \ {0} /\ MaxReorgDepth \in Int
      /\ rows \subseteq Row /\ lastProcessedBlock \in Int /\ h \in Int /\ forks \in Int
      /\ \A t \in Txs : home[t] \in Nat
      /\ \A b \in Heights : b \in Int
    BY CrawlerAssumption, ChainAssumption DEF TypeOK, ChainTypeOK, Heights, Hashes
<1>1. /\ head' = head /\ forks' = forks + 1 /\ Cached' = Cached /\ Claimed' = Claimed
      /\ h <= head /\ h > head - ReorgDepth
    <2>1. head - h < MaxReorgDepth /\ h <= head
        BY DEF Reorg
    <2>2. h > head - ReorgDepth
        BY <1>0, <2>1
    <2> QED BY <2>1, <2>2 DEF Reorg, Cached, Claimed
<1>2. \A b \in Heights : hashAt'[b] = IF b \in h..head THEN forks + 1 ELSE hashAt[b]
    BY DEF Reorg
<1>3. \A b \in Cached : /\ b \in Heights /\ b <= head /\ blockMap[b] \in Int
                        /\ blockMap[b] <= forks /\ b >= StartBlock /\ b \in Int
    BY <1>0 DEF CountingInv, Cached, MismatchesFound, TypeOK, Hashes, NoHash
<1>m. /\ Mismatched = {b \in Cached : blockMap[b] # hashAt[b]}
      /\ Mismatched' = {b \in Cached : blockMap[b] # hashAt'[b]}
    BY <1>1 DEF Mismatched
<1>4. \A b \in Cached : b >= h => b \in Mismatched'
    <2> SUFFICES ASSUME NEW b \in Cached, b >= h PROVE hashAt'[b] # blockMap[b]
        BY <1>m
    <2>1. b \in h..head /\ b \in Heights
        BY <1>0, <1>3
    <2>2. hashAt'[b] = forks + 1
        BY <1>2, <2>1
    <2> QED BY <1>0, <1>3, <2>2
<1>5. \A b \in Cached : b < h => (b \in Mismatched' <=> b \in Mismatched)
    <2> SUFFICES ASSUME NEW b \in Cached, b < h PROVE hashAt'[b] = hashAt[b]
        BY <1>m
    <2>1. b \notin h..head /\ b \in Heights
        BY <1>0, <1>3
    <2> QED BY <1>2, <2>1
<1>6. Mismatched \subseteq Mismatched' /\ Mismatched' \subseteq Cached /\ Mismatched \subseteq Cached
    <2>1. Mismatched \subseteq Cached /\ Mismatched' \subseteq Cached
        BY <1>m
    <2>2. \A b \in Cached : b >= h \/ b < h
        BY <1>0, <1>3
    <2> QED BY <1>4, <1>5, <2>1, <2>2
<1>7. \A b : Doubtful(b) => Doubtful(b)'
    BY <1>6 DEF Doubtful
<1>8. /\ pc # "sleep" => rows = {} /\ Cached = {} /\ Claimed = StartBlock - 1
      /\ pc = "sleep" => Claimed = lastProcessedBlock
    BY ClaimedAt DEF FreshStart, Starting
<1>9. Claimed <= head \/ Claimed < StartBlock
    BY <1>0, <1>8 DEF CountingInv, WithinChain
<1>10. \A b \in Int : b >= h /\ b >= StartBlock /\ b <= Claimed => Doubtful(b)'
    <2> SUFFICES ASSUME NEW b \in Int, b >= h, b >= StartBlock, b <= Claimed
                 PROVE  Doubtful(b)'
        OBVIOUS
    <2>0. Claimed \in Int
        BY <1>0, <1>8
    <2>1. PICK c \in Int : c >= h /\ c >= StartBlock /\ c <= b /\ (c = h \/ c = StartBlock)
        BY <1>0
    <2>2. c \in StartBlock..Claimed /\ c > head - ReorgDepth
        BY <1>0, <1>1, <2>0, <2>1
    <2>3. c \in Cached
        BY <2>2 DEF WindowCached
    <2> QED BY <1>4, <2>1, <2>3 DEF Doubtful
<1>11. FreshStart'
    BY <1>1 DEF FreshStart
<1>12. MismatchesFound'
    <2>1. \A b \in Heights : hashAt'[b] <= forks'
        BY <1>0, <1>1, <1>2 DEF MismatchesFound, TypeOK, ChainTypeOK, Hashes
    <2>2. \A b \in Cached' : b >= StartBlock /\ blockMap'[b] <= forks'
        BY <1>0, <1>1, <1>3
    <2>3. ASSUME NEW b \in Mismatched'
          PROVE  /\ b <= lastProcessedBlock /\ b > lastProcessedBlock - ReorgDepth
                 /\ \A c \in Cached : b <= c => c \in Mismatched'
        <3>0. b \in Cached /\ b \in Int
            BY <1>0, <1>3, <1>6
        <3>1. CASE b < h
            <4>1. b \in Mismatched
                BY <1>5, <3>0, <3>1
            <4> QED BY <1>6, <4>1 DEF MismatchesFound
        <3>2. CASE b >= h
            <4>1. pc = "sleep"
                BY <1>8, <3>0
            <4>2. b <= lastProcessedBlock
                BY <3>0, <4>1 DEF WindowCached
            <4>3. lastProcessedBlock <= head
                BY <1>0, <1>3, <1>8, <1>9, <3>0, <4>1, <4>2
            <4>4. b > lastProcessedBlock - ReorgDepth
                BY <1>0, <1>1, <3>0, <3>2, <4>3
            <4>5. \A c \in Cached : b <= c => c >= h
                BY <1>0, <1>3, <3>0, <3>2
            <4> QED BY <1>4, <4>2, <4>4, <4>5
        <3> QED BY <1>0, <3>0, <3>1, <3>2
    <2>4. pc \in Starting => Mismatched' = {}
        BY <1>6, <1>8 DEF Starting
    <2> QED BY <1>1, <2>1, <2>2, <2>3, <2>4 DEF MismatchesFound, Idle, Starting
<1>13. TableMatches'
    <2>0. PICK place \in [{t \in Txs : home[t] = 0 \/ home[t] >= h} -> {0} \cup h..head] :
             home' = [t \in Txs |-> IF t \in DOMAIN place THEN place[t] ELSE home[t]]
        BY DEF Reorg
    <2>1. \A t \in Txs : home'[t] = home[t] \/ home'[t] = 0 \/ home'[t] >= h
        BY <1>0, <2>0
    <2>2. \A t \in Txs : home[t] # 0 /\ home[t] < h => home'[t] = home[t]
        BY <1>0, <2>0
    <2>3. ASSUME NEW r \in rows PROVE r.block >= StartBlock /\ (OnChain(r)' \/ Doubtful(r.block)')
        <3>0. r.tx \in Txs /\ r.block \in Heights /\ r.block >= StartBlock /\ r.block \in Int
            BY <1>0 DEF Row, TableMatches
        <3>1. CASE Doubtful(r.block)
            BY <1>7, <3>0, <3>1
        <3>2. CASE r.block >= h
            <4>1. pc = "sleep"
                BY <1>8
            <4>2. r.block <= Claimed
                BY <1>8, <4>1 DEF WindowCached
            <4> QED BY <1>10, <3>0, <3>2, <4>2
        <3>3. CASE r.block < h /\ ~ Doubtful(r.block)
            <4>1. OnChain(r)
                BY <3>3 DEF TableMatches
            <4>2. home'[r.tx] = r.block /\ hashAt'[r.block] = hashAt[r.block]
                BY <1>0, <1>2, <2>2, <3>0, <3>3, <4>1 DEF OnChain
            <4> QED BY <3>0, <4>1, <4>2 DEF OnChain
        <3> QED BY <1>0, <3>0, <3>1, <3>2, <3>3
    <2>4. ASSUME NEW t \in Emitting, home'[t] \in StartBlock..Claimed'
          PROVE  Indexed(t)' \/ Doubtful(home[t])'
        <3>0. t \in Txs /\ home'[t] \in Int /\ home'[t] >= StartBlock /\ home'[t] <= Claimed
            BY <1>1, <2>4, ChainAssumption DEF Emitting
        <3>1. CASE home'[t] >= h
            <4>1. Doubtful(home[t])'
                BY <1>10, <3>0, <3>1 DEF Doubtful
            <4> QED BY <4>1
        <3>2. CASE home'[t] < h
            <4>1. home'[t] = home[t]
                BY <1>0, <2>1, <3>0, <3>2
            <4>2. Indexed(t) \/ Doubtful(home[t])
                BY <1>1, <2>4, <4>1 DEF TableMatches
            <4>3. Indexed(t) => Indexed(t)'
                BY <4>1 DEF Indexed
            <4>4. Doubtful(home[t]) => Doubtful(home[t])'
                BY <1>6, <4>1 DEF Doubtful
            <4> QED BY <4>2, <4>3, <4>4
        <3> QED BY <1>0, <3>0, <3>1, <3>2
    <2> QED BY <2>3, <2>4 DEF TableMatches, Doubtful
<1>14. WindowCached'
    BY <1>1 DEF WindowCached
<1>15. BatchMatches'
    BY DEF BatchMatches, Saving, Starting
<1> QED BY <1>11, <1>12, <1>13, <1>14, <1>15

\* What a step that leaves the chain, the table and the cached hashes alone keeps.
LEMMA SameIndex ==
    ASSUME UNCHANGED <<chainVars, rows, blockMap>>,
           Claimed' = Claimed \/ (Claimed \in Int /\ Claimed' \in Int /\ Claimed' <= Claimed)
    PROVE  /\ Cached' = Cached /\ Mismatched' = Mismatched
           /\ TableMatches => TableMatches'
           /\ (\A b \in StartBlock..Claimed : b > head - ReorgDepth => b \in Cached)
                => \A b \in StartBlock..Claimed' : b > head' - ReorgDepth => b \in Cached'
<1> USE DEF chainVars
<1>1. Cached' = Cached /\ Mismatched' = Mismatched
    BY DEF Cached, Mismatched
<1>2. \A b \in StartBlock..Claimed' : b \in StartBlock..Claimed
    BY CrawlerAssumption
<1>3. TableMatches => TableMatches'
    <2> SUFFICES ASSUME TableMatches PROVE TableMatches'
        OBVIOUS
    <2>1. \A r \in rows' : r.block >= StartBlock /\ (OnChain(r)' \/ Doubtful(r.block)')
        BY <1>1 DEF TableMatches, OnChain, Doubtful
    <2>2. \A t \in Emitting :
            home'[t] \in StartBlock..Claimed' => Indexed(t)' \/ Doubtful(home[t])'
        BY <1>1, <1>2 DEF TableMatches, Indexed, Doubtful
    <2> QED BY <2>1, <2>2 DEF TableMatches
<1> QED BY <1>1, <1>2, <1>3

\* The search of checkForReorg() ends below every block that no longer matches.
LEMMA SearchEnds ==
    ASSUME TypeOK, MismatchesFound,
           \/ ToCompare = {}
           \/ \E b \in ToCompare : (\A c \in ToCompare : c <= b) /\ b \notin Mismatched
    PROVE  \A c \in Mismatched : c > probe
<1> SUFFICES ASSUME NEW c \in Mismatched, ~ (c > probe) PROVE FALSE
    OBVIOUS
<1>1. c \in Cached /\ c \in Int /\ probe \in Int
    BY ChainAssumption DEF Mismatched, Cached, Heights, TypeOK
<1>2. c \in ToCompare
    BY <1>1 DEF ToCompare, MismatchesFound
<1>3. PICK b \in ToCompare : (\A d \in ToCompare : d <= b) /\ b \notin Mismatched
    BY <1>2
<1>4. b \in Cached /\ c <= b
    BY <1>2, <1>3 DEF ToCompare
<1> QED BY <1>3, <1>4 DEF MismatchesFound

\* The node that answers is up to date, so a comparison tells what matches.
LEMMA Compared ==
    ASSUME Lag = 0, TypeOK, CountingInv, NEW b \in Cached, NEW n \in NodeHeads
    PROVE  HashOf(b, n) # blockMap[b] <=> b \in Mismatched
<1>1. n = head
    BY ChainAssumption DEF NodeHeads, TypeOK, ChainTypeOK
<1>2. b \in Heights /\ b <= head /\ b \in 1..n
    BY <1>1, ChainAssumption DEF CountingInv, Cached, Heights, TypeOK, ChainTypeOK
<1> QED BY <1>2 DEF HashOf, Mismatched

\* A check that ends has found all there is to find.
LEMMA CheckMatches ==
    ASSUME TypeOK, CountingInv, CycleInv, Reorganized, pc = "check",
           UNCHANGED <<chainVars, rows, blockMap, lastProcessedBlock, lastIsString>>,
           ReorgCheckEnds(deepestReorg), \A c \in Mismatched : c > probe
    PROVE  Reorganized' /\ (pc' = "sleep" => Mismatched' = {})
<1> USE DEF Reorganized
<1>0. /\ lastProcessedBlock \in Int /\ fromBlock \in Int /\ deepestReorg \in Int
      /\ StartBlock \in Int /\ \A c \in Mismatched : c \in Int
    BY CrawlerAssumption, ChainAssumption DEF TypeOK, Mismatched, Cached, Heights
<1>1. CASE deepestReorg = 0
    <2>1. Mismatched = {}
        BY <1>0, <1>1 DEF MismatchesFound
    <2>2. fromBlock = lastProcessedBlock + 1 /\ lastProcessedBlock >= StartBlock - 1
        BY DEF CycleInv, FreshStart, Starting
    <2>3. Claimed = fromBlock - 1 /\ lastProcessedBlock' = fromBlock - 1 /\ fromBlock >= StartBlock
        BY <1>0, <2>2, ClaimedAt DEF Starting
    <2>4. Continue(fromBlock, latestBlock) /\ pc \notin Starting \cup Idle
        BY <1>1 DEF ReorgCheckEnds, Starting, Idle
    <2> QED BY <1>0, <2>1, <2>3, <2>4, ContinueMatches
<1>2. CASE deepestReorg # 0
    <2>1. pc' = "rollback" /\ deepestReorg' = deepestReorg /\ latestBlock' = latestBlock
        BY <1>2 DEF ReorgCheckEnds
    <2>2. Claimed' = Claimed
        BY <2>1, ClaimedAt DEF Claimed, Starting
    <2>3. \A c \in Mismatched : c >= deepestReorg
        BY <1>0, <1>2 DEF MismatchesFound
    <2>4. FreshStart' /\ TableMatches' /\ BatchMatches'
        BY <2>1, <2>2, SameIndex DEF FreshStart, Starting, BatchMatches, Saving
    <2>5. MismatchesFound'
        BY <1>2, <2>1, <2>2, <2>3, SameIndex DEF MismatchesFound, chainVars, Idle
    <2>6. WindowCached'
        BY <2>1, <2>2, SameIndex DEF WindowCached, Starting, Idle
    <2> QED BY <2>1, <2>4, <2>5, <2>6
<1> QED BY <1>1, <1>2

LEMMA RollbackMatches ==
    ASSUME TypeOK, CountingInv, CycleInv, Reorganized, RollbackDelete
    PROVE  Reorganized'
<1> USE DEF Reorganized, durable, locals, memory, chainVars
<1>0. /\ lastProcessedBlock \in Int /\ deepestReorg \in Int /\ StartBlock \in Int
      /\ rows \subseteq Row /\ deepestReorg \in StartBlock..lastProcessedBlock
    BY CrawlerAssumption, ChainAssumption DEF TypeOK, CycleInv, RollbackDelete
<1>1. /\ pc = "rollback" /\ pc' = "rollbackCursor" /\ UNCHANGED <<chainVars, cursor, locals>>
      /\ UNCHANGED <<lastProcessedBlock, lastIsString>>
      /\ rows' = {r \in rows : r.block < deepestReorg}
      /\ blockMap' = [b \in Heights |-> IF b < deepestReorg THEN blockMap[b] ELSE NoHash]
    BY DEF RollbackDelete, RolledBack
<1>2. Claimed = lastProcessedBlock /\ Claimed' = deepestReorg - 1
    BY <1>1, ClaimedAt DEF Claimed, Starting
<1>3. Cached' = {b \in Cached : b < deepestReorg}
    BY <1>1 DEF Cached
<1>4. \A b \in Cached' : b \in Heights /\ blockMap'[b] = blockMap[b]
    BY <1>1, <1>3 DEF Cached
<1>5. \A c \in Mismatched : c >= deepestReorg /\ c \in Int
    BY <1>1, ChainAssumption DEF MismatchesFound, Mismatched, Cached, Heights
<1>6. Mismatched' = {}
    <2> SUFFICES ASSUME NEW b \in Mismatched' PROVE FALSE
        OBVIOUS
    <2>1. b \in Cached' /\ blockMap'[b] # hashAt[b]
        BY <1>1 DEF Mismatched
    <2>2. b \in Mismatched /\ b < deepestReorg
        BY <1>3, <1>4, <2>1 DEF Mismatched
    <2> QED BY <1>0, <1>5, <2>2
<1>7. \A b \in Int : b < deepestReorg => ~ Doubtful(b)
    BY <1>0, <1>5 DEF Doubtful
<1>8. FreshStart'
    BY <1>1 DEF FreshStart, Starting
<1>9. MismatchesFound'
    BY <1>1, <1>3, <1>4, <1>6 DEF MismatchesFound, Idle
<1>10. TableMatches'
    <2>1. ASSUME NEW r \in rows' PROVE r.block >= StartBlock /\ OnChain(r)'
        <3>1. r \in rows /\ r.block < deepestReorg /\ r.block \in Int
            BY <1>0, <1>1, ChainAssumption DEF Row, Heights
        <3>2. r.block >= StartBlock /\ OnChain(r)
            BY <1>7, <3>1 DEF TableMatches
        <3> QED BY <1>1, <3>2 DEF OnChain
    <2>2. ASSUME NEW t \in Emitting, home'[t] \in StartBlock..Claimed' PROVE Indexed(t)'
        <3>1. home'[t] = home[t] /\ home[t] \in StartBlock..Claimed /\ home[t] < deepestReorg
            BY <1>0, <1>1, <1>2, <2>2
        <3>2. home[t] \in Int
            BY <3>1
        <3>3. Indexed(t)
            BY <1>7, <3>1, <3>2 DEF TableMatches
        <3> QED BY <1>1, <3>1, <3>3 DEF Indexed
    <2> QED BY <2>1, <2>2 DEF TableMatches
<1>11. WindowCached'
    <2>1. \A b \in StartBlock..Claimed' : b \in StartBlock..Claimed /\ b < deepestReorg
        BY <1>0, <1>2
    <2>2. \A b \in StartBlock..Claimed' : b > head' - ReorgDepth => b \in Cached'
        BY <1>1, <1>3, <2>1 DEF WindowCached
    <2> QED BY <1>1, <1>3, <2>2 DEF WindowCached, Starting, Idle
<1>12. BatchMatches'
    BY <1>1 DEF BatchMatches, Saving
<1> QED BY <1>8, <1>9, <1>10, <1>11, <1>12

\* The hashes that saveBlockMap() fetches are those of the chain.
LEMMA BlocksMatch ==
    ASSUME Lag = 0, TypeOK, CountingInv, CycleInv, Reorganized, SaveBlockMap
    PROVE  Reorganized'
<1> USE DEF Reorganized, durable, locals, memory, chainVars
<1>0. /\ lastProcessedBlock \in Int /\ fromBlock \in Int /\ toBlock \in Int /\ StartBlock \in Nat \ {0}
      /\ latestBlock \in Int /\ head \in Nat /\ head <= MaxHeight /\ MaxHeight \in Nat
      /\ ReorgDepth \in Int /\ rows \subseteq Row
      /\ batch \subseteq Event /\ toBlock <= latestBlock /\ latestBlock <= head
    BY CrawlerAssumption, ChainAssumption DEF TypeOK, ChainTypeOK, CountingInv
<1>1. /\ pc = "blocks" /\ pc' = "save" /\ UNCHANGED <<chainVars, rows, cursor, locals>>
      /\ UNCHANGED <<lastProcessedBlock, lastIsString>>
    BY DEF SaveBlockMap
<1>2. Claimed' = Claimed
    BY <1>1, ClaimedAt DEF Claimed, Starting
<1>3. PICK n \in NodeHeads :
        blockMap' = [b \in Heights |->
           IF /\ blockMap[b] = NoHash
              /\ \/ \E e \in batch : e.block = b
                 \/ b \in fromBlock..toBlock /\ b > latestBlock - ReorgDepth
             THEN HashOf(b, n) ELSE blockMap[b]]
    BY DEF SaveBlockMap
<1>4. n = head
    BY <1>0 DEF NodeHeads
<1>5. fromBlock >= StartBlock
    BY <1>0, <1>1 DEF CycleInv, Batching, FreshStart, Starting
<1>6. \A b \in fromBlock..toBlock :
        b \in Heights /\ HashOf(b, n) = hashAt[b] /\ hashAt[b] # NoHash /\ hashAt[b] <= forks
    BY <1>0, <1>4, <1>5 DEF HashOf, Heights, TypeOK, ChainTypeOK, Hashes, NoHash, MismatchesFound
<1>7. \A e \in batch : e.block \in fromBlock..toBlock
    BY DEF CountingInv
<1>m. Mismatched = {}
    BY <1>1 DEF MismatchesFound, Idle
<1>8. \A b \in Cached : b \in Cached' /\ blockMap'[b] = blockMap[b]
    BY <1>3 DEF Cached
<1>9. \A b \in Cached' : \/ b \in Cached
                         \/ b \in fromBlock..toBlock /\ blockMap'[b] = hashAt[b]
    BY <1>3, <1>6, <1>7 DEF Cached
<1>10. Mismatched' = {}
    BY <1>1, <1>m, <1>8, <1>9 DEF Mismatched
<1>11. \A b \in fromBlock..toBlock :
         b > head - ReorgDepth \/ (\E e \in batch : e.block = b) => b \in Cached'
    <2> SUFFICES ASSUME NEW b \in fromBlock..toBlock,
                        b > head - ReorgDepth \/ (\E e \in batch : e.block = b)
                 PROVE  blockMap'[b] # NoHash
        BY <1>6 DEF Cached
    <2>1. b > head - ReorgDepth => b > latestBlock - ReorgDepth
        BY <1>0
    <2> QED BY <1>3, <1>6, <2>1
<1>12. FreshStart'
    BY <1>1 DEF FreshStart, Starting
<1>13. MismatchesFound'
    <2>1. \A b \in Cached' : b >= StartBlock /\ blockMap'[b] <= forks
        <3> SUFFICES ASSUME NEW b \in Cached' PROVE b >= StartBlock /\ blockMap'[b] <= forks
            OBVIOUS
        <3>1. CASE b \in Cached
            BY <1>8, <3>1 DEF MismatchesFound
        <3>2. CASE b \in fromBlock..toBlock /\ blockMap'[b] = hashAt[b]
            BY <1>0, <1>5, <1>6, <3>2
        <3> QED BY <1>9, <3>1, <3>2
    <2> QED BY <1>1, <1>10, <2>1 DEF MismatchesFound, Idle
<1>14. TableMatches'
    BY <1>1, <1>2, <1>m, NoDoubt DEF TableMatches, OnChain, Indexed
<1>15. WindowCached'
    <2>1. \A b \in Cached' : b <= latestBlock
        <3> SUFFICES ASSUME NEW b \in Cached' PROVE b <= latestBlock
            OBVIOUS
        <3>1. CASE b \in Cached
            BY <1>1, <3>1 DEF WindowCached, Starting, Idle
        <3>2. CASE b \in fromBlock..toBlock
            BY <1>0, <3>2
        <3> QED BY <1>9, <3>1, <3>2
    <2>2. \A r \in rows : r.block <= latestBlock
        BY <1>1 DEF WindowCached, Starting, Idle
    <2> QED BY <1>1, <1>2, <1>8, <1>11, <2>1, <2>2 DEF WindowCached
<1>16. BatchMatches'
    <2>1. \A e \in batch : blockMap'[e.block] = hashAt[e.block]
        BY <1>1, <1>7, <1>10, <1>11 DEF Mismatched
    <2> QED BY <1>1, <2>1 DEF BatchMatches, Saving
<1> QED BY <1>12, <1>13, <1>14, <1>15, <1>16

\* A batch that is saved extends what matches the chain to its last block.
LEMMA SaveMatches ==
    ASSUME TypeOK, CountingInv, CycleInv, Reorganized, SaveState
    PROVE  Reorganized' /\ pc' # "sleep"
<1> USE DEF Reorganized, durable, locals, memory, chainVars
<1> DEFINE new == NewRows(batch, latestBlock, blockMap)
<1>0. /\ lastProcessedBlock \in Int /\ fromBlock \in Int /\ toBlock \in Int
      /\ StartBlock \in Nat \ {0}
      /\ latestBlock \in Int /\ head \in Nat /\ ReorgDepth \in Int
      /\ rows \subseteq Row /\ toBlock <= latestBlock /\ latestBlock <= head
      /\ new \subseteq Row
    BY CrawlerAssumption, ChainAssumption, NewRowsType DEF TypeOK, ChainTypeOK, CountingInv
<1>1. /\ pc = "save" /\ UNCHANGED <<chainVars, blockMap, cursor>>
      /\ UNCHANGED <<lastProcessedBlock, lastIsString>>
    BY DEF SaveState
<1>2. Claimed = lastProcessedBlock /\ fromBlock = lastProcessedBlock + 1 /\ fromBlock >= StartBlock
    BY <1>0, <1>1, ClaimedAt DEF Starting, CycleInv, Batching, FreshStart
<1>m. Mismatched = {} /\ Mismatched' = {} /\ Cached' = Cached
    BY <1>1 DEF MismatchesFound, Idle, Mismatched, Cached
<1>f. pc' \in {"cursor", "retry"} => FreshStart' /\ MismatchesFound' /\ BatchMatches'
    BY <1>1, <1>m DEF FreshStart, Starting, MismatchesFound, Idle, BatchMatches, Saving
<1>3. CASE pc' = "retry" /\ ForgetLocals /\ UNCHANGED rows
    <2>1. Claimed' = Claimed
        BY <1>1, <1>2, <1>3 DEF Claimed
    <2> QED BY <1>1, <1>3, <1>f, <2>1, SameIndex DEF WindowCached, Idle
<1>4. ASSUME NEW stored \in {rows \cup new, Upserted(rows, new)},
             rows' = Reconfirmed(stored, latestBlock), pc' = "cursor", UNCHANGED locals
      PROVE  TableMatches' /\ WindowCached'
    <2>0. Claimed' = toBlock
        BY <1>4 DEF Claimed
    <2>1. /\ \A r \in stored : OnChain(r) /\ (r \in rows \/ r.block \in fromBlock..toBlock)
          /\ Triples(stored) = Triples(rows) \cup Abstract!Contents(fromBlock, toBlock)
        BY <1>1, <1>m, NoDoubt, SaveAdds
    <2> HIDE DEF new
    <2>2. stored \subseteq Row
        BY <1>0, <1>4 DEF Upserted
    <2>3. Triples(rows') = Triples(stored)
        BY <1>4, <2>2, ReconfirmedTriples
    <2>4. \A r \in rows' : \E q \in stored : r.tx = q.tx /\ r.block = q.block /\ r.hash = q.hash
        BY <1>4, <2>2, RecountKeeps DEF Reconfirmed
    <2>5. ASSUME NEW r \in rows'
          PROVE  r.block >= StartBlock /\ OnChain(r)' /\ r.block <= latestBlock
        <3>1. PICK q \in stored : r.tx = q.tx /\ r.block = q.block /\ r.hash = q.hash
            BY <2>4
        <3>2. OnChain(q) /\ (q \in rows \/ q.block \in fromBlock..toBlock)
            BY <2>1
        <3>3. OnChain(r)'
            BY <1>1, <3>1, <3>2 DEF OnChain
        <3>4. CASE q \in rows
            BY <1>1, <3>1, <3>3, <3>4 DEF TableMatches, WindowCached, Starting, Idle
        <3>5. CASE q.block \in fromBlock..toBlock
            BY <1>0, <1>2, <3>1, <3>3, <3>5
        <3> QED BY <3>2, <3>4, <3>5
    <2>6. ASSUME NEW t \in Emitting, home[t] \in StartBlock..toBlock
          PROVE  \E r \in rows' : r.tx = t /\ r.block = home[t]
        <3>1. CASE home[t] <= lastProcessedBlock
            <4>1. PICK r \in rows : r.tx = t /\ r.block = home[t]
                BY <1>0, <1>2, <1>m, <2>6, <3>1, NoDoubt DEF Indexed
            <4>2. <<r.tx, r.block, r.hash>> \in Triples(rows')
                BY <2>1, <2>3 DEF Triples
            <4> QED BY <4>1, <4>2 DEF Triples
        <3>2. CASE home[t] > lastProcessedBlock
            <4>1. home[t] \in Heights \cap (fromBlock..toBlock)
                BY <1>0, <1>2, <2>6, <3>2, ChainAssumption DEF Heights, TypeOK, ChainTypeOK
            <4>2. Abstract!Contents(fromBlock, toBlock) \subseteq Triples(rows')
                BY <2>1, <2>3
            <4> QED BY <4>1, <4>2, ContentsIndexed
        <3> QED BY <1>0, <2>6, <3>1, <3>2
    <2>7. TableMatches'
        BY <1>1, <2>0, <2>5, <2>6 DEF TableMatches, Indexed
    <2>8. WindowCached'
        <3>1. ASSUME NEW b \in StartBlock..toBlock, b > head - ReorgDepth PROVE b \in Cached
            <4>1. b \in StartBlock..lastProcessedBlock \/ b \in fromBlock..toBlock
                BY <1>0, <1>2
            <4> QED BY <1>1, <1>2, <3>1, <4>1 DEF WindowCached
        <3>2. \A b \in Cached : b <= latestBlock
            BY <1>1 DEF WindowCached, Starting, Idle
        <3> QED BY <1>1, <1>m, <1>4, <2>0, <2>5, <3>1, <3>2 DEF WindowCached
    <2> QED BY <2>7, <2>8
<1> HIDE DEF new
<1> QED BY <1>3, <1>4, <1>f DEF SaveState, new

LEMMA StepMatchInv ==
    ASSUME ReorgsAreSeen, EventFilter = "anyOf",
           TypeOK, CountingInv, CycleInv, Reorganized, [Next]_vars
    PROVE  Reorganized' /\ (CycleCompletes => Mismatched' = {})
<1> USE DEF Reorganized, durable, locals, memory, budgets
<1>0. /\ lastProcessedBlock \in Int /\ fromBlock \in Int /\ toBlock \in Int /\ deepestReorg \in Int
      /\ StartBlock \in Nat \ {0} /\ latestBlock \in Int /\ head \in Nat /\ ReorgDepth \in Int
      /\ rows \subseteq Row /\ Lag = 0 /\ lastIsString = FALSE
    BY CrawlerAssumption, ChainAssumption DEF TypeOK, ChainTypeOK, ReorgsAreSeen, FreshStart
\* The process comes up with an empty table and nothing cached.
<1>e. ASSUME UNCHANGED <<chainVars, rows, blockMap, lastIsString>>, pc \in Starting,
             pc' \in Starting => cursor' = NoCursor,
             pc' \in Starting \/ (pc' = "start" /\ lastProcessedBlock' = StartBlock - 1)
      PROVE  Reorganized' /\ pc' # "sleep"
    <2>1. rows' = {} /\ Cached' = {} /\ Mismatched' = {}
        BY <1>e DEF FreshStart, Cached, Mismatched
    <2>2. StartBlock..Claimed' = {}
        <3>1. Claimed' = StartBlock - 1
            BY <1>e DEF Claimed, Starting
        <3> QED BY <1>0, <3>1
    <2>3. FreshStart'
        BY <1>0, <1>e, <2>1 DEF FreshStart, Starting
    <2>4. MismatchesFound'
        BY <1>e, <2>1 DEF MismatchesFound, chainVars, Idle, Starting
    <2>5. TableMatches'
        BY <1>e, <2>1, <2>2 DEF TableMatches
    <2>6. WindowCached'
        BY <1>e, <2>1, <2>2 DEF WindowCached, Starting
    <2>7. BatchMatches'
        BY <1>e DEF BatchMatches, Saving, Starting
    <2> QED BY <1>e, <2>3, <2>4, <2>5, <2>6, <2>7 DEF Starting
<1>1. CASE Start
    BY <1>1, <1>e DEF Start, FreshStart, Starting, CycleCompletes
<1>2. CASE LoadCursor
    BY <1>2, <1>e DEF LoadCursor, FreshStart, Starting, CycleCompletes
<1>3. CASE LoadFromDb
    <2>1. rows = {} /\ pc \in Starting
        BY <1>3 DEF LoadFromDb, FreshStart, Starting
    <2>2. lastProcessedBlock' = StartBlock - 1 /\ lastIsString' = lastIsString
        BY <1>0, <1>3, <2>1 DEF LoadFromDb, ResumesAt
    <2> QED BY <1>3, <1>e, <2>1, <2>2 DEF LoadFromDb, CycleCompletes, Starting
<1>4. CASE GetLatestBlock
    <2>1. /\ pc \in Idle /\ pc' = "check" /\ deepestReorg' = 0 /\ probe' = lastProcessedBlock
          /\ UNCHANGED <<chainVars, durable, lastProcessedBlock, lastIsString, blockMap>>
          /\ latestBlock' \in NodeHeads
        BY <1>4 DEF GetLatestBlock
    <2>2. latestBlock' = head
        BY <1>0, <2>1 DEF NodeHeads
    <2>3. Claimed' = Claimed
        BY <2>1, ClaimedAt DEF Claimed, Idle, Starting
    <2>4. FreshStart' /\ TableMatches' /\ BatchMatches'
        BY <2>1, <2>3, SameIndex DEF FreshStart, Starting, Idle, BatchMatches, Saving
    <2>5. MismatchesFound'
        BY <2>1, <2>3, SameIndex DEF MismatchesFound, chainVars, Idle
    <2>6. WindowCached'
        BY <2>1, <2>2, <2>3, SameIndex DEF WindowCached, CountingInv
    <2> QED BY <2>1, <2>4, <2>5, <2>6 DEF CycleCompletes
<1>5. CASE CheckForReorg
    <2>0. /\ pc = "check"
          /\ UNCHANGED <<chainVars, rows, blockMap, lastProcessedBlock, lastIsString, cursor>>
        BY <1>5 DEF CheckForReorg
    <2>1. ASSUME NEW b \in ToCompare, \A c \in ToCompare : c <= b, b \in Mismatched,
                 deepestReorg' = b, probe' = b - 1,
                 UNCHANGED <<pc, latestBlock, fromBlock, toBlock, batch>>
          PROVE  Reorganized' /\ ~ CycleCompletes
        <3>1. Claimed' = Claimed
            BY <2>0, <2>1, ClaimedAt DEF Claimed, Starting
        <3>2. b # 0
            BY <1>0, <2>1 DEF ToCompare
        <3>3. FreshStart' /\ TableMatches' /\ BatchMatches'
            BY <2>0, <2>1, <3>1, SameIndex DEF FreshStart, Starting, BatchMatches, Saving
        <3>4. MismatchesFound'
            BY <2>0, <2>1, <3>1, <3>2, SameIndex DEF MismatchesFound, chainVars, Idle
        <3>5. WindowCached'
            BY <2>0, <2>1, <3>1, SameIndex DEF WindowCached, Starting, Idle
        <3> QED BY <2>0, <2>1, <3>3, <3>4, <3>5 DEF CycleCompletes
    <2>2. ASSUME ReorgCheckEnds(deepestReorg), \A c \in Mismatched : c > probe
          PROVE  Reorganized' /\ (CycleCompletes => Mismatched' = {})
        BY <2>0, <2>2, CheckMatches DEF CycleCompletes
    <2>3. CASE ToCompare = {} /\ ReorgCheckEnds(deepestReorg)
        BY <2>2, <2>3, SearchEnds
    <2>4. CASE \E b \in ToCompare, n \in NodeHeads :
                 /\ \A c \in ToCompare : c <= b
                 /\ IF HashOf(b, n) # blockMap[b]
                      THEN /\ deepestReorg' = b /\ probe' = b - 1
                           /\ UNCHANGED <<pc, latestBlock, fromBlock, toBlock, batch>>
                      ELSE ReorgCheckEnds(deepestReorg)
        <3>1. PICK b \in ToCompare, n \in NodeHeads :
                 /\ \A c \in ToCompare : c <= b
                 /\ IF HashOf(b, n) # blockMap[b]
                      THEN /\ deepestReorg' = b /\ probe' = b - 1
                           /\ UNCHANGED <<pc, latestBlock, fromBlock, toBlock, batch>>
                      ELSE ReorgCheckEnds(deepestReorg)
            BY <2>4
        <3>2. HashOf(b, n) # blockMap[b] <=> b \in Mismatched
            BY <1>0, Compared DEF ToCompare
        <3>3. CASE b \in Mismatched
            BY <2>1, <3>1, <3>2, <3>3
        <3>4. CASE b \notin Mismatched
            <4>1. \A c \in Mismatched : c > probe
                BY <3>1, <3>4, SearchEnds
            <4> QED BY <2>2, <3>1, <3>2, <3>4, <4>1
        <3> QED BY <3>3, <3>4
    <2>5. ~ Fault("check")
        BY DEF Fault, ReorgsAreSeen
    <2> QED BY <1>5, <2>3, <2>4, <2>5 DEF CheckForReorg
<1>6. CASE RollbackDelete
    BY <1>6, RollbackMatches DEF RollbackDelete, CycleCompletes
<1>7. CASE RollbackCursor
    <2>1. /\ pc = "rollbackCursor" /\ Continue(deepestReorg, latestBlock)
          /\ UNCHANGED <<chainVars, rows, lastIsString, blockMap>>
          /\ lastProcessedBlock' = deepestReorg - 1
        BY <1>7 DEF RollbackCursor
    <2>2. Mismatched = {} /\ deepestReorg >= StartBlock /\ Claimed = deepestReorg - 1
        BY <1>0, <2>1, ClaimedAt DEF MismatchesFound, Idle, CycleInv
    <2> QED BY <1>0, <2>1, <2>2, ContinueMatches DEF Starting, Idle
<1>8. CASE FetchEvents
    <2>1. /\ pc = "fetch" /\ pc' = "blocks"
          /\ UNCHANGED <<chainVars, durable, lastProcessedBlock, lastIsString, blockMap>>
          /\ UNCHANGED <<latestBlock, fromBlock, toBlock, probe, deepestReorg>>
        BY <1>0, <1>8 DEF FetchEvents
    <2>2. batch' = LogsIn(fromBlock, toBlock, head)
        BY <1>0, <1>8 DEF FetchEvents, NodeHeads
    <2>3. Claimed' = Claimed
        BY <2>1, ClaimedAt DEF Claimed, Starting
    <2>4. FreshStart' /\ TableMatches'
        BY <2>1, <2>3, SameIndex DEF FreshStart, Starting
    <2>5. MismatchesFound'
        BY <2>1, <2>3, SameIndex DEF MismatchesFound, chainVars, Idle
    <2>6. WindowCached'
        BY <2>1, <2>3, SameIndex DEF WindowCached, Starting, Idle
    <2>7. BatchMatches'
        <3>1. \A e \in batch' : e.tx \in Emitting /\ e.block = home[e.tx]
            BY <2>2 DEF LogsIn, Selected, Emitting
        <3>2. ASSUME NEW t \in Emitting, home[t] \in Heights \cap (fromBlock..toBlock)
              PROVE  \E e \in batch' : e.tx = t
            <4>1. PICK l \in TxLogs : l[1] = t
                BY DEF Emitting
            <4>2. home[t] <= head
                BY ChainAssumption DEF Emitting, TypeOK, ChainTypeOK
            <4>3. home[t] \in fromBlock..toBlock /\ home[t] \in 1..head
                BY <1>0, <3>2, <4>2, ChainAssumption DEF Heights
            <4>4. [tx |-> l[1], log |-> l[2], block |-> home[l[1]]] \in batch'
                BY <2>2, <4>1, <4>3 DEF LogsIn, Selected
            <4> QED BY <4>1, <4>4
        <3> QED BY <2>1, <3>1, <3>2 DEF BatchMatches, chainVars
    <2> QED BY <2>1, <2>4, <2>5, <2>6, <2>7 DEF CycleCompletes
<1>9. CASE SaveBlockMap
    BY <1>0, <1>9, BlocksMatch DEF SaveBlockMap, CycleCompletes
<1>10. CASE SaveState
    BY <1>10, SaveMatches DEF CycleCompletes
<1>11. CASE UpdateCursor
    <2>1. /\ pc = "cursor" /\ Continue(toBlock + 1, latestBlock)
          /\ UNCHANGED <<chainVars, rows, lastIsString>> /\ lastProcessedBlock' = toBlock
        BY <1>11 DEF UpdateCursor
    <2>2. Mismatched = {} /\ Claimed = toBlock /\ toBlock + 1 >= StartBlock
        BY <1>0, <2>1, ClaimedAt
        DEF MismatchesFound, Idle, CycleInv, Batching, FreshStart, Starting
    <2>3. \A b \in Heights : \/ blockMap'[b] = blockMap[b]
                             \/ blockMap'[b] = NoHash /\ b <= head - ReorgDepth
        <3> SUFFICES ASSUME NEW b \in Heights, ~ (b > latestBlock - ReorgDepth)
                     PROVE  b <= head - ReorgDepth
            BY <1>11 DEF UpdateCursor
        <3> QED BY <1>0, ChainAssumption DEF Heights, CountingInv
    <2> QED BY <1>0, <2>1, <2>2, <2>3, ContinueMatches DEF Starting, Idle
<1>12. CASE LoadFails
    BY <1>12, <1>e DEF LoadFails, Fault, FreshStart, Starting, CycleCompletes
<1>13. CASE CallFails
    <2>1. /\ pc \in Idle \cup {"rollback", "fetch", "blocks", "save", "cursor"}
          /\ pc' = "retry" /\ UNCHANGED <<chainVars, durable, lastProcessedBlock, lastIsString, blockMap>>
        BY <1>13 DEF CallFails, Fault, ReorgsAreSeen
    <2>2. Claimed' = lastProcessedBlock
        BY <2>1 DEF Claimed
    <2>3. Claimed' = Claimed \/ (Claimed \in Int /\ Claimed' \in Int /\ Claimed' <= Claimed)
        BY <1>0, <2>1, <2>2, ClaimedAt DEF Idle, Starting, CycleInv, Batching
    <2>4. FreshStart' /\ TableMatches' /\ BatchMatches'
        BY <2>1, <2>3, SameIndex DEF FreshStart, Starting, Idle, BatchMatches, Saving
    <2>5. MismatchesFound'
        BY <2>1, <2>3, SameIndex DEF MismatchesFound, chainVars, Idle
    <2>6. WindowCached'
        BY <2>1, <2>3, SameIndex DEF WindowCached, Idle
    <2> QED BY <2>1, <2>4, <2>5, <2>6 DEF CycleCompletes
<1>14. CASE Crash
    BY <1>14 DEF Crash, ReorgsAreSeen, TypeOK
<1>15. CASE LoseCursor
    <2>1. pc \notin Starting /\ UNCHANGED <<chainVars, rows, memory>>
        BY <1>15 DEF LoseCursor, FreshStart
    <2>2. Claimed' = Claimed
        BY <2>1 DEF Claimed
    <2>3. FreshStart' /\ TableMatches' /\ BatchMatches'
        BY <2>1, <2>2, SameIndex DEF FreshStart, BatchMatches, chainVars
    <2>4. MismatchesFound'
        BY <2>1, <2>2, SameIndex DEF MismatchesFound, chainVars
    <2>5. WindowCached'
        BY <2>1, <2>2, SameIndex DEF WindowCached, chainVars
    <2> QED BY <2>1, <2>3, <2>4, <2>5 DEF CycleCompletes
<1>16. CASE ChainMoves
    <2>1. CASE Mine
        BY <1>16, <2>1, MineMatches DEF ChainMoves, CycleCompletes
    <2>2. CASE pc \in ReorgWhile /\ \E h \in Heights : Reorg(h)
        <3>1. pc \in Starting \cup {"start", "sleep"} /\ MaxReorgDepth <= ReorgDepth
            BY <2>2 DEF ReorgsAreSeen
        <3> QED BY <1>16, <2>2, <3>1, ReorgMatches DEF ChainMoves, CycleCompletes
    <2> QED BY <1>16, <2>1, <2>2 DEF ChainMoves
<1>17. CASE UNCHANGED vars
    <2>1. Claimed' = Claimed /\ UNCHANGED <<chainVars, rows, blockMap>>
        BY <1>17 DEF vars, Claimed
    <2>2. FreshStart' /\ TableMatches' /\ BatchMatches'
        BY <1>17, <2>1, SameIndex DEF vars, FreshStart, BatchMatches, chainVars
    <2>3. MismatchesFound'
        BY <1>17, <2>1, SameIndex DEF vars, MismatchesFound, chainVars
    <2>4. WindowCached'
        BY <1>17, <2>1, SameIndex DEF vars, WindowCached, chainVars
    <2> QED BY <1>17, <2>2, <2>3, <2>4 DEF vars, CycleCompletes
<1> QED
    BY <1>1, <1>2, <1>3, <1>4, <1>5, <1>6, <1>7, <1>8, <1>9, <1>10, <1>11,
       <1>12, <1>13, <1>14, <1>15, <1>16, <1>17
    DEF Next, Crawl

\* Everything that carries the index through reorganizations.
FollowInv == TypeOK /\ CountingInv /\ CycleInv /\ MatchInv

LEMMA InitFollowInv == Init => FollowInv
BY InitTypeOK, InitCountingInv, InitCycleInv, InitMatchInv DEF FollowInv

LEMMA StepFollowInv ==
    ASSUME EventFilter = "anyOf", FollowInv, [Next]_vars
    PROVE  FollowInv'
<1>1. MatchInv'
    <2> SUFFICES ASSUME ReorgsAreSeen PROVE Reorganized'
        BY DEF MatchInv, Reorganized
    <2> QED BY StepMatchInv DEF FollowInv, MatchInv, Reorganized
<1> QED BY <1>1, StepTypeOK, StepCountingInv, StepCycleInv DEF FollowInv

\* Where the crawler sees every reorganization, and its filter selects both events,
\* what is stored or claimed below the first cached block that no longer matches is
\* as on the chain: for every chain, batch size and window, every number of
\* reorganizations and of other faults.
THEOREM MatchInvHolds ==
    ASSUME EventFilter = "anyOf"
    PROVE  Spec => []MatchInv
<1>1. FollowInv => MatchInv
    BY DEF FollowInv
<1> QED BY <1>1, InitFollowInv, StepFollowInv, PTL DEF Spec

\* Where the crawler sees every reorganization, and its filter selects both events,
\* a cycle that completes leaves no row of an abandoned block and no transaction
\* missing.
THEOREM CyclesFollowTheChain ==
    ASSUME ReorgsAreSeen, EventFilter = "anyOf"
    PROVE  Spec => CycleLeavesMatch
<1> DEFINE Step == CycleCompletes => NoOrphans' /\ NoGapUpTo(lastProcessedBlock)'
<1>1. FollowInv /\ [Next]_vars => FollowInv' /\ [Step]_vars
    <2> SUFFICES ASSUME FollowInv, [Next]_vars PROVE FollowInv' /\ Step
        OBVIOUS
    <2>1. Reorganized' /\ (CycleCompletes => Mismatched' = {})
        BY StepMatchInv DEF FollowInv, MatchInv, Reorganized
    <2>2. ASSUME CycleCompletes PROVE NoOrphans' /\ NoGapUpTo(lastProcessedBlock)'
        <3>1. Mismatched' = {} /\ TableMatches' /\ pc' = "sleep"
            BY <2>1, <2>2 DEF Reorganized, CycleCompletes
        <3>2. Claimed' = lastProcessedBlock'
            BY <3>1 DEF Claimed
        <3>3. \A b : ~ Doubtful(b)'
            BY <3>1 DEF Doubtful
        <3>4. \A r \in rows' : OnChain(r)'
            BY <3>1, <3>3 DEF TableMatches
        <3>5. \A t \in Emitting : home'[t] \in StartBlock..lastProcessedBlock' => Indexed(t)'
            BY <3>1, <3>2 DEF TableMatches, Doubtful
        <3> QED BY <3>4, <3>5 DEF NoOrphans, OnChain, NoGapUpTo
    <2> QED BY <2>2, StepFollowInv
<1> QED BY <1>1, InitFollowInv, PTL DEF Spec, CycleLeavesMatch

LEMMA StepFollows ==
    ASSUME ReorgsAreSeen, TypeOK, CountingInv, CycleInv, Reorganized, [Next]_vars
    PROVE  [Abstract!IndexNext]_(Abstract!indexVars)
<1> USE DEF Reorganized, durable, locals, memory, budgets
<1>0. /\ lastProcessedBlock \in Int /\ fromBlock \in Int /\ toBlock \in Int /\ deepestReorg \in Int
      /\ StartBlock \in Nat \ {0} /\ latestBlock \in Int /\ head \in Nat /\ ReorgDepth \in Int
      /\ head <= MaxHeight /\ MaxHeight \in Nat
      /\ rows \subseteq Row /\ Lag = 0 /\ lastIsString = FALSE
    BY CrawlerAssumption, ChainAssumption DEF TypeOK, ChainTypeOK, ReorgsAreSeen, FreshStart
<1>s. /\ pc \in Starting => Claimed = StartBlock - 1
      /\ pc' \in Starting => Claimed' = StartBlock - 1
      /\ pc' \notin Starting \cup {"cursor", "rollbackCursor"} => Claimed' = lastProcessedBlock'
    BY DEF Claimed, Starting
<1>1. CASE Start \/ LoadCursor
    <2>1. pc \in Starting /\ pc' \in Starting
        BY <1>1 DEF Start, LoadCursor, FreshStart, Starting
    <2> QED BY <1>1, <1>s, <2>1, ClaimStays DEF Start, LoadCursor
<1>2. CASE LoadFromDb \/ LoadFails
    <2>1. pc \in Starting /\ pc' = "start" /\ rows = {}
        BY <1>2 DEF LoadFromDb, LoadFails, Fault, FreshStart, Starting
    <2>2. Claimed' = StartBlock - 1
        BY <1>2, <1>s, <2>1 DEF LoadFromDb, LoadFails, ResumesAt, Starting
    <2> QED BY <1>2, <1>s, <2>1, <2>2, ClaimStays DEF LoadFromDb, LoadFails
<1>3. CASE GetLatestBlock \/ FetchEvents \/ SaveBlockMap
    <2>1. /\ pc \notin Starting \cup {"cursor", "rollbackCursor"}
          /\ pc' \notin Starting \cup {"cursor", "rollbackCursor"}
          /\ lastProcessedBlock' = lastProcessedBlock
        BY <1>0, <1>3 DEF GetLatestBlock, FetchEvents, SaveBlockMap, Idle, Starting
    <2> QED BY <1>3, <1>s, <2>1, ClaimedAt, ClaimStays DEF GetLatestBlock, FetchEvents, SaveBlockMap
<1>4. CASE CheckForReorg
    <2>1. /\ pc = "check" /\ pc' \in {"check", "rollback", "fetch", "sleep"}
          /\ UNCHANGED <<chainVars, rows, lastProcessedBlock>>
        BY <1>4 DEF CheckForReorg, ReorgCheckEnds, Continue
    <2> QED BY <1>s, <2>1, ClaimedAt, ClaimStays DEF Starting
<1>5. CASE RollbackDelete
    <2>1. /\ pc = "rollback" /\ pc' = "rollbackCursor" /\ deepestReorg' = deepestReorg
          /\ rows' = {r \in rows : r.block < deepestReorg} /\ UNCHANGED chainVars
        BY <1>5 DEF RollbackDelete, RolledBack
    <2>2. Claimed = lastProcessedBlock /\ Claimed' = deepestReorg - 1
        BY <2>1, ClaimedAt DEF Claimed, Starting
    <2>3. /\ deepestReorg \in Mismatched /\ deepestReorg \in StartBlock..lastProcessedBlock
          /\ deepestReorg > lastProcessedBlock - ReorgDepth
        BY <2>1 DEF CycleInv, MismatchesFound
    <2>4. forks > 0 /\ deepestReorg \in Heights
        BY <2>3 DEF Mismatched, Cached, MismatchesFound, TypeOK, ChainTypeOK, Hashes, NoHash
    <2>5. StoredTxs' = {s \in StoredTxs : s[2] < deepestReorg}
        BY <2>1 DEF StoredTxs
    <2>6. Abstract!Retreat(deepestReorg)
        BY <2>1, <2>2, <2>3, <2>4, <2>5 DEF Abstract!Retreat, Abstract!chainVars, chainVars
    <2> QED BY <2>4, <2>6 DEF Abstract!IndexNext, Abstract!Heights, Heights
<1>6. CASE RollbackCursor \/ UpdateCursor
    <2>1. pc' \in {"fetch", "sleep"} /\ UNCHANGED <<chainVars, rows>>
        BY <1>6 DEF RollbackCursor, UpdateCursor, Continue
    <2>2. Claimed' = Claimed
        BY <1>6, <1>s, <2>1, ClaimedAt DEF RollbackCursor, UpdateCursor, Starting
    <2> QED BY <2>1, <2>2, ClaimStays
<1>7. CASE SaveState
    <2> DEFINE new == NewRows(batch, latestBlock, blockMap)
    <2>0. /\ pc = "save" /\ fromBlock = lastProcessedBlock + 1 /\ fromBlock <= toBlock
          /\ lastProcessedBlock >= StartBlock - 1 /\ UNCHANGED <<chainVars, lastProcessedBlock>>
        BY <1>7 DEF SaveState, CycleInv, Batching, FreshStart, Starting
    <2>1. ASSUME NEW stored \in {rows \cup new, Upserted(rows, new)},
                 rows' = Reconfirmed(stored, latestBlock), pc' = "cursor", UNCHANGED locals
          PROVE  [Abstract!IndexNext]_(Abstract!indexVars)
        <3>1. stored \subseteq Row
            <4>1. new \subseteq Row
                BY NewRowsType DEF TypeOK
            <4> QED BY <1>0, <4>1 DEF Upserted
        <3>2. Triples(stored) = Triples(rows) \cup Abstract!Contents(fromBlock, toBlock)
            BY <2>0, NoDoubt, SaveAdds DEF MismatchesFound, Idle
        <3>3. StoredTxs' = Triples(stored)
            <4>1. StoredTxs' = Triples(Reconfirmed(stored, latestBlock))
                BY <2>1 DEF StoredTxs, Triples
            <4> QED BY <3>1, <4>1, ReconfirmedTriples
        <3>4. Claimed = lastProcessedBlock /\ Claimed' = toBlock
            BY <2>0, <2>1 DEF Claimed
        <3>5. StoredTxs' = StoredTxs \cup Abstract!Contents(Claimed + 1, Claimed')
            BY <2>0, <3>2, <3>3, <3>4 DEF StoredTxs, Triples
        <3>6. Claimed' > Claimed /\ Claimed' <= head /\ Claimed' \in Abstract!Heights \cup {0}
            BY <1>0, <2>0, <3>4 DEF CountingInv, Abstract!Heights
        <3>7. Abstract!Advance(Claimed')
            BY <2>0, <3>5, <3>6 DEF Abstract!Advance, Abstract!chainVars, chainVars
        <3> QED BY <3>6, <3>7 DEF Abstract!IndexNext
    <2>2. CASE pc' = "retry" /\ UNCHANGED rows
        BY <1>s, <2>0, <2>2, ClaimedAt, ClaimStays DEF Starting
    <2> HIDE DEF new
    <2> QED BY <1>7, <2>1, <2>2 DEF SaveState, new
<1>8. CASE CallFails
    <2>1. /\ pc \in Idle \cup {"rollback", "fetch", "blocks", "save", "cursor"}
          /\ pc' = "retry" /\ UNCHANGED <<chainVars, rows, lastProcessedBlock>>
        BY <1>8 DEF CallFails, Fault, ReorgsAreSeen
    <2>2. Claimed' = lastProcessedBlock /\ lastProcessedBlock >= StartBlock - 1
        BY <1>s, <2>1 DEF Starting, Idle, FreshStart
    <2>3. Claimed \in Int /\ lastProcessedBlock <= Claimed /\ WithinChain(Claimed)
        BY <1>0, <2>1, ClaimedAt
        DEF Idle, Starting, CycleInv, Batching, CountingInv, WithinChain
    <2> QED BY <1>0, <2>1, <2>2, <2>3, ClaimForgotten
<1>9. CASE Crash
    BY <1>9 DEF Crash, ReorgsAreSeen, TypeOK
<1>10. CASE LoseCursor
    <2>1. Claimed' = Claimed
        BY <1>10 DEF LoseCursor, Claimed
    <2> QED BY <1>10, <2>1, ClaimStays DEF LoseCursor
<1>11. CASE ChainMoves
    <2>1. Claimed' = Claimed /\ StoredTxs' = StoredTxs
        BY <1>11 DEF ChainMoves, Claimed, StoredTxs
    <2>2. Mine \/ \E h \in Heights : Reorg(h)
        BY <1>11 DEF ChainMoves
    <2> QED BY <2>1, <2>2
        DEF Mine, Reorg, Heights, Abstract!Mine, Abstract!Reorg, Abstract!Heights,
            Abstract!ChainStep, Abstract!IndexNext
<1>12. CASE UNCHANGED vars
    <2>1. Claimed' = Claimed
        BY <1>12 DEF vars, Claimed
    <2> QED BY <1>12, <2>1, ClaimStays DEF vars
<1> QED
    BY <1>1, <1>2, <1>3, <1>4, <1>5, <1>6, <1>7, <1>8, <1>9, <1>10, <1>11, <1>12
    DEF Next, Crawl

\* Where the crawler sees every reorganization, and its filter selects both events,
\* it implements Index: besides adding
\* what its batches hold, it gives up blocks only after a reorganization, no more
\* than the window holds, and exactly the rows of these blocks with them.
THEOREM CrawlerFollowsIndex ==
    ASSUME ReorgsAreSeen, EventFilter = "anyOf"
    PROVE  Spec => ImplementsIndex
<1>1. FollowInv /\ [Next]_vars => FollowInv' /\ [Abstract!IndexNext]_(Abstract!indexVars)
    <2> SUFFICES ASSUME FollowInv, [Next]_vars
                 PROVE  FollowInv' /\ [Abstract!IndexNext]_(Abstract!indexVars)
        OBVIOUS
    <2>1. TypeOK /\ CountingInv /\ CycleInv /\ Reorganized
        BY DEF FollowInv, MatchInv, Reorganized
    <2> QED BY <2>1, StepFollowInv, StepFollows
<1> QED BY <1>1, InitFollowInv, InitRefines, PTL DEF Spec, ImplementsIndex, Abstract!IndexSpec

=============================================================================
