--------------------------- MODULE Indexer_proofs ---------------------------
(***************************************************************************)
(* The composition of both crawlers keeps what the crawler alone keeps:    *)
(* a step of the crawler by the lemmas of EvmCrawler_proofs, a step of a   *)
(* request because of RequestInv.                                          *)
(***************************************************************************)
EXTENDS Indexer, EvmCrawler_proofs

Typed == TypeOK /\ RequestTypeOK

\* An entity of the fallback crawler is a row, and counts its confirmations
\* from its own block.
LEMMA EntityType ==
    ASSUME Typed, IndexerInv, NEW r \in Requests, request[r].at = "save",
           NEW log \in request[r].logs
    PROVE  /\ Fallback!Entity(r, log) \in Row
           /\ Fallback!Entity(r, log).block <= head
           /\ Fallback!Entity(r, log).confirmations
                <= head - Fallback!Entity(r, log).block + BatchSize
<1> DEFINE q == request[r]
           e == Fallback!Entity(r, log)
<1>1. q \in Fallback!Request
    BY DEF Typed, RequestTypeOK
<1>2. /\ q.tx \in Txs /\ q.logs \in SUBSET (0..MaxLog) /\ q.block \in 0..MaxHeight
      /\ q.hash \in Hashes \cup {NoHash} /\ q.latest \in 0..MaxHeight
    BY <1>1 DEF Fallback!Request, Fallback!Hashes, Fallback!NoHash, Hashes, NoHash
<1>3. /\ q.block <= head /\ q.latest <= head /\ q.block # 0
    BY DEF IndexerInv, RequestInv
<1>4. /\ MaxHeight \in Nat /\ head \in 0..MaxHeight /\ BatchSize \in Nat \ {0}
      /\ MaxLog \in Nat
    BY ChainAssumption, CrawlerAssumption DEF Typed, TypeOK, ChainTypeOK
<1> DEFINE c == q.latest - q.block + 1
<1>5. e = [tx |-> q.tx, log |-> log, block |-> q.block, hash |-> q.hash,
           confirmations |-> c, status |-> Fallback!StatusFor(c)]
    BY DEF Fallback!Entity
<1>6. Fallback!StatusFor(c) \in Statuses
    BY DEF Fallback!StatusFor, Statuses
<1>7. c \in Int /\ q.block \in Heights /\ log \in 0..MaxLog
    BY <1>2, <1>3, <1>4 DEF Heights
<1>8. e \in Row
    BY <1>2, <1>5, <1>6, <1>7 DEF Row
<1>9. e.block = q.block /\ e.confirmations = c
    BY <1>5
<1>10. c <= head - q.block + BatchSize
    BY <1>2, <1>3, <1>4
<1> QED BY <1>3, <1>8, <1>9, <1>10

LEMMA InitIndexerInv == IndexerInit => Typed /\ IndexerInv
<1> SUFFICES ASSUME IndexerInit PROVE Typed /\ IndexerInv
    OBVIOUS
<1>1. TypeOK /\ CountingInv
    BY InitTypeOK, InitCountingInv DEF IndexerInit
<1>2. PICK t \in Txs : request = [r \in Requests |-> Fallback!Blank("idle", t)]
    BY TxsAssumption DEF IndexerInit, Fallback!FallbackInit
<1> DEFINE blank == Fallback!Blank("idle", t)
<1>3. /\ blank \in Fallback!Request
      /\ blank.block = 0 /\ blank.latest = 0 /\ blank.at = "idle"
    BY ChainAssumption DEF Fallback!Blank, Fallback!Request, Fallback!Steps,
       Fallback!NoHash
<1> HIDE DEF blank
<1>4. request = [r \in Requests |-> blank]
    BY <1>2 DEF blank
<1>5. RequestTypeOK
    <2>1. request \in [Requests -> Fallback!Request]
        BY <1>3, <1>4
    <2>2. requestFaults \in 0..MaxRequestFaults
        <3>1. requestFaults = 0
            BY DEF IndexerInit, Fallback!FallbackInit
        <3>2. MaxRequestFaults \in Nat
            BY IndexerAssumption
        <3> QED BY <3>1, <3>2
    <2> QED BY <2>1, <2>2 DEF RequestTypeOK
<1>6. RequestInv
    <2>1. head = 0
        BY DEF IndexerInit, Init, ChainInit
    <2> QED BY <1>3, <1>4, <2>1 DEF RequestInv
<1> QED BY <1>1, <1>5, <1>6 DEF Typed, IndexerInv

\* The chain never becomes shorter.
LEMMA HeadGrows ==
    ASSUME TypeOK, [Next]_vars
    PROVE  head' >= head
<1>1. head \in Int
    BY ChainAssumption DEF TypeOK, ChainTypeOK
<1>2. CASE ChainMoves
    BY <1>1, <1>2 DEF ChainMoves, Mine, Reorg
<1>3. CASE UNCHANGED chainVars
    BY <1>1, <1>3 DEF chainVars
<1>4. ASSUME [Next]_vars, ~ ChainMoves
      PROVE  UNCHANGED chainVars
    BY <1>4 DEF Next, vars, Crawl, Start, LoadCursor, LoadFromDb, GetLatestBlock,
       CheckForReorg, RollbackDelete, RollbackCursor, FetchEvents, SaveBlockMap,
       SaveState, UpdateCursor, LoadFails, CallFails, Crash, LoseCursor
<1> QED BY <1>2, <1>3, <1>4

\* A request only ever adds entities to the table.
LEMMA RowsGrow ==
    ASSUME Typed, IndexerInv, UNCHANGED <<chainVars, cursor, memory, budgets>>,
           \/ rows' = rows
           \/ \E r \in Requests : \E log \in request[r].logs :
                request[r].at = "save" /\ rows' = rows \cup {Fallback!Entity(r, log)}
    PROVE  TypeOK' /\ CountingInv'
<1> USE DEF chainVars, locals, memory, budgets
<1>1. TypeOK /\ CountingInv
    BY DEF Typed, IndexerInv
<1>2. \A e \in rows' \ rows :
        e \in Row /\ e.block <= head /\ e.confirmations <= head - e.block + BatchSize
    BY EntityType
<1>3. TypeOK'
    <2>1. rows' \subseteq Row
        BY <1>1, <1>2 DEF TypeOK
    <2> QED BY <1>1, <2>1 DEF TypeOK, ChainTypeOK
<1>4. \A r \in rows' : r.block <= head' /\ r.confirmations <= head' - r.block + BatchSize
    BY <1>1, <1>2 DEF CountingInv, OvercountBounded
<1>5. CountingInv'
    BY <1>1, <1>4 DEF CountingInv, OvercountBounded, CursorWithinChain, WithinChain, Cached
<1> QED BY <1>3, <1>5

\* A node's head is a height up to the head of the chain.
LEMMA NodeHeadsBound ==
    ASSUME TypeOK, NEW n \in Fallback!NodeHeads
    PROVE  n \in 0..MaxHeight /\ n <= head
BY ChainAssumption DEF TypeOK, ChainTypeOK, Fallback!NodeHeads

LEMMA RequestStepInv ==
    ASSUME Typed, IndexerInv, UNCHANGED chainVars,
           \/ Fallback!CheckMissing
           \/ \E r \in Requests, t \in Txs : Fallback!Ask(r, t)
    PROVE  /\ RequestTypeOK' /\ RequestInv'
           /\ \/ rows' = rows
              \/ \E r \in Requests : \E log \in request[r].logs :
                   request[r].at = "save" /\ rows' = rows \cup {Fallback!Entity(r, log)}
<1> DEFINE Good(q) == /\ q \in Fallback!Request
                      /\ q.block <= head /\ q.latest <= head
                      /\ q.at \in {"block", "latest", "save"} => q.block # 0
<1>0. /\ head \in 0..MaxHeight /\ MaxHeight \in Nat /\ head' = head
      /\ \A t \in Txs : home[t] \in 0..MaxHeight /\ home[t] <= head
    BY ChainAssumption DEF Typed, TypeOK, ChainTypeOK, chainVars
<1>1. request \in [Requests -> Fallback!Request] /\ requestFaults \in 0..MaxRequestFaults
      /\ \A r \in Requests : Good(request[r])
    BY DEF Typed, RequestTypeOK, IndexerInv, RequestInv
\* Replacing one request by a good one keeps the invariant.
<1>2. ASSUME NEW r \in Requests, NEW q, Good(q), request' = [request EXCEPT ![r] = q],
             requestFaults' \in 0..MaxRequestFaults
      PROVE  RequestTypeOK' /\ RequestInv'
    <2>1. request' \in [Requests -> Fallback!Request]
        BY <1>1, <1>2
    <2>2. \A s \in Requests : Good(request'[s])
        BY <1>1, <1>2
    <2>3. RequestTypeOK'
        BY <1>2, <2>1 DEF RequestTypeOK
    <2> QED BY <1>0, <2>2, <2>3 DEF RequestInv
<1>3. ASSUME NEW t \in Txs, NEW step \in Fallback!Answers \cup {"find"}
      PROVE  Good(Fallback!Blank(step, t))
    BY <1>0, <1>3, ChainAssumption DEF Fallback!Blank, Fallback!Request, Fallback!Steps,
       Fallback!Answers, Fallback!NoHash
<1>4. ASSUME NEW r \in Requests, NEW answer \in Fallback!Answers,
             Fallback!Answer(r, answer), requestFaults' \in 0..MaxRequestFaults
      PROVE  RequestTypeOK' /\ RequestInv'
    <2>1. request[r].tx \in Txs
        BY <1>1 DEF Fallback!Request
    <2> QED BY <1>2, <1>3, <1>4, <2>1 DEF Fallback!Answer
<1>5. ASSUME NEW r \in Requests, NEW t \in Txs, Fallback!Ask(r, t)
      PROVE  RequestTypeOK' /\ RequestInv' /\ rows' = rows
    BY <1>1, <1>2, <1>3, <1>5 DEF Fallback!Ask
<1>6. ASSUME NEW r \in Requests, Fallback!Find(r)
      PROVE  RequestTypeOK' /\ RequestInv' /\ rows' = rows
    <2>1. CASE Fallback!Answer(r, "exists")
        BY <1>1, <1>4, <1>6, <2>1 DEF Fallback!Find, Fallback!Answers
    <2>2. CASE request' = [request EXCEPT ![r].at = "receipt"]
        <3> DEFINE q == [request[r] EXCEPT !.at = "receipt"]
        <3>1. Good(q)
            BY <1>1 DEF Fallback!Request, Fallback!Steps
        <3> QED BY <1>1, <1>2, <1>6, <2>2, <3>1 DEF Fallback!Find
    <2> QED BY <1>6, <2>1, <2>2 DEF Fallback!Find
<1>7. ASSUME NEW r \in Requests, Fallback!FetchReceipt(r)
      PROVE  RequestTypeOK' /\ RequestInv' /\ rows' = rows
    <2> DEFINE t == request[r].tx
               q == [request[r] EXCEPT !.at = "block", !.logs = Fallback!RelevantLogs(t),
                                       !.block = home[t]]
    <2>1. CASE Fallback!Answer(r, "missing") \/ Fallback!Answer(r, "untracked")
        BY <1>1, <1>4, <1>7, <2>1 DEF Fallback!FetchReceipt, Fallback!Answers
    <2>2. ASSUME NEW n \in Fallback!NodeHeads, home[t] \in 1..n,
                 request' = [request EXCEPT ![r].at = "block",
                                            ![r].logs = Fallback!RelevantLogs(t),
                                            ![r].block = home[t]]
          PROVE  RequestTypeOK' /\ RequestInv'
        <3>1. t \in Txs /\ Fallback!RelevantLogs(t) \in SUBSET (0..MaxLog)
            BY <1>1 DEF Fallback!Request, Fallback!RelevantLogs
        <3>2. home[t] \in 0..MaxHeight /\ home[t] <= head /\ home[t] # 0
            BY <1>0, <2>2, <3>1
        <3>3. Good(q)
            BY <1>1, <3>1, <3>2 DEF Fallback!Request, Fallback!Steps
        <3>4. request' = [request EXCEPT ![r] = q]
            BY <2>2
        <3> QED BY <1>1, <1>2, <1>7, <3>3, <3>4 DEF Fallback!FetchReceipt
    <2> QED BY <1>7, <2>1, <2>2 DEF Fallback!FetchReceipt
<1>8. ASSUME NEW r \in Requests, Fallback!FetchBlock(r)
      PROVE  RequestTypeOK' /\ RequestInv' /\ rows' = rows
    <2>1. PICK n \in Fallback!NodeHeads :
            \/ Fallback!Answer(r, "noBlock")
            \/ request' = [request EXCEPT ![r].at = "latest",
                             ![r].hash = Fallback!HashOf(request[r].block, n)]
        BY <1>8 DEF Fallback!FetchBlock
    <2>2. CASE Fallback!Answer(r, "noBlock")
        BY <1>1, <1>4, <1>8, <2>2 DEF Fallback!FetchBlock, Fallback!Answers
    <2>3. CASE request' = [request EXCEPT ![r].at = "latest",
                             ![r].hash = Fallback!HashOf(request[r].block, n)]
        <3> DEFINE q == [request[r] EXCEPT !.at = "latest",
                           !.hash = Fallback!HashOf(request[r].block, n)]
        <3>1. Fallback!HashOf(request[r].block, n) \in Fallback!Hashes \cup {Fallback!NoHash}
            BY <1>0, <1>1, NodeHeadsBound, ChainAssumption
            DEF Typed, TypeOK, ChainTypeOK, Heights, Hashes, Fallback!HashOf, Fallback!Hashes,
                Fallback!Request
        <3>2. request[r].at = "block"
            BY <1>8 DEF Fallback!FetchBlock
        <3>3. Good(q)
            BY <1>1, <3>1, <3>2 DEF Fallback!Request, Fallback!Steps
        <3>4. requestFaults' \in 0..MaxRequestFaults /\ rows' = rows
            BY <1>1, <1>8 DEF Fallback!FetchBlock
        <3>5. request' = [request EXCEPT ![r] = q]
            BY <2>3
        <3> HIDE DEF q
        <3> QED BY <1>2, <3>3, <3>4, <3>5
    <2> QED BY <1>8, <2>1, <2>2, <2>3 DEF Fallback!FetchBlock
<1>9. ASSUME NEW r \in Requests, Fallback!FetchLatest(r)
      PROVE  RequestTypeOK' /\ RequestInv' /\ rows' = rows
    <2>1. PICK n \in Fallback!NodeHeads :
            request' = [request EXCEPT ![r].at = "save", ![r].latest = n]
        BY <1>9 DEF Fallback!FetchLatest
    <2> DEFINE q == [request[r] EXCEPT !.at = "save", !.latest = n]
    <2>2. request[r].at = "latest"
        BY <1>9 DEF Fallback!FetchLatest
    <2>3. Good(q)
        BY <1>1, <2>2, NodeHeadsBound DEF Fallback!Request, Fallback!Steps, Typed
    <2>4. requestFaults' \in 0..MaxRequestFaults /\ rows' = rows
        BY <1>1, <1>9 DEF Fallback!FetchLatest
    <2>5. request' = [request EXCEPT ![r] = q]
        BY <2>1
    <2> HIDE DEF q
    <2> QED BY <1>2, <2>3, <2>4, <2>5
<1>10. ASSUME NEW r \in Requests, Fallback!Save(r)
       PROVE  /\ RequestTypeOK' /\ RequestInv'
              /\ \/ rows' = rows
                 \/ \E log \in request[r].logs :
                      request[r].at = "save" /\ rows' = rows \cup {Fallback!Entity(r, log)}
    <2>1. PICK log \in request[r].logs :
            \/ Fallback!Answer(r, "error") /\ rows' = rows
            \/ /\ rows' = rows \cup {Fallback!Entity(r, log)}
               /\ \/ Fallback!Answer(r, "saved")
                  \/ request' = [request EXCEPT ![r].logs = @ \ {log}]
        BY <1>10 DEF Fallback!Save
    <2>2. request[r].at = "save" /\ requestFaults' \in 0..MaxRequestFaults
        BY <1>1, <1>10 DEF Fallback!Save
    <2>3. ASSUME Fallback!Answer(r, "error") \/ Fallback!Answer(r, "saved")
          PROVE  RequestTypeOK' /\ RequestInv'
        BY <1>4, <2>2, <2>3 DEF Fallback!Answers
    <2>4. ASSUME request' = [request EXCEPT ![r].logs = @ \ {log}]
          PROVE  RequestTypeOK' /\ RequestInv'
        <3> DEFINE q == [request[r] EXCEPT !.logs = @ \ {log}]
        <3>1. Good(q)
            BY <1>1 DEF Fallback!Request
        <3>2. request' = [request EXCEPT ![r] = q]
            BY <2>4
        <3> HIDE DEF q
        <3> QED BY <1>2, <2>2, <3>1, <3>2
    <2> QED BY <2>1, <2>2, <2>3, <2>4
<1>11. ASSUME NEW r \in Requests, Fallback!RequestCallFails(r)
       PROVE  RequestTypeOK' /\ RequestInv' /\ rows' = rows
    <2>1. requestFaults' \in 0..MaxRequestFaults
        BY <1>1, <1>11, IndexerAssumption DEF Fallback!RequestCallFails
    <2> QED BY <1>4, <1>11, <2>1 DEF Fallback!RequestCallFails, Fallback!Answers
<1> QED BY <1>5, <1>6, <1>7, <1>8, <1>9, <1>10, <1>11 DEF Fallback!CheckMissing

\* In the composition, too, every variable has its type and the counts of
\* CountingInv hold.
LEMMA StepIndexerInv ==
    ASSUME Typed, IndexerInv, [IndexerNext]_indexerVars
    PROVE  Typed' /\ IndexerInv'
<1>1. CASE CrawlerStep
    <2>1. TypeOK' /\ CountingInv'
        BY <1>1, StepTypeOK, StepCountingInv DEF CrawlerStep, Typed, IndexerInv
    <2>2. head' >= head /\ head \in Int /\ head' \in Int
        BY <1>1, <2>1, HeadGrows, ChainAssumption
        DEF CrawlerStep, Typed, TypeOK, ChainTypeOK
    <2>3. RequestTypeOK'
        BY <1>1 DEF CrawlerStep, Typed, RequestTypeOK
    <2>4. RequestInv'
        BY <1>1, <2>2, ChainAssumption
        DEF CrawlerStep, Typed, RequestTypeOK, Fallback!Request, IndexerInv, RequestInv
    <2> QED BY <2>1, <2>3, <2>4 DEF Typed, IndexerInv
<1>2. CASE RequestStep \/ RequestArrives
    <2>1. UNCHANGED <<chainVars, cursor, memory, budgets>>
        BY <1>2 DEF RequestStep, RequestArrives
    <2>2. \/ Fallback!CheckMissing
          \/ \E r \in Requests, t \in Txs : Fallback!Ask(r, t)
        BY <1>2 DEF RequestStep, RequestArrives
    <2> QED BY <2>1, <2>2, RequestStepInv, RowsGrow DEF Typed, IndexerInv
<1>3. CASE UNCHANGED indexerVars
    <2>1. [Next]_vars /\ UNCHANGED <<request, requestFaults>> /\ head' = head
        BY <1>3 DEF indexerVars, vars, chainVars
    <2>2. TypeOK' /\ CountingInv'
        BY <2>1, StepTypeOK, StepCountingInv DEF Typed, IndexerInv
    <2> QED BY <2>1, <2>2 DEF Typed, IndexerInv, RequestTypeOK, RequestInv
<1> QED BY <1>1, <1>2, <1>3 DEF IndexerNext

\* Whatever both crawlers do at the same time, a transaction is never shown with
\* more than BatchSize - 1 confirmations too many, and the cursor never passes
\* the head of the chain.
THEOREM CountsStayBounded == IndexerSpec => []IndexerInv
<1> QED BY InitIndexerInv, StepIndexerInv, PTL DEF IndexerSpec

\* The requests keep their types beside the crawler.
THEOREM RequestsTypeCorrect == IndexerSpec => []RequestTypeOK
<1>1. Typed => RequestTypeOK
    BY DEF Typed
<1> QED BY <1>1, InitIndexerInv, StepIndexerInv, PTL DEF IndexerSpec

-----------------------------------------------------------------------------
(* What both crawlers do to the table                                      *)

\* A request inserts one entity, of a transaction that has no row, or nothing.
LEMMA RequestInserts ==
    ASSUME \/ Fallback!CheckMissing
           \/ \E r \in Requests, t \in Txs : Fallback!Ask(r, t)
    PROVE  \/ rows' = rows
           \/ \E r \in Requests : \E log \in request[r].logs :
                /\ request[r].at = "save"
                /\ \A row \in rows : row.tx # Fallback!Entity(r, log).tx
                /\ rows' = rows \cup {Fallback!Entity(r, log)}
<1>1. ASSUME NEW r \in Requests, Fallback!Save(r)
      PROVE  \/ rows' = rows
             \/ \E log \in request[r].logs :
                  /\ request[r].at = "save"
                  /\ \A row \in rows : row.tx # Fallback!Entity(r, log).tx
                  /\ rows' = rows \cup {Fallback!Entity(r, log)}
    <2>1. PICK log \in request[r].logs :
            IF Fallback!Conflicts(rows, {Fallback!Entity(r, log)})
              THEN rows' = rows
              ELSE rows' = rows \cup {Fallback!Entity(r, log)}
        BY <1>1 DEF Fallback!Save
    <2>2. CASE Fallback!Conflicts(rows, {Fallback!Entity(r, log)})
        BY <2>1, <2>2
    <2>3. CASE ~ Fallback!Conflicts(rows, {Fallback!Entity(r, log)})
        <3>1. \A row \in rows : row.tx # Fallback!Entity(r, log).tx
            BY <2>3 DEF Fallback!Conflicts
        <3> QED BY <1>1, <2>1, <2>3, <3>1 DEF Fallback!Save
    <2> QED BY <2>2, <2>3
<1>2. ASSUME NEW r \in Requests,
             Fallback!Find(r) \/ Fallback!FetchReceipt(r) \/ Fallback!FetchBlock(r)
                \/ Fallback!FetchLatest(r) \/ Fallback!RequestCallFails(r)
      PROVE  rows' = rows
    BY <1>2 DEF Fallback!Find, Fallback!FetchReceipt, Fallback!FetchBlock,
       Fallback!FetchLatest, Fallback!RequestCallFails
<1>3. ASSUME NEW r \in Requests, NEW t \in Txs, Fallback!Ask(r, t)
      PROVE  rows' = rows
    BY <1>3 DEF Fallback!Ask
<1> QED BY <1>1, <1>2, <1>3 DEF Fallback!CheckMissing

\* A step of the composition is one of the crawler, or of a request, which leaves
\* the crawler alone.
LEMMA EitherSteps ==
    ASSUME [IndexerNext]_indexerVars
    PROVE  \/ [Next]_vars /\ UNCHANGED <<request, requestFaults>>
           \/ /\ UNCHANGED <<chainVars, cursor, memory, budgets>>
              /\ \/ Fallback!CheckMissing
                 \/ EarlyRequests \/ cursor # NoCursor
              /\ \/ Fallback!CheckMissing
                 \/ \E r \in Requests, t \in Txs : Fallback!Ask(r, t)
BY DEF IndexerNext, CrawlerStep, RequestStep, RequestArrives, indexerVars

LEMMA StepTogetherUnique ==
    ASSUME TypeOK, UniqueInv, [IndexerNext]_indexerVars
    PROVE  UniqueInv' /\ Changes(rows, rows')
<1>0. Changes(rows, rows) /\ OneRowEach(rows) /\ OneEventPerLog
    BY DEF Changes, UniqueInv, OneRowEach
<1>1. CASE [Next]_vars
    BY <1>0, <1>1, StepUniqueInv
<1>2. CASE /\ UNCHANGED <<chainVars, cursor, memory, budgets>>
           /\ \/ Fallback!CheckMissing
              \/ \E r \in Requests, t \in Txs : Fallback!Ask(r, t)
    <2>0. OneEventPerLog'
        BY <1>0, <1>2 DEF OneEventPerLog, memory, locals
    <2>1. CASE rows' = rows
        BY <1>0, <2>0, <2>1 DEF UniqueInv
    <2>2. ASSUME NEW e, \A row \in rows : row.tx # e.tx, rows' = rows \cup {e}
          PROVE  UniqueInv' /\ Changes(rows, rows')
        BY <1>0, <2>0, <2>2 DEF UniqueInv, OneRowEach, Changes
    <2> QED BY <1>2, <2>1, <2>2, RequestInserts
<1> QED BY <1>1, <1>2, EitherSteps

\* Whatever both crawlers do at the same time, whatever fails and however the chain
\* reorganizes, no statement takes a row from below one that stays, and no
\* transaction ever has two.
THEOREM BothTakeTheTop == IndexerSpec => TopLeavesFirst
<1> DEFINE Inv == Typed /\ IndexerInv /\ UniqueInv
<1>1. IndexerInit => Inv
    BY InitIndexerInv, InitUniqueInv DEF IndexerInit
<1>2. Inv /\ [IndexerNext]_indexerVars => Inv' /\ [Changes(rows, rows')]_indexerVars
    BY StepIndexerInv, StepTogetherUnique DEF Typed
<1> QED BY <1>1, <1>2, PTL DEF IndexerSpec, TopLeavesFirst

-----------------------------------------------------------------------------
(* No gap below the cursor                                                 *)

\* Only a lost key takes the cursor away.
LEMMA CursorStays ==
    ASSUME CrawlInv, [Next]_vars, MaxCursorLosses = 0, cursor # NoCursor
    PROVE  cursor' # NoCursor
<1> USE DEF durable, memory, CrawlInv, NoCursor
<1>0. /\ lastProcessedBlock \in Int /\ deepestReorg \in Int /\ toBlock \in Int
      /\ fromBlock \in Int /\ StartBlock \in Nat \ {0} /\ cursorLosses \in Nat
    BY CrawlerAssumption DEF TypeOK
<1>1. CASE LoadFromDb
    BY <1>1, ResumeBlock DEF LoadFromDb
<1>2. CASE RollbackCursor
    <2>1. deepestReorg >= StartBlock
        BY <1>0, <1>2 DEF RollbackCursor, CycleInv
    <2> QED BY <1>0, <1>2, <2>1 DEF RollbackCursor
<1>3. CASE UpdateCursor
    <2>1. toBlock >= 0
        BY <1>0, <1>3 DEF UpdateCursor, CycleInv, Batching, ResumeInv, Starting
    <2> QED BY <1>0, <1>3, <2>1 DEF UpdateCursor
<1>4. ~ LoseCursor
    BY <1>0 DEF LoseCursor, TypeOK
<1>5. CASE \/ Start \/ LoadCursor \/ GetLatestBlock \/ CheckForReorg \/ RollbackDelete
           \/ FetchEvents \/ SaveBlockMap \/ SaveState
    BY <1>5 DEF Start, LoadCursor, GetLatestBlock, CheckForReorg, RollbackDelete,
       FetchEvents, SaveBlockMap, SaveState
<1>6. CASE LoadFails
    BY <1>6, ResumeBlock DEF LoadFails
<1>7. CASE CallFails \/ Crash \/ ChainMoves \/ UNCHANGED vars
    BY <1>7 DEF CallFails, Crash, ChainMoves, vars
<1> QED BY <1>1, <1>2, <1>3, <1>4, <1>5, <1>6, <1>7 DEF Next, Crawl

\* Requests are made only once there is a cursor.
RequestsWait == cursor = NoCursor => \A r \in Requests : request[r].at = "idle"

\* The table then holds rows of the crawler alone for as long as the crawler may
\* resume from the highest of them: no gap opens below what it resumes from.
TogetherInv == Typed /\ IndexerInv /\ CrawlInv /\ GapInv /\ RequestsWait

LEMMA InitTogetherInv == IndexerInit => TogetherInv
<1> SUFFICES ASSUME IndexerInit PROVE TogetherInv
    OBVIOUS
<1>1. CrawlInv /\ GapInv
    BY InitCrawlInv, InitGapInv DEF IndexerInit
<1>2. RequestsWait
    BY DEF IndexerInit, Fallback!FallbackInit, Fallback!Blank, RequestsWait
<1> QED BY <1>1, <1>2, InitIndexerInv DEF TogetherInv

LEMMA StepTogetherInv ==
    ASSUME MaxCursorLosses = 0, EarlyRequests = FALSE, EventFilter = "anyOf",
           TogetherInv, [IndexerNext]_indexerVars
    PROVE  TogetherInv'
<1> USE DEF chainVars, locals, memory, budgets
<1>1. Typed' /\ IndexerInv' /\ TypeOK' /\ CountingInv'
    BY StepIndexerInv DEF TogetherInv, Typed, IndexerInv
<1>2. CASE [Next]_vars /\ UNCHANGED <<request, requestFaults>>
    <2>1. CrawlInv' /\ GapInv'
        BY <1>2, StepCrawlInv, StepGapInv DEF TogetherInv
    <2>2. RequestsWait'
        BY <1>2, CursorStays DEF TogetherInv, RequestsWait
    <2> QED BY <1>1, <2>1, <2>2 DEF TogetherInv
<1>3. CASE /\ UNCHANGED <<chainVars, cursor, memory, budgets>>
           /\ Fallback!CheckMissing \/ cursor # NoCursor
           /\ \/ Fallback!CheckMissing
              \/ \E r \in Requests, t \in Txs : Fallback!Ask(r, t)
    <2>1. cursor # NoCursor
        <3> SUFFICES ASSUME Fallback!CheckMissing, cursor = NoCursor PROVE FALSE
            BY <1>3
        <3>1. \A r \in Requests : request[r].at = "idle"
            BY DEF TogetherInv, RequestsWait
        <3> QED BY <3>1 DEF Fallback!CheckMissing, Fallback!Find, Fallback!FetchReceipt,
                Fallback!FetchBlock, Fallback!FetchLatest, Fallback!Save,
                Fallback!RequestCallFails
    <2>2. CycleInv' /\ ResumeInv'
        BY <1>3 DEF TogetherInv, CrawlInv, CycleInv, ResumeInv
    <2>3. rows \subseteq rows'
        BY <1>3, RequestInserts
    <2>4. \A b : NoGapUpTo(b) => (NoGapUpTo(b))'
        BY <1>3, <2>3 DEF NoGapUpTo, Indexed
    <2>5. ~ MayUseTable'
        <3>1. cursorLosses' \in Nat /\ cursorLosses' <= 0
            BY <1>1 DEF TypeOK
        <3> QED BY <1>3, <2>1, <3>1 DEF MayUseTable
    <2>6. NoReorgSeen => NoReorgSeen'
        BY <1>3 DEF NoReorgSeen
    <2>7. BatchExact => BatchExact'
        BY <1>3 DEF BatchExact, BatchInPlace, BatchComplete
    <2>8. NoGapBelow => NoGapBelow'
        BY <1>3, <2>4, <2>5 DEF NoGapBelow, NoGapUpTo, Indexed
    <2>9. GapInv'
        BY <1>3, <2>6, <2>7, <2>8 DEF TogetherInv, GapInv
    <2> QED BY <1>1, <2>1, <2>2, <2>9, <1>3 DEF TogetherInv, CrawlInv, RequestsWait
<1> QED BY <1>2, <1>3, EitherSteps

\* Where the requests come after the crawler has its cursor, and Redis keeps it,
\* no request makes the crawler skip a transaction: with nodes that are up to
\* date, a filter that selects both events, and until the chain reorganizes, every transaction of the contract at or
\* below the cursor is in the table.
THEOREM RequestsMakeNoGap ==
    ASSUME MaxCursorLosses = 0, EarlyRequests = FALSE, EventFilter = "anyOf"
    PROVE  IndexerSpec => []NoGap
<1>1. TogetherInv /\ [IndexerNext]_indexerVars => TogetherInv'
    BY StepTogetherInv
<1>2. TogetherInv => NoGap
    BY DEF TogetherInv, GapInv, NoGapBelow, NoGap
<1> QED BY <1>1, <1>2, InitTogetherInv, PTL DEF IndexerSpec

-----------------------------------------------------------------------------
(* What a request has found stays                                          *)

AtHome == \A r \in rows : r.block = home[r.tx]

\* Until the chain reorganizes, a transaction that is in a block stays in it.
LEMMA HomeStays ==
    ASSUME TypeOK, forks = 0, forks' = 0, [Next]_vars, NEW t \in Txs, home[t] # 0
    PROVE  home'[t] = home[t]
<1>1. ~ \E h \in Heights : Reorg(h)
    BY DEF Reorg
<1>2. CASE Mine
    BY <1>2 DEF Mine
<1>3. CASE UNCHANGED chainVars
    BY <1>3 DEF chainVars
<1> QED BY <1>1, <1>2, <1>3, ChainSteps

\* The crawler's rows, then, are those of the chain, and none leaves the table.
LEMMA StepAtHome ==
    ASSUME TypeOK, CountingInv, forks = 0, forks' = 0, NoReorgSeen, BatchInPlace, AtHome,
           [Next]_vars
    PROVE  AtHome' /\ \A t \in Txs : Indexed(t) => Indexed(t)'
<1>1. rows \subseteq Row /\ \A r \in rows : r.tx \in Txs /\ r.block # 0
    BY ChainAssumption DEF TypeOK, Row, Heights
<1>2. \A r \in rows : home'[r.tx] = home[r.tx]
    BY <1>1, HomeStays DEF AtHome
<1>3. CASE rows' = rows
    BY <1>1, <1>2, <1>3 DEF AtHome, Indexed
<1>4. CASE SaveState /\ rows' # rows
    <2> DEFINE new == NewRows(batch, latestBlock, blockMap)
    <2>1. PICK stored \in {rows \cup new, Upserted(rows, new)} :
            rows' = Reconfirmed(stored, latestBlock)
        BY <1>4 DEF SaveState
    <2>2. home' = home
        BY <1>4 DEF SaveState, chainVars
    <2>3. new \subseteq Row
        BY NewRowsType DEF TypeOK
    <2>4. \A n \in new : n.block = home[n.tx]
        BY NewRowsOrigin DEF BatchInPlace
    <2>5. latestBlock \in 0..MaxHeight
        BY DEF TypeOK
    <2> HIDE DEF new
    <2>6. SavedFrom(rows', rows, new)
        BY <1>1, <2>1, <2>3, <2>5, SavedRows
    <2>7. AtHome'
        BY <2>2, <2>4, <2>6 DEF SavedFrom, AtHome
    <2>8. ASSUME NEW t \in Txs, Indexed(t) PROVE Indexed(t)'
        <3>1. \E s \in rows' : s.tx = t
            BY <2>6, <2>8 DEF SavedFrom, Indexed
        <3> QED BY <2>7, <3>1 DEF AtHome, Indexed
    <2> QED BY <2>7, <2>8
<1>5. ~ RollbackDelete
    BY DEF RollbackDelete, NoReorgSeen
<1>6. SaveState \/ rows' = rows
    BY <1>5 DEF Next, Crawl, vars, durable, Start, LoadCursor, LoadFromDb, GetLatestBlock,
       CheckForReorg, RollbackCursor, FetchEvents, SaveBlockMap, UpdateCursor,
       LoadFails, CallFails, Crash, LoseCursor, ChainMoves
<1> QED BY <1>3, <1>4, <1>6

\* What a request knows is true: the block of its receipt is the one its transaction
\* is in, and it answers that it has found the transaction only once it is indexed.
Pending == {"block", "latest", "save"}
RequestTrue(q) ==
    /\ q.at \in Pending => q.block = home[q.tx]
    /\ q.at \in Fallback!Found => Indexed(q.tx)
FoundInv ==
    Lag = 0 /\ forks = 0 =>
        /\ NoReorgSeen /\ BatchInPlace /\ AtHome
        /\ \A r \in Requests : RequestTrue(request[r])

LEMMA InitFoundInv == IndexerInit => FoundInv
<1> SUFFICES ASSUME IndexerInit PROVE FoundInv
    OBVIOUS
<1>1. \A r \in Requests : request[r].at = "idle"
    BY DEF IndexerInit, Fallback!FallbackInit, Fallback!Blank
<1>2. NoReorgSeen /\ BatchInPlace /\ AtHome
    BY DEF IndexerInit, Init, ChainInit, NoReorgSeen, BatchInPlace, NothingCached, Saving, AtHome
<1> QED BY <1>1, <1>2 DEF FoundInv, RequestTrue, Pending, Fallback!Found

\* A request goes on from what it knows.
LEMMA RequestStaysTrue ==
    ASSUME Typed, IndexerInv, UNCHANGED chainVars, AtHome,
           \A r \in Requests : RequestTrue(request[r]),
           \/ Fallback!CheckMissing
           \/ \E r \in Requests, t \in Txs : Fallback!Ask(r, t)
    PROVE  AtHome' /\ \A r \in Requests : RequestTrue(request[r])'
<1>0. request \in [Requests -> Fallback!Request] /\ home' = home
    BY DEF Typed, RequestTypeOK, chainVars
<1>1. AtHome' /\ rows \subseteq rows'
    <2>1. ASSUME NEW r \in Requests, NEW log \in request[r].logs, request[r].at = "save"
          PROVE  Fallback!Entity(r, log).block = home[Fallback!Entity(r, log).tx]
        BY <2>1 DEF Fallback!Entity, RequestTrue, Pending
    <2> QED BY <1>0, <2>1, RequestInserts DEF AtHome
<1> DEFINE Stays(t) == \E row \in rows' : row.tx = t /\ row.block = home'[t]
<1>2. \A t : Indexed(t) => Stays(t)
    BY <1>0, <1>1 DEF Indexed
\* The requests that do not move know no less than before; it is enough to look
\* at the one that does.
<1>3. ASSUME NEW r \in Requests, NEW q, request' = [request EXCEPT ![r] = q],
             q.at \in Pending => q.block = home[q.tx],
             q.at \in Fallback!Found => Stays(q.tx)
      PROVE  \A s \in Requests : RequestTrue(request[s])'
    <2> SUFFICES ASSUME NEW s \in Requests PROVE RequestTrue(request[s])'
        OBVIOUS
    <2>1. CASE s = r
        BY <1>0, <1>3, <2>1 DEF RequestTrue, Indexed
    <2>2. CASE s # r
        BY <1>0, <1>2, <1>3, <2>2 DEF RequestTrue, Indexed
    <2> QED BY <2>1, <2>2
<1>4. ASSUME NEW r \in Requests, NEW answer, Fallback!Answer(r, answer),
             answer \notin Pending, answer \in Fallback!Found => Stays(request[r].tx)
      PROVE  \A s \in Requests : RequestTrue(request[s])'
    <2> DEFINE q == Fallback!Blank(answer, request[r].tx)
    <2>1. request' = [request EXCEPT ![r] = q]
        BY <1>0, <1>4 DEF Fallback!Answer
    <2>2. q.at = answer /\ q.tx = request[r].tx
        BY DEF Fallback!Blank
    <2> HIDE DEF q
    <2> QED BY <1>3, <1>4, <2>1, <2>2
<1>5. ASSUME NEW r \in Requests, NEW t \in Txs, Fallback!Ask(r, t)
      PROVE  \A s \in Requests : RequestTrue(request[s])'
    <2> DEFINE q == Fallback!Blank("find", t)
    <2>1. request' = [request EXCEPT ![r] = q] /\ q.at = "find"
        BY <1>5 DEF Fallback!Ask, Fallback!Blank
    <2> HIDE DEF q
    <2> QED BY <1>3, <2>1 DEF Pending, Fallback!Found
<1>6. ASSUME NEW r \in Requests, Fallback!Find(r)
      PROVE  \A s \in Requests : RequestTrue(request[s])'
    <2>1. CASE \E row \in rows : row.tx = request[r].tx
        <3>1. Indexed(request[r].tx)
            BY <2>1 DEF AtHome, Indexed
        <3>2. Fallback!Answer(r, "exists")
            BY <1>6, <2>1 DEF Fallback!Find
        <3> QED BY <1>2, <1>4, <3>1, <3>2 DEF Pending
    <2>2. CASE request' = [request EXCEPT ![r].at = "receipt"]
        <3> DEFINE q == [request[r] EXCEPT !.at = "receipt"]
        <3>1. request' = [request EXCEPT ![r] = q] /\ q.at = "receipt"
            BY <1>0, <2>2 DEF Fallback!Request
        <3> HIDE DEF q
        <3> QED BY <1>3, <3>1 DEF Pending, Fallback!Found
    <2> QED BY <1>6, <2>1, <2>2 DEF Fallback!Find
<1>7. ASSUME NEW r \in Requests, Fallback!FetchReceipt(r)
      PROVE  \A s \in Requests : RequestTrue(request[s])'
    <2>1. CASE Fallback!Answer(r, "missing") \/ Fallback!Answer(r, "untracked")
        BY <1>4, <2>1 DEF Pending, Fallback!Found
    <2>2. CASE request' = [request EXCEPT ![r].at = "block",
                                          ![r].logs = Fallback!RelevantLogs(request[r].tx),
                                          ![r].block = home[request[r].tx]]
        <3> DEFINE q == [request[r] EXCEPT !.at = "block",
                                           !.logs = Fallback!RelevantLogs(request[r].tx),
                                           !.block = home[request[r].tx]]
        <3>1. request' = [request EXCEPT ![r] = q]
            BY <2>2
        <3>2. q.at = "block" /\ q.block = home[q.tx]
            BY <1>0 DEF Fallback!Request
        <3> HIDE DEF q
        <3> QED BY <1>3, <3>1, <3>2 DEF Fallback!Found
    <2> QED BY <1>7, <2>1, <2>2 DEF Fallback!FetchReceipt
\* The next two calls keep the transaction and its block.
<1>8. ASSUME NEW r \in Requests, NEW q \in Fallback!Request, request[r].at \in Pending,
             request' = [request EXCEPT ![r] = q], q.at \in Pending,
             q.tx = request[r].tx, q.block = request[r].block
      PROVE  \A s \in Requests : RequestTrue(request[s])'
    BY <1>3, <1>8 DEF RequestTrue, Pending, Fallback!Found
<1>t. Requests' = Requests /\ RequestTypeOK'
    BY RequestStepInv
<1>9. ASSUME NEW r \in Requests, Fallback!FetchBlock(r)
      PROVE  \A s \in Requests : RequestTrue(request[s])'
    <2>1. PICK n \in Fallback!NodeHeads :
            \/ Fallback!Answer(r, "noBlock")
            \/ request' = [request EXCEPT ![r].at = "latest",
                             ![r].hash = Fallback!HashOf(request[r].block, n)]
        BY <1>9 DEF Fallback!FetchBlock
    <2>2. CASE Fallback!Answer(r, "noBlock")
        BY <1>4, <2>2 DEF Pending, Fallback!Found
    <2>3. CASE request' = [request EXCEPT ![r].at = "latest",
                             ![r].hash = Fallback!HashOf(request[r].block, n)]
        <3> DEFINE q == [request[r] EXCEPT !.at = "latest",
                           !.hash = Fallback!HashOf(request[r].block, n)]
        <3>1. request' = [request EXCEPT ![r] = q] /\ request'[r] = q
            BY <1>0, <2>3
        <3>2. q.at = "latest" /\ q.tx = request[r].tx /\ q.block = request[r].block
            BY <1>0 DEF Fallback!Request
        <3>3. q \in Fallback!Request /\ request[r].at \in Pending
            BY <1>9, <1>t, <3>1 DEF Fallback!FetchBlock, RequestTypeOK, Pending
        <3> HIDE DEF q
        <3> QED BY <1>8, <3>1, <3>2, <3>3 DEF Pending
    <2> QED BY <2>1, <2>2, <2>3
<1>10. ASSUME NEW r \in Requests, Fallback!FetchLatest(r)
       PROVE  \A s \in Requests : RequestTrue(request[s])'
    <2>1. PICK n \in Fallback!NodeHeads :
            request' = [request EXCEPT ![r].at = "save", ![r].latest = n]
        BY <1>10 DEF Fallback!FetchLatest
    <2> DEFINE q == [request[r] EXCEPT !.at = "save", !.latest = n]
    <2>2. request' = [request EXCEPT ![r] = q] /\ request'[r] = q
        BY <1>0, <2>1
    <2>3. q.at = "save" /\ q.tx = request[r].tx /\ q.block = request[r].block
        BY <1>0 DEF Fallback!Request
    <2>4. q \in Fallback!Request /\ request[r].at \in Pending
        BY <1>10, <1>t, <2>2 DEF Fallback!FetchLatest, RequestTypeOK, Pending
    <2> HIDE DEF q
    <2> QED BY <1>8, <2>2, <2>3, <2>4 DEF Pending
<1>11. ASSUME NEW r \in Requests, Fallback!Save(r)
       PROVE  \A s \in Requests : RequestTrue(request[s])'
    <2>1. PICK log \in request[r].logs :
            \/ Fallback!Answer(r, "error")
            \/ /\ rows' = rows \cup {Fallback!Entity(r, log)}
               /\ \/ Fallback!Answer(r, "saved")
                  \/ request' = [request EXCEPT ![r].logs = @ \ {log}]
        BY <1>11 DEF Fallback!Save
    <2>2. request[r].at = "save"
        BY <1>11 DEF Fallback!Save
    <2>3. CASE Fallback!Answer(r, "error")
        BY <1>4, <2>3 DEF Pending, Fallback!Found
    <2>4. CASE rows' = rows \cup {Fallback!Entity(r, log)} /\ Fallback!Answer(r, "saved")
        <3>1. /\ Fallback!Entity(r, log).tx = request[r].tx
              /\ Fallback!Entity(r, log).block = home[request[r].tx]
            BY <2>2 DEF Fallback!Entity, RequestTrue, Pending
        <3>2. Stays(request[r].tx)
            BY <1>0, <2>4, <3>1
        <3> QED BY <1>4, <2>4, <3>2 DEF Pending
    <2>5. CASE request' = [request EXCEPT ![r].logs = @ \ {log}]
        <3> DEFINE q == [request[r] EXCEPT !.logs = @ \ {log}]
        <3>1. request' = [request EXCEPT ![r] = q] /\ request'[r] = q
            BY <1>0, <2>5
        <3>2. q.at = "save" /\ q.tx = request[r].tx /\ q.block = request[r].block
            BY <1>0, <2>2 DEF Fallback!Request
        <3>3. q \in Fallback!Request
            BY <1>t, <3>1 DEF RequestTypeOK
        <3> HIDE DEF q
        <3> QED BY <1>8, <2>2, <3>1, <3>2, <3>3 DEF Pending
    <2> QED BY <2>1, <2>3, <2>4, <2>5
<1>12. ASSUME NEW r \in Requests, Fallback!RequestCallFails(r)
       PROVE  \A s \in Requests : RequestTrue(request[s])'
    BY <1>4, <1>12 DEF Fallback!RequestCallFails, Pending, Fallback!Found
<1> QED BY <1>1, <1>5, <1>6, <1>7, <1>9, <1>10, <1>11, <1>12 DEF Fallback!CheckMissing

LEMMA StepFoundInv ==
    ASSUME Typed, IndexerInv, FoundInv, [IndexerNext]_indexerVars
    PROVE  FoundInv'
<1> SUFFICES ASSUME Lag = 0, forks' = 0
             PROVE  /\ NoReorgSeen' /\ BatchInPlace' /\ AtHome'
                    /\ \A r \in Requests : RequestTrue(request[r])'
    BY DEF FoundInv
<1>1. CASE [Next]_vars /\ UNCHANGED <<request, requestFaults>>
    <2>1. TypeOK /\ CountingInv
        BY DEF Typed, IndexerInv
    <2>2. forks = 0
        BY <1>1, <2>1, ChainSteps
        DEF Mine, Reorg, chainVars, TypeOK, ChainTypeOK, Hashes
    <2>3. NoReorgSeen /\ BatchInPlace /\ AtHome /\ \A r \in Requests : RequestTrue(request[r])
        BY <2>2 DEF FoundInv
    <2>4. NoReorgSeen' /\ BatchInPlace'
        BY <1>1, <2>1, <2>2, <2>3, StepBatchExact
    <2>5. AtHome' /\ \A t \in Txs : Indexed(t) => Indexed(t)'
        BY <1>1, <2>1, <2>2, <2>3, StepAtHome
    <2>6. ASSUME NEW r \in Requests PROVE RequestTrue(request[r])'
        <3>1. request[r].tx \in Txs
            BY DEF Typed, RequestTypeOK, Fallback!Request
        <3>2. ASSUME request[r].at \in Pending
              PROVE  home'[request[r].tx] = home[request[r].tx]
            <4>1. home[request[r].tx] # 0
                BY <2>3, <3>2 DEF RequestTrue, IndexerInv, RequestInv, Pending
            <4> QED BY <1>1, <2>1, <2>2, <3>1, <4>1, HomeStays
        <3> QED BY <1>1, <2>3, <2>5, <3>1, <3>2 DEF RequestTrue
    <2> QED BY <2>4, <2>5, <2>6
<1>2. CASE /\ UNCHANGED <<chainVars, cursor, memory, budgets>>
           /\ \/ Fallback!CheckMissing
              \/ \E r \in Requests, t \in Txs : Fallback!Ask(r, t)
    <2>1. NoReorgSeen /\ BatchInPlace /\ AtHome /\ \A r \in Requests : RequestTrue(request[r])
        BY <1>2 DEF FoundInv, chainVars
    <2>2. NoReorgSeen' /\ BatchInPlace'
        BY <1>2, <2>1 DEF NoReorgSeen, BatchInPlace, chainVars, memory, locals
    <2> QED BY <1>2, <2>1, <2>2, RequestStaysTrue
<1> QED BY <1>1, <1>2, EitherSteps

\* Until the chain reorganizes, and with nodes that are up to date, a transaction
\* that a request has reported as found stays in the table, in its block, whatever
\* the crawler saves over it.
THEOREM FoundStaysIndexed == IndexerSpec => []FoundIsIndexed
<1> DEFINE Inv == Typed /\ IndexerInv /\ FoundInv
<1>1. IndexerInit => Inv
    BY InitIndexerInv, InitFoundInv
<1>2. Inv /\ [IndexerNext]_indexerVars => Inv'
    BY StepIndexerInv, StepFoundInv
<1>3. Inv => FoundIsIndexed
    BY DEF FoundInv, FoundIsIndexed, RequestTrue
<1> QED BY <1>1, <1>2, <1>3, PTL DEF IndexerSpec

=============================================================================
