-------------------------- MODULE FallbackCrawler --------------------------
(***************************************************************************)
(* EvmFallbackCrawlerService (src/modules/evm-crawler/services/            *)
(* evm-fallback-crawler.service.ts): POST check-missing/:chainId/:hash     *)
(* looks up one transaction on the chain and adds its events to the        *)
(* transactions table.  Any number of requests run at once, beside the     *)
(* crawler; each is a sequence of calls and an action is the code between  *)
(* two of them.  A client or a process that goes away is a request that    *)
(* takes no further step.                                                  *)
(***************************************************************************)
EXTENDS Blockchain, TransactionTable

CONSTANTS
    Requests,         \* bound: the requests
    DirectTxs,        \* the transactions sent to the contract itself
    MaxRequestFaults  \* bound: calls of requests that fail

VARIABLES
    rows,          \* the transactions table, shared with the crawler
    request,       \* request -> the call it waits for, its locals, its answer
    requestFaults  \* failing calls so far

Answers == {"exists", "missing", "untracked", "noBlock", "error", "saved"}
Found == {"exists", "saved"}
Steps == {"idle", "find", "receipt", "block", "latest", "save"} \cup Answers

Request ==
    [at : Steps, tx : Txs, logs : SUBSET (0..MaxLog), block : 0..MaxHeight,
     hash : Hashes \cup {NoHash}, latest : 0..MaxHeight]

(* A request for t that knows nothing of it: not made yet, or answered.    *)
Blank(step, t) ==
    [at |-> step, tx |-> t, logs |-> {}, block |-> 0, hash |-> NoHash, latest |-> 0]

FallbackInit ==
    /\ request = [r \in Requests |-> Blank("idle", CHOOSE t \in Txs : TRUE)]
    /\ requestFaults = 0

(* The request ends, and its locals with it.                               *)
Answer(r, answer) == request' = [request EXCEPT ![r] = Blank(answer, @.tx)]

Ask(r, t) ==
    /\ request[r].at = "idle"
    /\ request' = [request EXCEPT ![r] = Blank("find", t)]
    /\ UNCHANGED <<rows, requestFaults>>

(* findByChainIdAndTransactionHash()                                       *)
Find(r) ==
    /\ request[r].at = "find"
    /\ IF \E row \in rows : row.tx = request[r].tx
         THEN Answer(r, "exists")
         ELSE request' = [request EXCEPT ![r].at = "receipt"]
    /\ UNCHANGED <<rows, requestFaults>>

(* extractRelevantEvents(): none unless the transaction was sent to the    *)
(* contract itself.                                                        *)
RelevantLogs(t) ==
    IF t \in DirectTxs THEN {k \in 0..MaxLog : <<t, k>> \in TxLogs} ELSE {}

FetchReceipt(r) ==
    /\ request[r].at = "receipt"
    /\ LET t == request[r].tx
       IN \E n \in NodeHeads :
            IF home[t] \notin 1..n THEN Answer(r, "missing")
            ELSE IF RelevantLogs(t) = {} THEN Answer(r, "untracked")
            ELSE request' = [request EXCEPT ![r].at = "block",
                                            ![r].logs = RelevantLogs(t),
                                            ![r].block = home[t]]
    /\ UNCHANGED <<rows, requestFaults>>

FetchBlock(r) ==
    /\ request[r].at = "block"
    /\ \E n \in NodeHeads :
         LET hash == HashOf(request[r].block, n)
         IN IF hash = NoHash
              THEN Answer(r, "noBlock")
              ELSE request' = [request EXCEPT ![r].at = "latest", ![r].hash = hash]
    /\ UNCHANGED <<rows, requestFaults>>

FetchLatest_Next(r) ==
    /\ request[r].at = "latest"
    /\ \E n \in NodeHeads :
         request' = [request EXCEPT ![r].at = "save", ![r].latest = n + 1]
    /\ UNCHANGED <<rows, requestFaults>>
FetchLatest(r) ==
    /\ request[r].at = "latest"
    /\ \E n \in NodeHeads :
         request' = [request EXCEPT ![r].at = "save", ![r].latest = n]
    /\ UNCHANGED <<rows, requestFaults>>

(* createTransactionEntity(): confirmations counted from its own block.    *)
Entity_FromZero(r, log) ==
    LET confirmations == request[r].latest + 1
    IN [tx |-> request[r].tx, log |-> log, block |-> request[r].block,
        hash |-> request[r].hash, confirmations |-> confirmations,
        status |-> StatusFor(confirmations)]
Entity(r, log) ==
    LET confirmations == request[r].latest - request[r].block + 1
    IN [tx |-> request[r].tx, log |-> log, block |-> request[r].block,
        hash |-> request[r].hash, confirmations |-> confirmations,
        status |-> StatusFor(confirmations)]

(* One insert per event, each on its own.  The first that violates the     *)
(* unique index ends the request with an error.                            *)
Save(r) ==
    /\ request[r].at = "save"
    /\ \E log \in request[r].logs :
         /\ \A k \in request[r].logs : log <= k
         /\ IF Conflicts(rows, {Entity(r, log)})
              THEN Answer(r, "error") /\ UNCHANGED rows
              ELSE /\ rows' = rows \cup {Entity(r, log)}
                   /\ IF request[r].logs = {log}
                        THEN Answer(r, "saved")
                        ELSE request' = [request EXCEPT ![r].logs = @ \ {log}]
    /\ UNCHANGED requestFaults

(* A failing call: the reads of receipt and block answer null, any other   *)
(* error ends the request.                                                 *)
RequestCallFails(r) ==
    /\ requestFaults < MaxRequestFaults
    /\ requestFaults' = requestFaults + 1
    /\ \/ request[r].at = "receipt" /\ Answer(r, "missing")
       \/ request[r].at = "block" /\ Answer(r, "noBlock")
       \/ request[r].at \in {"find", "latest", "save"} /\ Answer(r, "error")
    /\ UNCHANGED rows

CheckMissing ==
    \E r \in Requests :
        \/ Find(r) \/ FetchReceipt(r) \/ FetchBlock(r) \/ FetchLatest(r) \/ Save(r)
        \/ RequestCallFails(r)

=============================================================================
