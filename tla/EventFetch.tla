----------------------------- MODULE EventFetch -----------------------------
(***************************************************************************)
(* How one batch of events gets from the nodes into the table: the         *)
(* crawler's fetchEvents and saveState, which crawl() repeats until they   *)
(* succeed, and the fallback crawler's fetchTransactionReceipt and save,   *)
(* which it does not.  Each event is of a transaction of its own.          *)
(***************************************************************************)
EXTENDS CallRpc, EventParsing, FiniteSets

CONSTANTS
    Logs,       \* bound: the logs there are
    MaxBatch    \* bound: events of a batch

ASSUME FetchAssumption ==
    /\ MaxBatch \in Nat
    /\ \A log \in Logs : log.amount \in Nat /\ log.decimals \in Nat

VARIABLES
    client,  \* who is at work
    logs,    \* the events on the chain that it is after
    at,      \* what it waits for
    events,  \* what parseEvents returned
    stored   \* the rows it has stored

fetchVars == <<rpcVars, client, logs, at, events, stored>>

FetchInit ==
    /\ RpcInit
    /\ client \in {"crawler", "fallback"}
    /\ logs \in UNION {[1..n -> Logs] : n \in 1..(IF client = "crawler" THEN MaxBatch ELSE 1)}
    /\ at = "idle" /\ events = <<>> /\ stored = <<>>

FetchEvents ==
    /\ at = "idle" /\ CallBegins
    /\ at' = "nodes"
    /\ UNCHANGED <<node, nodeChanges, client, logs, events, stored>>

(* crawl() catches and starts over after five seconds; the fallback        *)
(* crawler answers found = false.                                          *)
GivesUp_Retries == "idle"
GivesUp == IF client = "crawler" THEN "idle" ELSE "failed"

Fetched ==
    /\ at = "nodes"
    /\ \/ call.at = "returned" /\ at' = "save" /\ events' = ParseEvents(logs)
       \/ call.at = "thrown" /\ at' = GivesUp /\ UNCHANGED events
    /\ UNCHANGED <<rpcVars, client, logs, stored>>

EntityOf(event) == IF client = "crawler" THEN CrawlerRow(event) ELSE FallbackRow(event)

(* One transaction: a row that does not fit its columns undoes the batch.  *)
(* The fallback crawler answers that it could not parse when nothing is    *)
(* left.                                                                   *)
Save ==
    /\ at = "save"
    /\ LET batch == [i \in DOMAIN events |-> EntityOf(events[i])]
       IN IF (\A i \in DOMAIN batch : Fits(batch[i])) /\ (client = "crawler" \/ events # <<>>)
          THEN at' = "done" /\ stored' = batch
          ELSE at' = GivesUp /\ UNCHANGED stored
    /\ UNCHANGED <<rpcVars, client, logs, events>>

ClientStep == FetchEvents \/ Fetched \/ Save

FetchNext ==
    \/ ClientStep
    \/ CallStep /\ UNCHANGED <<client, logs, at, events, stored>>
    \/ NodeChanges /\ UNCHANGED <<client, logs, at, events, stored>>

(* Every call is answered or times out, and the client goes on.            *)
FetchSpec ==
    /\ FetchInit /\ [][FetchNext]_fetchVars
    /\ WF_fetchVars(ClientStep)
    /\ WF_fetchVars(CallStep /\ UNCHANGED <<client, logs, at, events, stored>>)

-----------------------------------------------------------------------------

\* Every variable has its type.
FetchTypeOK ==
    /\ RpcTypeOK
    /\ client \in {"crawler", "fallback"}
    /\ at \in {"idle", "nodes", "save", "done", "failed"}
    /\ client = "crawler" => at # "failed"
    /\ Len(events) <= Len(logs) /\ Len(stored) <= Len(logs)
    /\ \A i \in DOMAIN stored : stored[i].amount \in 0..(MaxStored - 1)

(* What the table should say of a log.  Half a unit is lost in rounding.   *)
Near(amount, raw, decimals) ==
    LET units == amount * Power10[decimals]
        wanted == raw * Power10[Scale]
        half == Power10[decimals]
    IN 2 * (units - wanted) \in (-half)..half
Usual(log) == Decoded(log) /\ log.decimals \in 1..MaxScale

\* Stored rows are in the order of their events, none of which is missing or
\* told twice, and each amount is the event's divided by its decimals, to half
\* a unit of the column.
UsualUpTo(i) == Cardinality({j \in 1..i : Usual(logs[j])})
AmountsScaled ==
    at = "done" /\ (\A i \in DOMAIN logs : Decoded(logs[i]) => Usual(logs[i])) =>
        /\ Len(stored) = UsualUpTo(Len(logs))
        /\ \A i \in DOMAIN logs :
             Usual(logs[i]) =>
                 LET row == stored[UsualUpTo(i)]
                 IN /\ row.rawAmount = logs[i].amount
                    /\ row.operation = logs[i].eventName
                    /\ Near(row.amount, logs[i].amount, logs[i].decimals)

\* A row that the fallback crawler has stored agrees with itself: its amount is
\* its raw amount divided by its token_decimals, whatever the event says.
FallbackConsistent ==
    client = "fallback" =>
        \A i \in DOMAIN stored :
            Near(stored[i].amount, stored[i].rawAmount, stored[i].tokenDecimals)

\* The comment on the columns: amount is divided by (token_)decimals.
DividedByDecimals ==
    \A i \in DOMAIN stored :
        Near(stored[i].amount, stored[i].rawAmount, stored[i].tokenDecimals)

(* A node answers, and those before it on the list fail with the errors    *)
(* that callRpc lists.                                                     *)
Reachable ==
    \E u \in 1..Urls :
        node[u] = "ok" /\ \A v \in 1..(u - 1) : node[v] \in Messages \cup {"ok"}

\* Once a node can be reached the crawler stores its batch, unless a row does
\* not fit the columns.
BatchStored ==
    client = "crawler" =>
        ((<>[]Reachable) => <>(at = "done" \/ \E i \in DOMAIN events : ~ Fits(CrawlerRow(events[i]))))

\* The fallback crawler answers each request, whatever the nodes do.
RequestAnswered == client = "fallback" => <>(at \in {"done", "failed"})

=============================================================================
