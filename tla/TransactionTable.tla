-------------------------- MODULE TransactionTable --------------------------
(***************************************************************************)
(* The "transactions" table (transaction.entity.ts) and the statements     *)
(* that the crawler runs on it.  A row keeps the columns the crawler       *)
(* decides: transaction_hash, the log that produced the row, block_number, *)
(* block_hash, confirmations and status.                                   *)
(***************************************************************************)
EXTENDS Integers

CONSTANT RequiredConfirmations  \* chainConfig.requiredConfirmations

ASSUME ConfirmationsAssumption == RequiredConfirmations \in Nat \ {0}

Statuses == {"PENDING", "CONFIRMED"}

StatusFor(confirmations) ==
    IF confirmations >= RequiredConfirmations THEN "CONFIRMED" ELSE "PENDING"

(* events[0] is an event of the lowest block: eth_getLogs answers in chain *)
(* order and parseEvents keeps it.                                         *)
FirstBlocks(events) ==
    {b \in {e.block : e \in events} : \A e \in events : b <= e.block}

(* The entities of one batch.  Their confirmations are all counted from    *)
(* the block of events[0].                                                 *)
NewRows_OneTooMany(events, latest, hashes) ==
    {[tx |-> e.tx, log |-> e.log, block |-> e.block, hash |-> hashes[e.block],
      confirmations |-> latest - first + 2,
      status |-> StatusFor(latest - first + 2)] :
        e \in events, first \in FirstBlocks(events)}
NewRows(events, latest, hashes) ==
    {[tx |-> e.tx, log |-> e.log, block |-> e.block, hash |-> hashes[e.block],
      confirmations |-> latest - first + 1,
      status |-> StatusFor(latest - first + 1)] :
        e \in events, first \in FirstBlocks(events)}

(* Whether inserting new violates the unique index on transaction_hash.    *)
Conflicts(table, new) ==
    \/ \E n \in new, r \in table : r.tx = n.tx
    \/ \E n, m \in new : m # n /\ m.tx = n.tx

(* Upserting the batch row after row: the last log of a transaction wins.  *)
Upserted_DoNothing(table, new) == table
Upserted_Appends(table, new) == table \cup new
Upserted(table, new) ==
    {r \in table : \A n \in new : n.tx # r.tx}
        \cup {n \in new : \A m \in new : m.tx = n.tx => m.log <= n.log}

(* The second half of saveState: rows short of confirmations are counted   *)
(* again, each from its own block.                                         *)
Recount(r, latest) ==
    LET depth == latest - r.block + 1
        count == IF depth < RequiredConfirmations THEN depth ELSE RequiredConfirmations
    IN [r EXCEPT !.confirmations = count, !.status = StatusFor(count)]

Reconfirmed_Never(table, latest) == table
Reconfirmed(table, latest) ==
    {IF r.confirmations < RequiredConfirmations THEN Recount(r, latest) ELSE r : r \in table}

(* DELETE ... WHERE block_number >= b.                                     *)
RolledBack_KeepsFirst(table, b) == {r \in table : r.block <= b}
RolledBack_OneBlock(table, b) == {r \in table : r.block # b}
RolledBack(table, b) == {r \in table : r.block < b}

(* What a reader of the table relies on: a statement that commits either   *)
(* deletes the rows from some block on, or adds and updates rows, and no   *)
(* transaction has two.  The rows are those of one chain, as everywhere in *)
(* these modules: each statement of the crawler names its own chainId.     *)
Changes(table, next) ==
    /\ \A r, s \in next : r.tx = s.tx => r = s
    /\ \/ \E b \in {r.block : r \in table} : next = {r \in table : r.block < b}
       \/ \A r \in table : \E s \in next : s.tx = r.tx

=============================================================================
