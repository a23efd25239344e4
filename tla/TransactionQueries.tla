------------------------- MODULE TransactionQueries -------------------------
(***************************************************************************)
(* The listings of TransactionsController, TransactionsService and         *)
(* TransactionRepository: a client walks through the pages of a listing    *)
(* while the crawlers change the table.                                    *)
(*                                                                         *)
(* A request selects one page and then counts the rows of the listing, in  *)
(* two statements; between any two statements the table may change in any  *)
(* way that TransactionTable!Changes allows, and EvmCrawler and Indexer    *)
(* are checked to allow no other.  A row keeps the columns that the        *)
(* listings look at; address stands for the other columns that never       *)
(* change (chainId, operation, tokenAddress) as well.                      *)
(***************************************************************************)
EXTENDS TransactionTable, FiniteSets

CONSTANTS
    Txs,         \* bound: transactions
    MaxHeight,   \* bound: blocks
    Addresses,
    AddressOf,   \* transaction -> the address of its row
    Queries,     \* the requests that clients make
    MaxLimit,    \* bound: rows per page
    MaxChanges   \* bound: changes of the table during a walk

ASSUME QueriesAssumption ==
    /\ IsFiniteSet(Txs)
    /\ MaxHeight \in Nat /\ MaxLimit \in Nat \ {0} /\ MaxChanges \in Nat
    /\ AddressOf \in [Txs -> Addresses]

VARIABLES
    rows,     \* the transactions table
    changes,  \* changes of the table so far
    at,       \* what the client waits for
    query,    \* the listing and its parameters
    page,     \* the page it asks for
    got,      \* the rows of that page
    total,    \* the number of rows it was last told
    seen,     \* the places of all rows it has got
    start,    \* the places listed when the walk began
    ever,     \* the places listed at any time since
    left,     \* the places that have left the listing since
    departures  \* how often one has, which may be more than once for a place

walk == <<at, query, page, got, total, seen, start, ever, left, departures>>
vars == <<rows, changes, walk>>

NotGiven == "none"     \* a parameter that is not given
Absent == -1     \* fromBlock or toBlock that is not given
Heights == 1..MaxHeight

Row == [tx : Txs, block : Heights, status : Statuses]
Tables == UNION {{{[tx |-> t, block |-> b[t], status |-> s[t]] : t \in some} :
                    b \in [some -> Heights], s \in [some -> Statuses]} : some \in SUBSET Txs}

Successors == [t \in Tables |-> {u \in Tables \ {t} : Changes(t, u)}]

Query ==
    [listing : {"search", "chain", "address", "blocks"}, address : Addresses \cup {NotGiven},
     status : Statuses \cup {NotGiven}, fromBlock : {Absent} \cup 0..MaxHeight,
     toBlock : {Absent} \cup 0..MaxHeight, limit : 1..MaxLimit]

-----------------------------------------------------------------------------
(* The ValidationPipe.  Query parameters are text; @Type turns page and    *)
(* limit into numbers, nothing does so for fromBlock and toBlock, and      *)
(* @IsNumber refuses them.                                                 *)
Accepted(q) == q.fromBlock = Absent /\ q.toBlock = Absent

(* Parameters that the listing's route does not have are stripped or are   *)
(* not given; those it requires are.                                       *)
WellFormed(q) ==
    /\ q \in Query
    /\ q.listing # "search" => q.status = NotGiven
    /\ q.listing \in {"chain", "blocks"} => q.address = NotGiven
    /\ q.listing = "address" => q.address # NotGiven
    /\ q.listing \in {"chain", "address"} => q.fromBlock = Absent /\ q.toBlock = Absent
    /\ q.listing = "blocks" => q.fromBlock # Absent /\ q.toBlock # Absent

ASSUME WellFormedQueries == \A q \in Queries : WellFormed(q)

-----------------------------------------------------------------------------
(* TransactionRepository                                                   *)

(* if (fromBlock && toBlock): 0 and a missing bound are no bound.          *)
InBlocks(q, r) ==
    IF q.listing = "blocks" THEN r.block \in q.fromBlock..q.toBlock
    ELSE q.fromBlock \in Heights /\ q.toBlock \in Heights =>
            r.block \in q.fromBlock..q.toBlock

Matches(q, r) ==
    /\ q.address # NotGiven => AddressOf[r.tx] = q.address
    /\ q.status # NotGiven => r.status = q.status
    /\ InBlocks(q, r)

Listing(q, table) == {r \in table : Matches(q, r)}

(* ORDER BY block_number: whether the rows of block b come before those of c. *)
Precedes(q, b, c) == IF q.listing = "blocks" THEN b < c ELSE b > c

Skip_PagesFromZero(q, n) == n * q.limit
Skip(q, n) == (n - 1) * q.limit

(* Nothing else orders them: rows of one block come in any order, and      *)
(* in another one the next time.  A set of rows can be the first of the    *)
(* listing if it has no row without those that precede it.                 *)
Leads_Unsorted(q, table, part) == TRUE
Leads(q, table, part) ==
    \A r \in part, s \in Listing(q, table) : Precedes(q, s.block, r.block) => s \in part

Smaller(a, b) == IF a < b THEN a ELSE b

(* The rows that findAndCount() may select for page n.                     *)
Pages_WithoutTake(q, n, table) ==
    {p \in SUBSET Listing(q, table) :
        /\ Cardinality(p) >= Cardinality(Listing(q, table)) - Skip(q, n)
        /\ Leads(q, table, Listing(q, table) \ p)}
Pages(q, n, table) ==
    LET all == Listing(q, table)
        skipped == Smaller(Skip(q, n), Cardinality(all))
        taken == Smaller(q.limit, Cardinality(all) - skipped)
    IN {p \in SUBSET all :
          /\ Cardinality(p) = taken
          /\ \E before \in SUBSET (all \ p) :
                /\ Cardinality(before) = skipped
                /\ Leads(q, table, before) /\ Leads(q, table, before \cup p)}

-----------------------------------------------------------------------------
(* A walk                                                                  *)

Place(r) == <<r.tx, r.block>>
Places(q, table) == {Place(r) : r \in Listing(q, table)}

Init ==
    /\ rows \in Tables /\ changes = 0
    /\ at = "idle"
    /\ query \in Queries
    /\ page = 1 /\ got = {} /\ total = 0
    /\ seen = {} /\ start = {} /\ ever = {} /\ left = {} /\ departures = 0

(* A request arrives and is validated.                                     *)
Ask ==
    /\ at = "idle"
    /\ at' = IF Accepted(query) THEN "select" ELSE "refused"
    /\ start' = Places(query, rows) /\ ever' = Places(query, rows)
    /\ UNCHANGED <<rows, changes, query, page, got, total, seen, left, departures>>

Select ==
    /\ at = "select"
    /\ at' = "count"
    /\ got' \in Pages(query, page, rows)
    /\ seen' = seen \cup {Place(r) : r \in got'}
    /\ UNCHANGED <<rows, changes, query, page, total, start, ever, left, departures>>

(* The second statement of findAndCount(); for a page that is not full     *)
(* TypeORM may add up the total instead.                                   *)
Totals(q, n, selected, table) ==
    {Cardinality(Listing(q, table))}
        \cup {t \in {Skip(q, n) + Cardinality(selected)} : Cardinality(selected) < q.limit}

(* The client asks for page after page until it has had the total.         *)
Count_OfPage ==
    /\ at = "count"
    /\ total' = Cardinality(got)
    /\ IF page * query.limit < total'
         THEN at' = "select" /\ page' = page + 1
         ELSE at' = "done" /\ UNCHANGED page
    /\ got' = {}
    /\ UNCHANGED <<rows, changes, query, seen, start, ever, left, departures>>
Count ==
    /\ at = "count"
    /\ total' \in Totals(query, page, got, rows)
    /\ IF page * query.limit < total'
         THEN at' = "select" /\ page' = page + 1
         ELSE at' = "done" /\ UNCHANGED page
    /\ got' = {}
    /\ UNCHANGED <<rows, changes, query, seen, start, ever, left, departures>>

(* One of the crawlers commits.                                            *)
TableChanges ==
    /\ at \in {"select", "count"}
    /\ changes < MaxChanges
    /\ changes' = changes + 1
    /\ rows' \in Successors[rows]
    /\ ever' = ever \cup Places(query, rows')
    /\ LET gone == Places(query, rows) \ Places(query, rows')
       IN left' = left \cup gone /\ departures' = departures + Cardinality(gone)
    /\ UNCHANGED <<at, query, page, got, total, seen, start>>

Serve == Ask \/ Select \/ Count

Next == Serve \/ TableChanges

Spec == Init /\ [][Next]_vars

-----------------------------------------------------------------------------

\* Every variable has its type.
TypeOK ==
    /\ rows \in Tables
    /\ changes \in 0..MaxChanges
    /\ at \in {"idle", "select", "count", "done", "refused"}
    /\ query \in Query
    /\ page \in Nat \ {0} /\ total \in Nat
    /\ got \subseteq Row /\ Cardinality(got) \in 0..query.limit
    /\ {seen, start, ever, left} \subseteq SUBSET (Txs \X Heights)
    /\ departures \in Nat

\* A walk during which no row leaves the listing shows every row that was
\* there when it began, unless another row of the listing is of the same block.
Shared(p) == \E o \in ever : o # p /\ o[2] = p[2]
NothingSkipped ==
    at = "done" /\ left = {} => \A p \in start : p \in seen \/ Shared(p)

\* When rows do leave, as they do in a rollback, the walk skips at most as many
\* of those that stay as have left, again without those that share a block.  A
\* row that leaves, comes back and leaves again counts twice.
Skipped == {p \in (start \ seen) \ left : ~ Shared(p)}
SkipsBounded == at = "done" => Cardinality(Skipped) <= departures

\* The inductive invariant behind the two: of the rows that stay and that the
\* client has not got, no more than have left lie before the pages it has yet to
\* ask for.
Before(p) == {o \in Places(query, rows) : Precedes(query, o[2], p[2])}
Shown == IF at = "select" THEN Skip(query, page) ELSE Skip(query, page + 1)
Lost == {p \in Skipped : Cardinality(Before(p)) < Shown}
WalkInv ==
    /\ at = "idle" => page = 1 /\ seen = {} /\ left = {} /\ departures = 0
    /\ at # "idle" => start \ left \subseteq Places(query, rows)
    /\ at # "idle" => start \cup Places(query, rows) \subseteq ever
    /\ left = {} => departures = 0
    /\ at \in {"select", "count"} => Cardinality(Lost) <= departures
    /\ at = "count" /\ Cardinality(got) < query.limit => Cardinality(Skipped) <= departures
    /\ SkipsBounded

\* A request for the transactions of a range of blocks is answered.
RangeAnswered == query.listing = "blocks" => at # "refused"

=============================================================================
