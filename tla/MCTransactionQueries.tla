------------------------ MODULE MCTransactionQueries ------------------------
(* Small instances of TransactionQueries for TLC.                          *)
EXTENDS TransactionQueries, TLC

CONSTANTS t1, t2, t3, a1, a2

ThreeTxs == {t1, t2, t3}
TwoAddresses == {a1, a2}
LastOfSecond == [t \in ThreeTxs |-> IF t = t3 THEN a2 ELSE a1]
SameAddress == Permutations({t1, t2})

Everything == [listing |-> "search", address |-> NotGiven, status |-> NotGiven,
               fromBlock |-> Absent, toBlock |-> Absent, limit |-> 1]

\* Each route and each kind of filter, with pages of one row and of two.
Walks ==
    {[Everything EXCEPT !.listing = l, !.limit = n] : l \in {"search", "chain"}, n \in 1..2}
        \cup {[Everything EXCEPT !.status = s] : s \in Statuses}
        \cup {[Everything EXCEPT !.listing = "address", !.address = a1],
              [Everything EXCEPT !.address = a2],
              [Everything EXCEPT !.fromBlock = 0],
              [Everything EXCEPT !.listing = "blocks", !.fromBlock = 1, !.toBlock = 2]}
=============================================================================
