---------------------- MODULE TransactionQueries_proofs ----------------------
(***************************************************************************)
(* A walk through the pages skips no row that stays, except for one for    *)
(* each time that a row leaves: for every table, listing, page size and    *)
(* number of changes.                                                      *)
(***************************************************************************)
EXTENDS TransactionQueries, FiniteSetTheorems, TLAPS

-----------------------------------------------------------------------------
(* Tables, listings and places                                             *)

\* A table is a finite set of rows, one for each of its transactions.
LEMMA TableFacts ==
    ASSUME NEW table \in Tables
    PROVE  /\ table \subseteq Row
           /\ \A r, s \in table : r.tx = s.tx => r = s
           /\ IsFiniteSet(table)
<1>0. PICK some \in SUBSET Txs :
        \E b \in [some -> Heights], s \in [some -> Statuses] :
            table = {[tx |-> t, block |-> b[t], status |-> s[t]] : t \in some}
    BY DEF Tables
<1>1. PICK b \in [some -> Heights], s \in [some -> Statuses] :
        table = {[tx |-> t, block |-> b[t], status |-> s[t]] : t \in some}
    BY <1>0
<1>2. table \subseteq Row
    BY <1>1 DEF Row
<1>3. \A r, q \in table : r.tx = q.tx => r = q
    BY <1>1
<1>4. IsFiniteSet(table)
    <2> DEFINE f == [r \in table |-> r.tx]
    <2>1. f \in [table -> Txs]
        BY <1>2 DEF Row
    <2>2. f \in Injection(table, Txs)
        BY <1>3, <2>1 DEF Injection, IsInjective
    <2> QED BY <2>2, FS_Injection, QueriesAssumption
<1> QED BY <1>2, <1>3, <1>4

\* Rows of one table have as many places as there are rows.
LEMMA PlacesCount ==
    ASSUME NEW table \in Tables, NEW part \in SUBSET table
    PROVE  LET places == {Place(r) : r \in part}
           IN  /\ IsFiniteSet(part) /\ IsFiniteSet(places)
               /\ Cardinality(places) = Cardinality(part)
<1> DEFINE places == {Place(r) : r \in part}
           f == [r \in part |-> Place(r)]
<1>1. IsFiniteSet(part)
    BY TableFacts, FS_Subset
<1>2. f \in [part -> places]
    OBVIOUS
<1>3. \A r, s \in part : f[r] = f[s] => r = s
    BY TableFacts DEF Place
<1>4. \A p \in places : \E r \in part : f[r] = p
    OBVIOUS
<1>5. f \in Bijection(part, places)
    BY <1>2, <1>3, <1>4 DEF Bijection, Injection, IsInjective, Surjection
<1>6. ExistsBijection(part, places)
    BY <1>5 DEF ExistsBijection
<1> QED BY <1>1, <1>6, FS_Bijection

\* The pages of a query, one after the other, cover the listing.
LEMMA SkipFacts ==
    ASSUME NEW q \in Query, NEW n \in Nat \ {0}
    PROVE  /\ q.limit \in Nat \ {0}
           /\ Skip(q, n) \in Nat /\ Skip(q, 1) = 0
           /\ Skip(q, n + 1) = Skip(q, n) + q.limit
           /\ Skip(q, n + 1) = n * q.limit
<1>1. q.limit \in Nat \ {0}
    BY QueriesAssumption DEF Query
<1>2. \A m \in Nat, l \in Nat : m * l \in Nat
    OBVIOUS
<1>3. \A m \in Nat, l \in Nat : 0 * l = 0 /\ m * l = (m + 1 - 1) * l
    OBVIOUS
<1>4. \A m \in Nat \ {0}, l \in Nat : m * l = (m - 1) * l + l
    OBVIOUS
<1>5. n - 1 \in Nat
    OBVIOUS
<1> QED BY <1>1, <1>2, <1>3, <1>4, <1>5 DEF Skip

\* The order of a listing.
LEMMA PrecedesFacts ==
    ASSUME NEW q, NEW b \in Int, NEW c \in Int, NEW d \in Int
    PROVE  /\ ~ (Precedes(q, b, c) /\ Precedes(q, c, b)) /\ ~ Precedes(q, b, b)
           /\ Precedes(q, b, c) /\ Precedes(q, c, d) => Precedes(q, b, d)
           /\ b # c => Precedes(q, b, c) \/ Precedes(q, c, b)
BY DEF Precedes

\* A page has the row that it is the turn of, if no other row is of its block.
LEMMA PageHolds ==
    ASSUME NEW q \in Query, NEW n \in Nat \ {0}, NEW table \in Tables,
           NEW part \in Pages(q, n, table), NEW r \in Listing(q, table),
           \A s \in Listing(q, table) : s.block = r.block => s = r
    PROVE  LET ahead == {s \in Listing(q, table) : Precedes(q, s.block, r.block)}
               before == Cardinality(ahead)
           IN  /\ Skip(q, n) <= before /\ before < Skip(q, n + 1) => r \in part
               /\ Skip(q, n) <= before /\ Cardinality(part) < q.limit => r \in part
<1> DEFINE all == Listing(q, table)
           ahead == {s \in all : Precedes(q, s.block, r.block)}
           k == Cardinality(ahead)
           size == Cardinality(all)
           skipped == Smaller(Skip(q, n), size)
           taken == Smaller(q.limit, size - skipped)
<1>1. /\ all \subseteq table /\ IsFiniteSet(all) /\ IsFiniteSet(ahead)
      /\ size \in Nat /\ k \in Nat
    BY TableFacts, FS_Subset, FS_CardinalityType DEF Listing
<1>2. k + 1 <= size
    <2>1. r \notin ahead /\ r.block \in Int
        BY <1>1, TableFacts, PrecedesFacts, QueriesAssumption DEF Row, Heights
    <2>2. Cardinality(ahead \cup {r}) = k + 1
        BY <1>1, <2>1, FS_AddElement
    <2>3. Cardinality(ahead \cup {r}) <= size
        BY <1>1, FS_Subset
    <2> QED BY <1>1, <2>2, <2>3
<1>3. /\ q.limit \in Nat \ {0} /\ Skip(q, n) \in Nat
      /\ Skip(q, n + 1) = Skip(q, n) + q.limit
    BY SkipFacts
<1>4. /\ part \subseteq all /\ Cardinality(part) = taken
      /\ \E before \in SUBSET (all \ part) :
            /\ Cardinality(before) = skipped
            /\ Leads(q, table, before) /\ Leads(q, table, before \cup part)
    BY DEF Pages
<1>5. PICK before \in SUBSET (all \ part) :
        /\ Cardinality(before) = skipped
        /\ Leads(q, table, before) /\ Leads(q, table, before \cup part)
    BY <1>4
<1>6. /\ IsFiniteSet(before) /\ IsFiniteSet(part)
      /\ Cardinality(before \cup part) = skipped + taken
    <2>1. before \in SUBSET all /\ part \in SUBSET all /\ before \cap part = {}
        BY <1>4
    <2>2. IsFiniteSet(before) /\ IsFiniteSet(part)
        BY <1>1, <2>1, FS_Subset
    <2>3. Cardinality(before \cup part)
            = Cardinality(before) + Cardinality(part) - Cardinality(before \cap part)
        BY <2>2, FS_Union
    <2>4. Cardinality(before \cap part) = 0
        BY <2>1, FS_EmptySet
    <2>5. Cardinality(before) \in Nat /\ Cardinality(part) \in Nat
        BY <2>2, FS_CardinalityType
    <2> HIDE DEF skipped, taken
    <2> QED BY <1>4, <1>5, <2>2, <2>3, <2>4, <2>5
\* If it is its turn, r is not among the rows skipped, ...
<1>7. ASSUME Skip(q, n) <= k PROVE r \notin before /\ skipped = Skip(q, n)
    <2>1. skipped = Skip(q, n)
        BY <1>1, <1>2, <1>3, <1>7 DEF Smaller
    <2>2. ASSUME r \in before PROVE FALSE
        <3>1. ahead \cup {r} \subseteq before
            BY <1>5, <2>2 DEF Leads
        <3>2. Cardinality(ahead \cup {r}) <= Cardinality(before)
            BY <1>6, <3>1, FS_Subset
        <3>3. Cardinality(ahead \cup {r}) = k + 1
            <4>1. r \notin ahead
                BY <1>1, TableFacts, PrecedesFacts, QueriesAssumption DEF Row, Heights
            <4> QED BY <1>1, <4>1, FS_AddElement
        <3> HIDE DEF k, skipped
        <3> QED BY <1>1, <1>3, <1>5, <1>7, <2>1, <3>2, <3>3
    <2> QED BY <2>1, <2>2
\* ... and if it is not on the page either, all up to the end of the page precede it.
<1>8. ASSUME r \notin before, r \notin part PROVE skipped + taken <= k
    <2>1. before \cup part \subseteq ahead
        <3> SUFFICES ASSUME NEW s \in before \cup part PROVE Precedes(q, s.block, r.block)
            BY <1>4
        <3>1. s \in all /\ s # r
            BY <1>4, <1>8
        <3>2. s.block # r.block
            BY <3>1
        <3>3. s.block \in Int /\ r.block \in Int
            BY <1>1, <3>1, TableFacts, QueriesAssumption DEF Row, Heights
        <3>4. ~ Precedes(q, r.block, s.block)
            BY <1>5, <1>8 DEF Leads
        <3> QED BY <3>2, <3>3, <3>4, PrecedesFacts
    <2>2. Cardinality(before \cup part) <= k
        BY <1>1, <2>1, FS_Subset
    <2> HIDE DEF skipped, taken, k
    <2> QED BY <1>6, <2>2
<1>9. ASSUME Skip(q, n) <= k, r \notin part
      PROVE  k >= Skip(q, n + 1) /\ Cardinality(part) >= q.limit
    <2>1. skipped + taken <= k /\ skipped = Skip(q, n)
        BY <1>7, <1>8, <1>9
    <2>2. taken = q.limit
        <3>1. taken = q.limit \/ taken = size - skipped
            BY DEF Smaller
        <3> HIDE DEF taken, skipped, size, k
        <3> QED BY <1>1, <1>2, <1>3, <2>1, <3>1
    <2> HIDE DEF skipped, taken, size, k
    <2> QED BY <1>1, <1>3, <1>4, <2>1, <2>2
<1> HIDE DEF skipped, taken, size, all
<1>10. k \in Nat /\ Cardinality(part) \in Nat
    BY <1>1, <1>6, FS_CardinalityType
<1> QED BY <1>3, <1>9, <1>10 DEF all

\* The places of a listing.
LEMMA PlacesFacts ==
    ASSUME NEW q, NEW table \in Tables
    PROVE  /\ Places(q, table) \subseteq Txs \X Heights
           /\ IsFiniteSet(Places(q, table))
           /\ Cardinality(Places(q, table)) = Cardinality(Listing(q, table))
           /\ Cardinality(Places(q, table)) \in Nat
<1>1. Listing(q, table) \in SUBSET table
    BY DEF Listing
<1>2. Places(q, table) \subseteq Txs \X Heights
    BY <1>1, TableFacts DEF Places, Place, Row
<1> QED BY <1>1, <1>2, PlacesCount, FS_CardinalityType DEF Places

-----------------------------------------------------------------------------
(* Types                                                                   *)

\* A page has no more rows than the client asked for.
LEMMA PagesType ==
    ASSUME NEW q \in Query, NEW n \in Nat \ {0}, NEW table \in Tables,
           NEW part \in Pages(q, n, table)
    PROVE  /\ part \subseteq Listing(q, table) /\ part \subseteq Row
           /\ IsFiniteSet(part) /\ Cardinality(part) \in Nat
           /\ Cardinality(part) <= q.limit
           /\ Cardinality(part) < q.limit =>
                Cardinality(Listing(q, table)) < Skip(q, n + 1)
<1> DEFINE size == Cardinality(Listing(q, table))
           skipped == Smaller(Skip(q, n), size)
<1>1. part \subseteq Listing(q, table) /\ Cardinality(part) = Smaller(q.limit, size - skipped)
    BY DEF Pages
<1>2. part \subseteq Row /\ IsFiniteSet(part)
    BY <1>1, TableFacts, FS_Subset DEF Listing
<1>3. size \in Nat
    BY PlacesFacts
<1>4. /\ q.limit \in Nat \ {0} /\ Skip(q, n) \in Nat
      /\ Skip(q, n + 1) = Skip(q, n) + q.limit
    BY SkipFacts
<1>5. Cardinality(part) \in Nat
    BY <1>2, FS_CardinalityType
<1> HIDE DEF size
<1> QED BY <1>1, <1>2, <1>3, <1>4, <1>5 DEF Smaller, size

LEMMA InitWalkTypeOK == Init => TypeOK
<1> SUFFICES ASSUME Init PROVE TypeOK
    OBVIOUS
<1>1. query \in Query
    BY WellFormedQueries DEF Init, WellFormed
<1>2. Cardinality(got) \in 0..query.limit
    <2>1. query.limit \in Nat \ {0} /\ Cardinality({}) = 0
        BY <1>1, FS_EmptySet, QueriesAssumption DEF Query
    <2> QED BY <2>1 DEF Init
<1> QED BY <1>1, <1>2, QueriesAssumption DEF Init, TypeOK

LEMMA StepWalkTypeOK == TypeOK /\ [Next]_vars => TypeOK'
<1> SUFFICES ASSUME TypeOK, [Next]_vars PROVE TypeOK'
    OBVIOUS
<1>0. /\ rows \in Tables /\ query \in Query /\ page \in Nat \ {0} /\ query.limit \in Nat \ {0}
      /\ Places(query, rows) \subseteq Txs \X Heights
    BY SkipFacts, PlacesFacts DEF TypeOK
<1>1. CASE Ask
    BY <1>0, <1>1 DEF Ask, TypeOK
<1>2. CASE Select
    <2>1. /\ got' \subseteq Row /\ Cardinality(got') \in 0..query.limit
          /\ got' \subseteq Listing(query, rows)
        BY <1>0, <1>2, PagesType DEF Select
    <2>2. {Place(r) : r \in got'} \subseteq Txs \X Heights
        BY <2>1 DEF Place, Row
    <2> QED BY <1>2, <2>1, <2>2 DEF Select, TypeOK
<1>3. CASE Count
    <2>1. total' \in Nat
        <3>1. Cardinality(Listing(query, rows)) \in Nat
            BY <1>0, PlacesFacts
        <3>2. total' = Skip(query, page) + Cardinality(got) => total' \in Nat
            <4>1. Skip(query, page) \in Nat
                BY <1>0, SkipFacts
            <4>2. Cardinality(got) \in Nat
                BY <1>0 DEF TypeOK
            <4> QED BY <4>1, <4>2
        <3> QED BY <1>3, <3>1, <3>2 DEF Count, Totals
    <2>2. /\ page' \in Nat \ {0} /\ at' \in {"select", "done"} /\ got' = {}
          /\ UNCHANGED <<rows, changes, query, seen, start, ever, left, departures>>
        BY <1>0, <1>3 DEF Count
    <2>3. Cardinality(got') \in 0..query'.limit
        BY <1>0, <2>2, FS_EmptySet
    <2> QED BY <2>1, <2>2, <2>3 DEF TypeOK
<1>4. CASE TableChanges
    <2> DEFINE gone == Places(query, rows) \ Places(query, rows')
    <2>1. rows' \in Tables
        BY <1>0, <1>4 DEF TableChanges, Successors
    <2>2. changes' \in 0..MaxChanges
        BY <1>4, QueriesAssumption DEF TableChanges, TypeOK
    <2>3. Places(query, rows') \subseteq Txs \X Heights
        BY <2>1, PlacesFacts
    <2>4. IsFiniteSet(gone) /\ Cardinality(gone) \in Nat
        BY <1>0, PlacesFacts, FS_Difference, FS_CardinalityType
    <2>5. left' = left \cup gone /\ departures' = departures + Cardinality(gone)
        BY <1>4 DEF TableChanges
    <2>6. left' \subseteq Txs \X Heights /\ ever' \subseteq Txs \X Heights
        BY <1>0, <1>4, <2>3, <2>5 DEF TableChanges, TypeOK
    <2>7. departures' \in Nat
        BY <2>4, <2>5 DEF TypeOK
    <2> HIDE DEF gone
    <2> QED BY <1>4, <2>1, <2>2, <2>6, <2>7 DEF TableChanges, TypeOK
<1>5. CASE UNCHANGED vars
    BY <1>5 DEF vars, walk, TypeOK
<1> QED BY <1>1, <1>2, <1>3, <1>4, <1>5 DEF Next, Serve

\* Every variable of a walk has its type.
THEOREM WalkTypeCorrect == Spec => []TypeOK
BY InitWalkTypeOK, StepWalkTypeOK, PTL DEF Spec

-----------------------------------------------------------------------------
(* What a walk skips                                                       *)

\* The places that come before p in the listing of a table.
Ahead(q, table, p) == {o \in Places(q, table) : Precedes(q, o[2], p[2])}

LEMMA AheadFacts ==
    ASSUME NEW q, NEW table \in Tables, NEW p
    PROVE  /\ IsFiniteSet(Ahead(q, table, p))
           /\ Cardinality(Ahead(q, table, p)) \in Nat
BY PlacesFacts, FS_Subset, FS_CardinalityType DEF Ahead

\* What has been skipped and stays is in the listing, and is one of finitely many.
LEMMA SkippedFacts ==
    ASSUME TypeOK, WalkInv, at # "idle"
    PROVE  /\ Skipped \subseteq Places(query, rows) /\ Skipped \subseteq ever
           /\ Lost \subseteq Skipped
           /\ IsFiniteSet(Skipped) /\ IsFiniteSet(Lost)
           /\ Cardinality(Skipped) \in Nat /\ Cardinality(Lost) \in Nat
           /\ Cardinality(Lost) <= Cardinality(Skipped)
<1>1. Skipped \subseteq Places(query, rows) /\ Skipped \subseteq ever /\ Lost \subseteq Skipped
    BY DEF WalkInv, Skipped, Lost
<1>2. IsFiniteSet(Skipped)
    BY <1>1, PlacesFacts, FS_Subset DEF TypeOK
<1> QED BY <1>1, <1>2, FS_Subset, FS_CardinalityType

\* Of two rows of different blocks one comes before the other, and has fewer
\* rows before itself.
LEMMA AheadDiffers ==
    ASSUME NEW q, NEW table \in Tables, NEW p \in Places(q, table), NEW o \in Places(q, table),
           p[2] # o[2]
    PROVE  Cardinality(Ahead(q, table, p)) # Cardinality(Ahead(q, table, o))
<1>1. \A x \in Places(q, table) : x[2] \in Int
    BY PlacesFacts, QueriesAssumption DEF Heights
<1>2. ASSUME NEW x \in Places(q, table), NEW y \in Places(q, table), Precedes(q, x[2], y[2])
      PROVE  Cardinality(Ahead(q, table, x)) # Cardinality(Ahead(q, table, y))
    <2>1. Ahead(q, table, x) \subseteq Ahead(q, table, y)
        BY <1>1, <1>2, PrecedesFacts DEF Ahead
    <2>2. x \in Ahead(q, table, y) /\ x \notin Ahead(q, table, x)
        BY <1>1, <1>2, PrecedesFacts DEF Ahead
    <2>3. Ahead(q, table, x) # Ahead(q, table, y)
        BY <2>2
    <2> QED BY <2>1, <2>3, AheadFacts, FS_Subset
<1>3. Precedes(q, p[2], o[2]) \/ Precedes(q, o[2], p[2])
    BY <1>1, PrecedesFacts
<1> QED BY <1>2, <1>3

\* A row has fewer rows before itself than there are.
LEMMA AheadBounded ==
    ASSUME NEW q, NEW table \in Tables, NEW p \in Places(q, table)
    PROVE  Cardinality(Ahead(q, table, p)) < Cardinality(Listing(q, table))
<1>1. p[2] \in Int
    BY PlacesFacts, QueriesAssumption DEF Heights
<1>2. Ahead(q, table, p) \subseteq Places(q, table) /\ p \notin Ahead(q, table, p)
    BY <1>1, PrecedesFacts DEF Ahead
<1>3. Ahead(q, table, p) # Places(q, table)
    BY <1>2
<1>4. /\ Cardinality(Ahead(q, table, p)) <= Cardinality(Places(q, table))
      /\ Cardinality(Ahead(q, table, p)) # Cardinality(Places(q, table))
    BY <1>2, <1>3, PlacesFacts, FS_Subset
<1> QED BY <1>4, PlacesFacts, AheadFacts

LEMMA InitWalkInv == Init => WalkInv
BY DEF Init, WalkInv, SkipsBounded

LEMMA AskKeepsWalk ==
    ASSUME TypeOK, WalkInv, Ask
    PROVE  WalkInv'
<1>1. /\ at' \in {"select", "refused"} /\ start' = Places(query, rows) /\ ever' = start'
      /\ at = "idle" /\ UNCHANGED <<rows, query, page, seen, left, departures>>
    BY DEF Ask
<1>2. page' = 1 /\ left' = {} /\ departures' = 0
    BY <1>1 DEF WalkInv
<1>3. at' = "select" => Lost' = {}
    <2> SUFFICES ASSUME at' = "select", NEW p \in Lost' PROVE FALSE
        OBVIOUS
    <2>1. Cardinality(Before(p)') < Shown'
        BY DEF Lost
    <2>2. Before(p)' = Ahead(query, rows, p)
        BY <1>1 DEF Before, Ahead
    <2>3. Shown' = 0
        BY <1>1, <1>2, SkipFacts DEF Shown, TypeOK
    <2> QED BY <2>1, <2>2, <2>3, AheadFacts DEF TypeOK
<1>4. at' = "select" => Cardinality(Lost') = 0
    BY <1>3, FS_EmptySet
<1> QED BY <1>1, <1>2, <1>4 DEF WalkInv, SkipsBounded

\* A page shows every row, of those that share no block, that it is the turn of.
LEMMA SelectKeepsWalk ==
    ASSUME TypeOK, WalkInv, Select
    PROVE  WalkInv'
<1>0. /\ rows \in Tables /\ query \in Query /\ page \in Nat \ {0} /\ departures \in Nat
      /\ Skip(query, page) \in Nat /\ Skip(query, page + 1) = Skip(query, page) + query.limit
      /\ query.limit \in Nat \ {0}
    BY SkipFacts DEF TypeOK
<1>1. /\ at = "select" /\ at' = "count" /\ got' \in Pages(query, page, rows)
      /\ seen' = seen \cup {Place(r) : r \in got'}
      /\ UNCHANGED <<rows, query, page, start, ever, left, departures>>
    BY DEF Select
<1>2. Skipped' \subseteq Skipped
    BY <1>1 DEF Skipped, Shared
<1>3. Shown = Skip(query, page) /\ Shown' = Skip(query, page + 1)
    BY <1>1 DEF Shown
<1>4. \A p : Before(p) = Ahead(query, rows, p) /\ Before(p)' = Ahead(query, rows, p)
    BY <1>1 DEF Before, Ahead
<1>5. ASSUME NEW p \in Skipped', Skip(query, page) <= Cardinality(Ahead(query, rows, p))
      PROVE  /\ Skip(query, page + 1) <= Cardinality(Ahead(query, rows, p))
             /\ Cardinality(got') >= query.limit
    <2>1. p \in Places(query, rows) /\ ~ Shared(p) /\ p \notin seen'
        BY <1>1, <1>2, SkippedFacts DEF Skipped
    <2>2. PICK r \in Listing(query, rows) : p = Place(r)
        BY <2>1 DEF Places
    <2>3. \A s \in Listing(query, rows) : s.block = r.block => s = r
        <3> SUFFICES ASSUME NEW s \in Listing(query, rows), s.block = r.block PROVE s = r
            OBVIOUS
        <3>1. Place(s) \in ever
            BY <1>1 DEF WalkInv, Places
        <3>2. Place(s)[2] = p[2]
            BY <2>2 DEF Place
        <3>3. Place(s) = Place(r)
            BY <2>1, <2>2, <3>1, <3>2 DEF Shared
        <3>4. s.tx = r.tx
            BY <3>3 DEF Place
        <3> QED BY <1>0, <3>4, TableFacts DEF Listing
    <2> DEFINE ahead == {s \in Listing(query, rows) : Precedes(query, s.block, r.block)}
    <2>4. Cardinality(ahead) = Cardinality(Ahead(query, rows, p))
        <3>1. Ahead(query, rows, p) = {Place(s) : s \in ahead}
            BY <2>2 DEF Ahead, Places, Place
        <3>2. ahead \subseteq rows
            BY DEF Listing
        <3> HIDE DEF ahead
        <3> QED BY <1>0, <3>1, <3>2, PlacesCount
    <2>5. r \notin got'
        BY <1>1, <2>1, <2>2
    <2>6. /\ Skip(query, page) <= Cardinality(ahead) /\ Cardinality(ahead) < Skip(query, page + 1)
               => r \in got'
          /\ Skip(query, page) <= Cardinality(ahead) /\ Cardinality(got') < query.limit
               => r \in got'
        BY <1>0, <1>1, <2>3, PageHolds
    <2>7. Cardinality(got') \in Nat
        BY <1>0, <1>1, PagesType
    <2> HIDE DEF ahead
    <2> QED BY <1>0, <1>5, <2>4, <2>5, <2>6, <2>7, AheadFacts
<1>6. /\ IsFiniteSet(Lost) /\ Cardinality(Lost) \in Nat /\ Cardinality(Lost) <= departures
    BY <1>1, SkippedFacts DEF WalkInv
<1>7. \A p : Cardinality(Ahead(query, rows, p)) \in Nat
    BY <1>0, AheadFacts
<1>8. Lost' \subseteq Lost
    <2> SUFFICES ASSUME NEW p \in Lost' PROVE p \in Lost
        OBVIOUS
    <2>1. p \in Skipped' /\ Cardinality(Ahead(query, rows, p)) < Skip(query, page + 1)
        BY <1>3, <1>4 DEF Lost
    <2>2. Cardinality(Ahead(query, rows, p)) < Skip(query, page)
        BY <1>0, <1>5, <1>7, <2>1
    <2> QED BY <1>2, <1>3, <1>4, <2>1, <2>2 DEF Lost
<1>9. Cardinality(Lost') <= departures
    <2>1. Cardinality(Lost') <= Cardinality(Lost) /\ Cardinality(Lost') \in Nat
        BY <1>6, <1>8, FS_Subset, FS_CardinalityType
    <2> QED BY <1>0, <1>6, <2>1
<1>10. ASSUME Cardinality(got') < query.limit PROVE Cardinality(Skipped') <= departures
    <2>1. Cardinality(got') \in Nat
        BY <1>0, <1>1, PagesType
    <2>2. Skipped' \subseteq Lost
        <3> SUFFICES ASSUME NEW p \in Skipped' PROVE p \in Lost
            OBVIOUS
        <3>1. Cardinality(Ahead(query, rows, p)) < Skip(query, page)
            BY <1>0, <1>5, <1>7, <1>10, <2>1
        <3> QED BY <1>2, <1>3, <1>4, <3>1 DEF Lost
    <2>3. Cardinality(Skipped') <= Cardinality(Lost) /\ Cardinality(Skipped') \in Nat
        BY <1>6, <2>2, FS_Subset, FS_CardinalityType
    <2> QED BY <1>0, <1>6, <2>3
<1> QED BY <1>1, <1>9, <1>10 DEF WalkInv, SkipsBounded

\* The walk ends when nothing is left to come.
LEMMA CountKeepsWalk ==
    ASSUME TypeOK, WalkInv, Count
    PROVE  WalkInv'
<1>0. /\ rows \in Tables /\ query \in Query /\ page \in Nat \ {0} /\ departures \in Nat
      /\ Skip(query, page) \in Nat /\ Skip(query, page + 1) = page * query.limit
      /\ Skip(query, page + 1) \in Nat
      /\ query.limit \in Nat \ {0} /\ Cardinality(got) \in Nat
    BY SkipFacts DEF TypeOK
<1>1. /\ at = "count" /\ total' \in Totals(query, page, got, rows)
      /\ \/ at' = "select" /\ page' = page + 1
         \/ at' = "done" /\ page' = page /\ ~ (page * query.limit < total')
      /\ UNCHANGED <<rows, query, seen, start, ever, left, departures>>
    BY DEF Count
<1>2. Skipped' = Skipped /\ \A p : Before(p)' = Before(p)
    BY <1>1 DEF Skipped, Shared, Before
<1>3. CASE at' = "select" /\ page' = page + 1
    <2>1. Shown' = Shown
        BY <1>1, <1>3 DEF Shown
    <2>2. Lost' = Lost
        BY <1>2, <2>1 DEF Lost
    <2> QED BY <1>1, <1>3, <2>2 DEF WalkInv, SkipsBounded
<1>4. CASE at' = "done" /\ page' = page /\ ~ (page * query.limit < total')
    <2>1. Cardinality(Skipped) <= departures
        <3>1. CASE Cardinality(got) < query.limit
            BY <1>1, <3>1 DEF WalkInv
        <3>2. CASE total' = Cardinality(Listing(query, rows))
            <4>1. Skipped \subseteq Lost
                <5> SUFFICES ASSUME NEW p \in Skipped PROVE p \in Lost
                    OBVIOUS
                <5>1. Cardinality(Ahead(query, rows, p)) < Cardinality(Listing(query, rows))
                    BY <1>0, <1>1, SkippedFacts, AheadBounded
                <5>2. /\ Cardinality(Ahead(query, rows, p)) \in Nat
                      /\ Cardinality(Listing(query, rows)) \in Nat
                    BY <1>0, AheadFacts, PlacesFacts
                <5>3. Cardinality(Ahead(query, rows, p)) < Skip(query, page + 1)
                    BY <1>0, <1>4, <3>2, <5>1, <5>2
                <5>4. Before(p) = Ahead(query, rows, p) /\ Shown = Skip(query, page + 1)
                    BY <1>1 DEF Before, Ahead, Shown
                <5> QED BY <5>3, <5>4 DEF Lost
            <4>2. Skipped = Lost
                BY <4>1 DEF Lost
            <4> QED BY <1>1, <4>2 DEF WalkInv
        <3> QED BY <1>1, <3>1, <3>2 DEF Totals
    <2> QED BY <1>1, <1>2, <1>4, <2>1 DEF WalkInv, SkipsBounded
<1> QED BY <1>1, <1>3, <1>4

\* A row that leaves moves those after it one place up: the walk loses at most one
\* more for each, because rows of different blocks have different places.
LEMMA ChangeKeepsWalk ==
    ASSUME TypeOK, WalkInv, TableChanges
    PROVE  WalkInv'
<1> DEFINE gone == Places(query, rows) \ Places(query, rows')
           d == Cardinality(gone)
<1>0. /\ rows \in Tables /\ query \in Query /\ page \in Nat \ {0} /\ departures \in Nat
      /\ Shown \in Nat
    <2>1. page + 1 \in Nat \ {0}
        BY DEF TypeOK
    <2> QED BY <2>1, SkipFacts DEF TypeOK, Shown
<1>1. /\ at \in {"select", "count"} /\ rows' \in Tables
      /\ ever' = ever \cup Places(query, rows')
      /\ left' = left \cup gone /\ departures' = departures + d
      /\ UNCHANGED <<at, query, page, got, seen, start>>
    BY <1>0 DEF TableChanges, Successors
<1>2. IsFiniteSet(gone) /\ d \in Nat /\ (d = 0 <=> gone = {})
    BY <1>0, PlacesFacts, FS_Difference, FS_CardinalityType, FS_EmptySet
<1> HIDE DEF d
<1>3. Skipped' \subseteq Skipped
    BY <1>1 DEF Skipped, Shared
<1>4. /\ Skipped \subseteq Places(query, rows) /\ Skipped \subseteq ever
      /\ IsFiniteSet(Skipped) /\ IsFiniteSet(Lost)
      /\ Cardinality(Skipped) \in Nat /\ Cardinality(Lost) \in Nat
      /\ Cardinality(Lost) <= departures
    BY <1>1, SkippedFacts DEF WalkInv
<1>5. \A p : Before(p) = Ahead(query, rows, p) /\ Before(p)' = Ahead(query, rows', p)
    BY <1>1 DEF Before, Ahead
<1>6. Shown' = Shown
    BY <1>1 DEF Shown
<1>7. /\ start' \ left' \subseteq Places(query, rows')
      /\ start' \cup Places(query, rows') \subseteq ever'
      /\ left' = {} => departures' = 0
    <2>1. /\ start \ left \subseteq Places(query, rows) /\ start \subseteq ever
          /\ left = {} => departures = 0
        BY <1>1 DEF WalkInv
    <2>2. start' \ left' \subseteq Places(query, rows')
        BY <1>1, <2>1
    <2>3. start' \cup Places(query, rows') \subseteq ever'
        BY <1>1, <2>1
    <2>4. ASSUME left' = {} PROVE departures' = 0
        <3>1. left = {} /\ gone = {}
            BY <1>1, <2>4
        <3> HIDE DEF gone
        <3> QED BY <1>0, <1>1, <1>2, <2>1, <3>1
    <2> QED BY <2>2, <2>3, <2>4
\* Those newly lost had d places or fewer to go.
<1> DEFINE new == {p \in Skipped' : Cardinality(Ahead(query, rows', p)) < Shown} \ Lost
           place == [p \in new |-> Cardinality(Ahead(query, rows, p))]
<1>8. ASSUME NEW p \in new
      PROVE  /\ Shown <= Cardinality(Ahead(query, rows, p))
             /\ Cardinality(Ahead(query, rows, p)) <= Shown + d - 1
    <2>1. p \in Skipped /\ ~ (Cardinality(Ahead(query, rows, p)) < Shown)
        BY <1>3, <1>5 DEF Lost
    <2>2. Cardinality(Ahead(query, rows', p)) < Shown
        OBVIOUS
    <2>3. Ahead(query, rows, p) \subseteq Ahead(query, rows', p) \cup gone
        BY DEF Ahead
    <2>4. /\ IsFiniteSet(Ahead(query, rows', p)) /\ IsFiniteSet(Ahead(query, rows, p))
          /\ Cardinality(Ahead(query, rows', p)) \in Nat /\ Cardinality(Ahead(query, rows, p)) \in Nat
        BY <1>0, <1>1, AheadFacts
    <2>5. /\ IsFiniteSet(Ahead(query, rows', p) \cup gone)
          /\ Cardinality(Ahead(query, rows', p) \cup gone)
               = Cardinality(Ahead(query, rows', p)) + Cardinality(gone)
                   - Cardinality(Ahead(query, rows', p) \cap gone)
        BY <1>2, <2>4, FS_Union
    <2>6. Cardinality(Ahead(query, rows', p) \cap gone) \in Nat
        BY <1>2, <2>4, FS_Intersection, FS_CardinalityType
    <2>7. Cardinality(Ahead(query, rows, p)) <= Cardinality(Ahead(query, rows', p) \cup gone)
        BY <2>3, <2>5, FS_Subset
    <2> HIDE DEF gone, new
    <2> QED BY <1>0, <1>2, <2>1, <2>2, <2>4, <2>5, <2>6, <2>7 DEF d
<1>9. new \subseteq Skipped
    BY <1>3
<1>10. \A p \in new, o \in new : p # o =>
         Cardinality(Ahead(query, rows, p)) # Cardinality(Ahead(query, rows, o))
    <2> SUFFICES ASSUME NEW p \in new, NEW o \in new, p # o
                 PROVE  Cardinality(Ahead(query, rows, p)) # Cardinality(Ahead(query, rows, o))
        OBVIOUS
    <2> HIDE DEF new
    <2>1. p[2] # o[2]
        BY <1>4, <1>9 DEF Skipped, Shared
    <2> QED BY <1>0, <1>4, <1>9, <2>1, AheadDiffers
<1>11. IsFiniteSet(new) /\ Cardinality(new) \in Nat /\ Cardinality(new) <= d
    <2>1. \A p \in new : Cardinality(Ahead(query, rows, p)) \in Shown..(Shown + d - 1)
        BY <1>0, <1>2, <1>8, AheadFacts
    <2> HIDE DEF new
    <2>2. place \in Injection(new, Shown..(Shown + d - 1))
        BY <1>10, <2>1 DEF Injection, IsInjective
    <2>3. /\ IsFiniteSet(Shown..(Shown + d - 1))
          /\ Cardinality(Shown..(Shown + d - 1)) = d
        <3>1. Shown \in Int /\ Shown + d - 1 \in Int
            BY <1>0, <1>2
        <3>2. /\ IsFiniteSet(Shown..(Shown + d - 1))
              /\ Cardinality(Shown..(Shown + d - 1))
                   = IF Shown > Shown + d - 1 THEN 0 ELSE (Shown + d - 1) - Shown + 1
            BY <3>1, FS_Interval
        <3> QED BY <1>0, <1>2, <3>2
    <2> HIDE DEF place
    <2> QED BY <2>2, <2>3, FS_Injection, FS_CardinalityType
<1>12. Lost' \subseteq Lost \cup new
    BY <1>5, <1>6 DEF Lost
<1> HIDE DEF new, gone, place
<1>13. Cardinality(Lost') <= departures'
    <2>1. IsFiniteSet(Lost \cup new) /\ Cardinality(Lost \cup new)
            = Cardinality(Lost) + Cardinality(new) - Cardinality(Lost \cap new)
        BY <1>4, <1>11, FS_Union
    <2>2. Cardinality(Lost \cap new) \in Nat
        BY <1>4, FS_Intersection, FS_CardinalityType
    <2>3. Cardinality(Lost') <= Cardinality(Lost \cup new) /\ Cardinality(Lost') \in Nat
        BY <1>12, <2>1, FS_Subset, FS_CardinalityType
    <2> QED BY <1>0, <1>1, <1>2, <1>4, <1>11, <2>1, <2>2, <2>3
<1>14. Cardinality(Skipped') <= Cardinality(Skipped) /\ Cardinality(Skipped') \in Nat
    BY <1>3, <1>4, FS_Subset, FS_CardinalityType
<1>15. at = "count" /\ Cardinality(got) < query.limit => Cardinality(Skipped') <= departures'
    BY <1>0, <1>1, <1>2, <1>4, <1>14 DEF WalkInv
<1> QED BY <1>1, <1>7, <1>13, <1>15 DEF WalkInv, SkipsBounded

LEMMA StepWalkInv == TypeOK /\ WalkInv /\ [Next]_vars => WalkInv'
<1> SUFFICES ASSUME TypeOK, WalkInv, [Next]_vars PROVE WalkInv'
    OBVIOUS
<1>1. CASE UNCHANGED vars
    BY <1>1 DEF vars, walk, WalkInv, Skipped, Lost, Before, Shown, Shared, SkipsBounded
<1> QED BY <1>1, AskKeepsWalk, SelectKeepsWalk, CountKeepsWalk, ChangeKeepsWalk DEF Next, Serve

\* The invariant behind the bound on skipped rows holds on every walk.
THEOREM WalkInvHolds == Spec => []WalkInv
<1>1. Init => TypeOK /\ WalkInv
    BY InitWalkTypeOK, InitWalkInv
<1>2. TypeOK /\ WalkInv /\ [Next]_vars => (TypeOK /\ WalkInv)'
    BY StepWalkTypeOK, StepWalkInv
<1> QED BY <1>1, <1>2, PTL DEF Spec

\* A walk through the pages skips at most one of the rows that stay, and that share
\* no block, for each time that a row leaves the listing: for every page size,
\* filter and number of changes between the statements.
THEOREM FewAreSkipped == Spec => []SkipsBounded
<1>1. WalkInv => SkipsBounded
    BY DEF WalkInv
<1> QED BY <1>1, WalkInvHolds, PTL

\* While the table only grows, a walk skips no row that shares its block with none.
THEOREM NoneIsSkipped == Spec => []NothingSkipped
<1>1. TypeOK /\ WalkInv => NothingSkipped
    <2> SUFFICES ASSUME TypeOK, WalkInv, at = "done", left = {}, NEW p \in start
                 PROVE  p \in seen \/ Shared(p)
        BY DEF NothingSkipped
    <2>1. departures = 0 /\ Cardinality(Skipped) <= departures
        BY DEF WalkInv, SkipsBounded
    <2>2. IsFiniteSet(Skipped) /\ Cardinality(Skipped) \in Nat
        BY SkippedFacts
    <2>3. Skipped = {}
        BY <2>1, <2>2, FS_EmptySet
    <2> QED BY <2>3 DEF Skipped
<1> QED BY <1>1, WalkTypeCorrect, WalkInvHolds, PTL

=============================================================================
