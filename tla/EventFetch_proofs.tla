------------------------- MODULE EventFetch_proofs -------------------------
(***************************************************************************)
(* What is stored of the events of a batch: proofs about EventFetch.  The  *)
(* amounts rest on powers of ten and on the loop of parseEvents, which are *)
(* recursive functions: that they exist, and what they return, is shown    *)
(* by the least number for which it were not so.                           *)
(***************************************************************************)
EXTENDS EventFetch, FiniteSetTheorems, SequenceTheorems, WellFoundedInduction, TLAPS

-----------------------------------------------------------------------------
(* Least counterexamples                                                   *)

\* A set of numbers that is not empty has a least element.
LEMMA LeastNumber ==
    ASSUME NEW S \in SUBSET Nat, S # {}
    PROVE  \E x \in S : \A y \in S : x <= y
<1> DEFINE R == OpToRel(<, Nat)
<1>1. PICK x \in S : \A y \in S : ~ (<<y, x>> \in R)
    BY NatLessThanWellFounded, WFMin DEF OpToRel
<1>2. \A y \in S : ~ (y < x)
    BY <1>1 DEF OpToRel
<1> QED BY <1>2

\* A set of numbers with 0, and with n + 1 for each n in it, has them all.
LEMMA Climb ==
    ASSUME NEW T \in SUBSET Nat, 0 \in T, \A n \in T : n + 1 \in T
    PROVE  T = Nat
<1> SUFFICES ASSUME Nat \ T # {} PROVE FALSE
    OBVIOUS
<1>1. PICK x \in Nat \ T : \A y \in Nat \ T : x <= y
    BY LeastNumber
<1>2. x # 0 /\ x - 1 \in Nat
    BY <1>1
<1>3. x - 1 \in T
    BY <1>1, <1>2
<1> QED BY <1>1, <1>3, <1>2

-----------------------------------------------------------------------------
(* Powers of ten                                                           *)

PowersUpTo(f, n) == f = [i \in 0..n |-> IF i = 0 THEN 1 ELSE 10 * f[i - 1]]

LEMMA PowersExist == \A n \in Nat : \E f : PowersUpTo(f, n)
<1> DEFINE T == {n \in Nat : \E f : PowersUpTo(f, n)}
<1>1. 0 \in T
    <2>1. PowersUpTo([i \in 0..0 |-> 1], 0)
        BY DEF PowersUpTo
    <2> QED BY <2>1
<1>2. ASSUME NEW n \in T PROVE n + 1 \in T
    <2>1. PICK f : PowersUpTo(f, n)
        OBVIOUS
    <2> DEFINE g == [i \in 0..(n + 1) |-> IF i = n + 1 THEN 10 * f[n] ELSE f[i]]
    <2>2. \A i \in 0..n : g[i] = f[i] /\ f[i] = IF i = 0 THEN 1 ELSE 10 * f[i - 1]
        BY <2>1 DEF PowersUpTo
    <2>3. ASSUME NEW i \in 0..(n + 1)
          PROVE  g[i] = IF i = 0 THEN 1 ELSE 10 * g[i - 1]
        <3>1. CASE i = n + 1
            BY <3>1
        <3>2. CASE i # n + 1
            <4>1. i \in 0..n
                BY <3>2
            <4>2. i # 0 => i - 1 \in 0..n
                BY <4>1
            <4> HIDE DEF g
            <4> QED BY <4>1, <4>2, <2>2
        <3> QED BY <3>1, <3>2
    <2>4. PowersUpTo(g, n + 1)
        BY <2>3 DEF PowersUpTo
    <2> QED BY <2>4
<1> HIDE DEF T
<1>3. T \in SUBSET Nat /\ \A n \in T : \E f : PowersUpTo(f, n)
    BY DEF T
<1>4. T = Nat
    BY <1>1, <1>2, <1>3, Climb
<1> QED BY <1>3, <1>4

LEMMA PowersAgree ==
    ASSUME NEW n \in Nat, NEW m \in Nat, NEW f, NEW g,
           PowersUpTo(f, n), PowersUpTo(g, m), NEW i \in Nat, i <= n, i <= m
    PROVE  f[i] = g[i]
<1> DEFINE D == {j \in Nat : j <= n /\ j <= m /\ f[j] # g[j]}
<1> SUFFICES ASSUME D # {} PROVE FALSE
    OBVIOUS
<1>1. PICK x \in D : \A y \in D : x <= y
    BY LeastNumber
<1>2. /\ f[x] = IF x = 0 THEN 1 ELSE 10 * f[x - 1]
      /\ g[x] = IF x = 0 THEN 1 ELSE 10 * g[x - 1]
    BY DEF PowersUpTo
<1>3. x # 0 => x - 1 \notin D
    BY <1>1
<1>4. x # 0 => f[x - 1] = g[x - 1]
    BY <1>3
<1> QED BY <1>2, <1>4

\* The recursive definition has a solution, and so defines the powers of ten.
LEMMA Power10Def == Power10 = [n \in Nat |-> IF n = 0 THEN 1 ELSE 10 * Power10[n - 1]]
<1> DEFINE upTo(n) == CHOOSE f : PowersUpTo(f, n)
           p == [n \in Nat |-> upTo(n)[n]]
<1>1. \A n \in Nat : PowersUpTo(upTo(n), n)
    BY PowersExist
<1>2. ASSUME NEW n \in Nat PROVE p[n] = IF n = 0 THEN 1 ELSE 10 * p[n - 1]
    <2>1. upTo(n)[n] = IF n = 0 THEN 1 ELSE 10 * upTo(n)[n - 1]
        <3> DEFINE f == upTo(n)
        <3>1. PowersUpTo(f, n)
            BY <1>1
        <3> HIDE DEF f
        <3>2. f[n] = IF n = 0 THEN 1 ELSE 10 * f[n - 1]
            BY <3>1 DEF PowersUpTo
        <3> QED BY <3>2 DEF f
    <2>2. n # 0 => upTo(n)[n - 1] = upTo(n - 1)[n - 1]
        <3> HAVE n # 0
        <3> HIDE DEF upTo
        <3> QED BY <1>1, PowersAgree
    <2> HIDE DEF upTo
    <2> QED BY <2>1, <2>2
<1>3. p = [n \in Nat |-> IF n = 0 THEN 1 ELSE 10 * p[n - 1]]
    <2> HIDE DEF upTo
    <2>1. p = [n \in Nat |-> p[n]]
        OBVIOUS
    <2> QED BY <1>2, <2>1
<1> HIDE DEF p
<1> QED BY <1>3 DEF Power10

LEMMA PowersGrow ==
    /\ Power10[0] = 1
    /\ \A n \in Nat : Power10[n + 1] = 10 * Power10[n]
<1>1. Power10[0] = 1
    BY Power10Def
<1>2. ASSUME NEW n \in Nat PROVE Power10[n + 1] = 10 * Power10[n]
    <2>1. n + 1 \in Nat /\ n + 1 # 0 /\ (n + 1) - 1 = n
        OBVIOUS
    <2>2. Power10[n + 1] = 10 * Power10[(n + 1) - 1]
        BY Power10Def, <2>1
    <2> QED BY <2>1, <2>2
<1> QED BY <1>1, <1>2

LEMMA PowersPositive == \A n \in Nat : Power10[n] \in Nat /\ Power10[n] > 0
<1> DEFINE T == {n \in Nat : Power10[n] \in Nat /\ Power10[n] > 0}
<1>1. 0 \in T
    BY PowersGrow
<1>2. \A n \in T : n + 1 \in T
    BY PowersGrow
<1> HIDE DEF T
<1>3. T \in SUBSET Nat /\ \A n \in T : Power10[n] \in Nat /\ Power10[n] > 0
    BY DEF T
<1>4. T = Nat
    BY <1>1, <1>2, <1>3, Climb
<1> QED BY <1>3, <1>4

\* The power of a sum is the product of the powers.
LEMMA PowersMultiply == \A m, n \in Nat : Power10[m + n] = Power10[m] * Power10[n]
<1> SUFFICES ASSUME NEW m \in Nat PROVE \A n \in Nat : Power10[m + n] = Power10[m] * Power10[n]
    OBVIOUS
<1> DEFINE T == {n \in Nat : Power10[m + n] = Power10[m] * Power10[n]}
<1>0. \A n \in Nat : Power10[n] \in Nat
    BY PowersPositive
<1>1. 0 \in T
    BY <1>0, PowersGrow
<1>2. ASSUME NEW n \in T PROVE n + 1 \in T
    <2>1. Power10[m + n] = Power10[m] * Power10[n]
        OBVIOUS
    <2>2. Power10[m + (n + 1)] = 10 * Power10[m + n]
        <3>1. m + (n + 1) = (m + n) + 1 /\ m + n \in Nat
            OBVIOUS
        <3> QED BY <3>1, PowersGrow
    <2>3. Power10[n + 1] = 10 * Power10[n]
        BY PowersGrow
    <2>4. \A a, b \in Nat : 10 * (a * b) = a * (10 * b)
        OBVIOUS
    <2> QED BY <2>1, <2>2, <2>3, <2>4, <1>0
<1> HIDE DEF T
<1>3. T \in SUBSET Nat /\ \A n \in T : Power10[m + n] = Power10[m] * Power10[n]
    BY DEF T
<1>4. T = Nat
    BY <1>1, <1>2, <1>3, Climb
<1> QED BY <1>3, <1>4

-----------------------------------------------------------------------------
(* Rounding                                                                *)

\* The nearest multiple of a unit is not further away than half a unit.
LEMMA Rounding ==
    ASSUME NEW raw \in Nat, NEW unit \in Nat, unit > 0
    PROVE  LET q == (raw + unit \div 2) \div unit
           IN q \in Nat /\ 2 * (q * unit - raw) \in (-unit)..unit
<1> DEFINE half == unit \div 2
           q == (raw + half) \div unit
<1>1. half \in Nat /\ 2 * half <= unit /\ unit <= 2 * half + 1
    OBVIOUS
<1> HIDE DEF half
<1>2. q \in Nat /\ q * unit <= raw + half /\ raw + half < q * unit + unit
    BY <1>1
<1> HIDE DEF q
<1>3. q * unit \in Nat
    BY <1>2
<1> DEFINE w == q * unit
<1>4. w \in Nat /\ w <= raw + half /\ raw + half < w + unit
    BY <1>2, <1>3
<1> HIDE DEF w
<1>5. 2 * (w - raw) \in (-unit)..unit
    BY <1>1, <1>4
<1> QED BY <1>2, <1>5 DEF q, half, w

\* What the column makes of a decimal string says what the string does, to half a
\* unit of its last decimal.
LEMMA AmountIsNear ==
    ASSUME NEW digits \in Nat, NEW point \in Nat
    PROVE  LET units == InUnits([digits |-> digits, point |-> point])
           IN units \in Nat /\ Near(units, digits, point)
<1> DEFINE units == InUnits([digits |-> digits, point |-> point])
<1>0. Scale \in Nat /\ \A n \in Nat : Power10[n] \in Nat /\ Power10[n] > 0
    BY ParsingAssumption, PowersPositive
<1>1. CASE point <= Scale
    <2> DEFINE rest == Power10[Scale - point]
               p == Power10[point]
    <2>1. rest \in Nat /\ p \in Nat /\ Power10[Scale] = rest * p
        <3>1. Scale - point \in Nat /\ Scale = (Scale - point) + point
            BY <1>0, <1>1
        <3> QED BY <3>1, <1>0, PowersMultiply
    <2>2. units = digits * rest
        BY <1>1 DEF InUnits
    <2> HIDE DEF units, rest, p
    <2>3. units * p = digits * Power10[Scale]
        <3>1. \A a, b, c \in Nat : (a * b) * c = a * (b * c)
            OBVIOUS
        <3> QED BY <2>1, <2>2, <3>1
    <2>4. units \in Nat /\ units * p \in Nat
        BY <2>1, <2>2
    <2> QED BY <2>1, <2>3, <2>4 DEF Near, units, p
<1>2. CASE ~ (point <= Scale)
    <2> DEFINE unit == Power10[point - Scale]
               s == Power10[Scale]
               p == Power10[point]
    <2>1. unit \in Nat /\ unit > 0 /\ s \in Nat /\ p = unit * s
        <3>1. point - Scale \in Nat /\ point = (point - Scale) + Scale
            BY <1>0, <1>2
        <3> QED BY <3>1, <1>0, PowersMultiply
    <2>2. units = (digits + unit \div 2) \div unit
        BY <1>2 DEF InUnits
    <2> HIDE DEF units, unit, s, p
    <2>3. units \in Nat /\ 2 * (units * unit - digits) \in (-unit)..unit
        BY <2>1, <2>2, Rounding
    <2> DEFINE off == 2 * (units * unit - digits)
    <2>4. 2 * (units * p - digits * s) = off * s
        <3>1. \A a, b, c, d \in Nat : 2 * (a * (b * c) - d * c) = (2 * (a * b - d)) * c
            OBVIOUS
        <3> QED BY <2>1, <2>3, <3>1
    <2>5. off * s \in (-p)..p
        <3>1. \A a, b \in Int, c \in Nat : a \in (-b)..b => a * c \in (-(b * c))..(b * c)
            OBVIOUS
        <3>2. off \in Int /\ off \in (-unit)..unit
            BY <2>1, <2>3
        <3> HIDE DEF off
        <3> QED BY <3>1, <3>2, <2>1
    <2> QED BY <2>3, <2>4, <2>5 DEF Near, units, s, p
<1> QED BY <1>0, <1>1, <1>2

-----------------------------------------------------------------------------
(* The loop of parseEvents                                                 *)

Pushed(f, ls, n) ==
    f = [i \in 0..n |->
           IF i = 0 THEN <<>>
           ELSE IF Parseable(ls[i]) THEN Append(f[i - 1], Parsed(ls[i])) ELSE f[i - 1]]

LEMMA PushesExist ==
    ASSUME NEW ls
    PROVE  \A n \in Nat : \E f : Pushed(f, ls, n)
<1> DEFINE Push(f, i) ==
             IF i = 0 THEN <<>>
             ELSE IF Parseable(ls[i]) THEN Append(f[i - 1], Parsed(ls[i])) ELSE f[i - 1]
           T == {n \in Nat : \E f : Pushed(f, ls, n)}
<1>1. 0 \in T
    <2>1. Pushed([i \in 0..0 |-> <<>>], ls, 0)
        BY DEF Pushed
    <2> QED BY <2>1
<1>2. ASSUME NEW n \in T PROVE n + 1 \in T
    <2>1. PICK f : Pushed(f, ls, n)
        OBVIOUS
    <2> DEFINE g == [i \in 0..(n + 1) |-> IF i = n + 1 THEN Push(f, i) ELSE f[i]]
    <2>2. ASSUME NEW i \in 0..n PROVE g[i] = f[i] /\ f[i] = Push(f, i)
        <3>1. f[i] = Push(f, i)
            BY <2>1 DEF Pushed
        <3>2. i \in 0..(n + 1) /\ i # n + 1
            OBVIOUS
        <3> HIDE DEF Push
        <3> QED BY <3>1, <3>2
    <2>3. ASSUME NEW i \in 0..(n + 1) PROVE g[i] = Push(g, i)
        <3>1. i # 0 => i - 1 \in 0..n
            OBVIOUS
        <3>2. Push(g, i) = Push(f, i)
            <4>1. i # 0 => g[i - 1] = f[i - 1]
                BY <2>2, <3>1
            <4> HIDE DEF g
            <4> QED BY <4>1
        <3>3. g[i] = Push(f, i)
            <4>1. CASE i = n + 1
                BY <4>1
            <4>2. CASE i # n + 1
                <5>1. i \in 0..n
                    BY <4>2
                <5> HIDE DEF g, Push
                <5> QED BY <5>1, <2>2
            <4> QED BY <4>1, <4>2
        <3> QED BY <3>2, <3>3
    <2>4. Pushed(g, ls, n + 1)
        <3>1. g = [i \in 0..(n + 1) |-> g[i]]
            OBVIOUS
        <3> HIDE DEF g
        <3> QED BY <2>3, <3>1 DEF Pushed
    <2> QED BY <2>4
<1> HIDE DEF T
<1>3. T \in SUBSET Nat /\ \A n \in T : \E f : Pushed(f, ls, n)
    BY DEF T
<1>4. T = Nat
    BY <1>1, <1>2, <1>3, Climb
<1> QED BY <1>3, <1>4

LEMMA ParseEventsLoop ==
    ASSUME NEW ls \in Seq(Logs)
    PROVE  \E f : Pushed(f, ls, Len(ls)) /\ ParseEvents(ls) = f[Len(ls)]
<1> DEFINE parsed == CHOOSE f : Pushed(f, ls, Len(ls))
<1>1. Pushed(parsed, ls, Len(ls))
    BY PushesExist
<1>2. ParseEvents(ls) = parsed[Len(ls)]
    BY DEF ParseEvents, Pushed
<1> QED BY <1>1, <1>2

\* The logs that are kept of the first n, and so the place among the parsed events
\* of the one that is kept last.
Kept(ls, n) == {j \in 1..n : Parseable(ls[j])}
Position(ls, n) == Cardinality(Kept(ls, n))
ParsedLogs == {Parsed(log) : log \in {l \in Logs : Parseable(l)}}

LEMMA Positions ==
    ASSUME NEW ls
    PROVE  /\ Position(ls, 0) = 0
           /\ \A n \in Nat :
                /\ Position(ls, n) \in 0..n
                /\ Position(ls, n + 1) =
                     IF Parseable(ls[n + 1]) THEN Position(ls, n) + 1 ELSE Position(ls, n)
<1>1. Position(ls, 0) = 0
    <2>1. Kept(ls, 0) = {}
        BY DEF Kept
    <2> QED BY <2>1, FS_EmptySet DEF Position
<1>2. ASSUME NEW n \in Nat PROVE IsFiniteSet(Kept(ls, n)) /\ Position(ls, n) \in 0..n
    <2>1. Kept(ls, n) \in SUBSET (1..n)
        BY DEF Kept
    <2>2. IsFiniteSet(1..n) /\ Cardinality(1..n) = n
        BY FS_Interval
    <2>3. IsFiniteSet(Kept(ls, n)) /\ Cardinality(Kept(ls, n)) <= n
        BY <2>1, <2>2, FS_Subset
    <2> QED BY <2>3, FS_CardinalityType DEF Position
<1>3. ASSUME NEW n \in Nat
      PROVE  Position(ls, n + 1) =
                 IF Parseable(ls[n + 1]) THEN Position(ls, n) + 1 ELSE Position(ls, n)
    <2>1. CASE Parseable(ls[n + 1])
        <3>1. Kept(ls, n + 1) = Kept(ls, n) \cup {n + 1} /\ n + 1 \notin Kept(ls, n)
            BY <2>1 DEF Kept
        <3> QED BY <2>1, <3>1, <1>2, FS_AddElement DEF Position
    <2>2. CASE ~ Parseable(ls[n + 1])
        <3>1. Kept(ls, n + 1) = Kept(ls, n)
            BY <2>2 DEF Kept
        <3> QED BY <2>2, <3>1 DEF Position
    <2> QED BY <2>1, <2>2
<1> QED BY <1>1, <1>2, <1>3

\* parseEvents returns the logs that can be parsed, in their order.
LEMMA WhatIsParsed ==
    ASSUME NEW ls \in Seq(Logs)
    PROVE  /\ ParseEvents(ls) \in Seq(ParsedLogs)
           /\ Len(ParseEvents(ls)) = Position(ls, Len(ls))
           /\ \A j \in 1..Len(ls) :
                Parseable(ls[j]) =>
                    /\ Position(ls, j) \in 1..Len(ParseEvents(ls))
                    /\ ParseEvents(ls)[Position(ls, j)] = Parsed(ls[j])
<1>1. PICK f : Pushed(f, ls, Len(ls)) /\ ParseEvents(ls) = f[Len(ls)]
    BY ParseEventsLoop
<1> DEFINE Right(n) ==
             /\ f[n] \in Seq(ParsedLogs)
             /\ Len(f[n]) = Position(ls, n)
             /\ \A j \in 1..n :
                  Parseable(ls[j]) =>
                      Position(ls, j) \in 1..Len(f[n]) /\ f[n][Position(ls, j)] = Parsed(ls[j])
           T == {n \in Nat : n <= Len(ls) => Right(n)}
<1>2. Len(ls) \in Nat /\ \A j \in 1..Len(ls) : ls[j] \in Logs
    OBVIOUS
<1>3. f[0] = <<>>
    BY <1>1, <1>2 DEF Pushed
<1>4. ASSUME NEW n \in Nat, n + 1 <= Len(ls)
      PROVE  f[n + 1] = IF Parseable(ls[n + 1]) THEN Append(f[n], Parsed(ls[n + 1])) ELSE f[n]
    <2>1. n + 1 \in 0..Len(ls) /\ n + 1 # 0 /\ (n + 1) - 1 = n
        BY <1>2, <1>4
    <2> QED BY <1>1, <2>1 DEF Pushed
<1>5. 0 \in T
    <2>1. Right(0)
        BY <1>3, Positions
    <2> QED BY <2>1
<1>6. ASSUME NEW n \in T PROVE n + 1 \in T
    <2> SUFFICES ASSUME n + 1 <= Len(ls) PROVE Right(n + 1)
        OBVIOUS
    <2>0. n \in Nat /\ Right(n)
        BY <1>2
    <2>1. CASE ~ Parseable(ls[n + 1])
        <3>1. f[n + 1] = f[n] /\ Position(ls, n + 1) = Position(ls, n)
            BY <1>4, <2>0, <2>1, Positions
        <3>2. \A j \in 1..(n + 1) : Parseable(ls[j]) => j \in 1..n
            BY <2>0, <2>1
        <3> QED BY <2>0, <3>1, <3>2
    <2>2. CASE Parseable(ls[n + 1])
        <3> DEFINE e == Parsed(ls[n + 1])
        <3>1. f[n + 1] = Append(f[n], e) /\ Position(ls, n + 1) = Position(ls, n) + 1
            BY <1>4, <2>0, <2>2, Positions
        <3>2. e \in ParsedLogs
            BY <1>2, <2>0, <2>2 DEF ParsedLogs
        <3> HIDE DEF e
        <3>3. /\ f[n + 1] \in Seq(ParsedLogs) /\ Len(f[n + 1]) = Len(f[n]) + 1
              /\ \A i \in 1..Len(f[n]) : f[n + 1][i] = f[n][i]
              /\ f[n + 1][Len(f[n]) + 1] = e
            BY <2>0, <3>1, <3>2, AppendProperties
        <3>4. Len(f[n + 1]) = Position(ls, n + 1)
            BY <2>0, <3>1, <3>3
        <3>5. ASSUME NEW j \in 1..(n + 1), Parseable(ls[j])
              PROVE  /\ Position(ls, j) \in 1..Len(f[n + 1])
                     /\ f[n + 1][Position(ls, j)] = Parsed(ls[j])
            <4>0. Len(f[n]) \in Nat
                BY <2>0
            <4>1. CASE j = n + 1
                BY <4>0, <4>1, <2>0, <3>1, <3>3, <3>4 DEF e
            <4>2. CASE j # n + 1
                <5>1. j \in 1..n
                    BY <2>0, <4>2
                <5>2. Position(ls, j) \in 1..Len(f[n]) /\ f[n][Position(ls, j)] = Parsed(ls[j])
                    BY <2>0, <3>5, <5>1
                <5> QED BY <4>0, <5>2, <3>3
            <4> QED BY <4>1, <4>2
        <3> QED BY <3>3, <3>4, <3>5
    <2> QED BY <2>1, <2>2
<1> HIDE DEF Right
<1>7. Len(ls) \in T
    <2> HIDE DEF T
    <2>1. T \in SUBSET Nat
        BY DEF T
    <2>2. T = Nat
        BY <1>5, <1>6, <2>1, Climb
    <2> QED BY <1>2, <2>2
<1>8. Right(Len(ls))
    BY <1>2, <1>7
<1> QED BY <1>1, <1>8 DEF Right

-----------------------------------------------------------------------------
(* What the client holds                                                   *)

RowsOf(who, parsed) ==
    [i \in DOMAIN parsed |->
        IF who = "crawler" THEN CrawlerRow(parsed[i]) ELSE FallbackRow(parsed[i])]

\* The client saves what parseEvents made of its logs, all of it or nothing.
FetchInv ==
    /\ RpcTypeOK
    /\ client \in {"crawler", "fallback"}
    /\ at \in {"idle", "nodes", "save", "done", "failed"}
    /\ client = "crawler" => at # "failed"
    /\ logs \in Seq(Logs)
    /\ events = <<>> \/ events = ParseEvents(logs)
    /\ at \in {"save", "done"} => events = ParseEvents(logs)
    /\ at # "done" => stored = <<>>
    /\ at = "done" =>
         /\ stored = RowsOf(client, events)
         /\ \A i \in DOMAIN stored : Fits(stored[i])

LEMMA InitFetchInv == FetchInit => FetchInv
<1> SUFFICES ASSUME FetchInit PROVE FetchInv
    OBVIOUS
<1>1. RpcTypeOK
    <2>1. Urls \in Nat /\ MaxNodeChanges \in Nat
        BY RpcAssumption
    <2>2. /\ node \in [1..Urls -> NodeErrors \cup {"ok"}] /\ nodeChanges = 0
          /\ call = [at |-> "idle", url |-> 1, error |-> "none"]
        BY DEF FetchInit, RpcInit
    <2>3. call \in Call
        BY <2>1, <2>2 DEF Call, CallErrors
    <2> QED BY <2>1, <2>2, <2>3 DEF RpcTypeOK
<1>2. logs \in Seq(Logs)
    <2>1. PICK n \in Nat : logs \in [1..n -> Logs]
        BY FetchAssumption DEF FetchInit
    <2> QED BY <2>1
<1> QED BY <1>1, <1>2 DEF FetchInit, FetchInv

LEMMA CallStepTypeOK == RpcTypeOK /\ CallStep => RpcTypeOK'
<1> SUFFICES ASSUME RpcTypeOK, CallStep PROVE RpcTypeOK'
    OBVIOUS
<1>0. Urls \in Nat /\ call \in Call
    BY RpcAssumption DEF RpcTypeOK
<1>1. CASE Answers
    BY <1>0, <1>1 DEF Answers, Call, CallStep, RpcTypeOK
<1>2. CASE Refuses
    <2>1. PICK u \in 1..Urls : /\ node[u] \in Messages
                               /\ call' = [call EXCEPT !.url = u + 1, !.error = node[u]]
        BY <1>2 DEF Refuses
    <2>2. node[u] \in NodeErrors
        <3>1. node[u] \in NodeErrors \cup {"ok"}
            BY DEF RpcTypeOK
        <3>2. node[u] # "ok"
            BY <2>1 DEF Messages
        <3> QED BY <3>1, <3>2
    <2>3. node[u] \in CallErrors /\ u + 1 \in 1..(Urls + 1)
        <3>1. node[u] \in CallErrors
            BY <2>2 DEF CallErrors
        <3>2. u + 1 \in 1..(Urls + 1)
            BY <1>0
        <3> QED BY <3>1, <3>2
    <2> QED BY <1>0, <2>1, <2>3 DEF Call, CallStep, RpcTypeOK
<1>3. CASE Fails
    <2>1. PICK u \in 1..Urls : /\ node[u] # "ok"
                               /\ call' = [call EXCEPT !.at = "thrown", !.error = node[u]]
        BY <1>3 DEF Fails
    <2>2. node[u] \in CallErrors
        BY <1>0, <2>1 DEF RpcTypeOK, CallErrors
    <2> QED BY <1>0, <2>1, <2>2 DEF Call, CallStep, RpcTypeOK
<1>4. CASE Exhausted
    BY <1>0, <1>4 DEF Exhausted, Call, CallErrors, CallStep, RpcTypeOK
<1> QED BY <1>1, <1>2, <1>3, <1>4 DEF CallStep

LEMMA StepFetchInv == FetchInv /\ [FetchNext]_fetchVars => FetchInv'
<1> SUFFICES ASSUME FetchInv, [FetchNext]_fetchVars PROVE FetchInv'
    OBVIOUS
<1>1. CASE FetchEvents
    <2>1. RpcTypeOK'
        <3>1. Urls \in Nat
            BY RpcAssumption
        <3>2. call' \in Call
            BY <1>1, <3>1 DEF FetchEvents, CallBegins, Call, CallErrors
        <3> QED BY <1>1, <3>2 DEF FetchEvents, FetchInv, RpcTypeOK
    <2> QED BY <1>1, <2>1 DEF FetchEvents, FetchInv
<1>2. CASE Fetched
    <2>1. RpcTypeOK'
        BY <1>2 DEF Fetched, rpcVars, FetchInv, RpcTypeOK
    <2>2. /\ at = "nodes" /\ UNCHANGED <<client, logs, stored>>
          /\ \/ at' = "save" /\ events' = ParseEvents(logs)
             \/ at' = GivesUp /\ events' = events
        BY <1>2 DEF Fetched
    <2> QED BY <2>1, <2>2 DEF FetchInv, GivesUp
<1>3. CASE Save
    <2> DEFINE batch == RowsOf(client, events)
    <2>1. RpcTypeOK'
        BY <1>3 DEF Save, rpcVars, FetchInv, RpcTypeOK
    <2>2. [i \in DOMAIN events |-> EntityOf(events[i])] = batch
        BY DEF EntityOf, RowsOf
    <2> HIDE DEF batch
    <2>3. /\ at = "save" /\ UNCHANGED <<client, logs, events>>
          /\ \/ /\ at' = "done" /\ stored' = batch
                /\ \A i \in DOMAIN batch : Fits(batch[i])
             \/ at' = GivesUp /\ stored' = stored
        BY <1>3, <2>2 DEF Save
    <2>4. CASE /\ at' = "done" /\ stored' = batch
               /\ \A i \in DOMAIN batch : Fits(batch[i])
        BY <2>1, <2>3, <2>4 DEF FetchInv, batch
    <2>5. CASE at' = GivesUp /\ stored' = stored
        BY <2>1, <2>3, <2>5 DEF FetchInv, GivesUp
    <2> QED BY <2>3, <2>4, <2>5
<1>4. CASE /\ UNCHANGED <<client, logs, at, events, stored>>
           /\ CallStep \/ NodeChanges \/ UNCHANGED rpcVars
    <2>1. RpcTypeOK'
        <3>1. CASE NodeChanges
            <4>1. MaxNodeChanges \in Nat
                BY RpcAssumption
            <4> QED BY <3>1, <4>1 DEF NodeChanges, FetchInv, RpcTypeOK
        <3>2. CASE UNCHANGED rpcVars
            BY <3>2 DEF rpcVars, FetchInv, RpcTypeOK
        <3> QED BY <1>4, <3>1, <3>2, CallStepTypeOK DEF FetchInv
    <2> QED BY <1>4, <2>1 DEF FetchInv
<1> QED BY <1>1, <1>2, <1>3, <1>4 DEF FetchNext, ClientStep, fetchVars

LEMMA FetchInvHolds == FetchSpec => []FetchInv
BY InitFetchInv, StepFetchInv, PTL DEF FetchSpec

-----------------------------------------------------------------------------
(* What is stored                                                          *)

LEMMA LogsAreNumbers ==
    ASSUME NEW log \in Logs
    PROVE  /\ log.amount \in Nat /\ log.decimals \in Nat
           /\ Or(log.decimals, Scale) \in Nat
BY FetchAssumption, ParsingAssumption DEF Or

\* Whatever is parsed makes a row of the amount that is near, by the decimals that
\* are given or else by Scale; a row of the fallback crawler says so.
LEMMA RowIsNear ==
    ASSUME NEW log \in Logs, NEW tokenDecimals
    PROVE  LET row == Row(Parsed(log), tokenDecimals)
           IN /\ row.amount \in Nat
              /\ row.rawAmount = log.amount /\ row.operation = log.eventName
              /\ row.tokenDecimals = tokenDecimals
              /\ Near(row.amount, log.amount, Or(log.decimals, Scale))
<1> DEFINE point == Or(log.decimals, Scale)
           units == InUnits([digits |-> log.amount, point |-> point])
<1>1. units \in Nat /\ Near(units, log.amount, point)
    BY LogsAreNumbers, AmountIsNear
<1>2. Row(Parsed(log), tokenDecimals) =
        [operation |-> log.eventName, amount |-> units, rawAmount |-> log.amount,
         tokenDecimals |-> tokenDecimals]
    BY DEF Row, Parsed, Formatted
<1> HIDE DEF units, point
<1> QED BY <1>1, <1>2 DEF point

\* Each row is of a parsed log, in its place.
LEMMA RowsAreParsed ==
    ASSUME NEW who, NEW ls \in Seq(Logs), NEW rows, rows = RowsOf(who, ParseEvents(ls))
    PROVE  /\ Len(rows) = Len(ParseEvents(ls)) /\ DOMAIN rows = 1..Len(ParseEvents(ls))
           /\ \A i \in DOMAIN rows :
                \E log \in Logs :
                    /\ ParseEvents(ls)[i] = Parsed(log)
                    /\ rows[i] = IF who = "crawler" THEN CrawlerRow(Parsed(log))
                                                     ELSE FallbackRow(Parsed(log))
<1> DEFINE parsed == ParseEvents(ls)
<1>1. parsed \in Seq(ParsedLogs)
    BY WhatIsParsed
<1> HIDE DEF parsed
<1>2. DOMAIN parsed = 1..Len(parsed) /\ Len(parsed) \in Nat
    BY <1>1
<1>3. /\ DOMAIN rows = 1..Len(parsed)
      /\ \A i \in 1..Len(parsed) :
           rows[i] = IF who = "crawler" THEN CrawlerRow(parsed[i]) ELSE FallbackRow(parsed[i])
    BY <1>2 DEF RowsOf, parsed
<1>4. Len(rows) = Len(parsed)
    BY <1>2, <1>3
<1>5. ASSUME NEW i \in 1..Len(parsed)
      PROVE  \E log \in Logs : parsed[i] = Parsed(log)
    <2>1. parsed[i] \in ParsedLogs
        BY <1>1
    <2> QED BY <2>1 DEF ParsedLogs
<1>6. \A i \in DOMAIN rows :
        \E log \in Logs :
            /\ parsed[i] = Parsed(log)
            /\ rows[i] = IF who = "crawler" THEN CrawlerRow(Parsed(log))
                                             ELSE FallbackRow(Parsed(log))
    BY <1>3, <1>5
<1> QED BY <1>3, <1>4, <1>6 DEF parsed

\* Every variable has its type: nothing is stored that does not fit its column.
THEOREM FetchTypeCorrect == FetchSpec => []FetchTypeOK
<1>1. FetchInv => FetchTypeOK
    <2> SUFFICES ASSUME FetchInv PROVE FetchTypeOK
        OBVIOUS
    <2>1. logs \in Seq(Logs)
        BY DEF FetchInv
    <2>2. Len(ParseEvents(logs)) \in Nat /\ Len(ParseEvents(logs)) <= Len(logs)
        <3>1. Len(logs) \in Nat
            BY <2>1
        <3>2. Position(logs, Len(logs)) \in 0..Len(logs)
            BY <3>1, Positions
        <3> QED BY <2>1, <3>1, <3>2, WhatIsParsed
    <2>3. Len(events) <= Len(logs)
        <3>1. Len(<<>>) = 0 /\ Len(logs) \in Nat
            BY <2>1
        <3> QED BY <2>2, <3>1 DEF FetchInv
    <2>4. CASE at # "done"
        <3>1. stored = <<>>
            BY <2>4 DEF FetchInv
        <3>2. Len(stored) <= Len(logs) /\ DOMAIN stored = {}
            BY <2>1, <3>1
        <3> QED BY <2>3, <3>2 DEF FetchInv, FetchTypeOK
    <2>5. CASE at = "done"
        <3>1. stored = RowsOf(client, ParseEvents(logs))
            BY <2>5 DEF FetchInv
        <3>2. Len(stored) <= Len(logs)
            BY <2>1, <2>2, <3>1, RowsAreParsed
        <3>3. ASSUME NEW i \in DOMAIN stored PROVE stored[i].amount \in 0..(MaxStored - 1)
            <4>1. PICK log \in Logs :
                    stored[i] = IF client = "crawler" THEN CrawlerRow(Parsed(log))
                                                      ELSE FallbackRow(Parsed(log))
                BY <2>1, <3>1, RowsAreParsed
            <4>2. PICK d : stored[i] = Row(Parsed(log), d)
                BY <4>1 DEF CrawlerRow, FallbackRow
            <4>3. stored[i].amount \in Nat
                BY <4>2, RowIsNear
            <4>4. stored[i].amount < MaxStored
                BY <2>5 DEF FetchInv, Fits
            <4> QED BY <4>3, <4>4, ParsingAssumption
        <3> QED BY <2>3, <3>2, <3>3 DEF FetchInv, FetchTypeOK
    <2> QED BY <2>4, <2>5
<1> QED BY <1>1, FetchInvHolds, PTL

\* Of a batch whose events have decimals that can be parsed, and are not 0, every
\* event is stored, in order, with its amount to half a unit of the column: for all
\* amounts, decimals, scales and lengths of a batch.
THEOREM AmountsAreScaled == FetchSpec => []AmountsScaled
<1>1. FetchInv => AmountsScaled
    <2> SUFFICES ASSUME FetchInv, at = "done",
                        \A i \in DOMAIN logs : Decoded(logs[i]) => Usual(logs[i])
                 PROVE  /\ Len(stored) = UsualUpTo(Len(logs))
                        /\ \A i \in DOMAIN logs :
                             Usual(logs[i]) =>
                                 LET row == stored[UsualUpTo(i)]
                                 IN /\ row.rawAmount = logs[i].amount
                                    /\ row.operation = logs[i].eventName
                                    /\ Near(row.amount, logs[i].amount, logs[i].decimals)
        BY DEF AmountsScaled
    <2>1. /\ logs \in Seq(Logs) /\ Len(logs) \in Nat /\ DOMAIN logs = 1..Len(logs)
          /\ stored = RowsOf(client, ParseEvents(logs))
        BY DEF FetchInv
    <2>2. ASSUME NEW i \in 1..Len(logs) PROVE Usual(logs[i]) <=> Parseable(logs[i])
        <3>1. logs[i] \in Logs
            BY <2>1
        <3>2. Usual(logs[i]) => Parseable(logs[i])
            BY ParsingAssumption DEF Usual, Parseable
        <3> QED BY <2>1, <3>2 DEF Parseable
    <2>3. ASSUME NEW n \in 0..Len(logs) PROVE UsualUpTo(n) = Position(logs, n)
        <3>1. {j \in 1..n : Usual(logs[j])} = Kept(logs, n)
            BY <2>1, <2>2 DEF Kept
        <3> QED BY <3>1 DEF UsualUpTo, Position
    <2>4. Len(stored) = UsualUpTo(Len(logs))
        BY <2>1, <2>3, RowsAreParsed, WhatIsParsed
    <2>5. ASSUME NEW i \in 1..Len(logs), Usual(logs[i])
          PROVE  LET row == stored[UsualUpTo(i)]
                 IN /\ row.rawAmount = logs[i].amount
                    /\ row.operation = logs[i].eventName
                    /\ Near(row.amount, logs[i].amount, logs[i].decimals)
        <3> DEFINE p == UsualUpTo(i)
        <3>1. p = Position(logs, i) /\ Parseable(logs[i])
            BY <2>1, <2>2, <2>3, <2>5
        <3> HIDE DEF p
        <3>2. p \in DOMAIN stored /\ ParseEvents(logs)[p] = Parsed(logs[i])
            BY <2>1, <3>1, RowsAreParsed, WhatIsParsed
        <3>3. PICK d : stored[p] = Row(Parsed(logs[i]), d)
            BY <2>1, <3>2, RowsAreParsed DEF CrawlerRow, FallbackRow
        <3>4. logs[i] \in Logs /\ Or(logs[i].decimals, Scale) = logs[i].decimals
            BY <2>1, <2>5 DEF Usual, Or
        <3> QED BY <3>3, <3>4, RowIsNear DEF p
    <2> QED BY <2>1, <2>4, <2>5
<1> QED BY <1>1, FetchInvHolds, PTL

\* The fallback crawler stores no row that disagrees with itself, whatever the
\* decimals of the event.
THEOREM FallbackRowsAgree == FetchSpec => []FallbackConsistent
<1>1. FetchInv => FallbackConsistent
    <2> SUFFICES ASSUME FetchInv, client = "fallback", NEW i \in DOMAIN stored
                 PROVE  Near(stored[i].amount, stored[i].rawAmount, stored[i].tokenDecimals)
        BY DEF FallbackConsistent
    <2>1. logs \in Seq(Logs)
        BY DEF FetchInv
    <2>2. CASE at # "done"
        BY <2>2 DEF FetchInv
    <2>3. CASE at = "done"
        <3>1. PICK log \in Logs : stored[i] = FallbackRow(Parsed(log))
            BY <2>1, <2>3, RowsAreParsed DEF FetchInv
        <3>2. stored[i] = Row(Parsed(log), Or(log.decimals, Scale))
            BY <3>1 DEF FallbackRow, Parsed
        <3> QED BY <3>2, RowIsNear
    <2> QED BY <2>2, <2>3
<1> QED BY <1>1, FetchInvHolds, PTL

=============================================================================
