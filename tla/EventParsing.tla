---------------------------- MODULE EventParsing ----------------------------
(***************************************************************************)
(* From the log of an event to the amounts of its row: EventParsingService *)
(* with the parsers of Deposit and Withdraw, the entities the crawler and  *)
(* the fallback crawler make of what they parse, and the columns these are *)
(* stored in.  Amounts that are divided are counted in units of the last   *)
(* decimal of the amount column.                                           *)
(***************************************************************************)
EXTENDS Integers, Sequences

CONSTANTS
    Scale,      \* 18: scale of the amount column, and the decimals taken for none
    MaxScale,   \* 80: the decimals formatUnits accepts
    MaxStored   \* bound of the amount column, 10^65 in these units

ASSUME ParsingAssumption == Scale \in Nat /\ MaxScale \in Nat /\ MaxStored \in Nat

Power10[n \in Nat] == IF n = 0 THEN 1 ELSE 10 * Power10[n - 1]

(* An event that ethers could not decode has neither a name nor args.      *)
Decoded(log) == log.eventName \in {"Deposit", "Withdraw"}

(* if (args[2]), if (args[3]), a || b: 0 counts as not given.              *)
Or(value, default) == IF value = 0 THEN default ELSE value

(* extractAmount: the digits of the raw amount with the point moved.       *)
Formatted_AlwaysDefault(log) == [digits |-> log.amount, point |-> Scale]
Formatted(log) == [digits |-> log.amount, point |-> Or(log.decimals, Scale)]

(* formatUnits throws for more than it accepts, and the event is dropped;  *)
(* it is not called for an amount of 0.                                    *)
Parseable(log) == Decoded(log) /\ (log.amount # 0 => log.decimals <= MaxScale)

Parsed(log) ==
    [operation |-> log.eventName, amount |-> Formatted(log),
     rawAmount |-> log.amount, decimals |-> log.decimals]

(* An event that could not be parsed is left out.                          *)
ParseEvents(logs) ==
    LET parsed[n \in 0..Len(logs)] ==
          IF n = 0 THEN <<>>
          ELSE IF Parseable(logs[n]) THEN Append(parsed[n - 1], Parsed(logs[n]))
          ELSE parsed[n - 1]
    IN parsed[Len(logs)]

-----------------------------------------------------------------------------
(* The columns                                                             *)

(* numeric(65, 18) rounds what has more decimals; it defaults to 0.        *)
InUnits(a) ==
    IF a.point <= Scale THEN a.digits * Power10[Scale - a.point]
    ELSE LET unit == Power10[a.point - Scale] IN (a.digits + unit \div 2) \div unit

Fits(row) == row.amount < MaxStored

Row(event, tokenDecimals) ==
    [operation |-> event.operation, amount |-> InUnits(event.amount),
     rawAmount |-> event.rawAmount, tokenDecimals |-> tokenDecimals]

(* saveState spreads the event: decimals is no column, and token_decimals  *)
(* takes its default.                                                      *)
CrawlerRow(event) == Row(event, Scale)

(* createTransactionEntity                                                 *)
FallbackRow_Spreads(event) == Row(event, Scale)
FallbackRow(event) == Row(event, Or(event.decimals, Scale))

=============================================================================
