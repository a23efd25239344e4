---------------------------- MODULE MCEventFetch ----------------------------
(* Small instances of EventFetch for TLC.                                  *)
EXTENDS EventFetch

Log(name, amount, decimals) == [eventName |-> name, amount |-> amount, decimals |-> decimals]

\* Amounts of 0, of less and of more than a unit, and one that does not fit;
\* decimals of 0, up to Scale, above it and above what formatUnits accepts.
AllLogs ==
    {Log("Deposit", a, d) : a \in {0, 4, 75}, d \in {0, 1, 2, 3, 5}}
        \cup {Log("Withdraw", 75, 1), Log("Withdraw", 50000, 2), Log("none", 0, 0)}

ListedAndNot == {"429", "timeout"}
=============================================================================
