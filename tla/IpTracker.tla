----------------------------- MODULE IpTracker -----------------------------
(***************************************************************************)
(* IpTrackerMiddleware and IpTrackerService: requests are counted in Redis *)
(* for each address and URL, and an address that sends too many is blocked *)
(* for a while.  The keys of different addresses do not touch each other,  *)
(* so there is one; an endpoint is what req.url holds.                     *)
(*                                                                         *)
(* Requests run concurrently.  An action is the code from one Redis        *)
(* command to the next; Redis keeps the time that each key has left.  A    *)
(* command that has been sent is answered within a tick.                   *)
(***************************************************************************)
EXTENDS Integers, FiniteSets

CONSTANTS
    Requests,   \* bound: requests at one time
    Endpoints,
    Threshold,  \* SUSPICIOUS_THRESHOLD, 12000
    Window,     \* ticks of the 60 seconds of a counter
    BlockTime,  \* ticks of BLOCK_DURATION_IN_SECONDS, 300
    MaxFaults   \* bound: requests that end in a failing command or a crash

ASSUME TrackerAssumption ==
    /\ Threshold \in Nat \ {0} /\ Window \in Nat \ {0} /\ BlockTime \in Nat \ {0}
    /\ IsFiniteSet(Requests) /\ Endpoints # {} /\ MaxFaults \in Nat

VARIABLES
    counter,    \* ip:<ip>:<endpoint>, 0 for no key
    timeLeft,   \* of the counters; Forever for a key without expiry
    blocked,    \* the time that blocked:<ip> has left, 0 for no key
    request,    \* request -> the command it waits for, its endpoint and count
    faults,     \* failures so far
    streak,     \* requests to an endpoint counted without a gap of a Window
    quiet       \* ticks since the last one

trackerVars == <<counter, timeLeft, blocked, request, faults, streak, quiet>>

Forever == Window + 1
Idle == "idle"
Commands == {"isBlocked", "get", "incr", "expire", "setex"}

TrackerInit ==
    /\ counter = [e \in Endpoints |-> 0] /\ timeLeft = [e \in Endpoints |-> 0]
    /\ blocked = 0
    /\ request = [r \in Requests |->
                    [at |-> Idle, endpoint |-> CHOOSE e \in Endpoints : TRUE, count |-> 0]]
    /\ faults = 0
    /\ streak = [e \in Endpoints |-> 0] /\ quiet = [e \in Endpoints |-> Window]

At(r, command) == request[r].at = command
Goto(r, command) == request' = [request EXCEPT ![r].at = command]

Arrives(r, e) ==
    /\ At(r, Idle)
    /\ request' = [request EXCEPT ![r] = [at |-> "isBlocked", endpoint |-> e, count |-> 0]]
    /\ UNCHANGED <<counter, timeLeft, blocked, faults, streak, quiet>>

(* A blocked address is answered 429, and not tracked.                     *)
IsIpBlocked_Extends(r) ==
    /\ At(r, "isBlocked")
    /\ Goto(r, IF blocked > 0 THEN Idle ELSE "get")
    /\ blocked' = IF blocked > 0 THEN BlockTime ELSE 0
    /\ UNCHANGED <<counter, timeLeft, faults, streak, quiet>>
IsIpBlocked(r) ==
    /\ At(r, "isBlocked")
    /\ Goto(r, IF blocked > 0 THEN Idle ELSE "get")
    /\ UNCHANGED <<counter, timeLeft, blocked, faults, streak, quiet>>

(* trackRequest() looks again, and lets the request pass uncounted.        *)
GetBlocked(r) ==
    /\ At(r, "get")
    /\ Goto(r, IF blocked > 0 THEN Idle ELSE "incr")
    /\ UNCHANGED <<counter, timeLeft, blocked, faults, streak, quiet>>

Increment(r) ==
    LET e == request[r].endpoint
    IN /\ At(r, "incr")
       /\ counter' = [counter EXCEPT ![e] = @ + 1]
       /\ timeLeft' = [timeLeft EXCEPT ![e] = IF counter[e] = 0 THEN Forever ELSE @]
       /\ request' = [request EXCEPT ![r].at = "expire", ![r].count = counter[e] + 1]
       /\ streak' = [streak EXCEPT ![e] = IF quiet[e] < Window THEN @ + 1 ELSE 1]
       /\ quiet' = [quiet EXCEPT ![e] = 0]
       /\ UNCHANGED <<blocked, faults>>

Suspicious_OneLater(count) == count > Threshold
Suspicious(count) == count >= Threshold

Expire_Persists(r) ==
    /\ At(r, "expire")
    /\ Goto(r, IF Suspicious(request[r].count) THEN "setex" ELSE Idle)
    /\ UNCHANGED <<counter, timeLeft, blocked, faults, streak, quiet>>
Expire(r) ==
    /\ At(r, "expire")
    /\ timeLeft' = [timeLeft EXCEPT ![request[r].endpoint] = Window]
    /\ Goto(r, IF Suspicious(request[r].count) THEN "setex" ELSE Idle)
    /\ UNCHANGED <<counter, blocked, faults, streak, quiet>>

(* The request that trips the block is itself let pass.                    *)
Block_Milliseconds(r) ==
    /\ At(r, "setex")
    /\ blocked' = 1000 * BlockTime
    /\ Goto(r, Idle)
    /\ UNCHANGED <<counter, timeLeft, faults, streak, quiet>>
Block(r) ==
    /\ At(r, "setex")
    /\ blocked' = BlockTime
    /\ Goto(r, Idle)
    /\ UNCHANGED <<counter, timeLeft, faults, streak, quiet>>

(* A command fails, or the process dies: the rest is not executed.         *)
Fails(r) ==
    /\ request[r].at \in Commands /\ faults < MaxFaults
    /\ faults' = faults + 1
    /\ Goto(r, Idle)
    /\ UNCHANGED <<counter, timeLeft, blocked, streak, quiet>>

Down(n) == IF n = 0 THEN 0 ELSE n - 1

Tick ==
    /\ \A r \in Requests : ~ At(r, "expire")
    /\ timeLeft' = [e \in Endpoints |->
                      IF timeLeft[e] = Forever THEN Forever ELSE Down(timeLeft[e])]
    /\ counter' = [e \in Endpoints |-> IF timeLeft'[e] = 0 THEN 0 ELSE counter[e]]
    /\ blocked' = Down(blocked)
    /\ quiet' = [e \in Endpoints |-> IF quiet[e] < Window THEN quiet[e] + 1 ELSE Window]
    /\ UNCHANGED <<request, faults, streak>>

Track(r) == IsIpBlocked(r) \/ GetBlocked(r) \/ Increment(r) \/ Expire(r) \/ Block(r)

TrackerNext ==
    \/ \E r \in Requests : Track(r) \/ Fails(r) \/ \E e \in Endpoints : Arrives(r, e)
    \/ Tick

(* Redis answers, and time passes.                                         *)
TrackerSpec ==
    /\ TrackerInit /\ [][TrackerNext]_trackerVars
    /\ \A r \in Requests : WF_trackerVars(Track(r))
    /\ WF_trackerVars(Tick)

-----------------------------------------------------------------------------

\* Every variable has its type.
TrackerTypeOK ==
    /\ counter \in [Endpoints -> Nat]
    /\ timeLeft \in [Endpoints -> 0..Forever]
    /\ blocked \in 0..BlockTime
    /\ request \in [Requests -> [at : {Idle} \cup Commands, endpoint : Endpoints, count : Nat]]
    /\ faults \in 0..MaxFaults
    /\ streak \in [Endpoints -> Nat]
    /\ quiet \in [Endpoints -> 0..Window]
    /\ \A e \in Endpoints : counter[e] = 0 <=> timeLeft[e] = 0

\* A counter never holds more than the requests since the last gap of a whole
\* Window, except one for each failure: an increment whose expire was lost can
\* outlive the gap.
CounterHonest == \A e \in Endpoints : counter[e] <= streak[e] + faults

\* Requests that run at one time overshoot the threshold by no more than there
\* are of them, and of failures.
OvershootBounded ==
    \A e \in Endpoints : counter[e] < Threshold + Cardinality(Requests) + faults

\* When a block ends no counter is left that would start the next one at once.
FreshAfterBlock ==
    [][blocked > 0 /\ blocked' = 0 =>
         \A e \in Endpoints : counter'[e] < Threshold]_trackerVars

\* A block ends, although the address goes on sending requests.
BlockEnds == blocked > 0 ~> blocked = 0

=============================================================================
