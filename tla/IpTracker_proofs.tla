-------------------------- MODULE IpTracker_proofs --------------------------
(***************************************************************************)
(* Type correctness of the tracker, and that its counters are honest: for  *)
(* every number of requests, endpoints and failures and every duration.    *)
(* How far a counter overshoots the threshold, and what is left of it when *)
(* a block ends: for a block that lasts longer than requests linger.       *)
(***************************************************************************)
EXTENDS IpTracker, FiniteSetTheorems, TLAPS

(* The requests that have incremented the counter of e and not yet set its *)
(* expiry.                                                                 *)
Expiring(e) == {r \in Requests : At(r, "expire") /\ request[r].endpoint = e}

(* No time passes between an increment and its expire.                     *)
JustCounted ==
    \A r \in Requests : At(r, "expire") =>
        counter[request[r].endpoint] > 0 /\ quiet[request[r].endpoint] = 0

(* A counter with an expiry ends before the gap is as long as a Window; in *)
(* one without, every increment is about to be given an expiry, or failed. *)
Lifetimes ==
    \A e \in Endpoints :
        IF timeLeft[e] = Forever
          THEN counter[e] <= faults + Cardinality(Expiring(e))
          ELSE timeLeft[e] <= Window - quiet[e]

HonestInv == TrackerTypeOK /\ JustCounted /\ Lifetimes /\ CounterHonest

LEMMA ExpiringFinite ==
    ASSUME NEW e \in Endpoints
    PROVE  IsFiniteSet(Expiring(e)) /\ Cardinality(Expiring(e)) \in Nat
<1>1. Expiring(e) \subseteq Requests /\ IsFiniteSet(Requests)
  BY TrackerAssumption DEF Expiring, TrackerAssumption
<1> QED
  BY <1>1, FS_Subset, FS_CardinalityType

-----------------------------------------------------------------------------

LEMMA InitHonest == TrackerInit => HonestInv
<1> SUFFICES ASSUME TrackerInit PROVE HonestInv
  OBVIOUS
<1> USE TrackerAssumption DEF TrackerAssumption
<1>1. TrackerTypeOK
  <2>1. (CHOOSE e \in Endpoints : TRUE) \in Endpoints
    OBVIOUS
  <2> QED
    BY <2>1 DEF TrackerInit, TrackerTypeOK, Forever, Idle, Commands
<1>2. JustCounted
  BY DEF TrackerInit, JustCounted, At, Idle
<1>3. Lifetimes
  BY DEF TrackerInit, Lifetimes, Forever
<1>4. CounterHonest
  BY DEF TrackerInit, CounterHonest
<1> QED
  BY <1>1, <1>2, <1>3, <1>4 DEF HonestInv

LEMMA TypeStep ==
    ASSUME TrackerTypeOK, JustCounted, [TrackerNext]_trackerVars
    PROVE  TrackerTypeOK'
<1> USE TrackerAssumption
    DEF TrackerAssumption, TrackerTypeOK, Forever, Idle, Commands, At, Goto
<1>1. ASSUME NEW r \in Requests, NEW e \in Endpoints, Arrives(r, e)
      PROVE  TrackerTypeOK'
  BY <1>1 DEF Arrives
<1>2. ASSUME NEW r \in Requests, IsIpBlocked(r)
      PROVE  TrackerTypeOK'
  BY <1>2 DEF IsIpBlocked
<1>3. ASSUME NEW r \in Requests, GetBlocked(r)
      PROVE  TrackerTypeOK'
  BY <1>3 DEF GetBlocked
<1>4. ASSUME NEW r \in Requests, Increment(r)
      PROVE  TrackerTypeOK'
  <2> PICK e \in Endpoints : e = request[r].endpoint
    OBVIOUS
  <2>1. request' \in [Requests -> [at : {Idle} \cup Commands, endpoint : Endpoints, count : Nat]]
    <3>1. counter[e] + 1 \in Nat
      OBVIOUS
    <3>2. request' = [request EXCEPT ![r].at = "expire", ![r].count = counter[e] + 1]
      BY <1>4 DEF Increment
    <3>3. request[r] = [at |-> request[r].at, endpoint |-> e, count |-> request[r].count]
      OBVIOUS
    <3>4. /\ request' = [s \in Requests |-> request'[s]]
          /\ request'[r] = [at |-> "expire", endpoint |-> e, count |-> counter[e] + 1]
          /\ \A s \in Requests \ {r} : request'[s] = request[s]
      BY <3>2, <3>3
    <3> QED
      BY <3>1, <3>4
  <2>2. counter' \in [Endpoints -> Nat] /\ timeLeft' \in [Endpoints -> 0..Forever]
    BY <1>4 DEF Increment
  <2>3. streak' \in [Endpoints -> Nat] /\ quiet' \in [Endpoints -> 0..Window]
    BY <1>4 DEF Increment
  <2>4. \A f \in Endpoints : counter'[f] = 0 <=> timeLeft'[f] = 0
    BY <1>4 DEF Increment
  <2> QED
    BY <1>4, <2>1, <2>2, <2>3, <2>4 DEF Increment
<1>5. ASSUME NEW r \in Requests, Expire(r)
      PROVE  TrackerTypeOK'
  BY <1>5 DEF Expire, JustCounted
<1>6. ASSUME NEW r \in Requests, Block(r)
      PROVE  TrackerTypeOK'
  BY <1>6 DEF Block
<1>7. ASSUME NEW r \in Requests, Fails(r)
      PROVE  TrackerTypeOK'
  BY <1>7 DEF Fails
<1>8. CASE Tick
  BY <1>8 DEF Tick, Down
<1>9. CASE UNCHANGED trackerVars
  BY <1>9 DEF trackerVars
<1> QED
  BY <1>1, <1>2, <1>3, <1>4, <1>5, <1>6, <1>7, <1>8, <1>9 DEF TrackerNext, Track

(* A request leaves the set of those that are about to set an expiry, or   *)
(* comes to it, or does neither.                                           *)
LEMMA ExpiringRemoved ==
    ASSUME NEW e \in Endpoints, NEW r \in Expiring(e), Expiring(e)' = Expiring(e) \ {r}
    PROVE  /\ Cardinality(Expiring(e)') \in Nat
           /\ Cardinality(Expiring(e)) = Cardinality(Expiring(e)') + 1
<1>1. IsFiniteSet(Expiring(e)) /\ Cardinality(Expiring(e)) \in Nat
  BY ExpiringFinite
<1>2. Cardinality(Expiring(e) \ {r}) = Cardinality(Expiring(e)) - 1
  BY <1>1, FS_RemoveElement
<1>3. Cardinality(Expiring(e) \ {r}) \in Nat
  BY <1>1, FS_RemoveElement, FS_CardinalityType
<1> QED
  BY <1>1, <1>2, <1>3

LEMMA ExpiringAdded ==
    ASSUME NEW e \in Endpoints, NEW r, r \notin Expiring(e),
           Expiring(e)' = Expiring(e) \cup {r}
    PROVE  Cardinality(Expiring(e)') = Cardinality(Expiring(e)) + 1
BY ExpiringFinite, FS_AddElement

(* Steps that touch neither a counter nor its expiry, and after which the  *)
(* same requests are about to set one.                                     *)
LEMMA QuietSteps ==
    ASSUME HonestInv, UNCHANGED <<counter, timeLeft, faults, streak, quiet>>,
           \A r \in Requests : At(r, "expire")' =>
               At(r, "expire") /\ request'[r].endpoint = request[r].endpoint,
           \A e \in Endpoints : Expiring(e)' = Expiring(e)
    PROVE  JustCounted' /\ Lifetimes' /\ CounterHonest'
BY DEF HonestInv, JustCounted, Lifetimes, CounterHonest

LEMMA ArrivesHonest ==
    ASSUME HonestInv, NEW r \in Requests, NEW e \in Endpoints, Arrives(r, e)
    PROVE  JustCounted' /\ Lifetimes' /\ CounterHonest'
<1>1. /\ \A s \in Requests : At(s, "expire")' =>
           At(s, "expire") /\ request'[s].endpoint = request[s].endpoint
      /\ \A f \in Endpoints : Expiring(f)' = Expiring(f)
  BY DEF HonestInv, TrackerTypeOK, Arrives, At, Idle, Expiring
<1> QED
  BY <1>1, QuietSteps DEF Arrives

LEMMA LooksHonest ==
    ASSUME HonestInv, NEW r \in Requests, IsIpBlocked(r) \/ GetBlocked(r) \/ Block(r)
    PROVE  JustCounted' /\ Lifetimes' /\ CounterHonest'
<1>1. /\ ~ At(r, "expire") /\ ~ At(r, "expire")'
      /\ \A s \in Requests \ {r} : request'[s] = request[s]
      /\ UNCHANGED <<counter, timeLeft, faults, streak, quiet>>
  BY DEF HonestInv, TrackerTypeOK, IsIpBlocked, GetBlocked, Block, Goto, At, Idle
<1>2. /\ \A s \in Requests : At(s, "expire")' =>
           At(s, "expire") /\ request'[s].endpoint = request[s].endpoint
      /\ \A f \in Endpoints : Expiring(f)' = Expiring(f)
  BY <1>1 DEF At, Expiring
<1> QED
  BY <1>1, <1>2, QuietSteps

(* A counter that a gap has left without expiry counts failures only.      *)
LEMMA IncrementHonest ==
    ASSUME HonestInv, NEW r \in Requests, Increment(r)
    PROVE  JustCounted' /\ Lifetimes' /\ CounterHonest'
<1> USE TrackerAssumption DEF TrackerAssumption
<1> PICK e \in Endpoints : e = request[r].endpoint
  BY DEF HonestInv, TrackerTypeOK
<1>1. /\ e \in Endpoints /\ At(r, "incr") /\ faults' = faults
      /\ counter' = [counter EXCEPT ![e] = @ + 1]
      /\ timeLeft' = [timeLeft EXCEPT ![e] = IF counter[e] = 0 THEN Forever ELSE @]
      /\ streak' = [streak EXCEPT ![e] = IF quiet[e] < Window THEN @ + 1 ELSE 1]
      /\ quiet' = [quiet EXCEPT ![e] = 0]
      /\ request'[r].at = "expire" /\ request'[r].endpoint = e
      /\ \A s \in Requests \ {r} : request'[s] = request[s]
  BY DEF HonestInv, TrackerTypeOK, Increment, At
<1>2. TrackerTypeOK
  BY DEF HonestInv
<1>3. Expiring(e)' = Expiring(e) \cup {r} /\ r \notin Expiring(e)
  BY <1>1 DEF Expiring, At
<1>4. \A f \in Endpoints \ {e} : Expiring(f)' = Expiring(f)
  BY <1>1 DEF Expiring, At
<1>5. JustCounted'
  <2> SUFFICES ASSUME NEW s \in Requests, At(s, "expire")'
               PROVE  /\ counter'[request'[s].endpoint] > 0
                      /\ quiet'[request'[s].endpoint] = 0
    BY DEF JustCounted
  <2>1. CASE s = r
    BY <2>1, <1>1, <1>2 DEF TrackerTypeOK
  <2>2. CASE s # r
    <3>1. /\ At(s, "expire") /\ request'[s] = request[s]
          /\ request[s].endpoint \in Endpoints
      BY <2>2, <1>1, <1>2 DEF At, TrackerTypeOK
    <3>2. counter[request[s].endpoint] > 0 /\ quiet[request[s].endpoint] = 0
      BY <3>1 DEF HonestInv, JustCounted
    <3> QED
      BY <3>1, <3>2, <1>1, <1>2 DEF TrackerTypeOK
  <2> QED
    BY <2>1, <2>2
<1>6. Cardinality(Expiring(e)) \in Nat /\ Cardinality(Expiring(e)') = Cardinality(Expiring(e)) + 1
  BY <1>1, <1>3, ExpiringAdded, ExpiringFinite
<1>7. Lifetimes'
  <2> SUFFICES ASSUME NEW f \in Endpoints
               PROVE  IF timeLeft'[f] = Forever
                        THEN counter'[f] <= faults' + Cardinality(Expiring(f)')
                        ELSE timeLeft'[f] <= Window - quiet'[f]
    BY DEF Lifetimes, Forever
  <2>1. CASE f = e
    BY <2>1, <1>1, <1>2, <1>6 DEF HonestInv, Lifetimes, TrackerTypeOK, Forever
  <2>2. CASE f # e
    BY <2>2, <1>1, <1>2, <1>4 DEF HonestInv, Lifetimes, TrackerTypeOK, Forever
  <2> QED
    BY <2>1, <2>2
<1>8. CounterHonest'
  <2>1. quiet[e] = Window => counter[e] <= faults
    <3> SUFFICES ASSUME quiet[e] = Window PROVE counter[e] <= faults
      OBVIOUS
    <3>1. Expiring(e) = {}
      BY <1>1 DEF HonestInv, JustCounted, Expiring
    <3>2. Cardinality(Expiring(e)) = 0
      BY <3>1, FS_EmptySet
    <3> QED
      BY <3>2, <1>1, <1>2 DEF HonestInv, Lifetimes, TrackerTypeOK, Forever
  <2> SUFFICES ASSUME NEW f \in Endpoints PROVE counter'[f] <= streak'[f] + faults'
    BY DEF CounterHonest
  <2> QED
    BY <2>1, <1>1, <1>2 DEF HonestInv, CounterHonest, TrackerTypeOK
<1> QED
  BY <1>5, <1>7, <1>8

LEMMA ExpireHonest ==
    ASSUME HonestInv, NEW r \in Requests, Expire(r)
    PROVE  JustCounted' /\ Lifetimes' /\ CounterHonest'
<1> USE TrackerAssumption DEF TrackerAssumption
<1> PICK e \in Endpoints : e = request[r].endpoint
  BY DEF HonestInv, TrackerTypeOK
<1>1. /\ At(r, "expire") /\ ~ At(r, "expire")'
      /\ timeLeft' = [timeLeft EXCEPT ![e] = Window]
      /\ UNCHANGED <<counter, faults, streak, quiet>>
      /\ \A s \in Requests \ {r} : request'[s] = request[s]
  BY DEF HonestInv, TrackerTypeOK, Expire, Goto, At, Idle
<1>2. TrackerTypeOK
  BY DEF HonestInv
<1>3. JustCounted'
  BY <1>1 DEF HonestInv, JustCounted, At
<1>4. \A f \in Endpoints \ {e} : Expiring(f)' = Expiring(f)
  BY <1>1 DEF Expiring, At
<1>5. quiet[e] = 0
  BY <1>1 DEF HonestInv, JustCounted
<1>6. Lifetimes'
  BY <1>1, <1>2, <1>4, <1>5 DEF HonestInv, Lifetimes, TrackerTypeOK, Forever
<1>7. CounterHonest'
  BY <1>1 DEF HonestInv, CounterHonest
<1> QED
  BY <1>3, <1>6, <1>7

(* A failure takes the place of the request that was to set the expiry.    *)
LEMMA FailsHonest ==
    ASSUME HonestInv, NEW r \in Requests, Fails(r)
    PROVE  JustCounted' /\ Lifetimes' /\ CounterHonest'
<1> USE TrackerAssumption DEF TrackerAssumption
<1>1. /\ ~ At(r, "expire")'
      /\ UNCHANGED <<counter, timeLeft, streak, quiet>> /\ faults' = faults + 1
      /\ \A s \in Requests \ {r} : request'[s] = request[s]
  BY DEF HonestInv, TrackerTypeOK, Fails, Goto, At, Idle
<1>2. TrackerTypeOK
  BY DEF HonestInv
<1>3. JustCounted'
  BY <1>1 DEF HonestInv, JustCounted, At
<1>4. ASSUME NEW e \in Endpoints
      PROVE  faults + Cardinality(Expiring(e)) <= faults' + Cardinality(Expiring(e)')
  <2>1. Expiring(e)' = Expiring(e) \ {r}
    BY <1>1 DEF Expiring, At
  <2>2. CASE r \in Expiring(e)
    <3>1. /\ Cardinality(Expiring(e)') \in Nat
          /\ Cardinality(Expiring(e)) = Cardinality(Expiring(e)') + 1
      BY <2>1, <2>2, ExpiringRemoved
    <3> QED
      BY <3>1, <1>1, <1>2 DEF TrackerTypeOK
  <2>3. CASE r \notin Expiring(e)
    <3>1. Expiring(e)' = Expiring(e)
      BY <2>1, <2>3
    <3>2. Cardinality(Expiring(e)) \in Nat
      BY ExpiringFinite
    <3> QED
      BY <3>1, <3>2, <1>1, <1>2 DEF TrackerTypeOK
  <2> QED
    BY <2>2, <2>3
<1>5. ASSUME NEW e \in Endpoints
      PROVE  /\ Cardinality(Expiring(e)) \in Nat /\ Cardinality(Expiring(e)') \in Nat
             /\ counter[e] \in Nat /\ faults \in Nat
  <2>1. Expiring(e)' = Expiring(e) \ {r}
    BY <1>1 DEF Expiring, At
  <2>2. IsFiniteSet(Expiring(e) \ {r})
    BY ExpiringFinite, FS_RemoveElement
  <2>3. Cardinality(Expiring(e)') \in Nat
    BY <2>1, <2>2, FS_CardinalityType
  <2> QED
    BY <2>3, <1>2, ExpiringFinite DEF TrackerTypeOK
<1>6. Lifetimes'
  BY <1>1, <1>4, <1>5 DEF HonestInv, Lifetimes
<1>7. CounterHonest'
  BY <1>1, <1>2 DEF HonestInv, CounterHonest, TrackerTypeOK
<1> QED
  BY <1>3, <1>6, <1>7

(* Time passes only when no expiry is due.                                 *)
LEMMA TickHonest ==
    ASSUME HonestInv, Tick
    PROVE  JustCounted' /\ Lifetimes' /\ CounterHonest'
<1> USE TrackerAssumption DEF TrackerAssumption
<1>1. TrackerTypeOK
  BY DEF HonestInv
<1>2. /\ \A r \in Requests : ~ At(r, "expire") /\ ~ At(r, "expire")'
      /\ faults' = faults
  BY DEF Tick, At
<1>3. JustCounted'
  BY <1>2 DEF JustCounted
<1>4. ASSUME NEW e \in Endpoints
      PROVE  Cardinality(Expiring(e)) = 0 /\ Cardinality(Expiring(e)') = 0
  <2>1. Expiring(e) = {} /\ Expiring(e)' = {}
    BY <1>2 DEF Expiring
  <2> QED
    BY <2>1, FS_EmptySet
<1>5. Lifetimes'
  <2> SUFFICES ASSUME NEW e \in Endpoints
               PROVE  IF timeLeft'[e] = Forever
                        THEN counter'[e] <= faults' + Cardinality(Expiring(e)')
                        ELSE timeLeft'[e] <= Window - quiet'[e]
    BY DEF Lifetimes, Forever
  <2> QED
    BY <1>1, <1>2, <1>4 DEF HonestInv, Lifetimes, TrackerTypeOK, Tick, Down, Forever
<1>6. CounterHonest'
  BY <1>1, <1>2 DEF HonestInv, CounterHonest, TrackerTypeOK, Tick
<1> QED
  BY <1>3, <1>5, <1>6

-----------------------------------------------------------------------------

LEMMA StepHonest == HonestInv /\ [TrackerNext]_trackerVars => HonestInv'
<1> SUFFICES ASSUME HonestInv, [TrackerNext]_trackerVars PROVE HonestInv'
  OBVIOUS
<1>1. TrackerTypeOK'
  BY TypeStep DEF HonestInv
<1>2. JustCounted' /\ Lifetimes' /\ CounterHonest'
  <2>1. CASE UNCHANGED trackerVars
    BY <2>1 DEF trackerVars, HonestInv, JustCounted, Lifetimes, CounterHonest, Expiring, At
  <2> QED
    BY <2>1, ArrivesHonest, LooksHonest, IncrementHonest, ExpireHonest, FailsHonest,
       TickHonest DEF TrackerNext, Track
<1> QED
  BY <1>1, <1>2 DEF HonestInv

LEMMA HonestInvHolds == TrackerSpec => []HonestInv
BY InitHonest, StepHonest, PTL DEF TrackerSpec

\* Type correctness: the counters, their expiry and the block of the address
\* stay in their ranges, and a counter is there exactly while it has time left.
THEOREM TrackerTypeCorrect == TrackerSpec => []TrackerTypeOK
<1>1. HonestInv => TrackerTypeOK
  BY DEF HonestInv
<1> QED
  BY <1>1, HonestInvHolds, PTL

\* No counter exceeds the requests since the last gap of a whole Window by more
\* than one for each failure, however many requests run at one time.
THEOREM CountersAreHonest == TrackerSpec => []CounterHonest
<1>1. HonestInv => CounterHonest
  BY DEF HonestInv
<1> QED
  BY <1>1, HonestInvHolds, PTL

-----------------------------------------------------------------------------
(* Overshooting.  A request that has been let pass may wait for its incr   *)
(* until a block is nearly over, and give a counter another Window.  As    *)
(* long as at most m - 1 requests wait like that while time passes, and m  *)
(* windows fit into a block, no counter that was blocked for outlives the  *)
(* block, so requests that arrive later find it gone.                      *)

(* Fewer than m requests wait for their incr while time passes.            *)
FewLinger(m) ==
    [][Tick => Cardinality({r \in Requests : At(r, "incr")}) < m]_trackerVars

Waiting(e) == {r \in Requests : At(r, "incr") /\ request[r].endpoint = e}
Between(e) == Waiting(e) \cup Expiring(e)

(* The requests that have reached the threshold and not yet blocked.       *)
Late(e) ==
    {r \in Requests : /\ request[r].at \in {"expire", "setex"}
                      /\ request[r].endpoint = e /\ request[r].count >= Threshold}

(* A block with the time b left outlasts a counter with the time t left,   *)
(* although k requests may yet give it another Window.                     *)
Outlasts(b, t, k, m) ==
    /\ b >= t + (IF k < m THEN k ELSE m - 1) * Window
    /\ k >= m => b >= m * Window
Covered(e, m) == Outlasts(blocked, timeLeft[e], Cardinality(Between(e)), m)

(* What a counter has above the threshold are failures and requests that   *)
(* are about to block, unless a block outlasts it: then the requests that  *)
(* wait can still add to it, and no other.                                 *)
Bounded(e, m) ==
    counter[e] >= Threshold =>
        \/ counter[e] - Threshold + 1 <= faults + Cardinality(Late(e))
        \/ /\ Covered(e, m)
           /\ counter[e] - Threshold + 1 + Cardinality(Waiting(e))
                <= faults + Cardinality(Requests)

(* During a block, a counter is outlasted by it, or was started within it  *)
(* by requests that had been let pass.                                     *)
Ending(e, m) ==
    blocked > 0 =>
        /\ Cardinality(Waiting(e)) < Cardinality(Requests)
        /\ \/ Covered(e, m)
           \/ counter[e] + Cardinality(Waiting(e)) < Cardinality(Requests) + faults

OvershootInv(m) == \A e \in Endpoints : Bounded(e, m) /\ Ending(e, m)

LEMMA Windows ==
    ASSUME NEW k \in Nat
    PROVE  /\ k * Window \in Nat /\ (k + 1) * Window = k * Window + Window
           /\ Window \in Nat /\ Window > 0
BY TrackerAssumption, SMT DEF TrackerAssumption

LEMMA MoreWindows ==
    ASSUME NEW k \in Nat, NEW n \in Nat, k <= n
    PROVE  k * Window <= n * Window
<1>1. (n - k) \in Nat /\ n = k + (n - k)
  OBVIOUS
<1>2. (n - k) * Window \in Nat
  BY <1>1, Windows
<1>3. n * Window = k * Window + (n - k) * Window
  BY <1>1, Windows, SMT
<1> QED
  BY <1>2, <1>3, Windows

(* A new block outlasts every counter.                                     *)
LEMMA NewBlockOutlasts ==
    ASSUME NEW m \in Nat \ {0}, m * Window < BlockTime, NEW t \in 0..Forever, NEW k \in Nat
    PROVE  Outlasts(BlockTime, t, k, m)
<1>1. m - 1 \in Nat /\ m * Window = (m - 1) * Window + Window
  BY Windows
<1>2. m * Window \in Nat /\ (m - 1) * Window \in Nat /\ BlockTime \in Nat
  BY <1>1, Windows, TrackerAssumption DEF TrackerAssumption
<1>3. k < m => k * Window <= (m - 1) * Window
  BY <1>1, MoreWindows
<1>4. k * Window \in Nat
  BY Windows
<1>5. t + (m - 1) * Window <= BlockTime
  BY <1>1, <1>2, Windows DEF Forever
<1> QED
  BY <1>1, <1>2, <1>3, <1>4, <1>5 DEF Outlasts, Forever

LEMMA LongerOutlasts ==
    ASSUME NEW m \in Nat \ {0}, NEW t \in Nat, NEW k \in Nat, NEW b \in Nat, NEW c \in Nat,
           Outlasts(b, t, k, m), b <= c
    PROVE  Outlasts(c, t, k, m)
<1>1. m - 1 \in Nat
  OBVIOUS
<1>2. k * Window \in Nat /\ (m - 1) * Window \in Nat /\ m * Window \in Nat
  BY <1>1, Windows
<1> QED
  BY <1>2 DEF Outlasts

(* One request less that may give the counter another Window, because it   *)
(* has failed or has just done so.                                         *)
LEMMA FewerOutlasts ==
    ASSUME NEW m \in Nat \ {0}, NEW t \in Nat, NEW k \in Nat, NEW b \in Nat,
           Outlasts(b, t, k + 1, m)
    PROVE  Outlasts(b, t, k, m) /\ Outlasts(b, Window, k, m)
<1>1. m - 1 \in Nat /\ m * Window = (m - 1) * Window + Window
  BY Windows
<1>2. /\ k * Window \in Nat /\ m * Window \in Nat /\ (m - 1) * Window \in Nat
      /\ (k + 1) * Window = k * Window + Window /\ Window \in Nat
  BY <1>1, Windows
<1>3. CASE k + 1 < m
  BY <1>2, <1>3 DEF Outlasts
<1>4. CASE ~ (k + 1 < m)
  <2>1. b >= m * Window /\ b >= t + (m - 1) * Window
    BY <1>4 DEF Outlasts
  <2>2. k < m => k = m - 1
    BY <1>4
  <2> QED
    BY <1>1, <1>2, <2>1, <2>2 DEF Outlasts
<1> QED
  BY <1>3, <1>4

(* Time passes for the block as for the counter.                           *)
LEMMA TickOutlasts ==
    ASSUME NEW m \in Nat \ {0}, NEW t \in Nat, NEW k \in Nat, NEW b \in Nat, k < m, t > 0,
           Outlasts(b, t, k, m)
    PROVE  b > 0 /\ t <= b /\ Outlasts(b - 1, t - 1, k, m)
<1>1. k * Window \in Nat
  BY Windows
<1>2. b >= t + k * Window
  BY DEF Outlasts
<1> QED
  BY <1>1, <1>2 DEF Outlasts

LEMMA RequestSets ==
    ASSUME NEW e \in Endpoints
    PROVE  /\ IsFiniteSet(Requests) /\ Cardinality(Requests) \in Nat
           /\ IsFiniteSet(Waiting(e)) /\ Cardinality(Waiting(e)) \in Nat
           /\ IsFiniteSet(Between(e)) /\ Cardinality(Between(e)) \in Nat
           /\ IsFiniteSet(Late(e)) /\ Cardinality(Late(e)) \in Nat
           /\ Cardinality(Late(e)) + Cardinality(Waiting(e)) <= Cardinality(Requests)
<1>1. IsFiniteSet(Requests) /\ Cardinality(Requests) \in Nat
  BY TrackerAssumption, FS_CardinalityType DEF TrackerAssumption
<1>2. /\ Waiting(e) \in SUBSET Requests /\ Late(e) \in SUBSET Requests
      /\ Between(e) \in SUBSET Requests
  BY DEF Waiting, Late, Between, Expiring
<1>3. /\ IsFiniteSet(Waiting(e)) /\ Cardinality(Waiting(e)) \in Nat
      /\ IsFiniteSet(Late(e)) /\ Cardinality(Late(e)) \in Nat
      /\ IsFiniteSet(Between(e)) /\ Cardinality(Between(e)) \in Nat
  BY <1>1, <1>2, FS_Subset, FS_CardinalityType
<1>4. Late(e) \cap Waiting(e) = {}
  BY DEF Waiting, Late, At
<1>5. Cardinality(Late(e) \cup Waiting(e)) = Cardinality(Late(e)) + Cardinality(Waiting(e))
  <2>1. Cardinality(Late(e) \cap Waiting(e)) = 0
    BY <1>4, FS_EmptySet
  <2>2. Cardinality(Late(e) \cup Waiting(e))
          = Cardinality(Late(e)) + Cardinality(Waiting(e)) - Cardinality(Late(e) \cap Waiting(e))
    BY <1>3, FS_Union
  <2> QED
    BY <1>3, <2>1, <2>2
<1>6. Cardinality(Late(e) \cup Waiting(e)) <= Cardinality(Requests)
  BY <1>1, <1>2, FS_Subset
<1> QED
  BY <1>1, <1>3, <1>5, <1>6

LEMMA Removed ==
    ASSUME NEW S, IsFiniteSet(S), NEW r
    PROVE  /\ Cardinality(S \ {r}) \in Nat
           /\ r \in S => Cardinality(S) = Cardinality(S \ {r}) + 1
           /\ r \notin S => Cardinality(S \ {r}) = Cardinality(S)
<1>1. /\ IsFiniteSet(S \ {r})
      /\ Cardinality(S \ {r}) = IF r \in S THEN Cardinality(S) - 1 ELSE Cardinality(S)
  BY FS_RemoveElement
<1>2. Cardinality(S) \in Nat
  BY FS_CardinalityType
<1>3. Cardinality(S \ {r}) \in Nat
  BY <1>1, FS_CardinalityType
<1> QED
  BY <1>1, <1>2, <1>3

LEMMA TrackerTypes ==
    ASSUME HonestInv, NEW e \in Endpoints
    PROVE  /\ counter[e] \in Nat /\ timeLeft[e] \in 0..Forever /\ timeLeft[e] \in Nat
           /\ blocked \in Nat /\ blocked <= BlockTime /\ faults \in 0..MaxFaults /\ faults \in Nat
           /\ counter[e] = 0 <=> timeLeft[e] = 0
           /\ Threshold \in Nat \ {0} /\ Window \in Nat \ {0} /\ BlockTime \in Nat \ {0}
           /\ MaxFaults \in Nat
BY TrackerAssumption DEF TrackerAssumption, HonestInv, TrackerTypeOK, Forever

(* A step that leaves the counter of e and the requests to e alone.        *)
LEMMA SameBounds ==
    ASSUME NEW m \in Nat \ {0}, NEW e \in Endpoints, Bounded(e, m), Ending(e, m),
           counter'[e] = counter[e], timeLeft'[e] = timeLeft[e], UNCHANGED <<faults, blocked>>,
           Waiting(e)' = Waiting(e), Between(e)' = Between(e), Late(e)' = Late(e)
    PROVE  Bounded(e, m)' /\ Ending(e, m)'
BY DEF Bounded, Ending, Covered

(* No request passes the check during a block.                             *)
LEMMA LooksBounded ==
    ASSUME NEW m \in Nat \ {0}, HonestInv, NEW e \in Endpoints, Bounded(e, m), Ending(e, m),
           NEW r \in Requests, IsIpBlocked(r) \/ GetBlocked(r) \/ \E f \in Endpoints : Arrives(r, f)
    PROVE  Bounded(e, m)' /\ Ending(e, m)'
<1>1. /\ \A s \in Requests \ {r} : request'[s] = request[s]
      /\ request[r].at \in {Idle, "isBlocked", "get"}
      /\ UNCHANGED <<counter, timeLeft, faults, blocked>>
      /\ \/ request'[r].at \in {Idle, "isBlocked", "get"}
         \/ blocked = 0 /\ request'[r].at = "incr"
  <2>1. request \in [Requests -> [at : {Idle} \cup Commands, endpoint : Endpoints, count : Nat]]
    BY DEF HonestInv, TrackerTypeOK
  <2>2. CASE IsIpBlocked(r)
    <3>1. /\ request[r].at = "isBlocked" /\ UNCHANGED <<counter, timeLeft, faults, blocked>>
          /\ request' = [request EXCEPT ![r].at = IF blocked > 0 THEN Idle ELSE "get"]
      BY <2>2 DEF IsIpBlocked, Goto, At
    <3>2. request'[r].at \in {Idle, "get"} /\ \A s \in Requests \ {r} : request'[s] = request[s]
      BY <2>1, <3>1
    <3> QED
      BY <3>1, <3>2
  <2>3. CASE GetBlocked(r)
    <3>1. /\ request[r].at = "get" /\ UNCHANGED <<counter, timeLeft, faults, blocked>>
          /\ request' = [request EXCEPT ![r].at = IF blocked > 0 THEN Idle ELSE "incr"]
      BY <2>3 DEF GetBlocked, Goto, At
    <3>2. /\ request'[r].at = IF blocked > 0 THEN Idle ELSE "incr"
          /\ \A s \in Requests \ {r} : request'[s] = request[s]
      BY <2>1, <3>1
    <3>3. ~ (blocked > 0) => blocked = 0
      BY TrackerTypes
    <3> QED
      BY <3>1, <3>2, <3>3
  <2>4. CASE \E f \in Endpoints : Arrives(r, f)
    <3>1. PICK f \in Endpoints :
            request' = [request EXCEPT ![r] = [at |-> "isBlocked", endpoint |-> f, count |-> 0]]
      BY <2>4 DEF Arrives
    <3>2. request'[r].at = "isBlocked" /\ \A s \in Requests \ {r} : request'[s] = request[s]
      BY <2>1, <3>1
    <3>3. request[r].at = Idle /\ UNCHANGED <<counter, timeLeft, faults, blocked>>
      BY <2>4 DEF Arrives, At
    <3> QED
      BY <3>2, <3>3
  <2> QED
    BY <2>2, <2>3, <2>4
<1>2. Late(e)' = Late(e)
  BY <1>1 DEF Late, Idle
<1>3. CASE request'[r].at # "incr"
  <2>1. Waiting(e)' = Waiting(e) /\ Between(e)' = Between(e)
    BY <1>1, <1>3 DEF Waiting, Between, Expiring, At, Idle
  <2> QED
    BY <1>1, <1>2, <2>1, SameBounds
<1>4. CASE blocked = 0
  <2>1. Ending(e, m)'
    BY <1>1, <1>4 DEF Ending
  <2>2. counter[e] >= Threshold => ~ Covered(e, m)
    <3>1. Cardinality(Between(e)) \in Nat /\ m - 1 \in Nat
      BY RequestSets
    <3>2. /\ Cardinality(Between(e)) * Window \in Nat /\ (m - 1) * Window \in Nat
      BY <3>1, Windows
    <3>3. counter[e] >= Threshold => timeLeft[e] > 0
      BY TrackerTypes
    <3> QED
      BY <1>4, <3>2, <3>3, TrackerTypes DEF Covered, Outlasts
  <2>3. Bounded(e, m)'
    BY <1>1, <1>2, <2>2 DEF Bounded
  <2> QED
    BY <2>1, <2>3
<1> QED
  BY <1>1, <1>3, <1>4 DEF Idle

(* One that waited has counted itself, and is late if it has to block.     *)
LEMMA IncrementBounded ==
    ASSUME NEW m \in Nat \ {0}, HonestInv, NEW e \in Endpoints, Bounded(e, m), Ending(e, m),
           NEW r \in Requests, Increment(r)
    PROVE  Bounded(e, m)' /\ Ending(e, m)'
<1>1. /\ At(r, "incr") /\ UNCHANGED <<faults, blocked>>
      /\ request'[r].at = "expire" /\ request'[r].endpoint = request[r].endpoint
      /\ request'[r].count = counter[request[r].endpoint] + 1
      /\ \A s \in Requests \ {r} : request'[s] = request[s]
      /\ counter' = [counter EXCEPT ![request[r].endpoint] = @ + 1]
      /\ timeLeft' = [timeLeft EXCEPT ![request[r].endpoint] =
                        IF counter[request[r].endpoint] = 0 THEN Forever ELSE @]
  BY DEF HonestInv, TrackerTypeOK, Increment, At
<1>2. Between(e)' = Between(e)
  BY <1>1 DEF Between, Waiting, Expiring, At
<1>3. CASE request[r].endpoint # e
  <2>1. Waiting(e)' = Waiting(e) /\ Late(e)' = Late(e)
    BY <1>1, <1>3 DEF Waiting, Late, At
  <2>2. counter'[e] = counter[e] /\ timeLeft'[e] = timeLeft[e]
    BY <1>1, <1>3 DEF HonestInv, TrackerTypeOK
  <2> QED
    BY <1>1, <1>2, <2>1, <2>2, SameBounds
<1>4. CASE request[r].endpoint = e
  <2>1. /\ counter'[e] = counter[e] + 1
        /\ counter[e] # 0 => timeLeft'[e] = timeLeft[e]
    BY <1>1, <1>4 DEF HonestInv, TrackerTypeOK
  <2>2. Waiting(e)' = Waiting(e) \ {r} /\ r \in Waiting(e)
    BY <1>1, <1>4 DEF Waiting, At
  <2>3. /\ Cardinality(Waiting(e)') \in Nat
        /\ Cardinality(Waiting(e)) = Cardinality(Waiting(e)') + 1
    BY <2>2, Removed, RequestSets
  <2>4. counter[e] # 0 /\ Covered(e, m) => Covered(e, m)'
    BY <1>1, <1>2, <2>1 DEF Covered
  <2>5. counter'[e] >= Threshold => Cardinality(Late(e)') = Cardinality(Late(e)) + 1
    <3> SUFFICES ASSUME counter'[e] >= Threshold
                 PROVE  Cardinality(Late(e)') = Cardinality(Late(e)) + 1
      OBVIOUS
    <3>1. Late(e)' = Late(e) \cup {r} /\ r \notin Late(e)
      BY <1>1, <1>4, <2>1 DEF Late, At
    <3> QED
      BY <3>1, RequestSets, FS_AddElement
  <2>6. Bounded(e, m)'
    <3> SUFFICES ASSUME counter'[e] >= Threshold
                 PROVE  \/ counter'[e] - Threshold + 1 <= faults' + Cardinality(Late(e)')
                        \/ /\ Covered(e, m)'
                           /\ counter'[e] - Threshold + 1 + Cardinality(Waiting(e)')
                                <= faults' + Cardinality(Requests)
      BY DEF Bounded
    <3>1. CASE counter[e] < Threshold
      BY <1>1, <2>1, <2>5, <3>1, RequestSets, TrackerTypes
    <3>2. CASE counter[e] >= Threshold
      BY <1>1, <2>1, <2>3, <2>4, <2>5, <3>2, RequestSets, TrackerTypes DEF Bounded
    <3> QED
      BY <3>1, <3>2, TrackerTypes
  <2>7. Ending(e, m)'
    <3> SUFFICES ASSUME blocked > 0
                 PROVE  /\ Cardinality(Waiting(e)') < Cardinality(Requests)
                        /\ \/ Covered(e, m)'
                           \/ counter'[e] + Cardinality(Waiting(e)')
                                < Cardinality(Requests) + faults
      BY <1>1 DEF Ending
    <3>1. /\ Cardinality(Waiting(e)) < Cardinality(Requests)
          /\ \/ Covered(e, m)
             \/ counter[e] + Cardinality(Waiting(e)) < Cardinality(Requests) + faults
      BY DEF Ending
    <3> QED
      BY <2>1, <2>3, <2>4, <3>1, RequestSets, TrackerTypes
  <2> QED
    BY <2>6, <2>7
<1> QED
  BY <1>3, <1>4

(* The counter has another Window, and one request less that may renew it. *)
LEMMA ExpireBounded ==
    ASSUME NEW m \in Nat \ {0}, HonestInv, NEW e \in Endpoints, Bounded(e, m), Ending(e, m),
           NEW r \in Requests, Expire(r)
    PROVE  Bounded(e, m)' /\ Ending(e, m)'
<1>1. /\ At(r, "expire") /\ UNCHANGED <<counter, faults, blocked>>
      /\ request'[r].at = IF Suspicious(request[r].count) THEN "setex" ELSE Idle
      /\ request'[r].endpoint = request[r].endpoint /\ request'[r].count = request[r].count
      /\ request[r].count \in Nat
      /\ \A s \in Requests \ {r} : request'[s] = request[s]
      /\ timeLeft' = [timeLeft EXCEPT ![request[r].endpoint] = Window]
  BY DEF HonestInv, TrackerTypeOK, Expire, Goto, At
<1>2. Waiting(e)' = Waiting(e)
  BY <1>1 DEF Waiting, At, Idle
<1>3. Late(e)' = Late(e)
  BY <1>1 DEF Late, At, Idle, Suspicious
<1>4. CASE request[r].endpoint # e
  <2>1. Between(e)' = Between(e) /\ timeLeft'[e] = timeLeft[e]
    BY <1>1, <1>2, <1>4 DEF Between, Expiring, At, HonestInv, TrackerTypeOK
  <2> QED
    BY <1>1, <1>2, <1>3, <2>1, SameBounds
<1>5. CASE request[r].endpoint = e
  <2>1. Between(e)' = Between(e) \ {r} /\ r \in Between(e)
    BY <1>1, <1>5 DEF Between, Waiting, Expiring, At, Idle
  <2>2. /\ Cardinality(Between(e)') \in Nat
        /\ Cardinality(Between(e)) = Cardinality(Between(e)') + 1
    BY <2>1, Removed, RequestSets
  <2>3. timeLeft'[e] = Window
    BY <1>1, <1>5 DEF HonestInv, TrackerTypeOK
  <2>4. Covered(e, m) => Covered(e, m)'
    BY <1>1, <2>2, <2>3, FewerOutlasts, TrackerTypes DEF Covered
  <2> QED
    BY <1>1, <1>2, <1>3, <2>4 DEF Bounded, Ending
<1> QED
  BY <1>4, <1>5

(* A block that begins outlasts every counter; the request that begins it  *)
(* is the one that is no longer late.                                      *)
LEMMA BlockBounded ==
    ASSUME NEW m \in Nat \ {0}, m * Window < BlockTime,
           HonestInv, NEW e \in Endpoints, Bounded(e, m), Ending(e, m),
           NEW r \in Requests, Block(r)
    PROVE  Bounded(e, m)' /\ Ending(e, m)'
<1>1. /\ At(r, "setex") /\ UNCHANGED <<counter, timeLeft, faults>> /\ blocked' = BlockTime
      /\ request'[r].at = Idle
      /\ \A s \in Requests \ {r} : request'[s] = request[s]
  BY DEF HonestInv, TrackerTypeOK, Block, Goto, At
<1>2. Waiting(e)' = Waiting(e) /\ Between(e)' = Between(e)
  BY <1>1 DEF Waiting, Between, Expiring, At, Idle
<1>3. Covered(e, m)'
  BY <1>1, <1>2, NewBlockOutlasts, RequestSets, TrackerTypes DEF Covered
<1>4. Cardinality(Waiting(e)) < Cardinality(Requests)
  <2>1. Waiting(e) \in SUBSET (Requests \ {r})
    BY <1>1 DEF Waiting, At
  <2>2. IsFiniteSet(Requests \ {r}) /\ Cardinality(Requests) = Cardinality(Requests \ {r}) + 1
        /\ Cardinality(Requests \ {r}) \in Nat
    BY Removed, RequestSets, FS_RemoveElement
  <2>3. Cardinality(Waiting(e)) <= Cardinality(Requests \ {r})
    BY <2>1, <2>2, FS_Subset
  <2> QED
    BY <2>2, <2>3, RequestSets
<1>5. Ending(e, m)'
  BY <1>2, <1>3, <1>4 DEF Ending
<1>6. counter[e] >= Threshold =>
        counter[e] - Threshold + 1 + Cardinality(Waiting(e)) <= faults + Cardinality(Requests)
  BY RequestSets, TrackerTypes DEF Bounded
<1>7. Bounded(e, m)'
  BY <1>1, <1>2, <1>3, <1>6 DEF Bounded
<1> QED
  BY <1>5, <1>7

(* A failure takes the place of a request that was late or that waited.    *)
LEMMA FailsBounded ==
    ASSUME NEW m \in Nat \ {0}, HonestInv, NEW e \in Endpoints, Bounded(e, m), Ending(e, m),
           NEW r \in Requests, Fails(r)
    PROVE  Bounded(e, m)' /\ Ending(e, m)'
<1>1. /\ UNCHANGED <<counter, timeLeft, blocked>> /\ faults' = faults + 1
      /\ request'[r].at = Idle
      /\ \A s \in Requests \ {r} : request'[s] = request[s]
  BY DEF HonestInv, TrackerTypeOK, Fails, Goto, At
<1>2. /\ Waiting(e)' = Waiting(e) \ {r} /\ Between(e)' = Between(e) \ {r}
      /\ Late(e)' = Late(e) \ {r}
  BY <1>1 DEF Waiting, Between, Expiring, Late, At, Idle
<1>3. /\ Cardinality(Waiting(e)') \in Nat /\ Cardinality(Waiting(e)') <= Cardinality(Waiting(e))
      /\ Cardinality(Late(e)') \in Nat /\ Cardinality(Late(e)) <= Cardinality(Late(e)') + 1
  <2>1. /\ Cardinality(Waiting(e) \ {r}) \in Nat
        /\ Cardinality(Waiting(e) \ {r}) <= Cardinality(Waiting(e))
    <3>1. Cardinality(Waiting(e)) \in Nat /\ IsFiniteSet(Waiting(e))
      BY RequestSets
    <3> QED
      BY <3>1, Removed
  <2>2. /\ Cardinality(Late(e) \ {r}) \in Nat
        /\ Cardinality(Late(e)) <= Cardinality(Late(e) \ {r}) + 1
    <3>1. Cardinality(Late(e)) \in Nat /\ IsFiniteSet(Late(e))
      BY RequestSets
    <3> QED
      BY <3>1, Removed
  <2> QED
    BY <1>2, <2>1, <2>2
<1>4. Covered(e, m) => Covered(e, m)'
  <2>1. CASE r \notin Between(e)
    <3>1. Between(e)' = Between(e)
      BY <1>2, <2>1
    <3> QED
      BY <1>1, <3>1 DEF Covered
  <2>2. CASE r \in Between(e)
    <3>1. /\ Cardinality(Between(e)') \in Nat
          /\ Cardinality(Between(e)) = Cardinality(Between(e)') + 1
      BY <1>2, <2>2, Removed, RequestSets
    <3>2. Outlasts(blocked, timeLeft[e], Cardinality(Between(e)') + 1, m)
            => Outlasts(blocked, timeLeft[e], Cardinality(Between(e)'), m)
      BY <3>1, FewerOutlasts, TrackerTypes
    <3> QED
      BY <1>1, <3>1, <3>2 DEF Covered
  <2> QED
    BY <2>1, <2>2
<1>5. Bounded(e, m)'
  <2> SUFFICES ASSUME counter[e] >= Threshold
               PROVE  \/ counter[e] - Threshold + 1 <= faults + 1 + Cardinality(Late(e)')
                      \/ /\ Covered(e, m)'
                         /\ counter[e] - Threshold + 1 + Cardinality(Waiting(e)')
                              <= faults + 1 + Cardinality(Requests)
    BY <1>1 DEF Bounded
  <2> QED
    BY <1>3, <1>4, RequestSets, TrackerTypes DEF Bounded
<1>6. Ending(e, m)'
  <2> SUFFICES ASSUME blocked > 0
               PROVE  /\ Cardinality(Waiting(e)') < Cardinality(Requests)
                      /\ \/ Covered(e, m)'
                         \/ counter[e] + Cardinality(Waiting(e)')
                              < Cardinality(Requests) + (faults + 1)
    BY <1>1 DEF Ending
  <2> QED
    BY <1>3, <1>4, RequestSets, TrackerTypes DEF Ending
<1> QED
  BY <1>5, <1>6

(* A covered counter loses time as the block does, unless it has none: it  *)
(* then counts failures only.                                              *)
LEMMA TickBounded ==
    ASSUME NEW m \in Nat \ {0}, HonestInv, NEW e \in Endpoints, Bounded(e, m), Ending(e, m),
           Tick, Cardinality({r \in Requests : At(r, "incr")}) < m
    PROVE  /\ Bounded(e, m)' /\ Ending(e, m)'
           /\ (blocked > 0 /\ blocked' = 0) =>
                counter'[e] = 0 \/ counter'[e] < Cardinality(Requests) + faults
<1>1. /\ UNCHANGED <<request, faults>> /\ blocked' = Down(blocked)
      /\ timeLeft'[e] = IF timeLeft[e] = Forever THEN Forever ELSE Down(timeLeft[e])
      /\ counter'[e] = IF timeLeft'[e] = 0 THEN 0 ELSE counter[e]
      /\ \A r \in Requests : ~ At(r, "expire")
  BY DEF Tick
<1>2. Waiting(e)' = Waiting(e) /\ Between(e)' = Between(e) /\ Late(e)' = Late(e)
  BY <1>1 DEF Waiting, Between, Expiring, Late, At
<1>3. Cardinality(Between(e)) < m
  <2>1. Between(e) \in SUBSET {r \in Requests : At(r, "incr")}
    BY <1>1 DEF Between, Waiting, Expiring
  <2>2. IsFiniteSet({r \in Requests : At(r, "incr")})
    BY RequestSets, FS_Subset
  <2>3. Cardinality(Between(e)) <= Cardinality({r \in Requests : At(r, "incr")})
    BY <2>1, <2>2, FS_Subset
  <2>4. Cardinality({r \in Requests : At(r, "incr")}) \in Nat
    BY <2>2, FS_CardinalityType
  <2> QED
    BY <2>3, <2>4, RequestSets
<1>4. timeLeft[e] = Forever => counter[e] <= faults
  <2>1. Expiring(e) = {}
    BY <1>1 DEF Expiring
  <2>2. Cardinality(Expiring(e)) = 0
    BY <2>1, FS_EmptySet
  <2> QED
    BY <2>2, TrackerTypes DEF HonestInv, Lifetimes
<1>5. counter'[e] \in Nat /\ counter'[e] <= counter[e]
  BY <1>1, TrackerTypes
\* As long as the counter is there, both have a second less.
<1>6. ASSUME Covered(e, m), timeLeft[e] # Forever, counter'[e] # 0
      PROVE  Covered(e, m)' /\ blocked' > 0
  <2>1. timeLeft'[e] = timeLeft[e] - 1 /\ timeLeft[e] > 1
    BY <1>1, <1>6, TrackerTypes DEF Down
  <2>2. /\ blocked >= timeLeft[e] /\ blocked > 0
        /\ Outlasts(blocked - 1, timeLeft[e] - 1, Cardinality(Between(e)), m)
    BY <1>3, <1>6, <2>1, RequestSets, TickOutlasts, TrackerTypes DEF Covered
  <2>3. blocked' = blocked - 1 /\ blocked' > 0
    BY <1>1, <2>1, <2>2, TrackerTypes DEF Down
  <2> QED
    BY <1>2, <2>1, <2>2, <2>3 DEF Covered
<1>7. Bounded(e, m)'
  <2> SUFFICES ASSUME counter'[e] >= Threshold
               PROVE  \/ counter'[e] - Threshold + 1 <= faults + Cardinality(Late(e))
                      \/ /\ Covered(e, m)'
                         /\ counter'[e] - Threshold + 1 + Cardinality(Waiting(e))
                              <= faults + Cardinality(Requests)
    BY <1>1, <1>2 DEF Bounded
  <2>1. counter'[e] # 0 /\ counter[e] = counter'[e]
    BY <1>1, TrackerTypes
  <2>2. CASE timeLeft[e] = Forever
    BY <1>4, <2>1, <2>2, RequestSets, TrackerTypes
  <2>3. CASE timeLeft[e] # Forever
    BY <1>6, <2>1, <2>3, RequestSets, TrackerTypes DEF Bounded
  <2> QED
    BY <2>2, <2>3
<1>8. blocked > 0 =>
        /\ Cardinality(Waiting(e)) < Cardinality(Requests)
        /\ \/ Covered(e, m)' /\ blocked' > 0
           \/ counter'[e] + Cardinality(Waiting(e)) < Cardinality(Requests) + faults
  <2> SUFFICES ASSUME blocked > 0
               PROVE  /\ Cardinality(Waiting(e)) < Cardinality(Requests)
                      /\ \/ Covered(e, m)' /\ blocked' > 0
                         \/ counter'[e] + Cardinality(Waiting(e)) < Cardinality(Requests) + faults
    OBVIOUS
  <2>1. /\ Cardinality(Waiting(e)) < Cardinality(Requests)
        /\ \/ Covered(e, m)
           \/ counter[e] + Cardinality(Waiting(e)) < Cardinality(Requests) + faults
    BY DEF Ending
  <2>2. CASE timeLeft[e] = Forever \/ counter'[e] = 0
    BY <1>4, <1>5, <2>1, <2>2, RequestSets, TrackerTypes
  <2>3. CASE timeLeft[e] # Forever /\ counter'[e] # 0
    BY <1>5, <1>6, <2>1, <2>3, RequestSets, TrackerTypes
  <2> QED
    BY <2>2, <2>3
<1>9. blocked' > 0 => blocked > 0
  BY <1>1, TrackerTypes DEF Down
<1>10. Ending(e, m)'
  BY <1>1, <1>2, <1>8, <1>9 DEF Ending
<1>11. blocked > 0 /\ blocked' = 0 =>
         counter'[e] = 0 \/ counter'[e] < Cardinality(Requests) + faults
  BY <1>5, <1>8, RequestSets, TrackerTypes
<1> QED
  BY <1>7, <1>10, <1>11

LEMMA InitOvershoot ==
    ASSUME NEW m \in Nat \ {0}, TrackerInit
    PROVE  OvershootInv(m)
<1> SUFFICES ASSUME NEW e \in Endpoints PROVE Bounded(e, m) /\ Ending(e, m)
  BY DEF OvershootInv
<1>1. counter[e] = 0 /\ blocked = 0 /\ Threshold > 0 /\ Threshold \in Nat
  BY TrackerAssumption DEF TrackerAssumption, TrackerInit
<1> QED
  BY <1>1 DEF Bounded, Ending

LEMMA StepOvershoot ==
    ASSUME NEW m \in Nat \ {0}, m * Window < BlockTime,
           HonestInv, OvershootInv(m), [TrackerNext]_trackerVars,
           [Tick => Cardinality({r \in Requests : At(r, "incr")}) < m]_trackerVars
    PROVE  /\ OvershootInv(m)'
           /\ (blocked > 0 /\ blocked' = 0) =>
                \A e \in Endpoints :
                    counter'[e] = 0 \/ counter'[e] < Cardinality(Requests) + faults
<1> SUFFICES ASSUME NEW e \in Endpoints
             PROVE  /\ Bounded(e, m)' /\ Ending(e, m)'
                    /\ (blocked > 0 /\ blocked' = 0) =>
                         counter'[e] = 0 \/ counter'[e] < Cardinality(Requests) + faults
  BY DEF OvershootInv
<1>1. Bounded(e, m) /\ Ending(e, m)
  BY DEF OvershootInv
<1>2. CASE UNCHANGED trackerVars
  <2>1. /\ UNCHANGED <<counter, timeLeft, blocked, request, faults>>
    BY <1>2 DEF trackerVars
  <2>2. Waiting(e)' = Waiting(e) /\ Between(e)' = Between(e) /\ Late(e)' = Late(e)
    BY <2>1 DEF Waiting, Between, Expiring, Late, At
  <2> QED
    BY <1>1, <2>1, <2>2, SameBounds
<1>3. CASE \E r \in Requests :
             IsIpBlocked(r) \/ GetBlocked(r) \/ \E f \in Endpoints : Arrives(r, f)
  <2>1. blocked' = blocked
    BY <1>3 DEF IsIpBlocked, GetBlocked, Arrives
  <2> QED
    BY <1>1, <1>3, <2>1, LooksBounded
<1>4. CASE \E r \in Requests : Increment(r)
  <2>1. blocked' = blocked
    BY <1>4 DEF Increment
  <2> QED
    BY <1>1, <1>4, <2>1, IncrementBounded
<1>5. CASE \E r \in Requests : Expire(r)
  <2>1. blocked' = blocked
    BY <1>5 DEF Expire
  <2> QED
    BY <1>1, <1>5, <2>1, ExpireBounded
<1>6. CASE \E r \in Requests : Block(r)
  <2>1. blocked' # 0
    BY <1>6, TrackerTypes DEF Block
  <2> QED
    BY <1>1, <1>6, <2>1, BlockBounded
<1>7. CASE \E r \in Requests : Fails(r)
  <2>1. blocked' = blocked
    BY <1>7 DEF Fails
  <2> QED
    BY <1>1, <1>7, <2>1, FailsBounded
<1>8. CASE Tick /\ ~ UNCHANGED trackerVars
  BY <1>1, <1>8, TickBounded
<1> QED
  BY <1>2, <1>3, <1>4, <1>5, <1>6, <1>7, <1>8 DEF TrackerNext, Track

\* However many requests run at one time, a counter overshoots the threshold by
\* no more than there are of them and of failures: if at most m - 1 requests wait
\* for their incr while time passes, and a block lasts longer than m windows.
THEOREM OvershootIsBounded ==
    ASSUME NEW m \in Nat \ {0}, m * Window < BlockTime
    PROVE  TrackerSpec /\ FewLinger(m) => []OvershootBounded
<1>1. TrackerInit => HonestInv /\ OvershootInv(m)
  BY InitHonest, InitOvershoot
<1>2. /\ HonestInv /\ OvershootInv(m) /\ [TrackerNext]_trackerVars
      /\ [Tick => Cardinality({r \in Requests : At(r, "incr")}) < m]_trackerVars
      => (HonestInv /\ OvershootInv(m))'
  BY StepHonest, StepOvershoot
<1>3. HonestInv /\ OvershootInv(m) => OvershootBounded
  <2> SUFFICES ASSUME HonestInv, OvershootInv(m), NEW e \in Endpoints, counter[e] >= Threshold
               PROVE  counter[e] < Threshold + Cardinality(Requests) + faults
    BY RequestSets, TrackerTypes DEF OvershootBounded
  <2> QED
    BY RequestSets, TrackerTypes DEF OvershootInv, Bounded
<1> QED
  BY <1>1, <1>2, <1>3, PTL DEF TrackerSpec, FewLinger

\* When a block ends, every counter has ended before, or holds only what requests
\* that had been let pass before the block, and failures, have put there, which
\* is less than the threshold if there are fewer of them than that.
THEOREM BlocksEndFresh ==
    ASSUME NEW m \in Nat \ {0}, m * Window < BlockTime,
           Cardinality(Requests) + MaxFaults <= Threshold
    PROVE  TrackerSpec /\ FewLinger(m) => FreshAfterBlock
<1>1. TrackerInit => HonestInv /\ OvershootInv(m)
  BY InitHonest, InitOvershoot
<1>2. /\ HonestInv /\ OvershootInv(m) /\ [TrackerNext]_trackerVars
      /\ [Tick => Cardinality({r \in Requests : At(r, "incr")}) < m]_trackerVars
      => (HonestInv /\ OvershootInv(m))'
  BY StepHonest, StepOvershoot
<1>3. /\ HonestInv /\ OvershootInv(m) /\ [TrackerNext]_trackerVars
      /\ [Tick => Cardinality({r \in Requests : At(r, "incr")}) < m]_trackerVars
      => [blocked > 0 /\ blocked' = 0 =>
            \A e \in Endpoints : counter'[e] < Threshold]_trackerVars
  <2> SUFFICES ASSUME HonestInv, OvershootInv(m), [TrackerNext]_trackerVars,
                      [Tick => Cardinality({r \in Requests : At(r, "incr")}) < m]_trackerVars,
                      blocked > 0, blocked' = 0, NEW e \in Endpoints
               PROVE  counter'[e] < Threshold
    OBVIOUS
  <2>1. counter'[e] = 0 \/ counter'[e] < Cardinality(Requests) + faults
    BY StepOvershoot
  <2>2. counter'[e] \in Nat
    BY StepHonest, TrackerTypes DEF HonestInv, TrackerTypeOK
  <2> QED
    BY <2>1, <2>2, RequestSets, TrackerTypes
<1> QED
  BY <1>1, <1>2, <1>3, PTL DEF TrackerSpec, FewLinger, FreshAfterBlock

=============================================================================
