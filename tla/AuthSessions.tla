---------------------------- MODULE AuthSessions ----------------------------
(***************************************************************************)
(* AuthService (src/modules/auth/services/auth.service.ts): nonces, wallet *)
(* logins, sessions and the rotation of their refresh tokens.              *)
(*                                                                         *)
(* HTTP requests run concurrently in one process: a request is a sequence  *)
(* of awaited calls of Redis, PostgreSQL and bcrypt, and an action is the  *)
(* code between two of them.                                               *)
(*                                                                         *)
(* A refresh token is a JWT over its session and the second of its issue,  *)
(* so those two are the token: signing twice in one second gives the same  *)
(* token.  A session row keeps the issue time of the token that it holds   *)
(* the hash of.                                                            *)
(***************************************************************************)
EXTENDS Integers, Sequences, FiniteSets

CONSTANTS
    Wallets,
    Requests,       \* bound: logins and refreshes at one time
    MaxSessions,    \* bound: sessions
    MaxNonces,      \* bound: nonces given out
    MaxClock,       \* bound: seconds
    MaxFaults,      \* bound: failing calls
    TokenLife,      \* REFRESH_TOKEN_EXPIRATION_TIME_IN_SECONDS
    SharedSessions  \* sessions whose client refreshes at any time with any token
                    \* it was given; any other client sends one refresh at a
                    \* time, with its newest token

ASSUME AuthAssumption ==
    /\ MaxSessions \in Nat /\ MaxNonces \in Nat /\ MaxClock \in Nat /\ MaxFaults \in Nat
    /\ TokenLife \in Nat \ {0}
    /\ Wallets # {} /\ IsFiniteSet(Requests)
    /\ SharedSessions \subseteq 1..MaxSessions

VARIABLES
    nonces,     \* Redis: wallet -> the nonce under nonce:<wallet>:<chain>, 0 for none
    givenTo,    \* the wallet that each nonce was made for, in order
    users,      \* the users table: wallets with a user
    sessions,   \* the sessions table
    now,        \* the clock, in seconds
    task,       \* request -> the call it waits for and its locals
    delivered,  \* the tokens that were answered to clients
    spent,      \* the nonces that a login has deleted
    faults      \* failing calls so far

vars == <<nonces, givenTo, users, sessions, now, task, delivered, spent, faults>>

NoHash == -1   \* refreshTokenHash: ''
NoRole == ""   \* undefined
Times == 0..MaxClock
SessionIds == 1..MaxSessions

LoginSteps == {"nonce", "deleteNonce", "findUser", "createUser", "createSession"}
RefreshSteps == {"findSession", "deactivate"}
Running == LoginSteps \cup RefreshSteps \cup {"sign", "save", "clear"}

Session == [user : Wallets, iat : Times \cup {NoHash}, isActive : BOOLEAN]
Task == [at : {"idle"} \cup Running, wallet : Wallets, nonce : 0..MaxNonces,
         session : 0..MaxSessions, shown : Times \cup {NoHash},
         signed : Times \cup {NoHash}, role : {NoRole, "USER"}]
Token == [session : SessionIds, iat : Times, role : {NoRole, "USER"}]

Fresh(step, w) ==
    [at |-> step, wallet |-> w, nonce |-> 0, session |-> 0, shown |-> NoHash,
     signed |-> NoHash, role |-> NoRole]
Idle == Fresh("idle", CHOOSE w \in Wallets : TRUE)

Init ==
    /\ nonces = [w \in Wallets |-> 0] /\ givenTo = <<>>
    /\ users = {} /\ sessions = <<>>
    /\ now = 0
    /\ task = [r \in Requests |-> Idle]
    /\ delivered = {} /\ spent = {} /\ faults = 0

At(r, step) == task[r].at = step
Goto(r, step) == task' = [task EXCEPT ![r].at = step]

(* The request is answered, with tokens or with an error.                  *)
End(r) == task' = [task EXCEPT ![r] = Idle]

-----------------------------------------------------------------------------
(* getNonce()                                                              *)

GetNonce(w) ==
    /\ Len(givenTo) < MaxNonces
    /\ givenTo' = Append(givenTo, w)
    /\ nonces' = [nonces EXCEPT ![w] = Len(givenTo')]
    /\ UNCHANGED <<users, sessions, now, task, delivered, spent, faults>>

(* The five minutes of NONCE_EXPIRATION_TIME are over.                     *)
NonceExpires(w) ==
    /\ nonces[w] # 0
    /\ nonces' = [nonces EXCEPT ![w] = 0]
    /\ UNCHANGED <<givenTo, users, sessions, now, task, delivered, spent, faults>>

-----------------------------------------------------------------------------
(* walletLogin()                                                           *)

LoggingIn == {r \in Requests : task[r].at \in LoginSteps}

(* A client that has signed the n-th nonce logs in.                        *)
Login(r, n) ==
    /\ At(r, "idle")
    /\ Len(sessions) + Cardinality(LoggingIn) < MaxSessions
    /\ task' = [task EXCEPT ![r] = [Fresh("nonce", givenTo[n]) EXCEPT !.nonce = n]]
    /\ UNCHANGED <<nonces, givenTo, users, sessions, now, delivered, spent, faults>>

(* The signature is checked against the nonce that Redis has.              *)
CheckNonce(r) ==
    /\ At(r, "nonce")
    /\ IF nonces[task[r].wallet] = task[r].nonce
         THEN Goto(r, "deleteNonce")
         ELSE End(r)
    /\ UNCHANGED <<nonces, givenTo, users, sessions, now, delivered, spent, faults>>

DeleteNonce_Forgotten(r) ==
    /\ At(r, "deleteNonce")
    /\ spent' = spent \cup {task[r].nonce}
    /\ Goto(r, "findUser")
    /\ UNCHANGED <<nonces, givenTo, users, sessions, now, delivered, faults>>
DeleteNonce(r) ==
    /\ At(r, "deleteNonce")
    /\ nonces' = [nonces EXCEPT ![task[r].wallet] = 0]
    /\ spent' = spent \cup {task[r].nonce}
    /\ Goto(r, "findUser")
    /\ UNCHANGED <<givenTo, users, sessions, now, delivered, faults>>

(* findByWalletAddress() does not select the role.                         *)
FindUser(r) ==
    /\ At(r, "findUser")
    /\ Goto(r, IF task[r].wallet \in users THEN "createSession" ELSE "createUser")
    /\ UNCHANGED <<nonces, givenTo, users, sessions, now, delivered, spent, faults>>

(* walletAddress is unique.                                                *)
CreateUser(r) ==
    /\ At(r, "createUser")
    /\ IF task[r].wallet \in users
         THEN End(r) /\ UNCHANGED users
         ELSE /\ users' = users \cup {task[r].wallet}
              /\ task' = [task EXCEPT ![r].at = "createSession", ![r].role = "USER"]
    /\ UNCHANGED <<nonces, givenTo, sessions, now, delivered, spent, faults>>

CreateSession(r) ==
    /\ At(r, "createSession")
    /\ sessions' = Append(sessions,
                     [user |-> task[r].wallet, iat |-> NoHash, isActive |-> TRUE])
    /\ task' = [task EXCEPT ![r].at = "sign", ![r].session = Len(sessions')]
    /\ UNCHANGED <<nonces, givenTo, users, now, delivered, spent, faults>>

-----------------------------------------------------------------------------
(* refresh()                                                               *)

InFlight(s) == {r \in Requests : task[r].session = s /\ task[r].at \in Running}

(* A client sends a token that it was given.                               *)
Refresh(r, t) ==
    /\ At(r, "idle")
    /\ t.session \in SharedSessions
         \/ /\ InFlight(t.session) = {}
            /\ \A u \in delivered : u.session = t.session => u.iat <= t.iat
    /\ IF now < t.iat + TokenLife
         THEN task' = [task EXCEPT ![r] =
                [Fresh("findSession", sessions[t.session].user) EXCEPT
                   !.session = t.session, !.shown = t.iat, !.role = "USER"]]
         ELSE End(r)
    /\ UNCHANGED <<nonces, givenTo, users, sessions, now, delivered, spent, faults>>

(* The session, if it is active, and the comparison with its hash.         *)
FindSession(r) ==
    /\ At(r, "findSession")
    /\ LET session == sessions[task[r].session]
       IN IF ~ session.isActive THEN End(r)
          ELSE Goto(r, IF session.iat = task[r].shown THEN "sign" ELSE "deactivate")
    /\ UNCHANGED <<nonces, givenTo, users, sessions, now, delivered, spent, faults>>

(* deactivateAllUserSessions()                                             *)
DeactivateAll(r) ==
    /\ At(r, "deactivate")
    /\ sessions' = [s \in DOMAIN sessions |->
         IF sessions[s].user = task[r].wallet
           THEN [sessions[s] EXCEPT !.isActive = FALSE] ELSE sessions[s]]
    /\ End(r)
    /\ UNCHANGED <<nonces, givenTo, users, now, delivered, spent, faults>>

-----------------------------------------------------------------------------
(* generateTokens()                                                        *)

Sign_Expiry(r) ==
    /\ At(r, "sign")
    /\ task' = [task EXCEPT ![r].at = "save", ![r].signed = now + TokenLife]
    /\ UNCHANGED <<nonces, givenTo, users, sessions, now, delivered, spent, faults>>
Sign(r) ==
    /\ At(r, "sign")
    /\ task' = [task EXCEPT ![r].at = "save", ![r].signed = now]
    /\ UNCHANGED <<nonces, givenTo, users, sessions, now, delivered, spent, faults>>

Deliver(r) ==
    /\ delivered' = delivered \cup
         {[session |-> task[r].session, iat |-> task[r].signed, role |-> task[r].role]}
    /\ End(r)

(* save(session) writes every column in which the object that was read     *)
(* earlier differs from the row, isActive included.  A login is answered;  *)
(* a refresh has another call to make.                                     *)
SaveSession_SignsAgain(r) ==
    /\ At(r, "save")
    /\ sessions' = [sessions EXCEPT ![task[r].session].iat = now,
                                    ![task[r].session].isActive = TRUE]
    /\ IF task[r].nonce # 0 THEN Deliver(r) ELSE Goto(r, "clear") /\ UNCHANGED delivered
    /\ UNCHANGED <<nonces, givenTo, users, now, spent, faults>>
SaveSession(r) ==
    /\ At(r, "save")
    /\ sessions' = [sessions EXCEPT ![task[r].session].iat = task[r].signed,
                                    ![task[r].session].isActive = TRUE]
    /\ IF task[r].nonce # 0 THEN Deliver(r) ELSE Goto(r, "clear") /\ UNCHANGED delivered
    /\ UNCHANGED <<nonces, givenTo, users, now, spent, faults>>

(* redis.del(accessTokenPayloadExpiredKey): no code of the repository sets *)
(* that key.                                                               *)
ClearExpiredKey(r) ==
    /\ At(r, "clear")
    /\ Deliver(r)
    /\ UNCHANGED <<nonces, givenTo, users, sessions, now, spent, faults>>

-----------------------------------------------------------------------------

(* An awaited call fails, and the request with it.                         *)
CallFails(r) ==
    /\ task[r].at \in Running
    /\ faults < MaxFaults
    /\ faults' = faults + 1
    /\ End(r)
    /\ UNCHANGED <<nonces, givenTo, users, sessions, now, delivered, spent>>

Tick ==
    /\ now < MaxClock
    /\ now' = now + 1
    /\ UNCHANGED <<nonces, givenTo, users, sessions, task, delivered, spent, faults>>

Step(r) ==
    \/ CheckNonce(r) \/ DeleteNonce(r) \/ FindUser(r) \/ CreateUser(r) \/ CreateSession(r)
    \/ FindSession(r) \/ DeactivateAll(r)
    \/ Sign(r) \/ SaveSession(r) \/ ClearExpiredKey(r)

Next ==
    \/ \E w \in Wallets : GetNonce(w) \/ NonceExpires(w)
    \/ \E r \in Requests, n \in 1..Len(givenTo) : Login(r, n)
    \/ \E r \in Requests, t \in delivered : Refresh(r, t)
    \/ \E r \in Requests : Step(r) \/ CallFails(r)
    \/ Tick

Spec == Init /\ [][Next]_vars

-----------------------------------------------------------------------------

\* Every variable has its type.
TypeOK ==
    /\ nonces \in [Wallets -> 0..MaxNonces]
    /\ givenTo \in Seq(Wallets) /\ Len(givenTo) <= MaxNonces
    /\ users \subseteq Wallets
    /\ sessions \in Seq(Session) /\ Len(sessions) <= MaxSessions
    /\ now \in Times
    /\ task \in [Requests -> Task]
    /\ delivered \subseteq Token
    /\ spent \subseteq 1..MaxNonces
    /\ faults \in 0..MaxFaults

\* A nonce that one login has deleted lets no later one in.
NonceSpentOnce ==
    [][\A r \in Requests :
         At(r, "nonce") /\ task'[r].at = "deleteNonce" => task[r].nonce \notin spent]_vars

\* A client that sends one refresh at a time, with its newest token, is never
\* taken for a replay as long as no call fails.
NoFalseReplay ==
    faults = 0 =>
        \A r \in Requests : At(r, "deactivate") => task[r].session \in SharedSessions

\* When no request for a session is under way, a client holds the token that
\* the session expects, unless a call has failed.
SessionsUsable ==
    faults = 0 =>
        \A s \in DOMAIN sessions : InFlight(s) = {} =>
            \E t \in delivered : t.session = s /\ t.iat = sessions[s].iat

\* A session that was deactivated stays so.
DeactivationSticks ==
    [][\A s \in DOMAIN sessions : ~ sessions[s].isActive => ~ sessions'[s].isActive]_vars

\* A nonce lets one login in: no two logins with one nonce have their sessions at
\* the same time.
Admitted(r) == task[r].nonce # 0 /\ task[r].at \in {"sign", "save"}
NonceUsedOnce ==
    \A q, r \in Requests :
        Admitted(q) /\ Admitted(r) /\ task[q].nonce = task[r].nonce => q = r

\* A refresh token is exchanged once: no two refreshes of one session that have
\* shown the same token are given new ones at the same time.
Exchanging(r) == task[r].nonce = 0 /\ task[r].at \in {"sign", "save", "clear"}
RefreshUsedOnce ==
    \A q, r \in Requests :
        (/\ Exchanging(q) /\ Exchanging(r)
         /\ task[q].session = task[r].session /\ task[q].shown = task[r].shown) => q = r

\* The access token that comes with a refresh token carries the user's role.
RoleInToken == \A t \in delivered : t.role = "USER"

=============================================================================
