------------------------ MODULE AuthSessions_proofs ------------------------
(***************************************************************************)
(* Type correctness of the sessions, that a spent nonce lets nobody in,    *)
(* and that a client which waits for its answers keeps a usable token and  *)
(* is never taken for a replay: for every number of wallets, requests,     *)
(* sessions, nonces and seconds.                                           *)
(***************************************************************************)
EXTENDS AuthSessions, FiniteSetTheorems, SequenceTheorems, TLAPS

(* What a request holds at each of its calls.                              *)
TaskOK(r) ==
    /\ At(r, "idle") => task[r].session = 0
    /\ task[r].at \in LoginSteps =>
         /\ task[r].session = 0
         /\ task[r].nonce \in 1..Len(givenTo)
         /\ givenTo[task[r].nonce] = task[r].wallet
    /\ task[r].at \in RefreshSteps => task[r].nonce = 0
    /\ task[r].at \in Running \ LoginSteps => task[r].session \in 1..Len(sessions)
    /\ task[r].at \in {"save", "clear"} => task[r].signed \in 0..now
TasksOK == \A r \in Requests : TaskOK(r)

(* The nonce of a wallet was made for it, and no login has deleted it.     *)
NoncesOK ==
    /\ spent \subseteq 1..Len(givenTo)
    /\ \A w \in Wallets : nonces[w] # 0 =>
         /\ nonces[w] \in 1..Len(givenTo)
         /\ givenTo[nonces[w]] = w
         /\ nonces[w] \notin spent

RoomForLogins == Len(sessions) + Cardinality(LoggingIn) <= MaxSessions

TokensOK == \A t \in delivered : t.session \in 1..Len(sessions) /\ t.iat <= now

AuthInv == TypeOK /\ TasksOK /\ NoncesOK /\ RoomForLogins /\ TokensOK

-----------------------------------------------------------------------------

(* The token that session s expects is with its client, or in an answer    *)
(* that is about to be sent, or is the first one of a login.               *)
Pending(s) ==
    \E r \in Requests :
        /\ task[r].session = s
        /\ \/ At(r, "clear") /\ task[r].signed = sessions[s].iat
           \/ task[r].at \in {"sign", "save"} /\ task[r].nonce # 0
Backed(s) == Pending(s) \/ \E t \in delivered : t.session = s /\ t.iat = sessions[s].iat

(* A session whose client sends one refresh at a time.                     *)
Orderly(s) ==
    /\ \A q, r \in InFlight(s) : q = r
    /\ \A t \in delivered : t.session = s => t.iat <= sessions[s].iat
    /\ \A r \in InFlight(s) :
         /\ At(r, "findSession") => task[r].shown = sessions[s].iat
         /\ ~ At(r, "deactivate")
         /\ At(r, "save") => \A t \in delivered : t.session = s => t.iat <= task[r].signed
         /\ At(r, "clear") => task[r].signed = sessions[s].iat

Client(s) == Backed(s) /\ (s \notin SharedSessions => Orderly(s))

ClientsInv == faults = 0 => \A s \in DOMAIN sessions : Client(s)

-----------------------------------------------------------------------------

LEMMA IdleIsTask == Idle \in Task
<1>1. (CHOOSE w \in Wallets : TRUE) \in Wallets
  BY AuthAssumption DEF AuthAssumption
<1> QED
  BY <1>1, AuthAssumption DEF AuthAssumption, Idle, Fresh, Task, Running, NoHash, NoRole

LEMMA InitAuth == Init => AuthInv /\ ClientsInv
<1> SUFFICES ASSUME Init PROVE AuthInv /\ ClientsInv
  OBVIOUS
<1> USE AuthAssumption DEF AuthAssumption, Init
<1>1. TypeOK
  BY IdleIsTask DEF TypeOK, Times
<1>2. TasksOK
  BY DEF TasksOK, TaskOK, At, Idle, Fresh, LoginSteps, RefreshSteps, Running
<1>3. NoncesOK
  BY DEF NoncesOK
<1>4. RoomForLogins
  <2>1. LoggingIn = {}
    BY DEF LoggingIn, LoginSteps, Idle, Fresh
  <2> QED
    BY <2>1, FS_EmptySet DEF RoomForLogins
<1>5. TokensOK /\ ClientsInv
  BY DEF TokensOK, ClientsInv
<1> QED
  BY <1>1, <1>2, <1>3, <1>4, <1>5 DEF AuthInv

(* Replacing the element of a sequence keeps it a sequence.                *)
LEMMA SessionReplaced ==
    ASSUME TypeOK, NEW s \in 1..Len(sessions), NEW x \in Session,
           sessions' = [sessions EXCEPT ![s] = x]
    PROVE  /\ sessions' \in Seq(Session) /\ Len(sessions') = Len(sessions)
           /\ \A i \in 1..Len(sessions) : sessions'[i] = IF i = s THEN x ELSE sessions[i]
BY ExceptSeq DEF TypeOK

LEMMA SessionSaved ==
    ASSUME TypeOK, NEW s \in 1..Len(sessions), NEW iat \in Times,
           sessions' = [sessions EXCEPT ![s].iat = iat, ![s].isActive = TRUE]
    PROVE  /\ sessions' \in Seq(Session) /\ Len(sessions') = Len(sessions)
           /\ sessions'[s].iat = iat
           /\ \A i \in 1..Len(sessions) \ {s} : sessions'[i] = sessions[i]
<1> DEFINE x == [user |-> sessions[s].user, iat |-> iat, isActive |-> TRUE]
<1>1. sessions[s] \in Session
  BY ElementOfSeq DEF TypeOK
<1>2. x \in Session
  BY <1>1 DEF Session
<1>3. sessions' = [sessions EXCEPT ![s] = x]
  <2>1. sessions \in [1..Len(sessions) -> Session]
    BY LenProperties DEF TypeOK
  <2>2. [sessions EXCEPT ![s].iat = iat] = [sessions EXCEPT ![s] = [@ EXCEPT !.iat = iat]]
    BY <2>1
  <2>3. sessions'[s] = x
    BY <1>1, <2>1, <2>2 DEF Session
  <2>4. DOMAIN sessions' = 1..Len(sessions)
    BY <2>1
  <2>5. \A i \in 1..Len(sessions) \ {s} : sessions'[i] = sessions[i]
    BY <2>1
  <2>6. sessions' = [i \in 1..Len(sessions) |-> sessions'[i]]
    BY <2>1
  <2> QED
    BY <2>1, <2>3, <2>4, <2>5, <2>6
<1> HIDE DEF x
<1>4. x.iat = iat
  BY DEF x
<1>5. /\ sessions' \in Seq(Session) /\ Len(sessions') = Len(sessions)
      /\ \A i \in 1..Len(sessions) : sessions'[i] = IF i = s THEN x ELSE sessions[i]
  BY <1>2, <1>3, SessionReplaced
<1> QED
  BY <1>4, <1>5

LEMMA SessionsDeactivated ==
    ASSUME TypeOK, NEW w,
           sessions' = [s \in DOMAIN sessions |->
             IF sessions[s].user = w
               THEN [sessions[s] EXCEPT !.isActive = FALSE] ELSE sessions[s]]
    PROVE  /\ sessions' \in Seq(Session) /\ Len(sessions') = Len(sessions)
           /\ \A s \in 1..Len(sessions) : sessions'[s].iat = sessions[s].iat
<1>1. /\ Len(sessions) \in Nat /\ DOMAIN sessions = 1..Len(sessions)
      /\ \A s \in 1..Len(sessions) : sessions[s] \in Session
  BY LenProperties, ElementOfSeq DEF TypeOK
<1>2. /\ DOMAIN sessions' = 1..Len(sessions)
      /\ \A s \in 1..Len(sessions) :
            sessions'[s] \in Session /\ sessions'[s].iat = sessions[s].iat
  BY <1>1 DEF Session
<1>3. sessions' \in [1..Len(sessions) -> Session]
  BY <1>1, <1>2
<1>4. sessions' \in Seq(Session)
  BY <1>1, <1>3, SeqDef
<1> QED
  BY <1>1, <1>2, <1>3, <1>4, LenProperties

(* What the updates of a request do.                                       *)
LEMMA GotoEffect ==
    ASSUME TypeOK, NEW r \in Requests, NEW step \in {"idle"} \cup Running, Goto(r, step)
    PROVE  /\ task' \in [Requests -> Task]
           /\ \A q \in Requests \ {r} : task'[q] = task[q]
           /\ task'[r].at = step
           /\ task'[r].wallet = task[r].wallet /\ task'[r].nonce = task[r].nonce
           /\ task'[r].session = task[r].session /\ task'[r].shown = task[r].shown
           /\ task'[r].signed = task[r].signed
BY DEF TypeOK, Goto, Task

LEMMA EndEffect ==
    ASSUME TypeOK, NEW r \in Requests, End(r)
    PROVE  /\ task' \in [Requests -> Task]
           /\ \A q \in Requests \ {r} : task'[q] = task[q]
           /\ task'[r].at = "idle" /\ task'[r].session = 0
<1>1. task' \in [Requests -> Task] /\ \A q \in Requests \ {r} : task'[q] = task[q]
  BY IdleIsTask DEF TypeOK, End
<1>2. task'[r] = Idle
  BY DEF TypeOK, End
<1> QED
  BY <1>1, <1>2 DEF Idle, Fresh

LEMMA LoginEffect ==
    ASSUME TypeOK, NEW r \in Requests, NEW n \in 1..Len(givenTo), Login(r, n)
    PROVE  /\ task' \in [Requests -> Task]
           /\ \A q \in Requests \ {r} : task'[q] = task[q]
           /\ task'[r].at = "nonce" /\ task'[r].nonce = n
           /\ task'[r].wallet = givenTo[n] /\ task'[r].session = 0
<1> DEFINE x == [at |-> "nonce", wallet |-> givenTo[n], nonce |-> n, session |-> 0,
                 shown |-> NoHash, signed |-> NoHash, role |-> NoRole]
<1>1. task' = [task EXCEPT ![r] = x]
  <2>1. [Fresh("nonce", givenTo[n]) EXCEPT !.nonce = n] = x
    BY DEF Fresh
  <2> QED
    BY <2>1, Zenon DEF Login
<1>2. x \in Task
  <2>1. givenTo[n] \in Wallets /\ n \in 0..MaxNonces
    BY ElementOfSeq, LenProperties, AuthAssumption DEF TypeOK, AuthAssumption
  <2> QED
    BY <2>1, AuthAssumption
       DEF AuthAssumption, Task, Running, LoginSteps, NoHash, NoRole
<1>3. x.at = "nonce" /\ x.nonce = n /\ x.wallet = givenTo[n] /\ x.session = 0
  OBVIOUS
<1> HIDE DEF x
<1> QED
  BY <1>1, <1>2, <1>3 DEF TypeOK

LEMMA RefreshEffect ==
    ASSUME TypeOK, TokensOK, NEW r \in Requests, NEW t \in delivered, Refresh(r, t),
           now < t.iat + TokenLife
    PROVE  /\ task' \in [Requests -> Task]
           /\ \A q \in Requests \ {r} : task'[q] = task[q]
           /\ task'[r].at = "findSession" /\ task'[r].nonce = 0
           /\ task'[r].session = t.session /\ task'[r].shown = t.iat
<1> DEFINE x == [at |-> "findSession", wallet |-> sessions[t.session].user, nonce |-> 0,
                 session |-> t.session, shown |-> t.iat, signed |-> NoHash, role |-> "USER"]
<1>1. task' = [task EXCEPT ![r] = x]
  BY DEF Refresh, Fresh
<1>2. x \in Task
  <2>1. /\ t.session \in 1..Len(sessions) /\ t.iat \in Times
        /\ t.session \in 0..MaxSessions
    BY LenProperties, AuthAssumption DEF TokensOK, TypeOK, Token, AuthAssumption, SessionIds
  <2>2. sessions[t.session].user \in Wallets
    <3>1. sessions[t.session] \in Session
      BY <2>1, ElementOfSeq DEF TypeOK
    <3> QED
      BY <3>1 DEF Session
  <2> QED
    BY <2>1, <2>2, AuthAssumption
       DEF AuthAssumption, Task, Running, RefreshSteps, NoHash, NoRole
<1>3. x.at = "findSession" /\ x.nonce = 0 /\ x.session = t.session /\ x.shown = t.iat
  OBVIOUS
<1> HIDE DEF x
<1> QED
  BY <1>1, <1>2, <1>3 DEF TypeOK

LEMMA SignEffect ==
    ASSUME TypeOK, NEW r \in Requests, Sign(r)
    PROVE  /\ task' \in [Requests -> Task]
           /\ \A q \in Requests \ {r} : task'[q] = task[q]
           /\ task'[r].at = "save" /\ task'[r].signed = now
           /\ task'[r].session = task[r].session /\ task'[r].nonce = task[r].nonce
<1> DEFINE x == [task[r] EXCEPT !.at = "save", !.signed = now]
<1>1. task' = [task EXCEPT ![r] = x]
  BY DEF Sign, TypeOK
<1>2. task[r] \in Task /\ now \in Times
  BY DEF TypeOK
<1>3. x = [at |-> "save", wallet |-> task[r].wallet, nonce |-> task[r].nonce,
           session |-> task[r].session, shown |-> task[r].shown, signed |-> now,
           role |-> task[r].role]
  <2> DEFINE y == [task[r] EXCEPT !.at = "save"]
  <2>1. y = [at |-> "save", wallet |-> task[r].wallet, nonce |-> task[r].nonce,
             session |-> task[r].session, shown |-> task[r].shown,
             signed |-> task[r].signed, role |-> task[r].role]
    BY <1>2 DEF Task
  <2>2. x = [y EXCEPT !.signed = now]
    OBVIOUS
  <2> HIDE DEF y
  <2> QED
    BY <2>1, <2>2
<1>4. x \in Task
  BY <1>2, <1>3 DEF Task, Running
<1>5. /\ x.at = "save" /\ x.signed = now
      /\ x.session = task[r].session /\ x.nonce = task[r].nonce
  BY <1>3
<1> HIDE DEF x
<1> QED
  BY <1>1, <1>4, <1>5 DEF TypeOK

LEMMA CreateUserEffect ==
    ASSUME TypeOK, NEW r \in Requests, CreateUser(r), task[r].wallet \notin users
    PROVE  /\ task' \in [Requests -> Task]
           /\ \A q \in Requests \ {r} : task'[q] = task[q]
           /\ task'[r].at = "createSession"
           /\ task'[r].session = task[r].session /\ task'[r].nonce = task[r].nonce
           /\ task'[r].wallet = task[r].wallet
<1> DEFINE x == [task[r] EXCEPT !.at = "createSession", !.role = "USER"]
<1>1. task' = [task EXCEPT ![r] = x]
  BY DEF CreateUser, TypeOK
<1>2. task[r] \in Task
  BY DEF TypeOK
<1>3. x = [at |-> "createSession", wallet |-> task[r].wallet, nonce |-> task[r].nonce,
           session |-> task[r].session, shown |-> task[r].shown, signed |-> task[r].signed,
           role |-> "USER"]
  <2> DEFINE y == [task[r] EXCEPT !.at = "createSession"]
  <2>1. y = [at |-> "createSession", wallet |-> task[r].wallet, nonce |-> task[r].nonce,
             session |-> task[r].session, shown |-> task[r].shown,
             signed |-> task[r].signed, role |-> task[r].role]
    BY <1>2 DEF Task
  <2>2. x = [y EXCEPT !.role = "USER"]
    OBVIOUS
  <2> HIDE DEF y
  <2> QED
    BY <2>1, <2>2
<1>4. x \in Task
  BY <1>2, <1>3 DEF Task, Running, LoginSteps
<1>5. /\ x.at = "createSession" /\ x.session = task[r].session
      /\ x.nonce = task[r].nonce /\ x.wallet = task[r].wallet
  BY <1>3
<1> HIDE DEF x
<1> QED
  BY <1>1, <1>4, <1>5 DEF TypeOK

LEMMA CreateSessionEffect ==
    ASSUME TypeOK, NEW r \in Requests, CreateSession(r), Len(sessions) + 1 <= MaxSessions
    PROVE  /\ task' \in [Requests -> Task]
           /\ \A q \in Requests \ {r} : task'[q] = task[q]
           /\ task'[r].at = "sign" /\ task'[r].session = Len(sessions) + 1
           /\ task'[r].nonce = task[r].nonce
           /\ sessions' \in Seq(Session) /\ Len(sessions') = Len(sessions) + 1
           /\ \A s \in 1..Len(sessions) : sessions'[s] = sessions[s]
<1> DEFINE x == [task[r] EXCEPT !.at = "sign", !.session = Len(sessions')]
<1>1. task' = [task EXCEPT ![r] = x]
  BY DEF CreateSession, TypeOK
<1>2. task[r] \in Task /\ Len(sessions) \in Nat
  BY LenProperties DEF TypeOK
<1>3. /\ sessions' \in Seq(Session) /\ Len(sessions') = Len(sessions) + 1
      /\ \A s \in 1..Len(sessions) : sessions'[s] = sessions[s]
  <2> DEFINE row == [user |-> task[r].wallet, iat |-> NoHash, isActive |-> TRUE]
  <2>1. row \in Session
    BY <1>2 DEF Session, Task
  <2>2. sessions' = Append(sessions, row)
    BY DEF CreateSession
  <2> HIDE DEF row
  <2> QED
    BY <2>1, <2>2 DEF TypeOK
<1>4. x = [at |-> "sign", wallet |-> task[r].wallet, nonce |-> task[r].nonce,
           session |-> Len(sessions'), shown |-> task[r].shown, signed |-> task[r].signed,
           role |-> task[r].role]
  <2> DEFINE y == [task[r] EXCEPT !.at = "sign"]
  <2>1. y = [at |-> "sign", wallet |-> task[r].wallet, nonce |-> task[r].nonce,
             session |-> task[r].session, shown |-> task[r].shown,
             signed |-> task[r].signed, role |-> task[r].role]
    BY <1>2 DEF Task
  <2>2. x = [y EXCEPT !.session = Len(sessions')]
    OBVIOUS
  <2> HIDE DEF y
  <2> QED
    BY <2>1, <2>2
<1>5. x \in Task
  BY <1>2, <1>3, <1>4, AuthAssumption DEF AuthAssumption, Task, Running
<1>6. x.at = "sign" /\ x.session = Len(sessions') /\ x.nonce = task[r].nonce
  BY <1>4
<1> HIDE DEF x
<1> QED
  BY <1>1, <1>3, <1>5, <1>6 DEF TypeOK

(* The end of a login, and the two last steps of a refresh.                *)
LEMMA SaveEffect ==
    ASSUME TypeOK, TasksOK, NEW r \in Requests, SaveSession(r)
    PROVE  /\ task' \in [Requests -> Task]
           /\ \A q \in Requests \ {r} : task'[q] = task[q]
           /\ task[r].session \in 1..Len(sessions) /\ task[r].signed \in Times
           /\ sessions' \in Seq(Session) /\ Len(sessions') = Len(sessions)
           /\ sessions'[task[r].session].iat = task[r].signed
           /\ \A s \in 1..Len(sessions) \ {task[r].session} : sessions'[s] = sessions[s]
           /\ task[r].nonce = 0 =>
                /\ task'[r].at = "clear" /\ task'[r].session = task[r].session
                /\ task'[r].signed = task[r].signed
                /\ UNCHANGED delivered
           /\ task[r].nonce # 0 => Deliver(r)
<1>1. task[r].session \in 1..Len(sessions) /\ task[r].signed \in Times
  <2>1. task[r].at = "save"
    BY DEF SaveSession, At
  <2>2. task[r].session \in 1..Len(sessions) /\ task[r].signed \in 0..now
    BY <2>1 DEF TasksOK, TaskOK, Running, LoginSteps, RefreshSteps
  <2> QED
    BY <2>2, AuthAssumption DEF TypeOK, Times, AuthAssumption
<1>2. /\ sessions' \in Seq(Session) /\ Len(sessions') = Len(sessions)
      /\ sessions'[task[r].session].iat = task[r].signed
      /\ \A s \in 1..Len(sessions) \ {task[r].session} : sessions'[s] = sessions[s]
  BY <1>1, SessionSaved DEF SaveSession
<1>3. CASE task[r].nonce # 0
  BY <1>1, <1>2, <1>3, EndEffect DEF SaveSession, Deliver
<1>4. CASE task[r].nonce = 0
  <2>1. Goto(r, "clear") /\ UNCHANGED delivered
    BY <1>4 DEF SaveSession
  <2> QED
    BY <1>1, <1>2, <1>4, <2>1, GotoEffect DEF Running
<1> QED
  BY <1>3, <1>4

LEMMA DeliverEffect ==
    ASSUME TypeOK, NEW r \in Requests, Deliver(r),
           task[r].session \in SessionIds, task[r].signed \in Times
    PROVE  /\ delivered \subseteq delivered' /\ delivered' \subseteq Token
           /\ \E t \in delivered' : t.session = task[r].session /\ t.iat = task[r].signed
           /\ \A t \in delivered' :
                t \notin delivered => t.session = task[r].session /\ t.iat = task[r].signed
<1> DEFINE t == [session |-> task[r].session, iat |-> task[r].signed, role |-> task[r].role]
<1>1. t \in Token
  BY DEF TypeOK, Token, Task
<1>2. delivered' = delivered \cup {t}
  BY DEF Deliver
<1>3. t.session = task[r].session /\ t.iat = task[r].signed
  OBVIOUS
<1> HIDE DEF t
<1>4. \E u \in delivered' : u.session = task[r].session /\ u.iat = task[r].signed
  <2>1. t \in delivered'
    BY <1>2
  <2> WITNESS t \in delivered'
  <2> QED
    BY <1>3
<1>5. \A u \in delivered' :
        u \notin delivered => u.session = task[r].session /\ u.iat = task[r].signed
  BY <1>2, <1>3
<1>6. delivered \subseteq delivered' /\ delivered' \subseteq Token
  BY <1>1, <1>2 DEF TypeOK
<1> QED
  BY <1>4, <1>5, <1>6

-----------------------------------------------------------------------------
(* Requests, nonces and tokens                                             *)

(* A step that starts no login keeps the room; there are never more logins *)
(* than requests.                                                          *)
LEMMA RoomKept ==
    ASSUME RoomForLogins, TypeOK, Len(sessions') = Len(sessions), LoggingIn' \subseteq LoggingIn
    PROVE  RoomForLogins'
<1>1. IsFiniteSet(LoggingIn)
  BY AuthAssumption, FS_Subset DEF AuthAssumption, LoggingIn
<1>2. /\ Cardinality(LoggingIn') <= Cardinality(LoggingIn)
      /\ Cardinality(LoggingIn) \in Nat
  BY <1>1, FS_Subset, FS_CardinalityType
<1>3. IsFiniteSet(LoggingIn') /\ Cardinality(LoggingIn') \in Nat
  BY <1>1, FS_Subset, FS_CardinalityType
<1>4. Len(sessions) \in Nat
  BY LenProperties DEF TypeOK
<1> QED
  BY <1>2, <1>3, <1>4, AuthAssumption DEF RoomForLogins, AuthAssumption

LEMMA RoomUsed ==
    ASSUME AuthInv, NEW r \in Requests, CreateSession(r)
    PROVE  Len(sessions) + 1 <= MaxSessions
<1>1. r \in LoggingIn /\ IsFiniteSet(LoggingIn)
  BY AuthAssumption, FS_Subset DEF AuthAssumption, LoggingIn, CreateSession, At, LoginSteps
<1>2. Cardinality(LoggingIn) \in Nat /\ Cardinality(LoggingIn) # 0
  BY <1>1, FS_EmptySet, FS_CardinalityType
<1>3. Len(sessions) \in Nat
  BY LenProperties DEF AuthInv, TypeOK
<1> QED
  BY <1>2, <1>3, AuthAssumption DEF AuthInv, RoomForLogins, AuthAssumption

LEMMA GetNonceStep ==
    ASSUME AuthInv, NEW w \in Wallets, GetNonce(w)
    PROVE  AuthInv'
<1> TypeOK /\ TasksOK /\ NoncesOK /\ RoomForLogins /\ TokensOK
  BY DEF AuthInv
<1>1. /\ Len(givenTo) \in Nat /\ Len(givenTo') = Len(givenTo) + 1
      /\ givenTo' \in Seq(Wallets) /\ givenTo'[Len(givenTo')] = w
      /\ \A n \in 1..Len(givenTo) : givenTo'[n] = givenTo[n]
      /\ nonces' = [nonces EXCEPT ![w] = Len(givenTo')]
      /\ UNCHANGED <<users, sessions, now, task, delivered, spent, faults>>
  BY LenProperties DEF GetNonce, TypeOK
<1>2. Len(givenTo') <= MaxNonces
  BY <1>1, AuthAssumption DEF GetNonce, AuthAssumption
<1>3. TypeOK'
  BY <1>1, <1>2, AuthAssumption DEF TypeOK, AuthAssumption
<1>4. TasksOK'
  BY <1>1 DEF TasksOK, TaskOK, At
<1>5. NoncesOK'
  <2>1. spent' \subseteq 1..Len(givenTo')
    BY <1>1 DEF NoncesOK
  <2>2. ASSUME NEW v \in Wallets, nonces'[v] # 0
        PROVE  /\ nonces'[v] \in 1..Len(givenTo')
               /\ givenTo'[nonces'[v]] = v /\ nonces'[v] \notin spent'
    <3>1. CASE v = w
      <4>1. nonces'[v] = Len(givenTo) + 1
        BY <3>1, <1>1 DEF TypeOK
      <4> QED
        BY <4>1, <3>1, <1>1 DEF NoncesOK
    <3>2. CASE v # w
      <4>1. nonces'[v] = nonces[v]
        BY <3>2, <1>1 DEF TypeOK
      <4> QED
        BY <4>1, <2>2, <1>1 DEF NoncesOK
    <3> QED
      BY <3>1, <3>2
  <2> QED
    BY <2>1, <2>2 DEF NoncesOK
<1>6. RoomForLogins' /\ TokensOK'
  BY <1>1, RoomKept DEF TokensOK, LoggingIn
<1> QED
  BY <1>3, <1>4, <1>5, <1>6 DEF AuthInv

LEMMA EnvironmentStep ==
    ASSUME AuthInv,
           Tick \/ (UNCHANGED vars) \/ (\E w \in Wallets : NonceExpires(w))
    PROVE  AuthInv'
<1> TypeOK /\ TasksOK /\ NoncesOK /\ RoomForLogins /\ TokensOK
  BY DEF AuthInv
<1>1. /\ UNCHANGED <<givenTo, users, sessions, task, delivered, spent, faults>>
      /\ now' \in Times /\ now <= now'
      /\ nonces' \in [Wallets -> 0..MaxNonces]
      /\ \A w \in Wallets : nonces'[w] # nonces[w] => nonces'[w] = 0
  <2> USE AuthAssumption DEF TypeOK, Times, AuthAssumption
  <2>1. CASE Tick
    BY <2>1 DEF Tick
  <2>2. CASE UNCHANGED vars
    BY <2>2 DEF vars
  <2>3. ASSUME NEW v \in Wallets, NonceExpires(v)
        PROVE  <1>1!1 /\ <1>1!2 /\ <1>1!3 /\ <1>1!4
    BY <2>3 DEF NonceExpires
  <2> QED
    BY <2>1, <2>2, <2>3
<1>2. TypeOK' /\ NoncesOK'
  BY <1>1 DEF TypeOK, NoncesOK
<1>3. now \in Nat /\ now' \in Nat
  BY <1>1, AuthAssumption DEF TypeOK, Times, AuthAssumption
<1>4. TasksOK'
  BY <1>1, <1>3 DEF TasksOK, TaskOK, At
<1>5. TokensOK'
  <2>1. \A t \in delivered : t.iat \in Nat
    BY AuthAssumption DEF TypeOK, Token, Times, AuthAssumption
  <2> QED
    BY <2>1, <1>1, <1>3 DEF TokensOK
<1>6. RoomForLogins'
  BY <1>1, RoomKept DEF LoggingIn
<1> QED
  BY <1>2, <1>4, <1>5, <1>6 DEF AuthInv

(* A request that goes on leaves the others as they are.                   *)
LEMMA TasksKept ==
    ASSUME TypeOK, TasksOK, NEW r \in Requests,
           \A q \in Requests \ {r} : task'[q] = task[q],
           UNCHANGED <<givenTo, now>>, Len(sessions') \in Nat,
           Len(sessions) <= Len(sessions'),
           TaskOK(r)'
    PROVE  TasksOK'
<1> SUFFICES ASSUME NEW q \in Requests \ {r} PROVE TaskOK(q)'
  BY DEF TasksOK
<1>1. TaskOK(q) /\ task'[q] = task[q] /\ Len(sessions) \in Nat
  BY LenProperties DEF TasksOK, TypeOK
<1> QED
  BY <1>1 DEF TaskOK, At

LEMMA LoginsKept ==
    ASSUME NEW r \in Requests, \A q \in Requests \ {r} : task'[q] = task[q],
           task'[r].at \notin LoginSteps \/ task[r].at \in LoginSteps
    PROVE  LoggingIn' \subseteq LoggingIn
BY DEF LoggingIn

(* A request ends, whatever it has done to the rows of the sessions.       *)
LEMMA Ends ==
    ASSUME AuthInv, NEW r \in Requests, End(r),
           UNCHANGED <<nonces, givenTo, users, now, delivered, spent>>,
           sessions' \in Seq(Session), Len(sessions') = Len(sessions),
           faults' \in 0..MaxFaults
    PROVE  AuthInv'
<1> TypeOK /\ TasksOK /\ NoncesOK /\ RoomForLogins /\ TokensOK
  BY DEF AuthInv
<1>1. /\ task' \in [Requests -> Task]
      /\ \A q \in Requests \ {r} : task'[q] = task[q]
      /\ task'[r].at = "idle" /\ task'[r].session = 0
  BY EndEffect
<1>2. TypeOK'
  BY <1>1 DEF TypeOK
<1>3. TaskOK(r)'
  BY <1>1 DEF TaskOK, At, Running, LoginSteps, RefreshSteps
<1>4. TasksOK'
  BY <1>1, <1>3, TasksKept, LenProperties DEF TypeOK
<1>5. RoomForLogins'
  BY <1>1, RoomKept, LoginsKept DEF LoginSteps
<1>6. NoncesOK' /\ TokensOK'
  BY DEF NoncesOK, TokensOK
<1> QED
  BY <1>2, <1>4, <1>5, <1>6 DEF AuthInv

(* A request goes to its next call, and nothing else changes.              *)
LEMMA GoesOn ==
    ASSUME AuthInv, NEW r \in Requests, NEW step \in Running, Goto(r, step),
           UNCHANGED <<nonces, givenTo, users, sessions, now, delivered, spent, faults>>,
           step \in LoginSteps => task[r].at \in LoginSteps,
           step \in RefreshSteps => task[r].at \in RefreshSteps,
           step \notin LoginSteps => task[r].at \in Running \ LoginSteps,
           step \in {"save", "clear"} => task[r].at \in {"save", "clear"}
    PROVE  AuthInv'
<1> TypeOK /\ TasksOK /\ NoncesOK /\ RoomForLogins /\ TokensOK
  BY DEF AuthInv
<1>1. /\ task' \in [Requests -> Task]
      /\ \A q \in Requests \ {r} : task'[q] = task[q]
      /\ task'[r].at = step
      /\ task'[r].wallet = task[r].wallet /\ task'[r].nonce = task[r].nonce
      /\ task'[r].session = task[r].session /\ task'[r].signed = task[r].signed
  BY GotoEffect
<1>2. TypeOK'
  BY <1>1 DEF TypeOK
<1>3. TaskOK(r)'
  <2>1. TaskOK(r) /\ step # "idle"
    BY DEF TasksOK, Running, LoginSteps, RefreshSteps
  <2> QED
    BY <1>1, <2>1 DEF TaskOK, At
<1>4. TasksOK'
  BY <1>1, <1>3, TasksKept, LenProperties DEF TypeOK
<1>5. RoomForLogins'
  BY <1>1, RoomKept, LoginsKept
<1>6. NoncesOK' /\ TokensOK'
  BY DEF NoncesOK, TokensOK
<1> QED
  BY <1>2, <1>4, <1>5, <1>6 DEF AuthInv

-----------------------------------------------------------------------------
(* The steps of a request                                                  *)

LEMMA LoginStep ==
    ASSUME AuthInv, NEW r \in Requests, NEW n \in 1..Len(givenTo), Login(r, n)
    PROVE  AuthInv'
<1> TypeOK /\ TasksOK /\ NoncesOK /\ RoomForLogins /\ TokensOK
  BY DEF AuthInv
<1>1. /\ task' \in [Requests -> Task]
      /\ \A q \in Requests \ {r} : task'[q] = task[q]
      /\ task'[r].at = "nonce" /\ task'[r].nonce = n
      /\ task'[r].wallet = givenTo[n] /\ task'[r].session = 0
  BY LoginEffect
<1>2. UNCHANGED <<nonces, givenTo, users, sessions, now, delivered, spent, faults>>
  BY DEF Login
<1>3. TypeOK' /\ NoncesOK' /\ TokensOK'
  BY <1>1, <1>2 DEF TypeOK, NoncesOK, TokensOK
<1>4. TaskOK(r)'
  BY <1>1, <1>2 DEF TaskOK, At, Running, LoginSteps, RefreshSteps
<1>5. TasksOK'
  BY <1>1, <1>2, <1>4, TasksKept, LenProperties DEF TypeOK
<1>6. RoomForLogins'
  <2>1. IsFiniteSet(LoggingIn) /\ Cardinality(LoggingIn) \in Nat
    BY AuthAssumption, FS_Subset, FS_CardinalityType DEF AuthAssumption, LoggingIn
  <2>2. LoggingIn' = LoggingIn \cup {r} /\ r \notin LoggingIn
    BY <1>1 DEF LoggingIn, LoginSteps, Login, At
  <2>3. Cardinality(LoggingIn') = Cardinality(LoggingIn) + 1
    BY <2>1, <2>2, FS_AddElement
  <2>4. Len(sessions) \in Nat /\ Len(sessions) + Cardinality(LoggingIn) < MaxSessions
    BY LenProperties DEF TypeOK, Login
  <2> QED
    BY <2>1, <2>3, <2>4, <1>2, AuthAssumption DEF RoomForLogins, AuthAssumption
<1> QED
  BY <1>3, <1>5, <1>6 DEF AuthInv

(* An action that changes nothing but its request.                         *)
LEMMA CheckNonceStep ==
    ASSUME AuthInv, NEW r \in Requests, CheckNonce(r) \/ FindUser(r) \/ FindSession(r)
    PROVE  AuthInv'
<1>1. /\ UNCHANGED <<nonces, givenTo, users, sessions, now, delivered, spent, faults>>
      /\ sessions' \in Seq(Session) /\ faults' \in 0..MaxFaults
  BY DEF CheckNonce, FindUser, FindSession, AuthInv, TypeOK
<1>2. CASE End(r)
  BY <1>1, <1>2, Ends
<1>3. CASE CheckNonce(r) /\ Goto(r, "deleteNonce")
  BY <1>1, <1>3, GoesOn DEF CheckNonce, At, Running, LoginSteps, RefreshSteps
<1>4. CASE FindUser(r)
  <2>1. task[r].at = "findUser"
    BY <1>4 DEF FindUser, At
  <2>2. Goto(r, "createSession") \/ Goto(r, "createUser")
    BY <1>4 DEF FindUser
  <2> QED
    BY <1>1, <2>1, <2>2, GoesOn DEF Running, LoginSteps, RefreshSteps
<1>5. CASE FindSession(r) /\ ~ End(r)
  <2>1. task[r].at = "findSession"
    BY <1>5 DEF FindSession, At
  <2>2. Goto(r, "sign") \/ Goto(r, "deactivate")
    BY <1>5 DEF FindSession
  <2> QED
    BY <1>1, <2>1, <2>2, GoesOn DEF Running, LoginSteps, RefreshSteps
<1> QED
  BY <1>2, <1>3, <1>4, <1>5 DEF CheckNonce

LEMMA DeleteNonceStep ==
    ASSUME AuthInv, NEW r \in Requests, DeleteNonce(r)
    PROVE  AuthInv'
<1> TypeOK /\ TasksOK /\ NoncesOK /\ RoomForLogins /\ TokensOK
  BY DEF AuthInv
<1> DEFINE w == task[r].wallet
<1>1. /\ task[r].at = "deleteNonce" /\ Goto(r, "findUser")
      /\ nonces' = [nonces EXCEPT ![w] = 0] /\ spent' = spent \cup {task[r].nonce}
      /\ UNCHANGED <<givenTo, users, sessions, now, delivered, faults>>
  BY DEF DeleteNonce, At
<1>2. /\ w \in Wallets /\ task[r].nonce \in 1..Len(givenTo)
      /\ givenTo[task[r].nonce] = w
  BY <1>1 DEF TasksOK, TaskOK, LoginSteps, TypeOK, Task
<1>3. /\ task' \in [Requests -> Task]
      /\ \A q \in Requests \ {r} : task'[q] = task[q]
      /\ task'[r].at = "findUser"
      /\ task'[r].wallet = task[r].wallet /\ task'[r].nonce = task[r].nonce
      /\ task'[r].session = task[r].session
  BY <1>1, GotoEffect DEF Running, LoginSteps
<1>4. TypeOK'
  <2>1. task[r].nonce \in 1..MaxNonces
    <3>1. Len(givenTo) \in Nat /\ Len(givenTo) <= MaxNonces /\ MaxNonces \in Nat
      BY LenProperties, AuthAssumption DEF TypeOK, AuthAssumption
    <3> QED
      BY <3>1, <1>2
  <2>2. nonces' \in [Wallets -> 0..MaxNonces]
    <3>1. 0 \in 0..MaxNonces
      BY AuthAssumption DEF AuthAssumption
    <3> QED
      BY <1>1, <3>1, Zenon DEF TypeOK
  <2>3. spent' \subseteq 1..MaxNonces
    BY <1>1, <2>1 DEF TypeOK
  <2> QED
    BY <1>1, <1>3, <2>2, <2>3 DEF TypeOK
<1>5. TaskOK(r)'
  <2>1. TaskOK(r)
    BY DEF TasksOK
  <2> QED
    BY <1>1, <1>3, <2>1 DEF TaskOK, At, Running, LoginSteps, RefreshSteps
<1>6. TasksOK'
  BY <1>1, <1>3, <1>5, TasksKept, LenProperties DEF TypeOK
<1>7. NoncesOK'
  <2>1. spent' \subseteq 1..Len(givenTo')
    BY <1>1, <1>2 DEF NoncesOK
  <2>2. ASSUME NEW v \in Wallets, nonces'[v] # 0
        PROVE  /\ nonces'[v] \in 1..Len(givenTo')
               /\ givenTo'[nonces'[v]] = v /\ nonces'[v] \notin spent'
    <3>1. v # w /\ nonces'[v] = nonces[v]
      BY <2>2, <1>1 DEF TypeOK
    <3>2. /\ nonces[v] \in 1..Len(givenTo)
          /\ givenTo[nonces[v]] = v /\ nonces[v] \notin spent
      BY <2>2, <3>1 DEF NoncesOK
    <3>3. nonces[v] # task[r].nonce
      BY <3>1, <3>2, <1>2
    <3> QED
      BY <3>1, <3>2, <3>3, <1>1
  <2> QED
    BY <2>1, <2>2 DEF NoncesOK
<1>8. RoomForLogins' /\ TokensOK'
  BY <1>1, <1>3, RoomKept, LoginsKept DEF TokensOK, LoginSteps
<1> QED
  BY <1>4, <1>6, <1>7, <1>8 DEF AuthInv

LEMMA CreateUserStep ==
    ASSUME AuthInv, NEW r \in Requests, CreateUser(r)
    PROVE  AuthInv'
<1> TypeOK /\ TasksOK /\ NoncesOK /\ RoomForLogins /\ TokensOK
  BY DEF AuthInv
<1>1. CASE task[r].wallet \in users
  BY <1>1, Ends DEF CreateUser, TypeOK
<1>2. CASE task[r].wallet \notin users
  <2>1. /\ task' \in [Requests -> Task]
        /\ \A q \in Requests \ {r} : task'[q] = task[q]
        /\ task'[r].at = "createSession"
        /\ task'[r].session = task[r].session /\ task'[r].nonce = task[r].nonce
        /\ task'[r].wallet = task[r].wallet
    BY <1>2, CreateUserEffect
  <2>2. /\ task[r].at = "createUser" /\ users' = users \cup {task[r].wallet}
        /\ UNCHANGED <<nonces, givenTo, sessions, now, delivered, spent, faults>>
    BY <1>2 DEF CreateUser, At
  <2>3. TypeOK'
    BY <2>1, <2>2 DEF TypeOK, Task
  <2>4. TaskOK(r)'
    <3>1. TaskOK(r)
      BY DEF TasksOK
    <3> QED
      BY <2>1, <2>2, <3>1 DEF TaskOK, At, Running, LoginSteps, RefreshSteps
  <2>5. TasksOK'
    BY <2>1, <2>2, <2>4, TasksKept, LenProperties DEF TypeOK
  <2>6. RoomForLogins'
    BY <2>1, <2>2, RoomKept, LoginsKept DEF LoginSteps
  <2>7. NoncesOK' /\ TokensOK'
    BY <2>2 DEF NoncesOK, TokensOK
  <2> QED
    BY <2>3, <2>5, <2>6, <2>7 DEF AuthInv
<1> QED
  BY <1>1, <1>2

LEMMA CreateSessionStep ==
    ASSUME AuthInv, NEW r \in Requests, CreateSession(r)
    PROVE  AuthInv'
<1> TypeOK /\ TasksOK /\ NoncesOK /\ RoomForLogins /\ TokensOK
  BY DEF AuthInv
<1>1. /\ task' \in [Requests -> Task]
      /\ \A q \in Requests \ {r} : task'[q] = task[q]
      /\ task'[r].at = "sign" /\ task'[r].session = Len(sessions) + 1
      /\ sessions' \in Seq(Session) /\ Len(sessions') = Len(sessions) + 1
      /\ Len(sessions) + 1 <= MaxSessions
  BY CreateSessionEffect, RoomUsed
<1>2. /\ task[r].at = "createSession" /\ Len(sessions) \in Nat
      /\ UNCHANGED <<nonces, givenTo, users, now, delivered, spent, faults>>
  BY LenProperties DEF CreateSession, At, TypeOK
<1>3. TypeOK' /\ NoncesOK'
  BY <1>1, <1>2 DEF TypeOK, NoncesOK
<1>4. TokensOK'
  BY <1>1, <1>2 DEF TokensOK
<1>5. TaskOK(r)'
  BY <1>1, <1>2 DEF TaskOK, At, Running, LoginSteps, RefreshSteps
<1>6. TasksOK'
  BY <1>1, <1>2, <1>5, TasksKept
<1>7. RoomForLogins'
  <2>1. IsFiniteSet(LoggingIn) /\ Cardinality(LoggingIn) \in Nat
    BY AuthAssumption, FS_Subset, FS_CardinalityType DEF AuthAssumption, LoggingIn
  <2>2. LoggingIn' = LoggingIn \ {r} /\ r \in LoggingIn
    BY <1>1, <1>2 DEF LoggingIn, LoginSteps
  <2>3. Cardinality(LoggingIn') = Cardinality(LoggingIn) - 1
    BY <2>1, <2>2, FS_RemoveElement
  <2> QED
    BY <2>1, <2>3, <1>1, <1>2, AuthAssumption DEF RoomForLogins, AuthAssumption
<1> QED
  BY <1>3, <1>4, <1>6, <1>7 DEF AuthInv

LEMMA RefreshStep ==
    ASSUME AuthInv, NEW r \in Requests, NEW t \in delivered, Refresh(r, t)
    PROVE  AuthInv'
<1> TypeOK /\ TasksOK /\ NoncesOK /\ RoomForLogins /\ TokensOK
  BY DEF AuthInv
<1>1. UNCHANGED <<nonces, givenTo, users, sessions, now, delivered, spent, faults>>
  BY DEF Refresh
<1>2. CASE ~ (now < t.iat + TokenLife)
  BY <1>1, <1>2, Ends DEF Refresh, TypeOK
<1>3. CASE now < t.iat + TokenLife
  <2>1. /\ task' \in [Requests -> Task]
        /\ \A q \in Requests \ {r} : task'[q] = task[q]
        /\ task'[r].at = "findSession" /\ task'[r].nonce = 0
        /\ task'[r].session = t.session
    BY <1>3, RefreshEffect
  <2>2. TypeOK' /\ NoncesOK' /\ TokensOK'
    BY <1>1, <2>1 DEF TypeOK, NoncesOK, TokensOK
  <2>3. TaskOK(r)'
    BY <1>1, <2>1 DEF TaskOK, At, Running, LoginSteps, RefreshSteps, TokensOK
  <2>4. TasksOK'
    BY <1>1, <2>1, <2>3, TasksKept, LenProperties DEF TypeOK
  <2>5. RoomForLogins'
    BY <1>1, <2>1, RoomKept, LoginsKept DEF LoginSteps
  <2> QED
    BY <2>2, <2>4, <2>5 DEF AuthInv
<1> QED
  BY <1>2, <1>3

LEMMA DeactivateAllStep ==
    ASSUME AuthInv, NEW r \in Requests, DeactivateAll(r)
    PROVE  AuthInv'
<1>1. sessions' \in Seq(Session) /\ Len(sessions') = Len(sessions)
  BY SessionsDeactivated DEF DeactivateAll, AuthInv
<1> QED
  BY <1>1, Ends DEF DeactivateAll, AuthInv, TypeOK

LEMMA SignStep ==
    ASSUME AuthInv, NEW r \in Requests, Sign(r)
    PROVE  AuthInv'
<1> TypeOK /\ TasksOK /\ NoncesOK /\ RoomForLogins /\ TokensOK
  BY DEF AuthInv
<1>1. /\ task' \in [Requests -> Task]
      /\ \A q \in Requests \ {r} : task'[q] = task[q]
      /\ task'[r].at = "save" /\ task'[r].signed = now
      /\ task'[r].session = task[r].session
  BY SignEffect
<1>2. /\ task[r].at = "sign"
      /\ UNCHANGED <<nonces, givenTo, users, sessions, now, delivered, spent, faults>>
  BY DEF Sign, At
<1>3. TypeOK' /\ NoncesOK' /\ TokensOK'
  BY <1>1, <1>2 DEF TypeOK, NoncesOK, TokensOK
<1>4. TaskOK(r)'
  <2>1. TaskOK(r) /\ now \in 0..now
    BY AuthAssumption DEF TasksOK, TypeOK, Times, AuthAssumption
  <2> QED
    BY <1>1, <1>2, <2>1 DEF TaskOK, At, Running, LoginSteps, RefreshSteps
<1>5. TasksOK'
  BY <1>1, <1>2, <1>4, TasksKept, LenProperties DEF TypeOK
<1>6. RoomForLogins'
  BY <1>1, <1>2, RoomKept, LoginsKept DEF LoginSteps
<1> QED
  BY <1>3, <1>5, <1>6 DEF AuthInv

(* The answer: the token that was signed, for the session it was made for. *)
LEMMA Answered ==
    ASSUME AuthInv, NEW r \in Requests, Deliver(r), task[r].at \in {"save", "clear"},
           UNCHANGED <<nonces, givenTo, users, now, spent, faults>>,
           sessions' \in Seq(Session), Len(sessions') = Len(sessions)
    PROVE  AuthInv'
<1> TypeOK /\ TasksOK /\ NoncesOK /\ RoomForLogins /\ TokensOK
  BY DEF AuthInv
<1>1. task[r].session \in 1..Len(sessions) /\ task[r].signed \in 0..now
  BY DEF TasksOK, TaskOK, Running, LoginSteps, RefreshSteps
<1>2. task[r].session \in SessionIds /\ task[r].signed \in Times
  BY <1>1, LenProperties, AuthAssumption DEF TypeOK, SessionIds, Times, AuthAssumption
<1>3. /\ delivered' \subseteq Token
      /\ \A t \in delivered' :
           t \notin delivered => t.session = task[r].session /\ t.iat = task[r].signed
  BY <1>2, DeliverEffect
<1>4. /\ task' \in [Requests -> Task]
      /\ \A q \in Requests \ {r} : task'[q] = task[q]
      /\ task'[r].at = "idle" /\ task'[r].session = 0
  BY EndEffect DEF Deliver
<1>5. TypeOK' /\ NoncesOK'
  BY <1>3, <1>4 DEF TypeOK, NoncesOK
<1>6. TokensOK'
  BY <1>1, <1>3 DEF TokensOK
<1>7. TaskOK(r)'
  BY <1>4 DEF TaskOK, At, Running, LoginSteps, RefreshSteps
<1>8. TasksOK'
  BY <1>4, <1>7, TasksKept, LenProperties DEF TypeOK
<1>9. RoomForLogins'
  BY <1>4, RoomKept, LoginsKept DEF LoginSteps
<1> QED
  BY <1>5, <1>6, <1>8, <1>9 DEF AuthInv

LEMMA SaveStep ==
    ASSUME AuthInv, NEW r \in Requests, SaveSession(r)
    PROVE  AuthInv'
<1> TypeOK /\ TasksOK /\ NoncesOK /\ RoomForLogins /\ TokensOK
  BY DEF AuthInv
<1>1. /\ task' \in [Requests -> Task]
      /\ \A q \in Requests \ {r} : task'[q] = task[q]
      /\ sessions' \in Seq(Session) /\ Len(sessions') = Len(sessions)
      /\ task[r].nonce = 0 =>
           /\ task'[r].at = "clear" /\ task'[r].session = task[r].session
           /\ task'[r].signed = task[r].signed
           /\ UNCHANGED delivered
  BY SaveEffect
<1>2. /\ task[r].at = "save"
      /\ UNCHANGED <<nonces, givenTo, users, now, spent, faults>>
  BY DEF SaveSession, At
<1>3. CASE task[r].nonce # 0
  BY <1>1, <1>2, <1>3, Answered DEF SaveSession
<1>4. CASE task[r].nonce = 0
  <2>1. TypeOK' /\ NoncesOK' /\ TokensOK'
    BY <1>1, <1>2, <1>4 DEF TypeOK, NoncesOK, TokensOK
  <2>2. TaskOK(r)'
    <3>1. TaskOK(r)
      BY DEF TasksOK
    <3> QED
      BY <1>1, <1>2, <1>4, <3>1 DEF TaskOK, At, Running, LoginSteps, RefreshSteps
  <2>3. TasksOK'
    BY <1>1, <1>2, <2>2, TasksKept, LenProperties DEF TypeOK
  <2>4. RoomForLogins'
    BY <1>1, <1>2, <1>4, RoomKept, LoginsKept DEF LoginSteps
  <2> QED
    BY <2>1, <2>3, <2>4 DEF AuthInv
<1> QED
  BY <1>3, <1>4

LEMMA ClearStep ==
    ASSUME AuthInv, NEW r \in Requests, ClearExpiredKey(r)
    PROVE  AuthInv'
BY Answered DEF ClearExpiredKey, At, AuthInv, TypeOK

LEMMA CallFailsStep ==
    ASSUME AuthInv, NEW r \in Requests, CallFails(r)
    PROVE  AuthInv'
<1>1. faults' \in 0..MaxFaults
  BY AuthAssumption DEF CallFails, AuthInv, TypeOK, AuthAssumption
<1> QED
  BY <1>1, Ends DEF CallFails, AuthInv, TypeOK

LEMMA StepAuth == AuthInv /\ [Next]_vars => AuthInv'
<1> SUFFICES ASSUME AuthInv, [Next]_vars PROVE AuthInv'
  OBVIOUS
<1>1. ASSUME NEW w \in Wallets, GetNonce(w) PROVE AuthInv'
  BY <1>1, GetNonceStep
<1>2. CASE Tick \/ (UNCHANGED vars) \/ (\E w \in Wallets : NonceExpires(w))
  BY <1>2, EnvironmentStep
<1>3. ASSUME NEW r \in Requests, NEW n \in 1..Len(givenTo), Login(r, n) PROVE AuthInv'
  BY <1>3, LoginStep
<1>4. ASSUME NEW r \in Requests, NEW t \in delivered, Refresh(r, t) PROVE AuthInv'
  BY <1>4, RefreshStep
<1>5. ASSUME NEW r \in Requests, Step(r) PROVE AuthInv'
  <2>1. CASE CheckNonce(r) \/ FindUser(r) \/ FindSession(r)
    BY <2>1, CheckNonceStep
  <2>2. CASE DeleteNonce(r)
    BY <2>2, DeleteNonceStep
  <2>3. CASE CreateUser(r)
    BY <2>3, CreateUserStep
  <2>4. CASE CreateSession(r)
    BY <2>4, CreateSessionStep
  <2>5. CASE DeactivateAll(r)
    BY <2>5, DeactivateAllStep
  <2>6. CASE Sign(r)
    BY <2>6, SignStep
  <2>7. CASE SaveSession(r)
    BY <2>7, SaveStep
  <2>8. CASE ClearExpiredKey(r)
    BY <2>8, ClearStep
  <2> QED
    BY <1>5, <2>1, <2>2, <2>3, <2>4, <2>5, <2>6, <2>7, <2>8 DEF Step
<1>6. ASSUME NEW r \in Requests, CallFails(r) PROVE AuthInv'
  BY <1>6, CallFailsStep
<1> QED
  BY <1>1, <1>2, <1>3, <1>4, <1>5, <1>6 DEF Next

(* The variables of AuthService keep their types.                          *)
THEOREM SessionsTypeCorrect == Spec => []TypeOK
<1>1. AuthInv => TypeOK
  BY DEF AuthInv
<1> QED
  BY <1>1, InitAuth, StepAuth, PTL DEF Spec

(* Only the check of the nonce leads to its deletion.                      *)
LEMMA OnlyCheckNonce ==
    ASSUME TypeOK, Next, NEW r \in Requests, At(r, "nonce"), task'[r].at = "deleteNonce"
    PROVE  nonces[task[r].wallet] = task[r].nonce
<1>0. /\ task \in [Requests -> Task] /\ task[r].at = "nonce"
      /\ task'[r].at = "deleteNonce" /\ task'[r] # task[r]
  BY DEF TypeOK, At
<1>1. ASSUME NEW q \in Requests, Step(q) \/ CallFails(q)
      PROVE  nonces[task[r].wallet] = task[r].nonce
  <2>1. q = r
    <3>1. CASE \E step \in {"deleteNonce", "findUser", "createSession", "createUser",
                              "sign", "deactivate", "clear"} : Goto(q, step)
      BY <1>0, <3>1 DEF Goto
    <3>2. CASE End(q)
      BY <1>0, <3>2 DEF End
    <3>3. CASE CreateUser(q) /\ ~ End(q)
      BY <1>0, <3>3 DEF CreateUser
    <3>4. CASE CreateSession(q) \/ Sign(q)
      BY <1>0, <3>4 DEF CreateSession, Sign
    <3> QED
      BY <1>1, <3>1, <3>2, <3>3, <3>4 DEF Step, CheckNonce, DeleteNonce, FindUser,
         FindSession, DeactivateAll, SaveSession, ClearExpiredKey, Deliver, CallFails
  <2>2. ~ End(r)
    BY <1>0, EndEffect
  <2>3. CheckNonce(r)
    BY <1>0, <1>1, <2>1, <2>2 DEF Step, DeleteNonce, FindUser, CreateUser, CreateSession,
       FindSession, DeactivateAll, Sign, SaveSession, ClearExpiredKey, CallFails, At
  <2> QED
    BY <2>2, <2>3 DEF CheckNonce
<1>2. ASSUME NEW q \in Requests, At(q, "idle"),
             \/ \E n \in 1..Len(givenTo) : Login(q, n)
             \/ \E t \in delivered : Refresh(q, t)
      PROVE  FALSE
  <2>1. q # r
    BY <1>0, <1>2 DEF At
  <2>2. \E x : task' = [task EXCEPT ![q] = x]
    BY <1>2 DEF Login, Refresh, End
  <2> QED
    BY <1>0, <2>1, <2>2
<1>3. ~ UNCHANGED task
  BY <1>0
<1> QED
  BY <1>1, <1>2, <1>3 DEF Next, GetNonce, NonceExpires, Login, Refresh, Tick

(* However logins of one wallet interleave, the nonce that one of them has *)
(* deleted admits no later one (walletLogin: get, verify, del).            *)
THEOREM NoncesAreSpentOnce == Spec => NonceSpentOnce
<1>1. ASSUME AuthInv, [Next]_vars
      PROVE  [\A r \in Requests :
                At(r, "nonce") /\ task'[r].at = "deleteNonce"
                  => task[r].nonce \notin spent]_vars
  <2> SUFFICES ASSUME Next, NEW r \in Requests,
                      At(r, "nonce"), task'[r].at = "deleteNonce"
               PROVE  task[r].nonce \notin spent
    BY <1>1
  <2>1. nonces[task[r].wallet] = task[r].nonce
    BY <1>1, OnlyCheckNonce DEF AuthInv
  <2>2. task[r].nonce \in 1..Len(givenTo) /\ task[r].wallet \in Wallets
    BY <1>1 DEF AuthInv, TasksOK, TaskOK, At, LoginSteps, TypeOK, Task
  <2>3. task[r].nonce # 0
    BY <2>2
  <2> QED
    BY <1>1, <2>1, <2>2, <2>3 DEF AuthInv, NoncesOK
<1> QED
  BY <1>1, InitAuth, StepAuth, PTL DEF Spec, NonceSpentOnce

-----------------------------------------------------------------------------
(* Clients and their tokens                                                *)

LEMMA SessionNumbers == TypeOK => Len(sessions) \in Nat /\ DOMAIN sessions = 1..Len(sessions)
BY LenProperties DEF TypeOK

(* A request that has no session of its own yet.                           *)
LEMMA NoSessionYet ==
    ASSUME AuthInv, NEW r \in Requests, task[r].at \in {"idle"} \cup LoginSteps
    PROVE  task[r].session = 0
BY DEF AuthInv, TasksOK, TaskOK, At

(* The client of a session is not disturbed by a request for another one.  *)
LEMMA Undisturbed ==
    ASSUME NEW r \in Requests, NEW s, Client(s),
           \A q \in Requests \ {r} : task'[q] = task[q],
           task[r].session # s, task'[r].session # s,
           sessions'[s].iat = sessions[s].iat, delivered \subseteq delivered',
           \A t \in delivered' : t \notin delivered => t.session # s
    PROVE  Client(s)'
<1>1. Backed(s)'
  <2>1. CASE Pending(s)
    <3>1. PICK q \in Requests :
            /\ task[q].session = s
            /\ \/ At(q, "clear") /\ task[q].signed = sessions[s].iat
               \/ task[q].at \in {"sign", "save"} /\ task[q].nonce # 0
      BY <2>1 DEF Pending
    <3>2. task'[q] = task[q]
      BY <3>1
    <3> QED
      BY <3>1, <3>2 DEF Backed, Pending, At
  <2>2. CASE \E t \in delivered : t.session = s /\ t.iat = sessions[s].iat
    BY <2>2 DEF Backed
  <2> QED
    BY <2>1, <2>2 DEF Client, Backed
<1>2. ASSUME Orderly(s) PROVE Orderly(s)'
  <2>1. InFlight(s)' = InFlight(s) /\ \A q \in InFlight(s) : task'[q] = task[q]
    BY DEF InFlight
  <2>2. \A t \in delivered' : t.session = s => t \in delivered
    OBVIOUS
  <2> QED
    BY <1>2, <2>1, <2>2 DEF Orderly, At
<1> QED
  BY <1>1, <1>2 DEF Client

LEMMA EachClient ==
    ASSUME AuthInv, AuthInv', ClientsInv, UNCHANGED faults, Len(sessions') = Len(sessions),
           \A s \in 1..Len(sessions) : Client(s) => Client(s)'
    PROVE  ClientsInv'
<1>1. DOMAIN sessions = 1..Len(sessions) /\ DOMAIN sessions' = 1..Len(sessions')
  BY LenProperties DEF AuthInv, TypeOK
<1> QED
  BY <1>1 DEF ClientsInv

LEMMA ClientsEnvironment ==
    ASSUME ClientsInv, UNCHANGED <<sessions, task, delivered, faults>>
    PROVE  ClientsInv'
BY DEF ClientsInv, Client, Backed, Pending, Orderly, InFlight, At

(* A login has no session before CreateSession.                            *)
LEMMA ClientsLogin ==
    ASSUME AuthInv, AuthInv', ClientsInv, NEW r \in Requests,
           \A q \in Requests \ {r} : task'[q] = task[q],
           task[r].at \in {"idle"} \cup LoginSteps,
           task'[r].at \in {"idle"} \cup LoginSteps,
           UNCHANGED <<sessions, delivered, faults>>
    PROVE  ClientsInv'
<1>1. task[r].session = 0 /\ task'[r].session = 0
  BY DEF AuthInv, TasksOK, TaskOK, At
<1> SUFFICES ASSUME NEW s \in 1..Len(sessions), Client(s) PROVE Client(s)'
  BY EachClient
<1>2. s # 0
  BY SessionNumbers DEF AuthInv
<1> QED
  BY <1>1, <1>2, Undisturbed

LEMMA ClientsCreateSession ==
    ASSUME AuthInv, AuthInv', ClientsInv, NEW r \in Requests, CreateSession(r)
    PROVE  ClientsInv'
<1> TypeOK /\ TasksOK /\ TokensOK
  BY DEF AuthInv
<1>1. /\ \A q \in Requests \ {r} : task'[q] = task[q]
      /\ task'[r].at = "sign" /\ task'[r].session = Len(sessions) + 1
      /\ task'[r].nonce = task[r].nonce
      /\ Len(sessions') = Len(sessions) + 1
      /\ \A s \in 1..Len(sessions) : sessions'[s] = sessions[s]
  BY CreateSessionEffect, RoomUsed
<1>2. task[r].at = "createSession" /\ UNCHANGED <<delivered, faults>>
  BY DEF CreateSession, At
<1>3. /\ Len(sessions) \in Nat /\ DOMAIN sessions = 1..Len(sessions)
      /\ DOMAIN sessions' = 1..Len(sessions')
  BY LenProperties DEF AuthInv, TypeOK
<1>4. task[r].session = 0 /\ task[r].nonce \in 1..Len(givenTo)
  BY <1>2 DEF TasksOK, TaskOK, LoginSteps
<1>5. ASSUME NEW s \in 1..Len(sessions), Client(s) PROVE Client(s)'
  BY <1>1, <1>2, <1>3, <1>4, <1>5, Undisturbed
<1>0. PICK n : n = Len(sessions) + 1
  OBVIOUS
<1>6. Backed(n)'
  <2>1. task'[r].nonce # 0
    BY <1>1, <1>4
  <2> QED
    BY <1>0, <1>1, <2>1 DEF Backed, Pending
<1>7. Orderly(n)'
  <2>1. \A q \in Requests \ {r} : task[q].session # n
    <3> SUFFICES ASSUME NEW q \in Requests \ {r} PROVE task[q].session # n
      OBVIOUS
    <3>1. task[q].session = 0 \/ task[q].session \in 1..Len(sessions)
      <4>1. task[q].at \in {"idle"} \cup Running
        BY DEF TypeOK, Task
      <4> QED
        BY <4>1, NoSessionYet DEF TasksOK, TaskOK
    <3> QED
      BY <3>1, <1>0, <1>3
  <2>2. \A q \in InFlight(n)' : q = r
    BY <1>0, <1>1, <2>1 DEF InFlight
  <2>3. \A t \in delivered' : t.session # n
    BY <1>0, <1>2, <1>3 DEF TokensOK
  <2> QED
    BY <1>1, <2>2, <2>3 DEF Orderly, At
<1>8. Client(n)'
  BY <1>6, <1>7 DEF Client
<1>9. \A s \in 1..Len(sessions') : s \in 1..Len(sessions) \/ s = n
  BY <1>0, <1>1, <1>3
<1> QED
  BY <1>2, <1>3, <1>5, <1>8, <1>9 DEF ClientsInv

LEMMA ClientsRefresh ==
    ASSUME AuthInv, AuthInv', ClientsInv, NEW r \in Requests, NEW t \in delivered,
           Refresh(r, t)
    PROVE  ClientsInv'
<1> TypeOK /\ TasksOK /\ TokensOK
  BY DEF AuthInv
<1>1. /\ task[r].at = "idle" /\ task[r].session = 0
      /\ UNCHANGED <<sessions, delivered, faults>>
  BY NoSessionYet DEF Refresh, At
<1>2. CASE ~ (now < t.iat + TokenLife)
  <2>1. task'[r].at = "idle" /\ \A q \in Requests \ {r} : task'[q] = task[q]
    BY <1>2, EndEffect DEF Refresh
  <2> QED
    BY <1>1, <2>1, ClientsLogin
<1>3. CASE now < t.iat + TokenLife
  <2>1. /\ \A q \in Requests \ {r} : task'[q] = task[q]
        /\ task'[r].at = "findSession" /\ task'[r].nonce = 0
        /\ task'[r].session = t.session /\ task'[r].shown = t.iat
    BY <1>3, RefreshEffect
  <2> SUFFICES ASSUME NEW s \in 1..Len(sessions), Client(s) PROVE Client(s)'
    BY <1>1, EachClient
  <2>2. s # 0
    BY SessionNumbers
  <2>3. CASE s # t.session
    BY <1>1, <2>1, <2>2, <2>3, Undisturbed
  <2>4. CASE s = t.session
    <3>1. Backed(s)'
      <4>1. CASE Pending(s)
        <5>1. PICK q \in Requests :
                /\ task[q].session = s
                /\ \/ At(q, "clear") /\ task[q].signed = sessions[s].iat
                   \/ task[q].at \in {"sign", "save"} /\ task[q].nonce # 0
          BY <4>1 DEF Pending
        <5>2. task'[q] = task[q]
          BY <1>1, <2>1, <2>2, <5>1
        <5> QED
          BY <1>1, <5>1, <5>2 DEF Backed, Pending, At
      <4>2. CASE ~ Pending(s)
        BY <1>1, <4>2 DEF Client, Backed
      <4> QED
        BY <4>1, <4>2
    <3>2. ASSUME s \notin SharedSessions PROVE Orderly(s)'
      <4>1. /\ InFlight(s) = {} /\ Orderly(s)
            /\ \A u \in delivered : u.session = s => u.iat <= t.iat
        BY <2>4, <3>2 DEF Refresh, Client
      <4>2. ~ Pending(s)
        BY <4>1 DEF Pending, InFlight, At, Running
      <4>3. PICK u \in delivered : u.session = s /\ u.iat = sessions[s].iat
        BY <4>2 DEF Client, Backed
      <4>4. u.iat \in Int /\ t.iat \in Int
        BY AuthAssumption DEF TypeOK, Token, Times, AuthAssumption
      <4>5. t.iat = sessions[s].iat
        BY <2>4, <4>1, <4>3, <4>4 DEF Orderly
      <4>6. \A q \in InFlight(s)' : q = r
        BY <2>1, <4>1 DEF InFlight
      <4> QED
        BY <1>1, <2>1, <4>1, <4>5, <4>6 DEF Orderly, At
    <3> QED
      BY <3>1, <3>2 DEF Client
  <2> QED
    BY <2>3, <2>4
<1> QED
  BY <1>2, <1>3

(* A request whose session is s and that only reads it, or ends.           *)
LEMMA ClientsGoOn ==
    ASSUME AuthInv, AuthInv', ClientsInv, NEW r \in Requests,
           \A q \in Requests \ {r} : task'[q] = task[q],
           UNCHANGED <<delivered, faults>>, Len(sessions') = Len(sessions),
           \A i \in 1..Len(sessions) : sessions'[i].iat = sessions[i].iat,
           NEW s \in 1..Len(sessions), task[r].session = s,
           task[r].at \in Running, task'[r].session \in {0, s},
           Backed(s) => Backed(s)',
           Orderly(s) => task'[r].at \notin {"findSession", "deactivate", "clear"},
           task'[r].at = "save" => task'[r].signed = now
    PROVE  ClientsInv'
<1> TokensOK /\ TypeOK
  BY DEF AuthInv
<1>1. ASSUME NEW i \in 1..Len(sessions), Client(i), i # s PROVE Client(i)'
  <2>1. i # 0
    BY SessionNumbers
  <2> QED
    BY <1>1, <2>1, Undisturbed
<1>2. ASSUME Client(s) PROVE Client(s)'
  <2> SUFFICES ASSUME Orderly(s) PROVE Orderly(s)'
    BY <1>2 DEF Client
  <2>1. r \in InFlight(s) /\ \A q \in InFlight(s) : q = r
    BY DEF InFlight, Orderly
  <2>2. \A q \in InFlight(s)' : q = r
    BY <2>1 DEF InFlight
  <2> QED
    BY <2>1, <2>2 DEF Orderly, At, TokensOK
<1> QED
  BY <1>1, <1>2, EachClient

(* Other requests keep what backs a session, if its row keeps its hash.    *)
LEMMA BackedByOthers ==
    ASSUME NEW s, NEW r \in Requests,
           \A q \in Requests \ {r} : task'[q] = task[q],
           sessions'[s].iat = sessions[s].iat, delivered \subseteq delivered',
           \/ ~ At(r, "clear") /\ (task[r].at \in {"sign", "save"} => task[r].nonce = 0)
           \/ /\ At(r, "clear")
              /\ \E t \in delivered' : t.session = s /\ t.iat = task[r].signed
           \/ /\ task'[r].at = "save" /\ task'[r].nonce = task[r].nonce
              /\ task'[r].session = task[r].session
              /\ ~ At(r, "clear")
    PROVE  Backed(s) => Backed(s)'
<1> SUFFICES ASSUME Backed(s) PROVE Backed(s)'
  OBVIOUS
<1>1. CASE Pending(s)
  <2>1. PICK q \in Requests :
          /\ task[q].session = s
          /\ \/ At(q, "clear") /\ task[q].signed = sessions[s].iat
             \/ task[q].at \in {"sign", "save"} /\ task[q].nonce # 0
    BY <1>1 DEF Pending
  <2>2. CASE q # r
    <3>1. task'[q] = task[q]
      BY <2>2
    <3> QED
      BY <2>1, <3>1 DEF Backed, Pending, At
  <2>3. CASE q = r /\ At(r, "clear")
    BY <2>1, <2>3 DEF Backed, At
  <2>4. CASE q = r /\ ~ At(r, "clear")
    BY <2>1, <2>4 DEF Backed, Pending, At
  <2> QED
    BY <2>2, <2>3, <2>4
<1>2. CASE \E t \in delivered : t.session = s /\ t.iat = sessions[s].iat
  BY <1>2 DEF Backed
<1> QED
  BY <1>1, <1>2 DEF Backed

LEMMA ClientsFindSession ==
    ASSUME AuthInv, AuthInv', ClientsInv, NEW r \in Requests,
           FindSession(r) \/ DeactivateAll(r) \/ Sign(r)
    PROVE  ClientsInv'
<1> TypeOK /\ TasksOK
  BY DEF AuthInv
<1>1. /\ task[r].at \in {"findSession", "deactivate", "sign"}
      /\ UNCHANGED <<delivered, faults, now>>
      /\ Len(sessions') = Len(sessions)
      /\ \A i \in 1..Len(sessions) : sessions'[i].iat = sessions[i].iat
  BY SessionsDeactivated DEF FindSession, DeactivateAll, Sign, At
<1>2. /\ task[r].session \in 1..Len(sessions) /\ task[r].at \in Running
      /\ task[r].at \in RefreshSteps => task[r].nonce = 0
  BY <1>1 DEF TasksOK, TaskOK, Running, LoginSteps, RefreshSteps
<1>3. PICK s \in 1..Len(sessions) : task[r].session = s
  BY <1>2
<1>4. CASE FindSession(r)
  <2>1. End(r) \/ Goto(r, "sign") \/ Goto(r, "deactivate")
    BY <1>4 DEF FindSession
  <2>2. /\ \A q \in Requests \ {r} : task'[q] = task[q]
        /\ task'[r].session \in {0, s}
        /\ task'[r].at \in {"idle", "sign", "deactivate"}
    BY <1>3, <2>1, EndEffect, GotoEffect DEF Running, RefreshSteps
  <2>3. ASSUME Orderly(s) PROVE task'[r].at # "deactivate"
    <3>1. At(r, "findSession") /\ r \in InFlight(s)
      BY <1>2, <1>3, <1>4 DEF InFlight, FindSession
    <3>2. sessions[task[r].session].iat = task[r].shown
      BY <1>3, <2>3, <3>1 DEF Orderly
    <3>3. CASE End(r)
      BY <3>3, EndEffect
    <3>4. CASE Goto(r, "sign")
      BY <3>4, GotoEffect DEF Running
    <3> QED
      BY <1>4, <3>2, <3>3, <3>4 DEF FindSession
  <2>4. Backed(s) => Backed(s)'
    BY <1>1, <1>2, <1>3, <1>4, <2>2, BackedByOthers DEF FindSession, At, RefreshSteps
  <2> QED
    BY <1>1, <1>2, <1>3, <2>2, <2>3, <2>4, ClientsGoOn
<1>5. CASE DeactivateAll(r)
  <2>1. /\ \A q \in Requests \ {r} : task'[q] = task[q]
        /\ task'[r].session = 0 /\ task'[r].at = "idle"
    BY <1>5, EndEffect DEF DeactivateAll
  <2>2. Backed(s) => Backed(s)'
    BY <1>1, <1>2, <1>3, <1>5, <2>1, BackedByOthers DEF DeactivateAll, At, RefreshSteps
  <2> QED
    BY <1>1, <1>2, <1>3, <2>1, <2>2, ClientsGoOn
<1>6. CASE Sign(r)
  <2>1. /\ \A q \in Requests \ {r} : task'[q] = task[q]
        /\ task'[r].at = "save" /\ task'[r].signed = now
        /\ task'[r].session = s /\ task'[r].nonce = task[r].nonce
    BY <1>3, <1>6, SignEffect
  <2>2. Backed(s) => Backed(s)'
    BY <1>1, <1>3, <1>6, <2>1, BackedByOthers DEF Sign, At
  <2> QED
    BY <1>1, <1>2, <1>3, <2>1, <2>2, ClientsGoOn
<1> QED
  BY <1>4, <1>5, <1>6

LEMMA ClientsSave ==
    ASSUME AuthInv, AuthInv', ClientsInv, NEW r \in Requests, SaveSession(r)
    PROVE  ClientsInv'
<1> TypeOK /\ TasksOK
  BY DEF AuthInv
<1>1. /\ \A q \in Requests \ {r} : task'[q] = task[q]
      /\ task[r].session \in 1..Len(sessions) /\ task[r].signed \in Times
      /\ Len(sessions') = Len(sessions)
      /\ sessions'[task[r].session].iat = task[r].signed
      /\ \A s \in 1..Len(sessions) \ {task[r].session} : sessions'[s] = sessions[s]
      /\ task[r].nonce = 0 =>
           /\ task'[r].at = "clear" /\ task'[r].session = task[r].session
           /\ task'[r].signed = task[r].signed
           /\ UNCHANGED delivered
      /\ task[r].nonce # 0 => Deliver(r)
  BY SaveEffect DEF SaveSession
<1>2. task[r].at = "save" /\ UNCHANGED faults
  BY DEF SaveSession, At
<1>3. PICK s \in 1..Len(sessions) : task[r].session = s
  BY <1>1
<1>4. task[r].session \in SessionIds
  BY <1>1, SessionNumbers, AuthAssumption DEF TypeOK, SessionIds, AuthAssumption
<1>5. /\ delivered \subseteq delivered'
      /\ \A t \in delivered' :
           t \notin delivered => t.session = s /\ t.iat = task[r].signed
      /\ task[r].nonce # 0 =>
           /\ task'[r].at = "idle" /\ task'[r].session = 0
           /\ \E t \in delivered' : t.session = s /\ t.iat = task[r].signed
  BY <1>1, <1>3, <1>4, DeliverEffect, EndEffect DEF Deliver
<1>6. ASSUME NEW i \in 1..Len(sessions), Client(i), i # s PROVE Client(i)'
  <2>1. i # 0 /\ task'[r].session # i
    BY <1>1, <1>3, <1>5, <1>6, SessionNumbers
  <2> QED
    BY <1>1, <1>3, <1>5, <1>6, <2>1, Undisturbed
<1>7. ASSUME Client(s) PROVE Client(s)'
  <2>1. Backed(s)'
    <3>1. CASE task[r].nonce # 0
      BY <1>1, <1>3, <1>5, <3>1 DEF Backed
    <3>2. CASE task[r].nonce = 0
      BY <1>1, <1>3, <3>2 DEF Backed, Pending, At
    <3> QED
      BY <3>1, <3>2
  <2>2. ASSUME Orderly(s) PROVE Orderly(s)'
    <3>1. r \in InFlight(s) /\ \A q \in InFlight(s) : q = r
      BY <1>2, <1>3, <2>2 DEF InFlight, Orderly, Running
    <3>2. \A q \in InFlight(s)' : q = r
      BY <1>1, <3>1 DEF InFlight
    <3>3. \A t \in delivered : t.session = s => t.iat <= task[r].signed
      BY <1>2, <2>2, <3>1 DEF Orderly, At
    <3>4. task[r].signed \in Int
      BY <1>1, AuthAssumption DEF Times, AuthAssumption
    <3>5. \A t \in delivered' : t.session = s => t.iat <= sessions'[s].iat
      BY <1>1, <1>3, <1>5, <3>3, <3>4
    <3>6. \A q \in InFlight(s)' : task'[q].at = "clear" /\ task'[q].signed = sessions'[s].iat
      <4>1. CASE task[r].nonce # 0
        BY <1>5, <3>2, <4>1, SessionNumbers DEF InFlight, Running, LoginSteps, RefreshSteps
      <4>2. CASE task[r].nonce = 0
        BY <1>1, <1>3, <3>2, <4>2
      <4> QED
        BY <4>1, <4>2
    <3> QED
      BY <3>2, <3>5, <3>6 DEF Orderly, At
  <2> QED
    BY <1>7, <2>1, <2>2 DEF Client
<1> QED
  BY <1>1, <1>2, <1>6, <1>7, EachClient

LEMMA ClientsClear ==
    ASSUME AuthInv, AuthInv', ClientsInv, NEW r \in Requests, ClearExpiredKey(r)
    PROVE  ClientsInv'
<1> TypeOK /\ TasksOK
  BY DEF AuthInv
<1>1. task[r].at = "clear" /\ Deliver(r) /\ UNCHANGED <<sessions, faults>>
  BY DEF ClearExpiredKey, At
<1>2. task[r].session \in 1..Len(sessions) /\ task[r].signed \in 0..now
  BY <1>1 DEF TasksOK, TaskOK, Running, LoginSteps, RefreshSteps
<1>3. PICK s \in 1..Len(sessions) : task[r].session = s
  BY <1>2
<1>4. task[r].session \in SessionIds /\ task[r].signed \in Times
  BY <1>2, SessionNumbers, AuthAssumption DEF TypeOK, SessionIds, Times, AuthAssumption
<1>5. /\ delivered \subseteq delivered'
      /\ \E t \in delivered' : t.session = s /\ t.iat = task[r].signed
      /\ \A t \in delivered' :
           t \notin delivered => t.session = s /\ t.iat = task[r].signed
  BY <1>1, <1>3, <1>4, DeliverEffect
<1>6. /\ \A q \in Requests \ {r} : task'[q] = task[q]
      /\ task'[r].at = "idle" /\ task'[r].session = 0
  BY <1>1, EndEffect DEF Deliver
<1>7. ASSUME NEW i \in 1..Len(sessions), Client(i), i # s PROVE Client(i)'
  <2>1. i # 0
    BY SessionNumbers
  <2> QED
    BY <1>1, <1>3, <1>5, <1>6, <1>7, <2>1, Undisturbed
<1>8. ASSUME Client(s) PROVE Client(s)'
  <2>1. Backed(s)'
    BY <1>1, <1>5, <1>6, <1>8, BackedByOthers DEF Client
  <2>2. ASSUME Orderly(s) PROVE Orderly(s)'
    <3>1. r \in InFlight(s) /\ \A q \in InFlight(s) : q = r
      BY <1>1, <1>3, <2>2 DEF InFlight, Orderly, Running
    <3>2. InFlight(s)' = {}
      BY <1>6, <3>1 DEF InFlight, Running, LoginSteps, RefreshSteps
    <3>3. task[r].signed = sessions[s].iat /\ task[r].signed \in Int
      BY <1>1, <1>4, <2>2, <3>1, AuthAssumption DEF Orderly, At, Times, AuthAssumption
    <3>4. \A t \in delivered' : t.session = s => t.iat <= sessions'[s].iat
      BY <1>1, <1>5, <2>2, <3>3 DEF Orderly
    <3> QED
      BY <3>2, <3>4 DEF Orderly
  <2> QED
    BY <1>8, <2>1, <2>2 DEF Client
<1> QED
  BY <1>1, <1>7, <1>8, EachClient

LEMMA StepClients == AuthInv /\ ClientsInv /\ [Next]_vars => ClientsInv'
<1> SUFFICES ASSUME AuthInv, ClientsInv, [Next]_vars PROVE ClientsInv'
  OBVIOUS
<1> AuthInv' /\ TypeOK
  BY StepAuth DEF AuthInv
<1>1. CASE Tick \/ (UNCHANGED vars) \/ \E w \in Wallets : GetNonce(w) \/ NonceExpires(w)
  BY <1>1, ClientsEnvironment DEF Tick, vars, GetNonce, NonceExpires
<1>2. ASSUME NEW r \in Requests, NEW n \in 1..Len(givenTo), Login(r, n) PROVE ClientsInv'
  <2>1. /\ task[r].at = "idle" /\ task'[r].at = "nonce"
        /\ \A q \in Requests \ {r} : task'[q] = task[q]
        /\ UNCHANGED <<sessions, delivered, faults>>
    BY <1>2, LoginEffect DEF Login, At
  <2> QED
    BY <2>1, ClientsLogin DEF LoginSteps
<1>3. ASSUME NEW r \in Requests, NEW t \in delivered, Refresh(r, t) PROVE ClientsInv'
  BY <1>3, ClientsRefresh
<1>4. ASSUME NEW r \in Requests, CheckNonce(r) \/ DeleteNonce(r) \/ FindUser(r) \/ CreateUser(r)
      PROVE  ClientsInv'
  <2>1. /\ task[r].at \in LoginSteps /\ UNCHANGED <<sessions, delivered, faults>>
    BY <1>4 DEF CheckNonce, DeleteNonce, FindUser, CreateUser, At, LoginSteps
  <2>2. \/ End(r) \/ Goto(r, "deleteNonce") \/ Goto(r, "findUser")
        \/ Goto(r, "createSession") \/ Goto(r, "createUser")
        \/ CreateUser(r) /\ task[r].wallet \notin users
    BY <1>4 DEF CheckNonce, DeleteNonce, FindUser, CreateUser
  <2>3. /\ task'[r].at \in {"idle"} \cup LoginSteps
        /\ \A q \in Requests \ {r} : task'[q] = task[q]
    BY <2>2, EndEffect, GotoEffect, CreateUserEffect DEF Running, LoginSteps
  <2> QED
    BY <2>1, <2>3, ClientsLogin
<1>5. ASSUME NEW r \in Requests, CreateSession(r) PROVE ClientsInv'
  BY <1>5, ClientsCreateSession
<1>6. ASSUME NEW r \in Requests, FindSession(r) \/ DeactivateAll(r) \/ Sign(r)
      PROVE  ClientsInv'
  BY <1>6, ClientsFindSession
<1>7. ASSUME NEW r \in Requests, SaveSession(r) \/ ClearExpiredKey(r) PROVE ClientsInv'
  BY <1>7, ClientsSave, ClientsClear
<1>8. ASSUME NEW r \in Requests, CallFails(r) PROVE ClientsInv'
  BY <1>8 DEF CallFails, ClientsInv, TypeOK
<1> QED
  BY <1>1, <1>2, <1>3, <1>4, <1>5, <1>6, <1>7, <1>8 DEF Next, Step

(* A client that sends one refresh at a time, with its newest token, is    *)
(* not taken for a replay, whatever other clients of the same user do      *)
(* (refresh: the comparison with the hash, deactivateAllUserSessions).     *)
THEOREM NoReplayIsSeen == Spec => []NoFalseReplay
<1>1. ASSUME AuthInv, ClientsInv PROVE NoFalseReplay
  <2> SUFFICES ASSUME faults = 0, NEW r \in Requests, At(r, "deactivate"),
                      task[r].session \notin SharedSessions
               PROVE  FALSE
    BY DEF NoFalseReplay
  <2>1. task[r].session \in 1..Len(sessions) /\ task[r].at \in Running
    BY <1>1 DEF AuthInv, TasksOK, TaskOK, At, Running, LoginSteps, RefreshSteps
  <2>2. Client(task[r].session)
    BY <1>1, <2>1, SessionNumbers DEF ClientsInv, AuthInv
  <2>3. r \in InFlight(task[r].session)
    BY <2>1 DEF InFlight
  <2> QED
    BY <2>2, <2>3 DEF Client, Orderly
<1> QED
  BY <1>1, InitAuth, StepAuth, StepClients, PTL DEF Spec

(* Between requests a client has the token that its session expects: the   *)
(* rotation of refresh() never leaves it with a token that is refused,     *)
(* unless a call fails between the row and the answer.                     *)
THEOREM SessionsStayUsable == Spec => []SessionsUsable
<1>1. ASSUME AuthInv, ClientsInv PROVE SessionsUsable
  <2> SUFFICES ASSUME faults = 0, NEW s \in DOMAIN sessions, InFlight(s) = {}
               PROVE  \E t \in delivered : t.session = s /\ t.iat = sessions[s].iat
    BY DEF SessionsUsable
  <2>1. Backed(s)
    BY <1>1 DEF ClientsInv, Client
  <2>2. ~ Pending(s)
    BY DEF Pending, InFlight, At, Running
  <2> QED
    BY <2>1, <2>2 DEF Backed
<1> QED
  BY <1>1, InitAuth, StepAuth, StepClients, PTL DEF Spec

=============================================================================
