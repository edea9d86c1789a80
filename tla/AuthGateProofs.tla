--------------------------- MODULE AuthGateProofs ---------------------------
(***************************************************************************)
(* Theorems about AuthGate: for any number of requests of the management   *)
(* plane at a time.                                                        *)
(***************************************************************************)
EXTENDS AuthGate, FiniteSetTheorems, TLAPS

LEMMA ConstantTypes ==
    NoRequest \notin Requests /\ MaxEvents \in Nat
BY GateAssumption DEF GateAssumption

-----------------------------------------------------------------------------
(* The inductive invariant *)

\* A signed-in request that has made a query holds the write lock, and its
\* session is there.
LockHeld ==
    \A r \in Requests :
        pc[r] \in {"open", "fetched"} /\ cookie[r] # 0 => writer = r /\ cookie[r] \in Ids

\* What such a request has read of the second factor is still stored.
SecretRead ==
    \A r \in Requests : pc[r] = "open" /\ cookie[r] # 0 => seen[r].secret = cred.secret

\* A sign-in was verified against a password.
VerifiedRead == \A r \in Requests : pc[r] = "verified" => seen[r].pw # 0

IndInv ==
    /\ TypeOK
    /\ LockHeld
    /\ SecretRead
    /\ VerifiedRead

LEMMA InitInv == Init => IndInv
<1> SUFFICES ASSUME Init PROVE IndInv
  OBVIOUS
<1>1. TypeOK
  <2>1. 0 \in 0..MaxEvents /\ NoCred \in Creds
    BY ConstantTypes DEF NoCred, Creds
  <2>2. /\ cred \in Creds /\ sessions \subseteq Sessions
        /\ audit \subseteq 1..MaxEvents /\ late \subseteq 1..MaxEvents
        /\ writer \in Requests \cup {NoRequest}
        /\ {latch, printed} \subseteq BOOLEAN
        /\ event \in 0..MaxEvents /\ confirmed \in 0..MaxEvents
    BY <2>1 DEF Init
  <2>3. /\ pc \in [Requests -> {"idle", "arrived", "granted", "open", "fetched", "verified"}]
        /\ op \in [Requests -> Ops \cup {"none", "login"}]
        /\ cookie \in [Requests -> 0..MaxEvents]
        /\ configured \in [Requests -> BOOLEAN]
        /\ seen \in [Requests -> Creds]
    BY <2>1 DEF Init
  <2>. QED BY <2>2, <2>3 DEF TypeOK
<1>2. LockHeld /\ SecretRead /\ VerifiedRead
  BY DEF Init, LockHeld, SecretRead, VerifiedRead
<1>. QED BY <1>1, <1>2 DEF IndInv

-----------------------------------------------------------------------------
(* What the steps have in common *)

\* The local state that the end of a request leaves.
LEMMA EndKeeps ==
    ASSUME TypeOK, NEW r \in Requests, End(r)
    PROVE  /\ writer' \in Requests \cup {NoRequest}
           /\ pc' \in [Requests -> {"idle", "arrived", "granted", "open", "fetched", "verified"}]
           /\ op' \in [Requests -> Ops \cup {"none", "login"}]
           /\ cookie' \in [Requests -> 0..MaxEvents]
           /\ configured' \in [Requests -> BOOLEAN]
           /\ seen' \in [Requests -> Creds]
           /\ pc'[r] = "idle"
           /\ \A q \in Requests \ {r} : /\ pc'[q] = pc[q]
                                        /\ cookie'[q] = cookie[q]
                                        /\ seen'[q] = seen[q]
                                        /\ writer = q => writer' = q
BY ConstantTypes DEF TypeOK, End, NoCred, Creds

\* The end of a request leaves the others as the invariant wants them, if it
\* changes no secret and ends no session, or could take the write lock.
LEMMA EndInv ==
    ASSUME IndInv, NEW r \in Requests, End(r), TypeOK',
           CanWrite(r) \/ (cred'.secret = cred.secret /\ Ids \subseteq Ids')
    PROVE  IndInv'
<1>1. \A q \in Requests \ {r} : /\ pc'[q] = pc[q]
                                /\ cookie'[q] = cookie[q]
                                /\ seen'[q] = seen[q]
                                /\ writer = q => writer' = q
  BY EndKeeps DEF IndInv
<1>2. pc'[r] = "idle"
  BY EndKeeps DEF IndInv
<1>3. ASSUME NEW q \in Requests, pc'[q] \in {"open", "fetched"}, cookie'[q] # 0
      PROVE  /\ writer' = q /\ cookie'[q] \in Ids'
             /\ pc'[q] = "open" => seen'[q].secret = cred'.secret
  <2>1. q # r
    BY <1>2, <1>3
  <2>2. writer = q /\ cookie[q] \in Ids /\ (pc[q] = "open" => seen[q].secret = cred.secret)
    BY <1>1, <1>3, <2>1 DEF IndInv, LockHeld, SecretRead
  <2>3. ~CanWrite(r)
    BY <2>1, <2>2, ConstantTypes DEF CanWrite
  <2>. QED BY <1>1, <2>1, <2>2, <2>3
<1>4. LockHeld' /\ SecretRead'
  BY <1>3 DEF LockHeld, SecretRead
<1>5. VerifiedRead'
  BY <1>1, <1>2 DEF IndInv, VerifiedRead
<1>. QED BY <1>4, <1>5 DEF IndInv

\* The same of an event that leaves an audit row.
LEMMA AuditedInv ==
    ASSUME IndInv, NEW r \in Requests, NEW trail, Audited(r, trail),
           trail \in {audit, audit \cup {event + 1}},
           cred' \in Creds, sessions' \subseteq Sessions,
           {latch', printed'} \subseteq BOOLEAN,
           confirmed' \in 0..MaxEvents, late' \subseteq 1..MaxEvents
    PROVE  IndInv'
<1>1. /\ event' = event + 1 /\ event < MaxEvents /\ audit' = trail
      /\ CanWrite(r) /\ End(r) /\ event \in 0..MaxEvents
  BY DEF Audited, CanWrite, IndInv, TypeOK
<1>2. event' \in 0..MaxEvents /\ audit' \subseteq 1..MaxEvents
  BY <1>1, ConstantTypes DEF IndInv, TypeOK
<1>3. TypeOK'
  BY <1>1, <1>2, EndKeeps DEF IndInv, TypeOK
<1>. QED BY <1>1, <1>3, EndInv

\* The number of the next event is that of a password, secret or session.
LEMMA NextEvent ==
    ASSUME IndInv, NEW r \in Requests, CanWrite(r)
    PROVE  event + 1 \in 1..MaxEvents /\ event + 1 \in 0..MaxEvents
BY ConstantTypes DEF CanWrite, IndInv, TypeOK

-----------------------------------------------------------------------------
(* Sign-in and sign-out *)

LEMMA VerifyLoginInv ==
    ASSUME IndInv, NEW r \in Requests, VerifyLogin(r)
    PROVE  IndInv'
<1>1. TypeOK'
  BY DEF IndInv, TypeOK, VerifyLogin, Creds
<1>2. LockHeld' /\ SecretRead' /\ VerifiedRead'
  BY DEF IndInv, TypeOK, LockHeld, SecretRead, VerifiedRead, VerifyLogin, Ids
<1>. QED BY <1>1, <1>2 DEF IndInv

LEMMA InsertSessionInv ==
    ASSUME IndInv, NEW r \in Requests, InsertSession(r)
    PROVE  IndInv'
<1>1. Audited(r, audit \cup {event + 1}) /\ CanWrite(r)
  BY DEF InsertSession, Audited
<1>2. seen[r].pw \in 1..MaxEvents /\ event + 1 \in 1..MaxEvents
  BY <1>1, NextEvent DEF InsertSession, IndInv, TypeOK, VerifiedRead, Creds
<1>3. [id |-> event + 1, pw |-> seen[r].pw, expired |-> FALSE] \in Sessions
  BY <1>2 DEF Sessions
<1>4. sessions' \subseteq Sessions /\ late' \subseteq 1..MaxEvents
  BY <1>2, <1>3 DEF InsertSession, IndInv, TypeOK
<1>. QED BY <1>1, <1>4, AuditedInv DEF InsertSession, IndInv, TypeOK

LEMMA RejectLoginInv ==
    ASSUME IndInv, NEW r \in Requests, RejectLogin(r)
    PROVE  IndInv'
BY AuditedInv DEF RejectLogin, Rejected, IndInv, TypeOK

\* Without the write lock in other hands no signed-in request has begun.
LEMMA LogoutInv ==
    ASSUME IndInv, NEW s \in sessions, Logout(s)
    PROVE  IndInv'
<1>1. TypeOK'
  BY DEF IndInv, TypeOK, Logout, requestVars
<1>2. LockHeld' /\ SecretRead' /\ VerifiedRead'
  BY ConstantTypes DEF IndInv, LockHeld, SecretRead, VerifiedRead, Logout, requestVars
<1>. QED BY <1>1, <1>2 DEF IndInv

LEMMA ExpireInv ==
    ASSUME IndInv, NEW s \in sessions, Expire(s)
    PROVE  IndInv'
<1> DEFINE old == [s EXCEPT !.expired = TRUE]
<1>1. old \in Sessions /\ old.id = s.id
  BY DEF IndInv, TypeOK, Sessions
<1>2. sessions' = (sessions \ {s}) \cup {old}
  BY DEF Expire
<1> HIDE DEF old
<1>3. TypeOK'
  BY <1>1, <1>2 DEF IndInv, TypeOK, Expire, requestVars
<1>4. Ids' = Ids
  BY <1>1, <1>2 DEF Ids
<1>5. LockHeld' /\ SecretRead' /\ VerifiedRead'
  BY <1>4 DEF IndInv, LockHeld, SecretRead, VerifiedRead, Expire, requestVars
<1>. QED BY <1>3, <1>5 DEF IndInv

-----------------------------------------------------------------------------
(* The gate *)

LEMMA ArriveInv ==
    ASSUME IndInv, NEW r \in Requests, NEW c \in Ids \cup {0}, Arrive(r, c)
    PROVE  IndInv'
<1>1. c \in 0..MaxEvents
  BY ConstantTypes DEF IndInv, TypeOK, Ids, Sessions
<1>2. latch' \in BOOLEAN
  BY DEF Arrive
<1>3. TypeOK'
  BY <1>1, <1>2 DEF IndInv, TypeOK, Arrive
<1>4. LockHeld' /\ SecretRead' /\ VerifiedRead'
  BY DEF IndInv, TypeOK, LockHeld, SecretRead, VerifiedRead, Arrive, Ids
<1>. QED BY <1>3, <1>4 DEF IndInv

LEMMA EvaluateInv ==
    ASSUME IndInv, NEW r \in Requests, Evaluate(r)
    PROVE  IndInv'
<1>1. ASSUME SignedIn(r) \/ BootstrapAllowed(r) PROVE IndInv'
  <2>1. /\ pc' = [pc EXCEPT ![r] = "granted"]
        /\ cookie' = [cookie EXCEPT ![r] = IF SignedIn(r) THEN @ ELSE 0]
        /\ configured' = [configured EXCEPT ![r] = FALSE]
        /\ UNCHANGED <<writer, op, seen, cred, sessions, audit, latch, printed, event, confirmed,
                       late>>
    BY <1>1 DEF Evaluate
  <2>2. TypeOK'
    BY <2>1, ConstantTypes DEF IndInv, TypeOK
  <2>3. LockHeld' /\ SecretRead' /\ VerifiedRead'
    BY <2>1 DEF IndInv, TypeOK, LockHeld, SecretRead, VerifiedRead, Ids
  <2>. QED BY <2>2, <2>3 DEF IndInv
<1>2. ASSUME ~(SignedIn(r) \/ BootstrapAllowed(r)) PROVE IndInv'
  <2>1. End(r) /\ UNCHANGED <<cred, sessions, audit, latch, printed, event, confirmed, late>>
    BY <1>2 DEF Evaluate
  <2>2. TypeOK'
    BY <2>1, EndKeeps DEF IndInv, TypeOK
  <2>. QED BY <2>1, <2>2, EndInv DEF Ids
<1>. QED BY <1>1, <1>2

-----------------------------------------------------------------------------
(* The handlers *)

\* The first query of a signed-in request takes the lock, and finds the session.
LEMMA OpenInv ==
    ASSUME IndInv, NEW r \in Requests, NEW o \in Ops, Open(r, o)
    PROVE  IndInv'
<1>1. ASSUME TouchesSession(r) /\ cookie[r] \notin Ids PROVE IndInv'
  <2>1. End(r) /\ UNCHANGED <<cred, sessions, audit, latch, printed, event, confirmed, late>>
    BY <1>1 DEF Open
  <2>2. TypeOK'
    BY <2>1, EndKeeps DEF IndInv, TypeOK
  <2>. QED BY <2>1, <2>2, EndInv DEF Ids
<1>2. ASSUME ~(TouchesSession(r) /\ cookie[r] \notin Ids) PROVE IndInv'
  <2>1. /\ pc' = [pc EXCEPT ![r] = "open"]
        /\ seen' = [seen EXCEPT ![r] = cred]
        /\ op' = [op EXCEPT ![r] = o]
        /\ UNCHANGED <<cookie, configured, cred, sessions, audit, latch, printed, event, confirmed,
                       late>>
    BY <1>2 DEF Open
  <2>2. /\ cookie[r] = 0 => writer' = writer
        /\ cookie[r] # 0 => writer = NoRequest /\ writer' = r /\ cookie[r] \in Ids
    BY <1>2 DEF Open, TouchesSession
  <2>3. TypeOK'
    BY <2>1, <2>2 DEF IndInv, TypeOK
  <2>4. LockHeld'
    BY <2>1, <2>2, ConstantTypes DEF IndInv, TypeOK, LockHeld, Ids
  <2>5. SecretRead' /\ VerifiedRead'
    BY <2>1 DEF IndInv, TypeOK, SecretRead, VerifiedRead
  <2>. QED BY <2>3, <2>4, <2>5 DEF IndInv
<1>. QED BY <1>1, <1>2

LEMMA RefuseInv ==
    ASSUME IndInv, NEW r \in Requests, Refuse(r)
    PROVE  IndInv'
<1>1. TypeOK'
  BY EndKeeps DEF Refuse, IndInv, TypeOK
<1>. QED BY <1>1, EndInv DEF Refuse, Ids

LEMMA FailInv ==
    ASSUME IndInv, NEW r \in Requests, Fail(r)
    PROVE  IndInv'
<1>1. printed' \in BOOLEAN
  BY DEF Fail, IndInv, TypeOK
<1>2. TypeOK'
  BY <1>1, EndKeeps DEF Fail, IndInv, TypeOK
<1>. QED BY <1>2, EndInv DEF Fail, Ids

LEMMA FetchCredentialInv ==
    ASSUME IndInv, NEW r \in Requests, FetchCredential(r)
    PROVE  IndInv'
<1>1. TypeOK'
  BY DEF IndInv, TypeOK, FetchCredential
<1>2. LockHeld' /\ SecretRead' /\ VerifiedRead'
  BY DEF IndInv, TypeOK, LockHeld, SecretRead, VerifiedRead, FetchCredential, Ids
<1>. QED BY <1>1, <1>2 DEF IndInv

LEMMA ChangePasswordInv ==
    ASSUME IndInv, NEW r \in Requests, ChangePassword(r)
    PROVE  IndInv'
<1>1. Audited(r, audit \cup {event + 1}) /\ CanWrite(r)
  BY DEF ChangePassword, Audited
<1>2. event + 1 \in 1..MaxEvents /\ event + 1 \in 0..MaxEvents
  BY <1>1, NextEvent
<1>3. [id |-> event + 1, pw |-> event + 1, expired |-> FALSE] \in Sessions
  BY <1>2 DEF Sessions
<1>4. sessions' \subseteq Sessions
  BY <1>3 DEF ChangePassword, SessionsKept
<1>5. cred' \in Creds
  BY <1>2 DEF ChangePassword, IndInv, TypeOK, Creds
<1>. QED BY <1>1, <1>4, <1>5, AuditedInv DEF ChangePassword, IndInv, TypeOK

LEMMA TotpInv ==
    ASSUME IndInv, NEW r \in Requests, EnrollTotp(r) \/ ConfirmTotp(r) \/ DisableTotp(r)
    PROVE  IndInv'
<1>1. Audited(r, audit \cup {event + 1}) /\ CanWrite(r)
  BY DEF EnrollTotp, ConfirmTotp, DisableTotp, Audited
<1>2. event + 1 \in 0..MaxEvents /\ 0 \in 0..MaxEvents
  BY <1>1, NextEvent, ConstantTypes
<1>3. cred \in Creds /\ seen[r].secret \in 0..MaxEvents /\ seen[r] \in Creds
  BY DEF IndInv, TypeOK, Creds
<1>4. cred' \in Creds
  BY <1>2, <1>3 DEF EnrollTotp, ConfirmTotp, DisableTotp, Column, Creds
<1>5. confirmed' \in 0..MaxEvents
  BY <1>3 DEF EnrollTotp, ConfirmTotp, DisableTotp, IndInv, TypeOK
<1>. QED BY <1>1, <1>4, <1>5, AuditedInv
         DEF EnrollTotp, ConfirmTotp, DisableTotp, IndInv, TypeOK

LEMMA RejectConfirmInv ==
    ASSUME IndInv, NEW r \in Requests, RejectConfirm(r)
    PROVE  IndInv'
BY AuditedInv DEF RejectConfirm, Rejected, IndInv, TypeOK

LEMMA RevokeAllInv ==
    ASSUME IndInv, NEW r \in Requests, RevokeAll(r)
    PROVE  IndInv'
BY AuditedInv DEF RevokeAll, IndInv, TypeOK

LEMMA RestartInv ==
    ASSUME IndInv, Restart
    PROVE  IndInv'
<1>1. TypeOK'
  <2>1. 0 \in 0..MaxEvents /\ NoCred \in Creds
    BY ConstantTypes DEF NoCred, Creds
  <2>2. sessions' \subseteq Sessions /\ audit' \subseteq 1..MaxEvents
    BY DEF IndInv, TypeOK, Restart, Trimmed
  <2>3. {latch', printed'} \subseteq BOOLEAN /\ writer' \in Requests \cup {NoRequest}
    BY DEF Restart
  <2>4. /\ pc' \in [Requests -> {"idle", "arrived", "granted", "open", "fetched", "verified"}]
        /\ op' \in [Requests -> Ops \cup {"none", "login"}]
        /\ cookie' \in [Requests -> 0..MaxEvents]
        /\ configured' \in [Requests -> BOOLEAN]
        /\ seen' \in [Requests -> Creds]
    BY <2>1 DEF Restart
  <2>5. /\ cred' \in Creds /\ event' \in 0..MaxEvents
        /\ confirmed' \in 0..MaxEvents /\ late' \subseteq 1..MaxEvents
    BY DEF Restart, IndInv, TypeOK
  <2>. QED BY <2>2, <2>3, <2>4, <2>5 DEF TypeOK
<1>2. LockHeld' /\ SecretRead' /\ VerifiedRead'
  BY DEF LockHeld, SecretRead, VerifiedRead, Restart
<1>. QED BY <1>1, <1>2 DEF IndInv

LEMMA StepInv == IndInv /\ [Next]_vars => IndInv'
<1> SUFFICES ASSUME IndInv, [Next]_vars PROVE IndInv'
  OBVIOUS
<1>1. ASSUME UNCHANGED vars PROVE IndInv'
  BY <1>1 DEF vars, requestVars, IndInv, TypeOK, LockHeld, SecretRead, VerifiedRead, Ids
<1>2. ASSUME NEW r \in Requests,
             \/ VerifyLogin(r) \/ InsertSession(r) \/ RejectLogin(r) \/ Evaluate(r)
             \/ (\E c \in Ids \cup {0} : Arrive(r, c)) \/ (\E o \in Ops : Open(r, o))
      PROVE  IndInv'
  BY <1>2, VerifyLoginInv, InsertSessionInv, RejectLoginInv, EvaluateInv, ArriveInv, OpenInv
<1>3. ASSUME NEW r \in Requests,
             \/ Refuse(r) \/ Fail(r) \/ FetchCredential(r) \/ ChangePassword(r)
             \/ EnrollTotp(r) \/ ConfirmTotp(r) \/ RejectConfirm(r) \/ DisableTotp(r) \/ RevokeAll(r)
      PROVE  IndInv'
  BY <1>3, RefuseInv, FailInv, FetchCredentialInv, ChangePasswordInv, TotpInv, RejectConfirmInv,
     RevokeAllInv
<1>4. ASSUME NEW s \in sessions, Logout(s) \/ Expire(s) PROVE IndInv'
  BY <1>4, LogoutInv, ExpireInv
<1>5. ASSUME Restart PROVE IndInv'
  BY <1>5, RestartInv
<1>. QED BY <1>1, <1>2, <1>3, <1>4, <1>5 DEF Next

-----------------------------------------------------------------------------
(* The theorems *)

\* Nothing a step does breaks the invariant that the properties rest on.
THEOREM Invariance == Spec => []IndInv
BY InitInv, StepInv, PTL DEF Spec

\* What a signed-in request commits, it commits while its session exists,
\* however requests overlap (auth.resolve_session, revoke_all_sessions).
THEOREM CommitsNeedSession == Spec => EndedSessionsChangeNothing
<1>1. IndInv /\ [Next]_vars =>
          [\A r \in Requests : Commits(r) /\ cookie[r] # 0 => cookie[r] \in Ids]_vars
  BY DEF IndInv, LockHeld, Commits
<1>. QED BY <1>1, Invariance, PTL DEF Spec, EndedSessionsChangeNothing

\* Only one event happens at a time: who commits in a step has made the step.
LEMMA CommitIsOwn ==
    ASSUME IndInv, Next, NEW r \in Requests, Commits(r), op[r] = "confirm"
    PROVE  ConfirmTotp(r) \/ RejectConfirm(r) \/ ChangePassword(r)
<1>1. event' # event /\ pc'[r] # pc[r] /\ pc[r] \in {"open", "fetched"}
  BY DEF Commits, IndInv, TypeOK
<1>2. ASSUME NEW q \in Requests, NEW trail, Audited(q, trail) PROVE q = r
  BY <1>1, <1>2 DEF Audited, End, IndInv, TypeOK
<1>3. \A q \in Requests :
          /\ ~VerifyLogin(q) /\ ~Evaluate(q) /\ ~Refuse(q) /\ ~Fail(q) /\ ~FetchCredential(q)
          /\ \A c \in Ids \cup {0} : ~Arrive(q, c)
          /\ \A o \in Ops : ~Open(q, o)
  BY <1>1 DEF VerifyLogin, Evaluate, Refuse, Fail, FetchCredential, Arrive, Open
<1>4. ~Restart /\ \A s \in sessions : ~Logout(s) /\ ~Expire(s)
  BY <1>1 DEF Restart, Logout, Expire
<1>5. \A q \in Requests :
          /\ InsertSession(q) => q = r /\ pc[q] = "verified"
          /\ RejectLogin(q) => q = r /\ pc[q] = "idle"
          /\ ChangePassword(q) => q = r
          /\ EnrollTotp(q) => q = r /\ op[q] = "enroll"
          /\ DisableTotp(q) => q = r /\ op[q] = "disable"
          /\ RevokeAll(q) => q = r /\ op[q] = "revoke"
          /\ ConfirmTotp(q) \/ RejectConfirm(q) => q = r
  BY <1>2 DEF InsertSession, RejectLogin, ChangePassword, EnrollTotp, DisableTotp, RevokeAll,
     ConfirmTotp, RejectConfirm
<1>. QED BY <1>1, <1>3, <1>4, <1>5 DEF Next

\* The second factor that a signed-in operator turns on is the one whose code
\* was checked (auth.confirm_totp_enrollment, begin_totp_enrollment).
THEOREM ConfirmedIsChecked == Spec => ConfirmsWhatWasChecked
<1> DEFINE Sound == \A r \in Requests :
           Commits(r) /\ cookie[r] # 0 /\ op[r] = "confirm" /\ cred'.on /\ ~cred.on
               => cred'.secret = seen[r].secret
<1>1. IndInv /\ [Next]_vars => [Sound]_vars
  <2> SUFFICES ASSUME IndInv, Next, NEW r \in Requests, Commits(r), cookie[r] # 0,
                      op[r] = "confirm", cred'.on, ~cred.on
               PROVE  cred'.secret = seen[r].secret
    OBVIOUS
  <2>1. cred' # cred /\ ~ChangePassword(r)
    BY DEF ChangePassword, IndInv, TypeOK, Creds
  <2>2. ConfirmTotp(r)
    BY <2>1, CommitIsOwn DEF RejectConfirm
  <2>3. cred'.secret = cred.secret
    BY <2>2 DEF ConfirmTotp, IndInv, TypeOK, Creds
  <2>. QED BY <2>2, <2>3 DEF ConfirmTotp, IndInv, SecretRead
<1>. QED BY <1>1, Invariance, PTL DEF Spec, ConfirmsWhatWasChecked

-----------------------------------------------------------------------------
(* Old sessions *)

\* What most steps leave of the passwords: each session goes on or ends.
SessionsGoOn ==
    /\ cred'.pw = cred.pw
    /\ late' = late
    /\ \A s \in sessions' : \E t \in sessions : s.id = t.id /\ s.pw = t.pw

LEMMA RequestsLeaveSessions ==
    ASSUME IndInv, NEW r \in Requests,
           \/ VerifyLogin(r) \/ RejectLogin(r) \/ (\E c \in Ids \cup {0} : Arrive(r, c)) \/ Evaluate(r)
           \/ (\E o \in Ops : Open(r, o)) \/ Refuse(r) \/ Fail(r) \/ FetchCredential(r)
           \/ EnrollTotp(r) \/ ConfirmTotp(r) \/ RejectConfirm(r) \/ DisableTotp(r) \/ RevokeAll(r)
    PROVE  SessionsGoOn
<1>1. cred \in Creds
  BY DEF IndInv, TypeOK
<1>2. CASE EnrollTotp(r) \/ ConfirmTotp(r) \/ DisableTotp(r)
  BY <1>1, <1>2 DEF SessionsGoOn, EnrollTotp, ConfirmTotp, DisableTotp, Creds
<1>3. CASE RevokeAll(r)
  BY <1>3 DEF SessionsGoOn, RevokeAll
<1>4. CASE ~(EnrollTotp(r) \/ ConfirmTotp(r) \/ DisableTotp(r) \/ RevokeAll(r))
  <2>1. UNCHANGED <<cred, sessions, late>>
    BY <1>4 DEF VerifyLogin, RejectLogin, Arrive, Evaluate, Open, Refuse, Fail, FetchCredential,
       RejectConfirm
  <2>. QED BY <2>1 DEF SessionsGoOn
<1>. QED BY <1>2, <1>3, <1>4

LEMMA SurroundingsLeaveSessions ==
    ASSUME IndInv, Restart \/ \E s \in sessions : Logout(s) \/ Expire(s)
    PROVE  SessionsGoOn
<1>1. CASE Restart
  BY <1>1 DEF SessionsGoOn, Restart
<1>2. ASSUME NEW s \in sessions, Logout(s) PROVE SessionsGoOn
  BY <1>2 DEF SessionsGoOn, Logout
<1>3. ASSUME NEW s \in sessions, Expire(s) PROVE SessionsGoOn
  <2> DEFINE old == [s EXCEPT !.expired = TRUE]
  <2>1. old.id = s.id /\ old.pw = s.pw
    BY DEF IndInv, TypeOK, Sessions
  <2>2. sessions' = (sessions \ {s}) \cup {old} /\ UNCHANGED <<cred, late>>
    BY <1>3 DEF Expire
  <2> HIDE DEF old
  <2>. QED BY <2>1, <2>2 DEF SessionsGoOn
<1>. QED BY <1>1, <1>2, <1>3

LEMMA OldSessionsStep == IndInv /\ OldSessionsEnd /\ [Next]_vars => OldSessionsEnd'
<1> SUFFICES ASSUME IndInv, OldSessionsEnd, [Next]_vars PROVE OldSessionsEnd'
  OBVIOUS
<1>1. ASSUME SessionsGoOn PROVE OldSessionsEnd'
  BY <1>1 DEF SessionsGoOn, OldSessionsEnd
<1>2. ASSUME NEW r \in Requests, ChangePassword(r) PROVE OldSessionsEnd'
  <2>1. sessions' = {[id |-> event + 1, pw |-> event + 1, expired |-> FALSE]}
    BY <1>2 DEF ChangePassword, SessionsKept
  <2>2. cred'.pw = event + 1
    BY <1>2 DEF ChangePassword, IndInv, TypeOK, Creds
  <2>. QED BY <2>1, <2>2 DEF OldSessionsEnd
<1>3. ASSUME NEW r \in Requests, InsertSession(r) PROVE OldSessionsEnd'
  <2> DEFINE new == [id |-> event + 1, pw |-> seen[r].pw, expired |-> FALSE]
  <2>1. /\ sessions' = sessions \cup {new} /\ cred' = cred
        /\ late' = IF seen[r].pw = cred.pw THEN late ELSE late \cup {event + 1}
    BY <1>3 DEF InsertSession
  <2>2. new.pw = cred.pw \/ new.id \in late'
    BY <2>1
  <2> HIDE DEF new
  <2>. QED BY <2>1, <2>2 DEF OldSessionsEnd
<1>4. ASSUME UNCHANGED vars PROVE SessionsGoOn
  BY <1>4 DEF vars, SessionsGoOn
<1>. QED BY <1>1, <1>2, <1>3, <1>4, RequestsLeaveSessions, SurroundingsLeaveSessions DEF Next

\* A session that is there was opened with the password that is stored, or by a
\* sign-in that had checked an older one and stored its session only after the
\* change (revoke_all_sessions, login).
THEOREM OldSessionsDoEnd == Spec => []OldSessionsEnd
<1>1. Init => OldSessionsEnd
  BY DEF Init, OldSessionsEnd
<1>. QED BY <1>1, OldSessionsStep, Invariance, PTL DEF Spec

-----------------------------------------------------------------------------
(* The audit trail *)

\* The trail has no row of an event that was not.
TrailOfEvents == audit \subseteq 1..event

\* Pruning keeps an event that fewer than Keep others follow.
LEMMA TrimmedKeepsNewest ==
    ASSUME TypeOK, TrailOfEvents, NEW e \in audit, e > event - Keep
    PROVE  e \in Trimmed(audit)
<1> DEFINE newer == {f \in audit : f > e}
<1>1. e \in Nat /\ event \in Nat /\ e <= event /\ Keep \in Nat
  BY GateAssumption DEF TypeOK, TrailOfEvents, GateAssumption
<1>2. newer \subseteq (e + 1)..event
  <2> SUFFICES ASSUME NEW f \in newer PROVE f \in (e + 1)..event
    OBVIOUS
  <2>1. f \in 1..event /\ f > e
    BY DEF TrailOfEvents
  <2>. QED BY <1>1, <2>1
<1>3. /\ IsFiniteSet((e + 1)..event)
      /\ Cardinality((e + 1)..event) = IF e + 1 > event THEN 0 ELSE event - (e + 1) + 1
  BY <1>1, FS_Interval
<1>4. Cardinality(newer) <= Cardinality((e + 1)..event) /\ Cardinality(newer) \in Nat
  BY <1>2, <1>3, FS_Subset, FS_CardinalityType
<1>5. Cardinality(newer) < Keep
  BY <1>1, <1>3, <1>4
<1>. QED BY <1>5 DEF Trimmed

LEMMA AuditStep ==
    IndInv /\ TrailOfEvents /\ AuditKeepsNewest /\ [Next]_vars => (TrailOfEvents /\ AuditKeepsNewest)'
<1> SUFFICES ASSUME IndInv, TrailOfEvents, AuditKeepsNewest, [Next]_vars
             PROVE  TrailOfEvents' /\ AuditKeepsNewest'
  OBVIOUS
<1>0. event \in Nat /\ Keep \in Nat
  BY GateAssumption DEF GateAssumption, IndInv, TypeOK
<1>1. ASSUME UNCHANGED <<audit, event>> PROVE TrailOfEvents' /\ AuditKeepsNewest'
  BY <1>1 DEF TrailOfEvents, AuditKeepsNewest
<1>2. ASSUME event' = event + 1, audit' = audit \cup {event + 1}
      PROVE  TrailOfEvents' /\ AuditKeepsNewest'
  BY <1>0, <1>2 DEF TrailOfEvents, AuditKeepsNewest
<1>3. ASSUME Restart PROVE TrailOfEvents' /\ AuditKeepsNewest'
  <2>1. audit' = Trimmed(audit) /\ event' = event
    BY <1>3 DEF Restart
  <2>2. \A e \in 1..event : e > event - Keep => e \in Trimmed(audit)
    BY TrimmedKeepsNewest DEF AuditKeepsNewest, IndInv
  <2>3. Trimmed(audit) \subseteq audit
    BY DEF Trimmed
  <2>. QED BY <2>1, <2>2, <2>3 DEF TrailOfEvents, AuditKeepsNewest
<1>4. ASSUME NEW r \in Requests,
             \/ InsertSession(r) \/ RejectLogin(r) \/ ChangePassword(r) \/ EnrollTotp(r)
             \/ ConfirmTotp(r) \/ RejectConfirm(r) \/ DisableTotp(r) \/ RevokeAll(r)
      PROVE  event' = event + 1 /\ audit' = audit \cup {event + 1}
  BY <1>4 DEF InsertSession, RejectLogin, ChangePassword, EnrollTotp, ConfirmTotp, RejectConfirm,
     DisableTotp, RevokeAll, Audited, Rejected
<1>5. ASSUME NEW r \in Requests,
             \/ VerifyLogin(r) \/ (\E c \in Ids \cup {0} : Arrive(r, c)) \/ Evaluate(r)
             \/ (\E o \in Ops : Open(r, o)) \/ Refuse(r) \/ Fail(r) \/ FetchCredential(r)
      PROVE  UNCHANGED <<audit, event>>
  BY <1>5 DEF VerifyLogin, Arrive, Evaluate, Open, Refuse, Fail, FetchCredential
<1>6. ASSUME NEW s \in sessions, Logout(s) \/ Expire(s) PROVE UNCHANGED <<audit, event>>
  BY <1>6 DEF Logout, Expire
<1>7. ASSUME UNCHANGED vars PROVE UNCHANGED <<audit, event>>
  BY <1>7 DEF vars
<1>. QED BY <1>1, <1>2, <1>3, <1>4, <1>5, <1>6, <1>7 DEF Next

\* The newest Keep events are on the trail, whatever number of rows a start keeps
\* and however often the process starts (audit.record, record_and_commit, prune).
THEOREM AuditIsKept == Spec => []AuditKeepsNewest
<1>1. Init => TrailOfEvents /\ AuditKeepsNewest
  BY DEF Init, TrailOfEvents, AuditKeepsNewest
<1>. QED BY <1>1, AuditStep, Invariance, PTL DEF Spec
=============================================================================
