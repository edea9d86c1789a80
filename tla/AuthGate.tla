------------------------------- MODULE AuthGate -------------------------------
(***************************************************************************)
(* The gate of the management plane: the dashboard's password, its second  *)
(* factor, its sessions, the bootstrap of a fresh install, and the audit   *)
(* trail (modules/auth, modules/audit, main.lifespan).                     *)
(*                                                                         *)
(* The process has one database, SQLite, and interleaves requests at every *)
(* await.  A signed-in request changes its session's last_seen_at in       *)
(* evaluate; its next query flushes that change, which takes the write     *)
(* lock, and fails if the session's row is gone.  A request let in without *)
(* a session takes the lock at its own first write.                        *)
(***************************************************************************)
EXTENDS Integers, FiniteSets

CONSTANTS
    Requests, NoRequest,
    Local,          \* the requests that come from loopback
    Keep,           \* how many audit rows survive a start
    MaxEvents       \* bound of an instance: changes, sign-ins and rejections

ASSUME GateAssumption ==
    /\ NoRequest \notin Requests
    /\ Local \subseteq Requests
    /\ Keep \in Nat \ {0}
    /\ MaxEvents \in Nat

VARIABLES
    cred,       \* the credential row; pw 0 when there is none
    sessions,   \* the session rows
    audit,      \* the events that have an audit row
    writer,     \* the transaction that holds the write lock
    latch,      \* _password_ever_seen
    printed,    \* is the token in the log still the bootstrap token?
    pc, op, cookie, configured, seen, \* the local state of each request; cookie 0: none
    event,      \* how many events there were; also numbers passwords, secrets and sessions
    confirmed,  \* history: the last secret a code was accepted for
    late        \* history: sessions of sign-ins that a password change overtook

requestVars == <<pc, op, cookie, configured, seen>>
vars == <<cred, sessions, audit, writer, latch, printed, requestVars, event, confirmed,
          late>>

Ops == {"password", "enroll", "confirm", "disable", "revoke"}

NoCred == [pw |-> 0, secret |-> 0, on |-> FALSE]
Creds == [pw : 0..MaxEvents, secret : 0..MaxEvents, on : BOOLEAN]
Sessions == [id : 1..MaxEvents, pw : 1..MaxEvents, expired : BOOLEAN]

TypeOK ==
    /\ cred \in Creds
    /\ sessions \subseteq Sessions
    /\ audit \subseteq 1..MaxEvents
    /\ writer \in Requests \cup {NoRequest}
    /\ {latch, printed} \subseteq BOOLEAN
    /\ pc \in [Requests -> {"idle", "arrived", "granted", "open", "fetched", "verified"}]
    /\ op \in [Requests -> Ops \cup {"none", "login"}]
    /\ cookie \in [Requests -> 0..MaxEvents]
    /\ configured \in [Requests -> BOOLEAN]
    /\ seen \in [Requests -> Creds]
    /\ event \in 0..MaxEvents
    /\ confirmed \in 0..MaxEvents
    /\ late \subseteq 1..MaxEvents

Init ==
    /\ cred = NoCred
    /\ sessions = {}
    /\ audit = {}
    /\ writer = NoRequest
    /\ latch = FALSE
    /\ printed = TRUE
    /\ pc = [r \in Requests |-> "idle"]
    /\ op = [r \in Requests |-> "none"]
    /\ cookie = [r \in Requests |-> 0]
    /\ configured = [r \in Requests |-> FALSE]
    /\ seen = [r \in Requests |-> NoCred]
    /\ event = 0
    /\ confirmed = 0
    /\ late = {}

-----------------------------------------------------------------------------
Ids == {s.id : s \in sessions}

\* The end of a request: its transaction is over, and the lock it held free.
End(r) ==
    /\ writer' = IF writer = r THEN NoRequest ELSE writer
    /\ pc' = [pc EXCEPT ![r] = "idle"]
    /\ op' = [op EXCEPT ![r] = "none"]
    /\ cookie' = [cookie EXCEPT ![r] = 0]
    /\ configured' = [configured EXCEPT ![r] = FALSE]
    /\ seen' = [seen EXCEPT ![r] = NoCred]

CanWrite(r) == writer \in {NoRequest, r} /\ event < MaxEvents

\* Mutant: a rejection is recorded but not committed, and rolls back with the
\* exception that follows.
Rejected_RolledBack(trail) == trail

\* record_and_commit.
Rejected(trail) == trail \cup {event + 1}

\* An event of request r that ends it, with its audit row.
Audited(r, trail) ==
    /\ CanWrite(r)
    /\ event' = event + 1
    /\ audit' = trail
    /\ End(r)

-----------------------------------------------------------------------------
(* Sign-in and sign-out *)

\* login reads the credential and checks the password and the code against it.
VerifyLogin(r) ==
    /\ pc[r] = "idle"
    /\ cred.pw # 0
    /\ pc' = [pc EXCEPT ![r] = "verified"]
    /\ op' = [op EXCEPT ![r] = "login"]
    /\ seen' = [seen EXCEPT ![r] = cred]
    /\ latch' = TRUE
    /\ UNCHANGED <<cred, sessions, audit, writer, printed, cookie, configured, event, confirmed,
                   late>>

\* create_session, after the read: a password change may have come in between.
InsertSession(r) ==
    /\ pc[r] = "verified"
    /\ Audited(r, audit \cup {event + 1})
    /\ sessions' = sessions \cup {[id |-> event + 1, pw |-> seen[r].pw, expired |-> FALSE]}
    /\ late' = IF seen[r].pw = cred.pw THEN late ELSE late \cup {event + 1}
    /\ UNCHANGED <<cred, latch, printed, confirmed>>

\* The wrong password or code, or no password is set.
RejectLogin(r) ==
    /\ pc[r] = "idle"
    /\ Audited(r, Rejected(audit))
    /\ latch' = (latch \/ cred.pw # 0)
    /\ UNCHANGED <<cred, sessions, printed, confirmed, late>>

Logout(s) ==
    /\ writer = NoRequest
    /\ sessions' = sessions \ {s}
    /\ UNCHANGED <<cred, audit, writer, latch, printed, requestVars, event, confirmed, late>>

\* SESSION_TTL runs out.
Expire(s) ==
    /\ ~s.expired
    /\ sessions' = (sessions \ {s}) \cup {[s EXCEPT !.expired = TRUE]}
    /\ UNCHANGED <<cred, audit, writer, latch, printed, requestVars, event, confirmed, late>>

-----------------------------------------------------------------------------
(* evaluate *)

\* The credential is read: configured says whether a password exists or this
\* process ever saw one.  The cookie of an ended session is like none.
Arrive(r, c) ==
    /\ pc[r] = "idle"
    /\ pc' = [pc EXCEPT ![r] = "arrived"]
    /\ cookie' = [cookie EXCEPT ![r] = c]
    /\ latch' = (latch \/ cred.pw # 0)
    /\ configured' = [configured EXCEPT ![r] = latch']
    /\ UNCHANGED <<cred, sessions, audit, writer, printed, op, seen, event, confirmed, late>>

\* resolve_session: the cookie names a session that has not expired.
SignedIn(r) == \E s \in sessions : s.id = cookie[r] /\ ~s.expired

\* Without a session, only while no password was set: from loopback, or with the
\* token printed in the log.
BootstrapAllowed(r) == ~configured[r] /\ (r \in Local \/ printed)

Evaluate(r) ==
    /\ pc[r] = "arrived"
    /\ IF SignedIn(r) \/ BootstrapAllowed(r)
       THEN /\ pc' = [pc EXCEPT ![r] = "granted"]
            /\ cookie' = [cookie EXCEPT ![r] = IF SignedIn(r) THEN @ ELSE 0]
            /\ configured' = [configured EXCEPT ![r] = FALSE]
            /\ UNCHANGED <<writer, op, seen>>
       ELSE End(r)
    /\ UNCHANGED <<cred, sessions, audit, latch, printed, event, confirmed, late>>

-----------------------------------------------------------------------------
(* Guarded handlers *)

\* Mutant: evaluate does not touch the session's row.
TouchesSession_Never(r) == FALSE

\* A pending last_seen_at is flushed by the handler's first query.
TouchesSession(r) == cookie[r] # 0

\* The first query of handler o, which reads the credential.
Open(r, o) ==
    /\ pc[r] = "granted"
    /\ TouchesSession(r) => writer = NoRequest
    /\ IF TouchesSession(r) /\ cookie[r] \notin Ids
       THEN End(r)
       ELSE /\ pc' = [pc EXCEPT ![r] = "open"]
            /\ seen' = [seen EXCEPT ![r] = cred]
            /\ writer' = IF TouchesSession(r) THEN r ELSE writer
            /\ op' = [op EXCEPT ![r] = o]
            /\ UNCHANGED <<cookie, configured>>
    /\ UNCHANGED <<cred, sessions, audit, latch, printed, event, confirmed, late>>

\* 403: a password exists and the current one is wrong; 422: the new one is too
\* short; 409: no password, nothing to enroll for.
Refuse(r) ==
    /\ pc[r] = "open"
    /\ op[r] = "password" \/ (op[r] = "enroll" /\ seen[r].pw = 0)
    /\ End(r)
    /\ UNCHANGED <<cred, sessions, audit, latch, printed, event, confirmed, late>>

\* set_password reads the credential again and sets the latch before it writes.
FetchCredential(r) ==
    /\ pc[r] = "open"
    /\ op[r] = "password"
    /\ pc' = [pc EXCEPT ![r] = "fetched"]
    /\ seen' = [seen EXCEPT ![r] = cred]
    /\ latch' = TRUE
    /\ UNCHANGED <<cred, sessions, audit, writer, printed, op, cookie, configured, event,
                   confirmed, late>>

\* Mutant: a password change leaves the sessions alone.
SessionsKept_All == sessions

\* revoke_all_sessions.
SessionsKept == {}

\* The credential row is inserted or updated, every session ends, the token is
\* rotated, and the caller gets a session.
ChangePassword(r) ==
    /\ pc[r] = "fetched"
    /\ seen[r].pw = 0 => cred.pw = 0
    /\ Audited(r, audit \cup {event + 1})
    /\ cred' = [cred EXCEPT !.pw = event + 1]
    /\ sessions' = SessionsKept \cup {[id |-> event + 1, pw |-> event + 1, expired |-> FALSE]}
    /\ printed' = FALSE
    /\ UNCHANGED <<latch, confirmed, late>>

\* The insert finds a row by now, or the database fails: all is rolled back but
\* the latch and, when the commit failed, the rotation of the token.  After a
\* first password that ends here the bootstrap is closed until the next start,
\* though no password is stored.
Fail(r) ==
    /\ pc[r] \in {"open", "fetched"}
    /\ End(r)
    /\ printed' \in IF pc[r] = "fetched" THEN {printed, FALSE} ELSE {printed}
    /\ UNCHANGED <<cred, sessions, audit, latch, event, confirmed, late>>

\* An update writes the columns that differ from the row it read.
Column(stored, read, new) == IF read = new THEN stored ELSE new

EnrollTotp(r) ==
    /\ pc[r] = "open"
    /\ op[r] = "enroll"
    /\ seen[r].pw # 0
    /\ Audited(r, audit \cup {event + 1})
    /\ cred' = [cred EXCEPT !.secret = event + 1, !.on = Column(@, seen[r].on, FALSE)]
    /\ UNCHANGED <<sessions, latch, printed, confirmed, late>>

\* The code matches the secret that was read.
ConfirmTotp(r) ==
    /\ pc[r] = "open"
    /\ op[r] = "confirm"
    /\ seen[r].secret # 0
    /\ Audited(r, audit \cup {event + 1})
    /\ cred' = [cred EXCEPT !.on = Column(@, seen[r].on, TRUE)]
    /\ confirmed' = seen[r].secret
    /\ UNCHANGED <<sessions, latch, printed, late>>

\* No enrollment is in progress, or the code does not match.
RejectConfirm(r) ==
    /\ pc[r] = "open"
    /\ op[r] = "confirm"
    /\ Audited(r, Rejected(audit))
    /\ UNCHANGED <<cred, sessions, latch, printed, confirmed, late>>

DisableTotp(r) ==
    /\ pc[r] = "open"
    /\ op[r] = "disable"
    /\ Audited(r, audit \cup {event + 1})
    /\ cred' = [cred EXCEPT !.secret = Column(@, seen[r].secret, 0),
                            !.on = Column(@, seen[r].on, FALSE)]
    /\ UNCHANGED <<sessions, latch, printed, confirmed, late>>

RevokeAll(r) ==
    /\ pc[r] = "open"
    /\ op[r] = "revoke"
    /\ Audited(r, audit \cup {event + 1})
    /\ sessions' = {}
    /\ UNCHANGED <<cred, latch, printed, confirmed, late>>

-----------------------------------------------------------------------------
\* audit.prune: the newest rows are kept.
Trimmed(trail) == {e \in trail : Cardinality({f \in trail : f > e}) < Keep}

\* The process stops or dies and starts again (main.lifespan): a new token is
\* printed, expired sessions and old audit rows go, and the latch is set again
\* if a password is stored.
Restart ==
    /\ latch' = (cred.pw # 0)
    /\ printed' = TRUE
    /\ sessions' = {s \in sessions : ~s.expired}
    /\ audit' = Trimmed(audit)
    /\ writer' = NoRequest
    /\ pc' = [r \in Requests |-> "idle"]
    /\ op' = [r \in Requests |-> "none"]
    /\ cookie' = [r \in Requests |-> 0]
    /\ configured' = [r \in Requests |-> FALSE]
    /\ seen' = [r \in Requests |-> NoCred]
    /\ UNCHANGED <<cred, event, confirmed, late>>

Next ==
    \/ \E r \in Requests :
          \/ VerifyLogin(r) \/ InsertSession(r) \/ RejectLogin(r)
          \/ \E c \in Ids \cup {0} : Arrive(r, c)
          \/ Evaluate(r) \/ (\E o \in Ops : Open(r, o)) \/ Refuse(r) \/ Fail(r)
          \/ FetchCredential(r) \/ ChangePassword(r)
          \/ EnrollTotp(r) \/ ConfirmTotp(r) \/ RejectConfirm(r) \/ DisableTotp(r)
          \/ RevokeAll(r)
    \/ \E s \in sessions : Logout(s) \/ Expire(s)
    \/ Restart

Spec == Init /\ [][Next]_vars

-----------------------------------------------------------------------------
(* Properties *)

\* r's transaction commits in this step.
Commits(r) == pc[r] \in {"open", "fetched"} /\ event' > event /\ pc'[r] = "idle"

\* What a signed-in request changes, it changes while its session exists: a
\* session that is revoked, rotated away or signed out between the check of the
\* cookie and the commit takes its request's changes with it (resolve_session).
EndedSessionsChangeNothing ==
    [][\A r \in Requests : Commits(r) /\ cookie[r] # 0 => cookie[r] \in Ids]_vars

\* Confirming the second factor from a session turns on the very secret the
\* code was checked against, whatever enrollments or removals overlap: else the
\* operator could not sign in again (begin_, confirm_totp_enrollment).
ConfirmsWhatWasChecked ==
    [][\A r \in Requests :
           Commits(r) /\ cookie[r] # 0 /\ op[r] = "confirm" /\ cred'.on /\ ~cred.on
               => cred'.secret = seen[r].secret]_vars

\* A password change ends every session opened with an older one, but those of
\* sign-ins that had checked the old password and not yet stored their session
\* (auth/api.py set_password, login).
OldSessionsEnd == \A s \in sessions : s.pw = cred.pw \/ s.id \in late

\* The trail never misses one of the newest Keep events, be they changes,
\* sign-ins or rejections that end in an exception, over any number of starts
\* (audit.record_and_commit, prune).
AuditKeepsNewest == \A e \in 1..event : e > event - Keep => e \in audit
=============================================================================
