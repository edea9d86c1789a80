------------------------------- MODULE Proxy -------------------------------
(***************************************************************************)
(* The failover loop of the proxy (app/modules/proxy/service.py) running   *)
(* concurrently with the health probes (app/modules/health/service.py) and *)
(* with operators who edit accounts (app/modules/accounts/api.py).         *)
(*                                                                         *)
(* All of them share the accounts table.  Each writer SELECTs a row,       *)
(* changes the object in memory and COMMITs; the commit updates only the   *)
(* columns whose value differs from the one that was read, and fails when  *)
(* the row is gone.  Other coroutines run between the two, so each write   *)
(* is a Load action and a Commit action here.                              *)
(***************************************************************************)
EXTENDS Selection

CONSTANTS
    Requests,            \* client requests; each runs once
    Probers,             \* callers of run_health_probes: the scheduler, POST /probe
    Operator,            \* the management API
    NoWriter,            \* the holder of a free refresh lock
    MaxAttempts, Strategy, Sticky,   \* runtime settings read by forward
    MAX_REFRESH_FAILURES,
    Initial,             \* accounts that exist at the start
    OAuth,               \* accounts with a refresh token and a token endpoint
    Unsupported,         \* accounts whose catalog omits the requested model
    Pinned,              \* the account each request's API key is bound to
    Answers,             \* what the upstream may answer to a request
    HeaderChoices,       \* rate-limit headers a response may carry
    RetryAfters,         \* retry-after values a 429 may carry
    OperatorChanges,     \* what operators do in this instance
    HealthChanges        \* whether the state of a credential may change

Writers == Requests \cup Probers \cup {Operator}

\* "relay": a success or a client error; "limited": 429; "error": any other
\* retryable status; "transport": no response; "rejected": 401 or 403; "broken":
\* any of these, but the connection breaks in the body.
AllAnswers == {"relay", "limited", "error", "transport", "rejected", "broken"}
AllChanges == {"enable", "disable", "token", "delete", "create"}

ASSUME WritersAssumption ==
    /\ IsFiniteSet(Requests)
    /\ Requests \cap Probers = {}
    /\ Operator \notin Requests \cup Probers
    /\ NoWriter \notin Writers
ASSUME SetupAssumption ==
    /\ MaxAttempts \in Nat \ {0}
    /\ MAX_REFRESH_FAILURES \in Nat \ {0}
    /\ Strategy \in Strategies
    /\ Sticky \in BOOLEAN
    /\ HealthChanges \in BOOLEAN
    /\ Initial \subseteq Accounts
    /\ OAuth \subseteq Accounts
    /\ Unsupported \subseteq Accounts
    /\ Pinned \in [Requests -> Accounts \cup {NoAccount}]
    /\ Answers \subseteq AllAnswers
    /\ HeaderChoices \subseteq Headers
    /\ RetryAfters \subseteq Time
    /\ OperatorChanges \subseteq AllChanges

VARIABLES
    live,      \* whether a row exists, has been deleted, or is yet to come
    req,       \* the local state of forward, for each request
    sess,      \* the open transaction of each writer on each account
    lock,      \* the refresh lock of each account
    round,     \* the probe round of each prober
    health,    \* what the upstream thinks of each stored credential
    sends,     \* history: how often a request was sent with an account
    usable     \* history: accounts usable ever since a request first selected

vars == <<row, live, req, sess, lock, round, health, rr, sends, usable>>

-----------------------------------------------------------------------------
(* Transactions on the accounts table *)

\* "stamp" stands for the timestamp and credential columns, which steer nothing
\* here but make an UPDATE necessary.
Columns == {"enabled", "failures", "reason", "cooldown", "requests", "tokens",
            "reset", "refreshFailures", "total", "stamp"}

Blank == FreshRow(FALSE)

Overlay(base, new, cols) ==
    [enabled |-> IF "enabled" \in cols THEN new.enabled ELSE base.enabled,
     failures |-> IF "failures" \in cols THEN new.failures ELSE base.failures,
     reason |-> IF "reason" \in cols THEN new.reason ELSE base.reason,
     cooldown |-> IF "cooldown" \in cols THEN new.cooldown ELSE base.cooldown,
     requests |-> IF "requests" \in cols THEN new.requests ELSE base.requests,
     tokens |-> IF "tokens" \in cols THEN new.tokens ELSE base.tokens,
     reset |-> IF "reset" \in cols THEN new.reset ELSE base.reset,
     refreshFailures |-> IF "refreshFailures" \in cols
                         THEN new.refreshFailures ELSE base.refreshFailures,
     total |-> IF "total" \in cols THEN new.total ELSE base.total]

Changed(old, new) == {c \in DOMAIN old : old[c] # new[c]}

NoSession == [open |-> FALSE, cols |-> {}, new |-> Blank]

\* The unit of work: the columns to write and their values.
Writing(old, new, stamped) ==
    LET cols == Changed(old, new) \cup IF stamped THEN {"stamp"} ELSE {}
    IN  [open |-> TRUE, cols |-> cols, new |-> Overlay(Blank, new, cols)]

Committed(a, s) == Overlay(row[a], s.new, s.cols)

Present == {a \in Accounts : live[a] = "live"}

-----------------------------------------------------------------------------
(* The local state of a request *)

PCs == {"select", "resolve", "refresh", "grant", "send", "fail", "failcommit",
        "success", "successcommit", "record", "done"}
Results == {"none", "relayed", "attempts_spent", "accounts_spent", "unavailable",
            "vanished", "broken", "crashed"}
Faults == {"none", "auth", "limited", "error", "broken"}

NewRequest ==
    [pc |-> "select", attempt |-> 1, acct |-> NoAccount, tried |-> {},
     reauthed |-> {}, forced |-> FALSE, fault |-> "none", retryAfter |-> NoTime,
     headers |-> NoHeaders, result |-> "none"]

Finish(q, result) ==
    [q EXCEPT !.pc = IF result \in {"broken", "crashed"} THEN "done" ELSE "record",
              !.result = result, !.acct = IF result = "relayed" THEN @ ELSE NoAccount,
              !.forced = FALSE, !.fault = "none", !.retryAfter = NoTime,
              !.headers = NoHeaders]

\* Mutant: one attempt too many.
Continue_OneMore(q) ==
    IF q.attempt > MaxAttempts
    THEN Finish(q, "attempts_spent")
    ELSE [q EXCEPT !.pc = "select", !.attempt = @ + 1, !.acct = NoAccount,
                   !.forced = FALSE, !.fault = "none", !.retryAfter = NoTime,
                   !.headers = NoHeaders]

\* `continue`: the next attempt, or the end of the loop.
Continue(q) ==
    IF q.attempt = MaxAttempts
    THEN Finish(q, "attempts_spent")
    ELSE [q EXCEPT !.pc = "select", !.attempt = @ + 1, !.acct = NoAccount,
                   !.forced = FALSE, !.fault = "none", !.retryAfter = NoTime,
                   !.headers = NoHeaders]

Fail(q, fault, retryAfter, headers) ==
    [q EXCEPT !.pc = "fail", !.fault = fault, !.retryAfter = retryAfter,
              !.headers = headers, !.forced = FALSE]

-----------------------------------------------------------------------------
Request ==
    [pc : PCs, attempt : 1..MaxAttempts, acct : Accounts \cup {NoAccount},
     tried : SUBSET Accounts, reauthed : SUBSET Accounts, forced : BOOLEAN,
     fault : Faults, retryAfter : Time, headers : Headers,
     result : Results]

Session == [open : BOOLEAN, cols : SUBSET Columns, new : Row]

Round == [phase : {"idle", "probing", "folding"}, targets : SUBSET Accounts,
          loaded : SUBSET Accounts, verdict : [Accounts -> {"none", "ok", "auth", "error"}]]

\* From selecting an account to having done with it a request has one, and what
\* it records as a failure is one.
WellFormed(q) ==
    /\ q.pc \notin {"select", "record", "done"} => q.acct \in Accounts
    /\ q.pc = "fail" => q.fault \in {"auth", "limited", "error"}

TypeOK ==
    /\ row \in [Accounts -> Row]
    /\ live \in [Accounts -> {"absent", "live", "deleted"}]
    /\ req \in [Requests -> Request]
    /\ \A r \in Requests : WellFormed(req[r])
    /\ sess \in [Writers -> [Accounts -> Session]]
    /\ lock \in [Accounts -> Requests \cup {NoWriter}]
    /\ round \in [Probers -> Round]
    /\ health \in [Accounts -> {"good", "revoked", "down"}]
    /\ rr \in 0..(RRPeriod - 1)
    /\ sends \in [Requests -> [Accounts -> Nat]]
    /\ usable \in [Requests -> SUBSET Accounts]

NoRound == [phase |-> "idle", targets |-> {}, loaded |-> {},
            verdict |-> [a \in Accounts |-> "none"]]

Init ==
    /\ row = [a \in Accounts |-> FreshRow(a \in Initial)]
    /\ live = [a \in Accounts |-> IF a \in Initial THEN "live" ELSE "absent"]
    /\ req = [r \in Requests |-> NewRequest]
    /\ sess = [w \in Writers |-> [a \in Accounts |-> NoSession]]
    /\ lock = [a \in Accounts |-> NoWriter]
    /\ round = [p \in Probers |-> NoRound]
    /\ health = [a \in Accounts |-> "good"]
    /\ rr = 0
    /\ sends = [r \in Requests |-> [a \in Accounts |-> 0]]
    /\ usable = [r \in Requests |-> {}]

-----------------------------------------------------------------------------
(* History *)

\* The accounts that could serve request r now.
UsableNow(r) ==
    {a \in Available(row, Present \ Unsupported) : Pinned[r] \in {NoAccount, a}}

\* History: start when the request first selects, then keep what stays usable.
Observe ==
    usable' = [r \in Requests |->
        CASE req'[r].pc = "done" -> {}
          [] req'[r].pc # "done" /\ req[r].pc = "select" /\ req[r].attempt = 1
                -> UsableNow(r)'
          [] OTHER -> usable[r] \cap UsableNow(r)']

-----------------------------------------------------------------------------
(* forward: one client request *)

\* Mutant: the membership test is inverted.
FilterByModel_Inverted(accounts) ==
    IF accounts \cap Unsupported = {} THEN accounts ELSE accounts \cap Unsupported

\* Accounts known not to serve the model are dropped, unless that drops all.
FilterByModel(accounts) ==
    IF accounts \ Unsupported = {} THEN accounts ELSE accounts \ Unsupported

\* Session affinity, on the first attempt only: any available account, or none
\* when the request has no session key.
Preferences(q, accounts) ==
    {NoAccount} \cup IF Sticky /\ q.attempt = 1 THEN Available(row, accounts) ELSE {}

\* Pick an account and put it on the tried list; when there is none, stop.
Select(r) ==
    LET q == req[r]
        accounts == FilterByModel(Present)
    IN  /\ q.pc = "select"
        /\ \E preferred \in Preferences(q, accounts) :
             LET choices == SelectAccount(row, accounts, q.tried, Pinned[r],
                                          preferred, Strategy, rr)
             IN  /\ \/ \E a \in choices :
                         req' = [req EXCEPT ![r].pc = "resolve", ![r].acct = a,
                                            ![r].tried = @ \cup {a}]
                    \/ /\ choices = {}
                       /\ req' = [req EXCEPT ![r] = Finish(@,
                              IF q.tried = {} THEN "unavailable" ELSE "accounts_spent")]
                 /\ rr' = IF UsesCounter(row, accounts, q.tried, Pinned[r],
                                         preferred, Strategy)
                          THEN (rr + 1) % RRPeriod ELSE rr
        /\ UNCHANGED <<row, live, sess, lock, round, health, sends>>
        /\ Observe

\* credentials.resolve: use the token read with the account, or refresh it when
\* it is due.
Resolve(r) ==
    /\ req[r].pc = "resolve"
    /\ \/ req' = [req EXCEPT ![r].pc = "send"]
       \/ /\ req[r].acct \in OAuth
          /\ req' = [req EXCEPT ![r].pc = "refresh"]
    /\ UNCHANGED <<row, live, sess, lock, round, health, rr, sends>>
    /\ Observe

\* Mutant: the refresh lock is ignored.
MayEnter_Always(a) == TRUE

\* The refresh lock of the account can be taken.
MayEnter(a) == lock[a] = NoWriter

\* Mutant: the refresh lock is not released.
LockAfterGrant_Held(a) == lock[a]

LockAfterGrant(a) == NoWriter

\* Mutant: CredentialError is not caught.
RefreshFailed_Uncaught(q) == Finish(q, "crashed")

\* What forward does when refresh returns, and when it raises CredentialError.
Refreshed(q) == IF q.forced THEN Continue(q) ELSE [q EXCEPT !.pc = "send"]

RefreshFailed(q) ==
    IF q.forced
    THEN Fail([q EXCEPT !.tried = @ \cup {q.acct}], "auth", NoTime, NoHeaders)
    ELSE Fail(q, "error", NoTime, NoHeaders)

\* credentials.refresh, inside the lock: the account is gone, its token has been
\* replaced meanwhile, or a grant is made.  Module OAuthRefresh has the tokens.
RefreshLoad(r) ==
    LET a == req[r].acct
    IN  /\ req[r].pc = "refresh"
        /\ MayEnter(a)
        /\ \/ /\ live[a] # "live"
              /\ req' = [req EXCEPT ![r] = RefreshFailed(@)]
              /\ UNCHANGED <<sess, lock>>
           \/ /\ live[a] = "live"
              /\ req' = [req EXCEPT ![r] = Refreshed(@)]
              /\ UNCHANGED <<sess, lock>>
           \/ /\ live[a] = "live"
              /\ req' = [req EXCEPT ![r].pc = "grant"]
              /\ sess' = [sess EXCEPT ![r][a] =
                              [open |-> TRUE, cols |-> {}, new |-> row[a]]]
              /\ lock' = [lock EXCEPT ![a] = r]
        /\ UNCHANGED <<row, live, round, health, rr, sends>>
        /\ Observe

GrantSucceeded(account) == [account EXCEPT !.refreshFailures = 0]

GrantFailed(account) ==
    IF account.refreshFailures + 1 < MAX_REFRESH_FAILURES
    THEN [account EXCEPT !.refreshFailures = @ + 1]
    ELSE [account EXCEPT !.refreshFailures = @ + 1, !.enabled = FALSE,
                         !.reason = "refresh"]

\* The token endpoint answers; the outcome is committed and the lock released.
GrantReply(r) ==
    LET a == req[r].acct
        old == sess[r][a].new
    IN  /\ req[r].pc = "grant"
        /\ \E ok \in BOOLEAN :
             LET new == IF ok THEN GrantSucceeded(old) ELSE GrantFailed(old)
             IN  IF live[a] = "live"
                 THEN /\ row' = [row EXCEPT ![a] = Committed(a, Writing(old, new, TRUE))]
                      /\ req' = [req EXCEPT ![r] =
                                    IF ok THEN Refreshed(@) ELSE RefreshFailed(@)]
                 ELSE /\ req' = [req EXCEPT ![r] = Finish(@, "crashed")]
                      /\ UNCHANGED row
        /\ sess' = [sess EXCEPT ![r][a] = NoSession]
        /\ lock' = [lock EXCEPT ![a] = LockAfterGrant(a)]
        /\ UNCHANGED <<live, round, health, rr, sends>>
        /\ Observe

\* The request goes upstream with account acct; q is its state once answered.
Answered(r, q) ==
    /\ req[r].pc = "send"
    /\ req' = [req EXCEPT ![r] = q]
    /\ sends' = [sends EXCEPT ![r][req[r].acct] = @ + 1]
    /\ UNCHANGED <<row, live, sess, lock, round, health, rr>>
    /\ Observe

\* The body is read after the account is credited with the success, so a
\* connection that breaks in it is noticed only then.
AnswerRelay(r) ==
    /\ "relay" \in Answers
    /\ \E h \in HeaderChoices, fault \in {"none", "broken"} :
         /\ fault = "broken" => "broken" \in Answers
         /\ Answered(r, [req[r] EXCEPT !.pc = "success", !.headers = h, !.fault = fault])

\* The connection breaks while the body of a 401, 403 or retryable answer is
\* read; nothing catches that.
AnswerBroken(r) ==
    /\ "broken" \in Answers
    /\ Answered(r, Finish(req[r], "broken"))

AnswerLimited(r) ==
    /\ "limited" \in Answers
    /\ \E h \in HeaderChoices, w \in RetryAfters :
         Answered(r, Fail(req[r], "limited", w, h))

AnswerError(r) ==
    /\ "error" \in Answers
    /\ \E h \in HeaderChoices : Answered(r, Fail(req[r], "error", NoTime, h))

AnswerTransport(r) ==
    /\ "transport" \in Answers
    /\ Answered(r, Fail(req[r], "error", NoTime, NoHeaders))

\* Mutant: every rejection is worth a refresh.
CanReauth_Again(q) == q.acct \in OAuth

\* can_retry_after_auth_failure, once per account.
CanReauth(q) == q.acct \in OAuth /\ q.acct \notin q.reauthed

\* One forced refresh per account and request; after that the account is failed.
AnswerRejected(r) ==
    LET q == req[r]
    IN  /\ "rejected" \in Answers
        /\ Answered(r, IF CanReauth(q)
                       THEN [q EXCEPT !.pc = "refresh", !.forced = TRUE,
                                      !.reauthed = @ \cup {q.acct},
                                      !.tried = @ \ {q.acct}]
                       ELSE Fail(q, "auth", NoTime, NoHeaders))

\* _record_attempt_failure
LoadFailure(r) ==
    LET q == req[r]
        a == q.acct
        new == RecordFailure(ApplyRateLimitHeaders(row[a], q.headers), q.fault, q.retryAfter)
    IN  /\ q.pc = "fail"
        /\ IF live[a] = "live"
           THEN /\ sess' = [sess EXCEPT ![r][a] =
                                Writing(row[a], new, q.headers # NoHeaders)]
                /\ req' = [req EXCEPT ![r].pc = "failcommit"]
           ELSE /\ req' = [req EXCEPT ![r] = Continue(@)]
                /\ UNCHANGED sess
        /\ UNCHANGED <<row, live, lock, round, health, rr, sends>>
        /\ Observe

CommitFailure(r) ==
    LET a == req[r].acct
    IN  /\ req[r].pc = "failcommit"
        /\ IF live[a] = "live"
           THEN /\ row' = [row EXCEPT ![a] = Committed(a, sess[r][a])]
                /\ req' = [req EXCEPT ![r] = Continue(@)]
           ELSE /\ req' = [req EXCEPT ![r] =
                              IF sess[r][a].cols = {} THEN Continue(@)
                                                      ELSE Finish(@, "crashed")]
                /\ UNCHANGED row
        /\ sess' = [sess EXCEPT ![r][a] = NoSession]
        /\ UNCHANGED <<live, lock, round, health, rr, sends>>
        /\ Observe

\* _refresh_account
LoadSuccess(r) ==
    LET q == req[r]
        a == q.acct
    IN  /\ q.pc = "success"
        /\ IF live[a] = "live"
           THEN /\ sess' = [sess EXCEPT ![r][a] = Writing(row[a],
                        RecordSuccess(ApplyRateLimitHeaders(row[a], q.headers)), TRUE)]
                /\ req' = [req EXCEPT ![r].pc = "successcommit"]
           ELSE /\ req' = [req EXCEPT ![r] = Finish(@, "vanished")]
                /\ UNCHANGED sess
        /\ UNCHANGED <<row, live, lock, round, health, rr, sends>>
        /\ Observe

CommitSuccess(r) ==
    LET a == req[r].acct
    IN  /\ req[r].pc = "successcommit"
        /\ IF live[a] = "live"
           THEN /\ row' = [row EXCEPT ![a] = Committed(a, sess[r][a])]
                /\ req' = [req EXCEPT ![r] =
                              Finish(@, IF @.fault = "broken" THEN "broken" ELSE "relayed")]
           ELSE /\ req' = [req EXCEPT ![r] = Finish(@, "crashed")]
                /\ UNCHANGED row
        /\ sess' = [sess EXCEPT ![r][a] = NoSession]
        /\ UNCHANGED <<live, lock, round, health, rr, sends>>
        /\ Observe

\* record_request: the counters of the account that served.  The log row it
\* inserts first takes the database's write lock, so it is one step.
Record(r) ==
    LET a == req[r].acct
    IN  /\ req[r].pc = "record"
        /\ req' = [req EXCEPT ![r].pc = "done"]
        /\ row' = IF a # NoAccount /\ live[a] = "live"
                  THEN [row EXCEPT ![a].total = @ + 1] ELSE row
        /\ UNCHANGED <<live, sess, lock, round, health, rr, sends>>
        /\ Observe

RequestStep(r) ==
    \/ Select(r)
    \/ Resolve(r)
    \/ RefreshLoad(r)
    \/ GrantReply(r)
    \/ AnswerRelay(r)
    \/ AnswerBroken(r)
    \/ AnswerLimited(r)
    \/ AnswerError(r)
    \/ AnswerTransport(r)
    \/ AnswerRejected(r)
    \/ LoadFailure(r)
    \/ CommitFailure(r)
    \/ LoadSuccess(r)
    \/ CommitSuccess(r)
    \/ Record(r)

-----------------------------------------------------------------------------
(* run_health_probes *)

NeedsProbe(account) ==
    \/ ~account.enabled
    \/ account.cooldown = 0
    \/ account.cooldown = NoTime /\ account.failures > 0

ProbeStart(p) ==
    LET targets == {a \in Present : NeedsProbe(row[a])}
    IN  /\ round[p].phase = "idle"
        /\ targets # {}
        /\ round' = [round EXCEPT ![p].phase = "probing", ![p].targets = targets]
        /\ UNCHANGED <<row, live, req, sess, lock, health, rr, sends>>
        /\ Observe

Verdict(a) == CASE health[a] = "good" -> "ok"
                [] health[a] = "revoked" -> "auth"
                [] health[a] = "down" -> "error"

ProbeAnswer(p, a) ==
    /\ round[p].phase = "probing"
    /\ a \in round[p].targets
    /\ round[p].verdict[a] = "none"
    /\ LET verdict == [round[p].verdict EXCEPT ![a] = Verdict(a)]
       IN  round' = [round EXCEPT
             ![p].verdict = verdict,
             ![p].phase = IF \E b \in round[p].targets : verdict[b] = "none"
                          THEN "probing" ELSE "folding"]
    /\ UNCHANGED <<row, live, req, sess, lock, health, rr, sends>>
    /\ Observe

\* Mutant: a good answer clears the breaker but leaves the account disabled.
Fold_BreakerOnly(account, verdict) ==
    CASE verdict = "ok" -> RecordSuccess(account)
      [] verdict = "auth" -> [account EXCEPT !.enabled = FALSE, !.reason = "probe"]
      [] OTHER -> account

\* An account that answers is enabled again, whoever disabled it.
Fold(account, verdict) ==
    CASE verdict = "ok" -> RecordSuccess([account EXCEPT !.enabled = TRUE])
      [] verdict = "auth" -> [account EXCEPT !.enabled = FALSE, !.reason = "probe"]
      [] OTHER -> account

FoldLoad(p, a) ==
    /\ round[p].phase = "folding"
    /\ a \in round[p].targets \ round[p].loaded
    /\ round' = [round EXCEPT ![p].loaded = @ \cup {a}]
    /\ sess' = IF live[a] = "live"
               THEN [sess EXCEPT ![p][a] =
                        Writing(row[a], Fold(row[a], round[p].verdict[a]), TRUE)]
               ELSE sess
    /\ UNCHANGED <<row, live, req, lock, health, rr, sends>>
    /\ Observe

\* One transaction for the whole round: a row deleted meanwhile discards it all.
FoldCommit(p) ==
    LET open == {a \in Accounts : sess[p][a].open}
    IN  /\ round[p].phase = "folding"
        /\ round[p].loaded = round[p].targets
        /\ row' = IF open \subseteq Present
                  THEN [a \in Accounts |-> IF a \in open THEN Committed(a, sess[p][a])
                                                         ELSE row[a]]
                  ELSE row
        /\ round' = [round EXCEPT ![p] = NoRound]
        /\ sess' = [sess EXCEPT ![p] = [a \in Accounts |-> NoSession]]
        /\ UNCHANGED <<live, req, lock, health, rr, sends>>
        /\ Observe

ProbeStep(p) ==
    \/ ProbeStart(p)
    \/ \E a \in Accounts : ProbeAnswer(p, a) \/ FoldLoad(p, a)
    \/ FoldCommit(p)

-----------------------------------------------------------------------------
(* Operators, the upstream's view of the credentials, and time *)

\* Re-enabling clears the breaker; a new refresh token clears its failures.
Patched(account, change) ==
    CASE change = "enable" -> [account EXCEPT !.enabled = TRUE, !.reason = "none",
                                              !.cooldown = NoTime, !.failures = 0]
      [] change = "disable" -> [account EXCEPT !.enabled = FALSE]
      [] change = "token" -> [account EXCEPT !.refreshFailures = 0]

\* One PATCH is under way at a time.
UpdateLoad(a) ==
    /\ live[a] = "live"
    /\ \A b \in Accounts : ~sess[Operator][b].open
    /\ \E change \in OperatorChanges \ {"delete", "create"} :
         sess' = [sess EXCEPT ![Operator][a] =
                     Writing(row[a], Patched(row[a], change), change = "token")]
    /\ UNCHANGED <<row, live, req, lock, round, health, rr, sends>>
    /\ Observe

UpdateCommit(a) ==
    /\ sess[Operator][a].open
    /\ row' = IF live[a] = "live"
              THEN [row EXCEPT ![a] = Committed(a, sess[Operator][a])] ELSE row
    /\ sess' = [sess EXCEPT ![Operator][a] = NoSession]
    /\ UNCHANGED <<live, req, lock, round, health, rr, sends>>
    /\ Observe

Delete(a) ==
    /\ "delete" \in OperatorChanges
    /\ live[a] = "live"
    /\ live' = [live EXCEPT ![a] = "deleted"]
    /\ row' = [row EXCEPT ![a] = Blank]
    /\ UNCHANGED <<req, sess, lock, round, health, rr, sends>>
    /\ Observe

Create(a) ==
    /\ "create" \in OperatorChanges
    /\ live[a] = "absent"
    /\ live' = [live EXCEPT ![a] = "live"]
    /\ \E enabled \in BOOLEAN : row' = [row EXCEPT ![a] = FreshRow(enabled)]
    /\ UNCHANGED <<req, sess, lock, round, health, rr, sends>>
    /\ Observe

HealthChange(a) ==
    /\ HealthChanges
    /\ \E h \in {"good", "revoked", "down"} \ {health[a]} :
         health' = [health EXCEPT ![a] = h]
    /\ UNCHANGED <<row, live, req, sess, lock, round, rr, sends>>
    /\ Observe

\* One unit of time passes for every timestamp, stored or held in memory.
Tick ==
    /\ row' = [a \in Accounts |-> Aged(row[a])]
    /\ sess' = [w \in Writers |-> [a \in Accounts |->
                    [sess[w][a] EXCEPT !.new = Aged(@)]]]
    /\ req' = [r \in Requests |-> [req[r] EXCEPT !.headers.reset = Later(@)]]
    /\ <<row, sess, req>>' # <<row, sess, req>>
    /\ UNCHANGED <<live, lock, round, health, rr, sends>>
    /\ Observe

Done ==
    /\ \A r \in Requests : req[r].pc = "done"
    /\ UNCHANGED <<row, live, req, sess, lock, round, health, rr, sends>>
    /\ Observe

Next ==
    \/ \E r \in Requests : RequestStep(r)
    \/ \E p \in Probers : ProbeStep(p)
    \/ \E a \in Accounts : UpdateLoad(a) \/ UpdateCommit(a)
    \/ \E a \in Accounts : Delete(a) \/ Create(a)
    \/ \E a \in Accounts : HealthChange(a)
    \/ Tick
    \/ Done


\* A coroutine that can run is run; upstream calls end by an answer or a timeout.
RequestFairness == \A r \in Requests : WF_vars(RequestStep(r))
\* The scheduler's loop never ends, and time passes.
ProbeFairness == \A p \in Probers : WF_vars(ProbeStep(p))
TimeFairness == WF_vars(Tick)

Spec == Init /\ [][Next]_vars
FairSpec == Spec /\ RequestFairness /\ ProbeFairness /\ TimeFairness

-----------------------------------------------------------------------------
(* What holds *)

\* The loop never burns an account twice: within one client request each
\* account is sent upstream once, and a second time only after its one forced
\* refresh, whatever other requests, probes and operators do to the rows
\* (service.py, tried and reauthed).
OneSendPerAccount ==
    \A r \in Requests, a \in Accounts :
        sends[r][a] <= IF a \in req[r].reauthed THEN 2 ELSE 1

\* A request that fails with attempts to spare has tried every account that
\* supported its model and stayed usable ever since its first selection: no
\* account is skipped because of the order of failures, of a re-authentication
\* that took it off the tried list, or of a change of the pool.
FailsOnlyAfterTryingUsable ==
    \A r \in Requests :
        req[r].pc = "record" /\ req[r].result \in {"accounts_spent", "unavailable"}
            => usable[r] \subseteq req[r].tried

\* The bookkeeping of an attempt breaks a request only when an operator deleted
\* an account under it.  (A connection that breaks in the body is another result.)
CrashesOnlyOnDelete ==
    \A r \in Requests :
        req[r].result \in {"crashed", "vanished"}
            => \E a \in Accounts : live[a] = "deleted"

\* The token endpoint is called for an account by one request at a time, and
\* that request holds the account's lock with a transaction open on its row.
GrantHoldsLock ==
    \A r \in Requests, a \in Accounts :
        lock[a] = r <=> req[r].pc = "grant" /\ req[r].acct = a

\* This step folds a probe verdict into an account, or commits a PATCH.
FoldsIn(a, verdict) ==
    \E p \in Probers : /\ round[p].phase = "folding" /\ round'[p].phase = "idle"
                       /\ round[p].verdict[a] = verdict
Patches(a) == sess[Operator][a].open /\ ~sess'[Operator][a].open

\* What moves account a into rotation or out of it in this step is entitled to.
Entitled(a) ==
    /\ ~row[a].enabled /\ row'[a].enabled => FoldsIn(a, "ok") \/ Patches(a)
    /\ row[a].enabled /\ ~row'[a].enabled =>
          \/ FoldsIn(a, "auth") \/ Patches(a)
          \/ \E r \in Requests :
                /\ req[r].acct = a
                /\ req'[r].pc # req[r].pc
                /\ \/ req[r].pc = "failcommit" /\ req[r].fault = "auth"
                   \/ /\ req[r].pc = "grant"
                      /\ sess[r][a].new.refreshFailures + 1 >= MAX_REFRESH_FAILURES

\* Which commits move an account in and out of rotation.  Only a probe that
\* was answered 200 and an operator enable one; only a rejected credential, a
\* tripped refresh breaker, a probe and an operator disable one.  Rate limits
\* and server errors never do, even when the commit was computed from a stale
\* read of the row.
RotationLedger ==
    [][\A a \in Accounts : live[a] = "live" /\ live'[a] = "live" => Entitled(a)]_vars

\* How far a request has come, for a client who sees no rows and transactions.
Course(q) ==
    CASE q.pc = "select" -> "choosing"
      [] q.pc \in {"resolve", "send"} -> "holding"
      [] q.pc \in {"refresh", "grant"} -> IF q.forced THEN "renewing" ELSE "holding"
      [] q.pc \in {"fail", "failcommit"} -> "failed"
      [] q.pc \in {"success", "successcommit"} -> "served"
      [] q.pc \in {"record", "done"} -> "over"

Trip(q) ==
    [course |-> Course(q), attempt |-> q.attempt,
     account |-> IF Course(q) \in {"choosing", "over"} THEN NoAccount ELSE q.acct,
     tried |-> q.tried, renewed |-> q.reauthed, outcome |-> q.result]

Trips == [r \in Requests |-> Trip(req[r])]

Loop == INSTANCE Failover WITH trip <- Trips

\* Whatever other requests, probes, operators and the credentials do: a request
\* asks the upstream at most once in each of at most MaxAttempts attempts, never
\* with an account it has tried unless its credential was renewed for it, once;
\* and the outcome it reports is the one its attempts had.
IsFailover == Loop!Spec

\* Every request ends, whatever the upstream and the other writers do.
Termination == \A r \in Requests : <>(req[r].pc = "done")

\* While health_probe_enabled is on (its default): an account whose stored
\* credential the upstream accepts, and which operators leave alone, from some
\* time on gets back into rotation and stays there, however it was disabled or
\* cooled down, and whatever stale probe verdicts are still to be folded in
\* (README, Self-healing).
Recovery ==
    \A a \in Accounts :
        <>[](live[a] = "live" /\ health[a] = "good" /\ ~sess[Operator][a].open)
            => <>[]IsAvailable(row[a])

-----------------------------------------------------------------------------
(* What the documentation says and the code does not do *)

\* README, failure handling, 429: "Cool down until retry-after".  A running
\* cooldown is not cancelled.
CooldownHonoured ==
    [][\A a \in Accounts : live[a] = "live" /\ row[a].cooldown > 0
            => row'[a].cooldown # NoTime]_vars
=============================================================================
