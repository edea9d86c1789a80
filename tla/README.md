# Verification of claude-lb

TLA+ specifications of claude-lb, a proxy that spreads API traffic over a pool
of upstream accounts: models translated from the source under `src/`, TLC
configurations that check them on small instances, and TLAPS proofs of what
matters most for every instance. Paths below are relative to `src/app/` unless
they start with `src/`.

## 1. The system

One asyncio process serves three kinds of work that share a SQL database
(SQLite by default, PostgreSQL optionally) and a few module-level variables:
client requests on `/v1/...`, background tasks of the scheduler, and the
management API with its dashboard and command line. There are no threads;
coroutines interleave at every `await`, that is, at every database access and
every upstream call.

| component | state | operations | interacts with |
|---|---|---|---|
| Account selection and breaker, `modules/proxy/load_balancer.py` | per account: enabled, failures, reason, cooldown, rate-limit buckets and reset; the round-robin counter | `select_account`, `apply_rate_limit_headers`, `record_success`, `record_failure` | called by the failover loop, the probes and affinity |
| Failover loop, `modules/proxy/service.py`, `api.py` | locals of `forward`: attempt, tried, reauthed, last status and body | `forward`, `_refresh_account`, `_record_attempt_failure`, `record_request` | selects accounts, resolves credentials, writes account rows |
| OAuth credentials, `modules/accounts/credentials.py` | per account: access and refresh token, expiry, refresh failures; one lock per account in memory | `resolve`, `refresh` | called by `forward`; calls the token endpoint |
| Account management, `modules/accounts/api.py` | the account rows | create, PATCH, delete | races with everything above |
| Health probes, `modules/health/service.py` | last probe, model catalog | `run_health_probes`, `sync_model_catalog`, `Scheduler` | re-enable and disable accounts |
| Session affinity, `modules/proxy/sticky.py` | bounded map from key to account and expiry | `resolve`, `remember` | a hint to selection |
| Runtime settings, `modules/settings/service.py` | rows and a process-wide cache with a TTL | `load`, `update`, `reset` | read by `forward` and the scheduler |
| Usage, `modules/usage/` | request log, daily rollups | `apply`, `backfill`, `prune_request_logs`, reports | written at the end of a request |
| Client keys, `modules/api_keys/` | keys, budgets, pins | `authenticate` | reads the request log |
| Dashboard authentication, `modules/auth/` | password, TOTP, sessions, a latch in memory | login, bootstrap | guards the management API |
| OAuth login, `modules/accounts/oauth_flow.py` | pending logins | start, finish | creates accounts |
| Audit, `modules/audit/` | append-only rows | record, prune | written by management |
| Database, `db/` | sessions, schema | `session_scope`, `reconcile` | used by all |
| Lifecycle, command line, crypto, pricing, TOTP, parsing | none of their own | pure functions and wiring | |

What is hard here:

- *Read, decide, write.* Each writer SELECTs a row, changes the object in
  memory and commits. The commit updates only the columns that changed. Two
  writers that overlap mix two decisions in one row, and an increment is lost.
- *Stale answers.* An upstream answer or a probe verdict is applied to a row
  that other coroutines changed while it was on its way.
- *Rows that vanish.* An operator deletes an account between two steps of a
  request, or of a probe round.
- *A shared credential.* Many requests find the same OAuth token due or
  rejected at once, refresh tokens may rotate on use, replies get lost, and the
  process may crash between the grant and the commit.
- *The failover loop itself.* Attempts, tried accounts and one forced refresh
  per account must together neither skip a usable account nor use one twice.
- *Caches and maps in the process.* The settings cache, the affinity map and the
  latch of the bootstrap live beside the database and change at other moments
  than it does; a restart empties them.
- *Sums kept twice.* Usage is in the log, in daily buckets and in totals, and each is
  cut, rebuilt or read at its own time.
- *Checks long before their use.* A budget, the name of an account, a session or the
  secret of a second factor is checked in one transaction and relied on in another.

PROJECT.json lists these hazards line by line, each with the properties that
cover it or the reason why none does yet.

## 2. Modules

| module | models | kind |
|---|---|---|
| `LoadBalancer` | `load_balancer.py` | operators on account rows, no state of its own |
| `Selection` | the rows and the counter `select_account` reads, and what it promises in every state | variables and properties, extends `LoadBalancer` |
| `Proxy` | `forward`, the probes and the management of accounts over shared rows | state machine, extends `Selection` |
| `Failover` | what `forward` promises of each request, without rows, transactions, tokens or strategies | abstract specification, implemented by `Proxy` |
| `OAuthRefresh` | `credentials.py` for one account, with provider and crashes | state machine |
| `SingleFlight` | what a refresh promises to the requests that use an account | abstract specification, implemented by `OAuthRefresh` |
| `Usage` | client keys and their budget, request log, rollups, totals, pruning, backfill, reports | state machine |
| `SettingsCache` | `settings/` in several worker processes | state machine |
| `AuthGate` | `auth/`, `audit/` and the startup in `main.py` | state machine |
| `Sticky` | `sticky.py` around the requests that use it | state machine |
| `ModelCatalog` | the sync rounds, the scheduler's loop and the readers of the catalog | state machine |
| `OAuthLogin` | `oauth_flow.py` and `account login` | state machine |
| `MCLoadBalancer` | all calls of `select_account` on three accounts | instance of `Selection` whose rows are any |
| `MCProxy`, `MCOAuthRefresh`, `MCUsage`, `MCSettingsCache`, `MCAuthGate`, `MCSticky`, `MCModelCatalog`, `MCOAuthLogin` | small instances | definitions for the configurations |
| `ProxyProofs`, `OAuthRefreshProofs`, `UsageProofs`, `SettingsCacheProofs`, `AuthGateProofs`, `StickyProofs`, `ModelCatalogProofs`, `OAuthLoginProofs` | theorems, one module per state machine | TLAPS |

Operators named `X_Y` after an operator `X`, with a comment that begins with
"Mutant", are faulty variants of `X`: with `X` replaced by the variant, TLC
finds the property it is paired with in PROJECT.json violated. They are used by
no specification.

How the modules fit together: each state machine opens up what another keeps
abstract. `Proxy` takes a refresh to be a grant that succeeds or fails, and
`OAuthRefresh` shows what a grant does to tokens; `Proxy` prefers any available
account on a first attempt (`Preferences`), and `Sticky` says which; `Proxy` has a
fixed set of accounts the catalog rules out (`Unsupported`), and `ModelCatalog` says
how it comes about; `Proxy` reads its settings as constants, since a request loads
them once, and `SettingsCache` says how old they may be; and what `Proxy` does at the
end of a request to the account's own counter, `Usage` does to everything else.

### LoadBalancer and Selection

A row is a record of the columns that steer routing. Three abstractions:

- An instant is kept as the time left until it: `NoTime` for NULL, 0 once it has
  passed. `Aged` lets one unit pass. The code compares instants with "now" only,
  so the order of two instants in the past is not kept; where a strategy could
  see it (`CapacityWeighted`, all budgets spent) the model allows both orders.
- A rate-limit bucket (limit, remaining) is kept as a level: `unset` (no limit
  known), `room`, `low` (at most the 5% at which `fill_first` moves on), `spent`.
- `disabled_reason` is kept as the kind of event that wrote it.

`SelectAccount` returns the *set* of accounts the code may return: one account
for the deterministic strategies, every account with a positive weight for the
random one, none where the code raises `NoAccountAvailable`. The two opposite
tie-breaks on names (`single_account` takes the last, `fill_first` the first)
are kept, and so is the direction of `priority` in the code: the *highest*
drains first, although a comment at `db/models.py:68` says "Lower values are
drained first by ordered strategies".

`Selection` has the two things selection depends on, the rows and
`_round_robin_counter`, and the four properties of a call in one state. They are checked
on all rows of a small pool in `MCLoadBalancer`, and proved for the rows `Proxy` reaches.

### Proxy

`row` is the accounts table, `live` says which rows exist, `req[r]` holds the
locals of `forward` for request `r`, `sess[w][a]` is the open transaction of
writer `w` on account `a`, `round[p]` is the probe round of prober `p`, `lock[a]`
is the refresh lock, `rr` the round-robin counter. `sends` and `usable` are
history variables.

| code | actions |
|---|---|
| select an account, `forward` 166-195 | `Select` |
| `credentials.resolve`, `refresh` | `Resolve`, `RefreshLoad`, `GrantReply` |
| the upstream answers, 207-271 | `AnswerRelay`, `AnswerLimited` (429), `AnswerError` (other retryable), `AnswerTransport`, `AnswerRejected` (401, 403), `AnswerBroken` |
| `_record_attempt_failure` | `LoadFailure`, `CommitFailure` |
| `_refresh_account` | `LoadSuccess`, `CommitSuccess` |
| `record_request`, the account's counter | `Record` |
| `run_health_probes` | `ProbeStart`, `ProbeAnswer`, `FoldLoad`, `FoldCommit` |
| PATCH, DELETE, POST of an account | `UpdateLoad`, `UpdateCommit`, `Delete`, `Create` |

A Load action computes from the row it reads the columns that change and their
values (`Writing`); the Commit action writes these columns over whatever the row
holds by then (`Committed`). A commit whose row is gone fails, as SQLAlchemy's
unit of work does with `StaleDataError`: the request ends with an internal error
and a probe round is discarded as a whole. `record_request` is one step because
it inserts the log row first, which takes SQLite's write lock.

`AnswerBroken` is a connection that breaks while the body is read: line 220 and
241 read it outside any `try`, and line 286 after the success was recorded.

The credential itself is abstract in `Proxy`: a refresh finds the token already
replaced or makes a grant, which succeeds or fails. `OAuthRefresh` opens this up.
`health` is what the upstream thinks of each stored credential and steers the
probes; answers to requests are free, since a credential that lists models may
still be rate-limited, overloaded or refused elsewhere.

Constants stand for the runtime settings (which a request reads once) and for
the model catalog. One PATCH is under way at a time. A deleted id never returns.

### Failover

The promise of `forward`: attempts one after the other, at most `MaxAttempts`; in each an
account not on the tried list, asked at most once; an account leaves the list only for the
one renewal of its credential; and an outcome that follows from the last attempt.
`IsFailover` in `Proxy` maps a request to its `Trip`: `Course` merges the program points that
a client cannot tell apart (choosing, holding an account, renewing its credential, failed, served,
over), and the account counts only while the request holds one. Probes, operators, other requests,
the reading of credentials and the loads before a commit are stutters. The deliberate difference is
`Choose`: it may take any untried account, since which one is the strategies' business, and `NoneLeft`
may find none at any time, which `FailsOnlyAfterTryingUsable` restricts. TLC (run `recovery`) and TLAPS
(`ImplementsFailover`) check it; there is no fairness in it, and that requests end is `Termination`.

### OAuthRefresh

One account, its `Callers`, the provider (the refresh tokens it takes, `validRefresh`, and the
number of the `next` token), the account's lock and the row (`store`). Tokens are numbered as
they are issued, which turns "newer" into `>`. The upstream may answer 401 or 403 to any
access token, also to one that is still good: `forward` forces a refresh whatever the answer was about
(`Rejected`). Between `Post` and `StoreGrant` or `StoreFailure`
the lock is held and `snap` is the row as read inside the lock. `StoredGrant` and
`StoredFailure` write the columns that differ from `snap`, over the present row,
so what an operator stores in between has the effect it has in the code.
`Patch` is `update_account`: a new access token with or without a lifetime, a new refresh token,
enabling and disabling, in any combination. It is one step here; how the transaction of a PATCH overlaps
others is in `Proxy`. Operators store tokens that the provider has issued. `Crash` forgets
callers and lock and keeps the row and the provider.

History: `rejected` says whether the stored token was answered 401 or 403, `entered` whether
an operator stored it, `lost` which refresh tokens were spent on a lost reply, `unpaid` how often the stored
token came to need a renewal, less the grants stored, and `strikes` how many grants in a row have failed.

`MaxTokens` bounds the tokens that are issued and the PATCHes, which take a number each. It is a constant of the
module, because the model's counter would otherwise grow forever; the theorems hold for every value.

### SingleFlight

The promise of `refresh`: one current token; a renewal begins only when the token
has come due or was rejected, has one renewer at a time, and brings a token newer than the one it `replaces`; a
caller is handed the token as it is at that moment. An operator may `Enter` a token at any
time, and a renewal that is under way then goes through all the same. `IsSingleFlight` in `OAuthRefresh`
maps `current` to the stored token, `good` to its being neither due nor rejected (`Outstanding`), `renewer` to
the caller whose grant is under way, and `handed` to the token a caller carries to the upstream. Both
TLC (run `refresh`) and TLAPS (`ImplementsSingleFlight`) check the safety part.

### Usage

`slot`s serve requests of a key or of none; `logs`, `rollup` and `totals` are the tables; the
write lock is explicit (`writer`), since `record_request` inserts its log row first and
SQLite then holds everybody else off until the commit. Time is counted in ticks,
`TicksPerDay` of them a day. `recorded` and `rebuilt` are history: what was recorded when, and
which days a backfill has rebuilt, in full or from a part of their requests.

| code | actions |
|---|---|
| `authenticate`, `_enforce_window_budget` | `Authenticate` |
| `record_request`, `rollup.apply` | `BeginRecord`, `CommitRecord` |
| `wrap_stream_for_accounting`, cancelled while it records | `Cancel` |
| create, PATCH, DELETE of a key | `CreateKey`, `EnableKey`, `DisableKey`, `DeleteKey` |
| `lifespan`: `prune_request_logs` | `Restart` |
| `backfill` | `ReadBackfill`, `WriteBackfill` |
| `trend`, `reports.build` | operators `Trend`, `Report` |

Accounts and models are further columns of a group and are left out; tokens and costs
are summed exactly as requests are. `RowCount` is a SQL count over the log, a sum over rows
by time, group and outcome; a bucket holds the requests and the errors of a day and group.

### SettingsCache

The settings of each commit are a version; a request is at a SELECT (`selected`),
has the merged settings (`loaded`), has looked for the row (`fetched`) or has flushed. `gone`
is history: how long ago a version was superseded. `Select` and `Fill` are `load`, `Fetch`
and `Flush` `update`, `Reset` `reset`; `Commit` and `Rollback` are the end of `session_scope`. The
cache is filled when a SELECT returns and invalidated at the flush, before the
commit, so a load in between puts the old settings back; the TTL is what bounds this.

### AuthGate

One action per handler of the management plane, from its check of the gate to its
commit: `Arrive` and `SignedIn` read the cookie, `Evaluate` decides, `Open`, `FetchCredential`,
`ChangePassword`, `EnrollTotp`, `ConfirmTotp`, `DisableTotp`, `RevokeAll` and `Logout` do
the work, `RejectLogin` and `RejectConfirm` are the rejections that leave an
audit row, `Refuse` those that leave nothing, `Fail` is a rollback that leaves the latch of the
bootstrap as it is, `Restart` the startup. The point that is easy to miss
in the code: a signed-in request carries a pending change of its session's
`last_seen_at`, which its next SELECT flushes. That takes SQLite's write lock and fails
when the session is gone, and so it orders the requests of the management plane
(`TouchesSession`, `CanWrite`).

### Sticky

`affinity` is the OrderedDict as a sequence from the least to the most recently used
entry. `Resolve` and `Remember` are the two moments at which `forward` uses the map; between
them other conversations run, accounts leave and return, and entries age. `Score` stands
for the hash of rendezvous: any numbers, 0 for an account of weight zero.

### ModelCatalog

One model is followed. A round (`StartRound`, `Answer`, `CommitRound` or `FailRound`) asks
every enabled account and commits what it heard in one transaction; the scheduler's
round and a manual one overlap. A reader makes its three SELECTs in `Load`, `ReadSynced` and
`ReadSupporting`, with commits in between. Rows of the catalog outlive their account. The history `said`
is what each account's catalog has said since the reader began.

### OAuthLogin

A flow is a process of the command line: `Begin` (the name is free, the port is bound,
the browser opens), `Deliver`, `Stray`, `Paste` or `Timeout` (the redirect), `Parse`, `Exchange`, `Store`.
`tab` is the provider's page, which can redirect to a port long after its own login has
ended. A flow's state, its code and the sign-in its tokens belong to are all named by
the flow, so that mixing two up is visible.

## 3. Runs

| run | states | what it shows |
|---|---|---|
| `selection` | 59 thousand | for every pool of three accounts with every level, cooldown and reset, every tried set, pin, preference and strategy: selection succeeds exactly when an untried account is usable and picks such an account (`SelectionComplete`); affinity yields as the README promises (`AffinityYields`); `capacity_weighted` spares accounts whose budget is spent and not yet reset (`SparesSpentAccounts`); on a pool that stays the same a round of round robin uses each account once (`RoundRobinFair`) |
| `failover` | 1.7 million | two requests with three attempts, with affinity, on accounts that operators add and delete, one OAuth, one outside the model catalog: each account is sent to once, or twice around its one forced refresh (`OneSendPerAccount`); a request that gives up early has tried every account that was usable all along (`FailsOnlyAfterTryingUsable`); reading and writing account rows ends a request with an internal error only if an account was deleted (`CrashesOnlyOnDelete`; an answer whose body breaks is an error of another kind, and not among this run's answers); the lock and the grants agree (`GrantHoldsLock`) |
| `recovery` | 116 thousand | a request that meets every kind of answer, a prober and an operator on one row, with all overlaps of their transactions: under fairness every request ends (`Termination`), an account whose credential works again returns to rotation for good, whatever stale verdicts a round still holds (`Recovery`); only a good probe or an operator brings an account back, only a rejection, a tripped refresh breaker, a probe or an operator takes it out (`RotationLedger`); and `Failover` is implemented, with every kind of answer and the deletion of the account in hand (`IsFailover`) |
| `refresh` | 419 thousand | two callers, a rotating provider, 401 and 403 for whatever reason, lost replies, crashes, and operators who store tokens: no replay of a rotated token (`NoReplay`); at most one stored grant for each stored token that came due or was rejected (`GrantsMatchNeeds`); the store goes back to an older token only where a grant that was under way writes over an operator's (`StoreNeverGoesBack`); the breaker opens in time (`BreakerTrips`); every call ends (`CallsEnd`); `SingleFlight` is implemented (`IsSingleFlight`) |
| `usage` | 295 thousand | two slots of a key, restarts with pruning, deletions of the key, cancelled streams and backfills: the trend counts everything that was recorded (`TrendComplete`), each request is billed to the key that made it (`BilledInFull`), the key's total loses no increment (`TotalsAgree`), and a window exceeds its budget by less than the requests that run at once (`BudgetBounded`) |
| `settings` | 1.5 million | three handlers in two workers: nobody is served settings older than the TTL and one load (`StalenessBounded`) or not yet committed (`NeverUncommitted`), and every worker comes to serve the last ones (`Converges`) |
| `authgate` | 952 thousand | two requests of the management plane overlap in every way: a password change ends the sessions there are (`OldSessionsEnd`; a sign-in that had checked the old password before and stores its session after the change survives), what an ended session began changes nothing (`EndedSessionsChangeNothing`), the second factor that is turned on is the one whose code was checked (`ConfirmsWhatWasChecked`), and the audit trail keeps the newest events (`AuditKeepsNewest`) |
| `sticky` | 720 thousand | three conversations, a map of two entries: a conversation returns to its warm account (`StaysWarm`), the map says what happened (`MapFollowsUse`), and an account's coming and going moves nobody else's conversation (`OnlyItsOwnMove`) |
| `catalog` | 1.0 million | two overlapping rounds, failures and restarts while an attempt reads: an account is left out only if its catalog has omitted the model meanwhile or was emptied between the two queries, one that omits it all the while is left out, unless nobody else remains (`RoutesByKnowledge`); and the catalog comes to say what the upstream says, while the sync is switched on (`CatalogConverges`) |
| `login` | 234 thousand | three logins, two on one port and name, one manual, open tabs, stray requests: an account holds the tokens of the sign-in its own login started, even if the provider does not check the verifier (`OwnSignIn`); a login that has its tokens finds its name taken only when that happened meanwhile (`LostOnlyToRace`); logins end (`LoginsEnd`). It stops when all have ended |

Two runs check a sentence of the documentation that the code does not keep; TLC
finds the counterexample, and PROJECT.json "findings" quotes the sentence.

| run | property | what happens |
|---|---|---|
| `cooldown` | `CooldownHonoured` | a success that was under way when a 429 came cancels the cooldown |
| `backfill` | `OnlyCoveredDays` | a backfill whose cutoff falls within a past day reads a part of that day to put in place of its complete bucket |

What the models show of the code beyond the properties:

- Simultaneous failures read the same count and are counted once (`LoadFailure`, `CommitFailure`).
- A forced refresh on the last attempt is not followed by a replay (`Continue`).
- A connection that breaks in the body ends the request (`AnswerBroken`).
- A probe that is answered 200 enables an account whoever disabled it, also after the probe was sent (`Fold`).
- A grant that was under way when an operator stored an access token writes over it (`StoredGrant`);
  one that fails after a new login writes its failure count over the login's (`StoredFailure`).
- A first password that is rolled back leaves the latch set: the bootstrap stays closed until the next start, though
  none is stored (`Fail` after `FetchCredential`), while `src/README.md:253` and the docstring of
  `auth/dependencies.py` have it open. No property is about this; it is in PROJECT.json among the hazards.
- The second of two overlapping first passwords replaces the first without being asked for it
  (`FetchCredential` reads the row anew), or fails.
- A sign-in that checked the old password and stores its session after a change survives the change (`late`).
- A request recorded between the SELECT and the DELETE of a backfill is lost from the bucket of
  its day (`CommitRecord` between `ReadBackfill` and `WriteBackfill`).
- A sync that empties the list of an account between the two queries of a request makes it look
  like one that does not serve the model (`Known`).
- Any request with a query takes the login's only slot (`Stray`).

### Bounds

Two concurrent requests are the fewest that race; three accounts let a request
fail over, re-authenticate and still have an account left. `FAILURE_THRESHOLD` is 2,
so that two requests trip the breaker; the cooldowns are 1 to
3 units of time, so that they overlap other steps and expire within a run. The
round-robin counter is kept modulo `RRPeriod`, a multiple of every pool size, which
leaves every pick as it is: that it wraps is the model's doing, `itertools.count` never does.
`recovery` has one account: its properties speak of one row at a time, and no action relates two rows except the common commit of a probe round.
With two attempts its request can run out of accounts (an error in the first), and out of attempts (coming back to
the account after a renewal); what `Failover` says of several accounts is proved.
Rate-limit headers that report spent buckets are in `cooldown` and, as all possible
rows, in `selection`; in `recovery` a 429 spends them.

`refresh`: with `MaxTokens` 3 two tokens or PATCHes follow the first token. That is a grant and a second one
after it, a grant that an operator's token or login overtakes, two PATCHes in a row, or a lost
reply and a new login. What takes three is left to the proofs.

`usage`: days of two ticks, so that a cutoff can fall within a day; two days and a
retention of one, so that pruning cuts what a backfill reads; a limit of one and two slots, so that the
budget can be exceeded; `MaxServed` bounds the requests. Slots are interchangeable, and TLC uses that symmetry.
`settings`: the two workers differ only in having one or two requests, two versions let a
cache be two behind; `MaxVersion` bounds the commits. `authgate`: `MaxEvents` numbers passwords,
secrets, sessions and audit rows together; four are enough for a first password, a sign-in,
a change and a late one; two audit rows are kept, so that pruning drops some. `sticky` has one conversation more than
the map holds. `catalog`: the bound is on changes, failures and restarts, not on rounds. `login`: two
flows share port and name, `MaxStrays` and `MaxEdits` bound stray requests and other accounts.

### Fairness

- `RequestFairness`: a request that can take a step takes one. The event loop runs
  every ready coroutine; upstream calls end by an answer or by the timeout of the
  HTTP client, so some answer action is always taken; the lock of a refresh is
  handed over in order.
- `ProbeFairness`: `Scheduler._loop` repeats forever, survives a failing tick, and a
  probe has a timeout. It is weak fairness of whole rounds, no more.
- `TimeFairness`: time passes.
- `OAuthRefresh.Fairness`: weak for a caller's own steps and for the endpoint, which
  answers or times out after `REFRESH_TIMEOUT_SECONDS`; strong for entering the lock,
  because `asyncio.Lock` serves its waiters first come, first served.
- `SettingsCache.Fairness`: time passes, a SELECT returns and a request ends. Nobody has
  to make another request: an entry that no one asks for expires by itself.
- `ModelCatalog`: `SyncFairness`, a round's calls end by an answer or the probe's timeout;
  `LoopFairness`, the scheduler's loop starts its next round. That it goes on after a failed tick is
  not assumed but modelled (`AfterFault`).
- `OAuthLogin`: a flow's own steps; `wait` and the exchange have timeouts. Nobody has to
  sign in. A login with `--manual` waits for the terminal, and nothing says that it ends.

`Recovery` assumes that `health_probe_enabled` stays on, and `CatalogConverges` that
`model_sync_enabled` does; both are the default. `Recovery` also assumes that the account is not deleted and that its stored credential is
accepted from some time on. It does not say that an OAuth account whose access
token has expired returns: a probe presents the stored token and never refreshes it
(`_credential_for`), so such an account stays out until someone logs in.

## 4. Proofs

Every invariant and every action property that a passing run checks, and both refinements, are also proved, for
every value of the constants that the modules' assumptions admit. Each proof module has
the same order: types, the inductive invariant with a lemma per action or kind of action,
then the theorems.

### ProxyProofs

For every set of accounts, requests and probers, every strategy and every setting, `Spec`
of `Proxy` implies the type invariant, `OneSendPerAccount`, `GrantHoldsLock`,
`CrashesOnlyOnDelete`, `FailsOnlyAfterTryingUsable`, `RotationLedger` and the four
properties of selection, and `IsFailover`. The type invariant is in
no run: it is left to its theorem `TypeCorrect`, on which all the others rest. The lemmas about the
helpers of `LoadBalancer` and `Proxy` come first: whatever the strategy, a selected
account is in the pool, available and not yet tried (`SelectionSound`), and each row,
session and request that a step writes has its type. `OneSendPerAccount` is not
inductive: it bounds the sends and says nothing of the tried list. `IndInv` adds

- `SendsCounted`: an account that is off the tried list, or picked and not yet sent to,
  has been sent to only if its forced refresh took it off the list;
- `TriedListed`: the account a request deals with is on the tried list, except between
  the rejection and the end of its forced refresh;
- `AccountsExisted`: a request works on accounts that have existed, so one that is not
  there any more was deleted, which is what `CrashesOnlyOnDelete` needs.

Most steps only end an attempt: `Settles` says what they have in common and two
lemmas (`SettlesUnsent`, `SettlesSent`) carry the invariant over them, with and without
a send; `Select`, `AnswerRejected` and the failure of a forced refresh have proofs of
their own. `Shape` does the same for locks and accounts. Probes, operators and time
leave the requests as they are (`OtherStepKeeps`). The assumptions are those the modules
state about their constants.

*Selection.* Each strategy is a minimum or maximum in an order with ties broken by name,
so what has to be shown is that a finite, nonempty pool has one. There is no induction to
appeal to (see below); instead `MinimalSubset` takes a subset without one that has the
fewest elements, and finds a smaller one in it (`FirstExists`). `ByStrategyPicks` and
`SelectionSound` follow for all strategies, and with them `SelectsUsable`, `AffinityIsSoft` and
`SpentAreSpared`, the last by `HeadroomOfRow`: the weight an account gets is what its row says
now, a window that has rolled over counting as unspent. For `RoundsAreFair`, the positions of the usable accounts in name order are
distinct and below their number, so each is taken (`PositionsFill`); the values of as many consecutive
counters have distinct remainders (`RemaindersFill`); and the wrap of the model's
counter changes none of them, as `RRPeriod` is a multiple of the size of the pool (`RemainderOfMultiple`).

*No usable account is left out.* `TriesAllUsable` is inductive with the types alone. A
request ends for want of an account only in `Select` (`OnwardSteps`), which
then has found every usable account on the tried list (`GivesUpHavingTried`, by
`SelectionFinds`); afterwards the history `usable` only shrinks (`ObserveFacts`).

*Who moves an account in and out of rotation.* A commit writes what was computed when the
row was read, so `RotationLedger` needs to know what an open transaction may hold.
`WritesAsJudged` says it: a request that is about to commit writes `enabled` only to disable an account
whose credential was rejected (`RequestsWrite`), and a probe round only as the account answered
it (`ProbesWrite`). `StepEntitled` then goes through the commits. Nothing is assumed of
what the row holds by then, which is why stale reads do no harm to this property.

*The refinement.* `ImplementsFailover` is a theorem for every pool, strategy and number of
requests: `TripInit` maps initial states, `TripStep` every step. A step that moves one request moves its
trip (`TripMove`), one that asks the upstream also counts it (`TripSend`), and `RequestTrip` takes the actions of a
request one by one; `TripFinish`, `TripContinue` and `TripFail` map the ways an attempt ends. A
selection is a `Choose` by `SelectionSound`: no strategy returns an account that was tried. The refinement needs
`IndInv` in one place: a refresh is a renewal, and not part of getting a credential, only
between a rejection and its end (`TriedListed`); with the flag of a forced refresh left set, a later attempt
would be taken for one.

### OAuthRefreshProofs

`OAuthRefreshProofs` proves, for every set of callers, every threshold above 1 and
whether the provider rotates or not, that `Spec` implies the type invariant and
the safety properties of the run `refresh`, and `SingleGrant`: a grant is under way for one
caller at a time. None of `SingleGrant`, `NoReplay`,
`GrantsMatchNeeds` is inductive. `IndInv` adds what they rest on:

- `ForcedWasRejected`: who forces a refresh holds a token that was rejected, so finding it still
  stored means that a grant is called for;
- `GrantIsNeeded`: while a grant is under way, either the row still has the token it replaces, and that one is
  still due or rejected, or an operator has stored another: only the lock's holder and operators write tokens;
- `ReplyIsNew`: a reply that was received is newer than the token it replaces, and nobody has it yet;
- `NeedsAccount`: what is unpaid covers the need of the stored token and that of a token which an
  operator has replaced while the grant for it is under way;
- `RefreshTokenKept`: the stored refresh token is good, was lost, or its successor
  is in the hands of the lock's holder;
- `StrikesCounted`: the failures in the row and in a snapshot are no fewer than the
  failures in a row, and an account re-enabled during a grant has none.

`StepType` and `StepInv` have a step per action; each action property then follows
from `IndInv` and one step. The assumptions are `CallersAssumption` and
`RefreshAssumption`, in the module. A threshold of 1 is excluded: a grant that is
under way when an operator re-enables the account would then leave it enabled
after its failure.

`ImplementsSingleFlight` is the refinement: `FlightInit` maps initial states, `FlightStep` every
step. Most steps stutter (`FlightStutters`); posting a grant is `Begin`, storing it `Renew`, a failure
`GiveUp`, and what a caller carries is current when it is handed (`HandedStep`), which
rests on `IndInv`.

### SettingsCacheProofs and OAuthLoginProofs

`SettingsCacheProofs` proves the type invariant, `StalenessBounded` and `NeverUncommitted` for every
number of requests and workers, every TTL and every duration of a load. The invariant
adds that a superseded version which a load has read is no older than the load
(`LoadsAreRecent`), nor one in a cache than its entry and one load (`EntriesAreRecent`), so
that all of them grow older together; that nothing has superseded the last commit
(`VersionsCommitted`); and that only the holder of the write lock has flushed
(`WriterFlushes`), without which two commits would follow one check.

`OAuthLoginProofs` proves `OwnSignIn` and `LostOnlyToRace` for every set of logins, names and
ports, whether or not the provider looks at the PKCE verifier. `OwnSignIn` speaks of stored
accounts only; `CarriesOwn` adds what leads there: the redirect a login trades is its own,
since the state was compared, and so are the tokens it is about to store. `OvertakenKnown` says that a
login whose name is taken after it had found it free is in the history variable
`overtaken`, which `LostOnlyToRace` needs.

### AuthGateProofs

For every set of requests and every number of events: `EndedSessionsChangeNothing`,
`ConfirmsWhatWasChecked`, `OldSessionsEnd` and `AuditKeepsNewest`. The first
two rest on the write lock that the pending
`last_seen_at` takes: a signed-in request that has made its first query holds the lock
and its session is there (`LockHeld`), so no other transaction can end the session or
change the second factor before it commits, and the secret it has read is the stored
one (`SecretRead`). `VerifiedRead`, that a sign-in was checked against a password, keeps the
sessions well typed. `EndInv` carries the invariant over every step that ends a request: one
that changes a secret or ends a session could take the lock, so no one else holds
it.

Most steps let sessions go on or end (`SessionsGoOn`), which keeps `OldSessionsEnd`; a change of the
password and a late sign-in have steps of their own. `AuditKeepsNewest` needs that every row of the trail is of
an event that was (`TrailOfEvents`): then a new row is newer than all, and what a prune
keeps, counted, leaves no room for an older one (`TrimmedKeepsNewest`).

### ModelCatalogProofs

For every number of rounds, readers and accounts: `RoutesByKnowledge` and
the types. A lookup makes its SELECTs at different times, and `said` collects what the catalog says from the first to
the last. `SaysNow` is that it holds what the catalog says now; `SyncedRead`, that what the first query
read of an account's being synced agrees with something the catalog has said. With the
two, `SecondQuery` derives the property for the request whose second query it is; a step moves at most one request
(`ReaderSteps`).

### UsageProofs

For every number of keys and slots and every length of the day, window and retention: `TotalsAgree`,
`BudgetBounded`, `TrendComplete`, `BilledInFull` and the types.

`RowCount` is a sum over a set, and the library defines it by recursion. The sum over a set
is read from a table over its subsets (`SumIsTable`); that the table does not depend on
the larger set it was made for, that an element can be taken out in any order, and that sums add over disjoint
sets (`SumElement`, `SumUnion`, `SumParts`) are all proved on a smallest subset on which they would fail. What the
steps need are four facts: a count goes up by one where a row is recorded, is the same for the same rows, is
monotone, and adds up over days (`CountIncrement`, `CountSame`, `CountSubset`, `BucketsAddUp`).

The invariant adds:

- `ReadsHold`: who is recording holds the write lock, and the bucket and the total it has read are still there;
- `RecentKept` and `NoneFromFuture`: pruning spares the retention, so the log answers for a window
  that is not longer than that;
- `BucketsExact`: a bucket counts what was recorded in its day, unless a backfill rebuilt the day from a part of it;
- `BudgetShared`: what a key has spent in the window and the requests it is being served together
  exceed the limit by less than the number of slots. `BudgetBounded` speaks of the spent ones only and is not inductive.

### StickyProofs

For every set of conversations, requests and accounts, every bound, TTL and score: `MapFollowsUse`, `StaysWarm`,
`OnlyItsOwnMove` and the types. `StaysWarm` says that an entry is not evicted while fewer than `MaxEntries` other
conversations were used since. `InReach` says why: the entries behind it are of
conversations used since (`Behind`), one entry each (`DistinctCount`), so the trimmed map still has it
(`TrimmedFacts`). `OnlyItsOwnMove` is about the largest score of the available accounts: taking away one that does
not have it, or adding one that has not got it, changes nothing (`RendezvousStable`).

### What is not proved

Liveness under fairness stays with TLC: `Termination` and `Recovery` of `Proxy`, `CallsEnd` of `OAuthRefresh`,
`Converges` of `SettingsCache`, `CatalogConverges` and `LoginsEnd`. So does the fairness part of the refinement of `SingleFlight`.
The two runs that expect a violation show counterexamples and have nothing to prove. The induction theorems of the
library take an operator as a parameter, which the provers cannot instantiate; where induction over a finite set was
needed, the proofs take a smallest counterexample instead (`MinimalSubset`, by the well-foundedness of strict inclusion between finite sets).

## 5. Not modelled

Header filtering, the relaying of chunks, usage parsing, prices, encryption, TOTP codes and
the dashboard page are pure or I/O. So are the reports that only read: `usage_summary`,
`list_requests`, metrics, the CSV rendering, `list_models` (which counts the catalog rows of deleted accounts
too). The connection pool and errors of the database itself are left out. `Proxy` has no crash: a crash
loses the locals of requests and probes, and its rows are then as after any other
interruption between a Load and a Commit; what a crash does to credentials is in
`OAuthRefresh`. Of the PATCH of an account, `base_url`, `auth_scheme`, the token endpoint
and the extra headers are left out, and weight and priority are constants. `Proxy` keeps
the status of an answer only as far as it steers the loop: which body is sent with which
status is left out.

All models have SQLite as their database, with its one write lock. PostgreSQL lets two
transactions create one daily bucket or add to one total; that deployment is not
covered.

Of client keys, the token and cost budgets (checks of the same shape as the one
for requests), names, expiry and `last_used_at` are left out. A day ends between two ticks: a request that
records across midnight is on one side of it. The end of a session is one free
action (`Expire`).

The upgrade of the schema at startup (`db/schema.py`) is not modelled: it compares columns
and adds what is missing, and what two instances do there at once depends on the
database's own locking of its schema.

## 6. Plan

1. A promise for `SettingsCache` and one for the affinity map, in the form of `SingleFlight` and `Failover`: a register that
   may be read late, and a map that may forget.
2. The interleavings of the upgrade of the schema, if it gets a lock of its own.
