---------------------------- MODULE LoadBalancer ----------------------------
(***************************************************************************)
(* Account selection and the per-account circuit breaker                   *)
(* (app/modules/proxy/load_balancer.py), as operators over account rows.   *)
(*                                                                         *)
(* A row keeps the columns of the accounts table that steer routing.       *)
(* Timestamps are kept as the time left until they are reached: NoTime for *)
(* NULL, 0 for an instant that has passed.  A rate-limit bucket (limit and *)
(* remaining) is kept as its level.  Texts of disabled_reason are kept as  *)
(* the kind of event that wrote them.                                      *)
(***************************************************************************)
EXTENDS Integers, FiniteSets

CONSTANTS
    Accounts,            \* account ids
    NoAccount,           \* Python's None where an account id may be missing
    Priority, Weight,    \* operator settings of each account
    NameRank,            \* position of an account's name in name order
    FAILURE_THRESHOLD, FAILURE_BACKOFF, MAX_BACKOFF, DEFAULT_WAIT,
    ONE_DAY              \* the reset assumed for an account that has none

ASSUME NoAccountAssumption == NoAccount \notin Accounts
ASSUME AccountsAssumption == IsFiniteSet(Accounts)
ASSUME SettingsAssumption ==
    /\ Priority \in [Accounts -> Int]
    /\ Weight \in [Accounts -> Nat]
    /\ NameRank \in [Accounts -> Nat]
    /\ \A a, b \in Accounts : NameRank[a] = NameRank[b] => a = b
ASSUME BreakerAssumption ==
    /\ FAILURE_THRESHOLD \in Nat \ {0}
    /\ FAILURE_BACKOFF \in Nat \ {0}
    /\ MAX_BACKOFF \in Nat \ {0}
    /\ DEFAULT_WAIT \in Nat \ {0}
    /\ ONE_DAY \in Nat

NoTime == -1
Time == Nat \cup {NoTime}

Strategies ==
    {"capacity_weighted", "round_robin", "least_used", "fill_first", "single_account"}

\* "unset": no limit known (NULL or 0); "low": at most 5% left.
Levels == {"unset", "room", "low", "spent"}

Reasons == {"none", "auth", "failures", "refresh", "probe"}

Row == [enabled : BOOLEAN, failures : Nat, reason : Reasons, cooldown : Time,
        requests : Levels, tokens : Levels, reset : Time,
        refreshFailures : Nat, total : Nat]

\* The column defaults of a newly created account.
FreshRow(enabled) ==
    [enabled |-> enabled, failures |-> 0, reason |-> "none", cooldown |-> NoTime,
     requests |-> "unset", tokens |-> "unset", reset |-> NoTime,
     refreshFailures |-> 0, total |-> 0]

-----------------------------------------------------------------------------
(* Selection *)

IsAvailable(row) == row.enabled /\ row.cooldown <= 0

\* The share of a bucket that is left, in the steps the strategies tell apart.
LevelShare(level) ==
    CASE level \in {"unset", "room"} -> 2
      [] level = "low" -> 1
      [] level = "spent" -> 0

\* Mutant: the levels count although the window rolled over.
Headroom_Stale(row) ==
    IF LevelShare(row.requests) < LevelShare(row.tokens)
    THEN LevelShare(row.requests) ELSE LevelShare(row.tokens)

\* Once the window rolled over, the last-seen levels are stale.
Headroom(row) ==
    IF row.reset = 0 THEN 2
    ELSE IF LevelShare(row.requests) < LevelShare(row.tokens)
         THEN LevelShare(row.requests) ELSE LevelShare(row.tokens)

Available(rows, pool) == {a \in pool : IsAvailable(rows[a])}

\* max(..., key=(priority, name)): ties go to the last name.
SingleAccount(avail) ==
    {a \in avail : \A b \in avail : \/ Priority[b] < Priority[a]
                                    \/ /\ Priority[b] = Priority[a]
                                       /\ NameRank[b] <= NameRank[a]}

\* Mutant: the index runs over all accounts, not over the available ones.
RoundRobin_AllAccounts(avail, rr) ==
    {a \in avail : Cardinality({b \in avail : NameRank[b] < NameRank[a]})
                        = rr % Cardinality(Accounts)}

\* The accounts come from the database in name order.
RoundRobin(avail, rr) ==
    {a \in avail : Cardinality({b \in avail : NameRank[b] < NameRank[a]})
                        = rr % Cardinality(avail)}

LeastUsed(rows, avail) ==
    {a \in avail : \A b \in avail : \/ rows[a].total < rows[b].total
                                    \/ /\ rows[a].total = rows[b].total
                                       /\ NameRank[a] <= NameRank[b]}

\* Highest priority first; here ties go to the first name.
DrainFirst(avail) ==
    {a \in avail : \A b \in avail : \/ Priority[b] < Priority[a]
                                    \/ /\ Priority[b] = Priority[a]
                                       /\ NameRank[a] <= NameRank[b]}

\* Mutant: no fallback when every account is nearly spent.
FillFirst_NoFallback(rows, avail) ==
    DrainFirst({a \in avail : Headroom(rows[a]) > 1})

FillFirst(rows, avail) ==
    LET roomy == {a \in avail : Headroom(rows[a]) > 1}
    IN  DrainFirst(IF roomy # {} THEN roomy ELSE avail)

ResetAfter(row) == IF row.reset = NoTime THEN ONE_DAY ELSE row.reset

\* Weighted random choice, or the account that resets soonest when the pool is
\* spent.  Resets in the past are not told apart, so either order is possible.
CapacityWeighted(rows, avail) ==
    LET weighted == {a \in avail : Weight[a] > 0 /\ Headroom(rows[a]) > 0}
        soonest == {a \in avail : \A b \in avail :
                        \/ ResetAfter(rows[a]) < ResetAfter(rows[b])
                        \/ /\ ResetAfter(rows[a]) = ResetAfter(rows[b])
                           /\ rows[a].reset = 0 \/ NameRank[a] <= NameRank[b]}
    IN  IF weighted # {} THEN weighted ELSE soonest

\* The strategy's pick among the available accounts.
ByStrategy(rows, avail, strategy, rr) ==
    CASE strategy = "single_account" -> SingleAccount(avail)
      [] strategy = "round_robin" -> RoundRobin(avail, rr)
      [] strategy = "least_used" -> LeastUsed(rows, avail)
      [] strategy = "fill_first" -> FillFirst(rows, avail)
      [] strategy = "capacity_weighted" -> CapacityWeighted(rows, avail)

\* Mutant: the preference outranks the pin.
SelectAccount_PreferredFirst(rows, accounts, excluded, pinned, preferred, strategy, rr) ==
    LET avail == Available(rows, accounts \ excluded)
    IN  IF preferred \in avail THEN {preferred}
        ELSE IF pinned # NoAccount THEN avail \cap {pinned}
        ELSE IF avail = {} THEN {} ELSE ByStrategy(rows, avail, strategy, rr)

\* The accounts select_account may return; none when it raises
\* NoAccountAvailable.  A pin is a hard constraint, a preference a soft one.
SelectAccount(rows, accounts, excluded, pinned, preferred, strategy, rr) ==
    LET pool == accounts \ excluded
        avail == Available(rows, pool)
    IN  CASE pinned # NoAccount -> avail \cap {pinned}
          [] pinned = NoAccount /\ strategy # "single_account" /\ preferred \in avail
                -> {preferred}
          [] OTHER -> IF avail = {} THEN {} ELSE ByStrategy(rows, avail, strategy, rr)

\* Whether this call advances the module's round-robin counter.
UsesCounter(rows, accounts, excluded, pinned, preferred, strategy) ==
    LET avail == Available(rows, accounts \ excluded)
    IN  /\ strategy = "round_robin"
        /\ pinned = NoAccount
        /\ avail # {}
        /\ preferred \notin avail

-----------------------------------------------------------------------------
(* The circuit breaker *)

\* What a response says of the rate limits: a bucket's level or "absent", and a
\* reset instant or NoTime.
Headers == [requests : Levels \cup {"absent"}, tokens : Levels \cup {"absent"},
            reset : Time]

NoHeaders == [requests |-> "absent", tokens |-> "absent", reset |-> NoTime]

ApplyRateLimitHeaders(row, headers) ==
    [row EXCEPT
        !.requests = IF headers.requests = "absent" THEN @ ELSE headers.requests,
        !.tokens   = IF headers.tokens = "absent" THEN @ ELSE headers.tokens,
        !.reset    = IF headers.reset = NoTime THEN @ ELSE headers.reset]

\* Mutant: a success enables the account.
RecordSuccess_Enables(row) ==
    [row EXCEPT !.failures = 0, !.reason = "none", !.cooldown = NoTime, !.enabled = TRUE]

RecordSuccess(row) ==
    [row EXCEPT !.failures = 0, !.reason = "none", !.cooldown = NoTime]

\* A bucket whose remaining count is set to zero; an unknown limit stays unknown.
Drained(level) == IF level = "unset" THEN "unset" ELSE "spent"

Least(m, n) == IF m < n THEN m ELSE n

\* How long a 429 keeps the account out: retry-after, else the reset, else a
\* minute; at least 1 and at most MAX_BACKOFF.
RateLimitWait(row, retryAfter) ==
    LET wait == IF retryAfter # NoTime THEN retryAfter
                ELSE IF row.reset > 0 THEN row.reset ELSE DEFAULT_WAIT
    IN  IF Least(wait, MAX_BACKOFF) < 1 THEN 1 ELSE Least(wait, MAX_BACKOFF)

\* fault is "auth" (401, 403), "limited" (429) or "error" (every other failure:
\* a retryable status, a transport error or an unusable credential).
RecordFailure(row, fault, retryAfter) ==
    CASE fault = "auth" ->
            [row EXCEPT !.enabled = FALSE, !.reason = "auth", !.cooldown = NoTime]
      [] fault = "limited" ->
            [row EXCEPT !.cooldown = RateLimitWait(row, retryAfter),
                        !.requests = Drained(@), !.tokens = Drained(@)]
      [] fault = "error" ->
            IF row.failures + 1 < FAILURE_THRESHOLD
            THEN [row EXCEPT !.failures = @ + 1]
            ELSE [row EXCEPT
                    !.failures = @ + 1,
                    !.cooldown = Least(FAILURE_BACKOFF * (row.failures + 1), MAX_BACKOFF),
                    !.reason = "failures"]

-----------------------------------------------------------------------------
(* The passing of time *)

Later(t) == IF t > 0 THEN t - 1 ELSE t

Aged(row) == [row EXCEPT !.cooldown = Later(@), !.reset = Later(@)]
=============================================================================
