------------------------------- MODULE Usage -------------------------------
(***************************************************************************)
(* What a client key may spend and what is kept of what it spent: the      *)
(* window budget (api_keys/service.py), the request log, the daily rollups *)
(* and the totals written by record_request (proxy/service.py,             *)
(* usage/rollup.py), pruning at startup, and the backfill of the rollups   *)
(* from the log (usage/api.py).                                            *)
(*                                                                         *)
(* The database is SQLite: the log row is the first statement of           *)
(* record_request, so it holds the write lock from before its reads until  *)
(* its commit.  A group is a client key, or NoKey; accounts and models     *)
(* are further columns of the same group and are left out.                 *)
(***************************************************************************)
EXTENDS Integers, FiniteSets, Functions

CONSTANTS
    Slots,          \* requests served at the same time
    Keys, NoKey,    \* client keys; no key presented
    NoWriter,       \* nobody holds the database's write lock
    Limit,          \* max_requests_per_window of every key
    Window,         \* window_seconds, in ticks
    Retention,      \* request_log_retention_days, in ticks
    TicksPerDay,
    Spans,          \* the days a backfill may be asked for
    MaxNow, MaxServed   \* bounds of an instance

ASSUME UsageAssumption ==
    /\ IsFiniteSet(Slots) /\ NoWriter \notin Slots
    /\ IsFiniteSet(Keys) /\ NoKey \notin Keys
    /\ {Limit, TicksPerDay} \subseteq Nat \ {0}
    /\ {Window, Retention, MaxNow, MaxServed} \subseteq Nat
    /\ Spans \subseteq Nat \ {0}

VARIABLES
    now,
    status,     \* the row of each key
    totals,     \* total_requests of each key
    logs,       \* how many log rows there are of a time, a group and an outcome
    rollup,     \* usage_daily; an absent row counts nothing
    writer,     \* the holder of the write lock
    pc, key, entry, \* the local state of each slot
    backfill,   \* what a backfill under way has read
    recorded,   \* history: logs, had nothing been pruned
    rebuilt,    \* history: how a day was last rebuilt by a backfill
    served      \* how many requests were admitted

slotVars == <<pc, key, entry>>
vars == <<now, status, totals, logs, rollup, writer, slotVars, backfill,
          recorded, rebuilt, served>>

Groups == Keys \cup {NoKey}
Times == 0..MaxNow
Day(t) == t \div TicksPerDay
Days == 0..Day(MaxNow)
DayTimes(d) == {t \in Times : Day(t) = d}
LogRows == Times \X Groups \X BOOLEAN

Nothing == [requests |-> 0, errors |-> 0]
NoEntry == [at |-> 0, error |-> FALSE, total |-> 0, bucket |-> Nothing]
Buckets == [requests : Nat, errors : Nat]

TypeOK ==
    /\ now \in Times
    /\ status \in [Keys -> {"absent", "enabled", "disabled", "deleted"}]
    /\ totals \in [Keys -> Nat]
    /\ {logs, recorded} \subseteq [LogRows -> Nat]
    /\ rollup \in [Days \X Groups -> Buckets]
    /\ writer \in Slots \cup {NoWriter}
    /\ pc \in [Slots -> {"idle", "serving", "recording"}]
    /\ key \in [Slots -> Groups]
    /\ entry \in [Slots -> [at : Times, error : BOOLEAN, total : Nat, bucket : Buckets]]
    /\ backfill \subseteq [day : Days, group : Groups, requests : Nat]
    /\ IsFiniteSet(backfill)
    /\ rebuilt \in [Days -> {"never", "whole", "part"}]
    /\ served \in 0..MaxServed

\* How many rows of a log are of these times, groups and outcomes.
RowCount(log, times, groups, outcomes) ==
    SumFunctionOnSet(log, times \X groups \X outcomes)

Init ==
    /\ now = 0
    /\ status = [k \in Keys |-> "absent"]
    /\ totals = [k \in Keys |-> 0]
    /\ logs = [row \in LogRows |-> 0]
    /\ rollup = [b \in Days \X Groups |-> Nothing]
    /\ writer = NoWriter
    /\ pc = [s \in Slots |-> "idle"]
    /\ key = [s \in Slots |-> NoKey]
    /\ entry = [s \in Slots |-> NoEntry]
    /\ backfill = {}
    /\ recorded = logs
    /\ rebuilt = [d \in Days |-> "never"]
    /\ served = 0

Tick ==
    /\ now < MaxNow
    /\ now' = now + 1
    /\ UNCHANGED <<status, totals, logs, rollup, writer, slotVars, backfill, recorded,
                   rebuilt, served>>

\* Mutant: the write lock is taken at the commit only.
WriterFree_Ignored == TRUE

\* A transaction can make its first write.
WriterFree == writer = NoWriter

-----------------------------------------------------------------------------
(* Client keys *)

\* create_key, update_key and delete_key.  A deleted key keeps its id in the
\* log and in the rollups.
SetStatus(k, from, to) ==
    /\ WriterFree
    /\ status[k] \in from
    /\ status' = [status EXCEPT ![k] = to]
    /\ UNCHANGED <<now, totals, logs, rollup, writer, slotVars, backfill, recorded,
                   rebuilt, served>>

CreateKey(k) == SetStatus(k, {"absent"}, "enabled")
DisableKey(k) == SetStatus(k, {"enabled"}, "disabled")
EnableKey(k) == SetStatus(k, {"disabled"}, "enabled")
DeleteKey(k) == SetStatus(k, {"enabled", "disabled"}, "deleted")

\* Mutant: the limit itself is still allowed.
WithinBudget_OneMore(k) ==
    RowCount(logs, {t \in Times : t >= now - Window}, {k}, BOOLEAN) <= Limit

\* _enforce_window_budget: what the log holds of the key since the window began.
WithinBudget(k) ==
    RowCount(logs, {t \in Times : t >= now - Window}, {k}, BOOLEAN) < Limit

\* require_api_key and authenticate.  A refused request leaves no trace.
Authenticate(s) ==
    /\ pc[s] = "idle"
    /\ served < MaxServed
    /\ \E g \in Groups :
          /\ g \in Keys => status[g] = "enabled" /\ WithinBudget(g)
          /\ key' = [key EXCEPT ![s] = g]
    /\ pc' = [pc EXCEPT ![s] = "serving"]
    /\ served' = served + 1
    /\ UNCHANGED <<now, status, totals, logs, rollup, writer, entry, backfill, recorded,
                   rebuilt>>

-----------------------------------------------------------------------------
(* record_request, for an answer, an exhausted pool or a stream that ended *)

HasRow(g) == g \in Keys /\ status[g] # "deleted"

\* The log row is flushed, which takes the write lock; then the key's row and
\* the bucket of the day are read.
BeginRecord(s, error) ==
    /\ pc[s] = "serving"
    /\ WriterFree
    /\ writer' = s
    /\ pc' = [pc EXCEPT ![s] = "recording"]
    /\ entry' = [entry EXCEPT ![s] =
          [at |-> now, error |-> error,
           total |-> IF HasRow(key[s]) THEN totals[key[s]] ELSE 0,
           bucket |-> rollup[<<Day(now), key[s]>>]]]
    /\ UNCHANGED <<now, status, totals, logs, rollup, key, backfill, recorded, rebuilt,
                   served>>

\* rollup.apply
Applied(bucket, error) ==
    [requests |-> bucket.requests + 1,
     errors |-> bucket.errors + (IF error THEN 1 ELSE 0)]

EndOf(s) ==
    /\ pc' = [pc EXCEPT ![s] = "idle"]
    /\ key' = [key EXCEPT ![s] = NoKey]
    /\ entry' = [entry EXCEPT ![s] = NoEntry]

CommitRecord(s) ==
    LET e == entry[s]
        g == key[s]
    IN /\ pc[s] = "recording"
       /\ logs' = [logs EXCEPT ![<<e.at, g, e.error>>] = @ + 1]
       /\ rollup' = [rollup EXCEPT ![<<Day(e.at), g>>] = Applied(e.bucket, e.error)]
       /\ totals' = IF HasRow(g) THEN [totals EXCEPT ![g] = e.total + 1] ELSE totals
       /\ recorded' = [recorded EXCEPT ![<<e.at, g, e.error>>] = @ + 1]
       /\ writer' = NoWriter
       /\ EndOf(s)
       /\ UNCHANGED <<now, status, backfill, rebuilt, served>>

\* The client goes away and the server cancels the stream and its finally: the
\* transaction, if it had begun, rolls back.
Cancel(s) ==
    /\ pc[s] # "idle"
    /\ writer' = IF writer = s THEN NoWriter ELSE writer
    /\ EndOf(s)
    /\ UNCHANGED <<now, status, totals, logs, rollup, backfill, recorded, rebuilt, served>>

-----------------------------------------------------------------------------
(* Startup and the backfill *)

\* The process stops or dies, and the next one prunes the log before it serves.
Restart ==
    LET cutoff == now - Retention
    IN /\ logs' = [row \in LogRows |->
                      IF row[1] < cutoff THEN 0 ELSE logs[row]]
       /\ writer' = NoWriter
       /\ pc' = [s \in Slots |-> "idle"]
       /\ key' = [s \in Slots |-> NoKey]
       /\ entry' = [s \in Slots |-> NoEntry]
       /\ backfill' = {}
       /\ UNCHANGED <<now, status, totals, rollup, recorded, rebuilt, served>>

\* backfill's SELECT: the days and groups that have log rows since the cutoff.
BackfillRows(span) ==
    LET since == {t \in Times : t >= now - span * TicksPerDay}
    IN {[day |-> d, group |-> g,
         requests |-> RowCount(logs, since \cap DayTimes(d), {g}, BOOLEAN)] :
            d \in Days, g \in Groups}

\* It takes no lock and holds no snapshot.
ReadBackfill ==
    /\ backfill = {}
    /\ \E span \in Spans :
          backfill' = {row \in BackfillRows(span) : row.requests > 0}
    /\ backfill' # {}
    /\ UNCHANGED <<now, status, totals, logs, rollup, writer, slotVars, recorded, rebuilt,
                   served>>

\* Mutant: every day is rebuilt, covered or not.
CoveredDays_All == Days

CoveredDays == {row.day : row \in backfill}

\* The rows a rebuilt bucket is inserted from: one, or none.
Rebuilt(b) ==
    LET rows == {row \in backfill : row.day = b[1] /\ row.group = b[2]}
    IN [requests |-> SumFunction([row \in rows |-> row.requests]), errors |-> 0]

\* Does the backfill hold every request of the day?
Whole(d) ==
    \A g \in Groups :
        Rebuilt(<<d, g>>).requests = RowCount(recorded, DayTimes(d), {g}, BOOLEAN)

WriteBackfill ==
    /\ backfill # {}
    /\ WriterFree
    /\ rollup' = [b \in Days \X Groups |->
                     IF b[1] \in CoveredDays THEN Rebuilt(b) ELSE rollup[b]]
    /\ rebuilt' = [d \in Days |->
                      IF d \notin {row.day : row \in backfill} THEN rebuilt[d]
                      ELSE IF Whole(d) THEN "whole" ELSE "part"]
    /\ backfill' = {}
    /\ UNCHANGED <<now, status, totals, logs, writer, slotVars, recorded, served>>

Next ==
    \/ \E k \in Keys : CreateKey(k) \/ DisableKey(k) \/ EnableKey(k) \/ DeleteKey(k)
    \/ \E s \in Slots : Authenticate(s) \/ CommitRecord(s) \/ Cancel(s)
    \/ \E s \in Slots, error \in BOOLEAN : BeginRecord(s, error)
    \/ Tick
    \/ Restart
    \/ ReadBackfill
    \/ WriteBackfill

Spec == Init /\ [][Next]_vars

-----------------------------------------------------------------------------
(* What operators read *)

Sum(rows) ==
    [requests |-> SumFunction([b \in rows |-> rollup[b].requests]),
     errors |-> SumFunction([b \in rows |-> rollup[b].errors])]

\* trend: the last span days, quiet ones included.
Trend(span) ==
    [d \in {e \in Days : e > Day(now) - span /\ e <= Day(now)} |->
        Sum({d} \X Groups)]

\* Mutant: the groups of a report are joined with the live keys.
ReportGroups_Live == {g \in Groups : g \in Keys => status[g] # "deleted"}

\* The groups of a report by api_key: a deleted key has a fallback label.
ReportGroups == Groups

\* reports.build by api_key, for an inclusive range of days.
Report(start, end) == [g \in ReportGroups |-> Sum((start..end) \X {g})]

-----------------------------------------------------------------------------
(* Properties *)

\* The trend counts every request that was recorded, and every error, however
\* requests that end together, restarts, cancelled streams and pruning
\* interleave; a day that a backfill rebuilt from a part of its requests is
\* excepted, and the errors of any rebuilt day (rollup.apply, rollup.trend).
TrendComplete ==
    LET trend == Trend(Cardinality(Days))
    IN \A d \in DOMAIN trend :
          /\ rebuilt[d] # "part" =>
                trend[d].requests = RowCount(recorded, DayTimes(d), Groups, BOOLEAN)
          /\ rebuilt[d] = "never" =>
                trend[d].errors = RowCount(recorded, DayTimes(d), Groups, {TRUE})

\* A report over the whole history bills every request to the key that made
\* it, also when the key has been deleted since, was deleted while the request
\* was under way, or the log has been pruned (reports.build).
BilledInFull ==
    (\A d \in Days : rebuilt[d] # "part") =>
        LET report == Report(0, Day(now))
        IN \A g \in Groups :
              LET billed == IF g \in DOMAIN report THEN report[g].requests ELSE 0
              IN billed = RowCount(recorded, Times, {g}, BOOLEAN)

\* Within any window a key gets at most its limit and one request less than
\* are served at once: the check reads the log when a request starts, the log
\* grows when it ends (api_keys/service.py, _enforce_window_budget).  The log
\* must reach as far back as the window.
BudgetBounded ==
    Window <= Retention =>
        \A k \in Keys :
            RowCount(recorded, {t \in Times : t >= now - Window}, {k}, BOOLEAN)
                <= Limit + Cardinality(Slots) - 1

\* The counter shown for a key agrees with what was recorded for it as long as
\* the key exists: increments read and written in two steps are not lost.
TotalsAgree ==
    \A k \in Keys :
        status[k] # "deleted" => totals[k] = RowCount(recorded, Times, {k}, BOOLEAN)

-----------------------------------------------------------------------------
(* What the documentation says and the code does not do *)

\* backfill's docstring: "Only touches days the logs still cover, so it cannot
\* clobber older rollup rows".  What it has read of a day that is over, and is
\* going to put in place of the day's buckets, counts no less than they do.
OnlyCoveredDays ==
    [][backfill = {} =>
           \A row \in backfill', g \in Groups :
               row.day < Day(now) =>
                   Rebuilt(<<row.day, g>>)'.requests >= rollup[<<row.day, g>>].requests]_vars
=============================================================================
