---------------------------- MODULE SettingsCache ----------------------------
(***************************************************************************)
(* Runtime settings: one row that operators change or reset at run time,   *)
(* and a cache of it in every worker process (settings/service.py,         *)
(* settings/api.py).  Handlers interleave at every await: the SELECT of a  *)
(* load, the flush of an update, its commit at the end of the request.     *)
(*                                                                         *)
(* The settings of each commit are a version.  Time is relative: ages      *)
(* grow with Tick.  A load served from a fresh cache changes nothing and   *)
(* has no action; what it would return is what the cache holds.            *)
(***************************************************************************)
EXTENDS Integers

CONSTANTS
    Requests,       \* handlers that may run at the same time
    NoRequest,
    Workers, WorkerOf,  \* the processes, and the one each request runs in
    TTL,            \* _CACHE_TTL_SECONDS, in ticks
    MaxLoad,        \* how many ticks the SELECT of a load may take
    MaxVersion      \* bound of an instance

ASSUME SettingsAssumption ==
    /\ NoRequest \notin Requests
    /\ WorkerOf \in [Requests -> Workers]
    /\ TTL \in Nat \ {0}
    /\ MaxLoad \in Nat
    /\ MaxVersion \in Nat

VARIABLES
    db,         \* the committed settings, and whether a row overrides the defaults
    writer,     \* the transaction that holds the write lock
    cache,      \* of each worker; of age TTL when there is none
    pc, kind, snap, took, hasRow, \* the local state of each request
    gone        \* history: how long ago a version was superseded

requestVars == <<pc, kind, snap, took, hasRow>>
vars == <<db, writer, cache, requestVars, gone>>

Versions == 0..MaxVersion
Ages == 0..TTL + MaxLoad

Fresh(w) == cache[w].age < TTL

NoCache == [version |-> 0, age |-> TTL]

TypeOK ==
    /\ db \in [version : Versions, row : BOOLEAN]
    /\ writer \in Requests \cup {NoRequest}
    /\ cache \in [Workers -> [version : Versions, age : 0..TTL]]
    /\ pc \in [Requests -> {"idle", "selected", "loaded", "fetched", "flushed"}]
    /\ kind \in [Requests -> {"none", "cached", "uncached", "patch", "reset"}]
    /\ snap \in [Requests -> Versions]
    /\ took \in [Requests -> 0..MaxLoad]
    /\ hasRow \in [Requests -> BOOLEAN]
    /\ gone \in [Versions -> Ages]

Init ==
    /\ db = [version |-> 0, row |-> FALSE]
    /\ writer = NoRequest
    /\ cache = [w \in Workers |-> NoCache]
    /\ pc = [r \in Requests |-> "idle"]
    /\ kind = [r \in Requests |-> "none"]
    /\ snap = [r \in Requests |-> 0]
    /\ took = [r \in Requests |-> 0]
    /\ hasRow = [r \in Requests |-> FALSE]
    /\ gone = [v \in Versions |-> 0]

\* The request is over, and with it a lock it held.
Released(r) == IF writer = r THEN NoRequest ELSE writer

End(r) ==
    /\ pc' = [pc EXCEPT ![r] = "idle"]
    /\ kind' = [kind EXCEPT ![r] = "none"]
    /\ snap' = [snap EXCEPT ![r] = 0]
    /\ took' = [took EXCEPT ![r] = 0]
    /\ hasRow' = [hasRow EXCEPT ![r] = FALSE]

-----------------------------------------------------------------------------
(* load *)

\* The SELECT: by a proxied request whose worker has no fresh entry, by GET
\* /settings or the scheduler, who bypass the cache, or by an update.  The
\* update of an operator who is signed in first flushes the session's
\* last_seen_at, which takes the write lock.
Select(r, k) ==
    /\ pc[r] = "idle"
    /\ k = "cached" => ~Fresh(WorkerOf[r])
    /\ pc' = [pc EXCEPT ![r] = "selected"]
    /\ kind' = [kind EXCEPT ![r] = k]
    /\ snap' = [snap EXCEPT ![r] = db.version]
    /\ \/ UNCHANGED writer
       \/ /\ k = "patch"
          /\ writer = NoRequest
          /\ writer' = r
    /\ UNCHANGED <<db, cache, took, hasRow, gone>>

\* Mutant: a load renews the entry there is instead of replacing it.
Filled_Renewed(r) ==
    IF cache[WorkerOf[r]] = NoCache THEN [version |-> snap[r], age |-> 0]
    ELSE [cache[WorkerOf[r]] EXCEPT !.age = 0]

\* The entry a load leaves: stamped when its SELECT has returned.
Filled(r) == [version |-> snap[r], age |-> 0]

\* Every load fills the cache, the ones that bypass it too.
Fill(r) ==
    /\ pc[r] = "selected"
    /\ cache' = [cache EXCEPT ![WorkerOf[r]] = Filled(r)]
    /\ IF kind[r] = "patch"
       THEN /\ pc' = [pc EXCEPT ![r] = "loaded"]
            /\ took' = [took EXCEPT ![r] = 0]
            /\ UNCHANGED <<kind, snap, hasRow>>
       ELSE End(r)
    /\ UNCHANGED <<db, writer, gone>>

-----------------------------------------------------------------------------
(* update and reset *)

\* The merged settings do not validate: 422.
Reject(r) ==
    /\ pc[r] = "loaded"
    /\ writer' = Released(r)
    /\ End(r)
    /\ UNCHANGED <<db, cache, gone>>

\* session.get: is there a row to update?
Fetch(r) ==
    /\ pc[r] = "loaded"
    /\ pc' = [pc EXCEPT ![r] = "fetched"]
    /\ hasRow' = [hasRow EXCEPT ![r] = db.row]
    /\ UNCHANGED <<db, writer, cache, kind, snap, took, gone>>

\* Mutant: the new settings are put in the cache rather than dropped from it.
Invalidated_Written(w) == [version |-> db.version + 1, age |-> 0]

\* invalidate, before the commit.
Invalidated(w) == NoCache

\* The flush takes the write lock.  It fails when the row to insert exists by
\* now, or the row to update does not.
Flush(r) ==
    /\ pc[r] = "fetched"
    /\ writer \in {NoRequest, r}
    /\ db.version < MaxVersion
    /\ IF hasRow[r] = db.row
       THEN /\ writer' = r
            /\ cache' = [cache EXCEPT ![WorkerOf[r]] = Invalidated(WorkerOf[r])]
            /\ pc' = [pc EXCEPT ![r] = "flushed"]
            /\ UNCHANGED <<kind, snap, took, hasRow>>
       ELSE /\ writer' = Released(r)
            /\ End(r)
            /\ UNCHANGED cache
    /\ UNCHANGED <<db, gone>>

\* reset: its audit row takes the write lock before the rows are read.
Reset(r) ==
    /\ pc[r] = "idle"
    /\ writer = NoRequest
    /\ db.version < MaxVersion
    /\ writer' = r
    /\ cache' = [cache EXCEPT ![WorkerOf[r]] = Invalidated(WorkerOf[r])]
    /\ pc' = [pc EXCEPT ![r] = "flushed"]
    /\ kind' = [kind EXCEPT ![r] = "reset"]
    /\ UNCHANGED <<db, snap, took, hasRow, gone>>

\* The request ends and its session commits.
Commit(r) ==
    /\ pc[r] = "flushed"
    /\ db' = [version |-> db.version + 1, row |-> kind[r] = "patch"]
    /\ writer' = NoRequest
    /\ End(r)
    /\ UNCHANGED <<cache, gone>>

\* The audit row or the commit fails.
Rollback(r) ==
    /\ pc[r] = "flushed"
    /\ writer' = NoRequest
    /\ End(r)
    /\ UNCHANGED <<db, cache, gone>>

-----------------------------------------------------------------------------
Older(age, most) == IF age < most THEN age + 1 ELSE most

\* Time passes; no SELECT takes longer than MaxLoad.
Tick ==
    /\ \A r \in Requests : pc[r] = "selected" => took[r] < MaxLoad
    /\ took' = [r \in Requests |-> IF pc[r] = "selected" THEN took[r] + 1 ELSE took[r]]
    /\ cache' = [w \in Workers |->
                    IF cache[w].age + 1 < TTL THEN [cache[w] EXCEPT !.age = @ + 1] ELSE NoCache]
    /\ gone' = [v \in Versions |->
                    IF v < db.version THEN Older(gone[v], TTL + MaxLoad) ELSE gone[v]]
    /\ UNCHANGED <<db, writer, pc, kind, snap, hasRow>>

Next ==
    \/ \E r \in Requests :
          \/ \E k \in {"cached", "uncached", "patch"} : Select(r, k)
          \/ Fill(r)
          \/ Reject(r)
          \/ Fetch(r)
          \/ Flush(r)
          \/ Reset(r)
          \/ Commit(r)
          \/ Rollback(r)
    \/ Tick

\* Time passes, and a SELECT and a commit return.  Nothing makes an operator
\* or a client come back.
Fairness ==
    /\ WF_vars(Tick)
    /\ \A r \in Requests : WF_vars(Fill(r)) /\ WF_vars(Commit(r) \/ Rollback(r))

Spec == Init /\ [][Next]_vars
FairSpec == Spec /\ Fairness

-----------------------------------------------------------------------------
(* Properties *)

\* No request is served settings that were superseded longer ago than the TTL
\* and the time a load takes, in any worker, whatever loads, updates and resets
\* overlap (service.load, _CACHE_TTL_SECONDS).
StalenessBounded ==
    \A w \in Workers : Fresh(w) => gone[cache[w].version] < TTL + MaxLoad

\* Settings that were written but not committed, and may still be rolled back,
\* are never in a cache: update and reset invalidate it, they do not fill it.
NeverUncommitted == \A w \in Workers : Fresh(w) => cache[w].version <= db.version

\* When operators stop changing the settings, every worker comes to serve the
\* last ones and no other, though nobody tells it of the change.
Converges == <>[](\A w \in Workers : Fresh(w) => cache[w].version = db.version)

-----------------------------------------------------------------------------
(* Why it holds: the inductive invariant *)

LoadsAreRecent ==
    \A r \in Requests : pc[r] = "selected" => gone[snap[r]] <= took[r]

EntriesAreRecent ==
    \A w \in Workers : Fresh(w) => gone[cache[w].version] <= cache[w].age + MaxLoad

VersionsCommitted ==
    /\ \A r \in Requests : snap[r] <= db.version
    /\ \A v \in Versions : v >= db.version => gone[v] = 0

WriterFlushes ==
    \A r \in Requests : pc[r] = "flushed" => db.version < MaxVersion /\ writer = r

IndInv ==
    /\ TypeOK
    /\ LoadsAreRecent
    /\ EntriesAreRecent
    /\ VersionsCommitted
    /\ WriterFlushes
    /\ NeverUncommitted
=============================================================================
