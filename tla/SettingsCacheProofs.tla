------------------------- MODULE SettingsCacheProofs -------------------------
(***************************************************************************)
(* Theorems about SettingsCache: for every set of requests and workers,    *)
(* every TTL and every duration of a load.                                 *)
(***************************************************************************)
EXTENDS SettingsCache, TLAPS

LEMMA ConstantTypes ==
    /\ NoRequest \notin Requests
    /\ WorkerOf \in [Requests -> Workers]
    /\ TTL \in Nat /\ TTL > 0
    /\ MaxLoad \in Nat
    /\ MaxVersion \in Nat
    /\ 0 \in Versions
    /\ 0 \in Ages
    /\ NoCache \in [version : Versions, age : 0..TTL]
BY SettingsAssumption DEF SettingsAssumption, Versions, Ages, NoCache

\* The initial state satisfies the invariant: every cache is empty.
LEMMA InitInv == Init => IndInv
<1> SUFFICES ASSUME Init PROVE IndInv
  OBVIOUS
<1> USE ConstantTypes DEF Init
<1>1. TypeOK
  BY DEF TypeOK
<1>2. LoadsAreRecent
  BY DEF LoadsAreRecent
<1>3. \A w \in Workers : ~Fresh(w)
  BY DEF Fresh, NoCache
<1>4. EntriesAreRecent /\ NeverUncommitted
  BY <1>3 DEF EntriesAreRecent, NeverUncommitted
<1>5. VersionsCommitted
  BY DEF VersionsCommitted, Versions
<1>6. WriterFlushes
  BY DEF WriterFlushes
<1>. QED BY <1>1, <1>2, <1>4, <1>5, <1>6 DEF IndInv

-----------------------------------------------------------------------------
(* What the steps have in common *)

\* A step that leaves committed settings, caches and clocks alone and takes no
\* request to a SELECT or a flush keeps what the invariant says of the caches.
LEMMA EndKeeps ==
    ASSUME IndInv, NEW r \in Requests, End(r)
    PROVE  /\ pc' \in [Requests -> {"idle", "selected", "loaded", "fetched", "flushed"}]
           /\ kind' \in [Requests -> {"none", "cached", "uncached", "patch", "reset"}]
           /\ snap' \in [Requests -> Versions]
           /\ took' \in [Requests -> 0..MaxLoad]
           /\ hasRow' \in [Requests -> BOOLEAN]
           /\ pc'[r] = "idle" /\ snap'[r] = 0
           /\ \A q \in Requests \ {r} :
                  pc'[q] = pc[q] /\ snap'[q] = snap[q] /\ took'[q] = took[q]
BY ConstantTypes DEF IndInv, TypeOK, End

LEMMA ReleasedType ==
    ASSUME IndInv, NEW r \in Requests
    PROVE  /\ Released(r) \in Requests \cup {NoRequest}
           /\ Released(r) # r
           /\ \A q \in Requests \ {r} : writer = q => Released(r) = q
BY ConstantTypes DEF IndInv, TypeOK, Released

\* An ended request keeps the invariant, when the step leaves the committed
\* settings alone and every cache as it is or empty.
LEMMA EndInv ==
    ASSUME IndInv, NEW r \in Requests, End(r), UNCHANGED <<db, gone>>,
           writer' \in Requests \cup {NoRequest},
           \A q \in Requests \ {r} : writer = q => writer' = q,
           cache' \in [Workers -> [version : Versions, age : 0..TTL]],
           \A w \in Workers : \/ cache'[w] = cache[w]
                              \/ /\ gone[cache'[w].version] <= cache'[w].age + MaxLoad
                                 /\ cache'[w].version <= db.version
    PROVE  IndInv'
<1>1. TypeOK'
  BY EndKeeps DEF IndInv, TypeOK
<1>2. LoadsAreRecent'
  BY EndKeeps DEF IndInv, LoadsAreRecent
<1>3. EntriesAreRecent'
  BY DEF IndInv, EntriesAreRecent, Fresh
<1>4. NeverUncommitted'
  BY DEF IndInv, NeverUncommitted, Fresh
<1>5. VersionsCommitted'
  <2>1. db.version >= 0 /\ snap'[r] = 0
    BY EndKeeps, ConstantTypes DEF IndInv, TypeOK, Versions
  <2>2. \A q \in Requests \ {r} : snap'[q] = snap[q] /\ snap[q] <= db.version
    BY EndKeeps DEF IndInv, VersionsCommitted
  <2>3. \A q \in Requests : snap'[q] <= db'.version
    BY <2>1, <2>2
  <2>. QED BY <2>3 DEF IndInv, VersionsCommitted
<1>6. WriterFlushes'
  BY EndKeeps DEF IndInv, WriterFlushes
<1>. QED BY <1>1, <1>2, <1>3, <1>4, <1>5, <1>6 DEF IndInv

-----------------------------------------------------------------------------
(* The steps *)

\* The SELECT reads the last commit, which nothing has superseded.
LEMMA SelectInv ==
    ASSUME IndInv, NEW r \in Requests, NEW k \in {"cached", "uncached", "patch"}, Select(r, k)
    PROVE  IndInv'
<1> USE ConstantTypes
<1>1. TypeOK'
  BY DEF IndInv, TypeOK, Select
<1>2. LoadsAreRecent'
  <2> SUFFICES ASSUME NEW q \in Requests, pc'[q] = "selected"
               PROVE  gone[snap'[q]] <= took[q]
    BY DEF LoadsAreRecent, Select
  <2>1. CASE q = r
    <3>1. snap'[q] = db.version /\ db.version \in Versions
      BY <2>1 DEF IndInv, TypeOK, Select
    <3>2. gone[db.version] = 0
      BY <3>1 DEF IndInv, VersionsCommitted, Versions
    <3>3. took[q] >= 0
      BY DEF IndInv, TypeOK
    <3>. QED BY <3>1, <3>2, <3>3
  <2>2. CASE q # r
    BY <2>2 DEF IndInv, TypeOK, LoadsAreRecent, Select
  <2>. QED BY <2>1, <2>2
<1>3. EntriesAreRecent' /\ NeverUncommitted'
  BY DEF IndInv, EntriesAreRecent, NeverUncommitted, Fresh, Select
<1>4. VersionsCommitted'
  BY DEF IndInv, TypeOK, VersionsCommitted, Versions, Select
<1>5. WriterFlushes'
  BY DEF IndInv, TypeOK, WriterFlushes, Select
<1>. QED BY <1>1, <1>2, <1>3, <1>4, <1>5 DEF IndInv

\* What a load puts in the cache is no older than its SELECT took.
LEMMA FillInv ==
    ASSUME IndInv, NEW r \in Requests, Fill(r)
    PROVE  IndInv'
<1> USE ConstantTypes
<1>1. /\ cache' \in [Workers -> [version : Versions, age : 0..TTL]]
      /\ \A w \in Workers : \/ cache'[w] = cache[w]
                            \/ cache'[w] = [version |-> snap[r], age |-> 0]
  BY DEF IndInv, TypeOK, Fill, Filled
<1>2. gone[snap[r]] <= MaxLoad /\ snap[r] <= db.version
  BY DEF IndInv, TypeOK, LoadsAreRecent, VersionsCommitted, Ages, Fill
<1>3. \A w \in Workers : \/ cache'[w] = cache[w]
                         \/ /\ gone[cache'[w].version] <= cache'[w].age + MaxLoad
                            /\ cache'[w].version <= db.version
  BY <1>1, <1>2
<1>4. ASSUME kind[r] = "patch" PROVE IndInv'
  <2>1. /\ UNCHANGED <<db, writer, gone, kind, snap, hasRow>>
        /\ pc' = [pc EXCEPT ![r] = "loaded"]
        /\ took' = [took EXCEPT ![r] = 0]
    BY <1>4 DEF Fill
  <2>2. TypeOK'
    BY <1>1, <2>1 DEF IndInv, TypeOK
  <2>3. LoadsAreRecent'
    BY <2>1 DEF IndInv, TypeOK, LoadsAreRecent
  <2>4. EntriesAreRecent' /\ NeverUncommitted'
    BY <1>3, <2>1 DEF IndInv, EntriesAreRecent, NeverUncommitted, Fresh
  <2>5. VersionsCommitted'
    BY <2>1 DEF IndInv, VersionsCommitted
  <2>6. WriterFlushes'
    BY <2>1 DEF IndInv, TypeOK, WriterFlushes
  <2>. QED BY <2>2, <2>3, <2>4, <2>5, <2>6 DEF IndInv
<1>5. ASSUME kind[r] # "patch" PROVE IndInv'
  <2>1. End(r) /\ UNCHANGED <<db, writer, gone>>
    BY <1>5 DEF Fill
  <2>. QED BY <1>1, <1>3, <2>1, EndInv DEF IndInv, TypeOK
<1>. QED BY <1>4, <1>5

LEMMA RejectInv ==
    ASSUME IndInv, NEW r \in Requests, Reject(r)
    PROVE  IndInv'
<1>1. End(r) /\ UNCHANGED <<db, cache, gone>> /\ writer' = Released(r)
  BY DEF Reject
<1>. QED BY <1>1, EndInv, ReleasedType DEF IndInv, TypeOK

LEMMA FetchInv ==
    ASSUME IndInv, NEW r \in Requests, Fetch(r)
    PROVE  IndInv'
<1>1. TypeOK'
  BY DEF IndInv, TypeOK, Fetch
<1>2. LoadsAreRecent' /\ VersionsCommitted' /\ WriterFlushes'
  BY DEF IndInv, TypeOK, LoadsAreRecent, VersionsCommitted, WriterFlushes, Fetch
<1>3. EntriesAreRecent' /\ NeverUncommitted'
  BY DEF IndInv, EntriesAreRecent, NeverUncommitted, Fresh, Fetch
<1>. QED BY <1>1, <1>2, <1>3 DEF IndInv

\* An empty cache is as good as any, and there is one writer.
LEMMA Invalidates ==
    ASSUME IndInv, NEW w \in Workers, cache' = [cache EXCEPT ![w] = Invalidated(w)],
           UNCHANGED <<db, gone>>
    PROVE  /\ cache' \in [Workers -> [version : Versions, age : 0..TTL]]
           /\ EntriesAreRecent' /\ NeverUncommitted'
<1> USE ConstantTypes
<1>1. /\ cache' \in [Workers -> [version : Versions, age : 0..TTL]]
      /\ \A v \in Workers : cache'[v] = cache[v] \/ cache'[v].age = TTL
  BY DEF IndInv, TypeOK, Invalidated, NoCache
<1>2. \A v \in Workers : Fresh(v)' => Fresh(v) /\ cache'[v] = cache[v]
  BY <1>1 DEF Fresh
<1>. QED BY <1>1, <1>2 DEF IndInv, EntriesAreRecent, NeverUncommitted

LEMMA FlushInv ==
    ASSUME IndInv, NEW r \in Requests, Flush(r)
    PROVE  IndInv'
<1> USE ConstantTypes
<1>1. ASSUME hasRow[r] = db.row PROVE IndInv'
  <2>1. /\ UNCHANGED <<db, gone, kind, snap, took, hasRow>>
        /\ writer' = r /\ writer \in {NoRequest, r}
        /\ db.version < MaxVersion
        /\ pc' = [pc EXCEPT ![r] = "flushed"]
        /\ cache' = [cache EXCEPT ![WorkerOf[r]] = Invalidated(WorkerOf[r])]
    BY <1>1 DEF Flush
  <2>2. /\ cache' \in [Workers -> [version : Versions, age : 0..TTL]]
        /\ EntriesAreRecent' /\ NeverUncommitted'
    BY <2>1, Invalidates
  <2>3. TypeOK'
    BY <2>1, <2>2 DEF IndInv, TypeOK
  <2>4. LoadsAreRecent' /\ VersionsCommitted'
    BY <2>1 DEF IndInv, TypeOK, LoadsAreRecent, VersionsCommitted
  <2>5. WriterFlushes'
    BY <2>1 DEF IndInv, TypeOK, WriterFlushes
  <2>. QED BY <2>2, <2>3, <2>4, <2>5 DEF IndInv
<1>2. ASSUME hasRow[r] # db.row PROVE IndInv'
  <2>1. End(r) /\ UNCHANGED <<db, cache, gone>> /\ writer' = Released(r)
    BY <1>2 DEF Flush
  <2>. QED BY <2>1, EndInv, ReleasedType DEF IndInv, TypeOK
<1>. QED BY <1>1, <1>2

LEMMA ResetInv ==
    ASSUME IndInv, NEW r \in Requests, Reset(r)
    PROVE  IndInv'
<1> USE ConstantTypes
<1>1. /\ cache' \in [Workers -> [version : Versions, age : 0..TTL]]
      /\ EntriesAreRecent' /\ NeverUncommitted'
  BY Invalidates DEF Reset
<1>2. TypeOK'
  BY <1>1 DEF IndInv, TypeOK, Reset
<1>3. LoadsAreRecent' /\ VersionsCommitted' /\ WriterFlushes'
  BY DEF IndInv, TypeOK, LoadsAreRecent, VersionsCommitted, WriterFlushes, Reset
<1>. QED BY <1>1, <1>2, <1>3 DEF IndInv

\* A commit supersedes what the caches hold, from now on; no other request can
\* have flushed.
LEMMA CommitInv ==
    ASSUME IndInv, NEW r \in Requests, Commit(r)
    PROVE  IndInv'
<1> USE ConstantTypes
<1>1. /\ End(r) /\ UNCHANGED <<cache, gone>> /\ writer' = NoRequest
      /\ db' = [version |-> db.version + 1, row |-> kind[r] = "patch"]
      /\ db.version \in Versions /\ db.version < MaxVersion /\ writer = r
  BY DEF Commit, IndInv, TypeOK, WriterFlushes
<1>2. db'.version = db.version + 1 /\ db' \in [version : Versions, row : BOOLEAN]
  BY <1>1 DEF Versions
<1>3. TypeOK'
  BY <1>1, <1>2, EndKeeps DEF IndInv, TypeOK
<1>4. LoadsAreRecent'
  BY <1>1, EndKeeps DEF IndInv, LoadsAreRecent
<1>5. EntriesAreRecent'
  BY <1>1 DEF IndInv, EntriesAreRecent, Fresh
<1>6. NeverUncommitted'
  BY <1>1, <1>2 DEF IndInv, TypeOK, Versions, NeverUncommitted, Fresh
<1>7. VersionsCommitted'
  <2>1. db.version \in Int /\ db.version >= 0 /\ snap'[r] = 0
    BY <1>1, EndKeeps DEF Versions
  <2>2. \A q \in Requests \ {r} : /\ snap'[q] = snap[q] /\ snap[q] <= db.version
                                  /\ snap[q] \in Int
    BY <1>1, EndKeeps DEF IndInv, TypeOK, Versions, VersionsCommitted
  <2>3. \A q \in Requests : snap'[q] <= db'.version
    BY <1>2, <2>1, <2>2
  <2>4. \A v \in Versions : v >= db'.version => gone'[v] = 0
    BY <1>1, <1>2, <2>1 DEF IndInv, VersionsCommitted, Versions
  <2>. QED BY <2>3, <2>4 DEF VersionsCommitted
<1>8. WriterFlushes'
  BY <1>1, EndKeeps DEF IndInv, WriterFlushes
<1>. QED BY <1>3, <1>4, <1>5, <1>6, <1>7, <1>8 DEF IndInv

LEMMA RollbackInv ==
    ASSUME IndInv, NEW r \in Requests, Rollback(r)
    PROVE  IndInv'
<1> USE ConstantTypes
<1>1. End(r) /\ UNCHANGED <<db, cache, gone>> /\ writer' = NoRequest /\ writer = r
  BY DEF Rollback, IndInv, WriterFlushes
<1>. QED BY <1>1, EndInv DEF IndInv, TypeOK

\* Loads, entries and superseded versions grow older together.
LEMMA TickInv ==
    ASSUME IndInv, Tick
    PROVE  IndInv'
<1> USE ConstantTypes
<1>1. UNCHANGED <<db, writer, pc, kind, snap, hasRow>>
  BY DEF Tick
<1>2. /\ took' \in [Requests -> 0..MaxLoad]
      /\ \A q \in Requests : pc[q] = "selected" => took'[q] = took[q] + 1
  BY DEF Tick, IndInv, TypeOK
<1>3. /\ gone' \in [Versions -> Ages]
      /\ \A v \in Versions : gone'[v] <= gone[v] + 1 /\ (v >= db.version => gone'[v] = gone[v])
  <2>1. \A age \in Ages : Older(age, TTL + MaxLoad) \in Ages /\ Older(age, TTL + MaxLoad) <= age + 1
    BY DEF Older, Ages
  <2>2. \A v \in Versions : gone[v] \in Ages /\ v \in Int /\ db.version \in Int
    BY DEF IndInv, TypeOK, Versions
  <2>. QED BY <2>1, <2>2 DEF Tick, Ages
<1>4. /\ cache' \in [Workers -> [version : Versions, age : 0..TTL]]
      /\ \A w \in Workers : cache'[w].age < TTL =>
             /\ cache[w].age < TTL
             /\ cache'[w].age = cache[w].age + 1
             /\ cache'[w].version = cache[w].version
  <2> DEFINE Aged(w) == IF cache[w].age + 1 < TTL THEN [cache[w] EXCEPT !.age = @ + 1] ELSE NoCache
  <2>1. cache' = [w \in Workers |-> Aged(w)]
    BY DEF Tick
  <2>2. \A w \in Workers : cache[w] \in [version : Versions, age : 0..TTL]
    BY DEF IndInv, TypeOK
  <2>3. \A w \in Workers :
            /\ Aged(w) \in [version : Versions, age : 0..TTL]
            /\ Aged(w).age < TTL => /\ cache[w].age < TTL
                                    /\ Aged(w).age = cache[w].age + 1
                                    /\ Aged(w).version = cache[w].version
    BY <2>2 DEF NoCache
  <2> HIDE DEF Aged
  <2>. QED BY <2>1, <2>3
<1>5. TypeOK'
  BY <1>1, <1>2, <1>3, <1>4 DEF IndInv, TypeOK
<1>6. LoadsAreRecent'
  <2> SUFFICES ASSUME NEW q \in Requests, pc[q] = "selected"
               PROVE  gone'[snap[q]] <= took'[q]
    BY <1>1 DEF LoadsAreRecent
  <2>1. gone[snap[q]] <= took[q] /\ snap[q] \in Versions /\ took[q] \in Int
    BY DEF IndInv, TypeOK, LoadsAreRecent
  <2>2. gone[snap[q]] \in Int /\ gone'[snap[q]] \in Int
    BY <2>1, <1>3 DEF IndInv, TypeOK, Ages
  <2>. QED BY <1>2, <1>3, <2>1, <2>2
<1>7. EntriesAreRecent'
  <2> SUFFICES ASSUME NEW w \in Workers, cache'[w].age < TTL
               PROVE  gone'[cache'[w].version] <= cache'[w].age + MaxLoad
    BY DEF EntriesAreRecent, Fresh
  <2> DEFINE v == cache[w].version
  <2>1. v \in Versions /\ cache[w].age \in Int /\ gone[v] <= cache[w].age + MaxLoad
    BY <1>4 DEF IndInv, TypeOK, EntriesAreRecent, Fresh
  <2>2. gone[v] \in Int /\ gone'[v] \in Int
    BY <2>1, <1>3 DEF IndInv, TypeOK, Ages
  <2>3. gone'[v] <= gone[v] + 1
    BY <1>3, <2>1
  <2>4. cache'[w].version = v /\ cache'[w].age = cache[w].age + 1
    BY <1>4
  <2> HIDE DEF v
  <2>. QED BY <2>1, <2>2, <2>3, <2>4
<1>8. NeverUncommitted'
  BY <1>1, <1>4 DEF IndInv, NeverUncommitted, Fresh
<1>9. VersionsCommitted' /\ WriterFlushes'
  BY <1>1, <1>3 DEF IndInv, VersionsCommitted, WriterFlushes
<1>. QED BY <1>5, <1>6, <1>7, <1>8, <1>9 DEF IndInv

LEMMA StepInv == IndInv /\ [Next]_vars => IndInv'
<1> SUFFICES ASSUME IndInv, [Next]_vars PROVE IndInv'
  OBVIOUS
<1>1. ASSUME UNCHANGED vars PROVE IndInv'
  BY <1>1 DEF vars, requestVars, IndInv, TypeOK, LoadsAreRecent, EntriesAreRecent,
              VersionsCommitted, WriterFlushes, NeverUncommitted, Fresh
<1>2. ASSUME NEW r \in Requests, NEW k \in {"cached", "uncached", "patch"}, Select(r, k)
      PROVE  IndInv'
  BY <1>2, SelectInv
<1>3. ASSUME NEW r \in Requests,
             \/ Fill(r) \/ Reject(r) \/ Fetch(r) \/ Flush(r) \/ Reset(r) \/ Commit(r) \/ Rollback(r)
      PROVE  IndInv'
  BY <1>3, FillInv, RejectInv, FetchInv, FlushInv, ResetInv, CommitInv, RollbackInv
<1>4. ASSUME Tick PROVE IndInv'
  BY <1>4, TickInv
<1>. QED BY <1>1, <1>2, <1>3, <1>4 DEF Next

-----------------------------------------------------------------------------
(* The theorems *)

\* Nothing a step does breaks the invariant that the properties rest on.
THEOREM Invariance == Spec => []IndInv
BY InitInv, StepInv, PTL DEF Spec

\* However loads, updates and resets overlap in the workers, no worker serves
\* settings that were superseded longer ago than the TTL and the time one load
\* takes (service.load).
THEOREM ServesRecent == Spec => []StalenessBounded
<1>1. IndInv => StalenessBounded
  <2> SUFFICES ASSUME IndInv, NEW w \in Workers, Fresh(w)
               PROVE  gone[cache[w].version] < TTL + MaxLoad
    BY DEF StalenessBounded
  <2>1. gone[cache[w].version] <= cache[w].age + MaxLoad /\ cache[w].age < TTL
    BY DEF IndInv, EntriesAreRecent, Fresh
  <2>2. cache[w].age \in Int /\ cache[w].version \in Versions
    BY DEF IndInv, TypeOK
  <2>3. gone[cache[w].version] \in Int
    BY <2>2, ConstantTypes DEF IndInv, TypeOK, Ages
  <2>. QED BY <2>1, <2>2, <2>3, ConstantTypes
<1>. QED BY <1>1, Invariance, PTL

\* No worker serves settings that were flushed and may be rolled back
\* (service.update, service.reset, service.invalidate).
THEOREM ServesCommitted == Spec => []NeverUncommitted
<1>1. IndInv => NeverUncommitted
  BY DEF IndInv
<1>. QED BY <1>1, Invariance, PTL

\* The cache, the transaction and the local state of the handlers keep their
\* types (settings/service.py).
THEOREM TypeCorrect == Spec => []TypeOK
<1>1. IndInv => TypeOK
  BY DEF IndInv
<1>. QED BY <1>1, Invariance, PTL
=============================================================================
