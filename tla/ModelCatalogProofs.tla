------------------------- MODULE ModelCatalogProofs -------------------------
(***************************************************************************)
(* Theorems about ModelCatalog: for every set of accounts, of syncers and  *)
(* of requests, finite or not, and any number of events.                   *)
(***************************************************************************)
EXTENDS ModelCatalog, TLAPS

LEMMA ConstantTypes == MaxEvents \in Nat /\ StartTruths \subseteq Truths
BY CatalogAssumption DEF CatalogAssumption

-----------------------------------------------------------------------------
(* The inductive invariant *)

\* What a catalog says now, it has said to a request that is reading.
SaysNow ==
    \A r \in Requests : reader[r].pc \in {"loaded", "synced"} =>
        \A a \in Accounts : catalog[a] \in said[r][a]

\* The first query found the accounts synced that had a list then, and no others.
SyncedRead ==
    \A r \in Requests : reader[r].pc = "synced" =>
        \A a \in Accounts : IF a \in reader[r].synced
                           THEN "serves" \in said[r][a] \/ "omits" \in said[r][a]
                           ELSE "none" \in said[r][a]

IndInv ==
    /\ TypeOK
    /\ SaysNow
    /\ SyncedRead

LEMMA InitInv == Init => IndInv
<1> SUFFICES ASSUME Init PROVE IndInv
  OBVIOUS
<1>1. TypeOK
  <2>1. /\ events \in 0..MaxEvents
        /\ row \in [Accounts -> {"absent", "enabled", "disabled", "deleted"}]
        /\ truth \in [Accounts -> Truths]
        /\ catalog \in [Accounts -> Catalogs]
    BY ConstantTypes DEF Init, Catalogs
  <2>2. /\ phase \in [Syncers -> {"idle", "asking", "ended"}]
        /\ answers \in [Syncers -> [Accounts -> Truths \cup {"skipped", "asked"}]]
    BY DEF Init, NoRound
  <2>3. /\ reader \in [Requests -> [pc : {"idle", "loaded", "synced", "routed"},
                                    loaded : SUBSET Accounts, synced : SUBSET Accounts,
                                    candidates : SUBSET Accounts]]
        /\ said \in [Requests -> [Accounts -> SUBSET Catalogs]]
    BY DEF Init, Idle, Unread
  <2>. QED BY <2>1, <2>2, <2>3 DEF TypeOK
<1>2. \A r \in Requests : reader[r].pc = "idle"
  BY DEF Init, Idle
<1>. QED BY <1>1, <1>2 DEF IndInv, SaysNow, SyncedRead

-----------------------------------------------------------------------------
(* Type correctness *)

LEMMA RoundType ==
    ASSUME TypeOK, NEW s \in Syncers, SyncStep(s) \/ FailRound(s)
    PROVE  TypeOK'
<1>1. CASE StartRound(s)
  BY <1>1 DEF StartRound, TypeOK
<1>2. ASSUME NEW a \in Accounts, Answer(s, a) PROVE TypeOK'
  <2>1. answers'[s] \in [Accounts -> Truths \cup {"skipped", "asked"}]
    BY <1>2 DEF Answer, TypeOK
  <2>2. answers' \in [Syncers -> [Accounts -> Truths \cup {"skipped", "asked"}]]
    BY <1>2, <2>1 DEF Answer, TypeOK
  <2>. QED BY <1>2, <2>2 DEF Answer, TypeOK
<1>3. CASE CommitRound(s)
  <2>1. \A a \in Accounts : Replaced(catalog[a], answers[s][a]) \in Catalogs
    BY <1>3 DEF CommitRound, TypeOK, Replaced, Truths
  <2>2. catalog' \in [Accounts -> Catalogs]
    BY <1>3, <2>1 DEF CommitRound
  <2>3. said' \in [Requests -> [Accounts -> SUBSET Catalogs]]
    <3>1. ASSUME NEW r \in Requests
          PROVE  [a \in Accounts |-> said[r][a] \cup {catalog'[a]}] \in [Accounts -> SUBSET Catalogs]
      BY <2>2 DEF TypeOK
    <3>. QED BY <1>3, <3>1 DEF CommitRound, TypeOK
  <2>4. /\ phase' \in [Syncers -> {"idle", "asking", "ended"}]
        /\ answers' \in [Syncers -> [Accounts -> Truths \cup {"skipped", "asked"}]]
    BY <1>3 DEF CommitRound, EndRound, NoRound, TypeOK
  <2>. QED BY <1>3, <2>2, <2>3, <2>4 DEF CommitRound, TypeOK
<1>4. CASE FailRound(s)
  <2>1. events' \in 0..MaxEvents
    BY <1>4, ConstantTypes DEF FailRound, Event, TypeOK
  <2>2. /\ phase' \in [Syncers -> {"idle", "asking", "ended"}]
        /\ answers' \in [Syncers -> [Accounts -> Truths \cup {"skipped", "asked"}]]
    BY <1>4 DEF FailRound, AfterFault, EndRound, NoRound, TypeOK
  <2>. QED BY <1>4, <2>1, <2>2 DEF FailRound, TypeOK
<1>. QED BY <1>1, <1>2, <1>3, <1>4 DEF SyncStep

\* What a request may load, and what it may route to.
LEMMA FilteredType ==
    ASSUME NEW accounts \in SUBSET Accounts, NEW excluded
    PROVE  Filtered(accounts, excluded) \in SUBSET Accounts
BY DEF Filtered

LEMMA ReaderType ==
    ASSUME TypeOK, NEW r \in Requests, Load(r) \/ ReadSynced(r) \/ ReadSupporting(r) \/ Leave(r)
    PROVE  TypeOK'
<1>1. reader[r] \in [pc : {"idle", "loaded", "synced", "routed"}, loaded : SUBSET Accounts,
                     synced : SUBSET Accounts, candidates : SUBSET Accounts]
  BY DEF TypeOK
<1>2. CASE Load(r)
  <2>1. [a \in Accounts |-> {catalog[a]}] \in [Accounts -> SUBSET Catalogs]
    BY DEF TypeOK
  <2>2. said' \in [Requests -> [Accounts -> SUBSET Catalogs]]
    BY <1>2, <2>1 DEF Load, TypeOK
  <2>. QED BY <1>2, <2>2 DEF Load, Idle, TypeOK, roundVars
<1>3. CASE ReadSynced(r)
  BY <1>1, <1>3 DEF ReadSynced, TypeOK, roundVars
<1>4. CASE ReadSupporting(r)
  <2> DEFINE new == Filtered(reader[r].loaded,
                             Excluded(reader[r].synced, {a \in Accounts : catalog[a] = "serves"}))
  <2>1. new \in SUBSET Accounts
    BY <1>1, FilteredType
  <2>2. reader' = [reader EXCEPT ![r].pc = "routed", ![r].candidates = new]
    BY <1>4 DEF ReadSupporting
  <2> HIDE DEF new
  <2>3. reader' \in [Requests -> [pc : {"idle", "loaded", "synced", "routed"},
                                  loaded : SUBSET Accounts, synced : SUBSET Accounts,
                                  candidates : SUBSET Accounts]]
    BY <1>1, <2>1, <2>2 DEF TypeOK
  <2>4. said' \in [Requests -> [Accounts -> SUBSET Catalogs]]
    BY <1>4 DEF ReadSupporting, Unread, TypeOK
  <2>. QED BY <1>4, <2>3, <2>4 DEF ReadSupporting, TypeOK, roundVars
<1>5. CASE Leave(r)
  BY <1>5 DEF Leave, Idle, TypeOK, roundVars
<1>. QED BY <1>2, <1>3, <1>4, <1>5

LEMMA SurroundingsType ==
    ASSUME TypeOK, Restart \/ \E a \in Accounts : ChangeRow(a) \/ ChangeTruth(a)
    PROVE  TypeOK'
<1>1. events' \in 0..MaxEvents
  BY ConstantTypes DEF ChangeRow, ChangeTruth, Restart, Event, TypeOK
<1>2. ASSUME NEW a \in Accounts, ChangeRow(a) PROVE TypeOK'
  BY <1>1, <1>2 DEF ChangeRow, TypeOK, roundVars
<1>3. ASSUME NEW a \in Accounts, ChangeTruth(a) PROVE TypeOK'
  BY <1>1, <1>3 DEF ChangeTruth, TypeOK, roundVars
<1>4. ASSUME Restart PROVE TypeOK'
  <2>1. /\ phase' \in [Syncers -> {"idle", "asking", "ended"}]
        /\ answers' \in [Syncers -> [Accounts -> Truths \cup {"skipped", "asked"}]]
        /\ said' \in [Requests -> [Accounts -> SUBSET Catalogs]]
    BY <1>4 DEF Restart, NoRound, Unread
  <2>2. reader' \in [Requests -> [pc : {"idle", "loaded", "synced", "routed"},
                                  loaded : SUBSET Accounts, synced : SUBSET Accounts,
                                  candidates : SUBSET Accounts]]
    BY <1>4 DEF Restart, Idle
  <2>. QED BY <1>1, <1>4, <2>1, <2>2 DEF Restart, TypeOK
<1>. QED BY <1>2, <1>3, <1>4

-----------------------------------------------------------------------------
(* What a step does to the requests *)

\* A step in which no request reads, and which adds to the histories of those
\* that are reading what the catalogs say after it.
ReadersStay ==
    /\ reader' = reader
    /\ \A r \in Requests : reader[r].pc \in {"loaded", "synced"} =>
           \A a \in Accounts : said[r][a] \cup {catalog'[a]} = said'[r][a]

LEMMA ReadersStayInv ==
    ASSUME IndInv, TypeOK', ReadersStay
    PROVE  IndInv'
<1>1. SaysNow'
  BY DEF SaysNow, ReadersStay
<1>2. SyncedRead'
  BY DEF IndInv, SyncedRead, ReadersStay
<1>. QED BY <1>1, <1>2 DEF IndInv

\* A step that leaves the requests and the catalogs alone.
LEMMA OthersStay ==
    ASSUME IndInv, TypeOK', UNCHANGED <<reader, catalog, said>>
    PROVE  IndInv'
<1>1. ReadersStay
  BY DEF IndInv, SaysNow, ReadersStay
<1>. QED BY <1>1, ReadersStayInv

LEMMA RoundInv ==
    ASSUME IndInv, NEW s \in Syncers, SyncStep(s) \/ FailRound(s)
    PROVE  IndInv'
<1>1. TypeOK'
  BY RoundType DEF IndInv
<1>2. CASE CommitRound(s)
  <2>1. catalog' \in [Accounts -> Catalogs]
    BY <1>1 DEF TypeOK
  <2>2. ASSUME NEW r \in Requests, reader[r].pc \in {"loaded", "synced"}
        PROVE  said'[r] = [a \in Accounts |-> said[r][a] \cup {catalog'[a]}]
    BY <1>2, <2>2 DEF CommitRound
  <2>3. ReadersStay
    BY <1>2, <2>2 DEF CommitRound, ReadersStay
  <2>. QED BY <1>1, <2>3, ReadersStayInv
<1>3. CASE ~CommitRound(s)
  BY <1>1, <1>3, OthersStay DEF SyncStep, StartRound, Answer, FailRound
<1>. QED BY <1>2, <1>3

LEMMA ChangeInv ==
    ASSUME IndInv, NEW a \in Accounts, ChangeRow(a) \/ ChangeTruth(a)
    PROVE  IndInv'
<1>1. TypeOK'
  BY SurroundingsType DEF IndInv
<1>. QED BY <1>1, OthersStay DEF ChangeRow, ChangeTruth

LEMMA RestartInv ==
    ASSUME IndInv, Restart
    PROVE  IndInv'
<1>1. TypeOK'
  BY SurroundingsType DEF IndInv
<1>2. \A r \in Requests : reader'[r].pc = "idle"
  BY DEF Restart, Idle
<1>. QED BY <1>1, <1>2 DEF IndInv, SaysNow, SyncedRead

-----------------------------------------------------------------------------
(* The requests *)

\* Where each step of a request leads.
LEMMA ReaderSteps ==
    ASSUME TypeOK, NEW r \in Requests
    PROVE  /\ Load(r) => reader'[r].pc = "loaded"
           /\ ReadSynced(r) => reader'[r].pc = "synced"
           /\ ReadSupporting(r) => reader'[r].pc = "routed"
           /\ Leave(r) => reader'[r].pc = "idle"
<1>1. reader[r] \in [pc : {"idle", "loaded", "synced", "routed"}, loaded : SUBSET Accounts,
                     synced : SUBSET Accounts, candidates : SUBSET Accounts]
  BY DEF TypeOK
<1>2. Load(r) => reader'[r].pc = "loaded"
  BY DEF Load, Idle, TypeOK
<1>3. ReadSynced(r) => reader'[r].pc = "synced"
  BY <1>1 DEF ReadSynced, TypeOK
<1>4. ReadSupporting(r) => reader'[r].pc = "routed"
  BY <1>1 DEF ReadSupporting, TypeOK
<1>5. Leave(r) => reader'[r].pc = "idle"
  BY DEF Leave, Idle, TypeOK
<1>. QED BY <1>2, <1>3, <1>4, <1>5

LEMMA ReaderInv ==
    ASSUME IndInv, NEW r \in Requests, Load(r) \/ ReadSynced(r) \/ ReadSupporting(r) \/ Leave(r)
    PROVE  IndInv'
<1>1. TypeOK'
  BY ReaderType DEF IndInv
<1>2. \A q \in Requests \ {r} : reader'[q] = reader[q] /\ said'[q] = said[q]
  BY DEF IndInv, TypeOK, Load, ReadSynced, ReadSupporting, Leave
<1>3. catalog' = catalog
  BY DEF Load, ReadSynced, ReadSupporting, Leave
<1>4. ASSUME Load(r), NEW a \in Accounts PROVE catalog'[a] \in said'[r][a]
  BY <1>4, <1>3 DEF Load, IndInv, TypeOK
<1>5. ASSUME ReadSynced(r), NEW a \in Accounts
      PROVE  /\ catalog'[a] \in said'[r][a]
             /\ IF a \in reader'[r].synced
                THEN "serves" \in said'[r][a] \/ "omits" \in said'[r][a]
                ELSE "none" \in said'[r][a]
  <2>1. catalog[a] \in said[r][a] /\ said' = said /\ catalog[a] \in Catalogs
    BY <1>5 DEF ReadSynced, IndInv, SaysNow, TypeOK
  <2>2. a \in reader'[r].synced <=> catalog[a] # "none"
    BY <1>5 DEF ReadSynced, IndInv, TypeOK
  <2>. QED BY <1>3, <2>1, <2>2 DEF Catalogs
<1>6. /\ reader'[r].pc = "loaded" => Load(r)
      /\ reader'[r].pc = "synced" => ReadSynced(r)
  BY ReaderSteps DEF IndInv
<1>7. SaysNow'
  BY <1>2, <1>3, <1>4, <1>5, <1>6 DEF IndInv, SaysNow
<1>8. SyncedRead'
  BY <1>2, <1>5, <1>6 DEF IndInv, SyncedRead
<1>. QED BY <1>1, <1>7, <1>8 DEF IndInv

-----------------------------------------------------------------------------
(* The theorems *)

LEMMA StepInv == IndInv /\ [Next]_vars => IndInv'
<1> SUFFICES ASSUME IndInv, [Next]_vars PROVE IndInv'
  OBVIOUS
<1>1. ASSUME UNCHANGED vars PROVE IndInv'
  BY <1>1 DEF vars, roundVars, IndInv, TypeOK, SaysNow, SyncedRead
<1>. QED BY <1>1, RoundInv, ReaderInv, ChangeInv, RestartInv DEF Next

\* Nothing a step does breaks the invariant that the properties rest on.
THEOREM Invariance == Spec => []IndInv
BY InitInv, StepInv, PTL DEF Spec

\* The second query leaves out accounts that are known not to serve the model,
\* and no candidate is left that omitted it all the while.
LEMMA SecondQuery ==
    ASSUME IndInv, NEW r \in Requests, ReadSupporting(r)
    PROVE  LET excluded == Excluded(reader[r].synced, {a \in Accounts : catalog[a] = "serves"})
           IN  excluded \cap Accounts \subseteq Known(r) /\ Sure(r) \subseteq excluded
<1> SUFFICES ASSUME NEW a \in Accounts
             PROVE  /\ a \in reader[r].synced /\ catalog[a] # "serves" => a \in Known(r)
                    /\ a \in Sure(r) => a \in reader[r].synced /\ catalog[a] # "serves"
  BY DEF Excluded, Sure
<1>1. catalog[a] \in said[r][a] /\ catalog[a] \in Catalogs
  BY DEF ReadSupporting, IndInv, SaysNow, TypeOK
<1>2. IF a \in reader[r].synced
      THEN "serves" \in said[r][a] \/ "omits" \in said[r][a]
      ELSE "none" \in said[r][a]
  BY DEF ReadSupporting, IndInv, SyncedRead
<1>. QED BY <1>1, <1>2 DEF Known, Sure, Catalogs

\* Whatever sync rounds commit around the two queries of an attempt, it leaves out
\* only accounts known not to serve the model, and all those known so throughout,
\* unless no one would be left (unsupported_accounts, _filter_by_model).
THEOREM RoutesAsKnown == Spec => RoutesByKnowledge
<1> DEFINE Sound(r) ==
        LET loaded == reader[r].loaded
            candidates == reader'[r].candidates
        IN  \/ /\ loaded \ candidates \subseteq Known(r)
               /\ candidates \cap Sure(r) = {}
               /\ candidates = {} => loaded = {}
            \/ candidates = loaded /\ loaded \subseteq Known(r)
<1>1. ASSUME IndInv, Next, NEW r \in Requests, reader[r].pc # "routed", reader'[r].pc = "routed"
      PROVE  Sound(r)
  <2>1. ReadSupporting(r)
    <3>1. \A q \in Requests \ {r} :
              Load(q) \/ ReadSynced(q) \/ ReadSupporting(q) \/ Leave(q) => reader'[r] = reader[r]
      BY <1>1 DEF IndInv, TypeOK, Load, ReadSynced, ReadSupporting, Leave
    <3>2. \A s \in Syncers : SyncStep(s) \/ FailRound(s) => reader' = reader
      BY DEF SyncStep, StartRound, Answer, CommitRound, FailRound
    <3>3. \A a \in Accounts : ChangeRow(a) \/ ChangeTruth(a) => reader' = reader
      BY DEF ChangeRow, ChangeTruth
    <3>4. ~Restart
      BY <1>1 DEF Restart, Idle
    <3>. QED BY <1>1, <3>1, <3>2, <3>3, <3>4, ReaderSteps DEF Next, IndInv
  <2> DEFINE excluded == Excluded(reader[r].synced, {a \in Accounts : catalog[a] = "serves"})
  <2>2. reader'[r].candidates = Filtered(reader[r].loaded, excluded)
    BY <1>1, <2>1 DEF ReadSupporting, IndInv, TypeOK
  <2>3. excluded \cap Accounts \subseteq Known(r) /\ Sure(r) \subseteq excluded
    BY <1>1, <2>1, SecondQuery
  <2>4. reader[r].loaded \subseteq Accounts
    BY <1>1 DEF IndInv, TypeOK
  <2> HIDE DEF excluded
  <2>. QED BY <2>2, <2>3, <2>4 DEF Filtered
<1>2. IndInv /\ [Next]_vars =>
          [\A r \in Requests : reader[r].pc # "routed" /\ reader'[r].pc = "routed" => Sound(r)]_vars
  BY <1>1
<1>. QED BY <1>2, Invariance, PTL DEF Spec, RoutesByKnowledge

\* The variables of the catalog keep their types.
THEOREM TypeCorrect == Spec => []TypeOK
<1>1. IndInv => TypeOK
  BY DEF IndInv
<1>. QED BY <1>1, Invariance, PTL

=============================================================================
