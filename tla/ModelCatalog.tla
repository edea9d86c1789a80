---------------------------- MODULE ModelCatalog ----------------------------
(***************************************************************************)
(* The model catalog: sync rounds of the scheduler and of POST             *)
(* /sync-models (app/modules/health/service.py, health/api.py) replace it, *)
(* and forward reads it to leave out accounts that are known not to serve  *)
(* the requested model (proxy/service.py, _filter_by_model).               *)
(*                                                                         *)
(* One model is followed, the requested one.  A catalog is what it says    *)
(* about it: "serves", "omits", or "none" when it has no rows at all.      *)
(***************************************************************************)
EXTENDS Integers, FiniteSets

CONSTANTS
    Accounts,
    Scheduler,      \* the model-sync loop
    Manual,         \* callers of POST /sync-models
    Requests,       \* attempts of client requests that read the catalog
    StartTruths,    \* what the upstream may answer at the start
    MaxEvents       \* bound of an instance: changes, failed rounds and restarts

Catalogs == {"none", "serves", "omits"}
Truths == Catalogs \cup {"down"}

ASSUME CatalogAssumption ==
    /\ IsFiniteSet(Accounts)
    /\ Scheduler \notin Manual
    /\ StartTruths \subseteq Truths
    /\ MaxEvents \in Nat

Syncers == Manual \cup {Scheduler}

VARIABLES
    row,        \* each account's row: absent, enabled, disabled, or deleted
    truth,      \* what the upstream would answer for it: serves, omits, an empty
                \* or unreadable list ("none"), or no success ("down")
    catalog,    \* its rows in model_catalog; they outlive the account's own
    phase,      \* of each syncer
    answers,    \* of its round: the answer for each account, "asked" until it came
    reader,     \* of each request: its pc and the sets it has read
    said,       \* history: what each account's catalog has said during a request's reads
    events

roundVars == <<phase, answers>>
vars == <<row, truth, catalog, roundVars, reader, said, events>>

NoRound == [a \in Accounts |-> "skipped"]
Unread == [a \in Accounts |-> {}]
Idle == [pc |-> "idle", loaded |-> {}, synced |-> {}, candidates |-> {}]

TypeOK ==
    /\ row \in [Accounts -> {"absent", "enabled", "disabled", "deleted"}]
    /\ truth \in [Accounts -> Truths]
    /\ catalog \in [Accounts -> Catalogs]
    /\ phase \in [Syncers -> {"idle", "asking", "ended"}]
    /\ answers \in [Syncers -> [Accounts -> Truths \cup {"skipped", "asked"}]]
    /\ reader \in [Requests -> [pc : {"idle", "loaded", "synced", "routed"},
                                loaded : SUBSET Accounts, synced : SUBSET Accounts,
                                candidates : SUBSET Accounts]]
    /\ said \in [Requests -> [Accounts -> SUBSET Catalogs]]
    /\ events \in 0..MaxEvents

Init ==
    /\ row \in [Accounts -> {"absent", "enabled"}]
    /\ truth \in [Accounts -> StartTruths]
    /\ catalog = [a \in Accounts |-> "none"]
    /\ phase = [s \in Syncers |-> "idle"]
    /\ answers = [s \in Syncers |-> NoRound]
    /\ reader = [r \in Requests |-> Idle]
    /\ said = [r \in Requests |-> Unread]
    /\ events = 0

-----------------------------------------------------------------------------
(* sync_model_catalog *)

Event == events < MaxEvents /\ events' = events + 1

EndRound(s, next) ==
    /\ phase' = [phase EXCEPT ![s] = next]
    /\ answers' = [answers EXCEPT ![s] = NoRound]

\* The targets: without any, the round is over at once.
StartRound(s) ==
    /\ phase[s] = "idle"
    /\ \E a \in Accounts : row[a] = "enabled"
    /\ phase' = [phase EXCEPT ![s] = "asking"]
    /\ answers' = [answers EXCEPT ![s] =
                      [a \in Accounts |-> IF row[a] = "enabled" THEN "asked" ELSE "skipped"]]
    /\ UNCHANGED <<row, truth, catalog, reader, said, events>>

\* probe_account: each target is asked on its own.
Answer(s, a) ==
    /\ answers[s][a] = "asked"
    /\ answers' = [answers EXCEPT ![s][a] = truth[a]]
    /\ UNCHANGED <<row, truth, catalog, phase, reader, said, events>>

\* Mutant: the rows of the answer are added to those already there.
Replaced_Merged(old, answer) ==
    CASE answer \in {"skipped", "down", "none"} -> old
      [] old = "serves" -> old
      [] OTHER -> answer

\* A failed probe keeps the rows; a list replaces them wholesale.
Replaced(old, answer) == IF answer \in {"skipped", "down"} THEN old ELSE answer

\* All targets in one transaction, whatever became of their accounts meanwhile.
CommitRound(s) ==
    /\ phase[s] = "asking"
    /\ \A a \in Accounts : answers[s][a] # "asked"
    /\ catalog' = [a \in Accounts |-> Replaced(catalog[a], answers[s][a])]
    /\ said' = [r \in Requests |-> IF reader[r].pc \in {"loaded", "synced"}
                                   THEN [a \in Accounts |-> said[r][a] \cup {catalog'[a]}]
                                   ELSE said[r]]
    /\ EndRound(s, "idle")
    /\ UNCHANGED <<row, truth, reader, events>>

\* Mutant: the exception of a bad tick leaves _loop.
AfterFault_LoopEnds(s) == IF s = Scheduler THEN "ended" ELSE "idle"

\* _loop logs the exception, waits, and goes on; a caller of the endpoint gets it.
AfterFault(s) == "idle"

\* A transaction of the round fails: nothing of it is kept.
FailRound(s) ==
    /\ phase[s] = "asking"
    /\ Event
    /\ EndRound(s, AfterFault(s))
    /\ UNCHANGED <<row, truth, catalog, reader, said>>

SyncStep(s) == StartRound(s) \/ CommitRound(s) \/ \E a \in Accounts : Answer(s, a)

-----------------------------------------------------------------------------
(* forward: _load_accounts, then unsupported_accounts with its two SELECTs *)

Load(r) ==
    /\ reader[r].pc = "idle"
    /\ reader' = [reader EXCEPT ![r] = [Idle EXCEPT
                      !.pc = "loaded",
                      !.loaded = {a \in Accounts : row[a] \in {"enabled", "disabled"}}]]
    /\ said' = [said EXCEPT ![r] = [a \in Accounts |-> {catalog[a]}]]
    /\ UNCHANGED <<row, truth, catalog, roundVars, events>>

ReadSynced(r) ==
    /\ reader[r].pc = "loaded"
    /\ reader' = [reader EXCEPT ![r].pc = "synced",
                                ![r].synced = {a \in Accounts : catalog[a] # "none"}]
    /\ UNCHANGED <<row, truth, catalog, roundVars, said, events>>

\* Mutant: fail-open for the whole catalog only: once any account has synced,
\* the others count as not supporting the model.
Excluded_PerCatalog(synced, supporting) ==
    IF synced = {} THEN {} ELSE Accounts \ supporting

Excluded(synced, supporting) == synced \ supporting

\* `filtered or accounts`.
Filtered(accounts, excluded) ==
    IF accounts \subseteq excluded THEN accounts ELSE accounts \ excluded

ReadSupporting(r) ==
    /\ reader[r].pc = "synced"
    /\ LET supporting == {a \in Accounts : catalog[a] = "serves"}
       IN  reader' = [reader EXCEPT
                         ![r].pc = "routed",
                         ![r].candidates = Filtered(reader[r].loaded,
                                                    Excluded(reader[r].synced, supporting))]
    /\ said' = [said EXCEPT ![r] = Unread]
    /\ UNCHANGED <<row, truth, catalog, roundVars, events>>

\* The attempt goes on with its candidates; a later one starts over.
Leave(r) ==
    /\ reader[r].pc = "routed"
    /\ reader' = [reader EXCEPT ![r] = Idle]
    /\ UNCHANGED <<row, truth, catalog, roundVars, said, events>>

-----------------------------------------------------------------------------
(* The surroundings *)

\* Operators, the breaker and probes change rows; deleting an account leaves its
\* catalog behind, as SQLite does not enforce the foreign key.
ChangeRow(a) ==
    /\ \/ row[a] = "absent" /\ row' = [row EXCEPT ![a] = "enabled"]
       \/ row[a] = "enabled" /\ row' = [row EXCEPT ![a] = "disabled"]
       \/ row[a] = "disabled" /\ row' = [row EXCEPT ![a] = "enabled"]
       \/ row[a] \in {"enabled", "disabled"} /\ row' = [row EXCEPT ![a] = "deleted"]
    /\ Event
    /\ UNCHANGED <<truth, catalog, roundVars, reader, said>>

ChangeTruth(a) ==
    /\ \E t \in Truths \ {truth[a]} : truth' = [truth EXCEPT ![a] = t]
    /\ Event
    /\ UNCHANGED <<row, catalog, roundVars, reader, said>>

\* A round under way and all requests are lost; the loop starts again.
Restart ==
    /\ Event
    /\ phase' = [s \in Syncers |-> "idle"]
    /\ answers' = [s \in Syncers |-> NoRound]
    /\ reader' = [r \in Requests |-> Idle]
    /\ said' = [r \in Requests |-> Unread]
    /\ UNCHANGED <<row, truth, catalog>>

Next ==
    \/ \E s \in Syncers : SyncStep(s) \/ FailRound(s)
    \/ \E r \in Requests : Load(r) \/ ReadSynced(r) \/ ReadSupporting(r) \/ Leave(r)
    \/ \E a \in Accounts : ChangeRow(a) \/ ChangeTruth(a)
    \/ Restart

\* The loop's next tick comes, and a probe ends by an answer or its timeout.
SyncFairness == \A s \in Syncers : WF_vars(CommitRound(s) \/ \E a \in Accounts : Answer(s, a))
LoopFairness == WF_vars(StartRound(Scheduler))

Spec == Init /\ [][Next]_vars
FairSpec == Spec /\ SyncFairness /\ LoopFairness

-----------------------------------------------------------------------------
(* Properties *)

\* The accounts that are known not to serve the model when r's second query
\* comes: their catalog omitted it while r read, or its list has become empty
\* between the two queries, which then look like a catalog that omits it.
Known(r) ==
    {a \in Accounts : \/ "omits" \in said[r][a]
                      \/ catalog[a] = "none" /\ "serves" \in said[r][a]}

\* Those that omitted it all the while.
Sure(r) == {a \in Accounts : said[r][a] = {"omits"}}

\* unsupported_accounts fails open: whatever rounds commit around the two queries,
\* an account that never synced, or that serves the model, stays a candidate; one
\* that omits it all the while is none, unless no other account is left.
RoutesByKnowledge ==
    [][\A r \in Requests : reader[r].pc # "routed" /\ reader'[r].pc = "routed" =>
           LET loaded == reader[r].loaded
               candidates == reader'[r].candidates
           IN  \/ /\ loaded \ candidates \subseteq Known(r)
                  /\ candidates \cap Sure(r) = {}
                  /\ candidates = {} => loaded = {}
               \/ candidates = loaded /\ loaded \subseteq Known(r)]_vars

\* While model_sync_enabled is on (its default): if an account stays enabled and
\* the upstream's list for it stays the same from some time on, then its catalog
\* gets to say what the upstream says and stays so: a model the account lost
\* disappears, a failed tick does not end the loop, and a slow round that commits
\* an old answer after a newer one is put right.
CatalogConverges ==
    \A a \in Accounts, t \in Catalogs :
        <>[](row[a] = "enabled" /\ truth[a] = t) => <>[](catalog[a] = t)
=============================================================================
