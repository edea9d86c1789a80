---------------------------- MODULE OAuthRefresh ----------------------------
(***************************************************************************)
(* Refreshing the access token of one OAuth account                        *)
(* (app/modules/accounts/credentials.py), with the requests that use the   *)
(* token (proxy/service.py), operators who store new tokens, enable and    *)
(* disable the account (accounts/api.py), a token endpoint that may rotate *)
(* refresh tokens, lost replies, and crashes of the process.               *)
(*                                                                         *)
(* Tokens are numbered in the order they are issued.  The lock is in       *)
(* memory and dies with the process; the row and what the provider accepts *)
(* survive.  The upstream may reject any access token at any time: forward *)
(* forces a refresh whatever the 401 or 403 was about.                     *)
(***************************************************************************)
EXTENDS Integers

CONSTANTS
    Callers,                \* requests being served, one call after another
    NoCaller,
    MAX_REFRESH_FAILURES,
    Rotates,                \* the provider invalidates a refresh token on use
    Lossy,                  \* a reply of the token endpoint may be lost
    Crashes,                \* the process may crash and restart
    Patches,                \* operators may change the account
    MaxTokens               \* bound of an instance: tokens and PATCHes

ASSUME CallersAssumption == NoCaller \notin Callers
ASSUME RefreshAssumption ==
    /\ MAX_REFRESH_FAILURES \in Nat \ {0, 1}
    /\ {Rotates, Lossy, Crashes, Patches} \subseteq BOOLEAN
    /\ MaxTokens \in Nat

VARIABLES
    store,           \* the account row
    lock,            \* the account's asyncio lock
    pc, force, reauthed, token, snap, reply,  \* the local state of each caller
    validRefresh, next,                       \* the provider
    rejected,  \* history: whether the upstream answered the stored token 401 or 403
    entered,   \* history: whether an operator stored the stored token
    lost,      \* history: refresh tokens spent by a grant whose reply was lost
    unpaid,    \* history: how often the stored token came to need a renewal, less
               \* the grants stored
    strikes    \* history: failed grants since the last good one, new refresh
               \* token or re-enabling

callerVars == <<pc, force, reauthed, token, snap, reply>>
providerVars == <<validRefresh, next>>
history == <<rejected, entered, lost, unpaid, strikes>>
vars == <<store, lock, callerVars, providerVars, history>>

\* "none": no expiry recorded; "due": within the refresh skew of the expiry.
Expiries == {"none", "fresh", "due"}
Store == [access : Nat, refresh : Nat, expiry : Expiries, failures : Nat, enabled : BOOLEAN]

PCs == {"idle", "select", "queued", "post", "reply", "error", "send", "writeoff"}

TypeOK ==
    /\ store \in Store
    /\ lock \in Callers \cup {NoCaller}
    /\ pc \in [Callers -> PCs]
    /\ force \in [Callers -> BOOLEAN]
    /\ reauthed \in [Callers -> BOOLEAN]
    /\ token \in [Callers -> Nat]
    /\ snap \in [Callers -> Store]
    /\ reply \in [Callers -> Nat]
    /\ validRefresh \subseteq Nat
    /\ next \in Nat
    /\ rejected \in BOOLEAN
    /\ entered \in BOOLEAN
    /\ lost \subseteq Nat
    /\ unpaid \in Int
    /\ strikes \in Nat

FirstStore == [access |-> 0, refresh |-> 0, expiry |-> "fresh", failures |-> 0,
               enabled |-> TRUE]

Init ==
    /\ store = FirstStore
    /\ lock = NoCaller
    /\ pc = [c \in Callers |-> "idle"]
    /\ force = [c \in Callers |-> FALSE]
    /\ reauthed = [c \in Callers |-> FALSE]
    /\ token = [c \in Callers |-> 0]
    /\ snap = [c \in Callers |-> FirstStore]
    /\ reply = [c \in Callers |-> 0]
    /\ validRefresh = {0}
    /\ next = 1
    /\ rejected = FALSE
    /\ entered = FALSE
    /\ lost = {}
    /\ unpaid = 0
    /\ strikes = 0

-----------------------------------------------------------------------------
(* A request that uses the account *)

Call(c) ==
    /\ pc[c] = "idle"
    /\ pc' = [pc EXCEPT ![c] = "select"]
    /\ UNCHANGED <<store, lock, force, reauthed, token, snap, reply, providerVars, history>>

\* needs_refresh
NeedsRefresh(account) == account.expiry = "due"

\* The account is selected with the token read then; resolve refreshes it when
\* it is due.  A disabled account is not selected.
Select(c) ==
    /\ pc[c] = "select"
    /\ pc' = [pc EXCEPT ![c] = IF ~store.enabled THEN "idle"
                               ELSE IF NeedsRefresh(store) THEN "queued" ELSE "send"]
    /\ token' = [token EXCEPT ![c] = IF pc'[c] = "send" THEN store.access ELSE 0]
    /\ reauthed' = [reauthed EXCEPT ![c] = @ /\ store.enabled]
    /\ UNCHANGED <<store, lock, force, snap, reply, providerVars, history>>

\* The stored token is due, or was rejected: the refresh may replace it.
Outstanding == NeedsRefresh(store) \/ rejected

\* Any answer but 401 and 403, or none: this call has done with the token.
Accepted(c) ==
    /\ pc[c] = "send"
    /\ pc' = [pc EXCEPT ![c] = "idle"]
    /\ token' = [token EXCEPT ![c] = 0]
    /\ reauthed' = [reauthed EXCEPT ![c] = FALSE]
    /\ UNCHANGED <<store, lock, force, snap, reply, providerVars, history>>

\* 401 or 403, about the token or not: force one refresh, then write the account
\* off.
Rejected(c) ==
    /\ pc[c] = "send"
    /\ pc' = [pc EXCEPT ![c] = IF reauthed[c] THEN "writeoff" ELSE "queued"]
    /\ force' = [force EXCEPT ![c] = ~reauthed[c]]
    /\ token' = [token EXCEPT ![c] = IF reauthed[c] THEN 0 ELSE @]
    /\ reauthed' = [reauthed EXCEPT ![c] = TRUE]
    /\ rejected' = (rejected \/ token[c] = store.access)
    /\ unpaid' = IF token[c] = store.access /\ ~Outstanding THEN unpaid + 1 ELSE unpaid
    /\ UNCHANGED <<store, lock, snap, reply, providerVars, entered, lost, strikes>>

\* forward records the rejection: the account is disabled.
WriteOff(c) ==
    /\ pc[c] = "writeoff"
    /\ store' = [store EXCEPT !.enabled = FALSE]
    /\ pc' = [pc EXCEPT ![c] = "idle"]
    /\ reauthed' = [reauthed EXCEPT ![c] = FALSE]
    /\ UNCHANGED <<lock, force, token, snap, reply, providerVars, history>>

-----------------------------------------------------------------------------
(* refresh *)

\* Mutant: the lock is ignored.
LockFree_Ignored == TRUE

\* The account's lock can be taken.
LockFree == lock = NoCaller

\* Mutant: the lock is not released.
ReleasedLock_Kept == lock

\* Leaving the lock's block, by return or by exception.
ReleasedLock == NoCaller

\* Mutant: a forced refresh does not compare the stored token with the rejected one.
AlreadyRefreshed_Forced(c) == ~force[c] /\ ~NeedsRefresh(store)

\* Whether the row read inside the lock makes a grant unnecessary: another
\* caller has refreshed it meanwhile.
AlreadyRefreshed(c) ==
    IF force[c] THEN store.access # token[c] ELSE ~NeedsRefresh(store)

\* Back in forward: a forced refresh is followed by a new selection.
Resume(c) == IF force[c] THEN "select" ELSE "send"

\* Enter the lock and find the token refreshed.
Reuse(c) ==
    /\ pc[c] = "queued"
    /\ LockFree
    /\ AlreadyRefreshed(c)
    /\ pc' = [pc EXCEPT ![c] = Resume(c)]
    /\ token' = [token EXCEPT ![c] = IF force[c] THEN 0 ELSE store.access]
    /\ force' = [force EXCEPT ![c] = FALSE]
    /\ UNCHANGED <<store, lock, reauthed, snap, reply, providerVars, history>>

\* Enter the lock, read the row and post the grant.
Post(c) ==
    /\ pc[c] = "queued"
    /\ LockFree
    /\ ~AlreadyRefreshed(c)
    /\ lock' = c
    /\ pc' = [pc EXCEPT ![c] = "post"]
    /\ snap' = [snap EXCEPT ![c] = store]
    /\ UNCHANGED <<store, force, reauthed, token, reply, providerVars, history>>

\* The provider accepts the refresh token.  It may rotate it, and its reply may be
\* lost.
ProviderAccepts(c) ==
    /\ pc[c] = "post"
    /\ snap[c].refresh \in validRefresh
    /\ next < MaxTokens
    /\ next' = next + 1
    /\ validRefresh' = IF Rotates THEN (validRefresh \ {snap[c].refresh}) \cup {next}
                                  ELSE validRefresh
    /\ \/ /\ pc' = [pc EXCEPT ![c] = "reply"]
          /\ reply' = [reply EXCEPT ![c] = next]
          /\ UNCHANGED lost
       \/ /\ Lossy
          /\ pc' = [pc EXCEPT ![c] = "error"]
          /\ lost' = lost \cup {snap[c].refresh}
          /\ UNCHANGED reply
    /\ UNCHANGED <<store, lock, force, reauthed, token, snap, rejected, entered, unpaid,
                   strikes>>

\* The grant is refused, or the endpoint cannot be reached.
ProviderRefuses(c) ==
    /\ pc[c] = "post"
    /\ pc' = [pc EXCEPT ![c] = "error"]
    /\ UNCHANGED <<store, lock, force, reauthed, token, snap, reply, providerVars, history>>

\* Mutant: the rotated refresh token is not stored.
StoredGrant_NotRotated(c, expiry) ==
    [store EXCEPT !.access = reply[c],
                  !.expiry = IF snap[c].expiry = "none" /\ expiry = "none" THEN @ ELSE expiry,
                  !.failures = IF snap[c].failures = 0 THEN @ ELSE 0]

\* The row after a good grant: the columns that differ from the ones read.  The
\* reply carries a lifetime or it does not.
StoredGrant(c, expiry) ==
    [store EXCEPT !.access = reply[c],
                  !.expiry = IF snap[c].expiry = "none" /\ expiry = "none" THEN @ ELSE expiry,
                  !.failures = IF snap[c].failures = 0 THEN @ ELSE 0,
                  !.refresh = IF Rotates THEN reply[c] ELSE @]

StoreGrant(c) ==
    /\ pc[c] = "reply"
    /\ \E expiry \in {"none", "fresh"} : store' = StoredGrant(c, expiry)
    /\ lock' = ReleasedLock
    /\ pc' = [pc EXCEPT ![c] = Resume(c)]
    /\ token' = [token EXCEPT ![c] = IF force[c] THEN 0 ELSE reply[c]]
    /\ force' = [force EXCEPT ![c] = FALSE]
    /\ snap' = [snap EXCEPT ![c] = FirstStore]
    /\ reply' = [reply EXCEPT ![c] = 0]
    /\ rejected' = FALSE
    /\ entered' = FALSE
    /\ unpaid' = unpaid - 1
    /\ strikes' = 0
    /\ UNCHANGED <<reauthed, providerVars, lost>>

\* Mutant: the breaker opens one failure too late.
StoredFailure_Late(c) ==
    [store EXCEPT !.failures = snap[c].failures + 1,
                  !.enabled = @ /\ ~( /\ snap[c].enabled
                                      /\ snap[c].failures + 1 > MAX_REFRESH_FAILURES )]

\* Mutant: failures are counted down.
StoredFailure_Down(c) == [store EXCEPT !.failures = snap[c].failures - 1]

\* Mutant: the row is written back as it was read before the grant.
StoredFailure_WholeRow(c) ==
    [snap[c] EXCEPT !.failures = @ + 1,
                    !.enabled = @ /\ snap[c].failures + 1 < MAX_REFRESH_FAILURES]

\* The row after a failed grant, committed before the error is raised.
StoredFailure(c) ==
    [store EXCEPT !.failures = snap[c].failures + 1,
                  !.enabled = @ /\ ~( /\ snap[c].enabled
                                      /\ snap[c].failures + 1 >= MAX_REFRESH_FAILURES )]

\* CredentialError: after a forced refresh, forward writes the account off.
StoreFailure(c) ==
    /\ pc[c] = "error"
    /\ store' = StoredFailure(c)
    /\ lock' = ReleasedLock
    /\ pc' = [pc EXCEPT ![c] = IF force[c] THEN "writeoff" ELSE "idle"]
    /\ token' = [token EXCEPT ![c] = 0]
    /\ force' = [force EXCEPT ![c] = FALSE]
    /\ reauthed' = [reauthed EXCEPT ![c] = @ /\ force[c]]
    /\ snap' = [snap EXCEPT ![c] = FirstStore]
    /\ strikes' = strikes + 1
    /\ UNCHANGED <<reply, providerVars, rejected, entered, lost, unpaid>>

CallerStep(c) ==
    \/ Call(c)
    \/ Select(c)
    \/ Accepted(c)
    \/ Rejected(c)
    \/ WriteOff(c)
    \/ Reuse(c)
    \/ Post(c)
    \/ ProviderAccepts(c)
    \/ ProviderRefuses(c)
    \/ StoreGrant(c)
    \/ StoreFailure(c)

-----------------------------------------------------------------------------
(* The environment *)

\* The recorded expiry comes within the refresh skew.
Expire ==
    /\ store.expiry = "fresh"
    /\ store' = [store EXCEPT !.expiry = "due"]
    /\ unpaid' = IF Outstanding THEN unpaid ELSE unpaid + 1
    /\ UNCHANGED <<lock, callerVars, providerVars, rejected, entered, lost, strikes>>

\* update_account: an operator pastes a new access token (key), a refresh token of
\* a new login (login), enables or disables the account, in any combination, also
\* while a grant is under way.  A new access token has the lifetime given with it
\* or none.  Every PATCH takes a number, whether it stores it or not.
Patch(key, login) ==
    /\ Patches
    /\ next < MaxTokens
    /\ next' = next + 1
    /\ \E expiry \in {"none", "fresh"}, enabled \in BOOLEAN :
          store' = [access |-> IF key THEN next ELSE store.access,
                    refresh |-> IF login THEN next ELSE store.refresh,
                    expiry |-> IF key THEN expiry ELSE store.expiry,
                    failures |-> IF login THEN 0 ELSE store.failures,
                    enabled |-> enabled]
    /\ validRefresh' = IF login THEN validRefresh \cup {next} ELSE validRefresh
    /\ rejected' = (rejected /\ ~key)
    /\ entered' = (entered \/ key)
    /\ strikes' = IF login \/ (store'.enabled /\ ~store.enabled) THEN 0 ELSE strikes
    /\ UNCHANGED <<lock, callerVars, lost, unpaid>>

\* The process dies; every call and the lock are gone.  A rotated refresh token
\* that was received but not committed is lost.
Crash ==
    /\ Crashes
    /\ \E c \in Callers : pc[c] # "idle"
    /\ lost' = lost \cup {snap[c].refresh : c \in {d \in Callers : pc[d] = "reply"}}
    /\ lock' = NoCaller
    /\ pc' = [c \in Callers |-> "idle"]
    /\ force' = [c \in Callers |-> FALSE]
    /\ reauthed' = [c \in Callers |-> FALSE]
    /\ token' = [c \in Callers |-> 0]
    /\ snap' = [c \in Callers |-> FirstStore]
    /\ reply' = [c \in Callers |-> 0]
    /\ UNCHANGED <<store, providerVars, rejected, entered, unpaid, strikes>>

Next ==
    \/ \E c \in Callers : CallerStep(c)
    \/ Expire
    \/ \E key, login \in BOOLEAN : Patch(key, login)
    \/ Crash

\* A call under way goes on; the token endpoint answers or times out after
\* REFRESH_TIMEOUT_SECONDS; asyncio.Lock serves its waiters in order, so a
\* caller that finds the lock free again and again gets it.
Fairness ==
    \A c \in Callers :
        /\ WF_vars(Select(c) \/ Accepted(c) \/ Rejected(c) \/ WriteOff(c))
        /\ WF_vars(ProviderAccepts(c) \/ ProviderRefuses(c))
        /\ WF_vars(StoreGrant(c) \/ StoreFailure(c))
        /\ SF_vars(Reuse(c) \/ Post(c))

Spec == Init /\ [][Next]_vars
FairSpec == Spec /\ Fairness

-----------------------------------------------------------------------------
(* What holds *)

InGrant(c) == pc[c] \in {"post", "reply", "error"}

\* At most one grant is under way for the account, and its caller holds the
\* lock; nobody else holds it (credentials.refresh, _refresh_locks).
SingleGrant ==
    /\ \A c \in Callers : InGrant(c) <=> lock = c
    /\ \A c, d \in Callers : InGrant(c) /\ InGrant(d) => c = d

\* A refresh token the provider has rotated away is never presented again,
\* unless the rotation's reply was lost on the way or in a crash: the row is
\* read inside the lock and committed before the lock is released, so nobody
\* presents a copy that went stale while waiting (README, Rotation).
NoReplay ==
    \A c \in Callers :
        pc[c] = "post" => snap[c].refresh \in validRefresh \cup lost

\* However many requests find the stored token due or are rejected with it at
\* once, each token that came due or was rejected is paid for by at most one
\* stored grant: the callers that queued behind it, and those rejected with an
\* older token, reuse what it brought (README, Single-flight).
GrantsMatchNeeds == unpaid >= 0

\* The stored access token never goes back to an older one, whatever callers wait
\* with older snapshots, but for one case: a grant that was under way when an
\* operator stored a token writes over that token.
StoreNeverGoesBack ==
    [][store'.access < store.access =>
          /\ entered
          /\ \E c \in Callers : pc[c] = "reply" /\ snap[c].access # store.access]_vars

\* The failure that makes MAX_REFRESH_FAILURES in a row since the last good
\* grant, new refresh token or re-enabling leaves the account disabled: no
\* increment is lost between concurrent callers or rolled back by the error that
\* follows it.
BreakerTrips ==
    [][strikes' > strikes /\ strikes' >= MAX_REFRESH_FAILURES => ~store'.enabled]_vars

\* Every call ends, also those that wait for the lock while others fail.
CallsEnd == \A c \in Callers : pc[c] # "idle" ~> pc[c] = "idle"

-----------------------------------------------------------------------------
(* Why it holds: the inductive invariant *)

\* Everything issued so far has a number below next.
TokensIssued ==
    /\ store.access < next
    /\ store.refresh < next
    /\ \A t \in validRefresh : t < next
    /\ \A c \in Callers : token[c] < next /\ snap[c].access < next

\* A token that forces a refresh was rejected, and numbers are not reused.
ForcedWasRejected ==
    \A c \in Callers : force[c] =>
        /\ pc[c] \in {"queued", "post", "reply", "error"}
        /\ token[c] = store.access => rejected

\* While a grant is under way nobody but an operator replaces the token it is
\* for, and until then that token stays due or rejected.
GrantIsNeeded ==
    \A c \in Callers : InGrant(c) =>
        IF snap[c].access = store.access
        THEN /\ IF force[c] THEN token[c] = store.access ELSE store.expiry = "due"
             /\ snap[c].expiry = "none" => store.expiry = "none"
        ELSE entered

\* A grant's token is newer than the one it replaces, and nobody has it.
ReplyIsNew ==
    \A c \in Callers : pc[c] = "reply" =>
        /\ snap[c].access < reply[c] /\ reply[c] < next
        /\ reply[c] # store.access
        /\ \A d \in Callers : token[d] # reply[c]
        /\ Rotates => reply[c] \in validRefresh

\* The tokens callers have been given and not yet used.
Handed == [c \in Callers |-> IF pc[c] = "send" THEN {token[c]} ELSE {}]

\* The token that the grant under way replaces.
Replaced == IF lock = NoCaller THEN 0 ELSE snap[lock].access

Flight == INSTANCE SingleFlight
              WITH current <- store.access, good <- ~Outstanding, renewer <- lock,
                   replaces <- Replaced, handed <- Handed

\* Whatever callers, the token endpoint, operators and crashes do: but for
\* operators, the stored token is renewed by one caller at a time, only once it
\* is due or was rejected and only by a newer one, and a request sends with the
\* token that was stored when it was given one.
IsSingleFlight == Flight!Spec

\* A grant whose token an operator has replaced still has a need to itself.
Overwritten == \E c \in Callers : InGrant(c) /\ snap[c].access # store.access
NeedsAccount ==
    unpaid >= (IF Outstanding THEN 1 ELSE 0) + (IF Overwritten THEN 1 ELSE 0)

\* The stored refresh token is good, or its successor is about to be stored,
\* or that successor was lost.
RefreshTokenKept ==
    \/ store.refresh \in validRefresh \cup lost
    \/ Rotates /\ \E c \in Callers : pc[c] = "reply" /\ snap[c].refresh = store.refresh

\* The counters in the row and in a snapshot are no less than the strikes, and
\* an account enabled during a grant starts afresh.
StrikesCounted ==
    /\ strikes <= store.failures
    /\ \A c \in Callers : InGrant(c) =>
          /\ strikes <= snap[c].failures
          /\ store.enabled /\ ~snap[c].enabled => strikes = 0

IndInv ==
    /\ TypeOK
    /\ SingleGrant
    /\ TokensIssued
    /\ ForcedWasRejected
    /\ GrantIsNeeded
    /\ ReplyIsNew
    /\ NeedsAccount
    /\ RefreshTokenKept
    /\ NoReplay
    /\ StrikesCounted
=============================================================================
