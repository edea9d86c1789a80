------------------------------ MODULE Failover ------------------------------
(***************************************************************************)
(* What ProxyService.forward promises of each client request, whatever     *)
(* happens to the accounts meanwhile: attempts on one account after the    *)
(* other, at most MaxAttempts of them; in an attempt the upstream is asked *)
(* at most once; an account is tried again only after its credential was   *)
(* renewed, once; and an outcome that says what happened.  There are no    *)
(* rows, transactions, tokens or strategies here.  Proxy implements it.    *)
(***************************************************************************)
EXTENDS Integers

CONSTANTS Requests, Accounts, NoAccount, MaxAttempts

VARIABLES
    trip,     \* how far each request has come
    sends     \* how often it has asked the upstream with each account

vars == <<trip, sends>>

Init ==
    /\ trip = [r \in Requests |->
                  [course |-> "choosing", attempt |-> 1, account |-> NoAccount,
                   tried |-> {}, renewed |-> {}, outcome |-> "none"]]
    /\ sends = [r \in Requests |-> [a \in Accounts |-> 0]]

\* The request has ended.
Over(t, outcome) ==
    [t EXCEPT !.course = "over", !.account = NoAccount, !.outcome = outcome]

\* The attempt has ended, and with the last one the request.
Again(t) ==
    IF t.attempt = MaxAttempts
    THEN Over(t, "attempts_spent")
    ELSE [t EXCEPT !.course = "choosing", !.account = NoAccount, !.attempt = @ + 1]

Move(r, t) ==
    /\ trip' = [trip EXCEPT ![r] = t]
    /\ UNCHANGED sends

\* The upstream is asked with the account in hand.
Send(r, t) ==
    /\ trip[r].course = "holding"
    /\ trip' = [trip EXCEPT ![r] = t]
    /\ sends' = [sends EXCEPT ![r][trip[r].account] = @ + 1]

Choose(r) ==
    /\ trip[r].course = "choosing"
    /\ \E a \in Accounts \ trip[r].tried :
         Move(r, [trip[r] EXCEPT !.course = "holding", !.account = a,
                                 !.tried = @ \cup {a}])

NoneLeft(r) ==
    /\ trip[r].course = "choosing"
    /\ Move(r, Over(trip[r],
                    IF trip[r].tried = {} THEN "unavailable" ELSE "accounts_spent"))

Served(r) == Send(r, [trip[r] EXCEPT !.course = "served"])

\* The attempt fails, before the upstream is asked or after.
Lose(r) ==
    LET t == [trip[r] EXCEPT !.course = "failed"]
    IN  \/ Send(r, t)
        \/ trip[r].course = "holding" /\ Move(r, t)

Broken(r) == Send(r, Over(trip[r], "broken"))

\* The credential is rejected and worth renewing.
Rejected(r) ==
    LET a == trip[r].account
    IN  /\ a \notin trip[r].renewed
        /\ Send(r, [trip[r] EXCEPT !.course = "renewing",
                                   !.renewed = @ \cup {a}, !.tried = @ \ {a}])

Renew(r) == trip[r].course = "renewing" /\ Move(r, Again(trip[r]))

FailToRenew(r) ==
    /\ trip[r].course = "renewing"
    /\ Move(r, [trip[r] EXCEPT !.course = "failed", !.tried = @ \cup {trip[r].account}])

GoOn(r) == trip[r].course = "failed" /\ Move(r, Again(trip[r]))

Deliver(r) ==
    /\ trip[r].course = "served"
    /\ \E outcome \in {"relayed", "broken", "vanished"} : Move(r, Over(trip[r], outcome))

\* The bookkeeping of an attempt fails.
Crash(r) ==
    /\ trip[r].course \notin {"choosing", "over"}
    /\ Move(r, Over(trip[r], "crashed"))

Next ==
    \E r \in Requests :
        \/ Choose(r) \/ NoneLeft(r)
        \/ Served(r) \/ Lose(r) \/ Broken(r) \/ Rejected(r)
        \/ Renew(r) \/ FailToRenew(r)
        \/ GoOn(r) \/ Deliver(r) \/ Crash(r)

Spec == Init /\ [][Next]_vars
=============================================================================
