--------------------------- MODULE MCLoadBalancer ---------------------------
(***************************************************************************)
(* Selection over every pool of three accounts whose rows come from a set  *)
(* that has each way of being unavailable, each level of headroom and each *)
(* state of the rate-limit window, while time passes and the round-robin   *)
(* counter advances.                                                       *)
(***************************************************************************)
EXTENDS Selection

CONSTANTS a1, a2, a3

ByAccount(x, y, z) == [a \in Accounts |-> IF a = a1 THEN x ELSE IF a = a2 THEN y ELSE z]

MCRank == ByAccount(1, 2, 3)
MCPriority == ByAccount(0, 1, 1)
MCWeight == ByAccount(1, 2, 0)

vars == <<row, rr>>

\* Rows with the tokens bucket at each level and the requests bucket unset or
\* at the same level.
PoolRows ==
    [enabled : {TRUE}, failures : {0}, reason : {"none"}, cooldown : {NoTime},
     requests : {"unset"}, tokens : {"unset", "low", "spent"}, reset : {NoTime, 0, 1},
     refreshFailures : {0}, total : {0, 1}]
    \cup {[FreshRow(TRUE) EXCEPT !.requests = "spent", !.tokens = "room"],
          [FreshRow(FALSE) EXCEPT !.reason = "auth"],
          [FreshRow(TRUE) EXCEPT !.cooldown = 1]}

Init ==
    /\ row \in [Accounts -> PoolRows]
    /\ rr = 0

Tick ==
    /\ row' = [a \in Accounts |-> Aged(row[a])]
    /\ row' # row
    /\ UNCHANGED rr

\* A round-robin selection by some request.
Advance ==
    /\ UsesCounter(row, Accounts, {}, NoAccount, NoAccount, "round_robin")
    /\ rr' = (rr + 1) % RRPeriod
    /\ UNCHANGED row

Spec == Init /\ [][Tick \/ Advance]_vars
=============================================================================
