------------------------------ MODULE MCProxy ------------------------------
(***************************************************************************)
(* Small instances of Proxy.  The thresholds are scaled down so that the   *)
(* breaker trips within the few requests of an instance: one unit of time  *)
(* stands for FAILURE_BACKOFF_SECONDS and for the one-minute default wait. *)
(***************************************************************************)
EXTENDS Proxy

CONSTANTS a1, a2, a3, r1, r2, r3

ByAccount(x, y, z) == [a \in Accounts |-> IF a = a1 THEN x ELSE IF a = a2 THEN y ELSE z]

MCRank == ByAccount(1, 2, 3)
MCPriority == ByAccount(0, 1, 1)
MCWeight == ByAccount(1, 2, 0)

NotPinned == [r \in Requests |-> NoAccount]

\* A response without rate-limit headers, and one that reports a spent bucket.
PlainHeaders == {NoHeaders}
SomeHeaders == {NoHeaders, [requests |-> "spent", tokens |-> "absent", reset |-> 2]}

NoRetryAfter == {NoTime}
ShortOrNone == {NoTime, 2}
=============================================================================
