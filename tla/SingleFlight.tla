---------------------------- MODULE SingleFlight ----------------------------
(***************************************************************************)
(* What credentials.refresh promises to the requests that use an account,  *)
(* whatever it takes to keep the promise: one current token, renewed only  *)
(* when it has stopped being good and by one caller at a time, or replaced *)
(* by an operator, and handed out as it is at that moment.  OAuthRefresh   *)
(* implements it.                                                          *)
(***************************************************************************)
EXTENDS Integers

CONSTANTS Callers, NoCaller

VARIABLES
    current,    \* the number of the current token
    good,       \* whether it needs no renewal
    renewer,    \* the caller that renews it
    replaces,   \* the token that is being renewed
    handed      \* of each caller: the token it was given and has not used, if any

vars == <<current, good, renewer, replaces, handed>>

Init ==
    /\ current = 0
    /\ good = TRUE
    /\ renewer = NoCaller
    /\ replaces = 0
    /\ handed = [c \in Callers |-> {}]

\* The token comes due, or the upstream rejects it.
Spoil ==
    /\ good' = FALSE
    /\ UNCHANGED <<current, renewer, replaces, handed>>

Begin(c) ==
    /\ good = FALSE
    /\ renewer = NoCaller
    /\ renewer' = c
    /\ replaces' = current
    /\ UNCHANGED <<current, good, handed>>

\* A token newer than the one renewed takes its place, or the place of one entered
\* meanwhile, whose end then may be taken for the end of the new one.  The caller
\* is given it, or will ask again.
Renew(c) ==
    /\ renewer = c
    /\ current' > replaces
    /\ good' = TRUE \/ (current # replaces /\ good' = good)
    /\ renewer' = NoCaller
    /\ replaces' = 0
    /\ handed' \in {handed, [handed EXCEPT ![c] = {current'}]}

GiveUp(c) ==
    /\ renewer = c
    /\ renewer' = NoCaller
    /\ replaces' = 0
    /\ UNCHANGED <<current, good, handed>>

\* An operator enters a new token.
Enter ==
    /\ current' > current
    /\ good' = TRUE
    /\ UNCHANGED <<renewer, replaces, handed>>

Hand(c) ==
    /\ handed' = [handed EXCEPT ![c] = {current}]
    /\ UNCHANGED <<current, good, renewer, replaces>>

\* The caller uses the token, which may spoil it.
Use(c) ==
    /\ good' \in {good, FALSE}
    /\ handed' = [handed EXCEPT ![c] = {}]
    /\ UNCHANGED <<current, renewer, replaces>>

Crash ==
    /\ renewer' = NoCaller
    /\ replaces' = 0
    /\ handed' = [c \in Callers |-> {}]
    /\ UNCHANGED <<current, good>>

Next ==
    \/ Spoil
    \/ Enter
    \/ \E c \in Callers : Begin(c) \/ Renew(c) \/ GiveUp(c) \/ Hand(c) \/ Use(c)
    \/ Crash

Spec == Init /\ [][Next]_vars
=============================================================================
