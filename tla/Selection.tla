----------------------------- MODULE Selection ------------------------------
(***************************************************************************)
(* The state that account selection reads, and what select_account         *)
(* (app/modules/proxy/load_balancer.py) promises to its callers in every   *)
(* state, for every strategy, tried list, pin and preference.              *)
(***************************************************************************)
EXTENDS LoadBalancer

CONSTANT RRPeriod   \* the round-robin counter is kept modulo this

ASSUME PeriodAssumption ==
    /\ RRPeriod \in Nat \ {0}
    /\ \A n \in 1..Cardinality(Accounts) : RRPeriod % n = 0

VARIABLES
    row,       \* the accounts table
    rr         \* _round_robin_counter

-----------------------------------------------------------------------------
\* Every way of calling select_account with these rows.
Chosen(excluded, pinned, preferred, strategy) ==
    SelectAccount(row, Accounts, excluded, pinned, preferred, strategy, rr)

Usable(excluded) == {a \in Accounts \ excluded : row[a].enabled /\ row[a].cooldown < 1}

\* No strategy strands a request: it selects as long as some untried account
\* is usable, and it selects only such accounts.
SelectionComplete ==
    \A excluded \in SUBSET Accounts, strategy \in Strategies,
       preferred \in Accounts \cup {NoAccount} :
        LET chosen == Chosen(excluded, NoAccount, preferred, strategy)
        IN  /\ chosen \subseteq Usable(excluded)
            /\ chosen = {} <=> Usable(excluded) = {}

\* Affinity is a soft hint: it decides where its account is usable and the
\* strategy is not single_account, it never overrides a pin, and elsewhere it
\* changes nothing (README, sticky sessions).
AffinityYields ==
    \A excluded \in SUBSET Accounts, strategy \in Strategies, preferred \in Accounts :
        /\ \A pinned \in Accounts :
              Chosen(excluded, pinned, preferred, strategy)
                  = Chosen(excluded, pinned, NoAccount, "round_robin")
        /\ Chosen(excluded, NoAccount, preferred, strategy) =
              IF preferred \in Usable(excluded) /\ strategy # "single_account"
              THEN {preferred} ELSE Chosen(excluded, NoAccount, NoAccount, strategy)

\* No bucket of the account is used up in the window that runs now: levels seen
\* before the window rolled over say nothing of it.
NotSpent(a) == row[a].reset = 0 \/ "spent" \notin {row[a].requests, row[a].tokens}

\* The default strategy keeps off a spent account, and off one of weight zero,
\* while another one that may take traffic is not spent (README, headroom).
SparesSpentAccounts ==
    \A excluded \in SUBSET Accounts :
        \A a \in Chosen(excluded, NoAccount, NoAccount, "capacity_weighted"),
           b \in Usable(excluded) :
            Weight[b] > 0 /\ NotSpent(b) => Weight[a] > 0 /\ NotSpent(a)

\* While the pool does not change, as many consecutive round-robin selections as
\* there are usable accounts use each of them once.  The code's counter does not
\* wrap; the model's does, at a multiple of every pool size, which no selection
\* can tell from a counter that goes on.
RoundRobinFair ==
    LET n == Cardinality(Usable({}))
        Pick(i) == SelectAccount(row, Accounts, {}, NoAccount, NoAccount, "round_robin",
                                 (rr + i) % RRPeriod)
    IN  /\ UNION {Pick(i) : i \in 1..n} = Usable({})
        /\ \A i \in 1..n : Cardinality(Pick(i)) = 1
=============================================================================
