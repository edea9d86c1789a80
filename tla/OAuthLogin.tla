----------------------------- MODULE OAuthLogin -----------------------------
(***************************************************************************)
(* `claude-lb account login` (app/cli.py, app/modules/accounts/            *)
(* oauth_flow.py): a command of its own process checks that the account's  *)
(* name is free, waits for the browser's redirect on a loopback port or    *)
(* for the operator to paste it, trades the code for tokens, and stores    *)
(* the account.  Meanwhile other logins run, accounts are added and        *)
(* removed, and browser tabs of finished logins are still open.            *)
(*                                                                         *)
(* A flow f stands for its request: f is its state parameter, the code the *)
(* provider issues for it, and the sign-in its tokens belong to.           *)
(***************************************************************************)
EXTENDS Integers, FiniteSets

CONSTANTS
    Flows, NoFlow,
    Names,
    Name,           \* of the account a flow adds
    ManualFlows,    \* flows with --manual
    Port,           \* of a flow's listener; equal for flows with one --redirect-port
    ChecksVerifier, \* does the provider check the PKCE verifier?
    MaxStrays,      \* bound of an instance: unrelated requests with a query
    MaxEdits        \* bound of an instance: accounts added or removed by others

ASSUME LoginAssumption ==
    /\ NoFlow \notin Flows
    /\ Name \in [Flows -> Names]
    /\ ManualFlows \subseteq Flows
    /\ Flows \subseteq DOMAIN Port
    /\ ChecksVerifier \in BOOLEAN
    /\ {MaxStrays, MaxEdits} \subseteq Nat

VARIABLES
    pc,         \* of each flow
    target,     \* the redirect it got: its kind and whose it is
    token,      \* whose sign-in its tokens belong to
    tab,        \* the provider's page of each flow, in some browser
    spent,      \* codes the provider has exchanged
    accounts,   \* the accounts table: how the account of each name came about
    overtaken,  \* history: flows whose name was taken after they had checked it
    strays, edits

vars == <<pc, target, token, tab, spent, accounts, overtaken, strays, edits>>

Running == {"waiting", "redirected", "exchange", "store"}
Ended == {"done", "failed", "lost"}
NoTarget == [kind |-> "none", of |-> NoFlow]
NoAccount == [by |-> NoFlow, of |-> NoFlow, exists |-> FALSE]
Added(f, g) == [by |-> f, of |-> g, exists |-> TRUE]

TypeOK ==
    /\ pc \in [Flows -> {"start"} \cup Running \cup Ended]
    /\ target \in [Flows -> [kind : {"none", "code", "error", "stray"},
                             of : Flows \cup {NoFlow}]]
    /\ token \in [Flows -> Flows \cup {NoFlow}]
    /\ tab \in [Flows -> {"closed", "open", "code", "error"}]
    /\ spent \subseteq Flows
    /\ accounts \in [Names -> [by : Flows \cup {NoFlow}, of : Flows \cup {NoFlow},
                               exists : BOOLEAN]]
    /\ overtaken \subseteq Flows
    /\ strays \in 0..MaxStrays /\ edits \in 0..MaxEdits

Init ==
    /\ pc = [f \in Flows |-> "start"]
    /\ target = [f \in Flows |-> NoTarget]
    /\ token = [f \in Flows |-> NoFlow]
    /\ tab = [f \in Flows |-> "closed"]
    /\ spent = {}
    /\ accounts \in [Names -> {NoAccount, Added(NoFlow, NoFlow)}]
    /\ overtaken = {}
    /\ strays = 0 /\ edits = 0

-----------------------------------------------------------------------------
(* The flow *)

Goto(f, label) == pc' = [pc EXCEPT ![f] = label]

\* From start() to close() in the finally: also while the code is exchanged.
Listens(f) == f \notin ManualFlows /\ pc[f] \in {"waiting", "redirected", "exchange"}

\* Mutant: the name is looked at only when the account is stored.
NameFree_Unchecked(f) == TRUE

NameFree(f) == ~accounts[Name[f]].exists

PortFree(f) == \A g \in Flows \ {f} : Listens(g) => Port[g] # Port[f]

\* The name is taken, or the port: the command ends.  Otherwise the URL is
\* printed, and the browser opened.
Begin(f) ==
    /\ pc[f] = "start"
    /\ IF NameFree(f) /\ (f \in ManualFlows \/ PortFree(f))
       THEN Goto(f, "waiting") /\ tab' = [tab EXCEPT ![f] = "open"]
       ELSE Goto(f, "failed") /\ UNCHANGED tab
    /\ UNCHANGED <<target, token, spent, accounts, overtaken, strays, edits>>

Redirected(f, t) ==
    /\ target' = [target EXCEPT ![f] = t]
    /\ Goto(f, "redirected")

\* Mutant: wait() without its timeout.
TimesOut_Never(f) == FALSE

TimesOut(f) == pc[f] = "waiting" /\ f \notin ManualFlows

Timeout(f) ==
    /\ TimesOut(f)
    /\ Goto(f, "failed")
    /\ UNCHANGED <<target, token, tab, spent, accounts, overtaken, strays, edits>>

\* Mutant: a code is taken without looking at the state parameter.
Accepts_AnyState(f, t) == t.kind = "code"

\* parse_callback: no error, the state is ours, and there is a code.
Accepts(f, t) == t.kind = "code" /\ t.of = f

Parse(f) ==
    /\ pc[f] = "redirected"
    /\ Goto(f, IF Accepts(f, target[f]) THEN "exchange" ELSE "failed")
    /\ UNCHANGED <<target, token, tab, spent, accounts, overtaken, strays, edits>>

\* The provider takes each code once, and only with the verifier of its flow if
\* it looks at it.
Grants(f) ==
    /\ target[f].of \notin spent
    /\ ChecksVerifier => target[f].of = f

\* exchange_code; the listener is closed afterwards.  The reply may be lost.
Exchange(f) ==
    /\ pc[f] = "exchange"
    /\ IF Grants(f)
       THEN /\ spent' = spent \cup {target[f].of}
            /\ \/ /\ token' = [token EXCEPT ![f] = target[f].of]
                  /\ Goto(f, "store")
               \/ UNCHANGED token /\ Goto(f, "failed")
       ELSE Goto(f, "failed") /\ UNCHANGED <<spent, token>>
    /\ UNCHANGED <<target, tab, accounts, overtaken, strays, edits>>

\* The flows other than f that have checked the name n.
Overtakes(f, n) == {g \in Flows \ {f} : Name[g] = n /\ pc[g] \in Running}

\* The UNIQUE constraint on accounts.name.
Insertable(n) == ~accounts[n].exists

\* The tokens are lost when the name was taken while the operator signed in.
Store(f) ==
    /\ pc[f] = "store"
    /\ IF Insertable(Name[f])
       THEN /\ accounts' = [accounts EXCEPT ![Name[f]] = Added(f, token[f])]
            /\ overtaken' = overtaken \cup Overtakes(f, Name[f])
            /\ Goto(f, "done")
       ELSE Goto(f, "lost") /\ UNCHANGED <<accounts, overtaken>>
    /\ UNCHANGED <<target, token, tab, spent, strays, edits>>

\* Ctrl-C, or the end of the process.
Interrupt(f) ==
    /\ pc[f] \in Running
    /\ Goto(f, "failed")
    /\ UNCHANGED <<target, token, tab, spent, accounts, overtaken, strays, edits>>

-----------------------------------------------------------------------------
(* The browser, and the others *)

\* The operator signs in or refuses; the provider redirects.
Decide(f) ==
    /\ tab[f] = "open"
    /\ \E answer \in {"code", "error"} : tab' = [tab EXCEPT ![f] = answer]
    /\ UNCHANGED <<pc, target, token, spent, accounts, overtaken, strays, edits>>

\* The redirect, or a reload of it, reaches whoever listens on the port now.
\* Requests after the first with a query change nothing.
Deliver(f, g) ==
    /\ tab[f] \in {"code", "error"}
    /\ Listens(g) /\ Port[g] = Port[f]
    /\ pc[g] = "waiting"
    /\ Redirected(g, [kind |-> tab[f], of |-> f])
    /\ UNCHANGED <<token, tab, spent, accounts, overtaken, strays, edits>>

\* Any other request with a query counts as the redirect too.
Stray(g) ==
    /\ Listens(g) /\ pc[g] = "waiting"
    /\ strays < MaxStrays
    /\ strays' = strays + 1
    /\ Redirected(g, [kind |-> "stray", of |-> NoFlow])
    /\ UNCHANGED <<token, tab, spent, accounts, overtaken, edits>>

\* With --manual the operator pastes a URL, perhaps that of another sign-in.
Paste(f, g) ==
    /\ f \in ManualFlows /\ pc[f] = "waiting"
    /\ tab[g] \in {"code", "error"}
    /\ Redirected(f, [kind |-> tab[g], of |-> g])
    /\ UNCHANGED <<token, tab, spent, accounts, overtaken, strays, edits>>

\* POST /api/accounts, `account add` and `account add-oauth`: they check the name
\* and insert in one transaction.
AddAccount(n) ==
    /\ edits < MaxEdits
    /\ ~accounts[n].exists
    /\ accounts' = [accounts EXCEPT ![n] = Added(NoFlow, NoFlow)]
    /\ overtaken' = overtaken \cup Overtakes(NoFlow, n)
    /\ edits' = edits + 1
    /\ UNCHANGED <<pc, target, token, tab, spent, strays>>

RemoveAccount(n) ==
    /\ edits < MaxEdits
    /\ accounts[n].exists
    /\ accounts' = [accounts EXCEPT ![n] = NoAccount]
    /\ edits' = edits + 1
    /\ UNCHANGED <<pc, target, token, tab, spent, overtaken, strays>>

FlowStep(f) == Begin(f) \/ Timeout(f) \/ Parse(f) \/ Exchange(f) \/ Store(f)

Next ==
    \/ \E f \in Flows : FlowStep(f) \/ Interrupt(f) \/ Decide(f) \/ Stray(f)
    \/ \E f, g \in Flows : Deliver(f, g) \/ Paste(f, g)
    \/ \E n \in Names : AddAccount(n) \/ RemoveAccount(n)

\* wait and the exchange have timeouts; nobody has to sign in.
Spec == Init /\ [][Next]_vars /\ \A f \in Flows : WF_vars(FlowStep(f))

-----------------------------------------------------------------------------
(* Properties *)

\* The tokens a login stores under its name are those of the sign-in it started
\* itself, even when a redirect of another login reaches its port, an operator
\* pastes the wrong URL, and the provider does not look at the verifier.
OwnSignIn ==
    \A n \in Names : accounts[n].exists => accounts[n].by = accounts[n].of

\* A login that has its tokens and finds its name taken throws them away; that
\* happens only when the name was taken after the login had found it free, by the
\* check before the browser opens.  (A lost reply of the exchange and an interrupt
\* lose tokens too, and end in "failed".)
LostOnlyToRace == \A f \in Flows : pc[f] = "lost" => f \in overtaken

\* A login that waits for the browser ends, also when nobody signs in.
LoginsEnd == \A f \in Flows \ ManualFlows : <>(pc[f] \in Ended)
=============================================================================
