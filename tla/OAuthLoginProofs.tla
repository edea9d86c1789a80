-------------------------- MODULE OAuthLoginProofs --------------------------
(***************************************************************************)
(* Theorems about OAuthLogin: for any number of logins, names and ports,   *)
(* whether or not the provider looks at the verifier.                      *)
(***************************************************************************)
EXTENDS OAuthLogin, TLAPS

-----------------------------------------------------------------------------
(* The inductive invariant *)

\* A login that trades a code has its own redirect, and one that stores tokens
\* has those of its own sign-in.
CarriesOwn ==
    \A f \in Flows : /\ pc[f] = "exchange" => target[f].of = f
                     /\ pc[f] = "store" => token[f] = f

\* Whoever has found a name free that is not free any more was overtaken.
OvertakenKnown ==
    \A f \in Flows : pc[f] \in Running /\ accounts[Name[f]].exists => f \in overtaken

IndInv ==
    /\ TypeOK
    /\ CarriesOwn
    /\ OvertakenKnown
    /\ OwnSignIn
    /\ LostOnlyToRace

LEMMA InitInv == Init => IndInv
<1> SUFFICES ASSUME Init PROVE IndInv
  OBVIOUS
<1> DEFINE Rows == [by : Flows \cup {NoFlow}, of : Flows \cup {NoFlow}, exists : BOOLEAN]
<1>1. TypeOK
  <2>1. MaxStrays \in Nat /\ MaxEdits \in Nat
    BY LoginAssumption DEF LoginAssumption
  <2>2. NoAccount \in Rows /\ Added(NoFlow, NoFlow) \in Rows
    BY DEF NoAccount, Added
  <2> HIDE DEF Rows
  <2>3. accounts \in [Names -> Rows]
    BY <2>2 DEF Init
  <2>4. strays \in 0..MaxStrays /\ edits \in 0..MaxEdits
    BY <2>1 DEF Init
  <2>. QED BY <2>3, <2>4 DEF Init, TypeOK, NoTarget, Rows
<1>2. CarriesOwn /\ OvertakenKnown /\ LostOnlyToRace
  BY DEF Init, CarriesOwn, OvertakenKnown, LostOnlyToRace, Running
<1>3. OwnSignIn
  BY DEF Init, OwnSignIn, NoAccount, Added
<1>. QED BY <1>1, <1>2, <1>3 DEF IndInv

-----------------------------------------------------------------------------
(* What the steps have in common *)

\* Where a login goes next.
LEMMA GotoKeeps ==
    ASSUME IndInv, NEW f \in Flows, NEW label \in {"start"} \cup Running \cup Ended, Goto(f, label)
    PROVE  /\ pc' \in [Flows -> {"start"} \cup Running \cup Ended]
           /\ pc'[f] = label
           /\ \A g \in Flows \ {f} : pc'[g] = pc[g]
BY DEF IndInv, TypeOK, Goto

LEMMA Labels ==
    /\ \A l \in {"waiting", "redirected", "exchange", "store"} : l \in Running
    /\ \A l \in {"done", "failed", "lost"} : l \in Ended /\ l \notin Running
    /\ "start" \notin Running
BY DEF Running, Ended

\* A login that moves on without storing anything: to a label at which it holds
\* no code and no tokens, or at which they are its own.
LEMMA MoveInv ==
    ASSUME IndInv, NEW f \in Flows, NEW label \in Running \cup {"failed"}, Goto(f, label),
           UNCHANGED <<accounts, overtaken>>,
           \/ pc[f] \in Running
           \/ label = "failed"
           \/ ~accounts[Name[f]].exists,
           \A g \in Flows \ {f} : target'[g] = target[g] /\ token'[g] = token[g],
           label = "exchange" => target'[f].of = f,
           label = "store" => token'[f] = f,
           TypeOK'
    PROVE  IndInv'
<1>1. /\ pc'[f] = label
      /\ \A g \in Flows \ {f} : pc'[g] = pc[g]
  BY GotoKeeps, Labels
<1>2. CarriesOwn'
  BY <1>1 DEF IndInv, CarriesOwn
<1>3. OvertakenKnown'
  BY <1>1, Labels DEF IndInv, OvertakenKnown
<1>4. OwnSignIn'
  BY DEF IndInv, OwnSignIn
<1>5. LostOnlyToRace'
  BY <1>1, Labels DEF IndInv, LostOnlyToRace, Running
<1>. QED BY <1>2, <1>3, <1>4, <1>5 DEF IndInv

-----------------------------------------------------------------------------
(* The steps *)

\* The name is free when a login begins to wait.
LEMMA BeginInv ==
    ASSUME IndInv, NEW f \in Flows, Begin(f)
    PROVE  IndInv'
<1> DEFINE label == IF NameFree(f) /\ (f \in ManualFlows \/ PortFree(f)) THEN "waiting" ELSE "failed"
<1>1. /\ Goto(f, label) /\ UNCHANGED <<target, token, spent, accounts, overtaken, strays, edits>>
      /\ tab' \in [Flows -> {"closed", "open", "code", "error"}]
  BY DEF Begin, IndInv, TypeOK
<1>2. /\ label \in Running \cup {"failed"} /\ label # "exchange" /\ label # "store"
      /\ label = "failed" \/ ~accounts[Name[f]].exists
  BY Labels DEF NameFree
<1> HIDE DEF label
<1>3. TypeOK'
  BY <1>1, <1>2, GotoKeeps, Labels DEF IndInv, TypeOK
<1>. QED BY <1>1, <1>2, <1>3, MoveInv

\* A redirect gets a login to look at it, whatever it is.
LEMMA RedirectedInv ==
    ASSUME IndInv, NEW f \in Flows, pc[f] = "waiting",
           NEW t \in [kind : {"none", "code", "error", "stray"}, of : Flows \cup {NoFlow}],
           Redirected(f, t), strays' \in 0..MaxStrays,
           UNCHANGED <<token, tab, spent, accounts, overtaken, edits>>
    PROVE  IndInv'
<1>1. /\ Goto(f, "redirected")
      /\ target' \in [Flows -> [kind : {"none", "code", "error", "stray"}, of : Flows \cup {NoFlow}]]
      /\ \A g \in Flows \ {f} : target'[g] = target[g]
  BY DEF Redirected, IndInv, TypeOK
<1>2. TypeOK'
  BY <1>1, GotoKeeps, Labels DEF IndInv, TypeOK
<1>. QED BY <1>1, <1>2, MoveInv, Labels

\* Only a login's own redirect gets it a code to trade.
LEMMA ParseInv ==
    ASSUME IndInv, NEW f \in Flows, Parse(f)
    PROVE  IndInv'
<1> DEFINE label == IF Accepts(f, target[f]) THEN "exchange" ELSE "failed"
<1>1. Goto(f, label) /\ UNCHANGED <<target, token, tab, spent, accounts, overtaken, strays, edits>>
  BY DEF Parse
<1>2. /\ label \in Running \cup {"failed"} /\ label # "store"
      /\ label = "exchange" => target[f].of = f
      /\ pc[f] \in Running
  BY Labels DEF Accepts, Parse
<1> HIDE DEF label
<1>3. TypeOK'
  BY <1>1, <1>2, GotoKeeps, Labels DEF IndInv, TypeOK
<1>. QED BY <1>1, <1>2, <1>3, MoveInv

LEMMA FailInv ==
    ASSUME IndInv, NEW f \in Flows, Goto(f, "failed"), spent' \in SUBSET Flows,
           UNCHANGED <<target, token, tab, accounts, overtaken, strays, edits>>
    PROVE  IndInv'
<1>1. TypeOK'
  BY GotoKeeps, Labels DEF IndInv, TypeOK
<1>. QED BY <1>1, MoveInv, Labels

\* The tokens are those of the sign-in whose code was traded.
LEMMA ExchangeInv ==
    ASSUME IndInv, NEW f \in Flows, Exchange(f)
    PROVE  IndInv'
<1>1. target[f].of = f /\ pc[f] \in Running
  BY Labels DEF IndInv, CarriesOwn, Exchange
<1>2. ASSUME token' = [token EXCEPT ![f] = target[f].of], Goto(f, "store"),
             spent' = spent \cup {target[f].of}
      PROVE  IndInv'
  <2>1. /\ token' \in [Flows -> Flows \cup {NoFlow}] /\ token'[f] = f
        /\ \A g \in Flows \ {f} : token'[g] = token[g]
        /\ spent' \subseteq Flows
    BY <1>1, <1>2 DEF IndInv, TypeOK
  <2>2. TypeOK'
    BY <1>2, <2>1, GotoKeeps, Labels DEF IndInv, TypeOK, Exchange
  <2>. QED BY <1>1, <1>2, <2>1, <2>2, MoveInv, Labels DEF Exchange
<1>3. ASSUME UNCHANGED token, Goto(f, "failed"), spent' \in {spent, spent \cup {target[f].of}}
      PROVE  IndInv'
  BY <1>1, <1>3, FailInv DEF Exchange, IndInv, TypeOK
<1>. QED BY <1>2, <1>3 DEF Exchange

\* A name that is taken overtakes every other login that has checked it.
LEMMA TakenInv ==
    ASSUME IndInv, NEW n \in Names, NEW f \in Flows \cup {NoFlow},
           NEW g \in Flows \cup {NoFlow}, f = g,
           accounts' = [accounts EXCEPT ![n] = Added(f, g)],
           overtaken' = overtaken \cup Overtakes(f, n),
           \A h \in Flows \ {f} : pc'[h] = pc[h],
           f \in Flows => pc'[f] = "done"
    PROVE  OvertakenKnown' /\ OwnSignIn' /\ LostOnlyToRace'
<1>1. \A m \in Names \ {n} : accounts'[m] = accounts[m]
  BY DEF IndInv, TypeOK
<1>2. accounts'[n] = Added(f, g)
  BY DEF IndInv, TypeOK
<1>3. OvertakenKnown'
  <2> SUFFICES ASSUME NEW h \in Flows, pc'[h] \in Running, accounts'[Name[h]].exists
               PROVE  h \in overtaken'
    BY DEF OvertakenKnown
  <2>1. h # f /\ pc[h] \in Running /\ Name[h] \in Names
    BY Labels, LoginAssumption DEF LoginAssumption
  <2>2. CASE Name[h] = n
    BY <2>1, <2>2 DEF Overtakes
  <2>3. CASE Name[h] # n
    BY <1>1, <2>1, <2>3 DEF IndInv, OvertakenKnown
  <2>. QED BY <2>2, <2>3
<1>4. OwnSignIn'
  BY <1>1, <1>2 DEF IndInv, OwnSignIn, Added
<1>5. LostOnlyToRace'
  BY DEF IndInv, LostOnlyToRace
<1>. QED BY <1>3, <1>4, <1>5

LEMMA StoreInv ==
    ASSUME IndInv, NEW f \in Flows, Store(f)
    PROVE  IndInv'
<1>1. Name[f] \in Names /\ token[f] = f /\ pc[f] = "store"
  BY LoginAssumption DEF LoginAssumption, Store, IndInv, CarriesOwn
<1>2. ASSUME Insertable(Name[f]) PROVE IndInv'
  <2>1. /\ accounts' = [accounts EXCEPT ![Name[f]] = Added(f, token[f])]
        /\ overtaken' = overtaken \cup Overtakes(f, Name[f])
        /\ Goto(f, "done")
        /\ UNCHANGED <<target, token, tab, spent, strays, edits>>
    BY <1>2 DEF Store
  <2>2. pc'[f] = "done" /\ \A g \in Flows \ {f} : pc'[g] = pc[g]
    BY <2>1, GotoKeeps, Labels
  <2>3. OvertakenKnown' /\ OwnSignIn' /\ LostOnlyToRace'
    BY <1>1, <2>1, <2>2, TakenInv
  <2>4. CarriesOwn'
    BY <2>1, <2>2 DEF IndInv, CarriesOwn
  <2>5. TypeOK'
    BY <1>1, <2>1, GotoKeeps, Labels DEF IndInv, TypeOK, Added, Overtakes
  <2>. QED BY <2>3, <2>4, <2>5 DEF IndInv
<1>3. ASSUME ~Insertable(Name[f]) PROVE IndInv'
  <2>1. Goto(f, "lost") /\ UNCHANGED <<accounts, overtaken, target, token, tab, spent, strays, edits>>
    BY <1>3 DEF Store
  <2>2. pc'[f] = "lost" /\ \A g \in Flows \ {f} : pc'[g] = pc[g]
    BY <2>1, GotoKeeps, Labels
  <2>3. f \in overtaken
    BY <1>1, <1>3, Labels DEF Insertable, IndInv, OvertakenKnown
  <2>4. TypeOK'
    BY <2>1, GotoKeeps, Labels DEF IndInv, TypeOK
  <2>5. CarriesOwn' /\ OvertakenKnown' /\ LostOnlyToRace'
    BY <2>1, <2>2, <2>3, Labels DEF IndInv, CarriesOwn, OvertakenKnown, LostOnlyToRace
  <2>6. OwnSignIn'
    BY <2>1 DEF IndInv, OwnSignIn
  <2>. QED BY <2>4, <2>5, <2>6 DEF IndInv
<1>. QED BY <1>2, <1>3

\* Other ways to add and remove accounts.
LEMMA OthersInv ==
    ASSUME IndInv, NEW n \in Names, AddAccount(n) \/ RemoveAccount(n)
    PROVE  IndInv'
<1> DEFINE Rows == [by : Flows \cup {NoFlow}, of : Flows \cup {NoFlow}, exists : BOOLEAN]
<1>1. /\ UNCHANGED <<pc, target, token, tab, spent, strays>> /\ edits' \in 0..MaxEdits
      /\ accounts' \in [Names -> [by : Flows \cup {NoFlow}, of : Flows \cup {NoFlow},
                                  exists : BOOLEAN]]
      /\ overtaken' \subseteq Flows
  <2>2. NoAccount \in Rows /\ Added(NoFlow, NoFlow) \in Rows
    BY DEF NoAccount, Added
  <2>3. accounts \in [Names -> Rows] /\ overtaken \subseteq Flows
    BY DEF IndInv, TypeOK
  <2> HIDE DEF Rows
  <2>4. accounts' \in [Names -> Rows]
    BY <2>2, <2>3 DEF AddAccount, RemoveAccount
  <2>5. overtaken' \subseteq Flows
    BY <2>3 DEF AddAccount, RemoveAccount, Overtakes
  <2>6. edits \in 0..MaxEdits /\ MaxEdits \in Nat
    BY LoginAssumption DEF IndInv, TypeOK, LoginAssumption
  <2>7. /\ UNCHANGED <<pc, target, token, tab, spent, strays>>
        /\ edits < MaxEdits /\ edits' = edits + 1
    BY DEF AddAccount, RemoveAccount
  <2>. QED BY <2>4, <2>5, <2>6, <2>7 DEF Rows
<1>2. TypeOK' /\ CarriesOwn'
  BY <1>1 DEF IndInv, TypeOK, CarriesOwn
<1>3. ASSUME AddAccount(n) PROVE OvertakenKnown' /\ OwnSignIn' /\ LostOnlyToRace'
  BY <1>1, <1>3, TakenInv, LoginAssumption DEF AddAccount, LoginAssumption
<1>4. ASSUME RemoveAccount(n) PROVE OvertakenKnown' /\ OwnSignIn' /\ LostOnlyToRace'
  <2>1. /\ UNCHANGED overtaken
        /\ \A m \in Names : accounts'[m].exists => accounts'[m] = accounts[m]
    BY <1>4 DEF RemoveAccount, NoAccount, IndInv, TypeOK
  <2>. QED BY <1>1, <2>1, LoginAssumption
           DEF IndInv, OvertakenKnown, OwnSignIn, LostOnlyToRace, LoginAssumption
<1>. QED BY <1>2, <1>3, <1>4 DEF IndInv

LEMMA DecideInv ==
    ASSUME IndInv, NEW f \in Flows, Decide(f)
    PROVE  IndInv'
<1>1. TypeOK'
  BY DEF IndInv, TypeOK, Decide
<1>2. CarriesOwn' /\ OvertakenKnown' /\ OwnSignIn' /\ LostOnlyToRace'
  BY DEF IndInv, CarriesOwn, OvertakenKnown, OwnSignIn, LostOnlyToRace, Decide
<1>. QED BY <1>1, <1>2 DEF IndInv

LEMMA StepInv == IndInv /\ [Next]_vars => IndInv'
<1> SUFFICES ASSUME IndInv, [Next]_vars PROVE IndInv'
  OBVIOUS
<1> DEFINE Targets == [kind : {"none", "code", "error", "stray"}, of : Flows \cup {NoFlow}]
<1>1. ASSUME UNCHANGED vars PROVE IndInv'
  BY <1>1 DEF vars, IndInv, TypeOK, CarriesOwn, OvertakenKnown, OwnSignIn, LostOnlyToRace
<1>2. ASSUME NEW f \in Flows, Timeout(f) \/ Interrupt(f) PROVE IndInv'
  BY <1>2, FailInv DEF Timeout, Interrupt, IndInv, TypeOK
<1>3. ASSUME NEW f \in Flows, Begin(f) \/ Parse(f) \/ Exchange(f) \/ Store(f) \/ Decide(f)
      PROVE  IndInv'
  BY <1>3, BeginInv, ParseInv, ExchangeInv, StoreInv, DecideInv
<1>4. ASSUME NEW f \in Flows, NEW g \in Flows, Deliver(f, g) PROVE IndInv'
  <2>1. [kind |-> tab[f], of |-> f] \in Targets
    BY <1>4 DEF Deliver
  <2>2. pc[g] = "waiting" /\ Redirected(g, [kind |-> tab[f], of |-> f]) /\ strays' \in 0..MaxStrays
    BY <1>4 DEF Deliver, IndInv, TypeOK
  <2>. QED BY <1>4, <2>1, <2>2, RedirectedInv DEF Deliver
<1>5. ASSUME NEW g \in Flows, Stray(g) PROVE IndInv'
  <2>1. [kind |-> "stray", of |-> NoFlow] \in Targets
    OBVIOUS
  <2>2. strays' \in 0..MaxStrays
    BY <1>5, LoginAssumption DEF Stray, IndInv, TypeOK, LoginAssumption
  <2>. QED BY <1>5, <2>1, <2>2, RedirectedInv DEF Stray
<1>6. ASSUME NEW f \in Flows, NEW g \in Flows, Paste(f, g) PROVE IndInv'
  <2>1. [kind |-> tab[g], of |-> g] \in Targets
    BY <1>6 DEF Paste
  <2>2. pc[f] = "waiting" /\ Redirected(f, [kind |-> tab[g], of |-> g]) /\ strays' \in 0..MaxStrays
    BY <1>6 DEF Paste, IndInv, TypeOK
  <2>. QED BY <1>6, <2>1, <2>2, RedirectedInv DEF Paste
<1>7. ASSUME NEW n \in Names, AddAccount(n) \/ RemoveAccount(n) PROVE IndInv'
  BY <1>7, OthersInv
<1>. QED BY <1>1, <1>2, <1>3, <1>4, <1>5, <1>6, <1>7 DEF Next, FlowStep

-----------------------------------------------------------------------------
(* The theorems *)

\* Nothing a step does breaks the invariant that the properties rest on.
THEOREM Invariance == Spec => []IndInv
BY InitInv, StepInv, PTL DEF Spec

\* However many logins share a port, a name and a browser, whatever is pasted and
\* whether or not the provider looks at the verifier: an account holds the tokens
\* of the sign-in its own login started (parse_callback, exchange_code).
THEOREM TokensAreOwn == Spec => []OwnSignIn
<1>1. IndInv => OwnSignIn
  BY DEF IndInv
<1>. QED BY <1>1, Invariance, PTL

\* A login that has got tokens throws them away only if its name was taken after
\* it had found it free (account_login).
THEOREM LossNeedsRace == Spec => []LostOnlyToRace
<1>1. IndInv => LostOnlyToRace
  BY DEF IndInv
<1>. QED BY <1>1, Invariance, PTL
=============================================================================
