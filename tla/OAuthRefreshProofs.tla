------------------------- MODULE OAuthRefreshProofs -------------------------
(***************************************************************************)
(* Proofs of the safety properties of OAuthRefresh, for any number of      *)
(* callers, any number of tokens and every choice of faults.               *)
(***************************************************************************)
EXTENDS OAuthRefresh, TLAPS

-----------------------------------------------------------------------------
(* Type correctness *)

LEMMA InitType == Init => TypeOK
<1> SUFFICES ASSUME Init PROVE TypeOK
  OBVIOUS
<1>1. rejected \in BOOLEAN /\ entered \in BOOLEAN
  BY Zenon DEF Init
<1>2. FirstStore \in Store
  BY DEF FirstStore, Store, Expiries
<1>3. QED
  BY <1>1, <1>2, CallersAssumption DEF Init, TypeOK, PCs

LEMMA StepType == TypeOK /\ [Next]_vars => TypeOK'
<1> SUFFICES ASSUME TypeOK, [Next]_vars PROVE TypeOK'
  OBVIOUS
<1> USE DEF TypeOK, callerVars, providerVars, history
<1>1. ASSUME NEW c \in Callers, Call(c) PROVE TypeOK'
  BY <1>1 DEF Call, PCs
<1>2. ASSUME NEW c \in Callers, Select(c) PROVE TypeOK'
  BY <1>2 DEF Select, PCs, Store
<1>3. ASSUME NEW c \in Callers, Accepted(c) PROVE TypeOK'
  BY <1>3 DEF Accepted, PCs
<1>4. ASSUME NEW c \in Callers, Rejected(c) PROVE TypeOK'
  BY <1>4 DEF Rejected, PCs
<1>5. ASSUME NEW c \in Callers, WriteOff(c) PROVE TypeOK'
  BY <1>5 DEF WriteOff, PCs, Store
<1>6. ASSUME NEW c \in Callers, Reuse(c) PROVE TypeOK'
  BY <1>6 DEF Reuse, Resume, PCs, Store
<1>7. ASSUME NEW c \in Callers, Post(c) PROVE TypeOK'
  BY <1>7 DEF Post, PCs
<1>8. ASSUME NEW c \in Callers, ProviderAccepts(c) PROVE TypeOK'
  <2>1. /\ next' \in Nat
        /\ UNCHANGED <<store, lock, force, reauthed, token, snap, rejected, entered, unpaid,
                       strikes>>
    BY <1>8 DEF ProviderAccepts
  <2>2. validRefresh' \subseteq Nat
    BY <1>8 DEF ProviderAccepts
  <2>3. snap[c].refresh \in Nat
    BY DEF Store
  <2>4. lost' \subseteq Nat
    BY <1>8, <2>3 DEF ProviderAccepts
  <2>5. pc' \in [Callers -> PCs] /\ reply' \in [Callers -> Nat]
    BY <1>8 DEF ProviderAccepts, PCs
  <2>6. QED
    BY <2>1, <2>2, <2>4, <2>5
<1>9. ASSUME NEW c \in Callers, ProviderRefuses(c) PROVE TypeOK'
  BY <1>9 DEF ProviderRefuses, PCs
<1>10. ASSUME NEW c \in Callers, StoreGrant(c) PROVE TypeOK'
  <2>1. store' \in Store
    <3>1. PICK expiry \in {"none", "fresh"} : store' = StoredGrant(c, expiry)
      BY <1>10 DEF StoreGrant
    <3>2. reply[c] \in Nat /\ expiry \in Expiries
      BY DEF Expiries
    <3>3. QED
      BY <3>1, <3>2 DEF StoredGrant, Store
  <2>2. FirstStore \in Store
    BY DEF FirstStore, Store, Expiries
  <2>3. pc' \in [Callers -> PCs]
    BY <1>10 DEF StoreGrant, Resume, PCs
  <2>4. snap' \in [Callers -> Store]
    BY <1>10, <2>2 DEF StoreGrant
  <2>5. rejected' \in BOOLEAN /\ entered' \in BOOLEAN
    BY <1>10, Zenon DEF StoreGrant
  <2>6. /\ force' \in [Callers -> BOOLEAN]
        /\ token' \in [Callers -> Nat]
        /\ reply' \in [Callers -> Nat]
        /\ unpaid' \in Int /\ strikes' \in Nat /\ lock' = NoCaller
        /\ UNCHANGED <<reauthed, validRefresh, next, lost>>
    BY <1>10 DEF StoreGrant, ReleasedLock
  <2>7. QED
    BY <2>1, <2>3, <2>4, <2>5, <2>6
<1>11. ASSUME NEW c \in Callers, StoreFailure(c) PROVE TypeOK'
  <2>1. store' \in Store
    <3>1. store' = StoredFailure(c) /\ snap[c].failures + 1 \in Nat
      BY <1>11 DEF StoreFailure, Store
    <3>2. QED
      BY <3>1 DEF StoredFailure, Store
  <2>2. FirstStore \in Store
    BY DEF FirstStore, Store, Expiries
  <2>3. pc' \in [Callers -> PCs]
    BY <1>11 DEF StoreFailure, PCs
  <2>4. snap' \in [Callers -> Store]
    BY <1>11, <2>2 DEF StoreFailure
  <2>5. QED
    BY <1>11, <2>1, <2>3, <2>4 DEF StoreFailure, ReleasedLock
<1>12. CASE Expire
  BY <1>12 DEF Expire, Store, Expiries
<1>13. ASSUME NEW key \in BOOLEAN, NEW login \in BOOLEAN, Patch(key, login) PROVE TypeOK'
  <2>1. store' \in Store
    BY <1>13 DEF Patch, Store, Expiries
  <2>2. validRefresh' \subseteq Nat
    BY <1>13 DEF Patch
  <2>3. rejected' \in BOOLEAN /\ entered' \in BOOLEAN /\ strikes' \in Nat
    BY <1>13 DEF Patch
  <2>4. QED
    BY <1>13, <2>1, <2>2, <2>3 DEF Patch
<1>15. CASE Crash
  <2>1. FirstStore \in Store
    BY DEF FirstStore, Store, Expiries
  <2>2. \A d \in Callers : snap[d].refresh \in Nat
    BY DEF Store
  <2>3. lost' \subseteq Nat
    BY <1>15, <2>2 DEF Crash
  <2>4. QED
    BY <1>15, <2>1, <2>3 DEF Crash, PCs
<1>16. CASE UNCHANGED vars
  BY <1>16 DEF vars
<1>17. QED
  BY <1>1, <1>2, <1>3, <1>4, <1>5, <1>6, <1>7, <1>8, <1>9, <1>10, <1>11, <1>12,
     <1>13, <1>15, <1>16 DEF Next, CallerStep

\* Every variable of the refresh keeps its type.
THEOREM TypeCorrect == Spec => []TypeOK
<1>1. QED
  BY InitType, StepType, PTL DEF Spec

-----------------------------------------------------------------------------
(* The inductive invariant *)

LEMMA InitInv == Init => IndInv
<1> SUFFICES ASSUME Init PROVE IndInv
  OBVIOUS
<1>1. TypeOK
  BY InitType
<1>2. QED
  BY <1>1, CallersAssumption
     DEF Init, FirstStore, IndInv, SingleGrant, InGrant, TokensIssued, ForcedWasRejected,
         GrantIsNeeded, ReplyIsNew, NeedsAccount, Overwritten, Outstanding, NeedsRefresh,
         RefreshTokenKept, NoReplay, StrikesCounted

\* Steps after which no more is owed than before.
LEMMA NothingOwed ==
    ASSUME NeedsAccount, unpaid' = unpaid, Outstanding' => Outstanding,
           Overwritten' => Overwritten, unpaid \in Int
    PROVE  NeedsAccount'
  BY DEF NeedsAccount

LEMMA StepInv == IndInv /\ [Next]_vars => IndInv'
<1> SUFFICES ASSUME IndInv, [Next]_vars PROVE IndInv'
  OBVIOUS
<1>0. TypeOK'
  BY StepType DEF IndInv
<1> USE DEF IndInv, callerVars, providerVars, history
<1>1. ASSUME NEW c \in Callers, Call(c) PROVE IndInv'
  BY <1>0, <1>1, CallersAssumption DEF TypeOK, Call, SingleGrant, InGrant, TokensIssued, ForcedWasRejected, GrantIsNeeded, ReplyIsNew, NeedsAccount, Overwritten, Outstanding, NeedsRefresh, RefreshTokenKept, NoReplay, StrikesCounted, Store, PCs
<1>2. ASSUME NEW c \in Callers, Select(c) PROVE IndInv'
  BY <1>0, <1>2, CallersAssumption DEF TypeOK, Select, SingleGrant, InGrant, TokensIssued, ForcedWasRejected, GrantIsNeeded, ReplyIsNew, NeedsAccount, Overwritten, Outstanding, NeedsRefresh, RefreshTokenKept, NoReplay, StrikesCounted, Store, PCs
<1>3. ASSUME NEW c \in Callers, Accepted(c) PROVE IndInv'
  BY <1>0, <1>3, CallersAssumption DEF TypeOK, Accepted, SingleGrant, InGrant, TokensIssued, ForcedWasRejected, GrantIsNeeded, ReplyIsNew, NeedsAccount, Overwritten, Outstanding, NeedsRefresh, RefreshTokenKept, NoReplay, StrikesCounted, Store, PCs
<1>4. ASSUME NEW c \in Callers, Rejected(c) PROVE IndInv'
  BY <1>0, <1>4, CallersAssumption DEF TypeOK, Rejected, SingleGrant, InGrant, TokensIssued, ForcedWasRejected, GrantIsNeeded, ReplyIsNew, NeedsAccount, Overwritten, Outstanding, NeedsRefresh, RefreshTokenKept, NoReplay, StrikesCounted, Store, PCs
<1>5. ASSUME NEW c \in Callers, WriteOff(c) PROVE IndInv'
  BY <1>0, <1>5, CallersAssumption DEF TypeOK, WriteOff, SingleGrant, InGrant, TokensIssued, ForcedWasRejected, GrantIsNeeded, ReplyIsNew, NeedsAccount, Overwritten, Outstanding, NeedsRefresh, RefreshTokenKept, NoReplay, StrikesCounted, Store, PCs
<1>6. ASSUME NEW c \in Callers, Reuse(c) PROVE IndInv'
  <2>1. SingleGrant'
    BY <1>6, CallersAssumption DEF TypeOK, Reuse, Resume, LockFree, SingleGrant, InGrant, PCs
  <2>2. TokensIssued'
    BY <1>6 DEF TypeOK, Reuse, Resume, LockFree, TokensIssued, Store
  <2>3. ForcedWasRejected'
    BY <1>6 DEF TypeOK, Reuse, Resume, LockFree, ForcedWasRejected, TokensIssued, PCs
  <2>4. GrantIsNeeded'
    BY <1>6 DEF TypeOK, Reuse, Resume, LockFree, GrantIsNeeded, SingleGrant, InGrant, NeedsRefresh, Store, PCs
  <2>5. ReplyIsNew'
    BY <1>6 DEF TypeOK, Reuse, Resume, LockFree, ReplyIsNew, SingleGrant, InGrant, Store, PCs
  <2>6. NeedsAccount'
    <3>1. Outstanding' => Outstanding
      BY <1>6 DEF Reuse, Outstanding, NeedsRefresh
    <3>2. Overwritten' => Overwritten
      BY <1>6 DEF TypeOK, Reuse, Resume, Overwritten, InGrant, PCs
    <3>3. QED
      BY <1>6, <3>1, <3>2, NothingOwed DEF Reuse, TypeOK
  <2>7. RefreshTokenKept'
    BY <1>6 DEF TypeOK, Reuse, Resume, LockFree, RefreshTokenKept, SingleGrant, InGrant, Store, PCs
  <2>8. NoReplay'
    BY <1>6 DEF TypeOK, Reuse, Resume, LockFree, NoReplay, SingleGrant, InGrant, PCs
  <2>9. StrikesCounted'
    BY <1>6 DEF TypeOK, Reuse, Resume, LockFree, StrikesCounted, SingleGrant, InGrant, Store, PCs
  <2>10. QED
    BY <1>0, <2>1, <2>2, <2>3, <2>4, <2>5, <2>6, <2>7, <2>8, <2>9
<1>7. ASSUME NEW c \in Callers, Post(c) PROVE IndInv'
  <2>1. SingleGrant'
    BY <1>7, CallersAssumption DEF TypeOK, Post, AlreadyRefreshed, LockFree, SingleGrant, InGrant, PCs
  <2>2. TokensIssued'
    BY <1>7 DEF TypeOK, Post, AlreadyRefreshed, LockFree, TokensIssued, Store
  <2>3. ForcedWasRejected'
    BY <1>7 DEF TypeOK, Post, AlreadyRefreshed, LockFree, ForcedWasRejected, TokensIssued, PCs
  <2>4. GrantIsNeeded'
    BY <1>7 DEF TypeOK, Post, AlreadyRefreshed, LockFree, GrantIsNeeded, SingleGrant, InGrant, NeedsRefresh, Store, PCs
  <2>5. ReplyIsNew'
    BY <1>7 DEF TypeOK, Post, AlreadyRefreshed, LockFree, ReplyIsNew, SingleGrant, InGrant, Store, PCs
  <2>6. NeedsAccount'
    <3>1. Outstanding' => Outstanding
      BY <1>7 DEF Post, Outstanding, NeedsRefresh
    <3>2. Overwritten' => Overwritten
      BY <1>7 DEF TypeOK, Post, Overwritten, InGrant, PCs
    <3>3. QED
      BY <1>7, <3>1, <3>2, NothingOwed DEF Post, TypeOK
  <2>7. RefreshTokenKept'
    BY <1>7 DEF TypeOK, Post, AlreadyRefreshed, LockFree, RefreshTokenKept, SingleGrant, InGrant, Store, PCs
  <2>8. NoReplay'
    <3>1. store.refresh \in validRefresh \cup lost
      BY <1>7, CallersAssumption DEF Post, LockFree, RefreshTokenKept, SingleGrant, InGrant
    <3>2. QED
      BY <1>7, <3>1 DEF TypeOK, Post, NoReplay
  <2>9. StrikesCounted'
    BY <1>7 DEF TypeOK, Post, AlreadyRefreshed, LockFree, StrikesCounted, SingleGrant, InGrant, Store, PCs
  <2>10. QED
    BY <1>0, <2>1, <2>2, <2>3, <2>4, <2>5, <2>6, <2>7, <2>8, <2>9
<1>8. ASSUME NEW c \in Callers, ProviderAccepts(c) PROVE IndInv'
  <2>1. SingleGrant'
    BY <1>8, CallersAssumption DEF TypeOK, ProviderAccepts, SingleGrant, InGrant, PCs
  <2>2. TokensIssued'
    <3>1. next' = next + 1 /\ validRefresh' \subseteq validRefresh \cup {next}
      BY <1>8 DEF ProviderAccepts
    <3>2. \A t \in validRefresh : t \in Nat /\ t < next
      BY DEF TypeOK, TokensIssued
    <3>3. \A t \in validRefresh' : t < next'
      BY <3>1, <3>2 DEF TypeOK
    <3>4. QED
      BY <1>8, <3>1, <3>3 DEF ProviderAccepts, TypeOK, TokensIssued, Store
  <2>3. ForcedWasRejected'
    BY <1>8 DEF TypeOK, ProviderAccepts, ForcedWasRejected, TokensIssued, PCs
  <2>4. GrantIsNeeded'
    BY <1>8 DEF TypeOK, ProviderAccepts, GrantIsNeeded, SingleGrant, InGrant, NeedsRefresh, Store, PCs
  <2>5. ReplyIsNew'
    BY <1>8 DEF TypeOK, ProviderAccepts, ReplyIsNew, SingleGrant, InGrant, Store, PCs, TokensIssued
  <2>6. NeedsAccount'
    <3>1. Outstanding' => Outstanding
      BY <1>8 DEF ProviderAccepts, Outstanding, NeedsRefresh
    <3>2. Overwritten' => Overwritten
      BY <1>8 DEF TypeOK, ProviderAccepts, Overwritten, InGrant, PCs
    <3>3. QED
      BY <1>8, <3>1, <3>2, NothingOwed DEF ProviderAccepts, TypeOK
  <2>7. RefreshTokenKept'
    BY <1>8 DEF TypeOK, ProviderAccepts, RefreshTokenKept, SingleGrant, InGrant, Store, PCs
  <2>8. NoReplay'
    BY <1>8 DEF TypeOK, ProviderAccepts, NoReplay, SingleGrant, InGrant, PCs
  <2>9. StrikesCounted'
    BY <1>8 DEF TypeOK, ProviderAccepts, StrikesCounted, SingleGrant, InGrant, Store, PCs
  <2>10. QED
    BY <1>0, <2>1, <2>2, <2>3, <2>4, <2>5, <2>6, <2>7, <2>8, <2>9
<1>9. ASSUME NEW c \in Callers, ProviderRefuses(c) PROVE IndInv'
  BY <1>0, <1>9, CallersAssumption DEF TypeOK, ProviderRefuses, SingleGrant, InGrant, TokensIssued, ForcedWasRejected, GrantIsNeeded, ReplyIsNew, NeedsAccount, Overwritten, Outstanding, NeedsRefresh, RefreshTokenKept, NoReplay, StrikesCounted, Store, PCs
<1>10. ASSUME NEW c \in Callers, StoreGrant(c) PROVE IndInv'
  <2>1. SingleGrant'
    BY <1>10, CallersAssumption DEF TypeOK, StoreGrant, ReleasedLock, StoredGrant, Resume, SingleGrant, InGrant, PCs
  <2>2. TokensIssued'
    <3>1. PICK expiry \in {"none", "fresh"} : store' = StoredGrant(c, expiry)
      BY <1>10 DEF StoreGrant
    <3>2. store'.access = reply[c] /\ store'.refresh \in {reply[c], store.refresh}
      BY <3>1 DEF StoredGrant, TypeOK, Store
    <3>3. reply[c] < next
      BY <1>10 DEF StoreGrant, ReplyIsNew
    <3>4. \A d \in Callers : token'[d] \in {token[d], 0, reply[c]}
      BY <1>10 DEF StoreGrant, TypeOK
    <3>5. \A d \in Callers : snap'[d].access \in {snap[d].access, 0}
      BY <1>10 DEF StoreGrant, TypeOK, FirstStore
    <3>6. UNCHANGED <<next, validRefresh>> /\ 0 < next
      BY <1>10 DEF StoreGrant, TokensIssued, TypeOK, Store
    <3>7. QED
      BY <3>2, <3>3, <3>4, <3>5, <3>6 DEF TokensIssued
  <2>3. ForcedWasRejected'
    <3>1. ~force'[c]
      BY <1>10 DEF StoreGrant, TypeOK
    <3>2. ASSUME NEW d \in Callers, force'[d]
          PROVE  pc'[d] \in {"queued", "post", "reply", "error"} /\ token'[d] # store'.access
      <4>1. d # c /\ force[d] /\ pc'[d] = pc[d] /\ token'[d] = token[d]
        BY <1>10, <3>1, <3>2 DEF StoreGrant, TypeOK
      <4>2. store'.access = reply[c] /\ token[d] # reply[c]
        BY <1>10 DEF StoreGrant, StoredGrant, ReplyIsNew, TypeOK, Store
      <4>3. QED
        BY <4>1, <4>2 DEF ForcedWasRejected
    <3>3. QED
      BY <3>2 DEF ForcedWasRejected
  <2>4. GrantIsNeeded'
    BY <1>10 DEF TypeOK, StoreGrant, ReleasedLock, StoredGrant, Resume, GrantIsNeeded, SingleGrant, InGrant, NeedsRefresh, Store, PCs
  <2>5. ReplyIsNew'
    BY <1>10 DEF TypeOK, StoreGrant, ReleasedLock, StoredGrant, Resume, ReplyIsNew, SingleGrant, InGrant, Store, PCs
  <2>6. NeedsAccount'
    <3>1. PICK expiry \in {"none", "fresh"} : store' = StoredGrant(c, expiry)
      BY <1>10 DEF StoreGrant
    <3>2. InGrant(c) /\ unpaid' = unpaid - 1
      BY <1>10 DEF StoreGrant, InGrant
    <3>3. ~Overwritten'
      BY <2>1, <1>10, CallersAssumption DEF StoreGrant, ReleasedLock, SingleGrant, Overwritten
    <3>4. Outstanding' =>
              snap[c].expiry = "none" /\ store.expiry = "due"
      <4>1. ~rejected'
        BY <1>10, Zenon DEF StoreGrant
      <4>2. store'.expiry = IF snap[c].expiry = "none" /\ expiry = "none"
                            THEN store.expiry ELSE expiry
        BY <3>1 DEF StoredGrant, TypeOK, Store
      <4>3. QED
        BY <4>1, <4>2 DEF Outstanding, NeedsRefresh
    <3>5. CASE snap[c].access = store.access
      <4>1. Outstanding
        BY <3>2, <3>5 DEF GrantIsNeeded, ForcedWasRejected, Outstanding, NeedsRefresh
      <4>2. ~Outstanding'
        BY <3>2, <3>4, <3>5 DEF GrantIsNeeded
      <4>3. QED
        BY <3>2, <3>3, <4>1, <4>2 DEF NeedsAccount, TypeOK
    <3>6. CASE snap[c].access # store.access
      <4>1. Overwritten
        BY <3>2, <3>6 DEF Overwritten
      <4>2. Outstanding' => Outstanding
        BY <3>4 DEF Outstanding, NeedsRefresh
      <4>3. QED
        BY <3>2, <3>3, <4>1, <4>2 DEF NeedsAccount, TypeOK
    <3>7. QED
      BY <3>5, <3>6
  <2>7. RefreshTokenKept'
    BY <1>10 DEF TypeOK, StoreGrant, ReleasedLock, StoredGrant, Resume, RefreshTokenKept, SingleGrant, InGrant, Store, PCs, ReplyIsNew
  <2>8. NoReplay'
    BY <1>10 DEF TypeOK, StoreGrant, ReleasedLock, StoredGrant, Resume, NoReplay, SingleGrant, InGrant, PCs
  <2>9. StrikesCounted'
    BY <1>10 DEF TypeOK, StoreGrant, ReleasedLock, StoredGrant, Resume, StrikesCounted, SingleGrant, InGrant, Store, PCs
  <2>10. QED
    BY <1>0, <2>1, <2>2, <2>3, <2>4, <2>5, <2>6, <2>7, <2>8, <2>9
<1>11. ASSUME NEW c \in Callers, StoreFailure(c) PROVE IndInv'
  <2>1. SingleGrant'
    BY <1>11, CallersAssumption DEF TypeOK, StoreFailure, ReleasedLock, StoredFailure, SingleGrant, InGrant, PCs
  <2>2. TokensIssued'
    <3>1. store'.access = store.access /\ store'.refresh = store.refresh
      BY <1>11 DEF StoreFailure, StoredFailure, TypeOK, Store
    <3>2. \A d \in Callers : token'[d] \in {token[d], 0}
      BY <1>11 DEF StoreFailure, TypeOK
    <3>3. \A d \in Callers : snap'[d].access \in {snap[d].access, 0}
      BY <1>11 DEF StoreFailure, TypeOK, FirstStore
    <3>4. UNCHANGED <<next, validRefresh>> /\ 0 < next
      BY <1>11 DEF StoreFailure, TokensIssued, TypeOK, Store
    <3>5. QED
      BY <3>1, <3>2, <3>3, <3>4 DEF TokensIssued
  <2>3. ForcedWasRejected'
    BY <1>11 DEF TypeOK, StoreFailure, ReleasedLock, StoredFailure, ForcedWasRejected, TokensIssued, PCs
  <2>4. GrantIsNeeded'
    BY <1>11 DEF TypeOK, StoreFailure, ReleasedLock, StoredFailure, GrantIsNeeded, SingleGrant, InGrant, NeedsRefresh, Store, PCs
  <2>5. ReplyIsNew'
    BY <1>11 DEF TypeOK, StoreFailure, ReleasedLock, StoredFailure, ReplyIsNew, SingleGrant, InGrant, Store, PCs
  <2>6. NeedsAccount'
    <3>1. Outstanding' => Outstanding
      BY <1>11 DEF TypeOK, StoreFailure, StoredFailure, Outstanding, NeedsRefresh, Store
    <3>2. Overwritten' => Overwritten
      BY <1>11 DEF TypeOK, StoreFailure, StoredFailure, Overwritten, InGrant, PCs, Store
    <3>3. QED
      BY <1>11, <3>1, <3>2, NothingOwed DEF StoreFailure, TypeOK
  <2>7. RefreshTokenKept'
    BY <1>11 DEF TypeOK, StoreFailure, ReleasedLock, StoredFailure, RefreshTokenKept, SingleGrant, InGrant, Store, PCs
  <2>8. NoReplay'
    BY <1>11 DEF TypeOK, StoreFailure, ReleasedLock, StoredFailure, NoReplay, SingleGrant, InGrant, PCs
  <2>9. StrikesCounted'
    BY <1>11 DEF TypeOK, StoreFailure, ReleasedLock, StoredFailure, StrikesCounted, SingleGrant, InGrant, Store, PCs
  <2>10. QED
    BY <1>0, <2>1, <2>2, <2>3, <2>4, <2>5, <2>6, <2>7, <2>8, <2>9
<1>12. CASE Expire
  BY <1>0, <1>12, CallersAssumption DEF TypeOK, Expire, SingleGrant, InGrant, TokensIssued, ForcedWasRejected, GrantIsNeeded, ReplyIsNew, NeedsAccount, Overwritten, Outstanding, NeedsRefresh, RefreshTokenKept, NoReplay, StrikesCounted, Store, PCs
<1>13. ASSUME NEW key \in BOOLEAN, NEW login \in BOOLEAN, Patch(key, login) PROVE IndInv'
  <2>0. PICK expiry \in {"none", "fresh"}, enabled \in BOOLEAN :
            /\ store'.access = IF key THEN next ELSE store.access
            /\ store'.refresh = IF login THEN next ELSE store.refresh
            /\ store'.expiry = IF key THEN expiry ELSE store.expiry
            /\ store'.failures = IF login THEN 0 ELSE store.failures
            /\ store'.enabled = enabled
    BY <1>13 DEF Patch
  <2>01. /\ UNCHANGED <<lock, pc, force, reauthed, token, snap, reply, lost, unpaid>>
         /\ next' = next + 1
         /\ validRefresh' = IF login THEN validRefresh \cup {next} ELSE validRefresh
    BY <1>13 DEF Patch
  <2>02. store.access < next /\ store.refresh < next /\ next \in Nat
    BY DEF TokensIssued, TypeOK
  <2>1. SingleGrant'
    BY <2>01 DEF SingleGrant, InGrant
  <2>2. TokensIssued'
    BY <2>0, <2>01, <2>02 DEF TokensIssued, TypeOK, Store
  <2>3. ForcedWasRejected'
    <3>1. CASE key
      BY <2>0, <2>01, <2>02, <3>1 DEF ForcedWasRejected, TokensIssued, TypeOK
    <3>2. CASE ~key
      <4>1. rejected' = rejected /\ store'.access = store.access
        BY <1>13, <2>0, <3>2 DEF Patch, TypeOK
      <4>2. QED
        BY <2>01, <4>1 DEF ForcedWasRejected
    <3>3. QED
      BY <3>1, <3>2
  <2>4. GrantIsNeeded'
    <3>1. CASE key
      <4>1. entered'
        BY <1>13, <3>1 DEF Patch
      <4>2. \A d \in Callers : snap'[d].access # store'.access
        BY <2>0, <2>01, <2>02, <3>1 DEF TokensIssued, TypeOK, Store
      <4>3. QED
        BY <4>1, <4>2 DEF GrantIsNeeded
    <3>2. CASE ~key
      <4>1. entered' = entered /\ store'.access = store.access /\ store'.expiry = store.expiry
        BY <1>13, <2>0, <3>2 DEF Patch, TypeOK
      <4>2. QED
        BY <2>01, <4>1 DEF GrantIsNeeded, InGrant
    <3>3. QED
      BY <3>1, <3>2
  <2>5. ReplyIsNew'
    BY <2>0, <2>01, <2>02 DEF ReplyIsNew, TypeOK, Store
  <2>6. NeedsAccount'
    <3>1. CASE key
      <4>1. ~Outstanding'
        <5>1. ~rejected'
          BY <1>13, <3>1 DEF Patch
        <5>2. QED
          BY <2>0, <3>1, <5>1 DEF Outstanding, NeedsRefresh
      <4>2. Overwritten' => Overwritten \/ Outstanding
        BY <2>01 DEF Overwritten, InGrant, GrantIsNeeded, ForcedWasRejected, Outstanding,
           NeedsRefresh
      <4>3. QED
        BY <2>01, <4>1, <4>2 DEF NeedsAccount, TypeOK
    <3>2. CASE ~key
      <4>1. rejected' = rejected /\ store'.access = store.access /\ store'.expiry = store.expiry
        BY <1>13, <2>0, <3>2 DEF Patch, TypeOK
      <4>2. Outstanding' => Outstanding
        BY <4>1 DEF Outstanding, NeedsRefresh
      <4>3. Overwritten' => Overwritten
        BY <2>01, <4>1 DEF Overwritten, InGrant
      <4>4. QED
        BY <2>01, <4>2, <4>3, NothingOwed DEF TypeOK
    <3>3. QED
      BY <3>1, <3>2
  <2>7. RefreshTokenKept'
    BY <2>0, <2>01 DEF RefreshTokenKept
  <2>8. NoReplay'
    BY <2>01 DEF NoReplay
  <2>9. StrikesCounted'
    <3>1. strikes' = IF login \/ (store'.enabled /\ ~store.enabled) THEN 0 ELSE strikes
      BY <1>13 DEF Patch
    <3>2. QED
      BY <2>0, <2>01, <3>1 DEF StrikesCounted, InGrant, TypeOK, Store
  <2>10. QED
    BY <1>0, <2>1, <2>2, <2>3, <2>4, <2>5, <2>6, <2>7, <2>8, <2>9
<1>15. CASE Crash
  <2>1. \A d \in Callers : pc'[d] = "idle" /\ ~force'[d]
    BY <1>15 DEF Crash
  <2>2. lock' = NoCaller /\ UNCHANGED <<store, next, validRefresh, rejected, unpaid, strikes>>
    BY <1>15 DEF Crash
  <2>3. \A d \in Callers : token'[d] = 0 /\ snap'[d].access = 0
    BY <1>15 DEF Crash, FirstStore
  <2>4. \A d \in Callers : ~InGrant(d)'
    BY <2>1 DEF InGrant
  <2>5. SingleGrant' /\ ForcedWasRejected' /\ GrantIsNeeded' /\ ReplyIsNew' /\ NoReplay'
    BY <2>1, <2>2, <2>4, CallersAssumption
       DEF SingleGrant, ForcedWasRejected, GrantIsNeeded, ReplyIsNew, NoReplay
  <2>6. TokensIssued'
    <3>1. store.access < next /\ store.access \in Nat /\ next \in Nat
      BY DEF TokensIssued, TypeOK, Store
    <3>2. 0 < next
      BY <3>1
    <3>3. QED
      BY <2>2, <2>3, <3>2 DEF TokensIssued
  <2>7. NeedsAccount'
    <3>1. Outstanding' => Outstanding
      BY <2>2 DEF Outstanding, NeedsRefresh
    <3>2. ~Overwritten'
      BY <2>4 DEF Overwritten
    <3>3. QED
      BY <2>2, <3>1, <3>2, NothingOwed DEF TypeOK
  <2>8. RefreshTokenKept'
    BY <1>15, <2>2 DEF Crash, RefreshTokenKept
  <2>9. StrikesCounted'
    BY <2>2, <2>4 DEF StrikesCounted
  <2>10. QED
    BY <1>0, <2>5, <2>6, <2>7, <2>8, <2>9
<1>16. CASE UNCHANGED vars
  BY <1>0, <1>16 DEF vars, SingleGrant, InGrant, TokensIssued, ForcedWasRejected, GrantIsNeeded, ReplyIsNew, NeedsAccount, Overwritten, Outstanding, NeedsRefresh, RefreshTokenKept, NoReplay, StrikesCounted
<1>17. QED
  BY <1>1, <1>2, <1>3, <1>4, <1>5, <1>6, <1>7, <1>8, <1>9, <1>10, <1>11, <1>12, <1>13, <1>15, <1>16 DEF Next, CallerStep

-----------------------------------------------------------------------------
(* The theorems *)

\* The inductive invariant: the lock, the token that is replaced, the replies and
\* the counters of credentials.refresh, and how they hang together.
THEOREM Invariance == Spec => []IndInv
<1>1. QED
  BY InitInv, StepInv, PTL DEF Spec

\* At most one grant is under way, and its caller holds the account's lock.
THEOREM MutualExclusion == Spec => []SingleGrant
<1>1. IndInv => SingleGrant
  BY DEF IndInv
<1>2. QED
  BY <1>1, Invariance, PTL

\* A rotated refresh token is never presented again unless a reply was lost.
THEOREM RotationSafe == Spec => []NoReplay
<1>1. IndInv => NoReplay
  BY DEF IndInv
<1>2. QED
  BY <1>1, Invariance, PTL

\* No more grants are stored than stored tokens came due or were rejected.
THEOREM SingleFlight == Spec => []GrantsMatchNeeds
<1>1. IndInv => GrantsMatchNeeds
  BY DEF IndInv, TypeOK, NeedsAccount, GrantsMatchNeeds
<1>2. QED
  BY <1>1, Invariance, PTL

\* The stored access token goes back to an older one only where a grant that was
\* under way when an operator stored a token writes over that token.
THEOREM NeverGoesBack == Spec => StoreNeverGoesBack
<1> DEFINE WritesOver ==
        /\ entered
        /\ \E c \in Callers : pc[c] = "reply" /\ snap[c].access # store.access
<1>1. IndInv /\ [Next]_vars => [store'.access < store.access => WritesOver]_vars
  <2> SUFFICES ASSUME IndInv, Next, store'.access < store.access PROVE WritesOver
    OBVIOUS
  <2>1. store.access \in Nat /\ TypeOK
    BY DEF IndInv, TypeOK, Store
  <2>2. ASSUME NEW c \in Callers, StoreGrant(c) PROVE WritesOver
    <3>1. pc[c] = "reply" /\ InGrant(c) /\ store'.access = reply[c]
      BY <2>1, <2>2 DEF StoreGrant, StoredGrant, InGrant, TypeOK, Store
    <3>2. reply[c] > snap[c].access
      BY <3>1 DEF IndInv, ReplyIsNew
    <3>3. snap[c].access # store.access
      BY <2>1, <3>1, <3>2 DEF TypeOK, Store
    <3>4. entered
      BY <3>1, <3>3 DEF IndInv, GrantIsNeeded
    <3>5. QED
      BY <3>1, <3>3, <3>4
  <2>3. ASSUME NEW c \in Callers, CallerStep(c), ~StoreGrant(c)
        PROVE  store'.access = store.access
    BY <2>1, <2>3 DEF CallerStep, Call, Select, Accepted, Rejected, WriteOff, Reuse, Post,
       ProviderAccepts, ProviderRefuses, StoreFailure, StoredFailure, TypeOK, Store
  <2>4. ASSUME NEW key \in BOOLEAN, NEW login \in BOOLEAN, Patch(key, login)
        PROVE  ~(store'.access < store.access)
    <3>1. store'.access = IF key THEN next ELSE store.access
      BY <2>4 DEF Patch
    <3>2. next > store.access
      BY DEF IndInv, TokensIssued, TypeOK
    <3>3. QED
      BY <2>1, <3>1, <3>2 DEF TypeOK
  <2>5. ASSUME Expire \/ Crash
        PROVE  store'.access = store.access
    BY <2>1, <2>5 DEF Expire, Crash, TypeOK, Store
  <2>6. CASE \E c \in Callers : CallerStep(c)
    BY <2>1, <2>2, <2>3, <2>6
  <2>7. CASE \E key, login \in BOOLEAN : Patch(key, login)
    BY <2>4, <2>7
  <2>8. CASE Expire \/ Crash
    BY <2>1, <2>5, <2>8
  <2>9. QED
    BY <2>6, <2>7, <2>8 DEF Next
<1>2. QED
  BY <1>1, Invariance, PTL DEF Spec, StoreNeverGoesBack

\* The failure that completes MAX_REFRESH_FAILURES in a row disables the account.
THEOREM BreakerWorks == Spec => BreakerTrips
<1> DEFINE Trips == strikes' > strikes /\ strikes' >= MAX_REFRESH_FAILURES => ~store'.enabled
<1>1. IndInv /\ [Next]_vars => [Trips]_vars
  <2> SUFFICES ASSUME IndInv, Next, strikes' > strikes, strikes' >= MAX_REFRESH_FAILURES
               PROVE  ~store'.enabled
    OBVIOUS
  <2>1. PICK c \in Callers : StoreFailure(c)
    BY DEF Next, CallerStep, Call, Select, Accepted, Rejected, WriteOff, Reuse, Post,
       ProviderAccepts, ProviderRefuses, StoreGrant, Expire, Patch, Crash,
       history, IndInv, TypeOK
  <2>2. strikes' = strikes + 1 /\ store' = StoredFailure(c) /\ InGrant(c)
    BY <2>1 DEF StoreFailure, InGrant
  <2>3. strikes <= snap[c].failures /\ (store.enabled /\ ~snap[c].enabled => strikes = 0)
    BY <2>2 DEF IndInv, StrikesCounted
  <2>4. snap[c].failures + 1 >= MAX_REFRESH_FAILURES /\ strikes # 0
    BY <2>2, <2>3, RefreshAssumption DEF IndInv, TypeOK, Store
  <2>5. QED
    BY <2>2, <2>3, <2>4 DEF StoredFailure, IndInv, TypeOK, Store
<1>2. QED
  BY <1>1, Invariance, PTL DEF Spec, BreakerTrips

-----------------------------------------------------------------------------
(* OAuthRefresh implements SingleFlight *)

\* A step that moves one caller changes what at most that caller has been given.
LEMMA HandedStep ==
    ASSUME TypeOK, TypeOK', NEW c \in Callers,
           \A d \in Callers \ {c} : pc'[d] = pc[d] /\ token'[d] = token[d]
    PROVE  Handed' = [Handed EXCEPT ![c] = IF pc'[c] = "send" THEN {token'[c]} ELSE {}]
  BY DEF Handed

\* Steps that leave the token, its use, the lock and what it is held for alone.
LEMMA FlightStutters ==
    ASSUME store'.access = store.access, Outstanding' = Outstanding, lock' = lock,
           Replaced' = Replaced, Handed' = Handed
    PROVE  UNCHANGED Flight!vars
  BY DEF Flight!vars

LEMMA FlightInit == Init => Flight!Init
  BY DEF Init, FirstStore, Flight!Init, Outstanding, NeedsRefresh, Replaced, Handed

LEMMA FlightStep == IndInv /\ IndInv' /\ [Next]_vars => [Flight!Next]_Flight!vars
<1> SUFFICES ASSUME IndInv, IndInv', [Next]_vars PROVE Flight!Next \/ UNCHANGED Flight!vars
  OBVIOUS
<1> USE DEF callerVars, providerVars, history
<1>0. TypeOK /\ TypeOK' /\ store.access \in Nat
  BY DEF IndInv, TypeOK, Store
<1>01. ASSUME lock' = lock, snap' = snap PROVE Replaced' = Replaced
  BY <1>01 DEF Replaced
<1>1. ASSUME NEW c \in Callers, Call(c) PROVE UNCHANGED Flight!vars
  <2>1. Handed' = Handed
    BY <1>0, <1>1 DEF Call, TypeOK, Handed
  <2>2. QED
    BY <1>1, <1>01, <2>1, FlightStutters DEF Call, Outstanding, NeedsRefresh
<1>2. ASSUME NEW c \in Callers, Select(c) PROVE Flight!Hand(c) \/ Flight!Use(c)
  <2>1. Handed' = [Handed EXCEPT ![c] = IF pc'[c] = "send" THEN {token'[c]} ELSE {}]
    BY <1>0, <1>2, HandedStep DEF Select, TypeOK
  <2>2. pc'[c] = "send" => token'[c] = store.access
    BY <1>0, <1>2 DEF Select, TypeOK
  <2>3. UNCHANGED <<store.access, ~Outstanding, lock, Replaced>>
    BY <1>2, <1>01 DEF Select, Outstanding, NeedsRefresh
  <2>4. QED
    BY <2>1, <2>2, <2>3 DEF Flight!Hand, Flight!Use
<1>3. ASSUME NEW c \in Callers, Accepted(c) \/ Rejected(c) PROVE Flight!Use(c)
  <2>1. Handed' = [Handed EXCEPT ![c] = IF pc'[c] = "send" THEN {token'[c]} ELSE {}]
    BY <1>0, <1>3, HandedStep DEF Accepted, Rejected, TypeOK
  <2>2. pc'[c] # "send"
    BY <1>0, <1>3 DEF Accepted, Rejected, TypeOK
  <2>3. UNCHANGED <<store.access, lock, Replaced>>
    BY <1>3, <1>01 DEF Accepted, Rejected
  <2>4. Outstanding => Outstanding'
    BY <1>3 DEF Accepted, Rejected, Outstanding, NeedsRefresh
  <2>5. (~Outstanding)' \in {~Outstanding, FALSE}
    BY <2>4
  <2>6. QED
    BY <2>1, <2>2, <2>3, <2>5 DEF Flight!Use
<1>4. ASSUME NEW c \in Callers, WriteOff(c) PROVE UNCHANGED Flight!vars
  <2>1. Handed' = Handed
    BY <1>0, <1>4 DEF WriteOff, TypeOK, Handed
  <2>2. store'.access = store.access /\ Outstanding' = Outstanding
    BY <1>0, <1>4 DEF WriteOff, TypeOK, Store, Outstanding, NeedsRefresh
  <2>3. QED
    BY <1>4, <1>01, <2>1, <2>2, FlightStutters DEF WriteOff
<1>5. ASSUME NEW c \in Callers, Reuse(c) PROVE Flight!Hand(c) \/ Flight!Use(c)
  <2>1. Handed' = [Handed EXCEPT ![c] = IF pc'[c] = "send" THEN {token'[c]} ELSE {}]
    BY <1>0, <1>5, HandedStep DEF Reuse, TypeOK
  <2>2. pc'[c] = "send" => token'[c] = store.access
    BY <1>0, <1>5 DEF Reuse, Resume, TypeOK
  <2>3. UNCHANGED <<store.access, ~Outstanding, lock, Replaced>>
    BY <1>5, <1>01 DEF Reuse, Outstanding, NeedsRefresh
  <2>4. QED
    BY <2>1, <2>2, <2>3 DEF Flight!Hand, Flight!Use
<1>6. ASSUME NEW c \in Callers, Post(c) PROVE Flight!Begin(c)
  <2>1. Outstanding
    BY <1>0, <1>6 DEF Post, AlreadyRefreshed, Outstanding, IndInv, ForcedWasRejected, TypeOK
  <2>2. Handed' = Handed
    BY <1>0, <1>6 DEF Post, TypeOK, Handed
  <2>3. UNCHANGED <<store.access, ~Outstanding>>
    BY <1>6 DEF Post, Outstanding, NeedsRefresh
  <2>4. Replaced' = store.access
    BY <1>0, <1>6, CallersAssumption DEF Post, Replaced, TypeOK
  <2>5. QED
    BY <1>6, <2>1, <2>2, <2>3, <2>4 DEF Post, LockFree, Flight!Begin
<1>7. ASSUME NEW c \in Callers, ProviderAccepts(c) \/ ProviderRefuses(c)
      PROVE  UNCHANGED Flight!vars
  <2>1. Handed' = Handed
    BY <1>0, <1>7 DEF ProviderAccepts, ProviderRefuses, TypeOK, Handed
  <2>2. UNCHANGED <<store, lock, snap, rejected>>
    BY <1>7 DEF ProviderAccepts, ProviderRefuses
  <2>3. QED
    BY <1>01, <2>1, <2>2, FlightStutters DEF Outstanding, NeedsRefresh
<1>8. ASSUME NEW c \in Callers, StoreGrant(c) PROVE Flight!Renew(c)
  <2>1. PICK expiry \in {"none", "fresh"} : store' = StoredGrant(c, expiry)
    BY <1>8 DEF StoreGrant
  <2>2. /\ store'.access = reply[c]
        /\ store'.expiry = IF snap[c].expiry = "none" /\ expiry = "none"
                           THEN store.expiry ELSE expiry
    BY <1>0, <2>1 DEF StoredGrant, TypeOK, Store
  <2>3. lock = c /\ lock' = NoCaller /\ InGrant(c)
    BY <1>8 DEF StoreGrant, ReleasedLock, IndInv, SingleGrant, InGrant
  <2>4. Replaced = snap[c].access /\ Replaced' = 0
    BY <2>3, CallersAssumption DEF Replaced
  <2>5. reply[c] > snap[c].access
    BY <1>8 DEF StoreGrant, IndInv, ReplyIsNew
  <2>6. (~Outstanding)' = TRUE \/ (store.access # Replaced /\ (~Outstanding)' = ~Outstanding)
    <3>1. rejected' = FALSE
      BY <1>8 DEF StoreGrant
    <3>2. CASE store'.expiry # "due"
      BY <3>1, <3>2 DEF Outstanding, NeedsRefresh
    <3>3. CASE store'.expiry = "due"
      <4>1. snap[c].expiry = "none" /\ store.expiry = "due"
        BY <2>2, <3>3
      <4>2. store.access # snap[c].access
        BY <2>3, <4>1 DEF IndInv, GrantIsNeeded
      <4>3. Outstanding /\ Outstanding'
        BY <3>3, <4>1 DEF Outstanding, NeedsRefresh
      <4>4. QED
        BY <2>4, <4>2, <4>3
    <3>4. QED
      BY <3>2, <3>3
  <2>7. Handed' = [Handed EXCEPT ![c] = IF pc'[c] = "send" THEN {token'[c]} ELSE {}]
    BY <1>0, <1>8, HandedStep DEF StoreGrant, TypeOK
  <2>8. (pc'[c] = "send" => token'[c] = store'.access) /\ Handed[c] = {}
    BY <1>0, <1>8, <2>2 DEF StoreGrant, Resume, TypeOK, Handed
  <2>9. Handed' \in {Handed, [Handed EXCEPT ![c] = {store'.access}]}
    BY <2>7, <2>8 DEF Handed
  <2>10. QED
    BY <2>2, <2>3, <2>4, <2>5, <2>6, <2>9 DEF Flight!Renew
<1>9. ASSUME NEW c \in Callers, StoreFailure(c) PROVE Flight!GiveUp(c)
  <2>1. store'.access = store.access /\ Outstanding' = Outstanding
    BY <1>0, <1>9 DEF StoreFailure, StoredFailure, TypeOK, Store, Outstanding, NeedsRefresh
  <2>2. lock = c /\ lock' = NoCaller
    BY <1>9 DEF StoreFailure, ReleasedLock, IndInv, SingleGrant, InGrant
  <2>3. Handed' = Handed
    BY <1>0, <1>9 DEF StoreFailure, TypeOK, Handed
  <2>4. Replaced' = 0
    BY <2>2 DEF Replaced
  <2>5. QED
    BY <2>1, <2>2, <2>3, <2>4 DEF Flight!GiveUp
<1>10. ASSUME Expire PROVE Flight!Spoil
  <2>1. store'.access = store.access /\ Outstanding'
    BY <1>0, <1>10 DEF Expire, TypeOK, Store, Outstanding, NeedsRefresh
  <2>2. UNCHANGED <<lock, Replaced, Handed>>
    BY <1>10, <1>01 DEF Expire, Handed
  <2>3. QED
    BY <2>1, <2>2 DEF Flight!Spoil
<1>11. ASSUME NEW key \in BOOLEAN, NEW login \in BOOLEAN, Patch(key, login)
       PROVE  Flight!Enter \/ UNCHANGED Flight!vars
  <2>1. PICK expiry \in {"none", "fresh"} :
            /\ store'.access = IF key THEN next ELSE store.access
            /\ store'.expiry = IF key THEN expiry ELSE store.expiry
    BY <1>11 DEF Patch
  <2>2. UNCHANGED <<lock, Replaced, Handed>> /\ rejected' = (rejected /\ ~key)
    BY <1>11, <1>01 DEF Patch, Handed
  <2>3. CASE key
    <3>1. store'.access > store.access
      BY <1>0, <2>1, <2>3 DEF IndInv, TokensIssued, TypeOK
    <3>2. ~Outstanding'
      BY <2>1, <2>2, <2>3 DEF Outstanding, NeedsRefresh
    <3>3. QED
      BY <2>2, <3>1, <3>2 DEF Flight!Enter
  <2>4. CASE ~key
    <3>1. store'.access = store.access /\ Outstanding' = Outstanding
      BY <1>0, <2>1, <2>2, <2>4 DEF Outstanding, NeedsRefresh, TypeOK
    <3>2. QED
      BY <2>2, <3>1, FlightStutters
  <2>5. QED
    BY <2>3, <2>4
<1>12. ASSUME Crash PROVE Flight!Crash
  <2>1. Handed' = [c \in Callers |-> {}] /\ Replaced' = 0
    BY <1>12 DEF Crash, Handed, Replaced
  <2>2. QED
    BY <1>12, <2>1 DEF Crash, Flight!Crash, Outstanding, NeedsRefresh
<1>13. ASSUME UNCHANGED vars PROVE UNCHANGED Flight!vars
  <2>1. Handed' = Handed /\ Outstanding' = Outstanding /\ Replaced' = Replaced
    BY <1>13 DEF vars, Handed, Outstanding, NeedsRefresh, Replaced
  <2>2. QED
    BY <1>13, <2>1, FlightStutters DEF vars
<1>14. QED
  BY <1>1, <1>2, <1>3, <1>4, <1>5, <1>6, <1>7, <1>8, <1>9, <1>10, <1>11, <1>12, <1>13
     DEF Next, CallerStep, Flight!Next

\* The refresh implements the abstract promise: one renewal at a time, only of a
\* token that came due or was rejected, only by one newer than it, and every
\* request is given the token that is stored then.
THEOREM ImplementsSingleFlight == Spec => IsSingleFlight
<1>1. QED
  BY FlightInit, FlightStep, Invariance, PTL DEF Spec, IsSingleFlight, Flight!Spec
=============================================================================
