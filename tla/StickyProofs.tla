---------------------------- MODULE StickyProofs ----------------------------
(***************************************************************************)
(* Theorems about Sticky: for any number of requests, conversations and    *)
(* accounts, any scores, and any bound and lifetime of the map.            *)
(*                                                                         *)
(* The difficult part is eviction.  The position of an entry tells how     *)
(* recently its conversation was used only in relation to the entries      *)
(* behind it: all of them were used since.  So a conversation either is in *)
(* the map, with nothing behind it but what was used since, or has been    *)
(* pushed out by as many others as the map holds.                          *)
(***************************************************************************)
EXTENDS Sticky, SequenceTheorems, FiniteSetTheorems, TLAPS

-----------------------------------------------------------------------------
(* The inductive invariant *)

Distinct(map) == \A i, j \in DOMAIN map : map[i].conv = map[j].conv => i = j

SinceFinite == \A c \in Convs : IsFiniteSet(used[c].since)

\* c has an entry, and those behind it belong to the conversations of a set.
Behind(map, c, since) ==
    \E i \in DOMAIN map :
        /\ map[i].conv = c
        /\ \A j \in DOMAIN map : i < j => map[j].conv \in since

\* A conversation that has an account is in the map, or as many others were used
\* since as the map holds.
InReach ==
    \A c \in Convs : used[c].account # NoAccount =>
        \/ Behind(affinity, c, used[c].since)
        \/ Cardinality(used[c].since) >= MaxEntries

IndInv ==
    /\ TypeOK
    /\ SinceFinite
    /\ MapFollowsUse
    /\ InReach

-----------------------------------------------------------------------------
(* The largest score *)

\* A set of subsets of a finite set has a minimal member.
LEMMA MinimalSubset ==
    ASSUME NEW S, IsFiniteSet(S), NEW Q \in SUBSET (SUBSET S), Q # {}
    PROVE  \E m \in Q : \A s \in Q : ~(s \subseteq m /\ s # m)
<1>1. IsWellFoundedOn(StrictSubsetOrdering(S), FiniteSubsetsOf(S))
  BY FS_StrictSubsetOrderingWellFounded
<1>2. FiniteSubsetsOf(S) = SUBSET S
  BY FS_FiniteSubsetsOfFinite
<1>3. \E m \in Q : \A s \in Q : <<s, m>> \notin StrictSubsetOrdering(S)
  BY <1>1, <1>2, WFMin
<1>. QED BY <1>3 DEF StrictSubsetOrdering

\* Of finitely many accounts one has the largest score.
LEMMA LargestExists ==
    ASSUME NEW S, IsFiniteSet(S), S # {}, NEW f, \A a \in S : f[a] \in Nat
    PROVE  \E a \in S : \A b \in S : f[b] <= f[a]
<1> DEFINE Q == {s \in SUBSET S : s # {} /\ ~ \E a \in s : \A b \in s : f[b] <= f[a]}
<1> SUFFICES ASSUME Q # {} PROVE FALSE
  <2>1. S \in SUBSET S
    OBVIOUS
  <2>. QED BY <2>1
<1>1. PICK m \in Q : \A s \in Q : ~(s \subseteq m /\ s # m)
  <2>. HIDE DEF Q
  <2>1. Q \in SUBSET (SUBSET S)
    BY DEF Q
  <2>. QED BY <2>1, MinimalSubset
<1>2. m \in SUBSET S /\ m # {} /\ ~ \E a \in m : \A b \in m : f[b] <= f[a]
  BY <1>1
<1>3. PICK x \in m : TRUE
  BY <1>2
<1> DEFINE rest == m \ {x}
<1>4. rest \in SUBSET S /\ rest \subseteq m /\ rest # m
  BY <1>2, <1>3
<1>5. CASE rest = {}
  <2>1. \A b \in m : b = x
    BY <1>5
  <2>2. f[x] <= f[x]
    BY <1>2, <1>3
  <2>. QED BY <1>2, <1>3, <2>1, <2>2
<1>6. CASE rest # {}
  <2>1. \E a \in rest : \A b \in rest : f[b] <= f[a]
    BY <1>1, <1>4, <1>6
  <2>2. PICK y \in rest : \A b \in rest : f[b] <= f[y]
    BY <2>1
  <2>3. /\ \A b \in m : b = x \/ b \in rest
        /\ f[x] \in Nat /\ f[y] \in Nat /\ \A b \in m : f[b] \in Nat
        /\ y \in m
    BY <1>2, <1>3, <2>2
  <2>4. CASE f[x] <= f[y]
    BY <1>2, <2>2, <2>3, <2>4
  <2>5. CASE ~(f[x] <= f[y])
    BY <1>2, <1>3, <2>2, <2>3, <2>5
  <2>. QED BY <2>4, <2>5
<1>. QED BY <1>5, <1>6

LEMMA Assumed ==
    /\ NoAccount \notin Accounts /\ IsFiniteSet(Accounts)
    /\ MaxEntries \in Nat /\ MaxEntries > 0 /\ TTL \in Nat /\ TTL > 0
    /\ \A c \in Convs, a \in Accounts : Score[c][a] \in Nat
    /\ \A c \in Convs, a, b \in Accounts : Score[c][a] = Score[c][b] => a = b \/ Score[c][a] = 0
BY AffinityAssumption DEF AffinityAssumption

\* Rendezvous hashing picks the one account whose score is the largest, if any
\* account has a weight.
LEMMA RendezvousLargest ==
    ASSUME NEW c \in Convs, NEW pool \in SUBSET Accounts
    PROVE  \/ (\A a \in pool : Score[c][a] = 0) /\ Rendezvous(c, pool) = NoAccount
           \/ /\ Rendezvous(c, pool) \in pool
              /\ Score[c][Rendezvous(c, pool)] > 0
              /\ \A b \in pool : Score[c][b] <= Score[c][Rendezvous(c, pool)]
<1>1. CASE \A a \in pool : Score[c][a] = 0
  BY <1>1 DEF Rendezvous
<1>2. CASE \E x \in pool : Score[c][x] # 0
  <2>1. PICK x \in pool : Score[c][x] # 0
    BY <1>2
  <2>2. IsFiniteSet(pool) /\ pool # {} /\ \A a \in pool : Score[c][a] \in Nat
    BY <1>2, Assumed, FS_Subset
  <2>3. \E a \in pool : \A b \in pool : Score[c][b] <= Score[c][a]
    <3> DEFINE f == Score[c]
    <3>1. \A a \in pool : f[a] \in Nat
      BY <2>2
    <3> HIDE DEF f
    <3>2. \E a \in pool : \A b \in pool : f[b] <= f[a]
      BY <2>2, <3>1, LargestExists
    <3>. QED BY <3>2 DEF f
  <2>4. Rendezvous(c, pool) = CHOOSE a \in pool : \A b \in pool : Score[c][b] <= Score[c][a]
    BY <1>2 DEF Rendezvous
  <2>5. /\ Rendezvous(c, pool) \in pool
        /\ \A b \in pool : Score[c][b] <= Score[c][Rendezvous(c, pool)]
    BY <2>3, <2>4
  <2>6. Score[c][Rendezvous(c, pool)] > 0
    BY <2>1, <2>2, <2>5
  <2>. QED BY <2>5, <2>6
<1>. QED BY <1>1, <1>2

\* An account more or less changes the choice only if it is or was the choice.
LEMMA RendezvousStable ==
    ASSUME NEW c \in Convs, NEW fewer \in SUBSET Accounts, NEW a \in Accounts, a \notin fewer
    PROVE  \/ Rendezvous(c, fewer \cup {a}) = a
           \/ Rendezvous(c, fewer \cup {a}) = Rendezvous(c, fewer)
<1> DEFINE more == fewer \cup {a}
           v == Rendezvous(c, more)
           w == Rendezvous(c, fewer)
<1>1. more \in SUBSET Accounts
  OBVIOUS
<1>2. \/ (\A b \in more : Score[c][b] = 0) /\ v = NoAccount
      \/ v \in more /\ Score[c][v] > 0 /\ \A b \in more : Score[c][b] <= Score[c][v]
  BY <1>1, RendezvousLargest
<1>3. \/ (\A b \in fewer : Score[c][b] = 0) /\ w = NoAccount
      \/ w \in fewer /\ Score[c][w] > 0 /\ \A b \in fewer : Score[c][b] <= Score[c][w]
  BY RendezvousLargest
<1> HIDE DEF v, w
<1>4. v = a \/ v = w
  <2>1. \A b \in more : Score[c][b] \in Nat
    BY <1>1, Assumed
  <2>2. \A b \in more : b = a \/ b \in fewer
    OBVIOUS
  <2>3. CASE v = NoAccount /\ \A b \in more : Score[c][b] = 0
    <3>1. \A b \in fewer : Score[c][b] = 0
      BY <2>3
    <3>. QED BY <1>3, <2>1, <2>3, <3>1
  <2>4. CASE v \in fewer /\ Score[c][v] > 0 /\ \A b \in more : Score[c][b] <= Score[c][v]
    <3>1. w \in fewer /\ Score[c][v] <= Score[c][w]
      BY <1>3, <2>1, <2>4
    <3>2. Score[c][w] <= Score[c][v]
      BY <2>4, <3>1
    <3>3. Score[c][v] = Score[c][w] /\ Score[c][v] # 0
      BY <2>1, <2>4, <3>1, <3>2
    <3>. QED BY <2>4, <3>1, <3>3, Assumed
  <2>. QED BY <1>2, <2>2, <2>3, <2>4
<1>. QED BY <1>4 DEF v, w

-----------------------------------------------------------------------------
(* The ordered map *)

LEMMA RemoveAtFacts ==
    ASSUME NEW S, NEW map \in Seq(S), NEW k \in 1..Len(map)
    PROVE  /\ RemoveAt(map, k) \in Seq(S) /\ Len(RemoveAt(map, k)) = Len(map) - 1
           /\ \A i \in 1..Len(map) - 1 :
                  RemoveAt(map, k)[i] = IF i < k THEN map[i] ELSE map[i + 1]
<1> DEFINE front == SubSeq(map, 1, k - 1)
           back == SubSeq(map, k + 1, Len(map))
<1>1. Len(map) \in Nat /\ k \in Nat /\ \A i \in 1..Len(map) : map[i] \in S
  BY LenProperties, ElementOfSeq
<1>2. /\ front \in Seq(S) /\ Len(front) = k - 1
      /\ \A i \in 1..k - 1 : front[i] = map[i]
  <2>1. \A i \in 1..k - 1 : map[i] \in S
    BY <1>1
  <2>2. /\ SubSeq(map, 1, k - 1) \in Seq(S)
        /\ Len(SubSeq(map, 1, k - 1)) = IF 1 <= k - 1 THEN k - 1 - 1 + 1 ELSE 0
        /\ \A i \in 1..k - 1 - 1 + 1 : SubSeq(map, 1, k - 1)[i] = map[1 + i - 1]
    BY <1>1, <2>1, SubSeqProperties
  <2>. QED BY <1>1, <2>2
<1>3. /\ back \in Seq(S) /\ Len(back) = Len(map) - k
      /\ \A i \in 1..Len(map) - k : back[i] = map[k + i]
  <2>1. \A i \in k + 1..Len(map) : map[i] \in S
    BY <1>1
  <2>2. /\ SubSeq(map, k + 1, Len(map)) \in Seq(S)
        /\ Len(SubSeq(map, k + 1, Len(map)))
               = IF k + 1 <= Len(map) THEN Len(map) - (k + 1) + 1 ELSE 0
        /\ \A i \in 1..Len(map) - (k + 1) + 1 : SubSeq(map, k + 1, Len(map))[i] = map[k + 1 + i - 1]
    BY <1>1, <2>1, SubSeqProperties
  <2>. QED BY <1>1, <2>2
<1>4. RemoveAt(map, k) = front \o back
  BY DEF RemoveAt
<1> HIDE DEF front, back
<1>5. /\ front \o back \in Seq(S) /\ Len(front \o back) = Len(front) + Len(back)
      /\ \A i \in 1..Len(front) + Len(back) :
             (front \o back)[i] = IF i <= Len(front) THEN front[i] ELSE back[i - Len(front)]
  BY <1>2, <1>3, ConcatProperties
<1>6. Len(front) + Len(back) = Len(map) - 1
  BY <1>1, <1>2, <1>3
<1>7. ASSUME NEW i \in 1..Len(map) - 1
      PROVE  RemoveAt(map, k)[i] = IF i < k THEN map[i] ELSE map[i + 1]
  <2>1. RemoveAt(map, k)[i] = IF i <= k - 1 THEN front[i] ELSE back[i - (k - 1)]
    BY <1>2, <1>4, <1>5, <1>6
  <2>2. CASE i < k
    BY <1>1, <1>2, <2>1, <2>2
  <2>3. CASE ~(i < k)
    <3>1. i - (k - 1) \in 1..Len(map) - k /\ ~(i <= k - 1) /\ k + (i - (k - 1)) = i + 1
      BY <1>1, <2>3
    <3>. QED BY <1>3, <2>1, <2>3, <3>1
  <2>. QED BY <2>2, <2>3
<1>. QED BY <1>4, <1>5, <1>6, <1>7

\* Without an entry of its own for c, the map keeps all others in their order.
LEMMA WithoutFacts ==
    ASSUME NEW map \in Seq(Entries), Distinct(map), NEW c, NEW w, w = Without(map, c)
    PROVE  /\ w \in Seq(Entries) /\ Len(w) <= Len(map) /\ (Holds(map, c) => Len(w) < Len(map))
           /\ Distinct(w)
           /\ \A i \in DOMAIN w : w[i].conv # c /\ \E p \in DOMAIN map : w[i] = map[p]
           /\ \A d, since : d # c /\ Behind(map, d, since) => Behind(w, d, since)
<1>1. DOMAIN map = 1..Len(map) /\ Len(map) \in Nat
  BY LenProperties
<1>2. CASE ~Holds(map, c)
  <2>1. w = map /\ \A i \in DOMAIN map : map[i].conv # c
    BY <1>2 DEF Without, Holds
  <2>. QED BY <1>1, <1>2, <2>1
<1>3. CASE Holds(map, c)
  <2> DEFINE k == Place(map, c)
  <2>1. k \in DOMAIN map /\ map[k].conv = c
    BY <1>3 DEF Holds, Place
  <2>2. w = RemoveAt(map, k)
    BY <1>3 DEF Without
  <2> HIDE DEF k
  <2>3. /\ w \in Seq(Entries) /\ Len(w) = Len(map) - 1 /\ DOMAIN w = 1..Len(map) - 1
        /\ \A i \in 1..Len(map) - 1 : w[i] = IF i < k THEN map[i] ELSE map[i + 1]
    BY <1>1, <2>1, <2>2, RemoveAtFacts, LenProperties
  <2> DEFINE Old(i) == IF i < k THEN i ELSE i + 1
             New(p) == IF p < k THEN p ELSE p - 1
  <2>4. \A i \in DOMAIN w : Old(i) \in DOMAIN map /\ Old(i) # k /\ w[i] = map[Old(i)]
    BY <1>1, <2>1, <2>3
  <2>5. \A i, j \in DOMAIN w : i < j => Old(i) < Old(j)
    BY <1>1, <2>1, <2>3
  <2>6. \A p \in DOMAIN map : p # k => New(p) \in DOMAIN w /\ Old(New(p)) = p
    BY <1>1, <2>1, <2>3
  <2>7. \A p, q \in DOMAIN map : p # k /\ q # k /\ New(p) < New(q) => p < q
    BY <1>1, <2>1
  <2> HIDE DEF Old, New
  <2>8. \A i \in DOMAIN w : w[i].conv # c
    BY <2>1, <2>4 DEF Distinct
  <2>9. \A p \in DOMAIN map : map[p].conv # c => p # k /\ New(p) \in DOMAIN w /\ w[New(p)] = map[p]
    BY <2>1, <2>4, <2>6
  <2>10. ASSUME NEW d, NEW since, d # c, Behind(map, d, since) PROVE Behind(w, d, since)
    <3>1. PICK p \in DOMAIN map : /\ map[p].conv = d
                                  /\ \A q \in DOMAIN map : p < q => map[q].conv \in since
      BY <2>10 DEF Behind
    <3>2. p # k /\ New(p) \in DOMAIN w /\ w[New(p)] = map[p]
      BY <2>9, <2>10, <3>1
    <3>3. ASSUME NEW j \in DOMAIN w, New(p) < j PROVE w[j].conv \in since
      <4>1. Old(New(p)) < Old(j)
        BY <2>5, <3>2, <3>3
      <4>. QED BY <2>4, <2>6, <3>1, <3>2, <4>1
    <3>. QED BY <3>1, <3>2, <3>3 DEF Behind
  <2>11. Len(w) <= Len(map) /\ Len(w) < Len(map)
    BY <1>1, <2>3
  <2>12. Distinct(w)
    <3> SUFFICES ASSUME NEW i \in DOMAIN w, NEW j \in DOMAIN w, w[i].conv = w[j].conv PROVE i = j
      BY DEF Distinct
    <3>1. Old(i) = Old(j)
      BY <2>4 DEF Distinct
    <3>2. Old(i) \in Nat /\ i \in Nat /\ j \in Nat
      BY <1>1, <2>3, <2>4
    <3>3. ~(i < j) /\ ~(j < i)
      BY <2>5, <3>1, <3>2
    <3>. QED BY <3>2, <3>3
  <2>. QED BY <2>3, <2>4, <2>8, <2>10, <2>11, <2>12
<1>. QED BY <1>2, <1>3

\* The map with an entry for c at its end, before it is trimmed.
LEMMA AppendedFacts ==
    ASSUME NEW map \in Seq(Entries), Distinct(map), NEW c, NEW e \in Entries, e.conv = c,
           NEW l, l = Append(Without(map, c), e)
    PROVE  /\ l \in Seq(Entries) /\ Len(l) <= Len(map) + 1 /\ Len(l) >= 1 /\ l[Len(l)] = e
           /\ Distinct(l)
           /\ \A i \in DOMAIN l : l[i] = e \/ (l[i].conv # c /\ \E p \in DOMAIN map : l[i] = map[p])
           /\ \A d, since : d # c /\ Behind(map, d, since) => Behind(l, d, since \cup {c})
<1> DEFINE w == Without(map, c)
<1>1. /\ w \in Seq(Entries) /\ Len(w) <= Len(map)
      /\ \A i \in DOMAIN w : w[i].conv # c /\ \E p \in DOMAIN map : w[i] = map[p]
      /\ Distinct(w)
      /\ \A d, since : d # c /\ Behind(map, d, since) => Behind(w, d, since)
  BY WithoutFacts
<1>2. l = Append(w, e)
  OBVIOUS
<1> HIDE DEF w
<1>3. /\ DOMAIN map = 1..Len(map) /\ Len(map) \in Nat
      /\ DOMAIN w = 1..Len(w) /\ Len(w) \in Nat
  BY <1>1, LenProperties
<1>4. /\ l \in Seq(Entries) /\ Len(l) = Len(w) + 1 /\ l[Len(w) + 1] = e
      /\ \A i \in 1..Len(w) : l[i] = w[i]
  BY <1>1, <1>2, AppendProperties
<1>5. DOMAIN l = 1..Len(w) + 1
  BY <1>4, LenProperties
<1>6. \A i \in DOMAIN l : (i \in DOMAIN w /\ l[i] = w[i]) \/ (i = Len(w) + 1 /\ l[i] = e)
  BY <1>3, <1>4, <1>5
<1>7. Distinct(l)
  <2> SUFFICES ASSUME NEW i \in DOMAIN l, NEW j \in DOMAIN l, l[i].conv = l[j].conv PROVE i = j
    BY DEF Distinct
  <2>1. CASE i \in DOMAIN w /\ j \in DOMAIN w
    <3>1. l[i] = w[i] /\ l[j] = w[j]
      BY <1>3, <1>4, <2>1
    <3>. QED BY <1>1, <2>1, <3>1 DEF Distinct
  <2>. QED BY <1>1, <1>6, <2>1
<1>8. ASSUME NEW d, NEW since, d # c, Behind(map, d, since) PROVE Behind(l, d, since \cup {c})
  <2>1. Behind(w, d, since)
    BY <1>1, <1>8
  <2>2. PICK i \in DOMAIN w : w[i].conv = d /\ \A j \in DOMAIN w : i < j => w[j].conv \in since
    BY <2>1 DEF Behind
  <2>3. i \in DOMAIN l /\ l[i] = w[i]
    BY <1>3, <1>4, <1>5
  <2>4. \A j \in DOMAIN l : i < j => l[j].conv \in since \cup {c}
    BY <1>6, <2>2
  <2>. QED BY <2>2, <2>3, <2>4 DEF Behind
<1>9. \A i \in DOMAIN l : l[i] = e \/ (l[i].conv # c /\ \E p \in DOMAIN map : l[i] = map[p])
  BY <1>1, <1>6
<1>10. Len(l) <= Len(map) + 1 /\ Len(l) >= 1 /\ l[Len(l)] = e
  BY <1>1, <1>3, <1>4
<1>. QED BY <1>4, <1>7, <1>8, <1>9, <1>10

\* Trimming a map that is one entry too long takes the first.
LEMMA TrimmedFacts ==
    ASSUME NEW l \in Seq(Entries), Len(l) <= MaxEntries + 1, Distinct(l), NEW t, t = Trimmed(l)
    PROVE  /\ t \in Seq(Entries) /\ Len(t) <= MaxEntries /\ Distinct(t)
           /\ Len(l) >= 1 => Len(t) >= 1 /\ t[Len(t)] = l[Len(l)]
           /\ \A i \in DOMAIN t : \E p \in DOMAIN l : t[i] = l[p]
           /\ \A d, since : Behind(l, d, since) =>
                  \/ Behind(t, d, since)
                  \/ Len(t) = MaxEntries /\ \A i \in DOMAIN t : t[i].conv \in since
<1>1. /\ DOMAIN l = 1..Len(l) /\ Len(l) \in Nat /\ MaxEntries \in Nat /\ MaxEntries > 0
      /\ \A i \in 1..Len(l) : l[i] \in Entries
  BY Assumed, LenProperties, ElementOfSeq
<1>2. CASE ~(Len(l) > MaxEntries)
  <2>1. t = l /\ Len(l) <= MaxEntries
    BY <1>1, <1>2 DEF Trimmed
  <2>. QED BY <2>1
<1>3. CASE Len(l) > MaxEntries
  <2>1. Len(l) = MaxEntries + 1 /\ t = SubSeq(l, 2, MaxEntries + 1)
    <3>1. Len(l) = MaxEntries + 1
      <4>1. \A m, n \in Nat : n <= m + 1 /\ n > m => n = m + 1
        OBVIOUS
      <4>. QED BY <1>1, <1>3, <4>1
    <3>2. Len(l) - MaxEntries + 1 = 2
      BY <1>1, <3>1
    <3>. QED BY <1>3, <3>1, <3>2 DEF Trimmed
  <2>2. \A i \in 2..MaxEntries + 1 : l[i] \in Entries
    BY <1>1, <2>1
  <2>3. /\ t \in Seq(Entries)
        /\ Len(t) = IF 2 <= MaxEntries + 1 THEN MaxEntries + 1 - 2 + 1 ELSE 0
        /\ \A i \in 1..MaxEntries + 1 - 2 + 1 : t[i] = l[2 + i - 1]
    BY <1>1, <2>1, <2>2, SubSeqProperties
  <2>4. Len(t) = MaxEntries /\ \A i \in 1..MaxEntries : t[i] = l[i + 1] /\ i + 1 \in DOMAIN l
    BY <1>1, <2>1, <2>3
  <2>5. DOMAIN t = 1..MaxEntries
    BY <2>3, <2>4, LenProperties
  <2>6. Distinct(t)
    <3> SUFFICES ASSUME NEW i \in 1..MaxEntries, NEW j \in 1..MaxEntries, t[i].conv = t[j].conv
                 PROVE  i = j
      BY <2>5 DEF Distinct
    <3>1. i + 1 = j + 1
      BY <2>4 DEF Distinct
    <3>. QED BY <3>1
  <2>7. ASSUME NEW d, NEW since, Behind(l, d, since)
        PROVE  Behind(t, d, since) \/ \A i \in DOMAIN t : t[i].conv \in since
    <3>1. PICK i \in DOMAIN l : l[i].conv = d /\ \A j \in DOMAIN l : i < j => l[j].conv \in since
      BY <2>7 DEF Behind
    <3>2. CASE i = 1
      <4>1. \A j \in 1..MaxEntries : j + 1 \in DOMAIN l /\ i < j + 1
        BY <1>1, <2>1, <3>2
      <4>. QED BY <2>4, <2>5, <3>1, <4>1
    <3>3. CASE i # 1
      <4>1. i - 1 \in DOMAIN t /\ t[i - 1] = l[i]
        <5>1. i - 1 \in 1..MaxEntries /\ (i - 1) + 1 = i
          BY <1>1, <2>1, <3>3
        <5>. QED BY <2>4, <2>5, <5>1
      <4>2. ASSUME NEW j \in DOMAIN t, i - 1 < j PROVE t[j].conv \in since
        <5>1. i < j + 1 /\ j \in 1..MaxEntries
          BY <1>1, <2>5, <4>2
        <5>. QED BY <2>4, <3>1, <5>1
      <4>. QED BY <3>1, <4>1, <4>2 DEF Behind
    <3>. QED BY <3>2, <3>3
  <2>8. Len(t) >= 1 /\ t[Len(t)] = l[Len(l)]
    BY <1>1, <2>1, <2>4
  <2>9. \A i \in DOMAIN t : \E p \in DOMAIN l : t[i] = l[p]
    BY <2>4, <2>5
  <2>10. Len(t) <= MaxEntries
    BY <1>1, <2>4
  <2>. QED BY <2>3, <2>4, <2>6, <2>7, <2>8, <2>9, <2>10
<1>. QED BY <1>2, <1>3

\* As many conversations as a map has entries.
LEMMA DistinctCount ==
    ASSUME NEW t \in Seq(Entries), Distinct(t), NEW since, IsFiniteSet(since),
           \A i \in DOMAIN t : t[i].conv \in since
    PROVE  Cardinality(since) >= Len(t)
<1> DEFINE f == [i \in 1..Len(t) |-> t[i].conv]
<1>1. DOMAIN t = 1..Len(t) /\ Len(t) \in Nat
  BY LenProperties
<1>2. f \in Injection(1..Len(t), since)
  <2>1. f \in [1..Len(t) -> since]
    BY <1>1
  <2>2. \A i, j \in 1..Len(t) : f[i] = f[j] => i = j
    BY <1>1 DEF Distinct
  <2> HIDE DEF f
  <2>. QED BY <2>1, <2>2 DEF Injection, IsInjective
<1>3. Cardinality(1..Len(t)) <= Cardinality(since)
  BY <1>2, FS_Injection
<1>4. Cardinality(1..Len(t)) = Len(t)
  <2>1. \A n \in Nat : Cardinality(1..n) = n
    BY FS_Interval
  <2>. QED BY <1>1, <2>1
<1>5. Cardinality(since) \in Nat
  BY FS_CardinalityType
<1>. QED BY <1>1, <1>3, <1>4, <1>5

-----------------------------------------------------------------------------
(* Steps *)

LEMMA InitInv == Init => IndInv
<1> SUFFICES ASSUME Init PROVE IndInv
  OBVIOUS
<1>1. Unused \in [account : Accounts \cup {NoAccount}, age : 0..TTL, since : SUBSET Convs]
  BY Assumed DEF Unused
<1>2. affinity \in Seq(Entries) /\ Len(affinity) = 0 /\ DOMAIN affinity = {}
  BY EmptySeq DEF Init
<1>3. TypeOK
  BY <1>1, <1>2 DEF Init, TypeOK
<1>4. SinceFinite
  BY FS_EmptySet DEF Init, SinceFinite, Unused
<1>5. MapFollowsUse
  BY <1>2, Assumed DEF MapFollowsUse, ToSet
<1>6. InReach
  BY DEF Init, InReach, Unused
<1>. QED BY <1>3, <1>4, <1>5, <1>6 DEF IndInv

\* An entry and what is remembered of its conversation agree.
Follows(map, use) ==
    \A i \in DOMAIN map : use[map[i].conv].account = map[i].account
                            /\ use[map[i].conv].age = map[i].age

LEMMA MapParts ==
    MapFollowsUse <=> Len(affinity) <= MaxEntries /\ Distinct(affinity) /\ Follows(affinity, used)
BY DEF MapFollowsUse, Distinct, Follows, ToSet

LEMMA MapPartsNext ==
    MapFollowsUse' <=> /\ Len(affinity') <= MaxEntries /\ Distinct(affinity')
                       /\ Follows(affinity', used')
BY DEF MapFollowsUse, Distinct, Follows, ToSet

\* Using a conversation, found in the map or served by any account, and moving
\* its entry to the end keeps the invariant.
LEMMA UseInv ==
    ASSUME IndInv, NEW c \in Convs, NEW e \in Entries, e.conv = c,
           NEW served \in [account : Accounts \cup {NoAccount}, age : 0..TTL, since : SUBSET Convs],
           served.account = e.account, served.age = e.age, Use(c, served),
           affinity' = Trimmed(Append(Without(affinity, c), e)),
           up' \subseteq Accounts, conv' \in [Requests -> Convs \cup {NoConv}]
    PROVE  IndInv'
<1> DEFINE l == Append(Without(affinity, c), e)
<1>1. /\ affinity \in Seq(Entries) /\ Len(affinity) <= MaxEntries /\ Distinct(affinity)
      /\ Follows(affinity, used) /\ TypeOK /\ SinceFinite /\ InReach
  BY MapParts DEF IndInv, TypeOK
<1>2. Len(affinity) \in Nat /\ MaxEntries \in Nat
  BY <1>1, Assumed, LenProperties
<1> HIDE DEF l
<1>3. /\ l \in Seq(Entries) /\ Len(l) <= Len(affinity) + 1 /\ Len(l) >= 1 /\ l[Len(l)] = e
      /\ Distinct(l)
      /\ \A i \in DOMAIN l :
             l[i] = e \/ (l[i].conv # c /\ \E p \in DOMAIN affinity : l[i] = affinity[p])
      /\ \A d, since : d # c /\ Behind(affinity, d, since) => Behind(l, d, since \cup {c})
  <2>1. l = Append(Without(affinity, c), e)
    BY DEF l
  <2>2. affinity \in Seq(Entries) /\ Distinct(affinity)
    BY <1>1
  <2>3. e \in Entries /\ e.conv = c
    OBVIOUS
  <2>4. l \in Seq(Entries)
    BY <2>1, <2>2, <2>3, AppendedFacts
  <2>5. Distinct(l)
    BY <2>1, <2>2, <2>3, AppendedFacts
  <2>6. Len(l) <= Len(affinity) + 1 /\ Len(l) >= 1 /\ l[Len(l)] = e
    BY <2>1, <2>2, <2>3, AppendedFacts
  <2>7. \A i \in DOMAIN l :
             l[i] = e \/ (l[i].conv # c /\ \E p \in DOMAIN affinity : l[i] = affinity[p])
    BY <2>1, <2>2, <2>3, AppendedFacts
  <2>8. \A d, since : d # c /\ Behind(affinity, d, since) => Behind(l, d, since \cup {c})
    BY <2>1, <2>2, <2>3, AppendedFacts
  <2>. QED BY <2>4, <2>5, <2>6, <2>7, <2>8
<1>4. affinity' = Trimmed(l)
  BY DEF l
<1>5. Len(l) <= MaxEntries + 1
  <2>1. Len(l) \in Nat
    BY <1>3, LenProperties
  <2>2. \A n, m, k \in Nat : n <= m + 1 /\ m <= k => n <= k + 1
    OBVIOUS
  <2>. QED BY <1>1, <1>2, <1>3, <2>1, <2>2
<1>6. /\ affinity' \in Seq(Entries) /\ Len(affinity') <= MaxEntries /\ Distinct(affinity')
      /\ Len(affinity') >= 1 /\ affinity'[Len(affinity')] = e
      /\ \A i \in DOMAIN affinity' : \E p \in DOMAIN l : affinity'[i] = l[p]
      /\ \A d, since : Behind(l, d, since) =>
             \/ Behind(affinity', d, since)
             \/ Len(affinity') = MaxEntries /\ \A i \in DOMAIN affinity' : affinity'[i].conv \in since
  BY <1>3, <1>4, <1>5, TrimmedFacts
<1>7. used' = [d \in Convs |->
                 IF d = c THEN [served EXCEPT !.since = {}]
                 ELSE IF used[d] = Unused THEN Unused
                 ELSE [used[d] EXCEPT !.since = @ \cup {c}]]
  BY DEF Use
<1>8. /\ used'[c].account = e.account /\ used'[c].age = e.age /\ used'[c].since = {}
      /\ used'[c] \in [account : Accounts \cup {NoAccount}, age : 0..TTL, since : SUBSET Convs]
  BY <1>7
<1>9. ASSUME NEW d \in Convs, d # c
      PROVE  /\ used'[d].account = used[d].account /\ used'[d].age = used[d].age
             /\ used'[d].account # NoAccount => used'[d].since = used[d].since \cup {c}
             /\ IsFiniteSet(used'[d].since)
             /\ used'[d] \in [account : Accounts \cup {NoAccount}, age : 0..TTL, since : SUBSET Convs]
  <2>1. used[d] \in [account : Accounts \cup {NoAccount}, age : 0..TTL, since : SUBSET Convs]
        /\ IsFiniteSet(used[d].since)
    BY <1>1 DEF TypeOK, SinceFinite
  <2>2. CASE used[d] = Unused
    <3>1. used'[d] = Unused
      BY <1>7, <1>9, <2>2
    <3>. QED BY <2>1, <2>2, <3>1 DEF Unused
  <2>3. CASE used[d] # Unused
    <3>1. used'[d] = [used[d] EXCEPT !.since = @ \cup {c}]
      BY <1>7, <1>9, <2>3
    <3>2. /\ used'[d].account = used[d].account /\ used'[d].age = used[d].age
          /\ used'[d].since = used[d].since \cup {c}
          /\ used'[d] \in [account : Accounts \cup {NoAccount}, age : 0..TTL, since : SUBSET Convs]
      BY <2>1, <3>1
    <3>3. IsFiniteSet(used[d].since \cup {c})
      BY <2>1, FS_AddElement
    <3>. QED BY <3>2, <3>3
  <2>. QED BY <2>2, <2>3
<1>10. TypeOK'
  BY <1>6, <1>7, <1>8, <1>9 DEF TypeOK
<1>11. SinceFinite'
  BY <1>8, <1>9, FS_EmptySet DEF SinceFinite
<1>12. MapFollowsUse'
  <2>1. ASSUME NEW i \in DOMAIN affinity'
        PROVE  /\ used'[affinity'[i].conv].account = affinity'[i].account
               /\ used'[affinity'[i].conv].age = affinity'[i].age
    <3>1. \/ affinity'[i] = e
          \/ affinity'[i].conv # c /\ \E p \in DOMAIN affinity : affinity'[i] = affinity[p]
      BY <1>3, <1>6, <2>1
    <3>2. CASE affinity'[i] = e
      BY <1>8, <3>2
    <3>3. ASSUME affinity'[i].conv # c, NEW p \in DOMAIN affinity, affinity'[i] = affinity[p]
          PROVE  /\ used'[affinity'[i].conv].account = affinity'[i].account
                 /\ used'[affinity'[i].conv].age = affinity'[i].age
      <4>1. affinity[p].conv \in Convs
        <5>1. DOMAIN affinity = 1..Len(affinity)
          BY <1>1, LenProperties
        <5>2. affinity[p] \in Entries
          BY <1>1, <5>1, ElementOfSeq
        <5>. QED BY <5>2 DEF Entries
      <4>. QED BY <1>1, <1>9, <3>3, <4>1 DEF Follows
    <3>. QED BY <3>1, <3>2, <3>3
  <2>2. Follows(affinity', used')
    BY <2>1 DEF Follows
  <2>. QED BY <1>6, <2>2, MapPartsNext
<1>13. InReach'
  <2> SUFFICES ASSUME NEW d \in Convs, used'[d].account # NoAccount
               PROVE  \/ Behind(affinity', d, used'[d].since)
                      \/ Cardinality(used'[d].since) >= MaxEntries
    BY DEF InReach, Behind
  <2>1. CASE d = c
    <3>1. DOMAIN affinity' = 1..Len(affinity') /\ Len(affinity') \in Nat
      BY <1>6, LenProperties
    <3>2. /\ Len(affinity') \in DOMAIN affinity'
          /\ \A j \in DOMAIN affinity' : ~(Len(affinity') < j)
      BY <1>6, <3>1
    <3>. QED BY <1>6, <2>1, <3>2 DEF Behind
  <2>2. CASE d # c
    <3>1. /\ used[d].account # NoAccount /\ used'[d].since = used[d].since \cup {c}
          /\ IsFiniteSet(used'[d].since) /\ used[d].since \in SUBSET used'[d].since
      BY <1>9, <2>2
    <3>2. CASE Behind(affinity, d, used[d].since)
      <4>1. Behind(l, d, used'[d].since)
        BY <1>3, <2>2, <3>1, <3>2
      <4>2. CASE /\ Len(affinity') = MaxEntries
                 /\ \A i \in DOMAIN affinity' : affinity'[i].conv \in used'[d].since
        <5>1. Cardinality(used'[d].since) >= Len(affinity')
          BY <1>6, <3>1, <4>2, DistinctCount
        <5>. QED BY <4>2, <5>1
      <4>. QED BY <1>6, <4>1, <4>2
    <3>3. CASE Cardinality(used[d].since) >= MaxEntries
      <4>1. Cardinality(used[d].since) <= Cardinality(used'[d].since)
        BY <3>1, FS_Subset
      <4>2. Cardinality(used[d].since) \in Nat /\ Cardinality(used'[d].since) \in Nat
        BY <1>1, <3>1, FS_CardinalityType DEF SinceFinite
      <4>. QED BY <1>2, <3>3, <4>1, <4>2
    <3>. QED BY <1>1, <3>1, <3>2, <3>3 DEF InReach
  <2>. QED BY <2>1, <2>2
<1>. QED BY <1>10, <1>11, <1>12, <1>13 DEF IndInv

\* A conversation whose entry is dropped has no account to go back to.
LEMMA DropInv ==
    ASSUME IndInv, NEW c \in Convs, affinity' = Without(affinity, c),
           used' = [used EXCEPT ![c] = Unused], up' = up,
           conv' \in [Requests -> Convs \cup {NoConv}]
    PROVE  IndInv'
<1>1. /\ affinity \in Seq(Entries) /\ Len(affinity) <= MaxEntries /\ Distinct(affinity)
      /\ Follows(affinity, used) /\ TypeOK /\ SinceFinite /\ InReach
  BY MapParts DEF IndInv, TypeOK
<1>2. /\ affinity' \in Seq(Entries) /\ Len(affinity') <= Len(affinity) /\ Distinct(affinity')
      /\ \A i \in DOMAIN affinity' :
             affinity'[i].conv # c /\ \E p \in DOMAIN affinity : affinity'[i] = affinity[p]
      /\ \A d, since : d # c /\ Behind(affinity, d, since) => Behind(affinity', d, since)
  BY <1>1, WithoutFacts
<1>3. /\ Unused \in [account : Accounts \cup {NoAccount}, age : 0..TTL, since : SUBSET Convs]
      /\ IsFiniteSet(Unused.since) /\ Unused.account = NoAccount
  BY Assumed, FS_EmptySet DEF Unused
<1>4. /\ used'[c] = Unused /\ \A d \in Convs : d # c => used'[d] = used[d]
      /\ TypeOK'
  BY <1>1, <1>2, <1>3 DEF TypeOK
<1>5. SinceFinite'
  BY <1>1, <1>3, <1>4 DEF SinceFinite
<1>6. MapFollowsUse'
  <2>1. Len(affinity') <= MaxEntries
    <3>1. Len(affinity) \in Nat /\ Len(affinity') \in Nat /\ MaxEntries \in Nat
      BY <1>1, <1>2, Assumed, LenProperties
    <3>. QED BY <1>1, <1>2, <3>1
  <2>2. ASSUME NEW i \in DOMAIN affinity'
        PROVE  /\ used'[affinity'[i].conv].account = affinity'[i].account
               /\ used'[affinity'[i].conv].age = affinity'[i].age
    <3>1. affinity'[i].conv \in Convs
      <4>1. DOMAIN affinity' = 1..Len(affinity')
        BY <1>2, LenProperties
      <4>2. affinity'[i] \in Entries
        BY <1>2, <4>1, ElementOfSeq
      <4>. QED BY <4>2 DEF Entries
    <3>2. PICK p \in DOMAIN affinity : affinity'[i] = affinity[p]
      BY <1>2
    <3>. QED BY <1>1, <1>2, <1>4, <3>1, <3>2 DEF Follows
  <2>3. Follows(affinity', used')
    BY <2>2 DEF Follows
  <2>. QED BY <1>2, <2>1, <2>3, MapPartsNext
<1>7. InReach'
  <2> SUFFICES ASSUME NEW d \in Convs, used'[d].account # NoAccount
               PROVE  \/ Behind(affinity', d, used'[d].since)
                      \/ Cardinality(used'[d].since) >= MaxEntries
    BY DEF InReach, Behind
  <2>1. d # c /\ used'[d] = used[d]
    BY <1>3, <1>4
  <2>2. Behind(affinity, d, used[d].since) \/ Cardinality(used[d].since) >= MaxEntries
    BY <1>1, <2>1 DEF InReach
  <2>. QED BY <1>2, <2>1, <2>2
<1>. QED BY <1>4, <1>5, <1>6, <1>7 DEF IndInv

\* The entry of a conversation that has one.
LEMMA EntryFacts ==
    ASSUME TypeOK, NEW c, Holds(affinity, c)
    PROVE  /\ Place(affinity, c) \in DOMAIN affinity
           /\ EntryOf(affinity, c) \in Entries /\ EntryOf(affinity, c).conv = c
<1>1. Place(affinity, c) \in DOMAIN affinity /\ affinity[Place(affinity, c)].conv = c
  BY DEF Holds, Place
<1>2. affinity \in Seq(Entries)
  BY DEF TypeOK
<1>3. DOMAIN affinity = 1..Len(affinity)
  BY <1>2, LenProperties
<1>. QED BY <1>1, <1>2, <1>3, ElementOfSeq DEF EntryOf

LEMMA StepInv == IndInv /\ [Next]_vars => IndInv'
<1> SUFFICES ASSUME IndInv, [Next]_vars PROVE IndInv'
  OBVIOUS
<1>1. /\ affinity \in Seq(Entries) /\ Len(affinity) <= MaxEntries /\ Distinct(affinity)
      /\ Follows(affinity, used) /\ TypeOK /\ SinceFinite /\ InReach
  BY MapParts DEF IndInv, TypeOK
<1>2. ASSUME affinity' = affinity, used' = used, up' \subseteq Accounts,
             conv' \in [Requests -> Convs \cup {NoConv}]
      PROVE  IndInv'
  <2>1. TypeOK' /\ SinceFinite'
    BY <1>1, <1>2 DEF TypeOK, SinceFinite
  <2>2. MapFollowsUse'
    BY <1>1, <1>2, MapPartsNext
  <2>3. InReach'
    BY <1>1, <1>2 DEF InReach, Behind
  <2>. QED BY <2>1, <2>2, <2>3 DEF IndInv
<1>3. ASSUME NEW r \in Requests, NEW c \in Convs, Resolve(r, c) PROVE IndInv'
  <2>1. /\ conv' \in [Requests -> Convs \cup {NoConv}]
        /\ affinity' = AfterResolve(c) /\ up' = up /\ up \subseteq Accounts
    BY <1>1, <1>3 DEF Resolve, TypeOK
  <2>2. CASE Hits(c)
    <3> DEFINE e == EntryOf(affinity, c)
    <3>1. Holds(affinity, c) /\ e.account \in up /\ up # {}
      BY <2>2 DEF Hits, Usable
    <3>2. /\ e \in Entries /\ e.conv = c /\ e.account = used[c].account /\ e.age = used[c].age
      <4>1. /\ Place(affinity, c) \in DOMAIN affinity /\ e \in Entries /\ e.conv = c
        BY <1>1, <3>1, EntryFacts
      <4>2. e = affinity[Place(affinity, c)]
        BY DEF EntryOf
      <4> DEFINE p == Place(affinity, c)
      <4> HIDE DEF e, p
      <4>3. /\ used[affinity[p].conv].account = affinity[p].account
            /\ used[affinity[p].conv].age = affinity[p].age
        <5>1. p \in DOMAIN affinity
          BY <4>1 DEF p
        <5>. QED BY <1>1, <5>1 DEF Follows
      <4>4. e = affinity[p]
        BY <4>2 DEF p
      <4>. QED BY <4>1, <4>3, <4>4
    <3>3. Use(c, used[c])
      <4> HIDE DEF e
      <4>1. (CASE Hits(c) -> Use(c, used[c])
               [] up = {} -> UNCHANGED used
               [] OTHER -> used' = [used EXCEPT ![c] = Unused])
        BY <1>3 DEF Resolve
      <4>. QED BY <2>2, <3>1, <4>1
    <3>4. affinity' = Append(Without(affinity, c), e)
      BY <2>1, <2>2, <3>1 DEF AfterResolve, Touched
    <3> HIDE DEF e
    <3>5. affinity' = Trimmed(Append(Without(affinity, c), e))
      <4> DEFINE w == Without(affinity, c)
      <4>1. w \in Seq(Entries) /\ Len(w) < Len(affinity)
        BY <1>1, <3>1, WithoutFacts
      <4> HIDE DEF w
      <4>2. Len(Append(w, e)) = Len(w) + 1
        BY <3>2, <4>1, AppendProperties
      <4>3. Len(w) \in Nat /\ Len(affinity) \in Nat /\ MaxEntries \in Nat
        BY <1>1, <4>1, Assumed, LenProperties
      <4>4. ~(Len(Append(w, e)) > MaxEntries)
        BY <1>1, <4>1, <4>2, <4>3
      <4>5. affinity' = Append(w, e)
        BY <3>4 DEF w
      <4>6. affinity' = Trimmed(Append(w, e))
        BY <4>4, <4>5 DEF Trimmed
      <4>. QED BY <4>6 DEF w
    <3>6. used[c] \in [account : Accounts \cup {NoAccount}, age : 0..TTL, since : SUBSET Convs]
      BY <1>1 DEF TypeOK
    <3>. QED BY <2>1, <3>2, <3>3, <3>5, <3>6, UseInv
  <2>3. CASE ~Hits(c) /\ up = {}
    <3>1. affinity' = affinity /\ used' = used
      BY <1>3, <2>1, <2>3 DEF Resolve, AfterResolve
    <3>. QED BY <1>2, <2>1, <3>1
  <2>4. CASE ~Hits(c) /\ up # {}
    <3>1. affinity' = Without(affinity, c) /\ used' = [used EXCEPT ![c] = Unused]
      BY <1>3, <2>1, <2>4 DEF Resolve, AfterResolve
    <3>. QED BY <2>1, <3>1, DropInv
  <2>. QED BY <2>2, <2>3, <2>4
<1>4. ASSUME NEW r \in Requests, NEW a \in Accounts, Remember(r, a) PROVE IndInv'
  <2> DEFINE c == conv[r]
             e == [conv |-> c, account |-> a, age |-> 0]
             served == [account |-> a, age |-> 0, since |-> {}]
  <2>1. /\ c \in Convs /\ conv' \in [Requests -> Convs \cup {NoConv}]
        /\ up' = up /\ up \subseteq Accounts
    BY <1>1, <1>4 DEF Remember, TypeOK
  <2>2. /\ e \in Entries /\ e.conv = c /\ served.account = e.account /\ served.age = e.age
        /\ served \in [account : Accounts \cup {NoAccount}, age : 0..TTL, since : SUBSET Convs]
    BY <2>1, Assumed DEF Entries
  <2>3. affinity' = Trimmed(Append(Without(affinity, c), e)) /\ Use(c, served)
    BY <1>4 DEF Remember, Remembered
  <2> HIDE DEF c, e, served
  <2>. QED BY <2>1, <2>2, <2>3, UseInv
<1>5. ASSUME NEW r \in Requests, GiveUp(r) PROVE IndInv'
  <2>1. /\ affinity' = affinity /\ used' = used /\ up' \subseteq Accounts
        /\ conv' \in [Requests -> Convs \cup {NoConv}]
    BY <1>1, <1>5 DEF GiveUp, TypeOK
  <2>. QED BY <1>2, <2>1
<1>6. ASSUME NEW a \in Accounts, Leave(a) \/ Return(a) PROVE IndInv'
  <2>1. /\ affinity' = affinity /\ used' = used /\ up' \subseteq Accounts
        /\ conv' \in [Requests -> Convs \cup {NoConv}]
    BY <1>1, <1>6 DEF Leave, Return, TypeOK
  <2>. QED BY <1>2, <2>1
<1>7. CASE Tick
  <2>1. \A age \in 0..TTL : Older(age) \in 0..TTL
    BY Assumed DEF Older
  <2>2. /\ DOMAIN affinity = 1..Len(affinity) /\ Len(affinity) \in Nat
        /\ \A i \in 1..Len(affinity) : affinity[i] \in Entries
    BY <1>1, LenProperties, ElementOfSeq
  <2>3. /\ affinity' = [i \in 1..Len(affinity) |-> [affinity[i] EXCEPT !.age = Older(@)]]
        /\ used' = [c \in Convs |-> [used[c] EXCEPT !.age = Older(@)]]
        /\ up' = up /\ conv' = conv
    BY <1>7, <2>2 DEF Tick
  <2>4. \A i \in 1..Len(affinity) :
            /\ affinity'[i] \in Entries /\ affinity'[i].conv = affinity[i].conv
            /\ affinity'[i].account = affinity[i].account
            /\ affinity'[i].age = Older(affinity[i].age)
    BY <2>1, <2>2, <2>3 DEF Entries
  <2>5. affinity' \in Seq(Entries) /\ DOMAIN affinity' = DOMAIN affinity
        /\ Len(affinity') = Len(affinity)
    <3>1. affinity' \in [1..Len(affinity) -> Entries]
      BY <2>3, <2>4
    <3>2. affinity' \in Seq(Entries)
      BY <2>2, <3>1, SeqDef
    <3>3. DOMAIN affinity' = 1..Len(affinity') /\ Len(affinity') \in Nat
      BY <3>2, LenProperties
    <3>4. 1..Len(affinity') = 1..Len(affinity)
      BY <3>1, <3>3
    <3>5. \A m, n \in Nat : 1..m = 1..n => m = n
      <4> SUFFICES ASSUME NEW m \in Nat, NEW n \in Nat, 1..m = 1..n PROVE m = n
        OBVIOUS
      <4>1. CASE m < n
        <5>1. n \in 1..n /\ n \notin 1..m
          BY <4>1
        <5>. QED BY <5>1
      <4>2. CASE n < m
        <5>1. m \in 1..m /\ m \notin 1..n
          BY <4>2
        <5>. QED BY <5>1
      <4>. QED BY <4>1, <4>2
    <3>6. Len(affinity') = Len(affinity)
      BY <2>2, <3>3, <3>4, <3>5
    <3>. QED BY <2>2, <3>2, <3>3, <3>6
  <2>6. \A c \in Convs :
            /\ used'[c].account = used[c].account /\ used'[c].age = Older(used[c].age)
            /\ used'[c].since = used[c].since
            /\ used'[c] \in [account : Accounts \cup {NoAccount}, age : 0..TTL, since : SUBSET Convs]
    <3> SUFFICES ASSUME NEW c \in Convs
                 PROVE  /\ used'[c].account = used[c].account /\ used'[c].age = Older(used[c].age)
                        /\ used'[c].since = used[c].since
                        /\ used'[c] \in [account : Accounts \cup {NoAccount}, age : 0..TTL,
                                        since : SUBSET Convs]
      OBVIOUS
    <3>1. used[c] \in [account : Accounts \cup {NoAccount}, age : 0..TTL, since : SUBSET Convs]
      BY <1>1 DEF TypeOK
    <3>2. used'[c] = [used[c] EXCEPT !.age = Older(used[c].age)]
      BY <2>3
    <3>3. Older(used[c].age) \in 0..TTL
      BY <2>1, <3>1
    <3>. QED BY <3>1, <3>2, <3>3
  <2>7. TypeOK' /\ SinceFinite'
    BY <1>1, <2>3, <2>5, <2>6 DEF TypeOK, SinceFinite
  <2>8. MapFollowsUse'
    <3>1. Distinct(affinity')
      BY <1>1, <2>2, <2>4, <2>5 DEF Distinct
    <3>2. Follows(affinity', used')
      <4> SUFFICES ASSUME NEW i \in 1..Len(affinity)
                   PROVE  /\ used'[affinity'[i].conv].account = affinity'[i].account
                          /\ used'[affinity'[i].conv].age = affinity'[i].age
        BY <2>2, <2>5 DEF Follows
      <4>1. affinity[i].conv \in Convs
        BY <2>2 DEF Entries
      <4>. QED BY <1>1, <2>2, <2>4, <2>6, <4>1 DEF Follows
    <3>. QED BY <1>1, <2>5, <3>1, <3>2, MapPartsNext
  <2>9. InReach'
    <3> SUFFICES ASSUME NEW c \in Convs, used[c].account # NoAccount
                 PROVE  \/ Behind(affinity', c, used[c].since)
                        \/ Cardinality(used[c].since) >= MaxEntries
      BY <2>6 DEF InReach, Behind
    <3>1. Behind(affinity, c, used[c].since) => Behind(affinity', c, used[c].since)
      BY <2>2, <2>4, <2>5 DEF Behind
    <3>. QED BY <1>1, <3>1 DEF InReach
  <2>. QED BY <2>7, <2>8, <2>9 DEF IndInv
<1>8. CASE Restart
  <2>1. affinity' = <<>> /\ used' = [c \in Convs |-> Unused] /\ up' = up
        /\ conv' \in [Requests -> Convs \cup {NoConv}]
    BY <1>8 DEF Restart
  <2>2. affinity' \in Seq(Entries) /\ Len(affinity') = 0 /\ DOMAIN affinity' = {}
    BY <2>1, EmptySeq
  <2>3. /\ Unused \in [account : Accounts \cup {NoAccount}, age : 0..TTL, since : SUBSET Convs]
        /\ IsFiniteSet(Unused.since) /\ Unused.account = NoAccount
    BY Assumed, FS_EmptySet DEF Unused
  <2>4. TypeOK' /\ SinceFinite'
    BY <1>1, <2>1, <2>2, <2>3 DEF TypeOK, SinceFinite
  <2>5. MapFollowsUse'
    BY <2>2, Assumed, MapPartsNext DEF Distinct, Follows
  <2>6. InReach'
    BY <2>1, <2>3 DEF InReach
  <2>. QED BY <2>4, <2>5, <2>6 DEF IndInv
<1>9. CASE UNCHANGED vars
  <2>1. affinity' = affinity /\ used' = used /\ up' \subseteq Accounts
        /\ conv' \in [Requests -> Convs \cup {NoConv}]
    BY <1>1, <1>9 DEF vars, TypeOK
  <2>. QED BY <1>2, <2>1
<1>. QED BY <1>3, <1>4, <1>5, <1>6, <1>7, <1>8, <1>9 DEF Next

-----------------------------------------------------------------------------
(* Theorems *)

\* What holds in all states of the affinity: each conversation that has an
\* account to go back to is in the map with only conversations behind it that
\* were used since, or as many were used since as the map holds.
THEOREM Invariance == Spec => []IndInv
BY InitInv, StepInv, PTL DEF Spec

\* The variables of the affinity keep their types.
THEOREM TypeCorrect == Spec => []TypeOK
<1>1. IndInv => TypeOK
  BY DEF IndInv
<1>. QED BY <1>1, Invariance, PTL

\* The map is within its bound, has one entry for a conversation, and an entry
\* names the account that served the conversation last and when.
THEOREM MapIsTrue == Spec => []MapFollowsUse
<1>1. IndInv => MapFollowsUse
  BY DEF IndInv
<1>. QED BY <1>1, Invariance, PTL

\* A conversation goes back to the account that served it last, unless the account
\* is not available, TTL has passed, or MaxEntries others were used since.
THEOREM AffinityHolds == Spec => []StaysWarm
<1>1. ASSUME IndInv, NEW c \in Convs, Warm(c) PROVE Resolved(c) = used[c].account
  <2>1. TypeOK /\ SinceFinite /\ InReach /\ Follows(affinity, used)
    BY <1>1, MapParts DEF IndInv
  <2>2. /\ used[c].account \in up /\ used[c].age < TTL
        /\ Cardinality(used[c].since) < MaxEntries
    BY <1>1 DEF Warm
  <2>3. used[c].account # NoAccount /\ up # {}
    BY <2>1, <2>2, Assumed DEF TypeOK
  <2>4. ~(Cardinality(used[c].since) >= MaxEntries)
    <3>1. Cardinality(used[c].since) \in Nat /\ MaxEntries \in Nat
      BY <2>1, Assumed, FS_CardinalityType DEF SinceFinite
    <3>. QED BY <2>2, <3>1
  <2>5. Behind(affinity, c, used[c].since)
    BY <2>1, <2>3, <2>4 DEF InReach
  <2>6. Holds(affinity, c)
    BY <2>5 DEF Behind, Holds
  <2> DEFINE p == Place(affinity, c)
             e == EntryOf(affinity, c)
  <2>7. e = affinity[p] /\ p \in DOMAIN affinity /\ e.conv = c
    BY <2>1, <2>6, EntryFacts DEF EntryOf
  <2> HIDE DEF p
  <2>8. used[affinity[p].conv].account = affinity[p].account
        /\ used[affinity[p].conv].age = affinity[p].age
    BY <2>1, <2>7 DEF Follows
  <2>9. e.account = used[c].account /\ e.age = used[c].age
    BY <2>7, <2>8
  <2>10. Hits(c)
    BY <2>2, <2>6, <2>9 DEF Hits, Usable
  <2>. QED BY <2>3, <2>9, <2>10 DEF Resolved
<1>2. IndInv => StaysWarm
  BY <1>1 DEF StaysWarm
<1>. QED BY <1>2, Invariance, PTL

\* An account that leaves or returns moves no conversation but those that
\* preferred it before, or prefer it now.
THEOREM PoolChangesMoveFew == Spec => OnlyItsOwnMove
<1>1. ASSUME TypeOK, NEW a \in Accounts, NEW c \in Convs, Leave(a)
      PROVE  a \in {Resolved(c), Resolved(c)'} \/ Resolved(c)' = Resolved(c)
  <2>1. /\ up \in SUBSET Accounts /\ a \in up /\ up' = up \ {a} /\ affinity' = affinity
        /\ up' \in SUBSET Accounts /\ a \notin up' /\ up = up' \cup {a}
    BY <1>1 DEF Leave, TypeOK
  <2>2. CASE Hits(c)
    BY <2>1, <2>2 DEF Hits, Usable, Resolved
  <2>3. CASE ~Hits(c)
    <3>1. Resolved(c) = Rendezvous(c, up)
      BY <2>1, <2>3 DEF Resolved
    <3>2. Resolved(c)' = Rendezvous(c, up')
      <4>1. ~Hits(c)'
        BY <2>1, <2>3 DEF Hits, Usable
      <4>2. up' = {} => Rendezvous(c, up') = NoAccount
        BY DEF Rendezvous
      <4>. QED BY <4>1, <4>2 DEF Resolved
    <3>. QED BY <2>1, <3>1, <3>2, RendezvousStable
  <2>. QED BY <2>2, <2>3
<1>2. ASSUME TypeOK, NEW a \in Accounts, NEW c \in Convs, Return(a)
      PROVE  a \in {Resolved(c), Resolved(c)'} \/ Resolved(c)' = Resolved(c)
  <2>1. /\ up \in SUBSET Accounts /\ a \notin up /\ up' = up \cup {a} /\ affinity' = affinity
    BY <1>2 DEF Return, TypeOK
  <2>2. CASE Hits(c)'
    <3>1. Resolved(c)' = EntryOf(affinity, c).account /\ Holds(affinity, c)
          /\ EntryOf(affinity, c).age < TTL /\ EntryOf(affinity, c).account \in up'
      BY <2>1, <2>2 DEF Hits, Usable, Resolved
    <3>2. CASE EntryOf(affinity, c).account \in up
      BY <3>1, <3>2 DEF Hits, Usable, Resolved
    <3>. QED BY <2>1, <3>1, <3>2
  <2>3. CASE ~Hits(c)'
    <3>1. Resolved(c)' = Rendezvous(c, up')
      BY <2>1, <2>3 DEF Resolved
    <3>2. Resolved(c) = Rendezvous(c, up)
      <4>1. ~Hits(c)
        BY <2>1, <2>3 DEF Hits, Usable
      <4>2. up = {} => Rendezvous(c, up) = NoAccount
        BY DEF Rendezvous
      <4>. QED BY <4>1, <4>2 DEF Resolved
    <3>. QED BY <2>1, <3>1, <3>2, RendezvousStable
  <2>. QED BY <2>2, <2>3
<1>3. TypeOK => [\A a \in Accounts, c \in Convs :
                    Leave(a) \/ Return(a) =>
                        \/ a \in {Resolved(c), Resolved(c)'}
                        \/ Resolved(c)' = Resolved(c)]_vars
  BY <1>1, <1>2
<1>4. IndInv => TypeOK
  BY DEF IndInv
<1>. QED BY <1>3, <1>4, Invariance, PTL DEF OnlyItsOwnMove
=============================================================================
