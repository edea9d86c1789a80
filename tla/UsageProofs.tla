----------------------------- MODULE UsageProofs -----------------------------
(***************************************************************************)
(* Theorems about Usage: for every number of slots and keys, every limit,  *)
(* window, retention and length of a day, and any span of a backfill.      *)
(*                                                                         *)
(* The counts of the model are sums over finite sets.  The first part      *)
(* proves what the others need to know of SumFunctionOnSet.  An induction  *)
(* over subsets is made by looking at a smallest counterexample: the set   *)
(* of counterexamples, if there were any, would have a minimal element.    *)
(***************************************************************************)
EXTENDS Usage, FiniteSetTheorems, TLAPS

-----------------------------------------------------------------------------
(* Sums *)

\* The element of a set that a fold takes first.
Pick(s) == CHOOSE x \in s : TRUE

\* g is the table that the sum over the subsets of S is read from.
Tabulates(g, f, S) ==
    g = [s \in SUBSET S |-> IF s = {} THEN 0 ELSE f[Pick(s)] + g[s \ {Pick(s)}]]

\* A sum is read from the table that its definition chooses.
LEMMA SumIsTable ==
    \A f, S : SumFunctionOnSet(f, S) = (CHOOSE g : Tabulates(g, f, S))[S]
BY DEF SumFunctionOnSet, FoldFunctionOnSet, MapThenFoldSet, Tabulates, Pick

\* A set of subsets of a finite set has a minimal member.
LEMMA MinimalSubset ==
    ASSUME NEW S, IsFiniteSet(S), NEW Q \in SUBSET (SUBSET S), Q # {}
    PROVE  \E m \in Q : \A s \in Q : ~(s \subseteq m /\ s # m)
<1>1. IsWellFoundedOn(StrictSubsetOrdering(S), FiniteSubsetsOf(S))
  BY FS_StrictSubsetOrderingWellFounded
<1>2. FiniteSubsetsOf(S) = SUBSET S
  BY FS_FiniteSubsetsOfFinite
<1>3. \E m \in Q : \A s \in Q : <<s, m>> \notin StrictSubsetOrdering(S)
  BY <1>1, <1>2, WFMin
<1>. QED BY <1>3 DEF StrictSubsetOrdering

LEMMA PickIn == \A s : s # {} => Pick(s) \in s
BY DEF Pick

LEMMA TableStep ==
    ASSUME NEW f, NEW S, NEW g, Tabulates(g, f, S), NEW s \in SUBSET S
    PROVE  g[s] = IF s = {} THEN 0 ELSE f[Pick(s)] + g[s \ {Pick(s)}]
<1>1. Tabulates(g, f, S)
  OBVIOUS
<1>. QED BY <1>1 DEF Tabulates

\* The tables of two sets agree on the subsets of the smaller one.
LEMMA TablesAgree ==
    ASSUME NEW f, NEW S, NEW T, IsFiniteSet(S), S \subseteq T,
           NEW g, Tabulates(g, f, S), NEW h, Tabulates(h, f, T)
    PROVE  \A s \in SUBSET S : g[s] = h[s]
<1> DEFINE Q == {s \in SUBSET S : g[s] # h[s]}
<1> SUFFICES ASSUME Q # {} PROVE FALSE
  OBVIOUS
<1>1. PICK m \in Q : \A s \in Q : ~(s \subseteq m /\ s # m)
  <2>. HIDE DEF Q
  <2>1. Q \in SUBSET (SUBSET S)
    BY DEF Q
  <2>. QED BY <2>1, MinimalSubset
<1>2. m \in SUBSET S /\ m \in SUBSET T /\ g[m] # h[m]
  BY <1>1
<1>3. m # {}
  <2>1. ASSUME m = {} PROVE g[m] = 0 /\ h[m] = 0
    BY <1>2, <2>1, TableStep
  <2>. QED BY <1>2, <2>1
<1>4. m \ {Pick(m)} \in SUBSET S /\ m \ {Pick(m)} \subseteq m /\ m \ {Pick(m)} # m
  BY <1>2, <1>3, PickIn
<1>5. g[m \ {Pick(m)}] = h[m \ {Pick(m)}]
  BY <1>1, <1>4
<1>. QED BY <1>2, <1>3, <1>5, TableStep

\* Each finite set has a table: the tables of its parts make up its own.
LEMMA TableExists ==
    ASSUME NEW f, NEW S, IsFiniteSet(S)
    PROVE  \E g : Tabulates(g, f, S)
<1> DEFINE Q == {s \in SUBSET S : ~ \E g : Tabulates(g, f, s)}
           Table(s) == CHOOSE g : Tabulates(g, f, s)
<1> SUFFICES ASSUME Q # {} PROVE FALSE
  <2>1. S \in SUBSET S
    OBVIOUS
  <2>. QED BY <2>1
<1>1. PICK m \in Q : \A s \in Q : ~(s \subseteq m /\ s # m)
  <2>. HIDE DEF Q
  <2>1. Q \in SUBSET (SUBSET S)
    BY DEF Q
  <2>. QED BY <2>1, MinimalSubset
<1>2. m \in SUBSET S /\ ~ \E g : Tabulates(g, f, m)
  BY <1>1
<1>3. ASSUME NEW s \in SUBSET m, s # m PROVE Tabulates(Table(s), f, s)
  BY <1>1, <1>2, <1>3
<1> HIDE DEF Q, Table
<1> DEFINE whole == [s \in SUBSET m |-> IF s = {} THEN 0
                        ELSE f[Pick(s)] + Table(s \ {Pick(s)})[s \ {Pick(s)}]]
<1>4. ASSUME NEW s \in SUBSET m, s # m PROVE whole[s] = Table(s)[s]
  <2>1. Tabulates(Table(s), f, s)
    BY <1>3, <1>4
  <2>2. CASE s = {}
    BY <2>1, <2>2, TableStep
  <2>3. CASE s # {}
    <3> DEFINE u == s \ {Pick(s)}
    <3>1. u \in SUBSET m /\ u \in SUBSET s /\ u # m /\ IsFiniteSet(u)
      BY <1>2, <1>4, <2>3, PickIn, FS_Subset
    <3>2. Tabulates(Table(u), f, u)
      BY <1>3, <3>1
    <3>3. Table(u)[u] = Table(s)[u]
      <4>1. \A v \in SUBSET u : Table(u)[v] = Table(s)[v]
        <5>1. u \subseteq s
          BY <3>1
        <5> HIDE DEF u
        <5>. QED BY <2>1, <3>1, <3>2, <5>1, TablesAgree
      <4>. QED BY <4>1
    <3>4. Table(s)[s] = f[Pick(s)] + Table(s)[u]
      BY <2>1, <2>3, TableStep
    <3>. QED BY <2>3, <3>3, <3>4
  <2>. QED BY <2>2, <2>3
<1>5. ASSUME NEW s \in SUBSET m
      PROVE  whole[s] = IF s = {} THEN 0 ELSE f[Pick(s)] + whole[s \ {Pick(s)}]
  <2>1. CASE s = {}
    BY <2>1
  <2>2. CASE s # {}
    <3>1. s \ {Pick(s)} \in SUBSET m /\ s \ {Pick(s)} # m
      BY <2>2, PickIn
    <3>. QED BY <1>4, <2>2, <3>1
  <2>. QED BY <2>1, <2>2
<1>6. whole = [s \in SUBSET m |-> whole[s]]
  OBVIOUS
<1> HIDE DEF whole
<1>7. whole = [s \in SUBSET m |-> IF s = {} THEN 0 ELSE f[Pick(s)] + whole[s \ {Pick(s)}]]
  BY <1>5, <1>6
<1>8. Tabulates(whole, f, m)
  BY <1>7 DEF Tabulates
<1>. QED BY <1>2, <1>8

LEMMA SumEmpty == \A f : SumFunctionOnSet(f, {}) = 0
<1> SUFFICES ASSUME NEW f PROVE SumFunctionOnSet(f, {}) = 0
  OBVIOUS
<1>1. Tabulates(CHOOSE g : Tabulates(g, f, {}), f, {})
  BY TableExists, FS_EmptySet
<1>. QED BY <1>1, SumIsTable, TableStep

LEMMA SumPick ==
    ASSUME NEW f, NEW S, IsFiniteSet(S), S # {}
    PROVE  SumFunctionOnSet(f, S) = f[Pick(S)] + SumFunctionOnSet(f, S \ {Pick(S)})
<1> DEFINE Table(s) == CHOOSE g : Tabulates(g, f, s)
           u == S \ {Pick(S)}
<1>1. IsFiniteSet(u) /\ u \in SUBSET S
  BY FS_RemoveElement
<1>2. Tabulates(Table(S), f, S) /\ Tabulates(Table(u), f, u)
  BY <1>1, TableExists
<1>3. SumFunctionOnSet(f, S) = Table(S)[S] /\ SumFunctionOnSet(f, u) = Table(u)[u]
  BY SumIsTable
<1> HIDE DEF Table, u
<1>4. Table(u)[u] = Table(S)[u]
  BY <1>1, <1>2, TablesAgree
<1>5. Table(S)[S] = f[Pick(S)] + Table(S)[u]
  BY <1>2, TableStep DEF u
<1>. QED BY <1>3, <1>4, <1>5 DEF u

\* The sum depends on nothing but the terms.
LEMMA SumSame ==
    ASSUME NEW S, IsFiniteSet(S), NEW f, NEW g, \A x \in S : f[x] = g[x]
    PROVE  SumFunctionOnSet(f, S) = SumFunctionOnSet(g, S)
<1> DEFINE Q == {s \in SUBSET S : SumFunctionOnSet(f, s) # SumFunctionOnSet(g, s)}
<1> SUFFICES ASSUME Q # {} PROVE FALSE
  <2>1. S \in SUBSET S
    OBVIOUS
  <2>. QED BY <2>1
<1>1. PICK m \in Q : \A s \in Q : ~(s \subseteq m /\ s # m)
  <2>. HIDE DEF Q
  <2>1. Q \in SUBSET (SUBSET S)
    BY DEF Q
  <2>. QED BY <2>1, MinimalSubset
<1>2. m \in SUBSET S /\ SumFunctionOnSet(f, m) # SumFunctionOnSet(g, m) /\ IsFiniteSet(m)
  BY <1>1, FS_Subset
<1>3. m # {}
  BY <1>2, SumEmpty
<1>4. Pick(m) \in S /\ m \ {Pick(m)} \in SUBSET S /\ m \ {Pick(m)} \subseteq m /\ m \ {Pick(m)} # m
  BY <1>2, <1>3, PickIn
<1>5. SumFunctionOnSet(f, m \ {Pick(m)}) = SumFunctionOnSet(g, m \ {Pick(m)})
  BY <1>1, <1>4
<1>. QED BY <1>2, <1>3, <1>4, <1>5, SumPick

LEMMA SumNat ==
    ASSUME NEW S, IsFiniteSet(S), NEW f, \A x \in S : f[x] \in Nat
    PROVE  SumFunctionOnSet(f, S) \in Nat
<1> DEFINE Q == {s \in SUBSET S : SumFunctionOnSet(f, s) \notin Nat}
<1> SUFFICES ASSUME Q # {} PROVE FALSE
  <2>1. S \in SUBSET S
    OBVIOUS
  <2>. QED BY <2>1
<1>1. PICK m \in Q : \A s \in Q : ~(s \subseteq m /\ s # m)
  <2>. HIDE DEF Q
  <2>1. Q \in SUBSET (SUBSET S)
    BY DEF Q
  <2>. QED BY <2>1, MinimalSubset
<1>2. m \in SUBSET S /\ SumFunctionOnSet(f, m) \notin Nat /\ IsFiniteSet(m)
  BY <1>1, FS_Subset
<1>3. m # {}
  BY <1>2, SumEmpty
<1>4. Pick(m) \in S /\ m \ {Pick(m)} \in SUBSET S /\ m \ {Pick(m)} \subseteq m /\ m \ {Pick(m)} # m
  BY <1>2, <1>3, PickIn
<1>5. SumFunctionOnSet(f, m \ {Pick(m)}) \in Nat
  BY <1>1, <1>4
<1>6. SumFunctionOnSet(f, m) = f[Pick(m)] + SumFunctionOnSet(f, m \ {Pick(m)})
  BY <1>2, <1>3, SumPick
<1>. QED BY <1>2, <1>4, <1>5, <1>6

\* Any element may be taken first.
LEMMA SumElement ==
    ASSUME NEW S, IsFiniteSet(S), NEW f, \A x \in S : f[x] \in Nat, NEW x \in S
    PROVE  SumFunctionOnSet(f, S) = f[x] + SumFunctionOnSet(f, S \ {x})
<1> DEFINE Q == {s \in SUBSET S :
                    \E y \in s : SumFunctionOnSet(f, s) # f[y] + SumFunctionOnSet(f, s \ {y})}
<1> SUFFICES ASSUME Q # {} PROVE FALSE
  <2>1. S \in SUBSET S
    OBVIOUS
  <2>. QED BY <2>1
<1>1. PICK m \in Q : \A s \in Q : ~(s \subseteq m /\ s # m)
  <2>. HIDE DEF Q
  <2>1. Q \in SUBSET (SUBSET S)
    BY DEF Q
  <2>. QED BY <2>1, MinimalSubset
<1>2. PICK y \in m : SumFunctionOnSet(f, m) # f[y] + SumFunctionOnSet(f, m \ {y})
  BY <1>1
<1>3. m \in SUBSET S /\ IsFiniteSet(m)
  BY FS_Subset
<1> DEFINE p == Pick(m)
<1>4. p \in m
  BY <1>2, PickIn
<1>5. SumFunctionOnSet(f, m) = f[p] + SumFunctionOnSet(f, m \ {p})
  BY <1>2, <1>3, SumPick
<1>6. ASSUME NEW s \in SUBSET m, s # m, NEW z \in s
      PROVE  SumFunctionOnSet(f, s) = f[z] + SumFunctionOnSet(f, s \ {z})
  BY <1>1, <1>3, <1>6
<1> HIDE DEF p, Q
<1>7. p # y
  BY <1>2, <1>5
<1> DEFINE rest == (m \ {y}) \ {p}
<1>8. /\ m \ {p} \in SUBSET m /\ m \ {p} # m /\ y \in m \ {p}
      /\ m \ {y} \in SUBSET m /\ m \ {y} # m /\ p \in m \ {y}
      /\ (m \ {p}) \ {y} = rest
  BY <1>2, <1>4, <1>7
<1>9. SumFunctionOnSet(f, m \ {p}) = f[y] + SumFunctionOnSet(f, rest)
  BY <1>6, <1>8
<1>10. SumFunctionOnSet(f, m \ {y}) = f[p] + SumFunctionOnSet(f, rest)
  BY <1>6, <1>8
<1>11. SumFunctionOnSet(f, rest) \in Nat /\ f[p] \in Nat /\ f[y] \in Nat
  <2>1. IsFiniteSet(rest) /\ rest \subseteq S
    BY <1>3, FS_Subset
  <2> HIDE DEF rest
  <2>. QED BY <1>3, <1>4, <2>1, SumNat
<1>. QED BY <1>2, <1>5, <1>9, <1>10, <1>11

LEMMA SumWith ==
    ASSUME NEW S, IsFiniteSet(S), NEW f, NEW x, x \notin S, \A y \in S \cup {x} : f[y] \in Nat
    PROVE  SumFunctionOnSet(f, S \cup {x}) = f[x] + SumFunctionOnSet(f, S)
<1>1. IsFiniteSet(S \cup {x}) /\ (S \cup {x}) \ {x} = S
  BY FS_AddElement
<1>2. SumFunctionOnSet(f, S \cup {x}) = f[x] + SumFunctionOnSet(f, (S \cup {x}) \ {x})
  BY <1>1, SumElement
<1>. QED BY <1>1, <1>2

\* One term more by one makes the sum more by one.
LEMMA SumIncrement ==
    ASSUME NEW S, IsFiniteSet(S), NEW f, NEW g, NEW x, \A y \in S : f[y] \in Nat,
           \A y \in S \ {x} : g[y] = f[y], x \in S => g[x] = f[x] + 1
    PROVE  SumFunctionOnSet(g, S) = IF x \in S THEN SumFunctionOnSet(f, S) + 1
                                               ELSE SumFunctionOnSet(f, S)
<1>1. CASE x \notin S
  <2>1. \A y \in S : f[y] = g[y]
    BY <1>1
  <2>. QED BY <1>1, <2>1, SumSame
<1>2. CASE x \in S
  <2>1. IsFiniteSet(S \ {x})
    BY FS_RemoveElement
  <2>2. SumFunctionOnSet(f, S \ {x}) = SumFunctionOnSet(g, S \ {x})
    BY <2>1, SumSame
  <2>3. SumFunctionOnSet(f, S) = f[x] + SumFunctionOnSet(f, S \ {x})
    BY <1>2, SumElement
  <2>4. SumFunctionOnSet(g, S) = g[x] + SumFunctionOnSet(g, S \ {x})
    <3>1. \A y \in S : g[y] \in Nat
      BY <1>2
    <3>. QED BY <1>2, <3>1, SumElement
  <2>5. SumFunctionOnSet(f, S \ {x}) \in Nat
    BY <2>1, SumNat
  <2>. QED BY <1>2, <2>2, <2>3, <2>4, <2>5
<1>. QED BY <1>1, <1>2

\* Sums over parts that do not meet add up.
LEMMA SumUnion ==
    ASSUME NEW S, IsFiniteSet(S), NEW T, IsFiniteSet(T), S \cap T = {},
           NEW f, \A x \in S \cup T : f[x] \in Nat
    PROVE  SumFunctionOnSet(f, S \cup T) = SumFunctionOnSet(f, S) + SumFunctionOnSet(f, T)
<1> DEFINE Q == {s \in SUBSET T :
                    SumFunctionOnSet(f, S \cup s) # SumFunctionOnSet(f, S) + SumFunctionOnSet(f, s)}
<1> SUFFICES ASSUME Q # {} PROVE FALSE
  <2>1. T \in SUBSET T
    OBVIOUS
  <2>. QED BY <2>1
<1>1. PICK m \in Q : \A s \in Q : ~(s \subseteq m /\ s # m)
  <2>. HIDE DEF Q
  <2>1. Q \in SUBSET (SUBSET T)
    BY DEF Q
  <2>. QED BY <2>1, MinimalSubset
<1>2. m \in SUBSET T /\ IsFiniteSet(m)
  BY FS_Subset
<1>3. m # {}
  <2>1. ASSUME m = {} PROVE FALSE
    <3>1. S \cup m = S /\ SumFunctionOnSet(f, m) = 0
      BY <2>1, SumEmpty
    <3>2. SumFunctionOnSet(f, S) \in Nat
      BY SumNat
    <3>3. SumFunctionOnSet(f, S \cup m) = SumFunctionOnSet(f, S)
      BY <3>1
    <3>4. SumFunctionOnSet(f, S \cup m) = SumFunctionOnSet(f, S) + SumFunctionOnSet(f, m)
      BY <3>1, <3>2, <3>3
    <3>. QED BY <1>1, <3>4
  <2>. QED BY <2>1
<1>4. PICK x : x \in m
  BY <1>3
<1> DEFINE s == m \ {x}
<1>5. /\ s \in SUBSET T /\ s \subseteq m /\ s # m /\ IsFiniteSet(s) /\ x \notin S /\ x \notin s
      /\ s \cup {x} = m /\ (S \cup s) \cup {x} = S \cup m /\ x \in T
  BY <1>2, <1>4, FS_RemoveElement
<1> HIDE DEF s
<1>6. SumFunctionOnSet(f, S \cup s) = SumFunctionOnSet(f, S) + SumFunctionOnSet(f, s)
  BY <1>1, <1>5
<1> HIDE DEF Q
<1>7. SumFunctionOnSet(f, m) = f[x] + SumFunctionOnSet(f, s)
  <2>1. \A y \in s \cup {x} : f[y] \in Nat
    BY <1>5
  <2>2. SumFunctionOnSet(f, s \cup {x}) = f[x] + SumFunctionOnSet(f, s)
    BY <1>5, <2>1, SumWith
  <2>. QED BY <1>5, <2>2
<1>8. SumFunctionOnSet(f, S \cup m) = f[x] + SumFunctionOnSet(f, S \cup s)
  <2>1. IsFiniteSet(S \cup s) /\ x \notin S \cup s
    BY <1>5, FS_Union
  <2>2. \A y \in (S \cup s) \cup {x} : f[y] \in Nat
    BY <1>5
  <2>3. SumFunctionOnSet(f, (S \cup s) \cup {x}) = f[x] + SumFunctionOnSet(f, S \cup s)
    BY <2>1, <2>2, SumWith
  <2>. QED BY <1>5, <2>3
<1>9. /\ SumFunctionOnSet(f, S) \in Nat /\ SumFunctionOnSet(f, s) \in Nat /\ f[x] \in Nat
  BY <1>5, SumNat
<1>. QED BY <1>1, <1>6, <1>7, <1>8, <1>9 DEF Q

LEMMA SumSubset ==
    ASSUME NEW T, IsFiniteSet(T), NEW S \in SUBSET T, NEW f, \A x \in T : f[x] \in Nat
    PROVE  SumFunctionOnSet(f, S) <= SumFunctionOnSet(f, T)
<1>1. /\ IsFiniteSet(S) /\ IsFiniteSet(T \ S) /\ S \cap (T \ S) = {} /\ S \cup (T \ S) = T
  BY FS_Subset
<1>2. SumFunctionOnSet(f, S \cup (T \ S)) = SumFunctionOnSet(f, S) + SumFunctionOnSet(f, T \ S)
  BY <1>1, SumUnion
<1>3. SumFunctionOnSet(f, S) \in Nat /\ SumFunctionOnSet(f, T \ S) \in Nat
  BY <1>1, SumNat
<1>4. SumFunctionOnSet(f, S \cup (T \ S)) = SumFunctionOnSet(f, T)
  BY <1>1
<1>. QED BY <1>2, <1>3, <1>4

LEMMA SumZero ==
    ASSUME NEW S, IsFiniteSet(S), NEW f, \A x \in S : f[x] = 0
    PROVE  SumFunctionOnSet(f, S) = 0
<1> DEFINE Q == {s \in SUBSET S : SumFunctionOnSet(f, s) # 0}
<1> SUFFICES ASSUME Q # {} PROVE FALSE
  <2>1. S \in SUBSET S
    OBVIOUS
  <2>. QED BY <2>1
<1>1. PICK m \in Q : \A s \in Q : ~(s \subseteq m /\ s # m)
  <2>. HIDE DEF Q
  <2>1. Q \in SUBSET (SUBSET S)
    BY DEF Q
  <2>. QED BY <2>1, MinimalSubset
<1>2. m \in SUBSET S /\ SumFunctionOnSet(f, m) # 0 /\ IsFiniteSet(m)
  BY <1>1, FS_Subset
<1>3. m # {}
  BY <1>2, SumEmpty
<1>4. Pick(m) \in S /\ m \ {Pick(m)} \in SUBSET S /\ m \ {Pick(m)} \subseteq m /\ m \ {Pick(m)} # m
  BY <1>2, <1>3, PickIn
<1>5. SumFunctionOnSet(f, m \ {Pick(m)}) = 0
  BY <1>1, <1>4
<1>6. SumFunctionOnSet(f, m) = f[Pick(m)] + SumFunctionOnSet(f, m \ {Pick(m)})
  BY <1>2, <1>3, SumPick
<1>. QED BY <1>2, <1>4, <1>5, <1>6

\* A sum over parts that do not meet is the sum of the sums over each.
LEMMA SumParts ==
    ASSUME NEW D, IsFiniteSet(D), NEW X, IsFiniteSet(X), NEW part \in [D -> SUBSET X],
           \A c, d \in D : c # d => part[c] \cap part[d] = {},
           NEW f, \A x \in X : f[x] \in Nat,
           NEW g, \A d \in D : g[d] = SumFunctionOnSet(f, part[d])
    PROVE  SumFunctionOnSet(g, D) = SumFunctionOnSet(f, UNION {part[d] : d \in D})
<1> DEFINE Merged(E) == UNION {part[d] : d \in E}
           Q == {E \in SUBSET D : SumFunctionOnSet(g, E) # SumFunctionOnSet(f, Merged(E))}
<1> SUFFICES ASSUME Q # {} PROVE FALSE
  <2>1. D \in SUBSET D
    OBVIOUS
  <2>. QED BY <2>1
<1>1. PICK m \in Q : \A s \in Q : ~(s \subseteq m /\ s # m)
  <2>. HIDE DEF Q
  <2>1. Q \in SUBSET (SUBSET D)
    BY DEF Q
  <2>. QED BY <2>1, MinimalSubset
<1>2. m \in SUBSET D /\ IsFiniteSet(m)
  BY FS_Subset
<1>3. m # {}
  <2>1. ASSUME m = {} PROVE FALSE
    <3>1. Merged(m) = {}
      BY <2>1
    <3>2. SumFunctionOnSet(f, Merged(m)) = 0 /\ SumFunctionOnSet(g, m) = 0
      BY <2>1, <3>1, SumEmpty
    <3>. QED BY <1>1, <3>2
  <2>. QED BY <2>1
<1>4. PICK d : d \in m
  BY <1>3
<1> DEFINE s == m \ {d}
<1>5. /\ s \in SUBSET D /\ s \subseteq m /\ s # m /\ IsFiniteSet(s) /\ d \notin s /\ d \in D
      /\ s \cup {d} = m
  BY <1>2, <1>4, FS_RemoveElement
<1> HIDE DEF s
<1>6. /\ Merged(s) \cup part[d] = Merged(m) /\ Merged(s) \subseteq X /\ part[d] \subseteq X
      /\ Merged(s) \cap part[d] = {}
  BY <1>5
<1>7. SumFunctionOnSet(g, s) = SumFunctionOnSet(f, Merged(s))
  BY <1>1, <1>5
<1>8. SumFunctionOnSet(g, m) # SumFunctionOnSet(f, Merged(m))
  BY <1>1
<1> HIDE DEF Merged, Q
<1>9. IsFiniteSet(Merged(s)) /\ IsFiniteSet(part[d])
  BY <1>6, FS_Subset
<1>10. SumFunctionOnSet(f, Merged(m)) = SumFunctionOnSet(f, Merged(s)) + SumFunctionOnSet(f, part[d])
  <2>1. \A x \in Merged(s) \cup part[d] : f[x] \in Nat
    BY <1>6
  <2>2. SumFunctionOnSet(f, Merged(s) \cup part[d])
            = SumFunctionOnSet(f, Merged(s)) + SumFunctionOnSet(f, part[d])
    BY <1>6, <1>9, <2>1, SumUnion
  <2>. QED BY <1>6, <2>2
<1>11. /\ \A c \in s \cup {d} : g[c] \in Nat
       /\ SumFunctionOnSet(f, Merged(s)) \in Nat /\ g[d] = SumFunctionOnSet(f, part[d])
  <2>1. ASSUME NEW c \in s \cup {d} PROVE g[c] \in Nat
    <3>1. part[c] \in SUBSET X /\ c \in D
      BY <1>5
    <3>2. IsFiniteSet(part[c]) /\ \A x \in part[c] : f[x] \in Nat
      BY <3>1, FS_Subset
    <3>. QED BY <3>1, <3>2, SumNat
  <2>2. SumFunctionOnSet(f, Merged(s)) \in Nat
    BY <1>6, <1>9, SumNat
  <2>. QED BY <1>5, <2>1, <2>2
<1>12. SumFunctionOnSet(g, m) = g[d] + SumFunctionOnSet(g, s)
  <2>1. SumFunctionOnSet(g, s \cup {d}) = g[d] + SumFunctionOnSet(g, s)
    BY <1>5, <1>11, SumWith
  <2>. QED BY <1>5, <2>1
<1>13. g[d] \in Nat
  BY <1>11
<1>. QED BY <1>7, <1>8, <1>10, <1>11, <1>12, <1>13
-----------------------------------------------------------------------------
(* Constants, times and days *)

LEMMA ConstantTypes ==
    /\ NoKey \notin Keys /\ NoWriter \notin Slots
    /\ IsFiniteSet(Slots) /\ IsFiniteSet(Keys)
    /\ Limit \in Nat /\ Limit > 0 /\ TicksPerDay \in Nat \ {0}
    /\ Window \in Nat /\ Retention \in Nat /\ MaxNow \in Nat /\ MaxServed \in Nat
    /\ Spans \subseteq Nat
BY UsageAssumption DEF UsageAssumption

LEMMA DayMonotone ==
    ASSUME NEW t \in Nat, NEW u \in Nat, t <= u
    PROVE  Day(t) \in Nat /\ Day(t) <= Day(u)
<1>1. ASSUME NEW n \in Nat \ {0} PROVE t \div n \in Nat /\ t \div n <= u \div n
  <2>1. t \div n \in Nat
    BY SMT
  <2>2. t \div n <= u \div n
    BY SMT
  <2>. QED BY <2>1, <2>2
<1>. QED BY <1>1, ConstantTypes DEF Day

LEMMA DayType == \A t \in Times : t \in Nat /\ Day(t) \in Days
<1> SUFFICES ASSUME NEW t \in Times PROVE t \in Nat /\ Day(t) \in Days
  OBVIOUS
<1>1. t \in Nat /\ MaxNow \in Nat /\ t <= MaxNow
  BY ConstantTypes DEF Times
<1>2. Day(t) \in Nat /\ Day(t) <= Day(MaxNow) /\ Day(MaxNow) \in Nat
  BY <1>1, DayMonotone
<1>. QED BY <1>1, <1>2 DEF Days

LEMMA GroupsFinite == IsFiniteSet(Groups)
<1>1. IsFiniteSet(Keys \cup {NoKey})
  BY ConstantTypes, FS_AddElement
<1>. QED BY <1>1 DEF Groups

LEMMA DaysFinite == IsFiniteSet(Days)
<1>1. Day(MaxNow) \in Nat
  BY ConstantTypes, DayMonotone
<1>. QED BY <1>1, FS_Interval DEF Days

LEMMA LogRowsFinite == IsFiniteSet(LogRows)
<1> DEFINE Pairs == (Times \X Groups) \X BOOLEAN
           flat == [p \in Pairs |-> <<p[1][1], p[1][2], p[2]>>]
<1>1. IsFiniteSet(Times)
  BY ConstantTypes, FS_Interval DEF Times
<1>2. IsFiniteSet(BOOLEAN)
  <2>1. IsFiniteSet({TRUE} \cup {FALSE})
    BY FS_Singleton, FS_AddElement
  <2>2. BOOLEAN = {TRUE} \cup {FALSE}
    OBVIOUS
  <2>. QED BY <2>1, <2>2
<1>3. IsFiniteSet(Times \X Groups)
  BY <1>1, GroupsFinite, FS_Product
<1>4. IsFiniteSet(Pairs)
  BY <1>2, <1>3, FS_Product
<1>5. flat \in Surjection(Pairs, LogRows)
  <2>1. flat \in [Pairs -> LogRows]
    BY DEF LogRows
  <2>2. ASSUME NEW row \in LogRows PROVE \E p \in Pairs : flat[p] = row
    <3>1. PICK t \in Times, g \in Groups, o \in BOOLEAN : row = <<t, g, o>>
      BY DEF LogRows
    <3>2. <<<<t, g>>, o>> \in Pairs /\ flat[<<<<t, g>>, o>>] = row
      BY <3>1
    <3>. QED BY <3>2
  <2> HIDE DEF flat, Pairs
  <2>. QED BY <2>1, <2>2 DEF Surjection
<1>. QED BY <1>4, <1>5, FS_Surjection

\* The rows of some times, groups and outcomes.
RowsOf(times, groups, outcomes) == times \X groups \X outcomes

LEMMA RowsOfFinite ==
    ASSUME NEW times \in SUBSET Times, NEW groups \in SUBSET Groups,
           NEW outcomes \in SUBSET BOOLEAN
    PROVE  /\ RowsOf(times, groups, outcomes) \subseteq LogRows
           /\ IsFiniteSet(RowsOf(times, groups, outcomes))
<1>1. RowsOf(times, groups, outcomes) \subseteq LogRows
  BY DEF RowsOf, LogRows
<1>. QED BY <1>1, LogRowsFinite, FS_Subset

LEMMA RowCountNat ==
    ASSUME NEW log \in [LogRows -> Nat], NEW times \in SUBSET Times,
           NEW groups \in SUBSET Groups, NEW outcomes \in SUBSET BOOLEAN
    PROVE  RowCount(log, times, groups, outcomes) \in Nat
<1>1. \A row \in RowsOf(times, groups, outcomes) : log[row] \in Nat
  BY RowsOfFinite
<1>2. SumFunctionOnSet(log, RowsOf(times, groups, outcomes)) \in Nat
  BY <1>1, RowsOfFinite, SumNat
<1>. QED BY <1>2 DEF RowCount, RowsOf

-----------------------------------------------------------------------------
(* Type correctness *)

LEMMA InitType == Init => TypeOK
<1> SUFFICES ASSUME Init PROVE TypeOK
  OBVIOUS
<1>1. 0 \in Times /\ 0 \in 0..MaxServed
  BY ConstantTypes DEF Times
<1>2. Nothing \in Buckets
  BY DEF Nothing, Buckets
<1>3. NoEntry \in [at : Times, error : BOOLEAN, total : Nat, bucket : Buckets]
  BY <1>1, <1>2 DEF NoEntry
<1>4. now \in Times /\ served \in 0..MaxServed /\ writer \in Slots \cup {NoWriter}
  BY <1>1 DEF Init
<1>5. /\ status \in [Keys -> {"absent", "enabled", "disabled", "deleted"}]
      /\ totals \in [Keys -> Nat]
      /\ {logs, recorded} \subseteq [LogRows -> Nat]
      /\ rebuilt \in [Days -> {"never", "whole", "part"}]
  BY DEF Init
<1>6. rollup \in [Days \X Groups -> Buckets]
  BY <1>2 DEF Init
<1>7. /\ pc \in [Slots -> {"idle", "serving", "recording"}]
      /\ key \in [Slots -> Groups]
      /\ entry \in [Slots -> [at : Times, error : BOOLEAN, total : Nat, bucket : Buckets]]
  BY <1>3 DEF Init, Groups
<1>8. backfill \subseteq [day : Days, group : Groups, requests : Nat] /\ IsFiniteSet(backfill)
  BY FS_EmptySet DEF Init
<1>. QED BY <1>4, <1>5, <1>6, <1>7, <1>8 DEF TypeOK

LEMMA EndType ==
    ASSUME TypeOK, NEW s \in Slots, EndOf(s)
    PROVE  /\ pc' \in [Slots -> {"idle", "serving", "recording"}]
           /\ key' \in [Slots -> Groups]
           /\ entry' \in [Slots -> [at : Times, error : BOOLEAN, total : Nat, bucket : Buckets]]
<1>1. NoEntry \in [at : Times, error : BOOLEAN, total : Nat, bucket : Buckets]
  BY ConstantTypes DEF NoEntry, Nothing, Buckets, Times
<1>2. NoKey \in Groups
  BY DEF Groups
<1>. QED BY <1>1, <1>2 DEF EndOf, TypeOK

\* What a backfill inserts for a bucket.
LEMMA RebuiltType ==
    ASSUME TypeOK, NEW b
    PROVE  Rebuilt(b) \in Buckets
<1> DEFINE rows == {row \in backfill : row.day = b[1] /\ row.group = b[2]}
           f == [row \in rows |-> row.requests]
<1>1. IsFiniteSet(rows)
  BY FS_Subset DEF TypeOK
<1>2. DOMAIN f = rows /\ \A row \in rows : f[row] \in Nat
  BY DEF TypeOK
<1>3. Rebuilt(b) = [requests |-> SumFunctionOnSet(f, DOMAIN f), errors |-> 0]
  BY DEF Rebuilt, SumFunction
<1> HIDE DEF f, rows
<1>4. SumFunctionOnSet(f, DOMAIN f) \in Nat
  BY <1>1, <1>2, SumNat
<1>. QED BY <1>3, <1>4 DEF Buckets

\* A backfill reads a finite set of rows.
LEMMA BackfillType ==
    ASSUME TypeOK, NEW span \in Spans
    PROVE  /\ BackfillRows(span) \subseteq [day : Days, group : Groups, requests : Nat]
           /\ IsFiniteSet(BackfillRows(span))
<1> DEFINE since == {t \in Times : t >= now - span * TicksPerDay}
           Row(d, g) == [day |-> d, group |-> g,
                         requests |-> RowCount(logs, since \cap DayTimes(d), {g}, BOOLEAN)]
           f == [p \in Days \X Groups |-> Row(p[1], p[2])]
<1>1. BackfillRows(span) = {Row(d, g) : d \in Days, g \in Groups}
  BY DEF BackfillRows
<1>2. ASSUME NEW d \in Days, NEW g \in Groups
      PROVE  Row(d, g) \in [day : Days, group : Groups, requests : Nat]
  <2>1. logs \in [LogRows -> Nat] /\ since \cap DayTimes(d) \in SUBSET Times
        /\ {g} \in SUBSET Groups /\ BOOLEAN \in SUBSET BOOLEAN
    BY DEF TypeOK
  <2>2. RowCount(logs, since \cap DayTimes(d), {g}, BOOLEAN) \in Nat
    <3>. HIDE DEF since
    <3>. QED BY <2>1, RowCountNat
  <2>. QED BY <2>2
<1> HIDE DEF Row
<1>3. f \in Surjection(Days \X Groups, BackfillRows(span))
  <2>1. f \in [Days \X Groups -> BackfillRows(span)]
    BY <1>1
  <2>2. ASSUME NEW row \in BackfillRows(span) PROVE \E p \in Days \X Groups : f[p] = row
    <3>1. PICK d \in Days, g \in Groups : row = Row(d, g)
      BY <1>1
    <3>2. <<d, g>> \in Days \X Groups /\ f[<<d, g>>] = row
      BY <3>1
    <3>. QED BY <3>2
  <2> HIDE DEF f
  <2>. QED BY <2>1, <2>2 DEF Surjection
<1>4. IsFiniteSet(Days \X Groups)
  BY DaysFinite, GroupsFinite, FS_Product
<1>5. IsFiniteSet(BackfillRows(span))
  BY <1>3, <1>4, FS_Surjection
<1>. QED BY <1>1, <1>2, <1>5

LEMMA StepType == TypeOK /\ [Next]_vars => TypeOK'
<1> SUFFICES ASSUME TypeOK, [Next]_vars PROVE TypeOK'
  OBVIOUS
<1> USE DEF slotVars
<1>1. ASSUME NEW k \in Keys, CreateKey(k) \/ DisableKey(k) \/ EnableKey(k) \/ DeleteKey(k)
      PROVE  TypeOK'
  BY <1>1 DEF TypeOK, CreateKey, DisableKey, EnableKey, DeleteKey, SetStatus
<1>2. ASSUME NEW s \in Slots, Authenticate(s) PROVE TypeOK'
  <2>1. PICK g \in Groups : key' = [key EXCEPT ![s] = g]
    BY <1>2 DEF Authenticate
  <2>2. served' \in 0..MaxServed
    BY <1>2, ConstantTypes DEF Authenticate, TypeOK
  <2>. QED BY <1>2, <2>1, <2>2 DEF Authenticate, TypeOK
<1>3. ASSUME NEW s \in Slots, NEW error \in BOOLEAN, BeginRecord(s, error) PROVE TypeOK'
  <2> DEFINE new == [at |-> now, error |-> error,
                     total |-> IF HasRow(key[s]) THEN totals[key[s]] ELSE 0,
                     bucket |-> rollup[<<Day(now), key[s]>>]]
  <2>1. rollup[<<Day(now), key[s]>>] \in Buckets
    BY DayType DEF TypeOK
  <2>2. (IF HasRow(key[s]) THEN totals[key[s]] ELSE 0) \in Nat
    BY DEF HasRow, TypeOK
  <2>3. new \in [at : Times, error : BOOLEAN, total : Nat, bucket : Buckets]
    BY <2>1, <2>2 DEF TypeOK
  <2>4. entry' = [entry EXCEPT ![s] = new]
    BY <1>3 DEF BeginRecord
  <2> HIDE DEF new
  <2>5. entry' \in [Slots -> [at : Times, error : BOOLEAN, total : Nat, bucket : Buckets]]
    BY <2>3, <2>4 DEF TypeOK
  <2>. QED BY <1>3, <2>5 DEF BeginRecord, TypeOK
<1>4. ASSUME NEW s \in Slots, CommitRecord(s) PROVE TypeOK'
  <2> DEFINE e == entry[s]
             g == key[s]
  <2>1. /\ e \in [at : Times, error : BOOLEAN, total : Nat, bucket : Buckets] /\ g \in Groups
        /\ <<e.at, g, e.error>> \in LogRows /\ <<Day(e.at), g>> \in Days \X Groups
    BY DayType DEF TypeOK, LogRows
  <2>2. Applied(e.bucket, e.error) \in Buckets
    <3>1. e.bucket.requests \in Nat /\ e.bucket.errors \in Nat
      BY <2>1 DEF Buckets
    <3>. QED BY <3>1 DEF Applied, Buckets
  <2>3. /\ logs' = [logs EXCEPT ![<<e.at, g, e.error>>] = @ + 1]
        /\ recorded' = [recorded EXCEPT ![<<e.at, g, e.error>>] = @ + 1]
        /\ rollup' = [rollup EXCEPT ![<<Day(e.at), g>>] = Applied(e.bucket, e.error)]
        /\ totals' = IF HasRow(g) THEN [totals EXCEPT ![g] = e.total + 1] ELSE totals
        /\ writer' = NoWriter /\ EndOf(s)
        /\ UNCHANGED <<now, status, backfill, rebuilt, served>>
    BY <1>4 DEF CommitRecord
  <2> HIDE DEF e, g
  <2>4. {logs', recorded'} \subseteq [LogRows -> Nat]
    BY <2>1, <2>3 DEF TypeOK
  <2>5. rollup' \in [Days \X Groups -> Buckets]
    BY <2>1, <2>2, <2>3 DEF TypeOK
  <2>6. totals' \in [Keys -> Nat]
    <3>1. e.total + 1 \in Nat
      BY <2>1
    <3>. QED BY <2>3, <3>1 DEF TypeOK
  <2>. QED BY <2>3, <2>4, <2>5, <2>6, EndType DEF TypeOK
<1>5. ASSUME NEW s \in Slots, Cancel(s) PROVE TypeOK'
  BY <1>5, EndType DEF Cancel, TypeOK
<1>6. CASE Tick
  <2>1. now' \in Times
    BY <1>6, ConstantTypes DEF Tick, Times, TypeOK
  <2>. QED BY <1>6, <2>1 DEF Tick, TypeOK
<1>7. CASE Restart
  <2>1. {logs', recorded'} \subseteq [LogRows -> Nat]
    BY <1>7 DEF Restart, TypeOK
  <2>2. NoEntry \in [at : Times, error : BOOLEAN, total : Nat, bucket : Buckets]
    BY ConstantTypes DEF NoEntry, Nothing, Buckets, Times
  <2>3. /\ pc' \in [Slots -> {"idle", "serving", "recording"}]
        /\ key' \in [Slots -> Groups]
        /\ entry' \in [Slots -> [at : Times, error : BOOLEAN, total : Nat, bucket : Buckets]]
    BY <1>7, <2>2 DEF Restart, Groups
  <2>4. backfill' \subseteq [day : Days, group : Groups, requests : Nat] /\ IsFiniteSet(backfill')
    BY <1>7, FS_EmptySet DEF Restart
  <2>. QED BY <1>7, <2>1, <2>3, <2>4 DEF Restart, TypeOK
<1>8. CASE ReadBackfill
  <2>1. PICK span \in Spans : backfill' = {row \in BackfillRows(span) : row.requests > 0}
    BY <1>8 DEF ReadBackfill
  <2>2. backfill' \subseteq BackfillRows(span)
    BY <2>1
  <2>3. backfill' \subseteq [day : Days, group : Groups, requests : Nat] /\ IsFiniteSet(backfill')
    BY <2>2, BackfillType, FS_Subset
  <2>. QED BY <1>8, <2>3 DEF ReadBackfill, TypeOK
<1>9. CASE WriteBackfill
  <2>1. rollup' \in [Days \X Groups -> Buckets]
    BY <1>9, RebuiltType DEF WriteBackfill, TypeOK
  <2>2. rebuilt' \in [Days -> {"never", "whole", "part"}]
    BY <1>9 DEF WriteBackfill, TypeOK
  <2>3. backfill' \subseteq [day : Days, group : Groups, requests : Nat] /\ IsFiniteSet(backfill')
    BY <1>9, FS_EmptySet DEF WriteBackfill
  <2>. QED BY <1>9, <2>1, <2>2, <2>3 DEF WriteBackfill, TypeOK
<1>10. CASE UNCHANGED vars
  BY <1>10 DEF vars, TypeOK
<1>. QED BY <1>1, <1>2, <1>3, <1>4, <1>5, <1>6, <1>7, <1>8, <1>9, <1>10 DEF Next

\* The variables of the accounting keep their types.
THEOREM TypeCorrect == Spec => []TypeOK
BY InitType, StepType, PTL DEF Spec

-----------------------------------------------------------------------------
(* Counting rows *)

\* One row more in the log is one more in each count it belongs to.
LEMMA CountIncrement ==
    ASSUME NEW log \in [LogRows -> Nat], NEW next, NEW row \in LogRows,
           \A y \in LogRows \ {row} : next[y] = log[y], next[row] = log[row] + 1,
           NEW times \in SUBSET Times, NEW groups \in SUBSET Groups, NEW outcomes \in SUBSET BOOLEAN
    PROVE  RowCount(next, times, groups, outcomes) =
               IF row \in RowsOf(times, groups, outcomes)
               THEN RowCount(log, times, groups, outcomes) + 1
               ELSE RowCount(log, times, groups, outcomes)
<1> DEFINE S == RowsOf(times, groups, outcomes)
<1>1. IsFiniteSet(S) /\ S \subseteq LogRows
  BY RowsOfFinite
<1>2. RowCount(next, times, groups, outcomes) = SumFunctionOnSet(next, S)
      /\ RowCount(log, times, groups, outcomes) = SumFunctionOnSet(log, S)
  BY DEF RowCount, RowsOf
<1> HIDE DEF S
<1>3. /\ IsFiniteSet(S) /\ \A y \in S : log[y] \in Nat
      /\ \A y \in S \ {row} : next[y] = log[y]
      /\ row \in S => next[row] = log[row] + 1
  BY <1>1
<1>4. SumFunctionOnSet(next, S) = IF row \in S THEN SumFunctionOnSet(log, S) + 1
                                              ELSE SumFunctionOnSet(log, S)
  BY <1>3, SumIncrement
<1>. QED BY <1>2, <1>4 DEF S

LEMMA CountSame ==
    ASSUME NEW log, NEW other, NEW times \in SUBSET Times, NEW groups \in SUBSET Groups,
           NEW outcomes \in SUBSET BOOLEAN,
           \A row \in RowsOf(times, groups, outcomes) : log[row] = other[row]
    PROVE  RowCount(log, times, groups, outcomes) = RowCount(other, times, groups, outcomes)
<1>1. IsFiniteSet(RowsOf(times, groups, outcomes))
  BY RowsOfFinite
<1>2. SumFunctionOnSet(log, RowsOf(times, groups, outcomes))
          = SumFunctionOnSet(other, RowsOf(times, groups, outcomes))
  BY <1>1, SumSame
<1>. QED BY <1>2 DEF RowCount, RowsOf

LEMMA CountSubset ==
    ASSUME NEW log \in [LogRows -> Nat], NEW times \in SUBSET Times, NEW fewer \in SUBSET times,
           NEW groups \in SUBSET Groups, NEW outcomes \in SUBSET BOOLEAN
    PROVE  RowCount(log, fewer, groups, outcomes) <= RowCount(log, times, groups, outcomes)
<1>1. IsFiniteSet(RowsOf(times, groups, outcomes)) /\ RowsOf(times, groups, outcomes) \subseteq LogRows
  BY RowsOfFinite
<1>2. RowsOf(fewer, groups, outcomes) \subseteq RowsOf(times, groups, outcomes)
  BY DEF RowsOf
<1>3. SumFunctionOnSet(log, RowsOf(fewer, groups, outcomes))
          <= SumFunctionOnSet(log, RowsOf(times, groups, outcomes))
  BY <1>1, <1>2, SumSubset
<1>. QED BY <1>3 DEF RowCount, RowsOf

\* Without the times that have no rows the count is the same.
LEMMA CountRestrict ==
    ASSUME NEW log \in [LogRows -> Nat], NEW times \in SUBSET Times, NEW fewer \in SUBSET times,
           NEW groups \in SUBSET Groups, NEW outcomes \in SUBSET BOOLEAN,
           \A row \in LogRows : row[1] \in times \ fewer => log[row] = 0
    PROVE  RowCount(log, fewer, groups, outcomes) = RowCount(log, times, groups, outcomes)
<1> DEFINE S == RowsOf(fewer, groups, outcomes)
           Z == RowsOf(times \ fewer, groups, outcomes)
           W == RowsOf(times, groups, outcomes)
<1>1. /\ IsFiniteSet(S) /\ IsFiniteSet(Z) /\ S \subseteq LogRows /\ Z \subseteq LogRows
  BY RowsOfFinite
<1>2. S \cap Z = {} /\ S \cup Z = W /\ \A row \in Z : row[1] \in times \ fewer
  BY DEF RowsOf
<1>3. /\ RowCount(log, fewer, groups, outcomes) = SumFunctionOnSet(log, S)
      /\ RowCount(log, times, groups, outcomes) = SumFunctionOnSet(log, W)
  BY DEF RowCount, RowsOf
<1> HIDE DEF S, Z, W
<1>4. SumFunctionOnSet(log, Z) = 0
  BY <1>1, <1>2, SumZero
<1>5. SumFunctionOnSet(log, S \cup Z) = SumFunctionOnSet(log, S) + SumFunctionOnSet(log, Z)
  BY <1>1, <1>2, SumUnion
<1>6. SumFunctionOnSet(log, S) \in Nat
  BY <1>1, SumNat
<1>7. SumFunctionOnSet(log, S \cup Z) = SumFunctionOnSet(log, W)
  BY <1>2
<1>. QED BY <1>3, <1>4, <1>5, <1>6, <1>7

\* The times of some days.
TimesOfDays(days) == {t \in Times : Day(t) \in days}

\* The rows of some days and groups, bucket by bucket.
LEMMA BucketsAddUp ==
    ASSUME NEW log \in [LogRows -> Nat], NEW days \in SUBSET Days, NEW groups \in SUBSET Groups,
           NEW outcomes \in SUBSET BOOLEAN, NEW f,
           \A d \in days, g \in groups : f[<<d, g>>] = RowCount(log, DayTimes(d), {g}, outcomes)
    PROVE  SumFunctionOnSet(f, days \X groups)
               = RowCount(log, TimesOfDays(days), groups, outcomes)
<1> DEFINE D == days \X groups
           part == [b \in D |-> RowsOf(DayTimes(b[1]), {b[2]}, outcomes)]
           all == RowsOf(TimesOfDays(days), groups, outcomes)
<1>1. IsFiniteSet(D)
  BY DaysFinite, GroupsFinite, FS_Subset, FS_Product
<1>2. ASSUME NEW b \in D
      PROVE  /\ part[b] \in SUBSET LogRows
             /\ f[b] = SumFunctionOnSet(log, part[b])
  <2>1. PICK d \in days, g \in groups : b = <<d, g>>
    OBVIOUS
  <2>2. DayTimes(d) \in SUBSET Times /\ {g} \in SUBSET Groups
    BY DEF DayTimes
  <2>3. part[b] = RowsOf(DayTimes(d), {g}, outcomes)
    BY <2>1
  <2>4. part[b] \subseteq LogRows
    BY <2>2, <2>3, RowsOfFinite
  <2>5. f[b] = RowCount(log, DayTimes(d), {g}, outcomes)
    BY <2>1
  <2>. QED BY <2>3, <2>4, <2>5 DEF RowCount, RowsOf
<1>3. part \in [D -> SUBSET LogRows]
  BY <1>2
<1>4. ASSUME NEW b \in D, NEW c \in D, b # c PROVE part[b] \cap part[c] = {}
  <2>1. PICK d \in days, g \in groups : b = <<d, g>>
    OBVIOUS
  <2>2. PICK e \in days, h \in groups : c = <<e, h>>
    OBVIOUS
  <2>3. ASSUME NEW row \in part[b] \cap part[c] PROVE FALSE
    <3>1. row \in RowsOf(DayTimes(d), {g}, outcomes) /\ row \in RowsOf(DayTimes(e), {h}, outcomes)
      BY <2>1, <2>2, <2>3
    <3>2. Day(row[1]) = d /\ Day(row[1]) = e /\ row[2] = g /\ row[2] = h
      BY <3>1 DEF RowsOf, DayTimes
    <3>. QED BY <1>4, <2>1, <2>2, <3>2
  <2>. QED BY <2>3
<1>5. UNION {part[b] : b \in D} = all
  <2>1. ASSUME NEW b \in D, NEW row \in part[b] PROVE row \in all
    <3>1. PICK d \in days, g \in groups : b = <<d, g>>
      OBVIOUS
    <3>2. row \in RowsOf(DayTimes(d), {g}, outcomes)
      BY <2>1, <3>1
    <3>. QED BY <3>1, <3>2 DEF RowsOf, DayTimes, TimesOfDays
  <2>2. ASSUME NEW row \in all PROVE \E b \in D : row \in part[b]
    <3>1. PICK t \in TimesOfDays(days), g \in groups, o \in outcomes : row = <<t, g, o>>
      BY <2>2 DEF RowsOf
    <3>2. <<Day(t), g>> \in D /\ row \in RowsOf(DayTimes(Day(t)), {g}, outcomes)
      BY <3>1 DEF RowsOf, DayTimes, TimesOfDays
    <3>3. part[<<Day(t), g>>] = RowsOf(DayTimes(Day(t)), {g}, outcomes)
      BY <3>2
    <3>. QED BY <3>2, <3>3
  <2> HIDE DEF part, all, D
  <2>. QED BY <2>1, <2>2
<1>6. RowCount(log, TimesOfDays(days), groups, outcomes) = SumFunctionOnSet(log, all)
  BY DEF RowCount, RowsOf
<1> HIDE DEF part, all
<1>7. SumFunctionOnSet(f, D) = SumFunctionOnSet(log, UNION {part[b] : b \in D})
  <2>1. \A x \in LogRows : log[x] \in Nat
    OBVIOUS
  <2> HIDE DEF D
  <2>. QED BY <1>1, <1>2, <1>3, <1>4, <2>1, LogRowsFinite, SumParts
<1>. QED BY <1>5, <1>6, <1>7

-----------------------------------------------------------------------------
(* The inductive invariant *)

\* A request that records holds the write lock from its reads on, so what it has
\* read is still there; its time is not in the future.
ReadsHold ==
    \A s \in Slots : pc[s] = "recording" =>
        /\ writer = s
        /\ entry[s].at <= now
        /\ entry[s].bucket = rollup[<<Day(entry[s].at), key[s]>>]
        /\ HasRow(key[s]) => entry[s].total = totals[key[s]]

\* Nothing is recorded ahead of its time.
NoneFromFuture == \A row \in LogRows : row[1] > now => recorded[row] = 0

\* Pruning spares what is younger than the retention.
RecentKept == \A row \in LogRows : row[1] >= now - Retention => logs[row] = recorded[row]

\* Each bucket counts the requests of its day and group, unless a backfill
\* rebuilt the day from a part of them, and their errors, unless one rebuilt it.
BucketsExact ==
    \A d \in Days, g \in Groups :
        /\ rebuilt[d] # "part" =>
              rollup[<<d, g>>].requests = RowCount(recorded, DayTimes(d), {g}, BOOLEAN)
        /\ rebuilt[d] = "never" =>
              rollup[<<d, g>>].errors = RowCount(recorded, DayTimes(d), {g}, {TRUE})

WindowTimes == {t \in Times : t >= now - Window}
Active(k) == {s \in Slots : pc[s] # "idle" /\ key[s] = k}

\* What a key has spent in the window and what it is spending now.
BudgetShared ==
    Window <= Retention =>
        \A k \in Keys :
            RowCount(recorded, WindowTimes, {k}, BOOLEAN) + Cardinality(Active(k))
                <= Limit + Cardinality(Slots) - 1

IndInv ==
    /\ TypeOK
    /\ ReadsHold
    /\ NoneFromFuture
    /\ RecentKept
    /\ TotalsAgree
    /\ BucketsExact
    /\ BudgetShared

LEMMA InitInv == Init => IndInv
<1> SUFFICES ASSUME Init PROVE IndInv
  OBVIOUS
<1>1. TypeOK
  BY InitType
<1>2. ReadsHold
  BY DEF Init, ReadsHold
<1>3. NoneFromFuture /\ RecentKept
  BY DEF Init, NoneFromFuture, RecentKept
<1>4. ASSUME NEW times \in SUBSET Times, NEW groups \in SUBSET Groups, NEW outcomes \in SUBSET BOOLEAN
      PROVE  RowCount(recorded, times, groups, outcomes) = 0
  <2>1. \A row \in RowsOf(times, groups, outcomes) : recorded[row] = 0
    BY RowsOfFinite DEF Init
  <2>2. SumFunctionOnSet(recorded, RowsOf(times, groups, outcomes)) = 0
    BY <2>1, RowsOfFinite, SumZero
  <2>. QED BY <2>2 DEF RowCount, RowsOf
<1>5. TotalsAgree
  <2>1. \A k \in Keys : {k} \subseteq Groups
    BY DEF Groups
  <2>. QED BY <1>4, <2>1 DEF Init, TotalsAgree
<1>6. BucketsExact
  <2> SUFFICES ASSUME NEW d \in Days, NEW g \in Groups
               PROVE  /\ rollup[<<d, g>>].requests = RowCount(recorded, DayTimes(d), {g}, BOOLEAN)
                      /\ rollup[<<d, g>>].errors = RowCount(recorded, DayTimes(d), {g}, {TRUE})
    BY DEF BucketsExact
  <2>1. rollup[<<d, g>>] = Nothing
    BY DEF Init
  <2>2. /\ DayTimes(d) \in SUBSET Times /\ {g} \in SUBSET Groups
        /\ BOOLEAN \in SUBSET BOOLEAN /\ {TRUE} \in SUBSET BOOLEAN
    BY DEF DayTimes
  <2>3. /\ RowCount(recorded, DayTimes(d), {g}, BOOLEAN) = 0
        /\ RowCount(recorded, DayTimes(d), {g}, {TRUE}) = 0
    BY <1>4, <2>2
  <2>. QED BY <2>1, <2>3 DEF Nothing
<1>7. BudgetShared
  <2> SUFFICES ASSUME NEW k \in Keys
               PROVE  RowCount(recorded, WindowTimes, {k}, BOOLEAN) + Cardinality(Active(k))
                          <= Limit + Cardinality(Slots) - 1
    BY DEF BudgetShared
  <2>1. Active(k) = {}
    BY DEF Active, Init
  <2>2. RowCount(recorded, WindowTimes, {k}, BOOLEAN) = 0
    <3>1. WindowTimes \in SUBSET Times /\ {k} \in SUBSET Groups /\ BOOLEAN \in SUBSET BOOLEAN
      BY DEF WindowTimes, Groups
    <3>. QED BY <1>4, <3>1
  <2>3. Cardinality(Active(k)) = 0 /\ Cardinality(Slots) \in Nat
    BY <2>1, ConstantTypes, FS_EmptySet, FS_CardinalityType
  <2>. QED BY <2>2, <2>3, ConstantTypes
<1>. QED BY <1>1, <1>2, <1>3, <1>5, <1>6, <1>7 DEF IndInv


-----------------------------------------------------------------------------
(* Steps *)

\* What a commit does, given that what the request has read is still there.
LEMMA CommitEffect ==
    ASSUME IndInv, NEW s \in Slots, CommitRecord(s)
    PROVE  \E row \in LogRows :
              /\ row[1] <= now /\ row[2] = key[s] /\ writer = s
              /\ \A y \in LogRows \ {row} : recorded'[y] = recorded[y] /\ logs'[y] = logs[y]
              /\ recorded'[row] = recorded[row] + 1 /\ logs'[row] = logs[row] + 1
              /\ rollup' = [rollup EXCEPT ![<<Day(row[1]), row[2]>>] =
                               Applied(rollup[<<Day(row[1]), row[2]>>], row[3])]
              /\ totals' = IF HasRow(row[2]) THEN [totals EXCEPT ![row[2]] = totals[row[2]] + 1]
                                             ELSE totals
              /\ EndOf(s)
              /\ UNCHANGED <<now, status, backfill, rebuilt, served>>
<1> DEFINE e == entry[s]
           g == key[s]
           row == <<e.at, g, e.error>>
<1>1. e.at \in Times /\ e.error \in BOOLEAN /\ g \in Groups /\ row \in LogRows
  BY DEF IndInv, TypeOK, LogRows
<1>2. pc[s] = "recording"
  BY DEF CommitRecord
<1>3. /\ writer = s /\ e.at <= now /\ e.bucket = rollup[<<Day(e.at), g>>]
      /\ HasRow(g) => e.total = totals[g]
  BY <1>2 DEF IndInv, ReadsHold
<1>4. row[1] = e.at /\ row[2] = g /\ row[3] = e.error
  OBVIOUS
<1>5. /\ logs' = [logs EXCEPT ![row] = @ + 1]
      /\ recorded' = [recorded EXCEPT ![row] = @ + 1]
      /\ rollup' = [rollup EXCEPT ![<<Day(e.at), g>>] = Applied(e.bucket, e.error)]
      /\ totals' = IF HasRow(g) THEN [totals EXCEPT ![g] = e.total + 1] ELSE totals
      /\ EndOf(s)
      /\ UNCHANGED <<now, status, backfill, rebuilt, served>>
  BY DEF CommitRecord
<1>6. logs \in [LogRows -> Nat] /\ recorded \in [LogRows -> Nat]
  BY DEF IndInv, TypeOK
<1> HIDE DEF e, g, row
<1>7. /\ \A y \in LogRows \ {row} : recorded'[y] = recorded[y] /\ logs'[y] = logs[y]
      /\ recorded'[row] = recorded[row] + 1 /\ logs'[row] = logs[row] + 1
  BY <1>1, <1>5, <1>6
<1>8. rollup' = [rollup EXCEPT ![<<Day(row[1]), row[2]>>] =
                    Applied(rollup[<<Day(row[1]), row[2]>>], row[3])]
  BY <1>3, <1>4, <1>5
<1>9. totals' = IF HasRow(row[2]) THEN [totals EXCEPT ![row[2]] = totals[row[2]] + 1] ELSE totals
  BY <1>3, <1>4, <1>5
<1>10. row[1] <= now /\ row[2] = key[s]
  BY <1>3, <1>4 DEF g
<1>. QED BY <1>1, <1>3, <1>5, <1>7, <1>8, <1>9, <1>10

\* A step that commits no request changes nothing of what was recorded.
LEMMA Uncommitted ==
    ASSUME TypeOK, [Next]_vars, \A s \in Slots : ~CommitRecord(s)
    PROVE  /\ recorded' = recorded /\ totals' = totals
           /\ now <= now'
           /\ \A k \in Keys : status[k] = "deleted" => status'[k] = "deleted"
           /\ logs' = logs \/ Restart
           /\ (rollup' = rollup /\ rebuilt' = rebuilt) \/ WriteBackfill
           /\ \/ \A s \in Slots : pc'[s] # "idle" => pc[s] # "idle" /\ key'[s] = key[s]
              \/ \E s \in Slots : Authenticate(s)
<1> DEFINE Kept == \A s \in Slots : pc'[s] # "idle" => pc[s] # "idle" /\ key'[s] = key[s]
<1> USE DEF slotVars
<1>1. ASSUME NEW k \in Keys, CreateKey(k) \/ DisableKey(k) \/ EnableKey(k) \/ DeleteKey(k)
      PROVE  /\ UNCHANGED <<now, totals, logs, rollup, pc, key, recorded, rebuilt>>
             /\ \A j \in Keys : status[j] = "deleted" => status'[j] = "deleted"
  BY <1>1 DEF TypeOK, CreateKey, DisableKey, EnableKey, DeleteKey, SetStatus
<1>2. ASSUME NEW s \in Slots, Authenticate(s)
      PROVE  UNCHANGED <<now, status, totals, logs, rollup, recorded, rebuilt>>
  BY <1>2 DEF Authenticate
<1>3. ASSUME NEW s \in Slots, Cancel(s)
      PROVE  UNCHANGED <<now, status, totals, logs, rollup, recorded, rebuilt>> /\ Kept
  BY <1>3 DEF Cancel, EndOf, TypeOK
<1>4. ASSUME NEW s \in Slots, NEW error \in BOOLEAN, BeginRecord(s, error)
      PROVE  UNCHANGED <<now, status, totals, logs, rollup, recorded, rebuilt>> /\ Kept
  BY <1>4 DEF BeginRecord, TypeOK
<1>5. CASE Tick
  <2>1. now <= now'
    BY <1>5, ConstantTypes DEF Tick, TypeOK, Times
  <2>. QED BY <1>5, <2>1 DEF Tick
<1>6. now <= now
  BY ConstantTypes DEF TypeOK, Times
<1>7. CASE Restart
  BY <1>6, <1>7 DEF Restart
<1>8. CASE ReadBackfill
  BY <1>6, <1>8 DEF ReadBackfill
<1>9. CASE WriteBackfill
  BY <1>6, <1>9 DEF WriteBackfill
<1>10. CASE UNCHANGED vars
  BY <1>6, <1>10 DEF vars
<1>11. CASE \E k \in Keys : CreateKey(k) \/ DisableKey(k) \/ EnableKey(k) \/ DeleteKey(k)
  BY <1>1, <1>6, <1>11
<1>12. CASE \E s \in Slots : Authenticate(s)
  BY <1>2, <1>6, <1>12
<1>13. CASE \E s \in Slots : Cancel(s)
  BY <1>3, <1>6, <1>13
<1>14. CASE \E s \in Slots, error \in BOOLEAN : BeginRecord(s, error)
  BY <1>4, <1>6, <1>14
<1>. QED BY <1>5, <1>7, <1>8, <1>9, <1>10, <1>11, <1>12, <1>13, <1>14 DEF Next

LEMMA StepReads == IndInv /\ [Next]_vars => ReadsHold'
<1> SUFFICES ASSUME IndInv, [Next]_vars PROVE ReadsHold'
  OBVIOUS
<1> USE DEF slotVars
<1>1. TypeOK /\ ReadsHold
  BY DEF IndInv
<1>2. WriterFree => \A s \in Slots : pc[s] # "recording"
  BY <1>1, ConstantTypes DEF ReadsHold, WriterFree
<1>3. ASSUME NEW k \in Keys, CreateKey(k) \/ DisableKey(k) \/ EnableKey(k) \/ DeleteKey(k)
      PROVE  ReadsHold'
  <2>1. WriterFree /\ UNCHANGED pc
    BY <1>3 DEF CreateKey, DisableKey, EnableKey, DeleteKey, SetStatus
  <2>. QED BY <1>2, <2>1 DEF ReadsHold
<1>4. ASSUME NEW s \in Slots, Authenticate(s) PROVE ReadsHold'
  <2>1. PICK g \in Groups : key' = [key EXCEPT ![s] = g]
    BY <1>4 DEF Authenticate
  <2>2. \A r \in Slots : pc'[r] = "recording" => pc[r] = "recording" /\ key'[r] = key[r]
    BY <1>1, <1>4, <2>1 DEF Authenticate, TypeOK
  <2>. QED BY <1>1, <1>4, <2>2 DEF Authenticate, ReadsHold, HasRow
<1>5. ASSUME NEW s \in Slots, NEW error \in BOOLEAN, BeginRecord(s, error) PROVE ReadsHold'
  <2>1. WriterFree /\ pc' = [pc EXCEPT ![s] = "recording"] /\ writer' = s
        /\ UNCHANGED <<now, status, totals, rollup, key>>
    BY <1>5 DEF BeginRecord
  <2>2. \A r \in Slots : pc'[r] = "recording" => r = s
    BY <1>1, <1>2, <2>1 DEF TypeOK
  <2>3. /\ entry'[s].at = now /\ entry'[s].bucket = rollup[<<Day(now), key[s]>>]
        /\ entry'[s].total = IF HasRow(key[s]) THEN totals[key[s]] ELSE 0
    BY <1>1, <1>5 DEF BeginRecord, TypeOK
  <2>4. now <= now
    BY <1>1, DayType DEF TypeOK
  <2>. QED BY <2>1, <2>2, <2>3, <2>4 DEF ReadsHold, HasRow
<1>6. ASSUME NEW s \in Slots, CommitRecord(s) PROVE ReadsHold'
  <2>1. writer = s /\ EndOf(s)
    BY <1>6, CommitEffect
  <2>2. \A r \in Slots : pc'[r] # "recording"
    BY <1>1, <2>1 DEF EndOf, ReadsHold, TypeOK
  <2>. QED BY <2>2 DEF ReadsHold
<1>7. ASSUME NEW s \in Slots, Cancel(s) PROVE ReadsHold'
  <2>1. \A r \in Slots : pc'[r] = "recording" =>
            /\ r # s /\ pc[r] = "recording"
            /\ key'[r] = key[r] /\ entry'[r] = entry[r]
    BY <1>1, <1>7 DEF Cancel, EndOf, TypeOK
  <2>. QED BY <1>1, <1>7, <2>1 DEF Cancel, ReadsHold, HasRow
<1>8. CASE Tick
  <2>1. \A s \in Slots : entry[s].at <= now => entry[s].at <= now'
    <3>1. now' = now + 1 /\ now \in Nat
      BY <1>1, <1>8, DayType DEF Tick, TypeOK
    <3>2. \A s \in Slots : entry[s].at \in Nat
      BY <1>1, DayType DEF TypeOK
    <3>. QED BY <3>1, <3>2
  <2>. QED BY <1>1, <1>8, <2>1 DEF Tick, ReadsHold, HasRow
<1>9. CASE Restart
  BY <1>9 DEF Restart, ReadsHold
<1>10. CASE ReadBackfill
  BY <1>1, <1>10 DEF ReadBackfill, ReadsHold, HasRow
<1>11. CASE WriteBackfill
  BY <1>2, <1>11 DEF WriteBackfill, ReadsHold
<1>12. CASE UNCHANGED vars
  BY <1>1, <1>12 DEF vars, ReadsHold, HasRow
<1>. QED BY <1>3, <1>4, <1>5, <1>6, <1>7, <1>8, <1>9, <1>10, <1>11, <1>12 DEF Next

LEMMA StepTimes == IndInv /\ [Next]_vars => (NoneFromFuture /\ RecentKept)'
<1> SUFFICES ASSUME IndInv, [Next]_vars PROVE (NoneFromFuture /\ RecentKept)'
  OBVIOUS
<1>1. TypeOK /\ NoneFromFuture /\ RecentKept
  BY DEF IndInv
<1>2. now \in Nat /\ Retention \in Nat /\ \A row \in LogRows : row[1] \in Nat
  BY <1>1, ConstantTypes, DayType DEF TypeOK, LogRows
<1>3. TypeOK'
  BY <1>1, StepType
<1>4. CASE \A s \in Slots : ~CommitRecord(s)
  <2>1. recorded' = recorded /\ now <= now' /\ (logs' = logs \/ Restart)
    BY <1>1, <1>4, Uncommitted
  <2>2. now' \in Nat
    BY <1>3, DayType DEF TypeOK
  <2>3. NoneFromFuture'
    BY <1>1, <1>2, <2>1, <2>2 DEF NoneFromFuture
  <2>4. ASSUME NEW row \in LogRows, row[1] >= now' - Retention PROVE logs'[row] = recorded'[row]
    <3>1. row[1] >= now - Retention /\ logs[row] = recorded[row]
      BY <1>1, <1>2, <2>1, <2>2, <2>4 DEF RecentKept
    <3>2. CASE Restart
      BY <1>2, <2>1, <3>1, <3>2 DEF Restart
    <3>. QED BY <2>1, <3>1, <3>2
  <2>. QED BY <2>3, <2>4 DEF RecentKept
<1>5. ASSUME NEW s \in Slots, CommitRecord(s) PROVE (NoneFromFuture /\ RecentKept)'
  <2>1. PICK row \in LogRows :
            /\ row[1] <= now
            /\ \A y \in LogRows \ {row} : recorded'[y] = recorded[y] /\ logs'[y] = logs[y]
            /\ recorded'[row] = recorded[row] + 1 /\ logs'[row] = logs[row] + 1
            /\ now' = now
    BY <1>5, CommitEffect
  <2>2. NoneFromFuture'
    BY <1>1, <1>2, <2>1 DEF NoneFromFuture
  <2>3. RecentKept'
    BY <1>1, <2>1 DEF RecentKept
  <2>. QED BY <2>2, <2>3
<1>. QED BY <1>4, <1>5

LEMMA StepTotals == IndInv /\ [Next]_vars => TotalsAgree'
<1> SUFFICES ASSUME IndInv, [Next]_vars PROVE TotalsAgree'
  OBVIOUS
<1>1. TypeOK /\ TotalsAgree
  BY DEF IndInv
<1>2. CASE \A s \in Slots : ~CommitRecord(s)
  <2>1. /\ recorded' = recorded /\ totals' = totals
        /\ \A k \in Keys : status[k] = "deleted" => status'[k] = "deleted"
    BY <1>1, <1>2, Uncommitted
  <2>. QED BY <1>1, <2>1 DEF TotalsAgree
<1>3. ASSUME NEW s \in Slots, CommitRecord(s) PROVE TotalsAgree'
  <2>1. PICK row \in LogRows :
            /\ \A y \in LogRows \ {row} : recorded'[y] = recorded[y]
            /\ recorded'[row] = recorded[row] + 1
            /\ totals' = IF HasRow(row[2]) THEN [totals EXCEPT ![row[2]] = totals[row[2]] + 1]
                                           ELSE totals
            /\ status' = status
    BY <1>3, CommitEffect
  <2> SUFFICES ASSUME NEW k \in Keys, status[k] # "deleted"
               PROVE  totals'[k] = RowCount(recorded', Times, {k}, BOOLEAN)
    BY <2>1 DEF TotalsAgree
  <2>2. totals[k] = RowCount(recorded, Times, {k}, BOOLEAN) /\ totals[k] \in Nat
    BY <1>1 DEF TotalsAgree, TypeOK
  <2>3. RowCount(recorded', Times, {k}, BOOLEAN) =
            IF row \in RowsOf(Times, {k}, BOOLEAN)
            THEN RowCount(recorded, Times, {k}, BOOLEAN) + 1
            ELSE RowCount(recorded, Times, {k}, BOOLEAN)
    <3>1. recorded \in [LogRows -> Nat] /\ Times \in SUBSET Times /\ {k} \in SUBSET Groups
          /\ BOOLEAN \in SUBSET BOOLEAN
      BY <1>1 DEF TypeOK, Groups
    <3>2. /\ \A y \in LogRows \ {row} : recorded'[y] = recorded[y]
          /\ recorded'[row] = recorded[row] + 1
      BY <2>1
    <3>. QED BY <3>1, <3>2, CountIncrement
  <2>4. row \in RowsOf(Times, {k}, BOOLEAN) <=> row[2] = k
    BY DEF RowsOf, LogRows
  <2>5. row[2] = k => HasRow(row[2])
    BY DEF HasRow
  <2>6. totals'[k] = IF row[2] = k THEN totals[k] + 1 ELSE totals[k]
    BY <1>1, <2>1, <2>5 DEF TypeOK
  <2>. QED BY <2>2, <2>3, <2>4, <2>6
<1>. QED BY <1>2, <1>3

LEMMA StepBuckets == IndInv /\ [Next]_vars => BucketsExact'
<1> SUFFICES ASSUME IndInv, [Next]_vars PROVE BucketsExact'
  OBVIOUS
<1>1. TypeOK /\ BucketsExact
  BY DEF IndInv
<1>2. CASE WriteBackfill
  <2> SUFFICES ASSUME NEW d \in Days, NEW g \in Groups
               PROVE  /\ rebuilt'[d] # "part" =>
                            rollup'[<<d, g>>].requests = RowCount(recorded, DayTimes(d), {g}, BOOLEAN)
                      /\ rebuilt'[d] = "never" =>
                            rollup'[<<d, g>>].errors = RowCount(recorded, DayTimes(d), {g}, {TRUE})
    BY <1>2 DEF WriteBackfill, BucketsExact
  <2>1. CASE d \in CoveredDays
    <3>1. rebuilt'[d] = IF Whole(d) THEN "whole" ELSE "part"
      BY <1>2, <2>1 DEF WriteBackfill, CoveredDays
    <3>2. rollup'[<<d, g>>] = Rebuilt(<<d, g>>)
      BY <1>2, <2>1 DEF WriteBackfill
    <3>3. rebuilt'[d] # "never" /\ (rebuilt'[d] # "part" => Whole(d))
      BY <3>1
    <3>. QED BY <3>2, <3>3 DEF Whole
  <2>2. CASE d \notin CoveredDays
    <3>1. rebuilt'[d] = rebuilt[d]
      BY <1>2, <2>2 DEF WriteBackfill, CoveredDays
    <3>2. rollup'[<<d, g>>] = rollup[<<d, g>>]
      BY <1>2, <2>2 DEF WriteBackfill
    <3>. QED BY <1>1, <3>1, <3>2 DEF BucketsExact
  <2>. QED BY <2>1, <2>2
<1>3. CASE ~WriteBackfill /\ \A s \in Slots : ~CommitRecord(s)
  <2>1. recorded' = recorded /\ rollup' = rollup /\ rebuilt' = rebuilt
    BY <1>1, <1>3, Uncommitted
  <2>. QED BY <1>1, <2>1 DEF BucketsExact
<1>4. ASSUME NEW s \in Slots, CommitRecord(s) PROVE BucketsExact'
  <2>1. PICK row \in LogRows :
            /\ \A y \in LogRows \ {row} : recorded'[y] = recorded[y]
            /\ recorded'[row] = recorded[row] + 1
            /\ rollup' = [rollup EXCEPT ![<<Day(row[1]), row[2]>>] =
                             Applied(rollup[<<Day(row[1]), row[2]>>], row[3])]
            /\ rebuilt' = rebuilt
    BY <1>4, CommitEffect
  <2> SUFFICES ASSUME NEW d \in Days, NEW g \in Groups
               PROVE  /\ rebuilt[d] # "part" =>
                            rollup'[<<d, g>>].requests = RowCount(recorded', DayTimes(d), {g}, BOOLEAN)
                      /\ rebuilt[d] = "never" =>
                            rollup'[<<d, g>>].errors = RowCount(recorded', DayTimes(d), {g}, {TRUE})
    BY <2>1 DEF BucketsExact
  <2>2. ASSUME NEW outcomes \in SUBSET BOOLEAN
        PROVE  RowCount(recorded', DayTimes(d), {g}, outcomes) =
                   IF row \in RowsOf(DayTimes(d), {g}, outcomes)
                   THEN RowCount(recorded, DayTimes(d), {g}, outcomes) + 1
                   ELSE RowCount(recorded, DayTimes(d), {g}, outcomes)
    <3>1. recorded \in [LogRows -> Nat] /\ DayTimes(d) \in SUBSET Times /\ {g} \in SUBSET Groups
      BY <1>1 DEF TypeOK, DayTimes
    <3>2. /\ \A y \in LogRows \ {row} : recorded'[y] = recorded[y]
          /\ recorded'[row] = recorded[row] + 1
      BY <2>1
    <3>. QED BY <3>1, <3>2, CountIncrement
  <2>3. /\ rebuilt[d] # "part" =>
              rollup[<<d, g>>].requests = RowCount(recorded, DayTimes(d), {g}, BOOLEAN)
        /\ rebuilt[d] = "never" =>
              rollup[<<d, g>>].errors = RowCount(recorded, DayTimes(d), {g}, {TRUE})
    BY <1>1 DEF BucketsExact
  <2>4. /\ row[1] \in Times /\ Day(row[1]) \in Days /\ row[2] \in Groups /\ row[3] \in BOOLEAN
        /\ row \in RowsOf(DayTimes(d), {g}, BOOLEAN) <=> Day(row[1]) = d /\ row[2] = g
        /\ row \in RowsOf(DayTimes(d), {g}, {TRUE})
              <=> Day(row[1]) = d /\ row[2] = g /\ row[3]
    BY DayType DEF RowsOf, LogRows, DayTimes
  <2>5. RowCount(recorded', DayTimes(d), {g}, BOOLEAN) =
            IF row \in RowsOf(DayTimes(d), {g}, BOOLEAN)
            THEN RowCount(recorded, DayTimes(d), {g}, BOOLEAN) + 1
            ELSE RowCount(recorded, DayTimes(d), {g}, BOOLEAN)
    <3>1. BOOLEAN \in SUBSET BOOLEAN
      OBVIOUS
    <3>. QED BY <2>2, <3>1
  <2>6. RowCount(recorded', DayTimes(d), {g}, {TRUE}) =
            IF row \in RowsOf(DayTimes(d), {g}, {TRUE})
            THEN RowCount(recorded, DayTimes(d), {g}, {TRUE}) + 1
            ELSE RowCount(recorded, DayTimes(d), {g}, {TRUE})
    <3>1. {TRUE} \in SUBSET BOOLEAN
      OBVIOUS
    <3>. QED BY <2>2, <3>1
  <2>7. CASE Day(row[1]) = d /\ row[2] = g
    <3>1. rollup'[<<d, g>>] = Applied(rollup[<<d, g>>], row[3])
      BY <1>1, <2>1, <2>4, <2>7 DEF TypeOK
    <3>2. rollup[<<d, g>>].errors \in Nat
      BY <1>1 DEF TypeOK, Buckets
    <3>3. /\ rollup'[<<d, g>>].requests = rollup[<<d, g>>].requests + 1
          /\ rollup'[<<d, g>>].errors =
                IF row[3] THEN rollup[<<d, g>>].errors + 1 ELSE rollup[<<d, g>>].errors
      BY <3>1, <3>2 DEF Applied
    <3>. QED BY <2>3, <2>4, <2>5, <2>6, <2>7, <3>3
  <2>8. CASE ~(Day(row[1]) = d /\ row[2] = g)
    <3>1. <<Day(row[1]), row[2]>> # <<d, g>>
      BY <2>8
    <3>2. rollup'[<<d, g>>] = rollup[<<d, g>>]
      BY <1>1, <2>1, <3>1 DEF TypeOK
    <3>. QED BY <2>3, <2>4, <2>5, <2>6, <2>8, <3>2
  <2>. QED BY <2>7, <2>8
<1>. QED BY <1>2, <1>3, <1>4

LEMMA ActiveFinite == \A k : IsFiniteSet(Active(k)) /\ Active(k) \subseteq Slots
<1>1. \A k : Active(k) \subseteq Slots
  BY DEF Active
<1>. QED BY <1>1, ConstantTypes, FS_Subset

LEMMA StepBudget == IndInv /\ [Next]_vars => BudgetShared'
<1> SUFFICES ASSUME IndInv, [Next]_vars, Window <= Retention, NEW k \in Keys
             PROVE  RowCount(recorded', WindowTimes', {k}, BOOLEAN) + Cardinality(Active(k)')
                        <= Limit + Cardinality(Slots) - 1
  BY DEF BudgetShared
<1>1. TypeOK /\ TypeOK' /\ RecentKept
  BY StepType DEF IndInv
<1>2. RowCount(recorded, WindowTimes, {k}, BOOLEAN) + Cardinality(Active(k))
          <= Limit + Cardinality(Slots) - 1
  BY DEF IndInv, BudgetShared
<1>3. /\ now \in Nat /\ now' \in Nat /\ Window \in Nat /\ Retention \in Nat /\ Limit \in Nat
      /\ \A t \in Times : t \in Nat
  BY <1>1, ConstantTypes, DayType DEF TypeOK
<1>4. /\ WindowTimes \in SUBSET Times /\ WindowTimes' \in SUBSET Times
      /\ {k} \in SUBSET Groups /\ BOOLEAN \in SUBSET BOOLEAN
      /\ recorded \in [LogRows -> Nat] /\ recorded' \in [LogRows -> Nat]
  BY <1>1 DEF WindowTimes, Groups, TypeOK, Times
<1>5. /\ RowCount(recorded, WindowTimes, {k}, BOOLEAN) \in Nat
      /\ RowCount(recorded', WindowTimes', {k}, BOOLEAN) \in Nat
  BY <1>4, RowCountNat
<1>6. IsFiniteSet(Active(k)) /\ Active(k) \subseteq Slots
  BY ActiveFinite
<1>7. Active(k)' \subseteq Slots /\ IsFiniteSet(Active(k)')
  <2>1. Active(k)' \subseteq Slots
    BY DEF Active
  <2>. QED BY <2>1, ConstantTypes, FS_Subset
<1>8. Cardinality(Active(k)) \in Nat /\ Cardinality(Active(k)') \in Nat /\ Cardinality(Slots) \in Nat
  BY <1>6, <1>7, ConstantTypes, FS_CardinalityType
<1>9. CASE \E s \in Slots : CommitRecord(s)
  <2>1. PICK s \in Slots : CommitRecord(s)
    BY <1>9
  <2>2. PICK row \in LogRows :
            /\ row[2] = key[s]
            /\ \A y \in LogRows \ {row} : recorded'[y] = recorded[y]
            /\ recorded'[row] = recorded[row] + 1
            /\ EndOf(s) /\ now' = now
    BY <2>1, CommitEffect
  <2>3. WindowTimes' = WindowTimes
    BY <2>2 DEF WindowTimes, Times
  <2>4. RowCount(recorded', WindowTimes, {k}, BOOLEAN) =
            IF row \in RowsOf(WindowTimes, {k}, BOOLEAN)
            THEN RowCount(recorded, WindowTimes, {k}, BOOLEAN) + 1
            ELSE RowCount(recorded, WindowTimes, {k}, BOOLEAN)
    <3>1. /\ \A y \in LogRows \ {row} : recorded'[y] = recorded[y]
          /\ recorded'[row] = recorded[row] + 1
      BY <2>2
    <3>. QED BY <1>4, <3>1, CountIncrement
  <2>5. row \in RowsOf(WindowTimes, {k}, BOOLEAN) => key[s] = k
    BY <2>2 DEF RowsOf
  <2>6. pc[s] # "idle"
    BY <2>1 DEF CommitRecord
  <2>7. Active(k)' = Active(k) \ {s}
    <3>1. \A r \in Slots : /\ pc'[r] = IF r = s THEN "idle" ELSE pc[r]
                           /\ r # s => key'[r] = key[r]
      BY <1>1, <2>2 DEF EndOf, TypeOK
    <3>. QED BY <3>1 DEF Active
  <2>8. key[s] = k => s \in Active(k)
    BY <2>6 DEF Active
  <2>9. Cardinality(Active(k) \ {s}) =
            IF s \in Active(k) THEN Cardinality(Active(k)) - 1 ELSE Cardinality(Active(k))
    BY <1>6, FS_RemoveElement
  <2>10. Cardinality(Active(k)') =
            IF s \in Active(k) THEN Cardinality(Active(k)) - 1 ELSE Cardinality(Active(k))
    BY <2>7, <2>9
  <2>11. RowCount(recorded', WindowTimes', {k}, BOOLEAN) =
            IF row \in RowsOf(WindowTimes, {k}, BOOLEAN)
            THEN RowCount(recorded, WindowTimes, {k}, BOOLEAN) + 1
            ELSE RowCount(recorded, WindowTimes, {k}, BOOLEAN)
    BY <2>3, <2>4
  <2>. QED BY <1>2, <1>3, <1>5, <1>8, <2>5, <2>8, <2>10, <2>11
<1>10. CASE \A s \in Slots : ~CommitRecord(s)
  <2>1. /\ recorded' = recorded /\ now <= now'
        /\ \/ \A s \in Slots : pc'[s] # "idle" => pc[s] # "idle" /\ key'[s] = key[s]
           \/ \E s \in Slots : Authenticate(s)
    BY <1>1, <1>10, Uncommitted
  <2>2. WindowTimes' \in SUBSET WindowTimes
    BY <1>3, <2>1 DEF WindowTimes, Times
  <2>3. RowCount(recorded', WindowTimes', {k}, BOOLEAN)
            <= RowCount(recorded, WindowTimes, {k}, BOOLEAN)
    BY <1>4, <2>1, <2>2, CountSubset
  <2>4. ASSUME Active(k)' \subseteq Active(k) PROVE Cardinality(Active(k)') <= Cardinality(Active(k))
    BY <1>6, <2>4, FS_Subset
  <2>5. CASE \A s \in Slots : pc'[s] # "idle" => pc[s] # "idle" /\ key'[s] = key[s]
    <3>1. Active(k)' \subseteq Active(k)
      BY <2>5 DEF Active
    <3>2. Cardinality(Active(k)') <= Cardinality(Active(k))
      BY <2>4, <3>1
    <3>. QED BY <1>2, <1>5, <1>8, <2>3, <3>2, ConstantTypes
  <2>6. ASSUME NEW s \in Slots, Authenticate(s)
        PROVE  RowCount(recorded', WindowTimes', {k}, BOOLEAN) + Cardinality(Active(k)')
                   <= Limit + Cardinality(Slots) - 1
    <3>1. PICK g \in Groups : /\ g \in Keys => WithinBudget(g)
                              /\ key' = [key EXCEPT ![s] = g]
      BY <2>6 DEF Authenticate
    <3>2. CASE g # k
      <4>1. Active(k)' \subseteq Active(k)
        BY <1>1, <2>6, <3>1, <3>2 DEF Authenticate, Active, TypeOK
      <4>2. Cardinality(Active(k)') <= Cardinality(Active(k))
        BY <2>4, <4>1
      <4>. QED BY <1>2, <1>3, <1>5, <1>8, <2>3, <4>2
    <3>3. CASE g = k
      <4>1. RowCount(logs, WindowTimes, {k}, BOOLEAN) < Limit
        BY <3>1, <3>3 DEF WithinBudget, WindowTimes
      <4>2. \A row \in RowsOf(WindowTimes, {k}, BOOLEAN) : logs[row] = recorded[row]
        <5>1. ASSUME NEW row \in RowsOf(WindowTimes, {k}, BOOLEAN) PROVE logs[row] = recorded[row]
          <6>1. row \in LogRows /\ row[1] \in WindowTimes
            BY <1>4 DEF RowsOf, LogRows
          <6>2. row[1] >= now - Retention
            BY <1>3, <6>1 DEF WindowTimes
          <6>. QED BY <1>1, <6>1, <6>2 DEF RecentKept
        <5>. QED BY <5>1
      <4>3. RowCount(logs, WindowTimes, {k}, BOOLEAN) = RowCount(recorded, WindowTimes, {k}, BOOLEAN)
        BY <1>4, <4>2, CountSame
      <4>4. Cardinality(Active(k)') <= Cardinality(Slots)
        BY <1>7, ConstantTypes, FS_Subset
      <4>. QED BY <1>3, <1>5, <1>8, <2>3, <4>1, <4>3, <4>4
    <3>. QED BY <3>2, <3>3
  <2>. QED BY <2>1, <2>5, <2>6
<1>. QED BY <1>9, <1>10

-----------------------------------------------------------------------------
(* Theorems *)

\* What holds in all states of the accounting: what a recording request has read
\* still stands, pruning spares the recent rows, and the counters, the buckets
\* and the budget of each key agree with what was recorded.
THEOREM Invariance == Spec => []IndInv
<1>1. Init => IndInv
  BY InitInv
<1>2. IndInv /\ [Next]_vars => IndInv'
  BY StepType, StepReads, StepTimes, StepTotals, StepBuckets, StepBudget DEF IndInv
<1>. QED BY <1>1, <1>2, PTL DEF Spec

\* The counter of a key that is not deleted is the number of requests recorded
\* for it, for any number of requests that end together.
THEOREM CountersAgree == Spec => []TotalsAgree
<1>1. IndInv => TotalsAgree
  BY DEF IndInv
<1>. QED BY <1>1, Invariance, PTL

\* In any window a key gets at most its limit and one request less than there
\* are slots, if the log is kept as long as the window.
THEOREM SpendingIsBounded == Spec => []BudgetBounded
<1>1. ASSUME IndInv, Window <= Retention, NEW k \in Keys
      PROVE  RowCount(recorded, {t \in Times : t >= now - Window}, {k}, BOOLEAN)
                 <= Limit + Cardinality(Slots) - 1
  <2>1. RowCount(recorded, WindowTimes, {k}, BOOLEAN) + Cardinality(Active(k))
            <= Limit + Cardinality(Slots) - 1
    BY <1>1 DEF IndInv, BudgetShared
  <2>2. recorded \in [LogRows -> Nat] /\ WindowTimes \in SUBSET Times /\ {k} \in SUBSET Groups
        /\ BOOLEAN \in SUBSET BOOLEAN
    BY <1>1 DEF IndInv, TypeOK, WindowTimes, Groups
  <2>3. RowCount(recorded, WindowTimes, {k}, BOOLEAN) \in Nat
    BY <2>2, RowCountNat
  <2>4. Cardinality(Active(k)) \in Nat /\ Cardinality(Slots) \in Nat /\ Limit \in Nat
    BY ActiveFinite, ConstantTypes, FS_CardinalityType
  <2>5. RowCount(recorded, WindowTimes, {k}, BOOLEAN) <= Limit + Cardinality(Slots) - 1
    BY <2>1, <2>3, <2>4
  <2>. QED BY <2>5 DEF WindowTimes
<1>2. IndInv => BudgetBounded
  BY <1>1 DEF BudgetBounded
<1>. QED BY <1>2, Invariance, PTL

\* A day of the trend counts every request of the day, and every error, unless a
\* backfill rebuilt the day from less, for any interleaving of recording,
\* pruning, restarts and backfills.
THEOREM TrendCounts == Spec => []TrendComplete
<1> DEFINE trend == Trend(Cardinality(Days))
<1>1. ASSUME IndInv, NEW d \in DOMAIN trend
      PROVE  /\ rebuilt[d] # "part" =>
                   trend[d].requests = RowCount(recorded, DayTimes(d), Groups, BOOLEAN)
             /\ rebuilt[d] = "never" =>
                   trend[d].errors = RowCount(recorded, DayTimes(d), Groups, {TRUE})
  <2>1. d \in Days /\ trend[d] = Sum({d} \X Groups)
    BY DEF Trend
  <2> DEFINE requests == [b \in {d} \X Groups |-> rollup[b].requests]
             errors == [b \in {d} \X Groups |-> rollup[b].errors]
  <2>2. /\ trend[d].requests = SumFunctionOnSet(requests, {d} \X Groups)
        /\ trend[d].errors = SumFunctionOnSet(errors, {d} \X Groups)
    <3>1. Sum({d} \X Groups) = [requests |-> SumFunctionOnSet(requests, {d} \X Groups),
                                errors |-> SumFunctionOnSet(errors, {d} \X Groups)]
      BY DEF Sum, SumFunction
    <3> HIDE DEF requests, errors, trend
    <3>. QED BY <2>1, <3>1
  <2>3. recorded \in [LogRows -> Nat] /\ {d} \in SUBSET Days /\ Groups \in SUBSET Groups
        /\ BOOLEAN \in SUBSET BOOLEAN /\ {TRUE} \in SUBSET BOOLEAN
    BY <1>1, <2>1 DEF IndInv, TypeOK
  <2>4. ASSUME NEW outcomes \in SUBSET BOOLEAN, NEW f,
               \A g \in Groups : f[<<d, g>>] = RowCount(recorded, DayTimes(d), {g}, outcomes)
        PROVE  SumFunctionOnSet(f, {d} \X Groups) = RowCount(recorded, DayTimes(d), Groups, outcomes)
    <3> DEFINE days == {d}
    <3>1. TimesOfDays(days) = DayTimes(d)
      BY DEF DayTimes, TimesOfDays
    <3>2. /\ days \in SUBSET Days
          /\ \A c \in days, g \in Groups : f[<<c, g>>] = RowCount(recorded, DayTimes(c), {g}, outcomes)
      BY <2>3, <2>4
    <3> HIDE DEF days
    <3>3. SumFunctionOnSet(f, days \X Groups)
              = RowCount(recorded, TimesOfDays(days), Groups, outcomes)
      BY <2>3, <3>2, BucketsAddUp
    <3>. QED BY <3>1, <3>3 DEF days
  <2>5. \A g \in Groups : /\ requests[<<d, g>>] = rollup[<<d, g>>].requests
                          /\ errors[<<d, g>>] = rollup[<<d, g>>].errors
    OBVIOUS
  <2> HIDE DEF trend, requests, errors
  <2>6. ASSUME rebuilt[d] # "part"
        PROVE  trend[d].requests = RowCount(recorded, DayTimes(d), Groups, BOOLEAN)
    <3>1. \A g \in Groups : requests[<<d, g>>] = RowCount(recorded, DayTimes(d), {g}, BOOLEAN)
      BY <1>1, <2>1, <2>5, <2>6 DEF IndInv, BucketsExact
    <3>. QED BY <2>2, <2>3, <2>4, <3>1
  <2>7. ASSUME rebuilt[d] = "never"
        PROVE  trend[d].errors = RowCount(recorded, DayTimes(d), Groups, {TRUE})
    <3>1. \A g \in Groups : errors[<<d, g>>] = RowCount(recorded, DayTimes(d), {g}, {TRUE})
      BY <1>1, <2>1, <2>5, <2>7 DEF IndInv, BucketsExact
    <3>. QED BY <2>2, <2>3, <2>4, <3>1
  <2>. QED BY <2>6, <2>7
<1>2. IndInv => TrendComplete
  BY <1>1 DEF TrendComplete
<1>. QED BY <1>2, Invariance, PTL

\* A report from the first day until now bills each key, deleted or not, with
\* every request that was recorded for it.
THEOREM ReportsBillAll == Spec => []BilledInFull
<1>1. ASSUME IndInv, \A d \in Days : rebuilt[d] # "part", NEW g \in Groups
      PROVE  g \in ReportGroups /\
             Report(0, Day(now))[g].requests = RowCount(recorded, Times, {g}, BOOLEAN)
  <2> DEFINE days == 0..Day(now)
             past == TimesOfDays(days)
             requests == [b \in days \X {g} |-> rollup[b].requests]
  <2>1. now \in Nat /\ MaxNow \in Nat /\ now <= MaxNow
    BY <1>1, ConstantTypes DEF IndInv, TypeOK, Times
  <2>2. Day(now) \in Nat /\ Day(now) <= Day(MaxNow) /\ Day(MaxNow) \in Nat
    BY <2>1, DayMonotone
  <2>3. days \in SUBSET Days
    BY <2>2 DEF Days
  <2>4. /\ recorded \in [LogRows -> Nat] /\ {g} \in SUBSET Groups /\ BOOLEAN \in SUBSET BOOLEAN
        /\ past \in SUBSET Times /\ Times \in SUBSET Times
    BY <1>1 DEF IndInv, TypeOK, TimesOfDays
  <2>5. g \in ReportGroups /\
        Report(0, Day(now))[g].requests = SumFunctionOnSet(requests, days \X {g})
    <3>1. Report(0, Day(now))[g] = Sum(days \X {g})
      BY DEF Report, ReportGroups
    <3>2. Sum(days \X {g}).requests = SumFunctionOnSet(requests, days \X {g})
      BY DEF Sum, SumFunction
    <3>. QED BY <3>1, <3>2 DEF ReportGroups
  <2>6. \A d \in days, h \in {g} :
            requests[<<d, h>>] = RowCount(recorded, DayTimes(d), {h}, BOOLEAN)
    BY <1>1, <2>3 DEF IndInv, BucketsExact
  <2>7. ASSUME NEW row \in LogRows, row[1] \in Times \ past PROVE recorded[row] = 0
    <3>1. row[1] \in Nat /\ Day(row[1]) \in Nat
      BY <2>7, DayType DEF Days
    <3>2. ~(Day(row[1]) <= Day(now))
      BY <2>2, <2>7, <3>1 DEF TimesOfDays
    <3>3. ~(row[1] <= now)
      BY <2>1, <3>1, <3>2, DayMonotone
    <3>. QED BY <1>1, <2>1, <3>1, <3>3 DEF IndInv, NoneFromFuture
  <2> HIDE DEF days, requests
  <2>8. SumFunctionOnSet(requests, days \X {g}) = RowCount(recorded, past, {g}, BOOLEAN)
    BY <2>3, <2>4, <2>6, BucketsAddUp
  <2> HIDE DEF past
  <2>9. RowCount(recorded, past, {g}, BOOLEAN) = RowCount(recorded, Times, {g}, BOOLEAN)
    BY <2>4, <2>7, CountRestrict
  <2>. QED BY <2>5, <2>8, <2>9
<1>2. IndInv => BilledInFull
  <2> SUFFICES ASSUME IndInv, \A d \in Days : rebuilt[d] # "part", NEW g \in Groups
               PROVE  (IF g \in DOMAIN Report(0, Day(now)) THEN Report(0, Day(now))[g].requests ELSE 0)
                          = RowCount(recorded, Times, {g}, BOOLEAN)
    BY DEF BilledInFull
  <2>1. DOMAIN Report(0, Day(now)) = ReportGroups
    BY DEF Report
  <2>. QED BY <1>1, <2>1
<1>. QED BY <1>2, Invariance, PTL
=============================================================================
