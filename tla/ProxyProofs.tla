---------------------------- MODULE ProxyProofs ----------------------------
(***************************************************************************)
(* Theorems about Proxy, for every set of accounts, requests and probers,  *)
(* every strategy and every setting.                                       *)
(***************************************************************************)
EXTENDS Proxy, FiniteSetTheorems, WellFoundedInduction, TLAPS

-----------------------------------------------------------------------------
(* Selection *)

\* Among finitely many sets of one family there is one that contains no other.
LEMMA MinimalSubset ==
    ASSUME NEW S, IsFiniteSet(S), NEW Q \in SUBSET (SUBSET S), Q # {}
    PROVE  \E s \in Q : \A t \in Q : ~(t \subseteq s /\ t # s)
<1>1. IsWellFoundedOn(StrictSubsetOrdering(S), FiniteSubsetsOf(S))
  BY FS_StrictSubsetOrderingWellFounded
<1>2. Q \subseteq FiniteSubsetsOf(S)
  BY FS_Subset DEF FiniteSubsetsOf
<1>3. PICK s \in Q : \A t \in Q : <<t, s>> \notin StrictSubsetOrdering(S)
  BY <1>1, <1>2, WFMin
<1>4. QED
  BY <1>3 DEF StrictSubsetOrdering

\* Finitely many accounts have a first one in any total order, here given as the
\* set of its pairs.
LEMMA FirstExists ==
    ASSUME NEW S, IsFiniteSet(S), S # {}, NEW Before,
           \A a, b \in S : <<a, b>> \in Before \/ <<b, a>> \in Before,
           \A a, b, c \in S :
              <<a, b>> \in Before /\ <<b, c>> \in Before => <<a, c>> \in Before
    PROVE  \E a \in S : \A b \in S : <<a, b>> \in Before
<1> DEFINE Q == {s \in SUBSET S : s # {} /\ ~ \E a \in s : \A b \in s : <<a, b>> \in Before}
<1> SUFFICES ASSUME Q # {} PROVE FALSE
  <2>1. S \in SUBSET S
    OBVIOUS
  <2>2. QED
    BY <2>1
<1>1. PICK m \in Q : \A s \in Q : ~(s \subseteq m /\ s # m)
  <2> HIDE DEF Q
  <2>1. Q \in SUBSET (SUBSET S)
    BY DEF Q
  <2>2. QED
    BY <2>1, MinimalSubset
<1>2. m \in SUBSET S /\ m # {} /\ ~ \E a \in m : \A b \in m : <<a, b>> \in Before
  BY <1>1
<1>3. PICK x \in m : TRUE
  BY <1>2
<1> DEFINE rest == m \ {x}
<1>4. rest \in SUBSET S /\ rest \subseteq m /\ rest # m
  BY <1>2, <1>3
<1>5. <<x, x>> \in Before
  BY <1>2, <1>3
<1>6. CASE rest = {}
  <2>1. \A b \in m : b = x
    BY <1>6
  <2>2. QED
    BY <1>2, <1>3, <1>5, <2>1
<1>7. CASE rest # {}
  <2>1. \E a \in rest : \A b \in rest : <<a, b>> \in Before
    <3>1. rest \notin Q
      BY <1>1, <1>4
    <3>2. QED
      BY <1>4, <1>7, <3>1
  <2>2. PICK y \in rest : \A b \in rest : <<y, b>> \in Before
    BY <2>1
  <2>3. \A b \in m : b = x \/ b \in rest
    OBVIOUS
  <2>4. CASE <<y, x>> \in Before
    BY <1>2, <2>2, <2>3, <2>4
  <2>5. CASE <<x, y>> \in Before
    <3>1. \A b \in rest : <<x, b>> \in Before
      BY <1>2, <1>3, <2>2, <2>5
    <3>2. QED
      BY <1>2, <1>3, <1>5, <2>3, <3>1
  <2>6. QED
    BY <1>2, <1>3, <2>2, <2>4, <2>5
<1>8. QED
  BY <1>6, <1>7

\* Names tell accounts apart.
LEMMA RankFacts ==
    /\ \A a \in Accounts : NameRank[a] \in Nat /\ Priority[a] \in Int /\ Weight[a] \in Nat
    /\ \A a, b \in Accounts : NameRank[a] = NameRank[b] => a = b
BY SettingsAssumption

\* Ordered by one number and then by another.
LEMMA LeastFirst ==
    ASSUME NEW S, IsFiniteSet(S), S # {}, NEW key \in [S -> Int], NEW rank \in [S -> Int]
    PROVE  \E a \in S : \A b \in S : \/ key[a] < key[b]
                                     \/ key[a] = key[b] /\ rank[a] <= rank[b]
<1> DEFINE Before == {p \in S \X S : \/ key[p[1]] < key[p[2]]
                                     \/ key[p[1]] = key[p[2]] /\ rank[p[1]] <= rank[p[2]]}
<1>1. \A a, b \in S : <<a, b>> \in Before <=>
          \/ key[a] < key[b]
          \/ key[a] = key[b] /\ rank[a] <= rank[b]
  OBVIOUS
<1>2. \A a \in S : key[a] \in Int /\ rank[a] \in Int
  OBVIOUS
<1> HIDE DEF Before
<1>3. \A a, b \in S : <<a, b>> \in Before \/ <<b, a>> \in Before
  <2>1. TAKE a, b \in S
  <2>2. QED
    BY <1>1, <1>2
<1>4. \A a, b, c \in S :
          <<a, b>> \in Before /\ <<b, c>> \in Before => <<a, c>> \in Before
  BY <1>1, <1>2
<1>5. \E a \in S : \A b \in S : <<a, b>> \in Before
  BY <1>3, <1>4, FirstExists
<1>6. QED
  BY <1>1, <1>5

\* The lowest number comes first, and of those the first name.
LEMMA LowestFirst ==
    ASSUME NEW S \in SUBSET Accounts, S # {}, NEW key \in [Accounts -> Int]
    PROVE  \E a \in S : \A b \in S : \/ key[a] < key[b]
                                     \/ /\ key[a] = key[b]
                                        /\ NameRank[a] <= NameRank[b]
<1> DEFINE number == [a \in S |-> key[a]]
           rank == [a \in S |-> NameRank[a]]
<1>1. \A a \in S : key[a] \in Int /\ NameRank[a] \in Int
  BY RankFacts
<1>2. IsFiniteSet(S) /\ number \in [S -> Int] /\ rank \in [S -> Int]
  BY <1>1, AccountsAssumption, FS_Subset
<1>3. PICK a \in S : \A b \in S : \/ number[a] < number[b]
                                  \/ number[a] = number[b] /\ rank[a] <= rank[b]
  <2> HIDE DEF number, rank
  <2>1. QED
    BY <1>2, LeastFirst
<1>4. QED
  BY <1>1, <1>3

\* The highest number comes first, and of those the first name.
LEMMA HighestFirst ==
    ASSUME NEW S \in SUBSET Accounts, S # {}, NEW key \in [Accounts -> Int]
    PROVE  \E a \in S : \A b \in S : \/ key[b] < key[a]
                                     \/ /\ key[b] = key[a]
                                        /\ NameRank[a] <= NameRank[b]
<1> DEFINE number == [a \in S |-> -key[a]]
           rank == [a \in S |-> NameRank[a]]
<1>1. \A a \in S : key[a] \in Int /\ NameRank[a] \in Int
  BY RankFacts
<1>2. IsFiniteSet(S) /\ number \in [S -> Int] /\ rank \in [S -> Int]
  BY <1>1, AccountsAssumption, FS_Subset
<1>3. PICK a \in S : \A b \in S : \/ number[a] < number[b]
                                  \/ number[a] = number[b] /\ rank[a] <= rank[b]
  <2> HIDE DEF number, rank
  <2>1. QED
    BY <1>2, LeastFirst
<1>4. QED
  BY <1>1, <1>3

\* The highest number comes first, and of those the last name.
LEMMA HighestLast ==
    ASSUME NEW S \in SUBSET Accounts, S # {}, NEW key \in [Accounts -> Int]
    PROVE  \E a \in S : \A b \in S : \/ key[b] < key[a]
                                     \/ /\ key[b] = key[a]
                                        /\ NameRank[b] <= NameRank[a]
<1> DEFINE number == [a \in S |-> -key[a]]
           rank == [a \in S |-> -NameRank[a]]
<1>1. \A a \in S : key[a] \in Int /\ NameRank[a] \in Int
  BY RankFacts
<1>2. IsFiniteSet(S) /\ number \in [S -> Int] /\ rank \in [S -> Int]
  BY <1>1, AccountsAssumption, FS_Subset
<1>3. PICK a \in S : \A b \in S : \/ number[a] < number[b]
                                  \/ number[a] = number[b] /\ rank[a] <= rank[b]
  <2> HIDE DEF number, rank
  <2>1. QED
    BY <1>2, LeastFirst
<1>4. QED
  BY <1>1, <1>3

\* How many accounts of a pool have an earlier name.
Position(S, a) == Cardinality({b \in S : NameRank[b] < NameRank[a]})

\* The positions of a pool are 0, 1, 2, ..., each that of one account.
LEMMA PositionsFill ==
    ASSUME NEW S \in SUBSET Accounts
    PROVE  /\ \A a \in S : Position(S, a) \in 0..(Cardinality(S) - 1)
           /\ \A a, b \in S : Position(S, a) = Position(S, b) => a = b
           /\ \A k \in 0..(Cardinality(S) - 1) : \E a \in S : Position(S, a) = k
<1> DEFINE n == Cardinality(S)
           Below(a) == {b \in S : NameRank[b] < NameRank[a]}
           place == [a \in S |-> Position(S, a)]
<1>1. IsFiniteSet(S) /\ n \in Nat
  BY AccountsAssumption, FS_Subset, FS_CardinalityType
<1>2. \A a \in S : NameRank[a] \in Nat
  BY RankFacts
<1>3. ASSUME NEW a \in S
      PROVE  /\ IsFiniteSet(Below(a)) /\ Position(S, a) = Cardinality(Below(a))
             /\ Cardinality(Below(a)) \in Nat /\ Cardinality(Below(a)) < n
  <2>1. Below(a) \in SUBSET S /\ a \notin Below(a)
    BY <1>2
  <2>2. /\ IsFiniteSet(Below(a)) /\ Cardinality(Below(a)) <= n
        /\ Cardinality(S) = Cardinality(Below(a)) => S = Below(a)
    BY <1>1, <2>1, FS_Subset
  <2>3. Cardinality(Below(a)) \in Nat
    BY <2>2, FS_CardinalityType
  <2>4. S # Below(a)
    BY <2>1
  <2>5. QED
    BY <1>1, <2>2, <2>3, <2>4 DEF Position
<1>4. ASSUME NEW a \in S, NEW b \in S, NameRank[a] < NameRank[b]
      PROVE  Cardinality(Below(a)) < Cardinality(Below(b))
  <2>1. Below(a) \in SUBSET Below(b) /\ a \in Below(b) /\ a \notin Below(a)
    BY <1>2, <1>4
  <2> HIDE DEF Below
  <2>2. /\ Cardinality(Below(a)) <= Cardinality(Below(b))
        /\ Cardinality(Below(b)) = Cardinality(Below(a)) => Below(b) = Below(a)
    BY <1>3, <2>1, FS_Subset
  <2>3. Below(b) # Below(a)
    BY <2>1
  <2>4. QED
    BY <1>3, <2>2, <2>3
<1>5. \A a \in S : Position(S, a) \in 0..(n - 1)
  <2> HIDE DEF Below
  <2>1. QED
    BY <1>1, <1>3
<1>6. \A a, b \in S : Position(S, a) = Position(S, b) => a = b
  <2> HIDE DEF Below
  <2> SUFFICES ASSUME NEW a \in S, NEW b \in S, a # b
               PROVE  Position(S, a) # Position(S, b)
    OBVIOUS
  <2>1. NameRank[a] < NameRank[b] \/ NameRank[b] < NameRank[a]
    BY <1>2, RankFacts
  <2>2. QED
    BY <1>3, <1>4, <2>1
<1>7. place \in Injection(S, 0..(n - 1))
  BY <1>5, <1>6 DEF Injection, IsInjective
<1>8. IsFiniteSet(0..(n - 1)) /\ Cardinality(0..(n - 1)) = n
  BY <1>1, FS_Interval
<1>9. place \in Surjection(S, 0..(n - 1))
  BY <1>7, <1>8, FS_Injection
<1>10. \A k \in 0..(n - 1) : \E a \in S : place[a] = k
  BY <1>9 DEF Surjection
<1>11. QED
  BY <1>5, <1>6, <1>10

\* Every strategy finds an account among those it is given.
LEMMA ByStrategyChooses ==
    ASSUME NEW rows \in [Accounts -> Row], NEW avail \in SUBSET Accounts, avail # {},
           NEW strategy \in Strategies, NEW counter \in Nat
    PROVE  ByStrategy(rows, avail, strategy, counter) # {}
<1>1. Priority \in [Accounts -> Int]
  BY SettingsAssumption
<1>2. ASSUME NEW S \in SUBSET Accounts, S # {} PROVE DrainFirst(S) # {}
  BY <1>1, <1>2, HighestFirst DEF DrainFirst
<1>3. CASE strategy = "single_account"
  <2>1. SingleAccount(avail) # {}
    BY <1>1, HighestLast DEF SingleAccount
  <2>2. QED
    BY <1>3, <2>1 DEF ByStrategy
<1>4. CASE strategy = "round_robin"
  <2>1. IsFiniteSet(avail) /\ Cardinality(avail) \in Nat /\ Cardinality(avail) # 0
    BY AccountsAssumption, FS_Subset, FS_CardinalityType, FS_EmptySet
  <2>2. counter % Cardinality(avail) \in 0..(Cardinality(avail) - 1)
    BY <2>1
  <2>3. PICK a \in avail : Position(avail, a) = counter % Cardinality(avail)
    BY <2>2, PositionsFill
  <2>4. a \in RoundRobin(avail, counter)
    BY <2>3 DEF RoundRobin, Position
  <2>5. QED
    BY <1>4, <2>4 DEF ByStrategy
<1>5. CASE strategy = "least_used"
  <2> DEFINE key == [a \in Accounts |-> rows[a].total]
  <2>1. key \in [Accounts -> Int] /\ \A a \in avail : key[a] = rows[a].total
    BY DEF Row
  <2> HIDE DEF key
  <2>2. \E a \in avail : \A b \in avail :
            \/ key[a] < key[b]
            \/ key[a] = key[b] /\ NameRank[a] <= NameRank[b]
    BY <2>1, LowestFirst
  <2>3. LeastUsed(rows, avail) # {}
    BY <2>1, <2>2 DEF LeastUsed
  <2>4. QED
    BY <1>5, <2>3 DEF ByStrategy
<1>6. CASE strategy = "fill_first"
  <2> DEFINE roomy == {a \in avail : Headroom(rows[a]) > 1}
  <2>1. roomy \in SUBSET Accounts
    OBVIOUS
  <2> HIDE DEF roomy
  <2>2. DrainFirst(IF roomy # {} THEN roomy ELSE avail) # {}
    BY <1>2, <2>1
  <2>3. QED
    BY <1>6, <2>2 DEF ByStrategy, FillFirst, roomy
<1>7. CASE strategy = "capacity_weighted"
  <2> DEFINE key == [a \in Accounts |-> ResetAfter(rows[a])]
             soonest == {a \in avail : \A b \in avail :
                            \/ ResetAfter(rows[a]) < ResetAfter(rows[b])
                            \/ /\ ResetAfter(rows[a]) = ResetAfter(rows[b])
                               /\ rows[a].reset = 0 \/ NameRank[a] <= NameRank[b]}
  <2>1. \A a \in Accounts : ResetAfter(rows[a]) \in Int
    BY BreakerAssumption DEF ResetAfter, Row, Time, NoTime
  <2>2. key \in [Accounts -> Int] /\ \A a \in avail : key[a] = ResetAfter(rows[a])
    BY <2>1
  <2> HIDE DEF key
  <2>3. \E a \in avail : \A b \in avail :
            \/ key[a] < key[b]
            \/ key[a] = key[b] /\ NameRank[a] <= NameRank[b]
    BY <2>2, LowestFirst
  <2>4. soonest # {}
    BY <2>2, <2>3
  <2>5. QED
    BY <1>7, <2>4 DEF ByStrategy, CapacityWeighted
<1>8. QED
  BY <1>3, <1>4, <1>5, <1>6, <1>7 DEF Strategies

\* Every strategy picks among the accounts it is given.
LEMMA ByStrategyPicks ==
    ASSUME NEW rows, NEW avail, NEW strategy \in Strategies, NEW counter
    PROVE  ByStrategy(rows, avail, strategy, counter) \subseteq avail
<1>1. CASE strategy = "single_account"
  BY <1>1 DEF ByStrategy, SingleAccount
<1>2. CASE strategy = "round_robin"
  BY <1>2 DEF ByStrategy, RoundRobin
<1>3. CASE strategy = "least_used"
  BY <1>3 DEF ByStrategy, LeastUsed
<1>4. CASE strategy = "fill_first"
  BY <1>4 DEF ByStrategy, FillFirst, DrainFirst
<1>5. CASE strategy = "capacity_weighted"
  BY <1>5 DEF ByStrategy, CapacityWeighted
<1>6. QED
  BY <1>1, <1>2, <1>3, <1>4, <1>5 DEF Strategies

\* select_account returns an account of the pool that is available and has not
\* been tried.
LEMMA SelectionSound ==
    ASSUME NEW rows, NEW accounts, NEW excluded, NEW pinned, NEW preferred,
           NEW strategy \in Strategies, NEW counter
    PROVE  SelectAccount(rows, accounts, excluded, pinned, preferred, strategy, counter)
               \subseteq Available(rows, accounts \ excluded)
<1> DEFINE avail == Available(rows, accounts \ excluded)
<1>1. ByStrategy(rows, avail, strategy, counter) \subseteq avail
  BY ByStrategyPicks
<1>2. QED
  BY <1>1 DEF SelectAccount

LEMMA AvailableInPool ==
    ASSUME NEW rows, NEW pool
    PROVE  Available(rows, pool) \subseteq pool
BY DEF Available

\* It returns one whenever there is one that the pin allows.
LEMMA SelectionFinds ==
    ASSUME NEW rows \in [Accounts -> Row], NEW accounts \in SUBSET Accounts, NEW excluded,
           NEW pinned, NEW preferred, NEW strategy \in Strategies, NEW counter \in Nat,
           NEW a \in Available(rows, accounts \ excluded), pinned \in {NoAccount, a}
    PROVE  SelectAccount(rows, accounts, excluded, pinned, preferred, strategy, counter) # {}
<1> DEFINE avail == Available(rows, accounts \ excluded)
<1>1. avail \in SUBSET Accounts /\ avail # {} /\ a \in avail
  BY AvailableInPool
<1>2. ByStrategy(rows, avail, strategy, counter) # {}
  BY <1>1, ByStrategyChooses
<1>3. a # NoAccount
  BY <1>1, NoAccountAssumption
<1> HIDE DEF avail
<1>4. CASE pinned = NoAccount
  BY <1>1, <1>2, <1>4 DEF SelectAccount, avail
<1>5. CASE pinned = a
  BY <1>1, <1>3, <1>5 DEF SelectAccount, avail
<1>6. QED
  BY <1>4, <1>5

\* Division with a remainder, and that the remainder is the only one.
LEMMA Remainder ==
    ASSUME NEW n \in Nat \ {0}, NEW x \in Nat
    PROVE  /\ x % n \in 0..(n - 1)
           /\ x = n * (x \div n) + (x % n)
           /\ x \div n \in Nat
<1>1. x % n \in 0..(n - 1)
  OBVIOUS
<1>2. x = n * (x \div n) + (x % n)
  OBVIOUS
<1>3. x \div n \in Int
  OBVIOUS
<1>4. QED
  BY <1>1, <1>2, <1>3

LEMMA RemainderUnique ==
    ASSUME NEW n \in Nat \ {0}, NEW x \in Nat,
           NEW k \in 0..(n - 1), NEW u \in Nat, x = n * u + k
    PROVE  x % n = k
<1> DEFINE v == x \div n
           m == x % n
<1>1. m \in 0..(n - 1) /\ v \in Nat /\ n * u + k = n * v + m
  BY Remainder
<1> HIDE DEF v, m
<1>2. CASE u < v
  <2>1. n * (u + 1) <= n * v
    BY <1>1, <1>2
  <2>2. QED
    BY <1>1, <2>1
<1>3. CASE v < u
  <2>1. n * (v + 1) <= n * u
    BY <1>1, <1>3
  <2>2. QED
    BY <1>1, <2>1
<1>4. CASE u = v
  BY <1>1, <1>4 DEF m
<1>5. QED
  BY <1>1, <1>2, <1>3, <1>4

\* A remainder modulo a multiple of n is the same modulo n.
LEMMA RemainderOfMultiple ==
    ASSUME NEW n \in Nat \ {0}, NEW period \in Nat \ {0}, period % n = 0, NEW x \in Nat
    PROVE  (x % period) % n = x % n
<1> DEFINE q == period \div n
           y == x % period
           t == x \div period
           s == y \div n
           k == y % n
<1>1. period = n * q /\ q \in Nat
  BY Remainder
<1>2. y \in Nat /\ t \in Nat /\ x = period * t + y
  BY Remainder
<1>3. k \in 0..(n - 1) /\ s \in Nat /\ y = n * s + k
  BY <1>2, Remainder
<1> HIDE DEF q, y, t, s, k
<1>4. x = n * (q * t + s) + k /\ q * t + s \in Nat
  BY <1>1, <1>2, <1>3
<1>5. x % n = k
  BY <1>3, <1>4, RemainderUnique
<1>6. QED
  BY <1>5 DEF k, y

\* Counting on from any number goes once through all remainders.
LEMMA RemaindersFill ==
    ASSUME NEW n \in Nat \ {0}, NEW x \in Nat, NEW k \in 0..(n - 1)
    PROVE  \E i \in 1..n : (x + i) % n = k
<1> DEFINE u == x \div n
           m == x % n
<1>1. m \in 0..(n - 1) /\ u \in Nat /\ x = n * u + m
  BY Remainder
<1> HIDE DEF u, m
<1>2. CASE m < k
  <2>1. k - m \in 1..n /\ x + (k - m) \in Nat /\ x + (k - m) = n * u + k
    BY <1>1, <1>2
  <2>2. QED
    BY <1>1, <2>1, RemainderUnique
<1>3. CASE k <= m
  <2> DEFINE i == k - m + n
  <2>1. /\ i \in 1..n /\ x + i \in Nat
        /\ x + i = n * (u + 1) + k /\ u + 1 \in Nat
    BY <1>1, <1>3
  <2> HIDE DEF i
  <2>2. (x + i) % n = k
    BY <2>1, RemainderUnique
  <2>3. QED
    BY <2>1, <2>2
<1>4. QED
  BY <1>1, <1>2, <1>3

-----------------------------------------------------------------------------
(* What selection promises, in every state in which the rows are rows *)

LEMMA UsableAvailable ==
    ASSUME row \in [Accounts -> Row], NEW excluded
    PROVE  /\ Available(row, Accounts \ excluded) = Usable(excluded)
           /\ Usable(excluded) \in SUBSET Accounts
<1>1. \A a \in Accounts : row[a].cooldown \in Int
  BY DEF Row, Time, NoTime
<1>2. \A a \in Accounts : IsAvailable(row[a]) <=> row[a].enabled /\ row[a].cooldown < 1
  BY <1>1 DEF IsAvailable
<1>3. QED
  BY <1>2 DEF Available, Usable

LEMMA CompleteInState ==
    ASSUME row \in [Accounts -> Row], rr \in Nat PROVE SelectionComplete
<1> SUFFICES ASSUME NEW excluded \in SUBSET Accounts, NEW strategy \in Strategies,
                    NEW preferred \in Accounts \cup {NoAccount}
             PROVE  /\ Chosen(excluded, NoAccount, preferred, strategy) \subseteq Usable(excluded)
                    /\ Chosen(excluded, NoAccount, preferred, strategy) = {}
                          <=> Usable(excluded) = {}
  BY DEF SelectionComplete
<1>1. Chosen(excluded, NoAccount, preferred, strategy) \subseteq Usable(excluded)
  <2>1. Chosen(excluded, NoAccount, preferred, strategy)
            \subseteq Available(row, Accounts \ excluded)
    BY SelectionSound DEF Chosen
  <2>2. QED
    BY <2>1, UsableAvailable
<1>2. ASSUME NEW a \in Usable(excluded)
      PROVE  Chosen(excluded, NoAccount, preferred, strategy) # {}
  BY SelectionFinds, UsableAvailable DEF Chosen
<1>3. QED
  BY <1>1, <1>2

LEMMA YieldsInState ==
    ASSUME row \in [Accounts -> Row] PROVE AffinityYields
<1> SUFFICES ASSUME NEW excluded \in SUBSET Accounts, NEW strategy \in Strategies,
                    NEW preferred \in Accounts
             PROVE  /\ \A pinned \in Accounts :
                          Chosen(excluded, pinned, preferred, strategy)
                              = Chosen(excluded, pinned, NoAccount, "round_robin")
                    /\ Chosen(excluded, NoAccount, preferred, strategy) =
                          IF preferred \in Usable(excluded) /\ strategy # "single_account"
                          THEN {preferred}
                          ELSE Chosen(excluded, NoAccount, NoAccount, strategy)
  BY DEF AffinityYields
<1>1. NoAccount \notin Usable(excluded)
  BY UsableAvailable, NoAccountAssumption
<1>2. ASSUME NEW pinned \in Accounts
      PROVE  Chosen(excluded, pinned, preferred, strategy)
                 = Chosen(excluded, pinned, NoAccount, "round_robin")
  <2>1. pinned # NoAccount
    BY NoAccountAssumption
  <2>2. QED
    BY <2>1 DEF Chosen, SelectAccount
<1>3. Chosen(excluded, NoAccount, preferred, strategy) =
          IF preferred \in Usable(excluded) /\ strategy # "single_account"
          THEN {preferred}
          ELSE Chosen(excluded, NoAccount, NoAccount, strategy)
  BY <1>1, UsableAvailable DEF Chosen, SelectAccount
<1>4. QED
  BY <1>2, <1>3

\* An account has headroom exactly when it is not spent.
LEMMA HeadroomOfRow ==
    ASSUME row \in [Accounts -> Row], NEW a \in Accounts
    PROVE  Headroom(row[a]) > 0 <=> NotSpent(a)
<1>1. row[a].requests \in Levels /\ row[a].tokens \in Levels
  BY DEF Row
<1>2. \A level \in Levels : /\ LevelShare(level) \in 0..2
                            /\ LevelShare(level) > 0 <=> level # "spent"
  BY DEF LevelShare, Levels
<1>3. CASE row[a].reset = 0
  BY <1>3 DEF Headroom, NotSpent
<1>4. CASE row[a].reset # 0
  <2>1. NotSpent(a) <=> row[a].requests # "spent" /\ row[a].tokens # "spent"
    BY <1>4 DEF NotSpent
  <2>2. Headroom(row[a]) > 0
            <=> LevelShare(row[a].requests) > 0 /\ LevelShare(row[a].tokens) > 0
    BY <1>1, <1>2, <1>4 DEF Headroom
  <2>3. QED
    BY <1>1, <1>2, <2>1, <2>2
<1>5. QED
  BY <1>3, <1>4

LEMMA SparesInState ==
    ASSUME row \in [Accounts -> Row] PROVE SparesSpentAccounts
<1> SUFFICES ASSUME NEW excluded \in SUBSET Accounts,
                    NEW a \in Chosen(excluded, NoAccount, NoAccount, "capacity_weighted"),
                    NEW b \in Usable(excluded),
                    Weight[b] > 0, NotSpent(b)
             PROVE  Weight[a] > 0 /\ NotSpent(a)
  BY DEF SparesSpentAccounts
<1> DEFINE avail == Usable(excluded)
           weighted == {c \in avail : Weight[c] > 0 /\ Headroom(row[c]) > 0}
<1>1. avail \in SUBSET Accounts /\ NoAccount \notin avail /\ avail # {}
  BY UsableAvailable, NoAccountAssumption
<1>2. Chosen(excluded, NoAccount, NoAccount, "capacity_weighted")
          = CapacityWeighted(row, avail)
  BY <1>1, UsableAvailable DEF Chosen, SelectAccount, ByStrategy
<1>3. CapacityWeighted(row, avail) = weighted
  <2>1. b \in weighted
    BY <1>1, HeadroomOfRow
  <2>2. QED
    BY <2>1 DEF CapacityWeighted
<1>4. Weight[a] > 0 /\ Headroom(row[a]) > 0 /\ a \in Accounts
  BY <1>1, <1>2, <1>3
<1>5. QED
  BY <1>4, HeadroomOfRow

LEMMA FairInState ==
    ASSUME row \in [Accounts -> Row], rr \in Nat PROVE RoundRobinFair
<1> DEFINE avail == Usable({})
           n == Cardinality(avail)
           Pick(i) == SelectAccount(row, Accounts, {}, NoAccount, NoAccount, "round_robin",
                                    (rr + i) % RRPeriod)
<1>1. avail \in SUBSET Accounts /\ NoAccount \notin avail
  BY UsableAvailable, NoAccountAssumption
<1>2. IsFiniteSet(avail) /\ n \in Nat /\ n <= Cardinality(Accounts) /\ (n = 0 <=> avail = {})
  BY <1>1, AccountsAssumption, FS_Subset, FS_CardinalityType, FS_EmptySet
<1>3. n # 0 => n \in 1..Cardinality(Accounts) /\ RRPeriod % n = 0
  BY <1>2, AccountsAssumption, FS_CardinalityType, PeriodAssumption
<1>4. ASSUME NEW i \in 1..n
      PROVE  Pick(i) = {a \in avail : Position(avail, a) = (rr + i) % n}
  <2>1. avail # {} /\ n \in Nat \ {0} /\ rr + i \in Nat
    BY <1>2
  <2>2. ((rr + i) % RRPeriod) % n = (rr + i) % n
    <3> HIDE DEF n
    <3>1. QED
      BY <1>3, <2>1, PeriodAssumption, RemainderOfMultiple
  <2>3. Pick(i) = RoundRobin(avail, (rr + i) % RRPeriod)
    BY <1>1, <2>1, UsableAvailable DEF SelectAccount, ByStrategy
  <2>4. QED
    BY <2>2, <2>3 DEF RoundRobin, Position
<1>5. ASSUME NEW i \in 1..n PROVE Cardinality(Pick(i)) = 1
  <2>1. n \in Nat \ {0} /\ rr + i \in Nat
    BY <1>2
  <2>2. (rr + i) % n \in 0..(n - 1)
    <3> HIDE DEF n
    <3>1. QED
      BY <2>1, Remainder
  <2>3. PICK a \in avail : Position(avail, a) = (rr + i) % n
    BY <1>1, <2>2, PositionsFill
  <2>4. Pick(i) = {a}
    BY <1>1, <1>4, <2>3, PositionsFill
  <2>5. QED
    BY <2>4, FS_Singleton
<1>6. UNION {Pick(i) : i \in 1..n} = avail
  <2>1. \A i \in 1..n : Pick(i) \subseteq avail
    BY <1>4
  <2>2. ASSUME NEW a \in avail PROVE \E i \in 1..n : a \in Pick(i)
    <3>1. n \in Nat \ {0} /\ Position(avail, a) \in 0..(n - 1)
      BY <1>1, <1>2, PositionsFill
    <3>2. PICK i \in 1..n : (rr + i) % n = Position(avail, a)
      <4> HIDE DEF n
      <4>1. QED
        BY <3>1, RemaindersFill
    <3>3. a \in Pick(i)
      BY <1>4, <3>2
    <3>4. QED
      BY <3>3
  <2> HIDE DEF Pick, avail, n
  <2>3. QED
    BY <2>1, <2>2
<1>7. QED
  BY <1>5, <1>6 DEF RoundRobinFair

-----------------------------------------------------------------------------
(* Rows keep their type *)

LEMMA TimeFacts ==
    /\ NoTime \in Time
    /\ \A n \in Nat : n \in Time
    /\ \A t \in Time : Later(t) \in Time /\ t \in Int
BY DEF Time, NoTime, Later

LEMMA FreshRowType ==
    ASSUME NEW enabled \in BOOLEAN PROVE FreshRow(enabled) \in Row
BY TimeFacts DEF FreshRow, Row, Levels, Reasons

LEMMA AgedType ==
    ASSUME NEW account \in Row PROVE Aged(account) \in Row
BY TimeFacts DEF Aged, Row

LEMMA HeadersType ==
    ASSUME NEW account \in Row, NEW headers \in Headers
    PROVE  ApplyRateLimitHeaders(account, headers) \in Row
BY DEF ApplyRateLimitHeaders, Row, Headers, Levels

LEMMA SuccessType ==
    ASSUME NEW account \in Row PROVE RecordSuccess(account) \in Row
BY TimeFacts DEF RecordSuccess, Row, Reasons

LEMMA WaitType ==
    ASSUME NEW account \in Row, NEW retryAfter \in Time
    PROVE  RateLimitWait(account, retryAfter) \in Nat
BY BreakerAssumption DEF RateLimitWait, Row, Time, NoTime, Least

LEMMA FailureType ==
    ASSUME NEW account \in Row, NEW fault \in {"auth", "limited", "error"},
           NEW retryAfter \in Time
    PROVE  RecordFailure(account, fault, retryAfter) \in Row
<1>1. CASE fault = "auth"
  BY <1>1, TimeFacts DEF RecordFailure, Row, Reasons
<1>2. CASE fault = "limited"
  BY <1>2, WaitType, TimeFacts DEF RecordFailure, Row, Drained, Levels
<1>3. CASE fault = "error"
  <2>1. Least(FAILURE_BACKOFF * (account.failures + 1), MAX_BACKOFF) \in Nat
    BY BreakerAssumption DEF Least, Row
  <2>2. account.failures + 1 \in Nat
    BY DEF Row
  <2>3. QED
    BY <1>3, <2>1, <2>2, TimeFacts DEF RecordFailure, Row, Reasons
<1>4. QED
  BY <1>1, <1>2, <1>3

LEMMA FoldType ==
    ASSUME NEW account \in Row, NEW verdict PROVE Fold(account, verdict) \in Row
<1>1. [account EXCEPT !.enabled = TRUE] \in Row
  BY DEF Row
<1>2. [account EXCEPT !.enabled = FALSE, !.reason = "probe"] \in Row
  BY DEF Row, Reasons
<1>3. QED
  BY <1>1, <1>2, SuccessType DEF Fold

LEMMA PatchedType ==
    ASSUME NEW account \in Row, NEW change \in {"enable", "disable", "token"}
    PROVE  Patched(account, change) \in Row
BY TimeFacts DEF Patched, Row, Reasons

LEMMA GrantType ==
    ASSUME NEW account \in Row
    PROVE  GrantSucceeded(account) \in Row /\ GrantFailed(account) \in Row
<1>1. account.refreshFailures + 1 \in Nat
  BY DEF Row
<1>2. GrantSucceeded(account) \in Row
  BY DEF GrantSucceeded, Row
<1>3. GrantFailed(account) \in Row
  BY <1>1 DEF GrantFailed, Row, Reasons
<1>4. QED
  BY <1>2, <1>3

LEMMA OverlayType ==
    ASSUME NEW base \in Row, NEW new \in Row, NEW cols
    PROVE  Overlay(base, new, cols) \in Row
BY DEF Overlay, Row

LEMMA SessionType ==
    ASSUME NEW old \in Row, NEW new \in Row, NEW stamped \in BOOLEAN
    PROVE  Writing(old, new, stamped) \in Session
<1>1. Blank \in Row
  BY FreshRowType DEF Blank
<1>2. Changed(old, new) \subseteq Columns
  BY DEF Changed, Row, Columns
<1> DEFINE cols == Changed(old, new) \cup IF stamped THEN {"stamp"} ELSE {}
<1>3. cols \subseteq Columns
  BY <1>2 DEF Columns
<1>4. Overlay(Blank, new, cols) \in Row
  BY <1>1, OverlayType
<1>5. QED
  BY <1>3, <1>4 DEF Writing, Session

LEMMA NoSessionType == NoSession \in Session
BY FreshRowType DEF NoSession, Session, Blank

LEMMA CommittedType ==
    ASSUME NEW a \in Accounts, row[a] \in Row, NEW s \in Session
    PROVE  Committed(a, s) \in Row
BY OverlayType DEF Committed, Session

-----------------------------------------------------------------------------
(* Requests keep their type *)

LEMMA HeadersFacts == NoHeaders \in Headers
BY TimeFacts DEF NoHeaders, Headers, Levels

LEMMA NewRequestType == NewRequest \in Request /\ WellFormed(NewRequest)
BY SetupAssumption, HeadersFacts, TimeFacts
   DEF NewRequest, Request, WellFormed, PCs, Faults, Results

LEMMA FinishType ==
    ASSUME NEW q \in Request, NEW result \in Results
    PROVE  Finish(q, result) \in Request /\ WellFormed(Finish(q, result))
BY HeadersFacts, TimeFacts DEF Finish, Request, WellFormed, PCs, Faults

LEMMA ContinueType ==
    ASSUME NEW q \in Request
    PROVE  Continue(q) \in Request /\ WellFormed(Continue(q))
<1>1. CASE q.attempt = MaxAttempts
  BY <1>1, FinishType DEF Continue, Results
<1>2. CASE q.attempt # MaxAttempts
  <2>1. q.attempt + 1 \in 1..MaxAttempts
    BY <1>2, SetupAssumption DEF Request
  <2>2. QED
    BY <1>2, <2>1, HeadersFacts, TimeFacts DEF Continue, Request, WellFormed, PCs, Faults
<1>3. QED
  BY <1>1, <1>2

LEMMA FailType ==
    ASSUME NEW q \in Request, q.acct \in Accounts,
           NEW fault \in {"auth", "limited", "error"},
           NEW retryAfter \in Time, NEW headers \in Headers
    PROVE  /\ Fail(q, fault, retryAfter, headers) \in Request
           /\ WellFormed(Fail(q, fault, retryAfter, headers))
BY DEF Fail, Request, PCs, Faults, WellFormed

LEMMA RefreshedType ==
    ASSUME NEW q \in Request, q.acct \in Accounts
    PROVE  /\ Refreshed(q) \in Request
           /\ WellFormed(Refreshed(q))
BY ContinueType DEF Refreshed, Request, PCs, WellFormed

LEMMA RefreshFailedType ==
    ASSUME NEW q \in Request, q.acct \in Accounts
    PROVE  /\ RefreshFailed(q) \in Request
           /\ WellFormed(RefreshFailed(q))
<1> DEFINE t == [q EXCEPT !.tried = @ \cup {q.acct}]
<1>1. t \in Request /\ t.acct = q.acct
  BY DEF Request
<1>3. /\ Fail(t, "auth", NoTime, NoHeaders) \in Request
      /\ WellFormed(Fail(t, "auth", NoTime, NoHeaders))
  BY <1>1, FailType, TimeFacts, HeadersFacts
<1>4. /\ Fail(q, "error", NoTime, NoHeaders) \in Request
      /\ WellFormed(Fail(q, "error", NoTime, NoHeaders))
  BY FailType, TimeFacts, HeadersFacts
<1>5. QED
  BY <1>3, <1>4 DEF RefreshFailed

-----------------------------------------------------------------------------
(* Type correctness *)

LEMMA InitType == Init => TypeOK
<1> SUFFICES ASSUME Init PROVE TypeOK
  OBVIOUS
<1>1. \A a \in Accounts : FreshRow(a \in Initial) \in Row
  <2>1. \A b \in BOOLEAN : FreshRow(b) \in Row
    BY FreshRowType
  <2>2. TAKE a \in Accounts
  <2>3. (a \in Initial) \in BOOLEAN
    OBVIOUS
  <2>4. QED
    BY <2>1, <2>3, Zenon
<1>2. row \in [Accounts -> Row]
  BY <1>1, Zenon DEF Init
<1>3. req \in [Requests -> Request] /\ \A r \in Requests : WellFormed(req[r])
  BY NewRequestType DEF Init
<1>4. sess \in [Writers -> [Accounts -> Session]]
  BY NoSessionType DEF Init
<1>5. round \in [Probers -> Round]
  BY DEF Init, NoRound, Round
<1>6. rr \in 0..(RRPeriod - 1)
  BY PeriodAssumption DEF Init
<1>7. QED
  BY <1>2, <1>3, <1>4, <1>5, <1>6 DEF Init, TypeOK

\* The history keeps its type whatever the step.
LEMMA ObserveType ==
    ASSUME TypeOK, Observe PROVE usable' \in [Requests -> SUBSET Accounts]
<1>1. \A r \in Requests : UsableNow(r)' \subseteq Accounts
  BY DEF UsableNow, Available, Present
<1> DEFINE next(r) == CASE req'[r].pc = "done" -> {}
                        [] req'[r].pc # "done" /\ req[r].pc = "select" /\ req[r].attempt = 1
                              -> UsableNow(r)'
                        [] OTHER -> usable[r] \cap UsableNow(r)'
<1>2. usable' = [r \in Requests |-> next(r)]
  BY DEF Observe
<1>3. ASSUME NEW r \in Requests PROVE next(r) \subseteq Accounts
  <2>1. UsableNow(r)' \subseteq Accounts
    BY <1>1
  <2>2. QED
    BY <2>1
<1> HIDE DEF next
<1>4. QED
  BY <1>2, <1>3

\* A step that changes the state of one request.
LEMMA RequestUpdate ==
    ASSUME TypeOK, NEW r \in Requests, NEW q \in Request,
           WellFormed(q),
           req' = [req EXCEPT ![r] = q]
    PROVE  /\ req' \in [Requests -> Request]
           /\ \A s \in Requests : WellFormed(req'[s])
BY DEF TypeOK

LEMMA SessUpdate ==
    ASSUME TypeOK, NEW w \in Writers, NEW a \in Accounts, NEW s \in Session,
           sess' = [sess EXCEPT ![w][a] = s]
    PROVE  sess' \in [Writers -> [Accounts -> Session]]
BY DEF TypeOK

LEMMA RowUpdate ==
    ASSUME TypeOK, NEW a \in Accounts, NEW new \in Row,
           row' = [row EXCEPT ![a] = new]
    PROVE  row' \in [Accounts -> Row]
BY DEF TypeOK

\* What the steps of a request do to the types.
LEMMA RequestStepType ==
    ASSUME TypeOK, NEW r \in Requests, RequestStep(r) PROVE TypeOK'
<1> DEFINE q == req[r]
           a == q.acct
<1> USE SetupAssumption
<1>0. q \in Request /\ WellFormed(q) /\ r \in Writers
  BY DEF TypeOK, Writers
<1>1. Observe => usable' \in [Requests -> SUBSET Accounts]
  BY ObserveType
<1>2. CASE Select(r)
  <2> DEFINE accounts == FilterByModel(Present)
  <2>1. PICK preferred \in Preferences(q, accounts) :
          LET choices == SelectAccount(row, accounts, q.tried, Pinned[r], preferred,
                                       Strategy, rr)
          IN  /\ \/ \E b \in choices :
                      req' = [req EXCEPT ![r].pc = "resolve", ![r].acct = b,
                                         ![r].tried = @ \cup {b}]
                 \/ req' = [req EXCEPT ![r] = Finish(@,
                              IF q.tried = {} THEN "unavailable" ELSE "accounts_spent")]
              /\ rr' = IF UsesCounter(row, accounts, q.tried, Pinned[r], preferred, Strategy)
                       THEN (rr + 1) % RRPeriod ELSE rr
    BY <1>2 DEF Select
  <2> DEFINE choices == SelectAccount(row, accounts, q.tried, Pinned[r], preferred,
                                      Strategy, rr)
  <2>2. choices \subseteq Accounts
    <3>1. choices \subseteq Available(row, accounts \ q.tried)
      BY SelectionSound
    <3>2. Available(row, accounts \ q.tried) \subseteq accounts \ q.tried
      BY AvailableInPool
    <3>3. accounts \subseteq Accounts
      BY DEF FilterByModel, Present
    <3> HIDE DEF accounts, choices
    <3>4. QED
      BY <3>1, <3>2, <3>3
  <2>3. /\ req' \in [Requests -> Request]
        /\ \A s \in Requests : WellFormed(req'[s])
    <3>1. CASE \E b \in choices :
                 req' = [req EXCEPT ![r].pc = "resolve", ![r].acct = b, ![r].tried = @ \cup {b}]
      <4>1. PICK b \in choices :
                 req' = [req EXCEPT ![r].pc = "resolve", ![r].acct = b, ![r].tried = @ \cup {b}]
        BY <3>1
      <4> DEFINE n == [q EXCEPT !.pc = "resolve", !.acct = b, !.tried = @ \cup {b}]
      <4>2. n \in Request /\ WellFormed(n)
        BY <1>0, <2>2 DEF Request, PCs, WellFormed
      <4>3. req' = [req EXCEPT ![r] = n]
        BY <4>1 DEF TypeOK
      <4>4. QED
        BY <4>2, <4>3, RequestUpdate
    <3>2. CASE req' = [req EXCEPT ![r] = Finish(@,
                              IF q.tried = {} THEN "unavailable" ELSE "accounts_spent")]
      <4> DEFINE result == IF q.tried = {} THEN "unavailable" ELSE "accounts_spent"
      <4>1. result \in Results
        BY DEF Results
      <4>2. Finish(q, result) \in Request /\ WellFormed(Finish(q, result))
        BY <1>0, <4>1, FinishType
      <4>3. QED
        BY <3>2, <4>2, RequestUpdate DEF TypeOK
    <3>3. QED
      BY <2>1, <3>1, <3>2
  <2>4. rr' \in 0..(RRPeriod - 1)
    <3>1. rr' = (rr + 1) % RRPeriod \/ rr' = rr
      BY <2>1, Zenon
    <3>2. rr \in 0..(RRPeriod - 1) /\ RRPeriod \in Nat \ {0}
      BY PeriodAssumption DEF TypeOK
    <3>3. (rr + 1) % RRPeriod \in 0..(RRPeriod - 1)
      BY <3>2
    <3>4. QED
      BY <3>1, <3>2, <3>3
  <2>5. QED
    BY <1>1, <1>2, <2>3, <2>4 DEF Select, TypeOK
<1>3. CASE Resolve(r)
  <2>1. PICK pc \in {"send", "refresh"} : req' = [req EXCEPT ![r].pc = pc]
    BY <1>3 DEF Resolve
  <2> DEFINE n == [q EXCEPT !.pc = pc]
  <2>2. n \in Request /\ WellFormed(n)
    BY <1>0, <1>3 DEF Resolve, Request, PCs, WellFormed
  <2>3. req' = [req EXCEPT ![r] = n]
    BY <2>1 DEF TypeOK
  <2>4. /\ req' \in [Requests -> Request]
        /\ \A s \in Requests : WellFormed(req'[s])
    BY <2>2, <2>3, RequestUpdate
  <2>5. QED
    BY <1>1, <1>3, <2>4 DEF Resolve, TypeOK
<1>4. CASE RefreshLoad(r)
  <2>1. a \in Accounts
    BY <1>0, <1>4 DEF RefreshLoad, WellFormed
  <2>2. PICK n : /\ n \in {RefreshFailed(q), Refreshed(q), [q EXCEPT !.pc = "grant"]}
                 /\ req' = [req EXCEPT ![r] = n]
    BY <1>4 DEF RefreshLoad, TypeOK
  <2>3. n \in Request /\ WellFormed(n)
    BY <1>0, <2>1, <2>2, RefreshFailedType, RefreshedType DEF Request, PCs, WellFormed
  <2>4. /\ req' \in [Requests -> Request]
        /\ \A s \in Requests : WellFormed(req'[s])
    BY <2>2, <2>3, RequestUpdate
  <2>5. sess' \in [Writers -> [Accounts -> Session]]
    <3> DEFINE s == [open |-> TRUE, cols |-> {}, new |-> row[a]]
    <3>1. s \in Session
      BY <2>1 DEF TypeOK, Session
    <3>2. CASE sess' = [sess EXCEPT ![r][a] = s]
      BY <1>0, <2>1, <3>1, <3>2, SessUpdate
    <3>3. CASE UNCHANGED sess
      BY <3>3 DEF TypeOK
    <3>4. QED
      BY <1>4, <3>2, <3>3 DEF RefreshLoad
  <2>6. lock' \in [Accounts -> Requests \cup {NoWriter}]
    BY <1>4, <2>1 DEF RefreshLoad, TypeOK
  <2>7. QED
    BY <1>1, <1>4, <2>4, <2>5, <2>6 DEF RefreshLoad, TypeOK
<1>5. CASE GrantReply(r)
  <2>1. a \in Accounts
    BY <1>0, <1>5 DEF GrantReply, WellFormed
  <2> DEFINE old == sess[r][a].new
  <2>2. old \in Row
    BY <1>0, <2>1 DEF TypeOK, Session
  <2>3. PICK n \in {Refreshed(q), RefreshFailed(q), Finish(q, "crashed")},
             s \in {Writing(old, GrantSucceeded(old), TRUE),
                    Writing(old, GrantFailed(old), TRUE)} :
                    /\ req' = [req EXCEPT ![r] = n]
                    /\ row' = [row EXCEPT ![a] = Committed(a, s)] \/ row' = row
    <3>1. PICK ok \in BOOLEAN :
            LET new == IF ok THEN GrantSucceeded(old) ELSE GrantFailed(old)
            IN  IF live[a] = "live"
                THEN /\ row' = [row EXCEPT ![a] = Committed(a, Writing(old, new, TRUE))]
                     /\ req' = [req EXCEPT ![r] =
                                   IF ok THEN Refreshed(@) ELSE RefreshFailed(@)]
                ELSE /\ req' = [req EXCEPT ![r] = Finish(@, "crashed")]
                     /\ UNCHANGED row
      BY <1>5 DEF GrantReply
    <3> HIDE DEF old
    <3>2. CASE live[a] # "live"
      BY <3>1, <3>2
    <3>3. CASE live[a] = "live" /\ ok
      BY <3>1, <3>3
    <3>4. CASE live[a] = "live" /\ ~ok
      BY <3>1, <3>4
    <3>5. QED
      BY <3>2, <3>3, <3>4
  <2>4. n \in Request /\ WellFormed(n)
    BY <1>0, <2>1, <2>3, RefreshFailedType, RefreshedType, FinishType DEF Results
  <2>5. /\ req' \in [Requests -> Request]
        /\ \A t \in Requests : WellFormed(req'[t])
    BY <2>3, <2>4, RequestUpdate
  <2>6. s \in Session
    BY <2>2, <2>3, GrantType, SessionType
  <2>7. row' \in [Accounts -> Row]
    <3>1. row[a] \in Row
      BY <2>1 DEF TypeOK
    <3>2. Committed(a, s) \in Row
      BY <2>1, <2>6, <3>1, CommittedType
    <3>3. QED
      BY <2>1, <2>3, <3>2, RowUpdate DEF TypeOK
  <2>8. sess' \in [Writers -> [Accounts -> Session]]
    BY <1>0, <1>5, <2>1, NoSessionType, SessUpdate DEF GrantReply
  <2>9. lock' \in [Accounts -> Requests \cup {NoWriter}]
    BY <1>5, <2>1 DEF GrantReply, LockAfterGrant, TypeOK
  <2>10. QED
    BY <1>1, <1>5, <2>5, <2>7, <2>8, <2>9 DEF GrantReply, TypeOK
<1>6. ASSUME NEW n \in Request, WellFormed(n), Answered(r, n)
      PROVE  TypeOK'
  <2>1. a \in Accounts
    BY <1>0, <1>6 DEF Answered, WellFormed
  <2>2. /\ req' \in [Requests -> Request]
        /\ \A t \in Requests : WellFormed(req'[t])
    BY <1>6, RequestUpdate DEF Answered
  <2>3. sends' \in [Requests -> [Accounts -> Nat]]
    BY <1>6, <2>1 DEF Answered, TypeOK
  <2>4. QED
    BY <1>1, <1>6, <2>2, <2>3 DEF Answered, TypeOK
<1>7. CASE AnswerRelay(r)
  <2>1. PICK h \in HeaderChoices, fault \in {"none", "broken"} :
          Answered(r, [q EXCEPT !.pc = "success", !.headers = h, !.fault = fault])
    BY <1>7 DEF AnswerRelay
  <2> DEFINE n == [q EXCEPT !.pc = "success", !.headers = h, !.fault = fault]
  <2>2. a \in Accounts
    BY <1>0, <2>1 DEF Answered, WellFormed
  <2>3. n \in Request /\ WellFormed(n)
    BY <1>0, <2>2 DEF Request, PCs, Faults, WellFormed
  <2>4. QED
    BY <1>6, <2>1, <2>3
<1>8. CASE AnswerBroken(r)
  <2>1. Finish(q, "broken") \in Request /\ WellFormed(Finish(q, "broken"))
    BY <1>0, FinishType DEF Results
  <2>2. QED
    BY <1>6, <1>8, <2>1 DEF AnswerBroken
<1>9. ASSUME NEW fault \in {"auth", "limited", "error"},
             NEW w \in Time, NEW h \in Headers, Answered(r, Fail(q, fault, w, h))
      PROVE  TypeOK'
  <2>2. a \in Accounts
    BY <1>0, <1>9 DEF Answered, WellFormed
  <2>3. Fail(q, fault, w, h) \in Request /\ WellFormed(Fail(q, fault, w, h))
    BY <1>0, <2>2, FailType
  <2>4. QED
    BY <1>6, <1>9, <2>2, <2>3
<1>10. CASE AnswerLimited(r)
  BY <1>9, <1>10 DEF AnswerLimited
<1>11. CASE AnswerError(r)
  BY <1>9, <1>11, TimeFacts DEF AnswerError
<1>12. CASE AnswerTransport(r)
  BY <1>9, <1>12, TimeFacts, HeadersFacts DEF AnswerTransport
<1>13. CASE AnswerRejected(r)
  <2> DEFINE n == [q EXCEPT !.pc = "refresh", !.forced = TRUE,
                            !.reauthed = @ \cup {q.acct}, !.tried = @ \ {q.acct}]
  <2>2. CASE Answered(r, n)
    <3>1. a \in Accounts
      BY <1>0, <2>2 DEF Answered, WellFormed
    <3>2. n \in Request /\ WellFormed(n)
      BY <1>0, <3>1 DEF Request, PCs, WellFormed
    <3>3. QED
      BY <1>6, <2>2, <3>2
  <2>3. CASE Answered(r, Fail(q, "auth", NoTime, NoHeaders))
    BY <1>9, <2>3, TimeFacts, HeadersFacts
  <2>4. QED
    BY <1>13, <2>2, <2>3 DEF AnswerRejected
<1>14. CASE LoadFailure(r)
  <2>1. a \in Accounts
    BY <1>0, <1>14 DEF LoadFailure, WellFormed
  <2>2. PICK n \in {[q EXCEPT !.pc = "failcommit"], Continue(q)} : req' = [req EXCEPT ![r] = n]
    BY <1>14 DEF LoadFailure, TypeOK
  <2>3. n \in Request /\ WellFormed(n)
    BY <1>0, <2>1, ContinueType DEF Request, PCs, WellFormed
  <2>4. /\ req' \in [Requests -> Request]
        /\ \A t \in Requests : WellFormed(req'[t])
    BY <2>2, <2>3, RequestUpdate
  <2>5. sess' \in [Writers -> [Accounts -> Session]]
    <3> DEFINE limited == ApplyRateLimitHeaders(row[a], q.headers)
               new == RecordFailure(limited, q.fault, q.retryAfter)
    <3>1. row[a] \in Row
      BY <2>1 DEF TypeOK
    <3>2. limited \in Row
      BY <1>0, <3>1, HeadersType DEF Request
    <3>3. q.pc = "fail" => new \in Row
      BY <1>0, <3>2, FailureType DEF Request, WellFormed
    <3>4. q.pc = "fail" => \A b \in BOOLEAN : Writing(row[a], new, b) \in Session
      BY <3>1, <3>3, SessionType
    <3>5. CASE sess' = [sess EXCEPT ![r][a] = Writing(row[a], new, q.headers # NoHeaders)]
      <4>1. (q.headers # NoHeaders) \in BOOLEAN
        OBVIOUS
      <4>2. Writing(row[a], new, q.headers # NoHeaders) \in Session
        BY <1>14, <3>4, <4>1, Zenon DEF LoadFailure
      <4>3. QED
        BY <1>0, <2>1, <3>5, <4>2, SessUpdate
    <3>6. CASE UNCHANGED sess
      BY <3>6 DEF TypeOK
    <3>7. QED
      BY <1>14, <3>5, <3>6 DEF LoadFailure
  <2>6. QED
    BY <1>1, <1>14, <2>4, <2>5 DEF LoadFailure, TypeOK
<1>15. ASSUME NEW n \in Request, WellFormed(n), a \in Accounts,
              req' = [req EXCEPT ![r] = n],
              \/ row' = row
              \/ row' = [row EXCEPT ![a] = Committed(a, sess[r][a])],
              sess' = [sess EXCEPT ![r][a] = NoSession],
              UNCHANGED <<live, lock, round, health, rr, sends>>, Observe
       PROVE  TypeOK'
  <2>1. /\ req' \in [Requests -> Request]
        /\ \A t \in Requests : WellFormed(req'[t])
    BY <1>15, RequestUpdate
  <2>2. row' \in [Accounts -> Row]
    <3>1. sess[r][a] \in Session /\ row[a] \in Row
      BY <1>0, <1>15 DEF TypeOK
    <3>2. Committed(a, sess[r][a]) \in Row
      BY <1>15, <3>1, CommittedType
    <3>3. QED
      BY <1>15, <3>2, RowUpdate DEF TypeOK
  <2>3. sess' \in [Writers -> [Accounts -> Session]]
    BY <1>0, <1>15, NoSessionType, SessUpdate
  <2>4. QED
    BY <1>1, <1>15, <2>1, <2>2, <2>3 DEF TypeOK
<1>16. CASE CommitFailure(r)
  <2>1. a \in Accounts
    BY <1>0, <1>16 DEF CommitFailure, WellFormed
  <2>2. PICK n \in {Continue(q), Finish(q, "crashed")} : req' = [req EXCEPT ![r] = n]
    BY <1>16 DEF CommitFailure, TypeOK
  <2>3. n \in Request /\ WellFormed(n)
    BY <1>0, <2>2, ContinueType, FinishType DEF Results
  <2>4. QED
    BY <1>15, <1>16, <2>1, <2>2, <2>3 DEF CommitFailure
<1>17. CASE LoadSuccess(r)
  <2>1. a \in Accounts
    BY <1>0, <1>17 DEF LoadSuccess, WellFormed
  <2>2. PICK n \in {[q EXCEPT !.pc = "successcommit"], Finish(q, "vanished")} :
          req' = [req EXCEPT ![r] = n]
    BY <1>17 DEF LoadSuccess, TypeOK
  <2>3. n \in Request /\ WellFormed(n)
    BY <1>0, <2>1, <2>2, FinishType DEF Request, PCs, WellFormed, Results
  <2>4. /\ req' \in [Requests -> Request]
        /\ \A t \in Requests : WellFormed(req'[t])
    BY <2>2, <2>3, RequestUpdate
  <2>5. sess' \in [Writers -> [Accounts -> Session]]
    <3> DEFINE s == Writing(row[a], RecordSuccess(ApplyRateLimitHeaders(row[a], q.headers)), TRUE)
    <3>1. row[a] \in Row /\ q.headers \in Headers
      BY <1>0, <2>1 DEF TypeOK, Request
    <3>2. s \in Session
      BY <3>1, HeadersType, SuccessType, SessionType
    <3>3. CASE sess' = [sess EXCEPT ![r][a] = s]
      BY <1>0, <2>1, <3>2, <3>3, SessUpdate
    <3>4. CASE UNCHANGED sess
      BY <3>4 DEF TypeOK
    <3>5. QED
      BY <1>17, <3>3, <3>4 DEF LoadSuccess
  <2>6. QED
    BY <1>1, <1>17, <2>4, <2>5 DEF LoadSuccess, TypeOK
<1>18. CASE CommitSuccess(r)
  <2>1. a \in Accounts
    BY <1>0, <1>18 DEF CommitSuccess, WellFormed
  <2>2. PICK n \in {Finish(q, "relayed"), Finish(q, "broken"), Finish(q, "crashed")} :
          req' = [req EXCEPT ![r] = n]
    BY <1>18 DEF CommitSuccess, TypeOK
  <2>3. n \in Request /\ WellFormed(n)
    BY <1>0, <2>2, FinishType DEF Results
  <2>4. QED
    BY <1>15, <1>18, <2>1, <2>2, <2>3 DEF CommitSuccess
<1>19. CASE Record(r)
  <2> DEFINE n == [q EXCEPT !.pc = "done"]
             new == [row[a] EXCEPT !.total = @ + 1]
  <2>1. n \in Request /\ WellFormed(n)
    BY <1>0 DEF Request, PCs, WellFormed
  <2>2. req' = [req EXCEPT ![r] = n]
    BY <1>19 DEF Record, TypeOK
  <2>3. /\ req' \in [Requests -> Request]
        /\ \A t \in Requests : WellFormed(req'[t])
    BY <2>1, <2>2, RequestUpdate
  <2>4. row' \in [Accounts -> Row]
    <3>1. CASE a \in Accounts /\ row' = [row EXCEPT ![a].total = @ + 1]
      <4>0. row[a] \in Row
        BY <3>1 DEF TypeOK
      <4>1. new \in Row
        BY <4>0 DEF Row
      <4>2. row' = [row EXCEPT ![a] = new]
        BY <3>1 DEF TypeOK
      <4>3. QED
        BY <3>1, <4>1, <4>2, RowUpdate
    <3>2. CASE row' = row
      BY <3>2 DEF TypeOK
    <3>3. QED
      BY <1>0, <1>19, <3>1, <3>2 DEF Record, Request
  <2>5. QED
    BY <1>1, <1>19, <2>3, <2>4 DEF Record, TypeOK
<1>20. QED
  BY <1>2, <1>3, <1>4, <1>5, <1>7, <1>8, <1>10, <1>11, <1>12, <1>13, <1>14, <1>16, <1>17,
     <1>18, <1>19 DEF RequestStep

-----------------------------------------------------------------------------
(* What probes, operators and time do to the types *)

LEMMA ProbeStepType ==
    ASSUME TypeOK, NEW p \in Probers, ProbeStep(p) PROVE TypeOK'
<1> DEFINE known == round[p]
<1>0. known \in Round /\ p \in Writers
  BY DEF TypeOK, Writers
<1>1. Observe => usable' \in [Requests -> SUBSET Accounts]
  BY ObserveType
<1>2. CASE ProbeStart(p)
  <2> DEFINE targets == {a \in Present : NeedsProbe(row[a])}
  <2>1. targets \subseteq Accounts
    BY DEF Present
  <2>2. round' = [round EXCEPT ![p] = [known EXCEPT !.phase = "probing", !.targets = targets]]
    BY <1>2 DEF ProbeStart, TypeOK
  <2> HIDE DEF targets
  <2>3. round' \in [Probers -> Round]
    BY <1>0, <2>1, <2>2 DEF Round, TypeOK
  <2>4. QED
    BY <1>1, <1>2, <2>3 DEF ProbeStart, TypeOK
<1>3. ASSUME NEW a \in Accounts, ProbeAnswer(p, a) PROVE TypeOK'
  <2> DEFINE verdict == [known.verdict EXCEPT ![a] = Verdict(a)]
             phase == IF \E b \in known.targets : verdict[b] = "none"
                      THEN "probing" ELSE "folding"
  <2>1. Verdict(a) \in {"ok", "auth", "error"}
    BY DEF TypeOK, Verdict
  <2>2. verdict \in [Accounts -> {"none", "ok", "auth", "error"}]
    BY <1>0, <2>1 DEF Round
  <2>3. phase \in {"probing", "folding"}
    OBVIOUS
  <2>4. round' = [round EXCEPT ![p] = [known EXCEPT !.verdict = verdict, !.phase = phase]]
    BY <1>3 DEF ProbeAnswer, TypeOK
  <2> HIDE DEF verdict, phase
  <2>5. round' \in [Probers -> Round]
    BY <1>0, <2>2, <2>3, <2>4 DEF Round, TypeOK
  <2>6. QED
    BY <1>1, <1>3, <2>5 DEF ProbeAnswer, TypeOK
<1>4. ASSUME NEW a \in Accounts, FoldLoad(p, a) PROVE TypeOK'
  <2>1. round' = [round EXCEPT ![p] = [known EXCEPT !.loaded = @ \cup {a}]]
    BY <1>4 DEF FoldLoad, TypeOK
  <2>2. round' \in [Probers -> Round]
    BY <1>0, <2>1 DEF Round, TypeOK
  <2>3. Writing(row[a], Fold(row[a], known.verdict[a]), TRUE) \in Session
    BY FoldType, SessionType DEF TypeOK
  <2>4. sess' \in [Writers -> [Accounts -> Session]]
    BY <1>0, <1>4, <2>3, SessUpdate DEF FoldLoad, TypeOK
  <2>5. QED
    BY <1>1, <1>4, <2>2, <2>4 DEF FoldLoad, TypeOK
<1>5. CASE FoldCommit(p)
  <2>1. \A a \in Accounts : Committed(a, sess[p][a]) \in Row
    BY <1>0, CommittedType DEF TypeOK
  <2>2. row' \in [Accounts -> Row]
    BY <1>5, <2>1 DEF FoldCommit, TypeOK
  <2>3. NoRound \in Round
    BY DEF NoRound, Round
  <2>4. round' \in [Probers -> Round]
    BY <1>5, <2>3 DEF FoldCommit, TypeOK
  <2>5. sess' \in [Writers -> [Accounts -> Session]]
    BY <1>0, <1>5, NoSessionType DEF FoldCommit, TypeOK
  <2>6. QED
    BY <1>1, <1>5, <2>2, <2>4, <2>5 DEF FoldCommit, TypeOK
<1>6. QED
  BY <1>2, <1>3, <1>4, <1>5 DEF ProbeStep

LEMMA OperatorStepType ==
    ASSUME TypeOK, NEW a \in Accounts,
           UpdateLoad(a) \/ UpdateCommit(a) \/ Delete(a) \/ Create(a)
    PROVE  TypeOK'
<1>0. row[a] \in Row /\ Operator \in Writers /\ sess[Operator][a] \in Session
  BY DEF TypeOK, Writers
<1>1. Observe => usable' \in [Requests -> SUBSET Accounts]
  BY ObserveType
<1>2. CASE UpdateLoad(a)
  <2>1. PICK change \in OperatorChanges \ {"delete", "create"} :
          sess' = [sess EXCEPT ![Operator][a] =
                      Writing(row[a], Patched(row[a], change), change = "token")]
    BY <1>2 DEF UpdateLoad
  <2>2. change \in {"enable", "disable", "token"}
    BY SetupAssumption DEF AllChanges
  <2>3. Patched(row[a], change) \in Row /\ (change = "token") \in BOOLEAN
    BY <1>0, <2>2, PatchedType
  <2>4. \A b \in BOOLEAN : Writing(row[a], Patched(row[a], change), b) \in Session
    BY <1>0, <2>3, SessionType
  <2>5. Writing(row[a], Patched(row[a], change), change = "token") \in Session
    BY <2>3, <2>4, Zenon
  <2>6. sess' \in [Writers -> [Accounts -> Session]]
    BY <1>0, <2>1, <2>5, SessUpdate
  <2>7. QED
    BY <1>1, <1>2, <2>6 DEF UpdateLoad, TypeOK
<1>3. CASE UpdateCommit(a)
  <2>1. Committed(a, sess[Operator][a]) \in Row
    BY <1>0, CommittedType
  <2>2. row' \in [Accounts -> Row]
    BY <1>3, <2>1, RowUpdate DEF UpdateCommit, TypeOK
  <2>3. sess' \in [Writers -> [Accounts -> Session]]
    BY <1>0, <1>3, NoSessionType, SessUpdate DEF UpdateCommit
  <2>4. QED
    BY <1>1, <1>3, <2>2, <2>3 DEF UpdateCommit, TypeOK
<1>4. CASE Delete(a)
  <2>1. row' \in [Accounts -> Row]
    BY <1>4, FreshRowType, RowUpdate DEF Delete, Blank
  <2>2. live' \in [Accounts -> {"absent", "live", "deleted"}]
    BY <1>4 DEF Delete, TypeOK
  <2>3. QED
    BY <1>1, <1>4, <2>1, <2>2 DEF Delete, TypeOK
<1>5. CASE Create(a)
  <2>1. row' \in [Accounts -> Row]
    BY <1>5, FreshRowType, RowUpdate DEF Create
  <2>2. live' \in [Accounts -> {"absent", "live", "deleted"}]
    BY <1>5 DEF Create, TypeOK
  <2>3. QED
    BY <1>1, <1>5, <2>1, <2>2 DEF Create, TypeOK
<1>6. QED
  BY <1>2, <1>3, <1>4, <1>5

LEMMA TickType == ASSUME TypeOK, Tick PROVE TypeOK'
<1>1. row' \in [Accounts -> Row]
  BY AgedType DEF Tick, TypeOK
<1>2. ASSUME NEW s \in Session PROVE [s EXCEPT !.new = Aged(@)] \in Session
  BY AgedType DEF Session
<1>3. sess' \in [Writers -> [Accounts -> Session]]
  BY <1>2 DEF Tick, TypeOK
<1>4. ASSUME NEW r \in Requests
      PROVE  /\ [req[r] EXCEPT !.headers.reset = Later(@)] \in Request
             /\ WellFormed([req[r] EXCEPT !.headers.reset = Later(@)])
  <2> DEFINE h == [req[r].headers EXCEPT !.reset = Later(@)]
             n == [req[r] EXCEPT !.headers = h]
  <2>1. req[r] \in Request /\ WellFormed(req[r])
    BY DEF TypeOK
  <2>2. h \in Headers
    BY <2>1, TimeFacts DEF Request, Headers
  <2>3. n = [req[r] EXCEPT !.headers.reset = Later(@)]
    BY <2>1 DEF Request
  <2> HIDE DEF h
  <2>4. n \in Request
    BY <2>1, <2>2 DEF Request
  <2>5. WellFormed(n)
    BY <2>1 DEF WellFormed, Request
  <2>6. QED
    BY <2>3, <2>4, <2>5
<1>5. req' \in [Requests -> Request] /\ \A r \in Requests : WellFormed(req'[r])
  BY <1>4 DEF Tick
<1>6. QED
  BY <1>1, <1>3, <1>5, ObserveType DEF Tick, TypeOK

LEMMA StepType == TypeOK /\ [Next]_vars => TypeOK'
<1> SUFFICES ASSUME TypeOK, [Next]_vars PROVE TypeOK'
  OBVIOUS
<1>1. ASSUME NEW a \in Accounts, HealthChange(a) PROVE TypeOK'
  BY <1>1, ObserveType DEF HealthChange, TypeOK
<1>2. CASE Done
  BY <1>2, ObserveType DEF Done, TypeOK
<1>3. CASE UNCHANGED vars
  BY <1>3 DEF vars, TypeOK
<1>4. QED
  BY <1>1, <1>2, <1>3, RequestStepType, ProbeStepType, OperatorStepType, TickType DEF Next

\* The variables keep their types.
THEOREM TypeCorrect == Spec => []TypeOK
<1>1. QED
  BY InitType, StepType, PTL DEF Spec

-----------------------------------------------------------------------------
(* Why no account is sent to once too often *)

\* The account of q has been picked and not yet been sent to since.
Unsent(q) ==
    \/ q.pc \in {"resolve", "send"}
    \/ (q.pc \in {"refresh", "grant"} /\ ~q.forced)

\* An account off the tried list, or about to be sent to, has been sent to only
\* if its forced refresh took it off the list; no account more than once beyond
\* that.
SendsCounted(q, sent) ==
    \A a \in Accounts :
        LET excused == IF a \in q.reauthed THEN 1 ELSE 0
        IN  /\ sent[a] <= 1 + excused
            /\ (a \notin q.tried \/ (Unsent(q) /\ q.acct = a)) => sent[a] <= excused

\* While a request deals with an account the account is on the tried list,
\* except during its forced refresh.
TriedListed(q) ==
    IF q.forced THEN q.pc \in {"refresh", "grant"}
                ELSE q.pc \notin {"select", "record", "done"} => q.acct \in q.tried

Ledger == \A r \in Requests : SendsCounted(req[r], sends[r]) /\ TriedListed(req[r])

\* A request works only on accounts that have existed.
AccountsExisted ==
    \A r \in Requests : req[r].acct # NoAccount => live[req[r].acct] # "absent"

IndInv ==
    /\ TypeOK
    /\ Ledger
    /\ GrantHoldsLock
    /\ AccountsExisted
    /\ CrashesOnlyOnDelete

-----------------------------------------------------------------------------
(* The invariant holds initially and is preserved by every step of a request *)

LEMMA InitInv == Init => IndInv
<1> SUFFICES ASSUME Init PROVE IndInv
  OBVIOUS
<1>1. TypeOK
  BY InitType
<1>2. Ledger
  BY DEF Init, Ledger, SendsCounted, TriedListed, Unsent, NewRequest
<1>3. GrantHoldsLock
  BY WritersAssumption DEF Init, GrantHoldsLock, NewRequest, Writers
<1>4. AccountsExisted /\ CrashesOnlyOnDelete
  BY DEF Init, AccountsExisted, CrashesOnlyOnDelete, NewRequest
<1>5. QED
  BY <1>1, <1>2, <1>3, <1>4 DEF IndInv

\* From q to n the request is through with its account, or done altogether.
Settles(q, n) ==
    /\ n.tried = q.tried /\ n.reauthed = q.reauthed
    /\ ~n.forced
    /\ n.pc \notin {"resolve", "send", "refresh", "grant"}
    /\ n.pc \notin {"select", "record", "done"} => n.acct \in n.tried

LEMMA SettlesUnsent ==
    ASSUME NEW q, NEW n, Settles(q, n), NEW sent, SendsCounted(q, sent)
    PROVE  SendsCounted(n, sent) /\ TriedListed(n)
BY DEF Settles, SendsCounted, TriedListed, Unsent

LEMMA SettlesSent ==
    ASSUME NEW q \in Request, NEW n, NEW sent \in [Accounts -> Nat],
           q.pc = "send", TriedListed(q), SendsCounted(q, sent), Settles(q, n)
    PROVE  /\ SendsCounted(n, [sent EXCEPT ![q.acct] = @ + 1])
           /\ TriedListed(n)
<1> DEFINE s == [sent EXCEPT ![q.acct] = @ + 1]
<1>1. q.acct \in q.tried /\ Unsent(q)
  BY DEF TriedListed, Unsent
<1>2. ASSUME NEW a \in Accounts
      PROVE  LET excused == IF a \in n.reauthed THEN 1 ELSE 0
             IN  /\ s[a] <= 1 + excused
                 /\ (a \notin n.tried \/ (Unsent(n) /\ n.acct = a)) => s[a] <= excused
  <2>1. CASE a = q.acct
    <3>1. s[a] = sent[a] + 1 /\ sent[a] \in Nat
      BY <2>1
    <3>2. QED
      BY <1>1, <2>1, <3>1 DEF Settles, SendsCounted, Unsent
  <2>2. CASE a # q.acct
    <3>1. s[a] = sent[a]
      BY <2>2
    <3>2. QED
      BY <3>1 DEF Settles, SendsCounted, Unsent
  <2>3. QED
    BY <2>1, <2>2
<1> HIDE DEF s
<1>3. SendsCounted(n, s)
  BY <1>2 DEF SendsCounted
<1>4. TriedListed(n)
  BY DEF Settles, TriedListed
<1>5. QED
  BY <1>3, <1>4 DEF s

LEMMA FinishSettles ==
    ASSUME NEW q \in Request, NEW result \in Results PROVE Settles(q, Finish(q, result))
BY DEF Finish, Settles, Request

LEMMA ContinueSettles == ASSUME NEW q \in Request PROVE Settles(q, Continue(q))
BY FinishSettles DEF Continue, Settles, Request, Results

LEMMA FailSettles ==
    ASSUME NEW q \in Request,
           q.acct \in q.tried, NEW fault, NEW w, NEW h
    PROVE  Settles(q, Fail(q, fault, w, h))
BY DEF Fail, Settles, Request

\* A step that changes one request, and the account of its sends.
LEMMA LedgerUpdate ==
    ASSUME TypeOK, Ledger, NEW r \in Requests, NEW n, NEW sent,
           SendsCounted(n, sent), TriedListed(n),
           req' = [req EXCEPT ![r] = n], sends' = [sends EXCEPT ![r] = sent]
    PROVE  Ledger'
<1> SUFFICES ASSUME NEW s \in Requests
             PROVE  SendsCounted(req'[s], sends'[s]) /\ TriedListed(req'[s])
  BY DEF Ledger, SendsCounted, TriedListed, Unsent
<1>1. CASE s = r
  BY <1>1 DEF TypeOK
<1>2. CASE s # r
  BY <1>2 DEF TypeOK, Ledger
<1>3. QED
  BY <1>1, <1>2

LEMMA RequestStepLedger ==
    ASSUME TypeOK, Ledger, NEW r \in Requests, RequestStep(r) PROVE Ledger'
<1> DEFINE q == req[r]
           sent == sends[r]
<1>0. q \in Request /\ WellFormed(q) /\ sent \in [Accounts -> Nat]
  BY DEF TypeOK
<1>1. SendsCounted(q, sent) /\ TriedListed(q)
  BY DEF Ledger
<1>2. sends' = sends => sends' = [sends EXCEPT ![r] = sent]
  BY DEF TypeOK
<1>3. ASSUME NEW n, Settles(q, n), req' = [req EXCEPT ![r] = n], sends' = sends
      PROVE  Ledger'
  BY <1>1, <1>2, <1>3, SettlesUnsent, LedgerUpdate
<1>4. ASSUME NEW n, Settles(q, n), Answered(r, n)
      PROVE  Ledger'
  <2>1. q.pc = "send"
    BY <1>4 DEF Answered
  <2> DEFINE more == [sent EXCEPT ![q.acct] = @ + 1]
  <2>2. SendsCounted(n, more) /\ TriedListed(n)
    BY <1>0, <1>1, <1>4, <2>1, SettlesSent
  <2>3. sends' = [sends EXCEPT ![r] = more]
    BY <1>4 DEF Answered, TypeOK
  <2>4. req' = [req EXCEPT ![r] = n]
    BY <1>4 DEF Answered
  <2> HIDE DEF more
  <2>5. QED
    BY <2>2, <2>3, <2>4, LedgerUpdate
<1>5. q.pc = "send" => q.acct \in q.tried
  BY <1>1 DEF TriedListed
<1>6. CASE Select(r)
  <2> DEFINE accounts == FilterByModel(Present)
  <2>1. sends' = sends
    BY <1>6 DEF Select
  <2>2. PICK preferred \in Preferences(q, accounts) :
          LET choices == SelectAccount(row, accounts, q.tried, Pinned[r], preferred,
                                       Strategy, rr)
          IN  \/ \E b \in choices :
                    req' = [req EXCEPT ![r].pc = "resolve", ![r].acct = b,
                                       ![r].tried = @ \cup {b}]
              \/ req' = [req EXCEPT ![r] = Finish(@,
                            IF q.tried = {} THEN "unavailable" ELSE "accounts_spent")]
    BY <1>6 DEF Select
  <2> DEFINE choices == SelectAccount(row, accounts, q.tried, Pinned[r], preferred,
                                      Strategy, rr)
             result == IF q.tried = {} THEN "unavailable" ELSE "accounts_spent"
  <2>3. ASSUME NEW b \in choices,
               req' = [req EXCEPT ![r].pc = "resolve", ![r].acct = b,
                                  ![r].tried = @ \cup {b}]
        PROVE  Ledger'
    <3>1. b \notin q.tried
      <4>1. b \in Available(row, accounts \ q.tried)
        BY SelectionSound, SetupAssumption
      <4>2. QED
        BY <4>1, AvailableInPool
    <3> DEFINE n == [q EXCEPT !.pc = "resolve", !.acct = b, !.tried = @ \cup {b}]
    <3>2. req' = [req EXCEPT ![r] = n]
      BY <2>3 DEF TypeOK
    <3>3. q.pc = "select" /\ ~q.forced
      BY <1>1, <1>6 DEF Select, TriedListed
    <3>4. /\ n.pc = "resolve" /\ n.acct = b /\ n.tried = q.tried \cup {b}
          /\ n.reauthed = q.reauthed /\ n.forced = q.forced
      BY <1>0 DEF Request
    <3> HIDE DEF n
    <3>5. SendsCounted(n, sent)
      BY <1>1, <3>1, <3>4 DEF SendsCounted, Unsent
    <3>6. TriedListed(n)
      BY <3>3, <3>4 DEF TriedListed
    <3>7. QED
      BY <1>2, <2>1, <3>2, <3>5, <3>6, LedgerUpdate
  <2>4. CASE req' = [req EXCEPT ![r] = Finish(@, result)]
    <3>1. Settles(q, Finish(q, result))
      BY <1>0, FinishSettles DEF Results
    <3>2. QED
      BY <1>3, <2>1, <2>4, <3>1
  <2>5. QED
    BY <2>2, <2>3, <2>4
<1>7. ASSUME NEW pc, req' = [req EXCEPT ![r].pc = pc], sends' = sends,
             \/ q.pc = "resolve" /\ pc \in {"send", "refresh"}
             \/ q.pc = "refresh" /\ pc = "grant"
             \/ q.pc \in {"refresh", "grant"} /\ ~q.forced /\ pc = "send"
      PROVE  Ledger'
  <2> DEFINE n == [q EXCEPT !.pc = pc]
  <2>1. req' = [req EXCEPT ![r] = n]
    BY <1>7 DEF TypeOK
  <2>2. /\ n.pc = pc /\ n.acct = q.acct /\ n.tried = q.tried
        /\ n.reauthed = q.reauthed /\ n.forced = q.forced
    BY <1>0 DEF Request
  <2> HIDE DEF n
  <2>3. SendsCounted(n, sent)
    BY <1>1, <1>7, <2>2 DEF SendsCounted, TriedListed, Unsent
  <2>4. TriedListed(n)
    BY <1>1, <1>7, <2>2 DEF TriedListed
  <2>5. QED
    BY <1>2, <1>7, <2>1, <2>3, <2>4, LedgerUpdate
<1>8. CASE Resolve(r)
  BY <1>7, <1>8 DEF Resolve
<1>9. ASSUME q.pc \in {"refresh", "grant"}, sends' = sends,
             req' = [req EXCEPT ![r] = Refreshed(q)]
      PROVE  Ledger'
  <2>1. CASE q.forced
    BY <1>0, <1>3, <1>9, <2>1, ContinueSettles DEF Refreshed
  <2>2. CASE ~q.forced
    <3>1. req' = [req EXCEPT ![r].pc = "send"]
      BY <1>9, <2>2 DEF Refreshed, TypeOK
    <3>2. QED
      BY <1>7, <1>9, <2>2, <3>1
  <2>3. QED
    BY <2>1, <2>2
<1>10. ASSUME q.pc \in {"refresh", "grant"}, sends' = sends,
              req' = [req EXCEPT ![r] = RefreshFailed(q)]
       PROVE  Ledger'
  <2>1. CASE q.forced
    <3> DEFINE t == [q EXCEPT !.tried = @ \cup {q.acct}]
               n == Fail(t, "auth", NoTime, NoHeaders)
    <3>1. /\ n.pc = "fail" /\ n.acct = q.acct /\ n.tried = q.tried \cup {q.acct}
          /\ n.reauthed = q.reauthed /\ ~n.forced
      BY <1>0 DEF Request, Fail
    <3>2. req' = [req EXCEPT ![r] = n]
      BY <1>10, <2>1 DEF RefreshFailed
    <3> HIDE DEF n
    <3>3. SendsCounted(n, sent)
      BY <1>1, <3>1 DEF SendsCounted, Unsent
    <3>4. TriedListed(n)
      BY <3>1 DEF TriedListed
    <3>5. QED
      BY <1>2, <1>10, <3>2, <3>3, <3>4, LedgerUpdate
  <2>2. CASE ~q.forced
    <3>1. q.acct \in q.tried
      BY <1>1, <1>10, <2>2 DEF TriedListed
    <3>2. Settles(q, Fail(q, "error", NoTime, NoHeaders))
      BY <1>0, <3>1, FailSettles
    <3>3. QED
      BY <1>3, <1>10, <2>2, <3>2 DEF RefreshFailed
  <2>3. QED
    BY <2>1, <2>2
<1>11. CASE RefreshLoad(r)
  BY <1>7, <1>9, <1>10, <1>11 DEF RefreshLoad
<1>12. CASE GrantReply(r)
  <2>1. Settles(q, Finish(q, "crashed"))
    BY <1>0, FinishSettles DEF Results
  <2>2. /\ q.pc = "grant" /\ sends' = sends
        /\ \/ req' = [req EXCEPT ![r] = Refreshed(q)]
           \/ req' = [req EXCEPT ![r] = RefreshFailed(q)]
           \/ req' = [req EXCEPT ![r] = Finish(q, "crashed")]
    BY <1>12 DEF GrantReply
  <2>3. QED
    BY <1>3, <1>9, <1>10, <2>1, <2>2
<1>13. CASE AnswerRelay(r)
  <2>1. PICK h \in HeaderChoices, fault \in {"none", "broken"} :
          Answered(r, [q EXCEPT !.pc = "success", !.headers = h, !.fault = fault])
    BY <1>13 DEF AnswerRelay
  <2>2. q.acct \in q.tried
    BY <1>5, <2>1 DEF Answered
  <2>3. Settles(q, [q EXCEPT !.pc = "success", !.headers = h, !.fault = fault])
    <3>1. ~q.forced
      BY <1>1, <2>1 DEF Answered, TriedListed
    <3>2. QED
      BY <1>0, <2>2, <3>1 DEF Settles, Request
  <2>4. QED
    BY <1>4, <2>1, <2>3
<1>14. CASE AnswerBroken(r)
  BY <1>0, <1>4, <1>14, FinishSettles DEF AnswerBroken, Results
<1>15. ASSUME NEW fault, NEW w, NEW h,
              Answered(r, Fail(q, fault, w, h))
       PROVE  Ledger'
  <2>1. q.acct \in q.tried
    BY <1>5, <1>15 DEF Answered
  <2>2. Settles(q, Fail(q, fault, w, h))
    BY <1>0, <2>1, FailSettles
  <2>3. QED
    BY <1>4, <1>15, <2>2
<1>16. CASE AnswerLimited(r) \/ AnswerError(r) \/ AnswerTransport(r)
  BY <1>15, <1>16 DEF AnswerLimited, AnswerError, AnswerTransport
<1>17. CASE AnswerRejected(r)
  <2> DEFINE n == [q EXCEPT !.pc = "refresh", !.forced = TRUE,
                            !.reauthed = @ \cup {q.acct}, !.tried = @ \ {q.acct}]
  <2>1. CASE CanReauth(q) /\ Answered(r, n)
    <3>1. q.pc = "send" /\ req' = [req EXCEPT ![r] = n]
      BY <2>1 DEF Answered
    <3> DEFINE more == [sent EXCEPT ![q.acct] = @ + 1]
    <3>2. sends' = [sends EXCEPT ![r] = more]
      BY <2>1 DEF Answered, TypeOK
    <3>3. /\ n.pc = "refresh" /\ n.acct = q.acct /\ n.tried = q.tried \ {q.acct}
          /\ n.reauthed = q.reauthed \cup {q.acct} /\ n.forced = TRUE
      BY <1>0 DEF Request
    <3>4. q.acct \notin q.reauthed
      BY <2>1, <3>3 DEF CanReauth
    <3>5. /\ \A a \in Accounts : sent[a] \in Nat
          /\ \A a \in Accounts : more[a] = IF a = q.acct THEN sent[a] + 1 ELSE sent[a]
      BY <1>0
    <3> HIDE DEF n, more
    <3>6. SendsCounted(n, more)
      BY <1>1, <3>1, <3>3, <3>4, <3>5 DEF SendsCounted, Unsent
    <3>7. TriedListed(n)
      BY <3>3 DEF TriedListed
    <3>8. QED
      BY <3>1, <3>2, <3>6, <3>7, LedgerUpdate
  <2>2. CASE Answered(r, Fail(q, "auth", NoTime, NoHeaders))
    BY <1>15, <2>2
  <2>3. QED
    BY <1>17, <2>1, <2>2 DEF AnswerRejected
<1>18. ASSUME q.pc \in {"fail", "success", "record"}, sends' = sends,
              NEW pc \in {"failcommit", "successcommit", "done"},
              pc = "done" \/ q.pc # "record",
              req' = [req EXCEPT ![r].pc = pc]
       PROVE  Ledger'
  <2> DEFINE n == [q EXCEPT !.pc = pc]
  <2>1. req' = [req EXCEPT ![r] = n]
    BY <1>18 DEF TypeOK
  <2>2. Settles(q, n)
    BY <1>0, <1>1, <1>18 DEF Settles, TriedListed, Request
  <2>3. QED
    BY <1>3, <1>18, <2>1, <2>2
<1>19. CASE LoadFailure(r)
  BY <1>0, <1>3, <1>18, <1>19, ContinueSettles DEF LoadFailure
<1>20. CASE CommitFailure(r)
  <2>1. /\ sends' = sends
        /\ \/ req' = [req EXCEPT ![r] = Continue(q)]
           \/ req' = [req EXCEPT ![r] = Finish(q, "crashed")]
    BY <1>20 DEF CommitFailure
  <2>2. Settles(q, Continue(q)) /\ Settles(q, Finish(q, "crashed"))
    BY <1>0, ContinueSettles, FinishSettles DEF Results
  <2>3. QED
    BY <1>3, <2>1, <2>2
<1>21. CASE LoadSuccess(r)
  <2>1. /\ q.pc = "success" /\ sends' = sends
        /\ \/ req' = [req EXCEPT ![r].pc = "successcommit"]
           \/ req' = [req EXCEPT ![r] = Finish(q, "vanished")]
    BY <1>21 DEF LoadSuccess
  <2>2. Settles(q, Finish(q, "vanished"))
    BY <1>0, FinishSettles DEF Results
  <2>3. QED
    BY <1>3, <1>18, <2>1, <2>2
<1>22. CASE CommitSuccess(r)
  <2>1. PICK result \in {"broken", "relayed", "crashed"} :
          req' = [req EXCEPT ![r] = Finish(q, result)] /\ sends' = sends
    BY <1>22 DEF CommitSuccess
  <2>2. Settles(q, Finish(q, result))
    BY <1>0, FinishSettles DEF Results
  <2>3. QED
    BY <1>3, <2>1, <2>2
<1>23. CASE Record(r)
  <2>1. q.pc = "record" /\ sends' = sends /\ req' = [req EXCEPT ![r].pc = "done"]
    BY <1>23 DEF Record
  <2>2. QED
    BY <1>18, <2>1
<1>24. QED
  BY <1>6, <1>8, <1>11, <1>12, <1>13, <1>14, <1>16, <1>17, <1>19, <1>20, <1>21, <1>22,
     <1>23 DEF RequestStep

\* What a step of a request that becomes n does to the locks and the accounts.
Shape(r, n) ==
    LET q == req[r]
    IN  /\ req' = [req EXCEPT ![r] = n]
        /\ live' = live
        /\ n.acct \in {q.acct, NoAccount} \cup Present
        /\ n.result \in {"crashed", "vanished"} =>
              n.result = q.result \/ (q.acct \in Accounts /\ live[q.acct] # "live")
        /\ \/ q.pc # "grant" /\ n.pc # "grant" /\ lock' = lock
           \/ /\ q.pc = "refresh" /\ n.pc = "grant" /\ n.acct = q.acct
              /\ lock[q.acct] = NoWriter
              /\ lock' = [lock EXCEPT ![q.acct] = r]
           \/ /\ q.pc = "grant" /\ n.pc # "grant"
              /\ lock' = [lock EXCEPT ![q.acct] = NoWriter]

\* From q to n no grant begins, no account is taken up and nothing crashes.
Plain(q, n) ==
    /\ n.pc # "grant"
    /\ n.acct \in {q.acct, NoAccount}
    /\ n.result \in {"crashed", "vanished"} => n.result = q.result

LEMMA FinishFields ==
    ASSUME NEW q \in Request, NEW result
    PROVE  /\ Finish(q, result).pc \in {"record", "done"}
           /\ Finish(q, result).acct \in {q.acct, NoAccount}
           /\ Finish(q, result).result = result
BY DEF Finish, Request

LEMMA ContinuePlain == ASSUME NEW q \in Request PROVE Plain(q, Continue(q))
<1>1. CASE q.attempt = MaxAttempts
  BY <1>1, FinishFields DEF Continue, Plain
<1>2. CASE q.attempt # MaxAttempts
  BY <1>2 DEF Continue, Plain, Request
<1>3. QED
  BY <1>1, <1>2

LEMMA FailPlain ==
    ASSUME NEW q \in Request,
           NEW fault, NEW w, NEW h
    PROVE  Plain(q, Fail(q, fault, w, h))
BY DEF Fail, Plain, Request

LEMMA RefreshPlain ==
    ASSUME NEW q \in Request
    PROVE  Plain(q, Refreshed(q)) /\ Plain(q, RefreshFailed(q))
<1>1. Plain(q, [q EXCEPT !.pc = "send"])
  BY DEF Plain, Request
<1>2. Plain(q, Fail([q EXCEPT !.tried = @ \cup {q.acct}], "auth", NoTime, NoHeaders))
  BY DEF Plain, Fail, Request
<1>3. QED
  BY <1>1, <1>2, ContinuePlain, FailPlain DEF Refreshed, RefreshFailed

LEMMA RequestStepShape ==
    ASSUME TypeOK, NEW r \in Requests, RequestStep(r) PROVE \E n : Shape(r, n)
<1> DEFINE q == req[r]
           a == q.acct
<1>0. q \in Request /\ WellFormed(q)
  BY DEF TypeOK
<1>1. ASSUME NEW n, Plain(q, n), q.pc # "grant", req' = [req EXCEPT ![r] = n],
             live' = live, lock' = lock
      PROVE  Shape(r, n)
  BY <1>1 DEF Plain, Shape
<1>2. ASSUME q.pc \in {"failcommit", "success", "successcommit"},
             NEW result, live[a] # "live", req' = [req EXCEPT ![r] = Finish(q, result)],
             live' = live, lock' = lock
      PROVE  Shape(r, Finish(q, result))
  BY <1>0, <1>2, FinishFields DEF Shape, WellFormed
<1>3. ASSUME NEW pc \in PCs \ {"grant"}, req' = [req EXCEPT ![r].pc = pc], q.pc # "grant",
             live' = live, lock' = lock
      PROVE  \E n : Shape(r, n)
  <2> DEFINE n == [q EXCEPT !.pc = pc]
  <2>1. req' = [req EXCEPT ![r] = n]
    BY <1>3 DEF TypeOK
  <2>2. Plain(q, n)
    BY <1>0, <1>3 DEF Plain, Request
  <2>3. QED
    BY <1>1, <1>3, <2>1, <2>2
<1>4. CASE Select(r)
  <2> DEFINE accounts == FilterByModel(Present)
  <2>1. live' = live /\ lock' = lock /\ q.pc = "select"
    BY <1>4 DEF Select
  <2>2. PICK preferred \in Preferences(q, accounts) :
          LET choices == SelectAccount(row, accounts, q.tried, Pinned[r], preferred,
                                       Strategy, rr)
          IN  \/ \E b \in choices :
                    req' = [req EXCEPT ![r].pc = "resolve", ![r].acct = b,
                                       ![r].tried = @ \cup {b}]
              \/ req' = [req EXCEPT ![r] = Finish(@,
                            IF q.tried = {} THEN "unavailable" ELSE "accounts_spent")]
    BY <1>4 DEF Select
  <2> DEFINE choices == SelectAccount(row, accounts, q.tried, Pinned[r], preferred,
                                      Strategy, rr)
             result == IF q.tried = {} THEN "unavailable" ELSE "accounts_spent"
  <2>3. ASSUME NEW b \in choices,
               req' = [req EXCEPT ![r].pc = "resolve", ![r].acct = b,
                                  ![r].tried = @ \cup {b}]
        PROVE  \E n : Shape(r, n)
    <3>1. b \in Present
      <4>1. b \in Available(row, accounts \ q.tried)
        BY SelectionSound, SetupAssumption
      <4>2. b \in accounts
        BY <4>1, AvailableInPool
      <4>3. QED
        BY <4>2 DEF FilterByModel
    <3> DEFINE n == [q EXCEPT !.pc = "resolve", !.acct = b, !.tried = @ \cup {b}]
    <3>2. req' = [req EXCEPT ![r] = n]
      BY <2>3 DEF TypeOK
    <3>3. n.pc = "resolve" /\ n.acct = b /\ n.result = q.result
      BY <1>0 DEF Request
    <3> HIDE DEF n, accounts
    <3>4. Shape(r, n)
      BY <2>1, <3>1, <3>2, <3>3 DEF Shape
    <3>5. QED
      BY <3>4
  <2>4. CASE req' = [req EXCEPT ![r] = Finish(@, result)]
    <3>1. Plain(q, Finish(q, result))
      BY <1>0, FinishFields DEF Plain
    <3>2. QED
      BY <1>1, <2>1, <2>4, <3>1
  <2>5. QED
    BY <2>2, <2>3, <2>4
<1>5. CASE Resolve(r)
  BY <1>3, <1>5 DEF Resolve, PCs
<1>6. CASE RefreshLoad(r)
  <2>1. /\ q.pc = "refresh" /\ live' = live
        /\ \/ /\ req' = [req EXCEPT ![r] = Refreshed(q)] \/ req' = [req EXCEPT ![r] = RefreshFailed(q)]
              /\ lock' = lock
           \/ /\ lock[a] = NoWriter
              /\ req' = [req EXCEPT ![r].pc = "grant"]
              /\ lock' = [lock EXCEPT ![a] = r]
    BY <1>6 DEF RefreshLoad, MayEnter
  <2>2. CASE lock' = lock /\ req' = [req EXCEPT ![r] = Refreshed(q)]
    BY <1>0, <1>1, <2>1, <2>2, RefreshPlain
  <2>3. CASE lock' = lock /\ req' = [req EXCEPT ![r] = RefreshFailed(q)]
    BY <1>0, <1>1, <2>1, <2>3, RefreshPlain
  <2>4. CASE /\ lock[a] = NoWriter
             /\ req' = [req EXCEPT ![r].pc = "grant"]
             /\ lock' = [lock EXCEPT ![a] = r]
    <3> DEFINE n == [q EXCEPT !.pc = "grant"]
    <3>1. req' = [req EXCEPT ![r] = n]
      BY <2>4 DEF TypeOK
    <3>2. n.pc = "grant" /\ n.acct = a /\ n.result = q.result
      BY <1>0 DEF Request
    <3> HIDE DEF n
    <3>3. Shape(r, n)
      BY <2>1, <2>4, <3>1, <3>2 DEF Shape
    <3>4. QED
      BY <3>3
  <2>5. QED
    BY <2>1, <2>2, <2>3, <2>4
<1>7. CASE GrantReply(r)
  <2>1. /\ q.pc = "grant" /\ live' = live /\ lock' = [lock EXCEPT ![a] = NoWriter]
        /\ \/ req' = [req EXCEPT ![r] = Refreshed(q)]
           \/ req' = [req EXCEPT ![r] = RefreshFailed(q)]
           \/ live[a] # "live" /\ req' = [req EXCEPT ![r] = Finish(q, "crashed")]
    BY <1>7 DEF GrantReply, LockAfterGrant
  <2>2. ASSUME NEW n, Plain(q, n), req' = [req EXCEPT ![r] = n] PROVE Shape(r, n)
    BY <2>1, <2>2 DEF Plain, Shape
  <2>3. CASE req' = [req EXCEPT ![r] = Refreshed(q)]
    BY <1>0, <2>2, <2>3, RefreshPlain
  <2>4. CASE req' = [req EXCEPT ![r] = RefreshFailed(q)]
    BY <1>0, <2>2, <2>4, RefreshPlain
  <2>5. CASE live[a] # "live" /\ req' = [req EXCEPT ![r] = Finish(q, "crashed")]
    <3>1. a \in Accounts
      BY <1>0, <2>1 DEF WellFormed
    <3>2. Shape(r, Finish(q, "crashed"))
      BY <1>0, <2>1, <2>5, <3>1, FinishFields DEF Shape
    <3>3. QED
      BY <3>2
  <2>6. QED
    BY <2>1, <2>3, <2>4, <2>5
<1>8. ASSUME NEW n, Plain(q, n), Answered(r, n) PROVE Shape(r, n)
  BY <1>1, <1>8 DEF Answered
<1>9. CASE AnswerRelay(r)
  <2>1. PICK h \in HeaderChoices, fault \in {"none", "broken"} :
          Answered(r, [q EXCEPT !.pc = "success", !.headers = h, !.fault = fault])
    BY <1>9 DEF AnswerRelay
  <2>2. Plain(q, [q EXCEPT !.pc = "success", !.headers = h, !.fault = fault])
    BY <1>0 DEF Plain, Request
  <2>3. QED
    BY <1>8, <2>1, <2>2
<1>10. CASE AnswerBroken(r)
  <2>1. Plain(q, Finish(q, "broken"))
    BY <1>0, FinishFields DEF Plain
  <2>2. QED
    BY <1>8, <1>10, <2>1 DEF AnswerBroken
<1>11. ASSUME NEW fault, NEW w, NEW h,
              Answered(r, Fail(q, fault, w, h))
       PROVE  \E n : Shape(r, n)
  <2>1. Plain(q, Fail(q, fault, w, h))
    BY <1>0, FailPlain
  <2>2. QED
    BY <1>8, <1>11, <2>1
<1>12. CASE AnswerLimited(r) \/ AnswerError(r) \/ AnswerTransport(r)
  BY <1>11, <1>12 DEF AnswerLimited, AnswerError, AnswerTransport
<1>13. CASE AnswerRejected(r)
  <2> DEFINE n == [q EXCEPT !.pc = "refresh", !.forced = TRUE,
                            !.reauthed = @ \cup {q.acct}, !.tried = @ \ {q.acct}]
  <2>1. Plain(q, n)
    BY <1>0 DEF Plain, Request
  <2>2. CASE Answered(r, n)
    BY <1>8, <2>1, <2>2
  <2>3. CASE Answered(r, Fail(q, "auth", NoTime, NoHeaders))
    BY <1>11, <2>3
  <2>4. QED
    BY <1>13, <2>2, <2>3 DEF AnswerRejected
<1>14. ASSUME q.pc # "grant", live' = live, lock' = lock,
              req' = [req EXCEPT ![r] = Continue(q)]
       PROVE  \E n : Shape(r, n)
  BY <1>0, <1>1, <1>14, ContinuePlain
<1>15. CASE LoadFailure(r)
  <2>1. /\ q.pc = "fail" /\ live' = live /\ lock' = lock
        /\ \/ req' = [req EXCEPT ![r].pc = "failcommit"]
           \/ req' = [req EXCEPT ![r] = Continue(q)]
    BY <1>15 DEF LoadFailure
  <2>2. QED
    BY <1>3, <1>14, <2>1 DEF PCs
<1>16. CASE CommitFailure(r)
  <2>1. /\ q.pc = "failcommit" /\ live' = live /\ lock' = lock
        /\ \/ req' = [req EXCEPT ![r] = Continue(q)]
           \/ live[a] # "live" /\ req' = [req EXCEPT ![r] = Finish(q, "crashed")]
    BY <1>16 DEF CommitFailure
  <2>2. QED
    BY <1>2, <1>14, <2>1
<1>17. CASE LoadSuccess(r)
  <2>1. /\ q.pc = "success" /\ live' = live /\ lock' = lock
        /\ \/ req' = [req EXCEPT ![r].pc = "successcommit"]
           \/ live[a] # "live" /\ req' = [req EXCEPT ![r] = Finish(q, "vanished")]
    BY <1>17 DEF LoadSuccess
  <2>2. QED
    BY <1>2, <1>3, <2>1 DEF PCs
<1>18. CASE CommitSuccess(r)
  <2>1. /\ q.pc = "successcommit" /\ live' = live /\ lock' = lock
        /\ \/ \E result \in {"broken", "relayed"} :
                 req' = [req EXCEPT ![r] = Finish(q, result)]
           \/ live[a] # "live" /\ req' = [req EXCEPT ![r] = Finish(q, "crashed")]
    BY <1>18 DEF CommitSuccess
  <2>2. ASSUME NEW result \in {"broken", "relayed"} PROVE Plain(q, Finish(q, result))
    BY <1>0, FinishFields DEF Plain
  <2>3. QED
    BY <1>1, <1>2, <2>1, <2>2
<1>19. CASE Record(r)
  BY <1>3, <1>19 DEF Record, PCs
<1>20. QED
  BY <1>4, <1>5, <1>6, <1>7, <1>9, <1>10, <1>12, <1>13, <1>15, <1>16, <1>17, <1>18,
     <1>19 DEF RequestStep

LEMMA RequestStepKeeps ==
    ASSUME TypeOK, GrantHoldsLock, AccountsExisted, CrashesOnlyOnDelete,
           NEW r \in Requests, RequestStep(r)
    PROVE  GrantHoldsLock' /\ AccountsExisted' /\ CrashesOnlyOnDelete'
<1> DEFINE q == req[r]
<1>1. PICK n : Shape(r, n)
  BY RequestStepShape
<1>2. req'[r] = n /\ (\A s \in Requests \ {r} : req'[s] = req[s]) /\ live' = live
  BY <1>1 DEF Shape, TypeOK
<1>3. GrantHoldsLock'
  <2> SUFFICES ASSUME NEW s \in Requests, NEW a \in Accounts
               PROVE  lock'[a] = s <=> req'[s].pc = "grant" /\ req'[s].acct = a
    BY DEF GrantHoldsLock
  <2>1. /\ \A t \in Requests, b \in Accounts :
              lock[b] = t <=> req[t].pc = "grant" /\ req[t].acct = b
        /\ NoWriter \notin Requests
        /\ lock \in [Accounts -> Requests \cup {NoWriter}]
        /\ q.pc \in {"grant", "refresh"} => q.acct \in Accounts
    BY WritersAssumption DEF GrantHoldsLock, Writers, TypeOK, WellFormed
  <2>2. CASE q.pc # "grant" /\ n.pc # "grant" /\ lock' = lock
    BY <1>2, <2>1, <2>2
  <2>3. CASE /\ q.pc = "refresh" /\ n.pc = "grant" /\ n.acct = q.acct
             /\ lock[q.acct] = NoWriter
             /\ lock' = [lock EXCEPT ![q.acct] = r]
    BY <1>2, <2>1, <2>3
  <2>4. CASE /\ q.pc = "grant" /\ n.pc # "grant"
             /\ lock' = [lock EXCEPT ![q.acct] = NoWriter]
    BY <1>2, <2>1, <2>4
  <2>5. QED
    BY <1>1, <2>2, <2>3, <2>4 DEF Shape
<1>4. AccountsExisted'
  BY <1>1, <1>2 DEF AccountsExisted, Shape, Present
<1>5. CrashesOnlyOnDelete'
  <2>1. ASSUME q.acct \in Accounts, live[q.acct] # "live"
        PROVE  live[q.acct] = "deleted"
    BY <2>1, NoAccountAssumption DEF AccountsExisted, TypeOK
  <2>2. QED
    BY <1>1, <1>2, <2>1 DEF CrashesOnlyOnDelete, Shape
<1>6. QED
  BY <1>3, <1>4, <1>5

-----------------------------------------------------------------------------
(* Every other step leaves the course of the requests alone *)

LEMMA OtherStepKeeps ==
    ASSUME IndInv, lock' = lock, sends' = sends,
           \A r \in Requests :
              /\ req'[r].pc = req[r].pc /\ req'[r].acct = req[r].acct
              /\ req'[r].tried = req[r].tried /\ req'[r].reauthed = req[r].reauthed
              /\ req'[r].forced = req[r].forced /\ req'[r].result = req[r].result,
           \A a \in Accounts :
              /\ live[a] # "absent" => live'[a] # "absent"
              /\ live[a] = "deleted" => live'[a] = "deleted"
    PROVE  Ledger' /\ GrantHoldsLock' /\ AccountsExisted' /\ CrashesOnlyOnDelete'
<1>1. Ledger'
  BY DEF IndInv, Ledger, SendsCounted, TriedListed, Unsent
<1>2. GrantHoldsLock'
  BY DEF IndInv, GrantHoldsLock
<1>3. AccountsExisted'
  BY DEF IndInv, AccountsExisted, TypeOK, Request
<1>4. CrashesOnlyOnDelete'
  BY DEF IndInv, CrashesOnlyOnDelete
<1>5. QED
  BY <1>1, <1>2, <1>3, <1>4

LEMMA StepInv == IndInv /\ [Next]_vars => IndInv'
<1> SUFFICES ASSUME IndInv, [Next]_vars PROVE IndInv'
  OBVIOUS
<1> DEFINE Rest == Ledger /\ GrantHoldsLock /\ AccountsExisted /\ CrashesOnlyOnDelete
<1>1. TypeOK'
  BY StepType DEF IndInv
<1>2. ASSUME NEW r \in Requests, RequestStep(r) PROVE Rest'
  BY <1>2, RequestStepLedger, RequestStepKeeps DEF IndInv
<1>3. ASSUME UNCHANGED <<live, req, lock, sends>> PROVE Rest'
  BY <1>3, OtherStepKeeps
<1>4. ASSUME NEW p \in Probers, ProbeStep(p) PROVE Rest'
  BY <1>3, <1>4 DEF ProbeStep, ProbeStart, ProbeAnswer, FoldLoad, FoldCommit
<1>5. ASSUME NEW a \in Accounts, UpdateLoad(a) \/ UpdateCommit(a) \/ HealthChange(a)
      PROVE  Rest'
  BY <1>3, <1>5 DEF UpdateLoad, UpdateCommit, HealthChange
<1>6. ASSUME NEW a \in Accounts, Delete(a) \/ Create(a) PROVE Rest'
  <2>1. \A b \in Accounts : /\ live[b] # "absent" => live'[b] # "absent"
                            /\ live[b] = "deleted" => live'[b] = "deleted"
    BY <1>6 DEF Delete, Create, IndInv, TypeOK
  <2>2. req' = req /\ lock' = lock /\ sends' = sends
    BY <1>6 DEF Delete, Create
  <2>3. QED
    BY <2>1, <2>2, OtherStepKeeps
<1>7. ASSUME Tick PROVE Rest'
  <2>1. live' = live /\ lock' = lock /\ sends' = sends
    BY <1>7 DEF Tick
  <2>2. ASSUME NEW r \in Requests
        PROVE  /\ req'[r].pc = req[r].pc /\ req'[r].acct = req[r].acct
               /\ req'[r].tried = req[r].tried /\ req'[r].reauthed = req[r].reauthed
               /\ req'[r].forced = req[r].forced /\ req'[r].result = req[r].result
    <3>1. req[r] \in Request
      BY DEF IndInv, TypeOK
    <3>2. req'[r] = [req[r] EXCEPT !.headers.reset = Later(@)]
      BY <1>7 DEF Tick
    <3>3. QED
      BY <3>1, <3>2 DEF Request
  <2>3. \A a \in Accounts : /\ live[a] # "absent" => live'[a] # "absent"
                            /\ live[a] = "deleted" => live'[a] = "deleted"
    BY <2>1
  <2>4. QED
    BY <2>1, <2>2, <2>3, OtherStepKeeps
<1>8. ASSUME Done \/ UNCHANGED vars PROVE Rest'
  <2>1. UNCHANGED <<live, req, lock, sends>>
    BY <1>8 DEF Done, vars
  <2>2. QED
    BY <1>3, <2>1
<1>9. Rest'
  BY <1>2, <1>4, <1>5, <1>6, <1>7, <1>8 DEF Next
<1>10. QED
  BY <1>1, <1>9 DEF IndInv

-----------------------------------------------------------------------------
(* Why no usable account is left out *)

\* The request does not end for want of an account, and it has nothing to commit
\* to an account's row.
HasAccount(q) == q.pc = "record" => q.result \notin {"accounts_spent", "unavailable"}
Committing(q) == q.pc \in {"failcommit", "successcommit"}
Onward(q) == HasAccount(q) /\ ~Committing(q)

LEMMA FinishOnward ==
    ASSUME NEW q \in Request, NEW result \in Results \ {"accounts_spent", "unavailable"}
    PROVE  Onward(Finish(q, result))
BY FinishFields DEF Onward, Committing, HasAccount

LEMMA ContinueOnward == ASSUME NEW q \in Request PROVE Onward(Continue(q))
<1>1. CASE q.attempt = MaxAttempts
  BY <1>1, FinishOnward DEF Continue, Results
<1>2. CASE q.attempt # MaxAttempts
  BY <1>2 DEF Continue, Onward, Committing, HasAccount, Request
<1>3. QED
  BY <1>1, <1>2

LEMMA FailOnward ==
    ASSUME NEW q \in Request, NEW fault, NEW w, NEW h
    PROVE  Onward(Fail(q, fault, w, h))
BY DEF Fail, Onward, Committing, HasAccount, Request

LEMMA RefreshOnward ==
    ASSUME NEW q \in Request PROVE Onward(Refreshed(q)) /\ Onward(RefreshFailed(q))
<1>1. Onward([q EXCEPT !.pc = "send"])
  BY DEF Onward, Committing, HasAccount, Request
<1>2. Onward(Fail([q EXCEPT !.tried = @ \cup {q.acct}], "auth", NoTime, NoHeaders))
  BY DEF Onward, Committing, HasAccount, Fail, Request
<1>3. QED
  BY <1>1, <1>2, ContinueOnward, FailOnward DEF Refreshed, RefreshFailed

\* Only a selection ends a request for want of an account, and only a Load gives
\* it something to commit.
LEMMA OnwardSteps ==
    ASSUME TypeOK, NEW r \in Requests, RequestStep(r)
    PROVE  /\ Select(r) \/ HasAccount(req'[r])
           /\ LoadFailure(r) \/ LoadSuccess(r) \/ ~Committing(req'[r])
<1> DEFINE q == req[r]
<1>0. q \in Request /\ req \in [Requests -> Request]
  BY DEF TypeOK
<1>1. ASSUME NEW n, Onward(n), req' = [req EXCEPT ![r] = n] PROVE Onward(req'[r])
  BY <1>0, <1>1
<1>2. ASSUME NEW pc \in PCs \ {"record", "failcommit", "successcommit"}, req' = [req EXCEPT ![r].pc = pc]
      PROVE  Onward(req'[r])
  BY <1>0, <1>2 DEF Onward, Committing, HasAccount, Request
<1>3. CASE Resolve(r)
  BY <1>2, <1>3 DEF Resolve, PCs, Onward
<1>4. CASE RefreshLoad(r)
  <2>1. \/ req' = [req EXCEPT ![r] = RefreshFailed(q)]
        \/ req' = [req EXCEPT ![r] = Refreshed(q)]
        \/ req' = [req EXCEPT ![r].pc = "grant"]
    BY <1>4 DEF RefreshLoad
  <2>2. QED
    BY <1>0, <1>1, <1>2, <2>1, RefreshOnward DEF PCs, Onward
<1>5. CASE GrantReply(r)
  <2>1. \/ req' = [req EXCEPT ![r] = RefreshFailed(q)]
        \/ req' = [req EXCEPT ![r] = Refreshed(q)]
        \/ req' = [req EXCEPT ![r] = Finish(q, "crashed")]
    BY <1>5 DEF GrantReply
  <2>2. QED
    BY <1>0, <1>1, <2>1, RefreshOnward, FinishOnward DEF Results, Onward
<1>6. ASSUME NEW n, Onward(n), Answered(r, n) PROVE Onward(req'[r])
  BY <1>1, <1>6 DEF Answered
<1>7. CASE AnswerRelay(r)
  <2>1. PICK h \in HeaderChoices, fault \in {"none", "broken"} :
          Answered(r, [q EXCEPT !.pc = "success", !.headers = h, !.fault = fault])
    BY <1>7 DEF AnswerRelay
  <2>2. Onward([q EXCEPT !.pc = "success", !.headers = h, !.fault = fault])
    BY <1>0 DEF Onward, Committing, HasAccount, Request
  <2>3. QED
    BY <1>6, <2>1, <2>2 DEF Onward
<1>8. CASE AnswerBroken(r)
  BY <1>0, <1>6, <1>8, FinishOnward DEF AnswerBroken, Results, Onward
<1>9. ASSUME NEW fault, NEW w, NEW h, Answered(r, Fail(q, fault, w, h))
      PROVE  Onward(req'[r])
  BY <1>0, <1>6, <1>9, FailOnward
<1>10. CASE AnswerLimited(r) \/ AnswerError(r) \/ AnswerTransport(r)
  BY <1>9, <1>10 DEF AnswerLimited, AnswerError, AnswerTransport, Onward
<1>11. CASE AnswerRejected(r)
  <2> DEFINE n == [q EXCEPT !.pc = "refresh", !.forced = TRUE,
                            !.reauthed = @ \cup {q.acct}, !.tried = @ \ {q.acct}]
  <2>1. Onward(n)
    BY <1>0 DEF Onward, Committing, HasAccount, Request
  <2>2. Answered(r, n) \/ Answered(r, Fail(q, "auth", NoTime, NoHeaders))
    BY <1>11 DEF AnswerRejected
  <2> HIDE DEF n
  <2>3. QED
    BY <1>6, <1>9, <2>1, <2>2 DEF Onward
<1>12. CASE LoadFailure(r)
  <2>1. \/ req' = [req EXCEPT ![r].pc = "failcommit"]
        \/ req' = [req EXCEPT ![r] = Continue(q)]
    BY <1>12 DEF LoadFailure
  <2>2. HasAccount(req'[r])
    BY <1>0, <2>1, ContinueOnward DEF Onward, HasAccount, Request
  <2>3. QED
    BY <1>12, <2>2
<1>13. CASE CommitFailure(r)
  <2>1. \/ req' = [req EXCEPT ![r] = Continue(q)]
        \/ req' = [req EXCEPT ![r] = Finish(q, "crashed")]
    BY <1>13 DEF CommitFailure
  <2>2. QED
    BY <1>0, <1>1, <2>1, ContinueOnward, FinishOnward DEF Results, Onward
<1>14. CASE LoadSuccess(r)
  <2>1. \/ req' = [req EXCEPT ![r].pc = "successcommit"]
        \/ req' = [req EXCEPT ![r] = Finish(q, "vanished")]
    BY <1>14 DEF LoadSuccess
  <2>2. Onward(Finish(q, "vanished"))
    BY <1>0, FinishOnward DEF Results
  <2>3. HasAccount(req'[r])
    BY <1>0, <2>1, <2>2 DEF Onward, HasAccount, Request
  <2>4. QED
    BY <1>14, <2>3
<1>15. CASE CommitSuccess(r)
  <2>1. \E result \in {"broken", "relayed", "crashed"} :
            req' = [req EXCEPT ![r] = Finish(q, result)]
    BY <1>15 DEF CommitSuccess
  <2>2. QED
    BY <1>0, <1>1, <2>1, FinishOnward DEF Results, Onward
<1>16. CASE Record(r)
  BY <1>2, <1>16 DEF Record, PCs, Onward
<1>17. CASE Select(r)
  <2>1. \/ \E b : req' = [req EXCEPT ![r].pc = "resolve", ![r].acct = b,
                                    ![r].tried = @ \cup {b}]
        \/ \E result \in {"accounts_spent", "unavailable"} :
              req' = [req EXCEPT ![r] = Finish(q, result)]
    BY <1>17 DEF Select
  <2>2. ~Committing(req'[r])
    <3>1. ASSUME NEW b, req' = [req EXCEPT ![r].pc = "resolve", ![r].acct = b,
                                           ![r].tried = @ \cup {b}]
          PROVE  req'[r].pc = "resolve"
      BY <1>0, <3>1 DEF Request
    <3>2. ASSUME NEW result, req' = [req EXCEPT ![r] = Finish(q, result)]
          PROVE  req'[r].pc \in {"record", "done"}
      BY <1>0, <3>2, FinishFields
    <3>3. req'[r].pc \in {"resolve", "record", "done"}
      BY <2>1, <3>1, <3>2
    <3>4. QED
      BY <3>3 DEF Committing
  <2>3. QED
    BY <1>17, <2>2
<1>18. QED
  BY <1>3, <1>4, <1>5, <1>7, <1>8, <1>10, <1>11, <1>12, <1>13, <1>14, <1>15, <1>16,
     <1>17 DEF RequestStep, Onward

\* What the history holds is usable now, and once a request has selected it only
\* loses accounts.
LEMMA ObserveFacts ==
    ASSUME Observe, NEW r \in Requests
    PROVE  /\ usable'[r] \subseteq UsableNow(r)'
           /\ req[r].pc # "select" => usable'[r] \subseteq usable[r]
<1> DEFINE now == UsableNow(r)'
<1>1. usable'[r] = CASE req'[r].pc = "done" -> {}
                     [] req'[r].pc # "done" /\ req[r].pc = "select" /\ req[r].attempt = 1 -> now
                     [] OTHER -> usable[r] \cap now
  BY DEF Observe
<1> HIDE DEF now
<1>2. usable'[r] \subseteq now /\ (req[r].pc # "select" => usable'[r] \subseteq usable[r])
  BY <1>1
<1>3. QED
  BY <1>2 DEF now

\* When a selection finds nothing, every account that is usable has been tried.
LEMMA GivesUpHavingTried ==
    ASSUME TypeOK, NEW r \in Requests, Select(r), ~HasAccount(req'[r])
    PROVE  UsableNow(r) \subseteq req'[r].tried
<1> DEFINE q == req[r]
           accounts == FilterByModel(Present)
<1>1. PICK preferred \in Preferences(q, accounts) :
        LET choices == SelectAccount(row, accounts, q.tried, Pinned[r], preferred,
                                     Strategy, rr)
        IN  \/ \E b \in choices :
                  req' = [req EXCEPT ![r].pc = "resolve", ![r].acct = b,
                                     ![r].tried = @ \cup {b}]
            \/ /\ choices = {}
               /\ req' = [req EXCEPT ![r] = Finish(@,
                            IF q.tried = {} THEN "unavailable" ELSE "accounts_spent")]
  BY DEF Select
<1> DEFINE choices == SelectAccount(row, accounts, q.tried, Pinned[r], preferred,
                                    Strategy, rr)
           result == IF q.tried = {} THEN "unavailable" ELSE "accounts_spent"
<1>2. q \in Request /\ req \in [Requests -> Request] /\ row \in [Accounts -> Row] /\ rr \in Nat
  BY PeriodAssumption DEF TypeOK
<1>3. choices = {} /\ req'[r] = Finish(q, result)
  <2>1. ASSUME NEW b, req' = [req EXCEPT ![r].pc = "resolve", ![r].acct = b,
                                         ![r].tried = @ \cup {b}]
        PROVE  FALSE
    BY <1>2, <2>1 DEF HasAccount, Request
  <2> HIDE DEF accounts
  <2>2. choices = {} /\ req' = [req EXCEPT ![r] = Finish(q, result)]
    BY <1>1, <2>1
  <2>3. QED
    BY <1>2, <2>2
<1>4. req'[r].tried = q.tried
  BY <1>2, <1>3 DEF Finish, Request
<1>5. ASSUME NEW a \in UsableNow(r), a \notin q.tried PROVE FALSE
  <2>1. a \in Present \ Unsupported /\ IsAvailable(row[a]) /\ Pinned[r] \in {NoAccount, a}
    BY <1>5 DEF UsableNow, Available
  <2>2. accounts = Present \ Unsupported /\ accounts \in SUBSET Accounts
    BY <2>1 DEF FilterByModel, Present
  <2> HIDE DEF accounts
  <2>3. a \in Available(row, accounts \ q.tried)
    BY <1>5, <2>1, <2>2 DEF Available
  <2>4. choices # {}
    BY <1>2, <2>1, <2>2, <2>3, SelectionFinds, SetupAssumption
  <2>5. QED
    BY <1>3, <2>4
<1>6. QED
  BY <1>4, <1>5

\* No step makes a request end with a usable account untried.
LEMMA StepTries ==
    TypeOK /\ FailsOnlyAfterTryingUsable /\ [Next]_vars => FailsOnlyAfterTryingUsable'
<1> SUFFICES ASSUME TypeOK, FailsOnlyAfterTryingUsable, [Next]_vars,
                    NEW r \in Requests, ~HasAccount(req'[r])
             PROVE  usable'[r] \subseteq req'[r].tried
  BY DEF FailsOnlyAfterTryingUsable, HasAccount
<1>1. ASSUME req'[r].pc = req[r].pc, req'[r].result = req[r].result,
             req'[r].tried = req[r].tried, Observe \/ usable' = usable
      PROVE  usable'[r] \subseteq req'[r].tried
  <2>1. req[r].pc = "record" /\ usable[r] \subseteq req[r].tried
    BY <1>1 DEF FailsOnlyAfterTryingUsable, HasAccount
  <2>2. usable'[r] \subseteq usable[r]
    BY <1>1, <2>1, ObserveFacts
  <2>3. QED
    BY <1>1, <2>1, <2>2
<1>2. ASSUME RequestStep(r) PROVE usable'[r] \subseteq req'[r].tried
  <2>1. Select(r)
    BY <1>2, OnwardSteps
  <2>2. UsableNow(r) \subseteq req'[r].tried
    BY <2>1, GivesUpHavingTried
  <2>3. Observe /\ row' = row /\ live' = live
    BY <2>1 DEF Select
  <2>4. UsableNow(r)' = UsableNow(r)
    BY <2>3 DEF UsableNow, Available, Present
  <2>5. QED
    BY <2>2, <2>3, <2>4, ObserveFacts
<1>3. ASSUME NEW s \in Requests \ {r}, RequestStep(s) PROVE usable'[r] \subseteq req'[r].tried
  <2>1. PICK n : Shape(s, n)
    BY <1>3, RequestStepShape
  <2>2. req'[r] = req[r]
    BY <2>1 DEF Shape, TypeOK
  <2>3. Observe
    BY <1>3 DEF RequestStep, Select, Resolve, RefreshLoad, GrantReply, AnswerRelay,
       AnswerBroken, AnswerLimited, AnswerError, AnswerTransport, AnswerRejected, Answered,
       LoadFailure, CommitFailure, LoadSuccess, CommitSuccess, Record
  <2>4. QED
    BY <1>1, <2>2, <2>3
<1>4. CASE \/ \E p \in Probers : ProbeStep(p)
           \/ \E a \in Accounts : \/ UpdateLoad(a) \/ UpdateCommit(a) \/ Delete(a)
                                  \/ Create(a) \/ HealthChange(a)
           \/ Done
           \/ UNCHANGED vars
  <2>1. req' = req /\ (Observe \/ usable' = usable)
    BY <1>4 DEF ProbeStep, ProbeStart, ProbeAnswer, FoldLoad, FoldCommit, UpdateLoad,
       UpdateCommit, Delete, Create, HealthChange, Done, vars
  <2>2. QED
    BY <1>1, <2>1
<1>5. CASE Tick
  <2>1. req[r] \in Request /\ req'[r] = [req[r] EXCEPT !.headers.reset = Later(@)] /\ Observe
    BY <1>5 DEF Tick, TypeOK
  <2>2. /\ req'[r].pc = req[r].pc /\ req'[r].result = req[r].result
        /\ req'[r].tried = req[r].tried
    BY <2>1 DEF Request
  <2>3. QED
    BY <1>1, <2>1, <2>2
<1>6. QED
  BY <1>2, <1>3, <1>4, <1>5 DEF Next

-----------------------------------------------------------------------------
(* Why only those entitled to it move an account in or out of rotation *)

\* An open transaction writes "enabled" only as its writer judged the account: a
\* request to disable one whose credential was rejected, a probe what it was
\* answered.  An UPDATE is computed when the row is read and committed later, so
\* this has to be remembered.
RequestsWrite ==
    \A r \in Requests :
        /\ req[r].pc = "failcommit" /\ "enabled" \in sess[r][req[r].acct].cols
              => req[r].fault = "auth" /\ ~sess[r][req[r].acct].new.enabled
        /\ req[r].pc = "successcommit" => "enabled" \notin sess[r][req[r].acct].cols

ProbesWrite ==
    \A p \in Probers, a \in Accounts :
        "enabled" \in sess[p][a].cols
            => /\ round[p].phase = "folding"
               /\ round[p].verdict[a] = IF sess[p][a].new.enabled THEN "ok" ELSE "auth"

WritesAsJudged == RequestsWrite /\ ProbesWrite

\* A unit of work writes "enabled" only when the object differs from the row.
LEMMA WritingEnabled ==
    ASSUME NEW old \in Row, NEW new \in Row, NEW stamped \in BOOLEAN,
           "enabled" \in Writing(old, new, stamped).cols
    PROVE  /\ old.enabled # new.enabled
           /\ Writing(old, new, stamped).new.enabled = new.enabled
<1>1. old.enabled # new.enabled
  BY DEF Writing, Changed
<1>2. QED
  BY <1>1 DEF Writing, Overlay

LEMMA CommittedEnabled ==
    ASSUME NEW a, NEW s
    PROVE  Committed(a, s).enabled = IF "enabled" \in s.cols THEN s.new.enabled
                                                             ELSE row[a].enabled
BY DEF Committed, Overlay

\* What the bookkeeping of an attempt, a probe and a refresh do to "enabled".
LEMMA BreakerEnabled ==
    ASSUME NEW account \in Row, NEW h, NEW wait
    PROVE  /\ \A fault \in {"auth", "limited", "error"} :
                 RecordFailure(ApplyRateLimitHeaders(account, h), fault, wait).enabled
                    = (fault # "auth" /\ account.enabled)
           /\ RecordSuccess(ApplyRateLimitHeaders(account, h)).enabled = account.enabled
<1> DEFINE b == ApplyRateLimitHeaders(account, h)
<1>1. /\ b.enabled = account.enabled /\ account.enabled \in BOOLEAN
      /\ "enabled" \in DOMAIN b
  BY DEF ApplyRateLimitHeaders, Row
<1>2. ASSUME NEW fault \in {"auth", "limited", "error"}
      PROVE  RecordFailure(b, fault, wait).enabled = (fault # "auth" /\ account.enabled)
  <2> HIDE DEF b
  <2>1. CASE fault = "auth"
    BY <1>1, <2>1 DEF RecordFailure
  <2>2. CASE fault = "limited"
    BY <1>1, <2>2 DEF RecordFailure
  <2>3. CASE fault = "error"
    BY <1>1, <2>3 DEF RecordFailure
  <2>4. QED
    BY <2>1, <2>2, <2>3
<1>3. RecordSuccess(b).enabled = account.enabled
  BY <1>1 DEF RecordSuccess
<1>4. QED
  BY <1>2, <1>3

LEMMA FoldEnabled ==
    ASSUME NEW account \in Row, NEW verdict,
           Fold(account, verdict).enabled # account.enabled
    PROVE  verdict = IF Fold(account, verdict).enabled THEN "ok" ELSE "auth"
<1>1. CASE verdict = "ok"
  BY <1>1 DEF Fold, RecordSuccess, Row
<1>2. CASE verdict = "auth"
  BY <1>2 DEF Fold, Row
<1>3. CASE verdict \notin {"ok", "auth"}
  BY <1>3 DEF Fold
<1>4. QED
  BY <1>1, <1>2, <1>3

LEMMA GrantEnabled ==
    ASSUME NEW account \in Row
    PROVE  /\ GrantSucceeded(account).enabled = account.enabled
           /\ GrantFailed(account).enabled # account.enabled
                 => /\ ~GrantFailed(account).enabled
                    /\ account.refreshFailures + 1 >= MAX_REFRESH_FAILURES
<1>1. account.refreshFailures \in Nat /\ MAX_REFRESH_FAILURES \in Nat
  BY SetupAssumption DEF Row
<1>2. GrantSucceeded(account).enabled = account.enabled
  BY DEF GrantSucceeded, Row
<1>3. CASE account.refreshFailures + 1 < MAX_REFRESH_FAILURES
  BY <1>2, <1>3 DEF GrantFailed, Row
<1>4. CASE account.refreshFailures + 1 >= MAX_REFRESH_FAILURES
  BY <1>1, <1>2, <1>4 DEF GrantFailed, Row
<1>5. QED
  BY <1>1, <1>3, <1>4

\* A step of a request leaves the transactions of the others alone.
LEMMA OwnSession ==
    ASSUME TypeOK, NEW r \in Requests, RequestStep(r)
    PROVE  /\ round' = round
           /\ \A w \in Writers \ {r} : sess'[w] = sess[w]
           /\ \A s \in Requests \ {r} : req'[s] = req[s]
<1>1. round' = round
  BY DEF RequestStep, Select, Resolve, RefreshLoad, GrantReply, AnswerRelay,
     AnswerBroken, AnswerLimited, AnswerError, AnswerTransport, AnswerRejected, Answered,
     LoadFailure, CommitFailure, LoadSuccess, CommitSuccess, Record
<1>2. sess' = sess \/ \E a, s : sess' = [sess EXCEPT ![r][a] = s]
  BY DEF RequestStep, Select, Resolve, RefreshLoad, GrantReply, AnswerRelay,
     AnswerBroken, AnswerLimited, AnswerError, AnswerTransport, AnswerRejected, Answered,
     LoadFailure, CommitFailure, LoadSuccess, CommitSuccess, Record
<1>3. \A w \in Writers \ {r} : sess'[w] = sess[w]
  BY <1>2 DEF TypeOK
<1>4. PICK n : Shape(r, n)
  BY RequestStepShape
<1>5. \A s \in Requests \ {r} : req'[s] = req[s]
  BY <1>4 DEF Shape, TypeOK
<1>6. QED
  BY <1>1, <1>3, <1>5

LEMMA RequestJudges ==
    ASSUME TypeOK, WritesAsJudged, NEW r \in Requests, RequestStep(r)
    PROVE  WritesAsJudged'
<1> DEFINE q == req[r]
           a == q.acct
<1>0. /\ q \in Request /\ WellFormed(q) /\ r \in Writers /\ req \in [Requests -> Request]
      /\ sess \in [Writers -> [Accounts -> Session]] /\ row \in [Accounts -> Row]
  BY DEF TypeOK, Writers
<1>1. /\ round' = round
      /\ \A w \in Writers \ {r} : sess'[w] = sess[w]
      /\ \A s \in Requests \ {r} : req'[s] = req[s]
  BY OwnSession
<1>2. ProbesWrite'
  <2>1. \A p \in Probers : sess'[p] = sess[p]
    BY <1>1, WritersAssumption DEF Writers
  <2>2. QED
    BY <1>1, <2>1 DEF WritesAsJudged, ProbesWrite
<1> DEFINE Good(s) ==
        /\ req[s].pc = "failcommit" /\ "enabled" \in sess[s][req[s].acct].cols
              => req[s].fault = "auth" /\ ~sess[s][req[s].acct].new.enabled
        /\ req[s].pc = "successcommit" => "enabled" \notin sess[s][req[s].acct].cols
<1>3. ASSUME NEW s \in Requests \ {r} PROVE Good(s)'
  <2>1. sess'[s] = sess[s] /\ req'[s] = req[s]
    BY <1>1 DEF Writers
  <2>2. QED
    BY <2>1 DEF WritesAsJudged, RequestsWrite
<1>4. Good(r)'
  <2>1. CASE LoadFailure(r) /\ live[a] = "live"
    <3> DEFINE new == RecordFailure(ApplyRateLimitHeaders(row[a], q.headers), q.fault,
                                    q.retryAfter)
               stamped == q.headers # NoHeaders
    <3>1. /\ q.pc = "fail" /\ req' = [req EXCEPT ![r].pc = "failcommit"]
          /\ sess' = [sess EXCEPT ![r][a] = Writing(row[a], new, stamped)]
      BY <2>1 DEF LoadFailure
    <3>2. a \in Accounts /\ q.fault \in {"auth", "limited", "error"} /\ row[a] \in Row
      BY <1>0, <3>1 DEF WellFormed
    <3>3. new \in Row /\ new.enabled = (q.fault # "auth" /\ row[a].enabled)
      BY <1>0, <3>2, HeadersType, FailureType, BreakerEnabled DEF Request
    <3>4. /\ req'[r].pc = "failcommit" /\ req'[r].acct = a /\ req'[r].fault = q.fault
      BY <1>0, <3>1 DEF Request
    <3>5. stamped \in BOOLEAN
      OBVIOUS
    <3> HIDE DEF new, stamped
    <3>6. sess'[r][a] = Writing(row[a], new, stamped)
      BY <1>0, <3>1, <3>2
    <3>7. "enabled" \in sess'[r][a].cols
              => row[a].enabled # new.enabled /\ sess'[r][a].new.enabled = new.enabled
      BY <3>2, <3>3, <3>5, <3>6, WritingEnabled
    <3>8. row[a].enabled \in BOOLEAN
      BY <3>2 DEF Row
    <3> HIDE DEF q, a
    <3>9. QED
      BY <3>3, <3>4, <3>7, <3>8
  <2>2. CASE LoadSuccess(r) /\ live[a] = "live"
    <3> DEFINE new == RecordSuccess(ApplyRateLimitHeaders(row[a], q.headers))
    <3>1. /\ q.pc = "success" /\ req' = [req EXCEPT ![r].pc = "successcommit"]
          /\ sess' = [sess EXCEPT ![r][a] = Writing(row[a], new, TRUE)]
      BY <2>2 DEF LoadSuccess
    <3>2. a \in Accounts /\ row[a] \in Row
      BY <1>0, <3>1 DEF WellFormed
    <3>3. new \in Row /\ new.enabled = row[a].enabled
      BY <1>0, <3>2, HeadersType, SuccessType, BreakerEnabled DEF Request
    <3>4. req'[r].pc = "successcommit" /\ req'[r].acct = a
      BY <1>0, <3>1 DEF Request
    <3> HIDE DEF new
    <3>5. sess'[r][a] = Writing(row[a], new, TRUE)
      BY <1>0, <3>1, <3>2
    <3>6. "enabled" \notin sess'[r][a].cols
      BY <3>2, <3>3, <3>5, WritingEnabled
    <3> HIDE DEF q, a
    <3>7. QED
      BY <3>4, <3>6
  <2>3. CASE ~Committing(req'[r])
    BY <2>3 DEF Committing
  <2>4. CASE (LoadFailure(r) \/ LoadSuccess(r)) /\ live[a] # "live"
    <3>1. req' = [req EXCEPT ![r] = Continue(q)] \/ req' = [req EXCEPT ![r] = Finish(q, "vanished")]
      BY <2>4 DEF LoadFailure, LoadSuccess
    <3>2. ~Committing(Continue(q)) /\ ~Committing(Finish(q, "vanished"))
      BY <1>0, ContinueOnward, FinishFields DEF Onward, Committing
    <3>3. QED
      BY <1>0, <2>3, <3>1, <3>2
  <2>5. QED
    BY <2>1, <2>2, <2>3, <2>4, OnwardSteps
<1>5. RequestsWrite'
  BY <1>3, <1>4 DEF RequestsWrite
<1>6. QED
  BY <1>2, <1>5 DEF WritesAsJudged

LEMMA ProbeJudges ==
    ASSUME TypeOK, WritesAsJudged, NEW p \in Probers, ProbeStep(p)
    PROVE  WritesAsJudged'
<1>0. /\ p \in Writers /\ sess \in [Writers -> [Accounts -> Session]]
      /\ round \in [Probers -> Round] /\ row \in [Accounts -> Row]
  BY DEF TypeOK, Writers
<1>1. req' = req /\ \A w \in Writers \ {p} : sess'[w] = sess[w]
  BY <1>0 DEF ProbeStep, ProbeStart, ProbeAnswer, FoldLoad, FoldCommit
<1>2. RequestsWrite'
  <2>1. \A r \in Requests : sess'[r] = sess[r]
    BY <1>1, WritersAssumption DEF Writers
  <2>2. QED
    BY <1>1, <2>1 DEF WritesAsJudged, RequestsWrite
<1> DEFINE Good(o, a) ==
        "enabled" \in sess[o][a].cols
            => /\ round[o].phase = "folding"
               /\ round[o].verdict[a] = IF sess[o][a].new.enabled THEN "ok" ELSE "auth"
<1>3. ASSUME NEW o \in Probers \ {p}, NEW a \in Accounts PROVE Good(o, a)'
  <2>1. round'[o] = round[o]
    BY <1>0 DEF ProbeStep, ProbeStart, ProbeAnswer, FoldLoad, FoldCommit
  <2>2. sess'[o] = sess[o]
    BY <1>1 DEF Writers
  <2>3. QED
    BY <2>1, <2>2 DEF WritesAsJudged, ProbesWrite
<1>4. ASSUME NEW a \in Accounts PROVE Good(p, a)'
  <2>0. Good(p, a) /\ round[p] \in Round
    BY <1>0 DEF WritesAsJudged, ProbesWrite
  <2>1. CASE ProbeStart(p) \/ \E b \in Accounts : ProbeAnswer(p, b)
    <3>1. round[p].phase # "folding" /\ sess' = sess
      BY <2>1 DEF ProbeStart, ProbeAnswer
    <3>2. QED
      BY <2>0, <3>1
  <2>2. ASSUME NEW b \in Accounts, FoldLoad(p, b) PROVE Good(p, a)'
    <3>1. round[p].phase = "folding" /\ round' = [round EXCEPT ![p].loaded = @ \cup {b}]
      BY <2>2 DEF FoldLoad
    <3>2. round'[p].phase = "folding" /\ round'[p].verdict = round[p].verdict
      BY <1>0, <2>0, <3>1 DEF Round
    <3>3. CASE sess'[p][a] = sess[p][a]
      BY <2>0, <3>2, <3>3
    <3>4. CASE sess'[p][a] # sess[p][a]
      <4> DEFINE new == Fold(row[a], round[p].verdict[a])
      <4>1. sess'[p][a] = Writing(row[a], new, TRUE)
        BY <1>0, <2>2, <3>4 DEF FoldLoad
      <4>2. row[a] \in Row /\ new \in Row
        BY <1>0, FoldType
      <4> HIDE DEF new
      <4>3. "enabled" \in Writing(row[a], new, TRUE).cols
                => /\ row[a].enabled # new.enabled
                   /\ Writing(row[a], new, TRUE).new.enabled = new.enabled
        BY <4>2, WritingEnabled
      <4>4. row[a].enabled # new.enabled
                => round[p].verdict[a] = IF new.enabled THEN "ok" ELSE "auth"
        BY <4>2, FoldEnabled DEF new
      <4>5. QED
        BY <3>2, <4>1, <4>3, <4>4
    <3>5. QED
      BY <3>3, <3>4
  <2>3. CASE FoldCommit(p)
    <3>1. sess'[p][a] = NoSession
      BY <1>0, <2>3 DEF FoldCommit
    <3>2. QED
      BY <3>1 DEF NoSession
  <2>4. QED
    BY <2>1, <2>2, <2>3 DEF ProbeStep
<1>5. ProbesWrite'
  BY <1>3, <1>4 DEF ProbesWrite
<1>6. QED
  BY <1>2, <1>5 DEF WritesAsJudged

LEMMA JudgedInit == Init => WritesAsJudged
<1> SUFFICES ASSUME Init PROVE WritesAsJudged
  OBVIOUS
<1>1. \A r \in Requests : req[r].pc = "select"
  BY DEF Init, NewRequest
<1>2. \A p \in Probers, a \in Accounts : sess[p][a].cols = {}
  BY DEF Init, NoSession, Writers
<1>3. QED
  BY <1>1, <1>2 DEF WritesAsJudged, RequestsWrite, ProbesWrite

LEMMA JudgedStep == TypeOK /\ WritesAsJudged /\ [Next]_vars => WritesAsJudged'
<1> SUFFICES ASSUME TypeOK, WritesAsJudged, [Next]_vars PROVE WritesAsJudged'
  OBVIOUS
<1>1. ASSUME req' = req, round' = round,
             \A w \in Requests \cup Probers : sess'[w] = sess[w]
      PROVE  WritesAsJudged'
  BY <1>1 DEF WritesAsJudged, RequestsWrite, ProbesWrite
<1>2. ASSUME NEW a \in Accounts,
             \/ UpdateLoad(a) \/ UpdateCommit(a) \/ Delete(a) \/ Create(a) \/ HealthChange(a)
             \/ Done \/ UNCHANGED vars
      PROVE  WritesAsJudged'
  <2>1. req' = req /\ round' = round
    BY <1>2 DEF UpdateLoad, UpdateCommit, Delete, Create, HealthChange, Done, vars
  <2>2. sess' = sess \/ \E s : sess' = [sess EXCEPT ![Operator][a] = s]
    BY <1>2 DEF UpdateLoad, UpdateCommit, Delete, Create, HealthChange, Done, vars
  <2>3. \A w \in Requests \cup Probers : sess'[w] = sess[w]
    BY <2>2, WritersAssumption DEF TypeOK, Writers
  <2>4. QED
    BY <1>1, <2>1, <2>3
<1>3. CASE Done \/ UNCHANGED vars
  BY <1>1, <1>3 DEF Done, vars
<1>4. CASE Tick
  <2>1. ASSUME NEW w \in Requests \cup Probers, NEW a \in Accounts
        PROVE  /\ sess'[w][a].cols = sess[w][a].cols
               /\ sess'[w][a].new.enabled = sess[w][a].new.enabled
    <3>1. sess[w][a] \in Session /\ w \in Writers
      BY DEF TypeOK, Writers
    <3>2. sess'[w][a] = [sess[w][a] EXCEPT !.new = Aged(@)]
      BY <1>4, <3>1 DEF Tick
    <3>3. QED
      BY <3>1, <3>2 DEF Session, Aged, Row
  <2>2. ProbesWrite'
    <3>1. round' = round
      BY <1>4 DEF Tick
    <3>2. QED
      BY <2>1, <3>1 DEF WritesAsJudged, ProbesWrite
  <2>3. ASSUME NEW r \in Requests
        PROVE  /\ req'[r].pc = req[r].pc /\ req'[r].acct = req[r].acct
               /\ req'[r].fault = req[r].fault
               /\ Committing(req[r]) => req[r].acct \in Accounts
    <3>1. req[r] \in Request /\ WellFormed(req[r])
      BY DEF TypeOK
    <3>2. req'[r] = [req[r] EXCEPT !.headers.reset = Later(@)]
      BY <1>4 DEF Tick
    <3>3. QED
      BY <3>1, <3>2 DEF Request, WellFormed, Committing
  <2>4. RequestsWrite'
    BY <2>1, <2>3 DEF WritesAsJudged, RequestsWrite, Committing
  <2>5. QED
    BY <2>2, <2>4 DEF WritesAsJudged
<1>5. QED
  BY <1>2, <1>3, <1>4, RequestJudges, ProbeJudges DEF Next

\* A step keeps "enabled" of the rows it does not name.
LEMMA RequestEntitled ==
    ASSUME TypeOK, WritesAsJudged, NEW r \in Requests, RequestStep(r),
           NEW a \in Accounts, live[a] = "live"
    PROVE  Entitled(a)
<1> DEFINE q == req[r]
<1>0. /\ q \in Request /\ WellFormed(q) /\ r \in Writers /\ req \in [Requests -> Request]
      /\ sess \in [Writers -> [Accounts -> Session]] /\ row \in [Accounts -> Row]
  BY DEF TypeOK, Writers
<1>1. ASSUME row'[a].enabled = row[a].enabled PROVE Entitled(a)
  BY <1>1 DEF Entitled
<1>2. ASSUME row' = row \/ (q.acct # a /\ \E new : row' = [row EXCEPT ![q.acct] = new])
      PROVE  Entitled(a)
  <2>1. row'[a] = row[a]
    BY <1>0, <1>2
  <2>2. QED
    BY <1>1, <2>1
<1>3. CASE GrantReply(r) /\ q.acct = a
  <2> DEFINE old == sess[r][a].new
  <2>1. PICK ok \in BOOLEAN :
          LET new == IF ok THEN GrantSucceeded(old) ELSE GrantFailed(old)
          IN  /\ row' = [row EXCEPT ![a] = Committed(a, Writing(old, new, TRUE))]
              /\ req' = [req EXCEPT ![r] = IF ok THEN Refreshed(q) ELSE RefreshFailed(q)]
    BY <1>3 DEF GrantReply
  <2> DEFINE new == IF ok THEN GrantSucceeded(old) ELSE GrantFailed(old)
             w == Writing(old, new, TRUE)
  <2>2. old \in Row /\ new \in Row
    BY <1>0, GrantType DEF Session
  <2>3. row'[a].enabled = IF "enabled" \in w.cols THEN w.new.enabled ELSE row[a].enabled
    BY <1>0, <2>1, CommittedEnabled
  <2>4. "enabled" \in w.cols => new.enabled # old.enabled /\ w.new.enabled = new.enabled
    BY <2>2, WritingEnabled
  <2>5. new.enabled # old.enabled
           => ~ok /\ ~new.enabled /\ old.refreshFailures + 1 >= MAX_REFRESH_FAILURES
    BY <2>2, GrantEnabled
  <2>6. ~ok => req'[r].pc = "fail"
    <3>1. RefreshFailed(q).pc = "fail"
      BY <1>0 DEF RefreshFailed, Fail, Request
    <3>2. QED
      BY <1>0, <2>1, <3>1
  <2> HIDE DEF new, w
  <2>7. CASE "enabled" \in w.cols
    <3>1. /\ ~row'[a].enabled /\ req'[r].pc # req[r].pc /\ req[r].pc = "grant"
          /\ sess[r][a].new.refreshFailures + 1 >= MAX_REFRESH_FAILURES
      BY <1>3, <2>3, <2>4, <2>5, <2>6, <2>7 DEF GrantReply
    <3>2. QED
      BY <1>3, <3>1 DEF Entitled
  <2>8. CASE "enabled" \notin w.cols
    BY <1>1, <2>3, <2>8
  <2>9. QED
    BY <2>7, <2>8
<1>4. CASE CommitFailure(r) /\ q.acct = a
  <2>1. q.pc = "failcommit" /\ row' = [row EXCEPT ![a] = Committed(a, sess[r][a])]
    BY <1>4 DEF CommitFailure
  <2>2. row'[a].enabled = IF "enabled" \in sess[r][a].cols THEN sess[r][a].new.enabled
                                                            ELSE row[a].enabled
    BY <1>0, <2>1, CommittedEnabled
  <2>3. CASE "enabled" \in sess[r][a].cols
    <3>1. q.fault = "auth" /\ ~row'[a].enabled
      BY <1>4, <2>1, <2>2, <2>3 DEF WritesAsJudged, RequestsWrite
    <3>2. req'[r].pc # "failcommit"
      BY <2>1, OnwardSteps DEF LoadFailure, LoadSuccess, Committing
    <3>3. QED
      BY <1>4, <2>1, <3>1, <3>2 DEF Entitled
  <2>4. CASE "enabled" \notin sess[r][a].cols
    BY <1>1, <2>2, <2>4
  <2>5. QED
    BY <2>3, <2>4
<1>5. CASE CommitSuccess(r) /\ q.acct = a
  <2>1. q.pc = "successcommit" /\ row' = [row EXCEPT ![a] = Committed(a, sess[r][a])]
    BY <1>5 DEF CommitSuccess
  <2>2. "enabled" \notin sess[r][a].cols
    BY <1>5, <2>1 DEF WritesAsJudged, RequestsWrite
  <2>3. row'[a].enabled = row[a].enabled
    BY <1>0, <2>1, <2>2, CommittedEnabled
  <2>4. QED
    BY <1>1, <2>3
<1>6. CASE Record(r)
  <2>1. row' = row \/ row' = [row EXCEPT ![q.acct].total = @ + 1]
    BY <1>6 DEF Record
  <2>2. row'[a].enabled = row[a].enabled
    BY <1>0, <2>1 DEF Row
  <2>3. QED
    BY <1>1, <2>2
<1>7. CASE (GrantReply(r) \/ CommitFailure(r) \/ CommitSuccess(r)) /\ q.acct # a
  <2>1. row' = row \/ \E new : row' = [row EXCEPT ![q.acct] = new]
    BY <1>7 DEF GrantReply, CommitFailure, CommitSuccess
  <2>2. QED
    BY <1>2, <1>7, <2>1
<1>8. CASE row' = row
  BY <1>2, <1>8
<1>9. QED
  BY <1>3, <1>4, <1>5, <1>6, <1>7, <1>8 DEF RequestStep, Select, Resolve, RefreshLoad,
     AnswerRelay, AnswerBroken, AnswerLimited, AnswerError, AnswerTransport, AnswerRejected,
     Answered, LoadFailure, LoadSuccess

LEMMA StepEntitled ==
    ASSUME TypeOK, WritesAsJudged, [Next]_vars,
           NEW a \in Accounts, live[a] = "live", live'[a] = "live"
    PROVE  Entitled(a)
<1>0. /\ sess \in [Writers -> [Accounts -> Session]] /\ row \in [Accounts -> Row]
      /\ round \in [Probers -> Round] /\ live \in [Accounts -> {"absent", "live", "deleted"}]
      /\ row[a] \in Row
  BY DEF TypeOK
<1>1. ASSUME row'[a].enabled = row[a].enabled PROVE Entitled(a)
  BY <1>1 DEF Entitled
<1>2. ASSUME NEW p \in Probers, FoldCommit(p) PROVE Entitled(a)
  <2>1. \/ row'[a] = row[a] \/ row'[a] = Committed(a, sess[p][a])
    BY <1>0, <1>2 DEF FoldCommit
  <2>2. round[p].phase = "folding" /\ round'[p].phase = "idle"
    BY <1>0, <1>2 DEF FoldCommit, NoRound
  <2>3. CASE row'[a] = Committed(a, sess[p][a]) /\ "enabled" \in sess[p][a].cols
    <3>1. row'[a].enabled = sess[p][a].new.enabled
      BY <2>3, CommittedEnabled
    <3>2. round[p].verdict[a] = IF row'[a].enabled THEN "ok" ELSE "auth"
      BY <2>3, <3>1 DEF WritesAsJudged, ProbesWrite
    <3>3. QED
      BY <2>2, <3>2 DEF Entitled, FoldsIn
  <2>4. CASE row'[a] = Committed(a, sess[p][a]) /\ "enabled" \notin sess[p][a].cols
    <3>1. row'[a].enabled = row[a].enabled
      BY <2>4, CommittedEnabled
    <3>2. QED
      BY <1>1, <3>1
  <2>5. QED
    BY <1>1, <2>1, <2>3, <2>4
<1>3. ASSUME NEW b \in Accounts, UpdateCommit(b) PROVE Entitled(a)
  <2>1. CASE a = b
    <3>1. Operator \in Writers
      BY DEF Writers
    <3>2. sess[Operator][a].open /\ sess'[Operator][a] = NoSession
      BY <1>0, <1>3, <2>1, <3>1 DEF UpdateCommit
    <3>3. Patches(a)
      BY <3>2 DEF Patches, NoSession
    <3>4. QED
      BY <3>3 DEF Entitled
  <2>2. CASE a # b
    BY <1>0, <1>1, <1>3, <2>2 DEF UpdateCommit
  <2>3. QED
    BY <2>1, <2>2
<1>4. ASSUME NEW b \in Accounts, Delete(b) \/ Create(b) PROVE Entitled(a)
  <2>1. a # b
    BY <1>0, <1>4 DEF Delete, Create
  <2>2. row'[a] = row[a]
    BY <1>0, <1>4, <2>1 DEF Delete, Create
  <2>3. QED
    BY <1>1, <2>2
<1>5. CASE Tick
  <2>1. row'[a] = Aged(row[a])
    BY <1>5 DEF Tick
  <2>2. row'[a].enabled = row[a].enabled
    BY <1>0, <2>1 DEF Aged, Row
  <2>3. QED
    BY <1>1, <2>2
<1>6. CASE row' = row
  BY <1>1, <1>6
<1>7. ASSUME NEW p \in Probers, ProbeStep(p) PROVE Entitled(a)
  BY <1>2, <1>6, <1>7 DEF ProbeStep, ProbeStart, ProbeAnswer, FoldLoad
<1>8. CASE \/ \E b \in Accounts : UpdateLoad(b) \/ HealthChange(b)
           \/ Done \/ UNCHANGED vars
  BY <1>6, <1>8 DEF UpdateLoad, HealthChange, Done, vars
<1>9. QED
  BY <1>3, <1>4, <1>5, <1>7, <1>8, RequestEntitled DEF Next

-----------------------------------------------------------------------------
(* What follows *)

THEOREM Invariance == Spec => []IndInv
<1>1. QED
  BY InitInv, StepInv, PTL DEF Spec

\* Within one client request an account is sent upstream once, and a second
\* time only after its one forced refresh (service.py, tried and reauthed), with
\* any number of accounts, attempts and concurrent writers.
THEOREM NoAccountBurntTwice == Spec => []OneSendPerAccount
<1>1. IndInv => OneSendPerAccount
  <2> SUFFICES ASSUME IndInv, NEW r \in Requests, NEW a \in Accounts
               PROVE  sends[r][a] <= IF a \in req[r].reauthed THEN 2 ELSE 1
    BY DEF OneSendPerAccount
  <2>1. sends[r][a] <= 1 + (IF a \in req[r].reauthed THEN 1 ELSE 0)
    BY DEF IndInv, Ledger, SendsCounted
  <2>2. sends[r][a] \in Nat
    BY DEF IndInv, TypeOK
  <2>3. QED
    BY <2>1, <2>2
<1>2. QED
  BY <1>1, Invariance, PTL

\* The token endpoint is called for an account by one request at a time, the
\* one that holds its lock (credentials.py, refresh), and the lock is never left
\* behind.
THEOREM OneGrantAtATime == Spec => []GrantHoldsLock
<1>1. IndInv => GrantHoldsLock
  BY DEF IndInv
<1>2. QED
  BY <1>1, Invariance, PTL

\* A request dies in its bookkeeping only when an operator deleted an account
\* (service.py, _record_attempt_failure and _refresh_account).
THEOREM BookkeepingSurvives == Spec => []CrashesOnlyOnDelete
<1>1. IndInv => CrashesOnlyOnDelete
  BY DEF IndInv
<1>2. QED
  BY <1>1, Invariance, PTL

\* What a transaction writes to "enabled" stays what its writer judged until it is
\* committed (service.py, run_health_probes and _record_attempt_failure).
THEOREM JudgedAlways == Spec => []WritesAsJudged
<1>1. QED
  BY JudgedInit, JudgedStep, TypeCorrect, PTL DEF Spec

\* However many requests, probe rounds and PATCHes overlap, an account enters
\* rotation only by a probe answered 200 or an operator, and leaves it only by a
\* rejected credential, a tripped refresh breaker, a probe or an operator
\* (load_balancer.py, record_failure; health/service.py, run_health_probes).
THEOREM LedgerKept == Spec => RotationLedger
<1>1. TypeOK /\ WritesAsJudged /\ [Next]_vars
         => \A a \in Accounts : live[a] = "live" /\ live'[a] = "live" => Entitled(a)
  BY StepEntitled
<1>2. QED
  BY <1>1, TypeCorrect, JudgedAlways, PTL DEF Spec, RotationLedger
\* A request that gives up early has tried every account that stayed usable
\* since its first selection (service.py, tried; load_balancer.py,
\* select_account), whatever the strategy and the other writers.
THEOREM TriesAllUsable == Spec => []FailsOnlyAfterTryingUsable
<1>1. Init => FailsOnlyAfterTryingUsable
  BY DEF Init, FailsOnlyAfterTryingUsable, NewRequest
<1>2. QED
  BY <1>1, StepTries, TypeCorrect, PTL DEF Spec

\* In every state the proxy reaches select_account returns an untried usable
\* account if there is one, under any strategy and preference, and nothing else.
THEOREM SelectsUsable == Spec => []SelectionComplete
<1>1. TypeOK => SelectionComplete
  BY CompleteInState, PeriodAssumption DEF TypeOK
<1>2. QED
  BY <1>1, TypeCorrect, PTL

\* In every state affinity is a hint (load_balancer.py, select_account, preferred_id).
THEOREM AffinityIsSoft == Spec => []AffinityYields
<1>1. TypeOK => AffinityYields
  BY YieldsInState DEF TypeOK
<1>2. QED
  BY <1>1, TypeCorrect, PTL

\* In every state capacity_weighted keeps off spent accounts while another one
\* has headroom (load_balancer.py, headroom).
THEOREM SpentAreSpared == Spec => []SparesSpentAccounts
<1>1. TypeOK => SparesSpentAccounts
  BY SparesInState DEF TypeOK
<1>2. QED
  BY <1>1, TypeCorrect, PTL

\* From every state as many round-robin selections as there are usable accounts
\* use each of them once, whatever the size of the pool (load_balancer.py,
\* _round_robin_counter).
THEOREM RoundsAreFair == Spec => []RoundRobinFair
<1>1. TypeOK => RoundRobinFair
  BY FairInState, PeriodAssumption DEF TypeOK
<1>2. QED
  BY <1>1, TypeCorrect, PTL
-----------------------------------------------------------------------------
(* Proxy implements Failover *)

TripOf(course, attempt, account, tried, renewed, outcome) ==
    [course |-> course, attempt |-> attempt, account |-> account,
     tried |-> tried, renewed |-> renewed, outcome |-> outcome]

LEMMA TripFinish ==
    ASSUME NEW q \in Request, NEW result
    PROVE  Trip(Finish(q, result)) = Loop!Over(Trip(q), result)
<1> DEFINE n == Finish(q, result)
<1>1. /\ n.pc \in {"record", "done"} /\ n.result = result /\ n.attempt = q.attempt
      /\ n.tried = q.tried /\ n.reauthed = q.reauthed
  BY DEF Finish, Request
<1> HIDE DEF n
<1>2. Course(n) = "over"
  BY <1>1 DEF Course
<1> DEFINE k == Trip(q).account
           t == TripOf("over", q.attempt, NoAccount, q.tried, q.reauthed, result)
           t0 == TripOf(Course(q), q.attempt, k, q.tried, q.reauthed, q.result)
           t1 == TripOf("over", q.attempt, k, q.tried, q.reauthed, q.result)
           t2 == TripOf("over", q.attempt, NoAccount, q.tried, q.reauthed, q.result)
<1>3. Trip(n) = t
  BY <1>1, <1>2 DEF Trip, TripOf
<1>4. Trip(q) = t0
  BY DEF Trip, TripOf
<1> HIDE DEF k
<1>5. /\ [t0 EXCEPT !.course = "over"] = t1
      /\ [t1 EXCEPT !.account = NoAccount] = t2
      /\ [t2 EXCEPT !.outcome = result] = t
  <2>1. [t0 EXCEPT !.course = "over"] = t1
    BY DEF TripOf
  <2>2. [t1 EXCEPT !.account = NoAccount] = t2
    BY DEF TripOf
  <2>3. [t2 EXCEPT !.outcome = result] = t
    BY DEF TripOf
  <2>4. QED
    BY <2>1, <2>2, <2>3
<1> HIDE DEF t0, t1, t2, t
<1>6. [t0 EXCEPT !.course = "over", !.account = NoAccount, !.outcome = result]
        = [[[t0 EXCEPT !.course = "over"] EXCEPT !.account = NoAccount] EXCEPT !.outcome = result]
  OBVIOUS
<1>7. [t0 EXCEPT !.course = "over", !.account = NoAccount, !.outcome = result] = t
  BY <1>5, <1>6
<1>8. Loop!Over(Trip(q), result) = t
  BY <1>4, <1>7 DEF Loop!Over
<1>9. QED
  BY <1>3, <1>8 DEF n

LEMMA TripContinue ==
    ASSUME NEW q \in Request PROVE Trip(Continue(q)) = Loop!Again(Trip(q))
<1>1. CASE q.attempt = MaxAttempts
  BY <1>1, TripFinish DEF Continue, Loop!Again, Trip
<1>2. CASE q.attempt # MaxAttempts
  <2> DEFINE n == Continue(q)
  <2>1. /\ n.pc = "select" /\ n.result = q.result /\ n.attempt = q.attempt + 1
        /\ n.tried = q.tried /\ n.reauthed = q.reauthed
    BY <1>2 DEF Continue, Request
  <2> HIDE DEF n
  <2>2. Course(n) = "choosing"
    BY <2>1 DEF Course
  <2>3. QED
    BY <1>2, <2>1, <2>2 DEF Trip, Loop!Again, n
<1>3. QED
  BY <1>1, <1>2

\* A request that has an account in hand.
InHand(q) == q.pc \notin {"select", "record", "done"}

LEMMA TripInHand ==
    ASSUME NEW q \in Request
    PROVE  /\ InHand(q) => Trip(q).account = q.acct
           /\ InHand(q) <=> Course(q) \notin {"choosing", "over"}
BY DEF InHand, Trip, Course, Request, PCs

LEMMA TripFail ==
    ASSUME NEW q \in Request, InHand(q), NEW fault, NEW w, NEW h
    PROVE  Trip(Fail(q, fault, w, h)) = [Trip(q) EXCEPT !.course = "failed"]
<1> DEFINE n == Fail(q, fault, w, h)
<1>1. /\ n.pc = "fail" /\ n.result = q.result /\ n.attempt = q.attempt /\ n.acct = q.acct
      /\ n.tried = q.tried /\ n.reauthed = q.reauthed
  BY DEF Fail, Request
<1> HIDE DEF n
<1>2. Course(n) = "failed"
  BY <1>1 DEF Course
<1>3. Trip(q).account = q.acct
  BY TripInHand
<1>4. QED
  BY <1>1, <1>2, <1>3 DEF Trip, n

\* A step of one request is a step of its trip.
LEMMA TripMove ==
    ASSUME TypeOK, NEW r \in Requests, NEW n, req' = [req EXCEPT ![r] = n], sends' = sends
    PROVE  Loop!Move(r, Trip(n))
<1>1. Trips' = [Trips EXCEPT ![r] = Trip(n)]
  BY DEF Trips, TypeOK
<1>2. QED
  BY <1>1 DEF Loop!Move

LEMMA TripSend ==
    ASSUME TypeOK, NEW r \in Requests, NEW n, Answered(r, n)
    PROVE  Loop!Send(r, Trip(n)) /\ Trips[r] = Trip(req[r]) /\ req[r].pc = "send"
<1>1. /\ req[r].pc = "send" /\ req' = [req EXCEPT ![r] = n]
      /\ sends' = [sends EXCEPT ![r][req[r].acct] = @ + 1] /\ req[r] \in Request
  BY DEF Answered, TypeOK
<1>2. Trips' = [Trips EXCEPT ![r] = Trip(n)]
  BY <1>1 DEF Trips, TypeOK
<1>3. Trips[r].course = "holding" /\ Trips[r].account = req[r].acct
  BY <1>1, TripInHand DEF Trips, Trip, Course, InHand
<1>4. Trips[r] = Trip(req[r])
  BY DEF Trips
<1>5. QED
  BY <1>1, <1>2, <1>3, <1>4 DEF Loop!Send

LEMMA TripSame ==
    ASSUME \A r \in Requests : Trip(req'[r]) = Trip(req[r]), sends' = sends
    PROVE  UNCHANGED Loop!vars
BY DEF Loop!vars, Trips

\* What a refresh leads to.
LEMMA TripRefresh ==
    ASSUME TypeOK, Ledger, NEW r \in Requests, sends' = sends,
           req[r].pc \in {"refresh", "grant"},
           \/ req' = [req EXCEPT ![r] = Refreshed(req[r])]
           \/ req' = [req EXCEPT ![r] = RefreshFailed(req[r])]
    PROVE  [Loop!Next]_Loop!vars
<1> DEFINE q == req[r]
<1>0. q \in Request /\ InHand(q) /\ Trips[r] = Trip(q)
  BY DEF TypeOK, InHand, Trips
<1>1. CASE q.forced /\ req' = [req EXCEPT ![r] = Refreshed(q)]
  <2>1. Loop!Move(r, Loop!Again(Trip(q)))
    BY <1>0, <1>1, TripContinue, TripMove DEF Refreshed
  <2>2. Trips[r].course = "renewing"
    BY <1>0, <1>1 DEF Trip, Course
  <2>3. Loop!Renew(r)
    BY <1>0, <2>1, <2>2 DEF Loop!Renew
  <2>4. QED
    BY <2>3 DEF Loop!Next
<1>2. CASE q.forced /\ req' = [req EXCEPT ![r] = RefreshFailed(q)]
  <2> DEFINE t == [q EXCEPT !.tried = @ \cup {q.acct}]
  <2>1. t \in Request /\ InHand(t)
    BY <1>0, RefreshFailedType DEF Request, InHand, TypeOK, WellFormed
  <2>2. Trip(t) = [Trip(q) EXCEPT !.tried = @ \cup {q.acct}]
    <3>1. /\ t.pc = q.pc /\ t.forced = q.forced /\ t.acct = q.acct /\ t.result = q.result
          /\ t.attempt = q.attempt /\ t.reauthed = q.reauthed /\ t.tried = q.tried \cup {q.acct}
      BY <1>0 DEF Request
    <3> HIDE DEF t
    <3>2. Course(t) = Course(q)
      BY <3>1 DEF Course
    <3>3. QED
      BY <3>1, <3>2 DEF Trip
  <2> HIDE DEF t
  <2>3. Trip(Fail(t, "auth", NoTime, NoHeaders)) = [Trip(t) EXCEPT !.course = "failed"]
    BY <2>1, TripFail
  <2>4. Loop!Move(r, Trip(Fail(t, "auth", NoTime, NoHeaders)))
    BY <1>2, TripMove DEF RefreshFailed, t
  <2>5. Trips[r].course = "renewing" /\ Trips[r].account = q.acct
    BY <1>0, <1>2, TripInHand DEF Trip, Course
  <2>6. [Trip(t) EXCEPT !.course = "failed"]
          = [Trips[r] EXCEPT !.course = "failed", !.tried = @ \cup {Trips[r].account}]
    BY <1>0, <2>2, <2>5 DEF Trip
  <2>7. Loop!FailToRenew(r)
    BY <2>3, <2>4, <2>5, <2>6 DEF Loop!FailToRenew
  <2>8. QED
    BY <2>7 DEF Loop!Next
<1>3. CASE ~q.forced /\ req' = [req EXCEPT ![r] = Refreshed(q)]
  <2> DEFINE n == [q EXCEPT !.pc = "send"]
  <2>1. /\ n.pc = "send" /\ n.acct = q.acct /\ n.result = q.result
        /\ n.attempt = q.attempt /\ n.reauthed = q.reauthed /\ n.tried = q.tried
    BY <1>0 DEF Request
  <2>2. req' = [req EXCEPT ![r] = n]
    BY <1>3 DEF Refreshed
  <2> HIDE DEF n
  <2>3. Course(n) = "holding" /\ Course(q) = "holding"
    BY <1>3, <2>1 DEF Course
  <2>4. Trip(n) = Trip(q)
    BY <2>1, <2>3 DEF Trip
  <2>5. QED
    BY <2>2, <2>4, TripSame DEF TypeOK
<1>4. CASE ~q.forced /\ req' = [req EXCEPT ![r] = RefreshFailed(q)]
  <2>1. Loop!Move(r, [Trip(q) EXCEPT !.course = "failed"])
    <3> DEFINE n == Fail(q, "error", NoTime, NoHeaders)
    <3>1. req' = [req EXCEPT ![r] = n]
      BY <1>4 DEF RefreshFailed
    <3>2. Trip(n) = [Trip(q) EXCEPT !.course = "failed"]
      BY <1>0, TripFail
    <3> HIDE DEF n
    <3>3. Loop!Move(r, Trip(n))
      BY <3>1, TripMove
    <3>4. QED
      BY <3>2, <3>3
  <2>2. Trips[r].course = "holding"
    BY <1>0, <1>4 DEF Trip, Course
  <2>3. Loop!Lose(r)
    BY <1>0, <2>1, <2>2 DEF Loop!Lose
  <2>4. QED
    BY <2>3 DEF Loop!Next
<1>5. QED
  BY <1>1, <1>2, <1>3, <1>4

LEMMA RequestTrip ==
    ASSUME TypeOK, Ledger, NEW r \in Requests, RequestStep(r)
    PROVE  [Loop!Next]_Loop!vars
<1> DEFINE q == req[r]
<1>0. /\ q \in Request /\ WellFormed(q) /\ Trips[r] = Trip(q) /\ req \in [Requests -> Request]
      /\ q.forced => q.pc \in {"refresh", "grant"}
  BY DEF TypeOK, Trips, Ledger, TriedListed
<1>1. ASSUME NEW n, req' = [req EXCEPT ![r] = n], sends' = sends, Trip(n) = Trip(q)
      PROVE  [Loop!Next]_Loop!vars
  BY <1>0, <1>1, TripSame
<1>2. ASSUME NEW pc \in PCs, req' = [req EXCEPT ![r].pc = pc], sends' = sends,
             Course([q EXCEPT !.pc = pc]) = Course(q)
      PROVE  [Loop!Next]_Loop!vars
  <2> DEFINE n == [q EXCEPT !.pc = pc]
  <2>1. /\ n.acct = q.acct /\ n.result = q.result
        /\ n.attempt = q.attempt /\ n.reauthed = q.reauthed /\ n.tried = q.tried
    BY <1>0 DEF Request
  <2>2. Trip(n) = Trip(q)
    BY <1>2, <2>1 DEF Trip
  <2>3. req' = [req EXCEPT ![r] = n]
    BY <1>0, <1>2
  <2>4. QED
    BY <1>1, <1>2, <2>2, <2>3
<1>3. CASE Select(r)
  <2> DEFINE accounts == FilterByModel(Present)
             result == IF q.tried = {} THEN "unavailable" ELSE "accounts_spent"
  <2>1. PICK preferred \in Preferences(q, accounts) :
          \/ \E b \in SelectAccount(row, accounts, q.tried, Pinned[r], preferred, Strategy, rr) :
                req' = [req EXCEPT ![r].pc = "resolve", ![r].acct = b,
                                   ![r].tried = @ \cup {b}]
          \/ req' = [req EXCEPT ![r] = Finish(q, result)]
    BY <1>3 DEF Select
  <2> DEFINE choices == SelectAccount(row, accounts, q.tried, Pinned[r], preferred,
                                      Strategy, rr)
  <2>2. q.pc = "select" /\ sends' = sends /\ Trip(q).course = "choosing"
    BY <1>3 DEF Select, Trip, Course
  <2>3. choices \subseteq Accounts \ q.tried
    <3>1. choices \subseteq Available(row, accounts \ q.tried)
      BY SelectionSound, SetupAssumption
    <3>2. Available(row, accounts \ q.tried) \subseteq accounts \ q.tried
      BY AvailableInPool
    <3>3. accounts \subseteq Accounts
      BY DEF FilterByModel, Present
    <3> HIDE DEF accounts, choices
    <3>4. QED
      BY <3>1, <3>2, <3>3
  <2>4. ASSUME NEW b \in choices,
               req' = [req EXCEPT ![r].pc = "resolve", ![r].acct = b, ![r].tried = @ \cup {b}]
        PROVE  Loop!Choose(r)
    <3> HIDE DEF choices
    <3> DEFINE n == [q EXCEPT !.pc = "resolve", !.acct = b, !.tried = @ \cup {b}]
    <3>1. /\ n.pc = "resolve" /\ n.acct = b /\ n.result = q.result
          /\ n.attempt = q.attempt /\ n.reauthed = q.reauthed /\ n.tried = q.tried \cup {b}
      BY <1>0 DEF Request
    <3>2. req' = [req EXCEPT ![r] = n]
      BY <1>0, <2>4
    <3> HIDE DEF n
    <3>3. Course(n) = "holding"
      BY <3>1 DEF Course
    <3>4. Trip(n) = [Trip(q) EXCEPT !.course = "holding", !.account = b, !.tried = @ \cup {b}]
      <4> DEFINE k == Trip(q).account
                 t == TripOf("holding", q.attempt, b, q.tried \cup {b}, q.reauthed, q.result)
                 t0 == TripOf(Course(q), q.attempt, k, q.tried, q.reauthed, q.result)
                 t1 == TripOf("holding", q.attempt, k, q.tried, q.reauthed, q.result)
                 t2 == TripOf("holding", q.attempt, b, q.tried, q.reauthed, q.result)
      <4>1. Trip(n) = t
        BY <3>1, <3>3 DEF Trip, TripOf
      <4>2. Trip(q) = t0
        BY DEF Trip, TripOf
      <4> HIDE DEF k
      <4>3. [t0 EXCEPT !.course = "holding"] = t1
        BY DEF TripOf
      <4>4. [t1 EXCEPT !.account = b] = t2
        BY DEF TripOf
      <4>5. [t2 EXCEPT !.tried = @ \cup {b}] = t
        BY DEF TripOf
      <4> HIDE DEF t0, t1, t2, t
      <4>6. [t0 EXCEPT !.course = "holding", !.account = b, !.tried = @ \cup {b}]
              = [[[t0 EXCEPT !.course = "holding"] EXCEPT !.account = b]
                   EXCEPT !.tried = @ \cup {b}]
        OBVIOUS
      <4>7. [t0 EXCEPT !.course = "holding", !.account = b, !.tried = @ \cup {b}] = t
        BY <4>3, <4>4, <4>5, <4>6
      <4>8. QED
        BY <4>1, <4>2, <4>7
    <3>5. Loop!Move(r, [Trips[r] EXCEPT !.course = "holding", !.account = b,
                                        !.tried = @ \cup {b}])
      <4>1. Loop!Move(r, Trip(n))
        BY <2>2, <3>2, TripMove
      <4>2. QED
        BY <1>0, <3>4, <4>1
    <3>6. b \in Accounts \ Trips[r].tried /\ Trips[r].course = "choosing"
      <4>1. Trip(q).tried = q.tried
        BY DEF Trip
      <4>2. QED
        BY <1>0, <2>2, <2>3, <2>4, <4>1
    <3>7. QED
      BY <3>5, <3>6 DEF Loop!Choose
  <2>5. ASSUME req' = [req EXCEPT ![r] = Finish(q, result)] PROVE Loop!NoneLeft(r)
    <3>1. Loop!Move(r, Loop!Over(Trip(q), result))
      BY <1>0, <2>2, <2>5, TripMove, TripFinish
    <3>2. Trip(q).tried = q.tried
      BY DEF Trip
    <3>3. QED
      BY <1>0, <2>2, <3>1, <3>2 DEF Loop!NoneLeft
  <2>6. QED
    BY <2>1, <2>4, <2>5 DEF Loop!Next
<1>4. CASE Resolve(r)
  <2>1. PICK pc \in {"send", "refresh"} : req' = [req EXCEPT ![r].pc = pc]
    BY <1>4 DEF Resolve
  <2>2. q.pc = "resolve" /\ sends' = sends /\ ~q.forced
    BY <1>0, <1>4 DEF Resolve
  <2>3. Course([q EXCEPT !.pc = pc]) = Course(q)
    BY <1>0, <2>2 DEF Course, Request
  <2>4. QED
    BY <1>2, <2>1, <2>2, <2>3 DEF PCs
<1>5. CASE RefreshLoad(r)
  <2>1. q.pc = "refresh" /\ sends' = sends
    BY <1>5 DEF RefreshLoad
  <2>2. \/ req' = [req EXCEPT ![r] = RefreshFailed(q)]
        \/ req' = [req EXCEPT ![r] = Refreshed(q)]
        \/ req' = [req EXCEPT ![r].pc = "grant"]
    BY <1>5 DEF RefreshLoad
  <2>3. Course([q EXCEPT !.pc = "grant"]) = Course(q)
    BY <1>0, <2>1 DEF Course, Request
  <2>4. QED
    BY <1>2, <2>1, <2>2, <2>3, TripRefresh DEF PCs
<1>6. ASSUME InHand(q), sends' = sends, req' = [req EXCEPT ![r] = Finish(q, "crashed")]
      PROVE  Loop!Crash(r)
  <2>1. Loop!Move(r, Loop!Over(Trip(q), "crashed"))
    BY <1>0, <1>6, TripMove, TripFinish
  <2>2. Trips[r].course \notin {"choosing", "over"}
    BY <1>0, <1>6, TripInHand DEF Trip
  <2>3. QED
    BY <1>0, <2>1, <2>2 DEF Loop!Crash
<1>7. CASE GrantReply(r)
  <2>1. q.pc = "grant" /\ sends' = sends /\ InHand(q)
    BY <1>7 DEF GrantReply, InHand
  <2>2. \/ req' = [req EXCEPT ![r] = RefreshFailed(q)]
        \/ req' = [req EXCEPT ![r] = Refreshed(q)]
        \/ req' = [req EXCEPT ![r] = Finish(q, "crashed")]
    BY <1>7 DEF GrantReply
  <2>3. QED
    BY <1>6, <2>1, <2>2, TripRefresh DEF Loop!Next
<1>8. CASE AnswerRelay(r)
  <2>1. PICK h \in HeaderChoices, fault \in {"none", "broken"} :
          Answered(r, [q EXCEPT !.pc = "success", !.headers = h, !.fault = fault])
    BY <1>8 DEF AnswerRelay
  <2> DEFINE n == [q EXCEPT !.pc = "success", !.headers = h, !.fault = fault]
  <2>2. /\ n.pc = "success" /\ n.acct = q.acct /\ n.result = q.result
        /\ n.attempt = q.attempt /\ n.reauthed = q.reauthed /\ n.tried = q.tried
    BY <1>0 DEF Request
  <2> HIDE DEF n
  <2>3. Loop!Send(r, Trip(n)) /\ q.pc = "send"
    BY <2>1, TripSend DEF n
  <2>4. Course(n) = "served" /\ Trip(q).account = q.acct
    BY <1>0, <2>2, <2>3, TripInHand DEF Course, InHand
  <2>5. Trip(n) = [Trip(q) EXCEPT !.course = "served"]
    BY <2>2, <2>4 DEF Trip
  <2>6. QED
    BY <1>0, <2>3, <2>5 DEF Loop!Served, Loop!Next
<1>9. CASE AnswerBroken(r)
  <2>1. Loop!Send(r, Trip(Finish(q, "broken")))
    BY <1>9, TripSend DEF AnswerBroken
  <2>2. QED
    BY <1>0, <2>1, TripFinish DEF Loop!Broken, Loop!Next
<1>10. ASSUME NEW fault, NEW w, NEW h, Answered(r, Fail(q, fault, w, h))
       PROVE  Loop!Lose(r)
  <2>1. Loop!Send(r, Trip(Fail(q, fault, w, h))) /\ q.pc = "send"
    BY <1>10, TripSend
  <2>2. Trip(Fail(q, fault, w, h)) = [Trip(q) EXCEPT !.course = "failed"]
    BY <1>0, <2>1, TripFail DEF InHand
  <2>3. QED
    BY <1>0, <2>1, <2>2 DEF Loop!Lose
<1>11. CASE AnswerLimited(r) \/ AnswerError(r) \/ AnswerTransport(r)
  BY <1>10, <1>11 DEF AnswerLimited, AnswerError, AnswerTransport, Loop!Next
<1>12. CASE AnswerRejected(r)
  <2> DEFINE n == [q EXCEPT !.pc = "refresh", !.forced = TRUE,
                            !.reauthed = @ \cup {q.acct}, !.tried = @ \ {q.acct}]
  <2>1. \/ CanReauth(q) /\ Answered(r, n)
        \/ Answered(r, Fail(q, "auth", NoTime, NoHeaders))
    BY <1>12 DEF AnswerRejected
  <2>2. CASE CanReauth(q) /\ Answered(r, n)
    <3>1. /\ n.pc = "refresh" /\ n.forced /\ n.acct = q.acct /\ n.result = q.result
          /\ n.attempt = q.attempt /\ n.reauthed = q.reauthed \cup {q.acct}
          /\ n.tried = q.tried \ {q.acct}
      BY <1>0 DEF Request
    <3> HIDE DEF n
    <3>2. Loop!Send(r, Trip(n)) /\ q.pc = "send"
      BY <2>2, TripSend
    <3>3. Course(n) = "renewing" /\ Trip(q).account = q.acct
      BY <1>0, <3>1, <3>2, TripInHand DEF Course, InHand
    <3>4. Trip(n) = [Trip(q) EXCEPT !.course = "renewing",
                                    !.renewed = @ \cup {q.acct}, !.tried = @ \ {q.acct}]
      <4> DEFINE renewed == q.reauthed \cup {q.acct}
                 tried == q.tried \ {q.acct}
                 t == TripOf("renewing", q.attempt, q.acct, tried, renewed, q.result)
                 t0 == TripOf(Course(q), q.attempt, q.acct, q.tried, q.reauthed, q.result)
                 t1 == TripOf("renewing", q.attempt, q.acct, q.tried, q.reauthed, q.result)
                 t2 == TripOf("renewing", q.attempt, q.acct, q.tried, renewed, q.result)
      <4>1. Trip(n) = t
        BY <3>1, <3>3 DEF Trip, TripOf
      <4>2. Trip(q) = t0
        BY <3>3 DEF Trip, TripOf
      <4>3. [t0 EXCEPT !.course = "renewing"] = t1
        BY DEF TripOf
      <4>4. [t1 EXCEPT !.renewed = @ \cup {q.acct}] = t2
        BY DEF TripOf
      <4> HIDE DEF renewed, tried
      <4>5. t2.tried = q.tried /\ [t2 EXCEPT !.tried = tried] = t
        BY DEF TripOf
      <4> HIDE DEF t0, t1, t2, t
      <4>6. [t0 EXCEPT !.course = "renewing", !.renewed = @ \cup {q.acct},
                       !.tried = @ \ {q.acct}]
              = [[[t0 EXCEPT !.course = "renewing"] EXCEPT !.renewed = @ \cup {q.acct}]
                   EXCEPT !.tried = @ \ {q.acct}]
        OBVIOUS
      <4>7. [t0 EXCEPT !.course = "renewing", !.renewed = @ \cup {q.acct},
                       !.tried = @ \ {q.acct}] = t
        BY <4>3, <4>4, <4>5, <4>6 DEF tried
      <4>8. QED
        BY <4>1, <4>2, <4>7
    <3>5. Trips[r].account = q.acct /\ q.acct \notin Trips[r].renewed
      <4>1. Trip(q).renewed = q.reauthed
        BY DEF Trip
      <4>2. QED
        BY <1>0, <2>2, <3>3, <4>1 DEF CanReauth
    <3>6. Loop!Send(r, [Trips[r] EXCEPT !.course = "renewing",
                                        !.renewed = @ \cup {q.acct}, !.tried = @ \ {q.acct}])
      BY <1>0, <3>2, <3>4
    <3>7. Loop!Rejected(r)
      BY <3>5, <3>6 DEF Loop!Rejected
    <3>8. QED
      BY <3>7 DEF Loop!Next
  <2>3. QED
    BY <1>10, <2>1, <2>2 DEF Loop!Next
<1>13. ASSUME q.pc \in {"fail", "failcommit"}, sends' = sends,
              req' = [req EXCEPT ![r] = Continue(q)]
       PROVE  Loop!GoOn(r)
  <2>1. Loop!Move(r, Loop!Again(Trip(q)))
    BY <1>0, <1>13, TripMove, TripContinue
  <2>2. Trips[r].course = "failed"
    BY <1>0, <1>13 DEF Trip, Course
  <2>3. QED
    BY <1>0, <2>1, <2>2 DEF Loop!GoOn
<1>14. CASE LoadFailure(r)
  <2>1. q.pc = "fail" /\ sends' = sends
    BY <1>14 DEF LoadFailure
  <2>2. \/ req' = [req EXCEPT ![r].pc = "failcommit"]
        \/ req' = [req EXCEPT ![r] = Continue(q)]
    BY <1>14 DEF LoadFailure
  <2>3. Course([q EXCEPT !.pc = "failcommit"]) = Course(q)
    BY <1>0, <2>1 DEF Course, Request
  <2>4. QED
    BY <1>2, <1>13, <2>1, <2>2, <2>3 DEF PCs, Loop!Next
<1>15. CASE CommitFailure(r)
  <2>1. q.pc = "failcommit" /\ sends' = sends /\ InHand(q)
    BY <1>15 DEF CommitFailure, InHand
  <2>2. \/ req' = [req EXCEPT ![r] = Continue(q)]
        \/ req' = [req EXCEPT ![r] = Finish(q, "crashed")]
    BY <1>15 DEF CommitFailure
  <2>3. QED
    BY <1>6, <1>13, <2>1, <2>2 DEF Loop!Next
<1>16. ASSUME NEW result \in {"relayed", "broken", "vanished"},
              q.pc \in {"success", "successcommit"}, sends' = sends,
              req' = [req EXCEPT ![r] = Finish(q, result)]
       PROVE  Loop!Deliver(r)
  <2>1. Loop!Move(r, Loop!Over(Trip(q), result))
    BY <1>0, <1>16, TripMove, TripFinish
  <2>2. Trips[r].course = "served"
    BY <1>0, <1>16 DEF Trip, Course
  <2>3. QED
    BY <1>0, <2>1, <2>2 DEF Loop!Deliver
<1>17. CASE LoadSuccess(r)
  <2>1. q.pc = "success" /\ sends' = sends
    BY <1>17 DEF LoadSuccess
  <2>2. \/ req' = [req EXCEPT ![r].pc = "successcommit"]
        \/ req' = [req EXCEPT ![r] = Finish(q, "vanished")]
    BY <1>17 DEF LoadSuccess
  <2>3. Course([q EXCEPT !.pc = "successcommit"]) = Course(q)
    BY <1>0, <2>1 DEF Course, Request
  <2>4. QED
    BY <1>2, <1>16, <2>1, <2>2, <2>3 DEF PCs, Loop!Next
<1>18. CASE CommitSuccess(r)
  <2>1. q.pc = "successcommit" /\ sends' = sends /\ InHand(q)
    BY <1>18 DEF CommitSuccess, InHand
  <2>2. \/ \E result \in {"relayed", "broken"} : req' = [req EXCEPT ![r] = Finish(q, result)]
        \/ req' = [req EXCEPT ![r] = Finish(q, "crashed")]
    BY <1>18 DEF CommitSuccess
  <2>3. QED
    BY <1>6, <1>16, <2>1, <2>2 DEF Loop!Next
<1>19. CASE Record(r)
  <2>1. q.pc = "record" /\ sends' = sends /\ req' = [req EXCEPT ![r].pc = "done"]
    BY <1>19 DEF Record
  <2>2. Course([q EXCEPT !.pc = "done"]) = Course(q)
    BY <1>0, <2>1 DEF Course, Request
  <2>3. QED
    BY <1>2, <2>1, <2>2 DEF PCs
<1>20. QED
  BY <1>3, <1>4, <1>5, <1>7, <1>8, <1>9, <1>11, <1>12, <1>14, <1>15, <1>17, <1>18, <1>19
     DEF RequestStep

LEMMA TripInit == Init => Loop!Init
<1> SUFFICES ASSUME Init PROVE Loop!Init
  OBVIOUS
<1>1. ASSUME NEW r \in Requests
      PROVE  Trip(req[r]) = [course |-> "choosing", attempt |-> 1, account |-> NoAccount,
                             tried |-> {}, renewed |-> {}, outcome |-> "none"]
  BY DEF Init, NewRequest, Trip, Course
<1>2. QED
  BY <1>1 DEF Init, Loop!Init, Trips

LEMMA TripStep == TypeOK /\ Ledger /\ [Next]_vars => [Loop!Next]_Loop!vars
<1> SUFFICES ASSUME TypeOK, Ledger, [Next]_vars PROVE [Loop!Next]_Loop!vars
  OBVIOUS
<1>1. ASSUME req' = req, sends' = sends PROVE UNCHANGED Loop!vars
  BY <1>1, TripSame
<1>2. CASE Tick
  <2>1. ASSUME NEW r \in Requests PROVE Trip(req'[r]) = Trip(req[r])
    <3>1. req[r] \in Request /\ req'[r] = [req[r] EXCEPT !.headers.reset = Later(@)]
      BY <1>2 DEF Tick, TypeOK
    <3>2. /\ req'[r].pc = req[r].pc /\ req'[r].acct = req[r].acct
          /\ req'[r].forced = req[r].forced /\ req'[r].result = req[r].result
          /\ req'[r].attempt = req[r].attempt /\ req'[r].reauthed = req[r].reauthed
          /\ req'[r].tried = req[r].tried
      BY <3>1 DEF Request
    <3>3. QED
      BY <3>2 DEF Trip, Course
  <2>2. QED
    BY <1>2, <2>1, TripSame DEF Tick
<1>3. CASE \/ \E p \in Probers : ProbeStep(p)
           \/ \E a \in Accounts : \/ UpdateLoad(a) \/ UpdateCommit(a) \/ Delete(a)
                                  \/ Create(a) \/ HealthChange(a)
           \/ Done
           \/ UNCHANGED vars
  <2>1. req' = req /\ sends' = sends
    BY <1>3 DEF ProbeStep, ProbeStart, ProbeAnswer, FoldLoad, FoldCommit, UpdateLoad,
       UpdateCommit, Delete, Create, HealthChange, Done, vars
  <2>2. QED
    BY <1>1, <2>1
<1>4. QED
  BY <1>2, <1>3, RequestTrip DEF Next

\* The proxy keeps the promise of Failover with any number of accounts,
\* requests, attempts and concurrent writers, and every strategy: forward
\* (service.py) with all it calls is one of its behaviours.
THEOREM ImplementsFailover == Spec => IsFailover
<1>1. IndInv /\ [Next]_vars => [Loop!Next]_Loop!vars
  BY TripStep DEF IndInv
<1>2. QED
  BY <1>1, TripInit, Invariance, PTL DEF Spec, IsFailover, Loop!Spec
=============================================================================
