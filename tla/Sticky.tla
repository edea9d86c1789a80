------------------------------- MODULE Sticky -------------------------------
(***************************************************************************)
(* Conversation affinity (app/modules/proxy/sticky.py) as forward uses it: *)
(* the first attempt of a request resolves its conversation to a preferred *)
(* account, and a success remembers the account that served it.  Between   *)
(* the two, other requests run, accounts go and come, and time passes.     *)
(*                                                                         *)
(* The map is an OrderedDict, kept here as the sequence of its entries     *)
(* from the least to the most recently used.                               *)
(***************************************************************************)
EXTENDS Integers, FiniteSets, Sequences, SequencesExt

CONSTANTS
    Requests,       \* requests under way at the same time
    Convs,          \* conversations, each with its session_key
    Accounts, NoAccount,
    MaxEntries,     \* _MAX_ENTRIES
    TTL,            \* sticky_ttl_seconds
    Score           \* of rendezvous, for a conversation and an account; 0 when
                    \* the account's weight is zero or less

ASSUME AffinityAssumption ==
    /\ NoAccount \notin Accounts
    /\ IsFiniteSet(Accounts)
    /\ {MaxEntries, TTL} \subseteq Nat \ {0}
    /\ Score \in [Convs -> [Accounts -> Nat]]
    /\ \A c \in Convs, a, b \in Accounts :
           Score[c][a] = Score[c][b] => a = b \/ Score[c][a] = 0

VARIABLES
    affinity,   \* _affinity
    up,         \* the accounts a request may use: available, and not known to
                \* lack the model
    conv,       \* the conversation of each request under way, or NoConv
    used        \* history: per conversation, the account that served it last, how
                \* long ago, and the other conversations used since its own last use

vars == <<affinity, up, conv, used>>

NoConv == "none"

Entries == [conv : Convs, account : Accounts, age : 0..TTL]
Unused == [account |-> NoAccount, age |-> 0, since |-> {}]

TypeOK ==
    /\ affinity \in Seq(Entries)
    /\ up \subseteq Accounts
    /\ conv \in [Requests -> Convs \cup {NoConv}]
    /\ used \in [Convs -> [account : Accounts \cup {NoAccount}, age : 0..TTL,
                           since : SUBSET Convs]]

Init ==
    /\ affinity = <<>>
    /\ up \in SUBSET Accounts
    /\ conv = [r \in Requests |-> NoConv]
    /\ used = [c \in Convs |-> Unused]

-----------------------------------------------------------------------------
(* The ordered map *)

Holds(map, c) == \E i \in DOMAIN map : map[i].conv = c

Place(map, c) == CHOOSE i \in DOMAIN map : map[i].conv = c

EntryOf(map, c) == map[Place(map, c)]

\* del.
Without(map, c) == IF Holds(map, c) THEN RemoveAt(map, Place(map, c)) ELSE map

\* Mutant: a hit leaves the entry where it is, so busy conversations age out.
Touched_InPlace(map, c) == map

\* move_to_end.
Touched(map, c) == Append(Without(map, c), EntryOf(map, c))

\* popitem(last=False) until the map is within its bound.
Trimmed(map) ==
    IF Len(map) > MaxEntries THEN SubSeq(map, Len(map) - MaxEntries + 1, Len(map)) ELSE map

Remembered(map, c, a) ==
    Trimmed(Append(Without(map, c), [conv |-> c, account |-> a, age |-> 0]))

\* expires_at > now, and the account is available.
Usable(e) == e.age < TTL /\ e.account \in up

\* Mutant: hash modulo the size of the pool.
Rendezvous_Modulo(c, pool) ==
    LET order == SetToSortSeq(pool, LAMBDA a, b : Score[c][a] < Score[c][b])
        first == CHOOSE a \in Accounts : \A b \in Accounts : Score[c][b] <= Score[c][a]
    IN  IF pool = {} THEN NoAccount ELSE order[(Score[c][first] % Len(order)) + 1]

\* rendezvous: the account with the highest score, of those that have a weight.
Rendezvous(c, pool) ==
    IF \A a \in pool : Score[c][a] = 0
    THEN NoAccount
    ELSE CHOOSE a \in pool : \A b \in pool : Score[c][b] <= Score[c][a]

-----------------------------------------------------------------------------
(* resolve *)

Hits(c) == Holds(affinity, c) /\ Usable(EntryOf(affinity, c))

\* What resolve returns for conversation c.
Resolved(c) ==
    IF up = {} THEN NoAccount
    ELSE IF Hits(c) THEN EntryOf(affinity, c).account
    ELSE Rendezvous(c, up)

\* Mutant: an entry whose account is down blocks the lookup but is kept, and moves
\* to the end like any other.
AfterResolve_KeepsDead(c) ==
    IF Holds(affinity, c) THEN Touched(affinity, c) ELSE affinity

\* What it does to the map: nothing when no account is available; an entry that
\* has expired, or whose account is down, is dropped.
AfterResolve(c) ==
    IF up = {} THEN affinity
    ELSE IF Hits(c) THEN Touched(affinity, c)
    ELSE Without(affinity, c)

-----------------------------------------------------------------------------
(* Requests *)

\* Conversation c is used: every other conversation that has an account sees it.
Use(c, served) ==
    used' = [d \in Convs |->
                IF d = c THEN [served EXCEPT !.since = {}]
                ELSE IF used[d] = Unused THEN Unused
                ELSE [used[d] EXCEPT !.since = @ \cup {c}]]

Resolve(r, c) ==
    /\ conv[r] = NoConv
    /\ conv' = [conv EXCEPT ![r] = c]
    /\ affinity' = AfterResolve(c)
    /\ CASE Hits(c) -> Use(c, used[c])
         [] up = {} -> UNCHANGED used
         [] OTHER -> used' = [used EXCEPT ![c] = Unused]
    /\ UNCHANGED up

\* The request was served by account a, which need not be the preferred one and
\* may be down by now.
Remember(r, a) ==
    /\ conv[r] # NoConv
    /\ conv' = [conv EXCEPT ![r] = NoConv]
    /\ affinity' = Remembered(affinity, conv[r], a)
    /\ Use(conv[r], [account |-> a, age |-> 0, since |-> {}])
    /\ UNCHANGED up

\* It ended without a success.
GiveUp(r) ==
    /\ conv[r] # NoConv
    /\ conv' = [conv EXCEPT ![r] = NoConv]
    /\ UNCHANGED <<affinity, up, used>>

-----------------------------------------------------------------------------
(* The surroundings *)

Leave(a) ==
    /\ a \in up
    /\ up' = up \ {a}
    /\ UNCHANGED <<affinity, conv, used>>

Return(a) ==
    /\ a \notin up
    /\ up' = up \cup {a}
    /\ UNCHANGED <<affinity, conv, used>>

Older(age) == IF age < TTL THEN age + 1 ELSE age

Tick ==
    /\ affinity' = [i \in DOMAIN affinity |-> [affinity[i] EXCEPT !.age = Older(@)]]
    /\ used' = [c \in Convs |-> [used[c] EXCEPT !.age = Older(@)]]
    /\ UNCHANGED <<up, conv>>

Restart ==
    /\ affinity' = <<>>
    /\ conv' = [r \in Requests |-> NoConv]
    /\ used' = [c \in Convs |-> Unused]
    /\ UNCHANGED up

Next ==
    \/ \E r \in Requests, c \in Convs : Resolve(r, c)
    \/ \E r \in Requests, a \in Accounts : Remember(r, a)
    \/ \E r \in Requests : GiveUp(r)
    \/ \E a \in Accounts : Leave(a) \/ Return(a)
    \/ Tick
    \/ Restart

Spec == Init /\ [][Next]_vars
-----------------------------------------------------------------------------
(* Properties *)

\* The prompt cache of c's account is warm, and the bounds of the map leave room.
Warm(c) ==
    /\ used[c].account \in up
    /\ used[c].age < TTL
    /\ Cardinality(used[c].since) < MaxEntries

\* A conversation goes back to the account that served it last, as long as that
\* account is available, served it within the TTL, and fewer than MaxEntries other
\* conversations were used since.  This is what moving an entry to the end on
\* every use and evicting from the front is for.  A lookup that finds the
\* account down or its entry expired ends that history: until it is served again
\* the conversation counts as unused, and nothing is promised for it.
StaysWarm == \A c \in Convs : Warm(c) => Resolved(c) = used[c].account

\* An account that leaves or returns moves only the conversations that preferred
\* it before or prefer it now: the affinity of all others stays as it was.
OnlyItsOwnMove ==
    [][\A a \in Accounts, c \in Convs :
           Leave(a) \/ Return(a) =>
               \/ a \in {Resolved(c), Resolved(c)'}
               \/ Resolved(c)' = Resolved(c)]_vars

\* The map holds at most MaxEntries conversations, each once, and what it holds is
\* what happened: an entry names the account that served the conversation last,
\* and expires TTL after that, however often it was looked up.
MapFollowsUse ==
    /\ Len(affinity) <= MaxEntries
    /\ \A i, j \in DOMAIN affinity : affinity[i].conv = affinity[j].conv => i = j
    /\ \A e \in ToSet(affinity) :
           used[e.conv].account = e.account /\ used[e.conv].age = e.age
=============================================================================
