----------------------------- MODULE AssetCache -----------------------------
(***************************************************************************)
(* assetCache (corplink/proxy_cache.go): a byte-budgeted LRU of complete   *)
(* responses and a bounded map of the prefixes of interrupted transfers.   *)
(* Every operation runs under c.mu, so each is one action; the keys are    *)
(* those of all connections of the proxy.  A response is its size, header  *)
(* and body together, and a partial is the length of its body.             *)
(***************************************************************************)
EXTENDS Naturals, Sequences, FiniteSets, FiniteSetsExt

CONSTANTS
    Keys,        \* host+path of the assets
    MaxSize,     \* bound of the sizes the model offers
    Budget,      \* assetCacheBudget
    MaxObject,   \* assetCacheMaxObject
    MaxPartials  \* maxPartials

ASSUME CacheAssumption ==
    /\ IsFiniteSet(Keys)
    /\ {MaxSize, Budget, MaxObject} \subseteq Nat
    /\ MaxPartials \in Nat \ {0}

VARIABLES
    order,    \* c.order, front first; its elements are the keys of c.items
    size,     \* size of the response of each key, 0 when it has none
    used,     \* c.used
    partials  \* length of the prefix of each key, 0 when it has none

vars == <<order, size, used, partials>>

Items == {k \in Keys : size[k] > 0}
Partials == {k \in Keys : partials[k] > 0}

Init ==
    /\ order = <<>>
    /\ size = [k \in Keys |-> 0]
    /\ used = 0
    /\ partials = [k \in Keys |-> 0]

\* The list element that c.items holds for k.
Position(k) == CHOOSE i \in DOMAIN order : order[i] = k

\* c.order after the element of k, if there is one, is removed.
Without(k) ==
    IF k \notin Items THEN order
    ELSE SubSeq(order, 1, Position(k) - 1) \o SubSeq(order, Position(k) + 1, Len(order))

\* get: a hit moves to the front.
Get(k) ==
    /\ k \in Items
    /\ order' = <<k>> \o Without(k)
    /\ UNCHANGED <<size, used, partials>>

\* Faulty: the replaced response is still counted.
Replaced_Counted(k) == 0

\* What a response already stored under k gives back.
Replaced(k) == size[k]

\* What the responses under the keys S occupy when their sizes are f.
Bytes(f, S) == MapThenSumSet(LAMBDA k : f[k], S)

\* Bytes held by the n least recent responses of s.
OldestBytes(s, n) == Bytes(size, {s[i] : i \in Len(s) - n + 1 .. Len(s)})

\* Faulty: the loop evicts one response more than it must.
Evictions_OneMore(s, left, n) ==
    LET need == {i \in 0 .. Len(s) : left - OldestBytes(s, i) + n < Budget}
    IN IF need = {} THEN Len(s) ELSE Min(need)

\* How many responses are evicted from the back to make room for n bytes.
Evictions(s, left, n) ==
    LET need == {i \in 0 .. Len(s) : left - OldestBytes(s, i) + n <= Budget}
    IN IF need = {} THEN Len(s) ELSE Min(need)

\* put: replace, evict from the back until it fits, insert at the front; the
\* complete response supersedes the partial one.  Too large a response is
\* ignored.
Put(k, n) ==
    /\ n <= Budget
    /\ LET rest == Without(k)
           left == used - Replaced(k)
           out == Evictions(rest, left, n)
           kept == SubSeq(rest, 1, Len(rest) - out)
           stay == {kept[i] : i \in DOMAIN kept}
       IN /\ order' = <<k>> \o kept
          /\ size' = [x \in Keys |-> IF x = k THEN n
                                     ELSE IF x \in stay THEN size[x] ELSE 0]
          /\ used' = left - OldestBytes(rest, out) + n
    /\ partials' = [partials EXCEPT ![k] = 0]

\* Faulty: the last prefix is kept, not the longest.
Wanted_Latest(k, n) == n \in 1 .. MaxObject /\ size[k] = 0

\* putPartial keeps a prefix only if there is no complete copy and no prefix
\* as long.
Wanted(k, n) ==
    /\ n \in 1 .. MaxObject
    /\ size[k] = 0
    /\ partials[k] < n

\* When the map is full, any one prefix goes, k's own included.
Victims(k) ==
    IF Cardinality(Partials) >= MaxPartials THEN {{x} : x \in Partials} ELSE {{}}

PutPartial(k, n) ==
    /\ Wanted(k, n)
    /\ \E out \in Victims(k) :
         partials' = [x \in Keys |-> IF x = k THEN n
                                     ELSE IF x \in out THEN 0 ELSE partials[x]]
    /\ UNCHANGED <<order, size, used>>

Next ==
    \E k \in Keys :
        \/ Get(k)
        \/ \E n \in 1 .. MaxSize : Put(k, n) \/ PutPartial(k, n)

Spec == Init /\ [][Next]_vars

-----------------------------------------------------------------------------
\* The two maps hold what put and putPartial let in; the list and the byte
\* account are the subject of BudgetExact.
TypeOK ==
    /\ size \in [Keys -> 0 .. MaxSize]
    /\ partials \in [Keys -> 0 .. MaxObject]

\* The prefixes are no more than maxPartials.
PrefixesBounded == Cardinality(Partials) <= MaxPartials

\* c.used is what the stored responses occupy, after any replacement and
\* eviction, the list and the map name the same keys, the total never exceeds
\* the budget and the prefixes stay within theirs.
BudgetExact ==
    /\ Len(order) = Cardinality(Items)
    /\ Items = {order[i] : i \in DOMAIN order}
    /\ used = Bytes(size, Items)
    /\ used <= Budget
    /\ PrefixesBounded

\* An asset is stored complete or as a prefix, never both, whatever order the
\* transfers of several clients end in: a prefix beside a complete response
\* would be replayed once that response is evicted.
OneForm == Items \cap Partials = {}

Slots == INSTANCE AssetSlots WITH whole <- Items, prefix <- partials

\* The cache implements, for every URL, the slot its clients rely on: whatever
\* the other URLs and their evictions do, a complete response supersedes the
\* prefix and putPartial never shortens one ("progress is monotonic").
ImplementsSlots == Slots!Spec

EvictedOldest ==
    LET out == {k \in Items : size'[k] = 0}
        kept == {k \in Items : size'[k] = size[k] /\ order'[1] # k}
        last == CHOOSE k \in out : \A x \in out : Position(k) <= Position(x)
    IN out # {} =>
         /\ \A x \in out, y \in kept : Position(x) > Position(y)
         /\ used' + size[last] > Budget

\* put evicts the least recently used responses, and no more than it must:
\* with the last one it evicts still there, the new one would not fit.
EvictsOldestForRoom == [][EvictedOldest]_vars
=============================================================================
