---------------------------- MODULE TableProofs ----------------------------
(***************************************************************************)
(* The two bounded tables of the program, for any limits.  The asset cache *)
(* stores an asset in one form and implements the slots of AssetSlots; the *)
(* gate of the control panel drops no newer session than it must and locks *)
(* a client for what it did in the window.                                 *)
(***************************************************************************)
EXTENDS AssetCache, AdminAuth, FunctionTheorems, FiniteSetTheorems,
        SequenceTheorems, WellFoundedInduction, TLAPS

(***************************************************************************)
(* Sums over finite sets.  MapThenSumSet is a recursive function on the    *)
(* subsets of its argument; that it exists, and that the order in which it *)
(* chooses the elements does not matter, takes inductions.  Each is made   *)
(* by looking at a smallest counterexample.                                *)
(***************************************************************************)
\* The element MapThenSumSet takes first.
OneOf(S) == CHOOSE x \in S : TRUE

\* g maps the subsets of S to their sums.
SumsTo(g, f, S) ==
    g = [s \in SUBSET S |-> IF s = {} THEN 0 ELSE f[OneOf(s)] + g[s \ {OneOf(s)}]]

Sums(f, S) == CHOOSE g : SumsTo(g, f, S)

LEMMA BytesIsSums ==
  ASSUME NEW f, NEW S
  PROVE  Bytes(f, S) = Sums(f, S)[S]
  BY DEF Bytes, MapThenSumSet, MapThenFoldSet, Sums, SumsTo, OneOf

\* A set of natural numbers has a least element.
LEMMA LeastNumber ==
  ASSUME NEW S, S \subseteq Nat, S # {}
  PROVE  \E x \in S : \A y \in S : x <= y
  <1>1. PICK x \in S : \A y \in S : ~(<<y, x>> \in OpToRel(<, Nat))
    BY WFMin, NatLessThanWellFounded, Zenon
  <1>2. ASSUME NEW y \in S PROVE x <= y
    <2>1. OpToRel(<, Nat) = {ss \in Nat \X Nat : ss[1] < ss[2]}
      BY Zenon DEF OpToRel
    <2>2. ~(<<y, x>> \in {ss \in Nat \X Nat : ss[1] < ss[2]})
      BY <1>1, <2>1, Zenon
    <2> QED
      BY <2>2
  <1> QED
    BY <1>2

\* Induction over finite sets, without a predicate: of a collection of them one
\* has no smaller one in the collection.
LEMMA SmallestSet ==
  ASSUME NEW C, C # {}, \A S \in C : IsFiniteSet(S)
  PROVE  \E S \in C : \A T \in SUBSET S : T # S => T \notin C
  <1> DEFINE sizes == {Cardinality(S) : S \in C}
  <1>1. sizes \subseteq Nat /\ sizes # {}
    BY FS_CardinalityType
  <1> HIDE DEF sizes
  <1>2. PICK n \in sizes : \A m \in sizes : n <= m
    BY <1>1, LeastNumber
  <1>3. PICK S \in C : Cardinality(S) = n
    BY <1>2 DEF sizes
  <1>4. ASSUME NEW T \in SUBSET S, T # S, T \in C PROVE FALSE
    <2>1. Cardinality(T) <= Cardinality(S) /\ Cardinality(T) # Cardinality(S)
      BY <1>4, FS_Subset
    <2>2. Cardinality(T) \in sizes
      BY <1>4 DEF sizes
    <2>3. n \in Nat /\ Cardinality(T) \in Nat
      BY <1>1, <2>2
    <2> QED
      BY <1>2, <1>3, <2>1, <2>2, <2>3
  <1> QED
    BY <1>3, <1>4

LEMMA AnyIn ==
  ASSUME NEW S, S # {}
  PROVE  OneOf(S) \in S
  BY DEF OneOf

\* Two such functions agree where both are defined.
LEMMA SumsAgree ==
  ASSUME NEW f, NEW S, NEW T, NEW g, NEW h, SumsTo(g, f, S), SumsTo(h, f, T),
         NEW U, U \subseteq S, U \subseteq T, IsFiniteSet(U)
  PROVE  g[U] = h[U]
  <1> DEFINE C == {V \in SUBSET U : g[V] # h[V]}
  <1> SUFFICES ASSUME g[U] # h[U] PROVE FALSE
    OBVIOUS
  <1>1. C # {} /\ \A V \in C : IsFiniteSet(V)
    BY FS_Subset
  <1>2. PICK V \in C : \A W \in SUBSET V : W # V => W \notin C
    <2> HIDE DEF C
    <2> QED
      BY <1>1, SmallestSet
  <1>3. /\ V \in SUBSET S /\ V \in SUBSET T
        /\ V \ {OneOf(V)} \in SUBSET U /\ V \ {OneOf(V)} \in SUBSET V
    BY <1>2
  <1>4. /\ g[V] = IF V = {} THEN 0 ELSE f[OneOf(V)] + g[V \ {OneOf(V)}]
        /\ h[V] = IF V = {} THEN 0 ELSE f[OneOf(V)] + h[V \ {OneOf(V)}]
    BY <1>3 DEF SumsTo
  <1>5. V # {}
    BY <1>2, <1>4
  <1>6. g[V \ {OneOf(V)}] = h[V \ {OneOf(V)}]
    BY <1>2, <1>3, <1>5, AnyIn
  <1> QED
    BY <1>2, <1>4, <1>6

\* There is such a function for every finite set.
LEMMA SumsExist ==
  ASSUME NEW f, NEW S, IsFiniteSet(S)
  PROVE  SumsTo(Sums(f, S), f, S)
  <1> SUFFICES ASSUME ~SumsTo(Sums(f, S), f, S) PROVE FALSE
    OBVIOUS
  <1> DEFINE C == {T \in SUBSET S : ~SumsTo(Sums(f, T), f, T)}
  <1>1. S \in C /\ \A T \in C : IsFiniteSet(T)
    BY FS_Subset
  <1>2. PICK T \in C : \A W \in SUBSET T : W # T => W \notin C
    <2> HIDE DEF C
    <2> QED
      BY <1>1, SmallestSet
  <1> DEFINE Rest(s) == s \ {OneOf(s)}
             Total(s) == IF s = {} THEN 0 ELSE f[OneOf(s)] + Sums(f, Rest(s))[Rest(s)]
             h == [s \in SUBSET T |-> Total(s)]
  <1>3. \A W \in SUBSET T : W # T => SumsTo(Sums(f, W), f, W)
    BY <1>2
  <1>4. ASSUME NEW s \in SUBSET T, s # {}
        PROVE  h[Rest(s)] = Sums(f, Rest(s))[Rest(s)]
    <2>1. OneOf(s) \in s
      BY <1>4, AnyIn
    <2>2. Rest(s) \in SUBSET T /\ Rest(s) # T
      BY <2>1
    <2>3. SumsTo(Sums(f, Rest(s)), f, Rest(s))
      BY <1>3, <2>2
    <2>4. CASE Rest(s) = {}
      BY <2>2, <2>3, <2>4 DEF SumsTo
    <2>5. CASE Rest(s) # {}
      <3> DEFINE W == Rest(s)
      <3>1. OneOf(W) \in W /\ Rest(W) \in SUBSET T /\ Rest(W) # T /\ Rest(W) \in SUBSET W
        BY <2>2, <2>5, AnyIn
      <3>2. SumsTo(Sums(f, Rest(W)), f, Rest(W))
        BY <1>3, <3>1
      <3>3. Sums(f, W)[W] = f[OneOf(W)] + Sums(f, W)[Rest(W)]
        BY <2>3, <2>5 DEF SumsTo
      <3>4. IsFiniteSet(Rest(W))
        BY <1>1, <3>1, FS_Subset
      <3>5. Sums(f, W)[Rest(W)] = Sums(f, Rest(W))[Rest(W)]
        <4> HIDE DEF W, Rest
        <4> QED
          BY <2>3, <3>1, <3>2, <3>4, SumsAgree DEF W
      <3>6. h[W] = Total(W)
        BY <2>2
      <3> QED
        BY <2>5, <3>3, <3>5, <3>6
    <2> QED
      BY <2>4, <2>5
  <1>5. SumsTo(h, f, T)
    BY <1>4 DEF SumsTo
  <1>6. SumsTo(Sums(f, T), f, T)
    <2> HIDE DEF h
    <2> QED
      BY <1>5 DEF Sums
  <1> QED
    BY <1>2, <1>6

LEMMA BytesEmpty ==
  ASSUME NEW f
  PROVE  Bytes(f, {}) = 0
  <1>1. SumsTo(Sums(f, {}), f, {})
    BY SumsExist, FS_EmptySet
  <1> QED
    BY <1>1, BytesIsSums DEF SumsTo

\* The sum is that of any element, as chosen, and the others.
LEMMA BytesStep ==
  ASSUME NEW f, NEW S, IsFiniteSet(S), S # {}
  PROVE  Bytes(f, S) = f[OneOf(S)] + Bytes(f, S \ {OneOf(S)})
  <1> DEFINE R == S \ {OneOf(S)}
  <1>1. IsFiniteSet(R) /\ R \subseteq S
    BY FS_Subset
  <1> HIDE DEF R
  <1>2. SumsTo(Sums(f, S), f, S) /\ SumsTo(Sums(f, R), f, R)
    BY <1>1, SumsExist
  <1>3. Sums(f, S)[R] = Sums(f, R)[R]
    BY <1>1, <1>2, SumsAgree
  <1>4. Sums(f, S)[S] = f[OneOf(S)] + Sums(f, S)[R]
    BY <1>2 DEF SumsTo, R
  <1> QED
    BY <1>3, <1>4, BytesIsSums DEF R

LEMMA BytesType ==
  ASSUME NEW f, NEW S, IsFiniteSet(S), \A x \in S : f[x] \in Nat
  PROVE  Bytes(f, S) \in Nat
  <1> SUFFICES ASSUME Bytes(f, S) \notin Nat PROVE FALSE
    OBVIOUS
  <1> DEFINE C == {T \in SUBSET S : Bytes(f, T) \notin Nat}
  <1>1. S \in C /\ \A T \in C : IsFiniteSet(T)
    BY FS_Subset
  <1>2. PICK T \in C : \A W \in SUBSET T : W # T => W \notin C
    <2> HIDE DEF C
    <2> QED
      BY <1>1, SmallestSet
  <1>3. T # {}
    <2>1. Bytes(f, {}) \in Nat
      BY BytesEmpty
    <2> QED
      BY <1>2, <2>1
  <1>4. OneOf(T) \in T /\ Bytes(f, T \ {OneOf(T)}) \in Nat
    <2>1. OneOf(T) \in T
      BY <1>3, AnyIn
    <2> QED
      BY <1>2, <2>1
  <1> QED
    BY <1>1, <1>2, <1>3, <1>4, BytesStep

\* The sum does not depend on the order in which the elements are chosen.
LEMMA BytesAdd ==
  ASSUME NEW f, NEW S, NEW x, IsFiniteSet(S), x \notin S,
         \A y \in S \cup {x} : f[y] \in Nat
  PROVE  Bytes(f, S \cup {x}) = f[x] + Bytes(f, S)
  <1> DEFINE C == {T \in SUBSET S : ~(\A y \in (S \cup {x}) \ T :
                                        Bytes(f, T \cup {y}) = f[y] + Bytes(f, T))}
  <1> SUFFICES ASSUME S \in C PROVE FALSE
    OBVIOUS
  <1>1. \A T \in C : IsFiniteSet(T)
    BY FS_Subset
  <1>2. PICK T \in C : \A W \in SUBSET T : W # T => W \notin C
    <2> HIDE DEF C
    <2> QED
      BY <1>1, SmallestSet
  <1>3. PICK y \in (S \cup {x}) \ T : Bytes(f, T \cup {y}) # f[y] + Bytes(f, T)
    BY <1>2
  <1> DEFINE c == OneOf(T \cup {y})
  <1>4. IsFiniteSet(T) /\ IsFiniteSet(T \cup {y})
    BY <1>1, <1>2, FS_AddElement
  <1>5. c \in T \cup {y} /\ Bytes(f, T \cup {y}) = f[c] + Bytes(f, (T \cup {y}) \ {c})
    BY <1>4, AnyIn, BytesStep
  <1> HIDE DEF c
  <1>6. CASE c = y
    <2>1. (T \cup {y}) \ {c} = T
      BY <1>3, <1>6
    <2> QED
      BY <1>3, <1>5, <1>6, <2>1
  <1>7. CASE c # y
    <2> DEFINE W == T \ {c}
    <2>1. /\ c \in T /\ W \in SUBSET T /\ W # T /\ W \in SUBSET S
          /\ (T \cup {y}) \ {c} = W \cup {y} /\ T = W \cup {c}
          /\ y \in (S \cup {x}) \ W /\ c \in (S \cup {x}) \ W
      BY <1>2, <1>3, <1>5, <1>7
    <2>2. W \notin C
      BY <1>2, <2>1
    <2> HIDE DEF W
    <2>3. Bytes(f, W \cup {y}) = f[y] + Bytes(f, W) /\ Bytes(f, W \cup {c}) = f[c] + Bytes(f, W)
      BY <2>1, <2>2
    <2>4. Bytes(f, W) \in Nat /\ f[y] \in Nat /\ f[c] \in Nat
      <3>1. IsFiniteSet(W) /\ \A z \in W : f[z] \in Nat
        BY <1>4, <2>1, FS_Subset
      <3> QED
        BY <2>1, <3>1, BytesType
    <2>5. Bytes(f, T \cup {y}) = f[c] + (f[y] + Bytes(f, W)) /\ Bytes(f, T) = f[c] + Bytes(f, W)
      BY <1>5, <2>1, <2>3
    <2>6. f[c] + (f[y] + Bytes(f, W)) = f[y] + (f[c] + Bytes(f, W))
      BY <2>4
    <2> QED
      BY <1>3, <2>5, <2>6
  <1> QED
    BY <1>5, <1>6, <1>7

\* Only the sizes of the elements matter.
LEMMA BytesSame ==
  ASSUME NEW f, NEW g, NEW S, IsFiniteSet(S), \A x \in S : f[x] = g[x]
  PROVE  Bytes(f, S) = Bytes(g, S)
  <1> SUFFICES ASSUME Bytes(f, S) # Bytes(g, S) PROVE FALSE
    OBVIOUS
  <1> DEFINE C == {T \in SUBSET S : Bytes(f, T) # Bytes(g, T)}
  <1>1. S \in C /\ \A T \in C : IsFiniteSet(T)
    BY FS_Subset
  <1>2. PICK T \in C : \A W \in SUBSET T : W # T => W \notin C
    <2> HIDE DEF C
    <2> QED
      BY <1>1, SmallestSet
  <1>3. T # {}
    BY <1>2, BytesEmpty
  <1>4. OneOf(T) \in T
    BY <1>3, AnyIn
  <1>5. Bytes(f, T \ {OneOf(T)}) = Bytes(g, T \ {OneOf(T)}) /\ f[OneOf(T)] = g[OneOf(T)]
    BY <1>2, <1>4
  <1> QED
    BY <1>1, <1>2, <1>3, <1>5, BytesStep

LEMMA BytesUnion ==
  ASSUME NEW f, NEW S, NEW T, IsFiniteSet(S), IsFiniteSet(T), S \cap T = {},
         \A x \in S \cup T : f[x] \in Nat
  PROVE  Bytes(f, S \cup T) = Bytes(f, S) + Bytes(f, T)
  <1> DEFINE C == {U \in SUBSET T : Bytes(f, S \cup U) # Bytes(f, S) + Bytes(f, U)}
  <1> SUFFICES ASSUME T \in C PROVE FALSE
    OBVIOUS
  <1>1. \A U \in C : IsFiniteSet(U)
    BY FS_Subset
  <1>2. PICK U \in C : \A W \in SUBSET U : W # U => W \notin C
    <2> HIDE DEF C
    <2> QED
      BY <1>1, SmallestSet
  <1>3. Bytes(f, S) \in Nat
    BY BytesType
  <1>4. U # {}
    <2>1. Bytes(f, S \cup {}) = Bytes(f, S) + Bytes(f, {})
      BY <1>3, BytesEmpty
    <2> QED
      BY <1>2, <2>1
  <1>5. PICK x \in U : TRUE
    BY <1>4
  <1> DEFINE W == U \ {x}
  <1>6. /\ W \in SUBSET U /\ W # U /\ W \in SUBSET T /\ x \notin W /\ x \notin S \cup W
        /\ U = W \cup {x} /\ S \cup U = (S \cup W) \cup {x} /\ x \in T
    BY <1>2, <1>5
  <1>7. Bytes(f, S \cup W) = Bytes(f, S) + Bytes(f, W)
    BY <1>2, <1>6
  <1> HIDE DEF W
  <1>8. IsFiniteSet(W) /\ IsFiniteSet(S \cup W)
    <2>1. IsFiniteSet(W)
      BY <1>6, FS_Subset
    <2> QED
      BY <2>1, FS_Union
  <1>9. Bytes(f, U) = f[x] + Bytes(f, W) /\ Bytes(f, S \cup U) = f[x] + Bytes(f, S \cup W)
    BY <1>6, <1>8, BytesAdd
  <1>10. Bytes(f, W) \in Nat /\ f[x] \in Nat
    BY <1>6, <1>8, BytesType
  <1>11. f[x] + (Bytes(f, S) + Bytes(f, W)) = Bytes(f, S) + (f[x] + Bytes(f, W))
    BY <1>3, <1>10
  <1> QED
    BY <1>2, <1>7, <1>9, <1>11

-----------------------------------------------------------------------------
(***************************************************************************)
(* AssetCache.                                                             *)
(***************************************************************************)
\* The inductive invariant.
SlotInv == TypeOK /\ OneForm

LEMMA SlotInvInit == Init => SlotInv
  BY CacheAssumption DEF Init, SlotInv, TypeOK, OneForm, Items, Partials

\* What Put does to the maps, the list apart: k is stored and has no prefix,
\* any other asset stays as it is or loses its complete response.
LEMMA PutMaps ==
  ASSUME SlotInv, NEW k \in Keys, NEW n \in 1 .. MaxSize, Put(k, n)
  PROVE  /\ size' \in [Keys -> 0 .. MaxSize]
         /\ size'[k] = n
         /\ \A x \in Keys \ {k} : size'[x] \in {size[x], 0}
         /\ partials' = [partials EXCEPT ![k] = 0]
  <1> DEFINE rest == Without(k)
             held == used - Replaced(k)
             out == Evictions(rest, held, n)
             kept == SubSeq(rest, 1, Len(rest) - out)
             stay == {kept[i] : i \in DOMAIN kept}
  <1>1. size' = [x \in Keys |-> IF x = k THEN n
                                ELSE IF x \in stay THEN size[x] ELSE 0]
    BY DEF Put
  <1>2. partials' = [partials EXCEPT ![k] = 0]
    BY DEF Put
  <1>3. n \in Nat
    OBVIOUS
  <1> HIDE DEF stay
  <1> QED
    BY <1>1, <1>2, <1>3, CacheAssumption DEF SlotInv, TypeOK

\* The same for PutPartial: k has no complete response and a longer prefix, any
\* other asset keeps its prefix or had one and loses it.
LEMMA PartialMaps ==
  ASSUME SlotInv, NEW k \in Keys, NEW n \in 1 .. MaxSize, PutPartial(k, n)
  PROVE  /\ size' = size
         /\ size[k] = 0 /\ n > partials[k]
         /\ partials' \in [Keys -> 0 .. MaxObject]
         /\ partials'[k] = n
         /\ \A x \in Keys \ {k} :
              \/ partials'[x] = partials[x]
              \/ partials'[x] = 0 /\ partials[x] > 0
  <1>1. size' = size /\ size[k] = 0 /\ partials[k] < n /\ n \in 1 .. MaxObject
    BY DEF PutPartial, Wanted
  <1>2. PICK out \in Victims(k) :
          partials' = [x \in Keys |-> IF x = k THEN n
                                      ELSE IF x \in out THEN 0 ELSE partials[x]]
    BY DEF PutPartial
  <1>3. out \subseteq Partials
    BY <1>2 DEF Victims
  <1>4. n \in Nat
    OBVIOUS
  <1> QED
    BY <1>1, <1>2, <1>3, <1>4, CacheAssumption DEF Partials, SlotInv, TypeOK

LEMMA SlotInvStep == SlotInv /\ [Next]_vars => SlotInv'
  <1> SUFFICES ASSUME SlotInv, [Next]_vars PROVE SlotInv'
    OBVIOUS
  <1>1. ASSUME NEW k \in Keys, Get(k) PROVE SlotInv'
    BY <1>1 DEF Get, SlotInv, TypeOK, OneForm, Items, Partials
  <1>2. ASSUME NEW k \in Keys, NEW n \in 1 .. MaxSize, Put(k, n) PROVE SlotInv'
    <2>1. n > 0
      OBVIOUS
    <2> QED
      BY <1>2, <2>1, PutMaps, CacheAssumption
         DEF SlotInv, TypeOK, OneForm, Items, Partials
  <1>3. ASSUME NEW k \in Keys, NEW n \in 1 .. MaxSize, PutPartial(k, n) PROVE SlotInv'
    BY <1>3, PartialMaps DEF SlotInv, TypeOK, OneForm, Items, Partials
  <1>4. CASE UNCHANGED vars
    BY <1>4 DEF vars, SlotInv, TypeOK, OneForm, Items, Partials
  <1> QED
    BY <1>1, <1>2, <1>3, <1>4 DEF Next

LEMMA SlotInvariant == Spec => []SlotInv
  BY SlotInvInit, SlotInvStep, PTL DEF Spec

\* The maps hold only what put and putPartial let in.
THEOREM CacheTypeCorrect == Spec => []TypeOK
  <1>1. SlotInv => TypeOK
    BY DEF SlotInv
  <1> QED
    BY <1>1, SlotInvariant, PTL

\* An asset is never stored complete and as a prefix at once, for any number of
\* assets and whatever put and putPartial are called with.
THEOREM OneFormAlways == Spec => []OneForm
  <1>1. SlotInv => OneForm
    BY DEF SlotInv
  <1> QED
    BY <1>1, SlotInvariant, PTL

\* Each operation is a step of every slot.
LEMMA SlotStep == SlotInv /\ [Next]_vars => [Slots!Next]_<<Items, partials>>
  <1> SUFFICES ASSUME SlotInv, [Next]_vars
               PROVE  Slots!Next \/ (Items' = Items /\ partials' = partials)
    BY Zenon
  <1>1. ASSUME NEW k \in Keys, Get(k) PROVE Items' = Items /\ partials' = partials
    BY <1>1 DEF Get, Items
  <1>2. ASSUME NEW k \in Keys, NEW n \in 1 .. MaxSize, Put(k, n) PROVE Slots!Next
    <2> SUFFICES ASSUME NEW x \in Keys
                 PROVE  Slots!Store(x) \/ Slots!ForgetWhole(x) \/ Slots!Keep(x)
      BY DEF Slots!Next
    <2>1. n > 0
      OBVIOUS
    <2>2. CASE x = k
      BY <1>2, <2>1, <2>2, PutMaps DEF Slots!Store, Items, SlotInv, TypeOK
    <2>3. CASE x # k
      BY <1>2, <2>3, PutMaps DEF Slots!ForgetWhole, Slots!Keep, Items, SlotInv, TypeOK
    <2> QED
      BY <2>2, <2>3
  <1>3. ASSUME NEW k \in Keys, NEW n \in 1 .. MaxSize, PutPartial(k, n)
        PROVE  Slots!Next
    <2> SUFFICES ASSUME NEW x \in Keys
                 PROVE  Slots!Extend(x) \/ Slots!ForgetPrefix(x) \/ Slots!Keep(x)
      BY DEF Slots!Next
    <2>1. CASE x = k
      BY <1>3, <2>1, PartialMaps DEF Slots!Extend, Items, SlotInv, TypeOK
    <2>2. CASE x # k
      BY <1>3, <2>2, PartialMaps
         DEF Slots!ForgetPrefix, Slots!Keep, Items, Partials, SlotInv, TypeOK, OneForm
    <2> QED
      BY <2>1, <2>2
  <1>4. CASE UNCHANGED vars
    BY <1>4 DEF vars, Items
  <1> QED
    BY <1>1, <1>2, <1>3, <1>4 DEF Next

\* The cache implements the abstract slots, for any set of assets and any limits.
THEOREM CacheImplementsSlots == Spec => ImplementsSlots
  <1>1. Init => Slots!Init
    BY DEF Init, Slots!Init, Items
  <1> QED
    BY <1>1, SlotStep, SlotInvariant, PTL DEF Spec, ImplementsSlots, Slots!Spec

\* When the map of prefixes is full, one makes room for the new one.
LEMMA PrefixesStep == SlotInv /\ PrefixesBounded /\ [Next]_vars => PrefixesBounded'
  <1> SUFFICES ASSUME SlotInv, PrefixesBounded, [Next]_vars PROVE PrefixesBounded'
    OBVIOUS
  <1>1. MaxPartials \in Nat \ {0} /\ IsFiniteSet(Keys) /\ Partials \subseteq Keys
    BY CacheAssumption DEF Partials
  <1>2. IsFiniteSet(Partials) /\ Cardinality(Partials) \in Nat
    BY <1>1, FS_Subset, FS_CardinalityType
  <1>3. CASE Partials' \subseteq Partials
    <2>1. Cardinality(Partials') <= Cardinality(Partials) /\ IsFiniteSet(Partials')
      BY <1>2, <1>3, FS_Subset
    <2> QED
      BY <1>1, <1>2, <2>1, FS_CardinalityType DEF PrefixesBounded
  <1>4. ASSUME NEW k \in Keys, Get(k) PROVE Partials' \subseteq Partials
    BY <1>4 DEF Get, Partials
  <1>5. ASSUME NEW k \in Keys, NEW n \in 1 .. MaxSize, Put(k, n)
        PROVE  Partials' \subseteq Partials
    BY <1>5, PutMaps DEF Partials, SlotInv, TypeOK
  <1>6. ASSUME NEW k \in Keys, NEW n \in 1 .. MaxSize, PutPartial(k, n)
        PROVE  PrefixesBounded'
    <2>1. PICK out \in Victims(k) :
            partials' = [x \in Keys |-> IF x = k THEN n
                                        ELSE IF x \in out THEN 0 ELSE partials[x]]
      BY <1>6 DEF PutPartial
    <2>2. Partials' \subseteq (Partials \ out) \cup {k}
      BY <2>1 DEF Partials
    <2>3. IsFiniteSet(Partials \ out) /\ Cardinality(Partials \ out) + 1 <= MaxPartials
      <3>1. CASE Cardinality(Partials) >= MaxPartials
        <4>1. PICK x \in Partials : out = {x}
          BY <2>1, <3>1 DEF Victims
        <4>2. /\ IsFiniteSet(Partials \ {x})
              /\ Cardinality(Partials \ {x}) = Cardinality(Partials) - 1
          BY <1>2, <4>1, FS_RemoveElement
        <4> QED
          BY <1>1, <1>2, <4>1, <4>2 DEF PrefixesBounded
      <3>2. CASE ~(Cardinality(Partials) >= MaxPartials)
        <4>1. Partials \ out = Partials
          BY <2>1, <3>2 DEF Victims
        <4> QED
          BY <1>1, <1>2, <3>2, <4>1
      <3> QED
        BY <3>1, <3>2
    <2>4. /\ IsFiniteSet((Partials \ out) \cup {k})
          /\ Cardinality((Partials \ out) \cup {k}) <= MaxPartials
      <3>1. Cardinality(Partials \ out) \in Nat
        BY <2>3, FS_CardinalityType
      <3>2. /\ IsFiniteSet((Partials \ out) \cup {k})
            /\ \/ Cardinality((Partials \ out) \cup {k}) = Cardinality(Partials \ out)
               \/ Cardinality((Partials \ out) \cup {k}) = Cardinality(Partials \ out) + 1
        BY <2>3, FS_AddElement
      <3> QED
        BY <1>1, <2>3, <3>1, <3>2
    <2>5. /\ IsFiniteSet(Partials')
          /\ Cardinality(Partials') <= Cardinality((Partials \ out) \cup {k})
      BY <2>2, <2>4, FS_Subset
    <2> QED
      BY <1>1, <2>4, <2>5, FS_CardinalityType DEF PrefixesBounded
  <1>7. CASE UNCHANGED vars
    BY <1>7, <1>3 DEF vars, Partials
  <1> QED
    BY <1>3, <1>4, <1>5, <1>6, <1>7 DEF Next

\* putPartial keeps no more prefixes than maxPartials, for any limit.
THEOREM PrefixesBoundedAlways == Spec => []PrefixesBounded
  <1>1. Init => PrefixesBounded
    <2> SUFFICES ASSUME Init PROVE PrefixesBounded
      OBVIOUS
    <2>1. Partials = {}
      BY DEF Init, Partials
    <2> QED
      BY <2>1, FS_EmptySet, CacheAssumption DEF PrefixesBounded
  <1> QED
    BY <1>1, PrefixesStep, SlotInvariant, PTL DEF Spec

\* A list of keys that names none twice.
ListOf(s, S) ==
    /\ s \in Seq(Keys)
    /\ \A i, j \in 1 .. Len(s) : s[i] = s[j] => i = j
    /\ S = {s[i] : i \in 1 .. Len(s)}

\* The elements among the first m.
FirstOf(s, m) == {s[i] : i \in 1 .. m}

\* The inductive invariant of the byte account.
AccountInv ==
    /\ SlotInv
    /\ ListOf(order, Items)
    /\ used = Bytes(size, Items)
    /\ used <= Budget

LEMMA AccountInvInit == Init => AccountInv
  <1> SUFFICES ASSUME Init PROVE AccountInv
    OBVIOUS
  <1>1. Items = {}
    BY DEF Init, Items
  <1>2. order \in Seq(Keys) /\ Len(order) = 0
    BY DEF Init
  <1>3. used = Bytes(size, Items) /\ used <= Budget
    BY <1>1, BytesEmpty, CacheAssumption DEF Init
  <1> QED
    BY <1>1, <1>2, <1>3, SlotInvInit DEF AccountInv, ListOf

\* An element of the list is where it is.
LEMMA PositionOf ==
  ASSUME ListOf(order, Items), NEW i \in 1 .. Len(order)
  PROVE  Position(order[i]) = i
  BY DEF ListOf, Position

\* The list without its p-th element.
LEMMA RemoveElement ==
  ASSUME NEW D, NEW s \in Seq(D), NEW p \in 1 .. Len(s)
  PROVE  LET r == SubSeq(s, 1, p - 1) \o SubSeq(s, p + 1, Len(s))
         IN  /\ r \in Seq(D)
             /\ Len(r) = Len(s) - 1
             /\ \A i \in 1 .. Len(s) - 1 : r[i] = IF i < p THEN s[i] ELSE s[i + 1]
  <1> DEFINE a == SubSeq(s, 1, p - 1)
             b == SubSeq(s, p + 1, Len(s))
  <1>1. Len(s) \in Nat /\ p \in Int /\ \A i \in 1 .. Len(s) : s[i] \in D
    OBVIOUS
  <1>2. a \in Seq(D) /\ Len(a) = p - 1 /\ \A i \in 1 .. p - 1 : a[i] = s[i]
    BY <1>1, SubSeqProperties
  <1>3. /\ b \in Seq(D) /\ Len(b) = Len(s) - p
        /\ \A i \in 1 .. Len(s) - p : b[i] = s[p + i]
    <2>1. /\ b \in Seq(D)
          /\ Len(b) = IF p + 1 <= Len(s) THEN Len(s) - (p + 1) + 1 ELSE 0
          /\ \A i \in 1 .. Len(s) - (p + 1) + 1 : b[i] = s[(p + 1) + i - 1]
      BY <1>1, SubSeqProperties
    <2> QED
      BY <1>1, <2>1
  <1> HIDE DEF a, b
  <1>4. /\ a \o b \in Seq(D) /\ Len(a \o b) = Len(s) - 1
        /\ \A i \in 1 .. Len(s) - 1 :
             (a \o b)[i] = IF i <= p - 1 THEN a[i] ELSE b[i - (p - 1)]
    BY <1>1, <1>2, <1>3, ConcatProperties
  <1>5. ASSUME NEW i \in 1 .. Len(s) - 1
        PROVE  (a \o b)[i] = IF i < p THEN s[i] ELSE s[i + 1]
    <2>1. CASE i < p
      BY <1>1, <1>2, <1>4, <2>1
    <2>2. CASE ~(i < p)
      <3>1. i - (p - 1) \in 1 .. Len(s) - p /\ p + (i - (p - 1)) = i + 1
        BY <1>1, <2>2
      <3> QED
        BY <1>1, <1>3, <1>4, <2>2, <3>1
    <2> QED
      BY <2>1, <2>2
  <1> QED
    BY <1>4, <1>5 DEF a, b

\* Removing a key from the list keeps the others, in their order.
LEMMA WithoutList ==
  ASSUME ListOf(order, Items), NEW k \in Keys
  PROVE  /\ ListOf(Without(k), Items \ {k})
         /\ \A i, j \in 1 .. Len(Without(k)) :
              i < j => Position(Without(k)[i]) < Position(Without(k)[j])
  <1>1. CASE k \notin Items
    <2>1. Without(k) = order /\ Items \ {k} = Items
      BY <1>1 DEF Without
    <2>2. Len(order) \in Nat
      BY DEF ListOf
    <2> QED
      BY <2>1, <2>2, PositionOf
  <1>2. CASE k \in Items
    <2> DEFINE p == Position(k)
               len == Len(order) - 1
    <2>1. p \in 1 .. Len(order) /\ order[p] = k /\ Len(order) \in Nat
      <3>1. PICK i \in 1 .. Len(order) : order[i] = k
        BY <1>2 DEF ListOf
      <3> QED
        BY <3>1, PositionOf DEF ListOf
    <2>2. Without(k) = SubSeq(order, 1, p - 1) \o SubSeq(order, p + 1, Len(order))
      BY <1>2 DEF Without
    <2> HIDE DEF p
    <2>3. /\ Without(k) \in Seq(Keys) /\ Len(Without(k)) = len
          /\ \A i \in 1 .. len : Without(k)[i] = IF i < p THEN order[i] ELSE order[i + 1]
      <3> DEFINE r == SubSeq(order, 1, p - 1) \o SubSeq(order, p + 1, Len(order))
      <3>1. order \in Seq(Keys)
        BY DEF ListOf
      <3>2. /\ r \in Seq(Keys) /\ Len(r) = len
            /\ \A i \in 1 .. len : r[i] = IF i < p THEN order[i] ELSE order[i + 1]
        BY <2>1, <3>1, RemoveElement
      <3> HIDE DEF r, len
      <3> QED
        BY <2>2, <3>2, Zenon DEF r
    <2> DEFINE at(i) == IF i < p THEN i ELSE i + 1
    <2>4. \A i \in 1 .. len : at(i) \in 1 .. Len(order) /\ at(i) # p /\ Without(k)[i] = order[at(i)]
      BY <2>1, <2>3
    <2>5. \A i, j \in 1 .. len : i < j => at(i) < at(j)
      BY <2>1
    <2>6. \A i, j \in 1 .. len : at(i) = at(j) => i = j
      BY <2>1
    <2>7. \A q \in 1 .. Len(order) : q # p => \E i \in 1 .. len : at(i) = q
      <3> SUFFICES ASSUME NEW q \in 1 .. Len(order), q # p PROVE \E i \in 1 .. len : at(i) = q
        OBVIOUS
      <3>1. CASE q < p
        BY <2>1, <3>1
      <3>2. CASE q > p
        <4>1. q - 1 \in 1 .. len /\ at(q - 1) = q
          BY <2>1, <3>2
        <4> QED
          BY <4>1
      <3> QED
        BY <2>1, <3>1, <3>2
    <2> HIDE DEF at
    <2>8. \A i, j \in 1 .. len : Without(k)[i] = Without(k)[j] => i = j
      BY <2>4, <2>6 DEF ListOf
    <2>9. Items \ {k} = {Without(k)[i] : i \in 1 .. len}
      <3>1. ASSUME NEW x \in Items, x # k PROVE \E i \in 1 .. len : x = Without(k)[i]
        <4>1. PICK q \in 1 .. Len(order) : x = order[q]
          BY DEF ListOf
        <4>2. q # p
          BY <2>1, <3>1, <4>1
        <4> QED
          BY <2>4, <2>7, <4>1, <4>2
      <3>2. ASSUME NEW i \in 1 .. len PROVE Without(k)[i] \in Items \ {k}
        BY <2>1, <2>4 DEF ListOf
      <3> QED
        BY <3>1, <3>2
    <2>10. \A i \in 1 .. len : Position(Without(k)[i]) = at(i)
      BY <2>4, PositionOf
    <2>11. ListOf(Without(k), Items \ {k})
      BY <2>3, <2>8, <2>9 DEF ListOf
    <2> QED
      BY <2>3, <2>5, <2>10, <2>11
  <1> QED
    BY <1>1, <1>2

\* A key in front of the first m elements of a list without it.
LEMMA Pushed ==
  ASSUME NEW s, NEW S, ListOf(s, S), NEW k \in Keys, k \notin S, NEW m \in 0 .. Len(s)
  PROVE  /\ ListOf(<<k>> \o SubSeq(s, 1, m), {k} \cup FirstOf(s, m))
         /\ (<<k>> \o SubSeq(s, 1, m))[1] = k
         /\ {SubSeq(s, 1, m)[i] : i \in DOMAIN SubSeq(s, 1, m)} = FirstOf(s, m)
  <1> DEFINE a == SubSeq(s, 1, m)
             r == <<k>> \o a
  <1>1. Len(s) \in Nat /\ m \in Nat /\ \A i \in 1 .. m : s[i] \in Keys /\ s[i] # k
    BY DEF ListOf
  <1>2. a \in Seq(Keys) /\ Len(a) = m /\ \A i \in 1 .. m : a[i] = s[i]
    BY <1>1, SubSeqProperties
  <1>3. <<k>> \in Seq(Keys) /\ Len(<<k>>) = 1 /\ <<k>>[1] = k
    OBVIOUS
  <1> HIDE DEF a
  <1>4. /\ r \in Seq(Keys) /\ Len(r) = 1 + m
        /\ \A i \in 1 .. 1 + m : r[i] = IF i <= 1 THEN <<k>>[i] ELSE a[i - 1]
    BY <1>1, <1>2, <1>3, ConcatProperties
  <1> HIDE DEF r
  <1>5. r[1] = k /\ \A i \in 2 .. 1 + m : r[i] = s[i - 1] /\ i - 1 \in 1 .. m
    BY <1>1, <1>2, <1>3, <1>4
  <1>6. \A i, j \in 1 .. 1 + m : r[i] = r[j] => i = j
    <2> SUFFICES ASSUME NEW i \in 1 .. 1 + m, NEW j \in 1 .. 1 + m, r[i] = r[j] PROVE i = j
      OBVIOUS
    <2>1. CASE i = 1 \/ j = 1
      BY <1>1, <1>5, <2>1
    <2>2. CASE i # 1 /\ j # 1
      <3>1. i - 1 \in 1 .. Len(s) /\ j - 1 \in 1 .. Len(s) /\ s[i - 1] = s[j - 1]
        BY <1>1, <1>5, <2>2
      <3>2. i - 1 = j - 1
        BY <3>1 DEF ListOf
      <3> QED
        BY <1>1, <3>2
    <2> QED
      BY <2>1, <2>2
  <1>7. {k} \cup {s[i] : i \in 1 .. m} = {r[i] : i \in 1 .. 1 + m}
    <2>1. ASSUME NEW i \in 1 .. 1 + m PROVE r[i] \in {k} \cup {s[j] : j \in 1 .. m}
      BY <1>1, <1>5
    <2>2. ASSUME NEW i \in 1 .. m PROVE s[i] \in {r[j] : j \in 1 .. 1 + m}
      <3>1. i + 1 \in 2 .. 1 + m /\ i + 1 \in 1 .. 1 + m /\ (i + 1) - 1 = i
        BY <1>1
      <3> QED
        BY <1>5, <3>1
    <2>3. k \in {r[j] : j \in 1 .. 1 + m}
      BY <1>1, <1>5
    <2> QED
      BY <2>1, <2>2, <2>3
  <1>8. {a[i] : i \in DOMAIN a} = {s[i] : i \in 1 .. m}
    <2>1. DOMAIN a = 1 .. m
      BY <1>2
    <2> QED
      BY <1>2, <2>1
  <1> QED
    BY <1>4, <1>5, <1>6, <1>7, <1>8 DEF ListOf, FirstOf, a, r

\* What put does, m being the number of other responses it keeps: they and the
\* new one fit, and with one more they would not.
PutKeeps(k, n, m) ==
    LET rest == Without(k)
        stay == FirstOf(rest, m)
    IN /\ order' = <<k>> \o SubSeq(rest, 1, m)
       /\ size' = [x \in Keys |-> IF x = k THEN n ELSE IF x \in stay THEN size[x] ELSE 0]
       /\ used' = Bytes(size, stay) + n
       /\ used' <= Budget
       /\ m < Len(rest) => used' + size[rest[m + 1]] > Budget

LEMMA SizesNat ==
  ASSUME AccountInv
  PROVE  /\ \A x \in Keys : size[x] \in Nat
         /\ IsFiniteSet(Keys) /\ Budget \in Nat
  BY CacheAssumption DEF AccountInv, SlotInv, TypeOK

\* What is left of the account once k is replaced.
LEMMA LeftIsRest ==
  ASSUME AccountInv, NEW k \in Keys
  PROVE  used - Replaced(k) = Bytes(size, Items \ {k})
  <1>1. Items \subseteq Keys /\ IsFiniteSet(Items \ {k})
    BY SizesNat, FS_Subset DEF Items
  <1>2. Bytes(size, Items \ {k}) \in Nat
    BY <1>1, SizesNat, BytesType
  <1>3. CASE k \in Items
    <2>1. Items = (Items \ {k}) \cup {k}
      BY <1>3
    <2>2. \A x \in (Items \ {k}) \cup {k} : size[x] \in Nat
      BY <1>1, SizesNat
    <2>3. used = size[k] + Bytes(size, Items \ {k})
      BY <1>1, <2>1, <2>2, BytesAdd DEF AccountInv
    <2> QED
      BY <1>2, <2>3, SizesNat DEF Replaced
  <1>4. CASE k \notin Items
    <2>1. size[k] = 0 /\ Items \ {k} = Items
      BY <1>4, SizesNat DEF Items
    <2> QED
      BY <1>2, <2>1 DEF Replaced, AccountInv
  <1> QED
    BY <1>3, <1>4

\* The bytes of the elements of a list are those of its first and last ones.
LEMMA OldestSplit ==
  ASSUME AccountInv, NEW s, NEW S, ListOf(s, S), NEW j \in 0 .. Len(s)
  PROVE  /\ Bytes(size, S) = Bytes(size, FirstOf(s, Len(s) - j)) + OldestBytes(s, j)
         /\ Bytes(size, FirstOf(s, Len(s) - j)) \in Nat
         /\ OldestBytes(s, j) \in Nat
  <1> DEFINE A == FirstOf(s, Len(s) - j)
             B == {s[i] : i \in Len(s) - j + 1 .. Len(s)}
  <1>1. Len(s) \in Nat /\ \A i \in 1 .. Len(s) : s[i] \in Keys
    BY DEF ListOf
  <1>2. A \in SUBSET Keys /\ B \in SUBSET Keys
    BY <1>1 DEF FirstOf
  <1>3. A \cap B = {}
    BY <1>1 DEF ListOf, FirstOf
  <1>4. S = A \cup B
    <2>1. 1 .. Len(s) = (1 .. Len(s) - j) \cup (Len(s) - j + 1 .. Len(s))
      BY <1>1
    <2> QED
      BY <2>1 DEF ListOf, FirstOf
  <1>5. OldestBytes(s, j) = Bytes(size, B)
    BY DEF OldestBytes
  <1> HIDE DEF A, B
  <1>6. IsFiniteSet(A) /\ IsFiniteSet(B) /\ \A x \in A \cup B : size[x] \in Nat
    BY <1>2, SizesNat, FS_Subset
  <1>7. Bytes(size, S) = Bytes(size, A) + Bytes(size, B)
    BY <1>3, <1>4, <1>6, BytesUnion
  <1>8. Bytes(size, A) \in Nat /\ Bytes(size, B) \in Nat
    BY <1>6, BytesType
  <1> QED
    BY <1>5, <1>7, <1>8 DEF A

\* One more of the oldest.
LEMMA OldestOneMore ==
  ASSUME AccountInv, NEW s, NEW S, ListOf(s, S), NEW j \in 1 .. Len(s)
  PROVE  /\ OldestBytes(s, j) = size[s[Len(s) - j + 1]] + OldestBytes(s, j - 1)
         /\ size[s[Len(s) - j + 1]] \in Nat
  <1> DEFINE p == Len(s) - j + 1
             B == {s[i] : i \in p + 1 .. Len(s)}
  <1>1. Len(s) \in Nat /\ \A i \in 1 .. Len(s) : s[i] \in Keys
    BY DEF ListOf
  <1>2. p \in 1 .. Len(s) /\ Len(s) - (j - 1) + 1 = p + 1 /\ p .. Len(s) = (p + 1 .. Len(s)) \cup {p}
    BY <1>1
  <1>3. OldestBytes(s, j) = Bytes(size, B \cup {s[p]})
    <2>1. {s[i] : i \in p .. Len(s)} = B \cup {s[p]}
      BY <1>2
    <2> QED
      BY <2>1 DEF OldestBytes
  <1>4. OldestBytes(s, j - 1) = Bytes(size, B)
    BY <1>2 DEF OldestBytes
  <1>5. s[p] \notin B /\ B \in SUBSET Keys /\ s[p] \in Keys
    BY <1>1, <1>2 DEF ListOf
  <1> HIDE DEF B, p
  <1>6. IsFiniteSet(B) /\ \A x \in B \cup {s[p]} : size[x] \in Nat
    BY <1>5, SizesNat, FS_Subset
  <1>7. Bytes(size, B \cup {s[p]}) = size[s[p]] + Bytes(size, B)
    BY <1>5, <1>6, BytesAdd
  <1> QED
    BY <1>3, <1>4, <1>6, <1>7 DEF p

LEMMA PutList ==
  ASSUME AccountInv, NEW k \in Keys, NEW n \in 1 .. MaxSize, Put(k, n)
  PROVE  \E m \in 0 .. Len(Without(k)) : PutKeeps(k, n, m)
  <1> DEFINE rest == Without(k)
             held == used - Replaced(k)
             need == {i \in 0 .. Len(rest) : held - OldestBytes(rest, i) + n <= Budget}
             out == Evictions(rest, held, n)
             m == Len(rest) - out
             stay == FirstOf(rest, m)
  <1>1. ListOf(rest, Items \ {k}) /\ k \notin Items \ {k}
    BY WithoutList DEF AccountInv
  <1>2. Len(rest) \in Nat /\ n \in Nat /\ n <= Budget /\ Budget \in Nat
    BY <1>1, SizesNat DEF ListOf, Put
  <1>3. held = Bytes(size, Items \ {k})
    BY LeftIsRest
  <1>4. out \in need /\ \A i \in need : out <= i
    <2>1. Len(rest) \in need
      <3>1. Bytes(size, FirstOf(rest, Len(rest) - Len(rest))) = 0
        <4>1. FirstOf(rest, Len(rest) - Len(rest)) = {}
          BY <1>2 DEF FirstOf
        <4> QED
          BY <4>1, BytesEmpty
      <3>2. held = 0 + OldestBytes(rest, Len(rest)) /\ OldestBytes(rest, Len(rest)) \in Nat
        <4> HIDE DEF rest, held
        <4>1. Len(rest) \in 0 .. Len(rest)
          BY <1>2
        <4> QED
          BY <1>1, <1>3, <3>1, <4>1, OldestSplit
      <3> HIDE DEF rest, held
      <3> QED
        BY <1>2, <3>2
    <2>2. out = Min(need)
      BY <2>1 DEF Evictions
    <2> HIDE DEF need, out
    <2>3. \E x \in need : \A y \in need : x <= y
      <3>1. need \subseteq Nat
        BY <1>2 DEF need
      <3> QED
        BY <2>1, <3>1, LeastNumber
    <2> QED
      BY <2>2, <2>3 DEF Min
  <1>5. out \in 0 .. Len(rest) /\ m \in 0 .. Len(rest) /\ Len(rest) - m = out
    BY <1>2, <1>4
  <1>6. /\ order' = <<k>> \o SubSeq(rest, 1, m)
        /\ used' = held - OldestBytes(rest, out) + n
        /\ size' = [x \in Keys |->
                      IF x = k THEN n
                      ELSE IF x \in {SubSeq(rest, 1, m)[i] : i \in DOMAIN SubSeq(rest, 1, m)}
                           THEN size[x] ELSE 0]
    BY DEF Put
  <1> HIDE DEF rest, held, need, out
  <1>7. {SubSeq(rest, 1, m)[i] : i \in DOMAIN SubSeq(rest, 1, m)} = stay
    <2> HIDE DEF m
    <2> QED
      BY <1>1, <1>5, Pushed, Zenon
  <1>8. /\ held = Bytes(size, stay) + OldestBytes(rest, out)
        /\ Bytes(size, stay) \in Nat /\ OldestBytes(rest, out) \in Nat
    BY <1>1, <1>3, <1>5, OldestSplit
  <1>9. used' = Bytes(size, stay) + n
    BY <1>2, <1>6, <1>8
  <1>10. used' <= Budget
    BY <1>4, <1>6 DEF need
  <1>11. ASSUME m < Len(rest) PROVE used' + size[rest[m + 1]] > Budget
    <2>1. out \in 1 .. Len(rest) /\ out - 1 \in 0 .. Len(rest) /\ Len(rest) - out + 1 = m + 1
      BY <1>2, <1>5, <1>11
    <2>2. /\ OldestBytes(rest, out) = size[rest[m + 1]] + OldestBytes(rest, out - 1)
          /\ size[rest[m + 1]] \in Nat
      BY <1>1, <2>1, OldestOneMore
    <2>3. OldestBytes(rest, out - 1) \in Nat
      BY <1>1, <2>1, OldestSplit
    <2>4. ~(held - OldestBytes(rest, out - 1) + n <= Budget)
      <3>1. out - 1 \notin need
        BY <1>2, <1>4, <2>1
      <3> QED
        BY <2>1, <3>1 DEF need
    <2> HIDE DEF m, stay
    <2>5. \A kept, gone, all, next, less \in Nat :
              /\ all = kept + gone
              /\ gone = next + less
              /\ ~(all - less + n <= Budget)
              => kept + n + next > Budget
      BY <1>2
    <2>6. held \in Nat
      BY <1>8
    <2>7. Bytes(size, stay) + n + size[rest[m + 1]] > Budget
      BY <1>8, <2>2, <2>3, <2>4, <2>5, <2>6, Zenon
    <2> QED
      BY <1>9, <2>7, Zenon
  <1> QED
    BY <1>5, <1>6, <1>7, <1>9, <1>10, <1>11 DEF PutKeeps, rest

LEMMA AccountStep == AccountInv /\ [Next]_vars => AccountInv'
  <1> SUFFICES ASSUME AccountInv, [Next]_vars PROVE AccountInv'
    OBVIOUS
  <1>1. SlotInv'
    BY SlotInvStep DEF AccountInv
  <1>2. ASSUME NEW k \in Keys, Get(k) PROVE AccountInv'
    <2> DEFINE rest == Without(k)
    <2>1. k \in Items /\ order' = <<k>> \o rest /\ size' = size /\ used' = used
      BY <1>2 DEF Get
    <2>2. ListOf(rest, Items \ {k})
      BY WithoutList DEF AccountInv
    <2> HIDE DEF rest
    <2>3. rest \in Seq(Keys) /\ Len(rest) \in Nat /\ Len(rest) \in 0 .. Len(rest)
      BY <2>2 DEF ListOf
    <2>4. SubSeq(rest, 1, Len(rest)) = rest
      BY <2>3, SubSeqFull
    <2>5. ListOf(<<k>> \o rest, {k} \cup (Items \ {k}))
      <3>1. Items \ {k} = FirstOf(rest, Len(rest))
        BY <2>2 DEF ListOf, FirstOf
      <3>2. k \notin Items \ {k}
        OBVIOUS
      <3>3. ListOf(<<k>> \o SubSeq(rest, 1, Len(rest)), {k} \cup FirstOf(rest, Len(rest)))
        BY <2>2, <2>3, <3>2, Pushed, Zenon
      <3> QED
        BY <2>4, <3>1, <3>3, Zenon
    <2>6. {k} \cup (Items \ {k}) = Items /\ Items' = Items
      BY <2>1 DEF Items
    <2>7. ListOf(order', Items')
      BY <2>1, <2>5, <2>6
    <2>8. ListOf(order, Items)'
      BY <2>7 DEF ListOf
    <2> QED
      BY <1>1, <2>1, <2>6, <2>8 DEF AccountInv
  <1>3. ASSUME NEW k \in Keys, NEW n \in 1 .. MaxSize, Put(k, n) PROVE AccountInv'
    <2> DEFINE rest == Without(k)
    <2>1. PICK m \in 0 .. Len(rest) : PutKeeps(k, n, m)
      BY <1>3, PutList
    <2> DEFINE stay == FirstOf(rest, m)
    <2>2. /\ order' = <<k>> \o SubSeq(rest, 1, m)
          /\ size' = [x \in Keys |-> IF x = k THEN n ELSE IF x \in stay THEN size[x] ELSE 0]
          /\ used' = Bytes(size, stay) + n /\ used' <= Budget
      BY <2>1 DEF PutKeeps
    <2>3. ListOf(rest, Items \ {k}) /\ k \notin Items \ {k}
      BY WithoutList DEF AccountInv
    <2> HIDE DEF rest
    <2>4. Len(rest) \in Nat /\ stay \subseteq Items \ {k}
      BY <2>3 DEF ListOf, FirstOf
    <2>5. ListOf(<<k>> \o SubSeq(rest, 1, m), {k} \cup stay)
      BY <2>3, Pushed
    <2> HIDE DEF stay
    <2>6. n \in Nat /\ n > 0 /\ \A x \in stay : x \in Keys /\ x # k /\ size[x] \in Nat /\ size[x] > 0
      BY <2>4, SizesNat DEF Items
    <2>7. Items' = {k} \cup stay
      BY <2>2, <2>6 DEF Items
    <2>8. ListOf(order, Items)'
      <3>1. ListOf(order', Items')
        BY <2>2, <2>5, <2>7
      <3> QED
        BY <3>1 DEF ListOf
    <2>9. used' = Bytes(size', Items')
      <3>1. IsFiniteSet(stay)
        BY <2>6, SizesNat, FS_Subset
      <3>2. size'[k] = n /\ \A x \in stay : size'[x] = size[x]
        BY <2>2, <2>6
      <3>3. Bytes(size, stay) = Bytes(size', stay) /\ Bytes(size, stay) \in Nat
        BY <2>6, <3>1, <3>2, BytesSame, BytesType
      <3>4. Bytes(size', stay \cup {k}) = size'[k] + Bytes(size', stay)
        BY <2>6, <3>1, <3>2, BytesAdd
      <3>5. stay \cup {k} = Items'
        BY <2>7
      <3>6. Bytes(size', Items') = n + Bytes(size, stay)
        BY <3>2, <3>3, <3>4, <3>5, Zenon
      <3>7. n + Bytes(size, stay) = Bytes(size, stay) + n
        BY <2>6, <3>3
      <3> QED
        BY <2>2, <3>6, <3>7, Zenon
    <2> QED
      BY <1>1, <2>2, <2>8, <2>9 DEF AccountInv
  <1>4. ASSUME UNCHANGED <<order, size, used>> PROVE AccountInv'
    BY <1>1, <1>4 DEF AccountInv, ListOf, Items
  <1>5. ASSUME NEW k \in Keys, NEW n \in 1 .. MaxSize, PutPartial(k, n) PROVE AccountInv'
    BY <1>4, <1>5 DEF PutPartial
  <1> QED
    BY <1>2, <1>3, <1>4, <1>5 DEF Next, vars

\* The inductive invariant of the byte account holds, for any assets and limits.
THEOREM AccountInvariant == Spec => []AccountInv
  BY AccountInvInit, AccountStep, PTL DEF Spec

\* c.used is what the stored responses occupy and within the budget, the list
\* and the map name the same keys, and the prefixes are within their limit, for
\* any number of assets of any sizes (put, putPartial, get).
THEOREM BudgetExactAlways == Spec => []BudgetExact
  <1>1. ASSUME AccountInv, PrefixesBounded PROVE BudgetExact
    <2>1. /\ order \in Seq(Keys) /\ Len(order) \in Nat /\ DOMAIN order = 1 .. Len(order)
          /\ Items = {order[i] : i \in 1 .. Len(order)}
      BY <1>1 DEF AccountInv, ListOf
    <2>2. order \in Bijection(1 .. Len(order), Items)
      <3>1. order \in [1 .. Len(order) -> Items]
        BY <2>1
      <3>2. order \in Injection(1 .. Len(order), Items)
        BY <1>1, <3>1 DEF AccountInv, ListOf, Injection, IsInjective
      <3>3. order \in Surjection(1 .. Len(order), Items)
        BY <2>1, <3>1 DEF Surjection
      <3> QED
        BY <3>2, <3>3 DEF Bijection
    <2>3. Cardinality(Items) = Len(order)
      BY <2>1, <2>2, FS_CountingElements DEF ExistsBijection
    <2> QED
      BY <1>1, <2>1, <2>3 DEF AccountInv, BudgetExact
  <1> QED
    BY <1>1, AccountInvariant, PrefixesBoundedAlways, PTL

LEMMA EvictStep == AccountInv /\ [Next]_vars => [EvictedOldest]_vars
  <1> SUFFICES ASSUME AccountInv, Next PROVE EvictedOldest
    OBVIOUS
  <1>1. ASSUME size' = size PROVE EvictedOldest
    BY <1>1, SizesNat DEF EvictedOldest, Items
  <1>2. ASSUME NEW k \in Keys, Get(k) PROVE size' = size
    BY <1>2 DEF Get
  <1>3. ASSUME NEW k \in Keys, NEW n \in 1 .. MaxSize, PutPartial(k, n) PROVE size' = size
    BY <1>3 DEF PutPartial
  <1>4. ASSUME NEW k \in Keys, NEW n \in 1 .. MaxSize, Put(k, n) PROVE EvictedOldest
    <2> DEFINE rest == Without(k)
    <2>1. PICK m \in 0 .. Len(rest) : PutKeeps(k, n, m)
      BY <1>4, PutList
    <2> DEFINE stay == FirstOf(rest, m)
               out == {x \in Items : size'[x] = 0}
               kept == {x \in Items : size'[x] = size[x] /\ order'[1] # x}
               last == CHOOSE x \in out : \A y \in out : Position(x) <= Position(y)
    <2> SUFFICES ASSUME out # {}
                 PROVE  /\ \A x \in out, y \in kept : Position(x) > Position(y)
                        /\ used' + size[last] > Budget
      BY DEF EvictedOldest
    <2>2. /\ order' = <<k>> \o SubSeq(rest, 1, m)
          /\ size' = [x \in Keys |-> IF x = k THEN n ELSE IF x \in stay THEN size[x] ELSE 0]
          /\ m < Len(rest) => used' + size[rest[m + 1]] > Budget
      BY <2>1 DEF PutKeeps
    <2>3. /\ ListOf(rest, Items \ {k}) /\ k \notin Items \ {k}
          /\ \A i, j \in 1 .. Len(rest) : i < j => Position(rest[i]) < Position(rest[j])
      BY WithoutList DEF AccountInv
    <2>4. order'[1] = k
      <3> HIDE DEF rest
      <3> QED
        BY <2>2, <2>3, Pushed
    <2> HIDE DEF rest
    <2>5. Len(rest) \in Nat /\ n > 0 /\ n \in Nat
      BY <2>3 DEF ListOf
    <2>6. ASSUME NEW x \in Items, x # k PROVE \E i \in 1 .. Len(rest) : x = rest[i]
      BY <2>3, <2>6 DEF ListOf
    <2>7. ASSUME NEW i \in 1 .. Len(rest)
          PROVE  /\ rest[i] \in Items /\ rest[i] # k /\ rest[i] \in Keys
                 /\ rest[i] \in stay <=> i <= m
      <3>1. rest[i] \in Items /\ rest[i] # k /\ rest[i] \in Keys
        BY <2>3, <2>5 DEF ListOf
      <3>2. ASSUME i <= m PROVE rest[i] \in stay
        <4>1. i \in 1 .. m
          BY <2>5, <3>2
        <4> QED
          BY <4>1 DEF FirstOf
      <3>3. ASSUME rest[i] \in stay PROVE i <= m
        <4>1. PICK j \in 1 .. m : rest[i] = rest[j]
          BY <3>3 DEF FirstOf
        <4>2. j \in 1 .. Len(rest) /\ i = j
          BY <2>3, <2>5, <4>1 DEF ListOf
        <4> QED
          BY <2>5, <4>1, <4>2
      <3> QED
        BY <3>1, <3>2, <3>3
    <2>8. out = {rest[i] : i \in m + 1 .. Len(rest)}
      <3>1. ASSUME NEW x \in out PROVE \E i \in m + 1 .. Len(rest) : x = rest[i]
        <4>1. x \in Items /\ x \in Keys /\ size'[x] = 0 /\ size[x] # 0
          BY SizesNat DEF Items
        <4>2. x # k
          BY <2>2, <2>5, <4>1
        <4>3. PICK i \in 1 .. Len(rest) : x = rest[i]
          BY <2>6, <4>1, <4>2
        <4>4. ~(i <= m)
          BY <2>2, <2>7, <4>1, <4>2, <4>3
        <4> QED
          BY <2>5, <4>3, <4>4
      <3>2. ASSUME NEW i \in m + 1 .. Len(rest) PROVE rest[i] \in out
        <4>1. i \in 1 .. Len(rest) /\ ~(i <= m)
          BY <2>5
        <4> QED
          BY <2>2, <2>7, <4>1
      <3> QED
        BY <3>1, <3>2
    <2>9. ASSUME NEW y \in kept PROVE \E j \in 1 .. m : y = rest[j]
      <3>1. y \in Items /\ y \in Keys /\ y # k /\ size'[y] = size[y] /\ size[y] # 0
        BY <2>4, SizesNat DEF Items
      <3>2. PICK j \in 1 .. Len(rest) : y = rest[j]
        BY <2>6, <3>1
      <3>3. j <= m
        BY <2>2, <2>7, <3>1, <3>2
      <3> QED
        BY <2>5, <3>2, <3>3
    <2>10. \A i \in 1 .. Len(rest) : Position(rest[i]) \in Nat
      <3> SUFFICES ASSUME NEW i \in 1 .. Len(rest) PROVE Position(rest[i]) \in Nat
        OBVIOUS
      <3>1. PICK q \in 1 .. Len(order) : rest[i] = order[q]
        BY <2>7 DEF AccountInv, ListOf
      <3> QED
        BY <3>1, PositionOf DEF AccountInv
    <2> HIDE DEF stay, kept
    <2>11. \A x \in out, y \in kept : Position(x) > Position(y)
      <3> SUFFICES ASSUME NEW x \in out, NEW y \in kept PROVE Position(x) > Position(y)
        OBVIOUS
      <3>1. PICK i \in m + 1 .. Len(rest) : x = rest[i]
        BY <2>8
      <3>2. PICK j \in 1 .. m : y = rest[j]
        BY <2>9
      <3>3. i \in 1 .. Len(rest) /\ j \in 1 .. Len(rest) /\ j < i
        BY <2>5
      <3> QED
        BY <2>3, <2>10, <3>1, <3>2, <3>3
    <2>12. m < Len(rest) /\ rest[m + 1] \in out
      BY <2>5, <2>8
    <2>13. last = rest[m + 1]
      <3> HIDE DEF out
      <3>1. \A y \in out : y # rest[m + 1] => Position(rest[m + 1]) < Position(y)
        <4> SUFFICES ASSUME NEW y \in out, y # rest[m + 1]
                     PROVE  Position(rest[m + 1]) < Position(y)
          OBVIOUS
        <4>1. PICK i \in m + 1 .. Len(rest) : y = rest[i]
          BY <2>8
        <4>2. i \in 1 .. Len(rest) /\ m + 1 \in 1 .. Len(rest) /\ m + 1 < i
          BY <2>5, <2>12, <4>1
        <4> QED
          BY <2>3, <4>1, <4>2
      <3>2. \A y \in out : Position(y) \in Nat
        BY <2>5, <2>8, <2>10
      <3>3. \A y \in out : Position(rest[m + 1]) <= Position(y)
        BY <2>12, <3>1, <3>2
      <3>4. last \in out /\ \A y \in out : Position(last) <= Position(y)
        BY <2>12, <3>3
      <3> HIDE DEF last
      <3> QED
        BY <2>12, <3>1, <3>2, <3>4
    <2> HIDE DEF out, last
    <2> QED
      BY <2>2, <2>11, <2>12, <2>13
  <1> QED
    BY <1>1, <1>2, <1>3, <1>4 DEF Next

\* put evicts in the order of use and only while the new response does not fit,
\* for any list and any sizes.
THEOREM EvictsOldestAlways == Spec => EvictsOldestForRoom
  BY EvictStep, AccountInvariant, PTL DEF Spec, EvictsOldestForRoom

-----------------------------------------------------------------------------
(***************************************************************************)
(* AdminAuth.                                                              *)
(***************************************************************************)
\* Only so much has been issued, and remembered, at any moment.
FiniteInv ==
    /\ IsFiniteSet(issued)
    /\ IsFiniteSet(Entries(failures))
    /\ \A c \in Clients : IsFiniteSet(tried[c])

\* The inductive invariant.
AdminInv == AdminTypeOK /\ FiniteInv /\ SessionKept /\ RateLimited

\* The tokens that cost t its place: issued later, or for as long.
Newer(t) == {u \in issued \ {t} : left[u] >= left[t]}

\* A larger set that is finite too has no fewer elements.
LEMMA AtLeast ==
  ASSUME NEW S, NEW T, IsFiniteSet(T), S \subseteq T, NEW n \in Nat, Cardinality(S) >= n
  PROVE  Cardinality(T) >= n
  <1>1. IsFiniteSet(S) /\ Cardinality(S) <= Cardinality(T)
    BY FS_Subset
  <1>2. Cardinality(S) \in Nat /\ Cardinality(T) \in Nat
    BY <1>1, FS_CardinalityType
  <1> QED
    BY <1>1, <1>2

\* A smaller set has no more.
LEMMA AtMost ==
  ASSUME NEW T, NEW S \in SUBSET T, IsFiniteSet(T), NEW n \in Nat, Cardinality(T) <= n
  PROVE  IsFiniteSet(S) /\ Cardinality(S) <= n
  <1>1. IsFiniteSet(S) /\ Cardinality(S) <= Cardinality(T)
    BY FS_Subset
  <1>2. Cardinality(S) \in Nat /\ Cardinality(T) \in Nat
    BY <1>1, FS_CardinalityType
  <1> QED
    BY <1>1, <1>2

\* Adding an element to a table that has room for it.
LEMMA OneMore ==
  ASSUME NEW S, NEW x, IsFiniteSet(S), NEW n \in Nat, Cardinality(S) < n
  PROVE  IsFiniteSet(S \cup {x}) /\ Cardinality(S \cup {x}) <= n
  <1>1. Cardinality(S) \in Nat
    BY FS_CardinalityType
  <1>2. /\ IsFiniteSet(S \cup {x})
        /\ \/ Cardinality(S \cup {x}) = Cardinality(S)
           \/ Cardinality(S \cup {x}) = Cardinality(S) + 1
    BY FS_AddElement
  <1> QED
    BY <1>1, <1>2

\* Exchanging an element for a new one.
LEMMA Exchanged ==
  ASSUME NEW S, NEW o \in S, NEW x, x \notin S, IsFiniteSet(S)
  PROVE  /\ IsFiniteSet((S \ {o}) \cup {x})
         /\ Cardinality((S \ {o}) \cup {x}) = Cardinality(S)
  <1>1. /\ IsFiniteSet(S \ {o})
        /\ Cardinality(S \ {o}) = Cardinality(S) - 1
    BY FS_RemoveElement
  <1>2. /\ IsFiniteSet((S \ {o}) \cup {x})
        /\ Cardinality((S \ {o}) \cup {x}) = Cardinality(S \ {o}) + 1
    BY <1>1, FS_AddElement
  <1>3. Cardinality(S) \in Nat
    BY FS_CardinalityType
  <1> QED
    BY <1>1, <1>2, <1>3

LEMMA AdminInvInit == AdminInit => AdminInv
  <1> SUFFICES ASSUME AdminInit PROVE AdminInv
    OBVIOUS
  <1>1. Entries(failures) = {}
    BY DEF AdminInit, Entries
  <1>2. IsFiniteSet({}) /\ Cardinality({}) = 0
    BY FS_EmptySet
  <1>3. AdminTypeOK
    <2>1. left \in [Tokens -> -1 .. TTL] /\ age \in [Attempts -> 0 .. Window]
      BY AdminAssumption DEF AdminInit
    <2>2. failures \in [Clients -> SUBSET Attempts] /\ tried \in [Clients -> SUBSET Attempts]
      BY DEF AdminInit
    <2> QED
      BY <1>1, <1>2, <2>1, <2>2, AdminAssumption DEF AdminInit, AdminTypeOK
  <1>4. FiniteInv
    BY <1>1, <1>2 DEF AdminInit, FiniteInv
  <1>5. SessionKept
    BY DEF AdminInit, SessionKept
  <1>6. RateLimited
    BY <1>2, AdminAssumption DEF AdminInit, RateLimited, Recent
  <1> QED
    BY <1>3, <1>4, <1>5, <1>6 DEF AdminInv

\* A token that has made way stays outnumbered when its rivals only become more.
LEMMA StillOutnumbered ==
  ASSUME AdminInv, NEW t \in issued, Cardinality(Newer(t)) >= MaxSessions,
         IsFiniteSet(issued'), Newer(t) \subseteq Newer(t)'
  PROVE  Cardinality(Newer(t)') >= MaxSessions
  <1>1. IsFiniteSet(Newer(t)')
    <2>1. Newer(t)' \in SUBSET issued'
      BY DEF Newer
    <2> QED
      BY <2>1, FS_Subset
  <1>2. MaxSessions \in Nat
    BY AdminAssumption
  <1> QED
    BY <1>1, <1>2, AtLeast

LEMMA LoginOKStep ==
  ASSUME AdminInv, NEW c \in Clients, NEW t \in Tokens, LoginOK(c, t)
  PROVE  AdminInv'
  <1>1. /\ t \notin issued /\ issued' = issued \cup {t} /\ ended' = ended
        /\ left' = [left EXCEPT ![t] = TTL]
    BY DEF LoginOK
  <1>2. /\ failures' = [failures EXCEPT ![c] = {}] /\ tried' = [tried EXCEPT ![c] = {}]
        /\ dropped' = dropped \ {c} /\ age' = age
    BY DEF LoginOK
  <1>3. IsFiniteSet(issued')
    BY <1>1, FS_AddElement DEF AdminInv, FiniteInv
  <1>4. IsFiniteSet(sessions) /\ Cardinality(sessions) \in Nat /\ t \notin sessions
    BY <1>1, FS_Subset, FS_CardinalityType DEF AdminInv, AdminTypeOK, FiniteInv
  <1>5. /\ sessions' \subseteq sessions \cup {t} /\ t \in sessions'
        /\ Cardinality(sessions') <= MaxSessions
    <2>1. CASE Room(Cardinality(sessions), MaxSessions)
      <3>1. sessions' = sessions \cup {t}
        BY <2>1 DEF LoginOK
      <3> QED
        BY <1>4, <2>1, <3>1, OneMore, AdminAssumption DEF Room
    <2>2. CASE ~Room(Cardinality(sessions), MaxSessions)
      <3>1. PICK o \in Oldest : sessions' = (sessions \ {o}) \cup {t}
        BY <2>2 DEF LoginOK
      <3>2. o \in sessions
        BY <3>1 DEF Oldest
      <3>3. Cardinality(sessions') = Cardinality(sessions)
        BY <1>4, <3>1, <3>2, Exchanged
      <3> QED
        BY <1>4, <3>1, <3>2, <3>3 DEF AdminInv, AdminTypeOK
    <2> QED
      BY <2>1, <2>2
  <1>6. Entries(failures') \in SUBSET Entries(failures)
    BY <1>2 DEF AdminInv, AdminTypeOK, Entries
  <1>7. IsFiniteSet(Entries(failures')) /\ Cardinality(Entries(failures')) < MaxFailures
    <2>1. /\ IsFiniteSet(Entries(failures'))
          /\ Cardinality(Entries(failures')) <= Cardinality(Entries(failures))
      BY <1>6, FS_Subset DEF AdminInv, FiniteInv
    <2>2. Cardinality(Entries(failures)) \in Nat /\ Cardinality(Entries(failures')) \in Nat
      BY <2>1, FS_CardinalityType DEF AdminInv, FiniteInv
    <2> QED
      BY <2>1, <2>2, AdminAssumption DEF AdminInv, AdminTypeOK
  <1>8. AdminTypeOK'
    BY <1>1, <1>2, <1>5, <1>7, AdminAssumption DEF AdminInv, AdminTypeOK
  <1>9. FiniteInv'
    BY <1>2, <1>3, <1>7, FS_EmptySet DEF AdminInv, AdminTypeOK, FiniteInv
  <1>10. SessionKept'
    <2> SUFFICES ASSUME NEW x \in issued', x \notin ended', x \notin sessions', ~(left'[x] < 0)
                 PROVE  Cardinality(Newer(x)') >= MaxSessions
      BY DEF SessionKept, Newer
    <2>1. x \in issued /\ x # t /\ left'[x] = left[x] /\ x \notin ended
      BY <1>1, <1>5 DEF AdminInv, AdminTypeOK
    <2>2. Newer(x) \subseteq Newer(x)'
      BY <1>1, <2>1 DEF Newer, AdminInv, AdminTypeOK
    <2>3. CASE x \notin sessions
      <3>1. Cardinality(Newer(x)) >= MaxSessions
        BY <2>1, <2>3 DEF AdminInv, SessionKept, Newer
      <3> QED
        BY <1>3, <2>1, <2>2, <3>1, StillOutnumbered
    <2>4. CASE x \in sessions
      <3>1. ~Room(Cardinality(sessions), MaxSessions)
        BY <2>4 DEF LoginOK
      <3>2. x \in Oldest /\ sessions' = (sessions \ {x}) \cup {t}
        BY <2>1, <2>4, <3>1 DEF LoginOK
      <3>3. sessions' \subseteq Newer(x)'
        <4>1. \A u \in sessions : left[x] <= left[u] /\ u \in issued
          BY <3>2 DEF Oldest, AdminInv, AdminTypeOK
        <4>2. left[x] <= TTL /\ left'[t] = TTL
          BY <1>1, <2>1, AdminAssumption DEF AdminInv, AdminTypeOK
        <4>3. \A u \in sessions : left'[u] = left[u] /\ left[u] \in Int
          BY <1>1, <1>4, <4>1, AdminAssumption DEF AdminInv, AdminTypeOK
        <4>4. left[x] \in Int /\ TTL \in Int
          BY <2>4, <4>3, AdminAssumption
        <4> QED
          BY <1>1, <2>1, <3>2, <4>1, <4>2, <4>3, <4>4 DEF Newer
      <3>4. Cardinality(sessions') >= MaxSessions
        <4>1. Cardinality(sessions') = Cardinality(sessions)
          BY <1>4, <2>4, <3>2, Exchanged
        <4> QED
          BY <1>4, <3>1, <4>1, AdminAssumption DEF Room
      <3>5. IsFiniteSet(Newer(x)')
        <4>1. Newer(x)' \in SUBSET issued'
          BY DEF Newer
        <4> QED
          BY <1>3, <4>1, FS_Subset
      <3> QED
        BY <3>3, <3>4, <3>5, AtLeast, AdminAssumption
    <2> QED
      BY <2>3, <2>4
  <1>11. RateLimited'
    BY <1>2, FS_EmptySet, AdminAssumption DEF AdminInv, AdminTypeOK, RateLimited, Recent
  <1> QED
    BY <1>8, <1>9, <1>10, <1>11 DEF AdminInv

\* What concerns sessions only.
LEMMA SessionStep ==
  ASSUME AdminInv, NEW t \in Tokens, CheckSession(t) \/ Logout(t)
  PROVE  AdminInv'
  <1>1. /\ sessions' = sessions \ {t} /\ left' = left /\ issued' = issued
        /\ UNCHANGED <<age, failures, tried, dropped>>
        /\ ended \subseteq ended' /\ ended' \subseteq issued
        /\ t \in sessions => left[t] < 0 \/ t \in ended'
    BY DEF CheckSession, Logout, AdminInv, AdminTypeOK
  <1>2. Cardinality(sessions') <= MaxSessions
    <2>1. IsFiniteSet(sessions)
      BY FS_Subset DEF AdminInv, AdminTypeOK, FiniteInv
    <2>2. sessions' \in SUBSET sessions
      BY <1>1
    <2> QED
      BY <2>1, <2>2, AtMost, AdminAssumption DEF AdminInv, AdminTypeOK
  <1>3. AdminTypeOK'
    BY <1>1, <1>2 DEF AdminInv, AdminTypeOK, Entries
  <1>4. FiniteInv' /\ RateLimited'
    BY <1>1 DEF AdminInv, FiniteInv, RateLimited, Entries, Recent
  <1>5. SessionKept'
    BY <1>1 DEF AdminInv, SessionKept
  <1> QED
    BY <1>3, <1>4, <1>5 DEF AdminInv

LEMMA LoginFailsStep ==
  ASSUME AdminInv, NEW c \in Clients, NEW f \in Attempts, LoginFails(c, f)
  PROVE  AdminInv'
  <1> DEFINE recorded == [failures EXCEPT ![c] = Recent(failures[c]) \cup {f}]
  <1>1. /\ UNCHANGED <<sessions, left, issued, ended>>
        /\ ~LockedLocked(c)
        /\ \A d \in Clients : f \notin failures[d] /\ f \notin tried[d]
        /\ age' = [age EXCEPT ![f] = 0]
        /\ tried' = [tried EXCEPT ![c] = tried[c] \cup {f}]
    BY DEF LoginFails
  <1>2. \/ /\ Room(Cardinality(Entries(recorded)), MaxFailures)
           /\ failures' = recorded /\ dropped' = dropped
        \/ \E d \in Entries(recorded) :
             failures' = [recorded EXCEPT ![d] = {}] /\ dropped' = dropped \cup {d}
    BY DEF LoginFails
  <1>3. recorded \in [Clients -> SUBSET Attempts]
    BY DEF AdminInv, AdminTypeOK, Recent
  <1>4. Entries(recorded) \in SUBSET (Entries(failures) \cup {c})
    BY DEF AdminInv, AdminTypeOK, Entries
  <1>5. IsFiniteSet(Entries(recorded)) /\ Cardinality(Entries(recorded)) <= MaxFailures
    <2>1. /\ IsFiniteSet(Entries(failures) \cup {c})
          /\ Cardinality(Entries(failures) \cup {c}) <= MaxFailures
      BY OneMore, AdminAssumption DEF AdminInv, AdminTypeOK, FiniteInv
    <2> HIDE DEF recorded
    <2> QED
      BY <1>4, <2>1, AtMost, AdminAssumption
  <1>6. /\ IsFiniteSet(Entries(failures')) /\ Cardinality(Entries(failures')) < MaxFailures
        /\ failures' \in [Clients -> SUBSET Attempts] /\ dropped' \subseteq Clients
        /\ dropped \subseteq dropped'
        /\ \A d \in Clients : failures'[d] \subseteq recorded[d]
        /\ \A d \in Clients \ dropped' : failures'[d] = recorded[d]
    <2> HIDE DEF recorded
    <2>1. CASE Room(Cardinality(Entries(recorded)), MaxFailures) /\ failures' = recorded
                 /\ dropped' = dropped
      BY <1>3, <1>5, <2>1 DEF Room, AdminInv, AdminTypeOK
    <2>2. ASSUME NEW d \in Entries(recorded), failures' = [recorded EXCEPT ![d] = {}],
                 dropped' = dropped \cup {d}
          PROVE  /\ IsFiniteSet(Entries(failures'))
                 /\ Cardinality(Entries(failures')) < MaxFailures
                 /\ failures' \in [Clients -> SUBSET Attempts] /\ dropped' \subseteq Clients
                 /\ dropped \subseteq dropped'
                 /\ \A e \in Clients : failures'[e] \subseteq recorded[e]
                 /\ \A e \in Clients \ dropped' : failures'[e] = recorded[e]
      <3>1. d \in Clients /\ Entries(failures') = Entries(recorded) \ {d}
        BY <1>3, <2>2 DEF Entries
      <3>2. /\ IsFiniteSet(Entries(recorded) \ {d})
            /\ Cardinality(Entries(recorded) \ {d}) = Cardinality(Entries(recorded)) - 1
        BY <1>5, FS_RemoveElement
      <3>3. Cardinality(Entries(recorded)) \in Nat
        BY <1>5, FS_CardinalityType
      <3>4. Cardinality(Entries(failures')) < MaxFailures
        BY <1>5, <3>1, <3>2, <3>3, AdminAssumption
      <3> QED
        BY <1>3, <2>2, <3>1, <3>2, <3>4 DEF AdminInv, AdminTypeOK
    <2> QED
      BY <1>2, <2>1, <2>2
  <1>7. AdminTypeOK'
    <2>1. age' \in [Attempts -> 0 .. Window]
      BY <1>1, AdminAssumption DEF AdminInv, AdminTypeOK
    <2>2. tried' \in [Clients -> SUBSET Attempts]
      BY <1>1 DEF AdminInv, AdminTypeOK
    <2> QED
      BY <1>1, <1>6, <2>1, <2>2 DEF AdminInv, AdminTypeOK
  <1>8. FiniteInv'
    <2>1. IsFiniteSet(tried[c] \cup {f})
      BY FS_AddElement DEF AdminInv, FiniteInv
    <2> QED
      BY <1>1, <1>6, <2>1 DEF AdminInv, AdminTypeOK, FiniteInv
  <1>9. SessionKept'
    BY <1>1 DEF AdminInv, SessionKept
  <1>10. RateLimited'
    <2>1. \A d \in Clients : {g \in recorded[d] : age'[g] < Window}
                               = IF d = c THEN Recent(failures[c]) \cup {f}
                                 ELSE Recent(failures[d])
      BY <1>1, AdminAssumption DEF AdminInv, AdminTypeOK, Recent
    <2>2. \A d \in Clients : Recent(failures[d])' = {g \in failures'[d] : age'[g] < Window}
      BY DEF Recent
    <2> HIDE DEF recorded
    <2>3. ASSUME NEW d \in Clients PROVE Recent(failures[d])' \subseteq tried'[d]
      BY <1>1, <1>6, <2>1, <2>2 DEF AdminInv, AdminTypeOK, RateLimited
    <2>4. ASSUME NEW d \in Clients, d \notin dropped'
          PROVE  Recent(failures[d])' = tried'[d] /\ Cardinality(tried'[d]) <= Threshold
      <3>1. d \notin dropped /\ failures'[d] = recorded[d]
        BY <1>6, <2>4
      <3>2. Recent(failures[d]) = tried[d] /\ Cardinality(tried[d]) <= Threshold
        BY <3>1 DEF AdminInv, RateLimited
      <3>3. Recent(failures[d])' = tried'[d]
        BY <1>1, <2>1, <2>2, <3>1, <3>2 DEF AdminInv, AdminTypeOK
      <3>4. CASE d # c
        BY <1>1, <3>2, <3>3, <3>4 DEF AdminInv, AdminTypeOK
      <3>5. CASE d = c
        <4>1. IsFiniteSet(tried[c]) /\ Cardinality(tried[c]) \in Nat
          BY FS_CardinalityType DEF AdminInv, FiniteInv
        <4>2. Cardinality(tried[c]) < Threshold
          BY <1>1, <3>2, <3>5, <4>1, AdminAssumption DEF LockedLocked
        <4>3. tried'[c] = tried[c] \cup {f}
          BY <1>1 DEF AdminInv, AdminTypeOK
        <4> QED
          BY <3>3, <3>5, <4>1, <4>2, <4>3, OneMore, AdminAssumption
      <3> QED
        BY <3>4, <3>5
    <2> QED
      BY <2>3, <2>4 DEF RateLimited
  <1> QED
    BY <1>7, <1>8, <1>9, <1>10 DEF AdminInv

LEMMA LoginLockedStep ==
  ASSUME AdminInv, NEW c \in Clients, LoginLocked(c)
  PROVE  AdminInv'
  <1>1. /\ UNCHANGED <<sessions, left, age, issued, ended, tried, dropped>>
        /\ failures' = [failures EXCEPT ![c] = Recent(failures[c])]
    BY DEF LoginLocked
  <1>2. failures' \in [Clients -> SUBSET Attempts]
    BY <1>1 DEF AdminInv, AdminTypeOK, Recent
  <1>3. Entries(failures') \in SUBSET Entries(failures)
    BY <1>1 DEF AdminInv, AdminTypeOK, Entries, Recent
  <1>4. IsFiniteSet(Entries(failures')) /\ Cardinality(Entries(failures')) < MaxFailures
    <2>1. /\ IsFiniteSet(Entries(failures'))
          /\ Cardinality(Entries(failures')) <= Cardinality(Entries(failures))
      BY <1>3, FS_Subset DEF AdminInv, FiniteInv
    <2>2. Cardinality(Entries(failures)) \in Nat /\ Cardinality(Entries(failures')) \in Nat
      BY <2>1, FS_CardinalityType DEF AdminInv, FiniteInv
    <2> QED
      BY <2>1, <2>2, AdminAssumption DEF AdminInv, AdminTypeOK
  <1>5. AdminTypeOK'
    BY <1>1, <1>2, <1>4 DEF AdminInv, AdminTypeOK
  <1>6. FiniteInv' /\ SessionKept'
    BY <1>1, <1>4 DEF AdminInv, FiniteInv, SessionKept
  <1>7. \A d \in Clients : Recent(failures[d])' = Recent(failures[d])
    BY <1>1 DEF AdminInv, AdminTypeOK, Recent
  <1>8. RateLimited'
    BY <1>1, <1>7 DEF AdminInv, RateLimited
  <1> QED
    BY <1>5, <1>6, <1>8 DEF AdminInv

LEMMA TickStep ==
  ASSUME AdminInv, Tick
  PROVE  AdminInv'
  <1>1. /\ UNCHANGED <<sessions, failures, issued, ended>>
        /\ left' = [t \in Tokens |-> IF left[t] < 0 THEN -1 ELSE left[t] - 1]
        /\ age' = [f \in Attempts |-> Older(age[f])]
        /\ tried' = [c \in Clients |-> {f \in tried[c] : age'[f] < Window}]
        /\ dropped' = {c \in dropped : tried'[c] # {}}
    BY DEF Tick
  <1>2. AdminTypeOK'
    <2>1. left' \in [Tokens -> -1 .. TTL]
      BY <1>1, AdminAssumption DEF AdminInv, AdminTypeOK
    <2>2. age' \in [Attempts -> 0 .. Window]
      BY <1>1, AdminAssumption DEF AdminInv, AdminTypeOK, Older
    <2>3. tried' \in [Clients -> SUBSET Attempts]
      BY <1>1 DEF AdminInv, AdminTypeOK
    <2> QED
      BY <1>1, <2>1, <2>2, <2>3 DEF AdminInv, AdminTypeOK, Entries
  <1>3. \A c \in Clients : tried'[c] \in SUBSET tried[c]
    BY <1>1
  <1>4. FiniteInv'
    BY <1>1, <1>3, FS_Subset DEF AdminInv, FiniteInv, Entries
  <1>5. SessionKept'
    <2> SUFFICES ASSUME NEW x \in issued', x \notin ended', x \notin sessions', ~(left'[x] < 0)
                 PROVE  Cardinality(Newer(x)') >= MaxSessions
      BY DEF SessionKept, Newer
    <2>1. /\ x \in issued /\ x \notin ended /\ x \notin sessions
          /\ \A u \in issued : left[u] \in Int /\ u \in Tokens
      BY <1>1, AdminAssumption DEF AdminInv, AdminTypeOK
    <2>2. ~(left[x] < 0) /\ left'[x] = left[x] - 1
      BY <1>1, <2>1
    <2>3. Cardinality(Newer(x)) >= MaxSessions
      BY <2>1, <2>2 DEF AdminInv, SessionKept, Newer
    <2>4. Newer(x) \subseteq Newer(x)'
      BY <1>1, <2>1, <2>2 DEF Newer
    <2> QED
      BY <1>1, <2>1, <2>3, <2>4, StillOutnumbered DEF AdminInv, FiniteInv
  <1>6. RateLimited'
    <2>1. ASSUME NEW c \in Clients
          PROVE  Recent(failures[c])'
                   = Recent(failures[c]) \ {f \in Attempts : ~(age'[f] < Window)}
      BY <1>1, AdminAssumption DEF AdminInv, AdminTypeOK, Recent, Older
    <2>2. ASSUME NEW c \in Clients
          PROVE  tried'[c] = tried[c] \ {f \in Attempts : ~(age'[f] < Window)}
      BY <1>1 DEF AdminInv, AdminTypeOK
    <2>3. ASSUME NEW c \in Clients PROVE Recent(failures[c])' \subseteq tried'[c]
      BY <2>1, <2>2 DEF AdminInv, RateLimited
    <2>4. ASSUME NEW c \in Clients, c \notin dropped'
          PROVE  Recent(failures[c])' = tried'[c] /\ Cardinality(tried'[c]) <= Threshold
      <3>1. CASE c \in dropped
        <4>1. tried'[c] = {}
          BY <1>1, <2>4, <3>1
        <4> QED
          BY <2>3, <4>1, FS_EmptySet, AdminAssumption
      <3>2. CASE c \notin dropped
        <4>1. Recent(failures[c]) = tried[c] /\ Cardinality(tried[c]) <= Threshold
          BY <3>2 DEF AdminInv, RateLimited
        <4>2. IsFiniteSet(tried[c])
          BY DEF AdminInv, FiniteInv
        <4> QED
          BY <1>3, <2>1, <2>2, <4>1, <4>2, AtMost, AdminAssumption
      <3> QED
        BY <3>1, <3>2
    <2> QED
      BY <2>3, <2>4 DEF RateLimited
  <1> QED
    BY <1>2, <1>4, <1>5, <1>6 DEF AdminInv

LEMMA AdminInvStep == AdminInv /\ [AdminNext]_adminVars => AdminInv'
  <1> SUFFICES ASSUME AdminInv, [AdminNext]_adminVars PROVE AdminInv'
    OBVIOUS
  <1>1. CASE AdminNext
    BY <1>1, LoginOKStep, LoginFailsStep, LoginLockedStep, SessionStep, TickStep DEF AdminNext
  <1>2. CASE UNCHANGED adminVars
    BY <1>2 DEF adminVars, AdminInv, AdminTypeOK, FiniteInv, SessionKept, RateLimited,
                Entries, Recent
  <1> QED
    BY <1>1, <1>2

\* The inductive invariant holds: what is issued and remembered is finite, and
\* what the tables dropped they had to drop.
THEOREM AdminInvariant == AdminSpec => []AdminInv
  BY AdminInvInit, AdminInvStep, PTL DEF AdminSpec

\* The variables keep their types, and neither table outgrows its limit
\* (ensureSessionCapacityLocked, ensureFailureCapacityLocked).
THEOREM AdminTypeCorrect == AdminSpec => []AdminTypeOK
  <1>1. AdminInv => AdminTypeOK
    BY DEF AdminInv
  <1> QED
    BY <1>1, AdminInvariant, PTL

\* A session is honoured until it expires, is logged out, or as many others that
\* do not expire before it have been issued as the table holds (Login).
THEOREM SessionKeptAlways == AdminSpec => []SessionKept
  <1>1. AdminInv => SessionKept
    BY DEF AdminInv
  <1> QED
    BY <1>1, AdminInvariant, PTL

\* A client never fails more than adminLockThreshold times in a window, and is
\* locked for these failures only, unless its entry was dropped (lockedLocked).
THEOREM RateLimitedAlways == AdminSpec => []RateLimited
  <1>1. AdminInv => RateLimited
    BY DEF AdminInv
  <1> QED
    BY <1>1, AdminInvariant, PTL
=============================================================================
