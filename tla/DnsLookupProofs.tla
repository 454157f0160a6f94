-------------------------- MODULE DnsLookupProofs --------------------------
(***************************************************************************)
(* One lookup is in flight per host, and the cache only moves forward, for *)
(* any number of callers and any delays between reading the clock, taking  *)
(* the lock and storing the answer.  The second fact needs the first: that *)
(* the entry had expired by the leader's clock is known when it takes the  *)
(* lead, and stays true only because nobody else stores in the meantime.   *)
(***************************************************************************)
EXTENDS DnsLookup, TLAPS

\* A leader that is through with resolveHost has an outcome.
FoundInv == \A c \in Callers : pc[c] = "finish" => found[c] \in Outcomes

\* A resolver that goes on has an attempt left; others have made none.
TriesInv ==
    \A c \in Callers :
        /\ pc[c] = "resolve" => tries[c] < Retries
        /\ pc[c] \in {"idle", "lock", "wait"} => tries[c] = 0

\* By a leader's clock, what the cache holds has expired.
ExpiredInv == \A c \in Leaders : cache # None => cache.expires <= now[c]

DInv == TypeOK /\ OneFlight /\ FoundInv /\ TriesInv /\ ExpiredInv

USE DnsAssumption

LEMMA InitDInv == Init => DInv
<1>. SUFFICES ASSUME Init PROVE DInv
  OBVIOUS
<1>1. inFlight \in BOOLEAN
  BY Zenon DEF Init
<1>2. TypeOK
  BY <1>1 DEF Init, TypeOK
<1>3. Leaders = {}
  BY DEF Init, Leaders
<1>4. ~inFlight
  BY Zenon DEF Init
<1>5. OneFlight
  BY <1>3, <1>4, Zenon DEF OneFlight
<1>6. FoundInv /\ TriesInv /\ ExpiredInv
  BY <1>3 DEF Init, FoundInv, TriesInv, ExpiredInv
<1>. QED
  BY <1>2, <1>5, <1>6 DEF DInv

\* Steps that neither start nor end a lookup of their own, nor store.
LEMMA QuietStep ==
    ASSUME DInv, TypeOK', FoundInv', TriesInv',
           UNCHANGED <<cache, inFlight>>, Leaders' = Leaders,
           \A c \in Leaders : now'[c] = now[c]
    PROVE  DInv'
<1>1. OneFlight'
  BY Zenon DEF DInv, OneFlight
<1>2. ExpiredInv'
  BY DEF DInv, ExpiredInv
<1>. QED
  BY <1>1, <1>2 DEF DInv

\* Taking the lead: the entry has expired and there is no other leader.
LEMMA LeadStep ==
    ASSUME DInv, NEW c \in Callers, Lead(c)
    PROVE  DInv'
<1>1. inFlight' /\ ~inFlight
  BY Zenon DEF Lead, MayLead
<1>2. TypeOK'
  <2>1. inFlight' \in BOOLEAN
    BY Zenon DEF Lead
  <2>. QED
    BY <2>1 DEF DInv, TypeOK, Lead, Goto
<1>3. Leaders' = {c} /\ Leaders = {}
  <2>1. Leaders = {}
    BY <1>1, Zenon DEF DInv, OneFlight
  <2>2. Leaders' = Leaders \cup {c}
    BY DEF DInv, TypeOK, Lead, Goto, Leaders
  <2>. QED
    BY <2>1, <2>2
<1>4. OneFlight'
  <2>1. Leaders' # {} /\ \A d, e \in Leaders' : d = e
    BY <1>3
  <2>. QED
    BY <1>1, <2>1, Zenon DEF OneFlight
<1>5. FoundInv' /\ TriesInv'
  BY DEF DInv, TypeOK, FoundInv, TriesInv, Lead, Goto
<1>6. ExpiredInv'
  BY <1>3 DEF DInv, TypeOK, ExpiredInv, Lead, MayLead, Valid, Entries
<1>. QED
  BY <1>2, <1>4, <1>5, <1>6 DEF DInv

\* The end of a lookup: the only leader leaves.
LEMMA FinishStep ==
    ASSUME DInv, NEW c \in Callers, Finish(c)
    PROVE  DInv'
<1>1. c \in Leaders /\ found[c] \in Outcomes
  BY DEF DInv, FoundInv, Finish, Leaders
<1>2. Leaders' = {}
  <2>1. Leaders = {c}
    BY <1>1 DEF DInv, OneFlight
  <2>2. Leaders' = Leaders \ {c}
    BY DEF DInv, TypeOK, Finish, Return, Goto, Leaders
  <2>. QED
    BY <2>1, <2>2
<1>3. ~inFlight' /\ inFlight' \in BOOLEAN
  BY Zenon DEF Finish, Registered
<1>4. TypeOK'
  <2>1. cache' \in Entries \cup {None}
    BY <1>1 DEF DInv, TypeOK, Finish, Outcomes, Entries
  <2>2. found' \in [Callers -> Outcomes \cup {None}]
    BY <1>1 DEF DInv, TypeOK, Finish
  <2>. QED
    BY <1>3, <2>1, <2>2 DEF DInv, TypeOK, Finish, Return, Goto
<1>5. OneFlight'
  BY <1>2, <1>3, Zenon DEF OneFlight
<1>6. FoundInv' /\ ExpiredInv'
  BY <1>2 DEF FoundInv, ExpiredInv, Leaders
<1>7. TriesInv'
  BY DEF DInv, TypeOK, TriesInv, Finish, Return, Goto
<1>. QED
  BY <1>4, <1>5, <1>6, <1>7 DEF DInv

LEMMA NextDInv == DInv /\ [Next]_vars => DInv'
<1>. SUFFICES ASSUME DInv, [Next]_vars PROVE DInv'
  OBVIOUS
<1>. USE DEF locals, Goto, Return
<1>1. ASSUME NEW c \in Callers,
             Begin(c) \/ Hit(c) \/ Join(c) \/ Wake(c) \/ CtxDone(c)
      PROVE  DInv'
  <2>1. TypeOK' /\ UNCHANGED <<cache, inFlight>>
    BY <1>1 DEF DInv, TypeOK, Begin, Hit, Join, Wake, CtxDone
  <2>2. /\ pc[c] \notin {"resolve", "finish"} /\ pc'[c] \notin {"resolve", "finish"}
        /\ \A d \in Callers \ {c} : pc'[d] = pc[d] /\ now'[d] = now[d] /\ found'[d] = found[d]
    BY <1>1 DEF DInv, TypeOK, Begin, Hit, Join, Wake, CtxDone
  <2>3. Leaders' = Leaders /\ \A d \in Leaders : now'[d] = now[d]
    BY <2>2 DEF Leaders
  <2>4. FoundInv'
    BY <2>2 DEF DInv, FoundInv
  <2>5. TriesInv'
    BY <1>1 DEF DInv, TypeOK, TriesInv, Begin, Hit, Join, Wake, CtxDone
  <2>. QED
    BY <2>1, <2>3, <2>4, <2>5, QuietStep
<1>2. ASSUME NEW c \in Callers, Lead(c) PROVE DInv'
  BY <1>2, LeadStep
<1>3. ASSUME NEW c \in Callers, Resolve(c) PROVE DInv'
  <2>1. PICK answer \in SUBSET Addrs :
          \/ /\ Usable(answer) # {}
             /\ found' = [found EXCEPT ![c] = [addrs |-> Usable(answer), at |-> time]]
             /\ Goto(c, "finish")
             /\ UNCHANGED tries
          \/ /\ Usable(answer) = {}
             /\ tries' = [tries EXCEPT ![c] = Tried(@)]
             /\ IF MoreTries(Tried(tries[c]))
                THEN UNCHANGED <<pc, found>>
                ELSE /\ found' = [found EXCEPT ![c] = Failure]
                     /\ Goto(c, "finish")
    BY <1>3 DEF Resolve
  <2>2. [addrs |-> Usable(answer), at |-> time] \in Outcomes /\ Failure \in Outcomes
    BY DEF Usable, Outcomes, Failure, DInv, TypeOK
  <2>3. /\ pc[c] = "resolve" /\ tries[c] \in 0 .. Retries - 1
        /\ UNCHANGED <<time, cache, inFlight, now>>
    BY <1>3 DEF Resolve, DInv, TypeOK, TriesInv
  <2>4. /\ pc' \in [Callers -> {"idle", "lock", "resolve", "finish", "wait"}]
        /\ tries' \in [Callers -> 0 .. Retries]
        /\ found' \in [Callers -> Outcomes \cup {None}]
    BY <2>1, <2>2, <2>3 DEF DInv, TypeOK, Tried
  <2>5. TypeOK'
    BY <2>3, <2>4 DEF DInv, TypeOK
  <2>6. /\ \/ pc'[c] = "resolve" /\ tries'[c] < Retries
           \/ pc'[c] = "finish" /\ found'[c] \in Outcomes
        /\ \A d \in Callers \ {c} :
             pc'[d] = pc[d] /\ tries'[d] = tries[d] /\ found'[d] = found[d]
    BY <2>1, <2>2, <2>3 DEF DInv, TypeOK, Tried, MoreTries
  <2>7. FoundInv' /\ TriesInv'
    BY <2>6 DEF DInv, FoundInv, TriesInv
  <2>8. Leaders' = Leaders
    BY <2>3, <2>6 DEF Leaders
  <2>. QED
    BY <2>3, <2>5, <2>7, <2>8, QuietStep
<1>4. ASSUME NEW c \in Callers, Finish(c) PROVE DInv'
  BY <1>4, FinishStep
<1>5. CASE Tick \/ UNCHANGED vars
  <2>1. UNCHANGED <<cache, inFlight, locals>> /\ time' \in Nat
    BY <1>5 DEF Tick, vars, DInv, TypeOK
  <2>2. TypeOK'
    BY <2>1 DEF DInv, TypeOK
  <2>3. Leaders' = Leaders /\ \A c \in Leaders : now'[c] = now[c]
    BY <2>1 DEF Leaders
  <2>4. FoundInv' /\ TriesInv'
    BY <2>1 DEF DInv, FoundInv, TriesInv
  <2>. QED
    BY <2>1, <2>2, <2>3, <2>4, QuietStep
<1>. QED
  BY <1>1, <1>2, <1>3, <1>4, <1>5 DEF Next, Step

\* The inductive invariant of lookupHost.
THEOREM DnsInvariant == Spec => []DInv
  BY InitDInv, NextDInv, PTL DEF Spec

\* The types of the cache, the calls and the callers' locals, and the bound on
\* the attempts of resolveHost.
THEOREM DnsTypeCorrect == Spec => []TypeOK
<1>1. DInv => TypeOK
  BY DEF DInv
<1>. QED
  BY <1>1, DnsInvariant, PTL

\* At most one caller resolves a host, and a call is registered in dnsCalls
\* exactly while one does, for any number of callers.
THEOREM OneFlightAlways == Spec => []OneFlight
<1>1. DInv => OneFlight
  BY DEF DInv
<1>. QED
  BY <1>1, DnsInvariant, PTL

\* lookupHost stores an entry only in place of one that had expired when the
\* storing lookup began.
THEOREM CacheAdvancesAlways == Spec => CacheAdvances
<1>1. DInv /\ [Next]_vars =>
        [(cache # None /\ cache' # cache) => cache'.expires >= cache.expires + TTL]_vars
  <2>. SUFFICES ASSUME DInv, Next, cache # None, cache' # cache
                PROVE  cache'.expires >= cache.expires + TTL
    BY DEF vars
  <2>1. PICK c \in Callers : Finish(c)
    BY DEF Next, Step, Tick, Begin, Hit, Join, Lead, Resolve, Wake, CtxDone
  <2>2. c \in Leaders /\ cache' = [addrs |-> found[c].addrs, at |-> found[c].at,
                                  expires |-> now[c] + TTL]
    BY <2>1 DEF Finish, Leaders
  <2>3. cache.expires <= now[c] /\ cache.expires \in Nat /\ now[c] \in Nat
    BY <2>2 DEF DInv, TypeOK, Entries, ExpiredInv, Leaders
  <2>. QED
    BY <2>2, <2>3
<1>. QED
  BY <1>1, DnsInvariant, PTL DEF Spec, CacheAdvances

\* No caller's clock is ahead, an answer arrives after its lookup began, and an
\* entry expires no later than its time to live after its answer arrived.
FreshInv ==
    /\ \A c \in Callers : now[c] <= time
    /\ \A c \in Callers :
         pc[c] = "finish" /\ found[c] # Failure => now[c] <= found[c].at
    /\ cache # None => cache.expires <= cache.at + TTL

LEMMA InitFresh == Init => FreshInv
  BY DEF Init, FreshInv

LEMMA NextFresh == DInv /\ FreshInv /\ [Next]_vars => FreshInv'
<1>. SUFFICES ASSUME DInv, FreshInv, [Next]_vars PROVE FreshInv'
  OBVIOUS
<1>. USE DEF locals, Goto, Return
<1>1. ASSUME NEW c \in Callers,
             Begin(c) \/ Hit(c) \/ Join(c) \/ Lead(c) \/ Wake(c) \/ CtxDone(c)
      PROVE  FreshInv'
  BY <1>1 DEF DInv, TypeOK, FreshInv, Begin, Hit, Join, Lead, Wake, CtxDone
<1>2. ASSUME NEW c \in Callers, Resolve(c) PROVE FreshInv'
  <2>1. /\ UNCHANGED <<time, cache, now>>
        /\ \A d \in Callers \ {c} : pc'[d] = pc[d] /\ found'[d] = found[d]
        /\ pc'[c] = "finish" => found'[c] = Failure \/ found'[c].at = time
    BY <1>2 DEF DInv, TypeOK, Resolve
  <2>. QED
    BY <2>1 DEF DInv, TypeOK, FreshInv
<1>3. ASSUME NEW c \in Callers, Finish(c) PROVE FreshInv'
  <2>1. now' \in [Callers -> Nat] /\ \A d \in Callers : now'[d] <= time'
    BY <1>3 DEF DInv, TypeOK, FreshInv, Finish
  <2>2. \A d \in Callers : pc'[d] # "finish"
    <3>1. Leaders = {c}
      BY <1>3 DEF DInv, OneFlight, Leaders, Finish
    <3>. QED
      BY <1>3, <3>1 DEF DInv, TypeOK, Leaders, Finish
  <2>3. cache' # None => cache'.expires <= cache'.at + TTL
    BY <1>3 DEF DInv, TypeOK, FreshInv, FoundInv, Finish, Outcomes
  <2>. QED
    BY <2>1, <2>2, <2>3 DEF FreshInv
<1>4. CASE Tick \/ UNCHANGED vars
  BY <1>4 DEF Tick, vars, DInv, TypeOK, FreshInv
<1>. QED
  BY <1>1, <1>2, <1>3, <1>4 DEF Next, Step

\* lookupHost serves nobody an answer that was older than dnsCacheTTL when the
\* caller came, however long the lookup that stored it took.
THEOREM ServedFreshAlways == Spec => ServedFresh
<1>1. DInv /\ FreshInv /\ [Next]_vars =>
        [\A c \in Callers : Hit(c) => now[c] < cache.at + TTL]_vars
  <2>. SUFFICES ASSUME DInv, FreshInv, NEW c \in Callers, Hit(c)
                PROVE  now[c] < cache.at + TTL
    OBVIOUS
  <2>1. cache # None /\ now[c] < cache.expires
    BY DEF Hit, Valid
  <2>2. cache.expires \in Nat /\ cache.at \in Nat /\ now[c] \in Nat
    BY <2>1 DEF DInv, TypeOK, Entries
  <2>. QED
    BY <2>1, <2>2 DEF FreshInv
<1>. QED
  BY <1>1, DnsInvariant, InitFresh, NextFresh, PTL DEF Spec, ServedFresh
=============================================================================
