----------------------------- MODULE DnsLookup -----------------------------
(***************************************************************************)
(* Name resolution of the mixed proxy (corplink/proxy.go, lookupHost): a   *)
(* cache with a time to live, and one lookup in flight per host that all   *)
(* callers share.  Hosts are independent, so there is one.                 *)
(*                                                                         *)
(* p.dnsMu is not held while the resolver works, and a caller reads the    *)
(* clock before it takes the lock: it may be suspended in between, while   *)
(* others resolve and the entry they store expires.                        *)
(***************************************************************************)
EXTENDS Naturals, FiniteSets

CONSTANTS
    Callers,   \* goroutines inside dialOnce
    Addrs,     \* addresses the resolver may return
    FakeIPs,   \* those in 198.18.0.0/15, which isBenchmarkFakeIP drops
    TTL,       \* dnsCacheTTL
    Retries,   \* dnsLookupRetries
    MaxTime,   \* bound of the clock
    None       \* no entry, no result yet

ASSUME DnsAssumption ==
    /\ FakeIPs \subseteq Addrs
    /\ {TTL, Retries} \subseteq Nat \ {0}
    /\ MaxTime \in Nat

VARIABLES
    time,      \* the clock
    cache,     \* p.dnsCache[host]
    inFlight,  \* p.dnsCalls has a call for the host
    pc,        \* where each caller is
    now,       \* the time it read at the start
    tries,     \* attempts of its resolveHost
    found      \* what resolveHost found, or the call left for a follower

locals == <<pc, now, tries, found>>
vars == <<time, cache, inFlight, locals>>

Init ==
    /\ time = 0
    /\ cache = None
    /\ inFlight = FALSE
    /\ pc = [c \in Callers |-> "idle"]
    /\ now = [c \in Callers |-> 0]
    /\ tries = [c \in Callers |-> 0]
    /\ found = [c \in Callers |-> None]

\* A lookup that failed has no addresses.
Failure == [addrs |-> {}, at |-> 0]

Goto(c, next) == pc' = [pc EXCEPT ![c] = next]

\* lookupHost returns and its locals are gone.
Return(c) ==
    /\ Goto(c, "idle")
    /\ now' = [now EXCEPT ![c] = 0]
    /\ tries' = [tries EXCEPT ![c] = 0]

-----------------------------------------------------------------------------
\* now := time.Now(), before the lock.
Begin(c) ==
    /\ pc[c] = "idle"
    /\ Goto(c, "lock")
    /\ now' = [now EXCEPT ![c] = time]
    /\ UNCHANGED <<time, cache, inFlight, tries, found>>

\* Faulty: an entry never expires.
Valid_Always(c) == cache # None

\* The entry had not expired when the caller read the clock.
Valid(c) == cache # None /\ now[c] < cache.expires

Hit(c) ==
    /\ pc[c] = "lock"
    /\ Valid(c)
    /\ Return(c)
    /\ UNCHANGED <<time, cache, inFlight, found>>

\* A call is in flight: wait for it.
Join(c) ==
    /\ pc[c] = "lock"
    /\ ~Valid(c)
    /\ inFlight
    /\ Goto(c, "wait")
    /\ UNCHANGED <<time, cache, inFlight, now, tries, found>>

\* Faulty: the call in flight is not looked for.
MayLead_Unshared(c) == ~Valid(c)

\* Neither an entry nor a call: this caller resolves for all.
MayLead(c) == ~Valid(c) /\ ~inFlight

Lead(c) ==
    /\ pc[c] = "lock"
    /\ MayLead(c)
    /\ inFlight' = TRUE
    /\ Goto(c, "resolve")
    /\ UNCHANGED <<time, cache, now, tries, found>>

\* The addresses of an answer that resolveHost keeps.
Usable(answer) == answer \ FakeIPs

\* Faulty: the count of attempts starts over.
Tried_StartsOver(n) == IF n = 0 THEN 1 ELSE 0

\* The attempts made, with the one that just failed.
Tried(n) == n + 1

\* resolveHost tries again after n attempts.
MoreTries(n) == n < Retries

\* One attempt of resolveHost; an error of the resolver, the end of the
\* context included, is an answer without addresses.
Resolve(c) ==
    /\ pc[c] = "resolve"
    /\ \E answer \in SUBSET Addrs :
         \/ /\ Usable(answer) # {}
            /\ found' = [found EXCEPT ![c] = [addrs |-> Usable(answer), at |-> time]]
            /\ Goto(c, "finish")
            /\ UNCHANGED tries
         \/ /\ Usable(answer) = {}
            /\ tries' = [tries EXCEPT ![c] = Tried(@)]
            /\ IF MoreTries(Tried(tries[c]))
               THEN UNCHANGED <<pc, found>>
               ELSE /\ found' = [found EXCEPT ![c] = Failure]
                    /\ Goto(c, "finish")
    /\ UNCHANGED <<time, cache, inFlight, now>>

\* Faulty: a failed call stays registered.
Registered_OnError(c) == found[c] = Failure

\* Whether the call is still registered once the leader is through with it.
Registered(c) == FALSE

\* The last critical section: store a success, hand the outcome to those who
\* wait for this call, unregister it.
Finish(c) ==
    /\ pc[c] = "finish"
    /\ cache' = IF found[c] = Failure THEN cache
                ELSE [addrs |-> found[c].addrs, at |-> found[c].at,
                      expires |-> now[c] + TTL]
    /\ inFlight' = Registered(c)
    /\ Return(c)
    /\ found' = [f \in Callers |->
                    IF f = c THEN None
                    ELSE IF pc[f] = "wait" /\ found[f] = None THEN found[c]
                    ELSE found[f]]
    /\ UNCHANGED time

\* The call a follower waits for is done.
Wake(c) ==
    /\ pc[c] = "wait"
    /\ found[c] # None
    /\ Return(c)
    /\ found' = [found EXCEPT ![c] = None]
    /\ UNCHANGED <<time, cache, inFlight>>

\* A follower's own context ends first.
CtxDone(c) ==
    /\ pc[c] = "wait"
    /\ Return(c)
    /\ found' = [found EXCEPT ![c] = None]
    /\ UNCHANGED <<time, cache, inFlight>>

Tick ==
    /\ time < MaxTime
    /\ time' = time + 1
    /\ UNCHANGED <<cache, inFlight, locals>>

Step(c) ==
    \/ Hit(c) \/ Join(c) \/ Lead(c) \/ Resolve(c) \/ Finish(c)
    \/ Wake(c) \/ CtxDone(c)

Next == Tick \/ \E c \in Callers : Begin(c) \/ Step(c)

Spec == Init /\ [][Next]_vars

\* Goroutines run, and the attempt's context bounds each wait.
FairSpec == Spec /\ \A c \in Callers : WF_vars(Step(c))

-----------------------------------------------------------------------------
Outcomes == [addrs : SUBSET Addrs, at : Nat]
Entries == [addrs : SUBSET Addrs, at : Nat, expires : Nat]

TypeOK ==
    /\ time \in Nat
    /\ cache \in Entries \cup {None}
    /\ inFlight \in BOOLEAN
    /\ pc \in [Callers -> {"idle", "lock", "resolve", "finish", "wait"}]
    /\ now \in [Callers -> Nat]
    /\ tries \in [Callers -> 0 .. Retries]
    /\ found \in [Callers -> Outcomes \cup {None}]

Leaders == {c \in Callers : pc[c] \in {"resolve", "finish"}}

\* At most one caller resolves the host, and a call is registered exactly
\* while one does: a call left behind by a failed lookup would answer every
\* later caller with its error.
OneFlight ==
    /\ \A c, d \in Leaders : c = d
    /\ inFlight <=> Leaders # {}

\* lookupHost never replaces an entry by one that was asked for before the
\* entry expired, although callers read the clock long before they store.
CacheAdvances ==
    [][(cache # None /\ cache' # cache) => cache'.expires >= cache.expires + TTL]_vars

\* No caller is served an answer that was older than dnsCacheTTL when it
\* arrived, however long the lookup that stored it took.
ServedFresh ==
    [][\A c \in Callers : Hit(c) => now[c] < cache.at + TTL]_vars

\* Every lookup returns, leader or follower, however the resolver fails.
LookupsReturn == \A c \in Callers : pc[c] # "idle" ~> pc[c] = "idle"
=============================================================================
