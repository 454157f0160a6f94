----------------------------- MODULE TunnelKick -----------------------------
(***************************************************************************)
(* How a failing request makes the tunnel rotate: the generation counter,  *)
(* the swap channel and the kick channel of MixedProxy (corplink/proxy.go) *)
(* with the refresher loop that listens to it (vpnmgr/connect.go).         *)
(*                                                                         *)
(* A request reads the generation, dials through whatever tunnel is        *)
(* current a little later, and may fail on it at any time: because the     *)
(* gateway cut it, because routes still converge, because the host is      *)
(* down.  It then kicks the refresher, when it has evidence, and waits for *)
(* the next generation.  Which tunnel it dialed through is left out: the   *)
(* kick names the generation that is current when kickRefresh runs.  Time  *)
(* since the last rotation is one of three ages, ordered by the two        *)
(* coalescing floors.                                                      *)
(***************************************************************************)
EXTENDS Naturals, FiniteSets

CONSTANTS
    Requests,   \* requests in flight
    MaxGen      \* bound of the number of rotations

ASSUME KickAssumption == MaxGen \in Nat

VARIABLES
    gen,          \* p.tunGen
    lastKickGen,  \* p.lastKickGen
    kickCh,       \* p.refreshKick: nil, empty or full
    hostLive,     \* p.hostWasLive of the host the requests want
    refresher,    \* where runRefresher is
    age,          \* time since m.lastRefreshAt
    pc,           \* where each request is
    rgen,         \* the generation it read before its attempt
    kgen,         \* the generation it sends a kick for
    got,          \* requests that have bytes of their response
    kicks         \* history: generations kicked, once and twice

chans == <<gen, lastKickGen, kickCh>>
reqs == <<pc, rgen, kgen, got>>
vars == <<gen, lastKickGen, kickCh, hostLive, refresher, age,
          pc, rgen, kgen, got, kicks>>

Gens == 0 .. MaxGen
Ages == {"new", "young", "old"}

\* NewMixedProxy: both generation counters start from their zero value; the
\* manager's lastRefreshAt is its zero value or an earlier connection's.
Init ==
    /\ gen = 0
    /\ lastKickGen = 0
    /\ kickCh = "nil"
    /\ hostLive = FALSE
    /\ refresher = "start"
    /\ age \in Ages
    /\ pc = [r \in Requests |-> "idle"]
    /\ rgen = [r \in Requests |-> 0]
    /\ kgen = [r \in Requests |-> 0]
    /\ got = {}
    /\ kicks = [g \in Gens |-> 0]

Goto(r, next) == pc' = [pc EXCEPT ![r] = next]

\* A local variable goes out of scope.
Drop(f, r) == [f EXCEPT ![r] = 0]

Return(r) ==
    /\ Goto(r, "idle")
    /\ rgen' = Drop(rgen, r)
    /\ got' = got \ {r}

-----------------------------------------------------------------------------
(***************************************************************************)
(* Requests: handleForward's loop and dialContext's.                       *)
(***************************************************************************)
\* gen, _ := p.tunnelGen(), at the top of an attempt; a new request may start
\* from the stored prefix of its asset.
ReadGen(r) ==
    /\ pc[r] \in {"idle", "again"}
    /\ rgen' = [rgen EXCEPT ![r] = gen]
    /\ \/ got' = got
       \/ pc[r] = "idle" /\ got' = got \cup {r}
    /\ Goto(r, "busy")
    /\ UNCHANGED <<chans, hostLive, refresher, age, kgen, kicks>>

\* The dial succeeds (markHostLive); the response may still stall.
DialOK(r) ==
    /\ pc[r] = "busy"
    /\ hostLive' = TRUE
    /\ got' \in {got, got \cup {r}}
    /\ UNCHANGED <<chans, refresher, age, pc, rgen, kgen, kicks>>

\* The request is served, or it fails for good: no retry, no kick.
Finish(r) ==
    /\ pc[r] = "busy"
    /\ Return(r)
    /\ UNCHANGED <<chans, hostLive, refresher, age, kgen, kicks>>

\* The attempt times out or stalls.
Fail(r) ==
    /\ pc[r] = "busy"
    /\ Goto(r, "failed")
    /\ UNCHANGED <<chans, hostLive, refresher, age, rgen, kgen, got, kicks>>

\* recentDialTTL passes without a successful dial.
HostForgotten ==
    /\ hostLive
    /\ hostLive' = FALSE
    /\ UNCHANGED <<chans, refresher, age, reqs, kicks>>

\* The destination itself works: it gave bytes, or was dialed not long ago.
Evidence(r) == hostLive \/ r \in got

\* Without evidence there is no kick: the host may just be unreachable.
NoEvidence(r) ==
    /\ pc[r] = "failed"
    /\ ~Evidence(r)
    /\ Goto(r, "wait")
    /\ UNCHANGED <<chans, hostLive, refresher, age, rgen, kgen, got, kicks>>

\* Faulty: generations are not compared.
Suppressed_Never == kickCh = "nil"

\* kickRefresh does nothing: nobody listens, or this generation was kicked.
Suppressed == kickCh = "nil" \/ lastKickGen = gen

\* The generation that kickRefresh marks as kicked.
Marked == gen

\* The critical section of kickRefresh.
KickRefresh(r) ==
    /\ pc[r] = "failed"
    /\ Evidence(r)
    /\ \/ /\ Suppressed
          /\ Goto(r, "wait")
          /\ UNCHANGED <<lastKickGen, kgen>>
       \/ /\ ~Suppressed
          /\ lastKickGen' = Marked
          /\ kgen' = [kgen EXCEPT ![r] = gen]
          /\ Goto(r, "send")
    /\ UNCHANGED <<gen, kickCh, hostLive, refresher, age, rgen, got, kicks>>

\* Faulty: the send waits for room in the channel.
CanSend_Blocking == kickCh = "empty"

\* The select has a default: a send never waits.
CanSend == TRUE

\* The send itself, outside the lock; a full channel keeps its one kick.
SendKick(r) ==
    /\ pc[r] = "send"
    /\ CanSend
    /\ kickCh' = "full"
    /\ kicks' = [kicks EXCEPT ![kgen[r]] = IF @ < 2 THEN @ + 1 ELSE @]
    /\ kgen' = Drop(kgen, r)
    /\ Goto(r, "wait")
    /\ UNCHANGED <<gen, lastKickGen, hostLive, refresher, age, rgen, got>>

\* waitTunnelSwap: compare, or block on the channel read in the same section;
\* dialContext only pauses and takes a new snapshot.
WaitTunnelSwap(r) ==
    /\ pc[r] = "wait"
    /\ \/ gen # rgen[r] /\ Goto(r, "again")
       \/ gen = rgen[r] /\ Goto(r, "blocked")
    /\ UNCHANGED <<chans, hostLive, refresher, age, rgen, kgen, got, kicks>>

\* The swap channel is closed, forwardSwapWait passes, or the proxy closes.
Wakes(r) ==
    /\ pc[r] = "blocked"
    /\ Goto(r, "again")
    /\ UNCHANGED <<chans, hostLive, refresher, age, rgen, kgen, got, kicks>>

\* The attempts or the dial budget are used up.
GiveUp(r) ==
    /\ pc[r] = "again"
    /\ Return(r)
    /\ UNCHANGED <<chans, hostLive, refresher, age, kgen, kicks>>

-----------------------------------------------------------------------------
(***************************************************************************)
(* The refresher.                                                          *)
(***************************************************************************)
\* RefreshKick makes the channel on the first call.
Subscribe ==
    /\ refresher = "start"
    /\ refresher' = "select"
    /\ kickCh' = IF kickCh = "nil" THEN "empty" ELSE kickCh
    /\ UNCHANGED <<gen, lastKickGen, hostLive, age, reqs, kicks>>

TakeKick ==
    /\ refresher = "select"
    /\ kickCh = "full"
    /\ kickCh' = "empty"
    /\ refresher' = "kicked"
    /\ UNCHANGED <<gen, lastKickGen, hostLive, age, reqs, kicks>>

Tick ==
    /\ refresher = "select"
    /\ refresher' = "ticked"
    /\ UNCHANGED <<chans, hostLive, age, reqs, kicks>>

\* minKickRefreshInterval for a kick, minRefreshInterval for the timer.
Coalesced == age = "new" \/ (age = "young" /\ refresher = "ticked")

\* refreshTunnelKicked returns without a new tunnel: coalesced, or it failed.
NoRotation ==
    /\ refresher \in {"kicked", "ticked"}
    /\ refresher' = "select"
    /\ UNCHANGED <<chans, hostLive, age, reqs, kicks>>

\* A new tunnel is built, probed and swapped in (SetTunnel).
Rotate ==
    /\ refresher \in {"kicked", "ticked"}
    /\ ~Coalesced
    /\ gen < MaxGen
    /\ gen' = gen + 1
    /\ refresher' = "select"
    /\ age' = "new"
    /\ UNCHANGED <<lastKickGen, kickCh, hostLive, reqs, kicks>>

\* The loops' context is cancelled.
StopRefresher ==
    /\ refresher = "select"
    /\ refresher' = "off"
    /\ UNCHANGED <<chans, hostLive, age, reqs, kicks>>

TimePasses ==
    /\ age # "old"
    /\ age' = IF age = "new" THEN "young" ELSE "old"
    /\ UNCHANGED <<chans, hostLive, refresher, reqs, kicks>>

Handle(r) ==
    \/ Finish(r) \/ Fail(r) \/ NoEvidence(r) \/ KickRefresh(r)
    \/ SendKick(r) \/ WaitTunnelSwap(r) \/ Wakes(r) \/ GiveUp(r)

Refresher == Subscribe \/ TakeKick \/ Tick \/ NoRotation \/ Rotate

Next ==
    \/ \E r \in Requests : Handle(r) \/ ReadGen(r) \/ DialOK(r)
    \/ Refresher \/ StopRefresher \/ HostForgotten \/ TimePasses

Spec == Init /\ [][Next]_vars

\* Requests run; every wait of theirs has a timeout.
FairSpec == Spec /\ \A r \in Requests : WF_vars(Handle(r))

-----------------------------------------------------------------------------
\* Every generation a goroutine or lastKickGen names has existed.
TypeOK ==
    /\ gen \in Gens
    /\ lastKickGen \in Gens
    /\ kickCh \in {"nil", "empty", "full"}
    /\ hostLive \in BOOLEAN
    /\ refresher \in {"start", "select", "kicked", "ticked", "off"}
    /\ age \in Ages
    /\ pc \in [Requests -> {"idle", "again", "busy", "failed",
                            "send", "wait", "blocked"}]
    /\ rgen \in [Requests -> Gens]
    /\ kgen \in [Requests -> Gens]
    /\ got \subseteq Requests
    /\ kicks \in [Gens -> 0 .. 2]

\* However many requests fail on a generation, and however their kicks
\* interleave with a swap, kickRefresh fires at most once per generation.
OneKickPerGen == \A g \in Gens : kicks[g] <= 1

\* A failed request always comes back to another attempt or ends, also when
\* the refresher is busy, gone, or has a kick it never took: kickRefresh does
\* not block.
RequestsMoveOn ==
    \A r \in Requests : pc[r] = "failed" ~> pc[r] \in {"again", "idle"}

\* A rotation is on its way: a kick is being sent, is pending or is served.
OnItsWay ==
    \/ \E r \in Requests : pc[r] = "send"
    \/ kickCh = "full"
    \/ refresher \in {"kicked", "ticked"}

\* kickRefresh drops a kick for a generation only once a rotation is on its
\* way, so a request that proves the tunnel dead never waits for the timer.
SuppressedOnlyWhenKicked ==
    \A r \in Requests :
        (pc[r] = "failed" /\ Evidence(r) /\ kickCh # "nil" /\ Suppressed) => OnItsWay
=============================================================================
