------------------------------ MODULE Rotation ------------------------------
(***************************************************************************)
(* When a tunnel is rotated: the refresher's timer and kicks, the sampler  *)
(* and the stall watchdog of one connection (vpnmgr/connect.go), in        *)
(* discrete time.  Instants are kept as ages; one unit is the sampler's    *)
(* period, and the traffic of a unit precedes its sample.  A goroutine     *)
(* that can run does so within the unit (Prompt): every interval the code  *)
(* compares is far longer than a scheduling delay.                         *)
(* Disconnects and state checks are the subject of ConnManager; here the   *)
(* connection stays up until the watchdog hands over to reconnect.         *)
(***************************************************************************)
EXTENDS Integers

CONSTANTS
    KickFloor,       \* minKickRefreshInterval
    Floor,           \* minRefreshInterval
    RefreshAfter,    \* tunnelRefreshAfter
    StallAfter,      \* rxStallAfter
    WatchEvery,      \* period of runHandshakeWatch
    BuildMax,        \* timeout of one build, handshake and probes included
    HandshakeStale   \* handshakeStaleAfter

ASSUME RotationAssumption ==
    /\ {KickFloor, Floor, RefreshAfter, StallAfter, WatchEvery, BuildMax,
        HandshakeStale} \subseteq Nat \ {0}
    /\ KickFloor < Floor /\ Floor < RefreshAfter /\ RefreshAfter < StallAfter
    /\ StallAfter + BuildMax < HandshakeStale
    /\ StallAfter + WatchEvery < HandshakeStale

Never == -1
AgeBound == RefreshAfter + Floor + BuildMax
Cap == HandshakeStale + 1
DetectAfter == StallAfter + WatchEvery + 1

VARIABLES
    tAge,      \* age of m.tunnelSince
    refAge,    \* age of m.lastRefreshAt
    outAt,     \* age of the later of m.appTxAt and m.dialAt
    appRxAt,   \* age of m.appRxAt
    hs,        \* m.lastHandshake: zero, within handshakeStaleAfter, or older
    moved,     \* what m.device saw since the last sample: "out" bytes or dials, "in"
    due,       \* the sampler has yet to run in this unit
    timers,    \* time to the next tick of the refresher's and watchdog's tickers
    ticks,     \* tickers whose channel holds a tick
    kick,      \* the kick channel: "none", or the tunnel that kick is evidence on
    kicked,    \* lastKickGen = tunGen
    pc,        \* where the refresher and the watchdog are
    evid,      \* the tunnel each one's trigger is evidence on
    lock,      \* holder of refreshMu
    building,  \* elapsed time of the build that the holder makes
    quiet,     \* history: time without inbound bytes on this tunnel
    load,      \* history: units in a row with outbound demand
    built      \* history: is there a tunnel before this one, has a build failed since

stats == <<outAt, appRxAt, hs, moved, due>>
hist == <<quiet, load>>
vars == <<tAge, refAge, stats, timers, ticks, kick, kicked, pc, evid, lock,
          building, hist, built>>

Loops == {"refresher", "watchdog"}
Period(l) == IF l = "refresher" THEN RefreshAfter ELSE WatchEvery
Older(a, cap) == IF a = Never \/ a >= cap THEN a ELSE a + 1
Goto(l, next) == pc' = [pc EXCEPT ![l] = next]

\* connectReal has just published a connection and started its loops; the
\* manager's lastRefreshAt may be that of an earlier connection.  A new proxy's
\* lastKickGen and tunGen are both zero.
Init ==
    /\ tAge = 0
    /\ refAge \in 0 .. Floor
    /\ outAt = Never
    /\ appRxAt = Never
    /\ hs = "never"
    /\ moved = {}
    /\ due = FALSE
    /\ timers = [l \in Loops |-> Period(l)]
    /\ ticks = {}
    /\ kick = "none"
    /\ kicked = TRUE
    /\ pc = [l \in Loops |-> "select"]
    /\ evid = [l \in Loops |-> "none"]
    /\ lock = "free"
    /\ building = 0
    /\ quiet = 0
    /\ load = 0
    /\ built = {}

-----------------------------------------------------------------------------
(***************************************************************************)
(* The proxy and the gateway.                                              *)
(***************************************************************************)
\* Bytes of proxied connections (countingConn), dials (MarkDialActivity).
Traffic(way) ==
    /\ due /\ way \notin moved
    /\ moved' = moved \cup {way}
    /\ quiet' = IF way = "in" THEN 0 ELSE quiet
    /\ UNCHANGED <<tAge, refAge, outAt, appRxAt, hs, due, timers, ticks, kick,
                   kicked, pc, evid, lock, building, load, built>>

\* kickRefresh: a request failed on the tunnel it uses, which may be one that
\* is draining; one kick a generation, the channel holds one.
KickRefresh(on) ==
    /\ ~kicked
    /\ on = "drain" => "swapped" \in built
    /\ kicked' = TRUE
    /\ kick' = IF kick = "none" THEN on ELSE kick
    /\ UNCHANGED <<tAge, refAge, stats, timers, ticks, pc, evid, lock, building,
                   hist, built>>

-----------------------------------------------------------------------------
\* When inbound bytes were last seen to advance.
SampledRx == IF "in" \in moved THEN 0 ELSE appRxAt

\* sampleOnce.  The handshake time is the gateway's; it is at most BuildMax
\* older than the installed tunnel, and zero when the UAPI cannot be read.
SampleOnce ==
    /\ due
    /\ due' = FALSE
    /\ outAt' = IF "out" \in moved THEN 0 ELSE outAt
    /\ appRxAt' = SampledRx
    /\ moved' = {}
    /\ hs' \in {"never", "fresh"}
              \cup (IF tAge + BuildMax > HandshakeStale THEN {"stale"} ELSE {})
    /\ UNCHANGED <<tAge, refAge, timers, ticks, kick, kicked, pc, evid,
                   lock, building, hist, built>>

-----------------------------------------------------------------------------
(***************************************************************************)
(* reconnectReason.                                                        *)
(***************************************************************************)
HandshakeDead ==
    \/ hs = "never" /\ tAge > HandshakeStale
    \/ hs = "stale"

within(age) == age # Never /\ age < StallAfter

RecentDemand == within(outAt)

\* Faulty: a tunnel that never received anything is not silent.
InboundSilent_Zero == IF appRxAt = Never THEN 0 ELSE appRxAt

\* Silence lasts from the last inbound bytes, or the start of the tunnel.
InboundSilent == IF appRxAt = Never THEN tAge ELSE appRxAt

\* Dead under load.
Stalled == RecentDemand /\ InboundSilent > StallAfter

\* One turn of runHandshakeWatch: the verdict is formed from one snapshot.
Judge ==
    /\ pc["watchdog"] = "select"
    /\ "watchdog" \in ticks
    /\ ticks' = ticks \ {"watchdog"}
    /\ IF HandshakeDead \/ Stalled
         THEN /\ Goto("watchdog", IF HandshakeDead THEN "stale" ELSE "dead")
              /\ evid' = [evid EXCEPT !["watchdog"] = "this"]
         ELSE UNCHANGED <<pc, evid>>
    /\ UNCHANGED <<tAge, refAge, stats, timers, kick, kicked, lock, building, hist, built>>

-----------------------------------------------------------------------------
(***************************************************************************)
(* runRefresher and refreshTunnelKicked.                                   *)
(***************************************************************************)
TakeKick ==
    /\ pc["refresher"] = "select"
    /\ kick # "none"
    /\ kick' = "none"
    /\ evid' = [evid EXCEPT !["refresher"] = kick]
    /\ Goto("refresher", "kicked")
    /\ UNCHANGED <<tAge, refAge, stats, timers, ticks, kicked, lock, building, hist, built>>

TakeTick ==
    /\ pc["refresher"] = "select"
    /\ "refresher" \in ticks
    /\ ticks' = ticks \ {"refresher"}
    /\ Goto("refresher", "ticked")
    /\ UNCHANGED <<tAge, refAge, stats, timers, kick, kicked, evid, lock, building, hist, built>>

Waiting == {"kicked", "ticked", "stale", "dead"}

\* Faulty: the floor of periodic refreshes is longer than their period.
LowerBound_Long(l) == IF pc[l] = "kicked" THEN KickFloor ELSE 2 * RefreshAfter + 1

\* The shortest time between two rotations.
LowerBound(l) == IF pc[l] = "kicked" THEN KickFloor ELSE Floor

\* Faulty: nothing is coalesced.
Coalesced_Never(l) == FALSE

\* Right after a swap, a refresh that waited for it does nothing.
Coalesced(l) == refAge < LowerBound(l)

\* A kick that ends without an error restarts the periodic timer.
Restarts(l) == l = "refresher" /\ pc[l] = "kicked"

\* The loop goes back to its select.
Return(l) ==
    /\ Goto(l, "select")
    /\ evid' = [evid EXCEPT ![l] = "none"]

ResetTicker(reset) ==
    /\ timers' = IF reset THEN [timers EXCEPT !["refresher"] = RefreshAfter] ELSE timers
    /\ ticks' = IF reset THEN ticks \ {"refresher"} ELSE ticks

Coalesce(l) ==
    /\ pc[l] \in Waiting
    /\ lock = "free"
    /\ Coalesced(l)
    /\ Return(l)
    /\ ResetTicker(Restarts(l))
    /\ UNCHANGED <<tAge, refAge, stats, kick, kicked, lock, building, hist, built>>

Enter(l) ==
    /\ pc[l] \in Waiting
    /\ lock = "free"
    /\ ~Coalesced(l)
    /\ lock' = l
    /\ building' = 0
    /\ UNCHANGED <<tAge, refAge, stats, timers, ticks, kick, kicked, pc, evid,
                   hist, built>>

\* Faulty: the traffic of the previous tunnel stays.
ResetTunnelStats_KeepsTraffic ==
    /\ tAge' = 0
    /\ UNCHANGED <<outAt, appRxAt>>
    /\ hs' = "never"

\* resetTunnelStatsLocked.
ResetTunnelStats ==
    /\ tAge' = 0
    /\ outAt' = Never
    /\ appRxAt' = Never
    /\ hs' = "never"

\* Evidence on a tunnel that is no longer the current one.
Outdated(on) == IF on \in {"this", "drain"} THEN "old" ELSE on

\* buildLiveTunnel succeeds; SetTunnel, the report and the installation.  The
\* new device may have carried traffic while the report was sent.
Swap(l) ==
    /\ lock = l
    /\ lock' = "free"
    /\ building' = 0
    /\ ResetTunnelStats
    /\ refAge' = 0
    /\ moved' \in {{}, {"out"}, {"out", "in"}}
    /\ quiet' = 0
    /\ load' = 0
    /\ built' = {"swapped"}
    /\ kicked' = FALSE
    /\ kick' = Outdated(kick)
    /\ Goto(l, "select")
    /\ evid' = [x \in Loops |-> IF x = l THEN "none" ELSE Outdated(evid[x])]
    /\ ResetTicker(Restarts(l))
    /\ UNCHANGED due

\* The refresher only logs a failed build.
RefreshFails ==
    /\ lock = "refresher"
    /\ lock' = "free"
    /\ building' = 0
    /\ built' = built \cup {"failed"}
    /\ Return("refresher")
    /\ UNCHANGED <<tAge, refAge, stats, timers, ticks, kick, kicked, hist>>

\* The watchdog then starts reconnect and ends; reconnect's teardown ends the
\* refresher, and a new connection has new loops.
Reconnect ==
    /\ lock = "watchdog"
    /\ ResetTunnelStats
    /\ lock' = "free"
    /\ building' = 0
    /\ moved' = {}
    /\ due' = FALSE
    /\ timers' = [l \in Loops |-> Period(l)]
    /\ ticks' = {}
    /\ kick' = "none"
    /\ kicked' = TRUE
    /\ pc' = [l \in Loops |-> "select"]
    /\ evid' = [l \in Loops |-> "none"]
    /\ quiet' = 0
    /\ load' = 0
    /\ built' = {}
    /\ UNCHANGED refAge

-----------------------------------------------------------------------------
(***************************************************************************)
(* Time.                                                                   *)
(***************************************************************************)
\* No loop can take a step, and no build is at its timeout.
Prompt ==
    /\ ~due
    /\ \A l \in Loops :
         /\ pc[l] = "select" => l \notin ticks /\ ~(l = "refresher" /\ kick # "none")
         /\ pc[l] \in Waiting => lock # "free"
    /\ lock # "free" => building < BuildMax

Demand == "out" \in moved \/ outAt = 0

Tick ==
    /\ Prompt
    /\ tAge' = Older(tAge, Cap)
    /\ refAge' = Older(refAge, Floor)
    /\ outAt' = Older(outAt, StallAfter)
    /\ appRxAt' = Older(appRxAt, StallAfter + 1)
    /\ due' = TRUE
    /\ timers' = [l \in Loops |-> IF timers[l] = 1 THEN Period(l) ELSE timers[l] - 1]
    /\ ticks' = ticks \cup {l \in Loops : timers[l] = 1}
    /\ building' = IF lock = "free" THEN 0 ELSE building + 1
    /\ quiet' = Older(quiet, DetectAfter + 1)
    /\ load' = IF Demand THEN Older(load, WatchEvery + 2) ELSE 0
    /\ UNCHANGED <<hs, moved, kick, kicked, pc, evid, lock, built>>

Next ==
    \/ \E way \in {"out", "in"} : Traffic(way)
    \/ \E on \in {"this", "drain"} : KickRefresh(on)
    \/ \E l \in Loops : Coalesce(l) \/ Enter(l) \/ Swap(l)
    \/ SampleOnce \/ Judge \/ TakeKick \/ TakeTick
    \/ RefreshFails \/ Reconnect \/ Tick

Spec == Init /\ [][Next]_vars

-----------------------------------------------------------------------------
\* Ages stay in the ranges the decisions distinguish; only a loop that waits
\* for refreshMu or holds it has evidence, and the channel keeps one kick.
TypeOK ==
    /\ tAge \in 0 .. Cap
    /\ refAge \in 0 .. Floor
    /\ outAt \in Never .. StallAfter
    /\ appRxAt \in Never .. StallAfter + 1
    /\ hs \in {"never", "fresh", "stale"}
    /\ moved \subseteq {"out", "in"}
    /\ due \in BOOLEAN /\ kicked \in BOOLEAN
    /\ timers \in [Loops -> Nat \ {0}] /\ \A l \in Loops : timers[l] <= Period(l)
    /\ ticks \subseteq Loops
    /\ kick \in {"none", "this", "drain", "old"}
    /\ pc \in [Loops -> {"select"} \cup Waiting]
    /\ pc["refresher"] \notin {"stale", "dead"} /\ pc["watchdog"] \notin {"ticked", "kicked"}
    /\ lock \in Loops \cup {"free"}
    /\ evid \in [Loops -> {"none", "this", "drain", "old"}]
    /\ \A l \in Loops : pc[l] = "select" => evid[l] = "none" /\ lock # l
    /\ building \in 0 .. BuildMax
    /\ quiet \in 0 .. DetectAfter + 1 /\ quiet <= tAge
    /\ load \in 0 .. WatchEvery + 2
    /\ built \subseteq {"swapped", "failed"}

\* The watchdog calls a tunnel dead under load only when it really has had no
\* inbound bytes for rxStallAfter since it became the current one, up to the
\* last sample: not a tunnel just swapped in for the silence of the one before
\* it, and not one that is busy.
VerdictEarned ==
    [][pc["watchdog"] = "select" /\ pc'["watchdog"] = "dead" =>
         quiet > StallAfter \/ "in" \in moved]_vars

\* A refresh that waited for another one, or whose kick was sent before it,
\* does not rotate the tunnel that one just installed.
NoOldEvidence == lock # "free" => evid[lock] # "old"

\* Unless a build fails, a tunnel is replaced before it is older than
\* tunnelRefreshAfter plus the coalescing floor plus the time of a build, with
\* any mix of kicks, ticks and verdicts, coalesced ones included: 56 s with
\* the values of the code, under the 60 s after which gateways cut a session.
AgeBounded == "failed" \notin built => tAge <= AgeBound

\* A tunnel that has outbound demand and no inbound bytes is called dead
\* within rxStallAfter, one turn of the watchdog and one of the sampler.
DeadDetected ==
    quiet > DetectAfter /\ load > WatchEvery + 1 => pc["watchdog"] # "select"

\* refreshTunnelKicked says of a kick that it carries live proof that the
\* current tunnel is dead: the request behind it failed on that tunnel.
KickHasProof == lock = "refresher" => evid[lock] # "drain"
=============================================================================
