--------------------------- MODULE RotationProofs ---------------------------
(***************************************************************************)
(* For any intervals in the order the code has them in: refreshes that     *)
(* waited for another one are coalesced, tunnels are replaced in time, and *)
(* the watchdog calls a tunnel dead when it should and only then.          *)
(***************************************************************************)
EXTENDS Rotation, TLAPS

\* Evidence on a tunnel that was replaced exists only in the instant of the
\* swap, when every refresh is coalesced.
OldInv ==
    (kick = "old" \/ \E l \in Loops : evid[l] = "old") => lock = "free" /\ refAge = 0

\* The floor is measured from the start of the tunnel, or from before it.
FloorInv == refAge < Floor => tAge <= refAge

\* What is left of the age a tunnel may reach: until the refresher's next tick,
\* until it takes the tick, and while it builds.
AgeInv ==
    "failed" \notin built =>
        /\ lock # "free" => tAge <= RefreshAfter + Floor + building
        /\ lock = "free" => tAge <= RefreshAfter + Floor
        /\ lock = "free" /\ pc["refresher"] = "select" /\ "refresher" \notin ticks =>
             tAge + timers["refresher"] <= RefreshAfter + Floor

\* The sampler's record of inbound bytes is at most one unit behind them, and
\* never ahead of them.
SilenceInv ==
    /\ "in" \in moved => quiet <= IF due THEN 1 ELSE 0
    /\ appRxAt # Never => quiet <= appRxAt + 1 \/ appRxAt > StallAfter
    /\ "in" \notin moved => quiet >= InboundSilent \/ quiet > StallAfter

\* So is its record of outbound demand, once the demand lasts.
LoadInv ==
    /\ load > 0 /\ ~due => moved = {}
    /\ load > 0 => outAt \in {0, 1} \/ (load = 1 /\ "out" \in moved)

\* A watchdog that has not given up on the tunnel will look at it again before
\* it has been silent, or loaded, for too long.
WatchInv ==
    pc["watchdog"] = "select" =>
        IF "watchdog" \in ticks
        THEN quiet <= DetectAfter \/ load <= WatchEvery + 1
        ELSE \/ quiet + timers["watchdog"] <= DetectAfter
             \/ load + timers["watchdog"] <= WatchEvery + 1

\* The inductive invariant.
RotInv ==
    TypeOK /\ OldInv /\ FloorInv /\ AgeInv /\ SilenceInv /\ LoadInv /\ WatchInv

-----------------------------------------------------------------------------
\* What the steps need to know of the constants.
LEMMA Constants ==
  /\ KickFloor \in Nat /\ Floor \in Nat /\ RefreshAfter \in Nat /\ StallAfter \in Nat
  /\ WatchEvery \in Nat /\ BuildMax \in Nat /\ HandshakeStale \in Nat
  /\ 1 <= KickFloor /\ KickFloor < Floor /\ Floor < RefreshAfter /\ RefreshAfter < StallAfter
  /\ 1 <= WatchEvery /\ 1 <= BuildMax
  /\ Cap = HandshakeStale + 1 /\ DetectAfter = StallAfter + WatchEvery + 1
  /\ DetectAfter + 1 <= Cap
  BY RotationAssumption DEF Cap, DetectAfter

\* A loop is the refresher or the watchdog.
LEMMA TwoLoops ==
  /\ "refresher" \in Loops /\ "watchdog" \in Loops /\ "free" \notin Loops
  /\ \A l \in Loops : l = "refresher" \/ l = "watchdog"
  /\ Period("refresher") = RefreshAfter /\ Period("watchdog") = WatchEvery
  BY DEF Loops, Period

LEMMA RotInvInit == Init => RotInv
  <1> SUFFICES ASSUME Init PROVE RotInv
    OBVIOUS
  <1> USE Constants, TwoLoops DEF Init, Never
  <1>1. TypeOK
    <2>1. due \in BOOLEAN /\ kicked \in BOOLEAN
      BY Zenon DEF TypeOK
    <2> QED
      BY <2>1 DEF TypeOK, Waiting
  <1>2. OldInv /\ FloorInv /\ AgeInv
    BY DEF OldInv, FloorInv, AgeInv
  <1>3. SilenceInv /\ LoadInv /\ WatchInv
    BY DEF SilenceInv, LoadInv, WatchInv, InboundSilent
  <1> QED
    BY <1>1, <1>2, <1>3 DEF RotInv

\* Each lemma below is about one action.
LEMMA TrafficStep ==
  ASSUME RotInv, NEW way \in {"out", "in"}, Traffic(way)
  PROVE  RotInv'
  <1> USE Constants, TwoLoops DEF RotInv, Never, Traffic
  <1>1. TypeOK'
    BY DEF TypeOK, Waiting
  <1>2. OldInv'
    BY DEF TypeOK, OldInv, Waiting
  <1>3. FloorInv'
    BY DEF TypeOK, FloorInv
  <1>4. AgeInv'
    BY DEF TypeOK, FloorInv, AgeInv, Waiting
  <1>5. SilenceInv'
    BY DEF TypeOK, SilenceInv, InboundSilent
  <1>6. LoadInv'
    BY DEF TypeOK, SilenceInv, LoadInv
  <1>7. WatchInv'
    BY DEF TypeOK, FloorInv, SilenceInv, LoadInv, WatchInv, InboundSilent, Waiting
  <1> QED
    BY <1>1, <1>2, <1>3, <1>4, <1>5, <1>6, <1>7

LEMMA KickRefreshStep ==
  ASSUME RotInv, NEW on \in {"this", "drain"}, KickRefresh(on)
  PROVE  RotInv'
  <1> USE Constants, TwoLoops DEF RotInv, Never, KickRefresh, stats, hist
  <1>1. TypeOK'
    BY DEF TypeOK, Waiting
  <1>2. OldInv'
    BY DEF TypeOK, OldInv, Waiting
  <1>3. FloorInv'
    BY DEF TypeOK, FloorInv
  <1>4. AgeInv'
    BY DEF TypeOK, FloorInv, AgeInv, Waiting
  <1>5. SilenceInv'
    BY DEF TypeOK, SilenceInv, InboundSilent
  <1>6. LoadInv'
    BY DEF TypeOK, SilenceInv, LoadInv
  <1>7. WatchInv'
    BY DEF TypeOK, FloorInv, SilenceInv, LoadInv, WatchInv, InboundSilent, Waiting
  <1> QED
    BY <1>1, <1>2, <1>3, <1>4, <1>5, <1>6, <1>7

LEMMA SampleOnceStep ==
  ASSUME RotInv, SampleOnce
  PROVE  RotInv'
  <1> USE Constants, TwoLoops DEF RotInv, Never, SampleOnce, SampledRx, hist
  <1>1. TypeOK'
    <2>1. due' \in BOOLEAN /\ kicked' \in BOOLEAN
      BY Zenon DEF TypeOK
    <2> QED
      BY <2>1 DEF TypeOK, Waiting
  <1>2. OldInv'
    BY DEF TypeOK, OldInv, Waiting
  <1>3. FloorInv'
    BY DEF TypeOK, FloorInv
  <1>4. AgeInv'
    BY DEF TypeOK, FloorInv, AgeInv, Waiting
  <1>5. SilenceInv'
    BY DEF TypeOK, SilenceInv, InboundSilent
  <1>6. LoadInv'
    BY DEF TypeOK, SilenceInv, LoadInv
  <1>7. WatchInv'
    BY DEF TypeOK, FloorInv, SilenceInv, LoadInv, WatchInv, InboundSilent, Waiting
  <1> QED
    BY <1>1, <1>2, <1>3, <1>4, <1>5, <1>6, <1>7

LEMMA JudgeStep ==
  ASSUME RotInv, Judge
  PROVE  RotInv'
  <1> USE Constants, TwoLoops DEF RotInv, Never, Judge, Goto, stats, hist
  <1>1. TypeOK'
    BY DEF TypeOK, Waiting
  <1>2. OldInv'
    BY DEF TypeOK, OldInv, Waiting
  <1>3. FloorInv'
    BY DEF TypeOK, FloorInv
  <1>4. AgeInv'
    BY DEF TypeOK, FloorInv, AgeInv, Waiting
  <1>5. SilenceInv'
    BY DEF TypeOK, SilenceInv, InboundSilent
  <1>6. LoadInv'
    BY DEF TypeOK, SilenceInv, LoadInv
  <1>7. WatchInv'
    BY DEF TypeOK, FloorInv, SilenceInv, LoadInv, WatchInv, InboundSilent, Waiting,
           HandshakeDead, Stalled, RecentDemand, within
  <1> QED
    BY <1>1, <1>2, <1>3, <1>4, <1>5, <1>6, <1>7

LEMMA TakeKickStep ==
  ASSUME RotInv, TakeKick
  PROVE  RotInv'
  <1> USE Constants, TwoLoops DEF RotInv, Never, TakeKick, Goto, stats, hist
  <1>1. TypeOK'
    BY DEF TypeOK, Waiting
  <1>2. OldInv'
    BY DEF TypeOK, OldInv, Waiting
  <1>3. FloorInv'
    BY DEF TypeOK, FloorInv
  <1>4. AgeInv'
    BY DEF TypeOK, FloorInv, AgeInv, Waiting
  <1>5. SilenceInv'
    BY DEF TypeOK, SilenceInv, InboundSilent
  <1>6. LoadInv'
    BY DEF TypeOK, SilenceInv, LoadInv
  <1>7. WatchInv'
    BY DEF TypeOK, FloorInv, SilenceInv, LoadInv, WatchInv, InboundSilent, Waiting
  <1> QED
    BY <1>1, <1>2, <1>3, <1>4, <1>5, <1>6, <1>7

LEMMA TakeTickStep ==
  ASSUME RotInv, TakeTick
  PROVE  RotInv'
  <1> USE Constants, TwoLoops DEF RotInv, Never, TakeTick, Goto, stats, hist
  <1>1. TypeOK'
    BY DEF TypeOK, Waiting
  <1>2. OldInv'
    BY DEF TypeOK, OldInv, Waiting
  <1>3. FloorInv'
    BY DEF TypeOK, FloorInv
  <1>4. AgeInv'
    BY DEF TypeOK, FloorInv, AgeInv, Waiting
  <1>5. SilenceInv'
    BY DEF TypeOK, SilenceInv, InboundSilent
  <1>6. LoadInv'
    BY DEF TypeOK, SilenceInv, LoadInv
  <1>7. WatchInv'
    BY DEF TypeOK, FloorInv, SilenceInv, LoadInv, WatchInv, InboundSilent, Waiting
  <1> QED
    BY <1>1, <1>2, <1>3, <1>4, <1>5, <1>6, <1>7

LEMMA CoalesceStep ==
  ASSUME RotInv, NEW l \in Loops, Coalesce(l)
  PROVE  RotInv'
  <1> USE Constants, TwoLoops
      DEF RotInv, Never, Coalesce, Coalesced, LowerBound, Return, Goto, ResetTicker,
          Restarts, stats, hist
  <1>1. TypeOK'
    BY DEF TypeOK, Waiting
  <1>2. OldInv'
    BY DEF TypeOK, OldInv, Waiting
  <1>3. FloorInv'
    BY DEF TypeOK, FloorInv
  <1>4. AgeInv'
    BY DEF TypeOK, FloorInv, AgeInv, Waiting
  <1>5. SilenceInv'
    BY DEF TypeOK, SilenceInv, InboundSilent
  <1>6. LoadInv'
    BY DEF TypeOK, SilenceInv, LoadInv
  <1>7. WatchInv'
    BY DEF TypeOK, FloorInv, SilenceInv, LoadInv, WatchInv, InboundSilent, Waiting
  <1> QED
    BY <1>1, <1>2, <1>3, <1>4, <1>5, <1>6, <1>7

LEMMA EnterStep ==
  ASSUME RotInv, NEW l \in Loops, Enter(l)
  PROVE  RotInv'
  <1> USE Constants, TwoLoops DEF RotInv, Never, Enter, Coalesced, LowerBound, stats, hist
  <1>1. TypeOK'
    BY DEF TypeOK, Waiting
  <1>2. OldInv'
    BY DEF TypeOK, OldInv, Waiting
  <1>3. FloorInv'
    BY DEF TypeOK, FloorInv
  <1>4. AgeInv'
    BY DEF TypeOK, FloorInv, AgeInv, Waiting
  <1>5. SilenceInv'
    BY DEF TypeOK, SilenceInv, InboundSilent
  <1>6. LoadInv'
    BY DEF TypeOK, SilenceInv, LoadInv
  <1>7. WatchInv'
    BY DEF TypeOK, FloorInv, SilenceInv, LoadInv, WatchInv, InboundSilent, Waiting
  <1> QED
    BY <1>1, <1>2, <1>3, <1>4, <1>5, <1>6, <1>7

LEMMA SwapStep ==
  ASSUME RotInv, NEW l \in Loops, Swap(l)
  PROVE  RotInv'
  <1> USE Constants, TwoLoops
      DEF RotInv, Never, Swap, ResetTunnelStats, Goto, Outdated, ResetTicker, Restarts
  <1>1. TypeOK'
    <2>1. due' \in BOOLEAN /\ kicked' \in BOOLEAN
      BY Zenon DEF TypeOK
    <2> QED
      BY <2>1 DEF TypeOK, Waiting
  <1>2. OldInv'
    BY DEF TypeOK, OldInv, Waiting
  <1>3. FloorInv'
    BY DEF TypeOK, FloorInv
  <1>4. AgeInv'
    BY DEF TypeOK, FloorInv, AgeInv, Waiting
  <1>5. SilenceInv'
    BY DEF TypeOK, SilenceInv, InboundSilent
  <1>6. LoadInv'
    BY DEF TypeOK, SilenceInv, LoadInv
  <1>7. WatchInv'
    BY DEF TypeOK, FloorInv, SilenceInv, LoadInv, WatchInv, InboundSilent, Waiting
  <1> QED
    BY <1>1, <1>2, <1>3, <1>4, <1>5, <1>6, <1>7

LEMMA RefreshFailsStep ==
  ASSUME RotInv, RefreshFails
  PROVE  RotInv'
  <1> USE Constants, TwoLoops DEF RotInv, Never, RefreshFails, Return, Goto, stats, hist
  <1>1. TypeOK'
    BY DEF TypeOK, Waiting
  <1>2. OldInv'
    BY DEF TypeOK, OldInv, Waiting
  <1>3. FloorInv'
    BY DEF TypeOK, FloorInv
  <1>4. AgeInv'
    BY DEF TypeOK, FloorInv, AgeInv, Waiting
  <1>5. SilenceInv'
    BY DEF TypeOK, SilenceInv, InboundSilent
  <1>6. LoadInv'
    BY DEF TypeOK, SilenceInv, LoadInv
  <1>7. WatchInv'
    BY DEF TypeOK, FloorInv, SilenceInv, LoadInv, WatchInv, InboundSilent, Waiting
  <1> QED
    BY <1>1, <1>2, <1>3, <1>4, <1>5, <1>6, <1>7

LEMMA ReconnectStep ==
  ASSUME RotInv, Reconnect
  PROVE  RotInv'
  <1> USE Constants, TwoLoops DEF RotInv, Never, Reconnect, ResetTunnelStats, Period
  <1>1. TypeOK'
    <2>1. due' \in BOOLEAN /\ kicked' \in BOOLEAN
      BY Zenon DEF TypeOK
    <2> QED
      BY <2>1 DEF TypeOK, Waiting
  <1>2. OldInv'
    BY DEF TypeOK, OldInv, Waiting
  <1>3. FloorInv'
    BY DEF TypeOK, FloorInv
  <1>4. AgeInv'
    BY DEF TypeOK, FloorInv, AgeInv, Waiting
  <1>5. SilenceInv'
    BY DEF TypeOK, SilenceInv, InboundSilent
  <1>6. LoadInv'
    BY DEF TypeOK, SilenceInv, LoadInv
  <1>7. WatchInv'
    BY DEF TypeOK, FloorInv, SilenceInv, LoadInv, WatchInv, InboundSilent, Waiting
  <1> QED
    BY <1>1, <1>2, <1>3, <1>4, <1>5, <1>6, <1>7

LEMMA TickStep ==
  ASSUME RotInv, Tick
  PROVE  RotInv'
  <1> USE Constants, TwoLoops DEF RotInv, Never, Tick, Prompt, Older, Demand
  <1>1. TypeOK'
    BY DEF TypeOK, Waiting
  <1>2. OldInv'
    BY DEF TypeOK, OldInv, Waiting
  <1>3. FloorInv'
    BY DEF TypeOK, FloorInv
  <1>4. AgeInv'
    BY DEF TypeOK, FloorInv, AgeInv, Waiting
  <1>5. SilenceInv'
    BY DEF TypeOK, SilenceInv, InboundSilent
  <1>6. LoadInv'
    BY DEF TypeOK, SilenceInv, LoadInv
  <1>7. WatchInv'
    BY DEF TypeOK, FloorInv, SilenceInv, LoadInv, WatchInv, InboundSilent, Waiting
  <1> QED
    BY <1>1, <1>2, <1>3, <1>4, <1>5, <1>6, <1>7

LEMMA RotInvStep == RotInv /\ [Next]_vars => RotInv'
  <1> SUFFICES ASSUME RotInv, [Next]_vars PROVE RotInv'
    OBVIOUS
  <1>1. CASE Next
    BY <1>1, TrafficStep, KickRefreshStep, SampleOnceStep, JudgeStep, TakeKickStep,
       TakeTickStep, CoalesceStep, EnterStep, SwapStep, RefreshFailsStep, ReconnectStep,
       TickStep
       DEF Next
  <1>2. CASE UNCHANGED vars
    BY <1>2 DEF vars, stats, hist, RotInv, TypeOK, OldInv, FloorInv, AgeInv, SilenceInv,
                InboundSilent, LoadInv, WatchInv
  <1> QED
    BY <1>1, <1>2

\* The inductive invariant holds: what is sampled, the ages and the tickers fit
\* together in every state.
THEOREM RotationInvariant == Spec => []RotInv
  BY RotInvInit, RotInvStep, PTL DEF Spec

\* The variables keep their types: ages stay in the ranges the decisions
\* distinguish, and only a loop that waits for refreshMu or holds it has evidence.
THEOREM RotationTypeCorrect == Spec => []TypeOK
  <1>1. RotInv => TypeOK
    BY DEF RotInv
  <1> QED
    BY <1>1, RotationInvariant, PTL

\* A refresh that waited for another one, or whose kick was sent before it, does
\* not rotate the tunnel that one just installed (refreshTunnelKicked).
THEOREM NoOldEvidenceAlways == Spec => []NoOldEvidence
  <1>1. RotInv => NoOldEvidence
    BY DEF RotInv, TypeOK, OldInv, NoOldEvidence
  <1> QED
    BY <1>1, RotationInvariant, PTL

\* Unless a build fails, no tunnel gets older than tunnelRefreshAfter plus the
\* coalescing floor plus the time of a build (runRefresher).
THEOREM AgeBoundedAlways == Spec => []AgeBounded
  <1>1. RotInv => AgeBounded
    BY Constants DEF RotInv, TypeOK, AgeInv, AgeBounded, AgeBound
  <1> QED
    BY <1>1, RotationInvariant, PTL

\* A tunnel with outbound demand and no inbound bytes is called dead within
\* rxStallAfter, one turn of the watchdog and one of the sampler
\* (runHandshakeWatch).
THEOREM DeadDetectedAlways == Spec => []DeadDetected
  <1>1. RotInv => DeadDetected
    BY Constants, TwoLoops DEF RotInv, TypeOK, WatchInv, DeadDetected
  <1> QED
    BY <1>1, RotationInvariant, PTL

\* The watchdog calls a tunnel dead under load only when it has really had no
\* inbound bytes for rxStallAfter since it became the current one
\* (reconnectReason).
THEOREM VerdictEarnedAlways == Spec => VerdictEarned
  <1> DEFINE Earned == pc["watchdog"] = "select" /\ pc'["watchdog"] = "dead" =>
                         quiet > StallAfter \/ "in" \in moved
  <1>1. RotInv /\ [Next]_vars => [Earned]_vars
    <2> SUFFICES ASSUME RotInv, Next, pc["watchdog"] = "select", pc'["watchdog"] = "dead"
                 PROVE  quiet > StallAfter \/ "in" \in moved
      OBVIOUS
    <2> USE TwoLoops DEF RotInv, TypeOK
    <2>1. Judge
      <3>1. ~(\E way \in {"out", "in"} : Traffic(way))
        BY DEF Traffic
      <3>2. ~(\E on \in {"this", "drain"} : KickRefresh(on))
        BY DEF KickRefresh
      <3>3. ~(\E l \in Loops : Coalesce(l) \/ Enter(l) \/ Swap(l))
        BY DEF Coalesce, Enter, Swap, Return, Goto
      <3>4. ~SampleOnce /\ ~TakeKick /\ ~TakeTick
        BY DEF SampleOnce, TakeKick, TakeTick, Goto
      <3>5. ~RefreshFails /\ ~Reconnect /\ ~Tick
        BY DEF RefreshFails, Return, Goto, Reconnect, Tick
      <3> QED
        BY <3>1, <3>2, <3>3, <3>4, <3>5 DEF Next
    <2>2. Stalled
      BY <2>1 DEF Judge, Goto
    <2>3. InboundSilent > StallAfter
      BY <2>2 DEF Stalled
    <2> QED
      BY <2>3, Constants DEF SilenceInv, InboundSilent, Never
  <1> QED
    BY <1>1, RotationInvariant, PTL DEF Spec, VerdictEarned
=============================================================================
