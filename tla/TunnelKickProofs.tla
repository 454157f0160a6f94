-------------------------- MODULE TunnelKickProofs --------------------------
(***************************************************************************)
(* kickRefresh fires at most once per tunnel generation, for any number of *)
(* requests and rotations.  The check and the update of lastKickGen are    *)
(* one critical section, but the send is outside it, so the invariant      *)
(* must say what a goroutine on its way to the send is entitled to: its    *)
(* generation is at most lastKickGen, was not kicked yet, and no other     *)
(* goroutine is about to kick it.                                          *)
(***************************************************************************)
EXTENDS TunnelKick, TLAPS

Sending == {r \in Requests : pc[r] = "send"}

\* The counters: what was kicked lies at or below lastKickGen.
KickedBelow ==
    /\ lastKickGen <= gen
    /\ \A g \in Gens : kicks[g] > 0 => g <= lastKickGen
    /\ \A r \in Sending : kgen[r] <= lastKickGen

\* A goroutine about to send is the only one for its generation.
SenderAlone ==
    /\ \A r \in Sending : kicks[kgen[r]] = 0
    /\ \A r, q \in Sending : kgen[r] = kgen[q] => r = q

KInv == TypeOK /\ KickedBelow /\ SenderAlone /\ OneKickPerGen

USE KickAssumption DEF Gens

LEMMA InitKInv == Init => KInv
<1>. SUFFICES ASSUME Init PROVE KInv
  OBVIOUS
<1>1. hostLive \in BOOLEAN
  BY Zenon DEF Init
<1>2. 0 \in Gens
  OBVIOUS
<1>3. TypeOK
  BY <1>1, <1>2 DEF Init, TypeOK, Ages
<1>4. Sending = {}
  BY DEF Init, Sending
<1>5. KickedBelow /\ SenderAlone /\ OneKickPerGen
  BY <1>4 DEF Init, KickedBelow, SenderAlone, OneKickPerGen
<1>. QED
  BY <1>3, <1>5 DEF KInv

\* Steps that leave the kick state alone and start no send.
LEMMA QuietStep ==
    ASSUME KInv, TypeOK',
           UNCHANGED <<lastKickGen, kicks, kgen>>,
           gen' >= gen, Sending' \subseteq Sending
    PROVE  KInv'
  BY DEF KInv, TypeOK, KickedBelow, SenderAlone, OneKickPerGen

\* The critical section of kickRefresh.
LEMMA KickStep ==
    ASSUME KInv, NEW r \in Requests, KickRefresh(r)
    PROVE  KInv'
<1>1. TypeOK'
  BY DEF KInv, TypeOK, KickRefresh, Goto, Marked, chans
<1>2. CASE Suppressed
  <2>1. UNCHANGED <<gen, lastKickGen, kicks, kgen>> /\ Sending' \subseteq Sending
    BY <1>2 DEF KickRefresh, Goto, Sending, KInv, TypeOK
  <2>. QED
    BY <1>1, <2>1, QuietStep DEF KInv, TypeOK
<1>3. CASE ~Suppressed
  <2>1. /\ lastKickGen < gen
        /\ lastKickGen' = gen /\ gen' = gen /\ kicks' = kicks
        /\ kgen' = [kgen EXCEPT ![r] = gen]
        /\ Sending' = Sending \cup {r}
    BY <1>3 DEF KickRefresh, Goto, Suppressed, Marked, Sending, KInv, TypeOK, KickedBelow
  <2>2. KickedBelow'
    BY <2>1 DEF KInv, KickedBelow, TypeOK, Sending
  <2>3. kicks[gen] = 0 /\ \A q \in Sending : kgen[q] # gen
    <3>1. gen \in Gens /\ lastKickGen \in Gens /\ kicks[gen] \in 0 .. 2
      BY DEF KInv, TypeOK
    <3>2. ~(kicks[gen] > 0)
      BY <2>1, <3>1 DEF KInv, KickedBelow
    <3>3. \A q \in Sending : kgen[q] \in Gens /\ kgen[q] <= lastKickGen
      BY DEF KInv, TypeOK, KickedBelow, Sending
    <3>. QED
      BY <2>1, <3>1, <3>2, <3>3
  <2>4. r \notin Sending
    BY DEF Sending, KickRefresh
  <2>5. SenderAlone'
    BY <2>1, <2>3, <2>4 DEF KInv, SenderAlone, TypeOK, Sending
  <2>. QED
    BY <1>1, <2>1, <2>2, <2>5 DEF KInv, OneKickPerGen
<1>. QED
  BY <1>2, <1>3

\* The send, outside the lock.
LEMMA SendStep ==
    ASSUME KInv, NEW r \in Requests, SendKick(r)
    PROVE  KInv'
<1>1. TypeOK'
  <2>1. kgen[r] \in Gens /\ kicks[kgen[r]] \in 0 .. 2 /\ kicks \in [Gens -> 0 .. 2]
    BY DEF KInv, TypeOK
  <2>2. kicks' \in [Gens -> 0 .. 2]
    BY <2>1 DEF SendKick
  <2>. QED
    BY <2>1, <2>2 DEF KInv, TypeOK, SendKick, Goto, Drop
<1>2. /\ r \in Sending /\ kicks[kgen[r]] = 0
      /\ Sending' = Sending \ {r}
      /\ \A q \in Requests \ {r} : kgen'[q] = kgen[q]
      /\ UNCHANGED <<gen, lastKickGen>>
  BY DEF SendKick, Goto, Drop, Sending, KInv, TypeOK, SenderAlone
<1>3. /\ kicks'[kgen[r]] = 1
      /\ \A g \in Gens \ {kgen[r]} : kicks'[g] = kicks[g]
  BY <1>2 DEF SendKick, KInv, TypeOK
<1>4. KickedBelow'
  BY <1>2, <1>3 DEF KInv, KickedBelow, TypeOK, Sending
<1>5. SenderAlone'
  BY <1>2, <1>3 DEF KInv, SenderAlone, TypeOK, Sending
<1>6. OneKickPerGen'
  BY <1>2, <1>3 DEF KInv, OneKickPerGen, TypeOK
<1>. QED
  BY <1>1, <1>4, <1>5, <1>6 DEF KInv

LEMMA NextKInv == KInv /\ [Next]_vars => KInv'
<1>. SUFFICES ASSUME KInv, [Next]_vars PROVE KInv'
  OBVIOUS
<1>. USE DEF chans, reqs, Goto, Drop, Return, Ages
<1>1. ASSUME NEW r \in Requests,
             \/ ReadGen(r) \/ DialOK(r) \/ Finish(r) \/ Fail(r)
             \/ NoEvidence(r) \/ WaitTunnelSwap(r) \/ Wakes(r) \/ GiveUp(r)
      PROVE  KInv'
  <2>1. TypeOK'
    <3>. USE DEF KInv, TypeOK
    <3>1. CASE ReadGen(r)  BY <3>1 DEF ReadGen
    <3>2. CASE DialOK(r)
      <4>1. hostLive' \in BOOLEAN
        BY <3>2, Zenon DEF DialOK
      <4>. QED
        BY <3>2, <4>1 DEF DialOK
    <3>3. CASE Finish(r)  BY <3>3 DEF Finish
    <3>4. CASE Fail(r)  BY <3>4 DEF Fail
    <3>5. CASE NoEvidence(r)  BY <3>5 DEF NoEvidence
    <3>6. CASE WaitTunnelSwap(r)  BY <3>6 DEF WaitTunnelSwap
    <3>7. CASE Wakes(r)  BY <3>7 DEF Wakes
    <3>8. CASE GiveUp(r)  BY <3>8 DEF GiveUp
    <3>. QED
      BY <1>1, <3>1, <3>2, <3>3, <3>4, <3>5, <3>6, <3>7, <3>8
  <2>2. UNCHANGED <<gen, lastKickGen, kicks, kgen>>
    BY <1>1 DEF ReadGen, DialOK, Finish, Fail, NoEvidence,
                WaitTunnelSwap, Wakes, GiveUp
  <2>3. Sending' \subseteq Sending
    BY <1>1 DEF KInv, TypeOK, Sending, ReadGen, DialOK, Finish, Fail, NoEvidence,
                WaitTunnelSwap, Wakes, GiveUp
  <2>. QED
    BY <2>1, <2>2, <2>3, QuietStep DEF KInv, TypeOK
<1>2. ASSUME NEW r \in Requests, KickRefresh(r) PROVE KInv'
  BY <1>2, KickStep
<1>3. ASSUME NEW r \in Requests, SendKick(r) PROVE KInv'
  BY <1>3, SendStep
<1>4. CASE \/ Refresher \/ StopRefresher \/ HostForgotten \/ TimePasses
           \/ UNCHANGED vars
  <2>1. TypeOK'
    <3>. USE DEF KInv, TypeOK
    <3>1. CASE Subscribe  BY <3>1 DEF Subscribe
    <3>2. CASE TakeKick  BY <3>2 DEF TakeKick
    <3>3. CASE Tick  BY <3>3 DEF Tick
    <3>4. CASE NoRotation  BY <3>4 DEF NoRotation
    <3>5. CASE Rotate  BY <3>5 DEF Rotate
    <3>6. CASE StopRefresher  BY <3>6 DEF StopRefresher
    <3>7. CASE HostForgotten
      <4>1. hostLive' \in BOOLEAN
        BY <3>7, Zenon DEF HostForgotten
      <4>. QED
        BY <3>7, <4>1 DEF HostForgotten
    <3>8. CASE TimePasses  BY <3>8 DEF TimePasses
    <3>9. CASE UNCHANGED vars  BY <3>9 DEF vars
    <3>. QED
      BY <1>4, <3>1, <3>2, <3>3, <3>4, <3>5, <3>6, <3>7, <3>8, <3>9 DEF Refresher
  <2>2. UNCHANGED <<lastKickGen, kicks, kgen, pc>> /\ gen' >= gen
    BY <1>4 DEF KInv, TypeOK, Refresher, Subscribe, TakeKick, Tick, NoRotation, Rotate,
                StopRefresher, HostForgotten, TimePasses, vars
  <2>. QED
    BY <2>1, <2>2, QuietStep DEF Sending
<1>. QED
  BY <1>1, <1>2, <1>3, <1>4 DEF Next, Handle

\* The inductive invariant holds in every reachable state.
THEOREM KickInvariant == Spec => []KInv
  BY InitKInv, NextKInv, PTL DEF Spec

\* Generations never run past the tunnel's, channels and loops are in a state
\* the code can be in, and no generation is kicked more often than counted.
THEOREM KickTypeCorrect == Spec => []TypeOK
<1>1. KInv => TypeOK
  BY DEF KInv
<1>. QED
  BY <1>1, KickInvariant, PTL

\* At most one kick fires per tunnel generation, whatever the number of
\* requests that fail on it and however their sends interleave (kickRefresh).
THEOREM OneKick == Spec => []OneKickPerGen
<1>1. KInv => OneKickPerGen
  BY DEF KInv
<1>. QED
  BY <1>1, KickInvariant, PTL
=============================================================================
