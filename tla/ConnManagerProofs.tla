------------------------- MODULE ConnManagerProofs -------------------------
(***************************************************************************)
(* Theorems about ConnManager, for any number of handlers, devices and     *)
(* proxies and any numbers of attempts.                                    *)
(***************************************************************************)
EXTENDS ConnManager, TLAPS

Refreshing == {"rebuild", "probe", "recheck"}

\* refreshMu is held exactly by the goroutine inside a refresh.
LockInv == \A t \in Threads : pc[t] \in Refreshing <=> refreshMu = t

\* Loops exist only for proxies that were published.
SpawnInv ==
    \A t \in Loops : pc[t] # "off" =>
        /\ pxSt[t[2]] # "new"
        /\ \A u \in Threads : pc[u] = "publish" => hpx[u] # t[2]

\* A device in a goroutine's hands is open, and neither installed nor draining.
DeviceInv ==
    \A t \in Threads :
        /\ pc[t] \in {"listen", "publish", "probe", "recheck"} => hdev[t] \in Devices
        /\ HoldsDevice(t) /\ hdev[t] # NoDev =>
            devSt[hdev[t]] = "open" /\ hdev[t] # device /\ hdev[t] \notin draining

\* A proxy in a goroutine's hands listens and is not installed.
ProxyInv ==
    \A t \in Threads :
        /\ pc[t] = "publish" => hpx[t] \in Proxies /\ pxTun[hpx[t]] = hdev[t]
        /\ HoldsProxy(t) /\ hpx[t] # NoPx => pxSt[hpx[t]] = "open" /\ hpx[t] # proxy

\* No two goroutines hold the same device or the same proxy.
Disjoint ==
    \A t, u \in Threads : t # u =>
        /\ HoldsDevice(t) /\ HoldsDevice(u) /\ hdev[t] # NoDev => hdev[t] # hdev[u]
        /\ HoldsProxy(t) /\ HoldsProxy(u) /\ hpx[t] # NoPx => hpx[t] # hpx[u]

DrainInv == \A d \in draining : devSt[d] = "open" /\ d # device

\* The snapshot of a refresh: while its proxy is installed, so is its old
\* device; a proxy about to be published is never the one being refreshed.
RefreshInv ==
    \A t \in Threads : pc[t] \in Refreshing =>
        /\ hpx[t] \in Proxies /\ pxSt[hpx[t]] # "new" /\ old[t] \in Devices
        /\ proxy = hpx[t] => device = old[t]
        /\ \A u \in Threads : pc[u] = "publish" => hpx[u] # hpx[t]
        /\ pc[t] = "recheck" => pxTun[hpx[t]] = hdev[t]

\* A serving proxy dials through the installed device, or through the one a
\* refresh has just swapped in.
TunnelInv ==
    state = "connected" /\ proxy # NoPx =>
        \/ pxTun[proxy] = device
        \/ \E t \in Threads : pc[t] = "recheck" /\ hpx[t] = proxy

IInv ==
    /\ TypeOK /\ LockInv /\ SpawnInv /\ InstalledWhole /\ DeviceInv /\ ProxyInv
    /\ Disjoint /\ DrainInv /\ RefreshInv /\ TunnelInv

-----------------------------------------------------------------------------
\* The bound on attempts is a positive number, no smaller than its parts.
LEMMA MaxAttNat == /\ MaxAtt \in Nat \ {0}
                   /\ ReconnectAttempts <= MaxAtt
                   /\ BuildAttempts <= MaxAtt
BY ConstAssumption DEF MaxAtt

\* The two loops of a proxy are loops, and name that proxy.
LEMMA LoopOf == ASSUME NEW p \in Proxies
                PROVE /\ Refresher(p) \in Loops /\ Refresher(p)[2] = p
                      /\ Watchdog(p) \in Loops /\ Watchdog(p)[2] = p
BY DEF Refresher, Watchdog, Loops

\* Every loop belongs to a proxy.
LEMMA LoopProxy == ASSUME NEW t \in Loops PROVE t[2] \in Proxies
BY DEF Loops

\* The initial states, nothing built and every goroutine at home, satisfy IInv.
LEMMA InitIInv == Init => IInv
<1> SUFFICES ASSUME Init PROVE IInv
    OBVIOUS
<1> USE ConstAssumption DEF Init, Home, Threads
<1>1. TypeOK
    BY MaxAttNat DEF TypeOK, Life, PCs, Rets, States
<1>2. LockInv /\ SpawnInv /\ RefreshInv
    BY DEF LockInv, SpawnInv, RefreshInv, Refreshing
<1>3. InstalledWhole /\ DrainInv /\ TunnelInv
    BY DEF InstalledWhole, DrainInv, TunnelInv
<1>4. DeviceInv /\ ProxyInv /\ Disjoint
    BY DEF DeviceInv, ProxyInv, Disjoint, HoldsDevice, HoldsProxy
<1> QED BY <1>1, <1>2, <1>3, <1>4 DEF IInv

-----------------------------------------------------------------------------
(***************************************************************************)
(* The actions of Connect and connectReal.                                 *)
(***************************************************************************)
\* Connect only claims the state.
LEMMA ConnectKeeps ==
    ASSUME NEW t \in Threads, IInv, Connect(t) PROVE IInv'
<1> USE ConstAssumption DEF IInv, Connect, Goto, mgr, res, loc, Threads
<1>1. TypeOK'
    BY MaxAttNat DEF TypeOK, Life, PCs, States, Rets
<1>2. (LockInv /\ SpawnInv /\ InstalledWhole /\ DeviceInv /\ ProxyInv /\
      Disjoint /\ DrainInv /\ RefreshInv /\ TunnelInv)'
    BY DEF TypeOK, LockInv, SpawnInv, InstalledWhole, DeviceInv, ProxyInv,
       Disjoint, DrainInv, RefreshInv, TunnelInv, Refreshing, HoldsDevice,
       HoldsProxy
<1> QED BY <1>1, <1>2 DEF IInv

\* A new device is nobody else's: it was not open before.
LEMMA BuildTunnelKeeps ==
    ASSUME NEW t \in Threads, IInv, BuildTunnel(t) PROVE IInv'
<1> USE ConstAssumption DEF IInv, BuildTunnel, Goto, mgr, res, loc, Threads
<1>1. TypeOK'
    BY MaxAttNat DEF TypeOK, Life, PCs, States, Rets
<1>2. DeviceInv'
    BY DEF TypeOK, DeviceInv, InstalledWhole, DrainInv, HoldsDevice
<1>3. Disjoint'
    BY DEF TypeOK, Disjoint, DeviceInv, HoldsDevice, HoldsProxy
<1>4. (LockInv /\ SpawnInv /\ InstalledWhole /\ ProxyInv /\ DrainInv /\
      RefreshInv /\ TunnelInv)'
    BY DEF TypeOK, LockInv, SpawnInv, InstalledWhole, ProxyInv, DrainInv,
       RefreshInv, TunnelInv, Refreshing, HoldsProxy
<1> QED BY <1>1, <1>2, <1>3, <1>4 DEF IInv

\* A failed build leaves the resources alone.
LEMMA BuildTunnelFailsKeeps ==
    ASSUME NEW t \in Threads, IInv, BuildTunnelFails(t) PROVE IInv'
<1> USE ConstAssumption DEF IInv, BuildTunnelFails, AttemptFailed, Goto, mgr,
   res, loc, Threads
<1>1. TypeOK'
    BY MaxAttNat DEF TypeOK, Life, PCs, States, Rets
<1>2. (LockInv /\ SpawnInv /\ InstalledWhole /\ DeviceInv /\ ProxyInv /\
      Disjoint /\ DrainInv /\ RefreshInv /\ TunnelInv)'
    BY DEF TypeOK, LockInv, SpawnInv, InstalledWhole, DeviceInv, ProxyInv,
       Disjoint, DrainInv, RefreshInv, TunnelInv, Refreshing, HoldsDevice,
       HoldsProxy
<1> QED BY <1>1, <1>2 DEF IInv

\* A logged-out session changes the state only.
LEMMA BuildTunnelLoggedOutKeeps ==
    ASSUME NEW t \in Threads, IInv, BuildTunnelLoggedOut(t) PROVE IInv'
<1> USE ConstAssumption DEF IInv, BuildTunnelLoggedOut, AttemptFailed, Goto,
   mgr, res, loc, Threads
<1>1. TypeOK'
    BY MaxAttNat DEF TypeOK, Life, PCs, States, Rets
<1>2. (LockInv /\ SpawnInv /\ InstalledWhole /\ DeviceInv /\ ProxyInv /\
      Disjoint /\ DrainInv /\ RefreshInv /\ TunnelInv)'
    BY DEF TypeOK, LockInv, SpawnInv, InstalledWhole, DeviceInv, ProxyInv,
       Disjoint, DrainInv, RefreshInv, TunnelInv, Refreshing, HoldsDevice,
       HoldsProxy
<1> QED BY <1>1, <1>2 DEF IInv

\* A new proxy is nobody else's, and dials through the builder's device.
LEMMA ListenKeeps ==
    ASSUME NEW t \in Threads, IInv, Listen(t) PROVE IInv'
<1> USE ConstAssumption DEF IInv, Listen, Goto, mgr, res, loc, Threads
<1>1. TypeOK'
    BY MaxAttNat DEF TypeOK, Life, PCs, States, Rets
<1>2. ProxyInv'
    BY DEF TypeOK, ProxyInv, InstalledWhole, HoldsProxy
<1>3. Disjoint'
    BY DEF TypeOK, Disjoint, ProxyInv, HoldsDevice, HoldsProxy
<1>4. TunnelInv'
    BY DEF TypeOK, TunnelInv, InstalledWhole
<1>5. (LockInv /\ SpawnInv /\ InstalledWhole /\ DeviceInv /\ DrainInv /\
      RefreshInv)'
    BY DEF TypeOK, LockInv, SpawnInv, InstalledWhole, DeviceInv, DrainInv,
       RefreshInv, Refreshing, HoldsDevice
<1> QED BY <1>1, <1>2, <1>3, <1>4, <1>5 DEF IInv

\* The device that is closed was only in this goroutine's hands.
LEMMA ListenFailsKeeps ==
    ASSUME NEW t \in Threads, IInv, ListenFails(t) PROVE IInv'
<1> USE ConstAssumption DEF IInv, ListenFails, AttemptFailed, Goto, mgr, res,
   loc, Threads
<1>1. TypeOK'
    BY MaxAttNat DEF TypeOK, DeviceInv, Life, PCs, States, Rets, HoldsDevice
<1>2. InstalledWhole'
    BY DEF TypeOK, InstalledWhole, DeviceInv, HoldsDevice
<1>3. DeviceInv'
    BY DEF TypeOK, DeviceInv, Disjoint, HoldsDevice, HoldsProxy
<1>4. DrainInv'
    BY DEF TypeOK, DrainInv, DeviceInv, HoldsDevice
<1>5. (LockInv /\ SpawnInv /\ ProxyInv /\ Disjoint /\ RefreshInv /\
      TunnelInv)'
    BY DEF TypeOK, LockInv, SpawnInv, ProxyInv, Disjoint, RefreshInv,
       TunnelInv, Refreshing, HoldsProxy, HoldsDevice
<1> QED BY <1>1, <1>2, <1>3, <1>4, <1>5 DEF IInv

\* What is installed leaves the goroutine's hands in the same step; the loops
\* that start were off, since the proxy had not been published.
LEMMA PublishKeeps ==
    ASSUME NEW t \in Threads, IInv, Publish(t) PROVE IInv'
<1> USE ConstAssumption DEF IInv, Publish, Home, mgr, res, loc, Threads
<1>1. TypeOK'
    BY MaxAttNat DEF TypeOK, DeviceInv, ProxyInv, Life, PCs, States, Rets,
       HoldsDevice, HoldsProxy
<1>2. LockInv'
    BY LoopOf DEF TypeOK, LockInv, SpawnInv, ProxyInv, Refreshing, HoldsProxy
<1>3. SpawnInv'
    BY LoopOf DEF TypeOK, SpawnInv, ProxyInv, Disjoint, HoldsProxy,
       HoldsDevice
<1>4. InstalledWhole'
    BY DEF TypeOK, InstalledWhole, DeviceInv, ProxyInv, HoldsDevice,
       HoldsProxy
<1>5. DeviceInv'
    BY DEF TypeOK, DeviceInv, Disjoint, HoldsDevice, HoldsProxy
<1>6. ProxyInv'
    BY DEF TypeOK, ProxyInv, Disjoint, HoldsProxy, HoldsDevice
<1>7. DrainInv'
    BY DEF TypeOK, DrainInv, DeviceInv, HoldsDevice
<1>8. TunnelInv'
    BY DEF TypeOK, TunnelInv, ProxyInv, HoldsProxy
<1>9. (Disjoint /\ RefreshInv)'
    BY DEF TypeOK, Disjoint, RefreshInv, HoldsDevice, HoldsProxy, Refreshing
<1> QED BY <1>1, <1>2, <1>3, <1>4, <1>5, <1>6, <1>7, <1>8, <1>9 DEF IInv

\* The failure path sets the state before it tears anything down.
LEMMA ConnectFailedKeeps ==
    ASSUME NEW t \in Threads, IInv, ConnectFailed(t) PROVE IInv'
<1> USE ConstAssumption DEF IInv, ConnectFailed, Goto, mgr, res, loc, Threads
<1>1. TypeOK'
    BY MaxAttNat DEF TypeOK, Life, PCs, States, Rets
<1>2. (LockInv /\ SpawnInv /\ InstalledWhole /\ DeviceInv /\ ProxyInv /\
      Disjoint /\ DrainInv /\ RefreshInv /\ TunnelInv)'
    BY DEF TypeOK, LockInv, SpawnInv, InstalledWhole, DeviceInv, ProxyInv,
       Disjoint, DrainInv, RefreshInv, TunnelInv, Refreshing, HoldsDevice,
       HoldsProxy
<1> QED BY <1>1, <1>2 DEF IInv

-----------------------------------------------------------------------------
(***************************************************************************)
(* Teardown, Disconnect and Logout.                                        *)
(***************************************************************************)
\* What is taken out was open and in nobody else's hands.
LEMMA TeardownKeeps ==
    ASSUME NEW t \in Threads, IInv, Teardown(t) PROVE IInv'
<1> USE ConstAssumption DEF IInv, Teardown, Goto, mgr, res, loc, Threads
<1>1. TypeOK'
    BY MaxAttNat DEF TypeOK, Life, PCs, States, Rets
<1>2. DeviceInv'
    BY DEF TypeOK, DeviceInv, InstalledWhole, DrainInv, HoldsDevice
<1>3. ProxyInv'
    BY DEF TypeOK, ProxyInv, InstalledWhole, HoldsProxy
<1>4. Disjoint'
    BY DEF TypeOK, Disjoint, DeviceInv, ProxyInv, HoldsDevice, HoldsProxy
<1>5. (LockInv /\ SpawnInv /\ InstalledWhole /\ DrainInv /\ RefreshInv /\
      TunnelInv)'
    BY DEF TypeOK, LockInv, SpawnInv, InstalledWhole, DrainInv, RefreshInv,
       TunnelInv, Refreshing
<1> QED BY <1>1, <1>2, <1>3, <1>4, <1>5 DEF IInv

\* What is released was in this goroutine's hands only.
LEMMA ReleaseKeeps ==
    ASSUME NEW t \in Threads, IInv, Release(t) PROVE IInv'
<1> USE ConstAssumption DEF IInv, Release, Goto, Home, mgr, res, loc, Threads
<1>1. TypeOK'
    BY MaxAttNat DEF TypeOK, Life, PCs, States, Rets
<1>2. LockInv'
    BY DEF TypeOK, LockInv, Rets, Refreshing
<1>3. SpawnInv'
    BY LoopProxy DEF TypeOK, SpawnInv, Rets
<1>4. InstalledWhole'
    BY DEF TypeOK, InstalledWhole, DeviceInv, ProxyInv, Rets, HoldsDevice,
       HoldsProxy
<1>5. DeviceInv'
    BY DEF TypeOK, DeviceInv, Disjoint, Rets, HoldsDevice, HoldsProxy
<1>6. ProxyInv'
    BY DEF TypeOK, ProxyInv, Disjoint, Rets, HoldsProxy, HoldsDevice
<1>7. DrainInv'
    BY DEF TypeOK, DrainInv, DeviceInv, Rets, HoldsDevice
<1>8. (Disjoint /\ RefreshInv /\ TunnelInv)'
    BY DEF TypeOK, Disjoint, RefreshInv, TunnelInv, HoldsDevice, HoldsProxy,
       Refreshing, Rets
<1> QED BY <1>1, <1>2, <1>3, <1>4, <1>5, <1>6, <1>7, <1>8 DEF IInv

\* Disconnect claims the state before its teardown.
LEMMA DisconnectKeeps ==
    ASSUME NEW t \in Threads, IInv, Disconnect(t) PROVE IInv'
<1> USE ConstAssumption DEF IInv, Disconnect, Goto, mgr, res, loc, Threads
<1>1. TypeOK'
    BY MaxAttNat DEF TypeOK, Life, PCs, States, Rets
<1>2. (LockInv /\ SpawnInv /\ InstalledWhole /\ DeviceInv /\ ProxyInv /\
      Disjoint /\ DrainInv /\ RefreshInv /\ TunnelInv)'
    BY DEF TypeOK, LockInv, SpawnInv, InstalledWhole, DeviceInv, ProxyInv,
       Disjoint, DrainInv, RefreshInv, TunnelInv, Refreshing, HoldsDevice,
       HoldsProxy
<1> QED BY <1>1, <1>2 DEF IInv

\* Disconnect ends with the state only.
LEMMA DisconnectDoneKeeps ==
    ASSUME NEW t \in Threads, IInv, DisconnectDone(t) PROVE IInv'
<1> USE ConstAssumption DEF IInv, DisconnectDone, Goto, mgr, res, loc, Threads
<1>1. TypeOK'
    BY MaxAttNat DEF TypeOK, Life, PCs, States, Rets
<1>2. (LockInv /\ SpawnInv /\ InstalledWhole /\ DeviceInv /\ ProxyInv /\
      Disjoint /\ DrainInv /\ RefreshInv /\ TunnelInv)'
    BY DEF TypeOK, LockInv, SpawnInv, InstalledWhole, DeviceInv, ProxyInv,
       Disjoint, DrainInv, RefreshInv, TunnelInv, Refreshing, HoldsDevice,
       HoldsProxy
<1> QED BY <1>1, <1>2 DEF IInv

\* Logout goes straight to its teardown.
LEMMA LogoutKeeps ==
    ASSUME NEW t \in Threads, IInv, Logout(t) PROVE IInv'
<1> USE ConstAssumption DEF IInv, Logout, Goto, mgr, res, loc, Threads
<1>1. TypeOK'
    BY MaxAttNat DEF TypeOK, Life, PCs, States, Rets
<1>2. (LockInv /\ SpawnInv /\ InstalledWhole /\ DeviceInv /\ ProxyInv /\
      Disjoint /\ DrainInv /\ RefreshInv /\ TunnelInv)'
    BY DEF TypeOK, LockInv, SpawnInv, InstalledWhole, DeviceInv, ProxyInv,
       Disjoint, DrainInv, RefreshInv, TunnelInv, Refreshing, HoldsDevice,
       HoldsProxy
<1> QED BY <1>1, <1>2 DEF IInv

\* Logout ends with the state only.
LEMMA LogoutDoneKeeps ==
    ASSUME NEW t \in Threads, IInv, LogoutDone(t) PROVE IInv'
<1> USE ConstAssumption DEF IInv, LogoutDone, Goto, mgr, res, loc, Threads
<1>1. TypeOK'
    BY MaxAttNat DEF TypeOK, Life, PCs, States, Rets
<1>2. (LockInv /\ SpawnInv /\ InstalledWhole /\ DeviceInv /\ ProxyInv /\
      Disjoint /\ DrainInv /\ RefreshInv /\ TunnelInv)'
    BY DEF TypeOK, LockInv, SpawnInv, InstalledWhole, DeviceInv, ProxyInv,
       Disjoint, DrainInv, RefreshInv, TunnelInv, Refreshing, HoldsDevice,
       HoldsProxy
<1> QED BY <1>1, <1>2 DEF IInv

-----------------------------------------------------------------------------
(***************************************************************************)
(* The one-section operations.                                             *)
(***************************************************************************)
\* The node list changes the state only.
LEMMA ServersLoggedOutKeeps ==
    ASSUME IInv, ServersLoggedOut PROVE IInv'
<1> USE ConstAssumption DEF IInv, ServersLoggedOut, mgr, res, loc, Threads
<1>1. TypeOK'
    BY MaxAttNat DEF TypeOK, Life, PCs, States, Rets
<1>2. (LockInv /\ SpawnInv /\ InstalledWhole /\ DeviceInv /\ ProxyInv /\
      Disjoint /\ DrainInv /\ RefreshInv /\ TunnelInv)'
    BY DEF TypeOK, LockInv, SpawnInv, InstalledWhole, DeviceInv, ProxyInv,
       Disjoint, DrainInv, RefreshInv, TunnelInv, Refreshing, HoldsDevice,
       HoldsProxy
<1> QED BY <1>1, <1>2 DEF IInv

\* A login changes the state only.
LEMMA SetLoggedInKeeps ==
    ASSUME IInv, SetLoggedIn PROVE IInv'
<1> USE ConstAssumption DEF IInv, SetLoggedIn, mgr, res, loc, Threads
<1>1. TypeOK'
    BY MaxAttNat DEF TypeOK, Life, PCs, States, Rets
<1>2. (LockInv /\ SpawnInv /\ InstalledWhole /\ DeviceInv /\ ProxyInv /\
      Disjoint /\ DrainInv /\ RefreshInv /\ TunnelInv)'
    BY DEF TypeOK, LockInv, SpawnInv, InstalledWhole, DeviceInv, ProxyInv,
       Disjoint, DrainInv, RefreshInv, TunnelInv, Refreshing, HoldsDevice,
       HoldsProxy
<1> QED BY <1>1, <1>2 DEF IInv

\* A new listen address touches no proxy that listens.
LEMMA UpdateConfigKeeps ==
    ASSUME NEW a \in Addrs, IInv, UpdateConfig(a) PROVE IInv'
<1> USE ConstAssumption DEF IInv, UpdateConfig, mgr, res, loc, Threads
<1>1. TypeOK'
    BY MaxAttNat DEF TypeOK, Life, PCs, States, Rets
<1>2. (LockInv /\ SpawnInv /\ InstalledWhole /\ DeviceInv /\ ProxyInv /\
      Disjoint /\ DrainInv /\ RefreshInv /\ TunnelInv)'
    BY DEF TypeOK, LockInv, SpawnInv, InstalledWhole, DeviceInv, ProxyInv,
       Disjoint, DrainInv, RefreshInv, TunnelInv, Refreshing, HoldsDevice,
       HoldsProxy
<1> QED BY <1>1, <1>2 DEF IInv

-----------------------------------------------------------------------------
(***************************************************************************)
(* The refresh, the drain and the reconnect.                               *)
(***************************************************************************)
\* The snapshot is of the installed tunnel, under refreshMu.
LEMMA RefreshBeginKeeps ==
    ASSUME NEW t \in Threads, IInv, RefreshBegin(t) PROVE IInv'
<1> USE ConstAssumption DEF IInv, RefreshBegin, Goto, mgr, res, loc, Threads
<1>1. TypeOK'
    BY MaxAttNat DEF TypeOK, Life, PCs, States, Rets
<1>2. RefreshInv'
    BY DEF TypeOK, RefreshInv, InstalledWhole, ProxyInv, Refreshing,
       HoldsProxy
<1>3. (LockInv /\ SpawnInv /\ InstalledWhole /\ DeviceInv /\ ProxyInv /\
      Disjoint /\ DrainInv /\ TunnelInv)'
    BY DEF TypeOK, LockInv, SpawnInv, InstalledWhole, DeviceInv, ProxyInv,
       Disjoint, DrainInv, TunnelInv, Refreshing, HoldsDevice, HoldsProxy
<1> QED BY <1>1, <1>2, <1>3 DEF IInv

\* The replacement device is nobody else's.
LEMMA RefreshBuildKeeps ==
    ASSUME NEW t \in Threads, IInv, RefreshBuild(t) PROVE IInv'
<1> USE ConstAssumption DEF IInv, RefreshBuild, Goto, mgr, res, loc, Threads
<1>1. TypeOK'
    BY MaxAttNat DEF TypeOK, Life, PCs, States, Rets
<1>2. DeviceInv'
    BY DEF TypeOK, DeviceInv, InstalledWhole, DrainInv, HoldsDevice
<1>3. Disjoint'
    BY DEF TypeOK, Disjoint, DeviceInv, HoldsDevice, HoldsProxy
<1>4. (LockInv /\ SpawnInv /\ InstalledWhole /\ ProxyInv /\ DrainInv /\
      RefreshInv /\ TunnelInv)'
    BY DEF TypeOK, LockInv, SpawnInv, InstalledWhole, ProxyInv, DrainInv,
       RefreshInv, TunnelInv, Refreshing, HoldsProxy
<1> QED BY <1>1, <1>2, <1>3, <1>4 DEF IInv

\* A failed refresh unlocks refreshMu and keeps nothing.
LEMMA RefreshBuildFailsKeeps ==
    ASSUME NEW t \in Threads, IInv, RefreshBuildFails(t) PROVE IInv'
<1> USE ConstAssumption DEF IInv, RefreshBuildFails, RefreshErr,
   RefreshReturns, Goto, mgr, res, loc, Threads
<1>1. TypeOK'
    BY MaxAttNat DEF TypeOK, Life, PCs, States, Rets
<1>2. (LockInv /\ SpawnInv /\ InstalledWhole /\ DeviceInv /\ ProxyInv /\
      Disjoint /\ DrainInv /\ RefreshInv /\ TunnelInv)'
    BY DEF TypeOK, LockInv, SpawnInv, InstalledWhole, DeviceInv, ProxyInv,
       Disjoint, DrainInv, RefreshInv, TunnelInv, Refreshing, HoldsDevice,
       HoldsProxy
<1> QED BY <1>1, <1>2 DEF IInv

\* A refresh that meets a logged-out session keeps nothing either.
LEMMA RefreshBuildLoggedOutKeeps ==
    ASSUME NEW t \in Threads, IInv, RefreshBuildLoggedOut(t) PROVE IInv'
<1> USE ConstAssumption DEF IInv, RefreshBuildLoggedOut, RefreshErr,
   RefreshReturns, Goto, mgr, res, loc, Threads
<1>1. TypeOK'
    BY MaxAttNat DEF TypeOK, Life, PCs, States, Rets
<1>2. (LockInv /\ SpawnInv /\ InstalledWhole /\ DeviceInv /\ ProxyInv /\
      Disjoint /\ DrainInv /\ RefreshInv /\ TunnelInv)'
    BY DEF TypeOK, LockInv, SpawnInv, InstalledWhole, DeviceInv, ProxyInv,
       Disjoint, DrainInv, RefreshInv, TunnelInv, Refreshing, HoldsDevice,
       HoldsProxy
<1> QED BY <1>1, <1>2 DEF IInv

\* The replacement that failed its probe was in the refresh's hands only.
LEMMA ProbeFailsKeeps ==
    ASSUME NEW t \in Threads, IInv, ProbeFails(t) PROVE IInv'
<1> USE ConstAssumption DEF IInv, ProbeFails, RefreshErr, RefreshReturns,
   Goto, mgr, res, loc, Threads
<1>1. TypeOK'
    BY MaxAttNat DEF TypeOK, DeviceInv, Life, PCs, States, Rets, HoldsDevice
<1>2. InstalledWhole'
    BY DEF TypeOK, InstalledWhole, DeviceInv, HoldsDevice
<1>3. DeviceInv'
    BY DEF TypeOK, DeviceInv, Disjoint, HoldsDevice, HoldsProxy
<1>4. DrainInv'
    BY DEF TypeOK, DrainInv, DeviceInv, HoldsDevice
<1>5. (LockInv /\ SpawnInv /\ ProxyInv /\ Disjoint /\ RefreshInv /\
      TunnelInv)'
    BY DEF TypeOK, LockInv, SpawnInv, ProxyInv, Disjoint, RefreshInv,
       TunnelInv, Refreshing, HoldsProxy, HoldsDevice
<1> QED BY <1>1, <1>2, <1>3, <1>4, <1>5 DEF IInv

\* Only the holder of refreshMu swaps the tunnel of a published proxy.
LEMMA SetTunnelKeeps ==
    ASSUME NEW t \in Threads, IInv, SetTunnel(t) PROVE IInv'
<1> USE ConstAssumption DEF IInv, SetTunnel, Goto, mgr, res, loc, Threads
<1>1. TypeOK'
    BY MaxAttNat DEF TypeOK, Life, PCs, States, Rets
<1>2. ProxyInv'
    BY DEF TypeOK, ProxyInv, RefreshInv, HoldsProxy, Refreshing
<1>3. RefreshInv'
    BY DEF TypeOK, RefreshInv, LockInv, Refreshing
<1>4. (LockInv /\ SpawnInv /\ InstalledWhole /\ DeviceInv /\ Disjoint /\
      DrainInv /\ TunnelInv)'
    BY DEF TypeOK, LockInv, SpawnInv, InstalledWhole, DeviceInv, Disjoint,
       DrainInv, TunnelInv, Refreshing, HoldsDevice, HoldsProxy
<1> QED BY <1>1, <1>2, <1>3, <1>4 DEF IInv

\* With the same proxy installed, the device retired is the one snapshotted,
\* so the drain gets a device that nobody else has.
LEMMA RefreshInstallKeeps ==
    ASSUME NEW t \in Threads, IInv, RefreshInstall(t) PROVE IInv'
<1> USE ConstAssumption DEF IInv, RefreshInstall, SameConnection,
   RefreshReturns, Goto, mgr, res, loc, Threads
<1>1. TypeOK'
    BY MaxAttNat DEF TypeOK, DeviceInv, RefreshInv, Life, PCs, States, Rets,
       HoldsDevice, Refreshing
<1>2. InstalledWhole'
    BY DEF TypeOK, InstalledWhole, DeviceInv, RefreshInv, HoldsDevice,
       Refreshing
<1>3. DeviceInv'
    BY DEF TypeOK, DeviceInv, Disjoint, RefreshInv, HoldsDevice, HoldsProxy,
       Refreshing
<1>4. DrainInv'
    BY DEF TypeOK, DrainInv, DeviceInv, RefreshInv, InstalledWhole,
       HoldsDevice, Refreshing
<1>5. RefreshInv'
    BY DEF TypeOK, RefreshInv, LockInv, Refreshing
<1>6. TunnelInv'
    BY DEF TypeOK, TunnelInv, RefreshInv, Refreshing
<1>7. (LockInv /\ SpawnInv /\ ProxyInv /\ Disjoint)'
    BY DEF TypeOK, LockInv, SpawnInv, ProxyInv, Disjoint, Refreshing,
       HoldsProxy, HoldsDevice
<1> QED BY <1>1, <1>2, <1>3, <1>4, <1>5, <1>6, <1>7 DEF IInv

\* The replacement that is closed was in the refresh's hands only.
LEMMA RefreshAbandonKeeps ==
    ASSUME NEW t \in Threads, IInv, RefreshAbandon(t) PROVE IInv'
<1> USE ConstAssumption DEF IInv, RefreshAbandon, SameConnection,
   RefreshReturns, Goto, mgr, res, loc, Threads
<1>1. TypeOK'
    BY MaxAttNat DEF TypeOK, DeviceInv, Life, PCs, States, Rets, HoldsDevice
<1>2. InstalledWhole'
    BY DEF TypeOK, InstalledWhole, DeviceInv, HoldsDevice
<1>3. DeviceInv'
    BY DEF TypeOK, DeviceInv, Disjoint, HoldsDevice, HoldsProxy
<1>4. DrainInv'
    BY DEF TypeOK, DrainInv, DeviceInv, HoldsDevice
<1>5. (LockInv /\ SpawnInv /\ ProxyInv /\ Disjoint /\ RefreshInv /\
      TunnelInv)'
    BY DEF TypeOK, LockInv, SpawnInv, ProxyInv, Disjoint, RefreshInv,
       TunnelInv, Refreshing, HoldsProxy, HoldsDevice
<1> QED BY <1>1, <1>2, <1>3, <1>4, <1>5 DEF IInv

\* A draining device is not installed.
LEMMA DrainKeeps ==
    ASSUME NEW d \in Devices, IInv, Drain(d) PROVE IInv'
<1> USE ConstAssumption DEF IInv, Drain, mgr, res, loc, Threads
<1>1. TypeOK'
    BY MaxAttNat DEF TypeOK, Life, PCs, States, Rets
<1>2. InstalledWhole'
    BY DEF TypeOK, InstalledWhole, DrainInv
<1>3. (LockInv /\ SpawnInv /\ DeviceInv /\ ProxyInv /\ Disjoint /\ DrainInv /\
      RefreshInv /\ TunnelInv)'
    BY DEF TypeOK, LockInv, SpawnInv, DeviceInv, ProxyInv, Disjoint, DrainInv,
       RefreshInv, TunnelInv, Refreshing, HoldsDevice, HoldsProxy
<1> QED BY <1>1, <1>2, <1>3 DEF IInv

\* A loop at its select holds nothing.
LEMMA LoopExitKeeps ==
    ASSUME NEW t \in Threads, IInv, LoopExit(t) PROVE IInv'
<1> USE ConstAssumption DEF IInv, LoopExit, Goto, mgr, res, loc, Threads
<1>1. TypeOK'
    BY MaxAttNat DEF TypeOK, Life, PCs, States, Rets
<1>2. (LockInv /\ SpawnInv /\ InstalledWhole /\ DeviceInv /\ ProxyInv /\
      Disjoint /\ DrainInv /\ RefreshInv /\ TunnelInv)'
    BY DEF TypeOK, LockInv, SpawnInv, InstalledWhole, DeviceInv, ProxyInv,
       Disjoint, DrainInv, RefreshInv, TunnelInv, Refreshing, HoldsDevice,
       HoldsProxy
<1> QED BY <1>1, <1>2 DEF IInv

\* Reconnect claims the state before its teardown.
LEMMA ReconnectKeeps ==
    ASSUME NEW t \in Threads, IInv, Reconnect(t) PROVE IInv'
<1> USE ConstAssumption DEF IInv, Reconnect, Goto, mgr, res, loc, Threads
<1>1. TypeOK'
    BY MaxAttNat DEF TypeOK, Life, PCs, States, Rets
<1>2. (LockInv /\ SpawnInv /\ InstalledWhole /\ DeviceInv /\ ProxyInv /\
      Disjoint /\ DrainInv /\ RefreshInv /\ TunnelInv)'
    BY DEF TypeOK, LockInv, SpawnInv, InstalledWhole, DeviceInv, ProxyInv,
       Disjoint, DrainInv, RefreshInv, TunnelInv, Refreshing, HoldsDevice,
       HoldsProxy
<1> QED BY <1>1, <1>2 DEF IInv

\* A reconnect that lost the race changes nothing.
LEMMA ReconnectYieldsKeeps ==
    ASSUME NEW t \in Threads, IInv, ReconnectYields(t) PROVE IInv'
<1> USE ConstAssumption DEF IInv, ReconnectYields, Goto, mgr, res, loc,
   Threads
<1>1. TypeOK'
    BY MaxAttNat DEF TypeOK, Life, PCs, States, Rets
<1>2. (LockInv /\ SpawnInv /\ InstalledWhole /\ DeviceInv /\ ProxyInv /\
      Disjoint /\ DrainInv /\ RefreshInv /\ TunnelInv)'
    BY DEF TypeOK, LockInv, SpawnInv, InstalledWhole, DeviceInv, ProxyInv,
       Disjoint, DrainInv, RefreshInv, TunnelInv, Refreshing, HoldsDevice,
       HoldsProxy
<1> QED BY <1>1, <1>2 DEF IInv

-----------------------------------------------------------------------------
\* Every step of the manager preserves IInv.
LEMMA NextIInv == IInv /\ [Next]_vars => IInv'
<1> SUFFICES ASSUME IInv, [Next]_vars PROVE IInv'
    OBVIOUS
<1>1. CASE Environment
    BY <1>1, ConnectKeeps, DisconnectKeeps, LogoutKeeps, ServersLoggedOutKeeps,
       SetLoggedInKeeps, UpdateConfigKeeps, RefreshBeginKeeps DEF Environment, Threads
<1>2. ASSUME NEW t \in Threads, Step(t) PROVE IInv'
    BY <1>2, BuildTunnelKeeps, BuildTunnelFailsKeeps, BuildTunnelLoggedOutKeeps,
       ListenKeeps, ListenFailsKeeps, PublishKeeps, ConnectFailedKeeps, TeardownKeeps,
       ReleaseKeeps, DisconnectDoneKeeps, LogoutDoneKeeps, RefreshBuildKeeps,
       RefreshBuildFailsKeeps, RefreshBuildLoggedOutKeeps, ProbeFailsKeeps,
       SetTunnelKeeps, RefreshInstallKeeps, RefreshAbandonKeeps, ReconnectKeeps,
       ReconnectYieldsKeeps DEF Step
<1>3. ASSUME NEW t \in Loops, LoopExit(t) PROVE IInv'
    BY <1>3, LoopExitKeeps DEF Threads
<1>4. ASSUME NEW d \in Devices, Drain(d) PROVE IInv'
    BY <1>4, DrainKeeps
<1>5. CASE UNCHANGED vars
  <2> USE <1>5 DEF IInv, vars, mgr, res, loc
  <2>1. (TypeOK /\ LockInv /\ SpawnInv /\ InstalledWhole /\ DrainInv)'
      BY DEF TypeOK, LockInv, SpawnInv, InstalledWhole, DrainInv
  <2>2. (DeviceInv /\ ProxyInv /\ Disjoint /\ RefreshInv /\ TunnelInv)'
      BY DEF DeviceInv, ProxyInv, Disjoint, RefreshInv, TunnelInv, HoldsDevice, HoldsProxy
  <2> QED BY <2>1, <2>2
<1> QED BY <1>1, <1>2, <1>3, <1>4, <1>5 DEF Next

\* The ownership invariant holds in every reachable state.
THEOREM Ownership == Spec => []IInv
BY InitIInv, NextIInv, PTL DEF Spec

\* The manager's variables keep their types and no retry loop exceeds its
\* number of attempts.
THEOREM TypeCorrect == Spec => []TypeOK
<1>1. IInv => TypeOK
    BY DEF IInv
<1> QED BY <1>1, Ownership, PTL

\* The tunnel is installed whole or not at all, and never after its release,
\* whichever handlers, refreshes, drains and reconnects interleave.
THEOREM InstalledWholeAlways == Spec => []InstalledWhole
<1>1. IInv => InstalledWhole
    BY DEF IInv
<1> QED BY <1>1, Ownership, PTL

\* Make-before-break: while the manager says connected, the installed proxy
\* dials through a device that nobody has closed.
THEOREM ServingTunnelOpenAlways == Spec => []ServingTunnelOpen
<1>1. IInv => ServingTunnelOpen
  <2> SUFFICES ASSUME IInv, state = "connected", proxy # NoPx
               PROVE pxTun[proxy] \in Devices /\ devSt[pxTun[proxy]] = "open"
      BY DEF ServingTunnelOpen
  <2> USE ConstAssumption DEF IInv, TypeOK
  <2>1. CASE pxTun[proxy] = device
      BY <2>1 DEF InstalledWhole
  <2>2. ASSUME NEW t \in Threads, pc[t] = "recheck", hpx[t] = proxy
        PROVE pxTun[proxy] \in Devices /\ devSt[pxTun[proxy]] = "open"
    <3>1. pxTun[proxy] = hdev[t]
        BY <2>2 DEF RefreshInv, Refreshing
    <3>2. hdev[t] \in Devices /\ devSt[hdev[t]] = "open"
        BY <2>2 DEF DeviceInv, HoldsDevice
    <3> QED BY <3>1, <3>2
  <2> QED BY <2>1, <2>2 DEF TunnelInv
<1> QED BY <1>1, Ownership, PTL

-----------------------------------------------------------------------------
(***************************************************************************)
(* Nothing leaks as long as the listen address does not change: a second   *)
(* connection cannot be published over the first one, because its proxy    *)
(* could not have listened.                                                *)
(***************************************************************************)
OneAddr == \A a, b \in Addrs : a = b

\* Proxies that listen have different addresses.
PortInv ==
    \A p, q \in Proxies :
        pxSt[p] = "open" /\ pxSt[q] = "open" /\ p # q => pxAddr[p] # pxAddr[q]

\* Only Listen opens a proxy, on a free port.
LEMMA NextPortInv == IInv /\ PortInv /\ [Next]_vars => PortInv'
<1> SUFFICES ASSUME IInv, PortInv, [Next]_vars PROVE PortInv'
    OBVIOUS
<1> USE DEF IInv, TypeOK, PortInv
<1>1. ASSUME NEW t \in Threads, Listen(t) PROVE PortInv'
    BY <1>1 DEF Listen, PortFree
<1>2. ASSUME NEW t \in Threads, Release(t) PROVE PortInv'
    BY <1>2 DEF Release
<1>3. CASE UNCHANGED <<pxSt, pxAddr>>
    BY <1>3
<1>4. ASSUME NEW t \in Threads, Step(t)
      PROVE Listen(t) \/ Release(t) \/ UNCHANGED <<pxSt, pxAddr>>
    BY <1>4 DEF Step, BuildTunnel, BuildTunnelFails, BuildTunnelLoggedOut, ListenFails,
       Publish, ConnectFailed, Teardown, DisconnectDone, LogoutDone, RefreshBuild,
       RefreshBuildFails, RefreshBuildLoggedOut, ProbeFails, SetTunnel, RefreshInstall,
       RefreshAbandon, Reconnect, ReconnectYields, res
<1>5. ASSUME Environment PROVE UNCHANGED <<pxSt, pxAddr>>
    BY <1>5 DEF Environment, Connect, Disconnect, Logout, ServersLoggedOut, SetLoggedIn,
       UpdateConfig, RefreshBegin, res
<1> QED BY <1>1, <1>2, <1>3, <1>4, <1>5 DEF Next, LoopExit, Drain, vars, res

\* With one listen address nothing is installed when a connection is
\* published, so nothing is overwritten.
LEMMA PublishOverNothing ==
    ASSUME OneAddr, IInv, PortInv, NEW t \in Threads, Publish(t)
    PROVE proxy = NoPx /\ device = NoDev
<1> USE DEF IInv
<1>1. hpx[t] \in Proxies /\ pxSt[hpx[t]] = "open" /\ hpx[t] # proxy
    BY ConstAssumption DEF ProxyInv, HoldsProxy, Publish
<1>2. proxy # NoPx => proxy \in Proxies /\ pxSt[proxy] = "open"
    BY DEF TypeOK, InstalledWhole
<1>3. proxy = NoPx
    BY <1>1, <1>2 DEF PortInv, OneAddr, TypeOK
<1> QED BY <1>3 DEF InstalledWhole

\* Every step keeps every open device and proxy in some owner's hands.
LEMMA NextNoOrphans ==
    ASSUME OneAddr, IInv, PortInv, NoOrphans, [Next]_vars PROVE NoOrphans'
<1> USE ConstAssumption DEF IInv, TypeOK, NoOrphans, HoldsDevice, HoldsProxy, Threads,
        mgr, res, loc, Goto, AttemptFailed, RefreshReturns, RefreshErr
<1>1. CASE Environment
    BY <1>1 DEF Environment, Connect, Disconnect, Logout, ServersLoggedOut, SetLoggedIn,
       UpdateConfig, RefreshBegin
<1>2. ASSUME NEW t \in Threads, Step(t) PROVE NoOrphans'
  <2>1. CASE BuildTunnel(t)
      BY <2>1 DEF BuildTunnel
  <2>2. CASE BuildTunnelFails(t)
      BY <2>2 DEF BuildTunnelFails
  <2>3. CASE BuildTunnelLoggedOut(t)
      BY <2>3 DEF BuildTunnelLoggedOut
  <2>4. CASE Listen(t)
      BY <2>4 DEF Listen
  <2>5. CASE ListenFails(t)
      BY <2>5 DEF ListenFails, DeviceInv
  <2>6. CASE Publish(t)
    <3>1. proxy = NoPx /\ device = NoDev
        BY <2>6, PublishOverNothing
    <3>2. hpx[t] \in Proxies
        BY <2>6 DEF Publish, ProxyInv
    <3>3. ASSUME NEW u \in Threads, u # t, HoldsDevice(u)
          PROVE pc'[u] = pc[u] /\ hdev'[u] = hdev[u] /\ hpx'[u] = hpx[u]
      <4>1. u \notin {Refresher(hpx[t]), Watchdog(hpx[t])}
          BY <2>6, <3>2, <3>3, LoopOf DEF Publish, SpawnInv
      <4> QED BY <2>6, <3>3, <4>1 DEF Publish
    <3>4. device' = hdev[t] /\ proxy' = hpx[t] /\ devSt' = devSt /\ pxSt' = pxSt
          /\ draining' = draining /\ live' = live \cup {hpx[t]}
        BY <2>6 DEF Publish
    <3>5. ASSUME NEW d \in Devices, devSt'[d] = "open"
          PROVE \/ d = device' \/ d \in draining'
                \/ \E u \in Threads : HoldsDevice(u)' /\ hdev'[u] = d
        BY <3>1, <3>3, <3>4, <3>5
    <3>6. ASSUME NEW p \in Proxies, pxSt'[p] = "open" \/ p \in live'
          PROVE p = proxy' \/ \E u \in Threads : HoldsProxy(u)' /\ hpx'[u] = p
        BY <3>1, <3>3, <3>4, <3>6
    <3> QED BY <3>5, <3>6
  <2>7. CASE ConnectFailed(t)
      BY <2>7 DEF ConnectFailed
  <2>8. CASE Teardown(t)
      BY <2>8 DEF Teardown
  <2>9. CASE Release(t)
      BY <2>9 DEF Release, Disjoint
  <2>10. CASE DisconnectDone(t) \/ LogoutDone(t)
      BY <2>10 DEF DisconnectDone, LogoutDone
  <2>11. CASE RefreshBuild(t)
      BY <2>11 DEF RefreshBuild
  <2>12. CASE RefreshBuildFails(t) \/ RefreshBuildLoggedOut(t)
      BY <2>12 DEF RefreshBuildFails, RefreshBuildLoggedOut
  <2>13. CASE ProbeFails(t)
      BY <2>13 DEF ProbeFails, DeviceInv
  <2>14. CASE SetTunnel(t)
      BY <2>14 DEF SetTunnel
  <2>15. CASE RefreshInstall(t)
      BY <2>15 DEF RefreshInstall, SameConnection, RefreshInv, Refreshing, DeviceInv
  <2>16. CASE RefreshAbandon(t)
      BY <2>16 DEF RefreshAbandon, DeviceInv
  <2>17. CASE Reconnect(t) \/ ReconnectYields(t)
      BY <2>17 DEF Reconnect, ReconnectYields
  <2> QED BY <1>2, <2>1, <2>2, <2>3, <2>4, <2>5, <2>6, <2>7, <2>8, <2>9, <2>10, <2>11,
             <2>12, <2>13, <2>14, <2>15, <2>16, <2>17 DEF Step
<1>3. ASSUME NEW t \in Loops, LoopExit(t) PROVE NoOrphans'
    BY <1>3 DEF LoopExit
<1>4. ASSUME NEW d \in Devices, Drain(d) PROVE NoOrphans'
    BY <1>4 DEF Drain
<1>5. CASE UNCHANGED vars
    BY <1>5 DEF vars
<1> QED BY <1>1, <1>2, <1>3, <1>4, <1>5 DEF Next

\* With one listen address no device, listener or loop context is ever lost:
\* each is installed or in the hands of a goroutine that settles it.
THEOREM NoOrphansAlways == ASSUME OneAddr PROVE Spec => []NoOrphans
<1>1. Init => PortInv /\ NoOrphans
    BY DEF Init, PortInv, NoOrphans
<1>2. IInv /\ PortInv /\ NoOrphans /\ [Next]_vars => (PortInv /\ NoOrphans)'
    BY NextPortInv, NextNoOrphans
<1> QED BY <1>1, <1>2, Ownership, PTL DEF Spec

\* With one listen address, connects and reconnects that overlap never publish
\* one connection over another: only the port keeps the second one out.
THEOREM NothingOverwrittenAlways == ASSUME OneAddr PROVE Spec => NothingOverwritten
<1>1. Init => PortInv
    BY DEF Init, PortInv
<1>2. IInv /\ PortInv /\ [Next]_vars => PortInv'
    BY NextPortInv
<1>3. IInv /\ PortInv =>
        [\A t \in Threads : Publish(t) => device = NoDev /\ proxy = NoPx]_vars
    BY PublishOverNothing
<1> QED BY <1>1, <1>2, <1>3, Ownership, PTL DEF Spec, NothingOverwritten
-----------------------------------------------------------------------------
(***************************************************************************)
(* The manager implements Gateway.  Each lemma names the step of Gateway   *)
(* that an action of the manager is.                                       *)
(***************************************************************************)
\* The stage of a device, read off the manager's state.
LEMMA StageOfDevice ==
    ASSUME NEW d \in Devices
    PROVE /\ DeviceStage[d] =
                IF devSt[d] # "open" THEN devSt[d] ELSE
                IF d = device THEN "installed" ELSE
                IF Spare(d) THEN "spare" ELSE "retired"
          /\ DeviceStage'[d] =
                IF devSt'[d] # "open" THEN devSt'[d] ELSE
                IF d = device' THEN "installed" ELSE
                IF Spare(d)' THEN "spare" ELSE "retired"
BY DEF DeviceStage

\* A proxy that is built and not yet installed.
SpareProxy(p) == \E t \in Threads : pc[t] = "publish" /\ hpx[t] = p

\* The stage of a proxy, read off the manager's state.
LEMMA StageOfProxy ==
    ASSUME NEW p \in Proxies
    PROVE /\ ProxyStage[p] =
                IF pxSt[p] # "open" THEN pxSt[p] ELSE
                IF p = proxy THEN "installed" ELSE
                IF SpareProxy(p) THEN "spare" ELSE "retired"
          /\ ProxyStage'[p] =
                IF pxSt'[p] # "open" THEN pxSt'[p] ELSE
                IF p = proxy' THEN "installed" ELSE
                IF SpareProxy(p)' THEN "spare" ELSE "retired"
BY DEF ProxyStage, SpareProxy

\* A device keeps its stage if its life, its owner and the installed device
\* do not concern it.
SameDevice(d) ==
    /\ devSt'[d] = devSt[d]
    /\ (d = device') <=> (d = device)
    /\ Spare(d)' <=> Spare(d)

SameProxy(p) ==
    /\ pxSt'[p] = pxSt[p]
    /\ (p = proxy') <=> (p = proxy)
    /\ SpareProxy(p)' <=> SpareProxy(p)

\* Stages are functions on the devices and on the proxies.
LEMMA StageDomains ==
    /\ DeviceStage = [d \in Devices |-> DeviceStage[d]]
    /\ DeviceStage' = [d \in Devices |-> DeviceStage'[d]]
    /\ ProxyStage = [p \in Proxies |-> ProxyStage[p]]
    /\ ProxyStage' = [p \in Proxies |-> ProxyStage'[p]]
BY DEF DeviceStage, ProxyStage

\* What concerns no device leaves their stages alone.
LEMMA DevicesKept ==
    ASSUME \A d \in Devices : SameDevice(d) PROVE DeviceStage' = DeviceStage
<1>1. \A d \in Devices : DeviceStage'[d] = DeviceStage[d]
    BY StageOfDevice DEF SameDevice
<1> QED BY <1>1, StageDomains

\* What concerns no proxy leaves their stages alone.
LEMMA ProxiesKept ==
    ASSUME \A p \in Proxies : SameProxy(p) PROVE ProxyStage' = ProxyStage
<1>1. \A p \in Proxies : ProxyStage'[p] = ProxyStage[p]
    BY StageOfProxy DEF SameProxy
<1> QED BY <1>1, StageDomains

\* What concerns one device moves that one's stage only.
LEMMA DeviceMoved ==
    ASSUME NEW e \in Devices, \A d \in Devices : d # e => SameDevice(d)
    PROVE DeviceStage' = [DeviceStage EXCEPT ![e] = DeviceStage'[e]]
<1>1. \A d \in Devices : d # e => DeviceStage'[d] = DeviceStage[d]
    BY StageOfDevice DEF SameDevice
<1> QED BY <1>1, StageDomains

\* What concerns one proxy moves that one's stage only.
LEMMA ProxyMoved ==
    ASSUME NEW e \in Proxies, \A p \in Proxies : p # e => SameProxy(p)
    PROVE ProxyStage' = [ProxyStage EXCEPT ![e] = ProxyStage'[e]]
<1>1. \A p \in Proxies : p # e => ProxyStage'[p] = ProxyStage[p]
    BY StageOfProxy DEF SameProxy
<1> QED BY <1>1, StageDomains

\* Starting a device, for a connection or for a refresh, is BuildDevice.
LEMMA BuildIsBuildDevice ==
    ASSUME NEW t \in Threads, IInv, BuildTunnel(t) \/ RefreshBuild(t)
    PROVE \E d \in Devices : Gate!BuildDevice(d)
<1> USE DEF IInv, TypeOK
<1>1. PICK d \in Devices : /\ devSt[d] = "new"
                           /\ devSt' = [devSt EXCEPT ![d] = "open"]
                           /\ hdev' = [hdev EXCEPT ![t] = d]
    BY DEF BuildTunnel, RefreshBuild
<1>2. /\ pc[t] \in {"build", "rebuild"}
      /\ \E x \in {"listen", "probe"} : pc' = [pc EXCEPT ![t] = x]
      /\ device' = device /\ proxy' = proxy /\ pxSt' = pxSt /\ hpx' = hpx
    BY DEF BuildTunnel, RefreshBuild, Goto, mgr
<1>3. \A p \in Proxies : SameProxy(p)
    BY <1>2 DEF SameProxy, SpareProxy
<1>4. \A e \in Devices : e # d => SameDevice(e)
    BY <1>1, <1>2 DEF SameDevice, Spare
<1>5. Spare(d)' /\ d # device' /\ devSt'[d] = "open"
    BY <1>1, <1>2, ConstAssumption DEF Spare, InstalledWhole
<1>6. DeviceStage[d] = "new" /\ DeviceStage'[d] = "spare"
    BY <1>1, <1>5, StageOfDevice
<1> QED BY <1>3, <1>4, <1>6, DeviceMoved, ProxiesKept DEF Gate!BuildDevice

\* A proxy that listens waits to be installed.
LEMMA ListenIsBuildProxy ==
    ASSUME NEW t \in Threads, IInv, Listen(t)
    PROVE \E p \in Proxies : Gate!BuildProxy(p)
<1> USE DEF IInv, TypeOK
<1>1. PICK p \in Proxies : /\ pxSt[p] = "new"
                           /\ pxSt' = [pxSt EXCEPT ![p] = "open"]
                           /\ hpx' = [hpx EXCEPT ![t] = p]
    BY DEF Listen
<1>2. /\ pc[t] = "listen" /\ pc' = [pc EXCEPT ![t] = "publish"]
      /\ device' = device /\ proxy' = proxy /\ devSt' = devSt /\ hdev' = hdev
    BY DEF Listen, Goto, mgr
<1>3. \A d \in Devices : SameDevice(d)
    BY <1>2 DEF SameDevice, Spare
<1>4. \A q \in Proxies : q # p => SameProxy(q)
    BY <1>1, <1>2 DEF SameProxy, SpareProxy
<1>5. SpareProxy(p)' /\ p # proxy' /\ pxSt'[p] = "open"
    BY <1>1, <1>2, ConstAssumption DEF SpareProxy, InstalledWhole
<1>6. ProxyStage[p] = "new" /\ ProxyStage'[p] = "spare"
    BY <1>1, <1>5, StageOfProxy
<1> QED BY <1>3, <1>4, <1>6, DevicesKept, ProxyMoved DEF Gate!BuildProxy

\* The failure paths of a build close a device that was never installed.
LEMMA FailureIsDiscard ==
    ASSUME NEW t \in Threads, IInv, ListenFails(t) \/ ProbeFails(t) \/ RefreshAbandon(t)
    PROVE \E d \in Devices : Gate!Discard(d)
<1> USE DEF IInv, TypeOK
<1> DEFINE d == hdev[t]
<1>1. pc[t] \in {"listen", "probe", "recheck"}
    BY DEF ListenFails, ProbeFails, RefreshAbandon
<1>2. /\ devSt' = [devSt EXCEPT ![d] = "closed"]
      /\ hdev' = [hdev EXCEPT ![t] = NoDev]
      /\ \E x \in {"build", "failed", "rebuild", "reconnect", "loop"} :
            pc' = [pc EXCEPT ![t] = x]
    BY DEF ListenFails, ProbeFails, RefreshAbandon, AttemptFailed, RefreshErr,
       RefreshReturns, Goto
<1>3. device' = device /\ proxy' = proxy /\ pxSt' = pxSt
      /\ \A u \in Threads : u # t => hpx'[u] = hpx[u]
    BY DEF ListenFails, ProbeFails, RefreshAbandon, AttemptFailed, RefreshErr,
       RefreshReturns, mgr
<1>4. d \in Devices /\ devSt[d] = "open" /\ d # device
    BY <1>1, ConstAssumption DEF DeviceInv, HoldsDevice
<1>5. \A p \in Proxies : SameProxy(p)
    BY <1>1, <1>2, <1>3 DEF SameProxy, SpareProxy
<1>6. \A e \in Devices : e # d => SameDevice(e)
    BY <1>1, <1>2, <1>3 DEF SameDevice, Spare
<1>7. Spare(d)
    BY <1>1 DEF Spare
<1>8. DeviceStage[d] = "spare" /\ DeviceStage'[d] = "closed"
    BY <1>2, <1>4, <1>7, StageOfDevice
<1> QED BY <1>4, <1>5, <1>6, <1>8, DeviceMoved, ProxiesKept DEF Gate!Discard

\* Publishing installs the goroutine's device and proxy together; what was
\* installed before, if anything, is out from then on.
LEMMA PublishIsInstall ==
    ASSUME NEW t \in Threads, IInv, Publish(t)
    PROVE \E d \in Devices, p \in Proxies : Gate!Install(d, p)
<1> USE ConstAssumption DEF IInv, TypeOK
<1> DEFINE d == hdev[t]
           p == hpx[t]
<1>1. pc[t] = "publish" /\ device' = d /\ proxy' = p /\ devSt' = devSt /\ pxSt' = pxSt
    BY DEF Publish
<1>2. d \in Devices /\ devSt[d] = "open" /\ d # device
    BY <1>1 DEF DeviceInv, HoldsDevice
<1>3. p \in Proxies /\ pxSt[p] = "open" /\ p # proxy
    BY <1>1 DEF ProxyInv, HoldsProxy
<1>4. Spare(d) /\ SpareProxy(p)
    BY <1>1 DEF Spare, SpareProxy
<1>5. ASSUME NEW u \in Threads, u # t, HoldsDevice(u) \/ HoldsDevice(u)'
      PROVE pc'[u] = pc[u] /\ hdev'[u] = hdev[u] /\ hpx'[u] = hpx[u]
  <2>1. u \notin {Refresher(p), Watchdog(p)}
      BY <1>1, <1>3, <1>5, LoopOf DEF Publish, SpawnInv, HoldsDevice
  <2> QED BY <1>5, <2>1 DEF Publish
<1>6. ~HoldsDevice(t)'
    BY DEF Publish, Home, HoldsDevice
<1>7. \A e \in Devices : e # d => (Spare(e)' <=> Spare(e))
    BY <1>5, <1>6 DEF Spare, HoldsDevice
<1>8. \A q \in Proxies : q # p => (SpareProxy(q)' <=> SpareProxy(q))
    BY <1>5, <1>6 DEF SpareProxy, HoldsDevice
<1>9. ~Spare(device)
    BY DEF Spare, DeviceInv, HoldsDevice
<1>10. ~SpareProxy(proxy)
    BY DEF SpareProxy, ProxyInv, HoldsProxy
<1>11. \A e \in Devices : DeviceStage'[e] =
          IF e = d THEN "installed" ELSE
          IF DeviceStage[e] = "installed" THEN "retired" ELSE DeviceStage[e]
    BY <1>1, <1>2, <1>7, <1>9, StageOfDevice DEF Life
<1>12. \A q \in Proxies : ProxyStage'[q] =
          IF q = p THEN "installed" ELSE
          IF ProxyStage[q] = "installed" THEN "retired" ELSE ProxyStage[q]
    BY <1>1, <1>3, <1>8, <1>10, StageOfProxy DEF Life
<1>13. DeviceStage[d] = "spare" /\ ProxyStage[p] = "spare"
    BY <1>2, <1>3, <1>4, StageOfDevice, StageOfProxy
<1> QED BY <1>2, <1>3, <1>11, <1>12, <1>13, StageDomains DEF Gate!Install, Gate!TakenOut

\* The critical section of teardown takes out what is installed.
LEMMA TeardownIsTakeOut ==
    ASSUME NEW t \in Threads, IInv, Teardown(t) PROVE Gate!TakeOut
<1> USE ConstAssumption DEF IInv, TypeOK
<1>1. /\ pc[t] = "teardown" /\ pc' = [pc EXCEPT ![t] = "release"]
      /\ device' = NoDev /\ proxy' = NoPx /\ devSt' = devSt /\ pxSt' = pxSt
      /\ \A u \in Threads : u # t => hdev'[u] = hdev[u] /\ hpx'[u] = hpx[u]
    BY DEF Teardown, Goto, res
<1>2. \A d \in Devices : Spare(d)' <=> Spare(d)
    BY <1>1 DEF Spare
<1>3. \A p \in Proxies : SpareProxy(p)' <=> SpareProxy(p)
    BY <1>1 DEF SpareProxy
<1>4. ~Spare(device) /\ ~SpareProxy(proxy)
    BY DEF Spare, DeviceInv, HoldsDevice, SpareProxy, ProxyInv, HoldsProxy
<1>5. \A d \in Devices : DeviceStage'[d] =
          IF DeviceStage[d] = "installed" THEN "retired" ELSE DeviceStage[d]
    BY <1>1, <1>2, <1>4, StageOfDevice DEF Life
<1>6. \A p \in Proxies : ProxyStage'[p] =
          IF ProxyStage[p] = "installed" THEN "retired" ELSE ProxyStage[p]
    BY <1>1, <1>3, <1>4, StageOfProxy DEF Life
<1> QED BY <1>5, <1>6, StageDomains DEF Gate!TakeOut, Gate!TakenOut

\* The release after it closes exactly what was taken out.
LEMMA ReleaseIsClose ==
    ASSUME NEW t \in Threads, IInv, Release(t)
    PROVE \E ds \in SUBSET Devices, ps \in SUBSET Proxies : Gate!Close(ds, ps)
<1> USE ConstAssumption DEF IInv, TypeOK
<1> DEFINE ds == {hdev[t]} \cap Devices
           ps == {hpx[t]} \cap Proxies
<1>1. /\ pc[t] = "release" /\ pc' = [pc EXCEPT ![t] = ret[t]]
      /\ device' = device /\ proxy' = proxy
      /\ devSt' = [d \in Devices |-> IF d = hdev[t] THEN "closed" ELSE devSt[d]]
      /\ pxSt' = [p \in Proxies |-> IF p = hpx[t] THEN "closed" ELSE pxSt[p]]
      /\ \A u \in Threads : u # t => hdev'[u] = hdev[u] /\ hpx'[u] = hpx[u]
    BY DEF Release, Goto, mgr
<1>2. \A d \in Devices : Spare(d)' <=> Spare(d)
    BY <1>1 DEF Spare, Rets
<1>3. \A p \in Proxies : SpareProxy(p)' <=> SpareProxy(p)
    BY <1>1 DEF SpareProxy, Rets
<1>4. \A d \in ds : devSt[d] = "open" /\ d # device /\ ~Spare(d)
    BY <1>1 DEF DeviceInv, Disjoint, HoldsDevice, Spare
<1>5. \A p \in ps : pxSt[p] = "open" /\ p # proxy /\ ~SpareProxy(p)
    BY <1>1 DEF ProxyInv, Disjoint, HoldsProxy, SpareProxy
<1>6. \A d \in Devices : DeviceStage'[d] = IF d \in ds THEN "closed" ELSE DeviceStage[d]
    BY <1>1, <1>2, StageOfDevice
<1>7. \A p \in Proxies : ProxyStage'[p] = IF p \in ps THEN "closed" ELSE ProxyStage[p]
    BY <1>1, <1>3, StageOfProxy
<1>8. /\ \A d \in ds : DeviceStage[d] = "retired"
      /\ \A p \in ps : ProxyStage[p] = "retired"
    BY <1>4, <1>5, StageOfDevice, StageOfProxy
<1>9. Gate!Close(ds, ps)
    BY <1>6, <1>7, <1>8, StageDomains DEF Gate!Close
<1> QED BY <1>9

\* A refresh that finds its connection still there exchanges the device.
LEMMA RefreshInstallIsExchange ==
    ASSUME NEW t \in Threads, IInv, RefreshInstall(t)
    PROVE \E d \in Devices : Gate!Exchange(d)
<1> USE ConstAssumption DEF IInv, TypeOK
<1> DEFINE d == hdev[t]
<1>1. /\ pc[t] = "recheck" /\ pc' = [pc EXCEPT ![t] = "loop"]
      /\ device' = d /\ proxy' = proxy /\ proxy = hpx[t]
      /\ devSt' = devSt /\ pxSt' = pxSt
      /\ \A u \in Threads : u # t => hdev'[u] = hdev[u] /\ hpx'[u] = hpx[u]
    BY DEF RefreshInstall, SameConnection, RefreshReturns, Goto
<1>2. d \in Devices /\ devSt[d] = "open" /\ d # device /\ Spare(d)
    BY <1>1 DEF DeviceInv, HoldsDevice, Spare
<1>3. proxy \in Proxies /\ pxSt[proxy] = "open"
    BY <1>1 DEF RefreshInv, Refreshing, InstalledWhole
<1>4. \A p \in Proxies : SameProxy(p)
    BY <1>1 DEF SameProxy, SpareProxy
<1>5. \A e \in Devices : e # d => (Spare(e)' <=> Spare(e))
    BY <1>1 DEF Spare
<1>6. ~Spare(device)
    BY DEF Spare, DeviceInv, HoldsDevice
<1>7. \A e \in Devices : DeviceStage'[e] =
          IF e = d THEN "installed" ELSE
          IF DeviceStage[e] = "installed" THEN "retired" ELSE DeviceStage[e]
    BY <1>1, <1>2, <1>5, <1>6, StageOfDevice DEF Life
<1>8. DeviceStage[d] = "spare" /\ ProxyStage[proxy] = "installed"
    BY <1>2, <1>3, StageOfDevice, StageOfProxy
<1> QED BY <1>2, <1>3, <1>4, <1>7, <1>8, ProxiesKept, StageDomains
        DEF Gate!Exchange, Gate!TakenOut

\* A drain closes a device that an exchange took out.
LEMMA DrainIsClose ==
    ASSUME NEW d \in Devices, IInv, Drain(d)
    PROVE \E ds \in SUBSET Devices, ps \in SUBSET Proxies : Gate!Close(ds, ps)
<1> USE ConstAssumption DEF IInv, TypeOK
<1>1. /\ d \in draining /\ devSt' = [devSt EXCEPT ![d] = "closed"]
      /\ device' = device /\ proxy' = proxy /\ pxSt' = pxSt
      /\ pc' = pc /\ hdev' = hdev /\ hpx' = hpx
    BY DEF Drain, mgr, loc
<1>2. devSt[d] = "open" /\ d # device /\ ~Spare(d)
    BY <1>1 DEF DrainInv, DeviceInv, HoldsDevice, Spare
<1>3. \A e \in Devices : e # d => SameDevice(e)
    BY <1>1 DEF SameDevice, Spare
<1>4. \A p \in Proxies : SameProxy(p)
    BY <1>1 DEF SameProxy, SpareProxy
<1>5. DeviceStage[d] = "retired" /\ DeviceStage'[d] = "closed"
    BY <1>1, <1>2, StageOfDevice
<1>6. Gate!Close({d}, {})
    BY <1>3, <1>4, <1>5, DeviceMoved, ProxiesKept, StageDomains DEF Gate!Close
<1> QED BY <1>6

\* Goroutines that move without holding anything leave the stages alone.
LEMMA StagesKept ==
    ASSUME UNCHANGED <<mgr, devSt, pxSt>>,
           \A t \in Threads : pc[t] \in {"listen", "publish", "probe", "recheck"}
                              \/ pc'[t] \in {"listen", "publish", "probe", "recheck"} =>
               /\ hdev'[t] = hdev[t] /\ hpx'[t] = hpx[t]
               /\ pc'[t] = pc[t] \/ {pc[t], pc'[t]} = {"probe", "recheck"}
    PROVE UNCHANGED <<DeviceStage, ProxyStage>>
<1>1. \A d \in Devices : SameDevice(d)
    BY DEF SameDevice, Spare, mgr
<1>2. \A p \in Proxies : SameProxy(p)
    BY DEF SameProxy, SpareProxy, mgr
<1> QED BY <1>1, <1>2, DevicesKept, ProxiesKept

\* Every step of the manager is a step of Gateway or changes no stage.
LEMMA NextIsGateway == IInv /\ [Next]_vars => [Gate!Next]_<<DeviceStage, ProxyStage>>
<1> SUFFICES ASSUME IInv, [Next]_vars
             PROVE Gate!Next \/ UNCHANGED <<DeviceStage, ProxyStage>>
    OBVIOUS
<1>1. ASSUME Environment PROVE UNCHANGED <<DeviceStage, ProxyStage>>
    BY <1>1, StagesKept DEF Environment, Connect, Disconnect, Logout, ServersLoggedOut,
       SetLoggedIn, UpdateConfig, RefreshBegin, Goto, IInv, TypeOK, mgr, res, loc, Threads
<1>2. ASSUME NEW t \in Threads, Step(t)
      PROVE Gate!Next \/ UNCHANGED <<DeviceStage, ProxyStage>>
  <2>1. CASE BuildTunnel(t) \/ RefreshBuild(t)
      BY <2>1, BuildIsBuildDevice DEF Gate!Next
  <2>2. CASE Listen(t)
      BY <2>2, ListenIsBuildProxy DEF Gate!Next
  <2>3. CASE ListenFails(t) \/ ProbeFails(t) \/ RefreshAbandon(t)
      BY <2>3, FailureIsDiscard DEF Gate!Next
  <2>4. CASE Publish(t)
      BY <2>4, PublishIsInstall DEF Gate!Next
  <2>5. CASE Teardown(t)
      BY <2>5, TeardownIsTakeOut DEF Gate!Next
  <2>6. CASE Release(t)
      BY <2>6, ReleaseIsClose DEF Gate!Next
  <2>7. CASE RefreshInstall(t)
      BY <2>7, RefreshInstallIsExchange DEF Gate!Next
  <2>8. CASE BuildTunnelFails(t) \/ BuildTunnelLoggedOut(t)
    <3> USE <2>8 DEF IInv, TypeOK, BuildTunnelFails, BuildTunnelLoggedOut, AttemptFailed,
            Goto, mgr, res
    <3> QED BY StagesKept
  <2>9. CASE RefreshBuildFails(t) \/ RefreshBuildLoggedOut(t)
      BY <2>9, StagesKept DEF IInv, TypeOK, RefreshBuildFails, RefreshBuildLoggedOut,
         RefreshErr, RefreshReturns, Goto, mgr, res
  <2>10. CASE SetTunnel(t)
      BY <2>10, StagesKept DEF IInv, TypeOK, SetTunnel, Goto, mgr, res
  <2>11. CASE ConnectFailed(t) \/ DisconnectDone(t) \/ LogoutDone(t)
              \/ Reconnect(t) \/ ReconnectYields(t)
      BY <2>11, StagesKept DEF IInv, TypeOK, ConnectFailed, DisconnectDone, LogoutDone,
         Reconnect, ReconnectYields, Goto, mgr, res
  <2> QED BY <1>2, <2>1, <2>2, <2>3, <2>4, <2>5, <2>6, <2>7, <2>8, <2>9, <2>10, <2>11 DEF Step
<1>3. ASSUME NEW t \in Loops, LoopExit(t) PROVE UNCHANGED <<DeviceStage, ProxyStage>>
    BY <1>3, StagesKept DEF LoopExit, Goto, IInv, TypeOK, mgr, res, Threads
<1>4. ASSUME NEW d \in Devices, Drain(d) PROVE Gate!Next
    BY <1>4, DrainIsClose DEF Gate!Next
<1>5. CASE UNCHANGED vars
    BY <1>5, StagesKept DEF vars, mgr, res, loc
<1> QED BY <1>1, <1>2, <1>3, <1>4, <1>5 DEF Next

\* The manager implements Gateway: whichever handlers, refreshes, reconnects
\* and drains interleave, no tunnel is closed while it is installed, none
\* comes back once taken out, and none is swapped into a connection that has
\* been torn down.
THEOREM ConnImplementsGateway == Spec => ImplementsGateway
<1>1. Init => Gate!Init
  <2> SUFFICES ASSUME Init PROVE Gate!Init
      OBVIOUS
  <2>1. \A d \in Devices : DeviceStage[d] = "new"
      BY StageOfDevice DEF Init
  <2>2. \A p \in Proxies : ProxyStage[p] = "new"
      BY StageOfProxy DEF Init
  <2> QED BY <2>1, <2>2, StageDomains DEF Gate!Init
<1> QED BY <1>1, NextIsGateway, Ownership, PTL DEF Spec, ImplementsGateway, Gate!Spec

-----------------------------------------------------------------------------
(***************************************************************************)
(* A Disconnect is final unless a build is under way.                      *)
(***************************************************************************)
\* Only a goroutine inside teardown will build when teardown is over.
ReturnInv == \A t \in Threads : ret[t] = "build" => pc[t] \in {"teardown", "release"}

\* Every step of one goroutine leaves the others where they are, but for the
\* loops that Publish starts.
LEMMA OthersStay ==
    ASSUME IInv, NEW t \in Threads, Step(t) \/ LoopExit(t), NEW u \in Threads, u # t
    PROVE /\ ret'[u] = ret[u]
          /\ pc'[u] = pc[u] \/ (pc[u] = "off" /\ pc'[u] = "loop")
<1> USE DEF IInv, TypeOK
<1>1. CASE Publish(t)
  <2>1. hpx[t] \in Proxies /\ pc[t] = "publish"
      BY <1>1 DEF Publish, ProxyInv
  <2>2. u \in {Refresher(hpx[t]), Watchdog(hpx[t])} => pc[u] = "off"
      BY <2>1, LoopOf DEF SpawnInv
  <2> QED BY <1>1, <2>2 DEF Publish
<1>2. CASE ~Publish(t)
    BY <1>2 DEF Step, LoopExit, BuildTunnel, BuildTunnelFails, BuildTunnelLoggedOut, Listen,
       ListenFails, ConnectFailed, Teardown, Release, DisconnectDone, LogoutDone,
       RefreshBuild, RefreshBuildFails, RefreshBuildLoggedOut, ProbeFails, SetTunnel,
       RefreshInstall, RefreshAbandon, Reconnect, ReconnectYields, AttemptFailed,
       RefreshErr, RefreshReturns, Goto
<1> QED BY <1>1, <1>2

\* The goroutine that moves comes to a build by Connect, Reconnect or the retry
\* of a build, and builds after a teardown only in a reconnect.
LEMMA OwnStep ==
    ASSUME IInv, ReturnInv, NEW t \in Threads, Step(t) \/ LoopExit(t)
    PROVE /\ ret'[t] = "build" => pc'[t] \in {"teardown", "release"}
          /\ \/ Reconnect(t)
             \/ pc[t] \in {"build", "listen", "publish"}
             \/ pc[t] \in {"teardown", "release"} /\ ret[t] = "build"
             \/ /\ pc'[t] \notin {"build", "listen", "publish"}
                /\ pc'[t] \in {"teardown", "release"} => ret'[t] # "build"
          /\ Publish(t) \/ state' # "connected" \/ state' = state
<1> USE DEF IInv, TypeOK, ReturnInv, Goto, Home
<1>1. CASE BuildTunnel(t) \/ Listen(t) \/ RefreshBuild(t) \/ SetTunnel(t)
    BY <1>1 DEF BuildTunnel, Listen, RefreshBuild, SetTunnel
<1>2. CASE BuildTunnelFails(t) \/ BuildTunnelLoggedOut(t) \/ ListenFails(t)
    BY <1>2 DEF BuildTunnelFails, BuildTunnelLoggedOut, ListenFails, AttemptFailed
<1>3. CASE Publish(t)
    BY <1>3 DEF Publish
<1>4. CASE Teardown(t)
    BY <1>4 DEF Teardown
<1>5. CASE Release(t)
    BY <1>5 DEF Release, Rets
<1>6. CASE RefreshBuildFails(t) \/ RefreshBuildLoggedOut(t) \/ ProbeFails(t)
           \/ RefreshInstall(t) \/ RefreshAbandon(t)
    BY <1>6 DEF RefreshBuildFails, RefreshBuildLoggedOut, ProbeFails, RefreshInstall,
       RefreshAbandon, RefreshErr, RefreshReturns
<1>7. CASE ConnectFailed(t) \/ DisconnectDone(t) \/ LogoutDone(t) \/ Reconnect(t)
           \/ ReconnectYields(t) \/ LoopExit(t)
    BY <1>7 DEF ConnectFailed, DisconnectDone, LogoutDone, Reconnect, ReconnectYields,
       LoopExit
<1> QED BY <1>1, <1>2, <1>3, <1>4, <1>5, <1>6, <1>7 DEF Step

\* Every step keeps the return address of a reconnect inside its teardown.
LEMMA NextReturnInv == IInv /\ ReturnInv /\ [Next]_vars => ReturnInv'
<1> SUFFICES ASSUME IInv, ReturnInv, [Next]_vars PROVE ReturnInv'
    OBVIOUS
<1>1. ASSUME NEW t \in Threads, Step(t) \/ LoopExit(t) PROVE ReturnInv'
    BY <1>1, OthersStay, OwnStep DEF ReturnInv
<1>2. CASE Environment
    BY <1>2 DEF Environment, Connect, Disconnect, Logout, ServersLoggedOut, SetLoggedIn,
       UpdateConfig, RefreshBegin, Goto, ReturnInv, IInv, TypeOK, loc, Threads
<1>3. CASE UNCHANGED <<pc, ret>>
    BY <1>3 DEF ReturnInv
<1> QED BY <1>1, <1>2, <1>3 DEF Next, Drain, vars, loc, Threads

\* The user's own operations, a node list and a refresh that begins do not
\* start a build, Connect apart.
LEMMA EnvironmentDown ==
    ASSUME IInv, ReturnInv, Environment, ~\E t \in Calls : Connect(t), ~Building
    PROVE ~Building' /\ (state' # "connected" \/ state' = state)
BY DEF Environment, Disconnect, Logout, ServersLoggedOut, SetLoggedIn, UpdateConfig,
   RefreshBegin, Goto, Building, IInv, TypeOK, loc, Threads

\* A connection that is down stays down until somebody connects, and goes down
\* with a Disconnect.
LEMMA NextStaysDown == IInv /\ ReturnInv /\ [Next]_vars => StaysDown
<1> SUFFICES ASSUME IInv, ReturnInv, [Next]_vars PROVE StaysDown
    OBVIOUS
<1>1. ASSUME Down, ~\E t \in Calls : Connect(t) PROVE Down'
  <2>1. ASSUME NEW t \in Threads, Step(t) \/ LoopExit(t) PROVE Down'
    <3>1. ~Reconnect(t) /\ ~Publish(t)
        BY <1>1 DEF Down, Building, Reconnect, Publish
    <3>2. state' # "connected"
        BY <1>1, <2>1, <3>1, OwnStep DEF Down
    <3>3. ~Building'
        BY <1>1, <2>1, <3>1, OwnStep, OthersStay DEF Down, Building
    <3> QED BY <3>2, <3>3 DEF Down
  <2>2. CASE Environment
      BY <1>1, <2>2, EnvironmentDown DEF Down
  <2>3. CASE UNCHANGED <<state, pc, ret>>
      BY <1>1, <2>3 DEF Down, Building
  <2> QED BY <2>1, <2>2, <2>3 DEF Next, Drain, vars, loc, Threads
<1>2. ASSUME ~Building, NEW t \in Calls, Disconnect(t) PROVE Down'
    BY <1>2 DEF Disconnect, Down, Building, Goto, IInv, TypeOK, Threads
<1> QED BY <1>1, <1>2 DEF StaysDown

\* A Disconnect that meets no build under way is final until the next Connect,
\* for any number of handlers, watchdogs and refreshes.
THEOREM DisconnectFinalAlways == Spec => DisconnectFinal
<1>1. Init => ReturnInv
    BY DEF Init, Home, ReturnInv
<1>2. StaysDown => [StaysDown]_vars
    OBVIOUS
<1> QED BY <1>1, <1>2, NextReturnInv, NextStaysDown, Ownership, PTL DEF Spec, DisconnectFinal
=============================================================================
