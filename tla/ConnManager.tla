---------------------------- MODULE ConnManager ----------------------------
(***************************************************************************)
(* The connection manager (web/internal/vpnmgr): the state machine         *)
(*    logged_out, logged_in, connecting, connected, disconnecting          *)
(* and the resources it owns: userspace WireGuard devices, the local mixed *)
(* proxy and the cancel function of the background loops.                  *)
(*                                                                         *)
(* m.mu guards single critical sections only; every operation releases it  *)
(* around its network calls.  So each action below is one critical section *)
(* or one release of resources, and the goroutines interleave between      *)
(* them: HTTP handlers (Calls), and for each proxy that was published its  *)
(* refresher and its watchdog.  A reconnect runs on the slot of the        *)
(* watchdog that started it ("go m.reconnect(); return").  A proxy also     *)
(* names the loops' context: connectReal makes one of each, and m.proxy    *)
(* and m.cancelLoops are set and cleared in the same critical sections.    *)
(*                                                                         *)
(* Time is abstracted: a tick, a stall verdict or the end of a drain may   *)
(* come at any moment, and a network call may fail or find the session     *)
(* logged out at any moment.                                               *)
(***************************************************************************)
EXTENDS Naturals, FiniteSets

CONSTANTS
    Calls,             \* HTTP handler goroutines that may run at once
    Devices,           \* devices that can be created (bounds the model)
    Proxies,           \* proxies that can be created (bounds the model)
    Addrs,             \* values conf.SocksListen may take
    NoDev, NoPx,       \* the nil device and the nil proxy
    NoThread,          \* nobody holds refreshMu
    ReconnectAttempts, \* reconnectAttempts
    BuildAttempts      \* tunnelBuildAttempts

Refresher(p) == <<"refresher", p>>
Watchdog(p) == <<"watchdog", p>>
Loops == {"refresher", "watchdog"} \X Proxies
Threads == Calls \cup Loops

ASSUME ConstAssumption ==
    /\ NoDev \notin Devices
    /\ NoPx \notin Proxies
    /\ NoThread \notin Threads
    /\ Calls \cap Loops = {}
    /\ Addrs # {}
    /\ ReconnectAttempts \in Nat \ {0}
    /\ BuildAttempts \in Nat \ {0}

VARIABLES
    state,        \* m.state
    device,       \* m.device
    proxy,        \* m.proxy, and with it m.cancelLoops
    refreshMu,    \* holder of m.refreshMu
    socksListen,  \* m.conf.SocksListen
    devSt,        \* life of each device
    pxSt,         \* life of each proxy's listener
    pxAddr,       \* address each proxy listens on
    pxTun,        \* device each proxy dials through (MixedProxy.dialer)
    live,         \* loops' contexts that are not cancelled
    draining,     \* devices a drain goroutine will close
    pc,           \* what each goroutine does next
    ret,          \* where a goroutine continues after teardown
    hdev,         \* device a goroutine has in its hands
    hpx,          \* proxy a goroutine has in its hands
    old,          \* oldDevice of a refresh
    att           \* attempts made by a build or a reconnect loop

mgr == <<device, proxy>>
res == <<devSt, pxSt, pxAddr, pxTun, live, draining>>
loc == <<pc, ret, hdev, hpx, old, att>>
vars == <<state, mgr, refreshMu, socksListen, res, loc>>

States == {"logged_out", "logged_in", "connecting", "connected", "disconnecting"}
Life == {"new", "open", "closed"}
PCs == {"idle", "off", "build", "listen", "publish", "failed", "teardown",
        "release", "setLoggedIn", "setLoggedOut", "loop", "rebuild", "probe",
        "recheck", "reconnect"}
\* Where teardown is called from, by what comes after the call.
Rets == {"idle", "off", "build", "setLoggedIn", "setLoggedOut"}

\* Where a goroutine goes when its operation returns.
Home(t) == IF t \in Calls THEN "idle" ELSE "off"

\* The goroutine's context: a handler's own, or the loops' one.
CtxLive(t) == t \in Loops => t[2] \in live

\* No loop makes more attempts than its constant allows.
MaxAtt == IF ReconnectAttempts > BuildAttempts THEN ReconnectAttempts ELSE BuildAttempts

TypeOK ==
    /\ state \in States
    /\ device \in Devices \cup {NoDev}
    /\ proxy \in Proxies \cup {NoPx}
    /\ refreshMu \in Loops \cup {NoThread}
    /\ socksListen \in Addrs
    /\ devSt \in [Devices -> Life]
    /\ pxSt \in [Proxies -> Life]
    /\ pxAddr \in [Proxies -> Addrs]
    /\ pxTun \in [Proxies -> Devices \cup {NoDev}]
    /\ live \subseteq Proxies
    /\ draining \subseteq Devices
    /\ pc \in [Threads -> PCs]
    /\ ret \in [Threads -> Rets]
    /\ hdev \in [Threads -> Devices \cup {NoDev}]
    /\ hpx \in [Threads -> Proxies \cup {NoPx}]
    /\ old \in [Threads -> Devices \cup {NoDev}]
    /\ att \in [Threads -> 0 .. MaxAtt]

\* New: logged_in when the configuration names a server.
Init ==
    /\ state \in {"logged_out", "logged_in"}
    /\ device = NoDev
    /\ proxy = NoPx
    /\ refreshMu = NoThread
    /\ socksListen \in Addrs
    /\ devSt = [d \in Devices |-> "new"]
    /\ pxSt = [p \in Proxies |-> "new"]
    /\ pxAddr = [p \in Proxies |-> socksListen]
    /\ pxTun = [p \in Proxies |-> NoDev]
    /\ live = {}
    /\ draining = {}
    /\ pc = [t \in Threads |-> Home(t)]
    /\ ret = [t \in Threads |-> Home(t)]
    /\ hdev = [t \in Threads |-> NoDev]
    /\ hpx = [t \in Threads |-> NoPx]
    /\ old = [t \in Threads |-> NoDev]
    /\ att = [t \in Threads |-> 0]

-----------------------------------------------------------------------------
(***************************************************************************)
(* connectReal, used by Connect and by each attempt of reconnect.          *)
(***************************************************************************)
Goto(t, next) == pc' = [pc EXCEPT ![t] = next]

\* Faulty: retries without counting, also for Connect.
AttemptFailed_Forever(t, fatal) == Goto(t, "build") /\ UNCHANGED <<ret, hpx, old, att>>

\* An attempt failed: a reconnect tries again unless the error is fatal or
\* the attempts are used up (retryReconnect); Connect gives up.
AttemptFailed(t, fatal) ==
    /\ \/ /\ t \in Loops /\ ~fatal /\ att[t] < ReconnectAttempts
          /\ Goto(t, "build")
          /\ att' = [att EXCEPT ![t] = @ + 1]
       \/ /\ t \in Loops => fatal \/ att[t] >= ReconnectAttempts
          /\ Goto(t, "failed")
          /\ att' = [att EXCEPT ![t] = 0]
    /\ UNCHANGED <<ret, hpx, old>>

Connect(t) ==
    /\ t \in Calls /\ pc[t] = "idle"
    /\ state \notin {"connected", "connecting"}
    /\ state' = "connecting"
    /\ Goto(t, "build")
    /\ UNCHANGED <<mgr, refreshMu, socksListen, res, ret, hdev, hpx, old, att>>

\* ListVPN, SelectVPN, FetchPeerInfo, BuildWgConf succeed and the device is
\* started; connectReal ignores the outcome of its probe.
BuildTunnel(t) ==
    /\ pc[t] = "build"
    /\ \E d \in Devices :
        /\ devSt[d] = "new"
        /\ devSt' = [devSt EXCEPT ![d] = "open"]
        /\ hdev' = [hdev EXCEPT ![t] = d]
    /\ Goto(t, "listen")
    /\ UNCHANGED <<state, mgr, refreshMu, socksListen, pxSt, pxAddr, pxTun, live,
                   draining, ret, hpx, old, att>>

BuildTunnelFails(t) ==
    /\ pc[t] = "build"
    /\ AttemptFailed(t, FALSE)
    /\ UNCHANGED <<state, mgr, refreshMu, socksListen, res, hdev>>

\* buildTunnel meets a logged-out session and says so in m.state.
BuildTunnelLoggedOut(t) ==
    /\ pc[t] = "build"
    /\ state' = "logged_out"
    /\ AttemptFailed(t, TRUE)
    /\ UNCHANGED <<mgr, refreshMu, socksListen, res, hdev>>

\* The port is free when no proxy of this process listens on it.
PortFree(a) == \A p \in Proxies : pxSt[p] = "open" => pxAddr[p] # a

Listen(t) ==
    /\ pc[t] = "listen"
    /\ PortFree(socksListen)
    /\ \E p \in Proxies :
        /\ pxSt[p] = "new"
        /\ pxSt' = [pxSt EXCEPT ![p] = "open"]
        /\ pxAddr' = [pxAddr EXCEPT ![p] = socksListen]
        /\ pxTun' = [pxTun EXCEPT ![p] = hdev[t]]
        /\ hpx' = [hpx EXCEPT ![t] = p]
    /\ Goto(t, "publish")
    /\ UNCHANGED <<state, mgr, refreshMu, socksListen, devSt, live, draining, ret,
                   hdev, old, att>>

\* The port is taken, by this process or by another one.
ListenFails(t) ==
    /\ pc[t] = "listen"
    /\ devSt' = [devSt EXCEPT ![hdev[t]] = "closed"]
    /\ hdev' = [hdev EXCEPT ![t] = NoDev]
    /\ AttemptFailed(t, FALSE)
    /\ UNCHANGED <<state, mgr, refreshMu, socksListen, pxSt, pxAddr, pxTun, live,
                   draining>>

\* The last critical section of connectReal, and the loops it starts.
Publish(t) ==
    /\ pc[t] = "publish"
    /\ device' = hdev[t]
    /\ proxy' = hpx[t]
    /\ state' = "connected"
    /\ live' = live \cup {hpx[t]}
    /\ pc' = [u \in Threads |->
                IF u = t THEN Home(t)
                ELSE IF u \in {Refresher(hpx[t]), Watchdog(hpx[t])} THEN "loop" ELSE pc[u]]
    /\ hdev' = [hdev EXCEPT ![t] = NoDev]
    /\ hpx' = [hpx EXCEPT ![t] = NoPx]
    /\ att' = [att EXCEPT ![t] = 0]
    /\ UNCHANGED <<refreshMu, socksListen, devSt, pxSt, pxAddr, pxTun, draining,
                   ret, old>>

\* Faulty: the failure path does not set the state back.
ConnectFailed_KeepsState(t) ==
    /\ pc[t] = "failed"
    /\ Goto(t, "teardown")
    /\ UNCHANGED <<state, mgr, refreshMu, socksListen, res, ret, hdev, hpx, old, att>>

\* The error path of Connect and of reconnect: setState, then teardown, after
\* which the goroutine is done (ret is Home(t) outside a teardown).
ConnectFailed(t) ==
    /\ pc[t] = "failed"
    /\ state' = "logged_in"
    /\ Goto(t, "teardown")
    /\ UNCHANGED <<mgr, refreshMu, socksListen, res, ret, hdev, hpx, old, att>>

-----------------------------------------------------------------------------
(***************************************************************************)
(* teardown: take the resources out under the lock, release them after it. *)
(***************************************************************************)
\* Faulty: the proxy stays installed.
Teardown_KeepsProxy(t) ==
    /\ pc[t] = "teardown"
    /\ hdev' = [hdev EXCEPT ![t] = device]
    /\ hpx' = [hpx EXCEPT ![t] = proxy]
    /\ device' = NoDev
    /\ Goto(t, "release")
    /\ UNCHANGED <<proxy, state, refreshMu, socksListen, res, ret, old, att>>

Teardown(t) ==
    /\ pc[t] = "teardown"
    /\ hdev' = [hdev EXCEPT ![t] = device]
    /\ hpx' = [hpx EXCEPT ![t] = proxy]
    /\ device' = NoDev
    /\ proxy' = NoPx
    /\ Goto(t, "release")
    /\ UNCHANGED <<state, refreshMu, socksListen, res, ret, old, att>>

\* Faulty: the loops' context is not cancelled.
Release_NoCancel(t) ==
    /\ pc[t] = "release"
    /\ pxSt' = [p \in Proxies |-> IF p = hpx[t] THEN "closed" ELSE pxSt[p]]
    /\ devSt' = [d \in Devices |-> IF d = hdev[t] THEN "closed" ELSE devSt[d]]
    /\ hdev' = [hdev EXCEPT ![t] = NoDev]
    /\ hpx' = [hpx EXCEPT ![t] = NoPx]
    /\ Goto(t, ret[t])
    /\ ret' = [ret EXCEPT ![t] = Home(t)]
    /\ UNCHANGED <<state, mgr, refreshMu, socksListen, pxAddr, pxTun, live, draining,
                   old, att>>

\* cancel(), proxy.Close(), device.Close(), each unless nil.
Release(t) ==
    /\ pc[t] = "release"
    /\ live' = live \ {hpx[t]}
    /\ pxSt' = [p \in Proxies |-> IF p = hpx[t] THEN "closed" ELSE pxSt[p]]
    /\ devSt' = [d \in Devices |-> IF d = hdev[t] THEN "closed" ELSE devSt[d]]
    /\ hdev' = [hdev EXCEPT ![t] = NoDev]
    /\ hpx' = [hpx EXCEPT ![t] = NoPx]
    /\ Goto(t, ret[t])
    /\ ret' = [ret EXCEPT ![t] = Home(t)]
    /\ UNCHANGED <<state, mgr, refreshMu, socksListen, pxAddr, pxTun, draining, old,
                   att>>

\* In any other state Disconnect returns at once and changes nothing.
Disconnect(t) ==
    /\ t \in Calls /\ pc[t] = "idle"
    /\ state \in {"connected", "connecting"}
    /\ state' = "disconnecting"
    /\ Goto(t, "teardown")
    /\ ret' = [ret EXCEPT ![t] = "setLoggedIn"]
    /\ UNCHANGED <<mgr, refreshMu, socksListen, res, hdev, hpx, old, att>>

DisconnectDone(t) ==
    /\ pc[t] = "setLoggedIn"
    /\ state' = "logged_in"
    /\ Goto(t, "idle")
    /\ UNCHANGED <<mgr, refreshMu, socksListen, res, ret, hdev, hpx, old, att>>

Logout(t) ==
    /\ t \in Calls /\ pc[t] = "idle"
    /\ Goto(t, "teardown")
    /\ ret' = [ret EXCEPT ![t] = "setLoggedOut"]
    /\ UNCHANGED <<state, mgr, refreshMu, socksListen, res, hdev, hpx, old, att>>

LogoutDone(t) ==
    /\ pc[t] = "setLoggedOut"
    /\ state' = "logged_out"
    /\ Goto(t, "idle")
    /\ UNCHANGED <<mgr, refreshMu, socksListen, res, ret, hdev, hpx, old, att>>

-----------------------------------------------------------------------------
(***************************************************************************)
(* The one-section operations of the API.                                  *)
(***************************************************************************)
\* The node list finds the session logged out.
ServersLoggedOut ==
    /\ state' = "logged_out"
    /\ UNCHANGED <<mgr, refreshMu, socksListen, res, loc>>

SetLoggedIn ==
    /\ state = "logged_out"
    /\ state' = "logged_in"
    /\ UNCHANGED <<mgr, refreshMu, socksListen, res, loc>>

UpdateConfig(a) ==
    /\ socksListen' = a
    /\ UNCHANGED <<state, mgr, refreshMu, res, loc>>

-----------------------------------------------------------------------------
(***************************************************************************)
(* The background loops: a refresh is started by the refresher's timer or  *)
(* kick, or by the watchdog's stall verdict.                               *)
(***************************************************************************)
\* refreshTunnelKicked up to its snapshot.  Not connected, no proxy, no
\* device or too soon: it returns nil, which changes nothing here.
RefreshBegin(t) ==
    /\ t \in Loops /\ pc[t] = "loop"
    /\ refreshMu = NoThread
    /\ state = "connected" /\ proxy # NoPx /\ device # NoDev
    /\ refreshMu' = t
    /\ hpx' = [hpx EXCEPT ![t] = proxy]
    /\ old' = [old EXCEPT ![t] = device]
    /\ att' = [att EXCEPT ![t] = 1]
    /\ Goto(t, "rebuild")
    /\ UNCHANGED <<state, mgr, socksListen, res, ret, hdev>>

\* The refresh returns with refreshMu unlocked.
RefreshReturns(t, next) ==
    /\ refreshMu' = NoThread
    /\ hdev' = [hdev EXCEPT ![t] = NoDev]
    /\ hpx' = [hpx EXCEPT ![t] = NoPx]
    /\ old' = [old EXCEPT ![t] = NoDev]
    /\ att' = [att EXCEPT ![t] = 0]
    /\ Goto(t, next)
    /\ UNCHANGED ret

\* Faulty: the error path leaves refreshMu locked.
RefreshErr_KeepsLock(t) ==
    /\ hdev' = [hdev EXCEPT ![t] = NoDev]
    /\ hpx' = [hpx EXCEPT ![t] = NoPx]
    /\ old' = [old EXCEPT ![t] = NoDev]
    /\ att' = [att EXCEPT ![t] = 0]
    /\ Goto(t, IF t[1] = "watchdog" THEN "reconnect" ELSE "loop")
    /\ UNCHANGED <<refreshMu, ret>>

\* An error sends the watchdog into reconnect; the refresher only logs it.
RefreshErr(t) ==
    RefreshReturns(t, IF t[1] = "watchdog" THEN "reconnect" ELSE "loop")

\* buildTunnel inside buildLiveTunnel; a cancelled context fails its calls.
RefreshBuild(t) ==
    /\ pc[t] = "rebuild" /\ CtxLive(t)
    /\ \E d \in Devices :
        /\ devSt[d] = "new"
        /\ devSt' = [devSt EXCEPT ![d] = "open"]
        /\ hdev' = [hdev EXCEPT ![t] = d]
    /\ Goto(t, "probe")
    /\ UNCHANGED <<state, mgr, refreshMu, socksListen, pxSt, pxAddr, pxTun, live,
                   draining, ret, hpx, old, att>>

RefreshBuildFails(t) ==
    /\ pc[t] = "rebuild"
    /\ RefreshErr(t)
    /\ UNCHANGED <<state, mgr, socksListen, res>>

RefreshBuildLoggedOut(t) ==
    /\ pc[t] = "rebuild" /\ CtxLive(t)
    /\ state' = "logged_out"
    /\ RefreshErr(t)
    /\ UNCHANGED <<mgr, socksListen, res>>

\* The new tunnel fails its data-path probe and is closed.
ProbeFails(t) ==
    /\ pc[t] = "probe"
    /\ devSt' = [devSt EXCEPT ![hdev[t]] = "closed"]
    /\ \/ /\ att[t] < BuildAttempts
          /\ att' = [att EXCEPT ![t] = @ + 1]
          /\ hdev' = [hdev EXCEPT ![t] = NoDev]
          /\ Goto(t, "rebuild")
          /\ UNCHANGED <<refreshMu, ret, hpx, old>>
       \/ /\ att[t] >= BuildAttempts
          /\ RefreshErr(t)
    /\ UNCHANGED <<state, mgr, socksListen, pxSt, pxAddr, pxTun, live, draining>>

\* Faulty: the proxy keeps dialing through the device about to be retired.
SetTunnel_Forgotten(t) ==
    /\ pc[t] = "probe"
    /\ Goto(t, "recheck")
    /\ UNCHANGED <<state, mgr, refreshMu, socksListen, res, ret, hdev, hpx, old, att>>

\* The probe succeeds: the proxy dials through the new device from here on.
SetTunnel(t) ==
    /\ pc[t] = "probe"
    /\ pxTun' = [pxTun EXCEPT ![hpx[t]] = hdev[t]]
    /\ Goto(t, "recheck")
    /\ UNCHANGED <<state, mgr, refreshMu, socksListen, devSt, pxSt, pxAddr, live,
                   draining, ret, hdev, hpx, old, att>>

\* Faulty: no check against a teardown.
SameConnection_Unchecked(t) == TRUE

\* Still the connection the refresh began with.
SameConnection(t) == state = "connected" /\ proxy = hpx[t]

\* Faulty: nobody closes the old device.
RefreshInstall_NoDrain(t) ==
    /\ pc[t] = "recheck"
    /\ SameConnection(t)
    /\ device' = hdev[t]
    /\ RefreshReturns(t, "loop")
    /\ UNCHANGED <<state, proxy, socksListen, res>>

\* The second critical section of refreshTunnelKicked.
RefreshInstall(t) ==
    /\ pc[t] = "recheck"
    /\ SameConnection(t)
    /\ device' = hdev[t]
    /\ draining' = draining \cup {old[t]}
    /\ RefreshReturns(t, "loop")
    /\ UNCHANGED <<state, proxy, socksListen, devSt, pxSt, pxAddr,
                   pxTun, live>>

RefreshAbandon(t) ==
    /\ pc[t] = "recheck"
    /\ ~SameConnection(t)
    /\ devSt' = [devSt EXCEPT ![hdev[t]] = "closed"]
    /\ RefreshReturns(t, "loop")
    /\ UNCHANGED <<state, mgr, socksListen, pxSt, pxAddr, pxTun, live, draining>>

\* The drain goroutine: waitDrained is over, the old device is closed.
Drain(d) ==
    /\ d \in draining
    /\ draining' = draining \ {d}
    /\ devSt' = [devSt EXCEPT ![d] = "closed"]
    /\ UNCHANGED <<state, mgr, refreshMu, socksListen, pxSt, pxAddr, pxTun, live,
                   loc>>

\* A loop sees its context cancelled; the watchdog also ends without a device.
LoopExit(t) ==
    /\ t \in Loops /\ pc[t] = "loop"
    /\ ~CtxLive(t) \/ (t[1] = "watchdog" /\ device = NoDev)
    /\ Goto(t, "off")
    /\ UNCHANGED <<state, mgr, refreshMu, socksListen, res, ret, hdev, hpx, old, att>>

\* Faulty: reconnects over a disconnect that came first.
Reconnect_Unchecked(t) ==
    /\ pc[t] = "reconnect"
    /\ state' = "connecting"
    /\ att' = [att EXCEPT ![t] = 1]
    /\ ret' = [ret EXCEPT ![t] = "build"]
    /\ Goto(t, "teardown")
    /\ UNCHANGED <<mgr, refreshMu, socksListen, res, hdev, hpx, old>>

Reconnect(t) ==
    /\ pc[t] = "reconnect"
    /\ state = "connected"
    /\ state' = "connecting"
    /\ att' = [att EXCEPT ![t] = 1]
    /\ ret' = [ret EXCEPT ![t] = "build"]
    /\ Goto(t, "teardown")
    /\ UNCHANGED <<mgr, refreshMu, socksListen, res, hdev, hpx, old>>

ReconnectYields(t) ==
    /\ pc[t] = "reconnect"
    /\ state # "connected"
    /\ Goto(t, "off")
    /\ UNCHANGED <<state, mgr, refreshMu, socksListen, res, ret, hdev, hpx, old, att>>

-----------------------------------------------------------------------------
\* The user and the server decide when these happen.
Environment ==
    \/ \E t \in Calls :
        Connect(t) \/ Disconnect(t) \/ Logout(t)
    \/ ServersLoggedOut
    \/ SetLoggedIn
    \/ \E a \in Addrs : UpdateConfig(a)
    \/ \E t \in Loops : RefreshBegin(t)

\* A goroutine inside an operation goes on.
Step(t) ==
    \/ BuildTunnel(t) \/ BuildTunnelFails(t) \/ BuildTunnelLoggedOut(t)
    \/ Listen(t) \/ ListenFails(t) \/ Publish(t) \/ ConnectFailed(t)
    \/ Teardown(t) \/ Release(t) \/ DisconnectDone(t) \/ LogoutDone(t)
    \/ RefreshBuild(t) \/ RefreshBuildFails(t) \/ RefreshBuildLoggedOut(t)
    \/ ProbeFails(t) \/ SetTunnel(t) \/ RefreshInstall(t) \/ RefreshAbandon(t)
    \/ Reconnect(t) \/ ReconnectYields(t)

Next ==
    \/ Environment
    \/ \E t \in Threads : Step(t)
    \/ \E t \in Loops : LoopExit(t)
    \/ \E d \in Devices : Drain(d)

Spec == Init /\ [][Next]_vars

\* Goroutines are scheduled, every network call has a timeout, a drain is
\* capped, and a select with a cancelled context is not unlucky forever.
Fairness ==
    /\ \A t \in Threads : WF_vars(Step(t))
    /\ \A t \in Loops : SF_vars(LoopExit(t))
    /\ \A d \in Devices : WF_vars(Drain(d))

FairSpec == Spec /\ Fairness
-----------------------------------------------------------------------------
(***************************************************************************)
(* Ownership.  A device or a proxy in a goroutine's hands is released by   *)
(* that goroutine alone; a refresh only borrows the proxy it works for.    *)
(***************************************************************************)
HoldsDevice(t) == pc[t] \in {"listen", "publish", "release", "probe", "recheck"}
HoldsProxy(t) == pc[t] \in {"publish", "release"}

\* The tunnel is installed whole or not at all, and never after its release:
\* a refresh that lost a race with teardown must not put its device back into
\* a torn-down connection, and no release may hit what is installed.
InstalledWhole ==
    /\ (proxy = NoPx) <=> (device = NoDev)
    /\ proxy # NoPx => pxSt[proxy] = "open"
    /\ device # NoDev => devSt[device] = "open"

\* While the manager says connected, the listening proxy dials through a
\* device that has not been closed: make-before-break with a refresh swapping
\* the tunnel, a drain closing the old one and handlers tearing down.
ServingTunnelOpen ==
    state = "connected" /\ proxy # NoPx =>
        /\ pxTun[proxy] \in Devices
        /\ devSt[pxTun[proxy]] = "open"

\* Nothing leaks while the listen address stays what it is: every open device
\* and every listening proxy (with its loops' context) is the installed one,
\* or in the hands of a goroutine that will install or release it.
NoOrphans ==
    /\ \A d \in Devices : devSt[d] = "open" =>
        \/ d = device \/ d \in draining
        \/ \E t \in Threads : HoldsDevice(t) /\ hdev[t] = d
    /\ \A p \in Proxies : pxSt[p] = "open" \/ p \in live =>
        p = proxy \/ \E t \in Threads : HoldsProxy(t) /\ hpx[t] = p

\* However connects and reconnects overlap, none publishes its connection over
\* an installed one, which Connect does not check: while the listen address
\* stays what it is, its proxy could not have listened beside the other.
NothingOverwritten ==
    [][\A t \in Threads : Publish(t) => device = NoDev /\ proxy = NoPx]_vars

\* A device that is built and not yet installed.
Spare(d) ==
    \E t \in Threads : pc[t] \in {"listen", "publish", "probe", "recheck"} /\ hdev[t] = d

DeviceStage ==
    [d \in Devices |->
        CASE devSt[d] # "open" -> devSt[d]
          [] devSt[d] = "open" /\ d = device -> "installed"
          [] devSt[d] = "open" /\ d # device /\ Spare(d) -> "spare"
          [] OTHER -> "retired"]

ProxyStage ==
    [p \in Proxies |->
        CASE pxSt[p] # "open" -> pxSt[p]
          [] pxSt[p] = "open" /\ p = proxy -> "installed"
          [] pxSt[p] = "open" /\ p # proxy
               /\ (\E t \in Threads : pc[t] = "publish" /\ hpx[t] = p) -> "spare"
          [] OTHER -> "retired"]

Gate == INSTANCE Gateway WITH dev <- DeviceStage, px <- ProxyStage

\* However handlers, refreshes, reconnects and drains interleave, the manager
\* moves each tunnel forward only: nothing installed is closed before it is
\* taken out, nothing taken out comes back, and a refresh exchanges the device
\* of a connection that is there or none.
ImplementsGateway == Gate!Spec

\* Some goroutine is on its way to publish a connection.
Building ==
    \E t \in Threads :
        \/ pc[t] \in {"build", "listen", "publish"}
        \/ pc[t] \in {"teardown", "release"} /\ ret[t] = "build"

Down == state # "connected" /\ ~Building

StaysDown ==
    /\ Down /\ ~(\E t \in Calls : Connect(t)) => Down'
    /\ ~Building /\ (\E t \in Calls : Disconnect(t)) => Down'

\* A Disconnect that meets no build under way is final: no watchdog, refresh or
\* late reconnect leads back to a connection, only the next Connect does.  (A
\* build under way does publish; see DisconnectHistory.)
DisconnectFinal == [][StaysDown]_vars

\* Said by the comment in reconnect: a manual reconnect wins, so a watchdog
\* only tears down the connection it watched.
ReconnectOwnOnly == [][\A t \in Loops : Reconnect(t) => proxy = t[2]]_vars

-----------------------------------------------------------------------------
\* Every API call returns: teardown, the build and the retries all end.
CallsReturn == \A t \in Calls : (pc[t] # "idle") ~> (pc[t] = "idle")

\* "connecting" is never shown forever, whichever goroutines raced.
ConnectingEnds == (state = "connecting") ~> (state # "connecting")

\* refreshMu is released on every path, so no refresh waits forever.
RefreshMuFreed == \A t \in Loops : (refreshMu = t) ~> (refreshMu # t)

\* A device that was built ends up installed or closed, through whichever of
\* the abandon, drain, probe-failure and teardown paths it goes.
DevicesSettle ==
    \A d \in Devices : (devSt[d] = "open") ~> (devSt[d] = "closed" \/ d = device)

\* The loops of a connection stop once its proxy is closed.
LoopsStop ==
    \A t \in Loops : (pxSt[t[2]] = "closed") ~> (pc[t] = "off")
=============================================================================
