------------------------------ MODULE Gateway ------------------------------
(***************************************************************************)
(* What the connection manager promises about the tunnels it offers,       *)
(* whoever calls it and in whatever order: a device and a proxy are built, *)
(* wait, are installed together, are taken out and only then closed, each  *)
(* at most once and never backwards.  A device is exchanged under an       *)
(* installed proxy, and only there.                                        *)
(***************************************************************************)
CONSTANTS Devices, Proxies

VARIABLES
    dev,  \* stage of each device
    px    \* stage of each proxy

Init ==
    /\ dev = [d \in Devices |-> "new"]
    /\ px = [p \in Proxies |-> "new"]

\* The stages f after what is installed has been taken out.
TakenOut(f) == [x \in DOMAIN f |-> IF f[x] = "installed" THEN "retired" ELSE f[x]]

BuildDevice(d) ==
    /\ dev[d] = "new"
    /\ dev' = [dev EXCEPT ![d] = "spare"]
    /\ px' = px

BuildProxy(p) ==
    /\ px[p] = "new"
    /\ px' = [px EXCEPT ![p] = "spare"]
    /\ dev' = dev

\* A device that was never installed is given up.
Discard(d) ==
    /\ dev[d] = "spare"
    /\ dev' = [dev EXCEPT ![d] = "closed"]
    /\ px' = px

Install(d, p) ==
    /\ dev[d] = "spare" /\ px[p] = "spare"
    /\ dev' = [TakenOut(dev) EXCEPT ![d] = "installed"]
    /\ px' = [TakenOut(px) EXCEPT ![p] = "installed"]

\* The installed proxy goes on with another device.
Exchange(d) ==
    /\ dev[d] = "spare"
    /\ \E p \in Proxies : px[p] = "installed"
    /\ dev' = [TakenOut(dev) EXCEPT ![d] = "installed"]
    /\ px' = px

TakeOut ==
    /\ dev' = TakenOut(dev)
    /\ px' = TakenOut(px)

\* Only what has been taken out is closed.
Close(ds, ps) ==
    /\ \A d \in ds : dev[d] = "retired"
    /\ \A p \in ps : px[p] = "retired"
    /\ dev' = [d \in Devices |-> IF d \in ds THEN "closed" ELSE dev[d]]
    /\ px' = [p \in Proxies |-> IF p \in ps THEN "closed" ELSE px[p]]

Next ==
    \/ \E d \in Devices : BuildDevice(d) \/ Discard(d) \/ Exchange(d)
    \/ \E p \in Proxies : BuildProxy(p)
    \/ \E d \in Devices, p \in Proxies : Install(d, p)
    \/ TakeOut
    \/ \E ds \in SUBSET Devices, ps \in SUBSET Proxies : Close(ds, ps)

Spec == Init /\ [][Next]_<<dev, px>>
=============================================================================
