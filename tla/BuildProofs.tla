---------------------------- MODULE BuildProofs ----------------------------
(***************************************************************************)
(* What a build relies on, for any number of nodes, of concurrent probes   *)
(* and of overlapping builds, addresses of any width and any lists of      *)
(* routes and DNS servers: two pings do not cross, and the tunnel routes   *)
(* exactly what it should.                                                 *)
(***************************************************************************)
EXTENDS NodeSession, RouteCarve, WellFoundedInduction, TLAPS

(***************************************************************************)
(* The node: NodeSession.                                                  *)
(***************************************************************************)
\* Min of a node list is one of its nodes.
LEMMA MinOfNodes ==
  ASSUME NEW S \in SUBSET Nodes, S # {}
  PROVE  Min(S) \in S
  <1>1. S \subseteq Nat
    BY NodeAssumption DEF Nodes
  <1>2. PICK x \in S : \A y \in S : ~(<<y, x>> \in OpToRel(<, Nat))
    BY <1>1, WFMin, NatLessThanWellFounded, Zenon
  <1>3. ASSUME NEW y \in S PROVE x <= y
    <2>1. OpToRel(<, Nat) = {ss \in Nat \X Nat : ss[1] < ss[2]}
      BY Zenon DEF OpToRel
    <2>2. ~(<<y, x>> \in {ss \in Nat \X Nat : ss[1] < ss[2]})
      BY <1>2, <2>1, Zenon
    <2> QED
      BY <1>1, <2>2
  <1> QED
    BY <1>3 DEF Min

-----------------------------------------------------------------------------
\* Where a process is inside pingNodeLocked, and where a build has a list.
Pinging == {"copy", "set", "pinged"}
Choosing == Pinging \cup {"ping", "choose"}

\* Who pings holds probeMu.
LockInv == \A p \in Procs : pc[p] \in Pinging => probeMu = p

\* Only a build activates a node, and it chooses from a list.
BuildInv ==
    /\ \A p \in Probers : pc[p] \notin {"choose", "activate", "commit", "exchange"}
    /\ \A b \in Builders : pc[b] \in Choosing => listed[b] # {}

\* The inductive invariant.
NodeInv == TypeOK /\ LockInv /\ BuildInv /\ PingsUncrossed

\* What the steps need to know of the constants.
LEMMA Constants ==
  /\ None \notin Nodes /\ Free \notin Procs /\ Free \notin Builders
  /\ Probers \cap Builders = {} /\ Builders \subseteq Procs /\ Probers \subseteq Procs
  /\ \A p \in Procs : p \in Builders \/ p \in Probers
  /\ NoTunnel \in Tunnels
  /\ \A e, k \in Nodes \cup {None} : [ep |-> e, peer |-> k] \in Tunnels
  /\ \A t \in Tunnels : t.peer \in Nodes \cup {None}
  BY NodeAssumption DEF Nodes, None, Procs, NoTunnel, Tunnels

LEMMA NodeInvInit == Init => NodeInv
  BY Constants
     DEF Init, NodeInv, TypeOK, LockInv, BuildInv, PingsUncrossed, Pinging, Choosing

\* Each lemma below is about one kind of step.
LEMMA PingStep ==
  ASSUME NodeInv, NEW p \in Procs, NEW n \in Nodes, Ping(p, n)
  PROVE  NodeInv'
  <1> USE Constants DEF Ping, ProbeFree, Goto, conf, tuns
  <1>1. TypeOK'
    BY DEF NodeInv, TypeOK
  <1>2. LockInv'
    BY DEF NodeInv, TypeOK, LockInv, Pinging
  <1>3. BuildInv'
    BY DEF NodeInv, TypeOK, BuildInv, Pinging, Choosing
  <1>4. PingsUncrossed'
    BY DEF NodeInv, TypeOK, PingsUncrossed, LockInv, BuildInv, Pinging
  <1> QED
    BY <1>1, <1>2, <1>3, <1>4 DEF NodeInv

LEMMA CopyStep ==
  ASSUME NodeInv, NEW p \in Procs, Copy(p)
  PROVE  NodeInv'
  <1> USE Constants DEF Copy, CopyHost, Goto, conf, tuns
  <1>1. TypeOK'
    BY DEF NodeInv, TypeOK
  <1>2. LockInv'
    BY DEF NodeInv, TypeOK, LockInv, Pinging
  <1>3. BuildInv'
    BY DEF NodeInv, TypeOK, BuildInv, Pinging, Choosing
  <1>4. PingsUncrossed'
    BY DEF NodeInv, TypeOK, PingsUncrossed, LockInv, BuildInv, Pinging
  <1> QED
    BY <1>1, <1>2, <1>3, <1>4 DEF NodeInv

LEMMA SetStep ==
  ASSUME NodeInv, NEW p \in Procs, Set(p)
  PROVE  NodeInv'
  <1> USE Constants DEF Set, SetVPNBase, Goto, conf, tuns
  <1>1. TypeOK'
    BY DEF NodeInv, TypeOK, BuildInv
  <1>2. LockInv'
    BY DEF NodeInv, TypeOK, LockInv, Pinging
  <1>3. BuildInv'
    BY DEF NodeInv, TypeOK, BuildInv, Pinging, Choosing
  <1>4. PingsUncrossed'
    BY DEF NodeInv, TypeOK, PingsUncrossed, LockInv, BuildInv, Pinging
  <1> QED
    BY <1>1, <1>2, <1>3, <1>4 DEF NodeInv

LEMMA PingedStep ==
  ASSUME NodeInv, NEW p \in Procs, Pinged(p)
  PROVE  NodeInv'
  <1> USE Constants DEF Pinged, Left, Goto, conf, tuns
  <1>1. TypeOK'
    BY DEF NodeInv, TypeOK
  <1>2. LockInv'
    BY DEF NodeInv, TypeOK, LockInv, Pinging
  <1>3. BuildInv'
    BY DEF NodeInv, TypeOK, BuildInv, Pinging, Choosing
  <1>4. PingsUncrossed'
    BY DEF NodeInv, TypeOK, PingsUncrossed, LockInv, BuildInv, Pinging
  <1> QED
    BY <1>1, <1>2, <1>3, <1>4 DEF NodeInv

LEMMA ServersStep ==
  ASSUME NodeInv, NEW p \in Probers, Servers(p)
  PROVE  NodeInv'
  <1> USE Constants DEF Servers, Goto, conf, tuns
  <1>1. TypeOK'
    BY DEF NodeInv, TypeOK
  <1>2. LockInv'
    BY DEF NodeInv, TypeOK, LockInv, Pinging
  <1>3. BuildInv'
    BY DEF NodeInv, TypeOK, BuildInv, Pinging, Choosing
  <1>4. PingsUncrossed'
    BY DEF NodeInv, TypeOK, PingsUncrossed, LockInv, BuildInv, Pinging
  <1> QED
    BY <1>1, <1>2, <1>3, <1>4 DEF NodeInv

LEMMA SelectStep ==
  ASSUME NodeInv, NEW b \in Builders, NEW nodes \in (SUBSET Nodes) \ {{}},
         NEW pinned \in Nodes \cup {None}, Select(b, nodes, pinned)
  PROVE  NodeInv'
  <1> USE Constants DEF Select, Goto, conf, tuns
  <1>1. TypeOK'
    BY DEF NodeInv, TypeOK
  <1>2. LockInv'
    BY DEF NodeInv, TypeOK, LockInv, Pinging
  <1>3. BuildInv'
    BY DEF NodeInv, TypeOK, BuildInv, Pinging, Choosing
  <1>4. PingsUncrossed'
    BY DEF NodeInv, TypeOK, PingsUncrossed, LockInv, BuildInv, Pinging
  <1> QED
    BY <1>1, <1>2, <1>3, <1>4 DEF NodeInv

LEMMA ChooseStep ==
  ASSUME NodeInv, NEW b \in Builders, Choose(b)
  PROVE  NodeInv'
  <1> USE Constants DEF Choose, Goto, tuns
  <1>1. Candidates(b) \subseteq Nodes
    BY MinOfNodes DEF Candidates, NodeInv, TypeOK, BuildInv, Choosing
  <1>2. TypeOK'
    BY <1>1 DEF NodeInv, TypeOK
  <1>3. LockInv'
    BY DEF NodeInv, TypeOK, LockInv, Pinging
  <1>4. BuildInv'
    BY DEF NodeInv, TypeOK, BuildInv, Pinging, Choosing
  <1>5. PingsUncrossed'
    BY DEF NodeInv, TypeOK, PingsUncrossed, LockInv, BuildInv, Pinging
  <1> QED
    BY <1>2, <1>3, <1>4, <1>5 DEF NodeInv

LEMMA ExchangeStep ==
  ASSUME NodeInv, NEW b \in Builders, Exchange(b) \/ ExchangeFails(b)
  PROVE  NodeInv'
  <1> USE Constants DEF Exchange, ExchangeFails, Leave, Goto, conf, tuns
  <1>1. TypeOK'
    <2>1. CASE Exchange(b)
      <3>1. node[b] \in Nodes /\ base \in Nodes \cup {None}
        BY <2>1 DEF NodeInv, TypeOK
      <3>2. cur' \in Tunnels /\ draining' \in Nodes \cup {None}
        BY <2>1, <3>1 DEF NodeInv, TypeOK
      <3> QED
        BY <2>1, <3>2 DEF NodeInv, TypeOK
    <2>2. CASE ExchangeFails(b)
      BY <2>2 DEF NodeInv, TypeOK
    <2> QED
      BY <2>1, <2>2
  <1>2. LockInv'
    BY DEF NodeInv, TypeOK, LockInv, Pinging
  <1>3. BuildInv'
    BY DEF NodeInv, TypeOK, BuildInv, Pinging, Choosing
  <1>4. PingsUncrossed'
    BY DEF NodeInv, TypeOK, PingsUncrossed, LockInv, BuildInv, Pinging
  <1> QED
    BY <1>1, <1>2, <1>3, <1>4 DEF NodeInv

\* Reports, the end of a tunnel, and the session with the server.
LEMMA ReportStep ==
  ASSUME NodeInv, KeepAlive \/ DrainEnds \/ Disconnect \/ Teardown \/ Logout \/ Login
  PROVE  NodeInv'
  <1> USE Constants DEF KeepAlive, DrainEnds, Disconnect, Teardown, Logout, Login, Report,
                        calls, conf, tuns
  <1>1. TypeOK'
    BY DEF NodeInv, TypeOK
  <1>2. LockInv'
    BY DEF NodeInv, TypeOK, LockInv, Pinging
  <1>3. BuildInv'
    BY DEF NodeInv, TypeOK, BuildInv, Pinging, Choosing
  <1>4. PingsUncrossed'
    BY DEF NodeInv, TypeOK, PingsUncrossed, LockInv, BuildInv, Pinging
  <1> QED
    BY <1>1, <1>2, <1>3, <1>4 DEF NodeInv

LEMMA NodeInvStep == NodeInv /\ [Next]_vars => NodeInv'
  <1> SUFFICES ASSUME NodeInv, [Next]_vars PROVE NodeInv'
    OBVIOUS
  <1>1. CASE UNCHANGED vars
    BY <1>1 DEF vars, calls, conf, tuns, NodeInv, TypeOK, LockInv, BuildInv,
                PingsUncrossed
  <1>2. CASE Next
    BY <1>2, PingStep, CopyStep, SetStep, PingedStep, ServersStep, SelectStep,
       ChooseStep, ExchangeStep, ReportStep, Zenon DEF Next
  <1> QED
    BY <1>1, <1>2

\* The invariant of vpnBase, for any number of builds: who pings holds the lock,
\* and only a build sets the base without it.
THEOREM NodeInvariant == Spec => []NodeInv
  BY NodeInvInit, NodeInvStep, PTL DEF Spec

\* The client's variables and the locals of probes and builds keep their types:
\* who addresses a node has one, also when no node answered its ping.
THEOREM NodeTypeCorrect == Spec => []TypeOK
  <1>1. NodeInv => TypeOK
    BY DEF NodeInv
  <1> QED
    BY <1>1, NodeInvariant, PTL

\* Two pings never cross (pingNodeLocked), for any number of nodes, probes and
\* overlapping builds: a ping meets another node than its own only when another
\* build's activateNode came between.
THEOREM PingsUncrossedAlways == Spec => []PingsUncrossed
  <1>1. NodeInv => PingsUncrossed
    BY DEF NodeInv
  <1> QED
    BY <1>1, NodeInvariant, PTL

-----------------------------------------------------------------------------
(***************************************************************************)
(* Its routes: RouteCarve.                                                 *)
(***************************************************************************)
\* Masking changes no address of the CIDR.
LEMMA MaskedContains ==
  ASSUME NEW p \in CIDR
  PROVE  /\ Masked(p) \in CIDR
         /\ Masked(p).bits = p.bits
         /\ \A a \in Address : Contains(Masked(p), a) <=> Contains(p, a)
  <1> DEFINE b == [i \in 1..W |-> IF i <= p.bits THEN p.bit[i] ELSE 0]
  <1>1. W \in Nat /\ p.bits \in 0..W /\ p.bit \in [1..W -> {0, 1}] /\ p.fam \in {4, 6}
    BY RouteAssumption DEF CIDR
  <1>2. b \in [1..W -> {0, 1}]
    BY <1>1
  <1>3. \A i \in 1 .. p.bits : b[i] = p.bit[i]
    BY <1>1
  <1>4. Masked(p) = [fam |-> p.fam, bits |-> p.bits, bit |-> b]
    BY DEF Masked
  <1> HIDE DEF b
  <1>5. Masked(p) \in CIDR /\ Masked(p).bits = p.bits
    BY <1>1, <1>2, <1>4 DEF CIDR
  <1>6. \A a \in Address : Contains(Masked(p), a) <=> Contains(p, a)
    BY <1>3, <1>4 DEF Contains
  <1> QED
    BY <1>5, <1>6

\* The two halves of a CIDR: each holds the addresses with its next bit.
LEMMA HalfContains ==
  ASSUME NEW p \in CIDR, p.bits < W, NEW v \in {0, 1}
  PROVE  /\ Half(p, v) \in CIDR
         /\ \A a \in Address :
              Contains(Half(p, v), a) <=> Contains(p, a) /\ a.bit[p.bits + 1] = v
  <1>1. p.bits \in Nat /\ p.bits + 1 \in 1..W /\ W \in Nat
    BY RouteAssumption DEF CIDR
  <1>2. Half(p, v) \in CIDR
    BY <1>1 DEF Half, CIDR
  <1>3. ASSUME NEW a \in Address
        PROVE  Contains(Half(p, v), a) <=> Contains(p, a) /\ a.bit[p.bits + 1] = v
    <2> DEFINE h == Half(p, v)
    <2>1. h.fam = p.fam /\ h.bits = p.bits + 1
      BY DEF Half
    <2>2. h.bit[p.bits + 1] = v /\ \A i \in 1 .. p.bits : h.bit[i] = p.bit[i]
      BY <1>1 DEF Half, CIDR
    <2>3. 1 .. h.bits = (1 .. p.bits) \cup {p.bits + 1}
      BY <1>1, <2>1
    <2> HIDE DEF h
    <2>4. Contains(h, a) <=> Contains(p, a) /\ a.bit[p.bits + 1] = v
      BY <2>1, <2>2, <2>3 DEF Contains
    <2> QED
      BY <2>4 DEF h
  <1> QED
    BY <1>2, <1>3

\* A CIDR of full length holds one address.
LEMMA FullLength ==
  ASSUME NEW p \in CIDR, p.bits = W, NEW a \in Address, NEW b \in Address,
         Contains(p, a), Contains(p, b)
  PROVE  a = b
  <1>1. a.fam = b.fam /\ \A i \in 1..W : a.bit[i] = b.bit[i]
    BY DEF Contains
  <1>2. a.bit \in [1..W -> {0, 1}] /\ b.bit \in [1..W -> {0, 1}]
    BY DEF Address
  <1>3. a.bit = b.bit
    <2>1. a.bit = [i \in 1..W |-> a.bit[i]] /\ b.bit = [i \in 1..W |-> b.bit[i]]
      BY <1>2
    <2>2. [i \in 1..W |-> a.bit[i]] = [i \in 1..W |-> b.bit[i]]
      BY <1>1
    <2> QED
      BY <2>1, <2>2
  <1>4. a = [fam |-> a.fam, bit |-> a.bit] /\ b = [fam |-> b.fam, bit |-> b.bit]
    BY DEF Address
  <1> QED
    BY <1>1, <1>3, <1>4

\* hostCIDR holds the address and no other.
LEMMA HostContains ==
  ASSUME NEW d \in Address
  PROVE  /\ Host(d) \in CIDR /\ Host(d) # Junk
         /\ \A a \in Address : Contains(Host(d), a) <=> a = d
  <1>1. Host(d) \in CIDR /\ Host(d).bits = W
    BY RouteAssumption DEF Host, CIDR, Address
  <1>2. Contains(Host(d), d)
    BY DEF Host, Contains
  <1> QED
    BY <1>1, <1>2, FullLength, RouteAssumption

-----------------------------------------------------------------------------
\* The inductive invariant.
RouteInv == RouteTypeOK /\ CarveInv /\ RoutesExact

LEMMA RouteInvInit == RouteInit => RouteInv
  BY RouteAssumption DEF RouteInit, RouteInv, RouteTypeOK, CarveInv, RoutesExact

\* The list that ensureDNSAllowedIPs, the filter and the normalisation leave.
LEMMA FinishedRoutes ==
  ASSUME RouteTypeOK, NEW a \in Address
  PROVE  Routed(Finished(allowed), a) <=>
            a.fam \in fams /\ (a \in dns \/ Routed(allowed, a))
  <1>1. ASSUME Routed(Finished(allowed), a)
        PROVE  a.fam \in fams /\ (a \in dns \/ Routed(allowed, a))
    <2>1. PICK r \in Finished(allowed) : Covers(r, a)
      BY <1>1 DEF Routed
    <2>2. r.fam \in fams /\ a.fam = r.fam
      BY <2>1 DEF Finished, Covers, Contains
    <2>3. r \in WithDNS(allowed)
      BY <2>1 DEF Finished
    <2>4. CASE r \in allowed
      BY <2>1, <2>2, <2>4 DEF Routed
    <2>5. CASE r \notin allowed
      <3>1. PICK d \in dns : r = Host(d)
        BY <2>3, <2>5 DEF WithDNS
      <3>2. d \in Address
        BY DEF RouteTypeOK
      <3> QED
        BY <2>1, <2>2, <3>1, <3>2, HostContains DEF Covers
    <2> QED
      BY <2>4, <2>5
  <1>2. ASSUME a.fam \in fams, Routed(allowed, a)
        PROVE  Routed(Finished(allowed), a)
    <2>1. PICK r \in allowed : Covers(r, a)
      BY <1>2 DEF Routed
    <2>2. r \in Finished(allowed)
      BY <1>2, <2>1 DEF Finished, WithDNS, Covers, Contains
    <2> QED
      BY <2>1, <2>2 DEF Routed
  <1>3. ASSUME a.fam \in fams, a \in dns, ~Routed(allowed, a)
        PROVE  Routed(Finished(allowed), a)
    <2>1. Host(a) \in WithDNS(allowed)
      BY <1>3 DEF WithDNS, Routed
    <2>2. Host(a) # Junk /\ Covers(Host(a), a) /\ Host(a).fam = a.fam
      BY HostContains DEF Covers, Host
    <2> QED
      BY <1>3, <2>1, <2>2 DEF Finished, Routed
  <1> QED
    BY <1>1, <1>2, <1>3

LEMMA RouteInvStep == RouteInv /\ [RouteNext]_routeVars => RouteInv'
  <1> SUFFICES ASSUME RouteInv, [RouteNext]_routeVars PROVE RouteInv'
    OBVIOUS
  <1> USE DEF RouteInv
  <1>1. CASE SelectRoutes
    <2>1. CASE peer = NoCIDR
      <3>1. RouteTypeOK'
        BY <1>1, <2>1 DEF SelectRoutes, RouteTypeOK, routeInput
      <3>2. \A a \in Address : a # peer
        BY <2>1, RouteAssumption
      <3>3. CarveInv' /\ RoutesExact'
        BY <1>1, <2>1, <3>2 DEF SelectRoutes, RouteTypeOK, routeInput, CarveInv, RoutesExact, Routed
      <3> QED
        BY <3>1, <3>3
    <2>2. CASE peer # NoCIDR
      <3>1. RouteTypeOK'
        BY <1>1, <2>2 DEF SelectRoutes, RouteTypeOK, routeInput
      <3>2. CarveInv' /\ RoutesExact'
        BY <1>1, <2>2 DEF SelectRoutes, RouteTypeOK, routeInput, CarveInv, RoutesExact, Routed
      <3> QED
        BY <3>1, <3>2
    <2> QED
      BY <2>1, <2>2
  <1>2. CASE NoRoutes
    BY <1>2 DEF NoRoutes, RouteTypeOK, routeInput, CarveInv, RoutesExact
  <1>3. ASSUME NEW r \in uncarved, Keep(r) PROVE RouteInv'
    <2>1. RouteTypeOK'
      BY <1>3 DEF Keep, RouteTypeOK, routeInput
    <2>2. stage = "carve" /\ stage' = "carve" /\ carving = NoCIDR /\ carving' = NoCIDR
          /\ routes' = routes /\ peer' = peer
      BY <1>3 DEF Keep, routeInput
    <2>3. ~Routed(allowed', peer)
      BY <1>3, <2>2 DEF Keep, CarveInv, Routed
    <2>4. \A a \in Address : Routed(uncarved', a) \/ Routed(allowed', a)
                               <=> Routed(uncarved, a) \/ Routed(allowed, a)
      BY <1>3 DEF Keep, Routed
    <2>5. uncarved' \subseteq routes
      BY <1>3, <2>2 DEF Keep, CarveInv
    <2>6. CarveInv'
      BY <2>2, <2>3, <2>4, <2>5 DEF CarveInv, Routed
    <2> QED
      BY <2>1, <2>2, <2>6 DEF RoutesExact
  <1>4. ASSUME NEW r \in uncarved, Carve(r) PROVE RouteInv'
    <2>1. stage = "carve" /\ stage' = "carve" /\ carving = NoCIDR /\ allowed' = allowed
          /\ routes' = routes /\ peer' = peer /\ uncarved' = uncarved \ {r}
      BY <1>4 DEF Carve, routeInput
    <2>2. r \in CIDR /\ Contains(r, peer) /\ peer \in Address
      BY <1>4, <2>1 DEF Carve, Covers, RouteTypeOK, CarveInv
    <2>3. \A a \in Address : Routed(uncarved, a) <=> Routed(uncarved', a) \/ Contains(r, a)
      BY <1>4, <2>1, <2>2 DEF Carve, Covers, Routed
    <2>4. CASE r.bits = W
      <3>1. carving' = NoCIDR
        BY <1>4, <2>4 DEF Carve
      <3>2. \A a \in Address : Contains(r, a) => a = peer
        BY <2>2, <2>4, FullLength
      <3>3. RouteTypeOK'
        BY <1>4, <2>1, <3>1 DEF Carve, RouteTypeOK, routeInput
      <3>4. CarveInv'
        BY <2>1, <2>3, <3>1, <3>2 DEF CarveInv, Routed
      <3> QED
        BY <2>1, <3>3, <3>4 DEF RoutesExact
    <2>5. CASE r.bits # W
      <3>1. carving' = Masked(r) /\ carving' \in CIDR /\ carving' # NoCIDR
        BY <1>4, <2>2, <2>5, MaskedContains, RouteAssumption DEF Carve
      <3>2. \A a \in Address : Contains(carving', a) <=> Contains(r, a)
        BY <2>2, <3>1, MaskedContains
      <3>3. RouteTypeOK'
        BY <1>4, <2>1, <3>1 DEF Carve, RouteTypeOK, routeInput
      <3>4. CarveInv'
        BY <2>1, <2>2, <2>3, <3>1, <3>2 DEF CarveInv, Routed
      <3> QED
        BY <2>1, <3>3, <3>4 DEF RoutesExact
    <2> QED
      BY <2>4, <2>5
  <1>5. CASE Halve
    <2>1. carving \in CIDR /\ carving.bits < W /\ stage = "carve" /\ stage' = "carve"
          /\ routes' = routes /\ peer' = peer /\ uncarved' = uncarved
      BY <1>5 DEF Halve, RouteTypeOK, CarveInv, routeInput
    <2>2. peer \in Address /\ Contains(carving, peer) /\ ~Routed(allowed, peer)
      BY <1>5, <2>1 DEF Halve, RouteTypeOK, CarveInv
    <2> DEFINE v == peer.bit[carving.bits + 1]
    <2>3. v \in {0, 1} /\ 1 - v \in {0, 1} /\ v # 1 - v
      <3>1. carving.bits + 1 \in 1..W
        BY <2>1, RouteAssumption DEF CIDR
      <3>2. v \in {0, 1}
        BY <2>2, <3>1 DEF Address
      <3> QED
        BY <3>2
    <2>4. \A a \in Address : a.bit[carving.bits + 1] \in {v, 1 - v}
      <3>1. carving.bits + 1 \in 1..W
        BY <2>1, RouteAssumption DEF CIDR
      <3>2. \A a \in Address : a.bit[carving.bits + 1] \in {0, 1}
        BY <3>1 DEF Address
      <3> HIDE DEF v
      <3> QED
        BY <2>3, <3>2
    <2>5. carving' = Half(carving, v) /\ allowed' = allowed \cup {Half(carving, 1 - v)}
      BY <1>5 DEF Halve, Containing, Sibling
    <2> HIDE DEF v
    <2>6. /\ carving' \in CIDR /\ Half(carving, 1 - v) \in CIDR
          /\ carving' # NoCIDR /\ Half(carving, 1 - v) # Junk
      BY <2>1, <2>3, <2>5, HalfContains, RouteAssumption
    <2>7. \A a \in Address :
            Contains(carving, a) <=> Contains(carving', a) \/ Contains(Half(carving, 1 - v), a)
      BY <2>1, <2>3, <2>4, <2>5, HalfContains
    <2>8. Contains(carving', peer) /\ ~Contains(Half(carving, 1 - v), peer)
      BY <2>1, <2>2, <2>3, <2>5, HalfContains DEF v
    <2>9. \A a \in Address :
            Routed(allowed', a) <=> Routed(allowed, a) \/ Contains(Half(carving, 1 - v), a)
      BY <2>5, <2>6 DEF Routed, Covers
    <2>10. ~Routed(allowed', peer)
      BY <2>2, <2>8, <2>9
    <2>11. RouteTypeOK'
      BY <1>5, <2>1, <2>5, <2>6 DEF Halve, RouteTypeOK, routeInput
    <2>12. \A a \in Address : a # peer =>
             (Routed(routes, a) <=> \/ Routed(uncarved, a) \/ Routed(allowed', a)
                                    \/ Contains(carving', a))
      BY <1>5, <2>1, <2>7, <2>9 DEF CarveInv, Halve
    <2>13. uncarved \subseteq routes /\ peer # NoCIDR
      BY <2>1 DEF CarveInv
    <2>14. CarveInv'
      BY <2>1, <2>6, <2>8, <2>10, <2>12, <2>13 DEF CarveInv, Routed
    <2> QED
      BY <2>1, <2>11, <2>14 DEF RoutesExact
  <1>6. CASE CarveEnds
    <2>1. /\ carving \in CIDR /\ carving.bits = W
          /\ stage = "carve" /\ stage' = "carve" /\ carving' = NoCIDR
          /\ routes' = routes /\ peer' = peer /\ uncarved' = uncarved /\ allowed' = allowed
      BY <1>6 DEF CarveEnds, RouteTypeOK, CarveInv, routeInput
    <2>2. peer \in Address /\ Contains(carving, peer)
      BY <1>6, <2>1 DEF CarveEnds, RouteTypeOK, CarveInv
    <2>3. \A a \in Address : Contains(carving, a) => a = peer
      BY <2>1, <2>2, FullLength
    <2>4. RouteTypeOK'
      BY <1>6, <2>1 DEF CarveEnds, RouteTypeOK, routeInput
    <2>5. CarveInv'
      BY <2>1, <2>3 DEF CarveInv, Routed
    <2> QED
      BY <2>1, <2>4, <2>5 DEF RoutesExact
  <1>7. CASE Carved
    <2>1. RouteTypeOK'
      BY <1>7 DEF Carved, RouteTypeOK, routeInput
    <2>2. peer \in Address
      BY <1>7 DEF Carved, RouteTypeOK, CarveInv
    <2>3. \A a \in Address : Routed(allowed, a) <=> Routed(routes, a) /\ a # peer
      BY <1>7, <2>2 DEF Carved, CarveInv, Routed
    <2>4. CarveInv' /\ RoutesExact'
      BY <1>7, <2>3 DEF Carved, CarveInv, RoutesExact, Routed, routeInput
    <2> QED
      BY <2>1, <2>4
  <1>8. CASE Finish
    <2>1. stage = "finish" /\ stage' = "done" /\ allowed' = Finished(allowed)
          /\ routes' = routes /\ peer' = peer /\ fams' = fams /\ dns' = dns
          /\ carving' = carving /\ uncarved' = uncarved /\ mode' = mode
      BY <1>8 DEF Finish, routeInput
    <2>2. Finished(allowed) \subseteq CIDR
      BY HostContains DEF Finished, WithDNS, RouteTypeOK
    <2>3. RouteTypeOK'
      BY <2>1, <2>2 DEF RouteTypeOK
    <2>4. CarveInv'
      BY <2>1 DEF CarveInv
    <2>5. \A a \in Address : Routed(allowed, a) <=> Routed(routes, a) /\ a # peer
      BY <2>1 DEF CarveInv
    <2>6. \A a \in Address :
            Routed(allowed', a) <=>
                a.fam \in fams /\ (a \in dns \/ (Routed(routes, a) /\ a # peer))
      BY <2>1, <2>5, FinishedRoutes
    <2>7. RoutesExact'
      BY <2>1, <2>6 DEF RoutesExact, Routed
    <2> QED
      BY <2>3, <2>4, <2>7
  <1>9. CASE UNCHANGED routeVars
    BY <1>9 DEF routeVars, routeInput, RouteTypeOK, CarveInv, RoutesExact, Routed
  <1> QED
    BY <1>1, <1>2, <1>3, <1>4, <1>5, <1>6, <1>7, <1>8, <1>9 DEF RouteNext

\* The invariant of the carving holds throughout, for any width.
THEOREM RouteInvariant == RouteSpec => []RouteInv
  BY RouteInvInit, RouteInvStep, PTL DEF RouteSpec

\* BuildWgConf's variables keep their types; no CIDR is longer than an address.
THEOREM RouteTypeCorrect == RouteSpec => []RouteTypeOK
  <1>1. RouteInv => RouteTypeOK
    BY DEF RouteInv
  <1> QED
    BY <1>1, RouteInvariant, PTL

\* The tunnel routes exactly the server's addresses, less the node, and the DNS
\* servers, for addresses of any width and any lists.
THEOREM RoutesExactAlways == RouteSpec => []RoutesExact
  <1>1. RouteInv => RoutesExact
    BY DEF RouteInv
  <1> QED
    BY <1>1, RouteInvariant, PTL

\* No route of the tunnel leads to the node, unless it is a DNS server as well:
\* the transport's own packets are never captured.
THEOREM PeerOutsideAlways == RouteSpec => []PeerOutside
  <1>1. RouteInv => PeerOutside
    <2> SUFFICES ASSUME RouteInv, peer # NoCIDR, peer \notin dns
                 PROVE  ~Routed(allowed, peer)
      BY DEF PeerOutside
    <2>1. peer \in Address
      BY DEF RouteInv, RouteTypeOK
    <2>2. CASE stage \in {"select", "error"}
      BY <2>2 DEF RouteInv, CarveInv, Routed
    <2>3. CASE stage = "carve"
      BY <2>3 DEF RouteInv, CarveInv
    <2>4. CASE stage = "finish"
      BY <2>1, <2>4 DEF RouteInv, CarveInv
    <2>5. CASE stage = "done"
      BY <2>1, <2>5 DEF RouteInv, RoutesExact
    <2> QED
      BY <2>2, <2>3, <2>4, <2>5 DEF RouteInv, RouteTypeOK
  <1> QED
    BY <1>1, RouteInvariant, PTL
=============================================================================
