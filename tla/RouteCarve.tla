----------------------------- MODULE RouteCarve -----------------------------
(***************************************************************************)
(* BuildWgConf (corplink/connect.go): the routes of the tunnel.  The node's*)
(* own address is carved out of the routes the server sent (subtractCIDR   *)
(* and carve, corplink/wgconf.go), the DNS servers are added when no route *)
(* covers them, IPv6 is dropped when the tunnel has no IPv6 address and    *)
(* what does not parse is dropped last.                                    *)
(*                                                                         *)
(* An address is a family and its bits, most significant first; a CIDR is  *)
(* an address and a number of bits, not masked unless the code masks it.   *)
(* The lists of the code are sets: their order decides nothing, and the    *)
(* last step removes duplicates.                                           *)
(***************************************************************************)
EXTENDS Integers

CONSTANTS
    W,         \* bits of an address: 32 and 128 in the code
    Junk,      \* an entry that does not parse
    NoCIDR,    \* no CIDR, or a peer that is not an address
    RouteSets, \* the lists of routes the server may send
    Peers,     \* the node's address, NoCIDR for a host name
    DNSSets    \* the lists of DNS servers

Address == [fam : {4, 6}, bit : [1..W -> {0, 1}]]
CIDR == [fam : {4, 6}, bit : [1..W -> {0, 1}], bits : 0..W]

ASSUME RouteAssumption ==
    /\ W \in Nat
    /\ Junk \notin CIDR /\ NoCIDR \notin CIDR \cup Address
    /\ RouteSets \subseteq SUBSET (CIDR \cup {Junk})
    /\ Peers \subseteq Address \cup {NoCIDR}
    /\ DNSSets \subseteq SUBSET Address

VARIABLES
    mode,     \* conf.RouteMode
    routes,   \* the list of that mode in info.Setting
    peer,     \* node.IP
    dns,      \* info.Setting.VPNDNS
    fams,     \* the families the tunnel has an address of
    stage,    \* "select", "carve", "finish", "done" or "error"
    uncarved, \* routes whose carving has not begun
    carving,  \* the CIDR being carved: it contains the peer
    allowed   \* the routes of the tunnel so far

routeInput == <<mode, routes, peer, dns, fams>>
routeVars == <<routeInput, stage, uncarved, carving, allowed>>

RouteInit ==
    /\ mode \in {"full", "split"}
    /\ routes \in RouteSets
    /\ peer \in Peers
    /\ dns \in DNSSets
    /\ fams \in {{4}, {4, 6}}
    /\ stage = "select"
    /\ uncarved = {}
    /\ carving = NoCIDR
    /\ allowed = {}

-----------------------------------------------------------------------------
\* netip.Prefix.Contains.
Contains(p, a) ==
    /\ p.fam = a.fam
    /\ \A i \in 1 .. p.bits : p.bit[i] = a.bit[i]

\* netip.Prefix.Masked: the bits after the prefix are zero.
Masked(p) ==
    [fam |-> p.fam, bits |-> p.bits,
     bit |-> [i \in 1..W |-> IF i <= p.bits THEN p.bit[i] ELSE 0]]

\* hostCIDR.
Host(a) == [fam |-> a.fam, bit |-> a.bit, bits |-> W]

\* len(subtractCIDR(Host(a), r)) = 0: the route covers the address.
Covers(r, a) == r # Junk /\ Contains(r, a)

\* carve halves a masked CIDR, lower (v = 0) and upper (v = 1).
Half(p, v) ==
    [fam |-> p.fam, bits |-> p.bits + 1, bit |-> [p.bit EXCEPT ![p.bits + 1] = v]]

\* The half the inner address is in ...
Containing(p, a) == Half(p, a.bit[p.bits + 1])

\* Faulty: the half that holds the inner address.
Sibling_Swapped(p, a) == Half(p, a.bit[p.bits + 1])

\* ... and the other one.
Sibling(p, a) == Half(p, 1 - a.bit[p.bits + 1])

-----------------------------------------------------------------------------
\* Full mode refuses to route nothing; a peer that is a name is not carved.
SelectRoutes ==
    /\ stage = "select"
    /\ ~(mode = "full" /\ routes = {})
    /\ IF peer = NoCIDR
       THEN stage' = "finish" /\ allowed' = routes /\ UNCHANGED uncarved
       ELSE stage' = "carve" /\ uncarved' = routes /\ UNCHANGED allowed
    /\ UNCHANGED <<routeInput, carving>>

NoRoutes ==
    /\ stage = "select"
    /\ mode = "full" /\ routes = {}
    /\ stage' = "error"
    /\ UNCHANGED <<routeInput, uncarved, carving, allowed>>

\* subtractCIDR: a route of another family, one that does not parse and one
\* the peer is not in are kept as they are.
Keep(r) ==
    /\ stage = "carve" /\ carving = NoCIDR /\ r \in uncarved
    /\ ~Covers(r, peer)
    /\ uncarved' = uncarved \ {r}
    /\ allowed' = allowed \cup {r}
    /\ UNCHANGED <<routeInput, stage, carving>>

\* The host route of the peer itself is removed, any wider route is carved.
Carve(r) ==
    /\ stage = "carve" /\ carving = NoCIDR /\ r \in uncarved
    /\ Covers(r, peer)
    /\ uncarved' = uncarved \ {r}
    /\ carving' = IF r.bits = W THEN NoCIDR ELSE Masked(r)
    /\ UNCHANGED <<routeInput, stage, allowed>>

\* One level of carve: the sibling is output, the other half is carved further.
Halve ==
    /\ carving # NoCIDR
    /\ carving.bits < W
    /\ allowed' = allowed \cup {Sibling(carving, peer)}
    /\ carving' = Containing(carving, peer)
    /\ UNCHANGED <<routeInput, stage, uncarved>>

\* The recursion ends when outer and inner are of equal length.
CarveEnds ==
    /\ carving # NoCIDR
    /\ carving.bits = W
    /\ carving' = NoCIDR
    /\ UNCHANGED <<routeInput, stage, uncarved, allowed>>

Carved ==
    /\ stage = "carve" /\ carving = NoCIDR /\ uncarved = {}
    /\ stage' = "finish"
    /\ UNCHANGED <<routeInput, uncarved, carving, allowed>>

\* ensureDNSAllowedIPs.
WithDNS(rs) ==
    rs \cup {Host(d) : d \in {a \in dns : \A r \in rs : ~Covers(r, a)}}

\* Faulty: the filter runs before the DNS servers are added.
Finished_FilterFirst(rs) ==
    WithDNS({r \in rs : r = Junk \/ r.fam \in fams}) \ {Junk}

\* The DNS servers, then filterIPv6Routes, then normalizeCIDRs.
Finished(rs) ==
    {r \in WithDNS(rs) : r # Junk /\ r.fam \in fams}

Finish ==
    /\ stage = "finish"
    /\ allowed' = Finished(allowed)
    /\ stage' = "done"
    /\ UNCHANGED <<routeInput, uncarved, carving>>

RouteNext ==
    \/ SelectRoutes \/ NoRoutes
    \/ \E r \in uncarved : Keep(r) \/ Carve(r)
    \/ Halve \/ CarveEnds \/ Carved
    \/ Finish

RouteSpec == RouteInit /\ [][RouteNext]_routeVars

-----------------------------------------------------------------------------
(***************************************************************************)
(* Properties.                                                             *)
(***************************************************************************)
RouteTypeOK ==
    /\ mode \in {"full", "split"} /\ fams \in {{4}, {4, 6}}
    /\ routes \in SUBSET (CIDR \cup {Junk}) /\ peer \in Address \cup {NoCIDR}
    /\ dns \in SUBSET Address
    /\ stage \in {"select", "carve", "finish", "done", "error"}
    /\ uncarved \in SUBSET (CIDR \cup {Junk})
    /\ carving \in CIDR \cup {NoCIDR}
    /\ allowed \in SUBSET (CIDR \cup {Junk})

Routed(rs, a) == \E r \in rs : Covers(r, a)

\* "Auto-carve the peer endpoint IP out of allowed_ips so the outer transport
\* packets to the node aren't captured by the tunnel": no route of the tunnel
\* leads to the node, at no moment and unless it is a DNS server too.
PeerOutside == peer # NoCIDR /\ peer \notin dns => ~Routed(allowed, peer)

\* The carving loses and adds nothing else: the finished tunnel routes exactly
\* the addresses the server listed, less the node, and the DNS servers, less
\* IPv6 when the tunnel has no IPv6 address.
RoutesExact ==
    stage = "done" =>
        \A a \in Address :
            Routed(allowed, a) <=>
                /\ a.fam \in fams
                /\ a \in dns \/ (Routed(routes, a) /\ a # peer)

\* The carving under way: what is still to be carved, what is being carved and
\* what is done cover together what the server listed, and the node is only in
\* the part that is not done.
CarveInv ==
    /\ stage \in {"select", "error"} => uncarved = {} /\ carving = NoCIDR /\ allowed = {}
    /\ stage = "carve" =>
        /\ peer # NoCIDR
        /\ uncarved \subseteq routes
        /\ \A a \in Address : a # peer =>
             (Routed(routes, a) <=>
                 \/ Routed(uncarved, a) \/ Routed(allowed, a)
                 \/ carving # NoCIDR /\ Contains(carving, a))
        /\ ~Routed(allowed, peer)
        /\ carving # NoCIDR => Contains(carving, peer)
    /\ stage \in {"finish", "done"} => carving = NoCIDR
    /\ stage = "finish" =>
        \A a \in Address : Routed(allowed, a) <=> Routed(routes, a) /\ a # peer
=============================================================================
