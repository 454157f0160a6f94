----------------------------- MODULE NodeSession -----------------------------
(***************************************************************************)
(* Client.vpnBase (corplink/client.go) and those who share it: latency     *)
(* probes of the node list (Manager.Servers), the selection of a node and  *)
(* the exchange with it (buildTunnel), keep-alive and disconnect reports.  *)
(* setVPNBase and request each lock c.mu on their own, so a request goes   *)
(* to whatever node was set last; probeMu only orders pings, and not the   *)
(* activateNode of a build.  Builds overlap: a Connect after a Disconnect  *)
(* met one, a refresh beside a reconnect.                                  *)
(*                                                                         *)
(* Nodes are numbered in the order of the node list.  A request is one     *)
(* step: it reads vpnBase and gets an answer of that node, or an error.    *)
(***************************************************************************)
EXTENDS Naturals, FiniteSets, FiniteSetsExt

CONSTANTS
    NumNodes,   \* bound of the node list
    Probers,    \* concurrent calls of Servers(probe)
    Builders    \* the connects, refreshes and reconnects that build a tunnel

Nodes == 1 .. NumNodes
None == 0
Procs == Probers \cup Builders
Free == "free"
Tunnels == [ep : Nodes \cup {None}, peer : Nodes \cup {None}]

ASSUME NodeAssumption ==
    /\ NumNodes \in Nat \ {0}
    /\ Probers \cap Builders = {}
    /\ Free \notin Procs

VARIABLES
    base,      \* c.vpnBase
    setBy,     \* history: the build whose activateNode set base last, or Free
    jar,       \* hosts whose session cookies the jar holds; None is the server
    probeMu,   \* holder of probeMu, or Free
    pc,        \* where each process is
    node,      \* the node it deals with
    todo,      \* nodes it has yet to ping
    answered,  \* nodes whose ping by the build was answered
    strategy,  \* conf.VPNSelectStrategy, as each build reads it to select
    listed,    \* the node list each build selects from
    cur,       \* m's tunnel: endpoint, node of its peer key
    draining,  \* the node of the tunnel it replaced, or None
    astray     \* history: reports that went to another node than their tunnel's

calls == <<pc, node, todo, answered>>
conf == <<strategy, listed>>
tuns == <<cur, draining, astray>>
vars == <<base, setBy, jar, probeMu, calls, conf, tuns>>

NoTunnel == [ep |-> None, peer |-> None]

Init ==
    /\ base = None
    /\ setBy = Free
    /\ jar = {None}
    /\ probeMu = Free
    /\ pc = [p \in Procs |-> "idle"]
    /\ node = [p \in Procs |-> None]
    /\ todo = [p \in Procs |-> {}]
    /\ answered = [b \in Builders |-> {}]
    /\ strategy = [b \in Builders |-> "none"]
    /\ listed = [b \in Builders |-> {}]
    /\ cur = NoTunnel
    /\ draining = None
    /\ astray = {}

Goto(p, next) == pc' = [pc EXCEPT ![p] = next]

-----------------------------------------------------------------------------
(***************************************************************************)
(* Client operations.                                                      *)
(***************************************************************************)
\* The first half of setVPNBase, jar.copyHost: nothing to copy once Logout has
\* cleared the jar.
CopyHost(p) == jar' = IF None \in jar THEN jar \cup {node[p]} ELSE jar

\* The second half, under c.mu, in a ping or in activateNode.
SetVPNBase(p) ==
    /\ base' = node[p]
    /\ setBy' = IF pc[p] = "commit" THEN p ELSE Free

\* Faulty: a ping does not wait for other pings.
ProbeFree_Always == TRUE

\* A ping waits for probeMu.
ProbeFree == probeMu = Free

\* pingNodeLocked, up to setVPNBase.
Ping(p, n) ==
    /\ pc[p] = "ping"
    /\ n \in todo[p]
    /\ p \in Builders => n = Min(todo[p])
    /\ ProbeFree
    /\ probeMu' = p
    /\ node' = [node EXCEPT ![p] = n]
    /\ todo' = [todo EXCEPT ![p] = @ \ {n}]
    /\ Goto(p, "copy")
    /\ UNCHANGED <<base, setBy, jar, answered, conf, tuns>>

Copy(p) ==
    /\ pc[p] \in {"copy", "activate"}
    /\ CopyHost(p)
    /\ Goto(p, IF pc[p] = "copy" THEN "set" ELSE "commit")
    /\ UNCHANGED <<base, setBy, probeMu, node, todo, answered, conf, tuns>>

Set(p) ==
    /\ pc[p] \in {"set", "commit"}
    /\ SetVPNBase(p)
    /\ Goto(p, IF pc[p] = "set" THEN "pinged" ELSE "exchange")
    /\ UNCHANGED <<jar, probeMu, node, todo, answered, conf, tuns>>

\* Which nodes are left to ping once one answered, or did not: the default
\* strategy stops at the first answer.
Left(p, ok) ==
    IF p \in Builders /\ strategy[p] = "default" /\ ok THEN {} ELSE todo[p]

\* The ping itself, answered by the node of vpnBase if that has the session.
\* A build counts the answer for the node it pinged.
Pinged(p) ==
    /\ pc[p] = "pinged"
    /\ probeMu' = Free
    /\ \E ok \in BOOLEAN :
         /\ ok => base \in jar
         /\ answered' = [b \in Builders |-> IF b = p /\ ok THEN answered[b] \cup {node[b]}
                                            ELSE answered[b]]
         /\ todo' = [todo EXCEPT ![p] = Left(p, ok)]
         /\ Goto(p, IF Left(p, ok) # {} THEN "ping"
                    ELSE IF p \in Builders THEN "choose" ELSE "idle")
    /\ node' = [node EXCEPT ![p] = None]
    /\ UNCHANGED <<base, setBy, jar, conf, tuns>>

\* Logout clears the jar, whoever is in the middle of a call; vpnBase stays.
Logout ==
    /\ jar' = {}
    /\ UNCHANGED <<base, setBy, probeMu, calls, conf, tuns>>

\* The response to a login sets the session cookie of the server.
Login ==
    /\ jar' = jar \cup {None}
    /\ UNCHANGED <<base, setBy, probeMu, calls, conf, tuns>>

-----------------------------------------------------------------------------
(***************************************************************************)
(* Servers(probe).                                                         *)
(***************************************************************************)
\* The server lists its nodes to who has a session.
Servers(p) ==
    /\ pc[p] = "idle"
    /\ None \in jar
    /\ todo' = [todo EXCEPT ![p] = Nodes]
    /\ Goto(p, "ping")
    /\ UNCHANGED <<base, setBy, jar, probeMu, node, answered, conf, tuns>>

-----------------------------------------------------------------------------
(***************************************************************************)
(* buildTunnel, and what follows it.                                       *)
(***************************************************************************)
\* ListVPN, then SelectVPN: a pinned node is not pinged.
Select(b, nodes, pinned) ==
    /\ pc[b] = "idle"
    /\ None \in jar
    /\ IF pinned \in nodes
         THEN /\ node' = [node EXCEPT ![b] = pinned]
              /\ Goto(b, "activate")
              /\ UNCHANGED <<todo, conf>>
         ELSE /\ listed' = [listed EXCEPT ![b] = nodes]
              /\ \E s \in {"latency", "default"} : strategy' = [strategy EXCEPT ![b] = s]
              /\ todo' = [todo EXCEPT ![b] = nodes]
              /\ Goto(b, "ping")
              /\ UNCHANGED node
    /\ UNCHANGED <<base, setBy, jar, probeMu, answered, tuns>>

\* Any node that answered may be the fastest; the first node if none did.
Candidates(b) == IF answered[b] = {} THEN {Min(listed[b])} ELSE answered[b]

Choose(b) ==
    /\ pc[b] = "choose"
    /\ \E n \in Candidates(b) : node' = [node EXCEPT ![b] = n]
    /\ answered' = [answered EXCEPT ![b] = {}]
    /\ listed' = [listed EXCEPT ![b] = {}]
    /\ strategy' = [strategy EXCEPT ![b] = "none"]
    /\ Goto(b, "activate")
    /\ UNCHANGED <<base, setBy, jar, probeMu, todo, tuns>>

\* A report on a tunnel of node n goes to the node of vpnBase.
Report(kind, n) == astray' = IF base = n THEN astray ELSE astray \cup {kind}

\* The build's locals go out of scope.
Leave(b) ==
    /\ Goto(b, "idle")
    /\ node' = [node EXCEPT ![b] = None]

\* FetchPeerInfo opens a session on the node of vpnBase; BuildWgConf puts that
\* node's key beside the endpoint of the selected one.  The report of the new
\* tunnel and its installation follow.  One tunnel drains at a time (a bound).
Exchange(b) ==
    /\ pc[b] = "exchange"
    /\ base \in jar
    /\ draining = None
    /\ cur' = [ep |-> node[b], peer |-> base]
    /\ draining' = cur.peer
    /\ Leave(b)
    /\ UNCHANGED <<base, setBy, jar, probeMu, todo, answered, conf, astray>>

\* The node refuses, does not answer, or the session is logged out; or the
\* tunnel is built and not installed, as its connection is gone.
ExchangeFails(b) ==
    /\ pc[b] = "exchange"
    /\ Leave(b)
    /\ UNCHANGED <<base, setBy, jar, probeMu, todo, answered, conf, tuns>>

\* One turn of runReporter.
KeepAlive ==
    /\ cur # NoTunnel
    /\ Report("keepalive", cur.peer)
    /\ UNCHANGED <<base, setBy, jar, probeMu, calls, conf, cur, draining>>

\* The drain of a replaced tunnel ends with its disconnect report.
DrainEnds ==
    /\ draining # None
    /\ Report("disconnect", draining)
    /\ draining' = None
    /\ UNCHANGED <<base, setBy, jar, probeMu, calls, conf, cur>>

\* Disconnect reports and tears down.
Disconnect ==
    /\ cur # NoTunnel
    /\ Report("disconnect", cur.peer)
    /\ cur' = NoTunnel
    /\ UNCHANGED <<base, setBy, jar, probeMu, calls, conf, draining>>

\* A reconnect or a logout tears the tunnel down without a report.
Teardown ==
    /\ cur # NoTunnel
    /\ cur' = NoTunnel
    /\ UNCHANGED <<base, setBy, jar, probeMu, calls, conf, draining, astray>>

Next ==
    \/ \E p \in Procs :
         Copy(p) \/ Set(p) \/ Pinged(p) \/ \E n \in Nodes : Ping(p, n)
    \/ \E p \in Probers : Servers(p)
    \/ \E b \in Builders :
         \/ \E nodes \in (SUBSET Nodes) \ {{}}, pinned \in Nodes \cup {None} :
              Select(b, nodes, pinned)
         \/ Choose(b) \/ Exchange(b) \/ ExchangeFails(b)
    \/ KeepAlive \/ DrainEnds \/ Disconnect \/ Teardown
    \/ Logout \/ Login

Spec == Init /\ [][Next]_vars

-----------------------------------------------------------------------------
\* Who addresses a node has one.
TypeOK ==
    /\ base \in Nodes \cup {None}
    /\ setBy \in Builders \cup {Free}
    /\ jar \subseteq Nodes \cup {None}
    /\ probeMu \in Procs \cup {Free}
    /\ pc \in [Procs -> {"idle", "ping", "copy", "set", "pinged", "choose",
                         "activate", "commit", "exchange"}]
    /\ node \in [Procs -> Nodes \cup {None}]
    /\ \A p \in Procs : pc[p] \notin {"idle", "ping", "choose"} => node[p] \in Nodes
    /\ todo \in [Procs -> SUBSET Nodes]
    /\ answered \in [Builders -> SUBSET Nodes]
    /\ strategy \in [Builders -> {"none", "latency", "default"}]
    /\ listed \in [Builders -> SUBSET Nodes]
    /\ cur \in Tunnels /\ draining \in Nodes \cup {None}
    /\ astray \subseteq {"keepalive", "disconnect"}

\* However many callers probe and builds select, two pings never cross: the
\* ping of a node goes to that node unless the activateNode of another build,
\* which takes no probeMu, came between.
PingsUncrossed ==
    \A p \in Procs :
      pc[p] = "pinged" => base = node[p] \/ setBy \in Builders \ {p}

\* pingNodeLocked serializes probes "so concurrent calls don't race on the
\* shared vpnBase / cookie jar": a ping goes to the node it is for.
PingMeetsOwn == \A p \in Procs : pc[p] = "pinged" => base = node[p]

\* The peer key of a tunnel is that of the node whose endpoint it uses: the
\* Client is for sequential use, and "the owning Manager serializes access".
PeerOfEndpoint == cur.ep = cur.peer

\* runReporter refreshes the status "with the selected node".
KeepAliveToOwner == "keepalive" \notin astray
=============================================================================
