# Verification of corplink-web

corplink-web (`src/web`) is a headless VPN client. It logs in to a CorpLink
server over REST, builds a userspace WireGuard tunnel, and offers that tunnel to
the machine as a local SOCKS5/HTTP proxy. The gateways cut tunnels often, so most
of the program's own logic is about hiding that: a tunnel is replaced while the
proxy keeps serving, a stalled request is retried on the next tunnel, and a
half-received asset is continued where it stopped. This directory holds TLA+
models of that logic, the TLC runs that check them and the TLAPS proofs about
them.

## 1. Inventory

| Part | Source under `src/web` | State | Operations | Module |
|---|---|---|---|---|
| Connection manager | `internal/vpnmgr/manager.go`, `connect.go` | `state`, `device`, `proxy`, `cancelLoops`, `refreshMu`, `lastRefreshAt` | Connect, Disconnect, Logout, Servers, refresh, reconnect, drain, watchdog and refresher loops | `ConnManager`, which implements `Gateway`, and `DisconnectHistory`; its timing in `Rotation` |
| Forward proxy | `internal/corplink/proxy_http.go` | a `forwardState` per request | handleForward, forwardOnce, relayForwardBody, forwardBuffered, finishBuffered, streamOverflowBuffered | `ForwardResume` |
| Asset cache | `internal/corplink/proxy_cache.go` | LRU list, byte account, prefixes | get, put, getPartial, putPartial | `AssetCache`, which implements `AssetSlots` |
| Tunnel swap and kick | `internal/corplink/proxy.go` | `tunGen`, `tunSwapped`, `refreshKick`, `lastKickGen`, recently dialed hosts | SetTunnel, kickRefresh, waitTunnelSwap, dialContext | `TunnelKick` |
| DNS in the tunnel | `internal/corplink/proxy.go` | cache, calls in flight | lookupHost, resolveHost | `DnsLookup` |
| Probe | `internal/vpnmgr/probe.go` | none | probeTunnel | a free verdict in `ConnManager` |
| Admin sessions | `internal/vpnmgr/admin.go`, `internal/server/admin.go` | sessions, failures per client | login, check, lockout | `AdminAuth` |
| Configuration | `internal/vpnmgr/config_ops.go`, `internal/corplink/config.go`, `cookiejar.go` | configuration and cookie files | SetCompany, UpdateConfig, Save, login, logout, persist, start | `Persistence`; `socks_listen` in `ConnManager` |
| Protocol client | `internal/corplink/client.go`, `api.go` | `vpnBase`, cookies | probes, exchange, reports, logins | `NodeSession`, `Persistence` |
| Nodes and routes | `internal/corplink/connect.go`, `wgconf.go` | none | node choice, route carving | `NodeSession`, `RouteCarve` |
| Device | `internal/corplink/netstack.go` | open or closed, counters | open, dial, close | its life in `ConnManager`, its counters in `Rotation` |
| HTTP control plane | `internal/server` | none | one handler per endpoint | `Calls` of `ConnManager`, `Handlers` of `Persistence` |
| Entry point | `cmd/corplink-web` | none | load, serve, disconnect | start and crash in `Persistence` |
| Upstream proxy handshakes, crypto, TOTP, web interface, wireguard-go | | | | not modelled |

How the parts meet:

- a handler of the control plane calls the manager in its own goroutine, so any
  number of Connect, Disconnect, Logout and Servers run at once;
- `connectReal` creates a device and a proxy and starts a refresher, a watchdog
  and samplers under one context; the only thing that ends them is the cancel
  function kept in the manager;
- the refresher builds a second device, swaps the proxy onto it (`SetTunnel`),
  and leaves the first to a drain goroutine; a watchdog that cannot do the same
  tears everything down and reconnects;
- a request that fails on a tunnel kicks the refresher over a channel of
  capacity one and waits for the next generation;
- requests of several clients share the asset cache, and their dials share the
  lookups of host names;
- latency probes, the building of a tunnel, keep-alive and disconnect reports
  share one HTTP client, and with it the address of the node it talks to;
- handlers change one configuration and one cookie jar, each with a lock and a
  file of its own, and a restart reads what they left.

What is hard, and what makes each part correct:

- *Manager.* `m.mu` is held for single critical sections and never across a
  network call, so every operation is several steps that interleave with all
  others. Correct means: each device, listener and context has one owner at any
  time, what is installed is open and complete, what is not installed gets
  released, a user's decision is not undone, and every call ends.
- *Forward proxy.* A response is spliced from several upstream responses which
  may honour, ignore or mis-serve the Range. Correct means: the client sees one
  response, byte for byte, framed as announced, and a request that is not
  idempotent, or has a Range of its own, is sent once.
- *Asset cache.* Only complete 200 responses are stored, within a budget.
- *Kick.* One kick per generation; none lost when it is needed; no request blocks
  on the refresher.
- *Name resolution.* One lookup per host at a time, though the lock is not held
  while the resolver works and the clock is read before the lock is taken; no
  expired address is served; nobody waits for a call that is gone.
- *Timing.* A timer, kicks and a stall verdict ask for a rotation of the same
  tunnel. Correct means: what was noticed before it came up does not rotate it, it is
  rotated in time though requests are coalesced and timers restarted, and a dead
  tunnel is found. (Connections that still drain on the tunnel before it can rotate
  it: KickHasProof, section 4.)
- *Node session.* Requests go to whichever node was set last. Correct means: each
  ping measures the node it names, a tunnel's peer key is that of its endpoint, and a
  report reaches the node it is for. The lock of the pings gives a part of the first
  only (section 4).
- *Persistence.* A crash may come between any two writes. Correct means: the key
  pair survives, a logout stays one, and what was accepted is saved.
- *Admin sessions.* Two bounded tables; an eviction costs as little as it can, and
  nobody is locked out or let in by another client's failures.
- *Routes.* Exactly the addresses the server listed, without the node's own, plus
  the DNS servers.

`PROJECT.json` lists the hazards line by line, with the properties that cover
them; a hazard without a property has a note, most of which point to section 4.

## 2. Modules

**`ConnManager`.** One action is one critical section of `m.mu`, or one release
of resources outside it. Each goroutine has a program counter and its locals:
`hdev` and `hpx` (the device and the proxy it holds), `old` (`oldDevice` of a
refresh), `att` (attempts made) and `ret` (where it continues after teardown). A
proxy stands for the context of its loops too, because `m.proxy` and
`m.cancelLoops` are always set and cleared together. A watchdog that decides to
reconnect runs `go m.reconnect(); return`, so the reconnect takes over the
watchdog's slot. A listener excludes a second one on the same address. Time is
left out: ticks, stall verdicts, failures and the end of a drain come at any
moment. `MCConnManager` adds the symmetry sets. `DisconnectHistory` adds one
history variable: the user asked to disconnect and has not asked to connect since.

**`Gateway`** is what the manager promises of the tunnels it offers, without
goroutines, locks or hands: a device or a proxy is new, spare, installed, retired
and closed, in that order. A device and a proxy are installed together, a device is
exchanged under an installed proxy, and only what was taken out is closed. The
refinement mapping reads the stage off the life of a device, `m.device` and the
goroutines that hold it (`DeviceStage`, `ProxyStage`).

**`ForwardResume`.** Any number of connections ask for one URL. A byte is the
pair of its source and its position, so a lost, repeated or foreign byte shows.
`st` is the `forwardState`, `resp` the response being read, `client` what has
been written to the client, and `attempt`, `zero`, `before` are the counters of
the retry loop. One action is the code between two network operations; one Read
returns any number of bytes. The kinds of requests are immutable assets, other GETs,
HEAD, POST (all that is not idempotent) and `range`, a GET with an open-ended Range of
the caller's own, which is passed on and never retried. The origin (external) has the
representation, an error page or a status without a body (204, 304, 1xx) to give. With
the representation it
answers a plain request with 200, a Range request, whoever's Range it is, with 200 or a
206, which may begin at a wrong offset when the proxy resumes, and a Range past the end
with an error; each with or without a length. A header keeps its status, its length and
where its Content-Range begins, so that what it announces can be compared with what
follows it. Sizes are in
bytes, with `BufferedMax` and `MaxObject` standing for `forwardBufferedMax` and
`assetCacheMaxObject`. `MCForwardResume` adds symmetry. Assumptions:

- `StableOrigin = TRUE`: the origin gives every attempt of the URL the same kind
  of status. Section 4 shows what happens without it.
- A 206 extends to the end of the body, as the open-ended Range asks for, and an
  EOF without an error is the true end of a body without a length.
- The branch of the relay for a total that is still unknown cannot be reached:
  such responses are buffered.

**`AssetCache`.** Every operation runs under `c.mu`, so each is one action. A
response is its size, a prefix is its length. Which prefix goes when the map is
full is a free choice, as Go's map iteration is. **`AssetSlots`** is what it
promises for each URL: a slot holds nothing, a prefix or the complete response; a
prefix only grows until it is superseded or forgotten. Those are the `cached` and
`partial` slots of `ForwardResume`, where forgetting may happen at any time. The
refinement mapping takes `whole` to the keys of the LRU list and `prefix` to the
lengths in `partials`.

**`TunnelKick`.** Generations, the kick channel (nil, empty, full), the requests
of one host and the refresher's select. The critical section of kickRefresh and
the send after it are two actions. The age of the last rotation is one of three
values, cut by the two coalescing floors. `Finish` stands for every end of a
request without a retry, a final error or an exhausted budget included.

**`DnsLookup`.** Callers of lookupHost for one host (hosts do not affect each
other), with a clock. Reading the clock, each critical section of `dnsMu`, each
attempt of the resolver (external: any set of addresses) and each way a follower
wakes are separate actions. The call object is a flag (`inFlight`) and, for those
who wait on it, the outcome it left them in `found`, since a new call may be
registered before they wake.

**`Rotation`.** One connection in discrete time: the refresher with its ticker and
kick channel, the sampler, the watchdog, `refreshMu` and the build that its holder
makes. `ConnManager` leaves all of this open; here the connection stays up and the
intervals are what matters. Instants are ages in units of the sampler's period. A
goroutine that can run does so within the unit: a scheduling delay is small against
every interval the code compares. `evid` records the tunnel that a trigger is
evidence on, so that a rotation for the wrong one shows. A tick that meets a full
ticker channel is lost, as in Go, and `time.Ticker.Reset` drops a pending one.

**`NodeSession`.** `Client.vpnBase`, the hosts whose cookies the jar holds, and the
processes that use them: probes of the node list and any number of builds, which overlap
(a Connect after a Disconnect that met one, a refresh beside a reconnect; `ConnManager`
says when). `setVPNBase` is two steps (copy, set) and a request is a third: it goes to
the node set last. `probeMu` orders pings, and not the `activateNode` of a build; the
history variable `setBy` is the build whose activateNode set the base last. A Logout
empties the jar at any moment, while vpnBase stays; a login fills it again for the
server. Nodes are numbered in the order of the list; a ping may be answered by a node
whose cookies are in the jar. `SelectVPN` is modelled with its strategies and the nodes
it may return. `MCNodeSession` adds symmetry between builds, and follows a behaviour up
to its first stray report, which changes neither the base nor a lock.

**`Persistence`.** The configuration as three fields (key pair, TOTP secret,
upstream proxy), the jar as "holds the session or not", both in memory and on disk.
A write is two steps, truncation and content, each of which may fail or be the last
before a crash; the rename is one. Handlers log in, log out, set the company, update
the proxy and copy cookies. After a crash the program loads what is there, fills in
defaults (a new key pair if there is none) and seeds the device cookies. Connect's
own save of `vpn_server_id` is left out: it writes a field that is not modelled.
`out` and `dirty` are history variables.

**`AdminAuth`.** Every operation is under one lock, so each is one action; a tick
ages everything. An entry of the failure table is the set of the failed logins in
it, each of some age: the code only filters and counts them. The definitions are
called `AdminInit`, `AdminNext` and so on, as those of `RouteCarve` are called
`RouteInit`, `RouteNext`, so that one module can prove about two.

**`RouteCarve`.** `BuildWgConf` as steps: choose the list, take one route, halve it
until only the node is left, add DNS, filter. An address is a family and a sequence
of `W` bits, so carving is modelled bit by bit, and masking by what it does. Entries
that do not parse, unmasked ones and IPv6 are among the inputs. `MCRouteCarve` gives
the sets of inputs.

**`ConnManagerProofs`, `TunnelKickProofs`, `DnsLookupProofs`, `RotationProofs`,
`ForwardResumeProofs`, `PersistenceProofs`, `BuildProofs` (of `NodeSession` and
`RouteCarve`) and `TableProofs` (of `AssetCache` and `AdminAuth`).** The theorems,
section 5.

Definitions named `X_Something` with the comment "Faulty" are not part of any
specification: each is a plausible mistake in `X`, and shows that some property
notices it.

## 3. Runs

| Run | Configuration | Checks | Distinct states |
|---|---|---|---|
| `conn_safety` | `ConnManager_safety.cfg` | InstalledWhole, ServingTunnelOpen, NoOrphans, NothingOverwritten, ImplementsGateway, DisconnectFinal | 324 thousand |
| `conn_live` | `ConnManager_live.cfg` | CallsReturn, ConnectingEnds, RefreshMuFreed, DevicesSettle, LoopsStop | 11 thousand |
| `forward_resume` | `ForwardResume_resume.cfg` | SeamlessBody, KeepAliveFramed, HeaderOnce, SentOnce, RequestsEnd | 13 thousand |
| `forward_shared` | `ForwardResume_shared.cfg` | OnlyWhole200Cached, SharesSlot | 266 thousand |
| `asset_cache` | `AssetCache.cfg` | BudgetExact, EvictsOldestForRoom, ImplementsSlots | 3 thousand |
| `kick` | `TunnelKick_kick.cfg` | OneKickPerGen, RequestsMoveOn | 170 thousand |
| `dns` | `DnsLookup.cfg` | OneFlight, CacheAdvances, ServedFresh, LookupsReturn | 33 thousand |
| `rotation` | `Rotation.cfg` | NoOldEvidence, AgeBounded, DeadDetected, VerdictEarned | 3.8 million |
| `node_session` | `NodeSession.cfg` | PingsUncrossed | 2.4 million |
| `persistence` | `Persistence.cfg` | IdentityKept, LogoutSticks, SavedWhenQuiet | 3.7 million |
| `routes` | `RouteCarve.cfg` | PeerOutside, RoutesExact | 1.1 million |
| `admin` | `AdminAuth.cfg` | AdminTypeOK, SessionKept, RateLimited | 65 thousand |

What they show, in short: the tunnel is installed whole, over no other, and released once, a
tunnel goes through its stages forward only and a Disconnect with no build in its way
is final (`conn_safety`), every call and loop ends (`conn_live`); a response spliced over
several tunnels is one response (`forward_resume`) and only whole ones are shared
and their progress kept (`forward_shared`); the cache's account is exact and it implements the slots
(`asset_cache`); a generation is kicked once and nobody waits for the refresher
(`kick`); a host is resolved once at a time (`dns`); a tunnel is not
rotated for what was noticed before it came up, and is rotated before the gateway's
limit, and a dead one is found (`rotation`); no ping crosses another (`node_session`); identity, logout
and accepted changes survive crashes (`persistence`); the routes are exact
(`routes`); limits of the admin tables cost the least they can (`admin`).

The type invariants of all modules are theorems (section 5). A run repeats only that of
`AdminAuth`, which states the limits of its tables.

Bounds, and why they are enough to meet the interesting cases:

- *Connection manager.* Two calls and two devices let a Disconnect and a second
  Connect race a build, a teardown or a refresh. For the
  safety properties the theorems cover any number. Two proxies give two
  generations of loops, so the watchdog of the first can outlive it. Two attempts
  distinguish the last attempt from the others. `conn_live` uses one call and one
  proxy, since no symmetry may be used with liveness; the loops supply the
  concurrency. Devices and proxies are used up and not reused, which is why the
  system may stop and `CHECK_DEADLOCK` is off in these runs.
- *Forwarding.* Bodies from 0 bytes to one more than each limit
  (`BufferedMax`, `MaxObject`), so both overflow branches run; four attempts with
  two in a row without progress, so both budgets run out. A caller's Range begins at
  the second byte: within the body, at its end or past it. `forward_shared` has two
  clients on one asset.
- *Cache.* Four keys and sizes up to half the budget: eviction of none, one and
  several, replacement by a smaller and by a larger response, a full map of
  prefixes.
- *Kick.* Three generations, so that a request that read one of them meets the
  next and the one after.
- *Name resolution.* A leader, a follower and a suspended third caller; three
  instants and a time to live of one, so that an entry expires and is renewed.
- *Rotation.* The intervals keep the order the code's have (2 < 8 < 18 < 20 s for
  the two floors, the period and the stall limit, a build shorter than the
  handshake limit), with the smallest values that leave a unit between each two.
  Ages stop counting one past the longest interval compared.
- *Node session.* Two nodes are enough to send a request to the wrong one; a
  probe and two builds let pings cross, and one build activate a node while the other
  pings, exchanges or chooses. The theorems cover any number.
- *Persistence.* Two handlers, so that two saves or a login and a logout meet; two
  key pairs, so that a second one would show; a good, a malformed and no proxy.
- *Routes.* Addresses of three bits: carving runs zero to three steps. Two routes
  may overlap or contain each other. The theorems cover every width and list.
- *Admin sessions.* Three tokens for a table of two, some of them expired and shown
  by nobody; two clients for a failure table whose limit of two keeps one entry, and
  four failed logins, twice the threshold, so that a client whose entry was dropped
  passes it. The theorems cover any number.

Fairness:

- *Connection manager.* WF of each goroutine's next step: goroutines are scheduled
  and each network call carries a timeout. SF of LoopExit: a loop selects between
  its cancelled context and its ticker, and Go's select chooses at random, so it
  does not lose forever. WF of Drain: a drain is capped by a timer. Nothing is
  assumed of the user, the server's verdicts or the ticks.
- *Forwarding.* WF of each request's next step before an overflow: every dial, every
  read of a header or of a body and every write of a body has a deadline there, and the
  one write without, the 502 to a client that has nothing yet, fits a socket buffer. The
  copy of an overflow (`proxy_http.go:600`) has none: `:595` and `:599` have cleared
  both, so a client that does not read can hold it forever. No fairness is assumed of
  it, and RequestsEnd says that a request ends or comes to one. Which way a step goes is
  not assumed, and the origin may fail forever.
- *Kick.* WF of a request's own steps; nothing of the refresher, which may never
  run. That is the point of `RequestsMoveOn`.
- *Name resolution.* WF of a caller's own steps: the context of a dial attempt
  bounds each wait. The clock need not move.

The other runs check safety; in `Rotation` time is explicit, so "in time" is
an invariant there and needs no fairness. `routes` ends with each configuration
built, so its deadlock check is off; the others never stop.

## 4. What the runs found

The properties of section 3 hold. These do not: each states what a comment of the
code says, and TLC finds a behaviour of the model that breaks it. Reproduce one with
`tlc -config <configuration> <module>`.

| Property | Module, configuration | What the code says | What it does |
|---|---|---|---|
| DisconnectWins | `DisconnectHistory`, `ConnManager_disconnect.cfg` | `connect.go:671` "a manual disconnect/reconnect raced us; let it win." | `connectReal` publishes (`:78`-`:88`) without looking at the state: a Disconnect that returned while a tunnel was being built is undone. The refresh makes the check that is missing here. |
| ReconnectOwnOnly | `ConnManager`, `ConnManager_stale.cfg` | the same line | The check at `:670` reads only the state. The watchdog of an earlier connection, whose refresh its cancelled context ended, finds the next connection and tears it down. |
| OnlyWhole200Cached | `ForwardResume`, `ForwardResume_late.cfg` | `proxy_cache.go:14` "Only complete, fully-relayed 200 responses are cached" | When an origin answers one attempt with an error page and a later one with 200, the pending bytes of the error page (`proxy_http.go:451`) are continued with the asset and cached as it. |
| OverflowUnframed | `ForwardResume`, `ForwardResume_overflow.cfg` | `proxy_http.go:579` "flush what we have close-delimited" | A buffered body that overflows during a resumed attempt is flushed under the header of the 206 (`:584`), with the Content-Length of the remainder. |
| AnnouncedBody | `ForwardResume`, `ForwardResume_range.cfg` | `proxy_http.go:537` a 206 becomes a 200, as the "client never saw the earlier truncated response" | There is no earlier response when the Range was the caller's own: a 206 without a length is buffered (`:451`) and sent as a complete 200 without its Content-Range, so the end of a body passes for all of it. The overflow of the row above breaks it too. |
| SuppressedOnlyWhenKicked | `TunnelKick`, `TunnelKick_drop.cfg` | `proxy.go:233` "At most one kick fires per tunnel generation: once a rotation is on its way, further failures on the same dying tunnel add no information" | `lastKickGen` starts at 0, which is also the first generation (`:240`): the first tunnel of a connection is never kicked. A kick whose refresh was coalesced or failed is not repeated either. |
| KickHasProof | `Rotation`, `Rotation_proof.cfg` | `connect.go:435` "Kicked refreshes carry live proof the current tunnel is dead (a request stalled on it)" | A connection that stalls while it drains on the old tunnel kicks the new one, and past the two second floor the new one is rotated for it. |
| PingMeetsOwn | `NodeSession`, `NodeSession_ping.cfg` | `client.go:558` the lock "serializes a probe so concurrent calls don't race on the shared vpnBase / cookie jar" | The `activateNode` of another build (`client.go:614`) does not take it: between a ping's setVPNBase and its request the base becomes another node, whose answer then counts for the one pinged. |
| PeerOfEndpoint | `NodeSession`, `NodeSession_peer.cfg` | `client.go:33` "safe for sequential use; the owning Manager serializes access." | A latency probe between the choice of a node and FetchPeerInfo sends the exchange to the probed node; the tunnel gets one node's endpoint and another's peer key. |
| KeepAliveToOwner | `NodeSession`, `NodeSession_report.cfg` | `connect.go:335` "refreshes the device connection status with the selected node" | The report goes to the node that was probed last. |
| RejectedStaysOut | `Persistence`, `Persistence_rejected.cfg` | `config_ops.go:118` "A malformed value is rejected here" | It is in the configuration by then (`:113`), and the next Save of any operation writes it. |
| ProxyInSync | `Persistence`, `Persistence_sync.cfg` | `config.go:224` "Client.SetUpstreamProxy keeps it in sync with config changes" | Two updates store in one order and apply in the other (`client.go:97`), and the proxy in use stays another than the one configured. |

Observed behaviour of the code that no run asserts:

- An overflow whose client stops reading never ends: both deadlines are cleared before
  the copy (`proxy_http.go:595`-`:600`).
- Logout clears the jar (`client.go:647`) while vpnBase stays, also between the two steps
  of setVPNBase: a request may then meet a node without a session, which refuses it.
- The state shown can differ from whether the proxy is up. Servers and
  `buildTunnel` set logged_out while a proxy serves, and a finishing Disconnect or
  failing Connect may set logged_in after another call has connected.
- A reconnect that finds the session logged out ends with logged_in
  (`connect.go:695`), so the login prompt announced in the repository's README does
  not show.
- kickRefresh kicks the generation that is current when it runs. A failure noticed
  just after a swap would rotate the fresh tunnel away, but for the floor of two
  seconds (NoOldEvidence).
- A malformed upstream proxy also keeps the other fields of the same update from
  being saved, though they are in force in memory.
- A crash while the cookie file is written leaves a torn file, which the next start
  reads as no session: the user must log in again.
- `buildTunnel` is documented not to touch the manager's state (`connect.go:99`), and
  sets logged_out at `:105` and `:122`.
- RequestEmailCode (`client.go:392`) discards the server's answer, so a refusal is
  reported as success.
- With a user name, `socks5Greet` (`upstream.go:239`) offers only password
  authentication and then treats its acceptance as an error.
- When `socks_listen` changes between two overlapping builds, both can listen, and
  the second publication overwrites the first pair, which is then never released.
  `NoOrphans` is therefore stated for a fixed address.
- Several documented durations differ from the constants in the code: the README
  gives 90 s for the drain cap, 25 s for `proxyDialTimeout`, 5 s per dial attempt
  and 6 s for `forwardStallTimeout`; the code has 600, 60, 8 and 4 s.

## 5. Proofs

TLAPS checks all of these for every value of the constants.

`ConnManagerProofs`, from `ConstAssumption` (the nil values are not devices or
proxies, calls are not loops, there is an address, the attempts are positive):

- **Ownership**: `Spec => []IInv`. `IInv` is the inductive invariant.
  InstalledWhole alone is not inductive: that what Publish or RefreshInstall
  installs is open depends on what other goroutines may do to it meanwhile. So
  `IInv` says who owns what: `LockInv` (a goroutine is inside a refresh exactly
  when it holds `refreshMu`), `SpawnInv` (loops exist only for proxies that were
  published), `DeviceInv` and `ProxyInv` (what a goroutine holds, or the manager
  has installed, is open), `Disjoint` (no two owners of one device or proxy),
  `DrainInv` (a draining device is open and not installed), `RefreshInv` (while the
  proxy a refresh works for is installed, so is its old device) and `TunnelInv` (the
  installed proxy dials through the installed device, or through the one a refresh
  has just swapped in). There is one lemma per action.
- **TypeCorrect**, **InstalledWholeAlways** and **ServingTunnelOpenAlways** follow
  from `IInv`.
- **NoOrphansAlways** assumes `OneAddr`, a fixed listen address, and adds
  `PortInv`: at most one proxy listens on an address. This is what excludes a
  second publication over an installed pair. Without `OneAddr` the statement is
  false (section 4).
- **NothingOverwrittenAlways**, from `OneAddr` and `PortInv` too: who is about to publish
  listens on the one address, so no installed proxy can.
- **ConnImplementsGateway**: `Spec => Gate!Spec`. One lemma for each kind of step says
  which step of `Gateway` it is: a failed listen, a failed probe and an abandoned refresh
  are all `Discard`, the critical section of teardown is `TakeOut`, its release and a
  drain are `Close`. What they rest on is the half of `IInv` about hands: what a
  goroutine is about to install or close is in no other hands and not installed.
- **DisconnectFinalAlways**: the positive half of DisconnectWins (section 4). Nothing
  but a build publishes, and a build starts with Connect or from a reconnect that found
  the state connected. The invariant it adds is `ReturnInv`: only a goroutine inside
  teardown still has the return address of a reconnect.

`TunnelKickProofs`, from `KickAssumption` (`MaxGen` is a natural number):

- **KickInvariant**: `Spec => []KInv`. The send happens after the unlock, so the
  invariant says what a goroutine on its way to the send may rely on: its
  generation is at most `lastKickGen`, nobody has kicked it, and no other goroutine
  is about to (`KickedBelow`, `SenderAlone`).
- **OneKick**: at most one kick per generation, for any number of requests.
- **KickTypeCorrect**: the types, which `KInv` includes.

`DnsLookupProofs`, from `DnsAssumption` (the fake addresses are addresses, the time
to live and the number of attempts are positive):

- **DnsInvariant**: `Spec => []DInv`. CacheAdvances relates the stored entry to a
  clock that was read long before; the link is `ExpiredInv`: by the clock of the
  caller that resolves, the stored entry has expired. That is checked once, under
  the lock, and stays true only because nobody else can store meanwhile, which is
  OneFlight.
- **DnsTypeCorrect**, **OneFlightAlways** and **CacheAdvancesAlways** follow, for
  any number of callers and any delays.
- **ServedFreshAlways** adds `FreshInv`: an entry expires no later than its time to live
  after its answer *arrived*, because the clock that dates it was read before the lookup
  began.

`RotationProofs`, from `RotationAssumption` (the intervals are ordered as the code's
are, and the watchdog's period and a build are short beside the handshake limit):

- **RotationInvariant**: `Spec => []RotInv`. None of the run's invariants is inductive;
  `RotInv` adds what ties them together. `OldInv`: evidence on a tunnel that was
  replaced exists only in the instant of the swap, when every refresh is coalesced.
  `FloorInv`: as long as a refresh would be coalesced, the tunnel is no older than the
  last refresh. `AgeInv`: the age of the tunnel and the time to the refresher's next
  tick are together at most the period and the floor; a coalesced tick keeps that
  because of `FloorInv`. `SilenceInv` and `LoadInv`: what the sampler recorded is at
  most one unit behind the bytes and dials, and not ahead of them. `WatchInv`: the
  silence, or the load, and the time to the watchdog's next tick stay within the bound.
- **RotationTypeCorrect**, **NoOldEvidenceAlways**, **AgeBoundedAlways** (from
  `AgeInv`), **DeadDetectedAlways** (from `WatchInv`) and the action property
  **VerdictEarnedAlways** (from `SilenceInv`) follow, for all intervals in that order
  and so for the code's: 2, 8, 18 and 20 s, a watchdog that runs every 5 s, a handshake
  limit of 210 s.

`ForwardResumeProofs`, from `ForwardAssumption` (the lengths are natural numbers, the
numbers of attempts and the start of a caller's Range positive):

- **ForwardInvariant**: `Spec => []FInv`. `FInv` is one predicate per connection and one
  for the shared cache. Of a connection: `ControlOf` (the client has been sent a header
  exactly if `headerSent`, until then all that was received is pending, and what is never
  sent again makes its one attempt with nothing received), and, with
  an origin that answers every attempt alike (`StableOrigin`), `ReceivedOf` (what was
  received is the first `Progress` bytes of the body), `RestOf` (the response being
  read continues it, less the bytes to skip), `FrameOf` (the body and the length the
  header announced) and `CaptureOf` (what is captured is what the client was sent). The last is what makes
  the cache's half inductive, and the cache's half is what makes a replayed prefix
  satisfy `ReceivedOf`: neither can be proved alone. They
  all speak of one body of those the request may be given (`Wholes`): the kind of request
  and the origin determine it, but for a caller's own Range, which may be answered with
  all of the representation, the part asked for or an error. The facts about bodies are
  lemmas: concatenation, subsequences, prefixes.
- **ForwardTypeCorrect**, **HeaderOnceAlways** and **SentOnceAlways** hold for every
  origin, and any number of connections, attempts and bytes.
- **SeamlessBodyAlways** says that the client receives a prefix of one body, and that the
  header announced that body but in the two cases AnnouncedBody shows (section 4).
  **SeamlessBodyAlways**, **KeepAliveFramedAlways** and **OnlyWhole200CachedAlways**
  assume `StableOrigin`. Without it they are false, and the code cannot know: section 4.
- **ForwardSharesSlot**: `Spec => Slots!Spec`, with the URL's two cache entries as one slot
  of `AssetSlots`. Together with **CacheImplementsSlots** this closes the gap between the
  two models: what requests do to the cache in `ForwardResume` is what the cache of
  `AssetCache` provides. The step is `Moves`, what any action may do to the two entries;
  the invariant is that one of them is empty (`OneForm`).

`PersistenceProofs`, from `PersistenceAssumption` (the start of the program is not a
handler, no process is called "free", to have no proxy is a well-formed value):

- **PersistenceInvariant**: `Spec => []PInv`. A crash may come between any two steps, so
  the files have to be right at every moment, and what is right depends on who is where:
  `ControlInv` (which step belongs to which operation), `JarLock` and the lock part of
  TypeOK (who writes which file), `KeyInv` (the key pair in memory, in the copy that is
  being saved, in the temporary file and in the file), `LogoutInv` (what a logout has
  cleared so far stays cleared) and `PendingInv` (a change in memory that is not in the
  file is in the copy being saved, or somebody will save it).
- **PersistenceTypeCorrect**, **IdentityKeptAlways**, **LogoutSticksAlways** and
  **SavedWhenQuietAlways** follow, for any number of handlers and values.

`TableProofs`, from `CacheAssumption` and `AdminAssumption` (the limits are positive):

- **CacheTypeCorrect** and **OneFormAlways**: the maps hold what put and putPartial
  let in, and no asset is held both whole and as a prefix.
- **CacheImplementsSlots**: `Spec => Slots!Spec`, for any keys, sizes and budget. The
  invariant `SlotInv` is the two statements above; each operation, with all its
  evictions, changes each slot in a way `AssetSlots` allows.
- **AccountInvariant**: `Spec => []AccountInv`: the list has each stored key once and no
  other, and the account is the sum of their sizes. A sum over a set is defined by a
  recursion the provers cannot unfold for every set, so its laws (the empty set, one
  element more, a union) are lemmas of their own, each proved from a smallest
  counterexample: the natural numbers are well founded. The list needs lemmas on what
  removing an element and cutting off the end leave.
- **BudgetExactAlways** follows, with **PrefixesBoundedAlways** for the prefixes: after
  any replacements and evictions the account is exact and within the budget.
- **EvictsOldestAlways**: put evicts from the back of the list and stops as soon as the
  new response fits. The heart is that evicting one response less would leave the account
  above the budget (`OldestOneMore`).
- **AdminInvariant**: `AdminSpec => []AdminInv`. The properties of the run are inductive
  once it is known that what was issued and remembered is finite (`FiniteInv`), so that
  cardinalities can be compared; there is no bound on clients or tokens. The heart is
  that the session a login evicts is outnumbered by those it leaves and the new one.
- **AdminTypeCorrect**, **SessionKeptAlways** and **RateLimitedAlways** follow.

`BuildProofs`, from `RouteAssumption` (the sets of inputs contain addresses, prefixes
and the junk entry) and `NodeAssumption` (there is a node, a build is not a probe, and
no process is called "free"):

- **RouteInvariant**: `RouteSpec => []RouteInv`. RoutesExact speaks of the end only; what
  holds on the way is `CarveInv`: what is still to be carved, what is being carved and
  what is done cover together what the server listed, and the node is only in the
  part that is not done. The lemmas say that masking a prefix does not change what
  it contains, that a prefix is the disjoint union of its halves, and that one of
  full length contains one address.
- **RouteTypeCorrect**, **RoutesExactAlways**, **PeerOutsideAlways** follow, for
  every width of addresses and every list of routes.
- **NodeInvariant**: `Spec => []NodeInv`. PingsUncrossed says that the base a ping
  meets is its own, or that of a node which another build has activated since; what
  keeps it so is `LockInv` (who is inside pingNodeLocked holds `probeMu`, so no other
  ping sets the base) and `BuildInv` (only a build is ever in activateNode, and a build
  that is there is not pinging).
- **NodeTypeCorrect** and **PingsUncrossedAlways** follow, for any number of nodes,
  probes and builds that overlap. The first rests on the fact that the least
  element of a node list is in it, from the well-foundedness of the natural numbers.

Each inductive invariant was checked by TLC on the instances of section 3 before it was
proved, `FInv` also with an origin whose answers differ.

Only model-checked: the liveness properties (fairness and ENABLED are beyond the
prover) and the refutations of section 4.

## 6. Not modelled

- Byte pipes: CONNECT, SOCKS relaying, upgrades, upstream proxy handshakes.
- Pure standard algorithms: crypto, TOTP. Formatting: UAPI text, JSON, logging, the
  rates the status shows.
- How strict a probe is in each attempt of a build (`probe.go`): its verdict is free.
- Third-party login polls a server and stores nothing until it ends like the other
  logins; `CheckTpsToken` is one request.
- The final disconnect of the entry point, the web interface, and wireguard-go: a
  vendored transport with a small local bind, whose state is not this program's.

## 7. Plan

Every safety property, action property and refinement of the runs is a theorem. What is
left is breadth: the upstream proxy handshakes, the status rates and the probe's own
strictness are not modelled, and the liveness properties stay with TLC.
